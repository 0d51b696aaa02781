------------------------ MODULE EditionCreate_proofs ------------------------
(***************************************************************************)
(* Theorems about EditionCreate for every number of runs, of retained      *)
(* reports and of recovery tokens.  The inductive invariant is             *)
(*                                                                         *)
(*   Types /\ Gate /\ WriteOnce /\ Progress /\ Verified                   *)
(*     /\ AnswersAreHonest                                                 *)
(*                                                                         *)
(* Gate says what the profile gate excludes, WriteOnce what the journal    *)
(* knows of writes, Progress where the request at hand stands.             *)
(***************************************************************************)
EXTENDS EditionCreate, FiniteSetTheorems, WellFoundedInduction, TLAPS

USE DEF requestVars, worldVars

---------------------------------------------------------------------------
(* The invariant                                                           *)

Outcomes == {"none", "not_submitted", "failed"} \cup Pending
Actions == [outcome : Outcomes, tok : Nat]
Errors == {"resolve", "refused", "ambiguous", "importFailed", "wrongFormat",
           "unconfirmed", "mappingMissing", "recoveryUnavailable",
           "saveAfter", "exists"}
Steps == {"idle", "prepare", "send", "confirm", "save", "clear", "read",
          "answer", "unmatch"}
Ops == [kind : {"none", "create", "check", "forget"}, run : 0..MaxRuns,
        pc : Steps, act : Actions, made : Matches, sent : BOOLEAN,
        err : SUBSET Errors]

\* Only pending actions keep a recovery token, and it was signed.
Tokened ==
  \A r \in Runs :
    /\ journal[r].tok \in 0..Len(tokens)
    /\ journal[r].tok # 0 => journal[r].outcome \in Pending

\* The types of all variables, with those of the records inside them.
Types ==
  /\ audible \in BOOLEAN /\ syncing \in BOOLEAN /\ mapped \in BOOLEAN
  /\ records \in [Runs -> Records] /\ assoc \in Matches
  /\ journal \in [Runs -> Actions]
  /\ wire \in [Runs -> BOOLEAN] /\ writes \in [Runs -> {0, 1}]
  /\ op \in Ops
  /\ tokens \in Seq(Runs) /\ expired \subseteq DOMAIN tokens
  /\ remote \in {"none", "fetching", "failed"} \cup Terminal
  /\ Tokened

\* A sync and a request exclude each other; a sync has a run to publish; a
\* request names a run whose report is retained.
Gate ==
  /\ syncing => op = NoOp /\ LastRun < MaxRuns
  /\ op.kind \in {"create", "check"} =>
       op.run \in Runs /\ records[op.run] \in {"review", "import"}
  /\ op.kind = "none" => op.pc = "idle"
  /\ op.kind = "create" => op.pc \in {"prepare", "send", "confirm", "save", "clear", "answer"}
  /\ op.kind = "check" => op.pc \in {"read", "save", "clear", "answer"}
  /\ op.kind = "forget" => op.pc = "unmatch"

\* Without a match, only runs that the journal blocks were written for.
WriteOnce ==
  /\ assoc = "none" =>
       \A r \in Runs : writes[r] = 0 \/ journal[r].outcome \in Pending \cup {"failed"}
  /\ \A r \in Runs : records[r] = "none" => writes[r] = 0

\* A create in progress has no match yet; it wrote nothing before it sent, and
\* from then on the journal has its action.
Progress ==
  /\ op.kind = "create" /\ op.pc \in {"prepare", "send", "confirm", "save"}
       => assoc = "none"
  /\ op.kind = "create" /\ op.pc = "prepare" =>
       /\ writes[op.run] = 0 /\ ~op.sent
       /\ journal[op.run] = [outcome |-> "not_submitted", tok |-> 0]
  /\ op.kind = "create" /\ op.pc = "send" => writes[op.run] = 0 /\ ~op.sent
  /\ op.kind = "create" /\ op.pc \in {"send", "confirm"} =>
       /\ journal[op.run] = op.act
       /\ op.act.outcome = "unconfirmed" /\ op.act.tok \in 0..Len(tokens)
  /\ op.kind = "create" /\ op.pc = "save" =>
       journal[op.run].outcome \in Pending \cup {"failed"}
  /\ op.pc \in {"clear", "unmatch"} => assoc # "none"

\* MatchIsVerified, and what is about to be saved was read back.
Verified ==
  /\ MatchIsVerified
  /\ op.pc = "save" =>
       \/ op.made = "plain" /\ remote = "right"
       \/ op.made = "confirmed" /\ remote \in {"right", "otherBook"}

IInv == Types /\ Gate /\ WriteOnce /\ Progress /\ Verified /\ AnswersAreHonest

---------------------------------------------------------------------------
(* What the operators yield                                                *)

\* The actions that the journal keeps of a refused, an ambiguous and a failed
\* request.
LEMMA FinalizedActions ==
  /\ Finalized({"refused"}, 0) = [outcome |-> "not_submitted", tok |-> 0]
  /\ \A t \in Nat : Finalized({"ambiguous"}, t) =
       [outcome |-> IF t # 0 THEN "unconfirmed" ELSE "transport_unknown", tok |-> t]
  /\ \A err \in {{"importFailed"}, {"wrongFormat"}, {"mappingMissing"}}, t \in Nat :
       Finalized(err, t) = [outcome |-> "failed", tok |-> 0]
<1>1. Finalized({"refused"}, 0) = [outcome |-> "not_submitted", tok |-> 0]
  BY DEF Finalized, ActionOutcome, Outcome, Pending
<1>2. ASSUME NEW t \in Nat
      PROVE  Finalized({"ambiguous"}, t) =
        [outcome |-> IF t # 0 THEN "unconfirmed" ELSE "transport_unknown", tok |-> t]
  BY DEF Finalized, ActionOutcome, Outcome, Pending
<1>3. ASSUME NEW err \in {{"importFailed"}, {"wrongFormat"}, {"mappingMissing"}},
             NEW t \in Nat
      PROVE  Finalized(err, t) = [outcome |-> "failed", tok |-> 0]
  <2>1. "ambiguous" \notin err /\ "unconfirmed" \notin err OBVIOUS
  <2>2. Outcome(err) = "failed" BY DEF Outcome
  <2> QED BY <2>1, <2>2 DEF Finalized, ActionOutcome, Pending
<1> QED BY <1>1, <1>2, <1>3

\* Members of the sets that type a request.
LEMMA Members ==
  /\ NoAction \in Actions /\ NoOp \in Ops
  /\ {} \in SUBSET Errors /\ \A e \in Errors : {e} \in SUBSET Errors
  /\ {"resolve", "refused", "ambiguous", "importFailed", "wrongFormat",
      "unconfirmed", "mappingMissing", "recoveryUnavailable", "saveAfter",
      "exists"} = Errors
  /\ {"idle", "prepare", "send", "confirm", "save", "clear", "read", "answer",
      "unmatch"} = Steps
  /\ \A o \in Outcomes, t \in Nat : [outcome |-> o, tok |-> t] \in Actions
  /\ {"none", "not_submitted", "failed", "unconfirmed", "transport_unknown",
      "created"} = Outcomes
<1>1. NoAction \in Actions BY DEF NoAction, Actions, Outcomes
<1>2. {} \in SUBSET Errors OBVIOUS
<1>3. NoOp \in Ops
  BY <1>1, <1>2, EditionAssumption DEF NoOp, Ops, Matches, Steps
<1>4. \A e \in Errors : {e} \in SUBSET Errors OBVIOUS
<1> QED BY <1>1, <1>2, <1>3, <1>4 DEF Errors, Steps, Actions, Outcomes, Pending

\* The outcomes that answers name.
LEMMA OutcomeOfErrors ==
  /\ Outcome({"refused"}) = "not_submitted"
  /\ Outcome({"ambiguous"}) = "unconfirmed"
  /\ Outcome({"saveAfter"}) = "created"
  /\ \A err \in {{"importFailed"}, {"wrongFormat"}} : Outcome(err) = "failed"
BY DEF Outcome

\* Definite answers are failures.
LEMMA DefiniteErrors ==
  /\ Definite \subseteq {{"importFailed"}, {"wrongFormat"}}
  /\ CheckErrors \subseteq {{"importFailed"}, {"wrongFormat"}, {"mappingMissing"}}
BY DEF Definite, CheckErrors

\* What is journalled of a definite failure.
LEMMA FailedAction ==
  ASSUME Types, NEW err \in CheckErrors, NEW t \in Nat
  PROVE  /\ Finalized(err, t) = [outcome |-> "failed", tok |-> 0]
         /\ [outcome |-> "failed", tok |-> 0] \in Actions
         /\ err \in SUBSET Errors /\ "ambiguous" \notin err /\ err # {}
<1>1. err \in {{"importFailed"}, {"wrongFormat"}, {"mappingMissing"}}
  BY DefiniteErrors
<1>2. Finalized(err, t) = [outcome |-> "failed", tok |-> 0]
  BY <1>1, FinalizedActions
<1> QED BY <1>1, <1>2, Members

\* The Max of FiniteSetsExt is a maximum on every nonempty set of run numbers.
LEMMA MaxOfNumbers ==
  ASSUME NEW n \in Nat, NEW S \in SUBSET (0..n), S # {}
  PROVE  Max(S) \in S /\ \A x \in S : x <= Max(S)
<1> DEFINE Above(x) == {y \in S : y > x}
           Family == {Above(x) : x \in S}
<1>1. IsFiniteSet(0..n)
  BY FS_Interval
<1>2. Family \subseteq FiniteSubsetsOf(0..n)
  BY <1>1, FS_FiniteSubsetsOfFinite
<1>3. PICK A \in Family :
        \A B \in Family : <<B, A>> \notin StrictSubsetOrdering(0..n)
  <2>1. Family # {} OBVIOUS
  <2> HIDE DEF Family
  <2> QED BY <1>2, <2>1, FS_StrictSubsetOrderingWellFounded, WFMin
<1>4. PICK m \in S : A = Above(m) OBVIOUS
<1>5. \A y \in S : m >= y
  <2> SUFFICES ASSUME NEW y \in S, ~(m >= y) PROVE FALSE OBVIOUS
  <2>1. y > m /\ m \in Int /\ y \in Int OBVIOUS
  <2>2. y \in Above(m) /\ y \notin Above(y) BY <2>1
  <2>3. Above(y) \subseteq Above(m)
    <3> SUFFICES ASSUME NEW z \in S, z > y PROVE z > m OBVIOUS
    <3>1. z \in Int OBVIOUS
    <3> QED BY <2>1, <3>1
  <2>4. <<Above(y), Above(m)>> \in StrictSubsetOrdering(0..n)
    BY <2>2, <2>3 DEF StrictSubsetOrdering
  <2> QED BY <1>3, <1>4, <2>4
<1>6. Max(S) \in S /\ \A x \in S : Max(S) >= x
  BY <1>5 DEF Max
<1> QED BY <1>6

\* LastRun is the newest retained run, or 0.
LEMMA LastRunIsNewest ==
  /\ LastRun \in 0..MaxRuns
  /\ \A r \in Runs : records[r] # "none" => r <= LastRun
<1> DEFINE S == {0} \cup {r \in Runs : records[r] # "none"}
<1>1. S \in SUBSET (0..MaxRuns) /\ S # {} BY EditionAssumption DEF Runs
<1>2. LastRun = Max(S) BY DEF LastRun
<1> HIDE DEF S
<1>3. LastRun \in S /\ \A x \in S : x <= LastRun
  BY <1>1, <1>2, MaxOfNumbers, EditionAssumption
<1> QED BY <1>1, <1>3 DEF S

\* It changes with the records only.
LEMMA LastRunStays == UNCHANGED records => UNCHANGED LastRun
BY DEF LastRun
---------------------------------------------------------------------------
(* What the steps do, field by field                                       *)

\* The request at hand after a step.
Becomes(kind, run, pc, act, made, sent, err) ==
  /\ op' \in Ops
  /\ op' = [kind |-> kind, run |-> run, pc |-> pc, act |-> act,
            made |-> made, sent |-> sent, err |-> err]

\* The journal of run r after a step; a best-effort save may have failed.
Journals(r, act) ==
  /\ journal' \in [Runs -> Actions]
  /\ journal'[r] = act
  /\ \A s \in Runs \ {r} : journal'[s] = journal[s]
MayJournal(r, act) == UNCHANGED journal \/ Journals(r, act)

NotSubmitted == [outcome |-> "not_submitted", tok |-> 0]
FailedForGood == [outcome |-> "failed", tok |-> 0]

Refuses ==
  /\ op.kind = "create" /\ op.pc \in {"prepare", "send"}
  /\ MayJournal(op.run, NotSubmitted)
  /\ \E made \in Matches :
       Becomes(op.kind, op.run, "answer", NoAction, made, op.sent, {"refused"})
  /\ UNCHANGED <<assoc, tokens, wire, writes, worldVars>>

Submits ==
  /\ op.kind = "create" /\ op.pc = "prepare"
  /\ tokens' \in Seq(Runs) /\ Len(tokens) <= Len(tokens')
  /\ DOMAIN tokens \subseteq DOMAIN tokens'
  /\ \E tok \in 0..Len(tokens') :
       LET act == [outcome |-> "unconfirmed", tok |-> tok]
       IN  /\ Journals(op.run, act)
           /\ Becomes(op.kind, op.run, "send", act, op.made, op.sent, op.err)
  /\ UNCHANGED <<assoc, wire, writes, worldVars>>

Adopts ==
  /\ op.kind = "create" /\ op.pc = "send"
  /\ Becomes(op.kind, op.run, "confirm", op.act, op.made, op.sent, op.err)
  /\ UNCHANGED <<journal, assoc, tokens, wire, writes, worldVars>>

Sends ==
  /\ op.kind = "create" /\ op.pc = "send"
  /\ Becomes(op.kind, op.run, "confirm", op.act, op.made, TRUE, op.err)
  /\ wire' = [wire EXCEPT ![op.run] = TRUE]
  /\ writes' = [writes EXCEPT ![op.run] = @ + 1]
  /\ UNCHANGED <<journal, assoc, tokens, worldVars>>

Leaves ==
  /\ op.kind = "create" /\ op.pc = "confirm"
  /\ \E act \in Actions :
       /\ act.outcome \in {"unconfirmed", "transport_unknown"}
       /\ act.tok = op.act.tok
       /\ MayJournal(op.run, act)
       /\ Becomes(op.kind, op.run, "answer", act, op.made, op.sent, {"ambiguous"})
  /\ UNCHANGED <<assoc, tokens, wire, writes, worldVars>>

Fails ==
  /\ \/ op.kind = "create" /\ op.pc = "confirm"
     \/ op.kind = "check" /\ op.pc = "read"
  /\ MayJournal(op.run, FailedForGood)
  /\ \E err \in {"importFailed", "wrongFormat", "mappingMissing"}, made \in Matches :
       /\ op.kind = "create" => err # "mappingMissing"
       /\ Becomes(op.kind, op.run, "answer", NoAction, made, op.sent, {err})
  /\ UNCHANGED <<assoc, tokens, wire, writes, worldVars>>

\* The edition that a match of this kind would name was read back.
WasRead(made) ==
  /\ made \in {"plain", "confirmed"}
  /\ made = "plain" => remote = "right"
  /\ remote \in {"right", "otherBook"}

Confirms ==
  /\ op.kind = "create" /\ op.pc = "confirm"
  /\ \E made \in Matches :
       LET act == [outcome |-> "created", tok |-> op.act.tok]
       IN  /\ WasRead(made)
           /\ MayJournal(op.run, act)
           /\ Becomes(op.kind, op.run, "save", act, made, op.sent, op.err)
  /\ UNCHANGED <<assoc, tokens, wire, writes, worldVars>>

GivesUp ==
  /\ op.kind = "check" /\ op.pc = "read"
  /\ Becomes(op.kind, op.run, "answer", NoAction, "none", op.sent, {"unconfirmed"})
  /\ UNCHANGED <<journal, assoc, tokens, wire, writes, worldVars>>

CheckConfirms ==
  /\ op.kind = "check" /\ op.pc = "read"
  /\ \E made \in Matches :
       /\ WasRead(made)
       /\ Becomes(op.kind, op.run, "save", op.act, made, op.sent, op.err)
  /\ UNCHANGED <<journal, assoc, tokens, wire, writes, worldVars>>

SavesMatch ==
  /\ op.pc = "save" /\ assoc = "none" /\ assoc' = op.made
  /\ Becomes(op.kind, op.run, "clear", NoAction, "none", op.sent, op.err)
  /\ UNCHANGED <<journal, tokens, wire, writes, worldVars>>

KeepsMatch ==
  /\ op.pc = "save" /\ assoc # "none"
  /\ Becomes(op.kind, op.run, "clear", NoAction, "none", op.sent, op.err)
  /\ UNCHANGED <<journal, assoc, tokens, wire, writes, worldVars>>

MissesMatch ==
  /\ op.pc = "save"
  /\ \E err \in {"saveAfter", "exists"} :
       /\ err = "saveAfter" <=> assoc = "none"
       /\ Becomes(op.kind, op.run, "answer", NoAction, "none", op.sent, {err})
  /\ UNCHANGED <<journal, assoc, tokens, wire, writes, worldVars>>

Clears ==
  /\ op.pc = "clear"
  /\ UNCHANGED journal \/ journal' = ClearedJournal
  /\ Becomes(op.kind, op.run, "answer", NoAction, "none", op.sent, {})
  /\ UNCHANGED <<assoc, tokens, wire, writes, worldVars>>

\* What a record must be for a request to name it.
Named(r) == records[r] \in {"review", "import"}

Repeats(r) ==
  /\ op = NoOp /\ ~syncing /\ assoc = "none" /\ Named(r)
  /\ journal[r].outcome \notin {"none", "not_submitted"}
  /\ Becomes("create", r, "answer", journal[r], "none", FALSE, {"resolve"})
  /\ UNCHANGED <<journal, assoc, tokens, wire, writes, worldVars>>

Admits(r) ==
  /\ op = NoOp /\ ~syncing /\ assoc = "none" /\ Named(r)
  /\ journal[r].outcome \in {"none", "not_submitted"}
  /\ Journals(r, NotSubmitted)
  /\ Becomes("create", r, "prepare", NotSubmitted, "none", FALSE, {})
  /\ UNCHANGED <<assoc, tokens, wire, writes, worldVars>>

Checks(r) ==
  /\ op = NoOp /\ ~syncing /\ Named(r)
  /\ Becomes("check", r, "read", NoAction, "none", FALSE, {})
  /\ UNCHANGED <<journal, assoc, tokens, wire, writes, worldVars>>

Revokes(r) ==
  /\ op = NoOp /\ ~syncing /\ Named(r)
  /\ journal[r].outcome \in Pending /\ Revocable(r)
  /\ MayJournal(r, [outcome |-> "transport_unknown", tok |-> 0])
  /\ Becomes("check", r, "answer", NoAction, "none", FALSE, {"recoveryUnavailable"})
  /\ UNCHANGED <<assoc, tokens, wire, writes, worldVars>>

Forgets ==
  /\ op = NoOp /\ ~syncing /\ assoc # "none"
  /\ journal' = ClearedJournal
  /\ Becomes("forget", 0, "unmatch", NoAction, "none", FALSE, {})
  /\ UNCHANGED <<assoc, tokens, wire, writes, worldVars>>

Effect ==
  \/ Refuses \/ Submits \/ Adopts \/ Sends \/ Leaves \/ Fails \/ Confirms
  \/ GivesUp \/ CheckConfirms \/ SavesMatch \/ KeepsMatch \/ MissesMatch
  \/ Clears \/ ForgetSaves \/ Respond
  \/ \E r \in Runs : \/ Repeats(r) \/ Admits(r) \/ Delivered(r) \/ Lost(r)
                     \/ Checks(r) \/ Revokes(r)
  \/ Forgets \/ SyncStarts \/ SyncMatches \/ SyncUnmatches \/ SyncEnds
  \/ RotateToken \/ TokenExpires \/ RemoteMoves \/ Crash
  \/ UNCHANGED vars

\* A request that stays of its kind and run keeps its type.
LEMMA Moved ==
  ASSUME Types, NEW pc \in Steps, NEW act \in Actions, NEW made \in Matches,
         NEW sent \in BOOLEAN, NEW err \in SUBSET Errors,
         op' = [op EXCEPT !.pc = pc, !.act = act, !.made = made, !.sent = sent, !.err = err]
  PROVE  Becomes(op.kind, op.run, pc, act, made, sent, err)
<1>1. op \in Ops BY DEF Types
<1> HIDE DEF Steps, Actions, Matches, Errors
<1>2. op' = [kind |-> op.kind, run |-> op.run, pc |-> pc, act |-> act,
             made |-> made, sent |-> sent, err |-> err]
  BY <1>1 DEF Ops
<1>3. op' \in Ops BY <1>1, <1>2 DEF Ops
<1> QED BY <1>2, <1>3 DEF Becomes

\* A request that begins has its type.
LEMMA Begun ==
  ASSUME NEW kind \in {"create", "check", "forget"}, NEW run \in 0..MaxRuns,
         NEW pc \in Steps, NEW act \in Actions, NEW err \in SUBSET Errors,
         op' = [NoOp EXCEPT !.kind = kind, !.run = run, !.pc = pc, !.act = act, !.err = err]
  PROVE  Becomes(kind, run, pc, act, "none", FALSE, err)
<1>1. NoOp \in Ops /\ NoOp.made = "none" /\ NoOp.sent = FALSE
  BY Members DEF NoOp
<1>2. op' = [kind |-> kind, run |-> run, pc |-> pc, act |-> act,
             made |-> NoOp.made, sent |-> NoOp.sent, err |-> err]
  BY <1>1 DEF Ops
<1>3. op' \in Ops BY <1>1, <1>2 DEF Ops
<1> QED BY <1>1, <1>2, <1>3 DEF Becomes

\* The fields of the idle gate.
LEMMA NoOpFields ==
  /\ NoOp \in Ops /\ NoOp.run = 0 /\ NoOp.act = NoAction /\ NoOp.err = {}
  /\ NoOp.kind = "none" /\ NoOp.pc = "idle"
BY Members DEF NoOp

\* A best-effort save leaves the journal or sets the one run.
LEMMA SavedRow ==
  ASSUME Types, NEW r \in Runs, NEW act \in Actions, Saved(r, act)
  PROVE  MayJournal(r, act)
BY DEF Types, Saved, MayJournal, Journals

\* What is journalled of a step at a known run.
LEMMA Rows ==
  ASSUME Types, NEW r \in Runs, NEW act \in Actions
  PROVE  /\ journal' = [journal EXCEPT ![r] = act] => Journals(r, act)
         /\ Saved(r, act) => MayJournal(r, act)
BY SavedRow DEF Types, Journals

\* The steps of a create and of a check, each as one of the effects.
LEMMA RequestEffects ==
  ASSUME Types, Gate, Progress, Request
  PROVE  Effect
<1> USE DEF At
<1>a. op \in Ops BY DEF Types
<1>b. ASSUME op.kind \in {"create", "check"} PROVE op.run \in Runs
  BY <1>b DEF Gate
<1>c. /\ op.act \in Actions /\ op.made \in Matches /\ op.sent \in BOOLEAN
      /\ op.err \in SUBSET Errors /\ op.pc \in Steps
  BY <1>a DEF Ops
<1>d. op.act.tok \in Nat BY <1>c DEF Actions
<1>e. NotSubmitted \in Actions /\ FailedForGood \in Actions
  BY Members DEF NotSubmitted, FailedForGood
<1>f. "none" \in Matches /\ "plain" \in Matches /\ "confirmed" \in Matches
  BY DEF Matches
<1>1. ASSUME op.kind = "create", op.pc \in {"prepare", "send"},
             Saved(op.run, Finalized({"refused"}, 0)),
             \/ op' = [op EXCEPT !.pc = "answer", !.err = {"refused"}, !.act = NoAction]
             \/ Answer({"refused"}),
             UNCHANGED <<assoc, tokens, wire, writes, worldVars>>
      PROVE  Refuses
  <2>1. MayJournal(op.run, NotSubmitted)
    BY <1>1, <1>b, <1>e, Rows, FinalizedActions DEF NotSubmitted
  <2>2. PICK made \in Matches :
          op' = [op EXCEPT !.pc = "answer", !.act = NoAction, !.made = made,
                           !.sent = op.sent, !.err = {"refused"}]
    <3>1. CASE Answer({"refused"})
      BY <1>a, <1>f, <3>1 DEF Answer, Ops
    <3>2. CASE op' = [op EXCEPT !.pc = "answer", !.err = {"refused"}, !.act = NoAction]
      BY <1>a, <1>c, <3>2 DEF Ops
    <3> QED BY <1>1, <3>1, <3>2
  <2>3. {"refused"} \in SUBSET Errors /\ NoAction \in Actions /\ "answer" \in Steps
    BY Members
  <2>4. Becomes(op.kind, op.run, "answer", NoAction, made, op.sent, {"refused"})
    BY <1>c, <2>2, <2>3, Moved
  <2> QED BY <1>1, <2>1, <2>4 DEF Refuses
<1>2. CASE PrepareFails BY <1>1, <1>2 DEF PrepareFails, Effect
<1>3. CASE Prepare
  <2> DEFINE tok == IF audible THEN Len(tokens) + 1 ELSE 0
             act == [outcome |-> "unconfirmed", tok |-> tok]
  <2>1. CASE /\ journal' = [journal EXCEPT ![op.run] = act]
             /\ tokens' = IF audible THEN Append(tokens, op.run) ELSE tokens
             /\ op' = [op EXCEPT !.pc = "send", !.act = act]
    <3>1. op.kind = "create" /\ op.pc = "prepare" /\ op.run \in Runs
          /\ UNCHANGED <<assoc, wire, writes, worldVars>>
      BY <1>3, <1>b DEF Prepare
    <3>2. /\ tokens' \in Seq(Runs) /\ Len(tokens) <= Len(tokens')
          /\ DOMAIN tokens \subseteq DOMAIN tokens'
          /\ tok \in 0..Len(tokens')
      BY <2>1, <3>1 DEF Types
    <3>3. act \in Actions /\ "send" \in Steps BY <3>2, Members
    <3>4. Journals(op.run, act) BY <2>1, <3>1, <3>3, Rows
    <3> HIDE DEF act, tok
    <3>5. op' = [op EXCEPT !.pc = "send", !.act = act, !.made = op.made,
                           !.sent = op.sent, !.err = op.err]
      BY <1>a, <2>1 DEF Ops
    <3>6. Becomes(op.kind, op.run, "send", act, op.made, op.sent, op.err)
      BY <1>c, <3>3, <3>5, Moved
    <3>7. Submits BY <3>1, <3>2, <3>4, <3>6 DEF Submits, act
    <3> QED BY <3>7 DEF Effect
  <2>2. CASE Saved(op.run, Finalized({"refused"}, 0)) /\ Answer({"refused"}) /\ UNCHANGED tokens
    BY <1>1, <1>3, <2>2 DEF Prepare, Effect
  <2> QED BY <1>3, <2>1, <2>2 DEF Prepare
<1>4. CASE WriteDenied BY <1>1, <1>4 DEF WriteDenied, Refused, Effect
<1>5. CASE InsertionRefused BY <1>1, <1>5 DEF InsertionRefused, Refused, Effect
<1>6. CASE Adopt
  <2>1. op' = [op EXCEPT !.pc = "confirm", !.act = op.act, !.made = op.made,
                         !.sent = op.sent, !.err = op.err]
    BY <1>a, <1>6 DEF Ops, Adopt
  <2>2. Becomes(op.kind, op.run, "confirm", op.act, op.made, op.sent, op.err)
    <3>1. "confirm" \in Steps BY Members
    <3> QED BY <1>c, <2>1, <3>1, Moved
  <2> QED BY <1>6, <2>2 DEF Adopt, Adopts, Effect
<1>7. CASE At("create", "send") /\ Sent
  <2>1. op' = [op EXCEPT !.pc = "confirm", !.act = op.act, !.made = op.made,
                         !.sent = TRUE, !.err = op.err]
    BY <1>a, <1>7 DEF Ops, Sent
  <2>2. Becomes(op.kind, op.run, "confirm", op.act, op.made, TRUE, op.err)
    BY <1>c, <2>1, Members, Moved
  <2> QED BY <1>7, <2>2 DEF Sent, Sends, Effect
<1>8. CASE SendImport BY <1>7, <1>8 DEF SendImport
<1>9. CASE SendInsertion BY <1>7, <1>9 DEF SendInsertion
<1>10. CASE At("create", "confirm") /\ Unsettled
  <2> DEFINE act == [outcome |-> IF op.act.tok # 0 THEN "unconfirmed"
                                 ELSE "transport_unknown",
                     tok |-> op.act.tok]
  <2>1. /\ act \in Actions /\ act.outcome \in {"unconfirmed", "transport_unknown"}
        /\ act.tok = op.act.tok
    BY <1>d, Members
  <2>2. Finalized({"ambiguous"}, op.act.tok) = act BY <1>d, FinalizedActions
  <2> HIDE DEF act
  <2>3. /\ Saved(op.run, act)
        /\ op' = [op EXCEPT !.pc = "answer", !.err = {"ambiguous"}, !.act = act]
        /\ UNCHANGED <<assoc, tokens, wire, writes, worldVars>>
    BY <1>10, <2>2 DEF Unsettled
  <2>4. op' = [op EXCEPT !.pc = "answer", !.act = act, !.made = op.made,
                         !.sent = op.sent, !.err = {"ambiguous"}]
    BY <1>a, <2>3 DEF Ops
  <2>5. {"ambiguous"} \in SUBSET Errors /\ "answer" \in Steps BY Members
  <2>6. Becomes(op.kind, op.run, "answer", act, op.made, op.sent, {"ambiguous"})
    BY <1>c, <2>1, <2>4, <2>5, Moved
  <2>7. MayJournal(op.run, act) BY <1>10, <1>b, <2>1, <2>3, Rows
  <2> QED BY <1>10, <2>1, <2>3, <2>6, <2>7 DEF Leaves, Effect
<1>11. CASE AnswerLost BY <1>10, <1>11 DEF AnswerLost
<1>12. CASE PollUnsettled BY <1>10, <1>12 DEF PollUnsettled
<1>13. CASE InsertionUnsettled BY <1>10, <1>13 DEF InsertionUnsettled
<1>14. CASE ConfirmFailed
  <2>1. PICK e \in Definite :
         /\ Saved(op.run, Finalized(e, op.act.tok))
         /\ op' = [op EXCEPT !.pc = "answer", !.err = e, !.act = NoAction]
    BY <1>14 DEF ConfirmFailed
  <2>2. PICK err \in {"importFailed", "wrongFormat"} : e = {err}
    BY <2>1, DefiniteErrors
  <2>3. Finalized(e, op.act.tok) = FailedForGood
    BY <1>d, <2>2, FinalizedActions DEF FailedForGood
  <2>4. op.run \in Runs /\ MayJournal(op.run, FailedForGood)
    BY <1>14, <1>b, <1>e, <2>1, <2>3, Rows DEF ConfirmFailed
  <2>5. op' = [op EXCEPT !.pc = "answer", !.act = NoAction, !.made = op.made,
                         !.sent = op.sent, !.err = {err}]
    BY <1>a, <2>1, <2>2 DEF Ops
  <2>6. {err} \in SUBSET Errors /\ NoAction \in Actions /\ "answer" \in Steps
    BY <2>2, Members
  <2>7. Becomes(op.kind, op.run, "answer", NoAction, op.made, op.sent, {err})
    BY <1>c, <2>5, <2>6, Moved
  <2>8. Fails BY <1>14, <1>c, <2>2, <2>4, <2>7 DEF ConfirmFailed, Fails
  <2> QED BY <2>8 DEF Effect
<1>15. CASE Confirm
  <2>1. PICK anchored \in Anchorings :
         /\ ReadBack(anchored)
         /\ Saved(op.run, [outcome |-> "created", tok |-> op.act.tok])
         /\ op' = [op EXCEPT !.pc = "save", !.act = [outcome |-> "created", tok |-> op.act.tok],
                             !.made = IF anchored THEN "plain" ELSE "confirmed"]
    BY <1>15 DEF Confirm
  <2> DEFINE act == [outcome |-> "created", tok |-> op.act.tok]
             made == IF anchored THEN "plain" ELSE "confirmed"
  <2>2. act \in Actions /\ made \in Matches /\ "save" \in Steps
    BY <1>d, <1>f, Members
  <2>3. WasRead(made) BY <2>1 DEF ReadBack, AskedFor, WasRead
  <2> HIDE DEF act, made
  <2>4. MayJournal(op.run, act)
    BY <1>15, <1>b, <2>1, <2>2, Rows DEF Confirm, act
  <2>5. op' = [op EXCEPT !.pc = "save", !.act = act, !.made = made,
                         !.sent = op.sent, !.err = op.err]
    BY <1>a, <2>1 DEF Ops, act, made
  <2>6. Becomes(op.kind, op.run, "save", act, made, op.sent, op.err)
    BY <1>c, <2>2, <2>5, Moved
  <2>7. Confirms BY <1>15, <2>2, <2>3, <2>4, <2>6 DEF Confirm, Confirms, act
  <2> QED BY <2>7 DEF Effect
<1>16. CASE CheckUnconfirmed
  <2>1. op' = [op EXCEPT !.pc = "answer", !.act = NoAction, !.made = "none",
                         !.sent = op.sent, !.err = {"unconfirmed"}]
    BY <1>a, <1>16 DEF CheckUnconfirmed, Answer, Ops
  <2>2. {"unconfirmed"} \in SUBSET Errors /\ NoAction \in Actions /\ "answer" \in Steps
    BY Members
  <2>3. Becomes(op.kind, op.run, "answer", NoAction, "none", op.sent, {"unconfirmed"})
    BY <1>c, <1>f, <2>1, <2>2, Moved
  <2> QED BY <1>16, <2>3 DEF CheckUnconfirmed, GivesUp, Effect
<1>17. CASE CheckFailed
  <2>1. PICK e \in CheckErrors :
         /\ Saved(op.run, Finalized(e, 0))
         /\ op' = [op EXCEPT !.pc = "answer", !.err = e, !.act = NoAction, !.made = "none"]
    BY <1>17 DEF CheckFailed, Answer
  <2>2. PICK err \in {"importFailed", "wrongFormat", "mappingMissing"} : e = {err}
    BY <2>1, DefiniteErrors
  <2>3. Finalized(e, 0) = FailedForGood
    BY <2>2, FinalizedActions DEF FailedForGood
  <2>4. op.run \in Runs /\ MayJournal(op.run, FailedForGood)
    BY <1>17, <1>b, <1>e, <2>1, <2>3, Rows DEF CheckFailed
  <2>5. op' = [op EXCEPT !.pc = "answer", !.act = NoAction, !.made = "none",
                         !.sent = op.sent, !.err = {err}]
    BY <1>a, <2>1, <2>2 DEF Ops
  <2>6. {err} \in SUBSET Errors /\ NoAction \in Actions /\ "answer" \in Steps
    BY <2>2, Members
  <2>7. Becomes(op.kind, op.run, "answer", NoAction, "none", op.sent, {err})
    BY <1>c, <1>f, <2>5, <2>6, Moved
  <2>8. Fails BY <1>17, <1>f, <2>2, <2>4, <2>7 DEF CheckFailed, Fails
  <2> QED BY <2>8 DEF Effect
<1>18. CASE CheckConfirmed
  <2> DEFINE made == IF records[op.run] = "import" THEN "confirmed" ELSE "plain"
  <2>1. made \in Matches /\ "save" \in Steps BY <1>f, Members
  <2>2. WasRead(made) BY <1>18 DEF CheckConfirmed, ReadBack, AskedFor, Anchored, WasRead
  <2>3. op' = [op EXCEPT !.pc = "save", !.made = made]
    BY <1>18 DEF CheckConfirmed, Anchored
  <2> HIDE DEF made
  <2>4. op' = [op EXCEPT !.pc = "save", !.act = op.act, !.made = made,
                         !.sent = op.sent, !.err = op.err]
    BY <1>a, <2>3 DEF Ops
  <2>5. Becomes(op.kind, op.run, "save", op.act, made, op.sent, op.err)
    BY <1>c, <2>1, <2>4, Moved
  <2>6. CheckConfirms BY <1>18, <2>1, <2>2, <2>5 DEF CheckConfirmed, CheckConfirms
  <2> QED BY <2>6 DEF Effect
<1>19. CASE SaveMatch
  <2>1. ASSUME op' = [op EXCEPT !.pc = "clear", !.act = NoAction, !.made = "none"]
        PROVE  Becomes(op.kind, op.run, "clear", NoAction, "none", op.sent, op.err)
    <3>1. op' = [op EXCEPT !.pc = "clear", !.act = NoAction, !.made = "none",
                           !.sent = op.sent, !.err = op.err]
      BY <1>a, <2>1 DEF Ops
    <3>2. NoAction \in Actions /\ "clear" \in Steps BY Members
    <3> QED BY <1>c, <1>f, <3>1, <3>2, Moved
  <2>2. ASSUME NEW err \in {"saveAfter", "exists"}, Answer({err})
        PROVE  Becomes(op.kind, op.run, "answer", NoAction, "none", op.sent, {err})
    <3>1. op' = [op EXCEPT !.pc = "answer", !.act = NoAction, !.made = "none",
                           !.sent = op.sent, !.err = {err}]
      BY <1>a, <2>2 DEF Ops, Answer
    <3>2. {err} \in SUBSET Errors /\ NoAction \in Actions /\ "answer" \in Steps
      BY Members
    <3> QED BY <1>c, <1>f, <3>1, <3>2, Moved
  <2>3. op.pc = "save" /\ UNCHANGED <<journal, tokens, wire, writes, worldVars>>
    BY <1>19 DEF SaveMatch
  <2>4. CASE /\ assoc = "none" /\ assoc' = op.made
             /\ op' = [op EXCEPT !.pc = "clear", !.act = NoAction, !.made = "none"]
    BY <2>1, <2>3, <2>4 DEF SavesMatch, Effect
  <2>5. CASE assoc = "none" /\ Answer({"saveAfter"}) /\ UNCHANGED assoc
    BY <2>2, <2>3, <2>5 DEF MissesMatch, Effect
  <2>6. CASE /\ assoc # "none" /\ UNCHANGED assoc
             /\ op' = [op EXCEPT !.pc = "clear", !.act = NoAction, !.made = "none"]
    BY <2>1, <2>3, <2>6 DEF KeepsMatch, Effect
  <2>7. CASE assoc # "none" /\ Answer({"exists"}) /\ UNCHANGED assoc
    BY <2>2, <2>3, <2>7 DEF MissesMatch, Effect
  <2> QED BY <1>19, <2>4, <2>5, <2>6, <2>7 DEF SaveMatch
<1>20. CASE ClearJournal
  <2>1. op' = [op EXCEPT !.pc = "answer", !.act = NoAction, !.made = "none",
                         !.sent = op.sent, !.err = {}]
    BY <1>a, <1>20 DEF ClearJournal, Answer, Ops
  <2>2. Becomes(op.kind, op.run, "answer", NoAction, "none", op.sent, {})
    <3>1. {} \in SUBSET Errors /\ NoAction \in Actions /\ "answer" \in Steps
      BY Members
    <3> QED BY <1>c, <1>f, <2>1, <3>1, Moved
  <2> QED BY <1>20, <2>2 DEF ClearJournal, Clears, Effect
<1>21. CASE ForgetSaves BY <1>21 DEF Effect
<1>22. CASE Respond BY <1>22 DEF Effect
<1> QED
  BY <1>2, <1>3, <1>4, <1>5, <1>6, <1>8, <1>9, <1>11, <1>12, <1>13, <1>14,
     <1>15, <1>16, <1>17, <1>18, <1>19, <1>20, <1>21, <1>22 DEF Request

\* Every step is one of the effects.
LEMMA Effects ==
  ASSUME Types, Gate, Progress, [Next]_vars
  PROVE  Effect
<1> USE DEF Named, Usable
<1>1. CASE Request BY <1>1, RequestEffects
<1>2. ASSUME NEW r \in Runs, CreateRefused(r) PROVE Effect
  <2>1. journal[r] \in Actions /\ r \in 0..MaxRuns BY DEF Types, Runs
  <2>2. {"resolve"} \in SUBSET Errors /\ "answer" \in Steps BY Members
  <2>3. Becomes("create", r, "answer", journal[r], "none", FALSE, {"resolve"})
    BY <1>2, <2>1, <2>2, Begun DEF CreateRefused
  <2>4. Repeats(r) BY <1>2, <2>3 DEF CreateRefused, Repeats
  <2> QED BY <2>4 DEF Effect
<1>3. ASSUME NEW r \in Runs, CreateAdmitted(r) PROVE Effect
  <2>1. NotSubmitted \in Actions /\ r \in 0..MaxRuns
    BY Members DEF Runs, NotSubmitted
  <2>2. {} \in SUBSET Errors /\ "prepare" \in Steps BY Members
  <2>3. op' = [NoOp EXCEPT !.kind = "create", !.run = r, !.pc = "prepare",
                           !.act = NotSubmitted, !.err = {}]
    BY <1>3, NoOpFields DEF CreateAdmitted, NotSubmitted, Ops
  <2>4. Becomes("create", r, "prepare", NotSubmitted, "none", FALSE, {})
    BY <2>1, <2>2, <2>3, Begun
  <2>5. Journals(r, NotSubmitted)
    BY <1>3, <2>1, Rows DEF CreateAdmitted, NotSubmitted
  <2>6. Admits(r) BY <1>3, <2>4, <2>5 DEF CreateAdmitted, Admissible, Admits
  <2> QED BY <2>6 DEF Effect
<1>4. ASSUME NEW r \in Runs, Delivered(r) \/ Lost(r) PROVE Effect
  BY <1>4 DEF Effect
<1>5. ASSUME NEW r \in Runs, NEW pc \in Steps, NEW err \in SUBSET Errors, Check(r, pc, err)
      PROVE  Becomes("check", r, pc, NoAction, "none", FALSE, err)
  <2>1. NoAction \in Actions /\ r \in 0..MaxRuns BY Members DEF Runs
  <2>2. op' = [NoOp EXCEPT !.kind = "check", !.run = r, !.pc = pc,
                           !.act = NoAction, !.err = err]
    BY <1>5, NoOpFields DEF Check, Ops
  <2> QED BY <2>1, <2>2, Begun
<1>6. ASSUME NEW r \in Runs, NEW t \in 0..MaxTokens, CheckAdmitted(r, t) PROVE Effect
  <2>1. Becomes("check", r, "read", NoAction, "none", FALSE, {})
    BY <1>5, <1>6, Members DEF CheckAdmitted
  <2>2. Checks(r) BY <1>6, <2>1 DEF CheckAdmitted, RecoveryTransition, Checks
  <2> QED BY <2>2 DEF Effect
<1>7. ASSUME NEW r \in Runs, NEW t \in 0..MaxTokens, CheckRevokes(r, t) PROVE Effect
  <2>1. {"recoveryUnavailable"} \in SUBSET Errors /\ "answer" \in Steps BY Members
  <2>2. Becomes("check", r, "answer", NoAction, "none", FALSE, {"recoveryUnavailable"})
    BY <1>5, <1>7, <2>1 DEF CheckRevokes
  <2>3. [outcome |-> "transport_unknown", tok |-> 0] \in Actions BY Members
  <2>4. MayJournal(r, [outcome |-> "transport_unknown", tok |-> 0])
    BY <1>7, <2>3, Rows DEF CheckRevokes
  <2>5. Revokes(r) BY <1>7, <2>2, <2>4 DEF CheckRevokes, Revokes
  <2> QED BY <2>5 DEF Effect
<1>8. CASE Forget
  <2>1. op' = [NoOp EXCEPT !.kind = "forget", !.run = 0, !.pc = "unmatch",
                           !.act = NoAction, !.err = {}]
    BY <1>8, NoOpFields DEF Forget, Ops
  <2>2. Becomes("forget", 0, "unmatch", NoAction, "none", FALSE, {})
    <3>1. /\ 0 \in 0..MaxRuns /\ "unmatch" \in Steps /\ NoAction \in Actions
          /\ {} \in SUBSET Errors
      BY Members, EditionAssumption
    <3> QED BY <2>1, <3>1, Begun
  <2> QED BY <1>8, <2>2 DEF Forget, Forgets, Effect
<1>9. CASE SyncStarts \/ SyncMatches \/ SyncUnmatches \/ SyncEnds \/ RotateToken
           \/ TokenExpires \/ RemoteMoves \/ Crash \/ UNCHANGED vars
  BY <1>9 DEF Effect
<1> QED BY <1>1, <1>2, <1>3, <1>4, <1>6, <1>7, <1>8, <1>9 DEF Next

---------------------------------------------------------------------------
(* The invariant is kept                                                   *)

\* A journalled action keeps the tokens as they should be.
LEMMA RowTokened ==
  ASSUME Types, NEW r \in Runs, NEW act \in Actions,
         act.tok # 0 => act.outcome \in Pending,
         tokens' \in Seq(Runs), Len(tokens) <= Len(tokens'), act.tok <= Len(tokens'),
         MayJournal(r, act)
  PROVE  Tokened' /\ journal' \in [Runs -> Actions]
<1>1. Len(tokens) \in Nat /\ Len(tokens') \in Nat /\ act.tok \in Nat
  BY DEF Types, Actions
<1>2. \A s \in Runs : journal[s].tok \in 0..Len(tokens')
  BY <1>1 DEF Types, Tokened
<1>3. journal' \in [Runs -> Actions]
  BY DEF Types, MayJournal, Journals
<1>4. ASSUME NEW s \in Runs
      PROVE  journal'[s] = journal[s] \/ journal'[s] = act
  BY DEF MayJournal, Journals
<1> QED BY <1>1, <1>2, <1>3, <1>4 DEF Types, Tokened

\* An empty journal has no tokens.
LEMMA ClearedTokened ==
  ASSUME Types, journal' = ClearedJournal, UNCHANGED tokens
  PROVE  Tokened' /\ journal' \in [Runs -> Actions]
<1>1. journal' \in [Runs -> Actions] BY Members DEF ClearedJournal
<1>2. \A s \in Runs : journal'[s].tok = 0 BY DEF ClearedJournal, NoAction
<1> QED BY <1>1, <1>2 DEF Types, Tokened

\* What keeps a written run blocked.
LEMMA RowWritten ==
  ASSUME Types, WriteOnce, NEW r \in Runs, NEW act \in Actions,
         writes[r] = 0 \/ act.outcome \in Pending \cup {"failed"},
         MayJournal(r, act), UNCHANGED <<assoc, writes, records>>
  PROVE  WriteOnce'
<1>1. ASSUME NEW s \in Runs
      PROVE  journal'[s] = journal[s] \/ (s = r /\ journal'[s] = act)
  BY DEF MayJournal, Journals
<1> QED BY <1>1 DEF WriteOnce

\* Every step keeps the types.
LEMMA StepTypes ==
  ASSUME Types, Gate, Progress, [Next]_vars
  PROVE  Types'
<1>1. CASE Refuses
  <2>1. NotSubmitted \in Actions /\ NotSubmitted.tok = 0 /\ op.run \in Runs
    BY <1>1, Members DEF NotSubmitted, Refuses, Gate
  <2>2. Tokened' /\ journal' \in [Runs -> Actions]
    BY <1>1, <2>1, RowTokened DEF Refuses, Types
  <2> QED BY <1>1, <2>2 DEF Refuses, Becomes, Types
<1>2. CASE Submits
  <2>1. PICK tok \in 0..Len(tokens') :
           /\ Journals(op.run, [outcome |-> "unconfirmed", tok |-> tok])
           /\ op' \in Ops
    BY <1>2 DEF Submits, Becomes
  <2>2. [outcome |-> "unconfirmed", tok |-> tok] \in Actions /\ op.run \in Runs
    BY <1>2, Members DEF Submits, Gate
  <2>3. Tokened' /\ journal' \in [Runs -> Actions]
    BY <1>2, <2>1, <2>2, RowTokened DEF Submits, Pending, MayJournal
  <2> QED BY <1>2, <2>1, <2>3 DEF Submits, Types
<1>3. CASE Adopts
  BY <1>3 DEF Adopts, Becomes, Types, Tokened, Runs
<1>4. CASE Sends
  <2>1. op.run \in Runs /\ writes[op.run] = 0 BY <1>4 DEF Sends, Gate, Progress
  <2>2. wire' \in [Runs -> BOOLEAN] /\ writes' \in [Runs -> {0, 1}]
    BY <1>4, <2>1 DEF Sends, Types
  <2> QED BY <1>4, <2>2 DEF Sends, Becomes, Types, Tokened
<1>5. CASE Leaves
  <2>1. PICK act \in Actions :
           /\ act.outcome \in {"unconfirmed", "transport_unknown"}
           /\ act.tok = op.act.tok
           /\ MayJournal(op.run, act)
           /\ op' \in Ops
    BY <1>5 DEF Leaves, Becomes
  <2>2. op.run \in Runs /\ act.tok <= Len(tokens)
    BY <1>5, <2>1 DEF Leaves, Gate, Progress
  <2>3. Tokened' /\ journal' \in [Runs -> Actions]
    BY <1>5, <2>1, <2>2, RowTokened DEF Leaves, Pending, Types
  <2> QED BY <1>5, <2>1, <2>3 DEF Leaves, Types
<1>6. CASE Fails
  <2>1. FailedForGood \in Actions /\ FailedForGood.tok = 0 /\ op.run \in Runs
    BY <1>6, Members DEF FailedForGood, Fails, Gate
  <2>2. Tokened' /\ journal' \in [Runs -> Actions]
    BY <1>6, <2>1, RowTokened DEF Fails, Types
  <2> QED BY <1>6, <2>2 DEF Fails, Becomes, Types
<1>7. CASE Confirms
  <2>1. /\ MayJournal(op.run, [outcome |-> "created", tok |-> op.act.tok])
        /\ op' \in Ops
    BY <1>7 DEF Confirms, Becomes
  <2>2. /\ op.run \in Runs /\ op.act.tok <= Len(tokens)
        /\ [outcome |-> "created", tok |-> op.act.tok] \in Actions
    BY <1>7, Members DEF Confirms, Gate, Progress
  <2>3. Tokened' /\ journal' \in [Runs -> Actions]
    BY <1>7, <2>1, <2>2, RowTokened DEF Confirms, Pending, Types
  <2> QED BY <1>7, <2>1, <2>3 DEF Confirms, Types
<1>8. CASE GivesUp
  BY <1>8 DEF GivesUp, Becomes, Types, Tokened, Runs
<1>9. CASE CheckConfirms
  BY <1>9 DEF CheckConfirms, Becomes, Types, Tokened, Runs
<1>10. CASE SavesMatch
  BY <1>10 DEF SavesMatch, Becomes, Ops, Types, Tokened, Runs
<1>11. CASE KeepsMatch
  BY <1>11 DEF KeepsMatch, Becomes, Types, Tokened, Runs
<1>12. CASE MissesMatch
  BY <1>12 DEF MissesMatch, Becomes, Types, Tokened, Runs
<1>13. CASE Clears
  <2>1. Tokened' /\ journal' \in [Runs -> Actions]
    BY <1>13, ClearedTokened DEF Clears, Types, Tokened
  <2> QED BY <1>13, <2>1 DEF Clears, Becomes, Types
<1>14. CASE ForgetSaves
  <2>1. op' \in Ops /\ assoc' \in Matches /\ writes' \in [Runs -> {0, 1}]
    BY <1>14, NoOpFields DEF ForgetSaves, Types, Matches
  <2> QED BY <1>14, <2>1 DEF ForgetSaves, Types, Tokened
<1>15. CASE Respond
  <2> QED BY <1>15, NoOpFields DEF Respond, Types, Tokened
<1>16. ASSUME NEW r \in Runs, Repeats(r) PROVE Types'
  BY <1>16 DEF Repeats, Becomes, Types, Tokened, Runs
<1>17. ASSUME NEW r \in Runs, Admits(r) PROVE Types'
  <2>1. NotSubmitted \in Actions /\ NotSubmitted.tok = 0
    BY Members DEF NotSubmitted
  <2>2. Tokened' /\ journal' \in [Runs -> Actions]
    BY <1>17, <2>1, RowTokened DEF Admits, Types, MayJournal
  <2> QED BY <1>17, <2>2 DEF Admits, Becomes, Types
<1>18. ASSUME NEW r \in Runs, Delivered(r) PROVE Types'
  BY <1>18 DEF Delivered, Terminal, Types, Tokened, Runs
<1>19. ASSUME NEW r \in Runs, Lost(r) PROVE Types'
  BY <1>19 DEF Lost, Types, Tokened, Runs
<1>20. ASSUME NEW r \in Runs, Checks(r) PROVE Types'
  BY <1>20 DEF Checks, Becomes, Types, Tokened, Runs
<1>21. ASSUME NEW r \in Runs, Revokes(r) PROVE Types'
  <2>1. [outcome |-> "transport_unknown", tok |-> 0] \in Actions BY Members
  <2>2. Tokened' /\ journal' \in [Runs -> Actions]
    BY <1>21, <2>1, RowTokened DEF Revokes, Types
  <2> QED BY <1>21, <2>2 DEF Revokes, Becomes, Types
<1>22. CASE Forgets
  <2>1. Tokened' /\ journal' \in [Runs -> Actions]
    BY <1>22, ClearedTokened DEF Forgets
  <2> QED BY <1>22, <2>1 DEF Forgets, Becomes, Types
<1>23. CASE SyncStarts
  BY <1>23 DEF SyncStarts, Types, Tokened, Runs
<1>24. CASE SyncMatches
  BY <1>24 DEF SyncMatches, Matches, Types, Tokened, Runs
<1>25. CASE SyncUnmatches
  BY <1>25 DEF SyncUnmatches, Matches, Types, Tokened, Runs
<1>26. CASE SyncEnds
  <2> DEFINE r == LastRun + 1
             kept(s) == s > r - Retention
  <2>1. PICK rec \in NewRecords :
           /\ records' = [s \in Runs |-> IF s = r THEN rec ELSE IF kept(s) THEN records[s] ELSE "none"]
           /\ journal' = [s \in Runs |-> IF kept(s) /\ s # r THEN journal[s] ELSE NoAction]
           /\ writes' = [s \in Runs |-> IF kept(s) /\ s # r THEN writes[s] ELSE 0]
    BY <1>26 DEF SyncEnds
  <2> HIDE DEF r, kept
  <2>2. rec \in Records BY DEF NewRecords, Records
  <2>3. records' \in [Runs -> Records] BY <2>1, <2>2 DEF Types, Records
  <2>4. writes' \in [Runs -> {0, 1}] BY <2>1 DEF Types
  <2>5. journal' \in [Runs -> Actions] BY <2>1, Members DEF Types
  <2>6. \A s \in Runs : journal'[s] = journal[s] \/ journal'[s] = NoAction
    BY <2>1
  <2>7. Tokened' BY <1>26, <2>6 DEF SyncEnds, Types, Tokened, NoAction
  <2> QED BY <1>26, <2>3, <2>4, <2>5, <2>7 DEF SyncEnds, Types
<1>27. CASE RotateToken
  BY <1>27 DEF RotateToken, Types, Tokened, Runs
<1>28. CASE TokenExpires
  BY <1>28 DEF TokenExpires, Types, Tokened, Runs
<1>29. CASE RemoteMoves
  BY <1>29 DEF RemoteMoves, Terminal, Types, Tokened, Runs
<1>30. CASE Crash
  <2> QED BY <1>30, NoOpFields DEF Crash, Types, Tokened
<1>31. CASE UNCHANGED vars
  BY <1>31 DEF vars, Types, Tokened, Runs
<1> QED
  BY <1>1, <1>2, <1>3, <1>4, <1>5, <1>6, <1>7, <1>8, <1>9, <1>10, <1>11,
     <1>12, <1>13, <1>14, <1>15, <1>16, <1>17, <1>18, <1>19, <1>20, <1>21,
     <1>22, <1>23, <1>24, <1>25, <1>26, <1>27, <1>28, <1>29, <1>30, <1>31,
     Effects DEF Effect

\* Requests and syncs keep out of each other's way.
LEMMA StepGate ==
  ASSUME Types, Gate, Progress, [Next]_vars
  PROVE  Gate'
<1>1. CASE Refuses
  BY <1>1, LastRunStays DEF Refuses, Becomes, MayJournal, Gate, Types, NoOp,
     Runs
<1>2. CASE Submits
  BY <1>2, LastRunStays DEF Submits, Becomes, Journals, Gate, Types, NoOp,
     Runs
<1>3. CASE Adopts
  BY <1>3, LastRunStays DEF Adopts, Becomes, Gate, Types, NoOp, Runs
<1>4. CASE Sends
  BY <1>4, LastRunStays DEF Sends, Becomes, Gate, Types, NoOp, Runs
<1>5. CASE Leaves
  BY <1>5, LastRunStays DEF Leaves, Becomes, MayJournal, Gate, Types, NoOp,
     Runs
<1>6. CASE Fails
  BY <1>6, LastRunStays DEF Fails, Becomes, MayJournal, Gate, Types, NoOp,
     Runs
<1>7. CASE Confirms
  BY <1>7, LastRunStays DEF Confirms, Becomes, MayJournal, Gate, Types, NoOp,
     Runs
<1>8. CASE GivesUp
  BY <1>8, LastRunStays DEF GivesUp, Becomes, Gate, Types, NoOp, Runs
<1>9. CASE CheckConfirms
  BY <1>9, LastRunStays DEF CheckConfirms, Becomes, Gate, Types, NoOp, Runs
<1>10. CASE SavesMatch
  BY <1>10, LastRunStays DEF SavesMatch, Becomes, Gate, Types, NoOp, Runs
<1>11. CASE KeepsMatch
  BY <1>11, LastRunStays DEF KeepsMatch, Becomes, Gate, Types, NoOp, Runs
<1>12. CASE MissesMatch
  BY <1>12, LastRunStays DEF MissesMatch, Becomes, Gate, Types, NoOp, Runs
<1>13. CASE Clears
  BY <1>13, LastRunStays DEF Clears, Becomes, Gate, Types, NoOp, Runs
<1>14. CASE ForgetSaves
  BY <1>14, LastRunStays DEF ForgetSaves, Gate, Types, NoOp, Runs
<1>15. CASE Respond
  BY <1>15, LastRunStays DEF Respond, Gate, Types, NoOp, Runs
<1>16. ASSUME NEW r \in Runs, Repeats(r) PROVE Gate'
  BY <1>16, LastRunStays DEF Repeats, Becomes, Named, Gate, Types, NoOp, Runs
<1>17. ASSUME NEW r \in Runs, Admits(r) PROVE Gate'
  BY <1>17, LastRunStays DEF Admits, Becomes, Journals, Named, Gate, Types,
     NoOp, Runs
<1>18. ASSUME NEW r \in Runs, Delivered(r) PROVE Gate'
  BY <1>18, LastRunStays DEF Delivered, Gate, Types, NoOp, Runs
<1>19. ASSUME NEW r \in Runs, Lost(r) PROVE Gate'
  BY <1>19, LastRunStays DEF Lost, Gate, Types, NoOp, Runs
<1>20. ASSUME NEW r \in Runs, Checks(r) PROVE Gate'
  BY <1>20, LastRunStays DEF Checks, Becomes, Named, Gate, Types, NoOp, Runs
<1>21. ASSUME NEW r \in Runs, Revokes(r) PROVE Gate'
  BY <1>21, LastRunStays DEF Revokes, Becomes, MayJournal, Named, Gate,
     Types, NoOp, Runs
<1>22. CASE Forgets
  BY <1>22, LastRunStays DEF Forgets, Becomes, Gate, Types, NoOp, Runs
<1>23. CASE SyncStarts
  BY <1>23, LastRunStays DEF SyncStarts, Gate, Types, NoOp, Runs
<1>24. CASE SyncMatches
  BY <1>24, LastRunStays DEF SyncMatches, Gate, Types, NoOp, Runs
<1>25. CASE SyncUnmatches
  BY <1>25, LastRunStays DEF SyncUnmatches, Gate, Types, NoOp, Runs
<1>26. CASE SyncEnds
  BY <1>26, LastRunStays DEF SyncEnds, Gate, Types, NoOp, Runs
<1>27. CASE RotateToken
  BY <1>27, LastRunStays DEF RotateToken, Gate, Types, NoOp, Runs
<1>28. CASE TokenExpires
  BY <1>28, LastRunStays DEF TokenExpires, Gate, Types, NoOp, Runs
<1>29. CASE RemoteMoves
  BY <1>29, LastRunStays DEF RemoteMoves, Gate, Types, NoOp, Runs
<1>30. CASE Crash
  BY <1>30, LastRunStays DEF Crash, Gate, Types, NoOp, Runs
<1>31. CASE UNCHANGED vars
  BY <1>31, LastRunStays DEF vars, Gate, Types, NoOp, Runs
<1> QED
  BY <1>1, <1>2, <1>3, <1>4, <1>5, <1>6, <1>7, <1>8, <1>9, <1>10, <1>11,
     <1>12, <1>13, <1>14, <1>15, <1>16, <1>17, <1>18, <1>19, <1>20, <1>21,
     <1>22, <1>23, <1>24, <1>25, <1>26, <1>27, <1>28, <1>29, <1>30, <1>31,
     Effects DEF Effect

\* A write is sent once per run, under a journalled action.
LEMMA StepWriteOnce ==
  ASSUME Types, Gate, WriteOnce, Progress, [Next]_vars
  PROVE  WriteOnce'
<1>1. CASE Refuses
  <2>1. /\ NotSubmitted \in Actions /\ op.run \in Runs /\ writes[op.run] = 0
    BY <1>1, Members DEF NotSubmitted, Refuses, Gate, Progress
  <2> QED BY <1>1, <2>1, RowWritten DEF Refuses
<1>2. CASE Submits
  BY <1>2 DEF Submits, Becomes, Journals, WriteOnce, Types, Gate, Progress,
     Pending
<1>3. CASE Adopts
  BY <1>3 DEF Adopts, Becomes, WriteOnce, Types, Gate, Progress, Pending
<1>4. CASE Sends
  BY <1>4 DEF Sends, Becomes, WriteOnce, Types, Gate, Progress, Pending
<1>5. CASE Leaves
  <2>1. PICK act \in Actions :
           /\ act.outcome \in {"unconfirmed", "transport_unknown"}
           /\ MayJournal(op.run, act)
    BY <1>5 DEF Leaves
  <2>2. op.run \in Runs BY <1>5 DEF Leaves, Gate
  <2> QED BY <1>5, <2>1, <2>2, RowWritten DEF Leaves, Pending
<1>6. CASE Fails
  <2>1. /\ FailedForGood \in Actions /\ op.run \in Runs
        /\ FailedForGood.outcome = "failed"
    BY <1>6, Members DEF FailedForGood, Fails, Gate
  <2> QED BY <1>6, <2>1, RowWritten DEF Fails
<1>7. CASE Confirms
  <2>1. /\ MayJournal(op.run, [outcome |-> "created", tok |-> op.act.tok])
        /\ op.run \in Runs /\ op.act.tok \in Nat
    BY <1>7 DEF Confirms, Gate, Types, Ops, Actions
  <2>2. [outcome |-> "created", tok |-> op.act.tok] \in Actions
    BY <2>1, Members
  <2> QED BY <1>7, <2>1, <2>2, RowWritten DEF Confirms, Pending
<1>8. CASE GivesUp
  BY <1>8 DEF GivesUp, Becomes, WriteOnce, Types, Gate, Progress, Pending
<1>9. CASE CheckConfirms
  BY <1>9 DEF CheckConfirms, Becomes, WriteOnce, Types, Gate, Progress,
     Pending
<1>10. CASE SavesMatch
  BY <1>10 DEF SavesMatch, Becomes, WriteOnce, Types, Gate, Progress, Pending
<1>11. CASE KeepsMatch
  BY <1>11 DEF KeepsMatch, Becomes, WriteOnce, Types, Gate, Progress, Pending
<1>12. CASE MissesMatch
  BY <1>12 DEF MissesMatch, Becomes, WriteOnce, Types, Gate, Progress,
     Pending
<1>13. CASE Clears
  BY <1>13 DEF Clears, Becomes, WriteOnce, Types, Gate, Progress, Pending
<1>14. CASE ForgetSaves
  BY <1>14 DEF ForgetSaves, WriteOnce, Types, Gate, Progress, Pending
<1>15. CASE Respond
  BY <1>15 DEF Respond, WriteOnce, Types, Gate, Progress, Pending
<1>16. ASSUME NEW r \in Runs, Repeats(r) PROVE WriteOnce'
  BY <1>16 DEF Repeats, Becomes, WriteOnce, Types, Gate, Progress, Pending
<1>17. ASSUME NEW r \in Runs, Admits(r) PROVE WriteOnce'
  BY <1>17 DEF Admits, Becomes, Journals, NotSubmitted, WriteOnce, Types,
     Gate, Progress, Pending
<1>18. ASSUME NEW r \in Runs, Delivered(r) PROVE WriteOnce'
  BY <1>18 DEF Delivered, WriteOnce, Types, Gate, Progress, Pending
<1>19. ASSUME NEW r \in Runs, Lost(r) PROVE WriteOnce'
  BY <1>19 DEF Lost, WriteOnce, Types, Gate, Progress, Pending
<1>20. ASSUME NEW r \in Runs, Checks(r) PROVE WriteOnce'
  BY <1>20 DEF Checks, Becomes, WriteOnce, Types, Gate, Progress, Pending
<1>21. ASSUME NEW r \in Runs, Revokes(r) PROVE WriteOnce'
  <2>1. [outcome |-> "transport_unknown", tok |-> 0] \in Actions BY Members
  <2> QED BY <1>21, <2>1, RowWritten DEF Revokes, Pending
<1>22. CASE Forgets
  BY <1>22 DEF Forgets, Becomes, WriteOnce, Types, Gate, Progress, Pending
<1>23. CASE SyncStarts
  BY <1>23 DEF SyncStarts, WriteOnce, Types, Gate, Progress, Pending
<1>24. CASE SyncMatches
  BY <1>24 DEF SyncMatches, WriteOnce, Types, Gate, Progress, Pending
<1>25. CASE SyncUnmatches
  BY <1>25 DEF SyncUnmatches, WriteOnce, Types, Gate, Progress, Pending
<1>26. CASE SyncEnds
  BY <1>26 DEF SyncEnds, WriteOnce, Types, Gate, Progress, Pending
<1>27. CASE RotateToken
  BY <1>27 DEF RotateToken, WriteOnce, Types, Gate, Progress, Pending
<1>28. CASE TokenExpires
  BY <1>28 DEF TokenExpires, WriteOnce, Types, Gate, Progress, Pending
<1>29. CASE RemoteMoves
  BY <1>29 DEF RemoteMoves, WriteOnce, Types, Gate, Progress, Pending
<1>30. CASE Crash
  BY <1>30 DEF Crash, WriteOnce, Types, Gate, Progress, Pending
<1>31. CASE UNCHANGED vars
  BY <1>31 DEF vars, WriteOnce, Types, Gate, Progress, Pending
<1> QED
  BY <1>1, <1>2, <1>3, <1>4, <1>5, <1>6, <1>7, <1>8, <1>9, <1>10, <1>11,
     <1>12, <1>13, <1>14, <1>15, <1>16, <1>17, <1>18, <1>19, <1>20, <1>21,
     <1>22, <1>23, <1>24, <1>25, <1>26, <1>27, <1>28, <1>29, <1>30, <1>31,
     Effects DEF Effect

\* The journal and the match follow the request at hand.
LEMMA StepProgress ==
  ASSUME Types, Gate, WriteOnce, Progress, Verified, [Next]_vars
  PROVE  Progress'
<1>1. CASE Refuses
  BY <1>1 DEF Refuses, Becomes, MayJournal, NotSubmitted, Progress, Types,
     Gate, NoOp
<1>2. CASE Submits
  BY <1>2 DEF Submits, Becomes, Journals, Progress, Types, Gate, NoOp
<1>3. CASE Adopts
  BY <1>3 DEF Adopts, Becomes, Progress, Types, Gate, NoOp
<1>4. CASE Sends
  BY <1>4 DEF Sends, Becomes, Progress, Types, Gate, NoOp
<1>5. CASE Leaves
  BY <1>5 DEF Leaves, Becomes, MayJournal, Progress, Types, Gate, NoOp
<1>6. CASE Fails
  BY <1>6 DEF Fails, Becomes, MayJournal, FailedForGood, Progress, Types,
     Gate, NoOp
<1>7. CASE Confirms
  <2>1. PICK made \in Matches :
           /\ MayJournal(op.run, [outcome |-> "created", tok |-> op.act.tok])
           /\ Becomes(op.kind, op.run, "save", [outcome |-> "created", tok |-> op.act.tok],
                      made, op.sent, op.err)
    BY <1>7 DEF Confirms
  <2>2. op.kind = "create" /\ op.pc = "confirm" /\ op.run \in Runs /\ UNCHANGED assoc
    BY <1>7 DEF Confirms, Gate
  <2>3. journal'[op.run].outcome \in Pending \cup {"failed"}
    BY <2>1, <2>2 DEF MayJournal, Journals, Pending, Progress
  <2> QED BY <2>1, <2>2, <2>3 DEF Becomes, Progress
<1>8. CASE GivesUp
  BY <1>8 DEF GivesUp, Becomes, Progress, Types, Gate, NoOp
<1>9. CASE CheckConfirms
  BY <1>9 DEF CheckConfirms, Becomes, Progress, Types, Gate, NoOp
<1>10. CASE SavesMatch
  <2>1. op.made # "none" BY <1>10 DEF SavesMatch, Verified
  <2> QED BY <1>10, <2>1 DEF SavesMatch, Becomes, Progress
<1>11. CASE KeepsMatch
  BY <1>11 DEF KeepsMatch, Becomes, Progress, Types, Gate, NoOp
<1>12. CASE MissesMatch
  BY <1>12 DEF MissesMatch, Becomes, Progress, Types, Gate, NoOp
<1>13. CASE Clears
  BY <1>13 DEF Clears, Becomes, Progress, Types, Gate, NoOp
<1>14. CASE ForgetSaves
  BY <1>14 DEF ForgetSaves, Progress, Types, Gate, NoOp
<1>15. CASE Respond
  BY <1>15 DEF Respond, Progress, Types, Gate, NoOp
<1>16. ASSUME NEW r \in Runs, Repeats(r) PROVE Progress'
  BY <1>16 DEF Repeats, Becomes, Progress, Types, Gate, NoOp
<1>17. ASSUME NEW r \in Runs, Admits(r) PROVE Progress'
  BY <1>17 DEF Admits, Becomes, Journals, NotSubmitted, Pending, WriteOnce,
     Progress, Types, Gate, NoOp
<1>18. ASSUME NEW r \in Runs, Delivered(r) PROVE Progress'
  BY <1>18 DEF Delivered, Progress, Types, Gate, NoOp
<1>19. ASSUME NEW r \in Runs, Lost(r) PROVE Progress'
  BY <1>19 DEF Lost, Progress, Types, Gate, NoOp
<1>20. ASSUME NEW r \in Runs, Checks(r) PROVE Progress'
  BY <1>20 DEF Checks, Becomes, Progress, Types, Gate, NoOp
<1>21. ASSUME NEW r \in Runs, Revokes(r) PROVE Progress'
  BY <1>21 DEF Revokes, Becomes, MayJournal, Progress, Types, Gate, NoOp
<1>22. CASE Forgets
  BY <1>22 DEF Forgets, Becomes, Progress, Types, Gate, NoOp
<1>23. CASE SyncStarts
  BY <1>23 DEF SyncStarts, Progress, Types, Gate, NoOp
<1>24. CASE SyncMatches
  BY <1>24 DEF SyncMatches, Progress, Types, Gate, NoOp
<1>25. CASE SyncUnmatches
  BY <1>25 DEF SyncUnmatches, Progress, Types, Gate, NoOp
<1>26. CASE SyncEnds
  BY <1>26 DEF SyncEnds, Progress, Types, Gate, NoOp
<1>27. CASE RotateToken
  BY <1>27 DEF RotateToken, Progress, Types, Gate, NoOp
<1>28. CASE TokenExpires
  BY <1>28 DEF TokenExpires, Progress, Types, Gate, NoOp
<1>29. CASE RemoteMoves
  BY <1>29 DEF RemoteMoves, Progress, Types, Gate, NoOp
<1>30. CASE Crash
  BY <1>30 DEF Crash, Progress, Types, Gate, NoOp
<1>31. CASE UNCHANGED vars
  BY <1>31 DEF vars, Progress, Types, Gate, NoOp
<1> QED
  BY <1>1, <1>2, <1>3, <1>4, <1>5, <1>6, <1>7, <1>8, <1>9, <1>10, <1>11,
     <1>12, <1>13, <1>14, <1>15, <1>16, <1>17, <1>18, <1>19, <1>20, <1>21,
     <1>22, <1>23, <1>24, <1>25, <1>26, <1>27, <1>28, <1>29, <1>30, <1>31,
     Effects DEF Effect

\* What is about to be saved, and what is saved, was read back.
LEMMA StepVerified ==
  ASSUME Types, Gate, Progress, Verified, [Next]_vars
  PROVE  Verified'
<1>1. CASE Refuses
  BY <1>1 DEF Refuses, Becomes, MayJournal, Verified, MatchIsVerified, Types,
     Gate, Terminal, NoOp
<1>2. CASE Submits
  BY <1>2 DEF Submits, Becomes, Journals, Verified, MatchIsVerified, Types,
     Gate, Terminal, NoOp
<1>3. CASE Adopts
  BY <1>3 DEF Adopts, Becomes, Verified, MatchIsVerified, Types, Gate,
     Terminal, NoOp
<1>4. CASE Sends
  BY <1>4 DEF Sends, Becomes, Verified, MatchIsVerified, Types, Gate,
     Terminal, NoOp
<1>5. CASE Leaves
  BY <1>5 DEF Leaves, Becomes, MayJournal, Verified, MatchIsVerified, Types,
     Gate, Terminal, NoOp
<1>6. CASE Fails
  BY <1>6 DEF Fails, Becomes, MayJournal, Verified, MatchIsVerified, Types,
     Gate, Terminal, NoOp
<1>7. CASE Confirms
  BY <1>7 DEF Confirms, Becomes, MayJournal, WasRead, Verified,
     MatchIsVerified, Types, Gate, Terminal, NoOp
<1>8. CASE GivesUp
  BY <1>8 DEF GivesUp, Becomes, Verified, MatchIsVerified, Types, Gate,
     Terminal, NoOp
<1>9. CASE CheckConfirms
  BY <1>9 DEF CheckConfirms, Becomes, WasRead, Verified, MatchIsVerified,
     Types, Gate, Terminal, NoOp
<1>10. CASE SavesMatch
  BY <1>10 DEF SavesMatch, Becomes, Verified, MatchIsVerified, Types, Gate,
     Terminal, NoOp
<1>11. CASE KeepsMatch
  BY <1>11 DEF KeepsMatch, Becomes, Verified, MatchIsVerified, Types, Gate,
     Terminal, NoOp
<1>12. CASE MissesMatch
  BY <1>12 DEF MissesMatch, Becomes, Verified, MatchIsVerified, Types, Gate,
     Terminal, NoOp
<1>13. CASE Clears
  BY <1>13 DEF Clears, Becomes, Verified, MatchIsVerified, Types, Gate,
     Terminal, NoOp
<1>14. CASE ForgetSaves
  BY <1>14 DEF ForgetSaves, Verified, MatchIsVerified, Types, Gate, Terminal,
     NoOp
<1>15. CASE Respond
  BY <1>15 DEF Respond, Verified, MatchIsVerified, Types, Gate, Terminal,
     NoOp
<1>16. ASSUME NEW r \in Runs, Repeats(r) PROVE Verified'
  BY <1>16 DEF Repeats, Becomes, Verified, MatchIsVerified, Types, Gate,
     Terminal, NoOp
<1>17. ASSUME NEW r \in Runs, Admits(r) PROVE Verified'
  BY <1>17 DEF Admits, Becomes, Journals, Verified, MatchIsVerified, Types,
     Gate, Terminal, NoOp
<1>18. ASSUME NEW r \in Runs, Delivered(r) PROVE Verified'
  BY <1>18 DEF Delivered, Verified, MatchIsVerified, Types, Gate, Terminal,
     NoOp
<1>19. ASSUME NEW r \in Runs, Lost(r) PROVE Verified'
  BY <1>19 DEF Lost, Verified, MatchIsVerified, Types, Gate, Terminal, NoOp
<1>20. ASSUME NEW r \in Runs, Checks(r) PROVE Verified'
  BY <1>20 DEF Checks, Becomes, Verified, MatchIsVerified, Types, Gate,
     Terminal, NoOp
<1>21. ASSUME NEW r \in Runs, Revokes(r) PROVE Verified'
  BY <1>21 DEF Revokes, Becomes, MayJournal, Verified, MatchIsVerified,
     Types, Gate, Terminal, NoOp
<1>22. CASE Forgets
  BY <1>22 DEF Forgets, Becomes, Verified, MatchIsVerified, Types, Gate,
     Terminal, NoOp
<1>23. CASE SyncStarts
  BY <1>23 DEF SyncStarts, Verified, MatchIsVerified, Types, Gate, Terminal,
     NoOp
<1>24. CASE SyncMatches
  BY <1>24 DEF SyncMatches, Verified, MatchIsVerified, Types, Gate, Terminal,
     NoOp
<1>25. CASE SyncUnmatches
  BY <1>25 DEF SyncUnmatches, Verified, MatchIsVerified, Types, Gate,
     Terminal, NoOp
<1>26. CASE SyncEnds
  BY <1>26 DEF SyncEnds, Verified, MatchIsVerified, Types, Gate, Terminal,
     NoOp
<1>27. CASE RotateToken
  BY <1>27 DEF RotateToken, Verified, MatchIsVerified, Types, Gate, Terminal,
     NoOp
<1>28. CASE TokenExpires
  BY <1>28 DEF TokenExpires, Verified, MatchIsVerified, Types, Gate,
     Terminal, NoOp
<1>29. CASE RemoteMoves
  BY <1>29 DEF RemoteMoves, Verified, MatchIsVerified, Types, Gate, Terminal,
     NoOp
<1>30. CASE Crash
  BY <1>30 DEF Crash, Verified, MatchIsVerified, Types, Gate, Terminal, NoOp
<1>31. CASE UNCHANGED vars
  BY <1>31 DEF vars, Verified, MatchIsVerified, Types, Gate, Terminal, NoOp
<1> QED
  BY <1>1, <1>2, <1>3, <1>4, <1>5, <1>6, <1>7, <1>8, <1>9, <1>10, <1>11,
     <1>12, <1>13, <1>14, <1>15, <1>16, <1>17, <1>18, <1>19, <1>20, <1>21,
     <1>22, <1>23, <1>24, <1>25, <1>26, <1>27, <1>28, <1>29, <1>30, <1>31,
     Effects DEF Effect

\* Answers stay honest.
LEMMA StepHonest ==
  ASSUME Types, Gate, Progress, AnswersAreHonest, [Next]_vars
  PROVE  AnswersAreHonest'
<1>1. CASE Refuses
  BY <1>1, OutcomeOfErrors DEF Refuses, Becomes, MayJournal, NotSubmitted,
     AnswersAreHonest, Answered, Types, Gate, Progress, NoOp, Pending
<1>2. CASE Submits
  BY <1>2 DEF Submits, Becomes, Journals, AnswersAreHonest, Answered, Types,
     Gate, Progress, NoOp, Pending
<1>3. CASE Adopts
  BY <1>3 DEF Adopts, Becomes, AnswersAreHonest, Answered, Types, Gate,
     Progress, NoOp, Pending
<1>4. CASE Sends
  BY <1>4 DEF Sends, Becomes, AnswersAreHonest, Answered, Types, Gate,
     Progress, NoOp, Pending
<1>5. CASE Leaves
  <2>1. PICK act \in Actions :
           /\ act.outcome \in {"unconfirmed", "transport_unknown"}
           /\ act.tok = op.act.tok
           /\ MayJournal(op.run, act)
           /\ Becomes(op.kind, op.run, "answer", act, op.made, op.sent, {"ambiguous"})
    BY <1>5 DEF Leaves
  <2>2. /\ op.run \in Runs /\ op.kind = "create"
        /\ journal[op.run] = op.act /\ op.act.outcome = "unconfirmed"
    BY <1>5 DEF Leaves, Gate, Progress
  <2>3. /\ journal'[op.run].outcome \in Pending
        /\ journal'[op.run].tok = act.tok
    BY <2>1, <2>2 DEF MayJournal, Journals, Pending
  <2>4. /\ op'.kind = "create" /\ op'.run = op.run /\ op'.err = {"ambiguous"}
        /\ op'.act = act
    BY <2>1, <2>2 DEF Becomes
  <2>5. Answered(op') = "unconfirmed" BY <2>4, OutcomeOfErrors DEF Answered
  <2> QED BY <2>3, <2>4, <2>5 DEF AnswersAreHonest, Answered
<1>6. CASE Fails
  <2>1. PICK err \in {"importFailed", "wrongFormat", "mappingMissing"}, made \in Matches :
           /\ op.kind = "create" => err # "mappingMissing"
           /\ Becomes(op.kind, op.run, "answer", NoAction, made, op.sent, {err})
    BY <1>6 DEF Fails
  <2>2. SUFFICES ASSUME op.kind = "create" PROVE AnswersAreHonest'
    BY <2>1 DEF Becomes, AnswersAreHonest
  <2>3. /\ op.run \in Runs /\ op.pc = "confirm" /\ MayJournal(op.run, FailedForGood)
        /\ journal[op.run] = op.act /\ op.act.outcome = "unconfirmed"
    BY <1>6, <2>2 DEF Fails, Gate, Progress
  <2>4. journal'[op.run].outcome \in Pending \cup {"failed"}
    BY <2>3 DEF MayJournal, Journals, FailedForGood, Pending
  <2>5. Outcome({err}) = "failed" BY <2>1, <2>2, OutcomeOfErrors
  <2>6. op'.err = {err} /\ op'.run = op.run BY <2>1 DEF Becomes
  <2>7. Answered(op') = "failed" BY <2>1, <2>5, <2>6 DEF Answered
  <2> QED BY <2>1, <2>4, <2>6, <2>7 DEF AnswersAreHonest, Answered
<1>7. CASE Confirms
  BY <1>7 DEF Confirms, Becomes, MayJournal, AnswersAreHonest, Answered,
     Types, Gate, Progress, NoOp, Pending
<1>8. CASE GivesUp
  BY <1>8 DEF GivesUp, Becomes, AnswersAreHonest, Answered, Types, Gate,
     Progress, NoOp, Pending
<1>9. CASE CheckConfirms
  BY <1>9 DEF CheckConfirms, Becomes, AnswersAreHonest, Answered, Types,
     Gate, Progress, NoOp, Pending
<1>10. CASE SavesMatch
  BY <1>10 DEF SavesMatch, Becomes, AnswersAreHonest, Answered, Types, Gate,
     Progress, NoOp, Pending
<1>11. CASE KeepsMatch
  BY <1>11 DEF KeepsMatch, Becomes, AnswersAreHonest, Answered, Types, Gate,
     Progress, NoOp, Pending
<1>12. CASE MissesMatch
  <2>1. PICK err \in {"saveAfter", "exists"} :
           /\ err = "saveAfter" <=> assoc = "none"
           /\ Becomes(op.kind, op.run, "answer", NoAction, "none", op.sent, {err})
    BY <1>12 DEF MissesMatch
  <2>2. SUFFICES ASSUME op.kind = "create" PROVE AnswersAreHonest'
    BY <2>1 DEF Becomes, AnswersAreHonest
  <2>3. /\ op.run \in Runs /\ assoc = "none" /\ UNCHANGED journal
        /\ journal[op.run].outcome \in Pending \cup {"failed"}
    BY <1>12, <2>2 DEF MissesMatch, Gate, Progress
  <2>4. op'.err = {"saveAfter"} /\ op'.run = op.run BY <2>1, <2>3 DEF Becomes
  <2>5. Answered(op') = "created" BY <2>4, OutcomeOfErrors DEF Answered
  <2> QED BY <2>3, <2>4, <2>5 DEF AnswersAreHonest, Answered
<1>13. CASE Clears
  BY <1>13 DEF Clears, Becomes, AnswersAreHonest, Answered, Types, Gate,
     Progress, NoOp, Pending
<1>14. CASE ForgetSaves
  BY <1>14 DEF ForgetSaves, AnswersAreHonest, Answered, Types, Gate,
     Progress, NoOp, Pending
<1>15. CASE Respond
  BY <1>15 DEF Respond, AnswersAreHonest, Answered, Types, Gate, Progress,
     NoOp, Pending
<1>16. ASSUME NEW r \in Runs, Repeats(r) PROVE AnswersAreHonest'
  BY <1>16 DEF Repeats, Becomes, AnswersAreHonest, Answered, Types, Gate,
     Progress, NoOp, Pending
<1>17. ASSUME NEW r \in Runs, Admits(r) PROVE AnswersAreHonest'
  BY <1>17 DEF Admits, Becomes, Journals, NotSubmitted, AnswersAreHonest,
     Answered, Types, Gate, Progress, NoOp, Pending
<1>18. ASSUME NEW r \in Runs, Delivered(r) PROVE AnswersAreHonest'
  BY <1>18 DEF Delivered, AnswersAreHonest, Answered, Types, Gate, Progress,
     NoOp, Pending
<1>19. ASSUME NEW r \in Runs, Lost(r) PROVE AnswersAreHonest'
  BY <1>19 DEF Lost, AnswersAreHonest, Answered, Types, Gate, Progress, NoOp,
     Pending
<1>20. ASSUME NEW r \in Runs, Checks(r) PROVE AnswersAreHonest'
  BY <1>20 DEF Checks, Becomes, AnswersAreHonest, Answered, Types, Gate,
     Progress, NoOp, Pending
<1>21. ASSUME NEW r \in Runs, Revokes(r) PROVE AnswersAreHonest'
  BY <1>21 DEF Revokes, Becomes, MayJournal, AnswersAreHonest, Answered,
     Types, Gate, Progress, NoOp, Pending
<1>22. CASE Forgets
  BY <1>22 DEF Forgets, Becomes, AnswersAreHonest, Answered, Types, Gate,
     Progress, NoOp, Pending
<1>23. CASE SyncStarts
  BY <1>23 DEF SyncStarts, AnswersAreHonest, Answered, Types, Gate, Progress,
     NoOp, Pending
<1>24. CASE SyncMatches
  BY <1>24 DEF SyncMatches, AnswersAreHonest, Answered, Types, Gate,
     Progress, NoOp, Pending
<1>25. CASE SyncUnmatches
  BY <1>25 DEF SyncUnmatches, AnswersAreHonest, Answered, Types, Gate,
     Progress, NoOp, Pending
<1>26. CASE SyncEnds
  BY <1>26 DEF SyncEnds, AnswersAreHonest, Answered, Types, Gate, Progress,
     NoOp, Pending
<1>27. CASE RotateToken
  BY <1>27 DEF RotateToken, AnswersAreHonest, Answered, Types, Gate,
     Progress, NoOp, Pending
<1>28. CASE TokenExpires
  BY <1>28 DEF TokenExpires, AnswersAreHonest, Answered, Types, Gate,
     Progress, NoOp, Pending
<1>29. CASE RemoteMoves
  BY <1>29 DEF RemoteMoves, AnswersAreHonest, Answered, Types, Gate,
     Progress, NoOp, Pending
<1>30. CASE Crash
  BY <1>30 DEF Crash, AnswersAreHonest, Answered, Types, Gate, Progress,
     NoOp, Pending
<1>31. CASE UNCHANGED vars
  BY <1>31 DEF vars, AnswersAreHonest, Answered, Types, Gate, Progress, NoOp,
     Pending
<1> QED
  BY <1>1, <1>2, <1>3, <1>4, <1>5, <1>6, <1>7, <1>8, <1>9, <1>10, <1>11,
     <1>12, <1>13, <1>14, <1>15, <1>16, <1>17, <1>18, <1>19, <1>20, <1>21,
     <1>22, <1>23, <1>24, <1>25, <1>26, <1>27, <1>28, <1>29, <1>30, <1>31,
     Effects DEF Effect

---------------------------------------------------------------------------
(* Safety                                                                  *)

\* The invariant holds at first.
LEMMA InitIInv == Init => IInv
<1> SUFFICES ASSUME Init PROVE IInv OBVIOUS
<1> USE DEF Init
<1>1. /\ journal \in [Runs -> Actions] /\ op \in Ops
      /\ \A r \in Runs : journal[r] = NoAction
    BY NoOpFields, Members
<1>2. tokens \in Seq(Runs) /\ Len(tokens) = 0 OBVIOUS
<1>3. Types
  <2>1. Tokened BY <1>1, <1>2 DEF Tokened, NoAction
  <2>2. /\ records \in [Runs -> Records] /\ assoc \in Matches
        /\ wire \in [Runs -> BOOLEAN] /\ writes \in [Runs -> {0, 1}]
        /\ expired \subseteq DOMAIN tokens
    BY DEF Records, Matches
  <2> QED BY <1>1, <1>2, <2>1, <2>2 DEF Types
<1>4. Gate /\ WriteOnce /\ Progress /\ Verified /\ AnswersAreHonest
  BY NoOpFields
  DEF Gate, WriteOnce, Progress, Verified, MatchIsVerified, AnswersAreHonest
<1> QED BY <1>3, <1>4 DEF IInv

\* Every step keeps the invariant.
LEMMA StepIInv == IInv /\ [Next]_vars => IInv'
BY StepTypes, StepGate, StepWriteOnce, StepProgress, StepVerified, StepHonest
DEF IInv

\* The inductive invariant is an invariant.
LEMMA InvariantHolds == Spec => []IInv
BY InitIInv, StepIInv, PTL DEF Spec

\* Every variable keeps its type, and only pending actions keep a token, for
\* every number of runs, of retained reports and of recovery tokens.
THEOREM TypeCorrect == Spec => []TypeOK
<1>1. IInv => TypeOK
  BY DEF IInv, Types, Tokened, Actions, Outcomes, Ops, TypeOK
<1> QED BY <1>1, InvariantHolds, PTL

\* A match that a request saves names the edition Hardcover has, whatever the
\* network, other users, restarts and syncs did since the write was sent.
THEOREM MatchVerified == Spec => []MatchIsVerified
<1>1. IInv => MatchIsVerified BY DEF IInv, Verified
<1> QED BY <1>1, InvariantHolds, PTL

\* A create answered as not submitted sent nothing; one that may have been
\* submitted left a journal that blocks a repetition, and answers its token.
THEOREM HonestAnswers == Spec => []AnswersAreHonest
<1>1. IInv => AnswersAreHonest BY DEF IInv
<1> QED BY <1>1, InvariantHolds, PTL

---------------------------------------------------------------------------
(* The recovery token                                                      *)

\* What a step may do to the token of a run that was written for.
Kept(r) ==
  \/ journal'[r].tok = journal[r].tok
  \/ journal'[r].outcome = "failed"
  \/ assoc # "none"
  \/ records'[r] = "none"

\* Every step keeps it: the attempt that is at hand is either not yet written,
\* or its action keeps the token; a revocation needs the token to be invalid.
LEMMA StepToken ==
  ASSUME IInv, [Next]_vars, NEW r \in Runs,
         ValidToken(journal[r].tok, r), writes[r] > 0
  PROVE  Kept(r)
<1> USE DEF IInv
<1>0. Effect BY Effects
<1>1. SUFFICES ASSUME assoc = "none", journal'[r] # journal[r] PROVE Kept(r)
  BY DEF Kept
<1>2. writes[r] # 0 /\ journal[r].outcome \in Pending \cup {"failed"}
  BY <1>1 DEF WriteOnce, Types
<1>3. CASE Refuses
  BY <1>1, <1>2, <1>3 DEF Refuses, MayJournal, Journals, Progress
<1>4. CASE Submits
  BY <1>1, <1>2, <1>4 DEF Submits, Journals, Progress
<1>5. CASE Leaves
  BY <1>1, <1>5 DEF Leaves, MayJournal, Journals, Progress, Kept
<1>6. CASE Fails
  BY <1>1, <1>6 DEF Fails, MayJournal, Journals, FailedForGood, Kept
<1>7. CASE Confirms
  BY <1>1, <1>7 DEF Confirms, MayJournal, Journals, Progress, Kept
<1>8. CASE Clears \/ Forgets
  BY <1>1, <1>8 DEF Clears, Forgets, Progress
<1>9. ASSUME NEW s \in Runs, Admits(s) PROVE FALSE
  BY <1>1, <1>2, <1>9 DEF Admits, Journals, Pending
<1>10. ASSUME NEW s \in Runs, Revokes(s) PROVE FALSE
  BY <1>1, <1>10 DEF Revokes, Revocable, MayJournal, Journals
<1>11. CASE SyncEnds
  <2>1. r # LastRun + 1
    BY <1>2, LastRunIsNewest DEF WriteOnce, Runs
  <2>2. \/ journal'[r] = journal[r] \/ records'[r] = "none"
    BY <1>11, <2>1 DEF SyncEnds
  <2> QED BY <1>1, <2>2 DEF Kept
<1>12. UNCHANGED journal => FALSE BY <1>1
<1> QED
  BY <1>0, <1>3, <1>4, <1>5, <1>6, <1>7, <1>8, <1>9, <1>10, <1>11, <1>12
  DEF Effect, Adopts, Sends, GivesUp, CheckConfirms, SavesMatch, KeepsMatch,
      MissesMatch, ForgetSaves, Respond, Repeats, Delivered, Lost, Checks,
      SyncStarts, SyncMatches, SyncUnmatches, RotateToken, TokenExpires,
      RemoteMoves, Crash, vars

\* Once an attempt may have reached Hardcover, no request, lost answer, sync or
\* crash takes its valid recovery token, until the attempt has failed for good,
\* the item has a match, or the report is gone.
THEOREM TokenIsKept == Spec => TokenKept
<1>1. IInv /\ [Next]_vars =>
        [\A r \in Runs :
           ValidToken(journal[r].tok, r) /\ writes[r] > 0 =>
             \/ journal'[r].tok = journal[r].tok
             \/ journal'[r].outcome = "failed"
             \/ assoc # "none"
             \/ records'[r] = "none"]_vars
  BY StepToken DEF Kept
<1> QED BY <1>1, InvariantHolds, PTL DEF Spec, TokenKept

---------------------------------------------------------------------------
(* EditionCreate implements EditionLedger                                  *)

\* The phases after a step: that of r is p, the others are as they were.
PhaseBecomes(r, p) ==
  \A s \in Runs : PhaseOf(s)' = IF s = r THEN p ELSE PhaseOf(s)
PhasesStay == \A s \in Runs : PhaseOf(s)' = PhaseOf(s)

\* The actions of the ledger, said of the phases run by run.
LEMMA LedgerStays ==
  ASSUME PhasesStay, UNCHANGED writes
  PROVE  [Ledger!LedgerNext]_Ledger!ledgerVars
BY DEF PhasesStay, Ledger!ledgerVars

\* The journal record before a send is the ledger's submission.
LEMMA LedgerSubmits ==
  ASSUME NEW r \in Runs, PhaseOf(r) = "open", PhaseBecomes(r, "pending"),
         UNCHANGED writes
  PROVE  Ledger!LedgerNext
BY DEF PhaseBecomes, Ledger!LedgerNext, Ledger!Submit

\* A request that takes effect is the ledger's write.
LEMMA LedgerWrites ==
  ASSUME NEW r \in Runs, PhaseOf(r) = "pending", PhasesStay, writes[r] = 0,
         writes' = [writes EXCEPT ![r] = 1]
  PROVE  Ledger!LedgerNext
BY DEF PhasesStay, Ledger!LedgerNext, Ledger!Write

\* A request known not to be sent is withdrawn from the ledger.
LEMMA LedgerWithdraws ==
  ASSUME NEW r \in Runs, PhaseOf(r) = "pending", writes[r] = 0,
         PhaseBecomes(r, "open"), UNCHANGED writes
  PROVE  Ledger!LedgerNext
BY DEF PhaseBecomes, Ledger!LedgerNext, Ledger!Withdraw

\* A refused request is the ledger's failure.
LEMMA LedgerFails ==
  ASSUME NEW r \in Runs, PhaseOf(r) \in {"open", "pending"},
         PhaseBecomes(r, "failed"), UNCHANGED writes
  PROVE  Ledger!LedgerNext
BY DEF PhaseBecomes, Ledger!LedgerNext, Ledger!Fail

\* The phase of a retained run without a match.
PhaseFor(outcome) ==
  IF outcome \in {"none", "not_submitted"} THEN "open"
  ELSE IF outcome = "failed" THEN "failed"
  ELSE "pending"

\* A journal that changes at one run of a retained report at most, while the
\* match stays as it is, changes no other phase.
LEMMA RowPhases ==
  ASSUME UNCHANGED <<assoc, records>>, NEW r \in Runs, records[r] # "none",
         NEW act \in Actions, MayJournal(r, act)
  PROVE  \/ PhasesStay
         \/ assoc = "none" /\ PhaseBecomes(r, PhaseFor(act.outcome))
<1>1. \A s \in Runs : journal'[s] = journal[s] \/ s = r
  BY DEF MayJournal, Journals
<1>2. \A s \in Runs : s # r => PhaseOf(s)' = PhaseOf(s)
  BY <1>1 DEF PhaseOf
<1>3. CASE UNCHANGED journal BY <1>3 DEF PhasesStay, PhaseOf
<1>4. CASE assoc # "none" BY <1>4 DEF PhasesStay, PhaseOf
<1>5. CASE assoc = "none" /\ Journals(r, act)
  <2>1. PhaseOf(r)' = PhaseFor(act.outcome)
    BY <1>5 DEF PhaseOf, PhaseFor, Journals
  <2> QED BY <1>2, <1>5, <2>1 DEF PhaseBecomes
<1> QED BY <1>3, <1>4, <1>5 DEF MayJournal

\* A match for every run, or for none.
LEMMA LedgerMatches ==
  ASSUME Types, Types', assoc' # "none", UNCHANGED <<records, writes>>
  PROVE  Ledger!LedgerNext
<1>1. \A r \in Runs : PhaseOf(r)' = IF PhaseOf(r) = "absent" THEN "absent" ELSE "matched"
  BY DEF PhaseOf
<1> QED BY <1>1 DEF Ledger!LedgerNext, Ledger!Match

\* Forgetting the match is the ledger's.
LEMMA LedgerUnmatches ==
  ASSUME Types, Types', assoc # "none", assoc' = "none", UNCHANGED records,
         writes' = [r \in Runs |-> 0]
  PROVE  Ledger!LedgerNext
<1>1. \A r \in Runs : PhaseOf(r) \in {"absent", "matched"}
  BY DEF PhaseOf
<1>2. \A r \in Runs : /\ PhaseOf(r)' \in Ledger!Phases \ {"matched"}
                      /\ PhaseOf(r)' = "absent" <=> PhaseOf(r) = "absent"
  BY DEF PhaseOf, Ledger!Phases
<1> QED BY <1>1, <1>2 DEF Ledger!LedgerNext, Ledger!Unmatch

\* The end of a sync publishes a report, and drops the oldest one.
LEMMA LedgerPublishes ==
  ASSUME IInv, IInv', SyncEnds
  PROVE  Ledger!LedgerNext
<1> USE DEF IInv
<1>0. PICK r : r = LastRun + 1 OBVIOUS
<1> DEFINE kept(s) == s > r - Retention
           gone == {s \in Runs : s # r /\ ~kept(s)}
<1>1. PICK rec \in NewRecords :
        /\ records' = [s \in Runs |-> IF s = r THEN rec ELSE IF kept(s) THEN records[s] ELSE "none"]
        /\ journal' = [s \in Runs |-> IF kept(s) /\ s # r THEN journal[s] ELSE NoAction]
        /\ writes' = [s \in Runs |-> IF kept(s) /\ s # r THEN writes[s] ELSE 0]
  BY <1>0 DEF SyncEnds
<1>2. syncing /\ UNCHANGED assoc BY DEF SyncEnds
<1>3. r \in Runs /\ records[r] = "none"
  BY <1>0, <1>2, LastRunIsNewest, EditionAssumption DEF Gate, Runs, Types
<1>4. gone \in SUBSET (Runs \ {r}) OBVIOUS
<1>5. rec # "none" BY DEF NewRecords
<1> HIDE DEF kept
<1>6. PhaseOf(r) = "absent" BY <1>3 DEF PhaseOf
<1>7. PICK new \in {"open", "matched"} : PhaseOf(r)' = new
  <2>1. records'[r] = rec /\ journal'[r] = NoAction BY <1>1, <1>3
  <2> QED BY <1>2, <1>5, <2>1 DEF PhaseOf, NoAction
<1>8. ASSUME NEW s \in Runs \ {r}
      PROVE  PhaseOf(s)' = IF s \in gone THEN "absent" ELSE PhaseOf(s)
  BY <1>1, <1>2 DEF PhaseOf
<1>9. \A s \in Runs : writes'[s] = IF s \in gone \cup {r} THEN 0 ELSE writes[s]
  BY <1>1
<1>10. writes' \in [Runs -> {0, 1}] BY DEF Types
<1> HIDE DEF gone
<1>11. [s \in Runs |-> PhaseOf(s)'] =
         [s \in Runs |-> IF s \in gone THEN "absent" ELSE IF s = r THEN new
                         ELSE [x \in Runs |-> PhaseOf(x)][s]]
  BY <1>3, <1>4, <1>7, <1>8
<1>12. writes' = [s \in Runs |-> IF s \in gone \cup {r} THEN 0 ELSE writes[s]]
  BY <1>9, <1>10
<1> QED BY <1>3, <1>4, <1>6, <1>11, <1>12 DEF Ledger!LedgerNext, Ledger!Publish

\* Every step of the requests and syncs is a step of the ledger or a stutter.
LEMMA StepLedger ==
  ASSUME IInv, [Next]_vars
  PROVE  [Ledger!LedgerNext]_Ledger!ledgerVars
<1> USE DEF IInv
<1>0. Effect BY Effects
<1>a. IInv' BY StepIInv
<1>b. op.kind \in {"create", "check"} =>
        op.run \in Runs /\ records[op.run] # "none"
  BY DEF Gate
<1>c. NotSubmitted \in Actions /\ FailedForGood \in Actions
  BY Members DEF NotSubmitted, FailedForGood
<1>1. CASE Refuses
  <2>1. PhasesStay \/ (assoc = "none" /\ PhaseBecomes(op.run, "open"))
    BY <1>1, <1>b, <1>c, RowPhases DEF Refuses, PhaseFor, NotSubmitted
  <2>2. CASE PhasesStay BY <1>1, <2>2, LedgerStays DEF Refuses
  <2>3. CASE assoc = "none" /\ PhaseBecomes(op.run, "open")
    <3>1. CASE op.pc = "prepare"
      <4>1. PhaseOf(op.run) = "open"
        BY <1>1, <1>b, <2>3, <3>1 DEF Refuses, Progress, PhaseOf
      <4>2. PhasesStay BY <2>3, <4>1 DEF PhaseBecomes, PhasesStay
      <4> QED BY <1>1, <4>2, LedgerStays DEF Refuses
    <3>2. CASE op.pc = "send"
      <4>1. PhaseOf(op.run) = "pending" /\ writes[op.run] = 0
        BY <1>1, <1>b, <2>3, <3>2 DEF Refuses, Progress, PhaseOf
      <4> QED BY <1>1, <1>b, <2>3, <4>1, LedgerWithdraws DEF Refuses
    <3> QED BY <1>1, <3>1, <3>2 DEF Refuses
  <2> QED BY <2>1, <2>2, <2>3
<1>2. CASE Submits
  <2>1. PICK tok \in 0..Len(tokens') :
          Journals(op.run, [outcome |-> "unconfirmed", tok |-> tok])
    BY <1>2 DEF Submits
  <2>2. op.run \in Runs /\ records[op.run] # "none" /\ UNCHANGED <<assoc, records, writes>>
    BY <1>2, <1>b DEF Submits
  <2>3. PhaseOf(op.run) = "open"
    BY <1>2, <2>2 DEF Submits, Progress, PhaseOf
  <2>4. PhaseBecomes(op.run, "pending")
    <3>1. ASSUME NEW s \in Runs, s # op.run PROVE PhaseOf(s)' = PhaseOf(s)
      BY <2>1, <2>2, <3>1 DEF PhaseOf, Journals
    <3>2. ASSUME NEW s \in Runs, s = op.run PROVE PhaseOf(s)' = "pending"
      BY <1>2, <2>1, <2>2, <3>2 DEF Submits, Progress, PhaseOf, Journals
    <3> QED BY <3>1, <3>2 DEF PhaseBecomes
  <2> QED BY <2>2, <2>3, <2>4, LedgerSubmits
<1>3. CASE Sends
  <2>1. PhaseOf(op.run) = "pending" /\ writes[op.run] = 0 /\ op.run \in Runs
    BY <1>3, <1>b DEF Sends, Progress, PhaseOf
  <2>2. writes' = [writes EXCEPT ![op.run] = 1]
    BY <1>3, <2>1 DEF Sends
  <2>3. PhasesStay BY <1>3 DEF Sends, PhasesStay, PhaseOf
  <2> QED BY <2>1, <2>2, <2>3, LedgerWrites
<1>4. CASE Leaves
  <2>1. PICK act \in Actions :
           /\ act.outcome \in Pending
           /\ MayJournal(op.run, act)
    BY <1>4 DEF Leaves, Pending
  <2>2. PhasesStay \/ (assoc = "none" /\ PhaseBecomes(op.run, "pending"))
    BY <1>4, <1>b, <2>1, RowPhases DEF Leaves, PhaseFor, Pending
  <2>3. PhaseOf(op.run) = "pending"
    BY <1>4, <1>b DEF Leaves, Progress, PhaseOf
  <2>4. PhasesStay BY <2>2, <2>3 DEF PhasesStay, PhaseBecomes
  <2> QED BY <1>4, <2>4, LedgerStays DEF Leaves
<1>5. CASE Fails
  <2>1. op.run \in Runs /\ records[op.run] # "none" /\ UNCHANGED <<assoc, records, writes>>
    BY <1>5, <1>b DEF Fails
  <2>2. PhasesStay \/ (assoc = "none" /\ PhaseBecomes(op.run, "failed"))
    BY <1>5, <1>c, <2>1, RowPhases DEF Fails, PhaseFor, FailedForGood
  <2>3. CASE PhasesStay BY <2>1, <2>3, LedgerStays
  <2>4. CASE assoc = "none" /\ PhaseBecomes(op.run, "failed")
    <3>1. PhaseOf(op.run) \in {"open", "pending", "failed"}
      BY <2>1, <2>4 DEF PhaseOf
    <3>2. CASE PhaseOf(op.run) = "failed"
      <4>1. PhasesStay BY <2>4, <3>2 DEF PhasesStay, PhaseBecomes
      <4> QED BY <2>1, <4>1, LedgerStays
    <3>3. CASE PhaseOf(op.run) \in {"open", "pending"}
      BY <2>1, <2>4, <3>3, LedgerFails
    <3> QED BY <3>1, <3>2, <3>3
  <2> QED BY <2>2, <2>3, <2>4
<1>6. CASE Confirms
  <2> DEFINE act == [outcome |-> "created", tok |-> op.act.tok]
  <2>1. act \in Actions /\ act.outcome = "created"
    BY Members DEF Types, Ops, Actions
  <2>2. MayJournal(op.run, act) BY <1>6 DEF Confirms
  <2> HIDE DEF act
  <2>3. PhasesStay \/ (assoc = "none" /\ PhaseBecomes(op.run, "pending"))
    BY <1>6, <1>b, <2>1, <2>2, RowPhases DEF Confirms, PhaseFor
  <2>4. PhaseOf(op.run) = "pending"
    BY <1>6, <1>b DEF Confirms, Progress, PhaseOf
  <2>5. PhasesStay BY <2>3, <2>4 DEF PhasesStay, PhaseBecomes
  <2> QED BY <1>6, <2>5, LedgerStays DEF Confirms
<1>7. CASE SavesMatch
  <2>1. assoc' # "none" BY <1>7 DEF SavesMatch, Verified
  <2> QED BY <1>7, <1>a, <2>1, LedgerMatches DEF SavesMatch
<1>8. CASE Clears \/ Forgets
  <2>1. assoc # "none" /\ UNCHANGED <<assoc, records, writes>>
    BY <1>8 DEF Clears, Forgets, Progress
  <2>2. PhasesStay BY <2>1 DEF PhasesStay, PhaseOf
  <2> QED BY <2>1, <2>2, LedgerStays
<1>9. CASE ForgetSaves
  <2>1. assoc # "none" /\ UNCHANGED <<journal, records>>
    BY <1>9 DEF ForgetSaves, Progress
  <2>2. CASE assoc' = "none" /\ writes' = [r \in Runs |-> 0]
    BY <1>a, <2>1, <2>2, LedgerUnmatches
  <2>3. CASE UNCHANGED <<assoc, writes>>
    <3>1. PhasesStay BY <2>1, <2>3 DEF PhasesStay, PhaseOf
    <3> QED BY <2>3, <3>1, LedgerStays
  <2> QED BY <1>9, <2>2, <2>3 DEF ForgetSaves
<1>10. ASSUME NEW r \in Runs, Admits(r)
       PROVE  [Ledger!LedgerNext]_Ledger!ledgerVars
  <2>1. PhasesStay \/ (assoc = "none" /\ PhaseBecomes(r, "open"))
    BY <1>10, <1>c, RowPhases DEF Admits, Named, MayJournal, PhaseFor, NotSubmitted
  <2>2. PhaseOf(r) = "open" BY <1>10 DEF Admits, Named, PhaseOf
  <2>3. PhasesStay BY <2>1, <2>2 DEF PhasesStay, PhaseBecomes
  <2> QED BY <1>10, <2>3, LedgerStays DEF Admits
<1>11. ASSUME NEW r \in Runs, Revokes(r)
       PROVE  [Ledger!LedgerNext]_Ledger!ledgerVars
  <2> DEFINE act == [outcome |-> "transport_unknown", tok |-> 0]
  <2>1. act \in Actions /\ act.outcome = "transport_unknown" BY Members
  <2>2. MayJournal(r, act) BY <1>11 DEF Revokes
  <2> HIDE DEF act
  <2>3. PhasesStay \/ (assoc = "none" /\ PhaseBecomes(r, "pending"))
    BY <1>11, <2>1, <2>2, RowPhases DEF Revokes, Named, PhaseFor
  <2>4. assoc = "none" => PhaseOf(r) = "pending"
    BY <1>11 DEF Revokes, Named, PhaseOf, Pending
  <2>5. PhasesStay BY <2>3, <2>4 DEF PhasesStay, PhaseBecomes
  <2> QED BY <1>11, <2>5, LedgerStays DEF Revokes
<1>12. CASE SyncMatches
  BY <1>12, <1>a, LedgerMatches DEF SyncMatches
<1>13. CASE SyncUnmatches
  BY <1>13, <1>a, LedgerUnmatches DEF SyncUnmatches
<1>14. CASE SyncEnds
  BY <1>14, <1>a, LedgerPublishes
<1>15. CASE UNCHANGED <<journal, assoc, records, writes>>
  <2>1. PhasesStay BY <1>15 DEF PhasesStay, PhaseOf
  <2> QED BY <1>15, <2>1, LedgerStays
<1> QED
  BY <1>0, <1>1, <1>2, <1>3, <1>4, <1>5, <1>6, <1>7, <1>8, <1>9, <1>10, <1>11,
     <1>12, <1>13, <1>14, <1>15
  DEF Effect, Adopts, GivesUp, CheckConfirms, KeepsMatch, MissesMatch, Respond,
      Repeats, Delivered, Lost, Checks, SyncStarts, RotateToken, TokenExpires,
      RemoteMoves, Crash, vars

\* The requests, recoveries, syncs, crashes and lost messages of the detailed
\* specification do to the journal and the writes only what EditionLedger
\* allows, so OpenIsUnwritten (EditionLedger_proofs) is true of them.
THEOREM LedgerImplemented == Spec => ImplementsEditionLedger
<1>1. Init => Ledger!LedgerInit
  BY DEF Init, Ledger!LedgerInit, PhaseOf
<1>2. IInv /\ [Next]_vars => [Ledger!LedgerNext]_Ledger!ledgerVars
  BY StepLedger
<1> QED
  BY <1>1, <1>2, InvariantHolds, PTL
  DEF Spec, ImplementsEditionLedger, Ledger!LedgerSpec

=============================================================================
