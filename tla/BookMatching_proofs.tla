------------------------ MODULE BookMatching_proofs ------------------------
(***************************************************************************)
(* Theorems about BookMatching for any editions, accounts, settings, items *)
(* and catalogues, and any number of changes, edits and faults.  The       *)
(* inductive invariant is                                                  *)
(*                                                                         *)
(*   Types /\ Placed /\ Written /\ NamedWell /\ Saved /\ OutcomesAreHonest *)
(*                                                                         *)
(* Placed relates the place of the sync to its match, Written to what it   *)
(* has changed, NamedWell to the answers that named the match; Saved is    *)
(* about the state, in memory and in the file.                             *)
(***************************************************************************)
EXTENDS BookMatching, TLAPS

USE DEF setVars, remoteVars, stateVars, ghostVars

---------------------------------------------------------------------------
(* The invariant                                                           *)

Places == {"idle", "lookup", "verify", "verifyLate", "enrich", "guard", "own",
           "mark", "resolve", "write"}
MatchKinds == Kinds \cup {"none", "saved", "fallback"}
MatchSet == [edition : Editions \cup {NoEdition}, kind : MatchKinds]
MarkSet == [what : {"own", "create", "correct", "resolve"},
            outcome : {"failed", "synced", "would"}]
Names == [edition : Editions, kind : Kinds]
Misses == {"review", "not_found", "failed"}

\* A job is a record of these fields; nothing depends on the stages left to do.
Shape(j) ==
  j = [todo |-> j.todo, pass |-> j.pass, error |-> j.error, match |-> j.match,
       reconciled |-> j.reconciled, lookup |-> j.lookup,
       checkpoint |-> j.checkpoint, hint |-> j.hint, marks |-> j.marks,
       wrote |-> j.wrote, named |-> j.named]

\* The types of all variables, with those of the records inside them.
Types ==
  /\ profile \in Profiles /\ item \in FirstItems /\ account \in Accounts
  /\ hc \in CatalogueSet
  /\ owned \subseteq Accounts \X Editions
  /\ library \in [Accounts -> [Books -> Editions \cup {NoEdition}]]
  /\ assoc \in AssocSet \cup {NoAssoc} /\ disk.assoc \in AssocSet \cup {NoAssoc}
  /\ base \in Statuses /\ disk.base \in Statuses
  /\ byEdition \in [Editions -> Statuses] /\ disk.byEdition \in [Editions -> Statuses]
  /\ pc \in Places
  /\ Shape(job) /\ job.match \in MatchSet /\ job.named \in Seq(Names)
  /\ job.marks \subseteq MarkSet
  /\ report.outcome \in Outcomes /\ last.outcome \in Outcomes

\* Where the sync has a match, and what a lookup without one is told as.
Placed ==
  /\ pc \in {"guard", "own", "mark", "resolve", "write", "verify", "verifyLate"}
       => job.match.edition \in Editions
  /\ pc = "lookup" /\ job.pass = 2 => job.match.edition \in Editions
  /\ pc = "enrich" => job.hint \in Misses

\* Nothing is written before the match is settled, nor by a dry run; what is
\* written has left its mark, but for a creation that a lookup recovered.
Written ==
  /\ pc \in {"idle", "lookup", "verify", "verifyLate", "enrich"} \/ (pc = "guard" /\ IsAudio)
       => job.marks = {} /\ job.wrote = {}
  /\ job.wrote \ {"recovered"} # {} => Reported(job, "synced")
  /\ ~Saves => job.wrote = {} /\ ~Reported(job, "synced")
  /\ pc = "mark" => Saves

\* One answer of an ISBN lookup names the match until it is asked for again.
Once == job.named = <<[edition |-> job.match.edition, kind |-> "isbn"]>>
ToVerify == job.match.kind = "isbn" /\ IsAudio /\ item.ids.asin # "none"
NamedWell ==
  /\ pc = "lookup" /\ job.pass # 2 => job.named = <<>>
  /\ (pc = "lookup" /\ job.pass = 2) \/ pc \in {"verify", "verifyLate"}
       \/ (pc = "guard" /\ ToVerify) => Once
  /\ pc = "verify" => ~ToVerify
  /\ pc \in {"own", "mark", "resolve", "write"} \/ (pc = "guard" /\ ~ToVerify)
       => NamedBy(job.match.edition)

\* What is saved was confirmed, seen and reached.
GoodMatch(a) ==
  a # NoAssoc =>
    /\ [edition |-> a.edition, ids |-> a.ids] \in confirmed
    /\ IsAudio /\ a.ids.asin # "none" => a.kind \in {"mapping", "tools"}
    /\ a.owner # "nobody" => <<a.owner, BookOf[a.edition]>> \in listed
Earned(status) == status \in {"none", "SKIPPED"} \cup reached
SavedNow ==
  /\ GoodMatch(assoc)
  /\ Earned(base) /\ \A e \in Editions : Earned(byEdition[e])
SavedFile ==
  /\ GoodMatch(disk.assoc)
  /\ Earned(disk.base) /\ \A e \in Editions : Earned(disk.byEdition[e])
Saved == SavedNow /\ SavedFile

IInv == Types /\ Placed /\ Written /\ NamedWell /\ Saved /\ OutcomesAreHonest

---------------------------------------------------------------------------
(* What the steps do, field by field                                       *)

\* The sync goes on with this job.
Becomes(pass, match, marks, wrote, named) ==
  /\ Shape(job')
  /\ job'.pass = pass /\ job'.match = match
  /\ job'.marks = marks /\ job'.wrote = wrote
  /\ job'.named = named
NotRemote == UNCHANGED <<setVars, remoteVars, disk>>
OnlyJob == NotRemote /\ UNCHANGED <<stateVars, last, ghostVars>>

\* A lookup that found nothing, or failed, leaves the next one to do.
GoesOn ==
  /\ pc = "lookup" /\ pc' = "lookup" /\ OnlyJob /\ UNCHANGED report
  /\ Becomes(job.pass, job.match, job.marks, job.wrote, job.named)

Unfinds ==
  /\ pc \in {"lookup", "verify", "verifyLate"} /\ pc' = "enrich" /\ OnlyJob
  /\ report'.outcome \in Outcomes /\ job'.hint \in Misses
  /\ \E named \in Seq(Names) :
       Becomes(job.pass, job.match, job.marks, job.wrote, named)

FindsISBN ==
  /\ pc = "lookup" /\ job.pass # 2 /\ OnlyJob /\ UNCHANGED report
  /\ \E e \in Editions :
       LET match == [edition |-> e, kind |-> "isbn"] IN
       Becomes(IF IsEbook THEN 2 ELSE job.pass, match, job.marks, job.wrote,
               Append(job.named, match))
  /\ pc' = (IF IsEbook THEN "lookup" ELSE
            IF item.ids.asin = "none" THEN "verify" ELSE "guard")

\* What may be saved of a match that was confirmed.
Remembers(e, kind) ==
  /\ assoc' = assoc \/ (Durable(kind) /\ assoc' = Association(e, kind))
  /\ Confirmed(e) /\ NotRemote
  /\ UNCHANGED <<base, byEdition, report, last, listed, reached>>

Finds ==
  /\ pc = "lookup" /\ pc' \in {"own", "guard"}
  /\ \E e \in Editions, kind \in {"mapping", "easin"} :
       /\ \E as \in {kind, "fallback"} :
            Becomes(job.pass, [edition |-> e, kind |-> as], job.marks, job.wrote,
                    Append(job.named, [edition |-> e, kind |-> kind]))
       /\ Remembers(e, kind)

FindsAgain ==
  /\ pc = "lookup" /\ job.pass = 2 /\ pc' = "own"
  /\ \E kind \in {"mapping", "isbn", "easin"} :
       /\ Becomes(job.pass, job.match, job.marks, job.wrote,
                  Append(job.named, [edition |-> job.match.edition, kind |-> kind]))
       /\ Remembers(job.match.edition, kind)

Verifies ==
  /\ pc \in {"verify", "verifyLate"}
  /\ pc' = (IF pc = "verify" THEN "guard" ELSE "own")
  /\ Becomes(job.pass, job.match, job.marks, job.wrote,
             Append(job.named, [edition |-> job.match.edition, kind |-> "isbn"]))
  /\ Remembers(job.match.edition, "isbn")

GuardEnds ==
  /\ pc = "guard" /\ NotRemote /\ UNCHANGED <<stateVars, ghostVars>>
  /\ \/ profile.incremental /\ UpToDate /\ Finish(job, "current")
     \/ Finish(job, "skipped")

GuardPasses ==
  /\ pc = "guard" /\ OnlyJob /\ UNCHANGED <<job, report>>
  /\ pc' \in (IF ToVerify THEN {"verifyLate"} ELSE {"own", "resolve"})

MustMark ==
  /\ pc = "own" /\ pc' = "mark" /\ Saves /\ OnlyJob /\ UNCHANGED <<job, report>>

\* The marks of a step, and whether they tell of a change.
Synced(marks) == \E m \in marks : m.outcome = "synced"

Reconciles ==
  /\ pc \in {"own", "mark"} /\ pc' = (IF IsEbook THEN "guard" ELSE "resolve")
  /\ \E more \in SUBSET MarkSet, wrote \in {job.wrote, job.wrote \cup {"owned"}} :
       /\ Becomes(job.pass, job.match, job.marks \cup more, wrote, job.named)
       /\ wrote # job.wrote => Synced(more)
       /\ Synced(more) => pc = "mark"
  /\ owned' \in {owned, owned \cup {<<account, job.match.edition>>}}
  /\ owned' # owned => pc = "mark"
  /\ \/ UNCHANGED <<assoc, listed>>
     \/ assoc' = OwnershipVerified(job.match.edition) /\ Listed(job.match.edition)
  /\ UNCHANGED <<setVars, hc, library, base, byEdition, disk, report, last,
                 confirmed, reached>>

\* The edition of the user book of the match becomes the edition of the match.
Corrected ==
  [library EXCEPT ![account][BookOf[job.match.edition]] = job.match.edition]

Creations == {"create", "correct", "recovered"}

Resolves ==
  /\ pc = "resolve" /\ pc' = "write"
  /\ \E more \in SUBSET MarkSet, wrote \in SUBSET (job.wrote \cup Creations) :
       /\ Becomes(job.pass, job.match, job.marks \cup more, wrote, job.named)
       /\ wrote \ {"recovered"} # job.wrote \ {"recovered"} => Synced(more)
       /\ wrote # job.wrote \/ Synced(more) => Saves
  /\ library' \in {library, Corrected}
  /\ UNCHANGED <<setVars, hc, owned, stateVars, disk, report, last, ghostVars>>

ResolveEnds ==
  /\ pc = "resolve" /\ Finish(Mark(job, "resolve", "failed"), "failed")
  /\ library' \in {library, Corrected}
  /\ UNCHANGED <<setVars, hc, owned, stateVars, disk, ghostVars>>

Effect ==
  \/ SkipItem \/ Begin \/ GoesOn \/ Unfinds \/ FindsISBN \/ Finds \/ FindsAgain
  \/ Verifies \/ Enrich \/ GuardEnds \/ GuardPasses \/ MustMark \/ Reconciles
  \/ Resolves \/ ResolveEnds \/ EditionGone \/ WriteStatus \/ LeaveStatus
  \/ WriteFails \/ Around \/ UNCHANGED vars

\* The marks of a step belong to the set that types them.
LEMMA MarkInSet ==
  ASSUME NEW what \in {"own", "create", "correct", "resolve"},
         NEW outcome \in {"failed", "synced", "would"}
  PROVE  /\ {[what |-> what, outcome |-> outcome]} \in SUBSET MarkSet
         /\ Synced({[what |-> what, outcome |-> outcome]}) <=> outcome = "synced"
BY DEF MarkSet, Synced

\* A lookup that only shortens the stages, or also remembers an error.
LEMMA GoesOnEffect ==
  ASSUME Types, pc = "lookup", UNCHANGED <<pc, report>>, OnlyJob,
         NEW todo, NEW error,
         job' = [job EXCEPT !.todo = todo, !.error = error]
  PROVE  GoesOn
<1>1. Becomes(job.pass, job.match, job.marks, job.wrote, job.named)
  BY DEF Types, Shape, Becomes
<1> QED BY <1>1 DEF GoesOn

\* A lookup that ends without a match.
LEMMA UnfindsEffect ==
  ASSUME Types, pc \in {"lookup", "verify", "verifyLate"}, OnlyJob,
         NEW named \in Seq(Names), NEW checkpoint, NEW outcome \in Misses,
         Unfound([job EXCEPT !.named = named, !.checkpoint = checkpoint], outcome)
  PROVE  Unfinds
<1>0. Shape(job) BY DEF Types
<1>1. PICK j : j = [job EXCEPT !.named = named, !.checkpoint = checkpoint]
  OBVIOUS
<1>5. /\ Shape(j) /\ j.named = named
      /\ j.pass = job.pass /\ j.match = job.match
      /\ j.marks = job.marks /\ j.wrote = job.wrote
  BY <1>0, <1>1 DEF Shape
<1>2. /\ job' = [j EXCEPT !.todo = <<>>, !.hint = outcome, !.lookup = outcome = "failed"]
      /\ pc' = "enrich"
      /\ report' = Shown(job', outcome)
  BY <1>1 DEF Unfound
<1>3. Becomes(job.pass, job.match, job.marks, job.wrote, named) /\ job'.hint = outcome
  BY <1>2, <1>5 DEF Shape, Becomes
<1>4. report'.outcome \in Outcomes
  BY <1>2 DEF Shown, Misses, Outcomes
<1> QED BY <1>2, <1>3, <1>4 DEF Unfinds

\* A stage that ends the lookup without a new answer.
LEMMA NothingEffect ==
  ASSUME Types, pc = "lookup", NEW outcome \in Misses, Nothing(outcome)
  PROVE  Unfinds
<1>1. [job EXCEPT !.checkpoint = job.pass = 2] =
        [job EXCEPT !.named = job.named, !.checkpoint = job.pass = 2]
  BY DEF Types, Shape
<1>2. OnlyJob BY DEF Nothing, Unfound, Unchanged, OnlyJob, NotRemote
<1>3. job.named \in Seq(Names) BY DEF Types
<1> HIDE DEF Types
<1> QED BY <1>1, <1>2, <1>3, UnfindsEffect DEF Nothing, Types

\* A lookup that answers with one edition.
LEMMA AnswerEffect ==
  ASSUME Types, Placed, pc = "lookup",
         NEW e \in Editions, NEW kind \in {"mapping", "isbn", "easin"},
         Answer(e, kind)
  PROVE  Effect
<1> DEFINE name == [edition |-> e, kind |-> kind]
           j == Named(e, kind)
<1>1. name \in Names /\ Append(job.named, name) \in Seq(Names)
  BY DEF Types, Names, Kinds
<1>0. Shape(job) BY DEF Types
<1>2. /\ Shape(j) /\ j.named = Append(job.named, name)
      /\ j.pass = job.pass /\ j.match = job.match
      /\ j.marks = job.marks /\ j.wrote = job.wrote
  BY SMTT(20), <1>0 DEF Shape, Named
<1>3. UNCHANGED <<setVars, remoteVars, disk, listed, reached>>
  BY DEF Answer
<1>4. CASE job.pass = 2 /\ e = job.match.edition
  <2>1. /\ job' = [j EXCEPT !.todo = <<>>] /\ pc' = "own"
        /\ Remember(e, kind) /\ Confirmed(e) /\ UNCHANGED <<report, last>>
    BY <1>4 DEF Answer, FoundAgain
  <2> HIDE DEF j
  <2>2. Becomes(job.pass, job.match, job.marks, job.wrote, Append(job.named, name))
    BY <1>2, <2>1 DEF Shape, Becomes
  <2>3. Remembers(e, kind)
    BY <1>3, <2>1 DEF Remember, Remembers, NotRemote
  <2> QED BY <1>4, <2>1, <2>2, <2>3 DEF FindsAgain, Effect
<1>5. CASE job.pass = 2 /\ e # job.match.edition
  <2>1. /\ Unfound([j EXCEPT !.checkpoint = TRUE], "failed")
        /\ UNCHANGED <<stateVars, confirmed>>
    BY <1>5 DEF Answer, FoundAgain
  <2>2. [j EXCEPT !.checkpoint = TRUE] =
          [job EXCEPT !.named = Append(job.named, name), !.checkpoint = TRUE]
    BY DEF Types, Shape, Named
  <2>3. OnlyJob BY <1>3, <2>1 DEF OnlyJob, NotRemote, Unfound
  <2>4. "failed" \in Misses BY DEF Misses
  <2> HIDE DEF j, name
  <2> QED BY <1>1, <2>1, <2>2, <2>3, <2>4, UnfindsEffect DEF Effect
<1>6. CASE job.pass # 2 /\ kind = "isbn"
  <2>0. PICK k : k = [j EXCEPT !.todo = <<>>, !.match = name]
    OBVIOUS
  <2>1. /\ IF IsEbook THEN job' = [k EXCEPT !.todo = Plan, !.pass = 2, !.error = FALSE]
                           /\ pc' = "lookup"
           ELSE job' = k /\ pc' = (IF item.ids.asin = "none" THEN "verify" ELSE "guard")
        /\ UNCHANGED <<stateVars, confirmed, report, last>>
    BY <1>6, <2>0 DEF Answer, Found
  <2> HIDE DEF j, name
  <2>2. /\ Shape(k) /\ k.match = name /\ k.pass = j.pass /\ k.named = j.named
        /\ k.marks = j.marks /\ k.wrote = j.wrote
    BY <1>2, <2>0 DEF Shape
  <2>3. Becomes(IF IsEbook THEN 2 ELSE job.pass, name, job.marks, job.wrote,
                Append(job.named, name))
    BY <1>2, <2>1, <2>2 DEF Shape, Becomes
  <2> QED BY <1>3, <1>6, <2>1, <2>3 DEF FindsISBN, Effect, OnlyJob, NotRemote, name
<1>7. CASE job.pass # 2 /\ kind # "isbn"
  <2>1. /\ job' = [j EXCEPT !.todo = <<>>, !.match = name]
        /\ pc' = (IF IsEbook THEN "own" ELSE "guard")
        /\ Remember(e, kind) /\ Confirmed(e) /\ UNCHANGED <<report, last>>
    BY <1>7 DEF Answer, Found
  <2> HIDE DEF j, name
  <2>2. Becomes(job.pass, name, job.marks, job.wrote, Append(job.named, name))
    BY <1>2, <2>1 DEF Shape, Becomes
  <2>3. Remembers(e, kind)
    BY <1>3, <2>1 DEF Remember, Remembers, NotRemote
  <2> QED BY <1>7, <2>1, <2>2, <2>3 DEF Finds, Effect, name
<1> QED BY <1>4, <1>5, <1>6, <1>7

\* The lookups.
LEMMA LookupEffects ==
  ASSUME Types, Placed, Lookup
  PROVE  Effect
<1>a. hc.isbn \subseteq Editions
  BY DEF Types, CatalogueSet
<1>b. Miss /\ pc = "lookup" /\ Unchanged /\ UNCHANGED stateVars => Effect
  <2>1. [job EXCEPT !.todo = Tail(@)] =
          [job EXCEPT !.todo = Tail(job.todo), !.error = job.error]
    BY DEF Types, Shape
  <2> QED BY <2>1, GoesOnEffect DEF Miss, Unchanged, OnlyJob, NotRemote, Effect
<1>c. ASSUME pc = "lookup", NEW outcome \in Misses, Nothing(outcome)
      PROVE  Effect
  BY <1>c, NothingEffect DEF Effect
<1>1. CASE LookupASIN
  <2>1. pc = "lookup" BY <1>1 DEF LookupASIN, Stage
  <2>2. CASE Miss /\ Unchanged /\ UNCHANGED stateVars BY <1>b, <2>1, <2>2
  <2>3. ASSUME NEW e \in Editions, Answer(e, IF IsAudio THEN "mapping" ELSE "easin")
        PROVE  Effect
    BY <2>1, <2>3, AnswerEffect
  <2>4. CASE Nothing("review") BY <1>c, <2>1, <2>4 DEF Misses
  <2> QED BY <1>1, <2>2, <2>3, <2>4 DEF LookupASIN
<1>2. CASE LookupISBN
  <2>1. pc = "lookup" BY <1>2 DEF LookupISBN, Stage
  <2>2. PICK e \in ISBNAnswers :
          IF e = NoEdition THEN Miss /\ Unchanged /\ UNCHANGED stateVars
                           ELSE Answer(e, "isbn")
    BY <1>2 DEF LookupISBN
  <2>3. CASE e = NoEdition BY <1>b, <2>1, <2>2, <2>3
  <2>4. CASE e # NoEdition
    <3>1. e \in Editions BY <1>a, <2>4 DEF ISBNAnswers
    <3> QED BY <2>1, <2>2, <2>4, <3>1, AnswerEffect
  <2> QED BY <2>3, <2>4
<1>3. CASE LookupEditionASIN
  <2>1. pc = "lookup" BY <1>3 DEF LookupEditionASIN, Stage
  <2>2. CASE Nothing("review") \/ Nothing("failed")
    BY <1>c, <2>1, <2>2 DEF Misses
  <2>3. ASSUME NEW e \in Editions,
               job' = [Named(e, "easin") EXCEPT !.todo = <<>>,
                         !.match = [edition |-> e, kind |-> "fallback"]],
               pc' = "guard" /\ Confirmed(e),
               UNCHANGED <<setVars, remoteVars, stateVars, disk, report, last,
                           listed, reached>>
        PROVE  Effect
    <3>1. Becomes(job.pass, [edition |-> e, kind |-> "fallback"], job.marks, job.wrote,
                  Append(job.named, [edition |-> e, kind |-> "easin"]))
      BY <2>3 DEF Types, Shape, Becomes, Named
    <3>2. Remembers(e, "easin") BY <2>3 DEF Remembers, NotRemote
    <3> QED BY <2>1, <2>3, <3>1, <3>2 DEF Finds, Effect
  <2> QED BY <1>3, <2>2, <2>3 DEF LookupEditionASIN
<1>4. CASE LookupTitle
  <2>1. pc = "lookup" /\ TitleOutcome \in Misses /\ Nothing(TitleOutcome)
    BY <1>4 DEF LookupTitle, Stage, TitleOutcome, Misses
  <2> QED BY <1>c, <2>1
<1>5. CASE LookupFails
  <2>1. pc = "lookup" BY <1>5 DEF LookupFails
  <2>2. CASE Nothing("failed") BY <1>c, <2>1, <2>2 DEF Misses
  <2>3. CASE /\ job' = [job EXCEPT !.todo = Tail(@), !.error = TRUE]
             /\ UNCHANGED pc /\ Quiet
    <3>1. job' = [job EXCEPT !.todo = Tail(job.todo), !.error = TRUE]
      BY <2>3 DEF Types, Shape
    <3> QED BY <2>1, <2>3, <3>1, GoesOnEffect
            DEF Quiet, Unchanged, OnlyJob, NotRemote, Effect
  <2> QED BY <1>5, <2>2, <2>3 DEF LookupFails
<1>d. ASSUME pc \in {"verify", "verifyLate"},
             Unfound([job EXCEPT !.checkpoint = TRUE], "failed"),
             Unchanged, UNCHANGED stateVars
      PROVE  Effect
  <2>1. [job EXCEPT !.checkpoint = TRUE] =
          [job EXCEPT !.named = job.named, !.checkpoint = TRUE]
    BY DEF Types, Shape
  <2>2. OnlyJob BY <1>d DEF Unfound, Unchanged, OnlyJob, NotRemote
  <2>3. job.named \in Seq(Names) /\ "failed" \in Misses BY DEF Types, Misses
  <2> QED BY <1>d, <2>1, <2>2, <2>3, UnfindsEffect DEF Effect
<1>6. CASE VerifyISBN
  <2>1. pc \in {"verify", "verifyLate"} BY <1>6 DEF VerifyISBN
  <2>2. CASE Unfound([job EXCEPT !.checkpoint = TRUE], "failed") /\ Unchanged
             /\ UNCHANGED stateVars
    BY <1>d, <2>1, <2>2
  <2>3. CASE /\ job' = Named(job.match.edition, "isbn")
             /\ pc' = (IF pc = "verify" THEN "guard" ELSE "own")
             /\ IF pc = "verify" THEN Remember(job.match.edition, "isbn")
                ELSE UNCHANGED stateVars
             /\ Confirmed(job.match.edition)
             /\ UNCHANGED <<setVars, remoteVars, disk, report, last, listed, reached>>
    <3>1. Becomes(job.pass, job.match, job.marks, job.wrote,
                  Append(job.named, [edition |-> job.match.edition, kind |-> "isbn"]))
      BY <2>3 DEF Types, Shape, Becomes, Named
    <3>2. Remembers(job.match.edition, "isbn")
      BY <2>3 DEF Remembers, Remember, NotRemote
    <3> QED BY <2>1, <2>3, <3>1, <3>2 DEF Verifies, Effect
  <2> QED BY <1>6, <2>2, <2>3 DEF VerifyISBN
<1>7. CASE VerifyFails BY <1>d, <1>7 DEF VerifyFails
<1>8. CASE Enrich BY <1>8 DEF Effect
<1> QED BY <1>1, <1>2, <1>3, <1>4, <1>5, <1>6, <1>7, <1>8 DEF Lookup

\* What follows the match.
LEMMA ApplyEffects ==
  ASSUME Types, Placed, Apply
  PROVE  Effect
<1>a. ASSUME NEW marks, NEW wrote, NEW reconciled,
             job' = [job EXCEPT !.marks = marks, !.wrote = wrote,
                                !.reconciled = reconciled]
      PROVE  Becomes(job.pass, job.match, marks, wrote, job.named)
  BY <1>a DEF Types, Shape, Becomes
<1>1. CASE Guard
  <2>0. pc = "guard" /\ NotRemote /\ UNCHANGED <<stateVars, ghostVars>>
    BY <1>1 DEF Guard, Unchanged, NotRemote
  <2>1. CASE profile.incremental /\ UpToDate
    BY <1>1, <2>0, <2>1 DEF Guard, GuardEnds, Effect
  <2>2. CASE ~(profile.incremental /\ UpToDate) /\ (item.target = "below" \/ Status = "none")
    BY <1>1, <2>0, <2>2 DEF Guard, GuardEnds, Effect
  <2>3. CASE ~(profile.incremental /\ UpToDate) /\ ~(item.target = "below" \/ Status = "none")
    <3>1. UNCHANGED <<job, report, last>>
      BY <1>1, <2>3 DEF Guard
    <3>2. pc' \in (IF ToVerify THEN {"verifyLate"} ELSE {"own", "resolve"})
      BY <1>1, <2>3 DEF Guard, ToVerify
    <3> QED BY <2>0, <3>1, <3>2 DEF GuardPasses, OnlyJob, Effect
  <2> QED BY <2>1, <2>2, <2>3
<1>b. ASSUME NEW marks, NEW wrote,
             job' = [job EXCEPT !.marks = marks, !.wrote = wrote, !.reconciled = TRUE]
      PROVE  Becomes(job.pass, job.match, marks, wrote, job.named)
  BY <1>a, <1>b
<1>2. CASE SkipOwnership
  <2>1. job' = [job EXCEPT !.marks = job.marks \cup {}, !.wrote = job.wrote,
                           !.reconciled = TRUE]
    BY <1>2 DEF SkipOwnership, Reconciled, Types, Shape
  <2>2. Becomes(job.pass, job.match, job.marks \cup {}, job.wrote, job.named)
    BY <1>b, <2>1
  <2>3. {} \in SUBSET MarkSet /\ ~Synced({}) BY DEF Synced
  <2> QED BY <1>2, <2>2, <2>3
          DEF SkipOwnership, Reconciled, Unchanged, Reconciles, Effect
<1>3. CASE CheckOwnership
  <2> DEFINE e == job.match.edition
  <2>1. pc = "own" /\ UNCHANGED <<setVars, remoteVars, base, byEdition, disk, confirmed, reached>>
    BY <1>3 DEF CheckOwnership
  <2>2. CASE Reconciled(job) /\ assoc' = OwnershipVerified(e) /\ Listed(e)
    <3>1. job' = [job EXCEPT !.marks = job.marks \cup {}, !.wrote = job.wrote,
                             !.reconciled = TRUE]
      BY <2>2 DEF Reconciled, Types, Shape
    <3>2. Becomes(job.pass, job.match, job.marks \cup {}, job.wrote, job.named)
      BY <1>b, <3>1
    <3>3. {} \in SUBSET MarkSet /\ ~Synced({}) BY DEF Synced
    <3> QED BY <2>1, <2>2, <3>2, <3>3 DEF Reconciled, Reconciles, Effect
  <2>3. CASE Saves /\ pc' = "mark" /\ UNCHANGED <<job, report, last, assoc, listed>>
    BY <2>1, <2>3 DEF MustMark, OnlyJob, NotRemote, Effect
  <2>4. CASE Reconciled(Mark(job, "own", "would")) /\ UNCHANGED <<assoc, listed>>
    <3> DEFINE more == {[what |-> "own", outcome |-> "would"]}
    <3>1. job' = [job EXCEPT !.marks = job.marks \cup more, !.wrote = job.wrote,
                             !.reconciled = TRUE]
      BY <2>4 DEF Reconciled, Mark, Types, Shape
    <3>2. more \in SUBSET MarkSet /\ ~Synced(more) BY MarkInSet
    <3> HIDE DEF more
    <3>3. Becomes(job.pass, job.match, job.marks \cup more, job.wrote, job.named)
      BY <1>b, <3>1
    <3> QED BY <2>1, <2>4, <3>2, <3>3 DEF Reconciled, Reconciles, Effect
  <2> QED BY <1>3, <2>2, <2>3, <2>4 DEF CheckOwnership
<1>4. CASE MarkOwned
  <2> DEFINE more == {[what |-> "own", outcome |-> "synced"]}
  <2>1. job' = [job EXCEPT !.marks = job.marks \cup more,
                           !.wrote = job.wrote \cup {"owned"}, !.reconciled = TRUE]
    BY <1>4 DEF MarkOwned, Reconciled, Mark, Types, Shape
  <2>2. more \in SUBSET MarkSet /\ Synced(more) BY MarkInSet
  <2> HIDE DEF more
  <2>3. Becomes(job.pass, job.match, job.marks \cup more, job.wrote \cup {"owned"}, job.named)
    BY <1>b, <2>1
  <2> QED BY <1>4, <2>2, <2>3 DEF MarkOwned, Reconciled, Reconciles, Effect
<1>5. CASE OwnershipFails
  <2> DEFINE more == {[what |-> "own", outcome |-> "failed"]}
  <2>1. job' = [job EXCEPT !.marks = job.marks \cup more, !.wrote = job.wrote,
                           !.reconciled = TRUE]
    BY <1>5 DEF OwnershipFails, Reconciled, Mark, Types, Shape
  <2>2. more \in SUBSET MarkSet /\ ~Synced(more) BY MarkInSet
  <2> HIDE DEF more
  <2>3. Becomes(job.pass, job.match, job.marks \cup more, job.wrote, job.named)
    BY <1>b, <2>1
  <2>4. /\ owned' \in {owned, owned \cup {<<account, job.match.edition>>}}
        /\ owned' # owned => pc = "mark"
    BY <1>5 DEF OwnershipFails
  <2> QED BY <1>5, <2>2, <2>3, <2>4 DEF OwnershipFails, Reconciled, Reconciles, Effect
<1>6. CASE ResolveUserBook
  <2> DEFINE e == job.match.edition
  <2>1. PICK change \in {"none", "create", "correct"} :
          job' = (CASE change = "none" -> job
                    [] change # "none" /\ Saves ->
                         [Mark(job, change, "synced") EXCEPT !.wrote = @ \cup {change}]
                    [] OTHER -> Mark(job, change, "would"))
    BY SMTT(20), <1>6 DEF ResolveUserBook
  <2>2. /\ pc = "resolve" /\ pc' = "write" /\ library' \in {library, Corrected}
        /\ UNCHANGED <<setVars, hc, owned, stateVars, disk, report, last, ghostVars>>
    BY <1>6 DEF ResolveUserBook, Corrected
  <2>3. CASE change = "none"
    <3>1. job' = [job EXCEPT !.marks = job.marks \cup {}, !.wrote = job.wrote,
                             !.reconciled = job.reconciled]
      BY <2>1, <2>3 DEF Types, Shape
    <3>2. Becomes(job.pass, job.match, job.marks \cup {}, job.wrote, job.named)
      BY <1>a, <3>1
    <3>3. {} \in SUBSET MarkSet /\ ~Synced({}) BY DEF Synced
    <3> QED BY <2>2, <3>2, <3>3 DEF Resolves, Effect, Creations
  <2>4. CASE change # "none" /\ Saves
    <3> DEFINE more == {[what |-> change, outcome |-> "synced"]}
    <3>1. job' = [job EXCEPT !.marks = job.marks \cup more,
                             !.wrote = job.wrote \cup {change},
                             !.reconciled = job.reconciled]
      BY <2>1, <2>4 DEF Mark, Types, Shape
    <3>2. more \in SUBSET MarkSet /\ Synced(more) BY <2>4, MarkInSet
    <3> HIDE DEF more
    <3>3. Becomes(job.pass, job.match, job.marks \cup more, job.wrote \cup {change}, job.named)
      BY <1>a, <3>1
    <3>4. job.wrote \cup {change} \in SUBSET (job.wrote \cup Creations)
      BY <2>4 DEF Creations
    <3> QED BY <2>2, <2>4, <3>2, <3>3, <3>4 DEF Resolves, Effect
  <2>5. CASE change # "none" /\ ~Saves
    <3> DEFINE more == {[what |-> change, outcome |-> "would"]}
    <3>1. job' = [job EXCEPT !.marks = job.marks \cup more, !.wrote = job.wrote,
                             !.reconciled = job.reconciled]
      BY <2>1, <2>5 DEF Mark, Types, Shape
    <3>2. more \in SUBSET MarkSet /\ ~Synced(more) BY <2>5, MarkInSet
    <3> HIDE DEF more
    <3>3. Becomes(job.pass, job.match, job.marks \cup more, job.wrote, job.named)
      BY <1>a, <3>1
    <3> QED BY <2>2, <3>2, <3>3 DEF Resolves, Effect
  <2> QED BY <2>3, <2>4, <2>5
<1>7. CASE EditionGone BY <1>7 DEF Effect
<1>8. CASE ResolveFails
  BY <1>8 DEF ResolveFails, ResolveEnds, Corrected, Effect
<1>9. CASE WriteStatus \/ LeaveStatus \/ WriteFails BY <1>9 DEF Effect
<1>10. CASE RecoverUserBook
  <2>1. job' = [job EXCEPT !.marks = job.marks \cup {},
                           !.wrote = job.wrote \cup {"recovered"},
                           !.reconciled = job.reconciled]
    BY <1>10 DEF RecoverUserBook, Types, Shape
  <2>2. Becomes(job.pass, job.match, job.marks \cup {}, job.wrote \cup {"recovered"}, job.named)
    BY <1>a, <2>1
  <2>3. {} \in SUBSET MarkSet /\ ~Synced({}) BY DEF Synced
  <2>4. /\ job.wrote \cup {"recovered"} \in SUBSET (job.wrote \cup Creations)
        /\ (job.wrote \cup {"recovered"}) \ {"recovered"} = job.wrote \ {"recovered"}
    BY DEF Creations
  <2> QED BY <1>10, <2>2, <2>3, <2>4 DEF RecoverUserBook, Corrected, Resolves, Effect
<1> QED BY <1>1, <1>2, <1>3, <1>4, <1>5, <1>6, <1>7, <1>8, <1>9, <1>10 DEF Apply

\* Every step is one of the effects.
LEMMA Effects ==
  ASSUME Types, Placed, [Next]_vars
  PROVE  Effect
BY LookupEffects, ApplyEffects DEF Next, Sync, Effect

---------------------------------------------------------------------------
(* What the operators yield                                                *)

\* The constants bound the settings and the item.
LEMMA Bounded ==
  ASSUME Types
  PROVE  /\ profile \in ProfileSet /\ item \in Items /\ item.ids \in Identifiers
         /\ profile.dryRun \in BOOLEAN /\ (Saves <=> ~profile.dryRun)
         /\ IsEbook <=> ~IsAudio
BY BookMatchingAssumption
DEF Types, ProfileSet, Items, Saves, IsEbook, IsAudio, Formats

\* A saved match has the type of one.
LEMMA SavedTyped ==
  ASSUME NEW a \in AssocSet \cup {NoAssoc}
  PROVE  a # NoAssoc <=> a \in AssocSet
BY BookMatchingAssumption DEF AssocSet, NoAssoc

\* The status of an item is no failed attempt.
LEMMA StatusTyped == Status \in Statuses \ {"SKIPPED"}
BY DEF Status, Statuses

\* What is saved of a match, and of its ownership.
LEMMA AssociationTyped ==
  ASSUME Types, NEW e \in Editions, NEW kind \in Kinds
  PROVE  /\ Association(e, kind) \in AssocSet
         /\ Association(e, kind).edition = e /\ Association(e, kind).ids = item.ids
         /\ Association(e, kind).kind = kind
         /\ \/ Association(e, kind).owner = "nobody"
            \/ /\ assoc # NoAssoc /\ assoc.edition = e
               /\ Association(e, kind).owner = assoc.owner
<1>1. item.ids \in Identifiers BY Bounded
<1>2. CASE assoc # NoAssoc /\ assoc.edition = e /\ assoc.ids = item.ids
  <2>1. assoc \in AssocSet BY <1>2, SavedTyped DEF Types
  <2>2. Association(e, kind) = [assoc EXCEPT !.kind = kind]
    BY <1>2 DEF Association
  <2> QED BY <1>2, <2>1, <2>2 DEF AssocSet
<1>3. CASE ~(assoc # NoAssoc /\ assoc.edition = e /\ assoc.ids = item.ids)
  <2>1. Association(e, kind) = [edition |-> e, ids |-> item.ids, kind |-> kind,
                                owner |-> "nobody", recent |-> FALSE]
    BY <1>3 DEF Association
  <2> QED BY <1>1, <2>1 DEF AssocSet
<1> QED BY <1>2, <1>3

\* An ownership step gives the owned books and the file values of their types.
LEMMA OwnershipTyped ==
  ASSUME Types, NEW e \in Editions
  PROVE  LET new == OwnershipVerified(e) IN
         /\ new \in AssocSet \cup {NoAssoc}
         /\ new # NoAssoc <=> assoc # NoAssoc
         /\ assoc # NoAssoc =>
              /\ new.edition = assoc.edition /\ new.ids = assoc.ids
              /\ new.kind = assoc.kind
              /\ \/ new.owner = assoc.owner
                 \/ new.owner = account /\ assoc.edition = e
<1>1. CASE Saves /\ assoc # NoAssoc /\ assoc.edition = e
  <2>1. assoc \in AssocSet BY <1>1, SavedTyped DEF Types
  <2>2. OwnershipVerified(e) = [assoc EXCEPT !.owner = account, !.recent = TRUE]
    BY <1>1 DEF OwnershipVerified
  <2>3. account \in Accounts BY DEF Types
  <2>4. OwnershipVerified(e) \in AssocSet BY <2>1, <2>2, <2>3 DEF AssocSet
  <2> QED BY <1>1, <2>1, <2>2, <2>4, SavedTyped DEF AssocSet
<1>2. CASE ~(Saves /\ assoc # NoAssoc /\ assoc.edition = e)
  <2>1. OwnershipVerified(e) = assoc BY <1>2 DEF OwnershipVerified
  <2> QED BY <2>1 DEF Types
<1> QED BY <1>1, <1>2

\* The outcome of a sync, and what the history keeps of it.
LEMMA Ends ==
  ASSUME NEW j, NEW hint \in Outcomes, Finish(j, hint)
  PROVE  /\ pc' = "idle" /\ job' = NoJob
         /\ report'.outcome \in Outcomes /\ last'.outcome \in Outcomes
         /\ last'.wrote = j.wrote /\ last'.failed = Reported(j, "failed")
         /\ last'.outcome = Outcome(j, hint)
         /\ last'.outcome = "current" => hint = "current"
BY DEF Finish, Shown, Outcome, Outcomes

\* A job that ends as its outcome says leaves an honest outcome.
LEMMA EndsHonest ==
  ASSUME NEW j, NEW hint \in Outcomes, Finish(j, hint), UNCHANGED profile,
         j.wrote \ {"recovered"} # {} =>
           \/ hint \in {"synced", "failed"}
           \/ hint \in {"current", "skipped"} /\ Reported(j, "synced"),
         ~Saves => j.wrote = {} /\ hint # "synced" /\ ~Reported(j, "synced")
  PROVE  OutcomesAreHonest'
<1>1. /\ last'.wrote = j.wrote /\ last'.failed = Reported(j, "failed")
      /\ last'.outcome = Outcome(j, hint)
  BY Ends
<1>2. Reported(j, "failed") => Outcome(j, hint) = "failed"
  BY DEF Outcome
<1>3. j.wrote \ {"recovered"} # {} => Outcome(j, hint) \in {"synced", "failed"}
  BY DEF Outcome
<1>4. ~Saves => Outcome(j, hint) # "synced"
  BY DEF Outcome
<1> QED BY <1>1, <1>2, <1>3, <1>4 DEF OutcomesAreHonest, Saves

\* The job of a sync that is not under way, and the checkpoints of no edition.
LEMMA IdleJob ==
  /\ Shape(NoJob) /\ NoJob.match = NoMatch /\ NoJob.named = <<>>
  /\ NoJob.marks = {} /\ NoJob.wrote = {} /\ NoJob.pass = 1
  /\ NoMatch \in MatchSet /\ <<>> \in Seq(Names)
BY DEF NoJob, Shape, NoMatch, MatchSet, MatchKinds

\* Without checkpoints every edition has status none.
LEMMA Cleared ==
  /\ NoCheckpoints \in [Editions -> Statuses]
  /\ \A e \in Editions : NoCheckpoints[e] = "none"
BY DEF NoCheckpoints, Statuses

\* The checkpoints that a step may set, each one of the old ones or this.
Checkpoints(status) ==
  /\ base' \in {base, status}
  /\ byEdition' \in [Editions -> Statuses]
  /\ \A e \in Editions : byEdition'[e] \in {byEdition[e], status}

\* What a checkpoint does to the checkpoints, item by item.
LEMMA CheckpointsSet ==
  ASSUME Types
  PROVE  /\ UNCHANGED <<base, byEdition>> => \A s \in Statuses : Checkpoints(s)
         /\ Invalidated => Checkpoints("none")
         /\ RemoveAssociation => Checkpoints("none")
         /\ \A e \in Editions, s \in Statuses : Checkpoint(e, s) => Checkpoints(s)
<1>1. byEdition \in [Editions -> Statuses] BY DEF Types
<1>2. base' = "none" /\ byEdition' = NoCheckpoints => Checkpoints("none")
  BY Cleared DEF Checkpoints
<1>3. UNCHANGED <<base, byEdition>> => \A s \in Statuses : Checkpoints(s)
  BY <1>1 DEF Checkpoints
<1>4. ASSUME NEW e \in Editions, NEW s \in Statuses, Checkpoint(e, s)
      PROVE  Checkpoints(s)
  BY <1>1, <1>4 DEF Checkpoints, Checkpoint
<1>5. "none" \in Statuses BY DEF Statuses
<1> QED BY <1>2, <1>3, <1>4, <1>5 DEF Invalidated, RemoveAssociation

---------------------------------------------------------------------------
(* Every step keeps the invariant                                          *)

\* Saved matches and checkpoints are typed, in memory and in the file.
StateTyped ==
  /\ assoc \in AssocSet \cup {NoAssoc} /\ disk.assoc \in AssocSet \cup {NoAssoc}
  /\ base \in Statuses /\ disk.base \in Statuses
  /\ byEdition \in [Editions -> Statuses] /\ disk.byEdition \in [Editions -> Statuses]

\* A checkpoint keeps the type of the checkpoints.
LEMMA CheckpointsTyped ==
  ASSUME Types, NEW s \in Statuses, Checkpoints(s), UNCHANGED disk,
         assoc' \in AssocSet \cup {NoAssoc}
  PROVE  StateTyped'
BY DEF Types, Checkpoints, StateTyped

\* Remembering a match keeps the type of the state.
LEMMA RemembersTyped ==
  ASSUME Types, NEW e \in Editions, NEW kind \in Kinds, Remembers(e, kind)
  PROVE  StateTyped'
<1>1. assoc' \in AssocSet \cup {NoAssoc}
  BY AssociationTyped DEF Types, Remembers
<1> QED BY <1>1 DEF Types, StateTyped, Remembers, NotRemote

\* The state of a step that changes nothing else of it.
LEMMA StateStays ==
  ASSUME Types, UNCHANGED <<stateVars, disk>>
  PROVE  StateTyped'
BY DEF Types, StateTyped

\* The job of a step.
JobTyped ==
  /\ pc \in Places
  /\ Shape(job) /\ job.match \in MatchSet /\ job.named \in Seq(Names)
  /\ job.marks \subseteq MarkSet
  /\ report.outcome \in Outcomes /\ last.outcome \in Outcomes

\* The end of a job keeps the types.
LEMMA EndsTyped ==
  ASSUME Types, NEW j, NEW hint \in Outcomes, Finish(j, hint)
  PROVE  JobTyped'
<1>1. "idle" \in Places BY DEF Places
<1> QED BY <1>1, Ends, IdleJob DEF JobTyped

\* A step to another place keeps the types.
LEMMA BecomesTyped ==
  ASSUME Types, pc' \in Places, report'.outcome \in Outcomes, UNCHANGED last,
         NEW pass, NEW match \in MatchSet, NEW marks \in SUBSET MarkSet, NEW wrote,
         NEW named \in Seq(Names),
         Becomes(pass, match, marks, wrote, named)
  PROVE  JobTyped'
BY DEF Types, JobTyped, Becomes

\* What belongs to Hardcover and to the setting.
WorldTyped ==
  /\ profile \in Profiles /\ item \in FirstItems /\ account \in Accounts
  /\ hc \in CatalogueSet
  /\ owned \subseteq Accounts \X Editions
  /\ library \in [Accounts -> [Books -> Editions \cup {NoEdition}]]

\* What leaves settings and Hardcover alone keeps the types of the world.
LEMMA WorldStays ==
  ASSUME Types, UNCHANGED <<setVars, remoteVars>>
  PROVE  WorldTyped'
BY DEF Types, WorldTyped

\* Correcting the edition of a user book keeps the types of the world.
LEMMA Corrects ==
  ASSUME Types, job.match.edition \in Editions, UNCHANGED <<setVars, hc, owned>>,
         library' \in {library, Corrected}
  PROVE  WorldTyped'
<1>1. BookOf[job.match.edition] \in Books BY DEF Books
<1>2. Corrected \in [Accounts -> [Books -> Editions \cup {NoEdition}]]
  BY <1>1 DEF Types, Corrected
<1> QED BY <1>2 DEF Types, WorldTyped

\* The types, part by part, for the state after a step.
LEMMA TypesParts ==
  ASSUME WorldTyped', StateTyped', JobTyped' PROVE Types'
BY DEF Types, WorldTyped, StateTyped, JobTyped

\* The steps outside a job keep the types.
LEMMA AroundTypes ==
  ASSUME Types, Around
  PROVE  Types'
<1>a. UNCHANGED jobVars => JobTyped'
  BY DEF Types, JobTyped, jobVars
<1>1. CASE Crash
  <2>1. StateTyped' BY <1>1 DEF Crash, Types, StateTyped
  <2>2. "idle" \in Places BY DEF Places
  <2>3. JobTyped' BY <1>1, <2>2, IdleJob DEF Crash, Types, JobTyped
  <2> QED BY <1>1, <2>1, <2>3, WorldStays, TypesParts DEF Crash
<1>2. CASE ChangeCatalogue
  <2>0. hc \in CatalogueSet /\ hc.alive \subseteq Editions BY DEF Types, CatalogueSet
  <2>1. ASSUME NEW s \in SUBSET hc.alive
        PROVE  /\ [hc EXCEPT !.mapping = s] \in CatalogueSet
               /\ [hc EXCEPT !.easin = s] \in CatalogueSet
               /\ [hc EXCEPT !.isbn = s] \in CatalogueSet
    <3>1. s \in SUBSET Editions BY <2>0
    <3> QED BY <2>0, <3>1 DEF CatalogueSet
  <2>2. ASSUME NEW e \in hc.alive,
               hc' = [hc EXCEPT !.alive = @ \ {e}, !.mapping = @ \ {e},
                                !.easin = @ \ {e}, !.isbn = @ \ {e}]
        PROVE  hc' \in CatalogueSet
    <3>1. hc' = [mapping |-> hc.mapping \ {e}, easin |-> hc.easin \ {e},
                 isbn |-> hc.isbn \ {e}, title |-> hc.title, alive |-> hc.alive \ {e}]
      BY <2>0, <2>2 DEF CatalogueSet
    <3> QED BY <2>0, <3>1 DEF CatalogueSet
  <2>3. hc' \in CatalogueSet
    <3>1. CASE \E s \in SUBSET hc.alive :
                 \/ hc' = [hc EXCEPT !.mapping = s]
                 \/ hc' = [hc EXCEPT !.easin = s]
                 \/ hc' = [hc EXCEPT !.isbn = s]
      BY <2>1, <3>1
    <3>2. CASE \E e \in hc.alive :
                 hc' = [hc EXCEPT !.alive = @ \ {e}, !.mapping = @ \ {e},
                                  !.easin = @ \ {e}, !.isbn = @ \ {e}]
      BY <2>2, <3>2
    <3> QED BY <1>2, <3>1, <3>2 DEF ChangeCatalogue
  <2>4. WorldTyped' BY <1>2, <2>3 DEF ChangeCatalogue, Types, WorldTyped
  <2> QED BY <1>2, <1>a, <2>4, StateStays, TypesParts DEF ChangeCatalogue
<1>3. CASE EditOwned
  <2>1. WorldTyped' BY <1>3 DEF EditOwned, Types, WorldTyped
  <2> QED BY <1>3, <1>a, <2>1, StateStays, TypesParts DEF EditOwned
<1>4. CASE EditItem
  <2>1. WorldTyped' BY <1>4 DEF EditItem, Types, WorldTyped
  <2> QED BY <1>4, <1>a, <2>1, StateStays, TypesParts DEF EditItem
<1>5. CASE ChangeToken
  <2>1. WorldTyped' BY <1>5 DEF ChangeToken, Types, WorldTyped
  <2> QED BY <1>5, <1>a, <2>1, StateStays, TypesParts DEF ChangeToken
<1>6. CASE Expire
  <2>1. assoc \in AssocSet BY <1>6, SavedTyped DEF Expire, Types
  <2>2. assoc' \in AssocSet BY <1>6, <2>1 DEF Expire, AssocSet
  <2>3. StateTyped' BY <1>6, <2>2 DEF Expire, Types, StateTyped
  <2> QED BY <1>6, <1>a, <2>3, WorldStays, TypesParts DEF Expire
<1>7. CASE ToolsSave
  <2>1. PICK e \in hc.alive : assoc' = Association(e, "tools")
    BY <1>7 DEF ToolsSave
  <2>2. e \in Editions /\ "tools" \in Kinds BY DEF Types, CatalogueSet, Kinds
  <2>3. assoc' \in AssocSet BY <2>1, <2>2, AssociationTyped
  <2>4. StateTyped' BY <1>7, <2>3 DEF ToolsSave, Types, StateTyped
  <2> QED BY <1>7, <1>a, <2>4, WorldStays, TypesParts DEF ToolsSave
<1>8. CASE ToolsForget
  <2>1. Checkpoints("none") /\ assoc' = NoAssoc
    BY <1>8, CheckpointsSet DEF ToolsForget, RemoveAssociation
  <2>2. "none" \in Statuses BY DEF Statuses
  <2>3. StateTyped' BY <1>8, <2>1, <2>2, CheckpointsTyped DEF ToolsForget
  <2> QED BY <1>8, <1>a, <2>3, WorldStays, TypesParts DEF ToolsForget
<1> QED BY <1>1, <1>2, <1>3, <1>4, <1>5, <1>6, <1>7, <1>8 DEF Around

\* Every step keeps the types.
LEMMA StepTypes ==
  ASSUME Types, Placed, [Next]_vars
  PROVE  Types'
<1>a. /\ {"none", "SKIPPED"} \subseteq Statuses /\ Status \in Statuses
      /\ {"synced", "current", "skipped", "failed", "would"} \cup Misses \subseteq Outcomes
      /\ {"mapping", "easin", "isbn", "tools"} = Kinds
  BY StatusTyped DEF Statuses, Outcomes, Misses, Kinds
<1>b. /\ {"idle", "lookup", "verify", "verifyLate", "enrich", "guard", "own",
          "mark", "resolve", "write"} = Places
      /\ job.match \in MatchSet /\ job.named \in Seq(Names)
      /\ job.marks \in SUBSET MarkSet
      /\ report.outcome \in Outcomes /\ last.outcome \in Outcomes
      /\ assoc \in AssocSet \cup {NoAssoc}
  BY DEF Types, Places
<1>c. ASSUME NEW e \in Editions, NEW kind \in Kinds
      PROVE  /\ [edition |-> e, kind |-> kind] \in Names
             /\ [edition |-> e, kind |-> kind] \in MatchSet
             /\ [edition |-> e, kind |-> "fallback"] \in MatchSet
             /\ Append(job.named, [edition |-> e, kind |-> kind]) \in Seq(Names)
  BY <1>b DEF Names, MatchSet, MatchKinds
<1>1. CASE SkipItem
  <2>1. JobTyped'
    BY <1>1, <1>a, EndsTyped DEF SkipItem
  <2>2. Checkpoints("none") /\ UNCHANGED <<assoc, disk>>
    BY <1>1, <1>a, CheckpointsSet DEF SkipItem
  <2>3. StateTyped' BY <1>a, <1>b, <2>2, CheckpointsTyped
  <2> QED BY <1>1, <2>1, <2>3, WorldStays, TypesParts DEF SkipItem
<1>2. CASE Begin
  <2>0. report'.outcome \in Outcomes /\ last'.outcome \in Outcomes
    BY <1>2 DEF Begin, Shown, NoLast, Outcomes
  <2>1. Checkpoints("none") /\ assoc' \in {assoc, NoAssoc}
    BY <1>2, <1>a, CheckpointsSet DEF Begin, RemoveAssociation
  <2>2. disk' = StateFile BY <1>2 DEF Begin
  <2>3. StateTyped'
    BY <1>a, <2>1, <2>2 DEF Types, StateFile, Checkpoints, StateTyped
  <2>4. CASE Matches(assoc)
    <3>1. assoc \in AssocSet BY <2>4, SavedTyped DEF Matches, Types
    <3>2. SavedMatch \in MatchSet
      BY <3>1 DEF SavedMatch, MatchSet, MatchKinds, AssocSet
    <3>3. job' = [NoJob EXCEPT !.match = SavedMatch] /\ pc' \in Places
      BY <1>2, <1>b, <2>4 DEF Begin
    <3>4. /\ Shape(job') /\ job'.match = SavedMatch /\ job'.named = <<>>
          /\ job'.marks = {}
      BY <3>3, IdleJob DEF Shape
    <3> QED BY <1>b, <2>0, <3>2, <3>3, <3>4, <1>2, <2>3, IdleJob, WorldStays, TypesParts
            DEF JobTyped, Begin
  <2>5. CASE ~Matches(assoc)
    <3>3. job' = [NoJob EXCEPT !.todo = Plan] /\ pc' \in Places
      BY <1>2, <1>b, <2>5 DEF Begin
    <3>4. /\ Shape(job') /\ job'.match = NoMatch /\ job'.named = <<>>
          /\ job'.marks = {}
      BY <3>3, IdleJob DEF Shape
    <3> QED BY <1>b, <2>0, <3>3, <3>4, <1>2, <2>3, IdleJob, WorldStays, TypesParts
            DEF JobTyped, Begin
  <2> QED BY <2>4, <2>5
<1>3. CASE GoesOn
  <2>1. JobTyped' BY <1>3, <1>b, BecomesTyped DEF GoesOn, OnlyJob
  <2> QED BY <1>3, <2>1, WorldStays, StateStays, TypesParts DEF GoesOn, OnlyJob, NotRemote
<1>4. CASE Unfinds
  <2>1. JobTyped' BY <1>4, <1>b, BecomesTyped DEF Unfinds, OnlyJob
  <2> QED BY <1>4, <2>1, WorldStays, StateStays, TypesParts DEF Unfinds, OnlyJob, NotRemote
<1>5. CASE FindsISBN
  <2>1. PICK e \in Editions :
          LET match == [edition |-> e, kind |-> "isbn"] IN
          Becomes(IF IsEbook THEN 2 ELSE job.pass, match, job.marks, job.wrote,
                  Append(job.named, match))
    BY <1>5 DEF FindsISBN
  <2>2. "isbn" \in Kinds /\ pc' \in Places /\ UNCHANGED <<report, last>>
    BY <1>5, <1>a, <1>b DEF FindsISBN, OnlyJob
  <2>3. JobTyped' BY <1>b, <1>c, <2>1, <2>2, BecomesTyped
  <2> QED BY <1>5, <2>3, WorldStays, StateStays, TypesParts DEF FindsISBN, OnlyJob, NotRemote
<1>6. CASE Finds
  <2>1. PICK e \in Editions, kind \in {"mapping", "easin"} :
       /\ \E as \in {kind, "fallback"} :
            Becomes(job.pass, [edition |-> e, kind |-> as], job.marks, job.wrote,
                    Append(job.named, [edition |-> e, kind |-> kind]))
       /\ Remembers(e, kind)
    BY <1>6 DEF Finds
  <2>2. kind \in Kinds /\ pc' \in Places /\ UNCHANGED <<report, last, setVars, remoteVars>>
    BY <1>6, <1>a, <1>b, <2>1 DEF Finds, Remembers, NotRemote
  <2>3. JobTyped' BY <1>b, <1>c, <2>1, <2>2, BecomesTyped
  <2> QED BY <2>1, <2>2, <2>3, WorldStays, RemembersTyped, TypesParts
<1>7. CASE FindsAgain
  <2>0. job.match.edition \in Editions BY <1>7 DEF FindsAgain, Placed
  <2>1. PICK kind \in {"mapping", "isbn", "easin"} :
       /\ Becomes(job.pass, job.match, job.marks, job.wrote,
                  Append(job.named, [edition |-> job.match.edition, kind |-> kind]))
       /\ Remembers(job.match.edition, kind)
    BY <1>7 DEF FindsAgain
  <2>2. kind \in Kinds /\ pc' \in Places /\ UNCHANGED <<report, last, setVars, remoteVars>>
    BY <1>7, <1>a, <1>b, <2>1 DEF FindsAgain, Remembers, NotRemote
  <2>3. JobTyped' BY <1>b, <1>c, <2>0, <2>1, <2>2, BecomesTyped
  <2> QED BY <2>0, <2>1, <2>2, <2>3, WorldStays, RemembersTyped, TypesParts
<1>8. CASE Verifies
  <2>0. job.match.edition \in Editions /\ "isbn" \in Kinds
    BY <1>8, <1>a DEF Verifies, Placed
  <2>2. pc' \in Places /\ UNCHANGED <<report, last, setVars, remoteVars>>
    BY <1>8, <1>b DEF Verifies, Remembers, NotRemote
  <2>3. JobTyped' BY <1>8, <1>b, <1>c, <2>0, <2>2, BecomesTyped DEF Verifies
  <2> QED BY <1>8, <2>0, <2>2, <2>3, WorldStays, RemembersTyped, TypesParts DEF Verifies
<1>9. CASE Enrich
  <2>1. JobTyped' BY <1>9, <1>a, EndsTyped DEF Enrich, Placed
  <2>2. Checkpoints("SKIPPED") /\ UNCHANGED <<assoc, disk>>
    <3>1. CASE UNCHANGED stateVars BY <1>9, <1>a, <3>1, CheckpointsSet DEF Enrich, Unchanged
    <3>2. CASE Checkpoint(job.match.edition, "SKIPPED") /\ UNCHANGED assoc
      <4>1. Checkpoints("SKIPPED")
        BY <3>2, <1>a DEF Checkpoint, Checkpoints, Types
      <4> QED BY <1>9, <3>2, <4>1 DEF Enrich, Unchanged
    <3> QED BY <1>9, <3>1, <3>2 DEF Enrich
  <2>3. StateTyped' BY <1>a, <1>b, <2>2, CheckpointsTyped
  <2> QED BY <1>9, <2>1, <2>3, WorldStays, TypesParts DEF Enrich, Unchanged
<1>10. CASE GuardEnds
  <2>1. JobTyped' BY <1>10, <1>a, EndsTyped DEF GuardEnds
  <2> QED BY <1>10, <2>1, WorldStays, StateStays, TypesParts DEF GuardEnds, NotRemote
<1>11. CASE GuardPasses \/ MustMark
  <2>1. JobTyped' BY <1>11, <1>b DEF GuardPasses, MustMark, OnlyJob, JobTyped, Types
  <2> QED BY <1>11, <2>1, WorldStays, StateStays, TypesParts
          DEF GuardPasses, MustMark, OnlyJob, NotRemote
<1>12. CASE Reconciles
  <2>0. job.match.edition \in Editions BY <1>12 DEF Reconciles, Placed
  <2>1. PICK more \in SUBSET MarkSet, wrote \in {job.wrote, job.wrote \cup {"owned"}} :
          Becomes(job.pass, job.match, job.marks \cup more, wrote, job.named)
    BY <1>12 DEF Reconciles
  <2>2. pc' \in Places /\ UNCHANGED <<report, last>> /\ job.marks \cup more \in SUBSET MarkSet
    BY <1>12, <1>b DEF Reconciles
  <2>3. JobTyped' BY <1>b, <2>1, <2>2, BecomesTyped
  <2>4. assoc' \in AssocSet \cup {NoAssoc}
    BY <1>12, <1>b, <2>0, OwnershipTyped DEF Reconciles
  <2>5. StateTyped' BY <1>12, <2>4 DEF Reconciles, Types, StateTyped
  <2>6. account \in Accounts /\ owned \subseteq Accounts \X Editions BY DEF Types
  <2>7. owned' \subseteq Accounts \X Editions BY <1>12, <2>0, <2>6 DEF Reconciles
  <2>8. WorldTyped' BY <1>12, <2>7 DEF Reconciles, Types, WorldTyped
  <2> QED BY <2>3, <2>5, <2>8, TypesParts
<1>13. CASE Resolves
  <2>0. job.match.edition \in Editions BY <1>13 DEF Resolves, Placed
  <2>1. PICK more \in SUBSET MarkSet,
             wrote \in SUBSET (job.wrote \cup Creations) :
          Becomes(job.pass, job.match, job.marks \cup more, wrote, job.named)
    BY <1>13 DEF Resolves
  <2>2. pc' \in Places /\ UNCHANGED <<report, last>> /\ job.marks \cup more \in SUBSET MarkSet
    BY <1>13, <1>b DEF Resolves
  <2>3. JobTyped' BY <1>b, <2>1, <2>2, BecomesTyped
  <2> QED BY <1>13, <2>0, <2>3, Corrects, StateStays, TypesParts DEF Resolves
<1>14. CASE ResolveEnds
  <2>0. job.match.edition \in Editions BY <1>14 DEF ResolveEnds, Placed
  <2>1. JobTyped' BY <1>14, <1>a, EndsTyped DEF ResolveEnds
  <2> QED BY <1>14, <2>0, <2>1, Corrects, StateStays, TypesParts DEF ResolveEnds
<1>15. CASE EditionGone
  <2>1. JobTyped' BY <1>15, <1>a, EndsTyped DEF EditionGone
  <2>2. Checkpoints("none") /\ assoc' \in AssocSet \cup {NoAssoc} /\ UNCHANGED disk
    BY <1>15, <1>a, <1>b, CheckpointsSet
    DEF EditionGone, Forgotten, RemoveAssociation, Unchanged
  <2>3. StateTyped' BY <1>a, <2>2, CheckpointsTyped
  <2> QED BY <1>15, <2>1, <2>3, WorldStays, TypesParts DEF EditionGone, Unchanged
<1>16. CASE WriteStatus
  <2>0. job.match.edition \in Editions BY <1>16 DEF WriteStatus, Placed
  <2>1. JobTyped' BY <1>16, <1>a, EndsTyped DEF WriteStatus
  <2>2. Checkpoints(Status) /\ UNCHANGED <<assoc, disk>>
    BY <1>16, <1>a, <2>0, CheckpointsSet DEF WriteStatus
  <2>3. StateTyped' BY <1>a, <1>b, <2>2, CheckpointsTyped
  <2> QED BY <1>16, <2>1, <2>3, WorldStays, TypesParts DEF WriteStatus
<1>17. CASE LeaveStatus \/ WriteFails
  <2>1. JobTyped' BY <1>17, <1>a, EndsTyped DEF LeaveStatus, WriteFails
  <2> QED BY <1>17, <2>1, WorldStays, StateStays, TypesParts
          DEF LeaveStatus, WriteFails, Unchanged
<1>18. CASE Around BY <1>18, AroundTypes
<1>19. CASE UNCHANGED vars BY <1>19 DEF vars, jobVars, Types
<1> QED
  BY <1>1, <1>2, <1>3, <1>4, <1>5, <1>6, <1>7, <1>8, <1>9, <1>10, <1>11, <1>12,
     <1>13, <1>14, <1>15, <1>16, <1>17, <1>18, <1>19, Effects DEF Effect

\* Around a sync its job is dropped, or stays with what it depends on.
LEMMA AroundJob ==
  ASSUME Around
  PROVE  /\ UNCHANGED <<profile, last>>
         /\ \/ pc' = "idle" /\ job' = NoJob
            \/ UNCHANGED <<pc, job>> /\ (pc = "idle" \/ UNCHANGED <<assoc, item>>)
BY DEF Around, Crash, ChangeCatalogue, EditOwned, EditItem, ChangeToken, Expire,
       ToolsSave, ToolsForget, jobVars

\* A step that keeps the job keeps its marks.
LEMMA SyncedMarks ==
  /\ Reported(job, "synced") <=> Synced(job.marks)
  /\ Reported(job', "synced") <=> Synced(job'.marks)
  /\ \A a, b : Synced(a \cup b) <=> Synced(a) \/ Synced(b)
  /\ ~Synced({})
BY DEF Reported, Synced

\* Every step keeps what is known of the place of a job.
LEMMA StepPlaced ==
  ASSUME Types, Placed, [Next]_vars
  PROVE  Placed'
<1>1. CASE SkipItem BY <1>1 DEF SkipItem, Finish, Placed
<1>2. CASE Begin
  <2>1. CASE Matches(assoc)
    <3>1. assoc \in AssocSet BY <2>1, SavedTyped DEF Matches, Types
    <3>2. job' = [NoJob EXCEPT !.match = SavedMatch] /\ pc' \in {"own", "guard"}
      BY <1>2, <2>1 DEF Begin
    <3>3. job'.match.edition \in Editions
      BY <3>1, <3>2, IdleJob DEF Shape, SavedMatch, AssocSet
    <3> QED BY <3>2, <3>3 DEF Placed
  <2>2. CASE ~Matches(assoc)
    <3>1. job'.pass = 1 /\ pc' = "lookup"
      BY <1>2, <2>2, IdleJob DEF Begin, Shape
    <3> QED BY <3>1 DEF Placed
  <2> QED BY <2>1, <2>2
<1>3. CASE GoesOn BY <1>3 DEF GoesOn, Becomes, Placed
<1>4. CASE Unfinds BY <1>4 DEF Unfinds, Becomes, Placed
<1>5. CASE FindsISBN BY <1>5 DEF FindsISBN, Becomes, Placed
<1>6. CASE Finds BY <1>6 DEF Finds, Becomes, Placed
<1>7. CASE FindsAgain BY <1>7 DEF FindsAgain, Becomes, Placed
<1>8. CASE Verifies BY <1>8 DEF Verifies, Becomes, Placed
<1>9. CASE Enrich BY <1>9 DEF Enrich, Finish, Placed
<1>10. CASE GuardEnds BY <1>10 DEF GuardEnds, Finish, Placed
<1>11. CASE GuardPasses BY <1>11 DEF GuardPasses, Placed
<1>12. CASE MustMark BY <1>12 DEF MustMark, Placed
<1>13. CASE Reconciles BY <1>13 DEF Reconciles, Becomes, Placed
<1>14. CASE Resolves BY <1>14 DEF Resolves, Becomes, Placed
<1>15. CASE ResolveEnds BY <1>15 DEF ResolveEnds, Finish, Placed
<1>16. CASE EditionGone BY <1>16 DEF EditionGone, Finish, Placed
<1>17. CASE WriteStatus BY <1>17 DEF WriteStatus, Finish, Placed
<1>18. CASE LeaveStatus \/ WriteFails
  BY <1>18 DEF LeaveStatus, WriteFails, Finish, Placed
<1>19. CASE Around BY <1>19, AroundJob DEF Placed
<1>20. CASE UNCHANGED vars BY <1>20 DEF vars, jobVars, Placed
<1> QED
  BY <1>1, <1>2, <1>3, <1>4, <1>5, <1>6, <1>7, <1>8, <1>9, <1>10, <1>11, <1>12,
     <1>13, <1>14, <1>15, <1>16, <1>17, <1>18, <1>19, <1>20, Effects DEF Effect

\* Written, of the parts of the job that it is about.
LEMMA WrittenParts ==
  /\ Written <=>
       /\ pc \in {"idle", "lookup", "verify", "verifyLate", "enrich"}
          \/ (pc = "guard" /\ IsAudio)
            => job.marks = {} /\ job.wrote = {}
       /\ job.wrote \ {"recovered"} # {} => Synced(job.marks)
       /\ ~Saves => job.wrote = {} /\ ~Synced(job.marks)
       /\ pc = "mark" => Saves
  /\ Written' <=>
       /\ pc' \in {"idle", "lookup", "verify", "verifyLate", "enrich"}
          \/ (pc' = "guard" /\ IsAudio')
            => job'.marks = {} /\ job'.wrote = {}
       /\ job'.wrote \ {"recovered"} # {} => Synced(job'.marks)
       /\ ~Saves' => job'.wrote = {} /\ ~Synced(job'.marks)
       /\ pc' = "mark" => Saves'
BY DEF Written, Reported, Synced

\* Every step keeps what is known of its writes.
LEMMA StepWritten ==
  ASSUME Types, Placed, Written, [Next]_vars
  PROVE  Written'
<1> USE WrittenParts, SyncedMarks
<1>a. ASSUME pc' = "idle", job' = NoJob PROVE Written'
  BY <1>a, IdleJob
<1>b. IsEbook <=> ~IsAudio BY Bounded
<1>c. UNCHANGED profile => UNCHANGED <<IsAudio, Saves>>
  BY DEF IsAudio, Saves
<1>1. CASE SkipItem BY <1>1, <1>a DEF SkipItem, Finish
<1>2. CASE Begin
  <2>1. pc' # "mark" BY <1>2 DEF Begin
  <2>2. job'.marks = {} /\ job'.wrote = {}
    BY <1>2, IdleJob DEF Begin, Shape
  <2> QED BY <2>1, <2>2
<1>3. CASE GoesOn BY <1>3, <1>c DEF GoesOn, OnlyJob, NotRemote, Becomes
<1>4. CASE Unfinds BY <1>4, <1>c DEF Unfinds, OnlyJob, NotRemote, Becomes
<1>5. CASE FindsISBN BY <1>5, <1>c DEF FindsISBN, OnlyJob, NotRemote, Becomes
<1>6. CASE Finds BY <1>6, <1>c DEF Finds, Remembers, NotRemote, Becomes
<1>7. CASE FindsAgain BY <1>7, <1>c DEF FindsAgain, Remembers, NotRemote, Becomes
<1>8. CASE Verifies BY <1>8, <1>c DEF Verifies, Remembers, NotRemote, Becomes
<1>9. CASE Enrich BY <1>9, <1>a DEF Enrich, Finish
<1>10. CASE GuardEnds BY <1>10, <1>a DEF GuardEnds, Finish
<1>11. CASE GuardPasses
  <2>1. UNCHANGED <<IsAudio, Saves>> BY <1>11, <1>c DEF GuardPasses, OnlyJob, NotRemote
  <2> QED BY <1>11, <2>1 DEF GuardPasses, ToVerify
<1>12. CASE MustMark BY <1>12, <1>c DEF MustMark, OnlyJob, NotRemote
<1>13. CASE Reconciles
  <2>1. PICK more \in SUBSET MarkSet, wrote \in {job.wrote, job.wrote \cup {"owned"}} :
       /\ Becomes(job.pass, job.match, job.marks \cup more, wrote, job.named)
       /\ wrote # job.wrote => Synced(more)
       /\ Synced(more) => pc = "mark"
    BY <1>13 DEF Reconciles
  <2>2. /\ UNCHANGED <<IsAudio, Saves>>
        /\ (pc' = "guard" /\ IsEbook) \/ pc' = "resolve"
    BY <1>13, <1>c DEF Reconciles
  <2>3. job'.marks = job.marks \cup more /\ job'.wrote = wrote
    BY <2>1 DEF Becomes
  <2> QED BY <1>b, <2>1, <2>2, <2>3
<1>14. CASE Resolves
  <2>1. PICK more \in SUBSET MarkSet,
             wrote \in SUBSET (job.wrote \cup Creations) :
       /\ Becomes(job.pass, job.match, job.marks \cup more, wrote, job.named)
       /\ wrote \ {"recovered"} # job.wrote \ {"recovered"} => Synced(more)
       /\ wrote # job.wrote \/ Synced(more) => Saves
    BY <1>14 DEF Resolves
  <2>2. UNCHANGED <<IsAudio, Saves>> /\ pc' = "write"
    BY <1>14, <1>c DEF Resolves
  <2>3. job'.marks = job.marks \cup more /\ job'.wrote = wrote
    BY <2>1 DEF Becomes
  <2> QED BY <2>1, <2>2, <2>3
<1>15. CASE ResolveEnds BY <1>15, <1>a DEF ResolveEnds, Finish
<1>16. CASE EditionGone BY <1>16, <1>a DEF EditionGone, Finish
<1>17. CASE WriteStatus BY <1>17, <1>a DEF WriteStatus, Finish
<1>18. CASE LeaveStatus \/ WriteFails
  BY <1>18, <1>a DEF LeaveStatus, WriteFails, Finish
<1>19. CASE Around BY <1>19, <1>a, <1>c, AroundJob
<1>20. CASE UNCHANGED vars BY <1>20, <1>c DEF vars, jobVars
<1> QED
  BY <1>1, <1>2, <1>3, <1>4, <1>5, <1>6, <1>7, <1>8, <1>9, <1>10, <1>11, <1>12,
     <1>13, <1>14, <1>15, <1>16, <1>17, <1>18, <1>19, <1>20, Effects DEF Effect

\* What names an edition: it depends on the saved match and the answers only.
LEMMA NamedStays ==
  ASSUME UNCHANGED <<job, item>>,
         assoc # NoAssoc => /\ assoc' # NoAssoc /\ assoc'.edition = assoc.edition
                            /\ assoc'.ids = assoc.ids
  PROVE  NamedBy(job.match.edition) => NamedBy(job.match.edition)'
BY DEF NamedBy, Matches

\* A name that is not written stays well.
LEMMA NamedKept ==
  ASSUME UNCHANGED item, job'.match = job.match, job'.named = job.named,
         assoc # NoAssoc => /\ assoc' # NoAssoc /\ assoc'.edition = assoc.edition
                            /\ assoc'.ids = assoc.ids
  PROVE  NamedBy(job.match.edition) => NamedBy(job.match.edition)'
BY DEF NamedBy, Matches

\* One answer by ASIN names an edition, and so does a second one by ISBN.
LEMMA NamedByASIN ==
  ASSUME NEW kind \in {"mapping", "easin"}, NEW e, NEW names \in Seq(Names),
         [edition |-> e, kind |-> kind] \in Names,
         job'.named = Append(names, [edition |-> e, kind |-> kind]),
         job'.match.edition = e
  PROVE  NamedBy(job.match.edition)'
<1>1. /\ Len(names) + 1 \in DOMAIN job'.named
      /\ job'.named[Len(names) + 1] = [edition |-> e, kind |-> kind]
  OBVIOUS
<1> QED BY <1>1 DEF NamedBy

\* An edition that is named by ISBN twice is well named.
LEMMA NamedTwice ==
  ASSUME Types, Once, job.match.edition \in Editions, job'.match = job.match,
         job'.named = Append(job.named, [edition |-> job.match.edition, kind |-> "isbn"])
  PROVE  NamedBy(job.match.edition)'
<1> DEFINE name == [edition |-> job.match.edition, kind |-> "isbn"]
<1>0. job.named \in Seq(Names) /\ name \in Names BY DEF Types, Names, Kinds
<1>1. Len(job.named) = 1 /\ job.named[1] = name BY DEF Once
<1> HIDE DEF name
<1>2. /\ DOMAIN job'.named = 1..2
      /\ \A i \in 1..2 : job'.named[i] = name
  BY <1>0, <1>1 DEF name
<1> USE DEF name
<1>3. name.kind = "isbn" /\ name.edition = job.match.edition OBVIOUS
<1> QED BY <1>2, <1>3 DEF NamedBy

\* Every step keeps the names well.
LEMMA StepNamedWell ==
  ASSUME Types, Placed, NamedWell, [Next]_vars
  PROVE  NamedWell'
<1>a. ASSUME pc' = "idle" PROVE NamedWell'
  BY <1>a DEF NamedWell
<1>b. \A e \in Editions, kind \in Kinds : [edition |-> e, kind |-> kind] \in Names
  BY DEF Names
<1>c. {"mapping", "easin", "isbn"} \subseteq Kinds BY DEF Kinds
<1>1. CASE SkipItem BY <1>1, <1>a DEF SkipItem, Finish
<1>2. CASE Begin
  <2>1. CASE Matches(assoc)
    <3>1. job' = [NoJob EXCEPT !.match = SavedMatch] /\ pc' \in {"own", "guard"}
          /\ UNCHANGED <<assoc, item>>
      BY <1>2, <2>1 DEF Begin
    <3>2. job'.match.edition = assoc.edition /\ job'.match.kind = "saved"
      BY <3>1, IdleJob DEF Shape, SavedMatch
    <3>3. NamedBy(job.match.edition)'
      BY <2>1, <3>1, <3>2 DEF NamedBy, Matches
    <3> QED BY <3>1, <3>2, <3>3 DEF NamedWell, ToVerify
  <2>2. CASE ~Matches(assoc)
    <3>1. job'.pass = 1 /\ job'.named = <<>> /\ pc' = "lookup"
      BY <1>2, <2>2, IdleJob DEF Begin, Shape
    <3> QED BY <3>1 DEF NamedWell
  <2> QED BY <2>1, <2>2
<1>3. CASE GoesOn BY <1>3 DEF GoesOn, Becomes, NamedWell, Once
<1>4. CASE Unfinds BY <1>4 DEF Unfinds, NamedWell
<1>5. CASE FindsISBN
  <2>1. PICK e \in Editions :
          Becomes(IF IsEbook THEN 2 ELSE job.pass, [edition |-> e, kind |-> "isbn"],
                  job.marks, job.wrote,
                  Append(job.named, [edition |-> e, kind |-> "isbn"]))
    BY <1>5 DEF FindsISBN
  <2>2. job.named = <<>> BY <1>5 DEF FindsISBN, NamedWell
  <2>3. Once'
    BY <2>1, <2>2 DEF Becomes, Once
  <2>4. /\ job'.match.kind = "isbn"
        /\ pc' = "lookup" => job'.pass = 2
        /\ pc' = "verify" => ~ToVerify'
        /\ pc' = "guard" => ToVerify'
        /\ pc' \in {"lookup", "verify", "guard"}
    BY <1>5, <2>1, Bounded DEF FindsISBN, Becomes, ToVerify, OnlyJob, NotRemote, IsAudio
  <2> QED BY <2>3, <2>4 DEF NamedWell
<1>6. CASE Finds
  <2>1. PICK e \in Editions, kind \in {"mapping", "easin"}, as \in {"mapping", "easin", "fallback"} :
          Becomes(job.pass, [edition |-> e, kind |-> as], job.marks, job.wrote,
                  Append(job.named, [edition |-> e, kind |-> kind]))
    BY <1>6 DEF Finds
  <2>2. job.named \in Seq(Names) BY DEF Types
  <2>3. NamedBy(job.match.edition)'
    BY SMTT(20), <1>b, <1>c, <2>1, <2>2, NamedByASIN DEF Becomes
  <2>4. ~ToVerify' /\ pc' \in {"own", "guard"}
    BY <1>6, <2>1 DEF Finds, Becomes, ToVerify
  <2> QED BY <2>3, <2>4 DEF NamedWell
<1>7. CASE FindsAgain
  <2>1. PICK kind \in {"mapping", "isbn", "easin"} :
          Becomes(job.pass, job.match, job.marks, job.wrote,
                  Append(job.named, [edition |-> job.match.edition, kind |-> kind]))
    BY <1>7 DEF FindsAgain
  <2>2. Once /\ job.match.edition \in Editions /\ job.named \in Seq(Names)
    BY <1>7 DEF FindsAgain, NamedWell, Placed, Types
  <2>3. NamedBy(job.match.edition)'
    <3>1. CASE kind = "isbn" BY <2>1, <2>2, <3>1, NamedTwice DEF Becomes
    <3>2. CASE kind # "isbn"
      BY <1>b, <1>c, <2>1, <2>2, <3>2, NamedByASIN DEF Becomes
    <3> QED BY <3>1, <3>2
  <2> QED BY <1>7, <2>3 DEF FindsAgain, NamedWell
<1>8. CASE Verifies
  <2>1. Becomes(job.pass, job.match, job.marks, job.wrote,
                Append(job.named, [edition |-> job.match.edition, kind |-> "isbn"]))
    BY <1>8 DEF Verifies
  <2>2. Once /\ job.match.edition \in Editions
    BY <1>8 DEF Verifies, NamedWell, Placed
  <2>3. NamedBy(job.match.edition)' BY <2>1, <2>2, NamedTwice DEF Becomes
  <2>4. pc' = "own" \/ (pc' = "guard" /\ ~ToVerify')
    BY <1>8, <2>1 DEF Verifies, NamedWell, ToVerify, Becomes, Remembers, NotRemote, IsAudio
  <2> QED BY <2>3, <2>4 DEF NamedWell
<1>9. CASE Enrich BY <1>9, <1>a DEF Enrich, Finish
<1>10. CASE GuardEnds BY <1>10, <1>a DEF GuardEnds, Finish
<1>11. CASE GuardPasses
  <2>1. UNCHANGED <<job, item, assoc, profile>> BY <1>11 DEF GuardPasses, OnlyJob, NotRemote
  <2>2. CASE ToVerify
    <3>1. Once' BY <1>11, <2>1, <2>2 DEF GuardPasses, NamedWell, Once
    <3> QED BY <1>11, <2>2, <3>1 DEF GuardPasses, NamedWell
  <2>3. CASE ~ToVerify
    <3>1. NamedBy(job.match.edition)'
      BY <1>11, <2>1, <2>3, NamedStays DEF GuardPasses, NamedWell
    <3> QED BY <1>11, <2>3, <3>1 DEF GuardPasses, NamedWell
  <2> QED BY <2>2, <2>3
<1>12. CASE MustMark
  <2>1. UNCHANGED <<job, item, assoc>> BY <1>12 DEF MustMark, OnlyJob, NotRemote
  <2>2. NamedBy(job.match.edition)'
    BY <1>12, <2>1, NamedStays DEF MustMark, NamedWell
  <2> QED BY <1>12, <2>2 DEF MustMark, NamedWell
<1>13. CASE Reconciles
  <2>1. job'.match = job.match /\ job'.named = job.named /\ UNCHANGED <<item, profile>>
    BY <1>13 DEF Reconciles, Becomes
  <2>2. job.match.edition \in Editions BY <1>13 DEF Reconciles, Placed
  <2>3. assoc # NoAssoc =>
          /\ assoc' # NoAssoc /\ assoc'.edition = assoc.edition
          /\ assoc'.ids = assoc.ids
    BY <1>13, <2>2, OwnershipTyped DEF Reconciles
  <2>4. NamedBy(job.match.edition)'
    BY <1>13, <2>1, <2>3, NamedKept DEF Reconciles, NamedWell
  <2>5. pc' = "resolve" \/ (pc' = "guard" /\ ~ToVerify')
    BY <1>13, <2>1, Bounded DEF Reconciles, ToVerify, IsAudio, IsEbook
  <2> QED BY <2>4, <2>5 DEF NamedWell
<1>14. CASE Resolves
  <2>1. job'.match = job.match /\ job'.named = job.named /\ UNCHANGED <<item, assoc>>
    BY <1>14 DEF Resolves, Becomes
  <2>2. NamedBy(job.match.edition)'
    BY <1>14, <2>1, NamedKept DEF Resolves, NamedWell
  <2> QED BY <1>14, <2>2 DEF Resolves, NamedWell
<1>15. CASE ResolveEnds BY <1>15, <1>a DEF ResolveEnds, Finish
<1>16. CASE EditionGone BY <1>16, <1>a DEF EditionGone, Finish
<1>17. CASE WriteStatus BY <1>17, <1>a DEF WriteStatus, Finish
<1>18. CASE LeaveStatus \/ WriteFails
  BY <1>18, <1>a DEF LeaveStatus, WriteFails, Finish
<1>d. ASSUME UNCHANGED <<pc, job, assoc, item, profile>> PROVE NamedWell'
  <2>1. NamedBy(job.match.edition) => NamedBy(job.match.edition)'
    BY <1>d, NamedStays
  <2>2. /\ ToVerify' <=> ToVerify
        /\ Once' <=> Once
    BY <1>d DEF ToVerify, Once, IsAudio
  <2> QED BY <1>d, <2>1, <2>2 DEF NamedWell
<1>19. CASE Around BY <1>19, <1>a, <1>d, AroundJob
<1>20. CASE UNCHANGED vars BY <1>20, <1>d DEF vars, jobVars
<1> QED
  BY <1>1, <1>2, <1>3, <1>4, <1>5, <1>6, <1>7, <1>8, <1>9, <1>10, <1>11, <1>12,
     <1>13, <1>14, <1>15, <1>16, <1>17, <1>18, <1>19, <1>20, Effects DEF Effect

\* What was confirmed, listed and reached stays so.
Grows ==
  /\ UNCHANGED profile
  /\ confirmed \subseteq confirmed' /\ listed \subseteq listed' /\ reached \subseteq reached'

\* Confirmed matches and seen ownership are never forgotten.
LEMMA HistoryGrows ==
  ASSUME Types, Placed, [Next]_vars
  PROVE  Grows
<1>1. CASE SkipItem BY <1>1 DEF SkipItem, Grows
<1>2. CASE Begin BY <1>2 DEF Begin, Grows
<1>3. CASE GoesOn \/ Unfinds \/ FindsISBN \/ GuardPasses \/ MustMark
  BY <1>3 DEF GoesOn, Unfinds, FindsISBN, GuardPasses, MustMark, OnlyJob, NotRemote, Grows
<1>4. CASE Finds \/ FindsAgain \/ Verifies
  BY <1>4 DEF Finds, FindsAgain, Verifies, Remembers, NotRemote, Confirmed, Grows
<1>5. CASE Enrich BY <1>5 DEF Enrich, Unchanged, Grows
<1>6. CASE GuardEnds BY <1>6 DEF GuardEnds, NotRemote, Grows
<1>7. CASE Reconciles BY <1>7 DEF Reconciles, Listed, Grows
<1>8. CASE Resolves \/ ResolveEnds BY <1>8 DEF Resolves, ResolveEnds, Grows
<1>9. CASE EditionGone \/ LeaveStatus \/ WriteFails
  BY <1>9 DEF EditionGone, LeaveStatus, WriteFails, Unchanged, Grows
<1>10. CASE WriteStatus
  <2>1. reached \subseteq reached' /\ UNCHANGED <<profile, confirmed, listed>>
    BY <1>10 DEF WriteStatus
  <2> QED BY <2>1 DEF Grows
<1>11. CASE Around
  BY <1>11 DEF Around, Crash, ChangeCatalogue, EditOwned, EditItem, ChangeToken,
               Expire, ToolsSave, ToolsForget, Grows
<1>12. CASE UNCHANGED vars BY <1>12 DEF vars, Grows
<1> QED
  BY <1>1, <1>2, <1>3, <1>4, <1>5, <1>6, <1>7, <1>8, <1>9, <1>10, <1>11, <1>12, Effects
  DEF Effect

\* A file that is not written keeps its matches confirmed.
LEMMA FileKept ==
  ASSUME SavedFile, Grows, UNCHANGED disk
  PROVE  SavedFile'
<1>1. GoodMatch(disk.assoc)'
  BY DEF SavedFile, Grows, GoodMatch, IsAudio
<1>2. Earned(disk.base)' /\ \A e \in Editions : Earned(disk.byEdition[e])'
  BY DEF SavedFile, Grows, Earned
<1> QED BY <1>1, <1>2 DEF SavedFile

\* A file written from good memory holds confirmed matches.
LEMMA FileWritten ==
  ASSUME SavedNow, Grows, disk' = StateFile
  PROVE  SavedFile'
<1>0. disk'.assoc = assoc /\ disk'.base = base /\ disk'.byEdition = byEdition
  BY DEF StateFile
<1>1. GoodMatch(disk.assoc)'
  BY <1>0 DEF SavedNow, Grows, GoodMatch, IsAudio
<1>2. Earned(disk.base)' /\ \A e \in Editions : Earned(disk.byEdition[e])'
  BY <1>0 DEF SavedNow, Grows, Earned
<1> QED BY <1>1, <1>2 DEF SavedFile

\* Memory loaded from a good file holds confirmed matches.
LEMMA FileLoaded ==
  ASSUME SavedFile, Grows,
         assoc' = disk.assoc, base' = disk.base, byEdition' = disk.byEdition
  PROVE  SavedNow'
<1>1. GoodMatch(assoc)'
  BY DEF SavedFile, Grows, GoodMatch, IsAudio
<1>2. Earned(base)' /\ \A e \in Editions : Earned(byEdition[e])'
  BY DEF SavedFile, Grows, Earned
<1> QED BY <1>1, <1>2 DEF SavedNow

\* A match that stays is confirmed as before.
LEMMA MatchKept ==
  ASSUME GoodMatch(assoc), Grows, assoc' \in {assoc, NoAssoc}
  PROVE  GoodMatch(assoc)'
BY DEF Grows, GoodMatch, IsAudio

\* A checkpoint of a status that was reached is earned.
LEMMA CheckpointsKept ==
  ASSUME SavedNow, Grows, NEW s, Checkpoints(s), s \in {"none", "SKIPPED"} \cup reached'
  PROVE  Earned(base)' /\ \A e \in Editions : Earned(byEdition[e])'
BY DEF SavedNow, Grows, Checkpoints, Earned

\* Checkpoints that are not written stay earned.
LEMMA CheckpointsStay ==
  ASSUME SavedNow, Grows, UNCHANGED <<base, byEdition>>
  PROVE  Earned(base)' /\ \A e \in Editions : Earned(byEdition[e])'
BY DEF SavedNow, Grows, Earned

\* A match is remembered as it was confirmed, and keeps what is known of the
\* ownership of its own edition only.
LEMMA MatchRemembered ==
  ASSUME Types, GoodMatch(assoc), Grows, NEW e \in Editions,
         NEW kind \in {"mapping", "isbn", "easin"}, Remembers(e, kind)
  PROVE  GoodMatch(assoc)'
<1>1. CASE assoc' = assoc BY <1>1, MatchKept
<1>2. CASE Durable(kind) /\ assoc' = Association(e, kind)
  <2>0. kind \in Kinds BY DEF Kinds
  <2>1. /\ assoc'.edition = e /\ assoc'.ids = item.ids /\ assoc'.kind = kind
        /\ \/ assoc'.owner = "nobody"
           \/ assoc # NoAssoc /\ assoc.edition = e /\ assoc'.owner = assoc.owner
    BY <1>2, <2>0, AssociationTyped
  <2>2. [edition |-> e, ids |-> item.ids] \in confirmed'
    BY DEF Remembers, Confirmed
  <2>3. IsAudio /\ item.ids.asin # "none" => kind = "mapping"
    BY <1>2, Bounded DEF Durable
  <2>4. assoc'.owner # "nobody" => <<assoc'.owner, BookOf[e]>> \in listed'
    BY <2>1 DEF GoodMatch, Grows
  <2> QED BY <2>1, <2>2, <2>3, <2>4 DEF GoodMatch, Grows, IsAudio
<1> QED BY <1>1, <1>2 DEF Remembers

\* Every step keeps saved matches confirmed and checkpoints earned.
LEMMA StepSaved ==
  ASSUME Types, Placed, Saved, [Next]_vars
  PROVE  Saved'
<1> USE DEF Saved
<1>0. Grows BY HistoryGrows
<1>a. ASSUME UNCHANGED <<stateVars, disk>> PROVE Saved'
  <2>1. SavedNow' BY <1>0, <1>a, MatchKept, CheckpointsStay DEF SavedNow
  <2> QED BY <1>0, <1>a, <2>1, FileKept
<1>b. ASSUME NEW s \in {"none", "SKIPPED"} \cup reached', Checkpoints(s),
             assoc' \in {assoc, NoAssoc}, UNCHANGED disk
      PROVE  Saved'
  <2>1. SavedNow' BY <1>0, <1>b, MatchKept, CheckpointsKept DEF SavedNow
  <2> QED BY <1>0, <1>b, <2>1, FileKept
<1>c. ASSUME NEW e \in Editions, NEW kind \in {"mapping", "isbn", "easin"},
             Remembers(e, kind)
      PROVE  Saved'
  <2>1. SavedNow' BY <1>0, <1>c, MatchRemembered, CheckpointsStay DEF SavedNow, Remembers
  <2> QED BY <1>0, <1>c, <2>1, FileKept DEF Remembers, NotRemote
<1>1. CASE SkipItem
  <2>1. Checkpoints("none") /\ UNCHANGED <<assoc, disk>>
    BY <1>1, CheckpointsSet DEF SkipItem, Statuses
  <2> QED BY <1>b, <2>1
<1>2. CASE Begin
  <2>1. Checkpoints("none") /\ assoc' \in {assoc, NoAssoc}
    BY <1>2, CheckpointsSet DEF Begin, RemoveAssociation, Statuses
  <2>2. SavedNow' BY <1>0, <2>1, MatchKept, CheckpointsKept DEF SavedNow
  <2>3. SavedFile' BY <1>0, <1>2, FileWritten DEF Begin
  <2> QED BY <2>2, <2>3
<1>3. CASE GoesOn \/ Unfinds \/ FindsISBN \/ GuardPasses \/ MustMark
  BY <1>3, <1>a DEF GoesOn, Unfinds, FindsISBN, GuardPasses, MustMark, OnlyJob, NotRemote
<1>4. CASE Finds BY <1>4, <1>c DEF Finds
<1>5. CASE FindsAgain BY <1>5, <1>c DEF FindsAgain, Placed
<1>6. CASE Verifies BY <1>6, <1>c DEF Verifies, Placed
<1>7. CASE Enrich
  <2>1. CASE UNCHANGED stateVars BY <1>7, <1>a, <2>1 DEF Enrich, Unchanged
  <2>2. CASE Checkpoint(job.match.edition, "SKIPPED") /\ UNCHANGED assoc
    <3>1. Checkpoints("SKIPPED")
      BY <2>2 DEF Checkpoint, Checkpoints, Types, Statuses
    <3> QED BY <1>7, <1>b, <2>2, <3>1 DEF Enrich, Unchanged
  <2> QED BY <1>7, <2>1, <2>2 DEF Enrich
<1>8. CASE GuardEnds BY <1>8, <1>a DEF GuardEnds, NotRemote
<1>9. CASE Reconciles
  <2>0. job.match.edition \in Editions BY <1>9 DEF Reconciles, Placed
  <2>1. GoodMatch(assoc)'
    <3>1. CASE UNCHANGED assoc BY <1>0, <3>1, MatchKept DEF SavedNow
    <3>2. CASE assoc' = OwnershipVerified(job.match.edition) /\ Listed(job.match.edition)
      <4>1. SUFFICES ASSUME assoc # NoAssoc PROVE GoodMatch(assoc)'
        BY <2>0, <3>2, OwnershipTyped DEF GoodMatch
      <4>2. /\ assoc'.edition = assoc.edition /\ assoc'.ids = assoc.ids
            /\ assoc'.kind = assoc.kind
            /\ \/ assoc'.owner = assoc.owner
               \/ assoc'.owner = account /\ assoc.edition = job.match.edition
        BY <2>0, <3>2, <4>1, OwnershipTyped
      <4>3. <<account, BookOf[job.match.edition]>> \in listed'
        BY <3>2 DEF Listed
      <4> QED BY <1>0, <4>1, <4>2, <4>3 DEF SavedNow, GoodMatch, Grows, IsAudio
    <3> QED BY <1>9, <3>1, <3>2 DEF Reconciles
  <2>2. SavedNow' BY <1>0, <1>9, <2>1, CheckpointsStay DEF Reconciles, SavedNow
  <2> QED BY <1>0, <1>9, <2>2, FileKept DEF Reconciles
<1>10. CASE Resolves \/ ResolveEnds BY <1>10, <1>a DEF Resolves, ResolveEnds
<1>11. CASE EditionGone
  <2>1. Checkpoints("none") /\ assoc' \in {assoc, NoAssoc} /\ UNCHANGED disk
    BY <1>11, CheckpointsSet
    DEF EditionGone, Forgotten, RemoveAssociation, Unchanged, Statuses
  <2> QED BY <1>b, <2>1
<1>12. CASE WriteStatus
  <2>1. CASE UNCHANGED stateVars BY <1>12, <1>a, <2>1 DEF WriteStatus
  <2>2. CASE Saves /\ Checkpoint(job.match.edition, Status) /\ UNCHANGED assoc
    <3>1. Status \in reached' BY <1>12, <2>2 DEF WriteStatus
    <3>2. Checkpoints(Status)
      BY <1>12, <2>2, StatusTyped, CheckpointsSet DEF WriteStatus, Placed
    <3> QED BY <1>12, <1>b, <2>2, <3>1, <3>2 DEF WriteStatus
  <2> QED BY <1>12, <2>1, <2>2 DEF WriteStatus
<1>13. CASE LeaveStatus \/ WriteFails
  BY <1>13, <1>a DEF LeaveStatus, WriteFails, Unchanged
<1>14. CASE Around
  <2>1. CASE Crash
    <3>1. SavedNow' BY <1>0, <2>1, FileLoaded DEF Crash
    <3> QED BY <1>0, <2>1, <3>1, FileKept DEF Crash
  <2>2. CASE Expire
    <3>1. assoc \in AssocSet /\ assoc' = [assoc EXCEPT !.recent = FALSE] /\ assoc # NoAssoc
      BY <2>2, SavedTyped DEF Expire, Types
    <3>2. /\ assoc'.edition = assoc.edition /\ assoc'.ids = assoc.ids
          /\ assoc'.kind = assoc.kind /\ assoc'.owner = assoc.owner
      BY <3>1 DEF AssocSet
    <3>3. GoodMatch(assoc)'
      BY <1>0, <3>1, <3>2 DEF SavedNow, GoodMatch, Grows, IsAudio
    <3>4. SavedNow' BY <1>0, <2>2, <3>3, CheckpointsStay DEF Expire, SavedNow
    <3> QED BY <1>0, <2>2, <3>4, FileKept DEF Expire
  <2>3. CASE ToolsSave
    <3>1. PICK e \in hc.alive :
            /\ assoc' = Association(e, "tools")
            /\ confirmed' = confirmed \cup {[edition |-> e, ids |-> item.ids]}
      BY <2>3 DEF ToolsSave
    <3>2. e \in Editions /\ "tools" \in Kinds BY DEF Types, CatalogueSet, Kinds
    <3>3. /\ assoc'.edition = e /\ assoc'.ids = item.ids /\ assoc'.kind = "tools"
          /\ \/ assoc'.owner = "nobody"
             \/ assoc # NoAssoc /\ assoc.edition = e /\ assoc'.owner = assoc.owner
      BY <3>1, <3>2, AssociationTyped
    <3>4. assoc'.owner # "nobody" => <<assoc'.owner, BookOf[e]>> \in listed'
      BY <1>0, <3>3 DEF SavedNow, GoodMatch, Grows
    <3>5. GoodMatch(assoc)'
      BY <3>1, <3>3, <3>4 DEF GoodMatch
    <3>6. SavedNow' BY <1>0, <2>3, <3>5, CheckpointsStay DEF ToolsSave, SavedNow
    <3> QED BY <1>0, <2>3, <3>6, FileKept DEF ToolsSave
  <2>4. CASE ToolsForget
    <3>1. Checkpoints("none") /\ assoc' = NoAssoc /\ UNCHANGED disk
      BY <2>4, CheckpointsSet DEF ToolsForget, RemoveAssociation
    <3> QED BY <1>b, <3>1
  <2>5. CASE ChangeCatalogue \/ EditOwned \/ EditItem \/ ChangeToken
    BY <1>a, <2>5 DEF ChangeCatalogue, EditOwned, EditItem, ChangeToken
  <2> QED BY <1>14, <2>1, <2>2, <2>3, <2>4, <2>5 DEF Around
<1>15. CASE UNCHANGED vars BY <1>15, <1>a DEF vars
<1> QED
  BY <1>1, <1>2, <1>3, <1>4, <1>5, <1>6, <1>7, <1>8, <1>9, <1>10, <1>11, <1>12,
     <1>13, <1>14, <1>15, Effects DEF Effect

\* What a sync tells is what it did.
LEMMA StepHonest ==
  ASSUME Types, Placed, Written, OutcomesAreHonest, [Next]_vars
  PROVE  OutcomesAreHonest'
<1>0. /\ {"synced", "current", "skipped", "failed", "would"} \cup Misses \subseteq Outcomes
      /\ Misses \cap {"current", "skipped", "synced"} = {}
  BY DEF Misses, Outcomes
<1>a. ASSUME UNCHANGED <<last, profile>> PROVE OutcomesAreHonest'
  BY <1>a DEF OutcomesAreHonest
<1>1. CASE SkipItem
  <2>1. NoJob.wrote = {} /\ ~Reported(NoJob, "synced")
    BY IdleJob DEF Reported
  <2>2. PICK hint \in {"skipped", "current"} : Finish(NoJob, hint)
    BY <1>1 DEF SkipItem
  <2>3. UNCHANGED profile BY <1>1 DEF SkipItem
  <2> QED BY <1>0, <2>1, <2>2, <2>3, EndsHonest
<1>2. CASE Begin BY <1>2 DEF Begin, NoLast, OutcomesAreHonest
<1>3. CASE GoesOn \/ Unfinds \/ FindsISBN \/ GuardPasses \/ MustMark
  BY <1>3, <1>a DEF GoesOn, Unfinds, FindsISBN, GuardPasses, MustMark, OnlyJob, NotRemote
<1>4. CASE Finds \/ FindsAgain \/ Verifies
  BY <1>4, <1>a DEF Finds, FindsAgain, Verifies, Remembers, NotRemote
<1>5. CASE Enrich
  <2>1. job.wrote = {} /\ job.marks = {} /\ job.hint \in Misses
    BY <1>5 DEF Enrich, Written, Placed
  <2>2. ~Reported(job, "synced") BY <2>1 DEF Reported
  <2>3. UNCHANGED profile /\ Finish(job, job.hint) BY <1>5 DEF Enrich, Unchanged
  <2> QED BY <1>0, <2>1, <2>2, <2>3, EndsHonest
<1>6. CASE GuardEnds
  <2>1. PICK hint \in {"skipped", "current"} : Finish(job, hint)
    BY <1>6 DEF GuardEnds
  <2>2. UNCHANGED profile BY <1>6 DEF GuardEnds, NotRemote
  <2> QED BY <1>0, <2>1, <2>2, EndsHonest DEF Written
<1>7. CASE Reconciles \/ Resolves BY <1>7, <1>a DEF Reconciles, Resolves
<1>8. CASE ResolveEnds
  <2> DEFINE j == Mark(job, "resolve", "failed")
  <2>0. Shape(job) BY DEF Types
  <2>1. PICK k : k = j OBVIOUS
  <2>2. /\ k.wrote = job.wrote
        /\ k.marks = job.marks \cup {[what |-> "resolve", outcome |-> "failed"]}
    BY <2>0, <2>1 DEF Shape, Mark
  <2> HIDE DEF j
  <2>3. Reported(k, "synced") <=> Reported(job, "synced")
    BY <2>2 DEF Reported
  <2>4. UNCHANGED profile /\ Finish(k, "failed")
    BY <1>8, <2>1 DEF ResolveEnds, j
  <2> QED BY <1>0, <2>2, <2>3, <2>4, EndsHonest DEF Written
<1>9. CASE EditionGone
  <2>1. UNCHANGED profile /\ Finish(job, "failed")
    BY <1>9 DEF EditionGone, Unchanged
  <2> QED BY <1>0, <2>1, EndsHonest DEF Written
<1>b. ASSUME UNCHANGED profile,
             NEW wrote \in {job.wrote, job.wrote \cup {"status"}}, NEW hint \in Outcomes,
             Finish([job EXCEPT !.wrote = wrote], hint),
             wrote # job.wrote => Saves /\ hint \in {"synced", "failed"},
             hint = "synced" => Saves,
             hint \in {"synced", "failed", "current", "skipped", "would"},
             hint = "would" => ~Saves
      PROVE  OutcomesAreHonest'
  <2>0. Shape(job) BY DEF Types
  <2>2. PICK k : k = [job EXCEPT !.wrote = wrote] OBVIOUS
  <2>3. Finish(k, hint) BY <1>b, <2>2
  <2>4. k.wrote = wrote /\ k.marks = job.marks BY <2>0, <2>2 DEF Shape
  <2>5. Reported(k, "synced") <=> Reported(job, "synced")
    BY <2>4 DEF Reported
  <2>7. /\ k.wrote \ {"recovered"} # {} =>
             \/ hint \in {"synced", "failed"}
             \/ hint \in {"current", "skipped"} /\ Reported(k, "synced")
        /\ ~Saves => k.wrote = {} /\ hint # "synced" /\ ~Reported(k, "synced")
    BY <1>b, <2>4, <2>5 DEF Written
  <2> QED BY <1>b, <2>3, <2>7, EndsHonest
<1>13. CASE WriteFails
  <2>1. UNCHANGED profile BY <1>13 DEF WriteFails, Unchanged
  <2>2. PICK partly \in {FALSE, Saves} :
          Finish([job EXCEPT !.wrote = IF partly THEN @ \cup {"status"} ELSE @], "failed")
    BY <1>13 DEF WriteFails
  <2> DEFINE wrote == IF partly THEN job.wrote \cup {"status"} ELSE job.wrote
  <2>3. Finish([job EXCEPT !.wrote = wrote], "failed") BY <2>2
  <2>4. wrote \in {job.wrote, job.wrote \cup {"status"}} /\ (wrote # job.wrote => Saves)
    <3>1. CASE partly = FALSE BY <3>1
    <3>2. CASE partly = Saves BY <3>2
    <3> QED BY <2>2, <3>1, <3>2
  <2> HIDE DEF wrote
  <2> QED BY <1>0, <1>b, <2>1, <2>3, <2>4
<1>14. CASE LeaveStatus
  <2>1. UNCHANGED profile BY <1>14 DEF LeaveStatus, Unchanged
  <2>2. PICK hint \in {"skipped", "current", "synced"} :
          /\ hint # "skipped" => Saves
          /\ Finish([job EXCEPT !.wrote = IF hint = "synced" THEN @ \cup {"status"} ELSE @],
                    hint)
    BY <1>14 DEF LeaveStatus
  <2> DEFINE wrote == IF hint = "synced" THEN job.wrote \cup {"status"} ELSE job.wrote
  <2>3. Finish([job EXCEPT !.wrote = wrote], hint) BY <2>2
  <2>4. /\ wrote \in {job.wrote, job.wrote \cup {"status"}}
        /\ wrote # job.wrote => Saves /\ hint \in {"synced", "failed"}
    BY <2>2
  <2> HIDE DEF wrote
  <2> QED BY <1>0, <1>b, <2>1, <2>2, <2>3, <2>4
<1>10. CASE WriteStatus
  <2>0. UNCHANGED profile BY <1>10 DEF WriteStatus
  <2>1. PICK already \in BOOLEAN :
          Finish([job EXCEPT !.wrote = IF already \/ ~Saves THEN @ ELSE @ \cup {"status"}],
                 IF already THEN "current" ELSE IF Saves THEN "synced" ELSE "would")
    BY <1>10 DEF WriteStatus
  <2> DEFINE wrote == IF already \/ ~Saves THEN job.wrote ELSE job.wrote \cup {"status"}
             hint == IF already THEN "current" ELSE IF Saves THEN "synced" ELSE "would"
  <2>2. Finish([job EXCEPT !.wrote = wrote], hint) BY <2>1
  <2>3. /\ wrote \in {job.wrote, job.wrote \cup {"status"}} /\ hint \in Outcomes
        /\ wrote # job.wrote => Saves /\ hint \in {"synced", "failed"}
        /\ hint \in {"synced", "current", "would"}
        /\ (hint = "synced" => Saves) /\ (hint = "would" => ~Saves)
    BY <1>0
  <2> HIDE DEF wrote, hint
  <2> QED BY <1>b, <2>0, <2>2, <2>3
<1>11. CASE Around BY <1>11, <1>a, AroundJob
<1>12. CASE UNCHANGED vars BY <1>12, <1>a DEF vars, jobVars
<1> QED
  BY <1>1, <1>2, <1>3, <1>4, <1>5, <1>6, <1>7, <1>8, <1>9, <1>10, <1>11, <1>12,
     <1>13, <1>14, Effects
  DEF Effect

\* The invariant holds at first.
LEMMA InitIInv == Init => IInv
<1> SUFFICES ASSUME Init PROVE IInv OBVIOUS
<1>1. NoJob.marks = {} /\ NoJob.wrote = {} /\ NoJob.match = NoMatch /\ NoJob.named = <<>>
  BY IdleJob
<1>2. WorldTyped
  <2>1. account \in Accounts BY BookMatchingAssumption DEF Init
  <2> QED BY <2>1, BookMatchingAssumption DEF Init, WorldTyped
<1>3. StateTyped
  BY Cleared DEF Init, StateTyped, StateFile, Statuses
<1>4. JobTyped
  BY <1>1, IdleJob DEF Init, JobTyped, Places, Shown, Outcome, Reported, NoLast, Outcomes
<1>5. Types BY <1>2, <1>3, <1>4 DEF Types, WorldTyped, StateTyped, JobTyped
<1>6. Placed /\ NamedWell BY DEF Init, Placed, NamedWell
<1>7. Written BY <1>1 DEF Init, Written, Reported
<1>8. Saved
  BY Cleared DEF Init, Saved, SavedNow, SavedFile, StateFile, GoodMatch, Earned
<1>9. OutcomesAreHonest BY DEF Init, NoLast, OutcomesAreHonest
<1> QED BY <1>5, <1>6, <1>7, <1>8, <1>9 DEF IInv

\* Every step keeps the invariant.
LEMMA StepIInv == IInv /\ [Next]_vars => IInv'
BY StepTypes, StepPlaced, StepWritten, StepNamedWell, StepSaved, StepHonest DEF IInv

\* The inductive invariant is an invariant.
LEMMA InvariantHolds == Spec => []IInv
BY InitIInv, StepIInv, PTL DEF Spec

---------------------------------------------------------------------------
(* The theorems                                                            *)

\* Every variable keeps its type, so an item is never taken further than its
\* match allows (processBookWithVerifiedEdition).
THEOREM TypeCorrect == Spec => []TypeOK
<1>1. IInv => TypeOK BY DEF IInv, Types, Placed, TypeOK, Places
<1> QED BY <1>1, InvariantHolds, PTL

\* A saved match was confirmed for the identifiers it is saved with, whatever
\* Hardcover's catalogue, the user and crashes did since
\* (recordVerifiedASINAssociation, recordVerifiedISBNAssociation).
THEOREM SavedMatchesConfirmed == Spec => []SavedMatchesAreConfirmed
<1>1. IInv => SavedMatchesAreConfirmed
  BY DEF IInv, Saved, SavedNow, GoodMatch, SavedMatchesAreConfirmed
<1> QED BY <1>1, InvariantHolds, PTL

\* The report of a sync agrees with what it did in Hardcover: no failure is
\* hidden behind a success, and no change behind a no-op, but for the creation
\* of a user book that failed in its answer only and that a lookup recovered
\* (recordBookOutcomeWithMatchMethod, findOrCreateUserBookIDWithEdition).
THEOREM HonestOutcomes == Spec => []OutcomesAreHonest
<1>1. IInv => OutcomesAreHonest BY DEF IInv
<1> QED BY <1>1, InvariantHolds, PTL

\* The ownership that a saved match remembers was seen on the list of the
\* account it is remembered for (MarkOwnershipVerified).
THEOREM OwnershipSeen == Spec => []OwnershipWasSeen
<1>1. IInv => OwnershipWasSeen
  BY DEF IInv, Saved, SavedNow, GoodMatch, OwnershipWasSeen
<1> QED BY <1>1, InvariantHolds, PTL

\* Hardcover is changed only where the match of the item is settled.
LEMMA WritesAreSettled ==
  ASSUME IInv, [Next]_vars, owned' \ owned # {} \/ library' # library
  PROVE  NamedBy(job.match.edition)
<1> USE DEF IInv
<1>0. Effect BY Effects
<1>1. CASE owned' \ owned # {}
  <2>1. Reconciles
    BY <1>0, <1>1
    DEF Effect, SkipItem, Begin, GoesOn, Unfinds, FindsISBN, Finds, FindsAgain, Verifies,
        Enrich, GuardEnds, GuardPasses, MustMark, Resolves, ResolveEnds, EditionGone,
        WriteStatus, LeaveStatus, WriteFails, Around, Crash, ChangeCatalogue, EditOwned, EditItem,
        ChangeToken, Expire, ToolsSave, ToolsForget, vars, OnlyJob, NotRemote, Remembers,
        Unchanged
  <2> QED BY <1>1, <2>1 DEF Reconciles, NamedWell
<1>2. CASE library' # library
  <2>1. Resolves \/ ResolveEnds
    BY <1>0, <1>2
    DEF Effect, SkipItem, Begin, GoesOn, Unfinds, FindsISBN, Finds, FindsAgain, Verifies,
        Enrich, GuardEnds, GuardPasses, MustMark, Reconciles, EditionGone,
        WriteStatus, LeaveStatus, WriteFails, Around, Crash, ChangeCatalogue, EditOwned, EditItem,
        ChangeToken, Expire, ToolsSave, ToolsForget, vars, OnlyJob, NotRemote, Remembers,
        Unchanged
  <2> QED BY <2>1 DEF Resolves, ResolveEnds, NamedWell
<1> QED BY <1>1, <1>2

\* Whatever the catalogue does between two requests, the Owned list and the
\* user book are changed only for an edition that this sync confirmed
\* (reconcileBookOwnership, findOrCreateUserBookIDWithEdition).
THEOREM WritesConfirmed == Spec => WritesAreConfirmed
<1>1. IInv /\ [Next]_vars =>
        [(owned' \ owned # {} \/ library' # library) => NamedBy(job.match.edition)]_vars
  BY WritesAreSettled
<1> QED BY <1>1, InvariantHolds, PTL DEF Spec, WritesAreConfirmed

\* A sync ends as current by a checkpoint, or by what Hardcover says.
LEMMA CurrentIsReached ==
  ASSUME IInv, [Next]_vars, last'.outcome = "current", last' # last
  PROVE  Status \in reached'
<1> USE DEF IInv
<1>0. /\ {"current", "skipped", "failed", "synced", "would"} \cup Misses \subseteq Outcomes
      /\ "current" \notin Misses
  BY DEF Outcomes, Misses
<1>1. Grows BY HistoryGrows
<1>2. CASE SkipItem
  <2>1. Current
    BY <1>0, <1>2, Ends DEF SkipItem
  <2> QED BY <1>1, <2>1, StatusTyped DEF Current, Saved, SavedNow, Earned, Grows
<1>3. CASE Enrich BY <1>0, <1>3, Ends DEF Enrich, Placed
<1>4. CASE GuardEnds
  <2>1. UpToDate
    BY <1>0, <1>4, Ends DEF GuardEnds
  <2>2. job.match.edition \in Editions BY <1>4 DEF GuardEnds, Placed
  <2> QED BY <1>1, <2>1, <2>2, StatusTyped DEF UpToDate, Saved, SavedNow, Earned, Grows
<1>5. CASE ResolveEnds BY <1>0, <1>5, Ends DEF ResolveEnds
<1>6. CASE EditionGone \/ WriteFails BY <1>0, <1>6, Ends DEF EditionGone, WriteFails
<1>9. CASE LeaveStatus
  <2>1. PICK hint \in {"skipped", "current", "synced"} :
          /\ hint = "current" => Status = "IN_PROGRESS" /\ Prior = "IN_PROGRESS"
          /\ Finish([job EXCEPT !.wrote = IF hint = "synced" THEN @ \cup {"status"} ELSE @],
                    hint)
    BY <1>9 DEF LeaveStatus
  <2>2. hint = "current" BY <1>0, <2>1, Ends
  <2>3. job.match.edition \in Editions BY <1>9 DEF LeaveStatus, Placed
  <2>4. Earned(Prior) BY <2>3 DEF Prior, Saved, SavedNow
  <2> QED BY <1>1, <2>1, <2>2, <2>4 DEF Earned, Grows
<1>7. CASE WriteStatus
  <2>1. PICK already \in BOOLEAN :
       /\ Finish([job EXCEPT !.wrote = IF already \/ ~Saves THEN @ ELSE @ \cup {"status"}],
                 IF already THEN "current" ELSE IF Saves THEN "synced" ELSE "would")
       /\ reached' = (IF already \/ Saves THEN reached \cup {Status} ELSE reached)
    BY <1>7 DEF WriteStatus
  <2>2. already BY <1>0, <2>1, Ends
  <2> QED BY <2>1, <2>2
<1>8. CASE UNCHANGED last \/ Begin BY <1>8 DEF Begin, NoLast
<1> QED
  BY <1>2, <1>3, <1>4, <1>5, <1>6, <1>7, <1>8, <1>9, Effects, AroundJob
  DEF Effect, GoesOn, Unfinds, FindsISBN, Finds, FindsAgain, Verifies,
      GuardPasses, MustMark, Reconciles, Resolves, OnlyJob, Remembers, vars, jobVars

\* An item is called current only when a sync reached its present target in
\* Hardcover, in this or an earlier run (checkIncrementalSync).
THEOREM CurrentEarned == Spec => CurrentIsEarned
<1>1. IInv /\ [Next]_vars =>
        [last'.outcome = "current" /\ last' # last => Status \in reached']_vars
  BY CurrentIsReached
<1> QED BY <1>1, InvariantHolds, PTL DEF Spec, CurrentIsEarned

=============================================================================
