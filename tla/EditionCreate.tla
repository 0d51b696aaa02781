--------------------------- MODULE EditionCreate ---------------------------
(***************************************************************************)
(* Adding a missing edition to Hardcover for one Audiobookshelf item of    *)
(* one profile: the create request, the recovery check and the forget      *)
(* request of internal/api and internal/multiuser, the journal of actions  *)
(* in the database, the saved match in the state file, the signed recovery *)
(* tokens, and Hardcover with a network that loses and delays mutations.   *)
(*                                                                         *)
(* All three requests hold the profile gate and the state-file lock from   *)
(* their first read to their last write, so at most one is inside: op.     *)
(* Each action is a stretch between two durable writes or remote calls;    *)
(* the process may die after any of them.                                  *)
(***************************************************************************)
EXTENDS Naturals, Sequences, FiniteSetsExt

CONSTANTS MaxRuns,      \* bound: sync runs that finish
          Retention,    \* runs whose reports (and journals) are kept
          MaxTokens     \* bound: recovery tokens signed

ASSUME EditionAssumption ==
  MaxRuns \in Nat /\ Retention \in Nat \ {0} /\ MaxTokens \in Nat

VARIABLES
  audible,    \* the item is an audiobook with an ASIN: creates are imports
  records,    \* run -> what its retained report says of the item
  journal,    \* run -> the journalled action
  assoc,      \* the saved match: how it was made, or "none"
  op,         \* the request inside the profile gate
  syncing,    \* a sync of the profile is active
  tokens,     \* the recovery tokens signed and journalled so far: their runs
  expired,    \* those past their 48 hours, or signed with a replaced token
  wire,       \* runs whose mutation is sent and not yet at Hardcover
  remote,     \* Hardcover: the import, or the edition with these identifiers
  mapped,     \* Hardcover: the Audible mapping names that edition
  writes      \* history: run -> mutations sent since its match was last undone

vars == <<audible, records, journal, assoc, op, syncing, tokens, expired,
          wire, remote, mapped, writes>>
requestVars == <<journal, assoc, op, tokens, wire, writes>>
worldVars   == <<audible, records, syncing, expired, remote, mapped>>

Runs == 1..MaxRuns

\* The item's entry in a run's report.  review: needs review, with a candidate
\* book.  import: an Audible import without one.  other: any other outcome.
\* blank: the run is retained but says nothing usable of the item.
Records == {"none", "review", "import", "other", "blank"}
Pending == {"unconfirmed", "transport_unknown", "created"}
NoAction == [outcome |-> "none", tok |-> 0]
\* plain: createEditionAssociation.  confirmed: NewAudibleImportAssociation,
\* which also records the confirmed region.  synced: saved by a sync.
Matches == {"none", "plain", "confirmed", "synced"}
\* Remote states with an edition: of the reviewed book and the right format,
\* of another book, of the wrong format.
Terminal == {"right", "otherBook", "wrongFormat"}

NoOp == [kind |-> "none", run |-> 0, pc |-> "idle", act |-> NoAction,
         made |-> "none", sent |-> FALSE, err |-> {}]

----------------------------------------------------------------------------
(* Errors are sets of tags: what errors.Is finds in a wrapped error.        *)

\* editionCreateErrorMetadata: the outcome the response names.
Mut_Outcome(err) ==
  IF err \cap {"mappingMissing", "wrongFormat"} # {} THEN "failed"
  ELSE IF "unconfirmed" \in err THEN "unconfirmed"
  ELSE IF "saveAfter" \in err THEN "created"
  ELSE IF "importFailed" \in err THEN "failed"
  ELSE "not_submitted"
Outcome(err) ==
  IF err \cap {"mappingMissing", "wrongFormat"} # {} THEN "failed"
  ELSE IF err \cap {"ambiguous", "unconfirmed"} # {} THEN "unconfirmed"
  ELSE IF "saveAfter" \in err THEN "created"
  ELSE IF "importFailed" \in err THEN "failed"
  ELSE "not_submitted"

\* editionActionOutcomeForCreateError: the outcome the journal keeps.
ActionOutcome(err) ==
  IF "unconfirmed" \in err THEN "unconfirmed"
  ELSE IF "ambiguous" \in err THEN "transport_unknown"
  ELSE Outcome(err)

\* finalizeEditionCreateAction: an ambiguous import keeps its recovery token.
Mut_Finalized(err, tok) ==
  LET outcome == IF "ambiguous" \in err /\ tok # 0 THEN "unconfirmed"
                 ELSE ActionOutcome(err)
  IN  [outcome |-> outcome, tok |-> tok]
Finalized(err, tok) ==
  LET outcome == IF "ambiguous" \in err /\ tok # 0 THEN "unconfirmed"
                 ELSE ActionOutcome(err)
  IN  [outcome |-> outcome, tok |-> IF outcome \in Pending THEN tok ELSE 0]

\* What the caller is told.
Answered(o) ==
  IF "resolve" \in o.err THEN o.act.outcome
  ELSE IF "recoveryUnavailable" \in o.err THEN "transport_unknown"
  ELSE Outcome(o.err)

\* persistEditionActionBestEffort: the save may fail, and only a warning says so.
Saved(r, action) == journal' \in {journal, [journal EXCEPT ![r] = action]}

Answer(err) == op' = [op EXCEPT !.pc = "answer", !.err = err, !.act = NoAction, !.made = "none"]

----------------------------------------------------------------------------
(* The run's record, and the recovery token.                                *)

\* GetLaterUsableSyncRunOutcome: what the newest later run says of the item.
LaterRuns(r) == {s \in Runs : s > r /\ records[s] \notin {"none", "blank"}}
Latest(r) == records[CHOOSE s \in LaterRuns(r) : \A t \in LaterRuns(r) : t <= s]
Superseded(r) == LaterRuns(r) # {} /\ Latest(r) # records[r]

\* verifiedEditionCreateRecord
Usable(r) == records[r] \in {"review", "import"} /\ ~Superseded(r)

\* sameAudibleImportRecoverySource: a later run lost the candidate book.
RecoveryTransition(r) ==
  records[r] \in {"review", "import"} /\ Superseded(r) /\ Latest(r) = "import"

\* verifyEditionRecoveryToken: signed for this run with the profile's present
\* Hardcover token, and not expired.
ValidToken(t, r) == t \in DOMAIN tokens /\ t \notin expired /\ tokens[t] = r

Init ==
  /\ audible \in BOOLEAN
  /\ records = [r \in Runs |-> "none"]
  /\ journal = [r \in Runs |-> NoAction]
  /\ assoc = "none" /\ op = NoOp /\ syncing = FALSE
  /\ tokens = <<>> /\ expired = {}
  /\ wire = [r \in Runs |-> FALSE]
  /\ remote = "none" /\ mapped = FALSE
  /\ writes = [r \in Runs |-> 0]

----------------------------------------------------------------------------
(* POST edition-drafts/create                                               *)

\* Refused before anything is written, and so not a step here: shutdown, an
\* active sync, dry run, a busy state file, a saved match, a stale record, a
\* failed Audiobookshelf lookup, a changed source, a local failure.  An earlier
\* attempt that is not settled is answered with its journalled outcome.
CreateRefused(r) ==
  /\ op = NoOp /\ ~syncing /\ assoc = "none" /\ Usable(r)
  /\ journal[r].outcome \notin {"none", "not_submitted"}
  /\ op' = [NoOp EXCEPT !.kind = "create", !.run = r, !.pc = "answer",
                        !.err = {"resolve"}, !.act = journal[r]]
  /\ UNCHANGED <<journal, assoc, tokens, wire, writes, worldVars>>

\* createVerifiedEdition up to its first durable write.
Mut_Admissible(r) == assoc = "none" /\ Usable(r) /\ journal[r].outcome \notin {"unconfirmed", "failed"}
Admissible(r) ==
  assoc = "none" /\ Usable(r) /\ journal[r].outcome \in {"none", "not_submitted"}

CreateAdmitted(r) ==
  /\ op = NoOp /\ ~syncing /\ Admissible(r)
  /\ journal' = [journal EXCEPT ![r] = [outcome |-> "not_submitted", tok |-> 0]]
  /\ op' = [NoOp EXCEPT !.kind = "create", !.run = r, !.pc = "prepare",
                        !.act = [outcome |-> "not_submitted", tok |-> 0]]
  /\ UNCHANGED <<assoc, tokens, wire, writes, worldVars>>

At(kind, pc) == op.kind = kind /\ op.pc = pc

\* Invalid input, a failed lookup, too little time left: nothing is submitted.
PrepareFails ==
  /\ At("create", "prepare")
  /\ Saved(op.run, Finalized({"refused"}, 0))
  /\ Answer({"refused"})
  /\ UNCHANGED <<assoc, tokens, wire, writes, worldVars>>

\* The attempt becomes durable, with its recovery token, before it is sent.
Prepare ==
  /\ At("create", "prepare")
  /\ audible => Len(tokens) < MaxTokens                               \* bound
  /\ LET tok == IF audible THEN Len(tokens) + 1 ELSE 0
         act == [outcome |-> "unconfirmed", tok |-> tok]
     IN  \/ /\ journal' = [journal EXCEPT ![op.run] = act]
            /\ tokens' = IF audible THEN Append(tokens, op.run) ELSE tokens
            /\ op' = [op EXCEPT !.pc = "send", !.act = act]
         \/ /\ Saved(op.run, Finalized({"refused"}, 0))
            /\ Answer({"refused"})
            /\ UNCHANGED tokens
  /\ UNCHANGED <<assoc, wire, writes, worldVars>>

Refused ==
  /\ Saved(op.run, Finalized({"refused"}, 0))
  /\ op' = [op EXCEPT !.pc = "answer", !.err = {"refused"}, !.act = NoAction]
  /\ UNCHANGED <<assoc, tokens, wire, writes, worldVars>>

\* Too little time is left, or the token has no permission to write.
WriteDenied == At("create", "send") /\ Refused

\* The searches by ASIN and ISBN ask for editions of one format only.
OfThisFormat == remote # "wrongFormat"

\* GetEditionByASIN, GetEditionByISBN13 and GetEditionByISBN10: in any book.
Existing == remote \in Terminal /\ OfThisFormat

\* A lookup failed, or an identifier belongs to an edition of another book.
InsertionRefused == At("create", "send") /\ ~audible /\ Refused

\* adoptExistingEdition: one of the same book is taken as it is.
Adopt ==
  /\ At("create", "send") /\ ~audible /\ Existing /\ remote = "right"
  /\ op' = [op EXCEPT !.pc = "confirm"]
  /\ UNCHANGED <<journal, assoc, tokens, wire, writes, worldVars>>

\* The budgeted mutation: one HTTP attempt, without redirects or retries.
Sent ==
  /\ wire' = [wire EXCEPT ![op.run] = TRUE]
  /\ writes' = [writes EXCEPT ![op.run] = @ + 1]
  /\ op' = [op EXCEPT !.pc = "confirm", !.sent = TRUE]
  /\ UNCHANGED <<journal, assoc, tokens, worldVars>>

SendImport == At("create", "send") /\ audible /\ Sent
SendInsertion == At("create", "send") /\ ~audible /\ ~Existing /\ Sent

\* The attempt keeps its journal and token until a check settles it.
Unsettled ==
  /\ LET act == Finalized({"ambiguous"}, op.act.tok)
     IN  /\ Saved(op.run, act)
         /\ op' = [op EXCEPT !.pc = "answer", !.err = {"ambiguous"}, !.act = act]
  /\ UNCHANGED <<assoc, tokens, wire, writes, worldVars>>

\* No answer, a redirect, an HTTP or GraphQL error, no data: whether the
\* mutation arrived, or still will, is not known.
AnswerLost == At("create", "confirm") /\ op.sent /\ Unsettled

\* It arrived, but the poll ends without a terminal status and a mapping, or
\* with an identity that was not asked for.
PollUnsettled == At("create", "confirm") /\ audible /\ ~wire[op.run] /\ Unsettled

\* Hardcover answers an insertion with errors, calls it a duplicate that the
\* lookups do not find, names no edition, or the edition cannot be read back.
InsertionUnsettled ==
  At("create", "confirm") /\ ~audible /\ ~wire[op.run] /\ Unsettled

\* Hardcover's definite answers.
Definite ==
  (IF audible /\ remote = "failed" THEN {{"importFailed"}} ELSE {})
  \cup (IF remote = "wrongFormat" THEN {{"wrongFormat"}} ELSE {})

ConfirmFailed ==
  /\ At("create", "confirm") /\ op.sent /\ ~wire[op.run]
  /\ \E err \in Definite :
       /\ Saved(op.run, Finalized(err, op.act.tok))
       /\ op' = [op EXCEPT !.pc = "answer", !.err = err, !.act = NoAction]
  /\ UNCHANGED <<assoc, tokens, wire, writes, worldVars>>

\* An import without a candidate book may still be anchored to the one book
\* its title and author name (unanchoredImportAnchorBook).
Anchorings == IF records[op.run] = "import" THEN BOOLEAN ELSE {TRUE}

\* The edition that was asked for: any book will do when none was named.
AskedFor(anchored) == remote = "right" \/ (~anchored /\ remote = "otherBook")

\* The edition is read back: its book, its format, and (imports) its mapping.
Mut_ReadBack(anchored) == audible => mapped
ReadBack(anchored) == AskedFor(anchored) /\ (audible => mapped)

Confirm ==
  /\ At("create", "confirm") /\ ~wire[op.run]
  /\ \E anchored \in Anchorings :
       LET act == [outcome |-> "created", tok |-> op.act.tok]
       IN  /\ ReadBack(anchored)
           /\ Saved(op.run, act)
           /\ op' = [op EXCEPT !.pc = "save", !.act = act,
                               !.made = IF anchored THEN "plain" ELSE "confirmed"]
  /\ UNCHANGED <<assoc, tokens, wire, writes, worldVars>>

----------------------------------------------------------------------------
(* POST edition-drafts/check-import: reads of Hardcover only.  A refused    *)
(* check changes nothing and is not a step.                                 *)

\* A still valid stored token is never revoked by a request that names another.
Mut_Revocable(r) == TRUE
Revocable(r) == ~ValidToken(journal[r].tok, r)

Check(r, pc, err) == op' = [NoOp EXCEPT !.kind = "check", !.run = r, !.pc = pc, !.err = err]

\* A valid token must be the journalled one, unless the journal has nothing:
\* tokens from before the journal are held by the browser alone.
CheckAdmitted(r, t) ==
  /\ op = NoOp /\ ~syncing
  /\ Usable(r) \/ RecoveryTransition(r)
  /\ ValidToken(t, r)
  /\ \/ journal[r].outcome \in Pending /\ journal[r].tok = t
     \/ journal[r].outcome = "none" /\ ~RecoveryTransition(r)
  /\ Check(r, "read", {})
  /\ UNCHANGED <<journal, assoc, tokens, wire, writes, worldVars>>

\* An invalid token, and the stored one is invalid too: recovery is over.
CheckRevokes(r, t) ==
  /\ op = NoOp /\ ~syncing /\ Usable(r)
  /\ ~ValidToken(t, r)
  /\ journal[r].outcome \in Pending /\ Revocable(r)
  /\ Saved(r, [outcome |-> "transport_unknown", tok |-> 0])
  /\ Check(r, "answer", {"recoveryUnavailable"})
  /\ UNCHANGED <<assoc, tokens, wire, writes, worldVars>>

\* A failed lookup, no terminal status yet, or an identity conflict.
CheckUnconfirmed ==
  /\ At("check", "read")
  /\ Answer({"unconfirmed"})
  /\ UNCHANGED <<journal, assoc, tokens, wire, writes, worldVars>>

\* A check knows of no anchor beyond the book of the run's record.
Anchored == records[op.run] # "import"

\* A definite failure; the mapping counts as missing after five minutes.
CheckErrors ==
  Definite \cup (IF AskedFor(Anchored) /\ ~mapped THEN {{"mappingMissing"}} ELSE {})

CheckFailed ==
  /\ At("check", "read")
  /\ \E err \in CheckErrors :
       /\ Saved(op.run, Finalized(err, 0))
       /\ Answer(err)
  /\ UNCHANGED <<assoc, tokens, wire, writes, worldVars>>

CheckConfirmed ==
  /\ At("check", "read")
  /\ ReadBack(Anchored)
  /\ op' = [op EXCEPT !.pc = "save", !.made = IF Anchored THEN "plain" ELSE "confirmed"]
  /\ UNCHANGED <<journal, assoc, tokens, wire, writes, worldVars>>

----------------------------------------------------------------------------
(* createEditionWithAssociationAndResync after the operation.               *)

\* sameRecoveredEditionAssociation leaves the provenance out: a sync's match
\* may or may not equal a plain one; it never has a confirmed region.
SameMatch == {made \in Matches : made = assoc \/ {made, assoc} = {"synced", "plain"}}

SaveMatch ==
  /\ op.pc = "save"
  /\ \/ assoc = "none" /\ assoc' = op.made /\ op' = [op EXCEPT !.pc = "clear", !.act = NoAction, !.made = "none"]
     \/ assoc = "none" /\ Answer({"saveAfter"}) /\ UNCHANGED assoc
     \/ assoc # "none" /\ op.made \in SameMatch
        /\ op' = [op EXCEPT !.pc = "clear", !.act = NoAction, !.made = "none"] /\ UNCHANGED assoc
     \/ assoc # "none" /\ op.made # assoc /\ Answer({"exists"}) /\ UNCHANGED assoc
  /\ UNCHANGED <<journal, tokens, wire, writes, worldVars>>

ClearedJournal == [r \in Runs |-> NoAction]

ClearJournal ==
  /\ op.pc = "clear"
  /\ journal' \in {journal, ClearedJournal}
  /\ Answer({})
  /\ UNCHANGED <<assoc, tokens, wire, writes, worldVars>>

Respond ==
  /\ op.pc = "answer"
  /\ op' = NoOp
  /\ UNCHANGED <<journal, assoc, tokens, wire, writes, worldVars>>

----------------------------------------------------------------------------
(* Forgetting the match: the journal first, so that a failure leaves it.    *)

Forget ==
  /\ op = NoOp /\ ~syncing /\ assoc # "none"
  /\ journal' = ClearedJournal
  /\ op' = [NoOp EXCEPT !.kind = "forget", !.pc = "unmatch"]
  /\ UNCHANGED <<assoc, tokens, wire, writes, worldVars>>

ForgetSaves ==
  /\ op.pc = "unmatch"
  /\ op' = NoOp
  /\ \/ assoc' = "none" /\ writes' = [r \in Runs |-> 0]
     \/ UNCHANGED <<assoc, writes>>
  /\ UNCHANGED <<journal, tokens, wire, worldVars>>

----------------------------------------------------------------------------
(* Syncs, the profile's settings, time and Hardcover.  None of them is      *)
(* interleaved with the writing of an answer, which reads no shared state.  *)

LastRun == Max({0} \cup {r \in Runs : records[r] # "none"})

SyncStarts ==
  /\ op = NoOp /\ ~syncing /\ LastRun < MaxRuns                      \* bound
  /\ syncing' = TRUE
  /\ UNCHANGED <<audible, records, expired, remote, mapped, requestVars>>

\* A sync saves a verified match, or drops one whose edition is gone.
SyncMatches ==
  /\ syncing /\ assoc = "none"
  /\ assoc' = "synced"
  /\ UNCHANGED <<journal, op, tokens, wire, writes, worldVars>>

SyncUnmatches ==
  /\ syncing /\ assoc # "none"
  /\ assoc' = "none"
  /\ writes' = [r \in Runs |-> 0]
  /\ \/ remote' = "none" /\ mapped' = FALSE
     \/ UNCHANGED <<remote, mapped>>
  /\ UNCHANGED <<audible, records, syncing, expired, journal, op, tokens, wire>>

\* Only an audiobook with an ASIN is offered as an Audible import.
NewRecords == {"review", "other", "blank"} \cup (IF audible THEN {"import"} ELSE {})

\* retainNewestSyncRunReports: the journals of evicted runs go with them.
SyncEnds ==
  /\ syncing
  /\ \E rec \in NewRecords :
       LET r == LastRun + 1
           kept(s) == s > r - Retention
       IN  /\ records' = [s \in Runs |-> IF s = r THEN rec ELSE IF kept(s) THEN records[s] ELSE "none"]
           /\ journal' = [s \in Runs |-> IF kept(s) /\ s # r THEN journal[s] ELSE NoAction]
           /\ writes' = [s \in Runs |-> IF kept(s) /\ s # r THEN writes[s] ELSE 0]
  /\ syncing' = FALSE
  /\ UNCHANGED <<audible, assoc, op, tokens, expired, wire, remote, mapped>>

\* UpdateProfileConfig, under the gate, replaces the Hardcover token that
\* every recovery token was signed with.
RotateToken ==
  /\ op = NoOp /\ expired # DOMAIN tokens
  /\ expired' = DOMAIN tokens
  /\ UNCHANGED <<audible, records, syncing, remote, mapped, requestVars>>

TokenExpires ==
  /\ op.pc # "answer"
  /\ \E t \in DOMAIN tokens \ expired : expired' = expired \cup {t}
  /\ UNCHANGED <<audible, records, syncing, remote, mapped, requestVars>>

\* A mutation arrives.  An import that already ended is returned as it is; an
\* insert that meets an existing edition is refused as a duplicate.
Delivered(r) ==
  /\ wire[r] /\ op.pc # "answer"
  /\ wire' = [wire EXCEPT ![r] = FALSE]
  /\ remote' \in IF remote \in Terminal THEN {remote}
                 ELSE IF audible THEN {"fetching"}
                 ELSE {"right", "wrongFormat"}
  /\ UNCHANGED <<audible, records, syncing, expired, mapped, journal, assoc, op, tokens, writes>>

Lost(r) ==
  /\ wire[r] /\ op.pc # "answer"
  /\ wire' = [wire EXCEPT ![r] = FALSE]
  /\ UNCHANGED <<journal, assoc, op, tokens, writes, worldVars>>

\* Hardcover finishes an import, or another user adds the edition.
RemoteMoves ==
  /\ op.pc # "answer"
  /\ \/ audible /\ remote = "fetching" /\ remote' \in Terminal \cup {"failed"} /\ UNCHANGED mapped
     \/ ~audible /\ remote = "none" /\ remote' \in {"right", "otherBook"} /\ UNCHANGED mapped
     \/ audible /\ remote \in Terminal /\ ~mapped /\ mapped' = TRUE /\ UNCHANGED remote
  /\ UNCHANGED <<audible, records, syncing, expired, requestVars>>

\* The process dies; gate, lock and active sync are gone, the rest is durable.
Crash ==
  /\ op # NoOp \/ syncing
  /\ op.pc # "answer"
  /\ op' = NoOp /\ syncing' = FALSE
  /\ UNCHANGED <<audible, records, expired, remote, mapped, journal, assoc, tokens, wire, writes>>

Request ==
  \/ PrepareFails \/ Prepare \/ WriteDenied \/ InsertionRefused
  \/ Adopt \/ SendImport \/ SendInsertion
  \/ AnswerLost \/ PollUnsettled \/ InsertionUnsettled \/ ConfirmFailed \/ Confirm
  \/ CheckUnconfirmed \/ CheckFailed \/ CheckConfirmed
  \/ SaveMatch \/ ClearJournal \/ ForgetSaves \/ Respond

Next ==
  \/ Request
  \/ \E r \in Runs : CreateRefused(r) \/ CreateAdmitted(r) \/ Delivered(r) \/ Lost(r)
  \/ \E r \in Runs, t \in 0..MaxTokens : CheckAdmitted(r, t) \/ CheckRevokes(r, t)
  \/ Forget \/ SyncStarts \/ SyncMatches \/ SyncUnmatches \/ SyncEnds
  \/ RotateToken \/ TokenExpires \/ RemoteMoves \/ Crash

Spec == Init /\ [][Next]_vars

----------------------------------------------------------------------------
(* Correctness                                                              *)

\* Every variable has its type; only pending actions keep a recovery token.
TypeOK ==
  /\ audible \in BOOLEAN /\ syncing \in BOOLEAN /\ mapped \in BOOLEAN
  /\ records \in [Runs -> Records] /\ assoc \in Matches
  /\ \A r \in Runs :
       /\ journal[r].outcome \in {"none", "not_submitted", "failed"} \cup Pending
       /\ journal[r].tok \in 0..Len(tokens)
       /\ journal[r].tok # 0 => journal[r].outcome \in Pending
       /\ wire[r] \in BOOLEAN /\ writes[r] \in Nat
  /\ op.kind \in {"none", "create", "check", "forget"} /\ op.run \in 0..MaxRuns
  /\ expired \subseteq DOMAIN tokens
  /\ remote \in {"none", "fetching", "failed"} \cup Terminal

\* The journal keeps what the ledger promises: an attempt is durable before
\* its one write, and a run whose write may have been taken is never offered
\* for another (edition_create.go, handlers_edition_create.go 689-765).
PhaseOf(r) ==
  IF records[r] = "none" THEN "absent"
  ELSE IF assoc # "none" THEN "matched"
  ELSE IF journal[r].outcome \in {"none", "not_submitted"} THEN "open"
  ELSE IF journal[r].outcome = "failed" THEN "failed"
  ELSE "pending"

Ledger == INSTANCE EditionLedger
            WITH Runs   <- Runs,
                 phase  <- [r \in Runs |-> PhaseOf(r)],
                 writes <- writes

ImplementsEditionLedger == Ledger!LedgerSpec

\* A saved match made by a request is the edition Hardcover really has: of
\* the reviewed book unless the import had none, and of the item's format,
\* whatever Hardcover and other users did between the write and the save.
MatchIsVerified ==
  /\ assoc = "plain" => remote = "right"
  /\ assoc = "confirmed" => remote \in {"right", "otherBook"}

\* A create that is answered as not submitted sent nothing, and one that may
\* have been submitted is answered with a journal that blocks a repetition
\* and with the token the journal has (writeEditionCreateErrorWithAction).
AnswersAreHonest ==
  op.kind = "create" /\ op.pc = "answer" /\ op.err # {} =>
    /\ Answered(op) = "not_submitted" => ~op.sent
    /\ op.sent => /\ journal[op.run].outcome \in Pending \cup {"failed"}
                  /\ "ambiguous" \in op.err => journal[op.run].tok = op.act.tok

\* Once an attempt may have reached Hardcover, its recovery token survives
\* until it is no longer valid, the attempt has failed for good, the item has
\* a match, or the run's report is evicted: a check with a wrong token, a
\* lost answer or a crash never takes away the one way to settle it.
TokenKept ==
  [][\A r \in Runs :
       ValidToken(journal[r].tok, r) /\ writes[r] > 0 =>
         \/ journal'[r].tok = journal[r].tok
         \/ journal'[r].outcome = "failed"
         \/ assoc # "none"
         \/ records'[r] = "none"]_vars

\* RecoverEditionAssociation (edition_create.go 178-181): "If the exact
\* association is already saved, the verification succeeds idempotently."
\* A check of a match that a request of this item saved is never refused.
RecoveryIsIdempotent ==
  op.kind = "check" /\ "exists" \in op.err => assoc = "synced"
=============================================================================
