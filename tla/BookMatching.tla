--------------------------- MODULE BookMatching ---------------------------
(***************************************************************************)
(* How one Audiobookshelf item finds its Hardcover edition, over several   *)
(* syncs of one profile: the guards before the lookup, the identifier      *)
(* lookups and their second confirmation, the saved association, the       *)
(* checks of the Owned list, the user book, the checkpoint and the outcome *)
(* that the report shows (internal/sync/service.go, state/state.go,        *)
(* api/hardcover/asin_lookup.go and client.go).                            *)
(*                                                                         *)
(* Every request is a step, and may fail.  Between two requests Hardcover's*)
(* catalogue changes and the user edits the Owned list; between two syncs  *)
(* the item's identifiers, its listening state and the Hardcover account   *)
(* change, and the edition tools save or forget a match.                   *)
(*                                                                         *)
(* An identifier is its presence: the two forms of an ISBN are one lookup. *)
(* A listening position is its class, a target.  Every edition here has    *)
(* the reading format of the item: the lookups ask for that format only.   *)
(***************************************************************************)
EXTENDS Naturals, Sequences, FiniteSets, FiniteSetsExt

CONSTANTS Editions, NoEdition,
          BookOf,      \* the Hardcover book of each edition
          Accounts,    \* the Hardcover accounts of the tokens in use
          Profiles,    \* settings and reading formats to check
          Catalogues,  \* what Hardcover may know of the item at first
          FirstItems,  \* what Audiobookshelf may say of it at first
          MaxChanges,  \* bound on changes of the catalogue
          MaxEdits,    \* bound on edits of the item, its match, its account
          MaxFaults    \* bound on failing requests and crashes

Formats == {"audiobook", "ebook"}
Targets == {"unread", "below", "reading", "finished", "undated"}
ProfileSet == [format      : Formats,
               includes    : BOOLEAN,  \* sync.include_ebooks
               incremental : BOOLEAN,
               syncOwned   : BOOLEAN,
               recheck     : BOOLEAN,  \* sync.ownership_recheck_days > 0
               dryRun      : BOOLEAN,
               unread      : {"skip", "match", "want"}]
               \* not processed; processed; processed and sync_want_to_read
ASINs == {"none", "valid", "malformed"}
Identifiers == [asin : ASINs, isbn : BOOLEAN]
Items == [ids : Identifiers, target : Targets]
CatalogueSet == [mapping : SUBSET Editions, \* by regional Audible mapping
                 easin   : SUBSET Editions, \* by editions.asin
                 isbn    : SUBSET Editions, \* by ISBN-10 or ISBN-13
                 title   : BOOLEAN,         \* the title search has results
                 alive   : SUBSET Editions]

ASSUME BookMatchingAssumption ==
  /\ NoEdition \notin Editions /\ Accounts # {}
  /\ DOMAIN BookOf = Editions
  /\ Profiles \subseteq ProfileSet
  /\ Catalogues \subseteq CatalogueSet
  /\ FirstItems \subseteq Items
  /\ {MaxChanges, MaxEdits, MaxFaults} \subseteq Nat

VARIABLES
  profile, item, account,
  hc,        \* Hardcover's catalogue
  owned,     \* the Owned lists: pairs of account and edition
  library,   \* the edition of each account's user book, by Hardcover book
  assoc,     \* the saved association
  base,      \* the item's checkpoint
  byEdition, \* its checkpoints by edition
  disk,      \* what the state file keeps of these during a sync
  pc, job,   \* the sync of the item
  report,    \* what the report and its attention list say of the item
  \* history variables and bounds
  last,      \* how the last sync ended, until the next one looks the item up
  confirmed, \* editions that were confirmed for the identifiers at hand
  listed,    \* pairs of account and book once answered to be owned
  reached,   \* targets that a sync set in Hardcover
  changes, edits, faults

setVars == <<profile, item, account>>
remoteVars == <<hc, owned, library>>
stateVars == <<assoc, base, byEdition>>
ghostVars == <<confirmed, listed, reached>> \* and last, see Finish
bounds == <<changes, edits, faults>>
jobVars == <<pc, job, report, last>>
vars == <<setVars, remoteVars, stateVars, disk, jobVars, ghostVars, bounds>>

Books == {BookOf[e] : e \in Editions}
Kinds == {"mapping", "isbn", "easin", "tools"}
NoAssoc == [edition |-> NoEdition]
AssocSet ==
  [edition : Editions, ids : Identifiers, kind : Kinds,
   owner : Accounts \cup {"nobody"}, \* OwnershipTokenFingerprint
   recent : BOOLEAN]                 \* OwnershipVerifiedAt, in the interval
Statuses == {"none", "SKIPPED", "WANT_TO_READ", "IN_PROGRESS", "FINISHED"}
Outcomes == {"none", "synced", "current", "skipped", "review", "not_found",
             "failed", "would"}
NoMatch == [edition |-> NoEdition, kind |-> "none"]
NoJob == [todo |-> <<>>, pass |-> 1, error |-> FALSE, match |-> NoMatch,
          reconciled |-> FALSE, lookup |-> FALSE, checkpoint |-> FALSE,
          hint |-> "none", marks |-> {}, wrote |-> {}, named |-> <<>>]

IsAudio == profile.format = "audiobook"
IsEbook == profile.format = "ebook"
Saves == ~profile.dryRun

Fault == faults < MaxFaults /\ faults' = faults + 1 /\ UNCHANGED <<changes, edits>>
NoFault == UNCHANGED bounds

----------------------------------------------------------------------------
\* The state file.

Matches(a) == a # NoAssoc /\ a.ids = item.ids

\* Mutant: what was verified of another edition's ownership is kept.
Mut_Association(edition, kind) ==
  IF assoc # NoAssoc THEN [assoc EXCEPT !.edition = edition, !.ids = item.ids, !.kind = kind]
  ELSE [edition |-> edition, ids |-> item.ids, kind |-> kind,
        owner |-> "nobody", recent |-> FALSE]

\* SetAssociation: the same match keeps what is known of its ownership.
Association(edition, kind) ==
  LET new == [edition |-> edition, ids |-> item.ids, kind |-> kind,
              owner |-> "nobody", recent |-> FALSE] IN
  IF assoc # NoAssoc /\ assoc.edition = edition /\ assoc.ids = item.ids
    THEN [assoc EXCEPT !.kind = kind] ELSE new

NoCheckpoints == [e \in Editions |-> "none"]

RemoveAssociation ==
  assoc' = NoAssoc /\ base' = "none" /\ byEdition' = NoCheckpoints

Checkpoint(edition, status) ==
  base' = status /\ byEdition' = [byEdition EXCEPT ![edition] = status]

\* OwnershipVerifiedSince, for the token that is in use.
OwnershipKnown(edition) ==
  /\ profile.recheck /\ assoc # NoAssoc
  /\ assoc.edition = edition /\ assoc.owner = account /\ assoc.recent

OwnershipVerified(edition) ==
  IF Saves /\ assoc # NoAssoc /\ assoc.edition = edition
    THEN [assoc EXCEPT !.owner = account, !.recent = TRUE] ELSE assoc

\* determineBookStatus
Status ==
  CASE item.target \in {"finished", "undated"} -> "FINISHED"
    [] item.target \in {"reading", "below"} -> "IN_PROGRESS"
    [] OTHER -> IF profile.unread = "want" THEN "WANT_TO_READ" ELSE "none"

----------------------------------------------------------------------------
\* The outcome of the item.  What a mutation reports overrides a no-op, and a
\* mutation that failed overrides everything.
Reported(j, outcome) == \E m \in j.marks : m.outcome = outcome
\* Mutant: what the item's mutations reported does not count.
Mut_Outcome(j, hint) == hint

Outcome(j, hint) ==
  IF Reported(j, "failed") THEN "failed"
  ELSE IF hint \notin {"current", "skipped"} THEN hint
  ELSE IF Reported(j, "synced") THEN "synced"
  ELSE IF Reported(j, "would") THEN "would" ELSE hint
Mark(j, what, outcome) ==
  [j EXCEPT !.marks = @ \cup {[what |-> what, outcome |-> outcome]}]

\* recordBookOutcomeWithMatchMethod: the attention list follows the outcome.
Shown(j, outcome) ==
  [outcome |-> outcome,
   attention |-> outcome = "review" \/ (outcome = "failed" /\ j.lookup)]
NoLast == [outcome |-> "none", wrote |-> {}, failed |-> FALSE]

Finish(j, hint) ==
  /\ report' = Shown(j, Outcome(j, hint))
  /\ last' = [outcome |-> Outcome(j, hint), wrote |-> j.wrote,
              failed |-> Reported(j, "failed")]
  /\ pc' = "idle" /\ job' = NoJob

----------------------------------------------------------------------------
\* Before the lookup.

\* Mutant: the checkpoint is trusted for an audiobook without a match, too.
Mut_Unmatched == FALSE

\* An audiobook without a match is looked up again whatever its checkpoint
\* says; one without identifiers loses its checkpoints.
Unmatched == profile.incremental /\ IsAudio /\ assoc = NoAssoc
HasIdentifier == item.ids.asin = "valid" \/ item.ids.isbn
Invalidates == Unmatched /\ ~HasIdentifier /\ Saves \* a dry run saves nothing

Excluded == \/ IsEbook /\ ~profile.includes
            \/ item.target = "undated"
            \/ item.target = "unread" /\ profile.unread = "skip"
Current == /\ profile.incremental /\ ~Unmatched
           /\ base # "none" /\ base = Status
TooEarly == IsAudio /\ item.target = "below"

Invalidated ==
  IF Invalidates THEN base' = "none" /\ byEdition' = NoCheckpoints
                 ELSE UNCHANGED <<base, byEdition>>

StateFile == [assoc |-> assoc, base |-> base, byEdition |-> byEdition]

SkipItem ==
  /\ pc = "idle"
  /\ IF Excluded THEN /\ Finish(NoJob, "skipped") /\ UNCHANGED stateVars
     ELSE /\ Current \/ TooEarly
          /\ Finish(NoJob, IF Current THEN "current" ELSE "skipped")
          /\ Invalidated /\ UNCHANGED assoc
  /\ UNCHANGED <<setVars, remoteVars, disk, ghostVars>> /\ NoFault

\* The lookups that the identifiers call for, in their order.
Plan ==
  (IF item.ids.asin = "valid" \/ (IsEbook /\ item.ids.asin = "malformed")
     THEN <<"asin">> ELSE <<>>)
  \o (IF item.ids.isbn THEN <<"isbn">> ELSE <<>>)
  \o (IF IsAudio /\ item.ids.asin = "valid" THEN <<"easin">> ELSE <<"title">>)

\* A saved match is used as it is, however it was found.
SavedMatch == [edition |-> assoc.edition, kind |-> "saved"]

Begin ==
  /\ pc = "idle" /\ ~Excluded /\ ~Current /\ ~TooEarly
  /\ disk' = StateFile
  /\ IF Matches(assoc)
     THEN /\ job' = [NoJob EXCEPT !.match = SavedMatch]
          /\ pc' = (IF IsEbook THEN "own" ELSE "guard")
          /\ UNCHANGED stateVars
     ELSE /\ job' = [NoJob EXCEPT !.todo = Plan] /\ pc' = "lookup"
          /\ IF assoc # NoAssoc /\ Saves THEN RemoveAssociation
             ELSE Invalidated /\ UNCHANGED assoc
  /\ report' = Shown(NoJob, "none") /\ last' = NoLast \* beginOutcomeRun
  /\ UNCHANGED <<setVars, remoteVars, ghostVars>> /\ NoFault

----------------------------------------------------------------------------
\* The lookup.  What it finds is a match, and what it does not find is one of
\* the outcomes review, not_found and failed.

Stage(s) == pc = "lookup" /\ Head(job.todo) = s
Unchanged == UNCHANGED <<setVars, remoteVars, disk, ghostVars>>
Quiet == Unchanged /\ UNCHANGED <<stateVars, report, last>>

\* A lookup without a usable match is published at once and then enriched.
\* The one that only confirms a match also leaves a checkpoint.
Unfound(j, outcome) ==
  LET told == [j EXCEPT !.todo = <<>>, !.hint = outcome,
                        !.lookup = outcome = "failed"] IN
  /\ job' = told /\ pc' = "enrich" /\ report' = Shown(told, outcome)
  /\ UNCHANGED last

Miss == /\ job' = [job EXCEPT !.todo = Tail(@)] /\ UNCHANGED <<pc, report, last>>

Named(e, kind) == [job EXCEPT !.named = Append(@, [edition |-> e, kind |-> kind])]

\* recordVerifiedASINAssociation and recordVerifiedISBNAssociation: which
\* matches are remembered.
Durable(kind) ==
  \/ kind = "mapping"
  \/ kind = "easin" /\ IsEbook
  \/ kind = "isbn" /\ (IsEbook \/ item.ids.asin = "none")
Remember(e, kind) ==
  /\ assoc' = (IF Durable(kind) /\ Saves THEN Association(e, kind) ELSE assoc)
  /\ UNCHANGED <<base, byEdition>>
Confirmed(e) == confirmed' = confirmed \cup {[edition |-> e, ids |-> item.ids]}

\* The first match.  An ebook's ISBN match is looked up again from the start,
\* that of an audiobook without ASIN by the same ISBN, before anything else.
Found(e, kind) ==
  LET j == [Named(e, kind) EXCEPT !.todo = <<>>,
                                  !.match = [edition |-> e, kind |-> kind]] IN
  IF kind = "isbn"
  THEN /\ IF IsEbook
          THEN job' = [j EXCEPT !.todo = Plan, !.pass = 2, !.error = FALSE] /\ pc' = "lookup"
          ELSE job' = j /\ pc' = (IF item.ids.asin = "none" THEN "verify" ELSE "guard")
       /\ UNCHANGED <<stateVars, confirmed>>
  ELSE /\ job' = j /\ pc' = (IF IsEbook THEN "own" ELSE "guard")
       /\ Remember(e, kind) /\ Confirmed(e)

\* Mutant: the second answer is not compared with the first.
Mut_FoundAgain(e, kind) ==
  /\ job' = [Named(e, kind) EXCEPT !.todo = <<>>] /\ pc' = "own"
  /\ Remember(job.match.edition, kind) /\ Confirmed(e)
  /\ UNCHANGED <<report, last>>

\* The second lookup of an ebook: anything but the same edition is a failure.
FoundAgain(e, kind) ==
  IF e = job.match.edition
  THEN /\ job' = [Named(e, kind) EXCEPT !.todo = <<>>] /\ pc' = "own"
       /\ Remember(e, kind) /\ Confirmed(e)
       /\ UNCHANGED <<report, last>>
  ELSE /\ Unfound([Named(e, kind) EXCEPT !.checkpoint = TRUE], "failed")
       /\ UNCHANGED <<stateVars, confirmed>>

Answer(e, kind) ==
  /\ IF job.pass = 2 THEN FoundAgain(e, kind)
     ELSE Found(e, kind) /\ UNCHANGED <<report, last>>
  /\ UNCHANGED <<setVars, remoteVars, disk, listed, reached>>
Nothing(outcome) ==
  Unfound([job EXCEPT !.checkpoint = job.pass = 2], outcome)
    /\ Unchanged /\ UNCHANGED stateVars

\* uniqueASINLookupCandidate
Candidates ==
  IF IsAudio THEN hc.mapping
  ELSE IF item.ids.asin = "valid" THEN hc.easin ELSE {}

LookupASIN ==
  /\ Stage("asin") /\ NoFault
  /\ \/ /\ Candidates = {} /\ Miss /\ Unchanged /\ UNCHANGED stateVars
     \/ \E e \in Editions :
          Candidates = {e} /\ Answer(e, IF IsAudio THEN "mapping" ELSE "easin")
     \/ Cardinality(Candidates) > 1 /\ Nothing("review")

\* One edition is asked for, in no order: any of those with the ISBN.
ISBNAnswers == IF hc.isbn = {} THEN {NoEdition} ELSE hc.isbn

LookupISBN ==
  /\ Stage("isbn") /\ NoFault
  /\ \E e \in ISBNAnswers :
       IF e = NoEdition THEN Miss /\ Unchanged /\ UNCHANGED stateVars
                        ELSE Answer(e, "isbn")

\* The last resort of an audiobook is never remembered: a mapping that appears
\* later is preferred.  Without it, the edition can be imported.
LookupEditionASIN ==
  /\ Stage("easin") /\ NoFault
  /\ \/ \E e \in Editions : hc.easin = {e} /\ ~job.error
          /\ job' = [Named(e, "easin") EXCEPT !.todo = <<>>,
                       !.match = [edition |-> e, kind |-> "fallback"]]
          /\ pc' = "guard" /\ Confirmed(e)
          /\ UNCHANGED <<setVars, remoteVars, stateVars, disk, report, last,
                         listed, reached>>
     \/ hc.easin = {} /\ ~job.error /\ Nothing("review")
     \/ (Cardinality(hc.easin) > 1 \/ job.error) /\ Nothing("failed")

\* The search by title and author: any result will do, the most similar one
\* or else the first is shown.
TitleFound == hc.title

\* classifyBookLookupOutcome: a title is never a match, a person has to decide,
\* and an earlier lookup that failed makes the whole lookup incomplete.
TitleOutcome == IF job.error THEN "failed" ELSE IF TitleFound THEN "review" ELSE "not_found"

LookupTitle == Stage("title") /\ NoFault /\ Nothing(TitleOutcome)

\* A failed lookup is not a miss: an audiobook's ASIN ends there, every other
\* one goes on, but cannot end as not found.
LookupFails ==
  /\ pc = "lookup" /\ Fault
  /\ IF Head(job.todo) \in {"easin", "title"} \/ (IsAudio /\ Head(job.todo) = "asin")
       THEN Nothing("failed")
       ELSE /\ job' = [job EXCEPT !.todo = Tail(@), !.error = TRUE]
            /\ UNCHANGED pc /\ Quiet

\* Mutant: any edition that the ISBN finds now confirms the match.
Mut_VerifyISBN ==
  /\ pc \in {"verify", "verifyLate"} /\ NoFault /\ hc.isbn # {}
  /\ \E e \in hc.isbn : job' = Named(e, "isbn") /\ Confirmed(e)
  /\ pc' = (IF pc = "verify" THEN "guard" ELSE "own")
  /\ IF pc = "verify" THEN Remember(job.match.edition, "isbn") ELSE UNCHANGED stateVars
  /\ UNCHANGED <<setVars, remoteVars, disk, report, last, listed, reached>>

\* verifyAudiobookISBNMatch, at once for an audiobook without ASIN, after the
\* guards for another.
VerifyISBN ==
  /\ pc \in {"verify", "verifyLate"} /\ NoFault
  /\ \E e \in ISBNAnswers :
     IF e = job.match.edition
     THEN /\ job' = Named(e, "isbn")
          /\ pc' = (IF pc = "verify" THEN "guard" ELSE "own")
          /\ IF pc = "verify" THEN Remember(e, "isbn") ELSE UNCHANGED stateVars
          /\ Confirmed(e)
          /\ UNCHANGED <<setVars, remoteVars, disk, report, last, listed, reached>>
     ELSE /\ Unfound([job EXCEPT !.checkpoint = TRUE], "failed")
          /\ Unchanged /\ UNCHANGED stateVars

VerifyFails ==
  /\ pc \in {"verify", "verifyLate"} /\ Fault
  /\ Unfound([job EXCEPT !.checkpoint = TRUE], "failed")
  /\ Unchanged /\ UNCHANGED stateVars

\* Mutant: the checkpoint of the failure is the item's status, not SKIPPED.
Mut_Enrich ==
  /\ pc = "enrich" /\ Finish(job, job.hint)
  /\ IF job.checkpoint /\ Saves
       THEN Checkpoint(job.match.edition, Status) /\ UNCHANGED assoc
       ELSE UNCHANGED stateVars
  /\ Unchanged /\ NoFault

Enrich ==
  /\ pc = "enrich" /\ Finish(job, job.hint)
  /\ IF job.checkpoint /\ Saves
       THEN Checkpoint(job.match.edition, "SKIPPED") /\ UNCHANGED assoc
       ELSE UNCHANGED stateVars
  /\ Unchanged /\ NoFault

----------------------------------------------------------------------------
\* After the match.

UpToDate == /\ Saves /\ byEdition[job.match.edition] # "none"
            /\ byEdition[job.match.edition] = Status
Guard ==
  /\ pc = "guard" /\ NoFault
  /\ IF profile.incremental /\ UpToDate THEN Finish(job, "current")
     ELSE IF item.target = "below" \/ Status = "none" THEN Finish(job, "skipped")
     ELSE /\ pc' = (IF job.match.kind = "isbn" /\ IsAudio /\ item.ids.asin # "none"
                      THEN "verifyLate" ELSE IF job.reconciled THEN "resolve" ELSE "own")
          /\ UNCHANGED <<job, report, last>>
  /\ Unchanged /\ UNCHANGED stateVars

\* reconcileBookOwnership: an ebook before the guards, an audiobook after.
Reconciled(j) == /\ job' = [j EXCEPT !.reconciled = TRUE]
                 /\ pc' = (IF IsEbook THEN "guard" ELSE "resolve")
                 /\ UNCHANGED <<report, last>>
OwnBook(e) == \E f \in Editions : BookOf[f] = BookOf[e] /\ <<account, f>> \in owned

SkipOwnership ==
  /\ pc = "own"
  /\ ~profile.syncOwned \/ OwnershipKnown(job.match.edition)
  /\ Reconciled(job)
  /\ Unchanged /\ UNCHANGED stateVars /\ NoFault

Listed(e) == listed' = listed \cup {<<account, BookOf[e]>>}
CheckOwnership ==
  /\ pc = "own" /\ profile.syncOwned /\ ~OwnershipKnown(job.match.edition)
  /\ LET e == job.match.edition IN
     IF OwnBook(e)
     THEN Reconciled(job) /\ assoc' = OwnershipVerified(e) /\ Listed(e)
     ELSE /\ IF Saves THEN pc' = "mark" /\ UNCHANGED <<job, report, last>>
             ELSE Reconciled(Mark(job, "own", "would"))
          /\ UNCHANGED <<assoc, listed>>
  /\ UNCHANGED <<setVars, remoteVars, base, byEdition, disk, confirmed, reached>>
  /\ NoFault

MarkOwned ==
  /\ pc = "mark" /\ NoFault
  /\ owned' = owned \cup {<<account, job.match.edition>>}
  /\ Reconciled([Mark(job, "own", "synced") EXCEPT !.wrote = @ \cup {"owned"}])
  /\ assoc' = OwnershipVerified(job.match.edition) /\ Listed(job.match.edition)
  /\ UNCHANGED <<setVars, hc, library, base, byEdition, disk, confirmed, reached>>

OwnershipFails ==
  /\ pc \in {"own", "mark"} /\ profile.syncOwned
  /\ pc = "own" => ~OwnershipKnown(job.match.edition)
  /\ Reconciled(Mark(job, "own", "failed"))
  /\ owned' \in {owned} \cup
       IF pc = "mark" THEN {owned \cup {<<account, job.match.edition>>}} ELSE {}
  /\ UNCHANGED <<setVars, hc, library, stateVars, disk, ghostVars>> /\ Fault

\* findOrCreateUserBookIDWithEdition: a book has one user book, whose edition
\* is corrected.
UserBook == library[account][BookOf[job.match.edition]]
ResolveUserBook ==
  /\ pc = "resolve" /\ NoFault
  /\ LET e == job.match.edition
         change == CASE UserBook = e -> "none" [] UserBook = NoEdition -> "create"
                     [] OTHER -> "correct" IN
     /\ e \in hc.alive
     /\ job' = (CASE change = "none" -> job
                  [] change # "none" /\ Saves ->
                       [Mark(job, change, "synced") EXCEPT !.wrote = @ \cup {change}]
                  [] OTHER -> Mark(job, change, "would"))
     /\ library' = (IF Saves THEN [library EXCEPT ![account][BookOf[e]] = e] ELSE library)
  /\ pc' = "write"
  /\ UNCHANGED <<setVars, hc, owned, stateVars, disk, report, last, ghostVars>>

\* The creation reports an error but took effect, so the lookup that follows
\* finds the user book: the sync goes on, and nothing is reported of it.
RecoverUserBook ==
  /\ pc = "resolve" /\ Saves /\ UserBook = NoEdition /\ job.match.edition \in hc.alive
  /\ job' = [job EXCEPT !.wrote = @ \cup {"recovered"}]
  /\ library' = [library EXCEPT ![account][BookOf[job.match.edition]] = job.match.edition]
  /\ pc' = "write"
  /\ UNCHANGED <<setVars, hc, owned, stateVars, disk, report, last, ghostVars>> /\ Fault

\* Mutant: only the edition is cleared from the match.
Mut_Forgotten(e) ==
  IF Saves /\ assoc # NoAssoc /\ assoc.edition = e
    THEN /\ assoc' = [assoc EXCEPT !.edition = NoEdition]
         /\ UNCHANGED <<base, byEdition>>
    ELSE UNCHANGED stateVars

\* forgetConfirmedMissingEdition, once Hardcover says that the edition is gone.
Forgotten(e) ==
  IF Saves /\ assoc # NoAssoc /\ assoc.edition = e
    THEN RemoveAssociation ELSE UNCHANGED stateVars
EditionGone ==
  /\ pc \in {"resolve", "write"} /\ job.match.edition \notin hc.alive
  /\ \/ Forgotten(job.match.edition) /\ NoFault
     \/ UNCHANGED stateVars /\ Fault \* the confirmation failed
  /\ Finish(job, "failed") /\ Unchanged

ResolveFails ==
  /\ pc = "resolve" /\ Finish(Mark(job, "resolve", "failed"), "failed") /\ Fault
  /\ library' \in {library} \cup
       IF Saves THEN {[library EXCEPT ![account][BookOf[job.match.edition]]
                         = job.match.edition]} ELSE {}
  /\ UNCHANGED <<setVars, hc, owned, stateVars, disk, ghostVars>>

\* HandleFinishedBook, handleInProgressBook and the want-to-read branch.
WriteStatus ==
  /\ pc = "write" /\ NoFault
  /\ \E already \in BOOLEAN :
       /\ Finish([job EXCEPT !.wrote = IF already \/ ~Saves THEN @ ELSE @ \cup {"status"}],
                 IF already THEN "current" ELSE IF Saves THEN "synced" ELSE "would")
       /\ reached' = (IF already \/ Saves THEN reached \cup {Status} ELSE reached)
  /\ IF Saves THEN Checkpoint(job.match.edition, Status) /\ UNCHANGED assoc
              ELSE UNCHANGED stateVars
  /\ UNCHANGED <<setVars, remoteVars, disk, confirmed, listed>>

\* The checkpoint of the edition, or else of the item.
Prior == IF byEdition[job.match.edition] # "none" THEN byEdition[job.match.edition] ELSE base

\* The ends that leave no checkpoint: "did not finish" is preserved or the
\* difference is small; a checkpoint is taken for a read that was not answered;
\* only the status or a stale read was written.
LeaveStatus ==
  /\ pc = "write" /\ NoFault
  /\ \E hint \in {"skipped", "current", "synced"} :
       /\ IF hint = "skipped" THEN Status # "WANT_TO_READ"
          ELSE Saves /\ Status = "IN_PROGRESS"
       /\ hint = "current" => Prior = "IN_PROGRESS"
       /\ Finish([job EXCEPT !.wrote = IF hint = "synced" THEN @ \cup {"status"} ELSE @], hint)
  /\ Unchanged /\ UNCHANGED stateVars

\* One of several requests fails.
WriteFails ==
  /\ pc = "write" /\ Fault
  /\ \E partly \in {FALSE, Saves} :
       Finish([job EXCEPT !.wrote = IF partly THEN @ \cup {"status"} ELSE @], "failed")
  /\ Unchanged /\ UNCHANGED stateVars

----------------------------------------------------------------------------
\* Around the sync.

\* The process dies, or the state cannot be saved after the item and the run
\* stops: the next sync loads what the file still says.
Crash ==
  /\ pc # "idle" /\ pc' = "idle" /\ job' = NoJob
  /\ assoc' = disk.assoc /\ base' = disk.base /\ byEdition' = disk.byEdition
  /\ UNCHANGED <<setVars, remoteVars, disk, report, last, ghostVars>> /\ Fault

Change == changes < MaxChanges /\ changes' = changes + 1 /\ UNCHANGED <<edits, faults>>
ChangeCatalogue ==
  /\ Change
  /\ \/ \E s \in SUBSET hc.alive : s # hc.mapping /\ hc' = [hc EXCEPT !.mapping = s]
     \/ \E s \in SUBSET hc.alive : s # hc.easin /\ hc' = [hc EXCEPT !.easin = s]
     \/ \E s \in SUBSET hc.alive : s # hc.isbn /\ hc' = [hc EXCEPT !.isbn = s]
     \/ \E e \in hc.alive :
          hc' = [hc EXCEPT !.alive = @ \ {e}, !.mapping = @ \ {e}, !.easin = @ \ {e},
                           !.isbn = @ \ {e}]
  /\ UNCHANGED <<setVars, owned, library, stateVars, disk, jobVars, ghostVars>>

Edit == edits < MaxEdits /\ edits' = edits + 1 /\ UNCHANGED <<changes, faults>>
EditOwned ==
  /\ Edit /\ \E o \in owned : owned' = owned \ {o}
  /\ UNCHANGED <<setVars, hc, library, stateVars, disk, jobVars, ghostVars>>

EditItem ==
  /\ pc = "idle" /\ Edit
  /\ \E i \in FirstItems \ {item} : item' = i
  /\ UNCHANGED <<profile, account, remoteVars, stateVars, disk, jobVars, ghostVars>>

\* UpdateProfileConfig keeps the state file, whatever the account.
ChangeToken ==
  /\ pc = "idle" /\ Edit
  /\ \E a \in Accounts \ {account} : account' = a
  /\ UNCHANGED <<profile, item, remoteVars, stateVars, disk, jobVars, ghostVars>>

\* The interval of the ownership check passes.
Expire ==
  /\ pc = "idle" /\ assoc # NoAssoc /\ assoc.recent /\ Edit
  /\ assoc' = [assoc EXCEPT !.recent = FALSE]
  /\ UNCHANGED <<setVars, remoteVars, base, byEdition, disk, jobVars, ghostVars>>

\* createEditionWithAssociationAndResync and ForgetEditionAssociation, which
\* exclude a sync of the profile; see EditionCreate.
ToolsSave ==
  /\ pc = "idle" /\ Edit
  /\ \E e \in hc.alive :
       /\ assoc' = Association(e, "tools")
       /\ confirmed' = confirmed \cup {[edition |-> e, ids |-> item.ids]}
  /\ UNCHANGED <<setVars, remoteVars, base, byEdition, disk, jobVars, listed, reached>>

ToolsForget ==
  /\ pc = "idle" /\ assoc # NoAssoc /\ Edit /\ RemoveAssociation
  /\ UNCHANGED <<setVars, remoteVars, disk, jobVars, ghostVars>>

----------------------------------------------------------------------------
Init ==
  /\ profile \in Profiles /\ item \in FirstItems
  /\ account = CHOOSE a \in Accounts : TRUE
  /\ hc \in Catalogues /\ owned = {}
  /\ library = [a \in Accounts |-> [b \in Books |-> NoEdition]]
  /\ assoc = NoAssoc /\ base = "none" /\ byEdition = NoCheckpoints
  /\ disk = StateFile
  /\ pc = "idle" /\ job = NoJob /\ report = Shown(NoJob, "none") /\ last = NoLast
  /\ confirmed = {} /\ listed = {} /\ reached = {}
  /\ changes = 0 /\ edits = 0 /\ faults = 0

Lookup == \/ LookupASIN \/ LookupISBN \/ LookupEditionASIN \/ LookupTitle
          \/ LookupFails \/ VerifyISBN \/ VerifyFails \/ Enrich
Apply == \/ Guard \/ SkipOwnership \/ CheckOwnership \/ MarkOwned \/ OwnershipFails
         \/ ResolveUserBook \/ RecoverUserBook \/ EditionGone \/ ResolveFails
         \/ WriteStatus \/ LeaveStatus \/ WriteFails
Sync == SkipItem \/ Begin \/ Lookup \/ Apply
Around == \/ Crash \/ ChangeCatalogue \/ EditOwned \/ EditItem \/ ChangeToken
          \/ Expire \/ ToolsSave \/ ToolsForget

Next == Sync \/ Around

Spec == Init /\ [][Next]_vars

\* Syncs go on for ever, and every request is answered in the end.
FairSpec == Spec /\ WF_vars(Sync)

----------------------------------------------------------------------------
TypeOK ==
  /\ profile \in Profiles /\ item \in FirstItems /\ account \in Accounts
  /\ hc \in CatalogueSet
  /\ owned \subseteq Accounts \X Editions
  /\ library \in [Accounts -> [Books -> Editions \cup {NoEdition}]]
  /\ assoc \in AssocSet \cup {NoAssoc}
  /\ base \in Statuses /\ byEdition \in [Editions -> Statuses]
  /\ pc \in {"idle", "lookup", "verify", "verifyLate", "enrich", "guard", "own",
             "mark", "resolve", "write"}
  /\ pc \in {"guard", "own", "mark", "resolve", "write", "verify", "verifyLate"}
       => job.match.edition \in Editions
  /\ report.outcome \in Outcomes /\ last.outcome \in Outcomes

\* What names an edition in this sync well enough to write to it: the saved
\* match of the same identifiers, an ASIN, or an ISBN that answered twice.
NamedBy(e) ==
  LET of(kinds) == {i \in DOMAIN job.named : job.named[i].kind \in kinds} IN
  \/ job.match.kind = "saved" /\ Matches(assoc) /\ assoc.edition = e
  \/ \E i \in of({"mapping", "easin"}) : job.named[i].edition = e
  \/ /\ \E i, k \in of({"isbn"}) : i # k
     /\ \A i \in of({"isbn"}) : job.named[i].edition = e

\* Whatever the catalogue does between two requests, Hardcover is changed only
\* for an edition that this sync confirmed for the item's identifiers.
WritesAreConfirmed ==
  [][(owned' \ owned # {} \/ library' # library) => NamedBy(job.match.edition)]_vars

\* A saved match was confirmed for the identifiers it is saved with, and the
\* last resort of an audiobook never is: it would hide the mapping.
SavedMatchesAreConfirmed ==
  assoc # NoAssoc =>
    /\ [edition |-> assoc.edition, ids |-> assoc.ids] \in confirmed
    /\ IsAudio /\ assoc.ids.asin # "none" => assoc.kind \in {"mapping", "tools"}

\* The report tells what happened: a sync that changed Hardcover is no no-op,
\* one with a failed change failed, and a dry run changes nothing.  A creation
\* that was only recovered by a lookup is not reported, and may end as a no-op.
OutcomesAreHonest ==
  /\ last.wrote \ {"recovered"} # {} => last.outcome \in {"synced", "failed"}
  /\ last.failed => last.outcome = "failed"
  /\ profile.dryRun => last.wrote = {} /\ last.outcome # "synced"

\* A check of the Owned list is skipped only for an account that had the book
\* on its list.
OwnershipWasSeen ==
  assoc # NoAssoc /\ assoc.owner # "nobody"
    => <<assoc.owner, BookOf[assoc.edition]>> \in listed

\* An item is called current only when a sync reached its present target in
\* Hardcover: no failed attempt is taken for one.
CurrentIsEarned ==
  [][last'.outcome = "current" /\ last' # last => Status \in reached']_vars

\* An audiobook without a saved match, whose ASIN has a mapping, is matched to
\* it while both stay so, whatever its checkpoint and earlier matches were.
Mappable(e) == /\ IsAudio /\ item.ids.asin = "valid" /\ ~profile.dryRun
               /\ item.target \in {"reading", "finished"} /\ hc.mapping = {e}
MappingIsFound ==
  \A e \in Editions :
    (pc = "idle" /\ assoc = NoAssoc /\ Mappable(e))
      ~> (~Mappable(e) \/ (assoc # NoAssoc /\ (assoc.edition = e \/ assoc.kind = "tools")))
=============================================================================
