--------------------------- MODULE FinishedReads ---------------------------
(***************************************************************************)
(* How a finished book reaches Hardcover without losing reading history.   *)
(*                                                                         *)
(* Setting a user book to FINISHED lets Hardcover overwrite the completion *)
(* dates of existing reads and add a blank read.  HandleFinishedBook       *)
(* (internal/sync/service.go) therefore saves the dates it wants to keep   *)
(* in the sync state file (internal/sync/state/state.go) before it changes *)
(* the status, and restores them afterwards or, after a failure or a stop, *)
(* in a later run.                                                         *)
(*                                                                         *)
(* One Hardcover user book is modelled, with the Audiobookshelf items that *)
(* resolve to it: all finished, dated, and already matched.  Its reads are *)
(* a map from read IDs, handed out in increasing order, to dates.  Every   *)
(* request is one step, which may fail; a mutation may fail after it took  *)
(* effect.  The user edits the same user book at any time.                 *)
(***************************************************************************)
EXTENDS Naturals, FiniteSets, FiniteSetsExt

CONSTANTS Items,         \* Audiobookshelf items of the user book
          MaxReads,      \* bound on the reads ever created
          Dates,         \* completion dates
          Target,        \* the date Audiobookshelf reports
          Today,         \* the date Hardcover sets by itself
          PreserveDNF,   \* sync.preserve_dnf
          Retries,       \* times a request without an answer is sent again
          MaxStops,      \* bound on canceled runs and crashes
          Setups         \* what is checked: the items in the library, whether
                         \* reads may come with the user book, the bounds on
                         \* failing requests and saves and on the user's changes

\* A read without completion date, no read, and a read that a run may overwrite
\* (README): the user changed it while a repair was pending, or added or changed
\* it before a run knew of it; or it is a copy that the run does not know of,
\* of a read whose insertion was sent again.
NoDate == "none"
Absent == "absent"
Free   == "free"
NoItem == "no item"

ASSUME DatesAssumption ==
  /\ {Target, Today} \subseteq Dates
  /\ {NoDate, Absent, Free} \cap Dates = {}
  /\ NoItem \notin Items

ASSUME LimitsAssumption ==
  /\ MaxReads \in Nat /\ Retries \in Nat
  /\ MaxStops \in Nat
  /\ PreserveDNF \in BOOLEAN
  /\ Setups \subseteq [items: SUBSET Items, combined: BOOLEAN, faults: Nat, edits: Nat]

Ids     == 1..MaxReads
DateMap == [Ids -> Dates \cup {NoDate, Absent}]
Nothing == [i \in Ids |-> Absent]

VARIABLES
  \* Hardcover
  reads,    \* read -> its completion date
  blank,    \* reads without any progress
  next,     \* number of reads created so far
  userBook, \* status of the user book; "reading" is any other status
  \* the sync process
  disk,     \* state file: restoration intent, its item, FINISHED checkpoints
  mem,      \* the loaded state, with its dirty flag
  pc,       \* where the run is
  run,      \* what the run keeps for itself
  \* history variables and bounds
  history,  \* read -> the date the user gave it, or the sync inserted it with
  inserted, \* reads the sync inserted
  resent,   \* those of them whose insertion was sent again
  stale,    \* reads whose repair a run undid: it went on with a date that came
            \* with the user book before the repair
  budget    \* faults, stops and edits so far, and the setup

remoteVars == <<reads, blank, next, userBook>>
ghostVars  == <<history, inserted, resent, stale>>
vars == <<remoteVars, disk, mem, pc, run, ghostVars, budget>>

EmptyState == [intent |-> Nothing, owner |-> NoItem, done |-> {}]
NoRun == [item |-> NoItem, left |-> {}, repaired |-> FALSE, seen |-> "reading",
          snapped |-> FALSE, snap |-> Nothing, dates |-> Nothing,
          back |-> "none", todo |-> Nothing, byID |-> Nothing, wrote |-> FALSE]

Present(map)    == {i \in Ids : map[i] # Absent}
Unfinished(map) == {i \in Ids : map[i] = NoDate}
Finished(map)   == {i \in Ids : map[i] \in Dates}

\* A book with at most two reads, and a state file without intent.
Init ==
  /\ \E n \in 0..2, kept \in [1..2 -> Dates \cup {NoDate}] :
       /\ n <= MaxReads /\ next = n
       /\ reads = [i \in Ids |-> IF i <= n THEN kept[i] ELSE Absent]
  /\ blank \in SUBSET Unfinished(reads)
  /\ userBook \in {"reading", "finished"}
  /\ disk = EmptyState
  /\ mem = [intent |-> Nothing, owner |-> NoItem, done |-> {}, dirty |-> FALSE]
  /\ pc = "idle" /\ run = NoRun
  /\ history = reads /\ inserted = {} /\ resent = {} /\ stale = {}
  /\ \E setup \in Setups :
       budget = [faults |-> 0, stops |-> 0, edits |-> 0, setup |-> setup]

Fault == /\ budget.faults < budget.setup.faults
         /\ budget' = [budget EXCEPT !.faults = @ + 1]
NoFault == UNCHANGED budget

---------------------------------------------------------------------------
(* State file                                                              *)

\* Mutant: the intent is kept in memory only.
Mut_Stored(state) ==
  [intent |-> disk.intent, owner |-> disk.owner, done |-> state.done]

\* Save writes a temporary file and renames it.
Stored(state) ==
  [intent |-> state.intent, owner |-> state.owner, done |-> state.done]

SaveOK(state) == /\ disk' = Stored(state)
                 /\ mem' = [state EXCEPT !.dirty = FALSE]
                 /\ NoFault

\* A failed save leaves the old file, or the new one when only the flush of
\* its directory failed.
SaveFails(state) == /\ disk' \in {disk, Stored(state)}
                    /\ mem' = state
                    /\ Fault

Cleared(state) ==
  IF state.intent = Nothing THEN state
  ELSE [state EXCEPT !.intent = Nothing, !.owner = NoItem, !.dirty = TRUE]

\* UpdateBook: a checkpoint that is already there does not make it dirty.
Checkpointed(state, item) ==
  [state EXCEPT !.done = @ \cup {item}, !.dirty = @ \/ item \notin state.done]

---------------------------------------------------------------------------
(* A run: Sync and processLibraryItems                                     *)

Goto(where) == pc' = where

\* The sidecar lock is taken, the state file loaded.
BeginRun ==
  /\ pc = "idle"
  /\ Goto("item")
  /\ mem' = [intent |-> disk.intent, owner |-> disk.owner, done |-> disk.done,
             dirty |-> FALSE]
  /\ run' = [NoRun EXCEPT !.left = budget.setup.items]
  /\ NoFault /\ UNCHANGED <<remoteVars, disk, ghostVars>>

\* Pending dates of the item are repaired before anything else.
NextItem(item) ==
  LET pending == mem.intent # Nothing /\ mem.owner = item IN
  /\ pc = "item" /\ item \in run.left
  /\ run' = [NoRun EXCEPT !.item = item, !.left = run.left \ {item},
                          !.repaired = pending]
  /\ Goto(IF pending THEN "recover" ELSE "guard")
  /\ NoFault /\ UNCHANGED <<remoteVars, disk, mem, ghostVars>>

\* The library of the item cannot be read in this run.
MissItem(item) ==
  /\ pc = "item" /\ item \in run.left
  /\ run' = [run EXCEPT !.left = @ \ {item}]
  /\ Fault /\ UNCHANGED <<remoteVars, disk, mem, pc, ghostVars>>

EndRun ==
  /\ mem' = [intent |-> Nothing, owner |-> NoItem, done |-> {}, dirty |-> FALSE]
  /\ run' = NoRun /\ Goto("idle")

\* The final save.
FinishRun ==
  /\ pc = "item" /\ run.left = {}
  /\ EndRun
  /\ \/ disk' = Stored(mem) /\ NoFault
     \/ disk' \in {disk, Stored(mem)} /\ Fault
  /\ UNCHANGED <<remoteVars, ghostVars>>

\* checkpointState after the item, whatever became of it.
Checkpoint ==
  /\ pc = "checkpoint"
  /\ IF mem.dirty THEN SaveOK(mem) ELSE NoFault /\ UNCHANGED <<disk, mem>>
  /\ run' = [NoRun EXCEPT !.left = run.left]
  /\ Goto("item")
  /\ UNCHANGED <<remoteVars, ghostVars>>

\* A checkpoint that cannot be saved ends the run.
CheckpointFails ==
  /\ pc = "checkpoint" /\ mem.dirty
  /\ disk' \in {disk, Stored(mem)} /\ Fault
  /\ EndRun
  /\ UNCHANGED <<remoteVars, ghostVars>>

\* The run is canceled between two steps, or the process dies.
Stop ==
  /\ pc # "idle" /\ budget.stops < MaxStops
  /\ budget' = [budget EXCEPT !.stops = @ + 1]
  /\ EndRun
  /\ UNCHANGED <<remoteVars, disk, ghostVars>>

\* The item fails or is skipped.
Leave == Goto("checkpoint") /\ UNCHANGED run

RequestFails ==
  /\ \/ pc \in {"recover", "find", "handle", "repair", "load", "confirm", "verify"}
     \/ (pc = "reads" /\ ~run.snapped)
  /\ Leave /\ Fault
  /\ UNCHANGED <<remoteVars, disk, mem, ghostVars>>

---------------------------------------------------------------------------
(* Recovery of an earlier run: recoverFinishedReadDates, called for the    *)
(* item ("recover") and for the user book by HandleFinishedBook ("repair") *)

AfterRecovery == IF pc = "recover" THEN "guard" ELSE "reads"
KeepsDNF(status) == PreserveDNF /\ status = "dnf"

\* discardDeletedUserBookRestoration
RecoverGone ==
  /\ pc \in {"recover", "repair"} /\ userBook = "deleted"
  /\ mem' = Cleared(mem)
  /\ Goto(AfterRecovery)
  /\ NoFault /\ UNCHANGED <<remoteVars, disk, run, ghostVars>>

\* The intent stays for the run that finds the book no longer DNF.
RecoverDeferred ==
  /\ pc \in {"recover", "repair"} /\ KeepsDNF(userBook)
  /\ Leave /\ NoFault /\ UNCHANGED <<remoteVars, disk, mem, ghostVars>>

RecoverStarts ==
  /\ pc \in {"recover", "repair"}
  /\ userBook # "deleted" /\ ~KeepsDNF(userBook)
  /\ run' = [run EXCEPT !.dates = mem.intent, !.back = AfterRecovery]
  /\ Goto("load")
  /\ NoFault /\ UNCHANGED <<remoteVars, disk, mem, ghostVars>>

---------------------------------------------------------------------------
(* processBook up to HandleFinishedBook                                    *)

\* The incremental guard.  It is passed over in a full sync, for items whose
\* match is resolved again, and after a repair.
SkipCurrent ==
  /\ pc = "guard" /\ ~run.repaired /\ run.item \in mem.done
  /\ Leave /\ NoFault /\ UNCHANGED <<remoteVars, disk, mem, ghostVars>>

PassGuard ==
  /\ pc = "guard"
  /\ Goto("find")
  /\ NoFault /\ UNCHANGED <<remoteVars, disk, mem, run, ghostVars>>

\* findOrCreateUserBookIDWithEdition: the status is kept for this item, and
\* the reads too when they came along and the edition needs no correction.
FindUserBook ==
  /\ pc = "find" /\ userBook # "deleted"
  /\ \E snapped \in {FALSE, budget.setup.combined} :
       run' = [run EXCEPT !.seen = userBook, !.snapped = snapped,
                          !.snap = IF snapped THEN reads ELSE Nothing]
  /\ Goto("handle")
  /\ NoFault /\ UNCHANGED <<remoteVars, disk, mem, ghostVars>>

\* A new user book is created, whose history is another one.
FindAnother ==
  /\ pc = "find" /\ userBook = "deleted"
  /\ Leave /\ NoFault /\ UNCHANGED <<remoteVars, disk, mem, ghostVars>>

---------------------------------------------------------------------------
(* HandleFinishedBook                                                      *)

PendingDates == mem.intent # Nothing

\* With pending dates the status is requested again.
StatusNow == IF PendingDates THEN userBook ELSE run.seen

HandleGone ==
  /\ pc = "handle" /\ PendingDates /\ userBook = "deleted"
  /\ mem' = Cleared(mem)
  /\ Leave /\ NoFault /\ UNCHANGED <<remoteVars, disk, ghostVars>>

HandleDNF ==
  /\ pc = "handle" /\ KeepsDNF(StatusNow)
  /\ Leave /\ NoFault /\ UNCHANGED <<remoteVars, disk, mem, ghostVars>>

\* Mutant: dates of another item's earlier mutation are left alone.
Mut_HandleStarts ==
  /\ pc = "handle"
  /\ StatusNow # "deleted" /\ ~KeepsDNF(StatusNow)
  /\ run' = [run EXCEPT !.seen = StatusNow]
  /\ Goto("reads")
  /\ NoFault /\ UNCHANGED <<remoteVars, disk, mem, ghostVars>>

\* Dates of another item's earlier mutation are repaired first.
HandleStarts ==
  /\ pc = "handle"
  /\ StatusNow # "deleted" /\ ~KeepsDNF(StatusNow)
  /\ run' = [run EXCEPT !.seen = StatusNow]
  /\ Goto(IF PendingDates THEN "repair" ELSE "reads")
  /\ NoFault /\ UNCHANGED <<remoteVars, disk, mem, ghostVars>>

\* The success of an item is its FINISHED checkpoint.
Succeed == mem' = Checkpointed(mem, run.item) /\ Goto("checkpoint")

\* Mutant: a read is inserted next to the finished ones.
Mut_NeedsInsert(seen) == Unfinished(seen) = {}

NeedsInsert(seen) == Unfinished(seen) = {} /\ Finished(seen) = {}

\* Without a status to filter by, GetUserBookReads answers every read, finished
\* or not; a user book that is gone has none.
UserBookReads == [i \in Ids |-> IF userBook = "deleted" THEN Absent ELSE reads[i]]

\* The date a read may have: the one it was given or, for an unfinished read,
\* the one it is closed with.
Owed(i, date) ==
  \/ history[i] \in {Absent, Free, date}
  \/ history[i] = NoDate /\ date = Target

\* The reads that came with the user book before the run repaired its dates.
Undone == IF run.snapped /\ run.back = "reads"
            THEN {i \in Present(run.snap) : ~Owed(i, run.snap[i])} ELSE {}

\* getUserBookReads prefers the copy that came with the user book, also after a
\* repair.  The newest unfinished read is closed; without any read one is
\* inserted; a book with finished reads only needs its status.
ReadsLoaded ==
  LET seen == IF run.snapped THEN run.snap ELSE UserBookReads IN
  /\ pc = "reads"
  /\ run' = [run EXCEPT !.dates = seen, !.snapped = FALSE, !.snap = Nothing]
  /\ stale' = stale \cup Undone
  /\ \/ Unfinished(seen) # {} /\ Goto("close") /\ UNCHANGED mem
     \/ NeedsInsert(seen) /\ Goto("insert") /\ UNCHANGED mem
     \/ /\ Unfinished(seen) = {} /\ Finished(seen) # {}
        /\ IF run.seen = "finished" THEN Succeed
                                    ELSE Goto("intend") /\ UNCHANGED mem
  /\ NoFault /\ UNCHANGED <<remoteVars, disk, history, inserted, resent>>

SetDate(i, date) == reads' = [reads EXCEPT ![i] = date]

\* The date is in the request even when it is none: that reopens the read.  A
\* read that is gone is an error, an answer without a read is a success.
UpdateUserBookRead(i, date) == reads[i] # Absent /\ SetDate(i, date)

\* The closed read gets the date of Audiobookshelf.
CloseRead ==
  LET i == Max(Unfinished(run.dates)) IN
  /\ pc = "close"
  /\ IF reads[i] = Absent
       THEN Leave /\ NoFault /\ UNCHANGED <<remoteVars, ghostVars>>
       ELSE /\ UpdateUserBookRead(i, Target)
            /\ blank' = blank \ {i}
            /\ UNCHANGED <<next, userBook, ghostVars>>
            /\ \/ /\ run' = [run EXCEPT !.dates[i] = Target]
                  /\ Goto("intend") /\ NoFault
               \/ Leave /\ Fault
  /\ UNCHANGED <<disk, mem>>

\* InsertUserBookRead.  executeGraphQLOperation sends it again when the answer
\* is lost, so one call may insert several reads; it returns the last, which is
\* the one the run then knows of.
Insert(copies, known) ==
  LET new == (next + 1)..(next + copies) IN
  /\ next + copies <= MaxReads
  /\ reads' = [i \in Ids |-> IF i \in new THEN Target ELSE reads[i]]
  /\ history' = [i \in Ids |-> IF i \notin new THEN history[i]
                               ELSE IF known /\ i # next + copies THEN Free
                               ELSE Target]
  /\ next' = next + copies
  /\ inserted' = inserted \cup new
  /\ resent' = resent \cup (new \ {next + copies})
  /\ UNCHANGED <<blank, userBook, stale>>

InsertRead ==
  /\ pc = "insert"
  /\ IF userBook = "deleted"
       THEN Leave /\ NoFault /\ UNCHANGED <<remoteVars, ghostVars>>
       ELSE \E copies \in 1..(1 + Retries) :
              \/ /\ Insert(copies, TRUE)
                 /\ run' = [run EXCEPT !.dates[next + copies] = Target]
                 /\ Goto("intend")
                 /\ IF copies > 1 THEN Fault ELSE NoFault
              \/ Insert(copies, FALSE) /\ Leave /\ Fault
  /\ UNCHANGED <<disk, mem>>

\* The request never arrives.
MutationFails ==
  /\ pc \in {"close", "insert", "status", "write"}
  /\ Leave /\ Fault
  /\ UNCHANGED <<remoteVars, disk, mem, ghostVars>>

\* The intended dates are saved; without them the status is left alone.
Intended ==
  [mem EXCEPT !.intent = run.dates, !.owner = run.item, !.dirty = TRUE]

Intend ==
  /\ pc = "intend"
  /\ SaveOK(Intended) /\ Goto("status")
  /\ UNCHANGED <<remoteVars, run, ghostVars>>

IntendFails ==
  /\ pc = "intend"
  /\ SaveFails(Intended) /\ Leave
  /\ UNCHANGED <<remoteVars, ghostVars>>

\* What the transition to FINISHED may do to the reads.
Transition ==
  /\ userBook' = "finished"
  /\ \E hit \in SUBSET Present(reads), adds \in BOOLEAN :
       /\ adds => next < MaxReads - 1
       /\ reads' = [i \in Ids |-> IF i \in hit THEN Today
                                  ELSE IF adds /\ i = next + 1 THEN NoDate
                                  ELSE reads[i]]
       /\ blank' = IF adds THEN blank \cup {next + 1} ELSE blank
       /\ next' = IF adds THEN next + 1 ELSE next

\* A user book that is gone is an error.
UpdateUserBookStatus == userBook # "deleted" /\ Transition

SetFinished ==
  /\ pc = "status"
  /\ IF userBook = "deleted"
       THEN Leave /\ NoFault /\ UNCHANGED remoteVars
       ELSE /\ UpdateUserBookStatus
            /\ \/ /\ run' = [run EXCEPT !.back = "clean"]
                  /\ Goto("load") /\ NoFault
               \/ Leave /\ Fault
  /\ UNCHANGED <<disk, mem, ghostVars>>

\* Mutant: every blank read is taken for one Hardcover added.
Mut_AutoCreated == {i \in blank : reads[i] = NoDate}

\* deleteBlankReads: blank reads that were not there before the transition.
AutoCreated == {i \in blank : reads[i] = NoDate /\ run.dates[i] = Absent}

\* DeleteUserBookRead: a read that is gone already is no error.
DeleteReads(gone) == /\ reads' = [i \in Ids |-> IF i \in gone THEN Absent ELSE reads[i]]
                     /\ blank' = blank \ gone

\* Blank reads are removed where that succeeds; the item is done either way.
CleanReads ==
  /\ pc = "clean"
  /\ \E kept \in SUBSET AutoCreated :
       /\ DeleteReads(AutoCreated \ kept)
       /\ IF kept = {} THEN NoFault ELSE Fault
  /\ Succeed
  /\ UNCHANGED <<next, userBook, disk, run, ghostVars>>

---------------------------------------------------------------------------
(* restoreFinishedReadDates                                                *)

Missing == {i \in Present(run.todo) : UserBookReads[i] = Absent}

LoadReads ==
  /\ pc = "load"
  /\ run' = [run EXCEPT !.todo = run.dates, !.byID = UserBookReads, !.wrote = FALSE]
  /\ Goto(IF \E i \in Present(run.dates) : UserBookReads[i] = Absent
            THEN "confirm" ELSE "write")
  /\ NoFault /\ UNCHANGED <<remoteVars, disk, mem, ghostVars>>

\* Mutant: a read that is gone fails the repair, now and in every later run.
Mut_ConfirmMissing ==
  /\ pc = "confirm"
  /\ Leave /\ NoFault /\ UNCHANGED <<remoteVars, disk, mem, ghostVars>>

\* Reads absent from two queries were deleted by the user and are skipped.
ConfirmMissing ==
  /\ pc = "confirm"
  /\ IF \E i \in Missing : run.byID[i] # Absent
       THEN Leave
       ELSE /\ run' = [run EXCEPT !.byID = UserBookReads,
                         !.todo = [i \in Ids |-> IF i \in Missing THEN Absent
                                                                  ELSE @[i]]]
            /\ Goto("write")
  /\ NoFault /\ UNCHANGED <<remoteVars, disk, mem, ghostVars>>

ToWrite == {i \in Present(run.todo) : run.byID[i] # run.todo[i]}

\* An update may be acknowledged and have no effect, which Verify is for.
WriteDate(i) ==
  LET Written == /\ run' = [run EXCEPT !.byID[i] = run.todo[i], !.wrote = TRUE]
                 /\ UNCHANGED pc IN
  /\ pc = "write" /\ i \in ToWrite
  /\ \/ reads[i] = Absent /\ Leave /\ NoFault /\ UNCHANGED reads
     \/ /\ reads[i] # Absent
        /\ \/ UpdateUserBookRead(i, run.todo[i]) /\ Written /\ NoFault
           \/ UpdateUserBookRead(i, run.todo[i]) /\ Leave /\ Fault
           \/ UNCHANGED reads /\ Written /\ Fault
  /\ UNCHANGED <<blank, next, userBook, disk, mem, ghostVars>>

\* The intent is cleared in memory; deleteBlankReads still needs its dates.
Restored ==
  /\ mem' = Cleared(mem)
  /\ run' = IF run.back = "clean"
              THEN [run EXCEPT !.todo = Nothing, !.byID = Nothing, !.wrote = FALSE]
              ELSE [run EXCEPT !.todo = Nothing, !.byID = Nothing, !.wrote = FALSE,
                               !.dates = Nothing]
  /\ Goto(run.back)

\* The read-back already agreed.
NothingToWrite ==
  /\ pc = "write" /\ ToWrite = {} /\ ~run.wrote
  /\ Restored
  /\ NoFault /\ UNCHANGED <<remoteVars, disk, ghostVars>>

WritesDone ==
  /\ pc = "write" /\ ToWrite = {} /\ run.wrote
  /\ Goto("verify")
  /\ NoFault /\ UNCHANGED <<remoteVars, disk, mem, run, ghostVars>>

Verify ==
  /\ pc = "verify"
  /\ IF \A i \in Present(run.todo) : UserBookReads[i] = run.todo[i]
       THEN Restored ELSE Leave /\ UNCHANGED mem
  /\ NoFault /\ UNCHANGED <<remoteVars, disk, ghostVars>>

---------------------------------------------------------------------------
(* The user                                                                *)

\* A date that a pending repair or a run in progress already holds, or that of
\* a read that was added in the run, without its knowledge.
Held(i) ==
  \/ mem.intent[i] # Absent \/ disk.intent[i] # Absent
  \/ run.dates[i] # Absent \/ run.snap[i] # Absent
  \/ pc # "idle" /\ history[i] \in {Absent, Free}

UserActs == /\ budget.edits < budget.setup.edits
            /\ budget' = [budget EXCEPT !.edits = @ + 1]
            /\ userBook # "deleted"
            /\ UNCHANGED <<disk, mem, pc, run, inserted, resent, stale>>

UserEditsDate(i, date) ==
  /\ UserActs /\ reads[i] \notin {Absent, date}
  /\ SetDate(i, date)
  /\ history' = [history EXCEPT ![i] = IF Held(i) THEN Free ELSE date]
  /\ UNCHANGED <<blank, next, userBook>>

UserDeletesRead(i) ==
  /\ UserActs /\ reads[i] # Absent
  /\ SetDate(i, Absent)
  /\ blank' = blank \ {i}
  /\ history' = [history EXCEPT ![i] = Absent]
  /\ UNCHANGED <<next, userBook>>

\* A new reread.  A run that is in progress does not know of it.
UserStartsRead(isBlank) ==
  /\ UserActs /\ next < MaxReads - 1
  /\ next' = next + 1
  /\ SetDate(next + 1, NoDate)
  /\ blank' = IF isBlank THEN blank \cup {next + 1} ELSE blank
  /\ history' = [history EXCEPT ![next + 1] = IF pc = "idle" THEN NoDate ELSE Free]
  /\ UNCHANGED userBook

UserSetsStatus(status) ==
  /\ UserActs /\ userBook # status
  /\ userBook' = status
  /\ UNCHANGED <<reads, blank, next, history>>

UserDeletesBook ==
  /\ UserActs
  /\ userBook' = "deleted"
  /\ reads' = Nothing /\ blank' = {} /\ history' = Nothing
  /\ UNCHANGED next

User ==
  \/ \E i \in Ids, date \in Dates \cup {NoDate} : UserEditsDate(i, date)
  \/ \E i \in Ids : UserDeletesRead(i)
  \/ \E isBlank \in BOOLEAN : UserStartsRead(isBlank)
  \/ \E status \in {"reading", "finished", "dnf"} : UserSetsStatus(status)
  \/ UserDeletesBook

---------------------------------------------------------------------------
(* Specification                                                           *)

Recover == RecoverGone \/ RecoverDeferred \/ RecoverStarts
Restore ==
  \/ LoadReads \/ ConfirmMissing \/ (\E i \in Ids : WriteDate(i))
  \/ NothingToWrite \/ WritesDone \/ Verify
HandleFinishedBook ==
  \/ HandleGone \/ HandleDNF \/ HandleStarts \/ ReadsLoaded
  \/ CloseRead \/ InsertRead \/ Intend \/ IntendFails
  \/ SetFinished \/ CleanReads

\* One step of the sync process.
Sync ==
  \/ BeginRun \/ (\E item \in Items : NextItem(item) \/ MissItem(item))
  \/ FinishRun \/ Checkpoint \/ CheckpointFails
  \/ RequestFails \/ MutationFails
  \/ Recover \/ SkipCurrent \/ PassGuard \/ FindUserBook \/ FindAnother
  \/ HandleFinishedBook \/ Restore

Next == Sync \/ Stop \/ User

Spec == Init /\ [][Next]_vars

\* Runs repeat (sync_interval), and a run goes on while it is not stopped.
FairSpec == Spec /\ WF_vars(Sync)

---------------------------------------------------------------------------
(* Properties                                                              *)

Runs == [item: Items \cup {NoItem}, left: SUBSET Items, repaired: BOOLEAN,
         seen: {"reading", "finished", "dnf", "deleted"},
         snapped: BOOLEAN, snap: DateMap, dates: DateMap,
         back: {"none", "guard", "reads", "clean"},
         todo: DateMap, byID: DateMap, wrote: BOOLEAN]

\* The type of every variable.
TypeOK ==
  /\ reads \in DateMap
  /\ blank \subseteq Ids
  /\ next \in 0..MaxReads
  /\ userBook \in {"reading", "finished", "dnf", "deleted"}
  /\ disk \in [intent: DateMap, owner: Items \cup {NoItem}, done: SUBSET Items]
  /\ mem \in [intent: DateMap, owner: Items \cup {NoItem}, done: SUBSET Items,
              dirty: BOOLEAN]
  /\ pc \in {"idle", "item", "recover", "guard", "find", "handle", "repair",
             "reads", "close", "insert", "intend", "status", "load", "confirm",
             "write", "verify", "clean", "checkpoint"}
  /\ run \in Runs
  /\ history \in [Ids -> Dates \cup {NoDate, Absent, Free}]
  /\ inserted \subseteq Ids /\ resent \subseteq Ids /\ stale \subseteq Ids
  /\ budget \in [faults: 0..budget.setup.faults, stops: 0..MaxStops,
                 edits: 0..budget.setup.edits, setup: Setups]

\* Nothing more is promised of a read whose repair was undone.
Rightful(i, date) == i \in stale \/ Owed(i, date)

DateKept(i) == reads[i] = Absent \/ Rightful(i, reads[i])

\* README.md:475, "preserve historical finish dates and reread history.
\* Failed date repairs retry after a restart": wherever the process stops, a
\* wrong date is covered by the state file, but for a read whose repair was
\* undone by a run that went on with reads from before it (DatesPreserved).
DatesCovered ==
  \A i \in Ids :
    DateKept(i) \/ (disk.intent[i] # Absent /\ Rightful(i, disk.intent[i]))

\* The same promise without that exception.
DatesPreserved ==
  \A i \in Present(reads) :
    \/ Owed(i, reads[i])
    \/ disk.intent[i] # Absent /\ Owed(i, disk.intent[i])

\* An item gets its FINISHED checkpoint only when every date is right: the
\* checkpoint stops the incremental sync from looking at the book again.  Undone
\* repairs are the exception here, too.
CheckpointAfterRepair ==
  [][(pc # "idle" /\ ~(mem'.done \subseteq mem.done))
       => \A i \in Ids : DateKept(i)']_vars

\* The sync never deletes a read the user had before the run, blank or not.
UserReadsKept ==
  [][\A i \in Ids :
       (reads[i] # Absent /\ history[i] \notin {Absent, Free}
          /\ reads'[i] = Absent)
         => budget'.edits # budget.edits]_vars

\* CHANGELOG.md:168, "Duplicate Read Prevention": finishing a book inserts
\* one read, however many runs and failures it takes.  The copies that the
\* client makes when it sends a mutation again whose answer was lost are the
\* exception: each adds a read, and no run takes it back.
OneReadInserted == Cardinality({i \in inserted \ resent : reads[i] # Absent}) <= 1

\* README.md:475-476: repairs retry after a restart, and deleted books or
\* reads "do not block future syncs".  Only a preserved DNF defers a repair.
RepairsEnd ==
  disk.intent # Nothing ~> (disk.intent = Nothing \/ userBook = "dnf")
=============================================================================
