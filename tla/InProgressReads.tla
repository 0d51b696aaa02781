-------------------------- MODULE InProgressReads --------------------------
(***************************************************************************)
(* How listening progress reaches Hardcover: one audiobook that is being   *)
(* listened to, its Hardcover user book with the reads recorded for it,    *)
(* and the local checkpoint that lets an incremental run skip the book.    *)
(*                                                                         *)
(* A job is one pass of processBook over the book, from the incremental    *)
(* guards through findOrCreateUserBookIDWithEdition to                     *)
(* handleInProgressBook and the checkpoint (internal/sync/service.go,      *)
(* sync_book.go, cache.go, state/state.go).  Each request is one step,     *)
(* which may fail or be sent again.  The listener goes on listening, the   *)
(* user edits the same user book in Hardcover, and the day changes between *)
(* any two steps.                                                          *)
(*                                                                         *)
(* Positions are in thousandths of the duration: of a book of 20 000       *)
(* seconds, a unit is 20 seconds and a minute is 3 units.  Days are        *)
(* numbers; day 0 lies more than 120 days back, the others less than 30.   *)
(***************************************************************************)
EXTENDS Integers, FiniteSets, FiniteSetsExt

CONSTANTS Positions,  \* where the listener may be
          FirstPosition, \* where the listener is at first
          Minute,     \* 60 seconds
          Configs,    \* settings to check, see Settings
          MaxDay,     \* last day
          Retries,    \* times a request without an answer is sent again
          MaxReads,   \* bound on the reads ever created
          MaxListens, \* bound on the listener's moves
          MaxEdits,   \* bound on the user's edits in Hardcover
          MaxFaults,  \* bound on failing requests, wrong answers and stops
          MaxEvents   \* bound on all of these and the changes of the day

Duration == 1000
Percent  == 10
Settings == [incremental : BOOLEAN, \* sync.incremental
             early       : BOOLEAN, \* the guard before the lookup applies
             preserveDNF : BOOLEAN] \* sync.preserve_dnf

ASSUME InProgressAssumption ==
  /\ Positions \subseteq 1..(Duration - 1) /\ FirstPosition \in Positions
  /\ Minute \in 1..Duration
  /\ Configs \subseteq Settings
  /\ {Retries, MaxDay, MaxReads, MaxListens, MaxEdits, MaxFaults, MaxEvents}
       \subseteq Nat
  /\ MaxDay > 0 /\ MaxReads > 0

VARIABLES
  abs,    \* Audiobookshelf: position, day of the start, and whether that
          \* start is later than the checkpoint
  today,
  config,
  \* Hardcover
  book,   \* the user book
  reads,  \* its reads
  made,   \* number of reads created so far
  \* files of the sync
  entry,  \* the book's checkpoint in the state file
  cache,  \* the user book in the persistent cache, for six hours
  \* the process
  pc, job,
  \* history variables and bounds
  drifted, \* Hardcover changed, and no checkpoint followed
  ckpt,   \* the position the last checkpoint was taken at
  missed, \* why reads were inserted beside others the answer hid, see Excuse
  resent, \* reads of an insertion sent again, and those inserted beside them
  recent, \* reads the sync inserted, knowing the others, since the last edit
  budget  \* moves, edits and faults so far

absVars   == <<abs, today, config>>
remote    == <<book, reads, made>>
ghostVars == <<drifted, ckpt, missed, resent, recent>>
vars == <<absVars, remote, entry, cache, pc, job, ghostVars, budget>>

NoDay      == -1
NoProgress == -1
NoBook  == [status |-> "none", edition |-> "none"]
NoEntry == [prog |-> 0, status |-> "none", fresh |-> FALSE]
NoRead  == [id |-> 0, edition |-> "nil", started |-> NoDay, finished |-> NoDay,
            seconds |-> NoProgress, by |-> "user"]
NoJob   == [pos |-> 0, start |-> NoDay, ub |-> NoBook, cache |-> NoBook,
            snapped |-> FALSE, reads |-> {}, read |-> NoRead,
            save |-> FALSE, raced |-> FALSE, blind |-> FALSE]

Dist(a, b) == IF a > b THEN a - b ELSE b - a

\* The book was begun long ago.  It is new to Hardcover, or on a shelf, perhaps
\* as another edition, or was finished today and taken up again, with or without
\* a checkpoint.
Init ==
  /\ abs = [pos |-> FirstPosition, start |-> 0, later |-> FALSE]
  /\ today = 1 /\ config \in Configs
  /\ \/ book = NoBook /\ reads = {} /\ entry = NoEntry
     \/ /\ book \in [status : {"want"}, edition : {"target", "other"}]
        /\ reads = {} /\ entry = NoEntry
     \/ /\ book = [status |-> "read", edition |-> "target"]
        /\ reads = {[NoRead EXCEPT !.id = 1, !.edition = "target", !.started = 0,
                                   !.finished = 1]}
        /\ entry \in {NoEntry, [prog |-> Duration, status |-> "FINISHED", fresh |-> FALSE]}
  /\ made = Cardinality(reads)
  /\ cache = NoBook /\ pc = "idle" /\ job = NoJob
  /\ drifted = FALSE /\ ckpt = 0 /\ missed = {} /\ resent = {} /\ recent = {}
  /\ budget = [listens |-> 0, edits |-> 0, faults |-> 0]

Events == budget.listens + budget.edits + budget.faults + today - 1

Faults(n) == /\ budget.faults + n <= MaxFaults /\ Events + n <= MaxEvents
             /\ budget' = [budget EXCEPT !.faults = @ + n]
Count(fault) == IF fault THEN 1 ELSE 0
NoFault == UNCHANGED budget

Goto(where) == pc' = where /\ UNCHANGED cache

\* The cache is written when a run ends, however the book fared.
Leave(cached) == pc' = "idle" /\ job' = NoJob /\ cache' = cached

\* An answer arrives, or is lost after the request took effect.
Answered(next) == (next /\ NoFault) \/ (Leave(job.cache) /\ Faults(1))

---------------------------------------------------------------------------
(* The checkpoint: UpdateBook and the incremental guards                   *)

\* Mutant: the percentage is never normalized.
Mut_Stored(pos) == 100 * pos

\* UpdateBook is given a percentage and takes a value up to 1 for a fraction.
Stored(pos) == IF pos > Percent THEN pos ELSE 100 * pos

Updated(pos) ==
  IF entry.status = "IN_PROGRESS" /\ entry.prog = Stored(pos) THEN entry
  ELSE [prog |-> Stored(pos), status |-> "IN_PROGRESS", fresh |-> TRUE]

\* Mutant: only the start of the read is compared.
Mut_UpToDate == config.incremental /\ entry.status = "IN_PROGRESS" /\ ~abs.later

\* NeedsSync asks before the lookup, for books with a saved match; a second
\* guard follows the match.
UpToDate ==
  /\ config.incremental /\ entry.status = "IN_PROGRESS"
  /\ \/ config.early /\ Dist(abs.pos, entry.prog) < Minute
     \/ Dist(abs.pos, entry.prog) <= Percent /\ ~abs.later

Begin ==
  /\ pc = "idle" /\ ~UpToDate
  /\ Goto("find")
  /\ job' = [NoJob EXCEPT !.pos = abs.pos, !.start = abs.start, !.cache = cache]
  /\ NoFault /\ UNCHANGED <<absVars, remote, entry, ghostVars>>

---------------------------------------------------------------------------
(* handleInProgressBook: which read to write, if any                       *)

Unfinished(read) == read.finished = NoDay
Progress(read)   == IF read.seconds = NoProgress THEN 0 ELSE read.seconds

\* The read with the most progress, the first of them in case of a tie.
Furthest(set) ==
  CHOOSE r \in set : \A o \in set : \/ Progress(o) < Progress(r)
                                    \/ Progress(o) = Progress(r) /\ r.id <= o.id

\* readMatchesTargetEdition, for any edition.
OpenOf(set, e) == {r \in set : Unfinished(r) /\ r.edition = e}

\* selectReadStatuses: an unfinished read of the edition, else one without
\* edition, else one of the user book's edition.
Selected(set, ub) ==
  LET of(e) == OpenOf(set, e) IN
     IF of("target") # {} THEN Furthest(of("target"))
     ELSE IF of("nil") # {} THEN Furthest(of("nil"))
     ELSE IF of(ub.edition) # {} THEN Furthest(of(ub.edition))
     ELSE NoRead

FinishedTargets(set) == {r \in set : ~Unfinished(r) /\ r.edition = "target"}
Latest(set) == IF set = {} THEN NoDay ELSE Max({r.finished : r \in set})

\* findStaleRereadDate ignores a read without progress closed this very day.
LatestFinish(set) ==
  Latest({r \in FinishedTargets(set) :
            ~(Progress(r) = 0 /\ r.started = r.finished /\ r.finished = today)})

\* Mutant: a read that started on the day of the finish is stale too.
Mut_Stale(read, set) == read.started # NoDay /\ read.started <= LatestFinish(set)

\* An unfinished read that started before the book was last finished.
Stale(read, set) == read.started # NoDay /\ read.started < LatestFinish(set)

\* 10 seconds within the first minute, else a minute.
MinDiff(pos, shown) == IF pos < Minute \/ shown < Minute THEN 1 ELSE Minute

\* Nothing shown forces an update, whatever the difference.
Near(pos, shown) == shown > 0 /\ Dist(pos, shown) < MinDiff(pos, shown)

\* What a job still needs then.
Settled(next) ==
  [NoJob EXCEPT !.pos = next.pos, !.cache = next.cache, !.save = next.save,
                !.raced = next.raced]

\* Mutant: a missing status passes for the right one.
Mut_Settle(next) ==
  \/ /\ next.ub.status \notin {"reading", "unknown"}
     /\ Goto("status") /\ job' = Settled(next)
  \/ /\ next.ub.status \in {"reading", "unknown"} /\ next.save
     /\ Goto("save") /\ job' = Settled(next)
  \/ /\ next.ub.status \in {"reading", "unknown"} /\ ~next.save
     /\ Leave(next.cache)

\* With the reads settled, the status follows, then the checkpoint; without
\* a status neither does.
Settle(next) ==
  \/ /\ next.ub.status \notin {"reading", "unknown"}
     /\ Goto("status") /\ job' = Settled(next)
  \/ /\ next.ub.status = "reading" /\ next.save
     /\ Goto("save") /\ job' = Settled(next)
  \/ /\ next.ub.status = "unknown" \/ (next.ub.status = "reading" /\ ~next.save)
     /\ Leave(next.cache)

\* A difference below the threshold is left alone, and is not checkpointed.
Decide(known) ==
  LET read == Selected(known.reads, known.ub)
      near == Near(known.pos, Progress(read))
      next == [known EXCEPT !.read = read, !.save = TRUE]
  IN \/ read = NoRead /\ Goto("insert") /\ job' = next
     \/ /\ read # NoRead /\ Stale(read, known.reads)
        /\ Goto("close") /\ job' = next
     \/ /\ read # NoRead /\ ~Stale(read, known.reads) /\ ~near
        /\ Goto("update") /\ job' = next
     \/ /\ read # NoRead /\ ~Stale(read, known.reads) /\ near
        /\ Settle([next EXCEPT !.save = known.pos = Progress(read)])

---------------------------------------------------------------------------
(* handleInProgressBook: what is known of the user book                    *)

\* A missing status is not kept in the cache.  The reads that came with the
\* user book are used at once.
Loaded(next) ==
  LET known == [next EXCEPT !.cache = IF next.ub.status = "unknown" THEN NoBook ELSE @]
      keep  == config.preserveDNF /\ known.ub.status = "dnf"
  IN \/ keep /\ Leave(known.cache)
     \/ ~keep /\ known.snapped /\ Decide(known)
     \/ ~keep /\ ~known.snapped /\ Goto("reads") /\ job' = known

---------------------------------------------------------------------------
(* findOrCreateUserBookIDWithEdition                                       *)

\* The user book comes with its reads in one request, or without them when
\* that request fails.  A status may be missing from an answer, reads too.
FindUserBook ==
  /\ pc = "find" /\ book # NoBook
  /\ \E status \in {book.status, "unknown"}, snapped \in BOOLEAN,
       seen \in {reads, {}} :
       /\ Faults(Count(status # book.status) + Count(~snapped) + Count(seen # reads))
       /\ snapped \/ seen = reads
       /\ LET found == [job EXCEPT !.ub.status = status, !.ub.edition = "target",
                                   !.blind = seen # reads] IN
          IF book.edition = "target"
          THEN Loaded([found EXCEPT !.snapped = snapped,
                                    !.reads = IF snapped THEN seen ELSE {}])
          ELSE seen = reads /\ Goto("edition") /\ job' = found
  /\ UNCHANGED <<absVars, remote, entry, ghostVars>>

MissUserBook ==
  /\ pc = "find" /\ book = NoBook
  /\ Goto("create") /\ UNCHANGED job
  /\ NoFault /\ UNCHANGED <<absVars, remote, entry, ghostVars>>

\* The lookup by book fails: the lookup by edition decides, without details.
FindByEdition ==
  /\ pc = "find"
  /\ Goto(IF book.edition = "target" THEN "load" ELSE "create") /\ UNCHANGED job
  /\ Faults(1) /\ UNCHANGED <<absVars, remote, entry, ghostVars>>

CorrectEdition ==
  /\ pc = "edition"
  /\ book' = [book EXCEPT !.edition = "target"]
  /\ Loaded([job EXCEPT !.cache = NoBook])
  /\ NoFault /\ UNCHANGED <<absVars, reads, made, entry, ghostVars>>

\* Hardcover may add a blank read when the status becomes "reading".
MayAddBlank(edition) ==
  \/ UNCHANGED <<reads, made>>
  \/ /\ made < MaxReads /\ made' = made + 1
     /\ reads' = reads \cup
          {[NoRead EXCEPT !.id = made + 1, !.edition = edition, !.by = "hardcover"]}

\* A creation without an answer is looked up, and goes on when it took effect.
CreateUserBook ==
  /\ pc = "create" /\ book = NoBook
  /\ book' = [status |-> "reading", edition |-> "target"]
  /\ MayAddBlank("target")
  /\ Goto("load") /\ UNCHANGED job
  /\ NoFault /\ UNCHANGED <<absVars, entry, ghostVars>>

\* The user has the book as another edition: the creation is refused.
CreateRefused ==
  /\ pc = "create" /\ book # NoBook
  /\ Leave(job.cache)
  /\ NoFault /\ UNCHANGED <<absVars, remote, entry, ghostVars>>

---------------------------------------------------------------------------
(* handleInProgressBook: its own requests                                  *)

\* A user book found without details comes from the persistent cache, however
\* old, else from Hardcover.
LoadUserBook ==
  /\ pc = "load"
  /\ IF job.cache = NoBook
     THEN \E status \in {book.status, "unknown"} :
            LET ub == [book EXCEPT !.status = status] IN
            /\ Faults(Count(status # book.status))
            /\ Loaded([job EXCEPT !.ub = ub, !.cache = ub])
            /\ UNCHANGED drifted
     ELSE /\ Loaded([job EXCEPT !.ub = job.cache, !.raced = @ \/ job.cache # book])
          /\ drifted' = (drifted \/ job.cache # book)
          /\ NoFault
  /\ UNCHANGED <<absVars, remote, entry, ckpt, missed, resent, recent>>

ReadReads ==
  /\ pc = "reads"
  /\ \E seen \in {reads, {}} :
       /\ Faults(Count(seen # reads))
       /\ Decide([job EXCEPT !.reads = seen, !.blind = seen # reads])
  /\ UNCHANGED <<absVars, remote, entry, ghostVars>>

---------------------------------------------------------------------------
(* handleInProgressBook: what it writes                                    *)

Replace(read, new) == reads' = (reads \ {read}) \cup {new}

\* A stale read ends on the day the book was last finished.
CloseStale ==
  /\ pc = "close"
  /\ \E r \in reads :
       /\ r.id = job.read.id
       /\ Replace(r, [r EXCEPT !.finished = LatestFinish(job.reads)])
  /\ drifted' = TRUE
  /\ Answered(Goto("insert") /\ UNCHANGED job)
  /\ UNCHANGED <<absVars, book, made, entry, ckpt, missed, resent, recent>>

\* The start of the read is kept, or taken from Audiobookshelf.
Written(r) ==
  [r EXCEPT !.seconds = job.pos,
            !.started = IF job.read.started = NoDay THEN job.start ELSE job.read.started]

UpdateRead ==
  /\ pc = "update"
  /\ \E r \in reads :
       /\ r.id = job.read.id
       /\ Replace(r, Written(r))
  /\ drifted' = TRUE
  /\ Answered(Settle(job))
  /\ UNCHANGED <<absVars, book, made, entry, ckpt, missed, resent, recent>>

\* The user removed the read meanwhile.
ReadGone ==
  /\ pc \in {"close", "update"} /\ \A r \in reads : r.id # job.read.id
  /\ Leave(job.cache)
  /\ NoFault /\ UNCHANGED <<absVars, remote, entry, ghostVars>>

\* Mutant: the guard across runs is gone.
Mut_AlreadyRecorded == FALSE

\* A fresh checkpoint within half a percent tells that a read exists already.
AlreadyRecorded ==
  /\ entry.status = "IN_PROGRESS" /\ entry.fresh
  /\ 2 * Dist(job.pos, entry.prog) < Percent

SkipInsert ==
  /\ pc = "insert" /\ AlreadyRecorded
  /\ Leave(job.cache)
  /\ NoFault /\ UNCHANGED <<absVars, remote, entry, ghostVars>>

\* The checkpoint is of the finished book, or 15 percent ahead.
LikelyRestart ==
  \/ entry.status = "FINISHED"
  \/ entry.status = "IN_PROGRESS" /\ entry.prog > job.pos + 15 * Percent

\* A reread starts when Audiobookshelf says, if that is after the last finish.
StartOfNew ==
  LET done == Latest(FinishedTargets(job.reads))
  IN IF done # NoDay THEN IF job.start > done THEN job.start ELSE today
     ELSE IF LikelyRestart /\ job.start = 0 THEN today ELSE job.start

\* The checkpoint is of this position, and not a day old.
Told == ckpt > 0 /\ entry.fresh /\ 2 * Dist(job.pos, ckpt) < Percent

\* Why the guard may pass although the answer hid the reads: no checkpoint of
\* this position, or one of the first percent, which is stored as another.
Excuse == IF ~job.blind THEN {} ELSE IF ~Told THEN {"position"}
          ELSE IF ckpt <= Percent THEN {"percent"} ELSE {}

\* Each time the insertion is sent it may make a read, answered or not.
InsertRead ==
  /\ pc = "insert" /\ ~AlreadyRecorded
  /\ \E copies \in 1..(1 + Retries) :
       LET new == (made + 1)..(made + copies) IN
       /\ made + copies <= MaxReads /\ made' = made + copies
       /\ reads' = reads \cup
            {[id |-> i, edition |-> job.ub.edition, started |-> StartOfNew,
              finished |-> NoDay, seconds |-> job.pos, by |-> "sync"] : i \in new}
       /\ resent' = IF copies > 1 \/ \E r \in reads : r.id \in resent /\ Unfinished(r)
                    THEN resent \cup new ELSE resent
       /\ recent' = IF job.blind \/ job.raced THEN recent ELSE recent \cup new
       /\ \/ /\ Goto(IF job.ub.status = "reading" THEN "save" ELSE "status")
             /\ job' = Settled(job) /\ Faults(Count(copies > 1))
          \/ Leave(job.cache) /\ Faults(1)
  /\ missed' = missed \cup Excuse
  /\ drifted' = TRUE
  /\ UNCHANGED <<absVars, book, entry, ckpt>>

\* reconcileBookStatus
SetStatus ==
  /\ pc = "status"
  /\ book' = [book EXCEPT !.status = "reading"]
  /\ MayAddBlank(book.edition)
  /\ Answered(Goto("clean") /\ job' = [job EXCEPT !.cache = NoBook])
  /\ UNCHANGED <<absVars, entry, ghostVars>>

\* Mutant: finished reads without progress count as blank.
Mut_Blank(read) == read.seconds = NoProgress

Blank(read) == Unfinished(read) /\ read.seconds = NoProgress

\* deleteBlankReads gives up quietly.
DeleteBlankReads ==
  /\ pc = "clean"
  /\ \/ reads' = {r \in reads : ~Blank(r)} /\ NoFault
     \/ reads' = reads /\ Faults(1)
  /\ IF job.save THEN Goto("save") /\ UNCHANGED job ELSE Leave(job.cache)
  /\ UNCHANGED <<absVars, book, made, entry, ghostVars>>

Recorded == /\ entry' = Updated(job.pos) /\ ckpt' = job.pos
            /\ abs' = [abs EXCEPT !.later = @ /\ entry' = entry]

\* updateSyncState and checkpointState.
SaveCheckpoint ==
  /\ pc = "save"
  /\ Recorded /\ Leave(job.cache)
  /\ drifted' = (drifted /\ job.raced)
  /\ NoFault /\ UNCHANGED <<today, config, remote, missed, resent, recent>>

\* The run ends; the file may be the new one all the same.
SaveFails ==
  /\ pc = "save"
  /\ Recorded \/ UNCHANGED <<entry, ckpt, abs>>
  /\ Leave(cache) /\ Faults(1)
  /\ UNCHANGED <<today, config, remote, drifted, missed, resent, recent>>

RequestFails ==
  /\ \/ pc \in {"find", "edition", "create", "reads", "close", "update", "status"}
     \/ pc = "load" /\ job.cache = NoBook
     \/ pc = "insert" /\ ~AlreadyRecorded
  /\ Leave(IF pc = "edition" THEN NoBook ELSE job.cache)
  /\ Faults(1) /\ UNCHANGED <<absVars, remote, entry, ghostVars>>

\* The run is canceled or the process dies.
Stop ==
  /\ pc # "idle" /\ Leave(cache) /\ Faults(1)
  /\ UNCHANGED <<absVars, remote, entry, ghostVars>>

---------------------------------------------------------------------------
(* The listener, the user and the clock                                    *)

\* The listener moves on, back, or starts again.
Listen ==
  /\ budget.listens < MaxListens /\ Events < MaxEvents
  /\ budget' = [budget EXCEPT !.listens = @ + 1]
  /\ \E pos \in Positions \ {abs.pos}, again \in BOOLEAN :
       abs' = IF again THEN [pos |-> pos, start |-> today, later |-> TRUE]
              ELSE [abs EXCEPT !.pos = pos]
  /\ UNCHANGED <<today, config, remote, entry, cache, pc, job, ghostVars>>

Edit == /\ book # NoBook /\ budget.edits < MaxEdits /\ Events < MaxEvents
        /\ budget' = [budget EXCEPT !.edits = @ + 1]
        /\ drifted' = TRUE /\ recent' = {}
        /\ job' = [job EXCEPT !.raced = pc # "idle"]
        /\ UNCHANGED <<absVars, entry, cache, pc, ckpt, missed, resent>>

\* A read without edition that begins today, or one of the audiobook
\* finished today.
EditAddRead ==
  /\ Edit /\ made < MaxReads /\ made' = made + 1
  /\ \E read \in {[NoRead EXCEPT !.edition = "nil"],
                  [NoRead EXCEPT !.edition = "target", !.finished = today],
                  [NoRead EXCEPT !.edition = "target", !.finished = today,
                                 !.seconds = Duration]} :
       reads' = reads \cup {[read EXCEPT !.id = made + 1, !.started = today]}
  /\ UNCHANGED book

EditFinishRead ==
  /\ Edit
  /\ \E r \in reads : Unfinished(r) /\ Replace(r, [r EXCEPT !.finished = today])
  /\ UNCHANGED <<book, made>>

EditRemoveRead ==
  /\ Edit
  /\ \E r \in reads : reads' = reads \ {r}
  /\ UNCHANGED <<book, made>>

EditUserBook ==
  /\ Edit
  /\ \/ \E status \in {"want", "dnf"} : book' = [book EXCEPT !.status = status]
     \/ book' = [book EXCEPT !.edition = "other"]
  /\ UNCHANGED <<reads, made>>

\* In the next day the checkpoint comes to be a day old, and the cached user
\* book expires.
Tick ==
  /\ today < MaxDay /\ Events < MaxEvents /\ today' = today + 1
  /\ \/ UNCHANGED <<entry, cache, job>>
     \/ /\ entry' \in {entry, [entry EXCEPT !.fresh = FALSE]}
        /\ cache' = NoBook /\ job' = [job EXCEPT !.cache = NoBook]
  /\ UNCHANGED <<abs, config, remote, pc, ghostVars, budget>>

---------------------------------------------------------------------------
Find  == FindUserBook \/ MissUserBook \/ FindByEdition \/ CorrectEdition
           \/ CreateUserBook \/ CreateRefused
Write == CloseStale \/ UpdateRead \/ ReadGone \/ SkipInsert \/ InsertRead
           \/ SetStatus \/ DeleteBlankReads
Sync  == Begin \/ Find \/ LoadUserBook \/ ReadReads \/ Write \/ SaveCheckpoint
Edits == EditAddRead \/ EditFinishRead \/ EditRemoveRead \/ EditUserBook

Next == Sync \/ SaveFails \/ RequestFails \/ Stop
          \/ Listen \/ Edits \/ Tick

Spec == Init /\ [][Next]_vars

\* Runs go on for ever, and every request is answered in the end.
FairSpec == Spec /\ WF_vars(Sync)

---------------------------------------------------------------------------
(* Properties                                                              *)

Days == 0..MaxDay
Statuses == {"none", "want", "reading", "read", "dnf", "unknown"}
Books == [status : Statuses, edition : {"none", "target", "other"}]
ReadRecords == [id : 0..MaxReads, edition : {"target", "other", "nil"},
                started : Days \cup {NoDay}, finished : Days \cup {NoDay},
                seconds : 1..Duration \cup {NoProgress},
                by : {"sync", "hardcover", "user"}]
Places == {"idle", "find", "edition", "create", "load", "reads", "close",
           "insert", "update", "status", "clean", "save"}

\* Types, and: read identifiers are distinct, and no read of the sync ends
\* before it starts.
TypeOK ==
  /\ abs \in [pos : Positions, start : Days, later : BOOLEAN]
  /\ today \in Days /\ config \in Configs
  /\ book \in Books /\ cache \in Books
  /\ reads \subseteq ReadRecords /\ made \in 0..MaxReads
  /\ \A r \in reads : r.id \in 1..made
  /\ \A r, o \in reads : r.id = o.id => r = o
  /\ \A r \in reads : r.by = "sync" /\ ~Unfinished(r) => r.started <= r.finished
  /\ entry \in [prog : 0..Duration, status : {"none", "IN_PROGRESS", "FINISHED"},
                fresh : BOOLEAN]
  /\ pc \in Places
  /\ job.ub \in Books /\ job.cache \in Books /\ job.read \in ReadRecords
  /\ job.reads \subseteq ReadRecords

\* Reads in progress for the edition that the sync wrote, but the copies of an
\* insertion that was sent again and what was inserted beside them.
ActiveReads == {r \in reads : /\ r.by # "user" /\ r.edition = "target" /\ Unfinished(r)
                              /\ r.seconds # NoProgress /\ r.id \notin resent}

\* Several jobs, failures and stops leave at most one read in progress for the
\* edition that the sync wrote, beside copies of a resent insertion.  Only an
\* empty answer can mislead it, and then only when the position moved by half a
\* percent, the checkpoint is a day old, or it is of the first percent
\* (service.go, the cross-run idempotency guard).
OneActiveRead == missed # {} \/ Cardinality(ActiveReads) <= 1

\* The same without the exception for the first percent: the guard avoids a
\* second read whenever the prior state shows nearly the same progress.
GuardPreventsDuplicates == "position" \in missed \/ Cardinality(ActiveReads) <= 1

\* A checkpoint is only taken of a position that Hardcover holds in a read in
\* progress, with the book on the "currently reading" shelf, unless the user
\* edited it during the job or the status came from the cache
\* (updateSyncState, CHANGELOG "Incremental sync checkpoints").
CheckpointEarned ==
  pc = "save" /\ ~job.raced =>
    /\ book.status = "reading"
    /\ \E r \in reads : Unfinished(r) /\ r.seconds = job.pos

\* No job changes or deletes a read that was finished when it looked, however
\* blank: that is the user's history (handleInProgressBook, deleteBlankReads).
HistoryKept ==
  [][budget'.edits # budget.edits \/ job.raced
       \/ \A r \in reads : ~Unfinished(r) => r \in reads']_vars

\* Stale reads are not closed and recreated in turn: a read that a job inserts
\* knowing the others is not stale itself until the user edits the user book,
\* whatever fails meanwhile (the "strictly less than" of handleInProgressBook,
\* the start it gives to a reread).
NoSplitLoop == pc = "close" => job.read.id \notin recent

\* Hardcover is as near as the thresholds ask for.
Arrived ==
  \E r \in reads :
    /\ Unfinished(r) /\ r.seconds # NoProgress
    /\ Dist(r.seconds, abs.pos) <= (IF config.incremental THEN Percent ELSE Minute)

\* Once faults end the position arrives in a read in progress, and stays.
\* What changed in Hardcover after the last checkpoint, by the user or by a job
\* that failed, shows only when the listener leaves the position of that
\* checkpoint; "did not finish" stays, and the bound on reads may hold up the
\* rest (handleInProgressBook, the incremental guards).
ProgressArrives ==
  <>[](\/ Arrived
       \/ drifted /\ entry.status = "IN_PROGRESS" /\ Dist(abs.pos, entry.prog) <= Percent
       \/ config.preserveDNF /\ book.status = "dnf"
       \/ made = MaxReads)
=============================================================================
