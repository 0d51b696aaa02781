# audiobookshelf-hardcover-sync: a verification project

audiobookshelf-hardcover-sync copies reading progress from Audiobookshelf to
Hardcover, for several profiles, on a schedule and on demand.  This directory
holds TLA+ models of the parts of it that are concurrent, that fail half-way, or
that must recover; the TLC runs that check them on small instances; and proofs,
checked by TLAPS, of what holds for every value of the constants.

`PROJECT.json` lists the components, runs, mutants, findings, hazards and
theorems, and maps each definition to the lines it models.  Paths below are
relative to `src/internal/` unless they say otherwise.

## 1. The system

### Components, their state and their operations

| Component | State | Operations |
|---|---|---|
| Multi-user service (`multiuser/service.go`) | maps of active, latest and service runs, profile statuses, gates with execution tickets, the shutdown flag | start, execute, cancel, publish, delete a profile, shut down, restore status |
| Durable run reports (`database/repository.go`) | one state row per profile, one report row per run | accept, checkpoint, store a terminal report, retain, reconcile after a restart |
| Sync service (`sync/service.go`, `sync_book.go`, `batch.go`, `cache.go`) | phase of the run, counters and outcomes, caches of a run | a run over all books; a book: match, ownership, progress, finish |
| Sync state file (`sync/state/`) | JSON file and its loaded copy with a dirty flag, a sidecar lock | load, migrate, update, save by rename, lock |
| Hardcover client (`api/hardcover/`) | HTTP client, caches | queries and mutations with retries, mutations with a time budget, lookups |
| Rate limiter (`util/rate_limiter.go`) | permits, last admission, interval, pauses | admit, apply response headers, back off |
| Edition creation (`edition/creator.go`, `api/handlers_edition_create.go`, `multiuser/edition_create.go`) | operation journal in the database, locks per profile | draft, create, recover an ambiguous outcome |
| Edition capability (`multiuser/edition_capability.go`) | cache by credentials, probe in flight | probe once, share, invalidate |
| Mismatch export (`mismatch/`) | collected mismatches, exported files | add, merge, save, clean |
| Authentication (`auth/`) | users, sessions, OIDC flow | log in, validate and refresh a session, log out |
| Server and handlers (`server/`, `api/handlers_*.go`) | none of their own | decode, call, encode |
| Audiobookshelf and Audnex clients (`api/audiobookshelf/`, `api/audnex/`) | none | read-only requests |
| Configuration, encryption, migrations (`config/`, `crypto/`, `database/`) | loaded once | parse, validate, encrypt, migrate |
| Command line and web interface (`src/cmd/`, `src/web/`) | none | front ends |

### How they interact

An HTTP handler or the scheduler asks the multi-user service for a run.  The
service takes the profile's gate, has the repository accept the run (a row
"queued" with the next generation), enters it in its maps, hands it an execution
ticket and starts a goroutine.  That worker waits until its ticket is served,
builds a sync service, registers it so that cancellation and status polls can
find it, and calls its `Sync`.  The sync service goes through its phases, calls
back to store checkpoints of the run report, and for each book queries and
mutates Hardcover through the client; the client asks the rate limiter, which
all profiles of one token share, for admission and reports every response to it.
What must survive a stop goes to the state file.  At the end the worker
publishes the final status, unless a newer run or a cancellation took over, and
serves the next ticket.  Cancellation, deletion of the profile, shutdown and
status polls run on other goroutines at the same time; Hardcover is changed by
its user as well.

### What is hard, and what must hold

* **Lifecycle of a run.**  A dozen maps guarded by two kinds of mutex; a
  cancellation that releases the map lock while it waits; a worker that has
  been replaced and still publishes; a shutdown that races with starts; a crash
  at any point.  Runs of a profile must execute one at a time in the order of
  acceptance, a canceled run must never be shown as completed, the durable
  history must follow its own protocol whatever the process does, shutdown must
  leave nothing running, and every worker must end.
* **Finished reads.**  Marking a book finished lets Hardcover overwrite dates
  and add reads.  Whatever fails, and wherever the process stops, the dates the
  user had must come back, one read may be added (and the copies that a request
  makes when its answer is lost), and nothing of the user may be removed.
* **Reads in progress.**  One of several reads is chosen, updated, closed or a
  new one inserted, on answers that may be empty or old, while a local checkpoint
  decides whether the next run looks at all.  The position must arrive, in one
  read; finished history must stay; and only what arrived may be checkpointed.
* **Rate limiter.**  Responses arrive in any order and move a schedule others
  are sleeping on.  The interval, and a pause the server asked for, must hold;
  permits must come back; nobody may sleep on after the schedule lets him go.
* **Edition creation.**  A mutation that may have been applied must never be sent
  again blindly, the token that can settle it must not be lost, and what is saved
  as the item's match must be the edition Hardcover really has.
* **Matching.**  Hardcover's catalogue changes between two lookups, lookups fail,
  and syncs stop half-way; still only confirmed editions may be written to or
  saved, a removed match must stay away, the report must tell what happened, and
  what is called current must once have been reached.
* **User books.**  Items of a sync share books and cached ids; none may go on
  with the user book of another edition, and no book may get two.
* **Capability cache.**  One probe at a time per credentials, and no answer of
  old credentials for new ones.  (planned)
* **State file.**  Two processes must not write it at once, and a failed save
  must not lose what the memory holds.  (as far as finished reads use it; the
  lock is planned)

The full list of hazards, each at its line and with the properties that would
catch it, is in `PROJECT.json`.

## 2. Modules

| Module | Role |
|---|---|
| `RunLedger` | abstract specification of the durable run history |
| `RunLifecycle` | multi-user service, repository and phases of a run; implements `RunLedger` |
| `RunLifecycle_proofs` | its theorems |
| `MCRunLifecycle` | its instances for TLC |
| `FinishedReads` | the finished-read protocol over state file and Hardcover |
| `FinishedReads_proofs` | its theorems |
| `MCFinishedReads` | its instances for TLC |
| `InProgressReads` | an audiobook in progress: guards, user book, reads, checkpoint |
| `InProgressReads_proofs` | its theorems |
| `MCInProgressReads` | its instances for TLC |
| `BookMatching` | one item: lookups, saved match, ownership, checkpoints, outcome |
| `BookMatching_proofs` | its theorems |
| `MCBookMatching` | its instances for TLC |
| `UserBooks` | the items of a sync finding and creating their user books |
| `UserBooks_proofs` | its theorem |
| `MCUserBooks` | its instances for TLC |
| `RateLimiter` | admission, pacing, header feedback |
| `RateLimiter_proofs` | its theorems |
| `MCRateLimiter` | its instances for TLC |
| `EditionLedger` | abstract specification of the journal of edition requests |
| `EditionLedger_proofs` | its theorem |
| `EditionCreate` | create, check and forget requests with the journal; implements `EditionLedger` |
| `EditionCreate_proofs` | its theorems |
| `MCEditionCreate` | its instances for TLC |

`RunLifecycle` and `EditionCreate` each end with an `INSTANCE ... WITH` of their
ledger, whose specification is a property of their run.

Definitions whose name begins with `Mut_` are plausible bugs of the definition
that follows them.  They are used by no specification; putting one in the place
of its original shows that the property named in `PROJECT.json` notices it.

### RunLedger and RunLifecycle

`RunLedger` says what the database promises: per profile, a run is accepted
with a generation above all earlier ones, advances, settles once in a terminal
state, and may be evicted; a restart settles what was interrupted; the time of
the last success is that of a completed run that was not a dry run.

`RunLifecycle` is the process over it.  Variables are the maps of
`MultiUserService` and the gate of each profile under their names in the code;
`reports`, `attempted` and `succeeded` are the rows.  A run is named by its
generation, and a time by the run that set it, 0 standing for nil.  One action
is one critical section of `syncMutex`, one database transaction, or one phase
of the sync service.  `gate.mu`, which cancellation and deletion keep over
several such sections, is the variable `gate`.

| Actions | Code |
|---|---|
| `StartAdmit`, `StartAccept`, `StartReject` | `StartSyncWithAcceptedRun`, `beginSyncStart` |
| `TakeTurn` ... `ReleaseExecution` | `runSyncWorker`, `performSync`, `publishFinalStatus`, `finishActiveRun` |
| `SyncRuns`, `SyncBook`, `SyncFinalizes`, `SyncStops`, `SyncFails`, `SyncCompletes` | phases of `Sync` |
| `CancelSync`, `CancelDetach`, `CancelPersist`, ... | `cancelSync`, `cancelSyncLocked` |
| `DeleteMark` ... `DeleteDrain` | `DeleteProfile` |
| `ShutdownBegin` ... `ShutdownTimeout` | `Shutdown`, `cancelActiveSyncs`, `waitForSyncGroup` |
| `Restart`, `RestoreStatus` | reconciliation at start-up, `restoreAggregateProfileStatus` |

Any database call may fail (`MaxFaults`), and the process may stop between any
two steps (`Restart`).  `DryRuns` says which kinds of run are asked for.

`cancelSync` looks whether the profile is being deleted under `admissionMutex` and
then waits for the gate, where it does not look again: `CancelSync` and
`ShutdownCancel` may take the gate of a profile that is deleted by then and store
"canceled" for the run they find there.  A `Shutdown` that timed out may be called
again (`MaxShutdowns`), which `run_liveness` does.

### FinishedReads

One Hardcover user book, its reads with completion dates, and the Audiobookshelf
items that resolve to it.  `disk` is the state file, `mem` its loaded copy with
the dirty flag, `pc` and `run` the program point and the locals of the run.
Every request is one step, which may fail; a mutation may fail after it took
effect.  A save may fail before or after its rename.  The run may be canceled or
the process stop between any two steps, and the next run begins with `disk`.
The user adds, dates and deletes reads, changes the status and deletes the book
at any time.

`history` holds, for every read, the date that must survive: what the user gave
it, or what the sync inserted it with.  `Free` marks the reads about which the
code cannot know better: those the user changed while a repair of theirs was
pending or a run held their date, and those he added during a run, changed or
not, which look like what Hardcover adds by itself.

It is assumed that the items are finished, dated and matched, that one process
uses the state file, and that status requests are not retried in a way that
matters (they are idempotent).  The insertion of a read is not, and
`executeGraphQLOperation` sends it again up to `Retries` times when the answer is
lost; `resent` holds the copies whose id the run never learned.  `stale` holds the
reads whose repair a run undid because it went on with reads from before it
(`Undone`).  A *setup* is one instance: its items, whether reads come
with the user book (`combined`), and the bounds on faults and edits; one run
starts in any of `Setups`.

### InProgressReads

One audiobook that is being listened to, its user book (`book`), the reads of
that user book, the book's checkpoint in the state file (`entry`) and its copy in
the persistent cache of user books (`cache`).  A job is one pass of `processBook`
over the book; `pc` is the request it is about to send, `job` its locals.

| Actions | Code |
|---|---|
| `Begin` (`UpToDate`) | the two incremental guards of `processBook` |
| `FindUserBook` ... `CreateRefused` | `findOrCreateUserBookIDWithEdition` |
| `LoadUserBook`, `ReadReads` | the snapshots `handleInProgressBook` starts from |
| `Decide`, with `Selected`, `Stale`, `MinDiff` | `selectReadStatuses`, `findStaleRereadDate`, the thresholds |
| `CloseStale`, `UpdateRead`, `SkipInsert`, `InsertRead` | its writes and the guard across runs |
| `SetStatus`, `DeleteBlankReads` | `reconcileBookStatus`, `deleteBlankReads` |
| `SaveCheckpoint`, `SaveFails` | `updateSyncState`, `UpdateBook`, the save after the book |

`Decide` and `Settle` are no steps of their own: they end the step that brought
the last answer they need.  A request may fail, before or after it took effect;
an answer may lack the status or the reads; the process may stop.  Positions are
thousandths of the duration, dates are days.  A mutation that makes the book
"currently reading" may add a blank read, as the comments of `deleteBlankReads`
say of Hardcover.

History variables: `drifted` says that Hardcover changed and no checkpoint
followed, `ckpt` is the position the last checkpoint was really taken at,
`missed` why an empty answer led to an insertion that the guard across runs did
not prevent (`Excuse`: the checkpoint does not tell of this position, or it does
and is read as a hundred times too far), `resent` holds the copies of an insertion
that was sent again and what is inserted beside them, `recent` holds the reads that the sync inserted, knowing the
others, since the last edit, and `job.raced` that the user edited the book during the job or the cache was out of date.

Left out: the guards `createdReadsThisRun` and `lastProgressUpdates`, which
cannot act on one item per run and on a service per run, rows with a percentage
in place of seconds, dry runs, and the removal of the user book by the user.

### BookMatching

One item, its saved association and checkpoints (`assoc`, `base`, `byEdition`),
what the state file keeps of them while a sync runs (`disk`), Hardcover's
catalogue (`hc`), Owned lists and user books.  A sync of the item is a job; `pc`
is its stage, `job.todo` the lookups still to make.

| Actions | Code |
|---|---|
| `SkipItem`, `Begin` | the early skips and the incremental guard of `processBook` |
| `LookupASIN`, `LookupISBN`, `LookupEditionASIN`, `LookupTitle`, `LookupFails` | `findBookInHardcoverWithMatchSource` and the client's searches |
| `Found`, `FoundAgain`, `VerifyISBN`, `VerifyFails` | the confirmation of fresh matches |
| `Enrich`, `Guard` | what an item without a match leaves, the guard after the match |
| `SkipOwnership`, `CheckOwnership`, `MarkOwned`, `OwnershipFails` | `reconcileBookOwnership` |
| `ResolveUserBook`, `RecoverUserBook`, `EditionGone`, ... | user book, `forgetConfirmedMissingEdition` |
| `WriteStatus`, `LeaveStatus`, `WriteFails` | the ends that leave a checkpoint, those that leave none, failures |
| `Crash` | a stop or a failed save; the next sync loads `disk` |
| `ToolsSave`, `ToolsForget`, `EditItem`, `ChangeToken`, `Expire` | the edition tools, Audiobookshelf, the profile's settings, time |

Abstractions: an identifier is present, absent or (an ASIN) malformed; the two
forms of an ISBN are one lookup; the catalogue holds the editions of the item's
format only, and a search that asks for one of several editions in no order may
answer any of them; a progress or date is the status it leads to (`target`).
Checkpoints of a book without edition and of one not found are left out because
this client never reports them at that point.  Which of the ends without a
checkpoint an item takes is left open (`LeaveStatus`), but what Hardcover and the
checkpoints must say for it.  A dry run's invalidation of
checkpoints in memory, and repairs of dates (`FinishedReads`), are left out too.
History: `confirmed`, `listed` and `reached` are what lookups, the Owned list and
status writes have shown.

### UserBooks

The items of a sync, one after another, over the reader's user books (`shelf`)
and the client's two caches.  Each request is a step and the reader changes rows
between any two.  `Insert` ... `InsertRefused` are
`createUserBookWithEdition`, with an insertion sent again when its answer is
lost; Hardcover answers it with a conflict when the book has a user book with
that edition.  Ids are never used again.  `{"dry", "combined"}` are the
settings of a run.  Left out: the failure of the edition's own lookup, and the
edition that was verified before (`BookMatching` has it).

### EditionCreate

One Audiobookshelf item without a match.  `records` are the outcomes the retained
runs report of it, `journal` the journalled action of each run, `assoc` the saved
match, `tokens` the recovery tokens signed so far.  The requests hold the profile
gate and the lock of the state file from their first read to their last write, so
one is inside at a time (`op`); an action is a stretch between two durable writes
or remote calls.  A mutation travels on `wire`, arrives later or never, and
`remote` is the edition or import Hardcover then has.

| Actions | Code |
|---|---|
| `CreateRefused`, `CreateAdmitted`, `PrepareFails`, `Prepare` | `createVerifiedEdition`, the durable attempt of `createRegionalAudiobook` and `createInsertedEdition` |
| `WriteDenied`, `InsertionRefused`, `Adopt` | what ends a request before its mutation; an edition that exists already |
| `SendImport`, `SendInsertion` | the one budgeted mutation, `ImportRegionalAudiobook` or `createEdition` |
| `AnswerLost`, `PollUnsettled`, `InsertionUnsettled` | ambiguous ends: `executeGraphQLOperation`, `pollRegionalAudiobookImport`, `createEdition` |
| `ConfirmFailed`, `Confirm` | definite ends, the edition read back |
| `CheckAdmitted`, `CheckRevokes`, `CheckUnconfirmed`, `CheckFailed`, `CheckConfirmed` | `CheckEditionImport` |
| `SaveMatch`, `ClearJournal`, `Respond` | `createEditionWithAssociationAndResync` and the answer |
| `Forget`, `ForgetSaves` | `ForgetEditionAssociation` |
| `SyncStarts` ... `SyncEnds` | a sync that saves or drops the match and publishes a new record |
| `Delivered`, `Lost`, `RemoteMoves`, `RotateToken`, `TokenExpires`, `Crash` | the world around |

Errors are sets of tags, as `errors.Is` sees wrapped ones; `Outcome`,
`ActionOutcome` and `Finalized` are the three functions that turn them into the
answer and the journal entry.  `EditionLedger` says of a run: it is open, pending,
failed, matched or gone; a pending one is written at most once, and only what was
not written is open again.

### RateLimiter

A caller is idle, queued for a permit, ready, asleep, sent, answered or applied.
`sched` is the schedule guarded by the mutex, `woken` are the callers whose
schedule channel was closed.  Headers are modelled by what their parsers find in
them: a bucket is exhausted, low or fine, and resets after some time.  The
operators of the second and third section of the module are the functions that
change the schedule, each from a schedule to the next; the field `changed` says
that `notifyScheduleChanged` was called on the way.  Time is discrete, and
passes between any two steps.  The random jitter is a choice from
`BackoffFactors`.

## 3. Runs

| Run | Question | Instance |
|---|---|---|
| `run_protocol` | order, cancellation, success times, deletion, refinement of the ledger, settlement, status | 1 profile, 2 runs (real or dry), retention 1, 1 book, 1 fault, 1 restart, 1 shutdown |
| `run_liveness` | workers, deletions and shutdowns end, and a shutdown leaves no worker | 1 profile, 2 runs, 1 fault, 2 calls of Shutdown |
| `finished_dates` | dates, reads, checkpoints and the end of repairs | 1 item with combined reads, 1 fault, 1 edit; 2 items of one user book, 2 faults or 1 edit; the same with combined reads, 1 fault; 3 reads, 1 stop, an insertion sent twice |
| `progress` | one active read, earned checkpoints, history, no split loop, arrival | 1 book, 3 positions, 2 configurations, at most 5 reads, an insertion sent twice; 1 edit, 1 fault, 2 moves, 2 days, any 3 events of these |
| `book_matching` | confirmed matches and writes, honest outcomes, ownership, earned "current", mappings found | 2 editions of different books, 3 profiles, 3 kinds of items, 2 catalogues; 1 change of the catalogue, 1 edit, 1 fault |
| `user_books` | no item goes on with a user book of another edition | 3 items, 3 editions of 2 books, 4 ids, 2 rows at first; 1 fault, 2 sends, a second sync, 1 change by the reader |
| `rate_limiter` | interval, pauses, permits, wake-ups, admission | 3 callers, 2 permits, 4 responses, 3 requests, time up to 5 and on while a caller sleeps |
| `edition_create` | one write per run, recovery stays possible, honest answers, verified matches | 3 runs, retention 2, 2 recovery tokens |
| `finished_stale_snapshot`, `first_minutes`, `edition_recover`, `user_books_cached` | the findings below | the smallest instance that shows each |

*Bounds.*  Two runs are needed for a run to replace a canceled one that still
works, and with a retention of one the older report is evicted when the newer
one is stored.  One
fault and one restart let a recovery meet a run that was itself interrupted; the
protocol keeps no count of faults.  Profiles share only the shutdown, so one is
enough to check the rest; the theorems hold for any number.  For finished reads, a
book starts with none, one or two, and one more may be inserted by the sync,
added by Hardcover as a blank or started by the user; two faults let a repair
fail after a failure, and a stop leaves dates pending while the user deletes the
book and the next run handles the other item.  An insertion without an answer is
sent once more: one copy is enough for a read that the run does not know of, and
the theorems hold for any number.  The positions of
`progress` are within the first percent of the book, where a percentage is taken
for a fraction, half the book, and 40 seconds on, which is below the threshold of
a minute; the configurations are the defaults with a saved match
and a full sync that does not preserve "did not finish".  Three events, in any
order and between any two steps, are what it takes for a second job to meet what
a first one left half done and the user changed.  In `book_matching` syncs go on
for ever; two editions are what an answer needs to be the wrong one, and one
change, one edit and one fault meet in every order between any two requests.  In
`user_books` two items compete for a book and a third has its own, which is what
it takes for a cached id to be of a row that moved on; the reader's rows at first
are any two.  In `edition_create` three runs and a retention of two let one run be
current, one superseded and one evicted; two tokens make one of them wrong; the
item is an audiobook or not.  For the
limiter, three callers and two permits give contention and a late answer of
each kind after another: a healthy one, a 429 without guidance, a daily pause and
a short pause.  The theorems of section 5 remove the bounds where they
apply.

*Deadlock* is checked in the runs of `FinishedReads`, where something can always
go on, and of `UserBooks`, whose one rest is the explicit step `Done`.  The runs
of `RunLifecycle`, `RateLimiter` and `EditionCreate` stop when the bounds on
starts, runs, requests or time are used up, that of `InProgressReads` when the
checkpoint is up to date and no event is left, and that of `BookMatching` when a
sync no longer changes anything.

*Symmetry* is used in the two runs of `UserBooks`, over items and ids, which no
property tells apart and which have no liveness.

### Fairness

* Workers, cancellations, deletions and shutdowns are goroutines; each of their
  steps is weakly fair, starts, faults, restarts and cancellations are not.
  A run waits for the gate as long as others hold it and takes its turn when its
  ticket is served, and database and HTTP calls end because both have time-outs.
* `FinishedReads`: runs are repeated (`sync_interval`), each of their steps ends,
  and only finitely many requests fail.
* `InProgressReads`: the steps of a job are weakly fair as a whole, because runs
  are repeated and requests are answered; failures, stops, edits and moves are
  not fair, and finitely many.
* `BookMatching`: the steps of a sync are weakly fair as a whole, because syncs
  are repeated and every request is answered or times out; changes, edits, faults
  and crashes are not fair.
* `UserBooks` and `EditionCreate` have safety properties only.
* `RateLimiter`: time passes, goroutines run, requests end because the HTTP
  client has a time-out.  Taking a permit is strongly fair: Go serves the
  waiters of a channel in the order of their arrival.

### Findings

Runs with the expectation `violation` each show one disagreement between the
code and what the repository says of it.

* `finished_stale_snapshot`: with two items on one user book, the reads that came
  with the user book are used after a repair has changed them, and the wrong
  dates become the next intent.
* `first_minutes`: a position within the first percent is stored a hundred times
  too far, so the guard against inserting the read again does not recognise it.
  (`OneActiveRead` of `progress` takes exactly this out; the property of
  `first_minutes` does not.)
* `edition_recover`: an import without a candidate book that was anchored to an
  existing one is saved, and its recovery check, which should succeed
  idempotently, then refuses the very match it made.
* `user_books_cached`: that a book has no user book stays cached after one was
  created, and the second item of the book asks for another.

Seen while modelling, without a run:

* A run that fails before its sync service exists replaces the cached status by
  one that lacks the times of the attempt (`multiuser/service.go:1361`;
  `PublishedStatus` has it), although `README.md:217` lists them.
* The insertion of a read is sent again when its answer is lost
  (`api/hardcover/client.go:712`), so a finished book may get a second read and a
  book in progress a second active one, although `CHANGELOG.md:168` and `:177`
  speak of comprehensive protection.  No later run removes it.  Hardcover may also
  overwrite the finish date of the copy whose id was not answered, which no repair
  knows of, and the item is still recorded as finished.  `OneReadInserted`,
  `DatesCovered` and `OneActiveRead` name these copies as their exception.
* A user book whose creation lost its answer and was found by the lookup that
  follows is not reported (`sync/service.go:1486`): the item may end as already
  current although the sync changed Hardcover.  `OutcomesAreHonest` names it.
* A cancellation that waited at the gate while the profile was deleted stores
  "canceled" for its run (`multiuser/service.go:1246`), although the comment at
  `multiuser/service.go:513` says that no late report can be persisted.
  `DeletedReportsFrozen` names it.
* The journal of edition requests is kept per run, so a later run's record of the
  same item lets a create be submitted while an older run's attempt is still
  unresolved.
* A sync that removes an association leaves the journals of the item as they are;
  only the forget request clears them.
* A check with a token from before the journal that ends in a definite failure
  writes a journal row, although the comment at
  `api/handlers_edition_create.go:330` says that it does not.
* An anchored import whose create ended in a conflict of the book can be accepted,
  with another book, by the check when a later run lost the candidate.
* An edition of the wrong format is a definite failure for an audiobook and an
  ambiguous outcome for an e-book.
* `CheckBookOwnership` looks at the book only, while the comment of
  `RecordOwnershipVerified` (`sync/state/state.go:443`) says book and edition.
* Checkpoints, unlike verified ownership, survive a change of the Hardcover
  account.
* The OIDC callback asks for the redirect address of a state that its exchange has
  already removed (`auth/service.go:481`, `auth/oidc.go:648`).
* A configured interval above ten minutes is cut to ten minutes by the first
  response (`setRate`, `util/rate_limiter.go:1035`), which `AdmissionsPaced` and
  its theorem take into account.
* A wait caused by a very low daily quota is not reported as such
  (`util/rate_limiter.go:145`): the interval is compared with the value before it
  was cut to its bound.
* `handleInProgressBook` may close a stale read, log that it creates a new one,
  and then skip the insertion because of a fresh checkpoint
  (`sync/service.go:4551`, `:4954`): no read is in progress until the position
  moves.
* The edition of a user book marked "did not finish" is corrected before that
  mark is looked at (`sync/service.go:1378`, `:4010`), although
  `docs/DNF_HANDLING.md:10` says the status is detected "before making any
  updates".

## 4. Properties

What each property says, and which code it is about, is the comment above it.
Every safety property of a passing run, invariants and action properties and the
two refinements, is a theorem of section 5, some under hypotheses that are stated
there.  Checked but not proved is liveness: `WorkersEnd`, `DeletionEnds`,
`ShutdownEnds`, `RepairsEnd`, `RequestsEnd`, `ProgressArrives` and
`MappingIsFound` need fairness and ENABLED, which are out of the prover's reach.

The types of `RunLifecycle` and `RateLimiter`, and two properties of the limiter
(`DailyPauseHolds`, `BackoffSlowsDown`), are theorems and not repeated as runs.

## 5. Theorems

Each module of proofs has the same shape.  First come the parts of the inductive
invariant, each with what it says; then lemmas that describe what an action does,
field by field, so that later leaves need not expand it; then one lemma per part
that every step keeps it, with a step for each action that can disturb it; then
the theorems.  TLC checked each inductive invariant, as an invariant of the run of
its module, before it was proved.

### RunLifecycle_proofs

Assumptions: the bounds are natural numbers and the retention is positive.
Profiles may be any set.  The inductive invariant has four parts: `TypeOK`;
`Ownership`, which says who holds the gate and which worker the maps refer to;
`Tickets`, which ties the tickets of waiting and executing workers to the
counters of the gate; and `Settlement`, which ties phases, statuses and reports
of a run.  `TypeOK` alone is not inductive because the counters stay within
their bounds only while tickets are handed out once; the safety properties need
that at most one worker of a profile executes, which only `Tickets` gives.
`Tending` and `Agreement` are inductive relative to it.  The first says that
somebody will settle every pending report, the cancellation of its run or its
worker, which then has the run registered; at rest there is neither, so nothing is
pending.  The second says that a terminal status is that of a report.  Both are
about histories in which no database call failed, as the properties are.

| Theorem | Establishes |
|---|---|
| `TypeCorrect` | types |
| `ExecutionIsFIFO` | one worker per profile at a time, in the order of acceptance |
| `LedgerImplemented` | every step is a step of `RunLedger` or none |
| `SuccessTimesAreReal` | the time of the last success is that of a completed real run |
| `CancellationIsFinal` | an accepted cancellation is never overruled |
| `ShutdownIsClean` | a shutdown that returns leaves no worker, and none can come |
| `DeletedReportsStay` | no worker changes the reports of a deleted profile; only a cancellation that waited at the gate stores its end |
| `ReportsSettle` | at rest no report is pending, while the database answers |
| `StatusesAgree` | a terminal status repeats the stored report, while no store failed |

### FinishedReads_proofs

Assumptions: the dates include the target and the current day, the limits are
natural numbers.  The invariant has two halves.  `IInv` holds for any number of
retries: types, nothing is known of reads that do not exist, a deleted user book
has no reads, what the place of a run says of its locals, a read that the run does
not know of is one that the user or Hardcover added meanwhile (`Known`), and the
reads that the sync inserted and that still exist came from one request
(`Single`).  `Safe` is about the dates: every read has its date, or the intent on
disk has it, or a run undid its repair (`Covered`), an intent holds only dates that
are right or undone (`Intents`), what a repair has left off its list is gone, and
before its first write it knows which dates are right (`Repairs`).

| Theorem | Establishes |
|---|---|
| `TypeCorrect` | types |
| `InsertedOnce` | the sync inserts at most one read and one copy per retry |
| `OneRead` | it inserts at most one, beside the copies of a resent insertion |
| `ReadsKept` | it deletes no read the user had |
| `DatesAreCovered` | a wrong date is covered by the state file, unless a run undid its repair |
| `CheckpointsAfterRepair` | a checkpoint is taken only with the dates repaired, unless a run undid that |

None of them has a hypothesis beyond the specification.  Their two exceptions are
real behaviours of the code and part of the properties: when the answer to the last
of the copies arrives, the code repairs the date of that copy alone, so the others
are owed none (`history` frees them, see `Insert`; when no answer arrives every copy
is still owed its date), and a second item of the book goes on with reads that a
first one has repaired since (`stale`), which is the finding
`finished_stale_snapshot`.

### InProgressReads_proofs

Assumptions: positions lie inside the book, the limits are natural numbers, a day
and a read are allowed.  `IInv` has nine parts; `Jobs` says where a job stands,
`Aimed` what it still knows of the read it is about to write although the user may
have edited it, `Earned` that a job about to take a checkpoint has seen the
position arrive, `Unsplit` that reads inserted recently do not look stale.  `Alone`
says that beside an active read there is none but copies of a resent insertion,
that what a job is about to write is the only one or such a copy, and that a job
inserts a read only where there are copies at most or where it did not see the
reads.  It holds from the first insertion on that an empty answer excuses
(`missed`): the guard before the insertion compares the checkpoint with the
position, and the state file takes a percentage up to 1 for a fraction, which is
the finding `first_minutes`.

| Theorem | Establishes |
|---|---|
| `TypeCorrect` | types, reads have distinct ids and do not end before they start |
| `CheckpointsEarned` | only what arrived is checkpointed |
| `NoLoop` | a read that was inserted knowing the others is not split in turn |
| `HistoryIsKept` | finished reads are neither changed nor deleted |
| `OneActive` | one active read, beside copies, unless an empty answer hid one from a job whose checkpoint did not tell |

### BookMatching_proofs

Assumptions: the special values are no editions, the bounds are natural numbers.
`Placed` relates the stage of a sync to its match, `Written` to what the sync has
changed so far and its marks tell of, `NamedWell` to the lookups that named the match; `Saved` says of
memory and file that matches were confirmed, ownership seen and statuses reached.
`Saved` has to speak of both because a stop replaces one by the other.

| Theorem | Establishes |
|---|---|
| `TypeCorrect` | types |
| `SavedMatchesConfirmed` | a saved match was confirmed by a lookup |
| `HonestOutcomes` | a sync that changed Hardcover ends as synced or failed (but for a recovered creation), one with a failed change as failed; a dry run changes nothing |
| `OwnershipSeen` | recorded ownership was seen or accepted |
| `WritesConfirmed` | writes go to confirmed editions only |
| `CurrentEarned` | an item skipped as current once reached its status |

### UserBooks_proofs

Assumptions: the special values differ from the others, a request is sent at least
once, the bounds are natural numbers.  The invariant says that a cached id names a
user book of its book or one that was removed, that an edition's cached id may
only be out of date once the book's id is cached too or the reader changed the row
(`Caches`), and where an item stands (`Position`).  The second half of `Caches` is the reason why the stale entry does
no harm: an item asks by book first.

| Theorem | Establishes |
|---|---|
| `EditionsResolved` | no item goes on with the user book of another edition, unless the reader changed it |

### EditionCreate_proofs

Assumptions: the bounds are natural numbers and the retention is positive.  `Gate`
says what the profile gate excludes, `WriteOnce` what the journal tells of
writes, `Progress` where the request at hand stands, `Verified` that a saved
match is the edition Hardcover has.  The refinement is proved step by step: each
action is a step of `EditionLedger` for the run it touches, or none, and `WriteOnce`
supplies what the ledger's guards ask for.

| Theorem | Establishes |
|---|---|
| `TypeCorrect` | types |
| `MatchVerified` | a saved match is the edition that Hardcover returned |
| `HonestAnswers` | no answer claims more than was settled |
| `TokenIsKept` | the token that can settle an open attempt is not lost |
| `LedgerImplemented` | every step is a step of `EditionLedger` or none |

### RateLimiter_proofs

Assumptions: the limits are positive, callers are finitely many, responses have
their type.  The argument has two levels.  `Evolves(s, t)` collects what a
change of the schedule keeps: a pause is not shortened, a change that moves an
admission is announced, the daily marker agrees with the pause, the interval
stays within its bounds.  It is shown for each function, composes, and so holds
of every outcome of `applyRateLimitHeaders`.  The invariant is then `TypeOK`,
the balance of permits, and `Timely`: the last admission is not in the future,
the interval within its bounds, every pause asked for is over or in force, and
nobody sleeps past the moment he may go.  The balance is needed for the type: a
returned permit stays within the limit only because its holder counted.

| Theorem | Establishes |
|---|---|
| `TypeCorrect` | types, and never more permits than configured |
| `PermitsKept` | every request gives its permit back exactly once |
| `NoLostWakeUp` | no caller sleeps past the moment the schedule lets him go |
| `DailyPauseExact` | the reported daily pause ends when the pause in force ends |
| `AdmissionsKeepInterval` | admissions keep the configured interval, cut to its bound |
| `PausesHold` | no later response shortens a pause a server asked for |
| `BackoffNeverSpeedsUp` | an unguided 429 never lowers the interval, if the configured one is within its bound |

### EditionLedger_proofs

No assumption but that runs form a set.  The invariant says that no run was
written twice, and that what is open or absent was not written; it is inductive
because a pending run is withdrawn only while unwritten.

| Theorem | Establishes |
|---|---|
| `LedgerOpenIsUnwritten` | for any set of runs, no run is written twice and an open one was not written |

What a recursive definition computes for every input is out of the prover's reach as
well; no theorem depends on one.  ENABLED and liveness stay with TLC.

## 6. Not modelled

* Request decoding, response shaping, the web interface and the command line:
  front ends without state of their own.
* Network security policy, encryption, SQL drivers and migrations: I/O and
  one-time work without interleavings.
* Authentication: sessions are rows of the database that a request reads and
  writes in one step; the OIDC protocol is its library's.
* Configuration, the draft of an edition, the comparison with Audnex and the
  fields of a mismatch: conversions of data at one point, without later steps.
* The capability cache, the export directory of mismatches, the sidecar lock of
  the state file and the migration of its path: state of their own, planned below.
* In the modelled components: cover images, the resync of a single item after a
  create, corrections of metadata, the similarity of titles (any search result
  asks for a review), profile CRUD.
* Functions of the client that nothing calls (`CheckExistingFinishedRead`,
  `UpdateUserBook`, `SearchBookByTitleAuthor` and others).
* Metrics and logging everywhere.

## 7. Plan

In this order:

1. `CapabilityCache`: single-flight probes and their invalidation by credentials.
2. `StateFile`: two processes, the sidecar lock and the migration of the path.
3. `MismatchExport`: profiles that share an export directory.
4. An abstract specification of the dates of finished reads (what is owed, what is
   restored), implemented by `FinishedReads` but for copies and undone repairs.
