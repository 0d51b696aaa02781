--------------------------- MODULE RunLifecycle ---------------------------
(***************************************************************************)
(* The life of a synchronization run: acceptance, FIFO execution, the      *)
(* phases of the sync service, cancellation, profile deletion, service     *)
(* shutdown and process restart (internal/multiuser/service.go), over the  *)
(* durable run reports (internal/database/repository.go) and the phase     *)
(* machine of the sync service (internal/sync/service.go).                 *)
(*                                                                         *)
(* A run is named by its generation.  Run IDs are built from a nanosecond  *)
(* clock under the profile gate, so a profile has one ID per generation    *)
(* and the code's pairwise checks on (runID, generation) are checks on the *)
(* generation.  A time such as LastSuccessfulAt is named by the run that   *)
(* set it, 0 standing for nil.                                             *)
(*                                                                         *)
(* Every critical section of one mutex is one step, except the sections    *)
(* of the profile gate (gate.mu) that other goroutines can see the middle  *)
(* of: cancellation and deletion keep the gate over several steps.         *)
(***************************************************************************)
EXTENDS RunLedger, FiniteSets, FiniteSetsExt

CONSTANTS Books,       \* bound on the books one run processes
          MaxStarts,   \* bound on start requests waiting at one gate
          MaxFaults,   \* bound on failing database calls
          MaxRestarts, \* bound on process restarts
          MaxShutdowns,\* bound on calls of Shutdown
          Retention,   \* terminal reports kept per profile
          DryRuns      \* what the dry-run setting may be when a run starts

ASSUME BoundsAssumption ==
  /\ MaxRuns \in Nat /\ Books \in Nat /\ MaxStarts \in Nat
  /\ MaxFaults \in Nat /\ MaxRestarts \in Nat /\ MaxShutdowns \in Nat

\* SetSyncRunReportRetention replaces a non-positive limit by the default.
ASSUME RetentionAssumption == Retention \in Nat \ {0}

ASSUME DryRunsAssumption == DryRuns \subseteq BOOLEAN

VARIABLES
  row,        \* durable: profile -> "active", or "inactive" once deleted
  \* lifecycle maps of MultiUserService, all lost in a restart
  syncing,    \* profile -> it has a cancel function in activeSyncs
  active,     \* profile -> generation in activeRuns, 0 when absent
  latest,     \* profile -> generation in latestRuns, 0 when absent
  canceled,   \* profile -> latestRuns[profile].canceled
  service,    \* profile -> generation in serviceRuns, 0 when absent
  status,     \* profile -> entry of profileStatuses
  \* profile gate
  gate,       \* profile -> who holds gate.mu across steps
  cancelStep, \* profile -> progress of cancelSyncLocked
  sawService, \* profile -> that cancellation found the run's sync service
  nextTicket, serving,   \* execution tickets of the profile
  starting,   \* profile -> starts admitted and waiting for the gate
  deleteStep, \* profile -> progress of DeleteProfile
  \* workers: profile -> generation -> ...
  pc, ticket, phase, requested, ctxDone, books,
  \* shutdown
  closing, shutdownStep,
  targets,    \* profiles whose cancellation Shutdown started and has not ended
  admitted,   \* those of them whose cancellation passed the admission check
  \* bounds
  faults, restarts, shutdowns

mapVars      == <<syncing, active, latest, canceled, service>>
gateVars     == <<gate, cancelStep, sawService>>
ticketVars   == <<nextTicket, serving, ticket>>
workVars     == <<phase, requested, ctxDone, books>>
shutdownVars == <<closing, shutdownStep, targets, admitted>>
boundVars    == <<faults, restarts, shutdowns>>
vars == <<ledgerVars, row, mapVars, status, gateVars, ticketVars, starting,
          deleteStep, pc, workVars, shutdownVars, boundVars>>

NoStatus == [gen |-> 0, state |-> "none", tried |-> 0, good |-> 0]

Executing == {"turn", "setup", "abort", "register", "sync", "checkpoint",
              "publish", "unregister", "finish", "release"}
PCs == {"none", "waiting", "done"} \cup Executing

Live(p, g) == pc[p][g] \notin {"none", "done"}
NoWorkers(p) == \A g \in Gens : ~Live(p, g)

VolatileInit ==
  /\ syncing    = [p \in Profiles |-> FALSE]
  /\ active     = [p \in Profiles |-> 0]
  /\ latest     = [p \in Profiles |-> 0]
  /\ canceled   = [p \in Profiles |-> FALSE]
  /\ service    = [p \in Profiles |-> 0]
  /\ status     = [p \in Profiles |-> NoStatus]
  /\ gate       = [p \in Profiles |-> "free"]
  /\ cancelStep = [p \in Profiles |-> "idle"]
  /\ sawService = [p \in Profiles |-> FALSE]
  /\ nextTicket = [p \in Profiles |-> 0]
  /\ serving    = [p \in Profiles |-> 0]
  /\ starting   = [p \in Profiles |-> 0]
  /\ deleteStep = [p \in Profiles |-> "none"]
  /\ pc         = [p \in Profiles |-> [g \in Gens |-> "none"]]
  /\ ticket     = [p \in Profiles |-> [g \in Gens |-> 0]]
  /\ phase      = [p \in Profiles |-> [g \in Gens |-> "queued"]]
  /\ requested  = [p \in Profiles |-> [g \in Gens |-> FALSE]]
  /\ ctxDone    = [p \in Profiles |-> [g \in Gens |-> FALSE]]
  /\ books      = [p \in Profiles |-> [g \in Gens |-> 0]]
  /\ closing = FALSE /\ shutdownStep = "none" /\ targets = {} /\ admitted = {}

Init ==
  /\ LedgerInit
  /\ row = [p \in Profiles |-> "active"]
  /\ VolatileInit
  /\ faults = 0 /\ restarts = 0 /\ shutdowns = 0

---------------------------------------------------------------------------
(* Repository                                                              *)

\* retainNewestSyncRunReports: the newest Retention terminal reports stay.
Retained(rows) ==
  [g \in Gens |->
     IF /\ rows[g] \in Terminal
        /\ Cardinality({h \in Gens : h > g /\ rows[h] \in Terminal})
             >= Retention
       THEN "absent" ELSE rows[g]]

\* AcceptSyncRun: above the authoritative state row and every report row.
NextGeneration(p) ==
  LET kept    == {g \in Gens : reports[p][g] # "absent"}
      highest == IF kept = {} THEN 0 ELSE Max(kept)
      after   == attempted[p] + 1
  IN  IF highest >= after THEN highest + 1 ELSE after

AcceptSyncRun(p, g, d) ==
  /\ reports' = [reports EXCEPT ![p] = Retained(
       [h \in Gens |-> CASE h = g -> "queued"
                         [] h # g /\ @[h] = "queued" -> "absent"
                         [] OTHER -> @[h]])]
  /\ attempted' = [attempted EXCEPT ![p] = g]
  /\ dry' = [dry EXCEPT ![p][g] = d]
  /\ UNCHANGED succeeded

\* UpsertSyncRunReportContext for a terminal report of run g.
StaleReport(p, g) == attempted[p] # g

\* Mutant: a dry run moves the success time.
Mut_UpsertTerminal(p, g, outcome) ==
  /\ ~StaleReport(p, g)
  /\ reports' = [reports EXCEPT ![p] = Retained([@ EXCEPT ![g] = outcome])]
  /\ succeeded' = IF outcome = "completed" THEN [succeeded EXCEPT ![p] = g]
                                           ELSE succeeded
  /\ UNCHANGED <<dry, attempted>>

UpsertTerminal(p, g, outcome) ==
  /\ ~StaleReport(p, g)
  /\ reports' = [reports EXCEPT ![p] = Retained([@ EXCEPT ![g] = outcome])]
  /\ succeeded' = IF /\ outcome = "completed" /\ ~dry[p][g]
                     /\ reports[p][g] # "completed"
                    THEN [succeeded EXCEPT ![p] = g]
                    ELSE succeeded
  /\ UNCHANGED <<dry, attempted>>

Fault ==
  faults < MaxFaults /\ faults' = faults + 1 /\ UNCHANGED <<restarts, shutdowns>>

---------------------------------------------------------------------------
(* Reading the lifecycle maps                                              *)

\* latestRunIsCurrent.  latestRuns has an entry whenever activeRuns has one,
\* so the fallback to activeRuns is never taken.
Current(p, g) == latest[p] = g /\ ~canceled[p]

\* currentSyncServiceLocked: a registered service of the active run.
ServiceCurrent(p) == service[p] # 0 /\ service[p] = active[p]

Deleting(p) == deleteStep[p] # "none"
GateDeleted(p) == deleteStep[p] \in {"draining", "deleted"}

\* priorSuccessfulTime: memory first, then the state row.
PriorSuccess(p) == IF status[p].good # 0 THEN status[p].good ELSE succeeded[p]

---------------------------------------------------------------------------
(* Starting                                                                *)

\* Mutant: admission ignores the shutdown flag.
Mut_StartAdmit(p) ==
  /\ ~Deleting(p)
  /\ starting[p] < MaxStarts
  /\ starting' = [starting EXCEPT ![p] = @ + 1]
  /\ UNCHANGED <<ledgerVars, row, mapVars, status, gateVars, ticketVars,
                 deleteStep, pc, workVars, shutdownVars, boundVars>>

\* beginSyncStart
StartAdmit(p) ==
  /\ ~closing /\ ~Deleting(p)
  /\ starting[p] < MaxStarts
  /\ starting' = [starting EXCEPT ![p] = @ + 1]
  /\ UNCHANGED <<ledgerVars, row, mapVars, status, gateVars, ticketVars,
                 deleteStep, pc, workVars, shutdownVars, boundVars>>

\* The accepting path of StartSyncWithAcceptedRun, under gate.mu.
StartAccept(p) ==
  LET g == NextGeneration(p) IN
  /\ starting[p] > 0 /\ gate[p] = "free"
  /\ ~GateDeleted(p) /\ ~syncing[p] /\ row[p] = "active"
  /\ g \in Gens
  /\ \E d \in DryRuns : AcceptSyncRun(p, g, d)
  /\ syncing'  = [syncing EXCEPT ![p] = TRUE]
  /\ active'   = [active EXCEPT ![p] = g]
  /\ latest'   = [latest EXCEPT ![p] = g]
  /\ canceled' = [canceled EXCEPT ![p] = FALSE]
  /\ status'   = [status EXCEPT ![p] =
       [gen |-> g, state |-> "queued", tried |-> g, good |-> PriorSuccess(p)]]
  /\ ticket'     = [ticket EXCEPT ![p][g] = nextTicket[p]]
  /\ nextTicket' = [nextTicket EXCEPT ![p] = @ + 1]
  /\ pc'         = [pc EXCEPT ![p][g] = "waiting"]
  /\ starting'   = [starting EXCEPT ![p] = @ - 1]
  /\ UNCHANGED <<row, service, gateVars, serving, deleteStep, workVars,
                 shutdownVars, boundVars>>

\* Mutant: a rejected start does not end.
Mut_StartNeverEnds(p) ==
  /\ starting[p] > 0 /\ gate[p] = "free"
  /\ UNCHANGED vars

\* The rejecting paths: deleted gate, active sync, missing profile, a state
\* path that no longer validates, or an acceptance the database refuses.
StartReject(p) ==
  /\ starting[p] > 0 /\ gate[p] = "free"
  /\ starting' = [starting EXCEPT ![p] = @ - 1]
  /\ UNCHANGED <<ledgerVars, row, mapVars, status, gateVars, ticketVars,
                 deleteStep, pc, workVars, shutdownVars, boundVars>>

---------------------------------------------------------------------------
(* Cancellation: cancelSyncLocked, with gate.mu held throughout            *)

\* Mutant: the published status is not consulted once the service is gone.
Mut_CancelAccepted(p) ==
  /\ syncing[p] /\ active[p] # 0
  /\ ServiceCurrent(p) =>
       phase[p][active[p]] \notin {"finalizing"} \cup Terminal

\* First section of syncMutex.  The sync service refuses once it finalizes;
\* without a service the published status decides.
CancelAccepted(p) ==
  /\ syncing[p] /\ active[p] # 0
  /\ ServiceCurrent(p) =>
       phase[p][active[p]] \notin {"finalizing"} \cup Terminal
  /\ ~(status[p].gen = active[p] /\ status[p].state \in Terminal)

CancelReserve(p, holder) ==
  /\ gate'       = [gate EXCEPT ![p] = holder]
  /\ cancelStep' = [cancelStep EXCEPT ![p] = "detach"]
  /\ sawService' = [sawService EXCEPT ![p] = ServiceCurrent(p)]
  /\ requested'  = IF ServiceCurrent(p)
                     THEN [requested EXCEPT ![p][active[p]] = TRUE]
                     ELSE requested
  /\ canceled'   = [canceled EXCEPT ![p] = (latest[p] = active[p]) \/ @]
  /\ syncing'    = [syncing EXCEPT ![p] = FALSE]
  /\ UNCHANGED <<ledgerVars, row, active, latest, service, status, ticketVars,
                 starting, pc, phase, ctxDone, books, boundVars>>

\* CancelSync by a user, once it has the gate; the refusals change nothing.
\* Only its admission, which may be long before, asks whether the profile is
\* being deleted: a call that waits at the gate outlives the begin of a
\* deletion.  What was deleted has no active run.
CancelSync(p) ==
  /\ gate[p] = "free"
  /\ CancelAccepted(p)
  /\ CancelReserve(p, "user")
  /\ UNCHANGED <<deleteStep, shutdownVars>>

\* cancel() and the second section of syncMutex.  The canceled run is the
\* latest one: nothing is accepted while the gate is held.
CancelDetach(p) ==
  LET g == latest[p] IN
  /\ cancelStep[p] = "detach"
  /\ cancelStep' = [cancelStep EXCEPT ![p] = "persist"]
  /\ ctxDone' = [ctxDone EXCEPT ![p][g] = TRUE]
  /\ active'  = [active EXCEPT ![p] = IF @ = g THEN 0 ELSE @]
  /\ service' = [service EXCEPT ![p] =
                   IF sawService[p] /\ @ = g THEN 0 ELSE @]
  /\ UNCHANGED <<ledgerVars, row, syncing, latest, canceled, status, gate,
                 sawService, ticketVars, starting, deleteStep, pc, phase,
                 requested, books, shutdownVars, boundVars>>

\* The gate after a cancellation: DeleteProfile goes on holding it.
ReleaseAfterCancel(p) ==
  /\ cancelStep' = [cancelStep EXCEPT ![p] = "idle"]
  /\ gate' = [gate EXCEPT ![p] = IF @ = "delete" THEN @ ELSE "free"]
  /\ targets' = IF gate[p] = "shutdown" THEN targets \ {p} ELSE targets
  /\ sawService' = [sawService EXCEPT ![p] = FALSE]
  /\ UNCHANGED <<closing, shutdownStep, admitted>>

\* The canceled report is stored and published.
CancelPersist(p) ==
  LET g == latest[p] IN
  /\ cancelStep[p] = "persist"
  /\ UpsertTerminal(p, g, "canceled")
  /\ status' = [status EXCEPT ![p] =
       [gen |-> g, state |-> "canceled", tried |-> g, good |-> @.good]]
  /\ ReleaseAfterCancel(p)
  /\ UNCHANGED <<row, mapVars, ticketVars, starting, deleteStep, pc,
                 workVars, boundVars>>

\* The store fails, or the context of Shutdown expired: the status says so
\* and the report row keeps its pending phase.
CancelPersistFails(p) ==
  LET g == latest[p] IN
  /\ cancelStep[p] = "persist"
  /\ Fault
  /\ status' = [status EXCEPT ![p] =
       [gen |-> g, state |-> "failed", tried |-> g, good |-> @.good]]
  /\ ReleaseAfterCancel(p)
  /\ UNCHANGED <<ledgerVars, row, mapVars, ticketVars, starting, deleteStep,
                 pc, workVars>>

---------------------------------------------------------------------------
(* The worker goroutine of run g: runSyncWorker and performSync            *)

Goto(p, g, where) == pc' = [pc EXCEPT ![p][g] = where]

\* Mutant: a worker does not wait for its ticket.
Mut_TakeTurn(p, g) ==
  /\ pc[p][g] = "waiting" /\ gate[p] = "free"
  /\ Goto(p, g, "turn")
  /\ UNCHANGED <<ledgerVars, row, mapVars, status, gateVars, ticketVars,
                 starting, deleteStep, workVars, shutdownVars, boundVars>>

\* waitForExecution
TakeTurn(p, g) ==
  /\ pc[p][g] = "waiting" /\ gate[p] = "free"
  /\ ticket[p][g] = serving[p]
  /\ Goto(p, g, "turn")
  /\ UNCHANGED <<ledgerVars, row, mapVars, status, gateVars, ticketVars,
                 starting, deleteStep, workVars, shutdownVars, boundVars>>

\* Mutant: a stale worker returns without releasing its ticket.
Mut_CheckTurn(p, g) ==
  /\ pc[p][g] = "turn"
  /\ Goto(p, g, IF Current(p, g) THEN "setup" ELSE "done")
  /\ UNCHANGED <<ledgerVars, row, mapVars, status, gateVars, ticketVars,
                 starting, deleteStep, workVars, shutdownVars, boundVars>>

\* A canceled or replaced run stops here, before any external work.
CheckTurn(p, g) ==
  /\ pc[p][g] = "turn"
  /\ Goto(p, g, IF Current(p, g) THEN "setup" ELSE "release")
  /\ UNCHANGED <<ledgerVars, row, mapVars, status, gateVars, ticketVars,
                 starting, deleteStep, workVars, shutdownVars, boundVars>>

\* Legacy state migration or the Audiobookshelf client fails.
SetupFails(p, g) ==
  /\ pc[p][g] = "setup"
  /\ Goto(p, g, IF active[p] = g THEN "abort" ELSE "finish")
  /\ UNCHANGED <<ledgerVars, row, mapVars, status, gateVars, ticketVars,
                 starting, deleteStep, workVars, shutdownVars, boundVars>>

SetupDone(p, g) ==
  /\ pc[p][g] = "setup"
  /\ Goto(p, g, IF active[p] = g THEN "register" ELSE "finish")
  /\ UNCHANGED <<ledgerVars, row, mapVars, status, gateVars, ticketVars,
                 starting, deleteStep, workVars, shutdownVars, boundVars>>

RegisterService(p, g) ==
  /\ pc[p][g] = "register"
  /\ Goto(p, g, IF active[p] = g THEN "sync" ELSE "finish")
  /\ service' = [service EXCEPT ![p] = IF active[p] = g THEN g ELSE @]
  /\ UNCHANGED <<ledgerVars, row, syncing, active, latest, canceled, status,
                 gateVars, ticketVars, starting, deleteStep, workVars,
                 shutdownVars, boundVars>>

\* transitionRunPhase(to): a reserved cancellation turns any other end into
\* canceled, and is consumed by the end it caused.
EndPhase(p, g, outcome) ==
  /\ phase' = [phase EXCEPT ![p][g] =
                 IF requested[p][g] THEN "canceled" ELSE outcome]
  /\ requested' = [requested EXCEPT ![p][g] = FALSE]
  /\ Goto(p, g, "publish")
  /\ UNCHANGED <<ctxDone, books>>

\* Sync: the books are counted, processing begins.
SyncRuns(p, g) ==
  /\ pc[p][g] = "sync" /\ phase[p][g] = "queued"
  /\ phase' = [phase EXCEPT ![p][g] = "running"]
  /\ Goto(p, g, "checkpoint")
  /\ UNCHANGED <<ledgerVars, row, mapVars, status, gateVars, ticketVars,
                 starting, deleteStep, requested, ctxDone, books,
                 shutdownVars, boundVars>>

\* processLibraryItems: one book, then its checkpoint.
SyncBook(p, g) ==
  /\ pc[p][g] = "sync" /\ phase[p][g] = "running"
  /\ ~ctxDone[p][g] /\ books[p][g] < Books
  /\ books' = [books EXCEPT ![p][g] = @ + 1]
  /\ Goto(p, g, "checkpoint")
  /\ UNCHANGED <<ledgerVars, row, mapVars, status, gateVars, ticketVars,
                 starting, deleteStep, phase, requested, ctxDone,
                 shutdownVars, boundVars>>

\* Finalization and cancellation exclude each other (RequestCancellation).
SyncFinalizes(p, g) ==
  /\ pc[p][g] = "sync" /\ phase[p][g] = "running"
  /\ ~ctxDone[p][g] /\ ~requested[p][g]
  /\ phase' = [phase EXCEPT ![p][g] = "finalizing"]
  /\ Goto(p, g, "checkpoint")
  /\ UNCHANGED <<ledgerVars, row, mapVars, status, gateVars, ticketVars,
                 starting, deleteStep, requested, ctxDone, books,
                 shutdownVars, boundVars>>

SyncStops(p, g) ==
  /\ pc[p][g] = "sync" /\ phase[p][g] = "running"
  /\ ctxDone[p][g] \/ requested[p][g]
  /\ EndPhase(p, g, "canceled")
  /\ UNCHANGED <<ledgerVars, row, mapVars, status, gateVars, ticketVars,
                 starting, deleteStep, shutdownVars, boundVars>>

\* Sync returns an error: the state lock, the state file, a library fetch, a
\* state checkpoint or the final save.  An error seen after the context was
\* canceled may be that cancellation.
SyncFails(p, g) ==
  /\ pc[p][g] = "sync" /\ phase[p][g] \in Pending
  /\ \E outcome \in (IF ctxDone[p][g] THEN {"failed", "canceled"} ELSE {"failed"}) :
       EndPhase(p, g, outcome)
  /\ UNCHANGED <<ledgerVars, row, mapVars, status, gateVars, ticketVars,
                 starting, deleteStep, shutdownVars, boundVars>>

SyncCompletes(p, g) ==
  /\ pc[p][g] = "sync" /\ phase[p][g] = "finalizing"
  /\ EndPhase(p, g, IF ctxDone[p][g] THEN "canceled" ELSE "completed")
  /\ UNCHANGED <<ledgerVars, row, mapVars, status, gateVars, ticketVars,
                 starting, deleteStep, shutdownVars, boundVars>>

---------------------------------------------------------------------------
(* Checkpoints and terminal publication                                    *)

\* Mutant: a late checkpoint is stored whatever became of the run.
Mut_CheckpointSkipped(p, g) == Deleting(p)

\* persistActiveSnapshot has nothing to store: the profile is going away, the
\* run is no longer current, or its report row left the pending phases.
CheckpointSkipped(p, g) ==
  \/ Deleting(p)
  \/ /\ gate[p] = "free"
     /\ \/ ~Current(p, g)
        \/ active[p] # g
        \/ reports[p][g] \notin Pending
        \/ StaleReport(p, g)

CheckpointSkip(p, g) ==
  /\ pc[p][g] = "checkpoint" /\ CheckpointSkipped(p, g)
  /\ Goto(p, g, "sync")
  /\ UNCHANGED <<ledgerVars, row, mapVars, status, gateVars, ticketVars,
                 starting, deleteStep, workVars, shutdownVars, boundVars>>

\* UpsertSyncRunCheckpointContext
CheckpointStore(p, g) ==
  /\ pc[p][g] = "checkpoint"
  /\ gate[p] = "free" /\ ~CheckpointSkipped(p, g)
  /\ reports' = [reports EXCEPT ![p][g] = phase[p][g]]
  /\ Goto(p, g, "sync")
  /\ UNCHANGED <<dry, attempted, succeeded, row, mapVars, status, gateVars,
                 ticketVars, starting, deleteStep, workVars, shutdownVars,
                 boundVars>>

\* A checkpoint the database refuses ends the run.
CheckpointFails(p, g) ==
  /\ pc[p][g] = "checkpoint"
  /\ gate[p] = "free" /\ ~CheckpointSkipped(p, g)
  /\ Fault
  /\ EndPhase(p, g, "failed")
  /\ UNCHANGED <<ledgerVars, row, mapVars, status, gateVars, ticketVars,
                 starting, deleteStep, shutdownVars>>

\* Mutants: the worker does not look whether the profile is being deleted,
\* or whether its run was canceled or replaced.
Mut_PublishDeleted(p, g) == gate[p] = "free" /\ ~Current(p, g)
Mut_PublishStale(p, g) == Deleting(p)

\* publishFinalStatus refuses a profile that is going away, and under the
\* gate a run that was canceled or replaced.
PublishRefused(p, g) == Deleting(p) \/ (gate[p] = "free" /\ ~Current(p, g))

\* A worker publishes from two places: after Sync, and after a failed setup
\* with a status that names neither the attempt nor the last success.
PublishRejected(p, g) ==
  /\ pc[p][g] \in {"publish", "abort"} /\ PublishRefused(p, g)
  /\ Goto(p, g, IF pc[p][g] = "abort" THEN "finish" ELSE "unregister")
  /\ UNCHANGED <<ledgerVars, row, mapVars, status, gateVars, ticketVars,
                 starting, deleteStep, workVars, shutdownVars, boundVars>>

Outcome(p, g) == IF pc[p][g] = "abort" THEN "failed" ELSE phase[p][g]

\* statusForTerminalRun and publishStatusIfLatest
PublishedStatus(p, g, state) ==
  IF pc[p][g] = "abort"
    THEN [gen |-> g, state |-> state, tried |-> 0, good |-> 0]
    ELSE [gen |-> g, state |-> state, tried |-> g,
          good |-> IF state = "completed" /\ ~dry[p][g]
                     THEN g ELSE status[p].good]

PublishFinal(p, g) ==
  /\ pc[p][g] \in {"publish", "abort"}
  /\ gate[p] = "free" /\ ~PublishRefused(p, g)
  /\ UpsertTerminal(p, g, Outcome(p, g))
  /\ status' = [status EXCEPT ![p] = PublishedStatus(p, g, Outcome(p, g))]
  /\ Goto(p, g, IF pc[p][g] = "abort" THEN "finish" ELSE "unregister")
  /\ UNCHANGED <<row, mapVars, gateVars, ticketVars, starting, deleteStep,
                 workVars, shutdownVars, boundVars>>

\* The report cannot be stored: only the status learns of the end.
PublishFails(p, g) ==
  /\ pc[p][g] \in {"publish", "abort"}
  /\ gate[p] = "free" /\ ~PublishRefused(p, g)
  /\ Fault
  /\ status' = [status EXCEPT ![p] = PublishedStatus(p, g, "failed")]
  /\ Goto(p, g, IF pc[p][g] = "abort" THEN "finish" ELSE "unregister")
  /\ UNCHANGED <<ledgerVars, row, mapVars, gateVars, ticketVars, starting,
                 deleteStep, workVars, shutdownVars>>

\* removeSyncService
RemoveService(p, g) ==
  /\ pc[p][g] = "unregister"
  /\ service' = [service EXCEPT ![p] = IF @ = g THEN 0 ELSE @]
  /\ Goto(p, g, "finish")
  /\ UNCHANGED <<ledgerVars, row, syncing, active, latest, canceled, status,
                 gateVars, ticketVars, starting, deleteStep, workVars,
                 shutdownVars, boundVars>>

\* finishActiveRun
FinishActiveRun(p, g) ==
  /\ pc[p][g] = "finish"
  /\ active'  = [active EXCEPT ![p] = IF @ = g THEN 0 ELSE @]
  /\ syncing' = [syncing EXCEPT ![p] = active[p] # g /\ @]
  /\ Goto(p, g, "release")
  /\ UNCHANGED <<ledgerVars, row, latest, canceled, service, status, gateVars,
                 ticketVars, starting, deleteStep, workVars, shutdownVars,
                 boundVars>>

\* releaseExecution, and the goroutine's WaitGroups; what the worker kept for
\* itself ends with it.
ReleaseExecution(p, g) ==
  /\ pc[p][g] = "release" /\ gate[p] = "free"
  /\ serving' = [serving EXCEPT ![p] = IF @ = ticket[p][g] THEN @ + 1 ELSE @]
  /\ Goto(p, g, "done")
  /\ ticket'    = [ticket EXCEPT ![p][g] = 0]
  /\ phase'     = [phase EXCEPT ![p][g] = "queued"]
  /\ requested' = [requested EXCEPT ![p][g] = FALSE]
  /\ ctxDone'   = [ctxDone EXCEPT ![p][g] = FALSE]
  /\ books'     = [books EXCEPT ![p][g] = 0]
  /\ UNCHANGED <<ledgerVars, row, mapVars, status, gateVars, nextTicket,
                 starting, deleteStep, shutdownVars, boundVars>>

---------------------------------------------------------------------------
(* DeleteProfile                                                           *)

DeleteMark(p) ==
  /\ ~Deleting(p)
  /\ deleteStep' = [deleteStep EXCEPT ![p] = "marked"]
  /\ UNCHANGED <<ledgerVars, row, mapVars, status, gateVars, ticketVars,
                 starting, pc, workVars, shutdownVars, boundVars>>

\* The gate is taken and the active run, if one can still be, is canceled.
DeleteLock(p) ==
  /\ deleteStep[p] = "marked" /\ gate[p] = "free"
  /\ deleteStep' = [deleteStep EXCEPT ![p] = "holding"]
  /\ IF CancelAccepted(p)
       THEN CancelReserve(p, "delete")
       ELSE /\ gate' = [gate EXCEPT ![p] = "delete"]
            /\ UNCHANGED <<ledgerVars, row, mapVars, status, cancelStep,
                           sawService, ticketVars, starting, pc, workVars,
                           boundVars>>
  /\ UNCHANGED shutdownVars

DeleteHolds(p) ==
  deleteStep[p] = "holding" /\ gate[p] = "delete" /\ cancelStep[p] = "idle"

DeleteRow(p) ==
  /\ DeleteHolds(p)
  /\ row' = [row EXCEPT ![p] = "inactive"]
  /\ gate' = [gate EXCEPT ![p] = "free"]
  /\ deleteStep' = [deleteStep EXCEPT ![p] = "draining"]
  /\ UNCHANGED <<ledgerVars, mapVars, status, cancelStep, sawService,
                 ticketVars, starting, pc, workVars, shutdownVars, boundVars>>

\* Mutant: the deletion marker of a failed deletion is never taken back.
Mut_DeleteRowFails(p) ==
  /\ DeleteHolds(p)
  /\ Fault
  /\ gate' = [gate EXCEPT ![p] = "free"]
  /\ UNCHANGED <<ledgerVars, row, mapVars, status, cancelStep, sawService,
                 ticketVars, starting, deleteStep, pc, workVars, shutdownVars>>

DeleteRowFails(p) ==
  /\ DeleteHolds(p)
  /\ Fault
  /\ gate' = [gate EXCEPT ![p] = "free"]
  /\ deleteStep' = [deleteStep EXCEPT ![p] = "undo"]
  /\ UNCHANGED <<ledgerVars, row, mapVars, status, cancelStep, sawService,
                 ticketVars, starting, pc, workVars, shutdownVars>>

DeleteUndo(p) ==
  /\ deleteStep[p] = "undo"
  /\ deleteStep' = [deleteStep EXCEPT ![p] = "none"]
  /\ UNCHANGED <<ledgerVars, row, mapVars, status, gateVars, ticketVars,
                 starting, pc, workVars, shutdownVars, boundVars>>

\* Admitted starts and workers are drained, the maps cleared, and the
\* tombstone set.
DeleteDrain(p) ==
  /\ deleteStep[p] = "draining"
  /\ starting[p] = 0 /\ NoWorkers(p)
  /\ status'     = [status EXCEPT ![p] = NoStatus]
  /\ syncing'    = [syncing EXCEPT ![p] = FALSE]
  /\ active'     = [active EXCEPT ![p] = 0]
  /\ latest'     = [latest EXCEPT ![p] = 0]
  /\ canceled'   = [canceled EXCEPT ![p] = FALSE]
  /\ service'    = [service EXCEPT ![p] = 0]
  /\ deleteStep' = [deleteStep EXCEPT ![p] = "deleted"]
  /\ UNCHANGED <<ledgerVars, row, gateVars, ticketVars, starting, pc,
                 workVars, shutdownVars, boundVars>>

---------------------------------------------------------------------------
(* Shutdown, status reads and restarts                                     *)

ShutdownBegin ==
  /\ shutdownStep \in {"none", "timedout"}
  /\ shutdowns < MaxShutdowns
  /\ shutdowns' = shutdowns + 1
  /\ closing' = TRUE
  /\ shutdownStep' = "starts"
  /\ UNCHANGED <<ledgerVars, row, mapVars, status, gateVars, ticketVars,
                 starting, deleteStep, pc, workVars, targets, admitted, faults,
                 restarts>>

\* No start is pending and the cancellations of an earlier call are over:
\* one cancellation is launched per active profile.
ShutdownCollect ==
  /\ shutdownStep = "starts"
  /\ \A p \in Profiles : starting[p] = 0
  /\ targets = {}
  /\ targets' = {p \in Profiles : syncing[p]}
  /\ shutdownStep' = "cancels"
  /\ UNCHANGED <<ledgerVars, row, mapVars, status, gateVars, ticketVars,
                 starting, deleteStep, pc, workVars, closing, admitted,
                 boundVars>>

\* A launched cancellation that has neither been admitted nor got the gate.
Launched(p) == p \in targets \ admitted /\ gate[p] # "shutdown"

ShutdownAdmit(p) ==
  /\ Launched(p) /\ ~Deleting(p)
  /\ admitted' = admitted \cup {p}
  /\ UNCHANGED <<ledgerVars, row, mapVars, status, gateVars, ticketVars,
                 starting, deleteStep, pc, workVars, closing, shutdownStep,
                 targets, boundVars>>

\* The admitted call gets the gate, whatever a deletion did meanwhile.
ShutdownCancel(p) ==
  /\ p \in admitted /\ gate[p] = "free"
  /\ CancelAccepted(p)
  /\ CancelReserve(p, "shutdown")
  /\ admitted' = admitted \ {p}
  /\ UNCHANGED <<deleteStep, closing, shutdownStep, targets>>

\* A deletion owns the profile, or the run ended by itself.
ShutdownCancelRejected(p) ==
  /\ \/ Launched(p) /\ Deleting(p)
     \/ p \in admitted /\ gate[p] = "free" /\ ~CancelAccepted(p)
  /\ targets' = targets \ {p}
  /\ admitted' = admitted \ {p}
  /\ UNCHANGED <<ledgerVars, row, mapVars, status, gateVars, ticketVars,
                 starting, deleteStep, pc, workVars, closing, shutdownStep,
                 boundVars>>

ShutdownCanceled ==
  /\ shutdownStep = "cancels" /\ targets = {}
  /\ shutdownStep' = "workers"
  /\ UNCHANGED <<ledgerVars, row, mapVars, status, gateVars, ticketVars,
                 starting, deleteStep, pc, workVars, closing, targets,
                 admitted, boundVars>>

ShutdownReturn ==
  /\ shutdownStep = "workers"
  /\ \A p \in Profiles : NoWorkers(p)
  /\ shutdownStep' = "returned"
  /\ UNCHANGED <<ledgerVars, row, mapVars, status, gateVars, ticketVars,
                 starting, deleteStep, pc, workVars, closing, targets,
                 admitted, boundVars>>

\* Any of the three waits gives up when the context of the call is done.
ShutdownTimeout ==
  /\ shutdownStep \in {"starts", "cancels", "workers"}
  /\ shutdownStep' = "timedout"
  /\ UNCHANGED <<ledgerVars, row, mapVars, status, gateVars, ticketVars,
                 starting, deleteStep, pc, workVars, closing, targets,
                 admitted, boundVars>>

\* restoreAggregateProfileStatus: the status that the database still knows.
Restored(p) ==
  LET ended  == {g \in Gens : reports[p][g] \in Terminal}
      newest == Max(ended)
  IN
  IF ended = {}
    THEN [NoStatus EXCEPT !.tried = attempted[p], !.good = succeeded[p]]
    ELSE [gen   |-> newest,
          state |-> reports[p][newest],
          tried |-> IF attempted[p] # 0 THEN attempted[p] ELSE newest,
          good  |-> IF /\ succeeded[p] = 0 /\ ~dry[p][newest]
                       /\ reports[p][newest] = "completed"
                      THEN newest ELSE succeeded[p]]

\* A status poll of an active profile without a status restores one, unless
\* another came first (cacheStatusIfAbsent).
RestoreStatus(p) ==
  /\ row[p] = "active" /\ status[p] = NoStatus
  /\ status' = [status EXCEPT ![p] = Restored(p)]
  /\ UNCHANGED <<ledgerVars, row, mapVars, gateVars, ticketVars, starting,
                 deleteStep, pc, workVars, shutdownVars, boundVars>>

\* The process dies at any point, or exits after Shutdown, and the next one
\* reconciles the interrupted reports before it admits work (main.go).
Restart ==
  /\ restarts < MaxRestarts
  /\ restarts' = restarts + 1
  /\ reports' = [p \in Profiles |-> Retained(
       [g \in Gens |-> IF reports[p][g] \in Pending THEN "failed"
                                                    ELSE reports[p][g]])]
  /\ syncing'    = [p \in Profiles |-> FALSE]
  /\ active'     = [p \in Profiles |-> 0]
  /\ latest'     = [p \in Profiles |-> 0]
  /\ canceled'   = [p \in Profiles |-> FALSE]
  /\ service'    = [p \in Profiles |-> 0]
  /\ status'     = [p \in Profiles |-> NoStatus]
  /\ gate'       = [p \in Profiles |-> "free"]
  /\ cancelStep' = [p \in Profiles |-> "idle"]
  /\ sawService' = [p \in Profiles |-> FALSE]
  /\ nextTicket' = [p \in Profiles |-> 0]
  /\ serving'    = [p \in Profiles |-> 0]
  /\ starting'   = [p \in Profiles |-> 0]
  /\ deleteStep' = [p \in Profiles |-> "none"]
  /\ pc'         = [p \in Profiles |-> [g \in Gens |-> "none"]]
  /\ ticket'     = [p \in Profiles |-> [g \in Gens |-> 0]]
  /\ phase'      = [p \in Profiles |-> [g \in Gens |-> "queued"]]
  /\ requested'  = [p \in Profiles |-> [g \in Gens |-> FALSE]]
  /\ ctxDone'    = [p \in Profiles |-> [g \in Gens |-> FALSE]]
  /\ books'      = [p \in Profiles |-> [g \in Gens |-> 0]]
  /\ closing' = FALSE /\ shutdownStep' = "none" /\ targets' = {} /\ admitted' = {}
  /\ UNCHANGED <<dry, attempted, succeeded, row, faults, shutdowns>>

---------------------------------------------------------------------------
(* Specification                                                           *)

\* The steps the goroutine of run g takes by itself.
Worker(p, g) ==
  \/ TakeTurn(p, g)        \/ CheckTurn(p, g)
  \/ SetupFails(p, g)      \/ SetupDone(p, g)
  \/ RegisterService(p, g)
  \/ SyncRuns(p, g)        \/ SyncBook(p, g)
  \/ SyncFinalizes(p, g)   \/ SyncStops(p, g)
  \/ SyncFails(p, g)       \/ SyncCompletes(p, g)
  \/ CheckpointSkip(p, g)  \/ CheckpointStore(p, g)
  \/ CheckpointFails(p, g)
  \/ PublishRejected(p, g) \/ PublishFinal(p, g)
  \/ PublishFails(p, g)
  \/ RemoveService(p, g)   \/ FinishActiveRun(p, g)
  \/ ReleaseExecution(p, g)

\* Steps of a request that is already inside the service.
Cancellation(p) == CancelDetach(p) \/ CancelPersist(p) \/ CancelPersistFails(p)
Starting(p) == StartAccept(p) \/ StartReject(p)
Deletion(p) ==
  \/ DeleteLock(p) \/ DeleteRow(p) \/ DeleteRowFails(p)
  \/ DeleteUndo(p) \/ DeleteDrain(p)
ShuttingDown ==
  \/ ShutdownCollect \/ ShutdownCanceled \/ ShutdownReturn
  \/ \E p \in Profiles :
       ShutdownAdmit(p) \/ ShutdownCancel(p) \/ ShutdownCancelRejected(p)

\* Requests, polls, expiring contexts and crashes come from outside.
Environment ==
  \/ \E p \in Profiles :
       StartAdmit(p) \/ CancelSync(p) \/ DeleteMark(p) \/ RestoreStatus(p)
  \/ ShutdownBegin \/ ShutdownTimeout
  \/ Restart

Next ==
  \/ \E p \in Profiles : Cancellation(p) \/ Starting(p) \/ Deletion(p)
  \/ \E p \in Profiles, g \in Gens : Worker(p, g)
  \/ ShuttingDown
  \/ Environment

Spec == Init /\ [][Next]_vars

\* Goroutines are scheduled, and calls that hold a gate return: database
\* calls and the HTTP clients have timeouts.  No request is fair.
Fairness ==
  /\ \A p \in Profiles, g \in Gens : WF_vars(Worker(p, g))
  /\ \A p \in Profiles : /\ WF_vars(Cancellation(p))
                         /\ WF_vars(Starting(p))
                         /\ WF_vars(Deletion(p))
  /\ WF_vars(ShuttingDown)

FairSpec == Spec /\ Fairness

---------------------------------------------------------------------------
(* Types                                                                   *)

Statuses == [gen: 0..MaxRuns, state: RowStates \cup {"none"},
             tried: 0..MaxRuns, good: 0..MaxRuns]

\* The type of every variable.
TypeOK ==
  /\ reports   \in [Profiles -> [Gens -> RowStates]]
  /\ dry       \in [Profiles -> [Gens -> BOOLEAN]]
  /\ attempted \in [Profiles -> 0..MaxRuns]
  /\ succeeded \in [Profiles -> 0..MaxRuns]
  /\ row       \in [Profiles -> {"active", "inactive"}]
  /\ syncing   \in [Profiles -> BOOLEAN]
  /\ active    \in [Profiles -> 0..MaxRuns]
  /\ latest    \in [Profiles -> 0..MaxRuns]
  /\ canceled  \in [Profiles -> BOOLEAN]
  /\ service   \in [Profiles -> 0..MaxRuns]
  /\ status    \in [Profiles -> Statuses]
  /\ gate       \in [Profiles -> {"free", "user", "shutdown", "delete"}]
  /\ cancelStep \in [Profiles -> {"idle", "detach", "persist"}]
  /\ sawService \in [Profiles -> BOOLEAN]
  /\ nextTicket \in [Profiles -> Nat]
  /\ serving    \in [Profiles -> Nat]
  /\ starting   \in [Profiles -> Nat]
  /\ deleteStep \in [Profiles -> {"none", "marked", "holding", "undo",
                                  "draining", "deleted"}]
  /\ pc         \in [Profiles -> [Gens -> PCs]]
  /\ ticket     \in [Profiles -> [Gens -> Nat]]
  /\ phase      \in [Profiles -> [Gens -> Pending \cup Terminal]]
  /\ requested  \in [Profiles -> [Gens -> BOOLEAN]]
  /\ ctxDone    \in [Profiles -> [Gens -> BOOLEAN]]
  /\ books      \in [Profiles -> [Gens -> 0..Books]]
  /\ closing \in BOOLEAN
  /\ shutdownStep \in {"none", "starts", "cancels", "workers", "returned",
                       "timedout"}
  /\ targets \subseteq Profiles /\ admitted \subseteq Profiles
  /\ faults \in 0..MaxFaults
  /\ restarts \in 0..MaxRestarts
  /\ shutdowns \in 0..MaxShutdowns

---------------------------------------------------------------------------
(* Inductive invariants                                                    *)

\* The maps of MultiUserService agree with the durable generations.  Nothing
\* exists above the newest accepted generation; latestRuns and activeRuns name
\* that one or nothing; an active run has a worker that has not passed
\* finishActiveRun, unless its cancellation is between its two sections of
\* syncMutex; and a cancellation in progress has a run to cancel, whose worker
\* cannot end before the gate is free.
Owned(p) ==
  /\ \A g \in Gens :
       reports[p][g] # "absent" \/ Live(p, g) => g <= attempted[p]
  /\ latest[p] \in {0, attempted[p]}
  /\ active[p] # 0 =>
       /\ active[p] = latest[p]
       /\ Live(p, active[p])
       /\ pc[p][active[p]] = "release" \/ canceled[p] => cancelStep[p] = "detach"
  /\ syncing[p] => active[p] # 0 /\ ~canceled[p]
  /\ cancelStep[p] # "idle" => /\ latest[p] # 0 /\ Live(p, latest[p])
                               /\ canceled[p] /\ gate[p] # "free"
  /\ deleteStep[p] \in {"undo", "draining", "deleted"} => gate[p] # "delete"

Ownership == \A p \in Profiles : Owned(p)

\* The tickets of live workers follow their generations and lie between the
\* counters of the gate; a worker past waitForExecution holds the one served.
Ticketed(p) ==
  /\ serving[p] <= nextTicket[p]
  /\ \A g \in Gens : Live(p, g) =>
       /\ serving[p] <= ticket[p][g] /\ ticket[p][g] < nextTicket[p]
       /\ pc[p][g] \in Executing => ticket[p][g] = serving[p]
  /\ \A g, h \in Gens :
       g < h /\ Live(p, g) /\ Live(p, h) => ticket[p][g] < ticket[p][h]

Tickets == \A p \in Profiles : Ticketed(p)

\* Program points of a worker from which it can still publish its end.
Unsettled == {"waiting", "turn", "setup", "abort", "register", "sync",
              "checkpoint", "publish"}

\* The row of a run stays pending until its end is stored: while its worker
\* can still publish, and while a cancellation has yet to store it.  Where a
\* run is active with a settled row, its status says so, which is what stops
\* a late cancellation.  A row is ahead of its worker only in finalization.
Settled(p) ==
  /\ latest[p] # 0 => status[p].gen = latest[p]
  /\ active[p] # 0 => \/ reports[p][active[p]] \in Pending
                      \/ status[p].state \in Terminal
  /\ cancelStep[p] # "idle" => reports[p][latest[p]] \in Pending
  /\ canceled[p] => /\ latest[p] # 0
                    /\ reports[p][latest[p]] \in Pending \cup {"canceled"}
                    /\ status[p].state # "completed"
  /\ \A g \in Gens :
       /\ Current(p, g) /\ pc[p][g] \in Unsettled => reports[p][g] \in Pending
       /\ reports[p][g] = "finalizing" /\ pc[p][g] \in Unsettled \ {"publish"}
            => pc[p][g] = "sync" /\ phase[p][g] = "finalizing"
       /\ pc[p][g] = "checkpoint" => phase[p][g] \in {"running", "finalizing"}
       /\ pc[p][g] = "publish" => phase[p][g] \in Terminal

Settlement == \A p \in Profiles : Settled(p)

---------------------------------------------------------------------------
(* Safety                                                                  *)

\* Workers of a profile execute one at a time and in acceptance order, even
\* when a run was canceled and replaced while its worker unwinds: while one
\* holds its turn every older worker has released its own.  The sync state
\* file and the mismatch export rely on it (service.go, profileRunGate).
ExecutionOrder ==
  \A p \in Profiles : \A g, h \in Gens :
    g < h /\ pc[p][h] \in Executing => ~Live(p, g)

\* A run whose cancellation was accepted is never stored or shown as
\* completed and never moves last_successful_at, wherever its worker was.
CancellationWins ==
  \A p \in Profiles : canceled[p] =>
    /\ reports[p][latest[p]] # "completed"
    /\ succeeded[p] # latest[p]
    /\ status[p].state # "completed"

\* When the database answers, a profile at rest has no pending report: the
\* end of every accepted run reaches its row, whoever caused it.
RestIsSettled ==
  \A p \in Profiles :
    /\ faults = 0 /\ row[p] = "active" /\ ~Deleting(p)
    /\ gate[p] = "free" /\ NoWorkers(p)
    => \A g \in Gens : reports[p][g] \notin Pending

\* A terminal status in memory repeats the stored report of the same run,
\* unless a store failed: polling and run details tell the same story.
StatusMatchesReport ==
  \A p \in Profiles :
    faults = 0 /\ status[p].state \in Terminal
      => reports[p][status[p].gen] = status[p].state

\* When Shutdown returns without an error no worker is left and none can come.
ShutdownDrains ==
  shutdownStep = "returned" =>
    \A p \in Profiles : NoWorkers(p) /\ starting[p] = 0 /\ ~syncing[p]

\* service.go:513, "cannot persist a report for the deleted profile": no late
\* checkpoint or publication of a worker changes the reports of a deleted
\* profile.  A call of CancelSync or Shutdown that was waiting at the gate may
\* still store the end of the run that is active, and nothing else; startup
\* reconciliation settles what is pending.
DeletedReportsFrozen ==
  [][\A p \in Profiles :
       row[p] = "inactive" /\ restarts' = restarts =>
         \/ reports'[p] = reports[p]
         \/ /\ gate[p] \in {"user", "shutdown"}
            /\ reports[p][latest[p]] \in Pending
            /\ reports'[p] = Retained([reports[p] EXCEPT ![latest[p]] = "canceled"])]_vars

\* The durable history follows the rules of RunLedger: rows advance, settle
\* once, and no step of a stale worker, cancellation or restart demotes them.
ImplementsLedger == LedgerSpec

---------------------------------------------------------------------------
(* Liveness, under FairSpec                                                *)

\* Every accepted worker ends: no worker waits forever for its ticket, the
\* gate or a predecessor.
WorkersEnd ==
  \A p \in Profiles, g \in Gens : Live(p, g) ~> ~Live(p, g)

\* DeleteProfile comes to an end although it waits for the workers it races.
DeletionEnds ==
  \A p \in Profiles : Deleting(p) ~> deleteStep[p] \in {"none", "deleted"}

\* Shutdown comes to an end although it waits for starts, cancellations and
\* workers: a call that never times out returns.
ShutdownEnds ==
  closing ~> shutdownStep \in {"returned", "timedout", "none"}
=============================================================================
