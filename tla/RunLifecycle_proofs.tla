----------------------- MODULE RunLifecycle_proofs -----------------------
(***************************************************************************)
(* Theorems about RunLifecycle for every number of profiles, runs, books,  *)
(* faults, restarts and shutdowns.  The inductive invariant is             *)
(*                                                                         *)
(*   TypeOK /\ Ownership /\ Tickets /\ Settlement                          *)
(*                                                                         *)
(* Each part is proved to be preserved by every action, in an order in     *)
(* which it uses the earlier ones.  ExecutionOrder follows from Tickets,   *)
(* CancellationWins and the refinement of RunLedger from Settlement.       *)
(* Draining, DeletedQuiet, Tending and Agreement are what ShutdownDrains,  *)
(* DeletedReportsFrozen, RestIsSettled and StatusMatchesReport need.       *)
(***************************************************************************)
EXTENDS RunLifecycle, FiniteSetTheorems, WellFoundedInduction, TLAPS

USE DEF ledgerVars, mapVars, gateVars, ticketVars, workVars, shutdownVars,
        boundVars

---------------------------------------------------------------------------
(* Generations and report rows                                             *)

\* Generations are positive, and bounded like the maps that name them.
LEMMA GenBound ==
  /\ Gens \subseteq 0..MaxRuns /\ 0 \in 0..MaxRuns
  /\ Gens \subseteq Nat \ {0}
BY BoundsAssumption DEF Gens

\* The Max of FiniteSetsExt is a maximum on every set of generations.
LEMMA MaxOfGens ==
  ASSUME NEW S \in SUBSET Gens, S # {}
  PROVE  Max(S) \in S /\ \A x \in S : x <= Max(S)
<1> DEFINE Above(x) == {y \in S : y > x}
           Family == {Above(x) : x \in S}
<1>1. IsFiniteSet(Gens)
  BY FS_Interval, BoundsAssumption DEF Gens
<1>2. Family \subseteq FiniteSubsetsOf(Gens)
  BY <1>1, FS_FiniteSubsetsOfFinite
<1>3. PICK A \in Family :
        \A B \in Family : <<B, A>> \notin StrictSubsetOrdering(Gens)
  <2>1. Family # {} OBVIOUS
  <2> HIDE DEF Family
  <2> QED BY <1>2, <2>1, FS_StrictSubsetOrderingWellFounded, WFMin
<1>4. PICK m \in S : A = Above(m) OBVIOUS
<1>5. \A y \in S : m >= y
  <2> SUFFICES ASSUME NEW y \in S, ~(m >= y) PROVE FALSE OBVIOUS
  <2>1. y > m /\ m \in Int /\ y \in Int BY BoundsAssumption DEF Gens
  <2>2. y \in Above(m) /\ y \notin Above(y) BY <2>1
  <2>3. Above(y) \subseteq Above(m)
    <3> SUFFICES ASSUME NEW z \in S, z > y PROVE z > m OBVIOUS
    <3>1. z \in Int BY BoundsAssumption DEF Gens
    <3> QED BY <2>1, <3>1
  <2>4. <<Above(y), Above(m)>> \in StrictSubsetOrdering(Gens)
    BY <2>2, <2>3 DEF StrictSubsetOrdering
  <2> QED BY <1>3, <1>4, <2>4
<1>6. Max(S) \in S /\ \A x \in S : Max(S) >= x
  BY <1>5 DEF Max
<1> QED BY <1>6, BoundsAssumption DEF Gens

\* AcceptSyncRun hands out a generation above every row and every attempt.
LEMMA NextGenerationFresh ==
  ASSUME TypeOK, NEW p \in Profiles
  PROVE  /\ NextGeneration(p) > attempted[p]
         /\ \A h \in Gens : reports[p][h] # "absent" => h < NextGeneration(p)
<1> DEFINE kept == {g \in Gens : reports[p][g] # "absent"}
<1>0. attempted[p] \in Nat BY BoundsAssumption DEF TypeOK
<1>1. CASE kept = {}
  BY <1>0, <1>1, GenBound DEF NextGeneration
<1>2. CASE kept # {}
  <2>1. Max(kept) \in Gens /\ \A x \in kept : x <= Max(kept)
    BY <1>2, MaxOfGens
  <2>2. NextGeneration(p) = IF Max(kept) >= attempted[p] + 1
                              THEN Max(kept) + 1 ELSE attempted[p] + 1
    BY <1>2 DEF NextGeneration
  <2>3. \A h \in Gens : reports[p][h] # "absent" => h <= Max(kept)
    BY <2>1
  <2>4. Max(kept) \in Nat BY <2>1, GenBound
  <2> HIDE DEF kept
  <2>5. NextGeneration(p) > attempted[p] /\ NextGeneration(p) > Max(kept)
    BY <1>0, <2>2, <2>4
  <2>6. NextGeneration(p) \in Nat BY <1>0, <2>2, <2>4
  <2> QED BY <2>3, <2>4, <2>5, <2>6, GenBound
<1> QED BY <1>1, <1>2

\* Retention changes a row only by removing a terminal one.
LEMMA RetainedRows ==
  ASSUME NEW rows \in [Gens -> RowStates]
  PROVE  /\ Retained(rows) \in [Gens -> RowStates]
         /\ \A g \in Gens :
              \/ Retained(rows)[g] = rows[g]
              \/ rows[g] \in Terminal /\ Retained(rows)[g] = "absent"
BY DEF Retained, RowStates

\* Retention keeps a row that no other terminal row is newer than.
LEMMA RetainedNewest ==
  ASSUME NEW rows \in [Gens -> RowStates], NEW g \in Gens,
         \A h \in Gens : rows[h] # "absent" => h <= g
  PROVE  Retained(rows)[g] = rows[g]
<1>1. {h \in Gens : h > g /\ rows[h] \in Terminal} = {}
  <2> SUFFICES ASSUME NEW h \in Gens, h > g, rows[h] \in Terminal
               PROVE  FALSE
    OBVIOUS
  <2>1. rows[h] # "absent" BY DEF Terminal
  <2> QED BY <2>1, GenBound
<1>2. Cardinality({h \in Gens : h > g /\ rows[h] \in Terminal}) = 0
  BY <1>1, FS_EmptySet
<1> QED BY <1>2, RetentionAssumption DEF Retained

\* What an acceptance does to the report rows.
LEMMA AcceptedRows ==
  ASSUME TypeOK, NEW p \in Profiles, NEW g \in Gens, NEW d \in BOOLEAN,
         AcceptSyncRun(p, g, d)
  PROVE  /\ reports' \in [Profiles -> [Gens -> RowStates]]
         /\ reports'[p][g] = "queued"
         /\ \A h \in Gens \ {g} :
              \/ reports'[p][h] = reports[p][h]
              \/ /\ reports[p][h] \in Terminal \cup {"queued"}
                 /\ reports'[p][h] = "absent"
         /\ \A q \in Profiles \ {p} : reports'[q] = reports[q]
<1> DEFINE rows == [h \in Gens |->
                      CASE h = g -> "queued"
                        [] h # g /\ reports[p][h] = "queued" -> "absent"
                        [] OTHER -> reports[p][h]]
<1>1. rows \in [Gens -> RowStates]
  BY DEF TypeOK, RowStates, Pending
<1>2. reports' = [reports EXCEPT ![p] = Retained(rows)]
  BY DEF AcceptSyncRun, TypeOK
<1>3. /\ rows[g] = "queued"
      /\ \A h \in Gens \ {g} :
           \/ rows[h] = reports[p][h]
           \/ reports[p][h] = "queued" /\ rows[h] = "absent"
  BY DEF TypeOK
<1> HIDE DEF rows
<1>4. Retained(rows)[g] = "queued"
  BY <1>1, <1>3, RetainedRows DEF Terminal
<1>5. ASSUME NEW h \in Gens \ {g}
      PROVE  \/ Retained(rows)[h] = reports[p][h]
             \/ /\ reports[p][h] \in Terminal \cup {"queued"}
                /\ Retained(rows)[h] = "absent"
  BY <1>1, <1>3, RetainedRows DEF Terminal
<1> QED BY <1>1, <1>2, <1>4, <1>5, RetainedRows DEF TypeOK

\* What the terminal report of run g does to the report rows.
LEMMA TerminalRows ==
  ASSUME TypeOK, NEW p \in Profiles, NEW g \in Gens,
         NEW outcome \in Pending \cup Terminal, UpsertTerminal(p, g, outcome)
  PROVE  /\ reports' \in [Profiles -> [Gens -> RowStates]]
         /\ \A h \in Gens \ {g} :
              \/ reports'[p][h] = reports[p][h]
              \/ reports[p][h] \in Terminal /\ reports'[p][h] = "absent"
         /\ \A q \in Profiles \ {p} : reports'[q] = reports[q]
         /\ Ownership => attempted[p] = g /\ reports'[p][g] = outcome
<1> DEFINE rows == [reports[p] EXCEPT ![g] = outcome]
<1>1. rows \in [Gens -> RowStates]
  BY DEF TypeOK, RowStates
<1>2. reports' = [reports EXCEPT ![p] = Retained(rows)]
  BY DEF UpsertTerminal, TypeOK
<1>3. rows[g] = outcome /\ \A h \in Gens \ {g} : rows[h] = reports[p][h]
  BY DEF TypeOK
<1>4. attempted[p] = g BY DEF UpsertTerminal, StaleReport
<1>5. ASSUME Ownership PROVE reports'[p][g] = outcome
  <2>1. \A h \in Gens : rows[h] # "absent" => h <= g
    BY <1>3, <1>4, <1>5, GenBound DEF Ownership, Owned
  <2> HIDE DEF rows
  <2>2. Retained(rows)[g] = outcome BY <1>1, <1>3, <2>1, RetainedNewest
  <2> QED BY <1>2, <2>2 DEF TypeOK
<1> HIDE DEF rows
<1> QED BY <1>1, <1>2, <1>3, <1>4, <1>5, RetainedRows DEF TypeOK

---------------------------------------------------------------------------
(* Types                                                                   *)

\* A task that moves on keeps its type.
LEMMA GotoType ==
  ASSUME TypeOK, NEW p \in Profiles, NEW g \in Gens, NEW where \in PCs,
         Goto(p, g, where)
  PROVE  pc' \in [Profiles -> [Gens -> PCs]]
BY DEF TypeOK, Goto

\* Reserving a cancellation keeps the types.
LEMMA CancelReserveType ==
  ASSUME TypeOK, NEW p \in Profiles,
         NEW holder \in {"user", "shutdown", "delete"},
         CancelReserve(p, holder),
         deleteStep' \in [Profiles -> {"none", "marked", "holding", "undo",
                                       "draining", "deleted"}],
         UNCHANGED <<closing, shutdownStep, targets>>,
         admitted' \subseteq Profiles
  PROVE  TypeOK'
<1>1. sawService' \in [Profiles -> BOOLEAN]
  BY DEF TypeOK, CancelReserve, ServiceCurrent
<1>2. canceled' \in [Profiles -> BOOLEAN]
  BY DEF TypeOK, CancelReserve
<1>3. requested' \in [Profiles -> [Gens -> BOOLEAN]]
  BY DEF TypeOK, CancelReserve
<1> QED BY <1>1, <1>2, <1>3 DEF TypeOK, CancelReserve

\* The types of the state a process starts with.
LEMMA InitType == Init => TypeOK
<1> SUFFICES ASSUME Init PROVE TypeOK OBVIOUS
<1>1. NoStatus \in Statuses
  BY GenBound DEF NoStatus, Statuses
<1>2. /\ reports   \in [Profiles -> [Gens -> RowStates]]
      /\ dry       \in [Profiles -> [Gens -> BOOLEAN]]
      /\ attempted \in [Profiles -> 0..MaxRuns]
      /\ succeeded \in [Profiles -> 0..MaxRuns]
      /\ row       \in [Profiles -> {"active", "inactive"}]
      /\ faults \in 0..MaxFaults
      /\ restarts \in 0..MaxRestarts
      /\ shutdowns \in 0..MaxShutdowns
  BY GenBound, BoundsAssumption DEF Init, LedgerInit, RowStates
<1>0. VolatileInit BY DEF Init
<1>3. /\ syncing  \in [Profiles -> BOOLEAN]
      /\ active   \in [Profiles -> 0..MaxRuns]
      /\ latest   \in [Profiles -> 0..MaxRuns]
      /\ canceled \in [Profiles -> BOOLEAN]
      /\ service  \in [Profiles -> 0..MaxRuns]
      /\ status   \in [Profiles -> Statuses]
  BY <1>0, <1>1, GenBound, BoundsAssumption DEF VolatileInit
<1>4. /\ gate       \in [Profiles -> {"free", "user", "shutdown", "delete"}]
      /\ cancelStep \in [Profiles -> {"idle", "detach", "persist"}]
      /\ sawService \in [Profiles -> BOOLEAN]
      /\ nextTicket \in [Profiles -> Nat]
      /\ serving    \in [Profiles -> Nat]
      /\ starting   \in [Profiles -> Nat]
      /\ deleteStep \in [Profiles -> {"none", "marked", "holding", "undo",
                                      "draining", "deleted"}]
  BY <1>0, <1>1, GenBound, BoundsAssumption DEF VolatileInit
<1>5. /\ pc        \in [Profiles -> [Gens -> PCs]]
      /\ ticket    \in [Profiles -> [Gens -> Nat]]
      /\ phase     \in [Profiles -> [Gens -> Pending \cup Terminal]]
      /\ requested \in [Profiles -> [Gens -> BOOLEAN]]
      /\ ctxDone   \in [Profiles -> [Gens -> BOOLEAN]]
      /\ books     \in [Profiles -> [Gens -> 0..Books]]
  BY <1>0, <1>1, GenBound, BoundsAssumption DEF VolatileInit, PCs, Pending
<1> QED
  BY <1>0, <1>2, <1>3, <1>4, <1>5 DEF TypeOK, VolatileInit

\* Every step keeps the types.
LEMMA StepType ==
  ASSUME TypeOK, [Next]_vars
  PROVE  TypeOK'
<1>1. ASSUME NEW p \in Profiles, StartAdmit(p)
      PROVE  TypeOK'
  BY <1>1 DEF TypeOK, StartAdmit
<1>2. ASSUME NEW p \in Profiles, StartAccept(p)
      PROVE  TypeOK'
  <2>1. PICK d \in BOOLEAN : AcceptSyncRun(p, NextGeneration(p), d)
    BY <1>2, DryRunsAssumption DEF StartAccept
  <2>2. NextGeneration(p) \in Gens /\ starting[p] \in Nat \ {0}
    BY <1>2 DEF StartAccept, TypeOK
  <2>3. reports' \in [Profiles -> [Gens -> RowStates]]
    BY <2>1, <2>2, AcceptedRows
  <2>4. /\ dry' \in [Profiles -> [Gens -> BOOLEAN]]
        /\ attempted' \in [Profiles -> 0..MaxRuns]
        /\ succeeded' \in [Profiles -> 0..MaxRuns]
    BY <2>1, <2>2, GenBound DEF TypeOK, AcceptSyncRun
  <2>5. status' \in [Profiles -> Statuses]
    BY <1>2, <2>2, GenBound
       DEF TypeOK, StartAccept, PriorSuccess, Statuses, RowStates, Pending
  <2>6. pc' \in [Profiles -> [Gens -> PCs]]
    BY <1>2, <2>2 DEF TypeOK, StartAccept, PCs
  <2>7. /\ syncing' \in [Profiles -> BOOLEAN]
        /\ active' \in [Profiles -> 0..MaxRuns]
        /\ latest' \in [Profiles -> 0..MaxRuns]
        /\ canceled' \in [Profiles -> BOOLEAN]
    BY <1>2, <2>2, GenBound DEF TypeOK, StartAccept
  <2>8. /\ ticket' \in [Profiles -> [Gens -> Nat]]
        /\ nextTicket' \in [Profiles -> Nat]
        /\ starting' \in [Profiles -> Nat]
    BY <1>2, <2>2 DEF TypeOK, StartAccept
  <2> QED
    BY <1>2, <2>3, <2>4, <2>5, <2>6, <2>7, <2>8 DEF TypeOK, StartAccept
<1>3. ASSUME NEW p \in Profiles, StartReject(p)
      PROVE  TypeOK'
  BY <1>3 DEF TypeOK, StartReject
<1>4. ASSUME NEW p \in Profiles, CancelSync(p)
      PROVE  TypeOK'
  BY <1>4, CancelReserveType DEF CancelSync, TypeOK
<1>5. ASSUME NEW p \in Profiles, CancelDetach(p)
      PROVE  TypeOK'
  BY <1>5, GenBound DEF TypeOK, CancelDetach
<1>6. ASSUME NEW p \in Profiles, CancelPersist(p)
      PROVE  TypeOK'
  <2> DEFINE g == latest[p]
  <2>1. status' \in [Profiles -> Statuses]
    BY <1>6 DEF TypeOK, CancelPersist, Statuses, RowStates, Terminal
  <2>2. /\ reports' \in [Profiles -> [Gens -> RowStates]]
        /\ succeeded' \in [Profiles -> 0..MaxRuns]
    <3>1. UpsertTerminal(p, g, "canceled") BY <1>6 DEF CancelPersist
    <3>2. [reports[p] EXCEPT ![g] = "canceled"] \in [Gens -> RowStates]
      BY DEF TypeOK, RowStates, Terminal
    <3>3. reports' \in [Profiles -> [Gens -> RowStates]]
      BY <3>1, <3>2, RetainedRows DEF TypeOK, UpsertTerminal
    <3>4. succeeded' \in [Profiles -> 0..MaxRuns]
      BY <3>1 DEF TypeOK, UpsertTerminal
    <3> QED BY <3>3, <3>4
  <2> QED
    BY <1>6, <2>1, <2>2
       DEF TypeOK, CancelPersist, UpsertTerminal, ReleaseAfterCancel
<1>7. ASSUME NEW p \in Profiles, CancelPersistFails(p)
      PROVE  TypeOK'
  BY <1>7, GenBound, BoundsAssumption
  DEF TypeOK, CancelPersistFails, ReleaseAfterCancel, Fault, RowStates,
      Terminal, Pending, Statuses
<1>8. ASSUME NEW p \in Profiles, NEW g \in Gens, TakeTurn(p, g)
      PROVE  TypeOK'
  BY <1>8 DEF TypeOK, TakeTurn, Goto, PCs, Executing
<1>9. ASSUME NEW p \in Profiles, NEW g \in Gens, CheckTurn(p, g)
      PROVE  TypeOK'
  BY <1>9 DEF TypeOK, CheckTurn, Goto, PCs, Executing
<1>10. ASSUME NEW p \in Profiles, NEW g \in Gens, SetupFails(p, g)
       PROVE  TypeOK'
  BY <1>10 DEF TypeOK, SetupFails, Goto, PCs, Executing
<1>11. ASSUME NEW p \in Profiles, NEW g \in Gens, SetupDone(p, g)
       PROVE  TypeOK'
  BY <1>11 DEF TypeOK, SetupDone, Goto, PCs, Executing
<1>12. ASSUME NEW p \in Profiles, NEW g \in Gens, RegisterService(p, g)
       PROVE  TypeOK'
  <2>1. pc' \in [Profiles -> [Gens -> PCs]]
    BY <1>12, GotoType DEF RegisterService, PCs, Executing
  <2> QED BY <1>12, <2>1, GenBound DEF TypeOK, RegisterService
<1>13. ASSUME NEW p \in Profiles, NEW g \in Gens, SyncRuns(p, g)
       PROVE  TypeOK'
  BY <1>13 DEF TypeOK, SyncRuns, Goto, PCs, Executing, Pending, Terminal
<1>14. ASSUME NEW p \in Profiles, NEW g \in Gens, SyncBook(p, g)
       PROVE  TypeOK'
  BY <1>14, BoundsAssumption DEF TypeOK, SyncBook, Goto, PCs, Executing
<1>15. ASSUME NEW p \in Profiles, NEW g \in Gens, SyncFinalizes(p, g)
       PROVE  TypeOK'
  BY <1>15 DEF TypeOK, SyncFinalizes, Goto, PCs, Executing, Pending, Terminal
<1>16. ASSUME NEW p \in Profiles, NEW g \in Gens, SyncStops(p, g)
       PROVE  TypeOK'
  BY <1>16
  DEF TypeOK, SyncStops, EndPhase, Goto, PCs, Executing, Pending, Terminal
<1>17. ASSUME NEW p \in Profiles, NEW g \in Gens, SyncFails(p, g)
       PROVE  TypeOK'
  BY <1>17
  DEF TypeOK, SyncFails, EndPhase, Goto, PCs, Executing, Pending, Terminal
<1>18. ASSUME NEW p \in Profiles, NEW g \in Gens, SyncCompletes(p, g)
       PROVE  TypeOK'
  BY <1>18
  DEF TypeOK, SyncCompletes, EndPhase, Goto, PCs, Executing, Pending,
      Terminal
<1>19. ASSUME NEW p \in Profiles, NEW g \in Gens, CheckpointSkip(p, g)
       PROVE  TypeOK'
  BY <1>19 DEF TypeOK, CheckpointSkip, Goto, PCs, Executing
<1>20. ASSUME NEW p \in Profiles, NEW g \in Gens, CheckpointStore(p, g)
       PROVE  TypeOK'
  BY <1>20
  DEF TypeOK, CheckpointStore, Goto, PCs, Executing, RowStates, Terminal,
      Pending
<1>21. ASSUME NEW p \in Profiles, NEW g \in Gens, CheckpointFails(p, g)
       PROVE  TypeOK'
  BY <1>21, BoundsAssumption
  DEF TypeOK, CheckpointFails, EndPhase, Fault, Goto, PCs, Executing,
      Pending, Terminal
<1>22. ASSUME NEW p \in Profiles, NEW g \in Gens, PublishRejected(p, g)
       PROVE  TypeOK'
  BY <1>22 DEF TypeOK, PublishRejected, Goto, PCs, Executing
<1>23. ASSUME NEW p \in Profiles, NEW g \in Gens, PublishFinal(p, g)
       PROVE  TypeOK'
  <2>1. Outcome(p, g) \in Pending \cup Terminal
    BY <1>23 DEF TypeOK, PublishFinal, Outcome, Terminal
  <2>2. reports' \in [Profiles -> [Gens -> RowStates]]
    BY <1>23, <2>1, TerminalRows DEF PublishFinal
  <2>3. status' \in [Profiles -> Statuses]
    BY <1>23, <2>1, GenBound
       DEF TypeOK, PublishFinal, PublishedStatus, Statuses, RowStates
  <2>4. succeeded' \in [Profiles -> 0..MaxRuns]
    BY <1>23, GenBound DEF TypeOK, PublishFinal, UpsertTerminal
  <2>5. pc' \in [Profiles -> [Gens -> PCs]]
    BY <1>23, GotoType DEF PublishFinal, PCs, Executing
  <2> QED
    BY <1>23, <2>2, <2>3, <2>4, <2>5 DEF TypeOK, PublishFinal, UpsertTerminal
<1>24. ASSUME NEW p \in Profiles, NEW g \in Gens, PublishFails(p, g)
       PROVE  TypeOK'
  BY <1>24, GenBound, BoundsAssumption
  DEF TypeOK, PublishFails, PublishedStatus, Outcome, Fault, Goto, PCs,
      Executing, Pending, Terminal, RowStates, Statuses
<1>25. ASSUME NEW p \in Profiles, NEW g \in Gens, RemoveService(p, g)
       PROVE  TypeOK'
  BY <1>25, GenBound DEF TypeOK, RemoveService, Goto, PCs, Executing
<1>26. ASSUME NEW p \in Profiles, NEW g \in Gens, FinishActiveRun(p, g)
       PROVE  TypeOK'
  BY <1>26, GenBound DEF TypeOK, FinishActiveRun, Goto, PCs, Executing
<1>27. ASSUME NEW p \in Profiles, NEW g \in Gens, ReleaseExecution(p, g)
       PROVE  TypeOK'
  BY SMTT(20), <1>27, BoundsAssumption
  DEF TypeOK, ReleaseExecution, Goto, PCs, Executing, Pending, Terminal
<1>28. ASSUME NEW p \in Profiles, DeleteMark(p)
       PROVE  TypeOK'
  BY <1>28 DEF TypeOK, DeleteMark
<1>29. ASSUME NEW p \in Profiles, DeleteLock(p)
       PROVE  TypeOK'
  <2>1. CASE CancelAccepted(p)
    BY <1>29, <2>1, CancelReserveType DEF DeleteLock, TypeOK
  <2>2. CASE ~CancelAccepted(p)
    BY <1>29, <2>2 DEF TypeOK, DeleteLock
  <2> QED BY <2>1, <2>2
<1>30. ASSUME NEW p \in Profiles, DeleteRow(p)
       PROVE  TypeOK'
  BY <1>30 DEF TypeOK, DeleteRow, DeleteHolds
<1>31. ASSUME NEW p \in Profiles, DeleteRowFails(p)
       PROVE  TypeOK'
  BY <1>31, BoundsAssumption DEF TypeOK, DeleteRowFails, DeleteHolds, Fault
<1>32. ASSUME NEW p \in Profiles, DeleteUndo(p)
       PROVE  TypeOK'
  BY <1>32 DEF TypeOK, DeleteUndo
<1>33. ASSUME NEW p \in Profiles, DeleteDrain(p)
       PROVE  TypeOK'
  BY <1>33, GenBound
  DEF TypeOK, DeleteDrain, NoStatus, RowStates, Terminal, Pending,
      Statuses
<1>34. ASSUME ShutdownBegin
       PROVE  TypeOK'
  BY <1>34, BoundsAssumption DEF TypeOK, ShutdownBegin
<1>35. ASSUME ShutdownCollect
       PROVE  TypeOK'
  BY <1>35 DEF TypeOK, ShutdownCollect
<1>36. ASSUME NEW p \in Profiles, ShutdownCancel(p)
       PROVE  TypeOK'
  BY <1>36, CancelReserveType DEF ShutdownCancel, TypeOK
<1>37. ASSUME NEW p \in Profiles, ShutdownCancelRejected(p)
       PROVE  TypeOK'
  BY <1>37 DEF TypeOK, ShutdownCancelRejected
<1>38. ASSUME ShutdownCanceled
       PROVE  TypeOK'
  BY <1>38 DEF TypeOK, ShutdownCanceled
<1>44. ASSUME NEW p \in Profiles, ShutdownAdmit(p)
       PROVE  TypeOK'
  BY <1>44 DEF TypeOK, ShutdownAdmit, Launched
<1>39. ASSUME ShutdownReturn
       PROVE  TypeOK'
  BY <1>39 DEF TypeOK, ShutdownReturn
<1>40. ASSUME ShutdownTimeout
       PROVE  TypeOK'
  BY <1>40 DEF TypeOK, ShutdownTimeout
<1>41. ASSUME NEW p \in Profiles, RestoreStatus(p)
       PROVE  TypeOK'
  <2> DEFINE ended == {g \in Gens : reports[p][g] \in Terminal}
  <2>1. status' \in [Profiles -> Statuses]
    <3>1. CASE ended = {}
      <4>1. [NoStatus EXCEPT !.tried = attempted[p], !.good = succeeded[p]]
              \in Statuses
        BY GenBound DEF TypeOK, NoStatus, Statuses
      <4> QED BY <1>41, <3>1, <4>1 DEF TypeOK, RestoreStatus, Restored
    <3>2. CASE ended # {}
      <4>1. Max(ended) \in ended BY <3>2, MaxOfGens
      <4> QED
        BY <1>41, <3>2, <4>1, GenBound
           DEF TypeOK, RestoreStatus, Restored, Statuses
    <3> QED BY <3>1, <3>2
  <2> QED BY <1>41, <2>1 DEF TypeOK, RestoreStatus
<1>42. ASSUME Restart
       PROVE  TypeOK'
  <2>1. reports' \in [Profiles -> [Gens -> RowStates]]
    <3>1. ASSUME NEW p \in Profiles
          PROVE  [g \in Gens |-> IF reports[p][g] \in Pending
                                   THEN "failed" ELSE reports[p][g]]
                   \in [Gens -> RowStates]
      BY DEF TypeOK, RowStates, Terminal
    <3> QED BY <1>42, <3>1, RetainedRows DEF Restart
  <2>2. NoStatus \in Statuses /\ restarts + 1 \in 0..MaxRestarts
    BY <1>42, GenBound, BoundsAssumption
       DEF TypeOK, Restart, NoStatus, Statuses
  <2>3. /\ syncing'  \in [Profiles -> BOOLEAN]
        /\ active'   \in [Profiles -> 0..MaxRuns]
        /\ latest'   \in [Profiles -> 0..MaxRuns]
        /\ canceled' \in [Profiles -> BOOLEAN]
        /\ service'  \in [Profiles -> 0..MaxRuns]
        /\ status'   \in [Profiles -> Statuses]
    BY <1>42, <2>2, GenBound, BoundsAssumption DEF Restart
  <2>4. /\ gate'       \in [Profiles -> {"free", "user", "shutdown", "delete"}]
        /\ cancelStep' \in [Profiles -> {"idle", "detach", "persist"}]
        /\ sawService' \in [Profiles -> BOOLEAN]
        /\ nextTicket' \in [Profiles -> Nat]
        /\ serving'    \in [Profiles -> Nat]
        /\ starting'   \in [Profiles -> Nat]
        /\ deleteStep' \in [Profiles -> {"none", "marked", "holding", "undo",
                                        "draining", "deleted"}]
    BY <1>42, <2>2, GenBound, BoundsAssumption DEF Restart
  <2>5. /\ pc'        \in [Profiles -> [Gens -> PCs]]
        /\ ticket'    \in [Profiles -> [Gens -> Nat]]
        /\ phase'     \in [Profiles -> [Gens -> Pending \cup Terminal]]
        /\ requested' \in [Profiles -> [Gens -> BOOLEAN]]
        /\ ctxDone'   \in [Profiles -> [Gens -> BOOLEAN]]
        /\ books'     \in [Profiles -> [Gens -> 0..Books]]
    BY <1>42, <2>2, GenBound, BoundsAssumption DEF Restart, PCs, Pending
  <2> QED
    BY <1>42, <2>1, <2>2, <2>3, <2>4, <2>5 DEF TypeOK, Restart
<1>43. CASE UNCHANGED vars
  BY <1>43 DEF TypeOK, vars
<1> QED
  BY <1>1, <1>2, <1>3, <1>4, <1>5, <1>6, <1>7, <1>8, <1>9, <1>10, <1>11,
     <1>12, <1>13, <1>14, <1>15, <1>16, <1>17, <1>18, <1>19, <1>20, <1>21,
     <1>22, <1>23, <1>24, <1>25, <1>26, <1>27, <1>28, <1>29, <1>30, <1>31,
     <1>32, <1>33, <1>34, <1>35, <1>36, <1>37, <1>38, <1>39, <1>40, <1>41,
     <1>42, <1>43, <1>44
     DEF Next, Worker, Cancellation, Starting, Deletion, ShuttingDown, Environment

\* Every variable keeps its type, whatever starts, cancellations, deletions,
\* shutdowns, faults and restarts are interleaved.
THEOREM TypeCorrect == Spec => []TypeOK
<1>1. TypeOK /\ [Next]_vars => TypeOK' BY StepType
<1> QED BY InitType, <1>1, PTL DEF Spec

---------------------------------------------------------------------------
(* Ownership                                                               *)

\* Ownership holds at first.
LEMMA InitOwnership == Init => Ownership
<1> SUFFICES ASSUME Init, NEW p \in Profiles PROVE Owned(p)
  BY DEF Ownership
<1>1. /\ \A g \in Gens : reports[p][g] = "absent" /\ ~Live(p, g)
      /\ latest[p] = 0 /\ active[p] = 0 /\ ~syncing[p]
      /\ cancelStep[p] = "idle" /\ gate[p] = "free"
  BY DEF Init, LedgerInit, VolatileInit, Live
<1> QED BY <1>1 DEF Owned

\* Every step keeps ownership.
LEMMA StepOwnership ==
  ASSUME TypeOK, Ownership, [Next]_vars
  PROVE  Ownership'
<1>1. ASSUME NEW p \in Profiles, StartAdmit(p)
      PROVE  Ownership'
  BY <1>1 DEF TypeOK, Ownership, Owned, Live, StartAdmit
<1>2. ASSUME NEW p \in Profiles, StartAccept(p)
      PROVE  Ownership'
  <2>0. PICK g \in Gens : g = NextGeneration(p)
    BY <1>2 DEF StartAccept
  <2>1. PICK d \in BOOLEAN : AcceptSyncRun(p, g, d)
    BY <1>2, <2>0, DryRunsAssumption DEF StartAccept
  <2>2. g \in Gens /\ g > attempted[p] /\ attempted'[p] = g
    BY <2>0, <2>1, NextGenerationFresh DEF AcceptSyncRun, TypeOK
  <2>3. /\ \A h \in Gens : reports'[p][h] # "absent"
                             => h = g \/ reports[p][h] # "absent"
        /\ \A q \in Profiles \ {p} : reports'[q] = reports[q]
    BY <2>1, <2>2, AcceptedRows
  <2>4. cancelStep[p] = "idle" /\ gate[p] = "free"
    BY <1>2 DEF Ownership, Owned, StartAccept
  <2>5. /\ active' = [active EXCEPT ![p] = g]
        /\ latest' = [latest EXCEPT ![p] = g]
        /\ canceled' = [canceled EXCEPT ![p] = FALSE]
        /\ syncing' = [syncing EXCEPT ![p] = TRUE]
        /\ attempted' = [attempted EXCEPT ![p] = g]
        /\ pc' = [pc EXCEPT ![p][g] = "waiting"]
        /\ UNCHANGED <<cancelStep, gate, deleteStep>>
    BY <1>2, <2>0, <2>1 DEF StartAccept, AcceptSyncRun
  <2>6. /\ \A h \in Gens : Live(p, h)' => h = g \/ Live(p, h)
        /\ Live(p, g)' /\ pc'[p][g] = "waiting"
    <3>1. \A h \in Gens : pc'[p][h] = IF h = g THEN "waiting" ELSE pc[p][h]
      BY <2>2, <2>5 DEF TypeOK
    <3> QED BY <2>2, <3>1 DEF Live
  <2>7. ASSUME NEW h \in Gens, reports'[p][h] # "absent" \/ Live(p, h)'
        PROVE  h <= g
    <3>1. CASE h = g BY <2>2, <3>1, GenBound
    <3>2. CASE h # g
      <4>1. h <= attempted[p]
        BY <2>3, <2>6, <2>7, <3>2 DEF Ownership, Owned
      <4>2. attempted[p] \in Nat /\ h \in Nat /\ g \in Nat
        BY <2>2, GenBound, BoundsAssumption DEF TypeOK
      <4> QED BY <2>2, <4>1, <4>2
    <3> QED BY <3>1, <3>2
  <2>8. Owned(p)'
    <3>1. g # 0 BY <2>2, GenBound
    <3>2. /\ active'[p] = g /\ latest'[p] = g /\ attempted'[p] = g
          /\ ~canceled'[p]
          /\ cancelStep'[p] = "idle" /\ gate'[p] = "free"
      BY <2>4, <2>5 DEF TypeOK
    <3> QED BY <2>6, <2>7, <3>1, <3>2 DEF Owned, Live
  <2>9. ASSUME NEW q \in Profiles \ {p}
        PROVE  Owned(q)'
    BY <2>3, <2>5 DEF Ownership, Owned, TypeOK, Live
  <2> QED BY <2>8, <2>9 DEF Ownership
<1>3. ASSUME NEW p \in Profiles, StartReject(p)
      PROVE  Ownership'
  BY <1>3 DEF TypeOK, Ownership, Owned, Live, StartReject
<1>4. ASSUME NEW p \in Profiles, CancelSync(p)
      PROVE  Ownership'
  BY <1>4
  DEF TypeOK, Ownership, Owned, Live, CancelSync, CancelAccepted,
      CancelReserve, ServiceCurrent, Deleting
<1>5. ASSUME NEW p \in Profiles, CancelDetach(p)
      PROVE  Ownership'
  BY <1>5, GenBound DEF TypeOK, Ownership, Owned, Live, CancelDetach
<1>6. ASSUME NEW p \in Profiles, CancelPersist(p)
      PROVE  Ownership'
  <2> DEFINE g == latest[p]
  <2>1. g \in Gens
    BY SMTT(20), <1>6, BoundsAssumption DEF CancelPersist, Ownership, Owned, TypeOK, Gens
  <2>2. UpsertTerminal(p, g, "canceled") BY <1>6 DEF CancelPersist
  <2>3. /\ \A h \in Gens : reports'[p][h] # "absent"
                             => h = g \/ reports[p][h] # "absent"
        /\ \A q \in Profiles \ {p} : reports'[q] = reports[q]
        /\ attempted[p] = g
    BY <2>1, <2>2, TerminalRows DEF Terminal
  <2>4. /\ cancelStep'[p] = "idle" /\ cancelStep[p] = "persist"
        /\ gate'[p] \in {gate[p], "free"}
    BY <1>6 DEF CancelPersist, ReleaseAfterCancel, TypeOK
  <2>5. UNCHANGED <<attempted, pc, mapVars, deleteStep>>
    BY <1>6, <2>2 DEF CancelPersist, UpsertTerminal
  <2>6. \A q \in Profiles \ {p} :
          cancelStep'[q] = cancelStep[q] /\ gate'[q] = gate[q]
    BY <1>6 DEF CancelPersist, ReleaseAfterCancel, TypeOK
  <2>7. \A q \in Profiles, h \in Gens :
          reports'[q][h] # "absent" \/ Live(q, h)' => h <= attempted[q]
    BY <2>1, <2>3, <2>5, GenBound DEF Ownership, Owned, Live
  <2> QED BY <2>4, <2>5, <2>6, <2>7 DEF Ownership, Owned, Live
<1>7. ASSUME NEW p \in Profiles, CancelPersistFails(p)
      PROVE  Ownership'
  BY <1>7
  DEF TypeOK, Ownership, Owned, Live, CancelPersistFails,
      ReleaseAfterCancel, Fault
<1>8. ASSUME NEW p \in Profiles, NEW g \in Gens, TakeTurn(p, g)
      PROVE  Ownership'
  BY <1>8 DEF TypeOK, Ownership, Owned, Live, TakeTurn, Goto, Executing
<1>9. ASSUME NEW p \in Profiles, NEW g \in Gens, CheckTurn(p, g)
      PROVE  Ownership'
  BY <1>9
  DEF TypeOK, Ownership, Owned, Live, CheckTurn, Goto, Executing, Current
<1>10. ASSUME NEW p \in Profiles, NEW g \in Gens, SetupFails(p, g)
       PROVE  Ownership'
  BY <1>10 DEF TypeOK, Ownership, Owned, Live, SetupFails, Goto, Executing
<1>11. ASSUME NEW p \in Profiles, NEW g \in Gens, SetupDone(p, g)
       PROVE  Ownership'
  BY <1>11 DEF TypeOK, Ownership, Owned, Live, SetupDone, Goto, Executing
<1>12. ASSUME NEW p \in Profiles, NEW g \in Gens, RegisterService(p, g)
       PROVE  Ownership'
  BY <1>12, GenBound
  DEF TypeOK, Ownership, Owned, Live, RegisterService, Goto, Executing
<1>13. ASSUME NEW p \in Profiles, NEW g \in Gens, SyncRuns(p, g)
       PROVE  Ownership'
  BY <1>13 DEF TypeOK, Ownership, Owned, Live, SyncRuns, Goto, Executing
<1>14. ASSUME NEW p \in Profiles, NEW g \in Gens, SyncBook(p, g)
       PROVE  Ownership'
  BY <1>14 DEF TypeOK, Ownership, Owned, Live, SyncBook, Goto, Executing
<1>15. ASSUME NEW p \in Profiles, NEW g \in Gens, SyncFinalizes(p, g)
       PROVE  Ownership'
  BY <1>15 DEF TypeOK, Ownership, Owned, Live, SyncFinalizes, Goto, Executing
<1>16. ASSUME NEW p \in Profiles, NEW g \in Gens, SyncStops(p, g)
       PROVE  Ownership'
  BY <1>16
  DEF TypeOK, Ownership, Owned, Live, SyncStops, EndPhase, Goto, Executing
<1>17. ASSUME NEW p \in Profiles, NEW g \in Gens, SyncFails(p, g)
       PROVE  Ownership'
  BY <1>17
  DEF TypeOK, Ownership, Owned, Live, SyncFails, EndPhase, Goto, Executing
<1>18. ASSUME NEW p \in Profiles, NEW g \in Gens, SyncCompletes(p, g)
       PROVE  Ownership'
  BY <1>18
  DEF TypeOK, Ownership, Owned, Live, SyncCompletes, EndPhase, Goto,
      Executing
<1>19. ASSUME NEW p \in Profiles, NEW g \in Gens, CheckpointSkip(p, g)
       PROVE  Ownership'
  BY <1>19 DEF TypeOK, Ownership, Owned, Live, CheckpointSkip, Goto, Executing
<1>20. ASSUME NEW p \in Profiles, NEW g \in Gens, CheckpointStore(p, g)
       PROVE  Ownership'
  BY <1>20, GenBound
  DEF TypeOK, Ownership, Owned, Live, CheckpointStore, Goto, Executing,
      CheckpointSkipped, StaleReport, Pending
<1>21. ASSUME NEW p \in Profiles, NEW g \in Gens, CheckpointFails(p, g)
       PROVE  Ownership'
  BY <1>21
  DEF TypeOK, Ownership, Owned, Live, CheckpointFails, EndPhase, Fault,
      Goto, Executing
<1>22. ASSUME NEW p \in Profiles, NEW g \in Gens, PublishRejected(p, g)
       PROVE  Ownership'
  BY <1>22
  DEF TypeOK, Ownership, Owned, Live, PublishRejected, Goto, Executing
<1>23. ASSUME NEW p \in Profiles, NEW g \in Gens, PublishFinal(p, g)
       PROVE  Ownership'
  <2>1. Outcome(p, g) \in Pending \cup Terminal
    BY <1>23 DEF TypeOK, PublishFinal, Outcome, Terminal
  <2>2. /\ \A h \in Gens : reports'[p][h] # "absent"
                             => h = g \/ reports[p][h] # "absent"
        /\ \A q \in Profiles \ {p} : reports'[q] = reports[q]
        /\ attempted[p] = g
    BY <1>23, <2>1, TerminalRows DEF PublishFinal
  <2>3. UNCHANGED <<attempted, mapVars, gate, cancelStep, deleteStep>>
    BY <1>23 DEF PublishFinal, UpsertTerminal
  <2>4. /\ \A q \in Profiles, h \in Gens : Live(q, h)' <=> Live(q, h)
        /\ \A q \in Profiles, h \in Gens :
             pc'[q][h] = "release" <=> pc[q][h] = "release"
    BY <1>23 DEF PublishFinal, Goto, TypeOK, Live
  <2>5. \A q \in Profiles, h \in Gens :
          reports'[q][h] # "absent" \/ Live(q, h)' => h <= attempted[q]
    BY <2>2, <2>4, GenBound DEF Ownership, Owned
  <2>6. \A q \in Profiles : /\ active[q] # 0 => active[q] \in Gens
                            /\ latest[q] # 0 => latest[q] \in Gens
    BY SMTT(20), BoundsAssumption DEF TypeOK, Gens
  <2> QED BY <2>3, <2>4, <2>5, <2>6 DEF Ownership, Owned, Live
<1>24. ASSUME NEW p \in Profiles, NEW g \in Gens, PublishFails(p, g)
       PROVE  Ownership'
  BY <1>24
  DEF TypeOK, Ownership, Owned, Live, PublishFails, PublishedStatus,
      Outcome, Fault, Goto, Executing
<1>25. ASSUME NEW p \in Profiles, NEW g \in Gens, RemoveService(p, g)
       PROVE  Ownership'
  BY <1>25 DEF TypeOK, Ownership, Owned, Live, RemoveService, Goto, Executing
<1>26. ASSUME NEW p \in Profiles, NEW g \in Gens, FinishActiveRun(p, g)
       PROVE  Ownership'
  BY <1>26, GenBound
  DEF TypeOK, Ownership, Owned, Live, FinishActiveRun, Goto, Executing
<1>27. ASSUME NEW p \in Profiles, NEW g \in Gens, ReleaseExecution(p, g)
       PROVE  Ownership'
  BY <1>27, GenBound
  DEF TypeOK, Ownership, Owned, Live, ReleaseExecution, Goto, Executing
<1>28. ASSUME NEW p \in Profiles, DeleteMark(p)
       PROVE  Ownership'
  BY <1>28 DEF TypeOK, Ownership, Owned, Live, DeleteMark
<1>29. ASSUME NEW p \in Profiles, DeleteLock(p)
       PROVE  Ownership'
  <2>1. CASE CancelAccepted(p)
    BY <1>29, <2>1 DEF TypeOK, Ownership, Owned, Live, DeleteLock, CancelAccepted,
       CancelReserve, ServiceCurrent
  <2>2. CASE ~CancelAccepted(p)
    BY <1>29, <2>2 DEF TypeOK, Ownership, Owned, Live, DeleteLock
  <2> QED BY <2>1, <2>2
<1>30. ASSUME NEW p \in Profiles, DeleteRow(p)
       PROVE  Ownership'
  BY <1>30 DEF TypeOK, Ownership, Owned, Live, DeleteRow, DeleteHolds
<1>31. ASSUME NEW p \in Profiles, DeleteRowFails(p)
       PROVE  Ownership'
  BY <1>31
  DEF TypeOK, Ownership, Owned, Live, DeleteRowFails, DeleteHolds, Fault
<1>32. ASSUME NEW p \in Profiles, DeleteUndo(p)
       PROVE  Ownership'
  BY <1>32 DEF TypeOK, Ownership, Owned, Live, DeleteUndo
<1>33. ASSUME NEW p \in Profiles, DeleteDrain(p)
       PROVE  Ownership'
  <2>1. /\ active' = [active EXCEPT ![p] = 0]
        /\ latest' = [latest EXCEPT ![p] = 0]
        /\ canceled' = [canceled EXCEPT ![p] = FALSE]
        /\ syncing' = [syncing EXCEPT ![p] = FALSE]
        /\ UNCHANGED <<reports, attempted, pc, gate, cancelStep>>
        /\ deleteStep' = [deleteStep EXCEPT ![p] = "deleted"]
    BY <1>33 DEF DeleteDrain
  <2>2. cancelStep[p] = "idle" /\ gate[p] # "delete"
    <3>1. latest[p] # 0 => latest[p] \in Gens
      BY SMTT(20), BoundsAssumption DEF TypeOK, Gens
    <3> QED BY <1>33, <3>1 DEF Ownership, Owned, DeleteDrain, NoWorkers
  <2> QED BY <2>1, <2>2 DEF Ownership, Owned, TypeOK, Live
<1>34. ASSUME ShutdownBegin
       PROVE  Ownership'
  BY <1>34 DEF TypeOK, Ownership, Owned, Live, ShutdownBegin
<1>35. ASSUME ShutdownCollect
       PROVE  Ownership'
  BY <1>35 DEF TypeOK, Ownership, Owned, Live, ShutdownCollect
<1>36. ASSUME NEW p \in Profiles, ShutdownCancel(p)
       PROVE  Ownership'
  BY <1>36
  DEF TypeOK, Ownership, Owned, Live, ShutdownCancel, CancelAccepted,
      CancelReserve, ServiceCurrent, Deleting
<1>37. ASSUME NEW p \in Profiles, ShutdownCancelRejected(p)
       PROVE  Ownership'
  BY <1>37 DEF TypeOK, Ownership, Owned, Live, ShutdownCancelRejected
<1>38. ASSUME ShutdownCanceled
       PROVE  Ownership'
  BY <1>38 DEF TypeOK, Ownership, Owned, Live, ShutdownCanceled
<1>44. ASSUME NEW p \in Profiles, ShutdownAdmit(p)
       PROVE  Ownership'
  BY <1>44 DEF TypeOK, Ownership, Owned, Live, ShutdownAdmit, Launched
<1>39. ASSUME ShutdownReturn
       PROVE  Ownership'
  BY <1>39 DEF TypeOK, Ownership, Owned, Live, ShutdownReturn
<1>40. ASSUME ShutdownTimeout
       PROVE  Ownership'
  BY <1>40 DEF TypeOK, Ownership, Owned, Live, ShutdownTimeout
<1>41. ASSUME NEW p \in Profiles, RestoreStatus(p)
       PROVE  Ownership'
  BY <1>41 DEF TypeOK, Ownership, Owned, Live, RestoreStatus, NoStatus
<1>42. ASSUME Restart
       PROVE  Ownership'
  <2>1. \A p \in Profiles, g \in Gens :
          reports'[p][g] # "absent" => reports[p][g] # "absent"
    <3> SUFFICES ASSUME NEW p \in Profiles, NEW g \in Gens,
                        reports'[p][g] # "absent"
                 PROVE  reports[p][g] # "absent"
      OBVIOUS
    <3> DEFINE rows == [h \in Gens |-> IF reports[p][h] \in Pending
                                         THEN "failed" ELSE reports[p][h]]
    <3>1. rows \in [Gens -> RowStates] /\ reports'[p] = Retained(rows)
      BY <1>42 DEF TypeOK, RowStates, Terminal, Restart
    <3>2. rows[g] # "absent" => reports[p][g] # "absent"
      BY DEF Pending
    <3> HIDE DEF rows
    <3> QED BY <3>1, <3>2, RetainedRows
  <2> QED BY <1>42, <2>1 DEF Ownership, Owned, Live, Restart
<1>43. CASE UNCHANGED vars
  BY <1>43 DEF TypeOK, Ownership, Owned, Live, vars
<1> QED
  BY <1>1, <1>2, <1>3, <1>4, <1>5, <1>6, <1>7, <1>8, <1>9, <1>10, <1>11,
     <1>12, <1>13, <1>14, <1>15, <1>16, <1>17, <1>18, <1>19, <1>20, <1>21,
     <1>22, <1>23, <1>24, <1>25, <1>26, <1>27, <1>28, <1>29, <1>30, <1>31,
     <1>32, <1>33, <1>34, <1>35, <1>36, <1>37, <1>38, <1>39, <1>40, <1>41,
     <1>42, <1>43, <1>44
     DEF Next, Worker, Cancellation, Starting, Deletion, ShuttingDown, Environment

---------------------------------------------------------------------------
(* Tickets                                                                 *)

\* The order of tickets holds at first.
LEMMA InitTickets == Init => Tickets
<1> SUFFICES ASSUME Init, NEW p \in Profiles PROVE Ticketed(p)
  BY DEF Tickets
<1>1. /\ \A g \in Gens : ~Live(p, g)
      /\ serving[p] = 0 /\ nextTicket[p] = 0
  BY DEF Init, VolatileInit, Live
<1> QED BY <1>1 DEF Ticketed

\* Every step keeps the order of tickets.
LEMMA StepTickets ==
  ASSUME TypeOK, Ownership, Tickets, [Next]_vars
  PROVE  Tickets'
<1>1. ASSUME NEW p \in Profiles, StartAdmit(p)
      PROVE  Tickets'
  BY <1>1 DEF TypeOK, Tickets, Ticketed, Live, StartAdmit
<1>2. ASSUME NEW p \in Profiles, StartAccept(p)
      PROVE  Tickets'
  <2>0. PICK g \in Gens : g = NextGeneration(p)
    BY <1>2 DEF StartAccept
  <2>1. g > attempted[p]
    BY <2>0, NextGenerationFresh
  <2>2. /\ ticket' = [ticket EXCEPT ![p][g] = nextTicket[p]]
        /\ nextTicket' = [nextTicket EXCEPT ![p] = @ + 1]
        /\ pc' = [pc EXCEPT ![p][g] = "waiting"]
        /\ serving' = serving
    BY <1>2, <2>0 DEF StartAccept
  <2>3. \A h \in Gens : Live(p, h) => h < g
    <3>1. \A h \in Gens : Live(p, h) => h <= attempted[p]
      BY DEF Ownership, Owned
    <3>2. attempted[p] \in Nat BY BoundsAssumption DEF TypeOK
    <3> QED BY <2>1, <3>1, <3>2, GenBound
  <2>4. /\ \A h \in Gens \ {g} :
             pc'[p][h] = pc[p][h] /\ ticket'[p][h] = ticket[p][h]
        /\ pc'[p][g] = "waiting" /\ ticket'[p][g] = nextTicket[p]
        /\ nextTicket'[p] = nextTicket[p] + 1
        /\ nextTicket[p] \in Nat /\ serving[p] \in Nat /\ ticket[p] \in [Gens -> Nat]
    BY <2>2 DEF TypeOK
  <2>5. Ticketed(p)'
    <3>1. serving'[p] <= nextTicket'[p]
      BY <2>2, <2>4 DEF Tickets, Ticketed
    <3>2. ASSUME NEW h \in Gens, Live(p, h)'
          PROVE  /\ serving'[p] <= ticket'[p][h]
                 /\ ticket'[p][h] < nextTicket'[p]
                 /\ pc'[p][h] \in Executing => ticket'[p][h] = serving'[p]
      <4>1. CASE h = g
        BY <2>2, <2>4, <4>1 DEF Tickets, Ticketed, Executing
      <4>2. CASE h # g
        <5>1. Live(p, h) BY <2>4, <3>2, <4>2 DEF Live
        <5> QED BY <2>2, <2>4, <4>2, <5>1 DEF Tickets, Ticketed
      <4> QED BY <4>1, <4>2
    <3>3. ASSUME NEW h \in Gens, NEW k \in Gens,
                 h < k, Live(p, h)', Live(p, k)'
          PROVE  ticket'[p][h] < ticket'[p][k]
      <4>1. h # g
        <5>1. k # g => k < g BY <2>3, <2>4, <3>3 DEF Live
        <5> QED BY <3>3, <5>1, GenBound
      <4>2. Live(p, h) BY <2>4, <3>3, <4>1 DEF Live
      <4>3. CASE k = g
        BY <2>4, <4>1, <4>2, <4>3 DEF Tickets, Ticketed
      <4>4. CASE k # g
        <5>1. Live(p, k) BY <2>4, <3>3, <4>4 DEF Live
        <5> QED BY <2>4, <3>3, <4>1, <4>2, <4>4, <5>1 DEF Tickets, Ticketed
      <4> QED BY <4>3, <4>4
    <3> QED BY <3>1, <3>2, <3>3 DEF Ticketed
  <2>6. ASSUME NEW q \in Profiles \ {p}
        PROVE  Ticketed(q)'
    BY <2>2 DEF Tickets, Ticketed, TypeOK, Live
  <2> QED BY <2>5, <2>6 DEF Tickets
<1>3. ASSUME NEW p \in Profiles, StartReject(p)
      PROVE  Tickets'
  BY <1>3 DEF TypeOK, Tickets, Ticketed, Live, StartReject
<1>4. ASSUME NEW p \in Profiles, CancelSync(p)
      PROVE  Tickets'
  BY <1>4 DEF TypeOK, Tickets, Ticketed, Live, CancelSync, CancelReserve
<1>5. ASSUME NEW p \in Profiles, CancelDetach(p)
      PROVE  Tickets'
  BY <1>5 DEF TypeOK, Tickets, Ticketed, Live, CancelDetach
<1>6. ASSUME NEW p \in Profiles, CancelPersist(p)
      PROVE  Tickets'
  BY <1>6
  DEF TypeOK, Tickets, Ticketed, Live, CancelPersist, UpsertTerminal,
      ReleaseAfterCancel
<1>7. ASSUME NEW p \in Profiles, CancelPersistFails(p)
      PROVE  Tickets'
  BY <1>7
  DEF TypeOK, Tickets, Ticketed, Live, CancelPersistFails,
      ReleaseAfterCancel, Fault
<1>8. ASSUME NEW p \in Profiles, NEW g \in Gens, TakeTurn(p, g)
      PROVE  Tickets'
  BY <1>8 DEF TypeOK, Tickets, Ticketed, Live, TakeTurn, Goto, Executing
<1>9. ASSUME NEW p \in Profiles, NEW g \in Gens, CheckTurn(p, g)
      PROVE  Tickets'
  BY <1>9 DEF TypeOK, Tickets, Ticketed, Live, CheckTurn, Goto, Executing
<1>10. ASSUME NEW p \in Profiles, NEW g \in Gens, SetupFails(p, g)
       PROVE  Tickets'
  BY <1>10 DEF TypeOK, Tickets, Ticketed, Live, SetupFails, Goto, Executing
<1>11. ASSUME NEW p \in Profiles, NEW g \in Gens, SetupDone(p, g)
       PROVE  Tickets'
  BY <1>11 DEF TypeOK, Tickets, Ticketed, Live, SetupDone, Goto, Executing
<1>12. ASSUME NEW p \in Profiles, NEW g \in Gens, RegisterService(p, g)
       PROVE  Tickets'
  BY <1>12
  DEF TypeOK, Tickets, Ticketed, Live, RegisterService, Goto, Executing
<1>13. ASSUME NEW p \in Profiles, NEW g \in Gens, SyncRuns(p, g)
       PROVE  Tickets'
  BY <1>13 DEF TypeOK, Tickets, Ticketed, Live, SyncRuns, Goto, Executing
<1>14. ASSUME NEW p \in Profiles, NEW g \in Gens, SyncBook(p, g)
       PROVE  Tickets'
  BY <1>14 DEF TypeOK, Tickets, Ticketed, Live, SyncBook, Goto, Executing
<1>15. ASSUME NEW p \in Profiles, NEW g \in Gens, SyncFinalizes(p, g)
       PROVE  Tickets'
  BY <1>15 DEF TypeOK, Tickets, Ticketed, Live, SyncFinalizes, Goto, Executing
<1>16. ASSUME NEW p \in Profiles, NEW g \in Gens, SyncStops(p, g)
       PROVE  Tickets'
  BY <1>16
  DEF TypeOK, Tickets, Ticketed, Live, SyncStops, EndPhase, Goto,
      Executing
<1>17. ASSUME NEW p \in Profiles, NEW g \in Gens, SyncFails(p, g)
       PROVE  Tickets'
  BY <1>17
  DEF TypeOK, Tickets, Ticketed, Live, SyncFails, EndPhase, Goto,
      Executing
<1>18. ASSUME NEW p \in Profiles, NEW g \in Gens, SyncCompletes(p, g)
       PROVE  Tickets'
  BY <1>18
  DEF TypeOK, Tickets, Ticketed, Live, SyncCompletes, EndPhase, Goto,
      Executing
<1>19. ASSUME NEW p \in Profiles, NEW g \in Gens, CheckpointSkip(p, g)
       PROVE  Tickets'
  BY <1>19
  DEF TypeOK, Tickets, Ticketed, Live, CheckpointSkip, Goto, Executing
<1>20. ASSUME NEW p \in Profiles, NEW g \in Gens, CheckpointStore(p, g)
       PROVE  Tickets'
  BY <1>20
  DEF TypeOK, Tickets, Ticketed, Live, CheckpointStore, Goto, Executing
<1>21. ASSUME NEW p \in Profiles, NEW g \in Gens, CheckpointFails(p, g)
       PROVE  Tickets'
  BY <1>21
  DEF TypeOK, Tickets, Ticketed, Live, CheckpointFails, EndPhase, Fault,
      Goto, Executing
<1>22. ASSUME NEW p \in Profiles, NEW g \in Gens, PublishRejected(p, g)
       PROVE  Tickets'
  BY <1>22
  DEF TypeOK, Tickets, Ticketed, Live, PublishRejected, Goto, Executing
<1>23. ASSUME NEW p \in Profiles, NEW g \in Gens, PublishFinal(p, g)
       PROVE  Tickets'
  BY <1>23
  DEF TypeOK, Tickets, Ticketed, Live, PublishFinal, UpsertTerminal, Goto,
      Executing
<1>24. ASSUME NEW p \in Profiles, NEW g \in Gens, PublishFails(p, g)
       PROVE  Tickets'
  BY <1>24
  DEF TypeOK, Tickets, Ticketed, Live, PublishFails, Fault, Goto,
      Executing
<1>25. ASSUME NEW p \in Profiles, NEW g \in Gens, RemoveService(p, g)
       PROVE  Tickets'
  BY <1>25 DEF TypeOK, Tickets, Ticketed, Live, RemoveService, Goto, Executing
<1>26. ASSUME NEW p \in Profiles, NEW g \in Gens, FinishActiveRun(p, g)
       PROVE  Tickets'
  BY <1>26
  DEF TypeOK, Tickets, Ticketed, Live, FinishActiveRun, Goto, Executing
<1>27. ASSUME NEW p \in Profiles, NEW g \in Gens, ReleaseExecution(p, g)
       PROVE  Tickets'
  <2>1. /\ ticket[p][g] = serving[p] /\ Live(p, g)
        /\ serving[p] \in Nat /\ ticket[p] \in [Gens -> Nat]
    BY <1>27 DEF ReleaseExecution, Tickets, Ticketed, TypeOK, Live, Executing
  <2>2. /\ serving' = [serving EXCEPT ![p] = @ + 1]
        /\ ticket' = [ticket EXCEPT ![p][g] = 0]
        /\ pc' = [pc EXCEPT ![p][g] = "done"]
        /\ nextTicket' = nextTicket
    BY <1>27, <2>1 DEF ReleaseExecution, Goto, TypeOK
  <2>3. \A h \in Gens : Live(p, h)' =>
          /\ h # g /\ Live(p, h)
          /\ pc'[p][h] = pc[p][h] /\ ticket'[p][h] = ticket[p][h]
    BY <2>2 DEF TypeOK, Live
  <2>4. ASSUME NEW h \in Gens, Live(p, h)'
        PROVE  ticket[p][h] > serving[p] /\ pc[p][h] \notin Executing
    <3>1. h # g /\ Live(p, h) BY <2>3, <2>4
    <3>2. ticket[p][h] # ticket[p][g]
      <4>1. h < g \/ g < h BY <3>1, GenBound
      <4> QED BY <2>1, <3>1, <4>1 DEF Tickets, Ticketed
    <3>3. serving[p] <= ticket[p][h]
      BY <3>1 DEF Tickets, Ticketed
    <3> QED BY <2>1, <3>1, <3>2, <3>3 DEF Tickets, Ticketed
  <2>5. Ticketed(p)'
    <3>1. serving'[p] = serving[p] + 1 /\ nextTicket[p] \in Nat
      BY <2>2 DEF TypeOK
    <3>2. serving'[p] <= nextTicket'[p]
      BY <2>1, <2>2, <3>1 DEF Tickets, Ticketed
    <3>3. ASSUME NEW h \in Gens, Live(p, h)'
          PROVE  /\ serving'[p] <= ticket'[p][h]
                 /\ ticket'[p][h] < nextTicket'[p]
                 /\ pc'[p][h] \in Executing => ticket'[p][h] = serving'[p]
      BY <2>1, <2>2, <2>3, <2>4, <3>1, <3>3 DEF Tickets, Ticketed
    <3>4. ASSUME NEW h \in Gens, NEW k \in Gens,
                 h < k, Live(p, h)', Live(p, k)'
          PROVE  ticket'[p][h] < ticket'[p][k]
      BY <2>3, <3>4 DEF Tickets, Ticketed
    <3> QED BY <3>2, <3>3, <3>4 DEF Ticketed
  <2>6. ASSUME NEW q \in Profiles \ {p}
        PROVE  Ticketed(q)'
    BY <2>2 DEF Tickets, Ticketed, TypeOK, Live
  <2> QED BY <2>5, <2>6 DEF Tickets
<1>28. ASSUME NEW p \in Profiles, DeleteMark(p)
       PROVE  Tickets'
  BY <1>28 DEF TypeOK, Tickets, Ticketed, Live, DeleteMark
<1>29. ASSUME NEW p \in Profiles, DeleteLock(p)
       PROVE  Tickets'
  BY <1>29 DEF TypeOK, Tickets, Ticketed, Live, DeleteLock, CancelReserve
<1>30. ASSUME NEW p \in Profiles, DeleteRow(p)
       PROVE  Tickets'
  BY <1>30 DEF TypeOK, Tickets, Ticketed, Live, DeleteRow, DeleteHolds
<1>31. ASSUME NEW p \in Profiles, DeleteRowFails(p)
       PROVE  Tickets'
  BY <1>31
  DEF TypeOK, Tickets, Ticketed, Live, DeleteRowFails, DeleteHolds, Fault
<1>32. ASSUME NEW p \in Profiles, DeleteUndo(p)
       PROVE  Tickets'
  BY <1>32 DEF TypeOK, Tickets, Ticketed, Live, DeleteUndo
<1>33. ASSUME NEW p \in Profiles, DeleteDrain(p)
       PROVE  Tickets'
  BY <1>33 DEF TypeOK, Tickets, Ticketed, Live, DeleteDrain
<1>34. ASSUME ShutdownBegin
       PROVE  Tickets'
  BY <1>34 DEF TypeOK, Tickets, Ticketed, Live, ShutdownBegin
<1>35. ASSUME ShutdownCollect
       PROVE  Tickets'
  BY <1>35 DEF TypeOK, Tickets, Ticketed, Live, ShutdownCollect
<1>36. ASSUME NEW p \in Profiles, ShutdownCancel(p)
       PROVE  Tickets'
  BY <1>36 DEF TypeOK, Tickets, Ticketed, Live, ShutdownCancel, CancelReserve
<1>37. ASSUME NEW p \in Profiles, ShutdownCancelRejected(p)
       PROVE  Tickets'
  BY <1>37 DEF TypeOK, Tickets, Ticketed, Live, ShutdownCancelRejected
<1>38. ASSUME ShutdownCanceled
       PROVE  Tickets'
  BY <1>38 DEF TypeOK, Tickets, Ticketed, Live, ShutdownCanceled
<1>44. ASSUME NEW p \in Profiles, ShutdownAdmit(p)
       PROVE  Tickets'
  BY <1>44 DEF TypeOK, Tickets, Ticketed, Live, ShutdownAdmit, Launched
<1>39. ASSUME ShutdownReturn
       PROVE  Tickets'
  BY <1>39 DEF TypeOK, Tickets, Ticketed, Live, ShutdownReturn
<1>40. ASSUME ShutdownTimeout
       PROVE  Tickets'
  BY <1>40 DEF TypeOK, Tickets, Ticketed, Live, ShutdownTimeout
<1>41. ASSUME NEW p \in Profiles, RestoreStatus(p)
       PROVE  Tickets'
  BY <1>41 DEF TypeOK, Tickets, Ticketed, Live, RestoreStatus
<1>42. ASSUME Restart
       PROVE  Tickets'
  BY <1>42 DEF TypeOK, Tickets, Ticketed, Live, Restart
<1>43. CASE UNCHANGED vars
  BY <1>43 DEF TypeOK, Tickets, Ticketed, Live, vars
<1> QED
  BY <1>1, <1>2, <1>3, <1>4, <1>5, <1>6, <1>7, <1>8, <1>9, <1>10, <1>11,
     <1>12, <1>13, <1>14, <1>15, <1>16, <1>17, <1>18, <1>19, <1>20, <1>21,
     <1>22, <1>23, <1>24, <1>25, <1>26, <1>27, <1>28, <1>29, <1>30, <1>31,
     <1>32, <1>33, <1>34, <1>35, <1>36, <1>37, <1>38, <1>39, <1>40, <1>41,
     <1>42, <1>43, <1>44
     DEF Next, Worker, Cancellation, Starting, Deletion, ShuttingDown, Environment


\* Runs of one profile execute one at a time and in acceptance order, for any
\* number of runs, also when canceled runs are replaced while they unwind.
THEOREM ExecutionIsFIFO == Spec => []ExecutionOrder
<1>1. Init => TypeOK /\ Ownership /\ Tickets
  BY InitType, InitOwnership, InitTickets
<1>2. TypeOK /\ Ownership /\ Tickets /\ [Next]_vars
        => TypeOK' /\ Ownership' /\ Tickets'
  BY StepType, StepOwnership, StepTickets
<1>3. TypeOK /\ Tickets => ExecutionOrder
  <2> SUFFICES ASSUME TypeOK, Tickets, NEW p \in Profiles,
                      NEW g \in Gens, NEW h \in Gens,
                      g < h, pc[p][h] \in Executing, Live(p, g)
               PROVE  FALSE
    BY DEF ExecutionOrder
  <2>1. Live(p, h) BY DEF Live, Executing
  <2>2. /\ ticket[p][h] = serving[p]
        /\ serving[p] <= ticket[p][g]
        /\ ticket[p][g] < ticket[p][h]
    BY <2>1 DEF Tickets, Ticketed
  <2>3. serving[p] \in Nat /\ ticket[p][g] \in Nat BY DEF TypeOK
  <2> QED BY <2>2, <2>3
<1> QED BY <1>1, <1>2, <1>3, PTL DEF Spec

---------------------------------------------------------------------------
(* Settlement                                                              *)

\* Settlement holds at first.
LEMMA InitSettlement == Init => Settlement
<1> SUFFICES ASSUME Init, NEW p \in Profiles PROVE Settled(p)
  BY DEF Settlement
<1>1. /\ \A g \in Gens : reports[p][g] = "absent" /\ pc[p][g] = "none"
      /\ latest[p] = 0 /\ active[p] = 0 /\ ~canceled[p]
      /\ cancelStep[p] = "idle"
  BY DEF Init, LedgerInit, VolatileInit
<1> QED BY <1>1, GenBound DEF Settled, Current, Unsettled

\* Every step keeps settlement.
LEMMA StepSettlement ==
  ASSUME TypeOK, Ownership, Settlement, [Next]_vars
  PROVE  Settlement'
<1>1. ASSUME NEW p \in Profiles, StartAdmit(p)
      PROVE  Settlement'
  BY <1>1, GenBound
  DEF TypeOK, Ownership, Owned, Settlement, Settled, Live, Current,
      Unsettled, Executing, PCs, Pending, Terminal, StartAdmit
<1>2. ASSUME NEW p \in Profiles, StartAccept(p)
      PROVE  Settlement'
  <2>0. PICK g \in Gens : g = NextGeneration(p)
    BY <1>2 DEF StartAccept
  <2>1. PICK d \in BOOLEAN : AcceptSyncRun(p, g, d)
    BY <1>2, <2>0, DryRunsAssumption DEF StartAccept
  <2>2. /\ reports'[p][g] = "queued"
        /\ \A h \in Gens \ {g} : reports'[p][h] \in {reports[p][h], "absent"}
        /\ \A q \in Profiles \ {p} : reports'[q] = reports[q]
    BY <2>1, AcceptedRows
  <2>3. /\ latest' = [latest EXCEPT ![p] = g]
        /\ active' = [active EXCEPT ![p] = g]
        /\ canceled' = [canceled EXCEPT ![p] = FALSE]
        /\ status' = [status EXCEPT ![p] =
             [gen |-> g, state |-> "queued", tried |-> g, good |-> PriorSuccess(p)]]
        /\ pc' = [pc EXCEPT ![p][g] = "waiting"]
        /\ UNCHANGED <<cancelStep, phase>>
    BY <1>2, <2>0 DEF StartAccept
  <2>4. cancelStep[p] = "idle"
    BY <1>2 DEF Ownership, Owned, StartAccept
  <2>5. /\ latest'[p] = g /\ active'[p] = g /\ ~canceled'[p]
        /\ status'[p].gen = g /\ cancelStep'[p] = "idle"
        /\ pc'[p][g] = "waiting"
        /\ \A h \in Gens \ {g} : pc'[p][h] = pc[p][h]
    BY <2>3, <2>4 DEF TypeOK
  <2>6. Settled(p)'
    BY <2>2, <2>3, <2>5
       DEF Settlement, Settled, Current, Unsettled, Pending, Terminal
  <2>7. ASSUME NEW q \in Profiles \ {p}
        PROVE  Settled(q)'
    BY <2>2, <2>3 DEF TypeOK, Settlement, Settled, Current
  <2> QED BY <2>6, <2>7 DEF Settlement
<1>3. ASSUME NEW p \in Profiles, StartReject(p)
      PROVE  Settlement'
  BY <1>3, GenBound
  DEF TypeOK, Ownership, Owned, Settlement, Settled, Live, Current,
      Unsettled, Executing, PCs, Pending, Terminal, StartReject
<1>4. ASSUME NEW p \in Profiles, CancelSync(p)
      PROVE  Settlement'
  BY <1>4, GenBound
  DEF TypeOK, Ownership, Owned, Settlement, Settled, Live, Current,
      Unsettled, Executing, PCs, Pending, Terminal, CancelSync,
      CancelAccepted, CancelReserve, ServiceCurrent
<1>5. ASSUME NEW p \in Profiles, CancelDetach(p)
      PROVE  Settlement'
  BY <1>5, GenBound
  DEF TypeOK, Ownership, Owned, Settlement, Settled, Live, Current,
      Unsettled, Executing, PCs, Pending, Terminal, CancelDetach
<1>6. ASSUME NEW p \in Profiles, CancelPersist(p)
      PROVE  Settlement'
  <2>0. PICK g \in Gens : g = latest[p] /\ g = attempted[p]
    BY SMTT(20), <1>6, BoundsAssumption DEF CancelPersist, Ownership, Owned, TypeOK, Gens
  <2>1. UpsertTerminal(p, g, "canceled")
    BY <1>6, <2>0 DEF CancelPersist
  <2>2. /\ reports'[p][g] = "canceled"
        /\ \A h \in Gens \ {g} : reports'[p][h] \in {reports[p][h], "absent"}
        /\ \A q \in Profiles \ {p} : reports'[q] = reports[q]
    BY <2>1, TerminalRows DEF Terminal
  <2>3. canceled[p] /\ active[p] = 0
    BY <1>6 DEF CancelPersist, Ownership, Owned
  <2>4. /\ cancelStep' = [cancelStep EXCEPT ![p] = "idle"]
        /\ status' = [status EXCEPT ![p] = [gen |-> g, state |-> "canceled",
                                            tried |-> g, good |-> @.good]]
        /\ UNCHANGED <<latest, active, canceled, pc, phase>>
    BY <1>6, <2>0 DEF CancelPersist, ReleaseAfterCancel
  <2>5. /\ cancelStep'[p] = "idle" /\ status'[p].gen = g
        /\ status'[p].state = "canceled"
    BY <2>4 DEF TypeOK
  <2>6. Settled(p)'
    <3>1. /\ latest'[p] = g /\ active'[p] = 0 /\ canceled'[p]
          /\ pc' = pc /\ phase' = phase
      BY <2>0, <2>3, <2>4
    <3>2. ASSUME NEW h \in Gens, reports'[p][h] = "finalizing"
          PROVE  reports[p][h] = "finalizing"
      BY <2>2, <3>2
    <3>3. ASSUME NEW h \in Gens
          PROVE  ~Current(p, h)'
      BY <3>1 DEF Current
    <3>4. ASSUME NEW h \in Gens
          PROVE  /\ reports'[p][h] = "finalizing"
                    /\ pc'[p][h] \in Unsettled \ {"publish"}
                      => pc'[p][h] = "sync" /\ phase'[p][h] = "finalizing"
                 /\ pc'[p][h] = "checkpoint"
                      => phase'[p][h] \in {"running", "finalizing"}
                 /\ pc'[p][h] = "publish" => phase'[p][h] \in Terminal
      BY <3>1, <3>2 DEF Settlement, Settled
    <3>5. /\ status'[p].gen = latest'[p]
          /\ reports'[p][latest'[p]] = "canceled"
          /\ latest'[p] # 0
      BY <2>0, <2>2, <2>5, <3>1, GenBound
    <3> QED
      BY <2>5, <3>1, <3>3, <3>4, <3>5 DEF Settled
  <2>7. ASSUME NEW q \in Profiles \ {p}
        PROVE  Settled(q)'
    BY <2>2, <2>4 DEF TypeOK, Settlement, Settled, Current
  <2> QED BY <2>6, <2>7 DEF Settlement
<1>7. ASSUME NEW p \in Profiles, CancelPersistFails(p)
      PROVE  Settlement'
  BY <1>7, GenBound
  DEF TypeOK, Ownership, Owned, Settlement, Settled, Live, Current,
      Unsettled, Executing, PCs, Pending, Terminal, CancelPersistFails,
      ReleaseAfterCancel, Fault
<1>8. ASSUME NEW p \in Profiles, NEW g \in Gens, TakeTurn(p, g)
      PROVE  Settlement'
  BY <1>8, GenBound
  DEF TypeOK, Ownership, Owned, Settlement, Settled, Live, Current,
      Unsettled, Executing, PCs, Pending, Terminal, TakeTurn, Goto
<1>9. ASSUME NEW p \in Profiles, NEW g \in Gens, CheckTurn(p, g)
      PROVE  Settlement'
  BY <1>9, GenBound
  DEF TypeOK, Ownership, Owned, Settlement, Settled, Live, Current,
      Unsettled, Executing, PCs, Pending, Terminal, CheckTurn, Goto
<1>10. ASSUME NEW p \in Profiles, NEW g \in Gens, SetupFails(p, g)
       PROVE  Settlement'
  BY <1>10, GenBound
  DEF TypeOK, Ownership, Owned, Settlement, Settled, Live, Current,
      Unsettled, Executing, PCs, Pending, Terminal, SetupFails, Goto
<1>11. ASSUME NEW p \in Profiles, NEW g \in Gens, SetupDone(p, g)
       PROVE  Settlement'
  BY <1>11, GenBound
  DEF TypeOK, Ownership, Owned, Settlement, Settled, Live, Current,
      Unsettled, Executing, PCs, Pending, Terminal, SetupDone, Goto
<1>12. ASSUME NEW p \in Profiles, NEW g \in Gens, RegisterService(p, g)
       PROVE  Settlement'
  BY <1>12, GenBound
  DEF TypeOK, Ownership, Owned, Settlement, Settled, Live, Current,
      Unsettled, Executing, PCs, Pending, Terminal, RegisterService, Goto
<1>13. ASSUME NEW p \in Profiles, NEW g \in Gens, SyncRuns(p, g)
       PROVE  Settlement'
  BY <1>13, GenBound
  DEF TypeOK, Ownership, Owned, Settlement, Settled, Live, Current,
      Unsettled, Executing, PCs, Pending, Terminal, SyncRuns, Goto
<1>14. ASSUME NEW p \in Profiles, NEW g \in Gens, SyncBook(p, g)
       PROVE  Settlement'
  BY <1>14, GenBound
  DEF TypeOK, Ownership, Owned, Settlement, Settled, Live, Current,
      Unsettled, Executing, PCs, Pending, Terminal, SyncBook, Goto
<1>15. ASSUME NEW p \in Profiles, NEW g \in Gens, SyncFinalizes(p, g)
       PROVE  Settlement'
  BY <1>15, GenBound
  DEF TypeOK, Ownership, Owned, Settlement, Settled, Live, Current,
      Unsettled, Executing, PCs, Pending, Terminal, SyncFinalizes, Goto
<1>16. ASSUME NEW p \in Profiles, NEW g \in Gens, SyncStops(p, g)
       PROVE  Settlement'
  BY <1>16, GenBound
  DEF TypeOK, Ownership, Owned, Settlement, Settled, Live, Current,
      Unsettled, Executing, PCs, Pending, Terminal, SyncStops, EndPhase,
      Goto
<1>17. ASSUME NEW p \in Profiles, NEW g \in Gens, SyncFails(p, g)
       PROVE  Settlement'
  BY <1>17, GenBound
  DEF TypeOK, Ownership, Owned, Settlement, Settled, Live, Current,
      Unsettled, Executing, PCs, Pending, Terminal, SyncFails, EndPhase,
      Goto
<1>18. ASSUME NEW p \in Profiles, NEW g \in Gens, SyncCompletes(p, g)
       PROVE  Settlement'
  BY <1>18, GenBound
  DEF TypeOK, Ownership, Owned, Settlement, Settled, Live, Current,
      Unsettled, Executing, PCs, Pending, Terminal, SyncCompletes,
      EndPhase, Goto
<1>19. ASSUME NEW p \in Profiles, NEW g \in Gens, CheckpointSkip(p, g)
       PROVE  Settlement'
  BY <1>19, GenBound
  DEF TypeOK, Ownership, Owned, Settlement, Settled, Live, Current,
      Unsettled, Executing, PCs, Pending, Terminal, CheckpointSkip, Goto
<1>20. ASSUME NEW p \in Profiles, NEW g \in Gens, CheckpointStore(p, g)
       PROVE  Settlement'
  BY <1>20, GenBound
  DEF TypeOK, Ownership, Owned, Settlement, Settled, Live, Current,
      Unsettled, Executing, PCs, Pending, Terminal, CheckpointStore, Goto,
      CheckpointSkipped, StaleReport
<1>21. ASSUME NEW p \in Profiles, NEW g \in Gens, CheckpointFails(p, g)
       PROVE  Settlement'
  BY <1>21, GenBound
  DEF TypeOK, Ownership, Owned, Settlement, Settled, Live, Current,
      Unsettled, Executing, PCs, Pending, Terminal, CheckpointFails,
      EndPhase, Fault, Goto, CheckpointSkipped, StaleReport
<1>22. ASSUME NEW p \in Profiles, NEW g \in Gens, PublishRejected(p, g)
       PROVE  Settlement'
  BY <1>22, GenBound
  DEF TypeOK, Ownership, Owned, Settlement, Settled, Live, Current,
      Unsettled, Executing, PCs, Pending, Terminal, PublishRejected, Goto
<1>23. ASSUME NEW p \in Profiles, NEW g \in Gens, PublishFinal(p, g)
       PROVE  Settlement'
  <2>1. /\ Current(p, g) /\ cancelStep[p] = "idle"
        /\ active[p] # 0 => active[p] = g
    BY <1>23 DEF PublishFinal, PublishRefused, Current, Ownership, Owned
  <2>2. Outcome(p, g) \in Terminal
    BY <1>23 DEF PublishFinal, Outcome, Settlement, Settled, Terminal
  <2>3. PICK outcome \in Terminal : outcome = Outcome(p, g)
    BY <2>2
  <2>4. /\ reports'[p][g] = outcome
        /\ \A h \in Gens \ {g} : reports'[p][h] \in {reports[p][h], "absent"}
        /\ \A q \in Profiles \ {p} : reports'[q] = reports[q]
    BY <1>23, <2>3, TerminalRows DEF PublishFinal
  <2>5. /\ \A h \in Gens \ {g} : pc'[p][h] = pc[p][h]
        /\ pc'[p][g] \in {"finish", "unregister"}
        /\ \A q \in Profiles \ {p} :
             pc'[q] = pc[q] /\ status'[q] = status[q]
        /\ status'[p].gen = g /\ status'[p].state = outcome
    BY <1>23, <2>3 DEF PublishFinal, PublishedStatus, Goto, TypeOK
  <2>6. UNCHANGED <<latest, active, canceled, cancelStep, phase>>
    BY <1>23 DEF PublishFinal
  <2>7. Settled(p)'
    BY <2>1, <2>4, <2>5, <2>6, GenBound
       DEF Settlement, Settled, Current, Unsettled, Pending, Terminal
  <2>8. ASSUME NEW q \in Profiles \ {p}
        PROVE  Settled(q)'
    BY <2>4, <2>5, <2>6 DEF Settlement, Settled, Current
  <2> QED BY <2>7, <2>8 DEF Settlement
<1>24. ASSUME NEW p \in Profiles, NEW g \in Gens, PublishFails(p, g)
       PROVE  Settlement'
  BY <1>24, GenBound
  DEF TypeOK, Ownership, Owned, Settlement, Settled, Live, Current,
      Unsettled, Executing, PCs, Pending, Terminal, PublishFails,
      PublishedStatus, Outcome, Fault, Goto, PublishRefused
<1>25. ASSUME NEW p \in Profiles, NEW g \in Gens, RemoveService(p, g)
       PROVE  Settlement'
  BY <1>25, GenBound
  DEF TypeOK, Ownership, Owned, Settlement, Settled, Live, Current,
      Unsettled, Executing, PCs, Pending, Terminal, RemoveService, Goto
<1>26. ASSUME NEW p \in Profiles, NEW g \in Gens, FinishActiveRun(p, g)
       PROVE  Settlement'
  BY <1>26, GenBound
  DEF TypeOK, Ownership, Owned, Settlement, Settled, Live, Current,
      Unsettled, Executing, PCs, Pending, Terminal, FinishActiveRun, Goto
<1>27. ASSUME NEW p \in Profiles, NEW g \in Gens, ReleaseExecution(p, g)
       PROVE  Settlement'
  BY <1>27, GenBound
  DEF TypeOK, Ownership, Owned, Settlement, Settled, Live, Current,
      Unsettled, Executing, PCs, Pending, Terminal, ReleaseExecution, Goto
<1>28. ASSUME NEW p \in Profiles, DeleteMark(p)
       PROVE  Settlement'
  BY <1>28, GenBound
  DEF TypeOK, Ownership, Owned, Settlement, Settled, Live, Current,
      Unsettled, Executing, PCs, Pending, Terminal, DeleteMark
<1>29. ASSUME NEW p \in Profiles, DeleteLock(p)
       PROVE  Settlement'
  BY <1>29, GenBound
  DEF TypeOK, Ownership, Owned, Settlement, Settled, Live, Current,
      Unsettled, Executing, PCs, Pending, Terminal, DeleteLock,
      CancelAccepted, CancelReserve, ServiceCurrent
<1>30. ASSUME NEW p \in Profiles, DeleteRow(p)
       PROVE  Settlement'
  BY <1>30, GenBound
  DEF TypeOK, Ownership, Owned, Settlement, Settled, Live, Current,
      Unsettled, Executing, PCs, Pending, Terminal, DeleteRow, DeleteHolds
<1>31. ASSUME NEW p \in Profiles, DeleteRowFails(p)
       PROVE  Settlement'
  BY <1>31, GenBound
  DEF TypeOK, Ownership, Owned, Settlement, Settled, Live, Current,
      Unsettled, Executing, PCs, Pending, Terminal, DeleteRowFails,
      DeleteHolds, Fault
<1>32. ASSUME NEW p \in Profiles, DeleteUndo(p)
       PROVE  Settlement'
  BY <1>32, GenBound
  DEF TypeOK, Ownership, Owned, Settlement, Settled, Live, Current,
      Unsettled, Executing, PCs, Pending, Terminal, DeleteUndo
<1>33. ASSUME NEW p \in Profiles, DeleteDrain(p)
       PROVE  Settlement'
  <2>1. /\ active' = [active EXCEPT ![p] = 0]
        /\ latest' = [latest EXCEPT ![p] = 0]
        /\ canceled' = [canceled EXCEPT ![p] = FALSE]
        /\ status' = [status EXCEPT ![p] = NoStatus]
        /\ UNCHANGED <<reports, pc, phase, cancelStep>>
    BY <1>33 DEF DeleteDrain
  <2>2. cancelStep[p] = "idle"
    <3>1. latest[p] # 0 => latest[p] \in Gens
      BY SMTT(20), BoundsAssumption DEF TypeOK, Gens
    <3> QED BY <1>33, <3>1 DEF Ownership, Owned, DeleteDrain, NoWorkers
  <2>3. Settled(p)'
    BY <2>1, <2>2, GenBound DEF TypeOK, Settlement, Settled, Current
  <2>4. ASSUME NEW q \in Profiles \ {p}
        PROVE  Settled(q)'
    BY <2>1 DEF TypeOK, Settlement, Settled, Current
  <2> QED BY <2>3, <2>4 DEF Settlement
<1>34. ASSUME ShutdownBegin
       PROVE  Settlement'
  BY <1>34, GenBound
  DEF TypeOK, Ownership, Owned, Settlement, Settled, Live, Current,
      Unsettled, Executing, PCs, Pending, Terminal, ShutdownBegin
<1>35. ASSUME ShutdownCollect
       PROVE  Settlement'
  BY <1>35, GenBound
  DEF TypeOK, Ownership, Owned, Settlement, Settled, Live, Current,
      Unsettled, Executing, PCs, Pending, Terminal, ShutdownCollect
<1>36. ASSUME NEW p \in Profiles, ShutdownCancel(p)
       PROVE  Settlement'
  BY <1>36, GenBound
  DEF TypeOK, Ownership, Owned, Settlement, Settled, Live, Current,
      Unsettled, Executing, PCs, Pending, Terminal, ShutdownCancel,
      CancelAccepted, CancelReserve, ServiceCurrent
<1>37. ASSUME NEW p \in Profiles, ShutdownCancelRejected(p)
       PROVE  Settlement'
  BY <1>37, GenBound
  DEF TypeOK, Ownership, Owned, Settlement, Settled, Live, Current,
      Unsettled, Executing, PCs, Pending, Terminal, ShutdownCancelRejected
<1>38. ASSUME ShutdownCanceled
       PROVE  Settlement'
  BY <1>38, GenBound
  DEF TypeOK, Ownership, Owned, Settlement, Settled, Live, Current,
      Unsettled, Executing, PCs, Pending, Terminal, ShutdownCanceled
<1>44. ASSUME NEW p \in Profiles, ShutdownAdmit(p)
       PROVE  Settlement'
  BY <1>44, GenBound
  DEF TypeOK, Ownership, Owned, Settlement, Settled, Live, Current,
      Unsettled, Executing, PCs, Pending, Terminal, ShutdownAdmit, Launched
<1>39. ASSUME ShutdownReturn
       PROVE  Settlement'
  BY <1>39, GenBound
  DEF TypeOK, Ownership, Owned, Settlement, Settled, Live, Current,
      Unsettled, Executing, PCs, Pending, Terminal, ShutdownReturn
<1>40. ASSUME ShutdownTimeout
       PROVE  Settlement'
  BY <1>40, GenBound
  DEF TypeOK, Ownership, Owned, Settlement, Settled, Live, Current,
      Unsettled, Executing, PCs, Pending, Terminal, ShutdownTimeout
<1>41. ASSUME NEW p \in Profiles, RestoreStatus(p)
       PROVE  Settlement'
  BY <1>41, GenBound
  DEF TypeOK, Ownership, Owned, Settlement, Settled, Live, Current,
      Unsettled, Executing, PCs, Pending, Terminal, RestoreStatus,
      NoStatus
<1>42. ASSUME Restart
       PROVE  Settlement'
  BY <1>42, GenBound
  DEF TypeOK, Ownership, Owned, Settlement, Settled, Live, Current,
      Unsettled, Executing, PCs, Pending, Terminal, Restart
<1>43. CASE UNCHANGED vars
  BY <1>43
  DEF TypeOK, Ownership, Owned, Settlement, Settled, Live, Current,
      Unsettled, Executing, PCs, Pending, Terminal, vars
<1> QED
  BY <1>1, <1>2, <1>3, <1>4, <1>5, <1>6, <1>7, <1>8, <1>9, <1>10, <1>11,
     <1>12, <1>13, <1>14, <1>15, <1>16, <1>17, <1>18, <1>19, <1>20, <1>21,
     <1>22, <1>23, <1>24, <1>25, <1>26, <1>27, <1>28, <1>29, <1>30, <1>31,
     <1>32, <1>33, <1>34, <1>35, <1>36, <1>37, <1>38, <1>39, <1>40, <1>41,
     <1>42, <1>43, <1>44
     DEF Next, Worker, Cancellation, Starting, Deletion, ShuttingDown, Environment

---------------------------------------------------------------------------
(* The ledger                                                              *)

Inductive == TypeOK /\ Ownership /\ Tickets /\ Settlement

\* The invariant holds at first.
LEMMA InitInductive == Init => Inductive
BY InitType, InitOwnership, InitTickets, InitSettlement DEF Inductive

\* Every step keeps the invariant.
LEMMA StepInductive == Inductive /\ [Next]_vars => Inductive'
BY StepType, StepOwnership, StepTickets, StepSettlement DEF Inductive

\* The actions that reach the database.
LEMMA LedgerActions ==
  ASSUME [Next]_vars
  PROVE  \/ UNCHANGED ledgerVars
         \/ \E p \in Profiles : StartAccept(p) \/ CancelPersist(p)
         \/ \E p \in Profiles, g \in Gens :
              CheckpointStore(p, g) \/ PublishFinal(p, g)
         \/ Restart
<1>1. ASSUME NEW p \in Profiles, NEW g \in Gens, Worker(p, g)
      PROVE  UNCHANGED ledgerVars \/ CheckpointStore(p, g) \/ PublishFinal(p, g)
  BY <1>1 DEF Worker, TakeTurn, CheckTurn, SetupFails, SetupDone,
     RegisterService, SyncRuns, SyncBook, SyncFinalizes, SyncStops, SyncFails,
     SyncCompletes, CheckpointSkip, CheckpointFails, PublishRejected,
     PublishFails, RemoveService, FinishActiveRun, ReleaseExecution
<1>2. ASSUME NEW p \in Profiles, Cancellation(p) \/ Starting(p) \/ Deletion(p)
      PROVE  UNCHANGED ledgerVars \/ CancelPersist(p) \/ StartAccept(p)
  BY <1>2 DEF Cancellation, Starting, Deletion, CancelDetach,
     CancelPersistFails, StartReject, DeleteLock, CancelReserve, DeleteRow,
     DeleteRowFails, DeleteUndo, DeleteDrain
<1>3. ShuttingDown => UNCHANGED ledgerVars
  BY DEF ShuttingDown, ShutdownCollect, ShutdownCanceled, ShutdownReturn,
     ShutdownCancel, CancelReserve, ShutdownCancelRejected, ShutdownAdmit
<1>4. Environment => UNCHANGED ledgerVars \/ Restart
  BY DEF Environment, StartAdmit, CancelSync, CancelReserve, DeleteMark,
     RestoreStatus, ShutdownBegin, ShutdownTimeout
<1>5. UNCHANGED vars => UNCHANGED ledgerVars
  BY DEF vars
<1> QED BY <1>1, <1>2, <1>3, <1>4, <1>5 DEF Next

\* Every step is a step of RunLedger or leaves its variables alone.
LEMMA StepLedger ==
  ASSUME Inductive, [Next]_vars
  PROVE  [LedgerNext]_ledgerVars
<1> USE DEF Inductive
<1>1. CASE UNCHANGED ledgerVars BY <1>1
<1>2. ASSUME NEW p \in Profiles, StartAccept(p)
      PROVE  Accept(p)
  <2>0. PICK g \in Gens : g = NextGeneration(p)
    BY <1>2 DEF StartAccept
  <2>1. PICK d \in BOOLEAN : AcceptSyncRun(p, g, d)
    BY <1>2, <2>0, DryRunsAssumption DEF StartAccept
  <2>2. /\ g > attempted[p]
        /\ \A h \in Gens : reports[p][h] # "absent" => h < g
    BY <2>0, NextGenerationFresh
  <2>3. reports'[p][g] = "queued" /\ OthersKeptOrEvicted(p, g)
    BY <2>1, AcceptedRows DEF OthersKeptOrEvicted
  <2>4. /\ attempted' = [attempted EXCEPT ![p] = g]
        /\ dry' = [dry EXCEPT ![p][g] = d]
        /\ UNCHANGED succeeded
    BY <2>1 DEF AcceptSyncRun
  <2> QED BY <2>2, <2>3, <2>4 DEF Accept
<1>3. ASSUME NEW p \in Profiles, CancelPersist(p)
      PROVE  Settle(p)
  <2>0. PICK g \in Gens : g = latest[p] /\ g = attempted[p]
    BY SMTT(20), <1>3, BoundsAssumption DEF CancelPersist, Ownership, Owned, TypeOK, Gens
  <2>1. UpsertTerminal(p, g, "canceled")
    BY <1>3, <2>0 DEF CancelPersist
  <2>2. reports'[p][g] = "canceled" /\ OthersKeptOrEvicted(p, g)
    BY <2>1, TerminalRows DEF OthersKeptOrEvicted, Terminal
  <2>3. reports[p][g] \in Pending
    BY <1>3, <2>0 DEF CancelPersist, Settlement, Settled
  <2>4. UNCHANGED <<dry, attempted, succeeded>>
    BY <2>1 DEF UpsertTerminal
  <2> QED BY <2>0, <2>2, <2>3, <2>4 DEF Settle, Terminal
<1>4. ASSUME NEW p \in Profiles, NEW g \in Gens, CheckpointStore(p, g)
      PROVE  Advance(p)
  <2>1. /\ attempted[p] = g /\ reports[p][g] \in Pending
        /\ pc[p][g] = "checkpoint"
    BY <1>4 DEF CheckpointStore, CheckpointSkipped, StaleReport
  <2>2. /\ phase[p][g] \in {"running", "finalizing"}
        /\ reports[p][g] # "finalizing"
    BY <2>1 DEF Settlement, Settled, Unsettled
  <2>3. /\ reports' = [reports EXCEPT ![p][g] = phase[p][g]]
        /\ UNCHANGED <<dry, attempted, succeeded>>
    BY <1>4 DEF CheckpointStore
  <2> QED BY <2>1, <2>2, <2>3 DEF Advance, Pending
<1>5. ASSUME NEW p \in Profiles, NEW g \in Gens, PublishFinal(p, g)
      PROVE  Settle(p)
  <2>1. Current(p, g) /\ pc[p][g] \in Unsettled
    BY <1>5 DEF PublishFinal, PublishRefused, Unsettled
  <2>2. reports[p][g] \in Pending BY <2>1 DEF Settlement, Settled
  <2>3. PICK outcome \in Terminal : outcome = Outcome(p, g)
    BY <1>5 DEF PublishFinal, Outcome, Settlement, Settled, Terminal
  <2>4. UpsertTerminal(p, g, outcome) BY <1>5, <2>3 DEF PublishFinal
  <2>5. /\ reports'[p][g] = outcome /\ attempted[p] = g
        /\ OthersKeptOrEvicted(p, g)
    BY <2>4, TerminalRows DEF OthersKeptOrEvicted
  <2>6. /\ succeeded' = IF outcome = "completed" /\ ~dry[p][g]
                          THEN [succeeded EXCEPT ![p] = g] ELSE succeeded
        /\ UNCHANGED <<dry, attempted>>
    BY <2>2, <2>4 DEF UpsertTerminal, Pending
  <2> QED BY <2>2, <2>5, <2>6 DEF Settle
<1>6. CASE Restart
  <2>1. ASSUME NEW p \in Profiles, NEW g \in Gens
        PROVE  IF reports[p][g] \in Pending
                 THEN reports'[p][g] \in {"failed", "absent"}
                 ELSE reports'[p][g] = reports[p][g]
                      \/ /\ reports[p][g] \in Terminal
                         /\ reports'[p][g] = "absent"
    <3> DEFINE rows == [h \in Gens |-> IF reports[p][h] \in Pending
                                         THEN "failed" ELSE reports[p][h]]
    <3>1. rows \in [Gens -> RowStates] /\ reports'[p] = Retained(rows)
      BY <1>6 DEF TypeOK, RowStates, Terminal, Restart
    <3>2. rows[g] = IF reports[p][g] \in Pending THEN "failed" ELSE reports[p][g]
      OBVIOUS
    <3> HIDE DEF rows
    <3> QED BY <3>1, <3>2, RetainedRows
  <2>2. UNCHANGED <<dry, attempted, succeeded>> BY <1>6 DEF Restart
  <2> QED BY <2>1, <2>2 DEF LedgerNext, Reconcile
<1> QED
  BY <1>1, <1>2, <1>3, <1>4, <1>5, <1>6, LedgerActions DEF LedgerNext

\* The durable history of every behavior of the service follows the rules of
\* RunLedger, for any number of profiles, runs, faults and restarts.
THEOREM LedgerImplemented == Spec => ImplementsLedger
<1>1. Init => LedgerInit BY DEF Init
<1>2. Inductive /\ [Next]_vars => [LedgerNext]_ledgerVars BY StepLedger
<1>3. Spec => []Inductive
  BY InitInductive, StepInductive, PTL DEF Spec
<1> QED
  BY <1>1, <1>2, <1>3, PTL DEF Spec, ImplementsLedger, LedgerSpec

---------------------------------------------------------------------------
(* Success times and cancellation                                          *)

\* SuccessIsReal, and no success is newer than the newest attempt.
Successes ==
  SuccessIsReal /\ \A p \in Profiles : succeeded[p] <= attempted[p]

\* Successes are true at first.
LEMMA InitSuccesses == Init => Successes
BY DEF Init, LedgerInit, Successes, SuccessIsReal

\* The rules of RunLedger preserve it: this uses no detail of the service.
LEMMA StepSuccesses ==
  ASSUME Inductive, Successes, [LedgerNext]_ledgerVars
  PROVE  Successes'
<1> USE DEF Inductive
<1>1. CASE UNCHANGED ledgerVars
  BY <1>1 DEF Successes, SuccessIsReal
<1>2. ASSUME NEW p \in Profiles, Accept(p)
      PROVE  Successes'
  <2>1. PICK g \in Gens :
          /\ g > attempted[p]
          /\ reports'[p][g] = "queued"
          /\ OthersKeptOrEvicted(p, g)
          /\ attempted' = [attempted EXCEPT ![p] = g]
          /\ \E d \in BOOLEAN : dry' = [dry EXCEPT ![p][g] = d]
          /\ UNCHANGED succeeded
    BY <1>2 DEF Accept
  <2>2. succeeded[p] < g /\ succeeded[p] <= attempted'[p]
    <3>1. succeeded[p] \in Nat /\ attempted[p] \in Nat /\ g \in Nat
      BY GenBound, BoundsAssumption DEF TypeOK
    <3>2. succeeded[p] <= attempted[p] BY DEF Successes
    <3> QED BY <2>1, <3>1, <3>2 DEF TypeOK
  <2>3. \A q \in Profiles, h \in Gens :
          q # p \/ h # g =>
            /\ dry'[q][h] = dry[q][h]
            /\ reports'[q][h] \in {reports[q][h], "absent"}
    BY <2>1 DEF OthersKeptOrEvicted, TypeOK
  <2>4. \A q \in Profiles : succeeded[q] # 0 => succeeded[q] \in Gens
    BY SMTT(20), BoundsAssumption DEF TypeOK, Gens
  <2>5. SuccessIsReal'
    <3> SUFFICES ASSUME NEW q \in Profiles
                 PROVE  /\ succeeded[q] # 0 =>
                             /\ ~dry'[q][succeeded[q]]
                             /\ reports'[q][succeeded[q]] \in {"completed", "absent"}
                        /\ \A h \in Gens :
                             reports'[q][h] = "completed" /\ ~dry'[q][h]
                               => h <= succeeded[q]
      BY <2>1 DEF SuccessIsReal
    <3>1. ASSUME succeeded[q] # 0
          PROVE  /\ ~dry'[q][succeeded[q]]
                 /\ reports'[q][succeeded[q]] \in {"completed", "absent"}
      <4>1. q # p \/ succeeded[q] # g BY <2>1, <2>2, GenBound
      <4> QED BY <2>3, <2>4, <3>1, <4>1 DEF Successes, SuccessIsReal
    <3>2. ASSUME NEW h \in Gens,
                 reports'[q][h] = "completed", ~dry'[q][h]
          PROVE  h <= succeeded[q]
      BY <2>1, <2>3, <3>2 DEF Successes, SuccessIsReal
    <3> QED BY <3>1, <3>2
  <2>6. \A q \in Profiles : succeeded'[q] <= attempted'[q]
    BY <2>1, <2>2 DEF Successes, TypeOK
  <2> QED BY <2>5, <2>6 DEF Successes
<1>3. ASSUME NEW p \in Profiles, Advance(p)
      PROVE  Successes'
  <2>1. PICK g \in Gens, phi \in {"running", "finalizing"} :
          /\ reports[p][g] \in {"queued", "running"}
          /\ reports' = [reports EXCEPT ![p][g] = phi]
          /\ UNCHANGED <<dry, attempted, succeeded>>
    BY <1>3 DEF Advance
  <2>2. \A q \in Profiles, h \in Gens :
          reports'[q][h] = IF q = p /\ h = g THEN phi ELSE reports[q][h]
    BY <2>1 DEF TypeOK
  <2>3. \A q \in Profiles : succeeded[q] # 0 => succeeded[q] \in Gens
    BY SMTT(20), BoundsAssumption DEF TypeOK, Gens
  <2>4. succeeded[p] # 0 => succeeded[p] # g
    BY <2>1 DEF Successes, SuccessIsReal
  <2> QED BY <2>1, <2>2, <2>3, <2>4 DEF Successes, SuccessIsReal
<1>4. ASSUME NEW p \in Profiles, Settle(p)
      PROVE  Successes'
  <2>1. PICK g \in Gens :
          /\ g = attempted[p]
          /\ reports[p][g] \in Pending
          /\ reports'[p][g] \in Terminal
          /\ OthersKeptOrEvicted(p, g)
          /\ succeeded' = IF reports'[p][g] = "completed" /\ ~dry[p][g]
                            THEN [succeeded EXCEPT ![p] = g]
                            ELSE succeeded
          /\ UNCHANGED <<dry, attempted>>
    BY <1>4 DEF Settle
  <2>2. \A q \in Profiles, h \in Gens :
          q # p \/ h # g => reports'[q][h] \in {reports[q][h], "absent"}
    BY <2>1 DEF OthersKeptOrEvicted
  <2>3. \A q \in Profiles : succeeded[q] # 0 => succeeded[q] \in Gens
    BY SMTT(20), BoundsAssumption DEF TypeOK, Gens
  <2>4. succeeded[p] # 0 => succeeded[p] # g
    BY <2>1 DEF Successes, SuccessIsReal, Pending
  <2>5. \A h \in Gens : reports'[p][h] # "absent" => h <= g
    BY <2>1, <2>2, GenBound DEF Ownership, Owned
  <2>6. CASE reports'[p][g] = "completed" /\ ~dry[p][g]
    <3>1. succeeded'[p] = g /\ \A q \in Profiles \ {p} : succeeded'[q] = succeeded[q]
      BY <2>1, <2>6 DEF TypeOK
    <3>2. /\ g \in Nat /\ g # 0 /\ dry'[p][g] = dry[p][g]
          /\ \A h \in Gens : reports'[p][h] = "completed" => h <= g
      BY <2>1, <2>5, GenBound
    <3>3. ASSUME NEW q \in Profiles \ {p}
          PROVE  /\ succeeded'[q] # 0 =>
                      /\ ~dry'[q][succeeded'[q]]
                      /\ reports'[q][succeeded'[q]] \in {"completed", "absent"}
                 /\ \A h \in Gens : reports'[q][h] = "completed" /\ ~dry'[q][h]
                                      => h <= succeeded'[q]
                 /\ succeeded'[q] <= attempted'[q]
      BY <2>1, <2>2, <2>3, <3>1 DEF Successes, SuccessIsReal
    <3> QED BY <2>1, <2>6, <3>1, <3>2, <3>3 DEF Successes, SuccessIsReal
  <2>7. CASE ~(reports'[p][g] = "completed" /\ ~dry[p][g])
    BY <2>1, <2>2, <2>3, <2>4, <2>7 DEF Successes, SuccessIsReal
  <2> QED BY <2>6, <2>7
<1>5. CASE Reconcile
  <2>1. \A q \in Profiles, h \in Gens :
          \/ reports'[q][h] \in {reports[q][h], "absent"}
          \/ reports[q][h] \in Pending /\ reports'[q][h] = "failed"
    BY <1>5 DEF Reconcile
  <2>2. UNCHANGED <<dry, attempted, succeeded>> BY <1>5 DEF Reconcile
  <2>3. \A q \in Profiles : succeeded[q] # 0 => succeeded[q] \in Gens
    BY BoundsAssumption DEF TypeOK, Gens
  <2> QED BY <2>1, <2>2, <2>3 DEF Successes, SuccessIsReal, Pending
<1> QED BY <1>1, <1>2, <1>3, <1>4, <1>5 DEF LedgerNext

\* Both invariants together are an invariant.
LEMMA InductiveSuccesses == Spec => [](Inductive /\ Successes)
<1>1. Inductive /\ Successes /\ [Next]_vars => Inductive' /\ Successes'
  BY StepInductive, StepLedger, StepSuccesses
<1> QED BY InitInductive, InitSuccesses, <1>1, PTL DEF Spec

\* last_successful_at names a run that was no dry run and completed, and the
\* newest of those; it holds of every history that follows RunLedger.
THEOREM SuccessTimesAreReal == Spec => []SuccessIsReal
<1>1. Successes => SuccessIsReal BY DEF Successes
<1> QED BY InductiveSuccesses, <1>1, PTL

\* An accepted cancellation is final: a canceled run is never stored or shown
\* as completed and never moves last_successful_at, for any interleaving.
THEOREM CancellationIsFinal == Spec => []CancellationWins
<1>1. Inductive /\ Successes => CancellationWins
  <2> SUFFICES ASSUME Inductive, Successes, NEW p \in Profiles, canceled[p]
               PROVE  /\ reports[p][latest[p]] # "completed"
                      /\ succeeded[p] # latest[p]
                      /\ status[p].state # "completed"
    BY DEF CancellationWins
  <2>1. /\ latest[p] # 0
        /\ reports[p][latest[p]] \in Pending \cup {"canceled"}
        /\ status[p].state # "completed"
    BY DEF Inductive, Settlement, Settled
  <2>2. succeeded[p] # 0 => reports[p][succeeded[p]] \in {"completed", "absent"}
    BY DEF Successes, SuccessIsReal
  <2> QED BY <2>1, <2>2 DEF Pending
<1> QED BY InductiveSuccesses, <1>1, PTL

---------------------------------------------------------------------------
(* Shutdown and deletion                                                   *)

\* How far a shutdown got: no start is admitted once it began, the admitted
\* ones are over before it cancels, and the workers before it returns.
Draining ==
  /\ shutdownStep # "none" => closing
  /\ shutdownStep \in {"cancels", "workers", "returned"} =>
       \A p \in Profiles : starting[p] = 0
  /\ shutdownStep = "returned" => \A p \in Profiles : NoWorkers(p)

\* Draining holds at first.
LEMMA InitDraining == Init => Draining
BY DEF Init, VolatileInit, Draining

\* Every step keeps draining.
LEMMA StepDraining ==
  ASSUME TypeOK, Draining, [Next]_vars
  PROVE  Draining'
<1>1. ASSUME NEW p \in Profiles, StartAdmit(p)
      PROVE  Draining'
  BY <1>1 DEF TypeOK, Draining, NoWorkers, Live, StartAdmit
<1>2. ASSUME NEW p \in Profiles, StartAccept(p)
      PROVE  Draining'
  BY <1>2 DEF TypeOK, Draining, NoWorkers, Live, StartAccept
<1>3. ASSUME NEW p \in Profiles, StartReject(p)
      PROVE  Draining'
  BY <1>3 DEF TypeOK, Draining, NoWorkers, Live, StartReject
<1>4. ASSUME NEW p \in Profiles, CancelSync(p)
      PROVE  Draining'
  BY <1>4 DEF TypeOK, Draining, NoWorkers, Live, CancelSync, CancelReserve
<1>5. ASSUME NEW p \in Profiles, CancelDetach(p)
      PROVE  Draining'
  BY <1>5 DEF TypeOK, Draining, NoWorkers, Live, CancelDetach
<1>6. ASSUME NEW p \in Profiles, CancelPersist(p)
      PROVE  Draining'
  BY <1>6
  DEF TypeOK, Draining, NoWorkers, Live, CancelPersist, ReleaseAfterCancel
<1>7. ASSUME NEW p \in Profiles, CancelPersistFails(p)
      PROVE  Draining'
  BY <1>7
  DEF TypeOK, Draining, NoWorkers, Live, CancelPersistFails,
      ReleaseAfterCancel
<1>8. ASSUME NEW p \in Profiles, NEW g \in Gens, TakeTurn(p, g)
      PROVE  Draining'
  BY <1>8 DEF TypeOK, Draining, NoWorkers, Live, TakeTurn, Goto
<1>9. ASSUME NEW p \in Profiles, NEW g \in Gens, CheckTurn(p, g)
      PROVE  Draining'
  BY <1>9 DEF TypeOK, Draining, NoWorkers, Live, CheckTurn, Goto
<1>10. ASSUME NEW p \in Profiles, NEW g \in Gens, SetupFails(p, g)
       PROVE  Draining'
  BY <1>10 DEF TypeOK, Draining, NoWorkers, Live, SetupFails, Goto
<1>11. ASSUME NEW p \in Profiles, NEW g \in Gens, SetupDone(p, g)
       PROVE  Draining'
  BY <1>11 DEF TypeOK, Draining, NoWorkers, Live, SetupDone, Goto
<1>12. ASSUME NEW p \in Profiles, NEW g \in Gens, RegisterService(p, g)
       PROVE  Draining'
  BY <1>12 DEF TypeOK, Draining, NoWorkers, Live, RegisterService, Goto
<1>13. ASSUME NEW p \in Profiles, NEW g \in Gens, SyncRuns(p, g)
       PROVE  Draining'
  BY <1>13 DEF TypeOK, Draining, NoWorkers, Live, SyncRuns, Goto
<1>14. ASSUME NEW p \in Profiles, NEW g \in Gens, SyncBook(p, g)
       PROVE  Draining'
  BY <1>14 DEF TypeOK, Draining, NoWorkers, Live, SyncBook, Goto
<1>15. ASSUME NEW p \in Profiles, NEW g \in Gens, SyncFinalizes(p, g)
       PROVE  Draining'
  BY <1>15 DEF TypeOK, Draining, NoWorkers, Live, SyncFinalizes, Goto
<1>16. ASSUME NEW p \in Profiles, NEW g \in Gens, SyncStops(p, g)
       PROVE  Draining'
  BY <1>16 DEF TypeOK, Draining, NoWorkers, Live, SyncStops, EndPhase, Goto
<1>17. ASSUME NEW p \in Profiles, NEW g \in Gens, SyncFails(p, g)
       PROVE  Draining'
  BY <1>17 DEF TypeOK, Draining, NoWorkers, Live, SyncFails, EndPhase, Goto
<1>18. ASSUME NEW p \in Profiles, NEW g \in Gens, SyncCompletes(p, g)
       PROVE  Draining'
  BY <1>18
  DEF TypeOK, Draining, NoWorkers, Live, SyncCompletes, EndPhase, Goto
<1>19. ASSUME NEW p \in Profiles, NEW g \in Gens, CheckpointSkip(p, g)
       PROVE  Draining'
  BY <1>19 DEF TypeOK, Draining, NoWorkers, Live, CheckpointSkip, Goto
<1>20. ASSUME NEW p \in Profiles, NEW g \in Gens, CheckpointStore(p, g)
       PROVE  Draining'
  BY <1>20 DEF TypeOK, Draining, NoWorkers, Live, CheckpointStore, Goto
<1>21. ASSUME NEW p \in Profiles, NEW g \in Gens, CheckpointFails(p, g)
       PROVE  Draining'
  BY <1>21
  DEF TypeOK, Draining, NoWorkers, Live, CheckpointFails, EndPhase, Goto
<1>22. ASSUME NEW p \in Profiles, NEW g \in Gens, PublishRejected(p, g)
       PROVE  Draining'
  BY <1>22 DEF TypeOK, Draining, NoWorkers, Live, PublishRejected, Goto
<1>23. ASSUME NEW p \in Profiles, NEW g \in Gens, PublishFinal(p, g)
       PROVE  Draining'
  BY <1>23 DEF TypeOK, Draining, NoWorkers, Live, PublishFinal, Goto
<1>24. ASSUME NEW p \in Profiles, NEW g \in Gens, PublishFails(p, g)
       PROVE  Draining'
  BY <1>24 DEF TypeOK, Draining, NoWorkers, Live, PublishFails, Goto
<1>25. ASSUME NEW p \in Profiles, NEW g \in Gens, RemoveService(p, g)
       PROVE  Draining'
  BY <1>25 DEF TypeOK, Draining, NoWorkers, Live, RemoveService, Goto
<1>26. ASSUME NEW p \in Profiles, NEW g \in Gens, FinishActiveRun(p, g)
       PROVE  Draining'
  BY <1>26 DEF TypeOK, Draining, NoWorkers, Live, FinishActiveRun, Goto
<1>27. ASSUME NEW p \in Profiles, NEW g \in Gens, ReleaseExecution(p, g)
       PROVE  Draining'
  BY <1>27 DEF TypeOK, Draining, NoWorkers, Live, ReleaseExecution, Goto
<1>28. ASSUME NEW p \in Profiles, DeleteMark(p)
       PROVE  Draining'
  BY <1>28 DEF TypeOK, Draining, NoWorkers, Live, DeleteMark
<1>29. ASSUME NEW p \in Profiles, DeleteLock(p)
       PROVE  Draining'
  BY <1>29 DEF TypeOK, Draining, NoWorkers, Live, DeleteLock, CancelReserve
<1>30. ASSUME NEW p \in Profiles, DeleteRow(p)
       PROVE  Draining'
  BY <1>30 DEF TypeOK, Draining, NoWorkers, Live, DeleteRow, DeleteHolds
<1>31. ASSUME NEW p \in Profiles, DeleteRowFails(p)
       PROVE  Draining'
  BY <1>31 DEF TypeOK, Draining, NoWorkers, Live, DeleteRowFails, DeleteHolds
<1>32. ASSUME NEW p \in Profiles, DeleteUndo(p)
       PROVE  Draining'
  BY <1>32 DEF TypeOK, Draining, NoWorkers, Live, DeleteUndo
<1>33. ASSUME NEW p \in Profiles, DeleteDrain(p)
       PROVE  Draining'
  BY <1>33 DEF TypeOK, Draining, NoWorkers, Live, DeleteDrain
<1>34. ASSUME ShutdownBegin
       PROVE  Draining'
  BY <1>34 DEF TypeOK, Draining, NoWorkers, Live, ShutdownBegin
<1>35. ASSUME ShutdownCollect
       PROVE  Draining'
  BY <1>35 DEF TypeOK, Draining, NoWorkers, Live, ShutdownCollect
<1>36. ASSUME NEW p \in Profiles, ShutdownCancel(p)
       PROVE  Draining'
  BY <1>36
  DEF TypeOK, Draining, NoWorkers, Live, ShutdownCancel, CancelReserve
<1>37. ASSUME NEW p \in Profiles, ShutdownCancelRejected(p)
       PROVE  Draining'
  BY <1>37 DEF TypeOK, Draining, NoWorkers, Live, ShutdownCancelRejected
<1>38. ASSUME ShutdownCanceled
       PROVE  Draining'
  BY <1>38 DEF TypeOK, Draining, NoWorkers, Live, ShutdownCanceled
<1>44. ASSUME NEW p \in Profiles, ShutdownAdmit(p)
       PROVE  Draining'
  BY <1>44 DEF TypeOK, Draining, NoWorkers, Live, ShutdownAdmit, Launched
<1>39. ASSUME ShutdownReturn
       PROVE  Draining'
  BY <1>39 DEF TypeOK, Draining, NoWorkers, Live, ShutdownReturn
<1>40. ASSUME ShutdownTimeout
       PROVE  Draining'
  BY <1>40 DEF TypeOK, Draining, NoWorkers, Live, ShutdownTimeout
<1>41. ASSUME NEW p \in Profiles, RestoreStatus(p)
       PROVE  Draining'
  BY <1>41 DEF TypeOK, Draining, NoWorkers, Live, RestoreStatus
<1>42. ASSUME Restart
       PROVE  Draining'
  BY <1>42 DEF TypeOK, Draining, NoWorkers, Live, Restart, VolatileInit
<1>43. CASE UNCHANGED vars
  BY <1>43 DEF TypeOK, Draining, NoWorkers, Live, vars
<1> QED
  BY <1>1, <1>2, <1>3, <1>4, <1>5, <1>6, <1>7, <1>8, <1>9, <1>10, <1>11,
     <1>12, <1>13, <1>14, <1>15, <1>16, <1>17, <1>18, <1>19, <1>20, <1>21,
     <1>22, <1>23, <1>24, <1>25, <1>26, <1>27, <1>28, <1>29, <1>30, <1>31,
     <1>32, <1>33, <1>34, <1>35, <1>36, <1>37, <1>38, <1>39, <1>40, <1>41,
     <1>42, <1>43, <1>44
     DEF Next, Worker, Cancellation, Starting, Deletion, ShuttingDown, Environment

\* When Shutdown returns without an error no worker is left and none can
\* start, for any number of profiles and calls.
THEOREM ShutdownIsClean == Spec => []ShutdownDrains
<1>1. Init => Inductive /\ Draining
  BY InitInductive, InitDraining
<1>2. Inductive /\ Draining /\ [Next]_vars => Inductive' /\ Draining'
  BY StepInductive, StepDraining DEF Inductive
<1>3. Inductive /\ Draining => ShutdownDrains
  <2> SUFFICES ASSUME Inductive, Draining, shutdownStep = "returned",
                      NEW p \in Profiles
               PROVE  NoWorkers(p) /\ starting[p] = 0 /\ ~syncing[p]
    BY DEF ShutdownDrains
  <2>1. NoWorkers(p) /\ starting[p] = 0 BY DEF Draining
  <2>2. ASSUME syncing[p] PROVE FALSE
    <3>1. active[p] # 0 /\ Live(p, active[p])
      BY <2>2 DEF Inductive, Ownership, Owned
    <3>2. active[p] \in Gens
      BY <3>1, BoundsAssumption DEF Inductive, TypeOK, Gens
    <3> QED BY <2>1, <3>1, <3>2 DEF NoWorkers
  <2> QED BY <2>1, <2>2
<1> QED BY <1>1, <1>2, <1>3, PTL DEF Spec

\* A deleted profile is quiet: its deletion is draining or over, or the
\* process that deleted it is gone and nothing runs for it.  A cancellation in
\* progress is that of a call which had been admitted before.
Quiet(p) ==
  row[p] = "inactive" =>
    /\ cancelStep[p] # "idle" => gate[p] \in {"user", "shutdown"}
    /\ \/ deleteStep[p] \in {"draining", "deleted"}
       \/ /\ \A g \in Gens : ~Live(p, g)
          /\ ~syncing[p]

DeletedQuiet == \A p \in Profiles : Quiet(p)

\* Deleted profiles are quiet at first.
LEMMA InitDeletedQuiet == Init => DeletedQuiet
BY DEF Init, DeletedQuiet, Quiet

\* Every step keeps deleted profiles quiet.
LEMMA StepDeletedQuiet ==
  ASSUME TypeOK, Ownership, DeletedQuiet, [Next]_vars
  PROVE  DeletedQuiet'
<1>1. ASSUME NEW p \in Profiles, StartAdmit(p)
      PROVE  DeletedQuiet'
  BY <1>1
  DEF TypeOK, DeletedQuiet, Quiet, Ownership, Owned, Live, StartAdmit,
      Deleting
<1>2. ASSUME NEW p \in Profiles, StartAccept(p)
      PROVE  DeletedQuiet'
  BY <1>2
  DEF TypeOK, DeletedQuiet, Quiet, Ownership, Owned, Live, StartAccept,
      Deleting
<1>3. ASSUME NEW p \in Profiles, StartReject(p)
      PROVE  DeletedQuiet'
  BY <1>3
  DEF TypeOK, DeletedQuiet, Quiet, Ownership, Owned, Live, StartReject,
      Deleting
<1>4. ASSUME NEW p \in Profiles, CancelSync(p)
      PROVE  DeletedQuiet'
  BY <1>4
  DEF TypeOK, DeletedQuiet, Quiet, Ownership, Owned, Live, CancelSync,
      CancelAccepted, CancelReserve, Deleting
<1>5. ASSUME NEW p \in Profiles, CancelDetach(p)
      PROVE  DeletedQuiet'
  BY <1>5
  DEF TypeOK, DeletedQuiet, Quiet, Ownership, Owned, Live, CancelDetach,
      Deleting
<1>6. ASSUME NEW p \in Profiles, CancelPersist(p)
      PROVE  DeletedQuiet'
  BY <1>6
  DEF TypeOK, DeletedQuiet, Quiet, Ownership, Owned, Live, CancelPersist,
      ReleaseAfterCancel, Deleting
<1>7. ASSUME NEW p \in Profiles, CancelPersistFails(p)
      PROVE  DeletedQuiet'
  BY <1>7
  DEF TypeOK, DeletedQuiet, Quiet, Ownership, Owned, Live,
      CancelPersistFails, ReleaseAfterCancel, Deleting
<1>8. ASSUME NEW p \in Profiles, NEW g \in Gens, TakeTurn(p, g)
      PROVE  DeletedQuiet'
  BY <1>8
  DEF TypeOK, DeletedQuiet, Quiet, Ownership, Owned, Live, TakeTurn, Goto,
      Deleting
<1>9. ASSUME NEW p \in Profiles, NEW g \in Gens, CheckTurn(p, g)
      PROVE  DeletedQuiet'
  BY <1>9
  DEF TypeOK, DeletedQuiet, Quiet, Ownership, Owned, Live, CheckTurn,
      Goto, Deleting
<1>10. ASSUME NEW p \in Profiles, NEW g \in Gens, SetupFails(p, g)
       PROVE  DeletedQuiet'
  BY <1>10
  DEF TypeOK, DeletedQuiet, Quiet, Ownership, Owned, Live, SetupFails,
      Goto, Deleting
<1>11. ASSUME NEW p \in Profiles, NEW g \in Gens, SetupDone(p, g)
       PROVE  DeletedQuiet'
  BY <1>11
  DEF TypeOK, DeletedQuiet, Quiet, Ownership, Owned, Live, SetupDone,
      Goto, Deleting
<1>12. ASSUME NEW p \in Profiles, NEW g \in Gens, RegisterService(p, g)
       PROVE  DeletedQuiet'
  BY <1>12
  DEF TypeOK, DeletedQuiet, Quiet, Ownership, Owned, Live,
      RegisterService, Goto, Deleting
<1>13. ASSUME NEW p \in Profiles, NEW g \in Gens, SyncRuns(p, g)
       PROVE  DeletedQuiet'
  BY <1>13
  DEF TypeOK, DeletedQuiet, Quiet, Ownership, Owned, Live, SyncRuns, Goto,
      Deleting
<1>14. ASSUME NEW p \in Profiles, NEW g \in Gens, SyncBook(p, g)
       PROVE  DeletedQuiet'
  BY <1>14
  DEF TypeOK, DeletedQuiet, Quiet, Ownership, Owned, Live, SyncBook, Goto,
      Deleting
<1>15. ASSUME NEW p \in Profiles, NEW g \in Gens, SyncFinalizes(p, g)
       PROVE  DeletedQuiet'
  BY <1>15
  DEF TypeOK, DeletedQuiet, Quiet, Ownership, Owned, Live, SyncFinalizes,
      Goto, Deleting
<1>16. ASSUME NEW p \in Profiles, NEW g \in Gens, SyncStops(p, g)
       PROVE  DeletedQuiet'
  BY <1>16
  DEF TypeOK, DeletedQuiet, Quiet, Ownership, Owned, Live, SyncStops,
      EndPhase, Goto, Deleting
<1>17. ASSUME NEW p \in Profiles, NEW g \in Gens, SyncFails(p, g)
       PROVE  DeletedQuiet'
  BY <1>17
  DEF TypeOK, DeletedQuiet, Quiet, Ownership, Owned, Live, SyncFails,
      EndPhase, Goto, Deleting
<1>18. ASSUME NEW p \in Profiles, NEW g \in Gens, SyncCompletes(p, g)
       PROVE  DeletedQuiet'
  BY <1>18
  DEF TypeOK, DeletedQuiet, Quiet, Ownership, Owned, Live, SyncCompletes,
      EndPhase, Goto, Deleting
<1>19. ASSUME NEW p \in Profiles, NEW g \in Gens, CheckpointSkip(p, g)
       PROVE  DeletedQuiet'
  BY <1>19
  DEF TypeOK, DeletedQuiet, Quiet, Ownership, Owned, Live, CheckpointSkip,
      Goto, Deleting
<1>20. ASSUME NEW p \in Profiles, NEW g \in Gens, CheckpointStore(p, g)
       PROVE  DeletedQuiet'
  BY <1>20
  DEF TypeOK, DeletedQuiet, Quiet, Ownership, Owned, Live,
      CheckpointStore, Goto, Deleting
<1>21. ASSUME NEW p \in Profiles, NEW g \in Gens, CheckpointFails(p, g)
       PROVE  DeletedQuiet'
  BY <1>21
  DEF TypeOK, DeletedQuiet, Quiet, Ownership, Owned, Live,
      CheckpointFails, EndPhase, Goto, Deleting
<1>22. ASSUME NEW p \in Profiles, NEW g \in Gens, PublishRejected(p, g)
       PROVE  DeletedQuiet'
  BY <1>22
  DEF TypeOK, DeletedQuiet, Quiet, Ownership, Owned, Live,
      PublishRejected, Goto, Deleting
<1>23. ASSUME NEW p \in Profiles, NEW g \in Gens, PublishFinal(p, g)
       PROVE  DeletedQuiet'
  BY <1>23
  DEF TypeOK, DeletedQuiet, Quiet, Ownership, Owned, Live, PublishFinal,
      Goto, Deleting
<1>24. ASSUME NEW p \in Profiles, NEW g \in Gens, PublishFails(p, g)
       PROVE  DeletedQuiet'
  BY <1>24
  DEF TypeOK, DeletedQuiet, Quiet, Ownership, Owned, Live, PublishFails,
      Goto, Deleting
<1>25. ASSUME NEW p \in Profiles, NEW g \in Gens, RemoveService(p, g)
       PROVE  DeletedQuiet'
  BY <1>25
  DEF TypeOK, DeletedQuiet, Quiet, Ownership, Owned, Live, RemoveService,
      Goto, Deleting
<1>26. ASSUME NEW p \in Profiles, NEW g \in Gens, FinishActiveRun(p, g)
       PROVE  DeletedQuiet'
  BY <1>26
  DEF TypeOK, DeletedQuiet, Quiet, Ownership, Owned, Live,
      FinishActiveRun, Goto, Deleting
<1>27. ASSUME NEW p \in Profiles, NEW g \in Gens, ReleaseExecution(p, g)
       PROVE  DeletedQuiet'
  BY <1>27
  DEF TypeOK, DeletedQuiet, Quiet, Ownership, Owned, Live,
      ReleaseExecution, Goto, Deleting
<1>28. ASSUME NEW p \in Profiles, DeleteMark(p)
       PROVE  DeletedQuiet'
  BY <1>28
  DEF TypeOK, DeletedQuiet, Quiet, Ownership, Owned, Live, DeleteMark,
      Deleting
<1>29. ASSUME NEW p \in Profiles, DeleteLock(p)
       PROVE  DeletedQuiet'
  BY SMTT(20), <1>29
  DEF TypeOK, DeletedQuiet, Quiet, Ownership, Owned, Live, DeleteLock,
      CancelAccepted, CancelReserve, Deleting
<1>30. ASSUME NEW p \in Profiles, DeleteRow(p)
       PROVE  DeletedQuiet'
  BY <1>30
  DEF TypeOK, DeletedQuiet, Quiet, Ownership, Owned, Live, DeleteRow,
      DeleteHolds, Deleting
<1>31. ASSUME NEW p \in Profiles, DeleteRowFails(p)
       PROVE  DeletedQuiet'
  BY <1>31
  DEF TypeOK, DeletedQuiet, Quiet, Ownership, Owned, Live, DeleteRowFails,
      DeleteHolds, Deleting
<1>32. ASSUME NEW p \in Profiles, DeleteUndo(p)
       PROVE  DeletedQuiet'
  BY <1>32
  DEF TypeOK, DeletedQuiet, Quiet, Ownership, Owned, Live, DeleteUndo,
      Deleting
<1>33. ASSUME NEW p \in Profiles, DeleteDrain(p)
       PROVE  DeletedQuiet'
  BY <1>33
  DEF TypeOK, DeletedQuiet, Quiet, Ownership, Owned, Live, DeleteDrain,
      Deleting
<1>34. ASSUME ShutdownBegin
       PROVE  DeletedQuiet'
  BY <1>34
  DEF TypeOK, DeletedQuiet, Quiet, Ownership, Owned, Live, ShutdownBegin,
      Deleting
<1>35. ASSUME ShutdownCollect
       PROVE  DeletedQuiet'
  BY <1>35
  DEF TypeOK, DeletedQuiet, Quiet, Ownership, Owned, Live,
      ShutdownCollect, Deleting
<1>36. ASSUME NEW p \in Profiles, ShutdownCancel(p)
       PROVE  DeletedQuiet'
  BY <1>36
  DEF TypeOK, DeletedQuiet, Quiet, Ownership, Owned, Live, ShutdownCancel,
      CancelAccepted, CancelReserve, Deleting
<1>37. ASSUME NEW p \in Profiles, ShutdownCancelRejected(p)
       PROVE  DeletedQuiet'
  BY <1>37
  DEF TypeOK, DeletedQuiet, Quiet, Ownership, Owned, Live,
      ShutdownCancelRejected, Deleting
<1>38. ASSUME ShutdownCanceled
       PROVE  DeletedQuiet'
  BY <1>38
  DEF TypeOK, DeletedQuiet, Quiet, Ownership, Owned, Live,
      ShutdownCanceled, Deleting
<1>44. ASSUME NEW p \in Profiles, ShutdownAdmit(p)
       PROVE  DeletedQuiet'
  BY <1>44
  DEF TypeOK, DeletedQuiet, Quiet, Ownership, Owned, Live,
      ShutdownAdmit, Launched, Deleting
<1>39. ASSUME ShutdownReturn
       PROVE  DeletedQuiet'
  BY <1>39
  DEF TypeOK, DeletedQuiet, Quiet, Ownership, Owned, Live, ShutdownReturn,
      Deleting
<1>40. ASSUME ShutdownTimeout
       PROVE  DeletedQuiet'
  BY <1>40
  DEF TypeOK, DeletedQuiet, Quiet, Ownership, Owned, Live,
      ShutdownTimeout, Deleting
<1>41. ASSUME NEW p \in Profiles, RestoreStatus(p)
       PROVE  DeletedQuiet'
  BY <1>41
  DEF TypeOK, DeletedQuiet, Quiet, Ownership, Owned, Live, RestoreStatus,
      Deleting
<1>42. ASSUME Restart
       PROVE  DeletedQuiet'
  BY <1>42
  DEF TypeOK, DeletedQuiet, Quiet, Ownership, Owned, Live, Restart,
      Deleting
<1>43. CASE UNCHANGED vars
  BY <1>43 DEF TypeOK, DeletedQuiet, Quiet, Ownership, Owned, Live, vars
<1> QED
  BY <1>1, <1>2, <1>3, <1>4, <1>5, <1>6, <1>7, <1>8, <1>9, <1>10, <1>11,
     <1>12, <1>13, <1>14, <1>15, <1>16, <1>17, <1>18, <1>19, <1>20, <1>21,
     <1>22, <1>23, <1>24, <1>25, <1>26, <1>27, <1>28, <1>29, <1>30, <1>31,
     <1>32, <1>33, <1>34, <1>35, <1>36, <1>37, <1>38, <1>39, <1>40, <1>41,
     <1>42, <1>43, <1>44
     DEF Next, Worker, Cancellation, Starting, Deletion, ShuttingDown, Environment

\* No checkpoint and no publication of a worker changes the reports of a deleted
\* profile, whatever it was doing when the profile was deleted: only a
\* cancellation that waited at the gate stores the end of the run it cancels.
THEOREM DeletedReportsStay == Spec => DeletedReportsFrozen
<1>1. Init => Inductive /\ DeletedQuiet
  BY InitInductive, InitDeletedQuiet
<1>2. Inductive /\ DeletedQuiet /\ [Next]_vars => Inductive' /\ DeletedQuiet'
  BY StepInductive, StepDeletedQuiet DEF Inductive
<1>3. ASSUME Inductive, DeletedQuiet, [Next]_vars
      PROVE  [\A p \in Profiles :
                row[p] = "inactive" /\ restarts' = restarts =>
                  \/ reports'[p] = reports[p]
                  \/ /\ gate[p] \in {"user", "shutdown"}
                     /\ reports[p][latest[p]] \in Pending
                     /\ reports'[p] =
                          Retained([reports[p] EXCEPT ![latest[p]] = "canceled"])]_vars
  <2> SUFFICES ASSUME NEW p \in Profiles,
                      row[p] = "inactive", restarts' = restarts,
                      ~(/\ gate[p] \in {"user", "shutdown"}
                        /\ reports[p][latest[p]] \in Pending
                        /\ reports'[p] =
                             Retained([reports[p] EXCEPT ![latest[p]] = "canceled"]))
               PROVE  reports'[p] = reports[p]
    OBVIOUS
  <2>1. CASE UNCHANGED ledgerVars BY <2>1
  <2>2. ASSUME NEW q \in Profiles, StartAccept(q)
        PROVE  q # p /\ reports'[p] = reports[p]
    <3>1. q # p BY <2>2 DEF StartAccept
    <3> QED
      BY <1>3, <2>2, <3>1 DEF StartAccept, AcceptSyncRun, Inductive, TypeOK
  <2>3. ASSUME NEW q \in Profiles, CancelPersist(q)
        PROVE  reports'[p] = reports[p]
    <3>1. cancelStep[q] # "idle" /\ UpsertTerminal(q, latest[q], "canceled")
      BY <2>3 DEF CancelPersist
    <3>2. ASSUME q = p PROVE FALSE
      <4>1. gate[p] \in {"user", "shutdown"}
        BY <1>3, <3>1, <3>2 DEF DeletedQuiet, Quiet
      <4>2. reports[p][latest[p]] \in Pending
        BY <1>3, <3>1, <3>2 DEF Inductive, Settlement, Settled
      <4>3. reports'[p] = Retained([reports[p] EXCEPT ![latest[p]] = "canceled"])
        BY <1>3, <3>1, <3>2 DEF UpsertTerminal, Inductive, TypeOK
      <4> QED BY <4>1, <4>2, <4>3
    <3> QED
      BY <1>3, <3>1, <3>2 DEF UpsertTerminal, Inductive, TypeOK
  <2>4. ASSUME NEW q \in Profiles, NEW g \in Gens,
               CheckpointStore(q, g) \/ PublishFinal(q, g)
        PROVE  reports'[p] = reports[p]
    <3>1. Live(q, g) /\ ~Deleting(q)
      BY <2>4 DEF CheckpointStore, CheckpointSkipped, PublishFinal,
                  PublishRefused, Live
    <3>2. q # p BY <1>3, <3>1 DEF DeletedQuiet, Quiet, Deleting
    <3> QED
      BY <1>3, <2>4, <3>2 DEF CheckpointStore, PublishFinal, UpsertTerminal,
                        Inductive, TypeOK
  <2>5. CASE Restart
    <3>1. restarts' # restarts
      BY <1>3, <2>5, BoundsAssumption DEF Restart, Inductive, TypeOK
    <3> QED BY <3>1
  <2> QED BY <2>1, <2>2, <2>3, <2>4, <2>5, <1>3, LedgerActions
<1> QED BY <1>1, <1>2, <1>3, PTL DEF Spec, DeletedReportsFrozen

---------------------------------------------------------------------------
(* Reports and statuses of a profile when the database answers              *)

\* A pending report has somebody to settle it: the cancellation of its run, or
\* its worker, which then has the run registered as active.  A deletion only
\* comes to be undone when the database failed.
Tended(p) ==
  /\ deleteStep[p] = "undo" => faults > 0
  /\ faults = 0 /\ ~Deleting(p) =>
       \A g \in Gens : reports[p][g] \in Pending =>
         /\ g = latest[p]
         /\ IF canceled[p] THEN cancelStep[p] # "idle" ELSE pc[p][g] \in Unsettled
  /\ \A g \in Gens : Current(p, g) /\ pc[p][g] \in Unsettled => syncing[p]

Tending == \A p \in Profiles : Tended(p)

\* A terminal status in memory is that of a report.
Agreeing(p) ==
  faults = 0 /\ status[p].state \in Terminal =>
    status[p].gen \in Gens /\ reports[p][status[p].gen] = status[p].state

Agreement == \A p \in Profiles : Agreeing(p)

\* Both hold at first.
LEMMA InitTending == Init => Tending /\ Agreement
<1> SUFFICES ASSUME Init, NEW p \in Profiles PROVE Tended(p) /\ Agreeing(p)
  BY DEF Tending, Agreement
<1>1. /\ \A g \in Gens : reports[p][g] = "absent" /\ pc[p][g] = "none"
      /\ deleteStep[p] = "none" /\ status[p].state = "none"
  BY DEF Init, LedgerInit, VolatileInit, NoStatus
<1> QED BY <1>1 DEF Tended, Agreeing, Pending, Terminal, Unsettled

\* Faults are counted up.
LEMMA FaultsGrow ==
  ASSUME TypeOK, [Next]_vars
  PROVE  faults' \in Nat /\ faults \in Nat /\ (faults' = faults \/ faults' > 0)
<1>1. TypeOK' BY StepType
<1>2. faults \in Nat /\ faults' \in Nat BY <1>1, BoundsAssumption DEF TypeOK
<1>3. ASSUME NEW p \in Profiles, NEW g \in Gens, Worker(p, g)
      PROVE  faults' = faults \/ faults' = faults + 1
  BY <1>3 DEF Worker, TakeTurn, CheckTurn, SetupFails,
     SetupDone, RegisterService, SyncRuns, SyncBook, SyncFinalizes, SyncStops, SyncFails,
     SyncCompletes, CheckpointSkip, CheckpointStore, CheckpointFails, PublishRejected,
     PublishFinal, PublishFails, RemoveService, FinishActiveRun, ReleaseExecution, Fault
<1>4. ASSUME NEW p \in Profiles, Cancellation(p) \/ Starting(p) \/ Deletion(p)
      PROVE  faults' = faults \/ faults' = faults + 1
  BY <1>4 DEF Cancellation, CancelDetach, CancelPersist, CancelPersistFails, Starting,
     StartAccept, StartReject, Deletion, DeleteLock, CancelReserve, DeleteRow,
     DeleteRowFails, DeleteUndo, DeleteDrain, Fault
<1>5. ShuttingDown => faults' = faults
  BY DEF ShuttingDown, ShutdownCollect, ShutdownCanceled, ShutdownReturn,
     ShutdownCancel, CancelReserve, ShutdownCancelRejected, ShutdownAdmit
<1>6. Environment => faults' = faults
  BY DEF Environment, StartAdmit, CancelSync, CancelReserve, DeleteMark,
     RestoreStatus, ShutdownBegin, ShutdownTimeout, Restart
<1>7. UNCHANGED vars => faults' = faults BY DEF vars
<1>8. faults' = faults \/ faults' = faults + 1
  BY <1>3, <1>4, <1>5, <1>6, <1>7 DEF Next
<1> QED BY <1>2, <1>8

\* A cancellation is stored with the report of the latest run.
LEMMA CancelPersistRows ==
  ASSUME TypeOK, Ownership, NEW p \in Profiles, CancelPersist(p)
  PROVE  \E g \in Gens :
           /\ g = latest[p] /\ reports'[p][g] = "canceled"
           /\ \A h \in Gens \ {g} : reports'[p][h] \in {reports[p][h], "absent"}
           /\ \A q \in Profiles \ {p} : reports'[q] = reports[q]
<1>1. PICK g \in Gens : g = latest[p] /\ g = attempted[p]
  BY SMTT(20), BoundsAssumption DEF CancelPersist, Ownership, Owned, TypeOK, Gens
<1>2. UpsertTerminal(p, g, "canceled")
  BY <1>1 DEF CancelPersist
<1> QED BY <1>1, <1>2, TerminalRows DEF Terminal

\* The steps of a worker that move only itself: it does not come back to where
\* it can publish its end, nor leave it while its run is current.
Moves(p, g) ==
  /\ UNCHANGED <<reports, latest, canceled, syncing, cancelStep, deleteStep>>
  /\ \A q \in Profiles, h \in Gens : <<q, h>> # <<p, g>> => pc'[q][h] = pc[q][h]
  /\ pc'[p][g] \in Unsettled => pc[p][g] \in Unsettled
  /\ \/ pc[p][g] \in Unsettled => pc'[p][g] \in Unsettled
     \/ ~Current(p, g) \/ Deleting(p) \/ faults' > 0

\* All steps of a worker but those that change its report or end its activity.
LEMMA WorkerMoves ==
  ASSUME TypeOK, Ownership, Tending, NEW p \in Profiles, NEW g \in Gens, Worker(p, g)
  PROVE  \/ Moves(p, g) \/ CheckpointStore(p, g) \/ PublishFinal(p, g)
         \/ FinishActiveRun(p, g)
<1>1. Current(p, g) /\ pc[p][g] \in Unsettled => active[p] = g
  BY DEF Tending, Tended, Ownership, Owned, Current
<1>2. CASE TakeTurn(p, g) BY <1>2 DEF TakeTurn, Goto, TypeOK, Moves, Unsettled
<1>3. CASE CheckTurn(p, g) BY <1>3 DEF CheckTurn, Goto, TypeOK, Moves, Unsettled
<1>4. CASE SetupFails(p, g)
  BY <1>1, <1>4 DEF SetupFails, Goto, TypeOK, Moves, Unsettled
<1>5. CASE SetupDone(p, g)
  BY <1>1, <1>5 DEF SetupDone, Goto, TypeOK, Moves, Unsettled
<1>6. CASE RegisterService(p, g)
  BY <1>1, <1>6 DEF RegisterService, Goto, TypeOK, Moves, Unsettled
<1>7. CASE SyncRuns(p, g) BY <1>7 DEF SyncRuns, Goto, TypeOK, Moves, Unsettled
<1>8. CASE SyncBook(p, g) BY <1>8 DEF SyncBook, Goto, TypeOK, Moves, Unsettled
<1>9. CASE SyncFinalizes(p, g)
  BY <1>9 DEF SyncFinalizes, Goto, TypeOK, Moves, Unsettled
<1>10. CASE SyncStops(p, g) \/ SyncFails(p, g) \/ SyncCompletes(p, g)
  BY <1>10 DEF SyncStops, SyncFails, SyncCompletes, EndPhase, Goto, TypeOK, Moves, Unsettled
<1>11. CASE CheckpointSkip(p, g)
  BY <1>11 DEF CheckpointSkip, Goto, TypeOK, Moves, Unsettled
<1>12. CASE CheckpointFails(p, g)
  BY <1>12 DEF CheckpointFails, EndPhase, Goto, TypeOK, Moves, Unsettled
<1>13. CASE PublishRejected(p, g)
  BY <1>13 DEF PublishRejected, PublishRefused, Goto, TypeOK, Moves, Unsettled
<1>14. CASE PublishFails(p, g)
  <2>1. faults' > 0 BY <1>14, BoundsAssumption DEF PublishFails, Fault, TypeOK
  <2> QED BY <1>14, <2>1 DEF PublishFails, Goto, TypeOK, Moves, Unsettled
<1>15. CASE RemoveService(p, g)
  BY <1>15 DEF RemoveService, Goto, TypeOK, Moves, Unsettled
<1>16. CASE ReleaseExecution(p, g)
  BY <1>16 DEF ReleaseExecution, Goto, TypeOK, Moves, Unsettled
<1> QED BY <1>2, <1>3, <1>4, <1>5, <1>6, <1>7, <1>8, <1>9, <1>10, <1>11, <1>12, <1>13,
           <1>14, <1>15, <1>16
        DEF Worker

\* The steps that concern neither workers, reports nor cancellations; a deletion
\* may begin, or be undone.
Rests ==
  /\ UNCHANGED <<reports, pc, latest, canceled, syncing, cancelStep>>
  /\ \A p \in Profiles :
       \/ deleteStep'[p] = deleteStep[p]
       \/ deleteStep'[p] \notin {"none", "undo"}
       \/ deleteStep'[p] = "undo" /\ faults' > 0
       \/ deleteStep[p] = "undo"

\* The steps that reserve a cancellation, which is of the active run.
Reserves(p) ==
  /\ UNCHANGED <<reports, pc, latest>>
  /\ syncing[p] /\ canceled'[p] /\ cancelStep'[p] = "detach" /\ ~syncing'[p]
  /\ \A q \in Profiles \ {p} :
       /\ canceled'[q] = canceled[q] /\ cancelStep'[q] = cancelStep[q]
       /\ syncing'[q] = syncing[q]
  /\ \A q \in Profiles :
       deleteStep'[q] = deleteStep[q] \/ deleteStep'[q] \notin {"none", "undo"}

\* The steps that are neither a worker's nor one of the few that end or accept
\* a run.
LEMMA OtherSteps ==
  ASSUME TypeOK, Ownership, [Next]_vars
  PROVE  \/ Rests \/ \E p \in Profiles : Reserves(p)
         \/ \E p \in Profiles, g \in Gens : Worker(p, g)
         \/ \E p \in Profiles : \/ StartAccept(p) \/ CancelDetach(p) \/ CancelPersist(p)
                                \/ CancelPersistFails(p) \/ DeleteDrain(p)
         \/ Restart
<1>1. ASSUME NEW p \in Profiles, CancelSync(p) \/ DeleteLock(p) \/ ShutdownCancel(p)
      PROVE  Rests \/ Reserves(p)
  <2>1. CASE CancelAccepted(p)
    <3>1. active[p] = latest[p] /\ syncing[p]
      BY <2>1 DEF CancelAccepted, Ownership, Owned
    <3>2. \E holder \in {"user", "shutdown", "delete"} : CancelReserve(p, holder)
      BY <1>1, <2>1 DEF CancelSync, DeleteLock, ShutdownCancel
    <3>3. \A q \in Profiles :
            deleteStep'[q] = deleteStep[q] \/ deleteStep'[q] \notin {"none", "undo"}
      BY <1>1 DEF CancelSync, DeleteLock, ShutdownCancel, TypeOK
    <3> QED BY <3>1, <3>2, <3>3 DEF CancelReserve, Reserves, TypeOK
  <2>2. CASE ~CancelAccepted(p)
    <3>1. DeleteLock(p) BY <1>1, <2>2 DEF CancelSync, ShutdownCancel
    <3> QED BY <2>2, <3>1 DEF DeleteLock, Rests, TypeOK
  <2> QED BY <2>1, <2>2
<1>2. ASSUME NEW p \in Profiles, StartReject(p) \/ StartAdmit(p) \/ RestoreStatus(p)
      PROVE  Rests
  BY <1>2 DEF StartReject, StartAdmit, RestoreStatus, Rests
<1>3. ASSUME NEW p \in Profiles, DeleteRowFails(p)
      PROVE  Rests
  <2>1. faults' > 0 BY <1>3, BoundsAssumption DEF DeleteRowFails, Fault, TypeOK
  <2> QED BY <1>3, <2>1 DEF DeleteRowFails, Rests, TypeOK
<1>4. ASSUME NEW p \in Profiles, DeleteMark(p) \/ DeleteRow(p) \/ DeleteUndo(p)
      PROVE  Rests
  BY <1>4 DEF DeleteMark, DeleteRow, DeleteUndo, Rests, TypeOK
<1>5. ASSUME NEW p \in Profiles, ShutdownAdmit(p) \/ ShutdownCancelRejected(p)
      PROVE  Rests
  BY <1>5 DEF ShutdownAdmit, ShutdownCancelRejected, Rests
<1>6. CASE ShutdownCollect \/ ShutdownCanceled \/ ShutdownReturn \/ ShutdownBegin
             \/ ShutdownTimeout
  BY <1>6 DEF ShutdownCollect, ShutdownCanceled, ShutdownReturn, ShutdownBegin,
     ShutdownTimeout, Rests
<1>7. CASE UNCHANGED vars BY <1>7 DEF vars, Rests
<1> QED BY <1>1, <1>2, <1>3, <1>4, <1>5, <1>6, <1>7
        DEF Next, Cancellation, Starting, Deletion, ShuttingDown, Environment

\* Every step leaves somebody to settle what is pending.
LEMMA StepTending ==
  ASSUME TypeOK, Ownership, Settlement, Tending, [Next]_vars
  PROVE  Tending'
<1>0. faults' \in Nat /\ faults \in Nat /\ (faults' = faults \/ faults' > 0)
  BY FaultsGrow
<1> SUFFICES ASSUME NEW q \in Profiles PROVE Tended(q)'
  BY DEF Tending
<1>1. Tended(q) /\ Owned(q) /\ Settled(q) BY DEF Tending, Ownership, Settlement
<1>2. CASE Rests
  BY <1>0, <1>1, <1>2 DEF Rests, Tended, Deleting, Current
<1>3. ASSUME NEW p \in Profiles, Reserves(p)
      PROVE  Tended(q)'
  <2>1. CASE q = p
    BY <1>0, <1>1, <1>3, <2>1 DEF Reserves, Tended, Deleting, Current, Owned
  <2>2. CASE q # p
    BY <1>0, <1>1, <1>3, <2>2 DEF Reserves, Tended, Deleting, Current
  <2> QED BY <2>1, <2>2
<1>4. ASSUME NEW p \in Profiles, NEW g \in Gens, Moves(p, g)
      PROVE  Tended(q)'
  <2>1. ASSUME NEW h \in Gens, pc'[q][h] \in Unsettled
        PROVE  pc[q][h] \in Unsettled
    BY <1>4, <2>1 DEF Moves
  <2>2. ASSUME NEW h \in Gens, pc[q][h] \in Unsettled, Current(q, h), ~Deleting(q),
               faults' = 0
        PROVE  pc'[q][h] \in Unsettled
    BY <1>0, <1>4, <2>2 DEF Moves
  <2>3. UNCHANGED <<reports, latest, canceled, syncing, cancelStep, deleteStep>>
    BY <1>4 DEF Moves
  <2> QED BY <1>0, <1>1, <2>1, <2>2, <2>3 DEF Tended, Deleting, Current
<1>5. ASSUME NEW p \in Profiles, NEW g \in Gens, CheckpointStore(p, g)
      PROVE  Tended(q)'
  <2>1. /\ reports' = [reports EXCEPT ![p][g] = phase[p][g]]
        /\ pc' = [pc EXCEPT ![p][g] = "sync"] /\ pc[p][g] = "checkpoint"
        /\ reports[p][g] \in Pending /\ latest[p] = g /\ ~canceled[p]
        /\ UNCHANGED <<latest, canceled, syncing, cancelStep, deleteStep, faults>>
    BY <1>5 DEF CheckpointStore, CheckpointSkipped, Current, Goto
  <2> QED BY <1>1, <2>1 DEF Tended, Deleting, Current, TypeOK, Unsettled
<1>6. ASSUME NEW p \in Profiles, NEW g \in Gens, PublishFinal(p, g)
      PROVE  Tended(q)'
  <2>1. Current(p, g) BY <1>6 DEF PublishFinal, PublishRefused
  <2>2. Outcome(p, g) \in Terminal
    BY <1>6 DEF PublishFinal, Outcome, Settlement, Settled, Terminal
  <2>3. PICK outcome \in Terminal : outcome = Outcome(p, g)
    BY <2>2
  <2>4. /\ reports'[p][g] = outcome
        /\ \A h \in Gens \ {g} : reports'[p][h] \in {reports[p][h], "absent"}
        /\ \A o \in Profiles \ {p} : reports'[o] = reports[o]
    BY <1>6, <2>3, TerminalRows DEF PublishFinal, Ownership
  <2>5. /\ \A h \in Gens \ {g} : pc'[p][h] = pc[p][h]
        /\ pc'[p][g] \in {"finish", "unregister"}
        /\ \A o \in Profiles \ {p} : pc'[o] = pc[o]
    BY <1>6 DEF PublishFinal, Goto, TypeOK
  <2>6. UNCHANGED <<latest, canceled, syncing, cancelStep, deleteStep, faults>>
    BY <1>6 DEF PublishFinal
  <2> QED BY <1>1, <2>1, <2>3, <2>4, <2>5, <2>6
          DEF Tended, Deleting, Current, Unsettled, Pending, Terminal
<1>7. ASSUME NEW p \in Profiles, NEW g \in Gens, FinishActiveRun(p, g)
      PROVE  Tended(q)'
  <2>1. /\ pc' = [pc EXCEPT ![p][g] = "release"] /\ pc[p][g] = "finish"
        /\ syncing' = [syncing EXCEPT ![p] = active[p] # g /\ @]
        /\ UNCHANGED <<reports, latest, canceled, cancelStep, deleteStep, faults>>
    BY <1>7 DEF FinishActiveRun, Goto
  <2> QED BY <1>1, <2>1 DEF Tended, Owned, Deleting, Current, TypeOK, Unsettled
<1>8. ASSUME NEW p \in Profiles, StartAccept(p)
      PROVE  Tended(q)'
  <2>0. PICK g \in Gens : g = NextGeneration(p)
    BY <1>8 DEF StartAccept
  <2>1. PICK d \in BOOLEAN : AcceptSyncRun(p, g, d)
    BY <1>8, <2>0, DryRunsAssumption DEF StartAccept
  <2>2. /\ reports'[p][g] = "queued"
        /\ \A h \in Gens \ {g} : reports'[p][h] \in {reports[p][h], "absent"}
        /\ \A o \in Profiles \ {p} : reports'[o] = reports[o]
    BY <2>1, AcceptedRows
  <2>3. /\ latest' = [latest EXCEPT ![p] = g]
        /\ canceled' = [canceled EXCEPT ![p] = FALSE]
        /\ syncing' = [syncing EXCEPT ![p] = TRUE]
        /\ pc' = [pc EXCEPT ![p][g] = "waiting"]
        /\ UNCHANGED <<cancelStep, deleteStep, faults>>
    BY <1>8, <2>0 DEF StartAccept
  <2>4. cancelStep[p] = "idle" /\ ~syncing[p]
    BY <1>8 DEF Ownership, Owned, StartAccept
  <2>5. CASE q = p
    <3>1. /\ latest'[p] = g /\ ~canceled'[p] /\ syncing'[p] /\ pc'[p][g] = "waiting"
      BY <2>3 DEF TypeOK
    <3>2. ASSUME faults = 0, ~Deleting(p), NEW h \in Gens, reports[p][h] \in Pending
          PROVE  FALSE
      BY <1>1, <2>4, <2>5, <3>2 DEF Tended, Current
    <3>3. ASSUME faults = 0, ~Deleting(p), NEW h \in Gens, reports'[p][h] \in Pending
          PROVE  h = g
      BY <2>2, <3>2, <3>3 DEF Pending
    <3> QED BY <1>1, <2>3, <2>5, <3>1, <3>3 DEF Tended, Deleting, Current, Unsettled
  <2>6. CASE q # p
    BY <1>1, <2>2, <2>3, <2>6 DEF Tended, Deleting, Current, TypeOK
  <2> QED BY <2>5, <2>6
<1>9. ASSUME NEW p \in Profiles, CancelDetach(p)
      PROVE  Tended(q)'
  <2>1. /\ UNCHANGED <<reports, pc, latest, canceled, syncing, deleteStep, faults>>
        /\ cancelStep' = [cancelStep EXCEPT ![p] = "persist"]
    BY <1>9 DEF CancelDetach
  <2> QED BY <1>1, <2>1 DEF Tended, Deleting, Current, TypeOK
<1>10. ASSUME NEW p \in Profiles, CancelPersist(p)
       PROVE  Tended(q)'
  <2>1. PICK g \in Gens :
          /\ g = latest[p] /\ reports'[p][g] = "canceled"
          /\ \A h \in Gens \ {g} : reports'[p][h] \in {reports[p][h], "absent"}
          /\ \A o \in Profiles \ {p} : reports'[o] = reports[o]
    BY <1>10, CancelPersistRows
  <2>2. /\ cancelStep' = [cancelStep EXCEPT ![p] = "idle"]
        /\ UNCHANGED <<latest, canceled, syncing, pc, deleteStep, faults>>
    BY <1>10 DEF CancelPersist, ReleaseAfterCancel
  <2>3. CASE q = p
    <3>1. ASSUME faults = 0, ~Deleting(p), NEW h \in Gens
          PROVE  reports'[p][h] \notin Pending
      BY <1>1, <2>1, <2>3, <3>1 DEF Tended, Pending
    <3> QED BY <1>1, <2>2, <2>3, <3>1 DEF Tended, Deleting, Current
  <2>4. CASE q # p
    <3>1. cancelStep'[q] = cancelStep[q] BY <2>2, <2>4 DEF TypeOK
    <3> QED BY <1>1, <2>1, <2>2, <2>4, <3>1 DEF Tended, Deleting, Current
  <2> QED BY <2>3, <2>4
<1>11. ASSUME NEW p \in Profiles, CancelPersistFails(p)
       PROVE  Tended(q)'
  <2>1. faults' > 0 BY <1>11, BoundsAssumption DEF CancelPersistFails, Fault, TypeOK
  <2>2. UNCHANGED <<latest, canceled, syncing, pc, deleteStep>>
    BY <1>11 DEF CancelPersistFails
  <2> QED BY <1>0, <1>1, <2>1, <2>2 DEF Tended, Current
<1>12. ASSUME NEW p \in Profiles, DeleteDrain(p)
       PROVE  Tended(q)'
  <2>1. /\ latest' = [latest EXCEPT ![p] = 0]
        /\ canceled' = [canceled EXCEPT ![p] = FALSE]
        /\ syncing' = [syncing EXCEPT ![p] = FALSE]
        /\ deleteStep' = [deleteStep EXCEPT ![p] = "deleted"]
        /\ UNCHANGED <<reports, pc, cancelStep, faults>>
    BY <1>12 DEF DeleteDrain
  <2> QED BY <1>1, <2>1, GenBound DEF Tended, Deleting, Current, TypeOK
<1>13. CASE Restart
  <2>1. \A g \in Gens : reports'[q][g] \notin Pending /\ pc'[q][g] = "none"
    BY <1>13, RetainedRows DEF Restart, Retained, TypeOK, Pending, Terminal, RowStates
  <2>2. deleteStep'[q] = "none" BY <1>13 DEF Restart
  <2> QED BY <2>1, <2>2 DEF Tended, Unsettled
<1> QED BY <1>2, <1>3, <1>4, <1>5, <1>6, <1>7, <1>8, <1>9, <1>10, <1>11, <1>12, <1>13,
           OtherSteps, WorkerMoves

\* The reports are settled at rest, for any number of profiles and runs, as
\* long as the database answers.
THEOREM ReportsSettle == Spec => []RestIsSettled
<1>1. Init => Inductive /\ Tending
  BY InitInductive, InitTending
<1>2. Inductive /\ Tending /\ [Next]_vars => Inductive' /\ Tending'
  BY StepInductive, StepTending DEF Inductive
<1>3. Inductive /\ Tending => RestIsSettled
  <2> SUFFICES ASSUME Inductive, Tending, NEW p \in Profiles, faults = 0, ~Deleting(p),
                      gate[p] = "free", NoWorkers(p), NEW g \in Gens,
                      reports[p][g] \in Pending
               PROVE  FALSE
    BY DEF RestIsSettled
  <2>1. cancelStep[p] = "idle" BY DEF Inductive, Ownership, Owned
  <2>2. pc[p][g] \notin Unsettled BY DEF NoWorkers, Live, Unsettled
  <2> QED BY <2>1, <2>2 DEF Tending, Tended
<1> QED BY <1>1, <1>2, <1>3, PTL DEF Spec

\* The actions that change a status.
LEMMA StatusActions ==
  ASSUME [Next]_vars
  PROVE  \/ UNCHANGED status
         \/ \E p \in Profiles : \/ StartAccept(p) \/ CancelPersist(p)
                                \/ CancelPersistFails(p) \/ DeleteDrain(p)
                                \/ RestoreStatus(p)
         \/ \E p \in Profiles, g \in Gens : PublishFinal(p, g) \/ PublishFails(p, g)
         \/ Restart
<1>1. ASSUME NEW p \in Profiles, NEW g \in Gens, Worker(p, g)
      PROVE  UNCHANGED status \/ PublishFinal(p, g) \/ PublishFails(p, g)
  BY <1>1 DEF Worker, TakeTurn, CheckTurn, SetupFails, SetupDone,
     RegisterService, SyncRuns, SyncBook, SyncFinalizes, SyncStops, SyncFails,
     SyncCompletes, CheckpointSkip, CheckpointStore, CheckpointFails, PublishRejected,
     RemoveService, FinishActiveRun, ReleaseExecution
<1>2. ASSUME NEW p \in Profiles, Cancellation(p) \/ Starting(p) \/ Deletion(p)
      PROVE  \/ UNCHANGED status \/ CancelPersist(p) \/ CancelPersistFails(p)
             \/ StartAccept(p) \/ DeleteDrain(p)
  BY <1>2 DEF Cancellation, Starting, Deletion, CancelDetach,
     StartReject, DeleteLock, CancelReserve, DeleteRow, DeleteRowFails, DeleteUndo
<1>3. ShuttingDown => UNCHANGED status
  BY DEF ShuttingDown, ShutdownCollect, ShutdownCanceled, ShutdownReturn,
     ShutdownCancel, CancelReserve, ShutdownCancelRejected, ShutdownAdmit
<1>4. Environment => UNCHANGED status \/ Restart \/ \E p \in Profiles : RestoreStatus(p)
  BY DEF Environment, StartAdmit, CancelSync, CancelReserve, DeleteMark,
     ShutdownBegin, ShutdownTimeout
<1>5. UNCHANGED vars => UNCHANGED status
  BY DEF vars
<1> QED BY <1>1, <1>2, <1>3, <1>4, <1>5 DEF Next

\* Every step keeps the statuses true to the reports.
LEMMA StepAgreement ==
  ASSUME TypeOK, Ownership, Settlement, Agreement, [Next]_vars
  PROVE  Agreement'
<1>0. faults' \in Nat /\ faults \in Nat /\ (faults' = faults \/ faults' > 0)
  BY FaultsGrow
<1> SUFFICES ASSUME NEW q \in Profiles PROVE Agreeing(q)'
  BY DEF Agreement
<1>1. Agreeing(q) /\ Owned(q) /\ Settled(q) BY DEF Agreement, Ownership, Settlement
<1>2. CASE UNCHANGED status /\ UNCHANGED ledgerVars
  BY <1>0, <1>1, <1>2 DEF Agreeing
<1>3. ASSUME NEW p \in Profiles, NEW g \in Gens, CheckpointStore(p, g)
      PROVE  Agreeing(q)'
  <2>1. /\ reports' = [reports EXCEPT ![p][g] = phase[p][g]]
        /\ reports[p][g] \in Pending
        /\ UNCHANGED <<status, faults>>
    BY <1>3 DEF CheckpointStore, CheckpointSkipped
  <2> QED BY <1>1, <2>1 DEF Agreeing, TypeOK, Pending, Terminal
<1>4. ASSUME NEW p \in Profiles, NEW g \in Gens, PublishFinal(p, g)
      PROVE  Agreeing(q)'
  <2>2. Outcome(p, g) \in Terminal
    BY <1>4 DEF PublishFinal, Outcome, Settlement, Settled, Terminal
  <2>3. PICK outcome \in Terminal : outcome = Outcome(p, g)
    BY <2>2
  <2>4. /\ reports'[p][g] = outcome
        /\ \A o \in Profiles \ {p} : reports'[o] = reports[o]
    BY <1>4, <2>3, TerminalRows DEF PublishFinal, Ownership
  <2>5. /\ \A o \in Profiles \ {p} : status'[o] = status[o]
        /\ status'[p].gen = g /\ status'[p].state = outcome
        /\ faults' = faults
    BY <1>4, <2>3 DEF PublishFinal, PublishedStatus, TypeOK
  <2> QED BY <1>1, <2>4, <2>5 DEF Agreeing
<1>5. ASSUME NEW p \in Profiles, NEW g \in Gens, PublishFails(p, g)
      PROVE  Agreeing(q)'
  <2>1. faults' > 0 BY <1>5, BoundsAssumption DEF PublishFails, Fault, TypeOK
  <2> QED BY <1>0, <2>1 DEF Agreeing
<1>6. ASSUME NEW p \in Profiles, StartAccept(p)
      PROVE  Agreeing(q)'
  <2>0. PICK g \in Gens : g = NextGeneration(p)
    BY <1>6 DEF StartAccept
  <2>1. PICK d \in BOOLEAN : AcceptSyncRun(p, g, d)
    BY <1>6, <2>0, DryRunsAssumption DEF StartAccept
  <2>2. \A o \in Profiles \ {p} : reports'[o] = reports[o]
    BY <2>1, AcceptedRows
  <2>3. /\ status'[p].state = "queued" /\ \A o \in Profiles \ {p} : status'[o] = status[o]
        /\ faults' = faults
    BY <1>6, <2>0 DEF StartAccept, TypeOK
  <2> QED BY <1>1, <2>2, <2>3 DEF Agreeing, Terminal
<1>7. ASSUME NEW p \in Profiles, CancelPersist(p)
      PROVE  Agreeing(q)'
  <2>1. PICK g \in Gens :
          /\ g = latest[p] /\ reports'[p][g] = "canceled"
          /\ \A o \in Profiles \ {p} : reports'[o] = reports[o]
    BY <1>7, CancelPersistRows
  <2>2. /\ status'[p].gen = g /\ status'[p].state = "canceled"
        /\ \A o \in Profiles \ {p} : status'[o] = status[o]
        /\ faults' = faults
    BY <1>7, <2>1 DEF CancelPersist, TypeOK
  <2> QED BY <1>1, <2>1, <2>2 DEF Agreeing
<1>8. ASSUME NEW p \in Profiles, CancelPersistFails(p)
      PROVE  Agreeing(q)'
  <2>1. faults' > 0 BY <1>8, BoundsAssumption DEF CancelPersistFails, Fault, TypeOK
  <2> QED BY <1>0, <2>1 DEF Agreeing
<1>9. ASSUME NEW p \in Profiles, DeleteDrain(p)
      PROVE  Agreeing(q)'
  <2>1. /\ status' = [status EXCEPT ![p] = NoStatus] /\ UNCHANGED <<reports, faults>>
    BY <1>9 DEF DeleteDrain
  <2>2. status'[p].state = "none" BY <2>1 DEF TypeOK, NoStatus
  <2> QED BY <1>1, <2>1, <2>2 DEF Agreeing, TypeOK, Terminal
<1>10. ASSUME NEW p \in Profiles, RestoreStatus(p)
       PROVE  Agreeing(q)'
  <2>1. /\ status' = [status EXCEPT ![p] = Restored(p)] /\ UNCHANGED <<reports, faults>>
    BY <1>10 DEF RestoreStatus
  <2> DEFINE ended == {g \in Gens : reports[p][g] \in Terminal}
  <2>2. CASE ended = {}
    <3>1. Restored(p).state = "none" BY <2>2 DEF Restored, NoStatus
    <3>2. status'[p].state = "none" BY <2>1, <3>1 DEF TypeOK
    <3> QED BY <1>1, <2>1, <3>2 DEF Agreeing, TypeOK, Terminal
  <2>3. CASE ended # {}
    <3>1. Max(ended) \in ended BY <2>3, MaxOfGens
    <3>2. Restored(p).gen = Max(ended) /\ Restored(p).state = reports[p][Max(ended)]
      BY <2>3 DEF Restored
    <3>3. status'[p].gen \in Gens /\ reports'[p][status'[p].gen] = status'[p].state
      BY <2>1, <3>1, <3>2 DEF TypeOK
    <3> QED BY <1>1, <2>1, <3>3 DEF Agreeing, TypeOK
  <2> QED BY <2>2, <2>3
<1>11. CASE Restart
  <2>1. status'[q].state = "none" BY <1>11 DEF Restart, NoStatus
  <2> QED BY <2>1 DEF Agreeing, Terminal
<1> QED BY <1>2, <1>3, <1>4, <1>5, <1>6, <1>7, <1>8, <1>9, <1>10, <1>11,
           StatusActions, LedgerActions

\* A terminal status repeats the stored report of its run, for any number of
\* profiles and runs, as long as no store failed.
THEOREM StatusesAgree == Spec => []StatusMatchesReport
<1>1. Init => Inductive /\ Agreement
  BY InitInductive, InitTending
<1>2. Inductive /\ Agreement /\ [Next]_vars => Inductive' /\ Agreement'
  BY StepInductive, StepAgreement DEF Inductive
<1>3. Agreement => StatusMatchesReport
  BY DEF Agreement, Agreeing, StatusMatchesReport
<1> QED BY <1>1, <1>2, <1>3, PTL DEF Spec

=============================================================================
