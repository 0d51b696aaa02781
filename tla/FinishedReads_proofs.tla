----------------------- MODULE FinishedReads_proofs -----------------------
(***************************************************************************)
(* Theorems about FinishedReads for every set of items, of dates and of    *)
(* setups, and for every bound on reads, faults, stops and edits.          *)
(*                                                                         *)
(* The inductive invariant has two halves.  The first is about the reads:  *)
(*                                                                         *)
(*   IInv == Types /\ New /\ Gone /\ Places /\ Known /\ Single             *)
(*                                                                         *)
(* Known says that a read the run does not know of is one the user or      *)
(* Hardcover added meanwhile, or a copy of an insertion that was sent      *)
(* again; Single that the reads the sync inserted and that still exist     *)
(* came from one request.  The second is about their dates:                *)
(*                                                                         *)
(*   Safe == Covered /\ Intents /\ Repairs                                 *)
(*                                                                         *)
(* where Intents speaks of the reads that came with the user book only     *)
(* until the run repairs dates: what it then undoes is in stale.           *)
(***************************************************************************)
EXTENDS FinishedReads, FiniteSetTheorems, WellFoundedInduction, TLAPS

---------------------------------------------------------------------------
(* The invariant                                                           *)

Loading == {"load", "confirm", "write", "verify"}
Handling == {"handle", "repair", "reads"}
Deciding == {"close", "insert", "intend", "status", "clean"}

\* A run that is at an item knows which, and a repair where it goes on.
Busy == /\ pc \notin {"idle", "item"} => run.item \in Items
        /\ pc \in Loading => run.back \in {"guard", "reads", "clean"}

Types == TypeOK /\ Busy

\* Nothing is known of a read that does not exist yet.
Unmade(i) ==
  /\ reads[i] = Absent /\ history[i] = Absent
  /\ i \notin inserted /\ i \notin blank
  /\ disk.intent[i] = Absent /\ mem.intent[i] = Absent
  /\ run.dates[i] = Absent /\ run.snap[i] = Absent /\ run.todo[i] = Absent
  /\ run.byID[i] = Absent
New == \A i \in Ids : i > next => Unmade(i)

\* A user book that is gone has no reads, and nothing is owed to it.
Gone == userBook = "deleted" => \A i \in Ids : reads[i] = Absent /\ history[i] = Absent

\* What the place of a run tells of it.
Places ==
  /\ pc \in {"idle", "item", "recover", "guard", "find"} \cup Deciding => ~run.snapped
  /\ pc \in Loading => /\ run.snapped => run.back = "reads"
                       /\ run.dates = mem.intent
  /\ pc = "close" => Unfinished(run.dates) # {}
  /\ pc = "status" => run.dates = mem.intent /\ mem.intent = disk.intent
  /\ pc \in {"idle", "reads", "close", "insert", "intend", "clean"} =>
       mem.intent = Nothing

\* A read that map leaves out was added in this run.
KnownBy(map) ==
  \A i \in Ids : map[i] = Absent /\ reads[i] # Absent => history[i] \in {Absent, Free}

\* The run knows the reads that it found.
Known ==
  /\ pc \in Deciding \/ (pc \in Loading /\ run.back = "clean") => KnownBy(run.dates)
  /\ run.snapped /\ pc \in Handling \cup Loading => KnownBy(run.snap)

\* The reads of the sync that exist came from one request, which was answered
\* for one of them, and the next one is only sent when there are none.
Single ==
  /\ \A i, j \in inserted \ resent : reads[i] # Absent /\ reads[j] # Absent => i = j
  /\ \E n \in 0..MaxReads : \A i \in inserted :
       reads[i] # Absent => i \in (n + 1)..(n + 1 + Retries)
  /\ pc = "insert" => \A i \in inserted : reads[i] = Absent
  /\ run.snapped /\ pc \in Handling \cup Loading =>
       \A i \in inserted : run.snap[i] = Absent => reads[i] = Absent

IInv == Types /\ New /\ Gone /\ Places /\ Known /\ Single

\* The dates of a map are those the reads may have.
RightfulIn(map) == \A i \in Ids : map[i] # Absent => Rightful(i, map[i])
CoveredBy(map)  == \A i \in Ids : DateKept(i) \/ (map[i] # Absent /\ Rightful(i, map[i]))

\* Where the run stands, the state file and the loaded state cover the dates
\* that are wrong.
Covered == DatesCovered /\ (pc # "idle" => CoveredBy(mem.intent))

\* What a repair would write is right.
Intents ==
  /\ RightfulIn(disk.intent) /\ RightfulIn(mem.intent)
  /\ pc \in Deciding => RightfulIn(run.dates)
  /\ run.snapped /\ \/ pc = "handle" /\ mem.intent = Nothing
                    \/ pc = "reads" /\ run.back # "reads"
       => RightfulIn(run.snap)

\* What a repair has still to do: what it leaves out is gone, and before its
\* first write it knows which dates are right.
Repairs ==
  /\ pc \in Loading \ {"load"} =>
       \A i \in Ids :
         /\ run.todo[i] \in {Absent, run.dates[i]}
         /\ run.todo[i] = Absent /\ run.dates[i] # Absent => reads[i] = Absent
  /\ pc = "write" /\ ~run.wrote =>
       \A i \in Ids : run.todo[i] # Absent /\ run.byID[i] = run.todo[i] => DateKept(i)

Safe == Covered /\ Intents /\ Repairs

---------------------------------------------------------------------------
(* Types                                                                   *)

PlaceNames == {"idle", "item", "recover", "guard", "find", "handle", "repair",
            "reads", "close", "insert", "intend", "status", "load", "confirm",
            "write", "verify", "clean", "checkpoint"}

\* The types of the variables, in groups that a step leaves alone together.
RemoteOK == /\ reads \in DateMap /\ blank \subseteq Ids /\ next \in 0..MaxReads
            /\ userBook \in {"reading", "finished", "dnf", "deleted"}
GhostOK  == /\ history \in [Ids -> Dates \cup {NoDate, Absent, Free}]
            /\ inserted \subseteq Ids /\ resent \subseteq Ids /\ stale \subseteq Ids
DiskOK   == disk \in [intent: DateMap, owner: Items \cup {NoItem}, done: SUBSET Items]
MemOK    == mem \in [intent: DateMap, owner: Items \cup {NoItem}, done: SUBSET Items,
                     dirty: BOOLEAN]
BudgetOK == budget \in [faults: 0..budget.setup.faults, stops: 0..MaxStops,
                        edits: 0..budget.setup.edits, setup: Setups]

\* The groups together are the types.
LEMMA TypesInGroups ==
  TypeOK <=> RemoteOK /\ GhostOK /\ DiskOK /\ MemOK /\ pc \in PlaceNames /\ run \in Runs
               /\ BudgetOK
BY DEF TypeOK, RemoteOK, GhostOK, DiskOK, MemOK, BudgetOK, PlaceNames

\* The same for the state after a step.
LEMMA TypesAfter ==
  ASSUME RemoteOK', GhostOK', DiskOK', MemOK', pc' \in PlaceNames, run' \in Runs, BudgetOK'
  PROVE  TypeOK'
BY DEF TypeOK, RemoteOK, GhostOK, DiskOK, MemOK, BudgetOK, PlaceNames

\* A map with one date changed is a map, and so is one without dates.
LEMMA MapTyped ==
  /\ Nothing \in DateMap
  /\ \A map \in DateMap, i \in Ids, date \in Dates \cup {NoDate, Absent} :
       [map EXCEPT ![i] = date] \in DateMap
  /\ Target \in Dates /\ Today \in Dates
BY DatesAssumption DEF Nothing, DateMap

\* What Hardcover answers is a map.
LEMMA AnswerTyped == RemoteOK => UserBookReads \in DateMap
BY DEF RemoteOK, UserBookReads, DateMap

\* The budget keeps its type and its setup.
LEMMA BudgetTyped ==
  ASSUME BudgetOK, Fault \/ NoFault
  PROVE  BudgetOK' /\ budget'.setup = budget.setup /\ budget'.edits = budget.edits
<1>1. budget.setup \in Setups /\ budget.setup.faults \in Nat /\ budget.setup.edits \in Nat
  BY LimitsAssumption DEF BudgetOK
<1>2. CASE Fault
  <2>1. budget' = [budget EXCEPT !.faults = @ + 1] /\ budget.faults < budget.setup.faults
    BY <1>2 DEF Fault
  <2> QED BY <1>1, <2>1 DEF BudgetOK
<1>3. CASE NoFault BY <1>3 DEF NoFault, BudgetOK
<1> QED BY <1>2, <1>3

\* Saving keeps the types of the file and of the loaded state.
LEMMA StoredTyped ==
  ASSUME DiskOK, NEW state \in [intent: DateMap, owner: Items \cup {NoItem},
                                done: SUBSET Items, dirty: BOOLEAN]
  PROVE  /\ Stored(state) \in [intent: DateMap, owner: Items \cup {NoItem}, done: SUBSET Items]
         /\ Cleared(state) \in [intent: DateMap, owner: Items \cup {NoItem},
                                done: SUBSET Items, dirty: BOOLEAN]
         /\ \A item \in Items :
              Checkpointed(state, item) \in [intent: DateMap, owner: Items \cup {NoItem},
                                             done: SUBSET Items, dirty: BOOLEAN]
<1>1. \A item \in Items : (state.dirty \/ item \notin state.done) \in BOOLEAN
  BY Zenon
<1> QED BY MapTyped, <1>1 DEF Stored, Cleared, Checkpointed

\* An empty run is one.
LEMMA NoRunTyped == NoRun \in Runs /\ \A left \in SUBSET Items : [NoRun EXCEPT !.left = left] \in Runs
BY MapTyped DEF NoRun, Runs

\* A run and a loaded state that end.
LEMMA EndTyped ==
  ASSUME EndRun
  PROVE  MemOK' /\ run' \in Runs /\ pc' \in PlaceNames
BY MapTyped, NoRunTyped DEF EndRun, MemOK, PlaceNames, Goto

\* The types hold at first.
LEMMA InitType == Init => TypeOK
<1> SUFFICES ASSUME Init PROVE TypeOK OBVIOUS
<1>1. PICK n \in 0..2, kept \in [1..2 -> Dates \cup {NoDate}] :
        /\ n <= MaxReads /\ next = n
        /\ reads = [i \in Ids |-> IF i <= n THEN kept[i] ELSE Absent]
  BY DEF Init
<1>2. reads \in DateMap
  <2>1. \A i \in Ids : i <= n => i \in 1..2 BY <1>1 DEF Ids
  <2> QED BY <1>1, <2>1 DEF DateMap
<1>3. RemoteOK BY <1>1, <1>2, LimitsAssumption DEF Init, RemoteOK, Unfinished
<1>4. GhostOK BY <1>2 DEF Init, GhostOK, DateMap
<1>5. DiskOK /\ MemOK BY MapTyped DEF Init, DiskOK, MemOK, EmptyState
<1>6. pc \in PlaceNames /\ run \in Runs BY NoRunTyped DEF Init, PlaceNames
<1>7. BudgetOK BY LimitsAssumption DEF Init, BudgetOK
<1> QED BY <1>3, <1>4, <1>5, <1>6, <1>7, TypesInGroups

\* Every step keeps the types.
LEMMA StepType ==
  ASSUME TypeOK, Busy, [Next]_vars
  PROVE  TypeOK'
<1> USE DEF remoteVars, ghostVars
<1>0. /\ RemoteOK /\ GhostOK /\ DiskOK /\ MemOK /\ pc \in PlaceNames /\ run \in Runs
      /\ BudgetOK
  BY TypesInGroups
<1>1. ASSUME UNCHANGED remoteVars PROVE RemoteOK' BY <1>0, <1>1 DEF RemoteOK
<1>2. ASSUME UNCHANGED ghostVars PROVE GhostOK' BY <1>0, <1>2 DEF GhostOK
<1>3. ASSUME UNCHANGED disk PROVE DiskOK' BY <1>0, <1>3 DEF DiskOK
<1>4. ASSUME UNCHANGED mem PROVE MemOK' BY <1>0, <1>4 DEF MemOK
<1>5. ASSUME UNCHANGED run PROVE run' \in Runs BY <1>0, <1>5
<1>6. ASSUME Fault \/ NoFault PROVE BudgetOK' BY <1>0, <1>6, BudgetTyped
<1>7. /\ mem \in [intent: DateMap, owner: Items \cup {NoItem}, done: SUBSET Items,
                  dirty: BOOLEAN]
      /\ Cleared(mem) \in [intent: DateMap, owner: Items \cup {NoItem}, done: SUBSET Items,
                           dirty: BOOLEAN]
      /\ Stored(mem) \in [intent: DateMap, owner: Items \cup {NoItem}, done: SUBSET Items]
  BY <1>0, StoredTyped DEF MemOK
<1>8. ASSUME disk' \in {disk, Stored(mem)} PROVE DiskOK'
  BY <1>0, <1>7, <1>8 DEF DiskOK
<1>9. ASSUME Leave PROVE pc' \in PlaceNames /\ run' \in Runs
  BY <1>0, <1>9 DEF Leave, Goto, PlaceNames
<1>10. UserBookReads \in DateMap BY <1>0, AnswerTyped
<1>11. run.item \in Items \cup {NoItem} BY <1>0 DEF Runs
<1>a. CASE BeginRun
  <2>1. MemOK' BY <1>0, <1>a DEF BeginRun, DiskOK, MemOK
  <2>2. run' \in Runs
    <3>1. budget.setup.items \subseteq Items BY <1>0, LimitsAssumption DEF BudgetOK
    <3> QED BY <1>a, <3>1, NoRunTyped DEF BeginRun
  <2> QED BY <1>a, <1>1, <1>2, <1>3, <1>6, <2>1, <2>2, TypesAfter DEF BeginRun, Goto, PlaceNames
<1>b. ASSUME NEW item \in Items, NextItem(item) PROVE TypeOK'
  <2>1. run' \in Runs
    <3>1. run.left \ {item} \in SUBSET Items BY <1>0 DEF Runs
    <3>2. (mem.intent # Nothing /\ mem.owner = item) \in BOOLEAN OBVIOUS
    <3> QED BY <1>b, <3>1, <3>2, NoRunTyped DEF NextItem, Runs
  <2> QED BY <1>b, <1>1, <1>2, <1>3, <1>4, <1>6, <2>1, TypesAfter DEF NextItem, Goto, PlaceNames
<1>c. ASSUME NEW item \in Items, MissItem(item) PROVE TypeOK'
  <2>1. run' \in Runs BY <1>0, <1>c DEF MissItem, Runs
  <2> QED BY <1>0, <1>c, <1>1, <1>2, <1>3, <1>4, <1>6, <2>1, TypesAfter DEF MissItem
<1>d. CASE FinishRun
  BY <1>d, <1>1, <1>2, <1>6, <1>8, EndTyped, TypesAfter DEF FinishRun
<1>e. CASE Checkpoint
  <2>1. MemOK' BY <1>0, <1>7, <1>e DEF Checkpoint, SaveOK, MemOK
  <2>2. run' \in Runs
    <3>1. run.left \in SUBSET Items BY <1>0 DEF Runs
    <3> QED BY <1>e, <3>1, NoRunTyped DEF Checkpoint
  <2> QED BY <1>e, <1>1, <1>2, <1>6, <1>8, <2>1, <2>2, TypesAfter
          DEF Checkpoint, SaveOK, Goto, PlaceNames
<1>f. CASE CheckpointFails
  BY <1>f, <1>1, <1>2, <1>6, <1>8, EndTyped, TypesAfter DEF CheckpointFails
<1>g. CASE Stop
  <2>1. BudgetOK' BY <1>0, <1>g, LimitsAssumption DEF Stop, BudgetOK
  <2> QED BY <1>g, <1>1, <1>2, <1>3, <2>1, EndTyped, TypesAfter DEF Stop
<1>h. CASE RequestFails \/ MutationFails
  BY <1>h, <1>1, <1>2, <1>3, <1>4, <1>6, <1>9, TypesAfter DEF RequestFails, MutationFails
<1>i. CASE RecoverDeferred \/ SkipCurrent \/ FindAnother \/ HandleDNF
  BY <1>i, <1>1, <1>2, <1>3, <1>4, <1>6, <1>9, TypesAfter
     DEF RecoverDeferred, SkipCurrent, FindAnother, HandleDNF
<1>j. CASE RecoverGone
  <2>1. MemOK' BY <1>7, <1>j DEF RecoverGone, MemOK
  <2> QED BY <1>j, <1>1, <1>2, <1>3, <1>5, <1>6, <2>1, TypesAfter
          DEF RecoverGone, Goto, AfterRecovery, PlaceNames
<1>k. CASE RecoverStarts
  <2>1. run' \in Runs BY <1>0, <1>7, <1>k DEF RecoverStarts, AfterRecovery, Runs
  <2> QED BY <1>k, <1>1, <1>2, <1>3, <1>4, <1>6, <2>1, TypesAfter
          DEF RecoverStarts, Goto, PlaceNames
<1>l. CASE PassGuard
  BY <1>l, <1>1, <1>2, <1>3, <1>4, <1>5, <1>6, TypesAfter DEF PassGuard, Goto, PlaceNames
<1>m. CASE FindUserBook
  <2>1. PICK snapped \in {FALSE, budget.setup.combined} :
          run' = [run EXCEPT !.seen = userBook, !.snapped = snapped,
                             !.snap = IF snapped THEN reads ELSE Nothing]
    BY <1>m DEF FindUserBook
  <2>2. snapped \in BOOLEAN BY <1>0, LimitsAssumption DEF BudgetOK
  <2>3. (IF snapped THEN reads ELSE Nothing) \in DateMap BY <1>0, MapTyped DEF RemoteOK
  <2>4. run' \in Runs BY <1>0, <2>1, <2>2, <2>3 DEF RemoteOK, Runs
  <2> QED BY <1>m, <1>1, <1>2, <1>3, <1>4, <1>6, <2>4, TypesAfter DEF FindUserBook, Goto, PlaceNames
<1>n. CASE HandleGone
  <2>1. MemOK' BY <1>7, <1>n DEF HandleGone, MemOK
  <2> QED BY <1>n, <1>1, <1>2, <1>3, <1>6, <1>9, <2>1, TypesAfter DEF HandleGone
<1>o. CASE HandleStarts
  <2>1. StatusNow \in {"reading", "finished", "dnf", "deleted"}
    BY <1>0 DEF StatusNow, RemoteOK, Runs
  <2>2. run' \in Runs BY <1>0, <1>o, <2>1 DEF HandleStarts, Runs
  <2> QED BY <1>o, <1>1, <1>2, <1>3, <1>4, <1>6, <2>2, TypesAfter DEF HandleStarts, Goto, PlaceNames
<1>p. CASE ReadsLoaded
  <2>0. PICK seen : seen = IF run.snapped THEN run.snap ELSE UserBookReads OBVIOUS
  <2>1. seen \in DateMap BY <1>0, <1>10, <2>0 DEF Runs
  <2>2. run' = [run EXCEPT !.dates = seen, !.snapped = FALSE, !.snap = Nothing]
    BY <1>p, <2>0 DEF ReadsLoaded
  <2>3. run' \in Runs BY <1>0, <2>1, <2>2, MapTyped DEF Runs
  <2>4. mem' = mem \/ mem' = Checkpointed(mem, run.item)
    BY <1>p DEF ReadsLoaded, Succeed
  <2>5. pc' \in PlaceNames BY <1>p DEF ReadsLoaded, Succeed, Goto, PlaceNames
  <2>6. mem' = mem \/ run.item \in Items BY <1>p DEF ReadsLoaded, Busy
  <2>7. MemOK' BY <1>0, <1>7, <2>4, <2>6, StoredTyped DEF MemOK
  <2>8. GhostOK' BY <1>0, <1>p DEF ReadsLoaded, GhostOK, Undone, Present
  <2> QED BY <1>p, <1>1, <1>3, <1>6, <2>3, <2>5, <2>7, <2>8, TypesAfter DEF ReadsLoaded
<1>q. CASE CloseRead
  <2>0. PICK i : i = Max(Unfinished(run.dates)) OBVIOUS
  <2>1. CASE Leave /\ NoFault /\ UNCHANGED <<remoteVars, ghostVars>>
    BY <1>q, <2>1, <1>1, <1>2, <1>3, <1>4, <1>6, <1>9, TypesAfter DEF CloseRead
  <2>2. CASE /\ UpdateUserBookRead(i, Target)
             /\ blank' = blank \ {i}
             /\ UNCHANGED <<next, userBook, ghostVars>>
             /\ \/ /\ run' = [run EXCEPT !.dates[i] = Target]
                   /\ Goto("intend") /\ NoFault
                \/ Leave /\ Fault
    <3>1. RemoteOK' BY <1>0, <2>2, MapTyped
                    DEF RemoteOK, UpdateUserBookRead, SetDate, DateMap
    <3>2. run' \in Runs
      <4>1. [run.dates EXCEPT ![i] = Target] \in DateMap
        BY <1>0, MapTyped DEF Runs, DateMap
      <4>2. [run EXCEPT !.dates[i] = Target] \in Runs
        BY <1>0, <4>1 DEF Runs
      <4> QED BY <2>2, <4>2, <1>9
    <3>3. pc' \in PlaceNames BY <2>2, <1>9 DEF Goto, PlaceNames
    <3> QED BY <1>q, <2>2, <3>1, <3>2, <3>3, <1>2, <1>3, <1>4, <1>6, TypesAfter DEF CloseRead
  <2> QED BY <1>q, <2>0, <2>1, <2>2 DEF CloseRead
<1>r. CASE InsertRead
  <2>1. CASE Leave /\ NoFault /\ UNCHANGED <<remoteVars, ghostVars>>
    BY <1>r, <2>1, <1>1, <1>2, <1>3, <1>4, <1>6, <1>9, TypesAfter DEF InsertRead
  <2>2. ASSUME NEW copies \in 1..(1 + Retries), NEW known \in BOOLEAN, Insert(copies, known),
               \/ /\ known /\ run' = [run EXCEPT !.dates[next + copies] = Target]
                  /\ Goto("intend")
                  /\ IF copies > 1 THEN Fault ELSE NoFault
               \/ Leave /\ Fault
        PROVE  TypeOK'
    <3>0. next \in Nat /\ copies \in Nat /\ next + copies \in Ids
      BY <1>0, <2>2, LimitsAssumption DEF RemoteOK, Insert, Ids
    <3>1. RemoteOK' /\ GhostOK'
      <4>1. (next + 1)..(next + copies) \subseteq Ids BY <3>0, LimitsAssumption DEF Ids
      <4> QED BY <1>0, <3>0, <4>1, <2>2, MapTyped, LimitsAssumption DEF RemoteOK, GhostOK, Insert, DateMap, Ids
    <3>2. run' \in Runs
      <4>1. [run.dates EXCEPT ![next + copies] = Target] \in DateMap
        BY <1>0, <3>0, MapTyped DEF Runs
      <4>2. [run EXCEPT !.dates[next + copies] = Target] \in Runs
        BY <1>0, <4>1 DEF Runs
      <4> QED BY <2>2, <4>2, <1>9
    <3>3. pc' \in PlaceNames BY <2>2, <1>9 DEF Goto, PlaceNames
    <3> QED BY <1>r, <2>2, <3>1, <3>2, <3>3, <1>3, <1>4, <1>6, TypesAfter DEF InsertRead
  <2> QED BY <1>r, <2>1, <2>2 DEF InsertRead
<1>s. CASE Intend \/ IntendFails
  <2>1. Intended \in [intent: DateMap, owner: Items \cup {NoItem}, done: SUBSET Items,
                      dirty: BOOLEAN]
    BY <1>0, <1>7, <1>11 DEF Intended, Runs
  <2>2. Stored(Intended) \in [intent: DateMap, owner: Items \cup {NoItem}, done: SUBSET Items]
    BY <1>0, <2>1, StoredTyped
  <2>3. DiskOK' /\ BudgetOK'
    BY <1>0, <1>6, <1>s, <2>2 DEF Intend, IntendFails, SaveOK, SaveFails, DiskOK
  <2>4. MemOK' BY <1>s, <2>1 DEF Intend, IntendFails, SaveOK, SaveFails, MemOK
  <2>5. pc' \in PlaceNames /\ run' \in Runs
    BY <1>s, <1>5, <1>9 DEF Intend, IntendFails, Goto, PlaceNames
  <2> QED BY <1>s, <1>1, <1>2, <2>3, <2>4, <2>5, TypesAfter DEF Intend, IntendFails
<1>t. CASE SetFinished
  <2>1. CASE Leave /\ NoFault /\ UNCHANGED remoteVars
    BY <1>t, <2>1, <1>1, <1>2, <1>3, <1>4, <1>6, <1>9, TypesAfter DEF SetFinished
  <2>2. CASE /\ UpdateUserBookStatus
             /\ \/ /\ run' = [run EXCEPT !.back = "clean"]
                   /\ Goto("load") /\ NoFault
                \/ Leave /\ Fault
    <3>1. RemoteOK'
      BY <1>0, <2>2, MapTyped, LimitsAssumption
         DEF UpdateUserBookStatus, Transition, RemoteOK, DateMap, Ids
    <3>2. run' \in Runs BY <1>0, <1>9, <2>2 DEF Runs
    <3>3. pc' \in PlaceNames BY <2>2, <1>9 DEF Goto, PlaceNames
    <3> QED BY <1>t, <2>2, <3>1, <3>2, <3>3, <1>2, <1>3, <1>4, <1>6, TypesAfter DEF SetFinished
  <2> QED BY <1>t, <2>1, <2>2 DEF SetFinished
<1>u. CASE CleanReads
  <2>1. run.item \in Items BY <1>u DEF CleanReads, Busy
  <2>2. MemOK' /\ pc' \in PlaceNames
    BY <1>0, <1>u, <2>1, StoredTyped DEF CleanReads, Succeed, MemOK, Goto, PlaceNames
  <2>3. RemoteOK' BY <1>0, <1>u DEF CleanReads, DeleteReads, RemoteOK, DateMap
  <2>4. GhostOK' BY <1>0, <1>u DEF CleanReads, GhostOK
  <2> QED BY <1>u, <1>3, <1>5, <1>6, <2>2, <2>3, <2>4, TypesAfter DEF CleanReads
<1>v. CASE LoadReads
  <2>1. run' \in Runs BY <1>0, <1>10, <1>v DEF LoadReads, Runs
  <2> QED BY <1>v, <1>1, <1>2, <1>3, <1>4, <1>6, <2>1, TypesAfter DEF LoadReads, Goto, PlaceNames
<1>w. CASE ConfirmMissing
  <2>1. CASE Leave BY <1>w, <2>1, <1>1, <1>2, <1>3, <1>4, <1>6, <1>9, TypesAfter DEF ConfirmMissing
  <2>2. CASE /\ run' = [run EXCEPT !.byID = UserBookReads,
                           !.todo = [i \in Ids |-> IF i \in Missing THEN Absent ELSE @[i]]]
             /\ Goto("write")
    <3>1. PICK rest : rest = [i \in Ids |-> IF i \in Missing THEN Absent ELSE run.todo[i]]
      OBVIOUS
    <3>2. rest \in DateMap BY <1>0, <3>1 DEF DateMap, Runs
    <3>3. run' = [run EXCEPT !.byID = UserBookReads, !.todo = rest] BY <2>2, <3>1
    <3>4. run' \in Runs BY <1>0, <1>10, <3>2, <3>3 DEF Runs
    <3> QED BY <1>w, <2>2, <1>1, <1>2, <1>3, <1>4, <1>6, <3>4, TypesAfter
            DEF ConfirmMissing, Goto, PlaceNames
  <2> QED BY <1>w, <2>1, <2>2 DEF ConfirmMissing
<1>x. ASSUME NEW i \in Ids, WriteDate(i) PROVE TypeOK'
  <2>1. RemoteOK'
    <3>1. run.todo[i] \in Dates \cup {NoDate, Absent} BY <1>0 DEF Runs, DateMap
    <3> QED BY <1>0, <1>x, <3>1, MapTyped
            DEF WriteDate, UpdateUserBookRead, SetDate, RemoteOK
  <2>2. [run EXCEPT !.byID[i] = run.todo[i], !.wrote = TRUE] \in Runs
    <3>1. [run.byID EXCEPT ![i] = run.todo[i]] \in DateMap
      BY <1>0, MapTyped DEF Runs, DateMap
    <3> QED BY <1>0, <3>1 DEF Runs
  <2>3. run' \in Runs BY <1>x, <1>9, <2>2 DEF WriteDate
  <2>4. pc' \in PlaceNames BY <1>0, <1>9, <1>x DEF WriteDate
  <2>5. BudgetOK' BY <1>6, <1>x DEF WriteDate
  <2> QED BY <1>x, <1>2, <1>3, <1>4, <2>1, <2>3, <2>4, <2>5, TypesAfter DEF WriteDate
<1>y. ASSUME pc \in Loading, Restored PROVE MemOK' /\ run' \in Runs /\ pc' \in PlaceNames
  <2>1. MemOK' BY <1>7, <1>y DEF Restored, MemOK
  <2>2. run' \in Runs BY <1>0, <1>y, MapTyped DEF Restored, Runs
  <2>3. pc' \in PlaceNames BY <1>y DEF Restored, Goto, Busy, PlaceNames
  <2> QED BY <2>1, <2>2, <2>3
<1>z. CASE NothingToWrite \/ WritesDone \/ Verify
  <2>1. CASE Restored /\ pc \in Loading
    BY <1>z, <2>1, <1>y, <1>1, <1>2, <1>3, <1>6, TypesAfter
       DEF NothingToWrite, WritesDone, Verify
  <2>2. CASE UNCHANGED mem /\ (Leave \/ (Goto("verify") /\ UNCHANGED run))
    <3>1. pc' \in PlaceNames /\ run' \in Runs BY <1>5, <1>9, <2>2 DEF Goto, PlaceNames
    <3> QED BY <1>z, <2>2, <3>1, <1>1, <1>2, <1>3, <1>4, <1>6, TypesAfter
            DEF NothingToWrite, WritesDone, Verify
  <2> QED BY <1>z, <2>1, <2>2 DEF NothingToWrite, WritesDone, Verify, Loading
<1>A. ASSUME UserActs PROVE DiskOK' /\ MemOK' /\ BudgetOK' /\ pc' \in PlaceNames /\ run' \in Runs
                             /\ UNCHANGED <<inserted, resent, stale>>
  <2>1. BudgetOK' BY <1>0, <1>A, LimitsAssumption DEF UserActs, BudgetOK
  <2> QED BY <1>0, <1>3, <1>4, <1>5, <1>A, <2>1 DEF UserActs
<1>B. CASE User
  <2>1. UserActs
    BY <1>B DEF User, UserEditsDate, UserDeletesRead, UserStartsRead, UserSetsStatus,
                UserDeletesBook
  <2>2. RemoteOK' /\ GhostOK'
    <3>1. ASSUME NEW i \in Ids, NEW date \in Dates \cup {NoDate}, UserEditsDate(i, date)
          PROVE  RemoteOK' /\ GhostOK'
      BY <1>0, <1>A, <2>1, <3>1, MapTyped DEF UserEditsDate, SetDate, RemoteOK, GhostOK, DateMap
    <3>2. ASSUME NEW i \in Ids, UserDeletesRead(i)
          PROVE  RemoteOK' /\ GhostOK'
      BY <1>0, <1>A, <2>1, <3>2, MapTyped DEF UserDeletesRead, SetDate, RemoteOK, GhostOK, DateMap
    <3>3. ASSUME NEW isBlank \in BOOLEAN, UserStartsRead(isBlank)
          PROVE  RemoteOK' /\ GhostOK'
      <4>1. next + 1 \in Ids BY <1>0, <3>3, LimitsAssumption DEF UserStartsRead, RemoteOK, Ids
      <4>2. reads' \in DateMap BY <1>0, <3>3, <4>1, MapTyped DEF UserStartsRead, SetDate, RemoteOK
      <4>3. blank' \subseteq Ids /\ userBook' = userBook /\ next' \in 0..MaxReads
        BY <1>0, <3>3, <4>1, LimitsAssumption DEF UserStartsRead, RemoteOK, Ids
      <4>4. GhostOK' BY <1>0, <1>A, <2>1, <3>3, <4>1 DEF UserStartsRead, GhostOK
      <4> QED BY <1>0, <4>2, <4>3, <4>4 DEF RemoteOK
    <3>4. ASSUME NEW status \in {"reading", "finished", "dnf"}, UserSetsStatus(status)
          PROVE  RemoteOK' /\ GhostOK'
      BY <1>0, <1>A, <2>1, <3>4 DEF UserSetsStatus, RemoteOK, GhostOK
    <3>5. CASE UserDeletesBook
      BY <1>0, <1>A, <2>1, <3>5, MapTyped DEF UserDeletesBook, RemoteOK, GhostOK, Nothing
    <3> QED BY <1>B, <3>1, <3>2, <3>3, <3>4, <3>5 DEF User
  <2> QED BY <1>A, <2>1, <2>2, TypesAfter
<1>C. CASE UNCHANGED vars
  BY <1>C, <1>0, <1>1, <1>2, <1>3, <1>4, <1>5, TypesAfter DEF vars, BudgetOK
<1> QED
  BY <1>a, <1>b, <1>c, <1>d, <1>e, <1>f, <1>g, <1>h, <1>i, <1>j, <1>k, <1>l, <1>m, <1>n,
     <1>o, <1>p, <1>q, <1>r, <1>s, <1>t, <1>u, <1>v, <1>w, <1>x, <1>z, <1>B, <1>C
     DEF Next, Sync, Recover, Restore, HandleFinishedBook

\* The Max of FiniteSetsExt is a maximum on every nonempty set of read numbers.
LEMMA MaxOfNumbers ==
  ASSUME NEW n \in Nat, NEW S \in SUBSET (0..n), S # {}
  PROVE  Max(S) \in S /\ \A x \in S : x <= Max(S)
<1> DEFINE Above(x) == {y \in S : y > x}
           Family == {Above(x) : x \in S}
<1>1. IsFiniteSet(0..n)
  BY FS_Interval
<1>2. Family \subseteq FiniteSubsetsOf(0..n)
  BY <1>1, FS_FiniteSubsetsOfFinite
<1>3. PICK A \in Family :
        \A B \in Family : <<B, A>> \notin StrictSubsetOrdering(0..n)
  <2>1. Family # {} OBVIOUS
  <2> HIDE DEF Family
  <2> QED BY <1>2, <2>1, FS_StrictSubsetOrderingWellFounded, WFMin
<1>4. PICK m \in S : A = Above(m) OBVIOUS
<1>5. \A y \in S : m >= y
  <2> SUFFICES ASSUME NEW y \in S, ~(m >= y) PROVE FALSE OBVIOUS
  <2>1. y > m /\ m \in Int /\ y \in Int OBVIOUS
  <2>2. y \in Above(m) /\ y \notin Above(y) BY <2>1
  <2>3. Above(y) \subseteq Above(m)
    <3> SUFFICES ASSUME NEW z \in S, z > y PROVE z > m OBVIOUS
    <3>1. z \in Int OBVIOUS
    <3> QED BY <2>1, <3>1
  <2>4. <<Above(y), Above(m)>> \in StrictSubsetOrdering(0..n)
    BY <2>2, <2>3 DEF StrictSubsetOrdering
  <2> QED BY <1>3, <1>4, <2>4
<1>6. Max(S) \in S /\ \A x \in S : Max(S) >= x
  BY <1>5 DEF Max
<1> QED BY <1>6

---------------------------------------------------------------------------
(* What the steps do, field by field                                       *)

\* The run after a step, as far as the invariant speaks of it.
Becomes(item, left, snapped, snap, dates, back, todo, byID, wrote) ==
  /\ run'.item = item /\ run'.left = left /\ run'.snapped = snapped
  /\ run'.snap = snap /\ run'.dates = dates /\ run'.back = back
  /\ run'.todo = todo /\ run'.byID = byID /\ run'.wrote = wrote
Same == Becomes(run.item, run.left, run.snapped, run.snap, run.dates, run.back,
                run.todo, run.byID, run.wrote)
Emptied(item, left) ==
  Becomes(item, left, FALSE, Nothing, Nothing, "none", Nothing, Nothing, FALSE)

\* The state file may now hold this intent.
Files(intent, owner) == \/ disk'.intent = disk.intent /\ disk'.owner = disk.owner
                        \/ disk'.intent = intent /\ disk'.owner = owner
Recalls(intent, owner) == mem'.intent = intent /\ mem'.owner = owner
MemSame  == Recalls(mem.intent, mem.owner)
FileSame == disk'.intent = disk.intent /\ disk'.owner = disk.owner
ReadsSame == UNCHANGED <<reads, blank, next, userBook, history, inserted, resent>>
WorldSame == UNCHANGED <<reads, blank, next, userBook, history, inserted, resent, stale>>
Forgets == mem'.intent = Nothing /\ (mem'.owner = mem.owner \/ mem'.owner = NoItem)

\* A run begins, ends, or goes to another item.
Turns ==
  /\ WorldSame
  /\ \/ /\ pc = "idle" /\ pc' = "item" /\ Emptied(NoItem, budget.setup.items)
        /\ Recalls(disk.intent, disk.owner) /\ FileSame
     \/ \E item \in run.left :
          /\ pc = "item" /\ Emptied(item, run.left \ {item}) /\ MemSame /\ FileSame
          /\ pc' = IF mem.intent # Nothing /\ mem.owner = item THEN "recover" ELSE "guard"
     \/ /\ pc # "idle" /\ pc' = "idle" /\ Emptied(NoItem, {})
        /\ Recalls(Nothing, NoItem) /\ Files(mem.intent, mem.owner)
     \/ /\ pc = "checkpoint" /\ pc' = "item" /\ Emptied(NoItem, run.left)
        /\ MemSame /\ Files(mem.intent, mem.owner)

\* The run stays where it is, or leaves the item, or goes to the next place;
\* the intent is kept.
Moves ==
  /\ WorldSame /\ MemSame /\ FileSame
  /\ \/ /\ pc = "item" /\ pc' = "item"
        /\ \E left \in SUBSET run.left :
             Becomes(run.item, left, run.snapped, run.snap, run.dates, run.back,
                     run.todo, run.byID, run.wrote)
     \/ pc \notin {"idle", "item"} /\ pc' = "checkpoint" /\ Same
     \/ pc = "guard" /\ pc' = "find" /\ Same
     \/ pc = "write" /\ pc' = "verify" /\ ToWrite = {} /\ run.wrote /\ Same
     \/ pc = "handle" /\ Same /\ pc' = IF mem.intent # Nothing THEN "repair" ELSE "reads"

\* The intent of a user book that is gone is given up.
GivesUp ==
  /\ WorldSame /\ FileSame /\ userBook = "deleted" /\ Forgets /\ Same
  /\ \/ pc \in {"handle"} /\ pc' = "checkpoint"
     \/ pc \in {"recover", "repair"} /\ pc' = AfterRecovery

BeginsRepair ==
  /\ WorldSame /\ MemSame /\ FileSame
  /\ pc \in {"recover", "repair"} /\ pc' = "load"
  /\ Becomes(run.item, run.left, run.snapped, run.snap, mem.intent, AfterRecovery,
             run.todo, run.byID, run.wrote)

Finds ==
  /\ WorldSame /\ MemSame /\ FileSame /\ pc = "find" /\ pc' = "handle"
  /\ \E snapped \in {FALSE, budget.setup.combined} :
       Becomes(run.item, run.left, snapped, IF snapped THEN reads ELSE Nothing,
               run.dates, run.back, run.todo, run.byID, run.wrote)

Seen == IF run.snapped THEN run.snap ELSE UserBookReads
Decides ==
  /\ ReadsSame /\ stale' = stale \cup Undone /\ MemSame /\ FileSame /\ pc = "reads"
  /\ Becomes(run.item, run.left, FALSE, Nothing, Seen, run.back, run.todo, run.byID,
             run.wrote)
  /\ \/ pc' = "close" /\ Unfinished(Seen) # {}
     \/ pc' = "insert" /\ \A i \in Ids : Seen[i] = Absent
     \/ pc' \in {"intend", "checkpoint"}

Closes ==
  /\ pc = "close" /\ MemSame /\ FileSame
  /\ UNCHANGED <<next, userBook, history, inserted, resent, stale>>
  /\ \E i \in Ids :
       /\ run.dates[i] = NoDate /\ reads[i] # Absent
       /\ reads' = [reads EXCEPT ![i] = Target] /\ blank' = blank \ {i}
       /\ \/ pc' = "checkpoint" /\ Same
          \/ /\ pc' = "intend"
             /\ Becomes(run.item, run.left, run.snapped, run.snap,
                        [run.dates EXCEPT ![i] = Target], run.back, run.todo,
                        run.byID, run.wrote)

Inserts ==
  /\ pc = "insert" /\ MemSame /\ FileSame /\ userBook # "deleted"
  /\ \E copies \in 1..(1 + Retries), known \in BOOLEAN :
       /\ Insert(copies, known) /\ next + copies \in Ids /\ next' = next + copies
       /\ \/ pc' = "checkpoint" /\ Same
          \/ /\ pc' = "intend" /\ known
             /\ Becomes(run.item, run.left, run.snapped, run.snap,
                        [run.dates EXCEPT ![next + copies] = Target], run.back,
                        run.todo, run.byID, run.wrote)

Intends ==
  /\ WorldSame /\ Same /\ pc = "intend" /\ Recalls(run.dates, run.item)
  /\ \/ pc' = "status" /\ disk'.intent = run.dates /\ disk'.owner = run.item
     \/ pc' = "checkpoint" /\ Files(run.dates, run.item)

Finishes ==
  /\ pc = "status" /\ MemSame /\ FileSame /\ Transition /\ userBook # "deleted"
  /\ UNCHANGED <<history, inserted, resent, stale>>
  /\ \/ pc' = "checkpoint" /\ Same
     \/ /\ pc' = "load"
        /\ Becomes(run.item, run.left, run.snapped, run.snap, run.dates, "clean",
                   run.todo, run.byID, run.wrote)

Cleans ==
  /\ pc = "clean" /\ pc' = "checkpoint" /\ MemSame /\ FileSame /\ Same
  /\ UNCHANGED <<next, userBook, history, inserted, resent, stale>>
  /\ \E gone \in SUBSET AutoCreated : DeleteReads(gone)

Loads ==
  /\ WorldSame /\ MemSame /\ FileSame /\ pc = "load" /\ pc' \in {"confirm", "write"}
  /\ Becomes(run.item, run.left, run.snapped, run.snap, run.dates, run.back,
             run.dates, UserBookReads, FALSE)

Confirms ==
  /\ WorldSame /\ MemSame /\ FileSame /\ pc = "confirm" /\ pc' = "write"
  /\ Becomes(run.item, run.left, run.snapped, run.snap, run.dates, run.back,
             [i \in Ids |-> IF i \in Missing THEN Absent ELSE run.todo[i]],
             UserBookReads, run.wrote)

Writes ==
  /\ MemSame /\ FileSame /\ pc = "write"
  /\ UNCHANGED <<blank, next, userBook, history, inserted, resent, stale>>
  /\ \E i \in Ids :
       /\ run.todo[i] # Absent /\ reads[i] # Absent
       /\ reads' \in {reads, [reads EXCEPT ![i] = run.todo[i]]}
       /\ \/ pc' = "checkpoint" /\ Same
          \/ /\ pc' = "write"
             /\ Becomes(run.item, run.left, run.snapped, run.snap, run.dates, run.back,
                        run.todo, [run.byID EXCEPT ![i] = run.todo[i]], TRUE)

\* The repair is over, having written nothing or seen that all was written.
EndsRepair ==
  /\ WorldSame /\ FileSame /\ Forgets /\ pc' = run.back
  /\ \/ pc = "write" /\ ToWrite = {} /\ ~run.wrote
     \/ pc = "verify" /\ \A i \in Present(run.todo) : UserBookReads[i] = run.todo[i]
  /\ Becomes(run.item, run.left, run.snapped, run.snap,
             IF run.back = "clean" THEN run.dates ELSE Nothing, run.back,
             Nothing, Nothing, FALSE)

Stays == WorldSame /\ MemSame /\ FileSame /\ Same /\ UNCHANGED pc

Step ==
  /\ budget'.setup = budget.setup
  /\ \/ Turns \/ Moves \/ GivesUp \/ BeginsRepair \/ Finds \/ Decides \/ Closes
     \/ Inserts \/ Intends \/ Finishes \/ Cleans \/ Loads \/ Confirms \/ Writes
     \/ EndsRepair \/ Stays \/ User

\* The fields of a run, and what an empty one holds.
LEMMA RunFields ==
  ASSUME run \in Runs
  PROVE  /\ \A i \in Items, left \in SUBSET Items, repaired \in BOOLEAN :
              run' = [NoRun EXCEPT !.item = i, !.left = left, !.repaired = repaired]
                => Emptied(i, left)
         /\ \A left \in SUBSET Items : run' = [NoRun EXCEPT !.left = left] => Emptied(NoItem, left)
         /\ run' = NoRun => Emptied(NoItem, {})
         /\ run' = run => Same
<1>1. ASSUME NEW i \in Items, NEW left \in SUBSET Items, NEW repaired \in BOOLEAN,
             run' = [NoRun EXCEPT !.item = i, !.left = left, !.repaired = repaired]
      PROVE  Emptied(i, left)
  BY <1>1 DEF NoRun, Emptied, Becomes
<1>2. ASSUME NEW left \in SUBSET Items, run' = [NoRun EXCEPT !.left = left]
      PROVE  Emptied(NoItem, left)
  BY <1>2 DEF NoRun, Emptied, Becomes
<1>3. ASSUME run' = NoRun PROVE Emptied(NoItem, {})
  BY <1>3 DEF NoRun, Emptied, Becomes
<1>4. ASSUME run' = run PROVE Same
  BY <1>4 DEF Same, Becomes
<1> QED BY <1>1, <1>2, <1>3, <1>4

\* The intent and its owner after a step.
LEMMA MemFields ==
  ASSUME MemOK, DiskOK
  PROVE  /\ mem' = mem => MemSame
         /\ disk' = disk => FileSame
         /\ mem' = Cleared(mem) => Forgets
         /\ \A item \in Items : mem' = Checkpointed(mem, item) => MemSame
         /\ disk' \in {disk, Stored(mem)} => Files(mem.intent, mem.owner)
         /\ SaveOK(mem) => MemSame
<1>1. mem' = mem => MemSame BY DEF MemSame, Recalls
<1>2. disk' = disk => FileSame BY DEF FileSame
<1>3. ASSUME mem' = Cleared(mem) PROVE Forgets
  <2>1. CASE mem.intent = Nothing BY <1>3, <2>1 DEF Cleared, Forgets
  <2>2. CASE mem.intent # Nothing BY <1>3, <2>2 DEF Cleared, Forgets, MemOK
  <2> QED BY <2>1, <2>2
<1>4. ASSUME NEW item \in Items, mem' = Checkpointed(mem, item) PROVE MemSame
  BY <1>4 DEF MemOK, Checkpointed, MemSame, Recalls
<1>5. Stored(mem).intent = mem.intent /\ Stored(mem).owner = mem.owner BY DEF Stored
<1>6. SaveOK(mem) => MemSame BY DEF SaveOK, MemOK, MemSame, Recalls
<1> QED BY <1>1, <1>2, <1>3, <1>4, <1>5, <1>6 DEF Files

\* Every step is one of those above.
LEMMA Effects ==
  ASSUME Types, Places, [Next]_vars
  PROVE  Step
<1> USE DEF remoteVars, ghostVars
<1>0. /\ RemoteOK /\ GhostOK /\ DiskOK /\ MemOK /\ pc \in PlaceNames /\ run \in Runs
      /\ BudgetOK /\ Busy
  BY TypesInGroups DEF Types
<1>1. ASSUME Fault \/ NoFault PROVE budget'.setup = budget.setup
  BY <1>0, <1>1, BudgetTyped
<1>2. UNCHANGED run => Same BY <1>0, RunFields
<1>3. UNCHANGED mem => MemSame BY <1>0, MemFields
<1>4. UNCHANGED disk => FileSame BY <1>0, MemFields
<1>5. UNCHANGED <<remoteVars, ghostVars>> => WorldSame BY DEF WorldSame
<1>6. run.left \in SUBSET Items /\ budget.setup.items \in SUBSET Items
  BY <1>0, LimitsAssumption DEF Runs, BudgetOK
<1>7. ASSUME EndRun, disk' \in {disk, Stored(mem)}
      PROVE  /\ pc' = "idle" /\ Emptied(NoItem, {}) /\ Recalls(Nothing, NoItem)
             /\ Files(mem.intent, mem.owner)
  BY <1>0, <1>7, RunFields, MemFields DEF EndRun, Goto, Recalls
<1>8. Leave => Same /\ pc' = "checkpoint" BY <1>2 DEF Leave, Goto
<1>a. CASE BeginRun
  <2>1. Emptied(NoItem, budget.setup.items) BY <1>0, <1>6, <1>a, RunFields DEF BeginRun
  <2>2. Recalls(disk.intent, disk.owner) BY <1>a DEF BeginRun, Recalls
  <2> QED BY <1>a, <1>1, <1>4, <1>5, <2>1, <2>2 DEF BeginRun, Step, Turns, Goto
<1>b. ASSUME NEW item \in Items, NextItem(item) PROVE Step
  <2>1. Emptied(item, run.left \ {item})
    <3>1. (mem.intent # Nothing /\ mem.owner = item) \in BOOLEAN OBVIOUS
    <3>2. run.left \ {item} \in SUBSET Items BY <1>6
    <3> QED BY <1>0, <1>b, <3>1, <3>2, RunFields DEF NextItem
  <2> QED BY <1>b, <1>1, <1>3, <1>4, <1>5, <2>1 DEF NextItem, Step, Turns, Goto
<1>c. ASSUME NEW item \in Items, MissItem(item) PROVE Step
  <2>1. Becomes(run.item, run.left \ {item}, run.snapped, run.snap, run.dates, run.back,
                run.todo, run.byID, run.wrote)
    BY <1>0, <1>c DEF MissItem, Becomes, Runs
  <2> QED BY <1>c, <1>1, <1>3, <1>4, <1>5, <2>1 DEF MissItem, Step, Moves
<1>d. CASE FinishRun
  <2>1. disk' \in {disk, Stored(mem)} /\ (Fault \/ NoFault) /\ EndRun /\ pc # "idle"
    BY <1>d DEF FinishRun
  <2> QED BY <1>d, <1>1, <1>5, <1>7, <2>1 DEF FinishRun, Step, Turns
<1>e. CASE Checkpoint
  <2>1. Emptied(NoItem, run.left) BY <1>0, <1>6, <1>e, RunFields DEF Checkpoint
  <2>2. MemSame /\ Files(mem.intent, mem.owner)
    <3>1. CASE SaveOK(mem) BY <1>0, <3>1, MemFields DEF SaveOK
    <3>2. CASE UNCHANGED <<disk, mem>> BY <1>0, <3>2, MemFields
    <3> QED BY <1>e, <3>1, <3>2 DEF Checkpoint
  <2>3. Fault \/ NoFault BY <1>e DEF Checkpoint, SaveOK
  <2> QED BY <1>e, <1>1, <1>5, <2>1, <2>2, <2>3 DEF Checkpoint, Step, Turns, Goto
<1>f. CASE CheckpointFails
  BY <1>f, <1>1, <1>5, <1>7 DEF CheckpointFails, Step, Turns
<1>g. CASE Stop
  <2>1. budget'.setup = budget.setup BY <1>0, <1>g DEF Stop, BudgetOK
  <2> QED BY <1>g, <1>5, <1>7, <2>1 DEF Stop, Step, Turns
<1>h. CASE RequestFails \/ MutationFails \/ RecoverDeferred \/ SkipCurrent
            \/ FindAnother \/ HandleDNF
  <2>1. pc \notin {"idle", "item"} /\ Leave /\ (Fault \/ NoFault)
        /\ UNCHANGED <<remoteVars, disk, mem, ghostVars>>
    BY <1>h DEF RequestFails, MutationFails, RecoverDeferred, SkipCurrent, FindAnother,
                HandleDNF
  <2> QED BY <1>1, <1>3, <1>4, <1>5, <1>8, <2>1 DEF Step, Moves
<1>i. CASE HandleGone \/ RecoverGone
  <2>1. Forgets BY <1>0, <1>i, MemFields DEF HandleGone, RecoverGone
  <2> QED BY <1>i, <1>1, <1>2, <1>4, <1>5, <1>8, <2>1 DEF HandleGone, RecoverGone, Step, GivesUp, Goto
<1>k. CASE RecoverStarts
  <2>1. Becomes(run.item, run.left, run.snapped, run.snap, mem.intent, AfterRecovery,
                run.todo, run.byID, run.wrote)
    BY <1>0, <1>k DEF RecoverStarts, Becomes, Runs
  <2> QED BY <1>k, <1>1, <1>3, <1>4, <1>5, <2>1 DEF RecoverStarts, Step, BeginsRepair, Goto
<1>l. CASE PassGuard \/ WritesDone
  BY <1>l, <1>1, <1>2, <1>3, <1>4, <1>5 DEF PassGuard, WritesDone, Step, Moves, Goto
<1>m. CASE FindUserBook
  <2>1. PICK snapped \in {FALSE, budget.setup.combined} :
          run' = [run EXCEPT !.seen = userBook, !.snapped = snapped,
                             !.snap = IF snapped THEN reads ELSE Nothing]
    BY <1>m DEF FindUserBook
  <2>2. Becomes(run.item, run.left, snapped, IF snapped THEN reads ELSE Nothing,
                run.dates, run.back, run.todo, run.byID, run.wrote)
    BY <1>0, <2>1 DEF Becomes, Runs
  <2> QED BY <1>m, <1>1, <1>3, <1>4, <1>5, <2>2 DEF FindUserBook, Step, Finds, Goto
<1>o. CASE HandleStarts
  <2>1. Same BY <1>0, <1>o DEF HandleStarts, Same, Becomes, Runs
  <2> QED BY <1>o, <1>1, <1>3, <1>4, <1>5, <2>1 DEF HandleStarts, PendingDates, Step, Moves, Goto
<1>p. CASE ReadsLoaded
  <2>0. PICK seen : seen = Seen OBVIOUS
  <2>1. run' = [run EXCEPT !.dates = seen, !.snapped = FALSE, !.snap = Nothing]
    BY <1>p, <2>0 DEF ReadsLoaded, Seen
  <2>2. Becomes(run.item, run.left, FALSE, Nothing, seen, run.back, run.todo, run.byID,
                run.wrote)
    BY <1>0, <2>1 DEF Becomes, Runs
  <2>3. MemSame
    <3>1. run.item \in Items BY <1>0, <1>p DEF ReadsLoaded, Busy
    <3>2. mem' = mem \/ mem' = Checkpointed(mem, run.item) BY <1>p DEF ReadsLoaded, Succeed
    <3> QED BY <1>0, <3>1, <3>2, MemFields
  <2>4. seen \in DateMap BY <1>0, <2>0, AnswerTyped DEF Seen, Runs
  <2>5. NeedsInsert(seen) => \A i \in Ids : seen[i] = Absent
    <3>1. \A i \in Ids : seen[i] \in Dates \cup {NoDate, Absent} BY <2>4 DEF DateMap
    <3> QED BY <3>1 DEF NeedsInsert, Unfinished, Finished
  <2>6. \/ pc' = "close" /\ Unfinished(seen) # {}
        \/ pc' = "insert" /\ \A i \in Ids : seen[i] = Absent
        \/ pc' \in {"intend", "checkpoint"}
    BY <1>p, <2>0, <2>5 DEF ReadsLoaded, Succeed, Seen, Goto
  <2>7. /\ pc = "reads" /\ NoFault /\ stale' = stale \cup Undone
        /\ UNCHANGED <<remoteVars, disk, history, inserted, resent>>
    BY <1>p DEF ReadsLoaded
  <2>8. Decides BY <1>4, <2>0, <2>2, <2>3, <2>6, <2>7 DEF Decides, ReadsSame
  <2> QED BY <1>1, <2>7, <2>8 DEF Step
<1>q. CASE CloseRead
  <2>0. PICK i : i = Max(Unfinished(run.dates)) OBVIOUS
  <2>1. CASE Leave /\ NoFault /\ UNCHANGED <<remoteVars, ghostVars>>
    BY <1>q, <2>1, <1>1, <1>3, <1>4, <1>5, <1>8 DEF CloseRead, Step, Moves
  <2>2. CASE /\ UpdateUserBookRead(i, Target)
             /\ blank' = blank \ {i}
             /\ UNCHANGED <<next, userBook, ghostVars>>
             /\ \/ /\ run' = [run EXCEPT !.dates[i] = Target]
                   /\ Goto("intend") /\ NoFault
                \/ Leave /\ Fault
    <3>1. i \in Ids /\ run.dates[i] = NoDate
      <4>1. Unfinished(run.dates) \in SUBSET (0..MaxReads)
        BY LimitsAssumption DEF Unfinished, Ids
      <4>2. Unfinished(run.dates) # {} BY <1>q DEF Places, CloseRead
      <4> QED BY <2>0, <4>1, <4>2, MaxOfNumbers, LimitsAssumption DEF Unfinished
    <3>2. \/ pc' = "checkpoint" /\ Same
          \/ /\ pc' = "intend"
             /\ Becomes(run.item, run.left, run.snapped, run.snap,
                        [run.dates EXCEPT ![i] = Target], run.back, run.todo,
                        run.byID, run.wrote)
      BY <1>0, <1>8, <2>2 DEF Becomes, Goto, Runs
    <3>3. pc = "close" /\ UNCHANGED <<disk, mem>> BY <1>q DEF CloseRead
    <3>4. reads[i] # Absent /\ reads' = [reads EXCEPT ![i] = Target]
      BY <2>2 DEF UpdateUserBookRead, SetDate
    <3>5. Closes BY <1>3, <1>4, <2>2, <3>1, <3>2, <3>3, <3>4 DEF Closes
    <3> QED BY <1>1, <2>2, <3>5 DEF Step
  <2> QED BY <1>q, <2>0, <2>1, <2>2 DEF CloseRead
<1>r. CASE InsertRead
  <2>1. CASE Leave /\ NoFault /\ UNCHANGED <<remoteVars, ghostVars>>
    BY <1>r, <2>1, <1>1, <1>3, <1>4, <1>5, <1>8 DEF InsertRead, Step, Moves
  <2>2. ASSUME userBook # "deleted", NEW copies \in 1..(1 + Retries), NEW known \in BOOLEAN,
               Insert(copies, known),
               \/ /\ known /\ run' = [run EXCEPT !.dates[next + copies] = Target]
                  /\ Goto("intend")
                  /\ IF copies > 1 THEN Fault ELSE NoFault
               \/ Leave /\ Fault
        PROVE  Step
    <3>1. next + copies \in Ids /\ next' = next + copies
      BY <1>0, <2>2, LimitsAssumption DEF RemoteOK, Insert, Ids
    <3>2. \/ pc' = "checkpoint" /\ Same
          \/ /\ pc' = "intend" /\ known
             /\ Becomes(run.item, run.left, run.snapped, run.snap,
                        [run.dates EXCEPT ![next + copies] = Target], run.back,
                        run.todo, run.byID, run.wrote)
      BY <1>0, <1>8, <2>2 DEF Becomes, Goto, Runs
    <3>3. pc = "insert" /\ UNCHANGED <<disk, mem>> BY <1>r DEF InsertRead
    <3>4. Fault \/ NoFault BY <2>2
    <3>5. Inserts BY <1>3, <1>4, <2>2, <3>1, <3>2, <3>3 DEF Inserts
    <3> QED BY <1>1, <3>4, <3>5 DEF Step
  <2> QED BY <1>r, <2>1, <2>2 DEF InsertRead
<1>s. CASE Intend \/ IntendFails
  <2>1. Intended.intent = run.dates /\ Intended.owner = run.item
    BY <1>0 DEF Intended, MemOK
  <2>2. Recalls(run.dates, run.item)
    BY <1>0, <1>s, <2>1 DEF Intend, IntendFails, SaveOK, SaveFails, Recalls, Intended, MemOK
  <2>3. disk' = Stored(Intended) => disk'.intent = run.dates /\ disk'.owner = run.item
    BY <2>1 DEF Stored
  <2> QED BY <1>s, <1>1, <1>2, <1>5, <1>8, <2>2, <2>3
          DEF Intend, IntendFails, SaveOK, SaveFails, Step, Intends, Files, Goto
<1>t. CASE SetFinished
  <2>1. CASE Leave /\ NoFault /\ UNCHANGED remoteVars
    BY <1>t, <2>1, <1>1, <1>3, <1>4, <1>5, <1>8 DEF SetFinished, Step, Moves
  <2>2. CASE /\ UpdateUserBookStatus
             /\ \/ /\ run' = [run EXCEPT !.back = "clean"]
                   /\ Goto("load") /\ NoFault
                \/ Leave /\ Fault
    <3>1. \/ pc' = "checkpoint" /\ Same
          \/ /\ pc' = "load"
             /\ Becomes(run.item, run.left, run.snapped, run.snap, run.dates, "clean",
                        run.todo, run.byID, run.wrote)
      BY <1>0, <1>8, <2>2 DEF Becomes, Goto, Runs
    <3>2. Finishes BY <1>t, <1>3, <1>4, <2>2, <3>1 DEF SetFinished, Finishes, UpdateUserBookStatus
    <3> QED BY <1>1, <2>2, <3>2 DEF Step
  <2> QED BY <1>t, <2>1, <2>2 DEF SetFinished
<1>u. CASE CleanReads
  <2>1. run.item \in Items BY <1>0, <1>u DEF CleanReads, Busy
  <2>2. MemSame BY <1>0, <1>u, <2>1, MemFields DEF CleanReads, Succeed
  <2>3. Cleans
    BY <1>u, <1>2, <1>4, <2>2 DEF CleanReads, Succeed, Goto, Cleans
  <2>4. Fault \/ NoFault BY <1>u DEF CleanReads
  <2> QED BY <1>1, <2>3, <2>4 DEF Step
<1>v. CASE LoadReads
  <2>1. PICK answer : answer = UserBookReads OBVIOUS
  <2>2. run' = [run EXCEPT !.todo = run.dates, !.byID = answer, !.wrote = FALSE]
    BY <1>v, <2>1 DEF LoadReads
  <2>3. Becomes(run.item, run.left, run.snapped, run.snap, run.dates, run.back,
                run.dates, answer, FALSE)
    BY <1>0, <2>2 DEF Becomes, Runs
  <2>4. pc' \in {"confirm", "write"} BY <1>v DEF LoadReads, Goto
  <2> QED BY <1>v, <1>1, <1>3, <1>4, <1>5, <2>1, <2>3, <2>4 DEF LoadReads, Step, Loads
<1>w. CASE ConfirmMissing
  <2>1. CASE Leave
    BY <1>w, <2>1, <1>1, <1>3, <1>4, <1>5, <1>8 DEF ConfirmMissing, Step, Moves
  <2>2. CASE /\ run' = [run EXCEPT !.byID = UserBookReads,
                           !.todo = [i \in Ids |-> IF i \in Missing THEN Absent ELSE @[i]]]
             /\ Goto("write")
    <3>1. PICK rest : rest = [i \in Ids |-> IF i \in Missing THEN Absent ELSE run.todo[i]]
      OBVIOUS
    <3>2. PICK answer : answer = UserBookReads OBVIOUS
    <3>3. run' = [run EXCEPT !.byID = answer, !.todo = rest] BY <2>2, <3>1, <3>2
    <3>4. Becomes(run.item, run.left, run.snapped, run.snap, run.dates, run.back,
                  rest, answer, run.wrote)
      BY <1>0, <3>3 DEF Becomes, Runs
    <3> QED BY <1>w, <2>2, <1>1, <1>3, <1>4, <1>5, <3>1, <3>2, <3>4
            DEF ConfirmMissing, Goto, Step, Confirms
  <2> QED BY <1>w, <2>1, <2>2 DEF ConfirmMissing
<1>x. ASSUME NEW i \in Ids, WriteDate(i) PROVE Step
  <2>1. CASE reads[i] = Absent /\ Leave /\ NoFault /\ UNCHANGED reads
    BY <1>x, <2>1, <1>1, <1>3, <1>4, <1>8 DEF WriteDate, Step, Moves, WorldSame
  <2>2. CASE reads[i] # Absent
    <3>1. run.todo[i] # Absent /\ pc = "write" BY <1>x DEF WriteDate, ToWrite, Present
    <3>2. reads' \in {reads, [reads EXCEPT ![i] = run.todo[i]]}
      BY <1>x, <2>2 DEF WriteDate, UpdateUserBookRead, SetDate
    <3>3. CASE Leave
      BY <1>x, <1>1, <1>3, <1>4, <1>8, <2>2, <3>1, <3>2, <3>3 DEF WriteDate, Step, Writes
    <3>4. CASE run' = [run EXCEPT !.byID[i] = run.todo[i], !.wrote = TRUE] /\ UNCHANGED pc
      <4>1. Becomes(run.item, run.left, run.snapped, run.snap, run.dates, run.back,
                    run.todo, [run.byID EXCEPT ![i] = run.todo[i]], TRUE)
        BY <1>0, <3>4 DEF Becomes, Runs
      <4> QED BY <1>x, <1>1, <1>3, <1>4, <2>2, <3>1, <3>2, <3>4, <4>1 DEF WriteDate, Step, Writes
    <3> QED BY <1>x, <2>2, <3>3, <3>4 DEF WriteDate
  <2> QED BY <1>x, <2>1, <2>2 DEF WriteDate
<1>y. ASSUME Restored
      PROVE  /\ Forgets /\ pc' = run.back
             /\ Becomes(run.item, run.left, run.snapped, run.snap,
                        IF run.back = "clean" THEN run.dates ELSE Nothing, run.back,
                        Nothing, Nothing, FALSE)
  <2>1. Forgets /\ pc' = run.back BY <1>0, <1>y, MemFields DEF Restored, Goto
  <2> QED BY <1>0, <1>y, <2>1 DEF Restored, Becomes, Runs
<1>z. CASE NothingToWrite \/ Verify
  <2>1. CASE /\ Restored
             /\ NothingToWrite \/ \A i \in Present(run.todo) : UserBookReads[i] = run.todo[i]
    <3>1. EndsRepair
      BY <1>z, <2>1, <1>4, <1>5, <1>y DEF NothingToWrite, Verify, EndsRepair
    <3> QED BY <1>z, <1>1, <3>1 DEF NothingToWrite, Verify, Step
  <2>2. CASE Verify /\ Leave /\ UNCHANGED mem
    BY <2>2, <1>1, <1>3, <1>4, <1>5, <1>8 DEF Verify, Step, Moves
  <2> QED BY <1>z, <2>1, <2>2 DEF NothingToWrite, Verify
<1>B. CASE User
  <2>1. UserActs
    BY <1>B DEF User, UserEditsDate, UserDeletesRead, UserStartsRead, UserSetsStatus,
                UserDeletesBook
  <2>2. budget'.setup = budget.setup BY <1>0, <2>1 DEF UserActs, BudgetOK
  <2> QED BY <1>B, <2>2 DEF Step
<1>C. CASE UNCHANGED vars
  BY <1>C, <1>2, <1>3, <1>4, <1>5 DEF vars, Step, Stays
<1> QED
  BY <1>a, <1>b, <1>c, <1>d, <1>e, <1>f, <1>g, <1>h, <1>i, <1>k, <1>l, <1>m,
     <1>o, <1>p, <1>q, <1>r, <1>s, <1>t, <1>u, <1>v, <1>w, <1>x, <1>z, <1>B, <1>C
     DEF Next, Sync, Recover, Restore, HandleFinishedBook

---------------------------------------------------------------------------
(* Every step keeps the first half of the invariant                        *)

\* The user changes nothing of the sync process.
LEMMA UserActsOnly == User => UserActs
BY DEF User, UserEditsDate, UserDeletesRead, UserStartsRead, UserSetsStatus, UserDeletesBook

\* The user acts on the user book and on its history only.
LEMMA UserSame ==
  User => /\ Same /\ MemSame /\ FileSame /\ UNCHANGED <<pc, inserted, resent, stale, run, mem, disk>>
BY UserActsOnly DEF UserActs, Same, Becomes, MemSame, Recalls, FileSame

\* Every step keeps the types.
LEMMA StepTypes ==
  ASSUME Types, Places, [Next]_vars, Step
  PROVE  Types'
<1>1. TypeOK' BY StepType DEF Types
<1>2. Busy'
  <2>1. run.left \subseteq Items /\ (pc \notin {"idle", "item"} => run.item \in Items)
    BY DEF Types, TypeOK, Runs, Busy
  <2>2. CASE Turns BY <2>1, <2>2 DEF Busy, Turns, Loading, Emptied, Becomes
  <2>3. CASE Moves BY <2>1, <2>3 DEF Types, Busy, Moves, Loading, Same, Becomes
  <2>4. CASE GivesUp \/ BeginsRepair
    BY <2>1, <2>4 DEF Types, Busy, GivesUp, BeginsRepair, AfterRecovery, Loading, Same, Becomes
  <2>5. CASE Finds \/ Decides \/ Closes \/ Inserts \/ Intends \/ Cleans
    BY <2>1, <2>5 DEF Types, Busy, Finds, Decides, Closes, Inserts, Intends, Cleans,
                      Loading, Same, Becomes
  <2>6. CASE Finishes \/ Loads \/ Confirms \/ Writes \/ EndsRepair
    BY <2>1, <2>6 DEF Types, Busy, Finishes, Loads, Confirms, Writes, EndsRepair,
                      Loading, Same, Becomes
  <2>7. CASE Stays \/ User
    BY <2>7, UserSame DEF Types, Busy, Stays, Same, Becomes
  <2> QED BY <2>2, <2>3, <2>4, <2>5, <2>6, <2>7 DEF Step
<1> QED BY <1>1, <1>2 DEF Types

\* Every step keeps what the place of a run tells of it.
LEMMA StepPlaces ==
  ASSUME Types, Places, Step
  PROVE  Places'
<1> USE DEF Loading, Deciding
<1>0. \A i \in Ids : Nothing[i] = Absent BY DEF Nothing
<1>1. CASE Turns BY <1>1 DEF Places, Turns, Emptied, Becomes, Recalls, MemSame
<1>2. CASE Moves BY <1>2 DEF Places, Moves, Same, Becomes, Recalls, MemSame
<1>3. CASE GivesUp
  BY <1>3 DEF Places, GivesUp, AfterRecovery, Same, Becomes, Forgets, FileSame
<1>4. CASE BeginsRepair
  BY <1>4 DEF Places, BeginsRepair, AfterRecovery, Becomes, Recalls, MemSame
<1>5. CASE Finds BY <1>5 DEF Places, Finds, Becomes, Recalls, MemSame
<1>6. CASE Decides BY <1>6 DEF Places, Decides, Becomes, Recalls, MemSame, Unfinished
<1>7. CASE Closes \/ Inserts BY <1>7 DEF Places, Closes, Inserts, Same, Becomes, Recalls, MemSame
<1>8. CASE Intends BY <1>8 DEF Places, Intends, Same, Becomes, Recalls
<1>9. CASE Finishes BY <1>9 DEF Places, Finishes, Same, Becomes, Recalls, MemSame
<1>10. CASE Cleans BY <1>10 DEF Places, Cleans, Same, Becomes, Recalls, MemSame
<1>11. CASE Loads \/ Confirms \/ Writes
  BY <1>11 DEF Places, Loads, Confirms, Writes, Same, Becomes, Recalls, MemSame
<1>12. CASE EndsRepair
  BY <1>12 DEF Places, EndsRepair, Becomes, Forgets, Types, Busy
<1>13. CASE Stays \/ User
  BY <1>13, UserSame DEF Places, Stays, Same, Becomes, Recalls, MemSame, FileSame, Unfinished
<1> QED
  BY <1>1, <1>2, <1>3, <1>4, <1>5, <1>6, <1>7, <1>8, <1>9, <1>10, <1>11, <1>12, <1>13 DEF Step

\* Every step tells nothing of reads that do not exist yet.
LEMMA StepNew ==
  ASSUME Types, Places, New, Step
  PROVE  New'
<1> USE DEF Ids
<1>0. /\ \A i \in Ids : Nothing[i] = Absent
      /\ next \in Nat /\ MaxReads \in Nat /\ Retries \in Nat
      /\ reads \in DateMap /\ history \in [Ids -> Dates \cup {NoDate, Absent, Free}]
      /\ run \in Runs
  BY LimitsAssumption DEF Nothing, Types, TypeOK
<1>1. \A i \in Ids : i > next => UserBookReads[i] = Absent /\ Seen[i] = Absent
  BY DEF New, Unmade, UserBookReads, Seen
<1>a. CASE Turns
  BY <1>0, <1>a DEF New, Unmade, Turns, WorldSame, Emptied, Becomes, Recalls, MemSame, FileSame, Files
<1>b. CASE Moves
  BY <1>0, <1>b DEF New, Unmade, Moves, WorldSame, Same, Becomes, Recalls, MemSame, FileSame
<1>c. CASE GivesUp \/ BeginsRepair
  BY <1>0, <1>c DEF New, Unmade, GivesUp, BeginsRepair, WorldSame, Same, Becomes, Recalls,
                    Forgets, MemSame, FileSame
<1>d. CASE Finds
  BY <1>0, <1>d DEF New, Unmade, Finds, WorldSame, Becomes, Recalls, MemSame, FileSame
<1>e. CASE Decides
  BY <1>0, <1>1, <1>e DEF New, Unmade, Decides, ReadsSame, Becomes, Recalls, MemSame, FileSame
<1>f. CASE Closes
  <2>1. PICK i \in Ids :
          /\ run.dates[i] = NoDate /\ reads[i] # Absent
          /\ reads' = [reads EXCEPT ![i] = Target] /\ blank' = blank \ {i}
          /\ \/ pc' = "checkpoint" /\ Same
             \/ /\ pc' = "intend"
                /\ Becomes(run.item, run.left, run.snapped, run.snap,
                           [run.dates EXCEPT ![i] = Target], run.back, run.todo,
                           run.byID, run.wrote)
    BY <1>f DEF Closes
  <2>2. ~(i > next) BY <2>1 DEF New, Unmade
  <2>3. \A j \in Ids : j # i => reads'[j] = reads[j] /\ run'.dates[j] = run.dates[j]
    BY <1>0, <2>1 DEF DateMap, Runs, Same, Becomes
  <2> QED BY <1>f, <2>1, <2>2, <2>3
          DEF New, Unmade, Closes, Same, Becomes, Recalls, MemSame, FileSame
<1>g. CASE Inserts
  <2>1. PICK copies \in 1..(1 + Retries), known \in BOOLEAN :
          /\ Insert(copies, known) /\ next + copies \in Ids /\ next' = next + copies
          /\ \/ pc' = "checkpoint" /\ Same
             \/ /\ pc' = "intend" /\ known
                /\ Becomes(run.item, run.left, run.snapped, run.snap,
                           [run.dates EXCEPT ![next + copies] = Target], run.back,
                           run.todo, run.byID, run.wrote)
    BY <1>g DEF Inserts
  <2>2. \A j \in Ids : j > next' => /\ run'.dates[j] = run.dates[j]
                                    /\ reads'[j] = reads[j] /\ history'[j] = history[j]
                                    /\ j > next /\ (j \in inserted' => j \in inserted)
    BY <1>0, <2>1 DEF Insert, DateMap, Runs, Same, Becomes
  <2> QED BY <1>0, <1>g, <2>1, <2>2
          DEF New, Unmade, Inserts, Insert, Same, Becomes, Recalls, MemSame, FileSame
<1>h. CASE Intends
  BY <1>0, <1>h DEF New, Unmade, Intends, WorldSame, Same, Becomes, Recalls, Files
<1>i. CASE Finishes
  <2>1. \A j \in Ids : j > next' => reads'[j] = reads[j] /\ j > next /\ (j \in blank' => j \in blank)
    BY <1>0, <1>i DEF Finishes, Transition, New, Unmade, Present
  <2> QED BY <1>0, <1>i, <2>1
          DEF New, Unmade, Finishes, Same, Becomes, Recalls, MemSame, FileSame
<1>j. CASE Cleans
  <2>1. \A j \in Ids : reads'[j] \in {reads[j], Absent} /\ (j \in blank' => j \in blank)
    BY <1>0, <1>j DEF Cleans, DeleteReads
  <2> QED BY <1>0, <1>j, <2>1
          DEF New, Unmade, Cleans, Same, Becomes, Recalls, MemSame, FileSame
<1>k. CASE Loads \/ Confirms
  BY <1>0, <1>1, <1>k DEF New, Unmade, Loads, Confirms, WorldSame, Becomes, Recalls, MemSame, FileSame
<1>l. CASE Writes
  <2>1. PICK i \in Ids :
          /\ run.todo[i] # Absent /\ reads[i] # Absent
          /\ reads' \in {reads, [reads EXCEPT ![i] = run.todo[i]]}
          /\ \/ pc' = "checkpoint" /\ Same
             \/ /\ pc' = "write"
                /\ Becomes(run.item, run.left, run.snapped, run.snap, run.dates, run.back,
                           run.todo, [run.byID EXCEPT ![i] = run.todo[i]], TRUE)
    BY <1>l DEF Writes
  <2>2. ~(i > next) BY <2>1 DEF New, Unmade
  <2>3. \A j \in Ids : j # i => reads'[j] = reads[j] /\ run'.byID[j] = run.byID[j]
    BY <1>0, <2>1 DEF DateMap, Runs, Same, Becomes
  <2> QED BY <1>l, <2>1, <2>2, <2>3
          DEF New, Unmade, Writes, Same, Becomes, Recalls, MemSame, FileSame
<1>m. CASE EndsRepair
  BY <1>0, <1>m DEF New, Unmade, EndsRepair, WorldSame, Becomes, Forgets, FileSame
<1>n. CASE Stays
  BY <1>0, <1>n DEF New, Unmade, Stays, WorldSame, Same, Becomes, Recalls, MemSame, FileSame
<1>o. CASE User
  <2>1. \A j \in Ids : j > next' => /\ j > next
                                    /\ (reads[j] = Absent /\ history[j] = Absent
                                          => reads'[j] = Absent /\ history'[j] = Absent)
                                    /\ (j \in blank' => j \in blank)
    <3>1. ASSUME NEW i \in Ids, NEW date \in Dates \cup {NoDate}, UserEditsDate(i, date),
                 NEW j \in Ids, j > next'
          PROVE  /\ j > next
                 /\ (reads[j] = Absent /\ history[j] = Absent
                       => reads'[j] = Absent /\ history'[j] = Absent)
                 /\ (j \in blank' => j \in blank)
      BY <1>0, <3>1 DEF UserEditsDate, SetDate, DateMap
    <3>2. ASSUME NEW i \in Ids, UserDeletesRead(i), NEW j \in Ids, j > next'
          PROVE  /\ j > next
                 /\ (reads[j] = Absent /\ history[j] = Absent
                       => reads'[j] = Absent /\ history'[j] = Absent)
                 /\ (j \in blank' => j \in blank)
      BY <1>0, <3>2 DEF UserDeletesRead, SetDate, DateMap
    <3>3. ASSUME NEW isBlank \in BOOLEAN, UserStartsRead(isBlank), NEW j \in Ids, j > next'
          PROVE  /\ j > next
                 /\ (reads[j] = Absent /\ history[j] = Absent
                       => reads'[j] = Absent /\ history'[j] = Absent)
                 /\ (j \in blank' => j \in blank)
      BY <1>0, <3>3 DEF UserStartsRead, SetDate, DateMap
    <3>4. CASE UserDeletesBook \/ \E status \in {"reading", "finished", "dnf"} : UserSetsStatus(status)
      BY <1>0, <3>4 DEF UserDeletesBook, UserSetsStatus
    <3> QED BY <1>o, <3>1, <3>2, <3>3, <3>4 DEF User
  <2> QED BY <1>o, <2>1, UserSame
          DEF New, Unmade, Same, Becomes, Recalls, MemSame, FileSame
<1> QED
  BY <1>a, <1>b, <1>c, <1>d, <1>e, <1>f, <1>g, <1>h, <1>i, <1>j, <1>k, <1>l, <1>m, <1>n, <1>o
     DEF Step

\* A user book that is gone keeps having no reads.
LEMMA StepGone ==
  ASSUME Types, Places, New, Gone, Step
  PROVE  Gone'
<1>0. /\ \A i \in Ids : Nothing[i] = Absent
      /\ reads \in DateMap
  BY DEF Nothing, Types, TypeOK
<1>1. CASE Turns \/ Moves \/ GivesUp \/ BeginsRepair \/ Finds \/ Decides \/ Intends
             \/ Loads \/ Confirms \/ EndsRepair \/ Stays
  BY <1>1 DEF Gone, WorldSame, ReadsSame, Turns, Moves, GivesUp, BeginsRepair, Finds, Decides, Intends,
              Loads, Confirms, EndsRepair, Stays
<1>2. CASE Closes \/ Writes
  BY <1>2 DEF Gone, Closes, Writes
<1>3. CASE Inserts \/ Finishes
  BY <1>3 DEF Gone, Inserts, Insert, Finishes, Transition
<1>4. CASE Cleans BY <1>4 DEF Gone, Cleans, DeleteReads
<1>5. CASE User
  BY <1>0, <1>5 DEF Gone, User, UserActs, UserEditsDate, UserDeletesRead, UserStartsRead,
              UserSetsStatus, UserDeletesBook
<1> QED BY <1>1, <1>2, <1>3, <1>4, <1>5 DEF Step

\* The user's changes to what a run does not know of are free.
LEMMA UserKnown ==
  ASSUME Types, New, User, pc # "idle", NEW map \in DateMap, KnownBy(map),
         \A i \in Ids : i > next => map[i] = Absent
  PROVE  KnownBy(map)'
<1> USE DEF Ids
<1>0. /\ next \in Nat /\ MaxReads \in Nat
      /\ reads \in DateMap /\ history \in [Ids -> Dates \cup {NoDate, Absent, Free}]
      /\ MaxReads \in Nat
  BY LimitsAssumption DEF Types, TypeOK
<1> SUFFICES ASSUME NEW j \in Ids, map[j] = Absent, reads'[j] # Absent
             PROVE  history'[j] \in {Absent, Free}
  BY DEF KnownBy
<1>1. ASSUME NEW i \in Ids, NEW date \in Dates \cup {NoDate}, UserEditsDate(i, date)
      PROVE  history'[j] \in {Absent, Free}
  <2>1. reads[j] # Absent
    BY <1>0, <1>1 DEF UserEditsDate, SetDate, DateMap
  <2>2. history[j] \in {Absent, Free} BY <2>1 DEF KnownBy
  <2>3. CASE i = j
    <3>1. Held(i) BY <1>1, <2>2, <2>3 DEF Held
    <3> QED BY <1>0, <1>1, <2>3, <3>1 DEF UserEditsDate
  <2>4. CASE i # j BY <1>0, <1>1, <2>2, <2>4 DEF UserEditsDate
  <2> QED BY <2>3, <2>4
<1>2. ASSUME NEW i \in Ids, UserDeletesRead(i)
      PROVE  history'[j] \in {Absent, Free}
  <2>1. i # j /\ reads[j] # Absent
    BY <1>0, <1>2 DEF UserDeletesRead, SetDate, DateMap
  <2> QED BY <1>0, <1>2, <2>1 DEF UserDeletesRead, KnownBy
<1>3. ASSUME NEW isBlank \in BOOLEAN, UserStartsRead(isBlank)
      PROVE  history'[j] \in {Absent, Free}
  <2>1. next + 1 \in Ids BY <1>0, <1>3 DEF UserStartsRead
  <2>2. CASE j = next + 1 BY <1>0, <1>3, <2>1, <2>2 DEF UserStartsRead
  <2>3. CASE j # next + 1
    <3>1. reads[j] # Absent /\ history'[j] = history[j]
      BY <1>0, <1>3, <2>3 DEF UserStartsRead, SetDate, DateMap
    <3> QED BY <3>1 DEF KnownBy
  <2> QED BY <2>2, <2>3
<1>4. CASE UserDeletesBook
  BY <1>4 DEF UserDeletesBook, Nothing
<1>5. ASSUME NEW status \in {"reading", "finished", "dnf"}, UserSetsStatus(status)
      PROVE  history'[j] \in {Absent, Free}
  BY <1>5 DEF UserSetsStatus, KnownBy
<1> QED BY <1>1, <1>2, <1>3, <1>4, <1>5 DEF User

\* Every step keeps the run knowing the reads it found.
LEMMA StepKnown ==
  ASSUME Types, Places, New, Gone, Known, Step
  PROVE  Known'
<1> USE DEF Loading, Deciding, Handling
<1>0. /\ \A i \in Ids : Nothing[i] = Absent
      /\ reads \in DateMap /\ run.dates \in DateMap /\ run.snap \in DateMap
      /\ history \in [Ids -> Dates \cup {NoDate, Absent, Free}]
      /\ next \in Nat
  BY DEF Nothing, Types, TypeOK, Runs
<1>1. ASSUME WorldSame, NEW map, KnownBy(map) PROVE KnownBy(map)'
  BY <1>1 DEF KnownBy, WorldSame
<1>2. ASSUME WorldSame, NEW map, KnownBy(map), run'.dates = map PROVE KnownBy(run.dates)'
  BY <1>2 DEF KnownBy, WorldSame
<1>3. ASSUME WorldSame, NEW map, KnownBy(map), run'.snap = map PROVE KnownBy(run.snap)'
  BY <1>3 DEF KnownBy, WorldSame
<1>a. CASE Turns BY <1>a DEF Known, Turns, Emptied, Becomes
<1>b. CASE Moves
  BY <1>2, <1>3, <1>b DEF Known, Places, Moves, Same, Becomes
<1>c. CASE GivesUp
  BY <1>2, <1>3, <1>c DEF Known, Places, GivesUp, AfterRecovery, Same, Becomes
<1>d. CASE BeginsRepair
  BY <1>2, <1>3, <1>d DEF Known, Places, BeginsRepair, AfterRecovery, Same, Becomes
<1>e. CASE Finds
  <2>1. run'.snapped => run'.snap = reads BY <1>e DEF Finds, Becomes
  <2>2. KnownBy(reads) BY DEF KnownBy
  <2> QED BY <1>e, <1>3, <2>1, <2>2 DEF Known, Finds
<1>f. CASE Decides
  <2>1. KnownBy(Seen)
    <3>1. CASE run.snapped BY <1>f, <3>1 DEF Known, Decides, Seen
    <3>2. CASE ~run.snapped
      <4>1. \A i \in Ids : Seen[i] = Absent => reads[i] = Absent
        BY <3>2 DEF Seen, UserBookReads, Gone
      <4> QED BY <4>1 DEF KnownBy
    <3> QED BY <3>1, <3>2
  <2>2. run'.dates = Seen /\ ~run'.snapped /\ UNCHANGED <<reads, history>>
    BY <1>f DEF Decides, ReadsSame, Becomes
  <2>3. KnownBy(run.dates)' BY <2>1, <2>2 DEF KnownBy
  <2> QED BY <2>2, <2>3 DEF Known
<1>g. CASE Closes
  <2>1. PICK i \in Ids :
          /\ run.dates[i] = NoDate /\ reads[i] # Absent
          /\ reads' = [reads EXCEPT ![i] = Target] /\ blank' = blank \ {i}
          /\ \/ pc' = "checkpoint" /\ Same
             \/ /\ pc' = "intend"
                /\ Becomes(run.item, run.left, run.snapped, run.snap,
                           [run.dates EXCEPT ![i] = Target], run.back, run.todo,
                           run.byID, run.wrote)
    BY <1>g DEF Closes
  <2>2. \A j \in Ids : /\ reads'[j] # Absent => reads[j] # Absent
                       /\ run'.dates[j] = Absent => run.dates[j] = Absent
    BY <1>0, <2>1, MapTyped, DatesAssumption DEF DateMap, Same, Becomes
  <2>3. KnownBy(run.dates) BY <1>g DEF Known, Closes
  <2>4. KnownBy(run.dates)' BY <1>g, <2>1, <2>2, <2>3 DEF KnownBy, Closes
  <2>5. ~run'.snapped BY <1>g DEF Places, Closes, Same, Becomes
  <2> QED BY <2>1, <2>4, <2>5 DEF Known
<1>h. CASE Inserts
  <2>1. PICK copies \in 1..(1 + Retries), known \in BOOLEAN :
          /\ Insert(copies, known) /\ next + copies \in Ids /\ next' = next + copies
          /\ \/ pc' = "checkpoint" /\ Same
             \/ /\ pc' = "intend" /\ known
                /\ Becomes(run.item, run.left, run.snapped, run.snap,
                           [run.dates EXCEPT ![next + copies] = Target], run.back,
                           run.todo, run.byID, run.wrote)
    BY <1>h DEF Inserts
  <2>2. ~run'.snapped BY <1>h DEF Places, Inserts, Same, Becomes
  <2>3. CASE pc' = "checkpoint" BY <2>2, <2>3 DEF Known
  <2>4. CASE pc' = "intend"
    <3>1. run'.dates = [run.dates EXCEPT ![next + copies] = Target] BY <2>1, <2>4 DEF Becomes
    <3>2. SUFFICES ASSUME NEW j \in Ids, run'.dates[j] = Absent, reads'[j] # Absent
                   PROVE  history'[j] \in {Absent, Free}
      BY <2>2, <2>4 DEF Known, KnownBy
    <3>3. j # next + copies /\ run.dates[j] = Absent
      BY <1>0, <2>1, <3>1, <3>2, MapTyped, DatesAssumption DEF DateMap
    <3>4. CASE j \in (next + 1)..(next + copies)
      BY <2>1, <2>4, <3>3, <3>4 DEF Insert
    <3>5. CASE j \notin (next + 1)..(next + copies)
      <4>1. reads[j] # Absent /\ history'[j] = history[j]
        BY <2>1, <3>2, <3>5 DEF Insert
      <4> QED BY <1>h, <3>3, <4>1 DEF Known, KnownBy, Inserts
    <3> QED BY <3>4, <3>5
  <2> QED BY <2>1, <2>3, <2>4
<1>i. CASE Intends
  BY <1>2, <1>i DEF Known, Places, Intends, Same, Becomes
<1>j. CASE Finishes
  <2>1. run'.dates = run.dates /\ ~run'.snapped
    BY <1>j DEF Places, Finishes, Same, Becomes
  <2>2. KnownBy(run.dates)'
    <3>1. KnownBy(run.dates) BY <1>j DEF Known, Finishes
    <3>2. \A j \in Ids : reads'[j] # Absent /\ j <= next
                           => reads[j] # Absent
      BY <1>0, <1>j DEF Finishes, Transition, Present, Ids
    <3>3. \A j \in Ids : ~(j <= next) => history[j] = Absent
      BY <1>0 DEF New, Unmade, Ids
    <3> QED BY <1>j, <2>1, <3>1, <3>2, <3>3 DEF Finishes, KnownBy
  <2> QED BY <1>j, <2>1, <2>2 DEF Known, Finishes
<1>k. CASE Cleans
  BY <1>k DEF Known, Places, Cleans, Same, Becomes
<1>l. CASE Loads \/ Confirms
  BY <1>2, <1>3, <1>l DEF Known, Loads, Confirms, Becomes
<1>m. CASE Writes
  <2>1. \A j \in Ids : reads'[j] # Absent => reads[j] # Absent
    BY <1>0, <1>m DEF Writes, DateMap
  <2>2. run'.dates = run.dates /\ run'.snap = run.snap /\ run'.snapped = run.snapped
        /\ run'.back = run.back
    BY <1>m DEF Writes, Same, Becomes
  <2>3. KnownBy(run.dates) => KnownBy(run.dates)'
    BY <1>m, <2>1, <2>2 DEF KnownBy, Writes
  <2>4. KnownBy(run.snap) => KnownBy(run.snap)'
    BY <1>m, <2>1, <2>2 DEF KnownBy, Writes
  <2> QED BY <1>m, <2>2, <2>3, <2>4 DEF Known, Writes
<1>n. CASE EndsRepair
  BY <1>2, <1>3, <1>n DEF Known, Places, EndsRepair, Becomes, Types, Busy
<1>o. CASE Stays
  BY <1>2, <1>3, <1>o DEF Known, Stays, Same, Becomes
<1>p. CASE User
  <2>1. run' = run /\ pc' = pc BY <1>p, UserSame
  <2>2. pc # "idle" /\ KnownBy(run.dates) => KnownBy(run.dates)'
    BY <1>0, <1>p, <2>1, UserKnown DEF New, Unmade, KnownBy
  <2>3. pc # "idle" /\ KnownBy(run.snap) => KnownBy(run.snap)'
    BY <1>0, <1>p, <2>1, UserKnown DEF New, Unmade, KnownBy
  <2> QED BY <2>1, <2>2, <2>3 DEF Known
<1> QED
  BY <1>a, <1>b, <1>c, <1>d, <1>e, <1>f, <1>g, <1>h, <1>i, <1>j, <1>k, <1>l, <1>m, <1>n,
     <1>o, <1>p DEF Step

\* Reads of the sync that exist stay those of one request, and no step but an
\* insertion brings one into being.
LEMMA InsertedStays ==
  ASSUME UNCHANGED inserted, \A i \in inserted : reads'[i] # Absent => reads[i] # Absent,
         \E n \in 0..MaxReads : \A i \in inserted :
           reads[i] # Absent => i \in (n + 1)..(n + 1 + Retries)
  PROVE  \E n \in 0..MaxReads : \A i \in inserted' :
           reads'[i] # Absent => i \in (n + 1)..(n + 1 + Retries)
OBVIOUS

\* Only insertions bring reads of the sync into being.
LEMMA InsertedGone ==
  ASSUME Types, New, Step, ~Inserts
  PROVE  /\ UNCHANGED <<inserted, resent>>
         /\ \A i \in inserted : reads'[i] # Absent => reads[i] # Absent
<1>0. /\ reads \in DateMap /\ next \in Nat /\ inserted \subseteq Ids
      /\ \A i \in inserted : i # next + 1
  BY DEF Types, TypeOK, New, Unmade, Ids
<1>1. CASE Turns \/ Moves \/ GivesUp \/ BeginsRepair \/ Finds \/ Decides \/ Intends
             \/ Loads \/ Confirms \/ EndsRepair \/ Stays
  BY <1>1 DEF WorldSame, ReadsSame, Turns, Moves, GivesUp, BeginsRepair, Finds, Decides, Intends,
              Loads, Confirms, EndsRepair, Stays
<1>2. CASE Closes BY <1>0, <1>2 DEF Closes, DateMap
<1>3. CASE Writes BY <1>0, <1>3 DEF Writes, DateMap
<1>4. CASE Finishes BY <1>0, <1>4 DEF Finishes, Transition, Present
<1>5. CASE Cleans BY <1>0, <1>5 DEF Cleans, DeleteReads
<1>6. CASE User
  <2>1. UNCHANGED <<inserted, resent>> BY <1>6, UserSame
  <2>2. ASSUME NEW i \in Ids, NEW date \in Dates \cup {NoDate}, UserEditsDate(i, date)
        PROVE  \A j \in inserted : reads'[j] # Absent => reads[j] # Absent
    BY <1>0, <2>2 DEF UserEditsDate, SetDate, DateMap
  <2>3. ASSUME NEW i \in Ids, UserDeletesRead(i)
        PROVE  \A j \in inserted : reads'[j] # Absent => reads[j] # Absent
    BY <1>0, <2>3 DEF UserDeletesRead, SetDate, DateMap
  <2>4. ASSUME NEW isBlank \in BOOLEAN, UserStartsRead(isBlank)
        PROVE  \A j \in inserted : reads'[j] # Absent => reads[j] # Absent
    BY <1>0, <2>4 DEF UserStartsRead, SetDate, DateMap
  <2>5. CASE UserDeletesBook
    <3>1. \A j \in Ids : reads'[j] = Absent BY <2>5 DEF UserDeletesBook, Nothing
    <3> QED BY <1>0, <2>1, <3>1
  <2>6. ASSUME NEW status \in {"reading", "finished", "dnf"}, UserSetsStatus(status)
        PROVE  \A j \in inserted : reads'[j] # Absent => reads[j] # Absent
    BY <2>6 DEF UserSetsStatus
  <2> QED BY <1>6, <2>1, <2>2, <2>3, <2>4, <2>5, <2>6 DEF User
<1> QED BY <1>1, <1>2, <1>3, <1>4, <1>5, <1>6 DEF Step

\* Every step keeps the reads of the sync those of one request.
LEMMA StepSingle ==
  ASSUME Types, Places, New, Gone, Single, Step
  PROVE  Single'
<1> USE DEF Loading, Handling
<1>0. /\ \A i \in Ids : Nothing[i] = Absent
      /\ next \in 0..MaxReads /\ inserted \subseteq Ids /\ MaxReads \in Nat /\ Retries \in Nat
  BY LimitsAssumption DEF Nothing, Types, TypeOK
<1>1. CASE Inserts
  <2>1. PICK copies \in 1..(1 + Retries), known \in BOOLEAN :
          /\ Insert(copies, known) /\ next + copies \in Ids /\ next' = next + copies
          /\ \/ pc' = "checkpoint" /\ Same
             \/ /\ pc' = "intend" /\ known
                /\ Becomes(run.item, run.left, run.snapped, run.snap,
                           [run.dates EXCEPT ![next + copies] = Target], run.back,
                           run.todo, run.byID, run.wrote)
    BY <1>1 DEF Inserts
  <2>2. \A i \in inserted : reads[i] = Absent BY <1>1 DEF Single, Inserts
  <2>3. \A i \in inserted' : reads'[i] # Absent => i \in (next + 1)..(next + 1 + Retries)
    <3>1. ASSUME NEW i \in inserted', reads'[i] # Absent
          PROVE  i \in (next + 1)..(next + 1 + Retries)
      <4>1. i \in (next + 1)..(next + copies)
        BY <1>0, <2>1, <2>2, <3>1 DEF Insert
      <4> QED BY <1>0, <4>1
    <3> QED BY <3>1
  <2>4. \E n \in 0..MaxReads : \A i \in inserted' :
          reads'[i] # Absent => i \in (n + 1)..(n + 1 + Retries)
    BY <1>0, <2>3
  <2>5. pc' # "insert" /\ ~run'.snapped BY <1>1, <2>1 DEF Places, Deciding, Inserts, Same, Becomes
  <2>6. \A i \in inserted' \ resent' : reads'[i] # Absent => i = next + copies
    <3>1. SUFFICES ASSUME NEW i \in inserted' \ resent', reads'[i] # Absent
                   PROVE  i = next + copies
      OBVIOUS
    <3>2. CASE i \in (next + 1)..(next + copies) BY <2>1, <3>1, <3>2 DEF Insert
    <3>3. CASE i \notin (next + 1)..(next + copies)
      <4>1. i \in inserted /\ i \in Ids BY <1>0, <2>1, <3>1, <3>3 DEF Insert
      <4>2. reads'[i] = reads[i] BY <2>1, <3>3, <4>1 DEF Insert
      <4> QED BY <2>2, <3>1, <4>1, <4>2
    <3> QED BY <3>2, <3>3
  <2> QED BY <2>4, <2>5, <2>6 DEF Single
<1>2. CASE ~Inserts
  <2>1. /\ UNCHANGED <<inserted, resent>>
        /\ \A i \in inserted : reads'[i] # Absent => reads[i] # Absent
    BY <1>2, InsertedGone
  <2>2. \E n \in 0..MaxReads : \A i \in inserted' :
          reads'[i] # Absent => i \in (n + 1)..(n + 1 + Retries)
    BY <2>1, InsertedStays DEF Single
  <2>3. pc' = "insert" => \A i \in inserted' : reads'[i] = Absent
    <3>1. CASE pc = "insert" BY <2>1, <3>1 DEF Single
    <3>2. CASE Decides /\ pc' = "insert"
      <4>1. \A i \in Ids : Seen[i] = Absent BY <3>2 DEF Decides
      <4>2. \A i \in inserted : reads[i] = Absent
        BY <1>0, <3>2, <4>1 DEF Decides, Single, Seen, UserBookReads, Gone
      <4> QED BY <2>1, <4>2
    <3>3. CASE pc # "insert" /\ ~Decides
      BY <1>2, <3>3, UserSame DEF Step, Turns, Moves, GivesUp, AfterRecovery, BeginsRepair,
         Finds, Closes, Intends, Finishes, Cleans, Loads, Confirms, Writes, EndsRepair,
         Stays, Types, Busy
    <3> QED BY <3>1, <3>2, <3>3
  <2>4. run'.snapped /\ pc' \in Handling \cup Loading =>
          \A i \in inserted' : run'.snap[i] = Absent => reads'[i] = Absent
    <3>1. SUFFICES ASSUME run'.snapped, pc' \in Handling \cup Loading
                   PROVE  \A i \in inserted' : run'.snap[i] = Absent => reads'[i] = Absent
      OBVIOUS
    <3>2. CASE Finds
      BY <2>1, <3>1, <3>2 DEF Finds, Becomes
    <3>3. CASE ~Finds
      <4>1. run.snapped /\ run'.snap = run.snap /\ pc \in Handling \cup Loading
        BY <1>2, <3>1, <3>3, UserSame
           DEF Step, Turns, Emptied, Moves, GivesUp, AfterRecovery, BeginsRepair, Decides,
               Closes, Intends, Finishes, Cleans, Loads, Confirms, Writes, EndsRepair,
               Stays, Same, Becomes, Places, Deciding
      <4> QED BY <2>1, <4>1 DEF Single
    <3> QED BY <3>2, <3>3
  <2>5. \A i, j \in inserted' \ resent' : reads'[i] # Absent /\ reads'[j] # Absent => i = j
    BY <2>1 DEF Single
  <2> QED BY <2>2, <2>3, <2>4, <2>5 DEF Single
<1> QED BY <1>1, <1>2

---------------------------------------------------------------------------
(* What holds however often a request is sent again                        *)

\* The invariant holds at first.
LEMMA InitIInv == Init => IInv
<1> SUFFICES ASSUME Init PROVE IInv OBVIOUS
<1>1. TypeOK BY InitType
<1>2. /\ pc = "idle" /\ run = NoRun /\ history = reads /\ inserted = {}
      /\ disk = EmptyState /\ mem.intent = Nothing /\ userBook # "deleted"
      /\ blank \subseteq Unfinished(reads)
  BY DEF Init
<1>3. \A i \in Ids : i > next => reads[i] = Absent
  BY DEF Init, Ids
<1>4. Types BY <1>1, <1>2 DEF Types, Busy, Loading, NoRun, EmptyState
<1>5. New
  <2>1. \A i \in Ids : Nothing[i] = Absent BY DEF Nothing
  <2>2. \A i \in Ids : i > next => i \notin blank
    BY <1>2, <1>3, DatesAssumption DEF Unfinished, NoDate, Absent
  <2> QED BY <1>2, <1>3, <2>1, <2>2 DEF New, Unmade, NoRun, EmptyState
<1>6. Gone /\ Places BY <1>2 DEF Gone, Places, Loading, Deciding, NoRun
<1>7. Known BY <1>2 DEF Known, Loading, Deciding, Handling, NoRun
<1>8. Single
  <2>1. 0 \in 0..MaxReads BY LimitsAssumption
  <2> QED BY <1>2, <2>1 DEF Single, NoRun
<1> QED BY <1>4, <1>5, <1>6, <1>7, <1>8 DEF IInv

\* Every step keeps the invariant.
LEMMA StepIInv == IInv /\ [Next]_vars => IInv'
BY Effects, StepTypes, StepPlaces, StepNew, StepGone, StepKnown, StepSingle DEF IInv

\* The first half of the inductive invariant is an invariant.
LEMMA InvariantHolds == Spec => []IInv
BY InitIInv, StepIInv, PTL DEF Spec

\* Every variable keeps its type in all interleavings of runs, failures, stops
\* and the user's changes.
THEOREM TypeCorrect == Spec => []TypeOK
<1>1. IInv => TypeOK BY DEF IInv, Types
<1> QED BY InvariantHolds, <1>1, PTL

\* What the sync inserted and still exists: at most one read more than the
\* times one request may be sent again.
AtMostOneRequest == Cardinality({i \in inserted : reads[i] # Absent}) <= 1 + Retries

\* With the copies of an insertion that was sent again, a finished book has the
\* reads of one request, however many runs, failures and stops it takes.
THEOREM InsertedOnce == Spec => []AtMostOneRequest
<1>1. ASSUME IInv PROVE AtMostOneRequest
  <2>1. PICK n \in 0..MaxReads : \A i \in inserted :
          reads[i] # Absent => i \in (n + 1)..(n + 1 + Retries)
    BY <1>1 DEF IInv, Single
  <2> DEFINE kept == {i \in inserted : reads[i] # Absent}
             range == (n + 1)..(n + 1 + Retries)
  <2>2. n \in Nat /\ Retries \in Nat BY LimitsAssumption
  <2>3. IsFiniteSet(range) /\ Cardinality(range) = 1 + Retries
    BY <2>2, FS_Interval
  <2>4. kept \subseteq range BY <2>1
  <2> HIDE DEF kept, range
  <2>5. Cardinality(kept) <= Cardinality(range) BY <2>3, <2>4, FS_Subset
  <2> QED BY <2>3, <2>5 DEF kept, AtMostOneRequest
<1> QED BY InvariantHolds, <1>1, PTL

\* CHANGELOG.md:168, "Duplicate Read Prevention": finishing a book inserts one
\* read.  Only the copies of an insertion that was sent again come on top.
THEOREM OneRead == Spec => []OneReadInserted
<1>1. ASSUME IInv PROVE OneReadInserted
  <2> DEFINE kept == {i \in inserted \ resent : reads[i] # Absent}
  <2>1. \A i, j \in kept : i = j BY <1>1 DEF IInv, Single
  <2>2. CASE kept = {}
    <3>1. Cardinality(kept) = 0 BY <2>2, FS_EmptySet
    <3> QED BY <3>1 DEF OneReadInserted
  <2>3. CASE kept # {}
    <3>1. PICK i \in kept : kept = {i} BY <2>1, <2>3
    <3>2. Cardinality(kept) = 1 BY <3>1, FS_Singleton
    <3> QED BY <3>2 DEF OneReadInserted
  <2> QED BY <2>2, <2>3
<1> QED BY InvariantHolds, <1>1, PTL

\* The sync never deletes a read the user had before the run, blank or not:
\* what deleteBlankReads takes for Hardcover's own it did not know of.
THEOREM ReadsKept == Spec => UserReadsKept
<1>1. ASSUME IInv, [Next]_vars
      PROVE  \A i \in Ids :
               reads[i] # Absent /\ history[i] \notin {Absent, Free} /\ reads'[i] = Absent
                 => budget'.edits # budget.edits
  <2>0. Step /\ reads \in DateMap /\ run.dates \in DateMap /\ run.todo \in DateMap
    BY <1>1, Effects DEF IInv, Types, TypeOK, Runs
  <2>1. CASE Turns \/ Moves \/ GivesUp \/ BeginsRepair \/ Finds \/ Decides \/ Intends
               \/ Loads \/ Confirms \/ EndsRepair \/ Stays
    BY <2>1 DEF WorldSame, ReadsSame, Turns, Moves, GivesUp, BeginsRepair, Finds, Decides, Intends,
                Loads, Confirms, EndsRepair, Stays
  <2>2. CASE Closes \/ Inserts
    BY <2>0, <2>2, MapTyped, DatesAssumption DEF Closes, Inserts, Insert, DateMap
  <2>3. CASE Finishes
    BY <2>0, <2>3, MapTyped, DatesAssumption DEF Finishes, Transition, NoDate, Absent
  <2>4. CASE Writes BY <2>0, <2>4 DEF Writes, DateMap
  <2>5. CASE Cleans
    <3>1. KnownBy(run.dates) BY <1>1, <2>5 DEF IInv, Known, Deciding, Cleans
    <3>2. ASSUME NEW i \in Ids, reads[i] # Absent, reads'[i] = Absent
          PROVE  history[i] \in {Absent, Free}
      <4>1. i \in AutoCreated BY <2>5, <3>2 DEF Cleans, DeleteReads
      <4> QED BY <3>1, <3>2, <4>1 DEF AutoCreated, KnownBy
    <3> QED BY <3>2
  <2>6. CASE User
    <3>1. budget' = [budget EXCEPT !.edits = @ + 1] BY <2>6, UserActsOnly DEF UserActs
    <3>2. budget.edits \in Nat /\ budget'.edits = budget.edits + 1
      BY <1>1, <3>1, LimitsAssumption DEF IInv, Types, TypeOK
    <3> QED BY <3>2
  <2> QED BY <2>0, <2>1, <2>2, <2>3, <2>4, <2>5, <2>6 DEF Step
<1>2. IInv /\ [Next]_vars =>
        [\A i \in Ids :
           (reads[i] # Absent /\ history[i] \notin {Absent, Free} /\ reads'[i] = Absent)
             => budget'.edits # budget.edits]_vars
  BY <1>1
<1> QED BY InvariantHolds, <1>2, PTL DEF Spec, UserReadsKept

---------------------------------------------------------------------------
(* The dates                                                               *)

\* What the user changes is kept.
LEMMA UserKept ==
  ASSUME Types, New, User
  PROVE  \A j \in Ids : DateKept(j) => DateKept(j)'
<1>0. /\ next \in Nat /\ MaxReads \in Nat
      /\ reads \in DateMap /\ history \in [Ids -> Dates \cup {NoDate, Absent, Free}]
  BY LimitsAssumption DEF Types, TypeOK
<1> USE DEF DateKept, Rightful, Owed
<1>s. stale' = stale BY UserSame
<1>1. ASSUME NEW i \in Ids, NEW date \in Dates \cup {NoDate}, UserEditsDate(i, date)
      PROVE  \A j \in Ids : DateKept(j) => DateKept(j)'
  BY <1>0, <1>s, <1>1 DEF UserEditsDate, SetDate, DateMap
<1>2. ASSUME NEW i \in Ids, UserDeletesRead(i)
      PROVE  \A j \in Ids : DateKept(j) => DateKept(j)'
  BY <1>0, <1>s, <1>2 DEF UserDeletesRead, SetDate, DateMap
<1>3. ASSUME NEW isBlank \in BOOLEAN, UserStartsRead(isBlank)
      PROVE  \A j \in Ids : DateKept(j) => DateKept(j)'
  <2>1. next + 1 \in Ids BY <1>0, <1>3 DEF UserStartsRead, Ids
  <2> QED BY <1>0, <1>s, <1>3, <2>1 DEF UserStartsRead, SetDate, DateMap
<1>4. CASE UserDeletesBook BY <1>4 DEF UserDeletesBook, Nothing
<1>5. ASSUME NEW status \in {"reading", "finished", "dnf"}, UserSetsStatus(status)
      PROVE  \A j \in Ids : DateKept(j) => DateKept(j)'
  BY <1>s, <1>5 DEF UserSetsStatus
<1> QED BY <1>1, <1>2, <1>3, <1>4, <1>5, Zenon DEF User

\* A map whose reads are held stays right while the user acts.
LEMMA UserRightful ==
  ASSUME Types, New, User, NEW map \in DateMap, RightfulIn(map),
         \A i \in Ids : map[i] # Absent => Held(i) /\ ~(i > next)
  PROVE  \A j \in Ids : map[j] # Absent => Rightful(j, map[j])'
<1>0. /\ next \in Nat /\ MaxReads \in Nat
      /\ reads \in DateMap /\ history \in [Ids -> Dates \cup {NoDate, Absent, Free}]
  BY LimitsAssumption DEF Types, TypeOK
<1> USE DEF RightfulIn, Rightful, Owed
<1>s. stale' = stale BY UserSame
<1>1. ASSUME NEW i \in Ids, NEW date \in Dates \cup {NoDate}, UserEditsDate(i, date)
      PROVE  \A j \in Ids : map[j] # Absent => Rightful(j, map[j])'
  BY <1>0, <1>s, <1>1 DEF UserEditsDate
<1>2. ASSUME NEW i \in Ids, UserDeletesRead(i)
      PROVE  \A j \in Ids : map[j] # Absent => Rightful(j, map[j])'
  BY <1>0, <1>s, <1>2 DEF UserDeletesRead
<1>3. ASSUME NEW isBlank \in BOOLEAN, UserStartsRead(isBlank)
      PROVE  \A j \in Ids : map[j] # Absent => Rightful(j, map[j])'
  <2>1. next + 1 \in Ids /\ next + 1 > next BY <1>0, <1>3 DEF UserStartsRead, Ids
  <2>2. map[next + 1] = Absent BY <2>1
  <2> QED BY <1>0, <1>s, <1>3, <2>1, <2>2 DEF UserStartsRead
<1>4. CASE UserDeletesBook BY <1>4 DEF UserDeletesBook, Nothing
<1>5. ASSUME NEW status \in {"reading", "finished", "dnf"}, UserSetsStatus(status)
      PROVE  \A j \in Ids : map[j] # Absent => Rightful(j, map[j])'
  BY <1>s, <1>5 DEF UserSetsStatus
<1> QED BY <1>1, <1>2, <1>3, <1>4, <1>5, Zenon DEF User

\* The maps of a state: what they hold exists or existed.
LEMMA MapsHeld ==
  ASSUME Types, New
  PROVE  \A i \in Ids :
           /\ mem.intent[i] # Absent => Held(i) /\ ~(i > next)
           /\ disk.intent[i] # Absent => Held(i) /\ ~(i > next)
           /\ run.dates[i] # Absent => Held(i) /\ ~(i > next)
           /\ run.snap[i] # Absent => Held(i) /\ ~(i > next)
BY DEF New, Unmade, Held

\* The types of the maps.
LEMMA MapTypes ==
  Types => /\ mem.intent \in DateMap /\ disk.intent \in DateMap
           /\ run.dates \in DateMap /\ run.snap \in DateMap /\ run.todo \in DateMap
           /\ run.byID \in DateMap /\ reads \in DateMap
           /\ history \in [Ids -> Dates \cup {NoDate, Absent, Free}]
           /\ next \in Nat
BY DEF Types, TypeOK, Runs

\* Without an intent every date is kept.
LEMMA AllKept ==
  ASSUME pc # "idle", Covered, mem.intent = Nothing
  PROVE  \A i \in Ids : DateKept(i)
BY DEF Covered, CoveredBy, Nothing

\* Every step keeps what a repair has still to do.
LEMMA StepRepairs ==
  ASSUME IInv, Covered, Intents, Repairs, Step
  PROVE  Repairs'
<1> USE DEF IInv, Loading
<1>0. /\ \A i \in Ids : UserBookReads[i] = Absent => reads[i] = Absent
      /\ \A i \in Ids : UserBookReads[i] # Absent => UserBookReads[i] = reads[i]
      /\ \A i \in Ids : Nothing[i] = Absent
  BY DEF Gone, UserBookReads, Nothing
<1>1. CASE Loads
  <2>1. \A i \in Ids : run.dates[i] # Absent /\ UserBookReads[i] = run.dates[i] => DateKept(i)
    BY <1>0, <1>1 DEF Loads, Places, Intents, RightfulIn, DateKept
  <2> QED BY <1>1, <2>1 DEF Loads, Repairs, Becomes, WorldSame, DateKept, Rightful, Owed
<1>2. CASE Confirms
  <2>0. PICK rest : rest = [i \in Ids |-> IF i \in Missing THEN Absent ELSE run.todo[i]] OBVIOUS
  <2>1. \A i \in Ids : run.todo[i] # Absent /\ UserBookReads[i] = run.todo[i] => DateKept(i)
    BY <1>0, <1>2 DEF Confirms, Places, Repairs, Intents, RightfulIn, DateKept
  <2>2. \A i \in Ids : /\ rest[i] \in {Absent, run.dates[i]}
                       /\ rest[i] = Absent /\ run.dates[i] # Absent => reads[i] = Absent
    <3>1. \A i \in Ids : rest[i] = IF i \in Missing THEN Absent ELSE run.todo[i]
      BY <2>0
    <3>2. \A i \in Ids : i \in Missing => reads[i] = Absent BY <1>0 DEF Missing
    <3> QED BY <1>2, <3>1, <3>2 DEF Repairs, Confirms
  <2>3. \A i \in Ids : rest[i] # Absent => rest[i] = run.todo[i] BY <2>0
  <2>4. run'.todo = rest /\ run'.byID = UserBookReads /\ run'.dates = run.dates /\ pc' = "write"
    BY <1>2, <2>0 DEF Confirms, Becomes
  <2> QED BY <1>2, <2>1, <2>2, <2>3, <2>4 DEF Confirms, Repairs, WorldSame, DateKept, Rightful, Owed
<1>3. CASE Writes
  <2>1. \A i \in Ids : reads[i] = Absent => reads'[i] = Absent
    BY <1>3, MapTypes DEF Writes, DateMap
  <2> QED BY <1>3, <2>1 DEF Writes, Repairs, Same, Becomes
<1>4. CASE Stays
  BY <1>4 DEF Stays, Repairs, WorldSame, Same, Becomes, DateKept, Rightful, Owed
<1>5. CASE User
  <2>1. \A i \in Ids : DateKept(i) => DateKept(i)' BY <1>5, UserKept
  <2>2. \A i \in Ids : run.dates[i] # Absent /\ reads[i] = Absent => reads'[i] = Absent
    <3>1. \A i \in Ids : run.dates[i] # Absent => i # next + 1
      BY MapTypes DEF New, Unmade
    <3>2. ASSUME NEW i \in Ids, NEW date \in Dates \cup {NoDate}, UserEditsDate(i, date)
          PROVE  \A j \in Ids : reads[j] = Absent => reads'[j] = Absent
      BY <3>2, MapTypes DEF UserEditsDate, SetDate, DateMap
    <3>3. ASSUME NEW i \in Ids, UserDeletesRead(i)
          PROVE  \A j \in Ids : reads[j] = Absent => reads'[j] = Absent
      BY <3>3, MapTypes DEF UserDeletesRead, SetDate, DateMap
    <3>4. ASSUME NEW isBlank \in BOOLEAN, UserStartsRead(isBlank)
          PROVE  \A j \in Ids : j # next + 1 /\ reads[j] = Absent => reads'[j] = Absent
      BY <3>4, MapTypes DEF UserStartsRead, SetDate, DateMap
    <3>5. CASE UserDeletesBook BY <3>5 DEF UserDeletesBook, Nothing
    <3>6. ASSUME NEW status \in {"reading", "finished", "dnf"}, UserSetsStatus(status)
          PROVE  \A j \in Ids : reads[j] = Absent => reads'[j] = Absent
      BY <3>6 DEF UserSetsStatus
    <3> QED BY <1>5, <3>1, <3>2, <3>3, <3>4, <3>5, <3>6 DEF User
  <2>3. run' = run /\ pc' = pc BY <1>5, UserSame
  <2> QED BY <2>1, <2>2, <2>3 DEF Repairs
<1>6. CASE Moves /\ pc' = "verify"
  BY <1>6 DEF Moves, Repairs, WorldSame, Same, Becomes
<1>7. CASE ~(Loads \/ Confirms \/ Writes \/ Stays \/ User \/ (Moves /\ pc' = "verify"))
  <2>1. pc' \notin {"confirm", "write", "verify"}
    BY <1>7 DEF Step, Turns, Moves, GivesUp, AfterRecovery, BeginsRepair, Finds, Decides,
                Closes, Inserts, Intends, Finishes, Cleans, EndsRepair, Types, Busy
  <2> QED BY <2>1 DEF Repairs
<1> QED BY <1>1, <1>2, <1>3, <1>4, <1>5, <1>6, <1>7

\* What a map says of the dates is as right as before while the history of its
\* reads stays.
LEMMA RightfulStays ==
  ASSUME NEW map, RightfulIn(map), stale \subseteq stale',
         \A i \in Ids : map[i] # Absent => history'[i] = history[i]
  PROVE  \A i \in Ids : map[i] # Absent => Rightful(i, map[i])'
BY DEF RightfulIn, Rightful, Owed

\* Every step keeps right what a repair would write.
LEMMA StepIntents ==
  ASSUME IInv, Covered, Intents, Step
  PROVE  Intents'
<1> USE DEF IInv, Loading, Handling, Deciding
<1>0. \A i \in Ids : Nothing[i] = Absent BY DEF Nothing
<1>1. ASSUME UNCHANGED history, stale \subseteq stale', NEW map, RightfulIn(map)
      PROVE  \A i \in Ids : map[i] # Absent => Rightful(i, map[i])'
  BY <1>1, RightfulStays
<1>2. RightfulIn(mem.intent) /\ RightfulIn(disk.intent) BY DEF Intents
<1>a. CASE Turns
  <2>1. ~run'.snapped /\ pc' \notin Deciding BY <1>a DEF Turns, Emptied, Becomes
  <2>2. RightfulIn(mem.intent)' /\ RightfulIn(disk.intent)'
    BY <1>0, <1>1, <1>2, <1>a DEF Turns, WorldSame, Recalls, MemSame, FileSame, Files, RightfulIn
  <2> QED BY <2>1, <2>2 DEF Intents
<1>3. ASSUME UNCHANGED history, stale \subseteq stale', MemSame \/ Forgets, FileSame
      PROVE  RightfulIn(mem.intent)' /\ RightfulIn(disk.intent)'
  BY <1>0, <1>1, <1>2, <1>3 DEF Recalls, MemSame, Forgets, FileSame, RightfulIn
<1>4. ASSUME UNCHANGED history, stale \subseteq stale', NEW map, RightfulIn(map)
      PROVE  /\ run'.dates = map => RightfulIn(run.dates)'
             /\ run'.snap = map => RightfulIn(run.snap)'
  BY <1>1, <1>4 DEF RightfulIn
<1>b. CASE Moves
  BY <1>3, <1>4, <1>b DEF Intents, Moves, WorldSame, Same, Becomes, Places
<1>c. CASE GivesUp
  <2>1. /\ UNCHANGED history /\ run'.snap = run.snap
        /\ pc' \in {"checkpoint", "guard", "reads"}
    BY <1>c DEF GivesUp, AfterRecovery, WorldSame, Same, Becomes
  <2>2. \A i \in Ids : history[i] = Absent BY <1>c DEF GivesUp, Gone
  <2>3. RightfulIn(run.snap)' BY <2>1, <2>2 DEF RightfulIn, Rightful, Owed
  <2>4. RightfulIn(mem.intent)' /\ RightfulIn(disk.intent)'
    BY <1>3, <1>c DEF GivesUp, WorldSame
  <2> QED BY <2>1, <2>3, <2>4 DEF Intents
<1>d. CASE BeginsRepair
  BY <1>3, <1>4, <1>d DEF Intents, BeginsRepair, AfterRecovery, WorldSame, Becomes, Places
<1>e. CASE Finds
  <2>1. mem.intent = Nothing => RightfulIn(reads)
    BY <1>e, AllKept DEF Finds, RightfulIn, DateKept
  <2>2. run'.snapped => run'.snap = reads BY <1>e DEF Finds, Becomes
  <2> QED BY <1>3, <1>4, <1>e, <2>1, <2>2
          DEF Intents, Finds, WorldSame, MemSame, Recalls
<1>f. CASE Decides
  <2>0. PICK map : map = Seen OBVIOUS
  <2>1. /\ UNCHANGED history /\ stale' = stale \cup Undone /\ pc = "reads"
        /\ run'.dates = map /\ ~run'.snapped
    BY <1>f, <2>0 DEF Decides, ReadsSame, Becomes
  <2>2. \A i \in Ids : map[i] # Absent => i \in stale' \/ Owed(i, map[i])
    <3>1. CASE run.snapped /\ run.back = "reads"
      BY <2>0, <2>1, <3>1 DEF Seen, Undone, Present
    <3>2. CASE run.snapped /\ run.back # "reads"
      BY <2>0, <2>1, <3>2 DEF Seen, Intents, RightfulIn, Rightful
    <3>3. CASE ~run.snapped
      <4>1. \A i \in Ids : DateKept(i) BY <2>1, AllKept DEF Places
      <4>2. \A i \in Ids : map[i] # Absent => map[i] = reads[i]
        BY <2>0, <3>3 DEF Seen, UserBookReads
      <4> QED BY <2>1, <4>1, <4>2 DEF DateKept, Rightful
    <3> QED BY <3>1, <3>2, <3>3
  <2>3. RightfulIn(run.dates)' BY <2>1, <2>2 DEF RightfulIn, Rightful, Owed
  <2>4. RightfulIn(mem.intent)' /\ RightfulIn(disk.intent)'
    BY <1>3, <1>f, <2>1 DEF Decides
  <2> QED BY <2>1, <2>3, <2>4 DEF Intents
<1>g. CASE Closes
  <2>1. PICK i \in Ids :
          /\ run.dates[i] = NoDate /\ reads[i] # Absent
          /\ reads' = [reads EXCEPT ![i] = Target] /\ blank' = blank \ {i}
          /\ \/ pc' = "checkpoint" /\ Same
             \/ /\ pc' = "intend"
                /\ Becomes(run.item, run.left, run.snapped, run.snap,
                           [run.dates EXCEPT ![i] = Target], run.back, run.todo,
                           run.byID, run.wrote)
    BY <1>g DEF Closes
  <2>2. ~run'.snapped /\ UNCHANGED <<history, stale>> /\ MemSame /\ FileSame
    BY <1>g, <2>1 DEF Closes, Places, Same, Becomes
  <2>3. pc' = "intend" => RightfulIn(run.dates)'
    <3>1. RightfulIn(run.dates) BY <1>g DEF Intents, Closes
    <3>2. i \in stale \/ history[i] \in {Absent, Free, NoDate}
      BY <2>1, <3>1 DEF RightfulIn, Rightful, Owed, NoDate, Absent
    <3>3. Rightful(i, Target) BY <3>2 DEF Rightful, Owed
    <3>4. [run.dates EXCEPT ![i] = Target] \in DateMap /\ run.dates \in DateMap
      BY MapTypes, MapTyped
    <3>5. RightfulIn([run.dates EXCEPT ![i] = Target])
      BY <3>1, <3>3, <3>4 DEF RightfulIn, DateMap
    <3> QED BY <1>4, <2>1, <2>2, <3>5 DEF Becomes
  <2> QED BY <1>3, <2>1, <2>2, <2>3 DEF Intents
<1>h. CASE Inserts
  <2>1. PICK copies \in 1..(1 + Retries), known \in BOOLEAN :
          /\ Insert(copies, known) /\ next + copies \in Ids /\ next' = next + copies
          /\ \/ pc' = "checkpoint" /\ Same
             \/ /\ pc' = "intend" /\ known
                /\ Becomes(run.item, run.left, run.snapped, run.snap,
                           [run.dates EXCEPT ![next + copies] = Target], run.back,
                           run.todo, run.byID, run.wrote)
    BY <1>h DEF Inserts
  <2>2. ~run'.snapped /\ MemSame /\ FileSame /\ stale' = stale
    BY <1>h, <2>1 DEF Inserts, Insert, Places, Same, Becomes
  <2>3. next \in Nat /\ copies \in Nat /\ copies > 0
    BY MapTypes, LimitsAssumption
  <2>4. \A i \in Ids : ~(i > next) => history'[i] = history[i]
    BY <2>1, <2>3 DEF Insert, Ids
  <2>5. RightfulIn(mem.intent)' /\ RightfulIn(disk.intent)'
    BY <1>2, <2>2, <2>4, MapsHeld, RightfulStays DEF Recalls, MemSame, FileSame, RightfulIn
  <2>6. pc' = "intend" => RightfulIn(run.dates)'
    <3>0. SUFFICES ASSUME pc' = "intend" PROVE RightfulIn(run.dates)' OBVIOUS
    <3>1. PICK map : map = run.dates OBVIOUS
    <3>2. RightfulIn(map) /\ map \in DateMap BY <1>h, <3>1, MapTypes DEF Intents, Inserts
    <3>3. \A i \in Ids : map[i] # Absent => Rightful(i, map[i])'
      BY <2>2, <2>4, <3>1, <3>2, MapsHeld, RightfulStays
    <3>4. run'.dates = [map EXCEPT ![next + copies] = Target]
      BY <2>1, <3>0, <3>1 DEF Becomes
    <3>5. history'[next + copies] = Target
      BY <2>1, <2>3 DEF Insert
    <3>6. SUFFICES ASSUME NEW i \in Ids, run'.dates[i] # Absent
                   PROVE  Rightful(i, run.dates[i])'
      BY DEF RightfulIn
    <3>7. CASE i = next + copies
      <4>1. run'.dates[i] = Target BY <3>2, <3>4, <3>7 DEF DateMap
      <4> QED BY <3>5, <3>7, <4>1 DEF Rightful, Owed
    <3>8. CASE i # next + copies
      <4>1. run'.dates[i] = map[i] BY <3>2, <3>4, <3>8 DEF DateMap
      <4> QED BY <3>3, <3>6, <3>8, <4>1 DEF Rightful, Owed
    <3> QED BY <3>7, <3>8
  <2> QED BY <2>1, <2>2, <2>5, <2>6 DEF Intents
<1>i. CASE Intends
  <2>1. RightfulIn(run.dates) BY <1>i DEF Intents, Intends
  <2> QED BY <1>1, <1>2, <1>4, <1>i, <2>1
          DEF Intents, Intends, WorldSame, Recalls, Files, Same, Becomes, Places, RightfulIn
<1>j. CASE Finishes
  BY <1>3, <1>4, <1>j DEF Intents, Finishes, Same, Becomes, Places
<1>k. CASE Cleans
  BY <1>3, <1>4, <1>k DEF Intents, Cleans, Same, Becomes, Places
<1>l. CASE Loads \/ Confirms \/ Writes
  BY <1>3, <1>4, <1>l DEF Intents, Loads, Confirms, Writes, WorldSame, Same, Becomes
<1>m. CASE EndsRepair
  <2>1. run.dates = mem.intent BY <1>m DEF EndsRepair, Places
  <2> QED BY <1>2, <1>3, <1>4, <1>m, <2>1
          DEF Intents, EndsRepair, WorldSame, Becomes, Places, Types, Busy
<1>n. CASE Stays
  BY <1>3, <1>4, <1>n DEF Intents, Stays, WorldSame, Same, Becomes, MemSame, Recalls
<1>o. CASE User
  <2>1. run' = run /\ pc' = pc /\ mem' = mem /\ disk' = disk BY <1>o, UserSame
  <2>2. RightfulIn(mem.intent)' /\ RightfulIn(disk.intent)'
    BY <1>2, <1>o, <2>1, MapsHeld, MapTypes, UserRightful DEF RightfulIn
  <2>3. RightfulIn(run.dates) => RightfulIn(run.dates)'
    BY <1>o, <2>1, MapsHeld, MapTypes, UserRightful DEF RightfulIn
  <2>4. RightfulIn(run.snap) => RightfulIn(run.snap)'
    BY <1>o, <2>1, MapsHeld, MapTypes, UserRightful DEF RightfulIn
  <2> QED BY <2>1, <2>2, <2>3, <2>4 DEF Intents
<1> QED
  BY <1>a, <1>b, <1>c, <1>d, <1>e, <1>f, <1>g, <1>h, <1>i, <1>j, <1>k, <1>l, <1>m, <1>n, <1>o
     DEF Step

\* Every step leaves every wrong date covered by the state file, and during a
\* run by the loaded state.
LEMMA StepCovered ==
  ASSUME IInv, Covered, Intents, Repairs, Step
  PROVE  Covered'
<1> USE DEF IInv, Loading, Handling, Deciding
<1>0. \A i \in Ids : Nothing[i] = Absent BY DEF Nothing
<1>1. /\ CoveredBy(disk.intent) /\ (pc # "idle" => CoveredBy(mem.intent))
      /\ RightfulIn(disk.intent) /\ RightfulIn(mem.intent)
  BY DEF Covered, DatesCovered, CoveredBy, Intents
<1>2. DatesCovered' <=> CoveredBy(disk.intent)' BY DEF DatesCovered, CoveredBy
<1>3. ASSUME FileSame, MemSame, pc # "idle", \A i \in Ids : DateKept(i) => DateKept(i)',
             UNCHANGED <<history, stale>>
      PROVE  Covered'
  BY <1>1, <1>2, <1>3 DEF Covered, CoveredBy, FileSame, MemSame, Recalls, Rightful, Owed
<1>4. ASSUME WorldSame
      PROVE  \A i \in Ids : (DateKept(i)' <=> DateKept(i)) /\ UNCHANGED <<history, stale>>
  BY <1>4 DEF WorldSame, DateKept, Rightful, Owed
<1>a. CASE Turns
  BY <1>0, <1>1, <1>2, <1>4, <1>a
     DEF Covered, Turns, Recalls, MemSame, FileSame, Files, CoveredBy, Rightful, Owed
<1>b. CASE Moves \/ BeginsRepair \/ Finds \/ Loads \/ Confirms
  <2>1. WorldSame /\ MemSame /\ FileSame /\ pc # "idle"
    BY <1>b DEF Moves, BeginsRepair, Finds, Loads, Confirms
  <2> QED BY <1>3, <1>4, <2>1 DEF WorldSame
<1>m. CASE Decides
  <2>1. /\ UNCHANGED <<reads, history>> /\ stale \subseteq stale'
        /\ MemSame /\ FileSame /\ pc # "idle"
    BY <1>m DEF Decides, ReadsSame
  <2> QED BY <1>1, <1>2, <2>1
          DEF Covered, CoveredBy, DateKept, Rightful, Owed, MemSame, Recalls, FileSame
<1>c. CASE GivesUp
  <2>1. \A i \in Ids : DateKept(i)' BY <1>4, <1>c DEF GivesUp, Gone, DateKept
  <2> QED BY <1>2, <2>1 DEF Covered, CoveredBy
<1>d. CASE Closes
  <2>1. PICK i \in Ids :
          /\ run.dates[i] = NoDate /\ reads[i] # Absent
          /\ reads' = [reads EXCEPT ![i] = Target]
    BY <1>d DEF Closes
  <2>2. RightfulIn(run.dates) BY <1>d DEF Intents, Closes
  <2>3. i \in stale \/ history[i] \in {Absent, Free, NoDate}
    BY <2>1, <2>2 DEF RightfulIn, Rightful, Owed, NoDate, Absent
  <2>4. \A j \in Ids : DateKept(j) => DateKept(j)'
    BY <1>d, <2>1, <2>3, MapTypes DEF Closes, DateKept, Rightful, Owed, DateMap
  <2> QED BY <1>3, <1>d, <2>4 DEF Closes
<1>e. CASE Inserts
  <2>1. PICK copies \in 1..(1 + Retries), known \in BOOLEAN : Insert(copies, known) /\ next + copies \in Ids
    BY <1>e DEF Inserts
  <2>2. mem.intent = Nothing /\ pc # "idle" BY <1>e DEF Inserts, Places
  <2>3. \A i \in Ids : DateKept(i) BY <2>2, AllKept
  <2>4. \A i \in Ids : DateKept(i)'
    BY <2>1, <2>3, MapTypes DEF Insert, DateKept, Rightful, Owed, DateMap
  <2> QED BY <1>2, <2>4 DEF Covered, CoveredBy
<1>f. CASE Intends
  <2>1. mem.intent = Nothing /\ pc # "idle" BY <1>f DEF Intends, Places
  <2>2. \A i \in Ids : DateKept(i) BY <2>1, AllKept
  <2> QED BY <1>2, <1>4, <1>f, <2>2 DEF Intends, Covered, CoveredBy
<1>g. CASE Finishes
  <2>0. run.dates = mem.intent /\ mem.intent = disk.intent /\ KnownBy(run.dates)
    BY <1>g DEF Finishes, Places, Known
  <2>1. PICK hit \in SUBSET Present(reads), adds \in BOOLEAN :
          reads' = [i \in Ids |-> IF i \in hit THEN Today
                                  ELSE IF adds /\ i = next + 1 THEN NoDate
                                  ELSE reads[i]]
    BY <1>g DEF Finishes, Transition
  <2>2. UNCHANGED <<history, stale>> BY <1>g DEF Finishes
  <2>3. \A i \in Ids : DateKept(i)' \/ (mem.intent[i] # Absent /\ Rightful(i, mem.intent[i]))
    <3>1. TAKE i \in Ids
    <3>2. CASE i \in hit
      <4>1. CASE mem.intent[i] = Absent
        <5>1. reads[i] # Absent BY <3>2 DEF Present
        <5>2. history[i] \in {Absent, Free}
          BY <2>0, <4>1, <5>1 DEF KnownBy
        <5> QED BY <2>2, <5>2 DEF DateKept, Rightful, Owed
      <4>2. CASE mem.intent[i] # Absent BY <1>1, <4>2 DEF RightfulIn
      <4> QED BY <4>1, <4>2
    <3>3. CASE i \notin hit /\ adds /\ i = next + 1
      <4>1. history[i] = Absent BY <3>3, MapTypes DEF New, Unmade
      <4> QED BY <2>2, <4>1 DEF DateKept, Rightful, Owed
    <3>4. CASE i \notin hit /\ ~(adds /\ i = next + 1)
      <4>1. reads'[i] = reads[i] BY <2>1, <3>4
      <4> QED BY <1>1, <1>g, <2>2, <4>1 DEF Finishes, CoveredBy, DateKept, Rightful, Owed
    <3> QED BY <3>2, <3>3, <3>4
  <2>4. mem'.intent = mem.intent /\ disk'.intent = mem.intent
    BY <1>g, <2>0 DEF Finishes, MemSame, Recalls, FileSame
  <2> QED BY <1>2, <2>2, <2>3, <2>4 DEF Covered, CoveredBy, Rightful, Owed
<1>h. CASE Cleans
  <2>1. \A i \in Ids : DateKept(i) => DateKept(i)'
    BY <1>h, MapTypes DEF Cleans, DeleteReads, DateKept, Rightful, Owed
  <2> QED BY <1>3, <1>h, <2>1 DEF Cleans
<1>i. CASE Writes
  <2>1. PICK i \in Ids :
          /\ run.todo[i] # Absent /\ reads[i] # Absent
          /\ reads' \in {reads, [reads EXCEPT ![i] = run.todo[i]]}
    BY <1>i DEF Writes
  <2>2. run.todo[i] = mem.intent[i] BY <1>i, <2>1 DEF Writes, Repairs, Places
  <2>3. Rightful(i, run.todo[i]) BY <1>1, <2>1, <2>2 DEF RightfulIn
  <2>4. \A j \in Ids : DateKept(j) => DateKept(j)'
    BY <1>i, <2>1, <2>3, MapTypes DEF Writes, DateKept, Rightful, Owed, DateMap
  <2> QED BY <1>3, <1>i, <2>4 DEF Writes
<1>j. CASE EndsRepair
  <2>1. run.dates = mem.intent /\ pc # "idle" BY <1>j DEF EndsRepair, Places
  <2>2. \A i \in Ids : DateKept(i)
    <3>1. TAKE i \in Ids
    <3>2. CASE mem.intent[i] = Absent BY <1>1, <2>1, <3>2 DEF CoveredBy
    <3>3. CASE mem.intent[i] # Absent /\ run.todo[i] = Absent
      BY <1>j, <2>1, <3>3 DEF EndsRepair, Repairs, DateKept
    <3>4. CASE mem.intent[i] # Absent /\ run.todo[i] # Absent
      <4>1. run.todo[i] = mem.intent[i] BY <1>j, <2>1, <3>4 DEF EndsRepair, Repairs
      <4>2. Rightful(i, run.todo[i]) BY <1>1, <3>4, <4>1 DEF RightfulIn
      <4>3. CASE pc = "write" /\ ToWrite = {} /\ ~run.wrote
        BY <3>4, <4>3 DEF ToWrite, Present, Repairs
      <4>4. CASE pc = "verify" /\ \A k \in Present(run.todo) : UserBookReads[k] = run.todo[k]
        <5>1. UserBookReads[i] = run.todo[i] BY <3>4, <4>4 DEF Present
        <5>2. reads[i] = run.todo[i] BY <3>4, <5>1 DEF UserBookReads
        <5> QED BY <4>2, <5>2 DEF DateKept
      <4> QED BY <1>j, <4>3, <4>4 DEF EndsRepair
    <3> QED BY <3>2, <3>3, <3>4
  <2> QED BY <1>2, <1>4, <1>j, <2>2 DEF EndsRepair, Covered, CoveredBy
<1>k. CASE Stays
  BY <1>1, <1>2, <1>4, <1>k
     DEF Stays, WorldSame, Covered, CoveredBy, MemSame, FileSame, Recalls, Rightful, Owed
<1>l. CASE User
  <2>1. run' = run /\ pc' = pc /\ mem' = mem /\ disk' = disk BY <1>l, UserSame
  <2>2. \A i \in Ids : DateKept(i) => DateKept(i)' BY <1>l, UserKept
  <2>3. RightfulIn(mem.intent)' /\ RightfulIn(disk.intent)'
    BY <1>1, <1>l, <2>1, MapsHeld, MapTypes, UserRightful DEF RightfulIn
  <2> QED BY <1>1, <1>2, <2>1, <2>2, <2>3 DEF Covered, CoveredBy, RightfulIn
<1> QED
  BY <1>a, <1>b, <1>c, <1>d, <1>e, <1>f, <1>g, <1>h, <1>i, <1>j, <1>k, <1>l, <1>m
     DEF Step

\* The dates are safe at first.
LEMMA InitSafe == Init => Safe
<1> SUFFICES ASSUME Init PROVE Safe OBVIOUS
<1>0. \A i \in Ids : Nothing[i] = Absent BY DEF Nothing
<1>1. /\ pc = "idle" /\ run = NoRun /\ history = reads /\ disk = EmptyState
      /\ mem.intent = Nothing
  BY DEF Init
<1>2. Covered BY <1>1 DEF Covered, DatesCovered, DateKept, Rightful, Owed
<1>3. Intents BY <1>0, <1>1 DEF Intents, RightfulIn, EmptyState, Deciding, NoRun
<1>4. Repairs BY <1>1 DEF Repairs, Loading
<1> QED BY <1>2, <1>3, <1>4 DEF Safe

\* The dates stay safe.
LEMMA SafeHolds == Spec => [](IInv /\ Safe)
<1>1. IInv /\ Safe /\ [Next]_vars => IInv' /\ Safe'
  BY StepIInv, Effects, StepRepairs, StepIntents, StepCovered DEF IInv, Safe
<1> QED BY InitIInv, InitSafe, <1>1, PTL DEF Spec

\* README.md:475, "preserve historical finish dates and reread history": after
\* every stop and failure a wrong date is covered by the state file, but for a
\* read whose repair a run undid with reads from before it.
THEOREM DatesAreCovered == Spec => []DatesCovered
<1>1. Safe => DatesCovered BY DEF Safe, Covered
<1> QED BY SafeHolds, <1>1, PTL

\* Only a success takes a checkpoint, with the dates repaired.
LEMMA DoneGrows ==
  ASSUME Types, Places, [Next]_vars, pc # "idle", ~(mem'.done \subseteq mem.done)
  PROVE  pc' # "idle" /\ mem'.intent = Nothing
<1> USE DEF Types, TypeOK
<1>1. ASSUME mem' = mem PROVE FALSE BY <1>1
<1>2. ASSUME EndRun PROVE FALSE BY <1>2 DEF EndRun
<1>3. ASSUME mem' = Cleared(mem) PROVE FALSE
  BY <1>3 DEF Cleared
<1>4. ASSUME SaveOK(mem) PROVE FALSE BY <1>4 DEF SaveOK
<1>5. ASSUME SaveOK(Intended) \/ SaveFails(Intended) PROVE FALSE
  BY <1>5 DEF SaveOK, SaveFails, Intended
<1>6. ASSUME Succeed, mem.intent = Nothing PROVE pc' # "idle" /\ mem'.intent = Nothing
  BY <1>6 DEF Succeed, Checkpointed, Goto
<1>7. CASE BeginRun \/ (\E item \in Items : NextItem(item) \/ MissItem(item))
            \/ FinishRun \/ Checkpoint \/ CheckpointFails \/ Stop
  BY <1>1, <1>2, <1>4, <1>7 DEF BeginRun, NextItem, MissItem, FinishRun, Checkpoint,
                                CheckpointFails, Stop
<1>8. CASE RequestFails \/ MutationFails \/ Recover \/ SkipCurrent \/ PassGuard
            \/ FindUserBook \/ FindAnother
  BY <1>1, <1>3, <1>8 DEF RequestFails, MutationFails, Recover, RecoverGone,
     RecoverDeferred, RecoverStarts, SkipCurrent, PassGuard, FindUserBook, FindAnother
<1>9. CASE ReadsLoaded
  <2>1. mem.intent = Nothing BY <1>9 DEF ReadsLoaded, Places
  <2> QED BY <1>1, <1>6, <1>9, <2>1 DEF ReadsLoaded
<1>10. CASE CleanReads
  <2>1. mem.intent = Nothing BY <1>10 DEF CleanReads, Places
  <2> QED BY <1>6, <1>10, <2>1 DEF CleanReads
<1>11. CASE HandleGone \/ HandleDNF \/ HandleStarts \/ CloseRead \/ InsertRead \/ Intend
             \/ IntendFails \/ SetFinished
  BY <1>1, <1>3, <1>5, <1>11 DEF HandleGone, HandleDNF, HandleStarts, CloseRead, InsertRead,
     Intend, IntendFails, SetFinished
<1>12. CASE Restore
  BY <1>1, <1>3, <1>12 DEF Restore, LoadReads, ConfirmMissing, WriteDate, NothingToWrite,
     WritesDone, Verify, Restored
<1>13. CASE User
  BY <1>1, <1>13, UserSame
<1>14. CASE UNCHANGED vars BY <1>1, <1>14 DEF vars
<1> QED
  BY <1>7, <1>8, <1>9, <1>10, <1>11, <1>12, <1>13, <1>14
     DEF Next, Sync, HandleFinishedBook

\* An item gets its FINISHED checkpoint only when every date is right, or its
\* repair was undone: the checkpoint stops the incremental sync from looking at
\* the book again.
THEOREM CheckpointsAfterRepair == Spec => CheckpointAfterRepair
<1>1. ASSUME IInv, Safe, [Next]_vars, pc # "idle" /\ ~(mem'.done \subseteq mem.done)
      PROVE  \A i \in Ids : DateKept(i)'
  <2>1. Covered'
    BY <1>1, Effects, StepCovered DEF IInv, Safe
  <2>2. pc' # "idle" /\ mem'.intent = Nothing BY <1>1, DoneGrows DEF IInv
  <2> QED BY <2>1, <2>2 DEF Covered, CoveredBy, Nothing
<1>2. IInv /\ Safe /\ [Next]_vars =>
        [(pc # "idle" /\ ~(mem'.done \subseteq mem.done))
           => \A i \in Ids : DateKept(i)']_vars
  BY <1>1
<1> QED BY SafeHolds, <1>2, PTL DEF Spec, CheckpointAfterRepair

=============================================================================
