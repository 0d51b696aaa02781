----------------------------- MODULE RunLedger -----------------------------
(***************************************************************************)
(* What the durable run history of one deployment promises, whatever the   *)
(* goroutines, cancellations and restarts above it do.  Per profile the    *)
(* database keeps the generation of the newest accepted attempt, one       *)
(* report per retained run, the dry-run provenance of each run, and the    *)
(* run that last advanced last_successful_at.                              *)
(*                                                                         *)
(* The rules are those the comments of internal/database/repository.go     *)
(* state for AcceptSyncRun, UpsertSyncRunReportContext,                    *)
(* UpsertSyncRunCheckpointContext and ReconcileInterruptedSyncRunReports.  *)
(* RunLifecycle is shown to implement this module.                         *)
(***************************************************************************)
EXTENDS Naturals

CONSTANTS Profiles,   \* sync profiles
          MaxRuns     \* bound on the generations of one profile

VARIABLES reports,    \* profile -> generation -> phase of its report row
          dry,        \* profile -> generation -> accepted as a dry run
          attempted,  \* profile -> LastAttemptedGeneration, 0 when none
          succeeded   \* profile -> run behind LastSuccessfulAt, 0 when none

ledgerVars == <<reports, dry, attempted, succeeded>>

Gens      == 1..MaxRuns
Pending   == {"queued", "running", "finalizing"}
Terminal  == {"completed", "canceled", "failed"}
RowStates == Pending \cup Terminal \cup {"absent"}

LedgerInit ==
  /\ reports   = [p \in Profiles |-> [g \in Gens |-> "absent"]]
  /\ dry       = [p \in Profiles |-> [g \in Gens |-> FALSE]]
  /\ attempted = [p \in Profiles |-> 0]
  /\ succeeded = [p \in Profiles |-> 0]

\* Rows of other profiles never change, and the only way another row of the
\* same profile changes is to be evicted: retention of old terminal reports,
\* or removal of a queued report that a later acceptance superseded.
OthersKeptOrEvicted(p, g) ==
  \A q \in Profiles, h \in Gens :
    (q # p \/ h # g) => \/ reports'[q][h] = reports[q][h]
                        \/ /\ q = p
                           /\ reports'[q][h] = "absent"
                           /\ reports[q][h] \in Terminal \cup {"queued"}

\* A start is accepted: it gets a generation above every earlier one.
Accept(p) ==
  \E g \in Gens :
    /\ g > attempted[p]
    /\ \A h \in Gens : reports[p][h] # "absent" => h < g
    /\ reports'[p][g] = "queued"
    /\ OthersKeptOrEvicted(p, g)
    /\ attempted' = [attempted EXCEPT ![p] = g]
    /\ \E d \in BOOLEAN : dry' = [dry EXCEPT ![p][g] = d]
    /\ UNCHANGED succeeded

\* A worker checkpoints the newest run while it is still pending.
Advance(p) ==
  LET g == attempted[p] IN
    /\ g \in Gens
    /\ reports[p][g] \in {"queued", "running"}
    /\ \E phase \in {"running", "finalizing"} :
         reports' = [reports EXCEPT ![p][g] = phase]
    /\ UNCHANGED <<dry, attempted, succeeded>>

\* The newest run ends, once.  Only a completed run that was not a dry run
\* moves last_successful_at, and nothing else does.
Settle(p) ==
  LET g == attempted[p] IN
    /\ g \in Gens
    /\ reports[p][g] \in Pending
    /\ reports'[p][g] \in Terminal
    /\ OthersKeptOrEvicted(p, g)
    /\ succeeded' = IF reports'[p][g] = "completed" /\ ~dry[p][g]
                      THEN [succeeded EXCEPT ![p] = g]
                      ELSE succeeded
    /\ UNCHANGED <<dry, attempted>>

\* A restart turns every report the dead process left pending into a failure.
Reconcile ==
  /\ \A p \in Profiles, g \in Gens :
       IF reports[p][g] \in Pending
         THEN reports'[p][g] \in {"failed", "absent"}
         ELSE reports'[p][g] = reports[p][g]
              \/ /\ reports[p][g] \in Terminal
                 /\ reports'[p][g] = "absent"
  /\ UNCHANGED <<dry, attempted, succeeded>>

LedgerNext ==
  \/ \E p \in Profiles : Accept(p) \/ Advance(p) \/ Settle(p)
  \/ Reconcile

LedgerSpec == LedgerInit /\ [][LedgerNext]_ledgerVars

\* last_successful_at belongs to a real run that completed, and to the newest
\* of those whose report is still there.
SuccessIsReal ==
  \A p \in Profiles :
    /\ succeeded[p] # 0 => /\ ~dry[p][succeeded[p]]
                           /\ reports[p][succeeded[p]] \in {"completed", "absent"}
    /\ \A g \in Gens : reports[p][g] = "completed" /\ ~dry[p][g]
                         => g <= succeeded[p]
=============================================================================
