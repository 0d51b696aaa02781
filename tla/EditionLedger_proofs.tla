------------------------ MODULE EditionLedger_proofs ------------------------
(* Proofs about the promise of the edition journal, for any set of runs.    *)
EXTENDS EditionLedger, TLAPS

\* The inductive invariant: the types, and the promise itself.
LedgerInv ==
  /\ phase \in [Runs -> Phases]
  /\ writes \in [Runs -> {0, 1}]
  /\ OpenIsUnwritten

\* Initially nothing is retained and nothing is written.
LEMMA LedgerInitial == LedgerInit => LedgerInv
BY DEF LedgerInit, LedgerInv, OpenIsUnwritten, Phases

\* Every step of the ledger keeps the invariant: a run becomes open only from
\* a state in which it is unwritten, or by forgetting that it was written.
LEMMA LedgerStep == LedgerInv /\ [LedgerNext]_ledgerVars => LedgerInv'
<1> SUFFICES ASSUME LedgerInv, [LedgerNext]_ledgerVars PROVE LedgerInv'
  OBVIOUS
<1> USE DEF LedgerInv, OpenIsUnwritten, Phases
<1>1. CASE Match
  BY <1>1 DEF Match
<1>2. CASE Unmatch
  BY <1>2 DEF Unmatch
<1>3. ASSUME NEW r \in Runs, Publish(r) PROVE LedgerInv'
  <2> PICK gone \in SUBSET (Runs \ {r}), new \in {"open", "matched"} :
         /\ phase'  = [s \in Runs |-> IF s \in gone THEN "absent"
                                      ELSE IF s = r THEN new ELSE phase[s]]
         /\ writes' = [s \in Runs |-> IF s \in gone \cup {r} THEN 0 ELSE writes[s]]
    BY <1>3 DEF Publish
  <2> QED OBVIOUS
<1>4. ASSUME NEW r \in Runs, Submit(r) PROVE LedgerInv'
  BY <1>4 DEF Submit
<1>5. ASSUME NEW r \in Runs, Write(r) PROVE LedgerInv'
  BY <1>5 DEF Write
<1>6. ASSUME NEW r \in Runs, Withdraw(r) PROVE LedgerInv'
  BY <1>6 DEF Withdraw
<1>7. ASSUME NEW r \in Runs, Fail(r) PROVE LedgerInv'
  BY <1>7 DEF Fail
<1>8. CASE UNCHANGED ledgerVars
  BY <1>8 DEF ledgerVars
<1> QED
  BY <1>1, <1>2, <1>3, <1>4, <1>5, <1>6, <1>7, <1>8 DEF LedgerNext

\* No run is ever written twice, and no run on offer has been written, for
\* every number of runs and every order of attempts, matches and evictions.
THEOREM LedgerOpenIsUnwritten == LedgerSpec => []OpenIsUnwritten
<1>1. LedgerInv => OpenIsUnwritten
  BY DEF LedgerInv
<1> QED
  BY LedgerInitial, LedgerStep, <1>1, PTL DEF LedgerSpec
=============================================================================
