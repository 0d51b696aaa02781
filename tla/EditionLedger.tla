--------------------------- MODULE EditionLedger ---------------------------
(***************************************************************************)
(* What the journal of edition requests promises for one profile and one   *)
(* Audiobookshelf item: per run, at most one catalogue write, and never a  *)
(* write that the journal calls open.  docs/openapi.yaml says it of POST   *)
(* edition-drafts/create: "The server durably records the attempt before a *)
(* catalogue write ... Unresolved or final failed attempts block another   *)
(* create for the same run and item; a definitive not_submitted result     *)
(* allows retry."  EditionCreate is shown to implement this module.        *)
(***************************************************************************)
EXTENDS Naturals

CONSTANT Runs         \* the sync runs whose records a request can name

VARIABLES phase,      \* run -> what the journal and the match say of it
          writes      \* run -> writes sent since its last attempt was settled

ledgerVars == <<phase, writes>>

\* absent: the run is not (or no longer) retained.  matched: the item has a
\* saved match, whatever the run's journal says.
Phases == {"absent", "open", "pending", "failed", "matched"}

LedgerInit ==
  /\ phase  = [r \in Runs |-> "absent"]
  /\ writes = [r \in Runs |-> 0]

\* A finished run offers its record; old runs leave the retained history.
Publish(r) ==
  /\ phase[r] = "absent"
  /\ \E gone \in SUBSET (Runs \ {r}), new \in {"open", "matched"} :
       /\ phase'  = [s \in Runs |-> IF s \in gone THEN "absent"
                                    ELSE IF s = r THEN new ELSE phase[s]]
       /\ writes' = [s \in Runs |-> IF s \in gone \cup {r} THEN 0 ELSE writes[s]]

\* The attempt is made durable before anything is sent.
Submit(r) ==
  /\ phase[r] = "open"
  /\ phase' = [phase EXCEPT ![r] = "pending"]
  /\ UNCHANGED writes

\* The one write of the attempt.
Write(r) ==
  /\ phase[r] = "pending"
  /\ writes[r] = 0
  /\ writes' = [writes EXCEPT ![r] = 1]
  /\ UNCHANGED phase

\* Nothing took effect: the request may be repeated.
Withdraw(r) ==
  /\ phase[r] = "pending"
  /\ writes[r] = 0
  /\ phase' = [phase EXCEPT ![r] = "open"]
  /\ UNCHANGED writes

\* Hardcover refused for good: the run's record stays blocked.
Fail(r) ==
  /\ phase[r] \in {"open", "pending"}
  /\ phase' = [phase EXCEPT ![r] = "failed"]
  /\ UNCHANGED writes

\* The item gets a match, from a request or from a sync.
Match ==
  /\ phase' = [r \in Runs |-> IF phase[r] = "absent" THEN "absent" ELSE "matched"]
  /\ UNCHANGED writes

\* The match is forgotten or found dead: earlier writes are settled.
Unmatch ==
  /\ \A r \in Runs : phase[r] \in {"absent", "matched"}
  /\ phase' \in [Runs -> Phases \ {"matched"}]
  /\ \A r \in Runs : phase'[r] = "absent" <=> phase[r] = "absent"
  /\ writes' = [r \in Runs |-> 0]

LedgerNext ==
  \/ Match \/ Unmatch
  \/ \E r \in Runs : Publish(r) \/ Submit(r) \/ Write(r) \/ Withdraw(r) \/ Fail(r)

LedgerSpec == LedgerInit /\ [][LedgerNext]_ledgerVars

\* No run is written twice, and what the journal offers for a first or a
\* repeated create has not been written.  (docs/openapi.yaml, edition create)
OpenIsUnwritten == \A r \in Runs : /\ writes[r] \in {0, 1}
                                   /\ phase[r] = "open" => writes[r] = 0
=============================================================================
