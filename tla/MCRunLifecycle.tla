-------------------------- MODULE MCRunLifecycle --------------------------
(***************************************************************************)
(* Instances of RunLifecycle for TLC.  One profile is enough for the       *)
(* protocol of a profile, which shares nothing but Shutdown with others;   *)
(* the theorems of RunLifecycle_proofs hold for any set of profiles.       *)
(***************************************************************************)
EXTENDS RunLifecycle, TLC
=============================================================================
