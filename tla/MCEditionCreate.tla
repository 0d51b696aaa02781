-------------------------- MODULE MCEditionCreate --------------------------
(* The instances of EditionCreate that TLC checks.                          *)
EXTENDS EditionCreate
=============================================================================
