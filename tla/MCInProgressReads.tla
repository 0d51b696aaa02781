------------------------- MODULE MCInProgressReads -------------------------
(***************************************************************************)
(* Instances of InProgressReads for TLC.                                   *)
(***************************************************************************)
EXTENDS InProgressReads, TLC

Setting(incremental, early, preserveDNF) ==
  [incremental |-> incremental, early |-> early, preserveDNF |-> preserveDNF]

\* The defaults, with a saved match, and a full sync of every book.
MCConfigs == {Setting(TRUE, TRUE, TRUE), Setting(FALSE, FALSE, FALSE)}

\* Less than a percent of the book, half of it, and 40 seconds further on.
MCPositions == {8, 500, 502}

\* Less than a percent of the book, and beyond.
MCFirstMinutes == {8, 500}
=============================================================================
