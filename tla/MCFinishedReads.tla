-------------------------- MODULE MCFinishedReads --------------------------
(***************************************************************************)
(* Instances of FinishedReads for TLC.                                     *)
(***************************************************************************)
EXTENDS FinishedReads, TLC

CONSTANTS a, b

\* One item whose reads come with the user book and are changed by the user,
\* two items whose reads are asked for, under faults or under a change by the
\* user, and two items with reads that come along and get stale.
MCItems == {a, b}
MCStaleSetups == {[items |-> {a, b}, combined |-> TRUE, faults |-> 1, edits |-> 0]}
MCSetups == MCStaleSetups \cup
            {[items |-> {a}, combined |-> TRUE, faults |-> 1, edits |-> 1],
             [items |-> {a, b}, combined |-> FALSE, faults |-> 2, edits |-> 0],
             [items |-> {a, b}, combined |-> FALSE, faults |-> 0, edits |-> 1]}

MCDates == {"old", "target", "today"}
=============================================================================
