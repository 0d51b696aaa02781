--------------------------- MODULE MCUserBooks ---------------------------
(***************************************************************************)
(* Instances of UserBooks for TLC: two editions of one book, and one of    *)
(* another.                                                                *)
(***************************************************************************)
EXTENDS UserBooks, TLC

CONSTANTS e1, e2, e3, b1, b2, i1, i2, i3, u1, u2, u3, u4

MCEditions == {e1, e2, e3}
MCBookOf   == (e1 :> b1) @@ (e2 :> b1) @@ (e3 :> b2)
MCItems    == {i1, i2, i3}
MCRuns     == {{"dry"}, {"combined"}}
MCPlain    == {{}}
MCRows     == {u1, u2, u3, u4}
MCSwaps    == Permutations(MCItems) \cup Permutations(MCRows)
=============================================================================
