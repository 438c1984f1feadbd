---------------------------- MODULE MCPublication ----------------------------
(***************************************************************************)
(* Small instances of Publication for TLC.                                 *)
(***************************************************************************)
EXTENDS Publication, TLC

CONSTANTS s1, s2,   \* sources with a run in flight
          d1, d2,   \* departments
          u1, u2,   \* users
          x, y      \* contents of a department row

TwoSources == {s1, s2}
TwoDepartments == {d1, d2}
TwoUsers == {u1, u2}
TwoNames == {x, y}

Symmetry ==
    Permutations(TwoSources) \cup Permutations(TwoDepartments)
    \cup Permutations(TwoUsers) \cup Permutations(TwoNames)
=============================================================================
