-------------------------------- MODULE MCXtIde --------------------------------
(* Small instances of XtIde: one unit with an LBA28 capacity, and such a     *)
(* master with a smaller, CHS-only slave.                                    *)
EXTENDS XtIde, TLC

CONSTANTS s1, s2, v1, v2

OneCapacity  == 0 :> 3
OneUnitTotal == 0 :> 3
OneReach     == 0 :> 4

TwoCapacity  == 0 :> 2 @@ 1 :> 1
TwoUnitTotal == 0 :> 2 @@ 1 :> 0
TwoReach     == 0 :> 3 @@ 1 :> 2

Symmetry == Permutations(Versions) \cup Permutations(Srbs)
=============================================================================
