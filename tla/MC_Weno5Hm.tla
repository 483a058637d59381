---------------------------- MODULE MC_Weno5Hm ----------------------------
(* Model-checking instance of the WENO5-HM stencil: windows over the cell  *)
(* values {0, 1} and penalty factors {1, 2}.  The exactness properties are *)
(* linear in the window and the unit windows lie in {0,1}^6; the quadratic *)
(* indicator identity follows by polarization from the windows e_i and     *)
(* e_i + e_j, which lie there too.  Every call may follow every call, so    *)
(* the transitions are the square of the states.                           *)
EXTENDS Weno5HmReference

MCValues == {0, 1}
MCPenalties == {1, 2}

=============================================================================
