-------------------------- MODULE MC_Weno5HmStep --------------------------
(* Windows of the two values of the step example of spec.md 8.             *)
EXTENDS Weno5HmReference

MCValues == {1, 5}
MCPenalties == 1 .. 3

=============================================================================
