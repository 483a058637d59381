------------------------------ MODULE Weno5Hm ------------------------------
(***************************************************************************)
(* The calls of the WENO5-HM spatial reconstruction stencil of ALPACA      *)
(* (src/src/stencils/spatial_reconstruction_stencils/weno5_hm.h) behind    *)
(* the Stencil contract (stencils/stencil.h, not under src/).              *)
(*                                                                         *)
(* The header fixes the data of the scheme (module Weno5HmScheme).  The    *)
(* body of ApplyImplementation is not in the repository's src/; its steps  *)
(* (sub-stencil selection, indicators, weights, normalisation, blend)      *)
(* follow spec.md 4.2.  The "HM" weight mapping and its regularisation    *)
(* constant are not in the repository either, and spec.md 4.2 step 3 only *)
(* states their limits, so a call may use any positive penalty factors:    *)
(* the model's raw weights are the optimal weights times any factors of   *)
(* Penalties.                                                              *)
(*                                                                         *)
(* The state is the last call a caller (the flux computation) made:        *)
(* the window, the evaluation properties, the raw nonlinear weights and    *)
(* the reconstructed value.                                                *)
(***************************************************************************)
EXTENDS Weno5HmScheme

CONSTANT Penalties  \* penalty factors the weight formula may produce

ASSUME PenaltiesAssumption == Penalties \subseteq Nat \ {0} /\ Penalties # {}

VARIABLES
    array,      \* the window passed to Apply, indexed 0..stencil_size_-1
    ep,         \* the evaluation properties of the call
    alpha,      \* the raw (unnormalised) nonlinear weights of the call
    result      \* the reconstructed value, a fraction [num, den]

vars == <<array, ep, alpha, result>>

-----------------------------------------------------------------------------
(* The weights and the blend.                                              *)

\* Penalty factors g of the weight formula: any positive factor for each
\* sub-stencil, since the formula is not in src/.
PenaltyFactors == [1 .. 3 -> Penalties]

\* Raw nonlinear weights: the optimal weight times the penalty factor.
RawWeights(g) == [k \in 1 .. 3 |-> coef_weights_[k] * g[k]]

\* Normalise the weights by their sum and blend the candidates.
Blend(v, w) ==
    [num |-> Sum3([k \in 1 .. 3 |-> w[k] * Candidate(v, k)]),
     den |-> StencilsDen * Sum3(w)]

-----------------------------------------------------------------------------
(* The caller's calls of Apply.                                            *)

Init ==
    \E a \in Windows, e \in EvaluationProperties :
        LET v == StencilValues(a, e)
        IN  \E g \in PenaltyFactors :
                /\ array = a
                /\ ep = e
                /\ alpha = RawWeights(g)
                /\ result = Blend(v, RawWeights(g))

\* Apply(array, evaluation_properties, cell_size) -> ApplyImplementation:
\* select the five values, compute the indicators, the weights, and blend.
\* cell_size is unused by this stencil.
Apply ==
    \E a \in Windows, e \in EvaluationProperties :
        LET v == StencilValues(a, e)
        IN  \E g \in PenaltyFactors :
                /\ array' = a
                /\ ep' = e
                /\ alpha' = RawWeights(g)
                /\ result' = Blend(v, RawWeights(g))

Next == Apply

Spec == Init /\ [][Next]_vars

-----------------------------------------------------------------------------
(* Properties.                                                             *)

\* Type invariant of the caller's view of a call.
TypeOK ==
    /\ array \in Windows
    /\ ep \in EvaluationProperties
    /\ alpha \in [1 .. 3 -> Nat \ {0}]
    /\ result \in [num : Int, den : Nat \ {0}]

\* Constant-field exactness (spec.md 8): when every cell of the window
\* holds the same value c, Apply returns exactly c, for either orientation
\* and whatever nonlinear weights the indicators produce.
ConstantFieldExact ==
    (\A i \in DOMAIN array : array[i] = array[0])
        => result.num = array[0] * result.den

Selected == StencilValues(array, ep)

\* Twelve times the smoothness indicator of Jiang and Shu for the quadratic
\* p(x) = a0 + a1 x + a2 x^2 whose averages on cells o, o+1, o+2 (the target
\* cell is 0) are u: the integral over the target cell of p'^2 + p''^2,
\* which is a1^2 + 13/3 a2^2, with 2 a2 = u_o - 2 u_{o+1} + u_{o+2} and
\* 2 a1 = 2 (u_{o+1} - u_o) - 2 a2 (2 o + 1).
IndicatorOfQuadratic(u0, u1, u2, o) ==
    LET A2 == u0 - 2 * u1 + u2
        A1 == 2 * (u1 - u0) - A2 * (2 * o + 1)
    IN  3 * (A1 * A1) + 13 * (A2 * A2)

\* Every smoothness indicator of the call is the Jiang-Shu indicator of its
\* sub-stencil's quadratic (coef_smoothness_ and coef_smoothness_diff_
\* against the definition).
IndicatorsExact ==
    \A k \in 1 .. 3 :
        Smoothness(Selected, k)
            = IndicatorOfQuadratic(Selected[k], Selected[k + 1], Selected[k + 2], k - 3)

\* Reflection (spec.md 8): the mirrored window read from the other side of
\* the face gives the stencil the same five values, so the scheme returns
\* the mirror-consistent result.
MirrorSymmetry ==
    StencilValues(Mirror(array), OtherSide(ep)) = Selected

\* spec.md 8's discontinuity example: a window [a, a, a, a, b, b] with
\* a < b, reconstructed from the cell left of the face.
StepWindow ==
    /\ \A i \in 0 .. 3 : array[i] = array[0]
    /\ array[4] = array[5]
    /\ array[0] < array[4]
    /\ ep = <<1, 0>>

=============================================================================
