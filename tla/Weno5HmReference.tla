--------------------------- MODULE Weno5HmReference ---------------------------
(***************************************************************************)
(* Reference definitions the WENO5-HM coefficients are checked against,    *)
(* computed from polynomial reconstruction theory rather than from the     *)
(* header's tables, and the properties that compare them.  The folds make  *)
(* this module one for TLC only.                                           *)
(*                                                                         *)
(* Cell averages u_0 .. u_{m-1} on unit cells [i, i+1] have the primitive  *)
(* P(i) = u_0 + ... + u_{i-1} at the cell edges.  The polynomial whose     *)
(* cell averages they are is the derivative of the degree-m interpolant    *)
(* of P, so its value at edge f is the derivative of that interpolant at   *)
(* f: sum_i P(i) * L_i'(f) over the Lagrange basis L_i.  Every L_i'(f) is  *)
(* a multiple of 1/m!, so m! times the face value is an integer.           *)
(***************************************************************************)
EXTENDS Weno5Hm, FiniteSetsExt

Prod(F(_), S) == MapThenFoldSet(LAMBDA x, y : x * y, 1, F, LAMBDA s : CHOOSE x \in s : TRUE, S)

Factorial(m) == Prod(LAMBDA i : i, 1 .. m)

\* m! * L_i'(f) for the interpolation nodes 0 .. m.
LagrangeSlope(m, i, f) ==
    IF i = f
    THEN MapThenSumSet(LAMBDA l : Factorial(m) \div (f - l), (0 .. m) \ {f})
    ELSE (Factorial(m) * Prod(LAMBDA l : f - l, (0 .. m) \ {i, f}))
             \div Prod(LAMBDA l : i - l, (0 .. m) \ {i})

\* m! times the value at edge f of the polynomial with cell averages u.
FaceValue(u, m, f) ==
    MapThenSumSet(LAMBDA i : LagrangeSlope(m, i, f)
                               * MapThenSumSet(LAMBDA l : u[l], 0 .. i - 1),
                  0 .. m)

\* The cells of sub-stencil k, and the five cells of the whole stencil, as
\* averages u_0, u_1, ...; the face is the right edge of cell v[3].
SubStencil(v, k) == [l \in 0 .. 2 |-> v[k + l]]
FullStencil(v) == [l \in 0 .. 4 |-> v[l + 1]]

-----------------------------------------------------------------------------

\* Every candidate of the call is the face value of the quadratic that has
\* its sub-stencil's cell averages (coef_stencils_ against the polynomial).
CandidatesExact ==
    \A k \in 1 .. 3 :
        Factorial(3) * Candidate(Selected, k)
            = StencilsDen * FaceValue(SubStencil(Selected, k), 3, 4 - k)

\* With the optimal weights coef_weights_, the blend of the candidates is
\* the face value of the quartic with the five cell averages: the scheme is
\* fifth order in smooth regions (spec.md 4.2 step 3).
OptimalBlendFifthOrder ==
    Factorial(5) * Sum3([k \in 1 .. 3 |-> coef_weights_[k] * Candidate(Selected, k)])
        = WeightsDen * StencilsDen * FaceValue(FullStencil(Selected), 5, 3)

\* Discontinuity robustness as spec.md 8 states it: for a window
\* [a, a, a, a, b, b] with a < b, reconstructed from the cell left of the
\* face, the result lies in [a, b].
StepWithinRange ==
    StepWindow => /\ array[0] * result.den <= result.num
                  /\ result.num <= array[4] * result.den

=============================================================================
