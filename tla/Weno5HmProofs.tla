---------------------------- MODULE Weno5HmProofs ----------------------------
(***************************************************************************)
(* Proofs about the WENO5-HM stencil for every set of window values and    *)
(* every set of penalty factors: the type invariant, and constant-field    *)
(* exactness for windows of any integer value, not only the three values   *)
(* the model checker enumerates.                                           *)
(***************************************************************************)
EXTENDS Weno5Hm, Weno5HmSchemeProofs, TLAPS

-----------------------------------------------------------------------------
(* Lemmas about the operators of the reconstruction.                       *)

\* The raw weights are positive integers.
LEMMA RawWeightsType ==
    ASSUME PenaltiesAssumption, NEW g \in [1 .. 3 -> Penalties]
    PROVE  RawWeights(g) \in [1 .. 3 -> Nat \ {0}]
<1>1. \A k \in 1 .. 3 : g[k] \in Nat \ {0}
  BY PenaltiesAssumption
<1>. QED  BY <1>1 DEF RawWeights, coef_weights_

\* The blend of integer values with positive weights is a fraction with a
\* positive denominator.
LEMMA BlendType ==
    ASSUME NEW v \in [1 .. 5 -> Int], NEW w \in [1 .. 3 -> Nat \ {0}]
    PROVE  Blend(v, w) \in [num : Int, den : Nat \ {0}]
<1>1. \A k \in 1 .. 3 : Candidate(v, k) \in Int
  BY DEF Candidate, Dot, coef_stencils_
<1>2. Sum3([k \in 1 .. 3 |-> w[k] * Candidate(v, k)]) \in Int
  BY <1>1 DEF Sum3
<1>3. StencilsDen * Sum3(w) \in Nat \ {0}
  BY DEF Sum3, StencilsDen
<1>. QED  BY <1>2, <1>3 DEF Blend

\* Normalised weights of any sum blend equal candidates into that value.
LEMMA BlendOfConstant ==
    ASSUME NEW c \in Int, NEW w \in [1 .. 3 -> Int]
    PROVE  Blend([j \in 1 .. 5 |-> c], w).num = c * Blend([j \in 1 .. 5 |-> c], w).den
<1>1. \A k \in 1 .. 3 : w[k] * Candidate([j \in 1 .. 5 |-> c], k) = w[k] * (StencilsDen * c)
  BY CandidateOfConstant
<1>2. Sum3([k \in 1 .. 3 |-> w[k] * (StencilsDen * c)]) = c * (StencilsDen * Sum3(w))
  BY DEF Sum3, StencilsDen
<1>. QED  BY <1>1, <1>2 DEF Blend, Sum3

-----------------------------------------------------------------------------
(* The invariants of the specification.                                    *)

\* The state is the outcome of one call: the result is the blend of the
\* five values the call read, with the call's raw weights.
ResultOfCall == result = Blend(StencilValues(array, ep), alpha)

IInv == TypeOK /\ ResultOfCall

LEMMA InitIInv == Init => IInv
<1>. SUFFICES ASSUME Init PROVE IInv
  OBVIOUS
<1>1. PICK a \in Windows, e \in EvaluationProperties :
        \E g \in PenaltyFactors :
            /\ array = a
            /\ ep = e
            /\ alpha = RawWeights(g)
            /\ result = Blend(StencilValues(a, e), RawWeights(g))
  BY DEF Init
<1>2. PICK g \in PenaltyFactors :
            /\ array = a
            /\ ep = e
            /\ alpha = RawWeights(g)
            /\ result = Blend(StencilValues(a, e), RawWeights(g))
  BY <1>1
<1>3. g \in [1 .. 3 -> Penalties]
  BY DEF PenaltyFactors
<1>4. RawWeights(g) \in [1 .. 3 -> Nat \ {0}]
  BY <1>3, RawWeightsType, PenaltiesAssumption
<1>5. Blend(StencilValues(a, e), RawWeights(g)) \in [num : Int, den : Nat \ {0}]
  BY <1>4, StencilValuesType, ValuesAssumption, BlendType
<1>. QED  BY <1>2, <1>4, <1>5 DEF IInv, TypeOK, ResultOfCall

LEMMA NextIInv == IInv /\ [Next]_vars => IInv'
<1>. SUFFICES ASSUME IInv, [Next]_vars PROVE IInv'
  OBVIOUS
<1>1. CASE Apply
  <2>1. PICK a \in Windows, e \in EvaluationProperties :
          \E g \in PenaltyFactors :
              /\ array' = a
              /\ ep' = e
              /\ alpha' = RawWeights(g)
              /\ result' = Blend(StencilValues(a, e), RawWeights(g))
    BY <1>1 DEF Apply
  <2>2. PICK g \in PenaltyFactors :
              /\ array' = a
              /\ ep' = e
              /\ alpha' = RawWeights(g)
              /\ result' = Blend(StencilValues(a, e), RawWeights(g))
    BY <2>1
  <2>3. RawWeights(g) \in [1 .. 3 -> Nat \ {0}]
    BY RawWeightsType, PenaltiesAssumption DEF PenaltyFactors
  <2>4. Blend(StencilValues(a, e), RawWeights(g)) \in [num : Int, den : Nat \ {0}]
    BY <2>3, StencilValuesType, ValuesAssumption, BlendType
  <2>. QED  BY <2>2, <2>3, <2>4 DEF IInv, TypeOK, ResultOfCall
<1>2. CASE UNCHANGED vars
  BY <1>2 DEF IInv, TypeOK, ResultOfCall, vars
<1>. QED  BY <1>1, <1>2 DEF Next

\* The type invariant holds in every state of every behaviour.
THEOREM TypeCorrect == Spec => []TypeOK
<1>1. IInv => TypeOK
  BY DEF IInv
<1>. QED  BY InitIInv, NextIInv, <1>1, PTL DEF Spec

\* Constant-field exactness (spec.md 8): whatever the window values and the
\* penalties of the weight formula, a call of Apply on a window whose cells
\* all hold c returns exactly c.
THEOREM ConstantFieldExactness == Spec => []ConstantFieldExact
<1>1. IInv => ConstantFieldExact
  <2>. SUFFICES ASSUME IInv, \A i \in DOMAIN array : array[i] = array[0]
                PROVE  result.num = array[0] * result.den
    BY DEF ConstantFieldExact
  <2>1. array \in [0 .. stencil_size_ - 1 -> Values] /\ ep \in EvaluationProperties
    BY DEF IInv, TypeOK, Windows
  <2>2. array[0] \in Int
    <3>1. 0 \in 0 .. stencil_size_ - 1
      BY DEF stencil_size_
    <3>2. array[0] \in Values
      BY <2>1, <3>1
    <3>. QED  BY <3>2, ValuesAssumption
  <2>3. StencilValues(array, ep) = [j \in 1 .. 5 |-> array[0]]
    BY <2>1, IndexInWindow DEF StencilValues
  <2>4. alpha \in [1 .. 3 -> Int]
    BY DEF IInv, TypeOK
  <2>. QED  BY <2>2, <2>3, <2>4, BlendOfConstant DEF IInv, ResultOfCall
<1>. QED  BY InitIInv, NextIInv, <1>1, PTL DEF Spec

\* Reflection symmetry (spec.md 8): in every state, the mirrored window
\* read from the other side of the face gives the call's five values.
THEOREM MirrorSymmetric == Spec => []MirrorSymmetry
<1>1. IInv => MirrorSymmetry
  BY MirroredValues DEF IInv, TypeOK, MirrorSymmetry, Selected
<1>. QED  BY InitIInv, NextIInv, <1>1, PTL DEF Spec

\* When the two difference rows of sub-stencil k square to the squares of
\* the second difference A2 and the derivative combination A1 of its
\* quadratic, its indicator is the Jiang-Shu indicator.
LEMMA IndicatorOfRows ==
    ASSUME NEW v \in [1 .. 5 -> Int], NEW k \in 1 .. 3,
           NEW a1 \in Int, NEW a2 \in Int,
           a2 = v[k] - 2 * v[k + 1] + v[k + 2],
           a1 = 2 * (v[k + 1] - v[k]) - a2 * (2 * (k - 3) + 1),
           LET d1 == Dot(coef_smoothness_diff_[k][1], v, k) IN d1 * d1 = a2 * a2,
           LET d2 == Dot(coef_smoothness_diff_[k][2], v, k) IN d2 * d2 = a1 * a1
    PROVE  Smoothness(v, k) = IndicatorOfQuadratic(v[k], v[k + 1], v[k + 2], k - 3)
<1>0. /\ Dot(coef_smoothness_diff_[k][1], v, k) \in Int
      /\ Dot(coef_smoothness_diff_[k][2], v, k) \in Int
  BY DEF Dot, coef_smoothness_diff_
<1>1. Smoothness(v, k)
        = 13 * (Dot(coef_smoothness_diff_[k][1], v, k) * Dot(coef_smoothness_diff_[k][1], v, k))
          + 3 * (Dot(coef_smoothness_diff_[k][2], v, k) * Dot(coef_smoothness_diff_[k][2], v, k))
  BY DEF Smoothness, coef_smoothness_
<1>2. IndicatorOfQuadratic(v[k], v[k + 1], v[k + 2], k - 3) = 3 * (a1 * a1) + 13 * (a2 * a2)
  BY DEF IndicatorOfQuadratic
<1>. QED  BY <1>0, <1>1, <1>2

\* coef_smoothness_ and coef_smoothness_diff_ compute, for each sub-stencil,
\* the Jiang-Shu indicator of the quadratic with its three cell averages.
\* The first-difference row of sub-stencils 2 and 3 is -A1: only its square
\* enters the indicator.
LEMMA IndicatorIdentity ==
    ASSUME NEW v \in [1 .. 5 -> Int], NEW k \in 1 .. 3
    PROVE  Smoothness(v, k) = IndicatorOfQuadratic(v[k], v[k + 1], v[k + 2], k - 3)
<1>. DEFINE A2 == v[k] - 2 * v[k + 1] + v[k + 2]
            A1 == 2 * (v[k + 1] - v[k]) - A2 * (2 * (k - 3) + 1)
            D1 == Dot(coef_smoothness_diff_[k][1], v, k)
            D2 == Dot(coef_smoothness_diff_[k][2], v, k)
<1>0. A1 \in Int /\ A2 \in Int /\ D1 \in Int /\ D2 \in Int
  BY DEF Dot, coef_smoothness_diff_
<1>1. D1 = A2
  BY DEF Dot, coef_smoothness_diff_
<1>2. D2 = A1 \/ D2 = -A1
  <2>1. CASE k = 1
    BY <2>1 DEF Dot, coef_smoothness_diff_
  <2>2. CASE k = 2
    BY <2>2 DEF Dot, coef_smoothness_diff_
  <2>3. CASE k = 3
    BY <2>3 DEF Dot, coef_smoothness_diff_
  <2>. QED  BY <2>1, <2>2, <2>3
<1>3. D1 * D1 = A2 * A2 /\ D2 * D2 = A1 * A1
  BY <1>0, <1>1, <1>2
<1>. QED  BY <1>0, <1>3, IndicatorOfRows

\* Every call's smoothness indicators are the Jiang-Shu indicators, for
\* windows of any integer values.
THEOREM IndicatorsCorrect == Spec => []IndicatorsExact
<1>1. IInv => IndicatorsExact
  <2>. SUFFICES ASSUME IInv PROVE IndicatorsExact
    OBVIOUS
  <2>1. Selected \in [1 .. 5 -> Int]
    BY StencilValuesType, ValuesAssumption DEF IInv, TypeOK, Selected
  <2>. QED  BY <2>1, IndicatorIdentity DEF IndicatorsExact
<1>. QED  BY InitIInv, NextIInv, <1>1, PTL DEF Spec

\* spec.md 8's discontinuity example is violated by every call on a step
\* window, not only with the penalties the model checker enumerates: on
\* [a, a, a, a, b, b] with a < b, read from the cell left of the face, Apply
\* returns a value strictly below a whatever positive weights the weight
\* formula produces.
THEOREM StepBelowDataAlways ==
    Spec => [](StepWindow => result.num < array[0] * result.den)
<1>1. ASSUME IInv, StepWindow
      PROVE  result.num < array[0] * result.den
  <2>. DEFINE v == StencilValues(array, ep)
  <2>1. array[0] \in Int /\ array[4] \in Int
    <3>1. array \in [0 .. 5 -> Values] /\ 0 \in 0 .. 5 /\ 4 \in 0 .. 5
      BY <1>1 DEF IInv, TypeOK, Windows, stencil_size_
    <3>. QED  BY <3>1, ValuesAssumption
  <2>2. v = [j \in 1 .. 5 |-> IF j <= 4 THEN array[0] ELSE array[4]]
    BY <1>1, StepValues DEF StepWindow
  <2>3. /\ alpha \in [1 .. 3 -> Nat \ {0}]
        /\ result.num \in Int /\ result.den \in Nat \ {0}
    BY <1>1 DEF IInv, TypeOK
  <2>4. result.num * StencilsDen * Sum3(alpha)
          = result.den * Sum3([k \in 1 .. 3 |-> alpha[k] * Candidate(v, k)])
    <3>1. v \in [1 .. 5 -> Int]
      BY <1>1, StencilValuesType, ValuesAssumption DEF IInv, TypeOK
    <3>2. Sum3([k \in 1 .. 3 |-> alpha[k] * Candidate(v, k)]) \in Int
      BY <2>3, <3>1 DEF Sum3, Candidate, Dot, coef_stencils_
    <3>3. result = [num |-> Sum3([k \in 1 .. 3 |-> alpha[k] * Candidate(v, k)]),
                    den |-> StencilsDen * Sum3(alpha)]
      BY <1>1 DEF IInv, ResultOfCall, Blend
    <3>4. Sum3(alpha) \in Int
      BY <2>3 DEF Sum3
    <3>. QED  BY <3>2, <3>3, <3>4 DEF StencilsDen
  <2>. QED  BY <1>1, <2>1, <2>2, <2>3, <2>4, StepBlendBelowData DEF StepWindow
<1>. QED  BY InitIInv, NextIInv, <1>1, PTL DEF Spec

=============================================================================
