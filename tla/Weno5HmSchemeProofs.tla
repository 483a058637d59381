------------------------- MODULE Weno5HmSchemeProofs -------------------------
(***************************************************************************)
(* Lemmas about the pure operators of the WENO5-HM scheme, for every set   *)
(* of window values: where the cells are read, what a candidate returns    *)
(* for a constant window, the reflection of the cell selection, and the    *)
(* range of a positive blend.  Both the proofs about the stencil's calls   *)
(* and those about its contract rest on them.                              *)
(***************************************************************************)
EXTENDS Weno5HmScheme, TLAPS

\* Both evaluation properties read the five values inside the window.
LEMMA IndexInWindow ==
    ASSUME NEW e \in EvaluationProperties, NEW j \in 1 .. 5
    PROVE  CellIndex(e, j) \in 0 .. stencil_size_ - 1
BY DEF EvaluationProperties, CellIndex, stencil_size_, downstream_stencil_size_

LEMMA StencilValuesType ==
    ASSUME ValuesAssumption, NEW a \in Windows, NEW e \in EvaluationProperties
    PROVE  StencilValues(a, e) \in [1 .. 5 -> Int]
<1>1. \A j \in 1 .. 5 : a[CellIndex(e, j)] \in Values
  BY IndexInWindow DEF Windows
<1>. QED  BY <1>1, ValuesAssumption DEF StencilValues

\* Every candidate polynomial reproduces a constant: each coefficient
\* triple of coef_stencils_ sums to StencilsDen.
LEMMA CandidateOfConstant ==
    ASSUME NEW c \in Int, NEW k \in 1 .. 3
    PROVE  Candidate([j \in 1 .. 5 |-> c], k) = StencilsDen * c
BY DEF Candidate, Dot, coef_stencils_, StencilsDen

\* The other side of the face reads the mirrored window at the mirrored
\* index: the j-th cell read from side e and from OtherSide(e) are the
\* reflections of each other.
LEMMA MirroredIndex ==
    ASSUME NEW e \in EvaluationProperties, NEW j \in 1 .. 5
    PROVE  CellIndex(OtherSide(e), j) = stencil_size_ - 1 - CellIndex(e, j)
BY DEF EvaluationProperties, OtherSide, CellIndex, stencil_size_,
       downstream_stencil_size_

\* Reading the mirrored window from the other side of the face gives the
\* same five values.
LEMMA MirroredValues ==
    ASSUME NEW a \in Windows, NEW e \in EvaluationProperties
    PROVE  StencilValues(Mirror(a), OtherSide(e)) = StencilValues(a, e)
<1>. SUFFICES ASSUME NEW j \in 1 .. 5
              PROVE  Mirror(a)[CellIndex(OtherSide(e), j)] = a[CellIndex(e, j)]
  BY DEF StencilValues
<1>1. CellIndex(e, j) \in 0 .. stencil_size_ - 1
  BY IndexInWindow
<1>2. CellIndex(OtherSide(e), j) = stencil_size_ - 1 - CellIndex(e, j)
  BY MirroredIndex
<1>3. DOMAIN a = 0 .. stencil_size_ - 1
  BY DEF Windows
<1>. QED  BY <1>1, <1>2, <1>3 DEF Mirror, stencil_size_

\* Multiplying both sides of a strict inequality by a positive integer.
LEMMA MulStrict ==
    ASSUME NEW x \in Nat \ {0}, NEW a \in Int, NEW b \in Int, a < b
    PROVE  x * a < x * b
OBVIOUS

\* The five values read from the cell left of the face (evaluation
\* properties <<1, 0>>) of spec.md 8's step window [a, a, a, a, b, b].
LEMMA StepValues ==
    ASSUME NEW arr, NEW a, NEW b, \A i \in 0 .. 3 : arr[i] = a, arr[4] = b
    PROVE  StencilValues(arr, <<1, 0>>) = [j \in 1 .. 5 |-> IF j <= 4 THEN a ELSE b]
<1>1. \A j \in 1 .. 5 : CellIndex(<<1, 0>>, j) = j - 1
  BY DEF CellIndex, downstream_stencil_size_
<1>. QED  BY <1>1 DEF StencilValues

\* On the step window with a < b, every blend of the candidates with
\* positive weights lies strictly below a: the first two candidates are a,
\* the third (2a + 5a - b) / 6 is below it, and its weight is positive.
LEMMA StepBlendBelowData ==
    ASSUME NEW a \in Int, NEW b \in Int, a < b,
           NEW w \in [1 .. 3 -> Nat \ {0}], NEW n \in Int, NEW d \in Nat \ {0},
           n * StencilsDen * Sum3(w)
             = d * Sum3([k \in 1 .. 3 |-> w[k] * Candidate([j \in 1 .. 5 |-> IF j <= 4 THEN a ELSE b], k)])
    PROVE  n < a * d
<1>. DEFINE v == [j \in 1 .. 5 |-> IF j <= 4 THEN a ELSE b]
            x == StencilsDen * Sum3(w)
            y == w[3] * (b - a)
<1>1. Sum3([k \in 1 .. 3 |-> w[k] * Candidate(v, k)]) = x * a - y
  BY DEF Candidate, Dot, coef_stencils_, Sum3, StencilsDen
<1>2. x \in Nat \ {0} /\ y \in Nat \ {0}
  <2>1. w[3] * 0 < w[3] * (b - a)
    BY MulStrict
  <2>. QED  BY <2>1 DEF Sum3, StencilsDen
<1>3. d * 0 < d * y
  BY <1>2, MulStrict
<1>4. x * (n - a * d) = -(d * y)
  <2>0. n * StencilsDen * Sum3(w) = d * (x * a - y)
    BY <1>1
  <2>1. n * x = d * (x * a - y)
    BY <2>0 DEF StencilsDen, Sum3
  <2>2. n * x = d * (x * a) - d * y /\ d * (x * a) = x * (a * d)
    BY <1>2, <2>1
  <2>. QED  BY <1>2, <2>2
<1>5. n - a * d < 0
  <2>1. CASE n - a * d > 0
    <3>1. x * 0 < x * (n - a * d)
      BY <1>2, <2>1, MulStrict
    <3>. QED  BY <1>2, <1>3, <1>4, <3>1
  <2>2. CASE n - a * d = 0
    BY <1>2, <1>3, <1>4, <2>2
  <2>. QED  BY <2>1, <2>2, <1>2
<1>. QED  BY <1>5

-----------------------------------------------------------------------------
(* Polynomial exactness.  The cells of the five values are the unit       *)
(* intervals [j - 1, j], j = 1 .. 5, and the face is x = 3, the right     *)
(* edge of the central cell.                                               *)

\* Six times the averages over the five cells of c0 + c1 x + c2 x^2.
QuadraticAverages(c0, c1, c2) ==
    [j \in 1 .. 5 |-> LET a == j - 1
                      IN  6 * c0 + 3 * c1 * (2 * a + 1) + 2 * c2 * (3 * a * a + 3 * a + 1)]

\* Sixty times the averages over the five cells of c0 + c1 x + ... + c4 x^4.
QuarticAverages(c0, c1, c2, c3, c4) ==
    [j \in 1 .. 5 |->
        LET a == j - 1
        IN  60 * c0 + 30 * c1 * (2 * a + 1) + 20 * c2 * (3 * a * a + 3 * a + 1)
            + 15 * c3 * (4 * a * a * a + 6 * a * a + 4 * a + 1)
            + 12 * c4 * (5 * a * a * a * a + 10 * a * a * a + 10 * a * a + 5 * a + 1)]

\* Third order of each candidate (coef_stencils_): for the cell averages of
\* any quadratic, candidate k is the quadratic's value at the face.
THEOREM CandidatesReproduceQuadratics ==
    ASSUME NEW c0 \in Int, NEW c1 \in Int, NEW c2 \in Int, NEW k \in 1 .. 3
    PROVE  Candidate(QuadraticAverages(c0, c1, c2), k)
             = 6 * 6 * (c0 + 3 * c1 + 9 * c2)
<1>. DEFINE v == QuadraticAverages(c0, c1, c2)
<1>1. /\ v[1] = 6 * c0 + 3 * c1 + 2 * c2
      /\ v[2] = 6 * c0 + 9 * c1 + 14 * c2
      /\ v[3] = 6 * c0 + 15 * c1 + 38 * c2
      /\ v[4] = 6 * c0 + 21 * c1 + 74 * c2
      /\ v[5] = 6 * c0 + 27 * c1 + 122 * c2
  BY DEF QuadraticAverages
<1>2. CASE k = 1
  BY <1>1, <1>2 DEF Candidate, Dot, coef_stencils_
<1>3. CASE k = 2
  BY <1>1, <1>3 DEF Candidate, Dot, coef_stencils_
<1>4. CASE k = 3
  BY <1>1, <1>4 DEF Candidate, Dot, coef_stencils_
<1>. QED  BY <1>2, <1>3, <1>4

\* Fifth order of the optimal blend (coef_weights_ with coef_stencils_):
\* for the cell averages of any quartic, the candidates blended with the
\* optimal weights give the quartic's value at the face.
THEOREM OptimalBlendReproducesQuartics ==
    ASSUME NEW c0 \in Int, NEW c1 \in Int, NEW c2 \in Int, NEW c3 \in Int, NEW c4 \in Int
    PROVE  LET v == QuarticAverages(c0, c1, c2, c3, c4)
           IN  Sum3([k \in 1 .. 3 |-> coef_weights_[k] * Candidate(v, k)])
                 = WeightsDen * StencilsDen * 60
                     * (c0 + 3 * c1 + 9 * c2 + 27 * c3 + 81 * c4)
<1>. DEFINE v == QuarticAverages(c0, c1, c2, c3, c4)
<1>1. /\ v[1] = 60 * c0 + 30 * c1 + 20 * c2 + 15 * c3 + 12 * c4
      /\ v[2] = 60 * c0 + 90 * c1 + 140 * c2 + 225 * c3 + 372 * c4
      /\ v[3] = 60 * c0 + 150 * c1 + 380 * c2 + 975 * c3 + 2532 * c4
      /\ v[4] = 60 * c0 + 210 * c1 + 740 * c2 + 2625 * c3 + 9372 * c4
      /\ v[5] = 60 * c0 + 270 * c1 + 1220 * c2 + 5535 * c3 + 25212 * c4
  BY DEF QuarticAverages
<1>2. /\ Candidate(v, 1) = 2 * v[1] - 7 * v[2] + 11 * v[3]
      /\ Candidate(v, 2) = -1 * v[2] + 5 * v[3] + 2 * v[4]
      /\ Candidate(v, 3) = 2 * v[3] + 5 * v[4] - 1 * v[5]
  BY <1>1 DEF Candidate, Dot, coef_stencils_
<1>. QED  BY <1>1, <1>2 DEF Sum3, coef_weights_, WeightsDen, StencilsDen

=============================================================================
