---------------------------- MODULE Weno5HmScheme ----------------------------
(***************************************************************************)
(* The data and the pure operators of the WENO5-HM reconstruction stencil *)
(* (src/src/stencils/spatial_reconstruction_stencils/weno5_hm.h): the     *)
(* coefficient tables, the window, the cells read for each side of the    *)
(* face, the smoothness indicators and the candidates.  The specification *)
(* of the stencil's calls (Weno5Hm) is written over these operators.       *)
(*                                                                         *)
(* Every coefficient is a fraction with a small denominator (13/12, 0.25, *)
(* 0.1, 2/6, ...), so it is kept as an integer numerator over the common  *)
(* denominator of its group; floating-point rounding is not modelled.     *)
(***************************************************************************)
EXTENDS Integers

CONSTANT Values     \* cell-averaged values a window may hold

ASSUME ValuesAssumption == Values \subseteq Int /\ Values # {}

-----------------------------------------------------------------------------
(* Coefficients of the scheme (weno5_hm.h).                                *)

\* Seeded faults of the coefficient tables (each replaces the table below it).
\* The first-difference row of sub-stencil 1 copied into sub-stencil 3.
coef_smoothness_diff_Copied ==
    << << <<1, -2, 1>>, <<1, -4, 3>> >>,
       << <<1, -2, 1>>, <<1,  0, -1>> >>,
       << <<1, -2, 1>>, <<1, -4, 3>> >> >>
\* The optimal weights in reverse order, 0.3, 0.6, 0.1.
coef_weights_Reversed == <<3, 6, 1>>
\* coef_weights_3_ with the wrong sign.
coef_weights_Sign == <<1, 6, -3>>
\* coef_stencils_7_ written as 1/6.
coef_stencils_Typo7 == << <<2, -7, 11>>, <<-1, 5, 2>>, <<1, 5, -1>> >>
\* coef_stencils_1_ and coef_stencils_2_ swapped.
coef_stencils_Swapped12 == << <<-7, 2, 11>>, <<-1, 5, 2>>, <<2, 5, -1>> >>

\* coef_smoothness_1_ = 13/12 and coef_smoothness_2_ = 0.25, in twelfths.
coef_smoothness_ == <<13, 3>>
SmoothnessDen == 12

\* The second- and first-difference combinations of sub-stencil k, applied
\* to its three cells.  Sub-stencil 2 has no coefficient on its middle cell
\* (coef_smoothness_24_ multiplies its first, _25_ its last cell).
coef_smoothness_diff_ ==
    << << <<1, -2, 1>>, <<1, -4, 3>> >>,
       << <<1, -2, 1>>, <<1,  0, -1>> >>,
       << <<1, -2, 1>>, <<3, -4, 1>> >> >>

\* coef_weights_1_.._3_ = 0.1, 0.6, 0.3, in tenths.
coef_weights_ == <<1, 6, 3>>
WeightsDen == 10

\* coef_stencils_1_.._9_, in sixths: the candidate of sub-stencil k.
coef_stencils_ == << <<2, -7, 11>>, <<-1, 5, 2>>, <<2, 5, -1>> >>
StencilsDen == 6

stencil_size_ == 6
downstream_stencil_size_ == 2

-----------------------------------------------------------------------------
(* The window, the cells read and the per-sub-stencil quantities.         *)

Windows == [0 .. stencil_size_ - 1 -> Values]

\* evaluation_properties: the upwind direction and the shift of the central
\* cell; the cell left of the face reads the window forward, the cell right
\* of it reads it backward from one cell further.
EvaluationProperties == {<<1, 0>>, <<-1, 1>>}

\* Seeded fault: the shift of the central cell ignored.
CellIndexNoShift(e, j) == downstream_stencil_size_ + (j - 3) * e[1]

\* Window index of the j-th of the five values the scheme reads.
CellIndex(e, j) == downstream_stencil_size_ + e[2] + (j - 3) * e[1]

StencilValues(a, e) == [j \in 1 .. 5 |-> a[CellIndex(e, j)]]

\* A coefficient triple applied to the cells v[k], v[k+1], v[k+2].
Dot(c, v, k) == c[1] * v[k] + c[2] * v[k + 1] + c[3] * v[k + 2]

\* Twelve times the smoothness indicator of sub-stencil k.
Smoothness(v, k) ==
    LET s1 == Dot(coef_smoothness_diff_[k][1], v, k)
        s2 == Dot(coef_smoothness_diff_[k][2], v, k)
    IN  coef_smoothness_[1] * (s1 * s1) + coef_smoothness_[2] * (s2 * s2)

\* Six times the candidate reconstruction of sub-stencil k.
Candidate(v, k) == Dot(coef_stencils_[k], v, k)

Sum3(f) == f[1] + f[2] + f[3]

\* The window reversed, and the evaluation properties of the other side of
\* the face.
Mirror(a) == [i \in DOMAIN a |-> a[stencil_size_ - 1 - i]]
OtherSide(e) == IF e = <<1, 0>> THEN <<-1, 1>> ELSE <<1, 0>>

=============================================================================
