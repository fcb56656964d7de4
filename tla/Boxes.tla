------------------------------- MODULE Boxes -------------------------------
(***************************************************************************)
(* Axis-aligned boxes with integer corners, [x1, y1, x2, y2], and the      *)
(* overlap core/tubes.py computes from them.  Ratios are compared exactly, *)
(* by cross-multiplication, where the code compares floats.                *)
(***************************************************************************)
EXTENDS Integers

Lesser(a, b)  == IF a <= b THEN a ELSE b
Greater(a, b) == IF a >= b THEN a ELSE b
Clip(n)       == Greater(n, 0)

Area(b) == (b.x2 - b.x1) * (b.y2 - b.y1)

InterArea(a, b) ==
  Clip(Lesser(a.x2, b.x2) - Greater(a.x1, b.x1))
    * Clip(Lesser(a.y2, b.y2) - Greater(a.y1, b.y1))

UnionArea(a, b) == Area(a) + Area(b) - InterArea(a, b)

\* compute_iou in units of 1/scale, and 0 when the union is empty.  The value is
\* exact when scale is a multiple of every union that occurs.
ComputeIou(a, b, scale) ==
  IF UnionArea(a, b) <= 0 THEN 0 ELSE (scale * InterArea(a, b)) \div UnionArea(a, b)
=============================================================================
