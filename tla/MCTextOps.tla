------------------------------ MODULE MCTextOps ------------------------------
(* An instance of TextOps: short texts over one letter and the characters
   that end lines, and the numbers around the limits of a truncation.      *)
EXTENDS TextOps

CONSTANTS a, b

SomeChars == {a, b, NL, CR}
ShortTexts == BoundedSeq({a, NL, CR}, 3) \cup BoundedSeq({a, NL}, 4)
SomeTargets == {<<a>>, <<NL>>, <<a, NL>>, <<NL, NL>>}
SomeReplacements == {<<>>, <<b, NL>>}
SomeEditRanges == {<<0, 0>>, <<0, 2>>, <<2, 0>>, <<1, 1>>, <<2, 2>>, <<2, 3>>, <<3, 1>>}
SomeRanges == {0, 2} \X {0, 2}
SomeLimits == {0, 11, 21}
AroundLimits == {0, 1, 9, 10, 11, 14, 15, 16, 17, 49, 50, 51, 60}
FewOrMany == {-1, 0, 1, 5, 9, 10, 11, 14, 15, 16, 49, 50, 51}
=============================================================================
