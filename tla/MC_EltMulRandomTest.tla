------------------------- MODULE MC_EltMulRandomTest -------------------------
(***************************************************************************)
(* Range tables for random_test of the mul_qm test, three entries for the  *)
(* width (as in the code) so that the innermost loop has cases after a     *)
(* failing one, two elsewhere; the largest shape does not fit the lmem.    *)
(***************************************************************************)
EXTENDS EltMulRandomTest

McNRange == <<1, 2>>
McCRange == <<1, 3>>
McHRange == <<1, 4>>
McWRange == <<1, 2, 64>>

=============================================================================
