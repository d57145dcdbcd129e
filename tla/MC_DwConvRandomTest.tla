------------------------- MODULE MC_DwConvRandomTest -------------------------
(***************************************************************************)
(* Range tables for random_test, two entries per table instead of four and *)
(* five, with gaps where a draw has more than one outcome: the width of    *)
(* range 0 is 1 or 2, and a kernel of range 1 (3) is larger than an input *)
(* of range 0, so that check_valid_test_param rejects some cases.          *)
(***************************************************************************)
EXTENDS DwConvRandomTest

McBatchRange == <<1, 2>>
McHeightRange == <<1, 3>>
McWidthRange == <<1, 4>>
McDepthRange == <<1, 2>>
McKernelHRange == <<1, 3>>
McKernelWRange == <<1, 2>>
McStrideHRange == <<1, 2>>
McStrideWRange == <<1, 2>>

=============================================================================
