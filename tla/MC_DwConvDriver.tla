--------------------------- MODULE MC_DwConvDriver ---------------------------
(***************************************************************************)
(* An instance of DwConvDriver for TLC: one channel, a 1x2 image and a 1x1 *)
(* filter, so that each draw gives two accumulators.  The int8 values are  *)
(* the two extremes and 0 (fill_random_data_s8 draws all of int8), which   *)
(* give draws whose float multiplier is in (0, 1) (127 * 127), at least 1  *)
(* (all products 0) and, with the INT_MIN bias that fill_random_data_s32  *)
(* writes when it saturates, an accumulator of exactly INT_MIN.            *)
(***************************************************************************)
EXTENDS DwConvDriver

DrvInputs == [0..1 -> {-128, 0, 127}]

DrvFilters == [0..0 -> {0, 1, 127}]

DrvBiases == {[c \in {0} |-> b] : b \in {-127, 0, MinInt32}}

DrvMultipliers == {[c \in {0} |-> 1073741824]}

DrvShifts == {[c \in {0} |-> 0]}

=============================================================================
