---------------------------- MODULE MC_DwConvRef ----------------------------
(***************************************************************************)
(* Instances of DwConvRef for TLC.                                         *)
(*                                                                         *)
(* Small: one channel, a 1x3 image, a 1x2 filter, pad_left 1, so that the  *)
(* first window is half padding; the int8 values are the extremes and a    *)
(* small one, the biases the extremes and zero of fill_random_data_s32,    *)
(* INT_MIN included (its sum with a negative window wraps), and the two    *)
(* quantisation choices give one clamping and one non-clamping channel.    *)
(***************************************************************************)
EXTENDS DwConvRef

SmallVals == {-128, 1, 127}

SmallInputs == [0..2 -> SmallVals]

SmallFilters == [0..1 -> SmallVals]

SmallBiases == {[c \in {0} |-> b] : b \in {MinInt32, -127, 0, 127}}

SmallMultipliers == {[c \in {0} |-> m] : m \in {1073741824, 16777216}}

SmallShifts == {[c \in {0} |-> s] : s \in {-1, 3}}

=============================================================================
