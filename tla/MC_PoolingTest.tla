----------------------------- MODULE MC_PoolingTest -----------------------------
(***************************************************************************)
(* An instance of PoolingTest for TLC: two retries, and three geometries   *)
(* random_pooling_param can draw with the default strides: a valid 3x6     *)
(* input under a 3x3 kernel, a 3x6 input under a 7x7 kernel (rejected: the *)
(* kernel exceeds the extended input), and the same input padded so that   *)
(* the 7x7 kernel fits.                                                    *)
(***************************************************************************)
EXTENDS PoolingTest

Geo(ih, iw, kh, kw, pad) ==
  [ih |-> ih, iw |-> iw, kh |-> kh, kw |-> kw, stride_h |-> 1, stride_w |-> 1,
   ins_h |-> 0, ins_w |-> 0, ins_last_h |-> 0, ins_last_w |-> 0,
   pad_top |-> pad, pad_bottom |-> pad, pad_left |-> pad, pad_right |-> pad]

SmallGeometries == {Geo(3, 6, 3, 3, 0), Geo(3, 6, 7, 7, 0), Geo(3, 6, 7, 7, 2)}

=============================================================================
