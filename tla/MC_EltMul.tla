------------------------------- MODULE MC_EltMul -------------------------------
(***************************************************************************)
(* Instances of EltMul for TLC.                                            *)
(*                                                                         *)
(* Small: two elements of int8 values -128, 0, 1 and 127, which give draws *)
(* of every class: products 0 only (+inf), extremes exactly 127 or -128    *)
(* (multiplier exactly 1.0), smaller ones (above 1.0) and large ones (in   *)
(* (0, 1)); the shift 0 makes the requantised product clamp.               *)
(* The vectors of simple_test are checked as an assumption.               *)
(***************************************************************************)
EXTENDS EltMul

SmallInputs == [0..1 -> {-128, 0, 1, 127}]

SmallMultipliers == {1073741824}

SmallShifts == {0, 1}

(***************************************************************************)
(* simple_test (TFL QuantizedMulOpTest.NoActivationInt8): elt_mul_ref on   *)
(* its operands, multiplier 1077952640 and right shift 6 gives its         *)
(* expected ref_output_data.  TLC evaluates this on every run of this      *)
(* module, which ties QuantArith to the code's own test vectors.           *)
(***************************************************************************)
ASSUME SimpleTestVectors ==
  LET in1 == <<-102, 25, 115, 89>>
      in2 == <<77, 51, 115, 102>>
      ref == <<-62, 10, 104, 71>>
  IN  \A k \in 1..4 :
        ClampInt8(MultiplyByQuantizedMultiplier(in1[k] * in2[k],
                                                1077952640, 6)) = ref[k]

=============================================================================
