----------------------------- MODULE MCDramSeq -----------------------------
(* DramSeq for TLC, with the timings of the DRAM table for its four clocks *)
(* (include/table/wddr/table_vals.h), all of ratio 1:2.                    *)
EXTENDS DramInv

Row(vref, wrLat, wrEn, rdEn, sh) ==
  [ratio |-> 1, vref |-> vref, wrLat |-> wrLat, wrEn |-> wrEn, rdEn |-> rdEn,
   sh |-> sh]

TableTimings == {Row(106, 1, 5, 7, 1), Row(202, 5, 5, 17, 2),
                 Row(404, 2, 6, 28, 4), Row(533, 4, 6, 32, 4)}

(* The conditions of the theorems of DramSeq_proofs hold of the table.     *)
ASSUME TableFits == Writes /\ Reads /\ Trains /\ Settles /\ Updates /\ Fits
=============================================================================
