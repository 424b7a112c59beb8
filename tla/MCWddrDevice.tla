---------------------------- MODULE MCWddrDevice ----------------------------
(* WddrDevice for TLC: two channels of one byte, one bit; trip points and  *)
(* noise bands at, inside and outside the ends of the codes.               *)
EXTENDS WddrDeviceProps

Zq(n, p) == [n |-> n, p |-> p]
Point(a, b) == [v \in Vohs |-> IF v = "0P5" THEN a ELSE b]
Trips == {Point(Zq(1, 2), Zq(1, 1)), Point(Zq(2, 1), Zq(1, 1)),
          Point(Zq(3, 1), Zq(1, 1)), Point(Zq(1, 0), Zq(1, 1))}

Band(lo, hi) == [lo |-> lo, hi |-> hi]
Offsets == {Band(1, 3), Band(2, 3), Band(0, 1), Band(3, 4)}

FirstPair == Zq(3, 3)
Unwritten == Zq(9, 9)
Options == {{}, {"PLL_CAL", "SA_CAL"}, {"ZQCAL_CAL", "TRAIN"}}
Lens == [f \in Freqs |-> IF f = BootFreq THEN 1 ELSE 2]
=============================================================================
