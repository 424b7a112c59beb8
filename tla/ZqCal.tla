------------------------------- MODULE ZqCal -------------------------------
(***************************************************************************)
(* ZQ calibration (dev/cmn/device.c, drivers/cmn/cmn_zqcal.c): for each    *)
(* voltage a linear search for the pull-down code, then one for the        *)
(* pull-up code, with one comparator, and the pair of codes written to the *)
(* calibration table, one byte after the other.  The table is read by the  *)
(* firmware task, which may preempt the search between any two steps.      *)
(***************************************************************************)
EXTENDS Naturals

CONSTANTS
  NMax, PMax,    \* ZQCAL_NCAL_CODE_MAX, ZQCAL_PCAL_CODE_MAX
  TripPoints,    \* functions [Vohs -> pairs]: the least codes that trip
  TableZq        \* the pair of codes the table holds before calibration

Vohs   == {"0P5", "0P6"}                 \* zqcal_voh_t, in this order
Drives == {"n", "p"}                     \* ZQCAL_MODE_PULL_DOWN, _PULL_UP
Pairs  == [n : 0..NMax, p : 0..PMax]
MaxCode(d) == IF d = "n" THEN NMax ELSE PMax

ASSUME ZqAssumption ==
  /\ NMax \in Nat \ {0} /\ PMax \in Nat \ {0}
  /\ TripPoints \subseteq [Vohs -> [n : Nat, p : Nat]]
  /\ TableZq \in Pairs

VARIABLES
  zq,       \* DDR_CMN_ZQCAL_CFG
  zqCode,   \* table->cfg.common.common.zqcal.code
  cal       \* the running call: label, voltage, code, the pair found, result,
            \* and where the comparator trips, of the voltage and heat of now

zqVars == <<zq, zqCode, cal>>

(* Voltage and temperature move the trip points, too slowly to be seen     *)
(* within one calibration.  No calibration, no trip points.                *)
NoTrip == [v \in Vohs |-> [n |-> 0, p |-> 0]]
CalSteps == {"idle", "voh", "n", "p", "saveN", "saveP", "off", "ret"}
NoCal == [pc |-> "idle", voh |-> "0P5", code |-> 0, n |-> 0, p |-> 0,
          ok |-> TRUE, trip |-> NoTrip]
Begun(t) == [NoCal EXCEPT !.pc = "voh", !.trip = t]

ZqInit ==
  /\ zq = [en |-> FALSE, drive |-> "p", voh |-> "0P5", n |-> 0, p |-> 0]
  /\ zqCode = [v \in Vohs |-> TableZq]
  /\ cal = NoCal

(* Definitions named X_Y are faults planted in X.                          *)
(* DDR_CMN_ZQCAL_STA_COMP: set while the code is short of the trip point;  *)
(* of no meaning while calibration is disabled.                            *)
ZqOutputs(d, code) == IF zq.en THEN {code < cal.trip[zq.voh][d]} ELSE BOOLEAN

ZqStart_NotEnabled ==
  cal.pc = "idle" /\ (\E t \in TripPoints : cal' = Begun(t))
  /\ UNCHANGED <<zq, zqCode>>
(* cmn_zqcal_calibrate begins.                                             *)
ZqStart ==
  /\ cal.pc = "idle"
  /\ \E t \in TripPoints : cal' = Begun(t)
  /\ zq' = [zq EXCEPT !.en = TRUE]
  /\ UNCHANGED zqCode

ZqVoltage ==
  /\ cal.pc = "voh"
  /\ zq' = [zq EXCEPT !.voh = cal.voh, !.drive = "n"]
  /\ cal' = [cal EXCEPT !.pc = "n", !.code = 0]
  /\ UNCHANGED zqCode

(* The end of a search at `code': a code at an end of its range is an      *)
(* error, and ends the calibration.                                        *)
AtEnd(d, code) == code = 0 \/ code = MaxCode(d)
Judged(d, code) ==
  IF AtEnd(d, code) THEN [cal EXCEPT !.pc = "off", !.ok = FALSE]
  ELSE IF d = "n" THEN [cal EXCEPT !.pc = "p", !.n = code, !.code = 0]
  ELSE [cal EXCEPT !.pc = "saveN", !.p = code]

Searched_OneMore(d, out) ==
  IF out /\ cal.code < MaxCode(d) THEN [cal EXCEPT !.code = @ + 1]
  ELSE Judged(d, IF cal.code = MaxCode(d) THEN cal.code ELSE cal.code + 1)
(* `*code = tmp_code++' while the comparator is set and codes remain.      *)
Searched(d, out) ==
  IF out /\ cal.code < MaxCode(d) THEN [cal EXCEPT !.code = @ + 1]
  ELSE Judged(d, cal.code)

(* The code goes to the field of its drive.                                *)
CodeWritten(d) ==
  IF d = "n" THEN [zq EXCEPT !.drive = d, !.n = cal.code]
  ELSE [zq EXCEPT !.drive = d, !.p = cal.code]

(* One turn of zqcal_calibrate_common: write the code, read the output.    *)
ZqProbe(d) ==
  /\ cal.pc = d
  /\ zq' = CodeWritten(d)
  /\ \E out \in ZqOutputs(d, cal.code) : cal' = Searched(d, out)
  /\ UNCHANGED zqCode

ZqSaveN ==
  /\ cal.pc = "saveN"
  /\ zqCode' = [zqCode EXCEPT ![cal.voh].n = cal.n]
  /\ cal' = [cal EXCEPT !.pc = "saveP"]
  /\ UNCHANGED zq

(* The pair is complete; the next voltage, or the end.                     *)
ZqSaveP ==
  /\ cal.pc = "saveP"
  /\ zqCode' = [zqCode EXCEPT ![cal.voh].p = cal.p]
  /\ cal' = IF cal.voh = "0P5"
            THEN [Begun(cal.trip) EXCEPT !.voh = "0P6"]
            ELSE [cal EXCEPT !.pc = "off"]
  /\ UNCHANGED zq

ZqOff_OnSuccess ==
  cal.pc = "off" /\ zq' = [zq EXCEPT !.en = ~cal.ok]
  /\ cal' = [cal EXCEPT !.pc = "ret"] /\ UNCHANGED zqCode
(* Disabled on success and on error alike; the caller has the result next. *)
ZqOff ==
  /\ cal.pc = "off"
  /\ zq' = [zq EXCEPT !.en = FALSE]
  /\ cal' = [cal EXCEPT !.pc = "ret"]
  /\ UNCHANGED zqCode

ZqStep == ZqVoltage \/ (\E d \in Drives : ZqProbe(d)) \/ ZqSaveN \/ ZqSaveP
          \/ ZqOff

ZqTypeOK ==
  /\ zq \in [en : BOOLEAN, drive : Drives, voh : Vohs, n : 0..NMax, p : 0..PMax]
  /\ zqCode \in [Vohs -> Pairs]
  /\ cal \in [pc : CalSteps, voh : Vohs, code : 0..(NMax + PMax), n : 0..NMax,
              p : 0..PMax, ok : BOOLEAN, trip : TripPoints \cup {NoTrip}]
=============================================================================
