------------------------------ MODULE SenseAmp ------------------------------
(***************************************************************************)
(* Calibration of the sense amplifiers of a DQ byte (dev/channel/device.c, *)
(* drivers/dq/dq_sa.c).  A slice is one byte of one channel; each of its   *)
(* bits has two amplifiers, SA_0 and SA_180, whose codes share a register, *)
(* one register for each MSR and rank.  Unit u of a slice is amplifier     *)
(* u % 2 of bit u \div 2, in the order of the loops.  The codes are tried  *)
(* in the register of MSR 0 and rank 0.                                    *)
(***************************************************************************)
EXTENDS Naturals

CONSTANTS
  SaMax,       \* WAV_SA_MAX_CAL_CODE
  SaBits,      \* bits of a slice (WDDR_PHY_DQ_SLICE_NUM is 9)
  SaChannels,  \* WDDR_PHY_CHANNEL_NUM
  SaBytes,     \* WDDR_PHY_DQ_BYTE_NUM
  SaBands,     \* bands lo..hi of codes at which an amplifier reads noise
  TableSa      \* the code the table holds before calibration

SaSlices == (0..(SaChannels - 1)) \X (0..(SaBytes - 1))
SaMid   == (SaMax + 1) \div 2
SaUnits == 0..(2 * SaBits - 1)
SaCodes == 0..SaMax
SaRegs  == [msr : {0, 1}, rank : {0, 1}]
Probed  == [msr |-> 0, rank |-> 0]

ASSUME SaAssumption ==
  /\ SaMax \in Nat /\ SaMax >= 1 /\ SaMax % 2 = 1
  /\ {SaBits, SaChannels, SaBytes} \subseteq Nat \ {0}
  /\ SaBands \subseteq [lo : Nat, hi : Nat] /\ \A b \in SaBands : b.lo <= b.hi
  /\ TableSa \in SaCodes

VARIABLES
  saReg,     \* DDR_DQ_DQ_RX_SA_CFG: sign and magnitude of every amplifier
  saTab,     \* table->cfg.common.channel.dq.rx.sa: the codes
  saState,   \* DDR_DQ_DQS_RX_SA_CMN_CFG of every slice
  sac        \* the running call: label, slice, unit and its band of noise,
             \* code tried, code_up, result

saVars == <<saReg, saTab, saState, sac>>

SaSteps == {"idle", "clear", "up", "down", "put", "ret"}
NoBand == [lo |-> 0, hi |-> 0]
NoSac == [pc |-> "idle", slice |-> <<0, 0>>, calibrate |-> FALSE, unit |-> 0,
          band |-> NoBand, code |-> 0, up |-> 0, ok |-> TRUE]

(* dq_dq_sa_set_cal_code_reg_if: codes below the middle count downwards.   *)
SaField_NoMinusOne(code) ==
  IF code < SaMid THEN [dir |-> "NEG", mag |-> SaMid - code]
  ELSE [dir |-> "POS", mag |-> code - SaMid]
SaField(code) ==
  IF code < SaMid THEN [dir |-> "NEG", mag |-> SaMid - (code + 1)]
  ELSE [dir |-> "POS", mag |-> code - SaMid]

(* dq_dq_sa_clear_cal_code_reg_if writes zero to the whole register.       *)
Cleared == [dir |-> "NEG", mag |-> 0]

SaInit ==
  /\ saReg = [r \in SaRegs |-> [s \in SaSlices |-> [u \in SaUnits |-> Cleared]]]
  /\ saTab = [s \in SaSlices |-> [u \in SaUnits |-> TableSa]]
  /\ saState = [s \in SaSlices |-> "reset"]
  /\ sac = NoSac

(* DDR_DQ_DQ_RX_SA_STA: 1 for a code below the band, 0 above it.           *)
SaOutputs(code) ==
  IF saState[sac.slice] # "CAL_ENABLED" THEN {0, 1}
  ELSE IF code < sac.band.lo THEN {1}
  ELSE IF code >= sac.band.hi THEN {0} ELSE {0, 1}

SaTry(code) ==
  saReg' = [saReg EXCEPT ![Probed][sac.slice][sac.unit] = SaField(code)]

(* channel_rx_sa_dqbyte_configure begins.                                  *)
SaBegin(s, calibrate) ==
  /\ sac' = [NoSac EXCEPT !.slice = s, !.calibrate = calibrate,
                          !.pc = IF calibrate THEN "clear" ELSE "put"]
  /\ saState' = [saState EXCEPT ![s] = "CAL_ENABLED"]
  /\ UNCHANGED <<saReg, saTab>>

(* The clear takes the code of the bit's other amplifier along.            *)
SaClear ==
  /\ sac.pc = "clear"
  /\ saReg' = [saReg EXCEPT ![Probed][sac.slice] =
       [u \in SaUnits |-> IF u \div 2 = sac.unit \div 2 THEN Cleared ELSE @[u]]]
  /\ \E b \in SaBands :
       sac' = [sac EXCEPT !.pc = "up", !.code = 0, !.band = b]
  /\ UNCHANGED <<saTab, saState>>

(* The output must be 1 at the least code and 0 at the greatest.           *)
SaAbsurd(code, out) ==
  (code = 0 /\ out = 0) \/ (code = SaMax /\ out = 1)

(* Upwards to the first 0 ...                                              *)
SaUp ==
  /\ sac.pc = "up"
  /\ SaTry(sac.code)
  /\ \E out \in SaOutputs(sac.code) :
       sac' = IF SaAbsurd(sac.code, out)
              THEN [sac EXCEPT !.pc = "ret", !.ok = FALSE]
              ELSE IF out = 0
              THEN [sac EXCEPT !.pc = "down", !.up = sac.code, !.code = SaMax]
              ELSE [sac EXCEPT !.code = @ + 1]
  /\ UNCHANGED <<saTab, saState>>

Average_Up(up, down) == up + 1
Average(up, down) == (down + up) \div 2

(* ... and downwards to the first 1: the code between is saved.            *)
SaDown ==
  /\ sac.pc = "down"
  /\ SaTry(sac.code)
  /\ \E out \in SaOutputs(sac.code) :
       IF SaAbsurd(sac.code, out)
       THEN sac' = [sac EXCEPT !.pc = "ret", !.ok = FALSE] /\ UNCHANGED saTab
       ELSE IF out = 1
       THEN /\ saTab' = [saTab EXCEPT ![sac.slice][sac.unit] =
                           Average(sac.up, sac.code)]
            /\ sac' = [sac EXCEPT !.pc = "put"]
       ELSE sac' = [sac EXCEPT !.code = @ - 1] /\ UNCHANGED saTab
  /\ UNCHANGED saState

Written_OneRank == {r \in SaRegs : r.rank = 0}
Written == SaRegs                     \* both ranks and both MSRs

(* The code goes to its registers; the next unit, or SA_STATE_DYNAMIC.     *)
SaPut ==
  /\ sac.pc = "put"
  /\ saReg' = [r \in SaRegs |->
       IF r \in Written
       THEN [saReg[r] EXCEPT ![sac.slice][sac.unit] =
               SaField(saTab[sac.slice][sac.unit])]
       ELSE saReg[r]]
  /\ IF sac.unit + 1 \in SaUnits
     THEN /\ sac' = [sac EXCEPT !.unit = @ + 1, !.code = 0, !.up = 0,
                       !.band = NoBand,
                       !.pc = IF sac.calibrate THEN "clear" ELSE "put"]
          /\ UNCHANGED saState
     ELSE /\ sac' = [sac EXCEPT !.pc = "ret"]
          /\ saState' = [saState EXCEPT ![sac.slice] = "DYNAMIC"]
  /\ UNCHANGED saTab

SaStep == SaClear \/ SaUp \/ SaDown \/ SaPut

SaTypeOK ==
  /\ saReg \in [SaRegs -> [SaSlices -> [SaUnits ->
       [dir : {"NEG", "POS"}, mag : 0..(SaMid - 1)]]]]
  /\ saTab \in [SaSlices -> [SaUnits -> SaCodes]]
  /\ saState \in [SaSlices -> {"reset", "DYNAMIC", "CAL_ENABLED"}]
  /\ sac \in [pc : SaSteps, slice : SaSlices, calibrate : BOOLEAN,
              unit : SaUnits, band : SaBands \cup {NoBand}, code : SaCodes,
              up : SaCodes, ok : BOOLEAN]
=============================================================================
