----------------------------- MODULE WddrDevice -----------------------------
(***************************************************************************)
(* The WDDR device (dev/wddr/device.c) with the devices it drives: PLL,    *)
(* frequency-switch block, DFI buffer, ZQ and sense-amplifier calibration. *)
(* First wddr_boot, step by step, with its early returns; then run time:   *)
(* the firmware task prepares and completes switches and updates the       *)
(* driver codes, and the timer task, of lower priority, calibrates in      *)
(* between.  What PhyTask establishes is taken for granted here: no update *)
(* and no PREP once the hardware has moved (`Settled', in FreqSwitch, which*)
(* both implement).                                                        *)
(***************************************************************************)
EXTENDS ZqCal, SenseAmp, DfiFifo, PllVco

CONSTANTS
  BootFreq,       \* WDDR_PHY_BOOT_FREQ
  NoCode,         \* driver codes before any was written
  BootOptions,    \* the boot configurations that are tried, sets of options
  RunOptions,     \* those whose run time is explored ...
  RunBoots,       \* ... after no more calls of wddr_boot than this
  MaxBoots,       \* bound on the calls of wddr_boot
  MrwLens,        \* lengths of a frequency's list of MRW packets
  TrainResults,   \* outcomes of the external wddr_train
  TrainLoopback   \* whether it calls wddr_enable_loopback

ASSUME DeviceAssumption ==
  /\ BootFreq \in Freqs /\ NoFreq \notin Freqs
  /\ NoCode \notin Pairs
  /\ MrwLens \in [Freqs -> 1..FifoDepth]
  /\ TrainResults \subseteq BOOLEAN /\ TrainLoopback \subseteq BOOLEAN
  /\ BootOptions \subseteq SUBSET {"PLL_CAL", "ZQCAL_CAL", "SA_CAL", "TRAIN"}
  /\ MaxBoots \in Nat /\ RunBoots \in Nat

VARIABLES
  bp, opts, boots,   \* wddr_boot: label, boot configuration, calls so far
  halted,            \* a configASSERT failed
  pll, fllJobs, fllOn,  \* PLL; VCO bands to calibrate; VCOs with the FLL on
  fsw,       \* the frequency-switch block and what it selects, below
  shadow,    \* the copies of the PHY registers, one for each MSR, below
  cs, gb,    \* channels with a forced chip select; gearbox of each slice
  caRdata,      \* DDR_DFICH_TOP_1_CFG.CA_RDDATA_EN
  fifo, sent,   \* the DFI buffer; the packets of the last sending
  initStart,    \* dfi_init_start
  sw, moved, req  \* where a switch is, the hardware has moved; PHYUPD_REQ

bootVars == <<bp, opts, boots>>
pllVars  == <<pll, fllJobs, fllOn>>
padVars  == <<cs, gb, caRdata>>
bufVars  == <<fifo, sent>>
runVars  == <<sw, moved, req>>
vars == <<zqVars, saVars, bootVars, halted, pllVars, fsw, shadow, padVars,
          bufVars, initStart, runVars>>

Msrs     == {0, 1}
Channels == {s[1] : s \in SaSlices}

(* fsw: MSR toggle enable; override and its values; the override of        *)
(* dfi_init_complete; the MSR and VCO the hardware runs on.                *)
Fsws == [toggle : BOOLEAN, ovr : BOOLEAN, ovrMsr : Msrs, ovrVco : Vcos,
         notReady : BOOLEAN, msr : Msrs, vco : Vcos]
(* shadow[m]: the frequency each group of the copy was written for; the    *)
(* driver codes of CK and of DQS; who drives the CA and CK pads (the table,*)
(* with CS and CKE held low, or loopback); DQ and DQS pads, and DQS        *)
(* receivers, in loopback.                                                 *)
Groups   == {"caTx", "caBits", "ckBits", "caRx", "dqTx", "dqBits", "dqsBits",
             "dqRx", "cmn", "dfi"}
Strobes  == {"ck", "dqs"}
PadUsers == {"table", "low", "loop"}
Shadows == [freq : [Groups -> Freqs \cup {NoFreq}],
            code : [Strobes -> Pairs \cup {NoCode}],
            pads : PadUsers, dqLoop : BOOLEAN, rxLoop : BOOLEAN]

Init ==
  /\ ZqInit /\ SaInit
  /\ bp = "off" /\ opts = {} /\ boots = 0 /\ halted = FALSE
  /\ pll = BootedPll /\ fllJobs = {} /\ fllOn = {}
  /\ fsw = [toggle |-> TRUE, ovr |-> TRUE, ovrMsr |-> 0, ovrVco |-> "MCU",
            notReady |-> TRUE, msr |-> 0, vco |-> "MCU"]
  /\ shadow = [m \in Msrs |->
       [freq |-> [g \in Groups |-> NoFreq], code |-> [d \in Strobes |-> NoCode],
        pads |-> "table", dqLoop |-> FALSE, rxLoop |-> FALSE]]
  /\ cs = {} /\ gb = [s \in SaSlices |-> "reset"] /\ caRdata = FALSE
  /\ fifo = NewFifo /\ sent = <<>>
  /\ initStart \in BOOLEAN
  /\ sw = "idle" /\ moved = FALSE /\ req = FALSE

-----------------------------------------------------------------------------
(* Parts of several operations.                                            *)

Booted == bp = "booted"
Goto(l) == bp' = l /\ UNCHANGED <<opts, boots>>

(* The driver codes of all frequencies are those of ZQCAL_VOH_0P5.         *)
TableCode == zqCode["0P5"]

(* Each group of registers of a copy, from the tables of frequency f: the  *)
(* pipelines of the bits, ...                                              *)
CaBitPrep(c, f)  == [c EXCEPT !.freq["caBits"] = f]
CkBitPrep(c, f)  == [c EXCEPT !.freq["ckBits"] = f]
DqBitPrep(c, f)  == [c EXCEPT !.freq["dqBits"] = f]
DqsBitPrep(c, f) == [c EXCEPT !.freq["dqsBits"] = f]

(* ... the paths of CA and CK, ...                                         *)
(* Definitions named X_Y are faults planted in X.                          *)
CaTxPrep_PadsKept(c, f) ==
  [CkBitPrep(CaBitPrep(c, f), f) EXCEPT !.freq["caTx"] = f,
     !.code["ck"] = TableCode]
CaTxPrep(c, f) ==
  [CkBitPrep(CaBitPrep(c, f), f) EXCEPT !.freq["caTx"] = f,
     !.code["ck"] = TableCode, !.pads = "table"]
CaRxPrep(c, f) == [c EXCEPT !.freq["caRx"] = f]

(* ... of DQ and DQS, ...                                                  *)
DqTxPrep(c, f) ==
  [DqsBitPrep(DqBitPrep(c, f), f) EXCEPT !.freq["dqTx"] = f,
     !.code["dqs"] = TableCode, !.dqLoop = FALSE]
DqRxPrep_ModeKept(c, f) == [c EXCEPT !.freq["dqRx"] = f]
DqRxPrep(c, f) == [c EXCEPT !.freq["dqRx"] = f, !.rxLoop = FALSE]

(* ... the common block and the DFI: wddr_configure_phy.                   *)
CmnPrep(c, f)     == [c EXCEPT !.freq["cmn"] = f]
DfiPrep(c, f)     == [c EXCEPT !.freq["dfi"] = f]
DqBlockPrep(c, f) == DqRxPrep(DqTxPrep(c, f), f)
CaBlockPrep(c, f) == CaRxPrep(CaTxPrep(c, f), f)
Configured(c, f)  == DfiPrep(CmnPrep(CaBlockPrep(DqBlockPrep(c, f), f), f), f)

UpdatedCopy_Next == 1 - fsw.msr
UpdatedCopy == fsw.msr
(* wddr_iocal_update_phy: the codes of the copy in use.                    *)
UpdateCodes ==
  shadow' = [shadow EXCEPT ![UpdatedCopy].code = [d \in Strobes |-> TableCode]]

Toggled_Off == FALSE
Toggled == TRUE
(* wddr_sw_freq_switch, before the device has booted.                      *)
SwFreqSwitch(f, m) ==
  /\ pll' = SwSwitch(pll, f, FALSE)
  /\ fsw' = [fsw EXCEPT !.toggle = Toggled, !.ovr = TRUE, !.ovrMsr = m,
               !.ovrVco = pll'.current, !.msr = m, !.vco = pll'.current]

(* Packets: `f' for one of the MRW list of frequency f.                    *)
MrwList(f) == [i \in 1..MrwLens[f] |-> f]
FlushList  == <<"flush", "flush">>
PrimeList  == <<"cke">>

SendList(list) ==
  /\ fifo' = Sending(Filled(fifo, list))
  /\ sent' = <<>>

(* The hardware puts the oldest packet on the DFI bus.                     *)
Drain ==
  /\ Sends(fifo) /\ fifo.ig # <<>>
  /\ fifo' = [fifo EXCEPT !.ig = Tail(@)]
  /\ sent' = Append(sent, Head(fifo.ig))
  /\ UNCHANGED <<zqVars, saVars, bootVars, halted, pllVars, fsw, shadow,
                 padVars, initStart, runVars>>
-----------------------------------------------------------------------------
(* wddr_boot.                                                              *)

(* May be called again after a failure.  Only before the PHY has a clock   *)
(* of its own does pll_calibrate_vco do anything.                          *)
BootStart(o) ==
  /\ bp \in {"off", "failed"} /\ boots < MaxBoots
  /\ opts' = o /\ boots' = boots + 1
  /\ bp' = "pll"
  /\ fllJobs' = IF "PLL_CAL" \in o /\ pll.current = "MCU"
                THEN Freqs \X PhyVcos ELSE {}
  /\ UNCHANGED <<zqVars, saVars, halted, pll, fllOn, fsw, shadow, padVars,
                 bufVars, initStart, runVars>>

BootFll ==                    \* one turn of pll_calibrate_vco: the FLL runs
  /\ bp = "pll" /\ fllJobs # {} /\ fllOn = {}
  /\ fllOn' = {(CHOOSE j \in fllJobs : TRUE)[2]}
  /\ UNCHANGED <<zqVars, saVars, bootVars, halted, pll, fllJobs, fsw, shadow,
                 padVars, bufVars, initStart, runVars>>

BootFllLocked ==              \* ... until it locks; its band is in the table
  /\ bp = "pll" /\ fllOn # {}
  /\ fllJobs' = fllJobs \ {CHOOSE j \in fllJobs : TRUE}
  /\ fllOn' = {}
  /\ UNCHANGED <<zqVars, saVars, bootVars, halted, pll, fsw, shadow, padVars,
                 bufVars, initStart, runVars>>

BootPads ==                   \* CS and CKE held low by the pads of MSR 0
  /\ bp = "pll" /\ fllJobs = {} /\ fllOn = {}
  /\ shadow' = [shadow EXCEPT ![0].pads = "low"]
  /\ Goto("freq")
  /\ UNCHANGED <<zqVars, saVars, halted, pllVars, fsw, padVars, bufVars,
                 initStart, runVars>>

BootSwitch ==
  /\ bp = "freq"
  /\ SwFreqSwitch(BootFreq, 0)
  /\ Goto("phy")
  /\ UNCHANGED <<zqVars, saVars, halted, fllJobs, fllOn, shadow, padVars,
                 bufVars, initStart, runVars>>

(* wddr_configure_phy of MSR 0, and the flush packets are sent.            *)
BootConfigure ==
  /\ bp = "phy"
  /\ shadow' = [shadow EXCEPT ![0] = Configured(@, BootFreq)]
  /\ gb' = [s \in SaSlices |-> "table"]
  /\ SendList(FlushList)
  /\ Goto("flush")
  /\ UNCHANGED <<zqVars, saVars, halted, pllVars, fsw, cs, caRdata, initStart,
                 runVars>>

BootFlushed ==
  /\ bp = "flush" /\ fifo.ig = <<>>
  /\ fifo' = Disabled(SendOver(fifo))
  /\ IF "ZQCAL_CAL" \in opts THEN Goto("zq") /\ ZqStart
     ELSE Goto("sa") /\ UNCHANGED zqVars
  /\ UNCHANGED <<saVars, halted, pllVars, fsw, shadow, padVars, sent,
                 initStart, runVars>>

(* wddr_iocal_calibrate returns: an error fails its assertion.             *)
CalReturn ==
  /\ cal.pc = "ret"
  /\ cal' = NoCal
  /\ halted' = ~cal.ok
  /\ UNCHANGED <<zq, zqCode>>

BootCalibrated ==
  /\ bp = "zq" /\ CalReturn
  /\ IF cal.ok THEN UpdateCodes /\ Goto("sa")
     ELSE UNCHANGED <<shadow, bootVars>>
  /\ UNCHANGED <<saVars, pllVars, fsw, padVars, bufVars, initStart, runVars>>

(* A slice: chip select forced, gearbox set for the calibration, the call. *)
BootSlice ==
  /\ bp = "sa" /\ sac.pc = "idle"
  /\ cs' = cs \cup {sac.slice[1]}
  /\ gb' = [gb EXCEPT ![sac.slice] = "cal"]
  /\ SaBegin(sac.slice, "SA_CAL" \in opts)
  /\ UNCHANGED <<zqVars, bootVars, halted, pllVars, fsw, shadow, caRdata,
                 bufVars, initStart, runVars>>

LastByte(s)  == s[2] = SaBytes - 1
LastSlice(s) == LastByte(s) /\ s[1] = SaChannels - 1
NextSlice(s) == IF LastByte(s) THEN <<s[1] + 1, 0>> ELSE <<s[1], s[2] + 1>>

(* The gearbox is reset; the next byte, or the end of the channel.         *)
BootSliceDone ==
  /\ bp = "sa" /\ sac.pc = "ret" /\ sac.ok
  /\ gb' = [gb EXCEPT ![sac.slice] = "table"]
  /\ cs' = IF LastByte(sac.slice) THEN cs \ {sac.slice[1]} ELSE cs
  /\ IF LastSlice(sac.slice) THEN sac' = NoSac /\ Goto("train")
     ELSE sac' = [NoSac EXCEPT !.slice = NextSlice(sac.slice)]
          /\ UNCHANGED bootVars
  /\ UNCHANGED <<zqVars, saReg, saTab, saState, halted, pllVars, fsw,
                 shadow, caRdata, bufVars, initStart, runVars>>

(* PROPAGATE_ERROR: chip select, gearbox and amplifiers stay as they are.  *)
BootSliceFailed ==
  /\ bp = "sa" /\ sac.pc = "ret" /\ ~sac.ok
  /\ sac' = NoSac
  /\ Goto("failed")
  /\ UNCHANGED <<zqVars, saReg, saTab, saState, halted, pllVars, fsw,
                 shadow, padVars, bufVars, initStart, runVars>>

(* wddr_enable_loopback: the copy in use.                                  *)
LoopedBack(c) == [c EXCEPT !.pads = "loop", !.dqLoop = TRUE, !.rxLoop = TRUE]

(* wddr_train is the integrator's.  Its use of loopback is the one the     *)
(* header allows: wddr_enable_loopback, in the MSR in use.                 *)
BootTrain ==
  /\ bp = "train"
  /\ IF "TRAIN" \notin opts
     THEN Goto("prime") /\ UNCHANGED <<shadow, caRdata>>
     ELSE \E ok \in TrainResults, loop \in TrainLoopback :
            /\ Goto(IF ok THEN "prime" ELSE "failed")
            /\ shadow' = IF loop THEN [shadow EXCEPT ![fsw.msr] = LoopedBack(@)]
                         ELSE shadow
            /\ caRdata' = (caRdata \/ loop)
  /\ UNCHANGED <<zqVars, saVars, halted, pllVars, fsw, cs, gb, bufVars,
                 initStart, runVars>>

BootPrime ==
  /\ bp = "prime"
  /\ SendList(PrimeList)
  /\ Goto("primed")
  /\ UNCHANGED <<zqVars, saVars, halted, pllVars, fsw, shadow, padVars,
                 initStart, runVars>>

BootPrimed_NotDisabled ==
  /\ bp = "primed" /\ fifo.ig = <<>> /\ fifo' = SendOver(fifo)
  /\ Goto("vco")
  /\ UNCHANGED <<zqVars, saVars, halted, pllVars, fsw, shadow, padVars, sent,
                 initStart, runVars>>
BootPrimed ==
  /\ bp = "primed" /\ fifo.ig = <<>>
  /\ fifo' = Disabled(SendOver(fifo))
  /\ Goto("vco")
  /\ UNCHANGED <<zqVars, saVars, halted, pllVars, fsw, shadow, padVars, sent,
                 initStart, runVars>>

(* A turn of the loop that leaves the PHY on VCO_INDEX_PHY_1, or its end.  *)
BootVco ==
  /\ bp = "vco"
  /\ IF pll.current = "PHY_1" THEN Goto("ovr") /\ UNCHANGED <<pll, fsw>>
     ELSE SwFreqSwitch(BootFreq, 0) /\ UNCHANGED bootVars
  /\ UNCHANGED <<zqVars, saVars, halted, fllJobs, fllOn, shadow, padVars,
                 bufVars, initStart, runVars>>

(* fsw_switch_to_dfi_mode: while the override is on its values select ...  *)
BootOverride ==
  /\ bp = "ovr"
  /\ fsw' = [fsw EXCEPT !.ovr = FALSE, !.ovrMsr = 0, !.ovrVco = "PHY_1",
               !.msr = IF fsw.ovr THEN 0 ELSE @,
               !.vco = IF fsw.ovr THEN "PHY_1" ELSE @]
  /\ Goto("release")
  /\ UNCHANGED <<zqVars, saVars, halted, pllVars, shadow, padVars, bufVars,
                 initStart, runVars>>

(* ... then dfi_init_complete is the hardware's to drive.                  *)
BootRelease ==
  /\ bp = "release"
  /\ fsw' = [fsw EXCEPT !.notReady = FALSE]
  /\ Goto("wait")
  /\ UNCHANGED <<zqVars, saVars, halted, pllVars, shadow, padVars, bufVars,
                 initStart, runVars>>

McInitDone ==                 \* the MC lowers dfi_init_start in answer
  /\ ~fsw.notReady /\ initStart
  /\ initStart' = FALSE
  /\ UNCHANGED <<zqVars, saVars, bootVars, halted, pllVars, fsw, shadow,
                 padVars, bufVars, runVars>>

BootEnd ==
  /\ bp = "wait" /\ ~initStart
  /\ Goto("booted")
  /\ UNCHANGED <<zqVars, saVars, halted, pllVars, fsw, shadow, padVars,
                 bufVars, initStart, runVars>>

BootStep ==
  \/ BootFll \/ BootPads \/ BootSwitch \/ BootConfigure \/ BootFlushed
  \/ BootCalibrated \/ BootSlice \/ BootSliceDone \/ BootSliceFailed
  \/ BootTrain \/ BootPrime \/ BootPrimed \/ BootVco \/ BootOverride
  \/ BootRelease \/ BootEnd
-----------------------------------------------------------------------------
(* Run time.  `sw': idle, prep (PREP_DONE is set), sending (the task saw   *)
(* INIT_START come and go and spins on the FIFO), sent (PLL_LOCK is due).  *)

Running == Booted /\ ~halted /\ opts \in RunOptions /\ boots <= RunBoots
Receives == sw \in {"idle", "prep"}    \* fswPrep: the task is not in a switch
Settled_Receives == Receives
Settled == Receives /\ ~moved

PreparedCopy_Current == fsw.msr
PreparedCopy == 1 - fsw.msr             \* fsw_get_next_msr

(* fsw_prepare_switch_handler with wddr_prep_switch; again in fswPrep.     *)
Prep(f) ==
  /\ Running /\ Settled
  /\ shadow' = [shadow EXCEPT ![PreparedCopy] = Configured(@, f)]
  /\ fifo' = Filled(fifo, MrwList(f))
  /\ pll' = Prepare(pll, f)
  /\ gb' = IF PreparedCopy = 0 THEN [s \in SaSlices |-> "table"] ELSE gb
  /\ sw' = "prep"
  /\ UNCHANGED <<zqVars, saVars, bootVars, halted, fllJobs, fllOn, fsw, cs,
                 caRdata, sent, initStart, moved, req>>

(* fsw_pending_entry_handler: the packets go, an update request is aborted.*)
SwitchStart ==
  /\ Running /\ sw = "prep"
  /\ fifo' = Sending(fifo) /\ sent' = <<>>
  /\ sw' = "sending" /\ req' = FALSE
  /\ UNCHANGED <<zqVars, saVars, bootVars, halted, pllVars, fsw, shadow,
                 padVars, initStart, moved>>

SwitchSent ==
  /\ sw = "sending" /\ fifo.ig = <<>>
  /\ fifo' = Disabled(SendOver(fifo))
  /\ sw' = "sent"
  /\ UNCHANGED <<zqVars, saVars, bootVars, halted, pllVars, fsw, shadow,
                 padVars, sent, initStart, moved, req>>

(* The hardware moves to the other MSR and VCO, as MSR_TOGGLE_EN and the   *)
(* overrides let it (VCO_TOGGLE_EN is set at reset and never cleared); it  *)
(* may do so before the task has taken its message of INIT_START.          *)
HwSwitch ==
  /\ sw # "idle" /\ ~moved
  /\ moved' = TRUE
  /\ fsw' = IF fsw.ovr THEN fsw
            ELSE [fsw EXCEPT !.msr = IF fsw.toggle THEN 1 - @ ELSE @,
                             !.vco = IF @ = "PHY_1" THEN "PHY_2" ELSE "PHY_1"]
  /\ UNCHANGED <<zqVars, saVars, bootVars, halted, pllVars, shadow, padVars,
                 bufVars, initStart, sw, req>>

PostSwitch ==                 \* fsw_post_switch_handler, on PLL_LOCK
  /\ sw = "sent" /\ moved
  /\ pll' = DisableVco(SwitchVco(pll))
  /\ fsw' = [fsw EXCEPT !.toggle = TRUE]
  /\ sw' = "idle" /\ moved' = FALSE
  /\ UNCHANGED <<zqVars, saVars, bootVars, halted, fllJobs, fllOn, shadow,
                 padVars, bufVars, initStart, req>>

(* dfi_phyupd_timer_callback: calibrate ...                                *)
TimerFires ==
  /\ Running /\ sw # "sending"
  /\ ZqStart
  /\ UNCHANGED <<saVars, bootVars, halted, pllVars, fsw, shadow, padVars,
                 bufVars, initStart, runVars>>

(* ... then ask for an update, which is dropped while a switch is pending. *)
TimerReturns ==
  /\ Booted /\ ~halted /\ sw # "sending"
  /\ CalReturn
  /\ req' = (req \/ (cal.ok /\ Receives))
  /\ UNCHANGED <<saVars, bootVars, pllVars, fsw, shadow, padVars, bufVars,
                 initStart, sw, moved>>

Update ==                     \* dfi_phyupd_update, on PHYUPD_ACK
  /\ Running /\ req /\ Settled
  /\ UpdateCodes
  /\ req' = FALSE
  /\ UNCHANGED <<zqVars, saVars, bootVars, halted, pllVars, fsw, padVars,
                 bufVars, initStart, sw, moved>>

(* A calibration goes on while no task of higher priority is busy.         *)
CalStep ==
  /\ ~halted /\ sw # "sending"
  /\ ZqStep
  /\ UNCHANGED <<saVars, bootVars, halted, pllVars, fsw, shadow, padVars,
                 bufVars, initStart, runVars>>

AmpStep ==
  /\ SaStep
  /\ UNCHANGED <<zqVars, bootVars, halted, pllVars, fsw, shadow, padVars,
                 bufVars, initStart, runVars>>

SwitchStep == SwitchSent \/ PostSwitch

Next ==
  \/ \E o \in BootOptions : BootStart(o)
  \/ BootStep \/ BootFllLocked \/ CalStep \/ AmpStep \/ Drain \/ McInitDone
  \/ \E f \in Freqs : Prep(f)
  \/ SwitchStart \/ HwSwitch \/ SwitchStep
  \/ TimerFires \/ TimerReturns \/ Update

Spec == Init /\ [][Next]_vars
=============================================================================
