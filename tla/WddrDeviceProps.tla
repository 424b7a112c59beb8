-------------------------- MODULE WddrDeviceProps --------------------------
(* What must hold of the WDDR device.                                      *)
EXTENDS WddrDevice

Packets == Freqs \cup {"flush", "cke"}
Fifos == [clk : BOOLEAN, bufMode : BOOLEAN, ts : BOOLEAN, ig : Seq(Packets)]

TypeOK ==
  /\ ZqTypeOK /\ SaTypeOK
  /\ bp \in {"off", "pll", "freq", "phy", "flush", "zq", "sa", "train",
             "prime", "primed", "vco", "ovr", "release", "wait", "booted",
             "failed"}
  /\ opts \in BootOptions \cup {{}} /\ boots \in 0..MaxBoots
  /\ halted \in BOOLEAN
  /\ pll \in Plls /\ fllJobs \subseteq Freqs \X PhyVcos /\ fllOn \subseteq PhyVcos
  /\ fsw \in Fsws /\ shadow \in [Msrs -> Shadows]
  /\ cs \subseteq Channels /\ caRdata \in BOOLEAN
  /\ gb \in [SaSlices -> {"reset", "table", "cal"}]
  /\ fifo \in Fifos /\ Len(fifo.ig) <= FifoDepth /\ sent \in Seq(Packets)
  /\ initStart \in BOOLEAN /\ moved \in BOOLEAN /\ req \in BOOLEAN
  /\ sw \in {"idle", "prep", "sending", "sent"}

(* A ZQ calibration that succeeds leaves, for both voltages and both       *)
(* drives, exactly the code at which the comparator trips: one less would  *)
(* not trip, and no later search disturbs an earlier result.               *)
(* (dev/cmn/device.c:63-140, whose searches count the last probe, not one  *)
(* past it.)                                                               *)
CodesAreExact == cal.pc = "ret" /\ cal.ok => zqCode = cal.trip

(* A calibration that fails does so because a trip point is out of range   *)
(* of its codes, never because of the search (dev/cmn/device.c:96-117).    *)
FailuresAreReal ==
  cal.pc = "ret" /\ ~cal.ok =>
    \E v \in Vohs, d \in Drives : ~(cal.trip[v][d] \in 1..(MaxCode(d) - 1))

(* The comparator is never left on by a calibration, failed or not: it is  *)
(* on exactly while one is under way (dev/cmn/device.c:126-140).           *)
ComparatorOff == zq.en <=> cal.pc \notin {"idle", "ret"}

(* The code saved for an amplifier lies in its band of noise: the average  *)
(* of a search from below and one from above is neither sure to read 1 by  *)
(* more than a step nor sure to read 0 (dev/channel/device.c:249-303).     *)
SaCodeInBand ==
  sac.pc = "put" /\ sac.calibrate =>
    saTab[sac.slice][sac.unit] + 1 \in sac.band.lo..sac.band.hi

(* When wddr_boot has succeeded, both ranks and both MSRs hold the codes   *)
(* of the table for every amplifier, but for the register the calibration  *)
(* tries its codes in (dev/channel/device.c:304-319; SaRegsHoldCodes).     *)
SaShadowHolds ==
  Booted =>
    \A r \in SaRegs, s \in SaSlices, u \in SaUnits :
      r # Probed \/ "SA_CAL" \notin opts => saReg[r][s][u] = SaField(saTab[s][u])

(* The same of every register, as the comment says.                        *)
(* `Update value for RANK 0 and RANK 1; and both MSRs'.                    *)
(* (dev/channel/device.c:304.)                                             *)
SaRegsHoldCodes ==
  Booted => \A r \in SaRegs, s \in SaSlices, u \in SaUnits :
              saReg[r][s][u] = SaField(saTab[s][u])

(* Once the memory controller may see dfi_init_complete, nothing that the  *)
(* boot forced is left: pads, chip selects, gearboxes, amplifiers, the DFI *)
(* buffer, FLLs, overrides; the PHY runs on MSR 0 and VCO PHY_1, whether   *)
(* or not an earlier call of wddr_boot returned half way                   *)
(* (dev/wddr/device.c:116-245).                                            *)
ReleasedClean ==
  bp \in {"wait", "booted"} =>
    /\ \A m \in Msrs : shadow[m].pads # "low"
    /\ cs = {} /\ \A s \in SaSlices : gb[s] = "table" /\ saState[s] = "DYNAMIC"
    /\ fllOn = {} /\ ~fsw.ovr /\ fsw.toggle
    /\ bp = "wait" => fsw.msr = 0 /\ fsw.vco = "PHY_1" /\ ~fifo.bufMode

(* The DFI bus belongs to the memory controller whenever nothing is sent   *)
(* (dfi_buffer_disable after every send).                                  *)
BusIsReturned == Booted /\ sw # "sending" => ~fifo.bufMode

(* What goes out during a switch is the mode registers of the frequency    *)
(* being switched to: all of them and nothing else, however often the      *)
(* switch was prepared anew (dev/wddr/device.c:432-467).                   *)
SwitchSendsPrepared ==
  Booted /\ sw = "sent" => sent = MrwList(pll.freq[FreeVco(pll)])

(* Software and hardware agree: outside a switch the VCO that clocks the   *)
(* PHY is the current one, it is enabled, and every group of the copy of   *)
(* the registers in use is configured for its frequency (pll, fsw and wddr *)
(* devices).                                                               *)
InUseConfigured ==
  Booted /\ Settled =>
    /\ fsw.vco = pll.current /\ pll.current \in pll.enabled
    /\ \A g \in Groups : shadow[fsw.msr].freq[g] = pll.freq[pll.current]

(* Preparing a switch never touches the copy in use; only an update does,  *)
(* and only the driver codes (dev/fsw/device.c:87-95, dev/wddr/            *)
(* device.c:271-302).                                                      *)
InUseUntouched ==
  [][Booted /\ fsw'.msr = fsw.msr =>
       /\ [shadow'[fsw.msr] EXCEPT !.code = {}]
            = [shadow[fsw.msr] EXCEPT !.code = {}]
       /\ shadow'[fsw.msr] # shadow[fsw.msr] => req]_vars

(* The VCO that clocks the PHY is never turned off and never reconfigured, *)
(* although the hardware takes it up before the PLL device knows: neither  *)
(* by a later preparation nor by the end of the switch, which turns off the*)
(* other one (dev/pll/device.c:109-176).                                   *)
RunningVcoKept ==
  [][Booted => /\ fsw.vco \in pll'.enabled
               /\ pll'.freq[fsw.vco] = pll.freq[fsw.vco]]_vars

(* After a prepared switch the copy in use is out of loopback, whatever    *)
(* training left (include/dev/wddr/device.h:135).                          *)
InLoopback(c) == c.pads = "loop" \/ c.dqLoop \/ c.rxLoop
PadsLeaveLoopback == [][PostSwitch => ~InLoopback(shadow'[fsw'.msr])]_vars

(* The same of the whole loopback state.  `Perform a frequency prep and    *)
(* switch to reset loopback state.' (include/dev/wddr/device.h:135.)       *)
LoopbackIsReset ==
  [][PostSwitch => ~InLoopback(shadow'[fsw'.msr]) /\ ~caRdata']_vars

-----------------------------------------------------------------------------
(* Refinement: seen from the devices too, a change of frequency is what    *)
(* FreqSwitch says.  Neither a preparation nor an update happens once the  *)
(* hardware has moved, the VCO that is configured never is the one that    *)
(* runs, and the firmware ends on the one the hardware went to.            *)
Phase ==
  CASE sw = "idle"    -> "idle"
    [] sw = "prep"    -> "prepared"
    [] sw = "sending" -> "draining"
    [] sw = "sent"    -> "locking"

Switch == INSTANCE FreqSwitch WITH
  Clocks   <- Vcos, NoClock <- NoVco,
  Requests <- {"PHYUPD_REQ"}, LateGrants <- FALSE,
  up       <- Booted, phase <- Phase, clock <- pll.current,
  running  <- fsw.vco, target <- pll.next, freq <- pll.freq,
  requests <- IF req THEN {"PHYUPD_REQ"} ELSE {}

DeviceImplementsSwitch == Switch!Spec

-----------------------------------------------------------------------------
(* Liveness.                                                               *)

(* The boot runs alone; FLL, FIFO and MC answer; the hardware completes a  *)
(* switch that the task has begun; the timer goes off again and again.  The*)
(* MC acknowledges a request much faster than the timer's period: not every*)
(* update comes with a calibration under way.                              *)
BootRuns  == BootStep \/ BootFllLocked \/ AmpStep
TimerRuns == TimerFires \/ CalStep \/ TimerReturns
Switches  == SwitchStep \/ (~Receives /\ HwSwitch)

Fairness ==
  /\ WF_vars(BootRuns) /\ WF_vars(Drain) /\ WF_vars(McInitDone)
  /\ WF_vars(Switches) /\ WF_vars(TimerRuns)
  /\ SF_vars(Update /\ cal.pc = "idle")

FairSpec == Spec /\ Fairness

(* A call of wddr_boot ends: its loop over VCOs and its waits are finite.  *)
BootEnds == bp = "pll" ~> Booted \/ bp = "failed" \/ halted

CodesCurrent == \A d \in Strobes : shadow[fsw.msr].code[d] = TableCode

(* If the host leaves the PHY at a frequency, the driver codes in use do   *)
(* not stay other than those of the table, whether a calibration came      *)
(* after the switch was prepared, a request was dropped or aborted by the  *)
(* switch, or an update read a pair half saved (dev/cmn/                   *)
(* device.c:119-120): in the end an update writes a whole pair.            *)
CodesHeal ==
  <>[]Settled =>
    (Running /\ ~CodesCurrent ~> halted \/ (cal.pc = "idle" /\ CodesCurrent))
=============================================================================
