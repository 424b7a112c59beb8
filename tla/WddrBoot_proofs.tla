-------------------------- MODULE WddrBoot_proofs ---------------------------
(***************************************************************************)
(* The clock, and what wddr_boot leaves behind, for every set of           *)
(* frequencies, every number of channels and bytes and however many calls  *)
(* failed half way before.                                                 *)
(***************************************************************************)
EXTENDS WddrDevice_proofs

-----------------------------------------------------------------------------
(* The clock.  Software and hardware agree about the clock and the copy of *)
(* the registers in use.  ClockInv says where each of the two VCOs and the *)
(* two copies stands in every phase of the boot and of a switch.           *)

(* During the boot the overrides hold the hardware on MSR 0 and on the     *)
(* current VCO, up to the release.                                         *)
BootClock ==
  ~Booted =>
    /\ sw = "idle" /\ ~moved /\ ~req
    /\ fsw.msr = 0 /\ fsw.toggle /\ fsw.vco = pll.current
    /\ pll.enabled = {pll.current} \ {"MCU"}
    /\ fsw.ovr <=> bp \notin {"release", "wait"}
    /\ bp \in {"ovr", "release", "wait"} => pll.current = "PHY_1"
    /\ bp \notin {"off", "pll", "freq", "failed"} =>
         pll.freq[pll.current] = BootFreq
    /\ bp \notin {"off", "pll", "freq", "phy", "failed"} =>
         \A g \in Groups : shadow[0].freq[g] = BootFreq

(* The copy a prepared switch leads to, or has led to.                     *)
Target == IF moved THEN fsw.msr ELSE 1 - fsw.msr

InUse ==
  /\ fsw.vco = pll.current
  /\ \A g \in Groups : shadow[fsw.msr].freq[g] = pll.freq[pll.current]
Prepared ==
  /\ pll.next = FreeVco(pll) /\ pll.enabled = {pll.current, pll.next}
  /\ \A g \in Groups : shadow[Target].freq[g] = pll.freq[pll.next]
  /\ ~InLoopback(shadow[Target])

RunClock ==
  Booted =>
    /\ ~fsw.ovr /\ fsw.toggle /\ pll.current \in PhyVcos
    /\ moved => sw # "idle" /\ fsw.vco = pll.next
    /\ ~moved => InUse
    /\ sw = "idle" => pll.enabled = {pll.current}
    /\ sw # "idle" => Prepared

ClockInv == BootClock /\ RunClock

clockVars == <<bp, pll, fsw, shadow, sw, moved, req>>

LEMMA ClockSame ==
  ASSUME ClockInv, UNCHANGED clockVars
  PROVE  ClockInv'
BY DEF clockVars, ClockInv, BootClock, RunClock, InUse, Prepared, Target, Booted,
  InLoopback

LEMMA Copies ==
  ASSUME TypeInv
  PROVE  /\ fsw \in Fsws /\ pll \in Plls /\ shadow \in [Msrs -> Shadows]
         /\ fsw.msr \in {0, 1} /\ 1 - fsw.msr \in {0, 1} /\ Msrs = {0, 1}
         /\ 1 - fsw.msr # fsw.msr /\ 1 - (1 - fsw.msr) = fsw.msr
         /\ TableCode \in Pairs /\ bp \in Labels
BY CodesWritten
DEF TypeInv, ClockOK, PadsOK, ControlOK, Fsws, Msrs

LEMMA ClockInit == Init => ClockInv
BY DEF Init, ClockInv, BootClock, RunClock, Booted, BootedPll, Msrs

-----------------------------------------------------------------------------
(* The steps of the boot.                                                  *)

LEMMA StartClock ==
  ASSUME ClockInv, NEW o \in BootOptions, BootStart(o)
  PROVE  ClockInv'
BY DEF BootStart, ClockInv, BootClock, RunClock, Booted, runVars

LEMMA FllClock ==
  ASSUME ClockInv, BootFll \/ BootFllLocked
  PROVE  ClockInv'
BY ClockSame DEF BootFll, BootFllLocked, bootVars, runVars, clockVars

LEMMA PadsClock ==
  ASSUME ClockInv, BootPads
  PROVE  ClockInv'
BY DEF BootPads, ClockInv, BootClock, RunClock, Booted, runVars, pllVars, Goto

LEMMA SwitchedClock ==
  ASSUME TypeInv, ClockInv, bp \in {"freq", "vco"},
         SwFreqSwitch(BootFreq, 0),
         bp' = (IF bp = "freq" THEN "phy" ELSE "vco"),
         UNCHANGED <<shadow, runVars>>
  PROVE  ClockInv'
<1>1. /\ pll' = SwSwitch(pll, BootFreq, FALSE)
      /\ fsw'.toggle /\ fsw'.ovr /\ fsw'.msr = 0 /\ fsw'.vco = pll'.current
  BY SwFreqSwitchTyped DEF TypeInv
<1>2. /\ pll \in Plls /\ FreeVco(pll) \in PhyVcos
      /\ FreeVco(pll) # pll.current /\ FreeVco(pll) # "MCU"
  BY Copies, PrepareTyped, DeviceConstants DEF PhyVcos
<1>3. /\ pll'.current = FreeVco(pll)
      /\ pll'.enabled = (pll.enabled \cup {FreeVco(pll)}) \ {pll.current}
      /\ pll'.freq[pll'.current] = BootFreq
  <2>1. /\ SwSwitch(pll, BootFreq, FALSE).current = FreeVco(pll)
        /\ SwSwitch(pll, BootFreq, FALSE).enabled =
             (pll.enabled \cup {FreeVco(pll)}) \ {pll.current}
        /\ SwSwitch(pll, BootFreq, FALSE).freq[FreeVco(pll)] = BootFreq
    BY <1>2, SwSwitchTyped, DeviceConstants
  <2> QED
    BY <1>1, <2>1
<1>4. pll.enabled = {pll.current} \ {"MCU"}
  BY DEF ClockInv, BootClock, Booted
<1>5. pll'.enabled = {pll'.current} \ {"MCU"}
  BY <1>2, <1>3, <1>4
<1>6. bp = "vco" => \A g \in Groups : shadow[0].freq[g] = BootFreq
  BY DEF ClockInv, BootClock, Booted
<1> QED
  BY <1>1, <1>3, <1>5, <1>6
  DEF ClockInv, BootClock, RunClock, Booted, runVars

LEMMA ConfigureClock ==
  ASSUME TypeInv, ClockInv, BootConfigure
  PROVE  ClockInv'
<1>1. \A g \in Groups : shadow'[0].freq[g] = BootFreq
  BY Copies, ConfigureCopy, DeviceConstants DEF BootConfigure, TypeInv
<1> QED
  BY <1>1
  DEF BootConfigure, Goto, ClockInv, BootClock, RunClock, Booted, pllVars, runVars

LEMMA CalibratedClock ==
  ASSUME TypeInv, ClockInv, BootCalibrated
  PROVE  ClockInv'
<1>1. CASE cal.ok
  <2>1. \A m \in Msrs : shadow'[m].freq = shadow[m].freq
    BY <1>1, Copies, UpdateTyped DEF BootCalibrated, TypeInv
  <2>2. 0 \in Msrs
    BY Copies
  <2> QED
    BY <1>1, <2>1, <2>2
    DEF BootCalibrated, Goto, ClockInv, BootClock, RunClock, Booted, pllVars,
      runVars
<1>2. CASE ~cal.ok
  BY <1>2, ClockSame DEF BootCalibrated, bootVars, pllVars, runVars, clockVars
<1> QED
  BY <1>1, <1>2

LEMMA TrainClock ==
  ASSUME TypeInv, ClockInv, BootTrain
  PROVE  ClockInv'
<1>1. bp = "train" /\ bp' \in {"prime", "failed"}
      /\ UNCHANGED <<pllVars, fsw, runVars>>
  BY DEF BootTrain, Goto
<1>2. fsw.msr = 0 /\ 0 \in Msrs /\ shadow \in [Msrs -> Shadows]
  BY <1>1, Copies DEF ClockInv, BootClock, Booted
<1>3. shadow'[0].freq = shadow[0].freq
  BY <1>2, LoopedBackTyped DEF BootTrain
<1> QED
  BY <1>1, <1>3
  DEF ClockInv, BootClock, RunClock, Booted, pllVars, runVars

LEMMA ReleaseClock ==
  ASSUME TypeInv, ClockInv, BootVco \/ BootOverride \/ BootRelease
  PROVE  ClockInv'
<1>1. CASE BootVco /\ pll.current = "PHY_1"
  BY <1>1 DEF BootVco, Goto, ClockInv, BootClock, RunClock, Booted, runVars
<1>2. CASE BootVco /\ pll.current # "PHY_1"
  BY <1>2, SwitchedClock DEF BootVco, bootVars
<1>3. CASE BootOverride
  <2>1. /\ bp = "ovr" /\ bp' = "release" /\ fsw.ovr /\ fsw.toggle
        /\ pll.current = "PHY_1"
    BY <1>3 DEF BootOverride, Goto, ClockInv, BootClock, Booted
  <2>2. /\ ~fsw'.ovr /\ fsw'.msr = 0 /\ fsw'.vco = "PHY_1" /\ fsw'.toggle
    BY <1>3, <2>1, Copies DEF BootOverride, Fsws
  <2> QED
    BY <1>3, <2>1, <2>2
    DEF BootOverride, ClockInv, BootClock, RunClock, Booted, pllVars, runVars
<1>4. CASE BootRelease
  <2>1. /\ fsw'.ovr = fsw.ovr /\ fsw'.msr = fsw.msr /\ fsw'.vco = fsw.vco
        /\ fsw'.toggle = fsw.toggle
    BY <1>4, Copies DEF BootRelease, Fsws
  <2> QED
    BY <1>4, <2>1
    DEF BootRelease, Goto, ClockInv, BootClock, RunClock, Booted, pllVars, runVars
<1> QED
  BY <1>1, <1>2, <1>3, <1>4

(* The boot ends in the state a switch starts from.                        *)
LEMMA EndClock ==
  ASSUME TypeInv, ClockInv, BootEnd
  PROVE  ClockInv'
<1>1. bp = "wait" /\ bp' = "booted" /\ UNCHANGED <<pll, fsw, shadow, sw, moved, req>>
  BY DEF BootEnd, Goto, pllVars, runVars
<1>2. /\ sw = "idle" /\ ~moved /\ fsw.msr = 0 /\ fsw.toggle /\ ~fsw.ovr
      /\ fsw.vco = pll.current /\ pll.current = "PHY_1"
      /\ pll.enabled = {pll.current} \ {"MCU"}
      /\ pll.freq[pll.current] = BootFreq
      /\ \A g \in Groups : shadow[0].freq[g] = BootFreq
  BY <1>1 DEF ClockInv, BootClock, Booted
<1>3. pll.enabled = {pll.current}
  BY <1>2
<1> QED
  BY <1>1, <1>2, <1>3
  DEF ClockInv, BootClock, RunClock, InUse, Booted, PhyVcos

(* The other steps of the boot only move its label.                        *)
LEMMA OtherBootClock ==
  ASSUME ClockInv,
         BootFlushed \/ SaActions \/ BootPrime \/ BootPrimed \/ McInitDone
  PROVE  ClockInv'
<1>1. CASE BootFlushed
  BY <1>1
  DEF BootFlushed, Goto, ClockInv, BootClock, RunClock, Booted, pllVars, runVars
<1>2. CASE BootSlice \/ AmpStep \/ McInitDone
  BY <1>2, ClockSame
  DEF BootSlice, AmpStep, McInitDone, bootVars, pllVars, runVars, clockVars
<1>3. CASE BootSliceDone
  BY <1>3
  DEF BootSliceDone, Goto, bootVars, ClockInv, BootClock, RunClock, Booted,
    pllVars, runVars
<1>4. CASE BootSliceFailed
  BY <1>4
  DEF BootSliceFailed, Goto, ClockInv, BootClock, RunClock, Booted, pllVars,
    runVars
<1>5. CASE BootPrime \/ BootPrimed
  BY <1>5
  DEF BootPrime, BootPrimed, Goto, ClockInv, BootClock, RunClock, Booted, pllVars,
    runVars
<1> QED
  BY <1>1, <1>2, <1>3, <1>4, <1>5 DEF SaActions

-----------------------------------------------------------------------------
(* The steps of a switch.                                                  *)

(* A preparation, the first or a later one, writes the other copy and the  *)
(* other VCO.                                                              *)
LEMMA PrepClock ==
  ASSUME TypeInv, ClockInv, NEW f \in Freqs, Prep(f)
  PROVE  ClockInv'
<1>1. /\ Booted /\ Booted' /\ sw' = "prep" /\ moved' = moved /\ ~moved
      /\ fsw' = fsw /\ pll' = Prepare(pll, f)
      /\ shadow' = [shadow EXCEPT ![1 - fsw.msr] = Configured(@, f)]
  BY DEF Prep, Running, Settled, Booted, bootVars, PreparedCopy, ClockInv, RunClock
<1>2. /\ ~fsw.ovr /\ fsw.toggle /\ pll.current \in PhyVcos /\ InUse
      /\ pll.enabled \cup {FreeVco(pll)} = {pll.current, FreeVco(pll)}
  BY <1>1 DEF ClockInv, RunClock, Prepared
<1>3. /\ pll'.current = pll.current /\ pll'.next = FreeVco(pll)
      /\ pll'.enabled = pll.enabled \cup {FreeVco(pll)}
      /\ pll'.freq[FreeVco(pll)] = f
      /\ pll'.freq[pll.current] = pll.freq[pll.current]
  BY <1>1, Copies, PrepareTyped
<1>4. FreeVco(pll') = FreeVco(pll)
  BY <1>3 DEF FreeVco
<1>5. /\ \A g \in Groups : shadow'[1 - fsw.msr].freq[g] = f
      /\ ~InLoopback(shadow'[1 - fsw.msr])
      /\ shadow'[fsw.msr] = shadow[fsw.msr]
  BY <1>1, Copies, ConfigureCopy DEF TypeInv, InLoopback
<1>6. InUse'
  BY <1>1, <1>2, <1>3, <1>5 DEF InUse
<1>7. Prepared'
  BY <1>1, <1>2, <1>3, <1>4, <1>5 DEF Prepared, Target
<1> QED
  BY <1>1, <1>2, <1>3, <1>6, <1>7 DEF ClockInv, BootClock, RunClock

LEMMA SendClock ==
  ASSUME ClockInv, SwitchStart \/ SwitchSent
  PROVE  ClockInv'
<1>1. /\ Booted /\ Booted' /\ sw # "idle" /\ sw' \in {"sending", "sent"}
      /\ UNCHANGED <<pll, fsw, shadow, moved>>
  BY DEF SwitchStart, SwitchSent, Running, Booted, bootVars, pllVars, ClockInv,
    BootClock
<1>2. /\ (InUse => InUse') /\ (Prepared => Prepared')
  BY <1>1 DEF InUse, Prepared, Target, InLoopback
<1> QED
  BY <1>1, <1>2 DEF ClockInv, BootClock, RunClock

LEMMA HwClock ==
  ASSUME TypeInv, ClockInv, HwSwitch
  PROVE  ClockInv'
<1>1. /\ Booted /\ Booted' /\ sw # "idle" /\ ~moved /\ moved'
      /\ UNCHANGED <<pll, shadow, sw>>
  BY DEF HwSwitch, Booted, bootVars, pllVars, bufVars, ClockInv, BootClock
<1>2. /\ ~fsw.ovr /\ fsw.toggle /\ InUse /\ Prepared /\ pll.current \in PhyVcos
  BY <1>1 DEF ClockInv, RunClock
<1>3. /\ ~fsw'.ovr /\ fsw'.toggle /\ fsw'.msr = 1 - fsw.msr
      /\ fsw'.vco = pll.next
  BY <1>2, HwSwitchTyped DEF TypeInv, InUse, Prepared, FreeVco
<1>4. Prepared'
  BY <1>1, <1>2, <1>3 DEF Prepared, Target, InLoopback
<1> QED
  BY <1>1, <1>2, <1>3, <1>4 DEF ClockInv, BootClock, RunClock

LEMMA PostClock ==
  ASSUME TypeInv, ClockInv, PostSwitch
  PROVE  ClockInv' /\ ~InLoopback(shadow'[fsw'.msr])
<1>1. /\ Booted /\ Booted' /\ sw = "sent" /\ moved /\ sw' = "idle" /\ ~moved'
      /\ pll' = DisableVco(SwitchVco(pll)) /\ fsw' = [fsw EXCEPT !.toggle = TRUE]
      /\ shadow' = shadow
  BY DEF PostSwitch, Booted, bootVars, ClockInv, BootClock
<1>2. /\ ~fsw.ovr /\ fsw.vco = pll.next /\ Prepared
  BY <1>1 DEF ClockInv, RunClock
<1>3. /\ ~fsw'.ovr /\ fsw'.toggle /\ fsw'.msr = fsw.msr /\ fsw'.vco = fsw.vco
  BY <1>1, <1>2, Copies DEF Fsws
<1>4. /\ pll.next \in PhyVcos /\ pll.next # NoVco /\ pll.next # pll.current
  BY <1>2, Copies, PrepareTyped, DeviceConstants DEF Prepared, PhyVcos, NoVco
<1>5. /\ pll'.current = pll.next /\ pll'.enabled = pll.enabled \ {pll.current}
      /\ pll'.freq = pll.freq
  BY <1>1, <1>4, Copies, SwitchTyped
<1>6. pll'.enabled = {pll'.current}
  BY <1>2, <1>4, <1>5 DEF Prepared
<1>7. InUse' /\ ~InLoopback(shadow'[fsw'.msr])
  BY <1>1, <1>2, <1>3, <1>5 DEF InUse, Prepared, Target
<1> QED
  BY <1>1, <1>3, <1>4, <1>5, <1>6, <1>7 DEF ClockInv, BootClock, RunClock

LEMMA UpdateClock ==
  ASSUME TypeInv, ClockInv, Update
  PROVE  /\ ClockInv'
         /\ [shadow'[fsw.msr] EXCEPT !.code = {}]
              = [shadow[fsw.msr] EXCEPT !.code = {}]
<1>1. /\ Booted /\ Booted' /\ UNCHANGED <<pll, fsw, sw, moved>>
  BY DEF Update, Running, Booted, bootVars, pllVars
<1>2. /\ shadow' \in [Msrs -> Shadows]
      /\ \A m \in Msrs :
           /\ shadow'[m].freq = shadow[m].freq
           /\ shadow'[m].pads = shadow[m].pads
           /\ shadow'[m].dqLoop = shadow[m].dqLoop
           /\ shadow'[m].rxLoop = shadow[m].rxLoop
  BY Copies, UpdateTyped DEF Update, TypeInv
<1>3. fsw.msr \in Msrs /\ Target \in Msrs
  BY Copies DEF Target
<1>4. InUse => InUse'
  BY <1>1, <1>2, <1>3 DEF InUse
<1>5. Prepared => Prepared'
  BY <1>1, <1>2, <1>3 DEF Prepared, Target, InLoopback
<1>6. [shadow'[fsw.msr] EXCEPT !.code = {}] = [shadow[fsw.msr] EXCEPT !.code = {}]
  <2>1. shadow'[fsw.msr] \in Shadows /\ shadow[fsw.msr] \in Shadows
    BY <1>2, <1>3, Copies
  <2> QED
    BY <1>2, <1>3, <2>1 DEF Shadows
<1> QED
  BY <1>1, <1>4, <1>5, <1>6 DEF ClockInv, BootClock, RunClock

(* The timer and the FIFO touch neither clock nor copies.                  *)
LEMMA OtherRunClock ==
  ASSUME ClockInv, Drain \/ TimerFires \/ TimerReturns \/ CalStep
  PROVE  ClockInv'
<1>1. CASE TimerReturns
  <2>1. Booted /\ Booted' /\ UNCHANGED <<pll, fsw, shadow, sw, moved>>
    BY <1>1 DEF TimerReturns, Booted, bootVars, pllVars
  <2>2. (InUse => InUse') /\ (Prepared => Prepared')
    BY <2>1 DEF InUse, Prepared, Target, InLoopback
  <2> QED
    BY <2>1, <2>2 DEF ClockInv, BootClock, RunClock
<1>2. CASE Drain \/ TimerFires \/ CalStep
  BY <1>2, ClockSame
  DEF Drain, TimerFires, CalStep, bootVars, pllVars, runVars, clockVars
<1> QED
  BY <1>1, <1>2

LEMMA ClockInvNext ==
  ASSUME TypeInv, ClockInv, [Next]_vars
  PROVE  ClockInv'
<1>1. CASE BootSwitch
  BY <1>1, SwitchedClock DEF BootSwitch, Goto
<1>2. CASE PllActions
  BY <1>1, <1>2, StartClock, FllClock, ReleaseClock DEF PllActions
<1>3. CASE RunActions
  BY <1>3, PrepClock, SendClock, HwClock, PostClock, UpdateClock DEF RunActions
<1>4. CASE OtherActions
  BY <1>4, PadsClock, TrainClock, EndClock, OtherBootClock DEF OtherActions
<1>5. CASE ZqActions
  BY <1>5, OtherBootClock, CalibratedClock, OtherRunClock DEF ZqActions
<1>6. CASE FifoActions
  BY <1>6, ConfigureClock, OtherBootClock, OtherRunClock DEF FifoActions
<1>7. CASE SaActions
  BY <1>7, OtherBootClock
<1>8. CASE UNCHANGED vars
  BY <1>8, ClockSame DEF vars, bootVars, pllVars, runVars, clockVars
<1> QED
  BY <1>2, <1>3, <1>4, <1>5, <1>6, <1>7, <1>8, NextCases

THEOREM AlwaysClocked == Spec => []ClockInv
<1>1. TypeInv /\ ClockInv /\ [Next]_vars => ClockInv'
  BY ClockInvNext
<1> QED
  BY <1>1, ClockInit, AlwaysTyped, PTL DEF Spec

-----------------------------------------------------------------------------
(* Outside a switch the VCO that clocks the PHY is the current one, it is  *)
(* enabled, and every group of registers in use is configured for its      *)
(* frequency (pll, fsw and wddr devices).                                  *)
THEOREM AlwaysConfigured == Spec => []InUseConfigured
<1>1. ClockInv => InUseConfigured
  <2> SUFFICES ASSUME ClockInv, Booted, Settled
               PROVE  /\ fsw.vco = pll.current /\ pll.current \in pll.enabled
                      /\ \A g \in Groups :
                           shadow[fsw.msr].freq[g] = pll.freq[pll.current]
    BY DEF InUseConfigured
  <2>1. ~moved /\ InUse
    BY DEF ClockInv, RunClock, Settled
  <2>2. pll.current \in pll.enabled
    BY DEF ClockInv, RunClock, Prepared
  <2> QED
    BY <2>1, <2>2 DEF InUse
<1> QED
  BY <1>1, AlwaysClocked, PTL

(* Of the copy in use, no step writes anything but the driver codes, and   *)
(* these only in an update that was asked for (dev/fsw/device.c:87-95,     *)
(* dev/wddr/device.c:271-302).                                             *)
THEOREM NeverTouched == Spec => InUseUntouched
<1>1. ASSUME TypeInv, ClockInv, [Next]_vars, Booted, fsw'.msr = fsw.msr
      PROVE  /\ [shadow'[fsw.msr] EXCEPT !.code = {}]
                   = [shadow[fsw.msr] EXCEPT !.code = {}]
             /\ shadow'[fsw.msr] # shadow[fsw.msr] => req
  <2>1. CASE Update
    BY <1>1, <2>1, UpdateClock DEF Update
  <2>2. ASSUME NEW f \in Freqs, Prep(f)
        PROVE  shadow'[fsw.msr] = shadow[fsw.msr]
    BY <1>1, <2>2, Copies DEF Prep, PreparedCopy
  <2>3. CASE SwitchStart \/ SwitchSent \/ HwSwitch \/ PostSwitch
    BY <2>3 DEF SwitchStart, SwitchSent, HwSwitch, PostSwitch
  <2>4. CASE ZqActions
    BY <1>1, <2>4
    DEF ZqActions, BootFlushed, BootCalibrated, TimerFires, TimerReturns, CalStep,
      Booted
  <2>5. CASE SaActions
    BY <2>5 DEF SaActions, BootSlice, BootSliceDone, BootSliceFailed, AmpStep
  <2>6. CASE PllActions
    BY <2>6
    DEF PllActions, BootStart, BootFll, BootFllLocked, BootSwitch, BootVco,
      BootOverride, BootRelease
  <2>7. CASE FifoActions
    BY <1>1, <2>7
    DEF FifoActions, BootConfigure, Drain, BootPrime, BootPrimed, Booted
  <2>8. CASE OtherActions
    BY <1>1, <2>8 DEF OtherActions, BootPads, BootTrain, BootEnd, McInitDone, Booted
  <2>9. CASE UNCHANGED vars
    BY <2>9 DEF vars
  <2> QED
    BY <1>1, <2>1, <2>2, <2>3, <2>4, <2>5, <2>6, <2>7, <2>8, <2>9, NextCases
    DEF RunActions
<1>2. TypeInv /\ ClockInv /\ [Next]_vars =>
        [Booted /\ fsw'.msr = fsw.msr =>
           /\ [shadow'[fsw.msr] EXCEPT !.code = {}]
                = [shadow[fsw.msr] EXCEPT !.code = {}]
           /\ shadow'[fsw.msr] # shadow[fsw.msr] => req]_vars
  BY <1>1
<1> QED
  BY <1>2, AlwaysTyped, AlwaysClocked, PTL DEF Spec, InUseUntouched

(* The VCO that clocks the PHY is never turned off and never reconfigured  *)
(* (dev/pll/device.c): a preparation goes to the other one, and so does the*)
(* end of a switch.                                                        *)
THEOREM VcoIsKept == Spec => RunningVcoKept
<1>1. ASSUME TypeInv, ClockInv, [Next]_vars, Booted
      PROVE  /\ fsw.vco \in pll'.enabled
             /\ pll'.freq[fsw.vco] = pll.freq[fsw.vco]
  <2>1. /\ fsw.vco \in pll.enabled /\ pll \in Plls
        /\ moved => Prepared /\ fsw.vco = pll.next
        /\ ~moved => fsw.vco = pll.current
    BY <1>1, Copies DEF ClockInv, RunClock, InUse, Prepared
  <2>2. ASSUME NEW f \in Freqs, Prep(f)
        PROVE  /\ pll.enabled \subseteq pll'.enabled
               /\ pll'.freq[pll.current] = pll.freq[pll.current] /\ ~moved
    BY <2>1, <2>2, PrepareTyped DEF Prep, Settled
  <2>3. CASE PostSwitch
    <3>1. moved /\ pll' = DisableVco(SwitchVco(pll))
      BY <2>3 DEF PostSwitch
    <3>2. pll.next # NoVco /\ pll.next # pll.current
      BY <2>1, <3>1, PrepareTyped, DeviceConstants DEF Prepared, PhyVcos, NoVco
    <3>3. pll'.enabled = pll.enabled \ {pll.current} /\ pll'.freq = pll.freq
      BY <2>1, <3>1, <3>2, SwitchTyped
    <3> QED
      BY <2>1, <3>1, <3>2, <3>3
  <2>4. CASE UNCHANGED pll
    BY <2>1, <2>4
  <2>5. \/ \E f \in Freqs : Prep(f)
        \/ PostSwitch
        \/ UNCHANGED pll
    <3>1. CASE RunActions
      BY <3>1 DEF RunActions, SwitchStart, SwitchSent, HwSwitch, Update, pllVars
    <3>2. CASE ZqActions \/ SaActions
      BY <3>2
      DEF ZqActions, BootFlushed, BootCalibrated, TimerFires, TimerReturns,
        CalStep, SaActions, BootSlice, BootSliceDone, BootSliceFailed, AmpStep,
        pllVars
    <3>3. CASE PllActions
      BY <1>1, <3>3
      DEF PllActions, BootStart, BootFll, BootFllLocked, BootSwitch, BootVco,
        BootOverride, BootRelease, Booted, pllVars
    <3>4. CASE FifoActions \/ OtherActions
      BY <3>4
      DEF FifoActions, BootConfigure, Drain, BootPrime, BootPrimed, OtherActions,
        BootPads, BootTrain, BootEnd, McInitDone, pllVars
    <3>5. CASE UNCHANGED vars
      BY <3>5 DEF vars, pllVars
    <3> QED
      BY <1>1, <3>1, <3>2, <3>3, <3>4, <3>5, NextCases
  <2> QED
    BY <2>1, <2>2, <2>3, <2>4, <2>5
<1>2. TypeInv /\ ClockInv /\ [Next]_vars =>
        [Booted => /\ fsw.vco \in pll'.enabled
                   /\ pll'.freq[fsw.vco] = pll.freq[fsw.vco]]_vars
  BY <1>1
<1> QED
  BY <1>2, AlwaysTyped, AlwaysClocked, PTL DEF Spec, RunningVcoKept

(* After a prepared switch the copy in use is out of loopback              *)
(* (include/dev/wddr/device.h:135).                                        *)
THEOREM LoopbackIsLeft == Spec => PadsLeaveLoopback
<1>1. TypeInv /\ ClockInv /\ [Next]_vars =>
        [PostSwitch => ~InLoopback(shadow'[fsw'.msr])]_vars
  BY PostClock
<1> QED
  BY <1>1, AlwaysTyped, AlwaysClocked, PTL DEF Spec, PadsLeaveLoopback

-----------------------------------------------------------------------------
(* The refinement of FreqSwitch, one lemma for each of its steps.          *)

(* No target when no switch is prepared, no request once one has begun.    *)
IdleInv ==
  /\ sw = "idle" => pll.next = NoVco
  /\ sw \in {"sending", "sent"} => ~req

LEMMA IdleSame ==
  ASSUME IdleInv, UNCHANGED <<pll, sw, req>>
  PROVE  IdleInv'
BY DEF IdleInv

LEMMA IdleNext ==
  ASSUME TypeInv, ClockInv, IdleInv, [Next]_vars
  PROVE  IdleInv'
<1>1. CASE BootSwitch \/ BootVco
  <2>1. CASE UNCHANGED pll
    BY <1>1, <2>1, IdleSame DEF BootSwitch, BootVco, runVars
  <2>2. CASE SwFreqSwitch(BootFreq, 0)
    <3>1. pll' = SwSwitch(pll, BootFreq, FALSE)
      BY <2>2, SwFreqSwitchTyped DEF TypeInv
    <3>2. SwSwitch(pll, BootFreq, FALSE).next = NoVco
      BY Copies, SwSwitchTyped, DeviceConstants
    <3>3. UNCHANGED <<sw, req>>
      BY <1>1 DEF BootSwitch, BootVco, runVars
    <3>4. pll'.next = NoVco
      BY <3>1, <3>2
    <3> QED
      BY <3>3, <3>4 DEF IdleInv
  <2> QED
    BY <1>1, <2>1, <2>2 DEF BootSwitch, BootVco
<1>2. CASE PllActions /\ ~(BootSwitch \/ BootVco)
  BY <1>2, IdleSame
  DEF PllActions, BootStart, BootFll, BootFllLocked, BootOverride, BootRelease,
    pllVars, runVars
<1>3. CASE ZqActions
  <2>1. CASE TimerReturns
    BY <2>1 DEF TimerReturns, Receives, pllVars, IdleInv
  <2> QED
    BY <1>3, <2>1, IdleSame
    DEF ZqActions, BootFlushed, BootCalibrated, TimerFires, CalStep, pllVars,
      runVars
<1>4. CASE SaActions
  BY <1>4, IdleSame
  DEF SaActions, BootSlice, BootSliceDone, BootSliceFailed, AmpStep, pllVars,
    runVars
<1>5. CASE FifoActions
  BY <1>5, IdleSame
  DEF FifoActions, BootConfigure, Drain, BootPrime, BootPrimed, pllVars, runVars
<1>6. CASE OtherActions
  BY <1>6, IdleSame
  DEF OtherActions, BootPads, BootTrain, BootEnd, McInitDone, pllVars, runVars
<1>7. CASE RunActions
  <2>1. CASE \E f \in Freqs : Prep(f)
    BY <2>1 DEF Prep, IdleInv
  <2>2. CASE SwitchStart \/ SwitchSent \/ HwSwitch \/ Update
    BY <2>2 DEF SwitchStart, SwitchSent, HwSwitch, Update, pllVars, IdleInv
  <2>3. CASE PostSwitch
    <3>1. Prepared /\ pll \in Plls
      BY <2>3, Copies DEF PostSwitch, ClockInv, RunClock, BootClock
    <3>2. pll'.next = NoVco
      BY <2>3, <3>1, PrepareTyped, SwitchTyped, DeviceConstants
      DEF PostSwitch, Prepared, PhyVcos, NoVco
    <3> QED
      BY <2>3, <3>2 DEF PostSwitch, IdleInv
  <2> QED
    BY <1>7, <2>1, <2>2, <2>3 DEF RunActions
<1>8. CASE UNCHANGED vars
  BY <1>8, IdleSame DEF vars, pllVars, runVars
<1> QED
  BY <1>1, <1>2, <1>3, <1>4, <1>5, <1>6, <1>7, <1>8, NextCases

THEOREM AlwaysIdle == Spec => []IdleInv
<1>1. Init => IdleInv
  BY DEF Init, IdleInv, BootedPll
<1>2. TypeInv /\ ClockInv /\ IdleInv /\ [Next]_vars => IdleInv'
  BY IdleNext
<1> QED
  BY <1>1, <1>2, AlwaysTyped, AlwaysClocked, PTL DEF Spec

DeviceInv == TypeInv /\ ClockInv /\ IdleInv
Stutters  == UNCHANGED <<bp, sw, req, pll, fsw.vco>>

LEMMA InitSwitch == Init => Switch!Init
BY DEF Init, Switch!Init, Booted, Phase, BootedPll, Vcos

(* Whatever a step of the boot does, at its end software and hardware agree*)
(* on the clock, nothing is prepared and nothing is asked for.             *)
LEMMA BootRefines ==
  ASSUME DeviceInv, DeviceInv', ~Booted, [Next]_vars
  PROVE  Switch!Boot
<1>1. sw = "idle" /\ ~req /\ pll.next = NoVco
  BY DEF DeviceInv, ClockInv, BootClock, IdleInv
<1>2. UNCHANGED <<sw, req>>
  <2>1. ~RunActions
    BY <1>1
    DEF RunActions, Prep, SwitchStart, SwitchSent, HwSwitch, PostSwitch, Update,
      Running
  <2>2. CASE ZqActions
    BY <2>2
    DEF ZqActions, BootFlushed, BootCalibrated, TimerFires, TimerReturns, CalStep,
      runVars
  <2>3. CASE SaActions
    BY <2>3
    DEF SaActions, BootSlice, BootSliceDone, BootSliceFailed, AmpStep, runVars
  <2>4. CASE PllActions
    BY <2>4
    DEF PllActions, BootStart, BootFll, BootFllLocked, BootSwitch, BootVco,
      BootOverride, BootRelease, runVars
  <2>5. CASE FifoActions
    BY <2>5
    DEF FifoActions, BootConfigure, Drain, BootPrime, BootPrimed, runVars
  <2>6. CASE OtherActions
    BY <2>6 DEF OtherActions, BootPads, BootTrain, BootEnd, McInitDone, runVars
  <2>7. CASE UNCHANGED vars
    BY <2>7 DEF vars, runVars
  <2> QED
    BY <2>1, <2>2, <2>3, <2>4, <2>5, <2>6, <2>7, NextCases
<1>3. pll'.next = NoVco
  BY <1>1, <1>2 DEF DeviceInv, IdleInv
<1>4. fsw'.vco = pll'.current
  BY <1>1, <1>2 DEF DeviceInv, ClockInv, BootClock, RunClock, InUse
<1>5. pll'.current \in Vcos /\ pll'.freq \in [Vcos -> Freqs \cup {NoFreq}]
  BY DEF DeviceInv, TypeInv, ClockOK, Plls
<1>6. UNCHANGED <<Phase, pll.next, IF req THEN {"PHYUPD_REQ"} ELSE {}>>
  BY <1>1, <1>2, <1>3 DEF Phase
<1> QED
  BY <1>4, <1>5, <1>6 DEF Switch!Boot, Booted

LEMMA PrepareRefines ==
  ASSUME DeviceInv, NEW f \in Freqs, Prep(f)
  PROVE  Switch!Prepare
<1>1. /\ Booted /\ Booted' /\ sw \in {"idle", "prep"} /\ ~moved /\ sw' = "prep"
      /\ pll' = Prepare(pll, f) /\ UNCHANGED <<fsw, req>>
  BY DEF Prep, Running, Settled, Receives, Booted, bootVars
<1>2. fsw.vco = pll.current /\ pll \in Plls
  BY <1>1, Copies DEF DeviceInv, ClockInv, RunClock, InUse
<1>3. /\ pll'.current = pll.current /\ pll'.next \in Vcos \ {pll.current}
      /\ pll'.freq = [pll.freq EXCEPT ![pll'.next] = f]
  <2>1. pll'.current = pll.current /\ pll'.next = FreeVco(pll)
        /\ FreeVco(pll) \in PhyVcos /\ FreeVco(pll) # pll.current
    BY <1>1, <1>2, PrepareTyped
  <2>2. pll'.freq = [pll.freq EXCEPT ![FreeVco(pll)] = f]
    BY <1>1, <1>2 DEF Prepare, Plls
  <2> QED
    BY <2>1, <2>2 DEF Vcos
<1>4. Phase \in {"idle", "prepared"} /\ Phase' = "prepared"
  BY <1>1 DEF Phase
<1> QED
  BY <1>1, <1>2, <1>3, <1>4 DEF Switch!Prepare, Switch!Settled

(* The hardware goes where the preparation led.                            *)
LEMMA MoveRefines ==
  ASSUME DeviceInv, Booted, HwSwitch
  PROVE  Switch!Move
<1>1. /\ sw # "idle" /\ ~moved /\ UNCHANGED <<bp, pll, sw, req>>
  BY DEF HwSwitch, bootVars, pllVars
<1>2. /\ ~fsw.ovr /\ fsw.vco = pll.current /\ pll.next = FreeVco(pll)
  BY <1>1 DEF DeviceInv, ClockInv, RunClock, InUse, Prepared
<1>3. fsw'.vco = pll.next
  BY <1>2, HwSwitchTyped DEF DeviceInv, TypeInv, FreeVco
<1>4. Phase # "idle" /\ UNCHANGED <<Phase, Booted>>
  BY <1>1 DEF DeviceInv, TypeInv, ControlOK, Phase, Booted
<1> QED
  BY <1>1, <1>2, <1>3, <1>4 DEF Switch!Move

LEMMA DrainRefines ==
  ASSUME DeviceInv, SwitchStart
  PROVE  Switch!Drain
<1>1. /\ sw = "prep" /\ sw' = "sending" /\ ~req'
      /\ UNCHANGED <<bp, pll, fsw>>
  BY DEF SwitchStart, bootVars, pllVars
<1>2. Phase = "prepared" /\ Phase' = "draining" /\ UNCHANGED Booted
  BY <1>1 DEF Phase, Booted
<1> QED
  BY <1>1, <1>2 DEF Switch!Drain

LEMMA LockRefines ==
  ASSUME DeviceInv, SwitchSent
  PROVE  Switch!Lock
<1>1. /\ sw = "sending" /\ sw' = "sent" /\ ~req
      /\ UNCHANGED <<bp, pll, fsw, req>>
  BY DEF SwitchSent, bootVars, pllVars, DeviceInv, IdleInv
<1>2. Phase = "draining" /\ Phase' = "locking" /\ UNCHANGED Booted
  BY <1>1 DEF Phase, Booted
<1> QED
  BY <1>1, <1>2 DEF Switch!Lock

LEMMA CompleteRefines ==
  ASSUME DeviceInv, Booted, PostSwitch
  PROVE  Switch!Complete
<1>1. /\ sw = "sent" /\ moved /\ sw' = "idle"
      /\ pll' = DisableVco(SwitchVco(pll)) /\ fsw' = [fsw EXCEPT !.toggle = TRUE]
      /\ UNCHANGED <<bp, req>>
  BY DEF PostSwitch, bootVars
<1>2. fsw.vco = pll.next /\ Prepared /\ pll \in Plls
  BY <1>1, Copies DEF DeviceInv, ClockInv, RunClock
<1>3. fsw'.vco = fsw.vco
  BY <1>1, Copies DEF DeviceInv, Fsws
<1>4. pll'.current = pll.next /\ pll'.next = NoVco /\ pll'.freq = pll.freq
  BY <1>1, <1>2, PrepareTyped, SwitchTyped, DeviceConstants
  DEF Prepared, PhyVcos, NoVco
<1>5. Phase = "locking" /\ Phase' = "idle" /\ UNCHANGED Booted
  BY <1>1 DEF Phase, Booted
<1> QED
  BY <1>1, <1>2, <1>3, <1>4, <1>5 DEF Switch!Complete

LEMMA RaiseRefines ==
  ASSUME DeviceInv, TimerReturns
  PROVE  Switch!Raise("PHYUPD_REQ") \/ Stutters
<1>1. /\ Booted /\ req' = (req \/ (cal.ok /\ Receives))
      /\ UNCHANGED <<bp, sw, pll, fsw>>
  BY DEF TimerReturns, bootVars, pllVars
<1>2. UNCHANGED <<Phase, Booted>>
  BY <1>1 DEF Phase, Booted
<1>3. CASE ~req /\ cal.ok /\ Receives
  <2>1. Phase \in {"idle", "prepared"}
    BY <1>3 DEF Phase, Receives
  <2>2. req'
    BY <1>1, <1>3
  <2> QED
    BY <1>1, <1>2, <1>3, <2>1, <2>2 DEF Switch!Raise, Switch!Settled
<1>4. CASE ~(~req /\ cal.ok /\ Receives)
  <2>1. req' = req
    BY <1>1, <1>4 DEF DeviceInv, TypeInv, ControlOK
  <2> QED
    BY <1>1, <2>1 DEF Stutters
<1> QED
  BY <1>3, <1>4

(* The codes that an update writes are those of the clock that runs.       *)
LEMMA FinishRefines ==
  ASSUME DeviceInv, Update
  PROVE  Switch!Finish("PHYUPD_REQ")
<1>1. /\ Booted /\ req /\ ~req' /\ sw \in {"idle", "prep"} /\ ~moved
      /\ UNCHANGED <<bp, sw, pll, fsw>>
  BY DEF Update, Running, Settled, Receives, bootVars, pllVars
<1>2. fsw.vco = pll.current
  BY <1>1 DEF DeviceInv, ClockInv, RunClock, InUse
<1>3. Phase \in {"idle", "prepared"} /\ UNCHANGED <<Phase, Booted>>
  BY <1>1 DEF Phase, Booted
<1> QED
  BY <1>1, <1>2, <1>3 DEF Switch!Finish, Switch!Settled

(* Every other step once the device has booted leaves the switch alone.    *)
LEMMA OthersStutter ==
  ASSUME DeviceInv, Booted, [Next]_vars, ~RunActions, ~TimerReturns
  PROVE  Stutters
<1> USE DEF Stutters, Booted, bootVars, pllVars, runVars
<1>1. CASE ZqActions
  BY <1>1 DEF ZqActions, BootFlushed, BootCalibrated, TimerFires, CalStep
<1>2. CASE SaActions
  BY <1>2 DEF SaActions, BootSlice, BootSliceDone, BootSliceFailed, AmpStep
<1>3. CASE PllActions
  BY <1>3
  DEF PllActions, BootStart, BootFll, BootFllLocked, BootSwitch, BootVco,
    BootOverride, BootRelease
<1>4. CASE FifoActions
  BY <1>4 DEF FifoActions, BootConfigure, Drain, BootPrime, BootPrimed
<1>5. CASE OtherActions
  BY <1>5 DEF OtherActions, BootPads, BootTrain, BootEnd, McInitDone
<1>6. CASE UNCHANGED vars
  BY <1>6 DEF vars
<1> QED
  BY <1>1, <1>2, <1>3, <1>4, <1>5, <1>6, NextCases

(* The devices too switch the frequency as FreqSwitch says, in which they  *)
(* and the firmware task meet: what wddr_boot leaves, what a preparation   *)
(* writes and what fsw_post_switch_handler concludes agree with the clock  *)
(* the hardware runs on (dev/pll/device.c, dev/fsw/device.c).              *)
THEOREM DeviceRefinesSwitch == Spec => DeviceImplementsSwitch
<1>1. DeviceInv /\ DeviceInv' /\ [Next]_vars => [Switch!Next]_(Switch!vars)
  <2> SUFFICES ASSUME DeviceInv, DeviceInv', [Next]_vars
               PROVE  Switch!Next \/ UNCHANGED Switch!vars
    OBVIOUS
  <2>1. Stutters => UNCHANGED Switch!vars
    <3>1. Stutters => UNCHANGED <<Phase, Booted>>
      BY DEF Stutters, Phase, Booted
    <3> QED
      BY <3>1 DEF Stutters, Switch!vars
  <2>2. CASE ~Booted
    BY <2>2, BootRefines DEF Switch!Next
  <2>3. CASE Booted /\ RunActions
    <3>1. CASE \E f \in Freqs : Prep(f)
      BY <3>1, PrepareRefines DEF Switch!Next
    <3>2. CASE SwitchStart \/ SwitchSent
      BY <3>2, DrainRefines, LockRefines DEF Switch!Next
    <3>3. CASE HwSwitch \/ PostSwitch
      BY <2>3, <3>3, MoveRefines, CompleteRefines DEF Switch!Next
    <3>4. CASE Update
      BY <3>4, FinishRefines DEF Switch!Next
    <3> QED
      BY <2>3, <3>1, <3>2, <3>3, <3>4 DEF RunActions
  <2>4. CASE TimerReturns
    BY <2>1, <2>4, RaiseRefines DEF Switch!Next
  <2> QED
    BY <2>1, <2>2, <2>3, <2>4, OthersStutter
<1>2. Spec => []DeviceInv
  BY AlwaysTyped, AlwaysClocked, AlwaysIdle, PTL DEF DeviceInv
<1> QED
  BY <1>1, <1>2, InitSwitch, PTL DEF Spec, DeviceImplementsSwitch, Switch!Spec

-----------------------------------------------------------------------------
(* The boot.  ForcedInv and SliceInv say which pads, chip selects,         *)
(* gearboxes and amplifiers are forced in which phase, and which of the    *)
(* codes of the amplifiers are in place.                                   *)

Early == {"off", "pll", "freq", "phy", "failed"}
Calm  == {"flush", "zq"}
Late  == {"train", "prime", "primed", "vco", "ovr", "release", "wait", "booted"}

(* Pads are held low, and an FLL runs, only in the first steps.            *)
ForcedInv ==
  /\ \A m \in Msrs : shadow[m].pads = "low" => m = 0 /\ bp \in {"freq", "phy"}
  /\ bp # "pll" => fllOn = {}

(* The slices are taken in order: the one at hand is sac.slice.            *)
Before(s, t) == s[1] < t[1] \/ (s[1] = t[1] /\ s[2] < t[2])
Done(s) == Before(s, sac.slice) \/ (s = sac.slice /\ sac.pc = "ret" /\ sac.ok)
DoneUnit(s, u) == Done(s) \/ (s = sac.slice /\ u < sac.unit)

InPlace(r, s, u) ==
  (r = Probed /\ "SA_CAL" \in opts) \/ saReg[r][s][u] = SaField(saTab[s][u])

AtSlice ==
  /\ \A c \in cs : c >= sac.slice[1]
  /\ \A s \in SaSlices :
       /\ gb[s] = "table" \/ (s = sac.slice /\ sac.pc # "idle")
       /\ Done(s) => saState[s] = "DYNAMIC"
  /\ sac.pc # "idle" => (sac.calibrate <=> "SA_CAL" \in opts)
  /\ sac.pc \in {"clear", "up", "down"} => sac.calibrate
  /\ \A r \in SaRegs, s \in SaSlices, u \in SaUnits :
       DoneUnit(s, u) => InPlace(r, s, u)

PastSlices ==
  /\ cs = {}
  /\ \A s \in SaSlices : gb[s] = "table" /\ saState[s] = "DYNAMIC"
  /\ \A r \in SaRegs, s \in SaSlices, u \in SaUnits : InPlace(r, s, u)

SliceInv ==
  /\ bp # "sa" => sac = NoSac
  /\ bp \in Calm => \A s \in SaSlices : gb[s] = "table"
  /\ bp = "sa" => AtSlice
  /\ bp \in Late => PastSlices

-----------------------------------------------------------------------------
(* Pads and FLLs.                                                          *)

LEMMA ForcedSame ==
  ASSUME ForcedInv, \A m \in Msrs : shadow'[m].pads # shadow[m].pads =>
                                      shadow'[m].pads # "low",
         bp \notin {"freq", "phy"} \/ (bp = "freq" /\ bp' = "phy") \/ bp' = bp,
         fllOn' = fllOn, bp = "pll" => bp' = "pll" \/ fllOn = {}
  PROVE  ForcedInv'
BY DEF ForcedInv

LEMMA ForcedNext ==
  ASSUME TypeInv, ForcedInv, [Next]_vars
  PROVE  ForcedInv'
<1>1. ASSUME NEW o \in BootOptions, BootStart(o)
      PROVE  ForcedInv'
  BY <1>1 DEF BootStart, ForcedInv
<1>2. CASE BootFll \/ BootFllLocked
  BY <1>2 DEF BootFll, BootFllLocked, bootVars, ForcedInv
<1>3. CASE BootPads
  <2>1. shadow'[0].pads = "low" /\ shadow'[1] = shadow[1] /\ bp' = "freq"
        /\ bp = "pll" /\ fllOn' = {}
    BY <1>3, Copies DEF BootPads, Goto, pllVars, Shadows
  <2> QED
    BY <2>1, Copies DEF ForcedInv
<1>4. CASE BootConfigure
  <2>1. shadow'[0].pads = "table" /\ shadow'[1] = shadow[1] /\ bp' = "flush"
        /\ fllOn' = fllOn /\ bp = "phy"
    BY <1>4, Copies, ConfigureCopy, DeviceConstants
    DEF BootConfigure, Goto, pllVars, TypeInv
  <2> QED
    BY <2>1, Copies DEF ForcedInv
<1>5. CASE BootSwitch \/ BootVco \/ BootOverride \/ BootRelease
  BY <1>5, ForcedSame
  DEF BootSwitch, BootVco, BootOverride, BootRelease, Goto, bootVars, pllVars
<1>6. CASE BootCalibrated \/ Update
  <2>1. \A m \in Msrs : shadow'[m].pads = shadow[m].pads
    BY <1>6, Copies, UpdateTyped DEF BootCalibrated, Update, TypeInv
  <2> QED
    BY <1>6, <2>1, ForcedSame DEF BootCalibrated, Update, Goto, bootVars, pllVars
<1>7. CASE BootTrain
  <2>1. \A m \in Msrs : shadow'[m].pads # shadow[m].pads =>
                          shadow'[m].pads # "low"
    BY <1>7, Copies, LoopedBackTyped DEF BootTrain
  <2> QED
    BY <1>7, <2>1, ForcedSame DEF BootTrain, Goto, pllVars
<1>8. ASSUME NEW f \in Freqs, Prep(f)
      PROVE  ForcedInv'
  <2>1. \A m \in Msrs : shadow'[m].pads # shadow[m].pads =>
                          shadow'[m].pads # "low"
    BY <1>8, Copies, ConfigureCopy DEF Prep, PreparedCopy, TypeInv
  <2> QED
    BY <1>8, <2>1, ForcedSame DEF Prep, bootVars
<1>9. CASE BootFlushed \/ TimerFires \/ TimerReturns \/ CalStep
  BY <1>9, ForcedSame
  DEF BootFlushed, TimerFires, TimerReturns, CalStep, Goto, bootVars, pllVars
<1>10. CASE SaActions
  BY <1>10, ForcedSame
  DEF SaActions, BootSlice, BootSliceDone, BootSliceFailed, AmpStep, Goto,
    bootVars, pllVars
<1>11. CASE Drain \/ BootPrime \/ BootPrimed \/ BootEnd \/ McInitDone
  BY <1>11, ForcedSame
  DEF Drain, BootPrime, BootPrimed, BootEnd, McInitDone, Goto, bootVars, pllVars
<1>12. CASE SwitchStart \/ SwitchSent \/ HwSwitch \/ PostSwitch
  BY <1>12, ForcedSame
  DEF SwitchStart, SwitchSent, HwSwitch, PostSwitch, bootVars, pllVars
<1>13. CASE UNCHANGED vars
  BY <1>13, ForcedSame DEF vars, bootVars, pllVars
<1> QED
  BY <1>1, <1>2, <1>3, <1>4, <1>5, <1>6, <1>7, <1>8, <1>9, <1>10, <1>11, <1>12,
    <1>13, NextCases
  DEF ZqActions, PllActions, FifoActions, RunActions, OtherActions

-----------------------------------------------------------------------------
(* The order of the slices.                                                *)

LEMMA SliceTyped ==
  ASSUME NEW s \in SaSlices
  PROVE  /\ s[1] \in Nat /\ s[2] \in Nat
         /\ s[1] <= SaChannels - 1 /\ s[2] <= SaBytes - 1
         /\ SaChannels \in Nat /\ SaBytes \in Nat /\ s = <<s[1], s[2]>>
         /\ ~Before(s, s) /\ ~Before(s, <<0, 0>>)
BY SaConstants DEF SaSlices, Before

LEMMA OrderTotal ==
  ASSUME NEW s \in SaSlices, NEW t \in SaSlices, ~Before(s, t), s # t
  PROVE  t[1] < s[1] \/ (t[1] = s[1] /\ t[2] < s[2])
BY SliceTyped DEF Before

LEMMA NextIsNext ==
  ASSUME NEW s \in SaSlices, NEW t \in SaSlices, ~LastSlice(t),
         Before(s, NextSlice(t))
  PROVE  Before(s, t) \/ s = t
<1> SUFFICES ASSUME ~Before(s, t), s # t PROVE FALSE
  OBVIOUS
<1>1. t[1] < s[1] \/ (t[1] = s[1] /\ t[2] < s[2])
  BY OrderTotal
<1>2. CASE LastByte(t)
  BY <1>1, <1>2, SliceTyped DEF NextSlice, Before, LastByte
<1>3. CASE ~LastByte(t)
  BY <1>1, <1>3, SliceTyped DEF NextSlice, Before
<1> QED
  BY <1>2, <1>3

LEMMA LastIsLast ==
  ASSUME NEW s \in SaSlices, NEW t \in SaSlices, LastSlice(t)
  PROVE  Before(s, t) \/ s = t
<1> SUFFICES ASSUME ~Before(s, t), s # t PROVE FALSE
  OBVIOUS
<1>1. t[1] < s[1] \/ (t[1] = s[1] /\ t[2] < s[2])
  BY OrderTotal
<1> QED
  BY <1>1, SliceTyped DEF LastSlice, LastByte

LEMMA ChannelsTyped ==
  ASSUME TypeInv
  PROVE  \A c \in cs : c \in Nat /\ c <= SaChannels - 1
<1>1. \A c \in cs : \E s \in SaSlices : c = s[1]
  BY DEF TypeInv, PadsOK, Channels
<1> QED
  BY <1>1, SliceTyped

-----------------------------------------------------------------------------
(* The slices.                                                             *)

LEMMA PhasesApart ==
  /\ "sa" \notin Early /\ "sa" \notin Calm /\ "sa" \notin Late
  /\ \A l \in Early : l \notin Calm /\ l \notin Late
  /\ \A l \in Calm : l \notin Late
BY DEF Early, Calm, Late

(* What neither touches a slice nor enters the phase.                      *)
LEMMA SliceSame ==
  ASSUME SliceInv, UNCHANGED <<saVars, cs, gb>>,
         \/ bp # "sa" /\ bp' \in Early
         \/ /\ opts' = opts
            /\ \/ bp' = bp
               \/ bp \in Calm /\ bp' \in Calm
               \/ bp \in Late /\ bp' \in Late
  PROVE  SliceInv'
<1>1. /\ AtSlice /\ opts' = opts => AtSlice'
      /\ PastSlices /\ opts' = opts => PastSlices'
  BY DEF saVars, AtSlice, PastSlices, Done, DoneUnit, InPlace
<1>2. CASE bp # "sa" /\ bp' \in Early
  BY <1>2, PhasesApart DEF SliceInv, saVars
<1>3. CASE opts' = opts /\ bp' = bp
  BY <1>1, <1>3 DEF SliceInv, saVars
<1>4. CASE bp \in Calm /\ bp' \in Calm
  BY <1>4, PhasesApart DEF SliceInv, saVars
<1>5. CASE opts' = opts /\ bp \in Late /\ bp' \in Late
  BY <1>1, <1>5, PhasesApart DEF SliceInv, saVars
<1> QED
  BY <1>2, <1>3, <1>4, <1>5

(* Nothing is done yet when the first slice is at hand.                    *)
LEMMA SliceEnter ==
  ASSUME TypeInv, SliceInv, bp \in Calm, bp' = "sa",
         UNCHANGED <<saVars, cs, gb, opts>>
  PROVE  SliceInv'
<1>1. /\ sac = NoSac /\ sac' = NoSac /\ NoSac.slice = <<0, 0>>
      /\ NoSac.pc = "idle" /\ NoSac.unit = 0
      /\ \A s \in SaSlices : gb'[s] = "table"
  BY PhasesApart DEF SliceInv, NoSac, saVars
<1>2. \A c \in cs : c >= 0
  BY ChannelsTyped
<1>3. \A u \in SaUnits : ~(u < 0)
  BY SaConstants DEF SaUnits
<1>4. AtSlice'
  BY <1>1, <1>2, <1>3, SliceTyped DEF AtSlice, Done, DoneUnit
<1> QED
  BY <1>4, PhasesApart DEF SliceInv

LEMMA SliceConfigure ==
  ASSUME SliceInv, BootConfigure
  PROVE  SliceInv'
<1>1. /\ bp = "phy" /\ bp' = "flush" /\ sac' = sac
      /\ \A s \in SaSlices : gb'[s] = "table"
  BY DEF BootConfigure, Goto, saVars
<1> QED
  BY <1>1, PhasesApart DEF SliceInv, Calm, Late

(* The call for a slice begins.                                            *)
LEMMA SliceBegins ==
  ASSUME TypeInv, SliceInv, BootSlice
  PROVE  SliceInv'
<1>1. /\ bp = "sa" /\ bp' = "sa" /\ opts' = opts /\ AtSlice /\ sac.pc = "idle"
      /\ cs' = cs \cup {sac.slice[1]} /\ gb' = [gb EXCEPT ![sac.slice] = "cal"]
      /\ saReg' = saReg /\ saTab' = saTab
      /\ saState' = [saState EXCEPT ![sac.slice] = "CAL_ENABLED"]
  BY DEF BootSlice, SaBegin, bootVars, SliceInv
<1>2. /\ sac'.slice = sac.slice /\ sac'.unit = 0 /\ sac'.pc \in {"clear", "put"}
      /\ sac'.calibrate = ("SA_CAL" \in opts)
      /\ sac'.pc = "clear" => sac'.calibrate
  BY DEF BootSlice, SaBegin, NoSac
<1>3. /\ sac.slice \in SaSlices /\ gb \in [SaSlices -> {"reset", "table", "cal"}]
      /\ saState \in [SaSlices -> {"reset", "DYNAMIC", "CAL_ENABLED"}]
  BY DEF TypeInv, SaInv, SaTypeOK, PadsOK
<1>4. ASSUME NEW s \in SaSlices
      PROVE  /\ Done(s)' <=> Before(s, sac.slice)
             /\ Done(s) <=> Before(s, sac.slice)
             /\ Before(s, sac.slice) => s # sac.slice
             /\ \A u \in SaUnits : DoneUnit(s, u)' => DoneUnit(s, u)
  <2>1. \A u \in SaUnits : ~(u < 0)
    BY SaConstants DEF SaUnits
  <2> QED
    BY <1>1, <1>2, <1>3, <2>1, SliceTyped DEF Done, DoneUnit
<1>5. \A c \in cs' : c >= sac'.slice[1]
  BY <1>1, <1>2, <1>3, SliceTyped DEF AtSlice
<1>6. ASSUME NEW s \in SaSlices
      PROVE  /\ gb'[s] = "table" \/ (s = sac'.slice /\ sac'.pc # "idle")
             /\ Done(s)' => saState'[s] = "DYNAMIC"
  BY <1>1, <1>2, <1>3, <1>4 DEF AtSlice
<1>7. ASSUME NEW r \in SaRegs, NEW s \in SaSlices, NEW u \in SaUnits,
             DoneUnit(s, u)'
      PROVE  InPlace(r, s, u)'
  BY <1>1, <1>4, <1>7 DEF AtSlice, InPlace
<1>8. AtSlice'
  BY <1>1, <1>2, <1>5, <1>6, <1>7 DEF AtSlice
<1> QED
  BY <1>1, <1>8, PhasesApart DEF SliceInv

(* The search for the code of a unit: only that unit is disturbed.         *)
LEMMA SearchFrame ==
  ASSUME SaInv, SaClear \/ SaUp \/ SaDown
  PROVE  /\ sac.pc \in {"clear", "up", "down"} /\ sac'.slice = sac.slice
         /\ sac'.unit = sac.unit /\ sac'.calibrate = sac.calibrate
         /\ sac'.pc # "idle" /\ (sac'.pc = "ret" => ~sac'.ok)
         /\ saState' = saState
         /\ \A r \in SaRegs \ {Probed} : saReg'[r] = saReg[r]
         /\ \A s \in SaSlices, u \in SaUnits :
              s # sac.slice \/ u # sac.unit => saTab'[s][u] = saTab[s][u]
<1>1. sac \in [pc : SaSteps, slice : SaSlices, calibrate : BOOLEAN,
               unit : SaUnits, band : SaBands \cup {NoBand}, code : SaCodes,
               up : SaCodes, ok : BOOLEAN]
      /\ saReg \in [SaRegs -> [SaSlices -> [SaUnits -> SaFields]]]
      /\ saTab \in [SaSlices -> [SaUnits -> SaCodes]]
  BY DEF SaInv, SaTypeOK, SaFields
<1>2. CASE SaClear
  BY <1>1, <1>2 DEF SaClear
<1>3. CASE SaUp
  BY <1>1, <1>3 DEF SaUp, SaTry
<1>4. CASE SaDown
  <2>1. /\ saTab' = saTab \/ \E code :
             saTab' = [saTab EXCEPT ![sac.slice][sac.unit] = code]
        /\ saReg' = [saReg EXCEPT ![Probed][sac.slice][sac.unit] =
                       SaField(sac.code)]
    BY <1>4 DEF SaDown, SaTry
  <2>2. \A s \in SaSlices, u \in SaUnits :
          s # sac.slice \/ u # sac.unit => saTab'[s][u] = saTab[s][u]
    BY <1>1, <2>1
  <2>3. \A r \in SaRegs \ {Probed} : saReg'[r] = saReg[r]
    BY <1>1, <2>1
  <2>4. \/ sac' = [sac EXCEPT !.pc = "ret", !.ok = FALSE]
        \/ sac' = [sac EXCEPT !.pc = "put"]
        \/ sac' = [sac EXCEPT !.code = @ - 1]
    BY <1>4 DEF SaDown
  <2> QED
    BY <1>1, <1>4, <2>2, <2>3, <2>4 DEF SaDown
<1> QED
  BY <1>2, <1>3, <1>4

(* The code of a unit goes to its registers.                               *)
LEMMA PutFrame ==
  ASSUME SaInv, SaPut
  PROVE  /\ sac.pc = "put" /\ sac'.slice = sac.slice
         /\ sac'.calibrate = sac.calibrate /\ sac'.pc \in {"clear", "put", "ret"}
         /\ sac'.pc = "clear" => sac.calibrate
         /\ saTab' = saTab
         /\ \A r \in SaRegs, s \in SaSlices, u \in SaUnits :
              saReg'[r][s][u] = IF s = sac.slice /\ u = sac.unit
                                THEN SaField(saTab[s][u]) ELSE saReg[r][s][u]
         /\ \A s \in SaSlices \ {sac.slice} : saState'[s] = saState[s]
         /\ sac'.pc # "ret" => sac'.unit = sac.unit + 1
         /\ sac'.pc = "ret" => /\ saState'[sac.slice] = "DYNAMIC"
                               /\ sac'.unit = sac.unit
                               /\ sac.unit + 1 \notin SaUnits
<1>1. sac \in [pc : SaSteps, slice : SaSlices, calibrate : BOOLEAN,
               unit : SaUnits, band : SaBands \cup {NoBand}, code : SaCodes,
               up : SaCodes, ok : BOOLEAN]
      /\ saReg \in [SaRegs -> [SaSlices -> [SaUnits -> SaFields]]]
      /\ saState \in [SaSlices -> {"reset", "DYNAMIC", "CAL_ENABLED"}]
  BY DEF SaInv, SaTypeOK, SaFields
<1>2. \A r \in SaRegs, s \in SaSlices, u \in SaUnits :
        saReg'[r][s][u] = IF s = sac.slice /\ u = sac.unit
                          THEN SaField(saTab[s][u]) ELSE saReg[r][s][u]
  <2>1. \A r \in SaRegs :
          saReg'[r] = [saReg[r] EXCEPT ![sac.slice][sac.unit] =
                         SaField(saTab[sac.slice][sac.unit])]
    BY DEF SaPut, Written
  <2>2. ASSUME NEW r \in SaRegs, NEW s \in SaSlices, NEW u \in SaUnits
        PROVE  saReg'[r][s][u] = IF s = sac.slice /\ u = sac.unit
                                 THEN SaField(saTab[s][u]) ELSE saReg[r][s][u]
    <3>1. /\ saReg[r] \in [SaSlices -> [SaUnits -> SaFields]]
          /\ saReg[r][s] \in [SaUnits -> SaFields]
      BY <1>1
    <3>2. saReg'[r][s] =
            IF s = sac.slice
            THEN [saReg[r][s] EXCEPT ![sac.unit] = SaField(saTab[s][sac.unit])]
            ELSE saReg[r][s]
      <4>1. saReg'[r] =
              [saReg[r] EXCEPT ![sac.slice] =
                 [saReg[r][sac.slice] EXCEPT ![sac.unit] =
                    SaField(saTab[sac.slice][sac.unit])]]
        BY <2>1
      <4> QED
        BY <3>1, <4>1
    <3> QED
      BY <3>1, <3>2
  <2> QED
    BY <2>2
<1>3. CASE sac.unit + 1 \in SaUnits
  <2>1. /\ sac' = [sac EXCEPT !.unit = @ + 1, !.code = 0, !.up = 0,
                       !.band = NoBand,
                       !.pc = IF sac.calibrate THEN "clear" ELSE "put"]
        /\ sac.pc = "put" /\ UNCHANGED <<saState, saTab>>
    BY <1>3 DEF SaPut
  <2>2. /\ sac'.slice = sac.slice /\ sac'.calibrate = sac.calibrate
        /\ sac'.unit = sac.unit + 1
        /\ sac'.pc = IF sac.calibrate THEN "clear" ELSE "put"
    BY <1>1, <2>1
  <2> QED
    BY <1>2, <2>1, <2>2
<1>4. CASE sac.unit + 1 \notin SaUnits
  <2>1. /\ saState' = [saState EXCEPT ![sac.slice] = "DYNAMIC"]
        /\ sac' = [sac EXCEPT !.pc = "ret"] /\ sac.pc = "put" /\ saTab' = saTab
    BY <1>4 DEF SaPut
  <2>2. /\ sac'.slice = sac.slice /\ sac'.calibrate = sac.calibrate
        /\ sac'.unit = sac.unit /\ sac'.pc = "ret" /\ sac.slice \in SaSlices
    BY <1>1, <2>1
  <2>3. /\ saState'[sac.slice] = "DYNAMIC"
        /\ \A s \in SaSlices \ {sac.slice} : saState'[s] = saState[s]
    BY <1>1, <2>1, <2>2
  <2> QED
    BY <1>2, <1>4, <2>1, <2>2, <2>3
<1> QED
  BY <1>3, <1>4

LEMMA StepIsBusy ==
  ASSUME SaStep
  PROVE  sac.pc # "idle"
<1>1. SaClear => sac.pc = "clear"
  BY DEF SaClear
<1>2. SaUp => sac.pc = "up"
  BY Zenon DEF SaUp
<1>3. SaDown => sac.pc = "down"
  BY Zenon DEF SaDown
<1>4. SaPut => sac.pc = "put"
  BY DEF SaPut
<1> QED
  BY <1>1, <1>2, <1>3, <1>4 DEF SaStep

LEMMA SliceGoesOn ==
  ASSUME TypeInv, SliceInv, AmpStep
  PROVE  SliceInv'
<1>1. /\ SaStep /\ SaInv
      /\ UNCHANGED <<bp, opts, cs, gb>>
  BY DEF AmpStep, TypeInv, bootVars, padVars
<1>2. sac.pc # "idle"
  BY <1>1, StepIsBusy
<1>3. bp = "sa" /\ AtSlice
  BY <1>2 DEF SliceInv, NoSac
<1>4. sac.slice \in SaSlices /\ sac.unit \in SaUnits
  BY DEF TypeInv, SaInv, SaTypeOK
<1>5. CASE SaClear \/ SaUp \/ SaDown
  <2>1. /\ sac.pc \in {"clear", "up", "down"} /\ sac'.slice = sac.slice
        /\ sac'.unit = sac.unit /\ sac'.calibrate = sac.calibrate
        /\ sac'.pc # "idle" /\ (sac'.pc = "ret" => ~sac'.ok)
        /\ saState' = saState
        /\ \A r \in SaRegs \ {Probed} : saReg'[r] = saReg[r]
        /\ \A s \in SaSlices, u \in SaUnits :
             s # sac.slice \/ u # sac.unit => saTab'[s][u] = saTab[s][u]
    BY <1>1, <1>5, SearchFrame
  <2>2. "SA_CAL" \in opts /\ sac.calibrate
    BY <1>2, <1>3, <2>1 DEF AtSlice
  <2>3. ASSUME NEW s \in SaSlices
        PROVE  /\ Done(s)' <=> Before(s, sac.slice)
               /\ Done(s)' => Done(s) /\ s # sac.slice
               /\ \A u \in SaUnits : DoneUnit(s, u)' =>
                    DoneUnit(s, u) /\ (s # sac.slice \/ u # sac.unit)
    <3>1. \A u \in SaUnits : u < sac.unit => u # sac.unit
      BY <1>4, SaConstants DEF SaUnits
    <3> QED
      BY <1>4, <2>1, <3>1, SliceTyped DEF Done, DoneUnit
  <2>4. ASSUME NEW r \in SaRegs, NEW s \in SaSlices, NEW u \in SaUnits,
               DoneUnit(s, u)'
        PROVE  InPlace(r, s, u)'
    BY <1>1, <1>3, <2>1, <2>2, <2>3, <2>4 DEF AtSlice, InPlace
  <2>5. AtSlice'
    BY <1>1, <1>3, <2>1, <2>2, <2>3, <2>4 DEF AtSlice
  <2> QED
    BY <1>1, <1>3, <2>5, PhasesApart DEF SliceInv
<1>6. CASE SaPut
  <2>1. /\ sac.pc = "put" /\ sac'.slice = sac.slice
        /\ sac'.calibrate = sac.calibrate /\ sac'.pc \in {"clear", "put", "ret"}
        /\ sac'.pc = "clear" => sac.calibrate
        /\ saTab' = saTab
        /\ \A r \in SaRegs, s \in SaSlices, u \in SaUnits :
             saReg'[r][s][u] = IF s = sac.slice /\ u = sac.unit
                               THEN SaField(saTab[s][u]) ELSE saReg[r][s][u]
        /\ \A s \in SaSlices \ {sac.slice} : saState'[s] = saState[s]
        /\ sac'.pc # "ret" => sac'.unit = sac.unit + 1
        /\ sac'.pc = "ret" => /\ saState'[sac.slice] = "DYNAMIC"
                              /\ sac'.unit = sac.unit
                              /\ sac.unit + 1 \notin SaUnits
    BY <1>1, <1>6, PutFrame
  <2>2. ASSUME NEW s \in SaSlices
        PROVE  Done(s)' => saState'[s] = "DYNAMIC"
    BY <1>3, <1>4, <2>1, SliceTyped DEF AtSlice, Done
  <2>3. ASSUME NEW s \in SaSlices, NEW u \in SaUnits, DoneUnit(s, u)'
        PROVE  DoneUnit(s, u) \/ (s = sac.slice /\ u = sac.unit)
    <3>1. u < sac.unit + 1 => u < sac.unit \/ u = sac.unit
      BY <1>4, SaConstants DEF SaUnits
    <3>2. sac.unit + 1 \notin SaUnits => u < sac.unit \/ u = sac.unit
      BY <1>4, SaConstants DEF SaUnits
    <3> QED
      BY <2>1, <2>3, <3>1, <3>2 DEF Done, DoneUnit
  <2>4. ASSUME NEW r \in SaRegs, NEW s \in SaSlices, NEW u \in SaUnits,
               DoneUnit(s, u)'
        PROVE  InPlace(r, s, u)'
    BY <1>1, <1>3, <2>1, <2>3, <2>4 DEF AtSlice, InPlace
  <2>5. AtSlice'
    BY <1>1, <1>2, <1>3, <2>1, <2>2, <2>4 DEF AtSlice
  <2> QED
    BY <1>1, <1>3, <2>5, PhasesApart DEF SliceInv
<1> QED
  BY <1>1, <1>5, <1>6 DEF SaStep

(* The call succeeds: the next slice is at hand, or all are done.          *)
LEMMA SliceEnds ==
  ASSUME TypeInv, SliceInv, BootSliceDone
  PROVE  SliceInv'
<1> DEFINE t == sac.slice
<1>1. /\ bp = "sa" /\ AtSlice /\ sac.pc = "ret" /\ sac.ok
      /\ gb' = [gb EXCEPT ![t] = "table"]
      /\ cs' = IF LastByte(t) THEN cs \ {t[1]} ELSE cs
      /\ UNCHANGED <<saReg, saTab, saState>>
  BY DEF BootSliceDone, SliceInv
<1>2. t \in SaSlices /\ gb \in [SaSlices -> {"reset", "table", "cal"}]
  BY DEF TypeInv, SaInv, SaTypeOK, PadsOK
<1>3. \A s \in SaSlices : gb'[s] = "table"
  BY <1>1, <1>2 DEF AtSlice
<1>4. ASSUME NEW s \in SaSlices, Before(s, t) \/ s = t
      PROVE  /\ saState[s] = "DYNAMIC"
             /\ \A r \in SaRegs, u \in SaUnits : InPlace(r, s, u)
  BY <1>1, <1>4 DEF AtSlice, Done, DoneUnit
<1>5. CASE LastSlice(t)
  <2>1. bp' = "train" /\ opts' = opts /\ sac' = NoSac
    BY <1>5 DEF BootSliceDone, Goto
  <2>2. cs' = {}
    <3>1. \A c \in cs : c = t[1]
      BY <1>1, <1>2, <1>5, ChannelsTyped, SliceTyped DEF AtSlice, LastSlice
    <3> QED
      BY <1>1, <1>5, <3>1 DEF LastSlice
  <2>3. \A s \in SaSlices : Before(s, t) \/ s = t
    BY <1>2, <1>5, LastIsLast
  <2>4. \A s \in SaSlices : saState[s] = "DYNAMIC"
    BY <1>4, <2>3
  <2>5. \A r \in SaRegs, s \in SaSlices, u \in SaUnits : InPlace(r, s, u)
    BY <1>4, <2>3
  <2>6. PastSlices'
    BY <1>1, <1>3, <2>1, <2>2, <2>4, <2>5 DEF PastSlices, InPlace
  <2> QED
    BY <2>1, <2>6 DEF SliceInv, Calm
<1>6. CASE ~LastSlice(t)
  <2>1. /\ bp' = "sa" /\ opts' = opts
        /\ sac' = [NoSac EXCEPT !.slice = NextSlice(t)]
    BY <1>1, <1>6 DEF BootSliceDone, bootVars
  <2>2. sac'.slice = NextSlice(t) /\ sac'.pc = "idle" /\ sac'.unit = 0
    BY <2>1 DEF NoSac
  <2>3. \A c \in cs' : c >= NextSlice(t)[1]
    BY <1>1, <1>2, ChannelsTyped, SliceTyped DEF AtSlice, NextSlice
  <2>4. ASSUME NEW s \in SaSlices, Before(s, NextSlice(t))
        PROVE  Before(s, t) \/ s = t
    BY <1>2, <1>6, <2>4, NextIsNext
  <2>5. \A u \in SaUnits : ~(u < 0)
    BY SaConstants DEF SaUnits
  <2>6. \A s \in SaSlices : Done(s)' => saState'[s] = "DYNAMIC"
    BY <1>1, <1>4, <2>2, <2>4 DEF Done
  <2>7. ASSUME NEW r \in SaRegs, NEW s \in SaSlices, NEW u \in SaUnits,
               DoneUnit(s, u)'
        PROVE  InPlace(r, s, u)'
    <3>1. InPlace(r, s, u)
      BY <1>4, <2>2, <2>4, <2>5, <2>7 DEF Done, DoneUnit
    <3> QED
      BY <1>1, <2>1, <3>1 DEF InPlace
  <2>8. AtSlice'
    BY <1>3, <2>2, <2>3, <2>6, <2>7 DEF AtSlice
  <2> QED
    BY <2>1, <2>8, PhasesApart DEF SliceInv
<1> QED
  BY <1>5, <1>6

(* A failed call leaves its slice, and wddr_boot, as they are.             *)
LEMMA SliceFails ==
  ASSUME SliceInv, BootSliceFailed
  PROVE  SliceInv'
BY DEF BootSliceFailed, Goto, SliceInv, Calm, Late

(* A preparation writes the gearboxes of the copy from the tables again.   *)
LEMMA SlicePrepared ==
  ASSUME SliceInv, NEW f \in Freqs, Prep(f)
  PROVE  SliceInv'
<1>1. /\ bp = "booted" /\ UNCHANGED <<bp, opts, saVars, cs>>
      /\ gb' = [s \in SaSlices |-> "table"] \/ gb' = gb
  BY DEF Prep, Running, Booted, bootVars
<1>2. PastSlices => PastSlices'
  BY <1>1 DEF PastSlices, InPlace, saVars
<1> QED
  BY <1>1, <1>2 DEF SliceInv, Calm, Late, saVars

LEMMA SliceNext ==
  ASSUME TypeInv, SliceInv, [Next]_vars
  PROVE  SliceInv'
<1>1. CASE BootFlushed
  <2>1. bp = "flush" /\ bp' \in {"zq", "sa"} /\ UNCHANGED <<saVars, cs, gb, opts>>
    BY <1>1 DEF BootFlushed, Goto, padVars
  <2> QED
    BY <2>1, SliceEnter, SliceSame DEF Calm
<1>2. CASE BootCalibrated
  <2>1. bp = "zq" /\ bp' \in {"zq", "sa"} /\ UNCHANGED <<saVars, cs, gb, opts>>
    BY <1>2 DEF BootCalibrated, Goto, bootVars, padVars
  <2> QED
    BY <2>1, SliceEnter, SliceSame DEF Calm
<1>3. CASE TimerFires \/ TimerReturns \/ CalStep
  BY <1>3, SliceSame DEF TimerFires, TimerReturns, CalStep, bootVars, padVars
<1>4. CASE SaActions
  BY <1>4, SliceBegins, SliceEnds, SliceFails, SliceGoesOn DEF SaActions
<1>5. CASE PllActions
  <2>1. ASSUME NEW o \in BootOptions, BootStart(o)
        PROVE  SliceInv'
    BY <2>1, SliceSame DEF BootStart, padVars, Early
  <2>2. CASE BootFll \/ BootFllLocked
    BY <2>2, SliceSame DEF BootFll, BootFllLocked, bootVars, padVars
  <2>3. CASE BootSwitch
    BY <2>3, SliceSame DEF BootSwitch, Goto, padVars, Early
  <2>4. CASE BootVco \/ BootOverride \/ BootRelease
    BY <2>4, SliceSame
    DEF BootVco, BootOverride, BootRelease, Goto, bootVars, padVars, Late
  <2> QED
    BY <1>5, <2>1, <2>2, <2>3, <2>4 DEF PllActions
<1>6. CASE Drain \/ BootPrime \/ BootPrimed
  BY <1>6, SliceSame DEF Drain, BootPrime, BootPrimed, Goto, bootVars, padVars, Late
<1>7. ASSUME NEW f \in Freqs, Prep(f)
      PROVE  SliceInv'
  BY <1>7, SlicePrepared
<1>8. CASE SwitchStart \/ SwitchSent \/ HwSwitch \/ PostSwitch \/ Update
  BY <1>8, SliceSame
  DEF SwitchStart, SwitchSent, HwSwitch, PostSwitch, Update, bootVars, padVars
<1>9. CASE BootPads
  BY <1>9, SliceSame DEF BootPads, Goto, padVars, Early
<1>10. CASE BootTrain
  <2>1. bp = "train" /\ bp' \in {"prime", "failed"} /\ UNCHANGED <<saVars, cs, gb, opts>>
    BY <1>10 DEF BootTrain, Goto
  <2> QED
    BY <2>1, SliceSame DEF Early, Late
<1>11. CASE BootEnd \/ McInitDone
  BY <1>11, SliceSame DEF BootEnd, McInitDone, Goto, bootVars, padVars, Late
<1>12. CASE UNCHANGED vars
  BY <1>12, SliceSame DEF vars, bootVars, padVars
<1> QED
  BY <1>1, <1>2, <1>3, <1>4, <1>5, <1>6, <1>7, <1>8, <1>9, <1>10, <1>11, <1>12,
    SliceConfigure, NextCases
  DEF ZqActions, FifoActions, RunActions, OtherActions

-----------------------------------------------------------------------------
LEMMA BootInit == Init => ForcedInv /\ SliceInv
BY DEF Init, SaInit, ForcedInv, SliceInv, Calm, Late, Msrs

(* The invariant of the forced signals and of the order of the slices.     *)
THEOREM AlwaysInOrder == Spec => [](ForcedInv /\ SliceInv)
<1>1. TypeInv /\ ForcedInv /\ SliceInv /\ [Next]_vars => (ForcedInv /\ SliceInv)'
  BY ForcedNext, SliceNext
<1> QED
  BY <1>1, BootInit, AlwaysTyped, PTL DEF Spec

(* Once the memory controller may see dfi_init_complete, nothing that      *)
(* wddr_boot forced, in its last call or in one that failed, is left       *)
(* (dev/wddr/device.c:116-245).                                            *)
THEOREM NothingIsForced == Spec => []ReleasedClean
<1>1. TypeInv /\ ClockInv /\ FifoInv /\ ForcedInv /\ SliceInv => ReleasedClean
  <2> SUFFICES ASSUME TypeInv, ClockInv, FifoInv, ForcedInv, SliceInv,
                      bp \in {"wait", "booted"}
               PROVE  /\ \A m \in Msrs : shadow[m].pads # "low"
                      /\ cs = {}
                      /\ \A s \in SaSlices :
                           gb[s] = "table" /\ saState[s] = "DYNAMIC"
                      /\ fllOn = {} /\ ~fsw.ovr /\ fsw.toggle
                      /\ bp = "wait" =>
                           fsw.msr = 0 /\ fsw.vco = "PHY_1" /\ ~fifo.bufMode
    BY DEF ReleasedClean
  <2>1. fllOn = {} /\ \A m \in Msrs : shadow[m].pads # "low"
    BY DEF ForcedInv
  <2>2. cs = {} /\ \A s \in SaSlices : gb[s] = "table" /\ saState[s] = "DYNAMIC"
    BY DEF SliceInv, PastSlices, Late
  <2>3. ~fsw.ovr /\ fsw.toggle
    BY DEF ClockInv, BootClock, RunClock, Booted
  <2>4. bp = "wait" => fsw.msr = 0 /\ fsw.vco = "PHY_1" /\ sw = "idle"
    BY DEF ClockInv, BootClock, Booted
  <2>5. bp = "wait" => ~fifo.bufMode
    BY <2>4 DEF FifoInv, BusInv
  <2> QED
    BY <2>1, <2>2, <2>3, <2>4, <2>5
<1> QED
  BY <1>1, AlwaysTyped, AlwaysClocked, AlwaysQueued, AlwaysInOrder, PTL

(* Then every register of an amplifier holds the code of the table, but    *)
(* for the one that calibration tries its codes in                         *)
(* (dev/channel/device.c:304-319).                                         *)
THEOREM SaCodesInPlace == Spec => []SaShadowHolds
<1>1. SliceInv => SaShadowHolds
  BY DEF SliceInv, PastSlices, InPlace, Late, Booted, SaShadowHolds
<1> QED
  BY <1>1, AlwaysInOrder, PTL
=============================================================================
