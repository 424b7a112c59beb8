------------------------- MODULE WddrDevice_proofs --------------------------
(***************************************************************************)
(* Type correctness of the WDDR device, what its two calibrations promise, *)
(* and the DFI buffer, which sends what was prepared and gives the bus back,*)
(* for every number of channels, bytes, bits, codes and frequencies, every *)
(* depth of the FIFO and every number of calls of wddr_boot.               *)
(***************************************************************************)
EXTENDS WddrDeviceProps, WddrCal_proofs, SequenceTheorems

(* The states of the boot and of a switch that are not of a calibration.   *)
Labels == {"off", "pll", "freq", "phy", "flush", "zq", "sa", "train", "prime",
           "primed", "vco", "ovr", "release", "wait", "booted", "failed"}

ControlOK ==
  /\ bp \in Labels /\ opts \in BootOptions \cup {{}} /\ boots \in 0..MaxBoots
  /\ halted \in BOOLEAN
  /\ sw \in {"idle", "prep", "sending", "sent"}
  /\ initStart \in BOOLEAN /\ moved \in BOOLEAN /\ req \in BOOLEAN
ClockOK ==
  /\ pll \in Plls /\ fsw \in Fsws
  /\ fllJobs \subseteq Freqs \X PhyVcos /\ fllOn \subseteq PhyVcos
PadsOK ==
  /\ shadow \in [Msrs -> Shadows]
  /\ cs \subseteq Channels /\ caRdata \in BOOLEAN
  /\ gb \in [SaSlices -> {"reset", "table", "cal"}]
FifoOK ==
  fifo \in Fifos /\ Len(fifo.ig) <= FifoDepth /\ sent \in Seq(Packets)

TypeInv == ZqInv /\ SaInv /\ ControlOK /\ ClockOK /\ PadsOK /\ FifoOK

-----------------------------------------------------------------------------
(* What the helpers return.                                                *)

LEMMA DeviceConstants ==
  /\ BootFreq \in Freqs /\ NoFreq \notin Freqs
  /\ MrwLens \in [Freqs -> 1..FifoDepth]
  /\ FifoDepth \in Nat /\ FifoDepth > 0 /\ MaxBoots \in Nat
BY DeviceAssumption, FifoAssumption DEF DeviceAssumption, FifoAssumption

LEMMA PrepareTyped ==
  ASSUME NEW p \in Plls, NEW f \in Freqs
  PROVE  /\ Prepare(p, f) \in Plls
         /\ Prepare(p, f).current = p.current
         /\ Prepare(p, f).prev = p.prev
         /\ Prepare(p, f).next = FreeVco(p)
         /\ Prepare(p, f).enabled = p.enabled \cup {FreeVco(p)}
         /\ Prepare(p, f).freq[FreeVco(p)] = f
         /\ Prepare(p, f).freq[p.current] = p.freq[p.current]
         /\ FreeVco(p) \in PhyVcos /\ FreeVco(p) # p.current
BY DEF Prepare, FreeVco, Plls, Vcos, PhyVcos

LEMMA SwitchTyped ==
  ASSUME NEW p \in Plls, p.next # NoVco
  PROVE  /\ DisableVco(SwitchVco(p)) \in Plls
         /\ DisableVco(SwitchVco(p)).current = p.next
         /\ DisableVco(SwitchVco(p)).next = NoVco
         /\ DisableVco(SwitchVco(p)).prev = NoVco
         /\ DisableVco(SwitchVco(p)).enabled = p.enabled \ {p.current}
         /\ DisableVco(SwitchVco(p)).freq = p.freq
<1> DEFINE q == SwitchVco(p)
<1>1. /\ q \in Plls /\ q.current = p.next /\ q.next = NoVco
      /\ q.prev = p.current /\ q.enabled = p.enabled /\ q.freq = p.freq
  BY DEF SwitchVco, Plls, Vcos, PhyVcos, NoVco
<1>2. q.prev # NoVco
  BY <1>1 DEF Plls, Vcos, PhyVcos, NoVco
<1> HIDE DEF q
<1>3. DisableVco(q) = [q EXCEPT !.enabled = @ \ {q.prev}, !.prev = NoVco]
  BY <1>2 DEF DisableVco
<1> QED
  BY <1>1, <1>3 DEF q, Plls

(* A switch by software: the other VCO, with the frequency asked for.      *)
LEMMA SwSwitchTyped ==
  ASSUME NEW p \in Plls, NEW f \in Freqs
  PROVE  /\ SwSwitch(p, f, FALSE) \in Plls
         /\ SwSwitch(p, f, FALSE).current = FreeVco(p)
         /\ SwSwitch(p, f, FALSE).next = NoVco
         /\ SwSwitch(p, f, FALSE).prev = NoVco
         /\ SwSwitch(p, f, FALSE).enabled =
              (p.enabled \cup {FreeVco(p)}) \ {p.current}
         /\ SwSwitch(p, f, FALSE).freq[FreeVco(p)] = f
<1>1. /\ Prepare(p, f) \in Plls /\ Prepare(p, f).next = FreeVco(p)
      /\ Prepare(p, f).next # NoVco
  BY PrepareTyped DEF PhyVcos, NoVco
<1> QED
  BY <1>1, PrepareTyped, SwitchTyped DEF SwSwitch

(* Each block of a copy is written for f, and the others are left alone.   *)
LEMMA DqBlockTyped ==
  ASSUME NEW c \in Shadows, NEW f \in Freqs, TableCode \in Pairs
  PROVE  LET d == DqBlockPrep(c, f)
         IN  /\ d \in Shadows /\ d.pads = c.pads /\ ~d.dqLoop /\ ~d.rxLoop
             /\ d.code["dqs"] = TableCode
             /\ \A g \in {"dqTx", "dqBits", "dqsBits", "dqRx"} : d.freq[g] = f
<1>1. /\ DqTxPrep(c, f) \in Shadows
      /\ DqTxPrep(c, f).pads = c.pads /\ ~DqTxPrep(c, f).dqLoop
      /\ DqTxPrep(c, f).code["dqs"] = TableCode
      /\ \A g \in {"dqTx", "dqBits", "dqsBits"} : DqTxPrep(c, f).freq[g] = f
  BY DEF DqTxPrep, DqsBitPrep, DqBitPrep, Shadows, Groups, Strobes
<1> QED
  BY <1>1 DEF DqBlockPrep, DqRxPrep, Shadows, Groups

LEMMA CaBlockTyped ==
  ASSUME NEW c \in Shadows, NEW f \in Freqs, TableCode \in Pairs
  PROVE  LET d == CaBlockPrep(c, f)
         IN  /\ d \in Shadows /\ d.pads = "table"
             /\ d.dqLoop = c.dqLoop /\ d.rxLoop = c.rxLoop
             /\ d.code["ck"] = TableCode /\ d.code["dqs"] = c.code["dqs"]
             /\ \A g \in {"caTx", "caBits", "ckBits", "caRx"} : d.freq[g] = f
             /\ \A g \in {"dqTx", "dqBits", "dqsBits", "dqRx"} :
                  d.freq[g] = c.freq[g]
<1>1. /\ CaTxPrep(c, f) \in Shadows /\ CaTxPrep(c, f).pads = "table"
      /\ CaTxPrep(c, f).dqLoop = c.dqLoop /\ CaTxPrep(c, f).rxLoop = c.rxLoop
      /\ CaTxPrep(c, f).code["ck"] = TableCode
      /\ CaTxPrep(c, f).code["dqs"] = c.code["dqs"]
      /\ \A g \in {"caTx", "caBits", "ckBits"} : CaTxPrep(c, f).freq[g] = f
      /\ \A g \in {"dqTx", "dqBits", "dqsBits", "dqRx"} :
           CaTxPrep(c, f).freq[g] = c.freq[g]
  BY DEF CaTxPrep, CkBitPrep, CaBitPrep, Shadows, Groups, Strobes, PadUsers
<1> QED
  BY <1>1 DEF CaBlockPrep, CaRxPrep, Shadows, Groups

LEMMA ConfiguredTyped ==
  ASSUME NEW c \in Shadows, NEW f \in Freqs, TableCode \in Pairs
  PROVE  /\ Configured(c, f) \in Shadows
         /\ \A g \in Groups : Configured(c, f).freq[g] = f
         /\ Configured(c, f).pads = "table"
         /\ ~Configured(c, f).dqLoop /\ ~Configured(c, f).rxLoop
         /\ \A d \in Strobes : Configured(c, f).code[d] = TableCode
<1> DEFINE a == DqBlockPrep(c, f)
           b == CaBlockPrep(a, f)
           d == CmnPrep(b, f)
<1>1. /\ a \in Shadows /\ ~a.dqLoop /\ ~a.rxLoop /\ a.code["dqs"] = TableCode
      /\ \A g \in {"dqTx", "dqBits", "dqsBits", "dqRx"} : a.freq[g] = f
  BY DqBlockTyped
<1> HIDE DEF a
<1>2. /\ b \in Shadows /\ b.pads = "table" /\ ~b.dqLoop /\ ~b.rxLoop
      /\ b.code["ck"] = TableCode /\ b.code["dqs"] = TableCode
      /\ \A g \in Groups \ {"cmn", "dfi"} : b.freq[g] = f
  BY <1>1, CaBlockTyped DEF Groups
<1> HIDE DEF b
<1>3. /\ d \in Shadows /\ d.pads = "table" /\ ~d.dqLoop /\ ~d.rxLoop
      /\ d.code = b.code
      /\ \A g \in Groups \ {"dfi"} : d.freq[g] = f
  BY <1>2 DEF CmnPrep, Shadows, Groups
<1> HIDE DEF d
<1>4. Configured(c, f) = DfiPrep(d, f)
  BY DEF Configured, a, b, d
<1> QED
  BY <1>2, <1>3, <1>4 DEF DfiPrep, Shadows, Groups, Strobes

LEMMA LoopedBackTyped ==
  ASSUME NEW c \in Shadows
  PROVE  /\ LoopedBack(c) \in Shadows /\ LoopedBack(c).freq = c.freq
         /\ LoopedBack(c).pads = "loop"
BY DEF LoopedBack, Shadows, PadUsers

LEMMA MrwTyped ==
  ASSUME NEW f \in Freqs
  PROVE  /\ MrwList(f) \in Seq(Packets) /\ Len(MrwList(f)) = MrwLens[f]
         /\ Len(MrwList(f)) <= FifoDepth /\ MrwList(f) # <<>>
<1>1. MrwLens[f] \in 1..FifoDepth /\ FifoDepth \in Nat
  BY DeviceConstants
<1>2. MrwList(f) \in [1..MrwLens[f] -> Packets]
  BY DEF MrwList, Packets
<1>3. MrwLens[f] \in Nat /\ MrwLens[f] >= 1 /\ MrwLens[f] <= FifoDepth
  BY <1>1
<1>4. MrwList(f) \in Seq(Packets)
  BY <1>2, <1>3, SeqDef
<1>5. Len(MrwList(f)) = MrwLens[f]
  BY <1>3, <1>4, LenProperties DEF MrwList
<1> QED
  BY <1>3, <1>4, <1>5, EmptySeq

LEMMA ListsTyped ==
  /\ FlushList \in Seq(Packets) /\ PrimeList \in Seq(Packets)
  /\ Len(FlushList) = 2 /\ Len(PrimeList) = 1
BY DEF FlushList, PrimeList, Packets

(* A list goes to an emptied FIFO, the first of it as far as there is room.*)
LEMMA FilledTyped ==
  ASSUME NEW b \in Fifos, NEW list \in Seq(Packets)
  PROVE  /\ Filled(b, list) \in Fifos /\ Len(Filled(b, list).ig) <= FifoDepth
         /\ Filled(b, list).bufMode = b.bufMode
         /\ Len(list) <= FifoDepth => Filled(b, list).ig = list
<1> DEFINE n == IF Len(list) < FifoDepth THEN Len(list) ELSE FifoDepth
<1>1. FifoDepth \in Nat /\ Len(list) \in Nat /\ n \in Nat /\ n <= FifoDepth
      /\ n <= Len(list)
  BY DeviceConstants, LenProperties
<1>2. SubSeq(list, 1, n) \in Seq(Packets) /\ Len(SubSeq(list, 1, n)) = n
  <2>1. \A i \in 1..n : list[i] \in Packets
    BY <1>1, LenProperties
  <2>2. /\ SubSeq(list, 1, n) \in Seq(Packets)
        /\ Len(SubSeq(list, 1, n)) = IF 1 <= n THEN n - 1 + 1 ELSE 0
    BY <1>1, <2>1, SubSeqProperties
  <2> QED
    BY <1>1, <2>2
<1>3. Loaded(<<>>, list) = SubSeq(list, 1, n)
  <2>1. FifoDepth - Len(<<>>) = FifoDepth
    BY <1>1
  <2>2. Loaded(<<>>, list) = <<>> \o SubSeq(list, 1, n)
    BY <2>1 DEF Loaded
  <2> QED
    BY <1>2, <2>2, ConcatEmptySeq
<1>4. Filled(b, list) = [b EXCEPT !.clk = TRUE, !.ig = SubSeq(list, 1, n)]
  BY <1>3 DEF Filled, Enabled, Fifos
<1>5. Len(list) <= FifoDepth => SubSeq(list, 1, n) = list
  BY <1>1, SubSeqFull
<1> QED
  BY <1>1, <1>2, <1>4, <1>5 DEF Fifos

LEMMA SendingTyped ==
  ASSUME NEW b \in Fifos
  PROVE  /\ Sending(b) \in Fifos /\ Sending(b).ig = b.ig
         /\ Disabled(SendOver(b)) \in Fifos /\ Disabled(SendOver(b)).ig = b.ig
         /\ ~Disabled(SendOver(b)).bufMode
BY DEF Sending, Disabled, SendOver, Fifos

LEMMA DrainTyped ==
  ASSUME FifoOK, fifo.ig # <<>>,
         fifo' = [fifo EXCEPT !.ig = Tail(@)],
         sent' = Append(sent, Head(fifo.ig))
  PROVE  FifoOK'
<1>1. fifo.ig \in Seq(Packets)
  BY DEF FifoOK, Fifos
<1>2. /\ Head(fifo.ig) \in Packets /\ Tail(fifo.ig) \in Seq(Packets)
      /\ Len(Tail(fifo.ig)) = Len(fifo.ig) - 1 /\ Len(fifo.ig) \in Nat
  BY <1>1, HeadTailProperties, LenProperties
<1>3. sent' \in Seq(Packets)
  BY <1>2, AppendProperties DEF FifoOK
<1>4. fifo' \in Fifos /\ fifo'.ig = Tail(fifo.ig)
  BY <1>2 DEF FifoOK, Fifos
<1>5. Len(fifo'.ig) <= FifoDepth
  BY <1>2, <1>4, DeviceConstants DEF FifoOK
<1> QED
  BY <1>3, <1>4, <1>5 DEF FifoOK

-----------------------------------------------------------------------------
(* The actions, by what they change.                                       *)

ZqActions == BootFlushed \/ BootCalibrated \/ TimerFires \/ TimerReturns \/ CalStep
SaActions == BootSlice \/ BootSliceDone \/ BootSliceFailed \/ AmpStep
PllActions == (\E o \in BootOptions : BootStart(o)) \/ BootFll \/ BootFllLocked
              \/ BootSwitch \/ BootVco \/ BootOverride \/ BootRelease
FifoActions == BootConfigure \/ Drain \/ BootPrime \/ BootPrimed
RunActions == (\E f \in Freqs : Prep(f)) \/ SwitchStart \/ SwitchSent \/ HwSwitch
              \/ PostSwitch \/ Update
OtherActions == BootPads \/ BootTrain \/ BootEnd \/ McInitDone

LEMMA NextCases ==
  ASSUME [Next]_vars
  PROVE  ZqActions \/ SaActions \/ PllActions \/ FifoActions \/ RunActions
         \/ OtherActions \/ UNCHANGED vars
BY DEF Next, BootStep, SwitchStep, ZqActions, SaActions, PllActions,
  FifoActions, RunActions, OtherActions

(* The ZQ calibration, whoever calls it.                                   *)
LEMMA ZqNextInv ==
  ASSUME ZqInv, [Next]_vars
  PROVE  ZqInv'
<1>1. CASE ZqActions
  <2>1. CASE BootFlushed
    BY <2>1, ZqStartInv, ZqSameInv DEF BootFlushed, zqVars
  <2>2. CASE BootCalibrated
    BY <2>2, ZqReturnInv DEF BootCalibrated, CalReturn
  <2>3. CASE TimerFires
    BY <2>3, ZqStartInv DEF TimerFires
  <2>4. CASE TimerReturns
    BY <2>4, ZqReturnInv DEF TimerReturns, CalReturn
  <2>5. CASE CalStep
    BY <2>5, ZqStepInv DEF CalStep
  <2> QED
    BY <1>1, <2>1, <2>2, <2>3, <2>4, <2>5 DEF ZqActions
<1>2. CASE SaActions
  BY <1>2, ZqSameInv
  DEF SaActions, BootSlice, BootSliceDone, BootSliceFailed, AmpStep, zqVars
<1>3. CASE PllActions
  BY <1>3, ZqSameInv
  DEF PllActions, BootStart, BootFll, BootFllLocked, BootSwitch, BootVco,
    BootOverride, BootRelease, zqVars
<1>4. CASE FifoActions
  BY <1>4, ZqSameInv
  DEF FifoActions, BootConfigure, Drain, BootPrime, BootPrimed, zqVars
<1>5. CASE RunActions
  BY <1>5, ZqSameInv
  DEF RunActions, Prep, SwitchStart, SwitchSent, HwSwitch, PostSwitch, Update,
    zqVars
<1>6. CASE OtherActions
  BY <1>6, ZqSameInv
  DEF OtherActions, BootPads, BootTrain, BootEnd, McInitDone, zqVars
<1>7. CASE UNCHANGED vars
  BY <1>7, ZqSameInv DEF vars, zqVars
<1> QED
  BY <1>1, <1>2, <1>3, <1>4, <1>5, <1>6, <1>7, NextCases

LEMMA NextSliceTyped ==
  ASSUME NEW s \in SaSlices, ~LastSlice(s)
  PROVE  NextSlice(s) \in SaSlices
<1>1. /\ SaChannels \in Nat /\ SaBytes \in Nat /\ SaBytes > 0
      /\ s[1] \in 0..(SaChannels - 1) /\ s[2] \in 0..(SaBytes - 1)
  BY SaConstants DEF SaSlices
<1>2. CASE LastByte(s)
  <2>1. s[1] + 1 \in 0..(SaChannels - 1) /\ 0 \in 0..(SaBytes - 1)
    BY <1>1, <1>2 DEF LastSlice
  <2> QED
    BY <1>2, <2>1 DEF NextSlice, SaSlices
<1>3. CASE ~LastByte(s)
  <2>1. s[2] + 1 \in 0..(SaBytes - 1)
    BY <1>1, <1>3 DEF LastByte
  <2> QED
    BY <1>1, <1>3, <2>1 DEF NextSlice, SaSlices
<1> QED
  BY <1>2, <1>3

(* The calibration of the amplifiers, slice after slice.                   *)
LEMMA SaNextInv ==
  ASSUME SaInv, [Next]_vars
  PROVE  SaInv'
<1>1. CASE SaActions
  <2>1. CASE BootSlice
    <3>1. sac.slice \in SaSlices /\ ("SA_CAL" \in opts) \in BOOLEAN
      BY DEF SaInv, SaTypeOK
    <3> QED
      BY <2>1, <3>1, SaBeginInv DEF BootSlice
  <2>2. CASE BootSliceDone
    <3>1. CASE LastSlice(sac.slice)
      BY <2>2, <3>1, SaReturnInv DEF BootSliceDone
    <3>2. CASE ~LastSlice(sac.slice)
      <4>1. NextSlice(sac.slice) \in SaSlices
        BY <3>2, NextSliceTyped DEF SaInv, SaTypeOK
      <4> QED
        BY <2>2, <3>2, <4>1, SaReturnInv DEF BootSliceDone
    <3> QED
      BY <3>1, <3>2
  <2>3. CASE BootSliceFailed
    BY <2>3, SaReturnInv DEF BootSliceFailed
  <2>4. CASE AmpStep
    BY <2>4, SaStepInv DEF AmpStep
  <2> QED
    BY <1>1, <2>1, <2>2, <2>3, <2>4 DEF SaActions
<1>2. CASE ZqActions
  BY <1>2, SaSameInv
  DEF ZqActions, BootFlushed, BootCalibrated, TimerFires, TimerReturns, CalStep,
    saVars
<1>3. CASE PllActions
  BY <1>3, SaSameInv
  DEF PllActions, BootStart, BootFll, BootFllLocked, BootSwitch, BootVco,
    BootOverride, BootRelease, saVars
<1>4. CASE FifoActions
  BY <1>4, SaSameInv
  DEF FifoActions, BootConfigure, Drain, BootPrime, BootPrimed, saVars
<1>5. CASE RunActions
  BY <1>5, SaSameInv
  DEF RunActions, Prep, SwitchStart, SwitchSent, HwSwitch, PostSwitch, Update,
    saVars
<1>6. CASE OtherActions
  BY <1>6, SaSameInv
  DEF OtherActions, BootPads, BootTrain, BootEnd, McInitDone, saVars
<1>7. CASE UNCHANGED vars
  BY <1>7, SaSameInv DEF vars, saVars
<1> QED
  BY <1>1, <1>2, <1>3, <1>4, <1>5, <1>6, <1>7, NextCases

-----------------------------------------------------------------------------
(* Types.                                                                  *)

LEMMA ControlNext ==
  ASSUME ControlOK, [Next]_vars
  PROVE  ControlOK'
<1> USE DEF ControlOK, Labels
<1>1. CASE ZqActions
  BY <1>1 DEF ZqActions, BootFlushed, BootCalibrated, TimerFires, TimerReturns,
    CalStep, CalReturn, Goto, bootVars, runVars, zqVars
<1>2. CASE SaActions
  BY <1>2 DEF SaActions, BootSlice, BootSliceDone, BootSliceFailed, AmpStep, Goto,
    bootVars, runVars
<1>3. CASE PllActions
  <2>1. ASSUME NEW o \in BootOptions, BootStart(o)
        PROVE  ControlOK'
    BY <2>1, DeviceConstants DEF BootStart, runVars
  <2>2. CASE BootFll \/ BootFllLocked
    BY <2>2 DEF BootFll, BootFllLocked, bootVars, runVars
  <2>3. CASE BootSwitch \/ BootVco \/ BootOverride \/ BootRelease
    BY <2>3 DEF BootSwitch, BootVco, BootOverride, BootRelease, Goto, bootVars,
      runVars
  <2> QED
    BY <1>3, <2>1, <2>2, <2>3 DEF PllActions
<1>4. CASE FifoActions
  BY <1>4 DEF FifoActions, BootConfigure, Drain, BootPrime, BootPrimed, Goto,
    bootVars, runVars
<1>5. CASE RunActions
  <2>1. CASE \E f \in Freqs : Prep(f)
    BY <2>1 DEF Prep, runVars, bootVars
  <2>2. CASE SwitchStart \/ SwitchSent \/ HwSwitch
    BY <2>2 DEF SwitchStart, SwitchSent, HwSwitch, runVars, bootVars
  <2>3. CASE PostSwitch \/ Update
    BY <2>3 DEF PostSwitch, Update, runVars, bootVars
  <2> QED
    BY <1>5, <2>1, <2>2, <2>3 DEF RunActions
<1>6. CASE OtherActions
  BY <1>6 DEF OtherActions, BootPads, BootTrain, BootEnd, McInitDone, Goto,
    bootVars, runVars
<1>7. CASE UNCHANGED vars
  BY <1>7 DEF vars, bootVars, runVars
<1> QED
  BY <1>1, <1>2, <1>3, <1>4, <1>5, <1>6, <1>7, NextCases

LEMMA SwFreqSwitchTyped ==
  ASSUME ClockOK, SwFreqSwitch(BootFreq, 0)
  PROVE  /\ pll' \in Plls /\ fsw' \in Fsws
         /\ pll' = SwSwitch(pll, BootFreq, FALSE)
         /\ fsw'.toggle /\ fsw'.ovr /\ fsw'.msr = 0 /\ fsw'.vco = pll'.current
         /\ fsw'.notReady = fsw.notReady
<1>1. pll' = SwSwitch(pll, BootFreq, FALSE) /\ pll' \in Plls
  BY SwSwitchTyped, DeviceConstants DEF SwFreqSwitch, ClockOK
<1>2. pll'.current \in Vcos
  BY <1>1 DEF Plls
<1>3. fsw' = [fsw EXCEPT !.toggle = TRUE, !.ovr = TRUE, !.ovrMsr = 0,
               !.ovrVco = pll'.current, !.msr = 0, !.vco = pll'.current]
  BY DEF SwFreqSwitch, Toggled
<1> QED
  BY <1>1, <1>2, <1>3 DEF ClockOK, Fsws, Msrs

(* The other copy, and the other VCO, unless an override holds them.       *)
LEMMA HwSwitchTyped ==
  ASSUME ClockOK, HwSwitch
  PROVE  /\ fsw' \in Fsws
         /\ fsw'.ovr = fsw.ovr /\ fsw'.toggle = fsw.toggle
         /\ ~fsw.ovr /\ fsw.toggle => fsw'.msr = 1 - fsw.msr
         /\ ~fsw.ovr => fsw'.vco = IF fsw.vco = "PHY_1" THEN "PHY_2" ELSE "PHY_1"
<1> DEFINE m == IF fsw.toggle THEN 1 - fsw.msr ELSE fsw.msr
           v == IF fsw.vco = "PHY_1" THEN "PHY_2" ELSE "PHY_1"
<1>1. fsw.msr \in {0, 1} /\ m \in {0, 1} /\ v \in Vcos /\ fsw \in Fsws
  BY DEF ClockOK, Fsws, Msrs, Vcos, PhyVcos
<1>2. fsw' = IF fsw.ovr THEN fsw ELSE [fsw EXCEPT !.msr = m, !.vco = v]
  BY DEF HwSwitch
<1> QED
  BY <1>1, <1>2 DEF Fsws, Msrs

LEMMA ClockNext ==
  ASSUME ClockOK, [Next]_vars
  PROVE  ClockOK'
<1>1. CASE ZqActions
  BY <1>1 DEF ZqActions, BootFlushed, BootCalibrated, TimerFires, TimerReturns,
    CalStep, pllVars, ClockOK
<1>2. CASE SaActions
  BY <1>2 DEF SaActions, BootSlice, BootSliceDone, BootSliceFailed, AmpStep,
    pllVars, ClockOK
<1>3. CASE PllActions
  <2>1. ASSUME NEW o \in BootOptions, BootStart(o)
        PROVE  ClockOK'
    BY <2>1 DEF BootStart, ClockOK
  <2>2. CASE BootFll
    <3>1. fllJobs \subseteq Freqs \X PhyVcos /\ fllJobs # {}
      BY <2>2 DEF BootFll, ClockOK
    <3>2. (CHOOSE j \in fllJobs : TRUE) \in Freqs \X PhyVcos
      BY <3>1
    <3> QED
      BY <2>2, <3>2 DEF BootFll, ClockOK
  <2>3. CASE BootFllLocked
    BY <2>3 DEF BootFllLocked, ClockOK
  <2>4. CASE BootSwitch
    BY <2>4, SwFreqSwitchTyped DEF BootSwitch, ClockOK
  <2>5. CASE BootVco
    BY <2>5, SwFreqSwitchTyped DEF BootVco, ClockOK
  <2>6. CASE BootOverride \/ BootRelease
    BY <2>6 DEF BootOverride, BootRelease, pllVars, ClockOK, Fsws, Msrs, Vcos,
      PhyVcos
  <2> QED
    BY <1>3, <2>1, <2>2, <2>3, <2>4, <2>5, <2>6 DEF PllActions
<1>4. CASE FifoActions
  BY <1>4 DEF FifoActions, BootConfigure, Drain, BootPrime, BootPrimed, pllVars,
    ClockOK
<1>5. CASE RunActions
  <2>1. ASSUME NEW f \in Freqs, Prep(f)
        PROVE  ClockOK'
    BY <2>1, PrepareTyped DEF Prep, ClockOK
  <2>2. CASE HwSwitch
    BY <2>2, HwSwitchTyped DEF HwSwitch, pllVars, ClockOK
  <2>3. CASE PostSwitch
    <3>1. DisableVco(SwitchVco(pll)) \in Plls
      <4>1. SwitchVco(pll) \in Plls
        BY DEF ClockOK, SwitchVco, Plls, Vcos, PhyVcos, NoVco
      <4>2. ASSUME NEW q \in Plls PROVE DisableVco(q) \in Plls
        BY DEF DisableVco, Plls
      <4> QED
        BY <4>1, <4>2
    <3>2. [fsw EXCEPT !.toggle = TRUE] \in Fsws
      BY DEF ClockOK, Fsws
    <3> QED
      BY <2>3, <3>1, <3>2 DEF PostSwitch, ClockOK
  <2>4. CASE SwitchStart \/ SwitchSent \/ Update
    BY <2>4 DEF SwitchStart, SwitchSent, Update, pllVars, ClockOK
  <2> QED
    BY <1>5, <2>1, <2>2, <2>3, <2>4 DEF RunActions
<1>6. CASE OtherActions
  BY <1>6 DEF OtherActions, BootPads, BootTrain, BootEnd, McInitDone, pllVars,
    ClockOK
<1>7. CASE UNCHANGED vars
  BY <1>7 DEF vars, pllVars, ClockOK
<1> QED
  BY <1>1, <1>2, <1>3, <1>4, <1>5, <1>6, <1>7, NextCases

LEMMA FifoNext ==
  ASSUME FifoOK, [Next]_vars
  PROVE  FifoOK'
<1>0. fifo \in Fifos /\ Len(fifo.ig) <= FifoDepth /\ sent \in Seq(Packets)
      /\ <<>> \in Seq(Packets)
  BY EmptySeq DEF FifoOK
<1>1. ASSUME NEW list \in Seq(Packets), SendList(list)
      PROVE  FifoOK'
  <2>1. Filled(fifo, list) \in Fifos /\ Len(Filled(fifo, list).ig) <= FifoDepth
    BY <1>0, FilledTyped
  <2> QED
    BY <1>0, <1>1, <2>1, SendingTyped DEF SendList, FifoOK
<1>2. CASE BootFlushed \/ BootPrimed \/ SwitchSent
  BY <1>0, <1>2, SendingTyped DEF BootFlushed, BootPrimed, SwitchSent, FifoOK
<1>3. CASE BootConfigure \/ BootPrime
  BY <1>1, <1>3, ListsTyped DEF BootConfigure, BootPrime
<1>4. CASE Drain
  BY <1>4, DrainTyped DEF Drain
<1>5. ASSUME NEW f \in Freqs, Prep(f)
      PROVE  FifoOK'
  BY <1>0, <1>5, MrwTyped, FilledTyped DEF Prep, FifoOK
<1>6. CASE SwitchStart
  BY <1>0, <1>6, SendingTyped DEF SwitchStart, FifoOK
<1>7. CASE HwSwitch \/ PostSwitch \/ Update
  BY <1>7 DEF HwSwitch, PostSwitch, Update, bufVars, FifoOK
<1>8. CASE BootCalibrated \/ TimerFires \/ TimerReturns \/ CalStep \/ OtherActions
  BY <1>8 DEF BootCalibrated, TimerFires, TimerReturns, CalStep, OtherActions,
    BootPads, BootTrain, BootEnd, McInitDone, bufVars, FifoOK
<1>9. CASE SaActions
  BY <1>9 DEF SaActions, BootSlice, BootSliceDone, BootSliceFailed, AmpStep,
    bufVars, FifoOK
<1>10. CASE PllActions
  BY <1>10 DEF PllActions, BootStart, BootFll, BootFllLocked, BootSwitch, BootVco,
    BootOverride, BootRelease, bufVars, FifoOK
<1>11. CASE UNCHANGED vars
  BY <1>11 DEF vars, bufVars, FifoOK
<1> QED
  BY <1>2, <1>3, <1>4, <1>5, <1>6, <1>7, <1>8, <1>9, <1>10, <1>11, NextCases
  DEF ZqActions, FifoActions, RunActions

LEMMA CodesWritten ==
  ASSUME ZqInv
  PROVE  TableCode \in Pairs
BY DEF ZqInv, ZqTypeOK, TableCode, Vohs

(* An update writes the codes of the copy in use and nothing else.         *)
LEMMA UpdateTyped ==
  ASSUME PadsOK, ClockOK, TableCode \in Pairs, UpdateCodes
  PROVE  /\ shadow' \in [Msrs -> Shadows]
         /\ \A m \in Msrs :
              /\ shadow'[m].freq = shadow[m].freq
              /\ shadow'[m].pads = shadow[m].pads
              /\ shadow'[m].dqLoop = shadow[m].dqLoop
              /\ shadow'[m].rxLoop = shadow[m].rxLoop
              /\ m # fsw.msr => shadow'[m] = shadow[m]
<1>1. fsw.msr \in Msrs /\ shadow \in [Msrs -> Shadows]
  BY DEF PadsOK, ClockOK, Fsws
<1>2. shadow' = [shadow EXCEPT ![fsw.msr] =
                   [@ EXCEPT !.code = [d \in Strobes |-> TableCode]]]
  BY DEF UpdateCodes, UpdatedCopy
<1> DEFINE new == [shadow[fsw.msr] EXCEPT !.code = [d \in Strobes |-> TableCode]]
<1>3. shadow'[fsw.msr] = new /\ \A m \in Msrs : m # fsw.msr => shadow'[m] = shadow[m]
  BY <1>1, <1>2
<1>4. /\ new \in Shadows
      /\ new.freq = shadow[fsw.msr].freq /\ new.pads = shadow[fsw.msr].pads
      /\ new.dqLoop = shadow[fsw.msr].dqLoop
      /\ new.rxLoop = shadow[fsw.msr].rxLoop
  BY <1>1 DEF Shadows
<1> HIDE DEF new
<1>5. shadow' \in [Msrs -> Shadows]
  BY <1>1, <1>2, <1>4 DEF new
<1> QED
  BY <1>1, <1>3, <1>4, <1>5

(* wddr_configure_phy writes the whole of one copy.                        *)
LEMMA ConfigureCopy ==
  ASSUME PadsOK, TableCode \in Pairs, NEW m \in Msrs, NEW f \in Freqs,
         shadow' = [shadow EXCEPT ![m] = Configured(@, f)]
  PROVE  /\ shadow' \in [Msrs -> Shadows]
         /\ \A g \in Groups : shadow'[m].freq[g] = f
         /\ shadow'[m].pads = "table"
         /\ ~shadow'[m].dqLoop /\ ~shadow'[m].rxLoop
         /\ \A n \in Msrs \ {m} : shadow'[n] = shadow[n]
BY ConfiguredTyped DEF PadsOK

LEMMA PadsNext ==
  ASSUME ZqInv, SaInv, ClockOK, PadsOK, [Next]_vars
  PROVE  PadsOK'
<1>0. /\ TableCode \in Pairs /\ BootFreq \in Freqs /\ sac.slice \in SaSlices
      /\ fsw.msr \in Msrs /\ 1 - fsw.msr \in Msrs /\ 0 \in Msrs
  BY CodesWritten, DeviceConstants DEF SaInv, SaTypeOK, ClockOK, Fsws, Msrs
<1>1. CASE BootCalibrated
  BY <1>0, <1>1, UpdateTyped DEF BootCalibrated, padVars, PadsOK
<1>2. CASE Update
  BY <1>0, <1>2, UpdateTyped DEF Update, padVars, PadsOK
<1>3. CASE BootConfigure
  BY <1>0, <1>3, ConfigureCopy DEF BootConfigure, PadsOK
<1>4. ASSUME NEW f \in Freqs, Prep(f)
      PROVE  PadsOK'
  BY <1>0, <1>4, ConfigureCopy DEF Prep, PreparedCopy, PadsOK
<1>5. CASE BootPads
  <2>1. shadow' \in [Msrs -> Shadows]
    <3>1. shadow[0] \in Shadows /\ shadow \in [Msrs -> Shadows]
      BY <1>0 DEF PadsOK
    <3>2. shadow' = [shadow EXCEPT ![0] = [@ EXCEPT !.pads = "low"]]
      BY <1>5 DEF BootPads
    <3>3. [shadow[0] EXCEPT !.pads = "low"] \in Shadows
      BY <3>1 DEF Shadows, PadUsers
    <3> QED
      BY <1>0, <3>1, <3>2, <3>3
  <2> QED
    BY <1>5, <2>1 DEF BootPads, padVars, PadsOK
<1>6. CASE BootTrain
  <2>1. shadow' \in [Msrs -> Shadows]
    BY <1>0, <1>6, LoopedBackTyped DEF BootTrain, PadsOK
  <2>2. caRdata' \in BOOLEAN
    BY <1>6, DeviceAssumption DEF BootTrain, PadsOK, DeviceAssumption
  <2> QED
    BY <1>6, <2>1, <2>2 DEF BootTrain, PadsOK
<1>7. CASE BootSlice
  BY <1>0, <1>7 DEF BootSlice, PadsOK, Channels
<1>8. CASE BootSliceDone
  BY <1>0, <1>8 DEF BootSliceDone, PadsOK
<1>9. CASE BootSliceFailed \/ AmpStep
  BY <1>9 DEF BootSliceFailed, AmpStep, padVars, PadsOK
<1>10. CASE BootFlushed \/ TimerFires \/ TimerReturns \/ CalStep
  BY <1>10 DEF BootFlushed, TimerFires, TimerReturns, CalStep, padVars, PadsOK
<1>11. CASE PllActions
  BY <1>11 DEF PllActions, BootStart, BootFll, BootFllLocked, BootSwitch, BootVco,
    BootOverride, BootRelease, padVars, PadsOK
<1>12. CASE Drain \/ BootPrime \/ BootPrimed
  BY <1>12 DEF Drain, BootPrime, BootPrimed, padVars, PadsOK
<1>13. CASE SwitchStart \/ SwitchSent \/ HwSwitch \/ PostSwitch
  BY <1>13 DEF SwitchStart, SwitchSent, HwSwitch, PostSwitch, padVars, PadsOK
<1>14. CASE BootEnd \/ McInitDone \/ UNCHANGED vars
  BY <1>14 DEF BootEnd, McInitDone, vars, padVars, PadsOK
<1> QED
  BY <1>1, <1>2, <1>3, <1>4, <1>5, <1>6, <1>7, <1>8, <1>9, <1>10, <1>11, <1>12,
    <1>13, <1>14, NextCases
  DEF ZqActions, SaActions, FifoActions, RunActions, OtherActions

LEMMA TypeInit == Init => TypeInv
<1> SUFFICES ASSUME Init PROVE TypeInv
  OBVIOUS
<1>1. ZqInv /\ SaInv
  BY ZqInitInv, SaInitInv DEF Init
<1>2. ControlOK
  <2>1. boots \in 0..MaxBoots
    BY DeviceConstants DEF Init
  <2> QED
    BY <2>1 DEF Init, ControlOK, Labels
<1>3. ClockOK
  BY DeviceConstants
  DEF Init, ClockOK, BootedPll, Plls, Fsws, Vcos, PhyVcos, NoVco, Msrs
<1>4. PadsOK
  BY DeviceConstants
  DEF Init, PadsOK, Shadows, Groups, Strobes, PadUsers
<1>5. FifoOK
  BY DeviceConstants, EmptySeq DEF Init, FifoOK, NewFifo, Fifos
<1> QED
  BY <1>1, <1>2, <1>3, <1>4, <1>5 DEF TypeInv

LEMMA TypeNext ==
  ASSUME TypeInv, [Next]_vars
  PROVE  TypeInv'
BY ZqNextInv, SaNextInv, ControlNext, ClockNext, PadsNext, FifoNext DEF TypeInv

(* The invariant the other proofs about the device start from.             *)
THEOREM AlwaysTyped == Spec => []TypeInv
BY TypeInit, TypeNext, PTL DEF Spec

-----------------------------------------------------------------------------
(* Every variable keeps its type: registers of the PHY, the FIFO, the      *)
(* pointers of the PLL device, the state of both calibrations.             *)
THEOREM TypeCorrect == Spec => []TypeOK
<1>1. TypeInv => TypeOK
  BY DEF TypeInv, ZqInv, SaInv, ControlOK, Labels, ClockOK, PadsOK, FifoOK, TypeOK
<1> QED
  BY <1>1, AlwaysTyped, PTL

(* A ZQ calibration that succeeds leaves exactly the trip points in the    *)
(* table (dev/cmn/device.c:63-140).                                        *)
THEOREM ZqCodesAreExact == Spec => []CodesAreExact
<1>1. TypeInv => CodesAreExact
  <2> SUFFICES ASSUME TypeInv, cal.pc = "ret", cal.ok
               PROVE  zqCode = cal.trip
    BY DEF CodesAreExact
  <2>1. \A v \in Vohs : zqCode[v] = cal.trip[v]
    BY DEF TypeInv, ZqInv, Result, Over
  <2>2. zqCode \in [Vohs -> Pairs] /\ cal.trip \in [Vohs -> [n : Nat, p : Nat]]
    BY TripTyped DEF TypeInv, ZqInv, ZqTypeOK
  <2> QED
    BY <2>1, <2>2
<1> QED
  BY <1>1, AlwaysTyped, PTL

(* One that fails has met a trip point out of the range of its codes       *)
(* (dev/cmn/device.c:96-117).                                              *)
THEOREM ZqFailuresAreReal == Spec => []FailuresAreReal
<1>1. TypeInv => FailuresAreReal
  BY DEF TypeInv, ZqInv, Result, Over, InRange, FailuresAreReal
<1> QED
  BY <1>1, AlwaysTyped, PTL

(* The comparator is on exactly during a calibration, failed or not        *)
(* (dev/cmn/device.c:126-140).                                             *)
THEOREM ZqComparatorOff == Spec => []ComparatorOff
<1>1. TypeInv => ComparatorOff
  BY DEF TypeInv, ZqInv, Busy, ComparatorOff
<1> QED
  BY <1>1, AlwaysTyped, PTL

(* The code saved for an amplifier lies in its band of noise               *)
(* (dev/channel/device.c:249-303).                                         *)
THEOREM SaCodesInBand == Spec => []SaCodeInBand
<1>1. TypeInv => SaCodeInBand
  BY DEF TypeInv, SaInv, SaSaved, SaCodeInBand
<1> QED
  BY <1>1, AlwaysTyped, PTL

-----------------------------------------------------------------------------
(* The DFI buffer.  FifoInv follows the packets from the preparation of a  *)
(* switch to the bus.                                                      *)

(* The buffer has the bus only while something is sent.                    *)
BusInv == fifo.bufMode => bp \in {"flush", "primed"} \/ sw = "sending"

(* The packets of the frequency being switched to: waiting, then partly on *)
(* the bus and partly in the FIFO, then all on the bus.                    *)
Due == MrwList(pll.freq[FreeVco(pll)])
SendInv ==
  /\ sw # "idle" => Booted
  /\ sw = "prep" => fifo.ig = Due
  /\ sw \in {"sending", "sent"} => sent \o fifo.ig = Due
  /\ sw = "sent" => fifo.ig = <<>>

FifoInv == BusInv /\ SendInv

LEMMA FifoInit == Init => FifoInv
BY DEF Init, FifoInv, BusInv, SendInv, NewFifo

(* A packet leaves the FIFO for the bus: the two still make up the list.   *)
LEMMA DrainKeepsOrder ==
  ASSUME NEW s \in Seq(Packets), NEW q \in Seq(Packets), q # <<>>
  PROVE  Append(s, Head(q)) \o Tail(q) = s \o q
<1>1. /\ Head(q) \in Packets /\ Tail(q) \in Seq(Packets)
      /\ Len(Tail(q)) = Len(q) - 1 /\ Len(q) \in Nat /\ Len(s) \in Nat
      /\ \A i \in 1..Len(Tail(q)) : Tail(q)[i] = q[i + 1]
  BY HeadTailProperties, LenProperties
<1>2. /\ Append(s, Head(q)) \in Seq(Packets)
      /\ Len(Append(s, Head(q))) = Len(s) + 1
      /\ \A i \in 1..Len(s) : Append(s, Head(q))[i] = s[i]
      /\ Append(s, Head(q))[Len(s) + 1] = Head(q)
  BY <1>1, AppendProperties
<1> DEFINE a == Append(s, Head(q))
           t == Tail(q)
<1> HIDE DEF a, t
<1>3. /\ a \o t \in Seq(Packets) /\ s \o q \in Seq(Packets)
      /\ Len(a \o t) = Len(a) + Len(t) /\ Len(s \o q) = Len(s) + Len(q)
      /\ \A i \in 1..(Len(a) + Len(t)) :
           (a \o t)[i] = IF i <= Len(a) THEN a[i] ELSE t[i - Len(a)]
      /\ \A i \in 1..(Len(s) + Len(q)) :
           (s \o q)[i] = IF i <= Len(s) THEN s[i] ELSE q[i - Len(s)]
  BY <1>1, <1>2, ConcatProperties DEF a, t
<1>4. Len(a) + Len(t) = Len(s) + Len(q) /\ Len(a) = Len(s) + 1
  BY <1>1, <1>2 DEF a, t
<1>5. ASSUME NEW i \in 1..(Len(s) + Len(q))
      PROVE  (a \o t)[i] = (s \o q)[i]
  <2>1. CASE i <= Len(s)
    BY <1>1, <1>2, <1>3, <1>4, <2>1 DEF a
  <2>2. CASE i = Len(s) + 1
    <3>1. (a \o t)[i] = Head(q)
      BY <1>1, <1>2, <1>3, <1>4, <2>2 DEF a
    <3>2. (s \o q)[i] = q[1]
      BY <1>1, <1>3, <2>2
    <3> QED
      BY <3>1, <3>2
  <2>3. CASE i > Len(s) + 1
    <3>1. (a \o t)[i] = t[i - (Len(s) + 1)]
      BY <1>1, <1>3, <1>4, <2>3
    <3>2. t[i - (Len(s) + 1)] = q[i - (Len(s) + 1) + 1]
      BY <1>1, <2>3 DEF t
    <3>3. (s \o q)[i] = q[i - Len(s)] /\ i - (Len(s) + 1) + 1 = i - Len(s)
      BY <1>1, <1>3, <2>3
    <3> QED
      BY <3>1, <3>2, <3>3
  <2>4. i <= Len(s) \/ i = Len(s) + 1 \/ i > Len(s) + 1
    BY <1>1
  <2> QED
    BY <2>1, <2>2, <2>3, <2>4
<1>6. a \o t = s \o q
  BY <1>3, <1>4, <1>5, SeqEqual
<1> QED
  BY <1>6 DEF a, t

LEMMA Buffers ==
  ASSUME TypeInv
  PROVE  /\ fifo \in Fifos /\ fifo.ig \in Seq(Packets) /\ sent \in Seq(Packets)
         /\ pll \in Plls
BY DEF TypeInv, FifoOK, Fifos, ClockOK

LEMMA FifoSame ==
  ASSUME FifoInv, UNCHANGED <<fifo, sent, sw>>, Booted => pll' = pll /\ Booted',
         bp \in {"flush", "primed"} => bp' = bp
  PROVE  FifoInv'
BY DEF FifoInv, BusInv, SendInv, Due, Booted
-----------------------------------------------------------------------------
LEMMA BootSendInv ==
  ASSUME TypeInv, FifoInv, BootConfigure \/ BootPrime
  PROVE  FifoInv'
<1>1. bp' \in {"flush", "primed"} /\ sw' = sw /\ ~Booted
  BY DEF BootConfigure, BootPrime, Goto, runVars, Booted
<1> QED
  BY <1>1 DEF FifoInv, BusInv, SendInv

LEMMA SendOverInv ==
  ASSUME TypeInv, FifoInv, BootFlushed \/ BootPrimed \/ SwitchSent
  PROVE  FifoInv'
<1>1. fifo' = Disabled(SendOver(fifo)) /\ sent' = sent /\ pll' = pll /\ fifo.ig = <<>>
  BY DEF BootFlushed, BootPrimed, SwitchSent, pllVars
<1>2. fifo'.ig = fifo.ig /\ ~fifo'.bufMode
  BY <1>1, Buffers, SendingTyped
<1>3. CASE BootFlushed \/ BootPrimed
  BY <1>2, <1>3
  DEF BootFlushed, BootPrimed, runVars, FifoInv, BusInv, SendInv, Booted
<1>4. CASE SwitchSent
  <2>1. sw = "sending" /\ sw' = "sent" /\ bp' = bp
    BY <1>4 DEF SwitchSent, bootVars
  <2> QED
    BY <1>1, <1>2, <2>1 DEF FifoInv, BusInv, SendInv, Due, Booted
<1> QED
  BY <1>3, <1>4

LEMMA DrainInv ==
  ASSUME TypeInv, FifoInv, Drain
  PROVE  FifoInv'
<1>1. /\ fifo' = [fifo EXCEPT !.ig = Tail(@)] /\ sent' = Append(sent, Head(fifo.ig))
      /\ fifo.bufMode /\ fifo.ig # <<>>
      /\ UNCHANGED <<bp, sw, pll>>
  BY DEF Drain, Sends, bootVars, runVars, pllVars
<1>2. fifo'.ig = Tail(fifo.ig) /\ fifo'.bufMode
  BY <1>1, Buffers DEF Fifos
<1>3. sent' \o fifo'.ig = sent \o fifo.ig
  BY <1>1, <1>2, Buffers, DrainKeepsOrder
<1>4. sw \notin {"prep", "sent"}
  BY <1>1 DEF FifoInv, BusInv, SendInv, Booted
<1> QED
  BY <1>1, <1>2, <1>3, <1>4 DEF FifoInv, BusInv, SendInv, Due, Booted

(* However often a switch is prepared anew, the FIFO holds one list.       *)
LEMMA PrepInv ==
  ASSUME TypeInv, FifoInv, NEW f \in Freqs, Prep(f)
  PROVE  FifoInv'
<1>1. /\ Booted /\ bp' = bp /\ sw \in {"idle", "prep"} /\ sw' = "prep"
      /\ fifo' = Filled(fifo, MrwList(f)) /\ pll' = Prepare(pll, f)
  BY DEF Prep, Running, Settled, Receives, bootVars
<1>2. fifo'.ig = MrwList(f) /\ fifo'.bufMode = fifo.bufMode
  BY <1>1, Buffers, MrwTyped, FilledTyped
<1>3. pll'.freq[FreeVco(pll')] = f
  <2>1. pll'.current = pll.current /\ pll'.freq[FreeVco(pll)] = f
    BY <1>1, Buffers, PrepareTyped
  <2> QED
    BY <2>1 DEF FreeVco
<1>4. ~fifo.bufMode
  BY <1>1 DEF FifoInv, BusInv, Booted
<1> QED
  BY <1>1, <1>2, <1>3, <1>4 DEF FifoInv, BusInv, SendInv, Due, Booted

LEMMA StartInv ==
  ASSUME TypeInv, FifoInv, SwitchStart
  PROVE  FifoInv'
<1>1. /\ Booted /\ bp' = bp /\ sw = "prep" /\ sw' = "sending" /\ pll' = pll
      /\ fifo' = Sending(fifo) /\ sent' = <<>>
  BY DEF SwitchStart, Running, bootVars, pllVars
<1>2. fifo'.ig = fifo.ig
  BY <1>1, Buffers, SendingTyped
<1>3. sent' \o fifo'.ig = fifo.ig
  BY <1>1, <1>2, Buffers, ConcatEmptySeq
<1> QED
  BY <1>1, <1>2, <1>3 DEF FifoInv, BusInv, SendInv, Due, Booted

LEMMA PostInv ==
  ASSUME FifoInv, PostSwitch
  PROVE  FifoInv'
BY DEF PostSwitch, bootVars, bufVars, FifoInv, BusInv, SendInv, Booted

LEMMA FifoInvNext ==
  ASSUME TypeInv, FifoInv, [Next]_vars
  PROVE  FifoInv'
<1>1. CASE BootCalibrated \/ TimerFires \/ TimerReturns \/ CalStep
  BY <1>1, FifoSame
  DEF BootCalibrated, TimerFires, TimerReturns, CalStep, Goto, bootVars, pllVars,
    bufVars, runVars, Booted
<1>2. CASE SaActions
  BY <1>2, FifoSame
  DEF SaActions, BootSlice, BootSliceDone, BootSliceFailed, AmpStep, Goto,
    bootVars, pllVars, bufVars, runVars, Booted
<1>3. CASE PllActions
  BY <1>3, FifoSame
  DEF PllActions, BootStart, BootFll, BootFllLocked, BootSwitch, BootVco,
    BootOverride, BootRelease, Goto, bootVars, pllVars, bufVars, runVars, Booted
<1>4. CASE HwSwitch \/ Update
  BY <1>4, FifoSame DEF HwSwitch, Update, bootVars, pllVars, bufVars, Booted
<1>5. CASE OtherActions
  BY <1>5, FifoSame
  DEF OtherActions, BootPads, BootTrain, BootEnd, McInitDone, Goto, bootVars,
    pllVars, bufVars, runVars, Booted
<1>6. CASE UNCHANGED vars
  BY <1>6, FifoSame DEF vars, bootVars, pllVars, bufVars, runVars, Booted
<1> QED
  BY <1>1, <1>2, <1>3, <1>4, <1>5, <1>6, BootSendInv, SendOverInv, DrainInv,
    PrepInv, StartInv, PostInv, NextCases
  DEF ZqActions, FifoActions, RunActions

THEOREM AlwaysQueued == Spec => []FifoInv
<1>1. TypeInv /\ FifoInv /\ [Next]_vars => FifoInv'
  BY FifoInvNext
<1> QED
  BY <1>1, FifoInit, AlwaysTyped, PTL DEF Spec

(* The DFI bus belongs to the memory controller whenever nothing is sent   *)
(* (dfi_buffer_disable after every send).                                  *)
THEOREM BusComesBack == Spec => []BusIsReturned
<1>1. FifoInv => BusIsReturned
  BY DEF FifoInv, BusInv, BusIsReturned, Booted
<1> QED
  BY <1>1, AlwaysQueued, PTL

(* A switch sends the mode registers of the frequency it goes to, all of   *)
(* them and nothing else (dev/wddr/device.c:432-467).                      *)
THEOREM PreparedIsSent == Spec => []SwitchSendsPrepared
<1>1. TypeInv /\ FifoInv => SwitchSendsPrepared
  <2> SUFFICES ASSUME TypeInv, FifoInv, Booted, sw = "sent"
               PROVE  sent = MrwList(pll.freq[FreeVco(pll)])
    BY DEF SwitchSendsPrepared
  <2>1. sent \o <<>> = Due
    BY DEF FifoInv, SendInv
  <2>2. sent \o <<>> = sent
    BY Buffers, ConcatEmptySeq
  <2> QED
    BY <2>1, <2>2 DEF Due
<1> QED
  BY <1>1, AlwaysTyped, AlwaysQueued, PTL
=============================================================================
