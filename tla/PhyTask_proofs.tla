--------------------------- MODULE PhyTask_proofs ---------------------------
(***************************************************************************)
(* Proofs about the PHY firmware task for every queue length, set of       *)
(* frequencies, boot outcome and behaviour of the MC that PhyTask admits.  *)
(***************************************************************************)
EXTENDS PhyInv, SequenceTheorems, TLAPS

IndInv == TypeOK /\ HandlerInv

-----------------------------------------------------------------------------
(* The queue.                                                              *)
LEMMA MsgTyped ==
  ASSUME NEW e \in Events, NEW t \in Tasks \cup {NoTask},
         NEW f \in Freqs \cup {NoFreq}
  PROVE  /\ Msg(e, t, f) \in Messages
         /\ Msg(e, t, f).event = e
BY DEF Msg, Messages

LEMMA NoMsgIsNoMessage == NoMsg \notin Messages
BY DEF NoMsg, Messages, Events, FswEvents, DfiEvents

LEMMA ReceiveTyped ==
  ASSUME QueueOK, NEW e, Receive(e)
  PROVE  /\ Head(mq) \in Messages /\ Head(mq).event = e
         /\ QueueOK'
<1>1. mq \in Seq(Messages) /\ Len(mq) <= MsgQueueLen /\ mq # <<>>
  BY DEF QueueOK, Receive
<1>2. /\ Head(mq) \in Messages /\ Tail(mq) \in Seq(Messages)
      /\ Len(Tail(mq)) = Len(mq) - 1 /\ Len(mq) \in Nat
  BY <1>1, HeadTailProperties
<1>3. Len(Tail(mq)) <= MsgQueueLen
  BY <1>1, <1>2, PhyTaskAssumption DEF PhyTaskAssumption
<1> QED
  BY <1>2, <1>3 DEF QueueOK, Receive

LEMMA AppendTyped ==
  ASSUME QueueOK, NEW m \in Messages, Len(mq) < MsgQueueLen, mq' = Append(mq, m)
  PROVE  QueueOK'
BY AppendProperties, PhyTaskAssumption DEF QueueOK, PhyTaskAssumption

LEMMA SendTyped ==
  ASSUME QueueOK, NEW m \in Messages, SendFromIsr(m)
  PROVE  QueueOK'
BY AppendTyped DEF SendFromIsr, QueueOK

LEMMA RespondTyped ==
  ASSUME NEW to, NEW resp \in Resps,
         notify \in [Tasks -> Resps \cup {NoResp}], Respond(to, resp)
  PROVE  notify' \in [Tasks -> Resps \cup {NoResp}]
BY DEF Respond

LEMMA ClearTyped ==
  ASSUME NEW t, notify \in [Tasks -> Resps \cup {NoResp}]
  PROVE  [notify EXCEPT ![t] = NoResp] \in [Tasks -> Resps \cup {NoResp}]
OBVIOUS

-----------------------------------------------------------------------------
(* What a receive and a send do to the messages in the queue.              *)
LEMMA SameQueue ==
  ASSUME UNCHANGED mq, NEW e, NEW f
  PROVE  Queued(e)' = Queued(e) /\ Once(e)' = Once(e)
         /\ Behind(e, f)' = Behind(e, f)
BY DEF Queued, Once, Behind

LEMMA TailMsgs ==
  ASSUME QueueOK, mq # <<>>, mq' = Tail(mq)
  PROVE  /\ Len(mq) \in Nat /\ Len(mq') = Len(mq) - 1
         /\ 1 \in 1 .. Len(mq) /\ Head(mq) = mq[1]
         /\ \A i \in 1 .. Len(mq') : mq'[i] = mq[i + 1] /\ i + 1 \in 1 .. Len(mq)
<1>1. mq \in Seq(Messages) /\ Len(mq) \in Nat /\ Len(mq) # 0
  BY EmptySeq DEF QueueOK
<1>2. Len(mq') = Len(mq) - 1 /\ Head(mq) = mq[1]
  BY <1>1, HeadTailProperties
<1>3. \A i \in 1 .. Len(mq') : mq'[i] = mq[i + 1] /\ i + 1 \in 1 .. Len(mq)
  BY <1>1, <1>2, HeadTailProperties
<1> QED
  BY <1>1, <1>2, <1>3

LEMMA TailQueue ==
  ASSUME QueueOK, mq # <<>>, mq' = Tail(mq), NEW e
  PROVE  /\ Queued(e)' => Queued(e)
         /\ Once(e) => Once(e)'
         /\ Queued(e) => Queued(e)' \/ Head(mq).event = e
         /\ Head(mq).event = e => Queued(e)
         /\ Head(mq).event = e /\ Once(e) => ~Queued(e)'
<1>1. /\ Len(mq) \in Nat /\ Len(mq') = Len(mq) - 1
      /\ 1 \in 1 .. Len(mq) /\ Head(mq) = mq[1]
      /\ \A i \in 1 .. Len(mq') : mq'[i] = mq[i + 1] /\ i + 1 \in 1 .. Len(mq)
  BY TailMsgs
<1>2. Queued(e)' => Queued(e)
  BY <1>1 DEF Queued
<1>3. ASSUME Once(e) PROVE Once(e)'
  <2> SUFFICES ASSUME NEW i \in 1 .. Len(mq'), NEW j \in 1 .. Len(mq'),
                      mq'[i].event = e, mq'[j].event = e
               PROVE  i = j
    BY DEF Once
  <2>1. i + 1 = j + 1
    BY <1>1, <1>3 DEF Once
  <2> QED
    BY <1>1, <2>1
<1>4. Head(mq).event = e => Queued(e)
  BY <1>1 DEF Queued
<1>5. ASSUME Head(mq).event = e, Once(e) PROVE ~Queued(e)'
  <2>1. \A i \in 1 .. Len(mq') : i + 1 # 1
    BY <1>1
  <2> QED
    BY <1>1, <1>5, <2>1 DEF Queued, Once
<1>6. ASSUME NEW i \in 1 .. Len(mq), mq[i].event = e
      PROVE  Queued(e)' \/ Head(mq).event = e
  <2>1. CASE i = 1
    BY <1>1, <1>6, <2>1
  <2>2. CASE i # 1
    <3>1. i - 1 \in 1 .. Len(mq') /\ (i - 1) + 1 = i
      BY <1>1, <2>2
    <3> QED
      BY <1>1, <1>6, <3>1 DEF Queued
  <2> QED
    BY <2>1, <2>2
<1>7. Queued(e) => Queued(e)' \/ Head(mq).event = e
  BY <1>6 DEF Queued
<1> QED
  BY <1>2, <1>3, <1>4, <1>5, <1>7

LEMMA TailBehind ==
  ASSUME QueueOK, mq # <<>>, mq' = Tail(mq), NEW e, NEW f
  PROVE  /\ Behind(e, f)' => Behind(e, f)
         /\ Head(mq).event = e /\ ~Behind(e, f) => ~Queued(f)'
<1>1. /\ Len(mq) \in Nat /\ Len(mq') = Len(mq) - 1
      /\ 1 \in 1 .. Len(mq) /\ Head(mq) = mq[1]
      /\ \A i \in 1 .. Len(mq') : mq'[i] = mq[i + 1] /\ i + 1 \in 1 .. Len(mq)
  BY TailMsgs
<1>2. ASSUME Behind(e, f)' PROVE Behind(e, f)
  <2>1. PICK i \in 1 .. Len(mq'), j \in 1 .. Len(mq') :
          i < j /\ mq'[i].event = e /\ mq'[j].event = f
    BY <1>2 DEF Behind
  <2>2. i + 1 < j + 1
    BY <1>1, <2>1
  <2> QED
    BY <1>1, <2>1, <2>2 DEF Behind
<1>3. ASSUME Head(mq).event = e, Queued(f)' PROVE Behind(e, f)
  <2>1. PICK j \in 1 .. Len(mq') : mq'[j].event = f
    BY <1>3 DEF Queued
  <2>2. 1 < j + 1
    BY <1>1
  <2> QED
    BY <1>1, <1>3, <2>1, <2>2 DEF Behind
<1> QED
  BY <1>2, <1>3

LEMMA AppendMsgs ==
  ASSUME QueueOK, NEW m, mq' = Append(mq, m)
  PROVE  /\ Len(mq) \in Nat /\ Len(mq') = Len(mq) + 1
         /\ mq'[Len(mq) + 1] = m /\ Len(mq) + 1 \in 1 .. Len(mq')
         /\ \A i \in 1 .. Len(mq) : mq'[i] = mq[i] /\ i \in 1 .. Len(mq')
         /\ \A i \in 1 .. Len(mq') : i \in 1 .. Len(mq) \/ i = Len(mq) + 1
<1>1. /\ Len(mq) \in Nat /\ Len(mq') = Len(mq) + 1
      /\ mq'[Len(mq) + 1] = m
      /\ \A i \in 1 .. Len(mq) : mq'[i] = mq[i]
  BY DEF QueueOK
<1> QED
  BY <1>1

LEMMA AppendQueue ==
  ASSUME QueueOK, NEW m, mq' = Append(mq, m), NEW e
  PROVE  /\ Queued(e)' <=> Queued(e) \/ m.event = e
         /\ Once(e) /\ (m.event = e => ~Queued(e)) => Once(e)'
<1>1. /\ Len(mq) \in Nat /\ Len(mq') = Len(mq) + 1
      /\ mq'[Len(mq) + 1] = m /\ Len(mq) + 1 \in 1 .. Len(mq')
      /\ \A i \in 1 .. Len(mq) : mq'[i] = mq[i] /\ i \in 1 .. Len(mq')
      /\ \A i \in 1 .. Len(mq') : i \in 1 .. Len(mq) \/ i = Len(mq) + 1
  BY AppendMsgs
<1>2. Queued(e)' <=> Queued(e) \/ m.event = e
  BY <1>1 DEF Queued
<1>3. ASSUME Once(e), m.event = e => ~Queued(e) PROVE Once(e)'
  <2>1. CASE m.event = e
    <3>1. \A i \in 1 .. Len(mq) : mq'[i].event # e
      BY <1>1, <1>3, <2>1 DEF Queued
    <3> QED
      BY <1>1, <3>1 DEF Once
  <2>2. CASE m.event # e
    BY <1>1, <1>3, <2>2 DEF Once
  <2> QED
    BY <2>1, <2>2
<1> QED
  BY <1>2, <1>3

LEMMA AppendBehind ==
  ASSUME QueueOK, NEW m, mq' = Append(mq, m), NEW e, NEW f
  PROVE  Behind(e, f)' => Behind(e, f) \/ (Queued(e) /\ m.event = f)
<1>1. /\ Len(mq) \in Nat /\ Len(mq') = Len(mq) + 1
      /\ mq'[Len(mq) + 1] = m
      /\ \A i \in 1 .. Len(mq) : mq'[i] = mq[i]
      /\ \A i \in 1 .. Len(mq') : i \in 1 .. Len(mq) \/ i = Len(mq) + 1
  BY AppendMsgs
<1> SUFFICES ASSUME Behind(e, f)'
             PROVE  Behind(e, f) \/ (Queued(e) /\ m.event = f)
  OBVIOUS
<1>2. PICK i \in 1 .. Len(mq'), j \in 1 .. Len(mq') :
        i < j /\ mq'[i].event = e /\ mq'[j].event = f
  BY DEF Behind
<1>3. i \in 1 .. Len(mq)
  BY <1>1, <1>2
<1> QED
  BY <1>1, <1>2, <1>3 DEF Behind, Queued

(* xQueueSendToBackFromISR may lose the message.                           *)
LEMMA SendQueue ==
  ASSUME QueueOK, NEW m, SendFromIsr(m), NEW e
  PROVE  /\ Queued(e) => Queued(e)'
         /\ Queued(e)' => Queued(e) \/ m.event = e
         /\ Once(e) /\ (m.event = e => ~Queued(e)) => Once(e)'
<1>1. CASE mq' = Append(mq, m)
  BY <1>1, AppendQueue
<1>2. CASE mq' = mq
  BY <1>2, SameQueue
<1> QED
  BY <1>1, <1>2 DEF SendFromIsr

LEMMA SendBehind ==
  ASSUME QueueOK, NEW m, SendFromIsr(m), NEW e, NEW f
  PROVE  Behind(e, f)' => Behind(e, f) \/ (Queued(e) /\ m.event = f)
BY AppendBehind, SameQueue DEF SendFromIsr

-----------------------------------------------------------------------------
(* The transition tables: a reaction picks a row of its table.             *)
LEMMA FswRow ==
  ASSUME NEW s, NEW e, Reacts(FswTransitions, s, e)
  PROVE  <<s, e, Target(FswTransitions, s, e)>> \in FswTransitions
<1> DEFINE R(row) == row[1] = s /\ row[2] = e
           r == CHOOSE row \in FswTransitions : R(row)
<1>1. r \in FswTransitions /\ R(r)
  BY DEF Reacts
<1>2. Target(FswTransitions, s, e) = r[3]
  BY DEF Target
<1>3. r = <<r[1], r[2], r[3]>>
  <2> HIDE DEF R, r
  <2> QED
    BY <1>1 DEF FswTransitions
<1> QED
  BY <1>1, <1>2, <1>3

LEMMA DfiRow ==
  ASSUME NEW s, NEW e, Reacts(DfiTransitions, s, e)
  PROVE  <<s, e, Target(DfiTransitions, s, e)>> \in DfiTransitions
<1> DEFINE R(row) == row[1] = s /\ row[2] = e
           r == CHOOSE row \in DfiTransitions : R(row)
<1>1. r \in DfiTransitions /\ R(r)
  BY DEF Reacts
<1>2. Target(DfiTransitions, s, e) = r[3]
  BY DEF Target
<1>3. r = <<r[1], r[2], r[3]>>
  <2> HIDE DEF R, r
  <2> QED
    BY <1>1 DEF DfiTransitions
<1> QED
  BY <1>1, <1>2, <1>3

(* The moves of the frequency-switch machine.                              *)
LEMMA FswTargets ==
  /\ Target(FswTransitions, "Prep", "PREP") = "Prep"
  /\ Target(FswTransitions, "Prep", "INIT_START") = "Pending"
  /\ Target(FswTransitions, "Pending", "PLL_LOCK") = "Prep"
  /\ \A s : Reacts(FswTransitions, s, "PREP") => s = "Prep"
  /\ \A s : Reacts(FswTransitions, s, "INIT_START") => s = "Prep"
  /\ \A s : Reacts(FswTransitions, s, "PLL_LOCK") => s = "Pending"
<1>1. /\ Reacts(FswTransitions, "Prep", "PREP")
      /\ Reacts(FswTransitions, "Prep", "INIT_START")
      /\ Reacts(FswTransitions, "Pending", "PLL_LOCK")
  BY DEF Reacts, FswTransitions
<1> QED
  BY <1>1, FswRow DEF FswTransitions

(* The moves of the DFI machine.                                           *)
LEMMA DfiTargets ==
  /\ Target(DfiTransitions, "Idle", "PHYMSTR_REQ") = "PhyMstrPending"
  /\ Target(DfiTransitions, "Idle", "PHYUPD_REQ") = "PhyUpd"
  /\ Target(DfiTransitions, "Idle", "CTRLUPD_ASSERT") = "CtrlUpd"
  /\ Target(DfiTransitions, "PhyMstrPending", "PHYMSTR_ACK") = "PhyMstr"
  /\ Target(DfiTransitions, "PhyMstrPending", "PHYMSTR_ABORT") = "Idle"
  /\ Target(DfiTransitions, "PhyMstr", "PHYMSTR_EXIT") = "Idle"
  /\ Target(DfiTransitions, "PhyUpd", "PHYUPD_ACK") = "Idle"
  /\ Target(DfiTransitions, "PhyUpd", "PHYUPD_ABORT") = "Idle"
  /\ Target(DfiTransitions, "CtrlUpd", "CTRLUPD_DEASSERT") = "Idle"
<1>1. /\ Reacts(DfiTransitions, "Idle", "PHYMSTR_REQ")
      /\ Reacts(DfiTransitions, "Idle", "PHYUPD_REQ")
      /\ Reacts(DfiTransitions, "Idle", "CTRLUPD_ASSERT")
      /\ Reacts(DfiTransitions, "PhyMstrPending", "PHYMSTR_ACK")
      /\ Reacts(DfiTransitions, "PhyMstrPending", "PHYMSTR_ABORT")
      /\ Reacts(DfiTransitions, "PhyMstr", "PHYMSTR_EXIT")
      /\ Reacts(DfiTransitions, "PhyUpd", "PHYUPD_ACK")
      /\ Reacts(DfiTransitions, "PhyUpd", "PHYUPD_ABORT")
      /\ Reacts(DfiTransitions, "CtrlUpd", "CTRLUPD_DEASSERT")
  BY DEF Reacts, DfiTransitions
<1> QED
  BY <1>1, DfiRow DEF DfiTransitions

LEMMA DfiSources ==
  /\ \A s : Reacts(DfiTransitions, s, "PHYMSTR_REQ") => s = "Idle"
  /\ \A s : Reacts(DfiTransitions, s, "PHYUPD_REQ") => s = "Idle"
  /\ \A s : Reacts(DfiTransitions, s, "CTRLUPD_ASSERT") => s = "Idle"
  /\ \A s : Reacts(DfiTransitions, s, "PHYMSTR_ACK") => s = "PhyMstrPending"
  /\ \A s : Reacts(DfiTransitions, s, "PHYMSTR_EXIT") => s = "PhyMstr"
  /\ \A s : Reacts(DfiTransitions, s, "PHYUPD_ACK") => s = "PhyUpd"
  /\ \A s : Reacts(DfiTransitions, s, "CTRLUPD_DEASSERT") => s = "CtrlUpd"
BY DEF Reacts, DfiTransitions

-----------------------------------------------------------------------------
(* The PLL device keeps its pointers and its enable bits well formed.      *)
LEMMA PllTyped ==
  ASSUME NEW p \in Plls, NEW f \in Freqs
  PROVE  /\ Prepare(p, f) \in Plls
         /\ SwitchVco(p) \in Plls
         /\ DisableVco(p) \in Plls
<1>1. FreeVco(p) \in PhyVcos
  BY DEF FreeVco, PhyVcos
<1>2. Prepare(p, f) \in Plls
  BY <1>1 DEF Prepare, Plls, Vcos
<1>3. SwitchVco(p) \in Plls
  BY DEF SwitchVco, Plls, Vcos
<1>4. DisableVco(p) \in Plls
  BY DEF DisableVco, Plls
<1> QED
  BY <1>2, <1>3, <1>4

LEMMA SwSwitchTyped ==
  ASSUME NEW p \in Plls, NEW f \in Freqs, NEW b \in BOOLEAN
  PROVE  SwSwitch(p, f, b) \in Plls /\ UntilPhy1(p, f, b) \in Plls
BY PllTyped DEF SwSwitch, UntilPhy1

-----------------------------------------------------------------------------
(* From here on the frames, the helpers of the handlers and the parts of   *)
(* the invariant are expanded in every leaf; the actions are not.          *)
Parts == StatusOK /\ MachinesOK /\ BusOK /\ CallersOK /\ HandlerInv

USE DEF statusVars, fsmVars, fwVars, irqVars, busVars, pllVars, switchVars,
        devVars, taskVars, callVars, still, dfiFrame,
        IndInv, TypeOK, Parts, StatusOK, MachinesOK, BusOK, PllOK, CallersOK,
        HandlerInv, FwLabels, DrainLabels, FswStates, DfiStates, Resps,
        Sources, CtrlSources, PllSources, LineSources, ReqLine, AckLine,
        Handled, Goto, At, Step, Finish, FswMove, DfiMove, EnableIrqs,
        DisableIrqs, EnableLockIrq, AssertLine, DeassertLine

(* Every step of the firmware task preserves the invariant.                *)
LEMMA FwStep ==
  ASSUME IndInv, FwNext
  PROVE  IndInv'
<1>1. CASE BootReject
  <2>1. Head(mq) \in Messages /\ Head(mq) # NoMsg /\ QueueOK'
    BY <1>1, ReceiveTyped, NoMsgIsNoMessage DEF BootReject
  <2>2. PllOK'
    BY <1>1 DEF BootReject
  <2>3. Parts'
    BY <1>1, <2>1, RespondTyped
    DEF BootReject, Receive
  <2> QED
    BY <2>1, <2>2, <2>3
<1>2. CASE BootBegin
  <2>1. Head(mq) \in Messages /\ Head(mq) # NoMsg /\ QueueOK'
    BY <1>2, ReceiveTyped, NoMsgIsNoMessage DEF BootBegin
  <2>2. PllOK'
    BY <1>2 DEF BootBegin
  <2>3. Parts'
    BY <1>2, <2>1, RespondTyped
    DEF BootBegin, Receive
  <2> QED
    BY <2>1, <2>2, <2>3
<1>3. CASE BootFail
  <2>1. QueueOK'
    BY <1>3 DEF BootFail, QueueOK
  <2>2. PllOK'
    <3>1. BootFreq \in Freqs
      BY PhyTaskAssumption DEF PhyTaskAssumption
    <3>2. pll' \in Plls
      BY <1>3, <3>1, SwSwitchTyped DEF BootFail
    <3> QED
      BY <1>3, <3>2 DEF BootFail, Plls
  <2>3. Parts'
    BY <1>3, RespondTyped DEF BootFail
  <2> QED
    BY <2>1, <2>2, <2>3
<1>4. CASE BootPhy
  <2>1. QueueOK'
    BY <1>4 DEF BootPhy, QueueOK
  <2>2. PllOK'
    <3>1. BootFreq \in Freqs
      BY PhyTaskAssumption DEF PhyTaskAssumption
    <3>2. SwSwitch(pll, BootFreq, booted) \in Plls
      BY <3>1, SwSwitchTyped
    <3>3. pll' \in Plls
      BY <1>4, <3>1, <3>2, SwSwitchTyped DEF BootPhy
    <3> QED
      BY <1>4, <3>3 DEF BootPhy, Plls
  <2>3. Parts'
    <3>1. StatusOK' /\ CallersOK'
      BY <1>4 DEF BootPhy
    <3>2. BusOK'
      BY <1>4 DEF BootPhy
    <3>3. MachinesOK'
      BY <1>4 DEF BootPhy
    <3>4. HandlerInv'
      BY <1>4 DEF BootPhy
    <3> QED
      BY <3>1, <3>2, <3>3, <3>4
  <2> QED
    BY <2>1, <2>2, <2>3
<1>5. CASE BootStart
  <2>1. QueueOK'
    BY <1>5 DEF BootStart, QueueOK
  <2>2. PllOK'
    BY <1>5 DEF BootStart
  <2>3. Parts'
    <3>1. StatusOK' /\ CallersOK'
      <4>1. StatusOK'
        BY <1>5 DEF BootStart
      <4>2. CallersOK'
        BY <1>5, RespondTyped DEF BootStart
      <4> QED
        BY <4>1, <4>2
    <3>2. BusOK'
      BY <1>5 DEF BootStart
    <3>3. MachinesOK'
      BY <1>5, RespondTyped DEF BootStart
    <3>4. HandlerInv'
      BY <1>5, RespondTyped DEF BootStart
    <3> QED
      BY <3>1, <3>2, <3>3, <3>4
  <2> QED
    BY <2>1, <2>2, <2>3
<1>6. CASE Dismiss
  <2>1. PICK event \in Events, resp \in Resps :
                Receive(event) /\ Handled(resp)
    BY <1>6 DEF Dismiss, Turned, Events
  <2>2. Head(mq) \in Messages /\ Head(mq) # NoMsg /\ QueueOK'
    BY <2>1, ReceiveTyped, NoMsgIsNoMessage
  <2>3. UNCHANGED still
    BY <1>6 DEF Dismiss
  <2>4. PllOK' /\ Parts'
    BY <2>1, <2>2, <2>3, RespondTyped DEF Receive
  <2> QED
    BY <2>2, <2>4
<1>7. CASE PrepBegin
  <2>1. Head(mq) \in Messages /\ Head(mq) # NoMsg /\ QueueOK'
    BY <1>7, ReceiveTyped, NoMsgIsNoMessage DEF PrepBegin, FswReceive
  <2>2. PllOK'
    BY <1>7 DEF PrepBegin
  <2>3. Parts'
    BY <1>7, <2>1, FswTargets
    DEF PrepBegin, FswReceive, FswMayRun, Accepting, Receive
  <2> QED
    BY <2>1, <2>2, <2>3
<1>8. CASE PrepConfigure
  <2>1. QueueOK'
    BY <1>8 DEF PrepConfigure, QueueOK
  <2>2. PllOK'
    <3>1. cur.freq \in Freqs
      BY <1>8, PhyTaskAssumption DEF PrepConfigure, PhyTaskAssumption
    <3>2. pll' \in Plls
      BY <1>8, <3>1, PllTyped DEF PrepConfigure
    <3> QED
      BY <1>8, <3>2 DEF PrepConfigure
  <2>3. Parts'
    BY <1>8, RespondTyped, FswTargets DEF PrepConfigure
  <2> QED
    BY <2>1, <2>2, <2>3
<1>9. CASE PrepAssert
  <2>1. QueueOK'
    BY <1>9 DEF PrepAssert, QueueOK
  <2>2. PllOK'
    BY <1>9 DEF PrepAssert
  <2>3. Parts'
    BY <1>9 DEF PrepAssert
  <2> QED
    BY <2>1, <2>2, <2>3
<1>10. CASE PostSwitch
  <2>1. Head(mq) \in Messages /\ Head(mq) # NoMsg /\ QueueOK'
    BY <1>10, ReceiveTyped, NoMsgIsNoMessage DEF PostSwitch, FswReceive
  <2>2. PllOK'
    <3>1. SwitchVco(pll) \in Plls
      BY PllTyped, PhyTaskAssumption DEF PhyTaskAssumption
    <3>2. pll' \in Plls
      BY <1>10, <3>1, PllTyped, PhyTaskAssumption
      DEF PostSwitch, PhyTaskAssumption
    <3> QED
      BY <1>10, <3>2 DEF PostSwitch
  <2>3. Parts'
    BY <1>10, <2>1, RespondTyped, FswTargets
    DEF PostSwitch, FswReceive, FswMayRun, Accepting, Receive
  <2> QED
    BY <2>1, <2>2, <2>3
<1>11. CASE PendingBegin
  <2>1. Head(mq) \in Messages /\ Head(mq) # NoMsg /\ QueueOK'
    BY <1>11, ReceiveTyped, NoMsgIsNoMessage DEF PendingBegin, FswReceive
  <2>2. PllOK'
    BY <1>11 DEF PendingBegin
  <2>3. Parts'
    BY <1>11, <2>1, FswTargets
    DEF PendingBegin, FswReceive, FswMayRun, Accepting, Receive
  <2> QED
    BY <2>1, <2>2, <2>3
<1>12. CASE SendMrw
  <2>1. QueueOK'
    BY <1>12 DEF SendMrw, QueueOK
  <2>2. PllOK'
    BY <1>12 DEF SendMrw
  <2>3. Parts'
    BY <1>12 DEF SendMrw
  <2> QED
    BY <2>1, <2>2, <2>3
<1>13. CASE AbortDisable
  <2>1. QueueOK'
    BY <1>13 DEF AbortDisable, QueueOK
  <2>2. PllOK'
    BY <1>13 DEF AbortDisable
  <2>3. Parts'
    BY <1>13 DEF AbortDisable
  <2> QED
    BY <2>1, <2>2, <2>3
<1>14. CASE AbortDeassert
  <2>1. QueueOK'
    BY <1>14 DEF AbortDeassert, QueueOK
  <2>2. PllOK'
    BY <1>14 DEF AbortDeassert
  <2>3. Parts'
    BY <1>14 DEF AbortDeassert
  <2> QED
    BY <2>1, <2>2, <2>3
<1>15. CASE AbortDone
  <2>1. QueueOK'
    BY <1>15 DEF AbortDone, QueueOK
  <2>2. PllOK'
    BY <1>15 DEF AbortDone
  <2>3. Parts'
    <3>1. StatusOK' /\ CallersOK'
      <4>1. StatusOK'
        BY <1>15 DEF AbortDone
      <4>2. /\ UNCHANGED <<app, main, granted, per>>
            /\ completion' = TRUE \/ completion' = completion
        BY <1>15 DEF AbortDone
      <4>3. notify' = notify
        BY <1>15 DEF AbortDone
      <4> QED
        BY <4>1, <4>2, <4>3
    <3>2. BusOK'
      BY <1>15 DEF AbortDone
    <3>3. MachinesOK'
      BY <1>15, DfiTargets DEF AbortDone
    <3>4. HandlerInv'
      BY <1>15, DfiTargets DEF AbortDone
    <3> QED
      BY <3>1, <3>2, <3>3, <3>4
  <2> QED
    BY <2>1, <2>2, <2>3
<1>16. CASE NoAbort
  <2>1. QueueOK'
    BY <1>16 DEF NoAbort, QueueOK
  <2>2. PllOK'
    BY <1>16 DEF NoAbort
  <2>3. Parts'
    BY <1>16 DEF NoAbort
  <2> QED
    BY <2>1, <2>2, <2>3
<1>17. CASE Release
  <2>1. QueueOK'
    BY <1>17 DEF Release, QueueOK
  <2>2. PllOK'
    BY <1>17 DEF Release
  <2>3. Parts'
    BY <1>17, RespondTyped, FswTargets DEF Release
  <2> QED
    BY <2>1, <2>2, <2>3
<1>18. CASE UpdRequest
  <2>1. Head(mq) \in Messages /\ Head(mq) # NoMsg /\ QueueOK'
    BY <1>18, ReceiveTyped, NoMsgIsNoMessage DEF UpdRequest, DfiReceive
  <2>2. PllOK'
    BY <1>18 DEF UpdRequest
  <2>3. Parts'
    BY <1>18, <2>1, RespondTyped, DfiTargets, DfiSources
    DEF UpdRequest, DfiReceive, DfiMayRun, Accepting, Receive
  <2> QED
    BY <2>1, <2>2, <2>3
<1>19. CASE UpdBegin
  <2>1. Head(mq) \in Messages /\ Head(mq) # NoMsg /\ QueueOK'
    BY <1>19, ReceiveTyped, NoMsgIsNoMessage DEF UpdBegin, DfiReceive
  <2>2. PllOK'
    BY <1>19 DEF UpdBegin
  <2>3. Parts'
    BY <1>19, <2>1, DfiSources
    DEF UpdBegin, DfiReceive, DfiMayRun, Accepting, Receive
  <2> QED
    BY <2>1, <2>2, <2>3
<1>20. CASE UpdDeassert
  <2>1. QueueOK'
    BY <1>20 DEF UpdDeassert, QueueOK
  <2>2. PllOK'
    BY <1>20 DEF UpdDeassert
  <2>3. Parts'
    BY <1>20 DEF UpdDeassert
  <2> QED
    BY <2>1, <2>2, <2>3
<1>21. CASE UpdDone
  <2>1. QueueOK'
    BY <1>21 DEF UpdDone, QueueOK
  <2>2. PllOK'
    BY <1>21 DEF UpdDone
  <2>3. Parts'
    BY <1>21, RespondTyped, DfiTargets DEF UpdDone
  <2> QED
    BY <2>1, <2>2, <2>3
<1>22. CASE MstrRequest
  <2>1. Head(mq) \in Messages /\ Head(mq) # NoMsg /\ QueueOK'
    BY <1>22, ReceiveTyped, NoMsgIsNoMessage DEF MstrRequest, DfiReceive
  <2>2. PllOK'
    BY <1>22 DEF MstrRequest
  <2>3. Parts'
    BY <1>22, <2>1, RespondTyped, DfiTargets, DfiSources
    DEF MstrRequest, DfiReceive, DfiMayRun, Accepting, Receive
  <2> QED
    BY <2>1, <2>2, <2>3
<1>23. CASE MstrEnter
  <2>1. Head(mq) \in Messages /\ Head(mq) # NoMsg /\ QueueOK'
    BY <1>23, ReceiveTyped, NoMsgIsNoMessage DEF MstrEnter, DfiReceive
  <2>2. PllOK'
    BY <1>23 DEF MstrEnter
  <2>3. Parts'
    BY <1>23, <2>1, RespondTyped, DfiTargets, DfiSources
    DEF MstrEnter, DfiReceive, DfiMayRun, Accepting, Receive
  <2> QED
    BY <2>1, <2>2, <2>3
<1>24. CASE MstrExit
  <2>1. Head(mq) \in Messages /\ Head(mq) # NoMsg /\ QueueOK'
    BY <1>24, ReceiveTyped, NoMsgIsNoMessage DEF MstrExit, DfiReceive
  <2>2. PllOK'
    BY <1>24 DEF MstrExit
  <2>3. Parts'
    BY <1>24, <2>1, DfiSources
    DEF MstrExit, DfiReceive, DfiMayRun, Accepting, Receive
  <2> QED
    BY <2>1, <2>2, <2>3
<1>25. CASE MstrDone
  <2>1. QueueOK'
    BY <1>25 DEF MstrDone, QueueOK
  <2>2. PllOK'
    BY <1>25 DEF MstrDone
  <2>3. Parts'
    BY <1>25, RespondTyped, DfiTargets DEF MstrDone
  <2> QED
    BY <2>1, <2>2, <2>3
<1>26. CASE CtrlUpdBegin
  <2>1. Head(mq) \in Messages /\ Head(mq) # NoMsg /\ QueueOK'
    BY <1>26, ReceiveTyped, NoMsgIsNoMessage DEF CtrlUpdBegin, DfiReceive
  <2>2. PllOK'
    BY <1>26 DEF CtrlUpdBegin
  <2>3. Parts'
    BY <1>26, <2>1, DfiSources
    DEF CtrlUpdBegin, DfiReceive, DfiMayRun, Accepting, Receive
  <2> QED
    BY <2>1, <2>2, <2>3
<1>27. CASE CtrlUpdEnter
  <2>1. QueueOK'
    BY <1>27 DEF CtrlUpdEnter, QueueOK
  <2>2. PllOK'
    BY <1>27 DEF CtrlUpdEnter
  <2>3. Parts'
    BY <1>27, RespondTyped, DfiTargets DEF CtrlUpdEnter
  <2> QED
    BY <2>1, <2>2, <2>3
<1>28. CASE CtrlUpdEnd
  <2>1. Head(mq) \in Messages /\ Head(mq) # NoMsg /\ QueueOK'
    BY <1>28, ReceiveTyped, NoMsgIsNoMessage DEF CtrlUpdEnd, DfiReceive
  <2>2. PllOK'
    BY <1>28 DEF CtrlUpdEnd
  <2>3. Parts'
    BY <1>28, <2>1, RespondTyped, DfiTargets, DfiSources
    DEF CtrlUpdEnd, DfiReceive, DfiMayRun, Accepting, Receive
  <2> QED
    BY <2>1, <2>2, <2>3
<1> QED
  BY <1>1, <1>2, <1>3, <1>4, <1>5, <1>6, <1>7, <1>8, <1>9, <1>10, <1>11, <1>12, <1>13, <1>14, <1>15, <1>16, <1>17, <1>18, <1>19, <1>20, <1>21, <1>22, <1>23, <1>24, <1>25, <1>26, <1>27, <1>28 DEF FwNext

-----------------------------------------------------------------------------
(* Interrupts only queue a message and mask or clear sources.              *)
USE DEF isrFrame, mcFrame, fwState

LEMMA IsrStep ==
  ASSUME IndInv, IsrNext
  PROVE  IndInv'
<1>1. CASE \E src \in LineSources : LineIsr(src)
  <2>1. PICK src \in LineSources : LineIsr(src)
    BY <1>1
  <2>2. Msg(src, NoTask, NoFreq) \in Messages
    BY MsgTyped DEF Events, FswEvents, DfiEvents
  <2>3. QueueOK'
    BY <2>1, <2>2, SendTyped DEF LineIsr
  <2>4. PllOK' /\ Parts'
    BY <2>1 DEF LineIsr
  <2> QED
    BY <2>3, <2>4
<1>2. CASE CtrlUpdIsr
  <2>1. \A e \in CtrlSources : Msg(e, NoTask, NoFreq) \in Messages
    BY MsgTyped DEF Events, DfiEvents
  <2>2. QueueOK'
    BY <1>2, <2>1, SendTyped DEF CtrlUpdIsr
  <2>3. PllOK' /\ Parts'
    BY <1>2 DEF CtrlUpdIsr
  <2> QED
    BY <2>2, <2>3
<1>3. CASE PllIsr
  <2>1. \A e \in PllSources : \A from \in StackGarbage :
          Msg(e, from, NoFreq) \in Messages
    BY MsgTyped, PhyTaskAssumption DEF Events, FswEvents, PhyTaskAssumption
  <2>2. QueueOK'
    BY <1>3, <2>1, SendTyped DEF PllIsr
  <2>3. PllOK' /\ Parts'
    BY <1>3 DEF PllIsr
  <2> QED
    BY <2>2, <2>3
<1> QED
  BY <1>1, <1>2, <1>3 DEF IsrNext

(* A task sends only while the firmware task is blocked on an empty queue, *)
(* the timer only while the queue has room.                                *)
LEMMA BlockedSend ==
  ASSUME QueueOK, Blocked, NEW m \in Messages, mq' = Append(mq, m)
  PROVE  QueueOK'
<1>1. Len(mq) < MsgQueueLen
  BY EmptySeq, PhyTaskAssumption DEF Blocked, PhyTaskAssumption
<1> QED
  BY <1>1, AppendTyped

LEMMA TaskStep ==
  ASSUME IndInv, TaskNext
  PROVE  IndInv'
<1> USE DEF Callers, IdleCaller, PeriodicMayRun
<1>1. CASE MainCall
  <2>1. QueueOK' /\ PllOK'
    BY <1>1 DEF MainCall, QueueOK
  <2>2. CallersOK'
    <3>1. PrepTries \in Nat \ {0}
      BY PhyTaskAssumption DEF PhyTaskAssumption
    <3>2. 1 \in 0 .. PrepTries /\ PrepTries \in 0 .. PrepTries
      BY <3>1
    <3>3. ASSUME main' = [IdleCaller EXCEPT !.ph = "send", !.tries = 1]
          PROVE  main' \in Callers
      <4>1. main' = [ph |-> "send", op |-> "BOOT", freq |-> NoFreq,
                     tries |-> 1]
        BY <3>3
      <4> QED
        BY <3>2, <4>1
    <3>4. ASSUME NEW f \in Freqs,
                 main' = [ph |-> "send", op |-> "PREP", freq |-> f,
                          tries |-> PrepTries]
          PROVE  main' \in Callers
      BY <3>2, <3>4
    <3> QED
      BY <1>1, <3>3, <3>4, ClearTyped DEF MainCall
  <2>3. Parts'
    BY <1>1, <2>2 DEF MainCall
  <2> QED
    BY <2>1, <2>3
<1>2. CASE MainSend
  <2>1. Msg(main.op, Main, main.freq) \in Messages
    BY MsgTyped DEF Events, DfiEvents, FswEvents, Tasks
  <2>2. QueueOK'
    BY <1>2, <2>1, BlockedSend DEF MainSend
  <2>3. PllOK' /\ Parts'
    BY <1>2 DEF MainSend
  <2> QED
    BY <2>2, <2>3
<1>3. CASE MainRetry
  <2>1. QueueOK' /\ PllOK'
    BY <1>3 DEF MainRetry, QueueOK
  <2>2. CallersOK'
    <3>1. PrepTries \in Nat
      BY PhyTaskAssumption DEF PhyTaskAssumption
    <3>2. main.tries \in 0 .. PrepTries /\ main.tries > 1
      BY <1>3 DEF MainRetry
    <3>3. main.tries - 1 \in 0 .. PrepTries
      BY <3>1, <3>2
    <3>4. main' \in Callers
      BY <1>3, <3>3 DEF MainRetry
    <3> QED
      BY <1>3, <3>4, ClearTyped DEF MainRetry
  <2>3. Parts'
    BY <1>3, <2>2 DEF MainRetry
  <2> QED
    BY <2>1, <2>3
<1>4. CASE MainReturn
  <2>1. QueueOK' /\ PllOK'
    BY <1>4 DEF MainReturn, QueueOK
  <2>2. CallersOK'
    <3>1. PrepTries \in Nat
      BY PhyTaskAssumption DEF PhyTaskAssumption
    <3>2. main' \in Callers
      BY <1>4, <3>1 DEF MainReturn
    <3>3. app' \in {"IDLE", "READY", "ERROR"} /\ granted' \in BOOLEAN
      BY <1>4 DEF MainReturn
    <3> QED
      BY <1>4, <3>2, <3>3, ClearTyped DEF MainReturn
  <2>3. Parts'
    BY <1>4, <2>2 DEF MainReturn
  <2> QED
    BY <2>1, <2>3
<1>5. CASE PeriodicWake
  <2>1. QueueOK' /\ PllOK'
    BY <1>5 DEF PeriodicWake, QueueOK
  <2>2. CallersOK'
    BY <1>5, ClearTyped DEF PeriodicWake
  <2>3. Parts'
    BY <1>5, <2>2 DEF PeriodicWake
  <2> QED
    BY <2>1, <2>3
<1>6. CASE PeriodicSend
  <2>1. Msg("PHYMSTR_REQ", Periodic, NoFreq) \in Messages
    BY MsgTyped DEF Events, DfiEvents, FswEvents, Tasks
  <2>2. QueueOK'
    BY <1>6, <2>1, BlockedSend DEF PeriodicSend
  <2>3. PllOK' /\ Parts'
    BY <1>6 DEF PeriodicSend
  <2> QED
    BY <2>2, <2>3
<1>7. CASE PeriodicAnswer
  <2>1. QueueOK' /\ PllOK'
    BY <1>7 DEF PeriodicAnswer, QueueOK
  <2>2. CallersOK'
    BY <1>7, ClearTyped DEF PeriodicAnswer
  <2>3. Parts'
    BY <1>7, <2>2 DEF PeriodicAnswer
  <2> QED
    BY <2>1, <2>3
<1>8. CASE PeriodicProceed
  <2>1. QueueOK' /\ PllOK'
    BY <1>8 DEF PeriodicProceed, QueueOK
  <2>2. Parts'
    BY <1>8 DEF PeriodicProceed
  <2> QED
    BY <2>1, <2>2
<1>9. CASE PeriodicExit
  <2>1. Msg("PHYMSTR_EXIT", NoTask, NoFreq) \in Messages
    BY MsgTyped DEF Events, DfiEvents, FswEvents, Tasks
  <2>2. QueueOK'
    BY <1>9, <2>1, BlockedSend DEF PeriodicExit
  <2>3. PllOK' /\ Parts'
    BY <1>9 DEF PeriodicExit
  <2> QED
    BY <2>2, <2>3
<1>10. CASE TimerFires
  <2>1. Msg("PHYUPD_REQ", NoTask, NoFreq) \in Messages
    BY MsgTyped DEF Events, DfiEvents
  <2>2. QueueOK'
    BY <1>10, <2>1, AppendTyped DEF TimerFires
  <2>3. PllOK' /\ Parts'
    BY <1>10 DEF TimerFires
  <2> QED
    BY <2>2, <2>3
<1>11. CASE TimerAssert
  <2>1. QueueOK' /\ PllOK'
    BY <1>11 DEF TimerAssert, QueueOK
  <2>2. Parts'
    BY <1>11 DEF TimerAssert
  <2> QED
    BY <2>1, <2>2
<1> QED
  BY <1>1, <1>2, <1>3, <1>4, <1>5, <1>6, <1>7, <1>8, <1>9, <1>10, <1>11 DEF TaskNext

(* The MC and the hardware touch their lines, the lock and the sticky bits.*)
LEMMA EnvStep ==
  ASSUME IndInv, EnvNext
  PROVE  IndInv'
<1> USE DEF McRaise, PllEdge
<1>1. CASE McInitStart
  <2>1. QueueOK'
    BY <1>1 DEF McInitStart, QueueOK
  <2>2. PllOK'
    BY <1>1 DEF McInitStart
  <2>3. Parts'
    <3>1. BusOK'
      BY <1>1 DEF McInitStart
    <3>2. CallersOK'
      BY <1>1 DEF McInitStart
    <3>3. StatusOK' /\ MachinesOK' /\ HandlerInv'
      BY <1>1 DEF McInitStart
    <3> QED
      BY <3>1, <3>2, <3>3
  <2> QED
    BY <2>1, <2>2, <2>3
<1>2. CASE McInitLow
  <2>1. QueueOK'
    BY <1>2 DEF McInitLow, QueueOK
  <2>2. PllOK'
    BY <1>2 DEF McInitLow, Plls, Vcos
  <2>3. Parts'
    BY <1>2 DEF McInitLow
  <2> QED
    BY <2>1, <2>2, <2>3
<1>3. CASE PllLocks
  <2>1. QueueOK'
    BY <1>3 DEF PllLocks, QueueOK
  <2>2. PllOK'
    BY <1>3 DEF PllLocks
  <2>3. Parts'
    BY <1>3 DEF PllLocks
  <2> QED
    BY <2>1, <2>2, <2>3
<1>4. CASE PllLoses
  <2>1. QueueOK'
    BY <1>4 DEF PllLoses, QueueOK
  <2>2. PllOK'
    <3>1. MaxLoss \in Nat
      BY PhyTaskAssumption DEF PhyTaskAssumption
    <3>2. losses' \in 0 .. MaxLoss
      BY <1>4, <3>1 DEF PllLoses
    <3> QED
      BY <1>4, <3>2 DEF PllLoses
  <2>3. Parts'
    BY <1>4 DEF PllLoses
  <2> QED
    BY <2>1, <2>2, <2>3
<1>5. CASE McInitComplete
  <2>1. QueueOK'
    BY <1>5 DEF McInitComplete, QueueOK
  <2>2. PllOK'
    BY <1>5 DEF McInitComplete
  <2>3. Parts'
    BY <1>5 DEF McInitComplete
  <2> QED
    BY <2>1, <2>2, <2>3
<1>6. CASE McAckUpd
  <2>1. QueueOK'
    BY <1>6 DEF McAckUpd, QueueOK
  <2>2. PllOK'
    BY <1>6 DEF McAckUpd
  <2>3. Parts'
    BY <1>6 DEF McAckUpd
  <2> QED
    BY <2>1, <2>2, <2>3
<1>7. CASE McAckMstr
  <2>1. QueueOK'
    BY <1>7 DEF McAckMstr, QueueOK
  <2>2. PllOK'
    BY <1>7 DEF McAckMstr
  <2>3. Parts'
    BY <1>7 DEF McAckMstr
  <2> QED
    BY <2>1, <2>2, <2>3
<1>8. CASE McDropAck
  <2>1. QueueOK'
    BY <1>8 DEF McDropAck, QueueOK
  <2>2. PllOK'
    BY <1>8 DEF McDropAck
  <2>3. Parts'
    <3>1. BusOK'
      BY <1>8 DEF McDropAck
    <3> QED
      BY <1>8, <3>1 DEF McDropAck
  <2> QED
    BY <2>1, <2>2, <2>3
<1>9. CASE McCtrlUpdAssert
  <2>1. QueueOK'
    BY <1>9 DEF McCtrlUpdAssert, QueueOK
  <2>2. PllOK'
    BY <1>9 DEF McCtrlUpdAssert
  <2>3. Parts'
    BY <1>9 DEF McCtrlUpdAssert
  <2> QED
    BY <2>1, <2>2, <2>3
<1>10. CASE McCtrlUpdDeassert
  <2>1. QueueOK'
    BY <1>10 DEF McCtrlUpdDeassert, QueueOK
  <2>2. PllOK'
    BY <1>10 DEF McCtrlUpdDeassert
  <2>3. Parts'
    BY <1>10 DEF McCtrlUpdDeassert
  <2> QED
    BY <2>1, <2>2, <2>3
<1> QED
  BY <1>1, <1>2, <1>3, <1>4, <1>5, <1>6, <1>7, <1>8, <1>9, <1>10 DEF EnvNext

-----------------------------------------------------------------------------
LEMMA InitInv == Init => IndInv
<1> SUFFICES ASSUME Init PROVE IndInv
  OBVIOUS
<1>1. QueueOK
  BY EmptySeq, PhyTaskAssumption DEF Init, QueueOK, PhyTaskAssumption
<1>2. PllOK
  <2>1. MaxLoss \in Nat
    BY PhyTaskAssumption DEF PhyTaskAssumption
  <2>2. BootedPll \in Plls
    BY DEF BootedPll, Plls, Vcos
  <2>3. 0 \in 0 .. MaxLoss
    BY <2>1
  <2> QED
    BY <2>2, <2>3 DEF Init, Vcos
<1>3. CallersOK
  <2>1. PrepTries \in Nat
    BY PhyTaskAssumption DEF PhyTaskAssumption
  <2>2. 0 \in 0 .. PrepTries
    BY <2>1
  <2>3. main \in Callers
    BY <2>2 DEF Init, Callers
  <2> QED
    BY <2>3 DEF Init
<1>4. BusOK
  BY DEF Init
<1>5. StatusOK /\ MachinesOK /\ HandlerInv
  BY DEF Init
<1> QED
  BY <1>1, <1>2, <1>3, <1>4, <1>5

LEMMA NextInv == IndInv /\ [Next]_vars => IndInv'
<1>1. ASSUME IndInv, UNCHANGED vars PROVE IndInv'
  BY <1>1 DEF vars, QueueOK
<1> QED
  BY <1>1, FwStep, IsrStep, TaskStep, EnvStep DEF Next

HIDE DEF IndInv, TypeOK, HandlerInv

LEMMA Invariance == Spec => []IndInv
  BY InitInv, NextInv, PTL DEF Spec

(* The task, its callers and the devices keep their types: the queue never *)
(* exceeds MSG_QUEUE_LEN and no PLL pointer leaves the table of VCOs.      *)
THEOREM TypeCorrect == Spec => []TypeOK
<1>1. IndInv => TypeOK
  BY DEF IndInv
<1> QED
  BY <1>1, Invariance, PTL

(* At every step of a handler its state machine is where the handler found *)
(* it, and a request line is up only in the dfi states that own it.        *)
THEOREM HandlersCorrect == Spec => []HandlerInv
<1>1. IndInv => HandlerInv
  BY DEF IndInv
<1> QED
  BY <1>1, Invariance, PTL

(* Between the MC's INIT_START and the lock of the PLL the PHY takes part  *)
(* in no update and asks for no mastership.                                *)
THEOREM PendingCorrect == Spec => []PendingIsQuiet
<1>1. IndInv => PendingIsQuiet
  BY DEF IndInv, HandlerInv, PendingIsQuiet
<1> QED
  BY <1>1, Invariance, PTL

(* Only the end of the boot and the end of the drain release INIT_COMPLETE.*)
LEMMA OverrideDropped ==
  ASSUME Next, "INIT_COMPLETE_OVR" \in phyLines \ phyLines'
  PROVE  Release \/ BootPhy
<1>1. CASE FwNext
  BY <1>1
  DEF FwNext, BootReject, BootBegin, BootFail, BootStart, Dismiss, PrepBegin,
      PrepConfigure, PrepAssert, PostSwitch, PendingBegin, SendMrw,
      AbortDisable, AbortDeassert, AbortDone, NoAbort, UpdRequest, UpdBegin,
      UpdDeassert, UpdDone, MstrRequest, MstrEnter, MstrExit, MstrDone,
      CtrlUpdBegin, CtrlUpdEnter, CtrlUpdEnd
<1>2. CASE IsrNext
  BY <1>2 DEF IsrNext, LineIsr, CtrlUpdIsr, PllIsr
<1>3. CASE TaskNext
  BY <1>3
  DEF TaskNext, MainCall, MainSend, MainRetry, MainReturn, PeriodicWake,
      PeriodicSend, PeriodicAnswer, PeriodicProceed, PeriodicExit, TimerFires,
      TimerAssert
<1>4. CASE EnvNext
  BY <1>4
  DEF EnvNext, McInitStart, McInitLow, PllLocks, PllLoses, McInitComplete,
      McAckUpd, McAckMstr, McDropAck, McCtrlUpdAssert, McCtrlUpdDeassert
<1> QED
  BY <1>1, <1>2, <1>3, <1>4 DEF Next

(* DFI 5.0, 4.21: when the override of INIT_COMPLETE is released, the      *)
(* requests that the MC did not grant are down.                            *)
THEOREM WithdrawalCorrect == Spec => RequestsWithdrawn
<1> DEFINE Released == ready /\ "INIT_COMPLETE_OVR" \in phyLines \ phyLines'
           Down == /\ "PHYUPD_REQ" \notin phyLines'
                   /\ "PHYMSTR_REQ" \in phyLines' => dfi = "PhyMstr"
<1>1. IndInv /\ [Next]_vars => [Released => Down]_vars
  <2> SUFFICES ASSUME IndInv, Next, Released PROVE Down
    OBVIOUS
  <2>1. CASE Release
    BY <2>1 DEF Release, IndInv, HandlerInv
  <2>2. CASE BootPhy
    BY <2>2 DEF BootPhy, IndInv, HandlerInv
  <2> QED
    BY <2>1, <2>2, OverrideDropped
<1> QED
  BY <1>1, Invariance, PTL DEF Spec, RequestsWithdrawn
=============================================================================
