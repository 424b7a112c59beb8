---------------------------- MODULE PhyBus_proofs ----------------------------
(***************************************************************************)
(* Requests and their answers: of the main task to the firmware task, of   *)
(* the PHY to the MC, and of the periodic task for the mastership.         *)
(***************************************************************************)
EXTENDS PhyClock_proofs

-----------------------------------------------------------------------------
(* The sender of a message.                                                *)
LEMMA TailSent ==
  ASSUME QueueOK, mq # <<>>, mq' = Tail(mq), NEW t
  PROVE  /\ Sent(t)' => Sent(t)
         /\ Sent(t) => Sent(t)' \/ Head(mq).from = t
<1>1. /\ Len(mq) \in Nat /\ Len(mq') = Len(mq) - 1
      /\ 1 \in 1 .. Len(mq) /\ Head(mq) = mq[1]
      /\ \A i \in 1 .. Len(mq') : mq'[i] = mq[i + 1] /\ i + 1 \in 1 .. Len(mq)
  BY TailMsgs
<1>2. Sent(t)' => Sent(t)
  BY <1>1 DEF Sent
<1>3. ASSUME NEW i \in 1 .. Len(mq), mq[i].from = t
      PROVE  Sent(t)' \/ Head(mq).from = t
  <2>1. CASE i = 1
    BY <1>1, <1>3, <2>1
  <2>2. CASE i # 1
    <3>1. i - 1 \in 1 .. Len(mq') /\ (i - 1) + 1 = i
      BY <1>1, <2>2
    <3> QED
      BY <1>1, <1>3, <3>1 DEF Sent
  <2> QED
    BY <2>1, <2>2
<1> QED
  BY <1>2, <1>3 DEF Sent

LEMMA AppendSent ==
  ASSUME QueueOK, NEW m, mq' = Append(mq, m), NEW t
  PROVE  Sent(t)' <=> Sent(t) \/ m.from = t
<1>1. /\ Len(mq) \in Nat /\ Len(mq') = Len(mq) + 1
      /\ mq'[Len(mq) + 1] = m /\ Len(mq) + 1 \in 1 .. Len(mq')
      /\ \A i \in 1 .. Len(mq) : mq'[i] = mq[i] /\ i \in 1 .. Len(mq')
      /\ \A i \in 1 .. Len(mq') : i \in 1 .. Len(mq) \/ i = Len(mq) + 1
  BY AppendMsgs
<1> QED
  BY <1>1 DEF Sent

LEMMA SameSent ==
  ASSUME UNCHANGED mq, NEW t
  PROVE  Sent(t)' = Sent(t)
BY DEF Sent

LEMMA SendSent ==
  ASSUME QueueOK, NEW m, SendFromIsr(m), NEW t
  PROVE  /\ Sent(t) => Sent(t)'
         /\ Sent(t)' => Sent(t) \/ m.from = t
BY AppendSent, SameSent DEF SendFromIsr

-----------------------------------------------------------------------------
(* How a message goes through the firmware task: it is taken from the      *)
(* queue and answered, or taken into a handler whose last step answers it. *)
Taken    == pc = "receive" /\ mq # <<>> /\ mq' = Tail(mq)
Answers(from) == \E resp \in Resps : Respond(from, resp)
Answered == Taken /\ Answers(Head(mq).from) /\ UNCHANGED fwVars
Entered  == Taken /\ pc' # "receive" /\ cur' = Head(mq) /\ UNCHANGED notify
Stepped  == UNCHANGED <<mq, cur, notify>> /\ pc # "receive" /\ pc' # "receive"
Finished == /\ UNCHANGED mq /\ pc # "receive" /\ pc' = "receive"
            /\ cur' = NoMsg /\ Answers(cur.from)

LEMMA FwShape ==
  ASSUME FwNext
  PROVE  /\ Answered \/ Entered \/ Stepped \/ Finished
         /\ UNCHANGED taskVars
<1> USE DEF Answered, Entered, Stepped, Finished, Taken, Answers, Receive,
            FswReceive, DfiReceive, Handled, Goto, At, Step, Finish, Resps,
            fwVars, taskVars, still, dfiFrame, callVars
<1>1. CASE BootReject \/ BootBegin \/ BootFail \/ BootPhy \/ BootStart
  BY <1>1 DEF BootReject, BootBegin, BootFail, BootPhy, BootStart
<1>2. CASE Dismiss
  BY <1>2 DEF Dismiss, Turned
<1>3. CASE PrepBegin \/ PrepConfigure \/ PrepAssert \/ PostSwitch
  BY <1>3 DEF PrepBegin, PrepConfigure, PrepAssert, PostSwitch
<1>4. CASE PendingBegin \/ SendMrw \/ AbortDisable \/ AbortDeassert
           \/ AbortDone \/ NoAbort \/ Release
  BY <1>4 DEF PendingBegin, SendMrw, AbortDisable, AbortDeassert, AbortDone,
              NoAbort, Release
<1>5. CASE UpdRequest \/ UpdBegin \/ UpdDeassert \/ UpdDone \/ MstrRequest
           \/ MstrEnter \/ MstrExit \/ MstrDone
  BY <1>5 DEF UpdRequest, UpdBegin, UpdDeassert, UpdDone, MstrRequest,
              MstrEnter, MstrExit, MstrDone
<1>6. CASE CtrlUpdBegin \/ CtrlUpdEnter \/ CtrlUpdEnd
  BY <1>6 DEF CtrlUpdBegin, CtrlUpdEnter, CtrlUpdEnd
<1> QED
  BY <1>1, <1>2, <1>3, <1>4, <1>5, <1>6 DEF FwNext

-----------------------------------------------------------------------------
USE DEF statusVars, fsmVars, fwVars, irqVars, busVars, pllVars, switchVars,
        devVars, taskVars, callVars, still, dfiFrame, isrFrame, mcFrame,
        fwState, IndInv, TypeOK, StatusOK, MachinesOK, BusOK, PllOK,
        CallersOK, HandlerInv, FwLabels, DrainLabels, FswStates, DfiStates,
        Resps, Sources, CtrlSources, PllSources, LineSources, ReqLine,
        AckLine, Handled, Goto, At, Step, Finish, FswMove, DfiMove,
        EnableIrqs, DisableIrqs, EnableLockIrq, AssertLine, DeassertLine,
        Respond

(* What a step of the firmware task does to the queue.                     *)
LEMMA FwQueue ==
  ASSUME QueueOK, FwNext, NEW e, NEW f
  PROVE  /\ Queued(e)' => Queued(e)
         /\ Queued(e) => Queued(e)' \/ (Taken /\ Head(mq).event = e)
         /\ Once(e) => Once(e)'
         /\ Behind(e, f)' => Behind(e, f)
         /\ Taken => /\ Head(mq).event = e => Queued(e)
                     /\ Head(mq).event = e /\ Once(e) => ~Queued(e)'
                     /\ Head(mq).event = e /\ ~Behind(e, f) => ~Queued(f)'
<1>1. CASE Taken
  BY <1>1, TailQueue, TailBehind DEF Taken
<1>2. CASE UNCHANGED mq /\ ~Taken
  BY <1>2, SameQueue
<1>3. Taken \/ (UNCHANGED mq /\ pc # "receive")
  BY FwShape DEF Answered, Entered, Stepped, Finished
<1> QED
  BY <1>1, <1>2, <1>3 DEF Taken

(* Interrupts send nothing but their own events, to a queue that may be    *)
(* full; tasks send neither acknowledges nor what the switch waits for.    *)
LEMMA TaskQueue ==
  ASSUME IndInv, TaskNext, NEW e \in IrqEvents, NEW f \in IrqEvents
  PROVE  /\ Queued(e)' => Queued(e)
         /\ Once(e) => Once(e)'
         /\ Behind(e, f)' => Behind(e, f)
<1> USE DEF IrqEvents
<1>1. CASE MainSend \/ PeriodicSend \/ PeriodicExit \/ TimerFires
  <2>1. PICK m : mq' = Append(mq, m) /\ m.event \notin IrqEvents
    BY <1>1 DEF MainSend, PeriodicSend, PeriodicExit, TimerFires, Msg, Callers
  <2> QED
    BY <2>1, AppendQueue, AppendBehind
<1>2. CASE UNCHANGED mq
  BY <1>2, SameQueue
<1> QED
  BY <1>1, <1>2 DEF TaskNext, MainCall, MainRetry, MainReturn, PeriodicWake,
                    PeriodicAnswer, PeriodicProceed, TimerAssert

-----------------------------------------------------------------------------
(* Requests of the main task.                                              *)
LEMMA InitReply == Init => ReplyInv
BY DEF Init, ReplyInv

LEMMA NextReply == IndInv /\ ReplyInv /\ [Next]_vars => ReplyInv'
<1> SUFFICES ASSUME IndInv, ReplyInv, [Next]_vars PROVE ReplyInv'
  OBVIOUS
<1> USE DEF ReplyInv
<1>1. CASE FwNext
  <2>1. UNCHANGED main
    BY <1>1, FwShape DEF taskVars
  <2>2. CASE Answered
    BY <2>1, <2>2, TailSent DEF Answered, Taken, Answers, Respond, Tasks, NoResp
  <2>3. CASE Entered
    BY <2>1, <2>3, TailSent DEF Entered, Taken, NoMsg, NoTask, Main
  <2>4. CASE Stepped
    BY <2>1, <2>4, SameSent DEF Stepped
  <2>5. CASE Finished
    BY <2>1, <2>5, SameSent
    DEF Finished, Answers, Respond, Tasks, NoResp
  <2> QED
    BY <1>1, <2>2, <2>3, <2>4, <2>5, FwShape
<1>2. CASE IsrNext
  <2>1. UNCHANGED isrFrame
    BY <1>2 DEF IsrNext, LineIsr, CtrlUpdIsr, PllIsr
  <2>2. Sent(Main) => Sent(Main)'
    BY <1>2, SendSent DEF IsrNext, LineIsr, CtrlUpdIsr, PllIsr
  <2> QED
    BY <2>1, <2>2
<1>3. CASE TaskNext
  <2>1. CASE MainSend
    <3>1. Msg(main.op, Main, main.freq).from = Main
      BY DEF Msg
    <3> QED
      BY <2>1, <3>1, AppendSent DEF MainSend
  <2>2. CASE MainCall \/ MainRetry \/ MainReturn
    <3>1. CASE MainCall
      <4>1. CASE main' = [IdleCaller EXCEPT !.ph = "send", !.tries = 1]
        BY <4>1 DEF IdleCaller
      <4>2. CASE \E f \in Freqs : main' = [ph |-> "send", op |-> "PREP",
                                         freq |-> f, tries |-> PrepTries]
        BY <4>2
      <4> QED
        BY <3>1, <4>1, <4>2 DEF MainCall
    <3>2. CASE MainRetry
      BY <3>2 DEF MainRetry, Callers
    <3>3. CASE MainReturn
      BY <3>3 DEF MainReturn, IdleCaller
    <3> QED
      BY <2>2, <3>1, <3>2, <3>3
  <2>3. CASE PeriodicSend \/ PeriodicExit \/ TimerFires
    BY <2>3, AppendSent DEF PeriodicSend, PeriodicExit, TimerFires
  <2>4. CASE PeriodicWake \/ PeriodicAnswer \/ PeriodicProceed \/ TimerAssert
    <3>1. UNCHANGED <<mq, main, cur>> /\ notify'[Main] = notify[Main]
      BY <2>4 DEF PeriodicWake, PeriodicAnswer, PeriodicProceed, TimerAssert,
                  Tasks, Main, Periodic
    <3> QED
      BY <3>1, SameSent
  <2> QED
    BY <1>3, <2>1, <2>2, <2>3, <2>4 DEF TaskNext
<1>4. CASE EnvNext
  <2>1. UNCHANGED <<mcFrame, main>>
    BY <1>4 DEF EnvNext, McInitStart, McInitLow, PllLocks, PllLoses,
                McInitComplete, McAckUpd, McAckMstr, McDropAck,
                McCtrlUpdAssert, McCtrlUpdDeassert
  <2> QED
    BY <2>1, SameSent
<1>5. CASE UNCHANGED vars
  BY <1>5, SameSent DEF vars
<1> QED
  BY <1>1, <1>2, <1>3, <1>4, <1>5 DEF Next

HIDE DEF IndInv

(* The main task, which runs only while the firmware task is blocked on an *)
(* empty queue, finds its answer there: xTaskNotifyWait never times out.   *)
THEOREM ReplyCorrect == Spec => []ReplyIsThere
<1>1. IndInv /\ ReplyInv => ReplyIsThere
  <2> SUFFICES ASSUME IndInv, ReplyInv, Blocked, main.ph = "wait"
               PROVE  notify[Main] # NoResp
    BY DEF ReplyIsThere
  <2>1. cur = NoMsg /\ NoMsg.from # Main
    BY DEF Blocked, IndInv, TypeOK, MachinesOK, NoMsg, Main, NoTask
  <2>2. ~Sent(Main)
    BY DEF Blocked, Sent
  <2> QED
    BY <2>1, <2>2 DEF ReplyInv
<1>2. Spec => []ReplyInv
  BY InitReply, NextReply, Invariance, PTL DEF Spec
<1> QED
  BY <1>1, <1>2, Invariance, PTL

-----------------------------------------------------------------------------
(* The acknowledges, on the PHY's side.                                    *)
USE DEF IndInv, Owners

LEMMA InitAck == Init => AckInv
<1> SUFFICES ASSUME Init PROVE AckInv
  OBVIOUS
<1>1. \A e, f : Once(e) /\ ~Queued(e) /\ ~Behind(e, f)
  BY EmptySeq DEF Init, Queued, Once, Behind
<1> QED
  BY <1>1 DEF Init, AckInv

LEMMA FwAck ==
  ASSUME IndInv, ClockInv, AckInv, FwNext
  PROVE  AckInv'
<1> DEFINE Acks == {"PHYUPD_ACK", "PHYMSTR_ACK"}
<1>1. /\ Behind("INIT_START", "PLL_LOCK")' => Behind("INIT_START", "PLL_LOCK")
      /\ \A e \in Acks : Behind("PLL_LOCK", e)' => Behind("PLL_LOCK", e)
      /\ \A e \in Acks \cup {"PLL_LOCK"} :
           (Queued(e)' => Queued(e)) /\ (Once(e) => Once(e)')
      /\ Taken /\ Head(mq).event = "INIT_START" => ~Queued("PLL_LOCK")'
      /\ Taken /\ Head(mq).event = "PLL_LOCK" /\ fsw = "Pending" =>
           \A e \in Acks : ~Queued(e)'
      /\ \A e \in Acks : Taken /\ Head(mq).event = e => Queued(e) /\ ~Queued(e)'
  <2>1. QueueOK
    BY DEF TypeOK
  <2>2. /\ ~Behind("INIT_START", "PLL_LOCK")
        /\ \A e \in Acks : Once(e)
        /\ fsw = "Pending" => \A e \in Acks : ~Behind("PLL_LOCK", e)
    BY DEF AckInv, AckLine
  <2> HIDE DEF Acks, IndInv
  <2>3. \A e, f : Behind(e, f)' => Behind(e, f)
    BY <2>1, FwQueue
  <2>4. \A e : (Queued(e)' => Queued(e)) /\ (Once(e) => Once(e)')
    BY <2>1, FwQueue
  <2>5. \A e, f : Taken /\ Head(mq).event = e /\ ~Behind(e, f) => ~Queued(f)'
    BY <2>1, FwQueue
  <2>6. \A e : Taken /\ Head(mq).event = e =>
                 Queued(e) /\ (Once(e) => ~Queued(e)')
    BY <2>1, FwQueue
  <2>7. Taken /\ Head(mq).event = "INIT_START" => ~Queued("PLL_LOCK")'
    BY <2>2, <2>5
  <2>8. Taken /\ Head(mq).event = "PLL_LOCK" /\ fsw = "Pending" =>
          \A e \in Acks : ~Queued(e)'
    BY <2>2, <2>5
  <2>9. \A e \in Acks : Taken /\ Head(mq).event = e => Queued(e) /\ ~Queued(e)'
    BY <2>2, <2>6
  <2> QED
    BY <2>3, <2>4, <2>7, <2>8, <2>9
<1> USE DEF AckInv, FswReceive, DfiReceive, Receive, Taken
<1>2. CASE BootReject \/ BootBegin \/ BootFail \/ BootPhy \/ BootStart
  <2>1. CASE BootReject \/ BootBegin
    BY <1>1, <2>1 DEF BootReject, BootBegin
  <2>2. CASE BootFail
    BY <1>1, <2>2 DEF BootFail
  <2>3. CASE BootPhy
    BY <1>1, <2>3 DEF BootPhy
  <2>4. CASE BootStart
    BY <1>1, <2>4 DEF BootStart
  <2> QED
    BY <1>2, <2>1, <2>2, <2>3, <2>4
<1>3. CASE Dismiss
  BY <1>1, <1>3 DEF Dismiss, Turned
<1>4. CASE PrepBegin \/ PrepConfigure \/ PrepAssert
  BY <1>1, <1>4, FswTargets DEF PrepBegin, PrepConfigure, PrepAssert
<1>5. CASE PostSwitch
  BY <1>1, <1>5, FswTargets DEF PostSwitch
<1>6. CASE PendingBegin
  BY <1>1, <1>6, FswTargets DEF PendingBegin
<1>7. CASE SendMrw \/ AbortDisable \/ AbortDeassert \/ NoAbort
  BY <1>1, <1>7 DEF SendMrw, AbortDisable, AbortDeassert, NoAbort
<1>8. CASE AbortDone
  BY <1>1, <1>8, DfiTargets DEF AbortDone
<1>9. CASE Release
  <2>1. \A e \in Acks : ~Behind("PLL_LOCK", e)'
    BY <1>9 DEF Release, Queued, Behind
  <2> QED
    BY <1>1, <1>9, <2>1, FswTargets DEF Release
<1>10. CASE UpdRequest \/ MstrRequest
  BY <1>1, <1>10, DfiTargets, DfiSources
  DEF UpdRequest, MstrRequest, DfiMayRun
<1>11. CASE UpdBegin \/ UpdDeassert \/ UpdDone
  BY <1>1, <1>11, DfiTargets, DfiSources
  DEF UpdBegin, UpdDeassert, UpdDone, DfiMayRun
<1>12. CASE MstrEnter \/ MstrExit \/ MstrDone
  BY <1>1, <1>12, DfiTargets, DfiSources
  DEF MstrEnter, MstrExit, MstrDone, DfiMayRun
<1>13. CASE CtrlUpdBegin \/ CtrlUpdEnter \/ CtrlUpdEnd
  BY <1>1, <1>13, DfiTargets, DfiSources
  DEF CtrlUpdBegin, CtrlUpdEnter, CtrlUpdEnd, DfiMayRun
<1> QED
  BY <1>2, <1>3, <1>4, <1>5, <1>6, <1>7, <1>8, <1>9, <1>10, <1>11, <1>12,
     <1>13 DEF FwNext

(* The first lock after a drain is queued behind every acknowledge of the  *)
(* drain, and an acknowledge is queued once because it was armed.          *)
LEMMA IsrAck ==
  ASSUME IndInv, ClockInv, AckInv, IsrNext
  PROVE  AckInv'
<1> USE DEF AckInv, PendingIrqs
<1>1. UNCHANGED isrFrame /\ irqEn' \subseteq irqEn
  BY DEF IsrNext, LineIsr, CtrlUpdIsr, PllIsr
<1>2. PICK m : /\ SendFromIsr(m)
               /\ m.event \in IrqEvents => m.event \in irqEn
               /\ m.event \in LineSources => m.event \notin irqEn'
  <2>1. CASE \E src \in LineSources : LineIsr(src)
    <3>1. PICK src \in LineSources : LineIsr(src)
      BY <2>1
    <3>2. Msg(src, NoTask, NoFreq).event = src
      BY DEF Msg
    <3> QED
      BY <3>1, <3>2 DEF LineIsr
  <2>2. CASE CtrlUpdIsr
    <3> DEFINE e == IF "CTRLUPD_ASSERT" \in sticky THEN "CTRLUPD_ASSERT"
                    ELSE "CTRLUPD_DEASSERT"
    <3>1. Msg(e, NoTask, NoFreq).event \notin IrqEvents
      BY DEF Msg, IrqEvents
    <3> QED
      BY <2>2, <3>1 DEF CtrlUpdIsr, IrqEvents
  <2>3. CASE PllIsr
    <3> DEFINE e == IF "PLL_LOSS_LOCK" \in sticky THEN "PLL_LOSS_LOCK"
                    ELSE "PLL_LOCK"
    <3>1. PICK from \in StackGarbage : SendFromIsr(Msg(e, from, NoFreq))
      BY <2>3 DEF PllIsr
    <3>2. Msg(e, from, NoFreq).event = e
      BY DEF Msg
    <3>3. e = "PLL_LOCK" => e \in irqEn
      BY <2>3 DEF PllIsr
    <3> QED
      BY <3>1, <3>2, <3>3 DEF IrqEvents
  <2> QED
    BY <2>1, <2>2, <2>3 DEF IsrNext
<1>3. \A e \in {"PHYUPD_ACK", "PHYMSTR_ACK", "PLL_LOCK"} :
        /\ Queued(e)' => Queued(e) \/ m.event = e
        /\ Once(e) /\ (m.event = e => ~Queued(e)) => Once(e)'
        /\ Behind("PLL_LOCK", e)' => Behind("PLL_LOCK", e) \/ m.event = e
        /\ Behind("INIT_START", e)' =>
             Behind("INIT_START", e) \/ (Queued("INIT_START") /\ m.event = e)
  BY <1>2, SendQueue, SendBehind
<1> QED
  BY <1>1, <1>2, <1>3 DEF ClockInv, OneToken, Draining, IrqEvents

LEMMA TaskAck ==
  ASSUME IndInv, AckInv, TaskNext
  PROVE  AckInv'
<1>1. UNCHANGED <<fsmVars, fwVars, devVars>>
  BY DEF TaskNext, MainCall, MainSend, MainRetry, MainReturn, PeriodicWake,
         PeriodicSend, PeriodicAnswer, PeriodicProceed, PeriodicExit,
         TimerFires, TimerAssert
<1>2. \A e, f \in IrqEvents :
        /\ Queued(e)' => Queued(e)
        /\ Once(e) => Once(e)'
        /\ Behind(e, f)' => Behind(e, f)
  BY TaskQueue
<1> QED
  BY <1>1, <1>2 DEF AckInv, IrqEvents

(* The MC moves none of the state that AckInv is about.                    *)
LEMMA EnvAck ==
  ASSUME AckInv, EnvNext
  PROVE  AckInv'
<1>1. UNCHANGED <<mcFrame, irqEn, phyLines>>
  BY DEF EnvNext, McInitStart, McInitLow, PllLocks, PllLoses, McInitComplete,
         McAckUpd, McAckMstr, McDropAck, McCtrlUpdAssert, McCtrlUpdDeassert
<1> QED
  BY <1>1, SameQueue DEF AckInv

LEMMA NextAck == IndInv /\ ClockInv /\ AckInv /\ [Next]_vars => AckInv'
<1>1. ASSUME AckInv, UNCHANGED vars PROVE AckInv'
  BY <1>1, SameQueue DEF vars, AckInv
<1> QED
  BY <1>1, FwAck, IsrAck, TaskAck, EnvAck DEF Next

HIDE DEF IndInv

LEMMA ClockAlways == Spec => []ClockInv
  BY InitClock, NextClock, Invariance, PTL DEF Spec

LEMMA AckAlways == Spec => []AckInv
  BY InitAck, NextAck, ClockAlways, Invariance, PTL DEF Spec

(* The interrupt of an acknowledge is armed only while its request is up   *)
(* and no acknowledge of it is queued, though a drain may withdraw the     *)
(* request after the acknowledge was queued: a late one never serves the   *)
(* next request.                                                           *)
THEOREM AckCorrect == Spec => []AckIsArmedOnce
<1>1. AckInv => AckIsArmedOnce
  BY DEF AckInv, AckIsArmedOnce, Queued
<1> QED
  BY <1>1, AckAlways, PTL

-----------------------------------------------------------------------------
(* The VCOs.  Of a PLL whose next VCO, if any, is the one not in use.      *)
Running(p, v) == v \in p.enabled /\ p.freq[v] \in ValidFreqs
WellSet(p) ==
  /\ p.prev = NoVco
  /\ p.current # "MCU" => Running(p, p.current)
  /\ p.next # NoVco => Running(p, p.next) /\ p.next = FreeVco(p)

LEMMA PrepareSets ==
  ASSUME NEW p \in Plls, WellSet(p), NEW f \in ValidFreqs
  PROVE  /\ Prepare(p, f) \in Plls /\ WellSet(Prepare(p, f))
         /\ Prepare(p, f).current = p.current /\ Prepare(p, f).next \in PhyVcos
<1>1. f \in Freqs
  BY PhyTaskAssumption DEF PhyTaskAssumption
<1>2. FreeVco(p) \in PhyVcos /\ FreeVco(p) # p.current /\ FreeVco(p) # NoVco
  BY DEF FreeVco, PhyVcos, NoVco
<1>3. /\ Prepare(p, f).prev = p.prev
      /\ Prepare(p, f).enabled = p.enabled \cup {FreeVco(p)}
      /\ Prepare(p, f).freq = [p.freq EXCEPT ![FreeVco(p)] = f]
  BY <1>2 DEF Prepare, Plls
<1>4. Prepare(p, f).freq[FreeVco(p)] = f
      /\ \A v \in Vcos \ {FreeVco(p)} : Prepare(p, f).freq[v] = p.freq[v]
  BY <1>2, <1>3 DEF Plls, Vcos
<1>5. p.current \in Vcos
  BY DEF Plls
<1> QED
  BY <1>1, <1>2, <1>3, <1>4, <1>5, PllTyped, PrepareNext DEF WellSet, Running

LEMMA DisableSets ==
  ASSUME NEW q \in Plls, q.prev # NoVco
  PROVE  /\ DisableVco(q) \in Plls /\ DisableVco(q).prev = NoVco
         /\ DisableVco(q).enabled = q.enabled \ {q.prev}
         /\ DisableVco(q).next = q.next /\ DisableVco(q).current = q.current
         /\ DisableVco(q).freq = q.freq
<1>1. DisableVco(q) = [q EXCEPT !.enabled = @ \ {q.prev}, !.prev = NoVco]
  BY DEF DisableVco
<1> QED
  BY <1>1 DEF Plls

LEMMA SwitchSets ==
  ASSUME NEW p \in Plls, WellSet(p)
  PROVE  /\ WellSet(DisableVco(SwitchVco(p)))
         /\ DisableVco(SwitchVco(p)) \in Plls
         /\ p.current # "MCU" \/ p.next # NoVco =>
              DisableVco(SwitchVco(p)).current # "MCU"
<1>1. CASE p.next = NoVco
  BY <1>1 DEF WellSet, SwitchVco, DisableVco
<1>2. CASE p.next # NoVco
  <2> DEFINE q == [p EXCEPT !.prev = p.current, !.current = p.next,
                            !.next = NoVco]
  <2>1. /\ SwitchVco(p) = q /\ q \in Plls
        /\ q.prev = p.current /\ q.current = p.next /\ q.next = NoVco
        /\ q.freq = p.freq /\ q.enabled = p.enabled
        /\ p.next \in PhyVcos /\ p.next # p.current /\ q.prev # NoVco
    BY <1>2 DEF SwitchVco, Plls, Vcos, PhyVcos, NoVco, WellSet, FreeVco
  <2> HIDE DEF q
  <2>2. /\ DisableVco(q) \in Plls
        /\ DisableVco(q).prev = NoVco /\ DisableVco(q).next = NoVco
        /\ DisableVco(q).current = p.next /\ DisableVco(q).freq = p.freq
        /\ DisableVco(q).enabled = p.enabled \ {p.current}
    BY <2>1, DisableSets
  <2> QED
    BY <1>2, <2>1, <2>2 DEF WellSet, Running, PhyVcos
<1> QED
  BY <1>1, <1>2

LEMMA SwSwitchSets ==
  ASSUME NEW p \in Plls, WellSet(p), NEW b \in BOOLEAN, NEW f \in ValidFreqs
  PROVE  /\ SwSwitch(p, f, b) \in Plls /\ WellSet(SwSwitch(p, f, b))
         /\ p.current # "MCU" \/ ~b => SwSwitch(p, f, b).current # "MCU"
<1>1. CASE b
  BY <1>1 DEF SwSwitch
<1>2. CASE ~b
  BY <1>2, PrepareSets, SwitchSets DEF SwSwitch, PhyVcos, NoVco
<1> QED
  BY <1>1, <1>2

LEMMA VcoIsWellSet ==
  ASSUME ClockInv, VcoInv
  PROVE  WellSet(pll)
BY DEF ClockInv, ClockFollows, VcoInv, WellSet, Running, Configured

LEMMA FwVco ==
  ASSUME IndInv, ClockInv, VcoInv, FwNext
  PROVE  VcoInv'
<1> USE DEF IndInv
<1>1. WellSet(pll) /\ BootFreq \in ValidFreqs
  BY VcoIsWellSet, PhyTaskAssumption DEF PhyTaskAssumption
<1>2. SUFFICES /\ WellSet(pll')
               /\ ready' \/ pc' = "boot_start" => booted'
               /\ booted' => pll'.current # "MCU"
  BY DEF VcoInv, WellSet, Running, Configured
<1>3. CASE BootFail
  <2>1. WellSet(pll') /\ (pll.current # "MCU" => pll'.current # "MCU")
    BY <1>1, <1>3, SwSwitchSets DEF BootFail
  <2> QED
    BY <1>3, <2>1 DEF BootFail, VcoInv
<1>4. CASE BootPhy
  <2>1. /\ SwSwitch(pll, BootFreq, booted) \in Plls
        /\ WellSet(SwSwitch(pll, BootFreq, booted))
        /\ SwSwitch(pll, BootFreq, booted).current # "MCU"
    BY <1>1, SwSwitchSets DEF VcoInv
  <2>2. WellSet(pll') /\ pll'.current # "MCU"
    BY <1>1, <1>4, <2>1, SwSwitchSets DEF BootPhy, UntilPhy1
  <2> QED
    BY <1>4, <2>2 DEF BootPhy
<1>5. CASE PrepConfigure
  <2>1. /\ cur.freq \in ValidFreqs /\ pll' = Prepare(pll, cur.freq)
        /\ UNCHANGED <<ready, booted>> /\ pc = "prep" /\ pc' = "receive"
    BY <1>5 DEF PrepConfigure
  <2>2. pll \in Plls /\ WellSet(pll)
    BY <1>1 DEF VcoInv
  <2>3. pll' \in Plls /\ WellSet(pll') /\ pll'.current = pll.current
    BY <2>1, <2>2, PrepareSets
  <2> QED
    BY <1>1, <2>1, <2>3 DEF VcoInv
<1>6. CASE PostSwitch
  BY <1>1, <1>6, SwitchSets DEF PostSwitch, VcoInv
<1>7. CASE BootStart
  <2>1. booted
    BY <1>7 DEF BootStart, VcoInv
  <2> QED
    BY <1>1, <1>7, <2>1 DEF BootStart, VcoInv
<1>8. CASE UNCHANGED <<ready, booted, pll>> /\ pc' # "boot_start"
  BY <1>1, <1>8 DEF VcoInv
<1>9. CASE BootReject \/ BootBegin \/ Dismiss
  BY <1>8, <1>9 DEF BootReject, BootBegin, Dismiss, Turned, Receive
<1>10. CASE PrepBegin \/ PrepAssert \/ PendingBegin
  BY <1>8, <1>10 DEF PrepBegin, PrepAssert, PendingBegin, FswReceive, Receive
<1>11. CASE SendMrw \/ AbortDisable \/ AbortDeassert \/ AbortDone \/ NoAbort
             \/ Release
  BY <1>8, <1>11
  DEF SendMrw, AbortDisable, AbortDeassert, AbortDone, NoAbort, Release
<1>12. CASE UpdRequest \/ UpdBegin \/ UpdDeassert \/ UpdDone
  BY <1>8, <1>12 DEF UpdRequest, UpdBegin, UpdDeassert, UpdDone, DfiReceive,
                        Receive
<1>13. CASE MstrRequest \/ MstrEnter \/ MstrExit \/ MstrDone
  BY <1>8, <1>13 DEF MstrRequest, MstrEnter, MstrExit, MstrDone, DfiReceive,
                        Receive
<1>14. CASE CtrlUpdBegin \/ CtrlUpdEnter \/ CtrlUpdEnd
  BY <1>8, <1>14 DEF CtrlUpdBegin, CtrlUpdEnter, CtrlUpdEnd, DfiReceive,
                        Receive
<1> QED
  BY <1>3, <1>4, <1>5, <1>6, <1>7, <1>9, <1>10, <1>11, <1>12, <1>13, <1>14
  DEF FwNext

LEMMA InitVco == Init => VcoInv
BY DEF Init, VcoInv, BootedPll, NoVco

LEMMA NextVco == IndInv /\ ClockInv /\ VcoInv /\ [Next]_vars => VcoInv'
<1>1. ASSUME UNCHANGED <<pll, ready, booted, pc>>, VcoInv PROVE VcoInv'
  BY <1>1 DEF VcoInv, Configured
<1>2. IsrNext \/ UNCHANGED vars => UNCHANGED <<pll, ready, booted, pc>>
  BY DEF IsrNext, LineIsr, CtrlUpdIsr, PllIsr, vars
<1>3. TaskNext => UNCHANGED <<pll, ready, booted, pc>>
  BY DEF TaskNext, MainCall, MainSend, MainRetry, MainReturn, PeriodicWake,
         PeriodicSend, PeriodicAnswer, PeriodicProceed, PeriodicExit,
         TimerFires, TimerAssert
<1>4. EnvNext => UNCHANGED <<pll, ready, booted, pc>>
  BY DEF EnvNext, McInitStart, McInitLow, PllLocks, PllLoses, McInitComplete,
         McAckUpd, McAckMstr, McDropAck, McCtrlUpdAssert, McCtrlUpdDeassert
<1> QED
  BY <1>1, <1>2, <1>3, <1>4, FwVco DEF Next

LEMMA VcoAlways == Spec => []VcoInv
  BY InitVco, NextVco, ClockAlways, Invariance, PTL DEF Spec

-----------------------------------------------------------------------------
(* The state machines leave their first states only after a start.         *)
LEMMA NextAccept == IndInv /\ AcceptInv /\ [Next]_vars => AcceptInv'
<1> SUFFICES ASSUME IndInv, AcceptInv, [Next]_vars PROVE AcceptInv'
  OBVIOUS
<1> USE DEF IndInv, AcceptInv, Accepting
<1>1. CASE FwNext
  <2> USE DEF Receive, FswReceive, DfiReceive, FswMayRun, DfiMayRun
  <2>1. CASE BootReject \/ BootBegin \/ BootFail \/ BootPhy \/ BootStart
    BY <2>1 DEF BootReject, BootBegin, BootFail, BootPhy, BootStart
  <2>2. CASE Dismiss
    BY <2>2 DEF Dismiss, Turned
  <2>3. CASE PrepBegin \/ PrepConfigure \/ PrepAssert \/ PostSwitch
    BY <2>3, FswTargets DEF PrepBegin, PrepConfigure, PrepAssert, PostSwitch
  <2>4. CASE PendingBegin \/ SendMrw \/ AbortDisable \/ AbortDeassert
             \/ AbortDone \/ NoAbort \/ Release
    BY <2>4 DEF PendingBegin, SendMrw, AbortDisable, AbortDeassert, AbortDone,
                NoAbort, Release
  <2>5. CASE UpdRequest \/ UpdBegin \/ UpdDeassert \/ UpdDone \/ MstrRequest
             \/ MstrEnter \/ MstrExit \/ MstrDone
    BY <2>5 DEF UpdRequest, UpdBegin, UpdDeassert, UpdDone, MstrRequest,
                MstrEnter, MstrExit, MstrDone
  <2>6. CASE CtrlUpdBegin \/ CtrlUpdEnter \/ CtrlUpdEnd
    BY <2>6 DEF CtrlUpdBegin, CtrlUpdEnter, CtrlUpdEnd
  <2> QED
    BY <1>1, <2>1, <2>2, <2>3, <2>4, <2>5, <2>6 DEF FwNext
<1>2. CASE IsrNext \/ UNCHANGED vars
  BY <1>2 DEF IsrNext, LineIsr, CtrlUpdIsr, PllIsr, vars
<1>3. CASE TaskNext
  BY <1>3
  DEF TaskNext, MainCall, MainSend, MainRetry, MainReturn, PeriodicWake,
      PeriodicSend, PeriodicAnswer, PeriodicProceed, PeriodicExit,
      TimerFires, TimerAssert
<1>4. CASE EnvNext
  BY <1>4
  DEF EnvNext, McInitStart, McInitLow, PllLocks, PllLoses, McInitComplete,
      McAckUpd, McAckMstr, McDropAck, McCtrlUpdAssert, McCtrlUpdDeassert
<1> QED
  BY <1>1, <1>2, <1>3, <1>4 DEF Next

LEMMA AcceptAlways == Spec => []AcceptInv
<1>1. Init => AcceptInv
  BY DEF Init, AcceptInv
<1> QED
  BY <1>1, NextAccept, Invariance, PTL DEF Spec

-----------------------------------------------------------------------------
(* The acknowledges, on the MC's side.                                     *)
LEMMA InitMc == Init => McInv
<1> SUFFICES ASSUME Init PROVE McInv
  OBVIOUS
<1>1. \A e : ~Queued(e)
  BY EmptySeq DEF Init, Queued
<1> QED
  BY <1>1 DEF Init, McInv, AckHeld

LEMMA FwMc ==
  ASSUME IndInv, ClockInv, AckInv, McInv, FwNext
  PROVE  McInv'
<1> DEFINE Acks == {"PHYUPD_ACK", "PHYMSTR_ACK"}
<1>1. \A e \in Acks :
        /\ Queued(e)' => Queued(e)
        /\ Taken /\ Head(mq).event = e => Queued(e) /\ ~Queued(e)'
  <2>1. QueueOK
    BY DEF IndInv, TypeOK
  <2>2. \A e \in Acks : Once(e)
    BY DEF AckInv, Owners, AckLine
  <2>3. \A e : /\ Queued(e)' => Queued(e)
               /\ Taken /\ Head(mq).event = e =>
                    Queued(e) /\ (Once(e) => ~Queued(e)')
    BY <2>1, FwQueue
  <2> HIDE DEF Acks
  <2> QED
    BY <2>2, <2>3
<1> USE DEF IndInv, McInv, AckHeld, FswReceive, DfiReceive, Receive, Taken
<1>2. CASE BootReject \/ BootBegin \/ BootFail \/ BootPhy \/ BootStart
  <2>1. CASE BootReject \/ BootBegin
    BY <1>1, <2>1 DEF BootReject, BootBegin
  <2>2. CASE BootFail
    BY <1>1, <2>2 DEF BootFail
  <2>3. CASE BootPhy
    BY <1>1, <2>3 DEF BootPhy
  <2>4. CASE BootStart
    BY <1>1, <2>4 DEF BootStart
  <2> QED
    BY <1>2, <2>1, <2>2, <2>3, <2>4
<1>3. CASE Dismiss
  BY <1>1, <1>3 DEF Dismiss, Turned
<1>4. CASE PrepBegin \/ PrepConfigure \/ PrepAssert \/ PostSwitch
  BY <1>1, <1>4 DEF PrepBegin, PrepConfigure, PrepAssert, PostSwitch
<1>5. CASE PendingBegin \/ SendMrw \/ NoAbort \/ Release
  BY <1>1, <1>5 DEF PendingBegin, SendMrw, NoAbort, Release
<1>6. CASE AbortDisable \/ AbortDeassert \/ AbortDone
  BY <1>1, <1>6, DfiTargets
  DEF AbortDisable, AbortDeassert, AbortDone, ClockInv, OneToken, Draining
<1>7. CASE UpdRequest \/ MstrRequest
  BY <1>1, <1>7, DfiTargets, DfiSources
  DEF UpdRequest, MstrRequest, DfiMayRun
<1>8. CASE UpdBegin \/ UpdDeassert \/ UpdDone
  BY <1>1, <1>8, DfiTargets, DfiSources
  DEF UpdBegin, UpdDeassert, UpdDone, DfiMayRun, AckInv
<1>9. CASE MstrEnter \/ MstrExit \/ MstrDone
  BY <1>1, <1>9, DfiTargets, DfiSources
  DEF MstrEnter, MstrExit, MstrDone, DfiMayRun
<1>10. CASE CtrlUpdBegin \/ CtrlUpdEnter \/ CtrlUpdEnd
  BY <1>1, <1>10, DfiTargets, DfiSources
  DEF CtrlUpdBegin, CtrlUpdEnter, CtrlUpdEnd, DfiMayRun
<1> QED
  BY <1>2, <1>3, <1>4, <1>5, <1>6, <1>7, <1>8, <1>9, <1>10 DEF FwNext

LEMMA IsrMc ==
  ASSUME IndInv, McInv, IsrNext
  PROVE  McInv'
<1> USE DEF IndInv, McInv, AckHeld
<1>1. CASE \E src \in LineSources : LineIsr(src)
  <2>1. PICK src \in LineSources : LineIsr(src)
    BY <1>1
  <2>2. Msg(src, NoTask, NoFreq).event = src /\ src \in sticky
    BY <2>1 DEF Msg, LineIsr, PendingIrqs
  <2>3. \A e : Queued(e)' => Queued(e) \/ e = src
    BY <2>1, <2>2, SendQueue DEF LineIsr
  <2> QED
    BY <2>1, <2>2, <2>3 DEF LineIsr
<1>2. CASE CtrlUpdIsr \/ PllIsr
  <2>1. PICK m : SendFromIsr(m) /\ m.event \notin LineSources
    <3>1. ASSUME NEW e \in CtrlSources \cup PllSources, NEW from
          PROVE  Msg(e, from, NoFreq).event \notin LineSources
      BY DEF Msg
    <3> QED
      BY <1>2, <3>1 DEF CtrlUpdIsr, PllIsr
  <2>2. \A e \in LineSources : Queued(e)' => Queued(e)
    BY <2>1, SendQueue
  <2>3. UNCHANGED isrFrame /\ sticky' \subseteq sticky
    BY <1>2 DEF CtrlUpdIsr, PllIsr
  <2> QED
    BY <2>2, <2>3
<1> QED
  BY <1>1, <1>2 DEF IsrNext

LEMMA TaskMc ==
  ASSUME IndInv, McInv, TaskNext
  PROVE  McInv'
<1>1. UNCHANGED <<fsmVars, fwVars, devVars>>
  BY DEF TaskNext, MainCall, MainSend, MainRetry, MainReturn, PeriodicWake,
         PeriodicSend, PeriodicAnswer, PeriodicProceed, PeriodicExit,
         TimerFires, TimerAssert
<1>2. \A e \in IrqEvents : Queued(e)' => Queued(e)
  BY TaskQueue
<1> QED
  BY <1>1, <1>2 DEF McInv, AckHeld, IrqEvents

LEMMA EnvMc ==
  ASSUME IndInv, McInv, EnvNext
  PROVE  McInv'
<1>1. UNCHANGED <<mcFrame, phyLines>> /\ \A e : Queued(e)' = Queued(e)
  BY SameQueue
  DEF EnvNext, McInitStart, McInitLow, PllLocks, PllLoses, McInitComplete,
      McAckUpd, McAckMstr, McDropAck, McCtrlUpdAssert, McCtrlUpdDeassert
<1> USE DEF IndInv, McInv, AckHeld, McRaise, PllEdge
<1>2. CASE McInitStart \/ McInitLow \/ McInitComplete
  BY <1>1, <1>2 DEF McInitStart, McInitLow, McInitComplete
<1>3. CASE PllLocks \/ PllLoses \/ McCtrlUpdAssert \/ McCtrlUpdDeassert
  BY <1>1, <1>3 DEF PllLocks, PllLoses, McCtrlUpdAssert, McCtrlUpdDeassert
<1>4. CASE McAckUpd
  BY <1>1, <1>4 DEF McAckUpd
<1>5. CASE McAckMstr
  BY <1>1, <1>5 DEF McAckMstr
<1>6. CASE McDropAck
  BY <1>1, <1>6 DEF McDropAck
<1> QED
  BY <1>2, <1>3, <1>4, <1>5, <1>6 DEF EnvNext

LEMMA NextMc == IndInv /\ ClockInv /\ AckInv /\ McInv /\ [Next]_vars => McInv'
<1>1. ASSUME McInv, UNCHANGED vars PROVE McInv'
  BY <1>1, SameQueue DEF vars, McInv, AckHeld
<1> QED
  BY <1>1, FwMc, IsrMc, TaskMc, EnvMc DEF Next

LEMMA McAlways == Spec => []McInv
  BY InitMc, NextMc, ClockAlways, AckAlways, Invariance, PTL DEF Spec

(* The new driver codes are written under an acknowledge that is still up  *)
(* and for the VCO that clocks the PHY, if the MC acknowledges no update   *)
(* once it has started a switch.                                           *)
THEOREM UpdateCorrect ==
  ASSUME ~McMayAckLate
  PROVE  Spec => []UpdateIsSafe
<1>1. IndInv /\ ClockInv /\ VcoInv /\ McInv => UpdateIsSafe
  <2> SUFFICES ASSUME IndInv, ClockInv, VcoInv, McInv, pc = "update"
               PROVE  UpdateIsSafe
    BY DEF UpdateIsSafe
  <2>1. "PHYUPD_ACK" \in mcLines /\ mcSwitch = "none"
    BY DEF McInv, AckHeld
  <2>2. booted /\ hwVco = pll.current
    BY <2>1 DEF ClockInv, OnlyWhenReady, ClockFollows, VcoInv
  <2>3. pll.freq[pll.current] \in ValidFreqs
    BY <2>2 DEF VcoInv, Configured
  <2> QED
    BY <2>1, <2>2, <2>3 DEF UpdateIsSafe
<1> QED
  BY <1>1, ClockAlways, VcoAlways, McAlways, Invariance, PTL

-----------------------------------------------------------------------------
(* The periodic task.  Its messages are the PHYMSTR_REQs, if PllIsr's      *)
(* uninitialised sender is never the handle of this task.                  *)
LEMMA TailMstr ==
  ASSUME QueueOK, mq # <<>>, mq' = Tail(mq), MstrMsgs
  PROVE  /\ MstrMsgs'
         /\ (Head(mq).from = Periodic) <=> (Head(mq).event = "PHYMSTR_REQ")
BY TailMsgs DEF MstrMsgs

LEMMA AppendMstr ==
  ASSUME QueueOK, NEW m, mq' = Append(mq, m), MstrMsgs,
         (m.from = Periodic) <=> (m.event = "PHYMSTR_REQ")
  PROVE  MstrMsgs'
BY AppendMsgs DEF MstrMsgs

LEMMA SameMstr ==
  ASSUME UNCHANGED mq
  PROVE  MstrMsgs' = MstrMsgs
BY DEF MstrMsgs

LEMMA InitPeriodic == Init => PeriodicInv
<1> SUFFICES ASSUME Init PROVE PeriodicInv
  OBVIOUS
<1>1. \A e : Once(e) /\ ~Queued(e)
  BY EmptySeq DEF Init, Queued, Once
<1>2. MstrMsgs
  BY EmptySeq DEF Init, MstrMsgs
<1> QED
  BY <1>1, <1>2
  DEF Init, PeriodicInv, MayAsk, NoMsg, NoTask, Periodic

(* While the PHY is master the MC switches nothing, so the exit is not     *)
(* refused.                                                                *)
LEMMA ExitHeard ==
  ASSUME IndInv, ClockInv, McInv, AcceptInv, dfi = "PhyMstr", pc = "receive"
  PROVE  DfiMayRun /\ Reacts(DfiTransitions, dfi, "PHYMSTR_EXIT")
BY DEF ClockInv, OneToken, Token, Draining, McInv, AckHeld, AcceptInv,
       DfiMayRun, Reacts, DfiTransitions

LEMMA FwPeriodic ==
  ASSUME IndInv, ClockInv, McInv, AcceptInv, PeriodicInv, FwNext
  PROVE  PeriodicInv'
<1> USE DEF IndInv
<1>1. UNCHANGED taskVars
  BY FwShape
<1>2. /\ Queued("PHYMSTR_REQ")' => Queued("PHYMSTR_REQ")
      /\ Once("PHYMSTR_REQ")'
      /\ Taken /\ Head(mq).event = "PHYMSTR_REQ" =>
           Queued("PHYMSTR_REQ") /\ ~Queued("PHYMSTR_REQ")'
      /\ Queued("PHYMSTR_EXIT") =>
           Queued("PHYMSTR_EXIT")' \/ (Taken /\ Head(mq).event = "PHYMSTR_EXIT")
  BY FwQueue DEF PeriodicInv
<1>3. /\ MstrMsgs'
      /\ Taken => (Head(mq).from = Periodic) <=> (Head(mq).event = "PHYMSTR_REQ")
  BY FwShape, TailMstr, SameMstr
  DEF PeriodicInv, Answered, Entered, Stepped, Finished, Taken
<1> USE DEF PeriodicInv, MayAsk, Granted, FswReceive, DfiReceive, Receive,
            Taken, NoMsg, NoTask, Periodic, Tasks, NoResp
<1>4. CASE BootReject \/ BootBegin \/ BootFail \/ BootPhy \/ BootStart
  <2>1. CASE BootReject
    BY <1>1, <1>2, <1>3, <2>1 DEF BootReject
  <2>2. CASE BootBegin
    BY <1>1, <1>2, <1>3, <2>2 DEF BootBegin
  <2>3. CASE BootFail
    BY <1>1, <1>2, <1>3, <2>3 DEF BootFail
  <2>4. CASE BootPhy
    BY <1>1, <1>2, <1>3, <2>4 DEF BootPhy
  <2>5. CASE BootStart
    <3>1. /\ notify'[Periodic] = notify[Periodic] /\ cur' = NoMsg
          /\ UNCHANGED <<dfi, completion>> /\ pc # "exit_wait"
          /\ ~Taken
      BY <2>5 DEF BootStart
    <3> QED
      BY <1>1, <1>2, <1>3, <3>1
  <2> QED
    BY <1>4, <2>1, <2>2, <2>3, <2>4, <2>5
<1>5. CASE Dismiss
  <2>1. PICK event \in FswEvents \cup DfiEvents, resp \in Resps :
          Receive(event) /\ Handled(resp)
    BY <1>5 DEF Dismiss, Turned, Resps
  <2>2. dfi = "PhyMstr" => event # "PHYMSTR_EXIT"
    BY <1>5, <2>1, ExitHeard DEF Dismiss, Turned, DfiMayRun, FswEvents
  <2>3. UNCHANGED <<dfi, completion>>
    BY <1>5 DEF Dismiss
  <2> QED
    BY <1>1, <1>2, <1>3, <1>5, <2>1, <2>2, <2>3 DEF Dismiss
<1>6. CASE PrepBegin \/ PrepConfigure \/ PrepAssert \/ PostSwitch
  BY <1>1, <1>2, <1>3, <1>6
  DEF PrepBegin, PrepConfigure, PrepAssert, PostSwitch
<1>7. CASE PendingBegin \/ SendMrw \/ NoAbort \/ Release
  BY <1>1, <1>2, <1>3, <1>7 DEF PendingBegin, SendMrw, NoAbort, Release
<1>8. CASE AbortDisable \/ AbortDeassert \/ AbortDone
  BY <1>1, <1>2, <1>3, <1>8, DfiTargets
  DEF AbortDisable, AbortDeassert, AbortDone
<1>9. CASE UpdRequest \/ MstrRequest
  BY <1>1, <1>2, <1>3, <1>9, DfiTargets, DfiSources
  DEF UpdRequest, MstrRequest, DfiMayRun
<1>10. CASE UpdBegin \/ UpdDeassert \/ UpdDone
  BY <1>1, <1>2, <1>3, <1>10, DfiTargets, DfiSources
  DEF UpdBegin, UpdDeassert, UpdDone, DfiMayRun
<1>11. CASE MstrEnter \/ MstrExit \/ MstrDone
  <2>1. CASE MstrEnter
    BY <1>1, <1>2, <1>3, <2>1, DfiTargets, DfiSources
    DEF MstrEnter, DfiMayRun
  <2>2. CASE MstrExit
    BY <1>1, <1>2, <1>3, <2>2, DfiTargets, DfiSources
    DEF MstrExit, DfiMayRun
  <2>3. CASE MstrDone
    BY <1>1, <1>2, <1>3, <2>3, DfiTargets DEF MstrDone
  <2> QED
    BY <1>11, <2>1, <2>2, <2>3
<1>12. CASE CtrlUpdBegin \/ CtrlUpdEnter \/ CtrlUpdEnd
  BY <1>1, <1>2, <1>3, <1>12, DfiTargets, DfiSources
  DEF CtrlUpdBegin, CtrlUpdEnter, CtrlUpdEnd, DfiMayRun
<1> QED
  BY <1>4, <1>5, <1>6, <1>7, <1>8, <1>9, <1>10, <1>11, <1>12 DEF FwNext

LEMMA IsrPeriodic ==
  ASSUME IndInv, PeriodicInv, IsrNext, Periodic \notin StackGarbage
  PROVE  PeriodicInv'
<1>1. UNCHANGED isrFrame
  BY DEF IsrNext, LineIsr, CtrlUpdIsr, PllIsr
<1>2. PICK m : /\ SendFromIsr(m) /\ m.from # Periodic
               /\ m.event \notin {"PHYMSTR_REQ", "PHYMSTR_EXIT"}
  <2>1. ASSUME NEW e \in Sources, NEW from, from # Periodic
        PROVE  /\ Msg(e, from, NoFreq).from # Periodic
               /\ Msg(e, from, NoFreq).event \notin {"PHYMSTR_REQ", "PHYMSTR_EXIT"}
    BY <2>1 DEF Msg
  <2> QED
    BY <2>1 DEF IsrNext, LineIsr, CtrlUpdIsr, PllIsr, NoTask, Periodic
<1>3. MstrMsgs'
  BY <1>2, AppendMstr, SameMstr DEF SendFromIsr, PeriodicInv, IndInv
<1>4. /\ Queued("PHYMSTR_REQ")' <=> Queued("PHYMSTR_REQ")
      /\ Queued("PHYMSTR_EXIT") => Queued("PHYMSTR_EXIT")'
      /\ Once("PHYMSTR_REQ")'
  BY <1>2, SendQueue DEF PeriodicInv, IndInv
<1> QED
  BY <1>1, <1>3, <1>4 DEF PeriodicInv, MayAsk, Granted

LEMMA TaskPeriodic ==
  ASSUME IndInv, PeriodicInv, TaskNext
  PROVE  PeriodicInv'
<1> USE DEF IndInv
<1>1. UNCHANGED <<fsmVars, fwVars, devVars>>
  BY DEF TaskNext, MainCall, MainSend, MainRetry, MainReturn, PeriodicWake,
         PeriodicSend, PeriodicAnswer, PeriodicProceed, PeriodicExit,
         TimerFires, TimerAssert
<1>2. ASSUME NEW m, mq' = Append(mq, m),
             (m.from = Periodic) <=> (m.event = "PHYMSTR_REQ")
      PROVE  /\ MstrMsgs'
             /\ \A e : Queued(e)' <=> Queued(e) \/ m.event = e
             /\ m.event # "PHYMSTR_REQ" \/ ~Queued("PHYMSTR_REQ") =>
                  Once("PHYMSTR_REQ")'
  BY <1>2, AppendMstr, AppendQueue DEF PeriodicInv
<1>3. ASSUME UNCHANGED mq
      PROVE  /\ MstrMsgs' /\ Once("PHYMSTR_REQ")'
             /\ \A e : Queued(e)' = Queued(e)
  BY <1>3, SameMstr, SameQueue DEF PeriodicInv
<1> USE DEF PeriodicInv, MayAsk, Granted, Tasks, Main, Periodic, NoResp, NoTask
<1>4. CASE MainCall \/ MainRetry \/ MainReturn \/ TimerAssert
  <2>1. UNCHANGED <<mq, per, completion>> /\ notify'[Periodic] = notify[Periodic]
    BY <1>4 DEF MainCall, MainRetry, MainReturn, TimerAssert
  <2> QED
    BY <1>1, <1>3, <2>1
<1>5. CASE MainSend
  <2>1. /\ Msg(main.op, Main, main.freq).from # Periodic
        /\ Msg(main.op, Main, main.freq).event # "PHYMSTR_REQ"
    BY DEF Msg, Callers
  <2> QED
    BY <1>1, <1>2, <1>5, <2>1 DEF MainSend, Msg
<1>6. CASE TimerFires
  <2>1. UNCHANGED <<per, completion, notify>>
        /\ mq' = Append(mq, Msg("PHYUPD_REQ", NoTask, NoFreq))
    BY <1>6 DEF TimerFires
  <2> QED
    BY <1>1, <1>2, <2>1 DEF Msg
<1>7. CASE PeriodicWake \/ PeriodicAnswer \/ PeriodicProceed
  BY <1>1, <1>3, <1>7
  DEF PeriodicWake, PeriodicAnswer, PeriodicProceed, PeriodicMayRun, Blocked
<1>8. CASE PeriodicSend
  BY <1>1, <1>2, <1>8 DEF PeriodicSend, Msg
<1>9. CASE PeriodicExit
  BY <1>1, <1>2, <1>9 DEF PeriodicExit, Msg
<1> QED
  BY <1>4, <1>5, <1>6, <1>7, <1>8, <1>9 DEF TaskNext

LEMMA NextPeriodic ==
  ASSUME IndInv, ClockInv, McInv, AcceptInv, PeriodicInv, [Next]_vars,
         Periodic \notin StackGarbage
  PROVE  PeriodicInv'
<1>1. ASSUME UNCHANGED <<mcFrame, per>> PROVE PeriodicInv'
  BY <1>1, SameQueue, SameMstr DEF PeriodicInv, MayAsk, Granted
<1>2. UNCHANGED vars \/ EnvNext => UNCHANGED <<mcFrame, per>>
  BY DEF vars, EnvNext, McInitStart, McInitLow, PllLocks, PllLoses,
         McInitComplete, McAckUpd, McAckMstr, McDropAck, McCtrlUpdAssert,
         McCtrlUpdDeassert
<1> QED
  BY <1>1, <1>2, FwPeriodic, IsrPeriodic, TaskPeriodic DEF Next

(* Whenever the firmware task rests in the state PhyMstr the MC's grant is *)
(* up, no switch has started, and the periodic task is about to give the   *)
(* mastership back or its exit is queued: no message of it was refused.    *)
THEOREM MasterCorrect ==
  ASSUME Periodic \notin StackGarbage
  PROVE  Spec => []MasterIsGranted
<1>1. IndInv /\ ClockInv /\ McInv /\ AcceptInv /\ PeriodicInv /\ [Next]_vars
        => PeriodicInv'
  BY NextPeriodic
<1>2. Spec => []PeriodicInv
  BY <1>1, InitPeriodic, ClockAlways, McAlways, AcceptAlways, Invariance, PTL
  DEF Spec
<1>3. McInv /\ PeriodicInv => MasterIsGranted
  BY DEF McInv, AckHeld, PeriodicInv, MasterIsGranted, Queued
<1> QED
  BY <1>2, <1>3, McAlways, PTL
=============================================================================
