--------------------------- MODULE PhyHost_proofs ---------------------------
(***************************************************************************)
(* The switch of frequency from end to end: the lock that ends it, the     *)
(* room in the message queue, the preparation that the host asked for, and *)
(* the refinement of FreqSwitch.                                           *)
(***************************************************************************)
EXTENDS PhyBus_proofs, FiniteSetTheorems

USE DEF statusVars, fsmVars, fwVars, irqVars, busVars, pllVars, switchVars,
        devVars, taskVars, callVars, still, dfiFrame, isrFrame, mcFrame,
        fwState, TypeOK, StatusOK, MachinesOK, BusOK, PllOK,
        CallersOK, HandlerInv, FwLabels, DrainLabels, FswStates, DfiStates,
        Resps, Sources, CtrlSources, PllSources, LineSources, ReqLine,
        AckLine, Handled, Goto, At, Step, Finish, FswMove, DfiMove,
        EnableIrqs, DisableIrqs, EnableLockIrq, AssertLine, DeassertLine,
        Respond, Owners

-----------------------------------------------------------------------------
(* The lock.  A PLL that never loses it locks once in each switch.         *)
LEMMA InitLock == Init => LockInv
<1> SUFFICES ASSUME Init PROVE LockInv
  OBVIOUS
<1>1. \A e : Once(e) /\ ~Queued(e)
  BY EmptySeq DEF Init, Queued, Once
<1> QED
  BY <1>1 DEF Init, LockInv

LEMMA FwLock ==
  ASSUME IndInv, ClockInv, AckInv, LockInv, FwNext
  PROVE  LockInv'
<1> DEFINE Locks == {"PLL_LOCK", "PLL_LOSS_LOCK"}
<1>1. /\ \A e \in Locks : Queued(e)' => Queued(e)
      /\ Once("PLL_LOCK")'
      /\ Taken /\ Head(mq).event = "PLL_LOCK" =>
           Queued("PLL_LOCK") /\ ~Queued("PLL_LOCK")'
  BY FwQueue DEF LockInv, IndInv
<1> USE DEF IndInv, LockInv, FswReceive, DfiReceive, Receive, Taken
<1>2. CASE BootReject \/ BootBegin \/ BootFail \/ BootPhy \/ BootStart
  BY <1>1, <1>2 DEF BootReject, BootBegin, BootFail, BootPhy, BootStart
<1>3. CASE Dismiss
  BY <1>1, <1>3 DEF Dismiss, Turned
<1>4. CASE PrepBegin \/ PrepConfigure \/ PrepAssert \/ PostSwitch
  BY <1>1, <1>4, FswTargets
  DEF PrepBegin, PrepConfigure, PrepAssert, PostSwitch
<1>5. CASE PendingBegin \/ SendMrw \/ NoAbort \/ Release
  BY <1>1, <1>5, FswTargets DEF PendingBegin, SendMrw, NoAbort, Release
<1>6. CASE AbortDisable \/ AbortDeassert \/ AbortDone
  BY <1>1, <1>6 DEF AbortDisable, AbortDeassert, AbortDone
<1>7. CASE UpdRequest \/ MstrRequest \/ UpdBegin \/ UpdDeassert \/ UpdDone
  BY <1>1, <1>7
  DEF UpdRequest, MstrRequest, UpdBegin, UpdDeassert, UpdDone
<1>8. CASE MstrEnter \/ MstrExit \/ MstrDone
  BY <1>1, <1>8 DEF MstrEnter, MstrExit, MstrDone
<1>9. CASE CtrlUpdBegin \/ CtrlUpdEnter \/ CtrlUpdEnd
  BY <1>1, <1>9 DEF CtrlUpdBegin, CtrlUpdEnter, CtrlUpdEnd
<1> QED
  BY <1>2, <1>3, <1>4, <1>5, <1>6, <1>7, <1>8, <1>9 DEF FwNext

LEMMA IsrLock ==
  ASSUME IndInv, LockInv, IsrNext
  PROVE  LockInv'
<1> USE DEF IndInv, LockInv
<1>1. UNCHANGED isrFrame
  BY DEF IsrNext, LineIsr, CtrlUpdIsr, PllIsr
<1>2. CASE PllIsr
  <2>1. PICK from \in StackGarbage : SendFromIsr(Msg("PLL_LOCK", from, NoFreq))
    BY <1>2 DEF PllIsr
  <2>2. "PLL_LOCK" \in sticky
    BY <1>2 DEF PllIsr, PendingIrqs
  <2>3. Msg("PLL_LOCK", from, NoFreq).event = "PLL_LOCK"
    BY DEF Msg
  <2>4. Once("PLL_LOCK")' /\ ~Queued("PLL_LOSS_LOCK")'
    BY <2>1, <2>2, <2>3, SendQueue
  <2> QED
    BY <1>1, <1>2, <2>2, <2>4 DEF PllIsr
<1>3. CASE CtrlUpdIsr \/ \E src \in LineSources : LineIsr(src)
  <2>1. PICK m : SendFromIsr(m) /\ m.event \notin PllSources
    <3>1. ASSUME NEW e \in CtrlSources \cup LineSources
          PROVE  Msg(e, NoTask, NoFreq).event \notin PllSources
      BY DEF Msg
    <3> QED
      BY <1>3, <3>1 DEF CtrlUpdIsr, LineIsr
  <2>2. /\ Once("PLL_LOCK")'
        /\ Queued("PLL_LOCK")' <=> Queued("PLL_LOCK")
        /\ Queued("PLL_LOSS_LOCK")' <=> Queued("PLL_LOSS_LOCK")
    BY <2>1, SendQueue
  <2>3. /\ \A e \in PllSources : e \in sticky' <=> e \in sticky
        /\ "PLL_LOCK" \in irqEn' <=> "PLL_LOCK" \in irqEn
    BY <1>3 DEF CtrlUpdIsr, LineIsr
  <2> QED
    BY <1>1, <2>2, <2>3
<1> QED
  BY <1>2, <1>3 DEF IsrNext

LEMMA TaskLock ==
  ASSUME IndInv, LockInv, TaskNext
  PROVE  LockInv'
<1>1. UNCHANGED <<fsmVars, fwVars, devVars>>
  BY DEF TaskNext, MainCall, MainSend, MainRetry, MainReturn, PeriodicWake,
         PeriodicSend, PeriodicAnswer, PeriodicProceed, PeriodicExit,
         TimerFires, TimerAssert
<1>2. /\ Queued("PLL_LOCK")' => Queued("PLL_LOCK")
      /\ Once("PLL_LOCK")'
  BY TaskQueue DEF LockInv, IrqEvents
<1>3. ~Queued("PLL_LOSS_LOCK")'
  <2>1. CASE MainSend \/ PeriodicSend \/ PeriodicExit \/ TimerFires
    <3>1. PICK m : mq' = Append(mq, m) /\ m.event # "PLL_LOSS_LOCK"
      BY <2>1 DEF IndInv, MainSend, PeriodicSend, PeriodicExit, TimerFires, Msg, Callers
    <3> QED
      BY <3>1, AppendQueue DEF IndInv, LockInv
  <2>2. CASE UNCHANGED mq
    BY <2>2, SameQueue DEF LockInv
  <2> QED
    BY <2>1, <2>2 DEF TaskNext, MainCall, MainRetry, MainReturn, PeriodicWake,
                      PeriodicAnswer, PeriodicProceed, TimerAssert
<1> QED
  BY <1>1, <1>2, <1>3 DEF LockInv

LEMMA EnvLock ==
  ASSUME IndInv, ClockInv, AckInv, LockInv, EnvNext, MaxLoss = 0
  PROVE  LockInv'
<1> USE DEF IndInv, LockInv, McRaise, PllEdge
<1>1. /\ UNCHANGED <<mcFrame, irqEn>> /\ \A e : Queued(e)' = Queued(e)
      /\ Once("PLL_LOCK")'
  BY SameQueue
  DEF EnvNext, McInitStart, McInitLow, PllLocks, PllLoses, McInitComplete,
      McAckUpd, McAckMstr, McDropAck, McCtrlUpdAssert, McCtrlUpdDeassert
<1>2. CASE McInitStart \/ McInitComplete
  BY <1>1, <1>2 DEF McInitStart, McInitComplete
<1>3. CASE McInitLow
  BY <1>1, <1>3 DEF McInitLow, ClockInv, OneToken, Token, Draining
<1>4. CASE PllLocks
  BY <1>1, <1>4 DEF PllLocks, AckInv
<1>5. CASE PllLoses
  <2>1. losses = 0
    BY DEF PllOK
  <2> QED
    BY <1>5, <2>1 DEF PllLoses
<1>6. CASE McAckUpd \/ McAckMstr \/ McDropAck
  BY <1>1, <1>6 DEF McAckUpd, McAckMstr, McDropAck
<1>7. CASE McCtrlUpdAssert \/ McCtrlUpdDeassert
  BY <1>1, <1>7 DEF McCtrlUpdAssert, McCtrlUpdDeassert
<1> QED
  BY <1>2, <1>3, <1>4, <1>5, <1>6, <1>7 DEF EnvNext

LEMMA NextLock ==
  ASSUME IndInv, ClockInv, AckInv, LockInv, [Next]_vars, MaxLoss = 0
  PROVE  LockInv'
<1>1. ASSUME UNCHANGED vars PROVE LockInv'
  BY <1>1, SameQueue DEF vars, LockInv
<1> QED
  BY <1>1, FwLock, IsrLock, TaskLock, EnvLock DEF Next

LEMMA LockAlways ==
  ASSUME MaxLoss = 0
  PROVE  Spec => []LockInv
<1>1. IndInv /\ ClockInv /\ AckInv /\ LockInv /\ [Next]_vars => LockInv'
  BY NextLock
<1>2. Init => LockInv
  BY InitLock
<1> QED
  BY <1>1, <1>2, ClockAlways, AckAlways, Invariance, PTL DEF Spec

-----------------------------------------------------------------------------
(* Counting the messages of an event.                                      *)
LEMMA CountFacts ==
  ASSUME QueueOK, NEW e
  PROVE  /\ IsFiniteSet(Places(e)) /\ Count(e) \in Nat
         /\ ~Queued(e) => Count(e) = 0
         /\ Once(e) => Count(e) <= 1
<1>1. Len(mq) \in Nat /\ IsFiniteSet(1 .. Len(mq))
  BY FS_Interval DEF QueueOK
<1>2. IsFiniteSet(Places(e))
  BY <1>1, FS_Subset DEF Places
<1>3. Count(e) \in Nat
  BY <1>2, FS_CardinalityType DEF Count
<1>4. ASSUME ~Queued(e) PROVE Count(e) = 0
  <2>1. Places(e) = {}
    BY <1>4 DEF Places, Queued
  <2> QED
    BY <2>1, FS_EmptySet DEF Count
<1>5. ASSUME Once(e), Queued(e) PROVE Count(e) = 1
  <2>1. PICK i \in 1 .. Len(mq) : mq[i].event = e
    BY <1>5 DEF Queued
  <2>2. Places(e) = {i}
    BY <1>5, <2>1 DEF Places, Once
  <2> QED
    BY <2>2, FS_Singleton DEF Count
<1> QED
  BY <1>2, <1>3, <1>4, <1>5

LEMMA SameCount ==
  ASSUME UNCHANGED mq, NEW e
  PROVE  Count(e)' = Count(e)
BY DEF Count, Places

LEMMA TailCount ==
  ASSUME QueueOK, mq # <<>>, mq' = Tail(mq), NEW e
  PROVE  Count(e)' \in Nat /\ Count(e)' <= Count(e)
<1> DEFINE f == [i \in Places(e)' |-> i + 1]
<1>1. \A i \in Places(e)' : i \in Nat /\ i + 1 \in Places(e)
  BY TailMsgs DEF Places
<1>2. f \in [Places(e)' -> Places(e)]
  BY <1>1
<1>3. ASSUME NEW i \in Places(e)', NEW j \in Places(e)', f[i] = f[j]
      PROVE  i = j
  <2>1. i + 1 = j + 1
    BY <1>3
  <2> QED
    BY <1>1, <2>1
<1>4. f \in Injection(Places(e)', Places(e))
  <2> HIDE DEF f
  <2> QED
    BY <1>2, <1>3 DEF Injection, IsInjective
<1>5. IsFiniteSet(Places(e)') /\ Cardinality(Places(e)') <= Cardinality(Places(e))
  BY <1>4, CountFacts, FS_Injection
<1> QED
  BY <1>5, FS_CardinalityType DEF Count

LEMMA AppendCount ==
  ASSUME QueueOK, NEW m, mq' = Append(mq, m), NEW e
  PROVE  /\ m.event = e => Count(e)' = Count(e) + 1
         /\ m.event # e => Count(e)' = Count(e)
<1>1. Len(mq) + 1 \notin Places(e)
  BY AppendMsgs DEF Places
<1>2. ASSUME m.event = e PROVE Places(e)' = Places(e) \cup {Len(mq) + 1}
  BY <1>2, AppendMsgs DEF Places
<1>3. ASSUME m.event # e PROVE Places(e)' = Places(e)
  BY <1>3, AppendMsgs DEF Places
<1> QED
  BY <1>1, <1>2, <1>3, CountFacts, FS_AddElement DEF Count

LEMMA SendCount ==
  ASSUME QueueOK, NEW m, SendFromIsr(m), NEW e
  PROVE  /\ Count(e) \in Nat /\ Count(e)' \in Nat
         /\ Count(e)' <= Count(e) + 1
         /\ m.event # e => Count(e)' = Count(e)
<1>1. Count(e) \in Nat
  BY CountFacts
<1>2. CASE mq' = Append(mq, m)
  BY <1>1, <1>2, AppendCount
<1>3. CASE mq' = mq
  BY <1>1, <1>3, SameCount
<1> QED
  BY <1>2, <1>3 DEF SendFromIsr

(* The edges of the PLL.  Only Release and PostSwitch touch what the lock  *)
(* interrupt sees.                                                         *)
LEMMA FwPll ==
  ASSUME IndInv, FwNext
  PROVE  /\ UNCHANGED <<locked, losses>>
         /\ \/ Release \/ PostSwitch
            \/ /\ fsw' = "Pending" => fsw = "Pending"
               /\ "PLL_LOCK" \in irqEn' <=> "PLL_LOCK" \in irqEn
               /\ \A e \in PllSources : e \in sticky' <=> e \in sticky
<1> USE DEF IndInv
<1>1. CASE BootReject \/ BootBegin \/ BootFail \/ BootPhy \/ BootStart
  BY <1>1 DEF BootReject, BootBegin, BootFail, BootPhy, BootStart
<1>2. CASE Dismiss
  BY <1>2 DEF Dismiss
<1>3. CASE PrepBegin \/ PrepConfigure \/ PrepAssert
  BY <1>3, FswTargets DEF PrepBegin, PrepConfigure, PrepAssert
<1>4. CASE PendingBegin \/ SendMrw \/ NoAbort
  BY <1>4 DEF PendingBegin, SendMrw, NoAbort
<1>5. CASE AbortDisable \/ AbortDeassert \/ AbortDone
  BY <1>5 DEF AbortDisable, AbortDeassert, AbortDone
<1>6. CASE UpdRequest \/ UpdBegin \/ UpdDeassert \/ UpdDone \/ MstrRequest
  BY <1>6 DEF UpdRequest, UpdBegin, UpdDeassert, UpdDone, MstrRequest
<1>7. CASE MstrEnter \/ MstrExit \/ MstrDone
  BY <1>7 DEF MstrEnter, MstrExit, MstrDone
<1>8. CASE CtrlUpdBegin \/ CtrlUpdEnter \/ CtrlUpdEnd
  BY <1>8 DEF CtrlUpdBegin, CtrlUpdEnter, CtrlUpdEnd
<1>9. CASE PostSwitch
  BY <1>9 DEF PostSwitch
<1>10. CASE Release
  BY <1>10 DEF Release
<1> QED
  BY <1>1, <1>2, <1>3, <1>4, <1>5, <1>6, <1>7, <1>8, <1>9, <1>10 DEF FwNext

LEMMA InitEdge == Init => EdgeInv
<1> SUFFICES ASSUME Init PROVE EdgeInv
  OBVIOUS
<1>1. QueueOK /\ \A e : ~Queued(e)
  BY EmptySeq, PhyTaskAssumption DEF Init, Queued, QueueOK, PhyTaskAssumption
<1>2. \A e : Count(e) = 0
  BY <1>1, CountFacts
<1> QED
  BY <1>2 DEF Init, EdgeInv, Bit

LEMMA FwEdge ==
  ASSUME IndInv, AckInv, EdgeInv, FwNext
  PROVE  EdgeInv'
<1> USE DEF IndInv, EdgeInv
<1>1. \A e : Count(e) \in Nat /\ Count(e)' \in Nat /\ Count(e)' <= Count(e)
  <2> TAKE e
  <2>1. Count(e) \in Nat
    BY CountFacts
  <2>2. Taken \/ UNCHANGED mq
    BY FwShape DEF Answered, Entered, Stepped, Finished
  <2> QED
    BY <2>1, <2>2, TailCount, SameCount DEF Taken
<1>2. losses \in Nat /\ UNCHANGED <<locked, losses>>
  BY FwPll
<1>3. CASE Release
  <2>1. /\ pc = "release" /\ fsw = "Prep"
        /\ irqEn' = irqEn \cup {"PLL_LOCK"}
        /\ sticky' = IF locked THEN sticky \cup {"PLL_LOCK"} ELSE sticky
    BY <1>3 DEF Release
  <2>2. ~Queued("PLL_LOCK") /\ "PLL_LOCK" \notin sticky
    BY <2>1 DEF AckInv
  <2>3. Count("PLL_LOCK") = 0
    BY <2>2, CountFacts
  <2> QED
    BY <1>1, <1>2, <2>1, <2>2, <2>3 DEF Bit
<1>4. CASE PostSwitch
  <2>1. /\ fsw = "Pending" /\ fsw' = "Prep" /\ UNCHANGED sticky
        /\ irqEn' = irqEn \ {"PLL_LOCK"} /\ PendingIrqs = {}
    BY <1>4, FswTargets DEF PostSwitch, FswReceive, Receive, TasksMayRun
  <2>2. "PLL_LOCK" \notin sticky
    BY <2>1 DEF PendingIrqs
  <2> QED
    BY <1>1, <1>2, <2>1, <2>2 DEF Bit
<1>5. CASE /\ fsw' = "Pending" => fsw = "Pending"
           /\ "PLL_LOCK" \in irqEn' <=> "PLL_LOCK" \in irqEn
           /\ \A e \in PllSources : e \in sticky' <=> e \in sticky
  BY <1>1, <1>2, <1>5 DEF Bit
<1> QED
  BY <1>3, <1>4, <1>5, FwPll

LEMMA IsrEdge ==
  ASSUME IndInv, EdgeInv, IsrNext
  PROVE  EdgeInv'
<1> USE DEF IndInv, EdgeInv
<1>1. UNCHANGED isrFrame /\ losses \in Nat
  BY DEF IsrNext, LineIsr, CtrlUpdIsr, PllIsr
<1>2. CASE PllIsr
  <2>1. PICK from \in StackGarbage :
          SendFromIsr(Msg(IF "PLL_LOSS_LOCK" \in sticky THEN "PLL_LOSS_LOCK"
                          ELSE "PLL_LOCK", from, NoFreq))
    BY <1>2 DEF PllIsr
  <2>2. /\ PendingIrqs \cap PllSources # {}
        /\ sticky' = sticky \ PllSources /\ UNCHANGED irqEn
    BY <1>2 DEF PllIsr
  <2>3. CASE "PLL_LOSS_LOCK" \in sticky
    <3>1. PICK m : SendFromIsr(m) /\ m.event = "PLL_LOSS_LOCK"
      BY <2>1, <2>3 DEF Msg
    <3>2. /\ Count("PLL_LOCK") \in Nat /\ Count("PLL_LOCK")' = Count("PLL_LOCK")
          /\ Count("PLL_LOSS_LOCK") \in Nat /\ Count("PLL_LOSS_LOCK")' \in Nat
          /\ Count("PLL_LOSS_LOCK")' <= Count("PLL_LOSS_LOCK") + 1
      BY <3>1, SendCount
    <3> QED
      BY <1>1, <2>2, <2>3, <3>2 DEF Bit
  <2>4. CASE "PLL_LOSS_LOCK" \notin sticky
    <3>1. PICK m : SendFromIsr(m) /\ m.event = "PLL_LOCK"
      BY <2>1, <2>4 DEF Msg
    <3>2. /\ Count("PLL_LOCK") \in Nat /\ Count("PLL_LOCK")' \in Nat
          /\ Count("PLL_LOCK")' <= Count("PLL_LOCK") + 1
          /\ Count("PLL_LOSS_LOCK") \in Nat
          /\ Count("PLL_LOSS_LOCK")' = Count("PLL_LOSS_LOCK")
      BY <3>1, SendCount
    <3>3. "PLL_LOCK" \in sticky /\ "PLL_LOCK" \in irqEn
      BY <2>2, <2>4 DEF PendingIrqs
    <3> QED
      BY <1>1, <2>2, <2>4, <3>2, <3>3 DEF Bit
  <2> QED
    BY <2>3, <2>4
<1>3. CASE CtrlUpdIsr \/ \E src \in LineSources : LineIsr(src)
  <2>1. PICK m : SendFromIsr(m) /\ m.event \notin PllSources
    <3>1. ASSUME NEW e \in CtrlSources \cup LineSources
          PROVE  Msg(e, NoTask, NoFreq).event \notin PllSources
      BY DEF Msg
    <3> QED
      BY <1>3, <3>1 DEF CtrlUpdIsr, LineIsr
  <2>2. \A e \in PllSources : Count(e) \in Nat /\ Count(e)' = Count(e)
    BY <2>1, SendCount
  <2>3. /\ \A e \in PllSources : e \in sticky' <=> e \in sticky
        /\ "PLL_LOCK" \in irqEn' <=> "PLL_LOCK" \in irqEn
    BY <1>3 DEF CtrlUpdIsr, LineIsr
  <2> QED
    BY <1>1, <2>2, <2>3 DEF Bit
<1> QED
  BY <1>2, <1>3 DEF IsrNext

LEMMA TaskEdge ==
  ASSUME IndInv, EdgeInv, TaskNext
  PROVE  EdgeInv'
<1>1. UNCHANGED <<fsmVars, devVars>>
  BY DEF TaskNext, MainCall, MainSend, MainRetry, MainReturn, PeriodicWake,
         PeriodicSend, PeriodicAnswer, PeriodicProceed, PeriodicExit,
         TimerFires, TimerAssert
<1>2. \A e \in PllSources : Count(e)' = Count(e)
  <2>1. CASE MainSend \/ PeriodicSend \/ PeriodicExit \/ TimerFires
    <3>1. PICK m : mq' = Append(mq, m) /\ m.event \notin PllSources
      BY <2>1 DEF IndInv, MainSend, PeriodicSend, PeriodicExit, TimerFires,
                  Msg, Callers
    <3> QED
      BY <3>1, AppendCount DEF IndInv
  <2>2. CASE UNCHANGED mq
    BY <2>2, SameCount
  <2> QED
    BY <2>1, <2>2 DEF TaskNext, MainCall, MainRetry, MainReturn, PeriodicWake,
                      PeriodicAnswer, PeriodicProceed, TimerAssert
<1> QED
  BY <1>1, <1>2 DEF EdgeInv

LEMMA EnvEdge ==
  ASSUME IndInv, ClockInv, AckInv, EdgeInv, EnvNext
  PROVE  EdgeInv'
<1> USE DEF IndInv, EdgeInv, McRaise, PllEdge
<1>1. /\ UNCHANGED <<mcFrame, irqEn>> /\ losses \in Nat
      /\ \A e : Count(e) \in Nat /\ Count(e)' = Count(e)
  BY SameCount, CountFacts
  DEF EnvNext, McInitStart, McInitLow, PllLocks, PllLoses, McInitComplete,
      McAckUpd, McAckMstr, McDropAck, McCtrlUpdAssert, McCtrlUpdDeassert
<1>2. CASE PllLocks
  BY <1>1, <1>2 DEF PllLocks, Bit
<1>3. CASE PllLoses
  BY <1>1, <1>3 DEF PllLoses, Bit
<1>4. CASE McInitLow
  <2>1. "PLL_LOCK" \notin irqEn
    BY <1>4 DEF McInitLow, AckInv, ClockInv, OneToken, Token, Draining
  <2> QED
    BY <1>1, <1>4, <2>1 DEF McInitLow, Bit
<1>5. CASE /\ UNCHANGED <<locked, losses>>
           /\ \A e \in PllSources : e \in sticky' <=> e \in sticky
  BY <1>1, <1>5
<1>6. CASE McInitStart \/ McInitComplete \/ McAckUpd \/ McAckMstr \/ McDropAck
           \/ McCtrlUpdAssert \/ McCtrlUpdDeassert
  BY <1>5, <1>6 DEF McInitStart, McInitComplete, McAckUpd, McAckMstr,
                    McDropAck, McCtrlUpdAssert, McCtrlUpdDeassert
<1> QED
  BY <1>2, <1>3, <1>4, <1>6 DEF EnvNext

LEMMA NextEdge ==
  ASSUME IndInv, ClockInv, AckInv, EdgeInv, [Next]_vars
  PROVE  EdgeInv'
<1>1. ASSUME UNCHANGED vars PROVE EdgeInv'
  BY <1>1, SameCount DEF vars, EdgeInv
<1> QED
  BY <1>1, FwEdge, IsrEdge, TaskEdge, EnvEdge DEF Next

LEMMA EdgeAlways == Spec => []EdgeInv
  BY InitEdge, NextEdge, ClockAlways, AckAlways, Invariance, PTL DEF Spec

-----------------------------------------------------------------------------
(* The room in the queue.  Where tasks wait their turn and the MC leaves   *)
(* CTRLUPD alone, a message of a task is the first in the queue.           *)
LEMMA InitQueue == Init => QueueInv
BY EmptySeq DEF Init, QueueInv

LEMMA FwQueueInv ==
  ASSUME IndInv, QueueInv, FwNext
  PROVE  QueueInv'
<1> USE DEF IndInv, QueueInv
<1>1. UNCHANGED mcLines /\ sticky' \cap CtrlSources \subseteq sticky
  <2>1. CASE BootReject \/ BootBegin \/ BootFail \/ BootPhy \/ BootStart
             \/ Dismiss \/ PrepBegin \/ PrepConfigure \/ PrepAssert
    BY <2>1 DEF BootReject, BootBegin, BootFail, BootPhy, BootStart, Dismiss,
                PrepBegin, PrepConfigure, PrepAssert
  <2>2. CASE PostSwitch \/ PendingBegin \/ SendMrw \/ AbortDisable
             \/ AbortDeassert \/ AbortDone \/ NoAbort \/ Release
    BY <2>2 DEF PostSwitch, PendingBegin, SendMrw, AbortDisable,
                AbortDeassert, AbortDone, NoAbort, Release
  <2>3. CASE UpdRequest \/ UpdBegin \/ UpdDeassert \/ UpdDone \/ MstrRequest
             \/ MstrEnter \/ MstrExit \/ MstrDone \/ CtrlUpdBegin
             \/ CtrlUpdEnter \/ CtrlUpdEnd
    BY <2>3 DEF UpdRequest, UpdBegin, UpdDeassert, UpdDone, MstrRequest,
                MstrEnter, MstrExit, MstrDone, CtrlUpdBegin, CtrlUpdEnter,
                CtrlUpdEnd
  <2> QED
    BY <2>1, <2>2, <2>3 DEF FwNext
<1>2. CASE Taken
  <2>1. /\ Len(mq) \in Nat /\ Len(mq') = Len(mq) - 1
        /\ \A i \in 1 .. Len(mq') : mq'[i] = mq[i + 1] /\ i + 1 \in 1 .. Len(mq)
    BY <1>2, TailMsgs DEF Taken
  <2>2. \A i \in 1 .. Len(mq') : mq'[i].event \in LineSources \cup PllSources
    BY <2>1
  <2> QED
    BY <1>1, <2>2
<1>3. CASE UNCHANGED mq
  BY <1>1, <1>3
<1> QED
  BY <1>2, <1>3, FwShape DEF Answered, Entered, Stepped, Finished

LEMMA IsrQueueInv ==
  ASSUME IndInv, QueueInv, IsrNext
  PROVE  QueueInv'
<1>1. UNCHANGED mcLines /\ sticky' \subseteq sticky
  BY DEF IsrNext, LineIsr, CtrlUpdIsr, PllIsr
<1>2. PICK m : SendFromIsr(m) /\ m.event \in LineSources \cup PllSources
  <2>1. \A e, from : Msg(e, from, NoFreq).event = e
    BY DEF Msg
  <2>2. ~CtrlUpdIsr
    BY DEF CtrlUpdIsr, PendingIrqs, QueueInv
  <2> QED
    BY <2>1, <2>2 DEF IsrNext, LineIsr, PllIsr
<1>3. CASE mq' = Append(mq, m)
  BY <1>1, <1>2, <1>3, AppendMsgs DEF QueueInv, IndInv
<1>4. CASE mq' = mq
  BY <1>1, <1>4 DEF QueueInv
<1> QED
  BY <1>2, <1>3, <1>4 DEF SendFromIsr

LEMMA TaskQueueInv ==
  ASSUME IndInv, QueueInv, TaskNext, ~TimerSlices
  PROVE  QueueInv'
<1>1. UNCHANGED devVars
  BY DEF TaskNext, MainCall, MainSend, MainRetry, MainReturn, PeriodicWake,
         PeriodicSend, PeriodicAnswer, PeriodicProceed, PeriodicExit,
         TimerFires, TimerAssert
<1>2. CASE MainSend \/ PeriodicSend \/ PeriodicExit \/ TimerFires
  <2>1. mq = <<>> /\ \E m : mq' = Append(mq, m)
    BY <1>2
    DEF MainSend, PeriodicSend, PeriodicExit, TimerFires, TimerMayRun,
        PeriodicMayRun, Blocked
  <2>2. \A i \in 1 .. Len(mq') : i = 1
    BY <2>1, AppendMsgs DEF IndInv
  <2> QED
    BY <1>1, <2>2 DEF QueueInv
<1>3. CASE UNCHANGED mq
  BY <1>1, <1>3 DEF QueueInv
<1> QED
  BY <1>2, <1>3 DEF TaskNext, MainCall, MainRetry, MainReturn, PeriodicWake,
                    PeriodicAnswer, PeriodicProceed, TimerAssert

LEMMA EnvQueueInv ==
  ASSUME QueueInv, EnvNext, ~McCtrlUpd
  PROVE  QueueInv'
<1> USE DEF QueueInv, McRaise, PllEdge
<1>1. CASE McInitStart \/ McInitLow \/ PllLocks \/ PllLoses \/ McInitComplete
  BY <1>1 DEF McInitStart, McInitLow, PllLocks, PllLoses, McInitComplete
<1>2. CASE McAckUpd \/ McAckMstr \/ McDropAck \/ McCtrlUpdAssert
           \/ McCtrlUpdDeassert
  BY <1>2 DEF McAckUpd, McAckMstr, McDropAck, McCtrlUpdAssert, McCtrlUpdDeassert
<1> QED
  BY <1>1, <1>2 DEF EnvNext

LEMMA QueueAlways ==
  ASSUME ~TimerSlices, ~McCtrlUpd
  PROVE  Spec => []QueueInv
<1>1. IndInv /\ QueueInv /\ [Next]_vars => QueueInv'
  <2>1. ASSUME QueueInv, UNCHANGED vars PROVE QueueInv'
    BY <2>1 DEF vars, QueueInv
  <2> QED
    BY <2>1, FwQueueInv, IsrQueueInv, TaskQueueInv, EnvQueueInv DEF Next
<1>2. Init => QueueInv
  BY InitQueue
<1> QED
  BY <1>1, <1>2, Invariance, PTL DEF Spec

(* A grant of mastership comes outside a switch, and then neither an       *)
(* INIT_START nor an acknowledge of an update is queued with it.           *)
LEMMA LineMsgs ==
  ASSUME IndInv, ClockInv, AckInv, McInv
  PROVE  Count("INIT_START") + Count("PHYUPD_ACK") + Count("PHYMSTR_ACK") <= 2
<1>1. /\ Count("INIT_START") \in 0 .. 1 /\ Count("PHYUPD_ACK") \in 0 .. 1
      /\ Count("PHYMSTR_ACK") \in 0 .. 1
  BY CountFacts DEF IndInv, ClockInv, OneToken, AckInv
<1>2. CASE ~Queued("PHYMSTR_ACK")
  <2>1. Count("PHYMSTR_ACK") = 0
    BY <1>2, CountFacts DEF IndInv
  <2> QED
    BY <1>1, <2>1
<1>3. CASE Queued("PHYMSTR_ACK")
  <2>1. dfi = "PhyMstrPending" /\ mcSwitch = "none"
    BY <1>3 DEF McInv, AckHeld
  <2>2. ~Queued("INIT_START")
    BY <2>1 DEF ClockInv, OneToken, Token
  <2>3. Count("INIT_START") = 0
    BY <2>2, CountFacts DEF IndInv
  <2> QED
    BY <1>1, <2>3
<1> QED
  BY <1>2, <1>3

LEMMA UnionBound ==
  ASSUME NEW S, NEW T, IsFiniteSet(S), IsFiniteSet(T)
  PROVE  /\ IsFiniteSet(S \cup T)
         /\ Cardinality(S \cup T) <= Cardinality(S) + Cardinality(T)
<1>1. /\ Cardinality(S) \in Nat /\ Cardinality(T) \in Nat
      /\ IsFiniteSet(S \cap T)
  BY FS_CardinalityType, FS_Subset
<1>2. Cardinality(S \cap T) \in Nat
  BY <1>1, FS_CardinalityType
<1> QED
  BY <1>1, <1>2, FS_Union

LEMMA QueueBound ==
  ASSUME IndInv, ClockInv, AckInv, McInv, EdgeInv, QueueInv
  PROVE  Len(mq) <= 4 + 2 * losses
<1> DEFINE Lines == Places("INIT_START") \cup Places("PHYUPD_ACK")
                      \cup Places("PHYMSTR_ACK")
           Locks == Places("PLL_LOCK") \cup Places("PLL_LOSS_LOCK")
<1>1. QueueOK /\ losses \in Nat /\ Len(mq) \in Nat
  BY DEF IndInv, QueueOK
<1>2. \A e : IsFiniteSet(Places(e)) /\ Count(e) \in Nat
             /\ Count(e) = Cardinality(Places(e))
  BY <1>1, CountFacts DEF Count
<1>3. 1 .. Len(mq) \subseteq {1} \cup (Lines \cup Locks)
  BY DEF QueueInv, Places
<1>4. /\ IsFiniteSet(Lines) /\ Cardinality(Lines) \in Nat
      /\ Cardinality(Lines) <= 2
  <2>1. /\ IsFiniteSet(Places("INIT_START") \cup Places("PHYUPD_ACK"))
        /\ Cardinality(Places("INIT_START") \cup Places("PHYUPD_ACK"))
             <= Count("INIT_START") + Count("PHYUPD_ACK")
    BY <1>2, UnionBound
  <2>2. /\ IsFiniteSet(Lines)
        /\ Cardinality(Lines)
             <= Cardinality(Places("INIT_START") \cup Places("PHYUPD_ACK"))
                + Count("PHYMSTR_ACK")
    BY <1>2, <2>1, UnionBound
  <2>3. /\ Cardinality(Lines) \in Nat
        /\ Cardinality(Places("INIT_START") \cup Places("PHYUPD_ACK")) \in Nat
    BY <2>1, <2>2, FS_CardinalityType
  <2> HIDE DEF Lines
  <2> QED
    BY <1>2, <2>1, <2>2, <2>3, LineMsgs
<1>5. /\ IsFiniteSet(Locks) /\ Cardinality(Locks) \in Nat
      /\ Cardinality(Locks) <= 1 + 2 * losses
  <2>1. /\ IsFiniteSet(Locks)
        /\ Cardinality(Locks) <= Count("PLL_LOCK") + Count("PLL_LOSS_LOCK")
    BY <1>2, UnionBound
  <2>2. Cardinality(Locks) \in Nat
    BY <2>1, FS_CardinalityType
  <2>3. /\ Count("PLL_LOCK") \in Nat /\ Count("PLL_LOCK") <= 1 + losses
        /\ Count("PLL_LOSS_LOCK") \in Nat /\ Count("PLL_LOSS_LOCK") <= losses
    BY <1>1, <1>2 DEF EdgeInv, Bit
  <2> HIDE DEF Locks
  <2> QED
    BY <1>1, <2>1, <2>2, <2>3
<1> HIDE DEF Lines, Locks
<1>6. /\ IsFiniteSet(Lines \cup Locks)
      /\ Cardinality(Lines \cup Locks) <= Cardinality(Lines) + Cardinality(Locks)
  BY <1>4, <1>5, UnionBound
<1>7. /\ IsFiniteSet({1} \cup (Lines \cup Locks))
      /\ Cardinality({1} \cup (Lines \cup Locks))
           <= 1 + Cardinality(Lines \cup Locks)
  BY <1>6, UnionBound, FS_Singleton
<1>8. Cardinality(1 .. Len(mq)) = Len(mq)
  <2>1. 1 \in Int /\ Len(mq) \in Int /\ (1 > Len(mq) => Len(mq) = 0)
    BY <1>1
  <2>2. Cardinality(1 .. Len(mq)) =
          IF 1 > Len(mq) THEN 0 ELSE Len(mq) - 1 + 1
    BY <2>1, FS_Interval
  <2> QED
    BY <1>1, <2>1, <2>2
<1>9. Len(mq) <= Cardinality({1} \cup (Lines \cup Locks))
  BY <1>3, <1>7, <1>8, FS_Subset
<1>10. /\ Cardinality(Lines \cup Locks) \in Nat
       /\ Cardinality({1} \cup (Lines \cup Locks)) \in Nat
  BY <1>6, <1>7, FS_CardinalityType
<1> QED
  BY <1>1, <1>4, <1>5, <1>6, <1>7, <1>9, <1>10

(* A queue with two slots for each loss of lock and five more is never     *)
(* full, so that no event of an interrupt is lost, with a timer that does  *)
(* not preempt a handler and an MC that leaves CTRLUPD alone: there is one *)
(* message of a task, one INIT_START or grant of mastership, one           *)
(* acknowledge of an update, one lock, and one loss and one more lock for  *)
(* each time that the PLL lost it.                                         *)
THEOREM RoomCorrect ==
  ASSUME ~TimerSlices, ~McCtrlUpd, MsgQueueLen >= 5 + 2 * MaxLoss
  PROVE  Spec => []QueueHasRoom
<1>1. IndInv /\ ClockInv /\ AckInv /\ McInv /\ EdgeInv /\ QueueInv => QueueHasRoom
  <2> SUFFICES ASSUME IndInv, ClockInv, AckInv, McInv, EdgeInv, QueueInv
               PROVE  QueueHasRoom
    OBVIOUS
  <2>1. /\ Len(mq) \in Nat /\ losses \in Nat /\ losses <= MaxLoss
        /\ MaxLoss \in Nat /\ MsgQueueLen \in Nat
    BY PhyTaskAssumption DEF PhyTaskAssumption, IndInv, QueueOK
  <2> QED
    BY <2>1, QueueBound DEF QueueHasRoom
<1> QED
  BY <1>1, ClockAlways, AckAlways, McAlways, EdgeAlways, QueueAlways,
     Invariance, PTL

-----------------------------------------------------------------------------
(* The lock that the PHY waits for.  In fswPending the firmware task takes *)
(* it from the queue to end the switch, and for nothing else.              *)
LEMMA LockTaken ==
  ASSUME IndInv, AcceptInv, FwNext, Taken, fsw = "Pending",
         Head(mq).event = "PLL_LOCK"
  PROVE  PostSwitch
<1> USE DEF FswReceive, DfiReceive, Receive, Taken
<1>1. ~Dismiss
  BY DEF IndInv, AcceptInv, Dismiss, Turned, FswMayRun, Reacts,
         FswTransitions, DfiEvents, FswEvents
<1>2. ~(BootReject \/ BootBegin \/ BootFail \/ BootPhy \/ BootStart)
  BY DEF BootReject, BootBegin, BootFail, BootPhy, BootStart
<1>3. ~(PrepBegin \/ PrepConfigure \/ PrepAssert \/ PendingBegin \/ SendMrw)
  BY DEF PrepBegin, PrepConfigure, PrepAssert, PendingBegin, SendMrw
<1>4. ~(AbortDisable \/ AbortDeassert \/ AbortDone \/ NoAbort \/ Release)
  BY DEF AbortDisable, AbortDeassert, AbortDone, NoAbort, Release
<1>5. ~(UpdRequest \/ UpdBegin \/ UpdDeassert \/ UpdDone \/ MstrRequest)
  BY DEF UpdRequest, UpdBegin, UpdDeassert, UpdDone, MstrRequest
<1>6. ~(MstrEnter \/ MstrExit \/ MstrDone)
  BY DEF MstrEnter, MstrExit, MstrDone
<1>7. ~(CtrlUpdBegin \/ CtrlUpdEnter \/ CtrlUpdEnd)
  BY DEF CtrlUpdBegin, CtrlUpdEnter, CtrlUpdEnd
<1> QED
  BY <1>1, <1>2, <1>3, <1>4, <1>5, <1>6, <1>7 DEF FwNext

(* However often the PLL loses its lock: while the PHY waits in fswPending *)
(* a lock is latched at an enabled interrupt or queued, and only           *)
(* pll_irq_handler loses it, with a loss of lock latched or a full queue.  *)
(* Neither an interrupt armed after the lock nor a message that is refused *)
(* does.                                                                   *)
THEOREM LockCorrect == Spec => LockIsKept
<1> DEFINE Gone == ~Unheard /\ Unheard'
           Why  == /\ "PLL_LOCK" \in sticky \ sticky'
                   /\ "PLL_LOSS_LOCK" \in sticky \/ Len(mq) = MsgQueueLen
<1>1. /\ Reported <=> "PLL_LOCK" \in irqEn \cap sticky \/ Queued("PLL_LOCK")
      /\ Reported' <=> "PLL_LOCK" \in irqEn' \cap sticky' \/ Queued("PLL_LOCK")'
  BY DEF Reported, Queued
<1>2. IndInv /\ AcceptInv /\ EdgeInv /\ [Next]_vars => [Gone => Why]_vars
  <2> SUFFICES ASSUME IndInv, AcceptInv, EdgeInv, Next, Gone PROVE Why
    OBVIOUS
  <2>1. /\ fsw' = "Pending" /\ locked' /\ ~Reported'
        /\ fsw = "Pending" /\ locked => Reported
    BY DEF Unheard
  <2> HIDE DEF Gone
  <2> USE DEF EdgeInv
  <2>2. ~FwNext
    <3> SUFFICES ASSUME FwNext PROVE FALSE
      OBVIOUS
    <3>1. CASE Release
      BY <1>1, <2>1, <3>1, FwPll DEF Release
    <3>2. CASE PostSwitch
      BY <2>1, <3>2, FswTargets DEF PostSwitch, FswReceive
    <3>3. CASE ~PostSwitch
               /\ (fsw' = "Pending" => fsw = "Pending")
               /\ ("PLL_LOCK" \in irqEn' <=> "PLL_LOCK" \in irqEn)
               /\ \A e \in PllSources : e \in sticky' <=> e \in sticky
      <4>1. fsw = "Pending" /\ Queued("PLL_LOCK")
        BY <1>1, <2>1, <3>3, FwPll
      <4>2. Taken /\ Head(mq).event = "PLL_LOCK"
        BY <1>1, <2>1, <4>1, FwQueue DEF IndInv
      <4> QED
        BY <3>3, <4>1, <4>2, LockTaken
    <3> QED
      BY <3>1, <3>2, <3>3, FwPll
  <2>3. CASE IsrNext
    <3>1. UNCHANGED isrFrame
      BY <2>3 DEF IsrNext, LineIsr, CtrlUpdIsr, PllIsr
    <3>2. \A m : SendFromIsr(m) => (Queued("PLL_LOCK") => Queued("PLL_LOCK")')
      BY SendQueue DEF IndInv
    <3>3. CASE PllIsr
      <4>1. PICK from \in StackGarbage :
              SendFromIsr(Msg(IF "PLL_LOSS_LOCK" \in sticky THEN "PLL_LOSS_LOCK"
                              ELSE "PLL_LOCK", from, NoFreq))
        BY <3>3 DEF PllIsr
      <4>2. "PLL_LOCK" \in sticky \ sticky'
        BY <1>1, <2>1, <3>1, <3>2, <3>3, <4>1 DEF PllIsr
      <4>3. ASSUME "PLL_LOSS_LOCK" \notin sticky PROVE Len(mq) = MsgQueueLen
        <5>1. PICK m : SendFromIsr(m) /\ m.event = "PLL_LOCK"
          BY <4>1, <4>3 DEF Msg
        <5>2. mq' # Append(mq, m)
          BY <1>1, <2>1, <5>1, AppendQueue DEF IndInv
        <5>3. ~(Len(mq) < MsgQueueLen)
          BY <5>1, <5>2 DEF SendFromIsr
        <5> QED
          BY <5>3, PhyTaskAssumption DEF IndInv, QueueOK, PhyTaskAssumption
      <4> QED
        BY <4>2, <4>3
    <3>4. CASE CtrlUpdIsr \/ \E src \in LineSources : LineIsr(src)
      <4>1. (\E m : SendFromIsr(m))
        BY <3>4 DEF CtrlUpdIsr, LineIsr
      <4>2. /\ "PLL_LOCK" \in sticky => "PLL_LOCK" \in sticky'
            /\ "PLL_LOCK" \in irqEn => "PLL_LOCK" \in irqEn'
        BY <3>4 DEF CtrlUpdIsr, LineIsr
      <4> QED
        BY <1>1, <2>1, <3>1, <3>2, <4>1, <4>2
    <3> QED
      BY <2>3, <3>3, <3>4 DEF IsrNext
  <2>4. ~TaskNext
    <3> SUFFICES ASSUME TaskNext PROVE FALSE
      OBVIOUS
    <3>1. /\ UNCHANGED <<fsmVars, devVars>>
          /\ (\E m : mq' = Append(mq, m)) \/ UNCHANGED mq
      BY DEF TaskNext, MainCall, MainSend, MainRetry, MainReturn, PeriodicWake,
             PeriodicSend, PeriodicAnswer, PeriodicProceed, PeriodicExit,
             TimerFires, TimerAssert
    <3>2. Queued("PLL_LOCK") => Queued("PLL_LOCK")'
      BY <3>1, AppendQueue, SameQueue DEF IndInv
    <3> QED
      BY <1>1, <2>1, <3>1, <3>2
  <2>5. ~EnvNext
    <3> SUFFICES ASSUME EnvNext PROVE FALSE
      OBVIOUS
    <3> USE DEF McRaise, PllEdge
    <3>1. UNCHANGED <<mcFrame, irqEn>> /\ Queued("PLL_LOCK")' = Queued("PLL_LOCK")
      BY SameQueue
      DEF EnvNext, McInitStart, McInitLow, PllLocks, PllLoses, McInitComplete,
          McAckUpd, McAckMstr, McDropAck, McCtrlUpdAssert, McCtrlUpdDeassert
    <3>2. /\ "PLL_LOCK" \in sticky => "PLL_LOCK" \in sticky'
          /\ locked' => locked \/ ("PLL_LOCK" \in irqEn => "PLL_LOCK" \in sticky')
      BY DEF EnvNext, McInitStart, McInitLow, PllLocks, PllLoses,
             McInitComplete, McAckUpd, McAckMstr, McDropAck, McCtrlUpdAssert,
             McCtrlUpdDeassert
    <3> QED
      BY <1>1, <2>1, <3>1, <3>2
  <2> QED
    BY <2>2, <2>3, <2>4, <2>5 DEF Next
<1> QED
  BY <1>2, AcceptAlways, EdgeAlways, Invariance, PTL DEF Spec, LockIsKept

-----------------------------------------------------------------------------
(* The host's preparation.                                                 *)
LEMMA TailHost ==
  ASSUME QueueOK, mq # <<>>, mq' = Tail(mq), UNCHANGED main, HostMsgs
  PROVE  /\ HostMsgs'
         /\ Head(mq).event = "PREP" => Head(mq).from = Main
         /\ Head(mq).event \in {"BOOT", "PREP"} =>
              main.ph = "wait" /\ main.op = Head(mq).event
         /\ Head(mq).from = Main =>
              \/ Head(mq).event \in {"BOOT", "PREP"}
              \/ Head(mq).event = "PLL_LOCK" /\ MaxLoss = 0
BY TailMsgs DEF HostMsgs

LEMMA SameHost ==
  ASSUME UNCHANGED <<mq, main>>
  PROVE  HostMsgs' = HostMsgs
BY DEF HostMsgs

(* Both in the queue and in a handler, what is signed by the main task is  *)
(* its call, or a lock while a switch is under way.                        *)
LEMMA FwHost ==
  ASSUME IndInv, ClockInv, HostInv, MaxLoss = 0 => LockInv, FwNext
  PROVE  HostInv'
<1> USE DEF IndInv
<1>1. UNCHANGED taskVars
  BY FwShape
<1>2. Queued("INIT_START")' => Queued("INIT_START")
  BY FwQueue
<1>3. CASE Taken
  <2>1. /\ HostMsgs'
        /\ Head(mq).event = "PREP" => Head(mq).from = Main
        /\ Head(mq).event \in {"BOOT", "PREP"} =>
             main.ph = "wait" /\ main.op = Head(mq).event
        /\ Head(mq).from = Main =>
             \/ Head(mq).event \in {"BOOT", "PREP"}
             \/ Head(mq).event = "PLL_LOCK" /\ MaxLoss = 0
    BY <1>1, <1>3, TailHost DEF Taken, HostInv
  <2>2. /\ Head(mq).event = "INIT_START" => Queued("INIT_START")
        /\ Head(mq).event = "PLL_LOCK" /\ MaxLoss = 0 => mcSwitch # "none"
    BY <1>3, FwQueue DEF LockInv, ClockInv, OneToken, Token, Draining
  <2>3. pc = "receive" /\ cur.from # Main
    BY <1>3 DEF Taken, NoMsg, NoTask, Main
  <2> USE DEF HostInv, ClockInv, OneToken, Token, Draining, FswReceive,
              DfiReceive, Receive, Tasks, NoMsg
  <2>4. CASE BootReject \/ BootBegin
    BY <1>1, <1>2, <2>1, <2>2, <2>3, <2>4 DEF BootReject, BootBegin
  <2>5. CASE Dismiss
    <3>1. UNCHANGED still
      BY <2>5 DEF Dismiss
    <3>2. CASE \/ Turned(FswEvents \cup DfiEvents, "FAILURE")
               \/ Turned(FswEvents, "RETRY") \/ Turned(DfiEvents, "RETRY")
      BY <1>1, <1>2, <2>1, <2>2, <2>3, <3>1, <3>2 DEF Turned
    <3>3. CASE Turned({e \in FswEvents : ~Reacts(FswTransitions, fsw, e)},
                      "SUCCESS")
      <4>1. fsw = "Prep" => Reacts(FswTransitions, fsw, "PREP")
        BY DEF Reacts, FswTransitions
      <4> QED
        BY <1>1, <1>2, <2>1, <2>2, <2>3, <3>1, <3>3, <4>1 DEF Turned
    <3>4. CASE Turned({e \in DfiEvents : ~Reacts(DfiTransitions, dfi, e)},
                      "SUCCESS")
      <4>1. "PREP" \notin DfiEvents
        BY DEF DfiEvents
      <4> QED
        BY <1>1, <1>2, <2>1, <2>2, <2>3, <3>1, <3>4, <4>1 DEF Turned
    <3> QED
      BY <2>5, <3>2, <3>3, <3>4 DEF Dismiss
  <2>6. CASE PrepBegin
    BY <1>1, <1>2, <2>1, <2>2, <2>3, <2>6 DEF PrepBegin
  <2>7. CASE PostSwitch
    BY <1>1, <1>2, <2>1, <2>2, <2>3, <2>7, FswTargets DEF PostSwitch
  <2>8. CASE PendingBegin
    BY <1>1, <1>2, <2>1, <2>2, <2>3, <2>8 DEF PendingBegin
  <2>9. CASE UpdRequest \/ UpdBegin \/ MstrRequest \/ MstrEnter \/ MstrExit
    BY <1>1, <1>2, <2>1, <2>2, <2>3, <2>9
    DEF UpdRequest, UpdBegin, MstrRequest, MstrEnter, MstrExit
  <2>10. CASE CtrlUpdBegin \/ CtrlUpdEnd
    BY <1>1, <1>2, <2>1, <2>2, <2>3, <2>10 DEF CtrlUpdBegin, CtrlUpdEnd
  <2> QED
    BY <1>3, <2>4, <2>5, <2>6, <2>7, <2>8, <2>9, <2>10
    DEF FwNext, Taken, BootFail, BootPhy, BootStart, PrepConfigure,
        PrepAssert, SendMrw, AbortDisable, AbortDeassert, AbortDone, NoAbort,
        Release, UpdDeassert, UpdDone, MstrDone, CtrlUpdEnter
<1>4. CASE UNCHANGED mq /\ pc # "receive"
  <2>1. HostMsgs'
    BY <1>1, <1>4, SameHost DEF HostInv
  <2> USE DEF HostInv, ClockInv, OneToken, Token, Draining, Receive,
              FswReceive, DfiReceive, Tasks, NoMsg, NoTask, Main
  <2>2. CASE BootFail \/ BootPhy \/ BootStart
    <3> USE DEF OnlyWhenReady
    <3>1. CASE BootFail
      BY <1>1, <1>2, <2>1, <3>1 DEF BootFail
    <3>2. CASE BootPhy
      BY <1>1, <1>2, <2>1, <3>2 DEF BootPhy
    <3>3. CASE BootStart
      <4>1. notify'[Main] = notify[Main] \/ main.op = "BOOT"
        BY <3>3 DEF BootStart
      <4>2. /\ pc' = "receive" /\ cur' = NoMsg /\ pc = "boot_start"
            /\ UNCHANGED <<fsw, sticky, mcSwitch, hwVco, pll, switchVars>>
        BY <3>3 DEF BootStart
      <4> QED
        BY <1>1, <1>2, <2>1, <4>1, <4>2
    <3> QED
      BY <2>2, <3>1, <3>2, <3>3
  <2>3. CASE PrepConfigure \/ PrepAssert
    BY <1>1, <1>2, <2>1, <2>3, FswTargets DEF PrepConfigure, PrepAssert
  <2>4. CASE SendMrw \/ NoAbort
    BY <1>1, <1>2, <2>1, <2>4 DEF SendMrw, NoAbort
  <2>5. CASE AbortDisable \/ AbortDeassert \/ AbortDone
    BY <1>1, <1>2, <2>1, <2>5 DEF AbortDisable, AbortDeassert, AbortDone
  <2>6. CASE Release
    BY <1>1, <1>2, <2>1, <2>6, FswTargets DEF Release
  <2>7. CASE UpdDeassert \/ UpdDone \/ MstrDone \/ CtrlUpdEnter
    BY <1>1, <1>2, <2>1, <2>7 DEF UpdDeassert, UpdDone, MstrDone, CtrlUpdEnter
  <2> QED
    BY <1>4, <2>2, <2>3, <2>4, <2>5, <2>6, <2>7
    DEF FwNext, Dismiss, Turned, BootReject, BootBegin, PrepBegin, PostSwitch,
        PendingBegin, UpdRequest, UpdBegin, MstrRequest, MstrEnter, MstrExit,
        CtrlUpdBegin, CtrlUpdEnd
<1> QED
  BY <1>3, <1>4, FwShape DEF Answered, Entered, Stepped, Finished

LEMMA IsrHost ==
  ASSUME IndInv, HostInv, MaxLoss = 0 => LockInv, IsrNext,
         MaxLoss = 0 \/ Main \notin StackGarbage
  PROVE  HostInv'
<1> USE DEF IndInv
<1>1. UNCHANGED isrFrame
  BY DEF IsrNext, LineIsr, CtrlUpdIsr, PllIsr
<1>2. PICK m : /\ SendFromIsr(m)
               /\ m.event \notin {"BOOT", "PREP"}
               /\ m.from = Main => m.event = "PLL_LOCK" /\ MaxLoss = 0
               /\ m.event = "INIT_START" => "INIT_START" \in sticky
  <2>1. ASSUME NEW e \in Sources, NEW from
        PROVE  /\ Msg(e, from, NoFreq).from = from
               /\ Msg(e, from, NoFreq).event = e /\ e \notin {"BOOT", "PREP"}
    BY DEF Msg
  <2>2. CASE (\E src \in LineSources : LineIsr(src)) \/ CtrlUpdIsr
    BY <2>1, <2>2 DEF LineIsr, CtrlUpdIsr, PendingIrqs, NoTask, Main
  <2>3. CASE PllIsr
    BY <2>1, <2>3 DEF PllIsr, LockInv
  <2> QED
    BY <2>2, <2>3 DEF IsrNext
<1>3. HostMsgs'
  <2>1. CASE mq' = Append(mq, m)
    BY <1>1, <1>2, <2>1, AppendMsgs DEF HostInv, HostMsgs
  <2>2. CASE mq' = mq
    BY <1>1, <2>2, SameHost DEF HostInv
  <2> QED
    BY <1>2, <2>1, <2>2 DEF SendFromIsr
<1>4. Token' => Token
  <2>1. Queued("INIT_START")' => Queued("INIT_START") \/ "INIT_START" \in sticky
    BY <1>2, SendQueue
  <2>2. sticky' \subseteq sticky
    BY DEF IsrNext, LineIsr, CtrlUpdIsr, PllIsr
  <2> QED
    BY <1>1, <2>1, <2>2 DEF Token, Draining
<1> QED
  BY <1>1, <1>3, <1>4 DEF HostInv, Draining

LEMMA TaskHost ==
  ASSUME IndInv, HostInv, TaskNext, HostSerialises
  PROVE  HostInv'
<1> USE DEF IndInv
<1>1. UNCHANGED <<fsmVars, fwVars, devVars>>
  BY DEF TaskNext, MainCall, MainSend, MainRetry, MainReturn, PeriodicWake,
         PeriodicSend, PeriodicAnswer, PeriodicProceed, PeriodicExit,
         TimerFires, TimerAssert
<1>2. Token' => Token
  <2>1. Queued("INIT_START")' => Queued("INIT_START")
    BY TaskQueue DEF IrqEvents
  <2> QED
    BY <1>1, <2>1 DEF Token, Draining
<1>3. Blocked => mq = <<>> /\ cur.from # Main /\ pc = "receive"
  BY DEF Blocked, NoMsg, NoTask, Main
<1> USE DEF HostInv, Draining
<1>4. CASE MainCall
  <2>1. HostMsgs'
    BY <1>3, <1>4, EmptySeq DEF MainCall, HostMsgs
  <2>2. /\ notify'[Main] = NoResp
        /\ main'.op = "PREP" => mcSwitch = "none"
    <3>1. CASE main' = [IdleCaller EXCEPT !.ph = "send", !.tries = 1]
      BY <1>4, <3>1 DEF MainCall, IdleCaller, Tasks
    <3>2. CASE main' # [IdleCaller EXCEPT !.ph = "send", !.tries = 1]
      BY <1>4, <3>2 DEF MainCall, Tasks
    <3> QED
      BY <3>1, <3>2
  <2> QED
    BY <1>1, <1>2, <1>3, <1>4, <2>1, <2>2 DEF MainCall, NoResp
<1>5. CASE MainSend
  <2> DEFINE m == Msg(main.op, Main, main.freq)
  <2>1. /\ m.event = main.op /\ m.from = Main
        /\ main.op \in {"BOOT", "PREP"}
        /\ main'.ph = "wait" /\ main'.op = main.op
    BY <1>5 DEF MainSend, Msg, Callers
  <2>2. \A i \in 1 .. Len(mq') : mq'[i] = m
    BY <1>3, <1>5, AppendMsgs DEF MainSend
  <2>3. HostMsgs'
    BY <2>1, <2>2 DEF HostMsgs
  <2> QED
    BY <1>1, <1>2, <1>3, <1>5, <2>1, <2>3 DEF MainSend
<1>6. CASE MainRetry
  <2>1. HostMsgs'
    BY <1>3, <1>6, EmptySeq DEF MainRetry, HostMsgs
  <2>2. /\ notify'[Main] = NoResp
        /\ main'.ph = "send" /\ main'.op = main.op /\ main.ph = "wait"
    BY <1>6 DEF MainRetry, Tasks, Callers
  <2> QED
    BY <1>1, <1>2, <1>3, <1>6, <2>1, <2>2 DEF MainRetry, NoResp
<1>7. CASE MainReturn
  <2>1. HostMsgs'
    BY <1>3, <1>7, EmptySeq DEF MainReturn, HostMsgs
  <2>2. main'.ph = "idle"
    BY <1>7 DEF MainReturn, IdleCaller
  <2>3. granted' => prepDone /\ bufFull /\ mcSwitch = "none"
    BY <1>7 DEF MainReturn
  <2> QED
    BY <1>1, <1>2, <1>3, <1>7, <2>1, <2>2, <2>3 DEF MainReturn
<1>8. CASE PeriodicSend \/ PeriodicExit \/ TimerFires
  <2>1. PICK m : /\ mq' = Append(mq, m) /\ m.from # Main
                 /\ m.event \notin {"BOOT", "PREP"}
    BY <1>8
    DEF PeriodicSend, PeriodicExit, TimerFires, Msg, Main, Periodic, NoTask
  <2>2. UNCHANGED <<main, granted, notify>>
    BY <1>8 DEF PeriodicSend, PeriodicExit, TimerFires
  <2>3. HostMsgs'
    BY <2>1, <2>2, AppendMsgs DEF HostMsgs
  <2> QED
    BY <1>1, <1>2, <2>2, <2>3
<1>9. CASE PeriodicWake \/ PeriodicAnswer \/ PeriodicProceed \/ TimerAssert
  <2>1. UNCHANGED <<mq, main, granted>> /\ notify'[Main] = notify[Main]
    BY <1>9 DEF PeriodicWake, PeriodicAnswer, PeriodicProceed, TimerAssert,
                Tasks, Main, Periodic
  <2> QED
    BY <1>1, <1>2, <2>1, SameHost
<1> QED
  BY <1>4, <1>5, <1>6, <1>7, <1>8, <1>9 DEF TaskNext

LEMMA EnvHost ==
  ASSUME IndInv, ClockInv, HostInv, EnvNext, HostSerialises
  PROVE  HostInv'
<1> USE DEF IndInv, HostInv, Token, Draining, McRaise, PllEdge
<1>1. /\ UNCHANGED <<mcFrame, main>> /\ HostMsgs'
      /\ Queued("INIT_START")' = Queued("INIT_START")
  BY SameQueue, SameHost
  DEF EnvNext, McInitStart, McInitLow, PllLocks, PllLoses, McInitComplete,
      McAckUpd, McAckMstr, McDropAck, McCtrlUpdAssert, McCtrlUpdDeassert
<1>2. CASE McInitStart
  BY <1>1, <1>2 DEF McInitStart
<1>3. CASE McInitLow
  BY <1>1, <1>3 DEF McInitLow, ClockInv, ClockFollows, OnlyWhenReady
<1>4. CASE PllLocks \/ PllLoses \/ McInitComplete
  BY <1>1, <1>4 DEF PllLocks, PllLoses, McInitComplete
<1>5. CASE McAckUpd \/ McAckMstr \/ McDropAck
  BY <1>1, <1>5 DEF McAckUpd, McAckMstr, McDropAck
<1>6. CASE McCtrlUpdAssert \/ McCtrlUpdDeassert
  BY <1>1, <1>6 DEF McCtrlUpdAssert, McCtrlUpdDeassert
<1> QED
  BY <1>2, <1>3, <1>4, <1>5, <1>6 DEF EnvNext

LEMMA InitHost == Init => HostInv
<1> SUFFICES ASSUME Init PROVE HostInv
  OBVIOUS
<1>1. HostMsgs /\ ~Queued("INIT_START")
  BY EmptySeq DEF Init, HostMsgs, Queued
<1> QED
  BY <1>1 DEF Init, HostInv, Token, Draining, NoMsg, NoTask, Main

LEMMA NextHost ==
  ASSUME IndInv, ClockInv, HostInv, MaxLoss = 0 => LockInv, [Next]_vars,
         HostSerialises, MaxLoss = 0 \/ Main \notin StackGarbage
  PROVE  HostInv'
<1>1. ASSUME UNCHANGED vars PROVE HostInv'
  BY <1>1, SameHost, SameQueue DEF vars, HostInv, Token, Draining
<1> QED
  BY <1>1, FwHost, IsrHost, TaskHost, EnvHost DEF Next

LEMMA HostAlways ==
  ASSUME HostSerialises, MaxLoss = 0 \/ Main \notin StackGarbage
  PROVE  Spec => []HostInv
<1> DEFINE Lock == MaxLoss = 0 => LockInv
<1>1. Spec => []Lock
  <2>1. CASE MaxLoss = 0
    <3>1. LockInv => Lock
      OBVIOUS
    <3> QED
      BY <2>1, <3>1, LockAlways, PTL
  <2>2. CASE MaxLoss # 0
    <3>1. Lock
      BY <2>2
    <3> QED
      BY <3>1, PTL
  <2> QED
    BY <2>1, <2>2
<1>2. IndInv /\ ClockInv /\ HostInv /\ Lock /\ [Next]_vars => HostInv'
  BY NextHost
<1> QED
  BY <1>1, <1>2, InitHost, ClockAlways, Invariance, PTL DEF Spec

(* A switch is entered with MRW packets in the buffer and a VCO to go to,  *)
(* when the host lets no PREP overlap with a switch of the MC's and no     *)
(* loss of lock is signed as the main task.                                *)
THEOREM SwitchPrepared ==
  ASSUME HostSerialises, MaxLoss = 0 \/ Main \notin StackGarbage
  PROVE  Spec => []SwitchIsPrepared
<1>1. IndInv /\ ClockInv /\ HostInv => SwitchIsPrepared
  <2> SUFFICES ASSUME IndInv, ClockInv, HostInv PROVE SwitchIsPrepared
    OBVIOUS
  <2>1. pc = "wait_init_low" => bufFull /\ prepDone
    BY DEF HostInv, Token, Draining
  <2>2. Draining => prepDone
    BY <2>1 DEF ClockInv, OneToken, ClockFollows, Token, Draining
  <2> QED
    BY <2>1, <2>2 DEF SwitchIsPrepared, ClockInv, ClockFollows, Draining
<1> QED
  BY <1>1, HostAlways, ClockAlways, Invariance, PTL

-----------------------------------------------------------------------------
(* The VCO that clocks the PHY.                                            *)
LEMMA PreparedSwitch ==
  ASSUME IndInv, ClockInv, VcoInv, HostInv, ready
  PROVE  /\ hwVco \in pll.enabled
         /\ hwVco = pll.current \/ hwVco = pll.next
         /\ pc = "prep" => hwVco = pll.current
         /\ fsw = "Pending" => hwVco = pll.next
<1>1. mcSwitch # "relocking" => hwVco = pll.current
  BY DEF ClockInv, ClockFollows, VcoInv
<1>2. mcSwitch = "relocking" =>
        (prepDone /\ hwVco = pll.next) \/ (~prepDone /\ hwVco = pll.current)
  BY DEF ClockInv, ClockFollows, HostInv
<1>3. mcSwitch \in {"none", "requested", "relocking"}
  BY DEF IndInv
<1>4. hwVco \in pll.enabled
  BY <1>1, <1>2, <1>3 DEF VcoInv, Configured, ClockInv, ClockFollows
<1>5. pc = "prep" => mcSwitch = "none"
  BY DEF HostInv
<1>6. fsw = "Pending" => prepDone /\ mcSwitch = "relocking"
  BY DEF ClockInv, OneToken, ClockFollows, Token, Draining, IndInv
<1> QED
  BY <1>1, <1>2, <1>3, <1>4, <1>5, <1>6

LEMMA PllMoves ==
  ASSUME Next
  PROVE  BootFail \/ BootPhy \/ PrepConfigure \/ PostSwitch \/ UNCHANGED pll
<1>1. CASE FwNext
  BY <1>1
  DEF FwNext, BootReject, BootBegin, BootStart, Dismiss, PrepBegin, PrepAssert,
      PendingBegin, SendMrw, AbortDisable, AbortDeassert, AbortDone, NoAbort,
      Release, UpdRequest, UpdBegin, UpdDeassert, UpdDone, MstrRequest,
      MstrEnter, MstrExit, MstrDone, CtrlUpdBegin, CtrlUpdEnter, CtrlUpdEnd
<1>2. CASE IsrNext
  BY <1>2 DEF IsrNext, LineIsr, CtrlUpdIsr, PllIsr
<1>3. CASE TaskNext
  BY <1>3
  DEF TaskNext, MainCall, MainSend, MainRetry, MainReturn, PeriodicWake,
      PeriodicSend, PeriodicAnswer, PeriodicProceed, PeriodicExit,
      TimerFires, TimerAssert
<1>4. CASE EnvNext
  BY <1>4
  DEF EnvNext, McInitStart, McInitLow, PllLocks, PllLoses, McInitComplete,
      McAckUpd, McAckMstr, McDropAck, McCtrlUpdAssert, McCtrlUpdDeassert
<1> QED
  BY <1>1, <1>2, <1>3, <1>4 DEF Next

(* Once the PHY is started no step turns the VCO that clocks it off or     *)
(* gives it another frequency: a preparation configures the other VCO, and *)
(* the post-switch work disables the one the hardware has left.            *)
THEOREM VcoUntouched ==
  ASSUME HostSerialises, MaxLoss = 0 \/ Main \notin StackGarbage
  PROVE  Spec => RunningVcoUntouched
<1> DEFINE Same == /\ hwVco \in pll'.enabled
                   /\ pll'.freq[hwVco] = pll.freq[hwVco]
           I == IndInv /\ ClockInv /\ VcoInv /\ HostInv
<1>1. I /\ [Next]_vars => [ready => Same]_vars
  <2> SUFFICES ASSUME I, Next, ready PROVE Same
    OBVIOUS
  <2>1. /\ hwVco \in pll.enabled
        /\ pc = "prep" => hwVco = pll.current
        /\ fsw = "Pending" => hwVco = pll.next
        /\ WellSet(pll) /\ pll \in Plls /\ hwVco \in Vcos
    BY PreparedSwitch, VcoIsWellSet DEF IndInv
  <2>2. CASE BootFail \/ BootPhy
    BY <2>2 DEF BootFail, BootPhy, IndInv
  <2>3. CASE PrepConfigure
    <3>1. hwVco = pll.current /\ FreeVco(pll) # hwVco
      BY <2>1, <2>3 DEF PrepConfigure, FreeVco
    <3> QED
      BY <2>1, <2>3, <3>1 DEF PrepConfigure, Prepare, Plls
  <2>4. CASE PostSwitch
    <3>1. hwVco = pll.next /\ pll.next # NoVco /\ pll.next # pll.current
      BY <2>1, <2>4, FswTargets
      DEF PostSwitch, FswReceive, WellSet, FreeVco, Vcos, PhyVcos, NoVco
    <3>2. /\ SwitchVco(pll).enabled = pll.enabled
          /\ SwitchVco(pll).freq = pll.freq
          /\ SwitchVco(pll).prev = pll.current
          /\ SwitchVco(pll) \in Plls
      BY <2>1, <3>1 DEF SwitchVco, Plls, Vcos
    <3>3. /\ DisableVco(SwitchVco(pll)).enabled = pll.enabled \ {pll.current}
          /\ DisableVco(SwitchVco(pll)).freq = pll.freq
      BY <3>2, <2>1 DEF DisableVco, Plls, Vcos, PhyVcos, NoVco
    <3> QED
      BY <2>1, <2>4, <3>1, <3>3 DEF PostSwitch
  <2>5. CASE UNCHANGED pll
    BY <2>1, <2>5
  <2> QED
    BY <2>2, <2>3, <2>4, <2>5, PllMoves
<1> QED
  BY <1>1, HostAlways, VcoAlways, ClockAlways, Invariance, PTL
  DEF Spec, RunningVcoUntouched

-----------------------------------------------------------------------------
(* The refinement of FreqSwitch, one lemma for each of its steps.          *)
SwitchInv == IndInv /\ ClockInv /\ VcoInv /\ McInv /\ HostInv

Requests == phyLines \ {"INIT_COMPLETE_OVR"}
Stutters == UNCHANGED <<booted, Phase, pll, hwVco, Requests>>

LEMMA InitSwitch == Init => Switch!Init
BY DEF Init, Switch!Init, Phase, BootedPll, Vcos

(* Outside a switch the PHY runs on the VCO the firmware believes in.      *)
LEMMA RunsOnCurrent ==
  ASSUME SwitchInv, booted, mcSwitch = "none"
  PROVE  hwVco = pll.current
BY DEF SwitchInv, ClockInv, ClockFollows

(* The boot is the only step that changes the clock by software.           *)
LEMMA BootRefines ==
  ASSUME SwitchInv, BootFail \/ BootPhy
  PROVE  Switch!Boot \/ Stutters
<1> USE DEF SwitchInv, IndInv
<1>1. ~prepDone /\ pll.next = NoVco /\ BootFreq \in Freqs
      /\ mcSwitch = "none"
  BY PhyTaskAssumption
  DEF ClockInv, OnlyWhenReady, ClockFollows, BootFail, BootPhy,
      PhyTaskAssumption
<1>2. pll' \in Plls /\ pll'.next = NoVco
  <2>1. SwSwitch(pll, BootFreq, booted) \in Plls
        /\ SwSwitch(pll, BootFreq, booted).next = NoVco
    BY <1>1, SwSwitchTyped, SwSwitchDone
  <2> DEFINE p == SwSwitch(pll, BootFreq, booted)
  <2>2. p \in Plls /\ p.next = NoVco
    BY <2>1
  <2> HIDE DEF p
  <2>3. /\ UntilPhy1(p, BootFreq, booted) \in Plls
        /\ UntilPhy1(p, BootFreq, booted).next = NoVco
    BY <1>1, <2>2, SwSwitchTyped, SwSwitchDone
  <2>4. pll' = p \/ pll' = UntilPhy1(p, BootFreq, booted)
    BY DEF BootFail, BootPhy, p
  <2> QED
    BY <2>2, <2>3, <2>4
<1>3. UNCHANGED <<Phase, Requests>>
  <2>1. UNCHANGED <<fsw, prepDone, phyLines \ {"INIT_COMPLETE_OVR"}>>
    <3>1. CASE BootFail
      BY <3>1 DEF BootFail
    <3>2. CASE BootPhy
      BY <3>2 DEF BootPhy
    <3> QED
      BY <3>1, <3>2
  <2>2. pc \notin DrainLabels /\ pc' \notin DrainLabels
    BY DEF BootFail, BootPhy
  <2>3. UNCHANGED Phase
    BY <2>1, <2>2 DEF Phase
  <2> QED
    BY <2>1, <2>3 DEF Requests
<1>4. hwVco' = pll'.current
  BY DEF BootFail, BootPhy
<1>5. CASE booted
  <2>1. UNCHANGED <<booted, pll>>
    BY <1>5 DEF BootFail, BootPhy, SwSwitch, UntilPhy1
  <2>2. UNCHANGED hwVco
    BY <1>1, <1>4, <1>5, <2>1, RunsOnCurrent
  <2> QED
    BY <1>3, <2>1, <2>2 DEF Stutters
<1>6. CASE ~booted
  <2>1. booted' \in BOOLEAN
    BY <1>6 DEF BootFail, BootPhy
  <2>2. pll'.current \in Vcos /\ pll'.freq \in [Vcos -> Freqs \cup {NoFreq}]
    BY <1>2 DEF Plls
  <2>3. UNCHANGED <<Phase, pll.next, phyLines \ {"INIT_COMPLETE_OVR"}>>
    BY <1>1, <1>2, <1>3 DEF Requests
  <2> QED
    BY <1>4, <1>6, <2>1, <2>2, <2>3 DEF Switch!Boot
<1> QED
  BY <1>5, <1>6

(* The host prepares nothing while a switch of the MC's is under way.      *)
LEMMA PrepareRefines ==
  ASSUME SwitchInv, PrepConfigure
  PROVE  Switch!Prepare
<1> USE DEF SwitchInv, IndInv
<1>1. booted /\ Phase \in {"idle", "prepared"} /\ Phase' = "prepared"
  BY FswTargets DEF PrepConfigure, Phase, ClockInv, OnlyWhenReady, VcoInv
<1>2. /\ pll'.next = FreeVco(pll) /\ pll'.current = pll.current
      /\ FreeVco(pll) \in Vcos \ {pll.current}
  BY PrepareNext DEF PrepConfigure, FreeVco, Vcos, PhyVcos
<1>3. hwVco = pll.current
  <2>1. mcSwitch = "none"
    BY DEF PrepConfigure, At, HostInv
  <2> QED
    BY <1>1, <2>1, RunsOnCurrent
<1>4. cur.freq \in Freqs
  BY PhyTaskAssumption DEF PrepConfigure, PhyTaskAssumption
<1>5. pll'.freq = [pll.freq EXCEPT ![pll'.next] = cur.freq]
  BY <1>2 DEF PrepConfigure, Prepare, Plls
<1> QED
  BY <1>1, <1>2, <1>3, <1>4, <1>5 DEF PrepConfigure, Switch!Prepare, Switch!Settled

(* The clock moves to the VCO prepared.                                    *)
LEMMA MoveRefines ==
  ASSUME SwitchInv, McInitLow
  PROVE  Switch!Move
<1> USE DEF SwitchInv, IndInv
<1>1. booted /\ hwVco = pll.current /\ pll.next # NoVco
  BY DEF McInitLow, ClockInv, OnlyWhenReady, ClockFollows, VcoInv
<1>2. Phase # "idle"
  BY DEF McInitLow, Phase
<1>3. hwVco' = pll.next
  BY <1>1 DEF McInitLow
<1>4. UNCHANGED <<booted, Phase, pll, phyLines>>
  BY DEF McInitLow, Phase
<1> QED
  BY <1>1, <1>2, <1>3, <1>4 DEF Switch!Move

LEMMA DrainRefines ==
  ASSUME SwitchInv, PendingBegin
  PROVE  Switch!Drain
<1> USE DEF SwitchInv, IndInv
<1>1. fsw = "Prep" /\ Head(mq).event = "INIT_START" /\ pc = "receive"
  BY FswTargets DEF PendingBegin, FswReceive, Receive
<1>2. Queued("INIT_START")
  BY <1>1, TailQueue DEF PendingBegin, FswReceive, Receive
<1>3. prepDone
  BY <1>1, <1>2 DEF HostInv, Token, Draining
<1> QED
  BY <1>1, <1>3 DEF PendingBegin, Phase, Switch!Drain

LEMMA LockRefines ==
  ASSUME SwitchInv, Release
  PROVE  Switch!Lock
<1> USE DEF SwitchInv, IndInv
<1>1. phyLines \ {"INIT_COMPLETE_OVR"} = {}
  <2>1. mcSwitch # "none"
    BY DEF Release, ClockInv, OneToken, Token, Draining
  <2>2. "PHYUPD_REQ" \notin phyLines /\ "PHYMSTR_REQ" \notin phyLines
    BY <2>1 DEF Release, McInv, AckHeld
  <2> QED
    BY <2>2
<1>2. (phyLines \ {"INIT_COMPLETE_OVR"})' = {}
  BY <1>1 DEF Release
<1>3. Phase = "draining" /\ Phase' = "locking"
  BY FswTargets DEF Release, Phase
<1> QED
  BY <1>1, <1>2, <1>3 DEF Release, Switch!Lock

(* The VCO that was prepared is the one the PHY runs on.                   *)
LEMMA CompleteRefines ==
  ASSUME SwitchInv, PostSwitch
  PROVE  Switch!Complete
<1> USE DEF SwitchInv, IndInv
<1>1. fsw = "Pending" /\ pc = "receive"
  BY FswTargets DEF PostSwitch, FswReceive, Receive
<1>2. pll.next # NoVco /\ hwVco = pll.next
  BY <1>1 DEF ClockInv, OneToken, ClockFollows, Token, Draining
<1>3. /\ pll'.current = pll.next /\ pll'.next = NoVco
      /\ pll'.freq = pll.freq
  <2>1. pll' = DisableVco(SwitchVco(pll))
    BY DEF PostSwitch
  <2>2. /\ SwitchVco(pll).current = pll.next
        /\ SwitchVco(pll).next = NoVco
        /\ SwitchVco(pll).freq = pll.freq
        /\ SwitchVco(pll) \in Plls
    BY <1>2 DEF SwitchVco, Plls, Vcos
  <2>3. /\ DisableVco(SwitchVco(pll)).current = SwitchVco(pll).current
        /\ DisableVco(SwitchVco(pll)).next = SwitchVco(pll).next
        /\ DisableVco(SwitchVco(pll)).freq = SwitchVco(pll).freq
    BY <2>2 DEF DisableVco, Plls
  <2> QED
    BY <2>1, <2>2, <2>3
<1>4. Phase = "locking" /\ Phase' = "idle"
  BY <1>1, FswTargets DEF PostSwitch, Phase
<1> QED
  BY <1>2, <1>3, <1>4 DEF PostSwitch, Switch!Complete

LEMMA RaiseRefines ==
  ASSUME SwitchInv, UpdRequest \/ MstrRequest
  PROVE  \E r \in {"PHYUPD_REQ", "PHYMSTR_REQ"} : Switch!Raise(r)
<1> USE DEF SwitchInv, IndInv, DfiReceive, DfiMayRun, Accepting, Receive
<1>1. booted /\ dfi = "Idle" /\ fsw # "Pending" /\ pc = "receive"
  BY DfiSources DEF UpdRequest, MstrRequest, VcoInv
<1>2. phyLines \ {"INIT_COMPLETE_OVR"} = {}
  BY <1>1
<1>3. PICK r \in {"PHYUPD_REQ", "PHYMSTR_REQ"} : phyLines' = phyLines \cup {r}
  BY DEF UpdRequest, MstrRequest
<1>4. (phyLines \ {"INIT_COMPLETE_OVR"})' = {r}
  BY <1>2, <1>3
<1>5. UNCHANGED <<fsw, pc, prepDone, booted, pll, hwVco>>
  BY DEF UpdRequest, MstrRequest
<1>6. Phase \in {"idle", "prepared"} /\ UNCHANGED Phase
  BY <1>1, <1>5 DEF Phase
<1> QED
  BY <1>1, <1>2, <1>4, <1>5, <1>6 DEF Switch!Raise, Switch!Settled

(* A request that was granted ends on the clock it was granted for: the MC *)
(* holds its acknowledge, and moves no clock while it does.                *)
LEMMA FinishRefines ==
  ASSUME SwitchInv, UpdDeassert \/ MstrExit
  PROVE  \/ \E r \in {"PHYUPD_REQ", "PHYMSTR_REQ"} : Switch!Finish(r)
         \/ Stutters
<1> USE DEF SwitchInv, IndInv
<1>1. PICK r \in {"PHYUPD_REQ", "PHYMSTR_REQ"} : phyLines' = phyLines \ {r}
  BY DEF UpdDeassert, MstrExit
<1>2. UNCHANGED <<Phase, booted, pll, hwVco>>
  BY DEF UpdDeassert, MstrExit, Phase, DfiReceive, Receive
<1>3. (phyLines \ {"INIT_COMPLETE_OVR"})' =
        (phyLines \ {"INIT_COMPLETE_OVR"}) \ {r}
  BY <1>1
<1>4. Phase \in {"idle", "prepared"}
  <2>1. CASE UpdDeassert
    BY <2>1 DEF UpdDeassert, At, Phase
  <2>2. CASE MstrExit
    BY <2>2 DEF MstrExit, DfiReceive, DfiMayRun, Receive, Phase
  <2> QED
    BY <2>1, <2>2
<1>5. booted
  BY DEF UpdDeassert, At, MstrExit, DfiReceive, DfiMayRun, Accepting,
         ClockInv, OnlyWhenReady, VcoInv
<1>6. McMayAckLate \/ mcSwitch = "none"
  <2>1. CASE UpdDeassert
    <3>1. pc = "update"
      BY <2>1 DEF UpdDeassert, At
    <3>2. SUFFICES ASSUME ~McMayAckLate
                   PROVE  mcSwitch = "none"
      OBVIOUS
    <3>3. AckHeld("PhyUpd") /\ "PHYUPD_ACK" \in mcLines
      BY <3>1, <3>2 DEF McInv
    <3> QED
      BY <3>3 DEF AckHeld, AckLine
  <2>2. CASE MstrExit
    <3>1. dfi = "PhyMstr" /\ pc = "receive"
      BY <2>2, DfiSources DEF MstrExit, DfiReceive, Receive
    <3>2. AckHeld("PhyMstrPending") /\ "PHYMSTR_ACK" \in mcLines
      BY <3>1 DEF McInv
    <3> QED
      BY <3>2 DEF AckHeld, AckLine
  <2> QED
    BY <2>1, <2>2
<1>7. hwVco = pll.current \/ McMayAckLate
  BY <1>5, <1>6, RunsOnCurrent
<1>8. CASE r \in phyLines
  BY <1>2, <1>3, <1>4, <1>7, <1>8 DEF Switch!Finish, Switch!Settled
<1>9. CASE r \notin phyLines
  BY <1>1, <1>2, <1>3, <1>9 DEF Stutters, Requests
<1> QED
  BY <1>8, <1>9

LEMMA AbortRefines ==
  ASSUME SwitchInv, AbortDeassert
  PROVE  \/ \E r \in {"PHYUPD_REQ", "PHYMSTR_REQ"} : Switch!Abort(r)
         \/ Stutters
<1> USE DEF SwitchInv, IndInv
<1>1. PICK r \in {"PHYUPD_REQ", "PHYMSTR_REQ"} : phyLines' = phyLines \ {r}
  BY DEF AbortDeassert, ReqLine
<1>2. UNCHANGED <<Phase, booted, pll, hwVco>>
  BY DEF AbortDeassert, Phase
<1>3. (phyLines \ {"INIT_COMPLETE_OVR"})' =
        (phyLines \ {"INIT_COMPLETE_OVR"}) \ {r}
  BY <1>1
<1>4. Phase = "draining"
  BY DEF AbortDeassert, Phase
<1>5. CASE r \in phyLines
  BY <1>2, <1>3, <1>4, <1>5 DEF Switch!Abort
<1>6. CASE r \notin phyLines
  BY <1>1, <1>2, <1>3, <1>6 DEF Stutters, Requests
<1> QED
  BY <1>5, <1>6

(* Every other step of the firmware task leaves the abstract state alone.  *)
LEMMA FwStutters ==
  ASSUME SwitchInv, FwNext
  PROVE  \/ BootFail \/ BootPhy \/ PrepConfigure \/ PendingBegin \/ Release
         \/ PostSwitch \/ UpdRequest \/ MstrRequest
         \/ AbortDeassert \/ UpdDeassert \/ MstrExit
         \/ Stutters
<1> USE DEF SwitchInv, IndInv, Stutters, Requests, Phase, Receive, FswReceive,
            DfiReceive
<1>1. CASE BootReject \/ BootBegin \/ BootStart \/ Dismiss
  <2>1. UNCHANGED <<booted, fsw, prepDone, pll, hwVco, phyLines>>
    <3>1. CASE BootReject \/ BootBegin
      BY <3>1 DEF BootReject, BootBegin
    <3>2. CASE BootStart
      BY <3>2 DEF BootStart
    <3>3. CASE Dismiss
      BY <3>3 DEF Dismiss
    <3> QED
      BY <1>1, <3>1, <3>2, <3>3
  <2>2. pc \notin DrainLabels /\ pc' \notin DrainLabels
    <3>1. CASE BootReject \/ BootBegin \/ BootStart
      BY <3>1 DEF BootReject, BootBegin, BootStart
    <3>2. CASE Dismiss
      BY <3>2 DEF Dismiss, Turned
    <3> QED
      BY <1>1, <3>1, <3>2
  <2> QED
    BY <2>1, <2>2
<1>2. CASE PrepBegin \/ PrepAssert
  BY <1>2 DEF PrepBegin, PrepAssert
<1>3. CASE SendMrw \/ AbortDisable \/ AbortDone \/ NoAbort
  BY <1>3 DEF SendMrw, AbortDisable, AbortDone, NoAbort
<1>4. CASE UpdBegin \/ UpdDone \/ MstrEnter \/ MstrDone
  BY <1>4 DEF UpdBegin, UpdDone, MstrEnter, MstrDone
<1>5. CASE CtrlUpdBegin \/ CtrlUpdEnter \/ CtrlUpdEnd
  BY <1>5 DEF CtrlUpdBegin, CtrlUpdEnter, CtrlUpdEnd
<1> QED
  BY <1>1, <1>2, <1>3, <1>4, <1>5 DEF FwNext

LEMMA OthersStutter ==
  ASSUME IsrNext \/ TaskNext \/ (EnvNext /\ ~McInitLow) \/ UNCHANGED vars
  PROVE  Stutters
<1>1. UNCHANGED <<booted, fsw, pc, prepDone, pll, hwVco, phyLines>>
  <2>1. CASE IsrNext \/ UNCHANGED vars
    BY <2>1 DEF IsrNext, LineIsr, CtrlUpdIsr, PllIsr, vars
  <2>2. CASE TaskNext
    BY <2>2
    DEF TaskNext, MainCall, MainSend, MainRetry, MainReturn, PeriodicWake,
        PeriodicSend, PeriodicAnswer, PeriodicProceed, PeriodicExit,
        TimerFires, TimerAssert
  <2>3. CASE EnvNext /\ ~McInitLow
    BY <2>3
    DEF EnvNext, McInitStart, PllLocks, PllLoses, McInitComplete,
        McAckUpd, McAckMstr, McDropAck, McCtrlUpdAssert, McCtrlUpdDeassert
  <2> QED
    BY <2>1, <2>2, <2>3
<1> QED
  BY <1>1 DEF Stutters, Phase, Requests

(* The firmware task with its interrupts, callers and MC switches the      *)
(* frequency as FreqSwitch says: prepared, drained of its requests, locked *)
(* on the VCO prepared, and only then running on it.                       *)
THEOREM SwitchRefined ==
  ASSUME HostSerialises, MaxLoss = 0 \/ Main \notin StackGarbage
  PROVE  Spec => ImplementsSwitch
<1>1. SwitchInv /\ [Next]_vars => [Switch!Next]_(Switch!vars)
  <2> SUFFICES ASSUME SwitchInv, [Next]_vars
               PROVE  Switch!Next \/ UNCHANGED Switch!vars
    OBVIOUS
  <2>1. Stutters => UNCHANGED Switch!vars
    BY DEF Stutters, Requests, Switch!vars
  <2> QED
    BY <2>1, BootRefines, PrepareRefines, DrainRefines, LockRefines,
       CompleteRefines, RaiseRefines, FinishRefines, AbortRefines, MoveRefines,
       FwStutters, OthersStutter
    DEF Next, Switch!Next
<1>2. Spec => []SwitchInv
  BY HostAlways, McAlways, VcoAlways, ClockAlways, Invariance, PTL
  DEF SwitchInv
<1> QED
  BY <1>1, <1>2, InitSwitch, PTL DEF Spec, ImplementsSwitch, Switch!Spec
=============================================================================
