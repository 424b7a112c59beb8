-------------------------- MODULE PhyClock_proofs --------------------------
(***************************************************************************)
(* Between two switches of the MC the firmware knows the VCO that clocks   *)
(* the PHY: ClockIsKnown, from the invariant ClockInv that follows the     *)
(* INIT_START of each switch from the line to the handler that consumes    *)
(* it.  IndInv (PhyTask_proofs) gives the types and the handlers' steps.   *)
(***************************************************************************)
EXTENDS PhyTask_proofs

-----------------------------------------------------------------------------
(* The VCO that is prepared is the one that is not running.                *)
LEMMA PrepareNext ==
  ASSUME NEW p \in Plls, NEW f
  PROVE  /\ Prepare(p, f).next = FreeVco(p) /\ Prepare(p, f).next # NoVco
         /\ Prepare(p, f).current = p.current
         /\ FreeVco(Prepare(p, f)) = FreeVco(p)
BY DEF Prepare, FreeVco, Plls, NoVco

LEMMA SwitchDone ==
  ASSUME NEW p \in Plls
  PROVE  /\ DisableVco(SwitchVco(p)).next = NoVco
         /\ DisableVco(SwitchVco(p)).current =
              IF p.next = NoVco THEN p.current ELSE p.next
<1>1. SwitchVco(p) \in Plls
  BY DEF SwitchVco, Plls, Vcos
<1> QED
  BY <1>1 DEF DisableVco, SwitchVco, Plls

LEMMA SwSwitchDone ==
  ASSUME NEW p \in Plls, NEW f \in Freqs, NEW b \in BOOLEAN, p.next = NoVco
  PROVE  SwSwitch(p, f, b).next = NoVco /\ UntilPhy1(p, f, b).next = NoVco
BY PllTyped, SwitchDone DEF SwSwitch, UntilPhy1

-----------------------------------------------------------------------------
USE DEF statusVars, fsmVars, fwVars, irqVars, busVars, pllVars, switchVars,
        devVars, taskVars, callVars, still, dfiFrame, isrFrame, mcFrame,
        fwState, IndInv, TypeOK, StatusOK, MachinesOK, BusOK, PllOK,
        CallersOK, HandlerInv, FwLabels, DrainLabels, FswStates, DfiStates,
        Resps, Sources, CtrlSources, PllSources, LineSources, ReqLine,
        AckLine, Handled, Goto, At, Step, Finish, FswMove, DfiMove,
        EnableIrqs, DisableIrqs, EnableLockIrq, AssertLine, DeassertLine,
        ClockInv, OneToken, OnlyWhenReady, Token, Draining, Respond

LEMMA FwClock ==
  ASSUME IndInv, ClockInv, FwNext
  PROVE  ClockInv'
<1>1. CASE BootReject
  <2>1. /\ Once("INIT_START")' /\ (Queued("INIT_START")' => Queued("INIT_START"))
        /\ Head(mq).event = "INIT_START" => Queued("INIT_START") /\ ~Queued("INIT_START")'
    BY <1>1, TailQueue DEF BootReject, Receive
  <2>2. OneToken'
    BY <1>1, <2>1 DEF BootReject, Receive
  <2>3. OnlyWhenReady'
    BY <1>1 DEF BootReject, Receive
  <2>4. ClockFollows'
    BY <1>1, <2>1 DEF BootReject, Receive, ClockFollows
  <2> QED
    BY <2>2, <2>3, <2>4
<1>2. CASE BootBegin
  <2>1. /\ Once("INIT_START")' /\ (Queued("INIT_START")' => Queued("INIT_START"))
        /\ Head(mq).event = "INIT_START" => Queued("INIT_START") /\ ~Queued("INIT_START")'
    BY <1>2, TailQueue DEF BootBegin, Receive
  <2>2. OneToken'
    BY <1>2, <2>1 DEF BootBegin, Receive
  <2>3. OnlyWhenReady'
    BY <1>2 DEF BootBegin, Receive
  <2>4. ClockFollows'
    BY <1>2, <2>1 DEF BootBegin, Receive, ClockFollows
  <2> QED
    BY <2>2, <2>3, <2>4
<1>3. CASE BootFail
  <2>1. Queued("INIT_START")' = Queued("INIT_START") /\ Once("INIT_START")' = Once("INIT_START")
    BY <1>3, SameQueue DEF BootFail
  <2>2. OneToken'
    BY <1>3, <2>1 DEF BootFail
  <2>3. OnlyWhenReady'
    BY <1>3 DEF BootFail
  <2>4. BootFreq \in Freqs
    BY PhyTaskAssumption DEF PhyTaskAssumption
  <2>5. ClockFollows'
    BY <1>3, <2>1, <2>4, SwSwitchTyped, SwSwitchDone DEF BootFail, ClockFollows
  <2> QED
    BY <2>2, <2>3, <2>5
<1>4. CASE BootPhy
  <2>1. Queued("INIT_START")' = Queued("INIT_START") /\ Once("INIT_START")' = Once("INIT_START")
    BY <1>4, SameQueue DEF BootPhy
  <2>2. OneToken'
    BY <1>4, <2>1 DEF BootPhy
  <2>3. OnlyWhenReady'
    BY <1>4 DEF BootPhy
  <2>4. BootFreq \in Freqs
    BY PhyTaskAssumption DEF PhyTaskAssumption
  <2>5. mcSwitch = "none" /\ ~prepDone /\ pll.next = NoVco
    BY <1>4 DEF BootPhy, ClockFollows
  <2>6. SwSwitch(pll, BootFreq, booted) \in Plls
    BY <2>4, SwSwitchTyped
  <2>7. pll'.next = NoVco
    BY <1>4, <2>4, <2>5, <2>6, SwSwitchDone DEF BootPhy
  <2>8. mcSwitch' = "none" /\ ~prepDone' /\ hwVco' = pll'.current
    BY <1>4, <2>5 DEF BootPhy
  <2>9. ClockFollows'
    BY <2>7, <2>8 DEF ClockFollows
  <2> QED
    BY <2>2, <2>3, <2>9
<1>5. CASE BootStart
  <2>1. Queued("INIT_START")' = Queued("INIT_START") /\ Once("INIT_START")' = Once("INIT_START")
    BY <1>5, SameQueue DEF BootStart
  <2>2. OneToken'
    BY <1>5, <2>1 DEF BootStart
  <2>3. OnlyWhenReady'
    BY <1>5 DEF BootStart
  <2>4. ClockFollows'
    BY <1>5, <2>1 DEF BootStart, ClockFollows
  <2> QED
    BY <2>2, <2>3, <2>4
<1>6. CASE Dismiss
  <2>1. PICK event \in Events, resp \in Resps :
           /\ Receive(event) /\ Handled(resp)
           /\ resp = "SUCCESS" => ready
    BY <1>6 DEF Dismiss, Turned, Events, Accepting, FswMayRun, DfiMayRun
  <2>2. UNCHANGED still
    BY <1>6 DEF Dismiss
  <2>3. Once("INIT_START")' /\ (Queued("INIT_START")' => Queued("INIT_START"))
    BY <2>1, TailQueue DEF Receive
  <2>4. OneToken'
    BY <2>1, <2>2, <2>3 DEF Receive
  <2>5. OnlyWhenReady'
    BY <2>1, <2>2 DEF Receive
  <2>6. ClockFollows'
    BY <2>1, <2>2, <2>3 DEF ClockFollows
  <2> QED
    BY <2>4, <2>5, <2>6
<1>7. CASE PrepBegin
  <2>1. /\ Once("INIT_START")' /\ (Queued("INIT_START")' => Queued("INIT_START"))
        /\ Head(mq).event = "INIT_START" => Queued("INIT_START") /\ ~Queued("INIT_START")'
    BY <1>7, TailQueue DEF PrepBegin, FswReceive, Receive
  <2>2. OneToken'
    BY <1>7, <2>1, FswTargets DEF PrepBegin, FswReceive, FswMayRun, Accepting, Receive
  <2>3. OnlyWhenReady'
    BY <1>7 DEF PrepBegin, FswReceive, FswMayRun, Accepting, Receive
  <2>4. ClockFollows'
    BY <1>7, <2>1 DEF PrepBegin, FswReceive, FswMayRun, Accepting, Receive, ClockFollows
  <2> QED
    BY <2>2, <2>3, <2>4
<1>8. CASE PrepConfigure
  <2>1. Queued("INIT_START")' = Queued("INIT_START") /\ Once("INIT_START")' = Once("INIT_START")
    BY <1>8, SameQueue DEF PrepConfigure
  <2>2. OneToken'
    BY <1>8, <2>1, FswTargets DEF PrepConfigure
  <2>3. OnlyWhenReady'
    BY <1>8 DEF PrepConfigure
  <2>4. /\ pll'.next = FreeVco(pll) /\ pll'.next # NoVco
        /\ pll'.current = pll.current /\ FreeVco(pll') = FreeVco(pll)
    BY <1>8, PrepareNext DEF PrepConfigure
  <2>5. Token' => Token
    BY <1>8, <2>1, FswTargets DEF PrepConfigure
  <2>6. prepDone' /\ UNCHANGED <<booted, mcSwitch, hwVco>>
    BY <1>8 DEF PrepConfigure
  <2>7. ClockFollows'
    BY <2>4, <2>5, <2>6 DEF ClockFollows
  <2> QED
    BY <2>2, <2>3, <2>7
<1>9. CASE PrepAssert
  <2>1. Queued("INIT_START")' = Queued("INIT_START") /\ Once("INIT_START")' = Once("INIT_START")
    BY <1>9, SameQueue DEF PrepAssert
  <2>2. OneToken'
    BY <1>9, <2>1 DEF PrepAssert
  <2>3. OnlyWhenReady'
    BY <1>9 DEF PrepAssert
  <2>4. ClockFollows'
    BY <1>9, <2>1 DEF PrepAssert, ClockFollows
  <2> QED
    BY <2>2, <2>3, <2>4
<1>10. CASE PostSwitch
  <2>1. /\ Once("INIT_START")' /\ (Queued("INIT_START")' => Queued("INIT_START"))
        /\ Head(mq).event = "INIT_START" => Queued("INIT_START") /\ ~Queued("INIT_START")'
    BY <1>10, TailQueue DEF PostSwitch, FswReceive, Receive
  <2>2. OneToken'
    BY <1>10, <2>1, FswTargets DEF PostSwitch, FswReceive, FswMayRun, Accepting, Receive
  <2>3. OnlyWhenReady'
    BY <1>10 DEF PostSwitch, FswReceive, FswMayRun, Accepting, Receive
  <2>4. ClockFollows'
    BY <1>10, <2>1, SwitchDone, FswTargets DEF PostSwitch, FswReceive, FswMayRun, Accepting, Receive, ClockFollows
  <2> QED
    BY <2>2, <2>3, <2>4
<1>11. CASE PendingBegin
  <2>1. /\ Once("INIT_START")' /\ (Queued("INIT_START")' => Queued("INIT_START"))
        /\ Head(mq).event = "INIT_START" => Queued("INIT_START") /\ ~Queued("INIT_START")'
    BY <1>11, TailQueue DEF PendingBegin, FswReceive, Receive
  <2>2. OneToken'
    BY <1>11, <2>1, FswTargets DEF PendingBegin, FswReceive, FswMayRun, Accepting, Receive
  <2>3. OnlyWhenReady'
    BY <1>11 DEF PendingBegin, FswReceive, FswMayRun, Accepting, Receive
  <2>4. ClockFollows'
    BY <1>11, <2>1 DEF PendingBegin, FswReceive, FswMayRun, Accepting, Receive, ClockFollows
  <2> QED
    BY <2>2, <2>3, <2>4
<1>12. CASE SendMrw
  <2>1. Queued("INIT_START")' = Queued("INIT_START") /\ Once("INIT_START")' = Once("INIT_START")
    BY <1>12, SameQueue DEF SendMrw
  <2>2. OneToken'
    BY <1>12, <2>1 DEF SendMrw
  <2>3. OnlyWhenReady'
    BY <1>12 DEF SendMrw
  <2>4. ClockFollows'
    BY <1>12, <2>1 DEF SendMrw, ClockFollows
  <2> QED
    BY <2>2, <2>3, <2>4
<1>13. CASE AbortDisable
  <2>1. Queued("INIT_START")' = Queued("INIT_START") /\ Once("INIT_START")' = Once("INIT_START")
    BY <1>13, SameQueue DEF AbortDisable
  <2>2. OneToken'
    BY <1>13, <2>1 DEF AbortDisable
  <2>3. OnlyWhenReady'
    BY <1>13 DEF AbortDisable
  <2>4. ClockFollows'
    BY <1>13, <2>1 DEF AbortDisable, ClockFollows
  <2> QED
    BY <2>2, <2>3, <2>4
<1>14. CASE AbortDeassert
  <2>1. Queued("INIT_START")' = Queued("INIT_START") /\ Once("INIT_START")' = Once("INIT_START")
    BY <1>14, SameQueue DEF AbortDeassert
  <2>2. OneToken'
    BY <1>14, <2>1 DEF AbortDeassert
  <2>3. OnlyWhenReady'
    BY <1>14 DEF AbortDeassert
  <2>4. ClockFollows'
    BY <1>14, <2>1 DEF AbortDeassert, ClockFollows
  <2> QED
    BY <2>2, <2>3, <2>4
<1>15. CASE AbortDone
  <2>1. Queued("INIT_START")' = Queued("INIT_START") /\ Once("INIT_START")' = Once("INIT_START")
    BY <1>15, SameQueue DEF AbortDone
  <2>2. OneToken'
    BY <1>15, <2>1 DEF AbortDone
  <2>3. OnlyWhenReady'
    BY <1>15 DEF AbortDone
  <2>4. ClockFollows'
    BY <1>15, <2>1 DEF AbortDone, ClockFollows
  <2> QED
    BY <2>2, <2>3, <2>4
<1>16. CASE NoAbort
  <2>1. Queued("INIT_START")' = Queued("INIT_START") /\ Once("INIT_START")' = Once("INIT_START")
    BY <1>16, SameQueue DEF NoAbort
  <2>2. OneToken'
    BY <1>16, <2>1 DEF NoAbort
  <2>3. OnlyWhenReady'
    BY <1>16 DEF NoAbort
  <2>4. ClockFollows'
    BY <1>16, <2>1 DEF NoAbort, ClockFollows
  <2> QED
    BY <2>2, <2>3, <2>4
<1>17. CASE Release
  <2>1. Queued("INIT_START")' = Queued("INIT_START") /\ Once("INIT_START")' = Once("INIT_START")
    BY <1>17, SameQueue DEF Release
  <2>2. OneToken'
    BY <1>17, <2>1, FswTargets DEF Release
  <2>3. OnlyWhenReady'
    BY <1>17 DEF Release
  <2>4. ClockFollows'
    BY <1>17, <2>1 DEF Release, ClockFollows
  <2> QED
    BY <2>2, <2>3, <2>4
<1>18. CASE UpdRequest
  <2>1. /\ Once("INIT_START")' /\ (Queued("INIT_START")' => Queued("INIT_START"))
        /\ Head(mq).event = "INIT_START" => Queued("INIT_START") /\ ~Queued("INIT_START")'
    BY <1>18, TailQueue DEF UpdRequest, DfiReceive, Receive
  <2>2. OneToken'
    BY <1>18, <2>1 DEF UpdRequest, DfiReceive, DfiMayRun, Accepting, Receive
  <2>3. OnlyWhenReady'
    BY <1>18 DEF UpdRequest, DfiReceive, DfiMayRun, Accepting, Receive
  <2>4. ClockFollows'
    BY <1>18, <2>1 DEF UpdRequest, DfiReceive, DfiMayRun, Accepting, Receive, ClockFollows
  <2> QED
    BY <2>2, <2>3, <2>4
<1>19. CASE UpdBegin
  <2>1. /\ Once("INIT_START")' /\ (Queued("INIT_START")' => Queued("INIT_START"))
        /\ Head(mq).event = "INIT_START" => Queued("INIT_START") /\ ~Queued("INIT_START")'
    BY <1>19, TailQueue DEF UpdBegin, DfiReceive, Receive
  <2>2. OneToken'
    BY <1>19, <2>1 DEF UpdBegin, DfiReceive, DfiMayRun, Accepting, Receive
  <2>3. OnlyWhenReady'
    BY <1>19 DEF UpdBegin, DfiReceive, DfiMayRun, Accepting, Receive
  <2>4. ClockFollows'
    BY <1>19, <2>1 DEF UpdBegin, DfiReceive, DfiMayRun, Accepting, Receive, ClockFollows
  <2> QED
    BY <2>2, <2>3, <2>4
<1>20. CASE UpdDeassert
  <2>1. Queued("INIT_START")' = Queued("INIT_START") /\ Once("INIT_START")' = Once("INIT_START")
    BY <1>20, SameQueue DEF UpdDeassert
  <2>2. OneToken'
    BY <1>20, <2>1 DEF UpdDeassert
  <2>3. OnlyWhenReady'
    BY <1>20 DEF UpdDeassert
  <2>4. ClockFollows'
    BY <1>20, <2>1 DEF UpdDeassert, ClockFollows
  <2> QED
    BY <2>2, <2>3, <2>4
<1>21. CASE UpdDone
  <2>1. Queued("INIT_START")' = Queued("INIT_START") /\ Once("INIT_START")' = Once("INIT_START")
    BY <1>21, SameQueue DEF UpdDone
  <2>2. OneToken'
    BY <1>21, <2>1 DEF UpdDone
  <2>3. OnlyWhenReady'
    BY <1>21 DEF UpdDone
  <2>4. ClockFollows'
    BY <1>21, <2>1 DEF UpdDone, ClockFollows
  <2> QED
    BY <2>2, <2>3, <2>4
<1>22. CASE MstrRequest
  <2>1. /\ Once("INIT_START")' /\ (Queued("INIT_START")' => Queued("INIT_START"))
        /\ Head(mq).event = "INIT_START" => Queued("INIT_START") /\ ~Queued("INIT_START")'
    BY <1>22, TailQueue DEF MstrRequest, DfiReceive, Receive
  <2>2. OneToken'
    BY <1>22, <2>1 DEF MstrRequest, DfiReceive, DfiMayRun, Accepting, Receive
  <2>3. OnlyWhenReady'
    BY <1>22 DEF MstrRequest, DfiReceive, DfiMayRun, Accepting, Receive
  <2>4. ClockFollows'
    BY <1>22, <2>1 DEF MstrRequest, DfiReceive, DfiMayRun, Accepting, Receive, ClockFollows
  <2> QED
    BY <2>2, <2>3, <2>4
<1>23. CASE MstrEnter
  <2>1. /\ Once("INIT_START")' /\ (Queued("INIT_START")' => Queued("INIT_START"))
        /\ Head(mq).event = "INIT_START" => Queued("INIT_START") /\ ~Queued("INIT_START")'
    BY <1>23, TailQueue DEF MstrEnter, DfiReceive, Receive
  <2>2. OneToken'
    BY <1>23, <2>1 DEF MstrEnter, DfiReceive, DfiMayRun, Accepting, Receive
  <2>3. OnlyWhenReady'
    BY <1>23 DEF MstrEnter, DfiReceive, DfiMayRun, Accepting, Receive
  <2>4. ClockFollows'
    BY <1>23, <2>1 DEF MstrEnter, DfiReceive, DfiMayRun, Accepting, Receive, ClockFollows
  <2> QED
    BY <2>2, <2>3, <2>4
<1>24. CASE MstrExit
  <2>1. /\ Once("INIT_START")' /\ (Queued("INIT_START")' => Queued("INIT_START"))
        /\ Head(mq).event = "INIT_START" => Queued("INIT_START") /\ ~Queued("INIT_START")'
    BY <1>24, TailQueue DEF MstrExit, DfiReceive, Receive
  <2>2. OneToken'
    BY <1>24, <2>1 DEF MstrExit, DfiReceive, DfiMayRun, Accepting, Receive
  <2>3. OnlyWhenReady'
    BY <1>24 DEF MstrExit, DfiReceive, DfiMayRun, Accepting, Receive
  <2>4. ClockFollows'
    BY <1>24, <2>1 DEF MstrExit, DfiReceive, DfiMayRun, Accepting, Receive, ClockFollows
  <2> QED
    BY <2>2, <2>3, <2>4
<1>25. CASE MstrDone
  <2>1. Queued("INIT_START")' = Queued("INIT_START") /\ Once("INIT_START")' = Once("INIT_START")
    BY <1>25, SameQueue DEF MstrDone
  <2>2. OneToken'
    BY <1>25, <2>1 DEF MstrDone
  <2>3. OnlyWhenReady'
    BY <1>25 DEF MstrDone
  <2>4. ClockFollows'
    BY <1>25, <2>1 DEF MstrDone, ClockFollows
  <2> QED
    BY <2>2, <2>3, <2>4
<1>26. CASE CtrlUpdBegin
  <2>1. /\ Once("INIT_START")' /\ (Queued("INIT_START")' => Queued("INIT_START"))
        /\ Head(mq).event = "INIT_START" => Queued("INIT_START") /\ ~Queued("INIT_START")'
    BY <1>26, TailQueue DEF CtrlUpdBegin, DfiReceive, Receive
  <2>2. OneToken'
    BY <1>26, <2>1 DEF CtrlUpdBegin, DfiReceive, DfiMayRun, Accepting, Receive
  <2>3. OnlyWhenReady'
    BY <1>26 DEF CtrlUpdBegin, DfiReceive, DfiMayRun, Accepting, Receive
  <2>4. ClockFollows'
    BY <1>26, <2>1 DEF CtrlUpdBegin, DfiReceive, DfiMayRun, Accepting, Receive, ClockFollows
  <2> QED
    BY <2>2, <2>3, <2>4
<1>27. CASE CtrlUpdEnter
  <2>1. Queued("INIT_START")' = Queued("INIT_START") /\ Once("INIT_START")' = Once("INIT_START")
    BY <1>27, SameQueue DEF CtrlUpdEnter
  <2>2. OneToken'
    BY <1>27, <2>1 DEF CtrlUpdEnter
  <2>3. OnlyWhenReady'
    BY <1>27 DEF CtrlUpdEnter
  <2>4. ClockFollows'
    BY <1>27, <2>1 DEF CtrlUpdEnter, ClockFollows
  <2> QED
    BY <2>2, <2>3, <2>4
<1>28. CASE CtrlUpdEnd
  <2>1. /\ Once("INIT_START")' /\ (Queued("INIT_START")' => Queued("INIT_START"))
        /\ Head(mq).event = "INIT_START" => Queued("INIT_START") /\ ~Queued("INIT_START")'
    BY <1>28, TailQueue DEF CtrlUpdEnd, DfiReceive, Receive
  <2>2. OneToken'
    BY <1>28, <2>1 DEF CtrlUpdEnd, DfiReceive, DfiMayRun, Accepting, Receive
  <2>3. OnlyWhenReady'
    BY <1>28 DEF CtrlUpdEnd, DfiReceive, DfiMayRun, Accepting, Receive
  <2>4. ClockFollows'
    BY <1>28, <2>1 DEF CtrlUpdEnd, DfiReceive, DfiMayRun, Accepting, Receive, ClockFollows
  <2> QED
    BY <2>2, <2>3, <2>4
<1> QED
  BY <1>1, <1>2, <1>3, <1>4, <1>5, <1>6, <1>7, <1>8, <1>9, <1>10, <1>11, <1>12, <1>13, <1>14, <1>15, <1>16, <1>17, <1>18, <1>19, <1>20, <1>21, <1>22, <1>23, <1>24, <1>25, <1>26, <1>27, <1>28 DEF FwNext

(* Of the interrupts only that of INIT_START moves the token, into the     *)
(* queue; a full queue loses it.                                           *)
LEMMA IsrClock ==
  ASSUME IndInv, ClockInv, IsrNext
  PROVE  ClockInv'
<1>1. CASE \E src \in LineSources : LineIsr(src)
  <2>1. PICK src \in LineSources : LineIsr(src)
    BY <1>1
  <2>2. Msg(src, NoTask, NoFreq).event = src /\ src \in sticky
    BY <2>1 DEF Msg, LineIsr, PendingIrqs
  <2>3. Once("INIT_START")' /\ (Queued("INIT_START")' => Queued("INIT_START") \/ src = "INIT_START")
    BY <2>1, <2>2, SendQueue DEF LineIsr
  <2>4. OneToken'
    BY <2>1, <2>2, <2>3 DEF LineIsr
  <2>5. OnlyWhenReady'
    BY <2>1 DEF LineIsr
  <2>6. ClockFollows'
    BY <2>1, <2>2, <2>3 DEF LineIsr, ClockFollows
  <2> QED
    BY <2>4, <2>5, <2>6
<1>2. CASE CtrlUpdIsr \/ PllIsr
  <2>1. PICK m : SendFromIsr(m) /\ m.event # "INIT_START"
    <3>1. ASSUME NEW event, NEW from, event # "INIT_START"
          PROVE  Msg(event, from, NoFreq).event # "INIT_START"
      BY <3>1 DEF Msg
    <3>2. CASE CtrlUpdIsr
      BY <3>1, <3>2 DEF CtrlUpdIsr
    <3>3. CASE PllIsr
      <4>1. PICK from \in StackGarbage :
              SendFromIsr(Msg(IF "PLL_LOSS_LOCK" \in sticky
                              THEN "PLL_LOSS_LOCK" ELSE "PLL_LOCK",
                              from, NoFreq))
        BY <3>3 DEF PllIsr
      <4> QED
        BY <3>1, <4>1
    <3> QED
      BY <1>2, <3>2, <3>3
  <2>2. Once("INIT_START")' /\ (Queued("INIT_START")' => Queued("INIT_START"))
    BY <2>1, SendQueue
  <2>3. /\ UNCHANGED isrFrame
        /\ "INIT_START" \in sticky' => "INIT_START" \in sticky
    BY <1>2 DEF CtrlUpdIsr, PllIsr
  <2>4. OneToken'
    BY <2>2, <2>3
  <2>5. OnlyWhenReady'
    BY <2>3
  <2>6. ClockFollows'
    BY <2>2, <2>3 DEF ClockFollows
  <2> QED
    BY <2>4, <2>5, <2>6
<1> QED
  BY <1>1, <1>2 DEF IsrNext

(* The tasks neither send INIT_START nor touch the clock; the main task    *)
(* passes on a grant that it was given.                                    *)
LEMMA TaskClock ==
  ASSUME IndInv, ClockInv, TaskNext
  PROVE  ClockInv'
<1>1. Once("INIT_START")' /\ (Queued("INIT_START")' => Queued("INIT_START"))
  <2>1. CASE MainSend \/ PeriodicSend \/ PeriodicExit \/ TimerFires
    <3>1. PICK m : mq' = Append(mq, m) /\ m.event # "INIT_START"
      BY <2>1 DEF MainSend, PeriodicSend, PeriodicExit, TimerFires, Msg, Callers
    <3> QED
      BY <3>1, AppendQueue
  <2>2. CASE UNCHANGED mq
    BY <2>2, SameQueue
  <2> QED
    BY <2>1, <2>2 DEF TaskNext, MainCall, MainRetry, MainReturn, PeriodicWake,
                      PeriodicAnswer, PeriodicProceed, TimerAssert
<1>2. UNCHANGED <<ready, booted, fsmVars, fwVars, devVars>>
  BY DEF TaskNext, MainCall, MainSend, MainRetry, MainReturn, PeriodicWake,
         PeriodicSend, PeriodicAnswer, PeriodicProceed, PeriodicExit,
         TimerFires, TimerAssert
<1>3. OneToken'
  BY <1>1, <1>2
<1>4. ClockFollows'
  BY <1>1, <1>2 DEF ClockFollows
<1>5. granted' => ready
  BY DEF TaskNext, MainCall, MainSend, MainRetry, MainReturn, PeriodicWake,
         PeriodicSend, PeriodicAnswer, PeriodicProceed, PeriodicExit,
         TimerFires, TimerAssert, Tasks
<1>6. \A t \in Tasks : notify'[t] = "SUCCESS" => ready
  BY DEF TaskNext, MainCall, MainSend, MainRetry, MainReturn, PeriodicWake,
         PeriodicSend, PeriodicAnswer, PeriodicProceed, PeriodicExit,
         TimerFires, TimerAssert, NoResp
<1> QED
  BY <1>2, <1>3, <1>4, <1>5, <1>6

(* The MC puts the token on its line and moves the clock to the VCO that   *)
(* the firmware prepared.                                                  *)
LEMMA EnvClock ==
  ASSUME IndInv, ClockInv, EnvNext
  PROVE  ClockInv'
<1> USE DEF McRaise, PllEdge
<1>1. UNCHANGED <<mcFrame, pll>>
  BY DEF EnvNext, McInitStart, McInitLow, PllLocks, PllLoses, McInitComplete,
         McAckUpd, McAckMstr, McDropAck, McCtrlUpdAssert, McCtrlUpdDeassert
<1>2. Queued("INIT_START")' = Queued("INIT_START") /\ Once("INIT_START")' = Once("INIT_START")
  BY <1>1, SameQueue
<1>3. CASE McInitStart
  <2>1. OneToken'
    BY <1>1, <1>2, <1>3 DEF McInitStart
  <2>2. OnlyWhenReady'
    BY <1>1, <1>3 DEF McInitStart
  <2>3. ClockFollows'
    BY <1>1, <1>2, <1>3 DEF McInitStart, ClockFollows
  <2> QED
    BY <2>1, <2>2, <2>3
<1>4. CASE McInitLow
  <2>1. OneToken'
    BY <1>1, <1>2, <1>4 DEF McInitLow
  <2>2. OnlyWhenReady'
    BY <1>1, <1>4 DEF McInitLow
  <2>3. ClockFollows'
    BY <1>1, <1>2, <1>4 DEF McInitLow, ClockFollows
  <2> QED
    BY <2>1, <2>2, <2>3
<1>5. CASE PllLocks
  <2>1. OneToken'
    BY <1>1, <1>2, <1>5 DEF PllLocks
  <2>2. OnlyWhenReady'
    BY <1>1, <1>5 DEF PllLocks
  <2>3. ClockFollows'
    BY <1>1, <1>2, <1>5 DEF PllLocks, ClockFollows
  <2> QED
    BY <2>1, <2>2, <2>3
<1>6. CASE PllLoses
  <2>1. OneToken'
    BY <1>1, <1>2, <1>6 DEF PllLoses
  <2>2. OnlyWhenReady'
    BY <1>1, <1>6 DEF PllLoses
  <2>3. ClockFollows'
    BY <1>1, <1>2, <1>6 DEF PllLoses, ClockFollows
  <2> QED
    BY <2>1, <2>2, <2>3
<1>7. CASE McInitComplete
  <2>1. OneToken'
    BY <1>1, <1>2, <1>7 DEF McInitComplete, ClockFollows
  <2>2. OnlyWhenReady'
    BY <1>1, <1>7 DEF McInitComplete
  <2>3. ClockFollows'
    BY <1>1, <1>2, <1>7 DEF McInitComplete, ClockFollows
  <2> QED
    BY <2>1, <2>2, <2>3
<1>8. CASE McAckUpd
  <2>1. OneToken'
    BY <1>1, <1>2, <1>8 DEF McAckUpd
  <2>2. OnlyWhenReady'
    BY <1>1, <1>8 DEF McAckUpd
  <2>3. ClockFollows'
    BY <1>1, <1>2, <1>8 DEF McAckUpd, ClockFollows
  <2> QED
    BY <2>1, <2>2, <2>3
<1>9. CASE McAckMstr
  <2>1. OneToken'
    BY <1>1, <1>2, <1>9 DEF McAckMstr
  <2>2. OnlyWhenReady'
    BY <1>1, <1>9 DEF McAckMstr
  <2>3. ClockFollows'
    BY <1>1, <1>2, <1>9 DEF McAckMstr, ClockFollows
  <2> QED
    BY <2>1, <2>2, <2>3
<1>10. CASE McDropAck
  <2>1. OneToken'
    BY <1>1, <1>2, <1>10 DEF McDropAck
  <2>2. OnlyWhenReady'
    BY <1>1, <1>10 DEF McDropAck
  <2>3. ClockFollows'
    BY <1>1, <1>2, <1>10 DEF McDropAck, ClockFollows
  <2> QED
    BY <2>1, <2>2, <2>3
<1>11. CASE McCtrlUpdAssert
  <2>1. OneToken'
    BY <1>1, <1>2, <1>11 DEF McCtrlUpdAssert
  <2>2. OnlyWhenReady'
    BY <1>1, <1>11 DEF McCtrlUpdAssert
  <2>3. ClockFollows'
    BY <1>1, <1>2, <1>11 DEF McCtrlUpdAssert, ClockFollows
  <2> QED
    BY <2>1, <2>2, <2>3
<1>12. CASE McCtrlUpdDeassert
  <2>1. OneToken'
    BY <1>1, <1>2, <1>12 DEF McCtrlUpdDeassert
  <2>2. OnlyWhenReady'
    BY <1>1, <1>12 DEF McCtrlUpdDeassert
  <2>3. ClockFollows'
    BY <1>1, <1>2, <1>12 DEF McCtrlUpdDeassert, ClockFollows
  <2> QED
    BY <2>1, <2>2, <2>3
<1> QED
  BY <1>3, <1>4, <1>5, <1>6, <1>7, <1>8, <1>9, <1>10, <1>11, <1>12 DEF EnvNext

-----------------------------------------------------------------------------
LEMMA InitClock == Init => ClockInv
<1> SUFFICES ASSUME Init PROVE ClockInv
  OBVIOUS
<1>1. ~Queued("INIT_START") /\ Once("INIT_START")
  BY EmptySeq DEF Init, Queued, Once
<1>2. OneToken
  BY <1>1 DEF Init
<1>3. OnlyWhenReady
  BY DEF Init, NoResp
<1>4. ClockFollows
  BY DEF Init, ClockFollows, BootedPll
<1> QED
  BY <1>2, <1>3, <1>4

LEMMA NextClock == IndInv /\ ClockInv /\ [Next]_vars => ClockInv'
<1>1. ASSUME ClockInv, UNCHANGED vars PROVE ClockInv'
  BY <1>1, SameQueue DEF vars, ClockFollows
<1> QED
  BY <1>1, FwClock, IsrClock, TaskClock, EnvClock DEF Next

HIDE DEF IndInv, ClockInv

(* Between two switches of the MC the firmware's record of the current VCO *)
(* is the VCO that clocks the PHY, whatever the queue, the callers and the *)
(* MC did during the switch.                                               *)
THEOREM ClockCorrect == Spec => []ClockIsKnown
<1>1. ClockInv => ClockIsKnown
  BY DEF ClockInv, ClockFollows, ClockIsKnown
<1>2. Spec => []ClockInv
  BY InitClock, NextClock, Invariance, PTL DEF Spec
<1> QED
  BY <1>1, <1>2, PTL
=============================================================================
