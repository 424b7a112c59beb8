------------------------------ MODULE PhyTask ------------------------------
(***************************************************************************)
(* The PHY firmware task (firmware/phy_task.c), the interrupt handlers     *)
(* that feed it (dev/dfi, dev/fsw, dev/pll), the tasks that call it (the   *)
(* main task through firmware/phy_api.c, the periodic calibration task,    *)
(* the PHYUPD timer) and the memory controller (MC) at the other end of    *)
(* the DFI bus.                                                            *)
(*                                                                         *)
(* Scheduling.  The firmware task has the highest priority, so the main    *)
(* task and, below it, the periodic task run only while it is blocked on   *)
(* its empty queue.  An interrupt preempts every task: a task takes its    *)
(* next step only when no enabled interrupt is pending.  Hardware and the  *)
(* MC move at any time.                                                    *)
(***************************************************************************)
EXTENDS Naturals, Sequences, PhyFsm, PllVco

CONSTANTS
  ValidFreqs,       \* the frequencies with table->valid set
  BootFreq,         \* WDDR_PHY_BOOT_FREQ
  MsgQueueLen,      \* MSG_QUEUE_LEN
  PrepTries,        \* PREP_TRY_COUNT
  BootResults,      \* outcomes of wddr_boot: TRUE for WDDR_SUCCESS
  TimerStarts,      \* outcomes of xTimerStart: TRUE for pdPASS
  StackGarbage,     \* what an uninitialised TaskHandle_t may hold
  CalPeriodic,      \* CONFIG_CAL_PERIODIC
  TimerSlices,      \* the timer task may run while a handler is busy
  McCtrlUpd,        \* the MC uses the CTRLUPD interface
  McMayAckLate,     \* the MC may acknowledge PHYUPD during a switch
  HostSerialises,   \* the host lets no PREP overlap with the MC's switch
  AppGuards,        \* the application boots in its IDLE state only
  MaxLoss           \* bound on the number of losses of PLL lock

Main     == "main"
Periodic == "periodic"
NoTask   == "NULL"
Tasks    == {Main, Periodic}
Resps    == {"SUCCESS", "FAILURE", "RETRY"}
NoResp   == "none"

ASSUME PhyTaskAssumption ==
  /\ ValidFreqs \subseteq Freqs
  /\ BootFreq \in ValidFreqs
  /\ NoFreq \notin Freqs
  /\ MsgQueueLen \in Nat \ {0}
  /\ PrepTries \in Nat \ {0}
  /\ BootResults \subseteq BOOLEAN
  /\ TimerStarts \subseteq BOOLEAN
  /\ StackGarbage \subseteq Tasks \cup {NoTask}
  /\ {CalPeriodic, TimerSlices, McCtrlUpd, McMayAckLate, HostSerialises,
      AppGuards} \subseteq BOOLEAN
  /\ MaxLoss \in Nat

VARIABLES
  ready, error, booted,   \* fw_manager.status; wddr->is_booted
  halted,                 \* a configASSERT failed: vAssertCalled, _exit
  timer,                  \* xDfiPhyUpdTimer: stopped, running or deleted
  fsw, dfi,               \* fw_manager.fsm.fsw, .dfi: currentState
  mq,                     \* fw_manager.mq
  pc, cur,                \* where the firmware task is; the message it handles
  irqEn, sticky,          \* enabled and pending interrupt sources
  phyLines, mcLines,      \* DFI signals driven by the PHY and by the MC
  mcSwitch,               \* the MC's view of a frequency switch
  pll, hwVco, locked,     \* dev/pll; the VCO the PHY clock runs on; PLL lock
  prepDone,               \* PREP_DONE: the switch hardware is armed
  bufFull,                \* the DFI buffer holds the MRW packets of the switch
  app, main, granted,     \* the main task; the host was told a switch is ready
  per, completion,        \* the periodic task and phyMstrEvent
  notify,                 \* pending task notifications
  losses                  \* losses of lock so far

statusVars == <<ready, error, booted, halted, timer>>
fsmVars    == <<fsw, dfi>>
fwVars     == <<pc, cur>>
irqVars    == <<irqEn, sticky>>
busVars    == <<phyLines, mcLines, mcSwitch>>
pllVars    == <<pll, hwVco, locked, losses>>
switchVars == <<prepDone, bufFull>>
devVars    == <<irqVars, busVars, pllVars, switchVars>>
taskVars   == <<app, main, granted, per>>
callVars   == <<completion, notify>>
fwState    == <<statusVars, fsmVars, fwVars, devVars>>
isrFrame   == <<statusVars, fsmVars, fwVars, busVars, pllVars, switchVars,
                taskVars, callVars>>
mcFrame    == <<statusVars, fsmVars, mq, fwVars, switchVars, callVars>>
still      == <<statusVars, fsmVars, devVars, taskVars, completion>>
dfiFrame   == <<statusVars, pllVars, switchVars, taskVars>>
vars == <<statusVars, fsmVars, mq, fwVars, devVars, taskVars, callVars>>

-----------------------------------------------------------------------------
(* Interrupts.  A DFI source latches the edge of its line in a sticky bit, *)
(* enabled or not; a PLL source sees an edge of its status only while its  *)
(* enable bit is set (pll_init enables all of them to read the status).    *)
CtrlSources == {"CTRLUPD_ASSERT", "CTRLUPD_DEASSERT"}
PllSources  == {"PLL_LOCK", "PLL_LOSS_LOCK"}
LineSources == {"INIT_START", "PHYUPD_ACK", "PHYMSTR_ACK"}
Sources     == CtrlSources \cup PllSources \cup LineSources

PendingIrqs  == irqEn \cap sticky
TasksMayRun  == ~halted /\ PendingIrqs = {}
Blocked      == TasksMayRun /\ pc = "receive" /\ mq = <<>>
PllEdge(src) == IF src \in irqEn THEN sticky \cup {src} ELSE sticky

(* Definitions named X_Y are faults planted in X.                          *)
EnableLockIrq_EdgeOnly == irqEn' = irqEn \cup {"PLL_LOCK"} /\ UNCHANGED sticky
EnableIrqs_Lost(srcs)  == UNCHANGED irqVars
DisableIrqs_Lost(srcs) == UNCHANGED irqVars

EnableLockIrq ==       \* pll_set_lock_interrupt_state(true): a lock is seen
  /\ irqEn' = irqEn \cup {"PLL_LOCK"}
  /\ sticky' = IF locked THEN sticky \cup {"PLL_LOCK"} ELSE sticky
EnableIrqs(srcs)  == irqEn' = irqEn \cup srcs /\ UNCHANGED sticky
DisableIrqs(srcs) == irqEn' = irqEn \ srcs /\ UNCHANGED sticky

(* The requests of the DFI state machine and the lines that answer them.   *)
ReqLine(state) == IF state = "PhyUpd" THEN "PHYUPD_REQ" ELSE "PHYMSTR_REQ"
AckLine(state) == IF state = "PhyUpd" THEN "PHYUPD_ACK" ELSE "PHYMSTR_ACK"
AssertLine(line) ==
  phyLines' = phyLines \cup {line} /\ UNCHANGED <<mcLines, mcSwitch>>
DeassertLine(line) ==
  phyLines' = phyLines \ {line} /\ UNCHANGED <<mcLines, mcSwitch>>

Msg(event, from, freq) == [event |-> event, from |-> from, freq |-> freq]
NoMsg == [event |-> "none", from |-> NoTask, freq |-> NoFreq]
Messages == [event : Events, from : Tasks \cup {NoTask},
             freq : Freqs \cup {NoFreq}]

(* xQueueSendToBackFromISR: the result is ignored, a full queue drops it.  *)
SendFromIsr(m) == mq' = IF Len(mq) < MsgQueueLen THEN Append(mq, m) ELSE mq

Respond_Never(to, resp) == UNCHANGED notify

(* xTaskNotify(msg.xSender, resp, eSetValueWithOverwrite)                  *)
Respond(to, resp) ==
  notify' = IF to \in Tasks THEN [notify EXCEPT ![to] = resp] ELSE notify

-----------------------------------------------------------------------------
Init ==
  /\ ready = FALSE /\ error = FALSE /\ booted = FALSE
  /\ halted = FALSE /\ timer = "stopped"
  /\ fsw = "Prep" /\ dfi = "Idle"
  /\ mq = <<>> /\ pc = "receive" /\ cur = NoMsg
  /\ irqEn = CtrlSources /\ sticky = {}
  /\ phyLines = {"INIT_COMPLETE_OVR"} /\ mcLines = {} /\ mcSwitch = "none"
  /\ pll = BootedPll /\ hwVco = "MCU" /\ locked = TRUE /\ losses = 0
  /\ prepDone = FALSE /\ bufFull = FALSE
  /\ app = "IDLE" /\ granted = FALSE
  /\ main = [ph |-> "idle", op |-> "BOOT", freq |-> NoFreq, tries |-> 0]
  /\ per = IF CalPeriodic THEN "sleep" ELSE "off"
  /\ completion = FALSE /\ notify = [t \in Tasks |-> NoResp]

(* firmwareTask takes the next message; Handled returns to the receive.    *)
Receive(event) ==
  /\ TasksMayRun /\ pc = "receive"
  /\ mq # <<>> /\ Head(mq).event = event
  /\ mq' = Tail(mq)

Handled_Silent(resp) == UNCHANGED <<fwVars, notify>>
Handled(resp) == Respond(Head(mq).from, resp) /\ UNCHANGED fwVars
Goto(label)   == pc' = label /\ cur' = Head(mq) /\ UNCHANGED notify
At(label)     == TasksMayRun /\ pc = label /\ UNCHANGED mq
Step(label)   == pc' = label /\ UNCHANGED <<cur, notify>>
Finish(resp)  == pc' = "receive" /\ cur' = NoMsg /\ Respond(cur.from, resp)

-----------------------------------------------------------------------------
(* handle_start_event                                                      *)
BootReject ==
  /\ Receive("BOOT") /\ ready
  /\ Handled("FAILURE")
  /\ UNCHANGED still

BootBegin ==
  /\ Receive("BOOT") /\ ~ready
  /\ Goto("boot")
  /\ UNCHANGED still

(* wddr_boot fails in the sense amplifier calibration or in training, when *)
(* the first software frequency switch is already done.                    *)
BootFail ==
  /\ At("boot") /\ FALSE \in BootResults
  /\ pll' = SwSwitch(pll, BootFreq, booted) /\ hwVco' = pll'.current
  /\ error' = TRUE
  /\ Finish("FAILURE")
  /\ UNCHANGED <<ready, booted, halted, timer, fsmVars, irqVars, busVars,
                 locked, losses, switchVars, taskVars, completion>>

(* wddr_boot succeeds: the PHY ends on VCO PHY_1 and, the first time,      *)
(* fsw_switch_to_dfi_mode tells the MC that the interface is ready.        *)
BootPhy ==
  /\ At("boot") /\ TRUE \in BootResults
  /\ pll' = UntilPhy1(SwSwitch(pll, BootFreq, booted), BootFreq, booted)
  /\ hwVco' = pll'.current
  /\ booted' = TRUE
  /\ IF booted THEN UNCHANGED <<irqVars, phyLines>>
     ELSE /\ phyLines' = phyLines \ {"INIT_COMPLETE_OVR"}
          /\ irqEn' = irqEn \ {"INIT_START"}
          /\ sticky' = sticky \ {"INIT_START"}
  /\ Step("boot_start")
  /\ UNCHANGED <<ready, error, halted, timer, fsmVars, mcLines, mcSwitch,
                 locked, losses, switchVars, taskVars, completion>>

(* A timer that does not start is deleted, if the command queue takes that *)
(* command; to start a deleted timer is undefined.                         *)
BootStart ==
  /\ At("boot_start")
  /\ irqEn' = (irqEn \ CtrlSources) \cup {"PLL_LOSS_LOCK"}
  /\ \/ /\ TRUE \in TimerStarts
        /\ timer' \in IF timer = "deleted" THEN {"deleted", "running"}
                       ELSE {"running"}
        /\ ready' = TRUE /\ UNCHANGED error
        /\ Finish("SUCCESS")
     \/ /\ FALSE \in TimerStarts
        /\ timer' \in {timer, "deleted"}
        /\ error' = TRUE /\ UNCHANGED ready
        /\ Finish("FAILURE")
  /\ UNCHANGED <<booted, halted, fsmVars, sticky, busVars, pllVars, switchVars,
                 taskVars, completion>>

-----------------------------------------------------------------------------
(* The guards that handle_fsw_event and handle_dfi_event share.            *)
Accepting == ready /\ ~error
FswMayRun == Accepting /\ dfi # "CtrlUpd"
DfiMayRun_Always == Accepting
DfiMayRun == Accepting /\ fsw # "Pending"

Turned(events, resp) ==
  \E event \in events : Receive(event) /\ Handled(resp)

(* Messages that change no state machine: refused before the boot or after *)
(* an error, answered RETRY while the other machine is busy, or SUCCESS    *)
(* when the current state has no transition for them.                      *)
Dismiss ==
  /\ \/ ~Accepting /\ Turned(FswEvents \cup DfiEvents, "FAILURE")
     \/ Accepting /\ ~FswMayRun /\ Turned(FswEvents, "RETRY")
     \/ Accepting /\ ~DfiMayRun /\ Turned(DfiEvents, "RETRY")
     \/ FswMayRun /\ Turned({e \in FswEvents : ~Reacts(FswTransitions, fsw, e)},
                            "SUCCESS")
     \/ DfiMayRun /\ Turned({e \in DfiEvents : ~Reacts(DfiTransitions, dfi, e)},
                            "SUCCESS")
  /\ UNCHANGED still

FswReceive(event) ==
  Receive(event) /\ FswMayRun /\ Reacts(FswTransitions, fsw, event)
DfiReceive(event) ==
  Receive(event) /\ DfiMayRun /\ Reacts(DfiTransitions, dfi, event)
FswMove(event) == fsw' = Target(FswTransitions, fsw, event) /\ UNCHANGED dfi
DfiMove(event) == dfi' = Target(DfiTransitions, dfi, event) /\ UNCHANGED fsw

(* fsw_prepare_switch_handler: INIT_START is disabled while the PHY is     *)
(* configured; an invalid frequency fails the assertion on wddr_prep_switch.*)
PrepBegin ==
  /\ FswReceive("PREP")
  /\ DisableIrqs({"INIT_START"})
  /\ Goto("prep")
  /\ UNCHANGED <<dfiFrame, fsmVars, busVars, completion>>

PrepConfigure ==
  /\ At("prep") /\ cur.freq \in ValidFreqs
  /\ pll' = Prepare(pll, cur.freq)
  /\ bufFull' = TRUE /\ prepDone' = TRUE
  /\ EnableIrqs({"INIT_START"})
  /\ FswMove("PREP")
  /\ Finish("SUCCESS")
  /\ UNCHANGED <<statusVars, busVars, hwVco, locked, losses, taskVars,
                 completion>>

PrepAssert ==
  /\ At("prep") /\ cur.freq \notin ValidFreqs
  /\ halted' = TRUE
  /\ UNCHANGED <<ready, error, booted, timer, fsmVars, fwVars, devVars,
                 taskVars, callVars>>

(* fsw_post_switch_handler: the lock interrupt goes off before the switch  *)
(* hardware is put back in its default state.                              *)
PostSwitch ==
  /\ FswReceive("PLL_LOCK")
  /\ pll' = DisableVco(SwitchVco(pll))
  /\ DisableIrqs({"PLL_LOCK"})
  /\ prepDone' = FALSE
  /\ FswMove("PLL_LOCK")
  /\ Handled("SUCCESS")
  /\ UNCHANGED <<statusVars, busVars, hwVco, locked, losses, bufFull, taskVars,
                 completion>>

-----------------------------------------------------------------------------
(* fsw_pending_entry_handler, up to the release of the INIT_COMPLETE       *)
(* override.  currentState changes only when the handler returns.          *)
PendingBegin ==
  /\ FswReceive("INIT_START")
  /\ Goto("wait_init_low")
  /\ UNCHANGED still

SendMrw ==
  /\ At("wait_init_low") /\ "INIT_START" \notin mcLines
  /\ AssertLine("INIT_COMPLETE_OVR")
  /\ bufFull' = FALSE
  /\ Step("abort")
  /\ UNCHANGED <<statusVars, fsmVars, irqVars, pllVars, prepDone, taskVars,
                 completion>>

(* A PHYUPD or PHYMSTR request the MC has not granted is withdrawn.        *)
AbortDisable ==
  /\ At("abort") /\ dfi \in {"PhyUpd", "PhyMstrPending"}
  /\ DisableIrqs({AckLine(dfi)})
  /\ Step("abort_deassert")
  /\ UNCHANGED <<dfiFrame, fsmVars, busVars, completion>>

AbortDeassert_Missing ==
  /\ At("abort_deassert")
  /\ Step("abort_wait")
  /\ UNCHANGED still

AbortDeassert ==
  /\ At("abort_deassert")
  /\ DeassertLine(ReqLine(dfi))
  /\ Step("abort_wait")
  /\ UNCHANGED <<dfiFrame, fsmVars, irqVars, completion>>

AbortDone ==
  /\ At("abort_wait")
  /\ \/ /\ dfi = "PhyUpd" /\ "PHYUPD_ACK" \notin mcLines
        /\ DfiMove("PHYUPD_ABORT") /\ UNCHANGED completion
     \/ /\ dfi = "PhyMstrPending" /\ "PHYMSTR_ACK" \notin mcLines
        /\ DfiMove("PHYMSTR_ABORT")
        /\ completion' = (CalPeriodic \/ completion)
  /\ Step("release")
  /\ UNCHANGED <<dfiFrame, irqVars, busVars>>

NoAbort ==
  /\ At("abort") /\ dfi \notin {"PhyUpd", "PhyMstrPending"}
  /\ Step("release")
  /\ UNCHANGED still

Release ==
  /\ At("release")
  /\ DeassertLine("INIT_COMPLETE_OVR") /\ EnableLockIrq
  /\ FswMove("INIT_START")
  /\ Finish("SUCCESS")
  /\ UNCHANGED <<dfiFrame, completion>>

-----------------------------------------------------------------------------
(* Handlers of the DFI state machine.                                      *)
UpdRequest ==
  /\ DfiReceive("PHYUPD_REQ")
  /\ AssertLine("PHYUPD_REQ") /\ EnableIrqs({"PHYUPD_ACK"})
  /\ DfiMove("PHYUPD_REQ")
  /\ Handled("SUCCESS")
  /\ UNCHANGED <<dfiFrame, completion>>

(* dfi_phyupd_update: at label update the new driver codes are written.    *)
UpdBegin ==
  /\ DfiReceive("PHYUPD_ACK")
  /\ Goto("update")
  /\ UNCHANGED still

UpdDeassert ==
  /\ At("update")
  /\ DeassertLine("PHYUPD_REQ")
  /\ Step("update_wait")
  /\ UNCHANGED <<dfiFrame, fsmVars, irqVars, completion>>

UpdDone ==
  /\ At("update_wait") /\ "PHYUPD_ACK" \notin mcLines
  /\ DfiMove("PHYUPD_ACK")
  /\ Finish("SUCCESS")
  /\ UNCHANGED <<dfiFrame, irqVars, busVars, completion>>

MstrRequest ==
  /\ DfiReceive("PHYMSTR_REQ")
  /\ AssertLine("PHYMSTR_REQ") /\ EnableIrqs({"PHYMSTR_ACK"})
  /\ DfiMove("PHYMSTR_REQ")
  /\ Handled("SUCCESS")
  /\ UNCHANGED <<dfiFrame, completion>>

MstrEnter_Silent ==
  /\ DfiReceive("PHYMSTR_ACK")
  /\ DfiMove("PHYMSTR_ACK")
  /\ Handled("SUCCESS")
  /\ UNCHANGED <<dfiFrame, irqVars, busVars, completion>>

MstrEnter ==
  /\ DfiReceive("PHYMSTR_ACK")
  /\ completion' = (CalPeriodic \/ completion)
  /\ DfiMove("PHYMSTR_ACK")
  /\ Handled("SUCCESS")
  /\ UNCHANGED <<dfiFrame, irqVars, busVars>>

MstrExit ==
  /\ DfiReceive("PHYMSTR_EXIT")
  /\ DeassertLine("PHYMSTR_REQ")
  /\ Goto("exit_wait")
  /\ UNCHANGED <<dfiFrame, fsmVars, irqVars, completion>>

MstrDone ==
  /\ At("exit_wait") /\ "PHYMSTR_ACK" \notin mcLines
  /\ DfiMove("PHYMSTR_EXIT")
  /\ Finish("SUCCESS")
  /\ UNCHANGED <<dfiFrame, irqVars, busVars, completion>>

(* dfi_ctrlupd_entry_handler: calibrate, update, deassert the acknowledge  *)
(* and wait for the MC to withdraw its request.                            *)
CtrlUpdBegin ==
  /\ DfiReceive("CTRLUPD_ASSERT")
  /\ Goto("ctrlupd_wait")
  /\ UNCHANGED still

CtrlUpdEnter ==
  /\ At("ctrlupd_wait") /\ "CTRLUPD_REQ" \notin mcLines
  /\ DfiMove("CTRLUPD_ASSERT")
  /\ Finish("SUCCESS")
  /\ UNCHANGED <<dfiFrame, irqVars, busVars, completion>>

CtrlUpdEnd ==
  /\ DfiReceive("CTRLUPD_DEASSERT")
  /\ DfiMove("CTRLUPD_DEASSERT")
  /\ Handled("SUCCESS")
  /\ UNCHANGED <<dfiFrame, irqVars, busVars, completion>>

FwNext ==
  \/ BootReject \/ BootBegin \/ BootFail \/ BootPhy \/ BootStart
  \/ Dismiss \/ PrepBegin \/ PrepConfigure \/ PrepAssert \/ PostSwitch
  \/ PendingBegin \/ SendMrw \/ AbortDisable \/ AbortDeassert \/ AbortDone
  \/ NoAbort \/ Release \/ UpdRequest \/ UpdBegin \/ UpdDeassert \/ UpdDone
  \/ MstrRequest \/ MstrEnter \/ MstrExit \/ MstrDone
  \/ CtrlUpdBegin \/ CtrlUpdEnter \/ CtrlUpdEnd

-----------------------------------------------------------------------------
(* Interrupt handlers.  INIT_START, PHYUPD_ACK and PHYMSTR_ACK disable     *)
(* themselves; the PLL handler reports one of its pending causes and       *)
(* clears them all, and so does the CTRLUPD handler.                       *)
LineIsr_Unmasked(src) ==
  /\ ~halted /\ src \in PendingIrqs
  /\ SendFromIsr(Msg(src, NoTask, NoFreq))
  /\ UNCHANGED <<isrFrame, irqVars>>

LineIsr(src) ==
  /\ ~halted /\ src \in PendingIrqs
  /\ irqEn' = irqEn \ {src} /\ sticky' = sticky \ {src}
  /\ SendFromIsr(Msg(src, NoTask, NoFreq))
  /\ UNCHANGED isrFrame

CtrlUpdIsr ==
  /\ ~halted /\ PendingIrqs \cap CtrlSources # {}
  /\ sticky' = sticky \ CtrlSources
  /\ SendFromIsr(Msg(IF "CTRLUPD_ASSERT" \in sticky THEN "CTRLUPD_ASSERT"
                     ELSE "CTRLUPD_DEASSERT", NoTask, NoFreq))
  /\ UNCHANGED <<isrFrame, irqEn>>

(* msg is not initialised: xSender is whatever the stack held.             *)
PllIsr ==
  /\ ~halted /\ PendingIrqs \cap PllSources # {}
  /\ sticky' = sticky \ PllSources
  /\ \E from \in StackGarbage :
       SendFromIsr(Msg(IF "PLL_LOSS_LOCK" \in sticky THEN "PLL_LOSS_LOCK"
                       ELSE "PLL_LOCK", from, NoFreq))
  /\ UNCHANGED <<isrFrame, irqEn>>

IsrNext == (\E src \in LineSources : LineIsr(src)) \/ CtrlUpdIsr \/ PllIsr

-----------------------------------------------------------------------------
(* The main task.  handle_message of app/wddr_main calls                   *)
(* firmware_phy_start in APP_STATE_IDLE (another application need not look *)
(* at its state) and firmware_phy_prep_switch in APP_STATE_READY; both go  *)
(* through __send_fw_msg, which clears the notification once, then sends   *)
(* and waits until the answer is not RETRY or the tries are used up.       *)
IdleCaller == [ph |-> "idle", op |-> "BOOT", freq |-> NoFreq, tries |-> 0]

MainCall ==
  /\ Blocked /\ main.ph = "idle"
  /\ \/ /\ app = "IDLE" \/ ~AppGuards
        /\ main' = [IdleCaller EXCEPT !.ph = "send", !.tries = 1]
     \/ /\ app = "READY" /\ (HostSerialises => mcSwitch = "none")
        /\ \E f \in Freqs : main' = [ph |-> "send", op |-> "PREP", freq |-> f,
                                     tries |-> PrepTries]
  /\ notify' = [notify EXCEPT ![Main] = NoResp]
  /\ UNCHANGED <<fwState, mq, app, granted, per, completion>>

MainSend ==
  /\ Blocked /\ main.ph = "send"
  /\ mq' = Append(mq, Msg(main.op, Main, main.freq))
  /\ main' = [main EXCEPT !.ph = "wait"]
  /\ UNCHANGED <<fwState, app, granted, per, callVars>>

MainRetry ==
  /\ Blocked /\ main.ph = "wait"
  /\ notify[Main] = "RETRY" /\ main.tries > 1
  /\ main' = [main EXCEPT !.ph = "send", !.tries = @ - 1]
  /\ notify' = [notify EXCEPT ![Main] = NoResp]
  /\ UNCHANGED <<fwState, mq, app, granted, per, completion>>

(* pdPASS only for SUCCESS; a PREP that fails ends in APP_STATE_ERROR.     *)
MainReturn ==
  /\ Blocked /\ main.ph = "wait" /\ notify[Main] # NoResp
  /\ notify[Main] = "RETRY" => main.tries = 1
  /\ LET passed == notify[Main] = "SUCCESS"
     IN  /\ app' = IF main.op = "BOOT" THEN IF passed THEN "READY" ELSE app
                   ELSE IF passed THEN app ELSE "ERROR"
         /\ granted' = (granted \/ (passed /\ main.op = "PREP"))
  /\ main' = IdleCaller
  /\ notify' = [notify EXCEPT ![Main] = NoResp]
  /\ UNCHANGED <<fwState, mq, per, completion>>

(* firmwarePeriodicCalTask: the check of the DFI state, the request and    *)
(* the exit are apart; any task of higher priority may run between them.   *)
PeriodicMayRun == Blocked /\ main.ph = "idle"

PeriodicWake ==
  /\ PeriodicMayRun /\ per = "sleep" /\ dfi = "Idle"
  /\ completion' = FALSE
  /\ notify' = [notify EXCEPT ![Periodic] = NoResp]
  /\ per' = "send"
  /\ UNCHANGED <<fwState, mq, app, main, granted>>

PeriodicSend ==
  /\ PeriodicMayRun /\ per = "send"
  /\ mq' = Append(mq, Msg("PHYMSTR_REQ", Periodic, NoFreq))
  /\ per' = "answer"
  /\ UNCHANGED <<fwState, app, main, granted, callVars>>

PeriodicAnswer ==
  /\ PeriodicMayRun /\ per = "answer" /\ notify[Periodic] # NoResp
  /\ per' = IF notify[Periodic] = "SUCCESS" THEN "wait" ELSE "sleep"
  /\ notify' = [notify EXCEPT ![Periodic] = NoResp]
  /\ UNCHANGED <<fwState, mq, app, main, granted, completion>>

PeriodicProceed_NoExit ==
  /\ PeriodicMayRun /\ per = "wait" /\ completion
  /\ per' = "sleep"
  /\ UNCHANGED <<fwState, mq, app, main, granted, callVars>>

PeriodicProceed ==
  /\ PeriodicMayRun /\ per = "wait" /\ completion
  /\ per' = IF dfi = "PhyMstr" THEN "exit" ELSE "sleep"
  /\ UNCHANGED <<fwState, mq, app, main, granted, callVars>>

PeriodicExit ==
  /\ PeriodicMayRun /\ per = "exit"
  /\ mq' = Append(mq, Msg("PHYMSTR_EXIT", NoTask, NoFreq))
  /\ per' = "sleep"
  /\ UNCHANGED <<fwState, app, main, granted, callVars>>

(* dfi_phyupd_timer_callback sends without waiting and asserts success.    *)
TimerMayRun ==
  timer = "running" /\ IF TimerSlices THEN TasksMayRun ELSE Blocked

TimerFires ==
  /\ TimerMayRun /\ Len(mq) < MsgQueueLen
  /\ mq' = Append(mq, Msg("PHYUPD_REQ", NoTask, NoFreq))
  /\ UNCHANGED <<fwState, taskVars, callVars>>

TimerAssert ==
  /\ TimerMayRun /\ Len(mq) >= MsgQueueLen
  /\ halted' = TRUE
  /\ UNCHANGED <<ready, error, booted, timer, fsmVars, mq, fwVars, devVars,
                 taskVars, callVars>>

TaskNext ==
  \/ MainCall \/ MainSend \/ MainRetry \/ MainReturn
  \/ PeriodicWake \/ PeriodicSend \/ PeriodicAnswer \/ PeriodicProceed
  \/ PeriodicExit \/ TimerFires \/ TimerAssert

-----------------------------------------------------------------------------
(* The MC and the switch hardware, external.  The MC starts a switch when  *)
(* the host was told that the PHY is prepared, and grants and starts       *)
(* nothing before the PHY released its first INIT_COMPLETE override.       *)
McRaise(line) ==
  mcLines' = mcLines \cup {line} /\ sticky' = sticky \cup {line}

McInitStart ==
  /\ booted /\ mcSwitch = "none" /\ granted
  /\ mcLines \cap {"PHYUPD_ACK", "PHYMSTR_ACK", "CTRLUPD_REQ"} = {}
  /\ HostSerialises => main.ph = "idle"
  /\ McRaise("INIT_START")
  /\ mcSwitch' = "requested" /\ granted' = FALSE
  /\ UNCHANGED <<mcFrame, irqEn, phyLines, pllVars, app, main, per>>

(* An armed PHY drops INIT_COMPLETE, the MC changes the clock and drops    *)
(* INIT_START, and the PLL starts to lock on the VCO that was selected.    *)
McInitLow ==
  /\ mcSwitch = "requested" /\ prepDone
  /\ mcLines' = mcLines \ {"INIT_START"}
  /\ mcSwitch' = "relocking"
  /\ hwVco' = IF pll.next = NoVco THEN hwVco ELSE pll.next
  /\ locked' = FALSE
  /\ UNCHANGED <<mcFrame, irqVars, phyLines, pll, losses, taskVars>>

PllLocks ==
  /\ ~locked
  /\ locked' = TRUE /\ sticky' = PllEdge("PLL_LOCK")
  /\ UNCHANGED <<mcFrame, irqEn, busVars, pll, hwVco, losses, taskVars>>

PllLoses ==
  /\ booted /\ locked /\ losses < MaxLoss
  /\ locked' = FALSE /\ sticky' = PllEdge("PLL_LOSS_LOCK")
  /\ losses' = losses + 1
  /\ UNCHANGED <<mcFrame, irqEn, busVars, pll, hwVco, taskVars>>

(* INIT_COMPLETE rises again once the post work is done.                   *)
McInitComplete ==
  /\ mcSwitch = "relocking" /\ locked /\ ~prepDone
  /\ "INIT_COMPLETE_OVR" \notin phyLines
  /\ mcSwitch' = "none"
  /\ UNCHANGED <<mcFrame, irqVars, phyLines, mcLines, pllVars, taskVars>>

(* PHYMSTR is never granted during a switch; PHYUPD need not be.           *)
McAckUpd ==
  /\ "PHYUPD_REQ" \in phyLines /\ "PHYUPD_ACK" \notin mcLines
  /\ mcSwitch = "none" \/ McMayAckLate
  /\ McRaise("PHYUPD_ACK")
  /\ UNCHANGED <<mcFrame, irqEn, phyLines, mcSwitch, pllVars, taskVars>>

McAckMstr ==
  /\ "PHYMSTR_REQ" \in phyLines /\ "PHYMSTR_ACK" \notin mcLines
  /\ mcSwitch = "none"
  /\ McRaise("PHYMSTR_ACK")
  /\ UNCHANGED <<mcFrame, irqEn, phyLines, mcSwitch, pllVars, taskVars>>

McDropAck ==
  /\ \/ /\ "PHYUPD_ACK" \in mcLines /\ "PHYUPD_REQ" \notin phyLines
        /\ mcLines' = mcLines \ {"PHYUPD_ACK"}
     \/ /\ "PHYMSTR_ACK" \in mcLines /\ "PHYMSTR_REQ" \notin phyLines
        /\ mcLines' = mcLines \ {"PHYMSTR_ACK"}
  /\ UNCHANGED <<mcFrame, irqVars, phyLines, mcSwitch, pllVars, taskVars>>

McCtrlUpdAssert ==
  /\ McCtrlUpd /\ booted /\ mcSwitch = "none"
  /\ "CTRLUPD_REQ" \notin mcLines
  /\ mcLines' = mcLines \cup {"CTRLUPD_REQ"}
  /\ sticky' = sticky \cup {"CTRLUPD_ASSERT"}
  /\ UNCHANGED <<mcFrame, irqEn, phyLines, mcSwitch, pllVars, taskVars>>

McCtrlUpdDeassert ==
  /\ "CTRLUPD_REQ" \in mcLines
  /\ mcLines' = mcLines \ {"CTRLUPD_REQ"}
  /\ sticky' = sticky \cup {"CTRLUPD_DEASSERT"}
  /\ UNCHANGED <<mcFrame, irqEn, phyLines, mcSwitch, pllVars, taskVars>>

EnvNext ==
  \/ McInitStart \/ McInitLow \/ PllLocks \/ PllLoses \/ McInitComplete
  \/ McAckUpd \/ McAckMstr \/ McDropAck \/ McCtrlUpdAssert \/ McCtrlUpdDeassert

Next == FwNext \/ IsrNext \/ TaskNext \/ EnvNext

Spec == Init /\ [][Next]_vars
=============================================================================
