---------------------------- MODULE PhyTaskProps ----------------------------
(***************************************************************************)
(* What must hold of PhyTask: its types, safety, liveness under the        *)
(* fairness that the scheduler and the hardware provide, and the           *)
(* frequency switch that FreqSwitch specifies.                             *)
(***************************************************************************)
EXTENDS PhyTask

FwLabels == {"receive", "boot", "boot_start", "prep", "wait_init_low", "abort",
             "abort_deassert", "abort_wait", "release", "update",
             "update_wait", "exit_wait", "ctrlupd_wait"}

Callers == [ph : {"idle", "send", "wait"}, op : {"BOOT", "PREP"},
            freq : Freqs \cup {NoFreq}, tries : 0 .. PrepTries]

(* Every variable keeps the type of the C object it stands for.            *)
StatusOK ==
  /\ ready \in BOOLEAN /\ error \in BOOLEAN /\ booted \in BOOLEAN
  /\ halted \in BOOLEAN /\ timer \in {"stopped", "running", "deleted"}
QueueOK == mq \in Seq(Messages) /\ Len(mq) <= MsgQueueLen
MachinesOK ==
  /\ fsw \in FswStates /\ dfi \in DfiStates
  /\ pc \in FwLabels /\ cur \in Messages \cup {NoMsg}
  /\ (cur = NoMsg) <=> (pc = "receive")
BusOK ==
  /\ irqEn \subseteq Sources /\ sticky \subseteq Sources
  /\ phyLines \subseteq {"INIT_COMPLETE_OVR", "PHYUPD_REQ", "PHYMSTR_REQ"}
  /\ mcLines \subseteq {"INIT_START", "CTRLUPD_REQ"} \cup LineSources
  /\ mcSwitch \in {"none", "requested", "relocking"}
PllOK ==
  /\ pll \in Plls /\ hwVco \in Vcos /\ locked \in BOOLEAN
  /\ losses \in 0 .. MaxLoss
  /\ prepDone \in BOOLEAN /\ bufFull \in BOOLEAN
CallersOK ==
  /\ app \in {"IDLE", "READY", "ERROR"} /\ main \in Callers
  /\ granted \in BOOLEAN /\ completion \in BOOLEAN
  /\ per \in {"off", "sleep", "send", "answer", "wait", "exit"}
  /\ notify \in [Tasks -> Resps \cup {NoResp}]

TypeOK == StatusOK /\ QueueOK /\ MachinesOK /\ BusOK /\ PllOK /\ CallersOK

-----------------------------------------------------------------------------
(* Safety.                                                                 *)
DrainLabels == {"wait_init_low", "abort", "abort_deassert", "abort_wait",
                "release"}

(* What a handler may rely on at each of its steps: the machine it was     *)
(* entered for has not moved, the requests raised are those of the current *)
(* dfi state, and those it withdrew are down.                              *)
HandlerInv ==
  /\ pc \in {"boot", "boot_start"} => ~ready
  /\ pc \notin {"receive", "boot", "boot_start"} => fsw = "Prep"
  /\ pc \in DrainLabels => dfi # "CtrlUpd"
  /\ pc \in {"abort_deassert", "abort_wait"} =>
       dfi \in {"PhyUpd", "PhyMstrPending"}
  /\ pc = "abort_wait" => ReqLine(dfi) \notin phyLines
  /\ pc = "release" => dfi \notin {"PhyUpd", "PhyMstrPending"}
  /\ pc \in {"update", "update_wait"} => dfi = "PhyUpd"
  /\ pc = "update_wait" => "PHYUPD_REQ" \notin phyLines
  /\ pc = "exit_wait" => dfi = "PhyMstr" /\ "PHYMSTR_REQ" \notin phyLines
  /\ pc = "ctrlupd_wait" => dfi = "Idle"
  /\ "PHYUPD_REQ" \in phyLines => dfi = "PhyUpd"
  /\ "PHYMSTR_REQ" \in phyLines => dfi \in {"PhyMstrPending", "PhyMstr"}
  /\ fsw = "Pending" => dfi \in {"Idle", "PhyMstr"}

(* While the PHY waits for the PLL to lock it takes part in no DFI         *)
(* handshake: handle_dfi_event refuses the events that would start one and *)
(* fsw_pending_entry_handler withdraws the one that was open.              *)
PendingIsQuiet ==
  fsw = "Pending" => dfi \in {"Idle", "PhyMstr"} /\ "PHYUPD_REQ" \notin phyLines

(* DFI 5.0, section 4.21: an ungranted request is down before the PHY lets *)
(* dfi_init_complete rise again.                                           *)
RequestsWithdrawn ==
  [][ready /\ "INIT_COMPLETE_OVR" \in phyLines \ phyLines'
       => /\ "PHYUPD_REQ" \notin phyLines'
          /\ "PHYMSTR_REQ" \in phyLines' => dfi = "PhyMstr"]_vars

(* wddr_iocal_update_phy rewrites the driver codes only under an           *)
(* acknowledge of the MC, which a PHYUPD_ACK event `indicates'             *)
(* (phy_task.h:27), and for the frequency of the VCO that clocks the PHY.  *)
UpdateIsSafe ==
  pc = "update" => /\ "PHYUPD_ACK" \in mcLines
                   /\ pll.current = hwVco /\ pll.freq[hwVco] \in ValidFreqs

(* A switch is entered with MRW packets in the buffer and a VCO to go to.  *)
SwitchIsPrepared ==
  /\ pc = "wait_init_low" => bufFull /\ prepDone
  /\ pc \in DrainLabels \/ fsw = "Pending" => pll.next # NoVco

(* The VCO that clocks the PHY is never turned off and never reconfigured, *)
(* although the firmware learns of a switch only with PLL_LOCK.            *)
RunningVcoUntouched ==
  [][ready => /\ hwVco \in pll'.enabled
              /\ pll'.freq[hwVco] = pll.freq[hwVco]]_vars

(* The firmware and the hardware agree on the clock between two switches.  *)
ClockIsKnown ==
  booted /\ fsw = "Prep" /\ mcSwitch = "none" => pll.current = hwVco

(* While the PHY waits in fswPending for a PLL that is locked, the lock is *)
(* latched at an enabled interrupt or queued.  It is lost in two ways only:*)
(* pll_irq_handler takes it together with a loss of lock and reports the   *)
(* loss alone, or finds the queue full.                                    *)
Reported == \/ "PLL_LOCK" \in irqEn \cap sticky
            \/ \E i \in 1 .. Len(mq) : mq[i].event = "PLL_LOCK"
Unheard  == fsw = "Pending" /\ locked /\ ~Reported

LockIsKept ==
  [][~Unheard /\ Unheard' =>
       /\ "PLL_LOCK" \in sticky \ sticky'
       /\ "PLL_LOSS_LOCK" \in sticky \/ Len(mq) = MsgQueueLen]_vars

(* When the main task runs again its request has been answered, so that    *)
(* the PREP_TIMEOUT of xTaskNotifyWait never expires on an old value.      *)
ReplyIsThere == Blocked /\ main.ph = "wait" => notify[Main] # NoResp

(* What a waiting task finds in its notification answers its own message.  *)
(* firmware.h:34: xSender is the `pointer to task that sent the message'.  *)
Handling == IF pc = "receive" THEN Head(mq) ELSE cur
Awaits(t) == IF t = Main THEN main.ph = "wait" ELSE per = "answer"
ReplyIsOwn ==
  [][\A t \in Tasks :
       Awaits(t) /\ notify'[t] \notin {notify[t], NoResp}
         => /\ Handling.from = t
            /\ Handling.event = IF t = Main THEN main.op ELSE "PHYMSTR_REQ"]_vars

(* No event of an interrupt is lost to a full queue.                       *)
QueueHasRoom == Len(mq) < MsgQueueLen

(* A PHYUPD or PHYMSTR acknowledge interrupt is armed only for a request   *)
(* that is up and not yet answered.                                        *)
AckIsArmedOnce ==
  \A state \in {"PhyUpd", "PhyMstrPending"} :
    AckLine(state) \in irqEn =>
      /\ dfi = state /\ ReqLine(state) \in phyLines
      /\ \A i \in 1 .. Len(mq) : mq[i].event # AckLine(state)

(* The PHY holds the bus as a master only with the MC's grant, and a task  *)
(* is there to give it back.                                               *)
MasterIsGranted ==
  dfi = "PhyMstr" /\ pc = "receive" =>
    /\ "PHYMSTR_ACK" \in mcLines /\ mcSwitch = "none"
    /\ \/ per = "answer" \/ (per = "wait" /\ completion) \/ per = "exit"
       \/ \E i \in 1 .. Len(mq) : mq[i].event = "PHYMSTR_EXIT"

-----------------------------------------------------------------------------
(* Liveness.  An enabled interrupt is taken and the firmware task, which   *)
(* has the highest priority, runs until it is blocked.  The timer and the  *)
(* interrupts come at rates that leave the tasks below it time, so a task  *)
(* that may run again and again does run (SF).  The hardware and the MC    *)
(* finish what the DFI protocol obliges them to finish.                    *)
MainStep     == MainSend \/ MainRetry \/ MainReturn
PeriodicStep == PeriodicSend \/ PeriodicAnswer \/ PeriodicProceed
                \/ PeriodicExit

Fairness ==
  /\ WF_vars(FwNext) /\ WF_vars(IsrNext)
  /\ SF_vars(MainStep) /\ SF_vars(PeriodicStep)
  /\ WF_vars(McInitLow) /\ WF_vars(PllLocks) /\ WF_vars(McInitComplete)
  /\ WF_vars(McAckUpd) /\ WF_vars(McAckMstr) /\ WF_vars(McDropAck)

FairSpec == Spec /\ Fairness

(* A call of the host's, start or prepare, returns.                        *)
CallReturns == main.ph # "idle" ~> main.ph = "idle"

(* A switch that the MC starts ends with the PHY locked and accepting the  *)
(* next one: no handshake left open by the drain keeps it from completing. *)
SwitchEnds == mcSwitch = "requested" ~> mcSwitch = "none" /\ fsw = "Prep"

(* A PHYUPD request is acknowledged and done or withdrawn; none stays up   *)
(* with its interrupt disabled, which would end every later update.        *)
UpdateEnds == dfi = "PhyUpd" ~> dfi = "Idle" /\ "PHYUPD_REQ" \notin phyLines

(* The PHY gives the bus back to the MC.                                   *)
MasterEnds == dfi \in {"PhyMstrPending", "PhyMstr"} ~> dfi = "Idle"

(* The periodic task comes back to sleep and so calibrates again.          *)
(* phy_task.c:553: it will `Block until in PHY MASTER or it was aborted'.  *)
PeriodicReturns == per = "wait" ~> per = "sleep"

-----------------------------------------------------------------------------
(* Refinement: the firmware task switches frequency as FreqSwitch says.    *)
Phase ==
  IF fsw = "Pending" THEN "locking"
  ELSE IF pc \in DrainLabels THEN "draining"
  ELSE IF prepDone THEN "prepared" ELSE "idle"

Switch == INSTANCE FreqSwitch WITH
  Clocks   <- Vcos, NoClock <- NoVco,
  Requests <- {"PHYUPD_REQ", "PHYMSTR_REQ"}, LateGrants <- McMayAckLate,
  up       <- booted, phase <- Phase, clock <- pll.current, running <- hwVco,
  target   <- pll.next, freq <- pll.freq,
  requests <- phyLines \ {"INIT_COMPLETE_OVR"}

ImplementsSwitch == Switch!Spec

-----------------------------------------------------------------------------
(* What the comments say, and the code does not do in every case.          *)

(* phy_api.h:45: firmware_phy_prep_switch returns pdPASS `if prepared      *)
(* successfully'.                                                          *)
PrepMeansPrepared ==
  [][~granted /\ granted' => prepDone /\ pll.freq[pll.next] = main.freq]_vars

(* phy_api.h:31: firmware_phy_start returns pdPASS `if started             *)
(* successfully', so that what it starts accepts requests.                 *)
StartMeansAccepting == app = "READY" => Accepting

(* phy_task.c:398: `Disable CTRLUPD interface' once the PHY is booted.     *)
CtrlUpdIsDisabled == ready => dfi # "CtrlUpd"
=============================================================================
