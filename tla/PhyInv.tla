------------------------------- MODULE PhyInv -------------------------------
(***************************************************************************)
(* The invariants from which the properties of PhyTaskProps follow.  They  *)
(* track what is under way: a message in the queue, an edge in a sticky    *)
(* bit, the INIT_START of a switch, the acknowledge of a request, the lock *)
(* that ends a switch, the request a task waits for.                       *)
(***************************************************************************)
EXTENDS PhyTaskProps, FiniteSets

(* Messages in the queue: at least one of the event, at most one, an f     *)
(* behind an e, one that the task t sent, how many there are.              *)
Queued(e) == \E i \in 1 .. Len(mq) : mq[i].event = e
Once(e)   == \A i, j \in 1 .. Len(mq) :
               mq[i].event = e /\ mq[j].event = e => i = j
Behind(e, f) == \E i, j \in 1 .. Len(mq) :
                  i < j /\ mq[i].event = e /\ mq[j].event = f
Sent(t) == \E i \in 1 .. Len(mq) : mq[i].from = t
Places(e) == {i \in 1 .. Len(mq) : mq[i].event = e}
Count(e)  == Cardinality(Places(e))

(* The events of a switch and of a handshake that only interrupts send.    *)
IrqEvents == LineSources \cup {"PLL_LOCK"}

-----------------------------------------------------------------------------
(* The clock.  Each INIT_START of the MC is a token that is latched, then  *)
(* queued, then handled, and that PostSwitch consumes: there is at most    *)
(* one, and only during a switch of the MC's.  While the token is there    *)
(* and the clock has changed, the clock runs on the VCO prepared.          *)
Draining == pc \in DrainLabels \/ fsw = "Pending"
Token    == "INIT_START" \in sticky \/ Queued("INIT_START") \/ Draining

OneToken ==
  /\ Once("INIT_START")
  /\ "INIT_START" \in sticky => ~Queued("INIT_START") /\ ~Draining
  /\ Queued("INIT_START") => ~Draining
  /\ Token => mcSwitch # "none"
  /\ (mcSwitch = "requested") <=> ("INIT_START" \in mcLines)
  /\ Draining /\ pc # "wait_init_low" => mcSwitch = "relocking"

OnlyWhenReady ==
  /\ \A t \in Tasks : notify[t] = "SUCCESS" => ready
  /\ granted \/ prepDone \/ mcSwitch # "none" => ready
  /\ pc \notin {"receive", "boot", "boot_start"} => ready

ClockFollows ==
  /\ prepDone <=> pll.next # NoVco
  /\ prepDone => pll.next = FreeVco(pll)
  /\ booted /\ mcSwitch # "relocking" => hwVco = pll.current
  /\ mcSwitch = "relocking" /\ ~prepDone => hwVco = pll.current
  /\ mcSwitch = "relocking" /\ Token => prepDone /\ hwVco = pll.next

ClockInv == OneToken /\ OnlyWhenReady /\ ClockFollows

(* A PHY VCO in use or about to be was turned on, for a valid frequency.   *)
Configured(v) == v \in pll.enabled /\ pll.freq[v] \in ValidFreqs
VcoInv ==
  /\ pll.prev = NoVco
  /\ pll.current # "MCU" => Configured(pll.current)
  /\ pll.next # NoVco => Configured(pll.next)
  /\ ready \/ pc = "boot_start" => booted
  /\ booted => pll.current # "MCU"

-----------------------------------------------------------------------------
(* The acknowledges, on the PHY's side.  A message PHYUPD_ACK or           *)
(* PHYMSTR_ACK outlives the state that waits for it only when that request *)
(* is aborted; it is then refused in fswPending, because the lock that     *)
(* ends that state is queued behind it.                                    *)
Owners == {"PhyUpd", "PhyMstrPending"}

AckInv ==
  /\ \A s \in Owners :
       /\ Once(AckLine(s))
       /\ Queued(AckLine(s)) =>
            \/ dfi = s /\ pc \notin {"update", "update_wait"}
            \/ pc = "release" \/ fsw = "Pending"
       /\ AckLine(s) \in irqEn =>
            /\ dfi = s /\ ReqLine(s) \in phyLines /\ ~Queued(AckLine(s))
            /\ pc \notin {"abort_deassert", "abort_wait", "update",
                          "update_wait"}
       /\ fsw = "Pending" => ~Behind("PLL_LOCK", AckLine(s))
  /\ "PLL_LOCK" \in irqEn => fsw = "Pending"
  /\ pc \in DrainLabels => ~Queued("PLL_LOCK")
  /\ ~Behind("INIT_START", "PLL_LOCK")

(* The acknowledges, on the MC's side.  An edge latched or queued is that  *)
(* of an acknowledge that is still up, for a request that is still up, and *)
(* no acknowledge is up during a switch.  The MC grants no mastership late;*)
(* that it does not acknowledge an update late is its McMayAckLate.        *)
AckHeld(s) ==
  /\ AckLine(s) \in sticky \/ Queued(AckLine(s)) =>
       AckLine(s) \in mcLines /\ ReqLine(s) \in phyLines /\ dfi = s
  /\ AckLine(s) \in sticky => ~Queued(AckLine(s))
  /\ mcSwitch # "none" => AckLine(s) \notin mcLines

McInv ==
  /\ AckHeld("PhyMstrPending")
  /\ dfi = "PhyMstr" /\ pc # "exit_wait" =>
       "PHYMSTR_REQ" \in phyLines /\ "PHYMSTR_ACK" \in mcLines
  /\ ~McMayAckLate =>
       /\ AckHeld("PhyUpd")
       /\ pc = "update" => /\ "PHYUPD_REQ" \in phyLines
                           /\ "PHYUPD_ACK" \in mcLines \ sticky

(* A handler is entered, and a machine leaves its first state, only after  *)
(* a start that succeeded.                                                 *)
AcceptInv ==
  pc \notin {"receive", "boot", "boot_start"} \/ dfi # "Idle" \/ fsw # "Prep"
    => Accepting

-----------------------------------------------------------------------------
(* The callers.  A request is in the queue, in the handler, or answered.   *)
ReplyInv ==
  main.ph = "wait" =>
    notify[Main] # NoResp \/ cur.from = Main \/ Sent(Main)

(* The periodic task has one request under way at most, and from its grant *)
(* to the exit it is the task that holds the mastership.                   *)
Granted == notify[Periodic] = "SUCCESS"
MayAsk  == per = "send" \/ (per = "answer" /\ ~Granted)

MstrMsgs == \A i \in 1 .. Len(mq) :
              (mq[i].from = Periodic) <=> (mq[i].event = "PHYMSTR_REQ")

PeriodicInv ==
  /\ per # "off" => CalPeriodic
  /\ cur.from # Periodic
  /\ MstrMsgs /\ Once("PHYMSTR_REQ")
  /\ Queued("PHYMSTR_REQ") => per = "answer"
  /\ Queued("PHYMSTR_REQ") \/ per = "send" => notify[Periodic] = NoResp
  /\ MayAsk => ~completion /\ dfi \notin {"PhyMstrPending", "PhyMstr"}
  /\ dfi = "PhyMstrPending" =>
       ~completion /\ ((per = "answer" /\ Granted) \/ per = "wait")
  /\ dfi = "PhyMstr" /\ pc # "exit_wait" =>
       \/ completion /\ ((per = "answer" /\ Granted) \/ per = "wait")
       \/ per = "exit" \/ (per = "sleep" /\ Queued("PHYMSTR_EXIT"))

-----------------------------------------------------------------------------
(* The lock.  Its interrupt is armed from the release of INIT_COMPLETE to  *)
(* the handler that ends the switch.  In that time the PLL locks once, and *)
(* once more after each loss, and every message and latched bit of either  *)
(* kind stands for an edge of its own.                                     *)
Bit(b) == IF b THEN 1 ELSE 0
EdgeInv ==
  /\ "PLL_LOCK" \in sticky \/ fsw = "Pending" => "PLL_LOCK" \in irqEn
  /\ Count("PLL_LOSS_LOCK") + Bit("PLL_LOSS_LOCK" \in sticky) <= losses
  /\ Count("PLL_LOCK") <= 1 + losses
  /\ "PLL_LOCK" \in irqEn =>
       Count("PLL_LOCK") + Bit("PLL_LOCK" \in sticky) + Bit(~locked)
         <= 1 + losses

(* A PLL that never loses its lock: one edge for each switch, seen only in *)
(* fswPending.                                                             *)
LockInv ==
  /\ {"PLL_LOSS_LOCK"} \cap sticky = {} /\ ~Queued("PLL_LOSS_LOCK")
  /\ Once("PLL_LOCK")
  /\ "PLL_LOCK" \in sticky \/ Queued("PLL_LOCK") => fsw = "Pending" /\ locked
  /\ "PLL_LOCK" \in sticky => ~Queued("PLL_LOCK")
  /\ ~locked => mcSwitch = "relocking"
  /\ fsw = "Pending" => "PLL_LOCK" \in irqEn

(* The host, when it serialises.  A BOOT or a PREP in the queue is the call*)
(* that the main task waits for; PllIsr may sign a lock as the main task.  *)
HostMsgs ==
  \A i \in 1 .. Len(mq) :
    /\ mq[i].event = "PREP" => mq[i].from = Main
    /\ mq[i].event \in {"BOOT", "PREP"} =>
         main.ph = "wait" /\ main.op = mq[i].event
    /\ mq[i].from = Main =>
         \/ mq[i].event \in {"BOOT", "PREP"}
         \/ mq[i].event = "PLL_LOCK" /\ MaxLoss = 0

(* From the call of a PREP to the return no switch is under way, and a     *)
(* switch that the MC may start, or has started and the PHY has not taken  *)
(* up, is prepared.                                                        *)
HostInv ==
  /\ main.ph # "idle" /\ main.op = "PREP" => mcSwitch = "none"
  /\ HostMsgs
  /\ cur.from = Main => /\ main.ph = "wait" /\ main.op = cur.event
                        /\ pc \in {"boot", "boot_start", "prep"}
  /\ pc = "prep" => cur.from = Main /\ cur.event = "PREP"
  /\ pc \in {"boot", "boot_start"} => cur.event = "BOOT"
  /\ main.ph # "idle" /\ main.op = "PREP" /\ notify[Main] = "SUCCESS" =>
       prepDone /\ bufFull
  /\ granted => prepDone /\ bufFull /\ mcSwitch = "none"
  /\ Token /\ (Draining => pc = "wait_init_low") => prepDone /\ bufFull
  /\ mcSwitch = "relocking" /\ prepDone => hwVco = pll.next

(* The queue, when the timer waits its turn and the MC leaves CTRLUPD      *)
(* alone: a task sends to an empty queue, interrupts queue behind it.      *)
QueueInv ==
  /\ sticky \cap CtrlSources = {} /\ "CTRLUPD_REQ" \notin mcLines
  /\ \A i \in 1 .. Len(mq) :
       mq[i].event \notin LineSources \cup PllSources => i = 1
=============================================================================
