----------------------------- MODULE FreqSwitch -----------------------------
(***************************************************************************)
(* What the firmware promises about a change of frequency, and where its   *)
(* two models meet: PhyTask, which looks at the task, and WddrDevice, which*)
(* looks at the devices, both implement it.  The PHY is prepared for a     *)
(* target VCO, then drained of its own requests, then locks on the target, *)
(* and only then counts as running on it.  The hardware moves on its own:  *)
(* `clock' is the VCO the firmware believes the PHY to run on, `running'   *)
(* the one it does.  `requests' are those the PHY holds raised.            *)
(***************************************************************************)
CONSTANTS
  Clocks, NoClock,    \* the VCOs; no target
  Freqs, NoFreq,      \* what a VCO may be configured for; nothing yet
  Requests,           \* the requests of the PHY
  LateGrants          \* a request may be granted when the clock has moved

VARIABLES up, phase, clock, running, target, freq, requests
vars == <<up, phase, clock, running, target, freq, requests>>

Phases == {"idle", "prepared", "draining", "locking"}

Init ==
  /\ up = FALSE
  /\ phase = "idle" /\ target = NoClock /\ requests = {}
  /\ clock \in Clocks /\ running = clock
  /\ freq = [v \in Clocks |-> NoFreq]

(* Before the interface is up software moves the clock as it likes.        *)
Boot ==
  /\ ~up
  /\ up' \in BOOLEAN /\ clock' \in Clocks /\ running' = clock'
  /\ freq' \in [Clocks -> Freqs \cup {NoFreq}]
  /\ UNCHANGED <<phase, target, requests>>

Settled == phase \in {"idle", "prepared"}

(* A prepared switch may be prepared again, until the hardware has moved.  *)
(* The VCO that is configured is not the one that runs.                    *)
Prepare ==
  /\ up /\ Settled /\ running = clock
  /\ target' \in Clocks \ {clock}
  /\ \E f \in Freqs : freq' = [freq EXCEPT ![target'] = f]
  /\ phase' = "prepared"
  /\ UNCHANGED <<up, clock, running, requests>>

(* The hardware leaves for the target, before the firmware learns of it or *)
(* after.                                                                  *)
Move ==
  /\ phase # "idle" /\ running = clock
  /\ running' = target
  /\ UNCHANGED <<up, phase, clock, target, freq, requests>>

(* One request at a time, and none from the moment the switch begins.      *)
Raise(r) ==
  /\ up /\ Settled /\ requests = {}
  /\ requests' = {r}
  /\ UNCHANGED <<up, phase, clock, running, target, freq>>

(* A request that was granted is carried out, on the clock the firmware    *)
(* believes in, and withdrawn.                                             *)
Finish(r) ==
  /\ Settled /\ (running = clock \/ LateGrants)
  /\ r \in requests /\ requests' = requests \ {r}
  /\ UNCHANGED <<up, phase, clock, running, target, freq>>

(* One that was not granted is withdrawn by the switch, with its begin ... *)
Drain ==
  /\ phase = "prepared" /\ phase' = "draining"
  /\ requests' \subseteq requests
  /\ UNCHANGED <<up, clock, running, target, freq>>

Abort(r) ==                      (* ... or after it.                       *)
  /\ phase = "draining"
  /\ r \in requests /\ requests' = requests \ {r}
  /\ UNCHANGED <<up, phase, clock, running, target, freq>>

Lock ==
  /\ phase = "draining" /\ requests = {}
  /\ phase' = "locking"
  /\ UNCHANGED <<up, clock, running, target, freq, requests>>

Complete ==
  /\ phase = "locking" /\ running = target
  /\ phase' = "idle" /\ clock' = target /\ target' = NoClock
  /\ UNCHANGED <<up, running, freq, requests>>

Next == Boot \/ Prepare \/ Move \/ Drain \/ Lock \/ Complete
        \/ \E r \in Requests : Raise(r) \/ Finish(r) \/ Abort(r)

Spec == Init /\ [][Next]_vars
=============================================================================
