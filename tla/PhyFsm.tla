------------------------------- MODULE PhyFsm -------------------------------
(***************************************************************************)
(* The events of the PHY firmware task and the two state machines that     *)
(* react to them (firmware/phy_task.c): fsw, the frequency switch, and     *)
(* dfi, the handshakes with the memory controller.  A table is the set of  *)
(* <<state, event, next state>> the C arrays of `struct transition' hold.  *)
(***************************************************************************)

(* Events routed to handle_fsw_event and to handle_dfi_event by the table  *)
(* event_handlers.  BOOT has a handler of its own; the LP events are never *)
(* sent, nor are INIT_COMPLETE, whose interrupt fsw_init disables for good,*)
(* and PLL_INIT_LOCK, whose interrupt pll_init leaves off.  PHYMSTR_ABORT  *)
(* and PHYUPD_ABORT are raised by a handler, not received as messages.     *)
FswEvents == {"PREP", "INIT_START", "PLL_LOCK", "PLL_LOSS_LOCK"}
DfiEvents == {"PHYUPD_REQ", "PHYMSTR_REQ", "PHYMSTR_EXIT", "PHYMSTR_ACK",
              "PHYUPD_ACK", "CTRLUPD_ASSERT", "CTRLUPD_DEASSERT"}
Events    == {"BOOT"} \cup FswEvents \cup DfiEvents

FswStates == {"Prep", "Pending"}
DfiStates == {"Idle", "PhyMstrPending", "PhyMstr", "PhyUpd", "CtrlUpd"}

(* Planted fault: a lock of the PLL does not end the switch.               *)
FswTransitions_NoLock ==
  {<<"Prep", "PREP", "Prep">>, <<"Prep", "INIT_START", "Pending">>}

FswTransitions ==
  {<<"Prep",    "PREP",       "Prep">>,
   <<"Prep",    "INIT_START", "Pending">>,
   <<"Pending", "PLL_LOCK",   "Prep">>}

DfiTransitions ==
  {<<"Idle",           "PHYMSTR_REQ",      "PhyMstrPending">>,
   <<"Idle",           "PHYUPD_REQ",       "PhyUpd">>,
   <<"Idle",           "CTRLUPD_ASSERT",   "CtrlUpd">>,
   <<"PhyMstrPending", "PHYMSTR_ACK",      "PhyMstr">>,
   <<"PhyMstrPending", "PHYMSTR_ABORT",    "Idle">>,
   <<"PhyMstr",        "PHYMSTR_EXIT",     "Idle">>,
   <<"PhyUpd",         "PHYUPD_ACK",       "Idle">>,
   <<"PhyUpd",         "PHYUPD_ABORT",     "Idle">>,
   <<"CtrlUpd",        "CTRLUPD_DEASSERT", "Idle">>}

(* stateM_handleEvent: the table has a row for the event, or it leaves the *)
(* state machine where it is (stateM_noStateChange, which is no error).    *)
Reacts(table, state, event) ==
  \E row \in table : row[1] = state /\ row[2] = event

Target(table, state, event) ==
  (CHOOSE row \in table : row[1] = state /\ row[2] = event)[3]
=============================================================================
