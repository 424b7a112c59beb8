------------------------------- MODULE PllVco -------------------------------
(***************************************************************************)
(* The PLL device (dev/pll/device.c): three VCOs, VCO_INDEX_MCU (the MCU   *)
(* clock) and two that clock the PHY and take turns, one running while the *)
(* other is configured for the next frequency.  A PLL is a record          *)
(*   current, next, prev : the pointers p_vco_current, p_vco_next and      *)
(*                         p_vco_prev, NoVco when NULL,                    *)
(*   enabled             : the PHY VCOs whose enable bit is set,           *)
(*   freq                : the freq_id each VCO was last configured for.   *)
(***************************************************************************)

CONSTANTS Freqs, NoFreq      \* frequency indices; UNDEFINED_FREQ_ID

PhyVcos == {"PHY_1", "PHY_2"}
Vcos    == {"MCU"} \cup PhyVcos
NoVco   == "none"

Plls == [current : Vcos, next : PhyVcos \cup {NoVco},
         prev : Vcos \cup {NoVco}, enabled : SUBSET PhyVcos,
         freq : [Vcos -> Freqs \cup {NoFreq}]]

(* pll_init, then pll_boot.                                                *)
BootedPll == [current |-> "MCU", next |-> NoVco, prev |-> NoVco,
              enabled |-> {}, freq |-> [v \in Vcos |-> NoFreq]]

(* Definitions named X_Y are faults planted in X, to see that a property   *)
(* notices: here a search that starts at VCO 0, or ignores the current one.*)
FreeVco_FromZero(pll) == IF pll.current = "MCU" THEN "PHY_1" ELSE "MCU"
FreeVco_First(pll)    == "PHY_1"

(* The first PHY VCO, in index order, that is not the current one.         *)
FreeVco(pll) == IF pll.current = "PHY_1" THEN "PHY_2" ELSE "PHY_1"

Prepare_NoPointer(pll, f) ==
  LET v == FreeVco(pll)
  IN  [pll EXCEPT !.enabled = @ \cup {v}, !.freq[v] = f]

(* pll_prepare_vco_switch                                                  *)
Prepare(pll, f) ==
  LET v == FreeVco(pll)
  IN  [pll EXCEPT !.next = v, !.enabled = @ \cup {v}, !.freq[v] = f]

SwitchVco_NoSwap(pll) ==
  IF pll.next = NoVco THEN pll
  ELSE [pll EXCEPT !.prev = pll.current, !.next = NoVco]

(* pll_switch_vco: an error, which fsw_post_switch_handler ignores, when   *)
(* nothing was prepared.                                                   *)
SwitchVco(pll) ==
  IF pll.next = NoVco THEN pll
  ELSE [pll EXCEPT !.prev = pll.current, !.current = pll.next, !.next = NoVco]

DisableVco_Current(pll) ==
  IF pll.prev = NoVco THEN pll
  ELSE [pll EXCEPT !.enabled = @ \ {pll.current}, !.prev = NoVco]

(* pll_disable_vco: VCO0 is never disabled, its FLL takes over.            *)
DisableVco(pll) ==
  IF pll.prev = NoVco THEN pll
  ELSE [pll EXCEPT !.enabled = @ \ {pll.prev}, !.prev = NoVco]

(* wddr_sw_freq_switch, which does nothing once wddr_boot has succeeded.   *)
SwSwitch(pll, f, booted) ==
  IF booted THEN pll ELSE DisableVco(SwitchVco(Prepare(pll, f)))

(* The loop of wddr_boot that leaves the PHY on VCO_INDEX_PHY_1: from      *)
(* either other VCO one switch gets there.                                 *)
UntilPhy1(pll, f, booted) ==
  IF pll.current = "PHY_1" THEN pll ELSE SwSwitch(pll, f, booted)
=============================================================================
