------------------------------ MODULE DfiFifo ------------------------------
(***************************************************************************)
(* The DFI command buffer (dev/dfi/buffer.c, drivers/dfi/dfi_fifo.c) of    *)
(* channel 0: the ingress FIFO, its clock, whether it has the DFI bus      *)
(* (BUF_MODE) and whether time stamps are compared (TS_ENABLE), which is   *)
(* what sends packets.  WDATA_CLR is taken to empty the FIFO.              *)
(***************************************************************************)
EXTENDS Naturals, Sequences

CONSTANT FifoDepth             \* DFI_FIFO_DEPTH

ASSUME FifoAssumption == FifoDepth \in Nat \ {0}

NewFifo == [clk |-> FALSE, bufMode |-> FALSE, ts |-> FALSE, ig |-> <<>>]

(* Definitions named X_Y are faults planted in X.                          *)
Enabled_NoClear(b) == [b EXCEPT !.clk = TRUE]
(* dfi_buffer_enable: the clock, and a pulse of the clear bits.            *)
Enabled(b) == [b EXCEPT !.clk = TRUE, !.ig = <<>>]

(* Packets are written until the FIFO is full; the rest is lost.           *)
Loaded(ig, list) ==
  LET room == FifoDepth - Len(ig)
  IN  ig \o SubSeq(list, 1, IF Len(list) < room THEN Len(list) ELSE room)

(* dfi_buffer_fill_packets; an empty list is an error, after the clear.    *)
Filled(b, list) == [Enabled(b) EXCEPT !.ig = Loaded(@, list)]
FillOk(list)    == list # <<>> /\ Len(list) <= FifoDepth

(* dfi_fifo_send_packets_reg_if starts, and ends when the FIFO is empty.   *)
Sending(b) == [b EXCEPT !.bufMode = TRUE, !.ts = TRUE]
Sends(b)   == b.clk /\ b.bufMode /\ b.ts
SendOver(b) == [b EXCEPT !.ts = FALSE]

(* dfi_buffer_disable: the DFI bus goes back to the memory controller.     *)
Disabled(b) == [b EXCEPT !.bufMode = FALSE, !.ts = FALSE]
=============================================================================
