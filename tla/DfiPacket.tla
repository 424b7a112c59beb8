----------------------------- MODULE DfiPacket -----------------------------
(***************************************************************************)
(* The DFI command buffer in memory (dev/dfi/packet.c): a list of packets, *)
(* each of them what the PHY drives at one DFI timestamp.  A DFI cycle     *)
(* holds 2^ratio DRAM cycles, of two data phases each; packets have room   *)
(* for WDDR_FREQ_RATIO_1TO2, two cycles.                                   *)
(*   time : the timestamp, 16 bits                                         *)
(*   cke  : the clock-enable pins are up (the clock itself always runs)    *)
(*   cmd  : the command frames, the n-th in DRAM cycle n - 1               *)
(*   en   : the DRAM cycles with wrdata_en                                 *)
(*   rd   : the DRAM cycles with rddata_en                                 *)
(*   data : DRAM cycle -> index of the first of its two words              *)
(***************************************************************************)
EXTENDS Naturals, Sequences, FiniteSets

Byte   == 0 .. 2^8 - 1
Word   == 0 .. 2^16 - 1
U8(n)  == n % 2^8
U16(n) == n % 2^16
Cycles == 0 .. 1

Packet(time, cke) == [time |-> time, cke |-> cke, cmd |-> <<>>, en |-> {},
                      rd |-> {}, data |-> <<>>]

(* A buffer: ts is ts_last_packet (1 when it is empty), list the packets   *)
(* that a call appends, left those the storage or the heap still has.      *)
NewBuffer(last, room) == [ts |-> last, list |-> <<>>, left |-> room]

HasRoom(b) == b.left > 0

(* Definitions named X_Y are faults planted in X.                          *)
Create_StaleTime(b, cke, gap) ==
  IF ~HasRoom(b) THEN b
  ELSE [b EXCEPT !.list = Append(@, Packet(U16(b.ts + gap), cke)),
                 !.left = @ - 1]

(* create_ck_packet_sequence and create_cke_packet_sequence, gap DFI       *)
(* cycles after the last packet; NULL when there is no packet left.        *)
Create(b, cke, gap) ==
  IF ~HasRoom(b) THEN b
  ELSE [ts   |-> U16(b.ts + gap),
        list |-> Append(b.list, Packet(U16(b.ts + gap), cke)),
        left |-> b.left - 1]

CreateCk(b, gap)  == Create(b, FALSE, gap)
CreateCke(b, gap) == Create(b, TRUE, gap)

Newest(b) == b.list[Len(b.list)]
SetNewest(b, p) == [b EXCEPT !.list[Len(b.list)] = p]

(* create_packet_group_info: phases to fill from a DRAM clock on.          *)
Group(ratio, clock, phases) ==
  [start |-> U16(clock) \div 2^ratio, offset |-> U16(clock) % 2^ratio,
   rem |-> phases]
NoGroup == [start |-> 0, offset |-> 0, rem |-> 0]

Smaller(m, n) == IF m < n THEN m ELSE n

GroupMask_NoOffset(g, perPacket) ==
  {c \in Cycles : c < Smaller(g.rem \div 2, perPacket)}

(* determine_group_mask for data phases: (base << offset) & base.          *)
GroupMask(g, perPacket) ==
  {c \in Cycles : g.offset <= c /\ c < Smaller(g.rem \div 2, perPacket)}

Advance_KeepOffset(g, perPacket) ==
  [g EXCEPT !.rem = @ - 2 * Cardinality(GroupMask(g, perPacket))]

Advance_WholePacket(g, perPacket) ==
  [g EXCEPT !.offset = 0, !.rem = @ - 2 * perPacket]

(* What every fill_*_packet leaves of its group.                           *)
Advance(g, perPacket) ==
  [start |-> g.start, offset |-> 0,
   rem |-> g.rem - 2 * Cardinality(GroupMask(g, perPacket))]

FillEnable(p, g, perPacket) == [p EXCEPT !.en = @ \cup GroupMask(g, perPacket)]
FillRead(p, g, perPacket)   == [p EXCEPT !.rd = @ \cup GroupMask(g, perPacket)]

(* fill_wrdata_packet: the words after those already sent, of phases.      *)
FillData(p, g, perPacket, phases) ==
  [p EXCEPT !.data = [c \in GroupMask(g, perPacket) |->
                        phases - g.rem + 2 * (c - g.offset)]]
=============================================================================
