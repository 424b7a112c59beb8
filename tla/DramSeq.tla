------------------------------ MODULE DramSeq ------------------------------
(***************************************************************************)
(* The DRAM device (dev/dram/device.c): it lays commands and their data    *)
(* out in time, as packets of a DFI buffer, from the timings of the        *)
(* frequency table.  A call takes one step per packet or command.  It      *)
(* takes an empty buffer where include/dev/dram/device.h asks for one: an  *)
(* RDFIFO may be appended to the packets of other calls.                   *)
(***************************************************************************)
EXTENDS DfiPacket

CONSTANTS
  Timings,     \* dram_freq_cfg_t of the table, as records
  WrOffsets,   \* wrdata_en_offset
  RdOffsets,   \* rddata_en_offset
  Bursts,      \* burst_length_t
  Rooms,       \* packets that can be allocated
  Lasts        \* ts_last_packet when the call is made

CaClkLen  == 3
Frames    == 4            \* MAX_COMMAND_FRAMES
MrwRoom   == 56           \* the packets of wddr_prep_freq_switch_mrw_update
Ranks     == 2
Registers == 5            \* MR1, MR2, MR11, MR12 and MR14 of each rank

(* With the widths that the fields have in C.                              *)
Timing == [ratio : {0, 1}, vref : Word, wrLat : Byte,
           wrEn : Byte, rdEn : Byte, sh : Byte]

ASSUME DramSeqAssumption ==
  /\ Timings \subseteq Timing
  /\ WrOffsets \subseteq Word /\ RdOffsets \subseteq Word
  /\ Bursts \subseteq {16, 32}
  /\ Rooms \subseteq Nat
  /\ Lasts \subseteq Word

Kinds == {"wrfifo", "read", "wrlvl", "cbt", "mrw"}
Jobs  ==
  {j \in [kind : Kinds, cfg : Timings, bl : Bursts, room : Rooms, last : Lasts,
          enOff : WrOffsets \cup RdOffsets \cup {0}] :
     /\ j.kind = "mrw" => j.room = MrwRoom
     /\ j.kind # "read" => j.last = 1
     /\ j.kind = "wrfifo" => j.enOff \in WrOffsets
     /\ j.kind = "read" => j.enOff \in RdOffsets
     /\ j.kind \notin {"wrfifo", "read"} => j.enOff = 0}

VARIABLES
  job,        \* the call
  buf,        \* its buffer
  pc,         \* where it is
  gap,        \* time_offset of the next packet
  frame,      \* the frames of the current command already sent
  command,    \* the commands already sent
  en, dat,    \* the groups of enables (wrdata_en or rddata_en) and of data
  result      \* what it returned

vars == <<job, buf, pc, gap, frame, command, en, dat, result>>

cfg       == job.cfg
PerPacket == 2^cfg.ratio
Clock(ts) == ts * 2^cfg.ratio                \* DRAM clock of a timestamp

Init ==
  /\ job \in Jobs /\ buf = NewBuffer(1, 0) /\ pc = "idle"
  /\ gap = 0 /\ frame = 0 /\ command = 0
  /\ en = NoGroup /\ dat = NoGroup /\ result = "none"

Call ==
  /\ pc \in {"idle", "done"}
  /\ job' \in Jobs
  /\ buf' = NewBuffer(job'.last, job'.room)
  /\ pc' = job'.kind
  /\ gap' = 1 /\ frame' = 0 /\ command' = 0
  /\ en' = NoGroup /\ dat' = NoGroup /\ result' = "none"

Return(r) == pc' = "done" /\ result' = r
Go(label) == pc' = label /\ UNCHANGED result

-----------------------------------------------------------------------------
(* dram_create_address_packet_sequence.  It stops at the first packet it   *)
(* cannot have, and no caller looks at what it returns.                    *)
AddressPacket ==
  /\ pc = "address" /\ frame < Frames
  /\ IF HasRoom(buf)
     THEN LET b == CreateCke(buf, gap)
              p == [Newest(b) EXCEPT
                      !.cmd = [n \in 1 .. PerPacket |-> <<command, frame + n>>]]
          IN  buf' = SetNewest(b, p) /\ frame' = frame + PerPacket /\ gap' = 1
     ELSE UNCHANGED <<buf, gap>> /\ frame' = Frames
  /\ UNCHANGED <<job, pc, command, en, dat, result>>

-----------------------------------------------------------------------------
(* dram_prepare_wrfifo_sequence: the DRAM clocks are held in 8 bits.       *)
WrEnableClock == U8(Clock(buf.ts + 1) + CaClkLen + cfg.wrLat + job.enOff)
WrDataClock   == U8(WrEnableClock + cfg.wrEn)

WrfifoBegin ==
  /\ pc = "wrfifo"
  /\ en'  = Group(cfg.ratio, WrEnableClock, job.bl + 4)
  /\ dat' = Group(cfg.ratio, WrDataClock, job.bl)
  /\ Go("address")
  /\ UNCHANGED <<job, buf, gap, frame, command>>

(* dram_prepare_read_sequence, for RDDQ and RDFIFO.                        *)
RdEnableClock == U8(Clock(buf.ts + 1) + CaClkLen + cfg.rdEn + job.enOff)

ReadBegin ==
  /\ pc = "read"
  /\ en' = Group(cfg.ratio, RdEnableClock, job.bl)
  /\ Go("address")
  /\ UNCHANGED <<job, buf, gap, frame, command, dat>>

BurstBegin_NoStep ==
  /\ pc = "address" /\ frame = Frames /\ job.kind # "mrw"
  /\ LET delay == U16(en.start + 2^16 - buf.ts)
     IN  /\ buf' = IF delay > 1 THEN CreateCke(buf, 1) ELSE buf
         /\ gap' = delay
  /\ Go("burst")
  /\ UNCHANGED <<job, frame, command, en, dat>>

(* Up to the first enable; a packet goes in between to keep the clock up.  *)
BurstBegin ==
  /\ pc = "address" /\ frame = Frames /\ job.kind # "mrw"
  /\ LET delay == IF job.kind = "read" THEN U16(en.start + 2^16 - buf.ts)
                  ELSE U8(en.start + 2^16 - buf.ts)
     IN  IF delay > 1 THEN buf' = CreateCke(buf, 1) /\ gap' = delay - 1
         ELSE gap' = delay /\ UNCHANGED buf
  /\ Go("burst")
  /\ UNCHANGED <<job, frame, command, en, dat>>

WrfifoPacket ==
  /\ pc = "burst" /\ job.kind = "wrfifo" /\ HasRoom(buf)
  /\ LET b  == CreateCke(buf, gap)
         e  == b.ts >= en.start
         d  == b.ts >= dat.start
         p1 == IF e THEN FillEnable(Newest(b), en, PerPacket) ELSE Newest(b)
         p2 == IF d THEN FillData(p1, dat, PerPacket, job.bl) ELSE p1
     IN  /\ buf' = SetNewest(b, p2)
         /\ en'  = IF e THEN Advance(en, PerPacket) ELSE en
         /\ dat' = IF d THEN Advance(dat, PerPacket) ELSE dat
  /\ gap' = 1
  /\ Go(IF en'.rem > 0 \/ dat'.rem > 0 THEN "burst" ELSE "closing")
  /\ UNCHANGED <<job, frame, command>>

ReadPacket ==
  /\ pc = "burst" /\ job.kind = "read" /\ HasRoom(buf)
  /\ LET b == CreateCke(buf, gap)
     IN  buf' = SetNewest(b, FillRead(Newest(b), en, PerPacket))
  /\ en' = Advance(en, PerPacket)
  /\ gap' = 1
  /\ Go(IF en'.rem > 0 THEN "burst" ELSE "closing")
  /\ UNCHANGED <<job, frame, command, dat>>

(* dram_prepare_wrlvl_sequence assumes four cycles in a packet.            *)
WrlvlBegin ==
  /\ pc = "wrlvl"
  /\ en' = Group(cfg.ratio, Clock(buf.ts + 1), 4)
  /\ Go("burst")
  /\ UNCHANGED <<job, buf, gap, frame, command, dat>>

WrlvlPacket ==
  /\ pc = "burst" /\ job.kind = "wrlvl" /\ HasRoom(buf)
  /\ LET b == CreateCke(buf, gap)
     IN  buf' = SetNewest(b, FillEnable(Newest(b), en, 4))
  /\ en' = Advance(en, 4)
  /\ gap' = 1
  /\ Go(IF en'.rem > 0 THEN "burst" ELSE "closing")
  /\ UNCHANGED <<job, frame, command, dat>>

(* A loop that cannot have its packet returns WDDR_ERROR.                  *)
OutOfPackets ==
  /\ pc \in {"burst", "cbt_data", "cbt_command"} /\ ~HasRoom(buf)
  /\ Return("ERROR")
  /\ UNCHANGED <<job, buf, gap, frame, command, en, dat>>

(* The packet that ends a sequence is not checked.                         *)
Closing ==
  /\ pc = "closing"
  /\ buf' = CreateCke(buf, 1)
  /\ Return("SUCCESS")
  /\ UNCHANGED <<job, gap, frame, command, en, dat>>

-----------------------------------------------------------------------------
(* dram_prepare_cbt_sequence: DQ takes the VREF setting, DQS toggles sh    *)
(* cycles later, and the trained command follows when VREF has settled.    *)
CbtBegin ==
  /\ pc = "cbt"
  /\ buf' = CreateCk(buf, 1)
  /\ LET clock == Clock(buf.ts + 1) + PerPacket
     IN  /\ dat' = Group(cfg.ratio, clock, 2 * (cfg.sh + 2 * PerPacket) + 4)
         /\ en'  = Group(cfg.ratio, clock + cfg.sh, 4)
  /\ gap' = U8(dat'.start + 2^16 - buf'.ts)
  /\ Go("cbt_data")
  /\ UNCHANGED <<job, frame, command>>

CbtPacket ==
  /\ pc = "cbt_data" /\ HasRoom(buf)
  /\ LET b  == CreateCk(buf, gap)
         e  == b.ts >= en.start
         d  == b.ts >= dat.start
         p1 == IF d THEN FillData(Newest(b), dat, PerPacket, dat.rem)
               ELSE Newest(b)
         p2 == IF e THEN FillEnable(p1, en, PerPacket) ELSE p1
     IN  /\ buf' = SetNewest(b, p2)
         /\ en'  = IF e THEN Advance(en, PerPacket) ELSE en
         /\ dat' = IF d THEN Advance(dat, PerPacket) ELSE dat
  /\ gap' = 1
  /\ Go(IF dat'.rem >= 2 * PerPacket THEN "cbt_data" ELSE "cbt_hold")
  /\ UNCHANGED <<job, frame, command>>

CbtHold_RoundsDown ==
  /\ pc = "cbt_hold"
  /\ buf' = CreateCk(buf, U8((cfg.sh + cfg.wrEn) \div PerPacket))
  /\ gap' = U8((cfg.vref - cfg.sh) \div PerPacket + 1)
  /\ Go("cbt_command")
  /\ UNCHANGED <<job, frame, command, en, dat>>

CbtHold ==
  /\ pc = "cbt_hold"
  /\ buf' = CreateCk(buf, U8((cfg.sh + cfg.wrEn) \div PerPacket + 1))
  /\ gap' = U8((cfg.vref - cfg.sh) \div PerPacket + 1)
  /\ Go("cbt_command")
  /\ UNCHANGED <<job, frame, command, en, dat>>

CbtCommand ==
  /\ pc = "cbt_command" /\ HasRoom(buf)
  /\ LET b == CreateCk(buf, gap)
         p == [Newest(b) EXCEPT !.cmd = << <<0, 1>> >>]
     IN  buf' = CreateCk(CreateCk(SetNewest(b, p), 1), 2)
  /\ command' = 1
  /\ Return("SUCCESS")
  /\ UNCHANGED <<job, gap, frame, en, dat>>

-----------------------------------------------------------------------------
(* dram_prepare_mrw_update: all registers of a rank, then of the other.    *)
(* command counts them, so that MR12 is 3 and MR14 is 4 modulo Registers.  *)
MrwGap(n) == IF n % Registers = Registers - 1 THEN cfg.vref ELSE 10

MrwBegin ==
  /\ pc = "mrw"
  /\ buf' = CreateCke(buf, 1)
  /\ gap' = MrwGap(0)
  /\ Go("address")
  /\ UNCHANGED <<job, frame, command, en, dat>>

MrwNext_OneRank ==
  /\ pc = "address" /\ frame = Frames /\ job.kind = "mrw"
  /\ buf' = CreateCke(buf, 1)
  /\ command' = command + 1 /\ frame' = 0 /\ gap' = MrwGap(command')
  /\ IF command' = Registers THEN Return("SUCCESS") ELSE Go("address")
  /\ UNCHANGED <<job, en, dat>>

MrwNext ==
  /\ pc = "address" /\ frame = Frames /\ job.kind = "mrw"
  /\ buf' = CreateCke(buf, 1)
  /\ command' = command + 1 /\ frame' = 0 /\ gap' = MrwGap(command')
  /\ IF command' = Ranks * Registers THEN Return("SUCCESS") ELSE Go("address")
  /\ UNCHANGED <<job, en, dat>>

Next ==
  \/ Call \/ AddressPacket
  \/ WrfifoBegin \/ ReadBegin \/ BurstBegin \/ WrfifoPacket \/ ReadPacket
  \/ WrlvlBegin \/ WrlvlPacket \/ OutOfPackets \/ Closing
  \/ CbtBegin \/ CbtPacket \/ CbtHold \/ CbtCommand
  \/ MrwBegin \/ MrwNext

Spec == Init /\ [][Next]_vars
=============================================================================
