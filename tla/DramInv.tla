------------------------------ MODULE DramInv ------------------------------
(***************************************************************************)
(* What a frequency table must satisfy for the sequences of DramSeq to be  *)
(* right, and the invariants from which the properties of DramSeqProps     *)
(* follow: how far each loop has come when its next packet is due.         *)
(***************************************************************************)
EXTENDS DramSeqProps

(* The sums that the code keeps in 8 bits fit, no wait is of no cycles,    *)
(* and a sequence fits the packets of a switch.                            *)
FirstClock(t, l) == (l + 1) * 2^t.ratio + CaClkLen
WriteFits(t, o) ==
  0 < t.wrLat + o /\ FirstClock(t, 1) + t.wrLat + o + t.wrEn < 2^8
ReadFits(t, o, l) ==
  0 < t.rdEn + o /\ FirstClock(t, l) + t.rdEn + o < 2^8
HoldFits(t)    == (t.sh + t.wrEn) \div 2^t.ratio + 1 < 2^8
VrefFits(t)    == U8((t.vref - t.sh) \div 2^t.ratio + 1) > 0
MrwFits(t)     == 0 < t.vref /\ 2 * t.vref < 2^16 - 2^8
RoomFits(t)    == t.wrEn <= 35 /\ t.sh <= 49

Writes  == \A t \in Timings, o \in WrOffsets : WriteFits(t, o)
Reads   == \A t \in Timings, o \in RdOffsets, l \in Lasts : ReadFits(t, o, l)
Trains  == \A t \in Timings : HoldFits(t)
Settles == \A t \in Timings : VrefFits(t)
Updates == \A t \in Timings : MrwFits(t)
Fits    == \A t \in Timings : RoomFits(t)

-----------------------------------------------------------------------------
(* The state between the calls of a sequence, and its room.                *)
Training == {"cbt_data", "cbt_hold", "cbt_command"}
Bursting == {"burst", "closing"}

PlaceInv ==
  /\ pc \in Kinds => job.kind = pc
  /\ pc = "address" => job.kind \in {"wrfifo", "read", "mrw"}
  /\ pc \in Bursting => job.kind \in {"wrfifo", "read", "wrlvl"}
  /\ pc \in Training => job.kind = "cbt"
  /\ pc \in Kinds =>
       /\ buf = NewBuffer(job.last, job.room) /\ gap = 1 /\ frame = 0 /\ command = 0
  /\ frame % PerPacket = 0
  /\ pc = "address" => command < Ranks * Registers
  /\ pc = "address" /\ job.kind # "mrw" => command = 0
  /\ pc # "done" => result = "none"

PacketData == [{} -> Int] \cup [{0} -> Int] \cup [{1} -> Int] \cup [Cycles -> Int]
PacketSet == [time : Word, cke : BOOLEAN, cmd : Seq(Nat \X Nat),
              en : SUBSET Cycles, rd : SUBSET Cycles, data : PacketData]
Buffers == [ts : Word, list : Seq(PacketSet), left : Nat]
BufferOK ==
  /\ buf \in Buffers
  /\ pc # "idle" => Len(buf.list) + buf.left = job.room

(* The timestamps so far increase up to that of the last packet.           *)
Ordered(b) ==
  /\ \A i, j \in 1 .. Len(b.list) : i < j => b.list[i].time < b.list[j].time
  /\ \A i \in 1 .. Len(b.list) : b.list[i].time <= b.ts

-----------------------------------------------------------------------------
(* Progress.  The next packet is due at Due, and everything before has     *)
(* been given.                                                             *)
Due == buf.ts + gap

(* A group of count clocks from first on, in packets of pp cycles: the     *)
(* clocks before the packet due, and a group that stands at that packet.   *)
GivenAt(pp, first, count, due) ==
  {x \in Between(first, count) : x < due * pp}
RemainingAt(pp, first, count, due) ==
  IF due * pp <= first THEN count
  ELSE IF due * pp >= first + count THEN 0
  ELSE first + count - due * pp
StandsAt(g, pp, first, count, due) ==
  /\ g.start = first \div pp
  /\ g.offset = IF due <= g.start THEN first % pp ELSE 0
  /\ g.rem = 2 * RemainingAt(pp, first, count, due)

Given(first, count)     == GivenAt(PerPacket, first, count, Due)
Stands(g, first, count) == StandsAt(g, PerPacket, first, count, Due)

Words(first, clocks) == {<<x, 2 * (x - first)>> : x \in clocks}

WrFirst == Begin + CaClkLen + cfg.wrLat + job.enOff
RdFirst == Begin + CaClkLen + cfg.rdEn + job.enOff
CbFirst == Begin + PerPacket
EnCount == (job.bl + 4) \div 2
DaCount == job.bl \div 2
CbCount == cfg.sh + 2 * PerPacket + 2

(* The command, one packet a cycle, until the packets run out: its frames  *)
(* in the first n packets after the timestamp l.                           *)
Played(pp, l, n) == {<<(l + 1) * pp + k - 1, <<0, k>>>> : k \in 1 .. pp * n}
Silent == EnableClocks = {} /\ ReadClocks = {} /\ DataWords = {}
Short  == buf.left = 0 /\ Len(buf.list) <= 5

AddressInv ==
  pc = "address" /\ job.kind # "mrw" /\ job.last < 2^8 =>
    /\ gap = 1 /\ buf.ts = job.last + Len(buf.list) /\ Silent
    /\ PerPacket * Len(buf.list) <= Frames
    /\ FrameClocks = Played(PerPacket, job.last, Len(buf.list))
    /\ frame = PerPacket * Len(buf.list) \/ (frame = Frames /\ Short)

Whole == FrameClocks = CommandAt(Begin, 0)

(* The bursts.                                                             *)
WriteBurst ==
  /\ Whole /\ gap >= 1 /\ Due >= WrFirst \div PerPacket
  /\ Stands(en, WrFirst, EnCount)
  /\ Stands(dat, WrFirst + cfg.wrEn, DaCount)
  /\ en.rem > 0 \/ dat.rem > 0
  /\ EnableClocks = Given(WrFirst, EnCount)
  /\ DataWords = Words(WrFirst + cfg.wrEn,
                       Given(WrFirst + cfg.wrEn, DaCount))
  /\ Len(buf.list) <= 5 + Due - WrFirst \div PerPacket

WriteInv ==
  /\ pc = "address" /\ job.kind = "wrfifo" =>
       /\ en  = Group(cfg.ratio, WrFirst, job.bl + 4)
       /\ dat = Group(cfg.ratio, WrFirst + cfg.wrEn, job.bl)
  /\ pc = "burst" /\ job.kind = "wrfifo" => Short \/ WriteBurst
  /\ job.kind = "wrfifo" /\ (pc = "closing" \/ Finished("wrfifo")) =>
       /\ Whole
       /\ EnableClocks = Between(WrFirst, EnCount)
       /\ DataWords = Words(WrFirst + cfg.wrEn,
                            Between(WrFirst + cfg.wrEn, DaCount))
       /\ pc = "closing" => buf.ts < 2^9

ReadBurst ==
  /\ Whole /\ gap >= 1 /\ Due >= RdFirst \div PerPacket
  /\ Stands(en, RdFirst, DaCount) /\ en.rem > 0
  /\ ReadClocks = Given(RdFirst, DaCount)
  /\ Len(buf.list) <= 5 + Due - RdFirst \div PerPacket

ReadInv ==
  /\ pc = "address" /\ job.kind = "read" => en = Group(cfg.ratio, RdFirst, job.bl)
  /\ pc = "burst" /\ job.kind = "read" => Short \/ ReadBurst
  /\ job.kind = "read" /\ (pc = "closing" \/ Finished("read")) =>
       /\ Whole /\ ReadClocks = Between(RdFirst, DaCount)
       /\ pc = "closing" => buf.ts < 2^9

(* One packet is enough for write levelling.                               *)
LevelInv ==
  job.kind = "wrlvl" =>
    /\ pc = "burst" =>
         /\ buf = NewBuffer(1, job.room) /\ gap = 1
         /\ en = [start |-> 2, offset |-> 0, rem |-> 4]
    /\ pc = "closing" => buf.ts = 2

(* Command bus training.                                                   *)
Driven   == {p \in Packets : p.data # <<>>}
Clocked  == {w[1] : w \in DataWords}
Held     == \A p \in Packets \ Driven, q \in Driven :
              p.time > q.time =>
                Clock(p.time) - Clock(q.time) > cfg.sh + cfg.wrEn

(* DQ is driven from the third timestamp on, for long enough, and DQS      *)
(* toggles when it should.                                                 *)
DrivenLast == (\A p \in Packets \ Driven : p.time < 3)
                /\ (\A p \in Driven : p.time >= 3)
Trained == /\ EnableClocks = Between(CbFirst + cfg.sh, 2)
           /\ Between(CbFirst, cfg.sh + 2) \subseteq Clocked

TrainData ==
  /\ gap = 1 /\ Due >= 3
  /\ Stands(dat, CbFirst, CbCount) /\ dat.rem >= 2 * PerPacket
  /\ Stands(en, CbFirst + cfg.sh, 2)
  /\ Clocked = Given(CbFirst, CbCount)
  /\ EnableClocks = Given(CbFirst + cfg.sh, 2)
  /\ DrivenLast /\ Len(buf.list) = buf.ts - 1

TrainHold ==
  /\ Trained /\ DrivenLast /\ Len(buf.list) = buf.ts - 1
  /\ Clock(buf.ts) < CbFirst + CbCount

TrainWait ==
  /\ \A q \in Driven : Clock(buf.ts) - Clock(q.time) > cfg.sh + cfg.wrEn
  /\ gap = U8((cfg.vref - cfg.sh) \div PerPacket + 1)
  /\ buf.ts < 2^10 /\ Clock(Len(buf.list) - 1) < CbFirst + CbCount

TrainInv ==
  /\ pc = "cbt_data" => Short \/ TrainData
  /\ pc = "cbt_hold" => TrainHold
  /\ (pc = "cbt_command" /\ buf.left > 0) \/ Finished("cbt") => Trained /\ Held
  /\ pc = "cbt_command" /\ buf.left > 0 => TrainWait

(* The mode registers of a switch: n frames of the current one, and all of *)
(* those before it.                                                        *)
Sent(c, n) == {mk \in (0 .. c) \X (1 .. Frames) : mk[1] = c => mk[2] <= n}
Apart == \A f, g \in FrameClocks :
           LET apart == g[1] - f[1]
           IN  /\ f[2][1] = g[2][1] => apart = g[2][2] - f[2][2]
               /\ f[2][1] + 1 = g[2][1] =>
                    apart > (IF f[2][1] % Registers = 3 THEN cfg.vref ELSE 10)
Lined == \A f \in FrameClocks :
           IF f[2][1] = command
           THEN f[1] = Clock(buf.ts + 1) - frame + f[2][2] - 1
           ELSE /\ f[1] < Clock(buf.ts)
                /\ frame > 0 /\ f[2][1] + 1 = command =>
                     f[1] + MrwGap(command) < Clock(buf.ts)

(* The last timestamp before a register, at the latest.                    *)
Vrefs(n) == IF n > 9 THEN 2 ELSE IF n > 4 THEN 1 ELSE 0
Latest(n) == 2 + 16 * n + cfg.vref * Vrefs(n)

UpdateRegister ==
  /\ {f[2] : f \in FrameClocks} = Sent(command, frame)
  /\ Apart /\ Lined
  /\ gap = IF frame = 0 THEN MrwGap(command) ELSE 1
  /\ buf.ts <= IF frame = 0 THEN Latest(command)
               ELSE Latest(command) + MrwGap(command) + frame - 1
  /\ Len(buf.list) = 1 + command * (Frames \div PerPacket + 1)
                       + frame \div PerPacket

UpdateInv ==
  /\ pc = "address" /\ job.kind = "mrw" => UpdateRegister
  /\ Finished("mrw") =>
       /\ {f[2] : f \in FrameClocks} = (0 .. Ranks * Registers - 1) \X (1 .. Frames)
       /\ Apart

(* The buffer of a switch never runs out of packets.                       *)
RoomInv == job.room >= MrwRoom =>
             /\ pc = "cbt_command" => buf.left > 0
             /\ pc = "done" => result = "SUCCESS"

(* What the calls of a sequence keep, all of it.                           *)
SequenceInv ==
  /\ AddressInv /\ WriteInv /\ ReadInv /\ LevelInv /\ TrainInv /\ UpdateInv
  /\ Ordered(buf)
=============================================================================
