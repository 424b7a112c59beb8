---------------------------- MODULE DramSeqProps ----------------------------
(***************************************************************************)
(* Where on the DRAM clock the sequences of DramSeq put their commands,    *)
(* enables and data, against what the timings ask for.                     *)
(***************************************************************************)
EXTENDS DramSeq, SequencesExt

Labels == {"idle", "address", "burst", "closing", "cbt_data", "cbt_hold",
           "cbt_command", "done"} \cup Kinds
Groups == [start : Word, offset : Cycles, rem : Word]

(* Each variable keeps the range of its C type.                            *)
TypeOK ==
  /\ job \in Jobs /\ pc \in Labels /\ gap \in Word
  /\ frame \in 0 .. Frames /\ command \in 0 .. Ranks * Registers
  /\ en \in Groups /\ dat \in Groups
  /\ result \in {"none", "SUCCESS", "ERROR"}
  /\ buf.ts \in Word /\ buf.left \in Nat
  /\ \A p \in ToSet(buf.list) : p.time \in Word

-----------------------------------------------------------------------------
(* What the finished buffer plays, in DRAM clocks.                         *)
Packets == ToSet(buf.list)
At(p, c) == Clock(p.time) + c
EnableClocks == UNION {{At(p, c) : c \in p.en} : p \in Packets}
ReadClocks   == UNION {{At(p, c) : c \in p.rd} : p \in Packets}
DataWords ==
  UNION {{<<At(p, c), p.data[c]>> : c \in DOMAIN p.data} : p \in Packets}
FrameClocks ==
  UNION {{<<At(p, n - 1), p.cmd[n]>> : n \in DOMAIN p.cmd} : p \in Packets}

Finished(kind) == pc = "done" /\ result = "SUCCESS" /\ job.kind = kind
Between(first, count) == first .. first + count - 1

(* The first command of a call starts at the packet after the last one.    *)
Begin == Clock(job.last + 1)
CommandAt(clock, n) ==
  {<<clock + k - 1, <<n, k>>>> : k \in 1 .. Frames}

(* The FIFO plays a packet when its counter reaches the timestamp: the     *)
(* times of a buffer increase, whatever an offset was truncated to.        *)
TimesAdvance ==
  \A i, j \in 1 .. Len(buf.list) :
    i < j => buf.list[i].time < buf.list[j].time

(* dram_prepare_wrfifo_sequence returns WDDR_SUCCESS only with the command,*)
(* the enables from the write latency on, without a hole, and each word in *)
(* its clock, wherever in a packet the groups start and whichever packet   *)
(* could not be allocated.                                                 *)
WriteAligned ==
  Finished("wrfifo") =>
    LET first == Begin + CaClkLen + cfg.wrLat + job.enOff
    IN  /\ FrameClocks = CommandAt(Begin, 0)
        /\ EnableClocks = Between(first, (job.bl + 4) \div 2)
        /\ DataWords = {<<first + cfg.wrEn + w, 2 * w>> :
                          w \in 0 .. job.bl \div 2 - 1}

(* So does dram_prepare_read_sequence with a command that follows all      *)
(* packets of the buffer: rddata_en is high for the burst, from the read   *)
(* latency on, counted from where the command went.  How far behind them   *)
(* it goes is not stated: RDFIFO keeps none of the WRITE_LATENCY + BL +    *)
(* TWTR + 1 that include/dev/dram/device.h:410-411 gives it.               *)
ReadAligned ==
  Finished("read") =>
    \E first \in {f[1] : f \in FrameClocks} :
      /\ first > Clock(job.last)
      /\ FrameClocks = CommandAt(first, 0)
      /\ ReadClocks = Between(first + CaClkLen + cfg.rdEn + job.enOff,
                              job.bl \div 2)

(* In command bus training DQS toggles for two clocks, DQ is driven with   *)
(* the setting for t_sh_train before it and while it does, and the last of *)
(* it is held for more than t_sh_train + phy_wr_en clocks.                 *)
CbtToggles ==
  Finished("cbt") =>
    LET first == Begin + PerPacket
        driven == {p \in Packets : p.data # <<>>}
    IN  /\ EnableClocks = {first + cfg.sh, first + cfg.sh + 1}
        /\ Between(first, cfg.sh + 2) \subseteq {w[1] : w \in DataWords}
        /\ \A p \in Packets \ driven, q \in driven :
             p.time > q.time => Clock(p.time) - Clock(q.time) > cfg.sh + cfg.wrEn

(* A switch of frequency writes all its mode registers, on both ranks, in  *)
(* order and whole: the frames of each in consecutive clocks, ten clocks   *)
(* after the register before it, and t_vref_ca_long after MR12, which      *)
(* moves the reference voltage that the next command is sampled with.      *)
MrwComplete ==
  Finished("mrw") =>
    /\ {f[2] : f \in FrameClocks} = (0 .. Ranks * Registers - 1) \X (1 .. Frames)
    /\ \A f, g \in FrameClocks :
         LET apart == g[1] - f[1]
         IN  /\ f[2][1] = g[2][1] => apart = g[2][2] - f[2][2]
             /\ f[2][1] + 1 = g[2][1] =>
                  apart > (IF f[2][1] % Registers = 3 THEN cfg.vref ELSE 10)

(* A buffer as large as the hardware FIFO is enough for every sequence: no *)
(* loop goes on asking for packets because a group never gets empty.       *)
RoomSuffices ==
  pc = "done" /\ job.room >= MrwRoom => result = "SUCCESS"

(* What t_vref_ca_long is (include/table/dram/table.h:18): the trained     *)
(* command is sampled with a reference voltage that DQ set that long ago.  *)
CbtVrefSettles ==
  Finished("cbt") =>
    \A f \in FrameClocks :
      f[1] - (Begin + PerPacket) >= cfg.vref
=============================================================================
