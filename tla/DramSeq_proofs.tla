--------------------------- MODULE DramSeq_proofs ---------------------------
(***************************************************************************)
(* The DRAM sequences are right for every frequency table whose timings    *)
(* fit, at both ratios and for every number of packets: types, order of    *)
(* the timestamps, and what each sequence that succeeds plays.             *)
(***************************************************************************)
EXTENDS DramInv, FiniteSetTheorems, SequenceTheorems, TLAPS

-----------------------------------------------------------------------------
(* The constants, and the parts of a call.                                 *)
Ratio == {1, 2}

LEMMA Widths ==
  /\ 2^8 = 256 /\ 2^16 = 65536
  /\ \A n : n \in Byte <=> n \in Nat /\ n < 256
  /\ \A n : n \in Word <=> n \in Nat /\ n < 65536
  /\ \A n \in Int : U8(n) \in Byte /\ U16(n) \in Word
  /\ \A n \in Nat : n < 256 => U8(n) = n
  /\ \A n \in Nat : n < 65536 => U16(n) = n
BY DEF U8, U16, Byte, Word

LEMMA WordNat == /\ \A n \in Word : n \in Nat /\ n < 65536
                 /\ \A n \in Byte : n \in Nat /\ n < 256
BY Widths

LEMMA SmallWord == \A n \in Nat : n < 2000 => n \in Word
BY Widths

LEMMA Powers ==
  ASSUME NEW t \in Timings
  PROVE  /\ t \in Timing /\ t.ratio \in {0, 1}
         /\ 2^t.ratio \in Ratio
         /\ t.vref \in Word /\ t.wrLat \in Byte /\ t.wrEn \in Byte
         /\ t.rdEn \in Byte /\ t.sh \in Byte
<1>1. t \in Timing
  BY DramSeqAssumption DEF DramSeqAssumption
<1>2. t.ratio = 0 \/ t.ratio = 1
  BY <1>1 DEF Timing
<1>3. 2^0 = 1 /\ 2^1 = 2
  OBVIOUS
<1>4. 2^t.ratio = 1 \/ 2^t.ratio = 2
  BY <1>2, <1>3, Zenon
<1> QED
  BY <1>1, <1>2, <1>4 DEF Timing, Ratio

LEMMA JobTyped ==
  ASSUME NEW j \in Jobs
  PROVE  /\ j.kind \in Kinds /\ j.cfg \in Timings /\ j.room \in Nat
         /\ j.enOff \in Word /\ j.last \in Lasts /\ j.last \in Word
         /\ j.kind = "wrfifo" => j.enOff \in WrOffsets
         /\ j.kind = "read" => j.enOff \in RdOffsets
         /\ j.kind # "read" => j.last = 1
         /\ j.bl \in {16, 32}
         /\ j.kind = "mrw" => j.room = 56
<1>1. /\ j.kind \in Kinds /\ j.cfg \in Timings /\ j.room \in Nat
      /\ j.enOff \in WrOffsets \cup RdOffsets \cup {0}
      /\ j.last \in Lasts /\ j.last \in Word /\ j.bl \in {16, 32}
      /\ j.kind # "read" => j.last = 1
      /\ j.kind = "mrw" => j.room = 56
  BY DramSeqAssumption DEF Jobs, DramSeqAssumption, MrwRoom
<1>2. j.enOff \in Word
  BY <1>1, Widths, DramSeqAssumption DEF DramSeqAssumption
<1>3. /\ j.kind = "wrfifo" => j.enOff \in WrOffsets
      /\ j.kind = "read" => j.enOff \in RdOffsets
  BY DEF Jobs
<1> QED
  BY <1>1, <1>2, <1>3

-----------------------------------------------------------------------------
(* Packets, groups and buffers.                                            *)
LEMMA BlankTyped ==
  ASSUME NEW t \in Word, NEW cke \in BOOLEAN
  PROVE  /\ Packet(t, cke) \in PacketSet
         /\ Packet(t, cke).time = t /\ Packet(t, cke).cmd = <<>>
         /\ Packet(t, cke).en = {} /\ Packet(t, cke).rd = {}
         /\ Packet(t, cke).data = <<>>
<1>1. <<>> \in [{} -> Int]
  OBVIOUS
<1>2. <<>> \in PacketData
  BY <1>1 DEF PacketData
<1>3. <<>> \in Seq(Nat \X Nat)
  OBVIOUS
<1> QED
  BY <1>2, <1>3 DEF Packet, PacketSet

LEMMA MaskTyped ==
  ASSUME NEW pp \in Ratio, NEW g \in Groups
  PROVE  /\ GroupMask(g, pp) \in SUBSET Cycles
         /\ GroupMask(g, pp) =
              g.offset .. (Smaller(g.rem \div 2, pp) - 1)
         /\ Cardinality(GroupMask(g, pp)) =
              IF g.offset < Smaller(g.rem \div 2, pp)
              THEN Smaller(g.rem \div 2, pp) - g.offset ELSE 0
<1> DEFINE top == Smaller(g.rem \div 2, pp)
<1>1. g.offset \in {0, 1} /\ g.rem \in Nat
  BY Widths DEF Groups, Cycles
<1>2. top \in {0, 1, 2}
  BY <1>1 DEF Ratio, Smaller
<1> HIDE DEF top
<1>3. GroupMask(g, pp) = g.offset .. (top - 1)
  BY <1>1, <1>2 DEF GroupMask, Cycles, top
<1>4. GroupMask(g, pp) \in SUBSET Cycles
  BY DEF GroupMask
<1>5. /\ IsFiniteSet(g.offset .. (top - 1))
      /\ Cardinality(g.offset .. (top - 1)) =
           IF g.offset > top - 1 THEN 0 ELSE (top - 1) - g.offset + 1
  <2>1. g.offset \in Int /\ top - 1 \in Int
    BY <1>1, <1>2
  <2> QED
    BY <2>1, FS_Interval, Zenon
<1> QED
  BY <1>1, <1>2, <1>3, <1>4, <1>5 DEF top

LEMMA GroupTyped ==
  ASSUME NEW r \in {0, 1}, NEW clock \in Int, NEW phases \in Word,
         2^r \in Ratio
  PROVE  /\ Group(r, clock, phases) \in Groups
         /\ Group(r, clock, phases).rem = phases
         /\ clock \in Word =>
              /\ Group(r, clock, phases).start = clock \div 2^r
              /\ Group(r, clock, phases).offset = clock % 2^r
<1> DEFINE c == U16(clock)
           pp == 2^r
<1>1. c \in Nat /\ c < 65536 /\ (clock \in Word => c = clock)
  BY Widths
<1>2. pp = 1 \/ pp = 2
  BY DEF Ratio
<1>3. Group(r, clock, phases) =
        [start |-> c \div pp, offset |-> c % pp, rem |-> phases]
  BY DEF Group
<1> HIDE DEF c, pp
<1>4. c \div pp \in Nat /\ c \div pp < 65536 /\ c % pp \in {0, 1}
  BY <1>1, <1>2
<1> QED
  BY <1>1, <1>3, <1>4, Widths DEF Groups, Cycles, pp

-----------------------------------------------------------------------------
(* A packet at the end of a buffer.                                        *)
LEMMA Appended ==
  ASSUME NEW s \in Seq(PacketSet), NEW p \in PacketSet
  PROVE  /\ Append(s, p) \in Seq(PacketSet)
         /\ Len(Append(s, p)) = Len(s) + 1
         /\ \A i \in 1 .. Len(s) : Append(s, p)[i] = s[i]
         /\ Append(s, p)[Len(s) + 1] = p
         /\ ToSet(Append(s, p)) = ToSet(s) \cup {p}
<1>1. /\ Append(s, p) \in Seq(PacketSet) /\ Len(Append(s, p)) = Len(s) + 1
      /\ \A i \in 1 .. Len(s) : Append(s, p)[i] = s[i]
      /\ Append(s, p)[Len(s) + 1] = p
  OBVIOUS
<1>2. /\ Len(s) \in Nat
      /\ DOMAIN Append(s, p) = 1 .. Len(s) + 1 /\ DOMAIN s = 1 .. Len(s)
  OBVIOUS
<1>3. ToSet(Append(s, p)) = ToSet(s) \cup {p}
  BY <1>1, <1>2 DEF ToSet
<1> QED
  BY <1>1, <1>3

LEMMA Created ==
  ASSUME NEW b \in Buffers, NEW cke \in BOOLEAN, NEW step \in Nat
  PROVE  /\ Create(b, cke, step) \in Buffers
         /\ U16(b.ts + step) \in Word
         /\ ~HasRoom(b) => Create(b, cke, step) = b /\ b.left = 0
         /\ HasRoom(b) =>
              /\ Create(b, cke, step) =
                   [ts   |-> U16(b.ts + step),
                    list |-> Append(b.list, Packet(U16(b.ts + step), cke)),
                    left |-> b.left - 1]
              /\ Packet(U16(b.ts + step), cke) \in PacketSet
              /\ Newest(Create(b, cke, step)) = Packet(U16(b.ts + step), cke)
<1> DEFINE t == U16(b.ts + step)
           p == Packet(t, cke)
<1>1. b.ts \in Nat /\ b.left \in Nat /\ b.list \in Seq(PacketSet)
  BY Widths DEF Buffers
<1>2. t \in Word
  <2>1. b.ts + step \in Int
    BY <1>1
  <2> QED
    BY <2>1, Widths
<1>3. p \in PacketSet
  BY <1>2, BlankTyped
<1>4. ~HasRoom(b) => Create(b, cke, step) = b /\ b.left = 0
  BY <1>1 DEF HasRoom, Create
<1>5. ASSUME HasRoom(b)
      PROVE  /\ Create(b, cke, step) =
                  [ts |-> t, list |-> Append(b.list, p), left |-> b.left - 1]
             /\ Create(b, cke, step) \in Buffers
             /\ Newest(Create(b, cke, step)) = p
  <2>1. Create(b, cke, step) =
          [ts |-> t, list |-> Append(b.list, p), left |-> b.left - 1]
    BY <1>5 DEF Create
  <2>2. b.left - 1 \in Nat
    BY <1>1, <1>5 DEF HasRoom
  <2> HIDE DEF t, p
  <2>3. Append(b.list, p) \in Seq(PacketSet)
    BY <1>1, <1>3, Appended
  <2>4. Append(b.list, p)[Len(Append(b.list, p))] = p
    BY <1>1, <1>3, Appended
  <2> QED
    BY <1>2, <2>1, <2>2, <2>3, <2>4 DEF Newest, Buffers
<1> QED
  BY <1>2, <1>3, <1>4, <1>5

(* What a fill leaves of the packet just created.                          *)
LEMMA Filled ==
  ASSUME NEW b \in Buffers, NEW cke \in BOOLEAN, NEW step \in Nat, HasRoom(b),
         NEW p \in PacketSet
  PROVE  /\ SetNewest(Create(b, cke, step), p) =
              [ts   |-> U16(b.ts + step), list |-> Append(b.list, p),
               left |-> b.left - 1]
         /\ SetNewest(Create(b, cke, step), p) \in Buffers
<1> DEFINE q == Packet(U16(b.ts + step), cke)
           l == Append(b.list, q)
<1>1. Create(b, cke, step) =
        [ts |-> U16(b.ts + step), list |-> l, left |-> b.left - 1]
  BY Created
<1>2. q \in PacketSet /\ U16(b.ts + step) \in Word
  BY Created
<1>3. b.list \in Seq(PacketSet) /\ b.left - 1 \in Nat
  BY DEF Buffers, HasRoom
<1> HIDE DEF q
<1>4. l \in Seq(PacketSet) /\ Len(l) = Len(b.list) + 1
  BY <1>2, <1>3, Appended
<1>5. [l EXCEPT ![Len(l)] = p] = Append(b.list, p)
  <2>1. Len(b.list) \in Nat /\ Len(l) \in 1 .. Len(l)
    BY <1>3, <1>4
  <2> DEFINE e == [l EXCEPT ![Len(l)] = p]
             a == Append(b.list, p)
  <2>2. /\ e \in Seq(PacketSet) /\ Len(e) = Len(l)
        /\ \A j \in 1 .. Len(l) : e[j] = IF j = Len(l) THEN p ELSE l[j]
    <3> HIDE DEF l
    <3> QED
      BY <1>4, <2>1, ExceptSeq
  <2>3. /\ a \in Seq(PacketSet) /\ Len(a) = Len(l)
        /\ \A j \in 1 .. Len(l) : a[j] = IF j = Len(l) THEN p ELSE l[j]
    BY <1>2, <1>3, <1>4, <2>1, Appended
  <2>4. e = a
    <3> HIDE DEF e, a, l
    <3>1. Len(e) = Len(a) /\ \A j \in 1 .. Len(e) : e[j] = a[j]
      BY <2>2, <2>3
    <3> QED
      BY <2>2, <2>3, <3>1, SeqEqual
  <2> QED
    BY <2>4
<1>6. SetNewest(Create(b, cke, step), p) =
        [ts |-> U16(b.ts + step), list |-> [l EXCEPT ![Len(l)] = p],
         left |-> b.left - 1]
  <2> HIDE DEF l
  <2> QED
    BY <1>1 DEF SetNewest
<1>7. Append(b.list, p) \in Seq(PacketSet)
  BY <1>3, Appended
<1>8. SetNewest(Create(b, cke, step), p) =
        [ts |-> U16(b.ts + step), list |-> Append(b.list, p), left |-> b.left - 1]
  BY <1>5, <1>6
<1> HIDE DEF l
<1> QED
  BY <1>2, <1>3, <1>7, <1>8 DEF Buffers

(* The mask of any group, also in write levelling's packets of four.       *)
LEMMA MaskSize ==
  ASSUME NEW pp \in {1, 2, 4}, NEW g \in Groups
  PROVE  /\ GroupMask(g, pp) \in {{}, {0}, {1}, {0, 1}}
         /\ Cardinality(GroupMask(g, pp)) \in {0, 1, 2}
         /\ 2 * Cardinality(GroupMask(g, pp)) <= g.rem
<1> DEFINE mask == GroupMask(g, pp)
<1>1. g.rem \in Nat /\ g.offset \in Nat
  BY Widths DEF Groups, Cycles
<1>2. \A c \in mask : c \in {0, 1} /\ c < g.rem \div 2
  BY <1>1 DEF GroupMask, Smaller, Cycles
<1>3. mask \in {{}, {0}, {1}, {0, 1}}
  <2> HIDE DEF mask
  <2> QED
    BY <1>2
<1>4. /\ Cardinality({}) = 0 /\ Cardinality({0}) = 1 /\ Cardinality({1}) = 1
      /\ Cardinality({0, 1}) = 2
  <2>1. /\ Cardinality({}) = 0 /\ Cardinality({0}) = 1 /\ Cardinality({1}) = 1
        /\ IsFiniteSet({0})
    BY FS_EmptySet, FS_Singleton
  <2>2. Cardinality({0} \cup {1}) = Cardinality({0}) + 1
    BY <2>1, FS_AddElement
  <2>3. {0} \cup {1} = {0, 1}
    OBVIOUS
  <2> QED
    BY <2>1, <2>2, <2>3
<1> HIDE DEF mask
<1>5. 1 \in mask => g.rem >= 4
  BY <1>1, <1>2
<1>6. 0 \in mask => g.rem >= 2
  BY <1>1, <1>2
<1>7. Cardinality(mask) \in {0, 1, 2} /\ 2 * Cardinality(mask) <= g.rem
  BY <1>1, <1>3, <1>4, <1>5, <1>6
<1> QED
  BY <1>3, <1>7 DEF mask

LEMMA FillTyped ==
  ASSUME NEW p \in PacketSet, NEW g \in Groups, NEW pp \in {1, 2, 4},
         NEW phases \in Int
  PROVE  /\ FillEnable(p, g, pp) \in PacketSet
         /\ FillRead(p, g, pp) \in PacketSet
         /\ FillData(p, g, pp, phases) \in PacketSet
<1>1. GroupMask(g, pp) \in {{}, {0}, {1}, {0, 1}} /\ GroupMask(g, pp) \subseteq Cycles
  BY MaskSize DEF GroupMask
<1>2. [c \in GroupMask(g, pp) |-> phases - g.rem + 2 * (c - g.offset)] \in PacketData
  <2>1. g.rem \in Int /\ g.offset \in Int
    BY Widths DEF Groups, Cycles
  <2>2. \A c \in GroupMask(g, pp) : phases - g.rem + 2 * (c - g.offset) \in Int
    BY <1>1, <2>1 DEF Cycles
  <2>3. [c \in GroupMask(g, pp) |-> phases - g.rem + 2 * (c - g.offset)]
          \in [GroupMask(g, pp) -> Int]
    BY <2>2
  <2> QED
    BY <1>1, <2>3 DEF PacketData, Cycles
<1>3. p = [time |-> p.time, cke |-> p.cke, cmd |-> p.cmd, en |-> p.en,
           rd |-> p.rd, data |-> p.data]
  BY DEF PacketSet
<1> QED
  BY <1>1, <1>2, <1>3 DEF PacketSet, FillEnable, FillRead, FillData

LEMMA AdvanceTyped ==
  ASSUME NEW pp \in {1, 2, 4}, NEW g \in Groups
  PROVE  /\ Advance(g, pp) \in Groups
         /\ Advance(g, pp).start = g.start /\ Advance(g, pp).offset = 0
         /\ Advance(g, pp).rem = g.rem - 2 * Cardinality(GroupMask(g, pp))
<1> DEFINE n == Cardinality(GroupMask(g, pp))
<1>1. g.rem \in Word /\ g.start \in Word /\ 0 \in Cycles
  BY DEF Groups, Cycles
<1>2. n \in {0, 1, 2} /\ 2 * n <= g.rem
  BY MaskSize
<1>3. Advance(g, pp) = [start |-> g.start, offset |-> 0, rem |-> g.rem - 2 * n]
  BY DEF Advance, n
<1> HIDE DEF n
<1>4. g.rem - 2 * n \in Word
  BY <1>1, <1>2, Widths
<1> QED
  BY <1>1, <1>3, <1>4 DEF Groups, n

LEMMA CreateSum ==
  ASSUME NEW b \in Buffers, NEW cke \in BOOLEAN, NEW step \in Nat
  PROVE  LET c == Create(b, cke, step)
         IN  /\ c \in Buffers
             /\ Len(c.list) + c.left = Len(b.list) + b.left
             /\ c.ts \in Word /\ c.left <= b.left
             /\ HasRoom(b) => c.ts = U16(b.ts + step) /\ c.left = b.left - 1
<1>1. b.left \in Nat /\ b.list \in Seq(PacketSet) /\ Len(b.list) \in Nat
  BY DEF Buffers
<1>2. Create(b, cke, step) \in Buffers
  BY Created
<1>3. ASSUME HasRoom(b)
      PROVE  LET c == Create(b, cke, step)
             IN  /\ Len(c.list) = Len(b.list) + 1 /\ c.left = b.left - 1
                 /\ c.ts = U16(b.ts + step)
  BY <1>1, <1>3, Created, Appended
<1>4. ~HasRoom(b) => Create(b, cke, step) = b
  BY Created
<1>5. Create(b, cke, step).ts \in Word
  BY <1>2 DEF Buffers
<1> QED
  BY <1>1, <1>2, <1>3, <1>4, <1>5

-----------------------------------------------------------------------------
(* The parts of a call, in a state.                                        *)
LEMMA Scale ==
  ASSUME job \in Jobs
  PROVE  /\ cfg \in Timings /\ cfg.ratio \in {0, 1} /\ PerPacket \in Ratio
         /\ PerPacket \in {1, 2, 4}
         /\ cfg.vref \in Word /\ cfg.wrLat \in Byte /\ cfg.wrEn \in Byte
         /\ cfg.rdEn \in Byte /\ cfg.sh \in Byte
         /\ job.enOff \in Word /\ job.bl \in {16, 32} /\ job.room \in Nat
         /\ \A t : Clock(t) = t * PerPacket
BY JobTyped, Powers DEF cfg, PerPacket, Ratio, Clock

(* A buffer that another packet, or none, was appended to.                 *)
Typed == TypeOK /\ PlaceInv /\ BufferOK

LEMMA BufferTyped ==
  ASSUME NEW b \in Buffers
  PROVE  /\ b.ts \in Word /\ b.left \in Nat
         /\ \A p \in ToSet(b.list) : p.time \in Word
<1>1. b.ts \in Word /\ b.left \in Nat /\ b.list \in Seq(PacketSet)
  BY DEF Buffers
<1>2. \A i \in DOMAIN b.list : b.list[i] \in PacketSet
  BY <1>1
<1> QED
  BY <1>1, <1>2 DEF PacketSet, ToSet

LEMMA TypeInit == Init => Typed
<1> SUFFICES ASSUME Init PROVE Typed
  OBVIOUS
<1>1. 1 \in Word /\ 0 \in Word /\ 0 \in Cycles
  BY Widths DEF Cycles
<1>2. <<>> \in Seq(PacketSet)
  OBVIOUS
<1>3. BufferOK
  BY <1>1, <1>2 DEF Init, NewBuffer, BufferOK, Buffers
<1>4. TypeOK
  BY <1>1, <1>3, BufferTyped
  DEF BufferOK, Init, TypeOK, Labels, Frames, Ranks, Registers, Groups, NoGroup
<1>5. PlaceInv
  <2>1. 0 % PerPacket = 0
    BY Scale DEF Init, Ratio
  <2> QED
    BY <2>1 DEF Init, PlaceInv, Kinds, Bursting, Training
<1> QED
  BY <1>3, <1>4, <1>5 DEF Typed

LEMMA State ==
  ASSUME Typed
  PROVE  /\ job \in Jobs /\ buf \in Buffers /\ buf.ts \in Nat /\ buf.left \in Nat
         /\ buf.list \in Seq(PacketSet) /\ Len(buf.list) \in Nat
         /\ buf.ts < 65536 /\ gap \in Nat /\ gap < 65536
         /\ frame \in 0 .. 4 /\ command \in 0 .. 10
         /\ en \in Groups /\ dat \in Groups
         /\ en.start \in Nat /\ en.rem \in Nat
         /\ dat.start \in Nat /\ dat.rem \in Nat
BY Widths DEF Typed, TypeOK, BufferOK, Buffers, Frames, Ranks, Registers, Groups

(* The only ways in which a step leaves the buffer of a call.              *)
Grows(b, c) == /\ c \in Buffers
               /\ Len(c.list) + c.left = Len(b.list) + b.left

LEMMA CreateGrows ==
  ASSUME NEW b \in Buffers, NEW cke \in BOOLEAN, NEW step \in Nat
  PROVE  Grows(b, Create(b, cke, step)) /\ Create(b, cke, step) \in Buffers
BY CreateSum DEF Grows

LEMMA FillGrows ==
  ASSUME NEW b \in Buffers, NEW cke \in BOOLEAN, NEW step \in Nat, HasRoom(b),
         NEW p \in PacketSet
  PROVE  Grows(b, SetNewest(Create(b, cke, step), p))
<1>1. b.list \in Seq(PacketSet) /\ Len(b.list) \in Nat /\ b.left \in Nat
  BY DEF Buffers
<1>2. Len(Append(b.list, p)) = Len(b.list) + 1
  BY <1>1
<1>3. U16(b.ts + step) \in Word /\ SetNewest(Create(b, cke, step), p) \in Buffers
  BY Created, Filled
<1> DEFINE c == SetNewest(Create(b, cke, step), p)
<1>4. c.list = Append(b.list, p) /\ c.left = b.left - 1
  BY Filled
<1> HIDE DEF c
<1>5. Len(c.list) + c.left = Len(b.list) + b.left
  BY <1>1, <1>2, <1>4
<1> QED
  BY <1>3, <1>5 DEF Grows, c

LEMMA BufferNext ==
  ASSUME Typed, Next, ~Call
  PROVE  Grows(buf, buf') /\ job' = job /\ pc \notin {"idle", "done"}
<1>a. buf \in Buffers /\ gap \in Nat /\ en \in Groups /\ dat \in Groups
  BY State
<1>b. job \in Jobs /\ frame \in Nat /\ command \in Nat /\ dat.rem \in Int
  BY State
<1>1. PerPacket \in {1, 2, 4} /\ cfg.sh \in Int /\ cfg.wrEn \in Int
      /\ job.bl \in Int
  <2>1. job.bl \in {16, 32}
    BY <1>b, JobTyped
  <2> QED
    BY <1>b, <2>1, Scale, WordNat DEF Ratio
<1>2. 1 \in Nat /\ 2 \in Nat
  OBVIOUS
<1>3. CASE AddressPacket
  <2>1. pc \notin {"idle", "done"} /\ job' = job
    BY <1>3 DEF AddressPacket
  <2>2. CASE HasRoom(buf)
    <3> DEFINE p == [Newest(Create(buf, TRUE, gap)) EXCEPT
                       !.cmd = [n \in 1 .. PerPacket |-> <<command, frame + n>>]]
    <3>1. buf' = SetNewest(Create(buf, TRUE, gap), p)
      BY <1>3, <2>2 DEF AddressPacket, CreateCke
    <3>2. p \in PacketSet
      <4>1. Newest(Create(buf, TRUE, gap)) \in PacketSet
        BY <1>a, <2>2, Created
      <4>2. [n \in 1 .. PerPacket |-> <<command, frame + n>>] \in Seq(Nat \X Nat)
        <5>1. \A n \in 1 .. PerPacket : <<command, frame + n>> \in Nat \X Nat
          BY <1>b, <1>1
        <5> QED
          BY <1>1, <5>1
      <4> QED
        BY <4>1, <4>2 DEF PacketSet
    <3> HIDE DEF p
    <3> QED
      BY <2>1, <2>2, <3>1, <3>2, <1>a, FillGrows
  <2>3. CASE ~HasRoom(buf)
    BY <1>a, <1>3, <2>1, <2>3 DEF AddressPacket, Grows
  <2> QED
    BY <2>2, <2>3
<1>4. CASE WrfifoBegin \/ ReadBegin \/ WrlvlBegin \/ OutOfPackets
  BY <1>a, <1>4 DEF WrfifoBegin, ReadBegin, WrlvlBegin, OutOfPackets, Grows, Return, Go
<1>5. CASE BurstBegin
  <2>1. buf' = buf \/ buf' = Create(buf, TRUE, 1)
    BY <1>5 DEF BurstBegin, CreateCke
  <2>2. Grows(buf, Create(buf, TRUE, 1)) /\ Grows(buf, buf)
    BY <1>a, <1>2, CreateGrows DEF Grows
  <2>3. job' = job /\ pc = "address"
    BY <1>5 DEF BurstBegin
  <2> QED
    BY <2>1, <2>2, <2>3
<1>6. CASE WrfifoPacket
  <2> DEFINE q  == Newest(Create(buf, TRUE, gap))
             p1 == IF Create(buf, TRUE, gap).ts >= en.start
                   THEN FillEnable(q, en, PerPacket) ELSE q
             p2 == IF Create(buf, TRUE, gap).ts >= dat.start
                   THEN FillData(p1, dat, PerPacket, job.bl) ELSE p1
  <2>1. buf' = SetNewest(Create(buf, TRUE, gap), p2) /\ HasRoom(buf)
    BY <1>6 DEF WrfifoPacket, CreateCke
  <2>2. q \in PacketSet
    BY <1>a, <2>1, Created
  <2> HIDE DEF q
  <2>3. p1 \in PacketSet
    BY <1>a, <1>b, <1>1, <2>2, FillTyped
  <2> HIDE DEF p1
  <2>4. p2 \in PacketSet
    BY <1>a, <1>b, <1>1, <2>3, FillTyped
  <2> HIDE DEF p2
  <2> QED
    BY <1>6, <2>1, <2>4, <1>a, FillGrows DEF WrfifoPacket
<1>7. CASE ReadPacket
  <2> DEFINE q == Newest(Create(buf, TRUE, gap))
  <2>1. /\ buf' = SetNewest(Create(buf, TRUE, gap), FillRead(q, en, PerPacket))
        /\ HasRoom(buf)
    BY <1>7 DEF ReadPacket, CreateCke
  <2>2. q \in PacketSet
    BY <1>a, <2>1, Created
  <2>3. FillRead(q, en, PerPacket) \in PacketSet
    BY <1>a, <1>b, <1>1, <2>2, FillTyped
  <2> HIDE DEF q
  <2> QED
    BY <1>7, <2>1, <2>3, <1>a, FillGrows DEF ReadPacket
<1>8. CASE WrlvlPacket
  <2> DEFINE q == Newest(Create(buf, TRUE, gap))
  <2>1. /\ buf' = SetNewest(Create(buf, TRUE, gap), FillEnable(q, en, 4))
        /\ HasRoom(buf)
    BY <1>8 DEF WrlvlPacket, CreateCke
  <2>2. q \in PacketSet
    BY <1>a, <2>1, Created
  <2>3. FillEnable(q, en, 4) \in PacketSet
    BY <1>a, <1>b, <1>1, <2>2, FillTyped
  <2> HIDE DEF q
  <2> QED
    BY <1>8, <2>1, <2>3, <1>a, FillGrows DEF WrlvlPacket
<1>9. CASE Closing
  BY <1>2, <1>9, <1>a, CreateGrows DEF Closing, CreateCke
<1>10. CASE CbtBegin
  BY <1>2, <1>10, <1>a, CreateGrows DEF CbtBegin, CreateCk
<1>11. CASE CbtPacket
  <2> DEFINE q  == Newest(Create(buf, FALSE, gap))
             p1 == IF Create(buf, FALSE, gap).ts >= dat.start
                   THEN FillData(q, dat, PerPacket, dat.rem) ELSE q
             p2 == IF Create(buf, FALSE, gap).ts >= en.start
                   THEN FillEnable(p1, en, PerPacket) ELSE p1
  <2>1. buf' = SetNewest(Create(buf, FALSE, gap), p2) /\ HasRoom(buf)
    BY <1>11 DEF CbtPacket, CreateCk
  <2>2. q \in PacketSet
    BY <1>a, <2>1, Created
  <2> HIDE DEF q
  <2>3. p1 \in PacketSet
    BY <1>a, <1>b, <1>1, <2>2, FillTyped
  <2> HIDE DEF p1
  <2>4. p2 \in PacketSet
    BY <1>a, <1>b, <1>1, <2>3, FillTyped
  <2> HIDE DEF p2
  <2> QED
    BY <1>11, <2>1, <2>4, <1>a, FillGrows DEF CbtPacket
<1>12. CASE CbtHold
  <2>1. U8((cfg.sh + cfg.wrEn) \div PerPacket + 1) \in Nat
    <3>1. (cfg.sh + cfg.wrEn) \div PerPacket + 1 \in Int
      BY <1>1
    <3> QED
      BY <3>1, Widths
  <2> QED
    BY <1>12, <2>1, <1>a, CreateGrows DEF CbtHold, CreateCk
<1>13. CASE CbtCommand
  <2> DEFINE p == [Newest(Create(buf, FALSE, gap)) EXCEPT !.cmd = << <<0, 1>> >>]
             b == SetNewest(Create(buf, FALSE, gap), p)
  <2>1. buf' = Create(Create(b, FALSE, 1), FALSE, 2) /\ HasRoom(buf)
    BY <1>13 DEF CbtCommand, CreateCk
  <2>2. p \in PacketSet
    <3>1. << <<0, 1>> >> \in Seq(Nat \X Nat)
      OBVIOUS
    <3>2. Newest(Create(buf, FALSE, gap)) \in PacketSet
      BY <1>a, <2>1, Created
    <3> QED
      BY <3>1, <3>2 DEF PacketSet
  <2> HIDE DEF p
  <2>3. Grows(buf, b) /\ b \in Buffers
    BY <2>1, <2>2, <1>a, FillGrows DEF Grows
  <2> HIDE DEF b
  <2>4. Grows(b, Create(b, FALSE, 1)) /\ Create(b, FALSE, 1) \in Buffers
    BY <1>2, <2>3, <1>a, CreateGrows
  <2>5. Grows(Create(b, FALSE, 1), buf')
    BY <1>2, <2>1, <2>4, <1>a, CreateGrows
  <2> QED
    BY <1>13, <2>3, <2>4, <2>5 DEF CbtCommand, Grows
<1>14. CASE MrwBegin \/ MrwNext
  BY <1>2, <1>14, <1>a, CreateGrows DEF MrwBegin, MrwNext, CreateCke
<1> QED
  BY <1>3, <1>4, <1>5, <1>6, <1>7, <1>8, <1>9, <1>10, <1>11, <1>12, <1>13,
     <1>14 DEF Next

LEMMA PlaceNext ==
  ASSUME Typed, Next, ~Call
  PROVE  PlaceInv'
<1>1. job' = job
  BY BufferNext
<1>2. PerPacket' = PerPacket /\ PerPacket \in {1, 2}
  BY <1>1, State, Scale DEF PerPacket, cfg, Ratio
<1>3. frame' % PerPacket = 0 /\ (frame' = frame \/ AddressPacket \/ MrwNext)
  <2>1. frame % PerPacket = 0
    BY DEF Typed, PlaceInv
  <2>2. CASE AddressPacket
    <3>1. frame' = frame + PerPacket \/ frame' = 4
      BY <2>2 DEF AddressPacket, Frames
    <3>2. frame \in Nat
      BY State
    <3> QED
      BY <1>2, <2>1, <2>2, <3>1, <3>2
  <2>3. CASE MrwNext
    BY <1>2, <2>3 DEF MrwNext
  <2>4. CASE ~AddressPacket /\ ~MrwNext
    <3>1. frame' = frame
      BY <2>4
      DEF Next, WrfifoBegin, ReadBegin, BurstBegin, WrfifoPacket, ReadPacket,
          WrlvlBegin, WrlvlPacket, OutOfPackets, Closing, CbtBegin, CbtPacket,
          CbtHold, CbtCommand, MrwBegin
    <3> QED
      BY <2>1, <3>1
  <2> QED
    BY <2>2, <2>3, <2>4
<1>4. command \in 0 .. 10 /\ (pc = "address" => command < 10)
  BY State DEF Typed, PlaceInv, Ranks, Registers
<1> DEFINE Place ==
      /\ pc' \notin Kinds
      /\ pc' = "address" => job.kind \in {"wrfifo", "read", "mrw"}
      /\ pc' \in Bursting => job.kind \in {"wrfifo", "read", "wrlvl"}
      /\ pc' \in Training => job.kind = "cbt"
      /\ pc' = "address" => command' < 10
      /\ pc' = "address" /\ job.kind # "mrw" => command' = 0
      /\ pc' # "done" => result' = "none"
<1> USE DEF Kinds, Bursting, Training
<1>5. CASE WrfifoBegin \/ ReadBegin \/ MrwBegin
  <2>1. Place
    BY <1>5 DEF WrfifoBegin, ReadBegin, MrwBegin, Go, Typed, PlaceInv
  <2> QED
    BY <1>1, <1>2, <1>3, <2>1 DEF PlaceInv, Ranks, Registers
<1>6. CASE AddressPacket \/ BurstBegin
  <2>1. Place
    BY <1>4, <1>6 DEF AddressPacket, BurstBegin, Go, Typed, PlaceInv
  <2> QED
    BY <1>1, <1>2, <1>3, <2>1 DEF PlaceInv, Ranks, Registers
<1>7. CASE WrfifoPacket \/ ReadPacket \/ WrlvlPacket \/ WrlvlBegin
  <2>1. Place
    BY <1>7
    DEF WrfifoPacket, ReadPacket, WrlvlPacket, WrlvlBegin, Go, Typed, PlaceInv
  <2> QED
    BY <1>1, <1>2, <1>3, <2>1 DEF PlaceInv, Ranks, Registers
<1>8. CASE OutOfPackets \/ Closing \/ CbtCommand
  <2>1. Place
    BY <1>8 DEF OutOfPackets, Closing, CbtCommand, Return
  <2> QED
    BY <1>1, <1>2, <1>3, <2>1 DEF PlaceInv, Ranks, Registers
<1>9. CASE CbtBegin \/ CbtPacket \/ CbtHold
  <2>1. Place
    BY <1>9 DEF CbtBegin, CbtPacket, CbtHold, Go, Typed, PlaceInv
  <2> QED
    BY <1>1, <1>2, <1>3, <2>1 DEF PlaceInv, Ranks, Registers
<1>10. CASE MrwNext
  <2>1. Place
    BY <1>4, <1>10 DEF MrwNext, Go, Return, Typed, PlaceInv, Ranks, Registers
  <2> QED
    BY <1>1, <1>2, <1>3, <2>1 DEF PlaceInv, Ranks, Registers
<1> QED
  BY <1>5, <1>6, <1>7, <1>8, <1>9, <1>10 DEF Next

LEMMA GapNext ==
  ASSUME Typed, Next, ~Call
  PROVE  gap' \in Word
<1>0. job \in Jobs /\ buf \in Buffers /\ buf.ts \in Int /\ en.start \in Int
  BY State
<1>1. gap \in Word /\ 1 \in Word
  <2>1. 1 \in Word
    BY Widths
  <2> QED
    BY <2>1 DEF Typed, TypeOK
<1>2. \A n \in Int : U8(n) \in Word /\ U16(n) \in Word
  BY Widths
<1>3. PerPacket \in {1, 2} /\ cfg.vref \in Word /\ cfg.vref \in Int /\ cfg.sh \in Nat
      /\ cfg.sh < 256
  <2>1. PerPacket \in {1, 2} /\ cfg.vref \in Word /\ cfg.sh \in Byte
    BY <1>0, Scale DEF Ratio
  <2> QED
    BY <2>1, Widths
<1>4. CASE BurstBegin
  <2> DEFINE d == en.start + 2^16 - buf.ts
  <2>1. d \in Int
    BY <1>0
  <2>2. U8(d) \in Word /\ U16(d) \in Word
    BY <1>2, <2>1
  <2>3. \A n \in Word : n > 1 => n - 1 \in Word
    BY Widths
  <2>4. /\ job.kind = "read" => gap' = IF U16(d) > 1 THEN U16(d) - 1 ELSE U16(d)
        /\ job.kind # "read" => gap' = IF U8(d) > 1 THEN U8(d) - 1 ELSE U8(d)
    BY <1>4 DEF BurstBegin
  <2> HIDE DEF d
  <2> QED
    BY <2>2, <2>3, <2>4
<1>5. CASE CbtBegin
  <2>1. dat'.start + 2^16 - buf'.ts \in Int
    <3>1. Create(buf, FALSE, 1).ts \in Int
      <4>1. Create(buf, FALSE, 1).ts \in Word
        BY <1>0, CreateSum
      <4> DEFINE t == Create(buf, FALSE, 1).ts
      <4> HIDE DEF t
      <4>2. t \in Word => t \in Int
        BY WordNat
      <4> QED
        BY <4>1, <4>2 DEF t
    <3>2. cfg.ratio \in {0, 1} /\ \A t : Clock(t) = t * PerPacket
      BY <1>0, Scale
    <3>3. Clock(buf.ts + 1) + PerPacket \in Int
      BY <1>0, <1>3, <3>2
    <3>4. 2 * (cfg.sh + 2 * PerPacket) + 4 \in Word
      BY <1>3, Widths
    <3>5. Group(cfg.ratio, Clock(buf.ts + 1) + PerPacket,
                2 * (cfg.sh + 2 * PerPacket) + 4) \in Groups
      <4>1. 2^cfg.ratio \in Ratio
        BY <1>0, Scale, Powers
      <4> QED
        BY <3>2, <3>3, <3>4, <4>1, GroupTyped
    <3>6. dat' \in Groups /\ buf' = Create(buf, FALSE, 1)
      BY <1>5, <3>5 DEF CbtBegin, CreateCk
    <3>7. dat'.start \in Int
      BY <3>6, Widths DEF Groups
    <3>8. buf'.ts \in Int
      BY <3>1, <3>6
    <3> QED
      BY <3>7, <3>8
  <2> QED
    BY <1>2, <1>5, <2>1 DEF CbtBegin
<1>6. CASE CbtHold
  <2>1. (cfg.vref - cfg.sh) \div PerPacket + 1 \in Int
    BY <1>3
  <2> QED
    BY <1>2, <1>6, <2>1 DEF CbtHold
<1>7. CASE MrwBegin \/ MrwNext
  <2>1. \A n : MrwGap(n) \in Word
    BY <1>3, Widths DEF MrwGap
  <2> QED
    BY <1>7, <2>1 DEF MrwBegin, MrwNext
<1>8. CASE AddressPacket \/ WrfifoPacket \/ ReadPacket \/ WrlvlPacket \/ CbtPacket
  BY <1>1, <1>8
  DEF AddressPacket, WrfifoPacket, ReadPacket, WrlvlPacket, CbtPacket
<1>9. CASE \/ WrfifoBegin \/ ReadBegin \/ WrlvlBegin \/ OutOfPackets
           \/ Closing \/ CbtCommand
  BY <1>1, <1>9
  DEF WrfifoBegin, ReadBegin, WrlvlBegin, OutOfPackets, Closing, CbtCommand
<1> QED
  BY <1>4, <1>5, <1>6, <1>7, <1>8, <1>9 DEF Next

LEMMA GroupsNext ==
  ASSUME Typed, Next, ~Call
  PROVE  en' \in Groups /\ dat' \in Groups
<1>1. en \in Groups /\ dat \in Groups /\ buf.ts \in Nat /\ job \in Jobs
  BY State
<1>2. /\ PerPacket \in {1, 2} /\ PerPacket \in {1, 2, 4} /\ 4 \in {1, 2, 4}
      /\ \A t : Clock(t) = t * PerPacket
      /\ cfg.ratio \in {0, 1} /\ 2^cfg.ratio \in Ratio
  BY <1>1, Scale, Powers DEF Ratio
<1>3. /\ cfg.wrLat \in Int /\ cfg.wrEn \in Int /\ cfg.rdEn \in Int
      /\ cfg.sh \in Nat /\ cfg.sh < 256 /\ job.enOff \in Int
      /\ job.bl \in Word /\ job.bl + 4 \in Word /\ 4 \in Word
  BY <1>1, Scale, Widths
<1>4. \A n \in Int : U8(n) \in Int
  BY Widths
<1>5. /\ Advance(en, PerPacket) \in Groups /\ Advance(dat, PerPacket) \in Groups
      /\ Advance(en, 4) \in Groups
  BY <1>1, <1>2, AdvanceTyped
<1>6. CASE WrfifoBegin
  <2>1. Clock(buf.ts + 1) + CaClkLen + cfg.wrLat + job.enOff \in Int
    BY <1>1, <1>2, <1>3 DEF CaClkLen
  <2>2. WrEnableClock \in Int
    BY <1>4, <2>1 DEF WrEnableClock
  <2>3. WrDataClock \in Int
    BY <1>3, <1>4, <2>2 DEF WrDataClock
  <2>4. /\ Group(cfg.ratio, WrEnableClock, job.bl + 4) \in Groups
        /\ Group(cfg.ratio, WrDataClock, job.bl) \in Groups
    BY <1>2, <1>3, <2>2, <2>3, GroupTyped
  <2> QED
    BY <1>6, <2>4 DEF WrfifoBegin
<1>7. CASE ReadBegin
  <2>1. Clock(buf.ts + 1) + CaClkLen + cfg.rdEn + job.enOff \in Int
    BY <1>1, <1>2, <1>3 DEF CaClkLen
  <2>2. RdEnableClock \in Int
    BY <1>4, <2>1 DEF RdEnableClock
  <2>3. Group(cfg.ratio, RdEnableClock, job.bl) \in Groups
    BY <1>2, <1>3, <2>2, GroupTyped
  <2> QED
    BY <1>1, <1>7, <2>3 DEF ReadBegin
<1>8. CASE WrlvlBegin
  <2>1. Clock(buf.ts + 1) \in Int
    BY <1>1, <1>2
  <2>2. Group(cfg.ratio, Clock(buf.ts + 1), 4) \in Groups
    BY <1>2, <1>3, <2>1, GroupTyped
  <2> QED
    BY <1>1, <1>8, <2>2 DEF WrlvlBegin
<1>9. CASE CbtBegin
  <2> DEFINE clock  == Clock(buf.ts + 1) + PerPacket
             phases == 2 * (cfg.sh + 2 * PerPacket) + 4
  <2>1. clock \in Int /\ clock + cfg.sh \in Int
    BY <1>1, <1>2, <1>3
  <2>2. phases \in Word
    BY <1>2, <1>3, Widths
  <2>3. dat' = Group(cfg.ratio, clock, phases) /\ en' = Group(cfg.ratio, clock + cfg.sh, 4)
    BY <1>9 DEF CbtBegin
  <2> HIDE DEF clock, phases
  <2> QED
    BY <1>2, <1>3, <2>1, <2>2, <2>3, GroupTyped
<1>10. CASE WrfifoPacket \/ ReadPacket \/ WrlvlPacket \/ CbtPacket
  <2>1. /\ en' = en \/ en' = Advance(en, PerPacket) \/ en' = Advance(en, 4)
        /\ dat' = dat \/ dat' = Advance(dat, PerPacket)
    BY <1>10 DEF WrfifoPacket, ReadPacket, WrlvlPacket, CbtPacket
  <2> QED
    BY <1>1, <1>5, <2>1
<1>11. CASE \/ AddressPacket \/ BurstBegin \/ OutOfPackets \/ Closing
            \/ CbtHold \/ CbtCommand \/ MrwBegin \/ MrwNext
  BY <1>1, <1>11
  DEF AddressPacket, BurstBegin, OutOfPackets, Closing, CbtHold, CbtCommand,
      MrwBegin, MrwNext
<1> QED
  BY <1>6, <1>7, <1>8, <1>9, <1>10, <1>11 DEF Next

LEMMA TypedNext ==
  ASSUME Typed, [Next]_vars
  PROVE  Typed'
<1>1. CASE UNCHANGED vars
  BY <1>1
  DEF vars, Typed, TypeOK, PlaceInv, BufferOK, PerPacket, cfg
<1>2. CASE Call
  <2>1. /\ job' \in Jobs /\ job'.room \in Nat /\ job'.kind \in Kinds
        /\ job'.last \in Word /\ PerPacket' \in Ratio
    <3>1. job' \in Jobs
      BY <1>2 DEF Call
    <3>2. /\ job'.cfg \in Timings /\ job'.room \in Nat /\ job'.kind \in Kinds
          /\ job'.last \in Word
      BY <3>1, JobTyped
    <3>3. 2^job'.cfg.ratio \in Ratio
      BY <3>2, Powers
    <3> QED
      BY <3>1, <3>2, <3>3 DEF PerPacket, cfg
  <2>2. 1 \in Word /\ 0 \in Word /\ 0 \in Cycles /\ <<>> \in Seq(PacketSet)
    BY Widths DEF Cycles
  <2>3. buf' = [ts |-> job'.last, list |-> <<>>, left |-> job'.room]
    BY <1>2 DEF Call, NewBuffer
  <2>4. BufferOK'
    BY <2>1, <2>2, <2>3 DEF BufferOK, Buffers
  <2>5. \A p \in ToSet(buf.list)' : p.time \in Word
    BY <2>3 DEF ToSet
  <2>6. TypeOK'
    <3>1. en' \in Groups /\ dat' \in Groups
      BY <1>2, <2>2 DEF Call, NoGroup, Groups
    <3>2. pc' \in Labels /\ result' = "none" /\ gap' = 1 /\ frame' = 0 /\ command' = 0
      BY <1>2, <2>1 DEF Call, Labels
    <3>3. buf'.ts \in Word /\ buf'.left \in Nat
      BY <2>1, <2>2, <2>3
    <3> QED
      BY <2>1, <2>2, <2>5, <3>1, <3>2, <3>3
      DEF TypeOK, Frames, Ranks, Registers
  <2>7. PlaceInv'
    <3>1. 0 % PerPacket' = 0
      <4>1. \A n \in Ratio : 0 % n = 0
        BY DEF Ratio
      <4> QED
        BY <2>1, <4>1
    <3> QED
      BY <1>2, <2>1, <3>1
      DEF Call, PlaceInv, Kinds, Bursting, Training, Ranks, Registers
  <2> QED
    BY <2>4, <2>6, <2>7 DEF Typed
<1>3. CASE Next /\ ~Call
  <2>1. PlaceInv' /\ gap' \in Word /\ en' \in Groups /\ dat' \in Groups
    BY <1>3, PlaceNext, GapNext, GroupsNext
  <2>2. BufferOK'
    <3>1. Grows(buf, buf') /\ job' = job /\ pc # "idle"
      BY <1>3, BufferNext
    <3> QED
      BY <3>1 DEF Grows, BufferOK, Typed
  <2>3. /\ buf'.ts \in Word /\ buf'.left \in Nat
        /\ \A p \in ToSet(buf.list)' : p.time \in Word
    <3>1. buf' \in Buffers
      BY <2>2 DEF BufferOK
    <3> QED
      BY <3>1, BufferTyped
  <2>4. frame' \in 0 .. 4
    <3>1. frame' = frame \/ frame' = frame + PerPacket \/ frame' = 4 \/ frame' = 0
      BY <1>3
      DEF Next, AddressPacket, WrfifoBegin, ReadBegin, BurstBegin, WrfifoPacket,
          ReadPacket, WrlvlBegin, WrlvlPacket, OutOfPackets, Closing, CbtBegin,
          CbtPacket, CbtHold, CbtCommand, MrwBegin, MrwNext, Frames
    <3>2. frame \in 0 .. 4 /\ PerPacket \in {1, 2} /\ frame % PerPacket = 0
      BY State, Scale DEF Typed, PlaceInv, Ratio
    <3>3. frame' = frame + PerPacket => frame < 4 \/ frame' = frame
      BY <1>3, <3>2
      DEF Next, AddressPacket, WrfifoBegin, ReadBegin, BurstBegin, WrfifoPacket,
          ReadPacket, WrlvlBegin, WrlvlPacket, OutOfPackets, Closing, CbtBegin,
          CbtPacket, CbtHold, CbtCommand, MrwBegin, MrwNext, Frames
    <3> QED
      BY <3>1, <3>2, <3>3
  <2>5. command' \in 0 .. 10
    <3>1. \/ command' = command
          \/ command' = command + 1 /\ pc = "address"
          \/ command' = 1
      BY <1>3
      DEF Next, AddressPacket, WrfifoBegin, ReadBegin, BurstBegin, WrfifoPacket,
          ReadPacket, WrlvlBegin, WrlvlPacket, OutOfPackets, Closing, CbtBegin,
          CbtPacket, CbtHold, CbtCommand, MrwBegin, MrwNext
    <3>2. command \in 0 .. 10 /\ (pc = "address" => command < 10)
      BY State DEF Typed, PlaceInv, Ranks, Registers
    <3> QED
      BY <3>1, <3>2
  <2>6. pc' \in Labels /\ result' \in {"none", "SUCCESS", "ERROR"}
    BY <1>3
    DEF Typed, TypeOK, Labels, Go, Return,
        Next, AddressPacket, WrfifoBegin, ReadBegin, BurstBegin, WrfifoPacket,
        ReadPacket, WrlvlBegin, WrlvlPacket, OutOfPackets, Closing, CbtBegin,
        CbtPacket, CbtHold, CbtCommand, MrwBegin, MrwNext
  <2>7. job' \in Jobs
    BY <1>3, BufferNext, State
  <2> QED
    BY <2>1, <2>2, <2>3, <2>4, <2>5, <2>6, <2>7
    DEF Typed, TypeOK, Frames, Ranks, Registers
<1> QED
  BY <1>1, <1>2, <1>3

LEMMA AlwaysTyped == Spec => []Typed
BY TypeInit, TypedNext, PTL DEF Spec

(* Every variable keeps the range of its C type, for every table, offset   *)
(* and number of packets, whatever the 8-bit and 16-bit sums wrap to.      *)
THEOREM TypeCorrect == Spec => []TypeOK
<1>1. Typed => TypeOK
  BY DEF Typed
<1> QED
  BY <1>1, AlwaysTyped, PTL

-----------------------------------------------------------------------------
(* A group that stands at the packet due fills the clocks of the packet    *)
(* that are the group's, and then stands at the next packet.               *)
LEMMA MaskWindow ==
  ASSUME NEW pp \in Ratio, NEW g \in Groups, NEW first \in Nat,
         NEW count \in Nat, count >= 2, NEW due \in Nat,
         StandsAt(g, pp, first, count, due), due >= g.start
  PROVE  /\ \A c : c \in GroupMask(g, pp) <=>
                     /\ c \in Cycles /\ c < pp
                     /\ first <= due * pp + c /\ due * pp + c < first + count
         /\ \A c \in GroupMask(g, pp) :
              2 * count - g.rem + 2 * (c - g.offset) = 2 * (due * pp + c - first)
         /\ StandsAt(Advance(g, pp), pp, first, count, due + 1)
<1> DEFINE top == Smaller(g.rem \div 2, pp)
           left == RemainingAt(pp, first, count, due)
<1>1. pp = 1 \/ pp = 2
  BY DEF Ratio
<1>2. /\ g.start = first \div pp
      /\ g.offset = IF due <= g.start THEN first % pp ELSE 0
      /\ g.rem = 2 * left
  BY DEF StandsAt
<1>3. left \in Nat /\ left = IF due * pp <= first THEN count
                  ELSE IF due * pp >= first + count THEN 0
                  ELSE first + count - due * pp
  BY <1>1 DEF RemainingAt
<1> HIDE DEF left
<1>4. g.rem \div 2 = left
  BY <1>2, <1>3
<1>5. top = IF left < pp THEN left ELSE pp
  BY <1>4 DEF Smaller
<1>6. \A c : c \in GroupMask(g, pp) <=> c \in Cycles /\ g.offset <= c /\ c < top
  BY DEF GroupMask
<1>7. Cardinality(GroupMask(g, pp)) = IF g.offset < top THEN top - g.offset ELSE 0
  BY MaskTyped
<1>8. /\ Advance(g, pp).start = g.start /\ Advance(g, pp).offset = 0
      /\ Advance(g, pp).rem = 2 * (left - Cardinality(GroupMask(g, pp)))
  <2>1. pp \in {1, 2, 4}
    BY <1>1
  <2>2. /\ Advance(g, pp).start = g.start /\ Advance(g, pp).offset = 0
        /\ Advance(g, pp).rem = g.rem - 2 * Cardinality(GroupMask(g, pp))
        /\ Cardinality(GroupMask(g, pp)) \in {0, 1, 2}
    BY <2>1, AdvanceTyped, MaskSize
  <2> QED
    BY <1>2, <1>3, <2>2
<1> HIDE DEF top
<1>9. g.start \in Nat /\ g.offset \in {0, 1}
  BY <1>1, <1>2
<1>10. \A c : c \in Cycles <=> c = 0 \/ c = 1
  BY DEF Cycles
<1> DEFINE n == Cardinality(GroupMask(g, pp))
<1> HIDE DEF n
<1>11. \A c \in {0, 1} : (g.offset <= c /\ c < top) <=>
          c < pp /\ first <= due * pp + c /\ due * pp + c < first + count
  <2>1. CASE pp = 1
    BY <2>1, <1>2, <1>3, <1>5, <1>9
  <2>2. CASE pp = 2
    BY <2>2, <1>2, <1>3, <1>5, <1>9
  <2> QED
    BY <1>1, <2>1, <2>2
<1>12. \A c \in {0, 1} : g.offset <= c /\ c < top =>
              2 * count - g.rem + 2 * (c - g.offset) = 2 * (due * pp + c - first)
  <2>1. CASE pp = 1
    BY <2>1, <1>2, <1>3, <1>5, <1>9
  <2>2. CASE pp = 2
    BY <2>2, <1>2, <1>3, <1>5, <1>9
  <2> QED
    BY <1>1, <2>1, <2>2
<1>13. left - n = RemainingAt(pp, first, count, due + 1)
  <2>1. n = IF g.offset < top THEN top - g.offset ELSE 0
    BY <1>7 DEF n
  <2>2. CASE pp = 1
    BY <2>1, <2>2, <1>2, <1>3, <1>5, <1>9 DEF RemainingAt
  <2>3. CASE pp = 2
    BY <2>1, <2>3, <1>2, <1>3, <1>5, <1>9 DEF RemainingAt
  <2> QED
    BY <1>1, <2>2, <2>3
<1>14. StandsAt(Advance(g, pp), pp, first, count, due + 1)
  BY <1>2, <1>8, <1>9, <1>13 DEF StandsAt, n
<1> QED
  BY <1>6, <1>10, <1>11, <1>12, <1>14

(* Before the group starts, nothing.                                       *)
LEMMA MaskLater ==
  ASSUME NEW pp \in Ratio, NEW g \in Groups, NEW first \in Nat,
         NEW count \in Nat, NEW due \in Nat,
         StandsAt(g, pp, first, count, due), ~(due >= g.start)
  PROVE  StandsAt(g, pp, first, count, due + 1) /\ (due + 1) * pp <= first
<1>1. pp = 1 \/ pp = 2
  BY DEF Ratio
<1>2. /\ g.start = first \div pp
      /\ g.offset = IF due <= g.start THEN first % pp ELSE 0
      /\ g.rem = 2 * RemainingAt(pp, first, count, due)
  BY DEF StandsAt
<1>3. (due + 1) * pp <= first /\ due * pp <= first /\ due + 1 <= g.start
  BY <1>1, <1>2
<1>4. RemainingAt(pp, first, count, due + 1) = RemainingAt(pp, first, count, due)
  BY <1>3 DEF RemainingAt
<1>5. due <= g.start /\ g.offset = first % pp
  BY <1>1, <1>2, <1>3
<1> QED
  BY <1>2, <1>3, <1>4, <1>5 DEF StandsAt

-----------------------------------------------------------------------------
(* What a packet adds to what the buffer plays.                            *)
LEMMA PlaysMore ==
  ASSUME job \in Jobs, job' = job, buf \in Buffers, NEW p \in PacketSet,
         buf'.list = Append(buf.list, p)
  PROVE  /\ Packets' = Packets \cup {p}
         /\ EnableClocks' = EnableClocks \cup
              {p.time * PerPacket + c : c \in p.en}
         /\ ReadClocks' = ReadClocks \cup {p.time * PerPacket + c : c \in p.rd}
         /\ DataWords' = DataWords \cup
              {<<p.time * PerPacket + c, p.data[c]>> : c \in DOMAIN p.data}
         /\ FrameClocks' = FrameClocks \cup
              {<<p.time * PerPacket + (n - 1), p.cmd[n]>> : n \in DOMAIN p.cmd}
<1>1. Packets' = Packets \cup {p}
  <2>1. buf.list \in Seq(PacketSet)
    BY DEF Buffers
  <2> QED
    BY <2>1, Appended DEF Packets
<1>2. \A q, c : At(q, c) = q.time * PerPacket + c /\ At(q, c)' = At(q, c)
  BY DEF At, Clock, PerPacket, cfg
<1>3. EnableClocks' = EnableClocks \cup {p.time * PerPacket + c : c \in p.en}
  <2>1. EnableClocks' = UNION {{At(q, c) : c \in q.en} : q \in Packets \cup {p}}
    BY <1>1, <1>2 DEF EnableClocks
  <2>2. EnableClocks' = EnableClocks \cup {At(p, c) : c \in p.en}
    <3>1. \A x : x \in EnableClocks' <=>
                   \E q \in Packets \cup {p} : \E c \in q.en : x = At(q, c)
      BY <2>1
    <3>2. \A x : x \in EnableClocks <=> \E q \in Packets : \E c \in q.en : x = At(q, c)
      BY DEF EnableClocks
    <3>3. \A x : x \in {At(p, c) : c \in p.en} <=> \E c \in p.en : x = At(p, c)
      OBVIOUS
    <3> QED
      BY <3>1, <3>2, <3>3
  <2>3. {At(p, c) : c \in p.en} = {p.time * PerPacket + c : c \in p.en}
    BY <1>2
  <2> QED
    BY <2>2, <2>3
<1>4. ReadClocks' = ReadClocks \cup {p.time * PerPacket + c : c \in p.rd}
  <2>1. ReadClocks' = UNION {{At(q, c) : c \in q.rd} : q \in Packets \cup {p}}
    BY <1>1, <1>2 DEF ReadClocks
  <2>2. ReadClocks' = ReadClocks \cup {At(p, c) : c \in p.rd}
    <3>1. \A x : x \in ReadClocks' <=>
                   \E q \in Packets \cup {p} : \E c \in q.rd : x = At(q, c)
      BY <2>1
    <3>2. \A x : x \in ReadClocks <=> \E q \in Packets : \E c \in q.rd : x = At(q, c)
      BY DEF ReadClocks
    <3>3. \A x : x \in {At(p, c) : c \in p.rd} <=> \E c \in p.rd : x = At(p, c)
      OBVIOUS
    <3> QED
      BY <3>1, <3>2, <3>3
  <2>3. {At(p, c) : c \in p.rd} = {p.time * PerPacket + c : c \in p.rd}
    BY <1>2
  <2> QED
    BY <2>2, <2>3
<1>5. DataWords' = DataWords \cup
        {<<p.time * PerPacket + c, p.data[c]>> : c \in DOMAIN p.data}
  <2>1. DataWords' = UNION {{<<At(q, c), q.data[c]>> : c \in DOMAIN q.data} :
                              q \in Packets \cup {p}}
    BY <1>1, <1>2 DEF DataWords
  <2> QED
    BY <1>2, <2>1 DEF DataWords
<1>6. FrameClocks' = FrameClocks \cup
        {<<p.time * PerPacket + (n - 1), p.cmd[n]>> : n \in DOMAIN p.cmd}
  <2>1. FrameClocks' = UNION {{<<At(q, n - 1), q.cmd[n]>> : n \in DOMAIN q.cmd} :
                                q \in Packets \cup {p}}
    BY <1>1, <1>2 DEF FrameClocks
  <2> QED
    BY <1>2, <2>1 DEF FrameClocks
<1> QED
  BY <1>1, <1>3, <1>4, <1>5, <1>6

(* A packet with nothing in it, and what the fills add to a packet.        *)
LEMMA BlankPlays ==
  ASSUME job \in Jobs, job' = job, buf \in Buffers,
         NEW cke \in BOOLEAN, NEW step \in Nat, buf' = Create(buf, cke, step)
  PROVE  /\ EnableClocks' = EnableClocks /\ ReadClocks' = ReadClocks
         /\ DataWords' = DataWords /\ FrameClocks' = FrameClocks
<1>1. CASE HasRoom(buf)
  <2> DEFINE t == U16(buf.ts + step)
             p == Packet(t, cke)
  <2>1. buf'.list = Append(buf.list, p) /\ p \in PacketSet
    BY <1>1, Created
  <2>2. p.cmd = <<>> /\ p.en = {} /\ p.rd = {} /\ p.data = <<>>
    BY DEF Packet
  <2> HIDE DEF p
  <2>3. DOMAIN p.cmd = {} /\ DOMAIN p.data = {}
    BY <2>2
  <2>4. /\ {p.time * PerPacket + c : c \in p.en} = {}
        /\ {p.time * PerPacket + c : c \in p.rd} = {}
        /\ {<<p.time * PerPacket + c, p.data[c]>> : c \in DOMAIN p.data} = {}
        /\ {<<p.time * PerPacket + (n - 1), p.cmd[n]>> : n \in DOMAIN p.cmd} = {}
    BY <2>2, <2>3
  <2> QED
    BY <2>1, <2>4, PlaysMore
<1>2. CASE ~HasRoom(buf)
  <2>1. buf' = buf
    BY <1>2, Created
  <2> QED
    BY <2>1
    DEF EnableClocks, ReadClocks, DataWords, FrameClocks, Packets, At, Clock, cfg
<1> QED
  BY <1>1, <1>2

LEMMA PacketParts ==
  ASSUME NEW p \in PacketSet
  PROVE  p = [time |-> p.time, cke |-> p.cke, cmd |-> p.cmd, en |-> p.en,
              rd |-> p.rd, data |-> p.data]
BY DEF PacketSet

LEMMA FillFields ==
  ASSUME NEW p \in PacketSet, NEW g, NEW pp
  PROVE  /\ FillEnable(p, g, pp).time = p.time
         /\ FillEnable(p, g, pp).cmd = p.cmd
         /\ FillEnable(p, g, pp).data = p.data
         /\ FillEnable(p, g, pp).en = p.en \cup GroupMask(g, pp)
BY PacketParts DEF FillEnable

LEMMA FillReadFields ==
  ASSUME NEW p \in PacketSet, NEW g, NEW pp
  PROVE  /\ FillRead(p, g, pp).time = p.time
         /\ FillRead(p, g, pp).cmd = p.cmd
         /\ FillRead(p, g, pp).en = p.en
         /\ FillRead(p, g, pp).data = p.data
         /\ FillRead(p, g, pp).rd = p.rd \cup GroupMask(g, pp)
BY PacketParts DEF FillRead

LEMMA FillDataFields ==
  ASSUME NEW p \in PacketSet, NEW g, NEW pp, NEW phases
  PROVE  LET q == FillData(p, g, pp, phases)
         IN  /\ q.time = p.time /\ q.cmd = p.cmd /\ q.en = p.en /\ q.rd = p.rd
             /\ q.data = [c \in GroupMask(g, pp) |->
                            phases - g.rem + 2 * (c - g.offset)]
BY PacketParts DEF FillData

-----------------------------------------------------------------------------
(* Clocks given, before and after the packet due.                          *)
LEMMA GivenNext ==
  ASSUME NEW pp \in Ratio, NEW g \in Groups, NEW first \in Nat,
         NEW count \in Nat, count >= 2, NEW due \in Nat,
         StandsAt(g, pp, first, count, due), due >= g.start
  PROVE  /\ GivenAt(pp, first, count, due + 1) =
              GivenAt(pp, first, count, due) \cup
                {due * pp + c : c \in GroupMask(g, pp)}
         /\ Words(first, GivenAt(pp, first, count, due + 1)) =
              Words(first, GivenAt(pp, first, count, due)) \cup
                {<<due * pp + c, 2 * count - g.rem + 2 * (c - g.offset)>> :
                   c \in GroupMask(g, pp)}
<1> DEFINE mask == GroupMask(g, pp)
           old == GivenAt(pp, first, count, due)
           new == GivenAt(pp, first, count, due + 1)
<1>1. \A c : c \in mask <=> /\ c \in {0, 1} /\ c < pp
                            /\ first <= due * pp + c /\ due * pp + c < first + count
  BY MaskWindow DEF Cycles
<1>2. \A c \in mask : 2 * count - g.rem + 2 * (c - g.offset)
                        = 2 * ((due * pp + c) - first)
  <2>1. \A c \in mask : 2 * (due * pp + c - first) = 2 * ((due * pp + c) - first)
    BY DEF Ratio, GroupMask, Cycles
  <2> QED
    BY <2>1, MaskWindow
<1> HIDE DEF mask
<1>3. \A x : /\ x \in old <=> x \in Int /\ first <= x /\ x < first + count /\ x < due * pp
             /\ x \in new <=> x \in Int /\ first <= x /\ x < first + count
                              /\ x < (due + 1) * pp
  BY DEF GivenAt, Between
<1> HIDE DEF old, new
<1>4. \A x : x \in new <=> x \in old \/ \E c \in mask : x = due * pp + c
  <2>1. pp = 1 \/ pp = 2
    BY DEF Ratio
  <2>2. ASSUME NEW x, x \in new, x \notin old
        PROVE  \E c \in mask : x = due * pp + c
    <3>1. PICK c \in {0, 1} : x = due * pp + c /\ c < pp
      <4>1. x \in Int /\ due * pp <= x /\ x < (due + 1) * pp
        BY <1>3, <2>1, <2>2
      <4>2. CASE pp = 1
        BY <4>1, <4>2
      <4>3. CASE pp = 2
        <5>1. x = due * 2 \/ x = due * 2 + 1
          BY <4>1, <4>3
        <5> QED
          BY <4>3, <5>1
      <4> QED
        BY <2>1, <4>2, <4>3
    <3>2. c \in mask
      BY <1>1, <1>3, <2>2, <3>1
    <3> QED
      BY <3>1, <3>2
  <2>3. \A c \in mask : due * pp + c \in new
    BY <1>1, <1>3, <2>1
  <2>4. old \subseteq new
    BY <1>3, <2>1
  <2> QED
    BY <2>2, <2>3, <2>4
<1>5. new = old \cup {due * pp + c : c \in mask}
  BY <1>4
<1>6. Words(first, new) = Words(first, old) \cup
        {<<due * pp + c, 2 * ((due * pp + c) - first)>> : c \in mask}
  <2> DEFINE W(x) == <<x, 2 * (x - first)>>
  <2>1. {W(x) : x \in new} = {W(x) : x \in old} \cup {W(due * pp + c) : c \in mask}
    <3> HIDE DEF W
    <3> QED
      BY <1>5
  <2>2. Words(first, new) = {W(x) : x \in new} /\ Words(first, old) = {W(x) : x \in old}
    BY DEF Words
  <2> DEFINE added == {<<due * pp + c, 2 * ((due * pp + c) - first)>> : c \in mask}
  <2>3. {W(due * pp + c) : c \in mask} = added
    BY DEF W, added
  <2> HIDE DEF W, added
  <2>4. Words(first, new) = Words(first, old) \cup added
    BY <2>1, <2>2, <2>3
  <2> QED
    BY <2>4 DEF added
<1>7. {<<due * pp + c, 2 * ((due * pp + c) - first)>> : c \in mask} =
        {<<due * pp + c, 2 * count - g.rem + 2 * (c - g.offset)>> : c \in mask}
  BY <1>2
<1> QED
  BY <1>5, <1>6, <1>7 DEF mask, old, new

LEMMA GivenGrows ==
  ASSUME NEW pp \in Ratio, NEW g \in Groups, NEW first \in Nat,
         NEW count \in Nat, count >= 2, NEW due \in Nat,
         StandsAt(g, pp, first, count, due), due >= g.start
  PROVE  GivenAt(pp, first, count, due + 1) =
           GivenAt(pp, first, count, due) \cup
             {due * pp + c : c \in GroupMask(g, pp)}
BY GivenNext

LEMMA GivenLater ==
  ASSUME NEW pp \in Ratio, NEW first \in Nat, NEW count \in Nat, NEW due \in Nat,
         (due + 1) * pp <= first
  PROVE  GivenAt(pp, first, count, due + 1) = GivenAt(pp, first, count, due)
<1>1. pp = 1 \/ pp = 2
  BY DEF Ratio
<1>2. \A x \in Int : first <= x => ~(x < (due + 1) * pp) /\ ~(x < due * pp)
  BY <1>1
<1> QED
  BY <1>2 DEF GivenAt, Between

-----------------------------------------------------------------------------
(* The command: frame n of it in the n-th clock of the packets so far.     *)
LEMMA PlayedNext ==
  ASSUME NEW pp \in Ratio, NEW l \in Nat, NEW n \in Nat
  PROVE  Played(pp, l, n + 1) = Played(pp, l, n) \cup
           {<<(l + n + 1) * pp + (m - 1), <<0, pp * n + m>>>> : m \in 1 .. pp}
<1>1. pp = 1 \/ pp = 2
  BY DEF Ratio
<1> DEFINE F(k) == <<(l + 1) * pp + k - 1, <<0, k>>>>
<1>2. \A m \in 1 .. pp : <<(l + n + 1) * pp + (m - 1), <<0, pp * n + m>>>> = F(pp * n + m)
  BY <1>1
<1>3. \A k : k \in 1 .. pp * (n + 1) <=>
               k \in 1 .. pp * n \/ \E m \in 1 .. pp : k = pp * n + m
  <2>1. CASE pp = 1
    <3>1. \A k : k \in 1 .. n + 1 <=> k \in 1 .. n \/ k = n + 1
      OBVIOUS
    <3> QED
      BY <2>1, <3>1
  <2>2. CASE pp = 2
    <3>1. \A k : k \in 1 .. 2 * (n + 1) <=> k \in 1 .. 2 * n \/ k = 2 * n + 1 \/ k = 2 * n + 2
      OBVIOUS
    <3> QED
      BY <2>2, <3>1
  <2> QED
    BY <1>1, <2>1, <2>2
<1> DEFINE new == {<<(l + n + 1) * pp + (m - 1), <<0, pp * n + m>>>> : m \in 1 .. pp}
<1>4. new = {F(pp * n + m) : m \in 1 .. pp}
  BY <1>2
<1>5. Played(pp, l, n + 1) = {F(k) : k \in 1 .. pp * (n + 1)}
      /\ Played(pp, l, n) = {F(k) : k \in 1 .. pp * n}
  BY DEF Played
<1> HIDE DEF F, new
<1>6. {F(k) : k \in 1 .. pp * (n + 1)} =
        {F(k) : k \in 1 .. pp * n} \cup {F(pp * n + m) : m \in 1 .. pp}
  BY <1>3
<1>7. Played(pp, l, n + 1) = Played(pp, l, n) \cup new
  BY <1>4, <1>5, <1>6
<1> QED
  BY <1>7 DEF new

LEMMA EmptyPlays ==
  ASSUME buf.list = <<>>
  PROVE  /\ EnableClocks = {} /\ ReadClocks = {} /\ DataWords = {}
         /\ FrameClocks = {} /\ Packets = {}
<1>1. Packets = {}
  BY DEF Packets, ToSet
<1> QED
  BY <1>1 DEF EnableClocks, ReadClocks, DataWords, FrameClocks

LEMMA PlaysSame ==
  ASSUME job' = job, buf' = buf
  PROVE  /\ UNCHANGED <<EnableClocks, ReadClocks, DataWords, FrameClocks, Packets>>
         /\ UNCHANGED <<PerPacket, cfg, Silent, Short, Begin>>
         /\ \A t : Clock(t)' = Clock(t)
BY DEF EnableClocks, ReadClocks, DataWords, FrameClocks, Packets, At, Clock, cfg,
       PerPacket, Silent, Short, Begin

(* The first command of a call, and a call without room for it.            *)
LEMMA AddressNext ==
  ASSUME Typed, AddressInv, [Next]_vars
  PROVE  AddressInv'
<1>1. CASE UNCHANGED vars
  <2>1. /\ UNCHANGED <<EnableClocks, ReadClocks, DataWords, FrameClocks, Packets>>
        /\ UNCHANGED <<PerPacket, cfg, Silent, Short, Begin>>
    BY <1>1, PlaysSame DEF vars
  <2> QED
    BY <1>1, <2>1 DEF vars, AddressInv
<1>2. CASE Call
  BY <1>2, JobTyped DEF Call, Kinds, AddressInv
<1> SUFFICES ASSUME Next, ~Call PROVE AddressInv'
  BY <1>1, <1>2
<1>3. job' = job /\ job \in Jobs /\ buf \in Buffers /\ PerPacket \in Ratio
  BY BufferNext, State, Scale
<1>4. PerPacket' = PerPacket
  BY <1>3 DEF PerPacket, cfg
<1>5. CASE WrfifoBegin \/ ReadBegin
  <2>1. /\ buf' = buf /\ buf = NewBuffer(job.last, job.room)
        /\ gap' = 1 /\ frame' = 0
    BY <1>5 DEF WrfifoBegin, ReadBegin, Typed, PlaceInv, Kinds
  <2>2. /\ buf.list = <<>> /\ buf'.list = <<>> /\ Len(buf'.list) = 0
        /\ buf'.ts = job'.last + 0
    <3>1. job.last + 0 = job.last
      BY <1>3, JobTyped, WordNat
    <3> QED
      BY <1>3, <2>1, <3>1 DEF NewBuffer
  <2>3. Silent' /\ FrameClocks' = {}
    <3>1. /\ EnableClocks = {} /\ ReadClocks = {} /\ DataWords = {}
          /\ FrameClocks = {}
      BY <2>2, EmptyPlays
    <3>2. UNCHANGED <<EnableClocks, ReadClocks, DataWords, FrameClocks>>
      BY <1>3, <2>1
      DEF EnableClocks, ReadClocks, DataWords, FrameClocks, Packets, At, Clock, cfg
    <3> QED
      BY <3>1, <3>2 DEF Silent
  <2>4. PerPacket * 0 = 0 /\ Played(PerPacket, job.last, 0) = {}
    BY <1>3 DEF Played, Ratio
  <2> QED
    BY <1>3, <1>4, <2>1, <2>2, <2>3, <2>4 DEF AddressInv, Frames
<1>6. CASE AddressPacket /\ job.kind # "mrw" /\ job.last < 256
  <2> DEFINE n == Len(buf.list)
             at == job.last + n + 1
  <2>1. /\ pc = "address" /\ frame < 4 /\ command = 0 /\ UNCHANGED pc
    BY <1>6 DEF AddressPacket, Frames, Typed, PlaceInv
  <2>2. /\ gap = 1 /\ buf.ts = job.last + n /\ Silent /\ PerPacket * n <= 4
        /\ FrameClocks = Played(PerPacket, job.last, n)
        /\ frame = PerPacket * n
    BY <1>6, <2>1 DEF AddressInv, Frames
  <2>3. n \in Nat /\ (PerPacket = 1 \/ PerPacket = 2) /\ job.last \in Nat
    BY <1>3, State, JobTyped, WordNat DEF Ratio
  <2>6. at \in Nat /\ at < 65536 /\ buf.ts + 1 = at
    BY <1>6, <2>2, <2>3
  <2> HIDE DEF at
  <2>4. CASE HasRoom(buf)
    <3> DEFINE q == Newest(Create(buf, TRUE, gap))
               p == [q EXCEPT
                       !.cmd = [m \in 1 .. PerPacket |-> <<command, frame + m>>]]
    <3>1. /\ buf' = SetNewest(Create(buf, TRUE, gap), p)
          /\ frame' = frame + PerPacket /\ gap' = 1
      BY <1>6, <2>4 DEF AddressPacket, CreateCke
    <3>2. q = Packet(at, TRUE) /\ U16(buf.ts + gap) = at
      <4>1. U16(buf.ts + gap) = at
        BY <2>2, <2>6, Widths
      <4>2. gap \in Nat /\ q = Packet(U16(buf.ts + gap), TRUE)
        BY <1>3, <2>2, <2>4, Created
      <4> QED
        BY <4>1, <4>2
    <3>a. q = [time |-> at, cke |-> TRUE, cmd |-> <<>>,
               en |-> {}, rd |-> {}, data |-> <<>>]
      BY <3>2 DEF Packet
    <3> HIDE DEF q
    <3>3. p = [time |-> at, cke |-> TRUE,
               cmd |-> [m \in 1 .. PerPacket |-> <<command, frame + m>>],
               en |-> {}, rd |-> {}, data |-> <<>>]
      <4> DEFINE f == [m \in 1 .. PerPacket |-> <<command, frame + m>>]
      <4>1. p = [q EXCEPT !.cmd = f]
        OBVIOUS
      <4> HIDE DEF p, f
      <4>2. p = [time |-> at, cke |-> TRUE, cmd |-> f, en |-> {}, rd |-> {},
                 data |-> <<>>]
        BY <3>a, <4>1
      <4> QED
        BY <4>2 DEF f
    <3>4. p \in PacketSet
      <4>1. at \in Word /\ <<>> \in PacketData
        <5>1. at \in Word
          BY <2>6, Widths
        <5>2. <<>> \in [{} -> Int]
          OBVIOUS
        <5> QED
          BY <5>1, <5>2 DEF PacketData
      <4>2. [m \in 1 .. PerPacket |-> <<command, frame + m>>] \in Seq(Nat \X Nat)
        <5>1. \A m \in 1 .. PerPacket : <<command, frame + m>> \in Nat \X Nat
          <6>1. frame \in Nat /\ command \in Nat /\ PerPacket \in Nat
            BY <2>1, <2>2, <2>3
          <6> QED
            BY <6>1
        <5> QED
          BY <2>3, <5>1
      <4> QED
        BY <3>3, <4>1, <4>2 DEF PacketSet
    <3>5. /\ buf'.list = Append(buf.list, p) /\ buf'.ts = at
          /\ buf'.left = buf.left - 1
      <4> HIDE DEF p
      <4>1. gap \in Nat
        BY <2>2
      <4>2. buf' = [ts |-> U16(buf.ts + gap), list |-> Append(buf.list, p),
                    left |-> buf.left - 1]
        BY <1>3, <2>4, <3>1, <3>4, <4>1, Filled
      <4> QED
        BY <3>2, <4>2
    <3>6. /\ p.time = at /\ p.en = {} /\ p.rd = {} /\ DOMAIN p.data = {}
          /\ DOMAIN p.cmd = 1 .. PerPacket
           /\ p.cmd = [m \in 1 .. PerPacket |-> <<0, PerPacket * n + m>>]
      <4>1. p.cmd = [m \in 1 .. PerPacket |-> <<command, frame + m>>]
        BY <3>3
      <4>2. p.cmd = [m \in 1 .. PerPacket |-> <<0, PerPacket * n + m>>]
        BY <2>1, <2>2, <4>1
      <4> QED
        BY <3>3, <4>2
    <3> HIDE DEF p
    <3>7. Len(buf'.list) = n + 1
      BY <1>3, <3>4, <3>5, Appended DEF Buffers
    <3>8. Silent'
      <4>1. /\ {p.time * PerPacket + c : c \in p.en} = {}
            /\ {p.time * PerPacket + c : c \in p.rd} = {}
            /\ {<<p.time * PerPacket + c, p.data[c]>> : c \in DOMAIN p.data} = {}
        BY <3>6
      <4> QED
        BY <1>3, <2>2, <3>4, <3>5, <4>1, PlaysMore DEF Silent
    <3>9. FrameClocks' = Played(PerPacket, job.last, n + 1)
      <4>1. {<<p.time * PerPacket + (m - 1), p.cmd[m]>> : m \in DOMAIN p.cmd} =
              {<<(job.last + n + 1) * PerPacket + (m - 1), <<0, PerPacket * n + m>>>> :
                 m \in 1 .. PerPacket}
        <5>1. \A m \in 1 .. PerPacket :
                <<p.time * PerPacket + (m - 1), p.cmd[m]>> =
                  <<(job.last + n + 1) * PerPacket + (m - 1), <<0, PerPacket * n + m>>>>
          BY <2>3, <3>6 DEF at
        <5>2. DOMAIN p.cmd = 1 .. PerPacket
          BY <3>6
        <5> QED
          BY <5>1, <5>2
      <4>2. FrameClocks' = FrameClocks \cup
              {<<p.time * PerPacket + (m - 1), p.cmd[m]>> : m \in DOMAIN p.cmd}
        BY <1>3, <3>4, <3>5, PlaysMore
      <4>3. Played(PerPacket, job.last, n + 1) = Played(PerPacket, job.last, n) \cup
              {<<(job.last + n + 1) * PerPacket + (m - 1), <<0, PerPacket * n + m>>>> :
                 m \in 1 .. PerPacket}
        BY <1>3, <2>3, PlayedNext
      <4> QED
        BY <2>2, <4>1, <4>2, <4>3, Zenon
    <3>10. PerPacket * (n + 1) <= 4 /\ frame' = PerPacket * (n + 1)
      BY <2>1, <2>2, <2>3, <3>1
    <3>11. gap' = 1 /\ buf'.ts = job'.last + Len(buf'.list)
      <4> DEFINE l == Len(buf'.list)
      <4>1. l = n + 1 /\ buf'.ts = at /\ gap' = 1 /\ at = job.last + n + 1
        BY <3>1, <3>5, <3>7 DEF at
      <4> HIDE DEF l, n
      <4>2. buf'.ts = job'.last + l
        BY <1>3, <2>3, <4>1
      <4> QED
        BY <4>1, <4>2 DEF l
    <3>12. /\ PerPacket' * Len(buf'.list) <= 4
           /\ frame' = PerPacket' * Len(buf'.list)
           /\ FrameClocks' = Played(PerPacket', job'.last, Len(buf'.list))
      BY <1>3, <1>4, <3>7, <3>9, <3>10
    <3> QED
      BY <3>8, <3>11, <3>12 DEF AddressInv, Frames
  <2>5. CASE ~HasRoom(buf)
    <3>1. buf' = buf /\ gap' = gap /\ frame' = 4
      BY <1>6, <2>5 DEF AddressPacket, Frames
    <3>2. UNCHANGED <<EnableClocks, ReadClocks, DataWords, FrameClocks>>
      BY <1>3, <3>1
      DEF EnableClocks, ReadClocks, DataWords, FrameClocks, Packets, At, Clock, cfg
    <3>3. Short'
      <4>1. buf.left = 0
        BY <2>5, State DEF HasRoom
      <4>2. n <= 5
        <5>1. n \in Nat /\ (PerPacket = 1 \/ PerPacket = 2) /\ PerPacket * n <= 4
          BY <2>2, <2>3
        <5> HIDE DEF n
        <5>2. CASE PerPacket = 1
          BY <5>1, <5>2
        <5>3. CASE PerPacket = 2
          BY <5>1, <5>3
        <5> QED
          BY <5>1, <5>2, <5>3
      <4> QED
        BY <3>1, <4>1, <4>2 DEF Short
    <3>4. Silent'
      BY <2>2, <3>2 DEF Silent
    <3> QED
      BY <1>3, <1>4, <2>2, <3>1, <3>2, <3>3, <3>4 DEF AddressInv, Frames
  <2> QED
    BY <2>4, <2>5
<1>7. CASE /\ ~WrfifoBegin /\ ~ReadBegin
           /\ ~(AddressPacket /\ job.kind # "mrw" /\ job.last < 256)
  <2>1. pc' # "address" \/ job'.kind = "mrw" \/ ~(job'.last < 256)
    BY <1>3, <1>7
    DEF Next, WrlvlBegin, BurstBegin, WrfifoPacket, ReadPacket, WrlvlPacket,
        OutOfPackets, Closing, CbtBegin, CbtPacket, CbtHold, CbtCommand,
        MrwBegin, MrwNext, Go, Return, Typed, PlaceInv, Kinds
  <2> QED
    BY <2>1 DEF AddressInv
<1> QED
  BY <1>5, <1>6, <1>7

-----------------------------------------------------------------------------
(* The next packet of a loop: created when it is due, then filled.         *)
LEMMA PacketDue ==
  ASSUME Typed, HasRoom(buf), Due \in Word, NEW cke \in BOOLEAN
  PROVE  /\ Create(buf, cke, gap).ts = Due
         /\ Newest(Create(buf, cke, gap)) = Packet(Due, cke)
         /\ Packet(Due, cke) \in PacketSet
<1>1. buf \in Buffers /\ gap \in Nat /\ buf.ts \in Nat
  BY State
<1>2. U16(buf.ts + gap) = Due /\ Due \in Nat
  BY <1>1, Widths DEF Due
<1> QED
  BY <1>1, <1>2, Created

LEMMA PacketPut ==
  ASSUME Typed, HasRoom(buf), Due \in Word, NEW cke \in BOOLEAN, NEW p \in PacketSet
  PROVE  /\ SetNewest(Create(buf, cke, gap), p).ts = Due
         /\ SetNewest(Create(buf, cke, gap), p).list = Append(buf.list, p)
         /\ SetNewest(Create(buf, cke, gap), p).left = buf.left - 1
         /\ Len(SetNewest(Create(buf, cke, gap), p).list) = Len(buf.list) + 1
<1>1. buf \in Buffers /\ gap \in Nat /\ buf.ts \in Nat /\ buf.list \in Seq(PacketSet)
  BY State
<1>2. U16(buf.ts + gap) = Due /\ Due \in Nat
  BY <1>1, Widths DEF Due
<1>3. SetNewest(Create(buf, cke, gap), p) =
        [ts |-> Due, list |-> Append(buf.list, p), left |-> buf.left - 1]
  BY <1>1, <1>2, Filled
<1>4. Len(Append(buf.list, p)) = Len(buf.list) + 1
  BY <1>1, Appended
<1> QED
  BY <1>3, <1>4

-----------------------------------------------------------------------------
(* Timestamps in order.                                                    *)
LEMMA OrderAppend ==
  ASSUME NEW b \in Buffers, NEW c \in Buffers, NEW p \in PacketSet, Ordered(b),
         c.list = Append(b.list, p), p.time = c.ts, b.ts < c.ts
  PROVE  Ordered(c)
<1> DEFINE n == Len(b.list)
<1>1. b.list \in Seq(PacketSet) /\ n \in Nat /\ b.ts \in Int /\ c.ts \in Int
  BY WordNat DEF Buffers
<1>2. /\ Len(c.list) = n + 1 /\ c.list[n + 1] = p
      /\ \A i \in 1 .. n : c.list[i] = b.list[i]
  BY <1>1, Appended
<1>3. /\ \A i, j \in 1 .. n : i < j => b.list[i].time < b.list[j].time
      /\ \A i \in 1 .. n : b.list[i].time <= b.ts /\ b.list[i].time \in Int
  <2>1. \A q \in PacketSet : q.time \in Int
    BY WordNat DEF PacketSet
  <2>2. \A i \in 1 .. n : b.list[i] \in PacketSet
    BY <1>1
  <2> QED
    BY <2>1, <2>2 DEF Ordered
<1> HIDE DEF n
<1>4. \A i \in 1 .. n + 1 : i \in 1 .. n \/ i = n + 1
  BY <1>1
<1>5. ASSUME NEW i \in 1 .. n + 1, NEW j \in 1 .. n + 1, i < j
      PROVE  c.list[i].time < c.list[j].time
  <2>1. i \in 1 .. n
    BY <1>1, <1>5
  <2>2. CASE j \in 1 .. n
    BY <1>2, <1>3, <1>5, <2>1, <2>2
  <2>3. CASE j = n + 1
    BY <1>1, <1>2, <1>3, <2>1, <2>3
  <2> QED
    BY <1>4, <2>2, <2>3
<1>6. ASSUME NEW i \in 1 .. n + 1
      PROVE  c.list[i].time <= c.ts
  BY <1>1, <1>2, <1>3, <1>4
<1> QED
  BY <1>2, <1>5, <1>6 DEF Ordered

LEMMA OrderCreate ==
  ASSUME NEW b \in Buffers, NEW cke \in BOOLEAN, NEW step \in Nat, Ordered(b),
         HasRoom(b) => step >= 1 /\ b.ts + step \in Word
  PROVE  Ordered(Create(b, cke, step))
<1>1. CASE HasRoom(b)
  <2> DEFINE c == Create(b, cke, step)
             p == Packet(b.ts + step, cke)
  <2>1. b.ts \in Nat /\ U16(b.ts + step) = b.ts + step
    BY <1>1, Widths DEF Buffers
  <2>2. /\ c \in Buffers /\ c.ts = b.ts + step /\ c.list = Append(b.list, p)
        /\ p \in PacketSet
    <3>1. /\ c \in Buffers
          /\ c = [ts |-> U16(b.ts + step),
                  list |-> Append(b.list, Packet(U16(b.ts + step), cke)),
                  left |-> b.left - 1]
          /\ Packet(U16(b.ts + step), cke) \in PacketSet
      BY <1>1, Created
    <3> HIDE DEF c
    <3> QED
      BY <2>1, <3>1
  <2>3. p.time = b.ts + step
    BY DEF Packet
  <2>4. b.ts < b.ts + step
    BY <1>1, <2>1
  <2> HIDE DEF c, p
  <2>5. Ordered(c)
    BY <2>2, <2>3, <2>4, OrderAppend
  <2> QED
    BY <2>5 DEF c
<1>2. CASE ~HasRoom(b)
  BY <1>2, Created
<1> QED
  BY <1>1, <1>2

LEMMA OrderPut ==
  ASSUME NEW b \in Buffers, NEW cke \in BOOLEAN, NEW step \in Nat, Ordered(b),
         HasRoom(b), step >= 1, b.ts + step \in Word,
         NEW p \in PacketSet, p.time = b.ts + step
  PROVE  Ordered(SetNewest(Create(b, cke, step), p))
<1> DEFINE c == SetNewest(Create(b, cke, step), p)
<1>1. b.ts \in Nat /\ U16(b.ts + step) = b.ts + step
  BY Widths DEF Buffers
<1>2. c \in Buffers /\ c.ts = b.ts + step /\ c.list = Append(b.list, p)
  BY <1>1, Filled
<1>3. b.ts < b.ts + step
  BY <1>1
<1> HIDE DEF c
<1>4. Ordered(c)
  BY <1>2, <1>3, OrderAppend
<1> QED
  BY <1>4 DEF c

LEMMA OrderEmpty ==
  ASSUME NEW last \in Word, NEW room \in Nat
  PROVE  Ordered(NewBuffer(last, room))
BY DEF Ordered, NewBuffer

LEMMA OrderPackets ==
  ASSUME buf \in Buffers, Ordered(buf), NEW p \in Packets
  PROVE  p \in PacketSet /\ p.time \in Nat /\ p.time <= buf.ts
<1>1. buf.list \in Seq(PacketSet)
  BY DEF Buffers
<1>2. PICK i \in 1 .. Len(buf.list) : p = buf.list[i]
  BY <1>1 DEF Packets, ToSet
<1>3. p \in PacketSet
  BY <1>1, <1>2
<1> QED
  BY <1>2, <1>3, WordNat DEF Ordered, PacketSet

-----------------------------------------------------------------------------
(* The WRFIFO sequence.                                                    *)
LEMMA WriteParts ==
  ASSUME Writes, job \in Jobs, job.kind = "wrfifo"
  PROVE  /\ job.last = 1 /\ WrFirst \in Nat /\ WrFirst + cfg.wrEn \in Nat /\ cfg.wrEn \in Nat
         /\ WrFirst + cfg.wrEn < 256
         /\ WrFirst = 2 * PerPacket + 3 + cfg.wrLat + job.enOff
         /\ WrFirst > 2 * PerPacket + 3
         /\ Begin = 2 * PerPacket
         /\ EnCount \in Nat /\ DaCount \in Nat /\ job.bl + 4 = 2 * EnCount
         /\ job.bl = 2 * DaCount /\ EnCount >= 2 /\ DaCount >= 2
         /\ EnCount <= 18 /\ DaCount <= 16
<1>1. PerPacket \in {1, 2} /\ cfg \in Timings /\ job.enOff \in WrOffsets
      /\ job.bl \in {16, 32} /\ \A t : Clock(t) = t * PerPacket
      /\ job.last = 1
  BY Scale, JobTyped DEF Ratio
<1>2. cfg.wrLat \in Nat /\ cfg.wrEn \in Nat /\ job.enOff \in Nat
  BY Scale, WordNat
<1>3. 0 < cfg.wrLat + job.enOff
      /\ FirstClock(cfg, 1) + cfg.wrLat + job.enOff + cfg.wrEn < 2^8
  BY <1>1 DEF Writes, WriteFits
<1>4. FirstClock(cfg, 1) = 2 * PerPacket + 3
  BY DEF FirstClock, CaClkLen, PerPacket
<1>5. Begin = 2 * PerPacket /\ WrFirst = 2 * PerPacket + 3 + cfg.wrLat + job.enOff
  BY <1>1, <1>2 DEF Begin, WrFirst, CaClkLen
<1> QED
  BY <1>1, <1>2, <1>3, <1>4, <1>5 DEF EnCount, DaCount

LEMMA WriteStarts ==
  ASSUME Writes, Typed, WrfifoBegin
  PROVE  /\ en'  = Group(cfg.ratio, WrFirst, job.bl + 4)
         /\ dat' = Group(cfg.ratio, WrFirst + cfg.wrEn, job.bl)
<1>1. job \in Jobs /\ job.kind = "wrfifo" /\ buf.ts = job.last
  BY State DEF Typed, PlaceInv, WrfifoBegin, Kinds, NewBuffer
<1>2. \A n \in Nat : n < 256 => U8(n) = n
  BY Widths
<1>3. WrEnableClock = WrFirst
  <2>1. Clock(buf.ts + 1) + CaClkLen + cfg.wrLat + job.enOff = WrFirst
    BY <1>1 DEF WrFirst, Begin
  <2>2. WrFirst \in Nat /\ WrFirst < 256
    BY <1>1, WriteParts
  <2> QED
    BY <1>2, <2>1, <2>2 DEF WrEnableClock
<1>4. WrDataClock = WrFirst + cfg.wrEn
  BY <1>1, <1>2, <1>3, WriteParts DEF WrDataClock
<1> QED
  BY <1>3, <1>4 DEF WrfifoBegin

LEMMA GroupAt ==
  ASSUME NEW r, NEW pp, 2^r = pp, NEW clock \in Nat, clock < 65536, NEW phases
  PROVE  Group(r, clock, phases) =
           [start |-> clock \div pp, offset |-> clock % pp, rem |-> phases]
<1>1. U16(clock) = clock
  BY Widths
<1> QED
  BY <1>1 DEF Group

(* A group that has not started, and one that has ended.                   *)
LEMMA StandsFirst ==
  ASSUME job \in Jobs, NEW first \in Nat, first < 65536, NEW count \in Nat,
         2 * count \in Word, NEW due \in Nat, due <= first \div PerPacket,
         NEW g, g = Group(cfg.ratio, first, 2 * count)
  PROVE  /\ StandsAt(g, PerPacket, first, count, due)
         /\ GivenAt(PerPacket, first, count, due) = {}
         /\ g.start = first \div PerPacket
<1>1. cfg.ratio \in {0, 1} /\ PerPacket \in Ratio /\ PerPacket = 2^cfg.ratio
  BY Scale DEF PerPacket
<1>2. first \in Word
  BY Widths
<1>3. /\ g.rem = 2 * count /\ g.start = first \div PerPacket
      /\ g.offset = first % PerPacket
  <2>1. g = [start |-> first \div PerPacket, offset |-> first % PerPacket,
             rem |-> 2 * count]
    BY <1>1, GroupAt
  <2> QED
    BY <2>1
<1>4. due * PerPacket <= first
  BY <1>1 DEF Ratio
<1>5. StandsAt(g, PerPacket, first, count, due)
  BY <1>3, <1>4 DEF StandsAt, RemainingAt
<1>6. GivenAt(PerPacket, first, count, due) = {}
  <2>1. due * PerPacket \in Nat
    BY <1>1 DEF Ratio
  <2> QED
    BY <1>4, <2>1 DEF GivenAt, Between
<1> QED
  BY <1>3, <1>5, <1>6

LEMMA StandsLast ==
  ASSUME NEW pp \in Ratio, NEW first \in Nat, NEW count \in Nat, NEW due \in Nat,
         NEW g, StandsAt(g, pp, first, count, due), count > 0
  PROVE  /\ g.rem > 0 <=> due * pp < first + count
         /\ ~(g.rem > 0) => GivenAt(pp, first, count, due) = Between(first, count)
<1>1. pp = 1 \/ pp = 2
  BY DEF Ratio
<1>2. g.rem > 0 <=> due * pp < first + count
  BY <1>1 DEF StandsAt, RemainingAt
<1>3. ASSUME first + count <= due * pp
      PROVE  GivenAt(pp, first, count, due) = Between(first, count)
  <2>1. \A x \in Between(first, count) : x < due * pp
    BY <1>1, <1>3 DEF Between
  <2> QED
    BY <2>1 DEF GivenAt
<1>4. due * pp \in Nat
  BY <1>1
<1> QED
  BY <1>2, <1>3, <1>4

(* The end of the command: from there the first enable is due.             *)
LEMMA WholePlayed ==
  ASSUME NEW pp \in Ratio, NEW l \in Nat, NEW n \in Nat, pp * n = 4
  PROVE  Played(pp, l, n) = CommandAt((l + 1) * pp, 0) /\ n <= 4 /\ (pp = 2 => n = 2)
<1>1. pp = 1 \/ pp = 2
  BY DEF Ratio
<1> QED
  BY <1>1 DEF Played, CommandAt, Frames

LEMMA FirstDue ==
  ASSUME Typed, AddressInv, BurstBegin, NEW first \in Nat, first < 256,
         job.last < 256, first > Begin + 3, en.start = first \div PerPacket
  PROVE  \/ Short'
         \/ /\ Whole' /\ Silent' /\ gap' >= 1 /\ Due' = first \div PerPacket
            /\ Len(buf'.list) <= 5
<1> DEFINE n == Len(buf.list)
<1>1. /\ job' = job /\ job \in Jobs /\ buf \in Buffers /\ buf.left \in Nat
      /\ PerPacket \in Ratio /\ n \in Nat /\ job.last \in Nat
  <2>1. /\ job' = job /\ job \in Jobs /\ buf \in Buffers /\ buf.left \in Nat
        /\ n \in Nat
    BY State DEF BurstBegin
  <2> QED
    BY <2>1, Scale, JobTyped, WordNat
<1>2. /\ buf.ts = job.last + n /\ Silent /\ PerPacket * n <= 4
      /\ FrameClocks = Played(PerPacket, job.last, n)
      /\ PerPacket * n = 4 \/ Short
  BY DEF AddressInv, BurstBegin, Frames
<1>3. PerPacket = 1 \/ PerPacket = 2
  BY <1>1 DEF Ratio
<1>4. CASE Short
  <2>1. buf.left = 0 /\ n <= 5
    BY <1>4 DEF Short
  <2>2. Create(buf, TRUE, 1) = buf
    <3>1. ~HasRoom(buf)
      BY <2>1 DEF HasRoom
    <3> QED
      BY <1>1, <3>1, Created
  <2>3. buf' = buf
    BY <2>2 DEF BurstBegin, CreateCke
  <2> QED
    BY <2>1, <2>3 DEF Short
<1>5. CASE PerPacket * n = 4
  <2> DEFINE start == first \div PerPacket
             d == start - buf.ts
  <2>4. Begin = (job.last + 1) * PerPacket
    BY <1>1, Scale DEF Begin
  <2>1. start \in Nat /\ start < 256 /\ buf.ts < start /\ buf.ts \in Nat
    <3> DEFINE l == job.last
    <3>1. /\ l \in Nat /\ n \in Nat /\ Begin = (l + 1) * PerPacket
          /\ first > Begin + 3 /\ buf.ts = l + n /\ PerPacket * n = 4
      BY <1>1, <1>2, <1>5, <2>4
    <3> HIDE DEF l, n
    <3>2. CASE PerPacket = 1
      <4>1. Begin = (l + 1) * 1 /\ 1 * n = 4
        BY <3>1, <3>2
      <4>2. n = 4 /\ first > l + 4
        BY <3>1, <4>1
      <4>3. first \div 1 = first
        OBVIOUS
      <4>4. start = first
        BY <3>2, <4>3
      <4> HIDE DEF start
      <4> QED
        BY <3>1, <4>2, <4>4
    <3>3. CASE PerPacket = 2
      <4>1. Begin = (l + 1) * 2 /\ 2 * n = 4
        BY <3>1, <3>3
      <4>2. n = 2 /\ first >= 2 * l + 6
        BY <3>1, <4>1
      <4>3. first \div 2 \in Nat /\ first \div 2 < 256 /\ first \div 2 >= l + 3
        BY <3>1, <4>2
      <4>4. start = first \div 2
        BY <3>3
      <4> HIDE DEF start
      <4> QED
        BY <3>1, <4>2, <4>3, <4>4
    <3> QED
      BY <1>3, <3>2, <3>3
  <2>2. d \in Nat /\ d < 256 /\ d >= 1 /\ buf.ts + d = start
    BY <2>1
  <2>3. U8(en.start + 2^16 - buf.ts) = d /\ U16(en.start + 2^16 - buf.ts) = d
    <3>1. en.start + 2^16 - buf.ts = d + 65536
      BY <2>1
    <3>2. \A k \in Nat : k < 256 => (k + 65536) % 256 = k /\ (k + 65536) % 65536 = k
      OBVIOUS
    <3> HIDE DEF d
    <3> QED
      BY <2>2, <3>1, <3>2 DEF U8, U16
  <2>5. Whole /\ n <= 4
    BY <1>1, <1>2, <1>5, <2>4, WholePlayed DEF Whole
  <2>6. \/ d > 1 /\ buf' = Create(buf, TRUE, 1) /\ gap' = d - 1
        \/ d = 1 /\ buf' = buf /\ gap' = d
    <3>1. \E e \in {U8(en.start + 2^16 - buf.ts), U16(en.start + 2^16 - buf.ts)} :
            IF e > 1 THEN buf' = CreateCke(buf, 1) /\ gap' = e - 1
            ELSE gap' = e /\ buf' = buf
      BY DEF BurstBegin
    <3> HIDE DEF d
    <3>2. IF d > 1 THEN buf' = CreateCke(buf, 1) /\ gap' = d - 1
          ELSE gap' = d /\ buf' = buf
      BY <2>3, <3>1
    <3>3. d > 1 \/ d = 1
      BY <2>2
    <3> QED
      BY <3>2, <3>3 DEF CreateCke
  <2> HIDE DEF d, start
  <2>7. CASE buf' = buf
    <3>1. (gap' = d /\ d = 1) \/ Short'
      <4>1. CASE d > 1 /\ buf' = Create(buf, TRUE, 1)
        <5>1. ~HasRoom(buf)
          <6>1. ASSUME HasRoom(buf) PROVE Create(buf, TRUE, 1).left = buf.left - 1
            BY <1>1, <6>1, CreateSum
          <6>2. buf.left # buf.left - 1
            BY <1>1
          <6> QED
            BY <2>7, <4>1, <6>1, <6>2
        <5>2. buf.left = 0
          BY <1>1, <5>1 DEF HasRoom
        <5> QED
          BY <1>1, <2>5, <2>7, <5>2 DEF Short
      <4> QED
        BY <2>6, <4>1
    <3>2. UNCHANGED <<FrameClocks, Silent, Begin>>
      BY <1>1, <2>7, PlaysSame
    <3>3. Whole' /\ Silent' /\ Len(buf'.list) <= 5
      BY <1>1, <1>2, <2>5, <2>7, <3>2 DEF Whole, CommandAt
    <3> QED
      BY <2>1, <2>2, <2>7, <3>1, <3>3 DEF Due, start
  <2>8. CASE d > 1 /\ buf' = Create(buf, TRUE, 1) /\ HasRoom(buf) /\ gap' = d - 1
    <3>1. /\ buf'.ts = U16(buf.ts + 1) /\ Len(buf'.list) = n + 1
      <4>1. buf' = [ts |-> U16(buf.ts + 1),
                    list |-> Append(buf.list, Packet(U16(buf.ts + 1), TRUE)),
                    left |-> buf.left - 1]
            /\ Packet(U16(buf.ts + 1), TRUE) \in PacketSet
        BY <1>1, <2>8, Created
      <4>2. Len(Append(buf.list, Packet(U16(buf.ts + 1), TRUE))) = n + 1
        BY <1>1, <4>1, Appended DEF Buffers
      <4> QED
        BY <4>1, <4>2
    <3>2. U16(buf.ts + 1) = buf.ts + 1
      <4>1. buf.ts + 1 \in Nat /\ buf.ts + 1 < 65536
        BY <2>1
      <4> QED
        BY <4>1, Widths
    <3>3. Due' = start /\ gap' >= 1
      <4>1. buf'.ts = buf.ts + 1
        BY <3>1, <3>2
      <4>2. buf.ts + 1 + (d - 1) = start /\ d - 1 >= 1
        BY <2>1, <2>2, <2>8
      <4>3. Due' = buf'.ts + gap'
        BY DEF Due
      <4> QED
        BY <2>8, <4>1, <4>2, <4>3
    <3>4. /\ EnableClocks' = EnableClocks /\ ReadClocks' = ReadClocks
          /\ DataWords' = DataWords /\ FrameClocks' = FrameClocks
      BY <1>1, <2>8, BlankPlays
    <3>5. Whole' /\ Silent'
      <4>1. Begin' = Begin
        BY <1>1 DEF Begin, Clock, cfg
      <4> QED
        BY <1>2, <2>5, <3>4, <4>1 DEF Whole, Silent, CommandAt
    <3>6. Len(buf'.list) <= 5
      <4> DEFINE l == Len(buf'.list)
      <4>1. l = n + 1
        BY <3>1
      <4> HIDE DEF l, n
      <4>2. l <= 5
        BY <1>1, <2>5, <4>1
      <4> QED
        BY <4>2 DEF l
    <3> QED
      BY <3>3, <3>5, <3>6 DEF start
  <2>9. CASE ~HasRoom(buf)
    BY <1>1, <2>6, <2>7, <2>9, Created
  <2> QED
    BY <2>6, <2>7, <2>8, <2>9
<1> QED
  BY <1>2, <1>4, <1>5

LEMMA NothingGiven ==
  ASSUME NEW first
  PROVE  Words(first, {}) = {}
BY DEF Words

LEMMA WriteSame ==
  ASSUME job' = job
  PROVE  /\ WrFirst' = WrFirst /\ EnCount' = EnCount /\ DaCount' = DaCount
         /\ cfg' = cfg /\ PerPacket' = PerPacket /\ Begin' = Begin
         /\ \A clock, n : CommandAt(clock, n)' = CommandAt(clock, n)
BY DEF WrFirst, EnCount, DaCount, Begin, Clock, cfg, PerPacket, CommandAt

LEMMA WriteFirst ==
  ASSUME Writes, Typed, AddressInv, WriteInv, BurstBegin, job.kind = "wrfifo"
  PROVE  Short' \/ WriteBurst'
<1>1. job' = job /\ job \in Jobs /\ pc = "address" /\ en' = en /\ dat' = dat
  BY State DEF BurstBegin
<1>2. /\ en  = Group(cfg.ratio, WrFirst, job.bl + 4)
      /\ dat = Group(cfg.ratio, WrFirst + cfg.wrEn, job.bl)
  BY <1>1 DEF WriteInv
<1> DEFINE due == WrFirst \div PerPacket
           second == WrFirst + cfg.wrEn
<1>3. /\ WrFirst \in Nat /\ second \in Nat /\ WrFirst < 256 /\ second < 256
      /\ WrFirst <= second /\ WrFirst > Begin + 3 /\ job.last < 256
      /\ EnCount \in Nat /\ DaCount \in Nat /\ job.bl + 4 = 2 * EnCount
      /\ job.bl = 2 * DaCount /\ EnCount >= 2 /\ DaCount >= 2
      /\ EnCount <= 18 /\ DaCount <= 16
  BY <1>1, WriteParts
<1>4. PerPacket = 1 \/ PerPacket = 2
  BY <1>1, Scale DEF Ratio
<1>5. /\ due \in Nat /\ due <= WrFirst \div PerPacket
      /\ due <= second \div PerPacket
      /\ 2 * EnCount \in Word /\ 2 * DaCount \in Word
  BY <1>3, <1>4, Widths
<1> HIDE DEF due
<1>6. /\ StandsAt(en, PerPacket, WrFirst, EnCount, due)
      /\ GivenAt(PerPacket, WrFirst, EnCount, due) = {}
      /\ en.start = WrFirst \div PerPacket
  BY <1>1, <1>2, <1>3, <1>5, StandsFirst
<1>7. /\ StandsAt(dat, PerPacket, second, DaCount, due)
      /\ GivenAt(PerPacket, second, DaCount, due) = {}
  <2> HIDE DEF second
  <2> QED
    BY <1>1, <1>2, <1>3, <1>5, StandsFirst DEF second
<1>8. CASE Short'
  BY <1>8
<1>9. CASE /\ Whole' /\ Silent' /\ gap' >= 1 /\ Due' = WrFirst \div PerPacket
           /\ Len(buf'.list) <= 5
  <2>1. Due' = due
    BY <1>9 DEF due
  <2>2. en.rem = 2 * EnCount
    BY <1>1, <1>2, <1>3, GroupAt, Scale DEF PerPacket
  <2>3. en'.rem > 0
    BY <1>1, <1>3, <2>2
  <2>4. Stands(en, WrFirst, EnCount)' /\ Stands(dat, WrFirst + cfg.wrEn, DaCount)'
    BY <1>1, <1>6, <1>7, <2>1, WriteSame DEF Stands
  <2>5. Given(WrFirst, EnCount)' = {} /\ Given(WrFirst + cfg.wrEn, DaCount)' = {}
    BY <1>1, <1>6, <1>7, <2>1, WriteSame DEF Given
  <2>6. Words(WrFirst + cfg.wrEn, Given(WrFirst + cfg.wrEn, DaCount))' = {}
    BY <2>5, NothingGiven
  <2>7. EnableClocks' = {} /\ DataWords' = {}
    BY <1>9 DEF Silent
  <2>8. (WrFirst \div PerPacket)' = due
    BY <1>1, WriteSame DEF due
  <2>9. Len(buf'.list) <= 5 + Due' - due
    BY <1>5, <1>9, <2>1
  <2> QED
    BY <1>5, <1>9, <2>1, <2>3, <2>4, <2>5, <2>6, <2>7, <2>8, <2>9 DEF WriteBurst
<1> QED
  BY <1>1, <1>3, <1>6, <1>8, <1>9, FirstDue

LEMMA WriteNextPacket ==
  ASSUME Writes, Typed, WriteInv, WrfifoPacket
  PROVE  /\ pc' = "burst" => WriteBurst'
         /\ pc' = "closing" =>
              /\ Whole' /\ buf'.ts < 2^9
              /\ EnableClocks' = Between(WrFirst, EnCount)'
              /\ DataWords' = Words(WrFirst + cfg.wrEn,
                                    Between(WrFirst + cfg.wrEn, DaCount))'
         /\ Ordered(buf) => Ordered(buf')
<1> DEFINE second == WrFirst + cfg.wrEn
<1>1. /\ job' = job /\ job \in Jobs /\ HasRoom(buf) /\ gap' = 1
      /\ PerPacket \in Ratio /\ PerPacket \in {1, 2, 4} /\ buf \in Buffers
      /\ en \in Groups /\ dat \in Groups /\ Len(buf.list) \in Nat
  BY State, Scale DEF WrfifoPacket
<1>2. WriteBurst
  BY <1>1 DEF WriteInv, WrfifoPacket, Short, HasRoom
<1>3. /\ WrFirst \in Nat /\ second \in Nat /\ WrFirst < 256 /\ second < 256
      /\ WrFirst <= second
      /\ EnCount \in Nat /\ DaCount \in Nat
      /\ job.bl = 2 * DaCount /\ EnCount >= 2 /\ DaCount >= 2
      /\ EnCount <= 18 /\ DaCount <= 16
  <2>1. job \in Jobs /\ job.kind = "wrfifo"
    BY <1>1 DEF WrfifoPacket
  <2>2. cfg.wrEn \in Nat /\ WrFirst \in Nat /\ second \in Nat /\ second < 256
    BY <2>1, WriteParts
  <2>3. WrFirst < 256 /\ WrFirst <= second
    BY <2>2
  <2> QED
    BY <2>1, <2>2, <2>3, WriteParts
<1>4. PerPacket = 1 \/ PerPacket = 2
  BY <1>1 DEF Ratio
<1>5. Due \in Nat /\ Due < 512
  <2>1. buf.ts \in Nat /\ gap \in Nat
    BY State
  <2>2. Due \in Nat
    BY <2>1 DEF Due
  <2>3. /\ en.rem > 0 => Due * PerPacket < WrFirst + EnCount
        /\ dat.rem > 0 => Due * PerPacket < second + DaCount
    <3> HIDE DEF second
    <3>1. StandsAt(en, PerPacket, WrFirst, EnCount, Due)
      BY <1>2 DEF WriteBurst, Stands
    <3>2. StandsAt(dat, PerPacket, second, DaCount, Due)
      BY <1>2 DEF WriteBurst, Stands, second
    <3>3. EnCount > 0 /\ DaCount > 0
      BY <1>3
    <3> QED
      BY <1>1, <1>3, <2>2, <3>1, <3>2, <3>3, StandsLast
  <2>4. en.rem > 0 \/ dat.rem > 0
    BY <1>2 DEF WriteBurst
  <2> HIDE DEF second
  <2>5. Due * PerPacket < 300
    <3> DEFINE x == Due * PerPacket
    <3>1. x \in Nat
      BY <1>4, <2>2
    <3> HIDE DEF x
    <3>2. x < 300
      BY <1>3, <2>3, <2>4, <3>1 DEF x
    <3> QED
      BY <3>2 DEF x
  <2> QED
    BY <1>4, <2>2, <2>5
<1> DEFINE b  == Create(buf, TRUE, gap)
           q  == Newest(b)
           d  == Due >= dat.start
           p1 == FillEnable(q, en, PerPacket)
           p2 == IF d THEN FillData(p1, dat, PerPacket, job.bl) ELSE p1
<1>6. b.ts = Due /\ q = Packet(Due, TRUE) /\ q \in PacketSet
  <2>1. Due \in Word
    BY <1>5, SmallWord
  <2>2. HasRoom(buf)
    BY <1>1
  <2> QED
    BY <2>1, <2>2, PacketDue
<1>7. Due >= en.start
  BY <1>2 DEF WriteBurst, Stands, StandsAt
<1>8. /\ buf' = SetNewest(b, p2)
      /\ en' = Advance(en, PerPacket)
      /\ dat' = IF d THEN Advance(dat, PerPacket) ELSE dat
      /\ pc' = IF en'.rem > 0 \/ dat'.rem > 0 THEN "burst" ELSE "closing"
  <2> HIDE DEF b, q, d
  <2>1. /\ (b.ts >= dat.start) <=> d
        /\ b.ts >= en.start
    BY <1>6, <1>7 DEF d
  <2>2. /\ buf' = SetNewest(b, IF b.ts >= dat.start
                               THEN FillData(IF b.ts >= en.start
                                             THEN FillEnable(Newest(b), en, PerPacket)
                                             ELSE Newest(b), dat, PerPacket, job.bl)
                               ELSE IF b.ts >= en.start
                                    THEN FillEnable(Newest(b), en, PerPacket)
                                    ELSE Newest(b))
        /\ en' = IF b.ts >= en.start THEN Advance(en, PerPacket) ELSE en
        /\ dat' = IF b.ts >= dat.start THEN Advance(dat, PerPacket) ELSE dat
        /\ pc' = IF en'.rem > 0 \/ dat'.rem > 0 THEN "burst" ELSE "closing"
    BY DEF WrfifoPacket, b, CreateCke, Go
  <2> QED
    BY <2>1, <2>2 DEF q
<1>9. /\ p2 \in PacketSet /\ p2.time = Due /\ p2.cmd = <<>>
      /\ p2.en = GroupMask(en, PerPacket)
      /\ p2.data = IF d THEN [c \in GroupMask(dat, PerPacket) |->
                                job.bl - dat.rem + 2 * (c - dat.offset)]
                   ELSE <<>>
  <2> HIDE DEF b, d
  <2>1. q \in PacketSet /\ q.time = Due /\ q.cmd = <<>> /\ q.en = {} /\ q.data = <<>>
    BY <1>6 DEF Packet
  <2> HIDE DEF q
  <2>2. /\ p1 \in PacketSet /\ p1.time = Due /\ p1.cmd = <<>>
        /\ p1.en = GroupMask(en, PerPacket) /\ p1.data = <<>>
    <3>1. 0 \in Int
      OBVIOUS
    <3>2. p1 \in PacketSet
      BY <1>1, <2>1, <3>1, FillTyped
    <3>3. /\ p1.time = Due /\ p1.cmd = <<>>
          /\ p1.en = {} \cup GroupMask(en, PerPacket) /\ p1.data = <<>>
      <4>1. q \in PacketSet
        BY <2>1
      <4>2. /\ p1.time = q.time /\ p1.cmd = q.cmd
            /\ p1.en = q.en \cup GroupMask(en, PerPacket) /\ p1.data = q.data
        BY <4>1, FillFields
      <4> QED
        BY <2>1, <4>2
    <3> QED
      BY <3>2, <3>3
  <2> HIDE DEF p1
  <2>3. CASE d
    <3>1. job.bl \in Int
      BY <1>3
    <3>2. FillData(p1, dat, PerPacket, job.bl) \in PacketSet
      BY <1>1, <2>2, <3>1, FillTyped
    <3> QED
      BY <2>2, <2>3, <3>2, FillDataFields
  <2>4. CASE ~d
    BY <2>2, <2>4
  <2> QED
    BY <2>3, <2>4
<1> HIDE DEF b, q, d, p1, p2
<1>10. /\ buf'.ts = Due /\ buf'.list = Append(buf.list, p2)
       /\ Len(buf'.list) = Len(buf.list) + 1
       /\ Ordered(buf) => Ordered(buf')
  <2>1. Due \in Word /\ HasRoom(buf) /\ p2 \in PacketSet
    BY <1>1, <1>5, <1>9, SmallWord
  <2>2. buf' = SetNewest(Create(buf, TRUE, gap), p2)
    BY <1>8 DEF b
  <2>3. ASSUME Ordered(buf) PROVE Ordered(buf')
    <3>1. gap \in Nat /\ gap >= 1 /\ buf.ts + gap \in Word /\ p2.time = buf.ts + gap
      BY <1>2, <1>9, <2>1, State DEF WriteBurst, Due
    <3> QED
      BY <1>1, <2>1, <2>2, <2>3, <3>1, OrderPut
  <2> QED
    BY <2>1, <2>2, <2>3, PacketPut
<1>11. /\ WrFirst' = WrFirst /\ EnCount' = EnCount /\ DaCount' = DaCount
       /\ cfg' = cfg /\ PerPacket' = PerPacket /\ Begin' = Begin /\ Due' = Due + 1
  BY <1>1, <1>10, WriteSame DEF Due
<1>12. /\ EnableClocks' = EnableClocks \cup
            {Due * PerPacket + c : c \in GroupMask(en, PerPacket)}
       /\ FrameClocks' = FrameClocks
       /\ DataWords' = IF d THEN DataWords \cup
            {<<Due * PerPacket + c, job.bl - dat.rem + 2 * (c - dat.offset)>> :
               c \in GroupMask(dat, PerPacket)} ELSE DataWords
  <2>1. /\ EnableClocks' = EnableClocks \cup
             {p2.time * PerPacket + c : c \in p2.en}
        /\ DataWords' = DataWords \cup
             {<<p2.time * PerPacket + c, p2.data[c]>> : c \in DOMAIN p2.data}
        /\ FrameClocks' = FrameClocks \cup
             {<<p2.time * PerPacket + (n - 1), p2.cmd[n]>> : n \in DOMAIN p2.cmd}
    BY <1>1, <1>9, <1>10, PlaysMore
  <2>2. {<<p2.time * PerPacket + (n - 1), p2.cmd[n]>> : n \in DOMAIN p2.cmd} = {}
    BY <1>9
  <2>3. CASE d
    <3>1. {<<p2.time * PerPacket + c, p2.data[c]>> : c \in DOMAIN p2.data} =
            {<<Due * PerPacket + c, job.bl - dat.rem + 2 * (c - dat.offset)>> :
               c \in GroupMask(dat, PerPacket)}
      BY <1>9, <2>3
    <3> QED
      BY <1>9, <2>1, <2>2, <2>3, <3>1
  <2>4. CASE ~d
    <3>1. {<<p2.time * PerPacket + c, p2.data[c]>> : c \in DOMAIN p2.data} = {}
      BY <1>9, <2>4
    <3> QED
      BY <1>9, <2>1, <2>2, <2>4, <3>1
  <2> QED
    BY <2>3, <2>4
<1>13. /\ StandsAt(en', PerPacket, WrFirst, EnCount, Due + 1)
       /\ EnableClocks' = GivenAt(PerPacket, WrFirst, EnCount, Due + 1)
  <2>1. StandsAt(en, PerPacket, WrFirst, EnCount, Due)
        /\ EnableClocks = GivenAt(PerPacket, WrFirst, EnCount, Due)
    BY <1>2 DEF WriteBurst, Stands, Given
  <2>2. StandsAt(Advance(en, PerPacket), PerPacket, WrFirst, EnCount, Due + 1)
    BY <1>1, <1>3, <1>5, <1>7, <2>1, MaskWindow
  <2>3. GivenAt(PerPacket, WrFirst, EnCount, Due + 1) =
          GivenAt(PerPacket, WrFirst, EnCount, Due) \cup
            {Due * PerPacket + c : c \in GroupMask(en, PerPacket)}
    <3>1. /\ PerPacket \in Ratio /\ en \in Groups /\ WrFirst \in Nat
          /\ EnCount \in Nat /\ EnCount >= 2 /\ Due \in Nat
      BY <1>1, <1>3, <1>5
    <3>2. StandsAt(en, PerPacket, WrFirst, EnCount, Due)
      BY <2>1
    <3> QED
      BY <1>7, <3>1, <3>2, GivenGrows
  <2> QED
    BY <1>8, <1>12, <2>1, <2>2, <2>3
<1>14. /\ StandsAt(dat', PerPacket, second, DaCount, Due + 1)
       /\ DataWords' = Words(second, GivenAt(PerPacket, second, DaCount, Due + 1))
  <2>1. StandsAt(dat, PerPacket, second, DaCount, Due)
        /\ DataWords = Words(second, GivenAt(PerPacket, second, DaCount, Due))
    BY <1>2 DEF WriteBurst, Stands, Given
  <2> HIDE DEF second
  <2>2. CASE d
    <3>1. Due >= dat.start
      BY <2>2 DEF d
    <3>2. StandsAt(Advance(dat, PerPacket), PerPacket, second, DaCount, Due + 1)
      BY <1>1, <1>3, <1>5, <2>1, <3>1, MaskWindow
    <3>3. Words(second, GivenAt(PerPacket, second, DaCount, Due + 1)) =
            Words(second, GivenAt(PerPacket, second, DaCount, Due)) \cup
              {<<Due * PerPacket + c, 2 * DaCount - dat.rem + 2 * (c - dat.offset)>> :
                 c \in GroupMask(dat, PerPacket)}
      BY <1>1, <1>3, <1>5, <2>1, <3>1, GivenNext
    <3> QED
      BY <1>3, <1>8, <1>12, <2>1, <2>2, <3>2, <3>3
  <2>3. CASE ~d
    <3>1. ~(Due >= dat.start)
      BY <2>3 DEF d
    <3>2. StandsAt(dat, PerPacket, second, DaCount, Due + 1)
          /\ (Due + 1) * PerPacket <= second
      BY <1>1, <1>3, <1>5, <2>1, <3>1, MaskLater
    <3>3. GivenAt(PerPacket, second, DaCount, Due + 1) =
            GivenAt(PerPacket, second, DaCount, Due)
      BY <1>1, <1>3, <1>5, <3>2, GivenLater
    <3> QED
      BY <1>8, <1>12, <2>1, <2>3, <3>2, <3>3
  <2> QED
    BY <2>2, <2>3
<1>15. Whole'
  BY <1>1, <1>2, <1>11, <1>12, WriteSame DEF WriteBurst, Whole, CommandAt
<1>16. ASSUME pc' = "burst" PROVE WriteBurst'
  <2>1. en'.rem > 0 \/ dat'.rem > 0
    BY <1>8, <1>16
  <2>2. gap' >= 1 /\ Due' >= WrFirst' \div PerPacket'
    <3>1. Due >= WrFirst \div PerPacket /\ WrFirst \div PerPacket \in Int
      BY <1>2, <1>3, <1>4 DEF WriteBurst
    <3> QED
      BY <1>1, <1>5, <1>11, <3>1
  <2>3. /\ Stands(en, WrFirst, EnCount)'
        /\ EnableClocks' = Given(WrFirst, EnCount)'
    BY <1>11, <1>13 DEF Stands, Given
  <2>4. /\ Stands(dat, WrFirst + cfg.wrEn, DaCount)'
        /\ DataWords' = Words(WrFirst + cfg.wrEn,
                              Given(WrFirst + cfg.wrEn, DaCount))'
    BY <1>11, <1>14 DEF Stands, Given, Words
  <2>5. Len(buf'.list) <= 5 + Due' - WrFirst' \div PerPacket'
    <3> DEFINE l == Len(buf.list)
               s == WrFirst \div PerPacket
    <3>1. l <= 5 + Due - s /\ s \in Int
      BY <1>2, <1>3, <1>4 DEF WriteBurst
    <3>2. l \in Nat
      BY <1>1
    <3> HIDE DEF l, s
    <3>3. l + 1 <= 5 + (Due + 1) - s
      BY <1>5, <3>1, <3>2
    <3> QED
      BY <1>10, <1>11, <3>3 DEF l, s
  <2> QED
    BY <1>15, <2>1, <2>2, <2>3, <2>4, <2>5 DEF WriteBurst
<1>17. ASSUME pc' = "closing"
       PROVE  /\ Whole' /\ buf'.ts < 2^9
              /\ EnableClocks' = Between(WrFirst, EnCount)'
              /\ DataWords' = Words(WrFirst + cfg.wrEn,
                                    Between(WrFirst + cfg.wrEn, DaCount))'
  <2>1. ~(en'.rem > 0) /\ ~(dat'.rem > 0)
    BY <1>8, <1>17
  <2>2. Due + 1 \in Nat /\ EnCount > 0 /\ DaCount > 0
    BY <1>3, <1>5
  <2>3. GivenAt(PerPacket, WrFirst, EnCount, Due + 1) = Between(WrFirst, EnCount)
    BY <1>1, <1>3, <1>13, <2>1, <2>2, StandsLast
  <2>4. GivenAt(PerPacket, second, DaCount, Due + 1) = Between(second, DaCount)
    <3> HIDE DEF second
    <3> QED
      BY <1>1, <1>3, <1>14, <2>1, <2>2, StandsLast
  <2>5. /\ Between(WrFirst, EnCount)' = Between(WrFirst, EnCount)
        /\ Words(WrFirst + cfg.wrEn, Between(WrFirst + cfg.wrEn, DaCount))' =
             Words(second, Between(second, DaCount))
    BY <1>11 DEF Between, Words
  <2>6. buf'.ts < 2^9
    BY <1>5, <1>10
  <2> QED
    BY <1>13, <1>14, <1>15, <2>3, <2>4, <2>5, <2>6
<1> QED
  BY <1>10, <1>16, <1>17

-----------------------------------------------------------------------------
(* Which steps a sequence has.                                             *)
LEMMA StepsOf ==
  ASSUME Typed, Next, ~Call
  PROVE  /\ job' = job
         /\ job.kind = "wrfifo" =>
              \/ WrfifoBegin \/ AddressPacket \/ BurstBegin \/ WrfifoPacket
              \/ OutOfPackets \/ Closing
         /\ job.kind = "read" =>
              \/ ReadBegin \/ AddressPacket \/ BurstBegin \/ ReadPacket
              \/ OutOfPackets \/ Closing
         /\ job.kind = "wrlvl" =>
              WrlvlBegin \/ WrlvlPacket \/ OutOfPackets \/ Closing
         /\ job.kind = "cbt" =>
              CbtBegin \/ CbtPacket \/ CbtHold \/ CbtCommand \/ OutOfPackets
         /\ job.kind = "mrw" => MrwBegin \/ AddressPacket \/ MrwNext
<1>1. job' = job
  BY BufferNext
<1>2. PlaceInv
  BY DEF Typed
<1>3. job.kind = "wrfifo" =>
              \/ WrfifoBegin \/ AddressPacket \/ BurstBegin \/ WrfifoPacket
              \/ OutOfPackets \/ Closing
  BY <1>2 DEF PlaceInv, Kinds, Training, Bursting, Next, ReadBegin, ReadPacket, WrlvlBegin, WrlvlPacket,
       CbtBegin, CbtPacket, CbtHold, CbtCommand, MrwBegin, MrwNext
<1>4. job.kind = "read" =>
              \/ ReadBegin \/ AddressPacket \/ BurstBegin \/ ReadPacket
              \/ OutOfPackets \/ Closing
  BY <1>2 DEF PlaceInv, Kinds, Training, Bursting, Next, WrfifoBegin, WrfifoPacket, WrlvlBegin, WrlvlPacket,
       CbtBegin, CbtPacket, CbtHold, CbtCommand, MrwBegin, MrwNext
<1>5. job.kind = "wrlvl" =>
              WrlvlBegin \/ WrlvlPacket \/ OutOfPackets \/ Closing
  BY <1>2 DEF PlaceInv, Kinds, Training, Bursting, Next, WrfifoBegin, WrfifoPacket, ReadBegin, ReadPacket,
       AddressPacket, BurstBegin, CbtBegin, CbtPacket, CbtHold, CbtCommand, MrwBegin, MrwNext
<1>6. job.kind = "cbt" =>
              CbtBegin \/ CbtPacket \/ CbtHold \/ CbtCommand \/ OutOfPackets
  BY <1>2 DEF PlaceInv, Kinds, Training, Bursting, Next, WrfifoBegin, WrfifoPacket, ReadBegin, ReadPacket,
       WrlvlBegin, WrlvlPacket, AddressPacket, BurstBegin, Closing, MrwBegin, MrwNext
<1>7. job.kind = "mrw" => MrwBegin \/ AddressPacket \/ MrwNext
  BY <1>2 DEF PlaceInv, Kinds, Training, Bursting, Next, WrfifoBegin, WrfifoPacket, ReadBegin, ReadPacket,
       WrlvlBegin, WrlvlPacket, BurstBegin, Closing, OutOfPackets, CbtBegin, CbtPacket, CbtHold, CbtCommand
<1> QED
  BY <1>1, <1>3, <1>4, <1>5, <1>6, <1>7

LEMMA WriteNext ==
  ASSUME Writes, Typed, AddressInv, WriteInv, [Next]_vars
  PROVE  WriteInv'
<1> DEFINE second == WrFirst + cfg.wrEn
           sent   == /\ Whole /\ EnableClocks = Between(WrFirst, EnCount)
                     /\ DataWords = Words(WrFirst + cfg.wrEn,
                                          Between(WrFirst + cfg.wrEn, DaCount))
<1>1. CASE UNCHANGED vars
  <2>1. UNCHANGED <<job, buf, pc, gap, en, dat, result>>
    BY <1>1 DEF vars
  <2>2. UNCHANGED <<EnableClocks, DataWords, FrameClocks, WrFirst, EnCount, DaCount,
                    cfg, PerPacket, Begin, CommandAt(Begin, 0), Short>>
    BY <2>1, PlaysSame, WriteSame
  <2> QED
    BY <2>1, <2>2
    DEF WriteInv, WriteBurst, Finished, Whole, Due, Given, Stands, Words, Between
<1>2. CASE Call
  BY <1>2, JobTyped DEF Call, Kinds, WriteInv, Finished
<1> SUFFICES ASSUME Next, ~Call, job.kind = "wrfifo" PROVE WriteInv'
  <2>1. ASSUME Next, ~Call, job.kind # "wrfifo" PROVE WriteInv'
    BY <2>1, StepsOf DEF WriteInv, Finished
  <2> QED
    BY <1>1, <1>2, <2>1
<1>3. job' = job /\ job \in Jobs /\ buf \in Buffers
  BY StepsOf, State
<1>4. /\ WrFirst' = WrFirst /\ EnCount' = EnCount /\ DaCount' = DaCount
      /\ cfg' = cfg /\ PerPacket' = PerPacket /\ Begin' = Begin
      /\ CommandAt(Begin, 0)' = CommandAt(Begin, 0)
  BY <1>3, WriteSame
<1>5. CASE WrfifoBegin
  BY <1>3, <1>4, <1>5, WriteStarts DEF WrfifoBegin, Go, WriteInv, Finished
<1>6. CASE AddressPacket
  BY <1>3, <1>4, <1>6 DEF AddressPacket, WriteInv, Finished
<1>7. CASE BurstBegin
  BY <1>3, <1>7, WriteFirst DEF BurstBegin, Go, WriteInv, Finished
<1>8. CASE WrfifoPacket
  BY <1>3, <1>8, WriteNextPacket DEF WrfifoPacket, Go, WriteInv, Finished
<1>9. CASE OutOfPackets
  BY <1>9 DEF OutOfPackets, Return, WriteInv, Finished
<1>10. CASE Closing
  <2>1. pc = "closing" /\ pc' = "done" /\ sent
    BY <1>10 DEF Closing, Return, WriteInv
  <2>2. /\ EnableClocks' = EnableClocks /\ DataWords' = DataWords
        /\ FrameClocks' = FrameClocks
    BY <1>3, <1>10, BlankPlays DEF Closing, CreateCke
  <2>3. sent'
    BY <1>4, <2>1, <2>2 DEF Whole, Between, Words
  <2> QED
    BY <2>1, <2>3 DEF WriteInv
<1> QED
  BY <1>5, <1>6, <1>7, <1>8, <1>9, <1>10, StepsOf

LEMMA WordsOf ==
  ASSUME NEW first \in Nat, NEW count \in Nat
  PROVE  Words(first, Between(first, count)) =
           {<<first + w, 2 * w>> : w \in 0 .. count - 1}
<1> DEFINE new == {<<first + w, 2 * w>> : w \in 0 .. count - 1}
           old == {<<x, 2 * (x - first)>> : x \in first .. first + count - 1}
<1>1. ASSUME NEW x \in first .. first + count - 1
      PROVE  <<x, 2 * (x - first)>> \in new
  <2>1. x - first \in 0 .. count - 1 /\ x = first + (x - first)
    OBVIOUS
  <2> QED
    BY <2>1
<1>2. ASSUME NEW w \in 0 .. count - 1
      PROVE  <<first + w, 2 * w>> \in old
  <2>1. /\ first + w \in first .. first + count - 1
        /\ 2 * w = 2 * ((first + w) - first)
    OBVIOUS
  <2> QED
    BY <2>1
<1>3. old = new
  <2>1. old \subseteq new
    BY <1>1
  <2>2. new \subseteq old
    BY <1>2
  <2> QED
    BY <2>1, <2>2
<1> QED
  BY <1>3 DEF Words, Between

LEMMA AlwaysAddress == Spec => []AddressInv
<1>1. Init => AddressInv
  BY DEF Init, AddressInv
<1>2. Typed /\ AddressInv /\ [Next]_vars => AddressInv'
  BY AddressNext
<1> QED
  BY <1>1, <1>2, AlwaysTyped, PTL DEF Spec

(* A prepared WRFIFO is right.  dram_prepare_wrfifo_sequence returns       *)
(* WDDR_SUCCESS only with the whole command, its enables and its words in  *)
(* their clocks, whatever the timings (provided that the sums the code     *)
(* keeps in 8 bits fit), and whichever packet could not be had.            *)
THEOREM WriteCorrect ==
  ASSUME Writes PROVE Spec => []WriteAligned
<1>1. Init => WriteInv
  BY DEF Init, WriteInv, Finished
<1>2. Typed /\ AddressInv /\ WriteInv /\ [Next]_vars => WriteInv'
  BY WriteNext
<1>3. Typed /\ WriteInv => WriteAligned
  <2> SUFFICES ASSUME Typed, WriteInv, Finished("wrfifo") PROVE WriteAligned
    BY DEF WriteAligned
  <2>1. /\ Whole /\ EnableClocks = Between(WrFirst, EnCount)
        /\ DataWords = Words(WrFirst + cfg.wrEn,
                             Between(WrFirst + cfg.wrEn, DaCount))
    BY DEF WriteInv, Finished
  <2>2. WrFirst + cfg.wrEn \in Nat /\ DaCount \in Nat
    <3>1. job \in Jobs /\ job.kind = "wrfifo"
      BY State DEF Finished
    <3> QED
      BY <3>1, WriteParts
  <2>3. DataWords = {<<WrFirst + cfg.wrEn + w, 2 * w>> : w \in 0 .. DaCount - 1}
    <3> DEFINE second == WrFirst + cfg.wrEn
    <3> HIDE DEF second
    <3>1. Words(second, Between(second, DaCount)) =
            {<<second + w, 2 * w>> : w \in 0 .. DaCount - 1}
      BY <2>2, WordsOf DEF second
    <3> QED
      BY <2>1, <3>1 DEF second
  <2> QED
    BY <2>1, <2>3 DEF WriteAligned, Whole, WrFirst, EnCount, DaCount
<1> QED
  BY <1>1, <1>2, <1>3, AlwaysTyped, AlwaysAddress, PTL DEF Spec

-----------------------------------------------------------------------------
(* The read sequence.                                                      *)
LEMMA ReadParts ==
  ASSUME Reads, job \in Jobs, job.kind = "read"
  PROVE  /\ RdFirst \in Nat /\ RdFirst < 256 /\ job.last \in Nat /\ job.last < 256
         /\ Begin = (job.last + 1) * PerPacket /\ Begin \in Nat
         /\ RdFirst = Begin + 3 + cfg.rdEn + job.enOff
         /\ RdFirst > Begin + 3
         /\ DaCount \in Nat /\ job.bl = 2 * DaCount /\ DaCount >= 2
         /\ DaCount <= 16
<1>1. PerPacket \in {1, 2} /\ cfg \in Timings /\ job.enOff \in RdOffsets
      /\ job.last \in Lasts /\ job.bl \in {16, 32}
      /\ \A t : Clock(t) = t * PerPacket
  BY Scale, JobTyped DEF Ratio
<1>2. cfg.rdEn \in Nat /\ job.enOff \in Nat /\ job.last \in Nat
  BY Scale, JobTyped, WordNat
<1>3. 0 < cfg.rdEn + job.enOff
      /\ FirstClock(cfg, job.last) + cfg.rdEn + job.enOff < 2^8
  BY <1>1 DEF Reads, ReadFits
<1>4. FirstClock(cfg, job.last) = (job.last + 1) * PerPacket + 3
  BY DEF FirstClock, CaClkLen, PerPacket
<1>5. /\ Begin = (job.last + 1) * PerPacket
      /\ RdFirst = Begin + 3 + cfg.rdEn + job.enOff
  BY <1>1, <1>2 DEF Begin, RdFirst, CaClkLen
<1>6. Begin \in Nat /\ Begin >= job.last
  <2>1. CASE PerPacket = 1
    BY <1>2, <1>5, <2>1
  <2>2. CASE PerPacket = 2
    BY <1>2, <1>5, <2>2
  <2> QED
    BY <1>1, <2>1, <2>2
<1>7. Begin + 3 + cfg.rdEn + job.enOff < 256
  BY <1>3, <1>4, <1>5, Widths
<1>8. DaCount \in Nat /\ job.bl = 2 * DaCount /\ DaCount >= 2 /\ DaCount <= 16
  BY <1>1 DEF DaCount
<1> QED
  BY <1>2, <1>3, <1>5, <1>6, <1>7, <1>8

(* The packets so far leave room for the sums.                             *)
LEMMA LastSmall ==
  ASSUME Reads, job \in Jobs
  PROVE  job.last \in Nat /\ job.last < 256
<1>1. CASE job.kind = "read"
  BY <1>1, ReadParts
<1>2. CASE job.kind # "read"
  BY <1>2, JobTyped
<1> QED
  BY <1>1, <1>2

LEMMA ReadStarts ==
  ASSUME Reads, Typed, ReadBegin
  PROVE  en' = Group(cfg.ratio, RdFirst, job.bl)
<1>1. job \in Jobs /\ job.kind = "read" /\ buf.ts = job.last
  BY State DEF Typed, PlaceInv, ReadBegin, Kinds, NewBuffer
<1>2. \A n \in Nat : n < 256 => U8(n) = n
  BY Widths
<1>3. RdEnableClock = RdFirst
  <2>1. Clock(buf.ts + 1) + CaClkLen + cfg.rdEn + job.enOff = RdFirst
    BY <1>1 DEF RdFirst, Begin
  <2>2. RdFirst \in Nat /\ RdFirst < 256
    BY <1>1, ReadParts
  <2> QED
    BY <1>2, <2>1, <2>2 DEF RdEnableClock
<1> QED
  BY <1>3 DEF ReadBegin

LEMMA ReadSame ==
  ASSUME job' = job
  PROVE  /\ RdFirst' = RdFirst /\ DaCount' = DaCount
         /\ cfg' = cfg /\ PerPacket' = PerPacket /\ Begin' = Begin
         /\ CommandAt(Begin, 0)' = CommandAt(Begin, 0)
BY DEF RdFirst, DaCount, Begin, Clock, cfg, PerPacket, CommandAt

LEMMA ReadFirst ==
  ASSUME Reads, Typed, AddressInv, ReadInv, BurstBegin, job.kind = "read"
  PROVE  Short' \/ ReadBurst'
<1>1. job' = job /\ job \in Jobs /\ pc = "address" /\ en' = en
  BY State DEF BurstBegin
<1>2. en = Group(cfg.ratio, RdFirst, job.bl)
  BY <1>1 DEF ReadInv
<1> DEFINE due == RdFirst \div PerPacket
<1>3. /\ RdFirst \in Nat /\ RdFirst < 256 /\ RdFirst > Begin + 3
      /\ job.last < 256
      /\ DaCount \in Nat /\ job.bl = 2 * DaCount /\ DaCount >= 2 /\ DaCount <= 16
  BY <1>1, ReadParts
<1>4. PerPacket = 1 \/ PerPacket = 2
  BY <1>1, Scale DEF Ratio
<1>5. /\ due \in Nat /\ due <= RdFirst \div PerPacket /\ 2 * DaCount \in Word
  BY <1>3, <1>4, Widths
<1> HIDE DEF due
<1>6. /\ StandsAt(en, PerPacket, RdFirst, DaCount, due)
      /\ GivenAt(PerPacket, RdFirst, DaCount, due) = {}
      /\ en.start = RdFirst \div PerPacket
  BY <1>1, <1>2, <1>3, <1>5, StandsFirst
<1>7. CASE Short'
  BY <1>7
<1>8. CASE /\ Whole' /\ Silent' /\ gap' >= 1 /\ Due' = RdFirst \div PerPacket
           /\ Len(buf'.list) <= 5
  <2>1. Due' = due
    BY <1>8 DEF due
  <2>2. en.rem = 2 * DaCount
    BY <1>1, <1>2, <1>3, GroupAt, Scale DEF PerPacket
  <2>3. en'.rem > 0
    BY <1>1, <1>3, <2>2
  <2>4. Stands(en, RdFirst, DaCount)'
    BY <1>1, <1>6, <2>1, ReadSame DEF Stands
  <2>5. Given(RdFirst, DaCount)' = {}
    BY <1>1, <1>6, <2>1, ReadSame DEF Given
  <2>6. ReadClocks' = {}
    BY <1>8 DEF Silent
  <2>7. (RdFirst \div PerPacket)' = due
    BY <1>1, ReadSame DEF due
  <2>8. Len(buf'.list) <= 5 + Due' - due
    BY <1>5, <1>8, <2>1
  <2> QED
    BY <1>5, <1>8, <2>1, <2>3, <2>4, <2>5, <2>6, <2>7, <2>8 DEF ReadBurst
<1> QED
  BY <1>1, <1>3, <1>6, <1>7, <1>8, FirstDue

LEMMA ReadNextPacket ==
  ASSUME Reads, Typed, ReadInv, ReadPacket
  PROVE  /\ pc' = "burst" => ReadBurst'
         /\ pc' = "closing" =>
              /\ Whole' /\ buf'.ts < 2^9 /\ ReadClocks' = Between(RdFirst, DaCount)'
         /\ Ordered(buf) => Ordered(buf')
<1>1. /\ job' = job /\ job \in Jobs /\ HasRoom(buf) /\ gap' = 1
      /\ PerPacket \in Ratio /\ PerPacket \in {1, 2, 4} /\ buf \in Buffers
      /\ en \in Groups /\ Len(buf.list) \in Nat
  BY State, Scale DEF ReadPacket
<1>2. ReadBurst /\ job.kind = "read"
  BY <1>1 DEF ReadInv, ReadPacket, Short, HasRoom
<1>3. /\ RdFirst \in Nat /\ RdFirst < 256 /\ DaCount \in Nat
      /\ job.bl = 2 * DaCount /\ DaCount >= 2 /\ DaCount <= 16
  BY <1>1, <1>2, ReadParts
<1>4. PerPacket = 1 \/ PerPacket = 2
  BY <1>1 DEF Ratio
<1>a. StandsAt(en, PerPacket, RdFirst, DaCount, Due) /\ DaCount > 0
      /\ ReadClocks = GivenAt(PerPacket, RdFirst, DaCount, Due)
      /\ en.rem > 0
  BY <1>2, <1>3 DEF ReadBurst, Stands, Given
<1>5. Due \in Nat /\ Due < 512
  <2>1. buf.ts \in Nat /\ gap \in Nat
    BY State
  <2>2. Due \in Nat
    BY <2>1 DEF Due
  <2>3. Due * PerPacket < RdFirst + DaCount
    BY <1>1, <1>3, <1>a, <2>2, StandsLast
  <2> QED
    BY <1>3, <1>4, <2>2, <2>3
<1> DEFINE b == Create(buf, TRUE, gap)
           q == Newest(b)
           p == FillRead(q, en, PerPacket)
<1>6. b.ts = Due /\ q = Packet(Due, TRUE) /\ q \in PacketSet
  <2>1. Due \in Word /\ HasRoom(buf)
    BY <1>1, <1>5, SmallWord
  <2> QED
    BY <2>1, PacketDue
<1>7. Due >= en.start
  BY <1>2, <1>a DEF ReadBurst, StandsAt
<1>8. /\ buf' = SetNewest(b, p) /\ en' = Advance(en, PerPacket)
      /\ pc' = IF en'.rem > 0 THEN "burst" ELSE "closing"
  BY DEF ReadPacket, CreateCke, Go
<1>9. /\ p \in PacketSet /\ p.time = Due /\ p.cmd = <<>>
      /\ p.rd = GroupMask(en, PerPacket)
  <2>1. q.time = Due /\ q.cmd = <<>> /\ q.rd = {}
    <3> HIDE DEF b, q
    <3> QED
      BY <1>6 DEF Packet
  <2>2. q \in PacketSet
    BY <1>6
  <2> HIDE DEF q
  <2>3. p \in PacketSet
    <3>1. 0 \in Int
      OBVIOUS
    <3> QED
      BY <1>1, <2>2, <3>1, FillTyped
  <2>4. p.time = q.time /\ p.cmd = q.cmd /\ p.rd = q.rd \cup GroupMask(en, PerPacket)
    BY <2>2, FillReadFields
  <2> HIDE DEF p
  <2> QED
    BY <2>1, <2>3, <2>4
<1> HIDE DEF q, p
<1>10. /\ buf'.ts = Due /\ buf'.list = Append(buf.list, p)
       /\ Len(buf'.list) = Len(buf.list) + 1
       /\ Ordered(buf) => Ordered(buf')
  <2>1. Due \in Word /\ HasRoom(buf) /\ p \in PacketSet
    BY <1>1, <1>5, <1>9, SmallWord
  <2>2. buf' = SetNewest(Create(buf, TRUE, gap), p)
    BY <1>8
  <2>3. ASSUME Ordered(buf) PROVE Ordered(buf')
    <3>1. gap \in Nat /\ gap >= 1 /\ buf.ts + gap \in Word /\ p.time = buf.ts + gap
      BY <1>2, <1>9, <2>1, State DEF ReadBurst, Due
    <3> QED
      BY <1>1, <2>1, <2>2, <2>3, <3>1, OrderPut
  <2> QED
    BY <2>1, <2>2, <2>3, PacketPut
<1> HIDE DEF b
<1>11. /\ RdFirst' = RdFirst /\ DaCount' = DaCount
       /\ cfg' = cfg /\ PerPacket' = PerPacket /\ Begin' = Begin /\ Due' = Due + 1
  BY <1>1, <1>10, ReadSame DEF Due
<1>12. /\ ReadClocks' = ReadClocks \cup
            {Due * PerPacket + c : c \in GroupMask(en, PerPacket)}
       /\ FrameClocks' = FrameClocks
  <2>1. /\ ReadClocks' = ReadClocks \cup {p.time * PerPacket + c : c \in p.rd}
        /\ FrameClocks' = FrameClocks \cup
             {<<p.time * PerPacket + (n - 1), p.cmd[n]>> : n \in DOMAIN p.cmd}
    BY <1>1, <1>9, <1>10, PlaysMore
  <2>2. {<<p.time * PerPacket + (n - 1), p.cmd[n]>> : n \in DOMAIN p.cmd} = {}
    BY <1>9
  <2> QED
    BY <1>9, <2>1, <2>2
<1>13. /\ StandsAt(en', PerPacket, RdFirst, DaCount, Due + 1)
       /\ ReadClocks' = GivenAt(PerPacket, RdFirst, DaCount, Due + 1)
  <2>1. StandsAt(Advance(en, PerPacket), PerPacket, RdFirst, DaCount, Due + 1)
    BY <1>1, <1>3, <1>5, <1>7, <1>a, MaskWindow
  <2>2. GivenAt(PerPacket, RdFirst, DaCount, Due + 1) =
          GivenAt(PerPacket, RdFirst, DaCount, Due) \cup
            {Due * PerPacket + c : c \in GroupMask(en, PerPacket)}
    <3>1. /\ PerPacket \in Ratio /\ en \in Groups /\ RdFirst \in Nat
          /\ DaCount \in Nat /\ DaCount >= 2 /\ Due \in Nat
      BY <1>1, <1>3, <1>5
    <3>2. StandsAt(en, PerPacket, RdFirst, DaCount, Due)
      BY <1>a
    <3> QED
      BY <1>7, <3>1, <3>2, GivenGrows
  <2> QED
    BY <1>8, <1>12, <1>a, <2>1, <2>2
<1>14. Whole'
  BY <1>1, <1>2, <1>11, <1>12, ReadSame DEF ReadBurst, Whole, CommandAt
<1>15. ASSUME pc' = "burst" PROVE ReadBurst'
  <2>1. en'.rem > 0
    BY <1>8, <1>15
  <2>2. gap' >= 1 /\ Due' >= RdFirst' \div PerPacket'
    <3>1. Due >= RdFirst \div PerPacket /\ RdFirst \div PerPacket \in Int
      BY <1>2, <1>3, <1>4 DEF ReadBurst
    <3> QED
      BY <1>1, <1>5, <1>11, <3>1
  <2>3. Stands(en, RdFirst, DaCount)' /\ ReadClocks' = Given(RdFirst, DaCount)'
    BY <1>11, <1>13 DEF Stands, Given
  <2>4. Len(buf'.list) <= 5 + Due' - RdFirst' \div PerPacket'
    <3> DEFINE l == Len(buf.list)
               s == RdFirst \div PerPacket
    <3>1. l <= 5 + Due - s /\ s \in Int
      BY <1>2, <1>3, <1>4 DEF ReadBurst
    <3>2. l \in Nat
      BY <1>1
    <3> HIDE DEF l, s
    <3>3. l + 1 <= 5 + (Due + 1) - s
      BY <1>5, <3>1, <3>2
    <3> QED
      BY <1>10, <1>11, <3>3 DEF l, s
  <2> QED
    BY <1>14, <2>1, <2>2, <2>3, <2>4 DEF ReadBurst
<1>16. ASSUME pc' = "closing"
       PROVE  Whole' /\ buf'.ts < 2^9 /\ ReadClocks' = Between(RdFirst, DaCount)'
  <2>1. ~(en'.rem > 0)
    BY <1>8, <1>16
  <2>2. Due + 1 \in Nat /\ DaCount > 0
    BY <1>3, <1>5
  <2>3. GivenAt(PerPacket, RdFirst, DaCount, Due + 1) = Between(RdFirst, DaCount)
    BY <1>1, <1>3, <1>13, <2>1, <2>2, StandsLast
  <2>4. Between(RdFirst, DaCount)' = Between(RdFirst, DaCount)
    BY <1>11 DEF Between
  <2>5. buf'.ts < 2^9
    BY <1>5, <1>10
  <2> QED
    BY <1>13, <1>14, <2>3, <2>4, <2>5
<1> QED
  BY <1>10, <1>15, <1>16

LEMMA ReadNext ==
  ASSUME Reads, Typed, AddressInv, ReadInv, [Next]_vars
  PROVE  ReadInv'
<1> DEFINE sent == Whole /\ ReadClocks = Between(RdFirst, DaCount)
<1>1. CASE UNCHANGED vars
  <2>1. UNCHANGED <<job, buf, pc, gap, en, result>>
    BY <1>1 DEF vars
  <2>2. UNCHANGED <<ReadClocks, FrameClocks, RdFirst, DaCount, cfg, PerPacket,
                    Begin, CommandAt(Begin, 0), Short>>
    BY <2>1, PlaysSame, ReadSame
  <2> QED
    BY <2>1, <2>2
    DEF ReadInv, ReadBurst, Finished, Whole, Due, Given, Stands, Between
<1>2. CASE Call
  BY <1>2, JobTyped DEF Call, Kinds, ReadInv, Finished
<1> SUFFICES ASSUME Next, ~Call, job.kind = "read" PROVE ReadInv'
  <2>1. ASSUME Next, ~Call, job.kind # "read" PROVE ReadInv'
    BY <2>1, StepsOf DEF ReadInv, Finished
  <2> QED
    BY <1>1, <1>2, <2>1
<1>3. job' = job /\ job \in Jobs /\ buf \in Buffers
  BY StepsOf, State
<1>4. /\ RdFirst' = RdFirst /\ DaCount' = DaCount
      /\ cfg' = cfg /\ PerPacket' = PerPacket /\ Begin' = Begin
      /\ CommandAt(Begin, 0)' = CommandAt(Begin, 0)
  BY <1>3, ReadSame
<1>5. CASE ReadBegin
  BY <1>3, <1>4, <1>5, ReadStarts DEF ReadBegin, Go, ReadInv, Finished
<1>6. CASE AddressPacket
  BY <1>3, <1>4, <1>6 DEF AddressPacket, ReadInv, Finished
<1>7. CASE BurstBegin
  BY <1>3, <1>7, ReadFirst DEF BurstBegin, Go, ReadInv, Finished
<1>8. CASE ReadPacket
  BY <1>3, <1>8, ReadNextPacket DEF ReadPacket, Go, ReadInv, Finished
<1>9. CASE OutOfPackets
  BY <1>9 DEF OutOfPackets, Return, ReadInv, Finished
<1>10. CASE Closing
  <2>1. pc = "closing" /\ pc' = "done" /\ sent
    BY <1>10 DEF Closing, Return, ReadInv
  <2>2. ReadClocks' = ReadClocks /\ FrameClocks' = FrameClocks
    BY <1>3, <1>10, BlankPlays DEF Closing, CreateCke
  <2>3. sent'
    BY <1>4, <2>1, <2>2 DEF Whole, Between
  <2> QED
    BY <2>1, <2>3 DEF ReadInv
<1> QED
  BY <1>5, <1>6, <1>7, <1>8, <1>9, <1>10, StepsOf

(* A prepared read is right.  dram_prepare_read_sequence returns           *)
(* WDDR_SUCCESS only with the whole command, behind the packets that were  *)
(* in the buffer, and rddata_en high for the burst, from t_phy_rd_en on:   *)
(* whatever the timings and the last timestamp of the buffer (provided     *)
(* that the sum the code keeps in 8 bits fits), and whichever packet could *)
(* not be had.                                                             *)
THEOREM ReadCorrect ==
  ASSUME Reads PROVE Spec => []ReadAligned
<1>1. Init => ReadInv
  BY DEF Init, ReadInv, Finished
<1>2. Typed /\ AddressInv /\ ReadInv /\ [Next]_vars => ReadInv'
  BY ReadNext
<1>3. Typed /\ ReadInv => ReadAligned
  <2> SUFFICES ASSUME Typed, ReadInv, Finished("read") PROVE ReadAligned
    BY DEF ReadAligned
  <2>1. FrameClocks = CommandAt(Begin, 0) /\ ReadClocks = Between(RdFirst, DaCount)
    BY DEF ReadInv, Finished, Whole
  <2>2. job \in Jobs /\ Begin \in Nat /\ Begin > Clock(job.last)
    <3>1. job \in Jobs /\ job.kind = "read"
      BY State DEF Finished
    <3>2. Begin = (job.last + 1) * PerPacket /\ job.last \in Nat /\ Begin \in Nat
      BY <3>1, ReadParts
    <3>3. PerPacket \in {1, 2} /\ Clock(job.last) = job.last * PerPacket
      BY <3>1, Scale DEF Ratio
    <3>4. Begin > Clock(job.last)
      BY <3>2, <3>3
    <3> QED
      BY <3>1, <3>2, <3>4
  <2>3. Begin \in {f[1] : f \in FrameClocks}
    <3>1. <<Begin + 1 - 1, <<0, 1>>>> \in FrameClocks
      BY <2>1 DEF CommandAt, Frames
    <3>2. <<Begin + 1 - 1, <<0, 1>>>>[1] = Begin
      BY <2>2
    <3> QED
      BY <3>1, <3>2
  <2> QED
    BY <2>1, <2>2, <2>3 DEF ReadAligned, RdFirst, DaCount
<1> QED
  BY <1>1, <1>2, <1>3, AlwaysTyped, AlwaysAddress, PTL DEF Spec

-----------------------------------------------------------------------------
(* Command bus training.                                                   *)
LEMMA TrainParts ==
  ASSUME job \in Jobs, job.kind = "cbt"
  PROVE  /\ PerPacket = 1 \/ PerPacket = 2
         /\ cfg.sh \in Nat /\ cfg.sh < 256 /\ cfg.wrEn \in Nat /\ cfg.wrEn < 256
         /\ CbFirst = 3 * PerPacket /\ CbCount = cfg.sh + 2 * PerPacket + 2
         /\ CbFirst \in Nat /\ CbCount \in Nat /\ CbCount >= 2
         /\ \A t : Clock(t) = t * PerPacket
<1>1. PerPacket = 1 \/ PerPacket = 2
  BY Scale DEF Ratio
<1>2. cfg.sh \in Nat /\ cfg.sh < 256 /\ cfg.wrEn \in Nat /\ cfg.wrEn < 256
      /\ \A t : Clock(t) = t * PerPacket
  BY Scale, WordNat
<1>3. CbFirst = 3 * PerPacket /\ CbCount = cfg.sh + 2 * PerPacket + 2
  <2>1. job.last = 1
    BY JobTyped
  <2> QED
    BY <1>1, <1>2, <2>1 DEF CbFirst, CbCount, Begin
<1> QED
  BY <1>1, <1>2, <1>3

LEMMA TrainSame ==
  ASSUME job' = job
  PROVE  /\ CbFirst' = CbFirst /\ CbCount' = CbCount
         /\ cfg' = cfg /\ PerPacket' = PerPacket
         /\ Between(CbFirst + cfg.sh, 2)' = Between(CbFirst + cfg.sh, 2)
         /\ Between(CbFirst, cfg.sh + 2)' = Between(CbFirst, cfg.sh + 2)
         /\ \A t : Clock(t)' = Clock(t)
BY DEF CbFirst, CbCount, Begin, Clock, cfg, PerPacket, Between

(* The packets with data, and those without.                               *)
LEMMA DrivenMore ==
  ASSUME NEW p, Packets' = Packets \cup {p}, p.data # <<>>
  PROVE  Driven' = Driven \cup {p} /\ (Packets \ Driven)' = Packets \ Driven
BY DEF Driven

LEMMA DrivenSame ==
  ASSUME NEW S, Packets' = Packets \cup S, \A p \in S : p.data = <<>>
  PROVE  Driven' = Driven /\ (Packets \ Driven)' = (Packets \ Driven) \cup S
BY DEF Driven

LEMMA BlankSame ==
  ASSUME job' = job, NEW S, Packets' = Packets \cup S,
         \A p \in S : p.data = <<>> /\ p.en = {}
  PROVE  EnableClocks' = EnableClocks /\ DataWords' = DataWords /\ Clocked' = Clocked
<1>1. \A q, c : At(q, c)' = At(q, c)
  BY DEF At, Clock, PerPacket, cfg
<1>2. \A p \in S : DOMAIN p.data = {} /\ p.en = {}
  OBVIOUS
<1>3. \A x : x \in EnableClocks' <=> x \in EnableClocks
  <2>1. \A x : x \in EnableClocks' <=>
                 \E q \in Packets \cup S : \E c \in q.en : x = At(q, c)
    BY <1>1 DEF EnableClocks
  <2>2. \A x : x \in EnableClocks <=> \E q \in Packets : \E c \in q.en : x = At(q, c)
    BY DEF EnableClocks
  <2> QED
    BY <1>2, <2>1, <2>2
<1>4. \A x : x \in DataWords' <=> x \in DataWords
  <2>1. \A x : x \in DataWords' <=>
           \E q \in Packets \cup S : \E c \in DOMAIN q.data : x = <<At(q, c), q.data[c]>>
    BY <1>1 DEF DataWords
  <2>2. \A x : x \in DataWords <=>
           \E q \in Packets : \E c \in DOMAIN q.data : x = <<At(q, c), q.data[c]>>
    BY DEF DataWords
  <2> QED
    BY <1>2, <2>1, <2>2
<1>5. EnableClocks' = EnableClocks
  BY <1>3
<1>6. DataWords' = DataWords
  BY <1>4
<1> QED
  BY <1>5, <1>6 DEF Clocked

(* The clock goes on, and after it the data.                               *)
LEMMA TrainFirst ==
  ASSUME Typed, CbtBegin
  PROVE  Short' \/ TrainData'
<1>1. /\ job' = job /\ job \in Jobs /\ buf \in Buffers /\ PerPacket \in Ratio
      /\ buf = NewBuffer(1, job.room) /\ job.kind = "cbt"
  <2>1. /\ job' = job /\ job \in Jobs /\ buf \in Buffers /\ job.kind = "cbt"
        /\ buf = NewBuffer(job.last, job.room)
    BY State DEF CbtBegin, Typed, PlaceInv, Kinds
  <2>2. PerPacket \in Ratio /\ job.last = 1
    BY <2>1, Scale, JobTyped
  <2> QED
    BY <2>1, <2>2
<1>2. buf.ts = 1 /\ buf.list = <<>> /\ Len(buf.list) = 0 /\ buf' = Create(buf, FALSE, 1)
  BY <1>1 DEF NewBuffer, CbtBegin, CreateCk
<1>3. CASE ~HasRoom(buf)
  <2>1. buf' = buf /\ buf.left = 0
    BY <1>1, <1>2, <1>3, Created
  <2>2. Len(buf.list) = 0
    BY <1>2
  <2>3. Len(buf'.list) = 0 /\ buf'.left = 0
    BY <2>1, <2>2
  <2> QED
    BY <2>3 DEF Short
<1>4. CASE HasRoom(buf)
  <2> DEFINE q == Packet(2, FALSE)
             mid == CbFirst + cfg.sh
  <2>1. /\ buf'.ts = 2 /\ buf'.list = Append(buf.list, q) /\ q \in PacketSet
        /\ Len(buf'.list) = 1
    <3>1. U16(buf.ts + 1) = 2
      BY <1>2, Widths
    <3>2. /\ buf' = [ts |-> U16(buf.ts + 1),
                     list |-> Append(buf.list, Packet(U16(buf.ts + 1), FALSE)),
                     left |-> buf.left - 1]
          /\ Packet(U16(buf.ts + 1), FALSE) \in PacketSet
      BY <1>1, <1>2, <1>4, Created
    <3>3. Len(Append(buf.list, q)) = Len(buf.list) + 1
      BY <1>1, <3>1, <3>2, Appended DEF Buffers
    <3> HIDE DEF q
    <3>4. q \in PacketSet /\ buf' = [ts |-> 2, list |-> Append(buf.list, q),
                                     left |-> buf.left - 1]
      BY <3>1, <3>2 DEF q
    <3>5. Len(buf.list) = 0
      BY <1>2
    <3>6. buf'.ts = 2 /\ buf'.list = Append(buf.list, q)
      BY <3>4
    <3>7. Len(buf'.list) = 1
      BY <3>3, <3>5, <3>6 DEF q
    <3> QED
      BY <3>4, <3>6, <3>7
  <2>2. q.data = <<>> /\ q.en = {} /\ q.time = 2
    BY DEF Packet
  <2> HIDE DEF q
  <2>3. Packets = {} /\ EnableClocks = {} /\ DataWords = {}
    BY <1>2, EmptyPlays
  <2>4. Packets' = Packets \cup {q}
    BY <1>1, <2>1, Appended DEF Packets, Buffers
  <2>5. EnableClocks' = {} /\ DataWords' = {}
    BY <1>1, <2>2, <2>3, <2>4, BlankSame
  <2>6. Clocked' = {}
    BY <2>5 DEF Clocked
  <2>7. DrivenLast'
    BY <2>2, <2>3, <2>4 DEF DrivenLast, Driven
  <2>8. /\ PerPacket = 1 \/ PerPacket = 2
        /\ cfg.sh \in Nat /\ cfg.sh < 256
        /\ CbFirst = 3 * PerPacket /\ CbCount = cfg.sh + 2 * PerPacket + 2
        /\ Clock(2) = 2 * PerPacket
    BY <1>1, TrainParts
  <2>9. /\ dat' = Group(cfg.ratio, CbFirst, 2 * CbCount)
        /\ en' = Group(cfg.ratio, mid, 2 * 2)
    <3>1. Clock(buf.ts + 1) + PerPacket = CbFirst
      BY <1>2, <2>8
    <3>2. 2 * (cfg.sh + 2 * PerPacket) + 4 = 2 * CbCount
      BY <2>8
    <3> QED
      BY <3>1, <3>2 DEF CbtBegin
  <2>10. /\ CbFirst \in Nat /\ mid \in Nat /\ CbFirst < 65536 /\ mid < 65536
         /\ CbCount \in Nat /\ CbCount >= PerPacket
         /\ 2 * CbCount \in Word /\ 2 * 2 \in Word
         /\ 3 <= CbFirst \div PerPacket /\ 3 <= mid \div PerPacket
         /\ CbFirst \div PerPacket = 3
    <3>1. 2 * CbCount \in Nat /\ 2 * CbCount < 2000 /\ 4 \in Nat /\ 4 < 2000
      BY <2>8
    <3>2. 2 * CbCount \in Word /\ 2 * 2 \in Word
      BY <3>1, SmallWord
    <3> QED
      BY <2>8, <3>2
  <2> HIDE DEF mid
  <2>11. /\ StandsAt(dat', PerPacket, CbFirst, CbCount, 3)
         /\ GivenAt(PerPacket, CbFirst, CbCount, 3) = {}
         /\ dat'.start = 3
    BY <1>1, <2>9, <2>10, StandsFirst
  <2>12. /\ StandsAt(en', PerPacket, mid, 2, 3)
         /\ GivenAt(PerPacket, mid, 2, 3) = {}
    BY <1>1, <2>9, <2>10, StandsFirst
  <2>13. gap' = 1
    <3>1. 3 + 2^16 - 2 = 65537 /\ U8(65537) = 1
      BY DEF U8
    <3>2. gap' = U8(dat'.start + 2^16 - buf'.ts)
      BY DEF CbtBegin
    <3> QED
      BY <2>1, <2>11, <3>1, <3>2
  <2>14. Due' = 3
    BY <2>1, <2>13 DEF Due
  <2>15. dat'.rem = 2 * CbCount
    BY <2>9 DEF Group
  <2>16. dat'.rem >= 2 * PerPacket
    BY <2>8, <2>10, <2>15
  <2>17. /\ Stands(dat, CbFirst, CbCount)' /\ Stands(en, CbFirst + cfg.sh, 2)'
         /\ Given(CbFirst, CbCount)' = {} /\ Given(CbFirst + cfg.sh, 2)' = {}
    BY <1>1, <2>11, <2>12, <2>14, TrainSame DEF Stands, Given, mid
  <2> QED
    BY <1>1, <2>1, <2>5, <2>6, <2>7, <2>13, <2>14, <2>16, <2>17, TrainSame
    DEF TrainData
<1> QED
  BY <1>3, <1>4

LEMMA ClockedMore ==
  ASSUME NEW D, NEW f, NEW base,
         DataWords' = DataWords \cup {<<base + c, f[c]>> : c \in D}
  PROVE  Clocked' = Clocked \cup {base + c : c \in D}
<1>1. \A x : x \in Clocked' <=> \E w \in DataWords' : x = w[1]
  BY DEF Clocked
<1>2. \A x : x \in Clocked <=> \E w \in DataWords : x = w[1]
  BY DEF Clocked
<1>3. \A w : w \in DataWords' <=>
              w \in DataWords \/ \E c \in D : w = <<base + c, f[c]>>
  OBVIOUS
<1>4. \A c : <<base + c, f[c]>>[1] = base + c
  OBVIOUS
<1>5. \A x : x \in Clocked' <=> x \in Clocked \/ \E c \in D : x = base + c
  <2>1. ASSUME NEW x, x \in Clocked'
        PROVE  x \in Clocked \/ \E c \in D : x = base + c
    BY <1>1, <1>2, <1>3, <1>4, <2>1
  <2>2. ASSUME NEW x, x \in Clocked PROVE x \in Clocked'
    BY <1>1, <1>2, <1>3, <2>2
  <2>3. ASSUME NEW c \in D PROVE base + c \in Clocked'
    <3>1. <<base + c, f[c]>> \in DataWords'
      BY <1>3
    <3> QED
      BY <1>1, <1>4, <3>1
  <2> QED
    BY <2>1, <2>2, <2>3
<1> QED
  BY <1>5

LEMMA TrainNextPacket ==
  ASSUME Typed, TrainInv, CbtPacket
  PROVE  /\ pc' = "cbt_data" => TrainData'
         /\ pc' = "cbt_hold" => TrainHold'
         /\ Ordered(buf) => Ordered(buf')
<1> DEFINE mid == CbFirst + cfg.sh
<1>1. /\ job' = job /\ job \in Jobs /\ HasRoom(buf) /\ gap' = 1
      /\ PerPacket \in Ratio /\ PerPacket \in {1, 2, 4} /\ buf \in Buffers
      /\ en \in Groups /\ dat \in Groups /\ Len(buf.list) \in Nat
      /\ buf.ts \in Nat /\ gap \in Nat /\ dat.rem \in Nat
  BY State, Scale DEF CbtPacket
<1>2. TrainData /\ job.kind = "cbt"
  BY <1>1 DEF TrainInv, CbtPacket, Short, HasRoom, Typed, PlaceInv, Training
<1>3. /\ PerPacket = 1 \/ PerPacket = 2
      /\ cfg.sh \in Nat /\ cfg.sh < 256
      /\ CbFirst = 3 * PerPacket /\ CbCount = cfg.sh + 2 * PerPacket + 2
      /\ CbFirst \in Nat /\ CbCount \in Nat /\ CbCount >= 2
      /\ \A t : Clock(t) = t * PerPacket
  BY <1>1, <1>2, TrainParts
<1>4. mid \in Nat /\ mid = 3 * PerPacket + cfg.sh
  BY <1>3
<1>5. /\ StandsAt(dat, PerPacket, CbFirst, CbCount, Due)
      /\ StandsAt(en, PerPacket, mid, 2, Due)
      /\ Clocked = GivenAt(PerPacket, CbFirst, CbCount, Due)
      /\ EnableClocks = GivenAt(PerPacket, mid, 2, Due)
      /\ Due >= 3 /\ dat.rem >= 2 * PerPacket
      /\ DrivenLast /\ Len(buf.list) = buf.ts - 1 /\ gap = 1
  BY <1>2 DEF TrainData, Stands, Given
<1> HIDE DEF mid
<1>6. Due \in Nat /\ Due = buf.ts + 1
  BY <1>1, <1>5 DEF Due
<1>7. Due * PerPacket < CbFirst + CbCount /\ Due < 512
  <2>1. CbCount > 0 /\ dat.rem > 0
    BY <1>1, <1>3, <1>5
  <2>2. Due * PerPacket < CbFirst + CbCount
    BY <1>1, <1>3, <1>5, <1>6, <2>1, StandsLast
  <2> QED
    BY <1>3, <1>6, <2>2
<1> DEFINE b  == Create(buf, FALSE, gap)
           q  == Newest(b)
           e  == Due >= en.start
           p1 == FillData(q, dat, PerPacket, dat.rem)
           p2 == IF e THEN FillEnable(p1, en, PerPacket) ELSE p1
<1>8. b.ts = Due /\ q = Packet(Due, FALSE) /\ q \in PacketSet
  <2>1. Due \in Word /\ HasRoom(buf)
    BY <1>1, <1>6, <1>7, SmallWord
  <2> QED
    BY <2>1, PacketDue
<1>9. Due >= dat.start
  <2>1. dat.start = 3
    BY <1>3, <1>5 DEF StandsAt
  <2> QED
    BY <1>5, <2>1
<1>10. /\ buf' = SetNewest(b, p2)
       /\ en' = IF e THEN Advance(en, PerPacket) ELSE en
       /\ dat' = Advance(dat, PerPacket)
       /\ pc' = IF dat'.rem >= 2 * PerPacket THEN "cbt_data" ELSE "cbt_hold"
  <2> HIDE DEF b, q, e
  <2>1. /\ (b.ts >= en.start) <=> e
        /\ b.ts >= dat.start
    BY <1>8, <1>9 DEF e
  <2>2. /\ buf' = SetNewest(b, IF b.ts >= en.start
                               THEN FillEnable(IF b.ts >= dat.start
                                               THEN FillData(Newest(b), dat, PerPacket, dat.rem)
                                               ELSE Newest(b), en, PerPacket)
                               ELSE IF b.ts >= dat.start
                                    THEN FillData(Newest(b), dat, PerPacket, dat.rem)
                                    ELSE Newest(b))
        /\ en' = IF b.ts >= en.start THEN Advance(en, PerPacket) ELSE en
        /\ dat' = IF b.ts >= dat.start THEN Advance(dat, PerPacket) ELSE dat
        /\ pc' = IF dat'.rem >= 2 * PerPacket THEN "cbt_data" ELSE "cbt_hold"
    BY DEF CbtPacket, b, CreateCk, Go
  <2> QED
    BY <2>1, <2>2 DEF q
<1>11. /\ p2 \in PacketSet /\ p2.time = Due /\ p2.cmd = <<>>
       /\ p2.en = IF e THEN GroupMask(en, PerPacket) ELSE {}
       /\ DOMAIN p2.data = GroupMask(dat, PerPacket)
  <2> HIDE DEF b, e
  <2>1. q.time = Due /\ q.cmd = <<>> /\ q.en = {}
    <3> HIDE DEF q
    <3> QED
      BY <1>8 DEF Packet
  <2>2. q \in PacketSet
    BY <1>8
  <2> HIDE DEF q
  <2>3. /\ p1 \in PacketSet /\ p1.time = Due /\ p1.cmd = <<>> /\ p1.en = {}
        /\ DOMAIN p1.data = GroupMask(dat, PerPacket)
    <3>1. dat.rem \in Int
      BY <1>1
    <3>2. p1 \in PacketSet
      BY <1>1, <2>2, <3>1, FillTyped
    <3>3. /\ p1.time = q.time /\ p1.cmd = q.cmd /\ p1.en = q.en
          /\ p1.data = [c \in GroupMask(dat, PerPacket) |->
                          dat.rem - dat.rem + 2 * (c - dat.offset)]
      BY <2>2, FillDataFields
    <3> QED
      BY <2>1, <3>2, <3>3
  <2> HIDE DEF p1
  <2>4. CASE e
    <3>1. p1 \in PacketSet
      BY <2>3
    <3>2. 0 \in Int
      OBVIOUS
    <3>3. FillEnable(p1, en, PerPacket) \in PacketSet
      BY <1>1, <3>1, <3>2, FillTyped
    <3>4. /\ FillEnable(p1, en, PerPacket).time = p1.time
          /\ FillEnable(p1, en, PerPacket).cmd = p1.cmd
          /\ FillEnable(p1, en, PerPacket).data = p1.data
          /\ FillEnable(p1, en, PerPacket).en = p1.en \cup GroupMask(en, PerPacket)
      BY <3>1, FillFields
    <3> QED
      BY <2>3, <2>4, <3>3, <3>4
  <2>5. CASE ~e
    BY <2>3, <2>5
  <2> QED
    BY <2>4, <2>5
<1> HIDE DEF q, e, p1, p2
<1>12. /\ buf'.ts = Due /\ buf'.list = Append(buf.list, p2)
       /\ Len(buf'.list) = Len(buf.list) + 1
       /\ Ordered(buf) => Ordered(buf')
  <2>1. Due \in Word /\ HasRoom(buf) /\ p2 \in PacketSet
    BY <1>1, <1>6, <1>7, <1>11, SmallWord
  <2>2. buf' = SetNewest(Create(buf, FALSE, gap), p2)
    BY <1>10
  <2>3. ASSUME Ordered(buf) PROVE Ordered(buf')
    <3>1. gap \in Nat /\ gap >= 1 /\ buf.ts + gap \in Word /\ p2.time = buf.ts + gap
      BY <1>1, <1>5, <1>6, <1>11, <2>1
    <3> QED
      BY <1>1, <2>1, <2>2, <2>3, <3>1, OrderPut
  <2> QED
    BY <2>1, <2>2, <2>3, PacketPut
<1> HIDE DEF b
<1>13. /\ CbFirst' = CbFirst /\ CbCount' = CbCount /\ cfg' = cfg /\ mid' = mid
       /\ PerPacket' = PerPacket /\ Due' = Due + 1
  BY <1>1, <1>12, TrainSame DEF Due, mid
<1>14. /\ Packets' = Packets \cup {p2}
       /\ EnableClocks' = EnableClocks \cup {Due * PerPacket + c : c \in p2.en}
       /\ DataWords' = DataWords \cup
            {<<Due * PerPacket + c, p2.data[c]>> : c \in DOMAIN p2.data}
  BY <1>1, <1>11, <1>12, PlaysMore
<1>15. /\ StandsAt(dat', PerPacket, CbFirst, CbCount, Due + 1)
       /\ Clocked' = GivenAt(PerPacket, CbFirst, CbCount, Due + 1)
  <2>1. /\ PerPacket \in Ratio /\ dat \in Groups /\ CbFirst \in Nat
        /\ CbCount \in Nat /\ CbCount >= 2 /\ Due \in Nat
    BY <1>1, <1>3, <1>6
  <2>2. StandsAt(dat, PerPacket, CbFirst, CbCount, Due)
    BY <1>5
  <2>3. StandsAt(Advance(dat, PerPacket), PerPacket, CbFirst, CbCount, Due + 1)
    BY <1>9, <2>1, <2>2, MaskWindow
  <2>4. GivenAt(PerPacket, CbFirst, CbCount, Due + 1) =
          GivenAt(PerPacket, CbFirst, CbCount, Due) \cup
            {Due * PerPacket + c : c \in GroupMask(dat, PerPacket)}
    BY <1>9, <2>1, <2>2, GivenGrows
  <2>5. Clocked' = Clocked \cup {Due * PerPacket + c : c \in DOMAIN p2.data}
    BY <1>14, ClockedMore
  <2> QED
    BY <1>5, <1>10, <1>11, <2>3, <2>4, <2>5
<1>16. /\ StandsAt(en', PerPacket, mid, 2, Due + 1)
       /\ EnableClocks' = GivenAt(PerPacket, mid, 2, Due + 1)
  <2>1. /\ PerPacket \in Ratio /\ en \in Groups /\ mid \in Nat /\ 2 \in Nat
        /\ 2 >= 2 /\ Due \in Nat
    BY <1>1, <1>4, <1>6
  <2>2. StandsAt(en, PerPacket, mid, 2, Due)
    BY <1>5
  <2>3. CASE e
    <3>1. Due >= en.start
      BY <2>3 DEF e
    <3>2. StandsAt(Advance(en, PerPacket), PerPacket, mid, 2, Due + 1)
      BY <2>1, <2>2, <3>1, MaskWindow
    <3>3. GivenAt(PerPacket, mid, 2, Due + 1) =
            GivenAt(PerPacket, mid, 2, Due) \cup
              {Due * PerPacket + c : c \in GroupMask(en, PerPacket)}
      BY <2>1, <2>2, <3>1, GivenGrows
    <3> QED
      BY <1>5, <1>10, <1>11, <1>14, <2>3, <3>2, <3>3
  <2>4. CASE ~e
    <3>1. ~(Due >= en.start)
      BY <2>4 DEF e
    <3>2. StandsAt(en, PerPacket, mid, 2, Due + 1) /\ (Due + 1) * PerPacket <= mid
      BY <2>1, <2>2, <3>1, MaskLater
    <3>3. GivenAt(PerPacket, mid, 2, Due + 1) = GivenAt(PerPacket, mid, 2, Due)
      BY <2>1, <3>2, GivenLater
    <3>4. {Due * PerPacket + c : c \in p2.en} = {}
      BY <1>11, <2>4
    <3> QED
      BY <1>5, <1>10, <1>14, <2>4, <3>2, <3>3, <3>4
  <2> QED
    BY <2>3, <2>4
<1>17. DrivenLast'
  <2>1. 0 \in GroupMask(dat, PerPacket)
    <3>1. dat.rem \div 2 >= PerPacket
      BY <1>1, <1>3, <1>5
    <3>2. dat.offset = 0
      BY <1>3, <1>5 DEF StandsAt
    <3>3. Smaller(dat.rem \div 2, PerPacket) = PerPacket
      BY <1>1, <1>3, <3>1 DEF Smaller
    <3>4. 0 \in Cycles /\ 0 < PerPacket /\ 0 <= 0
      BY <1>3 DEF Cycles
    <3> QED
      BY <3>2, <3>3, <3>4 DEF GroupMask
  <2>2. p2.data # <<>>
    BY <1>11, <2>1
  <2>3. Driven' = Driven \cup {p2} /\ (Packets \ Driven)' = Packets \ Driven
    BY <1>14, <2>2, DrivenMore
  <2> QED
    BY <1>5, <1>11, <2>3 DEF DrivenLast
<1>18. Len(buf'.list) = buf'.ts - 1
  BY <1>1, <1>5, <1>6, <1>12
<1>19. ASSUME pc' = "cbt_data" PROVE TrainData'
  <2>1. dat'.rem >= 2 * PerPacket
    BY <1>10, <1>19
  <2>2. /\ Stands(dat, CbFirst, CbCount)' /\ Stands(en, CbFirst + cfg.sh, 2)'
        /\ Clocked' = Given(CbFirst, CbCount)'
        /\ EnableClocks' = Given(CbFirst + cfg.sh, 2)'
    BY <1>13, <1>15, <1>16 DEF Stands, Given, mid
  <2>3. Due' >= 3
    BY <1>5, <1>6, <1>13
  <2> QED
    BY <1>1, <1>13, <1>17, <1>18, <2>1, <2>2, <2>3 DEF TrainData
<1>20. ASSUME pc' = "cbt_hold" PROVE TrainHold'
  <2> DEFINE x == (Due + 1) * PerPacket
  <2>1. x \in Nat /\ x > CbFirst + cfg.sh + PerPacket + 2
    <3>1. ~(dat'.rem >= 2 * PerPacket)
      BY <1>10, <1>20
    <3>2. dat'.rem = 2 * RemainingAt(PerPacket, CbFirst, CbCount, Due + 1)
      BY <1>15 DEF StandsAt
    <3>3. x \in Nat /\ PerPacket \in Nat
      BY <1>3, <1>6
    <3>4. RemainingAt(PerPacket, CbFirst, CbCount, Due + 1) =
            IF x <= CbFirst THEN CbCount
            ELSE IF x >= CbFirst + CbCount THEN 0 ELSE CbFirst + CbCount - x
      BY DEF RemainingAt
    <3> HIDE DEF x
    <3> QED
      BY <1>3, <3>1, <3>2, <3>3, <3>4
  <2>2. Between(CbFirst, cfg.sh + 2) \subseteq Clocked'
    <3> HIDE DEF x
    <3>1. \A k \in Between(CbFirst, cfg.sh + 2) :
            k \in Between(CbFirst, CbCount) /\ k < x
      BY <1>3, <2>1 DEF Between
    <3> QED
      BY <1>15, <3>1 DEF GivenAt, x
  <2>3. EnableClocks' = Between(mid, 2)
    <3>1. Due + 1 \in Nat /\ PerPacket \in Ratio /\ mid \in Nat /\ 2 \in Nat /\ 2 > 0
      BY <1>1, <1>4, <1>6
    <3>2. en'.rem > 0 <=> (Due + 1) * PerPacket < mid + 2
      BY <1>16, <3>1, StandsLast
    <3>3. ~(en'.rem > 0)
      <4> HIDE DEF x
      <4>1. ~(x < mid + 2)
        BY <1>3, <1>4, <2>1
      <4> QED
        BY <3>2, <4>1 DEF x
    <3> QED
      BY <1>16, <3>1, <3>3, StandsLast
  <2>4. Trained'
    BY <1>1, <2>2, <2>3, TrainSame DEF Trained, mid
  <2>5. Clock(buf'.ts) < CbFirst + CbCount
    BY <1>3, <1>7, <1>12
  <2>6. (Clock(buf.ts) < CbFirst + CbCount)'
    BY <1>13, <2>5 DEF Clock
  <2> QED
    BY <1>17, <1>18, <2>4, <2>6 DEF TrainHold
<1> QED
  BY <1>12, <1>19, <1>20

(* An empty packet, or none.                                               *)
LEMMA CreateMore ==
  ASSUME NEW b \in Buffers, NEW step \in Nat, b.ts + step \in Word
  PROVE  /\ Create(b, FALSE, step) \in Buffers
         /\ \/ /\ HasRoom(b)
               /\ Create(b, FALSE, step).ts = b.ts + step
               /\ Create(b, FALSE, step).list =
                    Append(b.list, Packet(b.ts + step, FALSE))
               /\ Packet(b.ts + step, FALSE) \in PacketSet
               /\ Create(b, FALSE, step).left = b.left - 1
            \/ /\ ~HasRoom(b) /\ b.left = 0
               /\ Create(b, FALSE, step) = b
<1>1. b.ts \in Nat /\ U16(b.ts + step) = b.ts + step
  BY Widths DEF Buffers
<1>2. CASE HasRoom(b)
  <2> DEFINE c == Create(b, FALSE, step)
  <2>1. /\ c \in Buffers
        /\ c = [ts |-> U16(b.ts + step),
                list |-> Append(b.list, Packet(U16(b.ts + step), FALSE)),
                left |-> b.left - 1]
        /\ Packet(U16(b.ts + step), FALSE) \in PacketSet
    BY <1>2, Created
  <2> HIDE DEF c
  <2>2. /\ c \in Buffers
        /\ c = [ts |-> b.ts + step,
                list |-> Append(b.list, Packet(b.ts + step, FALSE)),
                left |-> b.left - 1]
        /\ Packet(b.ts + step, FALSE) \in PacketSet
    BY <1>1, <2>1
  <2>3. /\ c \in Buffers /\ c.ts = b.ts + step /\ c.left = b.left - 1
        /\ c.list = Append(b.list, Packet(b.ts + step, FALSE))
        /\ Packet(b.ts + step, FALSE) \in PacketSet
    BY <2>2
  <2> QED
    BY <1>2, <2>3 DEF c
<1>3. CASE ~HasRoom(b)
  BY <1>3, Created
<1> QED
  BY <1>2, <1>3

LEMMA BlankPacket ==
  ASSUME NEW t
  PROVE  /\ Packet(t, FALSE).time = t /\ Packet(t, FALSE).data = <<>>
         /\ Packet(t, FALSE).en = {} /\ Packet(t, FALSE).cmd = <<>>
BY DEF Packet

(* The last setting is held: the clock alone goes on for longer.           *)
LEMMA TrainHeld ==
  ASSUME Trains, Typed, TrainInv, CbtHold, Ordered(buf)
  PROVE  /\ buf'.left > 0 => Trained' /\ Held' /\ TrainWait'
         /\ Ordered(buf')
<1> DEFINE hold == (cfg.sh + cfg.wrEn) \div PerPacket + 1
<1>1. /\ job' = job /\ job \in Jobs /\ buf \in Buffers /\ PerPacket \in Ratio
      /\ Len(buf.list) \in Nat /\ buf.ts \in Nat
  BY State, Scale DEF CbtHold
<1>2. TrainHold /\ job.kind = "cbt"
  BY DEF TrainInv, CbtHold, Typed, PlaceInv, Training
<1>3. /\ PerPacket = 1 \/ PerPacket = 2
      /\ cfg.sh \in Nat /\ cfg.sh < 256 /\ cfg.wrEn \in Nat /\ cfg.wrEn < 256
      /\ CbFirst = 3 * PerPacket /\ CbCount = cfg.sh + 2 * PerPacket + 2
      /\ \A t : Clock(t) = t * PerPacket
  BY <1>1, <1>2, TrainParts
<1>4. hold \in Nat /\ hold >= 1 /\ hold < 256 /\ U8(hold) = hold
      /\ PerPacket * hold > cfg.sh + cfg.wrEn
  <2>1. hold < 2^8
    BY <1>1, Scale DEF Trains, HoldFits, PerPacket
  <2>2. hold \in Nat /\ hold >= 1 /\ hold < 256 /\ PerPacket * hold > cfg.sh + cfg.wrEn
    BY <1>3, <2>1
  <2> HIDE DEF hold
  <2> QED
    BY <2>2, Widths
<1>5. buf' = Create(buf, FALSE, hold)
  BY <1>4 DEF CbtHold, CreateCk
<1> HIDE DEF hold
<1>6. buf.ts < 300 /\ buf.ts + hold \in Word /\ buf.ts + hold < 1024
  <2>1. buf.ts * PerPacket < CbFirst + CbCount
    BY <1>2, <1>3 DEF TrainHold
  <2>2. buf.ts < 300
    <3>1. CASE PerPacket = 1
      BY <1>1, <1>3, <2>1, <3>1
    <3>2. CASE PerPacket = 2
      BY <1>1, <1>3, <2>1, <3>2
    <3> QED
      BY <1>3, <3>1, <3>2
  <2>3. buf.ts + hold \in Nat /\ buf.ts + hold < 2000 /\ buf.ts + hold < 1024
    BY <1>1, <1>4, <2>2
  <2> QED
    BY <2>2, <2>3, SmallWord
<1>7. Ordered(buf')
  <2>1. HasRoom(buf) => hold >= 1 /\ buf.ts + hold \in Word
    BY <1>4, <1>6
  <2>2. FALSE \in BOOLEAN
    OBVIOUS
  <2> QED
    BY <1>1, <1>4, <1>5, <2>1, <2>2, OrderCreate
<1>8. ASSUME buf'.left > 0 PROVE Trained' /\ Held' /\ TrainWait'
  <2> DEFINE p == Packet(buf.ts + hold, FALSE)
  <2>1. /\ buf'.ts = buf.ts + hold /\ buf'.list = Append(buf.list, p)
        /\ p \in PacketSet
    <3>1. ~(buf.left = 0 /\ buf' = buf)
      BY <1>8
    <3>2. buf \in Buffers /\ hold \in Nat /\ buf.ts + hold \in Word
      BY <1>1, <1>4, <1>6
    <3> QED
      BY <1>5, <3>1, <3>2, CreateMore
  <2>2. p.time = buf.ts + hold /\ p.data = <<>> /\ p.en = {}
    BY BlankPacket
  <2> HIDE DEF p
  <2>3. Packets' = Packets \cup {p} /\ Len(buf'.list) = Len(buf.list) + 1
    BY <1>1, <2>1, Appended DEF Packets, Buffers
  <2>4. /\ Driven' = Driven /\ (Packets \ Driven)' = (Packets \ Driven) \cup {p}
        /\ EnableClocks' = EnableClocks /\ Clocked' = Clocked
    <3>1. \A k \in {p} : k.data = <<>> /\ k.en = {}
      BY <2>2
    <3>2. Packets' = Packets \cup {p} /\ job' = job
      BY <1>1, <2>3
    <3>3. /\ Driven' = Driven
          /\ (Packets \ Driven)' = (Packets \ Driven) \cup {p}
      BY <3>1, <3>2, DrivenSame
    <3>4. EnableClocks' = EnableClocks /\ Clocked' = Clocked
      BY <3>1, <3>2, BlankSame
    <3> QED
      BY <3>3, <3>4
  <2>5. Trained'
    <3>1. Trained /\ job' = job
      BY <1>1, <1>2 DEF TrainHold
    <3>2. EnableClocks' = EnableClocks /\ Clocked' = Clocked
      BY <2>4
    <3>3. /\ Between(CbFirst + cfg.sh, 2)' = Between(CbFirst + cfg.sh, 2)
          /\ Between(CbFirst, cfg.sh + 2)' = Between(CbFirst, cfg.sh + 2)
      BY <3>1, TrainSame
    <3> QED
      BY <3>1, <3>2, <3>3 DEF Trained
  <2>6. \A q \in Driven : /\ q.time \in Nat /\ q.time >= 3
                          /\ (buf.ts + hold) * PerPacket - q.time * PerPacket
                               > cfg.sh + cfg.wrEn
    <3> TAKE q \in Driven
    <3>1. q.time \in Nat /\ q.time <= buf.ts
      BY <1>1, OrderPackets DEF Driven
    <3>2. q.time >= 3
      BY <1>2 DEF TrainHold, DrivenLast
    <3>3. (buf.ts + hold) * PerPacket - q.time * PerPacket >= hold * PerPacket
      <4>1. buf.ts \in Nat /\ hold \in Nat
        BY <1>1, <1>4
      <4>2. CASE PerPacket = 1
        BY <3>1, <4>1, <4>2
      <4>3. CASE PerPacket = 2
        BY <3>1, <4>1, <4>3
      <4> QED
        BY <1>3, <4>2, <4>3
    <3>4. hold * PerPacket > cfg.sh + cfg.wrEn
      BY <1>3, <1>4
    <3> DEFINE d == (buf.ts + hold) * PerPacket - q.time * PerPacket
               h == hold * PerPacket
    <3>5. d \in Int /\ h \in Int /\ cfg.sh + cfg.wrEn \in Int
      <4>1. PerPacket \in Int /\ cfg.sh \in Int /\ cfg.wrEn \in Int
        BY <1>3
      <4>2. buf.ts \in Int /\ hold \in Int /\ q.time \in Int
        BY <1>1, <1>4, <3>1
      <4> QED
        BY <4>1, <4>2
    <3>6. d >= h /\ h > cfg.sh + cfg.wrEn
      BY <3>3, <3>4
    <3> HIDE DEF d, h
    <3>7. d > cfg.sh + cfg.wrEn
      BY <3>5, <3>6
    <3> QED
      BY <3>1, <3>2, <3>7 DEF d
  <2>7. \A t : Clock(t)' = t * PerPacket
    BY <1>1, <1>3, TrainSame
  <2>8. Held'
    <3>1. \A k \in Packets \ Driven : k.time < 3
      BY <1>2 DEF TrainHold, DrivenLast
    <3>2. ASSUME NEW k \in (Packets \ Driven) \cup {p}, NEW q \in Driven, k.time > q.time
          PROVE  k.time * PerPacket - q.time * PerPacket > cfg.sh + cfg.wrEn
      <4>1. CASE k \in Packets \ Driven
        <5>1. k.time < 3 /\ k.time \in Nat
          BY <1>1, <3>1, <4>1, OrderPackets
        <5> QED
          BY <2>6, <3>2, <5>1
      <4>2. CASE k = p
        BY <2>2, <2>6, <4>2
      <4> QED
        BY <4>1, <4>2
    <3> QED
      BY <1>1, <2>4, <2>7, <3>2, TrainSame DEF Held
  <2>9. TrainWait'
    <3>1. \A q \in Driven : (buf.ts + hold) * PerPacket - q.time * PerPacket
                              > cfg.sh + cfg.wrEn
      BY <2>6
    <3>2. (\A q \in Driven : Clock(buf.ts) - Clock(q.time) > cfg.sh + cfg.wrEn)'
      BY <1>1, <2>1, <2>4, <2>7, <3>1, TrainSame
    <3>3. gap' = U8((cfg'.vref - cfg'.sh) \div PerPacket' + 1)
      BY <1>1, TrainSame DEF CbtHold
    <3>4. buf'.ts < 2^10
      BY <1>6, <2>1
    <3>5. (Clock(Len(buf.list) - 1) < CbFirst + CbCount)'
      <4> DEFINE l == Len(buf.list)
                 m == Len(buf'.list)
      <4>1. m - 1 = l /\ l = buf.ts - 1 /\ buf.ts * PerPacket < CbFirst + CbCount
        BY <1>1, <1>2, <1>3, <2>3 DEF TrainHold
      <4> HIDE DEF l, m
      <4>2. (m - 1) * PerPacket < CbFirst + CbCount
        BY <1>1, <1>3, <4>1
      <4> QED
        BY <1>1, <2>7, <4>2, TrainSame DEF m
    <3> QED
      BY <3>2, <3>3, <3>4, <3>5 DEF TrainWait
  <2> QED
    BY <2>5, <2>8, <2>9
<1> QED
  BY <1>7, <1>8

(* Which packets an appended one, or none, leaves.                         *)
LEMMA MorePackets ==
  ASSUME NEW b \in Buffers, NEW step \in Nat, step >= 1, b.ts + step \in Word,
         Ordered(b)
  PROVE  /\ Create(b, FALSE, step) \in Buffers /\ Ordered(Create(b, FALSE, step))
         /\ Create(b, FALSE, step).ts \in {b.ts, b.ts + step}
         /\ ToSet(b.list) \subseteq ToSet(Create(b, FALSE, step).list)
         /\ ToSet(Create(b, FALSE, step).list) \subseteq
              ToSet(b.list) \cup {Packet(b.ts + step, FALSE)}
<1> DEFINE c == Create(b, FALSE, step)
           p == Packet(b.ts + step, FALSE)
<1>1. c \in Buffers /\ b.list \in Seq(PacketSet)
  BY CreateMore DEF Buffers
<1>2. Ordered(c)
  <2>1. FALSE \in BOOLEAN
    OBVIOUS
  <2> QED
    BY <2>1, OrderCreate
<1>3. CASE c = b
  BY <1>1, <1>2, <1>3
<1>4. CASE c.ts = b.ts + step /\ c.list = Append(b.list, p) /\ p \in PacketSet
  <2> HIDE DEF c, p
  <2>1. ToSet(Append(b.list, p)) = ToSet(b.list) \cup {p}
    BY <1>1, <1>4, Appended
  <2>2. ToSet(c.list) = ToSet(b.list) \cup {p} /\ c.ts = b.ts + step
    BY <1>4, <2>1
  <2>3. /\ c.ts \in {b.ts, b.ts + step} /\ ToSet(b.list) \subseteq ToSet(c.list)
        /\ ToSet(c.list) \subseteq ToSet(b.list) \cup {p}
    BY <2>2
  <2> QED
    BY <1>1, <1>2, <2>3 DEF c, p
<1> HIDE DEF c, p
<1>5. c = b \/ (c.ts = b.ts + step /\ c.list = Append(b.list, p) /\ p \in PacketSet)
  BY CreateMore DEF c, p
<1> QED
  BY <1>3, <1>4, <1>5 DEF c, p

(* The command under training, when VREF has had its time.                 *)
LEMMA TrainDone ==
  ASSUME Settles, Typed, TrainInv, CbtCommand, Ordered(buf)
  PROVE  Trained' /\ Held' /\ Ordered(buf')
<1>1. /\ job' = job /\ job \in Jobs /\ buf \in Buffers /\ PerPacket \in Ratio
      /\ buf.ts \in Nat /\ HasRoom(buf) /\ buf.left > 0 /\ gap \in Nat
      /\ PerPacket = 1 \/ PerPacket = 2
  BY State, Scale DEF CbtCommand, HasRoom, Ratio
<1>2. Trained /\ Held /\ TrainWait
  BY <1>1 DEF TrainInv, CbtCommand
<1>3. gap >= 1 /\ gap < 256 /\ Due = buf.ts + gap /\ Due \in Nat /\ Due < 1280
  <2>1. cfg \in Timings /\ cfg.vref \in Int /\ cfg.sh \in Int
    BY <1>1, Scale, WordNat
  <2>2. gap = U8((cfg.vref - cfg.sh) \div PerPacket + 1)
    BY <1>2 DEF TrainWait
  <2>3. gap > 0
    BY <2>1, <2>2 DEF Settles, VrefFits, PerPacket
  <2>4. gap < 256
    <3> DEFINE k == (cfg.vref - cfg.sh) \div PerPacket + 1
    <3>1. k \in Int
      BY <1>1, <2>1
    <3> HIDE DEF k
    <3>2. gap \in Byte
      BY <2>2, <3>1, Widths DEF k
    <3> QED
      BY <3>2, WordNat
  <2>5. buf.ts < 1024
    BY <1>2 DEF TrainWait
  <2> QED
    BY <1>1, <2>3, <2>4, <2>5 DEF Due
<1> DEFINE q  == Newest(Create(buf, FALSE, gap))
           p  == [q EXCEPT !.cmd = << <<0, 1>> >>]
           b1 == SetNewest(Create(buf, FALSE, gap), p)
           b2 == Create(b1, FALSE, 1)
           b3 == Create(b2, FALSE, 2)
<1>4. buf' = b3
  BY DEF CbtCommand, CreateCk
<1>5. p \in PacketSet /\ p.time = Due /\ p.en = {} /\ p.data = <<>>
  <2>1. Due \in Word /\ HasRoom(buf)
    BY <1>1, <1>3, SmallWord
  <2>2. q = Packet(Due, FALSE) /\ q \in PacketSet
    BY <2>1, PacketDue
  <2>3. q = [time |-> Due, cke |-> FALSE, cmd |-> <<>>, en |-> {}, rd |-> {},
             data |-> <<>>]
    <3> HIDE DEF q
    <3> QED
      BY <2>2 DEF Packet
  <2>4. << <<0, 1>> >> \in Seq(Nat \X Nat)
    OBVIOUS
  <2> DEFINE f == << <<0, 1>> >>
  <2>5. p = [q EXCEPT !.cmd = f]
    OBVIOUS
  <2> HIDE DEF q, p, f
  <2>6. p = [time |-> Due, cke |-> FALSE, cmd |-> f, en |-> {}, rd |-> {},
             data |-> <<>>]
    BY <2>3, <2>5
  <2>7. f \in Seq(Nat \X Nat) /\ q \in PacketSet
    BY <2>2, <2>4 DEF f
  <2>8. p \in PacketSet
    BY <2>3, <2>6, <2>7 DEF PacketSet
  <2> QED
    BY <2>6, <2>8
<1> HIDE DEF q, p
<1>6. /\ b1 \in Buffers /\ Ordered(b1) /\ b1.ts = Due
      /\ ToSet(b1.list) = Packets \cup {p}
  <2>1. Due \in Word /\ HasRoom(buf) /\ p \in PacketSet /\ FALSE \in BOOLEAN
    BY <1>1, <1>3, <1>5, SmallWord
  <2>2. b1 \in Buffers
    BY <1>1, <2>1, Filled
  <2>3. b1.ts = Due /\ b1.list = Append(buf.list, p)
    BY <2>1, PacketPut
  <2>4. Ordered(b1)
    <3>1. buf.ts < Due
      BY <1>1, <1>3
    <3>2. /\ buf \in Buffers /\ b1 \in Buffers /\ p \in PacketSet
          /\ b1.list = Append(buf.list, p) /\ p.time = b1.ts /\ buf.ts < b1.ts
      BY <1>1, <1>5, <2>1, <2>2, <2>3, <3>1
    <3> HIDE DEF b1
    <3> QED
      BY <3>2, OrderAppend
  <2>5. ToSet(Append(buf.list, p)) = ToSet(buf.list) \cup {p}
    BY <1>1, <2>1, Appended DEF Buffers
  <2> HIDE DEF b1
  <2> QED
    BY <2>2, <2>3, <2>4, <2>5 DEF Packets
<1> HIDE DEF b1
<1>7. /\ b2 \in Buffers /\ Ordered(b2) /\ b2.ts \in {Due, Due + 1}
      /\ ToSet(b1.list) \subseteq ToSet(b2.list)
      /\ ToSet(b2.list) \subseteq ToSet(b1.list) \cup {Packet(Due + 1, FALSE)}
  <2>1. b1.ts + 1 \in Word
    <3>1. Due + 1 \in Nat /\ Due + 1 < 2000
      BY <1>3
    <3> QED
      BY <1>6, <3>1, SmallWord
  <2>2. 1 \in Nat /\ 1 >= 1 /\ b1 \in Buffers /\ Ordered(b1)
    BY <1>6
  <2>3. /\ b2 \in Buffers /\ Ordered(b2) /\ b2.ts \in {b1.ts, b1.ts + 1}
        /\ ToSet(b1.list) \subseteq ToSet(b2.list)
        /\ ToSet(b2.list) \subseteq ToSet(b1.list) \cup {Packet(b1.ts + 1, FALSE)}
    BY <2>1, <2>2, MorePackets
  <2> HIDE DEF b2
  <2> QED
    BY <1>6, <2>3
<1> HIDE DEF b2
<1>8. /\ b3 \in Buffers /\ Ordered(b3)
      /\ ToSet(b2.list) \subseteq ToSet(b3.list)
      /\ ToSet(b3.list) \subseteq ToSet(b2.list) \cup {Packet(b2.ts + 2, FALSE)}
  <2>1. b2.ts + 2 \in Word
    <3>1. b2.ts + 2 \in Nat /\ b2.ts + 2 < 2000
      BY <1>3, <1>7
    <3> QED
      BY <3>1, SmallWord
  <2>2. 2 \in Nat /\ 2 >= 1 /\ b2 \in Buffers /\ Ordered(b2)
    BY <1>7
  <2> QED
    BY <2>1, <2>2, MorePackets
<1> HIDE DEF b3
<1> DEFINE S == Packets' \ Packets
<1>9. Packets' = Packets \cup S
  <2>1. Packets \subseteq ToSet(b3.list)
    BY <1>6, <1>7, <1>8
  <2> QED
    BY <1>4, <2>1 DEF Packets
<1>10. \A k \in S : /\ k.data = <<>> /\ k.en = {}
                    /\ k.time \in Nat /\ k.time > buf.ts
  <2> TAKE k \in S
  <2>1. k = p \/ k = Packet(Due + 1, FALSE) \/ k = Packet(b2.ts + 2, FALSE)
    <3>1. Packets' = ToSet(b3.list)
      BY <1>4 DEF Packets
    <3> QED
      BY <1>6, <1>7, <1>8, <3>1
  <2>2. CASE k = p
    BY <1>1, <1>3, <1>5, <2>2
  <2>3. CASE k = Packet(Due + 1, FALSE)
    <3>1. k.time = Due + 1 /\ k.data = <<>> /\ k.en = {}
      BY <2>3, BlankPacket
    <3> QED
      BY <1>1, <1>3, <3>1
  <2>4. CASE k = Packet(b2.ts + 2, FALSE)
    <3>1. k.time = b2.ts + 2 /\ k.data = <<>> /\ k.en = {}
      BY <2>4, BlankPacket
    <3>2. buf.ts \in Nat /\ b2.ts \in Nat /\ b2.ts > buf.ts
      BY <1>1, <1>3, <1>7
    <3> QED
      BY <3>1, <3>2
  <2> QED
    BY <2>1, <2>2, <2>3, <2>4
<1> HIDE DEF S
<1>11. /\ Driven' = Driven /\ (Packets \ Driven)' = (Packets \ Driven) \cup S
       /\ EnableClocks' = EnableClocks /\ Clocked' = Clocked
  <2>1. \A k \in S : k.data = <<>> /\ k.en = {}
    BY <1>10
  <2>2. Packets' = Packets \cup S /\ job' = job
    BY <1>1, <1>9
  <2> QED
    BY <2>1, <2>2, DrivenSame, BlankSame
<1>12. Trained'
  BY <1>1, <1>2, <1>11, TrainSame DEF Trained
<1>13. \A t : Clock(t)' = t * PerPacket /\ Clock(t) = t * PerPacket
  BY <1>1, TrainSame, Scale
<1>14. Held'
  <2>1. ASSUME NEW k \in (Packets \ Driven) \cup S, NEW r \in Driven, k.time > r.time
        PROVE  k.time * PerPacket - r.time * PerPacket > cfg.sh + cfg.wrEn
    <3>1. CASE k \in Packets \ Driven
      BY <1>2, <1>13, <2>1, <3>1 DEF Held
    <3>2. CASE k \in S
      <4>1. k.time \in Nat /\ k.time > buf.ts
        BY <1>10, <3>2
      <4>2. buf.ts * PerPacket - r.time * PerPacket > cfg.sh + cfg.wrEn
        BY <1>2, <1>13 DEF TrainWait
      <4>3. r.time \in Nat
        BY <1>1, OrderPackets DEF Driven
      <4>4. cfg.sh + cfg.wrEn \in Int
        BY <1>1, Scale, WordNat
      <4> DEFINE s == cfg.sh + cfg.wrEn
      <4> HIDE DEF s
      <4>5. k.time * PerPacket - r.time * PerPacket > s
        BY <1>1, <4>1, <4>2, <4>3, <4>4 DEF s
      <4> QED
        BY <4>5 DEF s
    <3> QED
      BY <2>1, <3>1, <3>2
  <2> QED
    BY <1>1, <1>11, <1>13, <2>1, TrainSame DEF Held
<1>15. Ordered(buf')
  BY <1>4, <1>8
<1> QED
  BY <1>12, <1>14, <1>15

LEMMA TrainNext ==
  ASSUME Trains, Settles, Typed, TrainInv, job.kind = "cbt" => Ordered(buf),
         [Next]_vars
  PROVE  TrainInv' /\ (job.kind = "cbt" => Ordered(buf))'
<1>1. CASE UNCHANGED vars
  <2>1. UNCHANGED <<job, buf, pc, gap, en, dat, result>>
    BY <1>1 DEF vars
  <2>2. UNCHANGED <<EnableClocks, DataWords, Packets, Driven, Clocked, Held, CbFirst,
                    CbCount, cfg, PerPacket, Short, Between(CbFirst + cfg.sh, 2),
                    Between(CbFirst, cfg.sh + 2)>>
        /\ \A t : Clock(t)' = Clock(t)
    BY <2>1, PlaysSame, TrainSame DEF Driven, Clocked, Held
  <2>3. UNCHANGED <<Trained, TrainData, TrainHold, TrainWait>>
    BY <2>1, <2>2
    DEF Trained, TrainData, TrainHold, TrainWait, DrivenLast, Due, Given, Stands
  <2> QED
    BY <2>1, <2>2, <2>3 DEF TrainInv, Finished
<1>2. CASE Call
  <2>1. job' \in Jobs /\ buf' = NewBuffer(job'.last, job'.room) /\ pc' \in Kinds
    BY <1>2, JobTyped DEF Call
  <2>2. Ordered(buf')
    BY <2>1, JobTyped, OrderEmpty
  <2> QED
    BY <2>1, <2>2 DEF TrainInv, Finished, Kinds
<1> SUFFICES ASSUME Next, ~Call, job.kind = "cbt" PROVE TrainInv' /\ Ordered(buf')
  <2>1. ASSUME Next, ~Call, job.kind # "cbt"
        PROVE  TrainInv' /\ (job.kind = "cbt" => Ordered(buf))'
    <3>1. job' = job /\ pc' \notin Training
      BY <2>1, StepsOf, PlaceNext DEF PlaceInv
    <3> QED
      BY <2>1, <3>1 DEF TrainInv, Training, Finished
  <2> QED
    BY <1>1, <1>2, <2>1, StepsOf
<1>3. job' = job /\ job \in Jobs /\ buf \in Buffers /\ Ordered(buf)
  BY StepsOf, State
<1>4. CASE CbtBegin
  <2>1. pc' = "cbt_data"
    BY <1>4 DEF CbtBegin, Go
  <2>2. Ordered(buf')
    <3>1. buf.ts = 1 /\ buf' = Create(buf, FALSE, 1)
      <4>1. buf = NewBuffer(job.last, job.room) /\ buf' = Create(buf, FALSE, 1)
        BY <1>4 DEF CbtBegin, CreateCk, Typed, PlaceInv, Kinds
      <4>2. job.last = 1
        BY <1>3, JobTyped
      <4> QED
        BY <4>1, <4>2 DEF NewBuffer
    <3>2. buf.ts + 1 \in Word /\ 1 >= 1 /\ 1 \in Nat /\ FALSE \in BOOLEAN
      BY <3>1, SmallWord
    <3> QED
      BY <1>3, <3>1, <3>2, OrderCreate
  <2> QED
    BY <1>4, <2>1, <2>2, TrainFirst DEF TrainInv, Finished
<1>5. CASE CbtPacket
  <2>1. pc' \in {"cbt_data", "cbt_hold"}
    BY <1>5 DEF CbtPacket, Go
  <2> QED
    BY <1>3, <1>5, <2>1, TrainNextPacket DEF TrainInv, Finished
<1>6. CASE CbtHold
  <2>1. pc' = "cbt_command"
    BY <1>6 DEF CbtHold, Go
  <2> QED
    BY <1>3, <1>6, <2>1, TrainHeld DEF TrainInv, Finished
<1>7. CASE CbtCommand
  <2>1. pc' = "done"
    BY <1>7 DEF CbtCommand, Return
  <2> QED
    BY <1>3, <1>7, <2>1, TrainDone DEF TrainInv
<1>8. CASE OutOfPackets
  BY <1>3, <1>8 DEF OutOfPackets, Return, TrainInv, Finished
<1> QED
  BY <1>4, <1>5, <1>6, <1>7, <1>8, StepsOf

(* Command bus training is sound.  When dram_prepare_cbt_sequence returns  *)
(* WDDR_SUCCESS, DQS toggles for exactly two clocks, DQ carries the VREF   *)
(* setting from t_sh_train before them, and its last value is held for     *)
(* more than t_sh_train + phy_wr_en clocks: provided that the time it is   *)
(* held fits in 8 bits, and that the wait for VREF is not truncated to 0.  *)
THEOREM TrainCorrect ==
  ASSUME Trains, Settles PROVE Spec => []CbtToggles
<1> DEFINE Sorted == job.kind = "cbt" => Ordered(buf)
<1>1. Init => TrainInv /\ Sorted
  <2>1. 0 \in Nat
    OBVIOUS
  <2> QED
    BY <2>1, OrderEmpty, SmallWord DEF Init, TrainInv, Finished
<1>2. Typed /\ TrainInv /\ Sorted /\ [Next]_vars => TrainInv' /\ Sorted'
  BY TrainNext
<1>3. Typed /\ TrainInv => CbtToggles
  <2> SUFFICES ASSUME Typed, TrainInv, Finished("cbt") PROVE CbtToggles
    BY DEF CbtToggles
  <2>1. Trained /\ Held
    BY DEF TrainInv
  <2>2. Between(CbFirst + cfg.sh, 2) = {CbFirst + cfg.sh, CbFirst + cfg.sh + 1}
    <3>1. CbFirst \in Nat /\ cfg.sh \in Nat
      BY State, TrainParts DEF Finished
    <3> DEFINE mid == CbFirst + cfg.sh
    <3>2. mid \in Nat
      BY <3>1
    <3> HIDE DEF mid
    <3>3. \A k : k \in mid .. mid + 2 - 1 <=> k = mid \/ k = mid + 1
      BY <3>2
    <3>4. mid .. mid + 2 - 1 = {mid, mid + 1}
      BY <3>3
    <3> QED
      BY <3>4 DEF Between, mid
  <2> QED
    BY <2>1, <2>2 DEF CbtToggles, Trained, Held, Driven, Clocked, CbFirst
<1> HIDE DEF Sorted
<1> QED
  BY <1>1, <1>2, <1>3, AlwaysTyped, PTL DEF Spec

-----------------------------------------------------------------------------
(* The mode registers of a switch.                                         *)
LEMMA FrameParts ==
  ASSUME job \in Jobs, buf \in Buffers, NEW f \in FrameClocks
  PROVE  f[1] \in Int
<1>1. PICK p \in Packets : \E n \in DOMAIN p.cmd : f = <<At(p, n - 1), p.cmd[n]>>
  BY DEF FrameClocks
<1>2. PICK n \in DOMAIN p.cmd : f = <<At(p, n - 1), p.cmd[n]>>
  BY <1>1
<1>3. p \in PacketSet
  BY DEF Packets, Buffers, ToSet
<1>4. p.time \in Nat /\ n \in Int
  <2>1. p.time \in Word /\ p.cmd \in Seq(Nat \X Nat)
    BY <1>3 DEF PacketSet
  <2> QED
    BY <1>2, <2>1, WordNat
<1>5. At(p, n - 1) = p.time * PerPacket + (n - 1)
  BY Scale DEF At
<1>6. PerPacket = 1 \/ PerPacket = 2
  BY Scale DEF Ratio
<1>7. f[1] = p.time * PerPacket + (n - 1)
  BY <1>2, <1>5
<1> QED
  BY <1>4, <1>6, <1>7

LEMMA GapParts ==
  ASSUME Updates, job \in Jobs, NEW n \in Nat
  PROVE  /\ cfg.vref \in Nat /\ 0 < cfg.vref /\ 2 * cfg.vref < 65280
         /\ MrwGap(n) = IF n % 5 = 4 THEN cfg.vref ELSE 10
         /\ MrwGap(n) \in Nat /\ MrwGap(n) >= 1
<1>1. cfg.vref \in Nat /\ cfg \in Timings
  BY Scale, WordNat
<1>2. 0 < cfg.vref /\ 2 * cfg.vref < 65280
  BY <1>1 DEF Updates, MrwFits
<1>3. MrwGap(n) = IF n % 5 = 4 THEN cfg.vref ELSE 10
  BY DEF MrwGap, Registers
<1> QED
  BY <1>1, <1>2, <1>3

LEMMA LatestNext ==
  ASSUME Updates, job \in Jobs, NEW n \in 0 .. 9
  PROVE  /\ Latest(n) \in Nat /\ Latest(n + 1) \in Nat
         /\ Latest(n) + MrwGap(n) + 4 <= Latest(n + 1)
         /\ Latest(n) + MrwGap(n) + 4 \in Word
<1>1. /\ cfg.vref \in Nat /\ 0 < cfg.vref /\ 2 * cfg.vref < 65280
      /\ MrwGap(n) = IF n % 5 = 4 THEN cfg.vref ELSE 10
  BY GapParts
<1>2. n \in {4, 9} <=> n % 5 = 4
  OBVIOUS
<1>3. CASE n < 4
  <2>1. Latest(n) = 2 + 16 * n /\ Latest(n + 1) = 18 + 16 * n /\ MrwGap(n) = 10
    BY <1>1, <1>2, <1>3 DEF Latest, Vrefs
  <2>2. 2 + 16 * n + 10 + 4 \in Nat /\ 2 + 16 * n + 10 + 4 < 2000
    OBVIOUS
  <2> QED
    BY <2>1, <2>2, SmallWord
<1>4. CASE n = 4
  <2>1. Latest(n) = 66 /\ Latest(n + 1) = 82 + cfg.vref /\ MrwGap(n) = cfg.vref
    BY <1>1, <1>2, <1>4 DEF Latest, Vrefs
  <2>2. 66 + cfg.vref + 4 \in Word
    BY <1>1, Widths
  <2> QED
    BY <1>1, <2>1, <2>2
<1>5. CASE n > 4 /\ n < 9
  <2>1. /\ Latest(n) = 2 + 16 * n + cfg.vref /\ Latest(n + 1) = 18 + 16 * n + cfg.vref
        /\ MrwGap(n) = 10
    BY <1>1, <1>2, <1>5 DEF Latest, Vrefs
  <2>2. 2 + 16 * n + cfg.vref + 10 + 4 \in Word
    BY <1>1, Widths
  <2> QED
    BY <1>1, <2>1, <2>2
<1>6. CASE n = 9
  <2>1. /\ Latest(n) = 146 + cfg.vref /\ Latest(n + 1) = 162 + 2 * cfg.vref
        /\ MrwGap(n) = cfg.vref
    BY <1>1, <1>2, <1>6 DEF Latest, Vrefs
  <2>2. 146 + cfg.vref + cfg.vref + 4 \in Word
    BY <1>1, Widths
  <2> QED
    BY <1>1, <2>1, <2>2
<1> QED
  BY <1>3, <1>4, <1>5, <1>6

LEMMA SentNext ==
  ASSUME NEW c \in Nat, NEW n \in Nat, NEW pp \in {1, 2}, n + pp <= 4
  PROVE  Sent(c, n + pp) = Sent(c, n) \cup {<<c, n + k>> : k \in 1 .. pp}
<1>1. \A mk \in (0 .. c) \X (1 .. 4) :
        /\ mk = <<mk[1], mk[2]>> /\ mk[1] \in 0 .. c /\ mk[2] \in 1 .. 4
  OBVIOUS
<1>2. ASSUME NEW mk \in Sent(c, n + pp), mk \notin Sent(c, n)
      PROVE  mk \in {<<c, n + k>> : k \in 1 .. pp}
  <2>1. /\ mk \in (0 .. c) \X (1 .. 4) /\ mk[1] = c
        /\ mk[2] <= n + pp /\ ~(mk[2] <= n)
    BY <1>2 DEF Sent, Frames
  <2>2. mk = <<c, mk[2]>> /\ mk[2] \in 1 .. 4
    BY <1>1, <2>1
  <2>3. mk[2] - n \in 1 .. pp /\ n + (mk[2] - n) = mk[2]
    BY <2>1, <2>2
  <2> QED
    BY <2>2, <2>3
<1>3. ASSUME NEW mk \in Sent(c, n) PROVE mk \in Sent(c, n + pp)
  <2>1. mk \in (0 .. c) \X (1 .. 4) /\ (mk[1] = c => mk[2] <= n)
    BY DEF Sent, Frames
  <2>2. mk[2] \in Int
    BY <1>1, <2>1
  <2>3. mk[1] = c => mk[2] <= n + pp
    BY <2>1, <2>2
  <2> QED
    BY <2>1, <2>3 DEF Sent, Frames
<1>4. ASSUME NEW k \in 1 .. pp PROVE <<c, n + k>> \in Sent(c, n + pp)
  <2>1. n + k \in 1 .. 4 /\ n + k <= n + pp /\ c \in 0 .. c
    OBVIOUS
  <2> QED
    BY <2>1 DEF Sent, Frames
<1> QED
  BY <1>2, <1>3, <1>4

LEMMA SentNone ==
  ASSUME NEW c \in Nat
  PROVE  /\ Sent(0, 0) = {} /\ Sent(c + 1, 0) = Sent(c, 4)
         /\ Sent(c, 4) = (0 .. c) \X (1 .. 4)
<1>1. Sent(c, 4) = (0 .. c) \X (1 .. 4)
  BY DEF Sent, Frames
<1>2. \A mk \in (0 .. c + 1) \X (1 .. 4) :
        (mk[1] = c + 1 => mk[2] <= 0) <=> mk \in (0 .. c) \X (1 .. 4)
  OBVIOUS
<1>3. (0 .. c) \X (1 .. 4) \subseteq (0 .. c + 1) \X (1 .. 4)
  OBVIOUS
<1>4. Sent(0, 0) = {}
  <2>1. \A mk \in (0 .. 0) \X (1 .. 4) : ~(mk[1] = 0 => mk[2] <= 0)
    OBVIOUS
  <2> QED
    BY <2>1 DEF Sent, Frames
<1> QED
  BY <1>1, <1>2, <1>3, <1>4 DEF Sent, Frames

LEMMA RegisterParts ==
  ASSUME Updates, Typed, pc = "address", job.kind = "mrw", UpdateRegister
  PROVE  /\ HasRoom(buf) /\ gap \in Nat /\ gap >= 1
         /\ Due = buf.ts + gap /\ Due \in Word /\ Due \in Nat
         /\ Due <= Latest(command) + MrwGap(command) + frame
         /\ PerPacket \in {1, 2} /\ command \in 0 .. 9 /\ frame \in 0 .. 4
         /\ (frame < 4 => frame + PerPacket <= 4)
<1>1. /\ job \in Jobs /\ buf \in Buffers /\ buf.ts \in Nat /\ buf.left \in Nat
      /\ Len(buf.list) \in Nat /\ PerPacket \in {1, 2}
  BY State, Scale DEF Ratio
<1>2. command \in 0 .. 9 /\ frame \in 0 .. 4 /\ frame % PerPacket = 0
  BY State DEF Typed, PlaceInv, Ranks, Registers
<1>3. /\ gap = IF frame = 0 THEN MrwGap(command) ELSE 1
      /\ buf.ts <= IF frame = 0 THEN Latest(command)
                   ELSE Latest(command) + MrwGap(command) + frame - 1
      /\ Len(buf.list) = 1 + command * (4 \div PerPacket + 1) + frame \div PerPacket
  BY DEF UpdateRegister, Frames
<1>4. /\ Latest(command) \in Nat /\ MrwGap(command) \in Nat /\ MrwGap(command) >= 1
      /\ Latest(command) + MrwGap(command) + 4 \in Word
  <2>1. job \in Jobs /\ command \in 0 .. 9 /\ command \in Nat
    BY <1>1, <1>2
  <2>2. Latest(command) \in Nat /\ Latest(command) + MrwGap(command) + 4 \in Word
    BY <2>1, LatestNext
  <2>3. MrwGap(command) \in Nat /\ MrwGap(command) >= 1
    BY <2>1, GapParts
  <2> QED
    BY <2>2, <2>3
<1>5. HasRoom(buf)
  <2>1. Len(buf.list) + buf.left = 56
    BY <1>1, JobTyped DEF Typed, BufferOK
  <2> DEFINE l == Len(buf.list)
  <2>2. l = 1 + command * (4 \div PerPacket + 1) + frame \div PerPacket
    BY <1>3
  <2> HIDE DEF l
  <2>3. l < 56
    <3>1. CASE PerPacket = 1
      BY <1>2, <2>2, <3>1
    <3>2. CASE PerPacket = 2
      BY <1>2, <2>2, <3>2
    <3> QED
      BY <1>1, <3>1, <3>2
  <2>4. l \in Nat /\ l + buf.left = 56
    BY <1>1, <2>1 DEF l
  <2> QED
    BY <1>1, <2>3, <2>4 DEF HasRoom
<1>6. Due = buf.ts + gap /\ gap \in Nat /\ gap >= 1 /\ Due \in Nat
  BY <1>1, <1>3, <1>4 DEF Due
<1> DEFINE latest == Latest(command)
           wait == MrwGap(command)
<1> HIDE DEF latest, wait
<1>7. Due <= latest + wait + frame
  <2>1. /\ latest \in Nat /\ wait \in Nat
        /\ gap = IF frame = 0 THEN wait ELSE 1
        /\ buf.ts <= IF frame = 0 THEN latest ELSE latest + wait + frame - 1
    BY <1>3, <1>4 DEF latest, wait
  <2> QED
    BY <1>1, <1>2, <1>6, <2>1
<1>8. Due \in Word
  <2>1. latest + wait + 4 \in Word /\ latest \in Nat /\ wait \in Nat
    BY <1>4 DEF latest, wait
  <2>2. \A m \in Word, n \in Nat : n <= m => n \in Word
    BY Widths
  <2>3. Due <= latest + wait + 4
    BY <1>2, <1>6, <1>7, <2>1
  <2> QED
    BY <1>6, <2>1, <2>2, <2>3
<1>9. frame < 4 => frame + PerPacket <= 4
  BY <1>1, <1>2
<1> QED
  BY <1>1, <1>2, <1>5, <1>6, <1>7, <1>8, <1>9 DEF latest, wait

LEMMA RegisterSame ==
  ASSUME job' = job
  PROVE  /\ cfg' = cfg /\ PerPacket' = PerPacket
         /\ \A n : MrwGap(n)' = MrwGap(n) /\ Latest(n)' = Latest(n)
         /\ \A t : Clock(t)' = Clock(t)
         /\ \A c, n : Sent(c, n)' = Sent(c, n)
BY DEF cfg, PerPacket, MrwGap, Latest, Vrefs, Clock, Sent

(* Its next frames.                                                        *)
LEMMA RegisterNext ==
  ASSUME Updates, Typed, job.kind = "mrw", UpdateRegister, AddressPacket
  PROVE  UpdateRegister' /\ (Ordered(buf) => Ordered(buf'))
<1>1. /\ job' = job /\ job \in Jobs /\ buf \in Buffers /\ pc = "address"
      /\ command' = command /\ Len(buf.list) \in Nat /\ buf.ts \in Nat
      /\ PerPacket \in Ratio /\ frame < 4
  BY State, Scale DEF AddressPacket, Frames
<1>2. /\ HasRoom(buf) /\ gap \in Nat /\ gap >= 1
      /\ Due = buf.ts + gap /\ Due \in Word /\ Due \in Nat
      /\ Due <= Latest(command) + MrwGap(command) + frame
      /\ PerPacket \in {1, 2} /\ command \in 0 .. 9 /\ frame \in 0 .. 4
      /\ frame + PerPacket <= 4
  BY <1>1, RegisterParts
<1>3. /\ {f[2] : f \in FrameClocks} = Sent(command, frame)
      /\ Apart /\ Lined
      /\ gap = IF frame = 0 THEN MrwGap(command) ELSE 1
  BY DEF UpdateRegister
<1> DEFINE q == Newest(Create(buf, TRUE, gap))
           frames == [n \in 1 .. PerPacket |-> <<command, frame + n>>]
           p == [q EXCEPT !.cmd = frames]
<1>4. buf' = SetNewest(Create(buf, TRUE, gap), p) /\ frame' = frame + PerPacket
      /\ gap' = 1
  BY <1>2 DEF AddressPacket, CreateCke
<1>5. p \in PacketSet /\ p.time = Due /\ p.cmd = frames
  <2>1. q = Packet(Due, TRUE) /\ q \in PacketSet
    BY <1>2, PacketDue
  <2>2. q = [time |-> Due, cke |-> TRUE, cmd |-> <<>>, en |-> {}, rd |-> {},
             data |-> <<>>]
    <3> HIDE DEF q
    <3> QED
      BY <2>1 DEF Packet
  <2>3. frames \in Seq(Nat \X Nat)
    <3>1. \A n \in 1 .. PerPacket : <<command, frame + n>> \in Nat \X Nat
      BY <1>2
    <3> QED
      BY <1>2, <3>1
  <2>4. p = [q EXCEPT !.cmd = frames]
    OBVIOUS
  <2> HIDE DEF q, p, frames
  <2>5. p = [time |-> Due, cke |-> TRUE, cmd |-> frames, en |-> {}, rd |-> {},
             data |-> <<>>]
    BY <2>2, <2>4
  <2>6. p \in PacketSet
    <3>1. Due \in Word /\ TRUE \in BOOLEAN /\ {} \in SUBSET Cycles
      BY <1>2
    <3>2. <<>> \in PacketData
      <4>1. <<>> \in [{} -> Int]
        OBVIOUS
      <4> QED
        BY <4>1 DEF PacketData
    <3> QED
      BY <2>3, <2>5, <3>1, <3>2 DEF PacketSet
  <2> QED
    BY <2>5, <2>6
<1> HIDE DEF q, p
<1>6. /\ buf'.ts = Due /\ buf'.list = Append(buf.list, p)
      /\ Len(buf'.list) = Len(buf.list) + 1
  BY <1>2, <1>4, <1>5, PacketPut
<1>7. Ordered(buf) => Ordered(buf')
  BY <1>1, <1>2, <1>4, <1>5, OrderPut
<1> DEFINE New == {<<Due * PerPacket + (n - 1), <<command, frame + n>>>> :
                     n \in 1 .. PerPacket}
<1>8. FrameClocks' = FrameClocks \cup New
  <2>1. FrameClocks' = FrameClocks \cup
          {<<p.time * PerPacket + (n - 1), p.cmd[n]>> : n \in DOMAIN p.cmd}
    BY <1>1, <1>5, <1>6, PlaysMore
  <2>2. {<<p.time * PerPacket + (n - 1), p.cmd[n]>> : n \in DOMAIN p.cmd} = New
    BY <1>5
  <2> QED
    BY <2>1, <2>2
<1>9. \A g \in New : /\ g[1] \in Int /\ g[2][1] = command
                     /\ g[2][2] \in frame + 1 .. frame + PerPacket
                     /\ g[1] = Due * PerPacket + g[2][2] - frame - 1
                     /\ g[1] >= Due * PerPacket
  <2> TAKE g \in New
  <2>1. PICK n \in 1 .. PerPacket :
               g = <<Due * PerPacket + (n - 1), <<command, frame + n>>>>
    OBVIOUS
  <2>2. g[1] = Due * PerPacket + (n - 1) /\ g[2][1] = command /\ g[2][2] = frame + n
    BY <2>1
  <2> HIDE DEF New
  <2>3. Due * PerPacket \in Int /\ n \in Int /\ frame \in Int /\ 1 <= n /\ n <= PerPacket
    BY <1>2
  <2> DEFINE x == Due * PerPacket
  <2> HIDE DEF x
  <2>4. x + (n - 1) = x + (frame + n) - frame - 1 /\ x + (n - 1) >= x /\ x + (n - 1) \in Int
    BY <2>3 DEF x
  <2>5. frame + n \in frame + 1 .. frame + PerPacket
    BY <1>2, <2>3
  <2> QED
    BY <2>2, <2>4, <2>5 DEF x
<1>10. {f[2] : f \in FrameClocks}' = Sent(command, frame)'
  <2>1. {f[2] : f \in FrameClocks}' = {f[2] : f \in FrameClocks} \cup {f[2] : f \in New}
    BY <1>8
  <2>2. {f[2] : f \in New} = {<<command, frame + n>> : n \in 1 .. PerPacket}
    <3> DEFINE Tag(n) == <<command, frame + n>>
               Made(n) == <<Due * PerPacket + (n - 1), Tag(n)>>
    <3>1. \A n : Made(n)[2] = Tag(n)
      OBVIOUS
    <3>2. \A f : f \in New <=> \E n \in 1 .. PerPacket : f = Made(n)
      OBVIOUS
    <3> HIDE DEF Tag, Made, New
    <3>3. {f[2] : f \in New} = {Tag(n) : n \in 1 .. PerPacket}
      BY <3>1, <3>2
    <3> QED
      BY <3>3 DEF Tag
  <2>3. Sent(command, frame + PerPacket) =
          Sent(command, frame) \cup {<<command, frame + n>> : n \in 1 .. PerPacket}
    BY <1>2, SentNext
  <2>4. Sent(command, frame)' = Sent(command, frame + PerPacket)
    BY <1>1, <1>4 DEF Sent
  <2> QED
    BY <1>3, <2>1, <2>2, <2>3, <2>4
<1> HIDE DEF New, frames
<1> DEFINE x == Due * PerPacket
           wait == MrwGap(command)
<1>11. /\ x \in Int /\ wait \in Nat
       /\ wait = IF command % 5 = 4 THEN cfg.vref ELSE 10
  <2>1. x \in Int
    BY <1>2
  <2>2. job \in Jobs /\ command \in Nat
    BY <1>1, <1>2
  <2> HIDE DEF x
  <2> QED
    BY <2>1, <2>2, GapParts
<1>12. \A f \in FrameClocks :
         /\ f[1] \in Int /\ f[2][1] \in 0 .. command /\ f[2][2] \in 1 .. 4
         /\ f[2][1] = command => f[2][2] <= frame
  <2> TAKE f \in FrameClocks
  <2>1. f[1] \in Int
    BY <1>1, FrameParts
  <2>2. f[2] \in Sent(command, frame)
    BY <1>3
  <2>3. f[2] \in (0 .. command) \X (1 .. 4) /\ (f[2][1] = command => f[2][2] <= frame)
    BY <2>2 DEF Sent, Frames
  <2> QED
    BY <2>1, <2>3
<1> DEFINE Line(f) == /\ f[1] \in Int /\ f[2][1] \in 0 .. command /\ f[2][2] \in 1 .. 4
                      /\ f[2][1] = command => f[1] = x + f[2][2] - frame - 1
                      /\ f[2][1] # command => f[1] < x
                      /\ f[2][1] + 1 = command => f[1] + wait < x
<1>13. \A f \in FrameClocks : Line(f)
  <2> TAKE f \in FrameClocks
  <2> DEFINE a == f[1]
             m == f[2][1]
             k == f[2][2]
             y == buf.ts * PerPacket
  <2>1. a \in Int /\ m \in 0 .. command /\ k \in 1 .. 4 /\ (m = command => k <= frame)
    BY <1>12
  <2>2. IF m = command THEN a = Clock(buf.ts + 1) - frame + k - 1
        ELSE a < Clock(buf.ts) /\ (frame > 0 /\ m + 1 = command => a + wait < Clock(buf.ts))
    BY <1>3 DEF Lined
  <2>3. Clock(buf.ts + 1) = (buf.ts + 1) * PerPacket /\ Clock(buf.ts) = y
    BY <1>1, Scale
  <2> HIDE DEF a, m, k, wait
  <2>4. y \in Int
    BY <1>1, <1>2
  <2>5. CASE m = command
    <3>1. gap = 1 /\ Due = buf.ts + 1
      BY <1>2, <1>3, <2>1, <2>5
    <3>2. a = x - frame + k - 1
      BY <2>2, <2>3, <2>5, <3>1
    <3> HIDE DEF x, y
    <3>3. a = x + k - frame - 1
      BY <1>2, <1>11, <2>1, <3>2
    <3>4. m + 1 # command
      BY <1>2, <2>5
    <3> QED
      BY <2>1, <2>5, <3>3, <3>4 DEF a, m, k
  <2>6. CASE m # command
    <3>1. y < x /\ (frame = 0 => y + wait <= x)
      <4>1. gap \in Nat /\ gap >= 1 /\ (frame = 0 => gap = wait) /\ Due = buf.ts + gap
        BY <1>2, <1>3 DEF wait
      <4> QED
        BY <1>1, <1>2, <4>1
    <3>2. a < y /\ (frame > 0 /\ m + 1 = command => a + wait < y)
      BY <2>2, <2>3, <2>6
    <3> HIDE DEF x, y
    <3>3. a < x /\ (m + 1 = command => a + wait < x)
      BY <1>2, <1>11, <2>1, <2>4, <3>1, <3>2 DEF wait
    <3> QED
      BY <2>1, <2>6, <3>3 DEF a, m, k
  <2> QED
    BY <2>5, <2>6
<1>14. \A g \in New : Line(g)
  <2> TAKE g \in New
  <2>1. /\ g[1] \in Int /\ g[2][1] = command
        /\ g[2][2] \in frame + 1 .. frame + PerPacket
        /\ g[1] = x + g[2][2] - frame - 1
    BY <1>9
  <2>2. g[2][2] \in 1 .. 4 /\ command \in 0 .. command /\ command + 1 # command
    <3>1. \A k \in frame + 1 .. frame + PerPacket : k \in 1 .. 4
      BY <1>2
    <3>2. command \in 0 .. command /\ command + 1 # command
      BY <1>2
    <3> QED
      BY <2>1, <3>1, <3>2
  <2> QED
    BY <2>1, <2>2
<1>15. \A f \in FrameClocks' : Line(f)
  BY <1>8, <1>13, <1>14
<1>16. Lined'
  <2>1. \A t : Clock(t)' = t * PerPacket
    BY <1>1, RegisterSame, Scale
  <2>2. (Due + 1) * PerPacket = x + PerPacket /\ Clock(buf.ts + 1)' = (Due + 1) * PerPacket
        /\ Clock(buf.ts)' = x
    BY <1>2, <1>6, <2>1
  <2>3. ASSUME NEW f \in FrameClocks'
        PROVE  IF f[2][1] = command'
               THEN f[1] = (Clock(buf.ts + 1) - frame)' + f[2][2] - 1
               ELSE /\ f[1] < Clock(buf.ts)'
                    /\ f[2][1] + 1 = command' => f[1] + wait < Clock(buf.ts)'
    <3> DEFINE a == f[1]
               m == f[2][1]
               k == f[2][2]
    <3>1. /\ a \in Int /\ m \in 0 .. command /\ k \in 1 .. 4
          /\ m = command => a = x + k - frame - 1
          /\ m # command => a < x
          /\ m + 1 = command => a + wait < x
      BY <1>15
    <3> HIDE DEF a, m, k, x, wait
    <3>2. x + k - frame - 1 = ((x + PerPacket) - (frame + PerPacket)) + k - 1
      BY <1>2, <1>11, <3>1
    <3>3. (Clock(buf.ts + 1) - frame)' = (x + PerPacket) - (frame + PerPacket)
      BY <1>4, <2>2
    <3> QED
      BY <1>1, <2>2, <3>1, <3>2, <3>3 DEF a, m, k
  <2>4. MrwGap(command)' = wait
    BY <1>1, RegisterSame DEF MrwGap
  <2> QED
    BY <2>3, <2>4 DEF Lined
<1>17. Apart'
  <2>1. ASSUME NEW f \in FrameClocks', NEW g \in FrameClocks'
        PROVE  /\ f[2][1] = g[2][1] => g[1] - f[1] = g[2][2] - f[2][2]
               /\ f[2][1] + 1 = g[2][1] =>
                    g[1] - f[1] > (IF f[2][1] % 5 = 3 THEN cfg.vref ELSE 10)
    <3>1. CASE f \in FrameClocks /\ g \in FrameClocks
      BY <1>3, <3>1 DEF Apart, Registers
    <3> DEFINE a == f[1]
               m == f[2][1]
               k == f[2][2]
               b == g[1]
               n == g[2][1]
               l == g[2][2]
    <3>2. /\ a \in Int /\ m \in 0 .. command /\ k \in 1 .. 4
          /\ m = command => a = x + k - frame - 1
          /\ m # command => a < x
          /\ m + 1 = command => a + wait < x
      BY <1>15
    <3>3. /\ b \in Int /\ n \in 0 .. command /\ l \in 1 .. 4
          /\ n = command => b = x + l - frame - 1
      BY <1>15
    <3>4. CASE g \in New
      <4>1. n = command /\ b >= x
        BY <1>9, <3>4
      <4> HIDE DEF a, m, k, b, n, l, x, wait
      <4>2. m = n => b - a = l - k
        BY <1>2, <1>11, <3>2, <3>3, <4>1
      <4>3. ASSUME m + 1 = n PROVE b - a > IF m % 5 = 3 THEN cfg.vref ELSE 10
        <5>1. b - a > wait
          BY <1>11, <3>2, <3>3, <4>1, <4>3 DEF wait
        <5>2. (command % 5 = 4) <=> (m % 5 = 3)
          BY <1>2, <3>2, <4>1, <4>3
        <5>3. wait = IF m % 5 = 3 THEN cfg.vref ELSE 10
          BY <1>11, <5>2 DEF wait
        <5> QED
          BY <5>1, <5>3
      <4> QED
        BY <4>2, <4>3 DEF a, m, k, b, n, l
    <3>5. CASE f \in New
      <4>1. m = command
        BY <1>9, <3>5
      <4> HIDE DEF a, m, k, b, n, l, x, wait
      <4>2. m = n => b - a = l - k
        BY <1>2, <1>11, <3>2, <3>3, <4>1
      <4>3. m + 1 # n
        BY <1>2, <3>2, <3>3, <4>1
      <4> QED
        BY <4>2, <4>3 DEF a, m, k, b, n, l
    <3> QED
      BY <1>8, <3>1, <3>4, <3>5
  <2>2. cfg' = cfg
    BY <1>1, RegisterSame
  <2> QED
    BY <2>1, <2>2 DEF Apart, Registers
<1>18. (buf.ts <= IF frame = 0 THEN Latest(command)
                  ELSE Latest(command) + MrwGap(command) + frame - 1)'
  <2> DEFINE latest == Latest(command)
  <2>1. Latest(command)' = latest /\ MrwGap(command)' = wait
    BY <1>1, RegisterSame DEF MrwGap, Latest
  <2>2. latest \in Nat /\ Due <= latest + wait + frame
    BY <1>1, <1>2, LatestNext
  <2> HIDE DEF latest, wait
  <2>3. frame' # 0 /\ Due <= latest + wait + frame' - 1 /\ latest + wait \in Int
    BY <1>2, <1>4, <1>11, <2>2 DEF wait
  <2>4. (Latest(command) + MrwGap(command) + frame - 1)' = latest + wait + frame' - 1
    BY <2>1
  <2> QED
    BY <1>6, <2>3, <2>4
<1>19. (Len(buf.list) = 1 + command * (Frames \div PerPacket + 1)
                         + frame \div PerPacket)'
  <2> DEFINE l == Len(buf.list)
  <2>1. l = 1 + command * (4 \div PerPacket + 1) + frame \div PerPacket
    BY DEF UpdateRegister, Frames
  <2>2. (frame + PerPacket) \div PerPacket = frame \div PerPacket + 1
    BY <1>2
  <2> DEFINE y == command * (4 \div PerPacket + 1)
             z == frame \div PerPacket
  <2>3. y \in Int /\ z \in Int
    BY <1>2
  <2> HIDE DEF l, y, z
  <2>4. l + 1 = 1 + y + (z + 1)
    BY <2>1, <2>3 DEF y, z
  <2> QED
    BY <1>1, <1>4, <1>6, <2>2, <2>4, RegisterSame DEF l, y, z, Frames
<1>20. (gap = IF frame = 0 THEN MrwGap(command) ELSE 1)'
  BY <1>2, <1>4
<1> QED
  BY <1>7, <1>10, <1>16, <1>17, <1>18, <1>19, <1>20 DEF UpdateRegister

(* The packet before the first register.                                   *)
LEMMA RegisterBegin ==
  ASSUME Updates, Typed, MrwBegin
  PROVE  UpdateRegister' /\ Ordered(buf')
<1>1. /\ job' = job /\ job \in Jobs /\ buf \in Buffers /\ job.kind = "mrw"
      /\ buf = NewBuffer(1, 56) /\ frame = 0 /\ command = 0
      /\ frame' = 0 /\ command' = 0 /\ gap' = MrwGap(0)
      /\ buf' = Create(buf, TRUE, 1)
  <2>1. job' = job /\ job \in Jobs /\ buf \in Buffers
    BY State DEF MrwBegin
  <2>2. /\ job.kind = "mrw" /\ buf = NewBuffer(job.last, job.room)
        /\ frame = 0 /\ command = 0
    BY DEF MrwBegin, Typed, PlaceInv, Kinds
  <2>3. job.room = 56 /\ job.last = 1
    BY <2>1, <2>2, JobTyped
  <2> QED
    BY <2>1, <2>2, <2>3 DEF MrwBegin, CreateCke
<1>2. buf.ts = 1 /\ buf.list = <<>> /\ buf.left = 56 /\ HasRoom(buf)
  BY <1>1 DEF NewBuffer, HasRoom
<1>3. buf'.ts = 2 /\ Len(buf'.list) = 1
  <2>1. 2 \in Word
    BY SmallWord
  <2>2. U16(buf.ts + 1) = 2
    BY <1>2, <2>1, Widths, WordNat
  <2>3. buf' = [ts   |-> U16(buf.ts + 1),
                list |-> Append(buf.list, Packet(U16(buf.ts + 1), TRUE)),
                left |-> buf.left - 1]
    BY <1>1, <1>2 DEF Create
  <2>4. Len(Append(<<>>, Packet(2, TRUE))) = 1
    OBVIOUS
  <2>5. buf'.list = Append(<<>>, Packet(2, TRUE)) /\ buf'.ts = 2
    BY <1>2, <2>2, <2>3
  <2> QED
    BY <2>4, <2>5
<1>4. FrameClocks' = {}
  BY <1>1, <1>2, BlankPlays, EmptyPlays
<1>5. Ordered(buf')
  <2>1. Ordered(buf)
    BY <1>1, OrderEmpty, SmallWord
  <2>2. buf.ts + 1 \in Word /\ 1 >= 1 /\ 1 \in Nat /\ TRUE \in BOOLEAN
    BY <1>2, SmallWord
  <2> QED
    BY <1>1, <2>1, <2>2, OrderCreate
<1>6. {f[2] : f \in FrameClocks}' = Sent(command, frame)'
  <2>1. Sent(command, frame)' = Sent(0, 0)
    BY <1>1 DEF Sent
  <2>2. Sent(0, 0) = {}
    <3>1. 0 \in Nat
      OBVIOUS
    <3> QED
      BY <3>1, SentNone
  <2> QED
    BY <1>4, <2>1, <2>2
<1>7. Apart' /\ Lined'
  BY <1>4 DEF Apart, Lined
<1>8. (gap = IF frame = 0 THEN MrwGap(command) ELSE 1)'
  BY <1>1, RegisterSame DEF MrwGap
<1>9. (buf.ts <= IF frame = 0 THEN Latest(command)
                 ELSE Latest(command) + MrwGap(command) + frame - 1)'
  <2>1. Latest(command)' = Latest(0)
    BY <1>1, RegisterSame DEF Latest, Vrefs
  <2>2. Latest(0) = 2
    <3>1. cfg.vref \in Int
      BY <1>1, Scale DEF Word
    <3> QED
      BY <3>1 DEF Latest, Vrefs
  <2>3. 2 <= Latest(command)'
    BY <2>1, <2>2
  <2> QED
    BY <1>1, <1>3, <2>3
<1>10. (Len(buf.list) = 1 + command * (Frames \div PerPacket + 1)
                          + frame \div PerPacket)'
  <2>1. PerPacket \in {1, 2} /\ PerPacket' = PerPacket
    BY <1>1, Scale, RegisterSame DEF Ratio
  <2>2. (Frames \div PerPacket + 1)' \in Int /\ frame' \div PerPacket = 0
    BY <1>1, <2>1 DEF Frames
  <2>3. command' * (Frames \div PerPacket + 1)' = 0
    BY <1>1, <2>2
  <2> QED
    BY <1>3, <2>1, <2>2, <2>3
<1> QED
  BY <1>5, <1>6, <1>7, <1>8, <1>9, <1>10 DEF UpdateRegister

(* The packet after each register, and the next one.                       *)
LEMMA RegisterDone ==
  ASSUME Updates, Typed, UpdateRegister, job.kind = "mrw", MrwNext
  PROVE  /\ pc' = "address" => UpdateRegister'
         /\ pc' = "done" =>
              /\ {f[2] : f \in FrameClocks}' = (0 .. 9) \X (1 .. 4)
              /\ Apart'
         /\ Ordered(buf) => Ordered(buf')
<1>1. /\ job' = job /\ job \in Jobs /\ buf \in Buffers /\ pc = "address"
      /\ frame = 4 /\ frame' = 0 /\ command' = command + 1
      /\ gap' = MrwGap(command') /\ buf' = Create(buf, TRUE, 1)
      /\ Len(buf.list) \in Nat /\ buf.ts \in Nat
  BY State DEF MrwNext, CreateCke, Frames
<1>2. /\ HasRoom(buf) /\ Due = buf.ts + gap /\ Due \in Word
      /\ Due <= Latest(command) + MrwGap(command) + frame
      /\ PerPacket \in {1, 2} /\ command \in 0 .. 9 /\ command \in Nat
  BY <1>1, RegisterParts
<1>3. /\ {f[2] : f \in FrameClocks} = Sent(command, frame)
      /\ Apart /\ Lined /\ gap = 1
  BY <1>1 DEF UpdateRegister
<1>4. buf'.ts = buf.ts + 1 /\ Len(buf'.list) = Len(buf.list) + 1
  <2>1. buf.ts + 1 \in Word /\ 1 \in Nat /\ TRUE \in BOOLEAN
    BY <1>2, <1>3
  <2>2. U16(buf.ts + 1) = buf.ts + 1
    BY <2>1, Widths, WordNat
  <2> DEFINE p == Packet(buf.ts + 1, TRUE)
  <2>3. buf' = [ts |-> buf.ts + 1, list |-> Append(buf.list, p), left |-> buf.left - 1]
    BY <1>1, <1>2, <2>2 DEF Create
  <2>4. p \in PacketSet /\ buf.list \in Seq(PacketSet)
    <3>1. p \in PacketSet
      BY <2>1, BlankTyped
    <3>2. buf.list \in Seq(PacketSet)
      BY State
    <3> QED
      BY <3>1, <3>2
  <2> HIDE DEF p
  <2>5. Len(Append(buf.list, p)) = Len(buf.list) + 1
    BY <2>4, Appended
  <2> QED
    BY <2>3, <2>5
<1>5. FrameClocks' = FrameClocks
  BY <1>1, BlankPlays
<1>6. Ordered(buf) => Ordered(buf')
  <2>1. buf.ts + 1 \in Word /\ 1 >= 1 /\ 1 \in Nat /\ TRUE \in BOOLEAN
    BY <1>2, <1>3
  <2> QED
    BY <1>1, <2>1, OrderCreate
<1>7. Apart'
  BY <1>1, <1>3, <1>5, RegisterSame DEF Apart
<1>8. {f[2] : f \in FrameClocks}' = Sent(command, 4)
  BY <1>1, <1>3, <1>5
<1>9. ASSUME pc' = "done"
      PROVE  {f[2] : f \in FrameClocks}' = (0 .. 9) \X (1 .. 4)
  <2>1. command + 1 = 10
    BY <1>1, <1>9 DEF MrwNext, Go, Ranks, Registers
  <2>2. command = 9
    BY <1>2, <2>1
  <2> QED
    BY <1>2, <1>8, <2>2, SentNone
<1>10. {f[2] : f \in FrameClocks}' = Sent(command, frame)'
  <2>1. Sent(command, frame)' = Sent(command + 1, 0)
    BY <1>1 DEF Sent
  <2> QED
    BY <1>2, <1>8, <2>1, SentNone
<1>11. Lined'
  <2>1. ASSUME NEW f \in FrameClocks
        PROVE  f[2][1] # command + 1 /\ f[1] < (buf.ts + 1) * PerPacket
    <3> DEFINE a == f[1]
               m == f[2][1]
               k == f[2][2]
    <3>1. m \in 0 .. command /\ k \in 1 .. 4
      <4>1. f[2] \in Sent(command, frame)
        BY <1>3
      <4> QED
        BY <4>1 DEF Sent, Frames
    <3>2. a \in Int
      BY <1>1, FrameParts
    <3>3. IF m = command THEN a = Clock(buf.ts + 1) - frame + k - 1
          ELSE a < Clock(buf.ts)
      BY <1>3 DEF Lined
    <3>4. Clock(buf.ts + 1) = (buf.ts + 1) * PerPacket /\ Clock(buf.ts) = buf.ts * PerPacket
      BY <1>1, Scale
    <3>5. (buf.ts + 1) * PerPacket \in Int /\ buf.ts * PerPacket \in Int
          /\ buf.ts * PerPacket < (buf.ts + 1) * PerPacket
      BY <1>1, <1>2
    <3> DEFINE x == (buf.ts + 1) * PerPacket
               y == buf.ts * PerPacket
    <3> HIDE DEF a, m, k, x, y
    <3>6. IF m = command THEN a = x - 4 + k - 1 ELSE a < y
      BY <1>1, <3>3, <3>4 DEF x, y
    <3>7. x \in Int /\ y \in Int /\ y < x
      BY <3>5 DEF x, y
    <3>8. a < x
      BY <3>1, <3>2, <3>6, <3>7
    <3>9. m # command + 1
      BY <1>2, <3>1
    <3> QED
      BY <3>8, <3>9 DEF a, m, x
  <2>2. Clock(buf.ts)' = (buf.ts + 1) * PerPacket
    <3>1. Clock(buf.ts)' = buf'.ts * PerPacket'
      BY <1>1, Scale, RegisterSame DEF Clock, PerPacket
    <3> QED
      BY <1>1, <1>4, <3>1, RegisterSame
  <2>3. ~(frame' > 0)
    BY <1>1
  <2> QED
    BY <1>1, <1>5, <2>1, <2>2, <2>3 DEF Lined
<1>12. (gap = IF frame = 0 THEN MrwGap(command) ELSE 1)'
  BY <1>1, RegisterSame DEF MrwGap
<1>13. (buf.ts <= IF frame = 0 THEN Latest(command)
                  ELSE Latest(command) + MrwGap(command) + frame - 1)'
  <2>1. Latest(command)' = Latest(command + 1)
    BY <1>1, RegisterSame DEF Latest, Vrefs
  <2>2. /\ Latest(command) + MrwGap(command) + 4 <= Latest(command + 1)
        /\ Latest(command) \in Nat /\ Latest(command + 1) \in Nat
    BY <1>1, <1>2, LatestNext
  <2>3. MrwGap(command) \in Nat
    BY <1>1, <1>2, GapParts
  <2> DEFINE latest == Latest(command)
             next == Latest(command + 1)
             wait == MrwGap(command)
  <2> HIDE DEF latest, next, wait
  <2>4. latest + wait + 4 <= next /\ latest \in Nat /\ next \in Nat /\ wait \in Nat
        /\ buf.ts + 1 <= latest + wait + 4
    BY <1>1, <1>2, <1>3, <2>2, <2>3 DEF latest, next, wait
  <2>5. buf.ts + 1 <= next
    BY <1>1, <2>4
  <2> QED
    BY <1>1, <1>4, <2>1, <2>5 DEF next
<1>14. (Len(buf.list) = 1 + command * (Frames \div PerPacket + 1)
                          + frame \div PerPacket)'
  <2> DEFINE l == Len(buf.list)
             n == 4 \div PerPacket + 1
  <2>1. l = 1 + command * n + (n - 1)
    <3>1. 4 \div PerPacket \in Int
      BY <1>2
    <3>2. l = 1 + command * n + 4 \div PerPacket
      BY <1>1 DEF UpdateRegister, Frames
    <3>3. command * n \in Int
      BY <1>2, <3>1
    <3> QED
      BY <3>1, <3>2, <3>3
  <2>2. PerPacket' = PerPacket /\ 0 \div PerPacket = 0 /\ n \in {3, 5}
    BY <1>1, <1>2, RegisterSame
  <2> HIDE DEF l, n
  <2>3. l + 1 = 1 + (command + 1) * n + 0
    <3>1. CASE n = 3
      BY <1>2, <2>1, <3>1
    <3>2. CASE n = 5
      BY <1>2, <2>1, <3>2
    <3> QED
      BY <2>2, <3>1, <3>2
  <2> QED
    BY <1>1, <1>4, <2>2, <2>3 DEF l, n, Frames
<1> QED
  BY <1>6, <1>7, <1>9, <1>10, <1>11, <1>12, <1>13, <1>14 DEF UpdateRegister

LEMMA UpdateNext ==
  ASSUME Updates, Typed, UpdateInv, job.kind = "mrw" => Ordered(buf), [Next]_vars
  PROVE  UpdateInv' /\ (job.kind = "mrw" => Ordered(buf))'
<1>1. CASE UNCHANGED vars
  <2>1. UNCHANGED <<job, buf, pc, gap, frame, command, result>>
    BY <1>1 DEF vars
  <2>2. UNCHANGED <<FrameClocks, PerPacket, cfg>> /\ \A t : Clock(t)' = Clock(t)
    BY <2>1, PlaysSame
  <2>3. /\ \A n : MrwGap(n)' = MrwGap(n) /\ Latest(n)' = Latest(n)
        /\ \A c, n : Sent(c, n)' = Sent(c, n)
    BY <2>1, RegisterSame
  <2>4. UNCHANGED <<Apart, Lined>>
    BY <2>1, <2>2, <2>3 DEF Apart, Lined
  <2>5. UNCHANGED UpdateRegister
    BY <2>1, <2>2, <2>3, <2>4 DEF UpdateRegister
  <2> QED
    BY <2>1, <2>2, <2>4, <2>5 DEF UpdateInv, Finished, Ordered
<1>2. CASE Call
  <2>1. job' \in Jobs /\ buf' = NewBuffer(job'.last, job'.room) /\ pc' \in Kinds
    BY <1>2, JobTyped DEF Call
  <2>2. Ordered(buf')
    BY <2>1, JobTyped, OrderEmpty
  <2> QED
    BY <2>1, <2>2 DEF UpdateInv, Finished, Kinds
<1> SUFFICES ASSUME Next, ~Call, job.kind = "mrw" PROVE UpdateInv' /\ Ordered(buf')
  <2>1. ASSUME Next, ~Call, job.kind # "mrw"
        PROVE  UpdateInv' /\ (job.kind = "mrw" => Ordered(buf))'
    <3>1. job' = job
      BY <2>1, StepsOf
    <3> QED
      BY <2>1, <3>1 DEF UpdateInv, Finished
  <2> QED
    BY <1>1, <1>2, <2>1, StepsOf
<1>3. job' = job /\ Ordered(buf)
  BY StepsOf
<1>4. CASE MrwBegin
  <2>1. pc' = "address"
    BY <1>4 DEF MrwBegin, Go
  <2> QED
    BY <1>4, <2>1, RegisterBegin DEF UpdateInv, Finished
<1>5. CASE AddressPacket
  <2>1. pc = "address" /\ pc' = "address"
    BY <1>5 DEF AddressPacket
  <2>2. UpdateRegister
    BY <2>1 DEF UpdateInv
  <2> QED
    BY <1>3, <1>5, <2>1, <2>2, RegisterNext DEF UpdateInv, Finished
<1>6. CASE MrwNext
  <2>1. pc = "address"
    BY <1>6 DEF MrwNext
  <2>2. UpdateRegister
    BY <2>1 DEF UpdateInv
  <2>3. /\ pc' = "address" => UpdateRegister'
        /\ pc' = "done" =>
             /\ {f[2] : f \in FrameClocks}' = (0 .. 9) \X (1 .. 4)
             /\ Apart'
        /\ Ordered(buf')
    BY <1>3, <1>6, <2>2, RegisterDone
  <2>4. Ranks * Registers - 1 = 9 /\ Frames = 4
    BY DEF Ranks, Registers, Frames
  <2> QED
    BY <2>3, <2>4 DEF UpdateInv, Finished
<1> QED
  BY <1>4, <1>5, <1>6, StepsOf

(* The registers of a switch are complete.  When dram_prepare_mrw_update   *)
(* returns WDDR_SUCCESS, all registers of both ranks have been written, in *)
(* order, each in consecutive clocks, at least ten clocks after the one    *)
(* before and t_vref_ca_long after MR12: provided that the waits fit the   *)
(* 16 bits of a timestamp.                                                 *)
THEOREM UpdateCorrect ==
  ASSUME Updates PROVE Spec => []MrwComplete
<1> DEFINE Sorted == job.kind = "mrw" => Ordered(buf)
<1>1. Init => UpdateInv /\ Sorted
  <2>1. 0 \in Nat
    OBVIOUS
  <2> QED
    BY <2>1, OrderEmpty, SmallWord DEF Init, UpdateInv, Finished
<1>2. Typed /\ UpdateInv /\ Sorted /\ [Next]_vars => UpdateInv' /\ Sorted'
  BY UpdateNext
<1>3. UpdateInv => MrwComplete
  BY DEF UpdateInv, MrwComplete, Apart
<1> HIDE DEF Sorted
<1> QED
  BY <1>1, <1>2, <1>3, AlwaysTyped, PTL DEF Spec

-----------------------------------------------------------------------------
(* The order of the timestamps, whatever the sequence.                     *)
LEMMA EarlyAddress ==
  ASSUME Typed, AddressInv, pc = "address", job.kind # "mrw", job.last < 256
  PROVE  /\ gap = 1 /\ buf.ts + 1 \in Word /\ buf.ts = job.last + Len(buf.list)
         /\ Len(buf.list) <= 4
<1>1. job \in Jobs /\ Len(buf.list) \in Nat /\ job.last \in Nat
  BY State, JobTyped, WordNat
<1>2. /\ gap = 1 /\ buf.ts = job.last + Len(buf.list)
      /\ PerPacket * Len(buf.list) <= 4
  BY DEF AddressInv, Frames
<1>3. PerPacket \in {1, 2}
  BY <1>1, Scale DEF Ratio
<1> DEFINE l == Len(buf.list)
<1> HIDE DEF l
<1>4. l <= 4
  BY <1>1, <1>2, <1>3 DEF l
<1>5. buf.ts + 1 \in Nat /\ buf.ts + 1 < 2000
  BY <1>1, <1>2, <1>4 DEF l
<1> QED
  BY <1>2, <1>4, <1>5, SmallWord DEF l

LEMMA AddressOrder ==
  ASSUME Typed, AddressInv, job.kind # "mrw", job.last < 256, Ordered(buf),
         AddressPacket
  PROVE  Ordered(buf')
<1>1. pc = "address" /\ buf \in Buffers /\ job \in Jobs
  BY State DEF AddressPacket
<1>2. gap = 1 /\ buf.ts + 1 \in Word
  BY <1>1, EarlyAddress
<1>3. CASE ~HasRoom(buf)
  BY <1>3 DEF AddressPacket
<1>4. CASE HasRoom(buf)
  <2> DEFINE q == Newest(Create(buf, TRUE, gap))
             frames == [n \in 1 .. PerPacket |-> <<command, frame + n>>]
             p == [q EXCEPT !.cmd = frames]
  <2>1. buf' = SetNewest(Create(buf, TRUE, gap), p)
    BY <1>4 DEF AddressPacket, CreateCke
  <2>2. Due \in Word /\ Due = buf.ts + 1
    BY <1>2 DEF Due
  <2>3. q = Packet(Due, TRUE) /\ q \in PacketSet
    BY <1>4, <2>2, PacketDue
  <2>4. q.time = Due
    <3> HIDE DEF q
    <3> QED
      BY <2>3 DEF Packet
  <2>5. frames \in Seq(Nat \X Nat)
    <3>1. command \in Nat /\ frame \in Nat /\ PerPacket \in Nat
      <4>1. command \in 0 .. 10 /\ frame \in 0 .. 4
        BY State
      <4>2. PerPacket \in {1, 2}
        BY <1>1, Scale DEF Ratio
      <4> QED
        BY <4>1, <4>2
    <3>2. \A n \in 1 .. PerPacket : <<command, frame + n>> \in Nat \X Nat
      BY <3>1
    <3> QED
      BY <3>1, <3>2
  <2>6. p = [q EXCEPT !.cmd = frames]
    OBVIOUS
  <2> HIDE DEF q, p, frames
  <2>7. p \in PacketSet /\ p.time = q.time
    BY <2>3, <2>5, <2>6 DEF PacketSet
  <2>8. 1 >= 1 /\ 1 \in Nat /\ TRUE \in BOOLEAN
    OBVIOUS
  <2>9. buf' = SetNewest(Create(buf, TRUE, 1), p) /\ p.time = buf.ts + 1
    BY <1>2, <2>1, <2>2, <2>4, <2>7
  <2> QED
    BY <1>1, <1>2, <1>4, <2>7, <2>8, <2>9, OrderPut
<1> QED
  BY <1>3, <1>4

LEMMA BurstOrder ==
  ASSUME Typed, AddressInv, job.kind # "mrw", job.last < 256, Ordered(buf),
         BurstBegin
  PROVE  Ordered(buf')
<1>1. pc = "address" /\ buf \in Buffers
  BY State DEF BurstBegin
<1>2. buf.ts + 1 \in Word /\ 1 >= 1 /\ 1 \in Nat /\ TRUE \in BOOLEAN
  BY <1>1, EarlyAddress
<1>3. buf' = Create(buf, TRUE, 1) \/ buf' = buf
  BY DEF BurstBegin, CreateCke
<1> QED
  BY <1>1, <1>2, <1>3, OrderCreate

LEMMA ClosingOrder ==
  ASSUME Typed, Ordered(buf), Closing, buf.ts < 2^9
  PROVE  Ordered(buf')
<1>1. buf \in Buffers /\ buf.ts \in Nat /\ buf' = Create(buf, TRUE, 1)
  BY State DEF Closing, CreateCke
<1>2. buf.ts < 512
  BY <1>1
<1>3. buf.ts + 1 \in Nat /\ buf.ts + 1 < 2000
  BY <1>1, <1>2
<1>4. buf.ts + 1 \in Word /\ 1 >= 1 /\ 1 \in Nat /\ TRUE \in BOOLEAN
  BY <1>3, SmallWord
<1> QED
  BY <1>1, <1>4, OrderCreate

(* Write levelling: one packet, and the one that ends the sequence.        *)
LEMMA LevelFirst ==
  ASSUME Typed, WrlvlBegin
  PROVE  LevelInv' /\ buf' = buf
<1>1. job \in Jobs /\ job' = job /\ job.kind = "wrlvl" /\ gap' = gap /\ buf' = buf
      /\ buf = NewBuffer(1, job.room) /\ gap = 1 /\ pc' = "burst"
      /\ en' = Group(cfg.ratio, Clock(buf.ts + 1), 4)
  <2>1. /\ job \in Jobs /\ job' = job /\ job.kind = "wrlvl" /\ gap' = gap
        /\ buf' = buf /\ buf = NewBuffer(job.last, job.room) /\ gap = 1
        /\ pc' = "burst" /\ en' = Group(cfg.ratio, Clock(buf.ts + 1), 4)
    BY State DEF WrlvlBegin, Go, Typed, PlaceInv, Kinds
  <2>2. job.last = 1
    BY <2>1, JobTyped
  <2> QED
    BY <2>1, <2>2
<1>2. PerPacket \in {1, 2} /\ Clock(buf.ts + 1) = 2 * PerPacket
  <2>1. buf.ts = 1
    BY <1>1 DEF NewBuffer
  <2> QED
    BY <1>1, <2>1, Scale DEF Ratio
<1>3. en' = [start |-> 2, offset |-> 0, rem |-> 4]
  <2> DEFINE clock == 2 * PerPacket
  <2>1. clock \in Nat /\ clock < 2000 /\ clock \div PerPacket = 2 /\ clock % PerPacket = 0
    BY <1>2
  <2>2. 2^cfg.ratio = PerPacket
    BY DEF PerPacket
  <2> HIDE DEF clock
  <2>3. clock < 65536
    BY <2>1
  <2>4. Group(cfg.ratio, clock, 4) =
          [start |-> clock \div PerPacket, offset |-> clock % PerPacket, rem |-> 4]
    BY <2>1, <2>2, <2>3, GroupAt
  <2> QED
    BY <1>1, <1>2, <2>1, <2>4 DEF clock
<1> QED
  BY <1>1, <1>3 DEF LevelInv

LEMMA LevelPacket ==
  ASSUME Typed, LevelInv, WrlvlPacket, Ordered(buf)
  PROVE  LevelInv' /\ Ordered(buf')
<1>1. /\ job' = job /\ job \in Jobs /\ buf \in Buffers /\ job.kind = "wrlvl"
      /\ pc = "burst" /\ HasRoom(buf) /\ en \in Groups
  BY State DEF WrlvlPacket
<1>2. buf = NewBuffer(1, job.room) /\ gap = 1 /\ en = [start |-> 2, offset |-> 0, rem |-> 4]
  BY <1>1 DEF LevelInv
<1>3. buf.ts = 1 /\ Due = 2 /\ Due \in Word
  <2>1. 2 \in Word
    BY SmallWord
  <2>2. buf.ts = 1
    BY <1>2 DEF NewBuffer
  <2> QED
    BY <1>2, <2>1, <2>2 DEF Due
<1> DEFINE q == Newest(Create(buf, TRUE, gap))
           p == FillEnable(q, en, 4)
<1>4. buf' = SetNewest(Create(buf, TRUE, gap), p)
  BY DEF WrlvlPacket, CreateCke
<1>5. q = Packet(Due, TRUE) /\ q \in PacketSet
  BY <1>1, <1>3, PacketDue
<1>6. p \in PacketSet /\ p.time = Due
  <2>1. q.time = Due
    <3> HIDE DEF q
    <3> QED
      BY <1>5 DEF Packet
  <2>2. 4 \in {1, 2, 4} /\ 0 \in Int
    OBVIOUS
  <2> HIDE DEF q
  <2>3. FillEnable(q, en, 4) \in PacketSet
    BY <1>1, <1>5, <2>2, FillTyped
  <2>4. FillEnable(q, en, 4).time = q.time
    BY <1>5 DEF FillEnable, PacketSet
  <2> QED
    BY <2>1, <2>3, <2>4
<1> HIDE DEF p, q
<1>7. buf'.ts = 2
  BY <1>1, <1>3, <1>4, <1>6, PacketPut
<1>8. Ordered(buf')
  <2>1. 1 >= 1 /\ 1 \in Nat /\ TRUE \in BOOLEAN /\ buf.ts + 1 \in Word
        /\ p.time = buf.ts + 1
    BY <1>3, <1>6
  <2> QED
    BY <1>1, <1>2, <1>4, <1>6, <2>1, OrderPut
<1>9. pc' = "closing"
  <2>1. GroupMask(en, 4) = {0, 1}
    <3>1. Smaller(4 \div 2, 4) = 2
      BY DEF Smaller
    <3>2. GroupMask(en, 4) = {c \in 0 .. 1 : 0 <= c /\ c < 2}
      BY <1>2, <3>1 DEF GroupMask, Cycles
    <3> QED
      BY <3>2
  <2>2. Cardinality({0, 1}) = 2
    <3>1. {0, 1} = 0 .. 1 /\ 0 \in Int /\ 1 \in Int
      OBVIOUS
    <3>2. Cardinality(0 .. 1) = IF 0 > 1 THEN 0 ELSE 1 - 0 + 1
      BY <3>1, FS_Interval
    <3> QED
      BY <3>1, <3>2
  <2>3. en' = Advance(en, 4) /\ pc' = IF en'.rem > 0 THEN "burst" ELSE "closing"
    BY DEF WrlvlPacket, Go
  <2>4. en'.rem = 4 - 2 * 2
    BY <1>2, <2>1, <2>2, <2>3 DEF Advance
  <2> QED
    BY <2>3, <2>4
<1> QED
  BY <1>1, <1>7, <1>8, <1>9 DEF LevelInv

LEMMA LevelNext ==
  ASSUME Typed, LevelInv, Ordered(buf), [Next]_vars
  PROVE  LevelInv' /\ (job.kind = "wrlvl" => Ordered(buf))'
<1>1. CASE UNCHANGED vars
  BY <1>1 DEF vars, LevelInv, Ordered
<1>2. CASE Call
  <2>1. job' \in Jobs /\ buf' = NewBuffer(job'.last, job'.room) /\ pc' \in Kinds
    BY <1>2, JobTyped DEF Call
  <2>2. Ordered(buf')
    BY <2>1, JobTyped, OrderEmpty
  <2> QED
    BY <2>1, <2>2 DEF LevelInv, Kinds
<1> SUFFICES ASSUME Next, ~Call, job.kind = "wrlvl" PROVE LevelInv' /\ Ordered(buf')
  <2>1. ASSUME Next, ~Call, job.kind # "wrlvl"
        PROVE  LevelInv' /\ (job.kind = "wrlvl" => Ordered(buf))'
    <3>1. job' = job
      BY <2>1, StepsOf
    <3> QED
      BY <2>1, <3>1 DEF LevelInv
  <2> QED
    BY <1>1, <1>2, <2>1, StepsOf
<1>3. CASE WrlvlBegin
  BY <1>3, LevelFirst
<1>4. CASE WrlvlPacket
  BY <1>4, LevelPacket
<1>5. CASE OutOfPackets
  BY <1>5 DEF OutOfPackets, Return, LevelInv
<1>6. CASE Closing
  <2>1. pc = "closing" /\ pc' = "done" /\ buf.ts = 2
    BY <1>6 DEF Closing, Return, LevelInv
  <2>2. buf.ts < 2^9
    BY <2>1
  <2> QED
    BY <1>6, <2>1, <2>2, ClosingOrder DEF LevelInv
<1> QED
  BY <1>3, <1>4, <1>5, <1>6, StepsOf

LEMMA BurstsOrder ==
  ASSUME Writes, Reads, Typed, AddressInv, WriteInv, ReadInv, Ordered(buf),
         Next, ~Call, job.kind \in {"wrfifo", "read"}
  PROVE  Ordered(buf')
<1>1. job.kind # "mrw" /\ job.kind # "wrlvl" /\ job.last < 256
  BY State, LastSmall
<1>2. CASE WrfifoBegin \/ ReadBegin \/ OutOfPackets
  BY <1>2 DEF WrfifoBegin, ReadBegin, OutOfPackets
<1>3. CASE AddressPacket
  BY <1>1, <1>3, AddressOrder
<1>4. CASE BurstBegin
  BY <1>1, <1>4, BurstOrder
<1>5. CASE WrfifoPacket
  BY <1>5, WriteNextPacket
<1>6. CASE ReadPacket
  BY <1>6, ReadNextPacket
<1>7. CASE Closing
  <2>1. pc = "closing"
    BY <1>7 DEF Closing
  <2>2. buf.ts < 2^9
    BY <2>1 DEF WriteInv, ReadInv
  <2> QED
    BY <1>7, <2>2, ClosingOrder
<1> QED
  BY <1>2, <1>3, <1>4, <1>5, <1>6, <1>7, StepsOf

LEMMA SequenceInit == Init => SequenceInv
<1> SUFFICES ASSUME Init PROVE SequenceInv
  OBVIOUS
<1>1. pc = "idle" /\ buf = NewBuffer(1, 0) /\ 0 \in Nat /\ 1 \in Word
  BY SmallWord DEF Init
<1>2. AddressInv /\ WriteInv /\ ReadInv /\ LevelInv /\ TrainInv /\ UpdateInv
  BY <1>1 DEF AddressInv, WriteInv, ReadInv, LevelInv, TrainInv, UpdateInv, Finished
<1>3. Ordered(buf)
  BY <1>1, OrderEmpty
<1> QED
  BY <1>2, <1>3 DEF SequenceInv

LEMMA SequenceNext ==
  ASSUME Writes, Reads, Trains, Settles, Updates, Typed, SequenceInv, [Next]_vars
  PROVE  SequenceInv'
<1>1. /\ AddressInv /\ WriteInv /\ ReadInv /\ LevelInv /\ TrainInv /\ UpdateInv
      /\ Ordered(buf)
  BY DEF SequenceInv
<1>2. AddressInv'
  BY <1>1, AddressNext
<1>3. WriteInv'
  BY <1>1, WriteNext
<1>4. ReadInv'
  BY <1>1, ReadNext
<1>5. LevelInv' /\ (job.kind = "wrlvl" => Ordered(buf))'
  BY <1>1, LevelNext
<1>6. TrainInv' /\ (job.kind = "cbt" => Ordered(buf))'
  BY <1>1, TrainNext
<1>7. UpdateInv' /\ (job.kind = "mrw" => Ordered(buf))'
  BY <1>1, UpdateNext
<1>8. Ordered(buf')
  <2>1. CASE UNCHANGED vars
    BY <1>1, <2>1 DEF vars
  <2>2. CASE Call
    BY <2>2, JobTyped, OrderEmpty DEF Call
  <2>3. CASE Next /\ ~Call
    <3>1. job' = job /\ job \in Jobs
      BY <2>3, StepsOf, State
    <3>2. job.kind \in Kinds
      BY <3>1, JobTyped
    <3>3. CASE job.kind \in {"wrfifo", "read"}
      BY <1>1, <2>3, <3>3, BurstsOrder
    <3> QED
      BY <1>5, <1>6, <1>7, <3>1, <3>2, <3>3 DEF Kinds
  <2> QED
    BY <2>1, <2>2, <2>3
<1> QED
  BY <1>2, <1>3, <1>4, <1>5, <1>6, <1>7, <1>8 DEF SequenceInv

(* The timestamps advance.  In the buffer of every sequence, at every      *)
(* moment of every call, each packet is later than the one before it, so   *)
(* the FIFO plays them all: provided that the sums the code keeps in 8 and *)
(* 16 bits fit, for no truncated wait is then 0 and no timestamp wraps.    *)
THEOREM OrderCorrect ==
  ASSUME Writes, Reads, Trains, Settles, Updates
  PROVE  Spec => []TimesAdvance
<1>1. Init => SequenceInv
  BY SequenceInit
<1>2. Typed /\ SequenceInv /\ [Next]_vars => SequenceInv'
  BY SequenceNext
<1>3. SequenceInv => TimesAdvance
  BY DEF SequenceInv, Ordered, TimesAdvance
<1> QED
  BY <1>1, <1>2, <1>3, AlwaysTyped, PTL DEF Spec

-----------------------------------------------------------------------------
(* Enough room.                                                            *)
LEMMA FitParts ==
  ASSUME Fits, job \in Jobs
  PROVE  cfg.wrEn <= 35 /\ cfg.sh <= 49
<1>1. cfg \in Timings
  BY Scale
<1> QED
  BY <1>1 DEF Fits, RoomFits

LEMMA RoomOf ==
  ASSUME Typed, pc # "idle"
  PROVE  /\ Len(buf.list) \in Nat /\ buf.left \in Nat
         /\ Len(buf.list) + buf.left = job.room
BY State DEF Typed, BufferOK

(* A burst still has a packet to go only a few packets after its first     *)
(* clock, at clock due of a packet; len counts the packets so far.         *)
LEMMA FewLeft ==
  ASSUME NEW pp \in {1, 2}, NEW first \in Nat, NEW span \in 0 .. 51,
         NEW due \in Nat, due >= first \div pp, due * pp < first + span,
         NEW len \in Nat, len <= 5 + due - first \div pp
  PROVE  len <= 55
<1>1. CASE pp = 1
  BY <1>1
<1>2. CASE pp = 2
  BY <1>2
<1> QED
  BY <1>1, <1>2

LEMMA WriteRoom ==
  ASSUME Writes, Fits, Typed, WriteBurst, job.kind = "wrfifo"
  PROVE  Len(buf.list) <= 55
<1>1. job \in Jobs /\ Len(buf.list) \in Nat /\ Due \in Nat
  BY State DEF Due
<1>2. PerPacket \in {1, 2} /\ PerPacket \in Ratio /\ cfg.wrEn <= 35
  BY <1>1, Scale, FitParts DEF Ratio
<1>3. /\ WrFirst \in Nat /\ WrFirst + cfg.wrEn \in Nat /\ cfg.wrEn \in Nat
      /\ EnCount \in Nat /\ DaCount \in Nat /\ EnCount >= 2 /\ DaCount >= 2
      /\ EnCount <= 18 /\ DaCount <= 16
  BY <1>1, WriteParts
<1> DEFINE first == WrFirst
           second == WrFirst + cfg.wrEn
<1>4. Due * PerPacket < first + EnCount \/ Due * PerPacket < second + DaCount
  <2>1. /\ StandsAt(en, PerPacket, first, EnCount, Due)
        /\ StandsAt(dat, PerPacket, second, DaCount, Due)
        /\ en.rem > 0 \/ dat.rem > 0
    BY DEF WriteBurst, Stands
  <2>2. EnCount > 0 /\ DaCount > 0
    BY <1>3
  <2>3. first \in Nat /\ second \in Nat
    BY <1>3
  <2> HIDE DEF first, second
  <2>4. en.rem > 0 => Due * PerPacket < first + EnCount
    BY <1>1, <1>2, <1>3, <2>1, <2>2, <2>3, StandsLast
  <2>5. dat.rem > 0 => Due * PerPacket < second + DaCount
    BY <1>1, <1>2, <1>3, <2>1, <2>2, <2>3, StandsLast
  <2> QED
    BY <2>1, <2>4, <2>5
<1>5. PICK span \in 0 .. 51 : Due * PerPacket < first + span
  <2> DEFINE x == Due * PerPacket
  <2> HIDE DEF x
  <2>1. x \in Int /\ (x < WrFirst + EnCount \/ x < WrFirst + cfg.wrEn + DaCount)
    BY <1>1, <1>2, <1>4 DEF x
  <2>2. x < WrFirst + 51
    BY <1>2, <1>3, <2>1
  <2> QED
    BY <2>2 DEF x
<1>6. /\ Due >= first \div PerPacket
      /\ Len(buf.list) <= 5 + Due - first \div PerPacket
  BY DEF WriteBurst
<1> QED
  BY <1>1, <1>2, <1>3, <1>5, <1>6, FewLeft

LEMMA ReadRoom ==
  ASSUME Reads, Typed, ReadBurst, job.kind = "read"
  PROVE  Len(buf.list) <= 55
<1>1. job \in Jobs /\ Len(buf.list) \in Nat /\ Due \in Nat
  BY State DEF Due
<1>2. PerPacket \in {1, 2} /\ PerPacket \in Ratio
  BY <1>1, Scale DEF Ratio
<1>3. RdFirst \in Nat /\ DaCount \in Nat /\ DaCount > 0 /\ DaCount \in 0 .. 51
  <2>1. RdFirst \in Nat /\ DaCount \in Nat /\ DaCount >= 2 /\ DaCount <= 16
    BY <1>1, ReadParts
  <2> QED
    BY <2>1
<1>4. Due * PerPacket < RdFirst + DaCount
  <2>1. StandsAt(en, PerPacket, RdFirst, DaCount, Due) /\ en.rem > 0
    BY DEF ReadBurst, Stands
  <2> QED
    BY <1>1, <1>2, <1>3, <2>1, StandsLast
<1>5. /\ Due >= RdFirst \div PerPacket
      /\ Len(buf.list) <= 5 + Due - RdFirst \div PerPacket
  BY DEF ReadBurst
<1> QED
  BY <1>1, <1>2, <1>3, <1>4, <1>5, FewLeft

LEMMA SomeLeft ==
  ASSUME NEW pp, pp = 1 \/ pp = 2, NEW sh \in Nat, sh <= 49, NEW l \in Nat,
         2 * RemainingAt(pp, 3 * pp, sh + 2 * pp + 2, l + 2) >= 2 * pp
  PROVE  l <= 55
<1>1. CASE pp = 1
  <2>1. (l + 2) * 1 <= 3 * 1 \/ (l + 2) * 1 < 3 * 1 + (sh + 2 * 1 + 2)
    BY <1>1 DEF RemainingAt
  <2> QED
    BY <2>1
<1>2. CASE pp = 2
  <2>1. (l + 2) * 2 <= 3 * 2 \/ (l + 2) * 2 < 3 * 2 + (sh + 2 * 2 + 2)
    BY <1>2 DEF RemainingAt
  <2> QED
    BY <2>1
<1> QED
  BY <1>1, <1>2

LEMMA TrainRoom ==
  ASSUME Fits, Typed, TrainData, job.kind = "cbt"
  PROVE  Len(buf.list) <= 55
<1>1. job \in Jobs /\ Len(buf.list) \in Nat /\ Due \in Nat /\ buf.ts \in Nat
  BY State DEF Due
<1>2. /\ PerPacket = 1 \/ PerPacket = 2
      /\ cfg.sh \in Nat /\ cfg.sh <= 49
      /\ CbFirst = 3 * PerPacket /\ CbCount = cfg.sh + 2 * PerPacket + 2
  BY <1>1, TrainParts, FitParts
<1>3. Due = Len(buf.list) + 2
  BY <1>1 DEF TrainData, Due
<1>4. dat.rem = 2 * RemainingAt(PerPacket, CbFirst, CbCount, Due)
      /\ dat.rem >= 2 * PerPacket
  BY DEF TrainData, Stands, StandsAt
<1>5. 2 * RemainingAt(PerPacket, 3 * PerPacket, cfg.sh + 2 * PerPacket + 2,
                      Len(buf.list) + 2) >= 2 * PerPacket
  BY <1>2, <1>3, <1>4
<1> QED
  BY <1>1, <1>2, <1>5, SomeLeft

(* One packet holds the last data, and one more is left for the command.   *)
LEMMA HoldRoom ==
  ASSUME Fits, Typed, TrainHold, job.kind = "cbt"
  PROVE  Len(buf.list) <= 54
<1>1. job \in Jobs /\ Len(buf.list) \in Nat /\ buf.ts \in Nat
  BY State
<1>2. /\ PerPacket = 1 \/ PerPacket = 2
      /\ cfg.sh \in Nat /\ cfg.sh <= 49
      /\ CbFirst = 3 * PerPacket /\ CbCount = cfg.sh + 2 * PerPacket + 2
      /\ Clock(buf.ts) = buf.ts * PerPacket
  BY <1>1, TrainParts, FitParts
<1>3. Len(buf.list) = buf.ts - 1 /\ Clock(buf.ts) < CbFirst + CbCount
  BY DEF TrainHold
<1> DEFINE t == buf.ts
<1> HIDE DEF t
<1>4. t * PerPacket < 3 * PerPacket + (cfg.sh + 2 * PerPacket + 2) /\ t \in Nat
  BY <1>1, <1>2, <1>3 DEF t
<1>5. CASE PerPacket = 1
  <2>1. t * 1 < 3 * 1 + (cfg.sh + 2 * 1 + 2)
    BY <1>4, <1>5
  <2>2. t <= 55
    BY <1>2, <1>4, <2>1
  <2> QED
    BY <1>1, <1>3, <2>2 DEF t
<1>6. CASE PerPacket = 2
  <2>1. t * 2 < 3 * 2 + (cfg.sh + 2 * 2 + 2)
    BY <1>4, <1>6
  <2>2. t <= 55
    BY <1>2, <1>4, <2>1
  <2> QED
    BY <1>1, <1>3, <2>2 DEF t
<1> QED
  BY <1>2, <1>5, <1>6

LEMMA RoomLeft ==
  ASSUME Writes, Reads, Fits, Typed, SequenceInv, RoomInv, job.room >= 56,
         pc \in {"burst", "cbt_data", "cbt_command"}
  PROVE  buf.left > 0
<1>1. /\ Len(buf.list) \in Nat /\ buf.left \in Nat
      /\ Len(buf.list) + buf.left = job.room /\ job \in Jobs /\ job.room \in Nat
  BY RoomOf, State, JobTyped
<1>2. ~Short
  BY <1>1 DEF Short
<1>3. WriteInv /\ ReadInv /\ TrainInv /\ LevelInv
  BY DEF SequenceInv
<1>4. CASE pc = "burst"
  <2>1. job.kind \in {"wrfifo", "read", "wrlvl"}
    BY <1>4 DEF Typed, PlaceInv, Bursting
  <2>2. CASE job.kind = "wrfifo"
    <3>1. WriteBurst
      BY <1>2, <1>3, <1>4, <2>2 DEF WriteInv
    <3>2. Len(buf.list) <= 55
      BY <2>2, <3>1, WriteRoom
    <3> QED
      BY <1>1, <3>2
  <2>3. CASE job.kind = "read"
    <3>1. ReadBurst
      BY <1>2, <1>3, <1>4, <2>3 DEF ReadInv
    <3>2. Len(buf.list) <= 55
      BY <2>3, <3>1, ReadRoom
    <3> QED
      BY <1>1, <3>2
  <2>4. CASE job.kind = "wrlvl"
    <3>1. buf = NewBuffer(1, job.room)
      BY <1>3, <1>4, <2>4 DEF LevelInv
    <3>2. buf.left = job.room
      BY <3>1 DEF NewBuffer
    <3> QED
      BY <1>1, <3>2
  <2> QED
    BY <2>1, <2>2, <2>3, <2>4
<1>5. CASE pc = "cbt_data"
  <2>1. TrainData /\ job.kind = "cbt"
    BY <1>2, <1>3, <1>5 DEF TrainInv, Typed, PlaceInv, Training
  <2>2. Len(buf.list) <= 55
    BY <2>1, TrainRoom
  <2> QED
    BY <1>1, <2>2
<1>6. CASE pc = "cbt_command"
  BY <1>6 DEF RoomInv, MrwRoom
<1> QED
  BY <1>4, <1>5, <1>6

LEMMA RoomNext ==
  ASSUME Writes, Reads, Fits, Typed, SequenceInv, RoomInv, [Next]_vars
  PROVE  RoomInv'
<1>1. CASE UNCHANGED vars
  BY <1>1 DEF vars, RoomInv
<1>2. CASE Call
  <2>1. pc' \in Kinds
    BY <1>2, JobTyped DEF Call
  <2> QED
    BY <2>1 DEF RoomInv, Kinds
<1> SUFFICES ASSUME Next, ~Call, job.room >= 56 PROVE RoomInv'
  <2>1. ASSUME Next, ~Call, ~(job.room >= 56) PROVE RoomInv'
    BY <2>1, StepsOf DEF RoomInv, MrwRoom
  <2> QED
    BY <1>1, <1>2, <2>1
<1>3. job' = job /\ job \in Jobs
  BY StepsOf, State
<1>4. CASE CbtHold
  <2>1. pc = "cbt_hold" /\ pc' = "cbt_command"
    BY <1>4 DEF CbtHold, Go
  <2>2. TrainHold /\ job.kind = "cbt"
    BY <2>1 DEF SequenceInv, TrainInv, Typed, PlaceInv, Training
  <2>3. /\ Len(buf.list) <= 54 /\ Len(buf.list) \in Nat /\ buf.left \in Nat
        /\ Len(buf.list) + buf.left = job.room /\ job.room \in Nat
    BY <1>3, <2>1, <2>2, HoldRoom, RoomOf, JobTyped
  <2> DEFINE wait == U8((cfg.sh + cfg.wrEn) \div PerPacket + 1)
  <2>4. buf' = Create(buf, FALSE, wait)
    BY <1>4 DEF CbtHold, CreateCk
  <2> HIDE DEF wait
  <2>5. buf.left >= 2
    BY <2>3
  <2>6. HasRoom(buf)
    BY <2>3, <2>5 DEF HasRoom
  <2>7. buf'.left = buf.left - 1
    BY <2>4, <2>6 DEF Create
  <2>8. buf'.left > 0
    BY <2>3, <2>5, <2>7
  <2> QED
    BY <2>1, <2>8 DEF RoomInv
<1>5. CASE OutOfPackets
  <2>1. pc \in {"burst", "cbt_data", "cbt_command"} /\ ~(buf.left > 0)
    BY <1>5 DEF OutOfPackets, HasRoom
  <2> QED
    BY <2>1, RoomLeft
<1>6. CASE Closing \/ CbtCommand \/ MrwNext
  BY <1>6 DEF Closing, CbtCommand, MrwNext, Return, Go, RoomInv
<1>7. CASE WrfifoBegin \/ ReadBegin \/ BurstBegin \/ WrlvlBegin \/ CbtBegin
           \/ MrwBegin \/ AddressPacket
  BY <1>7 DEF WrfifoBegin, ReadBegin, BurstBegin, WrlvlBegin, CbtBegin, MrwBegin,
              AddressPacket, Go, RoomInv
<1>8. CASE WrfifoPacket
  BY <1>8 DEF WrfifoPacket, Go, RoomInv
<1>9. CASE ReadPacket \/ WrlvlPacket
  BY <1>9 DEF ReadPacket, WrlvlPacket, Go, RoomInv
<1>10. CASE CbtPacket
  BY <1>10 DEF CbtPacket, Go, RoomInv
<1> QED
  BY <1>4, <1>5, <1>6, <1>7, <1>8, <1>9, <1>10 DEF Next

(* A buffer with the 56 packets of a frequency switch is enough for every  *)
(* sequence: each returns WDDR_SUCCESS, none asks for a packet it cannot   *)
(* have.  The groups of a burst, 16 clocks of data after at most 35 of     *)
(* wrdata_en latency, and of training, t_sh_train of at most 49, are all   *)
(* that can lengthen a sequence.                                           *)
THEOREM RoomCorrect ==
  ASSUME Writes, Reads, Trains, Settles, Updates, Fits
  PROVE  Spec => []RoomSuffices
<1>1. Init => SequenceInv /\ RoomInv
  <2>1. Init => RoomInv
    BY DEF Init, RoomInv
  <2> QED
    BY <2>1, SequenceInit
<1>2. Typed /\ SequenceInv /\ RoomInv /\ [Next]_vars => SequenceInv' /\ RoomInv'
  BY SequenceNext, RoomNext
<1>3. RoomInv => RoomSuffices
  BY DEF RoomInv, RoomSuffices
<1> QED
  BY <1>1, <1>2, <1>3, AlwaysTyped, PTL DEF Spec
=============================================================================
