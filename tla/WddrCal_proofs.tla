--------------------------- MODULE WddrCal_proofs ---------------------------
(***************************************************************************)
(* The calibrations of the WDDR device.  The ZQ calibration finds the trip *)
(* points, for every range of codes and every set of trip points; that of  *)
(* the sense amplifiers saves codes inside the bands of noise, for every   *)
(* range of codes and every set of bands.                                  *)
(***************************************************************************)
EXTENDS ZqCal, SenseAmp, TLAPS

-----------------------------------------------------------------------------
(* The ZQ calibration.  ZqInv follows the two searches of a voltage and    *)
(* the pairs saved so far, and every step of a calibration keeps it.       *)

Trip(d)  == cal.trip[cal.voh][d]
Busy     == cal.pc \notin {"idle", "ret"}
Over     == cal.pc \in {"off", "ret"}
InRange(v, d) == cal.trip[v][d] \in 1..(MaxCode(d) - 1)

(* No code below the one that is tried trips.                              *)
Searching ==
  cal.pc \in Drives =>
    /\ zq.voh = cal.voh
    /\ cal.code \in 0..MaxCode(cal.pc) /\ cal.code <= Trip(cal.pc)

(* What was found is the trip point; what was saved stays.                 *)
Found ==
  /\ cal.pc \in {"p", "saveN"} => cal.n = Trip("n")
  /\ cal.pc \in {"saveN", "saveP"} => cal.p = Trip("p")
  /\ cal.pc = "saveP" => zqCode[cal.voh].n = Trip("n")
  /\ cal.pc \notin {"idle"} /\ cal.voh = "0P6" => zqCode["0P5"] = cal.trip["0P5"]

Result ==
  /\ Busy /\ ~Over => cal.ok
  /\ Over /\ cal.ok => \A v \in Vohs : zqCode[v] = cal.trip[v]
  /\ Over /\ ~cal.ok => \E v \in Vohs, d \in Drives : ~InRange(v, d)

ZqInv ==
  /\ ZqTypeOK
  /\ zq.en <=> Busy
  /\ cal.pc # "idle" => cal.trip \in TripPoints
  /\ Searching /\ Found /\ Result

LEMMA CodesTyped ==
  /\ NMax \in Nat /\ NMax > 0 /\ PMax \in Nat /\ PMax > 0
  /\ 0 \in 0..(NMax + PMax) /\ 0 \in 0..NMax /\ 0 \in 0..PMax
  /\ MaxCode("n") = NMax /\ MaxCode("p") = PMax
  /\ \A d \in Drives : /\ MaxCode(d) \in Nat /\ MaxCode(d) > 0
                        /\ MaxCode(d) <= NMax + PMax
  /\ "n" \in Drives /\ "p" \in Drives /\ "0P5" \in Vohs /\ "0P6" \in Vohs
BY ZqAssumption DEF ZqAssumption, MaxCode, Drives, Vohs

LEMMA TripTyped ==
  ASSUME NEW t \in TripPoints
  PROVE  t \in [Vohs -> [n : Nat, p : Nat]]
BY ZqAssumption DEF ZqAssumption

LEMMA BegunTyped ==
  ASSUME NEW t \in TripPoints
  PROVE  /\ Begun(t).pc = "voh" /\ Begun(t).voh = "0P5" /\ Begun(t).ok
         /\ Begun(t).trip = t /\ Begun(t).code = 0
         /\ Begun(t) \in [pc : CalSteps, voh : Vohs, code : 0..(NMax + PMax),
               n : 0..NMax, p : 0..PMax, ok : BOOLEAN,
               trip : TripPoints \cup {NoTrip}]
BY CodesTyped DEF Begun, NoCal, CalSteps

-----------------------------------------------------------------------------
LEMMA ZqInitInv == ZqInit => ZqInv
<1> SUFFICES ASSUME ZqInit PROVE ZqInv
  OBVIOUS
<1>1. cal = NoCal /\ cal.pc = "idle" /\ ~zq.en
  BY DEF ZqInit, NoCal
<1>2. ZqTypeOK
  BY <1>1, CodesTyped, ZqAssumption
  DEF ZqInit, ZqTypeOK, NoCal, CalSteps, Pairs, ZqAssumption
<1> QED
  BY <1>1, <1>2 DEF ZqInv, Busy, Over, Searching, Found, Result, Drives

LEMMA ZqStartInv ==
  ASSUME ZqInv, ZqStart
  PROVE  ZqInv'
<1>1. PICK t \in TripPoints : cal' = Begun(t)
  BY DEF ZqStart
<1>2. zq' = [zq EXCEPT !.en = TRUE] /\ zqCode' = zqCode
  BY DEF ZqStart
<1>3. ZqTypeOK'
  BY <1>1, <1>2, BegunTyped DEF ZqInv, ZqTypeOK
<1>4. cal'.pc = "voh" /\ cal'.voh = "0P5" /\ cal'.ok /\ cal'.trip \in TripPoints
  BY <1>1, BegunTyped
<1>5. zq'.en
  BY <1>2 DEF ZqInv, ZqTypeOK
<1> QED
  BY <1>3, <1>4, <1>5 DEF ZqInv, Busy, Over, Searching, Found, Result, Drives

LEMMA ZqVoltageInv ==
  ASSUME ZqInv, ZqVoltage
  PROVE  ZqInv'
<1>1. /\ cal.pc = "voh" /\ zq' = [zq EXCEPT !.voh = cal.voh, !.drive = "n"]
      /\ cal' = [cal EXCEPT !.pc = "n", !.code = 0] /\ zqCode' = zqCode
  BY DEF ZqVoltage
<1>2. /\ cal'.pc = "n" /\ cal'.code = 0 /\ cal'.voh = cal.voh /\ cal'.ok = cal.ok
      /\ cal'.trip = cal.trip /\ zq'.voh = cal.voh /\ zq'.en = zq.en
  BY <1>1 DEF ZqInv, ZqTypeOK
<1>3. ZqTypeOK'
  BY <1>1, CodesTyped DEF ZqInv, ZqTypeOK, CalSteps
<1>4. cal.trip \in [Vohs -> [n : Nat, p : Nat]] /\ cal.voh \in Vohs
  BY <1>1, TripTyped DEF ZqInv, ZqTypeOK
<1>5. 0 \in 0..MaxCode("n") /\ 0 <= cal.trip[cal.voh]["n"]
  BY <1>4, CodesTyped
<1> QED
  BY <1>1, <1>2, <1>3, <1>5
  DEF ZqInv, Busy, Over, Searching, Found, Result, Drives, Trip

-----------------------------------------------------------------------------
(* A turn of a search.                                                     *)

LEMMA ProbeOutput ==
  ASSUME ZqInv, NEW d \in Drives, cal.pc = d,
         NEW out \in ZqOutputs(d, cal.code)
  PROVE  /\ out = (cal.code < Trip(d))
         /\ Trip(d) \in Nat /\ cal.code \in 0..MaxCode(d) /\ cal.code <= Trip(d)
         /\ MaxCode(d) \in Nat /\ cal.voh \in Vohs
<1>1. zq.en /\ zq.voh = cal.voh /\ cal.trip \in TripPoints /\ cal.voh \in Vohs
  BY DEF ZqInv, Busy, Searching, Drives, ZqTypeOK
<1>2. cal.trip[cal.voh] \in [n : Nat, p : Nat]
  BY <1>1, TripTyped
<1>3. Trip(d) \in Nat
  BY <1>2 DEF Trip, Drives
<1> QED
  BY <1>1, <1>3, CodesTyped DEF ZqOutputs, ZqInv, Searching, Trip, Drives, MaxCode

LEMMA WriteTyped ==
  ASSUME ZqInv, NEW d \in Drives, cal.code \in 0..MaxCode(d)
  PROVE  /\ CodeWritten(d).voh = zq.voh /\ CodeWritten(d).en = zq.en
         /\ CodeWritten(d) \in [en : BOOLEAN, drive : Drives, voh : Vohs,
                                n : 0..NMax, p : 0..PMax]
BY CodesTyped DEF CodeWritten, ZqInv, ZqTypeOK, Drives

(* The search goes on.                                                     *)
LEMMA ProbeGoesOn ==
  ASSUME ZqInv, NEW d \in Drives, cal.pc = d, cal.code < Trip(d),
         cal.code < MaxCode(d), Trip(d) \in Nat, cal.code \in 0..MaxCode(d),
         zq' = CodeWritten(d), zqCode' = zqCode,
         cal' = [cal EXCEPT !.code = @ + 1]
  PROVE  ZqInv'
<1>1. /\ cal'.pc = d /\ cal'.code = cal.code + 1 /\ cal'.voh = cal.voh
      /\ cal'.ok = cal.ok /\ cal'.trip = cal.trip /\ cal'.n = cal.n
      /\ zq'.voh = zq.voh /\ zq'.en = zq.en
  BY WriteTyped DEF ZqInv, ZqTypeOK, Drives
<1>2. cal.code + 1 \in 0..MaxCode(d) /\ cal.code + 1 <= Trip(d)
  BY CodesTyped
<1>3. ZqTypeOK'
  <2>1. cal'.code \in 0..(NMax + PMax)
    BY <1>1, <1>2, CodesTyped
  <2>2. zq' \in [en : BOOLEAN, drive : Drives, voh : Vohs, n : 0..NMax, p : 0..PMax]
    BY WriteTyped
  <2> QED
    BY <2>1, <2>2 DEF ZqInv, ZqTypeOK
<1> QED
  BY <1>1, <1>2, <1>3 DEF ZqInv, Busy, Over, Searching, Found, Result, Drives, Trip

(* The search ends at the trip point, or out of codes.                     *)
LEMMA ProbeEnds ==
  ASSUME ZqInv, NEW d \in Drives, cal.pc = d,
         Trip(d) \in Nat, cal.code \in 0..MaxCode(d), cal.code <= Trip(d),
         cal.voh \in Vohs, ~(cal.code < Trip(d) /\ cal.code < MaxCode(d)),
         zq' = CodeWritten(d), zqCode' = zqCode,
         cal' = Judged(d, cal.code)
  PROVE  ZqInv'
<1>1. zq'.voh = zq.voh /\ zq'.en = zq.en /\ zq.en /\ cal.ok
  BY WriteTyped DEF ZqInv, ZqTypeOK, Drives, Busy, Over, Result
<1>2. zq' \in [en : BOOLEAN, drive : Drives, voh : Vohs, n : 0..NMax, p : 0..PMax]
  BY WriteTyped
<1>3. CASE AtEnd(d, cal.code)
  <2>1. cal' = [cal EXCEPT !.pc = "off", !.ok = FALSE]
    BY <1>3 DEF Judged
  <2>2. /\ cal'.pc = "off" /\ ~cal'.ok /\ cal'.voh = cal.voh
        /\ cal'.trip = cal.trip
    BY <2>1 DEF ZqInv, ZqTypeOK
  <2>3. ~(Trip(d) \in 1..(MaxCode(d) - 1))
    BY <1>3, CodesTyped DEF AtEnd
  <2>4. ~InRange(cal.voh, d)
    BY <2>3 DEF InRange, Trip
  <2>5. (\E v \in Vohs, e \in Drives : ~InRange(v, e))'
    BY <2>2, <2>4 DEF InRange
  <2>6. ZqTypeOK'
    BY <1>2, <2>1 DEF ZqInv, ZqTypeOK, CalSteps
  <2> QED
    BY <1>1, <2>2, <2>5, <2>6
    DEF ZqInv, Busy, Over, Searching, Found, Result, Drives
<1>4. CASE ~AtEnd(d, cal.code)
  <2>1. cal.code = Trip(d)
    BY <1>4, CodesTyped DEF AtEnd
  <2>2. CASE d = "n"
    <3>1. cal' = [cal EXCEPT !.pc = "p", !.n = cal.code, !.code = 0]
      BY <1>4, <2>2 DEF Judged
    <3>2. /\ cal'.pc = "p" /\ cal'.n = cal.code /\ cal'.code = 0 /\ cal'.ok
          /\ cal'.voh = cal.voh /\ cal'.trip = cal.trip
      BY <1>1, <3>1 DEF ZqInv, ZqTypeOK
    <3>3. ZqTypeOK'
      BY <1>2, <2>2, <3>1, CodesTyped DEF ZqInv, ZqTypeOK, CalSteps
    <3>4. cal.trip[cal.voh] \in [n : Nat, p : Nat]
      BY TripTyped DEF ZqInv, Drives
    <3>5. zq.voh = cal.voh /\ 0 \in 0..MaxCode("p") /\ 0 <= cal.trip[cal.voh]["p"]
      BY <3>4, CodesTyped DEF ZqInv, Searching
    <3> QED
      BY <1>1, <2>1, <2>2, <3>2, <3>3, <3>5
      DEF ZqInv, Busy, Over, Searching, Found, Result, Drives, Trip
  <2>3. CASE d = "p"
    <3>1. cal' = [cal EXCEPT !.pc = "saveN", !.p = cal.code]
      BY <1>4, <2>3 DEF Judged
    <3>2. /\ cal'.pc = "saveN" /\ cal'.p = cal.code /\ cal'.n = cal.n /\ cal'.ok
          /\ cal'.voh = cal.voh /\ cal'.trip = cal.trip
      BY <1>1, <3>1 DEF ZqInv, ZqTypeOK
    <3>3. ZqTypeOK'
      BY <1>2, <2>3, <3>1, CodesTyped DEF ZqInv, ZqTypeOK, CalSteps
    <3> QED
      BY <1>1, <2>1, <2>3, <3>2, <3>3
      DEF ZqInv, Busy, Over, Searching, Found, Result, Drives, Trip
  <2> QED
    BY <2>2, <2>3 DEF Drives
<1> QED
  BY <1>3, <1>4

LEMMA ZqProbeInv ==
  ASSUME ZqInv, NEW d \in Drives, ZqProbe(d)
  PROVE  ZqInv'
<1>1. PICK out \in ZqOutputs(d, cal.code) : cal' = Searched(d, out)
  BY DEF ZqProbe
<1>2. cal.pc = d /\ zq' = CodeWritten(d) /\ zqCode' = zqCode
  BY DEF ZqProbe
<1>3. /\ out = (cal.code < Trip(d))
      /\ Trip(d) \in Nat /\ cal.code \in 0..MaxCode(d) /\ cal.code <= Trip(d)
      /\ cal.voh \in Vohs
  BY <1>1, <1>2, ProbeOutput
<1>4. CASE cal.code < Trip(d) /\ cal.code < MaxCode(d)
  <2>1. cal' = [cal EXCEPT !.code = @ + 1]
    BY <1>1, <1>3, <1>4 DEF Searched
  <2> QED
    BY <1>2, <1>3, <1>4, <2>1, ProbeGoesOn
<1>5. CASE ~(cal.code < Trip(d) /\ cal.code < MaxCode(d))
  <2>1. cal' = Judged(d, cal.code)
    BY <1>1, <1>3, <1>5 DEF Searched
  <2> QED
    BY <1>2, <1>3, <1>5, <2>1, ProbeEnds
<1> QED
  BY <1>4, <1>5

-----------------------------------------------------------------------------
(* The pair is saved.                                                      *)

LEMMA ZqSaveNInv ==
  ASSUME ZqInv, ZqSaveN
  PROVE  ZqInv'
<1>1. /\ cal.pc = "saveN" /\ zq' = zq
      /\ zqCode' = [zqCode EXCEPT ![cal.voh].n = cal.n]
      /\ cal' = [cal EXCEPT !.pc = "saveP"]
  BY DEF ZqSaveN
<1>2. /\ cal'.pc = "saveP" /\ cal'.voh = cal.voh /\ cal'.trip = cal.trip
      /\ cal'.p = cal.p /\ cal'.ok = cal.ok
  BY <1>1 DEF ZqInv, ZqTypeOK
<1>3. /\ cal.voh \in Vohs /\ cal.n \in 0..NMax /\ zqCode \in [Vohs -> Pairs]
  BY DEF ZqInv, ZqTypeOK
<1>4. /\ zqCode' \in [Vohs -> Pairs] /\ zqCode'[cal.voh].n = cal.n
      /\ cal.voh # "0P5" => zqCode'["0P5"] = zqCode["0P5"]
  BY <1>1, <1>3 DEF Pairs, Vohs
<1>5. ZqTypeOK'
  BY <1>1, <1>4 DEF ZqInv, ZqTypeOK, CalSteps
<1> QED
  BY <1>1, <1>2, <1>4, <1>5
  DEF ZqInv, Busy, Over, Searching, Found, Result, Drives, Trip

LEMMA ZqSavePInv ==
  ASSUME ZqInv, ZqSaveP
  PROVE  ZqInv'
<1>1. /\ cal.pc = "saveP" /\ zq' = zq
      /\ zqCode' = [zqCode EXCEPT ![cal.voh].p = cal.p]
  BY DEF ZqSaveP
<1>2. /\ cal.voh \in Vohs /\ cal.p \in 0..PMax /\ zqCode \in [Vohs -> Pairs]
      /\ cal.trip \in [Vohs -> [n : Nat, p : Nat]] /\ cal.trip \in TripPoints
      /\ zqCode[cal.voh].n = cal.trip[cal.voh].n /\ cal.p = cal.trip[cal.voh].p
      /\ cal.ok /\ zq.en
  BY <1>1, TripTyped DEF ZqInv, ZqTypeOK, Found, Trip, Busy, Over, Result
<1>3. zqCode' \in [Vohs -> Pairs]
      /\ (cal.voh # "0P5" => zqCode'["0P5"] = zqCode["0P5"])
  BY <1>1, <1>2 DEF Pairs, Vohs
<1>4. zqCode'[cal.voh] = cal.trip[cal.voh]
  <2>1. zqCode'[cal.voh] = [zqCode[cal.voh] EXCEPT !.p = cal.p]
    BY <1>1, <1>2
  <2>2. zqCode[cal.voh] \in Pairs /\ cal.trip[cal.voh] \in [n : Nat, p : Nat]
    BY <1>2
  <2> QED
    BY <1>2, <2>1, <2>2 DEF Pairs
<1>5. CASE cal.voh = "0P5"
  <2>1. cal' = [Begun(cal.trip) EXCEPT !.voh = "0P6"]
    BY <1>5 DEF ZqSaveP
  <2>2. /\ cal'.pc = "voh" /\ cal'.voh = "0P6" /\ cal'.trip = cal.trip /\ cal'.ok
    BY <1>2, <2>1, BegunTyped
  <2>3. ZqTypeOK'
    BY <1>1, <1>2, <1>3, <2>1, BegunTyped, CodesTyped DEF ZqInv, ZqTypeOK
  <2> QED
    BY <1>1, <1>2, <1>4, <1>5, <2>2, <2>3
    DEF ZqInv, Busy, Over, Searching, Found, Result, Drives
<1>6. CASE cal.voh # "0P5"
  <2>1. cal' = [cal EXCEPT !.pc = "off"] /\ cal.voh = "0P6"
    BY <1>2, <1>6 DEF ZqSaveP, Vohs
  <2>2. /\ cal'.pc = "off" /\ cal'.voh = "0P6" /\ cal'.trip = cal.trip /\ cal'.ok
    BY <1>2, <2>1 DEF ZqInv, ZqTypeOK
  <2>3. zqCode'["0P5"] = cal.trip["0P5"] /\ zqCode'["0P6"] = cal.trip["0P6"]
    BY <1>1, <1>3, <1>4, <2>1 DEF ZqInv, Found
  <2>4. ZqTypeOK'
    BY <1>1, <1>3, <2>1 DEF ZqInv, ZqTypeOK, CalSteps
  <2> QED
    BY <1>1, <1>2, <2>2, <2>3, <2>4
    DEF ZqInv, Busy, Over, Searching, Found, Result, Drives, Vohs
<1> QED
  BY <1>5, <1>6

LEMMA ZqOffInv ==
  ASSUME ZqInv, ZqOff
  PROVE  ZqInv'
<1>1. /\ cal.pc = "off" /\ zq' = [zq EXCEPT !.en = FALSE] /\ zqCode' = zqCode
      /\ cal' = [cal EXCEPT !.pc = "ret"]
  BY DEF ZqOff
<1>2. /\ cal'.pc = "ret" /\ cal'.voh = cal.voh /\ cal'.trip = cal.trip
      /\ cal'.ok = cal.ok /\ ~zq'.en
  BY <1>1 DEF ZqInv, ZqTypeOK
<1>3. ZqTypeOK'
  BY <1>1 DEF ZqInv, ZqTypeOK, CalSteps
<1> QED
  BY <1>1, <1>2, <1>3
  DEF ZqInv, Busy, Over, Searching, Found, Result, Drives, InRange

(* A step of a calibration keeps the invariant.                            *)
LEMMA ZqStepInv ==
  ASSUME ZqInv, ZqStep
  PROVE  ZqInv'
BY ZqVoltageInv, ZqProbeInv, ZqSaveNInv, ZqSavePInv, ZqOffInv DEF ZqStep

(* So does the return to the caller, and what is done elsewhere.           *)
LEMMA ZqReturnInv ==
  ASSUME ZqInv, cal.pc = "ret", cal' = NoCal, UNCHANGED <<zq, zqCode>>
  PROVE  ZqInv'
<1>1. cal'.pc = "idle" /\ ~zq'.en
  BY DEF ZqInv, NoCal, Busy
<1>2. ZqTypeOK'
  BY CodesTyped DEF ZqInv, ZqTypeOK, NoCal, CalSteps
<1> QED
  BY <1>1, <1>2 DEF ZqInv, Busy, Over, Searching, Found, Result, Drives

LEMMA ZqSameInv ==
  ASSUME ZqInv, UNCHANGED zqVars
  PROVE  ZqInv'
<1>1. zq' = zq /\ zqCode' = zqCode /\ cal' = cal
  BY DEF zqVars
<1> QED
  BY <1>1 DEF ZqInv, ZqTypeOK, Busy, Over, Searching, Found, Result, Trip, InRange

-----------------------------------------------------------------------------
(* The sense amplifiers.  SaInv follows the search from below and the one  *)
(* from above.                                                             *)

(* Every code below the one tried on the way up read 1, every code above   *)
(* the one tried on the way down read 0.                                   *)
SaSearching ==
  /\ sac.pc \in {"clear", "up", "down", "put"} =>
       saState[sac.slice] = "CAL_ENABLED"
  /\ sac.pc \in {"up", "down"} => sac.band \in SaBands
  /\ sac.pc = "up" => sac.code <= sac.band.hi
  /\ sac.pc = "down" =>
       sac.up \in sac.band.lo..sac.band.hi /\ sac.band.lo <= sac.code + 1

SaSaved ==
  sac.pc = "put" /\ sac.calibrate =>
    saTab[sac.slice][sac.unit] + 1 \in sac.band.lo..sac.band.hi

SaInv == SaTypeOK /\ SaSearching /\ SaSaved

SaFields == [dir : {"NEG", "POS"}, mag : 0..(SaMid - 1)]

LEMMA SaConstants ==
  /\ SaMax \in Nat /\ SaMax >= 1 /\ SaMid \in Nat /\ SaMid >= 1
  /\ SaMax + 1 = 2 * SaMid
  /\ SaBits \in Nat /\ SaBits > 0 /\ SaChannels \in Nat /\ SaChannels > 0
  /\ SaBytes \in Nat /\ SaBytes > 0
  /\ 0 \in SaCodes /\ SaMax \in SaCodes
BY SaAssumption DEF SaAssumption, SaMid, SaCodes

LEMMA FirstsTyped ==
  0 \in SaUnits /\ <<0, 0>> \in SaSlices /\ Probed \in SaRegs
BY SaConstants DEF SaUnits, SaSlices, Probed, SaRegs

LEMMA BandsTyped ==
  ASSUME NEW b \in SaBands \cup {NoBand}
  PROVE  b.lo \in Nat /\ b.hi \in Nat
BY SaAssumption DEF SaAssumption, NoBand

LEMMA FieldsTyped ==
  Cleared \in SaFields /\ \A code \in SaCodes : SaField(code) \in SaFields
BY SaConstants DEF Cleared, SaField, SaFields, SaCodes

LEMMA NoSacTyped ==
  ASSUME NEW s \in SaSlices
  PROVE  /\ [NoSac EXCEPT !.slice = s] \in
              [pc : SaSteps, slice : SaSlices, calibrate : BOOLEAN,
               unit : SaUnits, band : SaBands \cup {NoBand}, code : SaCodes,
               up : SaCodes, ok : BOOLEAN]
         /\ NoSac \in
              [pc : SaSteps, slice : SaSlices, calibrate : BOOLEAN,
               unit : SaUnits, band : SaBands \cup {NoBand}, code : SaCodes,
               up : SaCodes, ok : BOOLEAN]
         /\ [NoSac EXCEPT !.slice = s].pc = "idle" /\ NoSac.pc = "idle"
BY SaConstants, FirstsTyped DEF NoSac, SaSteps
-----------------------------------------------------------------------------
LEMMA SaInitInv == SaInit => SaInv
<1> SUFFICES ASSUME SaInit PROVE SaInv
  OBVIOUS
<1>1. sac \in [pc : SaSteps, slice : SaSlices, calibrate : BOOLEAN,
               unit : SaUnits, band : SaBands \cup {NoBand}, code : SaCodes,
               up : SaCodes, ok : BOOLEAN]
  BY SaConstants, FirstsTyped DEF SaInit, NoSac, SaSteps
<1>2. saReg \in [SaRegs -> [SaSlices -> [SaUnits -> SaFields]]]
  BY FieldsTyped DEF SaInit
<1>3. SaTypeOK
  BY <1>1, <1>2, SaAssumption DEF SaInit, SaTypeOK, SaFields, SaAssumption
<1>4. sac.pc = "idle"
  BY DEF SaInit, NoSac
<1> QED
  BY <1>3, <1>4 DEF SaInv, SaSearching, SaSaved

LEMMA SaBeginInv ==
  ASSUME SaInv, NEW s \in SaSlices, NEW calibrate \in BOOLEAN,
         SaBegin(s, calibrate)
  PROVE  SaInv'
<1>1. sac' = [NoSac EXCEPT !.slice = s, !.calibrate = calibrate,
                          !.pc = IF calibrate THEN "clear" ELSE "put"]
  BY DEF SaBegin
<1>2. /\ sac'.pc = IF calibrate THEN "clear" ELSE "put"
      /\ sac'.slice = s /\ sac'.calibrate = calibrate
      /\ sac' \in [pc : SaSteps, slice : SaSlices, calibrate : BOOLEAN,
               unit : SaUnits, band : SaBands \cup {NoBand}, code : SaCodes,
               up : SaCodes, ok : BOOLEAN]
  BY <1>1, SaConstants, FirstsTyped DEF NoSac, SaSteps
<1>3. /\ saState' = [saState EXCEPT ![s] = "CAL_ENABLED"]
      /\ saReg' = saReg /\ saTab' = saTab
  BY DEF SaBegin
<1>4. saState' \in [SaSlices -> {"reset", "DYNAMIC", "CAL_ENABLED"}]
      /\ saState'[s] = "CAL_ENABLED"
  BY <1>3 DEF SaInv, SaTypeOK
<1>5. SaTypeOK'
  BY <1>2, <1>3, <1>4 DEF SaInv, SaTypeOK
<1> QED
  BY <1>2, <1>4, <1>5 DEF SaInv, SaSearching, SaSaved

LEMMA SaClearInv ==
  ASSUME SaInv, SaClear
  PROVE  SaInv'
<1> USE DEF SaInv
<1>1. PICK b \in SaBands :
        sac' = [sac EXCEPT !.pc = "up", !.code = 0, !.band = b]
  BY DEF SaClear
<1>2. /\ sac.pc = "clear" /\ saTab' = saTab /\ saState' = saState
      /\ saReg' = [saReg EXCEPT ![Probed][sac.slice] =
           [u \in SaUnits |-> IF u \div 2 = sac.unit \div 2 THEN Cleared ELSE @[u]]]
  BY DEF SaClear
<1>3. /\ sac'.pc = "up" /\ sac'.code = 0 /\ sac'.band = b
      /\ sac'.slice = sac.slice
  BY <1>1 DEF SaTypeOK
<1>4. saReg' \in [SaRegs -> [SaSlices -> [SaUnits -> SaFields]]]
  BY <1>2, FieldsTyped, FirstsTyped DEF SaTypeOK, SaFields
<1>5. SaTypeOK'
  BY <1>1, <1>2, <1>4, SaConstants DEF SaTypeOK, SaSteps, SaFields
<1> QED
  BY <1>2, <1>3, <1>5, BandsTyped DEF SaSearching, SaSaved

(* What the output of the amplifier tells of the code that is tried.       *)
LEMMA OutputTells ==
  ASSUME SaInv, sac.pc \in {"up", "down"}, NEW out \in SaOutputs(sac.code)
  PROVE  /\ sac.band \in SaBands /\ sac.band.lo \in Nat /\ sac.band.hi \in Nat
         /\ sac.code \in Nat /\ sac.code <= SaMax
         /\ out \in {0, 1}
         /\ out = 0 => sac.code >= sac.band.lo
         /\ out = 1 => sac.code < sac.band.hi
<1>1. sac.band \in SaBands /\ sac.band.lo \in Nat /\ sac.band.hi \in Nat
      /\ sac.band.lo <= sac.band.hi
  BY BandsTyped, SaAssumption DEF SaInv, SaSearching, SaAssumption
<1> QED
  BY <1>1, SaConstants
  DEF SaInv, SaTypeOK, SaSearching, SaOutputs, SaCodes

LEMMA TryTyped ==
  ASSUME SaInv, SaTry(sac.code)
  PROVE  saReg' \in [SaRegs -> [SaSlices -> [SaUnits -> SaFields]]]
BY FieldsTyped, FirstsTyped DEF SaTry, SaInv, SaTypeOK, SaFields

LEMMA SaUpInv ==
  ASSUME SaInv, SaUp
  PROVE  SaInv'
<1>1. /\ sac.pc = "up" /\ SaTry(sac.code) /\ saTab' = saTab
      /\ saState' = saState
  BY DEF SaUp
<1>2. PICK out \in SaOutputs(sac.code) :
        sac' = IF SaAbsurd(sac.code, out)
               THEN [sac EXCEPT !.pc = "ret", !.ok = FALSE]
               ELSE IF out = 0
               THEN [sac EXCEPT !.pc = "down", !.up = sac.code, !.code = SaMax]
               ELSE [sac EXCEPT !.code = @ + 1]
  BY DEF SaUp
<1>3. /\ sac.band.lo \in Nat /\ sac.band.hi \in Nat
      /\ sac.code \in Nat /\ sac.code <= SaMax /\ out \in {0, 1}
      /\ out = 0 => sac.code >= sac.band.lo
      /\ out = 1 => sac.code < sac.band.hi
  BY <1>1, OutputTells
<1>4. saReg' \in [SaRegs -> [SaSlices -> [SaUnits -> SaFields]]]
  BY <1>1, TryTyped
<1>5. CASE SaAbsurd(sac.code, out)
  <2>1. sac' = [sac EXCEPT !.pc = "ret", !.ok = FALSE]
    BY <1>2, <1>5
  <2>2. SaTypeOK'
    BY <1>1, <1>4, <2>1 DEF SaInv, SaTypeOK, SaSteps, SaFields
  <2>3. sac'.pc = "ret"
    BY <2>1 DEF SaInv, SaTypeOK
  <2> QED
    BY <2>2, <2>3 DEF SaInv, SaSearching, SaSaved
<1>6. CASE ~SaAbsurd(sac.code, out) /\ out = 0
  <2>1. sac' = [sac EXCEPT !.pc = "down", !.up = sac.code, !.code = SaMax]
    BY <1>2, <1>6
  <2>2. SaTypeOK'
    BY <1>1, <1>4, <2>1, SaConstants DEF SaInv, SaTypeOK, SaSteps, SaFields
  <2>3. /\ sac'.pc = "down" /\ sac'.up = sac.code /\ sac'.code = SaMax
        /\ sac'.band = sac.band /\ sac'.slice = sac.slice
    BY <2>1 DEF SaInv, SaTypeOK
  <2>4. sac.code <= sac.band.hi
    BY <1>1 DEF SaInv, SaSearching
  <2>5. sac.code \in sac.band.lo..sac.band.hi /\ sac.band.lo <= SaMax + 1
    BY <1>3, <1>6, <2>4, SaConstants
  <2> QED
    BY <1>1, <2>2, <2>3, <2>5 DEF SaInv, SaSearching, SaSaved
<1>7. CASE ~SaAbsurd(sac.code, out) /\ out = 1
  <2>1. sac' = [sac EXCEPT !.code = @ + 1]
    BY <1>2, <1>7
  <2>2. sac.code + 1 <= sac.band.hi
    BY <1>3, <1>7
  <2>3. sac.code + 1 \in SaCodes
    BY <1>3, <1>7, SaConstants DEF SaAbsurd, SaCodes
  <2>4. SaTypeOK'
    BY <1>1, <1>4, <2>1, <2>3 DEF SaInv, SaTypeOK, SaFields
  <2>5. /\ sac'.pc = "up" /\ sac'.code = sac.code + 1 /\ sac'.band = sac.band
        /\ sac'.slice = sac.slice
    BY <1>1, <2>1 DEF SaInv, SaTypeOK
  <2> QED
    BY <1>1, <2>2, <2>4, <2>5 DEF SaInv, SaSearching, SaSaved
<1> QED
  BY <1>3, <1>5, <1>6, <1>7

(* The average of the two codes found lies where both searches put it.     *)
LEMMA AverageInBand ==
  ASSUME NEW lo \in Nat, NEW hi \in Nat, NEW up \in SaCodes,
         NEW down \in SaCodes,
         lo <= up, up <= hi, lo <= down + 1, down < hi
  PROVE  Average(up, down) \in SaCodes /\ Average(up, down) + 1 \in lo..hi
BY SaConstants DEF Average, SaCodes

LEMMA SaDownInv ==
  ASSUME SaInv, SaDown
  PROVE  SaInv'
<1>1. sac.pc = "down" /\ SaTry(sac.code) /\ saState' = saState
  BY DEF SaDown
<1>2. PICK out \in SaOutputs(sac.code) :
       IF SaAbsurd(sac.code, out)
       THEN sac' = [sac EXCEPT !.pc = "ret", !.ok = FALSE] /\ UNCHANGED saTab
       ELSE IF out = 1
       THEN /\ saTab' = [saTab EXCEPT ![sac.slice][sac.unit] =
                           Average(sac.up, sac.code)]
            /\ sac' = [sac EXCEPT !.pc = "put"]
       ELSE sac' = [sac EXCEPT !.code = @ - 1] /\ UNCHANGED saTab
  BY DEF SaDown
<1>3. /\ sac.band.lo \in Nat /\ sac.band.hi \in Nat
      /\ sac.code \in Nat /\ sac.code <= SaMax /\ out \in {0, 1}
      /\ out = 0 => sac.code >= sac.band.lo
      /\ out = 1 => sac.code < sac.band.hi
  BY <1>1, OutputTells
<1>4. saReg' \in [SaRegs -> [SaSlices -> [SaUnits -> SaFields]]]
  BY <1>1, TryTyped
<1>5. CASE SaAbsurd(sac.code, out)
  <2>1. sac' = [sac EXCEPT !.pc = "ret", !.ok = FALSE] /\ saTab' = saTab
    BY <1>2, <1>5
  <2>2. SaTypeOK'
    BY <1>1, <1>4, <2>1 DEF SaInv, SaTypeOK, SaSteps, SaFields
  <2>3. sac'.pc = "ret"
    BY <2>1 DEF SaInv, SaTypeOK
  <2> QED
    BY <2>2, <2>3 DEF SaInv, SaSearching, SaSaved
<1>6. CASE ~SaAbsurd(sac.code, out) /\ out = 1
  <2>1. /\ saTab' = [saTab EXCEPT ![sac.slice][sac.unit] =
                       Average(sac.up, sac.code)]
        /\ sac' = [sac EXCEPT !.pc = "put"]
    BY <1>2, <1>6
  <2>2. /\ sac'.pc = "put" /\ sac'.band = sac.band /\ sac'.slice = sac.slice
        /\ sac'.unit = sac.unit
    BY <2>1 DEF SaInv, SaTypeOK
  <2>3. /\ sac.up \in sac.band.lo..sac.band.hi /\ sac.band.lo <= sac.code + 1
        /\ sac.up \in SaCodes /\ sac.code \in SaCodes
        /\ sac.slice \in SaSlices /\ sac.unit \in SaUnits
        /\ saTab \in [SaSlices -> [SaUnits -> SaCodes]]
    BY <1>1 DEF SaInv, SaSearching, SaTypeOK
  <2>4. /\ Average(sac.up, sac.code) \in SaCodes
        /\ Average(sac.up, sac.code) + 1 \in sac.band.lo..sac.band.hi
    BY <1>3, <1>6, <2>3, AverageInBand
  <2>5. /\ saTab' \in [SaSlices -> [SaUnits -> SaCodes]]
        /\ saTab'[sac.slice][sac.unit] = Average(sac.up, sac.code)
    BY <2>1, <2>3, <2>4
  <2>6. SaTypeOK'
    BY <1>1, <1>4, <2>1, <2>5 DEF SaInv, SaTypeOK, SaSteps, SaFields
  <2> QED
    BY <1>1, <2>2, <2>4, <2>5, <2>6 DEF SaInv, SaSearching, SaSaved
<1>7. CASE ~SaAbsurd(sac.code, out) /\ out = 0
  <2>1. sac' = [sac EXCEPT !.code = @ - 1] /\ saTab' = saTab
    BY <1>2, <1>7
  <2>2. sac.code - 1 \in SaCodes /\ sac.band.lo <= (sac.code - 1) + 1
    BY <1>3, <1>7, SaConstants DEF SaAbsurd, SaCodes
  <2>3. SaTypeOK'
    BY <1>1, <1>4, <2>1, <2>2 DEF SaInv, SaTypeOK, SaFields
  <2>4. /\ sac'.pc = "down" /\ sac'.code = sac.code - 1 /\ sac'.up = sac.up
        /\ sac'.band = sac.band /\ sac'.slice = sac.slice
    BY <1>1, <2>1 DEF SaInv, SaTypeOK
  <2> QED
    BY <1>1, <2>2, <2>3, <2>4 DEF SaInv, SaSearching, SaSaved
<1> QED
  BY <1>3, <1>5, <1>6, <1>7

LEMMA SaPutInv ==
  ASSUME SaInv, SaPut
  PROVE  SaInv'
<1>1. /\ sac.pc = "put" /\ saTab' = saTab
      /\ saReg' = [r \in SaRegs |->
           IF r \in Written
           THEN [saReg[r] EXCEPT ![sac.slice][sac.unit] =
                   SaField(saTab[sac.slice][sac.unit])]
           ELSE saReg[r]]
  BY DEF SaPut
<1>2. saReg' \in [SaRegs -> [SaSlices -> [SaUnits -> SaFields]]]
  <2>1. SaField(saTab[sac.slice][sac.unit]) \in SaFields
    BY FieldsTyped DEF SaInv, SaTypeOK
  <2> QED
    BY <1>1, <2>1 DEF SaInv, SaTypeOK, SaFields
<1>3. CASE sac.unit + 1 \in SaUnits
  <2>1. /\ saState' = saState
        /\ sac' = [sac EXCEPT !.unit = @ + 1, !.code = 0, !.up = 0,
                     !.band = NoBand,
                     !.pc = IF sac.calibrate THEN "clear" ELSE "put"]
    BY <1>3 DEF SaPut
  <2>2. /\ sac'.pc = (IF sac.calibrate THEN "clear" ELSE "put")
        /\ sac'.slice = sac.slice /\ sac'.calibrate = sac.calibrate
    BY <2>1 DEF SaInv, SaTypeOK
  <2>3. SaTypeOK'
    BY <1>1, <1>2, <1>3, <2>1, SaConstants DEF SaInv, SaTypeOK, SaSteps, SaFields
  <2> QED
    BY <1>1, <2>1, <2>2, <2>3 DEF SaInv, SaSearching, SaSaved
<1>4. CASE ~(sac.unit + 1 \in SaUnits)
  <2>1. /\ sac' = [sac EXCEPT !.pc = "ret"]
        /\ saState' = [saState EXCEPT ![sac.slice] = "DYNAMIC"]
    BY <1>4 DEF SaPut
  <2>2. SaTypeOK'
    BY <1>1, <1>2, <2>1 DEF SaInv, SaTypeOK, SaSteps, SaFields
  <2>3. sac'.pc = "ret"
    BY <2>1 DEF SaInv, SaTypeOK
  <2> QED
    BY <2>2, <2>3 DEF SaInv, SaSearching, SaSaved
<1> QED
  BY <1>3, <1>4

(* A step of the calibration of a slice keeps the invariant.               *)
LEMMA SaStepInv ==
  ASSUME SaInv, SaStep
  PROVE  SaInv'
BY SaClearInv, SaUpInv, SaDownInv, SaPutInv DEF SaStep

(* So does the return to the caller, which is done or goes on with some    *)
(* slice, and what is done elsewhere.                                      *)
LEMMA SaReturnInv ==
  ASSUME SaInv,
         sac' = NoSac \/ (\E s \in SaSlices : sac' = [NoSac EXCEPT !.slice = s]),
         UNCHANGED <<saReg, saTab, saState>>
  PROVE  SaInv'
<1>1. sac'.pc = "idle" /\ SaTypeOK'
  BY NoSacTyped, FirstsTyped DEF SaInv, SaTypeOK
<1> QED
  BY <1>1 DEF SaInv, SaSearching, SaSaved

LEMMA SaSameInv ==
  ASSUME SaInv, UNCHANGED saVars
  PROVE  SaInv'
BY DEF saVars, SaInv, SaTypeOK, SaSearching, SaSaved
=============================================================================
