-------------------------- MODULE GpsDriverProofs --------------------------
(***************************************************************************)
(* GpsDriver implements Gps for every receiver, every buffer and every     *)
(* number of attempts, if the fields are read before they are overwritten; *)
(* in the other order, that of the build, it publishes nothing but (0, 0). *)
(*                                                                         *)
(* That a published position is one of the receiver's follows the position *)
(* through all of its stations: the lines of the buffer (Sound), the last  *)
(* accepted sentence (ParsedInv), the two stores (WritingInv).             *)
(***************************************************************************)
EXTENDS GpsDriver, SequenceTheorems, TLAPS

Kind == {"RMC", "GGA", "other"}
LineType == [kind : Kind, whole : BOOLEAN, status : {"A", "V"},
             fix : Position, age : Age]

\* A line that will be accepted as valid carries a position of the receiver.
Sound == {l \in LineType :
            l.kind = "RMC" /\ l.whole /\ l.status = "A" => l.fix \in Fixes}

\* What can be published: Coordinate decides, and with it the order of the build.
Published == IF RawFirst THEN {NoFix} ELSE Fixes
ParsedFix == [lat |-> parsed.lat, lon |-> parsed.lon]
ParsedInv == parsed.is_valid => ParsedFix \in Published

WritingInv ==
  /\ at \in {"store_latitude", "store_longitude"} => parsed.is_valid
  /\ writing = IF at = "store_longitude" THEN {ParsedFix} ELSE {}

\* Only needed for the order of the build.
CoordInv == RawFirst => coord = NoFix

AttemptInv == at = "read" => attempt < MaxAttempts

DriverInv ==
  /\ TypeOK
  /\ buffer \in Seq(Sound)
  /\ ParsedInv
  /\ WritingInv
  /\ CoordInv
  /\ AttemptInv

-----------------------------------------------------------------------------
\* The sign of 0 does not matter.
LEMMA NoNegativeZero == -0 = 0
<1>1. ASSUME NEW x \in Int, NEW y \in Int, x = 0, x + y = 0
      PROVE  y = 0
  BY <1>1
<1>2. \A x \in Int : -x \in Int /\ x + (-x) = 0
  OBVIOUS
<1>3. 0 \in Int
  OBVIOUS
<1>. QED
  BY <1>1, <1>2, <1>3, Zenon

\* nmea_to_decimal recovers the minutes of arc, signed, that the receiver has put
\* into ddmm and a letter, for every coordinate; read too late it returns 0.
LEMMA Converts ==
  ASSUME NEW m \in Int, NEW p \in {"N", "E"}, NEW q \in {"S", "W"}
  PROVE  Coordinate(m, p, q) = IF RawFirst THEN 0 ELSE m
<1>1. CASE RawFirst
  <2>1. ASSUME NEW d
        PROVE  nmea_to_decimal(0, d) = 0
    <3>1. 0 \div 100 = 0 /\ 60 * 0 = 0 /\ 100 * 0 = 0 /\ 0 - 0 = 0 /\ 0 + 0 = 0
      OBVIOUS
    <3>. QED
      BY <3>1, NoNegativeZero, Zenon DEF nmea_to_decimal
  <2>2. Coordinate(m, p, q) = nmea_to_decimal(0, IF m < 0 THEN q ELSE p)
    BY <1>1 DEF Coordinate
  <2>3. Coordinate(m, p, q) = 0
    BY <2>1, <2>2
  <2>. QED
    BY <1>1, <2>3
<1>2. CASE ~RawFirst
  <2>. DEFINE a == Abs(m)
              d == a \div 60
              r == a % 60
              raw == 100 * d + r
  <2>1. a \in Nat
    BY DEF Abs
  <2>2. d \in Nat /\ r \in 0..59 /\ a = 60 * d + r
    BY <2>1
  <2>. HIDE DEF a, d, r
  <2>3. raw \div 100 = d
    BY <2>2
  <2>4. 60 * d + (raw - 100 * d) = a
    BY <2>2
  <2>5. RawOf(m) = raw
    BY DEF RawOf, a, d, r
  <2>6. nmea_to_decimal(raw, p) = a /\ nmea_to_decimal(raw, q) = -a
    BY <2>3, <2>4 DEF nmea_to_decimal
  <2>. QED
    BY <1>2, <2>5, <2>6 DEF Coordinate, Abs, a
<1>. QED
  BY <1>1, <1>2

-----------------------------------------------------------------------------
\* Whatever the receiver sends, a line is taken for a position of it only if it
\* carries one.
LEMMA LineSound ==
  ASSUME NEW k \in Kind, NEW f \in Fixes \cup {NoFix}
  PROVE  Line(k, f) \in Sound
<1>1. f \in Position /\ NoFix \in Position
  BY FixesAssumption DEF Position, NoFix
<1>2. 0 \in Age
  BY BoundAssumption DEF Age
<1>3. Line(k, f) \in LineType
  BY <1>1, <1>2 DEF Line, LineType
<1>. QED
  BY <1>3 DEF Line, Sound

\* A damaged line is not accepted at all; its kind and its age are what they were.
LEMMA DamagedSound ==
  ASSUME NEW l \in LineType
  PROVE  Damaged(l) \in Sound /\ Damaged(l).kind = l.kind /\ Damaged(l).age = l.age
<1>1. Garbled \in Position
  BY DEF Position, Garbled
<1>2. (IF l.kind = "RMC" THEN Garbled ELSE l.fix) \in Position
  BY <1>1 DEF LineType
<1>. QED
  BY <1>2 DEF Damaged, Sound, LineType

\* So are all the lines of a burst, whichever of them are damaged,
LEMMA SentSound ==
  ASSUME NEW lines \in Sent
  PROVE  lines \in Seq(Sound)
<1>1. PICK f \in Fixes \cup {NoFix},
           damaged \in {lost \cup (IF cut THEN {1} ELSE {}) : lost \in Noise} :
        lines = [i \in DOMAIN Burst |-> IF i \in damaged THEN Damaged(Line(Burst[i], f))
                                        ELSE Line(Burst[i], f)]
  BY DEF Sent
<1>2. Burst \in Seq(Kind) /\ DOMAIN Burst = 1..Len(Burst) /\ Len(Burst) \in Nat
  BY BurstAssumption DEF Kind
<1>3. ASSUME NEW i \in 1..Len(Burst)
      PROVE  Line(Burst[i], f) \in Sound /\ Damaged(Line(Burst[i], f)) \in Sound
  <2>1. Burst[i] \in Kind
    BY <1>2, ElementOfSeq
  <2>2. Line(Burst[i], f) \in Sound
    BY <2>1, LineSound
  <2>. QED
    BY <2>2, DamagedSound DEF Sound
<1>4. lines \in [1..Len(Burst) -> Sound]
  BY <1>1, <1>2, <1>3
<1>. QED
  BY <1>2, <1>4, SeqDef

\* and what is in the buffer a second later.
LEMMA ReceivedSound ==
  ASSUME buffer \in Seq(Sound), NEW lines \in Seq(Sound)
  PROVE  Received(lines) \in Seq(Sound)
<1>. DEFINE older == [i \in DOMAIN buffer |-> [buffer[i] EXCEPT !.age = Older(@)]]
            all == older \o lines
<1>1. DOMAIN buffer = 1..Len(buffer) /\ Len(buffer) \in Nat
  OBVIOUS
<1>2. ASSUME NEW i \in 1..Len(buffer)
      PROVE  [buffer[i] EXCEPT !.age = Older(@)] \in Sound
  <2>1. buffer[i] \in Sound
    BY ElementOfSeq
  <2>2. Older(buffer[i].age) \in Age
    BY <2>1, BoundAssumption DEF Sound, LineType, Older, Age
  <2>. QED
    BY <2>1, <2>2 DEF Sound, LineType
<1>3. older \in [1..Len(buffer) -> Sound]
  BY <1>1, <1>2
<1>4. older \in Seq(Sound)
  BY <1>1, <1>3, SeqDef
<1>5. all \in Seq(Sound) /\ Len(all) \in Nat
  BY <1>4, ConcatProperties
<1>. HIDE DEF all
<1>. DEFINE kept == IF Len(all) < Capacity THEN Len(all) ELSE Capacity
<1>6. kept \in Int /\ kept <= Len(all)
  BY <1>5, BoundAssumption
<1>. HIDE DEF kept
<1>7. \A i \in 1..kept : all[i] \in Sound
  <2>. TAKE i \in 1..kept
  <2>1. i \in 1..Len(all)
    BY <1>5, <1>6
  <2>. QED
    BY <2>1, <1>5, ElementOfSeq
<1>8. SubSeq(all, 1, kept) \in Seq(Sound)
  BY <1>6, <1>7, SubSeqProperties
<1>. QED
  BY <1>8 DEF Received, all, kept

\* Cutting the last line leaves the others, and of that one its kind and its age.
LEMMA CutLines ==
  ASSUME NEW b \in Seq(LineType)
  PROVE  /\ CutLast(b) \in Seq(LineType) /\ Len(CutLast(b)) = Len(b)
         /\ \A i \in 1..Len(b) : /\ CutLast(b)[i] = b[i] \/ CutLast(b)[i] = Damaged(b[i])
                                /\ CutLast(b)[i].kind = b[i].kind
                                /\ CutLast(b)[i].age = b[i].age
<1>1. DOMAIN b = 1..Len(b) /\ Len(b) \in Nat /\ b \in [1..Len(b) -> LineType]
  OBVIOUS
<1>2. ASSUME NEW i \in 1..Len(b)
      PROVE  /\ CutLast(b)[i] = b[i] \/ CutLast(b)[i] = Damaged(b[i])
             /\ CutLast(b)[i].kind = b[i].kind /\ CutLast(b)[i].age = b[i].age
             /\ CutLast(b)[i] \in LineType
  <2>1. b[i] \in LineType
    BY <1>1
  <2>2. CutLast(b)[i] = IF i = Len(b) THEN Damaged(b[i]) ELSE b[i]
    BY <1>1 DEF CutLast
  <2>3. Damaged(b[i]) \in LineType
    BY <2>1, DamagedSound DEF Sound
  <2>. QED
    BY <2>1, <2>2, <2>3, DamagedSound
<1>3. CutLast(b) \in [1..Len(b) -> LineType]
  <2>1. CutLast(b) = [i \in 1..Len(b) |-> CutLast(b)[i]]
    BY <1>1 DEF CutLast
  <2>. QED
    BY <1>2, <2>1
<1>4. CutLast(b) \in Seq(LineType) /\ Len(CutLast(b)) = Len(b)
  BY <1>1, <1>3, SeqDef
<1>. QED
  BY <1>2, <1>4

\* A line that the full buffer cuts is not accepted.
LEMMA ArriveSound ==
  ASSUME buffer \in Seq(Sound), NEW lines \in Seq(Sound), Arrive(lines)
  PROVE  buffer' \in Seq(Sound) /\ cut' \in BOOLEAN
<1>. DEFINE b == Received(lines)
<1>1. b \in Seq(Sound) /\ b \in Seq(LineType)
  BY ReceivedSound, SeqMonotonic DEF Sound
<1>. HIDE DEF b
<1>2. CutLast(b) \in Seq(Sound)
  <2>1. ASSUME NEW i \in 1..Len(b)
        PROVE  CutLast(b)[i] \in Sound
    <3>1. b[i] \in Sound /\ b[i] \in LineType
      BY <1>1, ElementOfSeq
    <3>. QED
      BY <1>1, <3>1, CutLines, DamagedSound
  <2>2. CutLast(b) \in Seq(LineType) /\ Len(CutLast(b)) = Len(b) /\ Len(b) \in Nat
    BY <1>1, CutLines
  <2>3. CutLast(b) \in [1..Len(b) -> Sound]
    BY <2>1, <2>2
  <2>. QED
    BY <2>2, <2>3, SeqDef
<1>. QED
  BY <1>1, <1>2 DEF Arrive, b

-----------------------------------------------------------------------------
\* At reset nothing is in the buffer and nothing has been parsed.
LEMMA InitDriver == Init => DriverInv
<1>. SUFFICES ASSUME Init
              PROVE  DriverInv
  OBVIOUS
<1>1. AgeLimit \in Age /\ 0 \in 0..MaxAttempts /\ 0 \in 0..MaxSleep
  BY BoundAssumption DEF Age
<1>2. TypeOK
  <2>1. buffer \in Seq([kind : {"RMC", "GGA", "other"}, whole : BOOLEAN,
                        status : {"A", "V"}, fix : Position, age : Age])
    BY EmptySeq DEF Init
  <2>2. coord \in Position
    BY DEF Init, Position, NoFix
  <2>3. parsed \in [lat : Int, lon : Int, is_valid : BOOLEAN, rmc : Age, gga : Age]
    BY <1>1 DEF Init
  <2>4. /\ signal \in Signal /\ cut \in BOOLEAN
        /\ at \in {"read", "store_latitude", "store_longitude", "sleep"}
    BY DEF Init
  <2>5. /\ attempt \in 0..MaxAttempts /\ passed \in 0..MaxSleep /\ age \in Age
        /\ got \subseteq {"RMC", "GGA"} /\ writing \subseteq Position
    BY <1>1 DEF Init
  <2>. QED
    BY <2>1, <2>2, <2>3, <2>4, <2>5 DEF TypeOK
<1>. QED
  BY <1>2, EmptySeq, BoundAssumption
     DEF Init, DriverInv, ParsedInv, WritingInv, CoordInv, AttemptInv

\* A second in which the receiver sends, or does not: it ages what is there.
LEMMA SecondDriver ==
  ASSUME DriverInv, NEW lines \in Seq(Sound), Second(lines)
  PROVE  /\ buffer' \in Seq(Sound)
         /\ parsed' \in [lat : Int, lon : Int, is_valid : BOOLEAN, rmc : Age, gga : Age]
         /\ parsed'.is_valid = parsed.is_valid /\ ParsedFix' = ParsedFix
         /\ age' \in Age /\ cut' \in BOOLEAN
         /\ UNCHANGED <<signal, coord, writing>>
<1>1. \A a \in Age : Older(a) \in Age
  BY BoundAssumption DEF Older, Age
<1>2. buffer' \in Seq(Sound) /\ cut' \in BOOLEAN
  BY ArriveSound DEF DriverInv, Second
<1>. QED
  BY <1>1, <1>2 DEF Second, DriverInv, TypeOK, ParsedFix, pubVars

\* An accepted sentence: a valid position is one that can be published.
LEMMA ParseDriver ==
  ASSUME DriverInv, NEW l \in Sound, Accepted(l), parsed' = Parse(l)
  PROVE  /\ parsed' \in [lat : Int, lon : Int, is_valid : BOOLEAN, rmc : Age, gga : Age]
         /\ ParsedInv'
<1>1. l.fix \in Position /\ l.age \in Age /\ l.whole
  BY DEF Sound, LineType, Accepted
<1>2. l.fix.lat \in Int /\ l.fix.lon \in Int
      /\ l.fix = [lat |-> l.fix.lat, lon |-> l.fix.lon]
  BY <1>1 DEF Position
<1>3. CASE l.kind = "GGA"
  <2>1. parsed' = [parsed EXCEPT !.gga = l.age]
    BY <1>3 DEF Parse
  <2>. QED
    BY <1>1, <2>1 DEF DriverInv, TypeOK, ParsedInv, ParsedFix
<1>4. CASE l.kind # "GGA"
  <2>1. l.kind = "RMC"
    BY <1>4 DEF Accepted
  <2>2. /\ Coordinate(l.fix.lat, "N", "S") = IF RawFirst THEN 0 ELSE l.fix.lat
        /\ Coordinate(l.fix.lon, "E", "W") = IF RawFirst THEN 0 ELSE l.fix.lon
    BY <1>2, Converts
  <2>. DEFINE valid == (l.status = "A")
              lat == IF RawFirst THEN 0 ELSE l.fix.lat
              lon == IF RawFirst THEN 0 ELSE l.fix.lon
  <2>v. valid \in BOOLEAN /\ lat \in Int /\ lon \in Int
    BY <1>2
  <2>3. parsed' = [parsed EXCEPT !.is_valid = valid, !.rmc = l.age,
                                 !.lat = lat, !.lon = lon]
    BY <1>4, <2>2 DEF Parse
  <2>. HIDE DEF valid, lat, lon
  <2>p. parsed \in [lat : Int, lon : Int, is_valid : BOOLEAN, rmc : Age, gga : Age]
    BY DEF DriverInv, TypeOK
  <2>4. /\ parsed' \in [lat : Int, lon : Int, is_valid : BOOLEAN, rmc : Age, gga : Age]
        /\ parsed'.is_valid = valid /\ parsed'.lat = lat /\ parsed'.lon = lon
    BY <1>1, <2>v, <2>3, <2>p
  <2>5. ASSUME parsed'.is_valid
        PROVE  ParsedFix' \in Published
    <3>1. l.status = "A"
      BY <2>4, <2>5 DEF valid
    <3>2. l.fix \in Fixes
      BY <1>1, <2>1, <3>1 DEF Sound
    <3>3. ParsedFix' = IF RawFirst THEN NoFix ELSE l.fix
      BY <1>2, <2>4 DEF ParsedFix, NoFix, lat, lon
    <3>. QED
      BY <3>2, <3>3, OrderAssumption DEF Published
  <2>. QED
    BY <2>4, <2>5 DEF ParsedInv
<1>. QED
  BY <1>3, <1>4

\* Every step keeps the invariant.
LEMMA NextDriver == DriverInv /\ [Next]_vars => DriverInv'
<1>. SUFFICES ASSUME DriverInv, [Next]_vars
              PROVE  DriverInv'
  OBVIOUS
<1>. USE DEF taskVars, pubVars
<1>b. MaxAttempts \in Nat \ {0} /\ MaxSleep \in Nat \ {0} /\ AgeLimit \in Age
  BY BoundAssumption DEF Age
<1>t. /\ TypeOK /\ buffer \in Seq(Sound)
      /\ ParsedInv /\ WritingInv /\ CoordInv /\ AttemptInv
  BY DEF DriverInv
\* The end of an attempt.
<1>e. ASSUME at = "read", EndAttempt
      PROVE  /\ attempt' \in 0..MaxAttempts /\ passed' = passed
             /\ at' \in {"read", "store_latitude", "sleep"}
             /\ at' = "store_latitude" => parsed'.is_valid
             /\ AttemptInv'
  BY <1>e, <1>b, <1>t DEF EndAttempt, TypeOK, AttemptInv
\* A sound line has its type.
<1>s. Seq(Sound) \subseteq Seq(LineType)
  BY SeqMonotonic DEF Sound
<1>l. buffer' \in Seq(Sound) => buffer' \in Seq([kind : {"RMC", "GGA", "other"},
        whole : BOOLEAN, status : {"A", "V"}, fix : Position, age : Age])
  BY <1>s DEF LineType, Kind
<1>1. CASE ReadLine
  <2>1. Head(buffer) \in Sound /\ buffer' \in Seq(Sound)
    BY <1>1, <1>t, HeadTailProperties DEF ReadLine
  <2>2. /\ got' \subseteq {"RMC", "GGA"}
        /\ parsed' \in [lat : Int, lon : Int, is_valid : BOOLEAN, rmc : Age, gga : Age]
        /\ ParsedInv'
    <3>1. CASE Accepted(Head(buffer))
      <4>1. parsed' = Parse(Head(buffer)) /\ got' = got \cup {Head(buffer).kind}
        BY <1>1, <3>1 DEF ReadLine
      <4>. QED
        BY <2>1, <3>1, <4>1, <1>t, ParseDriver DEF Accepted, TypeOK
    <3>2. CASE ~Accepted(Head(buffer))
      BY <1>1, <1>t, <3>2 DEF ReadLine, TypeOK, ParsedInv, ParsedFix, Published
    <3>. QED
      BY <3>1, <3>2
  <2>3. EndAttempt /\ at = "read" /\ UNCHANGED <<signal, cut, coord, writing, age>>
    BY <1>1 DEF ReadLine
  <2>4. TypeOK'
    BY <1>e, <1>l, <1>t, <2>1, <2>2, <2>3 DEF TypeOK
  <2>5. WritingInv' /\ CoordInv'
    BY <1>e, <1>t, <2>3 DEF WritingInv, CoordInv
  <2>. QED
    BY <1>e, <2>1, <2>2, <2>3, <2>4, <2>5 DEF DriverInv
\* A second passes in the places `read' and `sleep'.
<1>2. ASSUME NEW lines \in Seq(Sound), Second(lines),
             at \in {"read", "sleep"}, at' \in {"read", "sleep", "store_latitude"},
             at' = "store_latitude" => parsed'.is_valid,
             attempt' \in 0..MaxAttempts, passed' \in 0..MaxSleep, got' = got,
             AttemptInv'
      PROVE  DriverInv'
  <2>1. /\ buffer' \in Seq(Sound)
        /\ parsed' \in [lat : Int, lon : Int, is_valid : BOOLEAN, rmc : Age, gga : Age]
        /\ parsed'.is_valid = parsed.is_valid /\ ParsedFix' = ParsedFix
        /\ age' \in Age /\ cut' \in BOOLEAN
        /\ UNCHANGED <<signal, coord, writing>>
    BY <1>2, SecondDriver
  <2>2. TypeOK'
    BY <1>2, <1>l, <1>t, <2>1 DEF TypeOK
  <2>3. ParsedInv' /\ WritingInv' /\ CoordInv'
    BY <1>2, <1>t, <2>1 DEF ParsedInv, WritingInv, CoordInv, Published
  <2>. QED
    BY <1>2, <2>1, <2>2, <2>3 DEF DriverInv
<1>3. CASE AwaitBurst
  <2>1. PICK lines \in Sent : Second(lines)
    BY <1>3 DEF AwaitBurst
  <2>2. lines \in Seq(Sound)
    BY SentSound
  <2>3. at = "read" /\ UNCHANGED <<at, attempt, got, passed>>
    BY <1>3 DEF AwaitBurst
  <2>4. AttemptInv' /\ attempt' \in 0..MaxAttempts /\ passed' \in 0..MaxSleep
    BY <1>t, <2>3 DEF AttemptInv, TypeOK
  <2>. QED
    BY <1>2, <2>1, <2>2, <2>3, <2>4
<1>4. CASE ReadTimeout
  <2>1. /\ <<>> \in Seq(Sound) /\ Second(<<>>)
        /\ at = "read" /\ EndAttempt /\ got' = got
    BY <1>4, EmptySeq DEF ReadTimeout
  <2>2. passed' \in 0..MaxSleep
    BY <1>e, <1>t, <2>1 DEF TypeOK
  <2>. QED
    BY <1>2, <1>e, <2>1, <2>2
<1>5. CASE StoreLatitude
  <2>1. ParsedFix \in Published /\ ParsedFix \in Position
    BY <1>5, <1>t DEF StoreLatitude, ParsedInv, WritingInv, ParsedFix, TypeOK, Position
  <2>2. UNCHANGED <<signal, buffer, cut, attempt, got, parsed, passed, age>>
    BY <1>5 DEF StoreLatitude
  <2>3. /\ writing' = {ParsedFix} /\ at' = "store_longitude"
        /\ coord' = [coord EXCEPT !.lat = parsed.lat]
    BY <1>5 DEF StoreLatitude, ParsedFix
  <2>4. TypeOK'
    BY <1>t, <2>1, <2>2, <2>3 DEF TypeOK, Position
  <2>5. CoordInv'
    <3>1. RawFirst => ParsedFix = NoFix
      BY <2>1 DEF Published
    <3>2. RawFirst => parsed.lat = 0
      BY <3>1 DEF ParsedFix, NoFix
    <3>. QED
      BY <1>t, <2>3, <3>2 DEF CoordInv, NoFix
  <2>6. ParsedInv' /\ WritingInv' /\ AttemptInv'
    BY <1>5, <1>t, <2>2, <2>3
       DEF ParsedInv, WritingInv, AttemptInv, ParsedFix, Published, StoreLatitude
  <2>. QED
    BY <1>t, <2>2, <2>4, <2>5, <2>6 DEF DriverInv
<1>6. CASE StoreLongitude
  <2>1. ParsedFix \in Published
    BY <1>6, <1>t DEF StoreLongitude, ParsedInv, WritingInv
  <2>2. UNCHANGED <<signal, buffer, cut, attempt, got, parsed, passed>>
    BY <1>6 DEF StoreLongitude
  <2>3. /\ writing' = {} /\ at' = "sleep" /\ age' = parsed.rmc
        /\ coord' = [coord EXCEPT !.lon = parsed.lon]
    BY <1>6 DEF StoreLongitude
  <2>4. TypeOK'
    BY <1>t, <2>2, <2>3 DEF TypeOK, Position
  <2>5. CoordInv'
    <3>1. RawFirst => ParsedFix = NoFix
      BY <2>1 DEF Published
    <3>2. RawFirst => parsed.lon = 0
      BY <3>1 DEF ParsedFix, NoFix
    <3>. QED
      BY <1>t, <2>3, <3>2 DEF CoordInv, NoFix
  <2>6. ParsedInv' /\ WritingInv' /\ AttemptInv'
    BY <1>t, <2>2, <2>3 DEF ParsedInv, WritingInv, AttemptInv, ParsedFix, Published
  <2>. QED
    BY <1>t, <2>2, <2>4, <2>5, <2>6 DEF DriverInv
<1>7. CASE Sleep
  <2>1. PICK lines \in {<<>>} \cup Sent : Second(lines)
    BY <1>7 DEF Sleep
  <2>2. lines \in Seq(Sound)
    BY SentSound, EmptySeq
  <2>3. at = "sleep" /\ UNCHANGED <<at, attempt, got>> /\ passed' = passed + 1
        /\ passed < MaxSleep
    BY <1>7 DEF Sleep
  <2>4. AttemptInv' /\ attempt' \in 0..MaxAttempts /\ passed' \in 0..MaxSleep
    BY <1>b, <1>t, <2>3 DEF AttemptInv, TypeOK
  <2>. QED
    BY <1>2, <2>1, <2>2, <2>3, <2>4
<1>8. CASE Wake
  <2>1. /\ at = "sleep" /\ at' = "read" /\ passed' = 0 /\ attempt' = 0 /\ got' = {}
        /\ parsed' = [parsed EXCEPT !.rmc = AgeLimit, !.gga = AgeLimit]
        /\ UNCHANGED <<signal, buffer, cut, coord, writing, age>>
    BY <1>8 DEF Wake
  <2>p. parsed' \in [lat : Int, lon : Int, is_valid : BOOLEAN, rmc : Age, gga : Age]
    BY <1>b, <1>t, <2>1 DEF TypeOK
  <2>2. TypeOK'
    BY <1>b, <1>t, <2>1, <2>p DEF TypeOK
  <2>3. parsed'.is_valid = parsed.is_valid /\ ParsedFix' = ParsedFix
    BY <1>t, <2>1 DEF TypeOK, ParsedFix
  <2>4. ParsedInv' /\ WritingInv' /\ CoordInv' /\ AttemptInv'
    BY <1>b, <1>t, <2>1, <2>3
       DEF ParsedInv, WritingInv, CoordInv, AttemptInv, Published
  <2>. QED
    BY <1>t, <2>1, <2>2, <2>4 DEF DriverInv
<1>9. CASE SignalChanges \/ UNCHANGED vars
  <2>1. UNCHANGED <<buffer, cut, at, attempt, got, parsed, passed, coord, writing, age>>
        /\ signal' \in Signal
    BY <1>9, <1>t DEF SignalChanges, vars, TypeOK
  <2>2. TypeOK'
    BY <1>t, <2>1 DEF TypeOK
  <2>. QED
    BY <1>t, <2>1, <2>2 DEF DriverInv, ParsedInv, WritingInv, CoordInv, AttemptInv,
                            ParsedFix, Published
<1>. QED
  BY <1>1, <1>3, <1>4, <1>5, <1>6, <1>7, <1>8, <1>9 DEF Next, GpsTask

\* The invariant holds for every receiver, buffer and order of evaluation.
THEOREM DriverInvariant == Spec => []DriverInv
BY InitDriver, NextDriver, PTL DEF Spec

\* Type correctness: no call makes more than MaxAttempts attempts.
THEOREM DriverTypeCorrect == Spec => []TypeOK
<1>1. DriverInv => TypeOK
  BY DEF DriverInv
<1>. QED
  BY <1>1, DriverInvariant, PTL

\* If the number is read before it is overwritten, gpsTask publishes as Gps says,
\* and with it CanSat: both coordinates of one position of the receiver.
THEOREM DriverImplementsGps == ~RawFirst => (Spec => ImplementsGps)
<1>. SUFFICES ASSUME ~RawFirst
              PROVE  Spec => ImplementsGps
  OBVIOUS
<1>1. DriverInv /\ [Next]_vars => [Feed!GpsTask]_pubVars
  <2>. SUFFICES ASSUME DriverInv, [Next]_vars
                PROVE  Feed!GpsTask \/ UNCHANGED pubVars
    OBVIOUS
  <2>t. /\ TypeOK /\ ParsedInv /\ WritingInv
        /\ parsed.is_valid => ParsedFix \in Fixes
    BY DEF DriverInv, ParsedInv, Published
  <2>1. CASE StoreLatitude
    <3>1. ParsedFix \in Fixes /\ writing = {}
      BY <2>1, <2>t DEF StoreLatitude, WritingInv
    <3>2. writing' = {ParsedFix} /\ coord' = [coord EXCEPT !.lat = ParsedFix.lat]
      BY <2>1 DEF StoreLatitude, ParsedFix
    <3>3. Feed!StoreLatitude(ParsedFix)
      BY <3>1, <3>2 DEF Feed!StoreLatitude, Feed!MuxFree, Feed!envVars, Feed!imuVars,
                        Feed!manoeuvre, Feed!runVars
    <3>. QED
      BY <3>1, <3>3 DEF Feed!GpsTask
  <2>2. CASE StoreLongitude
    <3>1. ParsedFix \in Fixes /\ ParsedFix \in writing
      BY <2>2, <2>t DEF StoreLongitude, WritingInv
    <3>2. writing' = {} /\ coord' = [coord EXCEPT !.lon = ParsedFix.lon]
      BY <2>2 DEF StoreLongitude, ParsedFix
    <3>3. Feed!StoreLongitude(ParsedFix)
      BY <3>1, <3>2 DEF Feed!StoreLongitude, Feed!envVars, Feed!imuVars,
                        Feed!manoeuvre, Feed!runVars
    <3>. QED
      BY <3>1, <3>3 DEF Feed!GpsTask
  <2>3. CASE ReadLine \/ AwaitBurst \/ ReadTimeout \/ Sleep \/ Wake \/ SignalChanges
    BY <2>3 DEF ReadLine, AwaitBurst, ReadTimeout, Sleep, Wake, SignalChanges, Second,
                pubVars
  <2>4. CASE UNCHANGED vars
    BY <2>4 DEF vars
  <2>. QED
    BY <2>1, <2>2, <2>3, <2>4 DEF Next, GpsTask
<1>. QED
  BY <1>1, DriverInvariant, PTL DEF Spec, ImplementsGps

\* GPS用コード.cpp:111-114 in the order of the build: whatever the receiver sends,
\* the published position is (0, 0) for ever.
THEOREM BuildPublishesNothing == RawFirst => (Spec => [](coord = NoFix))
<1>. SUFFICES ASSUME RawFirst
              PROVE  Spec => [](coord = NoFix)
  OBVIOUS
<1>1. DriverInv => coord = NoFix
  BY DEF DriverInv, CoordInv
<1>. QED
  BY <1>1, DriverInvariant, PTL
=============================================================================
