--------------------------- MODULE GpsDriverAges ---------------------------
(***************************************************************************)
(* How old a published position can be, and why positions come in their    *)
(* order, for every buffer, burst and number of attempts.                  *)
(*                                                                         *)
(* The receiver sends while the task sleeps.  That the lines do not grow   *)
(* old in the buffer without end is due to the pace of the calls: each     *)
(* takes two lines at least, and the next comes MaxSleep seconds later, so *)
(* that the line at place i has waited MaxSleep/2 seconds for each of the  *)
(* places it has moved up (WaitInv).  Once a call has one of its sentences *)
(* each further second costs it an attempt (CallInv).                      *)
(***************************************************************************)
EXTENDS GpsDriverProofs

Storing == at \in {"store_latitude", "store_longitude"}

\* Where the task stands, and what a call has then: it ends as soon as it has both.
GotInv ==
  /\ at = "read" => got # {"RMC", "GGA"}
  /\ at = "read" /\ attempt = 0 => got = {}
  /\ Storing => got = {"RMC", "GGA"} /\ attempt >= 2
  /\ at # "sleep" => passed = 0

\* Lines come from bursts, into a buffer that has room for them.
LinesInv ==
  /\ Len(buffer) <= Capacity
  /\ got # {} \/ buffer # <<>> => Burst # <<>> /\ Capacity > 0

\* Twice the seconds that a line in its place may have waited, above those for the
\* places it has moved up: the call has not taken its two lines yet.
Due ==
  CASE at = "sleep" -> 2 * passed
    [] at = "read" /\ attempt = 0 -> 2 * MaxSleep
    [] at = "read" /\ attempt = 1 -> MaxSleep
    [] OTHER -> 0

\* A line at place i has left behind the places from there to the end of the buffer.
WaitInv ==
  \A i \in 1..Len(buffer) :
    \/ at = "read" /\ buffer[i].age = 0
    \/ 2 * buffer[i].age <= MaxSleep * (Capacity - i) - 1 + Due

\* The age of the accepted sentence of kind k.
AgeOf(k) == IF k = "RMC" THEN parsed.rmc ELSE parsed.gga

\* A second within the call comes with an attempt: the one that failed, or that which
\* reads the next line.
CallInv ==
  \A k \in got :
    /\ at = "read" => AgeOf(k) <= Waited + attempt - (IF buffer = <<>> THEN 1 ELSE 0)
    /\ Storing => AgeOf(k) <= Waited + MaxAttempts - 1

AgesInv == GotInv /\ LinesInv /\ WaitInv /\ CallInv

-----------------------------------------------------------------------------
\* One position a second, and ages that are told apart as far as they can occur.
OneRMC == \A i, j \in DOMAIN Burst : Burst[i] = "RMC" /\ Burst[j] = "RMC" => i = j
ToldApart == Waited + MaxAttempts - 1 < AgeLimit

IsRMC(i) == buffer[i].kind = "RMC"

\* The positions in the buffer are in their order, and younger than the published one
\* and than that of the call; so is the latter than the published one.
OrderInv ==
  /\ \A i, j \in 1..Len(buffer) :
       i < j /\ IsRMC(i) /\ IsRMC(j) => buffer[j].age < buffer[i].age
  /\ \A i \in 1..Len(buffer) : IsRMC(i) => buffer[i].age < age
  /\ "RMC" \in got /\ at # "sleep" =>
       /\ parsed.rmc < age
       /\ \A i \in 1..Len(buffer) : IsRMC(i) => buffer[i].age < parsed.rmc

-----------------------------------------------------------------------------
\* What a second leaves in the buffer: the lines that were there, in their places and
\* older, and lines of the burst in the room that is left.
LEMMA ReceivedLines ==
  ASSUME buffer \in Seq(LineType), NEW lines \in Seq(LineType)
  PROVE  /\ Len(Received(lines)) \in Nat
         /\ Len(Received(lines)) <= Capacity
         /\ lines # <<>> /\ Capacity > 0 => Received(lines) # <<>>
         /\ Received(lines) # <<>> => buffer # <<>> \/ lines # <<>>
         /\ \A i \in 1..Len(Received(lines)) :
              \/ /\ i \in 1..Len(buffer)
                 /\ Received(lines)[i] = [buffer[i] EXCEPT !.age = Older(@)]
              \/ /\ i > Len(buffer) /\ i - Len(buffer) \in 1..Len(lines)
                 /\ Received(lines)[i] = lines[i - Len(buffer)]
<1>. DEFINE older == [i \in DOMAIN buffer |-> [buffer[i] EXCEPT !.age = Older(@)]]
            all == older \o lines
            kept == IF Len(all) < Capacity THEN Len(all) ELSE Capacity
<1>1. Len(buffer) \in Nat /\ Len(lines) \in Nat /\ DOMAIN buffer = 1..Len(buffer)
  OBVIOUS
<1>2. \A i \in 1..Len(buffer) : [buffer[i] EXCEPT !.age = Older(@)] \in LineType
  <2>. TAKE i \in 1..Len(buffer)
  <2>1. buffer[i] \in LineType
    BY ElementOfSeq
  <2>2. Older(buffer[i].age) \in Age
    BY <2>1, BoundAssumption DEF LineType, Older, Age
  <2>. QED
    BY <2>1, <2>2 DEF LineType
<1>3. older \in [1..Len(buffer) -> LineType]
  BY <1>1, <1>2
<1>4. older \in Seq(LineType)
  BY <1>1, <1>3, SeqDef
<1>o. Len(older) = Len(buffer)
  BY <1>1, <1>4
<1>o2. \A i \in 1..Len(buffer) : older[i] = [buffer[i] EXCEPT !.age = Older(@)]
  BY <1>1
<1>. HIDE DEF older
<1>c. /\ all \in Seq(LineType) /\ Len(all) = Len(older) + Len(lines)
      /\ \A i \in 1..Len(older) + Len(lines) :
           all[i] = IF i <= Len(older) THEN older[i] ELSE lines[i - Len(older)]
  BY <1>4, ConcatProperties
<1>. HIDE DEF all
<1>5. /\ all \in Seq(LineType) /\ Len(all) = Len(buffer) + Len(lines)
      /\ \A i \in 1..Len(all) : all[i] = IF i <= Len(buffer) THEN older[i]
                                         ELSE lines[i - Len(buffer)]
  BY <1>1, <1>c, <1>o
<1>6. kept \in Nat /\ kept <= Len(all) /\ kept <= Capacity
      /\ (lines # <<>> /\ Capacity > 0 => kept > 0)
      /\ (kept > 0 => buffer # <<>> \/ lines # <<>>)
  <2>1. lines # <<>> => Len(lines) > 0
    BY <1>1, EmptySeq
  <2>2. Len(buffer) > 0 => buffer # <<>>
    BY EmptySeq
  <2>3. Len(lines) > 0 => lines # <<>>
    BY EmptySeq
  <2>. QED
    BY <1>1, <1>5, <2>1, <2>2, <2>3, BoundAssumption
<1>. HIDE DEF kept
<1>7. \A i \in 1..kept : all[i] \in LineType
  <2>. TAKE i \in 1..kept
  <2>1. i \in 1..Len(all)
    BY <1>5, <1>6
  <2>. QED
    BY <2>1, <1>5, ElementOfSeq
<1>8. /\ Len(SubSeq(all, 1, kept)) = kept
      /\ \A i \in 1..kept : SubSeq(all, 1, kept)[i] = all[i]
  BY <1>6, <1>7, SubSeqProperties
<1>9. Received(lines) = SubSeq(all, 1, kept)
  BY DEF Received, all, older, kept
<1>10. ASSUME NEW i \in 1..kept
       PROVE  \/ /\ i \in 1..Len(buffer)
                 /\ all[i] = [buffer[i] EXCEPT !.age = Older(@)]
              \/ /\ i > Len(buffer) /\ i - Len(buffer) \in 1..Len(lines)
                 /\ all[i] = lines[i - Len(buffer)]
  <2>1. i \in Nat /\ i >= 1 /\ i <= Len(buffer) + Len(lines)
    BY <1>1, <1>5, <1>6
  <2>2. CASE i <= Len(buffer)
    <3>1. i \in 1..Len(buffer) /\ i \in 1..Len(all)
      BY <1>1, <1>5, <1>6, <2>1, <2>2
    <3>2. all[i] = older[i]
      BY <1>5, <2>2, <3>1
    <3>. QED
      BY <1>o2, <3>1, <3>2
  <2>3. CASE i > Len(buffer)
    BY <1>1, <1>5, <1>6, <2>1, <2>3
  <2>. QED
    BY <1>1, <2>1, <2>2, <2>3
<1>s. SubSeq(all, 1, kept) \in Seq(LineType)
  BY <1>6, <1>7, SubSeqProperties
<1>11. SubSeq(all, 1, kept) # <<>> => kept > 0
  BY <1>6, <1>8, <1>s, EmptySeq
<1>12. kept > 0 => SubSeq(all, 1, kept) # <<>>
  BY <1>6, <1>8, EmptySeq
<1>. QED
  BY <1>6, <1>8, <1>9, <1>10, <1>11, <1>12

\* The lines of a burst are of this second, and of the kinds of the burst.
LEMMA SentLines ==
  ASSUME NEW lines \in Sent
  PROVE  /\ lines \in Seq(LineType) /\ Len(lines) = Len(Burst)
         /\ \A i \in 1..Len(lines) : lines[i].age = 0 /\ lines[i].kind = Burst[i]
<1>1. PICK f \in Fixes \cup {NoFix},
           damaged \in {lost \cup (IF cut THEN {1} ELSE {}) : lost \in Noise} :
        lines = [i \in DOMAIN Burst |-> IF i \in damaged THEN Damaged(Line(Burst[i], f))
                                        ELSE Line(Burst[i], f)]
  BY DEF Sent
<1>2. /\ DOMAIN Burst = 1..Len(Burst) /\ Len(Burst) \in Nat
      /\ \A i \in 1..Len(Burst) : Burst[i] \in Kind
  BY BurstAssumption, ElementOfSeq DEF Kind
<1>3. lines \in Seq(LineType)
  <2>1. Seq(Sound) \subseteq Seq(LineType)
    BY SeqMonotonic DEF Sound
  <2>. QED
    BY <2>1, SentSound
<1>4. Len(lines) = Len(Burst)
  BY <1>1, <1>2, <1>3
<1>5. ASSUME NEW i \in 1..Len(Burst)
      PROVE  lines[i].age = 0 /\ lines[i].kind = Burst[i]
  <2>. DEFINE l == Line(Burst[i], f)
  <2>1. l \in LineType
    BY <1>2, LineSound DEF Sound
  <2>2. l.age = 0 /\ l.kind = Burst[i]
    BY DEF Line
  <2>3. lines[i] = IF i \in damaged THEN Damaged(l) ELSE l
    BY <1>1, <1>2
  <2>. HIDE DEF l
  <2>. QED
    BY <2>1, <2>2, <2>3, DamagedSound
<1>. QED
  BY <1>3, <1>4, <1>5

\* A second, line by line.
LEMMA SecondLines ==
  ASSUME DriverInv, NEW lines \in {<<>>} \cup Sent, Second(lines)
  PROVE  /\ Len(buffer') \in Nat /\ Len(buffer') <= Capacity
         /\ lines # <<>> /\ Capacity > 0 => buffer' # <<>>
         /\ buffer' # <<>> => buffer # <<>> \/ lines # <<>>
         /\ lines # <<>> => Burst # <<>>
         /\ Burst # <<>> /\ lines \in Sent => lines # <<>>
         /\ \A i \in 1..Len(buffer') :
              \/ /\ i \in 1..Len(buffer)
                 /\ buffer'[i].kind = buffer[i].kind
                 /\ buffer'[i].age = Older(buffer[i].age)
              \/ /\ i > Len(buffer) /\ i - Len(buffer) \in 1..Len(Burst)
                 /\ buffer'[i].kind = Burst[i - Len(buffer)]
                 /\ buffer'[i].age = 0
<1>1. buffer \in Seq(LineType)
  BY SeqMonotonic DEF DriverInv, Sound
<1>2. lines \in Seq(LineType) /\ Len(lines) \in Nat
  <2>1. <<>> \in Seq(LineType)
    BY EmptySeq
  <2>2. lines \in Seq(LineType)
    BY <2>1, SentLines
  <2>. QED
    BY <2>2, LenProperties
<1>. DEFINE b == Received(lines)
<1>r. b \in Seq(LineType)
  <2>1. lines \in Seq(Sound)
    BY SentSound, EmptySeq
  <2>2. b \in Seq(Sound)
    BY <2>1, ReceivedSound DEF DriverInv
  <2>. QED
    BY <2>2, SeqMonotonic DEF Sound
<1>. HIDE DEF b
<1>3. /\ Len(buffer') = Len(b) /\ (buffer' = <<>> <=> b = <<>>)
      /\ \A i \in 1..Len(b) : buffer'[i].kind = b[i].kind /\ buffer'[i].age = b[i].age
  <2>1. buffer' = b \/ buffer' = CutLast(b)
    BY DEF Second, Arrive, b
  <2>2. Len(buffer') = Len(b) /\ buffer' \in Seq(LineType)
    BY <1>r, <2>1, CutLines
  <2>3. buffer' = <<>> <=> b = <<>>
    BY <1>r, <2>2, EmptySeq
  <2>. QED
    BY <1>r, <2>1, <2>2, <2>3, CutLines
<1>4. \A i \in 1..Len(lines) :
        i \in 1..Len(Burst) /\ lines[i].age = 0 /\ lines[i].kind = Burst[i]
  BY SentLines, EmptySeq
<1>5. (lines # <<>> => Burst # <<>>) /\ (Burst # <<>> /\ lines \in Sent => lines # <<>>)
  <2>1. lines \in Sent => Len(lines) = Len(Burst)
    BY SentLines
  <2>. QED
    BY <1>2, <2>1, EmptySeq, BurstAssumption
<1>6. ASSUME NEW i \in 1..Len(buffer), NEW l, l = [buffer[i] EXCEPT !.age = Older(@)]
      PROVE  l.kind = buffer[i].kind /\ l.age = Older(buffer[i].age)
  <2>1. buffer[i] \in LineType
    BY <1>1, ElementOfSeq
  <2>. QED
    BY <1>6, <2>1 DEF LineType
<1>7. ASSUME NEW i \in 1..Len(buffer')
      PROVE  \/ /\ i \in 1..Len(buffer)
                /\ buffer'[i].kind = buffer[i].kind
                /\ buffer'[i].age = Older(buffer[i].age)
             \/ /\ i > Len(buffer) /\ i - Len(buffer) \in 1..Len(Burst)
                /\ buffer'[i].kind = Burst[i - Len(buffer)]
                /\ buffer'[i].age = 0
  <2>1. \/ /\ i \in 1..Len(buffer)
           /\ b[i] = [buffer[i] EXCEPT !.age = Older(@)]
        \/ /\ i > Len(buffer) /\ i - Len(buffer) \in 1..Len(lines)
           /\ b[i] = lines[i - Len(buffer)]
    BY <1>1, <1>2, <1>3, ReceivedLines DEF b
  <2>2. buffer'[i].kind = b[i].kind /\ buffer'[i].age = b[i].age
    BY <1>3
  <2>. QED
    BY <1>4, <1>6, <2>1, <2>2
<1>8. /\ Len(b) \in Nat /\ Len(b) <= Capacity
      /\ lines # <<>> /\ Capacity > 0 => b # <<>>
      /\ b # <<>> => buffer # <<>> \/ lines # <<>>
  BY <1>1, <1>2, ReceivedLines DEF b
<1>. QED
  BY <1>3, <1>5, <1>7, <1>8

-----------------------------------------------------------------------------
\* A step outside the task's program changes nothing of it.
LEMMA Idle ==
  ASSUME SignalChanges \/ UNCHANGED vars
  PROVE  UNCHANGED <<buffer, at, attempt, got, parsed, passed, age>>
BY DEF SignalChanges, vars, taskVars, pubVars

\* What a call has got, step by step: the first sentence needs one attempt, the second
\* another.
LEMMA NextGot ==
  ASSUME DriverInv, GotInv, [Next]_vars
  PROVE  GotInv'
<1>t. /\ attempt \in Nat /\ got \subseteq {"RMC", "GGA"}
      /\ at \in {"read", "store_latitude", "store_longitude", "sleep"}
  BY BoundAssumption DEF DriverInv, TypeOK
<1>1. CASE ReadLine
  <2>1. /\ at = "read" /\ EndAttempt
        /\ got' = got \/ \E k : got' = got \cup {k}
    BY <1>1 DEF ReadLine
  <2>2. passed = 0 /\ (attempt = 0 => got = {})
    BY <2>1 DEF GotInv
  <2>3. attempt = 0 => got' # {"RMC", "GGA"}
    BY <2>1, <2>2
  <2>. QED
    BY <1>t, <2>1, <2>2, <2>3 DEF GotInv, EndAttempt, Storing
<1>2. CASE ReadTimeout
  <2>1. at = "read" /\ EndAttempt /\ got' = got
    BY <1>2 DEF ReadTimeout
  <2>. QED
    BY <1>t, <2>1 DEF GotInv, EndAttempt, Storing
<1>3. CASE AwaitBurst
  BY <1>3 DEF AwaitBurst, GotInv, Storing
<1>4. CASE StoreLatitude \/ StoreLongitude
  BY <1>4, <1>t DEF StoreLatitude, StoreLongitude, GotInv, Storing
<1>5. CASE Sleep
  BY <1>5 DEF Sleep, GotInv, Storing
<1>6. CASE Wake
  BY <1>6 DEF Wake, GotInv, Storing
<1>7. CASE SignalChanges \/ UNCHANGED vars
  BY <1>7, Idle DEF GotInv, Storing
<1>. QED
  BY <1>1, <1>2, <1>3, <1>4, <1>5, <1>6, <1>7 DEF Next, GpsTask

\* How a step changes the buffer: a second passes, its first line is read, or nothing.
LEMMA BufferStep ==
  ASSUME DriverInv, [Next]_vars
  PROVE  \/ /\ AwaitBurst \/ ReadTimeout \/ Sleep
            /\ \E lines \in {<<>>} \cup Sent : Second(lines)
            /\ got' = got
         \/ ReadLine
         \/ /\ StoreLatitude \/ StoreLongitude \/ Wake \/ SignalChanges \/ UNCHANGED vars
            /\ UNCHANGED buffer /\ got' \subseteq got
<1>1. CASE AwaitBurst \/ ReadTimeout \/ Sleep
  BY <1>1 DEF AwaitBurst, ReadTimeout, Sleep
<1>2. CASE StoreLatitude \/ StoreLongitude \/ Wake
  BY <1>2 DEF StoreLatitude, StoreLongitude, Wake
<1>3. CASE SignalChanges \/ UNCHANGED vars
  BY <1>3, Idle
<1>. QED
  BY <1>1, <1>2, <1>3 DEF Next, GpsTask

\* Reading a line moves the others up by one place.
LEMMA ReadMovesUp ==
  ASSUME DriverInv, ReadLine
  PROVE  /\ Len(buffer) \in Nat \ {0} /\ Len(buffer') = Len(buffer) - 1
         /\ Head(buffer) = buffer[1]
         /\ \A i \in 1..Len(buffer') :
              i + 1 \in 1..Len(buffer) /\ buffer'[i] = buffer[i + 1]
<1>1. buffer \in Seq(Sound) /\ buffer # <<>> /\ buffer' = Tail(buffer)
  BY DEF DriverInv, ReadLine
<1>. QED
  BY <1>1, HeadTailProperties, EmptySeq

\* The buffer does not run over, and has lines only of bursts.
LEMMA NextLines ==
  ASSUME DriverInv, LinesInv, [Next]_vars
  PROVE  LinesInv'
<1>b. Capacity \in Nat
  BY BoundAssumption
<1>1. ASSUME NEW lines \in {<<>>} \cup Sent, Second(lines), got' = got
      PROVE  LinesInv'
  <2>1. Len(buffer') > 0 => Capacity > 0
    BY <1>b, <1>1, SecondLines
  <2>2. buffer' # <<>> => Len(buffer') > 0
    <3>1. buffer' \in Seq(Sound)
      BY <1>1, SecondDriver, SentSound, EmptySeq
    <3>. QED
      BY <3>1, EmptySeq
  <2>. QED
    BY <1>1, <2>1, <2>2, SecondLines DEF LinesInv
<1>2. CASE ReadLine
  <2>1. buffer # <<>>
    BY <1>2 DEF ReadLine
  <2>2. Len(buffer') <= Capacity
    BY <1>b, <1>2, ReadMovesUp DEF LinesInv
  <2>. QED
    BY <2>1, <2>2 DEF LinesInv
<1>3. CASE UNCHANGED buffer /\ got' \subseteq got
  BY <1>3 DEF LinesInv
<1>. QED
  BY <1>1, <1>2, <1>3, BufferStep

-----------------------------------------------------------------------------
\* One place of the buffer is worth MaxSleep.
LEMMA Places ==
  ASSUME NEW c \in Int
  PROVE  /\ MaxSleep * c \in Int
         /\ MaxSleep * (c - 1) = MaxSleep * c - MaxSleep
         /\ c >= 0 => MaxSleep * c >= 0
<1>1. MaxSleep \in Nat \ {0}
  BY BoundAssumption
<1>. QED
  BY <1>1

LEMMA WaitedIsNat == Waited \in Nat
<1>. DEFINE w == MaxSleep * (Capacity + 1) - 1
<1>1. w \in Nat
  <2>1. /\ MaxSleep * Capacity \in Int /\ MaxSleep * Capacity >= 0
        /\ MaxSleep * (Capacity + 1) = MaxSleep * Capacity + MaxSleep
        /\ MaxSleep >= 1 /\ MaxSleep \in Nat
    BY BoundAssumption
  <2>. QED
    BY <2>1
<1>. HIDE DEF w
<1>2. w \div 2 \in Nat
  BY <1>1
<1>. QED
  BY <1>2 DEF Waited, w

LEMMA OlderBy ==
  ASSUME NEW a \in Age
  PROVE  Older(a) \in Age /\ Older(a) \in Nat /\ Older(a) <= a + 1
BY BoundAssumption DEF Older, Age

\* The ages in the buffer and of the call are numbers.
LEMMA AgesAreNat ==
  ASSUME DriverInv
  PROVE  /\ \A i \in 1..Len(buffer) : buffer[i].age \in Age /\ buffer[i].age \in Nat
         /\ parsed.rmc \in Age /\ parsed.gga \in Age /\ age \in Age
         /\ parsed.rmc \in Nat /\ parsed.gga \in Nat /\ age \in Nat
         /\ attempt \in Nat /\ passed \in Nat /\ passed <= MaxSleep
         /\ Len(buffer) \in Nat
<1>1. Age \subseteq Nat
  BY BoundAssumption DEF Age
<1>2. ASSUME NEW i \in 1..Len(buffer)
      PROVE  buffer[i].age \in Age
  <2>1. buffer[i] \in Sound
    BY ElementOfSeq DEF DriverInv
  <2>. QED
    BY <2>1 DEF Sound, LineType
<1>3. Len(buffer) \in Nat
  BY LenProperties DEF DriverInv
<1>4. /\ parsed.rmc \in Age /\ parsed.gga \in Age /\ age \in Age
      /\ attempt \in 0..MaxAttempts /\ passed \in 0..MaxSleep
  BY DEF DriverInv, TypeOK
<1>5. attempt \in Nat /\ passed \in Nat /\ passed <= MaxSleep
  BY <1>4, BoundAssumption
<1>. QED
  BY <1>1, <1>2, <1>3, <1>4, <1>5

-----------------------------------------------------------------------------
\* The lines keep the pace: those of a call with one attempt would not, but such a call
\* gets nothing.
LEMMA NextWait ==
  ASSUME DriverInv, GotInv, LinesInv, WaitInv, MaxAttempts # 1, [Next]_vars
  PROVE  WaitInv'
<1>b. /\ MaxAttempts \in Nat /\ MaxAttempts >= 2
      /\ MaxSleep \in Nat /\ MaxSleep >= 1 /\ Capacity \in Nat
  BY BoundAssumption
<1>t. /\ attempt \in Nat /\ passed \in Nat /\ passed <= MaxSleep /\ Len(buffer) \in Nat
      /\ at \in {"read", "store_latitude", "store_longitude", "sleep"}
      /\ got \subseteq {"RMC", "GGA"}
  BY AgesAreNat DEF DriverInv, TypeOK
<1>1. CASE ReadLine
  <2>1. at = "read" /\ EndAttempt
    BY <1>1 DEF ReadLine
  <2>. SUFFICES ASSUME NEW i \in 1..Len(buffer')
                PROVE  \/ at' = "read" /\ buffer'[i].age = 0
                       \/ 2 * buffer'[i].age <= MaxSleep * (Capacity - i) - 1 + Due'
    BY DEF WaitInv
  <2>2. /\ i + 1 \in 1..Len(buffer) /\ i + 1 <= Capacity /\ i \in Int
        /\ buffer'[i] = buffer[i + 1] /\ buffer'[i].age \in Nat
    BY <1>1, <1>t, <1>b, ReadMovesUp, AgesAreNat DEF LinesInv
  <2>. DEFINE l == buffer'[i].age
              p == MaxSleep * (Capacity - i)
  <2>3. /\ MaxSleep * (Capacity - (i + 1)) = p - MaxSleep
        /\ MaxSleep * (Capacity - (i + 1)) >= 0 /\ p \in Int
    <3>1. Capacity - i \in Int /\ Capacity - (i + 1) = (Capacity - i) - 1
      BY <1>b, <2>2
    <3>2. Capacity - (i + 1) \in Int /\ Capacity - (i + 1) >= 0
      BY <1>b, <2>2
    <3>. QED
      BY <3>1, <3>2, Places
  <2>4. l = 0 \/ 2 * l <= p - MaxSleep - 1 + Due
    <3>1. l = 0 \/ 2 * l <= MaxSleep * (Capacity - (i + 1)) - 1 + Due
      BY <2>2 DEF WaitInv
    <3>. HIDE DEF l, p
    <3>. QED
      BY <2>3, <3>1
  <2>5. p \in Int /\ p >= MaxSleep
    <3>. HIDE DEF p
    <3>. QED
      BY <1>b, <2>3
  <2>6. attempt' = attempt + 1
    BY <2>1 DEF EndAttempt
  <2>7. at' # "read" => attempt >= 1
    <3>1. attempt = 0 => got' # {"RMC", "GGA"}
      <4>1. got' = got \/ \E k : got' = got \cup {k}
        BY <1>1 DEF ReadLine
      <4>2. attempt = 0 => got = {}
        BY <2>1 DEF GotInv
      <4>. QED
        BY <4>1, <4>2
    <3>. QED
      BY <1>b, <1>t, <2>1, <3>1 DEF EndAttempt
  <2>p. passed' = 0
    BY <2>1 DEF EndAttempt, GotInv
  <2>8. /\ at' = "read" /\ attempt = 0 => Due' = MaxSleep
        /\ attempt >= 1 => Due' = 0
    BY <1>t, <2>1, <2>6, <2>p DEF Due, EndAttempt
  <2>9. /\ attempt = 0 => Due = 2 * MaxSleep
        /\ attempt = 1 => Due = MaxSleep
        /\ attempt > 1 => Due = 0
    BY <1>t, <2>1 DEF Due
  <2>10. l \in Nat
    BY <2>2
  <2>. HIDE DEF l, p
  <2>11. \/ at' = "read" /\ l = 0
         \/ 2 * l <= p - 1 + Due'
    <3>1. CASE at' = "read" /\ attempt = 0
      BY <1>b, <2>4, <2>5, <2>8, <2>9, <2>10, <3>1
    <3>2. CASE attempt = 1
      BY <1>b, <2>4, <2>5, <2>8, <2>9, <2>10, <3>2
    <3>3. CASE attempt > 1
      BY <1>b, <1>t, <2>4, <2>5, <2>8, <2>9, <2>10, <3>3
    <3>. QED
      BY <1>t, <2>7, <3>1, <3>2, <3>3
  <2>. QED
    BY <2>11 DEF l, p
\* While a call waits, the buffer is empty, and what comes is new.
<1>2. CASE AwaitBurst
  <2>1. PICK lines \in Sent : Second(lines)
    BY <1>2 DEF AwaitBurst
  <2>2. at' = "read" /\ Len(buffer) = 0
    BY <1>2 DEF AwaitBurst
  <2>3. \A i \in 1..Len(buffer') : buffer'[i].age = 0
    BY <2>1, <2>2, SecondLines
  <2>. QED
    BY <2>2, <2>3 DEF WaitInv
<1>3. CASE ReadTimeout
  <2>1. Second(<<>>) /\ Len(buffer) = 0 /\ buffer = <<>>
    BY <1>3 DEF ReadTimeout
  <2>2. buffer' = <<>>
    BY <2>1, SecondLines
  <2>. QED
    BY <2>2 DEF WaitInv
<1>4. CASE Sleep
  <2>1. PICK lines \in {<<>>} \cup Sent : Second(lines)
    BY <1>4 DEF Sleep
  <2>2. at = "sleep" /\ at' = "sleep" /\ passed' = passed + 1
    BY <1>4 DEF Sleep
  <2>3. Due = 2 * passed /\ Due' = 2 * passed + 2
    BY <1>t, <2>2 DEF Due
  <2>. SUFFICES ASSUME NEW i \in 1..Len(buffer')
                PROVE  2 * buffer'[i].age <= MaxSleep * (Capacity - i) - 1 + Due'
    BY DEF WaitInv
  <2>4. i \in Nat /\ i <= Capacity
    BY <1>b, <2>1, SecondLines
  <2>5. MaxSleep * (Capacity - i) \in Int /\ MaxSleep * (Capacity - i) >= 0
    BY <1>b, <2>4, Places
  <2>6. CASE i \in 1..Len(buffer) /\ buffer'[i].age = Older(buffer[i].age)
    <3>. DEFINE p == MaxSleep * (Capacity - i)
                l == buffer[i].age
                m == buffer'[i].age
    <3>1. 2 * l <= p - 1 + Due
      BY <2>2, <2>6 DEF WaitInv
    <3>2. l \in Nat /\ m \in Nat /\ m <= l + 1
      BY <2>6, AgesAreNat, OlderBy
    <3>3. p \in Int /\ passed \in Nat
      BY <1>t, <2>5
    <3>. HIDE DEF p, l, m
    <3>4. 2 * m <= p - 1 + Due'
      BY <2>3, <3>1, <3>2, <3>3
    <3>. QED
      BY <3>4 DEF p, m
  <2>7. CASE buffer'[i].age = 0
    BY <1>t, <2>3, <2>5, <2>7
  <2>. QED
    BY <2>1, <2>6, <2>7, SecondLines
<1>5. CASE StoreLatitude \/ StoreLongitude
  <2>1. UNCHANGED <<buffer, passed>> /\ at # "read" /\ at # "sleep" /\ at' # "read"
    BY <1>5 DEF StoreLatitude, StoreLongitude
  <2>2. passed = 0
    BY <2>1, <1>t DEF GotInv
  <2>3. Due = 0 /\ Due' = 0
    BY <1>t, <2>1, <2>2 DEF Due
  <2>. QED
    BY <2>1, <2>3 DEF WaitInv
<1>6. CASE Wake
  <2>1. at = "sleep" /\ at' = "read" /\ attempt' = 0 /\ UNCHANGED buffer
    BY <1>6 DEF Wake
  <2>2. Due = 2 * passed /\ Due' = 2 * MaxSleep
    BY <2>1 DEF Due
  <2>. SUFFICES ASSUME NEW i \in 1..Len(buffer)
                PROVE  2 * buffer[i].age <= MaxSleep * (Capacity - i) - 1 + Due'
    BY <2>1 DEF WaitInv
  <2>3. 2 * buffer[i].age <= MaxSleep * (Capacity - i) - 1 + Due
    BY <2>1 DEF WaitInv
  <2>4. MaxSleep * (Capacity - i) \in Int /\ buffer[i].age \in Nat
    BY <1>b, <1>t, Places, AgesAreNat
  <2>. QED
    BY <1>b, <1>t, <2>2, <2>3, <2>4
<1>7. CASE SignalChanges \/ UNCHANGED vars
  BY <1>7, Idle DEF WaitInv, Due
<1>. QED
  BY <1>1, <1>2, <1>3, <1>4, <1>5, <1>6, <1>7 DEF Next, GpsTask

\* So no line in the buffer is older than Waited.
LEMMA LinesWaited ==
  ASSUME DriverInv, WaitInv, LinesInv, NEW i \in 1..Len(buffer)
  PROVE  buffer[i].age \in Nat /\ buffer[i].age <= Waited
<1>b. /\ MaxSleep \in Nat /\ MaxSleep >= 1 /\ Capacity \in Nat
      /\ i \in Nat /\ i >= 1 /\ i <= Capacity
  BY BoundAssumption, AgesAreNat DEF LinesInv
<1>. DEFINE l == buffer[i].age
            p == MaxSleep * (Capacity - i)
            q == MaxSleep * (i - 1)
            w == MaxSleep * (Capacity + 1) - 1
<1>1. p \in Int /\ p >= 0 /\ q \in Int /\ q >= 0
  BY <1>b, Places
<1>2. w = p + q + 2 * MaxSleep - 1
  <2>1. Capacity + 1 = (Capacity - i) + (i - 1) + 2
    BY <1>b
  <2>2. \A c, d \in Int : MaxSleep * (c + d + 2) = MaxSleep * c + MaxSleep * d + 2 * MaxSleep
    BY <1>b
  <2>3. Capacity - i \in Int /\ i - 1 \in Int
    BY <1>b
  <2>4. MaxSleep * ((Capacity - i) + (i - 1) + 2) = p + q + 2 * MaxSleep
    BY <2>2, <2>3
  <2>5. MaxSleep * (Capacity + 1) = p + q + 2 * MaxSleep
    BY <2>1, <2>4
  <2>. HIDE DEF p, q
  <2>. QED
    BY <1>b, <1>1, <2>5
<1>4. l = 0 \/ 2 * l <= p - 1 + Due
  BY DEF WaitInv
<1>5. Due <= 2 * MaxSleep /\ Due \in Nat
  <2>1. passed \in Nat /\ passed <= MaxSleep
    BY AgesAreNat
  <2>. QED
    BY <1>b, <2>1 DEF Due
<1>6. l \in Nat
  BY AgesAreNat
<1>. HIDE DEF l, p, q, w
<1>7. w \in Nat /\ 2 * l <= w
  BY <1>b, <1>1, <1>2, <1>4, <1>5, <1>6
<1>8. w \div 2 \in Nat /\ l <= w \div 2
  BY <1>6, <1>7
<1>. QED
  BY <1>6, <1>8 DEF l, w, Waited

-----------------------------------------------------------------------------
\* A sentence is accepted once in a call, and its age with it.
LEMMA Accepts ==
  ASSUME DriverInv, ReadLine
  PROVE  /\ got \subseteq got'
         /\ \A k \in got : AgeOf(k)' = AgeOf(k)
         /\ \A k \in got' \ got : k = buffer[1].kind /\ AgeOf(k)' = buffer[1].age
         /\ got' \subseteq {"RMC", "GGA"}
<1>t. /\ parsed \in [lat : Int, lon : Int, is_valid : BOOLEAN, rmc : Age, gga : Age]
      /\ got \subseteq {"RMC", "GGA"}
  BY DEF DriverInv, TypeOK
<1>h. Head(buffer) = buffer[1]
  BY ReadMovesUp
<1>1. CASE Accepted(Head(buffer))
  <2>. DEFINE l == buffer[1]
  <2>1. got' = got \cup {l.kind} /\ parsed' = Parse(l) /\ l.kind \in {"RMC", "GGA"} \ got
    BY <1>h, <1>1 DEF ReadLine, Accepted
  <2>. HIDE DEF l
  <2>2. CASE l.kind = "GGA"
    <3>1. parsed' = [parsed EXCEPT !.gga = l.age]
      BY <2>1, <2>2 DEF Parse
    <3>2. parsed'.gga = l.age /\ parsed'.rmc = parsed.rmc
      BY <1>t, <3>1
    <3>. QED
      BY <1>t, <2>1, <2>2, <3>2 DEF AgeOf, l
  <2>3. CASE l.kind = "RMC"
    <3>1. parsed'.rmc = l.age /\ parsed'.gga = parsed.gga
      BY <1>t, <2>1, <2>3 DEF Parse
    <3>. QED
      BY <1>t, <2>1, <2>3, <3>1 DEF AgeOf, l
  <2>. QED
    BY <2>1, <2>2, <2>3
<1>2. CASE ~Accepted(Head(buffer))
  BY <1>t, <1>2 DEF ReadLine, AgeOf
<1>. QED
  BY <1>1, <1>2

\* A second makes the accepted sentences older.
LEMMA SecondAges ==
  ASSUME DriverInv, NEW lines, Second(lines)
  PROVE  /\ parsed'.rmc = Older(parsed.rmc) /\ parsed'.gga = Older(parsed.gga)
         /\ \A k : AgeOf(k)' = Older(AgeOf(k)) /\ AgeOf(k) \in Age
         /\ age' = Older(age)
<1>1. parsed \in [lat : Int, lon : Int, is_valid : BOOLEAN, rmc : Age, gga : Age]
  BY DEF DriverInv, TypeOK
<1>. QED
  BY <1>1 DEF Second, AgeOf

\* A call that has a sentence uses an attempt for each second.
LEMMA NextCall ==
  ASSUME DriverInv, GotInv, LinesInv, WaitInv, CallInv, [Next]_vars
  PROVE  CallInv'
<1>b. MaxAttempts \in Nat /\ Waited \in Int
  BY WaitedIsNat, BoundAssumption
<1>t. /\ attempt \in Nat /\ parsed.rmc \in Nat /\ parsed.gga \in Nat
      /\ at = "read" => attempt < MaxAttempts
      /\ \A k : AgeOf(k) \in Nat
  BY AgesAreNat DEF DriverInv, AttemptInv, AgeOf
<1>1. CASE ReadLine
  <2>1. at = "read" /\ buffer # <<>> /\ attempt' = attempt + 1
    BY <1>1 DEF ReadLine, EndAttempt
  <2>2. buffer[1].age \in Nat /\ buffer[1].age <= Waited
    <3>1. 1 \in 1..Len(buffer)
      BY <1>1, ReadMovesUp
    <3>. QED
      BY <3>1, LinesWaited
  <2>. SUFFICES ASSUME NEW k \in got'
                PROVE  AgeOf(k)' \in Nat /\ AgeOf(k)' <= Waited + attempt
    BY <1>b, <1>t, <2>1 DEF CallInv
  <2>3. CASE k \in got
    <3>1. AgeOf(k)' = AgeOf(k)
      BY <1>1, <2>3, Accepts
    <3>. QED
      BY <1>b, <1>t, <2>1, <2>3, <3>1 DEF CallInv
  <2>4. CASE k \notin got
    <3>1. AgeOf(k)' = buffer[1].age
      BY <1>1, <2>4, Accepts
    <3>. QED
      BY <1>b, <1>t, <2>2, <3>1
  <2>. QED
    BY <2>3, <2>4
<1>2. CASE AwaitBurst
  <2>1. PICK lines \in Sent : Second(lines)
    BY <1>2 DEF AwaitBurst
  <2>2. at = "read" /\ buffer = <<>> /\ UNCHANGED <<at, attempt, got>>
    BY <1>2 DEF AwaitBurst
  <2>. SUFFICES ASSUME NEW k \in got
                PROVE  AgeOf(k)' <= Waited + attempt - (IF buffer' = <<>> THEN 1 ELSE 0)
    BY <2>2 DEF CallInv, Storing
  <2>3. buffer' # <<>>
    <3>1. Burst # <<>> /\ Capacity > 0
      BY DEF LinesInv
    <3>. QED
      BY <2>1, <3>1, SecondLines
  <2>4. AgeOf(k) <= Waited + attempt - 1
    BY <2>2 DEF CallInv
  <2>5. AgeOf(k)' \in Nat /\ AgeOf(k)' <= AgeOf(k) + 1
    BY <2>1, SecondAges, OlderBy
  <2>. QED
    BY <1>b, <1>t, <2>3, <2>4, <2>5
<1>3. CASE ReadTimeout
  <2>1. /\ Second(<<>>) /\ at = "read" /\ buffer = <<>> /\ got' = got
        /\ attempt' = attempt + 1 /\ EndAttempt
    BY <1>3 DEF ReadTimeout, EndAttempt
  <2>2. at' \in {"read", "sleep"}
    BY <2>1 DEF GotInv, EndAttempt
  <2>. SUFFICES ASSUME NEW k \in got
                PROVE  AgeOf(k)' \in Nat /\ AgeOf(k)' <= Waited + attempt
    BY <1>b, <1>t, <2>1, <2>2 DEF CallInv, Storing
  <2>4. AgeOf(k) <= Waited + attempt - 1
    BY <2>1 DEF CallInv
  <2>5. AgeOf(k)' \in Nat /\ AgeOf(k)' <= AgeOf(k) + 1
    BY <2>1, SecondAges, OlderBy
  <2>. QED
    BY <1>b, <1>t, <2>4, <2>5
<1>4. CASE StoreLatitude
  BY <1>4 DEF StoreLatitude, CallInv, AgeOf, Storing
<1>5. CASE StoreLongitude \/ Sleep
  BY <1>5 DEF StoreLongitude, Sleep, CallInv, Storing
<1>6. CASE Wake
  BY <1>6 DEF Wake, CallInv
<1>7. CASE SignalChanges \/ UNCHANGED vars
  BY <1>7, Idle DEF CallInv, AgeOf, Storing
<1>. QED
  BY <1>1, <1>2, <1>3, <1>4, <1>5, <1>6, <1>7 DEF Next, GpsTask

\* At reset there is nothing that could be old.
LEMMA InitAges == Init => GotInv /\ LinesInv /\ WaitInv /\ CallInv
<1>. SUFFICES ASSUME Init
              PROVE  GotInv /\ LinesInv /\ WaitInv /\ CallInv
  OBVIOUS
<1>1. Len(buffer) = 0 /\ buffer = <<>> /\ got = {} /\ at = "read" /\ passed = 0
  BY DEF Init
<1>. QED
  BY <1>1, BoundAssumption DEF GotInv, LinesInv, WaitInv, CallInv, Storing

\* The invariant of the ages, for every buffer, burst and number of attempts.
THEOREM AgesInvariant == MaxAttempts # 1 => (Spec => []AgesInv)
<1>. SUFFICES ASSUME MaxAttempts # 1
              PROVE  Spec => []AgesInv
  OBVIOUS
<1>1. Init => AgesInv
  BY InitAges DEF AgesInv
<1>2. DriverInv /\ AgesInv /\ [Next]_vars => AgesInv'
  BY NextGot, NextLines, NextWait, NextCall DEF AgesInv
<1>. QED
  BY <1>1, <1>2, DriverInvariant, PTL DEF Spec

\* What a call has got, if only one attempt is allowed, too.
LEMMA GotInvariant == Spec => []GotInv
BY InitAges, NextGot, DriverInvariant, PTL DEF Spec

\* A published position has waited for the lines before it in the buffer and for the
\* attempts of its call, and no longer; nor have its satellites and its altitude.
THEOREM PublishedIsFresh == Spec => []Fresh
<1>1. CASE MaxAttempts = 1
  <2>1. DriverInv /\ GotInv => Fresh
    BY <1>1 DEF DriverInv, TypeOK, GotInv, Storing, Fresh
  <2>. QED
    BY <2>1, DriverInvariant, GotInvariant, PTL
<1>2. CASE MaxAttempts # 1
  <2>1. AgesInv => Fresh
    BY DEF AgesInv, GotInv, CallInv, Storing, AgeOf, Fresh
  <2>. QED
    BY <1>2, <2>1, AgesInvariant, PTL
<1>. QED
  BY <1>1, <1>2

-----------------------------------------------------------------------------
\* A second keeps the order: where ages are told apart, what is there grows older by
\* one, and at most one line of the burst has a position.
LEMMA SecondOrder ==
  ASSUME DriverInv, LinesInv, WaitInv, OrderInv, MaxAttempts # 1, OneRMC, ToldApart,
         NEW lines \in {<<>>} \cup Sent, Second(lines)
  PROVE  /\ \A i, j \in 1..Len(buffer') :
              i < j /\ IsRMC(i)' /\ IsRMC(j)' => buffer'[j].age < buffer'[i].age
         /\ \A i \in 1..Len(buffer') : IsRMC(i)' => buffer'[i].age < age'
<1>b. /\ MaxAttempts \in Nat /\ MaxAttempts >= 2 /\ AgeLimit \in Nat
      /\ Len(buffer) \in Nat /\ Len(buffer') \in Nat
  BY BoundAssumption, AgesAreNat, SecondLines
<1>1. ASSUME NEW i \in 1..Len(buffer)
      PROVE  /\ Older(buffer[i].age) = buffer[i].age + 1
             /\ buffer[i].age \in Nat /\ buffer[i].age + 1 < AgeLimit
  <2>1. buffer[i].age \in Nat /\ buffer[i].age <= Waited /\ Waited \in Nat
    BY LinesWaited, WaitedIsNat
  <2>. QED
    BY <1>b, <2>1 DEF Older, ToldApart
<1>2. age' = Older(age) /\ age \in Nat /\ age <= AgeLimit
  BY SecondAges, AgesAreNat DEF Age
<1>3. AgeLimit > 0
  BY <1>b, WaitedIsNat DEF ToldApart
\* Each line of the new buffer is an old one or new.
<1>. DEFINE Old(i) == /\ i \in 1..Len(buffer)
                      /\ buffer'[i].kind = buffer[i].kind
                      /\ buffer'[i].age = buffer[i].age + 1
            New(i) == /\ i > Len(buffer) /\ i - Len(buffer) \in DOMAIN Burst
                      /\ buffer'[i].kind = Burst[i - Len(buffer)]
                      /\ buffer'[i].age = 0
<1>4. \A i \in 1..Len(buffer') : Old(i) \/ New(i)
  <2>1. DOMAIN Burst = 1..Len(Burst)
    BY BurstAssumption
  <2>. QED
    BY <1>1, <2>1, SecondLines
<1>5. ASSUME NEW i \in 1..Len(buffer'), NEW j \in 1..Len(buffer'),
             i < j, IsRMC(i)', IsRMC(j)'
      PROVE  buffer'[j].age < buffer'[i].age
  <2>1. CASE Old(i) /\ Old(j)
    <3>1. buffer[j].age < buffer[i].age
      BY <1>5, <2>1 DEF OrderInv, IsRMC
    <3>. QED
      BY <1>1, <2>1, <3>1
  <2>2. CASE Old(i) /\ New(j)
    BY <1>1, <2>2
  <2>3. CASE New(i) /\ New(j)
    <3>1. i - Len(buffer) = j - Len(buffer)
      BY <1>5, <2>3 DEF OneRMC, IsRMC
    <3>. QED
      BY <1>b, <1>5, <3>1
  <2>4. CASE New(i) /\ Old(j)
    BY <1>b, <1>5, <2>4
  <2>. QED
    BY <1>4, <2>1, <2>2, <2>3, <2>4
<1>6. ASSUME NEW i \in 1..Len(buffer'), IsRMC(i)'
      PROVE  buffer'[i].age < age'
  <2>1. CASE Old(i)
    <3>1. buffer[i].age < age
      BY <1>6, <2>1 DEF OrderInv, IsRMC
    <3>. QED
      BY <1>b, <1>1, <1>2, <2>1, <3>1 DEF Older
  <2>2. CASE New(i)
    BY <1>b, <1>2, <1>3, <2>2 DEF Older
  <2>. QED
    BY <1>4, <2>1, <2>2
<1>. QED
  BY <1>5, <1>6

\* Every step keeps the order.
LEMMA NextOrder ==
  ASSUME DriverInv, AgesInv, OrderInv, MaxAttempts # 1, OneRMC, ToldApart, [Next]_vars
  PROVE  OrderInv'
<1>a. GotInv /\ LinesInv /\ WaitInv /\ CallInv
  BY DEF AgesInv
<1>t. /\ attempt \in Nat /\ parsed.rmc \in Nat /\ age \in Nat /\ age <= AgeLimit
      /\ at = "read" => attempt < MaxAttempts
      /\ MaxAttempts \in Nat /\ AgeLimit \in Nat /\ Waited \in Nat
  BY AgesAreNat, WaitedIsNat, BoundAssumption DEF DriverInv, AttemptInv, Age
<1>1. CASE ReadLine
  <2>1. at = "read" /\ age' = age
    BY <1>1 DEF ReadLine
  <2>2. /\ 1 \in 1..Len(buffer)
        /\ \A i \in 1..Len(buffer') :
             i + 1 \in 1..Len(buffer) /\ buffer'[i] = buffer[i + 1]
    BY <1>1, ReadMovesUp
  <2>a. ASSUME NEW i \in 1..Len(buffer'), NEW j \in 1..Len(buffer'), i < j,
               IsRMC(i)', IsRMC(j)'
        PROVE  buffer'[j].age < buffer'[i].age
    <3>1. /\ i + 1 \in 1..Len(buffer) /\ j + 1 \in 1..Len(buffer)
          /\ buffer'[i] = buffer[i + 1] /\ buffer'[j] = buffer[j + 1]
      BY <2>2
    <3>2. IsRMC(i + 1) /\ IsRMC(j + 1) /\ i + 1 < j + 1
      BY <2>a, <3>1 DEF IsRMC
    <3>. QED
      BY <3>1, <3>2 DEF OrderInv
  <2>b. ASSUME NEW i \in 1..Len(buffer'), IsRMC(i)'
        PROVE  buffer'[i].age < age'
    BY <2>1, <2>2, <2>b DEF OrderInv, IsRMC
  <2>3. /\ \A i, j \in 1..Len(buffer') :
             i < j /\ IsRMC(i)' /\ IsRMC(j)' => buffer'[j].age < buffer'[i].age
        /\ \A i \in 1..Len(buffer') : IsRMC(i)' => buffer'[i].age < age'
    BY <2>a, <2>b
  <2>4. ASSUME "RMC" \in got'
        PROVE  /\ parsed'.rmc < age
               /\ \A i \in 1..Len(buffer') : IsRMC(i)' => buffer'[i].age < parsed'.rmc
    <3>1. CASE "RMC" \in got
      <4>1. parsed'.rmc = parsed.rmc
        BY <1>1, <3>1, Accepts DEF AgeOf
      <4>. QED
        BY <2>1, <2>2, <3>1, <4>1 DEF OrderInv, IsRMC
    <3>2. CASE "RMC" \notin got
      <4>1. IsRMC(1) /\ parsed'.rmc = buffer[1].age
        BY <1>1, <2>4, <3>2, Accepts DEF AgeOf, IsRMC
      <4>2. buffer[1].age < age
        BY <2>2, <4>1 DEF OrderInv
      <4>3. \A i \in 1..Len(buffer') : IsRMC(i)' => buffer'[i].age < buffer[1].age
        <5>. SUFFICES ASSUME NEW i \in 1..Len(buffer'), IsRMC(i)'
                      PROVE  buffer'[i].age < buffer[1].age
          OBVIOUS
        <5>1. 1 < i + 1 /\ IsRMC(i + 1)
          BY <2>2 DEF IsRMC
        <5>. QED
          BY <2>2, <4>1, <5>1 DEF OrderInv
      <4>. QED
        BY <4>1, <4>2, <4>3
    <3>. QED
      BY <3>1, <3>2
  <2>. QED
    BY <2>1, <2>3, <2>4 DEF OrderInv
\* While the call waits, its position and the published one grow older alike.
<1>2. CASE AwaitBurst \/ ReadTimeout
  <2>1. PICK lines \in {<<>>} \cup Sent : Second(lines)
    BY <1>2 DEF AwaitBurst, ReadTimeout
  <2>2. at = "read" /\ buffer = <<>> /\ Len(buffer) = 0 /\ got' = got
    BY <1>2 DEF AwaitBurst, ReadTimeout
  <2>3. ASSUME "RMC" \in got
        PROVE  parsed'.rmc = parsed.rmc + 1 /\ parsed'.rmc < age'
    <3>1. parsed.rmc <= Waited + attempt - 1
      BY <2>2, <2>3, <1>a DEF CallInv, AgeOf
    <3>2. parsed.rmc + 1 < AgeLimit
      BY <1>t, <2>2, <3>1 DEF ToldApart
    <3>3. parsed'.rmc = Older(parsed.rmc) /\ age' = Older(age) /\ parsed.rmc < age
      BY <2>1, <2>2, <2>3, SecondAges DEF OrderInv
    <3>. QED
      BY <1>t, <3>2, <3>3 DEF Older
  <2>4. ASSUME "RMC" \in got, NEW i \in 1..Len(buffer')
        PROVE  buffer'[i].age < parsed'.rmc
    <3>1. buffer'[i].age = 0
      BY <2>1, <2>2, SecondLines
    <3>. QED
      BY <1>t, <2>3, <2>4, <3>1
  <2>. QED
    BY <1>a, <2>1, <2>2, <2>3, <2>4, SecondOrder DEF OrderInv
<1>3. CASE Sleep
  <2>1. PICK lines \in {<<>>} \cup Sent : Second(lines)
    BY <1>3 DEF Sleep
  <2>2. at' = "sleep"
    BY <1>3 DEF Sleep
  <2>. QED
    BY <1>a, <2>1, <2>2, SecondOrder DEF OrderInv
<1>4. CASE StoreLatitude
  <2>1. UNCHANGED <<buffer, got, parsed, age>> /\ at # "sleep"
    BY <1>4 DEF StoreLatitude
  <2>. QED
    BY <2>1 DEF OrderInv, IsRMC
\* The published position is now that of the call, and all others are younger.
<1>5. CASE StoreLongitude
  <2>1. UNCHANGED <<buffer, got, parsed>> /\ age' = parsed.rmc /\ at' = "sleep"
        /\ at = "store_longitude"
    BY <1>5 DEF StoreLongitude
  <2>2. "RMC" \in got
    BY <1>a, <2>1 DEF GotInv, Storing
  <2>. QED
    BY <2>1, <2>2 DEF OrderInv, IsRMC
<1>6. CASE Wake
  <2>1. UNCHANGED <<buffer, age>> /\ got' = {}
    BY <1>6 DEF Wake
  <2>. QED
    BY <2>1 DEF OrderInv, IsRMC
<1>7. CASE SignalChanges \/ UNCHANGED vars
  BY <1>7, Idle DEF OrderInv, IsRMC
<1>. QED
  BY <1>1, <1>2, <1>3, <1>4, <1>5, <1>6, <1>7 DEF Next, GpsTask

\* If the receiver sends one position a second, no position is published that was
\* measured before, or is, the last one: neither the buffer nor a call that failed in
\* between brings an old one back.
THEOREM PositionsInOrder == OneRMC /\ ToldApart => (Spec => NeverBackward)
<1>. SUFFICES ASSUME OneRMC, ToldApart
              PROVE  Spec => NeverBackward
  OBVIOUS
<1>1. CASE MaxAttempts = 1
  <2>1. DriverInv /\ GotInv =>
          [at = "store_longitude" /\ at' = "sleep" => age' < age]_vars
    BY <1>1 DEF DriverInv, TypeOK, GotInv, Storing
  <2>. QED
    BY <2>1, DriverInvariant, GotInvariant, PTL DEF NeverBackward
<1>2. CASE MaxAttempts # 1
  <2>1. Init => OrderInv
    <3>1. Init => Len(buffer) = 0 /\ got = {}
      BY DEF Init
    <3>. QED
      BY <3>1 DEF OrderInv
  <2>2. DriverInv /\ AgesInv /\ OrderInv /\ [Next]_vars => OrderInv'
    BY <1>2, NextOrder
  <2>3. Spec => []OrderInv
    BY <1>2, <2>1, <2>2, DriverInvariant, AgesInvariant, PTL DEF Spec
  <2>4. AgesInv /\ OrderInv /\ [Next]_vars =>
          [at = "store_longitude" /\ at' = "sleep" => age' < age]_vars
    <3>. SUFFICES ASSUME AgesInv, OrderInv, [Next]_vars,
                         at = "store_longitude", at' = "sleep"
                  PROVE  age' < age
      OBVIOUS
    <3>1. StoreLongitude
      BY DEF Next, GpsTask, ReadLine, AwaitBurst, ReadTimeout, StoreLatitude, Sleep, Wake,
             SignalChanges, vars, taskVars
    <3>2. age' = parsed.rmc /\ "RMC" \in got
      BY <3>1 DEF StoreLongitude, AgesInv, GotInv, Storing
    <3>. QED
      BY <3>2 DEF OrderInv
  <2>. QED
    BY <1>2, <2>3, <2>4, AgesInvariant, PTL DEF Spec, NeverBackward
<1>. QED
  BY <1>1, <1>2

=============================================================================
