-------------------------- MODULE TelemetryProofs --------------------------
(***************************************************************************)
(* The safety properties of Telemetry, proved for any set of senders, any  *)
(* set of callers and any requests.                                        *)
(*                                                                         *)
(* StartsOnce is not inductive: that two tasks cannot both be in the start *)
(* needs the flag to be set as long as one is, and that none is in it once *)
(* the radio is up needs the start to end with the very step that sets the *)
(* second flag (Progress, Up).                                             *)
(***************************************************************************)
EXTENDS Telemetry, TLAPS

USE DEF flags, radio, Move, Everywhere, Reboot

\* The telemetry module starts with its types and its start not begun.
LEMMA InitStart == Init => TypeOK /\ StartInv
<1>. SUFFICES ASSUME Init
              PROVE  TypeOK /\ StartInv
  OBVIOUS
<1>1. TypeOK
  <2>1. 1 \in Channel /\ 0 \in 0..MaxReboots
    BY RequestAssumption DEF Channel
  <2>2. /\ place \in [Task -> Starting \cup {"idle", "wait", "send", "store"}]
        /\ request \in [Task -> Channel]
    BY <2>1 DEF Init
  <2>. QED
    BY <2>1, <2>2 DEF Init, TypeOK
<1>2. \A t \in Task : place[t] = "idle"
  BY DEF Init
<1>3. \A t \in Sender : t \in Task
  BY DEF Task
<1>. QED
  BY <1>1, <1>2, <1>3 DEF Init, StartInv, StartsOnce, Progress, Up, InStart, Starting

\* Every step keeps the types.
LEMMA NextTypeOK == TypeOK /\ [Next]_vars => TypeOK'
<1>. SUFFICES ASSUME TypeOK, [Next]_vars
              PROVE  TypeOK'
  OBVIOUS
<1>t. Sender \subseteq Task /\ Caller \subseteq Task /\ Console \in Task
  BY DEF Task
<1>r. MaxReboots \in Nat
  BY RequestAssumption
<1>. USE DEF TypeOK, Starting
<1>1. ASSUME NEW t \in Sender, Ensure(t) \/ Wait(t) \/ Send(t)
      PROVE  TypeOK'
  BY <1>1, <1>t DEF Ensure, Wait, Send
<1>2. ASSUME NEW t \in Sender, Start(t)
      PROVE  TypeOK'
  BY <1>2, <1>t DEF Start, StartWifi, StartEspNow, AddPeer, CreateConsole, Activate
<1>3. ASSUME NEW t \in Sender, Abort(t)
      PROVE  TypeOK'
  <2>1. 1 \in Channel /\ reboots' \in 0..MaxReboots
    BY <1>3, <1>r DEF Abort, Channel
  <2>2. /\ place' \in [Task -> Starting \cup {"idle", "wait", "send", "store"}]
        /\ request' \in [Task -> Channel]
    BY <1>3, <2>1 DEF Abort
  <2>. QED
    BY <1>3, <2>1, <2>2 DEF Abort
<1>4. ASSUME NEW t \in Task, Tune(t) \/ Record(t)
      PROVE  TypeOK'
  BY <1>4 DEF Tune, Record
<1>5. ASSUME NEW t \in Caller, NEW ch \in Request, SetTelemetryChannel(t, ch)
      PROVE  TypeOK'
  BY <1>5, <1>t DEF SetTelemetryChannel
<1>6. ASSUME NEW t \in Caller, StoreChannel(t)
      PROVE  TypeOK'
  BY <1>6, <1>t DEF StoreChannel
<1>7. ASSUME NEW ch \in Request, ConsoleCommand(ch)
      PROVE  TypeOK'
  BY <1>7, <1>t DEF ConsoleCommand
<1>8. CASE UNCHANGED vars
  BY <1>8 DEF vars
<1>. QED
  BY <1>1, <1>2, <1>3, <1>4, <1>5, <1>6, <1>7, <1>8 DEF Next

\* Every step keeps the start in one task, and the driver as far as that task is.
LEMMA NextStartInv == TypeOK /\ StartInv /\ [Next]_vars => StartInv'
<1>. SUFFICES ASSUME TypeOK, StartInv, [Next]_vars
              PROVE  StartInv'
  OBVIOUS
<1>t. /\ Sender \subseteq Task /\ Caller \subseteq Task /\ Console \in Task
      /\ \A t \in Sender : t \notin Caller /\ t # Console
  BY TaskAssumption DEF Task
<1>p. place \in [Task -> Starting \cup {"idle", "wait", "send", "store"}]
  BY DEF TypeOK
<1>. USE DEF StartInv, StartsOnce, Progress, Up, InStart, Starting
<1>1. ASSUME NEW t \in Sender, Ensure(t)
      PROVE  StartInv'
  BY <1>1, <1>t, <1>p DEF Ensure
<1>2. ASSUME NEW t \in Sender, Wait(t) \/ Send(t)
      PROVE  StartInv'
  BY <1>2, <1>t, <1>p DEF Wait, Send
<1>3. ASSUME NEW t \in Sender, StartWifi(t)
      PROVE  StartInv'
  BY <1>3, <1>t, <1>p DEF StartWifi
<1>4. ASSUME NEW t \in Sender, StartEspNow(t)
      PROVE  StartInv'
  BY <1>4, <1>t, <1>p DEF StartEspNow
<1>5. ASSUME NEW t \in Sender, AddPeer(t)
      PROVE  StartInv'
  BY <1>5, <1>t, <1>p DEF AddPeer
<1>6. ASSUME NEW t \in Sender, CreateConsole(t)
      PROVE  StartInv'
  BY <1>6, <1>t, <1>p DEF CreateConsole
<1>7. ASSUME NEW t \in Sender, Activate(t)
      PROVE  StartInv'
  BY <1>7, <1>t, <1>p DEF Activate
<1>8. ASSUME NEW t \in Sender, Abort(t)
      PROVE  StartInv'
  BY <1>8, <1>t DEF Abort
<1>9. ASSUME NEW t \in Task, Tune(t) \/ Record(t)
      PROVE  StartInv'
  BY <1>9, <1>t, <1>p DEF Tune, Record
<1>10. ASSUME NEW t \in Caller, NEW ch \in Request, SetTelemetryChannel(t, ch)
       PROVE  StartInv'
  BY <1>10, <1>t, <1>p DEF SetTelemetryChannel
<1>11. ASSUME NEW t \in Caller, StoreChannel(t)
       PROVE  StartInv'
  BY <1>11, <1>t, <1>p DEF StoreChannel
<1>12. ASSUME NEW ch \in Request, ConsoleCommand(ch)
       PROVE  StartInv'
  BY <1>12, <1>t, <1>p DEF ConsoleCommand
<1>13. CASE UNCHANGED vars
  BY <1>13 DEF vars
<1>. QED
  BY <1>1, <1>2, <1>3, <1>4, <1>5, <1>6, <1>7, <1>8, <1>9, <1>10, <1>11, <1>12, <1>13
  DEF Next, Start

\* The types and the order of the start are an inductive invariant.
LEMMA StartInductive == Spec => [](TypeOK /\ StartInv)
<1>1. Init => TypeOK /\ StartInv
  BY InitStart
<1>2. TypeOK /\ StartInv /\ [Next]_vars => (TypeOK /\ StartInv)'
  BY NextTypeOK, NextStartInv
<1>. QED
  BY <1>1, <1>2, PTL DEF Spec

\* Every variable keeps its type, reboots included.
THEOREM RadioTypeCorrect == Spec => []TypeOK
BY StartInductive, PTL

\* How far the driver is follows from where the starting task stands, and the two
\* flags from how far the driver is.
THEOREM StartInOrder == Spec => []StartInv
BY StartInductive, PTL

\* start_esp_now runs in one task at a time and never once the radio is up,
\* whatever tasks send and however their first sends interleave, reboots included.
THEOREM StartIsOnce == Spec => []StartsOnce
<1>1. StartInv => StartsOnce
  BY DEF StartInv
<1>. QED
  BY <1>1, StartInductive, PTL

\* A task that calls esp_now_send finds ESP-NOW up and the peer added, also when
\* it was another task that brought the radio up.
THEOREM SendIsReady == Spec => []SendsWhenReady
<1>1. StartInv => SendsWhenReady
  BY DEF StartInv, Progress, Up, SendsWhenReady
<1>. QED
  BY <1>1, StartInductive, PTL

-----------------------------------------------------------------------------
\* Every step keeps the first flag backed by the second or by the task in the start:
\* the start ends with the step that sets the second, or with everything reset.
LEMMA NextServed == TypeOK /\ Served /\ [Next]_vars => Served'
<1>. SUFFICES ASSUME TypeOK, Served, [Next]_vars
              PROVE  Served'
  OBVIOUS
<1>t. /\ Sender \subseteq Task /\ Caller \subseteq Task /\ Console \in Task
      /\ \A t \in Sender : t \notin Caller /\ t # Console
  BY TaskAssumption DEF Task
<1>p. place \in [Task -> Starting \cup {"idle", "wait", "send", "store"}]
  BY DEF TypeOK
<1>. USE DEF Served, InStart, Starting
<1>1. ASSUME NEW t \in Sender, Ensure(t)
      PROVE  Served'
  <2>1. CASE esp_now_init_started
    BY <1>1, <2>1, <1>t, <1>p DEF Ensure
  <2>2. CASE ~esp_now_init_started
    <3>1. place'[t] = "wifi"
      BY <1>1, <2>2, <1>t, <1>p DEF Ensure
    <3>. QED
      BY <1>1, <2>2, <3>1, <1>t, <1>p DEF Ensure
  <2>. QED
    BY <2>1, <2>2
<1>2. ASSUME NEW t \in Sender, Wait(t) \/ Send(t)
      PROVE  Served'
  BY <1>2, <1>t, <1>p DEF Wait, Send
<1>3. ASSUME NEW t \in Sender, Start(t)
      PROVE  Served'
  <2>1. CASE Activate(t)
    BY <2>1, <1>t, <1>p DEF Activate
  <2>2. CASE ~Activate(t)
    <3>1. place'[t] \in {"tune", "peer", "console", "activate"}
      BY <1>3, <2>2, <1>t, <1>p DEF Start, StartWifi, StartEspNow, AddPeer, CreateConsole
    <3>2. /\ UNCHANGED flags
          /\ \A s \in Sender \ {t} : place'[s] = place[s]
      BY <1>3, <2>2, <1>t, <1>p DEF Start, StartWifi, StartEspNow, AddPeer, CreateConsole
    <3>. QED
      BY <3>1, <3>2
  <2>. QED
    BY <2>1, <2>2
<1>4. ASSUME NEW t \in Sender, Abort(t)
      PROVE  Served'
  BY <1>4, <1>t DEF Abort
<1>5. ASSUME NEW t \in Task, Tune(t) \/ Record(t)
      PROVE  Served'
  <2>1. CASE t \in Sender
    <3>1. place'[t] \in {"record", "espnow"}
      BY <1>5, <2>1, <1>p DEF Tune, Record
    <3>2. /\ UNCHANGED flags
          /\ \A s \in Sender \ {t} : place'[s] = place[s]
      BY <1>5, <1>t, <1>p DEF Tune, Record
    <3>. QED
      BY <2>1, <3>1, <3>2
  <2>2. CASE t \notin Sender
    BY <1>5, <2>2, <1>t, <1>p DEF Tune, Record
  <2>. QED
    BY <2>1, <2>2
<1>6. ASSUME NEW t \in Caller, NEW ch \in Request, SetTelemetryChannel(t, ch)
      PROVE  Served'
  BY <1>6, <1>t, <1>p DEF SetTelemetryChannel
<1>7. ASSUME NEW t \in Caller, StoreChannel(t)
      PROVE  Served'
  BY <1>7, <1>t, <1>p DEF StoreChannel
<1>8. ASSUME NEW ch \in Request, ConsoleCommand(ch)
      PROVE  Served'
  BY <1>8, <1>t, <1>p DEF ConsoleCommand
<1>9. CASE UNCHANGED vars
  BY <1>9 DEF vars
<1>. QED
  BY <1>1, <1>2, <1>3, <1>4, <1>5, <1>6, <1>7, <1>8, <1>9 DEF Next

\* Whoever finds the start begun waits for a task that is at it: no order of the
\* first sends, no caller and no panic leaves a sender waiting with nobody to end it.
THEOREM WaitServed == Spec => []WaitIsServed
<1>1. Init => Served
  BY DEF Init, Served, Task
<1>2. TypeOK /\ Served /\ [Next]_vars => Served'
  BY NextServed
<1>3. Served => WaitIsServed
  BY DEF Served, WaitIsServed
<1>. QED
  BY <1>1, <1>2, <1>3, RadioTypeCorrect, PTL DEF Spec

-----------------------------------------------------------------------------
(***************************************************************************)
(* The start implements Link.                                              *)
(***************************************************************************)
\* Nobody asks at power-up, and the link is down.
LEMMA InitLink == Init => L!Init
<1>1. \A t \in Sender : t \in Task
  BY DEF Task
<1>. QED
  BY <1>1 DEF Init, L!Init, LinkState, Asking, Sending, InStart, Starting

\* A step that moves one sender from one place of the start to another, and one that
\* moves no sender at all, are none of Link.
LEMMA LinkStutters ==
  ASSUME UNCHANGED flags,
         \A s \in Sender : \/ place'[s] = place[s]
                           \/ place[s] \in Starting /\ place'[s] \in Starting
  PROVE  UNCHANGED L!vars
<1>1. UNCHANGED LinkState
  BY DEF LinkState
<1>2. UNCHANGED Asking
  BY DEF Asking, InStart, Starting
<1>3. UNCHANGED Sending
  BY DEF Sending, Starting
<1>. QED
  BY <1>1, <1>2, <1>3 DEF L!vars

\* Every step of the radio is a step of Link: the last one of the start is the rise,
\* a panic the failure, and the rest of the start does not show.
LEMMA StepLink == TypeOK /\ StartInv /\ [Next]_vars => [L!Next]_(L!vars)
<1>. SUFFICES ASSUME TypeOK, StartInv, [Next]_vars
              PROVE  [L!Next]_(L!vars)
  OBVIOUS
<1>t. /\ Sender \subseteq Task /\ Caller \subseteq Task /\ Console \in Task
      /\ \A t \in Sender : t \notin Caller /\ t # Console
  BY TaskAssumption DEF Task
<1>p. place \in [Task -> Starting \cup {"idle", "wait", "send", "store"}]
  BY DEF TypeOK
<1>s. \A t \in Sender : InStart(t) => LinkState = "rising" /\ Sending = {}
  BY DEF StartInv, Progress, LinkState, Sending
<1>1. ASSUME NEW t \in Sender, Ensure(t)
      PROVE  L!Ask(t)
  <2>1. t \notin Asking \cup Sending
    BY <1>1 DEF Ensure, Asking, Sending, InStart, Starting
  <2>2. Asking' = Asking \cup {t} /\ Sending' = Sending
    BY <1>1, <1>t, <1>p DEF Ensure, Asking, Sending, InStart, Starting
  <2>3. LinkState' = IF LinkState = "down" THEN "rising" ELSE LinkState
    BY <1>1 DEF Ensure, LinkState, StartInv, Up
  <2>. QED
    BY <2>1, <2>2, <2>3 DEF L!Ask
<1>in. ASSUME NEW t \in Sender, t \in Asking, place' = [place EXCEPT ![t] = "send"]
       PROVE  L!LetIn(t)
  <2>1. Asking' = Asking \ {t} /\ Sending' = Sending \cup {t}
    BY <1>in, <1>t, <1>p DEF Asking, Sending, InStart, Starting
  <2>. QED
    BY <1>in, <2>1 DEF L!LetIn
<1>2. ASSUME NEW t \in Sender, Wait(t)
      PROVE  L!Admit(t)
  <2>1. L!LetIn(t)
    BY <1>2, <1>in DEF Wait, Asking
  <2>. QED
    BY <1>2, <2>1 DEF Wait, L!Admit, LinkState
<1>3. ASSUME NEW t \in Sender, Activate(t)
      PROVE  L!Rise(t)
  <2>1. InStart(t)
    BY <1>3 DEF Activate, InStart, Starting
  <2>2. L!LetIn(t)
    BY <1>3, <2>1, <1>in DEF Activate, Asking
  <2>. QED
    BY <1>3, <2>1, <2>2, <1>s DEF Activate, L!Rise, LinkState
<1>4. ASSUME NEW t \in Sender, Abort(t)
      PROVE  L!Fail
  <2>1. InStart(t)
    BY <1>4 DEF Abort, InStart, Starting
  <2>2. LinkState' = "down" /\ Asking' = {} /\ Sending' = {}
    BY <1>4, <1>t DEF Abort, LinkState, Asking, Sending, InStart, Starting
  <2>. QED
    BY <2>1, <2>2, <1>s DEF L!Fail
<1>5. ASSUME NEW t \in Sender, Send(t)
      PROVE  L!Leave(t)
  <2>1. /\ t \in Sending /\ Sending' = Sending \ {t}
        /\ UNCHANGED <<LinkState, Asking>>
    BY <1>5, <1>t, <1>p DEF Send, LinkState, Asking, Sending, InStart, Starting
  <2>. QED
    BY <2>1 DEF L!Leave
<1>6. ASSUME NEW t \in Sender, Start(t), ~Activate(t)
      PROVE  UNCHANGED L!vars
  <2>1. UNCHANGED flags
    BY <1>6 DEF Start, StartWifi, StartEspNow, AddPeer, CreateConsole
  <2>2. \A s \in Sender : \/ place'[s] = place[s]
                          \/ place[s] \in Starting /\ place'[s] \in Starting
    BY <1>6, <1>t, <1>p DEF Start, StartWifi, StartEspNow, AddPeer, CreateConsole, Starting
  <2>. QED
    BY <2>1, <2>2, LinkStutters
<1>7. ASSUME NEW t \in Task, Tune(t) \/ Record(t)
      PROVE  UNCHANGED L!vars
  <2>1. \A s \in Sender : \/ place'[s] = place[s]
                          \/ place[s] \in Starting /\ place'[s] \in Starting
    BY <1>7, <1>t, <1>p DEF Tune, Record, Starting
  <2>. QED
    BY <1>7, <2>1, LinkStutters DEF Tune, Record
<1>8. ASSUME NEW t \in Caller, StoreChannel(t) \/ \E ch \in Request : SetTelemetryChannel(t, ch)
      PROVE  UNCHANGED L!vars
  BY <1>8, <1>t, <1>p, LinkStutters DEF StoreChannel, SetTelemetryChannel
<1>9. ASSUME NEW ch \in Request, ConsoleCommand(ch)
      PROVE  UNCHANGED L!vars
  BY <1>9, <1>t, <1>p, LinkStutters DEF ConsoleCommand
<1>10. CASE UNCHANGED vars
  BY <1>10, LinkStutters DEF vars
<1>. QED
  BY <1>1, <1>2, <1>3, <1>4, <1>5, <1>6, <1>7, <1>8, <1>9, <1>10 DEF Next, L!Next

\* The senders see a link that rises once, in one step, and that fails, if it does,
\* before anybody has sent: the safety part of LinkKept.
THEOREM LinkSafe == Spec => L!Safe
<1>1. Init => L!Init
  BY InitLink
<1>2. TypeOK /\ StartInv /\ [Next]_vars => [L!Next]_(L!vars)
  BY StepLink
<1>. QED
  BY <1>1, <1>2, StartInductive, PTL DEF Spec, L!Safe

-----------------------------------------------------------------------------
\* Before the start no channel has been recorded, and none disagrees.
LEMMA InitChannelInv == Init => ChannelInv
BY DEF Init, ChannelInv, Task

\* With no caller of setTelemetryChannel and no channel refused, every step keeps
\* the radio on the recorded channel or in the hands of the one task that tunes it.
LEMMA NextChannelInv ==
  ASSUME Caller = {}, Refused = {}, TypeOK, StartInv, ChannelInv, [Next]_vars
  PROVE  ChannelInv'
<1>t. /\ Sender \subseteq Task /\ Console \in Task /\ Console \notin Sender
      /\ \A t \in Task : t \in Sender \/ t = Console
  BY TaskAssumption DEF Task
<1>p. place \in [Task -> Starting \cup {"idle", "wait", "send", "store"}]
  BY DEF TypeOK
<1>q. request \in [Task -> Channel]
  BY DEF TypeOK
<1>. USE DEF ChannelInv
<1>1. ASSUME NEW t \in Sender, Ensure(t) \/ Wait(t) \/ Send(t)
      PROVE  ChannelInv'
  BY <1>1, <1>t, <1>p DEF Ensure, Wait, Send
<1>2. ASSUME NEW t \in Sender, StartWifi(t)
      PROVE  ChannelInv'
  BY <1>2, <1>t, <1>p, <1>q DEF StartWifi, StartInv, Up, StartsOnce, InStart,
     Starting
<1>3. ASSUME NEW t \in Sender, StartEspNow(t) \/ AddPeer(t)
      PROVE  ChannelInv'
  BY <1>3, <1>t, <1>p DEF StartEspNow, AddPeer, StartInv, Progress, Up, StartsOnce,
     InStart, Starting
<1>4. ASSUME NEW t \in Sender, CreateConsole(t) \/ Activate(t)
      PROVE  ChannelInv'
  BY <1>4, <1>t, <1>p DEF CreateConsole, Activate, StartInv, Progress, Up
<1>5. ASSUME NEW t \in Sender, Abort(t)
      PROVE  ChannelInv'
  BY <1>5, <1>t DEF Abort
<1>6. ASSUME NEW t \in Task, Tune(t)
      PROVE  ChannelInv'
  BY <1>6, <1>t, <1>p, <1>q DEF Tune, StartInv, Progress, Up, StartsOnce, InStart,
     Starting
<1>7. ASSUME NEW t \in Task, Record(t)
      PROVE  ChannelInv'
  BY <1>7, <1>t, <1>p, <1>q DEF Record, StartInv, Progress, Up, StartsOnce, InStart,
     Starting
<1>8. ASSUME NEW ch \in Request, ConsoleCommand(ch)
      PROVE  ChannelInv'
  BY <1>8, <1>t, <1>p, <1>q DEF ConsoleCommand
<1>9. CASE UNCHANGED vars
  BY <1>9 DEF vars
<1>. QED
  BY <1>1, <1>2, <1>3, <1>4, <1>5, <1>6, <1>7, <1>8, <1>9 DEF Next, Start

\* As long as nobody calls setTelemetryChannel (nobody does) and the driver accepts
\* every channel, a retuned radio is in the hands of the task that is to record it.
THEOREM ChannelInHand ==
  ASSUME Caller = {}, Refused = {}
  PROVE  Spec => []ChannelInv
<1>1. Init => ChannelInv
  BY InitChannelInv
<1>2. TypeOK /\ StartInv /\ ChannelInv /\ [Next]_vars => ChannelInv'
  BY NextChannelInv
<1>. QED
  BY <1>1, <1>2, StartInductive, PTL DEF Spec

\* Then the channel in the GPS message is the one the radio is on.
THEOREM ChannelIsTrue ==
  ASSUME Caller = {}, Refused = {}
  PROVE  Spec => []ChannelAgrees
<1>1. TypeOK /\ StartInv /\ ChannelInv => ChannelAgrees
  BY DEF StartInv, Progress, Up, StartsOnce, InStart, Starting, ChannelInv, ChannelAgrees
<1>. QED
  BY <1>1, ChannelInHand, StartInductive, PTL
=============================================================================
