----------------------------- MODULE Telemetry -----------------------------
(***************************************************************************)
(* telemetry.cpp: the main task and gpsTask send over ESP-NOW, the first   *)
(* of them to send starts the radio, the other waits for it.  A console    *)
(* task, created by the start, retunes the radio on a CH<n> command;       *)
(* setTelemetryChannel does the same for its callers.                      *)
(*                                                                         *)
(* The start is the sequence of places "wifi" ... "activate", cut where a  *)
(* step may fail or write what another task reads.  A failed               *)
(* ESP_ERROR_CHECK panics, and the panic handler reboots.                  *)
(***************************************************************************)
EXTENDS Integers

CONSTANTS
  Sender,      \* the tasks that send
  Caller,      \* the tasks that call setTelemetryChannel (none in the source)
  Console,     \* telemetryConsoleTask
  Request,     \* the channel numbers that are asked for
  Refused,     \* the channels esp_wifi_set_channel returns an error for
  MaxReboots   \* bound on the panics of a behaviour

Channel == 1..13
Task == Sender \cup Caller \cup {Console}

ASSUME TaskAssumption ==
  Sender \cap Caller = {} /\ Console \notin Sender \cup Caller
ASSUME RequestAssumption == Request \subseteq Int /\ MaxReboots \in Nat

VARIABLES
  esp_now_init_started,
  is_radio_active,
  current_channel,
  stack,       \* what the driver has up: "off", "wifi", "espnow", "peer"
  tuned,       \* the channel the radio is on
  console,     \* telemetryConsoleTask has been created
  place,       \* where each task stands
  request,     \* ch of each task's apply_wifi_channel or setTelemetryChannel
  reboots

radio == <<stack, tuned>>
flags == <<esp_now_init_started, is_radio_active>>
vars == <<flags, current_channel, radio, console, place, request, reboots>>

Starting == {"wifi", "tune", "record", "espnow", "peer", "console", "activate"}

Everywhere(v) == [t \in Task |-> v]

Init ==
  /\ esp_now_init_started = FALSE /\ is_radio_active = FALSE
  /\ current_channel = 1
  /\ stack = "off" /\ tuned = 1
  /\ console = FALSE
  /\ place = Everywhere("idle")
  /\ request = Everywhere(1)
  /\ reboots = 0

Move(t, from, to) == place[t] = from /\ place' = [place EXCEPT ![t] = to]

-----------------------------------------------------------------------------
(***************************************************************************)
(* ensure_esp_now_started.                                                 *)
(***************************************************************************)

\* Seeded fault: the flag is not set in the critical section.
Ensure_LateFlag(t) ==
  /\ Move(t, "idle", IF esp_now_init_started THEN "wait" ELSE "wifi")
  /\ esp_now_init_started' = is_radio_active
  /\ UNCHANGED <<is_radio_active, current_channel, radio, console, request, reboots>>

\* The critical section of init_mux.
Ensure(t) ==
  /\ Move(t, "idle", IF esp_now_init_started THEN "wait" ELSE "wifi")
  /\ esp_now_init_started' = TRUE
  /\ UNCHANGED <<is_radio_active, current_channel, radio, console, request, reboots>>

\* Seeded fault: the wait looks at the flag that says the start has begun.
Wait_ForBegin(t) ==
  /\ Move(t, "wait", "send")
  /\ esp_now_init_started
  /\ UNCHANGED <<flags, current_channel, radio, console, request, reboots>>

Wait(t) ==
  /\ Move(t, "wait", "send")
  /\ is_radio_active
  /\ UNCHANGED <<flags, current_channel, radio, console, request, reboots>>

\* esp_now_send.  A refused packet is logged and given up.
Send(t) ==
  /\ Move(t, "send", "idle")
  /\ UNCHANGED <<flags, current_channel, radio, console, request, reboots>>

-----------------------------------------------------------------------------
(***************************************************************************)
(* start_esp_now.                                                          *)
(***************************************************************************)

\* Flash, event loop and WiFi; a second start fails, since the loop exists.  Then
\* the argument of apply_wifi_channel is read.
StartWifi(t) ==
  /\ Move(t, "wifi", "tune")
  /\ stack = "off" /\ stack' = "wifi"
  /\ tuned' \in Channel
  /\ request' = [request EXCEPT ![t] = current_channel]
  /\ UNCHANGED <<flags, current_channel, console, reboots>>

StartEspNow(t) ==
  /\ Move(t, "espnow", "peer")
  /\ stack' = "espnow"
  /\ UNCHANGED <<flags, current_channel, tuned, console, request, reboots>>

AddPeer(t) ==
  /\ Move(t, "peer", "console")
  /\ stack' = "peer"
  /\ UNCHANGED <<flags, current_channel, tuned, console, request, reboots>>

\* The result of xTaskCreate is not looked at.
CreateConsole(t) ==
  /\ Move(t, "console", "activate")
  /\ console' \in BOOLEAN
  /\ UNCHANGED <<flags, current_channel, radio, request, reboots>>

\* Seeded fault: without a console the start returns before it sets the flag.
Activate_WithConsole(t) ==
  /\ Move(t, "activate", "send")
  /\ is_radio_active' = console
  /\ UNCHANGED <<esp_now_init_started, current_channel, radio, console, request, reboots>>

Activate(t) ==
  /\ Move(t, "activate", "send")
  /\ is_radio_active' = TRUE
  /\ UNCHANGED <<esp_now_init_started, current_channel, radio, console, request, reboots>>

\* A reset of the chip: all of the RAM starts anew.
Reboot ==
  /\ reboots < MaxReboots
  /\ reboots' = reboots + 1
  /\ esp_now_init_started' = FALSE /\ is_radio_active' = FALSE
  /\ current_channel' = 1
  /\ stack' = "off" /\ tuned' = 1
  /\ console' = FALSE
  /\ place' = Everywhere("idle")
  /\ request' = Everywhere(1)

\* A checked step fails: the panic handler reboots.
Abort(t) == place[t] \in {"wifi", "espnow", "peer"} /\ Reboot

-----------------------------------------------------------------------------
(***************************************************************************)
(* apply_wifi_channel and the two ways to ask for a channel.               *)
(***************************************************************************)

\* The result of esp_wifi_set_channel is not looked at.
Tune(t) ==
  /\ Move(t, "tune", "record")
  /\ tuned' = IF request[t] \in Refused THEN tuned ELSE request[t]
  /\ UNCHANGED <<flags, current_channel, stack, console, request, reboots>>

\* Seeded fault: the channel is not recorded.
Record_Forgets(t) ==
  /\ Move(t, "record", IF t \in Sender THEN "espnow" ELSE "idle")
  /\ UNCHANGED <<flags, current_channel, radio, console, request, reboots>>

Record(t) ==
  /\ Move(t, "record", IF t \in Sender THEN "espnow" ELSE "idle")
  /\ current_channel' = request[t]
  /\ UNCHANGED <<flags, radio, console, request, reboots>>

\* Seeded fault: the number is not checked against 1..13.
ConsoleCommand_AnyNumber(ch) ==
  /\ console
  /\ Move(Console, "idle", "tune")
  /\ request' = [request EXCEPT ![Console] = ch]
  /\ UNCHANGED <<flags, current_channel, radio, console, reboots>>

\* A line CH<n> is read; other lines and numbers are ignored.
ConsoleCommand(ch) ==
  /\ console
  /\ ch \in Channel
  /\ Move(Console, "idle", "tune")
  /\ request' = [request EXCEPT ![Console] = ch]
  /\ UNCHANGED <<flags, current_channel, radio, console, reboots>>

\* setTelemetryChannel: the flag is read, then acted upon.
SetTelemetryChannel(t, ch) ==
  /\ ch \in Channel
  /\ Move(t, "idle", IF is_radio_active THEN "tune" ELSE "store")
  /\ request' = [request EXCEPT ![t] = ch]
  /\ UNCHANGED <<flags, current_channel, radio, console, reboots>>

StoreChannel(t) ==
  /\ Move(t, "store", "idle")
  /\ current_channel' = request[t]
  /\ UNCHANGED <<flags, radio, console, request, reboots>>

-----------------------------------------------------------------------------
Start(t) ==
  \/ StartWifi(t) \/ StartEspNow(t) \/ AddPeer(t) \/ CreateConsole(t) \/ Activate(t)

Next ==
  \/ \E t \in Sender : Ensure(t) \/ Wait(t) \/ Start(t) \/ Abort(t) \/ Send(t)
  \/ \E t \in Task : Tune(t) \/ Record(t)
  \/ \E t \in Caller : StoreChannel(t) \/ \E ch \in Request : SetTelemetryChannel(t, ch)
  \/ \E ch \in Request : ConsoleCommand(ch)

(***************************************************************************)
(* Fairness.  A task that has begun a send is scheduled until it is done:  *)
(* the two senders outrank nothing they wait for, and the wait sleeps one  *)
(* tick in every turn.  Nobody has to begin one, or to ask for a channel.  *)
(***************************************************************************)
Fairness ==
  /\ \A t \in Sender : WF_vars(Wait(t) \/ Start(t) \/ Send(t))
  /\ \A t \in Task : WF_vars(Tune(t) \/ Record(t))

Spec == Init /\ [][Next]_vars /\ Fairness

-----------------------------------------------------------------------------
\* Every variable has its type.
TypeOK ==
  /\ esp_now_init_started \in BOOLEAN /\ is_radio_active \in BOOLEAN
  /\ current_channel \in Channel
  /\ stack \in {"off", "wifi", "espnow", "peer"}
  /\ tuned \in Channel
  /\ console \in BOOLEAN
  /\ place \in [Task -> Starting \cup {"idle", "wait", "send", "store"}]
  /\ request \in [Task -> Channel]
  /\ reboots \in 0..MaxReboots

InStart(t) == t \in Sender /\ place[t] \in Starting

\* telemetry.cpp:94: start_esp_now runs once, however the first sends of the two
\* tasks interleave: never in two tasks, and never again once the radio is up.
StartsOnce ==
  /\ \A s, t \in Sender : InStart(s) /\ InStart(t) => s = t
  /\ is_radio_active => \A t \in Sender : ~InStart(t)

\* No task calls esp_now_send before ESP-NOW is up and has its peer.
SendsWhenReady == \A t \in Sender : place[t] = "send" => stack = "peer"

\* The channel that sendGpsTelemetry reports is the one the radio is on, except
\* while apply_wifi_channel is between setting the one and recording the other.
ChannelAgrees ==
  is_radio_active /\ (\A t \in Task : place[t] # "record") => current_channel = tuned

\* Nobody waits for nothing: while a task waits for the radio, it is up, or a task is
\* in the start that will say so.  Behind WaitEnds.
WaitIsServed ==
  \A t \in Sender :
    place[t] = "wait" => is_radio_active \/ \E s \in Sender : InStart(s)

\* The seven steps of the start, the two flags and the waits of the senders keep the
\* promises of Link: the start is one step up or a failure before anybody has sent.
LinkState ==
  IF is_radio_active THEN "up" ELSE IF esp_now_init_started THEN "rising" ELSE "down"
Asking  == {t \in Sender : place[t] = "wait" \/ InStart(t)}
Sending == {t \in Sender : place[t] = "send"}
L == INSTANCE Link WITH link <- LinkState, asking <- Asking, sending <- Sending
LinkKept == L!Spec

\* A task that waits for the radio gets to send, or the board reboots.
WaitEnds == \A t \in Sender : place[t] = "wait" ~> place[t] = "idle"

-----------------------------------------------------------------------------
(***************************************************************************)
(* The inductive invariant (TelemetryProofs).                              *)
(***************************************************************************)

\* How far the driver is when a sender stands at a place of the start.
Progress ==
  \A t \in Sender :
    /\ InStart(t) => esp_now_init_started /\ ~is_radio_active
    /\ place[t] = "wifi" => stack = "off"
    /\ place[t] \in {"tune", "record", "espnow"} => stack = "wifi"
    /\ place[t] = "peer" => stack = "espnow"
    /\ place[t] \in {"console", "activate"} => stack = "peer"
    /\ place[t] = "console" => ~console
    /\ place[t] = "send" => is_radio_active

Up ==
  /\ is_radio_active => esp_now_init_started /\ stack = "peer"
  /\ ~esp_now_init_started => stack = "off"
  /\ console => stack = "peer"

\* The first flag stands for the second, or for the task that will set it.
Served ==
  /\ esp_now_init_started => is_radio_active \/ \E s \in Sender : InStart(s)
  /\ \A t \in Sender : place[t] = "wait" => esp_now_init_started

StartInv == StartsOnce /\ Progress /\ Up

\* With nobody but the console to retune: whoever has set the channel of the radio
\* is about to record it, and nobody else is at it.
ChannelInv ==
  /\ place[Console] \in {"idle", "tune", "record"}
  /\ place[Console] # "idle" => console
  /\ \A t \in Task : place[t] = "record" => tuned = request[t]
  /\ \/ stack = "off"
     \/ \E t \in Task : place[t] = "record"
     \/ \E t \in Sender : place[t] = "tune"
     \/ current_channel = tuned
=============================================================================
