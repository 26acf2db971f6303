-------------------------------- MODULE Link --------------------------------
(***************************************************************************)
(* What the senders can rely on, whatever the start does inside: the first *)
(* to ask makes the link rise, in one step it is up and lets them in, one  *)
(* after the other, and it stays up.  Only a link that is still rising can *)
(* fail, and then nobody has sent yet and all begins anew.                 *)
(***************************************************************************)
CONSTANTS Sender   \* the tasks that send

VARIABLES
  link,      \* "down", "rising", "up"
  asking,    \* the tasks that ask for the link
  sending    \* the tasks it has let in

vars == <<link, asking, sending>>

Init == link = "down" /\ asking = {} /\ sending = {}

Ask(t) ==
  /\ t \notin asking \cup sending
  /\ asking' = asking \cup {t}
  /\ link' = IF link = "down" THEN "rising" ELSE link
  /\ UNCHANGED sending

LetIn(t) ==
  /\ t \in asking
  /\ asking' = asking \ {t}
  /\ sending' = sending \cup {t}

\* The link comes up and lets in the task that made it rise.
Rise(t) == link = "rising" /\ sending = {} /\ link' = "up" /\ LetIn(t)

Admit(t) == link = "up" /\ LetIn(t) /\ UNCHANGED link

Leave(t) == t \in sending /\ sending' = sending \ {t} /\ UNCHANGED <<link, asking>>

Fail ==
  /\ link = "rising" /\ sending = {}
  /\ link' = "down" /\ asking' = {}
  /\ UNCHANGED sending

Next == Fail \/ \E t \in Sender : Ask(t) \/ Rise(t) \/ Admit(t) \/ Leave(t)

Safe == Init /\ [][Next]_vars

Spec ==
  /\ Safe
  /\ WF_vars(\E t \in Sender : Rise(t))
  /\ \A t \in Sender : WF_vars(Admit(t)) /\ WF_vars(Leave(t))
=============================================================================
