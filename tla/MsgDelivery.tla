---------------------------- MODULE MsgDelivery ------------------------------
(***************************************************************************)
(* What the server does with a message, seen from outside: it accepts it,  *)
(* holds it, and at last either has it acknowledged by Kafka, discards it  *)
(* and says so, or loses it unreported.  A message ends once, and what     *)
(* ended stays as it is.                                                   *)
(***************************************************************************)
CONSTANT Msgs

VARIABLES
  held,        \* accepted, and not at its end
  acked,       \* acknowledged by Kafka
  reported,    \* discarded, and counted as such
  lost         \* gone without a trace

Init == held = {} /\ acked = {} /\ reported = {} /\ lost = {}

Known == held \cup acked \cup reported \cup lost

Accept(m) ==
  /\ m \notin Known
  /\ held' = held \cup {m}
  /\ UNCHANGED <<acked, reported, lost>>

(* Some of the held messages end, each in one way.                         *)
End ==
  \E A \in SUBSET held : \E D \in SUBSET (held \ A) : \E L \in SUBSET (held \ (A \cup D)) :
    /\ held' = held \ (A \cup D \cup L)
    /\ acked' = acked \cup A
    /\ reported' = reported \cup D
    /\ lost' = lost \cup L

Next == End \/ \E m \in Msgs : Accept(m)

Spec == Init /\ [][Next]_<<held, acked, reported, lost>>
==============================================================================
