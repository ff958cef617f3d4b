----------------------------- MODULE FifoHandoff -----------------------------
(***************************************************************************)
(* What the queue between the router thread and a connector thread         *)
(* promises: a message put on a stream is handed over once, after the      *)
(* messages put on its stream before it.  Streams are independent of one   *)
(* another, and the queue may hold messages back (batching).               *)
(***************************************************************************)
EXTENDS Naturals, Sequences

CONSTANT Streams

VARIABLES
  waiting,   \* waiting[s]: the messages put and not handed over, oldest first
  handed     \* handed[s]: the messages handed over, oldest first

Empty == [s \in Streams |-> <<>>]

Init == waiting = Empty /\ handed = Empty

(* One or more messages join the end of a stream.                          *)
Put(s) ==
  /\ \E n \in 1 .. Len(waiting'[s]) :
       waiting[s] = SubSeq(waiting'[s], 1, Len(waiting'[s]) - n)
  /\ waiting' = [waiting EXCEPT ![s] = waiting'[s]]
  /\ UNCHANGED handed

(* A prefix of every stream is handed over.                                *)
HandOver ==
  /\ DOMAIN waiting' = Streams /\ DOMAIN handed' = Streams
  /\ \A s \in Streams : \E k \in 0 .. Len(waiting[s]) :
       /\ handed'[s] = handed[s] \o SubSeq(waiting[s], 1, k)
       /\ waiting'[s] = SubSeq(waiting[s], k + 1, Len(waiting[s]))

Next == HandOver \/ \E s \in Streams : Put(s)

Spec == Init /\ [][Next]_<<waiting, handed>>
==============================================================================
