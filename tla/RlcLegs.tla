------------------------------ MODULE RlcLegs ------------------------------
(***************************************************************************)
(* What PDCP expects of the RLC entities below a bearer: each is a queue   *)
(* of SDUs sent one after the other.  An SDU is sent in one piece or in    *)
(* several, but no other SDU of the same leg gets in between; a            *)
(* retransmission may be queued right behind the SDU at the head.          *)
(***************************************************************************)
EXTENDS Sequences

CONSTANTS Legs, Sdus

VARIABLES
  queue,   \* SDUs each leg still has to send, the head possibly in part
  half     \* legs that have sent a part of their head, and not its end

vars == <<queue, half>>

Fresh(s) == \A l \in Legs : \A i \in DOMAIN queue[l] : queue[l][i] # s

Init ==
  /\ queue = [l \in Legs |-> <<>>]
  /\ half = {}

Enqueue(l, s) ==
  /\ Fresh(s)
  /\ queue' = [queue EXCEPT ![l] = Append(@, s)]
  /\ UNCHANGED half

\* A retransmission overtakes everything but the head.
EnqueueNext(l, s) ==
  /\ Fresh(s)
  /\ queue[l] # <<>>
  /\ queue' = [queue EXCEPT ![l] = <<Head(@), s>> \o Tail(@)]
  /\ UNCHANGED half

SendPart(l) ==
  /\ queue[l] # <<>>
  /\ half' = half \cup {l}
  /\ UNCHANGED queue

SendRest(l) ==
  /\ queue[l] # <<>>
  /\ queue' = [queue EXCEPT ![l] = Tail(@)]
  /\ half' = half \ {l}

Next ==
  \E l \in Legs :
    \/ \E s \in Sdus : Enqueue(l, s) \/ EnqueueNext(l, s)
    \/ SendPart(l)
    \/ SendRest(l)

Spec == Init /\ [][Next]_vars
=============================================================================
