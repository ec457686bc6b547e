---------------------------- MODULE SduDelivery ----------------------------
(***************************************************************************)
(* What a radio bearer with PDCP duplication promises the layers above     *)
(* it: an SDU that one end accepted may be handed up at the other end, at  *)
(* most once, in any order.  It does not promise that nothing else goes    *)
(* up: an end that has handed up an SDU may also hand up a packet that is  *)
(* none, which LtePdcp does with a status report.  The two LtePdcp         *)
(* entities and their RLC legs are shown to implement it.                  *)
(***************************************************************************)
EXTENDS Naturals

CONSTANTS Enb, Ue, MaxSdu

VARIABLES
  sent,    \* number of SDUs each end accepted (LtePdcpSapProvider::TransmitPdcpSdu)
  upper,   \* how often each end handed up each SDU of the other end
  foreign  \* ends that handed up a packet that is no SDU

vars == <<sent, upper, foreign>>

End == {Enb, Ue}
Far(p) == IF p = Enb THEN Ue ELSE Enb

Init ==
  /\ sent = [p \in End |-> 0]
  /\ upper = [p \in End |-> [s \in 1..MaxSdu |-> 0]]
  /\ foreign = {}

\* The upper layer of end p hands an SDU to PDCP.
Accept(p) ==
  /\ sent[p] < MaxSdu
  /\ sent' = [sent EXCEPT ![p] = @ + 1]
  /\ UNCHANGED <<upper, foreign>>

\* End p hands up SDU s of the far end, which accepted it, for the first time.
HandUp(p, s) ==
  /\ s <= sent[Far(p)]
  /\ upper[p][s] = 0
  /\ upper' = [upper EXCEPT ![p][s] = 1]
  /\ UNCHANGED <<sent, foreign>>

\* End p, which has handed up an SDU before, hands up something else.
HandUpForeign(p) ==
  /\ \E s \in 1..MaxSdu : upper[p][s] = 1
  /\ foreign' = foreign \cup {p}
  /\ UNCHANGED <<sent, upper>>

Next ==
  \E p \in End :
    Accept(p) \/ HandUpForeign(p) \/ \E s \in 1..MaxSdu : HandUp(p, s)

Spec == Init /\ [][Next]_vars
=============================================================================
