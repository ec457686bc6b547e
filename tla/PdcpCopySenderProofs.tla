------------------------ MODULE PdcpCopySenderProofs ------------------------
(***************************************************************************)
(* Proofs about PdcpCopy when one end of the bearer sends: a group number  *)
(* then names one SDU, and every request to the sender can be answered.    *)
(* Both fail when the two ends send, because each counts groups with the   *)
(* m_groupnum that its receiving side overwrites.  The sender itself asks  *)
(* for nothing but group 0, and only through an m_IfSendArq that started   *)
(* TRUE.                                                                   *)
(***************************************************************************)
EXTENDS PdcpCopyProofs

\* a sends and b answers.  a has kept an SDU under every group number below its
\* m_groupnum and under no other; b sends only requests for such groups, and
\* nothing is under way before a has sent anything.
SenderInv(a, b) ==
  /\ \A g \in Group : encoding[a][g] # NoSdu <=> g < groupnum[a]
  /\ \A g \in Group : encoding[b][g] = NoSdu
  /\ \A x \in InFlight(a) : x.kind = "data" => x.sdu = encoding[a][x.group]
  /\ \A x \in InFlight(b) : x.kind = "report" /\ x.group < groupnum[a]
  /\ \A g \in timer[b] : g < groupnum[a]
  /\ maxRecv[b] = 0 \/ maxRecv[b] < groupnum[a]
  /\ groupnum[a] = 0 => InFlight(a) = {} /\ timer[a] = {}

\* a receives no data, so m_IfSendArq, m_IfTransmitSduFlag and m_MaxRecvGroupnum
\* keep what they held at the start: a polls at most for group 0, only if
\* m_IfSendArq started TRUE, and no report goes up otherwise.
Uninitialised == TRUE \in InitialIfSendArq

QuietInv(a) ==
  /\ maxRecv[a] = 0
  /\ ~ifTransmitSdu[a]
  /\ ifSendArq[a] => Uninitialised
  /\ \A g \in timer[a] : g = 0 /\ Uninitialised
  /\ \A x \in InFlight(a) : x.kind = "report" => x.group = 0 /\ Uninitialised
  /\ reportUp # {} => Uninitialised

\* What is under way is packets.
LEMMA InFlightPackets ==
  ASSUME TypeOK, NEW p \in Peer
  PROVE  InFlight(p) \subseteq Packet
PROOF
<1>1. leg[p][1] \in Seq(Packet) /\ leg[p][2] \in Seq(Packet)
  BY DEF TypeOK, Rlc
<1> QED BY <1>1 DEF InFlight, Packets

\* A step of p that finds the legs q adds requests for the groups of req to its
\* first leg, and leaves the timers of req running besides those of t.
OnlyRequested(p, q, t, req) ==
  /\ leg'[Other(p)] = q[Other(p)]
  /\ leg'[p][2] = q[p][2]
  /\ Packets(leg'[p][1]) \subseteq Packets(q[p][1]) \cup {Report(g) : g \in req}
  /\ timer' = [timer EXCEPT ![p] = t \cup req]

\* The reports that CopyArqReqSendOnce adds to the first leg are the requested
\* ones.
LEMMA SendsRequested ==
  ASSUME TypeOK, NEW p \in Peer, NEW t, NEW q \in Legs, NEW req \in SUBSET Group,
         CopyArqReqSendOnce(p, t, q, req)
  PROVE  OnlyRequested(p, q, t, req)
PROOF
<1> DEFINE T == {Report(g) : g \in req}
<1>0. Other(p) \in Peer /\ Other(p) # p
  BY Peers
<1>1. PICK s \in InOrder(req) :
        leg' = [q EXCEPT ![p][1] = @ \o [i \in 1..Cardinality(req) |-> Report(s[i])]]
  BY DEF CopyArqReqSendOnce
<1> DEFINE r == [i \in 1..Cardinality(req) |-> Report(s[i])]
<1>2. r \in Seq(T)
  <2>1. Cardinality(req) \in Nat
    BY GroupSets
  <2>2. \A i \in 1..Cardinality(req) : Report(s[i]) \in T
    BY DEF InOrder
  <2> HIDE DEF T
  <2> QED BY <2>1, <2>2
<1>3. T \subseteq Packet
  BY DEF Packet
<1> HIDE DEF r, T
<1>4. q[p][1] \in Seq(Packet)
  BY DEF Legs, Rlc
<1>5. Packets(q[p][1] \o r) \subseteq Packets(q[p][1]) \cup T
  BY <1>2, <1>3, <1>4, ConcatPackets
<1>6. leg' = [q EXCEPT ![p][1] = q[p][1] \o r]
  BY <1>1 DEF r, Legs, Rlc
<1>7. /\ leg'[Other(p)] = q[Other(p)] /\ leg'[p][2] = q[p][2]
      /\ leg'[p][1] = q[p][1] \o r
  BY <1>0, <1>6 DEF Legs, Rlc
<1>8. timer' = [timer EXCEPT ![p] = t \cup req]
  BY DEF CopyArqReqSendOnce
<1> QED BY <1>5, <1>7, <1>8 DEF T, OnlyRequested

\* The end of TriggerRecvPdcpSdu asks only for groups up to m_MaxRecvGroupnum.
LEMMA PollAsks ==
  ASSUME TypeOK, NEW p \in Peer, NEW asked, NEW to \in Group, NEW k, NEW nr, NEW c,
         NEW t, NEW q \in Legs, PollIfAsked(p, asked, to, k, nr, c, t, q)
  PROVE  \E req \in SUBSET Group : (\A i \in req : i <= to) /\ OnlyRequested(p, q, t, req)
PROOF
<1>1. CASE ~asked
  <2>1. leg' = q /\ timer' = [timer EXCEPT ![p] = t]
    BY <1>1 DEF PollIfAsked
  <2>2. t \cup {} = t
    OBVIOUS
  <2> WITNESS {} \in SUBSET Group
  <2> QED BY <2>1, <2>2 DEF OnlyRequested
<1>2. CASE asked
  <2> DEFINE req == Requested(p, vrMs[p], to, c, t)
  <2>1. CopyArqReqSendOnce(p, t, q, req)
    BY <1>2 DEF PollIfAsked, CopySendArqReq
  <2>2. req \in SUBSET Group
    <3>1. Visited(p, vrMs[p], to, c, t) \subseteq Group
      BY PollSets
    <3> QED BY <3>1 DEF Requested
  <2>3. \A i \in req : i <= to
    <3>1. \A i \in req : i \in vrMs[p]..to
      BY DEF Requested, Visited
    <3>2. vrMs[p] \in Int /\ to \in Int
      BY ConstantAssumption DEF TypeOK, Group
    <3> HIDE DEF req
    <3> QED BY <3>1, <3>2
  <2> HIDE DEF req
  <2> req \in SUBSET Group
    BY <2>2
  <2>4. OnlyRequested(p, q, t, req)
    BY <2>1, SendsRequested
  <2> WITNESS req \in SUBSET Group
  <2> QED BY <2>3, <2>4
<1> QED BY <1>1, <1>2

\* A poll that is not asked for asks for nothing.
LEMMA NoPollAsksNothing ==
  ASSUME NEW p \in Peer, NEW asked, ~asked, NEW to, NEW k, NEW nr, NEW c, NEW t, NEW q,
         PollIfAsked(p, asked, to, k, nr, c, t, q)
  PROVE  OnlyRequested(p, q, t, {})
PROOF
<1>1. leg' = q /\ timer' = [timer EXCEPT ![p] = t]
  BY DEF PollIfAsked
<1>2. t \cup {} = t
  OBVIOUS
<1> QED BY <1>1, <1>2 DEF OnlyRequested

\* A step that accepts no SDU keeps the invariant when a adds only copies of the
\* SDUs it keeps, and reports, and b only requests for groups that a has sent.
LEMMA SenderFrame ==
  ASSUME TypeOK, NEW a \in Peer, NEW b \in Peer, SenderInv(a, b),
         encoding' = encoding, groupnum'[a] = groupnum[a],
         \A x \in InFlight(a)' : \/ x \in InFlight(a)
                                 \/ x.kind = "report"
                                 \/ x.sdu = encoding[a][x.group],
         \A x \in InFlight(b)' : \/ x \in InFlight(b)
                                 \/ x.kind = "report" /\ x.group < groupnum[a],
         \A g \in timer'[b] : g \in timer[b] \/ g < groupnum[a],
         maxRecv'[b] = maxRecv[b] \/ maxRecv'[b] < groupnum[a],
         groupnum[a] = 0 => InFlight(a)' = {} /\ timer'[a] = {}
  PROVE  SenderInv(a, b)'
PROOF
<1>1. "report" # "data"
  OBVIOUS
<1>2. /\ \A x \in InFlight(a)' : x.kind = "data" => x.sdu = encoding[a][x.group]
      /\ \A x \in InFlight(b)' : x.kind = "report" /\ x.group < groupnum[a]
      /\ \A g \in timer'[b] : g < groupnum[a]
      /\ maxRecv'[b] = 0 \/ maxRecv'[b] < groupnum[a]
      /\ \A g \in Group : encoding[a][g] # NoSdu <=> g < groupnum[a]
      /\ \A g \in Group : encoding[b][g] = NoSdu
  BY <1>1 DEF SenderInv
<1> QED BY <1>2 DEF SenderInv

-----------------------------------------------------------------------------
(* The invariant, action by action. *)

\* Nothing is under way at the start.
LEMMA SenderInit ==
  ASSUME Init, NEW a \in Peer, NEW b \in Peer
  PROVE  SenderInv(a, b)
PROOF
<1>1. \A p \in Peer : leg[p][1] = <<>> /\ leg[p][2] = <<>>
  BY DEF Init, Rlc
<1>2. \A p \in Peer : InFlight(p) = {}
  BY <1>1 DEF InFlight, Packets
<1>3. \A g \in Group : ~(g < 0)
  BY ConstantAssumption DEF Group
<1> QED BY <1>2, <1>3 DEF Init, SenderInv

\* Accepting an SDU: the group number is new, so both copies carry the SDU that
\* is kept under it.
LEMMA SenderSends ==
  ASSUME TypeOK, NEW a \in Peer, NEW b \in Peer, b = Other(a), SenderInv(a, b),
         TriggerDoTransmitPdcpSdu(a)
  PROVE  SenderInv(a, b)'
PROOF
<1> DEFINE g == groupnum[a]
           s == sent[a] + 1
           x == Data(g, s)
<1>0. b # a /\ Peer = {a, b}
  BY Peers
<1>1. /\ sent[a] < MaxSdu /\ g \in Group
      /\ groupnum' = [groupnum EXCEPT ![a] = g + 1]
      /\ timer' = timer /\ maxRecv' = maxRecv
  BY DEF TriggerDoTransmitPdcpSdu
<1>2. encoding[a][g] = NoSdu
  <2>1. ~(g < g)
    BY <1>1, ConstantAssumption DEF Group
  <2> QED BY <2>1, <1>1 DEF SenderInv
<1>3. encoding' = [encoding EXCEPT ![a][g] = s]
  BY <1>2 DEF TriggerDoTransmitPdcpSdu, SendSaveAndSetTime
<1>4. /\ s \in Sdu /\ s # NoSdu
  <2>1. sent[a] \in 0..MaxSdu /\ MaxSdu \in Nat
    BY ConstantAssumption DEF TypeOK
  <2> QED BY <2>1, <1>1 DEF Sdu, NoSdu
<1>5. /\ encoding'[a][g] = s /\ encoding'[b] = encoding[b]
      /\ \A h \in Group : h # g => encoding'[a][h] = encoding[a][h]
  BY <1>0, <1>1, <1>3 DEF TypeOK
<1>6. leg' = [[leg EXCEPT ![a][1] = Append(@, x)] EXCEPT ![a][2] = Append(@, Data(g, encoding'[a][g]))]
  BY DEF TriggerDoTransmitPdcpSdu, DoTransmitPdcpSdu, DoTransmitPdcpSdu2, MakeRedundancePacket
<1>7. x \in Packet /\ leg[a][1] \in Seq(Packet) /\ leg[a][2] \in Seq(Packet) /\ leg \in Legs
  <2>1. x \in Packet
    <3> HIDE DEF g, s
    <3> QED BY <1>1, <1>4, PacketFacts
  <2> QED BY <2>1 DEF TypeOK, Legs, Rlc
<1> HIDE DEF x
<1>8. leg' = [[leg EXCEPT ![a][1] = Append(@, x)] EXCEPT ![a][2] = Append(@, x)]
  BY <1>5, <1>6 DEF x
<1>9. /\ leg'[b] = leg[b] /\ leg'[a][1] = Append(leg[a][1], x)
      /\ leg'[a][2] = Append(leg[a][2], x)
  BY <1>0, <1>7, <1>8 DEF Legs, Rlc
<1>10. InFlight(b)' = InFlight(b) /\ InFlight(a)' = InFlight(a) \cup {x}
  <2>1. /\ Packets(Append(leg[a][1], x)) = Packets(leg[a][1]) \cup {x}
        /\ Packets(Append(leg[a][2], x)) = Packets(leg[a][2]) \cup {x}
    BY <1>7, AppendPackets
  <2> QED BY <2>1, <1>9 DEF InFlight
<1>11. groupnum'[a] = g + 1 /\ g \in Nat
  BY <1>1, ConstantAssumption DEF TypeOK, Group
<1>12. x.group = g /\ x.sdu = s /\ x.kind = "data"
  BY DEF x, Data
<1> HIDE DEF g, s
<1>13. \A h \in Group : h \in Nat
  BY ConstantAssumption DEF Group
<1>14. \A h \in Group : encoding'[a][h] # NoSdu <=> h < groupnum'[a]
  <2>1. \A h \in Group : encoding[a][h] # NoSdu <=> h < g
    BY DEF SenderInv, g
  <2> QED BY <2>1, <1>4, <1>5, <1>11, <1>13
<1>15. \A y \in InFlight(a)' : y.kind = "data" => y.sdu = encoding'[a][y.group]
  <2>1. ASSUME NEW y \in InFlight(a), y.kind = "data"
        PROVE  y.sdu = encoding'[a][y.group]
    <3>1. y.sdu = encoding[a][y.group]
      BY <2>1 DEF SenderInv
    <3>2. y.sdu \in Sdu /\ y.group \in Group
      BY <2>1, InFlightPackets, PacketFacts
    <3>3. y.sdu # NoSdu
      BY <3>2, ConstantAssumption DEF Sdu, NoSdu
    <3>4. y.group # g
      BY <3>1, <3>3, <1>2 DEF g
    <3> QED BY <3>1, <3>2, <3>4, <1>5
  <2> QED BY <2>1, <1>5, <1>10, <1>12
<1>16. \A y \in InFlight(b)' : y.kind = "report" /\ y.group < groupnum'[a]
  <2>1. \A y \in InFlight(b) : y.kind = "report" /\ y.group < g /\ y.group \in Group
    BY InFlightPackets, PacketFacts DEF SenderInv, g
  <2> QED BY <2>1, <1>10, <1>11, <1>13
<1>17. \A h \in timer'[b] : h < groupnum'[a]
  <2>1. \A h \in timer[b] : h < g /\ h \in Group
    BY DEF SenderInv, g, TypeOK
  <2>2. timer' = timer
    BY <1>1
  <2> QED BY <2>1, <2>2, <1>11, <1>13
<1>18. maxRecv'[b] = 0 \/ maxRecv'[b] < groupnum'[a]
  <2>1. maxRecv[b] \in Group /\ (maxRecv[b] = 0 \/ maxRecv[b] < g)
    BY DEF SenderInv, g, TypeOK
  <2>2. maxRecv' = maxRecv
    BY <1>1
  <2> QED BY <2>1, <2>2, <1>11, <1>13
<1>19. groupnum'[a] # 0
  BY <1>11
<1>20. \A h \in Group : encoding'[b][h] = NoSdu
  BY <1>5 DEF SenderInv
<1> QED BY <1>14, <1>15, <1>16, <1>17, <1>18, <1>19, <1>20 DEF SenderInv

\* Losing a packet.
LEMMA SenderLoses ==
  ASSUME TypeOK, NEW a \in Peer, NEW b \in Peer, b = Other(a), SenderInv(a, b),
         NEW p \in Peer, NEW l \in Rlc, LosePdu(p, l)
  PROVE  SenderInv(a, b)'
PROOF
<1>1. /\ Arrived(p, l) # <<>> /\ leg' = Pop(p, l)
      /\ UNCHANGED <<groupnum, encoding, timer, maxRecv>>
  BY DEF LosePdu, copyVars
<1>2. /\ leg'[p] = leg[p]
      /\ \A i \in Rlc : Packets(leg'[Other(p)][i]) \subseteq Packets(leg[Other(p)][i])
  BY <1>1, PopFacts
<1>3. \A r \in Peer : InFlight(r)' \subseteq InFlight(r)
  BY <1>2, Peers DEF InFlight, Rlc
<1>4. groupnum[a] = 0 => InFlight(a)' = {} /\ timer'[a] = {}
  BY <1>1, <1>3 DEF SenderInv
<1> QED BY <1>1, <1>3, <1>4, SenderFrame

\* A retry timer that expires asks once more for a group it asked for before.
LEMMA SenderExpires ==
  ASSUME TypeOK, NEW a \in Peer, NEW b \in Peer, b = Other(a), SenderInv(a, b),
         NEW p \in Peer, NEW g \in Group, CopyExpireStatusReportTimer(p, g)
  PROVE  SenderInv(a, b)'
PROOF
<1>0. Other(p) \in Peer /\ Other(p) # p /\ Peer = {p, Other(p)} /\ Peer = {a, b}
  BY Peers
<1>1. g \in timer[p] /\ UNCHANGED <<groupnum, encoding, maxRecv>>
  BY DEF CopyExpireStatusReportTimer
<1>2. leg \in Legs
  BY DEF TypeOK, Legs
<1>3. /\ InFlight(p)' \subseteq InFlight(p) \cup {Report(g)}
      /\ InFlight(Other(p))' = InFlight(Other(p))
      /\ timer'[p] \subseteq timer[p] /\ timer'[Other(p)] = timer[Other(p)]
  <2>1. CASE CopyArqReqSendOnce(p, timer[p], leg, {g})
    <3>1. {g} \in SUBSET Group
      OBVIOUS
    <3>2. /\ leg'[Other(p)] = leg[Other(p)] /\ leg'[p][2] = leg[p][2]
          /\ Packets(leg'[p][1]) \subseteq Packets(leg[p][1]) \cup {Report(h) : h \in {g}}
          /\ timer' = [timer EXCEPT ![p] = timer[p] \cup {g}]
      <4>1. OnlyRequested(p, leg, timer[p], {g})
        BY <2>1, <3>1, <1>2, SendsRequested
      <4> QED BY <4>1 DEF OnlyRequested
    <3>3. timer'[p] \subseteq timer[p] /\ timer'[Other(p)] = timer[Other(p)]
      BY <3>2, <1>0, <1>1 DEF TypeOK
    <3> QED BY <3>2, <3>3 DEF InFlight
  <2>2. CASE timer' = [timer EXCEPT ![p] = @ \ {g}] /\ UNCHANGED <<reports, leg>>
    <3>1. timer'[p] \subseteq timer[p] /\ timer'[Other(p)] = timer[Other(p)]
      BY <2>2, <1>0 DEF TypeOK
    <3> QED BY <2>2, <3>1 DEF InFlight
  <2> QED BY <2>1, <2>2 DEF CopyExpireStatusReportTimer
<1>4. Report(g).kind = "report" /\ Report(g).group = g
  BY DEF Report
<1>5. p = b => g < groupnum[a]
  BY <1>1 DEF SenderInv
<1>6. groupnum[a] = 0 => InFlight(a)' = {} /\ timer'[a] = {}
  <2>1. groupnum[a] = 0 => p # a /\ InFlight(a) = {} /\ timer[a] = {}
    BY <1>1 DEF SenderInv
  <2> QED BY <2>1, <1>0, <1>3
<1>7. /\ \A x \in InFlight(a)' : x \in InFlight(a) \/ x.kind = "report"
      /\ \A x \in InFlight(b)' : \/ x \in InFlight(b)
                                 \/ x.kind = "report" /\ x.group < groupnum[a]
      /\ \A h \in timer'[b] : h \in timer[b]
  BY <1>0, <1>3, <1>4, <1>5
<1> QED BY <1>1, <1>6, <1>7, SenderFrame

\* Data only arrives at b: the groups it may ask for have been sent.
LEMMA SenderDataArrives ==
  ASSUME TypeOK, NEW a \in Peer, NEW b \in Peer, b = Other(a), SenderInv(a, b),
         NEW p \in Peer, NEW l \in Rlc, ReceiveData(p, l)
  PROVE  SenderInv(a, b)'
PROOF
<1> DEFINE x == Head(Arrived(p, l))
           g == x.group
           to == MaxRecvGroupnum(p, g)
           t == timer[p] \ {g}
<1>0. Other(a) = b /\ Other(b) = a /\ a # b /\ Peer = {a, b}
  BY Peers
<1>1. /\ Arrived(p, l) # <<>> /\ x.kind = "data"
      /\ groupnum' = [groupnum EXCEPT ![p] = g]
      /\ maxRecv' = [maxRecv EXCEPT ![p] = to]
      /\ encoding' = encoding
  BY DEF ReceiveData, RecvAndSave
<1>2. PICK k, nr, c, asked : PollIfAsked(p, asked, to, k, nr, c, t, Pop(p, l))
  BY DEF ReceiveData, stopArqTimer
<1>3. /\ Pop(p, l) \in Legs /\ Pop(p, l)[p] = leg[p]
      /\ \A i \in Rlc : Packets(Pop(p, l)[Other(p)][i]) \subseteq Packets(leg[Other(p)][i])
      /\ x \in InFlight(Other(p)) /\ x \in Packet
  BY <1>1, PopFacts
<1>4. g \in Group /\ x.sdu \in Sdu
  BY <1>1, <1>3, PacketFacts
<1>5. p = b
  <2>1. p # a
    <3>1. "data" # "report"
      OBVIOUS
    <3> QED BY <3>1, <1>0, <1>1, <1>3 DEF SenderInv
  <2> QED BY <2>1, <1>0
<1>6. g < groupnum[a]
  <2>1. x.sdu = encoding[a][g]
    BY <1>0, <1>1, <1>3, <1>5 DEF SenderInv
  <2>2. x.sdu # NoSdu
    BY <1>4, ConstantAssumption DEF Sdu, NoSdu
  <2> QED BY <2>1, <2>2, <1>4 DEF SenderInv
<1> HIDE DEF x, g
<1>7. to \in Group /\ to < groupnum[a] /\ groupnum[a] # 0
  <2>1. maxRecv[b] \in Group /\ (maxRecv[b] = 0 \/ maxRecv[b] < groupnum[a])
    BY DEF TypeOK, SenderInv
  <2>2. groupnum[a] \in Nat /\ \A h \in Group : h \in Nat
    BY ConstantAssumption DEF TypeOK, Group
  <2> QED BY <2>1, <2>2, <1>4, <1>5, <1>6 DEF MaxRecvGroupnum
<1> HIDE DEF to, t
<1>8. PICK req \in SUBSET Group :
        /\ \A i \in req : i <= to
        /\ leg'[Other(p)] = Pop(p, l)[Other(p)]
        /\ leg'[p][2] = Pop(p, l)[p][2]
        /\ Packets(leg'[p][1]) \subseteq Packets(Pop(p, l)[p][1]) \cup {Report(h) : h \in req}
        /\ timer' = [timer EXCEPT ![p] = t \cup req]
  <2>1. to \in Group /\ Pop(p, l) \in Legs
    BY <1>3, <1>7
  <2>2. PICK req \in SUBSET Group :
          (\A i \in req : i <= to) /\ OnlyRequested(p, Pop(p, l), t, req)
    BY <2>1, <1>2, PollAsks
  <2> QED BY <2>2 DEF OnlyRequested
<1>9. \A i \in req : i < groupnum[a]
  <2>1. groupnum[a] \in Nat /\ \A h \in Group : h \in Nat
    BY ConstantAssumption DEF TypeOK, Group
  <2> QED BY <2>1, <1>7, <1>8
<1>10. InFlight(a)' \subseteq InFlight(a)
  BY <1>0, <1>3, <1>5, <1>8 DEF InFlight, Rlc
<1>11. InFlight(b)' \subseteq InFlight(b) \cup {Report(h) : h \in req}
  BY <1>3, <1>5, <1>8 DEF InFlight, Rlc
<1>12. \A y \in InFlight(b)' : \/ y \in InFlight(b)
                               \/ y.kind = "report" /\ y.group < groupnum[a]
  BY <1>9, <1>11 DEF Report
<1>13. timer'[b] = t \cup req
  BY <1>5, <1>8 DEF TypeOK
<1>14. \A h \in timer'[b] : h \in timer[b] \/ h < groupnum[a]
  BY <1>5, <1>9, <1>13 DEF t
<1>15. groupnum'[a] = groupnum[a] /\ maxRecv'[b] < groupnum[a]
  BY <1>0, <1>1, <1>5, <1>7 DEF TypeOK
<1> QED BY <1>1, <1>7, <1>10, <1>12, <1>14, <1>15, SenderFrame

\* A report: a answers with the SDU it keeps, b keeps none; either may poll.
LEMMA SenderReportArrives ==
  ASSUME TypeOK, NEW a \in Peer, NEW b \in Peer, b = Other(a), SenderInv(a, b),
         NEW p \in Peer, NEW l \in Rlc, ReceiveReport(p, l)
  PROVE  SenderInv(a, b)'
PROOF
<1> DEFINE x == Head(Arrived(p, l))
           g == x.group
           t == timer[p] \ {groupnum[p]}
<1>0. Other(a) = b /\ Other(b) = a /\ a # b /\ Peer = {a, b}
  BY Peers
<1>1. /\ Arrived(p, l) # <<>> /\ x.kind = "report"
      /\ UNCHANGED <<groupnum, maxRecv, encoding>>
      /\ \E q \in MakeCopyArqSendPacket(p, g, Pop(p, l)) :
           PollIfAsked(p, ifSendArq[p], maxRecv[p], known[p], noReceive[p],
                       complete[p], t, q)
  BY DEF ReceiveReport, stopArqTimer
<1>2. /\ Pop(p, l) \in Legs /\ Pop(p, l)[p] = leg[p]
      /\ \A i \in Rlc : Packets(Pop(p, l)[Other(p)][i]) \subseteq Packets(leg[Other(p)][i])
      /\ x \in InFlight(Other(p)) /\ x \in Packet
  BY <1>1, PopFacts
<1>3. g \in Group
  BY <1>2, PacketFacts
<1>4. groupnum[a] # 0
  <2>1. CASE p = b
    BY <2>1, <1>0, <1>2 DEF SenderInv
  <2>2. CASE p = a
    <3>1. g < groupnum[a]
      BY <2>2, <1>0, <1>2 DEF SenderInv
    <3>2. g \in Nat
      BY <1>3, ConstantAssumption DEF Group
    <3> QED BY <3>1, <3>2
  <2> QED BY <2>1, <2>2, <1>0
<1> HIDE DEF x, g, t
<1>5. PICK q \in MakeCopyArqSendPacket(p, g, Pop(p, l)) :
        PollIfAsked(p, ifSendArq[p], maxRecv[p], known[p], noReceive[p],
                    complete[p], t, q)
  BY <1>1
<1>6. /\ q \in Legs
      /\ q[Other(p)] = Pop(p, l)[Other(p)]
      /\ \A i \in Rlc : Packets(q[p][i]) \subseteq
                          Packets(leg[p][i]) \cup {Data(g, encoding[p][g])}
  <2>1. \A i \in Rlc : Packets(q[p][i]) \subseteq
                         Packets(Pop(p, l)[p][i]) \cup {Data(g, encoding[p][g])}
        /\ q \in Legs /\ q[Other(p)] = Pop(p, l)[Other(p)]
    BY <1>2, <1>3, <1>5, AnswerFacts
  <2> QED BY <2>1, <1>2 DEF Rlc
<1>7. p = b => q = Pop(p, l)
  BY <1>3, <1>5 DEF MakeCopyArqSendPacket, SenderInv
<1>8. maxRecv[p] \in Group
  BY DEF TypeOK
<1>9. PICK req \in SUBSET Group :
        /\ \A i \in req : i <= maxRecv[p]
        /\ leg'[Other(p)] = q[Other(p)]
        /\ leg'[p][2] = q[p][2]
        /\ Packets(leg'[p][1]) \subseteq Packets(q[p][1]) \cup {Report(h) : h \in req}
        /\ timer' = [timer EXCEPT ![p] = t \cup req]
  <2>1. q \in Legs
    BY <1>6
  <2>2. PICK req \in SUBSET Group :
          (\A i \in req : i <= maxRecv[p]) /\ OnlyRequested(p, q, t, req)
    BY <2>1, <1>5, <1>8, PollAsks
  <2> QED BY <2>2 DEF OnlyRequested
<1>10. InFlight(Other(p))' \subseteq InFlight(Other(p))
  BY <1>2, <1>6, <1>9 DEF InFlight, Rlc
<1>11. CASE p = b
  <2>1. \A i \in req : i < groupnum[a]
    <3>1. maxRecv[b] = 0 \/ maxRecv[b] < groupnum[a]
      BY DEF SenderInv
    <3>2. groupnum[a] \in Nat /\ \A h \in Group : h \in Nat
      BY ConstantAssumption DEF TypeOK, Group
    <3> QED BY <3>1, <3>2, <1>4, <1>8, <1>9, <1>11
  <2>2. InFlight(b)' \subseteq InFlight(b) \cup {Report(h) : h \in req}
    BY <1>2, <1>7, <1>9, <1>11 DEF InFlight, Rlc
  <2>3. \A y \in InFlight(b)' : \/ y \in InFlight(b)
                                \/ y.kind = "report" /\ y.group < groupnum[a]
    BY <2>1, <2>2 DEF Report
  <2>4. timer'[b] = t \cup req
    BY <1>9, <1>11 DEF TypeOK
  <2>5. \A h \in timer'[b] : h \in timer[b] \/ h < groupnum[a]
    BY <2>1, <2>4, <1>11 DEF t
  <2>6. InFlight(a)' \subseteq InFlight(a)
    BY <1>0, <1>10, <1>11
  <2> QED BY <2>3, <2>5, <2>6, <1>1, <1>4, SenderFrame
<1>12. CASE p = a
  <2>1. InFlight(a)' \subseteq InFlight(a) \cup {Data(g, encoding[a][g])}
                                           \cup {Report(h) : h \in req}
    BY <1>6, <1>9, <1>12 DEF InFlight, Rlc
  <2>2. \A y \in InFlight(a)' : \/ y \in InFlight(a)
                                \/ y.kind = "report"
                                \/ y.sdu = encoding[a][y.group]
    BY <2>1 DEF Report, Data
  <2>3. timer'[b] = timer[b]
    BY <1>0, <1>9, <1>12 DEF TypeOK
  <2>4. InFlight(b)' \subseteq InFlight(b)
    BY <1>0, <1>10, <1>12
  <2> QED BY <2>2, <2>3, <2>4, <1>1, <1>4, SenderFrame
<1> QED BY <1>0, <1>11, <1>12

-----------------------------------------------------------------------------
(* What the sending end, which receives only reports, asks for. *)

\* A step keeps the invariant when a keeps the flags it started with, asks only
\* for group 0 and only if m_IfSendArq may start TRUE, and no report goes up
\* unless it may.
LEMMA QuietFrame ==
  ASSUME NEW a \in Peer, QuietInv(a),
         maxRecv'[a] = maxRecv[a], ifTransmitSdu'[a] = ifTransmitSdu[a],
         ifSendArq'[a] = ifSendArq[a],
         \A g \in timer'[a] : g \in timer[a] \/ (g = 0 /\ Uninitialised),
         \A x \in InFlight(a)' : \/ x \in InFlight(a)
                                 \/ x.kind = "data"
                                 \/ x.group = 0 /\ Uninitialised,
         reportUp' = reportUp \/ Uninitialised
  PROVE  QuietInv(a)'
PROOF
<1>1. "report" # "data"
  OBVIOUS
<1>2. /\ \A x \in InFlight(a)' : x.kind = "report" => x.group = 0 /\ Uninitialised
      /\ \A g \in timer'[a] : g = 0 /\ Uninitialised
      /\ reportUp' # {} => Uninitialised
      /\ maxRecv'[a] = 0 /\ ~ifTransmitSdu'[a] /\ (ifSendArq'[a] => Uninitialised)
  BY <1>1 DEF QuietInv
<1> QED BY <1>2 DEF QuietInv, Uninitialised

\* m_IfSendArq holds one of the values it may start with.
LEMMA QuietInit ==
  ASSUME Init, NEW a \in Peer
  PROVE  QuietInv(a)
PROOF
<1>1. leg[a][1] = <<>> /\ leg[a][2] = <<>>
  BY DEF Init, Rlc
<1>2. InFlight(a) = {}
  BY <1>1 DEF InFlight, Packets
<1>3. ifSendArq[a] \in InitialIfSendArq
  BY DEF Init
<1>4. ifSendArq[a] => Uninitialised
  BY <1>3, ConstantAssumption DEF Uninitialised
<1>5. /\ maxRecv[a] = 0 /\ ~ifTransmitSdu[a] /\ timer[a] = {} /\ reportUp = {}
  BY DEF Init
<1> QED BY <1>2, <1>4, <1>5 DEF QuietInv

\* An arriving report makes a answer, and poll if m_IfSendArq started TRUE; at
\* the other end it can only be one that a sent.
LEMMA QuietReportArrives ==
  ASSUME TypeOK, NEW a \in Peer, QuietInv(a), NEW p \in Peer, NEW l \in Rlc,
         ReceiveReport(p, l)
  PROVE  QuietInv(a)'
PROOF
<1> DEFINE x == Head(Arrived(p, l))
           g == x.group
           t == timer[p] \ {groupnum[p]}
<1>0. Other(p) \in Peer /\ Other(p) # p /\ Peer = {p, Other(p)}
  BY Peers
<1>1. /\ Arrived(p, l) # <<>> /\ x.kind = "report"
      /\ UNCHANGED <<maxRecv, ifTransmitSdu, ifSendArq>>
      /\ reportUp' = IF ifTransmitSdu[p] THEN reportUp \cup {p} ELSE reportUp
      /\ \E q \in MakeCopyArqSendPacket(p, g, Pop(p, l)) :
           PollIfAsked(p, ifSendArq[p], maxRecv[p], known[p], noReceive[p],
                       complete[p], t, q)
  BY DEF ReceiveReport, stopArqTimer
<1>2. /\ Pop(p, l) \in Legs /\ Pop(p, l)[p] = leg[p]
      /\ \A i \in Rlc : Packets(Pop(p, l)[Other(p)][i]) \subseteq Packets(leg[Other(p)][i])
      /\ x \in InFlight(Other(p)) /\ x \in Packet
  BY <1>1, PopFacts
<1>3. g \in Group
  BY <1>2, PacketFacts
<1>4. reportUp' = reportUp \/ Uninitialised
  <2>1. CASE p = a
    BY <2>1, <1>1 DEF QuietInv
  <2>2. CASE Other(p) = a
    BY <2>2, <1>1, <1>2 DEF QuietInv
  <2> QED BY <2>1, <2>2, <1>0
<1> HIDE DEF x, g, t
<1>5. PICK q \in MakeCopyArqSendPacket(p, g, Pop(p, l)) :
        PollIfAsked(p, ifSendArq[p], maxRecv[p], known[p], noReceive[p],
                    complete[p], t, q)
  BY <1>1
<1>6. /\ q \in Legs
      /\ q[Other(p)] = Pop(p, l)[Other(p)]
      /\ \A i \in Rlc : Packets(q[p][i]) \subseteq
                          Packets(leg[p][i]) \cup {Data(g, encoding[p][g])}
  <2>1. \A i \in Rlc : Packets(q[p][i]) \subseteq
                         Packets(Pop(p, l)[p][i]) \cup {Data(g, encoding[p][g])}
        /\ q \in Legs /\ q[Other(p)] = Pop(p, l)[Other(p)]
    BY <1>2, <1>3, <1>5, AnswerFacts
  <2> QED BY <2>1, <1>2 DEF Rlc
<1>7. maxRecv[p] \in Group
  BY DEF TypeOK
<1>8. PICK req \in SUBSET Group :
        /\ \A i \in req : i <= maxRecv[p] /\ ifSendArq[p]
        /\ leg'[Other(p)] = q[Other(p)]
        /\ leg'[p][2] = q[p][2]
        /\ Packets(leg'[p][1]) \subseteq Packets(q[p][1]) \cup {Report(h) : h \in req}
        /\ timer' = [timer EXCEPT ![p] = t \cup req]
  <2>1. q \in Legs
    BY <1>6
  <2>2. CASE ifSendArq[p]
    <3>1. PICK req \in SUBSET Group :
            (\A i \in req : i <= maxRecv[p]) /\ OnlyRequested(p, q, t, req)
      BY <2>1, <1>5, <1>7, PollAsks
    <3> QED BY <2>2, <3>1 DEF OnlyRequested
  <2>3. CASE ~ifSendArq[p]
    <3>1. OnlyRequested(p, q, t, {})
      BY <2>3, <1>5, NoPollAsksNothing
    <3> QED BY <3>1 DEF OnlyRequested
  <2> QED BY <2>2, <2>3
<1>9. CASE p = a
  <2>1. \A i \in req : i = 0 /\ Uninitialised
    <3>1. \A i \in req : i <= 0 /\ Uninitialised
      BY <1>8, <1>9 DEF QuietInv
    <3>2. \A i \in Group : i \in Nat
      BY ConstantAssumption DEF Group
    <3> QED BY <3>1, <3>2
  <2>2. InFlight(a)' \subseteq InFlight(a) \cup {Data(g, encoding[a][g])}
                                           \cup {Report(h) : h \in req}
    BY <1>6, <1>8, <1>9 DEF InFlight, Rlc
  <2>3. \A y \in InFlight(a)' : \/ y \in InFlight(a)
                                \/ y.kind = "data"
                                \/ y.group = 0 /\ Uninitialised
    BY <2>1, <2>2 DEF Report, Data
  <2>4. timer'[a] = t \cup req
    BY <1>8, <1>9 DEF TypeOK
  <2>5. \A h \in timer'[a] : h \in timer[a] \/ (h = 0 /\ Uninitialised)
    BY <2>1, <2>4, <1>9 DEF t
  <2> QED BY <2>3, <2>5, <1>1, <1>4, QuietFrame
<1>10. CASE Other(p) = a
  <2>1. InFlight(a)' \subseteq InFlight(a)
    BY <1>2, <1>6, <1>8, <1>10 DEF InFlight, Rlc
  <2>2. timer'[a] = timer[a]
    BY <1>0, <1>8, <1>10 DEF TypeOK
  <2> QED BY <2>1, <2>2, <1>1, <1>4, QuietFrame
<1> QED BY <1>0, <1>9, <1>10

\* Data arrives only at the other end, and leaves a as it is.
LEMMA QuietDataArrives ==
  ASSUME TypeOK, NEW a \in Peer, NEW b \in Peer, b = Other(a), SenderInv(a, b),
         QuietInv(a), NEW p \in Peer, NEW l \in Rlc, ReceiveData(p, l)
  PROVE  QuietInv(a)'
PROOF
<1> DEFINE x == Head(Arrived(p, l))
           g == x.group
           to == MaxRecvGroupnum(p, g)
           t == timer[p] \ {g}
<1>0. Other(a) = b /\ Other(b) = a /\ a # b /\ Peer = {a, b}
  BY Peers
<1>1. /\ Arrived(p, l) # <<>> /\ x.kind = "data"
      /\ maxRecv' = [maxRecv EXCEPT ![p] = to]
      /\ ifTransmitSdu' = [ifTransmitSdu EXCEPT ![p] = FirstCopy(p, g)]
      /\ ifSendArq' = [ifSendArq EXCEPT ![p] = FirstCopy(p, g) /\ PollingGroup(g)]
      /\ reportUp' = reportUp
  BY DEF ReceiveData, RecvAndSave
<1>2. PICK k, nr, c, asked : PollIfAsked(p, asked, to, k, nr, c, t, Pop(p, l))
  BY DEF ReceiveData, stopArqTimer
<1>3. /\ Pop(p, l) \in Legs /\ Pop(p, l)[p] = leg[p]
      /\ \A i \in Rlc : Packets(Pop(p, l)[Other(p)][i]) \subseteq Packets(leg[Other(p)][i])
      /\ x \in InFlight(Other(p)) /\ x \in Packet
  BY <1>1, PopFacts
<1>4. p = b
  <2>1. p # a
    <3>1. "data" # "report"
      OBVIOUS
    <3> QED BY <3>1, <1>0, <1>1, <1>3 DEF SenderInv
  <2> QED BY <2>1, <1>0
<1>5. g \in Group
  BY <1>1, <1>3, PacketFacts
<1> HIDE DEF x, g
<1>6. to \in Group
  BY <1>5 DEF MaxRecvGroupnum, TypeOK
<1>7. /\ maxRecv'[a] = maxRecv[a] /\ ifTransmitSdu'[a] = ifTransmitSdu[a]
      /\ ifSendArq'[a] = ifSendArq[a]
  BY <1>0, <1>1, <1>4 DEF TypeOK
<1> HIDE DEF to, t
<1>8. PICK req \in SUBSET Group : OnlyRequested(p, Pop(p, l), t, req)
  <2>1. Pop(p, l) \in Legs
    BY <1>3
  <2> QED BY <2>1, <1>2, <1>6, PollAsks
<1>9. InFlight(a)' \subseteq InFlight(a) /\ timer'[a] = timer[a]
  <2>1. leg'[a] = Pop(p, l)[a] /\ timer'[a] = timer[a]
    BY <1>0, <1>4, <1>8 DEF OnlyRequested, TypeOK
  <2> QED BY <2>1, <1>0, <1>3, <1>4 DEF InFlight, Rlc
<1> QED BY <1>1, <1>7, <1>9, QuietFrame

\* Sending, losing a packet and the expiry of a retry timer.
LEMMA QuietSends ==
  ASSUME TypeOK, NEW a \in Peer, QuietInv(a), TriggerDoTransmitPdcpSdu(a)
  PROVE  QuietInv(a)'
PROOF
<1> DEFINE g == groupnum[a]
           x == Data(g, sent[a] + 1)
           y == Data(g, encoding'[a][g])
<1>1. /\ leg' = [[leg EXCEPT ![a][1] = Append(@, x)] EXCEPT ![a][2] = Append(@, y)]
      /\ UNCHANGED <<timer, maxRecv, ifTransmitSdu, ifSendArq, reportUp>>
  BY DEF TriggerDoTransmitPdcpSdu, DoTransmitPdcpSdu, DoTransmitPdcpSdu2,
         MakeRedundancePacket
<1>2. x.kind = "data" /\ y.kind = "data"
  BY DEF Data
<1>3. leg[a][1] \in Seq(Packet) /\ leg[a][2] \in Seq(Packet) /\ leg \in Legs
  BY DEF TypeOK, Legs, Rlc
<1> HIDE DEF x, y
<1>4. leg'[a][1] = Append(leg[a][1], x) /\ leg'[a][2] = Append(leg[a][2], y)
  BY <1>1, <1>3 DEF Legs, Rlc
<1>5. \A z \in InFlight(a)' : z \in InFlight(a) \/ z.kind = "data"
  <2>1. ASSUME NEW s \in Seq(Packet), NEW z, NEW i \in 1..Len(Append(s, z))
        PROVE  Append(s, z)[i] \in Packets(s) \/ Append(s, z)[i] = z
    <3>1. CASE i = Len(s) + 1
      BY <3>1
    <3>2. CASE i \in 1..Len(s)
      BY <3>2 DEF Packets
    <3> QED BY <3>1, <3>2
  <2>2. /\ Packets(leg'[a][1]) \subseteq Packets(leg[a][1]) \cup {x}
        /\ Packets(leg'[a][2]) \subseteq Packets(leg[a][2]) \cup {y}
    BY <2>1, <1>3, <1>4 DEF Packets
  <2> QED BY <2>2, <1>2 DEF InFlight
<1> QED BY <1>1, <1>5, QuietFrame

LEMMA QuietLoses ==
  ASSUME TypeOK, NEW a \in Peer, QuietInv(a), NEW p \in Peer, NEW l \in Rlc,
         LosePdu(p, l)
  PROVE  QuietInv(a)'
PROOF
<1>1. /\ Arrived(p, l) # <<>> /\ leg' = Pop(p, l)
      /\ UNCHANGED <<timer, maxRecv, ifTransmitSdu, ifSendArq, reportUp>>
  BY DEF LosePdu, copyVars
<1>2. /\ leg'[p] = leg[p]
      /\ \A i \in Rlc : Packets(leg'[Other(p)][i]) \subseteq Packets(leg[Other(p)][i])
  BY <1>1, PopFacts
<1>3. InFlight(a)' \subseteq InFlight(a)
  BY <1>2, Peers DEF InFlight, Rlc
<1> QED BY <1>1, <1>3, QuietFrame

LEMMA QuietExpires ==
  ASSUME TypeOK, NEW a \in Peer, QuietInv(a), NEW p \in Peer, NEW g \in Group,
         CopyExpireStatusReportTimer(p, g)
  PROVE  QuietInv(a)'
PROOF
<1>0. Other(p) \in Peer /\ Other(p) # p /\ Peer = {p, Other(p)}
  BY Peers
<1>1. g \in timer[p] /\ UNCHANGED <<maxRecv, ifTransmitSdu, ifSendArq, reportUp>>
  BY DEF CopyExpireStatusReportTimer
<1>2. leg \in Legs /\ {g} \in SUBSET Group
  BY DEF TypeOK, Legs
<1>3. CASE CopyArqReqSendOnce(p, timer[p], leg, {g})
  <2>1. OnlyRequested(p, leg, timer[p], {g})
    BY <1>2, <1>3, SendsRequested
  <2>2. timer' = timer
    <3>1. timer[p] \cup {g} = timer[p]
      BY <1>1
    <3> QED BY <2>1, <3>1 DEF OnlyRequested, TypeOK
  <2>3. /\ InFlight(Other(p))' = InFlight(Other(p))
        /\ InFlight(p)' \subseteq InFlight(p) \cup {Report(g)}
    BY <2>1 DEF OnlyRequested, InFlight
  <2>4. Report(g).group = g /\ (p = a => g = 0 /\ Uninitialised)
    BY <1>1 DEF Report, QuietInv
  <2> QED BY <2>2, <2>3, <2>4, <1>0, <1>1, QuietFrame
<1>4. CASE timer' = [timer EXCEPT ![p] = @ \ {g}] /\ UNCHANGED <<reports, leg>>
  <2>1. timer'[a] \subseteq timer[a] /\ InFlight(a)' = InFlight(a)
    BY <1>4 DEF InFlight, TypeOK
  <2> QED BY <2>1, <1>1, QuietFrame
<1> QED BY <1>3, <1>4 DEF CopyExpireStatusReportTimer

-----------------------------------------------------------------------------
(* The theorems. *)

\* With one sending end every step keeps the invariant.
LEMMA SenderNext ==
  ASSUME NEW a \in Peer, Source = {a}, Inv, SenderInv(a, Other(a)), [Next]_vars
  PROVE  SenderInv(a, Other(a))'
PROOF
<1> DEFINE b == Other(a)
<1>0. b \in Peer /\ TypeOK
  BY Peers DEF Inv
<1>1. CASE UNCHANGED vars
  BY <1>1 DEF SenderInv, InFlight, vars, copyVars
<1>2. ASSUME NEW p \in Peer, TriggerDoTransmitPdcpSdu(p)
      PROVE  SenderInv(a, b)'
  <2>1. p = a
    BY <1>2 DEF TriggerDoTransmitPdcpSdu
  <2> QED BY <2>1, <1>0, <1>2, SenderSends
<1>3. ASSUME NEW p \in Peer, NEW l \in Rlc,
             ReceiveData(p, l) \/ ReceiveReport(p, l) \/ LosePdu(p, l)
      PROVE  SenderInv(a, b)'
  BY <1>0, <1>3, SenderDataArrives, SenderReportArrives, SenderLoses
<1>4. ASSUME NEW p \in Peer, NEW g \in Group, CopyExpireStatusReportTimer(p, g)
      PROVE  SenderInv(a, b)'
  BY <1>0, <1>4, SenderExpires
<1> QED BY <1>1, <1>2, <1>3, <1>4 DEF Next

\* With one sending end the invariant holds in every behaviour.
THEOREM SenderInvariance ==
  ASSUME NEW a \in Peer, Source = {a}
  PROVE  Spec => []SenderInv(a, Other(a))
PROOF
<1>1. Init => SenderInv(a, Other(a))
  BY Peers, SenderInit
<1>2. Inv /\ SenderInv(a, Other(a)) /\ [Next]_vars => SenderInv(a, Other(a))'
  BY SenderNext
<1> QED BY <1>1, <1>2, InvariantHolds, PTL DEF Spec

\* With one sending end every step keeps what that end asks for.
LEMMA QuietNext ==
  ASSUME NEW a \in Peer, Source = {a}, Inv, SenderInv(a, Other(a)), QuietInv(a),
         [Next]_vars
  PROVE  QuietInv(a)'
PROOF
<1>0. Other(a) \in Peer /\ TypeOK
  BY Peers DEF Inv
<1>1. CASE UNCHANGED vars
  BY <1>1 DEF QuietInv, Uninitialised, InFlight, vars, copyVars
<1>2. ASSUME NEW p \in Peer, TriggerDoTransmitPdcpSdu(p)
      PROVE  QuietInv(a)'
  <2>1. p = a
    BY <1>2 DEF TriggerDoTransmitPdcpSdu
  <2> QED BY <2>1, <1>0, <1>2, QuietSends
<1>3. ASSUME NEW p \in Peer, NEW l \in Rlc,
             ReceiveData(p, l) \/ ReceiveReport(p, l) \/ LosePdu(p, l)
      PROVE  QuietInv(a)'
  BY <1>0, <1>3, QuietDataArrives, QuietReportArrives, QuietLoses
<1>4. ASSUME NEW p \in Peer, NEW g \in Group, CopyExpireStatusReportTimer(p, g)
      PROVE  QuietInv(a)'
  BY <1>0, <1>4, QuietExpires
<1> QED BY <1>1, <1>2, <1>3, <1>4 DEF Next

\* With one sending end that end asks only for group 0, and only through an
\* m_IfSendArq that started TRUE.
THEOREM QuietInvariance ==
  ASSUME NEW a \in Peer, Source = {a}
  PROVE  Spec => []QuietInv(a)
PROOF
<1>1. Init => QuietInv(a)
  BY QuietInit
<1>2. Inv /\ SenderInv(a, Other(a)) /\ QuietInv(a) /\ [Next]_vars => QuietInv(a)'
  BY QuietNext
<1> QED BY <1>1, <1>2, InvariantHolds, SenderInvariance, PTL DEF Spec

\* With one sending end, whichever it is, MakeCopyArqSendPacket finds every
\* group that end is asked for; the reports the sending end itself sends ask for
\* group 0 and exist only if the uninitialised m_IfSendArq may be TRUE.
THEOREM OneWayReportsHolds ==
  ASSUME NEW a \in Peer, Source = {a}
  PROVE  Spec => []OneWayReports
PROOF
<1>1. Inv /\ SenderInv(a, Other(a)) /\ QuietInv(a) => OneWayReports
  <2> SUFFICES ASSUME Inv, SenderInv(a, Other(a)), QuietInv(a), NEW p \in Peer,
                      NEW x \in InFlight(Other(p)), x.kind = "report"
               PROVE  IF p \in Source THEN encoding[p][x.group] # NoSdu
                                      ELSE TRUE \in InitialIfSendArq /\ x.group = 0
    BY DEF OneWayReports
  <2>1. CASE p = a
    <3>1. x.group \in Group
      BY Peers, InFlightPackets, PacketFacts DEF Inv
    <3>2. encoding[a][x.group] # NoSdu
      BY <2>1, <3>1 DEF SenderInv
    <3> QED BY <2>1, <3>2
  <2>2. CASE p # a
    <3>1. Other(p) = a
      BY <2>2, Peers
    <3>2. TRUE \in InitialIfSendArq /\ x.group = 0
      BY <3>1 DEF QuietInv, Uninitialised
    <3> QED BY <2>2, <3>2
  <2> QED BY <2>1, <2>2
<1> QED BY <1>1, InvariantHolds, SenderInvariance, QuietInvariance, PTL

\* With one sending end and m_IfSendArq starting FALSE, TriggerRecvPdcpSdu hands
\* no status report to the upper layers.
THEOREM ReportsStayInPdcpHolds ==
  ASSUME NEW a \in Peer, Source = {a}, TRUE \notin InitialIfSendArq
  PROVE  Spec => []ReportsStayInPdcp
PROOF
<1>1. QuietInv(a) => ReportsStayInPdcp
  BY DEF QuietInv, Uninitialised, ReportsStayInPdcp
<1> QED BY <1>1, QuietInvariance, PTL

\* With one sending end a group number names one SDU.
THEOREM OneSduPerGroupHolds ==
  ASSUME NEW a \in Peer, Source = {a}
  PROVE  Spec => []OneSduPerGroup
PROOF
<1>1. SenderInv(a, Other(a)) => OneSduPerGroup
  <2> SUFFICES ASSUME SenderInv(a, Other(a)), NEW p \in Peer, NEW x \in InFlight(p),
                      x.kind = "data"
               PROVE  x.sdu = encoding[p][x.group]
    BY DEF OneSduPerGroup
  <2>1. p = a \/ p = Other(a)
    BY Peers
  <2>2. "data" # "report"
    OBVIOUS
  <2> QED BY <2>1, <2>2 DEF SenderInv
<1> QED BY <1>1, SenderInvariance, PTL
=============================================================================
