---------------------------- MODULE PdcpNcProofs ----------------------------
(***************************************************************************)
(* Proofs about PdcpNc, for every block size, code rate, polling rule and  *)
(* number of groups, losses and packets on the air.                        *)
(***************************************************************************)
EXTENDS PdcpNc, FiniteSetTheorems, WellFoundedInduction, TLAPS

-----------------------------------------------------------------------------
(* The invariant. *)

Types ==
  /\ txGroup \in 0..(MaxGroup + 1) /\ saved \in Original
  /\ IsABag(air) /\ DOMAIN air \subseteq Packet
  /\ IsABag(back) /\ DOMAIN back \subseteq Report
  /\ IsABag(strayTimers) /\ DOMAIN strayTimers \subseteq Report
  /\ losses \in 0..MaxLoss /\ strayCount \in 0..MaxReports
  /\ rxGroup \in Group /\ vrMs \in 0..(MaxGroup + 1)
  /\ vec \in [Group -> Seq(Original)]
  /\ deliverdSN \in [Group -> SUBSET Original]
  /\ complete \subseteq Group /\ timer \subseteq Group /\ decoded \subseteq Group
  /\ rank \in [Group -> 0..K]
  /\ reports \in [Group -> 0..MaxReports]
  /\ handed \in [Group -> Nat]
  /\ got \in [Group -> SUBSET Original]

\* The sender has sent original s of group g.
Sent(g, s) == g < txGroup \/ (g = txGroup /\ s < saved)

\* Originals are sent once; redundancy and retransmissions are sent when the
\* whole group has been.
OnAir ==
  \A x \in DOMAIN air :
    /\ x.sn >= K => x.group < txGroup
    /\ x.sn < K => Sent(x.group, x.sn) /\ air[x] = 1

\* A vector stops growing when it has K packets, and no rank claims more than
\* the vector has.
Ranks ==
  /\ \A g \in Group : /\ Len(vec[g]) <= K /\ rank[g] <= Len(vec[g])
                      /\ g \notin complete => Len(vec[g]) < K
  /\ ReportNeverOverstates

\* A group is complete because it was decoded or because it used its reports.
Settled ==
  /\ \A g \in complete : g \in decoded \/ reports[g] = MaxReports
  /\ NcPassedGroupsSettled

\* While a group is incomplete what it delivered was sent, and is not on the air
\* any more: no original comes twice.  Every delivery is counted.
Delivered ==
  /\ \A g \in Group : \A s \in deliverdSN[g] :
       g \notin complete => Sent(g, s) /\ [group |-> g, sn |-> s] \notin DOMAIN air
  /\ \A g \in Group : handed[g] = Cardinality(deliverdSN[g])
  /\ \A g \in decoded : g \in complete /\ deliverdSN[g] = Original

\* The m_statusReportTimer of a finished group does not run.
TimerStopped == timer \cap complete = {}

Inv ==
  /\ Types /\ OnAir /\ Ranks /\ Settled /\ Delivered
  /\ TimerStopped /\ AnswerIndexInRange

-----------------------------------------------------------------------------
(* Bags, sets and counting. *)

\* Adding a bag: the copies of what it does not hold stay as they are.
LEMMA Put ==
  ASSUME NEW A, NEW B, IsABag(A), IsABag(B)
  PROVE  /\ IsABag(A (+) B)
         /\ DOMAIN (A (+) B) = DOMAIN A \cup DOMAIN B
         /\ \A e \in DOMAIN A \ DOMAIN B : (A (+) B)[e] = A[e]
         /\ \A e \in DOMAIN B \ DOMAIN A : (A (+) B)[e] = B[e]
PROOF BY DEF IsABag, (+)

\* The bag of a set holds one copy of every element.
LEMMA OneEach ==
  ASSUME NEW S
  PROVE  /\ IsABag(SetToBag(S))
         /\ DOMAIN SetToBag(S) = S
         /\ \A e \in S : SetToBag(S)[e] = 1
PROOF BY DEF IsABag, SetToBag

\* Taking one copy of e: the rest stays, and e goes when it was the only one.
LEMMA Take ==
  ASSUME NEW A, IsABag(A), NEW e \in DOMAIN A
  PROVE  /\ IsABag(A (-) SetToBag({e}))
         /\ DOMAIN (A (-) SetToBag({e})) \subseteq DOMAIN A
         /\ \A d \in DOMAIN (A (-) SetToBag({e})) :
              d # e => (A (-) SetToBag({e}))[d] = A[d]
         /\ A[e] = 1 => e \notin DOMAIN (A (-) SetToBag({e}))
PROOF
<1> DEFINE B == [d \in DOMAIN A |-> IF d \in {e} THEN A[d] - 1 ELSE A[d]]
           D == {d \in DOMAIN A : B[d] > 0}
<1>1. A (-) SetToBag({e}) = [d \in D |-> B[d]]
  BY DEF (-), SetToBag
<1>2. \A d \in DOMAIN A : A[d] \in Nat /\ A[d] > 0
  BY DEF IsABag
<1>3. \A d \in D : B[d] \in Nat /\ B[d] > 0 /\ (d # e => B[d] = A[d])
  BY <1>2
<1>4. A[e] = 1 => e \notin D
  BY <1>2
<1> HIDE DEF B
<1>5. IsABag([d \in D |-> B[d]])
  BY <1>3 DEF IsABag
<1> QED BY <1>1, <1>3, <1>4, <1>5

\* The groups from a to just below b.
LEMMA Between == \A a, b, m \in Int : m < b /\ ~(m < a) => m \in a..(b - 1)
PROOF OBVIOUS

\* The originals of a group are K.
LEMMA Originals == IsFiniteSet(Original) /\ Cardinality(Original) = K
PROOF
<1>1. 0 \in Int /\ K - 1 \in Int /\ K > 0 /\ K \in Nat
  BY NcAssumption
<1> QED BY <1>1, FS_Interval DEF Original

\* Sets of originals that do not overlap are counted together.
LEMMA Together ==
  ASSUME NEW S \in SUBSET Original, NEW T \in SUBSET Original, S \cap T = {}
  PROVE  /\ Cardinality(S) \in Nat /\ Cardinality(T) \in Nat
         /\ Cardinality(S \cup T) = Cardinality(S) + Cardinality(T)
PROOF
<1>1. IsFiniteSet(S) /\ IsFiniteSet(T)
  BY Originals, FS_Subset
<1>2. Cardinality(S) \in Nat /\ Cardinality(T) \in Nat
  BY <1>1, FS_CardinalityType
<1>3. Cardinality(S \cup T) = Cardinality(S) + Cardinality(T) - Cardinality(S \cap T)
  BY <1>1, FS_Union
<1>4. Cardinality(S \cap T) = 0
  BY FS_EmptySet
<1> QED BY <1>2, <1>3, <1>4

-----------------------------------------------------------------------------
(* The operators of the model. *)

\* MakeNcArqSendPacket sends only retransmissions, of the group asked for.
LEMMA Answer ==
  ASSUME NEW r \in Report
  PROVE  /\ IsABag(MakeNcArqSendPacket(r))
         /\ \A x \in DOMAIN MakeNcArqSendPacket(r) :
              x \in Packet /\ x.sn > K /\ x.group = r.group
PROOF
<1> DEFINE n == IF InEncodingList(r.group) THEN K - r.rank ELSE 0
           plain == [group |-> r.group, sn |-> ReTx]
           last == [group |-> r.group, sn |-> ReTxPoll]
           many == [x \in {plain} |-> n - 1]
<1>1. n \in Nat
  BY NcAssumption DEF Report
<1>2. /\ r.group \in Group
      /\ \A x \in {plain, last} : x \in Packet /\ x.sn > K /\ x.group = r.group
  BY NcAssumption DEF Report, Packet, ReTx, ReTxPoll
<1>3. CASE n = 0
  <2>1. MakeNcArqSendPacket(r) = SetToBag({})
    BY <1>3 DEF MakeNcArqSendPacket, EmptyBag
  <2> QED BY <2>1, OneEach
<1>4. CASE n = 1
  <2>1. MakeNcArqSendPacket(r) = SetToBag({last})
    BY <1>4 DEF MakeNcArqSendPacket
  <2> QED BY <2>1, <1>2, OneEach
<1>5. CASE n > 1
  <2>1. MakeNcArqSendPacket(r) = SetToBag({last}) (+) many
    BY <1>5, <1>1 DEF MakeNcArqSendPacket
  <2>2. n - 1 \in Nat /\ n - 1 > 0
    BY <1>5, <1>1
  <2> HIDE DEF n, last, plain
  <2>3. IsABag(many) /\ DOMAIN many = {plain}
    BY <2>2 DEF IsABag
  <2>4. IsABag(SetToBag({last})) /\ DOMAIN SetToBag({last}) = {last}
    BY OneEach
  <2> HIDE DEF many
  <2>5. /\ IsABag(SetToBag({last}) (+) many)
        /\ DOMAIN (SetToBag({last}) (+) many) = {last} \cup {plain}
    BY <2>3, <2>4, Put
  <2> QED BY <2>1, <2>5, <1>2
<1> QED BY <1>1, <1>3, <1>4, <1>5

\* What NcSendArqReq asks for and gives up: groups up to the polling one that
\* are neither complete nor waiting, told apart by the reports they have left.
LEMMA Walk ==
  ASSUME Types, NEW g \in Group, NEW c, NEW t
  PROVE  /\ \A i \in Requested(PollRange(g), c, t) :
              i \in Group /\ i <= g /\ i \notin c /\ i \notin t /\ reports[i] < MaxReports
         /\ \A i \in GivenUp(PollRange(g), c, t) :
              i \in Group /\ i \notin c /\ i \notin t /\ reports[i] = MaxReports
PROOF
<1>1. vrMs \in Nat /\ g \in Nat /\ Lag \in Nat /\ g <= MaxGroup /\ MaxGroup \in Nat
  BY NcAssumption DEF Types, Group
<1>2. \A i \in PollRange(g) : i \in Group /\ i <= g
  BY <1>1 DEF PollRange, Group
<1>3. \A i \in Group : reports[i] \in 0..MaxReports
  BY DEF Types
<1>4. \A i \in Group : reports[i] >= MaxReports => reports[i] = MaxReports
  BY <1>3, NcAssumption
<1>5. \A i \in Requested(PollRange(g), c, t) :
         i \in PollRange(g) /\ i \notin c /\ i \notin t /\ reports[i] < MaxReports
  BY DEF Requested, Askable
<1>6. \A i \in GivenUp(PollRange(g), c, t) :
         i \in PollRange(g) /\ i \notin c /\ i \notin t /\ reports[i] >= MaxReports
  BY DEF GivenUp, Visited
<1> QED BY <1>2, <1>4, <1>5, <1>6

-----------------------------------------------------------------------------
(* The sender. *)

\* Accepting an SDU: its original was never sent before, and redundancy leaves
\* together with the group's last original.
LEMMA Transmit == Inv /\ TriggerDoTransmitPdcpSdu => Inv'
PROOF
<1> SUFFICES ASSUME Inv, TriggerDoTransmitPdcpSdu PROVE Inv'
  OBVIOUS
<1> DEFINE original == [group |-> txGroup, sn |-> saved]
           redundancy == {[group |-> txGroup, sn |-> i] : i \in K..(N - 1)}
<1>1. /\ txGroup \in Group /\ txGroup \in Nat /\ saved \in Nat /\ saved < K
      /\ MaxGroup \in Nat /\ txGroup <= MaxGroup /\ K \in Nat /\ N \in Nat /\ K < N
  BY NcAssumption DEF TriggerDoTransmitPdcpSdu, Inv, Types, Group, Original
<1>2. PICK P : /\ air' = air (+) SetToBag(P)
               /\ original \in P
               /\ \/ /\ saved + 1 < K /\ P = {original}
                     /\ saved' = saved + 1 /\ txGroup' = txGroup
                  \/ /\ saved + 1 = K /\ P = {original} \cup redundancy
                     /\ saved' = 0 /\ txGroup' = txGroup + 1
  <2>1. CASE saved + 1 < K
    BY <1>1, <2>1, Zenon DEF TriggerDoTransmitPdcpSdu, ToogleSend
  <2>2. CASE saved + 1 = K
    <3>1. ~(saved + 1 < K)
      BY <1>1, <2>2
    <3> QED BY <2>2, <3>1, Zenon DEF TriggerDoTransmitPdcpSdu, ToogleSend
  <2> QED BY <1>1, <2>1, <2>2
<1>3. UNCHANGED <<rxVars, back, losses>>
  BY DEF TriggerDoTransmitPdcpSdu
<1>4. txGroup' \in 0..(MaxGroup + 1) /\ saved' \in Original /\ txGroup <= txGroup'
  BY <1>1, <1>2 DEF Original, Group
<1>5. \A x \in P : /\ x \in Packet
                   /\ x.sn < K => x = original
                   /\ x.sn >= K => x.group < txGroup'
  <2>1. original \in Packet /\ original.sn < K
    BY <1>1 DEF Packet, ReTxPoll
  <2>2. \A x \in redundancy : x \in Packet /\ x.sn >= K /\ x.group = txGroup
    BY <1>1 DEF Packet, ReTxPoll
  <2> QED BY <1>1, <1>2, <2>1, <2>2
<1>6. /\ ~Sent(txGroup, saved)
      /\ \A i \in Group, j \in Original : i = txGroup /\ j = saved => Sent(i, j)'
      /\ \A i \in Group : \A j \in Original : Sent(i, j) => Sent(i, j)'
  <2>1. \/ saved' = saved + 1 /\ txGroup' = txGroup
        \/ saved' = 0 /\ txGroup' = txGroup + 1
    BY <1>2
  <2>2. \A i \in Group : \A j \in Original : i \in Nat /\ j \in Nat /\ j < K
    BY <1>1 DEF Group, Original
  <2> QED BY <1>1, <2>1, <2>2 DEF Sent
<1> HIDE DEF original, redundancy
<1>7. original.group = txGroup /\ original.sn = saved
  BY DEF original
<1>8. /\ IsABag(air') /\ DOMAIN air' = DOMAIN air \cup P
      /\ \A e \in DOMAIN air \ P : air'[e] = air[e]
      /\ \A e \in P \ DOMAIN air : air'[e] = 1
  <2>1. IsABag(SetToBag(P)) /\ DOMAIN SetToBag(P) = P /\ \A e \in P : SetToBag(P)[e] = 1
    BY OneEach
  <2>2. IsABag(air)
    BY DEF Inv, Types
  <2>3. PICK B : B = SetToBag(P)
    OBVIOUS
  <2>4. air' = air (+) B
    BY <1>2, <2>3
  <2>5. IsABag(B) /\ DOMAIN B = P /\ \A e \in P : B[e] = 1
    BY <2>1, <2>3
  <2>6. /\ IsABag(air') /\ DOMAIN air' = DOMAIN air \cup DOMAIN B
        /\ \A e \in DOMAIN air \ DOMAIN B : air'[e] = air[e]
        /\ \A e \in DOMAIN B \ DOMAIN air : air'[e] = B[e]
    <3>1. IsABag(B)
      BY <2>5
    <3>2. /\ IsABag(air (+) B) /\ DOMAIN (air (+) B) = DOMAIN air \cup DOMAIN B
          /\ \A e \in DOMAIN air \ DOMAIN B : (air (+) B)[e] = air[e]
          /\ \A e \in DOMAIN B \ DOMAIN air : (air (+) B)[e] = B[e]
      BY <2>2, <3>1, Put, Zenon
    <3> QED BY <2>4, <3>2, Zenon
  <2> QED BY <2>5, <2>6
<1>9. original \notin DOMAIN air
  BY <1>1, <1>6, <1>7 DEF Inv, OnAir
<1>10. Types'
  <2>1. DOMAIN air' \subseteq Packet
    BY <1>5, <1>8 DEF Inv, Types
  <2> QED BY <1>3, <1>4, <1>8, <2>1
          DEF Inv, Types, rxVars, bufferVars, strayVars, history, Group, Original, Packet, Report
<1>11. OnAir'
  <2> SUFFICES ASSUME NEW x \in DOMAIN air'
               PROVE  /\ x.sn >= K => x.group < txGroup'
                      /\ x.sn < K => Sent(x.group, x.sn)' /\ air'[x] = 1
    BY DEF OnAir
  <2>1. x \in Packet /\ x.group \in Group /\ x.sn \in Nat
    BY <1>5, <1>8, NcAssumption DEF Inv, Types, Packet, ReTxPoll
  <2>2. CASE x \in P
    <3>1. x.sn < K => x.group = txGroup /\ x.sn = saved /\ air'[x] = 1
      BY <2>2, <1>5, <1>7, <1>8, <1>9
    <3>2. x.sn < K => Sent(x.group, x.sn)'
      <4>1. x.sn < K => x.sn \in Original
        BY <2>1, <1>1 DEF Original
      <4> QED BY <2>1, <3>1, <4>1, <1>6
    <3> QED BY <2>2, <3>1, <3>2, <1>5
  <2>3. CASE x \notin P
    <3>1. x \in DOMAIN air /\ air'[x] = air[x]
      BY <2>3, <1>8
    <3>2. /\ x.sn >= K => x.group < txGroup
          /\ x.sn < K => Sent(x.group, x.sn) /\ air[x] = 1
      BY <3>1 DEF Inv, OnAir
    <3>3. x.sn < K => x.sn \in Original
      BY <2>1, <1>1 DEF Original
    <3>4. x.group < txGroup => x.group < txGroup'
      BY <2>1, <1>1, <1>2, <1>4 DEF Group
    <3> QED BY <2>1, <3>1, <3>2, <3>3, <3>4, <1>6
  <2> QED BY <2>2, <2>3
<1>12. Ranks' /\ Settled' /\ TimerStopped'
  BY <1>3 DEF Inv, Ranks, Settled, TimerStopped, ReportNeverOverstates,
       NcPassedGroupsSettled, PendingReport, rxVars, bufferVars, strayVars, history
<1>13. Delivered'
  <2>1. \A i \in Group : \A j \in deliverdSN[i] :
          i \notin complete => Sent(i, j)' /\ [group |-> i, sn |-> j] \notin DOMAIN air'
    <3> SUFFICES ASSUME NEW i \in Group, NEW j \in deliverdSN[i], i \notin complete
                 PROVE  Sent(i, j)' /\ [group |-> i, sn |-> j] \notin DOMAIN air'
      OBVIOUS
    <3>1. j \in Original /\ j < K
      BY NcAssumption DEF Inv, Types, Original
    <3>2. Sent(i, j) /\ [group |-> i, sn |-> j] \notin DOMAIN air
      BY DEF Inv, Delivered
    <3>3. [group |-> i, sn |-> j] # original
      BY <3>2, <1>6, <1>7
    <3>4. [group |-> i, sn |-> j] \notin P
      BY <3>1, <3>3, <1>5
    <3> QED BY <3>1, <3>2, <3>4, <1>6, <1>8
  <2> QED BY <2>1, <1>3
          DEF Inv, Delivered, rxVars, bufferVars, history, Group
<1>14. AnswerIndexInRange'
  <2>1. \A r \in PendingReport : r.group < txGroup /\ r \in Report
    BY DEF Inv, Types, AnswerIndexInRange, PendingReport, Report, BagToSet
  <2>2. \A r \in PendingReport : r.group < txGroup'
    BY <2>1, <1>1, <1>2 DEF Report, Group
  <2>3. PendingReport' = PendingReport
    BY <1>3 DEF PendingReport, rxVars, bufferVars, strayVars
  <2> QED BY <2>2, <2>3 DEF AnswerIndexInRange
<1> QED BY <1>10, <1>11, <1>12, <1>13, <1>14 DEF Inv

\* Answering a report: only retransmissions of a finished group leave.
LEMMA Answering ==
  ASSUME NEW r \in DOMAIN back
  PROVE  Inv /\ ReceiveReport(r) => Inv'
PROOF
<1> SUFFICES ASSUME Inv, ReceiveReport(r) PROVE Inv'
  OBVIOUS
<1> DEFINE A == MakeNcArqSendPacket(r)
<1>1. r \in Report /\ r.group < txGroup /\ IsABag(back) /\ IsABag(air)
  BY DEF Inv, Types, AnswerIndexInRange, PendingReport, BagToSet
<1>2. /\ back' = back (-) SetToBag({r}) /\ air' = air (+) A
      /\ UNCHANGED <<txVars, rxVars, losses>>
  BY DEF ReceiveReport
<1>3. IsABag(A) /\ \A x \in DOMAIN A : x \in Packet /\ x.sn > K /\ x.group < txGroup
  BY <1>1, Answer
<1> HIDE DEF A
<1>4. IsABag(back') /\ DOMAIN back' \subseteq DOMAIN back
  BY <1>1, <1>2, Take
<1>5. /\ IsABag(air') /\ DOMAIN air' = DOMAIN air \cup DOMAIN A
      /\ \A e \in DOMAIN air \ DOMAIN A : air'[e] = air[e]
  BY <1>1, <1>2, <1>3, Put, ZenonT(30)
<1>6. Types'
  <2>1. DOMAIN air' \subseteq Packet /\ DOMAIN back' \subseteq Report
    BY <1>3, <1>4, <1>5 DEF Inv, Types
  <2> QED BY <1>2, <1>4, <1>5, <2>1
          DEF Inv, Types, txVars, rxVars, bufferVars, strayVars, history, Group, Original, Packet, Report
<1>7. OnAir'
  <2> SUFFICES ASSUME NEW x \in DOMAIN air'
               PROVE  /\ x.sn >= K => x.group < txGroup
                      /\ x.sn < K => Sent(x.group, x.sn) /\ air'[x] = 1
    BY <1>2 DEF OnAir, Sent, txVars
  <2>1. x \in Packet /\ x.sn \in Nat /\ K \in Nat
    BY <1>3, <1>5, NcAssumption DEF Inv, Types, Packet, ReTxPoll
  <2>2. CASE x \in DOMAIN A
    BY <2>1, <2>2, <1>3
  <2>3. CASE x \notin DOMAIN A
    BY <2>3, <1>5 DEF Inv, OnAir
  <2> QED BY <2>2, <2>3
<1>8. Settled' /\ TimerStopped'
  BY <1>2 DEF Inv, Settled, TimerStopped,
       NcPassedGroupsSettled, rxVars, bufferVars, strayVars, history
<1>9. PendingReport' \subseteq PendingReport
  BY <1>2, <1>4 DEF PendingReport, rxVars, bufferVars, strayVars, BagToSet
<1>10. Ranks' /\ AnswerIndexInRange'
  BY <1>2, <1>9 DEF Inv, Ranks, ReportNeverOverstates, AnswerIndexInRange,
       rxVars, bufferVars, txVars
<1>11. Delivered'
  <2>1. \A i \in Group : \A j \in deliverdSN[i] :
          i \notin complete => [group |-> i, sn |-> j] \notin DOMAIN air'
    <3>1. \A i \in Group : \A j \in deliverdSN[i] : j < K /\ j \in Nat /\ K \in Nat
      BY NcAssumption DEF Inv, Types, Original
    <3>2. \A i \in Group : \A j \in deliverdSN[i] : [group |-> i, sn |-> j] \notin DOMAIN A
      BY <3>1, <1>3
    <3> QED BY <3>2, <1>5 DEF Inv, Delivered
  <2> QED BY <2>1, <1>2
          DEF Inv, Delivered, Sent, rxVars, bufferVars, history, txVars, Group
<1> QED BY <1>6, <1>7, <1>8, <1>10, <1>11 DEF Inv

-----------------------------------------------------------------------------
(* Losses and timers. *)

\* Packets and reports only disappear.
LEMMA Losing ==
  /\ \A x \in DOMAIN air : Inv /\ LosePacket(x) => Inv'
  /\ \A r \in DOMAIN back : Inv /\ LoseReport(r) => Inv'
PROOF
<1>1. ASSUME NEW x \in DOMAIN air, Inv, LosePacket(x) PROVE Inv'
  <2>1. /\ air' = air (-) SetToBag({x}) /\ losses < MaxLoss /\ losses' = losses + 1
        /\ UNCHANGED <<txVars, rxVars, back>>
    BY <1>1 DEF LosePacket
  <2>2. /\ IsABag(air') /\ DOMAIN air' \subseteq DOMAIN air
        /\ \A d \in DOMAIN air' : d # x => air'[d] = air[d]
        /\ air[x] = 1 => x \notin DOMAIN air'
    <3>1. IsABag(air)
      BY <1>1 DEF Inv, Types
    <3> QED BY <2>1, <3>1, Take
  <2>3. losses' \in 0..MaxLoss
    BY <1>1, <2>1, NcAssumption DEF Inv, Types
  <2>4. Types'
    BY <1>1, <2>1, <2>2, <2>3
       DEF Inv, Types, txVars, rxVars, bufferVars, strayVars, history
  <2>5. OnAir' /\ Delivered'
    BY <1>1, <2>1, <2>2 DEF Inv, OnAir, Delivered, Sent, txVars, rxVars, bufferVars, history
  <2>6. Ranks' /\ Settled' /\ TimerStopped' /\ AnswerIndexInRange'
    BY <1>1, <2>1 DEF Inv, Ranks, Settled, TimerStopped, ReportNeverOverstates,
         NcPassedGroupsSettled, AnswerIndexInRange, PendingReport, txVars, rxVars,
         bufferVars, strayVars, history
  <2> QED BY <2>4, <2>5, <2>6 DEF Inv
<1>2. ASSUME NEW r \in DOMAIN back, Inv, LoseReport(r) PROVE Inv'
  <2>1. /\ back' = back (-) SetToBag({r}) /\ losses < MaxLoss /\ losses' = losses + 1
        /\ UNCHANGED <<txVars, rxVars, air>>
    BY <1>2 DEF LoseReport
  <2>2. IsABag(back') /\ DOMAIN back' \subseteq DOMAIN back
    <3>1. IsABag(back)
      BY <1>2 DEF Inv, Types
    <3> QED BY <2>1, <3>1, Take
  <2>3. losses' \in 0..MaxLoss
    BY <1>2, <2>1, NcAssumption DEF Inv, Types
  <2>4. Types'
    BY <1>2, <2>1, <2>2, <2>3
       DEF Inv, Types, txVars, rxVars, bufferVars, strayVars, history
  <2>5. OnAir' /\ Delivered' /\ Settled' /\ TimerStopped'
    BY <1>2, <2>1 DEF Inv, OnAir, Delivered, Sent, Settled, TimerStopped,
         NcPassedGroupsSettled, txVars, rxVars, bufferVars, history
  <2>6. PendingReport' \subseteq PendingReport
    BY <2>1, <2>2 DEF PendingReport, rxVars, bufferVars, strayVars, BagToSet
  <2>7. Ranks' /\ AnswerIndexInRange'
    BY <1>2, <2>1, <2>6 DEF Inv, Ranks, ReportNeverOverstates, AnswerIndexInRange,
         txVars, rxVars, bufferVars
  <2> QED BY <2>4, <2>5, <2>7 DEF Inv
<1> QED BY <1>1, <1>2

\* CopyExpireStatusReportTimer sends and keeps only the report it is given.
LEMMA StrayStep ==
  ASSUME Types, NEW r \in Report, NEW left, IsABag(left),
         DOMAIN left \subseteq DOMAIN strayTimers, CopyExpireStatusReportTimer(r, left)
  PROVE  /\ IsABag(back') /\ DOMAIN back' \subseteq DOMAIN back \cup {r}
         /\ IsABag(strayTimers') /\ DOMAIN strayTimers' \subseteq DOMAIN strayTimers \cup {r}
         /\ strayCount' \in 0..MaxReports
PROOF
<1>1. IsABag(SetToBag({r})) /\ DOMAIN SetToBag({r}) = {r}
  BY OneEach
<1>2. IsABag(back)
  BY DEF Types
<1>3. CASE /\ strayCount < MaxReports /\ back' = back (+) SetToBag({r})
           /\ strayCount' = strayCount + 1 /\ strayTimers' = left (+) SetToBag({r})
  <2>1. strayCount' \in 0..MaxReports
    BY <1>3, NcAssumption DEF Types
  <2>2. IsABag(back') /\ DOMAIN back' = DOMAIN back \cup {r}
    BY <1>1, <1>2, <1>3, Put
  <2>3. IsABag(strayTimers') /\ DOMAIN strayTimers' = DOMAIN left \cup {r}
    BY <1>1, <1>3, Put
  <2> QED BY <2>1, <2>2, <2>3
<1>4. CASE strayTimers' = left /\ UNCHANGED <<back, strayCount>>
  BY <1>2, <1>4 DEF Types
<1> QED BY <1>3, <1>4 DEF CopyExpireStatusReportTimer

\* A timer that expires, of NcControl's or a stray one, repeats a report that
\* was pending.
LEMMA Expiring ==
  /\ \A g \in Group : Inv /\ Expire(g) => Inv'
  /\ \A r \in DOMAIN strayTimers : Inv /\ ExpireStray(r) => Inv'
PROOF
<1>1. ASSUME Inv, NEW r \in PendingReport, NEW left, IsABag(left),
             DOMAIN left \subseteq DOMAIN strayTimers,
             CopyExpireStatusReportTimer(r, left), timer' \subseteq timer,
             UNCHANGED <<txVars, bufferVars, reports, history, air, losses>>
      PROVE  Inv'
  <2>1. \A i \in Group : rank[i] \in 0..K
    BY <1>1 DEF Inv, Types
  <2>2. r \in Report
    BY <1>1, <2>1 DEF Inv, Types, PendingReport, Report, BagToSet
  <2>3. /\ IsABag(back') /\ DOMAIN back' \subseteq DOMAIN back \cup {r}
        /\ IsABag(strayTimers') /\ DOMAIN strayTimers' \subseteq DOMAIN strayTimers \cup {r}
        /\ strayCount' \in 0..MaxReports
    BY <1>1, <2>2, StrayStep DEF Inv
  <2>4. DOMAIN back' \subseteq Report /\ DOMAIN strayTimers' \subseteq Report
    BY <1>1, <2>2, <2>3 DEF Inv, Types
  <2>5. Types'
    BY <1>1, <2>3, <2>4 DEF Inv, Types, txVars, bufferVars, history
  <2>6. PendingReport' \subseteq PendingReport
    BY <1>1, <2>3 DEF PendingReport, bufferVars, BagToSet
  <2>7. Ranks' /\ AnswerIndexInRange'
    BY <1>1, <2>6 DEF Inv, Ranks, ReportNeverOverstates, AnswerIndexInRange,
         txVars, bufferVars
  <2>8. OnAir' /\ Delivered' /\ Settled' /\ TimerStopped'
    BY <1>1 DEF Inv, OnAir, Delivered, Sent, Settled, TimerStopped,
         NcPassedGroupsSettled, txVars, bufferVars, history
  <2> QED BY <2>5, <2>7, <2>8 DEF Inv
<1>2. ASSUME NEW g \in Group, Inv, Expire(g) PROVE Inv'
  <2>1. [group |-> g, rank |-> rank[g]] \in PendingReport
    BY <1>2 DEF Expire, PendingReport
  <2>2. IsABag(strayTimers)
    BY <1>2 DEF Inv, Types
  <2>3. /\ CopyExpireStatusReportTimer([group |-> g, rank |-> rank[g]], strayTimers)
        /\ timer' \subseteq timer
        /\ UNCHANGED <<txVars, bufferVars, reports, history, air, losses>>
    BY <1>2 DEF Expire
  <2> QED BY <1>1, <1>2, <2>1, <2>2, <2>3
<1>3. ASSUME NEW r \in DOMAIN strayTimers, Inv, ExpireStray(r) PROVE Inv'
  <2> DEFINE left == strayTimers (-) SetToBag({r})
  <2>1. r \in PendingReport
    BY <1>3 DEF PendingReport, BagToSet
  <2>2. IsABag(strayTimers)
    BY <1>3 DEF Inv, Types
  <2>3. IsABag(left) /\ DOMAIN left \subseteq DOMAIN strayTimers
    BY <1>3, <2>2, Take
  <2>4. /\ CopyExpireStatusReportTimer(r, left)
        /\ timer' \subseteq timer
        /\ UNCHANGED <<txVars, bufferVars, reports, history, air, losses>>
    BY <1>3 DEF ExpireStray
  <2> HIDE DEF left
  <2> QED BY <1>1, <1>3, <2>1, <2>3, <2>4
<1> QED BY <1>2, <1>3

-----------------------------------------------------------------------------
(* The receiver. *)

\* The groups and timers left by receiving x, before the poll.
CompleteAfter(x) == IF IfDeocde(x) THEN complete \cup {x.group} ELSE complete
RankAfter(x) ==
  IF IfDeocde(x) THEN [rank EXCEPT ![x.group] = CalulateDecodingRank(vec'[x.group])]
                 ELSE rank

\* What TriggerRecvPdcpSdu does to the buffers of x's group.
LEMMA Received ==
  ASSUME Inv, NEW x \in DOMAIN air, ReceiveData(x)
  PROVE  /\ x \in Packet /\ x.group \in Group
         /\ vec' = [vec EXCEPT ![x.group] = SavedVector(x)]
         /\ air' = air (-) SetToBag({x})
         /\ rxGroup' = x.group
         /\ UNCHANGED <<txVars, strayVars, losses>>
         /\ \/ Polling(x) /\ NcSendArqReq(x.group, CompleteAfter(x), timer \ {x.group},
                                         vec', RankAfter(x))
            \/ /\ ~Polling(x) /\ complete' = CompleteAfter(x)
               /\ timer' = timer \ {x.group} /\ rank' = RankAfter(x)
               /\ UNCHANGED <<vrMs, reports, back>>
PROOF
<1>1. x \in Packet /\ x.group \in Group
  BY DEF Inv, Types, Packet
<1>2. /\ vec' = [vec EXCEPT ![x.group] = SavedVector(x)]
      /\ air' = air (-) SetToBag({x})
      /\ rxGroup' = x.group
      /\ UNCHANGED <<txVars, strayVars, losses>>
  BY Zenon DEF ReceiveData
<1>3. \/ Polling(x) /\ NcSendArqReq(x.group, CompleteAfter(x), timer \ {x.group},
                                    vec', RankAfter(x))
      \/ /\ ~Polling(x) /\ complete' = CompleteAfter(x)
         /\ timer' = timer \ {x.group} /\ rank' = RankAfter(x)
         /\ UNCHANGED <<vrMs, reports, back>>
  BY Zenon DEF ReceiveData, CompleteAfter, RankAfter, stopArqTimer
<1> QED BY <1>1, <1>2, <1>3

\* The vectors: a packet is appended while its group is incomplete, and the
\* K-th one completes the group.
LEMMA Vectors ==
  ASSUME Inv, NEW x \in DOMAIN air, ReceiveData(x)
  PROVE  /\ vec' \in [Group -> Seq(Original)]
         /\ RankAfter(x) \in [Group -> 0..K]
         /\ \A i \in Group : /\ Len(vec[i]) <= Len(vec'[i]) /\ Len(vec'[i]) <= K
                             /\ RankAfter(x)[i] <= Len(vec'[i])
                             /\ i \notin CompleteAfter(x) => Len(vec'[i]) < K
         /\ IfDeocde(x) => Len(vec'[x.group]) = K
PROOF
<1> DEFINE g == x.group
<1>1. g \in Group /\ x \in Packet /\ vec' = [vec EXCEPT ![g] = SavedVector(x)]
  BY Received
<1>2. /\ K \in Nat /\ K > 0 /\ N \in Nat
      /\ vec \in [Group -> Seq(Original)] /\ rank \in [Group -> 0..K]
      /\ \A i \in Group : /\ vec[i] \in Seq(Original) /\ Len(vec[i]) \in Nat
                          /\ rank[i] \in 0..K /\ Len(vec[i]) <= K /\ rank[i] <= Len(vec[i])
                          /\ i \notin complete => Len(vec[i]) < K
  BY NcAssumption DEF Inv, Types, Ranks
<1>3. Payload(x) \in Original
  BY <1>1, <1>2 DEF Payload, Original, Packet, ReTxPoll
<1>4. g \in complete => SavedVector(x) = vec[g] /\ ~IfDeocde(x)
  BY DEF SavedVector, Saves, IfDeocde
<1>5. g \notin complete => /\ SavedVector(x) \in Seq(Original)
                           /\ Len(SavedVector(x)) = Len(vec[g]) + 1
                           /\ Len(SavedVector(x)) <= K
                           /\ IfDeocde(x) <=> Len(SavedVector(x)) = K
  <2>1. g \notin complete => SavedVector(x) = Append(vec[g], Payload(x))
    BY DEF SavedVector, Saves
  <2>2. /\ Append(vec[g], Payload(x)) \in Seq(Original)
        /\ Len(Append(vec[g], Payload(x))) = Len(vec[g]) + 1
    BY <1>1, <1>2, <1>3
  <2>3. g \notin complete => Len(vec[g]) + 1 <= K
    BY <1>1, <1>2
  <2>4. g \notin complete => (IfDeocde(x) <=> Len(SavedVector(x)) >= K)
    BY DEF IfDeocde
  <2>5. Len(vec[g]) \in Nat
    BY <1>1, <1>2
  <2>6. CASE g \notin complete
    <3>1. /\ SavedVector(x) \in Seq(Original) /\ Len(SavedVector(x)) = Len(vec[g]) + 1
          /\ Len(SavedVector(x)) <= K /\ Len(SavedVector(x)) \in Nat
      BY <2>1, <2>2, <2>3, <2>5, <2>6, SMTT(20)
    <3>2. IfDeocde(x) <=> Len(SavedVector(x)) = K
      BY <3>1, <1>2, <2>4, <2>6
    <3> QED BY <3>1, <3>2
  <2> QED BY <2>6
<1>6. /\ vec' \in [Group -> Seq(Original)]
      /\ vec'[g] = SavedVector(x)
      /\ \A i \in Group : i # g => vec'[i] = vec[i]
  BY <1>1, <1>2, <1>4, <1>5
<1>7. IfDeocde(x) => Len(vec'[g]) = K
  BY <1>4, <1>5, <1>6
<1>8. IfDeocde(x) => CalulateDecodingRank(vec'[g]) = K
  BY <1>2, <1>7 DEF CalulateDecodingRank
<1>9. /\ RankAfter(x) \in [Group -> 0..K]
      /\ IfDeocde(x) => RankAfter(x)[g] = K
      /\ ~IfDeocde(x) => RankAfter(x)[g] = rank[g]
      /\ \A i \in Group : i # g => RankAfter(x)[i] = rank[i]
  <2>1. CASE IfDeocde(x)
    <3>1. RankAfter(x) = [rank EXCEPT ![g] = K]
      BY <2>1, <1>8 DEF RankAfter
    <3> QED BY <2>1, <3>1, <1>1, <1>2
  <2>2. CASE ~IfDeocde(x)
    BY <2>2, <1>2 DEF RankAfter
  <2> QED BY <2>1, <2>2
<1>10. \A i : i \in CompleteAfter(x) <=> i \in complete \/ (i = g /\ IfDeocde(x))
  BY DEF CompleteAfter
<1>11. ASSUME NEW i \in Group
       PROVE  /\ Len(vec[i]) <= Len(vec'[i]) /\ Len(vec'[i]) <= K
              /\ RankAfter(x)[i] <= Len(vec'[i])
              /\ i \notin CompleteAfter(x) => Len(vec'[i]) < K
  <2>1. CASE i # g
    BY <2>1, <1>2, <1>6, <1>9, <1>10
  <2>2. CASE i = g /\ g \in complete
    BY <2>2, <1>2, <1>4, <1>6, <1>9, <1>10
  <2>3. CASE i = g /\ g \notin complete
    <3>1. Len(vec'[g]) = Len(vec[g]) + 1 /\ Len(vec'[g]) <= K
          /\ (IfDeocde(x) <=> Len(vec'[g]) = K)
      BY <2>3, <1>5, <1>6
    <3> QED BY <2>3, <3>1, <1>1, <1>2, <1>9, <1>10
  <2> QED BY <2>1, <2>2, <2>3
<1> QED BY <1>6, <1>7, <1>9, <1>11

\* The deliveries: an original of an incomplete group was not delivered before,
\* and decoding delivers what is missing and nothing else.
LEMMA Deliveries ==
  ASSUME Inv, NEW x \in DOMAIN air, ReceiveData(x)
  PROVE  /\ deliverdSN' \in [Group -> SUBSET Original]
         /\ handed' \in [Group -> Nat]
         /\ \A i \in Group : handed'[i] = Cardinality(deliverdSN'[i])
         /\ \A i \in Group : \A j \in deliverdSN'[i] :
              i \notin CompleteAfter(x) =>
                 Sent(i, j) /\ [group |-> i, sn |-> j] \notin DOMAIN air'
         /\ decoded' = IF IfDeocde(x) THEN decoded \cup {x.group} ELSE decoded
         /\ \A i \in decoded' : i \in CompleteAfter(x) /\ deliverdSN'[i] = Original
PROOF
<1> DEFINE g == x.group
           raw == IF IfTransmitSdu(x) THEN {x.sn} ELSE {}
           direct == deliverdSN[g] \cup raw
           missing == IF IfDeocde(x) THEN Original \ direct ELSE {}
<1>1. /\ g \in Group /\ x \in Packet /\ x.sn \in Nat /\ K \in Nat
      /\ x = [group |-> g, sn |-> x.sn]
  <2>1. x \in Packet /\ g \in Group
    BY Received
  <2> QED BY <2>1, NcAssumption DEF Packet, ReTxPoll
<1>2. /\ deliverdSN' = [deliverdSN EXCEPT ![g] = direct \cup missing]
      /\ handed' = [handed EXCEPT ![g] = @ + Cardinality(raw) + Cardinality(missing)]
      /\ decoded' = IF IfDeocde(x) THEN decoded \cup {g} ELSE decoded
  <2>1. CASE IfDeocde(x)
    BY <2>1 DEF ReceiveData, NcDecode
  <2>2. CASE ~IfDeocde(x)
    BY <2>2 DEF ReceiveData, NcDecode
  <2> QED BY <2>1, <2>2
<1>3. /\ deliverdSN \in [Group -> SUBSET Original] /\ handed \in [Group -> Nat]
      /\ deliverdSN[g] \in SUBSET Original
      /\ \A i \in Group : handed[i] = Cardinality(deliverdSN[i])
  BY <1>1 DEF Inv, Types, Delivered
<1>4. raw # {} => /\ raw = {x.sn} /\ x.sn \in Original /\ g \notin complete /\ x.sn < K
  BY <1>1 DEF IfTransmitSdu, Saves, Original
<1>5. raw \in SUBSET Original /\ deliverdSN[g] \cap raw = {}
  <2>1. raw # {} => x.sn \notin deliverdSN[g]
    BY <1>1, <1>4 DEF Inv, Delivered
  <2> QED BY <2>1, <1>4
<1>6. direct \in SUBSET Original /\ missing \in SUBSET Original /\ direct \cap missing = {}
  BY <1>3, <1>5
<1>7. Cardinality(direct \cup missing)
        = Cardinality(deliverdSN[g]) + Cardinality(raw) + Cardinality(missing)
      /\ Cardinality(direct \cup missing) \in Nat
  <2>1. /\ Cardinality(direct) = Cardinality(deliverdSN[g]) + Cardinality(raw)
        /\ Cardinality(deliverdSN[g]) \in Nat /\ Cardinality(raw) \in Nat
    BY <1>3, <1>5, Together
  <2> HIDE DEF direct, raw
  <2>2. /\ Cardinality(direct \cup missing) = Cardinality(direct) + Cardinality(missing)
        /\ Cardinality(missing) \in Nat
    <3> HIDE DEF missing
    <3> QED BY <1>6, Together
  <2> QED BY <2>1, <2>2
<1>8. IfDeocde(x) => direct \cup missing = Original
  BY <1>6
<1>9. /\ g \notin complete => \A j \in direct : Sent(g, j)
      /\ g \notin complete => \A j \in raw : Sent(g, j)
  BY <1>1, <1>4 DEF Inv, Delivered, OnAir
<1>10. /\ DOMAIN air' \subseteq DOMAIN air
       /\ x.sn < K => x \notin DOMAIN air'
  <2>1. IsABag(air) /\ air' = air (-) SetToBag({x})
    BY Received DEF Inv, Types
  <2>2. x.sn < K => air[x] = 1
    BY DEF Inv, OnAir
  <2> QED BY <2>1, <2>2, Take
<1>11. \A i : i \in CompleteAfter(x) <=> i \in complete \/ (i = g /\ IfDeocde(x))
  BY DEF CompleteAfter
<1>12. ~IfDeocde(x) => missing = {}
  OBVIOUS
<1>13. g \notin complete => \A j \in direct : [group |-> g, sn |-> j] \notin DOMAIN air'
  <2>1. g \notin complete => \A j \in deliverdSN[g] : [group |-> g, sn |-> j] \notin DOMAIN air'
    BY <1>1, <1>10 DEF Inv, Delivered
  <2>2. \A j \in raw : [group |-> g, sn |-> j] \notin DOMAIN air'
    BY <1>1, <1>4, <1>10
  <2> QED BY <2>1, <2>2
<1> HIDE DEF direct, raw, missing
<1>14. /\ deliverdSN' \in [Group -> SUBSET Original]
       /\ deliverdSN'[g] = direct \cup missing
       /\ \A i \in Group : i # g => deliverdSN'[i] = deliverdSN[i]
  BY <1>1, <1>2, <1>3, <1>6
<1>15. /\ handed' \in [Group -> Nat]
       /\ \A i \in Group : handed'[i] = Cardinality(deliverdSN'[i])
  <2>1. handed'[g] = Cardinality(deliverdSN'[g])
    BY <1>1, <1>2, <1>3, <1>7, <1>14
  <2>2. \A i \in Group : i # g => handed'[i] = handed[i]
    BY <1>1, <1>2, <1>3
  <2>3. \A i \in Group : handed'[i] = Cardinality(deliverdSN'[i])
    BY <2>1, <2>2, <1>3, <1>14
  <2>4. handed'[g] \in Nat
    BY <2>1, <1>7, <1>14
  <2> QED BY <2>2, <2>3, <2>4, <1>1, <1>2, <1>3
<1>16. ASSUME NEW i \in Group, NEW j \in deliverdSN'[i], i \notin CompleteAfter(x)
       PROVE  Sent(i, j) /\ [group |-> i, sn |-> j] \notin DOMAIN air'
  <2>1. i \notin complete /\ (i = g => ~IfDeocde(x))
    BY <1>11, <1>16
  <2>2. CASE i = g
    BY <2>1, <2>2, <1>9, <1>12, <1>13, <1>14, <1>16
  <2>3. CASE i # g
    BY <2>1, <2>3, <1>10, <1>14, <1>16 DEF Inv, Delivered
  <2> QED BY <2>2, <2>3
<1>17. ASSUME NEW i \in decoded'
       PROVE  i \in CompleteAfter(x) /\ deliverdSN'[i] = Original
  <2>1. CASE i = g /\ IfDeocde(x)
    BY <2>1, <1>8, <1>11, <1>14
  <2>2. CASE i \in decoded
    <3>1. i \in complete /\ deliverdSN[i] = Original /\ i \in Group
      BY <2>2 DEF Inv, Delivered, Types
    <3>2. i = g => raw = {} /\ missing = {}
      BY <3>1, <1>4 DEF missing, IfDeocde
    <3>3. i = g => direct = deliverdSN[i]
      BY <3>2 DEF direct
    <3> QED BY <3>1, <3>2, <3>3, <1>11, <1>14
  <2> QED BY <2>1, <2>2, <1>2
<1> QED BY <1>2, <1>14, <1>15, <1>16, <1>17

\* What was handed up are originals: the vector of a group being decoded has an
\* entry for every index that NcDecode reads.
LEMMA HandedUp ==
  ASSUME Inv, NEW x \in DOMAIN air, ReceiveData(x)
  PROVE  got' \in [Group -> SUBSET Original]
PROOF
<1> DEFINE g == x.group
           raw == IF IfTransmitSdu(x) THEN {x.sn} ELSE {}
           direct == deliverdSN[g] \cup raw
           payloads == IF IfDeocde(x) THEN {vec'[g][j + 1] : j \in Original \ direct} ELSE {}
<1>1. /\ g \in Group /\ x.sn \in Nat /\ K \in Nat
  <2>1. x \in Packet /\ g \in Group
    BY Received
  <2> QED BY <2>1, NcAssumption DEF Packet, ReTxPoll
<1>2. got' = [got EXCEPT ![g] = @ \cup raw \cup payloads]
  <2>1. vec' = [vec EXCEPT ![g] = SavedVector(x)]
    BY Received
  <2>2. CASE IfDeocde(x)
    BY <2>1, <2>2 DEF ReceiveData, NcDecode
  <2>3. CASE ~IfDeocde(x)
    BY <2>3 DEF ReceiveData, NcDecode
  <2> QED BY <2>2, <2>3
<1>3. raw \subseteq Original
  BY <1>1 DEF IfTransmitSdu, Original
<1>4. payloads \subseteq Original
  <2>1. vec' \in [Group -> Seq(Original)] /\ (IfDeocde(x) => Len(vec'[g]) = K)
    BY Vectors
  <2>2. \A j \in Original : j + 1 \in 1..K
    BY <1>1 DEF Original
  <2>3. vec'[g] \in Seq(Original)
    BY <1>1, <2>1
  <2>4. IfDeocde(x) => \A j \in 1..K : vec'[g][j] \in Original
    BY <2>1, <2>3
  <2> QED BY <2>2, <2>4
<1>5. got \in [Group -> SUBSET Original]
  BY DEF Inv, Types
<1> HIDE DEF raw, payloads
<1> QED BY <1>1, <1>2, <1>3, <1>4, <1>5

\* The poll, if there is one: S are the groups requested and U the ones given up.
LEMMA Polled ==
  ASSUME Inv, NEW x \in DOMAIN air, ReceiveData(x)
  PROVE  \E S, U \in SUBSET Group :
           /\ complete' = CompleteAfter(x) \cup U
           /\ timer' = (timer \ {x.group}) \cup S
           /\ \A i \in S : /\ i < txGroup /\ i \notin CompleteAfter(x)
                           /\ reports[i] < MaxReports
           /\ \A i \in U : /\ i \notin timer \ {x.group} /\ i \notin CompleteAfter(x)
                           /\ reports[i] = MaxReports
           /\ reports' = [i \in Group |-> IF i \in S THEN reports[i] + 1 ELSE reports[i]]
           /\ rank' \in [Group -> 0..K] /\ \A i \in Group : rank'[i] <= Len(vec'[i])
           /\ IsABag(back')
           /\ DOMAIN back' \subseteq DOMAIN back \cup {[group |-> i, rank |-> rank'[i]] : i \in S}
           /\ vrMs' \in 0..(MaxGroup + 1)
           /\ \A m \in Group : m < vrMs' => m < vrMs \/ m \in complete'
PROOF
<1> DEFINE g == x.group
           C == CompleteAfter(x)
           T == timer \ {g}
<1>1. /\ x \in Packet /\ g \in Group
      /\ \/ Polling(x) /\ NcSendArqReq(g, C, T, vec', RankAfter(x))
         \/ /\ ~Polling(x) /\ complete' = C /\ timer' = T /\ rank' = RankAfter(x)
            /\ UNCHANGED <<vrMs, reports, back>>
  BY Received
<1>2. /\ vec' \in [Group -> Seq(Original)] /\ RankAfter(x) \in [Group -> 0..K]
      /\ \A i \in Group : Len(vec'[i]) <= K /\ RankAfter(x)[i] <= Len(vec'[i])
  BY Vectors
<1>3. /\ IsABag(back) /\ vrMs \in 0..(MaxGroup + 1) /\ reports \in [Group -> 0..MaxReports]
  BY DEF Inv, Types
<1>4. K \in Nat /\ N \in Nat /\ K < N /\ MaxGroup \in Nat
  BY NcAssumption
<1>5. CASE ~Polling(x)
  <2> HIDE DEF C, T
  <2>1. /\ complete' = C /\ timer' = T /\ rank' = RankAfter(x)
        /\ vrMs' = vrMs /\ reports' = reports /\ back' = back
    BY <1>1, <1>5
  <2>2. reports' = [i \in Group |-> IF i \in {} THEN reports[i] + 1 ELSE reports[i]]
    BY <2>1, <1>3
  <2> USE DEF C, T
  <2> WITNESS {} \in SUBSET Group, {} \in SUBSET Group
  <2> QED BY <2>1, <2>2, <1>2, <1>3
<1>6. CASE Polling(x)
  <2> DEFINE R == PollRange(g)
             S == Requested(R, C, T)
             U == GivenUp(R, C, T)
             newRank == [i \in Group |-> IF i \in S THEN CalulateDecodingRank(vec'[i])
                                                    ELSE RankAfter(x)[i]]
  <2>1. /\ complete' = C \cup U
        /\ vrMs' \in IF g < MinPoll THEN {vrMs} ELSE FirstIncomplete(complete')
        /\ rank' = newRank
        /\ NcArqReqSendOnce(S, T, newRank)
    BY <1>1, <1>6, Zenon DEF NcSendArqReq
  <2>2. g < txGroup
    <3>1. x.sn >= K
      BY <1>1, <1>4, <1>6 DEF Polling, Packet, ReTxPoll
    <3> QED BY <3>1 DEF Inv, OnAir
  <2>3. /\ \A i \in S : i \in Group /\ i <= g /\ i \notin C /\ i \notin T /\ reports[i] < MaxReports
        /\ \A i \in U : i \in Group /\ i \notin C /\ i \notin T /\ reports[i] = MaxReports
    BY <1>1, Walk DEF Inv
  <2>4. \A i \in S : i < txGroup
    <3>1. txGroup \in Int /\ \A i \in Group : i \in Int
      BY <1>4 DEF Inv, Types, Group
    <3> HIDE DEF S
    <3> QED BY <3>1, <1>1, <2>2, <2>3
  <2>5. newRank \in [Group -> 0..K] /\ \A i \in Group : newRank[i] <= Len(vec'[i])
    <3>1. \A i \in Group : Len(vec'[i]) \in Nat
      BY <1>2
    <3>2. \A i \in Group : /\ CalulateDecodingRank(vec'[i]) \in 0..K
                           /\ CalulateDecodingRank(vec'[i]) <= Len(vec'[i])
      BY <1>2, <1>4, <3>1 DEF CalulateDecodingRank
    <3> HIDE DEF S
    <3> QED BY <1>2, <3>2
  <2> HIDE DEF S, U, R
  <2>6. /\ back' = back (+) SetToBag({[group |-> i, rank |-> rank'[i]] : i \in S})
        /\ reports' = [i \in Group |-> IF i \in S THEN reports[i] + 1 ELSE reports[i]]
        /\ timer' = T \cup S
    BY <2>1 DEF NcArqReqSendOnce
  <2>7. PICK Q : Q = {[group |-> i, rank |-> rank'[i]] : i \in S}
    OBVIOUS
  <2>8. IsABag(back') /\ DOMAIN back' = DOMAIN back \cup Q
    <3>1. PICK B : B = SetToBag(Q)
      OBVIOUS
    <3>2. IsABag(B) /\ DOMAIN B = Q
      BY <3>1, OneEach
    <3>3. back' = back (+) B
      BY <2>6, <2>7, <3>1, Zenon
    <3> QED BY <1>3, <3>2, <3>3, Put
  <2>9. /\ vrMs' \in 0..(MaxGroup + 1)
        /\ \A m \in Group : m < vrMs' => m < vrMs \/ m \in complete'
    <3>1. CASE g < MinPoll
      BY <3>1, <2>1, <1>3
    <3>2. CASE ~(g < MinPoll)
      <4>1. /\ vrMs' \in vrMs..(MaxGroup + 1)
            /\ \A m \in vrMs..(vrMs' - 1) : m \in complete'
        BY <3>2, <2>1 DEF FirstIncomplete
      <4>2. /\ vrMs \in Int /\ vrMs' \in Int /\ vrMs >= 0 /\ vrMs' >= vrMs
            /\ vrMs' <= MaxGroup + 1
        BY <4>1, <1>3, <1>4
      <4>3. ASSUME NEW m \in Group, m < vrMs', ~(m < vrMs) PROVE m \in complete'
        <5>1. m \in Int
          BY <1>4 DEF Group
        <5>2. m \in vrMs..(vrMs' - 1)
          BY <5>1, <4>2, <4>3, Between
        <5> QED BY <5>2, <4>1
      <4>4. vrMs' \in 0..(MaxGroup + 1)
        BY <4>2, <1>4
      <4> QED BY <4>3, <4>4
    <3> QED BY <3>1, <3>2
  <2>10. S \in SUBSET Group /\ U \in SUBSET Group
    BY <2>3
  <2>11. rank' \in [Group -> 0..K] /\ \A i \in Group : rank'[i] <= Len(vec'[i])
    BY <2>1, <2>5
  <2> HIDE DEF newRank, C, T
  <2>12. /\ complete' = C \cup U /\ timer' = T \cup S
         /\ \A i \in S : i < txGroup /\ i \notin C /\ reports[i] < MaxReports
         /\ \A i \in U : i \notin T /\ i \notin C /\ reports[i] = MaxReports
    BY <2>1, <2>3, <2>4, <2>6
  <2> USE DEF C, T
  <2> S \in SUBSET Group /\ U \in SUBSET Group
    BY <2>10
  <2> WITNESS S \in SUBSET Group, U \in SUBSET Group
  <2> QED BY <2>6, <2>7, <2>8, <2>9, <2>11, <2>12, Zenon
<1> QED BY <1>5, <1>6

\* Receiving a packet keeps the invariant.
LEMMA Receiving ==
  ASSUME NEW x \in DOMAIN air
  PROVE  Inv /\ ReceiveData(x) => Inv'
PROOF
<1> SUFFICES ASSUME Inv, ReceiveData(x) PROVE Inv'
  OBVIOUS
<1> DEFINE g == x.group
           C == CompleteAfter(x)
           T == timer \ {g}
<1>1. /\ x \in Packet /\ g \in Group /\ rxGroup' = g
      /\ air' = air (-) SetToBag({x})
      /\ UNCHANGED <<txVars, strayVars, losses>>
  BY Received
<1>2. /\ vec' \in [Group -> Seq(Original)]
      /\ \A i \in Group : /\ Len(vec[i]) <= Len(vec'[i]) /\ Len(vec'[i]) <= K
                          /\ i \notin C => Len(vec'[i]) < K
  BY Vectors
<1>3. /\ deliverdSN' \in [Group -> SUBSET Original] /\ handed' \in [Group -> Nat]
      /\ \A i \in Group : handed'[i] = Cardinality(deliverdSN'[i])
      /\ \A i \in Group : \A j \in deliverdSN'[i] :
           i \notin C => Sent(i, j) /\ [group |-> i, sn |-> j] \notin DOMAIN air'
      /\ decoded' = IF IfDeocde(x) THEN decoded \cup {g} ELSE decoded
      /\ \A i \in decoded' : i \in C /\ deliverdSN'[i] = Original
  BY Deliveries
<1>4. got' \in [Group -> SUBSET Original]
  BY HandedUp
<1>5. PICK S, U \in SUBSET Group :
        /\ complete' = C \cup U
        /\ timer' = T \cup S
        /\ \A i \in S : i < txGroup /\ i \notin C /\ reports[i] < MaxReports
        /\ \A i \in U : i \notin T /\ i \notin C /\ reports[i] = MaxReports
        /\ reports' = [i \in Group |-> IF i \in S THEN reports[i] + 1 ELSE reports[i]]
        /\ rank' \in [Group -> 0..K] /\ \A i \in Group : rank'[i] <= Len(vec'[i])
        /\ IsABag(back')
        /\ DOMAIN back' \subseteq DOMAIN back \cup {[group |-> i, rank |-> rank'[i]] : i \in S}
        /\ vrMs' \in 0..(MaxGroup + 1)
        /\ \A m \in Group : m < vrMs' => m < vrMs \/ m \in complete'
  BY Polled
<1>6. /\ \A i : i \in C <=> i \in complete \/ (i = g /\ IfDeocde(x))
      /\ complete \subseteq Group /\ timer \subseteq Group /\ decoded \subseteq Group
      /\ timer \cap complete = {}
  BY DEF CompleteAfter, Inv, Types, TimerStopped
<1>7. /\ IsABag(air') /\ DOMAIN air' \subseteq DOMAIN air
      /\ \A d \in DOMAIN air' : d # x => air'[d] = air[d]
      /\ air[x] = 1 => x \notin DOMAIN air'
  <2>1. IsABag(air)
    BY DEF Inv, Types
  <2> QED BY <1>1, <2>1, Take
<1> HIDE DEF C
<1>8. /\ reports' \in [Group -> 0..MaxReports]
      /\ \A i \in Group : reports[i] = MaxReports => reports'[i] = MaxReports
  <2>1. \A i \in Group : reports[i] \in 0..MaxReports
    BY DEF Inv, Types
  <2>2. \A i \in Group : /\ (IF i \in S THEN reports[i] + 1 ELSE reports[i]) \in 0..MaxReports
                         /\ reports[i] = MaxReports => i \notin S
    BY <2>1, <1>5, NcAssumption
  <2> QED BY <2>2, <1>5
<1>9. /\ DOMAIN back' \subseteq Report
      /\ \A r \in DOMAIN back' :
           r \in DOMAIN back \/ (r.group \in Group /\ r.group < txGroup /\ r.rank = rank'[r.group])
  <2>1. \A i \in Group : [group |-> i, rank |-> rank'[i]] \in Report
    BY <1>5 DEF Report
  <2> QED BY <2>1, <1>5 DEF Inv, Types
<1>10. Types'
  <2>1. complete' \subseteq Group /\ timer' \subseteq Group /\ decoded' \subseteq Group
    BY <1>1, <1>3, <1>5, <1>6
  <2>2. DOMAIN air' \subseteq Packet
    BY <1>7 DEF Inv, Types
  <2> QED BY <1>1, <1>2, <1>3, <1>4, <1>5, <1>7, <1>8, <1>9, <2>1, <2>2
          DEF Inv, Types, txVars, strayVars
<1>11. OnAir'
  BY <1>1, <1>7 DEF Inv, OnAir, Sent, txVars
<1>12. \A i \in timer' : i < txGroup
  <2>1. ASSUME NEW i \in timer PROVE i < txGroup
    <3>1. [group |-> i, rank |-> rank[i]] \in PendingReport
      BY DEF PendingReport
    <3> QED BY <3>1 DEF Inv, AnswerIndexInRange
  <2> QED BY <2>1, <1>5
<1>13. \A r \in PendingReport' : r.group < txGroup /\ r.rank <= Len(vec'[r.group])
  <2>1. \A r \in DOMAIN back \cup DOMAIN strayTimers :
          r.group < txGroup /\ r.rank <= Len(vec'[r.group])
    <3> SUFFICES ASSUME NEW r \in DOMAIN back \cup DOMAIN strayTimers
                 PROVE  r.group < txGroup /\ r.rank <= Len(vec'[r.group])
      OBVIOUS
    <3>1. r.group < txGroup /\ r.rank <= Len(vec[r.group])
      BY DEF Inv, Ranks, AnswerIndexInRange, ReportNeverOverstates, PendingReport, BagToSet
    <3>2. r.group \in Group /\ r.rank \in 0..K
      BY DEF Inv, Types, Report
    <3>3. Len(vec[r.group]) \in Nat /\ Len(vec'[r.group]) \in Nat
      BY <3>2, <1>2, SMTT(20) DEF Inv, Types
    <3> QED BY <3>1, <3>2, <3>3, <1>2
  <2>2. \A i \in timer' : i \in Group
    BY <1>10 DEF Types
  <2> SUFFICES ASSUME NEW r \in PendingReport'
               PROVE  r.group < txGroup /\ r.rank <= Len(vec'[r.group])
    OBVIOUS
  <2>3. CASE r \in DOMAIN back'
    BY <2>1, <2>3, <1>5, <1>9
  <2>4. CASE r \in DOMAIN strayTimers'
    BY <2>1, <2>4, <1>1 DEF strayVars
  <2>5. CASE \E i \in timer' : r = [group |-> i, rank |-> rank'[i]]
    BY <2>2, <2>5, <1>5, <1>12
  <2> QED BY <2>3, <2>4, <2>5 DEF PendingReport, BagToSet
<1>14. AnswerIndexInRange'
  BY <1>1, <1>13 DEF AnswerIndexInRange, txVars
<1>15. Ranks'
  BY <1>2, <1>5, <1>13 DEF Ranks, ReportNeverOverstates
<1>16. Settled'
  <2>1. \A i \in complete' : i \in decoded' \/ reports'[i] = MaxReports
    <3>1. \A i \in complete : i \in decoded \/ reports[i] = MaxReports
      BY DEF Inv, Settled
    <3>2. \A i \in C : i \in decoded' \/ reports[i] = MaxReports
      BY <3>1, <1>3, <1>6
    <3> QED BY <3>2, <1>1, <1>5, <1>6, <1>8
  <2>2. \A i \in Group : i < vrMs => i \in decoded' \/ reports'[i] = MaxReports
    BY <1>3, <1>8 DEF Inv, Settled, NcPassedGroupsSettled
  <2> QED BY <2>1, <2>2, <1>5 DEF Settled, NcPassedGroupsSettled
<1>17. Delivered'
  <2>1. \A i : i \notin complete' => i \notin C
    BY <1>5
  <2> QED BY <2>1, <1>1, <1>3, <1>5 DEF Delivered, Sent, txVars
<1>18. TimerStopped'
  <2>1. \A i \in Group : reports[i] \in 0..MaxReports
    BY DEF Inv, Types
  <2>2. S \cap U = {}
    BY <2>1, <1>5, NcAssumption
  <2>3. T \cap C = {}
    BY <1>6
  <2> HIDE DEF T
  <2> QED BY <2>2, <2>3, <1>5 DEF TimerStopped
<1> QED BY <1>10, <1>11, <1>14, <1>15, <1>16, <1>17, <1>18 DEF Inv

-----------------------------------------------------------------------------
(* The retries of a group, counted. *)

\* h adds up, rank by rank, the copies that B holds of the reports for g.
AddsUp(h, g, B) ==
  /\ h \in [0..K -> Int]
  /\ h[0] = Copies([group |-> g, rank |-> 0], B)
  /\ \A k \in 1..K : h[k] = h[k - 1] + Copies([group |-> g, rank |-> k], B)

Running(g) == IF g \in timer THEN 1 ELSE 0

\* Every group has as many requests as it has retries scheduled.
Counted ==
  \A g \in Group : \E h : AddsUp(h, g, strayTimers) /\ h[K] + Running(g) <= reports[g]

\* One report more, and one report less.
LEMMA CopiesPut ==
  ASSUME NEW B, IsABag(B), NEW r, NEW e
  PROVE  /\ Copies(e, B) \in Int
         /\ Copies(e, B (+) SetToBag({r})) = Copies(e, B) + (IF e = r THEN 1 ELSE 0)
PROOF
<1>1. \A d \in DOMAIN B : B[d] \in Nat
  BY DEF IsABag
<1>2. B (+) SetToBag({r}) = [d \in DOMAIN B \cup {r} |->
                               (IF d \in DOMAIN B THEN B[d] ELSE 0)
                                 + (IF d \in {r} THEN 1 ELSE 0)]
  BY DEF (+), SetToBag
<1> QED BY <1>1, <1>2 DEF Copies, BagIn, BagToSet

LEMMA CopiesTake ==
  ASSUME NEW B, IsABag(B), NEW r \in DOMAIN B, NEW e
  PROVE  Copies(e, B (-) SetToBag({r})) = Copies(e, B) - (IF e = r THEN 1 ELSE 0)
PROOF
<1> DEFINE f == [d \in DOMAIN B |-> IF d \in {r} THEN B[d] - 1 ELSE B[d]]
           D == {d \in DOMAIN B : f[d] > 0}
<1>1. \A d \in DOMAIN B : B[d] \in Nat /\ B[d] > 0
  BY DEF IsABag
<1>2. B (-) SetToBag({r}) = [d \in D |-> f[d]]
  BY DEF (-), SetToBag
<1>3. CASE e = r
  <2>1. f[e] = B[e] - 1 /\ B[e] \in Nat /\ B[e] > 0 /\ e \in DOMAIN B
    BY <1>1, <1>3
  <2>2. e \in D <=> B[e] - 1 > 0
    BY <2>1
  <2> HIDE DEF f, D
  <2> QED BY <2>1, <2>2, <1>2, <1>3 DEF Copies, BagIn, BagToSet
<1>4. CASE e # r
  <2>1. e \in D <=> e \in DOMAIN B
    BY <1>1, <1>4
  <2>2. e \in DOMAIN B => f[e] = B[e] /\ B[e] \in Nat
    BY <1>1, <1>4
  <2> HIDE DEF f, D
  <2> QED BY <2>1, <2>2, <1>2, <1>4 DEF Copies, BagIn, BagToSet
<1> QED BY <1>3, <1>4

\* C holds d copies of r more than B, and of the other reports for g as many.
Differs(C, B, g, r, d) ==
  \A k \in 0..K : /\ Copies([group |-> g, rank |-> k], B) \in Int
                  /\ Copies([group |-> g, rank |-> k], C)
                       = Copies([group |-> g, rank |-> k], B)
                           + (IF [group |-> g, rank |-> k] = r THEN d ELSE 0)

\* When the copies of one report change by d, so do the sums from its rank on.
LEMMA AddsUpChange ==
  ASSUME NEW h, NEW g, NEW B, NEW C, NEW r \in Report, NEW d \in Int, AddsUp(h, g, B),
         Differs(C, B, g, r, d)
  PROVE  \E f : AddsUp(f, g, C) /\ f[K] = h[K] + (IF r.group = g THEN d ELSE 0)
PROOF
<1> DEFINE from(k) == IF r.group = g /\ r.rank <= k THEN d ELSE 0
           f == [k \in 0..K |-> h[k] + from(k)]
           b(k) == Copies([group |-> g, rank |-> k], B)
           c(k) == Copies([group |-> g, rank |-> k], C)
<1>1. K \in Nat /\ r.rank \in 0..K /\ K \in 0..K /\ 0 \in 0..K
  BY NcAssumption DEF Report
<1>2. h \in [0..K -> Int] /\ h[0] = b(0) /\ \A k \in 1..K : h[k] = h[k - 1] + b(k)
  BY DEF AddsUp
<1>3. \A k \in 0..K : b(k) \in Int /\ h[k] \in Int
  BY <1>2 DEF Differs
<1>4. \A k \in 0..K : c(k) = b(k) + (IF r.group = g /\ r.rank = k THEN d ELSE 0)
  <2>1. \A k \in 0..K : [group |-> g, rank |-> k] = r <=> r.group = g /\ r.rank = k
    BY DEF Report
  <2> QED BY <2>1 DEF Differs
<1> HIDE DEF b, c
<1>5. \A k \in 0..K : from(k) \in Int
  OBVIOUS
<1>6. f \in [0..K -> Int]
  BY <1>3, <1>5
<1>7. f[0] = c(0)
  BY <1>1, <1>2, <1>3, <1>4
<1>8. \A k \in 1..K : f[k] = f[k - 1] + c(k)
  <2> SUFFICES ASSUME NEW k \in 1..K PROVE f[k] = f[k - 1] + c(k)
    OBVIOUS
  <2>1. k \in 0..K /\ k - 1 \in 0..K /\ k \in Nat
    BY <1>1
  <2>2. from(k) = from(k - 1) + (IF r.group = g /\ r.rank = k THEN d ELSE 0)
    BY <1>1, <2>1
  <2>3. f[k] = h[k] + from(k) /\ f[k - 1] = h[k - 1] + from(k - 1)
    BY <2>1
  <2>4. from(k) \in Int /\ from(k - 1) \in Int
    OBVIOUS
  <2>5. h[k] = h[k - 1] + b(k) /\ h[k] \in Int /\ h[k - 1] \in Int /\ b(k) \in Int
    BY <1>2, <1>3, <2>1
  <2>6. c(k) = b(k) + (IF r.group = g /\ r.rank = k THEN d ELSE 0)
    BY <1>4, <2>1
  <2> HIDE DEF from, f
  <2> QED BY <2>2, <2>3, <2>4, <2>5, <2>6
<1>9. f[K] = h[K] + (IF r.group = g THEN d ELSE 0)
  BY <1>1
<1>10. AddsUp(f, g, C)
  BY <1>6, <1>7, <1>8 DEF AddsUp, c
<1> HIDE DEF f
<1> QED BY <1>9, <1>10

\* CopyExpireStatusReportTimer schedules again at most the retry that expired.
LEMMA CountedStray ==
  ASSUME NEW r \in Report, NEW left, IsABag(left), NEW g \in Group, NEW h,
         AddsUp(h, g, left), CopyExpireStatusReportTimer(r, left)
  PROVE  \E f : /\ AddsUp(f, g, strayTimers')
                /\ f[K] = h[K] \/ (r.group = g /\ f[K] = h[K] + 1)
PROOF
<1>1. CASE strayTimers' = left
  BY <1>1
<1>2. CASE strayTimers' = left (+) SetToBag({r})
  <2>1. Differs(left (+) SetToBag({r}), left, g, r, 1)
    BY CopiesPut DEF Differs
  <2>2. PICK f : AddsUp(f, g, strayTimers') /\ f[K] = h[K] + (IF r.group = g THEN 1 ELSE 0)
    BY <2>1, <1>2, AddsUpChange
  <2>3. h[K] \in Int
    BY NcAssumption DEF AddsUp
  <2> QED BY <2>2, <2>3
<1> QED BY <1>1, <1>2 DEF CopyExpireStatusReportTimer

\* Every step keeps the count: a poll counts the retry it schedules, and an
\* expired timer is replaced by at most one stray one.
LEMMA CountedNext == Inv /\ Counted /\ [Next]_vars => Counted'
PROOF
<1> SUFFICES ASSUME Inv, Counted, [Next]_vars, NEW g \in Group
             PROVE  (\E h : AddsUp(h, g, strayTimers) /\ h[K] + Running(g) <= reports[g])'
  BY DEF Counted, Group
<1>0. PICK h : AddsUp(h, g, strayTimers) /\ h[K] + Running(g) <= reports[g]
  BY DEF Counted
<1>1. /\ h[K] \in Int /\ reports[g] \in Int /\ Running(g) \in Int /\ IsABag(strayTimers)
      /\ DOMAIN strayTimers \subseteq Report /\ rank[g] \in 0..K
  BY <1>0, NcAssumption DEF AddsUp, Inv, Types, Running
<1>2. CASE UNCHANGED <<strayTimers, timer, reports>>
  BY <1>0, <1>2 DEF AddsUp, Running
<1>3. CASE \E x \in BagToSet(air) : ReceiveData(x)
  <2>1. PICK x \in DOMAIN air : ReceiveData(x)
    BY <1>3 DEF BagToSet
  <2>2. strayTimers' = strayTimers
    BY <2>1 DEF ReceiveData, strayVars
  <2>3. PICK S \in SUBSET Group :
          /\ timer' = (timer \ {x.group}) \cup S
          /\ reports' = [i \in Group |-> IF i \in S THEN reports[i] + 1 ELSE reports[i]]
    BY <2>1, Polled, ZenonT(40)
  <2>4. Running(g)' <= Running(g) + (IF g \in S THEN 1 ELSE 0) /\ Running(g)' \in Int
    BY <2>3 DEF Running
  <2>5. reports'[g] = reports[g] + (IF g \in S THEN 1 ELSE 0)
    BY <2>3, <1>1
  <2>6. h[K] + Running(g)' <= reports'[g]
    BY <2>4, <2>5, <1>0, <1>1
  <2> QED BY <2>2, <2>6, <1>0 DEF AddsUp
<1>4. CASE \E i \in Group : Expire(i)
  <2>1. PICK i \in Group : Expire(i)
    BY <1>4
  <2> DEFINE r == [group |-> i, rank |-> rank[i]]
  <2>2. /\ i \in timer /\ timer' = timer \ {i} /\ reports' = reports
        /\ CopyExpireStatusReportTimer(r, strayTimers)
    BY <2>1 DEF Expire
  <2>3. r \in Report /\ r.group = i
    BY DEF Report, Inv, Types
  <2> HIDE DEF r
  <2>4. PICK f : /\ AddsUp(f, g, strayTimers')
                 /\ f[K] = h[K] \/ (r.group = g /\ f[K] = h[K] + 1)
    BY <2>2, <2>3, <1>0, <1>1, CountedStray
  <2>5. Running(g)' = Running(g) - (IF g = i THEN 1 ELSE 0)
    BY <2>2 DEF Running
  <2>6. f[K] + Running(g)' <= reports'[g]
    BY <2>2, <2>3, <2>4, <2>5, <1>0, <1>1
  <2> QED BY <2>4, <2>6 DEF AddsUp
<1>5. CASE \E r \in BagToSet(strayTimers) : ExpireStray(r)
  <2>1. PICK r \in DOMAIN strayTimers : ExpireStray(r)
    BY <1>5 DEF BagToSet
  <2> DEFINE left == strayTimers (-) SetToBag({r})
  <2>2. /\ timer' = timer /\ reports' = reports
        /\ CopyExpireStatusReportTimer(r, left)
    BY <2>1 DEF ExpireStray
  <2>3. IsABag(left) /\ r \in Report
    BY <1>1, Take
  <2>4. Differs(left, strayTimers, g, r, -1)
    <3> SUFFICES ASSUME NEW k \in 0..K, NEW e, e = [group |-> g, rank |-> k]
                 PROVE  /\ Copies(e, strayTimers) \in Int
                        /\ Copies(e, left) = Copies(e, strayTimers) + (IF e = r THEN -1 ELSE 0)
      BY DEF Differs
    <3>1. Copies(e, strayTimers) \in Int
      BY <1>1, CopiesPut
    <3>2. Copies(e, left) = Copies(e, strayTimers) - (IF e = r THEN 1 ELSE 0)
      BY <1>1, CopiesTake
    <3> HIDE DEF left
    <3> QED BY <3>1, <3>2
  <2> HIDE DEF left
  <2>5. PICK j : AddsUp(j, g, left) /\ j[K] = h[K] + (IF r.group = g THEN -1 ELSE 0)
    BY <2>3, <2>4, <1>0, AddsUpChange
  <2>6. PICK f : /\ AddsUp(f, g, strayTimers')
                 /\ f[K] = j[K] \/ (r.group = g /\ f[K] = j[K] + 1)
    BY <2>2, <2>3, <2>5, CountedStray
  <2>7. f[K] <= h[K] /\ f[K] \in Int
    BY <2>5, <2>6, <1>1
  <2>8. Running(g)' = Running(g)
    BY <2>2 DEF Running
  <2>9. f[K] + Running(g)' <= reports'[g]
    BY <2>2, <2>7, <2>8, <1>0, <1>1
  <2> QED BY <2>6, <2>9 DEF AddsUp
<1>6. CASE \/ TriggerDoTransmitPdcpSdu
           \/ \E x \in BagToSet(air) : LosePacket(x)
           \/ \E r \in BagToSet(back) : ReceiveReport(r) \/ LoseReport(r)
           \/ UNCHANGED vars
  <2>1. UNCHANGED <<strayTimers, timer, reports>>
    BY <1>6 DEF TriggerDoTransmitPdcpSdu, LosePacket, ReceiveReport, LoseReport,
                rxVars, strayVars, vars
  <2> QED BY <2>1, <1>2
<1> QED BY <1>3, <1>4, <1>5, <1>6 DEF Next

\* Nothing is scheduled at the start.
LEMMA CountedInit == Init => Counted
PROOF
<1> SUFFICES ASSUME Init, NEW g \in Group
             PROVE  \E h : AddsUp(h, g, strayTimers) /\ h[K] + Running(g) <= reports[g]
  BY DEF Counted
<1> DEFINE h == [k \in 0..K |-> 0]
<1>1. strayTimers = EmptyBag /\ DOMAIN EmptyBag = {}
  BY OneEach DEF Init, EmptyBag
<1>2. \A e : Copies(e, strayTimers) = 0
  BY <1>1 DEF Copies, BagIn, BagToSet
<1>3. Running(g) = 0 /\ reports[g] = 0
  BY DEF Init, Running
<1>4. K \in Nat /\ h[K] = 0
  BY NcAssumption
<1>5. AddsUp(h, g, strayTimers)
  BY <1>2, <1>4 DEF AddsUp
<1> QED BY <1>3, <1>4, <1>5

\* A non-empty set of natural numbers has a least element.
LEMMA Least ==
  ASSUME NEW T, T \subseteq Nat, T # {}
  PROVE  \E m \in T : \A y \in T : m <= y
PROOF
<1>1. PICK R : R = OpToRel(<, Nat)
  OBVIOUS
<1>2. IsWellFoundedOn(R, Nat)
  BY <1>1, NatLessThanWellFounded
<1>3. \A y, m \in Nat : y < m => <<y, m>> \in R
  BY <1>1 DEF OpToRel
<1>4. PICK m \in T : \A y \in T : ~(<<y, m>> \in R)
  BY <1>2, WFMin
<1>5. ASSUME NEW y \in T PROVE m <= y
  <2>1. y \in Nat /\ m \in Nat
    OBVIOUS
  <2>2. ~(y < m)
    BY <2>1, <1>3, <1>4, Zenon
  <2> QED BY <2>1, <2>2
<1> QED BY <1>5

\* The table is the recursive function of ScheduledRetries: the recursion has a
\* solution, and only one.
LEMMA TableIsSum ==
  ASSUME NEW g \in Group, NEW h, AddsUp(h, g, strayTimers)
  PROVE  ScheduledRetries(g) = h[K] + Running(g)
PROOF
<1> DEFINE b(k) == Copies([group |-> g, rank |-> k], strayTimers)
           Sums(f) == f = [k \in 0..K |-> IF k = 0 THEN b(0) ELSE f[k - 1] + b(k)]
<1>1. K \in Nat /\ K \in 0..K /\ 0 \in 0..K
  BY NcAssumption
<1>2. h \in [0..K -> Int] /\ h[0] = b(0) /\ \A k \in 1..K : h[k] = h[k - 1] + b(k)
  BY DEF AddsUp
<1>3. Sums(h)
  <2>1. h = [k \in 0..K |-> h[k]]
    BY <1>2
  <2>2. \A k \in 0..K : k = 0 \/ k \in 1..K
    BY <1>1
  <2> HIDE DEF b
  <2>3. \A k \in 0..K : h[k] = IF k = 0 THEN b(0) ELSE h[k - 1] + b(k)
    BY <2>2, <1>2
  <2> QED BY <2>1, <2>3
<1>4. PICK f : Sums(f) /\ ScheduledRetries(g) = f[K] + Running(g)
  <2> DEFINE stray[k \in 0..K] ==
               IF k = 0 THEN Copies([group |-> g, rank |-> 0], strayTimers)
                        ELSE stray[k - 1] + Copies([group |-> g, rank |-> k], strayTimers)
  <2>1. Sums(stray)
    BY <1>3
  <2>2. ScheduledRetries(g) = stray[K] + Running(g)
    BY DEF ScheduledRetries, Running
  <2> HIDE DEF stray, Sums
  <2> QED BY <2>1, <2>2
<1> HIDE DEF b
<1>5. ASSUME NEW k \in 1..K PROVE f[k] = f[k - 1] + b(k)
  <2>1. k \in 0..K /\ k # 0
    BY <1>1
  <2> QED BY <1>4, <2>1
<1>6. f[0] = h[0]
  BY <1>1, <1>2, <1>4
<1> HIDE DEF Sums
<1> DEFINE T == {k \in 0..K : f[k] # h[k]}
<1>7. T = {}
  <2> SUFFICES ASSUME T # {} PROVE FALSE
    OBVIOUS
  <2>1. PICK m \in T : \A y \in T : m <= y
    <3>1. T \subseteq Nat
      BY <1>1
    <3> HIDE DEF T
    <3> QED BY <3>1, Least
  <2>2. m \in 1..K /\ m - 1 \in 0..K /\ ~(m <= m - 1)
    BY <1>1, <1>6
  <2>3. f[m - 1] = h[m - 1]
    BY <2>1, <2>2
  <2> QED BY <1>2, <1>5, <2>2, <2>3
<1> QED BY <1>1, <1>4, <1>7

-----------------------------------------------------------------------------
(* The theorems. *)

\* The invariant holds in every behaviour: both ends, and the radio between
\* them, stay consistent whatever is lost and however packets are reordered.
THEOREM Invariance == Spec => []Inv
PROOF
<1>1. Init => Inv
  <2> SUFFICES ASSUME Init PROVE Inv
    OBVIOUS
  <2>1. IsABag(EmptyBag) /\ DOMAIN EmptyBag = {}
    BY OneEach DEF EmptyBag
  <2>2. /\ K \in Nat /\ K > 0 /\ MaxGroup \in Nat /\ MaxReports \in Nat /\ MaxLoss \in Nat
        /\ 0 \in Group /\ 0 \in Original
    BY NcAssumption DEF Group, Original
  <2>3. <<>> \in Seq(Original) /\ Len(<<>>) = 0
    OBVIOUS
  <2>4. Types
    BY <2>1, <2>2, <2>3 DEF Init, Types
  <2>5. PendingReport = {}
    BY <2>1 DEF Init, PendingReport, BagToSet
  <2>6. OnAir /\ Ranks /\ AnswerIndexInRange
    BY <2>1, <2>2, <2>3, <2>5 DEF Init, OnAir, Ranks, AnswerIndexInRange, ReportNeverOverstates
  <2>7. Settled /\ TimerStopped
    BY DEF Init, Settled, NcPassedGroupsSettled, TimerStopped, Group
  <2>8. Delivered
    BY FS_EmptySet DEF Init, Delivered
  <2> QED BY <2>4, <2>6, <2>7, <2>8 DEF Inv
<1>2. Inv /\ [Next]_vars => Inv'
  <2> SUFFICES ASSUME Inv, [Next]_vars PROVE Inv'
    OBVIOUS
  <2>1. CASE TriggerDoTransmitPdcpSdu
    BY <2>1, Transmit
  <2>2. CASE \E x \in BagToSet(air) : ReceiveData(x) \/ LosePacket(x)
    BY <2>2, Receiving, Losing DEF BagToSet
  <2>3. CASE \E r \in BagToSet(back) : ReceiveReport(r) \/ LoseReport(r)
    BY <2>3, Answering, Losing DEF BagToSet
  <2>4. CASE \E g \in Group : Expire(g)
    BY <2>4, Expiring
  <2>5. CASE \E r \in BagToSet(strayTimers) : ExpireStray(r)
    BY <2>5, Expiring DEF BagToSet
  <2>6. CASE UNCHANGED vars
    BY <2>6 DEF Inv, Types, OnAir, Ranks, Settled, Delivered, Sent, TimerStopped,
         AnswerIndexInRange, ReportNeverOverstates, NcPassedGroupsSettled, PendingReport,
         vars, txVars, rxVars, bufferVars, strayVars, history
  <2> QED BY <2>1, <2>2, <2>3, <2>4, <2>5, <2>6 DEF Next
<1> QED BY <1>1, <1>2, PTL DEF Spec

\* The m_statusReportTimer of a finished group does not run, and the retries
\* scheduled for a group, the stray ones that outlive it included, are never more
\* than the requests counted for it.
THEOREM NcRetriesCountedHolds == Spec => []NcRetriesCounted
PROOF
<1>1. Inv /\ Counted => NcRetriesCounted
  <2> SUFFICES ASSUME Inv, Counted PROVE NcRetriesCounted
    OBVIOUS
  <2>1. ASSUME NEW g \in Group PROVE ScheduledRetries(g) <= reports[g]
    <3>1. PICK h : AddsUp(h, g, strayTimers) /\ h[K] + Running(g) <= reports[g]
      BY DEF Counted
    <3> QED BY <3>1, TableIsSum
  <2> QED BY <2>1 DEF NcRetriesCounted, Inv, TimerStopped
<1> QED BY <1>1, CountedInit, CountedNext, Invariance, PTL DEF Spec

\* m_ncVrMs passes a group only when it was decoded or used all its reports.
THEOREM NcPassedGroupsSettledHolds == Spec => []NcPassedGroupsSettled
PROOF
<1>1. Inv => NcPassedGroupsSettled
  BY DEF Inv, Settled
<1> QED BY <1>1, Invariance, PTL

\* MakeNcArqSendPacket never reads past the end of a group's vector: a report
\* pending for a group means the group's K originals are saved.
THEOREM AnswerIndexInRangeHolds == Spec => []AnswerIndexInRange
PROOF
<1>1. Inv => AnswerIndexInRange
  BY DEF Inv
<1> QED BY <1>1, Invariance, PTL

\* No report, however late, claims more packets than the receiver has.
THEOREM ReportNeverOverstatesHolds == Spec => []ReportNeverOverstates
PROOF
<1>1. Inv => ReportNeverOverstates
  BY DEF Inv, Ranks
<1> QED BY <1>1, Invariance, PTL

\* A group hands up at most K packets, and K once decoded: each delivery marks
\* another original of the group in deliverdSN.
THEOREM OneBlockPerGroupHolds == Spec => []OneBlockPerGroup
PROOF
<1>1. Inv => OneBlockPerGroup
  <2> SUFFICES ASSUME Inv, NEW g \in Group
               PROVE  handed[g] <= K /\ (g \in decoded => handed[g] = K)
    BY DEF OneBlockPerGroup
  <2>1. deliverdSN[g] \in SUBSET Original /\ handed[g] = Cardinality(deliverdSN[g])
    BY DEF Inv, Types, Delivered
  <2>2. Cardinality(deliverdSN[g]) <= K
    BY <2>1, Originals, FS_Subset
  <2>3. g \in decoded => deliverdSN[g] = Original
    BY DEF Inv, Delivered
  <2> QED BY <2>1, <2>2, <2>3, Originals
<1> QED BY <1>1, Invariance, PTL
=============================================================================
