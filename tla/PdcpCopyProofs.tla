--------------------------- MODULE PdcpCopyProofs ---------------------------
(***************************************************************************)
(* Proofs about PdcpCopy, for every value of its constants: in particular  *)
(* for one or two sending ends and for either initial value of the flag    *)
(* m_IfSendArq that no constructor sets.                                   *)
(***************************************************************************)
EXTENDS PdcpCopy, FiniteSetTheorems, SequenceTheorems, TLAPS

-----------------------------------------------------------------------------
(* Facts about the RLC legs as sequences of packets. *)

\* Appending a packet to a leg (RLC push_back) adds exactly that packet.
LEMMA AppendPackets ==
  ASSUME NEW S, NEW q \in Seq(S), NEW x \in S
  PROVE  /\ Append(q, x) \in Seq(S)
         /\ Packets(Append(q, x)) = Packets(q) \cup {x}
  BY DEF Packets

\* Taking the head of a leg leaves packets that were there before.
LEMMA TailPackets ==
  ASSUME NEW S, NEW q \in Seq(S), q # <<>>
  PROVE  /\ Tail(q) \in Seq(S)
         /\ Packets(Tail(q)) \subseteq Packets(q)
         /\ Head(q) \in Packets(q)
         /\ Head(q) \in S
  BY DEF Packets

\* A retransmission put near the top of a leg (NcArqAddTop) adds only itself.
LEMMA InsertPackets ==
  ASSUME NEW S, NEW q \in Seq(S), NEW x \in S, NEW k \in TopPlaces(q)
  PROVE  /\ InsertAfter(q, k, x) \in Seq(S)
         /\ Packets(InsertAfter(q, k, x)) \subseteq Packets(q) \cup {x}
<1> DEFINE a == SubSeq(q, 1, k)
           b == SubSeq(q, k + 1, Len(q))
<1>0. k \in 0..Len(q)
  BY DEF TopPlaces
<1>1. /\ a \in Seq(S) /\ Len(a) = k
      /\ \A i \in 1..Len(a) : a[i] = q[i]
  BY <1>0
<1>2. /\ b \in Seq(S) /\ Len(b) = Len(q) - k
      /\ \A i \in 1..Len(b) : b[i] = q[k + i]
  BY <1>0
<1> HIDE DEF a, b
<1> DEFINE c == a \o <<x>>
<1>3. /\ c \in Seq(S) /\ Len(c) = k + 1
      /\ \A i \in 1..k : c[i] = a[i]
      /\ c[k + 1] = x
  BY <1>1, <1>0
<1> HIDE DEF c
<1> DEFINE d == c \o b
<1>4. /\ d \in Seq(S) /\ Len(d) = Len(q) + 1
      /\ \A i \in 1..(k + 1) : d[i] = c[i]
      /\ \A i \in (k + 2)..Len(d) : d[i] = b[i - (k + 1)]
  <2>1. /\ d \in Seq(S)
        /\ Len(d) = Len(c) + Len(b)
        /\ \A i \in 1..(Len(c) + Len(b)) :
             d[i] = IF i <= Len(c) THEN c[i] ELSE b[i - Len(c)]
    BY <1>2, <1>3, ConcatProperties, Zenon
  <2>2. Len(d) = Len(q) + 1
    BY <2>1, <1>0, <1>2, <1>3
  <2> HIDE DEF d
  <2>3. ASSUME NEW i \in 1..(k + 1)
        PROVE  d[i] = c[i]
    <3>1. i \in 1..(Len(c) + Len(b)) /\ i <= Len(c)
      BY <1>0, <1>2, <1>3
    <3> QED
      BY <3>1, <2>1
  <2>4. ASSUME NEW i \in (k + 2)..Len(d)
        PROVE  d[i] = b[i - (k + 1)]
    <3>1. i \in 1..(Len(c) + Len(b)) /\ ~(i <= Len(c))
      BY <2>2, <1>0, <1>2, <1>3
    <3> QED
      BY <3>1, <2>1, <1>3
  <2> QED
    BY <2>1, <2>2, <2>3, <2>4
<1>6. InsertAfter(q, k, x) = d
  BY DEF InsertAfter, a, b, c
<1> HIDE DEF d
<1>5. ASSUME NEW i \in 1..Len(d)
      PROVE  d[i] \in Packets(q) \cup {x}
  <2>1. CASE i <= k
    <3>1. i \in 1..k /\ i \in 1..Len(q)
      BY <2>1, <1>0, <1>4
    <3>2. d[i] = q[i]
      BY <3>1, <1>0, <1>1, <1>3, <1>4
    <3> QED
      BY <3>1, <3>2 DEF Packets
  <2>2. CASE i = k + 1
    BY <2>2, <1>0, <1>3, <1>4
  <2>3. CASE i > k + 1
    <3>1. i - (k + 1) \in 1..Len(b)
      BY <2>3, <1>0, <1>2, <1>4
    <3>2. d[i] = b[i - (k + 1)]
      BY <2>3, <1>0, <1>4
    <3>3. d[i] = q[k + (i - (k + 1))]
      BY <3>1, <3>2, <1>2
    <3>4. k + (i - (k + 1)) \in 1..Len(q)
      BY <2>3, <1>0, <1>4
    <3> QED
      BY <3>3, <3>4 DEF Packets
  <2> QED
    BY <2>1, <2>2, <2>3, <1>0
<1> QED
  BY <1>4, <1>5, <1>6 DEF Packets

\* Appending a batch of status reports to a leg adds only status reports.
LEMMA ConcatPackets ==
  ASSUME NEW S, NEW T, NEW q \in Seq(S), NEW r \in Seq(T), T \subseteq S
  PROVE  /\ q \o r \in Seq(S)
         /\ Packets(q \o r) \subseteq Packets(q) \cup T
<1>1. r \in Seq(S)
  OBVIOUS
<1>2. q \o r \in Seq(S)
  BY <1>1
<1>3. ASSUME NEW i \in 1..Len(q \o r)
      PROVE  (q \o r)[i] \in Packets(q) \cup T
  <2>1. CASE i <= Len(q)
    BY <2>1 DEF Packets
  <2>2. CASE i > Len(q)
    BY <2>2 DEF Packets
  <2> QED
    BY <2>1, <2>2
<1> QED
  BY <1>2, <1>3 DEF Packets

\* A set of group numbers is finite, so its size is a natural number.
LEMMA GroupSets ==
  ASSUME NEW S \in SUBSET Group
  PROVE  IsFiniteSet(S) /\ Cardinality(S) \in Nat
<1>1. IsFiniteSet(Group)
  BY ConstantAssumption, FS_Interval DEF Group
<1>2. IsFiniteSet(S)
  BY <1>1, FS_Subset
<1> QED
  BY <1>2, FS_CardinalityType

-----------------------------------------------------------------------------
(* The decoding buffers of one peer. *)

\* Consistency of one peer's decoding buffers: k the groups with a buffer, nr
\* the placeholders, c the complete ones, t those with a running timer, r the
\* report counts and v the value of m_ncVrMs.
GoodBuffers(k, nr, c, t, r, v) ==
  /\ nr \subseteq k
  /\ c \subseteq k
  /\ k \ nr \subseteq c
  /\ t \subseteq nr \ c
  /\ \A g \in c : g \in k \ nr \/ r[g] = MaxReports
  /\ \A g \in 0..(v - 1) : g \in c

BufferInv ==
  \A p \in Peer : GoodBuffers(known[p], noReceive[p], complete[p], timer[p],
                              reports[p], vrMs[p])

\* The two receive actions work on the legs of both peers at once.
Legs == [Peer -> [Rlc -> Seq(Packet)]]

\* What a step of peer p may do to the legs, given the legs q after the packet
\* was taken and answered: add status reports to its first leg.
OnlyReportsAdded(p, q) ==
  /\ leg' \in Legs
  /\ leg'[Other(p)] = q[Other(p)]
  /\ leg'[p][2] = q[p][2]
  /\ Packets(leg'[p][1]) \subseteq Packets(q[p][1]) \cup {Report(g) : g \in Group}

\* Sending a batch of reports keeps the types, touches nothing of the other
\* peer and counts only the requested groups.
LEMMA SendOnce ==
  ASSUME TypeOK, NEW p \in Peer, NEW t \in SUBSET Group, NEW q \in Legs,
         NEW req \in SUBSET Group, \A g \in req : reports[p][g] < MaxReports,
         CopyArqReqSendOnce(p, t, q, req)
  PROVE  /\ timer' = [timer EXCEPT ![p] = t \cup req]
         /\ timer' \in [Peer -> SUBSET Group]
         /\ reports' \in [Peer -> [Group -> 0..MaxReports]]
         /\ \A g \in Group \ req : reports'[p][g] = reports[p][g]
         /\ reports'[Other(p)] = reports[Other(p)]
         /\ OnlyReportsAdded(p, q)
<1> USE PeerAssumption, ConstantAssumption
<1> DEFINE T == {Report(g) : g \in Group}
<1>0. Other(p) \in Peer /\ Other(p) # p
  BY DEF Other, Peer
<1>1. /\ timer' = [timer EXCEPT ![p] = t \cup req]
      /\ timer' \in [Peer -> SUBSET Group]
  BY DEF CopyArqReqSendOnce, TypeOK
<1>2. /\ reports' \in [Peer -> [Group -> 0..MaxReports]]
      /\ \A g \in Group \ req : reports'[p][g] = reports[p][g]
      /\ reports'[Other(p)] = reports[Other(p)]
  <2> DEFINE n == [g \in Group |-> IF g \in req THEN reports[p][g] + 1 ELSE reports[p][g]]
  <2>1. reports' = [reports EXCEPT ![p] = n]
    BY DEF CopyArqReqSendOnce, TypeOK
  <2>2. n \in [Group -> 0..MaxReports]
    BY DEF TypeOK
  <2>3. \A g \in Group \ req : n[g] = reports[p][g]
    OBVIOUS
  <2> HIDE DEF n
  <2> QED
    BY <1>0, <2>1, <2>2, <2>3 DEF TypeOK
<1>3. PICK s \in InOrder(req) :
        leg' = [q EXCEPT ![p][1] = @ \o [i \in 1..Cardinality(req) |-> Report(s[i])]]
  BY DEF CopyArqReqSendOnce
<1> DEFINE r == [i \in 1..Cardinality(req) |-> Report(s[i])]
<1>4. r \in Seq(T)
  <2>1. Cardinality(req) \in Nat
    BY GroupSets
  <2>2. \A i \in 1..Cardinality(req) : Report(s[i]) \in T
    BY DEF InOrder
  <2> HIDE DEF T
  <2> QED
    BY <2>1, <2>2
<1>5. T \subseteq Packet
  BY DEF Packet
<1> HIDE DEF r, T
<1>6. q[p][1] \in Seq(Packet)
  BY DEF Legs, Rlc
<1>7. /\ q[p][1] \o r \in Seq(Packet)
      /\ Packets(q[p][1] \o r) \subseteq Packets(q[p][1]) \cup T
  BY <1>4, <1>5, <1>6, ConcatPackets
<1>8. leg' = [q EXCEPT ![p][1] = q[p][1] \o r]
  BY <1>3 DEF r, Legs, Rlc
<1>9. OnlyReportsAdded(p, q)
  BY <1>0, <1>7, <1>8 DEF OnlyReportsAdded, Legs, Rlc, T
<1> QED
  BY <1>1, <1>2, <1>9

\* Walking the loop of CopySendArqReq stays within the known group numbers;
\* only idle groups are requested or given up.
LEMMA PollSets ==
  ASSUME TypeOK, NEW p \in Peer, NEW to \in Group, NEW c, NEW t
  PROVE  /\ Visited(p, vrMs[p], to, c, t) \subseteq Group
         /\ Requested(p, vrMs[p], to, c, t) \subseteq
              (Visited(p, vrMs[p], to, c, t) \ c) \ t
         /\ GivenUp(p, vrMs[p], to, c, t) \subseteq
              (Visited(p, vrMs[p], to, c, t) \ c) \ t
         /\ GivenUp(p, vrMs[p], to, c, t) \cap Requested(p, vrMs[p], to, c, t) = {}
         /\ \A g \in Requested(p, vrMs[p], to, c, t) : reports[p][g] < MaxReports
         /\ \A g \in GivenUp(p, vrMs[p], to, c, t) : reports[p][g] >= MaxReports
<1>1. vrMs[p] \in Nat /\ vrMs[p]..to \subseteq Group
  BY ConstantAssumption DEF TypeOK, Group
<1>2. \A g \in Group : reports[p][g] \in Nat /\ reports[p][g] <= MaxReports
  BY ConstantAssumption DEF TypeOK
<1>3. MaxReports \in Nat
  BY ConstantAssumption
<1> QED
  BY <1>1, <1>2, <1>3 DEF Visited, Requested, GivenUp, Askable, Idle

\* The end of TriggerRecvPdcpSdu keeps the buffers consistent, adds nothing but
\* reports to the legs and leaves the received groups and their counts alone.
LEMMA PollStep ==
  ASSUME TypeOK, BufferInv, NEW p \in Peer,
         NEW asked \in BOOLEAN, NEW to \in Group,
         NEW k \in SUBSET Group, NEW nr, NEW c, NEW t, NEW q \in Legs,
         GoodBuffers(k, nr, c, t, reports[p], vrMs[p]),
         PollIfAsked(p, asked, to, k, nr, c, t, q)
  PROVE  /\ known' \in [Peer -> SUBSET Group]
         /\ noReceive' \in [Peer -> SUBSET Group]
         /\ complete' \in [Peer -> SUBSET Group]
         /\ timer' \in [Peer -> SUBSET Group]
         /\ reports' \in [Peer -> [Group -> 0..MaxReports]]
         /\ vrMs' \in [Peer -> 0..(MaxGroup + 1)]
         /\ BufferInv'
         /\ OnlyReportsAdded(p, q)
         /\ Received(p)' = k \ nr
         /\ Received(Other(p))' = Received(Other(p))
         /\ \A g \in k \ nr : reports'[p][g] = reports[p][g]
         /\ reports'[Other(p)] = reports[Other(p)]
<1>0. Other(p) \in Peer /\ Other(p) # p /\ Peer = {p, Other(p)}
  BY PeerAssumption DEF Other, Peer
<1>a. /\ k \subseteq Group /\ nr \subseteq Group /\ c \subseteq Group
      /\ t \subseteq Group
  BY DEF GoodBuffers
<1>b. GoodBuffers(known[Other(p)], noReceive[Other(p)], complete[Other(p)],
                  timer[Other(p)], reports[Other(p)], vrMs[Other(p)])
  BY <1>0 DEF BufferInv
<1>1. CASE ~asked
  <2>1. /\ known' = [known EXCEPT ![p] = k]
        /\ noReceive' = [noReceive EXCEPT ![p] = nr]
        /\ complete' = [complete EXCEPT ![p] = c]
        /\ timer' = [timer EXCEPT ![p] = t]
        /\ leg' = q
        /\ reports' = reports /\ vrMs' = vrMs
    BY <1>1 DEF PollIfAsked
  <2>2. /\ known' \in [Peer -> SUBSET Group]
        /\ noReceive' \in [Peer -> SUBSET Group]
        /\ complete' \in [Peer -> SUBSET Group]
        /\ timer' \in [Peer -> SUBSET Group]
        /\ reports' \in [Peer -> [Group -> 0..MaxReports]]
        /\ vrMs' \in [Peer -> 0..(MaxGroup + 1)]
    BY <2>1, <1>a DEF TypeOK
  <2>3. BufferInv'
    BY <2>1, <1>0, <1>b DEF BufferInv, TypeOK
  <2>4. OnlyReportsAdded(p, q)
    BY <2>1 DEF OnlyReportsAdded
  <2>5. Received(p)' = k \ nr /\ Received(Other(p))' = Received(Other(p))
    BY <2>1, <1>0 DEF Received, TypeOK
  <2> QED
    BY <2>1, <2>2, <2>3, <2>4, <2>5
<1>2. CASE asked
  <2> DEFINE visited == Visited(p, vrMs[p], to, c, t)
             req == Requested(p, vrMs[p], to, c, t)
             lost == GivenUp(p, vrMs[p], to, c, t)
  <2>1. /\ visited \subseteq Group
        /\ req \subseteq (visited \ c) \ t
        /\ lost \subseteq (visited \ c) \ t
        /\ lost \cap req = {}
        /\ \A g \in req : reports[p][g] < MaxReports
        /\ \A g \in lost : reports[p][g] = MaxReports
    <3>1. /\ visited \subseteq Group
          /\ req \subseteq (visited \ c) \ t
          /\ lost \subseteq (visited \ c) \ t
          /\ lost \cap req = {}
      BY PollSets, ZenonT(30)
    <3>2. \A g \in req : reports[p][g] < MaxReports
      BY PollSets
    <3>3. \A g \in lost : reports[p][g] >= MaxReports
      BY PollSets
    <3>4. \A g \in Group : reports[p][g] \in 0..MaxReports
      BY DEF TypeOK
    <3> QED
      BY <3>1, <3>2, <3>3, <3>4, ConstantAssumption
  <2>2. /\ known' = [known EXCEPT ![p] = k \cup visited]
        /\ noReceive' = [noReceive EXCEPT ![p] = nr \cup (visited \ k)]
        /\ complete' = [complete EXCEPT ![p] = c \cup lost]
        /\ \E n \in FirstIncomplete(vrMs[p], c \cup lost) :
             vrMs' = [vrMs EXCEPT ![p] = n]
        /\ CopyArqReqSendOnce(p, t, q, req)
    BY <1>2 DEF PollIfAsked, CopySendArqReq
  <2> HIDE DEF visited, req, lost
  <2>3. /\ timer' = [timer EXCEPT ![p] = t \cup req]
        /\ timer' \in [Peer -> SUBSET Group]
        /\ reports' \in [Peer -> [Group -> 0..MaxReports]]
        /\ \A g \in Group \ req : reports'[p][g] = reports[p][g]
        /\ reports'[Other(p)] = reports[Other(p)]
        /\ OnlyReportsAdded(p, q)
    BY <2>1, <2>2, <1>a, SendOnce
  <2>4. PICK n \in FirstIncomplete(vrMs[p], c \cup lost) :
          vrMs' = [vrMs EXCEPT ![p] = n]
    BY <2>2
  <2>5. n \in 0..(MaxGroup + 1) /\ \A m \in 0..(n - 1) : m \in c \cup lost
    <3>1. vrMs[p] \in 0..(MaxGroup + 1) /\ \A m \in 0..(vrMs[p] - 1) : m \in c
      BY DEF TypeOK, GoodBuffers
    <3>2. /\ n \in vrMs[p]..(MaxGroup + 1)
          /\ \A m \in vrMs[p]..(n - 1) : m \in c \cup lost
      BY DEF FirstIncomplete
    <3> QED
      BY <3>1, <3>2, ConstantAssumption
  <2>6. /\ known' \in [Peer -> SUBSET Group]
        /\ noReceive' \in [Peer -> SUBSET Group]
        /\ complete' \in [Peer -> SUBSET Group]
        /\ vrMs' \in [Peer -> 0..(MaxGroup + 1)]
    <3>1. /\ k \cup visited \in SUBSET Group
          /\ nr \cup (visited \ k) \in SUBSET Group
          /\ c \cup lost \in SUBSET Group
      BY <1>a, <2>1
    <3> QED
      BY <3>1, <2>2, <2>4, <2>5 DEF TypeOK
  <2>7. GoodBuffers(k \cup visited, nr \cup (visited \ k), c \cup lost,
                    t \cup req, reports'[p], n)
    <3>0. /\ nr \subseteq k /\ c \subseteq k /\ k \ nr \subseteq c
          /\ t \subseteq nr \ c
          /\ \A g \in c : g \in k \ nr \/ reports[p][g] = MaxReports
      BY DEF GoodBuffers
    <3>1. \A g \in c \cup lost : reports'[p][g] = reports[p][g]
      BY <2>1, <2>3, <1>a
    <3>2. \A g \in c \cup lost : \/ g \in (k \cup visited) \ (nr \cup (visited \ k))
                                 \/ reports'[p][g] = MaxReports
      BY <3>0, <3>1, <2>1
    <3>3. t \cup req \subseteq (nr \cup (visited \ k)) \ (c \cup lost)
      BY <3>0, <2>1
    <3> QED
      BY <3>0, <3>2, <3>3, <2>1, <2>5 DEF GoodBuffers
  <2>8. BufferInv'
    <3>1. /\ known'[p] = k \cup visited
          /\ noReceive'[p] = nr \cup (visited \ k)
          /\ complete'[p] = c \cup lost
          /\ timer'[p] = t \cup req
          /\ vrMs'[p] = n
      BY <2>2, <2>3, <2>4 DEF TypeOK
    <3>2. /\ known'[Other(p)] = known[Other(p)]
          /\ noReceive'[Other(p)] = noReceive[Other(p)]
          /\ complete'[Other(p)] = complete[Other(p)]
          /\ timer'[Other(p)] = timer[Other(p)]
          /\ vrMs'[Other(p)] = vrMs[Other(p)]
      BY <2>2, <2>3, <2>4, <1>0 DEF TypeOK
    <3> QED
      BY <3>1, <3>2, <2>3, <2>7, <1>b, <1>0 DEF BufferInv
  <2>9. /\ Received(p)' = k \ nr
        /\ Received(Other(p))' = Received(Other(p))
    BY <2>2, <1>0 DEF Received, TypeOK
  <2>10. \A g \in k \ nr : reports'[p][g] = reports[p][g]
    BY <2>1, <2>3, <1>a DEF GoodBuffers
  <2> QED
    BY <2>3, <2>6, <2>8, <2>9, <2>10
<1> QED
  BY <1>1, <1>2

-----------------------------------------------------------------------------
(* The SDUs: which group carries which SDU, and what was handed up. *)

\* Group g of peer p stands for SDU s: it is kept for retransmission, or a copy
\* is under way.
Carried(p, g, s) == encoding[p][g] = s \/ Data(g, s) \in InFlight(p)

\* An SDU travels under one group number; it goes up at most once, and once it
\* did its group is known as received at the other end.
SduInv ==
  \A p \in Peer : \A s \in Sdu :
    /\ upper[Other(p)][s] <= 1
    /\ s > sent[p] => upper[Other(p)][s] = 0
    /\ \A g \in Group :
         Carried(p, g, s) =>
           /\ s <= sent[p]
           /\ upper[Other(p)][s] > 0 => g \in Received(Other(p))
           /\ \A h \in Group : Carried(p, h, s) => g = h

Inv == TypeOK /\ BufferInv /\ SduInv

\* There are two peers and each is the other's other.
LEMMA Peers ==
  ASSUME NEW p \in Peer
  PROVE  /\ Other(p) \in Peer /\ Other(p) # p /\ Other(Other(p)) = p
         /\ Peer = {p, Other(p)}
  BY PeerAssumption DEF Peer, Other

\* Packets keep group and SDU apart, and data apart from reports.
LEMMA PacketFacts ==
  /\ \A g, h, s, u : Data(g, s) = Data(h, u) => g = h /\ s = u
  /\ \A g, h, s : Data(g, s) # Report(h)
  /\ \A x \in Packet :
       /\ x.group \in Group
       /\ x.kind = "data" => x.sdu \in Sdu /\ x = Data(x.group, x.sdu)
  /\ \A g \in Group : \A s \in Sdu : Data(g, s) \in Packet
  /\ \A g \in Group : Report(g) \in Packet
<1>1. \A g, h, s, u : Data(g, s) = Data(h, u) => g = h /\ s = u
  BY DEF Data
<1>2. \A g, h, s : Data(g, s) # Report(h)
  BY DEF Data, Report
<1>3. ASSUME NEW x \in Packet
      PROVE  /\ x.group \in Group
             /\ x.kind = "data" => x.sdu \in Sdu /\ x = Data(x.group, x.sdu)
  BY DEF Packet, Data, Report
<1>4. /\ \A g \in Group : \A s \in Sdu : Data(g, s) \in Packet
      /\ \A g \in Group : Report(g) \in Packet
  BY DEF Packet
<1> QED
  BY <1>1, <1>2, <1>3, <1>4

\* Taking the head off a leg: the rest is unchanged and nothing is added.
LEMMA PopFacts ==
  ASSUME TypeOK, NEW p \in Peer, NEW l \in Rlc, Arrived(p, l) # <<>>
  PROVE  /\ Pop(p, l) \in Legs
         /\ Pop(p, l)[p] = leg[p]
         /\ \A i \in Rlc : Packets(Pop(p, l)[Other(p)][i]) \subseteq
                             Packets(leg[Other(p)][i])
         /\ Head(Arrived(p, l)) \in InFlight(Other(p))
         /\ Head(Arrived(p, l)) \in Packet
<1> DEFINE q == leg[Other(p)][l]
<1>0. Other(p) \in Peer /\ Other(p) # p
  BY Peers
<1>1. q \in Seq(Packet) /\ q # <<>>
  BY <1>0 DEF TypeOK, Arrived
<1>2. /\ Tail(q) \in Seq(Packet)
      /\ Packets(Tail(q)) \subseteq Packets(q)
      /\ Head(q) \in Packets(q)
      /\ Head(q) \in Packet
  BY <1>1, TailPackets
<1>3. leg \in Legs
  BY DEF TypeOK, Legs
<1>4. Pop(p, l) = [leg EXCEPT ![Other(p)][l] = Tail(q)]
  BY <1>0, <1>3 DEF Pop, Legs
<1>5. Arrived(p, l) = q
  BY DEF Arrived
<1>6. Packets(q) \subseteq InFlight(Other(p))
  BY DEF InFlight, Rlc
<1> HIDE DEF q
<1>7. Pop(p, l) \in Legs /\ Pop(p, l)[p] = leg[p]
  BY <1>0, <1>2, <1>3, <1>4 DEF Legs
<1>8. ASSUME NEW i \in Rlc
      PROVE  Packets(Pop(p, l)[Other(p)][i]) \subseteq Packets(leg[Other(p)][i])
  <2>1. CASE i = l
    <3>1. Pop(p, l)[Other(p)][i] = Tail(q)
      BY <2>1, <1>0, <1>3, <1>4 DEF Legs
    <3> QED
      BY <2>1, <3>1, <1>2 DEF q
  <2>2. CASE i # l
    <3>1. Pop(p, l)[Other(p)][i] = leg[Other(p)][i]
      BY <2>2, <1>0, <1>3, <1>4 DEF Legs
    <3> QED
      BY <3>1
  <2> QED
    BY <2>1, <2>2
<1> QED
  BY <1>2, <1>5, <1>6, <1>7, <1>8

\* A step that hands nothing up, accepts nothing and puts no new pairing of
\* group and SDU under way keeps the SDU invariant.
LEMMA SduFrame ==
  ASSUME SduInv, sent' = sent, upper' = upper,
         \A p \in Peer : Received(p) \subseteq Received(p)',
         \A p \in Peer : \A g \in Group : \A s \in Sdu :
           Carried(p, g, s)' => Carried(p, g, s)
  PROVE  SduInv'
<1> SUFFICES ASSUME NEW p \in Peer, NEW s \in Sdu
             PROVE  /\ upper'[Other(p)][s] <= 1
                    /\ s > sent'[p] => upper'[Other(p)][s] = 0
                    /\ \A g \in Group :
                         Carried(p, g, s)' =>
                           /\ s <= sent'[p]
                           /\ upper'[Other(p)][s] > 0 => g \in Received(Other(p))'
                           /\ \A h \in Group : Carried(p, h, s)' => g = h
  BY DEF SduInv
<1>1. Other(p) \in Peer
  BY Peers
<1> QED
  BY <1>1 DEF SduInv

-----------------------------------------------------------------------------
(* The inductive invariant, action by action. *)

\* The state a fresh pair of LtePdcp objects is in satisfies the invariant.
LEMMA InitInv ==
  ASSUME Init
  PROVE  Inv
<1> USE ConstantAssumption, PeerAssumption
<1>1. TypeOK
  <2>1. /\ 0 \in Group /\ 0 \in 0..MaxReports /\ 0 \in 0..(MaxGroup + 1)
        /\ 0 \in 0..MaxLoss /\ 0 \in 0..MaxSdu /\ NoSdu \in Sdu \cup {NoSdu}
    BY DEF Group
  <2>2. leg \in [Peer -> [Rlc -> Seq(Packet)]]
    BY DEF Init
  <2>3. ifSendArq \in [Peer -> BOOLEAN] /\ ifTransmitSdu \in [Peer -> BOOLEAN]
    BY DEF Init
  <2> QED
    BY <2>1, <2>2, <2>3 DEF Init, TypeOK
<1>2. BufferInv
  BY DEF Init, BufferInv, GoodBuffers
<1>3. SduInv
  <2> SUFFICES ASSUME NEW p \in Peer, NEW s \in Sdu
               PROVE  /\ upper[Other(p)][s] = 0
                      /\ \A g \in Group : ~Carried(p, g, s)
    BY DEF SduInv
  <2>1. Other(p) \in Peer
    BY Peers
  <2>2. leg[p][1] = <<>> /\ leg[p][2] = <<>>
    BY DEF Init, Rlc
  <2>3. InFlight(p) = {}
    BY <2>2 DEF InFlight, Packets
  <2>4. s # NoSdu
    BY DEF Sdu, NoSdu
  <2> QED
    BY <2>1, <2>3, <2>4 DEF Init, Carried
<1> QED
  BY <1>1, <1>2, <1>3 DEF Inv

\* Losing a packet keeps the invariant.
LEMMA LoseInv ==
  ASSUME Inv, NEW p \in Peer, NEW l \in Rlc, LosePdu(p, l)
  PROVE  Inv'
<1> USE DEF Inv
<1>1. /\ losses < MaxLoss /\ losses' = losses + 1
      /\ Arrived(p, l) # <<>> /\ leg' = Pop(p, l)
      /\ UNCHANGED <<groupnum, encoding, known, noReceive, complete, timer,
                     reports, vrMs, maxRecv, ifTransmitSdu, ifSendArq, sent,
                     upper, reportUp>>
  BY DEF LosePdu, copyVars
<1>2. /\ leg' \in Legs /\ leg'[p] = leg[p]
      /\ \A i \in Rlc : Packets(leg'[Other(p)][i]) \subseteq
                          Packets(leg[Other(p)][i])
  BY <1>1, PopFacts
<1>3. TypeOK'
  BY <1>1, <1>2, ConstantAssumption DEF TypeOK, Legs
<1>4. BufferInv'
  BY <1>1 DEF BufferInv
<1>5. SduInv'
  <2>1. \A r \in Peer : InFlight(r)' \subseteq InFlight(r)
    BY <1>2, Peers DEF InFlight, Rlc
  <2>2. \A r \in Peer : Received(r) \subseteq Received(r)'
    BY <1>1 DEF Received
  <2>3. \A r \in Peer : \A g \in Group : \A s \in Sdu :
          Carried(r, g, s)' => Carried(r, g, s)
    BY <2>1, <1>1 DEF Carried
  <2> QED
    BY <1>1, <2>2, <2>3, SduFrame
<1> QED
  BY <1>3, <1>4, <1>5

\* The retry timer keeps the invariant: it is spent, or it sends one more
\* report for a group that has reports left.
LEMMA ExpireInv ==
  ASSUME Inv, NEW p \in Peer, NEW g \in Group, CopyExpireStatusReportTimer(p, g)
  PROVE  Inv' /\ \A r \in Peer : \A h \in Received(r) : reports'[r][h] = reports[r][h]
<1> USE DEF Inv
<1>0. Other(p) \in Peer /\ Other(p) # p /\ Peer = {p, Other(p)}
  BY Peers
<1>1. /\ g \in timer[p]
      /\ UNCHANGED <<groupnum, encoding, known, noReceive, complete, vrMs,
                     maxRecv, ifTransmitSdu, ifSendArq, losses, sent, upper,
                     reportUp>>
  BY DEF CopyExpireStatusReportTimer
<1>2. leg \in Legs
  BY DEF TypeOK, Legs
<1>g. \A r \in Peer : GoodBuffers(known[r], noReceive[r], complete[r], timer[r],
                                  reports[r], vrMs[r])
  BY DEF BufferInv
<1>3. /\ timer' \in [Peer -> SUBSET Group]
      /\ reports' \in [Peer -> [Group -> 0..MaxReports]]
      /\ timer'[p] \subseteq timer[p]
      /\ timer'[Other(p)] = timer[Other(p)]
      /\ \A h \in Group \ {g} : reports'[p][h] = reports[p][h]
      /\ reports'[Other(p)] = reports[Other(p)]
      /\ OnlyReportsAdded(p, leg)
  <2>1. CASE reports[p][g] < MaxReports /\ CopyArqReqSendOnce(p, timer[p], leg, {g})
    <3>0. timer[p] \in SUBSET Group /\ {g} \in SUBSET Group
      BY DEF TypeOK
    <3>1. /\ timer' = [timer EXCEPT ![p] = timer[p] \cup {g}]
          /\ timer' \in [Peer -> SUBSET Group]
          /\ reports' \in [Peer -> [Group -> 0..MaxReports]]
          /\ \A h \in Group \ {g} : reports'[p][h] = reports[p][h]
          /\ reports'[Other(p)] = reports[Other(p)]
          /\ OnlyReportsAdded(p, leg)
      BY <2>1, <1>2, <3>0, SendOnce, ZenonT(30)
    <3>2. timer'[p] \subseteq timer[p] /\ timer'[Other(p)] = timer[Other(p)]
      BY <3>1, <1>0, <1>1 DEF TypeOK
    <3> QED
      BY <3>1, <3>2
  <2>2. CASE /\ timer' = [timer EXCEPT ![p] = @ \ {g}]
             /\ UNCHANGED <<reports, leg>>
    <3>1. OnlyReportsAdded(p, leg)
      BY <2>2, <1>2 DEF OnlyReportsAdded
    <3> QED
      BY <2>2, <3>1, <1>0 DEF TypeOK
  <2> QED
    BY <2>1, <2>2 DEF CopyExpireStatusReportTimer
<1>4. TypeOK'
  BY <1>1, <1>3 DEF TypeOK, OnlyReportsAdded, Legs
<1>5. g \notin complete[p] /\ g \notin Received(p)
  BY <1>1, <1>g DEF GoodBuffers, Received
<1>6. BufferInv'
  <2>1. GoodBuffers(known[p], noReceive[p], complete[p], timer'[p],
                    reports'[p], vrMs[p])
    <3>1. \A h \in complete[p] : reports'[p][h] = reports[p][h]
      BY <1>3, <1>5 DEF TypeOK
    <3> QED
      BY <3>1, <1>3, <1>g DEF GoodBuffers
  <2>2. GoodBuffers(known[Other(p)], noReceive[Other(p)], complete[Other(p)],
                    timer'[Other(p)], reports'[Other(p)], vrMs[Other(p)])
    BY <1>0, <1>3, <1>g
  <2> QED
    BY <2>1, <2>2, <1>0, <1>1 DEF BufferInv
<1>7. \A r \in Peer : \A h \in Received(r) : reports'[r][h] = reports[r][h]
  BY <1>0, <1>3, <1>5 DEF Received, TypeOK
<1>8. SduInv'
  <2>2. \A r \in Peer : Received(r) \subseteq Received(r)'
    BY <1>1 DEF Received
  <2>3. ASSUME NEW r \in Peer, NEW h \in Group, NEW s \in Sdu, Carried(r, h, s)'
        PROVE  Carried(r, h, s)
    <3>1. InFlight(r)' \subseteq InFlight(r) \cup {Report(i) : i \in Group}
      BY <1>0, <1>3 DEF OnlyReportsAdded, InFlight
    <3>2. Data(h, s) \notin {Report(i) : i \in Group}
      BY PacketFacts
    <3> QED
      BY <2>3, <3>1, <3>2, <1>1 DEF Carried
  <2> QED
    BY <1>1, <2>2, <2>3, SduFrame
<1> QED
  BY <1>4, <1>6, <1>7, <1>8

\* Accepting an SDU keeps the invariant: its number is new, and the second
\* copy is the SDU kept under the group, whichever that is.
LEMMA SendInv ==
  ASSUME Inv, NEW p \in Peer, TriggerDoTransmitPdcpSdu(p)
  PROVE  Inv'
<1> USE DEF Inv
<1> DEFINE g == groupnum[p]
           s == sent[p] + 1
           enc == SendSaveAndSetTime(p, g, s)
           u == enc[p][g]
<1>0. Other(p) \in Peer /\ Other(p) # p /\ Peer = {p, Other(p)}
  BY Peers
<1>1. /\ sent[p] < MaxSdu /\ g \in Group /\ encoding' = enc
      /\ groupnum' = [groupnum EXCEPT ![p] = g + 1]
      /\ sent' = [sent EXCEPT ![p] = s]
      /\ leg' = [[leg EXCEPT ![p][1] = Append(@, Data(g, s))]
                   EXCEPT ![p][2] = Append(@, Data(g, u))]
      /\ UNCHANGED <<known, noReceive, complete, timer, reports, vrMs, maxRecv,
                     ifTransmitSdu, ifSendArq, losses, upper, reportUp>>
  BY DEF TriggerDoTransmitPdcpSdu, DoTransmitPdcpSdu, DoTransmitPdcpSdu2,
         MakeRedundancePacket
<1>2. s \in Sdu /\ sent[p] \in Nat
  BY <1>1, ConstantAssumption DEF TypeOK, Sdu
<1>3. /\ enc \in [Peer -> [Group -> Sdu \cup {NoSdu}]]
      /\ u \in Sdu
      /\ u = s \/ u = encoding[p][g]
      /\ enc[Other(p)] = encoding[Other(p)]
      /\ \A h \in Group : enc[p][h] = encoding[p][h] \/ (h = g /\ enc[p][h] = s)
  BY <1>0, <1>1, <1>2, SMTT(20) DEF SendSaveAndSetTime, TypeOK
<1> HIDE DEF enc, s, u, g
<1>4. /\ leg \in Legs /\ Data(g, s) \in Packet /\ Data(g, u) \in Packet
  BY <1>1, <1>2, <1>3, PacketFacts DEF TypeOK, Legs
<1>5. /\ Append(leg[p][1], Data(g, s)) \in Seq(Packet)
      /\ Packets(Append(leg[p][1], Data(g, s))) = Packets(leg[p][1]) \cup {Data(g, s)}
      /\ Append(leg[p][2], Data(g, u)) \in Seq(Packet)
      /\ Packets(Append(leg[p][2], Data(g, u))) = Packets(leg[p][2]) \cup {Data(g, u)}
  <2>1. leg[p][1] \in Seq(Packet) /\ leg[p][2] \in Seq(Packet)
    BY <1>4 DEF Legs, Rlc
  <2> QED
    BY <2>1, <1>4, AppendPackets
<1>6. /\ leg' \in Legs
      /\ leg'[Other(p)] = leg[Other(p)]
      /\ leg'[p][1] = Append(leg[p][1], Data(g, s))
      /\ leg'[p][2] = Append(leg[p][2], Data(g, u))
  <2> DEFINE a == Append(leg[p][1], Data(g, s))
             b == Append(leg[p][2], Data(g, u))
             m == [leg EXCEPT ![p][1] = a]
  <2>1. m = [leg EXCEPT ![p][1] = Append(@, Data(g, s))]
    BY <1>4 DEF Legs, Rlc
  <2>2. a \in Seq(Packet) /\ b \in Seq(Packet)
    BY <1>5
  <2> HIDE DEF a, b
  <2>3. /\ m \in Legs /\ m[Other(p)] = leg[Other(p)]
        /\ m[p][1] = a /\ m[p][2] = leg[p][2]
    BY <2>2, <1>0, <1>4 DEF Legs, Rlc
  <2>4. leg' = [m EXCEPT ![p][2] = Append(@, Data(g, u))]
    BY <2>1, <1>1
  <2> HIDE DEF m
  <2>5. leg' = [m EXCEPT ![p][2] = b]
    BY <2>3, <2>4 DEF Legs, Rlc, b
  <2>6. /\ leg' \in Legs /\ leg'[Other(p)] = leg[Other(p)]
        /\ leg'[p][1] = a /\ leg'[p][2] = b
    BY <2>2, <2>3, <2>5, <1>0 DEF Legs, Rlc
  <2> QED
    BY <2>6 DEF a, b
<1>7. TypeOK'
  <2>1. groupnum' \in [Peer -> 0..(MaxGroup + 1)]
    BY <1>1, ConstantAssumption DEF TypeOK, Group
  <2>2. sent' \in [Peer -> 0..MaxSdu]
    BY <1>1, <1>2, ConstantAssumption DEF TypeOK, Sdu
  <2> QED
    BY <2>1, <2>2, <1>1, <1>3, <1>6 DEF TypeOK, Legs
<1>8. BufferInv'
  BY <1>1 DEF BufferInv
<1>9. InFlight(p)' = InFlight(p) \cup {Data(g, s), Data(g, u)}
  BY <1>5, <1>6 DEF InFlight
<1>10. \A h \in Group : \A v \in Sdu :
         Carried(p, h, v)' => Carried(p, h, v) \/ (h = g /\ v = s)
  <2>1. ASSUME NEW h \in Group, NEW v \in Sdu, Data(h, v) \in InFlight(p)'
        PROVE  Carried(p, h, v) \/ (h = g /\ v = s)
    BY <2>1, <1>3, <1>9, PacketFacts DEF Carried
  <2>2. ASSUME NEW h \in Group, NEW v \in Sdu, encoding'[p][h] = v
        PROVE  Carried(p, h, v) \/ (h = g /\ v = s)
    BY <2>2, <1>1, <1>3 DEF Carried
  <2> QED
    BY <2>1, <2>2 DEF Carried
<1>11. \A h \in Group : \A v \in Sdu :
         Carried(Other(p), h, v)' => Carried(Other(p), h, v)
  BY <1>0, <1>1, <1>3, <1>6 DEF Carried, InFlight
<1>12. SduInv'
  <2> SUFFICES ASSUME NEW r \in Peer, NEW v \in Sdu
               PROVE  /\ upper'[Other(r)][v] <= 1
                      /\ v > sent'[r] => upper'[Other(r)][v] = 0
                      /\ \A h \in Group :
                           Carried(r, h, v)' =>
                             /\ v <= sent'[r]
                             /\ upper'[Other(r)][v] > 0 => h \in Received(Other(r))'
                             /\ \A i \in Group : Carried(r, i, v)' => h = i
    BY DEF SduInv
  <2>1. /\ upper' = upper
        /\ Received(Other(r))' = Received(Other(r))
    BY <1>1 DEF Received
  <2>2. /\ upper[Other(r)][v] <= 1
        /\ v > sent[r] => upper[Other(r)][v] = 0
        /\ \A h \in Group :
             Carried(r, h, v) =>
               /\ v <= sent[r]
               /\ upper[Other(r)][v] > 0 => h \in Received(Other(r))
               /\ \A i \in Group : Carried(r, i, v) => h = i
    BY DEF SduInv
  <2>3. CASE r = p
    <3>1. sent'[p] = sent[p] + 1 /\ s = sent[p] + 1 /\ v \in Nat
      BY <1>1 DEF TypeOK, s, Sdu
    <3>2. v = s => /\ upper[Other(p)][v] = 0
                   /\ \A h \in Group : ~Carried(p, h, v)
      BY <2>2, <2>3, <3>1, <1>2
    <3> QED
      BY <2>1, <2>2, <2>3, <3>1, <3>2, <1>2, <1>10
  <2>4. CASE r = Other(p)
    <3>1. sent'[r] = sent[r]
      BY <2>4, <1>0, <1>1 DEF TypeOK
    <3> QED
      BY <2>1, <2>2, <2>4, <3>1, <1>11
  <2> QED
    BY <2>3, <2>4, <1>0
<1> QED
  BY <1>7, <1>8, <1>12

\* Receiving a data packet keeps the invariant: the first copy of a group, and
\* only it, goes up, and the group counts as received from then on.
LEMMA ReceiveDataInv ==
  ASSUME Inv, NEW p \in Peer, NEW l \in Rlc, ReceiveData(p, l)
  PROVE  Inv' /\ \A r \in Peer : \A h \in Received(r) : reports'[r][h] = reports[r][h]
<1> USE DEF Inv
<1> DEFINE x == Head(Arrived(p, l))
           g == x.group
           s == x.sdu
           first == FirstCopy(p, g)
           to == MaxRecvGroupnum(p, g)
           k == known[p] \cup {g}
           nr == noReceive[p] \ {g}
           c == IF first THEN complete[p] \cup {g} ELSE complete[p]
           t == timer[p] \ {g}
<1>0. Other(p) \in Peer /\ Other(p) # p /\ Peer = {p, Other(p)} /\ Other(Other(p)) = p
  BY Peers
<1>1. /\ Arrived(p, l) # <<>> /\ x.kind = "data"
      /\ groupnum' = [groupnum EXCEPT ![p] = g]
      /\ maxRecv' = [maxRecv EXCEPT ![p] = to]
      /\ ifTransmitSdu' = [ifTransmitSdu EXCEPT ![p] = first]
      /\ ifSendArq' = [ifSendArq EXCEPT ![p] = first /\ PollingGroup(g)]
      /\ upper' = IF first THEN [upper EXCEPT ![p][s] = @ + 1] ELSE upper
      /\ PollIfAsked(p, first /\ PollingGroup(g), to, k, nr, c, t, Pop(p, l))
      /\ encoding' = encoding /\ losses' = losses /\ sent' = sent
      /\ reportUp' = reportUp
  BY DEF ReceiveData, RecvAndSave, stopArqTimer
<1>2. /\ Pop(p, l) \in Legs /\ Pop(p, l)[p] = leg[p]
      /\ \A i \in Rlc : Packets(Pop(p, l)[Other(p)][i]) \subseteq
                          Packets(leg[Other(p)][i])
      /\ x \in InFlight(Other(p)) /\ x \in Packet
  BY <1>1, PopFacts
<1>3. g \in Group /\ s \in Sdu /\ x = Data(g, s)
  BY <1>1, <1>2, PacketFacts
<1> HIDE DEF x, g, s
<1>4. to \in Group
  BY <1>3 DEF MaxRecvGroupnum, TypeOK
<1>5. (first /\ PollingGroup(g)) \in BOOLEAN /\ first \in BOOLEAN
  BY Zenon DEF FirstCopy, PollingGroup
<1>6. first <=> g \notin Received(p)
  BY DEF FirstCopy, Received
<1> HIDE DEF to, first
<1>7. k \in SUBSET Group /\ GoodBuffers(k, nr, c, t, reports[p], vrMs[p])
  <2>1. GoodBuffers(known[p], noReceive[p], complete[p], timer[p], reports[p], vrMs[p])
    BY DEF BufferInv
  <2>2. k \in SUBSET Group
    BY <1>3 DEF TypeOK
  <2>3. c = complete[p] \cup {g}
    BY <2>1, <1>6 DEF GoodBuffers, Received
  <2> HIDE DEF c
  <2> QED
    BY <2>1, <2>2, <2>3 DEF GoodBuffers
<1>8. Received(p) \cup {g} = k \ nr
  BY DEF Received
<1> HIDE DEF k, nr, c, t
<1> DEFINE asked == first /\ PollingGroup(g)
<1> HIDE DEF asked
<1>9. PollIfAsked(p, asked, to, k, nr, c, t, Pop(p, l)) /\ asked \in BOOLEAN
  BY <1>1, <1>5 DEF asked
<1>10. /\ known' \in [Peer -> SUBSET Group]
       /\ noReceive' \in [Peer -> SUBSET Group]
       /\ complete' \in [Peer -> SUBSET Group]
       /\ timer' \in [Peer -> SUBSET Group]
       /\ reports' \in [Peer -> [Group -> 0..MaxReports]]
       /\ vrMs' \in [Peer -> 0..(MaxGroup + 1)]
       /\ BufferInv'
       /\ OnlyReportsAdded(p, Pop(p, l))
       /\ Received(p)' = k \ nr
       /\ Received(Other(p))' = Received(Other(p))
       /\ \A h \in k \ nr : reports'[p][h] = reports[p][h]
       /\ reports'[Other(p)] = reports[Other(p)]
  BY <1>2, <1>4, <1>7, <1>9, PollStep
<1>11. TypeOK'
  <2>1. groupnum' \in [Peer -> 0..(MaxGroup + 1)] /\ maxRecv' \in [Peer -> Group]
    BY <1>1, <1>3, <1>4, ConstantAssumption, SMTT(20) DEF TypeOK, Group
  <2>2. /\ ifTransmitSdu' \in [Peer -> BOOLEAN]
        /\ ifSendArq' \in [Peer -> BOOLEAN]
    BY <1>1, <1>5 DEF TypeOK
  <2>3. upper' \in [Peer -> [Sdu -> Nat]]
    BY <1>1, <1>3 DEF TypeOK
  <2> QED
    BY <2>1, <2>2, <2>3, <1>1, <1>10 DEF TypeOK, OnlyReportsAdded, Legs
<1>12. \A r \in Peer : \A h \in Group : \A v \in Sdu :
         Carried(r, h, v)' => Carried(r, h, v)
  <2> SUFFICES ASSUME NEW r \in Peer, NEW h \in Group, NEW v \in Sdu,
                      Carried(r, h, v)'
               PROVE  Carried(r, h, v)
    OBVIOUS
  <2>1. InFlight(r)' \subseteq InFlight(r) \cup {Report(i) : i \in Group}
    BY <1>0, <1>2, <1>10 DEF OnlyReportsAdded, InFlight, Rlc
  <2>2. Data(h, v) \notin {Report(i) : i \in Group}
    BY PacketFacts
  <2> QED
    BY <2>1, <2>2, <1>1 DEF Carried
<1>13. \A r \in Peer : Received(r) \subseteq Received(r)'
  BY <1>0, <1>8, <1>10
<1>14. Carried(Other(p), g, s)
  BY <1>2, <1>3 DEF Carried
<1>15. SduInv'
  <2>1. CASE ~first
    <3>1. upper' = upper /\ sent' = sent
      BY <2>1, <1>1
    <3> QED
      BY <3>1, <1>12, <1>13, SduFrame
  <2>2. CASE first
    <3> SUFFICES ASSUME NEW r \in Peer, NEW v \in Sdu
                 PROVE  /\ upper'[Other(r)][v] <= 1
                        /\ v > sent'[r] => upper'[Other(r)][v] = 0
                        /\ \A h \in Group :
                             Carried(r, h, v)' =>
                               /\ v <= sent'[r]
                               /\ upper'[Other(r)][v] > 0 => h \in Received(Other(r))'
                               /\ \A i \in Group : Carried(r, i, v)' => h = i
      BY DEF SduInv
    <3>0. Other(r) \in Peer
      BY Peers
    <3>1. /\ upper[Other(r)][v] <= 1
          /\ v > sent[r] => upper[Other(r)][v] = 0
          /\ \A h \in Group :
               Carried(r, h, v) =>
                 /\ v <= sent[r]
                 /\ upper[Other(r)][v] > 0 => h \in Received(Other(r))
                 /\ \A i \in Group : Carried(r, i, v) => h = i
      BY DEF SduInv
    <3>2. upper' = [upper EXCEPT ![p][s] = @ + 1]
      BY <2>2, <1>1
    <3>3. CASE r = Other(p) /\ v = s
      <4>1. Other(r) = p
        BY <3>3, <1>0
      <4>2. /\ s <= sent[r]
            /\ upper[p][s] > 0 => g \in Received(p)
            /\ \A i \in Group : Carried(r, i, s) => g = i
        BY <3>1, <3>3, <4>1, <1>3, <1>14
      <4>3. upper[p][s] = 0
        BY <4>2, <2>2, <1>3, <1>6, SMTT(20) DEF TypeOK
      <4>4. upper'[p][s] = 1
        BY <4>3, <3>2, <1>3 DEF TypeOK
      <4>5. g \in Received(p)'
        BY <1>8, <1>10
      <4>6. s \in Nat /\ sent[r] \in Nat
        BY <1>3 DEF TypeOK, Sdu
      <4> QED
        BY <3>1, <3>3, <4>1, <4>2, <4>4, <4>5, <4>6, <1>1, <1>12
    <3>4. CASE ~(r = Other(p) /\ v = s)
      <4>1. upper'[Other(r)][v] = upper[Other(r)][v]
        BY <3>0, <3>2, <3>4, <1>0, <1>3 DEF TypeOK
      <4> QED
        BY <3>0, <3>1, <4>1, <1>1, <1>12, <1>13
    <3> QED
      BY <3>3, <3>4
  <2> QED
    BY <2>1, <2>2
<1>16. \A r \in Peer : \A h \in Received(r) : reports'[r][h] = reports[r][h]
  BY <1>0, <1>8, <1>10
<1> QED
  BY <1>10, <1>11, <1>15, <1>16

\* The answer to a report: a copy of the SDU kept under its group may appear on
\* both legs of the answering peer, and nothing else changes.
LEMMA AnswerFacts ==
  ASSUME TypeOK, NEW p \in Peer, NEW g \in Group, NEW q0 \in Legs,
         NEW q \in MakeCopyArqSendPacket(p, g, q0)
  PROVE  /\ q \in Legs
         /\ q[Other(p)] = q0[Other(p)]
         /\ \A i \in Rlc : Packets(q[p][i]) \subseteq
                             Packets(q0[p][i]) \cup {Data(g, encoding[p][g])}
<1>0. Other(p) \in Peer /\ Other(p) # p
  BY Peers
<1>1. CASE encoding[p][g] = NoSdu
  BY <1>1 DEF MakeCopyArqSendPacket
<1>2. CASE encoding[p][g] # NoSdu
  <2> DEFINE x == Data(g, encoding[p][g])
  <2>1. x \in Packet
    BY <1>2, PacketFacts DEF TypeOK
  <2>2. q0[p][1] \in Seq(Packet) /\ q0[p][2] \in Seq(Packet)
    BY DEF Legs, Rlc
  <2> HIDE DEF x
  <2>3. PICK i \in TopPlaces(q0[p][1]), j \in TopPlaces(q0[p][2]) :
          q = [q0 EXCEPT ![p][1] = InsertAfter(@, i, x),
                         ![p][2] = InsertAfter(@, j, x)]
    BY <1>2 DEF MakeCopyArqSendPacket, x
  <2> DEFINE a == InsertAfter(q0[p][1], i, x)
             b == InsertAfter(q0[p][2], j, x)
  <2>4. /\ a \in Seq(Packet) /\ Packets(a) \subseteq Packets(q0[p][1]) \cup {x}
        /\ b \in Seq(Packet) /\ Packets(b) \subseteq Packets(q0[p][2]) \cup {x}
    BY <2>1, <2>2, InsertPackets
  <2>5. q = [q0 EXCEPT ![p][1] = a, ![p][2] = b]
    BY <2>3 DEF Legs, Rlc
  <2> HIDE DEF a, b
  <2>6. /\ q \in Legs /\ q[Other(p)] = q0[Other(p)]
        /\ q[p][1] = a /\ q[p][2] = b
    BY <2>4, <2>5, <1>0 DEF Legs, Rlc
  <2> QED
    BY <2>4, <2>6 DEF Rlc, x
<1> QED
  BY <1>1, <1>2

\* Receiving a status report keeps the invariant, whatever the flags left by
\* the last data packet are.
LEMMA ReceiveReportInv ==
  ASSUME Inv, NEW p \in Peer, NEW l \in Rlc, ReceiveReport(p, l)
  PROVE  Inv' /\ \A r \in Peer : \A h \in Received(r) : reports'[r][h] = reports[r][h]
<1> USE DEF Inv
<1> DEFINE x == Head(Arrived(p, l))
           t == timer[p] \ {groupnum[p]}
<1>0. Other(p) \in Peer /\ Other(p) # p /\ Peer = {p, Other(p)}
  BY Peers
<1>1. /\ Arrived(p, l) # <<>>
      /\ reportUp' = IF ifTransmitSdu[p] THEN reportUp \cup {p} ELSE reportUp
      /\ UNCHANGED <<groupnum, maxRecv, ifTransmitSdu, ifSendArq, encoding,
                     losses, sent, upper>>
      /\ \E q \in MakeCopyArqSendPacket(p, x.group, Pop(p, l)) :
           PollIfAsked(p, ifSendArq[p], maxRecv[p], known[p], noReceive[p],
                       complete[p], t, q)
  BY DEF ReceiveReport, stopArqTimer
<1>2. /\ Pop(p, l) \in Legs /\ Pop(p, l)[p] = leg[p]
      /\ \A i \in Rlc : Packets(Pop(p, l)[Other(p)][i]) \subseteq
                          Packets(leg[Other(p)][i])
      /\ x \in Packet
  BY <1>1, PopFacts
<1>3. x.group \in Group
  BY <1>2, PacketFacts
<1> DEFINE g == x.group
<1> HIDE DEF g, x
<1>4. PICK q \in MakeCopyArqSendPacket(p, g, Pop(p, l)) :
        PollIfAsked(p, ifSendArq[p], maxRecv[p], known[p], noReceive[p],
                    complete[p], t, q)
  BY <1>1 DEF g
<1>5. /\ q \in Legs
      /\ q[Other(p)] = Pop(p, l)[Other(p)]
      /\ \A i \in Rlc : Packets(q[p][i]) \subseteq
                          Packets(leg[p][i]) \cup {Data(g, encoding[p][g])}
  <2>1. g \in Group
    BY <1>3 DEF g
  <2>2. /\ q \in Legs
        /\ q[Other(p)] = Pop(p, l)[Other(p)]
        /\ \A i \in Rlc : Packets(q[p][i]) \subseteq
                            Packets(Pop(p, l)[p][i]) \cup {Data(g, encoding[p][g])}
    BY <2>1, <1>2, AnswerFacts
  <2> QED
    BY <2>2, <1>2
<1>6. GoodBuffers(known[p], noReceive[p], complete[p], t, reports[p], vrMs[p])
  BY DEF BufferInv, GoodBuffers
<1>7. ifSendArq[p] \in BOOLEAN /\ maxRecv[p] \in Group /\ known[p] \in SUBSET Group
  BY DEF TypeOK
<1> HIDE DEF t
<1>8. /\ known' \in [Peer -> SUBSET Group]
      /\ noReceive' \in [Peer -> SUBSET Group]
      /\ complete' \in [Peer -> SUBSET Group]
      /\ timer' \in [Peer -> SUBSET Group]
      /\ reports' \in [Peer -> [Group -> 0..MaxReports]]
      /\ vrMs' \in [Peer -> 0..(MaxGroup + 1)]
      /\ BufferInv'
      /\ OnlyReportsAdded(p, q)
      /\ Received(p)' = known[p] \ noReceive[p]
      /\ Received(Other(p))' = Received(Other(p))
      /\ \A h \in known[p] \ noReceive[p] : reports'[p][h] = reports[p][h]
      /\ reports'[Other(p)] = reports[Other(p)]
  BY <1>4, <1>5, <1>6, <1>7, PollStep
<1>9. TypeOK'
  BY <1>1, <1>8 DEF TypeOK, OnlyReportsAdded, Legs
<1>10. \A r \in Peer : Received(r)' = Received(r)
  BY <1>0, <1>8 DEF Received
<1>11. ASSUME NEW r \in Peer, NEW h \in Group, NEW v \in Sdu, Carried(r, h, v)'
       PROVE  Carried(r, h, v)
  <2>1. CASE r = Other(p)
    <3>1. InFlight(r)' \subseteq InFlight(r)
      BY <2>1, <1>2, <1>5, <1>8 DEF OnlyReportsAdded, InFlight, Rlc
    <3> QED
      BY <3>1, <1>1, <1>11 DEF Carried
  <2>2. CASE r = p
    <3>1. InFlight(p)' \subseteq InFlight(p) \cup {Data(g, encoding[p][g])}
                                           \cup {Report(i) : i \in Group}
      BY <1>5, <1>8 DEF OnlyReportsAdded, InFlight, Rlc
    <3>2. Data(h, v) \notin {Report(i) : i \in Group}
      BY PacketFacts
    <3>3. Data(h, v) = Data(g, encoding[p][g]) => h = g /\ v = encoding[p][g]
      BY PacketFacts
    <3> QED
      BY <2>2, <3>1, <3>2, <3>3, <1>1, <1>11 DEF Carried
  <2> QED
    BY <2>1, <2>2, <1>0
<1>12. SduInv'
  BY <1>1, <1>10, <1>11, SduFrame
<1>13. \A r \in Peer : \A h \in Received(r) : reports'[r][h] = reports[r][h]
  BY <1>0, <1>8 DEF Received
<1> QED
  BY <1>8, <1>9, <1>12, <1>13

-----------------------------------------------------------------------------
(* The theorems. *)

\* Every step of the specification keeps the invariant and asks for no group
\* that was received.
LEMMA NextInv ==
  ASSUME Inv, [Next]_vars
  PROVE  Inv' /\ \A r \in Peer : \A h \in Received(r) : reports'[r][h] = reports[r][h]
<1>1. CASE UNCHANGED vars
  <2>1. UNCHANGED <<groupnum, encoding, known, noReceive, complete, timer,
                    reports, vrMs, maxRecv, ifTransmitSdu, ifSendArq, leg,
                    losses, sent, upper, reportUp>>
    BY <1>1 DEF vars, copyVars
  <2>2. TypeOK'
    BY <2>1 DEF Inv, TypeOK
  <2>3. BufferInv'
    BY <2>1 DEF Inv, BufferInv
  <2>4. SduInv'
    <3>1. \A p \in Peer : Received(p)' = Received(p)
      BY <2>1 DEF Received
    <3>2. \A p \in Peer : \A g \in Group : \A s \in Sdu :
            Carried(p, g, s)' => Carried(p, g, s)
      BY <2>1 DEF Carried, InFlight
    <3> QED
      BY <2>1, <3>1, <3>2, SduFrame DEF Inv
  <2> QED
    BY <2>1, <2>2, <2>3, <2>4 DEF Inv
<1>2. ASSUME NEW p \in Peer, TriggerDoTransmitPdcpSdu(p)
      PROVE  Inv' /\ reports' = reports
  BY <1>2, SendInv DEF TriggerDoTransmitPdcpSdu
<1>3. ASSUME NEW p \in Peer, NEW l \in Rlc, LosePdu(p, l)
      PROVE  Inv' /\ reports' = reports
  BY <1>3, LoseInv DEF LosePdu, copyVars
<1> QED
  BY <1>1, <1>2, <1>3, ReceiveDataInv, ReceiveReportInv, ExpireInv DEF Next

\* The inductive invariant holds of every reachable state, for any number of
\* groups, SDUs, losses and reports, and for one or two sending ends.
THEOREM InvariantHolds == Spec => []Inv
<1>1. Init => Inv
  BY InitInv
<1>2. Inv /\ [Next]_vars => Inv'
  BY NextInv
<1> QED
  BY <1>1, <1>2, PTL DEF Spec

\* The model is type correct: the counters of CopyControl stay in range and the
\* legs hold packets only.
THEOREM TypeCorrect == Spec => []TypeOK
<1>1. Inv => TypeOK
  BY DEF Inv
<1> QED
  BY <1>1, InvariantHolds, PTL

\* TriggerRecvPdcpSdu never hands an SDU up twice, even when both ends send and
\* group numbers are reused.
THEOREM AtMostOnceHolds == Spec => []AtMostOnce
<1>1. Inv => AtMostOnce
  <2> SUFFICES ASSUME Inv, NEW p \in Peer, NEW s \in Sdu
               PROVE  upper[p][s] <= 1
    BY DEF AtMostOnce
  <2>1. Other(p) \in Peer /\ Other(Other(p)) = p
    BY Peers
  <2> QED
    BY <2>1 DEF Inv, SduInv
<1> QED
  BY <1>1, InvariantHolds, PTL

\* A retry timer runs only for a group that is missing and not given up.
THEOREM TimerOnlyWhileMissingHolds == Spec => []TimerOnlyWhileMissing
<1>1. Inv => TimerOnlyWhileMissing
  BY DEF Inv, BufferInv, GoodBuffers, TimerOnlyWhileMissing
<1> QED
  BY <1>1, InvariantHolds, PTL

\* m_ncVrMs never moves past a group that was neither received nor asked for
\* MaxReports times.
THEOREM PassedGroupsSettledHolds == Spec => []PassedGroupsSettled
<1>1. Inv => PassedGroupsSettled
  <2> SUFFICES ASSUME Inv, NEW p \in Peer, NEW g \in 0..(vrMs[p] - 1)
               PROVE  g \in Received(p) \/ reports[p][g] = MaxReports
    BY DEF PassedGroupsSettled
  <2>1. GoodBuffers(known[p], noReceive[p], complete[p], timer[p], reports[p], vrMs[p])
    BY DEF Inv, BufferInv
  <2> QED
    BY <2>1 DEF GoodBuffers, Received
<1> QED
  BY <1>1, InvariantHolds, PTL

\* No poll and no late timer sends a status report for a received group.
THEOREM ReceivedNeverRequestedHolds == Spec => ReceivedNeverRequested
<1>1. Inv /\ [Next]_vars =>
        [\A p \in Peer : \A g \in Received(p) : reports'[p][g] = reports[p][g]]_vars
  BY NextInv
<1> QED
  BY <1>1, InvariantHolds, PTL DEF Spec, ReceivedNeverRequested

\* What a received data packet does at the interface to the upper layers: it is
\* swallowed, or it is an accepted SDU that goes up for the first time.
LEMMA HandUpFacts ==
  ASSUME Inv, NEW p \in Peer, NEW l \in Rlc, ReceiveData(p, l)
  PROVE  /\ sent' = sent
         /\ \/ upper' = upper
            \/ \E s \in Sdu : /\ s <= sent[Other(p)]
                              /\ upper[p][s] = 0
                              /\ upper' = [upper EXCEPT ![p][s] = 1]
<1> USE DEF Inv
<1> DEFINE x == Head(Arrived(p, l))
           g == x.group
           s == x.sdu
<1>0. Other(p) \in Peer /\ Other(Other(p)) = p
  BY Peers
<1>1. /\ Arrived(p, l) # <<>> /\ x.kind = "data" /\ sent' = sent
      /\ upper' = IF FirstCopy(p, g) THEN [upper EXCEPT ![p][s] = @ + 1] ELSE upper
  BY DEF ReceiveData
<1>2. x \in InFlight(Other(p)) /\ x \in Packet
  BY <1>1, PopFacts
<1>3. g \in Group /\ s \in Sdu /\ x = Data(g, s)
  BY <1>1, <1>2, PacketFacts
<1> HIDE DEF x, g, s
<1>4. Carried(Other(p), g, s)
  BY <1>2, <1>3 DEF Carried
<1>5. s <= sent[Other(p)] /\ (upper[p][s] > 0 => g \in Received(p))
  BY <1>0, <1>3, <1>4 DEF SduInv
<1>6. CASE FirstCopy(p, g)
  <2>1. upper[p][s] = 0
    BY <1>3, <1>5, <1>6 DEF FirstCopy, Received, TypeOK
  <2>2. upper' = [upper EXCEPT ![p][s] = 1]
    BY <2>1, <1>1, <1>3, <1>6 DEF TypeOK
  <2> QED
    BY <2>1, <2>2, <1>1, <1>3, <1>5
<1> QED
  BY <1>1, <1>6

\* m_IfTransmitSduFlag is set only by a data packet that goes up.
FlagInv == \A p \in Peer : ifTransmitSdu[p] => \E s \in Sdu : upper[p][s] > 0

\* Every step keeps it: the flag is set together with the hand-over.
LEMMA FlagStep ==
  ASSUME Inv, FlagInv, [Next]_vars
  PROVE  FlagInv'
PROOF
<1>0. /\ ifTransmitSdu \in [Peer -> BOOLEAN] /\ upper \in [Peer -> [Sdu -> Nat]]
  BY DEF Inv, TypeOK
<1>1. ASSUME UNCHANGED <<ifTransmitSdu, upper>> PROVE FlagInv'
  BY <1>1 DEF FlagInv
<1>2. ASSUME NEW p \in Peer, NEW l \in Rlc, ReceiveData(p, l) PROVE FlagInv'
  <2> DEFINE x == Head(Arrived(p, l))
             g == x.group
             s == x.sdu
  <2>1. /\ Arrived(p, l) # <<>> /\ x.kind = "data"
        /\ upper' = IF FirstCopy(p, g) THEN [upper EXCEPT ![p][s] = @ + 1] ELSE upper
        /\ ifTransmitSdu' = [ifTransmitSdu EXCEPT ![p] = FirstCopy(p, g)]
    BY <1>2 DEF ReceiveData, RecvAndSave
  <2>2. x \in Packet
    BY <2>1, PopFacts DEF Inv
  <2>3. s \in Sdu
    BY <2>1, <2>2, PacketFacts
  <2> HIDE DEF x, g, s
  <2>4. CASE ~FirstCopy(p, g)
    <3>1. upper' = upper /\ \A r \in Peer : ifTransmitSdu'[r] => ifTransmitSdu[r]
      BY <1>0, <2>1, <2>4
    <3> QED BY <3>1 DEF FlagInv
  <2>5. CASE FirstCopy(p, g)
    <3>1. upper'[p][s] = upper[p][s] + 1 /\ upper[p][s] \in Nat
      BY <1>0, <2>1, <2>3, <2>5
    <3>2. \A r \in Peer : r # p =>
            upper'[r] = upper[r] /\ ifTransmitSdu'[r] = ifTransmitSdu[r]
      BY <1>0, <2>1, <2>5
    <3>3. upper'[p][s] > 0
      BY <3>1
    <3> QED BY <2>3, <3>2, <3>3 DEF FlagInv
  <2> QED BY <2>4, <2>5
<1>3. ASSUME NEW p \in Peer, NEW l \in Rlc, ReceiveReport(p, l) \/ LosePdu(p, l)
      PROVE  FlagInv'
  BY <1>1, <1>3 DEF ReceiveReport, LosePdu, copyVars
<1>4. ASSUME NEW p \in Peer, TriggerDoTransmitPdcpSdu(p) PROVE FlagInv'
  BY <1>1, <1>4 DEF TriggerDoTransmitPdcpSdu
<1>5. ASSUME NEW p \in Peer, NEW g \in Group, CopyExpireStatusReportTimer(p, g)
      PROVE  FlagInv'
  BY <1>1, <1>5 DEF CopyExpireStatusReportTimer
<1>6. CASE UNCHANGED vars
  BY <1>1, <1>6 DEF vars, copyVars
<1> QED BY <1>2, <1>3, <1>4, <1>5, <1>6 DEF Next

\* It holds in every behaviour.
LEMMA FlagInvariance == Spec => []FlagInv
PROOF
<1>1. Init => FlagInv
  BY DEF Init, FlagInv
<1>2. Inv /\ FlagInv /\ [Next]_vars => FlagInv'
  BY FlagStep
<1> QED BY <1>1, <1>2, InvariantHolds, PTL DEF Spec

\* A status report goes up only at an end that has handed up an SDU.
LEMMA ReportUpFacts ==
  ASSUME Inv, FlagInv, NEW p \in Peer, NEW l \in Rlc, ReceiveReport(p, l)
  PROVE  /\ UNCHANGED <<sent, upper>>
         /\ \/ reportUp' = reportUp
            \/ /\ reportUp' = reportUp \cup {p}
               /\ \E s \in Sdu : upper[p][s] = 1
PROOF
<1>1. /\ UNCHANGED <<sent, upper>>
      /\ reportUp' = IF ifTransmitSdu[p] THEN reportUp \cup {p} ELSE reportUp
  BY DEF ReceiveReport
<1>2. ASSUME ifTransmitSdu[p] PROVE \E s \in Sdu : upper[p][s] = 1
  <2>1. PICK s \in Sdu : upper[p][s] > 0
    BY <1>2 DEF FlagInv
  <2>2. Other(p) \in Peer /\ Other(Other(p)) = p
    BY Peers
  <2>3. upper[p][s] <= 1 /\ upper[p][s] \in Nat
    BY <2>2 DEF Inv, SduInv, TypeOK
  <2>4. upper[p][s] = 1
    BY <2>1, <2>3
  <2> QED BY <2>4
<1> QED BY <1>1, <1>2

\* Duplication, polling, retransmission and loss are visible above PDCP only as
\* an SDU that goes up once, late or never, and as a status report that goes up
\* at an end that has handed up an SDU: the composition of the two PDCP entities
\* and their RLC legs refines the abstract bearer.
THEOREM ImplementsBearerHolds == Spec => ImplementsBearer
<1>1. Init => Bearer!Init
  BY DEF Init, Bearer!Init, Bearer!End, Peer, Sdu
<1>2. Inv /\ FlagInv /\ [Next]_vars => [Bearer!Next]_(Bearer!vars)
  <2> SUFFICES ASSUME Inv, FlagInv, [Next]_vars
               PROVE  Bearer!Next \/ UNCHANGED Bearer!vars
    OBVIOUS
  <2>0. \A p : Bearer!Far(p) = Other(p)
    BY DEF Bearer!Far, Other
  <2>1. CASE UNCHANGED vars
    BY <2>1 DEF vars, Bearer!vars
  <2>2. ASSUME NEW p \in Peer, TriggerDoTransmitPdcpSdu(p)
        PROVE  Bearer!Next
    <3>1. Bearer!Accept(p)
      BY <2>2 DEF TriggerDoTransmitPdcpSdu, Bearer!Accept, Inv, TypeOK
    <3> QED
      BY <3>1 DEF Bearer!Next, Bearer!End, Peer
  <2>3. ASSUME NEW p \in Peer, NEW l \in Rlc, ReceiveData(p, l)
        PROVE  Bearer!Next \/ UNCHANGED Bearer!vars
    <3>0. reportUp' = reportUp
      BY <2>3 DEF ReceiveData
    <3>1. CASE upper' = upper
      BY <2>3, <3>0, <3>1, HandUpFacts DEF Bearer!vars
    <3>2. CASE upper' # upper
      <4>1. sent' = sent
        BY <2>3, HandUpFacts
      <4>2. PICK s \in Sdu : /\ s <= sent[Other(p)]
                             /\ upper[p][s] = 0
                             /\ upper' = [upper EXCEPT ![p][s] = 1]
        BY <2>3, <3>2, HandUpFacts
      <4>3. Bearer!HandUp(p, s)
        BY <2>0, <3>0, <4>1, <4>2 DEF Bearer!HandUp
      <4> QED
        BY <4>3 DEF Bearer!Next, Bearer!End, Peer, Sdu
    <3> QED
      BY <3>1, <3>2
  <2>4. ASSUME NEW p \in Peer, NEW l \in Rlc, LosePdu(p, l)
        PROVE  UNCHANGED Bearer!vars
    BY <2>4 DEF LosePdu, Bearer!vars
  <2>5. ASSUME NEW p \in Peer, NEW g \in Group, CopyExpireStatusReportTimer(p, g)
        PROVE  UNCHANGED Bearer!vars
    BY <2>5 DEF CopyExpireStatusReportTimer, Bearer!vars
  <2>6. ASSUME NEW p \in Peer, NEW l \in Rlc, ReceiveReport(p, l)
        PROVE  Bearer!Next \/ UNCHANGED Bearer!vars
    <3>1. CASE reportUp' = reportUp
      BY <2>6, <3>1, ReportUpFacts DEF Bearer!vars
    <3>2. CASE reportUp' # reportUp
      <4>1. /\ UNCHANGED <<sent, upper>> /\ reportUp' = reportUp \cup {p}
            /\ \E s \in Sdu : upper[p][s] = 1
        BY <2>6, <3>2, ReportUpFacts
      <4>2. Bearer!HandUpForeign(p)
        BY <4>1 DEF Bearer!HandUpForeign, Sdu
      <4> QED
        BY <4>2 DEF Bearer!Next, Bearer!End, Peer
    <3> QED
      BY <3>1, <3>2
  <2> QED
    BY <2>1, <2>2, <2>3, <2>4, <2>5, <2>6 DEF Next
<1> QED
  BY <1>1, <1>2, InvariantHolds, FlagInvariance, PTL
  DEF Spec, ImplementsBearer, Bearer!Spec

=============================================================================
