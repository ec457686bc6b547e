------------------------------ MODULE PdcpCopy ------------------------------
(***************************************************************************)
(* PDCP packet duplication with selective retransmission: the CopyEnable   *)
(* branches of LtePdcp together with CopyControl, at the two ends of one   *)
(* data radio bearer.  Every SDU is a "group": one copy goes to each of    *)
(* the bearer's two RLC UM entities, the receiver hands the first copy to  *)
(* arrive to the upper layer, and every PollingInterval groups it asks for *)
(* the groups it misses with status reports guarded by a retry timer.      *)
(*                                                                         *)
(* Both ends run the same code with the same object, so all the state is   *)
(* indexed by peer.  Source is the set of ends whose application sends.    *)
(***************************************************************************)
EXTENDS Integers, Sequences, FiniteSets

CONSTANTS
  Enb, Ue,            \* the two ends of the bearer
  Source,             \* the ends whose upper layer sends SDUs
  PollingInterval,    \* m_pollingInterval (10 in the code)
  BatchLimit,         \* status reports one poll may send (3 in the code)
  MaxReports,         \* status reports one group may cost (3 in the code)
  InitialIfSendArq,   \* values m_IfSendArq may hold: no constructor sets it
  MaxSdu,             \* bound: SDUs each source sends
  MaxGroup,           \* bound: largest group number used
  MaxLoss             \* bound: PDUs the two RLC legs lose

Peer == {Enb, Ue}
Group == 0..MaxGroup
Sdu == 1..MaxSdu
NoSdu == 0
Rlc == {1, 2}

ASSUME PeerAssumption == Enb # Ue /\ Source \subseteq Peer

ASSUME ConstantAssumption ==
  /\ PollingInterval \in Nat \ {0}
  /\ BatchLimit \in Nat \ {0}
  /\ MaxReports \in Nat
  /\ InitialIfSendArq \subseteq BOOLEAN
  /\ MaxSdu \in Nat /\ MaxGroup \in Nat /\ MaxLoss \in Nat

Other(p) == IF p = Enb THEN Ue ELSE Enb

(***************************************************************************)
(* What an RLC leg carries: an SDU under its group number, or a status     *)
(* report that asks for a group (NcHeader with DorC = 1).                  *)
(***************************************************************************)
Data(g, s) == [kind |-> "data", group |-> g, sdu |-> s]
Report(g) == [kind |-> "report", group |-> g, sdu |-> NoSdu]
Packet == {Data(g, s) : g \in Group, s \in Sdu} \cup {Report(g) : g \in Group}

VARIABLES
  \* CopyControl, sending side
  groupnum,       \* m_groupnum: one field, used by both sides
  encoding,       \* m_ncEncodingBufferList: first packet saved per group
  \* CopyControl, receiving side (m_ncDecodingBufferList, field by field)
  known,          \* groups that have a decoding buffer
  noReceive,      \* m_noReceive: buffer made by a poll, nothing received yet
  complete,       \* m_ncComplete
  timer,          \* groups whose m_statusReportTimer is running
  reports,        \* num_statusReport
  vrMs,           \* m_ncVrMs
  maxRecv,        \* m_MaxRecvGroupnum
  ifTransmitSdu,  \* m_IfTransmitSduFlag
  ifSendArq,      \* m_IfSendArq
  \* the two RLC legs of each direction, and the channel's loss count
  leg, losses,
  \* history: SDUs accepted, times each SDU of the peer was handed up,
  \* and peers that handed a status report up
  sent, upper, reportUp

copyVars == <<groupnum, encoding, known, noReceive, complete, timer, reports,
              vrMs, maxRecv, ifTransmitSdu, ifSendArq>>
vars == <<copyVars, leg, losses, sent, upper, reportUp>>

\* Groups a peer has really received.
Received(p) == known[p] \ noReceive[p]

Init ==
  /\ groupnum = [p \in Peer |-> 0]
  /\ encoding = [p \in Peer |-> [g \in Group |-> NoSdu]]
  /\ known = [p \in Peer |-> {}]
  /\ noReceive = [p \in Peer |-> {}]
  /\ complete = [p \in Peer |-> {}]
  /\ timer = [p \in Peer |-> {}]
  /\ reports = [p \in Peer |-> [g \in Group |-> 0]]
  /\ vrMs = [p \in Peer |-> 0]
  /\ maxRecv = [p \in Peer |-> 0]
  /\ ifTransmitSdu = [p \in Peer |-> FALSE]
  /\ ifSendArq \in [Peer -> InitialIfSendArq]
  /\ leg = [p \in Peer |-> [l \in Rlc |-> <<>>]]
  /\ losses = 0
  /\ sent = [p \in Peer |-> 0]
  /\ upper = [p \in Peer |-> [s \in Sdu |-> 0]]
  /\ reportUp = {}

-----------------------------------------------------------------------------
(***************************************************************************)
(* RLC legs.  leg[p][l] is everything p gave to its l-th RLC entity that   *)
(* has neither arrived nor been lost: RLC UM delivers in order with gaps.  *)
(***************************************************************************)
DoTransmitPdcpSdu(p, q, x) == [q EXCEPT ![p][1] = Append(@, x)]
DoTransmitPdcpSdu2(p, q, x) == [q EXCEPT ![p][2] = Append(@, x)]

InsertAfter(q, k, x) == SubSeq(q, 1, k) \o <<x>> \o SubSeq(q, k + 1, Len(q))

\* NcArqAddTop = 1: the RLC puts the packet behind the one at the head of its
\* buffer, or first in an empty buffer.  The packets in front of the buffer
\* are already on the air, so any place but the head is possible.
TopPlaces(q) == IF q = <<>> THEN {0} ELSE 1..Len(q)

SendSaveAndSetTime(p, g, s) ==
  IF encoding[p][g] = NoSdu THEN [encoding EXCEPT ![p][g] = s] ELSE encoding

\* Mutant: the group number is advanced before the second copy is made.
NextGroupRedundancePacket(p, g, enc) == Data(g + 1, enc[p][g])

\* The second copy is made from the first packet saved under the group.
MakeRedundancePacket(p, g, enc) == Data(g, enc[p][g])

TriggerDoTransmitPdcpSdu(p) ==
  LET g == groupnum[p]
      s == sent[p] + 1
      enc == SendSaveAndSetTime(p, g, s)
  IN /\ p \in Source
     /\ sent[p] < MaxSdu
     /\ g \in Group
     /\ encoding' = enc
     /\ leg' = DoTransmitPdcpSdu2(p, DoTransmitPdcpSdu(p, leg, Data(g, s)),
                                  MakeRedundancePacket(p, g, enc))
     /\ groupnum' = [groupnum EXCEPT ![p] = g + 1]
     /\ sent' = [sent EXCEPT ![p] = s]
     /\ UNCHANGED <<known, noReceive, complete, timer, reports, vrMs, maxRecv,
                    ifTransmitSdu, ifSendArq, losses, upper, reportUp>>

-----------------------------------------------------------------------------
(***************************************************************************)
(* CopySendArqReq.  The loop walks from m_ncVrMs to m_MaxRecvGroupnum.  An *)
(* idle group (incomplete, no timer running) is requested while it has     *)
(* reports left and is given up otherwise; the loop stops after BatchLimit *)
(* requests.  A group is visited iff fewer than BatchLimit groups before   *)
(* it were requested.                                                      *)
(***************************************************************************)
Idle(from, to, c, t) == {i \in from..to : i \notin c /\ i \notin t}

\* Mutant: off by one in the test of num_statusReport.
AskableOnceMore(p, from, to, c, t) ==
  {i \in Idle(from, to, c, t) : reports[p][i] <= MaxReports}

Askable(p, from, to, c, t) ==
  {i \in Idle(from, to, c, t) : reports[p][i] < MaxReports}

Visited(p, from, to, c, t) ==
  {i \in from..to :
     Cardinality({j \in Askable(p, from, to, c, t) : j < i}) < BatchLimit}

Requested(p, from, to, c, t) ==
  Askable(p, from, to, c, t) \cap Visited(p, from, to, c, t)

GivenUp(p, from, to, c, t) ==
  {i \in Idle(from, to, c, t) \cap Visited(p, from, to, c, t) :
     reports[p][i] >= MaxReports}

\* The sorted enumerations of a set of groups (there is exactly one).
InOrder(S) ==
  {s \in [1..Cardinality(S) -> S] :
     \A i, j \in 1..Cardinality(S) : i < j => s[i] < s[j]}

\* Mutant: m_ncVrMs is advanced once before the groups are looked at.
FirstIncompleteAfter(from, c) ==
  {n \in (from + 1)..(MaxGroup + 1) :
     n \notin c /\ \A m \in (from + 1)..(n - 1) : m \in c}

\* The place m_ncVrMs moves to: past the complete groups, one by one.
FirstIncomplete(from, c) ==
  {n \in from..(MaxGroup + 1) : n \notin c /\ \A m \in from..(n - 1) : m \in c}

\* One report per group of req, in order: sent on the first leg, counted, and
\* the group's retry timer started.
CopyArqReqSendOnce(p, t, q, req) ==
  /\ timer' = [timer EXCEPT ![p] = t \cup req]
  /\ reports' = [reports EXCEPT ![p] =
       [g \in Group |-> IF g \in req THEN @[g] + 1 ELSE @[g]]]
  /\ \E s \in InOrder(req) :
       leg' = [q EXCEPT ![p][1] = @ \o [i \in 1..Cardinality(req) |-> Report(s[i])]]

CopySendArqReq(p, to, k, nr, c, t, q) ==
  LET visited == Visited(p, vrMs[p], to, c, t)
      done == c \cup GivenUp(p, vrMs[p], to, c, t)
  IN /\ known' = [known EXCEPT ![p] = k \cup visited]
     /\ noReceive' = [noReceive EXCEPT ![p] = nr \cup (visited \ k)]
     /\ complete' = [complete EXCEPT ![p] = done]
     /\ \E n \in FirstIncomplete(vrMs[p], done) :
          vrMs' = [vrMs EXCEPT ![p] = n]
     /\ CopyArqReqSendOnce(p, t, q, Requested(p, vrMs[p], to, c, t))

\* The end of TriggerRecvPdcpSdu: the poll runs if m_IfSendArq says so.
PollIfAsked(p, asked, to, k, nr, c, t, q) ==
  \/ /\ asked
     /\ CopySendArqReq(p, to, k, nr, c, t, q)
  \/ /\ ~asked
     /\ known' = [known EXCEPT ![p] = k]
     /\ noReceive' = [noReceive EXCEPT ![p] = nr]
     /\ complete' = [complete EXCEPT ![p] = c]
     /\ timer' = [timer EXCEPT ![p] = t]
     /\ leg' = q
     /\ UNCHANGED <<reports, vrMs>>

\* Mutant: the timer keeps running when its group arrives.
leaveArqTimer(t, g) == t

\* stopArqTimer looks m_groupnum up.  When that group has no buffer the code
\* dereferences end(); with the class layout of CopyControl the timer read
\* there is the never written m_packetStatistic[2], that is: not running.
stopArqTimer(t, g) == t \ {g}

(***************************************************************************)
(* TriggerRecvPdcpSdu, reached from LtePdcp::DoReceivePdu with the packet  *)
(* at the head of one of the peer's legs.                                  *)
(***************************************************************************)
Arrived(p, l) == leg[Other(p)][l]
Pop(p, l) == [leg EXCEPT ![Other(p)][l] = Tail(@)]

\* Mutant: a group that was asked for counts as missing for good.
RequestedIsFirstCopy(p, g) == g \notin known[p] \/ reports[p][g] > 0

\* RecvAndSave lets a packet through when its group is new or was so far only
\* a placeholder made by a poll.
FirstCopy(p, g) == g \notin known[p] \/ g \in noReceive[p]
PollingGroup(g) == g % PollingInterval = 0
\* Mutant: the poll looks one group too far.
MaxRecvGroupnumAhead(p, g) ==
  IF g >= maxRecv[p] /\ g < MaxGroup THEN g + 1 ELSE maxRecv[p]
MaxRecvGroupnum(p, g) == IF g > maxRecv[p] THEN g ELSE maxRecv[p]

RecvAndSave(p, g) ==
  /\ groupnum' = [groupnum EXCEPT ![p] = g]
  /\ maxRecv' = [maxRecv EXCEPT ![p] = MaxRecvGroupnum(p, g)]
  /\ ifTransmitSdu' = [ifTransmitSdu EXCEPT ![p] = FirstCopy(p, g)]
  /\ ifSendArq' = [ifSendArq EXCEPT ![p] = FirstCopy(p, g) /\ PollingGroup(g)]

ReceiveData(p, l) ==
  LET x == Head(Arrived(p, l))
      g == x.group
  IN /\ Arrived(p, l) # <<>>
     /\ x.kind = "data"
     /\ RecvAndSave(p, g)
     /\ upper' = IF FirstCopy(p, g) THEN [upper EXCEPT ![p][x.sdu] = @ + 1]
                                    ELSE upper
     /\ PollIfAsked(p, FirstCopy(p, g) /\ PollingGroup(g), MaxRecvGroupnum(p, g),
                    known[p] \cup {g}, noReceive[p] \ {g},
                    IF FirstCopy(p, g) THEN complete[p] \cup {g} ELSE complete[p],
                    stopArqTimer(timer[p], g), Pop(p, l))
     /\ UNCHANGED <<encoding, losses, sent, reportUp>>

\* The retransmission that answers a report, on both legs, if the group is in
\* the encoding list.
MakeCopyArqSendPacket(p, g, q) ==
  IF encoding[p][g] = NoSdu
  THEN {q}
  ELSE {[q EXCEPT ![p][1] = InsertAfter(@, i, Data(g, encoding[p][g])),
                  ![p][2] = InsertAfter(@, j, Data(g, encoding[p][g]))] :
          i \in TopPlaces(q[p][1]), j \in TopPlaces(q[p][2])}

\* The Copy branch has no else: after answering, it goes on with the flags of
\* the last data packet, so it may hand the report itself up, stops the timer
\* of whatever group m_groupnum holds, and may poll again.
ReceiveReport(p, l) ==
  LET x == Head(Arrived(p, l))
  IN /\ Arrived(p, l) # <<>>
     /\ x.kind = "report"
     /\ reportUp' = IF ifTransmitSdu[p] THEN reportUp \cup {p} ELSE reportUp
     /\ UNCHANGED <<groupnum, maxRecv, ifTransmitSdu, ifSendArq, encoding,
                    losses, sent, upper>>
     /\ \E q \in MakeCopyArqSendPacket(p, x.group, Pop(p, l)) :
          PollIfAsked(p, ifSendArq[p], maxRecv[p],
                      known[p], noReceive[p], complete[p],
                      stopArqTimer(timer[p], groupnum[p]), q)

\* Mutant: the timer expires without asking again.
ExpireWithoutResend(p, g) ==
  /\ g \in timer[p]
  /\ timer' = [timer EXCEPT ![p] = @ \ {g}]
  /\ UNCHANGED <<groupnum, encoding, known, noReceive, complete, reports, vrMs,
                 maxRecv, ifTransmitSdu, ifSendArq, leg, losses, sent, upper,
                 reportUp>>

\* The event that expires is spent; a new one is scheduled with the resend.
CopyExpireStatusReportTimer(p, g) ==
  /\ g \in timer[p]
  /\ \/ /\ reports[p][g] < MaxReports
        /\ CopyArqReqSendOnce(p, timer[p], leg, {g})
     \/ /\ reports[p][g] >= MaxReports
        /\ timer' = [timer EXCEPT ![p] = @ \ {g}]
        /\ UNCHANGED <<reports, leg>>
  /\ UNCHANGED <<groupnum, encoding, known, noReceive, complete, vrMs, maxRecv,
                 ifTransmitSdu, ifSendArq, losses, sent, upper, reportUp>>

\* The radio or a full RLC buffer loses the next packet of a leg.
LosePdu(p, l) ==
  /\ losses < MaxLoss
  /\ Arrived(p, l) # <<>>
  /\ leg' = Pop(p, l)
  /\ losses' = losses + 1
  /\ UNCHANGED <<copyVars, sent, upper, reportUp>>

Next ==
  \E p \in Peer :
    \/ TriggerDoTransmitPdcpSdu(p)
    \/ \E l \in Rlc : ReceiveData(p, l) \/ ReceiveReport(p, l) \/ LosePdu(p, l)
    \/ \E g \in Group : CopyExpireStatusReportTimer(p, g)

Spec == Init /\ [][Next]_vars

\* The simulator runs every scheduled event, and the MAC keeps serving an RLC
\* entity that reports data: packets keep arriving and timers keep expiring.
Fairness ==
  \A p \in Peer :
    /\ \A l \in Rlc : WF_vars(ReceiveData(p, l) \/ ReceiveReport(p, l))
    /\ \A g \in Group : WF_vars(CopyExpireStatusReportTimer(p, g))

FairSpec == Spec /\ Fairness

-----------------------------------------------------------------------------
\* Type correctness: counters stay in range and every queue holds packets.
TypeOK ==
  /\ groupnum \in [Peer -> 0..(MaxGroup + 1)]
  /\ encoding \in [Peer -> [Group -> Sdu \cup {NoSdu}]]
  /\ known \in [Peer -> SUBSET Group]
  /\ noReceive \in [Peer -> SUBSET Group]
  /\ complete \in [Peer -> SUBSET Group]
  /\ timer \in [Peer -> SUBSET Group]
  /\ reports \in [Peer -> [Group -> 0..MaxReports]]
  /\ vrMs \in [Peer -> 0..(MaxGroup + 1)]
  /\ maxRecv \in [Peer -> Group]
  /\ ifTransmitSdu \in [Peer -> BOOLEAN]
  /\ ifSendArq \in [Peer -> BOOLEAN]
  /\ leg \in [Peer -> [Rlc -> Seq(Packet)]]
  /\ losses \in 0..MaxLoss
  /\ sent \in [Peer -> 0..MaxSdu]
  /\ upper \in [Peer -> [Sdu -> Nat]]
  /\ reportUp \subseteq Peer

\* Duplication over two legs, retransmission and late arrivals never make
\* TriggerRecvPdcpSdu hand the same SDU to the upper layer twice.
AtMostOnce == \A p \in Peer : \A s \in Sdu : upper[p][s] <= 1

Bearer == INSTANCE SduDelivery WITH
  Enb <- Enb, Ue <- Ue, MaxSdu <- MaxSdu, sent <- sent, upper <- upper,
  foreign <- reportUp

\* The two PDCP entities and their legs implement the abstract bearer: every
\* step accepts one SDU, hands one accepted SDU up for the first time, hands a
\* status report up at an end that has handed up an SDU before (the flags that
\* TriggerRecvPdcpSdu reads after a report), or is invisible to the upper layers.
ImplementsBearer == Bearer!Spec

\* CopyExpireStatusReportTimer resends without looking at m_ncComplete: that is
\* safe because a timer only runs for a group still missing and not given up.
TimerOnlyWhileMissing ==
  \A p \in Peer : timer[p] \subseteq noReceive[p] \ complete[p]

\* CopySendArqReq never revisits a group below m_ncVrMs: each of them was
\* received, or given up after MaxReports status reports.
PassedGroupsSettled ==
  \A p \in Peer : \A g \in 0..(vrMs[p] - 1) :
    g \in Received(p) \/ reports[p][g] = MaxReports

Packets(q) == {q[i] : i \in 1..Len(q)}
InFlight(p) == Packets(leg[p][1]) \cup Packets(leg[p][2])

\* With one sending end.  A status report on its way to that end asks for a
\* group it can retransmit: MakeCopyArqSendPacket finds it in the encoding list.
\* A report on its way to the other end, which has nothing to retransmit, is
\* there only if the uninitialised m_IfSendArq was TRUE, and asks for group 0.
OneWayReports ==
  \A p \in Peer : \A x \in InFlight(Other(p)) :
    x.kind = "report" =>
      IF p \in Source THEN encoding[p][x.group] # NoSdu
                      ELSE TRUE \in InitialIfSendArq /\ x.group = 0

\* A group number names one SDU: the copies of a group that are under way, and
\* the packet kept to retransmit it, are the same SDU.
OneSduPerGroup ==
  \A p \in Peer : \A x \in InFlight(p) :
    x.kind = "data" => x.sdu = encoding[p][x.group]

\* Only data packets go up: a packet with DorC = 1 is consumed by PDCP.  With
\* one sending end this holds if m_IfSendArq starts FALSE, and not otherwise.
ReportsStayInPdcp == reportUp = {}

\* A group that was received is never requested (again): no poll and no late
\* timer sends a status report for it.
ReceivedNeverRequested ==
  [][\A p \in Peer : \A g \in Received(p) : reports'[p][g] = reports[p][g]]_vars

\* Once a group has been requested it is received in the end, provided the
\* legs lose fewer packets than it takes to defeat the first transmission (two
\* copies) and each of the MaxReports requests.
RequestedThenReceived ==
  \A p \in Peer : \A g \in Group : g \in timer[p] ~> g \in Received(p)

\* The retry loop of every requested group ends: the timer stops for good with
\* the group received or its reports used up.
RetryLoopEnds ==
  \A p \in Peer : \A g \in Group :
    g \in timer[p] ~> [](g \notin timer[p] /\
                         (g \in Received(p) \/ reports[p][g] = MaxReports))

=============================================================================
