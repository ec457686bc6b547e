------------------------------- MODULE PdcpNc -------------------------------
(***************************************************************************)
(* PDCP network coding with selective retransmission: the NcEnable         *)
(* branches of LtePdcp together with NcControl, from the end that sends to *)
(* the end that receives.  SDUs are sent in groups of K originals followed *)
(* by N - K redundancy packets, alternating between two RLC entities.  The *)
(* receiver hands originals up as they come, "decodes" a group once it has *)
(* K packets of it, and on a polling packet asks for the older groups that *)
(* are still incomplete, stating how many packets of them it has.          *)
(*                                                                         *)
(* The coding coefficients are left out: the code draws them at random and *)
(* never reads them (CalulateDecodingRank counts packets).  Left out too is *)
(* which of the two RLC entities carries a packet: air is both of them.    *)
(***************************************************************************)
EXTENDS Integers, Sequences, FiniteSets, Bags

CONSTANTS
  K,            \* m_originalBlockSize (10 in the code)
  N,            \* m_encodingBlockSize (12 in the code)
  Lag,          \* a poll asks for groups up to m_groupnum - Lag (3)
  MinPoll,      \* no poll below this group number (4)
  BatchLimit,   \* status reports one poll may send (5)
  MaxReports,   \* status reports one group may cost (3)
  MaxGroup,     \* bound: largest group number
  MaxLoss,      \* bound: packets lost in both directions
  MaxAir        \* bound: packets on the air when an SDU is accepted

ASSUME NcAssumption ==
  /\ K \in Nat \ {0} /\ N \in Nat /\ K < N
  /\ Lag \in Nat /\ MinPoll \in Nat /\ MinPoll >= Lag
  /\ BatchLimit \in Nat \ {0} /\ MaxReports \in Nat
  /\ MaxGroup \in Nat /\ MaxLoss \in Nat /\ MaxAir \in Nat

Group == 0..MaxGroup
Original == 0..(K - 1)

(***************************************************************************)
(* Packets.  A retransmission has no sequence number of its own (the       *)
(* header default, 255): ReTx, or ReTxPoll for the last one of an answer.  *)
(* Redundancy packets and retransmissions carry the group's last original. *)
(***************************************************************************)
ReTx == N
ReTxPoll == N + 1
Packet == [group : Group, sn : 0..ReTxPoll]
Report == [group : Group, rank : 0..K]

Payload(x) == IF x.sn < K THEN x.sn ELSE K - 1
Polling(x) == x.sn = N - 1 \/ x.sn = ReTxPoll

VARIABLES
  \* NcControl at the sender
  txGroup,      \* m_groupnum
  saved,        \* originals of that group already saved and sent
  \* the radio: packets to the receiver, reports to the sender, losses
  air, back, losses,
  \* NcControl at the receiver; a group without a decoding buffer is not told
  \* apart from one whose buffer still has its initial values
  rxGroup,      \* m_groupnum
  vec,          \* m_ncVector: payloads of the group's packets, as received
  deliverdSN,   \* deliverdSN
  complete,     \* groups with m_ncComplete
  rank,         \* m_rank
  reports,      \* num_statusReport
  timer,        \* groups whose m_statusReportTimer is running
  vrMs,         \* m_ncVrMs
  \* what CopyExpireStatusReportTimer works on when the timer of NcControl
  \* calls it: see Expire
  strayCount, strayTimers,
  \* history: packets handed up per group, the originals among them, and the
  \* groups that were decoded
  handed, got, decoded

txVars == <<txGroup, saved>>
bufferVars == <<rxGroup, vec, deliverdSN, complete, rank, vrMs>>
strayVars == <<strayCount, strayTimers>>
history == <<handed, got, decoded>>
rxVars == <<bufferVars, reports, timer, strayVars, history>>
vars == <<txVars, rxVars, air, back, losses>>

Init ==
  /\ txGroup = 0 /\ saved = 0
  /\ air = EmptyBag /\ back = EmptyBag /\ losses = 0
  /\ rxGroup = 0 /\ vrMs = 0
  /\ complete = {} /\ timer = {} /\ decoded = {}
  /\ vec = [g \in Group |-> <<>>]
  /\ deliverdSN = [g \in Group |-> {}]
  /\ rank = [g \in Group |-> 0]
  /\ reports = [g \in Group |-> 0]
  /\ strayCount = 0 /\ strayTimers = EmptyBag
  /\ handed = [g \in Group |-> 0]
  /\ got = [g \in Group |-> {}]

-----------------------------------------------------------------------------
\* The packets of S, one each, given to the two RLC entities in turn.
ToogleSend(S) == air (+) SetToBag(S)

TriggerDoTransmitPdcpSdu ==
  LET original == [group |-> txGroup, sn |-> saved]
      redundancy == {[group |-> txGroup, sn |-> i] : i \in K..(N - 1)}
  IN /\ txGroup \in Group
     /\ BagCardinality(air) < MaxAir
     /\ \/ /\ saved + 1 < K
           /\ air' = ToogleSend({original})
           /\ saved' = saved + 1
           /\ UNCHANGED txGroup
        \/ /\ saved + 1 = K
           /\ air' = ToogleSend({original} \cup redundancy)
           /\ saved' = 0
           /\ txGroup' = txGroup + 1
     /\ UNCHANGED <<rxVars, back, losses>>

InEncodingList(g) == g < txGroup \/ (g = txGroup /\ saved > 0)

\* K - rank retransmissions of the packet at index K - 1 of the group's
\* vector, the last one polling.
MakeNcArqSendPacket(r) ==
  LET n == IF InEncodingList(r.group) THEN K - r.rank ELSE 0
      plain == [group |-> r.group, sn |-> ReTx]
      last == [group |-> r.group, sn |-> ReTxPoll]
  IN CASE n = 0 -> EmptyBag
       [] n = 1 -> SetToBag({last})
       [] n > 1 -> SetToBag({last}) (+) [x \in {plain} |-> n - 1]

ReceiveReport(r) ==
  /\ BagIn(r, back)
  /\ back' = back (-) SetToBag({r})
  /\ air' = air (+) MakeNcArqSendPacket(r)
  /\ UNCHANGED <<txVars, rxVars, losses>>

-----------------------------------------------------------------------------
(***************************************************************************)
(* NcSendArqReq walks from m_ncVrMs to m_groupnum - Lag.  An idle group is *)
(* requested while it has reports left and given up otherwise; the walk    *)
(* stops after BatchLimit requests.  c and t are the complete groups and   *)
(* the running timers when the walk begins.                                *)
(***************************************************************************)
\* Mutant: the walk goes one group past the polling one.
PollAhead(g) == vrMs..(IF g < MaxGroup THEN g + 1 ELSE g)

PollRange(g) == IF g < MinPoll THEN {} ELSE vrMs..(g - Lag)

Askable(R, c, t) == {i \in R : i \notin c /\ i \notin t /\ reports[i] < MaxReports}

Visited(R, c, t) ==
  {i \in R : Cardinality({j \in Askable(R, c, t) : j < i}) < BatchLimit}

Requested(R, c, t) == Askable(R, c, t) \cap Visited(R, c, t)

GivenUp(R, c, t) ==
  {i \in Visited(R, c, t) : i \notin c /\ i \notin t /\ reports[i] >= MaxReports}

\* Mutant: m_ncVrMs is advanced once before the groups are looked at.
FirstIncompleteAfter(c) ==
  {n \in (vrMs + 1)..(MaxGroup + 1) :
     n \notin c /\ \A m \in (vrMs + 1)..(n - 1) : m \in c}

FirstIncomplete(c) ==
  {n \in vrMs..(MaxGroup + 1) : n \notin c /\ \A m \in vrMs..(n - 1) : m \in c}

\* Mutant: the packet being received is counted twice.
RankOfNext(v) == IF Len(v) + 1 < K THEN Len(v) + 1 ELSE K

CalulateDecodingRank(v) == IF Len(v) < K THEN Len(v) ELSE K

\* Mutant: num_statusReport is not counted up.
SendOnceUncounted(S, t, rk) ==
  /\ back' = back (+) SetToBag({[group |-> i, rank |-> rk[i]] : i \in S})
  /\ reports' = reports
  /\ timer' = t \cup S

\* One status report per group of S.
NcArqReqSendOnce(S, t, rk) ==
  /\ back' = back (+) SetToBag({[group |-> i, rank |-> rk[i]] : i \in S})
  /\ reports' = [i \in Group |-> IF i \in S THEN reports[i] + 1 ELSE reports[i]]
  /\ timer' = t \cup S

NcSendArqReq(g, c, t, v, rk) ==
  LET R == PollRange(g)
      S == Requested(R, c, t)
      newRank == [i \in Group |->
                    IF i \in S THEN CalulateDecodingRank(v[i]) ELSE rk[i]]
  IN /\ complete' = c \cup GivenUp(R, c, t)
     /\ vrMs' \in IF g < MinPoll THEN {vrMs} ELSE FirstIncomplete(complete')
     /\ rank' = newRank
     /\ NcArqReqSendOnce(S, t, newRank)

-----------------------------------------------------------------------------
(***************************************************************************)
(* TriggerRecvPdcpSdu for a data packet: RecvAndSave, then the decoding if *)
(* the group now has K packets, stopArqTimer, and the poll.                *)
(***************************************************************************)
\* Mutant: packets of a finished group are saved and handed up again.
SaveAlways(x) == TRUE

\* RecvAndSave keeps a packet only while its group is not complete.
Saves(x) == x.group \notin complete

SavedVector(x) ==
  IF Saves(x) THEN Append(vec[x.group], Payload(x)) ELSE vec[x.group]

IfTransmitSdu(x) == Saves(x) /\ x.sn < K

IfDeocde(x) == x.group \notin complete /\ Len(SavedVector(x)) >= K

stopArqTimer(g) == timer \ {g}

\* Mutant: what was already delivered is handed up again.
DecodeEverything(v, delivered) ==
  [missing |-> Original, payloads |-> {v[j + 1] : j \in Original}]

\* NcDecode hands up, for every original j that was not delivered, a copy of
\* the j-th packet of the vector, and marks j delivered.
NcDecode(v, delivered) ==
  [missing |-> Original \ delivered,
   payloads |-> {v[j + 1] : j \in Original \ delivered}]

ReceiveData(x) ==
  LET g == x.group
      v == [vec EXCEPT ![g] = SavedVector(x)]
      raw == IF IfTransmitSdu(x) THEN {x.sn} ELSE {}
      direct == deliverdSN[g] \cup raw
      dec == IF IfDeocde(x) THEN NcDecode(v[g], direct)
                            ELSE [missing |-> {}, payloads |-> {}]
      c == IF IfDeocde(x) THEN complete \cup {g} ELSE complete
      rk == IF IfDeocde(x) THEN [rank EXCEPT ![g] = CalulateDecodingRank(v[g])]
                           ELSE rank
      t == stopArqTimer(g)
  IN /\ BagIn(x, air)
     /\ air' = air (-) SetToBag({x})
     /\ rxGroup' = g
     /\ vec' = v
     /\ deliverdSN' = [deliverdSN EXCEPT ![g] = direct \cup dec.missing]
     /\ handed' = [handed EXCEPT ![g] = @ + Cardinality(raw) + Cardinality(dec.missing)]
     /\ got' = [got EXCEPT ![g] = @ \cup raw \cup dec.payloads]
     /\ decoded' = IF IfDeocde(x) THEN decoded \cup {g} ELSE decoded
     /\ \/ /\ Polling(x)
           /\ NcSendArqReq(g, c, t, v, rk)
        \/ /\ ~Polling(x)
           /\ complete' = c /\ timer' = t /\ rank' = rk
           /\ UNCHANGED <<vrMs, reports, back>>
     /\ UNCHANGED <<txVars, strayVars, losses>>

-----------------------------------------------------------------------------
(***************************************************************************)
(* NcArqReqSendOnce schedules CopyExpireStatusReportTimer with m_Copy, not *)
(* NcExpireStatusReportTimer with m_Nc.  m_Copy has no decoding buffers in *)
(* this mode, so the handler reads and writes through end(): one counter,  *)
(* a byte of m_Copy->m_packetStatistic that starts at zero, serves every   *)
(* group, and the new timer is not the one stopArqTimer looks at.          *)
(***************************************************************************)
\* left: the stray timers without the one that has just expired.
CopyExpireStatusReportTimer(r, left) ==
  \/ /\ strayCount < MaxReports
     /\ back' = back (+) SetToBag({r})
     /\ strayCount' = strayCount + 1
     /\ strayTimers' = left (+) SetToBag({r})
  \/ /\ strayCount >= MaxReports
     /\ strayTimers' = left
     /\ UNCHANGED <<back, strayCount>>

Expire(g) ==
  /\ g \in timer
  /\ timer' = timer \ {g}
  /\ CopyExpireStatusReportTimer([group |-> g, rank |-> rank[g]], strayTimers)
  /\ UNCHANGED <<txVars, bufferVars, reports, history, air, losses>>

ExpireStray(r) ==
  /\ BagIn(r, strayTimers)
  /\ CopyExpireStatusReportTimer(r, strayTimers (-) SetToBag({r}))
  /\ UNCHANGED <<txVars, bufferVars, reports, timer, history, air, losses>>

\* The radio or a full RLC buffer loses a packet or a report.
LosePacket(x) ==
  /\ losses < MaxLoss
  /\ BagIn(x, air)
  /\ air' = air (-) SetToBag({x})
  /\ losses' = losses + 1
  /\ UNCHANGED <<txVars, rxVars, back>>

LoseReport(r) ==
  /\ losses < MaxLoss
  /\ BagIn(r, back)
  /\ back' = back (-) SetToBag({r})
  /\ losses' = losses + 1
  /\ UNCHANGED <<txVars, rxVars, air>>

Next ==
  \/ TriggerDoTransmitPdcpSdu
  \/ \E x \in BagToSet(air) : ReceiveData(x) \/ LosePacket(x)
  \/ \E r \in BagToSet(back) : ReceiveReport(r) \/ LoseReport(r)
  \/ \E g \in Group : Expire(g)
  \/ \E r \in BagToSet(strayTimers) : ExpireStray(r)

Spec == Init /\ [][Next]_vars

-----------------------------------------------------------------------------
\* Type correctness of the sender, the radio and the receiver.
NcTypeOK ==
  /\ txGroup \in 0..(MaxGroup + 1) /\ saved \in Original
  /\ BagToSet(air) \subseteq Packet /\ IsABag(air)
  /\ BagToSet(back) \subseteq Report /\ IsABag(back)
  /\ losses \in 0..MaxLoss
  /\ rxGroup \in Group /\ vrMs \in 0..(MaxGroup + 1)
  /\ \A g \in Group : /\ Len(vec[g]) \in 0..K
                      /\ \A i \in DOMAIN vec[g] : vec[g][i] \in Original
  /\ deliverdSN \in [Group -> SUBSET Original]
  /\ complete \subseteq Group /\ timer \subseteq Group /\ decoded \subseteq Group
  /\ rank \in [Group -> 0..K]
  /\ reports \in [Group -> 0..MaxReports]
  /\ strayCount \in 0..MaxReports
  /\ BagToSet(strayTimers) \subseteq Report /\ IsABag(strayTimers)
  /\ handed \in [Group -> Nat]
  /\ got \in [Group -> SUBSET Original]

\* The retries of a group that are scheduled: its m_statusReportTimer, and the
\* stray timers that CopyExpireStatusReportTimer leaves, whatever their rank.
Copies(r, B) == IF BagIn(r, B) THEN B[r] ELSE 0

ScheduledRetries(g) ==
  LET stray[k \in 0..K] ==
        IF k = 0 THEN Copies([group |-> g, rank |-> 0], strayTimers)
                 ELSE stray[k - 1] + Copies([group |-> g, rank |-> k], strayTimers)
  IN stray[K] + (IF g \in timer THEN 1 ELSE 0)

\* Decoding or giving up a group stops its m_statusReportTimer, but not its stray
\* retries, which nothing can cancel: they go on for finished groups, beside a
\* new m_statusReportTimer.  However many expire and are scheduled again, those
\* of a group are never more than the requests counted for it.
NcRetriesCounted ==
  /\ timer \cap complete = {}
  /\ \A g \in Group : ScheduledRetries(g) <= reports[g]

\* m_ncVrMs moves past a group only when the group was decoded or has used all
\* its status reports.
NcPassedGroupsSettled ==
  \A g \in Group : g < vrMs => g \in decoded \/ reports[g] = MaxReports

\* Reports that are on their way or that a timer may still send.
PendingReport ==
  BagToSet(back) \cup BagToSet(strayTimers)
    \cup {[group |-> g, rank |-> rank[g]] : g \in timer}

\* MakeNcArqSendPacket indexes the vector of the group at K - 1 without a test:
\* by the time a report for a group can arrive, its K originals are saved.
AnswerIndexInRange == \A r \in PendingReport : r.group < txGroup

\* A report never claims more packets than the receiver has, however long it
\* or its retry was delayed, so K - rank retransmissions are enough to finish
\* the group if none of them is lost.
ReportNeverOverstates ==
  \A r \in PendingReport : r.rank <= Len(vec[r.group])

\* Whatever the order of originals, redundancy and retransmissions, a group
\* hands up at most K packets, and exactly K once it is decoded.
OneBlockPerGroup ==
  \A g \in Group : handed[g] <= K /\ (g \in decoded => handed[g] = K)

\* NcDecode, "if not find ,means miss ,need to decode": what a decoded group
\* handed up is the K originals of the group.
DecodeRestoresMissing == \A g \in decoded : got[g] = Original

=============================================================================
