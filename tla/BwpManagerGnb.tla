--------------------------- MODULE BwpManagerGnb ---------------------------
(***************************************************************************)
(* Downlink of one bearer at the gNB: the transmit buffers of the bearer's *)
(* two LteRlcUm entities, the queue size the MAC scheduler believes in,    *)
(* and BwpManagerGnb::DoNotifyTxOpportunity, which offers one transmit     *)
(* opportunity to the two entities in turn.                                *)
(*                                                                         *)
(* The simulator runs one event at a time, and scheduling, the calls into  *)
(* the RLCs and the transmission of their PDUs are one event.  The model   *)
(* takes one step per RLC call (op holds the locals of the loop), and no   *)
(* other event happens while op is in progress.                            *)
(***************************************************************************)
EXTENDS Integers, Sequences, SequencesExt

CONSTANTS
  SduSizes,          \* sizes of PDCP PDUs
  MaxTxBufferSize,   \* m_maxTxBufferSize
  TbSizes,           \* transport block sizes the scheduler may grant
  ShortPdu,          \* longest PDU with the short MAC header (127 in the code)
  MaxSdu             \* bound: PDCP PDUs handed to the two RLCs together

\* RLC has a rule of its own for longer SDUs, which no packet of this stack reaches.
LongestSdu == 2047

\* A transport block has at least 7 bytes (CreateDlDci).
ASSUME SizeAssumption ==
  /\ SduSizes \subseteq 1..LongestSdu
  /\ TbSizes \subseteq {n \in Nat : n >= 7}
  /\ MaxTxBufferSize \in Nat /\ ShortPdu \in Nat /\ MaxSdu \in Nat

VARIABLES
  txBuffer,       \* m_txBuffer of each RLC: SDUs, the head possibly a remainder
  txBufferSize,   \* m_txBufferSize of each RLC
  rbsTimer,       \* RLCs whose m_rbsTimer is running
  queueSize,      \* m_rlcTransmissionQueueSize: one for the lcid both RLCs use
  flagForRlc2,    \* BwpManagerGnb::flagForRlc2: 0 when RLC 1 goes first
  op,             \* the opportunity in progress, or Idle
  accepted,       \* number of SDUs handed down so far, which names them
  sending         \* ghost: the SDU of which each RLC sent a part but not the end

vars == <<txBuffer, txBufferSize, rbsTimer, queueSize, flagForRlc2, op,
          accepted, sending>>
rlcVars == <<txBuffer, txBufferSize, rbsTimer, sending>>

Rlc == {1, 2}
Other(r) == 3 - r
NoSdu == 0
Done == 0

\* turn is the RLC to be called next; bytes what it is offered; inLoop and
\* noData are the locals of DoNotifyTxOpportunity; used is the MAC's m_used.
Idle == [turn |-> Done, bytes |-> 0, inLoop |-> FALSE, noData |-> {},
         tbSize |-> 0, used |-> 0, pdus |-> 0]

Init ==
  /\ txBuffer = [r \in Rlc |-> <<>>]
  /\ txBufferSize = [r \in Rlc |-> 0]
  /\ rbsTimer = {}
  /\ queueSize = 0
  /\ flagForRlc2 = 0
  /\ op = Idle
  /\ accepted = 0
  /\ sending = [r \in Rlc |-> NoSdu]

-----------------------------------------------------------------------------
(***************************************************************************)
(* PDCP hands a PDU to RLC r.                                              *)
(***************************************************************************)
\* Mutant: insert at begin() without stepping over the head.
StoredFirst(buffer, p, addTop) ==
  IF addTop THEN <<p>> \o buffer ELSE Append(buffer, p)

\* With NcArqAddTop a PDU goes behind the head, which may be half sent.
Stored(buffer, p, addTop) ==
  IF addTop /\ buffer # <<>> THEN <<Head(buffer), p>> \o Tail(buffer)
  ELSE Append(buffer, p)

\* DoReportBufferStatus, and NrMacSchedulerLC::Update at the other end of it.
Reported(buffer, size) ==
  IF buffer = <<>> THEN 0 ELSE size + 2 * Len(buffer)

DoTransmitPdcpPdu(r, size, addTop) ==
  LET fits == txBufferSize[r] + size <= MaxTxBufferSize
      p == [sdu |-> accepted + 1, size |-> size, full |-> TRUE]
  IN
  /\ op = Idle
  /\ accepted < MaxSdu
  /\ accepted' = accepted + 1
  /\ txBuffer' = IF fits THEN [txBuffer EXCEPT ![r] = Stored(@, p, addTop)]
                         ELSE txBuffer
  /\ txBufferSize' = IF fits THEN [txBufferSize EXCEPT ![r] = @ + size]
                             ELSE txBufferSize
  /\ queueSize' = Reported(txBuffer'[r], txBufferSize'[r])
  /\ rbsTimer' = rbsTimer \ {r}
  /\ UNCHANGED <<flagForRlc2, op, sending>>

ExpireRbsTimer(r) ==
  /\ op = Idle
  /\ r \in rbsTimer
  /\ IF txBuffer[r] = <<>>
     THEN rbsTimer' = rbsTimer \ {r} /\ UNCHANGED queueSize
     ELSE /\ queueSize' = Reported(txBuffer[r], txBufferSize[r])
          /\ UNCHANGED rbsTimer
  /\ UNCHANGED <<txBuffer, txBufferSize, flagForRlc2, op, accepted, sending>>

-----------------------------------------------------------------------------
(***************************************************************************)
(* The scheduler serves the bearer while it believes that data wait.  It   *)
(* subtracts what it assigns (NrMacSchedulerLCG::AssignedData), and the    *)
(* opportunity reaches the BWP manager in the same event.                  *)
(***************************************************************************)
AssignedData(size) == IF queueSize <= size THEN 0 ELSE queueSize - size

ScheduleDl(tbs) ==
  /\ op = Idle
  /\ queueSize > 0
  /\ queueSize' = AssignedData(tbs - 3)
  /\ op' = [Idle EXCEPT !.turn = IF flagForRlc2 = 0 THEN 1 ELSE 2,
                        !.bytes = tbs - 3 - 1,
                        !.tbSize = tbs]
  /\ UNCHANGED <<rlcVars, flagForRlc2, accepted>>

\* Mutant: the sign of the RLC forgotten in the header.
OfferedMore(remain) == remain - 3

\* The bytes offered to the next RLC: MAC header and sign of the RLC are
\* taken off what the last one left.
Offered(remain) == remain - 3 - 1

\* Mutants: one RLC without data ends the loop, or nothing does.
EitherHasNone(noData) == noData # {}
NeverQuits(noData) == FALSE

\* The loop ends early only when neither RLC had data.
NeitherHasData(noData) == noData = Rlc

\* What the manager does with RLC r's return value and the two flags that
\* come with it.  The first call of an opportunity is outside the loop and
\* leaves flagForRlc2 alone.
Returned(r, remain, toggle, noData, macPdu) ==
  LET none == IF noData THEN op.noData \cup {r} ELSE op.noData \ {r}
      quit == op.inLoop /\ NeitherHasData(none)
      done == [op EXCEPT !.turn = Done,
                         !.used = @ + macPdu,
                         !.pdus = IF macPdu > 0 THEN @ + 1 ELSE @]
  IN
  /\ op' = IF toggle /\ ~quit
           THEN [done EXCEPT !.turn = Other(r), !.bytes = Offered(remain),
                             !.inLoop = TRUE, !.noData = none]
           ELSE done
  /\ flagForRlc2' = IF ~op.inLoop THEN flagForRlc2
                    ELSE IF quit THEN 0 ELSE remain

\* NrGnbMac::DoTransmitPdu: a PDU of that size in the transport block.
MacPdu(pdu) == pdu + (IF pdu > ShortPdu THEN 4 ELSE 3)

\* What RLC r returns when it did not send the end of an SDU.
Kept(r) == IF r = 1 THEN 0 ELSE 2

-----------------------------------------------------------------------------
(***************************************************************************)
(* LteRlcUm::DoNotifyTxOpportunity (params, flag) of the RLC whose turn it *)
(* is, one action per way it returns.  A PDU holds one SDU or a piece.     *)
(***************************************************************************)
OpportunityTooSmall(r) ==
  /\ op.turn = r
  /\ op.bytes <= 4
  /\ Returned(r, Kept(r), FALSE, FALSE, 0)
  /\ UNCHANGED <<rlcVars, queueSize, accepted>>

NoDataPending(r) ==
  /\ op.turn = r
  /\ op.bytes > 4
  /\ txBuffer[r] = <<>>
  /\ Returned(r, op.bytes + 4, TRUE, TRUE, 0)
  /\ UNCHANGED <<rlcVars, queueSize, accepted>>

\* Mutant: no timer for what is left.
RbsNotRestarted(r, buffer) == rbsTimer

\* The timer is started again while data are left.
RbsRestarted(r, buffer) == IF buffer = <<>> THEN rbsTimer ELSE rbsTimer \cup {r}

\* The remainder of a segmented SDU is given back at the head.
GiveBack(head, taken) == [head EXCEPT !.size = @ - taken, !.full = FALSE]

\* Mutant: the remainder given back without its size.
SizeWithoutRemainder(size, head, taken) == size - head

\* The remainder counts again in m_txBufferSize.
SizeAfterSegment(size, head, taken) == size - head + (head - taken)

SendSegment(r) ==
  LET head == Head(txBuffer[r])
      taken == op.bytes - 2
  IN
  /\ op.turn = r
  /\ op.bytes > 4
  /\ txBuffer[r] # <<>>
  /\ head.size > taken
  /\ txBuffer' = [txBuffer EXCEPT ![r] = <<GiveBack(head, taken)>> \o Tail(@)]
  /\ txBufferSize' = [txBufferSize EXCEPT
                        ![r] = SizeAfterSegment(@, head.size, taken)]
  /\ sending' = [sending EXCEPT ![r] = head.sdu]
  /\ rbsTimer' = RbsRestarted(r, txBuffer'[r])
  /\ Returned(r, Kept(r), FALSE, FALSE, MacPdu(taken + 2))
  /\ UNCHANGED <<queueSize, accepted>>

\* Mutant: any room is offered.
TogglesAlways(room) == TRUE

\* Room of 4 bytes or less is not offered to the other RLC.
Toggles(room) == room > 4

SendWhole(r) ==
  LET head == Head(txBuffer[r])
      room == op.bytes - 2 - head.size
  IN
  /\ op.turn = r
  /\ op.bytes > 4
  /\ txBuffer[r] # <<>>
  /\ room >= 0
  /\ txBuffer' = [txBuffer EXCEPT ![r] = Tail(@)]
  /\ txBufferSize' = [txBufferSize EXCEPT ![r] = @ - head.size]
  /\ sending' = [sending EXCEPT ![r] = NoSdu]
  /\ rbsTimer' = RbsRestarted(r, txBuffer'[r])
  /\ Returned(r, IF Toggles(room) THEN room ELSE 0, Toggles(room), FALSE,
              MacPdu(head.size + 2))
  /\ UNCHANGED <<queueSize, accepted>>

\* DoNotifyTxOpportunity returns to the MAC.
EndOpportunity ==
  /\ op # Idle
  /\ op.turn = Done
  /\ op' = Idle
  /\ UNCHANGED <<rlcVars, queueSize, flagForRlc2, accepted>>

\* flagForRlc2 is a member of the manager of the whole cell: an opportunity of
\* another UE or bearer sets it as well.
OtherBearer ==
  /\ op = Idle
  /\ flagForRlc2' \in {0, 2}
  /\ UNCHANGED <<rlcVars, queueSize, op, accepted>>

RlcCall(r) ==
  OpportunityTooSmall(r) \/ NoDataPending(r) \/ SendSegment(r) \/ SendWhole(r)

Next ==
  \/ \E r \in Rlc, size \in SduSizes, addTop \in BOOLEAN :
       DoTransmitPdcpPdu(r, size, addTop)
  \/ \E tbs \in TbSizes : ScheduleDl(tbs)
  \/ \E r \in Rlc : ExpireRbsTimer(r) \/ RlcCall(r)
  \/ EndOpportunity
  \/ OtherBearer

Spec == Init /\ [][Next]_vars

\* An event runs to its end, timers expire, and every scheduler serves a UE
\* that has data sooner or later.  The upper layer owes nothing.
Fairness ==
  /\ WF_vars((\E r \in Rlc : RlcCall(r)) \/ EndOpportunity)
  /\ WF_vars(\E tbs \in TbSizes : ScheduleDl(tbs))
  /\ \A r \in Rlc : WF_vars(ExpireRbsTimer(r))

FairSpec == Spec /\ Fairness

-----------------------------------------------------------------------------
\* Type correctness.  In particular the bytes offered never drop below zero:
\* remain - 3 - 1 is unsigned in the code and remain doubles as a status code.
TypeOK ==
  /\ \A r \in Rlc : \A i \in DOMAIN txBuffer[r] :
       txBuffer[r][i] \in [sdu : 1..MaxSdu, size : 1..LongestSdu, full : BOOLEAN]
  /\ txBufferSize \in [Rlc -> Nat]
  /\ rbsTimer \subseteq Rlc
  /\ queueSize \in Nat
  /\ flagForRlc2 \in Nat
  /\ op \in [turn : {Done} \cup Rlc, bytes : Nat, inLoop : BOOLEAN,
             noData : SUBSET Rlc, tbSize : Nat, used : Nat, pdus : Nat]
  /\ accepted \in 0..MaxSdu
  /\ sending \in [Rlc -> 0..MaxSdu]

\* The assertion of NrGnbMac::DoTransmitPdu: the PDUs of both RLCs together,
\* with headers whose size depends on the PDU, fit the transport block.
GrantNotExceeded == op.used <= op.tbSize

\* The bytes of the PDUs in buffer b, added up from the head.
Bytes(b) ==
  LET upTo[i \in 0..Len(b)] == IF i = 0 THEN 0 ELSE upTo[i - 1] + b[i].size
  IN upTo[Len(b)]

\* m_txBufferSize is the number of bytes waiting, remainders included, and
\* respects the limit: a drift would make the buffer drop SDUs for ever.
BytesAccounted ==
  \A r \in Rlc :
    /\ txBufferSize[r] = Bytes(txBuffer[r])
    /\ txBufferSize[r] <= MaxTxBufferSize

\* A half-sent SDU stays at the head whatever is queued meanwhile, so that its
\* pieces leave under consecutive RLC sequence numbers; only it is a remainder.
SduContiguous ==
  \A r \in Rlc :
    /\ sending[r] # NoSdu => txBuffer[r] # <<>> /\ txBuffer[r][1].sdu = sending[r]
    /\ \A i \in DOMAIN txBuffer[r] :
         ~txBuffer[r][i].full <=> txBuffer[r][i].sdu = sending[r]

\* An opportunity does not end with room for another PDU while either RLC has
\* data: at most 8 bytes stay free, and one per PDU with the short MAC header.
WorkConserving ==
  (op # Idle /\ op.turn = Done /\ \E r \in Rlc : txBuffer[r] # <<>>)
    => op.tbSize - op.used <= 8 + op.pdus

Legs == INSTANCE RlcLegs WITH
  Legs <- Rlc,
  Sdus <- 1..MaxSdu,
  queue <- [r \in Rlc |-> [i \in DOMAIN txBuffer[r] |-> txBuffer[r][i].sdu]],
  half <- {r \in Rlc : sending[r] # NoSdu}

\* Both RLCs are the legs that PDCP duplication relies on: every step queues an
\* SDU, sends a part or the end of a head, or is invisible to PDCP.
ImplementsLegs == Legs!Spec

\* The loop over the two RLCs ends.
OpportunityEnds == (op # Idle) ~> (op = Idle)

\* A block of 7 or 8 bytes: after the MAC header and the sign it offers the first
\* RLC at most 4 bytes, which OpportunityTooSmall refuses.
RefusedBlock == op # Idle /\ op.tbSize < 9

\* Reports and buffer-status timers bring the scheduler back, as long as it
\* grants no block that is refused: then never do both RLCs keep data for good,
\* and a bearer that uses one of them only gets all its data sent.  Nothing is
\* claimed once a block was refused: the scheduler has subtracted it from the
\* queue, and the RLC that refuses it starts no timer.
NothingStuck ==
  []~RefusedBlock =>
    /\ []<>(\E r \in Rlc : txBuffer[r] = <<>>)
    /\ \A r \in Rlc : [](txBuffer[Other(r)] = <<>>) => []<>(txBuffer[r] = <<>>)

\* "Every UE is marked as active if it has data to transmit": between events,
\* waiting data are known to the scheduler or a timer will report them.
WaitingDataKnown ==
  (op = Idle /\ \E r \in Rlc : txBuffer[r] # <<>>)
    => queueSize > 0 \/ rbsTimer # {}

=============================================================================
