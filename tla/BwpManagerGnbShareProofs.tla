---------------------- MODULE BwpManagerGnbShareProofs ----------------------
(***************************************************************************)
(* More proofs about BwpManagerGnb, on top of the invariant of             *)
(* BwpManagerGnbProofs: the opportunity is used up while data wait, and    *)
(* m_txBufferSize is the sum of what is in the buffer.                     *)
(***************************************************************************)
EXTENDS BwpManagerGnbProofs, WellFoundedInduction

-----------------------------------------------------------------------------
(* An opportunity is used up. *)

\* While the loop goes on, all that is free is on offer but for the headers and
\* one byte per PDU with the short one; who is noted to have no data has none.
Free ==
  /\ op.turn # Done => op.tbSize <= op.used + op.bytes + 4 + op.pdus
  /\ \A r \in op.noData : txBuffer[r] = <<>>
  /\ WorkConserving

\* The arithmetic of the proofs below.  t: transport block; u: used; b: bytes on
\* offer; p: PDUs; m: a MAC PDU; s: an SDU; r: what remains; e: 1 with a PDU.
LEMMA BlockArithmetic ==
  /\ \A t, u, m, r, p, e \in Nat :
       t <= u + m + (r + 4) + p + e => t <= (u + m) + r + 4 + (p + e)
  /\ \A t, u, m, p, e \in Nat :
       t <= u + m + 8 + p + e => t - (u + m) <= 8 + (p + e)
  /\ \A t, u, b, p, m \in Nat :
       t <= u + b + 4 + p /\ m >= b + 3 => t <= u + m + 8 + p + 1
  /\ \A t, u, b, p, m, s, r \in Nat :
       t <= u + b + 4 + p /\ s + 2 + r = b /\ m >= s + 2 + 3 =>
         t <= u + m + r + p + 1 /\ (r <= 4 => t <= u + m + 8 + p + 1)
<1> QED
  OBVIOUS

\* The manager's reaction to a return value: the loop goes on with what remains,
\* or ends with little room, or with two empty buffers.
LEMMA ReturnedFree ==
  ASSUME Types, Free, NEW r \in Rlc, op.turn = r,
         NEW remain \in Nat, NEW toggle \in BOOLEAN, NEW noData \in BOOLEAN,
         NEW macPdu \in Nat, NEW extra \in 0..1, extra = 1 <=> macPdu > 0,
         toggle => remain > 4 /\ op.tbSize <= op.used + macPdu + remain + op.pdus + extra,
         ~toggle => op.tbSize <= op.used + macPdu + 8 + op.pdus + extra,
         noData => toggle /\ txBuffer'[r] = <<>>,
         \A q \in Rlc : q # r => txBuffer'[q] = txBuffer[q],
         txBuffer[r] = <<>> => txBuffer'[r] = <<>>,
         Returned(r, remain, toggle, noData, macPdu)
  PROVE  Free'
<1> DEFINE none == IF noData THEN op.noData \cup {r} ELSE op.noData \ {r}
           quit == op.inLoop /\ NeitherHasData(none)
           count == IF macPdu > 0 THEN op.pdus + 1 ELSE op.pdus
           done == [op EXCEPT !.turn = Done, !.used = @ + macPdu, !.pdus = count]
           more == [done EXCEPT !.turn = Other(r), !.bytes = Offered(remain),
                                !.inLoop = TRUE, !.noData = none]
<1>1. op' = IF toggle /\ ~quit THEN more ELSE done
  BY DEF Returned
<1>2. /\ op \in Opportunity /\ op.noData \subseteq Rlc
      /\ op.used \in Nat /\ op.tbSize \in Nat /\ op.pdus \in Nat
  BY DEF Types, Opportunity
<1>3. \A q \in none : txBuffer'[q] = <<>>
  BY <1>2 DEF Free
<1>4. \A q \in op.noData : txBuffer'[q] = <<>>
  BY <1>2 DEF Free
<1>5. count = op.pdus + extra
  BY <1>2
<1> HIDE DEF count
<1>6. /\ done.turn = Done /\ done.used = op.used + macPdu /\ done.tbSize = op.tbSize
      /\ done.pdus = count /\ done.noData = op.noData /\ done \in Opportunity
  <2>1. count \in Nat /\ op.used + macPdu \in Nat
    BY <1>2, <1>5
  <2> QED
    BY <1>2, <2>1 DEF Opportunity
<1>7. none \in SUBSET Rlc /\ Other(r) \in Rlc /\ Other(r) # Done
  BY <1>2 DEF Rlc, Other, Done
<1>8. quit => none = Rlc
  BY DEF NeitherHasData
<1> HIDE DEF none, quit, done
<1>9. CASE toggle /\ ~quit
  <2>1. Offered(remain) \in Nat /\ Offered(remain) + 4 = remain
    BY <1>9 DEF Offered
  <2>2. /\ more.turn # Done /\ more.used = op.used + macPdu /\ more.tbSize = op.tbSize
        /\ more.pdus = op.pdus + extra /\ more.noData = none
        /\ more.bytes = Offered(remain)
    BY <1>5, <1>6, <1>7 DEF Opportunity
  <2> HIDE DEF Offered, more
  <2>3. op' = more
    BY <1>1, <1>9
  <2>4. op.tbSize <= (op.used + macPdu) + Offered(remain) + 4 + (op.pdus + extra)
    <3>1. op.tbSize <= op.used + macPdu + remain + op.pdus + extra
      BY <1>9
    <3>2. extra \in Nat
      OBVIOUS
    <3>3. op.tbSize <= op.used + macPdu + (Offered(remain) + 4) + op.pdus + extra
      BY <2>1, <3>1
    <3> QED
      BY <1>2, <2>1, <3>2, <3>3, BlockArithmetic
  <2>5. op'.tbSize <= op'.used + op'.bytes + 4 + op'.pdus
    BY <2>2, <2>3, <2>4
  <2> QED
    BY <1>3, <2>2, <2>3, <2>5 DEF Free, WorkConserving
<1>10. CASE ~toggle
  <2>1. op' = done
    BY <1>1, <1>10
  <2>2. op.tbSize - (op.used + macPdu) <= 8 + (op.pdus + extra)
    <3>1. op.tbSize <= op.used + macPdu + 8 + op.pdus + extra
      BY <1>10
    <3>2. extra \in Nat
      OBVIOUS
    <3> QED
      BY <1>2, <3>1, <3>2, BlockArithmetic
  <2>3. op'.tbSize - op'.used <= 8 + op'.pdus
    BY <1>5, <1>6, <2>1, <2>2
  <2> QED
    BY <1>4, <1>6, <2>1, <2>3 DEF Free, WorkConserving
<1>11. CASE toggle /\ quit
  <2>1. op' = done
    BY <1>1, <1>11
  <2>2. \A q \in Rlc : txBuffer'[q] = <<>>
    BY <1>3, <1>8, <1>11
  <2> QED
    BY <1>4, <1>6, <2>1, <2>2 DEF Free, WorkConserving
<1> QED
  BY <1>9, <1>10, <1>11

\* Every way an RLC returns.
LEMMA RlcCallFree ==
  ASSUME Inv, Free, NEW r \in Rlc, RlcCall(r)
  PROVE  Free'
<1>0. /\ txBuffer \in [Rlc -> Seq(Pdu)] /\ Types
      /\ op.bytes \in Nat /\ op.used \in Nat /\ op.tbSize \in Nat /\ op.pdus \in Nat
  BY DEF Inv, Types, Opportunity
<1>9. r # Done
  BY DEF Rlc, Done
<1>1. op.turn = r /\ r # Done
  BY <1>9 DEF RlcCall, OpportunityTooSmall, NoDataPending, SendSegment, SendWhole
<1>2. op.tbSize <= op.used + op.bytes + 4 + op.pdus
  BY <1>1 DEF Free
<1>3. Kept(r) \in Nat
  BY DEF Kept
<1>4. \A n \in Nat : MacPdu(n) \in Nat /\ MacPdu(n) >= n + 3
  BY DEF MacPdu
<1>5. CASE OpportunityTooSmall(r)
  <2>1. /\ op.bytes <= 4 /\ Returned(r, Kept(r), FALSE, FALSE, 0) /\ txBuffer' = txBuffer
    BY <1>5 DEF OpportunityTooSmall, rlcVars
  <2>2. /\ 0 \in Nat /\ 0 \in 0..1 /\ ~(0 > 0) /\ 0 # 1
        /\ op.tbSize <= op.used + 0 + 8 + op.pdus + 0
    BY <1>0, <1>2, <2>1
  <2> QED
    BY <1>0, <1>1, <1>3, <2>1, <2>2, ReturnedFree
<1>6. CASE NoDataPending(r)
  <2>1. /\ op.bytes > 4 /\ txBuffer[r] = <<>>
        /\ Returned(r, op.bytes + 4, TRUE, TRUE, 0) /\ txBuffer' = txBuffer
    BY <1>6 DEF NoDataPending, rlcVars
  <2>2. /\ 0 \in Nat /\ 0 \in 0..1 /\ ~(0 > 0) /\ 0 # 1
        /\ op.bytes + 4 \in Nat /\ op.bytes + 4 > 4
        /\ op.tbSize <= op.used + 0 + (op.bytes + 4) + op.pdus + 0
    BY <1>0, <1>2, <2>1
  <2> QED
    BY <1>0, <1>1, <2>1, <2>2, ReturnedFree
<1>7. CASE SendSegment(r)
  <2> DEFINE b == txBuffer[r]
             taken == op.bytes - 2
             m == MacPdu(taken + 2)
  <2>1. /\ op.bytes > 4 /\ b # <<>>
        /\ txBuffer' = [txBuffer EXCEPT ![r] = <<GiveBack(Head(b), taken)>> \o Tail(b)]
        /\ Returned(r, Kept(r), FALSE, FALSE, m)
    BY <1>7 DEF SendSegment
  <2>2. taken \in Nat /\ taken + 2 = op.bytes
    BY <1>0, <2>1
  <2>3. m \in Nat /\ m >= op.bytes + 3
    BY <1>0, <1>4, <2>2
  <2>4. \A q \in Rlc : q # r => txBuffer'[q] = txBuffer[q]
    BY <1>0, <2>1
  <2> HIDE DEF m, b, taken
  <2>5. op.tbSize <= op.used + m + 8 + op.pdus + 1
    BY <1>0, <1>2, <2>3, BlockArithmetic
  <2>6. 1 \in 0..1 /\ m > 0
    BY <1>0, <2>3
  <2> QED
    BY <1>0, <1>1, <1>3, <2>1, <2>3, <2>4, <2>5, <2>6, ReturnedFree DEF b
<1>8. CASE SendWhole(r)
  <2> DEFINE b == txBuffer[r]
             size == Head(b).size
             room == op.bytes - 2 - size
             remain == IF Toggles(room) THEN room ELSE 0
             m == MacPdu(size + 2)
  <2>1. /\ op.bytes > 4 /\ b # <<>> /\ room >= 0
        /\ txBuffer' = [txBuffer EXCEPT ![r] = Tail(b)]
        /\ Returned(r, remain, Toggles(room), FALSE, m)
    BY <1>8 DEF SendWhole
  <2>2. b \in Seq(Pdu)
    BY <1>0
  <2>3. size \in Nat
    <3>1. Head(b) = b[1] /\ 1 \in 1..Len(b)
      BY <2>1, <2>2
    <3> QED
      BY <3>1, <2>2, Fields
  <2>4. m \in Nat /\ m >= size + 2 + 3
    BY <1>4, <2>3
  <2> HIDE DEF size, m
  <2>5. /\ room \in Nat /\ size + 2 + room = op.bytes
        /\ Toggles(room) \in BOOLEAN /\ remain \in Nat
        /\ Toggles(room) => remain > 4 /\ remain = room
        /\ ~Toggles(room) => room <= 4
    BY <1>0, <2>1, <2>3 DEF Toggles
  <2>6. \A q \in Rlc : q # r => txBuffer'[q] = txBuffer[q]
    BY <1>0, <2>1
  <2> HIDE DEF room, remain, b, Toggles
  <2>7. 1 \in 0..1 /\ m > 0
    BY <2>3, <2>4
  <2>8. /\ op.tbSize <= op.used + m + room + op.pdus + 1
        /\ room <= 4 => op.tbSize <= op.used + m + 8 + op.pdus + 1
    BY <1>0, <1>2, <2>3, <2>4, <2>5, BlockArithmetic
  <2>9. /\ Toggles(room) => op.tbSize <= op.used + m + remain + op.pdus + 1
        /\ ~Toggles(room) => op.tbSize <= op.used + m + 8 + op.pdus + 1
    BY <2>5, <2>8
  <2> QED
    BY <1>0, <1>1, <2>1, <2>4, <2>5, <2>6, <2>7, <2>9, ReturnedFree DEF b
<1> QED
  BY <1>5, <1>6, <1>7, <1>8 DEF RlcCall

\* Every step.
LEMMA NextFree ==
  ASSUME Inv, Free, [Next]_vars
  PROVE  Free'
<1>1. ASSUME NEW r \in Rlc, NEW size \in SduSizes, NEW addTop \in BOOLEAN,
             DoTransmitPdcpPdu(r, size, addTop)
      PROVE  Free'
  <2>1. op = Idle /\ op' = Idle
    BY <1>1 DEF DoTransmitPdcpPdu
  <2> QED
    BY <2>1 DEF Free, WorkConserving, Idle
<1>2. ASSUME NEW tbs \in TbSizes, ScheduleDl(tbs) PROVE Free'
  <2> DEFINE first == IF flagForRlc2 = 0 THEN 1 ELSE 2
  <2>1. op' = [Idle EXCEPT !.turn = first, !.bytes = tbs - 3 - 1, !.tbSize = tbs]
    BY <1>2 DEF ScheduleDl
  <2>2. tbs \in Nat /\ tbs - 3 - 1 \in Nat /\ (tbs - 3 - 1) + 4 = tbs
    BY SizeAssumption
  <2>3. first # Done
    BY DEF Done
  <2> HIDE DEF first
  <2>4. /\ op'.used = 0 /\ op'.pdus = 0 /\ op'.noData = {} /\ op'.turn = first
        /\ op'.tbSize = tbs /\ op'.bytes = tbs - 3 - 1
    BY <2>1, <2>2 DEF Idle
  <2> QED
    BY <2>2, <2>3, <2>4 DEF Free, WorkConserving
<1>3. ASSUME NEW r \in Rlc, RlcCall(r) PROVE Free'
  BY <1>3, RlcCallFree
<1>4. CASE EndOpportunity
  BY <1>4 DEF EndOpportunity, Free, WorkConserving, Idle
<1>5. CASE UNCHANGED <<op, txBuffer>>
  BY <1>5 DEF Free, WorkConserving
<1> QED
  BY <1>1, <1>2, <1>3, <1>4, <1>5 DEF Next, ExpireRbsTimer, OtherBearer, rlcVars, vars

\* DoNotifyTxOpportunity of the BWP manager wastes no room: when it returns and
\* either RLC still has data, at most 8 bytes of the transport block are free,
\* and one more per PDU with the short MAC header, for all sizes.
THEOREM WorkConservingHolds == Spec => []WorkConserving
<1>1. Init => Free
  BY DEF Init, Free, WorkConserving, Idle, Done
<1>2. Inv /\ Free /\ [Next]_vars => Free'
  BY NextFree
<1>3. Free => WorkConserving
  BY DEF Free
<1> QED
  BY <1>1, <1>2, <1>3, Invariance, PTL DEF Spec

-----------------------------------------------------------------------------
(* m_txBufferSize. *)

\* n is the number of bytes in buffer b: there is a table of the bytes from each
\* place to the end.
SumsTo(b, n) ==
  \E g \in [1..(Len(b) + 1) -> Nat] :
    /\ g[1] = n
    /\ g[Len(b) + 1] = 0
    /\ \A i \in 1..Len(b) : g[i] = b[i].size + g[i + 1]

Short(b) == \A i \in 1..Len(b) : b[i].size <= LongestSdu

Sizes ==
  /\ txBufferSize \in [Rlc -> 0..MaxTxBufferSize]
  /\ \A r \in Rlc : SumsTo(txBuffer[r], txBufferSize[r]) /\ Short(txBuffer[r])
  /\ accepted <= MaxSdu
  /\ rbsTimer \subseteq Rlc
  /\ queueSize \in Nat
  /\ flagForRlc2 \in Nat

\* One more PDU, at any place k.
LEMMA SumsInserted ==
  ASSUME NEW b \in Seq(Pdu), NEW n \in Nat, SumsTo(b, n), Short(b),
         NEW p \in Pdu, p.size <= LongestSdu,
         NEW c \in Seq(Pdu), Len(c) = Len(b) + 1,
         NEW k \in 1..Len(c), c[k] = p,
         \A i \in 1..Len(c) : i < k => c[i] = b[i],
         \A i \in 1..Len(c) : i > k => c[i] = b[i - 1]
  PROVE  SumsTo(c, n + p.size) /\ Short(c)
<1>0. Len(b) \in Nat /\ p.size \in Nat
  BY DEF Pdu
<1>1. PICK g \in [1..(Len(b) + 1) -> Nat] :
        /\ g[1] = n
        /\ g[Len(b) + 1] = 0
        /\ \A i \in 1..Len(b) : g[i] = b[i].size + g[i + 1]
  BY DEF SumsTo
<1> DEFINE L == Len(b)
           f == [i \in 1..(L + 2) |-> IF i <= k THEN g[i] + p.size ELSE g[i - 1]]
<1>2. k \in 1..(L + 1) /\ L \in Nat
  BY <1>0
<1>3. \A i \in 1..(L + 1) : g[i] \in Nat
  BY <1>0, <1>1
<1> HIDE DEF L
<1>4. \A i \in 1..(L + 2) : (i <= k => i \in 1..(L + 1)) /\ (~(i <= k) => i - 1 \in 1..(L + 1))
  BY <1>2
<1>5. f \in [1..(L + 2) -> Nat]
  <2>1. ASSUME NEW i \in 1..(L + 2)
        PROVE  (IF i <= k THEN g[i] + p.size ELSE g[i - 1]) \in Nat
    <3>1. CASE i <= k
      <4>1. g[i] \in Nat
        BY <3>1, <1>3, <1>4
      <4> QED
        BY <3>1, <4>1, <1>0
    <3>2. CASE ~(i <= k)
      BY <3>2, <1>3, <1>4
    <3> QED
      BY <3>1, <3>2
  <2> QED
    BY <2>1
<1>6. f[1] = n + p.size
  <2>1. 1 \in 1..(L + 2) /\ 1 <= k
    BY <1>2
  <2> QED
    BY <2>1, <1>1
<1>7. f[L + 2] = 0
  <2>1. L + 2 \in 1..(L + 2) /\ ~(L + 2 <= k) /\ L + 2 - 1 = L + 1
    BY <1>2
  <2> QED
    BY <2>1, <1>1 DEF L
<1>8. ASSUME NEW i \in 1..(L + 1) PROVE f[i] = c[i].size + f[i + 1]
  <2>0. i \in 1..(L + 2) /\ i + 1 \in 1..(L + 2) /\ i \in 1..Len(c)
    BY <1>2 DEF L
  <2>1. CASE i < k
    <3>1. i \in 1..L /\ i <= k /\ i + 1 <= k
      BY <2>1, <1>2
    <3>2. f[i] = g[i] + p.size /\ f[i + 1] = g[i + 1] + p.size
      BY <2>0, <3>1
    <3>3. c[i] = b[i] /\ g[i] = b[i].size + g[i + 1]
      BY <2>0, <2>1, <3>1, <1>1 DEF L
    <3>4. b[i].size \in Nat /\ g[i + 1] \in Nat
      <4>1. i + 1 \in 1..(L + 1)
        BY <1>8, <3>1, <1>2
      <4> QED
        BY <3>1, <4>1, <1>3, Fields DEF L
    <3> HIDE DEF f
    <3>5. \A x, y, z \in Nat : (x + y) + z = x + (y + z)
      OBVIOUS
    <3>6. (b[i].size + g[i + 1]) + p.size = b[i].size + (g[i + 1] + p.size)
      BY <3>4, <3>5, <1>0
    <3> QED
      BY <3>2, <3>3, <3>6
  <2>2. CASE i = k
    <3>1. i <= k /\ ~(i + 1 <= k) /\ (i + 1) - 1 = i
      BY <2>2
    <3>2. f[i] = g[i] + p.size /\ f[i + 1] = g[i]
      BY <2>0, <3>1
    <3> HIDE DEF f
    <3> QED
      BY <2>2, <3>2, <1>0, <1>3
  <2>3. CASE i > k
    <3>1. ~(i <= k) /\ ~(i + 1 <= k) /\ (i + 1) - 1 = i /\ i - 1 \in 1..L /\ (i - 1) + 1 = i
      BY <2>3, <1>2
    <3>2. f[i] = g[i - 1] /\ f[i + 1] = g[i]
      BY <2>0, <3>1
    <3>3. c[i] = b[i - 1] /\ g[i - 1] = b[i - 1].size + g[i]
      BY <2>0, <2>3, <3>1, <1>1 DEF L
    <3> QED
      BY <3>2, <3>3
  <2> QED
    BY <2>1, <2>2, <2>3, <1>2
<1> HIDE DEF f
<1>9. Len(c) = L + 1 /\ Len(c) + 1 = L + 2
  BY <1>2 DEF L
<1>10. SumsTo(c, n + p.size)
  <2>1. f \in [1..(Len(c) + 1) -> Nat] /\ f[Len(c) + 1] = 0
    BY <1>5, <1>7, <1>9
  <2>2. \A i \in 1..Len(c) : f[i] = c[i].size + f[i + 1]
    BY <1>8, <1>9
  <2>3. \E h \in [1..(Len(c) + 1) -> Nat] :
          /\ h[1] = n + p.size
          /\ h[Len(c) + 1] = 0
          /\ \A i \in 1..Len(c) : h[i] = c[i].size + h[i + 1]
    <3> f \in [1..(Len(c) + 1) -> Nat]
      BY <2>1
    <3> WITNESS f \in [1..(Len(c) + 1) -> Nat]
    <3> QED
      BY <1>6, <2>1, <2>2
  <2> QED
    BY <2>3 DEF SumsTo
<1>11. Short(c)
  <2> SUFFICES ASSUME NEW i \in 1..Len(c) PROVE c[i].size <= LongestSdu
    BY DEF Short
  <2>1. CASE i < k
    <3>1. i \in 1..Len(b)
      BY <2>1, <1>0
    <3> QED
      BY <2>1, <3>1 DEF Short
  <2>2. CASE i = k
    BY <2>2
  <2>3. CASE i > k
    <3>1. i - 1 \in 1..Len(b)
      BY <2>3, <1>0
    <3> QED
      BY <2>3, <3>1 DEF Short
  <2> QED
    BY <2>1, <2>2, <2>3, <1>0
<1> QED
  BY <1>10, <1>11

\* DoTransmitPdcpPdu adds the size of the PDU, with addTop or not.
LEMMA SumsStored ==
  ASSUME NEW b \in Seq(Pdu), NEW n \in Nat, SumsTo(b, n), Short(b),
         NEW p \in Pdu, p.size <= LongestSdu, NEW addTop \in BOOLEAN
  PROVE  SumsTo(Stored(b, p, addTop), n + p.size) /\ Short(Stored(b, p, addTop))
<1>0. Len(b) \in Nat
  OBVIOUS
<1>1. CASE addTop /\ b # <<>>
  <2> DEFINE c == <<Head(b), p>> \o Tail(b)
  <2>0. c = <<Head(b), p>> \o Tail(b) /\ b # <<>>
    BY <1>1
  <2> HIDE DEF c
  <2>1. /\ c \in Seq(Pdu) /\ Len(c) = Len(b) + 1
        /\ c[1] = b[1] /\ c[2] = p
        /\ \A i \in 3..Len(c) : c[i] = b[i - 1]
    BY <2>0, InsertSecond, SMTT(30)
  <2>2. Len(b) >= 1 /\ 2 \in 1..Len(c)
    BY <1>0, <1>1, <2>1
  <2>3. /\ \A i \in 1..Len(c) : i < 2 => c[i] = b[i]
        /\ \A i \in 1..Len(c) : i > 2 => c[i] = b[i - 1]
    BY <1>0, <2>1, <2>2
  <2>4. SumsTo(c, n + p.size) /\ Short(c)
    <3>1. PICK k \in 1..Len(c) : k = 2
      BY <2>2
    <3>2. /\ c[k] = p
          /\ \A i \in 1..Len(c) : i < k => c[i] = b[i]
          /\ \A i \in 1..Len(c) : i > k => c[i] = b[i - 1]
      BY <2>1, <2>3, <3>1
    <3> QED
      BY <2>1, <3>2, SumsInserted
  <2>5. Stored(b, p, addTop) = c
    BY <1>1 DEF Stored, c
  <2> QED
    BY <2>4, <2>5
<1>2. CASE ~(addTop /\ b # <<>>)
  <2> DEFINE c == Append(b, p)
  <2>1. /\ c \in Seq(Pdu) /\ Len(c) = Len(b) + 1
        /\ \A i \in 1..Len(b) : c[i] = b[i]
        /\ c[Len(b) + 1] = p
    OBVIOUS
  <2> HIDE DEF c
  <2>2. /\ Len(b) + 1 \in 1..Len(c)
        /\ \A i \in 1..Len(c) : i < Len(b) + 1 => c[i] = b[i]
        /\ \A i \in 1..Len(c) : i > Len(b) + 1 => c[i] = b[i - 1]
    BY <1>0, <2>1
  <2>4. SumsTo(c, n + p.size) /\ Short(c)
    BY <2>1, <2>2, SumsInserted
  <2>5. Stored(b, p, addTop) = c
    BY <1>2 DEF Stored, c
  <2> QED
    BY <2>4, <2>5
<1> QED
  BY <1>1, <1>2

\* A remainder given back: its size counts again.
LEMMA SumsSegment ==
  ASSUME NEW b \in Seq(Pdu), NEW n \in Nat, SumsTo(b, n), Short(b), b # <<>>,
         NEW taken \in Nat, Head(b).size > taken
  PROVE  LET c == <<GiveBack(Head(b), taken)>> \o Tail(b)
             m == SizeAfterSegment(n, Head(b).size, taken)
         IN SumsTo(c, m) /\ Short(c) /\ m \in Nat /\ m <= n
<1> DEFINE h == GiveBack(Head(b), taken)
           c == <<h>> \o Tail(b)
           m == SizeAfterSegment(n, Head(b).size, taken)
<1>0. Len(b) \in Nat /\ Len(b) >= 1 /\ 1 \in 1..Len(b) /\ Head(b) = b[1]
  OBVIOUS
<1>1. b[1] \in Pdu /\ b[1].size \in Nat /\ b[1].size > taken
  BY <1>0, Fields
<1>2. h \in Pdu /\ h.size = b[1].size - taken
  <2>1. b[1].size - taken \in Nat \ {0}
    BY <1>1
  <2>2. h = [b[1] EXCEPT !.size = b[1].size - taken, !.full = FALSE]
    BY <1>0 DEF GiveBack
  <2> HIDE DEF h
  <2> QED
    BY <1>1, <2>1, <2>2 DEF Pdu
<1>3. c = <<h>> \o Tail(b)
  OBVIOUS
<1> HIDE DEF h, c
<1>4. /\ c \in Seq(Pdu) /\ Len(c) = Len(b) /\ c # <<>>
      /\ c[1] = h
      /\ \A i \in 2..Len(c) : c[i] = b[i]
  BY <1>2, <1>3, ReplaceHead, SMTT(30)
<1>5. PICK g \in [1..(Len(b) + 1) -> Nat] :
        /\ g[1] = n
        /\ g[Len(b) + 1] = 0
        /\ \A i \in 1..Len(b) : g[i] = b[i].size + g[i + 1]
  BY DEF SumsTo
<1>6. /\ g[1] = b[1].size + g[2] /\ g[2] \in Nat
  <2>1. g[1] = b[1].size + g[1 + 1] /\ 1 + 1 = 2 /\ 2 \in 1..(Len(b) + 1)
    BY <1>0, <1>5
  <2> QED
    BY <2>1, <1>5
<1>7. m = (b[1].size - taken) + g[2] /\ m \in Nat /\ m <= n
  BY <1>0, <1>1, <1>5, <1>6, SMTT(20) DEF SizeAfterSegment
<1> DEFINE f == [g EXCEPT ![1] = m]
<1> HIDE DEF m
<1>8. /\ f \in [1..(Len(c) + 1) -> Nat] /\ f[1] = m
      /\ \A i \in 2..(Len(c) + 1) : f[i] = g[i]
  BY <1>0, <1>4, <1>5, <1>7
<1> HIDE DEF f
<1>9. f[Len(c) + 1] = 0
  <2>1. Len(c) + 1 \in 2..(Len(c) + 1)
    BY <1>0, <1>4
  <2> QED
    BY <2>1, <1>4, <1>5, <1>8
<1>10. ASSUME NEW i \in 1..Len(c) PROVE f[i] = c[i].size + f[i + 1]
  <2>1. CASE i = 1
    <3>1. i + 1 = 2 /\ 2 \in 2..(Len(c) + 1)
      BY <2>1, <1>0, <1>4
    <3> QED
      BY <2>1, <3>1, <1>2, <1>4, <1>7, <1>8
  <2>2. CASE i # 1
    <3>1. i \in 2..Len(c) /\ i \in 2..(Len(c) + 1) /\ i + 1 \in 2..(Len(c) + 1) /\ i \in 1..Len(b)
      BY <2>2, <1>0, <1>4
    <3> QED
      BY <3>1, <1>4, <1>5, <1>8
  <2> QED
    BY <2>1, <2>2
<1>11. SumsTo(c, m)
  BY <1>8, <1>9, <1>10 DEF SumsTo
<1>12. Short(c)
  <2> SUFFICES ASSUME NEW i \in 1..Len(c) PROVE c[i].size <= LongestSdu
    BY DEF Short
  <2>1. CASE i = 1
    <3>1. b[1].size <= LongestSdu
      BY <1>0 DEF Short
    <3>2. LongestSdu \in Nat
      BY DEF LongestSdu
    <3>3. b[1].size - taken <= LongestSdu
      BY <3>1, <3>2, <1>1
    <3> QED
      BY <2>1, <3>3, <1>2, <1>4
  <2>2. CASE i # 1
    <3>1. i \in 2..Len(c) /\ i \in 1..Len(b)
      BY <2>2, <1>0, <1>4
    <3> QED
      BY <3>1, <1>4 DEF Short
  <2> QED
    BY <2>1, <2>2
<1> QED
  BY <1>7, <1>11, <1>12 DEF c, h, m

\* The head leaves with its size.
LEMMA SumsTail ==
  ASSUME NEW b \in Seq(Pdu), NEW n \in Nat, SumsTo(b, n), Short(b), b # <<>>
  PROVE  /\ SumsTo(Tail(b), n - Head(b).size) /\ Short(Tail(b))
         /\ n - Head(b).size \in Nat /\ n - Head(b).size <= n
<1> DEFINE t == Tail(b)
<1>0. Len(b) \in Nat /\ Len(b) >= 1 /\ 1 \in 1..Len(b) /\ Head(b) = b[1]
  OBVIOUS
<1>1. /\ t \in Seq(Pdu) /\ Len(t) = Len(b) - 1
      /\ \A i \in 1..Len(t) : t[i] = b[i + 1]
  OBVIOUS
<1> HIDE DEF t
<1>2. PICK g \in [1..(Len(b) + 1) -> Nat] :
        /\ g[1] = n
        /\ g[Len(b) + 1] = 0
        /\ \A i \in 1..Len(b) : g[i] = b[i].size + g[i + 1]
  BY DEF SumsTo
<1>3. b[1].size \in Nat
  BY <1>0, Fields
<1>4. /\ g[1] = b[1].size + g[2] /\ g[2] \in Nat
  <2>1. g[1] = b[1].size + g[1 + 1] /\ 1 + 1 = 2 /\ 2 \in 1..(Len(b) + 1)
    BY <1>0, <1>2
  <2> QED
    BY <2>1, <1>2
<1>5. n - b[1].size = g[2] /\ g[2] <= n
  BY <1>2, <1>3, <1>4
<1> DEFINE f == [i \in 1..(Len(t) + 1) |-> g[i + 1]]
<1>6. \A i \in 1..(Len(t) + 1) : i + 1 \in 1..(Len(b) + 1) /\ f[i] = g[i + 1]
  BY <1>0, <1>1
<1>7. f \in [1..(Len(t) + 1) -> Nat]
  BY <1>2, <1>6
<1> HIDE DEF f
<1>8. f[1] = g[2] /\ f[Len(t) + 1] = 0
  <2>1. 1 \in 1..(Len(t) + 1) /\ Len(t) + 1 \in 1..(Len(t) + 1) /\ (Len(t) + 1) + 1 = Len(b) + 1
        /\ 1 + 1 = 2
    BY <1>0, <1>1
  <2> QED
    BY <2>1, <1>2, <1>6
<1>9. ASSUME NEW i \in 1..Len(t) PROVE f[i] = t[i].size + f[i + 1]
  <2>1. i \in 1..(Len(t) + 1) /\ i + 1 \in 1..(Len(t) + 1) /\ i + 1 \in 1..Len(b)
    BY <1>0, <1>1
  <2> QED
    BY <2>1, <1>1, <1>2, <1>6
<1>10. SumsTo(t, g[2])
  BY <1>7, <1>8, <1>9 DEF SumsTo
<1>11. Short(t)
  <2> SUFFICES ASSUME NEW i \in 1..Len(t) PROVE t[i].size <= LongestSdu
    BY DEF Short
  <2>1. i + 1 \in 1..Len(b)
    BY <1>0, <1>1
  <2> QED
    BY <2>1, <1>1 DEF Short
<1> QED
  BY <1>0, <1>4, <1>5, <1>10, <1>11 DEF t

\* What is reported is a number.
LEMMA ReportedType ==
  ASSUME NEW b \in Seq(Pdu), NEW n \in Nat
  PROVE  Reported(b, n) \in Nat
<1>1. Len(b) \in Nat
  OBVIOUS
<1> QED
  BY <1>1 DEF Reported

\* A PDU from PDCP, counted or dropped.
LEMMA DoTransmitPdcpPduSizes ==
  ASSUME Inv, Sizes, NEW r \in Rlc, NEW size \in SduSizes, NEW addTop \in BOOLEAN,
         DoTransmitPdcpPdu(r, size, addTop)
  PROVE  Sizes'
<1> DEFINE p == [sdu |-> accepted + 1, size |-> size, full |-> TRUE]
           b == txBuffer[r]
           c == Stored(b, p, addTop)
           fits == txBufferSize[r] + size <= MaxTxBufferSize
<1>0. /\ txBuffer \in [Rlc -> Seq(Pdu)] /\ sending \in [Rlc -> Nat]
      /\ accepted \in Nat /\ Buffers /\ txBuffer' \in [Rlc -> Seq(Pdu)]
  BY DoTransmitPdcpPduInv DEF Inv, Types
<1>1. /\ txBufferSize \in [Rlc -> 0..MaxTxBufferSize] /\ MaxTxBufferSize \in Nat
      /\ MaxSdu \in Nat /\ txBufferSize[r] \in Nat
  BY SizeAssumption DEF Sizes
<1>2. /\ accepted < MaxSdu /\ accepted' = accepted + 1
      /\ txBuffer' = IF fits THEN [txBuffer EXCEPT ![r] = c] ELSE txBuffer
      /\ txBufferSize' = IF fits THEN [txBufferSize EXCEPT ![r] = @ + size] ELSE txBufferSize
      /\ queueSize' = Reported(txBuffer'[r], txBufferSize'[r])
      /\ rbsTimer' = rbsTimer \ {r} /\ flagForRlc2' = flagForRlc2
  BY DEF DoTransmitPdcpPdu
<1>3. size \in Nat \ {0} /\ size <= LongestSdu
  BY SizeAssumption
<1>4. p \in Pdu /\ p.size = size
  <2>1. accepted + 1 \in Nat \ {0}
    BY <1>0
  <2> QED
    BY <1>3, <2>1 DEF Pdu
<1> HIDE DEF p
<1>5. b \in Seq(Pdu) /\ SumsTo(b, txBufferSize[r]) /\ Short(b)
  BY <1>0 DEF Sizes
<1> HIDE DEF b
<1>6. SumsTo(c, txBufferSize[r] + size) /\ Short(c)
  BY <1>1, <1>3, <1>4, <1>5, SumsStored
<1> HIDE DEF c
<1>7. CASE fits
  <2>1. /\ \A q \in Rlc : txBuffer'[q] = IF q = r THEN c ELSE txBuffer[q]
        /\ \A q \in Rlc : txBufferSize'[q] = IF q = r THEN txBufferSize[r] + size ELSE txBufferSize[q]
    BY <1>0, <1>1, <1>2, <1>7
  <2>2. txBufferSize[r] + size \in 0..MaxTxBufferSize
    BY <1>1, <1>3, <1>7
  <2> HIDE DEF fits
  <2>3. txBufferSize' \in [Rlc -> 0..MaxTxBufferSize]
    BY <1>1, <1>2, <1>7, <2>2
  <2>4. \A q \in Rlc : SumsTo(txBuffer'[q], txBufferSize'[q]) /\ Short(txBuffer'[q])
    BY <1>6, <2>1 DEF Sizes
  <2>5. txBufferSize'[r] \in Nat /\ txBuffer'[r] \in Seq(Pdu)
    BY <1>0, <1>1, <2>3
  <2>6. queueSize' \in Nat
    BY <1>2, <2>5, ReportedType
  <2> QED
    BY <1>0, <1>1, <1>2, <2>3, <2>4, <2>6 DEF Sizes
<1>8. CASE ~fits
  <2>1. txBuffer' = txBuffer /\ txBufferSize' = txBufferSize
    BY <1>2, <1>8
  <2>2. queueSize' \in Nat
    BY <1>0, <1>1, <1>2, <2>1, ReportedType
  <2> HIDE DEF fits
  <2> QED
    BY <1>0, <1>1, <1>2, <2>1, <2>2 DEF Sizes
<1> QED
  BY <1>7, <1>8

\* An RLC call takes off what it sends.
LEMMA RlcCallSizes ==
  ASSUME Inv, Sizes, NEW r \in Rlc, RlcCall(r)
  PROVE  Sizes'
<1>0. /\ txBuffer \in [Rlc -> Seq(Pdu)] /\ op.bytes \in Nat
      /\ accepted' = accepted /\ queueSize' = queueSize
  BY DEF Inv, Types, Opportunity, RlcCall, OpportunityTooSmall, NoDataPending,
         SendSegment, SendWhole
<1>1. /\ txBufferSize \in [Rlc -> 0..MaxTxBufferSize] /\ MaxTxBufferSize \in Nat
      /\ txBufferSize[r] \in Nat /\ txBufferSize[r] <= MaxTxBufferSize
      /\ flagForRlc2 \in Nat
  BY SizeAssumption DEF Sizes
<1>2. \A remain \in Nat, toggle, noData \in BOOLEAN : \A m :
        Returned(r, remain, toggle, noData, m) => flagForRlc2' \in Nat
  BY <1>1 DEF Returned
<1>3. Kept(r) \in Nat
  BY DEF Kept
<1>4. CASE OpportunityTooSmall(r)
  <2>1. Returned(r, Kept(r), FALSE, FALSE, 0)
        /\ UNCHANGED <<txBuffer, txBufferSize, rbsTimer>>
    BY <1>4 DEF OpportunityTooSmall, rlcVars
  <2>2. flagForRlc2' \in Nat
    BY <1>2, <1>3, <2>1
  <2> QED
    BY <1>0, <2>1, <2>2 DEF Sizes
<1>5. CASE NoDataPending(r)
  <2>1. Returned(r, op.bytes + 4, TRUE, TRUE, 0)
        /\ UNCHANGED <<txBuffer, txBufferSize, rbsTimer>>
    BY <1>5 DEF NoDataPending, rlcVars
  <2>2. op.bytes + 4 \in Nat
    BY <1>0
  <2>3. flagForRlc2' \in Nat
    BY <1>2, <2>1, <2>2
  <2> QED
    BY <1>0, <2>1, <2>3 DEF Sizes
<1>6. ASSUME NEW c, NEW m \in Nat, m <= txBufferSize[r], SumsTo(c, m), Short(c),
             txBuffer' = [txBuffer EXCEPT ![r] = c],
             txBufferSize' = [txBufferSize EXCEPT ![r] = m],
             rbsTimer' \subseteq Rlc, flagForRlc2' \in Nat
      PROVE  Sizes'
  <2>1. \A q \in Rlc : /\ txBuffer'[q] = IF q = r THEN c ELSE txBuffer[q]
                       /\ txBufferSize'[q] = IF q = r THEN m ELSE txBufferSize[q]
    BY <1>0, <1>1, <1>6
  <2>2. m \in 0..MaxTxBufferSize
    BY <1>1, <1>6
  <2>3. txBufferSize' \in [Rlc -> 0..MaxTxBufferSize]
    BY <1>1, <1>6, <2>2
  <2>4. \A q \in Rlc : SumsTo(txBuffer'[q], txBufferSize'[q]) /\ Short(txBuffer'[q])
    BY <1>6, <2>1 DEF Sizes
  <2> QED
    BY <1>0, <1>6, <2>3, <2>4 DEF Sizes
<1>7. \A x : RbsRestarted(r, x) \subseteq Rlc
  BY DEF RbsRestarted, Sizes
<1>8. txBuffer[r] \in Seq(Pdu) /\ SumsTo(txBuffer[r], txBufferSize[r]) /\ Short(txBuffer[r])
  BY <1>0 DEF Sizes
<1>9. CASE SendSegment(r)
  <2> DEFINE b == txBuffer[r]
             taken == op.bytes - 2
             c == <<GiveBack(Head(b), taken)>> \o Tail(b)
             m == SizeAfterSegment(txBufferSize[r], Head(b).size, taken)
             k == MacPdu(taken + 2)
  <2>1. /\ op.bytes > 4 /\ b # <<>> /\ Head(b).size > taken
        /\ txBuffer' = [txBuffer EXCEPT ![r] = c]
        /\ txBufferSize' = [txBufferSize EXCEPT ![r] = m]
        /\ rbsTimer' \subseteq Rlc
        /\ Returned(r, Kept(r), FALSE, FALSE, k)
    BY <1>9, <1>7 DEF SendSegment
  <2>2. taken \in Nat
    BY <1>0, <2>1
  <2> HIDE DEF taken
  <2>3. SumsTo(c, m) /\ Short(c) /\ m \in Nat /\ m <= txBufferSize[r]
    BY <1>1, <1>8, <2>1, <2>2, SumsSegment
  <2> HIDE DEF c, m, k
  <2>4. flagForRlc2' \in Nat
    BY <1>2, <1>3, <2>1
  <2> QED
    BY <1>6, <2>1, <2>3, <2>4
<1>10. CASE SendWhole(r)
  <2> DEFINE b == txBuffer[r]
             size == Head(b).size
             room == op.bytes - 2 - size
             remain == IF Toggles(room) THEN room ELSE 0
             m == txBufferSize[r] - size
             c == Tail(b)
             k == MacPdu(size + 2)
  <2>1. /\ b # <<>> /\ room >= 0
        /\ txBuffer' = [txBuffer EXCEPT ![r] = c]
        /\ txBufferSize' = [txBufferSize EXCEPT ![r] = m]
        /\ rbsTimer' \subseteq Rlc
        /\ Returned(r, remain, Toggles(room), FALSE, k)
    BY <1>10, <1>7 DEF SendWhole
  <2>2. SumsTo(c, m) /\ Short(c) /\ m \in Nat /\ m <= txBufferSize[r]
    BY <1>1, <1>8, <2>1, SumsTail
  <2>3. size \in Nat
    <3>1. Head(b) = b[1] /\ 1 \in 1..Len(b)
      BY <2>1, <1>8
    <3> QED
      BY <3>1, <1>8, Fields
  <2> HIDE DEF c, m, k, size, b
  <2>4. remain \in Nat /\ Toggles(room) \in BOOLEAN
    BY <1>0, <2>1, <2>3 DEF Toggles
  <2> HIDE DEF remain, room, Toggles
  <2>5. flagForRlc2' \in Nat
    BY <1>2, <2>1, <2>4
  <2> QED
    BY <1>6, <2>1, <2>2, <2>5
<1> QED
  BY <1>4, <1>5, <1>9, <1>10 DEF RlcCall

\* Every step.
LEMMA NextSizes ==
  ASSUME Inv, Sizes, [Next]_vars
  PROVE  Sizes'
<1>1. ASSUME NEW r \in Rlc, NEW size \in SduSizes, NEW addTop \in BOOLEAN,
             DoTransmitPdcpPdu(r, size, addTop)
      PROVE  Sizes'
  BY <1>1, DoTransmitPdcpPduSizes
<1>2. ASSUME NEW tbs \in TbSizes, ScheduleDl(tbs) PROVE Sizes'
  <2>1. /\ queueSize' = AssignedData(tbs - 3)
        /\ UNCHANGED <<txBuffer, txBufferSize, rbsTimer, flagForRlc2, accepted>>
    BY <1>2 DEF ScheduleDl, rlcVars
  <2>2. tbs - 3 \in Nat
    BY SizeAssumption
  <2>3. queueSize' \in Nat
    BY <2>1, <2>2 DEF AssignedData, Sizes
  <2> QED
    BY <2>1, <2>3 DEF Sizes
<1>3. ASSUME NEW r \in Rlc, ExpireRbsTimer(r) PROVE Sizes'
  <2>1. /\ UNCHANGED <<txBuffer, txBufferSize, flagForRlc2, accepted>>
        /\ rbsTimer' \subseteq Rlc
        /\ queueSize' \in {queueSize, Reported(txBuffer[r], txBufferSize[r])}
    BY <1>3 DEF ExpireRbsTimer, Sizes
  <2>2. txBuffer[r] \in Seq(Pdu) /\ txBufferSize[r] \in Nat
    BY SizeAssumption DEF Inv, Types, Sizes
  <2>3. queueSize' \in Nat
    BY <2>1, <2>2, ReportedType DEF Sizes
  <2> QED
    BY <2>1, <2>3 DEF Sizes
<1>4. ASSUME NEW r \in Rlc, RlcCall(r) PROVE Sizes'
  BY <1>4, RlcCallSizes
<1>5. CASE EndOpportunity
  BY <1>5 DEF EndOpportunity, rlcVars, Sizes
<1>6. CASE OtherBearer
  <2>1. flagForRlc2' \in Nat
    BY <1>6 DEF OtherBearer
  <2> QED
    BY <1>6, <2>1 DEF OtherBearer, rlcVars, Sizes
<1>7. CASE UNCHANGED vars
  BY <1>7 DEF vars, Sizes
<1> QED
  BY <1>1, <1>2, <1>3, <1>4, <1>5, <1>6, <1>7 DEF Next

\* At the start there is nothing to sum.
LEMMA InitSizes == Init => Sizes
<1> SUFFICES ASSUME Init PROVE Sizes
  OBVIOUS
<1>1. SumsTo(<<>>, 0)
  <2> DEFINE g == [i \in 1..1 |-> 0]
  <2>1. Len(<<>>) = 0 /\ g \in [1..(Len(<<>>) + 1) -> Nat] /\ g[1] = 0 /\ g[Len(<<>>) + 1] = 0
    OBVIOUS
  <2> HIDE DEF g
  <2>2. \A i \in 1..Len(<<>>) : g[i] = <<>>[i].size + g[i + 1]
    BY <2>1
  <2> QED
    BY <2>1, <2>2 DEF SumsTo
<1>2. Short(<<>>)
  BY DEF Short
<1> QED
  BY <1>1, <1>2, SizeAssumption DEF Init, Sizes

\* A non-empty set of natural numbers has a least element.
LEMMA Least ==
  ASSUME NEW T, T \subseteq Nat, T # {}
  PROVE  \E m \in T : \A y \in T : m <= y
<1>1. PICK R : R = OpToRel(<, Nat)
  OBVIOUS
<1>2. IsWellFoundedOn(R, Nat)
  BY <1>1, NatLessThanWellFounded
<1>3. \A y, m \in Nat : y < m => <<y, m>> \in R
  BY <1>1 DEF OpToRel
<1>4. PICK m \in T : \A y \in T : ~(<<y, m>> \in R)
  BY <1>2, WFMin
<1>5. ASSUME NEW y \in T PROVE m <= y
  <2>1. y \in Nat /\ m \in Nat
    OBVIOUS
  <2>2. ~(y < m)
    BY <2>1, <1>3, <1>4, Zenon
  <2> QED
    BY <2>1, <2>2
<1> QED
  BY <1>5

\* Adding up from the head and from the end give the same number.  The recursion
\* of Bytes has a solution, read off the table; it is the only one.
LEMMA SumsAreBytes ==
  ASSUME NEW b \in Seq(Pdu), NEW n \in Nat, SumsTo(b, n)
  PROVE  Bytes(b) = n
<1>1. PICK g \in [1..(Len(b) + 1) -> Nat] :
        /\ g[1] = n
        /\ g[Len(b) + 1] = 0
        /\ \A i \in 1..Len(b) : g[i] = b[i].size + g[i + 1]
  BY DEF SumsTo
<1>2. PICK z \in Nat : z = Len(b)
  OBVIOUS
<1>3. ASSUME NEW i \in 1..z PROVE b[i].size \in Nat
  <2>1. i \in 1..Len(b)
    BY <1>2
  <2> QED
    BY <2>1, Fields
<1> DEFINE h == [i \in 0..z |-> n - g[i + 1]]
           Sums(f) == f = [i \in 0..z |-> IF i = 0 THEN 0 ELSE f[i - 1] + b[i].size]
<1>4. Sums(h)
  <2>1. h[0] = 0
    BY <1>1, <1>2
  <2>2. ASSUME NEW i \in 1..z PROVE h[i] = h[i - 1] + b[i].size
    <3>1. /\ i \in 1..(z + 1) /\ i + 1 \in 1..(z + 1) /\ i \in 0..z /\ i - 1 \in 0..z
          /\ (i - 1) + 1 = i
      BY <1>2
    <3>2. g[i] \in Nat /\ g[i + 1] \in Nat /\ g[i] = b[i].size + g[i + 1]
      BY <1>1, <1>2, <3>1
    <3>3. h[i] = n - g[i + 1] /\ h[i - 1] = n - g[i]
      BY <3>1
    <3> QED
      BY <1>3, <3>2, <3>3, SMTT(20)
  <2>3. h = [i \in 0..z |-> h[i]]
    OBVIOUS
  <2> HIDE DEF h
  <2>4. \A i \in 0..z : h[i] = IF i = 0 THEN 0 ELSE h[i - 1] + b[i].size
    <3>1. \A i \in 0..z : i = 0 \/ i \in 1..z
      BY <1>2
    <3> QED
      BY <2>1, <2>2, <3>1
  <2> QED
    BY <2>3, <2>4
<1>5. PICK f : Sums(f) /\ Bytes(b) = f[z]
  <2> DEFINE upTo[i \in 0..Len(b)] == IF i = 0 THEN 0 ELSE upTo[i - 1] + b[i].size
  <2>1. Sums(upTo)
    BY <1>2, <1>4
  <2>2. Bytes(b) = upTo[z]
    BY <1>2 DEF Bytes
  <2> HIDE DEF upTo, Sums
  <2> QED
    BY <2>1, <2>2
<1> HIDE DEF h
<1>6. ASSUME NEW i \in 1..z PROVE f[i] = f[i - 1] + b[i].size /\ h[i] = h[i - 1] + b[i].size
  <2>1. i \in 0..z /\ i # 0
    BY <1>2
  <2> QED
    BY <1>4, <1>5, <2>1
<1>7. f[0] = h[0]
  BY <1>2, <1>4, <1>5
<1> HIDE DEF Sums
<1> DEFINE T == {i \in 0..z : f[i] # h[i]}
<1>8. T = {}
  <2> SUFFICES ASSUME T # {} PROVE FALSE
    OBVIOUS
  <2>1. PICK m \in T : \A y \in T : m <= y
    <3>1. T \subseteq Nat
      BY <1>2
    <3> HIDE DEF T
    <3> QED
      BY <3>1, Least
  <2>2. m \in 1..z /\ m - 1 \in 0..z /\ ~(m <= m - 1)
    BY <1>2, <1>7
  <2>3. f[m - 1] = h[m - 1]
    BY <2>1, <2>2
  <2> QED
    BY <1>6, <2>2, <2>3
<1>9. z \in 0..z /\ h[z] = n - g[z + 1] /\ g[z + 1] = 0
  BY <1>1, <1>2 DEF h
<1> QED
  BY <1>5, <1>8, <1>9

\* m_txBufferSize is the number of bytes waiting, remainders included, after every
\* way to insert, send whole and send in pieces, and respects the limit.
THEOREM BytesAccountedHolds == Spec => []BytesAccounted
<1>1. Inv /\ Sizes => BytesAccounted
  <2> SUFFICES ASSUME Inv, Sizes, NEW r \in Rlc
               PROVE  txBufferSize[r] = Bytes(txBuffer[r]) /\ txBufferSize[r] <= MaxTxBufferSize
    BY DEF BytesAccounted
  <2>1. /\ txBuffer[r] \in Seq(Pdu) /\ txBufferSize[r] \in Nat
        /\ SumsTo(txBuffer[r], txBufferSize[r]) /\ txBufferSize[r] <= MaxTxBufferSize
    BY SizeAssumption DEF Inv, Types, Sizes
  <2> QED
    BY <2>1, SumsAreBytes
<1>2. Inv /\ Sizes /\ [Next]_vars => Sizes'
  BY NextSizes
<1> QED
  BY <1>1, <1>2, InitSizes, Invariance, PTL DEF Spec

\* Every field keeps its type: in particular the unsigned subtractions of
\* m_txBufferSize and of remain - 3 - 1 never go below zero.
THEOREM TypeOKHolds == Spec => []TypeOK
<1>1. Inv /\ Sizes => TypeOK
  <2> SUFFICES ASSUME Inv, Sizes PROVE TypeOK
    OBVIOUS
  <2>1. /\ txBuffer \in [Rlc -> Seq(Pdu)] /\ sending \in [Rlc -> Nat]
        /\ accepted \in Nat /\ op \in Opportunity /\ Buffers
        /\ accepted <= MaxSdu /\ MaxSdu \in Nat
    BY SizeAssumption DEF Inv, Types, Sizes
  <2>2. ASSUME NEW r \in Rlc, NEW i \in DOMAIN txBuffer[r]
        PROVE  txBuffer[r][i] \in [sdu : 1..MaxSdu, size : 1..LongestSdu, full : BOOLEAN]
    <3> DEFINE b == txBuffer[r]
    <3>1. b \in Seq(Pdu) /\ Good(b, sending[r], accepted) /\ Short(b)
      BY <2>1 DEF Buffers, Sizes
    <3>2. i \in 1..Len(b)
      BY <2>2, <3>1
    <3>3. /\ b[i] \in Pdu /\ b[i].sdu \in Nat /\ b[i].sdu # 0
          /\ b[i].size \in Nat /\ b[i].size # 0
      BY <3>1, <3>2, Fields DEF NoSdu
    <3>4. b[i].sdu <= accepted /\ b[i].size <= LongestSdu
      BY <3>1, <3>2 DEF Good, Known, Short
    <3>5. b[i].sdu \in 1..MaxSdu
      BY <2>1, <3>3, <3>4
    <3>6. LongestSdu \in Nat
      BY DEF LongestSdu
    <3>7. b[i].size \in 1..LongestSdu
      BY <3>3, <3>4, <3>6
    <3> HIDE DEF b
    <3>8. b[i] \in [sdu : 1..MaxSdu, size : 1..LongestSdu, full : BOOLEAN]
      BY <3>3, <3>5, <3>7 DEF Pdu
    <3> QED
      BY <3>8 DEF b
  <2>3. ASSUME NEW r \in Rlc PROVE sending[r] \in 0..MaxSdu
    <3>1. txBuffer[r] \in Seq(Pdu) /\ Good(txBuffer[r], sending[r], accepted)
          /\ sending[r] \in Nat
      BY <2>1 DEF Buffers
    <3>2. CASE sending[r] = NoSdu
      BY <2>1, <3>2 DEF NoSdu
    <3>3. CASE sending[r] # NoSdu
      <4>1. 1 \in 1..Len(txBuffer[r]) /\ txBuffer[r][1].sdu = sending[r]
        BY <3>1, <3>3 DEF Good, HeadHalf
      <4>2. sending[r] <= accepted
        BY <3>1, <4>1 DEF Good, Known
      <4> QED
        BY <2>1, <3>1, <4>2
    <3> QED
      BY <3>2, <3>3
  <2>4. txBufferSize \in [Rlc -> Nat] /\ accepted \in 0..MaxSdu
    BY <2>1, SizeAssumption DEF Sizes
  <2>5. sending \in [Rlc -> 0..MaxSdu]
    BY <2>1, <2>3
  <2> QED
    BY <2>1, <2>2, <2>4, <2>5 DEF TypeOK, Sizes, Opportunity
<1>2. Inv /\ Sizes /\ [Next]_vars => Sizes'
  BY NextSizes
<1> QED
  BY <1>1, <1>2, InitSizes, Invariance, PTL DEF Spec
=============================================================================
