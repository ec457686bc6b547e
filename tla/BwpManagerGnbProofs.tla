------------------------ MODULE BwpManagerGnbProofs ------------------------
(***************************************************************************)
(* Proofs about BwpManagerGnb, for every set of SDU and transport block    *)
(* sizes, every buffer limit and every length of the short MAC header.     *)
(***************************************************************************)
EXTENDS BwpManagerGnb, SequenceTheorems, TLAPS

-----------------------------------------------------------------------------
(* What happens to one transmit buffer. *)

Pdu == [sdu : Nat \ {0}, size : Nat \ {0}, full : BOOLEAN]

\* The names of the SDUs in a buffer, which is what RlcLegs keeps.
Ids(b) == [i \in DOMAIN b |-> b[i].sdu]

\* A buffer b whose half-sent SDU is s, when n SDUs have been named: SduContiguous
\* for one RLC, and no SDU is in the buffer twice or has a name not yet given.
HeadHalf(b, s) == s # NoSdu => b # <<>> /\ b[1].sdu = s
OnlyHalf(b, s) == \A i \in 1..Len(b) : ~b[i].full <=> b[i].sdu = s
Known(b, n) == \A i \in 1..Len(b) : b[i].sdu <= n
Distinct(b) == \A i, j \in 1..Len(b) : i # j => b[i].sdu # b[j].sdu
Good(b, s, n) == HeadHalf(b, s) /\ OnlyHalf(b, s) /\ Known(b, n) /\ Distinct(b)

\* The fields of a PDU in a buffer.
LEMMA Fields ==
  ASSUME NEW b \in Seq(Pdu), NEW i \in 1..Len(b)
  PROVE  /\ b[i] \in Pdu
         /\ b[i].sdu \in Nat /\ b[i].sdu # NoSdu
         /\ b[i].size \in Nat /\ b[i].size # 0
<1>1. b[i] \in Pdu
  OBVIOUS
<1> QED
  BY <1>1 DEF Pdu, NoSdu

\* insert (++begin ()): the elements of the buffer afterwards.
LEMMA InsertSecond ==
  ASSUME NEW S, NEW b \in Seq(S), b # <<>>, NEW x \in S,
         NEW c, c = <<Head(b), x>> \o Tail(b)
  PROVE  /\ c \in Seq(S) /\ Len(c) = Len(b) + 1
         /\ c[1] = b[1] /\ c[2] = x
         /\ \A i \in 3..Len(c) : c[i] = b[i - 1]
<1> DEFINE a == <<Head(b), x>>
           t == Tail(b)
<1>0. c = a \o t
  OBVIOUS
<1>1. /\ a \in Seq(S) /\ Len(a) = 2 /\ a[1] = b[1] /\ a[2] = x
  OBVIOUS
<1>2. /\ t \in Seq(S) /\ Len(t) = Len(b) - 1
      /\ \A i \in 1..Len(t) : t[i] = b[i + 1]
  OBVIOUS
<1> HIDE DEF a, t
<1>8. a \in Seq(S) /\ t \in Seq(S)
  BY <1>1, <1>2
<1>3. /\ c \in Seq(S) /\ Len(c) = Len(a) + Len(t)
      /\ \A i \in 1..(Len(a) + Len(t)) :
           c[i] = IF i <= Len(a) THEN a[i] ELSE t[i - Len(a)]
  BY <1>0, <1>8, ConcatProperties, ZenonT(30)
<1>4. Len(b) \in Nat /\ Len(c) = Len(b) + 1
  BY <1>1, <1>2, <1>3
<1>5. c[1] = b[1] /\ c[2] = x
  BY <1>1, <1>2, <1>3, <1>4
<1>6. ASSUME NEW i \in 3..Len(c) PROVE c[i] = b[i - 1]
  <2>1. i \in 1..(Len(a) + Len(t)) /\ ~(i <= Len(a)) /\ i - Len(a) \in 1..Len(t)
    BY <1>1, <1>2, <1>3, <1>4
  <2>2. c[i] = t[i - Len(a)]
    BY <2>1, <1>3
  <2>3. t[i - Len(a)] = b[(i - Len(a)) + 1]
    BY <2>1, <1>2
  <2> QED
    BY <2>2, <2>3, <1>1, <1>4
<1> QED
  BY <1>3, <1>4, <1>5, <1>6

\* insert (begin ()) after erase (begin ()): only the head is another one.
LEMMA ReplaceHead ==
  ASSUME NEW S, NEW b \in Seq(S), b # <<>>, NEW x \in S,
         NEW c, c = <<x>> \o Tail(b)
  PROVE  /\ c \in Seq(S) /\ Len(c) = Len(b) /\ c # <<>>
         /\ c[1] = x
         /\ \A i \in 2..Len(c) : c[i] = b[i]
<1> DEFINE a == <<x>>
           t == Tail(b)
<1>0. c = a \o t
  OBVIOUS
<1>1. /\ a \in Seq(S) /\ Len(a) = 1 /\ a[1] = x
  OBVIOUS
<1>2. /\ t \in Seq(S) /\ Len(t) = Len(b) - 1
      /\ \A i \in 1..Len(t) : t[i] = b[i + 1]
  OBVIOUS
<1>3. Len(b) \in Nat /\ Len(b) >= 1
  OBVIOUS
<1> HIDE DEF a, t
<1>8. a \in Seq(S) /\ t \in Seq(S)
  BY <1>1, <1>2
<1>4. /\ c \in Seq(S) /\ Len(c) = Len(a) + Len(t)
      /\ \A i \in 1..(Len(a) + Len(t)) :
           c[i] = IF i <= Len(a) THEN a[i] ELSE t[i - Len(a)]
  BY <1>0, <1>8, ConcatProperties, ZenonT(30)
<1>5. Len(c) = Len(b)
  BY <1>1, <1>2, <1>3, <1>4
<1>6. c[1] = x /\ c # <<>>
  BY <1>1, <1>2, <1>3, <1>4, <1>5
<1>7. ASSUME NEW i \in 2..Len(c) PROVE c[i] = b[i]
  <2>1. i \in 1..(Len(a) + Len(t)) /\ ~(i <= Len(a)) /\ i - Len(a) \in 1..Len(t)
    BY <1>1, <1>2, <1>3, <1>4, <1>5
  <2>2. c[i] = t[i - Len(a)]
    BY <2>1, <1>4
  <2>3. t[i - Len(a)] = b[(i - Len(a)) + 1]
    BY <2>1, <1>2
  <2> QED
    BY <2>2, <2>3, <1>1, <1>3, <1>5
<1> QED
  BY <1>4, <1>5, <1>6, <1>7

\* Naming one more SDU elsewhere changes nothing.
LEMMA GoodElsewhere ==
  ASSUME NEW b \in Seq(Pdu), NEW s \in Nat, NEW n \in Nat, Good(b, s, n)
  PROVE  Good(b, s, n + 1)
<1>1. Known(b, n + 1)
  <2>1. \A i \in 1..Len(b) : b[i].sdu \in Nat
    BY Fields
  <2> QED
    BY <2>1 DEF Good, Known
<1> QED
  BY <1>1 DEF Good

\* The half-sent SDU has a name, and the next name is new to the buffer.
LEMMA NamesBelow ==
  ASSUME NEW b \in Seq(Pdu), NEW s \in Nat, NEW n \in Nat, Good(b, s, n)
  PROVE  s # n + 1 /\ \A k \in 1..Len(b) : b[k].sdu # n + 1
<1>1. \A k \in 1..Len(b) : b[k].sdu \in Nat /\ b[k].sdu <= n
  BY Fields DEF Good, Known
<1>2. CASE s = NoSdu
  BY <1>1, <1>2 DEF NoSdu
<1>3. CASE s # NoSdu
  <2>1. 1 \in 1..Len(b) /\ b[1].sdu = s
    BY <1>3 DEF Good, HeadHalf
  <2> QED
    BY <1>1, <2>1
<1> QED
  BY <1>2, <1>3

\* A buffer c got from b by adding one fresh SDU at place k, not before the head.
LEMMA GoodInserted ==
  ASSUME NEW b \in Seq(Pdu), NEW s \in Nat, NEW n \in Nat, Good(b, s, n),
         NEW p \in Pdu, p.sdu = n + 1, p.full,
         NEW c \in Seq(Pdu), Len(c) = Len(b) + 1,
         NEW k \in 1..Len(c), k = 1 => b = <<>>,
         c[k] = p,
         \A i \in 1..Len(c) : i < k => c[i] = b[i],
         \A i \in 1..Len(c) : i > k => c[i] = b[i - 1]
  PROVE  Good(c, s, n + 1)
<1> DEFINE From(i) == IF i < k THEN i ELSE i - 1
<1>0. Len(b) \in Nat
  OBVIOUS
<1>1. \A i \in 1..Len(c) : i # k => From(i) \in 1..Len(b) /\ c[i] = b[From(i)]
  BY <1>0
<1>2. \A i, j \in 1..Len(c) : i # k /\ j # k /\ i # j => From(i) # From(j)
  BY <1>0
<1> HIDE DEF From
<1>3. s # n + 1 /\ \A i \in 1..Len(b) : b[i].sdu # n + 1
  BY NamesBelow
<1>4. HeadHalf(c, s)
  <2> SUFFICES ASSUME s # NoSdu PROVE c # <<>> /\ c[1].sdu = s
    BY DEF HeadHalf
  <2>1. b # <<>> /\ b[1].sdu = s
    BY DEF Good, HeadHalf
  <2>2. 1 \in 1..Len(c) /\ 1 < k /\ c # <<>>
    BY <2>1, <1>0
  <2>3. c[1] = b[1]
    BY <2>2
  <2> QED
    BY <2>1, <2>2, <2>3
<1>5. OnlyHalf(c, s)
  <2> SUFFICES ASSUME NEW i \in 1..Len(c) PROVE ~c[i].full <=> c[i].sdu = s
    BY DEF OnlyHalf
  <2>1. CASE i = k
    <3>1. c[i].full /\ c[i].sdu # s
      BY <2>1, <1>3
    <3> QED
      BY <3>1
  <2>2. CASE i # k
    BY <2>2, <1>1, ZenonT(30) DEF Good, OnlyHalf
  <2> QED
    BY <2>1, <2>2
<1>6. Known(c, n + 1)
  <2> SUFFICES ASSUME NEW i \in 1..Len(c) PROVE c[i].sdu <= n + 1
    BY DEF Known
  <2>1. CASE i = k
    BY <2>1
  <2>2. CASE i # k
    <3>1. b[From(i)].sdu \in Nat /\ b[From(i)].sdu <= n
      BY <2>2, <1>1, Fields DEF Good, Known
    <3> QED
      BY <3>1, <2>2, <1>1
  <2> QED
    BY <2>1, <2>2
<1>7. Distinct(c)
  <2> SUFFICES ASSUME NEW i \in 1..Len(c), NEW j \in 1..Len(c), i # j
               PROVE  c[i].sdu # c[j].sdu
    BY DEF Distinct
  <2>1. CASE i = k
    BY <2>1, <1>1, <1>3
  <2>2. CASE j = k
    BY <2>2, <1>1, <1>3
  <2>3. CASE i # k /\ j # k
    BY <2>3, <1>1, <1>2, SMTT(20) DEF Good, Distinct
  <2> QED
    BY <2>1, <2>2, <2>3
<1> QED
  BY <1>4, <1>5, <1>6, <1>7 DEF Good

\* DoTransmitPdcpPdu keeps the half-sent SDU at the head, with addTop or not.
LEMMA GoodStored ==
  ASSUME NEW b \in Seq(Pdu), NEW s \in Nat, NEW n \in Nat, Good(b, s, n),
         NEW p \in Pdu, p.sdu = n + 1, p.full, NEW addTop \in BOOLEAN
  PROVE  Stored(b, p, addTop) \in Seq(Pdu) /\ Good(Stored(b, p, addTop), s, n + 1)
<1>0. Len(b) \in Nat
  OBVIOUS
<1>1. CASE addTop /\ b # <<>>
  <2> DEFINE c == <<Head(b), p>> \o Tail(b)
  <2>0. c = <<Head(b), p>> \o Tail(b) /\ b # <<>>
    BY <1>1
  <2> HIDE DEF c
  <2>1. /\ c \in Seq(Pdu) /\ Len(c) = Len(b) + 1
        /\ c[1] = b[1] /\ c[2] = p
        /\ \A i \in 3..Len(c) : c[i] = b[i - 1]
    BY <2>0, InsertSecond, SMTT(30)
  <2>2. Len(b) >= 1 /\ 2 \in 1..Len(c) /\ 2 # 1
    BY <1>0, <1>1, <2>1
  <2>3. /\ \A i \in 1..Len(c) : i < 2 => c[i] = b[i]
        /\ \A i \in 1..Len(c) : i > 2 => c[i] = b[i - 1]
    BY <1>0, <2>1, <2>2
  <2>4. Good(c, s, n + 1)
    BY <2>1, <2>2, <2>3, GoodInserted
  <2>5. Stored(b, p, addTop) = c
    BY <1>1 DEF Stored, c
  <2> QED
    BY <2>1, <2>4, <2>5
<1>2. CASE ~(addTop /\ b # <<>>)
  <2> DEFINE c == Append(b, p)
  <2>1. /\ c \in Seq(Pdu) /\ Len(c) = Len(b) + 1
        /\ \A i \in 1..Len(b) : c[i] = b[i]
        /\ c[Len(b) + 1] = p
    OBVIOUS
  <2> HIDE DEF c
  <2>2. /\ Len(b) + 1 \in 1..Len(c)
        /\ Len(b) + 1 = 1 => b = <<>>
        /\ \A i \in 1..Len(c) : i < Len(b) + 1 => c[i] = b[i]
        /\ \A i \in 1..Len(c) : i > Len(b) + 1 => c[i] = b[i - 1]
    BY <1>0, <2>1
  <2>4. Good(c, s, n + 1)
    BY <2>1, <2>2, GoodInserted
  <2>5. Stored(b, p, addTop) = c
    BY <1>2 DEF Stored, c
  <2> QED
    BY <2>1, <2>4, <2>5
<1> QED
  BY <1>1, <1>2

\* Behind the head of a good buffer every SDU is untouched.
LEMMA RestFull ==
  ASSUME NEW b \in Seq(Pdu), NEW s \in Nat, NEW n \in Nat, Good(b, s, n),
         NEW k \in 2..Len(b)
  PROVE  b[k].full /\ b[k].sdu # b[1].sdu
<1>1. k \in 1..Len(b) /\ 1 \in 1..Len(b) /\ k # 1
  OBVIOUS
<1>2. b[k].sdu # b[1].sdu /\ b[k].sdu # NoSdu
  BY <1>1, Fields DEF Good, Distinct
<1>3. b[k].sdu # s
  BY <1>2 DEF Good, HeadHalf
<1> QED
  BY <1>1, <1>2, <1>3 DEF Good, OnlyHalf

\* A segment leaves a shorter head, which is now the half-sent SDU.
LEMMA GoodSegment ==
  ASSUME NEW b \in Seq(Pdu), NEW s \in Nat, NEW n \in Nat, Good(b, s, n), b # <<>>,
         NEW taken \in Nat, Head(b).size > taken
  PROVE  LET c == <<GiveBack(Head(b), taken)>> \o Tail(b)
         IN /\ c \in Seq(Pdu) /\ Good(c, Head(b).sdu, n) /\ Ids(c) = Ids(b)
<1> DEFINE h == GiveBack(Head(b), taken)
           c == <<h>> \o Tail(b)
<1>0. Len(b) \in Nat /\ Len(b) >= 1 /\ 1 \in 1..Len(b) /\ Head(b) = b[1]
  OBVIOUS
<1>1. h \in Pdu /\ h.sdu = b[1].sdu /\ h.full = FALSE
  <2>1. /\ b[1] \in Pdu
        /\ b[1].size \in Nat
    BY <1>0, Fields
  <2>2. b[1].size - taken \in Nat \ {0}
    BY <2>1, <1>0
  <2>3. h = [b[1] EXCEPT !.size = b[1].size - taken, !.full = FALSE]
    BY <1>0 DEF GiveBack
  <2> HIDE DEF h
  <2> QED
    BY <2>1, <2>2, <2>3 DEF Pdu
<1>8. c = <<h>> \o Tail(b)
  OBVIOUS
<1> HIDE DEF h, c
<1>2. /\ c \in Seq(Pdu) /\ Len(c) = Len(b) /\ c # <<>>
      /\ c[1] = h
      /\ \A i \in 2..Len(c) : c[i] = b[i]
  BY <1>1, <1>8, ReplaceHead, SMTT(30)
<1>3. \A i \in 1..Len(c) : i \in 1..Len(b) /\ c[i].sdu = b[i].sdu
  BY <1>0, <1>1, <1>2
<1>4. Ids(c) = Ids(b)
  BY <1>0, <1>2, <1>3 DEF Ids
<1>5. OnlyHalf(c, b[1].sdu)
  <2> SUFFICES ASSUME NEW i \in 1..Len(c) PROVE ~c[i].full <=> c[i].sdu = b[1].sdu
    BY DEF OnlyHalf
  <2>1. CASE i = 1
    BY <2>1, <1>1, <1>2
  <2>2. CASE i # 1
    <3>1. i \in 2..Len(b) /\ i \in 2..Len(c)
      BY <2>2, <1>0, <1>2
    <3> QED
      BY <3>1, <1>2, RestFull
  <2> QED
    BY <2>1, <2>2
<1>6. HeadHalf(c, b[1].sdu)
  BY <1>1, <1>2 DEF HeadHalf
<1>7. Known(c, n) /\ Distinct(c)
  BY <1>3 DEF Good, Known, Distinct
<1> QED
  BY <1>0, <1>2, <1>4, <1>5, <1>6, <1>7 DEF Good, c, h

\* The end of an SDU leaves a buffer of untouched SDUs.
LEMMA GoodTail ==
  ASSUME NEW b \in Seq(Pdu), NEW s \in Nat, NEW n \in Nat, Good(b, s, n), b # <<>>
  PROVE  Tail(b) \in Seq(Pdu) /\ Good(Tail(b), NoSdu, n)
<1> DEFINE t == Tail(b)
<1>0. Len(b) \in Nat /\ Len(b) >= 1
  OBVIOUS
<1>1. /\ t \in Seq(Pdu) /\ Len(t) = Len(b) - 1
      /\ \A i \in 1..Len(t) : t[i] = b[i + 1]
  OBVIOUS
<1> HIDE DEF t
<1>2. \A i \in 1..Len(t) : i + 1 \in 2..Len(b) /\ i + 1 \in 1..Len(b) /\ t[i] = b[i + 1]
  BY <1>0, <1>1
<1>3. OnlyHalf(t, NoSdu)
  <2> SUFFICES ASSUME NEW i \in 1..Len(t) PROVE t[i].full /\ t[i].sdu # NoSdu
    BY DEF OnlyHalf
  <2>1. b[i + 1].full
    BY <1>2, RestFull
  <2>2. t[i].sdu # NoSdu
    BY <1>1, Fields
  <2> QED
    BY <1>2, <2>1, <2>2
<1>4. HeadHalf(t, NoSdu)
  BY DEF HeadHalf
<1>5. Known(t, n)
  BY <1>2 DEF Good, Known
<1>6. Distinct(t)
  <2> SUFFICES ASSUME NEW i \in 1..Len(t), NEW j \in 1..Len(t), i # j
               PROVE  t[i].sdu # t[j].sdu
    BY DEF Distinct
  <2>1. i + 1 # j + 1
    OBVIOUS
  <2> QED
    BY <2>1, <1>2 DEF Good, Distinct
<1> QED
  BY <1>1, <1>3, <1>4, <1>5, <1>6 DEF Good, t

-----------------------------------------------------------------------------
(* The inductive invariant. *)

Opportunity ==
  [turn : {Done} \cup Rlc, bytes : Nat, inLoop : BOOLEAN, noData : SUBSET Rlc,
   tbSize : Nat, used : Nat, pdus : Nat]

Types ==
  /\ txBuffer \in [Rlc -> Seq(Pdu)]
  /\ sending \in [Rlc -> Nat]
  /\ accepted \in Nat
  /\ op \in Opportunity

\* What is offered, with the headers it may need, is still free.
Grant ==
  /\ op.used <= op.tbSize
  /\ op.turn # Done => op.used + op.bytes + 4 <= op.tbSize

Buffers == \A r \in Rlc : Good(txBuffer[r], sending[r], accepted)

Inv == Types /\ Grant /\ Buffers

\* The manager's reaction to a return value keeps the grant: macPdu bytes are
\* used, and when the loop goes on the rest covers them and the next offer.
LEMMA ReturnedGrant ==
  ASSUME Types, Grant, NEW r \in Rlc, op.turn = r,
         NEW remain \in Nat, NEW toggle \in BOOLEAN, NEW noData \in BOOLEAN,
         NEW macPdu \in Nat,
         op.used + macPdu <= op.tbSize,
         toggle => remain > 4 /\ op.used + macPdu + remain <= op.tbSize,
         Returned(r, remain, toggle, noData, macPdu)
  PROVE  op' \in Opportunity /\ Grant'
<1> DEFINE none == IF noData THEN op.noData \cup {r} ELSE op.noData \ {r}
           quit == op.inLoop /\ NeitherHasData(none)
           count == IF macPdu > 0 THEN op.pdus + 1 ELSE op.pdus
           done == [op EXCEPT !.turn = Done, !.used = @ + macPdu, !.pdus = count]
           more == [done EXCEPT !.turn = Other(r), !.bytes = Offered(remain),
                                !.inLoop = TRUE, !.noData = none]
<1>1. op' = IF toggle /\ ~quit THEN more ELSE done
  BY DEF Returned
<1>2. op \in Opportunity
  BY DEF Types
<1>3. none \in SUBSET Rlc /\ Other(r) \in Rlc
  BY <1>2 DEF Opportunity, Rlc, Other
<1>4. /\ done \in Opportunity /\ done.turn = Done
      /\ done.used = op.used + macPdu /\ done.tbSize = op.tbSize
  <2>1. count \in Nat /\ op.used + macPdu \in Nat
    BY <1>2 DEF Opportunity
  <2> HIDE DEF count
  <2> QED
    BY <1>2, <2>1 DEF Opportunity
<1> HIDE DEF none, quit, done
<1>5. CASE op' = done
  BY <1>4, <1>5 DEF Grant
<1>6. CASE toggle /\ op' = more
  <2>1. Offered(remain) \in Nat /\ Offered(remain) + 4 = remain
    BY <1>6 DEF Offered
  <2> HIDE DEF Offered
  <2>2. /\ more \in Opportunity
        /\ more.used = op.used + macPdu /\ more.tbSize = op.tbSize
        /\ more.bytes = Offered(remain)
    BY <1>3, <1>4, <2>1 DEF Opportunity
  <2>3. op.used \in Nat /\ op.tbSize \in Nat
    BY <1>2 DEF Opportunity
  <2> HIDE DEF more
  <2> QED
    BY <1>6, <2>1, <2>2, <2>3 DEF Grant
<1> QED
  BY <1>1, <1>5, <1>6

\* An RLC call keeps the invariant: its PDU and what it returns fit what it was
\* offered.
LEMMA RlcCallInv ==
  ASSUME Inv, NEW r \in Rlc, RlcCall(r)
  PROVE  Inv'
<1>0. /\ txBuffer \in [Rlc -> Seq(Pdu)] /\ sending \in [Rlc -> Nat]
      /\ accepted \in Nat /\ op \in Opportunity
      /\ op.bytes \in Nat /\ op.used \in Nat /\ op.tbSize \in Nat
  BY DEF Inv, Types, Opportunity
<1>00. Types /\ Grant /\ Buffers
  BY DEF Inv
<1>1. op.turn = r /\ accepted' = accepted
  BY DEF RlcCall, OpportunityTooSmall, NoDataPending, SendSegment, SendWhole
<1>2. r # Done /\ op.used + op.bytes + 4 <= op.tbSize
  BY <1>1, <1>00 DEF Grant, Rlc, Done
<1>3. Kept(r) \in Nat
  BY DEF Kept
<1>4. \A n \in Nat : MacPdu(n) \in Nat /\ MacPdu(n) <= n + 4
  BY DEF MacPdu
<1>5. CASE OpportunityTooSmall(r)
  <2>1. Returned(r, Kept(r), FALSE, FALSE, 0) /\ UNCHANGED <<txBuffer, sending>>
    BY <1>5 DEF OpportunityTooSmall, rlcVars
  <2>2. op' \in Opportunity /\ Grant'
    <3>1. 0 \in Nat /\ op.used + 0 <= op.tbSize
      BY <1>0, <1>2
    <3> QED
      BY <1>00, <1>1, <1>3, <2>1, <3>1, ReturnedGrant
  <2> QED
    BY <1>0, <1>00, <1>1, <2>1, <2>2 DEF Inv, Types, Buffers
<1>6. CASE NoDataPending(r)
  <2>1. /\ Returned(r, op.bytes + 4, TRUE, TRUE, 0) /\ op.bytes > 4
        /\ UNCHANGED <<txBuffer, sending>>
    BY <1>6 DEF NoDataPending, rlcVars
  <2>2. op' \in Opportunity /\ Grant'
    <3>1. /\ 0 \in Nat /\ op.used + 0 <= op.tbSize
          /\ op.bytes + 4 \in Nat /\ op.bytes + 4 > 4
          /\ op.used + 0 + (op.bytes + 4) <= op.tbSize
      BY <1>0, <1>2, <2>1
    <3> QED
      BY <1>00, <1>1, <2>1, <3>1, ReturnedGrant
  <2> QED
    BY <1>0, <1>00, <1>1, <2>1, <2>2 DEF Inv, Types, Buffers
<1>7. CASE SendSegment(r)
  <2> DEFINE b == txBuffer[r]
             taken == op.bytes - 2
             c == <<GiveBack(Head(b), taken)>> \o Tail(b)
  <2>1. /\ op.bytes > 4 /\ b # <<>> /\ Head(b).size > taken
        /\ txBuffer' = [txBuffer EXCEPT ![r] = c]
        /\ sending' = [sending EXCEPT ![r] = Head(b).sdu]
        /\ Returned(r, Kept(r), FALSE, FALSE, MacPdu(taken + 2))
    BY <1>7 DEF SendSegment
  <2>2. taken \in Nat /\ taken + 2 = op.bytes
    BY <1>0, <2>1, SMTT(20)
  <2>3. b \in Seq(Pdu) /\ sending[r] \in Nat /\ Good(b, sending[r], accepted)
    BY <1>0, <1>00 DEF Buffers
  <2> HIDE DEF taken
  <2>4. c \in Seq(Pdu) /\ Good(c, Head(b).sdu, accepted)
    BY <1>0, <2>1, <2>2, <2>3, GoodSegment
  <2>5. Head(b).sdu \in Nat
    <3>1. Head(b) = b[1] /\ 1 \in 1..Len(b)
      BY <2>1, <2>3
    <3> QED
      BY <3>1, <2>3, Fields
  <2>6. op' \in Opportunity /\ Grant'
    <3>1. MacPdu(taken + 2) \in Nat /\ op.used + MacPdu(taken + 2) <= op.tbSize
      <4> DEFINE m == MacPdu(taken + 2)
      <4>1. m \in Nat /\ m <= op.bytes + 4
        BY <1>0, <1>4, <2>2
      <4> HIDE DEF m
      <4>2. m \in Nat /\ op.used + m <= op.tbSize
        BY <1>0, <1>2, <4>1
      <4> QED
        BY <4>2 DEF m
    <3> QED
      BY <1>00, <1>1, <1>3, <2>1, <3>1, ReturnedGrant
  <2> HIDE DEF b, c
  <2>7. /\ txBuffer' \in [Rlc -> Seq(Pdu)] /\ sending' \in [Rlc -> Nat]
        /\ \A q \in Rlc : Good(txBuffer'[q], sending'[q], accepted)
    <3>1. \A q \in Rlc : q # r => txBuffer'[q] = txBuffer[q] /\ sending'[q] = sending[q]
      BY <1>0, <2>1
    <3>2. txBuffer'[r] = c /\ sending'[r] = Head(b).sdu
      BY <1>0, <2>1
    <3> QED
      BY <1>0, <1>00, <2>1, <2>4, <2>5, <3>1, <3>2 DEF Buffers
  <2> QED
    BY <1>0, <1>1, <2>6, <2>7 DEF Inv, Types, Buffers
<1>8. CASE SendWhole(r)
  <2> DEFINE b == txBuffer[r]
             size == Head(b).size
             room == op.bytes - 2 - size
             remain == IF Toggles(room) THEN room ELSE 0
  <2>1. /\ op.bytes > 4 /\ b # <<>> /\ room >= 0
        /\ txBuffer' = [txBuffer EXCEPT ![r] = Tail(b)]
        /\ sending' = [sending EXCEPT ![r] = NoSdu]
        /\ Returned(r, remain, Toggles(room), FALSE, MacPdu(size + 2))
    BY <1>8 DEF SendWhole
  <2>2. b \in Seq(Pdu) /\ sending[r] \in Nat /\ Good(b, sending[r], accepted)
    BY <1>0, <1>00 DEF Buffers
  <2>3. size \in Nat
    <3>1. Head(b) = b[1] /\ 1 \in 1..Len(b)
      BY <2>1, <2>2
    <3> QED
      BY <3>1, <2>2, Fields
  <2>4. Tail(b) \in Seq(Pdu) /\ Good(Tail(b), NoSdu, accepted)
    BY <1>0, <2>1, <2>2, GoodTail
  <2> HIDE DEF size
  <2>5. /\ room \in Nat /\ size + 2 + room = op.bytes
        /\ Toggles(room) \in BOOLEAN /\ remain \in Nat
        /\ Toggles(room) => remain > 4 /\ remain = room
    BY <1>0, <2>1, <2>3 DEF Toggles
  <2> HIDE DEF room, remain
  <2>6. op' \in Opportunity /\ Grant'
    <3>1. /\ MacPdu(size + 2) \in Nat
          /\ op.used + MacPdu(size + 2) <= op.tbSize
          /\ Toggles(room) =>
               remain > 4 /\ op.used + MacPdu(size + 2) + remain <= op.tbSize
      <4> DEFINE m == MacPdu(size + 2)
      <4>1. m \in Nat /\ m <= size + 2 + 4
        BY <1>4, <2>3
      <4> HIDE DEF m
      <4>2. /\ m \in Nat /\ op.used + m <= op.tbSize
            /\ Toggles(room) => remain > 4 /\ op.used + m + remain <= op.tbSize
        BY <1>0, <1>2, <2>3, <2>5, <4>1
      <4> QED
        BY <4>2 DEF m
    <3> HIDE DEF Toggles
    <3> QED
      BY <1>00, <1>1, <2>1, <2>5, <3>1, ReturnedGrant
  <2> HIDE DEF b
  <2>7. /\ txBuffer' \in [Rlc -> Seq(Pdu)] /\ sending' \in [Rlc -> Nat]
        /\ \A q \in Rlc : Good(txBuffer'[q], sending'[q], accepted)
    <3>1. \A q \in Rlc : q # r => txBuffer'[q] = txBuffer[q] /\ sending'[q] = sending[q]
      BY <1>0, <2>1
    <3>2. txBuffer'[r] = Tail(b) /\ sending'[r] = NoSdu
      BY <1>0, <2>1
    <3> QED
      BY <1>0, <1>00, <2>1, <2>4, <3>1, <3>2 DEF Buffers, NoSdu
  <2> QED
    BY <1>0, <1>1, <2>6, <2>7 DEF Inv, Types, Buffers
<1> QED
  BY <1>5, <1>6, <1>7, <1>8 DEF RlcCall

\* Empty buffers and no opportunity in progress.
LEMMA InvInit == Init => Inv
<1> SUFFICES ASSUME Init PROVE Inv
  OBVIOUS
<1>1. <<>> \in Seq(Pdu) /\ Good(<<>>, NoSdu, 0)
  BY DEF Good, HeadHalf, OnlyHalf, Known, Distinct
<1>2. Types
  BY <1>1 DEF Init, Types, Opportunity, Idle, Done, NoSdu
<1>3. Grant
  BY DEF Init, Grant, Idle, Done
<1>4. Buffers
  BY <1>1 DEF Init, Buffers
<1> QED
  BY <1>2, <1>3, <1>4 DEF Inv

\* A PDU from PDCP: its name is new, and it does not displace a half-sent head.
LEMMA DoTransmitPdcpPduInv ==
  ASSUME Inv, NEW r \in Rlc, NEW size \in SduSizes, NEW addTop \in BOOLEAN,
         DoTransmitPdcpPdu(r, size, addTop)
  PROVE  Inv'
<1> DEFINE p == [sdu |-> accepted + 1, size |-> size, full |-> TRUE]
           b == txBuffer[r]
           c == Stored(b, p, addTop)
<1>0. Types /\ Grant /\ Buffers
  BY DEF Inv
<1>1. /\ txBuffer \in [Rlc -> Seq(Pdu)] /\ sending \in [Rlc -> Nat]
      /\ accepted \in Nat /\ op \in Opportunity
  BY <1>0 DEF Types
<1>2. /\ txBuffer' = [txBuffer EXCEPT ![r] = c] \/ txBuffer' = txBuffer
      /\ accepted' = accepted + 1 /\ op' = op /\ sending' = sending
  BY DEF DoTransmitPdcpPdu
<1>3. p \in Pdu /\ p.sdu = accepted + 1 /\ p.full
  <2>1. size \in Nat \ {0}
    BY SizeAssumption
  <2>2. accepted + 1 \in Nat \ {0}
    BY <1>1
  <2> QED
    BY <2>1, <2>2 DEF Pdu
<1>4. b \in Seq(Pdu) /\ sending[r] \in Nat /\ Good(b, sending[r], accepted)
  BY <1>0, <1>1 DEF Buffers
<1> HIDE DEF p, b
<1>5. c \in Seq(Pdu) /\ Good(c, sending[r], accepted + 1)
  BY <1>1, <1>3, <1>4, GoodStored
<1> HIDE DEF c
<1>6. \A q \in Rlc : Good(txBuffer[q], sending[q], accepted + 1)
  BY <1>0, <1>1, GoodElsewhere DEF Buffers
<1>7. Types' /\ Grant'
  <2>1. txBuffer' \in [Rlc -> Seq(Pdu)]
    BY <1>1, <1>2, <1>5
  <2> QED
    BY <1>0, <1>1, <1>2, <2>1 DEF Types, Grant
<1>8. ASSUME NEW q \in Rlc PROVE Good(txBuffer'[q], sending'[q], accepted')
  <2>1. CASE txBuffer'[q] = txBuffer[q]
    BY <2>1, <1>2, <1>6
  <2>2. CASE q = r /\ txBuffer'[q] = c
    BY <2>2, <1>2, <1>5
  <2> QED
    BY <2>1, <2>2, <1>1, <1>2
<1>9. Buffers'
  BY <1>8 DEF Buffers
<1> QED
  BY <1>7, <1>9 DEF Inv

\* A grant of tbs bytes offers tbs - 4, and a transport block has at least 7.
LEMMA ScheduleDlInv ==
  ASSUME Inv, NEW tbs \in TbSizes, ScheduleDl(tbs)
  PROVE  Inv'
<1> DEFINE first == IF flagForRlc2 = 0 THEN 1 ELSE 2
<1>1. /\ op' = [Idle EXCEPT !.turn = first, !.bytes = tbs - 3 - 1, !.tbSize = tbs]
      /\ UNCHANGED <<txBuffer, sending, accepted>>
  BY DEF ScheduleDl, rlcVars
<1>2. tbs \in Nat /\ tbs - 3 - 1 \in Nat /\ (tbs - 3 - 1) + 4 = tbs
  BY SizeAssumption
<1>3. first \in Rlc
  BY DEF Rlc
<1> HIDE DEF first
<1>4. /\ op' \in Opportunity /\ op'.used = 0
      /\ op'.tbSize = tbs /\ op'.bytes = tbs - 3 - 1
  BY <1>1, <1>2, <1>3 DEF Opportunity, Idle, Done
<1>5. Grant'
  BY <1>2, <1>4 DEF Grant
<1> QED
  BY <1>1, <1>4, <1>5 DEF Inv, Types, Buffers

\* Every step keeps the invariant.
LEMMA NextInv == Inv /\ [Next]_vars => Inv'
<1> SUFFICES ASSUME Inv, [Next]_vars PROVE Inv'
  OBVIOUS
<1>1. ASSUME NEW r \in Rlc, NEW size \in SduSizes, NEW addTop \in BOOLEAN,
             DoTransmitPdcpPdu(r, size, addTop)
      PROVE  Inv'
  BY <1>1, DoTransmitPdcpPduInv
<1>2. ASSUME NEW tbs \in TbSizes, ScheduleDl(tbs) PROVE Inv'
  BY <1>2, ScheduleDlInv
<1>3. ASSUME NEW r \in Rlc, ExpireRbsTimer(r) PROVE Inv'
  BY <1>3 DEF ExpireRbsTimer, Inv, Types, Grant, Buffers
<1>4. ASSUME NEW r \in Rlc, RlcCall(r) PROVE Inv'
  BY <1>4, RlcCallInv
<1>5. CASE EndOpportunity
  <2>1. op' = Idle /\ UNCHANGED <<txBuffer, sending, accepted>>
    BY <1>5 DEF EndOpportunity, rlcVars
  <2>2. op' \in Opportunity /\ Grant'
    BY <2>1 DEF Opportunity, Grant, Idle, Done
  <2> QED
    BY <2>1, <2>2 DEF Inv, Types, Buffers
<1>6. CASE OtherBearer
  BY <1>6 DEF OtherBearer, rlcVars, Inv, Types, Grant, Buffers
<1>7. CASE UNCHANGED vars
  BY <1>7 DEF vars, Inv, Types, Grant, Buffers
<1> QED
  BY <1>1, <1>2, <1>3, <1>4, <1>5, <1>6, <1>7 DEF Next

\* So it holds in every reachable state.
LEMMA Invariance == Spec => []Inv
<1> QED
  BY InvInit, NextInv, PTL DEF Spec

-----------------------------------------------------------------------------
(* What follows. *)

\* The PDUs that the two RLCs put into one transport block, MAC headers
\* included, never exceed it: the assertion of NrGnbMac::DoTransmitPdu cannot
\* fail, for any sizes of SDUs and transport blocks and whichever RLC is first.
THEOREM GrantNotExceededHolds == Spec => []GrantNotExceeded
<1>1. Inv => GrantNotExceeded
  BY DEF Inv, Grant, GrantNotExceeded
<1> QED
  BY <1>1, Invariance, PTL

\* LteRlcUm::DoTransmitPdcpPdu never separates the pieces of an SDU: the
\* half-sent one stays at the head, and is the only remainder in the buffer.
THEOREM SduContiguousHolds == Spec => []SduContiguous
<1>1. Inv => SduContiguous
  <2> SUFFICES ASSUME Inv, NEW r \in Rlc
               PROVE /\ sending[r] # NoSdu =>
                          txBuffer[r] # <<>> /\ txBuffer[r][1].sdu = sending[r]
                     /\ \A i \in DOMAIN txBuffer[r] :
                          ~txBuffer[r][i].full <=> txBuffer[r][i].sdu = sending[r]
    BY DEF SduContiguous
  <2>1. txBuffer[r] \in Seq(Pdu) /\ Good(txBuffer[r], sending[r], accepted)
    BY DEF Inv, Types, Buffers
  <2>2. DOMAIN txBuffer[r] = 1..Len(txBuffer[r])
    BY <2>1
  <2> QED
    BY <2>1, <2>2 DEF Good, HeadHalf, OnlyHalf
<1> QED
  BY <1>1, Invariance, PTL

-----------------------------------------------------------------------------
(* The two RLCs are the legs PDCP expects. *)

\* The names form a sequence of the same length.
LEMMA IdsType ==
  ASSUME NEW b \in Seq(Pdu)
  PROVE  /\ Ids(b) \in Seq(Nat) /\ Len(Ids(b)) = Len(b)
         /\ \A i \in 1..Len(b) : Ids(b)[i] = b[i].sdu
         /\ b # <<>> => Ids(b) # <<>>
<1>1. Len(b) \in Nat /\ DOMAIN b = 1..Len(b)
  OBVIOUS
<1>2. \A i \in 1..Len(b) : b[i].sdu \in Nat
  BY Fields
<1>3. Ids(b) \in [1..Len(b) -> Nat]
  BY <1>1, <1>2 DEF Ids
<1>4. Ids(b) \in Seq(Nat) /\ Len(Ids(b)) = Len(b)
  BY <1>1, <1>3
<1>5. \A i \in 1..Len(b) : Ids(b)[i] = b[i].sdu
  BY <1>1 DEF Ids
<1>6. b # <<>> => Ids(b) # <<>>
  BY <1>1, <1>4
<1> QED
  BY <1>4, <1>5, <1>6

\* The names after an SDU is appended.
LEMMA IdsAppend ==
  ASSUME NEW b \in Seq(Pdu), NEW p \in Pdu
  PROVE  Ids(Append(b, p)) = Append(Ids(b), p.sdu)
<1> DEFINE c == Append(b, p)
           x == Ids(c)
           y == Append(Ids(b), p.sdu)
<1>0. Len(b) \in Nat /\ p.sdu \in Nat
  BY DEF Pdu
<1>1. /\ c \in Seq(Pdu) /\ Len(c) = Len(b) + 1
      /\ \A i \in 1..Len(b) : c[i] = b[i]
      /\ c[Len(b) + 1] = p
  OBVIOUS
<1> HIDE DEF c
<1>2. /\ x \in Seq(Nat) /\ Len(x) = Len(b) + 1
      /\ \A i \in 1..(Len(b) + 1) : x[i] = c[i].sdu
  BY <1>1, IdsType
<1>3. /\ Ids(b) \in Seq(Nat) /\ Len(Ids(b)) = Len(b)
      /\ \A i \in 1..Len(b) : Ids(b)[i] = b[i].sdu
  BY IdsType
<1>4. /\ y \in Seq(Nat) /\ Len(y) = Len(b) + 1
      /\ \A i \in 1..Len(b) : y[i] = Ids(b)[i]
      /\ y[Len(b) + 1] = p.sdu
  BY <1>0, <1>3
<1> HIDE DEF x, y
<1>5. ASSUME NEW i \in 1..Len(x) PROVE x[i] = y[i]
  <2>1. i \in 1..(Len(b) + 1) /\ x[i] = c[i].sdu
    BY <1>2
  <2>2. CASE i = Len(b) + 1
    BY <2>1, <2>2, <1>1, <1>4
  <2>3. CASE i # Len(b) + 1
    <3>1. i \in 1..Len(b)
      BY <2>1, <2>3, <1>0
    <3> QED
      BY <2>1, <3>1, <1>1, <1>3, <1>4
  <2> QED
    BY <2>2, <2>3
<1>6. x = y
  BY <1>2, <1>4, <1>5, SeqEqual
<1> QED
  BY <1>6 DEF x, y, c

\* The names after an SDU is put behind the head.
LEMMA IdsInsert ==
  ASSUME NEW b \in Seq(Pdu), b # <<>>, NEW p \in Pdu
  PROVE  Ids(<<Head(b), p>> \o Tail(b)) = <<Head(Ids(b)), p.sdu>> \o Tail(Ids(b))
<1> DEFINE c == <<Head(b), p>> \o Tail(b)
           d == Ids(b)
           x == Ids(c)
           y == <<Head(d), p.sdu>> \o Tail(d)
<1>0. Len(b) \in Nat /\ Len(b) >= 1 /\ p.sdu \in Nat
  BY DEF Pdu
<1>1. c = <<Head(b), p>> \o Tail(b)
  OBVIOUS
<1> HIDE DEF c
<1>2. /\ c \in Seq(Pdu) /\ Len(c) = Len(b) + 1
      /\ c[1] = b[1] /\ c[2] = p
      /\ \A i \in 3..Len(c) : c[i] = b[i - 1]
  BY <1>1, InsertSecond, SMTT(30)
<1>3. /\ x \in Seq(Nat) /\ Len(x) = Len(b) + 1
      /\ \A i \in 1..(Len(b) + 1) : x[i] = c[i].sdu
  BY <1>2, IdsType
<1>4. /\ d \in Seq(Nat) /\ Len(d) = Len(b) /\ d # <<>>
      /\ \A i \in 1..Len(b) : d[i] = b[i].sdu
  BY IdsType
<1> HIDE DEF d
<1>5. y = <<Head(d), p.sdu>> \o Tail(d)
  OBVIOUS
<1> HIDE DEF x, y
<1>6. /\ y \in Seq(Nat) /\ Len(y) = Len(d) + 1
      /\ y[1] = d[1] /\ y[2] = p.sdu
      /\ \A i \in 3..Len(y) : y[i] = d[i - 1]
  BY <1>0, <1>4, <1>5, InsertSecond, SMTT(30)
<1>7. ASSUME NEW i \in 1..Len(x) PROVE x[i] = y[i]
  <2>1. i \in 1..(Len(b) + 1) /\ x[i] = c[i].sdu
    BY <1>3
  <2>2. CASE i = 1
    BY <2>1, <2>2, <1>0, <1>2, <1>4, <1>6
  <2>3. CASE i = 2
    BY <2>1, <2>3, <1>2, <1>6
  <2>4. CASE i > 2
    <3>1. i \in 3..Len(c) /\ i \in 3..Len(y) /\ i - 1 \in 1..Len(b)
      BY <2>1, <2>4, <1>0, <1>2, <1>4, <1>6
    <3> QED
      BY <2>1, <3>1, <1>2, <1>4, <1>6
  <2> QED
    BY <2>1, <2>2, <2>3, <2>4, <1>0
<1>8. x = y
  BY <1>3, <1>4, <1>6, <1>7, SeqEqual
<1> QED
  BY <1>8 DEF x, y, c, d

\* The names after the head is sent.
LEMMA IdsTail ==
  ASSUME NEW b \in Seq(Pdu), b # <<>>
  PROVE  Ids(Tail(b)) = Tail(Ids(b))
<1> DEFINE t == Tail(b)
           d == Ids(b)
           x == Ids(t)
           y == Tail(d)
<1>0. Len(b) \in Nat /\ Len(b) >= 1
  OBVIOUS
<1>1. /\ t \in Seq(Pdu) /\ Len(t) = Len(b) - 1
      /\ \A i \in 1..Len(t) : t[i] = b[i + 1]
  OBVIOUS
<1> HIDE DEF t
<1>2. /\ x \in Seq(Nat) /\ Len(x) = Len(b) - 1
      /\ \A i \in 1..Len(t) : x[i] = t[i].sdu
  BY <1>1, IdsType
<1>3. /\ d \in Seq(Nat) /\ Len(d) = Len(b) /\ d # <<>>
      /\ \A i \in 1..Len(b) : d[i] = b[i].sdu
  BY IdsType
<1> HIDE DEF d
<1>4. /\ y \in Seq(Nat) /\ Len(y) = Len(d) - 1
      /\ \A i \in 1..Len(y) : y[i] = d[i + 1]
  BY <1>3
<1> HIDE DEF x, y
<1>5. ASSUME NEW i \in 1..Len(x) PROVE x[i] = y[i]
  <2>1. i \in 1..Len(t) /\ i \in 1..Len(y) /\ i + 1 \in 1..Len(b)
    BY <1>0, <1>1, <1>2, <1>3, <1>4
  <2> QED
    BY <2>1, <1>1, <1>2, <1>3, <1>4
<1>6. x = y
  BY <1>2, <1>3, <1>4, <1>5, SeqEqual
<1> QED
  BY <1>6 DEF x, y, t, d

\* The refinement mapping, read through Ids.
Queue == [r \in Rlc |-> Ids(txBuffer[r])]
Half == {r \in Rlc : sending[r] # NoSdu}

\* It is the one of ImplementsLegs, now and in the next state.
LEMMA Mapping ==
  /\ Queue = [r \in Rlc |-> [i \in DOMAIN txBuffer[r] |-> txBuffer[r][i].sdu]]
  /\ Queue' = [r \in Rlc |-> [i \in DOMAIN txBuffer'[r] |-> txBuffer'[r][i].sdu]]
<1> QED
  BY DEF Queue, Ids

\* A step that leaves the buffers alone is a stutter of RlcLegs.
LEMMA QuietStep ==
  ASSUME UNCHANGED <<txBuffer, sending>>
  PROVE  UNCHANGED Legs!vars
<1> QED
  BY DEF Legs!vars

\* A PDU from PDCP is queued under a fresh name, or dropped.
LEMMA DoTransmitPdcpPduStep ==
  ASSUME Inv, NEW r \in Rlc, NEW size \in SduSizes, NEW addTop \in BOOLEAN,
         DoTransmitPdcpPdu(r, size, addTop)
  PROVE  [Legs!Next]_(Legs!vars)
<1> DEFINE p == [sdu |-> accepted + 1, size |-> size, full |-> TRUE]
           b == txBuffer[r]
           c == Stored(b, p, addTop)
<1>0. /\ txBuffer \in [Rlc -> Seq(Pdu)] /\ sending \in [Rlc -> Nat]
      /\ accepted \in Nat /\ Buffers
  BY DEF Inv, Types
<1>1. /\ txBuffer' = [txBuffer EXCEPT ![r] = c] \/ txBuffer' = txBuffer
      /\ accepted < MaxSdu /\ sending' = sending
  BY DEF DoTransmitPdcpPdu
<1>2. PICK s \in 1..MaxSdu : s = accepted + 1
  <2>1. accepted + 1 \in 1..MaxSdu
    BY <1>0, <1>1, SizeAssumption
  <2> QED
    BY <2>1
<1>3. p \in Pdu /\ p.sdu = s
  <2>1. size \in Nat \ {0} /\ accepted + 1 \in Nat \ {0}
    BY <1>0, SizeAssumption
  <2> QED
    BY <1>2, <2>1 DEF Pdu
<1>4. b \in Seq(Pdu)
  BY <1>0
<1>5. ASSUME NEW l \in Rlc, NEW i \in DOMAIN Queue[l] PROVE Queue[l][i] # s
  <2>1. /\ txBuffer[l] \in Seq(Pdu) /\ sending[l] \in Nat
        /\ Good(txBuffer[l], sending[l], accepted)
    BY <1>0 DEF Buffers
  <2>2. /\ i \in 1..Len(txBuffer[l]) /\ Queue[l][i] = txBuffer[l][i].sdu
    BY <2>1, <1>5 DEF Queue, Ids
  <2> QED
    BY <1>0, <1>2, <2>1, <2>2, NamesBelow
<1>6. Legs!Fresh(s)
  <2>1. \A l \in Rlc : \A i \in DOMAIN Queue[l] : Queue[l][i] # s
    BY <1>5
  <2> QED
    BY <2>1, Mapping, Zenon DEF Legs!Fresh
<1> HIDE DEF p, b
<1>7. CASE txBuffer' = txBuffer
  BY <1>1, <1>7, QuietStep
<1>8. CASE txBuffer' = [txBuffer EXCEPT ![r] = c]
  <2>1. Half' = Half
    BY <1>1 DEF Half
  <2>2. Queue' = [Queue EXCEPT ![r] = Ids(c)] /\ Queue[r] = Ids(b)
    <3> HIDE DEF c
    <3> QED
      BY <1>0, <1>8 DEF Queue, b
  <2>3. CASE addTop /\ b # <<>>
    <3>1. Ids(c) = <<Head(Queue[r]), s>> \o Tail(Queue[r])
      BY <2>2, <2>3, <1>3, <1>4, IdsInsert DEF Stored
    <3>2. Queue[r] # <<>>
      BY <2>2, <2>3, <1>4, IdsType
    <3> HIDE DEF c
    <3>3. Legs!EnqueueNext(r, s)
      <4>1. Queue' = [Queue EXCEPT ![r] = <<Head(Queue[r]), s>> \o Tail(Queue[r])]
        BY <2>2, <3>1
      <4> QED
        BY <1>6, <2>1, <3>2, <4>1, Mapping, Zenon DEF Legs!EnqueueNext, Half
    <3> QED
      BY <3>3, Zenon DEF Legs!Next
  <2>4. CASE ~(addTop /\ b # <<>>)
    <3>1. Ids(c) = Append(Queue[r], s)
      BY <2>2, <2>4, <1>3, <1>4, IdsAppend DEF Stored
    <3> HIDE DEF c
    <3>2. Legs!Enqueue(r, s)
      <4>1. Queue' = [Queue EXCEPT ![r] = Append(Queue[r], s)]
        BY <2>2, <3>1
      <4> QED
        BY <1>6, <2>1, <4>1, Mapping, Zenon DEF Legs!Enqueue, Half
    <3> QED
      BY <3>2, Zenon DEF Legs!Next
  <2> QED
    BY <2>3, <2>4
<1> QED
  BY <1>1, <1>7, <1>8

\* An RLC call sends a part of the head, its end, or nothing.
LEMMA RlcCallStep ==
  ASSUME Inv, NEW r \in Rlc, RlcCall(r)
  PROVE  [Legs!Next]_(Legs!vars)
<1> DEFINE b == txBuffer[r]
<1>0. /\ txBuffer \in [Rlc -> Seq(Pdu)] /\ sending \in [Rlc -> Nat]
      /\ accepted \in Nat /\ Buffers /\ op.bytes \in Nat
  BY DEF Inv, Types, Opportunity
<1>1. b \in Seq(Pdu) /\ sending[r] \in Nat /\ Good(b, sending[r], accepted)
  BY <1>0 DEF Buffers
<1>2. CASE OpportunityTooSmall(r)
  BY <1>2, QuietStep DEF OpportunityTooSmall, rlcVars
<1>3. CASE NoDataPending(r)
  BY <1>3, QuietStep DEF NoDataPending, rlcVars
<1>4. CASE SendSegment(r)
  <2> DEFINE taken == op.bytes - 2
             c == <<GiveBack(Head(b), taken)>> \o Tail(b)
             h == Head(b).sdu
  <2>1. /\ op.bytes > 4 /\ b # <<>> /\ Head(b).size > taken
        /\ txBuffer' = [txBuffer EXCEPT ![r] = c]
        /\ sending' = [sending EXCEPT ![r] = h]
    BY <1>4 DEF SendSegment
  <2>2. taken \in Nat
    BY <1>0, <2>1
  <2> HIDE DEF taken
  <2>3. Ids(c) = Ids(b)
    BY <1>0, <1>1, <2>1, <2>2, GoodSegment
  <2>4. h # NoSdu
    <3>1. Head(b) = b[1] /\ 1 \in 1..Len(b)
      BY <1>1, <2>1
    <3> QED
      BY <1>1, <3>1, Fields
  <2> HIDE DEF c, h
  <2>5. Queue' = Queue
    BY <1>0, <2>1, <2>3 DEF Queue
  <2>6. Half' = Half \cup {r}
    BY <1>0, <2>1, <2>4 DEF Half
  <2>7. Queue[r] # <<>>
    BY <1>1, <2>1, IdsType DEF Queue
  <2>8. Legs!SendPart(r)
    BY <2>5, <2>6, <2>7, Mapping, Zenon DEF Legs!SendPart, Half
  <2> QED
    BY <2>8 DEF Legs!Next
<1>5. CASE SendWhole(r)
  <2>1. /\ b # <<>>
        /\ txBuffer' = [txBuffer EXCEPT ![r] = Tail(b)]
        /\ sending' = [sending EXCEPT ![r] = NoSdu]
    BY <1>5 DEF SendWhole
  <2>2. Ids(Tail(b)) = Tail(Ids(b))
    BY <1>1, <2>1, IdsTail
  <2> DEFINE t == Tail(b)
  <2>3. Queue[r] = Ids(b) /\ Ids(t) = Tail(Queue[r])
    BY <2>2 DEF Queue
  <2>0. txBuffer' = [txBuffer EXCEPT ![r] = t]
    BY <2>1
  <2> HIDE DEF t
  <2>4. Queue' = [Queue EXCEPT ![r] = Tail(Queue[r])]
    <3>1. Queue' = [Queue EXCEPT ![r] = Ids(t)]
      BY <1>0, <2>0 DEF Queue
    <3> QED
      BY <3>1, <2>3
  <2>5. Half' = Half \ {r}
    BY <1>0, <2>1 DEF Half
  <2>6. Queue[r] # <<>>
    BY <1>1, <2>1, <2>3, IdsType
  <2>7. Legs!SendRest(r)
    BY <2>4, <2>5, <2>6, Mapping, Zenon DEF Legs!SendRest, Half
  <2> QED
    BY <2>7 DEF Legs!Next
<1> QED
  BY <1>2, <1>3, <1>4, <1>5 DEF RlcCall

\* Whatever the scheduler, the other bearers and the timers do, the two RLCs
\* behave as the queues that PDCP duplication counts on (RlcLegs): an SDU is
\* queued once, at the end or behind the head, and leaves without another SDU of
\* the same RLC in between.
THEOREM ImplementsLegsHolds == Spec => ImplementsLegs
<1>1. Init => Legs!Init
  <2> SUFFICES ASSUME Init PROVE Legs!Init
    OBVIOUS
  <2>1. Queue = [r \in Rlc |-> <<>>]
    BY DEF Init, Queue, Ids
  <2>2. Half = {}
    BY DEF Init, Half
  <2> QED
    BY <2>1, <2>2, Mapping, Zenon DEF Legs!Init, Half
<1>2. Inv /\ [Next]_vars => [Legs!Next]_(Legs!vars)
  <2> SUFFICES ASSUME Inv, [Next]_vars PROVE [Legs!Next]_(Legs!vars)
    OBVIOUS
  <2>1. ASSUME NEW r \in Rlc, NEW size \in SduSizes, NEW addTop \in BOOLEAN,
               DoTransmitPdcpPdu(r, size, addTop)
        PROVE  [Legs!Next]_(Legs!vars)
    BY <2>1, DoTransmitPdcpPduStep
  <2>2. ASSUME NEW r \in Rlc, RlcCall(r) PROVE [Legs!Next]_(Legs!vars)
    BY <2>2, RlcCallStep
  <2>3. CASE UNCHANGED <<txBuffer, sending>>
    BY <2>3, QuietStep
  <2> QED
    BY <2>1, <2>2, <2>3 DEF Next, ScheduleDl, ExpireRbsTimer, EndOpportunity,
                            OtherBearer, rlcVars, vars
<1> QED
  BY <1>1, <1>2, Invariance, PTL DEF Spec, ImplementsLegs, Legs!Spec
=============================================================================
