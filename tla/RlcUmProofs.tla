----------------------------- MODULE RlcUmProofs -----------------------------
(***************************************************************************)
(* Proofs about RlcUm, for every window, segmentation, reordering and loss *)
(* that RlcAssumption allows.  Those after BasesAgreeHolds hold up to the  *)
(* first wrap-around of the sequence numbers.                              *)
(***************************************************************************)
EXTENDS RlcUm, FiniteSetTheorems, SequenceTheorems, WellFoundedInduction, TLAPS

-----------------------------------------------------------------------------
(* Sequence numbers. *)

\* The remainder is a sequence number, and a sequence number is its own.
LEMMA Remainder ==
  /\ \A a \in Int : a % Modulus \in SN
  /\ \A a \in SN : a % Modulus = a
  /\ \A a \in SN : (a + Modulus) % Modulus = a
  /\ \A a \in SN : (a - Modulus) % Modulus = a
PROOF
<1>1. \A a \in Int : a % Modulus \in SN
  BY ModulusAssumption DEF SN
<1>2. \A a \in SN : a % Modulus = a
  BY ModulusAssumption DEF SN
<1>3. \A a \in SN : (a + Modulus) % Modulus = a
  BY ModulusAssumption DEF SN
<1>4. \A a \in SN : (a - Modulus) % Modulus = a
  BY ModulusAssumption DEF SN
<1> QED BY <1>1, <1>2, <1>3, <1>4

\* Distances from the lower edge of the window that ends at h: 0 to Window - 1
\* for the numbers in it, Window for h itself, more for what is newer or older.
LEMMA Distances ==
  ASSUME NEW v \in SN, NEW h \in SN
  PROVE  /\ v <= h /\ h - v <= Window =>
              (v - ((h - Window) % Modulus)) % Modulus = v - h + Window
         /\ h - v > Window =>
              (v - ((h - Window) % Modulus)) % Modulus = v - h + Window + Modulus
         /\ v > h /\ v - h < Window =>
              (v - ((h - Window) % Modulus)) % Modulus = v - h + Window
PROOF
<1>1. /\ Window \in Nat /\ Window > 1 /\ Modulus \in Nat /\ Modulus = Window + Window
      /\ v \in Int /\ 0 <= v /\ v < Modulus /\ h \in Int /\ 0 <= h /\ h < Modulus
  BY RlcAssumption, ModulusAssumption DEF SN
<1>2. h >= Window => (h - Window) % Modulus = h - Window
  <2>1. h >= Window => h - Window \in SN
    BY <1>1 DEF SN
  <2> QED BY <2>1, Remainder
<1>3. h < Window => (h - Window) % Modulus = h + Window
  <2>1. h < Window => h + Window \in SN /\ h - Window = (h + Window) - Modulus
    BY <1>1 DEF SN
  <2> QED BY <2>1, Remainder
<1>4. PICK b : b = (h - Window) % Modulus
  OBVIOUS
<1>5. b \in Int /\ (b = h - Window \/ b = h - Window + Modulus)
  BY <1>1, <1>2, <1>3, <1>4
<1>6. ASSUME NEW d \in SN, v - b = d \/ v - b = d - Modulus \/ v - b = d + Modulus
      PROVE  (v - b) % Modulus = d
  BY <1>6, Remainder
<1>7. v <= h /\ h - v <= Window => (v - b) % Modulus = v - h + Window
  <2> HAVE v <= h /\ h - v <= Window
  <2>1. v - h + Window \in SN
    BY <1>1 DEF SN
  <2>2. v - b = v - h + Window \/ v - b = (v - h + Window) - Modulus
    BY <1>1, <1>5
  <2> QED BY <2>1, <2>2, <1>6
<1>8. h - v > Window => (v - b) % Modulus = v - h + Window + Modulus
  <2> HAVE h - v > Window
  <2>1. v - h + Window + Modulus \in SN
    BY <1>1 DEF SN
  <2>2. h >= Window
    BY <1>1
  <2>3. v - b = (v - h + Window + Modulus) - Modulus
    BY <1>1, <1>2, <1>4, <2>2
  <2> QED BY <2>1, <2>3, <1>6
<1>9. v > h /\ v - h < Window => (v - b) % Modulus = v - h + Window
  <2> HAVE v > h /\ v - h < Window
  <2>1. v - h + Window \in SN
    BY <1>1 DEF SN
  <2>2. v - b = v - h + Window \/ v - b = (v - h + Window) - Modulus
    BY <1>1, <1>5
  <2> QED BY <2>1, <2>2, <1>6
<1> QED BY <1>4, <1>7, <1>8, <1>9

\* A number and its base.
IsPair(v) == v = [value |-> v.value, base |-> v.base]

\* The operations of SequenceNumber10 on such pairs.
LEMMA PairOps ==
  ASSUME NEW a, IsPair(a)
  PROVE  /\ \A b : SetModulusBase(a, b) = [value |-> a.value, base |-> b.value]
         /\ \A d : Plus(a, d) = [value |-> (a.value + d) % Modulus, base |-> a.base]
         /\ \A d : Minus(a, d) = [value |-> (a.value - d) % Modulus, base |-> a.base]
PROOF
<1>1. PICK p, q : a = [value |-> p, base |-> q] /\ a.value = p /\ a.base = q
  BY DEF IsPair
<1>2. \A c : [a EXCEPT !.base = c] = [value |-> p, base |-> c]
  BY <1>1
<1>3. \A c : [a EXCEPT !.value = c] = [value |-> c, base |-> q]
  BY <1>1
<1>4. \A b : SetModulusBase(a, b) = [value |-> a.value, base |-> b.value]
  BY <1>1, <1>2 DEF SetModulusBase
<1>5. \A d : Plus(a, d) = [value |-> (a.value + d) % Modulus, base |-> a.base]
  BY <1>1, <1>3 DEF Plus
<1>6. \A d : Minus(a, d) = [value |-> (a.value - d) % Modulus, base |-> a.base]
  BY <1>1, <1>3 DEF Minus
<1> QED BY <1>4, <1>5, <1>6

\* Such pairs, and what the operations make of one, are pairs.
LEMMA Pairs ==
  /\ \A v, b : IsPair([value |-> v, base |-> b])
  /\ \A a, b : IsPair(a) => IsPair(SetModulusBase(a, b))
  /\ \A a, d : IsPair(a) => IsPair(Plus(a, d)) /\ IsPair(Minus(a, d))
PROOF
<1>1. \A v, b : IsPair([value |-> v, base |-> b])
  BY DEF IsPair
<1>2. ASSUME NEW a, NEW b, IsPair(a) PROVE IsPair(SetModulusBase(a, b))
  <2>1. SetModulusBase(a, b) = [value |-> a.value, base |-> b.value]
    BY <1>2, PairOps
  <2> QED BY <1>1, <2>1
<1>3. ASSUME NEW a, NEW d, IsPair(a) PROVE IsPair(Plus(a, d)) /\ IsPair(Minus(a, d))
  <2>1. Plus(a, d) = [value |-> (a.value + d) % Modulus, base |-> a.base]
    BY <1>3, PairOps
  <2>2. Minus(a, d) = [value |-> (a.value - d) % Modulus, base |-> a.base]
    BY <1>3, PairOps
  <2>3. IsPair(Plus(a, d))
    BY <1>1, <2>1
  <2>4. IsPair(Minus(a, d))
    BY <1>1, <2>2
  <2> QED BY <2>3, <2>4
<1> QED BY <1>1, <1>2, <1>3

\* IsInsideReorderingWindow, for a number at most Window above VR(UH): inside
\* are the Window numbers below VR(UH).
LEMMA Inside ==
  ASSUME NEW v, NEW uh, v.value \in SN, uh.value \in SN,
         IsPair(v), IsPair(uh), v.value - uh.value < Window
  PROVE  IsInsideReorderingWindow(v, uh) <=>
           v.value < uh.value /\ uh.value - v.value <= Window
PROOF
<1> DEFINE b == (uh.value - Window) % Modulus
<1>1. IsInsideReorderingWindow(v, uh) <=>
        /\ ~((v.value - b) % Modulus > (uh.value - b) % Modulus)
        /\ v.value # uh.value
  BY DEF IsPair, IsInsideReorderingWindow, Minus, SetModulusBase, Less, Greater, Distance
<1>2. /\ Window \in Nat /\ Window > 1 /\ Modulus = Window + Window
      /\ v.value \in Int /\ uh.value \in Int
      /\ 0 <= v.value /\ uh.value < Modulus
  BY RlcAssumption, ModulusAssumption DEF SN
<1>3. PICK p, q : p = v.value /\ q = uh.value
  OBVIOUS
<1>4. PICK d, e : d = (p - b) % Modulus /\ e = (q - b) % Modulus
  OBVIOUS
<1>5. /\ p <= q /\ q - p <= Window => d = p - q + Window
      /\ q - p > Window => d = p - q + Window + Modulus
      /\ p > q /\ p - q < Window => d = p - q + Window
  BY <1>3, <1>4, Distances
<1>6. e = Window
  <2>1. q <= q /\ q - q <= Window => e = q - q + Window
    BY <1>3, <1>4, Distances
  <2> QED BY <2>1, <1>2, <1>3
<1> HIDE DEF b
<1>7. ~(d > e) /\ p # q <=> p < q /\ q - p <= Window
  BY <1>2, <1>3, <1>5, <1>6
<1> QED BY <1>1, <1>3, <1>4, <1>7

-----------------------------------------------------------------------------
(* The bases of the state variables. *)

\* The lower edge of the window that ends at h.
Edge(h) == (h - Window) % Modulus

\* While t-Reordering runs, VR(UR), VR(UX) and VR(UH) have the base that belongs
\* to VR(UH).
Bases ==
  /\ IsPair(vrUr) /\ IsPair(vrUx) /\ IsPair(vrUh)
  /\ reordering => /\ vrUr.base = Edge(vrUh.value)
                   /\ vrUx.base = Edge(vrUh.value)
                   /\ vrUh.base = Edge(vrUh.value)

\* What DoReceivePdu computes are pairs.
LEMMA PlacedPairs ==
  ASSUME NEW ur, NEW uh, NEW s, NEW buf, IsPair(ur), IsPair(uh), IsPair(s)
  PROVE  IsPair(Placed(ur, uh, s, buf).ur) /\ IsPair(Placed(ur, uh, s, buf).uh)
PROOF
<1> DEFINE outside == ~IsInsideReorderingWindow(s, uh)
           uh1 == IF outside THEN Plus(s, 1) ELSE uh
           out == IF outside THEN OutsideWindow(buf, uh1) ELSE {}
           buf1 == Erase(buf, out)
           edge == Minus(SetModulusBase(uh1, Minus(uh1, Window)), Window)
           ur1 == IF outside /\ ~IsInsideReorderingWindow(ur, uh1) THEN edge ELSE ur
           found == ur1.value \in DOMAIN buf1
           ur2 == IF found THEN Sn(NextMissing(ur1.value, buf1), ur1.base) ELSE ur1
<1>1. Placed(ur, uh, s, buf).ur = ur2 /\ Placed(ur, uh, s, buf).uh = uh1
  BY DEF Placed
<1>2. IsPair(uh1)
  <2>1. IsPair(Plus(s, 1))
    BY Pairs
  <2> QED BY <2>1
<1> HIDE DEF uh1, buf1
<1>3. IsPair(edge)
  <2>1. IsPair(SetModulusBase(uh1, Minus(uh1, Window)))
    BY <1>2, Pairs
  <2> QED BY <2>1, Pairs
<1> HIDE DEF edge
<1>4. IsPair(ur1)
  BY <1>3
<1> HIDE DEF ur1
<1>5. \A v, b : IsPair(Sn(v, b))
  BY DEF IsPair, Sn
<1>6. IsPair(ur2)
  BY <1>4, <1>5
<1> QED BY <1>1, <1>2, <1>6

\* The end of DoReceivePdu rebases the three numbers.
LEMMA Rebased ==
  ASSUME NEW ur, NEW uh, IsPair(ur), IsPair(uh), IsPair(vrUx), UpdateTimer(ur, uh)
  PROVE  /\ vrUr' = [value |-> ur.value, base |-> Edge(uh.value)]
         /\ vrUh' = [value |-> uh.value, base |-> Edge(uh.value)]
         /\ \/ vrUx' = [value |-> vrUx.value, base |-> Edge(uh.value)]
            \/ vrUx' = vrUh'
PROOF
<1> DEFINE low == Minus(uh, Window)
<1>1. low.value = Edge(uh.value)
  <2>1. low = [value |-> (uh.value - Window) % Modulus, base |-> uh.base]
    BY PairOps
  <2> HIDE DEF low
  <2> QED BY <2>1 DEF Edge
<1> HIDE DEF low
<1>2. /\ SetModulusBase(ur, low) = [value |-> ur.value, base |-> Edge(uh.value)]
      /\ SetModulusBase(uh, low) = [value |-> uh.value, base |-> Edge(uh.value)]
      /\ SetModulusBase(vrUx, low) = [value |-> vrUx.value, base |-> Edge(uh.value)]
  <2>1. ASSUME NEW a, IsPair(a)
        PROVE  SetModulusBase(a, low) = [value |-> a.value, base |-> Edge(uh.value)]
    <3>1. SetModulusBase(a, low) = [value |-> a.value, base |-> low.value]
      BY <2>1, PairOps
    <3> QED BY <1>1, <3>1
  <2> QED BY <2>1
<1>3. /\ vrUr' = SetModulusBase(ur, low) /\ vrUh' = SetModulusBase(uh, low)
      /\ vrUx' = SetModulusBase(uh, low) \/ vrUx' = SetModulusBase(vrUx, low)
  BY DEF UpdateTimer, VrUxRebased, low
<1> QED BY <1>2, <1>3

\* DoReceivePdu starts by giving VR(UR) and VR(UH) the base of VR(UH).
LEMMA Arrival ==
  ASSUME Bases, NEW x, DoReceivePdu(x)
  PROVE  LET b == Edge(vrUh.value)
             ur == [value |-> vrUr.value, base |-> b]
             uh == [value |-> vrUh.value, base |-> b]
             s == [value |-> x.n % Modulus, base |-> b]
             buf == Store(rxBuffer, s.value, x)
         IN /\ air' = air \ {x} /\ UNCHANGED <<sent, nextUnit, losses>>
            /\ \/ /\ Discarded(ur, uh, s) /\ vrUr' = ur /\ vrUh' = uh
                  /\ UNCHANGED <<vrUx, reordering, rxBuffer, asm>>
               \/ /\ ~Discarded(ur, uh, s)
                  /\ rxBuffer' = Placed(ur, uh, s, buf).buf
                  /\ asm' \in Placed(ur, uh, s, buf).asm
                  /\ UpdateTimer(Placed(ur, uh, s, buf).ur, Placed(ur, uh, s, buf).uh)
PROOF
<1> DEFINE low == Minus(vrUh, Window)
<1>1. low.value = Edge(vrUh.value)
  BY PairOps DEF Edge, Bases
<1>2. /\ SetModulusBase(vrUr, low) = [value |-> vrUr.value, base |-> Edge(vrUh.value)]
      /\ SetModulusBase(vrUh, low) = [value |-> vrUh.value, base |-> Edge(vrUh.value)]
  <2> HIDE DEF low
  <2> QED BY <1>1, PairOps DEF Bases
<1>3. Sn(x.n, low.value) = [value |-> x.n % Modulus, base |-> Edge(vrUh.value)]
  BY <1>1 DEF Sn
<1>4. Sn(x.n, low.value).value = x.n % Modulus
  BY DEF Sn
<1>5. LET ur == SetModulusBase(vrUr, low)
          uh == SetModulusBase(vrUh, low)
          s == Sn(x.n, low.value)
          buf == Store(rxBuffer, s.value, x)
      IN /\ air' = air \ {x} /\ UNCHANGED <<sent, nextUnit, losses>>
         /\ \/ /\ Discarded(ur, uh, s) /\ vrUr' = ur /\ vrUh' = uh
               /\ UNCHANGED <<vrUx, reordering, rxBuffer, asm>>
            \/ /\ ~Discarded(ur, uh, s)
               /\ rxBuffer' = Placed(ur, uh, s, buf).buf
               /\ asm' \in Placed(ur, uh, s, buf).asm
               /\ UpdateTimer(Placed(ur, uh, s, buf).ur, Placed(ur, uh, s, buf).uh)
  BY Zenon DEF DoReceivePdu
<1> HIDE DEF low
<1> QED BY <1>2, <1>3, <1>5, Zenon

\* No step leaves t-Reordering running with a VR(UX) of another base.
LEMMA BasesStep == Bases /\ [Next]_vars => Bases'
PROOF
<1> SUFFICES ASSUME Bases, [Next]_vars PROVE Bases'
  OBVIOUS
<1>1. CASE UNCHANGED <<vrUr, vrUx, vrUh, reordering>>
  BY <1>1 DEF Bases
<1>2. ASSUME NEW x \in air, DoReceivePdu(x) PROVE Bases'
  <2> DEFINE b == Edge(vrUh.value)
             ur == [value |-> vrUr.value, base |-> b]
             uh == [value |-> vrUh.value, base |-> b]
             s == [value |-> x.n % Modulus, base |-> b]
             pl == Placed(ur, uh, s, Store(rxBuffer, s.value, x))
  <2>1. \/ vrUr' = ur /\ vrUh' = uh /\ vrUx' = vrUx /\ reordering' = reordering
        \/ UpdateTimer(pl.ur, pl.uh)
    BY <1>2, Arrival
  <2>2. CASE vrUr' = ur /\ vrUh' = uh /\ vrUx' = vrUx /\ reordering' = reordering
    BY <2>2 DEF Bases, IsPair
  <2>3. CASE UpdateTimer(pl.ur, pl.uh)
    <3>1. IsPair(ur) /\ IsPair(uh) /\ IsPair(s)
      BY DEF IsPair
    <3> HIDE DEF ur, uh, s
    <3>2. IsPair(pl.ur) /\ IsPair(pl.uh)
      BY <3>1, PlacedPairs
    <3> HIDE DEF pl
    <3>3. /\ vrUr' = [value |-> pl.ur.value, base |-> Edge(pl.uh.value)]
          /\ vrUh' = [value |-> pl.uh.value, base |-> Edge(pl.uh.value)]
          /\ \/ vrUx' = [value |-> vrUx.value, base |-> Edge(pl.uh.value)]
             \/ vrUx' = vrUh'
      BY <2>3, <3>2, Rebased DEF Bases
    <3> QED BY <3>3 DEF Bases, IsPair
  <2> QED BY <2>1, <2>2, <2>3
<1>3. CASE ExpireReorderingTimer
  <2> DEFINE d == FirstMissingFrom(vrUx.value, rxBuffer)
  <2>1. /\ reordering /\ vrUr' = Plus(vrUx, d) /\ vrUh' = vrUh
        /\ vrUx' = vrUh \/ (~reordering' /\ vrUx' = vrUx)
    BY <1>3 DEF ExpireReorderingTimer
  <2>2. vrUr' = [value |-> (vrUx.value + d) % Modulus, base |-> vrUx.base]
    BY <2>1, PairOps DEF Bases
  <2> HIDE DEF d
  <2> QED BY <2>1, <2>2 DEF Bases, IsPair
<1> QED BY <1>1, <1>2, <1>3 DEF Next, DoNotifyTxOpportunity, LosePdu, vars

\* The assertion of SequenceNumber10::operator> holds whenever t-Reordering can
\* expire: no step leaves it running with a VR(UX) of another base.
THEOREM BasesAgreeHolds == Spec => []BasesAgree
PROOF
<1>1. Init => Bases
  BY DEF Init, Bases, IsPair, Sn
<1>2. Bases /\ [Next]_vars => Bases'
  BY BasesStep
<1>3. Bases => BasesAgree
  BY DEF Bases, BasesAgree, Comparable
<1> QED BY <1>1, <1>2, <1>3, PTL DEF Spec
-----------------------------------------------------------------------------
(* The window before the sequence numbers wrap around. *)

\* A non-empty set of natural numbers has a least element.
LEMMA Least ==
  ASSUME NEW T, T \subseteq Nat, T # {}
  PROVE  \E m \in T : \A y \in T : m <= y
PROOF
<1>1. PICK R : R = OpToRel(<, Nat)
  OBVIOUS
<1>2. IsWellFoundedOn(R, Nat)
  BY <1>1, NatLessThanWellFounded
<1>3. \A y, m \in Nat : y < m => <<y, m>> \in R
  BY <1>1 DEF OpToRel
<1>4. PICK m \in T : \A y \in T : ~(<<y, m>> \in R)
  BY <1>2, WFMin
<1>5. ASSUME NEW y \in T PROVE m <= y
  <2>1. y \in Nat /\ m \in Nat
    OBVIOUS
  <2>2. ~(y < m)
    BY <2>1, <1>3, <1>4, Zenon
  <2> QED BY <2>1, <2>2
<1> QED BY <1>5

\* The numbers that can be compared with the base that belongs to h.
Near(v, h) == v \in SN /\ h \in SN /\ h - v <= Window /\ v - h < Window

\* What the bounds of sequence numbers are.
LEMMA Bounds ==
  /\ Window \in Nat /\ Window > 1 /\ Modulus \in Nat /\ Modulus = Window + Window
  /\ SN = 0..(Modulus - 1)
  /\ Overtaken \in Nat /\ MaxPdu \in Nat /\ MaxLoss \in Nat /\ Overtaken + MaxLoss < Window
PROOF BY RlcAssumption, ModulusAssumption DEF SN

\* Up to the wrap-around, the numbers at most a window below h are near it.
LEMMA NearBelow ==
  ASSUME NEW h \in Nat, h < Modulus, NEW v \in Nat, v <= h, h - v <= Window
  PROVE  Near(v, h) /\ v \in SN /\ h \in SN
PROOF
<1>1. v \in SN /\ h \in SN
  BY Bounds
<1>2. v - h < Window
  BY Bounds
<1> QED BY <1>1, <1>2 DEF Near

\* Near h, the comparisons of SequenceNumber10 are those of numbers.
LEMMA Order ==
  ASSUME NEW h, NEW p, NEW q, Near(p, h), Near(q, h),
         NEW a, a = [value |-> p, base |-> Edge(h)],
         NEW c, c = [value |-> q, base |-> Edge(h)]
  PROVE  /\ Greater(a, c) <=> p > q
         /\ LessEq(a, c) <=> p <= q
         /\ Less(a, c) <=> p < q
         /\ Distance(c) - Distance(a) = q - p
PROOF
<1>1. p \in SN /\ q \in SN /\ h \in SN
  BY DEF Near
<1>2. p \in Int /\ q \in Int /\ h \in Int
  BY <1>1, Bounds
<1>3. Distance(a) = p - h + Window
  <2>1. Distance(a) = (p - ((h - Window) % Modulus)) % Modulus
    BY DEF Distance, Edge
  <2>2. (p <= h /\ h - p <= Window) \/ (p > h /\ p - h < Window)
    BY <1>2 DEF Near
  <2> QED BY <1>1, <2>1, <2>2, Distances
<1>4. Distance(c) = q - h + Window
  <2>1. Distance(c) = (q - ((h - Window) % Modulus)) % Modulus
    BY DEF Distance, Edge
  <2>2. (q <= h /\ h - q <= Window) \/ (q > h /\ q - h < Window)
    BY <1>2 DEF Near
  <2> QED BY <1>1, <2>1, <2>2, Distances
<1>5. a.value = p /\ c.value = q
  OBVIOUS
<1>6. Greater(a, c) <=> p > q
  BY <1>2, <1>3, <1>4, Bounds DEF Greater
<1>7. Distance(c) - Distance(a) = q - p
  BY <1>2, <1>3, <1>4, Bounds
<1>8. LessEq(a, c) <=> p <= q
  BY <1>2, <1>6 DEF LessEq
<1>9. Less(a, c) <=> p < q
  BY <1>2, <1>5, <1>6 DEF Less
<1> QED BY <1>6, <1>7, <1>8, <1>9

\* The numbers from lo up to hi.
Run(lo, hi) == [i \in 1..(hi - lo) |-> lo + i - 1]

\* ReassembleSnInterval visits the numbers from one to the other.
LEMMA IntervalIs ==
  ASSUME NEW h, NEW p, NEW q, Near(p, h), Near(q, h), p <= q,
         NEW a, a = [value |-> p, base |-> Edge(h)],
         NEW c, c = [value |-> q, base |-> Edge(h)]
  PROVE  SnInterval(a, c) = Run(p, q) /\ Range(SnInterval(a, c)) = p..(q - 1)
PROOF
<1>1. p \in Int /\ q \in Int /\ 0 <= p /\ q < Modulus
  BY Bounds DEF Near
<1> DEFINE n == IF Less(a, c) THEN Distance(c) - Distance(a) ELSE 0
<1>2. n = q - p
  BY <1>1, Order
<1>3. SnInterval(a, c) = [i \in 1..n |-> (a.value + i - 1) % Modulus]
  BY DEF SnInterval
<1> HIDE DEF n
<1>4. a.value = p
  OBVIOUS
<1>5. \A i \in 1..(q - p) : p + i - 1 \in SN
  BY <1>1, Bounds
<1>6. \A i \in 1..(q - p) : (p + i - 1) % Modulus = p + i - 1
  BY <1>5, Remainder
<1>7. SnInterval(a, c) = [i \in 1..(q - p) |-> p + i - 1]
  BY <1>2, <1>3, <1>4, <1>6
<1>8. Range([i \in 1..(q - p) |-> p + i - 1]) = {p + i - 1 : i \in 1..(q - p)}
  BY DEF Range
<1>9. {p + i - 1 : i \in 1..(q - p)} = p..(q - 1)
  <2>1. \A i \in 1..(q - p) : p + i - 1 \in p..(q - 1)
    BY <1>1
  <2>2. ASSUME NEW k \in p..(q - 1) PROVE \E i \in 1..(q - p) : k = p + i - 1
    <3>1. k - p + 1 \in 1..(q - p) /\ k = p + (k - p + 1) - 1
      BY <1>1
    <3> QED BY <3>1
  <2> QED BY <2>1, <2>2
<1> QED BY <1>7, <1>8, <1>9 DEF Run

\* The number VR(UR) moves to when its PDU is found.
LEMMA NextMissingIs ==
  ASSUME NEW v \in SN, NEW u \in Int, v < u, u <= Modulus, NEW buf, u \notin DOMAIN buf
  PROVE  /\ NextMissing(v, buf) \in (v + 1)..u
         /\ NextMissing(v, buf) \notin DOMAIN buf
PROOF
<1>1. v \in Nat
  BY Bounds
<1> DEFINE T == {k \in (v + 1)..u : k \notin DOMAIN buf}
<1>2. T \subseteq Nat /\ u \in T
  BY <1>1
<1>3. PICK m \in T : \A y \in T : m <= y
  BY <1>2, Least
<1>4. /\ m \in (v + 1)..Modulus /\ m \notin DOMAIN buf
      /\ \A k \in (v + 1)..(m - 1) : k \in DOMAIN buf
  BY <1>1, <1>3, Bounds
<1> HIDE DEF T
<1>5. /\ NextMissing(v, buf) \in (v + 1)..Modulus
      /\ NextMissing(v, buf) \notin DOMAIN buf
      /\ \A k \in (v + 1)..(NextMissing(v, buf) - 1) : k \in DOMAIN buf
  BY <1>4 DEF NextMissing
<1>6. PICK z : z = NextMissing(v, buf)
  OBVIOUS
<1>7. ~(u \in (v + 1)..(z - 1))
  BY <1>5, <1>6
<1>8. z <= u
  BY <1>1, <1>5, <1>6, <1>7, Bounds
<1> QED BY <1>1, <1>5, <1>6, <1>8, Bounds

\* The number VR(UR) moves to when t-Reordering expires.
LEMMA FirstMissingIs ==
  ASSUME NEW v \in SN, NEW u \in SN, v <= u, NEW buf, u \notin DOMAIN buf
  PROVE  /\ FirstMissingFrom(v, buf) \in 0..(u - v)
         /\ v + FirstMissingFrom(v, buf) \notin DOMAIN buf
PROOF
<1>1. v \in Nat /\ u \in Nat /\ u < Modulus
  BY Bounds
<1>2. \A d \in 0..(u - v) : (v + d) % Modulus = v + d
  <2>1. \A d \in 0..(u - v) : v + d \in SN
    BY <1>1, Bounds
  <2> QED BY <2>1, Remainder
<1> DEFINE T == {d \in 0..(u - v) : v + d \notin DOMAIN buf}
<1>3. T \subseteq Nat
  OBVIOUS
<1>4. u - v \in T
  <2>1. u - v \in 0..(u - v) /\ v + (u - v) = u
    BY <1>1
  <2> QED BY <2>1
<1>5. PICK m \in T : \A y \in T : m <= y
  BY <1>3, <1>4, Least
<1>6. /\ m \in 0..Modulus /\ (v + m) % Modulus \notin DOMAIN buf
      /\ \A e \in 0..(m - 1) : (v + e) % Modulus \in DOMAIN buf
  <2>1. m \in 0..(u - v) /\ v + m \notin DOMAIN buf /\ m \in 0..Modulus
    BY <1>1, Bounds
  <2>2. ASSUME NEW e \in 0..(m - 1) PROVE (v + e) % Modulus \in DOMAIN buf
    <3>1. e \in 0..(u - v) /\ ~(m <= e)
      BY <2>1, <1>1
    <3>2. v + e \in DOMAIN buf
      BY <3>1, <1>5
    <3> QED BY <3>1, <3>2, <1>2
  <2>3. (v + m) % Modulus \notin DOMAIN buf
    BY <2>1, <1>2
  <2> QED BY <2>1, <2>2, <2>3
<1> HIDE DEF T
<1>7. PICK z : z = FirstMissingFrom(v, buf)
  OBVIOUS
<1>8. /\ z \in 0..Modulus /\ (v + z) % Modulus \notin DOMAIN buf
      /\ \A e \in 0..(z - 1) : (v + e) % Modulus \in DOMAIN buf
  BY <1>6, <1>7 DEF FirstMissingFrom
<1>9. z <= u - v
  <2>1. u - v \in 0..(u - v) /\ v + (u - v) = u
    BY <1>1
  <2>2. (v + (u - v)) % Modulus \notin DOMAIN buf
    BY <2>1, <1>2
  <2>3. ~(u - v \in 0..(z - 1))
    BY <2>2, <1>8
  <2> QED BY <2>1, <2>3, <1>1, <1>8, Bounds
<1>10. z \in 0..(u - v)
  BY <1>1, <1>8, <1>9
<1>11. v + z \notin DOMAIN buf
  BY <1>2, <1>8, <1>10
<1> QED BY <1>7, <1>10, <1>11

\* The last part of Placed: VR(UR) moves past its PDU and the ones behind it, and
\* all the numbers it passed leave the buffer.
LEMMA Advance ==
  ASSUME NEW h, NEW r, NEW u, Near(r, h), u \in SN, r <= u,
         NEW buf, DOMAIN buf \subseteq r..(u - 1),
         r \in DOMAIN buf => u - h < Window,
         NEW a, a = [value |-> r, base |-> Edge(h)]
  PROVE  LET found == a.value \in DOMAIN buf
             c == IF found THEN Sn(NextMissing(a.value, buf), a.base) ELSE a
             interval == IF found THEN SnInterval(a, c) ELSE <<>>
         IN /\ c.value \in r..u
            /\ DOMAIN Erase(buf, Range(interval)) \subseteq (c.value + 1)..(u - 1)
            /\ interval = Run(r, c.value)
PROOF
<1> DEFINE found == a.value \in DOMAIN buf
           c == IF found THEN Sn(NextMissing(a.value, buf), a.base) ELSE a
           interval == IF found THEN SnInterval(a, c) ELSE <<>>
<1> SUFFICES /\ c.value \in r..u
             /\ DOMAIN Erase(buf, Range(interval)) \subseteq (c.value + 1)..(u - 1)
             /\ interval = Run(r, c.value)
  OBVIOUS
<1>1. /\ r \in Int /\ u \in Int /\ h \in Int /\ 0 <= r /\ u < Modulus
      /\ r \in SN /\ h \in SN /\ h - r <= Window
  BY Bounds DEF Near
<1>2. a.value = r /\ a.base = Edge(h)
  OBVIOUS
<1>3. \A S : DOMAIN Erase(buf, S) = DOMAIN buf \ S
  BY DEF Erase
<1>4. CASE ~found
  <2>1. c = a /\ r \notin DOMAIN buf
    BY <1>2, <1>4
  <2>2. DOMAIN buf \subseteq (r + 1)..(u - 1)
    BY <1>1, <2>1
  <2>3. c.value = r /\ r \in r..u
    BY <1>1, <1>2, <2>1
  <2>4. interval = <<>>
    BY <1>4
  <2> HIDE DEF c, interval
  <2>5. DOMAIN Erase(buf, Range(interval)) \subseteq DOMAIN buf
    BY <1>3
  <2>6. Run(r, c.value) = <<>>
    BY <1>1, <2>3 DEF Run
  <2> QED BY <2>2, <2>3, <2>4, <2>5, <2>6
<1>5. CASE found
  <2>1. PICK m : m = NextMissing(r, buf)
    OBVIOUS
  <2>2. r < u /\ u \notin DOMAIN buf
    BY <1>1, <1>2, <1>5
  <2>3. m \in (r + 1)..u /\ m \notin DOMAIN buf
    <3>1. u <= Modulus
      BY <1>1, Bounds
    <3> QED BY <1>1, <2>1, <2>2, <3>1, NextMissingIs
  <2>4. m \in SN /\ Near(m, h)
    BY <1>1, <1>2, <1>5, <2>3, Bounds DEF Near
  <2>5. c = [value |-> m, base |-> Edge(h)]
    BY <1>2, <1>5, <2>1, <2>4, Remainder DEF Sn
  <2>6. c.value = m
    BY <2>5
  <2>7. SnInterval(a, c) = Run(r, m) /\ Range(SnInterval(a, c)) = r..(m - 1)
    <3> HIDE DEF c
    <3>1. r <= m
      BY <1>1, <2>3
    <3> QED BY <2>4, <2>5, <3>1, IntervalIs
  <2>8. interval = SnInterval(a, c)
    BY <1>5
  <2>9. DOMAIN Erase(buf, Range(interval)) = DOMAIN buf \ (r..(m - 1))
    <3> HIDE DEF interval, c
    <3> QED BY <2>7, <2>8, <1>3
  <2>10. DOMAIN buf \ (r..(m - 1)) \subseteq (m + 1)..(u - 1)
    BY <1>1, <2>3
  <2>11. m \in r..u
    BY <1>1, <2>3
  <2> HIDE DEF c, interval
  <2> QED BY <2>6, <2>7, <2>8, <2>9, <2>10, <2>11
<1> QED BY <1>4, <1>5

\* What is outside the window that ends at u leaves the buffer, if nothing in the
\* buffer is newer.
LEMMA OutsideIs ==
  ASSUME NEW u \in SN, NEW uh, IsPair(uh), uh.value = u,
         NEW buf, DOMAIN buf \subseteq 0..(u - 1)
  PROVE  \A k \in DOMAIN buf : k \in OutsideWindow(buf, uh) <=> u - k > Window
PROOF
<1>1. u \in Int /\ 0 <= u /\ u < Modulus
  BY Bounds
<1>2. ASSUME NEW k \in DOMAIN buf
      PROVE  IsInsideReorderingWindow(Sn(k, 0), uh) <=> u - k <= Window
  <2>1. k \in Int /\ k \in SN /\ k < u
    BY <1>1, Bounds
  <2>2. Sn(k, 0) = [value |-> k, base |-> 0]
    BY <2>1, Remainder DEF Sn
  <2>3. PICK v : v = Sn(k, 0)
    OBVIOUS
  <2>4. IsPair(v) /\ v.value = k
    BY <2>2, <2>3, Pairs
  <2>5. v.value - uh.value < Window
    BY <1>1, <2>1, <2>4, Bounds
  <2>6. IsInsideReorderingWindow(v, uh) <=> v.value < uh.value /\ uh.value - v.value <= Window
    BY <2>1, <2>4, <2>5, Inside
  <2> QED BY <2>1, <2>3, <2>4, <2>6
<1>3. ASSUME NEW k \in DOMAIN buf
      PROVE  k \in OutsideWindow(buf, uh) <=>
               \A j \in DOMAIN buf : j <= k => ~IsInsideReorderingWindow(Sn(j, 0), uh)
  BY DEF OutsideWindow
<1>4. ASSUME NEW k \in DOMAIN buf
      PROVE  k \in OutsideWindow(buf, uh) <=> \A j \in DOMAIN buf : j <= k => ~(u - j <= Window)
  BY <1>2, <1>3
<1>5. \A k \in DOMAIN buf : k \in Int
  BY <1>1
<1> QED BY <1>1, <1>4, <1>5, Bounds

\* Where a PDU with number n takes a receiver with VR(UR) = r and VR(UH) = h:
\* VR(UH) moves behind it, VR(UR) to a missing number in the window, and the buffer
\* keeps numbers between the two.
Moved(r, h, n, p) ==
  /\ p.uh.value = IF n < h THEN h ELSE n + 1
  /\ p.ur.value \in r..p.uh.value
  /\ p.uh.value - p.ur.value <= Window
  /\ DOMAIN p.buf \subseteq (p.ur.value + 1)..(p.uh.value - 1)
  /\ p.buf = [k \in DOMAIN p.buf |-> p.buf[k]]

\* What it delivers from the buffer: the PDUs that the window has passed, below some
\* number q, and then those from q up to VR(UR).
Delivers(r, p, buf) ==
  \E q, out :
    /\ q \in Nat /\ r <= q /\ q <= p.ur.value /\ p.ur.value \in SN
    /\ out \subseteq DOMAIN buf /\ \A k \in out : k < q
    /\ DOMAIN Erase(buf, out) \subseteq q..(Modulus - 1)
    /\ p.asm = Reassemble(Reassemble({asm}, AllSn, out, buf),
                          Run(q, p.ur.value), DOMAIN Erase(buf, out), Erase(buf, out))
    /\ \A k \in DOMAIN p.buf : k \in DOMAIN buf /\ p.buf[k] = buf[k]

\* DoReceivePdu does this to a PDU that it does not discard.
LEMMA PlacedMoves ==
  ASSUME NEW r, NEW h, NEW n, r \in SN, h \in SN, n \in SN, n + 1 \in SN,
         r <= h, h - r <= Window, r <= n, n - h < Window,
         NEW buf0, DOMAIN buf0 \subseteq (r + 1)..(h - 1), NEW x,
         NEW ur, ur = [value |-> r, base |-> Edge(h)],
         NEW uh, uh = [value |-> h, base |-> Edge(h)],
         NEW s, s = [value |-> n, base |-> Edge(h)]
  PROVE  /\ Moved(r, h, n, Placed(ur, uh, s, Store(buf0, n, x)))
         /\ Delivers(r, Placed(ur, uh, s, Store(buf0, n, x)), Store(buf0, n, x))
PROOF
<1> DEFINE buf == Store(buf0, n, x)
           outside == ~IsInsideReorderingWindow(s, uh)
           uh1 == IF outside THEN Plus(s, 1) ELSE uh
           out == IF outside THEN OutsideWindow(buf, uh1) ELSE {}
           buf1 == Erase(buf, out)
           edge == Minus(SetModulusBase(uh1, Minus(uh1, Window)), Window)
           ur1 == IF outside /\ ~IsInsideReorderingWindow(ur, uh1) THEN edge ELSE ur
           found == ur1.value \in DOMAIN buf1
           ur2 == IF found THEN Sn(NextMissing(ur1.value, buf1), ur1.base) ELSE ur1
           interval == IF found THEN SnInterval(ur1, ur2) ELSE <<>>
           p == Placed(ur, uh, s, buf)
<1>1. /\ p.ur = ur2 /\ p.uh = uh1 /\ p.buf = Erase(buf1, Range(interval))
      /\ p.asm = Reassemble(Reassemble({asm}, AllSn, out, buf), interval, DOMAIN buf1, buf1)
  BY DEF Placed
<1>2. /\ r \in Int /\ h \in Int /\ n \in Int /\ 0 <= r /\ h < Modulus /\ n + 1 < Modulus
  BY Bounds
<1>3. /\ ur.value = r /\ uh.value = h /\ s.value = n /\ ur.base = Edge(h)
      /\ IsPair(ur) /\ IsPair(uh) /\ IsPair(s)
  BY Pairs
<1>4. outside <=> ~(n < h)
  <2>1. s.value - uh.value < Window
    BY <1>3
  <2>2. ~outside <=> n < h /\ h - n <= Window
    BY <1>3, <2>1, Inside
  <2> QED BY <1>2, <2>2, Bounds
<1>5. PICK u : u = IF n < h THEN h ELSE n + 1
  OBVIOUS
<1>6. u \in Int /\ u \in SN /\ h <= u /\ n < u /\ 0 <= u /\ u < Modulus
  BY <1>2, <1>5
<1>7. uh1.value = u /\ IsPair(uh1)
  <2>1. Plus(s, 1) = [value |-> (n + 1) % Modulus, base |-> s.base]
    BY <1>3, PairOps
  <2>2. (n + 1) % Modulus = n + 1
    BY Remainder
  <2>3. Plus(s, 1).value = n + 1 /\ IsPair(Plus(s, 1))
    BY <1>3, <2>1, <2>2, Pairs
  <2> QED BY <1>3, <1>4, <1>5, <2>3
<1>8. DOMAIN buf = DOMAIN buf0 \cup {n}
  BY DEF Store
<1>9. DOMAIN buf \subseteq r..(u - 1)
  BY <1>2, <1>6, <1>8
<1>10. DOMAIN buf \subseteq 0..(u - 1)
  BY <1>2, <1>6, <1>9
<1>11. DOMAIN buf1 = DOMAIN buf \ out
  BY DEF Erase
<1> HIDE DEF buf, outside, uh1
<1>12. outside => \A k \in DOMAIN buf : k \in out <=> u - k > Window
  BY <1>6, <1>7, <1>10, OutsideIs
<1>13. (~outside => out = {}) /\ out \subseteq DOMAIN buf
  BY DEF OutsideWindow
<1>14. outside => (IsInsideReorderingWindow(ur, uh1) <=> u - r <= Window)
  <2>1. ur.value - uh1.value < Window
    BY <1>2, <1>3, <1>6, <1>7, Bounds
  <2>2. IsInsideReorderingWindow(ur, uh1) <=> r < u /\ u - r <= Window
    BY <1>3, <1>6, <1>7, <2>1, Inside
  <2>3. outside => r < u
    BY <1>2, <1>4, <1>6
  <2> QED BY <2>2, <2>3
<1>15. u - r > Window => edge = [value |-> u - Window, base |-> Edge(u)]
  <2> HAVE u - r > Window
  <2>1. PICK w : w = Minus(uh1, Window)
    OBVIOUS
  <2>2. w.value = Edge(u)
    BY <1>7, <2>1, PairOps DEF Edge
  <2>3. PICK g : g = SetModulusBase(uh1, w)
    OBVIOUS
  <2>4. g.value = u /\ g.base = Edge(u) /\ IsPair(g)
    <3>1. SetModulusBase(uh1, w) = [value |-> uh1.value, base |-> w.value]
      BY <1>7, PairOps
    <3>2. g = [value |-> u, base |-> Edge(u)]
      BY <1>7, <2>2, <2>3, <3>1
    <3> QED BY <3>2, Pairs
  <2>5. edge = Minus(g, Window)
    BY <2>1, <2>3
  <2>6. edge = [value |-> (u - Window) % Modulus, base |-> Edge(u)]
    BY <2>4, <2>5, PairOps
  <2>7. u - Window \in SN
    BY <1>2, <1>6, Bounds
  <2> QED BY <2>6, <2>7, Remainder
<1> HIDE DEF edge, out, buf1
<1>16. \E q, e : /\ ur1 = [value |-> q, base |-> Edge(e)]
                 /\ Near(q, e) /\ r <= q /\ q <= u /\ u - q <= Window
                 /\ DOMAIN buf1 \subseteq q..(u - 1) /\ (\A k \in out : k < q)
                 /\ q \in DOMAIN buf1 => u - e < Window
  <2>1. CASE outside /\ u - r > Window
    <3>1. ur1 = [value |-> u - Window, base |-> Edge(u)]
      <4>1. outside /\ ~IsInsideReorderingWindow(ur, uh1)
        BY <1>2, <1>6, <1>14, <2>1, Bounds
      <4>2. ur1 = edge
        BY <4>1
      <4> QED BY <1>15, <2>1, <4>2
    <3>2. Near(u - Window, u) /\ r <= u - Window /\ u - Window <= u /\ u - (u - Window) <= Window
      BY <1>2, <1>6, <2>1, Bounds DEF Near
    <3>3. DOMAIN buf1 \subseteq (u - Window)..(u - 1)
      BY <1>2, <1>6, <1>9, <1>11, <1>12, <2>1, Bounds
    <3>4. u - u < Window
      BY <1>6, Bounds
    <3>5. \A k \in out : k < u - Window
      <4>1. \A k \in out : k \in Int /\ u - k > Window
        BY <1>2, <1>6, <1>9, <1>12, <1>13, <2>1
      <4> QED BY <1>6, <4>1, Bounds
    <3> HIDE DEF ur1
    <3> QED BY <3>1, <3>2, <3>3, <3>4, <3>5
  <2>2. CASE ~(outside /\ u - r > Window)
    <3>1. ur1 = [value |-> r, base |-> Edge(h)]
      <4>1. ~(outside /\ ~IsInsideReorderingWindow(ur, uh1))
        BY <1>2, <1>6, <1>14, <2>2, Bounds
      <4> QED BY <4>1
    <3>2. u - r <= Window
      BY <1>2, <1>4, <1>5, <1>6, <2>2, Bounds
    <3>3. Near(r, h) /\ r <= r /\ r <= u
      BY <1>2, <1>6, Bounds DEF Near
    <3>4. DOMAIN buf1 \subseteq r..(u - 1)
      BY <1>9, <1>11
    <3>5. r \in DOMAIN buf1 => u - h < Window
      <4> HAVE r \in DOMAIN buf1
      <4>1. r = n
        BY <1>2, <1>8, <1>11
      <4>2. u - h <= 1
        BY <1>2, <1>5, <4>1
      <4> QED BY <1>2, <1>6, <4>2, Bounds
    <3>6. out = {}
      <4>1. \A k \in out : outside /\ k \in Int /\ r <= k /\ u - k > Window
        BY <1>2, <1>6, <1>9, <1>12, <1>13
      <4> QED BY <1>2, <1>6, <3>2, <4>1, Bounds
    <3> HIDE DEF ur1
    <3> QED BY <3>1, <3>2, <3>3, <3>4, <3>5, <3>6
  <2> QED BY <2>1, <2>2
<1> HIDE DEF ur1
<1>17. PICK q, e : /\ ur1 = [value |-> q, base |-> Edge(e)]
                   /\ Near(q, e) /\ r <= q /\ q <= u /\ u - q <= Window
                   /\ DOMAIN buf1 \subseteq q..(u - 1) /\ (\A k \in out : k < q)
                   /\ q \in DOMAIN buf1 => u - e < Window
  BY <1>16
<1>18. /\ ur2.value \in q..u
       /\ DOMAIN Erase(buf1, Range(interval)) \subseteq (ur2.value + 1)..(u - 1)
       /\ interval = Run(q, ur2.value)
  <2>1. /\ ur2.value \in q..u
        /\ DOMAIN Erase(buf1, Range(interval)) \subseteq (ur2.value + 1)..(u - 1)
    BY <1>6, <1>17, Advance
  <2>2. interval = Run(q, ur2.value)
    BY <1>6, <1>17, Advance
  <2> QED BY <2>1, <2>2
<1>19. Erase(buf1, Range(interval)) =
         [k \in DOMAIN Erase(buf1, Range(interval)) |-> Erase(buf1, Range(interval))[k]]
  BY DEF Erase
<1> HIDE DEF ur2, interval, p
<1>20. p.ur.value \in q..u /\ p.uh.value = u
  BY <1>1, <1>7, <1>18
<1>21. q \in Int
  BY <1>17, Bounds DEF Near
<1>22. p.ur.value \in r..u /\ u - p.ur.value <= Window
  BY <1>2, <1>6, <1>17, <1>20, <1>21, Bounds
<1>23. DOMAIN p.buf \subseteq (p.ur.value + 1)..(u - 1)
  BY <1>1, <1>18
<1>24. p.buf = [k \in DOMAIN p.buf |-> p.buf[k]]
  BY <1>1, <1>19
<1>25. Moved(r, h, n, p)
  BY <1>5, <1>20, <1>22, <1>23, <1>24 DEF Moved
<1>26. Delivers(r, p, buf)
  <2>1. q \in Nat /\ q <= p.ur.value /\ p.ur.value \in SN
    BY <1>2, <1>6, <1>17, <1>20, <1>21, Bounds
  <2>2. DOMAIN buf1 \subseteq q..(Modulus - 1)
    BY <1>6, <1>17, <1>21, Bounds
  <2>3. p.asm = Reassemble(Reassemble({asm}, AllSn, out, buf), Run(q, p.ur.value), DOMAIN buf1, buf1)
    BY <1>1, <1>18
  <2>4. \A k \in DOMAIN p.buf : k \in DOMAIN buf /\ p.buf[k] = buf[k]
    <3>1. \A b, S : \A k \in DOMAIN Erase(b, S) : k \in DOMAIN b /\ Erase(b, S)[k] = b[k]
      BY DEF Erase
    <3>2. \A k \in DOMAIN buf1 : k \in DOMAIN buf /\ buf1[k] = buf[k]
      BY <3>1 DEF buf1
    <3>3. \A k \in DOMAIN p.buf : k \in DOMAIN buf1 /\ p.buf[k] = buf1[k]
      BY <1>1, <3>1
    <3> QED BY <3>2, <3>3
  <2>5. buf1 = Erase(buf, out)
    BY DEF buf1
  <2> QED BY <1>13, <1>17, <2>1, <2>2, <2>3, <2>4, <2>5 DEF Delivers
<1> QED BY <1>25, <1>26 DEF p, buf

\* t-Reordering at the end of DoReceivePdu: it runs if a number below VR(UH) is
\* missing, and then for a VR(UX) above VR(UR).
LEMMA TimerMoves ==
  ASSUME NEW ur, NEW uh, IsPair(ur), IsPair(uh), IsPair(vrUx), UpdateTimer(ur, uh),
         ur.value \in SN, uh.value \in SN,
         ur.value <= uh.value, uh.value - ur.value <= Window,
         reordering => vrUx.value \in SN /\ vrUx.value <= uh.value
  PROVE  /\ vrUr'.value = ur.value /\ vrUh'.value = uh.value
         /\ ur.value < uh.value => reordering'
         /\ reordering' => /\ vrUx'.value \in SN
                           /\ ur.value < vrUx'.value /\ vrUx'.value <= uh.value
PROOF
<1> DEFINE base == Minus(uh, Window)
           r == SetModulusBase(ur, base)
           x == SetModulusBase(vrUx, base)
           h == SetModulusBase(uh, base)
           running == /\ reordering
                      /\ ~LessEq(x, r)
                      /\ IsInsideReorderingWindow(x, h) \/ x.value = h.value
           start == ~running /\ Greater(h, r)
<1>1. /\ vrUr' = r /\ vrUh' = h /\ vrUx' = IF start THEN h ELSE x
      /\ reordering' = (running \/ start)
  BY DEF UpdateTimer, VrUxRebased, StartReordering
<1>2. PICK p, q, y : p = ur.value /\ q = uh.value /\ y = vrUx.value
  OBVIOUS
<1>3. base.value = Edge(q)
  BY <1>2, PairOps DEF Edge
<1> HIDE DEF base
<1>4. /\ r = [value |-> p, base |-> Edge(q)]
      /\ x = [value |-> y, base |-> Edge(q)]
      /\ h = [value |-> q, base |-> Edge(q)]
  BY <1>2, <1>3, PairOps
<1>5. r.value = p /\ x.value = y /\ h.value = q /\ IsPair(x) /\ IsPair(h)
  BY <1>4, Pairs
<1> HIDE DEF r, x, h
<1>6. p \in Int /\ q \in Int /\ p <= q /\ q - p <= Window /\ Near(p, q) /\ Near(q, q)
  BY <1>2, Bounds DEF Near
<1>7. Greater(h, r) <=> q > p
  BY <1>4, <1>6, Order
<1>8. running => y \in SN /\ p < y /\ y <= q
  <2> HAVE running
  <2>1. y \in SN /\ y \in Int /\ y <= q
    BY <1>2, Bounds
  <2>2. q - y <= Window
    <3>1. x.value - h.value < Window
      BY <1>5, <1>6, <2>1, Bounds
    <3>2. IsInsideReorderingWindow(x, h) <=> y < q /\ q - y <= Window
      BY <1>2, <1>5, <2>1, <3>1, Inside
    <3>3. y = q => q - y <= Window
      BY <1>6, Bounds
    <3> QED BY <1>5, <3>2, <3>3
  <2>3. Near(y, q)
    BY <1>2, <1>6, <2>1, <2>2, Bounds DEF Near
  <2>4. LessEq(x, r) <=> y <= p
    BY <1>4, <1>6, <2>3, Order
  <2> QED BY <1>6, <2>1, <2>4
<1> HIDE DEF running
<1>9. CASE start
  <2>1. vrUx' = h /\ reordering' /\ p < q
    BY <1>1, <1>7, <1>9
  <2> QED BY <1>1, <1>2, <1>5, <1>6, <2>1
<1>10. CASE ~start
  <2>1. vrUx' = x /\ (reordering' <=> running) /\ (p < q => running)
    BY <1>1, <1>6, <1>7, <1>10
  <2> QED BY <1>1, <1>2, <1>5, <1>8, <2>1
<1> QED BY <1>9, <1>10

-----------------------------------------------------------------------------
(* The invariant of the receiver before the sequence numbers wrap around.  *)

\* The PDUs from number u on, of m sent, that are not in A.
Absent(u, m, A) == {n \in u..(m - 1) : \A x \in A : x.n # n}

\* Few PDUs are behind the newest one, and few are lost.
OnAir ==
  /\ sent \in 0..MaxPdu /\ losses \in 0..MaxLoss
  /\ \A x \in air : x.n \in 0..(sent - 1) /\ sent - x.n <= Overtaken + 1
  /\ Cardinality(Absent(vrUh.value, sent, air)) <= losses

\* VR(UR) is at most a window below VR(UH), and what is buffered is between them.
InWindow ==
  /\ vrUr.value \in Nat /\ vrUh.value \in Nat
  /\ vrUr.value <= vrUh.value /\ vrUh.value <= sent
  /\ vrUh.value - vrUr.value <= Window
  /\ DOMAIN rxBuffer \subseteq (vrUr.value + 1)..(vrUh.value - 1)
  /\ rxBuffer = [k \in DOMAIN rxBuffer |-> rxBuffer[k]]

\* t-Reordering runs while a number is missing, for a VR(UX) above VR(UR).
TimerRuns ==
  /\ vrUr.value < vrUh.value => reordering
  /\ reordering => /\ vrUx.value \in Nat
                   /\ vrUr.value < vrUx.value /\ vrUx.value <= vrUh.value

WindowInv == Bases /\ OnAir /\ InWindow /\ TimerRuns

\* Absent sets are finite and grow with fewer PDUs on the air.
LEMMA AbsentFinite ==
  ASSUME NEW u \in Int, NEW m \in Int, NEW A
  PROVE  IsFiniteSet(Absent(u, m, A)) /\ Cardinality(Absent(u, m, A)) \in Nat
PROOF
<1>1. Absent(u, m, A) \in SUBSET (u..(m - 1))
  BY DEF Absent
<1>2. IsFiniteSet(u..(m - 1))
  BY FS_Interval
<1>3. IsFiniteSet(Absent(u, m, A))
  BY <1>1, <1>2, FS_Subset
<1> QED BY <1>3, FS_CardinalityType

\* Before the wrap-around, a PDU that arrives is near VR(UH): all but Overtaken of
\* the numbers from VR(UH) on were lost.
LEMMA Gap ==
  ASSUME WindowInv, MaxPdu < Modulus, NEW x \in air
  PROVE  /\ x.n \in Nat /\ x.n + 1 <= sent /\ sent < Modulus
         /\ x.n - vrUh.value < Window
         /\ vrUh.value - x.n <= Window
PROOF
<1>1. PICK h, n, m : h = vrUh.value /\ n = x.n /\ m = sent
  OBVIOUS
<1>2. /\ h \in Nat /\ n \in Nat /\ m \in Nat /\ n + 1 <= m /\ m < Modulus /\ h <= m
      /\ m - n <= Overtaken + 1
  <2>1. /\ h \in Nat /\ h <= m /\ m \in 0..MaxPdu
        /\ n \in 0..(m - 1) /\ m - n <= Overtaken + 1
    BY <1>1 DEF WindowInv, OnAir, InWindow
  <2> QED BY <2>1, Bounds
<1>3. PICK S : S = Absent(h, m, air)
  OBVIOUS
<1>4. IsFiniteSet(S) /\ Cardinality(S) \in Nat
  BY <1>2, <1>3, AbsentFinite
<1>5. Cardinality(S) <= MaxLoss
  BY <1>1, <1>3, <1>4, Bounds DEF WindowInv, OnAir
<1>6. PICK e \in Int : e = m - Overtaken - 2
  BY <1>2, Bounds
<1>7. h..e \subseteq S
  <2> SUFFICES ASSUME NEW k \in h..e PROVE k \in h..(m - 1) /\ \A y \in air : y.n # k
    BY <1>3 DEF Absent
  <2>1. k \in h..(m - 1)
    BY <1>2, <1>6, Bounds
  <2>2. \A y \in air : y.n \in Int /\ m - y.n <= Overtaken + 1
    BY <1>1, <1>2 DEF WindowInv, OnAir
  <2> QED BY <1>2, <1>6, <2>1, <2>2, Bounds
<1>8. Cardinality(h..e) <= Cardinality(S)
  BY <1>4, <1>7, FS_Subset
<1>9. Cardinality(h..e) = IF h > e THEN 0 ELSE e - h + 1
  <2>1. h \in Int /\ e \in Int
    BY <1>2, <1>6
  <2> QED BY <2>1, FS_Interval
<1>10. m - Overtaken - 1 - h <= MaxLoss
  BY <1>2, <1>4, <1>5, <1>6, <1>8, <1>9, Bounds
<1>11. n - h < Window /\ h - n <= Window
  BY <1>2, <1>10, Bounds
<1> QED BY <1>1, <1>2, <1>11

\* The start.
LEMMA WindowInit == Init => WindowInv
PROOF
<1> SUFFICES ASSUME Init PROVE WindowInv
  OBVIOUS
<1>1. vrUr = [value |-> 0, base |-> 0] /\ vrUx = vrUr /\ vrUh = vrUr
  <2>1. 0 \in SN
    BY Bounds
  <2> QED BY <2>1, Remainder DEF Init, Sn
<1>2. Bases
  BY <1>1 DEF Init, Bases, IsPair
<1>3. Absent(0, 0, {}) = {}
  BY DEF Absent
<1>4. OnAir
  BY <1>1, <1>3, FS_EmptySet, Bounds DEF Init, OnAir
<1>5. InWindow
  BY <1>1, Bounds DEF Init, InWindow
<1>6. TimerRuns
  BY <1>1 DEF Init, TimerRuns
<1> QED BY <1>2, <1>4, <1>5, <1>6 DEF WindowInv

\* DoReceivePdu discards what is below VR(UR), and what it discards is below VR(UH).
LEMMA DiscardedIs ==
  ASSUME NEW r, NEW h, NEW n, Near(r, h), Near(n, h), r <= h,
         NEW ur, ur = [value |-> r, base |-> Edge(h)],
         NEW uh, uh = [value |-> h, base |-> Edge(h)],
         NEW s, s = [value |-> n, base |-> Edge(h)]
  PROVE  /\ Discarded(ur, uh, s) => n < h
         /\ n < r => Discarded(ur, uh, s)
PROOF
<1>1. Near(h, h) /\ r \in Int /\ h \in Int /\ n \in Int
  BY Bounds DEF Near
<1>2. Less(ur, s) <=> r < n
  BY Order
<1>3. Less(s, uh) <=> n < h
  BY <1>1, Order
<1>4. Less(s, ur) <=> n < r
  BY Order
<1>5. LessEq(Minus(uh, Window), s)
  <2>1. Edge(h) \in SN
    <3>1. h - Window \in Int
      BY <1>1, Bounds
    <3> QED BY <3>1, Remainder DEF Edge
  <2>2. Minus(uh, Window) = [value |-> Edge(h), base |-> Edge(h)]
    <3>1. IsPair(uh) /\ uh.value = h /\ uh.base = Edge(h)
      BY Pairs
    <3> QED BY <3>1, PairOps DEF Edge
  <2>3. Distance(Minus(uh, Window)) = 0
    <3>1. Edge(h) - Edge(h) = 0 /\ 0 \in SN
      BY <2>1, Bounds
    <3> QED BY <2>2, <3>1, Remainder DEF Distance
  <2>4. Distance(s) \in SN
    <3>1. n - Edge(h) \in Int /\ s.value = n /\ s.base = Edge(h)
      BY <1>1, <2>1, Bounds
    <3> QED BY <3>1, Remainder DEF Distance
  <2> QED BY <2>3, <2>4, Bounds DEF LessEq, Greater
<1>6. Discarded(ur, uh, s) => n < h
  BY <1>1, <1>3, <1>4 DEF Discarded
<1>7. n < r => Discarded(ur, uh, s)
  BY <1>4, <1>5 DEF Discarded
<1> QED BY <1>6, <1>7

\* A transmission and a loss.
LEMMA AirSteps ==
  ASSUME WindowInv
  PROVE  /\ \A k \in 1..PduUnits : DoNotifyTxOpportunity(k) => OnAir' /\ InWindow' /\ TimerRuns'
         /\ \A x \in air : LosePdu(x) => OnAir' /\ InWindow' /\ TimerRuns'
PROOF
<1>1. PICK h \in Nat : h = vrUh.value
  BY DEF WindowInv, InWindow
<1>2. /\ sent \in Nat /\ sent <= MaxPdu /\ losses \in Nat /\ losses <= MaxLoss /\ h <= sent
      /\ Cardinality(Absent(h, sent, air)) <= losses
      /\ \A x \in air : x.n \in 0..(sent - 1) /\ sent - x.n <= Overtaken + 1
  BY <1>1, Bounds DEF WindowInv, OnAir, InWindow
<1>3. IsFiniteSet(Absent(h, sent, air)) /\ Cardinality(Absent(h, sent, air)) \in Nat
  BY <1>1, <1>2, AbsentFinite
<1>4. ASSUME NEW k \in 1..PduUnits, DoNotifyTxOpportunity(k)
      PROVE  OnAir' /\ InWindow' /\ TimerRuns'
  <2>1. PICK y : y = [n |-> sent, from |-> nextUnit, size |-> k]
    OBVIOUS
  <2>2. /\ sent < MaxPdu /\ \A x \in air : sent - x.n <= Overtaken
        /\ air' = air \cup {y} /\ sent' = sent + 1 /\ y.n = sent
        /\ UNCHANGED <<losses, rxBuffer, vrUr, vrUx, vrUh, reordering>>
    BY <1>4, <2>1 DEF DoNotifyTxOpportunity
  <2>3. \A x \in air \cup {y} : x.n \in 0..sent /\ sent + 1 - x.n <= Overtaken + 1
    BY <1>2, <2>2, Bounds
  <2>4. Absent(h, sent + 1, air \cup {y}) \subseteq Absent(h, sent, air)
    BY <1>1, <1>2, <2>2 DEF Absent
  <2>5. /\ Cardinality(Absent(h, sent + 1, air \cup {y})) <= Cardinality(Absent(h, sent, air))
        /\ IsFiniteSet(Absent(h, sent + 1, air \cup {y}))
    BY <1>3, <2>4, FS_Subset
  <2>6. Cardinality(Absent(h, sent + 1, air \cup {y})) \in Nat
    BY <2>5, FS_CardinalityType
  <2>7. Cardinality(Absent(vrUh.value, sent, air)') <= losses'
    BY <1>1, <1>2, <1>3, <2>2, <2>5, <2>6
  <2>8. OnAir'
    <3>1. sent' \in 0..MaxPdu /\ losses' \in 0..MaxLoss
      BY <1>2, <2>2, Bounds
    <3>2. \A x \in air' : x.n \in 0..(sent' - 1) /\ sent' - x.n <= Overtaken + 1
      BY <1>2, <2>2, <2>3
    <3> QED BY <2>7, <3>1, <3>2 DEF OnAir
  <2>9. InWindow'
    BY <1>1, <1>2, <2>2 DEF WindowInv, InWindow
  <2>10. TimerRuns'
    BY <2>2 DEF WindowInv, TimerRuns
  <2> QED BY <2>8, <2>9, <2>10
<1>5. ASSUME NEW x \in air, LosePdu(x) PROVE OnAir' /\ InWindow' /\ TimerRuns'
  <2>1. /\ losses < MaxLoss /\ air' = air \ {x} /\ losses' = losses + 1
        /\ UNCHANGED <<sent, rxBuffer, vrUr, vrUx, vrUh, reordering>>
    BY <1>5 DEF LosePdu
  <2>2. Absent(h, sent, air \ {x}) \subseteq Absent(h, sent, air) \cup {x.n}
    BY DEF Absent
  <2>3. /\ IsFiniteSet(Absent(h, sent, air) \cup {x.n})
        /\ Cardinality(Absent(h, sent, air) \cup {x.n}) <= losses + 1
        /\ Cardinality(Absent(h, sent, air) \cup {x.n}) \in Nat
    <3>1. PICK S : S = Absent(h, sent, air)
      OBVIOUS
    <3>2. /\ IsFiniteSet(S \cup {x.n})
          /\ Cardinality(S \cup {x.n}) = IF x.n \in S THEN Cardinality(S) ELSE Cardinality(S) + 1
      BY <1>3, <3>1, FS_AddElement
    <3> QED BY <1>2, <1>3, <3>1, <3>2
  <2>4. /\ Cardinality(Absent(h, sent, air \ {x})) <= Cardinality(Absent(h, sent, air) \cup {x.n})
        /\ IsFiniteSet(Absent(h, sent, air \ {x}))
    BY <2>2, <2>3, FS_Subset
  <2>5. Cardinality(Absent(h, sent, air \ {x})) \in Nat
    BY <2>4, FS_CardinalityType
  <2>6. Cardinality(Absent(vrUh.value, sent, air)') <= losses'
    BY <1>1, <1>2, <2>1, <2>3, <2>4, <2>5
  <2>7. OnAir'
    <3>1. sent' \in 0..MaxPdu /\ losses' \in 0..MaxLoss
      BY <1>2, <2>1, Bounds
    <3>2. \A y \in air' : y.n \in 0..(sent' - 1) /\ sent' - y.n <= Overtaken + 1
      BY <1>2, <2>1
    <3> QED BY <2>6, <3>1, <3>2 DEF OnAir
  <2>8. InWindow'
    BY <2>1 DEF WindowInv, InWindow
  <2>9. TimerRuns'
    BY <2>1 DEF WindowInv, TimerRuns
  <2> QED BY <2>7, <2>8, <2>9
<1> QED BY <1>4, <1>5

\* The expiry of t-Reordering takes VR(UR) to a missing number g and delivers what it
\* passes.
ExpiryTo(g) ==
  /\ g \in Nat /\ vrUr.value <= g /\ g <= vrUh.value /\ vrUh.value \in SN
  /\ vrUr'.value = g
  /\ DOMAIN rxBuffer' = DOMAIN rxBuffer \ (vrUr.value..(g - 1))
  /\ DOMAIN rxBuffer' \subseteq (g + 1)..(vrUh.value - 1)
  /\ rxBuffer' = [k \in DOMAIN rxBuffer' |-> rxBuffer'[k]]
  /\ \A k \in DOMAIN rxBuffer' : rxBuffer'[k] = rxBuffer[k]
  /\ asm' \in Reassemble({asm}, Run(vrUr.value, g), DOMAIN rxBuffer, rxBuffer)
  /\ reordering' <=> g < vrUh.value
  /\ g < vrUh.value => vrUx' = vrUh
  /\ UNCHANGED <<sent, nextUnit, air, losses, vrUh>>

\* So it does.
LEMMA ExpiryIs ==
  ASSUME WindowInv, MaxPdu < Modulus, ExpireReorderingTimer
  PROVE  \E g : ExpiryTo(g)
PROOF
<1>1. PICK r \in Nat, h \in Nat, y \in Nat : r = vrUr.value /\ h = vrUh.value /\ y = vrUx.value
  BY DEF WindowInv, InWindow, TimerRuns, ExpireReorderingTimer
<1>2. /\ reordering /\ r < y /\ y <= h /\ h - r <= Window /\ h <= sent /\ sent \in Nat
      /\ h < Modulus /\ DOMAIN rxBuffer \subseteq (r + 1)..(h - 1)
  BY <1>1, Bounds DEF WindowInv, InWindow, OnAir, TimerRuns, ExpireReorderingTimer
<1>3. PICK d, c : d = FirstMissingFrom(y, rxBuffer) /\ c = Plus(vrUx, d)
  OBVIOUS
<1>4. /\ vrUr' = c /\ rxBuffer' = Erase(rxBuffer, Range(SnInterval(vrUr, c)))
      /\ reordering' = StartReordering(vrUh, c)
      /\ vrUx' = IF StartReordering(vrUh, c) THEN vrUh ELSE vrUx
      /\ asm' \in Reassemble({asm}, SnInterval(vrUr, c), DOMAIN rxBuffer, rxBuffer)
      /\ UNCHANGED <<sent, nextUnit, air, losses, vrUh>>
  BY <1>1, <1>3 DEF ExpireReorderingTimer
<1>5. Near(r, h) /\ Near(y, h) /\ Near(h, h) /\ y \in SN /\ h \in SN
  <2>1. /\ r <= h /\ h - r <= Window /\ h - y <= Window /\ h - h <= Window
        /\ y <= h /\ h <= h /\ h < Modulus
    BY <1>2, Bounds
  <2> QED BY <2>1, NearBelow
<1>6. h \notin DOMAIN rxBuffer
  BY <1>1, <1>2
<1>7. d \in 0..(h - y) /\ y + d \notin DOMAIN rxBuffer
  BY <1>2, <1>3, <1>5, <1>6, FirstMissingIs
<1>8. PICK g : g = y + d
  OBVIOUS
<1>9. g \in Nat /\ y <= g /\ g <= h /\ g \in SN /\ Near(g, h)
  <2>1. g \in Nat /\ y <= g /\ g <= h
    BY <1>1, <1>7, <1>8
  <2>2. g \in SN /\ h - g <= Window /\ g - h < Window
    BY <1>1, <1>2, <2>1, Bounds
  <2> QED BY <1>5, <2>1, <2>2 DEF Near
<1>10. /\ vrUr = [value |-> r, base |-> Edge(h)]
       /\ vrUh = [value |-> h, base |-> Edge(h)]
       /\ vrUx.base = Edge(h) /\ IsPair(vrUx)
  BY <1>1, <1>2 DEF WindowInv, Bases, IsPair
<1>11. c = [value |-> g, base |-> Edge(h)]
  <2>1. Plus(vrUx, d) = [value |-> (vrUx.value + d) % Modulus, base |-> vrUx.base]
    BY <1>10, PairOps
  <2>2. g % Modulus = g
    BY <1>9, Remainder
  <2> QED BY <1>1, <1>3, <1>8, <1>10, <2>1, <2>2
<1>12. c.value = g
  BY <1>11
<1>13. Greater(vrUh, c) <=> h > g
  BY <1>5, <1>9, <1>10, <1>11, Order
<1>14. SnInterval(vrUr, c) = Run(r, g) /\ Range(SnInterval(vrUr, c)) = r..(g - 1)
  <2>1. r <= g
    BY <1>2, <1>9
  <2>2. PICK a : a = vrUr
    OBVIOUS
  <2>3. SnInterval(a, c) = Run(r, g) /\ Range(SnInterval(a, c)) = r..(g - 1)
    <3>1. a = [value |-> r, base |-> Edge(h)]
      BY <1>10, <2>2
    <3>2. Near(r, h) /\ Near(g, h)
      BY <1>5, <1>9
    <3> QED BY <1>11, <2>1, <3>1, <3>2, IntervalIs
  <2> QED BY <2>2, <2>3
<1>15. /\ DOMAIN rxBuffer' = DOMAIN rxBuffer \ (r..(g - 1))
       /\ rxBuffer' = [k \in DOMAIN rxBuffer' |-> rxBuffer'[k]]
       /\ \A k \in DOMAIN rxBuffer' : rxBuffer'[k] = rxBuffer[k]
  BY <1>4, <1>14 DEF Erase
<1>16. DOMAIN rxBuffer' \subseteq (g + 1)..(h - 1)
  BY <1>2, <1>7, <1>8, <1>9, <1>15
<1>17. vrUr'.value = g /\ r <= g
  BY <1>2, <1>4, <1>9, <1>12
<1>18. (reordering' <=> g < h) /\ (g < h => vrUx' = vrUh)
  BY <1>4, <1>9, <1>13 DEF StartReordering
<1>19. asm' \in Reassemble({asm}, Run(r, g), DOMAIN rxBuffer, rxBuffer)
  BY <1>4, <1>14
<1>20. ExpiryTo(g)
  BY <1>1, <1>4, <1>5, <1>9, <1>15, <1>16, <1>17, <1>18, <1>19 DEF ExpiryTo
<1> QED BY <1>20

\* The expiry of t-Reordering.
LEMMA ExpiryStep ==
  ASSUME WindowInv, MaxPdu < Modulus, ExpireReorderingTimer
  PROVE  OnAir' /\ InWindow' /\ TimerRuns'
PROOF
<1>1. PICK g : ExpiryTo(g)
  BY ExpiryIs
<1>2. PICK h \in Nat : h = vrUh.value /\ h <= sent /\ h - vrUr.value <= Window /\ vrUr.value \in Nat
  BY DEF WindowInv, InWindow
<1>3. OnAir'
  BY <1>1 DEF WindowInv, OnAir, ExpiryTo
<1>4. InWindow'
  <2>1. /\ g \in Nat /\ vrUr.value <= g /\ g <= h /\ vrUr'.value = g /\ vrUh'.value = h
        /\ sent' = sent /\ DOMAIN rxBuffer' \subseteq (g + 1)..(h - 1)
        /\ rxBuffer' = [k \in DOMAIN rxBuffer' |-> rxBuffer'[k]]
    BY <1>1, <1>2 DEF ExpiryTo
  <2>2. h - g <= Window
    BY <1>2, <2>1, Bounds
  <2> QED BY <1>2, <2>1, <2>2 DEF InWindow
<1>5. TimerRuns'
  <2>1. /\ vrUr'.value = g /\ vrUh'.value = h /\ (reordering' <=> g < h)
        /\ g < h => vrUx' = vrUh
    BY <1>1, <1>2 DEF ExpiryTo
  <2> QED BY <1>2, <2>1 DEF TimerRuns
<1> QED BY <1>3, <1>4, <1>5

\* What an arrival does to the numbers, the timer and the air, if VR(UH) moves only
\* behind the PDU.
LEMMA ArrivalAir ==
  ASSUME WindowInv, MaxPdu < Modulus, NEW x \in air, air' = air \ {x},
         UNCHANGED <<sent, losses>>, vrUh'.value = IF x.n < vrUh.value THEN vrUh.value ELSE x.n + 1
  PROVE  OnAir' /\ vrUh'.value \in Nat /\ vrUh'.value <= sent' /\ vrUh.value <= vrUh'.value
PROOF
<1>1. PICK h \in Nat, n \in Nat : h = vrUh.value /\ n = x.n
  BY Gap DEF WindowInv, InWindow
<1>2. PICK u : u = IF n < h THEN h ELSE n + 1
  OBVIOUS
<1>3. /\ sent \in Nat /\ sent <= MaxPdu /\ losses \in Nat /\ losses <= MaxLoss /\ h <= sent
      /\ Cardinality(Absent(h, sent, air)) <= losses
      /\ \A y \in air : y.n \in 0..(sent - 1) /\ sent - y.n <= Overtaken + 1
  BY <1>1, Bounds DEF WindowInv, OnAir, InWindow
<1>4. vrUh'.value = u /\ u \in Nat /\ h <= u /\ u <= sent /\ n < u
  BY <1>1, <1>2, <1>3
<1>5. IsFiniteSet(Absent(h, sent, air)) /\ Cardinality(Absent(h, sent, air)) \in Nat
  BY <1>1, <1>3, AbsentFinite
<1>6. Absent(u, sent, air \ {x}) \subseteq Absent(h, sent, air)
  BY <1>1, <1>3, <1>4 DEF Absent
<1>7. /\ Cardinality(Absent(u, sent, air \ {x})) <= Cardinality(Absent(h, sent, air))
      /\ IsFiniteSet(Absent(u, sent, air \ {x}))
  BY <1>5, <1>6, FS_Subset
<1>8. Cardinality(Absent(u, sent, air \ {x})) \in Nat
  BY <1>7, FS_CardinalityType
<1>9. Cardinality(Absent(vrUh.value, sent, air)') <= losses'
  BY <1>3, <1>4, <1>5, <1>7, <1>8
<1>10. sent' \in 0..MaxPdu /\ losses' \in 0..MaxLoss
  BY <1>3, Bounds
<1>11. \A y \in air' : y.n \in 0..(sent' - 1) /\ sent' - y.n <= Overtaken + 1
  BY <1>3
<1>12. OnAir'
  BY <1>9, <1>10, <1>11 DEF OnAir
<1> QED BY <1>1, <1>4, <1>12

\* A PDU that is discarded changes nothing but bases.  One that is not takes the
\* receiver where Placed says.
ArrivalDiscards(x) ==
  /\ x.n < vrUh.value /\ vrUr'.value = vrUr.value /\ vrUh'.value = vrUh.value
  /\ UNCHANGED <<vrUx, reordering, rxBuffer, asm>>
ArrivalPlaces(x, p) ==
  /\ vrUr.value <= x.n
  /\ Moved(vrUr.value, vrUh.value, x.n, p)
  /\ Delivers(vrUr.value, p, Store(rxBuffer, x.n, x))
  /\ IsPair(p.ur) /\ IsPair(p.uh)
  /\ rxBuffer' = p.buf /\ asm' \in p.asm /\ UpdateTimer(p.ur, p.uh)

\* The two cases of an arrival.
LEMMA ArrivalCases ==
  ASSUME WindowInv, MaxPdu < Modulus, NEW x \in air, DoReceivePdu(x)
  PROVE  /\ air' = air \ {x} /\ UNCHANGED <<sent, nextUnit, losses>>
         /\ ArrivalDiscards(x) \/ \E p : ArrivalPlaces(x, p)
PROOF
<1>1. PICK r \in Nat, h \in Nat, n \in Nat : r = vrUr.value /\ h = vrUh.value /\ n = x.n
  BY Gap DEF WindowInv, InWindow
<1>2. /\ r <= h /\ h - r <= Window /\ h <= sent /\ sent \in Nat /\ sent < Modulus
      /\ n + 1 <= sent /\ n - h < Window /\ h - n <= Window
      /\ DOMAIN rxBuffer \subseteq (r + 1)..(h - 1)
  <2>1. n + 1 <= sent /\ sent < Modulus /\ n - h < Window /\ h - n <= Window
    BY <1>1, Gap
  <2>2. sent \in Nat
    BY Bounds DEF WindowInv, OnAir
  <2>3. /\ r <= h /\ h - r <= Window /\ h <= sent
        /\ DOMAIN rxBuffer \subseteq (r + 1)..(h - 1)
    BY <1>1 DEF WindowInv, InWindow
  <2> QED BY <2>1, <2>2, <2>3
<1>3. r \in SN /\ h \in SN /\ n \in SN /\ n + 1 \in SN /\ Near(r, h) /\ Near(n, h)
  <2> PICK m \in Nat : m = sent
    BY <1>2
  <2>1. h < Modulus /\ n + 1 < Modulus /\ n < Modulus
    BY <1>2, Bounds
  <2>2. n \in SN /\ n + 1 \in SN
    BY <2>1, Bounds
  <2>3. r \in SN /\ h \in SN /\ Near(r, h)
    BY <1>2, <2>1, NearBelow
  <2>4. Near(n, h)
    BY <1>2, <2>2, <2>3 DEF Near
  <2> QED BY <2>2, <2>3, <2>4
<1>4. n % Modulus = n
  BY <1>3, Remainder
<1>5. PICK ur, uh, s : /\ ur = [value |-> r, base |-> Edge(h)]
                       /\ uh = [value |-> h, base |-> Edge(h)]
                       /\ s = [value |-> n, base |-> Edge(h)]
  OBVIOUS
<1>6. s.value = n /\ ur.value = r /\ uh.value = h /\ IsPair(ur) /\ IsPair(uh) /\ IsPair(s)
  BY <1>5, Pairs
<1>7. PICK p : p = Placed(ur, uh, s, Store(rxBuffer, n, x))
  OBVIOUS
<1>8. /\ air' = air \ {x} /\ UNCHANGED <<sent, nextUnit, losses>>
      /\ \/ /\ Discarded(ur, uh, s) /\ vrUr' = ur /\ vrUh' = uh
            /\ UNCHANGED <<vrUx, reordering, rxBuffer, asm>>
         \/ /\ ~Discarded(ur, uh, s) /\ rxBuffer' = p.buf /\ asm' \in p.asm
            /\ UpdateTimer(p.ur, p.uh)
  <2>1. Bases
    BY DEF WindowInv
  <2> DEFINE b == Edge(vrUh.value)
             aur == [value |-> vrUr.value, base |-> b]
             auh == [value |-> vrUh.value, base |-> b]
             as == [value |-> x.n % Modulus, base |-> b]
             ap == Placed(aur, auh, as, Store(rxBuffer, as.value, x))
  <2>2. aur = ur /\ auh = uh /\ as = s /\ as.value = n
    BY <1>1, <1>4, <1>5
  <2>3. /\ air' = air \ {x} /\ UNCHANGED <<sent, nextUnit, losses>>
        /\ \/ /\ Discarded(aur, auh, as) /\ vrUr' = aur /\ vrUh' = auh
              /\ UNCHANGED <<vrUx, reordering, rxBuffer, asm>>
           \/ /\ ~Discarded(aur, auh, as) /\ rxBuffer' = ap.buf /\ asm' \in ap.asm
              /\ UpdateTimer(ap.ur, ap.uh)
    BY <2>1, Arrival
  <2> HIDE DEF aur, auh, as
  <2>4. ap = p
    BY <1>7, <2>2
  <2> HIDE DEF ap
  <2> QED BY <2>2, <2>3, <2>4
<1>9. CASE Discarded(ur, uh, s) /\ vrUr' = ur /\ vrUh' = uh /\ UNCHANGED <<vrUx, reordering, rxBuffer, asm>>
  <2>1. n < h
    <3>1. Discarded(ur, uh, s) => n < h
      BY <1>2, <1>3, <1>5, DiscardedIs
    <3> QED BY <1>9, <3>1
  <2>2. vrUr'.value = vrUr.value /\ vrUh'.value = vrUh.value
    BY <1>1, <1>6, <1>9
  <2> QED BY <1>1, <1>8, <1>9, <2>1, <2>2 DEF ArrivalDiscards
<1>10. CASE /\ ~Discarded(ur, uh, s) /\ rxBuffer' = p.buf /\ asm' \in p.asm
            /\ UpdateTimer(p.ur, p.uh)
  <2>1. r <= n
    <3>1. n < r => Discarded(ur, uh, s)
      BY <1>2, <1>3, <1>5, DiscardedIs
    <3>2. ~(n < r)
      BY <1>10, <3>1
    <3> QED BY <1>1, <3>2
  <2>2. PICK buf : buf = rxBuffer
    OBVIOUS
  <2>3. Moved(r, h, n, Placed(ur, uh, s, Store(buf, n, x)))
    BY <1>2, <1>3, <1>5, <2>1, <2>2, PlacedMoves
  <2>4. Delivers(r, Placed(ur, uh, s, Store(buf, n, x)), Store(buf, n, x))
    BY <1>2, <1>3, <1>5, <2>1, <2>2, PlacedMoves
  <2>5. IsPair(p.ur) /\ IsPair(p.uh)
    BY <1>6, <1>7, PlacedPairs
  <2>6. Moved(r, h, n, p) /\ Delivers(r, p, Store(rxBuffer, n, x))
    BY <1>7, <2>2, <2>3, <2>4, Zenon
  <2>7. ArrivalPlaces(x, p)
    BY <1>1, <1>10, <2>1, <2>5, <2>6 DEF ArrivalPlaces
  <2> QED BY <1>8, <2>7
<1> QED BY <1>8, <1>9, <1>10

\* The arrival of a PDU.
LEMMA ArrivalStep ==
  ASSUME WindowInv, MaxPdu < Modulus, NEW x \in air, DoReceivePdu(x)
  PROVE  OnAir' /\ InWindow' /\ TimerRuns'
PROOF
<1>1. PICK r \in Nat, h \in Nat, n \in Nat : r = vrUr.value /\ h = vrUh.value /\ n = x.n
  BY Gap DEF WindowInv, InWindow
<1>2. /\ r <= h /\ h - r <= Window /\ h <= sent /\ sent \in Nat /\ sent < Modulus
      /\ n + 1 <= sent
  BY <1>1, Gap DEF WindowInv, InWindow, OnAir
<1>3. air' = air \ {x} /\ UNCHANGED <<sent, losses>>
  BY ArrivalCases
<1>4. CASE ArrivalDiscards(x)
  <2>1. /\ n < h /\ vrUr'.value = vrUr.value /\ vrUh'.value = vrUh.value
        /\ UNCHANGED <<vrUx, reordering, rxBuffer>>
    BY <1>1, <1>4 DEF ArrivalDiscards
  <2>2. OnAir'
    BY <1>1, <1>3, <2>1, ArrivalAir
  <2>3. InWindow'
    BY <1>3, <2>1 DEF WindowInv, InWindow
  <2>4. TimerRuns'
    BY <2>1 DEF WindowInv, TimerRuns
  <2> QED BY <2>2, <2>3, <2>4
<1>5. ASSUME NEW p, ArrivalPlaces(x, p) PROVE OnAir' /\ InWindow' /\ TimerRuns'
  <2>1. /\ Moved(r, h, n, p) /\ IsPair(p.ur) /\ IsPair(p.uh)
        /\ rxBuffer' = p.buf /\ UpdateTimer(p.ur, p.uh)
    BY <1>1, <1>5 DEF ArrivalPlaces
  <2>3. PICK v, u : v = p.ur.value /\ u = p.uh.value
    OBVIOUS
  <2>5. /\ u = IF n < h THEN h ELSE n + 1
        /\ v \in r..u /\ u - v <= Window
        /\ DOMAIN p.buf \subseteq (v + 1)..(u - 1)
        /\ p.buf = [k \in DOMAIN p.buf |-> p.buf[k]]
    BY <2>1, <2>3 DEF Moved
  <2>6. u \in Nat /\ v \in Nat /\ h <= u /\ u <= sent /\ v <= u /\ u \in SN /\ v \in SN
    <3>1. u \in Nat /\ h <= u /\ u <= sent
      BY <1>1, <1>2, <2>5
    <3>2. v \in Nat /\ v <= u
      BY <1>1, <2>5, <3>1
    <3>3. u \in SN /\ v \in SN
      BY <1>2, <3>1, <3>2, Bounds
    <3> QED BY <3>1, <3>2, <3>3
  <2>7. reordering => vrUx.value \in SN /\ vrUx.value <= u
    BY <1>1, <1>2, <2>6, Bounds DEF WindowInv, TimerRuns
  <2>8. IsPair(vrUx)
    BY DEF WindowInv, Bases
  <2>9. /\ vrUr'.value = v /\ vrUh'.value = u
        /\ v < u => reordering'
        /\ reordering' => vrUx'.value \in SN /\ v < vrUx'.value /\ vrUx'.value <= u
    <3>1. PICK a, c : a = p.ur /\ c = p.uh
      OBVIOUS
    <3>2. /\ IsPair(a) /\ IsPair(c) /\ UpdateTimer(a, c)
          /\ a.value = v /\ c.value = u
      BY <2>1, <2>3, <3>1
    <3>3. /\ a.value \in SN /\ c.value \in SN /\ a.value <= c.value
          /\ c.value - a.value <= Window
          /\ reordering => vrUx.value \in SN /\ vrUx.value <= c.value
      BY <2>5, <2>6, <2>7, <3>2
    <3>4. /\ vrUr'.value = a.value /\ vrUh'.value = c.value
          /\ a.value < c.value => reordering'
          /\ reordering' => /\ vrUx'.value \in SN
                            /\ a.value < vrUx'.value /\ vrUx'.value <= c.value
      BY <2>8, <3>2, <3>3, TimerMoves
    <3> QED BY <3>2, <3>4
  <2>10. OnAir'
    BY <1>1, <1>3, <2>5, <2>9, ArrivalAir
  <2>11. InWindow'
    BY <1>3, <2>1, <2>5, <2>6, <2>9 DEF InWindow
  <2>12. TimerRuns'
    BY <2>9, Bounds DEF TimerRuns
  <2> QED BY <2>10, <2>11, <2>12
<1> QED BY <1>4, <1>5, ArrivalCases

\* Before the wrap-around, every step keeps the invariant.
LEMMA WindowStep ==
  ASSUME MaxPdu < Modulus
  PROVE  WindowInv /\ [Next]_vars => WindowInv'
PROOF
<1> SUFFICES ASSUME WindowInv, [Next]_vars PROVE WindowInv'
  OBVIOUS
<1>1. Bases'
  BY BasesStep DEF WindowInv
<1>2. CASE UNCHANGED vars
  BY <1>2 DEF WindowInv, Bases, OnAir, InWindow, TimerRuns, vars
<1>3. ASSUME NEW k \in 1..PduUnits, DoNotifyTxOpportunity(k)
      PROVE  OnAir' /\ InWindow' /\ TimerRuns'
  BY <1>3, AirSteps
<1>4. ASSUME NEW x \in air, LosePdu(x) PROVE OnAir' /\ InWindow' /\ TimerRuns'
  BY <1>4, AirSteps
<1>5. ASSUME NEW x \in air, DoReceivePdu(x) PROVE OnAir' /\ InWindow' /\ TimerRuns'
  BY <1>5, ArrivalStep
<1>6. CASE ExpireReorderingTimer
  BY <1>1, <1>6, ExpiryStep DEF WindowInv
<1> QED BY <1>1, <1>2, <1>3, <1>4, <1>5, <1>6 DEF Next, WindowInv

\* Up to the wrap-around of the sequence numbers, and with fewer PDUs missing in a
\* row than the window holds, the PDU VR(UR) stands for is never in the buffer,
\* whatever is lost or overtaken.
THEOREM VrUrIsMissingHolds ==
  ASSUME MaxPdu < Modulus
  PROVE  Spec => []VrUrIsMissing
PROOF
<1>1. WindowInv => VrUrIsMissing
  BY DEF WindowInv, InWindow, VrUrIsMissing
<1> QED BY <1>1, WindowInit, WindowStep, PTL DEF Spec

\* Under the same conditions no PDU waits in the reception buffer without
\* t-Reordering running: whatever DoReceivePdu and the expiry of the timer leave
\* behind, something will release it.
THEOREM BufferedHasTimerHolds ==
  ASSUME MaxPdu < Modulus
  PROVE  Spec => []BufferedHasTimer
PROOF
<1>1. WindowInv => BufferedHasTimer
  <2> SUFFICES ASSUME WindowInv, ~reordering PROVE rxBuffer = <<>>
    BY DEF BufferedHasTimer
  <2>1. vrUr.value \in Nat /\ vrUh.value \in Nat /\ ~(vrUr.value < vrUh.value)
    BY DEF WindowInv, InWindow, TimerRuns
  <2>2. DOMAIN rxBuffer = {}
    <3>1. DOMAIN rxBuffer \subseteq (vrUr.value + 1)..(vrUh.value - 1)
      BY DEF WindowInv, InWindow
    <3>2. PICK u \in Nat, h \in Nat : u = vrUr.value /\ h = vrUh.value /\ ~(u < h)
      BY <2>1
    <3>3. (u + 1)..(h - 1) = {}
      BY <3>2
    <3> QED BY <3>1, <3>2, <3>3
  <2> QED BY <2>2 DEF WindowInv, InWindow
<1> QED BY <1>1, WindowInit, WindowStep, PTL DEF Spec
-----------------------------------------------------------------------------
(* Reassembly: units, SDUs and pieces. *)

\* Multiples of the length of an SDU.
LEMMA Multiples ==
  /\ \A a \in Int : a * SduUnits \in Int
  /\ \A a \in Int : (a + 1) * SduUnits = a * SduUnits + SduUnits
  /\ \A a, b \in Int : a < b => a * SduUnits + SduUnits <= b * SduUnits
  /\ \A a \in Nat : a <= a * SduUnits /\ a * SduUnits \in Nat
PROOF
<1>1. SduUnits \in Nat /\ SduUnits >= 1
  BY RlcAssumption
<1>2. \A a \in Int : a * SduUnits \in Int
  BY <1>1
<1>3. \A a \in Int : (a + 1) * SduUnits = a * SduUnits + SduUnits
  BY <1>1
<1>4. ASSUME NEW a \in Int, NEW b \in Int, a < b
      PROVE  a * SduUnits + SduUnits <= b * SduUnits
  <2>1. PICK c \in Nat : b = a + 1 + c
    <3>1. b - a - 1 \in Nat /\ b = a + 1 + (b - a - 1)
      BY <1>4
    <3> QED BY <3>1
  <2>2. (a + 1 + c) * SduUnits = a * SduUnits + SduUnits + c * SduUnits
    BY <1>1
  <2>3. c * SduUnits >= 0
    BY <1>1
  <2> QED BY <1>1, <1>2, <2>1, <2>2, <2>3
<1>5. \A a \in Nat : a <= a * SduUnits /\ a * SduUnits \in Nat
  BY <1>1
<1> QED BY <1>2, <1>3, <1>4, <1>5

\* The SDU a unit belongs to.
LEMMA Division ==
  /\ \A a \in Nat : /\ a \div SduUnits \in Nat /\ a % SduUnits \in 0..(SduUnits - 1)
                    /\ a = (a \div SduUnits) * SduUnits + (a % SduUnits)
  /\ \A a, k \in Nat : k * SduUnits <= a /\ a < k * SduUnits + SduUnits => a \div SduUnits = k
  /\ \A a, b \in Nat : a <= b => a \div SduUnits <= b \div SduUnits
PROOF
<1>1. SduUnits \in Nat /\ SduUnits >= 1
  BY RlcAssumption
<1>2. ASSUME NEW a \in Nat
      PROVE  /\ a \div SduUnits \in Nat /\ a % SduUnits \in 0..(SduUnits - 1)
             /\ a = (a \div SduUnits) * SduUnits + (a % SduUnits)
  BY <1>1
<1>3. ASSUME NEW a \in Nat, NEW k \in Nat, k * SduUnits <= a, a < k * SduUnits + SduUnits
      PROVE  a \div SduUnits = k
  <2>1. PICK d \in Nat : d = a \div SduUnits
    BY <1>2
  <2>2. d * SduUnits <= a /\ a < d * SduUnits + SduUnits /\ d * SduUnits \in Int
    BY <1>1, <1>2, <2>1, Multiples
  <2>3. ~(d < k) /\ ~(k < d)
    BY <1>1, <1>3, <2>2, Multiples
  <2> QED BY <2>1, <2>3
<1>4. ASSUME NEW a \in Nat, NEW b \in Nat, a <= b PROVE a \div SduUnits <= b \div SduUnits
  <2>1. PICK d \in Nat, e \in Nat : d = a \div SduUnits /\ e = b \div SduUnits
    BY <1>2
  <2>2. d * SduUnits <= a /\ b < e * SduUnits + SduUnits /\ d * SduUnits \in Int /\ e * SduUnits \in Int
    BY <1>1, <1>2, <2>1, Multiples
  <2>3. ~(e < d)
    BY <1>1, <1>4, <2>2, Multiples
  <2> QED BY <2>1, <2>3
<1> QED BY <1>2, <1>3, <1>4

\* The units of SDU s.
Sdu(s) == [u \in 1..SduUnits |-> s * SduUnits + u - 1]

\* The units from the start of SDU b up to t, cut into SDUs.
Blocks(b, t) ==
  [i \in 1..((t - 1) \div SduUnits - b + 1) |->
     Run((b + i - 1) * SduUnits, IF t < (b + i) * SduUnits THEN t ELSE (b + i) * SduUnits)]

\* Runs of units.
LEMMA Runs ==
  /\ \A lo, hi \in Int : lo <= hi => Run(lo, hi) \in Seq(Int) /\ Len(Run(lo, hi)) = hi - lo
  /\ \A lo, mid, hi \in Int : lo <= mid /\ mid <= hi => Run(lo, mid) \o Run(mid, hi) = Run(lo, hi)
  /\ \A s \in Int : Run(s * SduUnits, (s + 1) * SduUnits) = Sdu(s)
  /\ \A s \in Int : Sdu(s) \in Seq(Int) /\ Sdu(s)[1] = s * SduUnits
PROOF
<1>1. ASSUME NEW lo \in Int, NEW hi \in Int, lo <= hi
      PROVE  Run(lo, hi) \in Seq(Int) /\ Len(Run(lo, hi)) = hi - lo
  BY <1>1 DEF Run
<1>2. ASSUME NEW lo \in Int, NEW mid \in Int, NEW hi \in Int, lo <= mid, mid <= hi
      PROVE  Run(lo, mid) \o Run(mid, hi) = Run(lo, hi)
  <2>1. PICK a, b, c : a = Run(lo, mid) /\ b = Run(mid, hi) /\ c = Run(lo, hi)
    OBVIOUS
  <2>2. /\ a \in Seq(Int) /\ b \in Seq(Int) /\ c \in Seq(Int)
        /\ Len(a) = mid - lo /\ Len(b) = hi - mid /\ Len(c) = hi - lo
    <3>1. lo <= hi
      BY <1>2
    <3> QED BY <1>1, <1>2, <2>1, <3>1
  <2>3. /\ \A i \in 1..(mid - lo) : a[i] = lo + i - 1
        /\ \A i \in 1..(hi - mid) : b[i] = mid + i - 1
        /\ \A i \in 1..(hi - lo) : c[i] = lo + i - 1
    BY <2>1 DEF Run
  <2>4. a \o b \in Seq(Int) /\ Len(a \o b) = hi - lo
    <3>1. a \o b \in Seq(Int) /\ Len(a \o b) = Len(a) + Len(b)
      BY <2>2, ConcatProperties
    <3> QED BY <1>2, <2>2, <3>1
  <2>5. \A i \in 1..(hi - lo) : (a \o b)[i] = IF i <= Len(a) THEN a[i] ELSE b[i - Len(a)]
    <3>1. Len(a) + Len(b) = hi - lo
      BY <1>2, <2>2
    <3> QED BY <2>2, <3>1, ConcatProperties, ZenonT(30)
  <2>6. \A i \in 1..(hi - lo) : (a \o b)[i] = c[i]
    <3> TAKE i \in 1..(hi - lo)
    <3>1. CASE i <= mid - lo
      <4>1. i \in 1..(mid - lo)
        BY <1>2, <3>1
      <4> QED BY <2>2, <2>3, <2>5, <4>1
    <3>2. CASE ~(i <= mid - lo)
      <4>1. i - (mid - lo) \in 1..(hi - mid) /\ mid + (i - (mid - lo)) - 1 = lo + i - 1
        BY <1>2, <3>2
      <4> QED BY <2>2, <2>3, <2>5, <3>2, <4>1
    <3> QED BY <3>1, <3>2
  <2>7. a \o b = c
    BY <2>2, <2>4, <2>6, SeqEqual
  <2> QED BY <2>1, <2>7
<1>3. ASSUME NEW s \in Int PROVE Run(s * SduUnits, (s + 1) * SduUnits) = Sdu(s)
  <2>1. PICK m \in Int : m = s * SduUnits
    BY Multiples
  <2>2. PICK n \in Int : n = (s + 1) * SduUnits /\ n = m + SduUnits
    BY <2>1, Multiples
  <2>3. n - m = SduUnits
    BY <2>1, <2>2, RlcAssumption
  <2>4. Run(m, n) = [i \in 1..SduUnits |-> m + i - 1]
    BY <2>3 DEF Run
  <2>5. Sdu(s) = [i \in 1..SduUnits |-> m + i - 1]
    BY <2>1 DEF Sdu
  <2> QED BY <2>1, <2>2, <2>4, <2>5, Zenon
<1>4. ASSUME NEW s \in Int PROVE Sdu(s) \in Seq(Int) /\ Sdu(s)[1] = s * SduUnits
  <2>1. PICK m \in Int : m = s * SduUnits
    BY Multiples
  <2>2. Sdu(s) = [u \in 1..SduUnits |-> m + u - 1]
    BY <2>1 DEF Sdu
  <2>3. SduUnits \in Nat /\ 1 \in 1..SduUnits /\ m + 1 - 1 = m
    BY <2>1, RlcAssumption
  <2> QED BY <2>1, <2>2, <2>3
<1> QED BY <1>1, <1>2, <1>3, <1>4

\* The SDU of the last unit below t, and the one of t.
LEMMA LastUnit ==
  ASSUME NEW t \in Nat, t >= 1
  PROVE  /\ (t - 1) \div SduUnits \in Nat /\ t \div SduUnits \in Nat
         /\ t % SduUnits = 0 => /\ t = (t \div SduUnits) * SduUnits
                                /\ (t - 1) \div SduUnits + 1 = t \div SduUnits
         /\ t % SduUnits # 0 => /\ (t \div SduUnits) * SduUnits < t
                                /\ t < (t \div SduUnits) * SduUnits + SduUnits
                                /\ (t - 1) \div SduUnits = t \div SduUnits
PROOF
<1>1. PICK d \in Nat, m \in 0..(SduUnits - 1) :
        d = t \div SduUnits /\ m = t % SduUnits /\ t = d * SduUnits + m
  BY Division
<1>2. PICK c \in Nat : c = d * SduUnits
  BY Multiples
<1>3. t - 1 \in Nat /\ SduUnits \in Nat /\ SduUnits >= 1
  BY RlcAssumption
<1>4. (t - 1) \div SduUnits \in Nat
  BY <1>3, Division
<1>5. CASE m = 0
  <2>1. t = c /\ d > 0
    BY <1>1, <1>2, <1>3, <1>5
  <2>2. PICK k \in Nat : k = d - 1
    BY <2>1
  <2>3. d * SduUnits = k * SduUnits + SduUnits /\ k * SduUnits \in Int
    <3>1. d = k + 1
      BY <2>2
    <3> QED BY <3>1, Multiples
  <2>4. k * SduUnits <= t - 1 /\ t - 1 < k * SduUnits + SduUnits
    BY <1>2, <1>3, <2>1, <2>3
  <2>5. (t - 1) \div SduUnits = k
    BY <1>3, <2>4, Division
  <2>6. (t - 1) \div SduUnits + 1 = t \div SduUnits
    <3>1. k + 1 = d
      BY <2>2
    <3> QED BY <1>1, <2>5, <3>1
  <2>7. t = (t \div SduUnits) * SduUnits
    BY <1>1, <1>2, <2>1
  <2> QED BY <1>1, <1>4, <1>5, <2>6, <2>7
<1>6. CASE m # 0
  <2>1. c <= t - 1 /\ t - 1 < c + SduUnits /\ c < t /\ t < c + SduUnits
    BY <1>1, <1>2, <1>3, <1>6
  <2>2. (t - 1) \div SduUnits = d
    BY <1>2, <1>3, <2>1, Division
  <2> QED BY <1>1, <1>2, <1>4, <1>6, <2>1, <2>2
<1> QED BY <1>5, <1>6

\* The first n of the pieces w are SDUs, from b on and below d.
Whole(w, b, n, d) == \A i \in 1..n : w[i] = Sdu(b + i - 1) /\ b + i <= d

\* The units below t of the SDU that t is in.
Begun(t) == Run((t \div SduUnits) * SduUnits, t)

\* All blocks are whole SDUs, but for a last one that ends within its SDU.
LEMMA BlocksAre ==
  ASSUME NEW b \in Nat, NEW t \in Nat, t >= 1,
         NEW w, w = Blocks(b, t), NEW d, d = t \div SduUnits
  PROVE  /\ w \in Seq(Seq(Int)) /\ d \in Nat
         /\ t % SduUnits = 0 => Whole(w, b, Len(w), d)
         /\ t % SduUnits # 0 /\ w # <<>> =>
              /\ Len(w) > 0 /\ w[Len(w)] = Begun(t)
              /\ Whole(w, b, Len(w) - 1, d)
PROOF
<1>1. PICK e \in Nat : e = (t - 1) \div SduUnits
  BY LastUnit
<1>2. PICK n : n = IF e - b + 1 >= 0 THEN e - b + 1 ELSE 0
  OBVIOUS
<1>3. n \in Nat /\ 1..(e - b + 1) = 1..n /\ \A i \in 1..n : i <= e - b + 1
  BY <1>1, <1>2
<1> DEFINE End(i) == IF t < (b + i) * SduUnits THEN t ELSE (b + i) * SduUnits
<1>4. w = [i \in 1..n |-> Run((b + i - 1) * SduUnits, End(i))]
  BY <1>1, <1>3 DEF Blocks
<1>5. \A i \in 1..n : w[i] = Run((b + i - 1) * SduUnits, End(i))
  BY <1>4
<1>6. d \in Nat
  BY LastUnit
<1>7. e * SduUnits <= t - 1 /\ e * SduUnits \in Int
  <2>1. PICK m \in 0..(SduUnits - 1) : t - 1 = e * SduUnits + m
    <3>1. t - 1 \in Nat
      OBVIOUS
    <3> QED BY <1>1, <3>1, Division
  <2> QED BY <2>1, Multiples
<1>8. \A i \in 1..n : /\ (b + i - 1) * SduUnits \in Int /\ (b + i) * SduUnits \in Int
                      /\ (b + i) * SduUnits = (b + i - 1) * SduUnits + SduUnits
                      /\ (b + i - 1) * SduUnits <= t - 1
                      /\ b + i - 1 < e => (b + i) * SduUnits <= e * SduUnits
  <2> TAKE i \in 1..n
  <2>1. PICK k \in Int : k = b + i - 1
    BY <1>3
  <2>2. k + 1 = b + i /\ k <= e
    BY <1>1, <1>3, <2>1
  <2>3. k * SduUnits \in Int /\ (k + 1) * SduUnits = k * SduUnits + SduUnits
    BY Multiples
  <2>4. k < e => k * SduUnits + SduUnits <= e * SduUnits
    BY <1>1, Multiples
  <2>5. k * SduUnits <= e * SduUnits
    BY <1>1, <1>7, <2>2, <2>3, <2>4, RlcAssumption
  <2>6. SduUnits \in Int
    BY RlcAssumption
  <2> QED BY <1>7, <2>1, <2>2, <2>3, <2>4, <2>5, <2>6
<1>9. w \in Seq(Seq(Int)) /\ Len(w) = n
  <2>1. \A i \in 1..n : Run((b + i - 1) * SduUnits, End(i)) \in Seq(Int)
    <3> TAKE i \in 1..n
    <3>1. PICK lo \in Int, hi \in Int : lo = (b + i - 1) * SduUnits /\ hi = End(i)
      BY <1>8
    <3>2. lo <= hi
      BY <1>8, <3>1, RlcAssumption
    <3> QED BY <3>1, <3>2, Runs
  <2> HIDE DEF End
  <2>2. w \in [1..n -> Seq(Int)]
    BY <1>4, <2>1
  <2> QED BY <1>3, <2>2
<1>10. ASSUME NEW i \in 1..n, (b + i) * SduUnits <= t
       PROVE  w[i] = Sdu(b + i - 1)
  <2>1. End(i) = (b + i) * SduUnits
    BY <1>8, <1>10
  <2>2. PICK k \in Int : k = b + i - 1
    BY <1>3
  <2>3. k + 1 = b + i
    BY <1>3, <2>2
  <2>4. Run(k * SduUnits, (k + 1) * SduUnits) = Sdu(k)
    BY Runs
  <2> HIDE DEF End
  <2>5. w[i] = Run(k * SduUnits, (k + 1) * SduUnits)
    BY <1>5, <2>1, <2>2, <2>3, Zenon
  <2> QED BY <2>2, <2>4, <2>5
<1>11. t % SduUnits = 0 => \A i \in 1..Len(w) : w[i] = Sdu(b + i - 1) /\ b + i <= d
  <2> SUFFICES ASSUME t % SduUnits = 0, NEW i \in 1..n
               PROVE  w[i] = Sdu(b + i - 1) /\ b + i <= d
    BY <1>9
  <2>1. t = d * SduUnits /\ e + 1 = d
    BY <1>1, LastUnit
  <2>2. b + i <= d
    BY <1>1, <1>3, <1>6, <2>1
  <2>3. (b + i) * SduUnits <= t
    <3>1. PICK k \in Int : k = b + i
      BY <1>3
    <3>2. k < d => k * SduUnits + SduUnits <= d * SduUnits
      BY <1>6, Multiples
    <3>3. k * SduUnits \in Int /\ d * SduUnits \in Int
      BY <1>6, Multiples
    <3> QED BY <1>6, <2>1, <2>2, <3>1, <3>2, <3>3, RlcAssumption
  <2> QED BY <1>10, <2>2, <2>3
<1>12. t % SduUnits # 0 /\ w # <<>> =>
         /\ Len(w) > 0 /\ w[Len(w)] = Run(d * SduUnits, t)
         /\ \A i \in 1..(Len(w) - 1) : w[i] = Sdu(b + i - 1) /\ b + i <= d
  <2> SUFFICES ASSUME t % SduUnits # 0, w # <<>>
               PROVE  /\ n > 0 /\ w[n] = Run(d * SduUnits, t)
                      /\ \A i \in 1..(n - 1) : w[i] = Sdu(b + i - 1) /\ b + i <= d
    BY <1>9
  <2>1. e = d /\ d * SduUnits < t /\ t < d * SduUnits + SduUnits
    BY <1>1, LastUnit
  <2>2. n > 0
    BY <1>3, <1>9
  <2>3. b + n - 1 = d /\ b + n = d + 1 /\ n \in 1..n
    BY <1>1, <1>2, <1>3, <2>1, <2>2
  <2>4. w[n] = Run(d * SduUnits, t)
    <3>1. (b + n) * SduUnits = d * SduUnits + SduUnits
      BY <1>6, <2>3, Multiples
    <3>2. End(n) = t
      BY <2>1, <3>1
    <3> HIDE DEF End
    <3> QED BY <1>5, <2>3, <3>2
  <2>5. ASSUME NEW i \in 1..(n - 1) PROVE w[i] = Sdu(b + i - 1) /\ b + i <= d
    <3>1. i \in 1..n /\ b + i - 1 < e /\ b + i <= d
      BY <1>1, <1>3, <2>1, <2>3, SMTT(20)
    <3>2. (b + i) * SduUnits <= t
      <4>1. PICK z \in Int : z = (b + i) * SduUnits
        BY <1>8, <3>1
      <4>2. z <= e * SduUnits
        BY <1>8, <3>1, <4>1
      <4> QED BY <1>7, <4>1, <4>2
    <3> QED BY <1>10, <3>1, <3>2
  <2> QED BY <2>2, <2>4, <2>5
<1> QED BY <1>6, <1>9, <1>11, <1>12 DEF Whole, Begun

\* The pieces of the units from f up to t are the blocks from the start of SDU b, but
\* for what the first one lacks.
PiecesOf(q, f, t, b) ==
  /\ Tail(q) = Blocks(b + 1, t)
  /\ f % SduUnits = 0 => q = Blocks(b, t)
  /\ <<Begun(f) \o Head(q)>> \o Tail(q) = Blocks(b, t)

\* This is so for the pieces of a PDU.
LEMMA PiecesAre ==
  ASSUME NEW x, NEW f \in Nat, NEW z \in Nat, z >= 1, f = x.from, z = x.size,
         NEW t, t = f + z, NEW b, b = f \div SduUnits, NEW q, q = Pieces(x)
  PROVE  /\ b \in Nat /\ b * SduUnits <= f /\ t \in Nat /\ t >= 1
         /\ q \in Seq(Seq(Int)) /\ q # <<>> /\ PiecesOf(q, f, t, b)
PROOF
<1>1. b \in Nat /\ t \in Nat /\ t >= 1 /\ t - 1 \in Nat /\ f <= t - 1
  <2>1. b \in Nat
    BY Division
  <2>2. t \in Nat /\ t >= 1 /\ t - 1 \in Nat /\ f <= t - 1
    OBVIOUS
  <2> QED BY <2>1, <2>2
<1>2. PICK m \in 0..(SduUnits - 1) : m = f % SduUnits /\ f = b * SduUnits + m
  BY Division
<1>3. PICK c \in Int : c = b * SduUnits
  BY <1>1, Multiples
<1>4. SduUnits \in Nat /\ SduUnits >= 1 /\ c <= f /\ f < c + SduUnits
  <2>1. SduUnits \in Nat /\ SduUnits >= 1
    BY RlcAssumption
  <2>2. f = c + m
    BY <1>2, <1>3, Zenon
  <2>3. \A i, j, k \in Int : i = j + k /\ 0 <= k /\ k <= SduUnits - 1 => j <= i /\ i < j + SduUnits
    BY <2>1
  <2>4. f \in Int /\ m \in Int /\ 0 <= m /\ m <= SduUnits - 1
    BY <1>2, <2>1
  <2> QED BY <1>3, <2>1, <2>2, <2>3, <2>4, Zenon
<1>5. PICK e \in Nat : e = (t - 1) \div SduUnits /\ b <= e
  BY <1>1, Division
<1>6. PICK n : n = e - b + 1
  OBVIOUS
<1>7. n \in Nat /\ n >= 1
  BY <1>1, <1>5, <1>6
<1> DEFINE At(i) == (b + i - 1) * SduUnits
           End(i) == IF t < (b + i) * SduUnits THEN t ELSE (b + i) * SduUnits
<1>8. ASSUME NEW i \in Nat, i >= 1
      PROVE  /\ At(i) \in Int /\ (b + i) * SduUnits \in Int
             /\ (b + i) * SduUnits = At(i) + SduUnits
             /\ i = 1 => At(i) = c
             /\ i > 1 => c + SduUnits <= At(i)
  <2>1. PICK k \in Int : k = b + i - 1
    BY <1>1, <1>8
  <2>2. k + 1 = b + i /\ (i = 1 => k = b) /\ (i > 1 => b < k)
    BY <1>1, <1>8, <2>1
  <2>3. k * SduUnits \in Int /\ (k + 1) * SduUnits = k * SduUnits + SduUnits
    BY Multiples
  <2>4. b < k => b * SduUnits + SduUnits <= k * SduUnits
    BY <1>1, Multiples
  <2>5. At(i) = k * SduUnits /\ (b + i) * SduUnits = (k + 1) * SduUnits
    BY <2>1, <2>2
  <2>6. (k + 1) * SduUnits \in Int
    BY <1>4, <2>3
  <2> HIDE DEF At
  <2>7. i = 1 => At(i) = c
    BY <1>3, <2>2, <2>5
  <2>8. i > 1 => c + SduUnits <= At(i)
    BY <1>3, <2>2, <2>4, <2>5
  <2> QED BY <2>3, <2>5, <2>6, <2>7, <2>8
<1>9. At(1) = c /\ (b + 1) * SduUnits = c + SduUnits
  BY <1>8
<1> DEFINE P(i) == Run(IF f > At(i) THEN f ELSE At(i), End(i))
<1>10. q = [i \in 1..n |-> P(i)]
  <2>1. \A i \in 1..n : Piece(x, b + i - 1) = P(i)
    <3> TAKE i \in 1..n
    <3>1. b + i - 1 + 1 = b + i
      BY <1>1, <1>7
    <3>2. PICK k, g : k = b + i - 1 /\ g = b + i
      OBVIOUS
    <3>3. Piece(x, k) = Run(IF f > k * SduUnits THEN f ELSE k * SduUnits,
                            IF t < g * SduUnits THEN t ELSE g * SduUnits)
      BY <3>1, <3>2 DEF Piece, Run
    <3> QED BY <3>2, <3>3
  <2>2. q = [i \in 1..n |-> Piece(x, b + i - 1)]
    <3>1. q = [i \in 1..((f + z - 1) \div SduUnits - b + 1) |-> Piece(x, b + i - 1)]
      BY DEF Pieces
    <3>2. f + z - 1 = t - 1
      OBVIOUS
    <3> QED BY <1>5, <1>6, <3>1, <3>2
  <2> HIDE DEF P
  <2> QED BY <2>1, <2>2
<1>11. Blocks(b, t) = [i \in 1..n |-> Run(At(i), End(i))]
  BY <1>5, <1>6 DEF Blocks
<1>12. P(1) = Run(f, End(1))
  BY <1>3, <1>4, <1>9
<1>13. \A i \in 1..n : i > 1 => P(i) = Run(At(i), End(i))
  <2> TAKE i \in 1..n
  <2> HAVE i > 1
  <2>1. At(i) \in Int /\ c + SduUnits <= At(i)
    <3>1. i \in Nat /\ i >= 1
      BY <1>7
    <3> QED BY <1>8, <3>1
  <2> HIDE DEF At
  <2>2. ~(f > At(i))
    BY <1>3, <1>4, <2>1
  <2> QED BY <2>2
<1>14. End(1) \in Int /\ f <= End(1)
  BY <1>1, <1>3, <1>4, <1>9
<1>15. PICK w : w = Blocks(b, t)
  OBVIOUS
<1>16. w \in Seq(Seq(Int)) /\ Len(w) = n /\ \A i \in 1..n : w[i] = Run(At(i), End(i))
  <2>1. w \in Seq(Seq(Int))
    BY <1>1, <1>15, BlocksAre
  <2> HIDE DEF At, End
  <2>2. DOMAIN w = 1..n /\ \A i \in 1..n : w[i] = Run(At(i), End(i))
    BY <1>11, <1>15
  <2>3. Len(w) = n
    BY <1>7, <2>1, <2>2
  <2> QED BY <2>1, <2>2, <2>3
<1> HIDE DEF At, End, P
<1>17. \A i \in 1..n : q[i] = IF i = 1 THEN Run(f, End(1)) ELSE w[i]
  BY <1>7, <1>10, <1>12, <1>13, <1>16
<1>18. Run(f, End(1)) \in Seq(Int)
  <2>1. PICK g \in Int : g = End(1) /\ f <= g
    BY <1>14
  <2>2. f \in Int
    OBVIOUS
  <2>3. Run(f, g) \in Seq(Int)
    BY <2>1, <2>2, Runs
  <2> QED BY <2>1, <2>3
<1>19. q \in Seq(Seq(Int)) /\ Len(q) = n
  <2>1. \A i \in 1..n : w[i] \in Seq(Int)
    BY <1>16, ElementOfSeq
  <2>2. q \in [1..n -> Seq(Int)]
    BY <1>10, <1>17, <1>18, <2>1
  <2> QED BY <1>7, <2>2
<1>20. q # <<>> /\ Head(q) = Run(f, End(1))
  BY <1>7, <1>17, <1>19
<1>21. /\ Tail(q) \in Seq(Seq(Int)) /\ Len(Tail(q)) = n - 1
       /\ \A i \in 1..(n - 1) : Tail(q)[i] = w[i + 1]
  <2>1. /\ Tail(q) \in Seq(Seq(Int)) /\ Len(Tail(q)) = Len(q) - 1
        /\ \A i \in 1..Len(Tail(q)) : Tail(q)[i] = q[i + 1]
    BY <1>19, <1>20, HeadTailProperties
  <2>2. \A i \in 1..(n - 1) : i + 1 \in 1..n /\ i + 1 # 1
    BY <1>7
  <2> QED BY <1>17, <1>19, <2>1, <2>2
<1>22. Tail(q) = Blocks(b + 1, t)
  <2>1. PICK v : v = Blocks(b + 1, t)
    OBVIOUS
  <2>2. b + 1 \in Nat /\ e - (b + 1) + 1 = n - 1
    BY <1>1, <1>5, <1>6
  <2>3. v \in Seq(Seq(Int))
    BY <1>1, <2>1, <2>2, BlocksAre
  <2>4. v = [i \in 1..(n - 1) |-> Run((b + 1 + i - 1) * SduUnits,
               IF t < (b + 1 + i) * SduUnits THEN t ELSE (b + 1 + i) * SduUnits)]
    BY <1>5, <2>1, <2>2 DEF Blocks
  <2>5. \A i \in 1..(n - 1) : b + 1 + i - 1 = b + (i + 1) - 1 /\ b + 1 + i = b + (i + 1)
    BY <1>1, <1>7
  <2>6. \A i \in 1..(n - 1) : v[i] = Run(At(i + 1), End(i + 1))
    BY <2>4, <2>5 DEF At, End
  <2>7. Len(v) = n - 1
    <3>1. DOMAIN v = 1..(n - 1) /\ n - 1 \in Nat
      BY <1>7, <2>4
    <3> QED BY <2>3, <3>1
  <2>8. \A i \in 1..(n - 1) : v[i] = w[i + 1]
    <3>1. \A i \in 1..(n - 1) : i + 1 \in 1..n
      BY <1>7
    <3> QED BY <1>16, <2>6, <3>1
  <2>9. PICK r : r = Tail(q)
    OBVIOUS
  <2>10. /\ r \in Seq(Seq(Int)) /\ Len(r) = Len(v)
         /\ \A i \in 1..Len(r) : r[i] = v[i]
    BY <1>21, <2>7, <2>8, <2>9
  <2>11. r = v
    BY <2>3, <2>10, SeqEqual
  <2> QED BY <2>1, <2>9, <2>11
<1>23. f % SduUnits = 0 => q = Blocks(b, t)
  <2> HAVE f % SduUnits = 0
  <2>1. f = c
    <3>1. m = 0 /\ f = c + m
      BY <1>2, <1>3, Zenon
    <3> QED BY <1>3, <3>1
  <2>2. q[1] = w[1]
    BY <1>7, <1>9, <1>16, <1>17, <2>1
  <2>3. \A i \in 1..n : q[i] = w[i]
    BY <1>17, <2>2
  <2> QED BY <1>15, <1>16, <1>19, <2>3, SeqEqual
<1>24. <<Begun(f) \o Head(q)>> \o Tail(q) = Blocks(b, t)
  <2>1. Run(c, f) \o Run(f, End(1)) = Run(c, End(1))
    <3>1. PICK g \in Int : g = End(1) /\ f <= g
      BY <1>14
    <3>2. f \in Int /\ c <= f
      BY <1>4
    <3>3. Run(c, f) \o Run(f, g) = Run(c, g)
      BY <3>1, <3>2, Runs, Zenon
    <3> QED BY <3>1, <3>3
  <2>2. Run(c, End(1)) = w[1]
    BY <1>7, <1>9, <1>16
  <2>3. Begun(f) \o Head(q) = w[1]
    BY <1>3, <1>20, <2>1, <2>2 DEF Begun
  <2>4. PICK h, r : h = <<w[1]>> /\ r = Tail(q)
    OBVIOUS
  <2>5. h \in Seq(Seq(Int)) /\ Len(h) = 1 /\ h[1] = w[1] /\ r \in Seq(Seq(Int)) /\ Len(r) = n - 1
    BY <1>7, <1>16, <1>21, <2>4
  <2>6. /\ h \o r \in Seq(Seq(Int)) /\ Len(h \o r) = n
        /\ \A i \in 1..n : (h \o r)[i] = IF i <= 1 THEN h[i] ELSE r[i - 1]
    <3>1. Len(h) + Len(r) = n
      BY <1>7, <2>5
    <3>2. /\ h \o r \in Seq(Seq(Int)) /\ Len(h \o r) = Len(h) + Len(r)
          /\ \A i \in 1..(Len(h) + Len(r)) : (h \o r)[i] =
               IF i <= Len(h) THEN h[i] ELSE r[i - Len(h)]
      BY <2>5, ConcatProperties
    <3> QED BY <2>5, <3>1, <3>2
  <2>7. \A i \in 1..n : (h \o r)[i] = w[i]
    <3> TAKE i \in 1..n
    <3>1. i = 1 \/ (i > 1 /\ i - 1 \in 1..(n - 1) /\ i - 1 + 1 = i)
      BY <1>7
    <3> QED BY <1>21, <2>4, <2>5, <2>6, <3>1
  <2>8. h \o r = w
    BY <1>16, <2>6, <2>7, SeqEqual
  <2> QED BY <1>15, <2>3, <2>4, <2>8
<1>25. PiecesOf(q, f, t, b)
  BY <1>22, <1>23, <1>24 DEF PiecesOf
<1> QED BY <1>1, <1>3, <1>4, <1>19, <1>20, <1>25

\* What went up so far: whole SDUs below k, in the order they were sent in.
Up(up, k) ==
  /\ up \in Seq(Seq(Int))
  /\ \A i \in 1..Len(up) : \E s \in Nat : s < k /\ up[i] = Sdu(s)
  /\ \A i \in 1..(Len(up) - 1) : up[i][1] < up[i + 1][1]

\* Newer SDUs may follow.
LEMMA UpAppend ==
  ASSUME NEW k \in Nat, NEW up, Up(up, k), NEW b \in Nat, k <= b, NEW e \in Nat, k <= e,
         NEW w \in Seq(Seq(Int)), Whole(w, b, Len(w), e)
  PROVE  Up(up \o w, e)
PROOF
<1>1. up \in Seq(Seq(Int))
  BY DEF Up
<1>2. PICK m \in Nat, n \in Nat : m = Len(up) /\ n = Len(w)
  BY <1>1
<1>3. PICK v : v = up \o w
  OBVIOUS
<1>4. /\ v \in Seq(Seq(Int)) /\ Len(v) = m + n
      /\ \A i \in 1..(m + n) : v[i] = IF i <= m THEN up[i] ELSE w[i - m]
  BY <1>1, <1>2, <1>3, ConcatProperties
<1>5. ASSUME NEW i \in 1..(m + n), i > m
      PROVE  /\ b + (i - m) - 1 \in Nat /\ b + (i - m) - 1 < e /\ v[i] = Sdu(b + (i - m) - 1)
             /\ b <= b + (i - m) - 1
  <2>1. i - m \in 1..n /\ ~(i <= m)
    BY <1>2, <1>5
  <2>2. v[i] = w[i - m]
    BY <1>4, <2>1
  <2>3. w[i - m] = Sdu(b + (i - m) - 1) /\ b + (i - m) <= e
    BY <1>2, <2>1 DEF Whole
  <2>4. \A j \in 1..n : b + j - 1 \in Nat /\ (b + j <= e => b + j - 1 < e) /\ b <= b + j - 1
    BY <1>2
  <2> QED BY <2>1, <2>2, <2>3, <2>4
<1>6. ASSUME NEW i \in 1..(m + n) PROVE \E s \in Nat : s < e /\ v[i] = Sdu(s)
  <2>1. CASE i <= m
    <3>1. i \in 1..m /\ v[i] = up[i]
      BY <1>2, <1>4, <2>1
    <3>2. PICK s \in Nat : s < k /\ up[i] = Sdu(s)
      BY <1>2, <3>1 DEF Up
    <3>3. s < e
      BY <3>2
    <3> QED BY <3>1, <3>2, <3>3
  <2>2. CASE i > m
    <3>1. PICK s : s = b + (i - m) - 1
      OBVIOUS
    <3> QED BY <1>5, <2>2, <3>1
  <2> QED BY <1>2, <2>1, <2>2
<1>7. \A s \in Int : Sdu(s)[1] = s * SduUnits /\ s * SduUnits \in Int
  BY Runs, Multiples
<1>8. ASSUME NEW r \in Nat, NEW s \in Nat, r < s PROVE Sdu(r)[1] < Sdu(s)[1]
  <2>1. r * SduUnits + SduUnits <= s * SduUnits
    BY <1>8, Multiples
  <2>2. PICK i \in Int, j \in Int : i = r * SduUnits /\ j = s * SduUnits
    <3>1. r \in Int /\ s \in Int
      OBVIOUS
    <3>2. r * SduUnits \in Int /\ s * SduUnits \in Int
      BY <3>1, Multiples, Zenon
    <3> QED BY <3>2, Zenon
  <2>3. Sdu(r)[1] = i /\ Sdu(s)[1] = j
    BY <1>7, <2>2
  <2>4. SduUnits \in Nat /\ SduUnits >= 1
    BY RlcAssumption
  <2>5. i + SduUnits <= j
    BY <2>1, <2>2
  <2> QED BY <2>3, <2>4, <2>5
<1>9. ASSUME NEW i \in 1..(m + n - 1) PROVE v[i][1] < v[i + 1][1]
  <2>1. i \in 1..(m + n) /\ i + 1 \in 1..(m + n)
    BY <1>2
  <2>2. CASE i < m
    <3>1. i \in 1..(m - 1) /\ v[i] = up[i] /\ v[i + 1] = up[i + 1]
      BY <1>2, <1>4, <2>1, <2>2
    <3>2. up[i][1] < up[i + 1][1]
      BY <1>2, <3>1 DEF Up
    <3> QED BY <3>1, <3>2
  <2>3. CASE i = m
    <3>1. i \in 1..m /\ v[i] = up[i]
      BY <1>2, <1>4, <2>1, <2>3
    <3>2. PICK r \in Nat : r < k /\ up[i] = Sdu(r)
      BY <1>2, <3>1 DEF Up
    <3>3. i + 1 > m
      BY <1>2, <2>3
    <3>4. PICK s \in Nat : s = b + ((i + 1) - m) - 1 /\ v[i + 1] = Sdu(s) /\ b <= s
      BY <1>5, <2>1, <3>3
    <3>5. r < s
      BY <3>2, <3>4
    <3> QED BY <1>8, <3>1, <3>2, <3>4, <3>5
  <2>4. CASE i > m
    <3>1. i + 1 > m
      BY <1>2, <2>4
    <3>2. PICK r \in Nat : r = b + (i - m) - 1 /\ v[i] = Sdu(r)
      BY <1>5, <2>1, <2>4
    <3>3. PICK s \in Nat : s = b + ((i + 1) - m) - 1 /\ v[i + 1] = Sdu(s)
      BY <1>5, <2>1, <3>1
    <3>4. r < s
      BY <1>2, <3>2, <3>3
    <3> QED BY <1>8, <3>2, <3>3, <3>4
  <2> QED BY <1>2, <2>2, <2>3, <2>4
<1>10. Up(v, e)
  BY <1>4, <1>6, <1>9 DEF Up
<1> QED BY <1>3, <1>10

\* The reassembly state, and the one of a receiver whose last PDU ended at unit p.
Asm == [state : {"WAITING_S0_FULL", "WAITING_SI_SF"}, keepS0 : Seq(Int),
        expected : Nat, sdusBuffer : {<<>>}, up : Seq(Seq(Int))]

AsmAt(a, p) ==
  /\ a \in Asm
  /\ Up(a.up, p \div SduUnits)
  /\ a.state = "WAITING_SI_SF" => /\ p % SduUnits # 0
                                  /\ a.keepS0 = Begun(p)

\* What ReassembleAndDeliver makes of the pieces, from the first SDU that is
\* complete so far.
Assembled(a, w, n, ends) ==
  LET keeps == ~ends /\ w # <<>>
  IN [state |-> IF keeps THEN "WAITING_SI_SF" ELSE "WAITING_S0_FULL",
      keepS0 |-> IF keeps THEN Last(w) ELSE <<>>,
      expected |-> n, sdusBuffer |-> <<>>,
      up |-> a.up \o IF keeps THEN Front(w) ELSE w]

\* Complete SDUs go up and a last piece is kept.
LEMMA AssembledAt ==
  ASSUME NEW a, NEW p \in Nat, AsmAt(a, p), NEW t \in Nat, t >= 1, p <= t,
         NEW b \in Nat, p \div SduUnits <= b, NEW n \in Nat, NEW ends, ends <=> t % SduUnits = 0
  PROVE  AsmAt(Assembled(a, Blocks(b, t), n, ends), t)
PROOF
<1>1. PICK w, d, k : w = Blocks(b, t) /\ d = t \div SduUnits /\ k = p \div SduUnits
  OBVIOUS
<1>2. k \in Nat /\ d \in Nat /\ k <= d /\ k <= b
  BY <1>1, Division
<1>3. /\ w \in Seq(Seq(Int))
      /\ ends => Whole(w, b, Len(w), d)
      /\ ~ends /\ w # <<>> => /\ Len(w) > 0 /\ w[Len(w)] = Begun(t)
                               /\ Whole(w, b, Len(w) - 1, d)
  <2>1. w \in Seq(Seq(Int))
    BY <1>1, BlocksAre
  <2>2. t % SduUnits = 0 => Whole(w, b, Len(w), d)
    BY <1>1, BlocksAre
  <2>3. t % SduUnits # 0 /\ w # <<>> => Len(w) > 0 /\ w[Len(w)] = Begun(t)
    BY <1>1, BlocksAre
  <2>4. t % SduUnits # 0 /\ w # <<>> => Whole(w, b, Len(w) - 1, d)
    BY <1>1, BlocksAre
  <2> QED BY <2>1, <2>2, <2>3, <2>4, Zenon
<1>4. PICK v : v = IF ~ends /\ w # <<>> THEN Front(w) ELSE w
  OBVIOUS
<1>5. v \in Seq(Seq(Int)) /\ Whole(v, b, Len(v), d)
  <2>1. CASE ~ends /\ w # <<>>
    <3>1. PICK m \in Nat : m = Len(w) - 1 /\ m + 1 = Len(w)
      <4>1. Len(w) \in Nat /\ Len(w) > 0
        BY <1>3, <2>1
      <4> QED BY <4>1
    <3>2. v = SubSeq(w, 1, m)
      BY <1>4, <2>1, <3>1 DEF Front
    <3>3. \A i \in 1..m : w[i] \in Seq(Int)
      <4>1. \A i \in 1..m : i \in 1..Len(w)
        BY <1>3, <3>1
      <4> QED BY <1>3, <4>1, ElementOfSeq
    <3>4. /\ v \in Seq(Seq(Int)) /\ Len(v) = m
          /\ \A i \in 1..m : v[i] = w[i]
      <4>1. /\ v \in Seq(Seq(Int)) /\ Len(v) = IF 1 <= m THEN m - 1 + 1 ELSE 0
            /\ \A i \in 1..(m - 1 + 1) : v[i] = w[1 + i - 1]
        BY <3>2, <3>3, SubSeqProperties
      <4>2. m - 1 + 1 = m /\ \A i \in 1..m : 1 + i - 1 = i
        BY <3>1
      <4>3. Len(v) = m
        BY <3>1, <4>1
      <4> QED BY <4>1, <4>2, <4>3
    <3> QED BY <1>3, <2>1, <3>1, <3>4 DEF Whole
  <2>2. CASE ends
    BY <1>3, <1>4, <2>2
  <2>3. CASE w = <<>>
    <3>1. v = <<>>
      BY <1>4, <2>3
    <3> QED BY <3>1 DEF Whole
  <2> QED BY <2>1, <2>2, <2>3
<1>6. PICK g : g = Assembled(a, w, n, ends)
  OBVIOUS
<1>7. /\ g = [state |-> IF ~ends /\ w # <<>> THEN "WAITING_SI_SF" ELSE "WAITING_S0_FULL",
              keepS0 |-> IF ~ends /\ w # <<>> THEN Last(w) ELSE <<>>,
              expected |-> n, sdusBuffer |-> <<>>, up |-> a.up \o v]
  BY <1>4, <1>6 DEF Assembled
<1>8. Up(a.up \o v, d)
  <2>1. PICK u : u = a.up
    OBVIOUS
  <2>2. Up(u, k)
    BY <1>1, <2>1 DEF AsmAt
  <2>3. Up(u \o v, d)
    BY <1>2, <1>5, <2>2, UpAppend
  <2> QED BY <2>1, <2>3
<1>9. PICK u : u = a.up \o v
  OBVIOUS
<1>10. Up(u, d) /\ u \in Seq(Seq(Int))
  BY <1>8, <1>9 DEF Up
<1>11. ~ends /\ w # <<>> => Last(w) = Begun(t) /\ Last(w) \in Seq(Int)
  <2> HAVE ~ends /\ w # <<>>
  <2>1. Last(w) = w[Len(w)] /\ w[Len(w)] = Begun(t)
    BY <1>3 DEF Last
  <2>2. Len(w) \in 1..Len(w)
    BY <1>3
  <2>3. w[Len(w)] \in Seq(Int)
    BY <1>3, <2>2, ElementOfSeq
  <2> QED BY <2>1, <2>3
<1>12. g \in Asm
  <2>1. CASE ~ends /\ w # <<>>
    <3>1. PICK l \in Seq(Int) : l = Last(w)
      BY <1>11, <2>1
    <3>2. g = [state |-> "WAITING_SI_SF", keepS0 |-> l, expected |-> n,
               sdusBuffer |-> <<>>, up |-> u]
      BY <1>7, <1>9, <2>1, <3>1
    <3> QED BY <1>10, <3>1, <3>2 DEF Asm
  <2>2. CASE ~(~ends /\ w # <<>>)
    <3>1. g = [state |-> "WAITING_S0_FULL", keepS0 |-> <<>>, expected |-> n,
               sdusBuffer |-> <<>>, up |-> u]
      BY <1>7, <1>9, <2>2
    <3>2. <<>> \in Seq(Int)
      OBVIOUS
    <3> QED BY <1>10, <3>1, <3>2 DEF Asm
  <2> QED BY <2>1, <2>2
<1>13. /\ g.up = u
       /\ g.state = "WAITING_SI_SF" => ~ends /\ w # <<>>
       /\ ~ends /\ w # <<>> => g.keepS0 = Last(w)
  BY <1>7, <1>9
<1>14. AsmAt(g, t)
  BY <1>1, <1>10, <1>11, <1>12, <1>13 DEF AsmAt
<1> QED BY <1>1, <1>6, <1>14

\* The reassembly state, and its update field by field.
AsmOf(s, k, e, d, u) == [state |-> s, keepS0 |-> k, expected |-> e, sdusBuffer |-> d, up |-> u]
AsmWith(a, s, k, d, u) == [a EXCEPT !.state = s, !.keepS0 = k, !.sdusBuffer = d, !.up = u]

\* The other field stays as it is.
LEMMA Fields ==
  ASSUME NEW s0, NEW k0, NEW e0, NEW d0, NEW u0, NEW a, a = AsmOf(s0, k0, e0, d0, u0),
         NEW s, NEW k, NEW d, NEW u
  PROVE  AsmWith(a, s, k, d, u) = AsmOf(s, k, e0, d, u)
PROOF
<1>1. PICK a1 : a1 = [a EXCEPT !.state = s]
  OBVIOUS
<1>2. a1 = [state |-> s, keepS0 |-> k0, expected |-> e0, sdusBuffer |-> d0, up |-> u0]
  BY <1>1 DEF AsmOf
<1>3. PICK a2 : a2 = [a1 EXCEPT !.keepS0 = k]
  OBVIOUS
<1>4. a2 = [state |-> s, keepS0 |-> k, expected |-> e0, sdusBuffer |-> d0, up |-> u0]
  BY <1>2, <1>3
<1>5. PICK a3 : a3 = [a2 EXCEPT !.sdusBuffer = d]
  OBVIOUS
<1>6. a3 = [state |-> s, keepS0 |-> k, expected |-> e0, sdusBuffer |-> d, up |-> u0]
  BY <1>4, <1>5
<1>7. PICK a4 : a4 = [a3 EXCEPT !.up = u]
  OBVIOUS
<1>8. a4 = [state |-> s, keepS0 |-> k, expected |-> e0, sdusBuffer |-> d, up |-> u]
  BY <1>6, <1>7
<1>9. [a EXCEPT !.state = s, !.keepS0 = k, !.sdusBuffer = d, !.up = u] = a4
  BY <1>1, <1>3, <1>5, <1>7
<1> QED BY <1>8, <1>9 DEF AsmOf, AsmWith

\* ReassembleAndDeliver keeps this state with the first PDU of a run, and with one
\* that follows the last; "Transition not possible" is not reached.
LEMMA Reassembled ==
  ASSUME NEW a, NEW p \in Nat, AsmAt(a, p), NEW x,
         NEW f \in Nat, NEW z \in Nat, NEW n \in Nat, f = x.from, z = x.size, n = x.n,
         z >= 1, n + 1 \in SN, p <= f, n = a.expected => f = p,
         NEW g, g = ReassembleAndDeliver(a, x)
  PROVE  AsmAt(g, f + z) /\ g.expected = n + 1
PROOF
<1>1. PICK t, b, q : t = f + z /\ b = f \div SduUnits /\ q = Pieces(x)
  OBVIOUS
<1>2. /\ b \in Nat /\ t \in Nat /\ t >= 1 /\ q \in Seq(Seq(Int)) /\ q # <<>>
      /\ Tail(q) = Blocks(b + 1, t)
      /\ f % SduUnits = 0 => q = Blocks(b, t)
      /\ <<Begun(f) \o Head(q)>> \o Tail(q) = Blocks(b, t)
  <2>1. b \in Nat /\ t \in Nat /\ t >= 1 /\ q \in Seq(Seq(Int)) /\ q # <<>>
    BY <1>1, PiecesAre
  <2>2. PiecesOf(q, f, t, b)
    BY <1>1, PiecesAre
  <2> QED BY <2>1, <2>2 DEF PiecesOf
<1>3. p <= t /\ p \div SduUnits <= b /\ p \div SduUnits <= b + 1 /\ b + 1 \in Nat
  <2>1. p \div SduUnits \in Nat /\ p \div SduUnits <= b
    BY <1>1, Division
  <2>2. PICK k \in Nat : k = p \div SduUnits /\ k <= b
    BY <2>1
  <2>3. k <= b + 1 /\ b + 1 \in Nat /\ p <= t
    <3>1. \A i, j \in Nat : i <= j => i <= j + 1 /\ j + 1 \in Nat
      OBVIOUS
    <3>2. p <= t
      BY <1>1
    <3> QED BY <1>2, <2>2, <3>1, <3>2
  <2> QED BY <2>2, <2>3
<1>4. (n + 1) % Modulus = n + 1 /\ n % Modulus = n
  <2>1. n \in SN
    BY Bounds
  <2> QED BY <2>1, Remainder
<1>5. a \in Asm /\ a.sdusBuffer = <<>>
  BY DEF AsmAt, Asm
<1>6. a.sdusBuffer \o Pieces(x) = q
  BY <1>1, <1>2, <1>5, ConcatEmptySeq
<1>7. PICK ends \in BOOLEAN : ends <=> EndsSdu(x)
  BY DEF EndsSdu
<1>8. ends <=> t % SduUnits = 0
  BY <1>1, <1>7 DEF EndsSdu
<1>9. StartsSdu(x) <=> f % SduUnits = 0
  BY DEF StartsSdu
<1>10. ~StartsAfresh(a, x) => /\ ~StartsSdu(x) /\ a.keepS0 = Begun(f)
  <2> HAVE ~StartsAfresh(a, x)
  <2>1. a.state # "WAITING_S0_FULL" /\ n = a.expected
    BY <1>4 DEF StartsAfresh
  <2>2. a.state = "WAITING_SI_SF"
    BY <1>5, <2>1 DEF Asm
  <2>3. f = p /\ p % SduUnits # 0 /\ a.keepS0 = Begun(p)
    BY <2>1, <2>2 DEF AsmAt
  <2> QED BY <1>9, <2>3
<1> DEFINE whole == IF ~StartsAfresh(a, x) THEN <<a.keepS0 \o Head(q)>> \o Tail(q)
                    ELSE IF StartsSdu(x) THEN q ELSE Tail(q)
           keeps == ~ends /\ whole # <<>>
           next == [a EXCEPT !.expected = n + 1]
<1>11. g = [next EXCEPT
             !.state = IF keeps THEN "WAITING_SI_SF" ELSE "WAITING_S0_FULL",
             !.keepS0 = IF keeps THEN Last(whole) ELSE <<>>,
             !.sdusBuffer = <<>>,
             !.up = @ \o IF keeps THEN Front(whole) ELSE whole]
  <2>1. ~(~StartsAfresh(a, x) /\ StartsSdu(x))
    BY <1>10
  <2> QED BY <1>4, <1>6, <1>7, <2>1 DEF ReassembleAndDeliver
<1>12. a = AsmOf(a.state, a.keepS0, a.expected, a.sdusBuffer, a.up)
  BY <1>5 DEF Asm, AsmOf
<1>13. g = Assembled(a, whole, n + 1, ends)
  <2> HIDE DEF whole
  <2>1. PICK s0, k0, e0, d0, u0 : a = AsmOf(s0, k0, e0, d0, u0)
    BY <1>12
  <2>2. next = AsmOf(s0, k0, n + 1, d0, u0) /\ a.up = u0
    BY <2>1 DEF AsmOf
  <2>3. PICK st, ks, v : /\ st = IF keeps THEN "WAITING_SI_SF" ELSE "WAITING_S0_FULL"
                         /\ ks = IF keeps THEN Last(whole) ELSE <<>>
                         /\ v = IF keeps THEN Front(whole) ELSE whole
    OBVIOUS
  <2>4. Assembled(a, whole, n + 1, ends) = AsmOf(st, ks, n + 1, <<>>, a.up \o v)
    BY <2>3 DEF Assembled, AsmOf
  <2> HIDE DEF next, keeps
  <2>5. g = [next EXCEPT !.state = st, !.keepS0 = ks, !.sdusBuffer = <<>>, !.up = @ \o v]
    BY <1>11, <2>3
  <2>6. next.up = u0
    BY <2>2 DEF AsmOf
  <2>7. g = AsmWith(next, st, ks, <<>>, u0 \o v)
    BY <2>5, <2>6 DEF AsmWith
  <2>8. AsmWith(next, st, ks, <<>>, u0 \o v) = AsmOf(st, ks, n + 1, <<>>, u0 \o v)
    BY <2>2, Fields
  <2> QED BY <2>2, <2>4, <2>7, <2>8
<1>14. \E c \in Nat : p \div SduUnits <= c /\ whole = Blocks(c, t)
  <2>1. CASE ~StartsAfresh(a, x) \/ StartsSdu(x)
    <3>1. whole = Blocks(b, t)
      BY <1>2, <1>9, <1>10, <2>1
    <3> QED BY <1>2, <1>3, <3>1
  <2>2. CASE ~(~StartsAfresh(a, x) \/ StartsSdu(x))
    <3>1. whole = Blocks(b + 1, t)
      BY <1>2, <2>2
    <3> QED BY <1>3, <3>1
  <2> QED BY <2>1, <2>2
<1> HIDE DEF whole, next
<1>15. PICK c \in Nat : p \div SduUnits <= c /\ whole = Blocks(c, t)
  BY <1>14
<1>16. n + 1 \in Nat
  OBVIOUS
<1>17. AsmAt(g, t)
  BY <1>2, <1>3, <1>8, <1>13, <1>15, <1>16, AssembledAt
<1>18. g.expected = n + 1
  BY <1>13 DEF Assembled
<1> QED BY <1>1, <1>17, <1>18

-----------------------------------------------------------------------------
(* Reassembly of the buffered PDUs. *)

\* Where the PDUs up to number m begin, and a PDU with number k of that stream.
Stream(F, m) == F \in [Nat -> Nat] /\ \A i, j \in 0..m : i <= j => F[i] <= F[j]
Fits(x, k, F) ==
  /\ x.n = k /\ x.from = F[k] /\ x.size \in Nat /\ x.size >= 1
  /\ F[k + 1] = F[k] + x.size

\* A reassembly state that waits for a number up to hi and stands where it begins.
Awaits(a, F, hi) == AsmAt(a, F[a.expected]) /\ a.expected <= hi

\* The states u of the reassembly after each member of s.
Folds(u, A, s, S, buf, n) ==
  /\ u[0] = A
  /\ \A i \in 1..n :
       u[i] = IF s[i] \in S THEN {ReassembleAndDeliver(a, buf[s[i]]) : a \in u[i - 1]}
              ELSE u[i - 1]

\* The recursion of Reassemble has a solution, which it therefore is.
LEMMA ReassembleIs ==
  ASSUME NEW A, NEW s, NEW S, NEW buf, NEW n \in Nat, n = Len(s)
  PROVE  \E u : Reassemble(A, s, S, buf) = u[n] /\ Folds(u, A, s, S, buf, n)
PROOF
<1> DEFINE Step(i, v) == IF s[i] \in S THEN {ReassembleAndDeliver(a, buf[s[i]]) : a \in v} ELSE v
           R(f, m) == f = [i \in 0..m |-> IF i = 0 THEN A ELSE Step(i, f[i - 1])]
           T == {m \in 0..n : ~ \E f : R(f, m)}
<1>0. T = {}
  <2> SUFFICES ASSUME T # {} PROVE FALSE
    OBVIOUS
  <2>1. PICK m \in T : \A y \in T : m <= y
    <3>1. T \subseteq Nat
      OBVIOUS
    <3> HIDE DEF T
    <3> QED BY <3>1, Least
  <2>2. m \in Nat /\ m <= n /\ ~ \E f : R(f, m)
    OBVIOUS
  <2> HIDE DEF Step
  <2>3. m # 0
    <3>1. PICK f : f = [i \in 0..0 |-> A]
      OBVIOUS
    <3>2. f = [i \in 0..0 |-> IF i = 0 THEN A ELSE Step(i, f[i - 1])]
      BY <3>1
    <3> QED BY <2>2, <3>2
  <2>4. m - 1 \in 0..n /\ ~(m <= m - 1)
    BY <2>2, <2>3
  <2>5. PICK f : R(f, m - 1)
    BY <2>1, <2>4
  <2>6. PICK g : g = [i \in 0..m |-> IF i < m THEN f[i] ELSE Step(m, f[m - 1])]
    OBVIOUS
  <2>7. \A i \in 0..m : g[i] = IF i = 0 THEN A ELSE Step(i, g[i - 1])
    <3> TAKE i \in 0..m
    <3>1. CASE i = 0
      <4>1. g[0] = f[0] /\ f[0] = A
        BY <2>2, <2>3, <2>4, <2>5, <2>6
      <4> QED BY <3>1, <4>1
    <3>2. CASE i # 0 /\ i < m
      <4>1. i \in 0..(m - 1) /\ i - 1 \in 0..m /\ i - 1 < m
        BY <2>2, <3>2
      <4>2. g[i] = f[i] /\ g[i - 1] = f[i - 1]
        BY <2>6, <3>2, <4>1
      <4>3. f[i] = Step(i, f[i - 1])
        BY <2>5, <3>2, <4>1
      <4> QED BY <3>2, <4>2, <4>3
    <3>3. CASE i = m
      <4>1. m - 1 \in 0..m /\ m - 1 < m /\ m \in 0..m /\ ~(m < m)
        BY <2>2, <2>3
      <4>2. g[m] = Step(m, f[m - 1]) /\ g[m - 1] = f[m - 1]
        BY <2>6, <4>1
      <4> QED BY <2>3, <3>3, <4>2
    <3> QED BY <2>2, <3>1, <3>2, <3>3
  <2>8. R(g, m)
    <3>1. g = [i \in 0..m |-> g[i]]
      BY <2>6
    <3> QED BY <2>7, <3>1
  <2> QED BY <2>2, <2>8
<1> DEFINE upTo[i \in 0..Len(s)] ==
             IF i = 0 THEN A
             ELSE IF s[i] \in S
                  THEN {ReassembleAndDeliver(a, buf[s[i]]) : a \in upTo[i - 1]}
                  ELSE upTo[i - 1]
<1>1. R(upTo, n)
  <2>1. n \in 0..n
    OBVIOUS
  <2>2. PICK f : R(f, n)
    <3> HIDE DEF R, upTo
    <3> QED BY <1>0, <2>1
  <2> QED BY <2>2
<1>2. Reassemble(A, s, S, buf) = upTo[n]
  BY DEF Reassemble
<1> HIDE DEF upTo
<1>3. PICK u : R(u, n) /\ Reassemble(A, s, S, buf) = u[n]
  <2> HIDE DEF R
  <2> QED BY <1>1, <1>2
<1>4. u[0] = A
  <2>1. 0 \in 0..Len(s)
    OBVIOUS
  <2> QED BY <1>3, <2>1
<1>5. ASSUME NEW i \in 1..n
      PROVE  u[i] = IF s[i] \in S
                    THEN {ReassembleAndDeliver(a, buf[s[i]]) : a \in u[i - 1]}
                    ELSE u[i - 1]
  <2>1. i \in 0..Len(s) /\ i # 0
    OBVIOUS
  <2> QED BY <1>3, <2>1
<1> HIDE DEF R
<1>6. Folds(u, A, s, S, buf, n)
  BY <1>4, <1>5 DEF Folds
<1> QED BY <1>3, <1>6

\* Reassembly of the PDUs with a number in S, from c on in ascending order, that the
\* state can still accept.
LEMMA ReassembleRun ==
  ASSUME NEW hi \in SN, NEW F, Stream(F, hi), NEW c \in Nat, NEW m \in Nat,
         NEW s, s = [i \in 1..m |-> c + i - 1], NEW S, NEW buf,
         \A k \in S : k \in Nat /\ c <= k /\ k < c + m => k < hi /\ Fits(buf[k], k, F),
         NEW A, \A a \in A : /\ Awaits(a, F, hi)
                             /\ \A k \in S : k \in Nat /\ c <= k /\ k < c + m => a.expected <= k
  PROVE  \A a \in Reassemble(A, s, S, buf) : Awaits(a, F, hi)
PROOF
<1>1. hi \in Nat /\ hi < Modulus /\ Modulus \in Nat
  BY Bounds
<1>2. m = Len(s) /\ \A i \in 1..m : s[i] = c + i - 1
  BY IsASeq
<1>3. PICK u : Reassemble(A, s, S, buf) = u[m] /\ Folds(u, A, s, S, buf, m)
  BY <1>2, ReassembleIs
<1> DEFINE Ok(i) == \A a \in u[i] :
                      /\ Awaits(a, F, hi)
                      /\ \A k \in S : k \in Nat /\ c + i <= k /\ k < c + m => a.expected <= k
           T == {i \in 0..m : ~Ok(i)}
<1>4. Ok(0)
  BY <1>3 DEF Folds
<1>5. ASSUME NEW i \in 1..m, Ok(i - 1) PROVE Ok(i)
  <2>1. PICK k \in Nat : k = c + i - 1
    <3>1. c + i - 1 \in Nat
      OBVIOUS
    <3> QED BY <3>1
  <2>2. k = c + (i - 1) /\ c <= k /\ k < c + m /\ k + 1 = c + i
    BY <2>1
  <2>3. s[i] = k
    BY <1>2, <2>1
  <2>4. u[i] = IF k \in S THEN {ReassembleAndDeliver(a, buf[k]) : a \in u[i - 1]} ELSE u[i - 1]
    BY <1>3, <2>3 DEF Folds
  <2>5. CASE k \notin S
    <3>1. u[i] = u[i - 1]
      BY <2>4, <2>5
    <3>2. \A j \in Nat : c + i <= j => c + (i - 1) <= j
      OBVIOUS
    <3> QED BY <1>5, <3>1, <3>2
  <2>6. CASE k \in S
    <3> SUFFICES ASSUME NEW g \in u[i]
                 PROVE  /\ Awaits(g, F, hi)
                        /\ \A j \in S : j \in Nat /\ c + i <= j /\ j < c + m => g.expected <= j
      OBVIOUS
    <3>1. PICK a \in u[i - 1] : g = ReassembleAndDeliver(a, buf[k])
      BY <2>4, <2>6
    <3>2. Awaits(a, F, hi) /\ a.expected <= k
      <4>1. c + (i - 1) <= k /\ k < c + m
        BY <2>2
      <4> QED BY <1>5, <2>6, <3>1, <4>1
    <3>3. k < hi /\ Fits(buf[k], k, F)
      BY <2>2, <2>6
    <3>4. PICK e \in Nat : e = a.expected
      BY <3>2 DEF Awaits, AsmAt, Asm
    <3>5. AsmAt(a, F[e]) /\ e <= k
      BY <3>2, <3>4 DEF Awaits
    <3>6. PICK x : x = buf[k]
      OBVIOUS
    <3>7. PICK p \in Nat, f \in Nat, z \in Nat :
            /\ p = F[e] /\ f = F[k] /\ z = x.size /\ f = x.from /\ k = x.n /\ z >= 1
            /\ F[k + 1] = f + z
      <4>1. F[e] \in Nat /\ F[k] \in Nat
        BY <3>4 DEF Stream
      <4>2. /\ x.size \in Nat /\ x.from = F[k] /\ x.n = k /\ x.size >= 1
            /\ F[k + 1] = F[k] + x.size
        BY <3>3, <3>6 DEF Fits
      <4> QED BY <4>1, <4>2, Zenon
    <3>8. p <= f
      <4>1. e \in 0..hi /\ k \in 0..hi
        BY <1>1, <3>3, <3>4, <3>5
      <4> QED BY <3>5, <3>7, <4>1 DEF Stream
    <3>9. k + 1 \in SN /\ k + 1 <= hi
      BY <1>1, <3>3, Bounds
    <3>10. k = a.expected => f = p
      BY <3>4, <3>7
    <3>11. AsmAt(g, f + z) /\ g.expected = k + 1
      <4>1. AsmAt(a, p) /\ g = ReassembleAndDeliver(a, x)
        BY <3>1, <3>5, <3>6, <3>7
      <4>2. f = x.from /\ z = x.size /\ k = x.n /\ z >= 1
        BY <3>7
      <4> QED BY <3>8, <3>9, <3>10, <4>1, <4>2, Reassembled
    <3>12. Awaits(g, F, hi)
      BY <3>7, <3>9, <3>11 DEF Awaits
    <3> QED BY <2>2, <3>11, <3>12
  <2> QED BY <2>5, <2>6
<1> HIDE DEF Ok
<1>6. T = {}
  <2> SUFFICES ASSUME T # {} PROVE FALSE
    OBVIOUS
  <2>1. PICK j \in T : \A y \in T : j <= y
    <3>1. T \subseteq Nat
      OBVIOUS
    <3> HIDE DEF T
    <3> QED BY <3>1, Least
  <2>2. j \in 1..m /\ j - 1 \in 0..m /\ ~(j <= j - 1)
    BY <1>4
  <2>3. Ok(j - 1)
    BY <2>1, <2>2
  <2> QED BY <1>5, <2>2, <2>3
<1>7. Ok(m)
  <2>1. m \in 0..m
    OBVIOUS
  <2> QED BY <1>6, <2>1
<1> QED BY <1>3, <1>7 DEF Ok

-----------------------------------------------------------------------------
(* The invariant of the stream before the sequence numbers wrap around. *)

\* F says where each PDU sent begins: those on the air and in the buffer are PDUs of
\* this stream, and the reassembly stands where the PDU begins that it expects.
StreamOf(F) ==
  /\ Stream(F, sent) /\ F[sent] = nextUnit
  /\ \A x \in air : Fits(x, x.n, F)
  /\ \A k \in DOMAIN rxBuffer : Fits(rxBuffer[k], k, F)
  /\ AsmAt(asm, F[asm.expected])

StreamInv ==
  /\ nextUnit \in Nat /\ nextUnit <= sent * PduUnits
  /\ asm.expected <= vrUr.value
  /\ \E F : StreamOf(F)

\* Multiples of the length of a PDU.
LEMMA PduMultiples ==
  /\ PduUnits \in Nat /\ PduUnits >= 1
  /\ \A a \in Nat : a * PduUnits \in Nat /\ (a + 1) * PduUnits = a * PduUnits + PduUnits
  /\ \A a, b \in Nat : a <= b => a * PduUnits <= b * PduUnits
PROOF
<1>1. PduUnits \in Nat /\ PduUnits >= 1
  BY RlcAssumption
<1>2. \A a \in Nat : a * PduUnits \in Nat /\ (a + 1) * PduUnits = a * PduUnits + PduUnits
  BY <1>1
<1>3. ASSUME NEW a \in Nat, NEW b \in Nat, a <= b PROVE a * PduUnits <= b * PduUnits
  <2>1. PICK c \in Nat : b = a + c
    <3>1. b - a \in Nat /\ b = a + (b - a)
      BY <1>3
    <3> QED BY <3>1
  <2>2. (a + c) * PduUnits = a * PduUnits + c * PduUnits
    BY <1>1
  <2>3. a * PduUnits \in Nat /\ c * PduUnits \in Nat
    BY <1>2
  <2> QED BY <2>1, <2>2, <2>3
<1> QED BY <1>1, <1>2, <1>3

\* The start.
LEMMA StreamInit == Init => StreamInv
PROOF
<1> SUFFICES ASSUME Init PROVE StreamInv
  OBVIOUS
<1>1. /\ nextUnit = 0 /\ sent = 0 /\ air = {} /\ DOMAIN rxBuffer = {}
      /\ asm = [state |-> "WAITING_S0_FULL", keepS0 |-> <<>>, expected |-> 0,
                sdusBuffer |-> <<>>, up |-> <<>>]
  BY DEF Init
<1>2. vrUr.value = 0
  <2>1. 0 \in SN
    BY Bounds
  <2> QED BY <2>1, Remainder DEF Init, Sn
<1>3. PICK F : F = [i \in Nat |-> 0]
  OBVIOUS
<1>4. Stream(F, sent) /\ F[sent] = nextUnit
  BY <1>1, <1>3 DEF Stream
<1>5. <<>> \in Seq(Int) /\ <<>> \in Seq(Seq(Int)) /\ Len(<<>>) = 0
  BY EmptySeq
<1>6. Up(<<>>, 0 \div SduUnits)
  BY <1>5 DEF Up
<1>7. asm \in Asm
  BY <1>1, <1>5 DEF Asm
<1>8. asm.expected = 0 /\ asm.up = <<>> /\ asm.state # "WAITING_SI_SF" /\ F[0] = 0
  BY <1>1, <1>3
<1>9. AsmAt(asm, F[asm.expected])
  BY <1>6, <1>7, <1>8 DEF AsmAt
<1>10. StreamOf(F)
  BY <1>1, <1>4, <1>9 DEF StreamOf
<1>11. nextUnit <= sent * PduUnits
  BY <1>1, PduMultiples
<1> QED BY <1>1, <1>2, <1>8, <1>10, <1>11 DEF StreamInv

\* A transmission and a loss.
LEMMA StreamAir ==
  ASSUME WindowInv, StreamInv
  PROVE  /\ \A k \in 1..PduUnits : DoNotifyTxOpportunity(k) => StreamInv'
         /\ \A x \in air : LosePdu(x) => StreamInv'
PROOF
<1>1. PICK F : StreamOf(F)
  BY DEF StreamInv
<1>2. PICK m \in Nat, r \in Nat, h \in Nat, e \in Nat :
        m = sent /\ r = vrUr.value /\ h = vrUh.value /\ e = asm.expected
  BY <1>1 DEF WindowInv, OnAir, InWindow, StreamOf, AsmAt, Asm
<1>3. e <= r /\ r <= h /\ h <= m /\ DOMAIN rxBuffer \subseteq (r + 1)..(h - 1)
  BY <1>2 DEF WindowInv, InWindow, StreamInv
<1>4. ASSUME NEW k \in 1..PduUnits, DoNotifyTxOpportunity(k) PROVE StreamInv'
  <2>1. PICK y : y = [n |-> sent, from |-> nextUnit, size |-> k]
    OBVIOUS
  <2>2. /\ air' = air \cup {y} /\ sent' = m + 1 /\ y.n = m /\ y.from = nextUnit /\ y.size = k
        /\ nextUnit' = nextUnit + k
        /\ UNCHANGED <<rxBuffer, vrUr, asm>>
    BY <1>2, <1>4, <2>1 DEF DoNotifyTxOpportunity
  <2>3. k \in Nat /\ k >= 1 /\ k <= PduUnits
    BY PduMultiples
  <2>4. PICK u \in Nat : u = nextUnit
    BY DEF StreamInv
  <2>5. nextUnit' \in Nat /\ nextUnit' <= sent' * PduUnits
    <3>1. u <= m * PduUnits
      BY <1>2, <2>4 DEF StreamInv
    <3>2. PICK a \in Nat : a = m * PduUnits /\ (m + 1) * PduUnits = a + PduUnits
      BY PduMultiples
    <3>3. u + k \in Nat /\ u + k <= a + PduUnits
      BY <2>3, <3>1, <3>2, PduMultiples
    <3> QED BY <2>2, <2>4, <3>2, <3>3
  <2>6. PICK G : G = [F EXCEPT ![m + 1] = u + k]
    OBVIOUS
  <2>7. F \in [Nat -> Nat] /\ F[m] = u /\ \A i, j \in 0..m : i <= j => F[i] <= F[j]
    BY <1>1, <1>2, <2>4 DEF StreamOf, Stream
  <2>8. /\ G \in [Nat -> Nat] /\ G[m + 1] = u + k
        /\ \A i \in 0..m : G[i] = F[i]
    <3>1. m + 1 \in Nat /\ u + k \in Nat /\ \A i \in 0..m : i # m + 1 /\ i \in Nat
      BY <2>3
    <3> QED BY <2>6, <2>7, <3>1
  <2>9. Stream(G, m + 1)
    <3> SUFFICES ASSUME NEW i \in 0..(m + 1), NEW j \in 0..(m + 1), i <= j PROVE G[i] <= G[j]
      BY <2>8 DEF Stream
    <3>1. CASE j <= m
      <4>1. i \in 0..m /\ j \in 0..m
        BY <3>1
      <4> QED BY <2>7, <2>8, <4>1
    <3>2. CASE j = m + 1 /\ i <= m
      <4>1. i \in 0..m /\ m \in 0..m /\ i <= m
        BY <3>2
      <4>2. G[i] = F[i] /\ F[i] <= u /\ F[i] \in Nat
        BY <2>7, <2>8, <4>1
      <4> QED BY <2>3, <2>8, <3>2, <4>2
    <3>3. CASE j = m + 1 /\ i = m + 1
      BY <2>3, <2>8, <3>3
    <3> QED BY <3>1, <3>2, <3>3
  <2>10. ASSUME NEW x, NEW i \in Nat, i < m, Fits(x, i, F) PROVE Fits(x, i, G)
    <3>1. i \in 0..m /\ i + 1 \in 0..m
      BY <2>10
    <3> QED BY <2>8, <2>10, <3>1 DEF Fits
  <2>11. \A x \in air' : Fits(x, x.n, G)
    <3>1. ASSUME NEW x \in air PROVE Fits(x, x.n, G)
      <4>1. PICK i \in Nat : i = x.n /\ i < m
        BY <1>2 DEF WindowInv, OnAir
      <4>2. Fits(x, i, F)
        BY <1>1, <4>1 DEF StreamOf
      <4> QED BY <2>10, <4>1, <4>2
    <3>2. Fits(y, y.n, G)
      <4>1. m \in 0..m
        OBVIOUS
      <4>2. G[m] = u
        BY <2>7, <2>8, <4>1
      <4> QED BY <2>2, <2>3, <2>4, <2>8, <4>2 DEF Fits
    <3> QED BY <2>2, <3>1, <3>2
  <2>12. \A j \in DOMAIN rxBuffer' : Fits(rxBuffer'[j], j, G)
    <3> SUFFICES ASSUME NEW j \in DOMAIN rxBuffer PROVE Fits(rxBuffer[j], j, G)
      BY <2>2
    <3>1. j \in Nat /\ j < m
      BY <1>3
    <3>2. Fits(rxBuffer[j], j, F)
      BY <1>1 DEF StreamOf
    <3> QED BY <2>10, <3>1, <3>2
  <2>13. AsmAt(asm', G[asm'.expected])
    <3>1. e \in 0..m
      BY <1>3
    <3>2. AsmAt(asm, F[e])
      BY <1>1, <1>2 DEF StreamOf
    <3> QED BY <1>2, <2>2, <2>8, <3>1, <3>2
  <2>14. StreamOf(G)'
    BY <2>2, <2>4, <2>8, <2>9, <2>11, <2>12, <2>13 DEF StreamOf
  <2> QED BY <2>2, <2>5, <2>14 DEF StreamInv
<1>5. ASSUME NEW x \in air, LosePdu(x) PROVE StreamInv'
  <2>1. air' \subseteq air /\ UNCHANGED <<sent, nextUnit, rxBuffer, vrUr, asm>>
    BY <1>5 DEF LosePdu
  <2>2. StreamOf(F)'
    BY <1>1, <2>1 DEF StreamOf
  <2> QED BY <2>1, <2>2 DEF StreamInv
<1> QED BY <1>4, <1>5

\* A stream up to some number is one up to a lower number, and a state that waits for
\* a number up to one bound waits for one up to a higher one.
LEMMA StreamDown ==
  /\ \A F : \A m, q \in Nat : Stream(F, m) /\ q <= m => Stream(F, q)
  /\ \A a, F : \A q, v \in Nat : Awaits(a, F, q) /\ q <= v => Awaits(a, F, v) /\ a.expected \in Nat
PROOF
<1>1. ASSUME NEW F, NEW m \in Nat, NEW q \in Nat, Stream(F, m), q <= m PROVE Stream(F, q)
  <2>1. \A i \in 0..q : i \in 0..m
    BY <1>1
  <2> QED BY <1>1, <2>1 DEF Stream
<1>2. ASSUME NEW a, NEW F, NEW q \in Nat, NEW v \in Nat, Awaits(a, F, q), q <= v
      PROVE  Awaits(a, F, v) /\ a.expected \in Nat
  <2>1. a.expected \in Nat /\ a.expected <= q
    BY <1>2 DEF Awaits, AsmAt, Asm
  <2>2. a.expected <= v
    BY <1>2, <2>1
  <2> QED BY <1>2, <2>1, <2>2 DEF Awaits
<1> QED BY <1>1, <1>2

\* What is delivered when a PDU is placed in a buffer of PDUs of the stream.
LEMMA DeliversRun ==
  ASSUME NEW r \in Nat, NEW p, NEW buf, Delivers(r, p, buf), asm.expected <= r,
         NEW m \in Nat, NEW F, Stream(F, m), p.ur.value <= m, AsmAt(asm, F[asm.expected]),
         \A k \in DOMAIN buf : k \in Nat /\ r <= k /\ Fits(buf[k], k, F)
  PROVE  /\ \A a \in p.asm : AsmAt(a, F[a.expected]) /\ a.expected <= p.ur.value
         /\ \A k \in DOMAIN p.buf : Fits(p.buf[k], k, F)
PROOF
<1>1. PICK q, out :
        /\ q \in Nat /\ r <= q /\ q <= p.ur.value /\ p.ur.value \in SN
        /\ out \subseteq DOMAIN buf /\ \A k \in out : k < q
        /\ DOMAIN Erase(buf, out) \subseteq q..(Modulus - 1)
        /\ p.asm = Reassemble(Reassemble({asm}, AllSn, out, buf),
                              Run(q, p.ur.value), DOMAIN Erase(buf, out), Erase(buf, out))
        /\ \A k \in DOMAIN p.buf : k \in DOMAIN buf /\ p.buf[k] = buf[k]
  BY DEF Delivers
<1>v. PICK v \in Nat : v = p.ur.value
  BY <1>1, Bounds
<1>a. PICK a0, buf1 : a0 = asm /\ buf1 = Erase(buf, out)
  OBVIOUS
<1>2. v = p.ur.value /\ a0 = asm /\ buf1 = Erase(buf, out)
  BY <1>v, <1>a
<1>3. q \in SN /\ v \in SN /\ q <= v /\ v <= m /\ q <= m
  BY <1>1, <1>2, Bounds
<1>4. Stream(F, q) /\ Stream(F, v)
  BY <1>1, <1>3, StreamDown
<1>5. Awaits(a0, F, r) /\ a0.expected \in Nat /\ a0.expected <= r
  BY <1>2 DEF Awaits, AsmAt, Asm
<1>6. Awaits(a0, F, q)
  BY <1>1, <1>5, StreamDown
<1>7. PICK A1 : A1 = Reassemble({a0}, AllSn, out, buf)
  OBVIOUS
<1>8. \A a \in A1 : Awaits(a, F, q)
  <2>1. AllSn = [i \in 1..Modulus |-> 0 + i - 1] /\ 0 \in Nat /\ Modulus \in Nat
    BY Bounds DEF AllSn
  <2>2. PICK s, z : s = AllSn /\ z = 0
    OBVIOUS
  <2>3. s = [i \in 1..Modulus |-> z + i - 1] /\ z \in Nat /\ Modulus \in Nat
    BY <2>1, <2>2
  <2>4. \A k \in out : k \in Nat /\ k < q /\ r <= k /\ Fits(buf[k], k, F)
    BY <1>1
  <2>5. \A k \in out : k \in Nat /\ z <= k /\ k < z + Modulus => k < q /\ Fits(buf[k], k, F)
    BY <2>4
  <2>6. \A a \in {a0} : /\ Awaits(a, F, q)
                        /\ \A k \in out : k \in Nat /\ z <= k /\ k < z + Modulus => a.expected <= k
    BY <1>5, <1>6, <2>4
  <2>7. \A a \in Reassemble({a0}, s, out, buf) : Awaits(a, F, q)
    BY <1>3, <1>4, <2>3, <2>5, <2>6, ReassembleRun
  <2> QED BY <1>7, <2>2, <2>7
<1>9. \A a \in Reassemble(A1, Run(q, v), DOMAIN buf1, buf1) : Awaits(a, F, v)
  <2>1. PICK S, z : S = DOMAIN buf1 /\ z = v - q
    OBVIOUS
  <2>2. PICK s : s = Run(q, v)
    OBVIOUS
  <2>3. s = [i \in 1..z |-> q + i - 1] /\ z \in Nat /\ q + z = v
    BY <1>1, <1>2, <1>3, <2>1, <2>2 DEF Run
  <2>4. \A k \in S : k \in DOMAIN buf /\ buf1[k] = buf[k]
    BY <1>2, <2>1 DEF Erase
  <2>5. \A k \in S : k \in Nat /\ q <= k /\ Fits(buf1[k], k, F)
    BY <1>1, <1>2, <2>1, <2>4
  <2>6. \A k \in S : k \in Nat /\ q <= k /\ k < q + z => k < v /\ Fits(buf1[k], k, F)
    BY <2>3, <2>5
  <2>7. ASSUME NEW a \in A1
        PROVE  /\ Awaits(a, F, v)
               /\ \A k \in S : k \in Nat /\ q <= k /\ k < q + z => a.expected <= k
    <3>1. Awaits(a, F, q)
      BY <1>8
    <3>2. Awaits(a, F, v) /\ a.expected \in Nat
      BY <1>1, <1>3, <3>1, StreamDown
    <3>3. a.expected <= q
      BY <3>1 DEF Awaits
    <3> QED BY <1>1, <3>2, <3>3
  <2>8. \A a \in Reassemble(A1, s, S, buf1) : Awaits(a, F, v)
    BY <1>1, <1>3, <1>4, <2>3, <2>6, <2>7, ReassembleRun
  <2> QED BY <2>1, <2>2, <2>8
<1>10. p.asm = Reassemble(A1, Run(q, v), DOMAIN buf1, buf1)
  BY <1>1, <1>2, <1>7
<1>11. \A a \in p.asm : AsmAt(a, F[a.expected]) /\ a.expected <= p.ur.value
  BY <1>2, <1>9, <1>10 DEF Awaits
<1>12. \A k \in DOMAIN p.buf : Fits(p.buf[k], k, F)
  BY <1>1
<1> QED BY <1>11, <1>12

\* The arrival of a PDU.
LEMMA StreamArrival ==
  ASSUME WindowInv, StreamInv, MaxPdu < Modulus, NEW x \in air, DoReceivePdu(x)
  PROVE  StreamInv'
PROOF
<1>1. PICK F : StreamOf(F)
  BY DEF StreamInv
<1>2. air' = air \ {x} /\ UNCHANGED <<sent, nextUnit, losses>>
  BY ArrivalCases
<1>3. \A y \in air' : Fits(y, y.n, F)
  BY <1>1, <1>2 DEF StreamOf
<1>4. Stream(F, sent') /\ F[sent'] = nextUnit'
  BY <1>1, <1>2 DEF StreamOf
<1>5. CASE ArrivalDiscards(x)
  <2>1. StreamOf(F)'
    BY <1>1, <1>3, <1>4, <1>5 DEF StreamOf, ArrivalDiscards
  <2> QED BY <1>2, <1>5, <2>1 DEF StreamInv, ArrivalDiscards
<1>6. ASSUME NEW p, ArrivalPlaces(x, p) PROVE StreamInv'
  <2>1. PICK r \in Nat, h \in Nat, n \in Nat, m \in Nat :
          r = vrUr.value /\ h = vrUh.value /\ n = x.n /\ m = sent /\ n + 1 <= m /\ h <= m /\ r <= n
    BY <1>6, Gap DEF WindowInv, InWindow, OnAir, ArrivalPlaces
  <2>2. PICK buf : buf = Store(rxBuffer, n, x)
    OBVIOUS
  <2>3. Delivers(r, p, buf) /\ Moved(r, h, n, p)
    BY <1>6, <2>1, <2>2 DEF ArrivalPlaces
  <2>4. p.ur.value <= m
    <3>1. PICK u : u = p.uh.value
      OBVIOUS
    <3>2. u = (IF n < h THEN h ELSE n + 1) /\ p.ur.value \in r..u
      BY <2>3, <3>1 DEF Moved
    <3> QED BY <2>1, <3>2
  <2>5. \A k \in DOMAIN buf : k \in Nat /\ r <= k /\ Fits(buf[k], k, F)
    <3> SUFFICES ASSUME NEW k \in DOMAIN buf PROVE k \in Nat /\ r <= k /\ Fits(buf[k], k, F)
      OBVIOUS
    <3>1. k \in DOMAIN rxBuffer \cup {n} /\ buf[k] = IF k = n THEN x ELSE rxBuffer[k]
      BY <2>2 DEF Store
    <3>2. CASE k = n
      BY <1>1, <2>1, <3>1, <3>2 DEF StreamOf
    <3>3. CASE k # n
      <4>1. k \in DOMAIN rxBuffer /\ buf[k] = rxBuffer[k]
        BY <3>1, <3>3
      <4>2. k \in (r + 1)..(h - 1)
        BY <2>1, <4>1 DEF WindowInv, InWindow
      <4> QED BY <1>1, <2>1, <4>1, <4>2 DEF StreamOf
    <3> QED BY <3>2, <3>3
  <2>6. Stream(F, m) /\ AsmAt(asm, F[asm.expected]) /\ asm.expected <= r
    BY <1>1, <2>1 DEF StreamOf, StreamInv
  <2>7. /\ \A a \in p.asm : AsmAt(a, F[a.expected]) /\ a.expected <= p.ur.value
        /\ \A k \in DOMAIN p.buf : Fits(p.buf[k], k, F)
    BY <2>1, <2>3, <2>4, <2>5, <2>6, DeliversRun
  <2>8. rxBuffer' = p.buf /\ asm' \in p.asm /\ vrUr'.value = p.ur.value
    <3>1. /\ rxBuffer' = p.buf /\ asm' \in p.asm
          /\ IsPair(p.ur) /\ IsPair(p.uh) /\ UpdateTimer(p.ur, p.uh)
      BY <1>6 DEF ArrivalPlaces
    <3>2. PICK a, c : a = p.ur /\ c = p.uh
      OBVIOUS
    <3>3. vrUr' = [value |-> a.value, base |-> Edge(c.value)]
      BY <3>1, <3>2, Rebased DEF WindowInv, Bases
    <3> QED BY <3>1, <3>2, <3>3
  <2>9. StreamOf(F)'
    BY <1>3, <1>4, <2>7, <2>8 DEF StreamOf
  <2>10. asm'.expected <= vrUr'.value
    BY <2>7, <2>8
  <2> QED BY <1>2, <2>9, <2>10 DEF StreamInv
<1> QED BY <1>5, <1>6, ArrivalCases

\* The expiry of t-Reordering.
LEMMA StreamExpiry ==
  ASSUME WindowInv, StreamInv, MaxPdu < Modulus, ExpireReorderingTimer
  PROVE  StreamInv'
PROOF
<1>1. PICK F : StreamOf(F)
  BY DEF StreamInv
<1>2. PICK g : ExpiryTo(g)
  BY ExpiryIs
<1>r. PICK r \in Nat, h \in Nat, m \in Nat : r = vrUr.value /\ h = vrUh.value /\ m = sent
  BY DEF WindowInv, InWindow, OnAir
<1>a. PICK a0, buf : a0 = asm /\ buf = rxBuffer
  OBVIOUS
<1>3. r = vrUr.value /\ h = vrUh.value /\ m = sent /\ a0 = asm /\ buf = rxBuffer
  BY <1>r, <1>a
<1>4. /\ g \in Nat /\ r <= g /\ g <= h /\ h \in SN /\ h <= m
      /\ vrUr'.value = g /\ asm' \in Reassemble({a0}, Run(r, g), DOMAIN buf, buf)
      /\ DOMAIN rxBuffer' \subseteq DOMAIN buf
      /\ \A k \in DOMAIN rxBuffer' : rxBuffer'[k] = buf[k]
      /\ UNCHANGED <<sent, nextUnit, air>>
  BY <1>2, <1>3 DEF ExpiryTo, WindowInv, InWindow
<1>5. g \in SN /\ g <= m
  BY <1>3, <1>4, Bounds
<1>6. Stream(F, m) /\ Stream(F, g)
  BY <1>1, <1>3, <1>4, <1>5, StreamDown DEF StreamOf
<1>7. Awaits(a0, F, r) /\ a0.expected \in Nat /\ a0.expected <= r
  BY <1>1, <1>3 DEF StreamOf, StreamInv, Awaits, AsmAt, Asm
<1>8. Awaits(a0, F, g)
  BY <1>4, <1>7, StreamDown
<1>9. \A a \in Reassemble({a0}, Run(r, g), DOMAIN buf, buf) : Awaits(a, F, g)
  <2>1. PICK S, z, s : S = DOMAIN buf /\ z = g - r /\ s = Run(r, g)
    OBVIOUS
  <2>2. s = [i \in 1..z |-> r + i - 1] /\ z \in Nat /\ r + z = g
    BY <1>4, <2>1 DEF Run
  <2>3. \A k \in S : k \in Nat /\ r <= k /\ k < r + z => k < g /\ Fits(buf[k], k, F)
    BY <1>1, <1>3, <2>1, <2>2 DEF StreamOf
  <2>4. \A a \in {a0} : /\ Awaits(a, F, g)
                        /\ \A k \in S : k \in Nat /\ r <= k /\ k < r + z => a.expected <= k
    BY <1>7, <1>8
  <2>5. \A a \in Reassemble({a0}, s, S, buf) : Awaits(a, F, g)
    BY <1>5, <1>6, <2>2, <2>3, <2>4, ReassembleRun
  <2> QED BY <2>1, <2>5
<1>10. AsmAt(asm', F[asm'.expected]) /\ asm'.expected <= vrUr'.value
  BY <1>4, <1>9 DEF Awaits
<1>11. \A k \in DOMAIN rxBuffer' : Fits(rxBuffer'[k], k, F)
  BY <1>1, <1>3, <1>4 DEF StreamOf
<1>12. StreamOf(F)'
  BY <1>1, <1>4, <1>10, <1>11 DEF StreamOf
<1> QED BY <1>4, <1>10, <1>12 DEF StreamInv

\* Before the wrap-around, every step keeps both invariants.
LEMMA StreamStep ==
  ASSUME MaxPdu < Modulus
  PROVE  WindowInv /\ StreamInv /\ [Next]_vars => WindowInv' /\ StreamInv'
PROOF
<1> SUFFICES ASSUME WindowInv, StreamInv, [Next]_vars PROVE StreamInv'
  BY WindowStep
<1>1. CASE UNCHANGED vars
  BY <1>1 DEF StreamInv, StreamOf, vars
<1>2. ASSUME NEW k \in 1..PduUnits, DoNotifyTxOpportunity(k) PROVE StreamInv'
  BY <1>2, StreamAir
<1>3. ASSUME NEW x \in air, LosePdu(x) PROVE StreamInv'
  BY <1>3, StreamAir
<1>4. ASSUME NEW x \in air, DoReceivePdu(x) PROVE StreamInv'
  BY <1>4, StreamArrival
<1>5. CASE ExpireReorderingTimer
  BY <1>5, StreamExpiry
<1> QED BY <1>1, <1>2, <1>3, <1>4, <1>5 DEF Next

\* What went up are whole SDUs of those sent, in order, and nothing is left over.
LEMMA StreamDelivers ==
  ASSUME WindowInv, StreamInv
  PROVE  DeliveredWhole /\ DeliveredInOrder /\ NothingLeftOver
PROOF
<1>1. PICK F : StreamOf(F)
  BY DEF StreamInv
<1>2. PICK a, up, e, m : a = asm /\ up = asm.up /\ e = asm.expected /\ m = sent
  OBVIOUS
<1>3. /\ e \in Nat /\ m \in Nat /\ e <= m /\ m <= MaxPdu /\ MaxPdu \in Nat
      /\ a \in Asm /\ AsmAt(a, F[e])
  <2>1. a \in Asm /\ AsmAt(a, F[e])
    BY <1>1, <1>2 DEF StreamOf, AsmAt
  <2>2. e \in Nat
    BY <1>2, <2>1 DEF Asm
  <2>3. m \in Nat /\ m <= MaxPdu /\ MaxPdu \in Nat
    BY <1>2, Bounds DEF WindowInv, OnAir
  <2>4. e <= m
    BY <1>2, <2>2, <2>3 DEF WindowInv, InWindow, StreamInv
  <2> QED BY <2>1, <2>2, <2>3, <2>4
<1>4. PICK p \in Nat, u \in Nat : p = F[e] /\ u = nextUnit /\ p <= u
  <2>1. F[e] \in Nat /\ F[m] \in Nat
    BY <1>1, <1>3 DEF StreamOf, Stream
  <2>2. e \in 0..m /\ m \in 0..m
    BY <1>3
  <2>3. F[e] <= F[m]
    BY <1>1, <1>2, <1>3, <2>2 DEF StreamOf, Stream
  <2>4. F[m] = nextUnit
    BY <1>1, <1>2 DEF StreamOf
  <2> QED BY <2>1, <2>3, <2>4
<1>5. PICK d \in Nat : d = p \div SduUnits /\ d <= p
  <2>1. PICK d \in Nat, i \in 0..(SduUnits - 1) : d = p \div SduUnits /\ p = d * SduUnits + i
    BY Division
  <2>2. PICK c \in Nat : c = d * SduUnits /\ d <= c
    BY Multiples
  <2>3. d <= p
    BY <2>1, <2>2, RlcAssumption
  <2> QED BY <2>1, <2>3
<1>6. Up(up, d)
  BY <1>2, <1>3, <1>4, <1>5 DEF AsmAt
<1>7. up \in Seq(Seq(Int)) /\ DOMAIN up = 1..Len(up)
  BY <1>6 DEF Up
<1>8. d <= MaxPdu * PduUnits /\ MaxPdu * PduUnits \in Nat
  <2>1. PICK b \in Nat, c \in Nat : b = m * PduUnits /\ c = MaxPdu * PduUnits /\ b <= c
    BY <1>3, PduMultiples
  <2>2. u <= b
    BY <1>2, <1>4, <2>1 DEF StreamInv
  <2> QED BY <1>4, <1>5, <2>1, <2>2
<1>9. DeliveredWhole
  <2> SUFFICES ASSUME NEW i \in 1..Len(up) PROVE \E s \in Unit : up[i] = Sdu(s)
    BY <1>2, <1>7 DEF DeliveredWhole, Sdu
  <2>1. PICK s \in Nat : s < d /\ up[i] = Sdu(s)
    BY <1>6 DEF Up
  <2>2. s \in Unit
    BY <1>5, <1>8, <2>1 DEF Unit
  <2> QED BY <2>1, <2>2
<1>10. DeliveredInOrder
  BY <1>2, <1>6 DEF DeliveredInOrder, Up
<1>11. NothingLeftOver
  BY <1>2, <1>3 DEF NothingLeftOver, Asm
<1> QED BY <1>9, <1>10, <1>11

\* Up to the wrap-around of the sequence numbers, whatever is lost, late or out of
\* order, ReassembleAndDeliver passes whole SDUs to PDCP: no part of one, and none
\* put together from pieces of two.
THEOREM DeliveredWholeHolds ==
  ASSUME MaxPdu < Modulus
  PROVE  Spec => []DeliveredWhole
PROOF
<1>1. WindowInv /\ StreamInv => DeliveredWhole
  BY StreamDelivers
<1>2. Init => WindowInv /\ StreamInv
  BY WindowInit, StreamInit
<1> QED BY <1>1, <1>2, StreamStep, PTL DEF Spec

\* Under the same condition the SDUs go up in the order they were sent in, and none
\* goes up twice.
THEOREM DeliveredInOrderHolds ==
  ASSUME MaxPdu < Modulus
  PROVE  Spec => []DeliveredInOrder
PROOF
<1>1. WindowInv /\ StreamInv => DeliveredInOrder
  BY StreamDelivers
<1>2. Init => WindowInv /\ StreamInv
  BY WindowInit, StreamInit
<1> QED BY <1>1, <1>2, StreamStep, PTL DEF Spec

\* Under the same condition the "INTERNAL ERROR: Transition not possible" cases of
\* ReassembleAndDeliver are not reached: they alone leave SDU pieces behind.
THEOREM NothingLeftOverHolds ==
  ASSUME MaxPdu < Modulus
  PROVE  Spec => []NothingLeftOver
PROOF
<1>1. WindowInv /\ StreamInv => NothingLeftOver
  BY StreamDelivers
<1>2. Init => WindowInv /\ StreamInv
  BY WindowInit, StreamInit
<1> QED BY <1>1, <1>2, StreamStep, PTL DEF Spec
=============================================================================
