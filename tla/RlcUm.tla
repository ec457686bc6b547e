------------------------------- MODULE RlcUm --------------------------------
(***************************************************************************)
(* The receiving side of LteRlcUm: reordering window, t-Reordering timer,  *)
(* reassembly, under a MAC that loses PDUs and lets them overtake each     *)
(* other (HARQ processes).                                                 *)
(*                                                                         *)
(* Data is a stream of units; SDU s is the units s * SduUnits up to        *)
(* (s + 1) * SduUnits - 1.  A PDU carries a run of consecutive units, cut  *)
(* by the transmit opportunity wherever it ends, and pdu n goes out under  *)
(* the sequence number n % Modulus.                                        *)
(***************************************************************************)
EXTENDS SequenceNumber, Sequences, SequencesExt, FiniteSets

CONSTANTS
  Window,       \* m_windowSize (512)
  SduUnits,     \* units per SDU
  PduUnits,     \* most units one transmit opportunity takes
  Overtaken,    \* most PDUs that may overtake one that is still on the air
  MaxPdu,       \* bound: PDUs sent
  MaxLoss       \* bound: PDUs lost

ASSUME RlcAssumption ==
  /\ Window \in Nat \ {0, 1} /\ 2 * Window = Modulus
  /\ SduUnits \in Nat \ {0} /\ PduUnits \in Nat \ {0}
  /\ Overtaken \in Nat /\ MaxPdu \in Nat /\ MaxLoss \in Nat
  \* the window tells old from new only if fewer PDUs than it holds are
  \* missing in a row
  /\ Overtaken + MaxLoss < Window

Unit == 0..(MaxPdu * PduUnits - 1)
Pdu == [n : 0..(MaxPdu - 1), from : Unit, size : 1..PduUnits]

StartsSdu(x) == x.from % SduUnits = 0
EndsSdu(x) == (x.from + x.size) % SduUnits = 0

VARIABLES
  sent, nextUnit,     \* PDUs sent, and the unit the next one begins with
  air, losses,        \* PDUs on the air, and how many were lost
  rxBuffer,           \* m_rxBuffer: sequence number -> PDU
  vrUr, vrUx, vrUh,   \* m_vrUr, m_vrUx, m_vrUh
  reordering,         \* m_reorderingTimer is running
  asm                 \* the reassembly state and, in up, what was delivered

vars == <<sent, nextUnit, air, losses, rxBuffer, vrUr, vrUx, vrUh, reordering, asm>>

Init ==
  /\ sent = 0 /\ nextUnit = 0 /\ air = {} /\ losses = 0
  /\ rxBuffer = <<>>
  /\ vrUr = Sn(0, 0) /\ vrUx = Sn(0, 0) /\ vrUh = Sn(0, 0)
  /\ reordering = FALSE
  /\ asm = [state |-> "WAITING_S0_FULL", keepS0 |-> <<>>, expected |-> 0,
            sdusBuffer |-> <<>>, up |-> <<>>]

-----------------------------------------------------------------------------
\* DoNotifyTxOpportunity: the next PDU takes k units.
DoNotifyTxOpportunity(k) ==
  /\ sent < MaxPdu
  /\ \A x \in air : sent - x.n <= Overtaken
  /\ air' = air \cup {[n |-> sent, from |-> nextUnit, size |-> k]}
  /\ sent' = sent + 1
  /\ nextUnit' = nextUnit + k
  /\ UNCHANGED <<losses, rxBuffer, vrUr, vrUx, vrUh, reordering, asm>>

LosePdu(x) ==
  /\ losses < MaxLoss
  /\ air' = air \ {x}
  /\ losses' = losses + 1
  /\ UNCHANGED <<sent, nextUnit, rxBuffer, vrUr, vrUx, vrUh, reordering, asm>>

-----------------------------------------------------------------------------
(***************************************************************************)
(* ReassembleAndDeliver.  q is the list of SDU pieces: what an impossible  *)
(* transition left behind, then the pieces of this PDU.  A PDU that is not *)
(* the expected one, or that finds nothing kept, starts afresh: a first    *)
(* piece that does not begin an SDU is dropped.  Otherwise the first piece *)
(* completes the kept one.  A last piece that does not end its SDU is kept.*)
(***************************************************************************)
Piece(x, s) ==
  LET lo == IF x.from > s * SduUnits THEN x.from ELSE s * SduUnits
      end == IF x.from + x.size < (s + 1) * SduUnits
             THEN x.from + x.size ELSE (s + 1) * SduUnits
  IN [i \in 1..(end - lo) |-> lo + i - 1]

Pieces(x) ==
  LET s0 == x.from \div SduUnits
      s1 == (x.from + x.size - 1) \div SduUnits
  IN [i \in 1..(s1 - s0 + 1) |-> Piece(x, s0 + i - 1)]

\* Mutant: the expected sequence number is not looked at.
NothingKept(a, x) == a.state = "WAITING_S0_FULL"

StartsAfresh(a, x) == a.state = "WAITING_S0_FULL" \/ x.n % Modulus # a.expected

ReassembleAndDeliver(a, x) ==
  LET q == a.sdusBuffer \o Pieces(x)
      afresh == StartsAfresh(a, x)
      whole == IF ~afresh THEN <<a.keepS0 \o Head(q)>> \o Tail(q)
               ELSE IF StartsSdu(x) THEN q ELSE Tail(q)
      keeps == ~EndsSdu(x) /\ whole # <<>>
      next == [a EXCEPT !.expected = (x.n + 1) % Modulus]
  IN IF ~afresh /\ StartsSdu(x)
     THEN [next EXCEPT !.sdusBuffer = q]     \* "Transition not possible"
     ELSE [next EXCEPT
             !.state = IF keeps THEN "WAITING_SI_SF" ELSE "WAITING_S0_FULL",
             !.keepS0 = IF keeps THEN Last(whole) ELSE <<>>,
             !.sdusBuffer = <<>>,
             !.up = @ \o IF keeps THEN Front(whole) ELSE whole]

\* The buffered PDUs with a number in S, in the order of s.  A is the reassembly
\* state before, and the result the one after, as a set with one member (which TLC
\* computes once per PDU).
Reassemble(A, s, S, buf) ==
  LET upTo[i \in 0..Len(s)] ==
        IF i = 0 THEN A
        ELSE IF s[i] \in S
             THEN {ReassembleAndDeliver(a, buf[s[i]]) : a \in upTo[i - 1]}
             ELSE upTo[i - 1]
  IN upTo[Len(s)]

Store(buf, sn, x) == [k \in DOMAIN buf \cup {sn} |-> IF k = sn THEN x ELSE buf[k]]
Erase(buf, S) == [sn \in DOMAIN buf \ S |-> buf[sn]]

\* The loop of ReassembleSnInterval, from low while it is below high.
SnInterval(low, high) ==
  LET n == IF Less(low, high) THEN Distance(high) - Distance(low) ELSE 0
  IN [i \in 1..n |-> (low.value + i - 1) % Modulus]

\* IsInsideReorderingWindow(v) when VR(UH) is uh.
IsInsideReorderingWindow(v, uh) ==
  LET low == Minus(uh, Window)
      s == SetModulusBase([v EXCEPT !.base = 0], low)
  IN Less(s, SetModulusBase(uh, low))

\* The loop of ReassembleOutsideWindow walks the map from its smallest key and
\* stops at the first one inside the window.
OutsideWindow(buf, uh) ==
  LET Out(sn) == ~IsInsideReorderingWindow(Sn(sn, 0), uh)
  IN {sn \in DOMAIN buf : \A k \in DOMAIN buf : k <= sn => Out(k)}

\* The map is walked in the order of its keys.
AllSn == [i \in 1..Modulus |-> i - 1]

\* Mutant: VR(UR) moves one number at a time.
NextNumber(v, buf) == v + 1

\* VR(UR) after the PDU at VR(UR) is found: newVrUr is a plain uint16_t, so the
\* search for the next missing number does not wrap around.
NextMissing(v, buf) ==
  CHOOSE n \in (v + 1)..Modulus :
    n \notin DOMAIN buf /\ \A m \in (v + 1)..(n - 1) : m \in DOMAIN buf

-----------------------------------------------------------------------------
\* Mutant: a PDU below VR(UR) is put in the buffer.
DiscardedIfBuffered(ur, uh, s) ==
  Less(ur, s) /\ Less(s, uh) /\ s.value \in DOMAIN rxBuffer

Discarded(ur, uh, s) ==
  \/ Less(ur, s) /\ Less(s, uh) /\ s.value \in DOMAIN rxBuffer
  \/ LessEq(Minus(uh, Window), s) /\ Less(s, ur)

\* What DoReceivePdu does once a PDU is in the buffer: [ur, uh, buf, asm].
Placed(ur0, uh0, s, buf0) ==
  LET outside == ~IsInsideReorderingWindow(s, uh0)
      uh1 == IF outside THEN Plus(s, 1) ELSE uh0
      out == IF outside THEN OutsideWindow(buf0, uh1) ELSE {}
      buf1 == Erase(buf0, out)
      asm1 == Reassemble({asm}, AllSn, out, buf0)
      ur1 == IF outside /\ ~IsInsideReorderingWindow(ur0, uh1)
             THEN Minus(SetModulusBase(uh1, Minus(uh1, Window)), Window) ELSE ur0
      found == ur1.value \in DOMAIN buf1
      ur2 == IF found THEN Sn(NextMissing(ur1.value, buf1), ur1.base) ELSE ur1
      interval == IF found THEN SnInterval(ur1, ur2) ELSE <<>>
  IN [ur |-> ur2, uh |-> uh1, buf |-> Erase(buf1, Range(interval)),
      asm |-> Reassemble(asm1, interval, DOMAIN buf1, buf1)]

\* Mutant: one missing number is not worth a timer.
StartForTwo(uh, ur) == Greater(uh, Plus(ur, 1))

\* t-Reordering is started when a number below VR(UH) is missing.
StartReordering(uh, ur) == Greater(uh, ur)

\* Mutant: VR(UX) keeps the base it had.
VrUxOldBase(base) == vrUx

VrUxRebased(base) == SetModulusBase(vrUx, base)

\* The end of DoReceivePdu: stop t-Reordering when VR(UX) is passed or has left
\* the window, and start it if need be.
UpdateTimer(ur, uh) ==
  LET base == Minus(uh, Window)
      r == SetModulusBase(ur, base)
      x == VrUxRebased(base)
      h == SetModulusBase(uh, base)
      running == /\ reordering
                 /\ ~LessEq(x, r)
                 /\ IsInsideReorderingWindow(x, h) \/ x.value = h.value
      start == ~running /\ StartReordering(h, r)
  IN /\ vrUr' = r
     /\ vrUh' = h
     /\ vrUx' = IF start THEN h ELSE x
     /\ reordering' = (running \/ start)

DoReceivePdu(x) ==
  LET base == Minus(vrUh, Window)
      ur == SetModulusBase(vrUr, base)
      uh == SetModulusBase(vrUh, base)
      s == Sn(x.n, base.value)
  IN /\ air' = air \ {x}
     /\ \/ /\ Discarded(ur, uh, s)
           /\ vrUr' = ur /\ vrUh' = uh
           /\ UNCHANGED <<vrUx, reordering, rxBuffer, asm>>
        \/ /\ ~Discarded(ur, uh, s)
           /\ LET p == Placed(ur, uh, s, Store(rxBuffer, s.value, x))
              IN /\ rxBuffer' = p.buf
                 /\ asm' \in p.asm
                 /\ UpdateTimer(p.ur, p.uh)
     /\ UNCHANGED <<sent, nextUnit, losses>>

\* The first number from VR(UX) on that is missing; this search wraps around.
FirstMissingFrom(v, buf) ==
  CHOOSE d \in 0..Modulus :
    /\ (v + d) % Modulus \notin DOMAIN buf
    /\ \A e \in 0..(d - 1) : (v + e) % Modulus \in DOMAIN buf

ExpireReorderingTimer ==
  LET ur == Plus(vrUx, FirstMissingFrom(vrUx.value, rxBuffer))
      interval == SnInterval(vrUr, ur)
  IN /\ reordering
     /\ vrUr' = ur
     /\ asm' \in Reassemble({asm}, interval, DOMAIN rxBuffer, rxBuffer)
     /\ rxBuffer' = Erase(rxBuffer, Range(interval))
     /\ reordering' = StartReordering(vrUh, ur)
     /\ vrUx' = IF StartReordering(vrUh, ur) THEN vrUh ELSE vrUx
     /\ UNCHANGED <<sent, nextUnit, air, losses, vrUh>>

Next ==
  \/ \E k \in 1..PduUnits : DoNotifyTxOpportunity(k)
  \/ \E x \in air : LosePdu(x) \/ DoReceivePdu(x)
  \/ ExpireReorderingTimer

Spec == Init /\ [][Next]_vars

\* The simulator runs the event of a timer that is not cancelled.
FairSpec == Spec /\ WF_vars(ExpireReorderingTimer)

-----------------------------------------------------------------------------
\* Type correctness: every PDU is buffered under its own sequence number.
RlcTypeOK ==
  /\ sent \in 0..MaxPdu /\ losses \in 0..MaxLoss
  /\ air \subseteq Pdu
  /\ DOMAIN rxBuffer \subseteq SN
  /\ \A sn \in DOMAIN rxBuffer : rxBuffer[sn] \in Pdu /\ rxBuffer[sn].n % Modulus = sn
  /\ {vrUr, vrUx, vrUh} \subseteq SequenceNumber10
  /\ reordering \in BOOLEAN
  /\ asm.state \in {"WAITING_S0_FULL", "WAITING_SI_SF"}
  /\ asm.expected \in SN

\* Reassembly never joins pieces of different SDUs and never passes a part of
\* one to PDCP: whatever is lost, late or out of order, everything delivered is
\* one SDU, complete.
DeliveredWhole ==
  \A i \in DOMAIN asm.up :
    \E s \in Unit : asm.up[i] = [u \in 1..SduUnits |-> s * SduUnits + u - 1]

\* "deliver the reassembled RLC SDUs to upper layer in ascending order of the
\* RLC SN if not delivered before": SDUs go up in the order they were sent in
\* and none goes up twice.
DeliveredInOrder ==
  \A i \in 1..(Len(asm.up) - 1) : asm.up[i][1] < asm.up[i + 1][1]

\* No PDU waits in the reception buffer without a timer that will release it.
BufferedHasTimer == rxBuffer # <<>> => reordering

\* The assertion in SequenceNumber10::operator> holds when t-Reordering expires,
\* the one place that compares numbers without setting their base first.
BasesAgree == reordering => Comparable(vrUr, vrUx) /\ Comparable(vrUr, vrUh)

\* The "INTERNAL ERROR: Transition not possible" cases of ReassembleAndDeliver,
\* the only ones that leave SDU pieces behind, are never reached.
NothingLeftOver == asm.sdusBuffer = <<>>

\* "update VR(UR) to the SN of the first UMD PDU with SN > current VR(UR) that
\* has not been received": the PDU VR(UR) stands for is never in the buffer.
VrUrIsMissing == vrUr.value \notin DOMAIN rxBuffer

\* Whatever is in the reception buffer leaves it in the end.
BufferDrains == rxBuffer # <<>> ~> rxBuffer = <<>>
=============================================================================
