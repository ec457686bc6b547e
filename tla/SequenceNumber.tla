--------------------------- MODULE SequenceNumber ---------------------------
(***************************************************************************)
(* SequenceNumber10: a sequence number modulo Modulus (1024 in the code)   *)
(* that carries the base its comparisons are relative to.                  *)
(***************************************************************************)
EXTENDS Integers

CONSTANT Modulus

ASSUME ModulusAssumption == Modulus \in Nat \ {0}

SN == 0..(Modulus - 1)
SequenceNumber10 == [value : SN, base : SN]

Sn(v, b) == [value |-> v % Modulus, base |-> b]

SetModulusBase(a, b) == [a EXCEPT !.base = b.value]

\* Mutant: the addition does not wrap around.
PlusUnbounded(a, delta) == [a EXCEPT !.value = @ + delta]

\* a + delta, a - delta and a++ keep the base of a.
Plus(a, delta) == [a EXCEPT !.value = (@ + delta) % Modulus]
Minus(a, delta) == [a EXCEPT !.value = (@ - delta) % Modulus]

\* The code's (m_value - m_modulusBase) % 1024 is negative below the base and
\* becomes 65536 - k in a uint16_t: above every number at or over the base, in
\* the same order as the distance computed here.
Distance(a) == (a.value - a.base) % Modulus

Greater(a, b) == Distance(a) > Distance(b)
LessEq(a, b) == ~Greater(a, b)
Less(a, b) == ~Greater(a, b) /\ a.value # b.value

\* operator> asserts this: comparing across two bases means nothing.
Comparable(a, b) == a.base = b.base
=============================================================================
