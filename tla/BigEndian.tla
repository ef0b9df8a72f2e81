----------------------------- MODULE BigEndian -----------------------------
(***************************************************************************)
(* Unsigned integers as byte strings, most significant byte first, and     *)
(* their conversion from and to signed integers of the same width. A byte  *)
(* is a number below Base: 256 in the program, less for TLC, whose         *)
(* integers have 32 bits.                                                  *)
(***************************************************************************)
EXTENDS Integers, Sequences, FiniteSetsExt

CONSTANT Base

ASSUME BaseAssumption == Base \in Nat \ {0, 1}

\* What Naturals says of the powers of Base. It is stated because the provers
\* know nothing of ^.
ASSUME PowersAssumption ==
  Base^0 = 1 /\ \A k \in 0 .. 7 : Base^(k + 1) = Base * Base^k

Byte == 0 .. Base - 1

\* The integers that fit into w bytes
Uint(w) == 0 .. Base^w - 1

Encode(w, v) == [i \in 1 .. w |-> (v \div Base^(w - i)) % Base]

Decode(s) ==
  MapThenSumSet(LAMBDA i : s[i] * Base^(Len(s) - i), DOMAIN s)

\* The conversions of C++ between int and unsigned int, of w bytes
ToUnsigned(w, i) == i % Base^w
ToSigned(w, u) == IF 2 * u < Base^w THEN u ELSE u - Base^w
=============================================================================
