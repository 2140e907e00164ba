--------------------------------- MODULE Crc8 ---------------------------------
(***************************************************************************)
(* The checksum of a frame, protocol/crc8.c of the firmware and            *)
(* crc8_atm() of the supervisor: a shift register that divides by a        *)
(* polynomial.  A byte is the set of the positions of its ones, so that    *)
(* exclusive or is the symmetric difference.                               *)
(***************************************************************************)
EXTENDS Integers, SequencesExt

CONSTANTS Width,      \* bits of a byte (8)
          Polynomial  \* below the leading term (0x07, the positions 0, 1 and 2)

Positions == 0..(Width - 1)

ASSUME Crc8Assumption == Width \in Nat \ {0} /\ Polynomial \subseteq Positions

Xor(a, b) == (a \ b) \cup (b \ a)

Shifted(c) == {i + 1 : i \in c} \ {Width}

\* One turn of the inner loop.
ShiftBit(c) == IF Width - 1 \in c THEN Xor(Shifted(c), Polynomial) ELSE Shifted(c)

\* One turn of the outer loop.
AbsorbByte(crc, byte) ==
  FoldLeft(LAMBDA c, i : ShiftBit(c), Xor(crc, byte), [i \in 1..Width |-> i])

\* crc8_compute()
Checksum(data) == FoldLeft(AbsorbByte, {}, data)

\* A byte as a number, and back.
Ones(n) == {i \in Positions : (n \div 2^i) % 2 = 1}
Number(c) == CHOOSE n \in 0..(2^Width - 1) : Ones(n) = c
=============================================================================
