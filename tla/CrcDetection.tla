---------------------------- MODULE CrcDetection ----------------------------
(***************************************************************************)
(* What the checksum promises, as assumptions on it that are evaluated,    *)
(* not taken on trust.                                                     *)
(***************************************************************************)
EXTENDS Crc8

CONSTANTS MaxData  \* bytes the checksum covers at most (4 + PROTOCOL_MAX_PAYLOAD)

\* n bytes of data and their checksum as one polynomial, the set of its exponents;
\* the checksum is its last byte.
Exponents(n) == 0..(Width * (n + 1) - 1)
ByteOf(w, n, k) == {i \in Positions : Width * (n + 1 - k) + i \in w}
Data(w, n) == [k \in 1..n |-> ByteOf(w, n, k)]
Valid(w, n) == Checksum(Data(w, n)) = ByteOf(w, n, n + 1)

\* The product of a polynomial with the generator.
Generator == Polynomial \cup {Width}
Multiple(q) == FoldSet(LAMBDA i, w : Xor({i + j : j \in Generator}, w), {}, q)

(* The checksum is the remainder of a division by the generator: what is    *)
(* valid is exactly what it divides.  (Every checksum has one valid word,   *)
(* so it is enough that the multiples are valid.)                           *)
ASSUME ChecksumIsRemainder ==
  \A q \in SUBSET (0..(Width + 1)) : Valid(Multiple(q), 2)

(* It computes the frames of docs/protocol/uart_binary_protocol.md:257-260. *)
ASSUME DocumentedFrames ==
  Width = 8 =>
    \A f \in {<<1, 1, \h10, 0, \h2A>>, <<1, \h81, \h10, 0, \h21>>,
              <<1, 2, \h20, 4, \h11, \h22, \h33, \h44, \hE7>>,
              <<1, \h90, \h20, 4, \h11, \h22, \h33, \h44, \h07>>} :
      Checksum([k \in 1..(Len(f) - 1) |-> Ones(f[k])]) = Ones(Last(f))

(* No frame hides one or two flipped bits, or a burst no longer than a      *)
(* byte.  Checksums add up under exclusive or (ProtocolProofs, for every turn   *)
(* of the register), so a change goes unnoticed exactly if it, taken for a  *)
(* frame, is valid.                                                         *)
ASSUME DamageIsNoticed ==
  LET E == Exponents(MaxData)
      Pairs == {{i, j} : i, j \in E}
      Bursts == {{i + j : j \in p} : i \in E, p \in {p \in SUBSET Positions : 0 \in p}}
  IN \A w \in Pairs \cup {b \in Bursts : b \subseteq E} : ~Valid(w, MaxData)
=============================================================================
