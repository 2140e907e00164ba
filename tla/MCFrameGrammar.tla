---------------------------- MODULE MCFrameGrammar ----------------------------
(* Four byte values that stand for everything at once: 1 is the version, the *)
(* only payload length and a datum, 2 is a length too long, 3 is SOF.  With  *)
(* streams of eight symbols a frame can follow a dropped candidate.          *)
(*                                                                           *)
(* The checksum of the parser is that of Crc8 for bytes of two bits; what    *)
(* CrcDetection assumes is evaluated for the real one.                       *)
EXTENDS FrameGrammar, CrcDetection

Narrow == INSTANCE Crc8 WITH Width <- 2, Polynomial <- {0, 1}

Checked(t, s, p) == <<Version, t, s, Len(p)>> \o p
Table ==
  [f \in {Checked(t, s, p) : t, s \in Byte, p \in Payload} |->
     Narrow!Number(Narrow!Checksum([k \in DOMAIN f |-> Narrow!Ones(f[k])]))]
MCCrc(t, s, p) == Table[Checked(t, s, p)]
=============================================================================
