-------------------------------- MODULE MCUart --------------------------------
(* Two rings of four slots.  Blocks of one, two, three and four bytes: every  *)
(* fill level and wrap position, the largest block that can fit and one that *)
(* never does.  The overflow count saturates at two: the receive ring fills  *)
(* from every wrap position and the count is pushed past its limit.          *)
EXTENDS Uart
MCBlocks == {<<"x">>, <<"x", "y">>, <<"y", "x", "x">>, <<"x", "x", "x", "y">>}
=============================================================================
