---------------------------- MODULE MCAesStream ----------------------------
(***************************************************************************)
(* AesStream with blocks of 2 bytes of 2 bits and a toy cipher that        *)
(* reverses the block and mixes the key in.                                *)
(***************************************************************************)
EXTENDS AesStream

MCByte == 0 .. 3
MCIv == <<1, 2>>
MCXor(x, y) ==
  2 * (((x \div 2) + (y \div 2)) % 2) + ((x + y) % 2)
MCE(k, b) == [j \in 1 .. Block |-> MCXor(b[(Block + 1) - j], k)]
MCD(k, b) == [j \in 1 .. Block |-> MCXor(b[(Block + 1) - j], k)]
=============================================================================
