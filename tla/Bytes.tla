------------------------------- MODULE Bytes -------------------------------
(***************************************************************************)
(* Bytes, words of four bytes and their exclusive or, which is the sum in  *)
(* GF(2^8).                                                                *)
(***************************************************************************)
EXTENDS Integers, Sequences

Byte == 0 .. 255

\* Bit n of a byte, the least significant being bit 0.
Bit(b, n) == (b \div <<1, 2, 4, 8, 16, 32, 64, 128>>[n + 1]) % 2

NibbleXor ==
  [a \in 0 .. 15 |-> [b \in 0 .. 15 |->
     LET d(n) == (Bit(a, n) + Bit(b, n)) % 2 IN d(0) + 2 * d(1) + 4 * d(2) + 8 * d(3)]]
ByteXor ==
  [a \in Byte |-> [b \in Byte |->
     16 * NibbleXor[a \div 16][b \div 16] + NibbleXor[a % 16][b % 16]]]

\* The tuple of four whose i-th element is f(i).
Four(f(_)) == <<f(1), f(2), f(3), f(4)>>

\* Of two bytes, and of two words byte by byte.
a ++ b == ByteXor[a][b]
v ## w == Four(LAMBDA r : v[r] ++ w[r])

\* f(... f(f(x, 1), 2) ..., n).  A singleton binds what is reached, for TLC to
\* compute it once.
Iterate(f(_, _), x, n) ==
  LET after[i \in 0 .. n] ==
        IF i = 0 THEN x
        ELSE CHOOSE y \in {f(z, i) : z \in {after[i - 1]}} : TRUE
  IN after[n]
=============================================================================
