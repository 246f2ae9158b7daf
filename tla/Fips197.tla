------------------------------ MODULE Fips197 ------------------------------
(***************************************************************************)
(* The cipher of FIPS-197 as the standard defines it, by arithmetic in     *)
(* GF(2^8), on a state of four columns of four bytes: what the tables and  *)
(* the unrolled rounds of VFSCryptLib are to compute.  Nothing here comes  *)
(* from the code.                                                          *)
(***************************************************************************)
EXTENDS Bytes, SequencesExt

\* Multiplication by x, and by a byte, modulo x^8 + x^4 + x^3 + x + 1.
Double(b) == ((2 * b) % 256) ++ (IF b >= 128 THEN 27 ELSE 0)
Doubles ==
  [b \in Byte |-> Iterate(LAMBDA t, i : Append(t, Double(t[i])), <<b>>, 9)]
Times(a, b) ==
  LET term(n) == IF Bit(a, n) = 1 THEN Doubles[b][n + 1] ELSE 0 IN
    term(0) ++ term(1) ++ term(2) ++ term(3) ++ term(4) ++ term(5) ++ term(6) ++ term(7)

-----------------------------------------------------------------------------
(* The substitution *)

Reciprocal(b) == IF b = 0 THEN 0 ELSE CHOOSE c \in Byte : Times(c, b) = 1

Affine(b) ==
  LET bit(n) == (Bit(b, n) + Bit(b, (n + 4) % 8) + Bit(b, (n + 5) % 8)
                 + Bit(b, (n + 6) % 8) + Bit(b, (n + 7) % 8) + Bit(99, n)) % 2
  IN bit(0) + 2 * bit(1) + 4 * bit(2) + 8 * bit(3)
     + 16 * bit(4) + 32 * bit(5) + 64 * bit(6) + 128 * bit(7)

SBox == [b \in Byte |-> Affine(Reciprocal(b))]
InvSBox == [b \in Byte |-> CHOOSE c \in Byte : SBox[c] = b]

SubWord(w) == Four(LAMBDA r : SBox[w[r]])
RotWord(w) == <<w[2], w[3], w[4], w[1]>>

-----------------------------------------------------------------------------
(* The key expansion: nk words of key, 4 * (nr + 1) words of round keys *)

Rcon(i) == <<Doubles[1][i], 0, 0, 0>>

KeyExpansion(key, nr) ==
  LET nk == Len(key)
      more(w, i) ==
        LET temp == w[i]
            mixed == IF i % nk = 0 THEN SubWord(RotWord(temp)) ## Rcon(i \div nk)
                     ELSE IF nk > 6 /\ i % nk = 4 THEN SubWord(temp) ELSE temp
        IN Append(w, w[i + 1 - nk] ## mixed)
  IN Iterate(LAMBDA w, j : more(w, nk + j - 1), key, 4 * (nr + 1) - nk)

RoundKey(w, r) == SubSeq(w, 4 * r + 1, 4 * r + 4)

-----------------------------------------------------------------------------
(* The cipher and its inverse *)

AddRoundKey(s, k) == Four(LAMBDA c : s[c] ## k[c])
Column(c) == ((c - 1) % 4) + 1

SubBytes(s) == Four(LAMBDA c : Four(LAMBDA r : SBox[s[c][r]]))
InvSubBytes(s) == Four(LAMBDA c : Four(LAMBDA r : InvSBox[s[c][r]]))

ShiftRows(s) == Four(LAMBDA c : Four(LAMBDA r : s[Column(c + r - 1)][r]))
InvShiftRows(s) == Four(LAMBDA c : Four(LAMBDA r : s[Column(c + 5 - r)][r]))

\* A column times the circulant matrix whose first row is m.
Circulant(m, w) ==
  Four(LAMBDA r :
     Times(m[1], w[r]) ++ Times(m[2], w[Column(r + 1)])
       ++ Times(m[3], w[Column(r + 2)]) ++ Times(m[4], w[Column(r + 3)]))
MixColumn(w) == Circulant(<<2, 3, 1, 1>>, w)
InvMixColumn(w) == Circulant(<<14, 11, 13, 9>>, w)
MixColumns(s) == Four(LAMBDA c : MixColumn(s[c]))
InvMixColumns(s) == Four(LAMBDA c : InvMixColumn(s[c]))

Cipher(in, w, nr) ==
  LET round(s, r) == AddRoundKey(MixColumns(ShiftRows(SubBytes(s))), RoundKey(w, r))
      last == Iterate(round, AddRoundKey(in, RoundKey(w, 0)), nr - 1)
  IN AddRoundKey(ShiftRows(SubBytes(last)), RoundKey(w, nr))

InvCipher(in, w, nr) ==
  LET round(s, r) ==
        InvMixColumns(AddRoundKey(InvSubBytes(InvShiftRows(s)), RoundKey(w, nr - r)))
      last == Iterate(round, AddRoundKey(in, RoundKey(w, nr)), nr - 1)
  IN AddRoundKey(InvSubBytes(InvShiftRows(last)), RoundKey(w, 0))
=============================================================================
