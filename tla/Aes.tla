-------------------------------- MODULE Aes --------------------------------
(***************************************************************************)
(* The tables, key schedules and rounds of VFSCryptLib, as functions.      *)
(*                                                                         *)
(* A 32-bit word is the tuple of its bytes, the most significant first, as *)
(* get_word and put_word have them: a shift and a mask select a byte.  An  *)
(* entry of a substitution table is the byte that the code stores four     *)
(* times over.                                                             *)
(***************************************************************************)
EXTENDS Bytes, SequencesExt

-----------------------------------------------------------------------------
(* The tables *)

\* x_time, with the mask its callers put over it.
XTime(b) == ((2 * b) % 256) ++ (IF b >= 128 THEN 27 ELSE 0)

\* The powers of 3, in rows of sixteen, and the last exponent of each.
Three(x) == x ++ XTime(x)
Sixteen == [x \in Byte |-> Iterate(LAMBDA t, i : Append(t, Three(Last(t))), <<x>>, 15)]
Power ==
  LET row[j \in 0 .. 15] == Sixteen[IF j = 0 THEN 1 ELSE Three(Last(row[j - 1]))] IN
    [n \in 0 .. 255 |-> row[n \div 16][(n % 16) + 1]]
Logarithm ==
  [b \in 1 .. 255 |->
     CHOOSE n \in 0 .. 255 : Power[n] = b /\ \A m \in n + 1 .. 255 : Power[m] # b]

MulValue(x, y) ==
  IF x # 0 /\ y # 0 THEN Power[(Logarithm[x] + Logarithm[y]) % 255] ELSE 0

RotateLeft(b) == ((2 * b) % 256) + (b \div 128)

RconValues == Iterate(LAMBDA t, i : Append(t, XTime(t[i])), <<1>>, 9)

Substitution(b) ==
  LET x == Power[255 - Logarithm[b]]
      y1 == RotateLeft(x)
      y2 == RotateLeft(y1)
      y3 == RotateLeft(y2)
      y4 == RotateLeft(y3)
  IN IF b = 0 THEN 99 ELSE x ++ y1 ++ y2 ++ y3 ++ y4 ++ 99
SBoxValues == [b \in Byte |-> Substitution(b)]
InverseValues == [b \in Byte |-> CHOOSE c \in Byte : SBoxValues[c] = b]

\* table_e0 to table_e3 and table_d0 to table_d3.
TableE ==
  [b \in Byte |->
     LET x == SBoxValues[b]
         y == XTime(x)
         z == y ++ x
     IN <<<<y, x, x, z>>, <<z, y, x, x>>, <<x, z, y, x>>, <<x, x, z, y>>>>]
TableD ==
  [b \in Byte |->
     LET x == InverseValues[b]
         a == MulValue(14, x)
         n == MulValue(9, x)
         c == MulValue(13, x)
         d == MulValue(11, x)
     IN <<<<a, n, c, d>>, <<d, a, n, c>>, <<c, d, a, n>>, <<n, c, d, a>>>>]

\* The static tables once the loops in done, of those that AesTables names,
\* have run: until then they hold zeros, as static storage does.
Tables(done) ==
  [rcon |-> IF "rcon" \in done THEN RconValues ELSE [i \in 1 .. 10 |-> 0],
   sbox |-> IF "sbox" \in done THEN SBoxValues ELSE [b \in Byte |-> 0],
   inverse |-> IF "sbox" \in done THEN InverseValues ELSE [b \in Byte |-> 0],
   e |-> IF "mix" \in done THEN TableE ELSE [b \in Byte |-> Four(LAMBDA j : <<0, 0, 0, 0>>)],
   d |-> IF "mix" \in done THEN TableD ELSE [b \in Byte |-> Four(LAMBDA j : <<0, 0, 0, 0>>)]]

-----------------------------------------------------------------------------
(* The key schedules *)

\* The word that starts a turn of each loop, and the one in the middle of a
\* turn for a 256-bit key.
Start(t, temp, turn) ==
  <<t.sbox[temp[2]] ++ t.rcon[turn], t.sbox[temp[3]], t.sbox[temp[4]], t.sbox[temp[1]]>>
Middle(t, temp) == Four(LAMBDA r : t.sbox[temp[r]])

\* The n words, 4 or 6, that follow the last nk ones: the first is changed by
\* first, each of the others by the one before it.
Chain(w, nk, n, first) ==
  LET old(i) == w[Len(w) - nk + i]
      w1 == old(1) ## first
      w2 == old(2) ## w1
      w3 == old(3) ## w2
      w4 == old(4) ## w3
      w5 == old(5) ## w4
      w6 == old(6) ## w5
  IN w \o (IF n = 4 THEN <<w1, w2, w3, w4>> ELSE <<w1, w2, w3, w4, w5, w6>>)

ExtractEncryptKey128(t, key) ==
  Iterate(LAMBDA w, turn : Chain(w, 4, 4, Start(t, Last(w), turn)), key, 10)

ExtractEncryptKey192(t, key) ==
  Iterate(LAMBDA w, turn : Chain(w, 6, IF turn = 8 THEN 4 ELSE 6, Start(t, Last(w), turn)),
          key, 8)

ExtractEncryptKey256(t, key) ==
  LET more(w, turn) ==
        LET v == Chain(w, 8, 4, Start(t, Last(w), turn)) IN
          IF turn = 7 THEN v ELSE Chain(v, 8, 4, Middle(t, Last(v)))
  IN Iterate(more, key, 7)

\* The round keys in the opposite order; all but the outer ones go through
\* the decrypt tables, behind the substitution that those tables undo.
ExtractDecryptKey(t, w, rounds) ==
  LET turned == [i \in 1 .. 4 * (rounds + 1) |-> w[4 * (rounds - (i - 1) \div 4) + ((i - 1) % 4) + 1]]
      mixed(v) == t.d[t.sbox[v[1]]][1] ## t.d[t.sbox[v[2]]][2]
                  ## t.d[t.sbox[v[3]]][3] ## t.d[t.sbox[v[4]]][4]
  IN [i \in DOMAIN turned |->
        IF 4 < i /\ i <= 4 * rounds THEN mixed(turned[i]) ELSE turned[i]]

-----------------------------------------------------------------------------
(* The rounds: word i of the next state takes byte r of word i + (r - 1) to *)
(* encrypt, of word i - (r - 1) to decrypt                                  *)

Rounds == 14

At(s, i) == s[((i - 1) % 4) + 1]

BugEncryptRound(t, s, k) ==
  Four(LAMBDA i :
     t.e[s[i][1]][1] ## t.e[At(s, i + 3)[2]][2] ## t.e[At(s, i + 2)[3]][3]
       ## t.e[At(s, i + 1)[4]][4] ## k[i])
EncryptRound(t, s, k) ==
  Four(LAMBDA i :
     t.e[s[i][1]][1] ## t.e[At(s, i + 1)[2]][2] ## t.e[At(s, i + 2)[3]][3]
       ## t.e[At(s, i + 3)[4]][4] ## k[i])
DecryptRound(t, s, k) ==
  Four(LAMBDA i :
     t.d[s[i][1]][1] ## t.d[At(s, i + 3)[2]][2] ## t.d[At(s, i + 2)[3]][3]
       ## t.d[At(s, i + 1)[4]][4] ## k[i])

EncryptLast(t, s, k) ==
  Four(LAMBDA i : Four(LAMBDA r : t.sbox[At(s, i + r - 1)[r]] ++ k[i][r]))
DecryptLast(t, s, k) ==
  Four(LAMBDA i : Four(LAMBDA r : t.inverse[At(s, i + 5 - r)[r]] ++ k[i][r]))

KeyOf(w, r) == SubSeq(w, 4 * r + 1, 4 * r + 4)
Mixed(s, k) == Four(LAMBDA i : s[i] ## k[i])

\* process_chunk of the two ciphers: the block that goes out.  What comes in
\* or out encrypted is the next vector.
EncryptChunk(t, w, iv, chunk) ==
  EncryptLast(t, Iterate(LAMBDA s, r : EncryptRound(t, s, KeyOf(w, r)),
                         Mixed(Mixed(iv, chunk), KeyOf(w, 0)), Rounds - 1),
              KeyOf(w, Rounds))
DecryptChunk(t, w, iv, chunk) ==
  Mixed(DecryptLast(t, Iterate(LAMBDA s, r : DecryptRound(t, s, KeyOf(w, r)),
                               Mixed(chunk, KeyOf(w, 0)), Rounds - 1),
                    KeyOf(w, Rounds)),
        iv)
=============================================================================
