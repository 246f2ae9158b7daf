--------------------------- MODULE SealedArchiver ---------------------------
(***************************************************************************)
(* The archiver together with the cipher its tasks use: what the tables,   *)
(* as the tasks have filled them, compute, against FIPS-197.               *)
(***************************************************************************)
EXTENDS Archiver, Aes, Fips197

CONSTANTS
  Sample,  \* words: keys and blocks are made of runs of them
  Iv       \* ARCHIVE_IV

Word == [1 .. 4 -> Byte]
State == [1 .. 4 -> Word]

ASSUME SampleAssumption == Sample \in Seq(Word) /\ Iv \in State

SampleOf(n) == {SubSeq(Sample, i, i + n - 1) : i \in 1 .. Len(Sample) - n + 1}

Zero == Four(LAMBDA i : <<0, 0, 0, 0>>)

\* The column that holds b in place j and zeros otherwise.
Alone(j, b) == [r \in 1 .. 4 |-> IF r = j THEN b ELSE 0]

\* The combined tables hold what one byte of a column contributes to the
\* column that a round makes of it.
RoundTables(t) ==
  \A b \in Byte, j \in 1 .. 4 :
    /\ t.e[b][j] = MixColumn(Alone(j, SBox[b]))
    /\ t.d[b][j] = InvMixColumn(Alone(j, InvSBox[b]))

\* What the tables are to hold.
Hold(t) ==
  /\ t.sbox = SBox /\ t.inverse = InvSBox /\ RoundTables(t)
  /\ \A i \in 1 .. 10 : t.rcon[i] = Doubles[1][i]

\* Facts about single bytes, which are evaluated and not proved: the products
\* by a power of x distribute over the sum, the substitution and the mixing of
\* a column can be undone, and the finished tables hold what the standard says.
ASSUME FieldAssumption ==
  \A a, b \in Byte, n \in 1 .. 10 :
    Doubles[a][n] \in Byte /\ Doubles[a ++ b][n] = Doubles[a][n] ++ Doubles[b][n]
ASSUME BoxAssumption ==
  \A b \in Byte : SBox[b] \in Byte /\ InvSBox[b] \in Byte /\ InvSBox[SBox[b]] = b
ASSUME ColumnAssumption ==
  \A b \in Byte, j \in 1 .. 4 : InvMixColumn(MixColumn(Alone(j, b))) = Alone(j, b)
ASSUME TablesAssumption == Hold(Tables(Loop))

KeySchedules(t) ==
  /\ \A key \in SampleOf(4) : ExtractEncryptKey128(t, key) = KeyExpansion(key, 10)
  /\ \A key \in SampleOf(6) : ExtractEncryptKey192(t, key) = KeyExpansion(key, 12)
  /\ \A key \in SampleOf(8) : ExtractEncryptKey256(t, key) = KeyExpansion(key, 14)

\* process_chunk is the cipher, of the block that chaining makes of it.
Blocks(t) ==
  \A key \in SampleOf(8) :
    \A w \in {ExtractEncryptKey256(t, key)} :
      \A u \in {ExtractDecryptKey(t, w, Rounds)}, block \in SampleOf(4), iv \in {Zero, Iv} :
        /\ EncryptChunk(t, w, iv, block) = Cipher(AddRoundKey(iv, block), w, Rounds)
        /\ DecryptChunk(t, u, iv, block) = AddRoundKey(iv, InvCipher(block, w, Rounds))

FollowsFips(t) ==
  /\ t.sbox = SBox /\ t.inverse = InvSBox
  /\ RoundTables(t) /\ KeySchedules(t) /\ Blocks(t)

\* For every set of loops, whether the tables they make do.
Verdict == {<<done, FollowsFips(Tables(done))>> : done \in SUBSET {"rcon", "sbox", "mix"}}

\* What a task encrypts is what FIPS-197 says, and decryption undoes it: the
\* tables, the three key schedules, and the unrolled rounds of process_chunk,
\* with the tables as they stand when a constructor has returned.
CipherIsFips == \A g \in Group : at[g] = "ready" => <<filled, TRUE>> \in Verdict
=============================================================================
