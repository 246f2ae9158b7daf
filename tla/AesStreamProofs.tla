-------------------------- MODULE AesStreamProofs --------------------------
(***************************************************************************)
(* Proofs about AesStream, for every block size, byte, cipher and message: *)
(* the types and the room in the chunk; then what the encrypting object's  *)
(* buffer is worth (EncText) and what the decrypting one has undone of it  *)
(* (DecText), which give SplitFree, ShortFails and RoundTrip.              *)
(***************************************************************************)
EXTENDS AesStream, SequenceTheorems, TLAPS

\* A block of bytes is a sequence of that length, and the other way round.
LEMMA BlockIsSeq ==
  ASSUME NEW c \in Chunk
  PROVE  c \in Seq(Byte) /\ Len(c) = Block
<1>1. c = [j \in 1 .. Block |-> c[j]]
  BY DEF Chunk
<1>2. \A j \in 1 .. Block : c[j] \in Byte
  BY DEF Chunk
<1>3. Block \in Nat
  BY ShapeAssumption
<1> QED
  BY <1>1, <1>2, <1>3, IsASeq

LEMMA SeqIsBlock ==
  ASSUME NEW s \in Seq(Byte), Len(s) = Block
  PROVE  s \in Chunk
BY LenProperties DEF Chunk

LEMMA XorBlockType ==
  ASSUME NEW a \in Chunk, NEW b \in Chunk
  PROVE  XorBlock(a, b) \in Chunk
BY CipherAssumption DEF Chunk, XorBlock

LEMMA LeastProperties ==
  ASSUME NEW a \in Nat, NEW b \in Nat, NEW c \in Nat, a <= b
  PROVE  Least(b - a, c) \in 0 .. c /\ a + Least(b - a, c) <= b
BY DEF Least

\* One turn of the loop: the chunk grows up to a block by what leaves the data.
LEMMA FilledProperties ==
  ASSUME NEW o \in Object, Len(o.chunk) <= Block
  PROVE  LET f == Filled(o) IN
           /\ f \in Object
           /\ f.out = o.out /\ f.key = o.key /\ f.iv = o.iv
           /\ f.calculated = o.calculated
           /\ Len(f.chunk) + Len(f.in) = Len(o.chunk) + Len(o.in)
           /\ Len(f.chunk) <= Block
<1> DEFINE n == Least(Block - Len(o.chunk), Len(o.in))
<1>1. o.chunk \in Seq(Byte) /\ o.in \in Seq(Byte)
  BY DEF Object
<1>2. Len(o.chunk) \in Nat /\ Len(o.in) \in Nat /\ Block \in Nat
  BY <1>1, LenProperties, ShapeAssumption
<1>3. n \in 0 .. Len(o.in) /\ Len(o.chunk) + n <= Block
  BY <1>2, LeastProperties
<1>4. \A i \in 1 .. Len(o.in) : o.in[i] \in Byte
  BY <1>1, ElementOfSeq
<1> HIDE DEF n
<1>5. SubSeq(o.in, 1, n) \in Seq(Byte) /\ Len(SubSeq(o.in, 1, n)) = n
  BY <1>2, <1>3, <1>4, SubSeqProperties
<1>6. /\ SubSeq(o.in, n + 1, Len(o.in)) \in Seq(Byte)
      /\ Len(SubSeq(o.in, n + 1, Len(o.in))) = Len(o.in) - n
  BY <1>2, <1>3, <1>4, SubSeqProperties
<1>7. /\ o.chunk \o SubSeq(o.in, 1, n) \in Seq(Byte)
      /\ Len(o.chunk \o SubSeq(o.in, 1, n)) = Len(o.chunk) + n
  BY <1>1, <1>5, ConcatProperties
<1>8. Filled(o) = [o EXCEPT !.chunk = o.chunk \o SubSeq(o.in, 1, n),
                            !.in = SubSeq(o.in, n + 1, Len(o.in))]
  BY DEF Filled, n
<1>9. /\ Filled(o) \in Object
      /\ Filled(o).out = o.out /\ Filled(o).key = o.key /\ Filled(o).iv = o.iv
      /\ Filled(o).calculated = o.calculated
      /\ Filled(o).chunk = o.chunk \o SubSeq(o.in, 1, n)
      /\ Filled(o).in = SubSeq(o.in, n + 1, Len(o.in))
  BY <1>6, <1>7, <1>8 DEF Object
<1>10. /\ Len(Filled(o).chunk) = Len(o.chunk) + n
       /\ Len(Filled(o).in) = Len(o.in) - n
  BY <1>6, <1>7, <1>9
<1>11. (Len(o.chunk) + n) + (Len(o.in) - n) = Len(o.chunk) + Len(o.in)
  <2>1. \A a, b \in Nat, m \in Int : (a + m) + (b - m) = a + b
    OBVIOUS
  <2>2. n \in Int
    BY <1>2, <1>3
  <2> QED
    BY <1>2, <2>1, <2>2
<1>12. Len(Filled(o).chunk) + Len(Filled(o).in) = Len(o.chunk) + Len(o.in)
  BY <1>10, <1>11
<1>13. Len(Filled(o).chunk) <= Block
  BY <1>3, <1>10
<1> QED
  BY <1>9, <1>12, <1>13

\* A full chunk is encrypted into one more block of the buffer ...
LEMMA EncryptChunkProperties ==
  ASSUME NEW o \in Object, Len(o.chunk) = Block, o.key # None
  PROVE  LET f == EncryptChunk(o) IN
           /\ f \in Object
           /\ f.chunk = <<>> /\ f.in = o.in /\ f.key = o.key
           /\ f.calculated = o.calculated
           /\ Len(f.out) = Len(o.out) + Block
<1> DEFINE c == E(o.key, XorBlock(o.iv, o.chunk))
<1>1. o.chunk \in Chunk /\ o.iv \in Chunk /\ o.key \in Key
  BY SeqIsBlock DEF Object
<1>2. c \in Chunk
  BY <1>1, XorBlockType, CipherAssumption
<1> HIDE DEF c
<1>3. o.out \in Seq(Byte) /\ c \in Seq(Byte) /\ Len(c) = Block
  BY <1>2, BlockIsSeq DEF Object
<1>4. o.out \o c \in Seq(Byte) /\ Len(o.out \o c) = Len(o.out) + Block
  BY <1>3
<1>5. EncryptChunk(o) =
        [o EXCEPT !.chunk = <<>>, !.out = o.out \o c, !.iv = c]
  BY DEF EncryptChunk, c
<1>6. << >> \in Seq(Byte)
  BY EmptySeq
<1> QED
  BY <1>2, <1>4, <1>5, <1>6 DEF Object

\* ... and decrypted into one.
LEMMA DecryptChunkProperties ==
  ASSUME NEW o \in Object, Len(o.chunk) = Block, o.key # None
  PROVE  LET f == DecryptChunk(o) IN
           /\ f \in Object
           /\ f.chunk = <<>> /\ f.in = o.in /\ f.key = o.key
           /\ f.calculated = o.calculated
           /\ Len(f.out) = Len(o.out) + Block
<1> DEFINE c == XorBlock(o.iv, D(o.key, o.chunk))
<1>1. o.chunk \in Chunk /\ o.iv \in Chunk /\ o.key \in Key
  BY SeqIsBlock DEF Object
<1>2. c \in Chunk
  BY <1>1, XorBlockType, CipherAssumption
<1> HIDE DEF c
<1>3. o.out \in Seq(Byte) /\ c \in Seq(Byte) /\ Len(c) = Block
  BY <1>2, BlockIsSeq DEF Object
<1>4. o.out \o c \in Seq(Byte) /\ Len(o.out \o c) = Len(o.out) + Block
  BY <1>3
<1>5. DecryptChunk(o) =
        [o EXCEPT !.chunk = <<>>, !.out = o.out \o c, !.iv = o.chunk]
  BY DEF DecryptChunk, c
<1>6. << >> \in Seq(Byte)
  BY EmptySeq
<1> QED
  BY <1>1, <1>4, <1>5, <1>6 DEF Object

LEMMA ResetProperties ==
  ASSUME NEW o \in Object
  PROVE  LET r == Reset(o) IN
           /\ r \in Object
           /\ r.in = o.in /\ r.key = o.key /\ r.iv = o.iv /\ ~r.calculated
           /\ o.calculated => r.chunk = <<>> /\ r.out = <<>>
           /\ ~o.calculated => r = o
<1>1. << >> \in Seq(Byte)
  BY EmptySeq
<1>2. CASE o.calculated
  BY <1>1, <1>2 DEF Reset, Object
<1>3. CASE ~o.calculated
  BY <1>3 DEF Reset, Object
<1> QED
  BY <1>2, <1>3

\* The lengths ChunkHasRoom speaks of stay whole blocks.
LEMMA WholeBlocksGrow ==
  ASSUME NEW n \in Nat, WholeBlocks(n)
  PROVE  WholeBlocks(n + Block)
<1>1. Block \in Nat \ {0}
  BY ShapeAssumption
<1>2. PICK q \in 0 .. n : n = q * Block
  BY DEF WholeBlocks
<1>3. n + Block = (q + 1) * Block /\ q + 1 \in 0 .. n + Block
  BY <1>1, <1>2
<1> QED
  BY <1>3 DEF WholeBlocks

LEMMA NoBlocks == WholeBlocks(0)
<1>1. 0 = 0 * Block
  BY ShapeAssumption
<1> QED
  BY <1>1 DEF WholeBlocks

\* One turn of the encrypting loop.
LEMMA EncTurnProperties ==
  ASSUME NEW o \in Object, Len(o.chunk) < Block, o.key # None,
         WholeBlocks(Len(o.out))
  PROVE  LET f == EncTurn(o) IN
           /\ f \in Object /\ f.key = o.key /\ f.calculated = o.calculated
           /\ Len(f.chunk) < Block /\ WholeBlocks(Len(f.out))
           /\ Len(f.out) + Len(f.chunk) + Len(f.in)
                = Len(o.out) + Len(o.chunk) + Len(o.in)
<1> DEFINE f == Filled(o)
<1>1. Block \in Nat /\ Len(o.chunk) \in Nat /\ Len(o.in) \in Nat
      /\ Len(o.out) \in Nat
  BY ShapeAssumption, LenProperties DEF Object
<1>a. Len(o.chunk) <= Block
  BY <1>1
<1>2. /\ f \in Object
      /\ f.out = o.out /\ f.key = o.key /\ f.calculated = o.calculated
      /\ Len(f.chunk) + Len(f.in) = Len(o.chunk) + Len(o.in)
      /\ Len(f.chunk) <= Block
  BY <1>a, FilledProperties
<1> HIDE DEF f
<1>3. Len(f.chunk) \in Nat /\ Len(f.in) \in Nat
  BY <1>2, LenProperties DEF Object
<1>5. Len(o.out) + Len(f.chunk) + Len(f.in)
        = Len(o.out) + Len(o.chunk) + Len(o.in)
  <2>1. PICK i \in Nat, j \in Nat, k \in Nat, l \in Nat, m \in Nat :
          /\ i = Len(o.out) /\ j = Len(f.chunk) /\ k = Len(f.in)
          /\ l = Len(o.chunk) /\ m = Len(o.in)
    BY <1>1, <1>3
  <2>2. j + k = l + m
    BY <1>2, <2>1
  <2>3. i + j + k = i + l + m
    BY <2>2
  <2> QED
    BY <2>1, <2>3
<1>6. CASE Len(f.chunk) = Block
  <2> DEFINE g == EncryptChunk(f)
  <2>1. /\ g \in Object
        /\ g.chunk = <<>> /\ g.in = f.in /\ g.key = f.key
        /\ g.calculated = f.calculated /\ Len(g.out) = Len(f.out) + Block
    BY <1>2, <1>6, EncryptChunkProperties
  <2>2. EncTurn(o) = g
    BY <1>6 DEF EncTurn, f
  <2> HIDE DEF g
  <2>3. Len(g.chunk) = 0
    BY <2>1, EmptySeq
  <2>4. \A a, b, c \in Nat : (a + b) + 0 + c = a + b + c
    OBVIOUS
  <2>5. Len(g.out) + Len(g.chunk) + Len(g.in)
          = Len(o.out) + Len(f.chunk) + Len(f.in)
    BY <1>1, <1>2, <1>3, <1>6, <2>1, <2>3, <2>4
  <2>6. WholeBlocks(Len(g.out))
    BY <1>1, <1>2, <2>1, WholeBlocksGrow
  <2>7. Len(g.chunk) < Block
    BY <2>3, ShapeAssumption
  <2> QED
    BY <1>2, <1>5, <2>1, <2>2, <2>5, <2>6, <2>7
<1>7. CASE Len(f.chunk) # Block
  <2>1. EncTurn(o) = f
    BY <1>7 DEF EncTurn, f
  <2>2. Len(f.chunk) < Block
    BY <1>1, <1>2, <1>3, <1>7
  <2>3. Len(f.out) + Len(f.chunk) + Len(f.in)
          = Len(o.out) + Len(o.chunk) + Len(o.in)
    BY <1>2, <1>5
  <2> QED
    BY <1>2, <2>1, <2>2, <2>3
<1> QED
  BY <1>6, <1>7

\* One turn of the decrypting loop.
LEMMA DecTurnProperties ==
  ASSUME NEW o \in Object, Len(o.chunk) <= Block, o.key # None
  PROVE  LET f == DecTurn(o) IN
           /\ f \in Object /\ f.key = o.key /\ f.calculated = o.calculated
           /\ Len(f.chunk) <= Block
<1> DEFINE f == Filled(o)
<1>1. /\ f \in Object /\ f.key = o.key /\ f.calculated = o.calculated
      /\ Len(f.chunk) <= Block
  BY FilledProperties
<1> HIDE DEF f
<1>2. CASE Len(f.chunk) = Block
  <2>1. /\ DecryptChunk(f) \in Object /\ DecryptChunk(f).key = f.key
        /\ DecryptChunk(f).calculated = f.calculated
        /\ DecryptChunk(f).chunk = <<>>
    BY <1>1, <1>2, DecryptChunkProperties
  <2>2. Len(DecryptChunk(f).chunk) <= Block
    BY <2>1, EmptySeq, ShapeAssumption
  <2>3. DecTurn(o) = f \/ DecTurn(o) = DecryptChunk(f)
    BY DEF DecTurn, f
  <2> QED
    BY <1>1, <2>1, <2>2, <2>3
<1>3. CASE Len(f.chunk) # Block
  BY <1>1, <1>3 DEF DecTurn, f
<1> QED
  BY <1>2, <1>3

\* The padding of calculate is a sequence of bytes; PKCS#7 fills the chunk up.
LEMMA PaddingProperties ==
  ASSUME NEW o \in Object, Len(o.chunk) < Block,
         padding \in {"pkcs7", "rfc2246"}
  PROVE  LET n == PadSize(o)
             f == Fill(n, PadValue(n)) IN
           /\ f \in Seq(Byte) /\ Len(f) = n
           /\ padding = "pkcs7" => Len(o.chunk) + n = Block
<1> DEFINE n == PadSize(o)
           l == Len(o.chunk)
           x == Block * Extra
<1>1. l \in Nat /\ Block \in Nat /\ x \in Nat /\ l < Block
  BY ShapeAssumption, LenProperties DEF Object
<1>2. n = (Block - l) + (IF padding = "rfc2246" THEN x ELSE 0)
  BY DEF PadSize
<1>3. Block \in Byte /\ 0 .. Block + x - 1 \subseteq Byte
  BY ShapeAssumption
<1> HIDE DEF n, l, x
<1>4. n \in Nat /\ n \in 1 .. Block + x
  BY <1>1, <1>2
<1>5. padding = "pkcs7" => l + n = Block /\ n <= Block
  BY <1>1, <1>2
<1>6. PadValue(n) \in Byte
  <2>1. CASE padding = "rfc2246"
    <3>1. PadValue(n) = n - 1
      BY <2>1 DEF PadValue
    <3>2. n - 1 \in 0 .. Block + x - 1
      BY <1>1, <1>4
    <3> QED
      BY <1>3, <3>1, <3>2
  <2>2. CASE padding = "pkcs7"
    <3>1. PadValue(n) = n
      BY <2>2 DEF PadValue
    <3>2. n = Block \/ n \in 0 .. Block + x - 1
      BY <1>1, <1>4, <1>5, <2>2
    <3> QED
      BY <1>3, <3>1, <3>2
  <2> QED
    BY <2>1, <2>2
<1> DEFINE v == PadValue(n)
<1> HIDE DEF v
<1>7. Fill(n, v) \in Seq(Byte) /\ Len(Fill(n, v)) = n
  <2>1. \A j \in 1 .. n : v \in Byte
    BY <1>6 DEF v
  <2> QED
    BY <1>4, <2>1, IsASeq DEF Fill
<1> QED
  BY <1>5, <1>7 DEF n, l, v

\* The last block, without its padding, is a sequence of bytes.
LEMMA LastBlockProperties ==
  ASSUME NEW o \in Object, Len(o.chunk) <= Block, o.key # None,
         padding \in Padding
  PROVE  LET r == LastBlock(o) IN
           /\ r.object \in Object /\ Len(r.object.chunk) <= Block
           /\ r.good \in BOOLEAN
<1> DEFINE f == DecryptChunk(o)
           m == Len(f.out)
           n == PadLength(f.out)
<1>1. CASE ~(padding # "none" /\ Len(o.chunk) = Block)
  BY <1>1 DEF LastBlock
<1>2. CASE padding # "none" /\ Len(o.chunk) = Block
  <2>1. f \in Object /\ f.chunk = <<>> /\ m = Len(o.out) + Block
    BY <1>2, DecryptChunkProperties
  <2>2. f.out \in Seq(Byte) /\ Len(o.out) \in Nat /\ Block \in Nat \ {0}
    BY <2>1, LenProperties, ShapeAssumption DEF Object
  <2>3. m \in Nat /\ Block <= m /\ Len(f.chunk) <= Block
    BY <2>1, <2>2, EmptySeq
  <2>4. f.out[m] \in Byte /\ Byte \subseteq Nat
    BY <2>2, <2>3, ElementOfSeq, ShapeAssumption
  <2>5. padding \in {"pkcs7", "rfc2246"}
    BY <1>2, ShapeAssumption
  <2>6. LastBlock(o) = Unpad(o)
    BY <1>2 DEF LastBlock
  <2>7. n = None \/ n \in 0 .. m
    <3>1. CASE padding = "pkcs7"
      BY <2>2, <2>3, <2>4, <3>1 DEF PadLength
    <3>2. CASE padding = "rfc2246"
      BY <2>2, <2>3, <2>4, <3>2 DEF PadLength
    <3> QED
      BY <2>5, <3>1, <3>2
  <2>8. CASE n = None
    <3>1. Unpad(o) = [object |-> f, good |-> FALSE]
      BY <2>8 DEF Unpad
    <3> QED
      BY <2>1, <2>3, <2>6, <3>1
  <2>9. CASE n # None
    <3>1. Unpad(o) = [object |-> [f EXCEPT !.out = SubSeq(f.out, 1, m - n)],
                      good |-> TRUE]
      BY <2>9 DEF Unpad
    <3>2. m - n \in Int /\ m - n <= m
      BY <2>3, <2>7, <2>9
    <3>3. \A i \in 1 .. m - n : f.out[i] \in Byte
      BY <2>2, <2>3, <3>2, ElementOfSeq
    <3> HIDE DEF f, m, n
    <3>4. SubSeq(f.out, 1, m - n) \in Seq(Byte)
      BY <3>2, <3>3, SubSeqProperties
    <3>5. [f EXCEPT !.out = SubSeq(f.out, 1, m - n)] \in Object
      BY <2>1, <3>4 DEF Object
    <3>6. [f EXCEPT !.out = SubSeq(f.out, 1, m - n)].chunk = f.chunk
      BY <2>1 DEF Object
    <3> DEFINE g == [f EXCEPT !.out = SubSeq(f.out, 1, m - n)]
    <3>7. g \in Object /\ Len(g.chunk) <= Block
      BY <2>3, <3>5, <3>6
    <3>8. LastBlock(o) = [object |-> g, good |-> TRUE]
      BY <2>6, <3>1
    <3> HIDE DEF g
    <3> QED
      BY <3>7, <3>8
  <2> QED
    BY <2>8, <2>9
<1> QED
  BY <1>1, <1>2

-----------------------------------------------------------------------------
(* The inductive invariant *)

LEMMA InitInvariant == Init => IInv
<1> SUFFICES ASSUME Init PROVE IInv
  OBVIOUS
<1>1. << >> \in Seq(Byte) /\ Len(<< >>) = 0
  BY EmptySeq
<1>2. NewObject \in Object
  BY <1>1, ShapeAssumption DEF NewObject, Object
<1>3. Block \in Nat \ {0}
  BY ShapeAssumption
<1>4. /\ NewObject.chunk = <<>> /\ NewObject.in = <<>> /\ NewObject.out = <<>>
      /\ ~NewObject.calculated
  BY DEF NewObject
<1>5. TypeOK
  BY <1>1, <1>2, <1>3, <1>4 DEF Init, TypeOK
<1>6. ChunkHasRoom
  BY <1>1, <1>3, <1>4, NoBlocks DEF Init, ChunkHasRoom
<1>7. CallsInOrder
  BY <1>4 DEF Init, CallsInOrder
<1> QED
  BY <1>5, <1>6, <1>7 DEF IInv

\* The client sets up, adds and calls calculate.
LEMMA EncryptInvariant == IInv /\ Encrypt => IInv'
<1> SUFFICES ASSUME IInv, Encrypt PROVE IInv'
  OBVIOUS
<1> USE DEF IInv
<1>1. /\ enc \in Object /\ dec \in Object /\ Len(dec.chunk) <= Block
      /\ Len(enc.chunk) < Block /\ WholeBlocks(Len(enc.out))
      /\ Len(enc.chunk) \in Nat /\ Len(enc.in) \in Nat /\ Len(enc.out) \in Nat
      /\ Len(message) \in Nat /\ Block \in Nat \ {0}
  BY LenProperties, ShapeAssumption DEF TypeOK, ChunkHasRoom, Object
<1>2. << >> \in Seq(Byte) /\ Len(<< >>) = 0
  BY EmptySeq
<1>3. ASSUME NEW k \in Key, EncSetUp(k) PROVE IInv'
  <2>1. /\ enc' \in Object
        /\ enc'.chunk = enc.chunk /\ enc'.in = enc.in /\ enc'.out = enc.out
        /\ enc'.calculated = enc.calculated
    BY <1>1, <1>3, ShapeAssumption DEF EncSetUp, SetUp, Object
  <2>2. TypeOK'
    BY <1>3, <2>1 DEF EncSetUp, TypeOK
  <2>3. ChunkHasRoom'
    BY <1>3, <2>1 DEF EncSetUp, ChunkHasRoom
  <2>4. CallsInOrder'
    BY <1>3, <2>1 DEF EncSetUp, CallsInOrder
  <2> QED
    BY <2>2, <2>3, <2>4
<1>4. ASSUME NEW data \in Pieces, EncAdd(data) PROVE IInv'
  <2> DEFINE r == Reset(enc)
  <2>1. /\ r \in Object /\ r.in = enc.in /\ r.key = enc.key /\ ~r.calculated
        /\ enc.calculated => r.chunk = <<>> /\ r.out = <<>>
        /\ ~enc.calculated => r = enc
    BY <1>1, ResetProperties
  <2>2. data \in Seq(Byte) /\ Len(data) \in Nat
    <3>1. PICK n \in 0 .. MaxLen : data \in [1 .. n -> Byte]
      BY <1>4 DEF Pieces
    <3>2. n \in Nat /\ data = [j \in 1 .. n |-> data[j]]
          /\ \A j \in 1 .. n : data[j] \in Byte
      BY <3>1, ShapeAssumption
    <3> QED
      BY <3>2, IsASeq, LenProperties
  <2> HIDE DEF r
  <2>3. enc' = [r EXCEPT !.in = data]
    BY <1>4 DEF EncAdd, r
  <2>4. /\ enc' \in Object /\ enc'.in = data /\ enc'.key = r.key
        /\ enc'.chunk = r.chunk /\ enc'.out = r.out /\ ~enc'.calculated
    BY <2>1, <2>2, <2>3 DEF Object
  <2>5. message' \in Seq(Byte) /\ Len(message') = Len(message) + Len(data)
    BY <1>4, <2>2 DEF EncAdd, TypeOK
  <2>6. Len(r.out) + Len(r.chunk) = Len(message)
    <3>1. CASE enc.calculated
      <4>1. r.chunk = <<>> /\ r.out = <<>> /\ message = <<>>
        BY <1>4, <2>1, <3>1 DEF EncAdd, CallsInOrder
      <4> QED
        BY <1>2, <4>1
    <3>2. CASE ~enc.calculated
      <4>1. r = enc /\ enc.in = <<>>
            /\ Len(enc.out) + Len(enc.chunk) + Len(enc.in) = Len(message)
        BY <1>4, <2>1, <3>2 DEF EncAdd, CallsInOrder, ChunkHasRoom
      <4>2. Len(enc.in) = 0
        BY <1>2, <4>1
      <4>3. \A a, b \in Nat : a + b + 0 = a + b
        OBVIOUS
      <4> QED
        BY <1>1, <4>1, <4>2, <4>3
    <3> QED
      BY <3>1, <3>2
  <2>7. TypeOK'
    BY <1>4, <2>4, <2>5 DEF EncAdd, TypeOK
  <2>8. Len(r.chunk) < Block /\ WholeBlocks(Len(r.out))
    BY <1>1, <1>2, <2>1, NoBlocks
  <2>9. ChunkHasRoom'
    <3>1. Len(enc'.out) + Len(enc'.chunk) + Len(enc'.in) = Len(message')
      BY <2>4, <2>5, <2>6
    <3> QED
      BY <2>4, <2>8, <3>1 DEF ChunkHasRoom
  <2>10. CallsInOrder'
    BY <1>4, <2>1, <2>4 DEF EncAdd, CallsInOrder
  <2> QED
    BY <2>7, <2>9, <2>10
<1>5. ASSUME EncLoop PROVE IInv'
  <2>1. enc.key # None /\ ~enc.calculated /\ pc \in {"encAdd", "encPad"}
    BY <1>5 DEF EncLoop, CallsInOrder
  <2>2. /\ enc' \in Object /\ enc'.key = enc.key
        /\ enc'.calculated = enc.calculated
        /\ Len(enc'.chunk) < Block /\ WholeBlocks(Len(enc'.out))
        /\ Len(enc'.out) + Len(enc'.chunk) + Len(enc'.in)
             = Len(enc.out) + Len(enc.chunk) + Len(enc.in)
    BY <1>1, <1>5, <2>1, EncTurnProperties DEF EncLoop
  <2>3. TypeOK'
    BY <1>5, <2>2 DEF EncLoop, TypeOK
  <2>4. ChunkHasRoom'
    BY <1>5, <2>1, <2>2 DEF EncLoop, ChunkHasRoom
  <2>5. CallsInOrder'
    BY <1>5, <2>1, <2>2 DEF EncLoop, CallsInOrder
  <2> QED
    BY <2>3, <2>4, <2>5
<1>6. ASSUME EncAddEnds PROVE IInv'
  BY <1>6 DEF EncAddEnds, TypeOK, ChunkHasRoom, CallsInOrder
<1>7. ASSUME NEW o \in Object, Finish(o), o.in = <<>>, Len(o.chunk) < Block,
             WholeBlocks(Len(o.out)),
             UNCHANGED <<padding, keys, dec, message, fed, taken, verdict>>,
             fed = 0
      PROVE  IInv'
  <2>1. /\ enc' \in Object /\ enc'.chunk = o.chunk /\ enc'.out = o.out
        /\ enc'.in = <<>> /\ enc'.calculated
    BY <1>7 DEF Finish, Sealed, Object
  <2>2. cipher' = o.out /\ pc' = "dec" /\ o.out \in Seq(Byte)
    BY <1>7 DEF Finish, Object
  <2>3. fed' \in 0 .. Len(cipher')
    BY <1>7, <2>2, LenProperties
  <2>4. TypeOK'
    BY <1>7, <2>1, <2>2, <2>3 DEF TypeOK
  <2>5. ChunkHasRoom'
    BY <1>7, <2>1, <2>2 DEF ChunkHasRoom
  <2>6. CallsInOrder'
    BY <2>1, <2>2 DEF CallsInOrder
  <2> QED
    BY <2>4, <2>5, <2>6
<1> DEFINE r == Reset(enc)
<1>8. /\ r \in Object /\ r.in = enc.in /\ r.key = enc.key /\ ~r.calculated
      /\ enc.calculated => r.chunk = <<>> /\ r.out = <<>>
      /\ ~enc.calculated => r = enc
  BY <1>1, ResetProperties
<1>9. Len(r.chunk) < Block /\ WholeBlocks(Len(r.out))
  BY <1>1, <1>2, <1>8, NoBlocks
<1>10. pc = "enc" => r.in = <<>> /\ fed = 0
  BY <1>8 DEF CallsInOrder
<1>11. ASSUME EncCalculateNone PROVE IInv'
  BY <1>7, <1>8, <1>9, <1>10, <1>11 DEF EncCalculateNone
<1>12. ASSUME EncCalculatePkcs7 PROVE IInv'
  <2> DEFINE n == PadSize(r)
             f == Fill(n, PadValue(n))
             o == [r EXCEPT !.chunk = r.chunk \o f]
             g == EncryptChunk(o)
  <2>1. pc = "enc" /\ padding = "pkcs7" /\ r.key # None
    BY <1>8, <1>12 DEF EncCalculatePkcs7
  <2>2. f \in Seq(Byte) /\ Len(f) = n /\ Len(r.chunk) + n = Block
    BY <1>8, <1>9, <2>1, PaddingProperties
  <2>3. /\ Finish(g)
        /\ UNCHANGED <<padding, keys, dec, message, fed, taken, verdict>>
    BY <1>12 DEF EncCalculatePkcs7
  <2> HIDE DEF r, f, n
  <2>4. r.chunk \in Seq(Byte)
    BY <1>8 DEF Object
  <2>5. r.chunk \o f \in Seq(Byte) /\ Len(r.chunk \o f) = Block
    BY <2>2, <2>4
  <2>6. /\ o \in Object /\ Len(o.chunk) = Block /\ o.key = r.key
        /\ o.in = r.in /\ o.out = r.out
    BY <1>8, <2>5 DEF Object
  <2> HIDE DEF o
  <2>7. g \in Object /\ g.chunk = <<>> /\ g.in = r.in
        /\ Len(g.out) = Len(r.out) + Block
    BY <2>1, <2>6, EncryptChunkProperties
  <2>8. Len(r.out) \in Nat
    BY <1>8, LenProperties DEF Object
  <2> HIDE DEF g
  <2>9. WholeBlocks(Len(g.out)) /\ Len(g.chunk) < Block
    BY <1>1, <1>2, <1>9, <2>7, <2>8, WholeBlocksGrow
  <2> QED
    BY <1>7, <1>10, <2>1, <2>3, <2>7, <2>9
<1>13. ASSUME EncCalculateRfc2246 PROVE IInv'
  <2> DEFINE n == PadSize(r)
             f == Fill(n, PadValue(n))
  <2>1. pc = "enc" /\ padding = "rfc2246" /\ r.key # None /\ pc' = "encPad"
    BY <1>8, <1>13 DEF EncCalculateRfc2246
  <2>2. f \in Seq(Byte)
    BY <1>8, <1>9, <2>1, PaddingProperties
  <2>3. /\ enc' = [r EXCEPT !.in = f]
        /\ UNCHANGED <<padding, keys, dec, message, cipher, fed, taken, verdict>>
    BY <1>13 DEF EncCalculateRfc2246
  <2> HIDE DEF r, f
  <2>4. /\ enc' \in Object /\ enc'.key = r.key /\ ~enc'.calculated
        /\ enc'.chunk = r.chunk /\ enc'.out = r.out
    BY <1>8, <2>2, <2>3 DEF Object
  <2>5. TypeOK'
    BY <2>1, <2>3, <2>4 DEF TypeOK
  <2>6. ChunkHasRoom'
    BY <1>9, <2>1, <2>4 DEF ChunkHasRoom
  <2>7. CallsInOrder'
    BY <1>10, <2>1, <2>3, <2>4 DEF CallsInOrder
  <2> QED
    BY <2>5, <2>6, <2>7
<1>14. ASSUME EncPadEnds PROVE IInv'
  <2>1. fed = 0
    BY <1>14 DEF EncPadEnds, CallsInOrder
  <2> QED
    BY <1>1, <1>7, <1>14, <2>1 DEF EncPadEnds
<1> QED
  BY <1>3, <1>4, <1>5, <1>6, <1>11, <1>12, <1>13, <1>14 DEF Encrypt

\* The decrypting client, which leaves the encrypting object alone.
LEMMA DecryptInvariant == IInv /\ Decrypt => IInv'
<1> SUFFICES ASSUME IInv, Decrypt PROVE IInv'
  OBVIOUS
<1> USE DEF IInv
<1>1. /\ dec \in Object /\ Len(dec.chunk) <= Block /\ Block \in Nat \ {0}
      /\ cipher \in Seq(Byte) /\ Len(cipher) \in Nat /\ fed \in 0 .. Len(cipher)
  BY LenProperties, ShapeAssumption DEF TypeOK
<1>2. << >> \in Seq(Byte) /\ Len(<< >>) = 0
  BY EmptySeq
<1>3. ASSUME UNCHANGED <<padding, enc, message, cipher>>,
             pc \in {"dec", "decAdd", "done"},
             pc' \in {"dec", "decAdd", "done"},
             keys' \in [enc : Key \cup {None}, dec : Key \cup {None}],
             dec' \in Object, Len(dec'.chunk) <= Block,
             pc' = "decAdd" => dec'.key # None,
             taken' \in Seq(Byte), fed' \in 0 .. Len(cipher),
             verdict' \in BOOLEAN \cup {None}
      PROVE  IInv'
  <2>1. TypeOK'
    BY <1>3 DEF TypeOK
  <2>2. ChunkHasRoom'
    BY <1>3 DEF ChunkHasRoom
  <2>3. CallsInOrder'
    BY <1>3 DEF CallsInOrder
  <2> QED
    BY <2>1, <2>2, <2>3
<1>4. ASSUME NEW k \in Key, DecSetUp(k) PROVE IInv'
  <2>1. dec' \in Object /\ dec'.chunk = dec.chunk
    BY <1>1, <1>4, ShapeAssumption DEF DecSetUp, SetUp, Object
  <2>2. keys' \in [enc : Key \cup {None}, dec : Key \cup {None}]
    BY <1>4 DEF DecSetUp, TypeOK
  <2>3. Len(dec'.chunk) <= Block
    BY <1>1, <2>1
  <2> QED
    BY <1>1, <1>3, <1>4, <2>1, <2>2, <2>3 DEF DecSetUp, TypeOK
<1> DEFINE r == Reset(dec)
<1>5. /\ r \in Object /\ r.key = dec.key
      /\ r.chunk = <<>> \/ r.chunk = dec.chunk
  BY <1>1, ResetProperties
<1>6. Len(r.chunk) <= Block
  BY <1>1, <1>2, <1>5
<1>7. ASSUME NEW n \in 1 .. Len(cipher), DecAdd(n) PROVE IInv'
  <2> DEFINE s == SubSeq(cipher, fed + 1, fed + n)
  <2>1. fed + n \in 0 .. Len(cipher)
    BY <1>1, <1>7 DEF DecAdd
  <2>2. \A i \in fed + 1 .. fed + n : cipher[i] \in Byte
    BY <1>1, <2>1, ElementOfSeq
  <2>3. s \in Seq(Byte)
    BY <1>1, <2>2, SubSeqProperties
  <2>4. dec' = [r EXCEPT !.in = s]
    BY <1>7 DEF DecAdd
  <2> HIDE DEF r, s
  <2>5. dec' \in Object /\ dec'.key = r.key /\ dec'.chunk = r.chunk
    BY <1>5, <2>3, <2>4 DEF Object
  <2>6. Len(dec'.chunk) <= Block
    BY <1>6, <2>5
  <2> QED
    BY <1>3, <1>5, <1>7, <2>1, <2>5, <2>6 DEF DecAdd, TypeOK
<1>8. ASSUME DecLoop PROVE IInv'
  <2>1. dec.key # None
    BY <1>8 DEF DecLoop, CallsInOrder
  <2>2. dec' \in Object /\ dec'.key = dec.key /\ Len(dec'.chunk) <= Block
    BY <1>1, <1>8, <2>1, DecTurnProperties DEF DecLoop
  <2> QED
    BY <1>1, <1>3, <1>8, <2>1, <2>2 DEF DecLoop, TypeOK
<1>9. ASSUME DecAddEnds PROVE IInv'
  BY <1>1, <1>3, <1>9 DEF DecAddEnds, TypeOK
<1>10. ASSUME Drain PROVE IInv'
  <2>1. dec' \in Object /\ dec'.chunk = dec.chunk
    BY <1>1, <1>2, <1>10 DEF Drain, Object
  <2>2. taken' \in Seq(Byte)
    BY <1>1, <1>10 DEF Drain, TypeOK, Object
  <2>3. Len(dec'.chunk) <= Block
    BY <1>1, <2>1
  <2> QED
    BY <1>1, <1>3, <1>10, <2>1, <2>2, <2>3 DEF Drain, TypeOK
<1>11. ASSUME DecCalculate PROVE IInv'
  <2> DEFINE l == LastBlock(r)
  <2>1. r.key # None
    BY <1>5, <1>11 DEF DecCalculate
  <2>2. l.object \in Object /\ Len(l.object.chunk) <= Block /\ l.good \in BOOLEAN
    BY <1>5, <1>6, <2>1, LastBlockProperties DEF TypeOK
  <2>3. dec' = Sealed(l.object) /\ verdict' = l.good
    BY <1>11 DEF DecCalculate
  <2> HIDE DEF l
  <2>4. dec' \in Object /\ dec'.chunk = l.object.chunk
    BY <2>2, <2>3 DEF Sealed, Object
  <2>5. Len(dec'.chunk) <= Block
    BY <2>2, <2>4
  <2> QED
    BY <1>1, <1>3, <1>11, <2>2, <2>3, <2>4, <2>5 DEF DecCalculate, TypeOK
<1> QED
  BY <1>4, <1>7, <1>8, <1>9, <1>10, <1>11 DEF Decrypt

LEMMA AgainInvariant == IInv /\ Again => IInv'
<1> SUFFICES ASSUME IInv, Again PROVE IInv'
  OBVIOUS
<1>1. << >> \in Seq(Byte) /\ Len(<< >>) = 0
  BY EmptySeq
<1>2. TypeOK'
  BY <1>1 DEF IInv, Again, TypeOK
<1>3. enc.calculated
  BY DEF IInv, Again, CallsInOrder
<1>4. ChunkHasRoom'
  BY <1>3 DEF IInv, Again, ChunkHasRoom
<1>5. CallsInOrder'
  BY <1>3 DEF IInv, Again, CallsInOrder
<1> QED
  BY <1>2, <1>4, <1>5 DEF IInv

LEMMA NextInvariant == IInv /\ [Next]_vars => IInv'
<1>1. CASE UNCHANGED vars
  BY <1>1 DEF vars, IInv, TypeOK, ChunkHasRoom, CallsInOrder
<1> QED
  BY <1>1, EncryptInvariant, DecryptInvariant, AgainInvariant DEF Next

\* For every block size, setting, cipher and way of handing data over, the
\* variables keep their types and the encrypting object keeps room in its
\* chunk and loses nothing it was given.
THEOREM StreamSafe == Spec => [](TypeOK /\ ChunkHasRoom)
<1>1. IInv => TypeOK /\ ChunkHasRoom
  BY DEF IInv
<1> QED
  BY <1>1, InitInvariant, NextInvariant, PTL DEF Spec


-----------------------------------------------------------------------------
(* Texts and their blocks *)

\* A part of a text.
LEMMA PartOf ==
  ASSUME NEW S, NEW s \in Seq(S), NEW m \in Nat, NEW n \in Nat,
         m <= n, n <= Len(s)
  PROVE  /\ SubSeq(s, m + 1, n) \in Seq(S)
         /\ Len(SubSeq(s, m + 1, n)) = n - m
         /\ \A i \in 1 .. n - m : SubSeq(s, m + 1, n)[i] = s[m + i]
<1>1. Len(s) \in Nat
  BY LenProperties
<1>2. \A i \in m + 1 .. n : s[i] \in S
  BY <1>1, ElementOfSeq
<1>3. /\ SubSeq(s, m + 1, n) \in Seq(S)
      /\ Len(SubSeq(s, m + 1, n)) = IF m + 1 <= n THEN n - (m + 1) + 1 ELSE 0
      /\ \A i \in 1 .. n - (m + 1) + 1 : SubSeq(s, m + 1, n)[i] = s[(m + 1) + i - 1]
  BY <1>2, SubSeqProperties
<1>4. Len(SubSeq(s, m + 1, n)) = n - m
  BY <1>3
<1>5. ASSUME NEW i \in 1 .. n - m PROVE SubSeq(s, m + 1, n)[i] = s[m + i]
  <2>1. i \in 1 .. n - (m + 1) + 1 /\ (m + 1) + i - 1 = m + i
    OBVIOUS
  <2> QED BY <1>3, <2>1
<1> QED BY <1>3, <1>4, <1>5

\* The text s from m to n, cut in two at k, gives a and b.
Halves(s, m, n, k, a, b) == a = SubSeq(s, m + 1, k) /\ b = SubSeq(s, k + 1, n)

\* Two texts that make up a part of another one are parts of it.
LEMMA PartsOf ==
  ASSUME NEW S, NEW s \in Seq(S), NEW a \in Seq(S), NEW b \in Seq(S),
         NEW m \in Nat, NEW n \in Nat, m <= n, n <= Len(s),
         a \o b = SubSeq(s, m + 1, n), NEW k \in Nat, k = m + Len(a)
  PROVE  Halves(s, m, n, k, a, b)
<1>1. Len(a) \in Nat /\ Len(b) \in Nat /\ Len(s) \in Nat
  BY LenProperties
<1>2. /\ Len(a \o b) = Len(a) + Len(b)
      /\ \A i \in 1 .. Len(a) + Len(b) :
           (a \o b)[i] = IF i <= Len(a) THEN a[i] ELSE b[i - Len(a)]
  BY ConcatProperties
<1>3. /\ Len(SubSeq(s, m + 1, n)) = n - m
      /\ \A i \in 1 .. n - m : SubSeq(s, m + 1, n)[i] = s[m + i]
  BY ONLY PartOf, s \in Seq(S), m \in Nat, n \in Nat, m <= n, n <= Len(s)
<1>4. m + Len(a) + Len(b) = n
  <2>1. Len(a) + Len(b) = n - m
    BY <1>2, <1>3
  <2>2. \A x, y \in Nat : x + y = n - m => m + x + y = n
    OBVIOUS
  <2> QED BY <1>1, <2>1, <2>2
<1>5. k \in Nat /\ m <= k /\ k <= n /\ k <= Len(s) /\ k - m = Len(a) /\ n - k = Len(b)
  BY <1>1, <1>4
<1>6. /\ SubSeq(s, m + 1, k) \in Seq(S) /\ Len(SubSeq(s, m + 1, k)) = k - m
      /\ \A i \in 1 .. k - m : SubSeq(s, m + 1, k)[i] = s[m + i]
  BY <1>5, PartOf
<1>7. /\ SubSeq(s, k + 1, n) \in Seq(S) /\ Len(SubSeq(s, k + 1, n)) = n - k
      /\ \A i \in 1 .. n - k : SubSeq(s, k + 1, n)[i] = s[k + i]
  BY <1>5, PartOf
<1>8. ASSUME NEW i \in 1 .. Len(a) PROVE a[i] = SubSeq(s, m + 1, k)[i]
  <2>1. i \in 1 .. Len(a) + Len(b) /\ i <= Len(a) /\ i \in 1 .. n - m /\ i \in 1 .. k - m
    BY <1>1, <1>4, <1>5
  <2> QED BY <1>2, <1>3, <1>6, <2>1
<1>9. ASSUME NEW i \in 1 .. Len(b) PROVE b[i] = SubSeq(s, k + 1, n)[i]
  <2> DEFINE j == Len(a) + i
  <2>1. j \in 1 .. Len(a) + Len(b) /\ ~(j <= Len(a)) /\ j - Len(a) = i
        /\ j \in 1 .. n - m /\ i \in 1 .. n - k /\ m + j = k + i
    BY <1>1, <1>4, <1>5
  <2> HIDE DEF j
  <2>2. (a \o b)[j] = b[i] /\ (a \o b)[j] = s[m + j]
    BY <1>2, <1>3, <2>1
  <2> QED BY <1>7, <2>1, <2>2
<1>10. a = SubSeq(s, m + 1, k)
  BY <1>5, <1>6, <1>8, SeqEqual
<1>11. b = SubSeq(s, k + 1, n)
  BY <1>5, <1>7, <1>9, SeqEqual
<1> QED BY <1>10, <1>11 DEF Halves

\* How often a product holds its factor.
LEMMA DivProduct ==
  ASSUME NEW q \in Nat, NEW g \in Nat \ {0}
  PROVE  (q * g) \div g = q
<1> DEFINE x == q * g
           d == x \div g
<1>1. x \in Nat
  OBVIOUS
<1>2. \A a \in Nat : a \div g \in Int /\ g * (a \div g) <= a /\ a < g * (a \div g) + g
  OBVIOUS
<1>3. d \in Int /\ g * d <= x /\ x < g * d + g
  BY <1>1, <1>2
<1> HIDE DEF d
<1>4. CASE q <= d - 1
  <2>1. g * d = q * g + g + (d - 1 - q) * g /\ (d - 1 - q) * g >= 0
    BY <1>3, <1>4
  <2> QED BY <1>3, <2>1
<1>5. CASE d <= q - 1
  <2>1. q * g = g * d + g + (q - 1 - d) * g /\ (q - 1 - d) * g >= 0
    BY <1>3, <1>5
  <2> QED BY <1>3, <2>1
<1>6. q = d
  BY <1>3, <1>4, <1>5
<1> QED BY <1>6 DEF d

\* Whole blocks.
LEMMA BlockBounds ==
  ASSUME NEW q \in Nat
  PROVE  /\ q * Block \in Nat /\ (q + 1) * Block = q * Block + Block
         /\ (q * Block) \div Block = q
         /\ q # 0 => (q - 1) * Block \in Nat /\ q * Block = (q - 1) * Block + Block
<1> DEFINE g == Block
<1>1. g \in Nat \ {0}
  BY ShapeAssumption
<1> HIDE DEF g
<1>2. q * g \in Nat /\ (q + 1) * g = q * g + g
  BY <1>1
<1>3. (q * g) \div g = q
  BY <1>1, DivProduct
<1>4. q # 0 => (q - 1) * g \in Nat /\ q * g = (q - 1) * g + g
  BY <1>1
<1> QED BY <1>2, <1>3, <1>4 DEF g

LEMMA FewerBlocks ==
  ASSUME NEW i \in Nat, NEW q \in Nat
  PROVE  i <= q <=> i * Block <= q * Block
<1> DEFINE g == Block
<1>1. g \in Nat \ {0}
  BY ShapeAssumption
<1> HIDE DEF g
<1>2. CASE i <= q
  <2>1. q * g = i * g + (q - i) * g /\ (q - i) * g >= 0 /\ i * g \in Nat
    BY <1>1, <1>2
  <2>2. i * g <= q * g
    BY <1>1, <2>1
  <2> QED BY <1>2, <2>2 DEF g
<1>3. CASE ~(i <= q)
  <2>1. i * g = q * g + g + (i - q - 1) * g /\ (i - q - 1) * g >= 0 /\ q * g \in Nat
    BY <1>1, <1>3
  <2>2. ~(i * g <= q * g)
    BY <1>1, <2>1
  <2> QED BY <1>3, <2>2 DEF g
<1> QED BY <1>2, <1>3
\* What the block after the first q of the text c is chained to.
Link(c, q) == IF q = 0 THEN Iv ELSE BlockOf(c, q)

LEMMA BlockType ==
  ASSUME NEW s \in Seq(Byte), NEW i \in Nat \ {0}, i * Block <= Len(s)
  PROVE  BlockOf(s, i) \in Chunk
<1>1. /\ (i - 1) * Block \in Nat /\ i * Block = (i - 1) * Block + Block
      /\ i * Block \in Nat /\ Block \in Nat /\ Len(s) \in Nat
  BY BlockBounds, ShapeAssumption, LenProperties
<1> DEFINE m == (i - 1) * Block
           n == i * Block
<1>2. m \in Nat /\ n \in Nat /\ m <= n /\ n <= Len(s) /\ n - m = Block
  BY <1>1
<1> HIDE DEF m, n
<1>3. SubSeq(s, m + 1, n) \in Seq(Byte) /\ Len(SubSeq(s, m + 1, n)) = Block
  BY <1>2, PartOf
<1> QED BY <1>3, SeqIsBlock DEF BlockOf, m, n

\* What is appended to a text leaves its blocks as they are ...
LEMMA EarlierBlocks ==
  ASSUME NEW s \in Seq(Byte), NEW t \in Seq(Byte), NEW i \in Nat \ {0},
         i * Block <= Len(s)
  PROVE  BlockOf(s \o t, i) = BlockOf(s, i)
<1>1. /\ (i - 1) * Block \in Nat /\ i * Block = (i - 1) * Block + Block
      /\ i * Block \in Nat /\ Block \in Nat \ {0} /\ Len(s) \in Nat
  BY BlockBounds, ShapeAssumption, LenProperties
<1> DEFINE m == (i - 1) * Block + 1
           n == i * Block
<1>2. m \in 1 .. Len(s) /\ n \in 1 .. Len(s)
  BY <1>1
<1> HIDE DEF m, n
<1>3. SubSeq(s \o t, m, n) = SubSeq(s, m, n)
  BY <1>2, SubSeqOfConcat1
<1> QED BY <1>3 DEF BlockOf, m, n

\* ... and a block that is appended is the next one.
LEMMA NextBlock ==
  ASSUME NEW s \in Seq(Byte), NEW b \in Chunk, NEW q \in Nat, Len(s) = q * Block
  PROVE  BlockOf(s \o b, q + 1) = b
<1>1. /\ q * Block \in Nat /\ (q + 1) * Block = q * Block + Block
      /\ Block \in Nat \ {0} /\ b \in Seq(Byte) /\ Len(b) = Block
      /\ ((q + 1) - 1) * Block = q * Block
  BY BlockBounds, ShapeAssumption, BlockIsSeq
<1> DEFINE l == Len(s)
           m == l + 1
           n == l + Block
<1>2. /\ m \in Len(s) + 1 .. Len(s) + Len(b) /\ n \in Len(s) + 1 .. Len(s) + Len(b)
      /\ m - Len(s) = 1 /\ n - Len(s) = Len(b)
  BY <1>1
<1>3. SubSeq(s \o b, m, n) = SubSeq(b, m - Len(s), n - Len(s))
  BY <1>1, <1>2, SubSeqOfConcat2
<1>4. SubSeq(b, 1, Len(b)) = b
  BY <1>1, SubSeqFull
<1>5. BlockOf(s \o b, q + 1) = SubSeq(s \o b, m, n)
  BY <1>1 DEF BlockOf
<1> HIDE DEF m, n
<1> QED BY <1>2, <1>3, <1>4, <1>5

\* The definition of chaining, in terms of Link.
LEMMA ChainedLinks ==
  ASSUME NEW k, NEW p, NEW c, NEW q \in Nat, Len(p) = q * Block
  PROVE  Chained(k, p, c) <=>
           /\ Len(c) = Len(p)
           /\ \A i \in 1 .. q :
                BlockOf(c, i) = E(k, XorBlock(Link(c, i - 1), BlockOf(p, i)))
<1>1. Len(p) \div Block = q
  BY BlockBounds
<1>2. \A i \in 1 .. q :
        Link(c, i - 1) = IF i = 1 THEN Iv ELSE BlockOf(c, i - 1)
  BY DEF Link
<1> QED BY <1>1, <1>2 DEF Chained

LEMMA ChainedNothing ==
  ASSUME NEW k
  PROVE  Chained(k, <<>>, <<>>)
<1>1. Len(<<>>) = 0 /\ 0 * Block = 0
  BY EmptySeq, ShapeAssumption
<1> QED BY <1>1, ChainedLinks, 0 \in Nat

\* The text t is q blocks long.
Long(t, q) == Len(t) = q * Block

\* A block that is encrypted goes on with the chain.
LEMMA ChainGrows ==
  ASSUME NEW k \in Key, NEW q \in Nat, NEW p \in Seq(Byte), NEW c \in Seq(Byte),
         Long(p, q), Chained(k, p, c), NEW b \in Chunk,
         NEW e, e = E(k, XorBlock(Link(c, q), b))
  PROVE  /\ Link(c, q) \in Chunk /\ e \in Chunk
         /\ Chained(k, p \o b, c \o e) /\ Long(p \o b, q + 1)
         /\ Link(c \o e, q + 1) = e
<1>1. /\ Len(p) = q * Block /\ Len(c) = q * Block
      /\ \A i \in 1 .. q :
           BlockOf(c, i) = E(k, XorBlock(Link(c, i - 1), BlockOf(p, i)))
  BY ChainedLinks DEF Long
<1>2. /\ q * Block \in Nat /\ (q + 1) * Block = q * Block + Block
      /\ Block \in Nat \ {0}
  BY BlockBounds, ShapeAssumption
<1>3. Link(c, q) \in Chunk
  <2>1. CASE q = 0
    BY <2>1, ShapeAssumption DEF Link
  <2>2. CASE q # 0
    <3>1. q * Block <= Len(c)
      BY <1>1, <1>2
    <3> QED BY <2>2, <3>1, BlockType DEF Link
  <2> QED BY <2>1, <2>2
<1>4. e \in Chunk
  BY <1>3, XorBlockType, CipherAssumption
<1>5. /\ e \in Seq(Byte) /\ Len(e) = Block /\ b \in Seq(Byte) /\ Len(b) = Block
  BY <1>4, BlockIsSeq
<1>6. Len(p \o b) = (q + 1) * Block /\ Len(c \o e) = (q + 1) * Block
  <2>1. Len(p \o b) = Len(p) + Len(b) /\ Len(c \o e) = Len(c) + Len(e)
    BY <1>5, ConcatProperties
  <2> QED BY <1>1, <1>2, <1>5, <2>1
<1>7. BlockOf(c \o e, q + 1) = e /\ BlockOf(p \o b, q + 1) = b
  BY <1>1, <1>4, NextBlock
<1>8. ASSUME NEW i \in 1 .. q + 1
      PROVE  BlockOf(c \o e, i) =
               E(k, XorBlock(Link(c \o e, i - 1), BlockOf(p \o b, i)))
  <2>1. Link(c \o e, i - 1) = Link(c, i - 1)
    <3>1. CASE i = 1
      BY <3>1 DEF Link
    <3>2. CASE i # 1
      <4>1. i - 1 \in Nat \ {0} /\ i - 1 <= q
        BY <3>2
      <4>2. (i - 1) * Block <= Len(c)
        BY <1>1, <4>1, FewerBlocks
      <4>3. BlockOf(c \o e, i - 1) = BlockOf(c, i - 1)
        BY <1>5, <4>1, <4>2, EarlierBlocks
      <4> QED BY <4>1, <4>3 DEF Link
    <3> QED BY <3>1, <3>2
  <2>2. CASE i = q + 1
    <3>1. i - 1 = q
      BY <2>2
    <3> QED BY <1>7, <2>1, <2>2, <3>1
  <2>3. CASE i # q + 1
    <3>1. i \in 1 .. q /\ i \in Nat \ {0} /\ i <= q
      BY <2>3
    <3>2. i * Block <= Len(c) /\ i * Block <= Len(p)
      BY <1>1, <3>1, FewerBlocks
    <3>3. BlockOf(c \o e, i) = BlockOf(c, i) /\ BlockOf(p \o b, i) = BlockOf(p, i)
      BY <1>5, <3>1, <3>2, EarlierBlocks
    <3> QED BY <1>1, <2>1, <3>1, <3>3
  <2> QED BY <2>2, <2>3
<1>9. Chained(k, p \o b, c \o e)
  <2>1. Len(c \o e) = Len(p \o b) /\ q + 1 \in Nat
    BY <1>6
  <2> QED BY <1>6, <1>8, <2>1, ChainedLinks
<1>10. Link(c \o e, q + 1) = e
  BY <1>7 DEF Link
<1> QED BY <1>3, <1>4, <1>6, <1>9, <1>10 DEF Long
-----------------------------------------------------------------------------
(* Encryption *)

\* The object o has turned whole blocks of the text p into its buffer, by
\* chaining, and the rest of p is in its chunk and its data.
Chaining(o, p) ==
  \E q \in Nat, d \in Seq(Byte) :
    /\ Long(d, q) /\ Chained(o.key, d, o.out) /\ o.iv = Link(o.out, q)
    /\ p = (d \o o.chunk) \o o.in

Assoc(s, t, u) == (s \o t) \o u = s \o (t \o u)

LEMMA AssociativeAt ==
  ASSUME NEW s \in Seq(Byte), NEW t \in Seq(Byte), NEW u \in Seq(Byte)
  PROVE  Assoc(s, t, u)
BY ConcatAssociative DEF Assoc

LEMMA Associative == \A s, t, u \in Seq(Byte) : (s \o t) \o u = s \o (t \o u)
BY ConcatAssociative

\* An object that was set up and has seen nothing yet.
LEMMA ChainingBegins ==
  ASSUME NEW o, o.iv = Iv, o.chunk = <<>>, o.out = <<>>, o.in = <<>>
  PROVE  Chaining(o, <<>>)
<1>1. << >> \in Seq(Byte) /\ Len(<< >>) = 0 /\ 0 * Block = 0
  BY EmptySeq, ShapeAssumption
<1>2. (<< >> \o << >>) \o << >> = << >>
  BY <1>1, ConcatEmptySeq
<1>3. Chained(o.key, <<>>, o.out) /\ o.iv = Link(o.out, 0)
  BY ChainedNothing DEF Link
<1>4. Long(<<>>, 0) /\ << >> = (<< >> \o o.chunk) \o o.in
  BY <1>1, <1>2 DEF Long
<1> QED BY <1>1, <1>3, <1>4, 0 \in Nat DEF Chaining

\* add hands new data over.
LEMMA ChainingAdds ==
  ASSUME NEW o \in Object, o.in = <<>>, NEW p, Chaining(o, p),
         NEW data \in Seq(Byte)
  PROVE  Chaining([o EXCEPT !.in = data], p \o data)
<1>1. PICK q \in Nat, d \in Seq(Byte) :
        /\ Long(d, q) /\ Chained(o.key, d, o.out) /\ o.iv = Link(o.out, q)
        /\ p = (d \o o.chunk) \o o.in
  BY DEF Chaining
<1> DEFINE r == [o EXCEPT !.in = data]
<1>2. r.key = o.key /\ r.out = o.out /\ r.iv = o.iv /\ r.chunk = o.chunk /\ r.in = data
  BY DEF Object
<1>3. o.chunk \in Seq(Byte) /\ d \o o.chunk \in Seq(Byte)
  BY ConcatProperties DEF Object
<1>4. p = d \o o.chunk
  BY <1>1, <1>3, ConcatEmptySeq
<1> HIDE DEF r
<1>5. p \o data = (d \o r.chunk) \o r.in
  BY <1>2, <1>4
<1>6. Chaining(r, p \o data)
  BY <1>1, <1>2, <1>5 DEF Chaining
<1> QED BY <1>6 DEF r

\* What the chunk is filled up with at the end is a part of the text, too.
LEMMA ChainingPads ==
  ASSUME NEW o \in Object, o.in = <<>>, NEW p, Chaining(o, p),
         NEW pad \in Seq(Byte)
  PROVE  Chaining([o EXCEPT !.chunk = o.chunk \o pad], p \o pad)
<1>1. PICK q \in Nat, d \in Seq(Byte) :
        /\ Long(d, q) /\ Chained(o.key, d, o.out) /\ o.iv = Link(o.out, q)
        /\ p = (d \o o.chunk) \o o.in
  BY DEF Chaining
<1> DEFINE r == [o EXCEPT !.chunk = o.chunk \o pad]
<1>2. /\ r.key = o.key /\ r.out = o.out /\ r.iv = o.iv /\ r.in = o.in
      /\ r.chunk = o.chunk \o pad
  BY DEF Object
<1>3. /\ o.chunk \in Seq(Byte) /\ d \o o.chunk \in Seq(Byte)
      /\ o.chunk \o pad \in Seq(Byte) /\ d \o (o.chunk \o pad) \in Seq(Byte)
  BY ConcatProperties DEF Object
<1>4. p = d \o o.chunk
  BY <1>1, <1>3, ConcatEmptySeq
<1>5. (d \o o.chunk) \o pad = d \o (o.chunk \o pad)
  <2>1. Assoc(d, o.chunk, pad)
    BY <1>1, <1>3, AssociativeAt, Zenon
  <2> QED BY <2>1 DEF Assoc
<1>6. (d \o (o.chunk \o pad)) \o << >> = d \o (o.chunk \o pad)
  BY <1>3, ConcatEmptySeq
<1> HIDE DEF r
<1>7. p \o pad = (d \o r.chunk) \o r.in
  BY <1>2, <1>4, <1>5, <1>6
<1>8. Chaining(r, p \o pad)
  BY <1>1, <1>2, <1>7 DEF Chaining
<1> QED BY <1>8 DEF r

\* Filling the chunk moves bytes, and keeps them in order.
LEMMA FilledText ==
  ASSUME NEW o \in Object, Len(o.chunk) <= Block
  PROVE  Filled(o).chunk \o Filled(o).in = o.chunk \o o.in
<1> DEFINE n == Least(Block - Len(o.chunk), Len(o.in))
           a == SubSeq(o.in, 1, n)
           b == SubSeq(o.in, n + 1, Len(o.in))
<1>1. o.chunk \in Seq(Byte) /\ o.in \in Seq(Byte)
  BY DEF Object
<1>2. Len(o.chunk) \in Nat /\ Len(o.in) \in Nat /\ Block \in Nat
  BY <1>1, LenProperties, ShapeAssumption
<1>3. n \in 0 .. Len(o.in)
  BY <1>2, LeastProperties
<1>4. Filled(o).chunk = o.chunk \o a /\ Filled(o).in = b
  BY DEF Filled, Object
<1> HIDE DEF n
<1>5. a \o b = o.in
  <2>1. n \in Nat /\ n <= Len(o.in) /\ 0 \in Nat /\ 0 <= n /\ 0 + 1 = 1
    BY <1>2, <1>3
  <2>2. SubSeq(o.in, 1, n) \o SubSeq(o.in, n + 1, Len(o.in)) = SubSeq(o.in, 1, Len(o.in))
    <3>1. 1 \in 1 .. Len(o.in) + 1 /\ n \in 1 - 1 .. Len(o.in)
          /\ Len(o.in) \in n .. Len(o.in)
      BY <1>2, <1>3
    <3> QED BY <1>1, <3>1, ConcatAdjacentSubSeq
  <2> QED BY <1>1, <2>2, SubSeqFull
<1>6. a \in Seq(Byte) /\ b \in Seq(Byte)
  <2>1. /\ n \in Nat /\ n <= Len(o.in) /\ 0 \in Nat /\ 0 <= n /\ 0 + 1 = 1
        /\ Len(o.in) <= Len(o.in)
    BY <1>2, <1>3
  <2>2. SubSeq(o.in, 0 + 1, n) \in Seq(Byte)
    BY <1>1, <2>1, PartOf
  <2>3. SubSeq(o.in, n + 1, Len(o.in)) \in Seq(Byte)
    BY <1>1, <1>2, <2>1, PartOf
  <2> QED BY <2>1, <2>2, <2>3
<1> HIDE DEF a, b
<1>7. (o.chunk \o a) \o b = o.chunk \o (a \o b)
  BY <1>1, <1>6, Associative, Zenon
<1> QED BY <1>4, <1>5, <1>7

LEMMA ChainingFills ==
  ASSUME NEW o \in Object, Len(o.chunk) <= Block, NEW p, Chaining(o, p)
  PROVE  Chaining(Filled(o), p)
<1>1. PICK q \in Nat, d \in Seq(Byte) :
        /\ Long(d, q) /\ Chained(o.key, d, o.out) /\ o.iv = Link(o.out, q)
        /\ p = (d \o o.chunk) \o o.in
  BY DEF Chaining
<1> DEFINE f == Filled(o)
<1>2. /\ f \in Object /\ f.out = o.out /\ f.key = o.key /\ f.iv = o.iv
      /\ f.chunk \o f.in = o.chunk \o o.in
  BY FilledProperties, FilledText
<1> HIDE DEF f
<1>3. /\ f.chunk \in Seq(Byte) /\ f.in \in Seq(Byte)
      /\ o.chunk \in Seq(Byte) /\ o.in \in Seq(Byte)
  BY <1>2 DEF Object
<1>4. /\ (d \o f.chunk) \o f.in = d \o (f.chunk \o f.in)
      /\ (d \o o.chunk) \o o.in = d \o (o.chunk \o o.in)
  <2>1. Assoc(d, f.chunk, f.in) /\ Assoc(d, o.chunk, o.in)
    BY <1>1, <1>3, AssociativeAt, Zenon
  <2> QED BY <2>1 DEF Assoc
<1>5. p = (d \o f.chunk) \o f.in
  BY <1>1, <1>2, <1>4
<1>6. Chaining(f, p)
  BY <1>1, <1>2, <1>5 DEF Chaining
<1> QED BY <1>6 DEF f

LEMMA ChainingEncrypts ==
  ASSUME NEW o \in Object, Len(o.chunk) = Block, o.key # None,
         NEW p, Chaining(o, p)
  PROVE  Chaining(EncryptChunk(o), p)
<1>1. PICK q \in Nat, d \in Seq(Byte) :
        /\ Long(d, q) /\ Chained(o.key, d, o.out) /\ o.iv = Link(o.out, q)
        /\ p = (d \o o.chunk) \o o.in
  BY DEF Chaining
<1>2. /\ o.chunk \in Chunk /\ o.key \in Key /\ o.out \in Seq(Byte)
      /\ o.chunk \in Seq(Byte) /\ o.in \in Seq(Byte)
  BY SeqIsBlock DEF Object
<1> DEFINE g == EncryptChunk(o)
<1>a. PICK k \in Key, c \in Seq(Byte), b \in Chunk :
        k = o.key /\ c = o.out /\ b = o.chunk
  BY <1>2
<1>b. PICK e : e = E(k, XorBlock(Link(c, q), b))
  OBVIOUS
<1>3. /\ Chained(o.key, d \o o.chunk, o.out \o e)
      /\ Long(d \o o.chunk, q + 1) /\ Link(o.out \o e, q + 1) = e
  <2>1. q \in Nat /\ d \in Seq(Byte) /\ Long(d, q) /\ Chained(k, d, c)
    BY <1>1, <1>a
  <2>2. /\ Chained(k, d \o b, c \o e) /\ Long(d \o b, q + 1)
        /\ Link(c \o e, q + 1) = e
    BY <1>a, <1>b, <2>1, ChainGrows
  <2> QED BY <1>a, <2>2
<1>4. /\ g.key = o.key /\ g.chunk = <<>> /\ g.in = o.in
      /\ g.out = o.out \o e /\ g.iv = e
  BY <1>1, <1>a, <1>b DEF EncryptChunk, Object
<1> HIDE DEF g
<1>5. d \o o.chunk \in Seq(Byte) /\ (d \o o.chunk) \o << >> = d \o o.chunk
  BY <1>2, ConcatProperties, ConcatEmptySeq
<1>6. Long(d \o o.chunk, q + 1) /\ q + 1 \in Nat
  BY <1>1, <1>3
<1>7. p = ((d \o o.chunk) \o g.chunk) \o g.in
  BY <1>1, <1>4, <1>5
<1>8. Chaining(g, p)
  BY <1>3, <1>4, <1>5, <1>6, <1>7 DEF Chaining
<1> QED BY <1>8 DEF g

\* One turn of the loop.
LEMMA ChainingTurns ==
  ASSUME NEW o \in Object, Len(o.chunk) <= Block, o.key # None,
         NEW p, Chaining(o, p)
  PROVE  Chaining(EncTurn(o), p)
<1>1. /\ Filled(o) \in Object /\ Filled(o).key # None
      /\ Chaining(Filled(o), p)
  BY FilledProperties, ChainingFills
<1>2. CASE Len(Filled(o).chunk) = Block
  BY <1>1, <1>2, ChainingEncrypts DEF EncTurn
<1>3. CASE Len(Filled(o).chunk) # Block
  BY <1>1, <1>3 DEF EncTurn
<1> QED BY <1>2, <1>3

\* When nothing is left over the buffer holds the whole text.
LEMMA ChainingEnds ==
  ASSUME NEW o, o.chunk = <<>>, o.in = <<>>, NEW p, Chaining(o, p)
  PROVE  Chained(o.key, p, o.out)
<1>1. PICK q \in Nat, d \in Seq(Byte) :
        /\ Chained(o.key, d, o.out)
        /\ p = (d \o o.chunk) \o o.in
  BY DEF Chaining
<1>2. (d \o <<>>) \o <<>> = d
  BY ConcatEmptySeq
<1> QED BY <1>1, <1>2
-----------------------------------------------------------------------------
(* Padding *)

LEMMA RestOfBlocks ==
  ASSUME NEW q \in Nat, NEW g \in Nat \ {0}, NEW l \in Nat, l < g
  PROVE  (q * g + l) % g = l
<1> DEFINE x == q * g
           a == x + l
           d == a \div g
           r == a % g
<1>1. x \in Nat /\ a \in Nat
  OBVIOUS
<1>2. \A y \in Nat : y \div g \in Int /\ y % g \in 0 .. g - 1 /\ y = g * (y \div g) + (y % g)
  OBVIOUS
<1>3. d \in Int /\ r \in 0 .. g - 1 /\ a = g * d + r
  BY <1>1, <1>2
<1> HIDE DEF d, r
<1>4. CASE q <= d - 1
  <2>1. g * d = q * g + g + (d - 1 - q) * g /\ (d - 1 - q) * g >= 0
    BY <1>3, <1>4
  <2> QED BY <1>3, <2>1
<1>5. CASE d <= q - 1
  <2>1. q * g = g * d + g + (q - 1 - d) * g /\ (q - 1 - d) * g >= 0
    BY <1>3, <1>5
  <2> QED BY <1>3, <2>1
<1>6. CASE q = d
  <2>1. g * d = x
    BY <1>6
  <2>2. r = l
    BY <1>1, <1>3, <2>1
  <2> QED BY <2>2 DEF r
<1> QED BY <1>3, <1>4, <1>5, <1>6

\* How many bytes of padding the message gets.
PadOf(len) ==
  (Block - (len % Block)) + (IF padding = "rfc2246" THEN Block * Extra ELSE 0)

LEMMA FillType ==
  ASSUME NEW n \in Nat, NEW b \in Byte
  PROVE  Fill(n, b) \in Seq(Byte) /\ Len(Fill(n, b)) = n
<1>1. \A j \in 1 .. n : b \in Byte
  OBVIOUS
<1> QED BY <1>1, IsASeq DEF Fill

LEMMA PadOfProperties ==
  ASSUME NEW len \in Nat, padding \in {"pkcs7", "rfc2246"}
  PROVE  LET n == PadOf(len) IN
           /\ n \in Nat \ {0} /\ PadValue(n) \in Byte
           /\ padding = "pkcs7" => n <= Block
<1> DEFINE n == PadOf(len)
           x == Block * Extra
           l == len % Block
<1>1. Block \in Nat \ {0} /\ x \in Nat /\ l \in 0 .. Block - 1
  BY ShapeAssumption
<1>2. n = (Block - l) + (IF padding = "rfc2246" THEN x ELSE 0)
  BY DEF PadOf
<1>3. Block \in Byte /\ 0 .. Block + x - 1 \subseteq Byte
  BY ShapeAssumption
<1> HIDE DEF n, l, x
<1>4. n \in 1 .. Block + x
  BY <1>1, <1>2
<1>5. CASE padding = "rfc2246"
  <2>1. PadValue(n) = n - 1 /\ n - 1 \in 0 .. Block + x - 1
    BY <1>1, <1>4, <1>5 DEF PadValue
  <2>2. PadValue(n) \in Byte
    BY <1>3, <2>1
  <2> QED BY <1>1, <1>4, <1>5, <2>2 DEF n
<1>6. CASE padding = "pkcs7"
  <2>1. n <= Block /\ PadValue(n) = n
    BY <1>1, <1>2, <1>6 DEF PadValue
  <2>2. n = Block \/ n \in 0 .. Block + x - 1
    BY <1>1, <1>4, <2>1
  <2>3. PadValue(n) \in Byte
    BY <1>3, <2>1, <2>2
  <2> QED BY <1>1, <1>4, <2>1, <2>3 DEF n
<1> QED BY <1>5, <1>6

\* The padded message.
LEMMA PaddedShape ==
  ASSUME padding \in {"pkcs7", "rfc2246"}, message \in Seq(Byte)
  PROVE  LET n == PadOf(Len(message)) IN Padded = message \o Fill(n, PadValue(n))
<1>1. CASE padding = "pkcs7"
  <2>1. PadOf(Len(message)) = (Block - (Len(message) % Block)) + 0
    BY <1>1 DEF PadOf
  <2>2. Len(message) % Block \in Int
    BY LenProperties, ShapeAssumption
  <2>3. PadOf(Len(message)) = Block - (Len(message) % Block)
    BY <2>1, <2>2, ShapeAssumption
  <2> QED BY <1>1, <2>3 DEF Padded, Fill, PadValue
<1>2. CASE padding = "rfc2246"
  BY <1>2 DEF Padded, PadOf, Fill, PadValue
<1> QED BY <1>1, <1>2

LEMMA PaddedNone ==
  ASSUME padding = "none", message \in Seq(Byte)
  PROVE  Padded = message
<1>1. Padded = message \o [j \in 1 .. 0 |-> 0 - 1]
  BY DEF Padded
<1>2. [j \in 1 .. 0 |-> 0 - 1] = << >>
  OBVIOUS
<1> QED BY <1>1, <1>2, ConcatEmptySeq

LEMMA PaddedType ==
  ASSUME padding \in Padding, message \in Seq(Byte)
  PROVE  Padded \in Seq(Byte)
<1>1. CASE padding = "none"
  BY <1>1, PaddedNone
<1>2. CASE padding # "none"
  <2>1. padding \in {"pkcs7", "rfc2246"}
    BY <1>2, ShapeAssumption
  <2>2. Len(message) \in Nat
    BY LenProperties
  <2>3. PICK n : n = PadOf(Len(message))
    OBVIOUS
  <2>4. n \in Nat /\ PadValue(n) \in Byte
    BY <2>1, <2>2, <2>3, PadOfProperties
  <2>5. Fill(n, PadValue(n)) \in Seq(Byte)
    BY <2>4, FillType
  <2>6. Padded = message \o Fill(n, PadValue(n))
    BY <2>1, <2>3, PaddedShape
  <2> QED BY <2>5, <2>6, ConcatProperties
<1> QED BY <1>1, <1>2

\* What the object is short of a block is what the message is.
LEMMA PaddingOfObject ==
  ASSUME NEW o \in Object, Len(o.chunk) < Block, o.in = <<>>, Chaining(o, message),
         padding \in {"pkcs7", "rfc2246"}, message \in Seq(Byte)
  PROVE  LET n == PadSize(o) IN
           Padded = message \o Fill(n, PadValue(n))
<1>1. PICK q \in Nat, d \in Seq(Byte) :
        Long(d, q) /\ message = (d \o o.chunk) \o o.in
  BY DEF Chaining
<1>2. o.chunk \in Seq(Byte) /\ Len(o.chunk) \in Nat
  BY LenProperties DEF Object
<1>3. d \o o.chunk \in Seq(Byte) /\ Len(d \o o.chunk) = Len(d) + Len(o.chunk)
  BY <1>1, <1>2, ConcatProperties
<1>4. message = d \o o.chunk
  BY <1>1, <1>3, ConcatEmptySeq
<1>5. Len(message) = q * Block + Len(o.chunk)
  BY <1>1, <1>3, <1>4 DEF Long
<1>6. Block \in Nat \ {0}
  BY ShapeAssumption
<1>7. Len(message) % Block = Len(o.chunk)
  BY <1>1, <1>2, <1>5, <1>6, RestOfBlocks
<1>8. PadOf(Len(message)) = PadSize(o)
  BY <1>7 DEF PadOf, PadSize
<1> QED BY <1>8, PaddedShape
\* The padded message is some number of whole blocks.
LEMMA PaddedLength ==
  ASSUME padding \in {"pkcs7", "rfc2246"}, message \in Seq(Byte)
  PROVE  \E m \in Nat \ {0} : Long(Padded, m)
<1> DEFINE len == Len(message)
           g == Block
           d == len \div g
           l == len % g
           x == g * Extra
           n == PadOf(len)
<1>1. g \in Nat \ {0} /\ Extra \in Nat /\ len \in Nat /\ x \in Nat
  BY ShapeAssumption, LenProperties
<1>2. \A y \in Nat : y \div g \in Nat /\ y % g \in 0 .. g - 1 /\ y = g * (y \div g) + (y % g)
  BY <1>1
<1>3. d \in Nat /\ l \in 0 .. g - 1 /\ len = g * d + l
  BY <1>1, <1>2
<1>4. n \in Nat \ {0} /\ PadValue(n) \in Byte
  BY <1>1, PadOfProperties
<1>5. n = (g - l) + (IF padding = "rfc2246" THEN x ELSE 0)
  BY DEF PadOf
<1> HIDE DEF n
<1>6. Padded = message \o Fill(n, PadValue(n))
  BY PaddedShape DEF n
<1>7. Len(Padded) = len + n
  <2>1. Fill(n, PadValue(n)) \in Seq(Byte) /\ Len(Fill(n, PadValue(n))) = n
    BY <1>4, FillType
  <2> HIDE DEF len
  <2>2. Len(Padded) = Len(message) + Len(Fill(n, PadValue(n)))
    BY <1>6, <2>1, ConcatProperties
  <2> QED BY <2>1, <2>2 DEF len
<1> HIDE DEF d, l, len, g
<1>8. CASE padding = "rfc2246"
  <2>1. (d + 1 + Extra) * g = g * d + g + g * Extra
    BY <1>1, <1>3
  <2>2. g * d \in Int
    BY <1>1, <1>3
  <2>3. len + n = g * d + g + x
    BY <1>1, <1>3, <1>5, <1>8, <2>2
  <2>4. d + 1 + Extra \in Nat \ {0} /\ Len(Padded) = (d + 1 + Extra) * g
    BY <1>1, <1>3, <1>7, <2>1, <2>3
  <2> QED BY <2>4 DEF Long, g
<1>9. CASE padding = "pkcs7"
  <2>1. (d + 1) * g = g * d + g /\ g * d \in Int
    BY <1>1, <1>3
  <2>2. len + n = g * d + g
    BY <1>1, <1>3, <1>5, <1>9, <2>1
  <2>3. d + 1 \in Nat \ {0} /\ Len(Padded) = (d + 1) * g
    BY <1>3, <1>7, <2>1, <2>2
  <2> QED BY <2>3 DEF Long, g
<1> QED BY <1>8, <1>9

\* So nothing of it is left over.
LEMMA PaddedLeavesNothing ==
  ASSUME NEW o \in Object, Len(o.chunk) < Block, o.in = <<>>, Chaining(o, Padded),
         padding \in {"pkcs7", "rfc2246"}, message \in Seq(Byte)
  PROVE  o.chunk = <<>>
<1>1. PICK q \in Nat, d \in Seq(Byte) :
        Long(d, q) /\ Padded = (d \o o.chunk) \o o.in
  BY DEF Chaining
<1>2. o.chunk \in Seq(Byte) /\ Len(o.chunk) \in Nat /\ Block \in Nat \ {0}
  BY LenProperties, ShapeAssumption DEF Object
<1>3. d \o o.chunk \in Seq(Byte) /\ Len(d \o o.chunk) = Len(d) + Len(o.chunk)
  BY <1>1, <1>2, ConcatProperties
<1>4. Len(Padded) = q * Block + Len(o.chunk)
  <2>1. Padded = d \o o.chunk
    BY <1>1, <1>3, ConcatEmptySeq
  <2> QED BY <1>1, <1>3, <2>1 DEF Long
<1>5. PICK m \in Nat : Len(Padded) = m * Block
  BY PaddedLength DEF Long
<1>6. Len(Padded) % Block = Len(o.chunk)
  BY <1>1, <1>2, <1>4, RestOfBlocks
<1>7. PICK z \in Nat : z = 0
  OBVIOUS
<1>8. (m * Block + z) % Block = z
  <2>1. z < Block
    BY <1>2, <1>7
  <2> QED BY <1>2, <1>5, <1>7, <2>1, RestOfBlocks, Zenon
<1>9. Len(o.chunk) = 0
  BY <1>2, <1>5, <1>6, <1>7, <1>8
<1> QED BY <1>2, <1>9, EmptySeq

-----------------------------------------------------------------------------
(* The text the encrypting object has made *)

EncText ==
  /\ pc \in {"enc", "encAdd", "encPad"} /\ enc.key # None => enc.key = keys.enc
  /\ pc \in {"enc", "encAdd"} /\ enc.key = None =>
       message = <<>> /\ Reset(enc).chunk = <<>> /\ Reset(enc).out = <<>>
  /\ pc \in {"enc", "encAdd"} /\ enc.key # None => Chaining(Reset(enc), message)
  /\ pc = "encPad" => Chaining(enc, Padded)
  /\ pc = "encPad" => padding = "rfc2246"
  /\ pc \in {"dec", "decAdd", "done"} =>
       /\ enc.key = None /\ keys.enc \in Key
       /\ Chained(keys.enc, Padded, cipher) /\ WholeBlocks(Len(cipher))

LEMMA InitText == Init => EncText
BY DEF Init, EncText, NewObject, Reset

\* An object whose text is complete is sealed.
LEMMA FinishText ==
  ASSUME IInv', NEW o \in Object, o.key \in Key, o.key = keys.enc,
         o.chunk = <<>>, o.in = <<>>, Chaining(o, Padded), Finish(o),
         UNCHANGED <<padding, keys, message>>
  PROVE  EncText'
<1>1. enc'.key = None /\ enc'.out = o.out /\ cipher' = o.out /\ pc' = "dec"
  BY DEF Finish, Sealed, Object
<1>2. Padded' = Padded
  BY DEF Padded
<1>3. Chained(keys.enc, Padded, o.out)
  BY ChainingEnds
<1>4. Chained(keys.enc, Padded, cipher)'
  BY <1>1, <1>2, <1>3 DEF Chained, BlockOf, XorBlock
<1>5. WholeBlocks(Len(cipher))'
  BY <1>1 DEF IInv, ChunkHasRoom
<1> QED BY <1>1, <1>4, <1>5 DEF EncText

LEMMA EncryptText == IInv /\ IInv' /\ EncText /\ Encrypt => EncText'
<1> SUFFICES ASSUME IInv, IInv', EncText, Encrypt PROVE EncText'
  OBVIOUS
<1>1. /\ enc \in Object /\ Len(enc.chunk) < Block /\ message \in Seq(Byte)
      /\ padding \in Padding /\ Block \in Nat \ {0} /\ None \notin Key
  BY ShapeAssumption DEF IInv, TypeOK, ChunkHasRoom
<1> DEFINE r == Reset(enc)
<1>2. /\ r \in Object /\ r.in = enc.in /\ r.key = enc.key /\ ~r.calculated
      /\ enc.calculated => r.chunk = <<>> /\ r.out = <<>>
      /\ ~enc.calculated => r = enc
  BY <1>1, ResetProperties
<1>3. pc = "enc" => r.in = <<>> /\ Len(r.chunk) < Block
  BY <1>1, <1>2, EmptySeq DEF IInv, CallsInOrder
<1>4. r.key # None => r.key \in Key
  BY <1>2 DEF Object
<1>5. \A o : ~o.calculated => Reset(o) = o
  BY DEF Reset
<1> HIDE DEF r
<1>6. ASSUME NEW k \in Key, EncSetUp(k) PROVE EncText'
  <2>1. /\ pc = "enc" /\ enc.key = None /\ message = <<>>
        /\ r.chunk = <<>> /\ r.out = <<>> /\ r.in = <<>>
    BY <1>3, <1>6 DEF EncSetUp, EncText, r
  <2>2. enc' = [enc EXCEPT !.iv = Iv, !.key = k]
    BY <1>6 DEF EncSetUp, SetUp
  <2>3. /\ Reset(enc').iv = Iv /\ Reset(enc').chunk = <<>> /\ Reset(enc').out = <<>>
        /\ Reset(enc').in = <<>>
    BY <1>1, <2>1, <2>2 DEF Reset, Object, r
  <2>4. Chaining(Reset(enc'), <<>>)
    BY <2>3, ChainingBegins
  <2>5. enc'.key = k /\ keys'.enc = k /\ pc' = "enc" /\ message' = <<>>
    BY <1>1, <1>6, <2>1, <2>2 DEF EncSetUp, Object, IInv, TypeOK
  <2>6. Chaining(Reset(enc), message)'
    BY <2>4, <2>5 DEF Chaining, Chained, Long, Link, BlockOf, XorBlock, Reset
  <2> QED BY <1>1, <2>5, <2>6 DEF EncText
<1>7. ASSUME NEW data \in Pieces, EncAdd(data) PROVE EncText'
  <2>1. data \in Seq(Byte)
    <3>1. PICK n \in 0 .. MaxLen : data \in [1 .. n -> Byte]
      BY <1>7 DEF Pieces
    <3>2. n \in Nat /\ data = [j \in 1 .. n |-> data[j]]
          /\ \A j \in 1 .. n : data[j] \in Byte
      BY <3>1, ShapeAssumption
    <3> QED BY <3>2, IsASeq
  <2>2. /\ pc = "enc" /\ enc.key # None /\ pc' = "encAdd" /\ keys' = keys
        /\ message' = message \o data /\ enc' = [r EXCEPT !.in = data]
    BY <1>7 DEF EncAdd, r
  <2>3. Chaining(r, message) /\ r.in = <<>>
    BY <1>3, <2>2 DEF EncText, r
  <2>4. Chaining(enc', message')
    BY <1>2, <2>1, <2>2, <2>3, ChainingAdds
  <2>5. enc'.key = enc.key /\ ~enc'.calculated
    BY <1>2, <2>2 DEF Object
  <2>6. Reset(enc)' = enc'
    BY <2>5 DEF Reset
  <2>7. Chaining(Reset(enc), message)'
    BY <2>4, <2>6 DEF Chaining, Chained, Long, Link, BlockOf, XorBlock
  <2> QED BY <2>2, <2>5, <2>7 DEF EncText
<1>8. ASSUME EncLoop PROVE EncText'
  <2>1. /\ enc' = EncTurn(enc) /\ ~enc.calculated /\ enc.key # None
        /\ pc' = pc /\ pc \in {"encAdd", "encPad"}
        /\ UNCHANGED <<keys, message, padding>>
    BY <1>8 DEF EncLoop, IInv, CallsInOrder
  <2>2. Len(enc.chunk) <= Block /\ WholeBlocks(Len(enc.out))
    BY <1>1, LenProperties DEF Object, IInv, ChunkHasRoom
  <2>3. enc'.key = enc.key /\ ~enc'.calculated
    BY <1>1, <2>1, <2>2, EncTurnProperties
  <2>4. Reset(enc)' = enc' /\ Reset(enc) = enc /\ Padded' = Padded
    BY <2>1, <2>3 DEF Reset, Padded
  <2>5. CASE pc = "encAdd"
    <3>1. Chaining(enc', message)
      BY <1>1, <2>1, <2>2, <2>4, <2>5, ChainingTurns DEF EncText
    <3>2. Chaining(Reset(enc), message)'
      BY <2>1, <2>4, <3>1 DEF Chaining, Chained, Long, Link, BlockOf, XorBlock
    <3> QED BY <2>1, <2>3, <2>5, <3>2 DEF EncText
  <2>6. CASE pc = "encPad"
    <3>1. Chaining(enc', Padded)
      BY <1>1, <2>1, <2>2, <2>6, ChainingTurns DEF EncText
    <3>2. Chaining(enc, Padded)'
      BY <2>4, <3>1 DEF Chaining, Chained, Long, Link, BlockOf, XorBlock
    <3> QED BY <2>1, <2>3, <2>6, <3>2 DEF EncText
  <2> QED BY <2>1, <2>5, <2>6
<1>9. ASSUME EncAddEnds PROVE EncText'
  <2>1. /\ pc = "encAdd" /\ pc' = "enc" /\ enc' = enc /\ UNCHANGED <<keys, message>>
    BY <1>9 DEF EncAddEnds
  <2>2. Chaining(Reset(enc), message)' = Chaining(Reset(enc), message)
    BY <2>1 DEF Chaining, Chained, Long, Link, BlockOf, XorBlock, Reset
  <2> QED BY <2>1, <2>2 DEF EncText
<1>10. ASSUME EncCalculateNone PROVE EncText'
  <2>1. /\ pc = "enc" /\ enc.key # None /\ padding = "none" /\ r.chunk = <<>>
        /\ Finish(r) /\ UNCHANGED <<padding, keys, message>>
    BY <1>10 DEF EncCalculateNone, r
  <2>2. Chaining(r, message) /\ enc.key = keys.enc
    BY <2>1 DEF EncText, r
  <2>3. Padded = message
    BY <1>1, <2>1, PaddedNone
  <2> QED BY <1>2, <1>3, <1>4, <2>1, <2>2, <2>3, FinishText
<1>11. ASSUME EncCalculatePkcs7 PROVE EncText'
  <2> DEFINE n == PadSize(r)
             f == Fill(n, PadValue(n))
             o == [r EXCEPT !.chunk = r.chunk \o f]
             g == EncryptChunk(o)
  <2>1. /\ pc = "enc" /\ enc.key # None /\ padding = "pkcs7"
        /\ Finish(g) /\ UNCHANGED <<padding, keys, message>>
    BY <1>11 DEF EncCalculatePkcs7, r
  <2>2. Chaining(r, message) /\ enc.key = keys.enc
    BY <2>1 DEF EncText, r
  <2>3. f \in Seq(Byte) /\ Len(f) = n /\ Len(r.chunk) + n = Block
    BY <1>2, <1>3, <2>1, PaddingProperties
  <2>4. Padded = message \o f
    BY <1>1, <1>2, <1>3, <2>1, <2>2, PaddingOfObject
  <2> HIDE DEF n, f
  <2>5. r.chunk \in Seq(Byte)
    BY <1>2 DEF Object
  <2>6. r.chunk \o f \in Seq(Byte) /\ Len(r.chunk \o f) = Block
    BY <2>3, <2>5
  <2>7. o \in Object /\ Len(o.chunk) = Block /\ o.key = r.key /\ o.in = r.in
    BY <1>2, <2>6 DEF Object
  <2>8. Chaining(o, Padded)
    BY <1>2, <1>3, <2>1, <2>2, <2>3, <2>4, ChainingPads
  <2> HIDE DEF o
  <2>9. /\ Chaining(g, Padded) /\ g \in Object
        /\ g.chunk = <<>> /\ g.in = r.in /\ g.key = r.key
    BY <1>2, <2>1, <2>7, <2>8, ChainingEncrypts, EncryptChunkProperties
  <2> HIDE DEF g
  <2> QED BY <1>2, <1>3, <1>4, <2>1, <2>2, <2>9, FinishText
<1>12. ASSUME EncCalculateRfc2246 PROVE EncText'
  <2> DEFINE n == PadSize(r)
             f == Fill(n, PadValue(n))
  <2>1. /\ pc = "enc" /\ enc.key # None /\ padding = "rfc2246" /\ pc' = "encPad"
        /\ enc' = [r EXCEPT !.in = f] /\ UNCHANGED <<padding, keys, message>>
    BY <1>12 DEF EncCalculateRfc2246, r
  <2>2. Chaining(r, message) /\ enc.key = keys.enc
    BY <2>1 DEF EncText, r
  <2>3. f \in Seq(Byte)
    BY <1>2, <1>3, <2>1, PaddingProperties
  <2>4. Padded = message \o f
    BY <1>1, <1>2, <1>3, <2>1, <2>2, PaddingOfObject
  <2> HIDE DEF n, f
  <2>5. Chaining(enc', Padded)
    BY <1>2, <1>3, <2>1, <2>2, <2>3, <2>4, ChainingAdds
  <2>6. enc'.key = enc.key /\ Padded' = Padded
    BY <1>2, <2>1 DEF Object, Padded
  <2>7. Chaining(enc, Padded)'
    BY <2>5, <2>6 DEF Chaining, Chained, Long, Link, BlockOf, XorBlock
  <2> QED BY <2>1, <2>2, <2>6, <2>7 DEF EncText
<1>13. ASSUME EncPadEnds PROVE EncText'
  <2>1. /\ pc = "encPad" /\ enc.in = <<>> /\ Finish(enc)
        /\ UNCHANGED <<padding, keys, message>>
    BY <1>13 DEF EncPadEnds
  <2>2. /\ Chaining(enc, Padded) /\ padding = "rfc2246"
        /\ enc.key # None /\ enc.key = keys.enc
    BY <2>1 DEF EncText, IInv, CallsInOrder
  <2>3. enc.chunk = <<>>
    BY <1>1, <2>1, <2>2, PaddedLeavesNothing
  <2>4. enc.key \in Key
    BY <1>1, <2>2 DEF Object
  <2> QED BY <1>1, <2>1, <2>2, <2>3, <2>4, FinishText
<1> QED
  BY <1>6, <1>7, <1>8, <1>9, <1>10, <1>11, <1>12, <1>13 DEF Encrypt

\* The decrypting client leaves it alone, and a new message begins with none.
LEMMA NextText == IInv /\ IInv' /\ EncText /\ [Next]_vars => EncText'
<1> SUFFICES ASSUME IInv, IInv', EncText, [Next]_vars PROVE EncText'
  OBVIOUS
<1>1. CASE Encrypt
  BY <1>1, EncryptText
<1>2. CASE Decrypt
  <2>1. /\ UNCHANGED <<padding, enc, message, cipher>> /\ keys'.enc = keys.enc
        /\ pc \in {"dec", "decAdd"} /\ pc' \in {"dec", "decAdd", "done"}
    BY <1>2 DEF Decrypt, DecSetUp, DecAdd, DecLoop, DecAddEnds, Drain, DecCalculate,
                IInv, TypeOK
  <2>2. Padded' = Padded
    BY <2>1 DEF Padded
  <2>3. Chained(keys.enc, Padded, cipher)' <=> Chained(keys.enc, Padded, cipher)
    BY <2>1, <2>2 DEF Chained, BlockOf, XorBlock
  <2>4. WholeBlocks(Len(cipher))' <=> WholeBlocks(Len(cipher))
    BY <2>1 DEF WholeBlocks
  <2> QED BY <2>1, <2>3, <2>4 DEF EncText
<1>3. CASE Again
  <2>1. /\ pc = "done" /\ pc' = "enc" /\ enc' = enc /\ message' = <<>>
        /\ enc.key = None /\ enc.calculated
    BY <1>3 DEF Again, EncText, IInv, CallsInOrder
  <2>2. enc \in Object
    BY DEF IInv, TypeOK
  <2>3. Reset(enc').chunk = <<>> /\ Reset(enc').out = <<>>
    BY <2>1, <2>2, ResetProperties
  <2> QED BY <2>1, <2>3 DEF EncText
<1>4. CASE UNCHANGED vars
  <2>1. UNCHANGED <<pc, enc, keys, message, cipher>> /\ Padded' = Padded
    BY <1>4 DEF vars, Padded
  <2>2. /\ Reset(enc)' = Reset(enc)
        /\ Chaining(Reset(enc), message)' <=> Chaining(Reset(enc), message)
        /\ Chaining(enc, Padded)' <=> Chaining(enc, Padded)
    BY <2>1 DEF Chaining, Chained, Long, Link, BlockOf, XorBlock, Reset
  <2>3. /\ Chained(keys.enc, Padded, cipher)' <=> Chained(keys.enc, Padded, cipher)
        /\ WholeBlocks(Len(cipher))' <=> WholeBlocks(Len(cipher))
    BY <2>1 DEF Chained, BlockOf, XorBlock, WholeBlocks
  <2>4. padding' = padding
    BY <1>4 DEF vars
  <2> QED BY <2>1, <2>2, <2>3, <2>4 DEF EncText
<1> QED BY <1>1, <1>2, <1>3, <1>4 DEF Next

-----------------------------------------------------------------------------
(* Decryption *)

\* The object o has undone the chain of some whole blocks of the n bytes of
\* the text c it was given, and the rest of them is in its chunk and its data.
\* What came out is what the client has taken, t, and the buffer: where the
\* key is right, the text p.
Undoing(o, c, n, t, right, p) ==
  \E q \in Nat :
    /\ q * Block + Len(o.chunk) + Len(o.in) = n
    /\ o.chunk \o o.in = SubSeq(c, q * Block + 1, n)
    /\ Long(t \o o.out, q)
    /\ o.key # None => o.iv = Link(c, q)
    /\ right => t \o o.out = SubSeq(p, 1, q * Block)

LEMMA UndoingBegins ==
  ASSUME NEW o, o.chunk = <<>>, o.in = <<>>, o.out = <<>>, o.key = None \/ o.iv = Iv,
         NEW c, NEW right, NEW p
  PROVE  Undoing(o, c, 0, <<>>, right, p)
<1>1. << >> \in Seq(Byte) /\ Len(<< >>) = 0 /\ 0 * Block = 0
  BY EmptySeq, ShapeAssumption
<1>2. << >> \o << >> = << >>
  BY <1>1, ConcatEmptySeq
<1>3. SubSeq(c, 0 * Block + 1, 0) = <<>> /\ SubSeq(p, 1, 0 * Block) = <<>>
  <2>1. SubSeq(c, 1, 0) = <<>> /\ SubSeq(p, 1, 0) = <<>>
    BY SubSeqEmpty
  <2> QED BY <1>1, <2>1
<1>4. Long(<<>> \o o.out, 0)
  BY <1>1, <1>2 DEF Long
<1>5. 0 * Block + Len(o.chunk) + Len(o.in) = 0
  BY <1>1
<1>6. o.key # None => o.iv = Link(c, 0)
  BY DEF Link
<1> QED BY <1>2, <1>3, <1>4, <1>5, <1>6, 0 \in Nat DEF Undoing

\* A vector that is set when nothing was decrypted yet.
LEMMA UndoingSetUp ==
  ASSUME NEW o \in Object, NEW c, NEW t, NEW p, NEW right, NEW same,
         Undoing(o, c, 0, t, right, p),
         NEW r, r.chunk = o.chunk, r.in = o.in, r.out = o.out, r.iv = Iv
  PROVE  Undoing(r, c, 0, t, same, p)
<1>1. PICK q \in Nat :
        /\ q * Block + Len(o.chunk) + Len(o.in) = 0
        /\ o.chunk \o o.in = SubSeq(c, q * Block + 1, 0)
        /\ Long(t \o o.out, q)
  BY DEF Undoing
<1>2. Len(o.chunk) \in Nat /\ Len(o.in) \in Nat /\ q * Block \in Nat
  BY <1>1, LenProperties, BlockBounds DEF Object
<1>3. q * Block = 0
  BY <1>1, <1>2
<1>4. q = 0
  <2>1. CASE q # 0
    <3>1. q * Block = (q - 1) * Block + Block /\ (q - 1) * Block \in Nat
      BY <1>1, <2>1, BlockBounds
    <3> QED BY <1>3, <3>1, ShapeAssumption
  <2> QED BY <2>1
<1>5. r.iv = Link(c, q)
  BY <1>4 DEF Link
<1>6. t \o r.out = SubSeq(p, 1, q * Block)
  <2>1. SubSeq(p, 1, 0) = <<>>
    BY SubSeqEmpty
  <2>2. Len(t \o o.out) = 0
    BY <1>1, <1>3 DEF Long
  <2> QED BY <1>3, <2>1, <2>2
<1> QED BY <1>1, <1>5, <1>6 DEF Undoing

\* r is o with the text c from n to e handed over to it.
Adds(r, o, c, n, e) == r = [o EXCEPT !.in = SubSeq(c, n + 1, e)]

\* More of the text arrives.
LEMMA UndoingAdds ==
  ASSUME NEW o \in Object, o.in = <<>>, NEW c \in Seq(Byte), NEW n \in Nat,
         NEW e \in Nat, n <= e, e <= Len(c), NEW t, NEW right, NEW p,
         Undoing(o, c, n, t, right, p), NEW r, Adds(r, o, c, n, e)
  PROVE  Undoing(r, c, e, t, right, p)
<1>1. PICK q \in Nat :
        /\ q * Block + Len(o.chunk) + Len(o.in) = n
        /\ o.chunk \o o.in = SubSeq(c, q * Block + 1, n)
        /\ Long(t \o o.out, q)
        /\ o.key # None => o.iv = Link(c, q)
        /\ right => t \o o.out = SubSeq(p, 1, q * Block)
  BY DEF Undoing
<1> DEFINE data == SubSeq(c, n + 1, e)
           b == q * Block
<1>2. /\ r.chunk = o.chunk /\ r.in = data /\ r.out = o.out /\ r.key = o.key
      /\ r.iv = o.iv
  BY DEF Object, Adds
<1>3. /\ o.chunk \in Seq(Byte) /\ Len(o.chunk) \in Nat /\ Len(c) \in Nat
      /\ b \in Nat /\ Len(o.in) = 0
  BY <1>1, LenProperties, BlockBounds, EmptySeq DEF Object
<1>4. b <= n /\ b + Len(o.chunk) = n
  BY <1>1, <1>3
<1>5. o.chunk = SubSeq(c, b + 1, n)
  BY <1>1, <1>3, ConcatEmptySeq
<1> HIDE DEF b
<1>6. Len(data) = e - n
  BY PartOf
<1>7. o.chunk \o data = SubSeq(c, b + 1, e)
  <2>1. b + 1 \in 1 .. Len(c) + 1 /\ n \in (b + 1) - 1 .. Len(c) /\ e \in n .. Len(c)
    BY <1>3, <1>4
  <2> QED BY <1>5, <2>1, ConcatAdjacentSubSeq
<1> HIDE DEF data
<1>8. b + Len(r.chunk) + Len(r.in) = e
  BY <1>2, <1>3, <1>4, <1>6
<1> QED BY <1>1, <1>2, <1>7, <1>8 DEF Undoing, b

LEMMA UndoingFills ==
  ASSUME NEW o \in Object, Len(o.chunk) <= Block, NEW c, NEW n, NEW t, NEW right, NEW p,
         Undoing(o, c, n, t, right, p)
  PROVE  Undoing(Filled(o), c, n, t, right, p)
<1>1. PICK q \in Nat :
        /\ q * Block + Len(o.chunk) + Len(o.in) = n
        /\ o.chunk \o o.in = SubSeq(c, q * Block + 1, n)
        /\ Long(t \o o.out, q)
        /\ o.key # None => o.iv = Link(c, q)
        /\ right => t \o o.out = SubSeq(p, 1, q * Block)
  BY DEF Undoing
<1> DEFINE f == Filled(o)
           b == q * Block
<1>2. /\ f \in Object /\ f.out = o.out /\ f.key = o.key /\ f.iv = o.iv
      /\ Len(f.chunk) + Len(f.in) = Len(o.chunk) + Len(o.in)
      /\ f.chunk \o f.in = o.chunk \o o.in
  BY FilledProperties, FilledText
<1> HIDE DEF f
<1>3. /\ Len(f.chunk) \in Nat /\ Len(f.in) \in Nat /\ b \in Nat
      /\ Len(o.chunk) \in Nat /\ Len(o.in) \in Nat
  BY <1>1, <1>2, LenProperties, BlockBounds DEF Object
<1> HIDE DEF b
<1>4. b + Len(f.chunk) + Len(f.in) = n
  <2>1. b + Len(o.chunk) + Len(o.in) = n
    BY <1>1 DEF b
  <2>2. PICK i \in Nat, j \in Nat, k \in Nat, l \in Nat, m \in Nat :
          /\ i = b /\ j = Len(f.chunk) /\ k = Len(f.in)
          /\ l = Len(o.chunk) /\ m = Len(o.in)
    BY <1>3
  <2>3. j + k = l + m
    BY <1>2, <2>2
  <2>4. i + l + m = n
    BY <2>1, <2>2
  <2>5. i + j + k = n
    BY <2>3, <2>4
  <2> QED BY <2>2, <2>5
<1>5. Undoing(f, c, n, t, right, p)
  BY <1>1, <1>2, <1>4 DEF Undoing, b
<1> QED BY <1>5 DEF f

\* The client takes what there is.
LEMMA UndoingDrains ==
  ASSUME NEW o \in Object, NEW c, NEW n, NEW t \in Seq(Byte), NEW right, NEW p,
         Undoing(o, c, n, t, right, p)
  PROVE  Undoing([o EXCEPT !.out = <<>>], c, n, t \o o.out, right, p)
<1> DEFINE r == [o EXCEPT !.out = <<>>]
<1>1. /\ r.chunk = o.chunk /\ r.in = o.in /\ r.out = <<>> /\ r.key = o.key
      /\ r.iv = o.iv
  BY DEF Object
<1>2. (t \o o.out) \o <<>> = t \o o.out
  <2>1. t \o o.out \in Seq(Byte)
    BY ConcatProperties DEF Object
  <2> QED BY <2>1, ConcatEmptySeq
<1> HIDE DEF r
<1>3. Undoing(r, c, n, t \o o.out, right, p)
  BY <1>1, <1>2 DEF Undoing
<1> QED BY <1>3 DEF r

LEMMA DivBound ==
  ASSUME NEW i \in Nat, NEW g \in Nat \ {0}, NEW l \in Nat, i * g <= l
  PROVE  i <= l \div g /\ l \div g \in Nat
<1> DEFINE d == l \div g
<1>1. d \in Nat /\ l < g * d + g
  OBVIOUS
<1> HIDE DEF d
<1>2. CASE d + 1 <= i
  <2>1. i * g = g * d + g + (i - d - 1) * g /\ (i - d - 1) * g >= 0
    BY <1>1, <1>2
  <2>2. i * g \in Int /\ g * d \in Int
    BY <1>1
  <2> QED BY <1>1, <2>1, <2>2
<1> QED BY <1>1, <1>2 DEF d

\* A block of a chained text.
LEMMA ChainedBlock ==
  ASSUME NEW k, NEW p \in Seq(Byte), NEW c, Chained(k, p, c), NEW q \in Nat,
         (q + 1) * Block <= Len(p)
  PROVE  BlockOf(c, q + 1) = E(k, XorBlock(Link(c, q), BlockOf(p, q + 1)))
<1>1. q + 1 <= Len(p) \div Block /\ Len(p) \div Block \in Nat
  <2>1. q + 1 \in Nat /\ Len(p) \in Nat /\ Block \in Nat \ {0}
    BY LenProperties, ShapeAssumption
  <2> QED BY <2>1, DivBound
<1>2. PICK i \in 1 .. Len(p) \div Block : i = q + 1
  BY <1>1
<1>3. BlockOf(c, i) = E(k, XorBlock(IF i = 1 THEN Iv ELSE BlockOf(c, i - 1), BlockOf(p, i)))
  BY <1>2 DEF Chained
<1>4. Link(c, q) = IF i = 1 THEN Iv ELSE BlockOf(c, i - 1)
  <2>1. (i = 1 <=> q = 0) /\ i - 1 = q
    BY <1>2
  <2> QED BY <2>1 DEF Link
<1> QED BY <1>2, <1>3, <1>4

LEMMA XorTwice ==
  ASSUME NEW a \in Chunk, NEW b \in Chunk
  PROVE  XorBlock(a, XorBlock(a, b)) = b
<1>1. \A j \in 1 .. Block : a[j] \in Byte /\ b[j] \in Byte
  BY DEF Chunk
<1>2. \A j \in 1 .. Block : Xor(a[j], Xor(a[j], b[j])) = b[j]
  BY <1>1, CipherAssumption
<1>3. XorBlock(a, XorBlock(a, b)) = [j \in 1 .. Block |-> Xor(a[j], Xor(a[j], b[j]))]
  BY DEF XorBlock
<1>4. b = [j \in 1 .. Block |-> b[j]]
  BY DEF Chunk
<1> QED BY <1>2, <1>3, <1>4

\* A full chunk is undone.
LEMMA UndoingDecrypts ==
  ASSUME NEW o \in Object, Len(o.chunk) = Block, o.key # None,
         NEW c \in Seq(Byte), NEW n \in Nat, n <= Len(c), NEW t \in Seq(Byte),
         NEW p \in Seq(Byte), NEW right, right => Chained(o.key, p, c),
         Undoing(o, c, n, t, right, p)
  PROVE  Undoing(DecryptChunk(o), c, n, t, right, p)
<1>1. PICK q \in Nat :
        /\ q * Block + Len(o.chunk) + Len(o.in) = n
        /\ o.chunk \o o.in = SubSeq(c, q * Block + 1, n)
        /\ Long(t \o o.out, q)
        /\ o.key # None => o.iv = Link(c, q)
        /\ right => t \o o.out = SubSeq(p, 1, q * Block)
  BY DEF Undoing
<1>2. PICK b \in Nat : b = q * Block
  BY <1>1, BlockBounds
<1>3. /\ (q + 1) * Block = b + Block /\ (q + 1) - 1 = q /\ q + 1 \in Nat
      /\ Block \in Nat \ {0} /\ Len(c) \in Nat
  BY <1>1, <1>2, BlockBounds, ShapeAssumption, LenProperties
<1>4. PICK k \in Key, a \in Chunk, w \in Chunk, h \in Seq(Byte), u \in Seq(Byte) :
        k = o.key /\ a = o.chunk /\ w = o.iv /\ h = o.in /\ u = o.out
  BY SeqIsBlock DEF Object
<1>5. a \in Seq(Byte) /\ Len(a) = Block /\ Len(h) \in Nat
  BY <1>4, BlockIsSeq, LenProperties
<1>6. b + Block + Len(h) = n
  BY <1>1, <1>2, <1>4, <1>5
<1>7. b <= n
  BY <1>2, <1>3, <1>5, <1>6
<1>8. a = SubSeq(c, b + 1, b + Block) /\ h = SubSeq(c, b + Block + 1, n)
  <2>1. a \o h = SubSeq(c, b + 1, n)
    BY <1>1, <1>2, <1>4
  <2>2. PICK e \in Nat : e = b + Block
    BY <1>2, <1>3
  <2>3. e = b + Len(a)
    BY <1>5, <2>2
  <2>4. Halves(c, b, n, e, a, h)
    BY <1>5, <1>7, <2>1, <2>3, PartsOf, Zenon
  <2> QED BY <2>2, <2>4 DEF Halves
<1>9. BlockOf(c, q + 1) = a
  BY <1>2, <1>3, <1>8 DEF BlockOf
<1>10. PICK x : x = XorBlock(w, D(k, a))
  OBVIOUS
<1>11. x \in Chunk /\ x \in Seq(Byte) /\ Len(x) = Block
  BY <1>4, <1>10, XorBlockType, CipherAssumption, BlockIsSeq
<1> DEFINE g == DecryptChunk(o)
<1>12. g.chunk = <<>> /\ g.in = h /\ g.out = u \o x /\ g.iv = a /\ g.key = k
  BY <1>4, <1>10 DEF DecryptChunk, Object
<1> HIDE DEF g
<1>13. (q + 1) * Block + Len(g.chunk) + Len(g.in) = n
  BY <1>3, <1>6, <1>12, EmptySeq
<1>14. g.chunk \o g.in = SubSeq(c, (q + 1) * Block + 1, n)
  BY <1>3, <1>4, <1>8, <1>12, ConcatEmptySeq
<1>15. t \o g.out = (t \o u) \o x /\ t \o u \in Seq(Byte)
  <2>1. t \o u \in Seq(Byte)
    BY <1>4, ConcatProperties
  <2>2. (t \o u) \o x = t \o (u \o x)
    <3>1. t \in Seq(Byte) /\ u \in Seq(Byte) /\ x \in Seq(Byte)
      BY <1>4, <1>11
    <3>2. Assoc(t, u, x)
      BY ONLY <3>1, AssociativeAt, Zenon
    <3> QED BY ONLY <3>2 DEF Assoc
  <2> QED BY <1>12, <2>1, <2>2
<1>16. Long(t \o g.out, q + 1)
  <2>1. Len((t \o u) \o x) = Len(t \o u) + Len(x)
    BY <1>11, <1>15, ConcatProperties
  <2>2. Len(t \o u) = b
    BY <1>1, <1>2, <1>4 DEF Long
  <2> QED BY <1>3, <1>11, <1>15, <2>1, <2>2 DEF Long
<1>17. g.iv = Link(c, q + 1)
  BY <1>3, <1>9, <1>12 DEF Link
<1>18. ASSUME right PROVE t \o g.out = SubSeq(p, 1, (q + 1) * Block)
  <2>1. Chained(k, p, c) /\ Len(p) = Len(c)
    BY <1>4, <1>18 DEF Chained
  <2>2. b + Block <= Len(p)
    BY <1>3, <1>5, <1>6, <2>1
  <2>3. (q + 1) * Block <= Len(p)
    BY <1>3, <2>2
  <2>4. a = E(k, XorBlock(Link(c, q), BlockOf(p, q + 1)))
    BY <1>1, <1>9, <2>1, <2>3, ChainedBlock
  <2>5. PICK y \in Chunk : y = BlockOf(p, q + 1)
    <3>1. q + 1 \in Nat \ {0}
      BY <1>1
    <3> QED BY <2>3, <3>1, BlockType
  <2>6. Link(c, q) = w
    BY <1>1, <1>4
  <2>7. D(k, a) = XorBlock(w, y)
    <3>1. XorBlock(w, y) \in Chunk
      BY <1>4, <2>5, XorBlockType
    <3> QED BY <1>4, <2>4, <2>5, <2>6, <3>1, CipherAssumption
  <2>8. x = y
    BY <1>4, <1>10, <2>5, <2>7, XorTwice
  <2>9. y = SubSeq(p, b + 1, b + Block)
    BY <1>2, <1>3, <2>5 DEF BlockOf
  <2>10. t \o u = SubSeq(p, 1, b)
    BY <1>1, <1>2, <1>4, <1>18
  <2>11. SubSeq(p, 1, b) \o SubSeq(p, b + 1, b + Block) = SubSeq(p, 1, b + Block)
    <3>1. 1 \in 1 .. Len(p) + 1 /\ b \in 1 - 1 .. Len(p) /\ b + Block \in b .. Len(p)
      BY <1>2, <1>3, <2>1, <2>2
    <3> QED BY <3>1, ConcatAdjacentSubSeq
  <2> QED BY <1>3, <1>15, <2>8, <2>9, <2>10, <2>11
<1>19. Undoing(g, c, n, t, right, p)
  BY <1>3, <1>13, <1>14, <1>16, <1>17, <1>18 DEF Undoing
<1> QED BY <1>19 DEF g

LEMMA UndoingTurns ==
  ASSUME NEW o \in Object, Len(o.chunk) <= Block, o.key # None,
         NEW c \in Seq(Byte), NEW n \in Nat, n <= Len(c), NEW t \in Seq(Byte),
         NEW p \in Seq(Byte), NEW right, right => Chained(o.key, p, c),
         Undoing(o, c, n, t, right, p)
  PROVE  Undoing(DecTurn(o), c, n, t, right, p)
<1> DEFINE f == Filled(o)
<1>1. f \in Object /\ f.key = o.key
  BY FilledProperties
<1>2. Undoing(f, c, n, t, right, p)
  BY UndoingFills
<1>3. DecTurn(o) = IF Len(f.chunk) = Block /\ (padding = "none" \/ f.in # <<>>)
                   THEN DecryptChunk(f) ELSE f
  BY DEF DecTurn
<1> HIDE DEF f
<1>4. CASE Len(f.chunk) = Block /\ (padding = "none" \/ f.in # <<>>)
  <2>1. Undoing(DecryptChunk(f), c, n, t, right, p)
    BY <1>1, <1>2, <1>4, UndoingDecrypts
  <2> QED BY <1>3, <1>4, <2>1
<1>5. CASE ~(Len(f.chunk) = Block /\ (padding = "none" \/ f.in # <<>>))
  BY <1>2, <1>3, <1>5
<1> QED BY <1>4, <1>5

\* What o has not decrypted of the n bytes it was given: less than a block
\* without padding, and something with padding.
HeldBack(o, n) ==
  /\ padding = "none" => Len(o.chunk) < Block
  /\ padding # "none" /\ n > 0 => Len(o.chunk) + Len(o.in) > 0

LEMMA HeldBackTurns ==
  ASSUME NEW o \in Object, Len(o.chunk) <= Block, o.key # None, NEW n, HeldBack(o, n)
  PROVE  HeldBack(DecTurn(o), n)
<1> DEFINE f == Filled(o)
           g == DecryptChunk(f)
<1>1. /\ f \in Object /\ f.key = o.key /\ Len(f.chunk) <= Block
      /\ Len(f.chunk) + Len(f.in) = Len(o.chunk) + Len(o.in)
  BY FilledProperties
<1>2. DecTurn(o) = IF Len(f.chunk) = Block /\ (padding = "none" \/ f.in # <<>>)
                   THEN g ELSE f
  BY DEF DecTurn
<1> HIDE DEF f
<1>3. /\ Len(f.chunk) \in Nat /\ Len(f.in) \in Nat /\ Block \in Nat \ {0}
      /\ f.in # <<>> => Len(f.in) > 0
  BY <1>1, LenProperties, EmptySeq, ShapeAssumption DEF Object
<1>4. CASE Len(f.chunk) = Block /\ (padding = "none" \/ f.in # <<>>)
  <2>1. g.chunk = <<>> /\ g.in = f.in
    BY <1>1, <1>4, DecryptChunkProperties
  <2> HIDE DEF g
  <2>2. Len(g.chunk) = 0 /\ Len(g.in) = Len(f.in) /\ DecTurn(o) = g
    BY <1>2, <1>4, <2>1
  <2>3. Len(g.chunk) < Block
    BY <1>3, <2>2
  <2>4. padding # "none" => Len(g.chunk) + Len(g.in) > 0
    BY <1>3, <1>4, <2>2
  <2> QED BY <2>2, <2>3, <2>4 DEF HeldBack
<1>5. CASE ~(Len(f.chunk) = Block /\ (padding = "none" \/ f.in # <<>>))
  <2>1. DecTurn(o) = f
    BY <1>2, <1>5
  <2>2. padding = "none" => Len(f.chunk) < Block
    BY <1>1, <1>3, <1>5
  <2> QED BY <1>1, <2>1, <2>2 DEF HeldBack
<1> QED BY <1>4, <1>5

\* What is decrypted so far, in every state: nothing before there is a text to
\* decrypt, and from then on what the object, the client and the text make up.
DecText ==
  /\ pc \in {"enc", "encAdd", "encPad"} =>
       dec.key = None /\ taken = <<>> /\ Reset(dec).chunk = <<>> /\ Reset(dec).out = <<>>
  /\ pc # "decAdd" => dec.in = <<>>
  /\ pc = "decAdd" => ~dec.calculated
  /\ pc \in {"dec", "decAdd"} =>
       /\ Undoing(Reset(dec), cipher, fed, taken, keys.dec = keys.enc, Padded)
       /\ HeldBack(Reset(dec), fed)
       /\ IF dec.key = None THEN fed = 0 ELSE keys.dec = dec.key
       /\ padding \notin Drains => taken = <<>>
  /\ pc = "done" => dec.key = None /\ dec.calculated

LEMMA InitDecText == Init => DecText
<1> SUFFICES ASSUME Init PROVE DecText
  OBVIOUS
<1>1. dec = NewObject /\ taken = <<>> /\ pc = "enc"
  BY DEF Init
<1>2. /\ NewObject.chunk = <<>> /\ NewObject.in = <<>> /\ NewObject.out = <<>>
      /\ NewObject.key = None /\ ~NewObject.calculated
  BY DEF NewObject
<1> QED BY <1>1, <1>2 DEF DecText, Reset

LEMMA LastBlockData ==
  ASSUME NEW o \in Object, Len(o.chunk) = Block, o.key # None
  PROVE  Unpad(o).object.in = o.in
<1> DEFINE f == DecryptChunk(o)
<1>1. f \in Object /\ f.in = o.in
  BY DecryptChunkProperties
<1>2. Unpad(o).object = f
      \/ \E t : Unpad(o).object = [f EXCEPT !.out = t]
  BY DEF Unpad
<1> HIDE DEF f
<1> QED BY <1>1, <1>2 DEF Object

LEMMA DecryptText == IInv /\ IInv' /\ EncText /\ DecText /\ Decrypt => DecText'
<1> SUFFICES ASSUME IInv, IInv', EncText, DecText, Decrypt PROVE DecText'
  OBVIOUS
<1> DEFINE r == Reset(dec)
           right == keys.dec = keys.enc
<1>1. /\ dec \in Object /\ Len(dec.chunk) <= Block /\ dec' \in Object
      /\ padding \in Padding /\ Block \in Nat \ {0} /\ None \notin Key
      /\ cipher \in Seq(Byte) /\ taken \in Seq(Byte) /\ message \in Seq(Byte)
      /\ fed \in Nat /\ fed <= Len(cipher) /\ Len(cipher) \in Nat
      /\ keys \in [enc : Key \cup {None}, dec : Key \cup {None}]
  BY ShapeAssumption, LenProperties DEF IInv, TypeOK
<1>2. /\ r \in Object /\ r.in = dec.in /\ r.key = dec.key /\ r.iv = dec.iv
      /\ ~r.calculated /\ (~dec.calculated => r = dec)
      /\ dec.calculated => r.chunk = <<>> /\ r.out = <<>>
  BY <1>1, ResetProperties
<1>3. Len(r.chunk) <= Block
  BY <1>1, <1>2, EmptySeq
<1>4. Padded \in Seq(Byte)
  BY <1>1, PaddedType
<1>5. pc \in {"dec", "decAdd"} /\ UNCHANGED <<padding, message, cipher>>
  BY DEF Decrypt, DecSetUp, DecAdd, DecLoop, DecAddEnds, Drain, DecCalculate
<1>6. /\ Undoing(r, cipher, fed, taken, right, Padded) /\ HeldBack(r, fed)
      /\ IF dec.key = None THEN fed = 0 ELSE keys.dec = dec.key
      /\ padding \notin Drains => taken = <<>>
  BY <1>5 DEF DecText, r, right
<1>7. ASSUME dec.key # None, right PROVE Chained(r.key, Padded, cipher)
  <2>1. Chained(keys.enc, Padded, cipher)
    BY <1>5 DEF EncText
  <2> QED BY <1>2, <1>6, <1>7, <2>1 DEF right
<1>8. ASSUME NEW x, NEW n, NEW t, NEW same,
             x = Reset(dec'), n = fed', t = taken', same = (keys'.dec = keys'.enc),
             Undoing(x, cipher, n, t, same, Padded)
      PROVE  Undoing(Reset(dec), cipher, fed, taken, keys.dec = keys.enc, Padded)'
  <2>1. Padded' = Padded
    BY <1>5 DEF Padded
  <2> QED BY <1>5, <1>8, <2>1 DEF Undoing, Long, Link, BlockOf, Reset
<1>9. ASSUME NEW x, NEW n, x = Reset(dec'), n = fed', HeldBack(x, n)
      PROVE  HeldBack(Reset(dec), fed)'
  BY <1>5, <1>9 DEF HeldBack, Reset
<1> HIDE DEF r, right
<1>10. ASSUME NEW k \in Key, DecSetUp(k) PROVE DecText'
  <2>1. /\ pc = "dec" /\ pc' = "dec" /\ dec.key = None /\ fed' = fed /\ taken' = taken
        /\ dec' = [dec EXCEPT !.iv = Iv, !.key = k] /\ keys' = [keys EXCEPT !.dec = k]
    BY <1>10 DEF DecSetUp, SetUp
  <2>2. fed = 0 /\ dec'.key = k /\ keys'.dec = k /\ dec'.in = <<>>
    BY <1>1, <1>6, <2>1 DEF Object, DecText
  <2> DEFINE x == Reset(dec')
  <2>3. /\ x.chunk = r.chunk /\ x.in = r.in /\ x.out = r.out /\ x.iv = Iv
    BY <1>1, <2>1 DEF Reset, Object, r
  <2> HIDE DEF x
  <2>4. Undoing(x, cipher, 0, taken, keys'.dec = keys'.enc, Padded)
    BY <1>2, <1>6, <2>2, <2>3, UndoingSetUp
  <2>5. HeldBack(x, 0)
    BY <1>6, <2>2, <2>3 DEF HeldBack
  <2>6. /\ Undoing(Reset(dec), cipher, fed, taken, keys.dec = keys.enc, Padded)'
        /\ HeldBack(Reset(dec), fed)'
    BY <1>8, <1>9, <2>1, <2>2, <2>4, <2>5 DEF x
  <2> QED BY <1>5, <1>6, <2>1, <2>2, <2>6 DEF DecText
<1>11. ASSUME NEW n \in 1 .. Len(cipher), DecAdd(n) PROVE DecText'
  <2>1. /\ pc = "dec" /\ pc' = "decAdd" /\ dec.key # None /\ fed + n <= Len(cipher)
        /\ fed' = fed + n /\ taken' = taken /\ keys' = keys
        /\ dec' = [r EXCEPT !.in = SubSeq(cipher, fed + 1, fed + n)]
    BY <1>11 DEF DecAdd, r
  <2>2. r.in = <<>>
    BY <1>2, <2>1 DEF DecText
  <2>3. Undoing(dec', cipher, fed + n, taken, right, Padded)
    <3>1. PICK e \in Nat : e = fed + n
      BY <1>1
    <3>2. fed <= e /\ e <= Len(cipher)
      BY <1>1, <2>1, <3>1
    <3>3. Adds(dec', r, cipher, fed, e)
      BY <2>1, <3>1 DEF Adds
    <3>4. Undoing(dec', cipher, e, taken, right, Padded)
      BY <1>1, <1>2, <1>6, <2>2, <3>2, <3>3, UndoingAdds, Zenon
    <3> QED BY <3>1, <3>4
  <2>4. /\ ~dec'.calculated /\ dec'.key = dec.key /\ dec'.chunk = r.chunk
        /\ dec'.in = SubSeq(cipher, fed + 1, fed + n)
    BY <1>2, <2>1 DEF Object
  <2>5. Len(dec'.in) = n
    <3>1. fed + n \in Nat /\ fed <= fed + n /\ (fed + n) - fed = n
      BY <1>1
    <3> QED BY <1>1, <2>1, <2>4, <3>1, PartOf
  <2>6. Reset(dec') = dec'
    BY <2>4 DEF Reset
  <2>7. HeldBack(dec', fed + n)
    <3>1. Len(dec'.chunk) \in Nat
      BY <1>1, LenProperties DEF Object
    <3> QED BY <1>1, <1>6, <2>4, <2>5, <3>1 DEF HeldBack
  <2>8. /\ Undoing(Reset(dec), cipher, fed, taken, keys.dec = keys.enc, Padded)'
        /\ HeldBack(Reset(dec), fed)'
    BY <1>8, <1>9, <2>1, <2>3, <2>6, <2>7 DEF right
  <2> QED BY <1>5, <1>6, <2>1, <2>4, <2>8 DEF DecText
<1>12. ASSUME DecLoop PROVE DecText'
  <2>1. /\ pc = "decAdd" /\ pc' = "decAdd" /\ dec' = DecTurn(dec)
        /\ fed' = fed /\ taken' = taken /\ keys' = keys /\ ~dec.calculated
    BY <1>12 DEF DecLoop, DecText
  <2>2. dec.key # None /\ r = dec
    BY <1>2, <2>1 DEF IInv, CallsInOrder
  <2>3. dec'.key = dec.key /\ ~dec'.calculated
    BY <1>1, <2>1, <2>2, DecTurnProperties
  <2>4. Undoing(dec', cipher, fed, taken, right, Padded)
    BY <1>1, <1>4, <1>6, <1>7, <2>1, <2>2, UndoingTurns
  <2>5. HeldBack(dec', fed)
    BY <1>1, <1>6, <2>1, <2>2, HeldBackTurns
  <2>6. Reset(dec') = dec'
    BY <2>3 DEF Reset
  <2>7. /\ Undoing(Reset(dec), cipher, fed, taken, keys.dec = keys.enc, Padded)'
        /\ HeldBack(Reset(dec), fed)'
    BY <1>8, <1>9, <2>1, <2>4, <2>5, <2>6 DEF right
  <2> QED BY <1>5, <1>6, <2>1, <2>3, <2>7 DEF DecText
<1>13. ASSUME DecAddEnds PROVE DecText'
  <2>1. /\ pc' = "dec" /\ dec' = dec /\ dec.in = <<>>
        /\ fed' = fed /\ taken' = taken /\ keys' = keys
    BY <1>13 DEF DecAddEnds
  <2>2. /\ Undoing(Reset(dec), cipher, fed, taken, keys.dec = keys.enc, Padded)'
        /\ HeldBack(Reset(dec), fed)'
    BY <1>6, <1>8, <1>9, <2>1 DEF right, r
  <2> QED BY <1>5, <1>6, <2>1, <2>2 DEF DecText
<1>14. ASSUME Drain PROVE DecText'
  <2>1. /\ padding \in Drains /\ pc = "dec" /\ pc' = "dec" /\ ~dec.calculated
        /\ dec' = [dec EXCEPT !.out = <<>>] /\ taken' = taken \o dec.out
        /\ fed' = fed /\ keys' = keys
    BY <1>14 DEF Drain
  <2>2. r = dec /\ dec.in = <<>>
    BY <1>2, <2>1 DEF DecText
  <2>3. Undoing(dec', cipher, fed, taken', right, Padded)
    BY <1>1, <1>6, <2>1, <2>2, UndoingDrains
  <2>4. /\ dec'.key = dec.key /\ ~dec'.calculated /\ dec'.chunk = dec.chunk
        /\ dec'.in = dec.in
    BY <1>1, <2>1 DEF Object
  <2>5. HeldBack(dec', fed)
    BY <1>6, <2>2, <2>4 DEF HeldBack
  <2>6. Reset(dec') = dec'
    BY <2>4 DEF Reset
  <2>7. /\ Undoing(Reset(dec), cipher, fed, taken, keys.dec = keys.enc, Padded)'
        /\ HeldBack(Reset(dec), fed)'
    BY <1>8, <1>9, <2>1, <2>3, <2>5, <2>6 DEF right
  <2> QED BY <1>5, <1>6, <2>1, <2>2, <2>4, <2>7 DEF DecText
<1>15. ASSUME DecCalculate PROVE DecText'
  <2> DEFINE l == LastBlock(r)
  <2>1. /\ pc = "dec" /\ pc' = "done" /\ dec.key # None /\ dec' = Sealed(l.object)
    BY <1>15 DEF DecCalculate, r
  <2>2. dec.in = <<>>
    BY <2>1 DEF DecText
  <2>3. l.object.in = <<>>
    <3>1. CASE padding # "none" /\ Len(r.chunk) = Block
      BY <1>2, <2>1, <2>2, <3>1, LastBlockData DEF LastBlock
    <3>2. CASE ~(padding # "none" /\ Len(r.chunk) = Block)
      BY <1>2, <2>2, <3>2 DEF LastBlock
    <3> QED BY <3>1, <3>2
  <2>4. l.object \in Object
    BY <1>1, <1>2, <1>3, <2>1, LastBlockProperties
  <2> HIDE DEF l
  <2>5. dec'.key = None /\ dec'.calculated /\ dec'.in = <<>>
    BY <2>1, <2>3, <2>4 DEF Sealed, Object
  <2> QED BY <2>1, <2>5 DEF DecText
<1> QED BY <1>10, <1>11, <1>12, <1>13, <1>14, <1>15 DEF Decrypt

LEMMA NextDecText == IInv /\ IInv' /\ EncText /\ DecText /\ [Next]_vars => DecText'
<1> SUFFICES ASSUME IInv, IInv', EncText, DecText, [Next]_vars PROVE DecText'
  OBVIOUS
<1>1. dec \in Object /\ Block \in Nat \ {0} /\ fed \in Nat
  BY ShapeAssumption, LenProperties DEF IInv, TypeOK
<1>2. CASE Encrypt
  <2>1. /\ pc \in {"enc", "encAdd", "encPad"} /\ pc' \in {"enc", "encAdd", "encPad", "dec"}
        /\ UNCHANGED <<dec, taken, fed, padding>>
    BY <1>2 DEF Encrypt, EncSetUp, EncAdd, EncLoop, EncAddEnds, EncCalculateNone,
                EncCalculatePkcs7, EncCalculateRfc2246, EncPadEnds, Finish
  <2>2. dec.key = None /\ taken = <<>> /\ Reset(dec).chunk = <<>> /\ Reset(dec).out = <<>>
        /\ dec.in = <<>> /\ fed = 0
    BY <2>1 DEF DecText, IInv, CallsInOrder
  <2>3. Reset(dec)' = Reset(dec)
    BY <2>1 DEF Reset
  <2>4. CASE pc' # "dec"
    BY <2>1, <2>2, <2>3, <2>4 DEF DecText
  <2>5. CASE pc' = "dec"
    <3>1. Reset(dec).in = <<>> /\ Reset(dec).key = None
      BY <1>1, <2>2, ResetProperties
    <3>2. PICK c, p, right :
            c = cipher' /\ p = Padded' /\ right = (keys'.dec = keys'.enc)
      OBVIOUS
    <3>3. Undoing(Reset(dec), c, 0, <<>>, right, p)
      BY <2>2, <3>1, UndoingBegins
    <3>4. Undoing(Reset(dec), cipher, fed, taken, keys.dec = keys.enc, Padded)'
      BY <2>1, <2>2, <2>3, <3>2, <3>3 DEF Undoing, Long, Link, BlockOf
    <3>5. HeldBack(Reset(dec), fed)'
      <4>1. Len(Reset(dec).chunk) < Block
        BY <1>1, <2>2
      <4> QED BY <2>1, <2>2, <2>3, <4>1 DEF HeldBack
    <3> QED BY <2>1, <2>2, <2>5, <3>4, <3>5 DEF DecText
  <2> QED BY <2>4, <2>5
<1>3. CASE Decrypt
  BY <1>3, DecryptText
<1>4. CASE Again
  <2>1. /\ pc = "done" /\ pc' = "enc" /\ dec' = dec /\ taken' = <<>>
        /\ dec.key = None /\ dec.calculated /\ dec.in = <<>>
    BY <1>4 DEF Again, DecText
  <2>2. Reset(dec).chunk = <<>> /\ Reset(dec).out = <<>>
    BY <1>1, <2>1, ResetProperties
  <2>3. Reset(dec)' = Reset(dec)
    BY <2>1 DEF Reset
  <2> QED BY <2>1, <2>2, <2>3 DEF DecText
<1>5. CASE UNCHANGED vars
  <2>1. UNCHANGED <<pc, dec, keys, cipher, fed, taken, padding>> /\ Padded' = Padded
    BY <1>5 DEF vars, Padded
  <2>2. Reset(dec)' = Reset(dec)
    BY <2>1 DEF Reset
  <2>3. Undoing(Reset(dec), cipher, fed, taken, keys.dec = keys.enc, Padded)' <=>
          Undoing(Reset(dec), cipher, fed, taken, keys.dec = keys.enc, Padded)
    BY <2>1, <2>2 DEF Undoing, Long, Link, BlockOf
  <2>4. HeldBack(Reset(dec), fed)' <=> HeldBack(Reset(dec), fed)
    BY <2>1, <2>2 DEF HeldBack
  <2> QED BY <2>1, <2>2, <2>3, <2>4 DEF DecText
<1> QED BY <1>2, <1>3, <1>4, <1>5 DEF Next

LEMMA NoRest == \A k \in Nat : (k * Block) % Block = 0
<1>1. ASSUME NEW k \in Nat PROVE (k * Block) % Block = 0
  <2>1. (k * Block + 0) % Block = 0
    BY RestOfBlocks, ShapeAssumption
  <2>2. k * Block \in Nat
    BY BlockBounds
  <2>3. k * Block + 0 = k * Block
    BY <2>2
  <2> QED BY <2>1, <2>3
<1> QED BY <1>1

\* What decryption's calculate needs to find its last block complete: when it
\* does, the text that was handed over consists of whole blocks.
LEMMA GoodIsWhole ==
  ASSUME NEW o \in Object, o.in = <<>>, NEW c, NEW n \in Nat, NEW t, NEW right, NEW p,
         Undoing(o, c, n, t, right, p), LastBlock(o).good
  PROVE  n % Block = 0 /\ (padding # "none" => n > 0)
<1>1. PICK q \in Nat : q * Block + Len(o.chunk) + Len(o.in) = n
  BY DEF Undoing
<1>2. /\ (q + 1) * Block = q * Block + Block /\ q * Block \in Nat
      /\ Block \in Nat \ {0} /\ Len(o.in) = 0 /\ Len(o.chunk) \in Nat
  BY <1>1, BlockBounds, ShapeAssumption, LenProperties, EmptySeq DEF Object
<1>3. \A k \in Nat : (k * Block) % Block = 0
  BY NoRest
<1>4. CASE padding # "none" /\ Len(o.chunk) = Block
  <2>1. n = (q + 1) * Block /\ n > 0 /\ q + 1 \in Nat
    BY <1>1, <1>2, <1>4
  <2> QED BY <1>3, <2>1
<1>5. CASE ~(padding # "none" /\ Len(o.chunk) = Block)
  <2>1. padding = "none" /\ o.chunk = <<>>
    BY <1>5 DEF LastBlock
  <2>2. n = q * Block
    <3>1. Len(o.chunk) = 0
      BY <2>1
    <3> QED BY <1>1, <1>2, <3>1
  <2> QED BY <1>3, <2>1, <2>2
<1> QED BY <1>4, <1>5

LEMMA NextShort ==
  IInv /\ IInv' /\ DecText /\ ShortFails /\ [Next]_vars => ShortFails'
<1> SUFFICES ASSUME IInv, IInv', DecText, ShortFails, [Next]_vars PROVE ShortFails'
  OBVIOUS
<1>1. CASE DecCalculate
  <2> DEFINE r == Reset(dec)
  <2>1. dec \in Object /\ fed \in Nat
    BY LenProperties DEF IInv, TypeOK
  <2>2. /\ pc = "dec" /\ verdict' = LastBlock(r).good /\ UNCHANGED <<padding, fed>>
    BY <1>1 DEF DecCalculate
  <2>3. r \in Object /\ r.in = <<>>
    BY <2>1, <2>2, ResetProperties DEF DecText
  <2>4. Undoing(r, cipher, fed, taken, keys.dec = keys.enc, Padded)
    BY <2>2 DEF DecText
  <2> HIDE DEF r
  <2>5. LastBlock(r).good => fed % Block = 0 /\ (padding # "none" => fed > 0)
    BY <2>1, <2>3, <2>4, GoodIsWhole
  <2> QED BY <2>2, <2>5 DEF ShortFails
<1>2. CASE UNCHANGED vars
  BY <1>2 DEF ShortFails, vars
<1>3. CASE Next /\ ~DecCalculate
  <2>1. pc' # "done"
    BY <1>3 DEF Next, Encrypt, Decrypt, EncSetUp, EncAdd, EncLoop, EncAddEnds,
       EncCalculateNone, EncCalculatePkcs7, EncCalculateRfc2246, EncPadEnds, Finish,
       DecSetUp, DecAdd, DecLoop, DecAddEnds, Drain, Again
  <2> QED BY <2>1 DEF ShortFails
<1> QED BY <1>1, <1>2, <1>3

\* The first k bytes of u, after t, are m.
Leaves(t, u, k, m) == t \o SubSeq(u, 1, k) = m

\* What is left when the end w of a text is taken off the last of its two parts.
LEMMA TakenOff ==
  ASSUME NEW t \in Seq(Byte), NEW u \in Seq(Byte), NEW m \in Seq(Byte),
         NEW w \in Seq(Byte), t \o u = m \o w, Len(w) <= Len(u),
         NEW k \in Nat, k = Len(u) - Len(w)
  PROVE  Leaves(t, u, k, m)
<1>1. PICK lt \in Nat, lu \in Nat, lm \in Nat, lw \in Nat :
        lt = Len(t) /\ lu = Len(u) /\ lm = Len(m) /\ lw = Len(w)
  BY LenProperties
<1>2. /\ Len(t \o u) = lt + lu /\ Len(m \o w) = lm + lw
      /\ \A i \in 1 .. lt + lu : (t \o u)[i] = IF i <= lt THEN t[i] ELSE u[i - lt]
      /\ \A i \in 1 .. lm + lw : (m \o w)[i] = IF i <= lm THEN m[i] ELSE w[i - lm]
  BY <1>1, ConcatProperties
<1>3. k \in Nat /\ k = lu - lw /\ k <= lu /\ lt + k = lm
  BY <1>1, <1>2
<1> DEFINE v == SubSeq(u, 1, k)
<1>4. v \in Seq(Byte) /\ Len(v) = k /\ \A i \in 1 .. k : v[i] = u[i]
  <2>1. /\ SubSeq(u, 0 + 1, k) \in Seq(Byte) /\ Len(SubSeq(u, 0 + 1, k)) = k - 0
        /\ \A i \in 1 .. k - 0 : SubSeq(u, 0 + 1, k)[i] = u[0 + i]
    BY <1>1, <1>3, PartOf
  <2> QED BY <2>1
<1> HIDE DEF v
<1>5. /\ t \o v \in Seq(Byte) /\ Len(t \o v) = lt + k
      /\ \A i \in 1 .. lt + k : (t \o v)[i] = IF i <= lt THEN t[i] ELSE v[i - lt]
  <2>1. /\ t \o v \in Seq(Byte) /\ Len(t \o v) = Len(t) + Len(v)
        /\ \A i \in 1 .. Len(t) + Len(v) :
             (t \o v)[i] = IF i <= Len(t) THEN t[i] ELSE v[i - Len(t)]
    BY <1>4, ConcatProperties
  <2> QED BY <1>1, <1>4, <2>1
<1>6. ASSUME NEW i \in 1 .. lm PROVE (t \o v)[i] = m[i]
  <2>1. i \in 1 .. lt + lu /\ i \in 1 .. lm + lw /\ i <= lm /\ i \in 1 .. lt + k
    BY <1>2, <1>3
  <2>2. (t \o u)[i] = m[i]
    BY <1>2, <2>1
  <2>3. CASE i <= lt
    BY <1>2, <1>5, <2>1, <2>2, <2>3
  <2>4. CASE ~(i <= lt)
    <3>1. i - lt \in 1 .. k
      BY <1>1, <1>3, <2>4
    <3> QED BY <1>2, <1>4, <1>5, <2>1, <2>2, <2>4, <3>1
  <2> QED BY <2>3, <2>4
<1>7. t \o v = m
  BY <1>1, <1>3, <1>5, <1>6, SeqEqual
<1> QED BY <1>7 DEF v, Leaves

SameByte(u, i, w, j) == u[i] = w[j]

\* The last byte of a text is that of its last part.
LEMMA LastByte ==
  ASSUME NEW t \in Seq(Byte), NEW u \in Seq(Byte), NEW m \in Seq(Byte),
         NEW w \in Seq(Byte), t \o u = m \o w,
         NEW lu \in Nat \ {0}, lu = Len(u), NEW lw \in Nat \ {0}, lw = Len(w)
  PROVE  SameByte(u, lu, w, lw)
<1>1. PICK lt \in Nat, lm \in Nat : lt = Len(t) /\ lm = Len(m)
  BY LenProperties
<1>2. /\ Len(t \o u) = lt + lu /\ Len(m \o w) = lm + lw
      /\ \A i \in 1 .. lt + lu : (t \o u)[i] = IF i <= lt THEN t[i] ELSE u[i - lt]
      /\ \A i \in 1 .. lm + lw : (m \o w)[i] = IF i <= lm THEN m[i] ELSE w[i - lm]
  BY <1>1, ConcatProperties
<1>3. PICK i \in Nat : i = lt + lu
  BY <1>1
<1>4. /\ i \in 1 .. lt + lu /\ i \in 1 .. lm + lw
      /\ ~(i <= lt) /\ ~(i <= lm) /\ i - lt = lu /\ i - lm = lw
  BY <1>1, <1>2, <1>3
<1> QED BY <1>1, <1>2, <1>4 DEF SameByte

\* Given the whole text with the right key, calculate finds the message.
LEMMA WholeIsGood ==
  ASSUME NEW o \in Object, Len(o.chunk) <= Block, o.in = <<>>, o.key # None,
         NEW c \in Seq(Byte), WholeBlocks(Len(c)), Chained(o.key, Padded, c),
         NEW t \in Seq(Byte), padding \notin Drains => t = <<>>,
         NEW right, right, Undoing(o, c, Len(c), t, right, Padded), HeldBack(o, Len(c)),
         padding \in Padding, message \in Seq(Byte), "rfc2246" \notin Drains
  PROVE  LastBlock(o).good /\ t \o LastBlock(o).object.out = message
<1>1. PICK q \in Nat :
        /\ q * Block + Len(o.chunk) + Len(o.in) = Len(c)
        /\ t \o o.out = SubSeq(Padded, 1, q * Block)
  BY DEF Undoing
<1>2. PICK n \in Nat, l \in Nat : n = Len(c) /\ l = Len(o.chunk)
  BY LenProperties DEF Object
<1>3. /\ Len(o.in) = 0 /\ q * Block \in Nat /\ Block \in Nat \ {0}
      /\ Padded \in Seq(Byte) /\ Len(Padded) = n /\ l <= Block
  BY <1>1, <1>2, EmptySeq, BlockBounds, ShapeAssumption, PaddedType DEF Chained
<1>4. q * Block + l = n
  <2>1. PICK b \in Nat, i \in Nat : b = q * Block /\ i = Len(o.in)
    BY <1>3
  <2>2. b + l + i = n /\ i = 0
    BY <1>1, <1>2, <1>3, <2>1
  <2> QED BY <2>1, <2>2
<1>5. l < Block => l = 0
  <2>1. SUFFICES ASSUME l < Block PROVE l = 0
    OBVIOUS
  <2>2. n % Block = l
    BY <1>1, <1>2, <1>3, <1>4, <2>1, RestOfBlocks
  <2>3. PICK m \in 0 .. n : n = m * Block
    BY <1>2 DEF WholeBlocks
  <2>4. m \in Nat
    BY <1>2, <2>3
  <2>5. n % Block = 0
    BY <2>3, <2>4, NoRest
  <2> QED BY <2>2, <2>5
<1>6. CASE padding = "none"
  <2>1. l = 0
    BY <1>2, <1>5, <1>6 DEF HeldBack
  <2>2. o.chunk = <<>>
    BY <1>2, <2>1, EmptySeq DEF Object
  <2>3. LastBlock(o).good /\ LastBlock(o).object = o
    BY <1>6, <2>2 DEF LastBlock
  <2>4. q * Block = Len(Padded)
    BY <1>3, <1>4, <2>1
  <2>5. t \o o.out = Padded
    BY <1>1, <1>3, <2>4, SubSeqFull
  <2> QED BY <1>6, <2>3, <2>5, PaddedNone
<1>7. CASE padding # "none"
  <2>1. padding \in {"pkcs7", "rfc2246"}
    BY <1>7, ShapeAssumption
  <2>2. n > 0
    <3>1. PICK m \in Nat \ {0} : Long(Padded, m)
      BY <2>1, PaddedLength
    <3>2. n = m * Block /\ m * Block = (m - 1) * Block + Block /\ (m - 1) * Block \in Nat
      BY <1>3, <3>1, BlockBounds DEF Long
    <3> QED BY <1>3, <3>2
  <2>3. l = Block
    <3>1. l > 0
      BY <1>2, <1>3, <1>7, <2>2 DEF HeldBack
    <3> QED BY <1>3, <1>5, <3>1
  <2> DEFINE f == DecryptChunk(o)
  <2>4. /\ f \in Object /\ f.chunk = <<>> /\ f.in = <<>>
        /\ Len(f.out) = Len(o.out) + Block
    BY <1>2, <2>3, DecryptChunkProperties
  <2>5. Undoing(f, c, Len(c), t, right, Padded)
    <3>1. Len(o.chunk) = Block /\ n <= Len(c)
      BY <1>2, <2>3
    <3> QED BY <1>2, <1>3, <3>1, UndoingDecrypts
  <2>6. LastBlock(o) = Unpad(o)
    BY <1>2, <1>7, <2>3 DEF LastBlock
  <2>7. Unpad(o) =
          LET k == PadLength(f.out) IN
            IF k = None THEN [object |-> f, good |-> FALSE]
            ELSE [object |-> [f EXCEPT !.out = SubSeq(@, 1, Len(@) - k)], good |-> TRUE]
    BY DEF Unpad
  <2> HIDE DEF f
  <2>8. PICK u \in Seq(Byte), lu \in Nat : u = f.out /\ lu = Len(u) /\ lu >= Block
    BY <1>3, <2>4, LenProperties DEF Object
  <2>9. t \o u = Padded
    <3>1. PICK m \in Nat :
            /\ m * Block + Len(f.chunk) + Len(f.in) = Len(c)
            /\ t \o f.out = SubSeq(Padded, 1, m * Block)
      BY <2>5 DEF Undoing
    <3>2. m * Block = Len(Padded)
      <4>1. Len(f.chunk) = 0 /\ Len(f.in) = 0 /\ m * Block \in Nat
        BY <2>4, <3>1, BlockBounds
      <4> QED BY <1>2, <1>3, <3>1, <4>1
    <3> QED BY <1>3, <2>8, <3>1, <3>2, SubSeqFull
  <2>10. PICK k \in Nat \ {0} :
           k = PadOf(Len(message)) /\ PadValue(k) \in Byte /\ (padding = "pkcs7" => k <= Block)
    <3>1. Len(message) \in Nat
      BY LenProperties
    <3> QED BY <2>1, <3>1, PadOfProperties
  <2>11. PICK w \in Seq(Byte) : w = Fill(k, PadValue(k)) /\ Len(w) = k
    BY <2>10, FillType
  <2>12. t \o u = message \o w
    BY <2>1, <2>9, <2>10, <2>11, PaddedShape
  <2>13. u[lu] = PadValue(k)
    <3>1. lu \in Nat \ {0} /\ lu = Len(u) /\ k = Len(w)
      BY <1>3, <2>8, <2>11
    <3>2. SameByte(u, lu, w, k)
      BY <2>12, <3>1, LastByte, Zenon
    <3>3. k \in 1 .. k
      BY <2>10
    <3> QED BY <2>11, <3>2, <3>3 DEF Fill, SameByte
  <2>14. k <= lu
    <3>1. CASE padding = "pkcs7"
      BY <1>3, <2>8, <2>10, <3>1
    <3>2. CASE padding = "rfc2246"
      <4>1. u = message \o w
        <5>1. t = <<>>
          BY <3>2
        <5> QED BY <2>8, <2>12, <5>1, ConcatEmptySeq
      <4>2. Len(message \o w) = Len(message) + Len(w) /\ Len(message) \in Nat
        BY ConcatProperties, LenProperties
      <4>3. lu = Len(message) + k
        BY <2>8, <2>11, <4>1, <4>2
      <4> QED BY <2>8, <2>10, <4>2, <4>3
    <3> QED BY <2>1, <3>1, <3>2
  <2>15. PadLength(f.out) = k
    <3>1. CASE padding = "pkcs7"
      BY <2>8, <2>10, <2>13, <3>1 DEF PadLength, PadValue
    <3>2. CASE padding = "rfc2246"
      BY <2>8, <2>10, <2>13, <2>14, <3>2 DEF PadLength, PadValue
    <3> QED BY <2>1, <3>1, <3>2
  <2>16. k # None
    BY <2>10, ShapeAssumption
  <2>17. /\ LastBlock(o).good
         /\ LastBlock(o).object.out = SubSeq(u, 1, lu - k)
    BY <2>4, <2>6, <2>7, <2>8, <2>15, <2>16 DEF Object
  <2>18. PICK v \in Nat : v = lu - k
    BY <2>14
  <2>19. Leaves(t, u, v, message)
    <3>1. Len(w) <= Len(u) /\ v = Len(u) - Len(w)
      BY <2>8, <2>11, <2>14, <2>18
    <3> QED BY <2>12, <3>1, TakenOff, Zenon
  <2> QED BY <2>17, <2>18, <2>19 DEF Leaves
<1> QED BY <1>6, <1>7

LEMMA NextRoundTrip ==
  ASSUME "rfc2246" \notin Drains
  PROVE  IInv /\ IInv' /\ EncText /\ DecText /\ RoundTrip /\ [Next]_vars => RoundTrip'
<1> SUFFICES ASSUME IInv, IInv', EncText, DecText, RoundTrip, [Next]_vars
             PROVE  RoundTrip'
  OBVIOUS
<1>1. CASE DecCalculate
  <2> DEFINE r == Reset(dec)
             l == LastBlock(r)
  <2>1. /\ dec \in Object /\ Len(dec.chunk) <= Block /\ Block \in Nat \ {0}
        /\ cipher \in Seq(Byte) /\ taken \in Seq(Byte) /\ message \in Seq(Byte)
        /\ padding \in Padding
    BY ShapeAssumption DEF IInv, TypeOK
  <2>2. /\ pc = "dec" /\ dec.key # None /\ verdict' = l.good
        /\ dec' = Sealed(l.object) /\ UNCHANGED <<padding, keys, fed, cipher, taken, message>>
    BY <1>1 DEF DecCalculate
  <2>3. /\ r \in Object /\ r.in = <<>> /\ r.key = dec.key
        /\ r.chunk = <<>> \/ r.chunk = dec.chunk
    BY <2>1, <2>2, ResetProperties DEF DecText
  <2>4. Len(r.chunk) <= Block
    BY <2>1, <2>3, EmptySeq
  <2>5. /\ Undoing(r, cipher, fed, taken, keys.dec = keys.enc, Padded)
        /\ HeldBack(r, fed) /\ keys.dec = dec.key
        /\ padding \notin Drains => taken = <<>>
    BY <2>2 DEF DecText
  <2>6. Chained(keys.enc, Padded, cipher) /\ WholeBlocks(Len(cipher))
    BY <2>2 DEF EncText
  <2> HIDE DEF r
  <2>7. l.object \in Object
    BY <2>1, <2>2, <2>3, <2>4, LastBlockProperties
  <2>8. ASSUME fed = Len(cipher), keys.dec = keys.enc
        PROVE  l.good /\ taken \o l.object.out = message
    <3>1. PICK right : right = (keys.dec = keys.enc)
      OBVIOUS
    <3>2. Undoing(r, cipher, Len(cipher), taken, right, Padded)
      BY <2>5, <2>8, <3>1
    <3>3. Chained(r.key, Padded, cipher) /\ r.key # None
      BY <2>2, <2>3, <2>5, <2>6, <2>8
    <3> QED
      BY <2>1, <2>3, <2>4, <2>5, <2>6, <2>8, <3>1, <3>2, <3>3, WholeIsGood
  <2> HIDE DEF l
  <2>9. dec'.out = l.object.out
    BY <2>2, <2>7 DEF Sealed, Object
  <2> QED BY <2>2, <2>8, <2>9 DEF RoundTrip
<1>2. CASE UNCHANGED vars
  BY <1>2 DEF RoundTrip, vars
<1>3. CASE Next /\ ~DecCalculate
  <2>1. pc' # "done"
    BY <1>3 DEF Next, Encrypt, Decrypt, EncSetUp, EncAdd, EncLoop, EncAddEnds,
       EncCalculateNone, EncCalculatePkcs7, EncCalculateRfc2246, EncPadEnds, Finish,
       DecSetUp, DecAdd, DecLoop, DecAddEnds, Drain, Again
  <2> QED BY <2>1 DEF RoundTrip
<1> QED BY <1>1, <1>2, <1>3

\* However the encrypting client cuts its message into pieces and whatever the
\* object was used for before, the text it gets is the padded message chained
\* block by block, as cipher block chaining is defined.
THEOREM AnySplit == Spec => []SplitFree
<1>1. IInv /\ EncText => SplitFree
  BY DEF EncText, SplitFree
<1> QED
  BY <1>1, InitInvariant, NextInvariant, InitText, NextText, PTL DEF Spec

\* Decryption's calculate never says yes to a text that was cut off inside a
\* block or, with padding, to none at all.
THEOREM CutOffFails == Spec => []ShortFails
<1>1. Init => ShortFails
  BY DEF Init, ShortFails
<1> QED
  BY <1>1, InitInvariant, NextInvariant, InitText, NextText, InitDecText,
     NextDecText, NextShort, PTL DEF Spec

\* A client that hands over the whole text, in whatever pieces, with the key it
\* was encrypted with gets the message back and a yes from calculate.  With
\* rfc2246 it must leave what is decrypted in the object until then.
THEOREM MessageComesBack ==
  ASSUME "rfc2246" \notin Drains
  PROVE  Spec => []RoundTrip
<1>1. Init => RoundTrip
  BY DEF Init, RoundTrip
<1> QED
  BY <1>1, InitInvariant, NextInvariant, InitText, NextText, InitDecText,
     NextDecText, NextRoundTrip, PTL DEF Spec
=============================================================================
