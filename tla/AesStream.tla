----------------------------- MODULE AesStream -----------------------------
(***************************************************************************)
(* The streaming interface of AES256_Encrypt and AES256_Decrypt: a client  *)
(* hands data over in pieces of any size (add), the object cuts them into  *)
(* cipher blocks and chains those (CBC), and calculate settles the         *)
(* padding.  One object of each kind is used for message after message, as *)
(* the headers allow; the loop of an add is one step per turn.             *)
(*                                                                         *)
(* The rounds of the cipher itself are the constants E and D, of which     *)
(* only that D undoes E is assumed; blocks and bytes may have any size.    *)
(***************************************************************************)
EXTENDS Integers, Sequences

CONSTANTS
  Byte,         \* the values of a byte: an initial part of Nat
  Block,        \* aes256_block_size_bytes
  Extra,        \* padding_num_additional_padded_blocks
  Padding,      \* the settings of set_padding: "none", "pkcs7", "rfc2246"
  Key,          \* cipher keys
  Iv,           \* the initialisation vector, ARCHIVE_IV
  E(_, _),      \* the rounds of AES256_Encrypt_Impl::process_chunk
  D(_, _),      \* the rounds of AES256_Decrypt_Impl::process_chunk
  Xor(_, _),    \* exclusive or of two bytes
  MaxLen,       \* bound: no message is longer
  Drains,       \* the paddings with which the client empties the buffer between adds
  None          \* no key, no verdict

Chunk == [1 .. Block -> Byte]

ASSUME ShapeAssumption ==
  /\ Block \in Nat \ {0} /\ Extra \in 0 .. 15 /\ MaxLen \in Nat
  /\ Byte \subseteq Nat
  /\ 0 .. Block + Block * Extra - 1 \subseteq Byte /\ Block \in Byte
  /\ Padding \subseteq {"none", "pkcs7", "rfc2246"}
  /\ Iv \in Chunk /\ None \notin Key /\ None \notin Nat /\ Drains \subseteq Padding

ASSUME CipherAssumption ==
  /\ \A k \in Key, b \in Chunk :
       E(k, b) \in Chunk /\ D(k, b) \in Chunk /\ D(k, E(k, b)) = b
  /\ \A x, y \in Byte : Xor(x, y) \in Byte /\ Xor(y, Xor(y, x)) = x

VARIABLES
  padding,  \* how both objects were set up
  enc, dec, \* [chunk, in, out, iv, key, calculated]: the two objects; in is
            \* what the running add has not looked at yet, out the buffer
  pc,       \* "enc" and "dec" between two calls, otherwise the call running
  keys,     \* the keys the message was encrypted and is decrypted with
  message,  \* what the encrypting client has added
  cipher,   \* the finished text it passed on
  fed,      \* how much of it the decrypting client has added
  taken,    \* what that client took out of the buffer
  verdict   \* what decryption's calculate returned

vars == <<padding, enc, dec, pc, keys, message, cipher, fed, taken, verdict>>

-----------------------------------------------------------------------------
XorBlock(a, b) == [j \in 1 .. Block |-> Xor(a[j], b[j])]

Least(a, b) == IF a < b THEN a ELSE b

\* A new object, and what reset leaves of an old one: the key schedule and
\* the initialisation vector stay.
NewObject ==
  [chunk |-> <<>>, in |-> <<>>, out |-> <<>>, iv |-> Iv, key |-> None,
   calculated |-> FALSE]
Reset(o) ==
  IF o.calculated
  THEN [o EXCEPT !.chunk = <<>>, !.out = <<>>, !.calculated = FALSE] ELSE o

\* set_iv and set_key, which every message needs anew.
SetUp(o, k) == [o EXCEPT !.iv = Iv, !.key = k]

\* The end of calculate.
Sealed(o) == [o EXCEPT !.calculated = TRUE, !.key = None]

\* What one turn of add's loop moves from the data into the chunk.
Filled(o) ==
  LET n == Least(Block - Len(o.chunk), Len(o.in)) IN
    [o EXCEPT !.chunk = @ \o SubSeq(o.in, 1, n),
              !.in = SubSeq(@, n + 1, Len(@))]

BugEncryptChunkNoChain(o) ==
  [o EXCEPT !.chunk = <<>>, !.out = @ \o E(o.key, XorBlock(o.iv, o.chunk))]

\* process_chunk: the cipher text of a block is chained into the next one.
EncryptChunk(o) ==
  LET c == E(o.key, XorBlock(o.iv, o.chunk)) IN
    [o EXCEPT !.chunk = <<>>, !.out = @ \o c, !.iv = c]
DecryptChunk(o) ==
  LET p == XorBlock(o.iv, D(o.key, o.chunk)) IN
    [o EXCEPT !.chunk = <<>>, !.out = @ \o p, !.iv = o.chunk]

BugEncTurnLate(o) ==
  IF Len(o.chunk) = Block THEN Filled(EncryptChunk(o)) ELSE Filled(o)

EncTurn(o) ==
  LET f == Filled(o) IN IF Len(f.chunk) = Block THEN EncryptChunk(f) ELSE f

BugDecTurnEager(o) ==
  LET f == Filled(o) IN IF Len(f.chunk) = Block THEN DecryptChunk(f) ELSE f

\* With padding the last block of an add is held back for calculate.
DecTurn(o) ==
  LET f == Filled(o) IN
    IF Len(f.chunk) = Block /\ (padding = "none" \/ f.in # <<>>)
    THEN DecryptChunk(f) ELSE f

\* n bytes of the value b.
Fill(n, b) == [j \in 1 .. n |-> b]

PadSize(o) ==
  (Block - Len(o.chunk)) + (IF padding = "rfc2246" THEN Block * Extra ELSE 0)

\* The value of the n padding bytes.
PadValue(n) == IF padding = "rfc2246" THEN n - 1 ELSE n

-----------------------------------------------------------------------------
Init ==
  /\ padding \in Padding
  /\ enc = NewObject /\ dec = NewObject
  /\ pc = "enc" /\ keys = [enc |-> None, dec |-> None]
  /\ message = <<>> /\ cipher = <<>> /\ fed = 0 /\ taken = <<>>
  /\ verdict = None

EncSetUp(k) ==
  /\ pc = "enc" /\ enc.key = None
  /\ enc' = SetUp(enc, k) /\ keys' = [keys EXCEPT !.enc = k]
  /\ UNCHANGED <<padding, dec, pc, message, cipher, fed, taken, verdict>>

\* add throws without a vector and a key.
EncAdd(data) ==
  /\ pc = "enc" /\ enc.key # None
  /\ Len(message) + Len(data) <= MaxLen
  /\ enc' = [Reset(enc) EXCEPT !.in = data]
  /\ pc' = "encAdd"
  /\ message' = message \o data
  /\ UNCHANGED <<padding, keys, dec, cipher, fed, taken, verdict>>

\* One turn of the loop of an add, or the end of the loop.
EncLoop ==
  /\ pc \in {"encAdd", "encPad"} /\ enc.in # <<>>
  /\ enc' = EncTurn(enc)
  /\ UNCHANGED <<padding, keys, dec, pc, message, cipher, fed, taken, verdict>>
EncAddEnds ==
  /\ pc = "encAdd" /\ enc.in = <<>>
  /\ pc' = "enc"
  /\ UNCHANGED <<padding, keys, enc, dec, message, cipher, fed, taken, verdict>>

\* The client passes the finished text on.
Finish(o) ==
  /\ enc' = Sealed(o) /\ cipher' = o.out
  /\ pc' = "dec"

\* calculate without padding throws when a chunk is left over ...
EncCalculateNone ==
  /\ pc = "enc" /\ enc.key # None /\ padding = "none"
  /\ Reset(enc).chunk = <<>>
  /\ Finish(Reset(enc))
  /\ UNCHANGED <<padding, keys, dec, message, fed, taken, verdict>>

\* ... with PKCS#7 it fills the chunk up and processes it ...
EncCalculatePkcs7 ==
  /\ pc = "enc" /\ enc.key # None /\ padding = "pkcs7"
  /\ LET o == Reset(enc)
         n == PadSize(o) IN
       Finish(EncryptChunk([o EXCEPT !.chunk = @ \o Fill(n, PadValue(n))]))
  /\ UNCHANGED <<padding, keys, dec, message, fed, taken, verdict>>

\* ... and with rfc2246 it adds the padding as it would add data.
EncCalculateRfc2246 ==
  /\ pc = "enc" /\ enc.key # None /\ padding = "rfc2246"
  /\ LET o == Reset(enc)
         n == PadSize(o) IN
       enc' = [o EXCEPT !.in = Fill(n, PadValue(n))]
  /\ pc' = "encPad"
  /\ UNCHANGED <<padding, keys, dec, message, cipher, fed, taken, verdict>>
EncPadEnds ==
  /\ pc = "encPad" /\ enc.in = <<>>
  /\ Finish(enc)
  /\ UNCHANGED <<padding, keys, dec, message, fed, taken, verdict>>

-----------------------------------------------------------------------------
DecSetUp(k) ==
  /\ pc = "dec" /\ dec.key = None
  /\ dec' = SetUp(dec, k) /\ keys' = [keys EXCEPT !.dec = k]
  /\ UNCHANGED <<padding, enc, pc, message, cipher, fed, taken, verdict>>

\* The next n bytes of the text arrive.
DecAdd(n) ==
  /\ pc = "dec" /\ dec.key # None
  /\ fed + n <= Len(cipher)
  /\ dec' = [Reset(dec) EXCEPT !.in = SubSeq(cipher, fed + 1, fed + n)]
  /\ fed' = fed + n
  /\ pc' = "decAdd"
  /\ UNCHANGED <<padding, keys, enc, message, cipher, taken, verdict>>

DecLoop ==
  /\ pc = "decAdd" /\ dec.in # <<>>
  /\ dec' = DecTurn(dec)
  /\ UNCHANGED <<padding, keys, enc, pc, message, cipher, fed, taken, verdict>>
DecAddEnds ==
  /\ pc = "decAdd" /\ dec.in = <<>>
  /\ pc' = "dec"
  /\ UNCHANGED <<padding, keys, enc, dec, message, cipher, fed, taken, verdict>>

\* The client takes what is there and empties the buffer with set_size(0):
\* get_data hands out the object's own buffer, not a copy.
Drain ==
  /\ padding \in Drains /\ pc = "dec" /\ ~dec.calculated /\ dec.out # <<>>
  /\ taken' = taken \o dec.out
  /\ dec' = [dec EXCEPT !.out = <<>>]
  /\ UNCHANGED <<padding, keys, enc, pc, message, cipher, fed, verdict>>

\* How many bytes calculate takes off the decrypted text out, or None when
\* its last byte cannot be a pad byte.
PadLength(out) ==
  LET b == out[Len(out)] IN
    CASE padding = "pkcs7" -> IF b \in 1 .. Block THEN b ELSE None
      [] padding = "rfc2246" -> IF b + 1 <= Len(out) THEN b + 1 ELSE None

\* The last block: decrypted, and shortened by its padding.
Unpad(o) ==
  LET f == DecryptChunk(o)
      n == PadLength(f.out) IN
    IF n = None THEN [object |-> f, good |-> FALSE]
    ELSE [object |-> [f EXCEPT !.out = SubSeq(@, 1, Len(@) - n)], good |-> TRUE]

BugLastBlockLeftOver(o) ==
  IF padding # "none" /\ Len(o.chunk) = Block
  THEN Unpad(o) ELSE [object |-> o, good |-> padding = "none"]

\* Without padding, or without a full last block, there is none to take off:
\* a chunk that is left over means a text of the wrong length.
LastBlock(o) ==
  IF padding # "none" /\ Len(o.chunk) = Block
  THEN Unpad(o)
  ELSE [object |-> o, good |-> padding = "none" /\ o.chunk = <<>>]

DecCalculate ==
  /\ pc = "dec" /\ dec.key # None
  /\ LET r == LastBlock(Reset(dec)) IN
       dec' = Sealed(r.object) /\ verdict' = r.good
  /\ pc' = "done"
  /\ UNCHANGED <<padding, keys, enc, message, cipher, fed, taken>>

\* The same objects are used for another message.
Again ==
  /\ pc = "done"
  /\ pc' = "enc"
  /\ message' = <<>> /\ cipher' = <<>> /\ fed' = 0 /\ taken' = <<>>
  /\ verdict' = None /\ keys' = [enc |-> None, dec |-> None]
  /\ UNCHANGED <<padding, enc, dec>>

-----------------------------------------------------------------------------
Pieces == UNION {[1 .. n -> Byte] : n \in 0 .. MaxLen}

Encrypt ==
  \/ \E k \in Key : EncSetUp(k)
  \/ \E data \in Pieces : EncAdd(data)
  \/ EncLoop \/ EncAddEnds
  \/ EncCalculateNone \/ EncCalculatePkcs7 \/ EncCalculateRfc2246
  \/ EncPadEnds

Decrypt ==
  \/ \E k \in Key : DecSetUp(k)
  \/ \E n \in 1 .. Len(cipher) : DecAdd(n)
  \/ DecLoop \/ DecAddEnds \/ Drain \/ DecCalculate

Next == Encrypt \/ Decrypt \/ Again

Spec == Init /\ [][Next]_vars

-----------------------------------------------------------------------------
(* Properties *)

Object ==
  [chunk : Seq(Byte), in : Seq(Byte), out : Seq(Byte), iv : Chunk,
   key : Key \cup {None}, calculated : BOOLEAN]

TypeOK ==
  /\ padding \in Padding
  /\ enc \in Object /\ dec \in Object /\ Len(dec.chunk) <= Block
  /\ pc \in {"enc", "encAdd", "encPad", "dec", "decAdd", "done"}
  /\ keys \in [enc : Key \cup {None}, dec : Key \cup {None}]
  /\ message \in Seq(Byte) /\ cipher \in Seq(Byte) /\ taken \in Seq(Byte)
  /\ fed \in 0 .. Len(cipher) /\ verdict \in BOOLEAN \cup {None}

\* The length n is that of some number of whole blocks.
WholeBlocks(n) == \E q \in 0 .. n : n = q * Block

\* What aes256_encrypt.cpp:120 relies on when it pads: the chunk has room
\* whenever a call or a turn of its loop begins, and nothing that was added
\* is lost on the way to the buffer, whole blocks of which are filled.
ChunkHasRoom ==
  /\ Len(enc.chunk) < Block /\ WholeBlocks(Len(enc.out))
  /\ pc \in {"enc", "encAdd"} /\ ~enc.calculated =>
       Len(enc.out) + Len(enc.chunk) + Len(enc.in) = Len(message)

\* The message with its padding.
Padded ==
  LET n == CASE padding = "none" -> 0
             [] padding = "pkcs7" -> Block - (Len(message) % Block)
             [] padding = "rfc2246" ->
                  (Block - (Len(message) % Block)) + Block * Extra
      b == IF padding = "pkcs7" THEN n ELSE n - 1 IN
    message \o [j \in 1 .. n |-> b]

\* Block i of the text t.
BlockOf(t, i) == SubSeq(t, (i - 1) * Block + 1, i * Block)

\* c is the text p under k with cipher block chaining, as that is defined.
Chained(k, p, c) ==
  /\ Len(c) = Len(p)
  /\ \A i \in 1 .. Len(p) \div Block :
       BlockOf(c, i) =
         E(k, XorBlock(IF i = 1 THEN Iv ELSE BlockOf(c, i - 1), BlockOf(p, i)))

\* However the client cut the message into pieces, and whatever the object
\* did before, the cipher text is that of the padded message.
SplitFree == pc = "dec" => Chained(keys.enc, Padded, cipher)

\* The whole text and the right key give the message back.
RoundTrip ==
  pc = "done" /\ fed = Len(cipher) /\ keys.dec = keys.enc =>
    verdict /\ taken \o dec.out = message

\* A text that was cut off inside a block is never taken for a good one.
ShortFails ==
  pc = "done" /\ verdict =>
    fed % Block = 0 /\ (padding # "none" => fed > 0)

-----------------------------------------------------------------------------
\* What makes ChunkHasRoom inductive: data is pending, and a key is set, only
\* while a loop runs, and a sealed object holds no message of its client yet.
CallsInOrder ==
  /\ pc \in {"encAdd", "encPad"} => ~enc.calculated /\ enc.key # None
  /\ pc \notin {"encAdd", "encPad"} => enc.in = <<>>
  /\ pc = "enc" /\ enc.calculated => message = <<>>
  /\ IF pc \in {"dec", "decAdd", "done"} THEN enc.calculated ELSE fed = 0
  /\ pc = "decAdd" => dec.key # None

IInv == TypeOK /\ ChunkHasRoom /\ CallsInOrder
=============================================================================
