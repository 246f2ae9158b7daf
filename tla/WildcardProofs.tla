--------------------------- MODULE WildcardProofs ---------------------------
(***************************************************************************)
(* That WildcardMatch, with all its backtracking, decides what a match is, *)
(* and how deep its calls nest, for all strings and patterns.              *)
(*                                                                         *)
(* No induction over the pattern is needed: `Rest' says what a call that   *)
(* stands somewhere has to answer, one lemma for each kind of character    *)
(* says how the answer follows from those further on, and the invariant    *)
(* says of each call on the stack which answer the one above waits for.    *)
(***************************************************************************)
EXTENDS Wildcard, SequenceTheorems, TLAPS

\* What comes from position s of the string on matches the pattern from m on.
Rest(s, m) ==
  \E cut \in [m .. Len(match) + 1 -> 0 .. Len(str)] :
    /\ cut[m] = s - 1 /\ cut[Len(match) + 1] = Len(str)
    /\ \A k \in m .. Len(match) : Fits(k, cut)

Value(c) == Rest(c.pString, c.pMatch)
\* The answer of the call that c made.
Called(c) == IF c.state = "first" THEN Rest(c.pString, c.pMatch + 1)
                                  ELSE Rest(c.pString + 1, c.pMatch)

\* A call that waits for another stands at a star, which in vain it has first
\* left out.
Waiting(c) ==
  /\ c.pMatch <= Len(match) /\ match[c.pMatch] = Many
  /\ c.state \in {"first", "second"}
  /\ c.state = "second" => /\ c.pString <= Len(str)
                           /\ ~Rest(c.pString, c.pMatch + 1)

Frame == [pString : 1 .. Len(str) + 1, pMatch : 1 .. Len(match) + 1,
          state : {"scan", "first", "second"}]

\* Of the calls q and of what the last one returned, r.
\* Each call got further than the one that made it.
Deep(q) == \A k \in 1 .. Len(q) : k + 1 <= q[k].pString + q[k].pMatch

\* All calls but the innermost wait, each for the next one's answer.
Chain(q) ==
  \A k \in 1 .. Len(q) - 1 : Waiting(q[k]) /\ (Value(q[k + 1]) <=> Called(q[k]))

\* The outermost one still answers the whole question.
Whole(q) == q # <<>> => (Value(q[1]) <=> Rest(1, 1))

\* The innermost call scans, or has just been given what it waits for.
Innermost(q, r) ==
  /\ r = None => q # <<>> /\ q[Len(q)].state = "scan"
  /\ r # None /\ q # <<>> => Waiting(q[Len(q)]) /\ (r = TRUE <=> Called(q[Len(q)]))
  /\ r # None /\ q = <<>> => (r = TRUE <=> Rest(1, 1))

Stack(q, r) ==
  /\ q \in Seq(Frame) /\ r \in BOOLEAN \cup {None}
  /\ Deep(q) /\ Chain(q) /\ Whole(q) /\ Innermost(q, r)

Strings == str \in Seq(Letter) /\ match \in Seq(Letter \cup {One, Many})

Inv == Strings /\ Stack(calls, ret)

-----------------------------------------------------------------------------
(* What has to be answered at each character of the pattern *)

\* The characters a + 1 to b of the string fit character m of the pattern.
Piece(m, a, b) == CASE match[m] = Many -> a <= b
                    [] match[m] = One -> b = a + 1
                    [] OTHER -> b = a + 1 /\ str[b] = match[m]

\* A piece of the string, without SubSeq.
LEMMA FitsPiece ==
  ASSUME Strings, NEW m \in 1 .. Len(match), NEW cut,
         cut[m] \in 0 .. Len(str), cut[m + 1] \in 0 .. Len(str)
  PROVE  Fits(m, cut) <=> Piece(m, cut[m], cut[m + 1])
<1> DEFINE a == cut[m]
           b == cut[m + 1]
           piece == SubSeq(str, a + 1, b)
<1>0. Len(str) \in Nat /\ a \in 0 .. Len(str) /\ b \in 0 .. Len(str)
  BY LenProperties DEF Strings
<1> HIDE DEF a, b
<1>1. /\ piece \in Seq(Letter)
      /\ Len(piece) = IF a + 1 <= b THEN b - a ELSE 0
      /\ \A i \in 1 .. b - a : piece[i] = str[a + i]
  <2>1. ASSUME NEW i \in a + 1 .. b  PROVE str[i] \in Letter
    <3>1. i \in 1 .. Len(str)
      BY <1>0
    <3> QED
      BY <3>1, ElementOfSeq DEF Strings
  <2>2. a + 1 \in Int /\ b \in Int
    BY <1>0
  <2>3. /\ piece \in Seq(Letter)
        /\ Len(piece) = IF a + 1 <= b THEN b - (a + 1) + 1 ELSE 0
        /\ \A i \in 1 .. b - (a + 1) + 1 : piece[i] = str[a + 1 + i - 1]
    <3> DEFINE from == a + 1
    <3>1. from \in Int /\ b \in Int /\ \A i \in from .. b : str[i] \in Letter
      BY <2>1, <2>2
    <3> HIDE DEF from
    <3>2. SubSeq(str, from, b) \in Seq(Letter)
      BY <3>1, SubSeqProperties
    <3>3. Len(SubSeq(str, from, b)) = IF from <= b THEN b - from + 1 ELSE 0
      BY <3>1, SubSeqProperties
    <3>4. \A i \in 1 .. b - from + 1 : SubSeq(str, from, b)[i] = str[from + i - 1]
      BY <3>1, SubSeqProperties
    <3> QED
      BY <3>2, <3>3, <3>4 DEF from
  <2> HIDE DEF piece
  <2>4. b - (a + 1) + 1 = b - a /\ \A i \in 1 .. b - a : a + 1 + i - 1 = a + i
    BY <1>0
  <2>5. Len(piece) = IF a + 1 <= b THEN b - a ELSE 0
    BY <2>3, <2>4
  <2>6. \A i \in 1 .. b - a : piece[i] = str[a + i]
    BY <2>3, <2>4
  <2> QED
    BY <2>3, <2>5, <2>6
<1>2. a \in Int /\ b \in Int
  BY <1>0
<1> HIDE DEF piece
<1>3. Len(piece) = 1 <=> b = a + 1
  BY <1>1, <1>2
<1>4. match[m] \in Letter => (piece = <<match[m]>> <=> b = a + 1 /\ str[b] = match[m])
  <2> SUFFICES ASSUME match[m] \in Letter
               PROVE  piece = <<match[m]>> <=> b = a + 1 /\ str[b] = match[m]
    OBVIOUS
  <2>1. ASSUME piece = <<match[m]>>  PROVE b = a + 1 /\ str[b] = match[m]
    <3>1. Len(piece) = 1 /\ piece[1] = match[m]
      BY <2>1
    <3> QED
      BY <3>1, <1>1, <1>2, <1>3
  <2>2. ASSUME b = a + 1, str[b] = match[m]  PROVE piece = <<match[m]>>
    <3>1. Len(piece) = 1 /\ piece[1] = match[m]
      BY <2>2, <1>1, <1>2, <1>3
    <3>2. <<match[m]>> \in Seq(Letter) /\ Len(<<match[m]>>) = 1
          /\ <<match[m]>>[1] = match[m]
      OBVIOUS
    <3> QED
      BY <3>1, <3>2, <1>1, SeqEqual
  <2> QED
    BY <2>1, <2>2
<1>5. match[m] \in Letter \cup {One, Many}
  BY ElementOfSeq DEF Strings
<1>6. Fits(m, cut) <=> CASE match[m] = Many -> a <= b
                         [] match[m] = One -> Len(piece) = 1
                         [] OTHER -> piece = <<match[m]>>
  BY DEF Fits, a, b, piece
<1> QED
  BY <1>3, <1>4, <1>5, <1>6, CharacterAssumption DEF Piece, a, b

\* The first piece and what comes after it.
LEMMA RestStep ==
  ASSUME Strings, NEW s \in 1 .. Len(str) + 1, NEW m \in 1 .. Len(match)
  PROVE  Rest(s, m) <=> \E t \in 1 .. Len(str) + 1 :
                          Piece(m, s - 1, t - 1) /\ Rest(t, m + 1)
<1> DEFINE L == Len(match)
           N == Len(str)
<1>0. L \in Nat /\ N \in Nat
  BY LenProperties DEF Strings
<1> HIDE DEF L, N
<1>0a. L = Len(match) /\ N = Len(str)
  BY DEF L, N
<1>1. ASSUME Rest(s, m)
      PROVE  \E t \in 1 .. N + 1 : Piece(m, s - 1, t - 1) /\ Rest(t, m + 1)
  <2>1. PICK cut \in [m .. L + 1 -> 0 .. N] :
          /\ cut[m] = s - 1 /\ cut[L + 1] = N
          /\ \A k \in m .. L : Fits(k, cut)
    BY <1>1, <1>0a DEF Rest
  <2> DEFINE t == cut[m + 1] + 1
             g == [k \in m + 1 .. L + 1 |-> cut[k]]
  <2>2. m \in m .. L + 1 /\ m + 1 \in m .. L + 1
    BY <1>0, <1>0a
  <2>3. cut[m] \in 0 .. N /\ cut[m + 1] \in 0 .. N
    BY <2>1, <2>2
  <2>4. t \in 1 .. N + 1 /\ t - 1 = cut[m + 1]
    <3>1. PICK c \in 0 .. N : c = cut[m + 1]
      BY <2>3
    <3>2. c + 1 \in 1 .. N + 1 /\ c + 1 - 1 = c
      BY <1>0
    <3>3. t = c + 1
      BY <3>1
    <3> QED
      BY <3>1, <3>2, <3>3
  <2>5. Piece(m, s - 1, t - 1)
    <3>1. Fits(m, cut)
      BY <2>1, <1>0, <1>0a
    <3> QED
      BY <3>1, <2>1, <2>3, <2>4, <1>0a, FitsPiece
  <2>6. Rest(t, m + 1)
    <3>1. g \in [m + 1 .. L + 1 -> 0 .. N]
      <4>1. \A k \in m + 1 .. L + 1 : k \in m .. L + 1
        BY <1>0, <1>0a
      <4> QED
        BY <4>1, <2>1
    <3>2. g[m + 1] = t - 1 /\ g[L + 1] = N
      <4>1. m + 1 \in m + 1 .. L + 1 /\ L + 1 \in m + 1 .. L + 1
        BY <1>0, <1>0a
      <4> QED
        BY <4>1, <2>1, <2>4
    <3>3. ASSUME NEW k \in m + 1 .. L  PROVE Fits(k, g)
      <4>1. k \in 1 .. L /\ k \in m .. L /\ k \in m .. L + 1 /\ k + 1 \in m .. L + 1
            /\ k \in m + 1 .. L + 1 /\ k + 1 \in m + 1 .. L + 1
        BY <1>0, <1>0a
      <4>2. cut[k] \in 0 .. N /\ cut[k + 1] \in 0 .. N
        BY <4>1, <2>1
      <4>3. g[k] = cut[k] /\ g[k + 1] = cut[k + 1]
        BY <4>1
      <4>4. Fits(k, cut)
        BY <4>1, <2>1
      <4> HIDE DEF g
      <4>5. Fits(k, cut) <=> Piece(k, cut[k], cut[k + 1])
        BY <4>1, <4>2, <1>0a, FitsPiece
      <4>6. Fits(k, g) <=> Piece(k, g[k], g[k + 1])
        BY <4>1, <4>2, <4>3, <1>0a, FitsPiece
      <4> QED
        BY <4>3, <4>4, <4>5, <4>6
    <3> HIDE DEF g, t
    <3> QED
      BY <3>1, <3>2, <3>3, <1>0a DEF Rest
  <2> HIDE DEF t
  <2> QED
    BY <2>4, <2>5, <2>6
<1>2. ASSUME NEW t \in 1 .. N + 1, Piece(m, s - 1, t - 1), Rest(t, m + 1)
      PROVE  Rest(s, m)
  <2>1. PICK cut \in [m + 1 .. L + 1 -> 0 .. N] :
          /\ cut[m + 1] = t - 1 /\ cut[L + 1] = N
          /\ \A k \in m + 1 .. L : Fits(k, cut)
    BY <1>2, <1>0a DEF Rest
  <2> DEFINE g == [k \in m .. L + 1 |-> IF k = m THEN s - 1 ELSE cut[k]]
  <2>2. \A k \in m .. L + 1 : k # m => k \in m + 1 .. L + 1
    BY <1>0, <1>0a
  <2>3. g \in [m .. L + 1 -> 0 .. N]
    <3>1. s - 1 \in 0 .. N
      BY <1>0, <1>0a
    <3> QED
      BY <3>1, <2>1, <2>2
  <2>4. g[m] = s - 1 /\ g[m + 1] = t - 1 /\ g[L + 1] = N
    <3>1. m \in m .. L + 1 /\ m + 1 \in m .. L + 1 /\ L + 1 \in m .. L + 1
          /\ m + 1 # m /\ L + 1 # m
      BY <1>0, <1>0a
    <3> QED
      BY <3>1, <2>1
  <2>5. ASSUME NEW k \in m + 1 .. L  PROVE Fits(k, g)
    <3>1. k \in 1 .. L /\ k \in m .. L + 1 /\ k + 1 \in m .. L + 1 /\ k # m /\ k + 1 # m
          /\ k \in m + 1 .. L + 1 /\ k + 1 \in m + 1 .. L + 1
      BY <1>0, <1>0a
    <3>2. cut[k] \in 0 .. N /\ cut[k + 1] \in 0 .. N
      BY <3>1, <2>1
    <3>3. g[k] = cut[k] /\ g[k + 1] = cut[k + 1]
      BY <3>1
    <3>4. Fits(k, cut)
      BY <2>1
    <3> HIDE DEF g
    <3>5. Fits(k, cut) <=> Piece(k, cut[k], cut[k + 1])
      BY <3>1, <3>2, <1>0a, FitsPiece
    <3>6. Fits(k, g) <=> Piece(k, g[k], g[k + 1])
      BY <3>1, <3>2, <3>3, <1>0a, FitsPiece
    <3> QED
      BY <3>3, <3>4, <3>5, <3>6
  <2> HIDE DEF g
  <2>6. Fits(m, g)
    <3>1. s - 1 \in 0 .. N /\ t - 1 \in 0 .. N
      BY <1>0, <1>0a
    <3>2. Fits(m, g) <=> Piece(m, g[m], g[m + 1])
      BY <3>1, <2>4, <1>0a, FitsPiece
    <3> QED
      BY <3>2, <2>4, <1>2
  <2>7. \A k \in m .. L : k = m \/ k \in m + 1 .. L
    BY <1>0, <1>0a
  <2> QED
    BY <2>3, <2>4, <2>5, <2>6, <2>7, <1>0a DEF Rest
<1> QED
  BY <1>1, <1>2, <1>0a

\* At the end of the pattern the string must be at its end as well.
LEMMA RestEnd ==
  ASSUME Strings, NEW s \in 1 .. Len(str) + 1
  PROVE  Rest(s, Len(match) + 1) <=> s = Len(str) + 1
<1> DEFINE L == Len(match)
           N == Len(str)
<1>0. L \in Nat /\ N \in Nat
  BY LenProperties DEF Strings
<1> HIDE DEF L, N
<1>0a. L = Len(match) /\ N = Len(str)
  BY DEF L, N
<1>1. ASSUME Rest(s, L + 1)  PROVE s = N + 1
  <2>1. PICK cut \in [L + 1 .. L + 1 -> 0 .. N] : cut[L + 1] = s - 1 /\ cut[L + 1] = N
    BY <1>1, <1>0a DEF Rest
  <2> QED
    BY <2>1, <1>0, <1>0a
<1>2. ASSUME s = N + 1  PROVE Rest(s, L + 1)
  <2> DEFINE g == [k \in L + 1 .. L + 1 |-> N]
  <2>1. g \in [L + 1 .. L + 1 -> 0 .. N] /\ g[L + 1] = N
    BY <1>0
  <2>2. N = s - 1
    BY <1>2, <1>0
  <2>3. ~\E k : k \in L + 1 .. L
    BY <1>0
  <2> HIDE DEF g
  <2> QED
    BY <2>1, <2>2, <2>3, <1>0a DEF Rest
<1> QED
  BY <1>1, <1>2, <1>0a
\* At `?' any character will do.
LEMMA RestOne ==
  ASSUME Strings, NEW s \in 1 .. Len(str) + 1, NEW m \in 1 .. Len(match),
         match[m] = One
  PROVE  Rest(s, m) <=> s <= Len(str) /\ Rest(s + 1, m + 1)
<1>1. Len(str) \in Nat
  BY LenProperties DEF Strings
<1>2. \A t \in 1 .. Len(str) + 1 : Piece(m, s - 1, t - 1) <=> t = s + 1
  <2> TAKE t \in 1 .. Len(str) + 1
  <2>1. Piece(m, s - 1, t - 1) <=> t - 1 = s - 1 + 1
    BY CharacterAssumption DEF Piece
  <2>2. t - 1 = s - 1 + 1 <=> t = s + 1
    BY <1>1
  <2> QED
    BY <2>1, <2>2
<1>3. s <= Len(str) <=> s + 1 \in 1 .. Len(str) + 1
  BY <1>1
<1>4. Rest(s, m) <=> \E t \in 1 .. Len(str) + 1 :
                       Piece(m, s - 1, t - 1) /\ Rest(t, m + 1)
  BY RestStep
<1> QED
  BY <1>2, <1>3, <1>4

\* At a letter it must be the same one.
LEMMA RestLetter ==
  ASSUME Strings, NEW s \in 1 .. Len(str) + 1, NEW m \in 1 .. Len(match),
         match[m] \in Letter
  PROVE  Rest(s, m) <=> s <= Len(str) /\ str[s] = match[m] /\ Rest(s + 1, m + 1)
<1>1. Len(str) \in Nat
  BY LenProperties DEF Strings
<1>2. \A t \in 1 .. Len(str) + 1 :
        Piece(m, s - 1, t - 1) <=> t = s + 1 /\ str[s] = match[m]
  <2> TAKE t \in 1 .. Len(str) + 1
  <2>1. Piece(m, s - 1, t - 1) <=> t - 1 = s - 1 + 1 /\ str[t - 1] = match[m]
    BY CharacterAssumption DEF Piece
  <2>2. t - 1 = s - 1 + 1 <=> t = s + 1
    BY <1>1
  <2>3. t = s + 1 => t - 1 = s
    BY <1>1
  <2> QED
    BY <2>1, <2>2, <2>3
<1>3. s <= Len(str) <=> s + 1 \in 1 .. Len(str) + 1
  BY <1>1
<1>4. Rest(s, m) <=> \E t \in 1 .. Len(str) + 1 :
                       Piece(m, s - 1, t - 1) /\ Rest(t, m + 1)
  BY RestStep
<1> QED
  BY <1>2, <1>3, <1>4

\* At a star it can be done without, or takes one character and stays.
LEMMA RestMany ==
  ASSUME Strings, NEW s \in 1 .. Len(str) + 1, NEW m \in 1 .. Len(match),
         match[m] = Many
  PROVE  Rest(s, m) <=> Rest(s, m + 1) \/ (s <= Len(str) /\ Rest(s + 1, m))
<1>1. Len(str) \in Nat
  BY LenProperties DEF Strings
<1>2. \A q \in 1 .. Len(str) + 1 :
        Rest(q, m) <=> \E t \in 1 .. Len(str) + 1 : q <= t /\ Rest(t, m + 1)
  <2> TAKE q \in 1 .. Len(str) + 1
  <2>1. \A t \in 1 .. Len(str) + 1 : Piece(m, q - 1, t - 1) <=> q <= t
    <3> TAKE t \in 1 .. Len(str) + 1
    <3>1. Piece(m, q - 1, t - 1) <=> q - 1 <= t - 1
      BY CharacterAssumption DEF Piece
    <3>2. q - 1 <= t - 1 <=> q <= t
      BY <1>1
    <3> QED
      BY <3>1, <3>2
  <2>2. Rest(q, m) <=> \E t \in 1 .. Len(str) + 1 :
                         Piece(m, q - 1, t - 1) /\ Rest(t, m + 1)
    BY RestStep
  <2> QED
    BY <2>1, <2>2
<1>3. \A t \in 1 .. Len(str) + 1 :
        s <= t <=> t = s \/ (s <= Len(str) /\ s + 1 <= t)
  BY <1>1
<1>4. s <= Len(str) => s + 1 \in 1 .. Len(str) + 1
  BY <1>1
<1> QED
  BY <1>2, <1>3, <1>4

\* The whole question is where the first call stands.
LEMMA RestMatches ==
  ASSUME Strings
  PROVE  Rest(1, 1) <=> Matches
<1>1. 1 - 1 = 0
  OBVIOUS
<1> QED
  BY <1>1 DEF Rest, Matches

-----------------------------------------------------------------------------
(* The stack *)

\* What is left of a stack from which the innermost call is taken.
LEMMA FrontFacts ==
  ASSUME NEW S, NEW q \in Seq(S), q # <<>>
  PROVE  /\ Len(q) \in Nat /\ 1 <= Len(q) /\ Last(q) = q[Len(q)] /\ q[Len(q)] \in S
         /\ Front(q) \in Seq(S) /\ Len(Front(q)) = Len(q) - 1
         /\ \A k \in 1 .. Len(q) - 1 : Front(q)[k] = q[k]
<1>1. Len(q) \in Nat /\ 1 <= Len(q)
  BY EmptySeq, LenProperties
<1>2. \A k \in 1 .. Len(q) - 1 : q[k] \in S
  <2> TAKE k \in 1 .. Len(q) - 1
  <2>1. k \in 1 .. Len(q)
    BY <1>1
  <2> QED
    BY <2>1, ElementOfSeq
<1>3. PICK n \in Nat : n = Len(q)
  BY <1>1
<1> DEFINE f == SubSeq(q, 1, n - 1)
<1>4. 1 \in Int /\ n - 1 \in Int /\ n - 1 - 1 + 1 = n - 1 /\ 1 <= n
  BY <1>1, <1>3
<1>5. /\ f \in Seq(S)
      /\ Len(f) = IF 1 <= n - 1 THEN n - 1 - 1 + 1 ELSE 0
      /\ \A k \in 1 .. n - 1 - 1 + 1 : f[k] = q[1 + k - 1]
  BY <1>2, <1>3, <1>4, SubSeqProperties
<1> HIDE DEF f
<1>6. Len(f) = n - 1
  BY <1>4, <1>5
<1>7. \A k \in 1 .. n - 1 : 1 + k - 1 = k
  OBVIOUS
<1>8. \A k \in 1 .. n - 1 : f[k] = q[k]
  BY <1>4, <1>5, <1>7
<1>9. q[Len(q)] \in S
  BY <1>1, ElementOfSeq
<1>10. Front(q) = f /\ Last(q) = q[Len(q)]
  BY <1>3 DEF Front, Last, f
<1> QED
  BY <1>1, <1>3, <1>5, <1>6, <1>8, <1>9, <1>10

\* The stack q once its innermost call has been replaced by c.
Replaced(q, new, S, c) ==
  /\ new \in Seq(S) /\ Len(new) = Len(q)
  /\ \A k \in 1 .. Len(q) - 1 : new[k] = q[k]
  /\ new[Len(q)] = c

LEMMA AppendReplaces ==
  ASSUME NEW S, NEW q \in Seq(S), q # <<>>, NEW c \in S
  PROVE  Replaced(q, Append(Front(q), c), S, c)
<1>1. /\ Len(q) \in Nat /\ Front(q) \in Seq(S) /\ Len(Front(q)) = Len(q) - 1
      /\ \A k \in 1 .. Len(q) - 1 : Front(q)[k] = q[k]
  BY FrontFacts
<1> DEFINE new == Append(Front(q), c)
<1>2. /\ new \in Seq(S) /\ Len(new) = Len(Front(q)) + 1
      /\ \A k \in 1 .. Len(Front(q)) : new[k] = Front(q)[k]
      /\ new[Len(Front(q)) + 1] = c
  BY <1>1, AppendProperties
<1> HIDE DEF new
<1>3. Len(q) - 1 + 1 = Len(q)
  BY <1>1
<1>4. Replaced(q, new, S, c)
  BY <1>1, <1>2, <1>3 DEF Replaced
<1> QED
  BY <1>4 DEF new

\* The same when the call that replaces it calls d.
Pushed(q, new, S, c, d) ==
  /\ new \in Seq(S) /\ Len(new) = Len(q) + 1
  /\ \A k \in 1 .. Len(q) - 1 : new[k] = q[k]
  /\ new[Len(q)] = c /\ new[Len(q) + 1] = d

LEMMA ConcatPushes ==
  ASSUME NEW S, NEW q \in Seq(S), q # <<>>, NEW c \in S, NEW d \in S
  PROVE  Pushed(q, Front(q) \o <<c, d>>, S, c, d)
<1>1. /\ Len(q) \in Nat /\ Front(q) \in Seq(S) /\ Len(Front(q)) = Len(q) - 1
      /\ \A k \in 1 .. Len(q) - 1 : Front(q)[k] = q[k]
  BY FrontFacts
<1> DEFINE pair == <<c, d>>
<1>2. pair \in Seq(S) /\ Len(pair) = 2 /\ pair[1] = c /\ pair[2] = d
  OBVIOUS
<1> HIDE DEF pair
<1>3. PICK n \in Nat : n = Len(q)
  BY <1>1
<1> DEFINE new == Front(q) \o pair
<1>4. /\ new \in Seq(S) /\ Len(new) = Len(Front(q)) + Len(pair)
      /\ \A k \in 1 .. Len(Front(q)) + Len(pair) :
           new[k] = IF k <= Len(Front(q)) THEN Front(q)[k] ELSE pair[k - Len(Front(q))]
  BY <1>1, <1>2, ConcatProperties
<1> HIDE DEF new
<1>5. /\ Len(new) = n - 1 + 2
      /\ \A k \in 1 .. n - 1 + 2 :
           new[k] = IF k <= n - 1 THEN Front(q)[k] ELSE pair[k - (n - 1)]
  BY <1>1, <1>2, <1>3, <1>4
<1>6. 1 <= n
  BY <1>3, FrontFacts
<1>7. n - 1 + 2 = n + 1 /\ n \in 1 .. n - 1 + 2 /\ n + 1 \in 1 .. n - 1 + 2
      /\ ~(n <= n - 1) /\ n - (n - 1) = 1 /\ ~(n + 1 <= n - 1) /\ n + 1 - (n - 1) = 2
  BY <1>6
<1>8. new[n] = c
  BY <1>2, <1>5, <1>7
<1>9. new[n + 1] = d
  BY <1>2, <1>5, <1>7
<1>10. \A k \in 1 .. n - 1 : k \in 1 .. n - 1 + 2 /\ k <= n - 1
  OBVIOUS
<1>11. \A k \in 1 .. n - 1 : new[k] = Front(q)[k]
  BY <1>5, <1>10
<1>12. Pushed(q, new, S, c, d)
  BY <1>1, <1>3, <1>4, <1>5, <1>7, <1>8, <1>9, <1>11 DEF Pushed
<1> QED
  BY <1>12 DEF new, pair
\* While string and pattern stay, so does what is said of a stack.
LEMMA StackStays ==
  ASSUME Inv, UNCHANGED <<str, match>>, Stack(calls', ret')
  PROVE  Inv'
<1>1. \A s, m : Rest(s, m)' <=> Rest(s, m)
  BY DEF Rest, Fits
<1>2. \A c : (Waiting(c)' <=> Waiting(c)) /\ (Value(c)' <=> Value(c)) /\ (Called(c)' <=> Called(c))
  BY <1>1 DEF Waiting, Value, Called
<1> QED
  BY <1>1, <1>2 DEF Inv, Strings, Stack, Deep, Chain, Whole, Innermost, Frame
\* The positions of a call are numbers.
LEMMA FrameNumbers ==
  ASSUME NEW c \in Frame
  PROVE  c.pString \in Nat /\ c.pMatch \in Nat /\ 1 <= c.pString /\ 1 <= c.pMatch
BY DEF Frame

\* A call that goes on with the same to answer.
LEMMA GoesOn ==
  ASSUME Strings, NEW q \in Seq(Frame), q # <<>>, Stack(q, None),
         NEW c \in Frame, c.state = "scan", Value(c) <=> Value(q[Len(q)]),
         q[Len(q)].pString + q[Len(q)].pMatch <= c.pString + c.pMatch,
         NEW new, Replaced(q, new, Frame, c)
  PROVE  Stack(new, None)
<1>1. PICK n \in Nat : n = Len(q) /\ 1 <= n
  BY FrontFacts
<1>2. /\ new \in Seq(Frame) /\ Len(new) = n /\ new[n] = c /\ new # <<>>
      /\ \A k \in 1 .. n - 1 : new[k] = q[k]
  BY <1>1 DEF Replaced
<1>3. /\ c.pString \in Nat /\ c.pMatch \in Nat
      /\ q[n].pString \in Nat /\ q[n].pMatch \in Nat
  <2>1. q[n] \in Frame
    BY <1>1, FrontFacts
  <2> QED
    BY <2>1, FrameNumbers
<1>4. Deep(new)
  <2>1. n + 1 <= q[n].pString + q[n].pMatch
    BY <1>1 DEF Stack, Deep
  <2>2. n + 1 <= c.pString + c.pMatch
    BY <1>1, <1>3, <2>1
  <2>3. ASSUME NEW k \in 1 .. n - 1  PROVE k + 1 <= new[k].pString + new[k].pMatch
    <3>1. k \in 1 .. n
      OBVIOUS
    <3> QED
      BY <1>1, <1>2, <3>1 DEF Stack, Deep
  <2>4. \A k \in 1 .. n : k = n \/ k \in 1 .. n - 1
    OBVIOUS
  <2> QED
    BY <1>2, <2>2, <2>3, <2>4 DEF Deep
<1>5. Chain(new)
  <2>1. ASSUME NEW k \in 1 .. n - 1
        PROVE  Waiting(new[k]) /\ (Value(new[k + 1]) <=> Called(new[k]))
    <3>1. Waiting(q[k]) /\ (Value(q[k + 1]) <=> Called(q[k]))
      BY <1>1 DEF Stack, Chain
    <3>2. new[k] = q[k]
      BY <1>2
    <3>3. k + 1 = n \/ k + 1 \in 1 .. n - 1
      OBVIOUS
    <3>4. Value(new[k + 1]) <=> Value(q[k + 1])
      BY <1>1, <1>2, <3>3
    <3> QED
      BY <3>1, <3>2, <3>4
  <2> QED
    BY <1>2, <2>1 DEF Chain
<1>6. Whole(new)
  <2>1. 1 = n \/ 1 \in 1 .. n - 1
    BY <1>1
  <2>2. Value(new[1]) <=> Value(q[1])
    BY <1>1, <1>2, <2>1
  <2> QED
    BY <2>2 DEF Stack, Whole
<1>7. Innermost(new, None)
  BY <1>2 DEF Innermost
<1> QED
  BY <1>2, <1>4, <1>5, <1>6, <1>7 DEF Stack

\* A call that makes another one and will wait for its answer.
LEMMA CallsAnother ==
  ASSUME Strings, NEW q \in Seq(Frame), q # <<>>, NEW r, Stack(q, r),
         NEW c \in Frame, c.pString = q[Len(q)].pString, c.pMatch = q[Len(q)].pMatch,
         NEW d \in Frame, d.state = "scan", d.pString + d.pMatch = c.pString + c.pMatch + 1,
         Waiting(c), Value(d) <=> Called(c),
         NEW new, Pushed(q, new, Frame, c, d)
  PROVE  Stack(new, None)
<1>1. PICK n \in Nat : n = Len(q) /\ 1 <= n
  BY FrontFacts
<1>2. /\ new \in Seq(Frame) /\ Len(new) = n + 1 /\ new[n] = c /\ new[n + 1] = d
      /\ new # <<>> /\ \A k \in 1 .. n - 1 : new[k] = q[k]
  BY <1>1 DEF Pushed
<1>3. c.pString \in Nat /\ c.pMatch \in Nat /\ d.pString \in Nat /\ d.pMatch \in Nat
  BY FrameNumbers
<1>4. Deep(new)
  <2>1. n + 1 <= c.pString + c.pMatch
    BY <1>1 DEF Stack, Deep
  <2>2. n + 1 + 1 <= d.pString + d.pMatch
    BY <1>3, <2>1
  <2>3. ASSUME NEW k \in 1 .. n - 1  PROVE k + 1 <= new[k].pString + new[k].pMatch
    <3>1. k \in 1 .. n
      OBVIOUS
    <3> QED
      BY <1>1, <1>2, <3>1 DEF Stack, Deep
  <2>4. \A k \in 1 .. n + 1 : k = n + 1 \/ k = n \/ k \in 1 .. n - 1
    OBVIOUS
  <2> QED
    BY <1>2, <2>1, <2>2, <2>3, <2>4 DEF Deep
<1>5. Value(c) <=> Value(q[n])
  BY <1>1 DEF Value
<1>6. Chain(new)
  <2>1. ASSUME NEW k \in 1 .. n - 1
        PROVE  Waiting(new[k]) /\ (Value(new[k + 1]) <=> Called(new[k]))
    <3>1. Waiting(q[k]) /\ (Value(q[k + 1]) <=> Called(q[k]))
      BY <1>1 DEF Stack, Chain
    <3>2. new[k] = q[k]
      BY <1>2
    <3>3. k + 1 = n \/ k + 1 \in 1 .. n - 1
      OBVIOUS
    <3>4. Value(new[k + 1]) <=> Value(q[k + 1])
      BY <1>1, <1>2, <1>5, <3>3
    <3> QED
      BY <3>1, <3>2, <3>4
  <2>2. Len(new) - 1 = n /\ \A k \in 1 .. n : k = n \/ k \in 1 .. n - 1
    BY <1>2
  <2> QED
    BY <1>2, <2>1, <2>2 DEF Chain
<1>7. Whole(new)
  <2>1. 1 = n \/ 1 \in 1 .. n - 1
    BY <1>1
  <2>2. Value(new[1]) <=> Value(q[1])
    BY <1>1, <1>2, <1>5, <2>1
  <2> QED
    BY <2>2 DEF Stack, Whole
<1>8. Innermost(new, None)
  BY <1>2 DEF Innermost
<1> QED
  BY <1>2, <1>4, <1>6, <1>7, <1>8 DEF Stack

\* A call that returns what it has to answer.
LEMMA Answers ==
  ASSUME Strings, NEW q \in Seq(Frame), q # <<>>, NEW r, Stack(q, r),
         NEW v \in BOOLEAN, v = TRUE <=> Value(q[Len(q)])
  PROVE  Stack(Front(q), v)
<1>1. PICK n \in Nat : n = Len(q) /\ 1 <= n
  BY FrontFacts
<1> DEFINE new == Front(q)
<1>2. /\ new \in Seq(Frame) /\ Len(new) = n - 1
      /\ \A k \in 1 .. n - 1 : new[k] = q[k]
  BY <1>1, FrontFacts
<1> HIDE DEF new
<1>3. v # None
  BY CharacterAssumption
<1>4. new = <<>> <=> n = 1
  <2>1. new = <<>> => Len(new) = 0
    OBVIOUS
  <2>2. new # <<>> => Len(new) \in Nat \ {0}
    BY <1>2, EmptySeq
  <2> QED
    BY <1>1, <1>2, <2>1, <2>2
<1>5. Deep(new)
  <2>1. \A k \in 1 .. n - 1 : k \in 1 .. n
    OBVIOUS
  <2> QED
    BY <1>1, <1>2, <2>1 DEF Stack, Deep
<1>6. Chain(new)
  <2>1. ASSUME NEW k \in 1 .. n - 1 - 1
        PROVE  Waiting(new[k]) /\ (Value(new[k + 1]) <=> Called(new[k]))
    <3>1. k \in 1 .. n - 1 /\ k + 1 \in 1 .. n - 1
      OBVIOUS
    <3>2. Waiting(q[k]) /\ (Value(q[k + 1]) <=> Called(q[k]))
      BY <1>1, <3>1 DEF Stack, Chain
    <3>3. new[k] = q[k] /\ new[k + 1] = q[k + 1]
      BY <1>2, <3>1
    <3> QED
      BY <3>2, <3>3
  <2> QED
    BY <1>2, <2>1 DEF Chain
<1>7. Whole(new)
  <2> SUFFICES ASSUME new # <<>>  PROVE Value(new[1]) <=> Rest(1, 1)
    BY DEF Whole
  <2>1. 1 \in 1 .. n - 1
    BY <1>1, <1>4
  <2>2. new[1] = q[1]
    BY <1>2, <2>1
  <2> QED
    BY <2>2 DEF Stack, Whole
<1>8. Innermost(new, v)
  <2>1. CASE n = 1
    <3>1. v = TRUE <=> Rest(1, 1)
      BY <2>1, <1>1 DEF Stack, Whole
    <3> QED
      BY <3>1, <2>1, <1>3, <1>4 DEF Innermost
  <2>2. CASE n # 1
    <3>1. n - 1 \in 1 .. n - 1 /\ n - 1 + 1 = n
      BY <2>2, <1>1
    <3>2. Waiting(q[n - 1]) /\ (Value(q[n]) <=> Called(q[n - 1]))
      BY <3>1, <1>1 DEF Stack, Chain
    <3>3. new[Len(new)] = q[n - 1]
      BY <3>1, <1>2
    <3>4. Waiting(new[Len(new)]) /\ (v = TRUE <=> Called(new[Len(new)]))
      BY <3>2, <3>3, <1>1
    <3> QED
      BY <3>4, <2>2, <1>3, <1>4 DEF Innermost
  <2> QED
    BY <2>1, <2>2
<1> QED
  BY <1>2, <1>5, <1>6, <1>7, <1>8 DEF Stack, new
-----------------------------------------------------------------------------
(* The steps *)

\* Where the innermost call stands.
LEMMA TopFacts ==
  ASSUME Inv, calls # <<>>
  PROVE  /\ top = calls[Len(calls)] /\ top \in Frame /\ calls \in Seq(Frame)
         /\ top.pString \in 1 .. Len(str) + 1 /\ top.pMatch \in 1 .. Len(match) + 1
         /\ Len(str) \in Nat /\ Len(match) \in Nat
<1>1. calls \in Seq(Frame)
  BY DEF Inv, Stack
<1>2. top = calls[Len(calls)] /\ top \in Frame
  BY <1>1, FrontFacts DEF top
<1>3. Len(str) \in Nat /\ Len(match) \in Nat
  BY LenProperties DEF Inv, Strings
<1> QED
  BY <1>1, <1>2, <1>3 DEF Frame

\* Where it is after a character of each.
LEMMA Advance ==
  ASSUME Inv, calls # <<>>, top.state = "scan",
         top.pString <= Len(str), top.pMatch <= Len(match),
         Value(top) <=> Rest(top.pString + 1, top.pMatch + 1),
         GoOn([top EXCEPT !.pString = @ + 1, !.pMatch = @ + 1]), ret = None
  PROVE  Inv'
<1>0. PICK c : c = [top EXCEPT !.pString = @ + 1, !.pMatch = @ + 1]
  OBVIOUS
<1>1. /\ top = calls[Len(calls)] /\ top \in Frame /\ calls \in Seq(Frame)
      /\ top.pString \in 1 .. Len(str) + 1 /\ top.pMatch \in 1 .. Len(match) + 1
      /\ Len(str) \in Nat /\ Len(match) \in Nat
  BY TopFacts
<1>2. top.pString + 1 \in 1 .. Len(str) + 1 /\ top.pMatch + 1 \in 1 .. Len(match) + 1
  BY <1>1
<1>3. /\ c \in Frame /\ c.state = "scan"
      /\ c.pString = top.pString + 1 /\ c.pMatch = top.pMatch + 1
  <2>1. PICK x \in Frame : x = top
    BY <1>1
  <2>2. PICK i \in 1 .. Len(str) + 1, j \in 1 .. Len(match) + 1 :
          i = x.pString + 1 /\ j = x.pMatch + 1
    BY <1>2, <2>1
  <2>3. c = [x EXCEPT !.pString = i, !.pMatch = j]
    BY <1>0, <2>1, <2>2
  <2>4. /\ c \in Frame /\ c.state = x.state /\ c.pString = i /\ c.pMatch = j
    BY <2>3 DEF Frame
  <2> QED
    BY <2>1, <2>2, <2>4
<1>4. Value(c) <=> Value(top)
  BY <1>3 DEF Value
<1>5. top.pString + top.pMatch <= c.pString + c.pMatch
  <2>1. PICK i \in Int, j \in Int : i = top.pString /\ j = top.pMatch
    BY <1>1
  <2>2. c.pString = i + 1 /\ c.pMatch = j + 1
    BY <1>3, <2>1
  <2>3. i + j <= (i + 1) + (j + 1)
    OBVIOUS
  <2> QED
    BY <2>1, <2>2, <2>3
<1>6. calls' = Append(Front(calls), c) /\ ret' = None /\ UNCHANGED <<str, match>>
  BY <1>0 DEF GoOn
<1>7. Replaced(calls, calls', Frame, c)
  BY <1>1, <1>3, <1>6, AppendReplaces
<1>8. Stack(calls', None)
  BY <1>1, <1>3, <1>4, <1>5, <1>7, GoesOn DEF Inv
<1> QED
  BY <1>6, <1>8, StackStays

\* A call returns what it has to.
LEMMA ReturnsRight ==
  ASSUME Inv, calls # <<>>, NEW v \in BOOLEAN, v = TRUE <=> Value(top), Return(v)
  PROVE  Inv'
<1>1. top = calls[Len(calls)] /\ calls \in Seq(Frame)
  BY TopFacts
<1>2. calls' = Front(calls) /\ ret' = v /\ UNCHANGED <<str, match>>
  BY DEF Return
<1>3. Stack(Front(calls), v)
  BY <1>1, Answers DEF Inv
<1> QED
  BY <1>2, <1>3, StackStays

\* A call at a star makes another one.
LEMMA CallsRight ==
  ASSUME Inv, calls # <<>>, NEW state \in {"first", "second"},
         NEW s \in 1 .. Len(str) + 1, NEW m \in 1 .. Len(match) + 1,
         top.pMatch <= Len(match), match[top.pMatch] = Many,
         \/ state = "first" /\ s = top.pString /\ m = top.pMatch + 1
         \/ /\ state = "second" /\ s = top.pString + 1 /\ m = top.pMatch
            /\ top.pString <= Len(str) /\ ~Rest(top.pString, top.pMatch + 1),
         CallOf(Call(s, m), state)
  PROVE  Inv'
<1>0. PICK c, d : c = [top EXCEPT !.state = state] /\ d = Call(s, m)
  OBVIOUS
<1>1. /\ top = calls[Len(calls)] /\ top \in Frame /\ calls \in Seq(Frame)
      /\ top.pString \in 1 .. Len(str) + 1 /\ top.pMatch \in 1 .. Len(match) + 1
      /\ Len(str) \in Nat /\ Len(match) \in Nat
  BY TopFacts
<1>2. /\ c \in Frame /\ c.state = state
      /\ c.pString = top.pString /\ c.pMatch = top.pMatch
  BY <1>0, <1>1 DEF Frame
<1>3. d \in Frame /\ d.state = "scan" /\ d.pString = s /\ d.pMatch = m
  BY <1>0 DEF Frame, Call
<1>4. d.pString + d.pMatch = c.pString + c.pMatch + 1
  <2>1. PICK i \in Nat, j \in Nat : i = top.pString /\ j = top.pMatch
    BY <1>1
  <2>2. (s = i /\ m = j + 1) \/ (s = i + 1 /\ m = j)
    BY <2>1
  <2>3. s + m = i + j + 1
    BY <2>2
  <2> QED
    BY <1>2, <1>3, <2>1, <2>3
<1>5. Waiting(c)
  BY <1>2 DEF Waiting
<1>6. Value(d) <=> Called(c)
  BY <1>2, <1>3 DEF Value, Called
<1>7. calls' = Front(calls) \o <<c, d>> /\ ret' = None /\ UNCHANGED <<str, match>>
  BY <1>0 DEF CallOf
<1>8. Pushed(calls, calls', Frame, c, d)
  BY <1>1, <1>2, <1>3, <1>7, ConcatPushes
<1>9. Stack(calls', None)
  BY <1>1, <1>2, <1>3, <1>4, <1>5, <1>6, <1>8, CallsAnother DEF Inv
<1> QED
  BY <1>7, <1>9, StackStays

LEMMA QuestionKeeps == ASSUME Inv, Question  PROVE Inv'
<1>1. /\ calls # <<>> /\ ret = None /\ top.state = "scan"
      /\ top.pMatch <= Len(match) /\ match[top.pMatch] = One
  BY DEF Question, Scans, More
<1>2. /\ top.pString \in 1 .. Len(str) + 1 /\ top.pMatch \in 1 .. Len(match)
  BY <1>1, TopFacts
<1>3. Value(top) <=> top.pString <= Len(str) /\ Rest(top.pString + 1, top.pMatch + 1)
  BY <1>1, <1>2, RestOne DEF Value, Inv
<1>4. CASE top.pString <= Len(str)
  BY <1>1, <1>3, <1>4, Advance DEF Question, More
<1>5. CASE ~(top.pString <= Len(str))
  BY <1>1, <1>3, <1>5, ReturnsRight DEF Question, More
<1> QED
  BY <1>4, <1>5

LEMMA LiteralKeeps == ASSUME Inv, Literal  PROVE Inv'
<1>1. PICK c \in Letter :
        /\ Scans(c)
        /\ IF More(top.pString, str) /\ str[top.pString] = c
             THEN GoOn([top EXCEPT !.pString = @ + 1, !.pMatch = @ + 1])
             ELSE Return(FALSE)
  BY DEF Literal
<1>2. /\ calls # <<>> /\ ret = None /\ top.state = "scan"
      /\ top.pMatch <= Len(match) /\ match[top.pMatch] = c
  BY <1>1 DEF Scans, More
<1>3. /\ top.pString \in 1 .. Len(str) + 1 /\ top.pMatch \in 1 .. Len(match)
  BY <1>2, TopFacts
<1>4. Value(top) <=> /\ top.pString <= Len(str) /\ str[top.pString] = c
                     /\ Rest(top.pString + 1, top.pMatch + 1)
  BY <1>2, <1>3, RestLetter DEF Value, Inv
<1>5. CASE top.pString <= Len(str) /\ str[top.pString] = c
  BY <1>1, <1>2, <1>4, <1>5, Advance DEF More
<1>6. CASE ~(top.pString <= Len(str) /\ str[top.pString] = c)
  BY <1>1, <1>2, <1>4, <1>6, ReturnsRight DEF More
<1> QED
  BY <1>5, <1>6

LEMMA TryWithoutKeeps == ASSUME Inv, TryWithout  PROVE Inv'
<1>1. /\ calls # <<>> /\ top.pMatch <= Len(match) /\ match[top.pMatch] = Many
  BY DEF TryWithout, Scans, More
<1>2. /\ top.pString \in 1 .. Len(str) + 1 /\ top.pMatch + 1 \in 1 .. Len(match) + 1
  BY <1>1, TopFacts
<1> QED
  BY <1>1, <1>2, CallsRight DEF TryWithout

LEMMA TryRestKeeps == ASSUME Inv, TryRest  PROVE Inv'
<1>1. /\ calls # <<>> /\ ret # None /\ top.state = "first"
      /\ Waiting(top) /\ (ret = TRUE <=> Called(top)) /\ ret \in BOOLEAN
  BY TopFacts DEF TryRest, Inv, Stack, Innermost
<1>2. /\ top.pString \in 1 .. Len(str) + 1 /\ top.pMatch \in 1 .. Len(match)
      /\ top.pMatch \in 1 .. Len(match) + 1 /\ Len(str) \in Nat
  BY <1>1, TopFacts DEF Waiting
<1>3. match[top.pMatch] = Many /\ (ret = TRUE <=> Rest(top.pString, top.pMatch + 1))
  BY <1>1 DEF Waiting, Called
<1>4. Value(top) <=> \/ Rest(top.pString, top.pMatch + 1)
                     \/ top.pString <= Len(str) /\ Rest(top.pString + 1, top.pMatch)
  BY <1>2, <1>3, RestMany DEF Value, Inv
<1>5. CASE ret = FALSE /\ top.pString <= Len(str)
  <2>1. CallOf(Call(top.pString + 1, top.pMatch), "second")
    BY <1>5 DEF TryRest, More
  <2>2. top.pString + 1 \in 1 .. Len(str) + 1 /\ top.pMatch <= Len(match)
    BY <1>2, <1>5
  <2> QED
    BY <1>1, <1>2, <1>3, <1>5, <2>1, <2>2, CallsRight
<1>6. CASE ret = FALSE /\ ~(top.pString <= Len(str))
  BY <1>1, <1>3, <1>4, <1>6, ReturnsRight DEF TryRest, More
<1>7. CASE ret = TRUE
  BY <1>1, <1>3, <1>4, <1>7, ReturnsRight DEF TryRest, More
<1> QED
  BY <1>1, <1>5, <1>6, <1>7

LEMMA PassOnKeeps == ASSUME Inv, PassOn  PROVE Inv'
<1>1. /\ calls # <<>> /\ ret # None /\ top.state = "second" /\ Return(ret)
      /\ Waiting(top) /\ (ret = TRUE <=> Called(top)) /\ ret \in BOOLEAN
  BY TopFacts DEF PassOn, Inv, Stack, Innermost
<1>2. /\ top.pString \in 1 .. Len(str) + 1 /\ top.pMatch \in 1 .. Len(match)
  BY <1>1, TopFacts DEF Waiting
<1>3. /\ match[top.pMatch] = Many /\ (ret = TRUE <=> Rest(top.pString + 1, top.pMatch))
      /\ top.pString <= Len(str) /\ ~Rest(top.pString, top.pMatch + 1)
  BY <1>1 DEF Waiting, Called
<1>4. Value(top) <=> \/ Rest(top.pString, top.pMatch + 1)
                     \/ top.pString <= Len(str) /\ Rest(top.pString + 1, top.pMatch)
  BY <1>2, <1>3, RestMany DEF Value, Inv
<1> QED
  BY <1>1, <1>3, <1>4, ReturnsRight

LEMMA EndKeeps == ASSUME Inv, End  PROVE Inv'
<1>1. /\ calls # <<>> /\ ~(top.pMatch <= Len(match)) /\ Return(~(top.pString <= Len(str)))
  BY DEF End, More
<1>2. /\ top.pString \in 1 .. Len(str) + 1 /\ top.pMatch \in 1 .. Len(match) + 1
      /\ Len(str) \in Nat /\ Len(match) \in Nat
  BY <1>1, TopFacts
<1>3. top.pMatch = Len(match) + 1 /\ (top.pString = Len(str) + 1 <=> ~(top.pString <= Len(str)))
  BY <1>1, <1>2
<1>4. Value(top) <=> ~(top.pString <= Len(str))
  BY <1>2, <1>3, RestEnd DEF Value, Inv
<1> QED
  BY <1>1, <1>4, ReturnsRight

\* A sequence of bounded length is one.
LEMMA BoundedIsSeq ==
  ASSUME NEW S, NEW n \in Nat, NEW q \in BoundedSeq(S, n)
  PROVE  q \in Seq(S)
<1>1. PICK m \in 0 .. n : q \in [1 .. m -> S]
  BY DEF BoundedSeq, SeqOf
<1> QED
  BY <1>1, SeqDef

LEMMA InitHolds == ASSUME Init  PROVE Inv
<1>1. Strings
  BY BoundedIsSeq, CharacterAssumption DEF Init, Strings
<1>2. PICK q : q = <<Call(1, 1)>>
  OBVIOUS
<1>3. Len(str) \in Nat /\ Len(match) \in Nat
  BY <1>1, LenProperties DEF Strings
<1>4. Call(1, 1) \in Frame
  BY <1>3 DEF Call, Frame
<1>5. q \in Seq(Frame) /\ Len(q) = 1 /\ q[1] = Call(1, 1) /\ q # <<>>
  BY <1>2, <1>4
<1>6. Call(1, 1).pString = 1 /\ Call(1, 1).pMatch = 1 /\ Call(1, 1).state = "scan"
  BY DEF Call
<1>7. Stack(q, None)
  <2>1. Deep(q)
    BY <1>5, <1>6 DEF Deep
  <2>2. Chain(q)
    BY <1>5 DEF Chain
  <2>3. Whole(q)
    BY <1>5, <1>6 DEF Whole, Value
  <2>4. Innermost(q, None)
    BY <1>5, <1>6 DEF Innermost
  <2> QED
    BY <1>5, <2>1, <2>2, <2>3, <2>4 DEF Stack
<1> QED
  BY <1>1, <1>2, <1>7 DEF Init, Inv

LEMMA StepKeeps == ASSUME Inv, [Next]_vars  PROVE Inv'
<1>1. CASE UNCHANGED vars
  <2>1. Stack(calls', ret') /\ UNCHANGED <<str, match>>
    BY <1>1 DEF vars, Inv
  <2> QED
    BY <2>1, StackStays
<1> QED
  BY <1>1, QuestionKeeps, LiteralKeeps, TryWithoutKeeps, TryRestKeeps, PassOnKeeps, EndKeeps
     DEF Next

LEMMA Invariance == Spec => []Inv
BY InitHolds, StepKeeps, PTL DEF Spec

-----------------------------------------------------------------------------
\* Spec => []TypeOK: no call of WildcardMatch looks behind the ends of its
\* strings, and calls nest no deeper than both are long together.
THEOREM DepthBounded == Spec => []TypeOK
<1>1. ASSUME Inv  PROVE TypeOK
  <2>1. /\ str \in Seq(Letter) /\ match \in Seq(Letter \cup {One, Many})
        /\ calls \in Seq(Frame) /\ ret \in BOOLEAN \cup {None}
    BY <1>1 DEF Inv, Strings, Stack
  <2>2. Len(str) \in Nat /\ Len(match) \in Nat /\ Len(calls) \in Nat
    BY <2>1, LenProperties
  <2>3. Len(calls) <= Len(str) + Len(match) + 1
    <3>1. CASE calls = <<>>
      BY <3>1, <2>2
    <3>2. CASE calls # <<>>
      <4>1. Len(calls) \in 1 .. Len(calls) /\ calls[Len(calls)] = top
        BY <1>1, <3>2, <2>1, <2>2, TopFacts, EmptySeq
      <4>2. Len(calls) + 1 <= top.pString + top.pMatch
        BY <4>1, <1>1 DEF Inv, Stack, Deep
      <4>3. top.pString \in 1 .. Len(str) + 1 /\ top.pMatch \in 1 .. Len(match) + 1
        BY <1>1, <3>2, TopFacts
      <4> QED
        BY <2>2, <4>2, <4>3
    <3> QED
      BY <3>1, <3>2
  <2> QED
    BY <2>1, <2>3 DEF TypeOK, Frame
<1> QED
  BY <1>1, Invariance, PTL

\* Spec => []Decides: with all its backtracking, WildcardMatch returns TRUE
\* for just those strings that can be cut into pieces that fit the pattern.
THEOREM MatchDecided == Spec => []Decides
<1>1. ASSUME Inv  PROVE Decides
  <2> SUFFICES ASSUME calls = <<>>  PROVE ret = Matches
    BY DEF Decides
  <2>1. ret \in BOOLEAN /\ (ret = TRUE <=> Rest(1, 1))
    BY <1>1 DEF Inv, Stack, Innermost
  <2>2. Rest(1, 1) <=> Matches
    BY <1>1, RestMatches DEF Inv
  <2>3. Matches \in BOOLEAN
    BY DEF Matches
  <2> QED
    BY <2>1, <2>2, <2>3
<1> QED
  BY <1>1, Invariance, PTL
=============================================================================
