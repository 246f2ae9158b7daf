------------------------------ MODULE Wildcard ------------------------------
(***************************************************************************)
(* CVFSPack::WildcardMatch, with which the archiver decides which files it *)
(* leaves out: `?' is any character, `*' any number of them.  A call works *)
(* its way through string and pattern and, at a star, calls itself, first  *)
(* without the star and, if that fails, with the rest of the string.       *)
(***************************************************************************)
EXTENDS Naturals, SequencesExt

CONSTANTS
  Letter,    \* the characters of strings
  One, Many, \* `?' and `*' in a pattern
  MaxString, \* bound: length of the string
  MaxMatch,  \* bound: length of the pattern
  None

ASSUME CharacterAssumption ==
  /\ One \notin Letter /\ Many \notin Letter /\ One # Many
  /\ None \notin BOOLEAN
  /\ MaxString \in Nat /\ MaxMatch \in Nat

VARIABLES
  str, match, \* what WildcardMatch was called with
  calls,      \* the calls that run, the outermost first
  ret         \* what the last call that ended returned, None while one runs

vars == <<str, match, calls, ret>>

\* pString and pMatch: the positions of the next characters; state: whether
\* the call still scans, or waits for the first or the second call it made.
Call(s, m) == [pString |-> s, pMatch |-> m, state |-> "scan"]

Init ==
  /\ str \in BoundedSeq(Letter, MaxString)
  /\ match \in BoundedSeq(Letter \cup {One, Many}, MaxMatch)
  /\ calls = <<Call(1, 1)>>
  /\ ret = None

top == Last(calls)
More(p, string) == p <= Len(string)

\* The innermost call goes on as c, calls another one, or returns.
GoOn(c) == calls' = Append(Front(calls), c) /\ UNCHANGED <<str, match, ret>>
CallOf(c, state) ==
  /\ calls' = Front(calls) \o <<[top EXCEPT !.state = state], c>>
  /\ ret' = None
  /\ UNCHANGED <<str, match>>
Return(value) ==
  /\ calls' = Front(calls) /\ ret' = value
  /\ UNCHANGED <<str, match>>

Scans(c) ==
  /\ calls # <<>> /\ ret = None
  /\ top.state = "scan" /\ More(top.pMatch, match) /\ match[top.pMatch] = c

BugQuestion ==
  /\ Scans(One)
  /\ GoOn([top EXCEPT !.pString = @ + 1, !.pMatch = @ + 1])
Question ==
  /\ Scans(One)
  /\ IF More(top.pString, str)
       THEN GoOn([top EXCEPT !.pString = @ + 1, !.pMatch = @ + 1])
       ELSE Return(FALSE)

BugLiteral ==
  \E c \in Letter :
    /\ Scans(c)
    /\ IF More(top.pString, str) /\ str[top.pString] = c
         THEN GoOn(top)
         ELSE Return(FALSE)
\* The end of the string equals no letter of the pattern.
Literal ==
  \E c \in Letter :
    /\ Scans(c)
    /\ IF More(top.pString, str) /\ str[top.pString] = c
         THEN GoOn([top EXCEPT !.pString = @ + 1, !.pMatch = @ + 1])
         ELSE Return(FALSE)

TryWithout ==
  Scans(Many) /\ CallOf(Call(top.pString, top.pMatch + 1), "first")

BugTryRest ==
  /\ calls # <<>> /\ ret # None /\ top.state = "first"
  /\ IF ~ret /\ More(top.pString, str)
       THEN CallOf(Call(top.pString + 1, top.pMatch + 1), "second")
       ELSE Return(ret)
TryRest ==
  /\ calls # <<>> /\ ret # None /\ top.state = "first"
  /\ IF ~ret /\ More(top.pString, str)
       THEN CallOf(Call(top.pString + 1, top.pMatch), "second")
       ELSE Return(ret)

PassOn ==
  /\ calls # <<>> /\ ret # None /\ top.state = "second"
  /\ Return(ret)

End ==
  /\ calls # <<>> /\ ret = None
  /\ top.state = "scan" /\ ~More(top.pMatch, match)
  /\ Return(~More(top.pString, str))

Next == Question \/ Literal \/ TryWithout \/ TryRest \/ PassOn \/ End

Spec == Init /\ [][Next]_vars /\ WF_vars(Next)

-----------------------------------------------------------------------------
(* What a match is, without stars being tried one way and another: the     *)
(* string can be cut into one piece for each character of the pattern.     *)

\* cut[k] characters of the string belong to the first k - 1 of the pattern.
Fits(k, cut) ==
  LET piece == SubSeq(str, cut[k] + 1, cut[k + 1]) IN
    CASE match[k] = Many -> cut[k] <= cut[k + 1]
      [] match[k] = One -> Len(piece) = 1
      [] OTHER -> piece = <<match[k]>>

Matches ==
  \E cut \in [1 .. Len(match) + 1 -> 0 .. Len(str)] :
    /\ cut[1] = 0 /\ cut[Len(match) + 1] = Len(str)
    /\ \A k \in 1 .. Len(match) : Fits(k, cut)

-----------------------------------------------------------------------------
\* Besides the types: no call ever looks behind the ends of its strings, and
\* however many stars there are, calls nest no deeper than the characters of
\* string and pattern together: the stack does not run over.
TypeOK ==
  /\ str \in Seq(Letter) /\ match \in Seq(Letter \cup {One, Many})
  /\ calls \in Seq([pString : 1 .. Len(str) + 1, pMatch : 1 .. Len(match) + 1,
                    state : {"scan", "first", "second"}])
  /\ ret \in BOOLEAN \cup {None}
  /\ Len(calls) <= Len(str) + Len(match) + 1

\* The outermost call returns what a match is.
Decides == calls = <<>> => ret = Matches

\* It returns, whatever the backtracking.
Returns == <>(calls = <<>>)
=============================================================================
