-------------------------------- MODULE Text --------------------------------
(* What the text tools share.  A character is its code, a line a sequence  *)
(* of characters.                                                          *)
EXTENDS Integers, Sequences, FiniteSets, SequencesExt, TLC

Tab == 9
Newline == 10
Space == 32
Minus == 45
IsBlank(c) == c \in {Space, Tab}
IsDigit(c) == c \in 48 .. 57
IsUpper(c) == c \in 65 .. 90
IsLower(c) == c \in 97 .. 122
Lower(c) == IF IsUpper(c) THEN c + 32 ELSE c
Upper(c) == IF IsLower(c) THEN c - 32 ELSE c
Mapped(s, Op(_)) == [i \in DOMAIN s |-> Op(s[i])]
LowerAll(s) == Mapped(s, Lower)

Least(S) == CHOOSE x \in S : \A y \in S : x <= y
Sign(n) == IF n < 0 THEN -1 ELSE IF n > 0 THEN 1 ELSE 0

(* strings.Compare: byte by byte, a prefix first.                          *)
Compare(s, t) ==
  LET differ == {i \in DOMAIN s \cap DOMAIN t : s[i] /= t[i]}
  IN IF differ /= {} THEN Sign(s[Least(differ)] - t[Least(differ)])
     ELSE Sign(Len(s) - Len(t))

Skip(s, n) == SubSeq(s, n + 1, Len(s))
Take(s, n) == SubSeq(s, 1, IF n < Len(s) THEN n ELSE Len(s))

(* The longest prefix of s all of whose characters satisfy P.              *)
Span(s, P(_)) == LET bad == {i \in DOMAIN s : ~ P(s[i])} IN IF bad = {} THEN Len(s) ELSE Least(bad) - 1
TrimLeft(s) == Skip(s, Span(s, IsBlank))

(* The numbers from lo to hi, and those of them in a set, as a sequence.     *)
Between(lo, hi) == [k \in 1 .. hi - lo + 1 |-> lo + k - 1]
InOrder(set, lo, hi) == SelectSeq(Between(lo, hi), LAMBDA i : i \in set)

(* strings.Split at every character of a kind, and the pieces between the  *)
(* runs of blanks.                                                         *)
Pieces(s, Sep(_)) ==
  LET cuts == SelectSeq(Between(1, Len(s)), LAMBDA i : Sep(s[i]))
      from(k) == IF k = 1 THEN 1 ELSE cuts[k - 1] + 1
      to(k) == IF k <= Len(cuts) THEN cuts[k] - 1 ELSE Len(s)
  IN [k \in 1 .. Len(cuts) + 1 |-> SubSeq(s, from(k), to(k))]
Words(s) == SelectSeq(Pieces(s, IsBlank), LAMBDA w : w /= <<>>)

(* strings.TrimSpace and strings.Fields                                      *)
IsWhite(c) == c \in 9 .. 13 \cup {Space}
TrimSpace(s) == LET rest == Skip(s, Span(s, IsWhite)) IN Take(rest, Len(rest) - Span(Reverse(rest), IsWhite))
Fields(s) == SelectSeq(Pieces(s, IsWhite), LAMBDA w : w /= <<>>)

(* strings.Join *)
Joined(parts, sep) ==
  IF parts = <<>> THEN <<>> ELSE FoldLeft(LAMBDA a, p : a \o sep \o p, parts[1], Tail(parts))

(* A command's options, in the order given, each [opt, arg]; a loop of n     *)
(* turns.                                                                  *)
Options(Op(_, _), start, args) == FoldLeft(Op, start, args)
Iterate(Step(_), start, n) == FoldLeft(LAMBDA s, k : Step(s), start, [k \in 1 .. n |-> k])

(* The digits at the start of s, as a number.                              *)
Digits(s) == FoldLeft(LAMBDA n, c : 10 * n + (c - 48), 0, Take(s, Span(s, IsDigit)))
=============================================================================
