------------------------------ MODULE Utf16Port ------------------------------
(***************************************************************************)
(* Regular expressions written for an engine that matches UTF-16 code units, *)
(* and their port to one that matches code points (evaluate.py:             *)
(* port_utf16_surrogates).  A condition is a sequence of tokens:            *)
(*   "raw"    one ordinary character                                        *)
(*   "class"  \uXXXX escapes and ranges of them, as <<low, high>> pairs      *)
(*   "star"   the quantifier * on the token before it                       *)
(*   "points" what the port puts in the place of a surrogate pair           *)
(* The surrogates are two adjacent blocks of code units, the code points     *)
(* they encode start at Astral.  The blocks are small for TLC.              *)
(***************************************************************************)
EXTENDS Integers, Sequences, SequencesExt, FiniteSets, FiniteSetsExt

CONSTANTS
  HighFirst, HighLast, LowFirst, LowLast,  \* the surrogate blocks
  Astral,                                  \* the first code point beyond them
  MaxPortedRanges                          \* _MAX_PORTED_RANGES

ASSUME BlocksAssumption ==
  /\ {HighFirst, HighLast, LowFirst, LowLast, Astral, MaxPortedRanges} \subseteq Nat
  /\ HighFirst <= HighLast /\ HighLast < LowFirst /\ LowFirst <= LowLast
  /\ LowLast < Astral

Raw(c)     == [kind |-> "raw", items |-> << <<c, c>> >>]
Unit(u)    == [kind |-> "class", items |-> << <<u, u>> >>]
Class(rs)  == [kind |-> "class", items |-> rs]
Points(rs) == [kind |-> "points", items |-> rs]
Star       == [kind |-> "star", items |-> <<>>]

(* A condition as it is written for the source's engine, in code units.       *)
CodeUnits == 0 .. Astral - 1
Written(tokens) ==
  /\ tokens \in Seq([kind : {"raw", "class", "star"}, items : Seq(CodeUnits \X CodeUnits)])
  /\ \A i \in DOMAIN tokens : \A j \in DOMAIN tokens[i].items : tokens[i].items[j][1] <= tokens[i].items[j][2]
  /\ \A i \in DOMAIN tokens : tokens[i].kind = "star" => i > 1 /\ tokens[i - 1].kind # "star"

LowCount == LowLast - LowFirst + 1
CodePoint(high, low) == Astral + (high - HighFirst) * LowCount + (low - LowFirst)

Within(token, first, last) ==
  /\ token.kind = "class" /\ token.items # <<>>
  /\ \A i \in DOMAIN token.items :
       first <= token.items[i][1] /\ token.items[i][2] <= last

(***************************************************************************)
(* The code-point ranges of every high/low pair.  A whole block of lows is   *)
(* one range; any other block is one range for each high, as long as there   *)
(* is room.  Exploded stands for None: a range no code point is in.          *)
(***************************************************************************)
Exploded == << <<1, 0>> >>

AddPair(ranges, h, l) ==
  IF ranges = Exploded THEN Exploded
  ELSE IF l = <<LowFirst, LowLast>>
       THEN Append(ranges, <<CodePoint(h[1], LowFirst), CodePoint(h[2], LowLast)>>)
       ELSE IF h[2] - h[1] + Len(ranges) >= MaxPortedRanges THEN Exploded
            ELSE ranges \o [i \in 1..(h[2] - h[1] + 1) |->
                   <<CodePoint(h[1] + i - 1, l[1]), CodePoint(h[1] + i - 1, l[2])>>]

AddLows(ranges, h, lows) ==
  LET after[j \in 0..Len(lows)] == IF j = 0 THEN ranges ELSE AddPair(after[j - 1], h, lows[j])
  IN  after[Len(lows)]

(* None, if there are too many after all.                                   *)
Fitting(ranges) == IF ranges # Exploded /\ Len(ranges) > MaxPortedRanges THEN Exploded ELSE ranges

Combine(highs, lows) ==
  LET after[i \in 0..Len(highs)] == IF i = 0 THEN <<>> ELSE AddLows(after[i - 1], highs[i], lows)
  IN  Fitting(after[Len(highs)])

PairAtQuantified(tokens, i) ==
  /\ i < Len(tokens)
  /\ Within(tokens[i], HighFirst, HighLast)
  /\ Within(tokens[i + 1], LowFirst, LowLast)
  /\ Combine(tokens[i].items, tokens[i + 1].items) # Exploded

(* A pair is left alone when a quantifier follows: it belongs to the low one. *)
PairAt(tokens, i) ==
  /\ i < Len(tokens)
  /\ Within(tokens[i], HighFirst, HighLast)
  /\ Within(tokens[i + 1], LowFirst, LowLast)
  /\ ~(i + 1 < Len(tokens) /\ tokens[i + 2].kind = "star")
  /\ Combine(tokens[i].items, tokens[i + 1].items) # Exploded

(* Token after token; a low surrogate replaces the high one before it.  Two    *)
(* pairs never overlap, for the blocks do not.                              *)
Port(tokens) ==
  LET upTo[i \in 0..Len(tokens)] ==
        IF i = 0 THEN <<>>
        ELSE IF i > 1 /\ PairAt(tokens, i - 1)
             THEN Append(upTo[i - 2], Points(Combine(tokens[i - 1].items, tokens[i].items)))
             ELSE Append(upTo[i - 1], tokens[i])
  IN  upTo[Len(tokens)]

(* _has_surrogate_literal: some class still overlaps the surrogate blocks.    *)
HasSurrogate(tokens) ==
  \E i \in DOMAIN tokens : \E j \in DOMAIN tokens[i].items :
    tokens[i].items[j][1] <= LowLast /\ tokens[i].items[j][2] >= HighFirst

(***************************************************************************)
(* Searching.  The same tokens run over code units in the source's engine    *)
(* and over code points in ours; a text is a sequence of code points.       *)
(***************************************************************************)
(* The code points a well-formed text is made of.                            *)
Scalars == (0 .. CodePoint(HighLast, LowLast)) \ (HighFirst .. LowLast)

UnitsOf(point) ==
  IF point < Astral THEN <<point>>
  ELSE <<HighFirst + (point - Astral) \div LowCount, LowFirst + ((point - Astral) % LowCount)>>

Units(text) == FlattenSeq([i \in DOMAIN text |-> UnitsOf(text[i])])

Takes(token, x) ==
  \E j \in DOMAIN token.items : token.items[j][1] <= x /\ x <= token.items[j][2]

Once(token, s, from) == { o + 1 : o \in { o \in from : o < Len(s) /\ Takes(token, s[o + 1]) } }
Repeatedly(token, s, from) ==
  { q \in 0..Len(s) : \E o \in from : o <= q /\ \A m \in (o + 1)..q : Takes(token, s[m]) }

(* Where a match of the tokens that begins after position p may end.         *)
Ends(tokens, s, p) ==
  LET reach[i \in 0..Len(tokens)] ==
        IF i = 0 THEN {p}
        ELSE IF tokens[i].kind = "star" THEN Repeatedly(tokens[i - 1], s, reach[i - 2])
        ELSE Once(tokens[i], s, reach[i - 1])
  IN  reach[Len(tokens)]

(* The leftmost match and, of those, the longest; NoHit if there is none.     *)
NoHit == << >>

SearchAtom(tokens, s) ==
  LET starts == { p \in 0..Len(s) : Ends(tokens, s, p) # {} }
  IN  IF starts = {} THEN NoHit ELSE <<Min(starts), Max(Ends(tokens, s, Min(starts)))>>
=============================================================================
