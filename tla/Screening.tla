------------------------------ MODULE Screening ------------------------------
(***************************************************************************)
(* Which patterns may run, and what they find (evaluate.py: the hazard      *)
(* table, screen_pattern, compile_rule, scan_trusted).                      *)
(*                                                                         *)
(* A pattern text is the sequence of the conditions it is made of: one for a *)
(* condition as its author wrote it, several for an alternation this package *)
(* joined out of them.  A digest is the text it is of.  A condition is a     *)
(* sequence of tokens (Utf16Port).                                          *)
(***************************************************************************)
EXTENDS Utf16Port

CONSTANTS
  NestedAtoms,     \* conditions with a quantifier under a quantifier
  BranchingAtoms,  \* conditions with an alternation under a quantifier
  ReferenceAtoms,  \* conditions with a backreference
  BrokenAtoms,     \* conditions re does not compile
  MaxPatternLen,   \* _MAX_PATTERN_LEN, in tokens
  MaxBranches      \* _MAX_NEEDLES

ASSUME LimitsAssumption == MaxPatternLen \in Nat \ {0} /\ MaxBranches \in Nat \ {0}

Text(atom)    == <<atom>>
Joined(texts) == FlattenSeq(texts)
TextLen(text) == FoldLeft(LAMBDA n, atom : n + Len(atom), 0, text)
HasAny(text, atoms) == \E i \in DOMAIN text : text[i] \in atoms

(***************************************************************************)
(* The measurement table: per text, and per rule under the digest of all of  *)
(* its conditions.  An "inferred-fast" row is a note, not a measurement.     *)
(***************************************************************************)
Rows == {"slow", "fast", "inferred-fast"}
EmptyTable == [rules |-> <<>>, patterns |-> <<>>]

MeasurementFromRow(row) == IF row \in {"slow", "fast"} THEN row ELSE "none"

MeasurementForPattern(table, text) ==
  IF text \in DOMAIN table.patterns THEN MeasurementFromRow(table.patterns[text]) ELSE "none"

MeasurementForRule(table, id, texts) ==
  IF id \in DOMAIN table.rules /\ table.rules[id].digest = texts
  THEN MeasurementFromRow(table.rules[id].row) ELSE "none"

(***************************************************************************)
(* screen_pattern accepts a text.  The row of exactly this text is asked     *)
(* first; a verdict supplied for the rule may refuse it too; the shape       *)
(* decides only where nothing was measured.                                 *)
(***************************************************************************)
ShapeRefuses(text) == HasAny(text, NestedAtoms \cup BranchingAtoms)

Screened(table, text, supplied, strict) ==
  LET recorded == MeasurementForPattern(table, text)
  IN  /\ TextLen(text) <= MaxPatternLen
      /\ ~HasAny(text, BrokenAtoms \cup ReferenceAtoms)
      /\ recorded # "slow" /\ supplied # "slow"
      /\ strict => recorded # "none"
      /\ recorded = "none" /\ supplied = "none" => ~ShapeRefuses(text)
      /\ ~\E i \in DOMAIN text : HasSurrogate(text[i])

(***************************************************************************)
(* Predicates: "regex" of one text, "regex_all" and "regex_any" of several,  *)
(* "none" of a rule that does not run.                                      *)
(***************************************************************************)
Predicate(kind, texts) == [kind |-> kind, texts |-> texts]
NoPredicate == Predicate("none", <<>>)
Structured(pred) ==
  /\ Len(pred.texts) \in 1..MaxBranches
  /\ \A i \in DOMAIN pred.texts : TextLen(pred.texts[i]) <= MaxPatternLen

(* compile_rule succeeds; strict is the policy for rules of ATR.              *)
Compiles(table, pred, strict) ==
  /\ pred.kind \in {"regex_all", "regex_any"} => Structured(pred)
  /\ \A i \in DOMAIN pred.texts : Screened(table, pred.texts[i], "none", strict)

(* re: at the leftmost position, the first branch that matches there.         *)
SearchText(text, s) ==
  LET hits  == [i \in DOMAIN text |-> SearchAtom(text[i], s)]
      found == { i \in DOMAIN text : hits[i] # NoHit }
      first == Min({ hits[i][1] : i \in found })
  IN  IF found = {} THEN NoHit ELSE hits[Min({ i \in found : hits[i][1] = first })]

SearchAll(texts, s) ==
  IF \E i \in DOMAIN texts : SearchText(texts[i], s) = NoHit
  THEN NoHit ELSE SearchText(texts[1], s)

(* _RegexAny: walk the branches, keep a hit that begins further left.         *)
Further(best, hit) == hit # NoHit /\ (best = NoHit \/ hit[1] < best[1])
SearchAny(texts, s) ==
  LET best[i \in 0..Len(texts)] ==
        IF i = 0 THEN NoHit
        ELSE IF Further(best[i - 1], SearchText(texts[i], s)) THEN SearchText(texts[i], s)
        ELSE best[i - 1]
  IN  best[Len(texts)]

SearchPredicate(pred, s) ==
  CASE pred.kind = "regex"     -> SearchText(pred.texts[1], s)
    [] pred.kind = "regex_all" -> SearchAll(pred.texts, s)
    [] pred.kind = "regex_any" -> SearchAny(pred.texts, s)

(***************************************************************************)
(* scan_trusted on one rule: a rule that does not compile is an error and    *)
(* leaves the scan incomplete.                                              *)
(***************************************************************************)
TrustedScan(table, pred, strict, s) ==
  [ complete |-> Compiles(table, pred, strict),
    hit      |-> IF Compiles(table, pred, strict) THEN SearchPredicate(pred, s) ELSE NoHit ]
=============================================================================
