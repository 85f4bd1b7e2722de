------------------------------ MODULE AtrLoader ------------------------------
(***************************************************************************)
(* From a rule as its source publishes it to the record that travels        *)
(* (loaders/atr.py).  A file is a record                                    *)
(*   id, conds, logic ("any", "all" or neither), method, status, maturity,   *)
(*   target (tags.scan_target), source (agent_source.type), category,        *)
(*   suppress, restricted, readable, examples (the texts it says it matches) *)
(* and a condition [kind, field, atom]: kind is "regex", "modified" for a    *)
(* regex with a modifier the loader does not know, or "other".              *)
(***************************************************************************)
EXTENDS Screening, Selecting

CONSTANTS
  TextFields,       \* the condition fields the flat predicate knows
  ToolFields,       \* those that describe a tool call
  SkippedStatuses,  \* what the engine's skill entry point skips, and
  BlockedMaturities, ExemptTargets, Denylist, DenylistApplied, CompoundFloor
                    \* the rest of its gates (read_skill_gates)

ConditionTexts(raw) ==
  LET timed == SelectSeq(raw.conds, LAMBDA c : c.kind # "other")
  IN  [i \in DOMAIN timed |-> Text(timed[i].atom)]
Ported(text) == [i \in DOMAIN text |-> Port(text[i])]
FieldsOf(raw) == { raw.conds[i].field : i \in DOMAIN raw.conds }

(***************************************************************************)
(* The interception point of a rule, by the first statement of the rule that *)
(* names one (_surface).  Names that mean the same target are one value.      *)
(***************************************************************************)
SurfaceOfTarget ==
  [skill |-> "CFG", user_input |-> "PROMPT", tool_args |-> "IN", tool_output |-> "OUT"]

SurfaceOfFields(raw) ==
  CASE FieldsOf(raw) = {"tool_description"} -> "CFG"
    [] FieldsOf(raw) = {"user_input"} -> "PROMPT"
    [] FieldsOf(raw) # {} /\ FieldsOf(raw) \subseteq ToolFields -> "IN"
    [] "tool_response" \in FieldsOf(raw) \/ FieldsOf(raw) = {"agent_output"} -> "OUT"
    [] OTHER -> CASE raw.source = "tool_call" -> "IN"
                  [] raw.source # "tool_call" /\ raw.category = "skill" -> "CFG"
                  [] OTHER -> "OUT"

SurfaceOf(raw) ==
  IF raw.method \in {"trace", "behavioral"} THEN "NONE"
  ELSE IF raw.target \in DOMAIN SurfaceOfTarget THEN SurfaceOfTarget[raw.target]
       ELSE SurfaceOfFields(raw)

(***************************************************************************)
(* The flat predicate (_predicate).  One refused condition disables the rule. *)
(***************************************************************************)
PatternMethods == {"pattern", "semantic_with_fallback"}

RuleVerdict(table, raw) == MeasurementForRule(table, raw.id, ConditionTexts(raw))
BranchVerdict(table, raw) == IF RuleVerdict(table, raw) = "slow" THEN "none" ELSE RuleVerdict(table, raw)

Expressible(raw) ==
  /\ raw.method \in PatternMethods
  /\ raw.status \notin {"draft", "deprecated"}
  /\ ~raw.suppress
  /\ raw.conds # <<>>
  /\ Cardinality(FieldsOf(raw)) = 1 /\ FieldsOf(raw) \subseteq TextFields
  /\ \A i \in DOMAIN raw.conds : raw.conds[i].kind = "regex"
  /\ raw.logic \in {"any", "all"}

EveryConditionScreened(table, raw) ==
  \A i \in DOMAIN ConditionTexts(raw) :
    Screened(table, Ported(ConditionTexts(raw)[i]), BranchVerdict(table, raw), TRUE)

(* The alternation is ours: when it is refused its branches are kept.         *)
Alternative(table, raw, texts) ==
  IF Screened(table, Joined(texts), BranchVerdict(table, raw), TRUE)
  THEN Predicate("regex", <<Joined(texts)>>)
  ELSE IF Len(texts) > MaxBranches THEN NoPredicate ELSE Predicate("regex_any", texts)

Composed(table, raw, texts) ==
  IF Len(texts) = 1 THEN Predicate("regex", texts)
  ELSE IF raw.logic = "all" THEN Predicate("regex_all", texts)
       ELSE Alternative(table, raw, texts)

FlatPredicate(table, raw) ==
  IF /\ Expressible(raw)
     /\ RuleVerdict(table, raw) # "slow"
     /\ EveryConditionScreened(table, raw)
  THEN Composed(table, raw, [i \in DOMAIN raw.conds |-> Ported(Text(raw.conds[i].atom))])
  ELSE NoPredicate

(***************************************************************************)
(* The dispatch of the configuration channel (_cfg_binding): every gate of   *)
(* the source's engine, and the conditions that survive the screen.         *)
(***************************************************************************)
CompoundOK(raw) ==
  LET count    == Len(raw.conds)
      required == LET share == (3 * Max({count, 1}) + 9) \div 10    \* ceil(0.3 n)
                  IN  Max({CompoundFloor, share})
      reachable == IF raw.logic = "all" THEN count ELSE 1
  IN  raw.target \in ExemptTargets \/ reachable >= required

Dispatched(raw) ==
  /\ raw.status \notin SkippedStatuses
  /\ raw.maturity \notin BlockedMaturities
  /\ raw.method \in PatternMethods
  /\ raw.conds # <<>> /\ raw.logic \in {"any", "all"}
  /\ CompoundOK(raw)
  /\ DenylistApplied => raw.id \notin Denylist

UsableTexts(table, raw) ==
  LET kept == Only(raw.conds, { c \in Range(raw.conds) :
                c.kind = "regex" /\ Screened(table, Ported(Text(c.atom)), "none", TRUE) })
  IN  [i \in DOMAIN kept |-> Ported(Text(kept[i].atom))]

Binding(logic, texts) == [logic |-> logic, texts |-> texts]
NoBinding == Binding("none", <<>>)

CfgBindingDropping(table, raw) ==
  LET usable == UsableTexts(table, raw)
  IN  IF Dispatched(raw) /\ usable # <<>> THEN Binding(raw.logic, usable) ELSE NoBinding

(* Dropping a condition loses matches under "any" and gains them under "all". *)
CfgBinding(table, raw) ==
  LET usable == UsableTexts(table, raw)
  IN  IF /\ Dispatched(raw)
         /\ usable # <<>>
         /\ raw.logic = "all" => Len(usable) = Len(raw.conds)
      THEN Binding(raw.logic, usable) ELSE NoBinding

(***************************************************************************)
(* load: every file yields a rule or an error.  The first file of an id wins. *)
(***************************************************************************)
Rule(table, raw) ==
  [ id |-> raw.id, surface |-> SurfaceOf(raw), restricted |-> raw.restricted, examples |-> raw.examples,
    pred |-> FlatPredicate(table, raw), binding |-> CfgBinding(table, raw) ]

AddFile(table, loaded, raw) ==
  IF ~raw.readable \/ \E i \in DOMAIN loaded.rules : loaded.rules[i].id = raw.id
  THEN [loaded EXCEPT !.errors = @ + 1]
  ELSE [loaded EXCEPT !.rules = Append(@, Rule(table, raw))]

Load(table, files) ==
  LET after[i \in 0..Len(files)] ==
        IF i = 0 THEN [rules |-> <<>>, errors |-> 0] ELSE AddFile(table, after[i - 1], files[i])
  IN  after[Len(files)]
=============================================================================
