---------------------------- MODULE ReleaseProps ----------------------------
(***************************************************************************)
(* What the rules that ship may be trusted for.                             *)
(***************************************************************************)
EXTENDS Release

CONSTANT Payloads   \* the well-formed texts the models are compared on

(* Texts have no lone surrogate, and the conditions of a checkout are written  *)
(* in code units, with escapes for what is beyond them.                      *)
ASSUME TextsAssumption ==
  /\ Payloads \subseteq Seq(Scalars)
  /\ \A fs \in Checkouts : \A i \in DOMAIN fs :
       /\ Len(fs[i].conds) \in Nat /\ DOMAIN fs[i].conds = 1 .. Len(fs[i].conds)
       /\ \A j \in DOMAIN fs[i].conds : fs[i].conds[j].kind = "regex" => Written(fs[i].conds[j].atom)
       /\ fs[i].examples \subseteq Seq(Scalars)

Shipped == IF bundle = Nothing THEN {} ELSE Range(bundle)
Loaded == Range(Load(table, files).rules)
FirstOf(fs, id) == fs[Min({ i \in DOMAIN fs : fs[i].id = id /\ fs[i].readable })]
RawOf(id) == FirstOf(origin.files, id)

(* What upstream's engine finds: code units, condition after condition.       *)
UpstreamHit(cond, s) == SearchAtom(cond.atom, Units(s)) # NoHit
UpstreamFires(raw, s) ==
  IF raw.logic = "all" THEN \A i \in DOMAIN raw.conds : UpstreamHit(raw.conds[i], s)
  ELSE \E i \in DOMAIN raw.conds : UpstreamHit(raw.conds[i], s)
BindingFires(binding, s) ==
  LET Hit(i) == SearchText(binding.texts[i], s) # NoHit
  IN  IF binding.logic = "all" THEN \A i \in DOMAIN binding.texts : Hit(i)
      ELSE \E i \in DOMAIN binding.texts : Hit(i)

(***************************************************************************)
(* A pattern that a scan of shipped rules or of the rules of a checkout runs, *)
(* of a flat predicate or of a binding, was timed as exactly that text and   *)
(* never found slow, whatever was edited, swept or rebuilt since - as long as *)
(* the manifest in force at the build was emitted from the texts the sweep   *)
(* read, which is what build_hazards.py asks of the person who emits it.     *)
(***************************************************************************)
FlatTexts(rules) == UNION { Range(rule.pred.texts) : rule \in { r \in rules : Accepted(table, r) } }
BoundTexts(rules) ==
  { t \in UNION { Range(rule.binding.texts) : rule \in rules } : Screened(table, t, "none", TRUE) }
RunningTexts == FlatTexts(Shipped \cup Loaded) \cup BoundTexts(Shipped \cup Loaded)

NoUntimedPatternRuns ==
  basis # Nothing /\ basis.together => RunningTexts \subseteq basis.timed \ basis.slow

(***************************************************************************)
(* A slow verdict that the merge file records is in the table of every later *)
(* build: regenerating never restores the verdict it corrects, and no later   *)
(* source takes it back.                                                    *)
(***************************************************************************)
CorrectionsSurvive ==
  basis # Nothing =>
    \A i \in DOMAIN basis.merge :
      /\ \A t \in DOMAIN basis.merge[i].patterns :
           basis.merge[i].patterns[t] = "slow" => t \in DOMAIN table.patterns /\ table.patterns[t] = "slow"
      /\ \A id \in DOMAIN basis.merge[i].rules :
           basis.merge[i].rules[id].row = "slow" => table.rules[id].row = "slow"

(***************************************************************************)
(* A shipped rule fires on a text exactly when upstream's engine, which      *)
(* reads code units and conditions one by one, fires; a disjunction kept in  *)
(* branches reports the very span of the alternation it stands for; and what *)
(* the bundle says of the examples is what upstream would find in them.      *)
(***************************************************************************)
FlatIsFaithful ==
  \A rule \in Shipped :
    /\ \A s \in Payloads :
         /\ SearchPredicate(rule.pred, s) # NoHit <=> UpstreamFires(RawOf(rule.id), s)
         /\ rule.pred.kind = "regex_any" => SearchAny(rule.pred.texts, s) = SearchText(Joined(rule.pred.texts), s)
    /\ rule.reach = "reachable" <=> \E s \in RawOf(rule.id).examples : UpstreamFires(RawOf(rule.id), s)

(***************************************************************************)
(* The dispatch of the configuration channel may lose matches of upstream's  *)
(* rule, never add one.                                                     *)
(***************************************************************************)
BindingOnlyLoses ==
  table # EmptyTable =>
    \A rule \in Loaded : rule.binding # NoBinding =>
      \A s \in Payloads : BindingFires(rule.binding, s) => UpstreamFires(FirstOf(files, rule.id), s)
-----------------------------------------------------------------------------
(***************************************************************************)
(* Why the first two hold: the inductive invariant, part by part.            *)
(***************************************************************************)
(* What the report in force says was timed, and which rules did not cross.    *)
SweepIsTrue ==
  report # Nothing =>
    /\ DOMAIN report = DOMAIN swept
    /\ \A id \in DOMAIN report : report[id].fully =>
         /\ Distinct(swept[id]) \subseteq timed
         /\ report[id].reps = {} => Distinct(swept[id]) \cap SweepSlow = {}

(* A correction is of a text that was timed.  What was found slow, a sweep     *)
(* finds slow, or the merge file says so.                                    *)
Corrects(source, t, verdict) == t \in DOMAIN source.patterns /\ source.patterns[t] = verdict
MergeIsTrue ==
  /\ merge \in Seq(Range(merge))
  /\ \A i \in DOMAIN merge : \A t \in DOMAIN merge[i].patterns : Corrects(merge[i], t, "fast") => t \in timed \ SweepSlow
  /\ \A t \in slow \ SweepSlow : \E i \in DOMAIN merge : Corrects(merge[i], t, "slow")

(* What the table says is fast was timed and never found slow.                *)
Fast(t) == { text \in DOMAIN t.patterns : t.patterns[text] = "fast" }
TableIsTrue == basis # Nothing /\ basis.together => Fast(table) \subseteq basis.timed \ basis.slow

(* What ships was loaded, accepted and trimmed, file by file.                *)
Builds(fs, t, rule) ==
  \E source \in Range(Load(t, fs).rules) :
    source.pred.kind # "none" /\ Accepted(t, source) /\ rule = Trimmed(t, source)
BundleIsTrue ==
  bundle # Nothing =>
    /\ origin.files \in Checkouts
    /\ \A rule \in Shipped : Builds(origin.files, origin.table, rule)

ReleaseInv ==
  files \in Checkouts /\ SweepIsTrue /\ MergeIsTrue /\ TableIsTrue /\ CorrectionsSurvive /\ BundleIsTrue
=============================================================================
