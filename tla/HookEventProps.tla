---------------------------- MODULE HookEventProps ----------------------------
(***************************************************************************)
(* What a hook event promises the session it serves.                        *)
(***************************************************************************)
EXTENDS HookEvent

Answered == pc \in {"answered", "failed"}
Materialized == pc \in {"log", "answer", "answered", "failed"} /\ scan # "raised"
                  /\ skeleton[1] # "new" /\ stack = <<>>
Texts == {n \in Nodes : ev.tree.kind[n] = "text"}
InLanes(L) == {x \in ev.matches : x[1] \in ev.selected /\ ev.lane[x[1]] \in L}

(* "A caller must not read an empty finding list under this as an absence of *)
(* findings": when the hook says nothing at all, every string of the payload *)
(* was checked against every selected rule and every match is in the log.    *)
(* No rule above RECORD matches, but for a DENY rule in an output string     *)
(* that is the withheld text already: there is nothing left to withhold, and *)
(* what another hook put there is not overwritten.                           *)
SilenceMeansChecked ==
  Answered /\ event \in {"IN", "OUT"} /\ ev.selected # {} /\ response = Silent =>
    /\ \A x \in InLanes(Lanes) : x \in records /\ logged
    /\ \A x \in InLanes({"ADVISE", "DENY"}) :
         event = "OUT" /\ ev.lane[x[1]] = "DENY" /\ x[2] \in ev.already

(* "A completed DENY match still denies", and nothing else is blocked or     *)
(* rewritten: a reported DENY finding refuses the call on IN and replaces    *)
(* exactly the strings it was found in on OUT, which are sent back if one of *)
(* them was not the withheld text yet.  If an exception comes after the scan *)
(* the call that was to be refused is still not let through unasked, and     *)
(* nothing is refused or rewritten.                                          *)
DenyIsExact ==
  Answered /\ scan = "answered" =>
    LET denied == {texts[x[2]] : x \in {y \in batch.findings : ev.lane[y[1]] = "DENY"}} IN
    /\ event = "IN" /\ denied # {} => response.decision \in {"deny", "ask"}
    /\ pc = "answered" =>
         /\ event = "IN" => (response.decision = "deny" <=> denied # {}) /\ replaced = {}
         /\ event = "OUT" => replaced = denied /\ response.decision = "none"
                               /\ (response.updated <=> ~(denied \subseteq ev.already))
    /\ pc = "failed" => response.decision # "deny" /\ ~response.updated

(* "an enabled measured DENY check could not finish. Approval is required to *)
(* proceed": once the rules are resolved, no call that a DENY rule covers    *)
(* goes ahead unasked on less than a whole scan.                             *)
UnfinishedDenyAsks ==
  Answered /\ event = "IN" /\ canAsk /\ response.decision = "none" =>
    \/ scan = "answered" /\ batch.complete /\ wired = ev.selected /\ stopped = "no"
    \/ Texts = {}

(* "RECORD and ADVISE cannot acquire blocking power through a timeout", and  *)
(* RECORD neither advises nor rewrites.  Without a DENY rule an output is    *)
(* sent back in one case, "resending an unmodified payload": it is a NaN.    *)
LanesBoundPower ==
  Answered =>
    /\ response.decision # "none" => DenyRules # {}
    /\ response.updated => \/ DenyRules # {}
                           \/ ev.tree.kind[1] = "nan" /\ replaced = {}
    /\ response.context = "advice" => \E r \in ev.selected : ev.lane[r] # "RECORD"

(* "Deliberately not a second bounded walk": the answer pass puts every      *)
(* collected string back, and a string of the payload that was not collected *)
(* lies in a subtree the walk kept whole and gave a reason for.              *)
NoStringLost ==
  Materialized =>
    /\ {n \in Nodes : skeleton[n] = "ref"} = {texts[p] : p \in 1 .. Len(texts)}
    /\ Cardinality({n \in Nodes : skeleton[n] = "ref"}) = Len(texts)
    /\ \A n \in Texts : skeleton[n] = "ref"
                          \/ \E k \in Nodes : skeleton[k] = "kept" /\ n \in Under(ev.tree, k)
    /\ (\E k \in Nodes : skeleton[k] = "kept") <=> stopped # "no"

(* The hook always answers the harness.                                      *)
EventIsAnswered == <>Answered

(* docs/claude-code.md:126, "completed findings remain effective when later  *)
(* work fails": when process has answered, a reported finding of the ADVISE  *)
(* lane reaches the model as advice, unless a stronger answer is given.      *)
CompletedAdviceIsGiven ==
  pc = "answered" /\ "ADVISE" \in fired =>
    response.context = "advice" \/ response.decision # "none" \/ response.updated
=============================================================================
