---------------------------- MODULE HookConfigProps ----------------------------
(***************************************************************************)
(* What the config may let a rule do.                                       *)
(***************************************************************************)
EXTENDS HookConfig

Max(lane) == IF lane = "DENY" THEN DenyMax ELSE AdviseMax

(* "A rule may not act until its benign firing rate is measured"              *)
(* (README.md:75): when a hook event lets a rule act at a lane, one completed *)
(* measurement covered exactly the rules that event runs, bounded the rule    *)
(* under the lane's ceiling on trials it was run on, and bounded every union  *)
(* of the rules under it too, whatever commands, edits and upgrades ran       *)
(* between.                                                                   *)
Earned(m, R, r, lane) ==
  /\ Sampled(m) = R
  /\ \A s \in m : U95[Row(s.trials, s.of)] <= Max(lane)
  /\ \E s \in m : r \in s.of /\ U95[Row(s.trials, {r})] <= Max(lane)
LaneIsEarned ==
  hook.stage = "decided" =>
    \A r \in hook.rules : \A lane \in {"ADVISE", "DENY"} :
      EffectiveLane(hook.config, hook.rules, r) = lane =>
        \E m \in measured : Earned(m, hook.rules, r, lane)

(* "until you explicitly promote its source" (README.md:96): no command gives *)
(* a source a lane that nobody ever asked for it.                             *)
PromotionIsExplicit ==
  \A s \in Sources : <<s, config.sources[s]>> \in asked

(* docs/claude-code.md:60, "It never changes requested lanes": the file a     *)
(* calibration saves asks for the lanes the file asked for.                   *)
CalibrationKeepsLanes ==
  [][\A p \in Procs : Save(p) /\ job[p].cmd \in {"calibrate", "import"} =>
       config'.sources = config.sources]_vars

(* promote, "checked against the ceiling the current evidence supports": the  *)
(* check is made on the rules and the config it read, and the file is only    *)
(* replaced later.  Whatever is upgraded, edited, measured or saved between   *)
(* the check, the write and a hook event, a hook event that finds the lane    *)
(* and the evidence of that check gives every rule of the source the lane on  *)
(* the rule set and surfaces that were checked, and RECORD on any other.      *)
PromotionHoldsWhereChecked ==
  hook.stage = "decided" =>
    \A j \in {job[p] : p \in Procs} :
      /\ j.stage = "done" /\ j.cmd = "promote"
      /\ hook.config.evidence = j.config.evidence
      /\ hook.config.sources[j.want.source] = j.want.lane
      => \A r \in hook.rules : r.source = j.want.source =>
           EffectiveLane(hook.config, hook.rules, r) =
             IF hook.rules = j.rules /\ hook.config.surfaces = j.config.surfaces
               THEN j.want.lane ELSE "RECORD"

(* docs/claude-code.md:62, "This first adapter refuses positive-hit           *)
(* measurements": a rule above RECORD has never fired on a benign trial.      *)
PositiveHitsRefused ==
  hook.stage = "decided" =>
    \A r \in hook.rules :
      EffectiveLane(hook.config, hook.rules, r) \in {"ADVISE", "DENY"} =>
        hook.config.evidence.rules[r.id][2] = 0
=============================================================================
