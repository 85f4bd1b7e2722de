------------------------- MODULE CalibrationGateProps -------------------------
(***************************************************************************)
(* What the gate's answer means.                                            *)
(***************************************************************************)
EXTENDS CalibrationGate

(***************************************************************************)
(* When run says PASS, as many figures as it asks for agree with what was     *)
(* published, each on its own rules and its own corpus; when it says FAIL,    *)
(* they do not.  No snapshot that a killed prepare or a virus scanner left    *)
(* incomplete is ever measured in their place, as long as nothing is written  *)
(* while run is at work: the rule files are read twice, once to be verified.  *)
(***************************************************************************)
TrulyAgrees(i) ==
  \A k \in DOMAIN Figures[i].claims : InTolerance(Figures[i].claims[k], world.scores[i][k])
VerdictIsExact ==
  still /\ verdict \in {"pass", "fail"} =>
    (verdict = "pass" <=> Cardinality({ i \in DOMAIN Figures : TrulyAgrees(i) }) >= MinAgreeing)

(***************************************************************************)
(* A prepare that ends well, the export included, repairs whatever kills and  *)
(* losses before it left: a run after it reaches every figure, unless         *)
(* something is lost again.                                                 *)
(***************************************************************************)
PrepareRepairs == still /\ sound = "yes" => verdict # "unreachable"

-----------------------------------------------------------------------------
(***************************************************************************)
(* Why both hold: the inductive invariant, part by part.                     *)
(***************************************************************************)
FileStates == {"whole", "torn", "missing"}
BuilderSteps == { "idle", "clone", "check", "root", "open", "fill", "mark",
                  "export", "exporting", "report", "report lacking" }
Placed ==
  /\ disk \in [ToSet(Revs) -> [made : BOOLEAN, marked : BOOLEAN, files : [Names -> FileStates]]]
  /\ builder \in [step : BuilderSteps, rev : Nat, file : Nat]
  /\ builder.step \in {"clone", "check", "root", "open", "fill", "mark"} => builder.rev \in 1 .. Len(Revs)
  /\ builder.step \in {"open", "fill"} => builder.file \in 1 .. Len(Archive)
  /\ builder.step \in {"clone", "check"} => builder.rev = 1
  /\ scorer \in [step : {"idle", "verify", "corpus", "rules", "measure"}, rules : {"none", "pinned", "other"}]
  /\ figures \in Seq([status : {"measured", "unreachable"}, agrees : BOOLEAN])
  /\ Len(figures) <= Len(Figures)
  /\ scorer.step \in {"corpus", "rules", "measure"} => Len(figures) < Len(Figures)
  /\ scorer.step # "idle" => verdict = "none"
  /\ world \in Worlds

(* Nothing is being prepared while nobody writes; and until somebody does,    *)
(* what was verified is what is read, so a figure that was measured is right. *)
Quiet == still => builder.step = "idle"
Measured(i) == figures[i].status = "measured" => (figures[i].agrees <=> TrulyAgrees(i))
Trusting ==
  still =>
    /\ scorer.step \in {"corpus", "rules"} => Verified(Root)
    /\ scorer.step = "measure" => scorer.rules = "pinned"
    /\ \A i \in DOMAIN figures : Measured(i)

(* How far prepare has come: what it is done with is whole.                   *)
Filled(r, n) == \A i \in 1 .. n : disk[r].files[Archive[i]] = "whole"
Done(r) == disk[r].made /\ disk[r].marked /\ Filled(r, Len(Archive))
Exported == \A i \in DOMAIN Figures : Figures[i].corpus = "self" => disk[Figures[i].rev].files["self"] = "whole"
Progress ==
  /\ sound = "so far" =>
       /\ builder.step \in {"root", "open", "fill", "mark"} => \A k \in 1 .. builder.rev - 1 : Done(Revs[k])
       /\ builder.step \in {"open", "fill", "mark"} => disk[Rev].made
       /\ builder.step \in {"open", "fill"} => Filled(Rev, builder.file - 1)
       /\ builder.step = "mark" => Filled(Rev, Len(Archive))
       /\ builder.step \in {"export", "exporting", "report", "report lacking"} => \A r \in ToSet(Revs) : Done(r)
       /\ builder.step = "report" => Exported
  /\ sound = "yes" => builder.step = "idle" /\ Exported /\ \A r \in ToSet(Revs) : Done(r)

(* What a sound prepare left lets no figure be unreachable.                   *)
Reaching == still /\ sound = "yes" => \A i \in DOMAIN figures : figures[i].status = "measured"

GateInv == Placed /\ Quiet /\ Trusting /\ Progress /\ Reaching /\ VerdictIsExact /\ PrepareRepairs
=============================================================================
