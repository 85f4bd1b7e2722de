--------------------------- MODULE SupervisorProps ---------------------------
(***************************************************************************)
(* What _run_worker owes its caller and the machine it runs on.             *)
(***************************************************************************)
EXTENDS Supervisor

(* "Bound pending OS launches too": a slot is held from the acquisition to   *)
(* the end of the supervisor, no slot is lost on any path, and a process     *)
(* lives only under a held slot, so no more than Slots of them exist however *)
(* many calls time out.                                                      *)
Holds(c) == pc[c] = "start" \/ spc[c] \notin {"unborn", "gone"}
SlotsCoverProcesses ==
  /\ free + Cardinality({c \in Calls : Holds(c)}) = Slots
  /\ \A c \in Calls : proc[c] \in Alive => Holds(c)

(* The tuple _run_worker returns, read without a lock while the supervisor   *)
(* may still write, is one of those _scan_leaves_impl can interpret          *)
(* (ScanBatch, RunWorkerReturns): a clean tuple holds all that was written   *)
(* and the exit status, and anything less says that it is less.  A tuple     *)
(* without a process stays true: "A late launch receives no input and is     *)
(* killed by its supervisor".                                                *)
Finished(c) ==
  /\ reply[c].error = "no" /\ proc[c] \in Dead
  /\ reply[c].output = written[c] /\ reply[c].returncode = Status(c)
  /\ proc[c] = "killed" => reply[c].cancelled
GaveUp(c) ==
  /\ reply[c].error = "cleanup" /\ reply[c].cancelled /\ proc[c] # "none"
  /\ reply[c].output <= written[c] /\ reply[c].returncode \in {"none", Status(c)}
NoProcess(c) ==
  /\ reply[c].error = "no" /\ reply[c].cancelled /\ ~fed[c]
  /\ reply[c].output = 0 /\ reply[c].returncode \in {"none", "nonzero"}
Faulted(c) ==
  reply[c].error = "fault" /\ reply[c].output = 0 /\ reply[c].returncode = "none"
RepliesInterpretable ==
  \A c \in Calls :
    pc[c] = "returned" => Finished(c) \/ GaveUp(c) \/ NoProcess(c) \/ Faulted(c)

(* "The caller has its own bounded wait and can already return": a call ends *)
(* whatever the launch, the supervisor and the worker do or fail to do.      *)
CallerReturns == \A c \in Calls : <>(pc[c] \in {"returned", "raised"})

(* Every slot comes back, so a service does not run out of them.             *)
SlotsReturn == ServiceFairness => <>[](free = Slots)
=============================================================================
