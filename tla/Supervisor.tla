------------------------------ MODULE Supervisor ------------------------------
(***************************************************************************)
(* _run_worker (evaluate.py): concurrent calls, each with a supervisor      *)
(* thread, a watchdog timer and a worker process, under one process-wide    *)
(* BoundedSemaphore.                                                        *)
(*                                                                          *)
(* The caller and the supervisor share a dictionary and two events and no   *)
(* lock, so every read and every write of them is a step of its own.  Time  *)
(* is one flag per call, raised when its deadline passes; the 100 ms of     *)
(* _CLEANUP_S may end at any moment.  A worker's output is the number of    *)
(* lines it has flushed; module ScanBatch says what is in them.             *)
(***************************************************************************)
EXTENDS Integers, FiniteSets

CONSTANTS
  Calls,     \* the calls of _run_worker considered
  Slots,     \* the initial value of _SUPERVISORS
  MaxLines   \* lines a worker writes before it ends

ASSUME CallsAssumption == IsFiniteSet(Calls)
ASSUME SlotsAssumption == Slots \in Nat \ {0}
ASSUME LinesAssumption == MaxLines \in Nat

VARIABLES
  free,       \* the semaphore
  pc,         \* per call, where the caller is
  spc,        \* per call, where the supervisor thread is
  timer,      \* per call, the watchdog
  late,       \* per call: perf_counter() >= deadline
  proc,       \* per call, the process
  written,    \* per call, lines flushed
  fed,        \* per call: the request went to stdin
  cancelled, finished,                   \* the two events
  process, output, returncode, error,    \* the shared dictionary
  local,      \* per call, the supervisor's output variable
  reply       \* per call, what the caller has read of the dictionary

callerVars == <<pc, reply>>
superVars  == <<spc, local>>
procVars   == <<proc, written, fed>>
events     == <<cancelled, finished>>
dict       == <<process, output, returncode, error>>
vars == <<free, callerVars, superVars, timer, late, procVars, events, dict>>

Unread == [output |-> 0, cancelled |-> FALSE, returncode |-> "none", error |-> "no"]
Alive  == {"running", "doomed"}
Dead   == {"exited", "failed", "killed"}
Status(c) == CASE proc[c] = "exited" -> "zero"
               [] proc[c] \in {"failed", "killed"} -> "nonzero"
               [] OTHER -> "none"

Init ==
  /\ free = Slots
  /\ pc = [c \in Calls |-> "call"] /\ spc = [c \in Calls |-> "unborn"]
  /\ timer = [c \in Calls |-> "off"] /\ late = [c \in Calls |-> FALSE]
  /\ proc = [c \in Calls |-> "none"] /\ written = [c \in Calls |-> 0]
  /\ fed = [c \in Calls |-> FALSE]
  /\ cancelled = [c \in Calls |-> FALSE] /\ finished = [c \in Calls |-> FALSE]
  /\ process = [c \in Calls |-> FALSE] /\ output = [c \in Calls |-> 0]
  /\ returncode = [c \in Calls |-> "none"] /\ error = [c \in Calls |-> "no"]
  /\ local = [c \in Calls |-> 0] /\ reply = [c \in Calls |-> Unread]

-----------------------------------------------------------------------------
(* The caller. *)

GoCaller(c, to) == pc' = [pc EXCEPT ![c] = to]

(* acquire(blocking=False): a call that finds no slot does not wait. *)
Acquire(c) ==
  /\ pc[c] = "call"
  /\ IF free = 0
       THEN /\ reply' = [reply EXCEPT ![c].error = "fault"]
            /\ GoCaller(c, "returned") /\ UNCHANGED free
       ELSE /\ free' = free - 1 /\ GoCaller(c, "start") /\ UNCHANGED reply
  /\ UNCHANGED <<superVars, timer, late, procVars, events, dict>>

Start(c) ==
  /\ pc[c] = "start"
  /\ GoCaller(c, "wait")
  /\ spc' = [spc EXCEPT ![c] = "begin"]
  /\ UNCHANGED <<free, reply, local, timer, late, procVars, events, dict>>

(* Thread.start raises RuntimeError. *)
StartFailsKeepingSlot(c) ==
  /\ pc[c] = "start"
  /\ reply' = [reply EXCEPT ![c].error = "fault"]
  /\ GoCaller(c, "returned")
  /\ UNCHANGED <<free, superVars, timer, late, procVars, events, dict>>
StartFails(c) ==
  /\ pc[c] = "start"
  /\ free' = free + 1
  /\ reply' = [reply EXCEPT ![c].error = "fault"]
  /\ GoCaller(c, "returned")
  /\ UNCHANGED <<superVars, timer, late, procVars, events, dict>>

(* finished.wait(...) answers in time. *)
Served(c) ==
  /\ pc[c] \in {"wait", "grace"}
  /\ finished[c]
  /\ GoCaller(c, "read_output")
  /\ UNCHANGED <<free, reply, superVars, timer, late, procVars, events, dict>>

(* It does not: cancel first, look for a process second. *)
GiveUpNever(c) == FALSE /\ UNCHANGED vars
GiveUp(c) ==
  /\ pc[c] = "wait"
  /\ late[c] /\ ~finished[c]
  /\ cancelled' = [cancelled EXCEPT ![c] = TRUE]
  /\ GoCaller(c, "look")
  /\ UNCHANGED <<free, reply, superVars, timer, late, procVars, finished, dict>>

Look(c) ==
  /\ pc[c] = "look"
  /\ GoCaller(c, IF process[c] THEN "grace" ELSE "read_output")
  /\ UNCHANGED <<free, reply, superVars, timer, late, procVars, events, dict>>

(* The 100 ms for cleanup are over. *)
GraceOver(c) ==
  /\ pc[c] = "grace" /\ ~finished[c]
  /\ error' = [error EXCEPT ![c] = "cleanup"]
  /\ GoCaller(c, "read_output")
  /\ UNCHANGED <<free, reply, superVars, timer, late, procVars, events,
                 process, output, returncode>>

(* The return statement evaluates its four expressions one after the other. *)
Read(c) ==
  /\ \/ /\ pc[c] = "read_output" /\ GoCaller(c, "read_cancelled")
        /\ reply' = [reply EXCEPT ![c].output = output[c]]
     \/ /\ pc[c] = "read_cancelled" /\ GoCaller(c, "read_returncode")
        /\ reply' = [reply EXCEPT ![c].cancelled = cancelled[c]]
     \/ /\ pc[c] = "read_returncode" /\ GoCaller(c, "read_error")
        /\ reply' = [reply EXCEPT ![c].returncode = returncode[c]]
     \/ /\ pc[c] = "read_error" /\ GoCaller(c, "returned")
        /\ reply' = [reply EXCEPT ![c].error = error[c]]
  /\ UNCHANGED <<free, superVars, timer, late, procVars, events, dict>>

Kill(c) == proc' = [proc EXCEPT ![c] = IF @ = "running" THEN "doomed" ELSE @]

(* A KeyboardInterrupt while waiting: cancel, kill what is there, re-raise. *)
Interrupt(c) ==
  /\ pc[c] \in {"wait", "look", "grace"}
  /\ cancelled' = [cancelled EXCEPT ![c] = TRUE]
  /\ GoCaller(c, "interrupted")
  /\ UNCHANGED <<free, reply, superVars, timer, late, procVars, finished, dict>>

InterruptKill(c) ==
  /\ pc[c] = "interrupted"
  /\ IF process[c] THEN Kill(c) ELSE UNCHANGED proc
  /\ GoCaller(c, "raised")
  /\ UNCHANGED <<free, reply, superVars, timer, late, written, fed, events, dict>>

Caller(c) == \/ Acquire(c) \/ Start(c) \/ StartFails(c) \/ Served(c) \/ GiveUp(c) \/ Look(c)
             \/ GraceOver(c) \/ Read(c) \/ InterruptKill(c)

-----------------------------------------------------------------------------
(* The supervisor thread. *)

GoSuper(c, to) == spc' = [spc EXCEPT ![c] = to]

(* An early cancellation starts nothing. *)
Begin(c) ==
  /\ spc[c] = "begin"
  /\ GoSuper(c, IF cancelled[c] THEN "final" ELSE "launch")
  /\ UNCHANGED <<free, callerVars, local, timer, late, procVars, events, dict>>

Launch(c) ==
  /\ spc[c] = "launch"
  /\ proc' = [proc EXCEPT ![c] = "running"]
  /\ GoSuper(c, "publish")
  /\ UNCHANGED <<free, callerVars, local, timer, late, written, fed, events, dict>>

LaunchFails(c) ==
  /\ spc[c] = "launch"
  /\ error' = [error EXCEPT ![c] = "fault"]
  /\ GoSuper(c, "final")
  /\ UNCHANGED <<free, callerVars, local, timer, late, procVars, events,
                 process, output, returncode>>

Publish(c) ==
  /\ spc[c] = "publish"
  /\ process' = [process EXCEPT ![c] = TRUE]
  /\ GoSuper(c, "arm")
  /\ UNCHANGED <<free, callerVars, local, timer, late, procVars, events,
                 output, returncode, error>>

Arm(c) ==
  /\ spc[c] = "arm"
  /\ timer' = [timer EXCEPT ![c] = "armed"]
  /\ GoSuper(c, "check")
  /\ UNCHANGED <<free, callerVars, local, late, procVars, events, dict>>

(* A launch that comes too late gets no input and is killed. *)
CheckUnheeding(c) ==
  /\ spc[c] = "check"
  /\ GoSuper(c, "feed")
  /\ UNCHANGED <<free, callerVars, local, timer, late, procVars, events, dict>>
Check(c) ==
  /\ spc[c] = "check"
  /\ IF cancelled[c] \/ late[c]
       THEN /\ cancelled' = [cancelled EXCEPT ![c] = TRUE]
            /\ Kill(c) /\ GoSuper(c, "talk")
       ELSE GoSuper(c, "feed") /\ UNCHANGED <<cancelled, proc>>
  /\ UNCHANGED <<free, callerVars, local, timer, late, written, fed, finished, dict>>

(* communicate(request) begins. *)
Feed(c) ==
  /\ spc[c] = "feed"
  /\ fed' = [fed EXCEPT ![c] = TRUE]
  /\ GoSuper(c, "talk")
  /\ UNCHANGED <<free, callerVars, local, timer, late, proc, written, events, dict>>

(* communicate returns: the process has ended and its pipe is drained.       *)
Drained(c) ==
  /\ spc[c] \in {"talk", "reap"}
  /\ proc[c] \in Dead
  /\ local' = [local EXCEPT ![c] = written[c]]
  /\ GoSuper(c, "store")
  /\ UNCHANGED <<free, callerVars, timer, late, procVars, events, dict>>

TalkTimesOut(c) ==
  /\ spc[c] = "talk"
  /\ late[c]
  /\ cancelled' = [cancelled EXCEPT ![c] = TRUE]
  /\ Kill(c)
  /\ GoSuper(c, "reap")
  /\ UNCHANGED <<free, callerVars, local, timer, late, written, fed, finished, dict>>

(* The second communicate times out too: what was read so far counts, and    *)
(* the slot is kept until the process is reaped.                             *)
ReapTimesOut(c) ==
  /\ spc[c] = "reap"
  /\ \E n \in 0 .. written[c] : local' = [local EXCEPT ![c] = n]
  /\ error' = [error EXCEPT ![c] = "cleanup"]
  /\ GoSuper(c, "partial")
  /\ UNCHANGED <<free, callerVars, timer, late, procVars, events,
                 process, output, returncode>>

StorePartial(c) ==
  /\ spc[c] = "partial"
  /\ output' = [output EXCEPT ![c] = local[c]]
  /\ GoSuper(c, "await")
  /\ UNCHANGED <<free, callerVars, local, timer, late, procVars, events,
                 process, returncode, error>>

Reaped(c) ==
  /\ spc[c] \in {"await", "mourn"}
  /\ proc[c] \in Dead
  /\ GoSuper(c, IF spc[c] = "await" THEN "store" ELSE "final")
  /\ UNCHANGED <<free, callerVars, local, timer, late, procVars, events, dict>>

StoreOutput(c) ==
  /\ spc[c] = "store"
  /\ output' = [output EXCEPT ![c] = local[c]]
  /\ GoSuper(c, "status")
  /\ UNCHANGED <<free, callerVars, local, timer, late, procVars, events,
                 process, returncode, error>>

StoreStatus(c) ==
  /\ spc[c] = "status"
  /\ returncode' = [returncode EXCEPT ![c] = Status(c)]
  /\ GoSuper(c, "final")
  /\ UNCHANGED <<free, callerVars, local, timer, late, procVars, events,
                 process, output, error>>

(* The timer thread does not start, or communicate raises. *)
Fault(c) ==
  /\ spc[c] \in {"arm", "feed", "talk", "reap"}
  /\ error' = [error EXCEPT ![c] = "fault"]
  /\ GoSuper(c, "kill")
  /\ UNCHANGED <<free, callerVars, local, timer, late, procVars, events,
                 process, output, returncode>>

FaultSpares(c) ==
  /\ spc[c] = "kill"
  /\ GoSuper(c, "mourn")
  /\ UNCHANGED <<free, callerVars, local, timer, late, procVars, events, dict>>
FaultKill(c) ==
  /\ spc[c] = "kill"
  /\ Kill(c)
  /\ GoSuper(c, "mourn")
  /\ UNCHANGED <<free, callerVars, local, timer, late, written, fed, events, dict>>

Finish(c) ==
  /\ spc[c] = "final"
  /\ timer' = [timer EXCEPT ![c] = IF @ = "armed" THEN "off" ELSE @]
  /\ finished' = [finished EXCEPT ![c] = TRUE]
  /\ GoSuper(c, "release")
  /\ UNCHANGED <<free, callerVars, local, late, procVars, cancelled, dict>>

Release(c) ==
  /\ spc[c] = "release"
  /\ free' = free + 1
  /\ GoSuper(c, "gone")
  /\ UNCHANGED <<callerVars, local, timer, late, procVars, events, dict>>

SupervisorThread(c) ==
  \/ Begin(c) \/ Launch(c) \/ LaunchFails(c) \/ Publish(c) \/ Arm(c) \/ Check(c) \/ Feed(c)
  \/ Drained(c) \/ TalkTimesOut(c) \/ ReapTimesOut(c) \/ StorePartial(c) \/ Reaped(c)
  \/ StoreOutput(c) \/ StoreStatus(c) \/ Fault(c) \/ FaultKill(c) \/ Finish(c) \/ Release(c)

-----------------------------------------------------------------------------
(* The watchdog, the process and the clock. *)

Watchdog(c) ==
  \/ /\ timer[c] = "armed" /\ late[c]
     /\ timer' = [timer EXCEPT ![c] = IF proc[c] \in Alive THEN "cancelling" ELSE "off"]
     /\ UNCHANGED <<free, callerVars, superVars, late, procVars, events, dict>>
  \/ /\ timer[c] = "cancelling"
     /\ cancelled' = [cancelled EXCEPT ![c] = TRUE]
     /\ timer' = [timer EXCEPT ![c] = "killing"]
     /\ UNCHANGED <<free, callerVars, superVars, late, procVars, finished, dict>>
  \/ /\ timer[c] = "killing"
     /\ Kill(c)
     /\ timer' = [timer EXCEPT ![c] = "off"]
     /\ UNCHANGED <<free, callerVars, superVars, late, written, fed, events, dict>>

(* A worker writes only what it was asked for, and fails without a request.  *)
Work(c) ==
  /\ proc[c] = "running"
  /\ \/ fed[c] /\ written[c] < MaxLines
        /\ written' = [written EXCEPT ![c] = @ + 1] /\ UNCHANGED proc
     \/ fed[c] /\ written[c] = MaxLines
        /\ proc' = [proc EXCEPT ![c] = "exited"] /\ UNCHANGED written
     \/ proc' = [proc EXCEPT ![c] = "failed"] /\ UNCHANGED written
  /\ UNCHANGED <<free, callerVars, superVars, timer, late, fed, events, dict>>

Die(c) ==
  /\ proc[c] = "doomed"
  /\ proc' = [proc EXCEPT ![c] = "killed"]
  /\ UNCHANGED <<free, callerVars, superVars, timer, late, written, fed, events, dict>>

DeadlinePasses(c) ==
  /\ ~late[c]
  /\ late' = [late EXCEPT ![c] = TRUE]
  /\ UNCHANGED <<free, callerVars, superVars, timer, procVars, events, dict>>

Settled ==
  /\ \A c \in Calls : /\ pc[c] \in {"returned", "raised"}
                      /\ spc[c] \in {"unborn", "gone"}
  /\ UNCHANGED vars

Next ==
  \/ \E c \in Calls : \/ Caller(c) \/ Interrupt(c) \/ SupervisorThread(c) \/ Watchdog(c)
                      \/ Work(c) \/ Die(c) \/ DeadlinePasses(c)
  \/ Settled

Spec == Init /\ [][Next]_vars

(* What the caller may count on: its own thread runs and time passes.        *)
CallerFairness == \A c \in Calls : WF_vars(Caller(c)) /\ WF_vars(DeadlinePasses(c))
CallerSpec == Spec /\ CallerFairness

(* What the slots need besides: the supervisor's thread runs, Popen returns, *)
(* and the system reaps a process it was told to kill.                       *)
ServiceFairness ==
  \A c \in Calls : WF_vars(SupervisorThread(c)) /\ WF_vars(Watchdog(c)) /\ WF_vars(Die(c))
=============================================================================
