--------------------------- MODULE Supervisor_proofs ---------------------------
(***************************************************************************)
(* Why a tuple read without a lock can still be interpreted, and why no     *)
(* slot is lost, for any number of calls and of slots.                      *)
(*                                                                          *)
(* Every step of Supervisor belongs to one call and changes its entries     *)
(* only, so the inductive invariant is stated for one call at a time        *)
(* (CallInv) and a step is checked on the call it belongs to.  What holds   *)
(* the calls together is the count of the slots (SlotsAdded).               *)
(***************************************************************************)
EXTENDS SupervisorProps, FiniteSetTheorems, TLAPS

Reading  == {"read_output", "read_cancelled", "read_returncode", "read_error"}
Ended    == {"final", "release", "gone"}
Early    == {"unborn", "begin", "launch"}
CallerStages == {"call", "start", "wait", "look", "grace", "interrupted", "returned",
                 "raised"} \cup Reading
Stages == {"publish", "arm", "check", "feed", "talk", "reap", "partial", "await", "store",
           "status", "kill", "mourn"} \cup Early \cup Ended
Processes == {"none"} \cup Alive \cup Dead
Fields   == [output : Nat, cancelled : BOOLEAN, returncode : {"none", "zero", "nonzero"},
             error : {"no", "fault", "cleanup"}]

TypeOK ==
  /\ free \in Nat
  /\ pc \in [Calls -> CallerStages] /\ spc \in [Calls -> Stages]
  /\ timer \in [Calls -> {"off", "armed", "cancelling", "killing"}]
  /\ late \in [Calls -> BOOLEAN] /\ fed \in [Calls -> BOOLEAN]
  /\ proc \in [Calls -> Processes]
  /\ written \in [Calls -> Nat] /\ local \in [Calls -> Nat] /\ output \in [Calls -> Nat]
  /\ cancelled \in [Calls -> BOOLEAN] /\ finished \in [Calls -> BOOLEAN]
  /\ process \in [Calls -> BOOLEAN]
  /\ returncode \in [Calls -> {"none", "zero", "nonzero"}]
  /\ error \in [Calls -> {"no", "fault", "cleanup"}]
  /\ reply \in [Calls -> Fields]

(* Nothing of a call exists before its supervisor starts, and a process only *)
(* under a supervisor that has launched it and not yet ended.                *)
Launched(c) ==
  /\ pc[c] \in {"call", "start"} =>
       spc[c] = "unborn" /\ reply[c].output = 0 /\ reply[c].returncode = "none"
  /\ proc[c] = "none" => spc[c] \in Early \cup Ended
  /\ spc[c] \in Early => proc[c] = "none"
  /\ spc[c] \in {"store", "status"} => proc[c] \in Dead
  /\ spc[c] \in Ended => proc[c] \in Dead \cup {"none"}
  /\ finished[c] => spc[c] \in Ended \ {"final"}

(* Only a published process is fed, and only a fed one writes and succeeds.  *)
Fed(c) ==
  /\ process[c] => proc[c] # "none"
  /\ fed[c] \/ spc[c] \in {"arm", "check", "feed"} => process[c]
  /\ ~fed[c] => written[c] = 0 /\ proc[c] # "exited"

(* What the dictionary's output and return code say at each stage.           *)
Stored(c) ==
  /\ output[c] <= written[c] /\ local[c] <= written[c]
  /\ spc[c] \notin {"await", "store", "status"} \cup Ended => output[c] = 0
  /\ spc[c] \in {"await", "status"} => output[c] = local[c]
  /\ spc[c] = "store" => output[c] \in {0, local[c]}
  /\ spc[c] \in {"store", "status"} /\ error[c] = "no" => local[c] = written[c]
  /\ spc[c] \notin Ended => returncode[c] = "none"
  /\ returncode[c] # "none" => proc[c] \in Dead /\ returncode[c] = Status(c)
  /\ spc[c] \in Ended /\ error[c] = "no" =>
       \/ proc[c] = "none" /\ cancelled[c]
       \/ proc[c] \in Dead /\ output[c] = written[c] /\ returncode[c] = Status(c)

(* Who wrote an error, and what it says of the rest.                         *)
Blamed(c) ==
  /\ error[c] = "fault" =>
       spc[c] \in {"kill", "mourn"} \cup Ended /\ output[c] = 0 /\ returncode[c] = "none"
  /\ error[c] = "cleanup" => cancelled[c] /\ proc[c] # "none"
  /\ spc[c] \in {"partial", "await", "kill", "mourn"} => error[c] # "no"

(* Nobody is killed without a word: whoever kills has cancelled first or     *)
(* has left an error.                                                        *)
Excused(c) ==
  /\ pc[c] \in {"look", "grace", "interrupted"} => cancelled[c]
  /\ timer[c] = "killing" \/ spc[c] = "reap" => cancelled[c]
  /\ pc[c] = "grace" => process[c]
  /\ proc[c] \in {"doomed", "killed"} => cancelled[c] \/ error[c] # "no"

(* Why a caller that reads may stop waiting: the supervisor has finished and *)
(* the dictionary is settled, or the grace is over and an error says so, or  *)
(* there was no process to wait for and a later one gets no request.         *)
Settling(c) ==
  /\ finished[c]
  /\ pc[c] # "read_output" => reply[c].output = output[c]
  /\ pc[c] \in {"read_returncode", "read_error"} =>
       \/ reply[c].cancelled
       \/ /\ error[c] # "cleanup"
          /\ error[c] = "no" => proc[c] \notin {"none", "killed"}
  /\ pc[c] \in {"read_returncode", "read_error"} /\ reply[c].cancelled => cancelled[c]
  /\ pc[c] = "read_error" => reply[c].returncode = returncode[c]
Withdrawn(c) ==
  /\ cancelled[c]
  /\ \/ error[c] # "no" /\ proc[c] # "none"
     \/ ~fed[c] /\ spc[c] # "feed"
  /\ pc[c] # "read_output" => reply[c].output \in {0, output[c]}
  /\ pc[c] \in {"read_returncode", "read_error"} => reply[c].cancelled
  /\ pc[c] = "read_error" => reply[c].returncode \in {"none", returncode[c]}
Answered(c) ==
  /\ pc[c] \in Reading => Settling(c) \/ Withdrawn(c)
  /\ pc[c] = "returned" => Finished(c) \/ GaveUp(c) \/ NoProcess(c) \/ Faulted(c)
  /\ pc[c] = "returned" /\ NoProcess(c) => spc[c] # "feed" /\ cancelled[c]

CallInv(c) == /\ Launched(c) /\ Fed(c) /\ Stored(c)
              /\ Blamed(c) /\ Excused(c) /\ Answered(c)

SlotsAdded == free + Cardinality({c \in Calls : Holds(c)}) = Slots

IInv == TypeOK /\ SlotsAdded /\ \A c \in Calls : CallInv(c)

-----------------------------------------------------------------------------
(* A step of one call leaves the entries of the others alone.                *)
Alike(d) ==
  /\ pc'[d] = pc[d] /\ reply'[d] = reply[d] /\ spc'[d] = spc[d] /\ local'[d] = local[d]
  /\ timer'[d] = timer[d] /\ proc'[d] = proc[d]
  /\ written'[d] = written[d] /\ fed'[d] = fed[d]
  /\ cancelled'[d] = cancelled[d] /\ finished'[d] = finished[d]
  /\ process'[d] = process[d] /\ output'[d] = output[d]
  /\ returncode'[d] = returncode[d] /\ error'[d] = error[d]

LEMMA AlikeKeeps ==
  ASSUME NEW d \in Calls, CallInv(d), Alike(d)
  PROVE  CallInv(d)' /\ (Holds(d)' <=> Holds(d))
<1> USE DEF Alike
<1>1. Status(d)' = Status(d)
  BY DEF Status
<1>2. Launched(d)' /\ Fed(d)' /\ Blamed(d)' /\ Excused(d)'
  BY DEF CallInv, Launched, Fed, Blamed, Excused
<1>3. Stored(d)'
  BY <1>1 DEF CallInv, Stored
<1>4. Answered(d)'
  BY <1>1 DEF CallInv, Answered, Settling, Withdrawn, Finished, GaveUp, NoProcess, Faulted
<1> QED
  BY <1>2, <1>3, <1>4 DEF CallInv, Holds

Step(c) == \/ Caller(c) \/ Interrupt(c) \/ SupervisorThread(c) \/ Watchdog(c)
           \/ Work(c) \/ Die(c) \/ DeadlinePasses(c)

(* What the caller may put in its reply.                                     *)
LEMMA ReplyTyped ==
  ASSUME reply \in [Calls -> Fields], NEW c \in Calls,
         \/ reply' = [reply EXCEPT ![c].error = "fault"]
         \/ \E n \in Nat : reply' = [reply EXCEPT ![c].output = n]
         \/ \E b \in BOOLEAN : reply' = [reply EXCEPT ![c].cancelled = b]
         \/ \E k \in {"none", "zero", "nonzero"} : reply' = [reply EXCEPT ![c].returncode = k]
         \/ \E e \in {"no", "fault", "cleanup"} : reply' = [reply EXCEPT ![c].error = e]
  PROVE  reply' \in [Calls -> Fields]
<1>1. CASE reply' = [reply EXCEPT ![c].error = "fault"]
  BY <1>1 DEF Fields
<1>2. CASE \E n \in Nat : reply' = [reply EXCEPT ![c].output = n]
  BY <1>2 DEF Fields
<1>3. CASE \E b \in BOOLEAN : reply' = [reply EXCEPT ![c].cancelled = b]
  BY <1>3 DEF Fields
<1>4. CASE \E k \in {"none", "zero", "nonzero"} : reply' = [reply EXCEPT ![c].returncode = k]
  BY <1>4 DEF Fields
<1>5. CASE \E e \in {"no", "fault", "cleanup"} : reply' = [reply EXCEPT ![c].error = e]
  BY <1>5 DEF Fields
<1> QED
  BY <1>1, <1>2, <1>3, <1>4, <1>5

(* Every step keeps the types and belongs to one call.                       *)
LEMMA StepTypes ==
  ASSUME TypeOK, NEW c \in Calls, Step(c)
  PROVE  TypeOK'
<1> USE DEF TypeOK
<1>0. /\ \A to \in CallerStages : GoCaller(c, to) => pc' \in [Calls -> CallerStages]
      /\ \A to \in Stages : GoSuper(c, to) => spc' \in [Calls -> Stages]
      /\ Kill(c) => proc' \in [Calls -> Processes]
  BY DEF GoCaller, GoSuper, Kill, Processes, Alive
<1> USE DEF CallerStages, Stages, Processes, Reading, Early, Ended, Alive, Dead
<1>1. CASE Acquire(c)
  <2>1. reply' \in [Calls -> Fields] /\ free' \in Nat /\ pc' \in [Calls -> CallerStages]
    BY <1>0, <1>1, ReplyTyped DEF Acquire
  <2> QED
    BY <1>1, <2>1 DEF Acquire, superVars, procVars, events, dict
<1>2. CASE Start(c)
  BY <1>0, <1>2 DEF Start, procVars, events, dict
<1>3. CASE StartFails(c)
  <2>1. free' \in Nat /\ pc' \in [Calls -> CallerStages]
    BY <1>0, <1>3 DEF StartFails
  <2>2. reply' \in [Calls -> Fields]
    BY <1>3, ReplyTyped DEF StartFails
  <2> QED
    BY <1>3, <2>1, <2>2 DEF StartFails, superVars, procVars, events, dict
<1>4. CASE Served(c)
  BY <1>0, <1>4 DEF Served, superVars, procVars, events, dict
<1>5. CASE GiveUp(c)
  BY <1>0, <1>5 DEF GiveUp, superVars, procVars, dict
<1>6. CASE Look(c)
  BY <1>0, <1>6 DEF Look, superVars, procVars, events, dict
<1>7. CASE GraceOver(c)
  BY <1>0, <1>7 DEF GraceOver, superVars, procVars, events
<1>8. CASE Read(c)
  <2>1. reply' \in [Calls -> Fields]
    <3>1. /\ output[c] \in Nat /\ cancelled[c] \in BOOLEAN
          /\ returncode[c] \in {"none", "zero", "nonzero"}
          /\ error[c] \in {"no", "fault", "cleanup"}
      OBVIOUS
    <3> QED
      BY <1>8, <3>1, ReplyTyped DEF Read
  <2>2. UNCHANGED <<free, superVars, timer, late, procVars, events, dict>>
    BY <1>8 DEF Read
  <2>3. pc' \in [Calls -> CallerStages]
    BY <1>0, <1>8 DEF Read
  <2> QED
    BY <2>1, <2>2, <2>3 DEF superVars, procVars, events, dict
<1>9. CASE Interrupt(c)
  BY <1>0, <1>9 DEF Interrupt, superVars, procVars, dict
<1>10. CASE InterruptKill(c)
  BY <1>0, <1>10 DEF InterruptKill, superVars, events, dict
<1>11. CASE Begin(c)
  BY <1>0, <1>11 DEF Begin, callerVars, procVars, events, dict
<1>12. CASE Launch(c)
  BY <1>0, <1>12 DEF Launch, callerVars, events, dict
<1>13. CASE LaunchFails(c)
  BY <1>0, <1>13 DEF LaunchFails, callerVars, procVars, events
<1>14. CASE Publish(c)
  BY <1>0, <1>14 DEF Publish, callerVars, procVars, events
<1>15. CASE Arm(c)
  BY <1>0, <1>15 DEF Arm, callerVars, procVars, events, dict
<1>16. CASE Check(c)
  <2>1. proc' \in [Calls -> Processes]
    BY <1>0, <1>16 DEF Check
  <2>2. spc' \in [Calls -> Stages]
    BY <1>0, <1>16 DEF Check
  <2>3. cancelled' \in [Calls -> BOOLEAN]
    BY <1>16 DEF Check
  <2>4. UNCHANGED <<free, callerVars, local, timer, late, written, fed, finished, dict>>
    BY <1>16 DEF Check
  <2> QED
    BY <2>1, <2>2, <2>3, <2>4 DEF callerVars, dict
<1>17. CASE Feed(c)
  BY <1>0, <1>17 DEF Feed, callerVars, events, dict
<1>18. CASE Drained(c)
  BY <1>0, <1>18 DEF Drained, callerVars, procVars, events, dict
<1>19. CASE TalkTimesOut(c)
  BY <1>0, <1>19 DEF TalkTimesOut, callerVars, dict
<1>20. CASE ReapTimesOut(c)
  BY <1>0, <1>20 DEF ReapTimesOut, callerVars, procVars, events
<1>21. CASE StorePartial(c)
  BY <1>0, <1>21 DEF StorePartial, callerVars, procVars, events
<1>22. CASE Reaped(c)
  BY <1>0, <1>22 DEF Reaped, callerVars, procVars, events, dict
<1>23. CASE StoreOutput(c)
  BY <1>0, <1>23 DEF StoreOutput, callerVars, procVars, events
<1>24. CASE StoreStatus(c)
  BY <1>0, <1>24 DEF StoreStatus, callerVars, procVars, events, Status
<1>25. CASE Fault(c)
  BY <1>0, <1>25 DEF Fault, callerVars, procVars, events
<1>26. CASE FaultKill(c)
  BY <1>0, <1>26 DEF FaultKill, callerVars, events, dict
<1>27. CASE Finish(c)
  BY <1>0, <1>27 DEF Finish, callerVars, procVars, dict
<1>28. CASE Release(c)
  BY <1>0, <1>28 DEF Release, callerVars, procVars, events, dict
<1>29. CASE Watchdog(c)
  <2>1. proc' \in [Calls -> Processes]
    BY <1>0, <1>29 DEF Watchdog, procVars
  <2>2. timer' \in [Calls -> {"off", "armed", "cancelling", "killing"}]
    BY <1>29 DEF Watchdog
  <2>3. cancelled' \in [Calls -> BOOLEAN]
    BY <1>29 DEF Watchdog, events
  <2>4. UNCHANGED <<free, callerVars, superVars, late, written, fed, finished, dict>>
    BY <1>29 DEF Watchdog, procVars, events
  <2> QED
    BY <2>1, <2>2, <2>3, <2>4 DEF callerVars, superVars, dict
<1>30. CASE Work(c)
  BY <1>0, <1>30 DEF Work, callerVars, superVars, events, dict
<1>31. CASE Die(c)
  BY <1>0, <1>31 DEF Die, callerVars, superVars, events, dict
<1>32. CASE DeadlinePasses(c)
  BY <1>0, <1>32 DEF DeadlinePasses, callerVars, superVars, procVars, events, dict
<1> QED
  BY <1>1, <1>2, <1>3, <1>4, <1>5, <1>6, <1>7, <1>8, <1>9, <1>10, <1>11, <1>12, <1>13,
     <1>14, <1>15, <1>16, <1>17, <1>18, <1>19, <1>20, <1>21, <1>22, <1>23, <1>24, <1>25,
     <1>26, <1>27, <1>28, <1>29, <1>30, <1>31, <1>32
  DEF Step, Caller, SupervisorThread

LEMMA StepAlike ==
  ASSUME TypeOK, NEW c \in Calls, Step(c), NEW d \in Calls \ {c}
  PROVE  Alike(d)
<1> USE DEF TypeOK, Alike, GoCaller, GoSuper, Kill
<1>1. CASE Acquire(c)
  BY <1>1 DEF Acquire, superVars, procVars, events, dict
<1>2. CASE Start(c)
  BY <1>2 DEF Start, procVars, events, dict
<1>3. CASE StartFails(c)
  BY <1>3 DEF StartFails, superVars, procVars, events, dict
<1>4. CASE Served(c)
  BY <1>4 DEF Served, superVars, procVars, events, dict
<1>5. CASE GiveUp(c)
  BY <1>5 DEF GiveUp, superVars, procVars, dict
<1>6. CASE Look(c)
  BY <1>6 DEF Look, superVars, procVars, events, dict
<1>7. CASE GraceOver(c)
  BY <1>7 DEF GraceOver, superVars, procVars, events
<1>8. CASE Read(c)
  BY <1>8 DEF Read, superVars, procVars, events, dict
<1>9. CASE Interrupt(c)
  BY <1>9 DEF Interrupt, superVars, procVars, dict
<1>10. CASE InterruptKill(c)
  BY <1>10 DEF InterruptKill, superVars, events, dict
<1>11. CASE Begin(c)
  BY <1>11 DEF Begin, callerVars, procVars, events, dict
<1>12. CASE Launch(c)
  BY <1>12 DEF Launch, callerVars, events, dict
<1>13. CASE LaunchFails(c)
  BY <1>13 DEF LaunchFails, callerVars, procVars, events
<1>14. CASE Publish(c)
  BY <1>14 DEF Publish, callerVars, procVars, events
<1>15. CASE Arm(c)
  BY <1>15 DEF Arm, callerVars, procVars, events, dict
<1>16. CASE Check(c)
  BY <1>16 DEF Check, callerVars, dict
<1>17. CASE Feed(c)
  BY <1>17 DEF Feed, callerVars, events, dict
<1>18. CASE Drained(c)
  BY <1>18 DEF Drained, callerVars, procVars, events, dict
<1>19. CASE TalkTimesOut(c)
  BY <1>19 DEF TalkTimesOut, callerVars, dict
<1>20. CASE ReapTimesOut(c)
  BY <1>20 DEF ReapTimesOut, callerVars, procVars, events
<1>21. CASE StorePartial(c)
  BY <1>21 DEF StorePartial, callerVars, procVars, events
<1>22. CASE Reaped(c)
  BY <1>22 DEF Reaped, callerVars, procVars, events, dict
<1>23. CASE StoreOutput(c)
  BY <1>23 DEF StoreOutput, callerVars, procVars, events
<1>24. CASE StoreStatus(c)
  BY <1>24 DEF StoreStatus, callerVars, procVars, events
<1>25. CASE Fault(c)
  BY <1>25 DEF Fault, callerVars, procVars, events
<1>26. CASE FaultKill(c)
  BY <1>26 DEF FaultKill, callerVars, events, dict
<1>27. CASE Finish(c)
  BY <1>27 DEF Finish, callerVars, procVars, dict
<1>28. CASE Release(c)
  BY <1>28 DEF Release, callerVars, procVars, events, dict
<1>29. CASE Watchdog(c)
  BY <1>29 DEF Watchdog, callerVars, superVars, procVars, events, dict
<1>30. CASE Work(c)
  BY <1>30 DEF Work, callerVars, superVars, events, dict
<1>31. CASE Die(c)
  BY <1>31 DEF Die, callerVars, superVars, events, dict
<1>32. CASE DeadlinePasses(c)
  BY <1>32 DEF DeadlinePasses, callerVars, superVars, procVars, events, dict
<1> QED
  BY <1>1, <1>2, <1>3, <1>4, <1>5, <1>6, <1>7, <1>8, <1>9, <1>10, <1>11, <1>12, <1>13,
     <1>14, <1>15, <1>16, <1>17, <1>18, <1>19, <1>20, <1>21, <1>22, <1>23, <1>24, <1>25,
     <1>26, <1>27, <1>28, <1>29, <1>30, <1>31, <1>32
  DEF Step, Caller, SupervisorThread

(* The caller's steps.                                                       *)
LEMMA CallerKeeps ==
  ASSUME IInv, NEW c \in Calls, TypeOK', Caller(c) \/ Interrupt(c)
  PROVE  CallInv(c)'
<1>0. TypeOK /\ TypeOK' /\ CallInv(c)
  BY DEF IInv
<1> USE DEF CallInv, Launched, Fed, Blamed, Excused, Stored, GoCaller, GoSuper, Kill,
   TypeOK, Fields, CallerStages, Stages, Processes, Reading, Ended, Early, Alive, Dead,
   Status
<1>1. CASE Acquire(c)
  <2>1. Launched(c)' /\ Fed(c)' /\ Stored(c)' /\ Blamed(c)' /\ Excused(c)'
    BY <1>0, <1>1 DEF Acquire, superVars, procVars, events, dict
  <2>2. Answered(c)'
    BY <1>0, <1>1 DEF Acquire, superVars, procVars, events, dict, Answered,
         Settling, Withdrawn, Finished, GaveUp, NoProcess, Faulted
  <2> QED
    BY <2>1, <2>2
<1>2. CASE Start(c)
  <2>1. Launched(c)' /\ Fed(c)' /\ Stored(c)' /\ Blamed(c)' /\ Excused(c)'
    BY <1>0, <1>2 DEF Start, procVars, events, dict
  <2>2. Answered(c)'
    BY <1>0, <1>2 DEF Start, procVars, events, dict, Answered,
         Settling, Withdrawn, Finished, GaveUp, NoProcess, Faulted
  <2> QED
    BY <2>1, <2>2
<1>3. CASE StartFails(c)
  <2>1. Launched(c)' /\ Fed(c)' /\ Stored(c)' /\ Blamed(c)' /\ Excused(c)'
    BY <1>0, <1>3 DEF StartFails, superVars, procVars, events, dict
  <2>2. Answered(c)'
    BY <1>0, <1>3 DEF StartFails, superVars, procVars, events, dict, Answered,
         Settling, Withdrawn, Finished, GaveUp, NoProcess, Faulted
  <2> QED
    BY <2>1, <2>2
<1>4. CASE Served(c)
  <2>1. Launched(c)' /\ Fed(c)' /\ Stored(c)' /\ Blamed(c)' /\ Excused(c)'
    BY <1>0, <1>4 DEF Served, superVars, procVars, events, dict
  <2>2. Answered(c)'
    BY <1>0, <1>4 DEF Served, superVars, procVars, events, dict, Answered,
         Settling, Withdrawn, Finished, GaveUp, NoProcess, Faulted
  <2> QED
    BY <2>1, <2>2
<1>5. CASE GiveUp(c)
  <2>1. Launched(c)' /\ Fed(c)' /\ Stored(c)' /\ Blamed(c)' /\ Excused(c)'
    BY <1>0, <1>5 DEF GiveUp, superVars, procVars, dict
  <2>2. Answered(c)'
    BY <1>0, <1>5 DEF GiveUp, superVars, procVars, dict, Answered,
         Settling, Withdrawn, Finished, GaveUp, NoProcess, Faulted
  <2> QED
    BY <2>1, <2>2
<1>6. CASE Look(c)
  <2>1. Launched(c)' /\ Fed(c)' /\ Stored(c)' /\ Blamed(c)' /\ Excused(c)'
    BY <1>0, <1>6 DEF Look, superVars, procVars, events, dict
  <2>2. Answered(c)'
    BY <1>0, <1>6 DEF Look, superVars, procVars, events, dict, Answered,
         Settling, Withdrawn, Finished, GaveUp, NoProcess, Faulted
  <2> QED
    BY <2>1, <2>2
<1>7. CASE GraceOver(c)
  <2>1. Launched(c)' /\ Fed(c)' /\ Stored(c)' /\ Blamed(c)' /\ Excused(c)'
    BY <1>0, <1>7 DEF GraceOver, superVars, procVars, events
  <2>2. Answered(c)'
    BY <1>0, <1>7 DEF GraceOver, superVars, procVars, events, Answered,
         Settling, Withdrawn, Finished, GaveUp, NoProcess, Faulted
  <2> QED
    BY <2>1, <2>2
<1>8. CASE Read(c)
  <2>0. UNCHANGED <<spc[c], local[c], proc[c], written[c], fed[c], cancelled[c], finished[c],
                    process[c], output[c], returncode[c], error[c]>>
    BY <1>8 DEF Read, superVars, procVars, events, dict
  <2>1. Launched(c)' /\ Fed(c)' /\ Stored(c)' /\ Blamed(c)' /\ Excused(c)'
    BY <1>0, <1>8 DEF Read, superVars, procVars, events, dict
  <2>2. Answered(c)'
    <3>1. CASE pc[c] = "read_output"
      BY <1>0, <1>8, <3>1 DEF Read, superVars, procVars, events, dict, Answered, Settling,
         Withdrawn, Finished, GaveUp, NoProcess, Faulted
    <3>2. CASE pc[c] = "read_cancelled"
      <4>1. /\ pc'[c] = "read_returncode" /\ (reply'[c].cancelled <=> cancelled[c])
          /\ reply'[c].output = reply[c].output
        BY <1>0, <1>8, <3>2 DEF Read
      <4>2. CASE Settling(c)
        <5>1. \/ cancelled[c]
              \/ error[c] # "cleanup" /\ (error[c] = "no" => proc[c] \notin {"none", "killed"})
          BY <1>0, <4>2 DEF Launched, Stored, Blamed, Excused, Settling
        <5>2. Settling(c)'
          BY <2>0, <3>2, <4>1, <4>2, <5>1 DEF Settling
        <5> QED
          BY <4>1, <5>2 DEF Answered
      <4>3. CASE Withdrawn(c)
        BY <1>0, <2>0, <3>2, <4>1, <4>3 DEF Launched, Fed, Blamed, Excused, Stored,
           Answered,
           Settling, Withdrawn, Finished, GaveUp, NoProcess, Faulted
      <4> QED
        BY <1>0, <3>2, <4>2, <4>3 DEF Answered
    <3>3. CASE pc[c] = "read_returncode"
      BY <1>0, <1>8, <3>3 DEF Read, superVars, procVars, events, dict, Answered, Settling,
         Withdrawn, Finished, GaveUp, NoProcess, Faulted
    <3>4. CASE pc[c] = "read_error"
      <4>1. /\ pc'[c] = "returned" /\ reply'[c].error = error[c]
          /\ reply'[c].output = reply[c].output
          /\ reply'[c].cancelled = reply[c].cancelled
          /\ reply'[c].returncode = reply[c].returncode
        BY <1>0, <1>8, <3>4 DEF Read
      <4>2. CASE Settling(c)
        BY <1>0, <2>0, <3>4, <4>1, <4>2 DEF Launched, Fed, Blamed, Excused, Stored,
           Answered,
           Settling, Withdrawn, Finished, GaveUp, NoProcess, Faulted
      <4>3. CASE Withdrawn(c)
        BY <1>0, <2>0, <3>4, <4>1, <4>3 DEF Launched, Fed, Blamed, Excused, Stored,
           Answered,
           Settling, Withdrawn, Finished, GaveUp, NoProcess, Faulted
      <4> QED
        BY <1>0, <3>4, <4>2, <4>3 DEF Answered
    <3> QED
      BY <1>8, <3>1, <3>2, <3>3, <3>4 DEF Read
  <2> QED
    BY <2>1, <2>2
<1>9. CASE Interrupt(c)
  <2>1. Launched(c)' /\ Fed(c)' /\ Stored(c)' /\ Blamed(c)' /\ Excused(c)'
    BY <1>0, <1>9 DEF Interrupt, superVars, procVars, dict
  <2>2. Answered(c)'
    BY <1>0, <1>9 DEF Interrupt, superVars, procVars, dict, Answered,
         Settling, Withdrawn, Finished, GaveUp, NoProcess, Faulted
  <2> QED
    BY <2>1, <2>2
<1>10. CASE InterruptKill(c)
  <2>1. Launched(c)' /\ Fed(c)' /\ Stored(c)' /\ Blamed(c)' /\ Excused(c)'
    BY <1>0, <1>10 DEF InterruptKill, superVars, events, dict
  <2>2. Answered(c)'
    BY <1>0, <1>10 DEF InterruptKill, superVars, events, dict, Answered,
         Settling, Withdrawn, Finished, GaveUp, NoProcess, Faulted
  <2> QED
    BY <2>1, <2>2
<1> QED
  BY <1>1, <1>2, <1>3, <1>4, <1>5, <1>6, <1>7, <1>8, <1>9, <1>10 DEF Caller

(* The supervisor's.                                                         *)
LEMMA SupervisorKeeps ==
  ASSUME IInv, NEW c \in Calls, TypeOK', SupervisorThread(c)
  PROVE  CallInv(c)'
<1>0. TypeOK /\ TypeOK' /\ CallInv(c)
  BY DEF IInv
<1> USE DEF CallInv, Launched, Fed, Blamed, Excused, Stored, GoCaller, GoSuper, Kill,
   TypeOK, Fields, CallerStages, Stages, Processes, Reading, Ended, Early, Alive, Dead,
   Status
<1>1. CASE Begin(c)
  <2>1. Launched(c)' /\ Fed(c)' /\ Stored(c)' /\ Blamed(c)' /\ Excused(c)'
    BY <1>0, <1>1 DEF Begin, callerVars, procVars, events, dict
  <2>2. Answered(c)'
    BY <1>0, <1>1 DEF Begin, callerVars, procVars, events, dict, Answered,
         Settling, Withdrawn, Finished, GaveUp, NoProcess, Faulted
  <2> QED
    BY <2>1, <2>2
<1>2. CASE Launch(c)
  <2>1. Launched(c)' /\ Fed(c)' /\ Stored(c)' /\ Blamed(c)' /\ Excused(c)'
    BY <1>0, <1>2 DEF Launch, callerVars, events, dict
  <2>2. Answered(c)'
    BY <1>0, <1>2 DEF Launch, callerVars, events, dict, Answered,
         Settling, Withdrawn, Finished, GaveUp, NoProcess, Faulted
  <2> QED
    BY <2>1, <2>2
<1>3. CASE LaunchFails(c)
  <2>1. Launched(c)' /\ Fed(c)' /\ Stored(c)' /\ Blamed(c)' /\ Excused(c)'
    BY <1>0, <1>3 DEF LaunchFails, callerVars, procVars, events
  <2>2. Answered(c)'
    BY <1>0, <1>3 DEF LaunchFails, callerVars, procVars, events, Answered,
         Settling, Withdrawn, Finished, GaveUp, NoProcess, Faulted
  <2> QED
    BY <2>1, <2>2
<1>4. CASE Publish(c)
  <2>1. Launched(c)' /\ Fed(c)' /\ Stored(c)' /\ Blamed(c)' /\ Excused(c)'
    BY <1>0, <1>4 DEF Publish, callerVars, procVars, events
  <2>2. Answered(c)'
    BY <1>0, <1>4 DEF Publish, callerVars, procVars, events, Answered,
         Settling, Withdrawn, Finished, GaveUp, NoProcess, Faulted
  <2> QED
    BY <2>1, <2>2
<1>5. CASE Arm(c)
  <2>1. Launched(c)' /\ Fed(c)' /\ Stored(c)' /\ Blamed(c)' /\ Excused(c)'
    BY <1>0, <1>5 DEF Arm, callerVars, procVars, events, dict
  <2>2. Answered(c)'
    BY <1>0, <1>5 DEF Arm, callerVars, procVars, events, dict, Answered,
         Settling, Withdrawn, Finished, GaveUp, NoProcess, Faulted
  <2> QED
    BY <2>1, <2>2
<1>6. CASE Check(c)
  <2>1. Launched(c)' /\ Fed(c)' /\ Stored(c)' /\ Blamed(c)' /\ Excused(c)'
    BY <1>0, <1>6 DEF Check, callerVars, dict
  <2>2. Answered(c)'
    BY <1>0, <1>6 DEF Check, callerVars, dict, Answered,
         Settling, Withdrawn, Finished, GaveUp, NoProcess, Faulted
  <2> QED
    BY <2>1, <2>2
<1>7. CASE Feed(c)
  <2>1. Launched(c)' /\ Fed(c)' /\ Stored(c)' /\ Blamed(c)' /\ Excused(c)'
    BY <1>0, <1>7 DEF Feed, callerVars, events, dict
  <2>2. Answered(c)'
    BY <1>0, <1>7 DEF Feed, callerVars, events, dict, Answered,
         Settling, Withdrawn, Finished, GaveUp, NoProcess, Faulted
  <2> QED
    BY <2>1, <2>2
<1>8. CASE Drained(c)
  <2>1. Launched(c)' /\ Fed(c)' /\ Stored(c)' /\ Blamed(c)' /\ Excused(c)'
    BY <1>0, <1>8 DEF Drained, callerVars, procVars, events, dict
  <2>2. Answered(c)'
    BY <1>0, <1>8 DEF Drained, callerVars, procVars, events, dict, Answered,
         Settling, Withdrawn, Finished, GaveUp, NoProcess, Faulted
  <2> QED
    BY <2>1, <2>2
<1>9. CASE TalkTimesOut(c)
  <2>1. Launched(c)' /\ Fed(c)' /\ Stored(c)' /\ Blamed(c)' /\ Excused(c)'
    BY <1>0, <1>9 DEF TalkTimesOut, callerVars, dict
  <2>2. Answered(c)'
    BY <1>0, <1>9 DEF TalkTimesOut, callerVars, dict, Answered,
         Settling, Withdrawn, Finished, GaveUp, NoProcess, Faulted
  <2> QED
    BY <2>1, <2>2
<1>10. CASE ReapTimesOut(c)
  <2>1. Launched(c)' /\ Fed(c)' /\ Stored(c)' /\ Blamed(c)' /\ Excused(c)'
    BY <1>0, <1>10 DEF ReapTimesOut, callerVars, procVars, events
  <2>2. Answered(c)'
    BY <1>0, <1>10 DEF ReapTimesOut, callerVars, procVars, events, Answered,
         Settling, Withdrawn, Finished, GaveUp, NoProcess, Faulted
  <2> QED
    BY <2>1, <2>2
<1>11. CASE StorePartial(c)
  <2>1. Launched(c)' /\ Fed(c)' /\ Stored(c)' /\ Blamed(c)' /\ Excused(c)'
    BY <1>0, <1>11 DEF StorePartial, callerVars, procVars, events
  <2>2. Answered(c)'
    BY <1>0, <1>11 DEF StorePartial, callerVars, procVars, events, Answered,
         Settling, Withdrawn, Finished, GaveUp, NoProcess, Faulted
  <2> QED
    BY <2>1, <2>2
<1>12. CASE Reaped(c)
  <2>1. Launched(c)' /\ Fed(c)' /\ Stored(c)' /\ Blamed(c)' /\ Excused(c)'
    BY <1>0, <1>12 DEF Reaped, callerVars, procVars, events, dict
  <2>2. Answered(c)'
    BY <1>0, <1>12 DEF Reaped, callerVars, procVars, events, dict, Answered,
         Settling, Withdrawn, Finished, GaveUp, NoProcess, Faulted
  <2> QED
    BY <2>1, <2>2
<1>13. CASE StoreOutput(c)
  <2>1. Launched(c)' /\ Fed(c)' /\ Stored(c)' /\ Blamed(c)' /\ Excused(c)'
    BY <1>0, <1>13 DEF StoreOutput, callerVars, procVars, events
  <2>2. Answered(c)'
    BY <1>0, <1>13 DEF StoreOutput, callerVars, procVars, events, Answered,
         Settling, Withdrawn, Finished, GaveUp, NoProcess, Faulted
  <2> QED
    BY <2>1, <2>2
<1>14. CASE StoreStatus(c)
  <2>1. Launched(c)' /\ Fed(c)' /\ Stored(c)' /\ Blamed(c)' /\ Excused(c)'
    BY <1>0, <1>14 DEF StoreStatus, callerVars, procVars, events
  <2>2. Answered(c)'
    BY <1>0, <1>14 DEF StoreStatus, callerVars, procVars, events, Answered,
         Settling, Withdrawn, Finished, GaveUp, NoProcess, Faulted
  <2> QED
    BY <2>1, <2>2
<1>15. CASE Fault(c)
  <2>1. Launched(c)' /\ Fed(c)' /\ Stored(c)' /\ Blamed(c)' /\ Excused(c)'
    BY <1>0, <1>15 DEF Fault, callerVars, procVars, events
  <2>2. Answered(c)'
    BY <1>0, <1>15 DEF Fault, callerVars, procVars, events, Answered,
         Settling, Withdrawn, Finished, GaveUp, NoProcess, Faulted
  <2> QED
    BY <2>1, <2>2
<1>16. CASE FaultKill(c)
  <2>1. Launched(c)' /\ Fed(c)' /\ Stored(c)' /\ Blamed(c)' /\ Excused(c)'
    BY <1>0, <1>16 DEF FaultKill, callerVars, events, dict
  <2>2. Answered(c)'
    BY <1>0, <1>16 DEF FaultKill, callerVars, events, dict, Answered,
         Settling, Withdrawn, Finished, GaveUp, NoProcess, Faulted
  <2> QED
    BY <2>1, <2>2
<1>17. CASE Finish(c)
  <2>1. Launched(c)' /\ Fed(c)' /\ Stored(c)' /\ Blamed(c)' /\ Excused(c)'
    BY <1>0, <1>17 DEF Finish, callerVars, procVars, dict
  <2>2. Answered(c)'
    BY <1>0, <1>17 DEF Finish, callerVars, procVars, dict, Answered,
         Settling, Withdrawn, Finished, GaveUp, NoProcess, Faulted
  <2> QED
    BY <2>1, <2>2
<1>18. CASE Release(c)
  <2>1. Launched(c)' /\ Fed(c)' /\ Stored(c)' /\ Blamed(c)' /\ Excused(c)'
    BY <1>0, <1>18 DEF Release, callerVars, procVars, events, dict
  <2>2. Answered(c)'
    BY <1>0, <1>18 DEF Release, callerVars, procVars, events, dict, Answered,
         Settling, Withdrawn, Finished, GaveUp, NoProcess, Faulted
  <2> QED
    BY <2>1, <2>2
<1> QED
  BY <1>1, <1>2, <1>3, <1>4, <1>5, <1>6, <1>7, <1>8, <1>9, <1>10, <1>11, <1>12, <1>13,
     <1>14, <1>15, <1>16, <1>17, <1>18 DEF SupervisorThread

(* The watchdog's, the process's and the clock's.                            *)
LEMMA WorldKeeps ==
  ASSUME IInv, NEW c \in Calls, TypeOK',
  Watchdog(c) \/ Work(c) \/ Die(c) \/ DeadlinePasses(c)
  PROVE  CallInv(c)'
<1>0. TypeOK /\ TypeOK' /\ CallInv(c)
  BY DEF IInv
<1> USE DEF CallInv, Launched, Fed, Blamed, Excused, Stored, GoCaller, GoSuper, Kill,
   TypeOK, Fields, CallerStages, Stages, Processes, Reading, Ended, Early, Alive, Dead,
   Status
<1>1. CASE Watchdog(c)
  <2>1. Launched(c)' /\ Fed(c)' /\ Stored(c)' /\ Blamed(c)' /\ Excused(c)'
    BY <1>0, <1>1 DEF Watchdog, callerVars, superVars, procVars, events, dict
  <2>2. Answered(c)'
    BY <1>0, <1>1 DEF Watchdog, callerVars, superVars, procVars, events, dict, Answered,
         Settling, Withdrawn, Finished, GaveUp, NoProcess, Faulted
  <2> QED
    BY <2>1, <2>2
<1>2. CASE Work(c)
  <2>1. Launched(c)' /\ Fed(c)' /\ Stored(c)' /\ Blamed(c)' /\ Excused(c)'
    BY <1>0, <1>2 DEF Work, callerVars, superVars, events, dict
  <2>2. Answered(c)'
    BY <1>0, <1>2 DEF Work, callerVars, superVars, events, dict, Answered,
         Settling, Withdrawn, Finished, GaveUp, NoProcess, Faulted
  <2> QED
    BY <2>1, <2>2
<1>3. CASE Die(c)
  <2>1. Launched(c)' /\ Fed(c)' /\ Stored(c)' /\ Blamed(c)' /\ Excused(c)'
    BY <1>0, <1>3 DEF Die, callerVars, superVars, events, dict
  <2>2. Answered(c)'
    BY <1>0, <1>3 DEF Die, callerVars, superVars, events, dict, Answered,
         Settling, Withdrawn, Finished, GaveUp, NoProcess, Faulted
  <2> QED
    BY <2>1, <2>2
<1>4. CASE DeadlinePasses(c)
  <2>1. Launched(c)' /\ Fed(c)' /\ Stored(c)' /\ Blamed(c)' /\ Excused(c)'
    BY <1>0, <1>4 DEF DeadlinePasses, callerVars, superVars, procVars, events, dict
  <2>2. Answered(c)'
    BY <1>0, <1>4 DEF DeadlinePasses, callerVars, superVars, procVars, events, dict,
       Answered,
         Settling, Withdrawn, Finished, GaveUp, NoProcess, Faulted
  <2> QED
    BY <2>1, <2>2
<1> QED
  BY <1>1, <1>2, <1>3, <1>4

-----------------------------------------------------------------------------
(* The slots: a step of c takes one when c begins to hold it, returns it     *)
(* when c ceases to, and does not touch the semaphore otherwise.             *)
Holders == {c \in Calls : Holds(c)}

LEMMA HoldersFinite == IsFiniteSet(Holders) /\ Cardinality(Holders) \in Nat
  BY CallsAssumption, FS_Subset, FS_CardinalityType DEF Holders, CallsAssumption

LEMMA HolderAdded ==
  ASSUME SlotsAdded, free \in Nat, NEW c \in Calls, ~Holds(c),
         \A d \in Calls \ {c} : Holds(d)' <=> Holds(d),
         Holds(c)', free' = free - 1
  PROVE  SlotsAdded'
<1>1. Holders' = Holders \cup {c} /\ c \notin Holders
  BY DEF Holders
<1>2. Cardinality(Holders') = Cardinality(Holders) + 1
  BY <1>1, HoldersFinite, FS_AddElement
<1> QED
  BY <1>2, HoldersFinite, SlotsAssumption DEF SlotsAdded, Holders, SlotsAssumption

LEMMA HolderRemoved ==
  ASSUME SlotsAdded, free \in Nat, NEW c \in Calls, Holds(c),
         \A d \in Calls \ {c} : Holds(d)' <=> Holds(d),
         ~Holds(c)', free' = free + 1
  PROVE  SlotsAdded'
<1>1. Holders' = Holders \ {c} /\ c \in Holders
  BY DEF Holders
<1>2. Cardinality(Holders') = Cardinality(Holders) - 1
  BY <1>1, HoldersFinite, FS_RemoveElement
<1> QED
  BY <1>2, HoldersFinite, SlotsAssumption DEF SlotsAdded, Holders, SlotsAssumption

LEMMA HoldersKept ==
  ASSUME SlotsAdded, NEW c \in Calls, free' = free, Holds(c)' <=> Holds(c),
         \A d \in Calls \ {c} : Holds(d)' <=> Holds(d)
  PROVE  SlotsAdded'
<1>1. Holders' = Holders
  BY DEF Holders
<1> QED
  BY <1>1 DEF SlotsAdded, Holders

LEMMA StepSlots ==
  ASSUME IInv, NEW c \in Calls, Step(c),
         \A d \in Calls \ {c} : Holds(d)' <=> Holds(d)
  PROVE  SlotsAdded'
<1>0. TypeOK /\ SlotsAdded /\ free \in Nat /\ Launched(c)
  BY DEF IInv, TypeOK, CallInv
<1> USE DEF Holds, Launched, GoCaller, GoSuper
<1>1. CASE Acquire(c)
  <2>1. CASE free = 0
    BY <1>0, <1>1, <2>1, HoldersKept DEF Acquire, superVars, TypeOK
  <2>2. CASE free # 0
    BY <1>0, <1>1, <2>2, HolderAdded DEF Acquire, superVars, TypeOK
  <2> QED
    BY <2>1, <2>2
<1>2. CASE StartFails(c)
  BY <1>0, <1>2, HolderRemoved DEF StartFails, superVars, TypeOK
<1>3. CASE Release(c)
  BY <1>0, <1>3, HolderRemoved DEF Release, callerVars, TypeOK
<1>4. CASE Start(c)
  BY <1>0, <1>4, HoldersKept DEF Start, TypeOK
<1>5. ASSUME Served(c) \/ GiveUp(c) \/ Look(c) \/ GraceOver(c) \/ Read(c)
               \/ InterruptKill(c) \/ Interrupt(c)
      PROVE  SlotsAdded'
  <2>1. spc' = spc /\ free' = free
    BY <1>5 DEF Served, GiveUp, Look, GraceOver, Read, InterruptKill, Interrupt, superVars
  <2>2. pc[c] # "start" /\ pc'[c] # "start"
    BY <1>0, <1>5 DEF Served, GiveUp, Look, GraceOver, Read, InterruptKill, Interrupt,
       TypeOK
  <2> QED
    BY <1>0, <2>1, <2>2, HoldersKept
<1>6. ASSUME SupervisorThread(c), ~Release(c) PROVE SlotsAdded'
  <2>1. pc' = pc /\ free' = free /\ spc[c] \notin {"unborn", "gone"}
    BY <1>6 DEF SupervisorThread, Begin, Launch, LaunchFails, Publish, Arm, Check, Feed,
         Drained, TalkTimesOut, ReapTimesOut, StorePartial, Reaped, StoreOutput,
         StoreStatus,
         Fault, FaultKill, Finish, callerVars
  <2>2. spc'[c] \notin {"unborn", "gone"}
    BY <1>0, <1>6 DEF SupervisorThread, Begin, Launch, LaunchFails, Publish, Arm, Check,
       Feed,
         Drained, TalkTimesOut, ReapTimesOut, StorePartial, Reaped, StoreOutput,
         StoreStatus,
         Fault, FaultKill, Finish, TypeOK
  <2> QED
    BY <1>0, <2>1, <2>2, HoldersKept
<1>7. ASSUME Watchdog(c) \/ Work(c) \/ Die(c) \/ DeadlinePasses(c) PROVE SlotsAdded'
  <2>1. pc' = pc /\ spc' = spc /\ free' = free
    BY <1>7 DEF Watchdog, Work, Die, DeadlinePasses, callerVars, superVars
  <2> QED
    BY <1>0, <2>1, HoldersKept
<1> QED
  BY <1>1, <1>2, <1>3, <1>4, <1>5, <1>6, <1>7 DEF Step, Caller

-----------------------------------------------------------------------------
LEMMA InitIInv == Init => IInv
<1> SUFFICES ASSUME Init PROVE IInv
  OBVIOUS
<1>1. TypeOK
  BY SlotsAssumption DEF Init, TypeOK, Unread, Fields, CallerStages, Stages, Processes,
     Early,
     SlotsAssumption
<1>2. Holders = {}
  BY DEF Init, Holders, Holds
<1>3. SlotsAdded
  BY <1>2, FS_EmptySet, SlotsAssumption DEF Init, SlotsAdded, Holders, SlotsAssumption
<1>4. ASSUME NEW c \in Calls PROVE CallInv(c)
  <2>1. Launched(c) /\ Fed(c) /\ Blamed(c) /\ Excused(c)
    BY DEF Init, Launched, Fed, Blamed, Excused, Unread, Early, Ended
  <2>2. Stored(c) /\ Answered(c)
    BY DEF Init, Stored, Answered, Ended, Reading
  <2> QED
    BY <2>1, <2>2 DEF CallInv
<1> QED
  BY <1>1, <1>3, <1>4 DEF IInv

LEMMA StepIInv == IInv /\ [Next]_vars => IInv'
<1> SUFFICES ASSUME IInv, [Next]_vars PROVE IInv'
  OBVIOUS
<1>1. ASSUME NEW c \in Calls, Step(c) PROVE IInv'
  <2>1. TypeOK /\ TypeOK'
    BY <1>1, StepTypes DEF IInv
  <2>2. CallInv(c)'
    BY <1>1, <2>1, CallerKeeps, SupervisorKeeps, WorldKeeps DEF Step
  <2>3. \A d \in Calls \ {c} : CallInv(d)' /\ (Holds(d)' <=> Holds(d))
    BY <1>1, <2>1, StepAlike, AlikeKeeps DEF IInv
  <2>4. SlotsAdded'
    BY <1>1, <2>3, StepSlots
  <2> QED
    BY <2>1, <2>2, <2>3, <2>4 DEF IInv
<1>2. CASE UNCHANGED vars
  <2>1. \A d \in Calls : Alike(d)
    BY <1>2 DEF vars, callerVars, superVars, procVars, events, dict, Alike
  <2>2. \A d \in Calls : CallInv(d)' /\ (Holds(d)' <=> Holds(d))
    BY <2>1, AlikeKeeps DEF IInv
  <2>3. TypeOK'
    BY <1>2 DEF IInv, TypeOK, vars, callerVars, superVars, procVars, events, dict
  <2>4. SlotsAdded'
    <3>1. Holders' = Holders /\ free' = free
      BY <1>2, <2>2 DEF Holders, vars
    <3> QED
      BY <3>1 DEF IInv, SlotsAdded, Holders
  <2> QED
    BY <2>2, <2>3, <2>4 DEF IInv
<1> QED
  BY <1>1, <1>2 DEF Next, Settled, Step

LEMMA SpecIInv == Spec => []IInv
  BY InitIInv, StepIInv, PTL DEF Spec

(* The variables keep their types: every stage is one of the code's, no      *)
(* count goes below zero and no reply holds a value the code cannot read.    *)
THEOREM SupervisorTypes == Spec => []TypeOK
<1>1. IInv => TypeOK
  BY DEF IInv
<1> QED
  BY <1>1, SpecIInv, PTL

(* _SUPERVISORS: no slot is lost or returned twice on any path, and a        *)
(* process lives only under a held slot, for any number of calls.            *)
THEOREM SlotsAreCovered == Spec => []SlotsCoverProcesses
<1>1. IInv => SlotsCoverProcesses
  <2> SUFFICES ASSUME IInv PROVE SlotsCoverProcesses
    OBVIOUS
  <2>1. ASSUME NEW c \in Calls, proc[c] \in Alive PROVE Holds(c)
    BY <2>1 DEF IInv, CallInv, Launched, Holds, Early, Ended, Alive, Dead
  <2> QED
    BY <2>1 DEF IInv, SlotsAdded, SlotsCoverProcesses
<1> QED
  BY <1>1, SpecIInv, PTL

(* So no more than Slots workers exist at a time, "however many calls time   *)
(* out": the bound on the processes of the whole machine.                    *)
Workers == {c \in Calls : proc[c] \in Alive}
THEOREM WorkersBounded == Spec => [](Cardinality(Workers) <= Slots)
<1>1. IInv => Cardinality(Workers) <= Slots
  <2> SUFFICES ASSUME IInv PROVE Cardinality(Workers) <= Slots
    OBVIOUS
  <2>1. Workers \subseteq Holders
    BY DEF IInv, CallInv, Launched, Workers, Holders, Holds, Early, Ended, Alive, Dead
  <2>2. Cardinality(Workers) <= Cardinality(Holders) /\ Cardinality(Workers) \in Nat
    BY <2>1, HoldersFinite, FS_Subset, FS_CardinalityType
  <2> QED
    BY <2>2, HoldersFinite, SlotsAssumption DEF IInv, TypeOK, SlotsAdded, Holders,
       SlotsAssumption
<1> QED
  BY <1>1, SpecIInv, PTL

(* The tuple _run_worker returns, read field by field while the supervisor   *)
(* may still write, is one that _scan_leaves_impl can interpret.             *)
THEOREM RepliesAreInterpretable == Spec => []RepliesInterpretable
<1>1. IInv => RepliesInterpretable
  BY DEF IInv, CallInv, Answered, RepliesInterpretable
<1> QED
  BY <1>1, SpecIInv, PTL
=============================================================================
