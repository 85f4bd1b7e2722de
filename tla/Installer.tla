------------------------------ MODULE Installer ------------------------------
(***************************************************************************)
(* install and uninstall of the hook (hooks/_claude_code_impl.py, install,  *)
(* settings_lock, owned; hooks/_settings.py, merge): commands that rewrite  *)
(* the harness's settings file under a lock that its person ignores, leave  *)
(* a backup and a receipt, and may be killed between any two steps.         *)
(*                                                                          *)
(* A settings document is what merge tells apart: whether it has "hooks",   *)
(* and for each event it names the groups of handlers.  A group is "star"   *)
(* when it is {"matcher": "*", "hooks": ...}, "extra" when it has a key     *)
(* merge does not know, and "plain" otherwise.                              *)
(***************************************************************************)
EXTENDS Selecting, FiniteSets

CONSTANTS
  Procs,        \* installer processes
  Specs,        \* the handlers hook_spec makes, one per installation of the package
  Foreign,      \* the person's handlers
  PersonDocs,   \* the documents a person writes
  Absent,       \* no settings file
  Invalid,      \* a file validate refuses
  NoReceipt,
  MaxCommands, MaxEdits   \* bounds of the model

Events == {"PreToolUse", "PostToolUse"}
AnyEvent == Events \cup {"Stop"}
Containers == Events \cup {"hooks"}
Handlers == Specs \cup Foreign
Groups == [kind : {"star", "plain", "extra"}, hooks : Seq(Handlers)]

ASSUME ProcsAssumption == "free" \notin Procs /\ "stale" \notin Procs
ASSUME HandlersAssumption == Specs \cap Foreign = {}

(* What validate lets through: events only where there is "hooks".            *)
Naming(E) == [E -> Seq(Groups)] \cup [E \cup {"Stop"} -> Seq(Groups)]
Docs ==
  {d \in [hooks : {"present", "absent"},
          on    : Naming({}) \cup Naming({"PreToolUse"}) \cup Naming({"PostToolUse"})
                    \cup Naming(Events)] :
     d.hooks = "absent" => DOMAIN d.on = {}}
ASSUME DocsAssumption ==
  /\ PersonDocs \subseteq Docs \cup {Absent, Invalid}
  /\ Absent \notin Docs /\ Invalid \notin Docs /\ Absent # Invalid
  /\ \A C \in SUBSET Containers : C # NoReceipt
ASSUME BoundsAssumption == MaxCommands \in Nat /\ MaxEdits \in Nat

VARIABLES
  settings,   \* the file
  receipt,    \* the containers a receipt says were created, or NoReceipt
  backups,    \* the documents backed up so far
  lock,       \* "free", "stale", or the process that holds it
  job,        \* what each process is doing
  written,    \* what the person last wrote
  raced,      \* "yes" once an edit has come after the last look of a replacement
  commands, edits

vars == <<settings, receipt, backups, lock, job, written, raced, commands, edits>>

Doc(hooks, on) == [hooks |-> hooks, on |-> on]
Empty == Doc("absent", <<>>)
Result(d, created) == [doc |-> d, created |-> created]
Job(stage, cmd, confirm, spec, before, result) ==
  [stage |-> stage, cmd |-> cmd, confirm |-> confirm, spec |-> spec,
   before |-> before, result |-> result]
NewJob(stage, cmd, confirm, spec) ==
  Job(stage, cmd, confirm, spec, Absent, Result(Empty, {}))
Idle == NewJob("idle", "none", "no", "none")

-----------------------------------------------------------------------------
(* _settings.merge *)

Dedicated(spec) == [kind |-> "star", hooks |-> <<spec>>]

(* owned: a handler some installation of the package wrote.                   *)
Owned(h) == h \in Specs
OwnedAt(groups) ==
  UNION {{<<i, j>> : j \in {k \in DOMAIN groups[i].hooks : Owned(groups[i].hooks[k])}} :
           i \in DOMAIN groups}

CurrentIfAny(groups, spec) == \E i \in DOMAIN groups : groups[i] = Dedicated(spec)
Current(groups, spec) ==
  /\ Cardinality(OwnedAt(groups)) = 1
  /\ \E i \in DOMAIN groups : groups[i] = Dedicated(spec)

(* "Unknown group metadata belongs to the user, even if emptied."             *)
OursAlone(g) == g.hooks # <<>> /\ \A j \in DOMAIN g.hooks : Owned(g.hooks[j])
DroppedWhenEmptied(g) == OursAlone(g)
Dropped(g) == OursAlone(g) /\ g.kind # "extra"

Theirs == {h \in Handlers : ~Owned(h)}
Cleared(groups) ==
  LET kept == Only(groups, {g \in Groups : ~Dropped(g)})
  IN  [i \in DOMAIN kept |-> [kept[i] EXCEPT !.hooks = Only(@, Theirs)]]

Installed(groups, spec) ==
  IF Current(groups, spec) THEN groups ELSE Append(Cleared(groups), Dedicated(spec))

GroupsOf(d, e) == IF e \in DOMAIN d.on THEN d.on[e] ELSE <<>>

MergeInstall(d, spec, created) ==
  Result(Doc("present", [e \in DOMAIN d.on \cup Events |->
                           IF e \in Events THEN Installed(GroupsOf(d, e), spec) ELSE d.on[e]]),
         created \cup (Events \ DOMAIN d.on)
                 \cup {c \in {"hooks"} : d.hooks = "absent"})

(* An emptied container goes only if the receipt says an install made it.     *)
MergeUninstall(d, created) ==
  LET cleared == [e \in DOMAIN d.on |-> IF e \in Events THEN Cleared(d.on[e]) ELSE d.on[e]]
      left    == {e \in DOMAIN d.on : e \notin Events \cap created \/ cleared[e] # <<>>}
  IN  Result(IF d.hooks = "absent" \/ (left = {} /\ "hooks" \in created)
               THEN Empty ELSE Doc("present", [e \in left |-> cleared[e]]),
             created)

Merge(d, j, created) ==
  IF j.cmd = "install" THEN MergeInstall(d, j.spec, created) ELSE MergeUninstall(d, created)

HasOwned(d) ==
  d \notin {Absent, Invalid} /\
  \E e \in Events \cap DOMAIN d.on : OwnedAt(d.on[e]) # {}

-----------------------------------------------------------------------------
Init ==
  /\ settings \in PersonDocs /\ written = settings
  /\ receipt = NoReceipt /\ backups = {} /\ lock = "free"
  /\ job = [p \in Procs |-> Idle]
  /\ raced = "no" /\ commands = 0 /\ edits = 0

Becomes(p, j) == job' = [job EXCEPT ![p] = j]
GoesWith(p, stage, before, result) ==
  Becomes(p, Job(stage, job[p].cmd, job[p].confirm, job[p].spec, before, result))
Goes(p, stage) == GoesWith(p, stage, job[p].before, job[p].result)
Person == <<written, raced, edits>>

(* A command is given, with --yes or without. *)
Begin(p) ==
  /\ job[p].stage = "idle" /\ commands < MaxCommands
  /\ commands' = commands + 1
  /\ \E cmd \in {"install", "uninstall"}, confirm \in {"yes", "no"}, spec \in Specs :
       Becomes(p, NewJob("begin", cmd, confirm, spec))
  /\ UNCHANGED <<settings, receipt, backups, lock, Person>>

(* O_CREAT | O_EXCL: the lock is taken or the command fails at once.          *)
TryLockWaiting(p) ==
  /\ lock = "free"
  /\ lock' = p /\ Goes(p, "locked")
TryLock(p) ==
  \/ lock = "free" /\ lock' = p /\ Goes(p, "locked")
  \/ lock # "free" /\ Becomes(p, Idle) /\ UNCHANGED lock
Acquire(p) ==
  /\ job[p].stage = "begin"
  /\ TryLock(p)
  /\ UNCHANGED <<settings, receipt, backups, commands, Person>>

Read(p) ==
  /\ job[p].stage = "locked"
  /\ GoesWith(p, IF settings = Invalid THEN "leaving" ELSE "read", settings, job[p].result)
  /\ UNCHANGED <<settings, receipt, backups, lock, commands, Person>>

(* The receipt counts only while a handler of ours is there.                  *)
CreatedTrusting(before) == IF receipt = NoReceipt THEN {} ELSE receipt
Created(before) == IF receipt = NoReceipt \/ ~HasOwned(before) THEN {} ELSE receipt

(* The merged document; a command with nothing to change, or not confirmed,   *)
(* ends here.                                                                 *)
Propose(p) ==
  /\ job[p].stage = "read"
  /\ LET j       == job[p]
         old     == IF j.before = Absent THEN Empty ELSE j.before
         result  == Merge(old, j, Created(j.before))
         changed == result.doc # j.before /\ ~(j.before = Absent /\ j.cmd = "uninstall")
     IN  GoesWith(p, IF changed /\ j.confirm = "yes" THEN "proposed" ELSE "leaving",
                  j.before, result)
  /\ UNCHANGED <<settings, receipt, backups, lock, commands, Person>>

(* "Refuse an observed intervening edit rather than losing other settings."   *)
Check(p) ==
  /\ job[p].stage = "proposed"
  /\ Goes(p, IF settings = job[p].before THEN "checked" ELSE "leaving")
  /\ UNCHANGED <<settings, receipt, backups, lock, commands, Person>>

Backup(p) ==
  /\ job[p].stage = "checked"
  /\ backups' = backups \cup ({job[p].before} \ {Absent})
  /\ Goes(p, "backed_up")
  /\ UNCHANGED <<settings, receipt, lock, commands, Person>>

(* Only an install leaves a receipt.                                          *)
WriteReceipt(p) ==
  /\ job[p].stage = "backed_up"
  /\ receipt' = IF job[p].cmd = "install" THEN job[p].result.created ELSE receipt
  /\ Goes(p, "receipted")
  /\ UNCHANGED <<settings, backups, lock, commands, Person>>

UnchangedUnasked(p) == TRUE
Unchanged(p) == settings = job[p].before
Recheck(p) ==
  /\ job[p].stage = "receipted"
  /\ Goes(p, IF Unchanged(p) THEN "rechecked" ELSE "leaving")
  /\ UNCHANGED <<settings, receipt, backups, lock, commands, Person>>

(* os.replace, whatever the file holds by now.                                *)
Replace(p) ==
  /\ job[p].stage = "rechecked"
  /\ settings' = job[p].result.doc
  /\ Goes(p, "leaving")
  /\ UNCHANGED <<receipt, backups, lock, commands, Person>>

(* The lock goes with the command, however it ends.                           *)
Leave(p) ==
  /\ job[p].stage = "leaving"
  /\ lock' = "free" /\ Becomes(p, Idle)
  /\ UNCHANGED <<settings, receipt, backups, commands, Person>>

(* Any file operation may raise.                                              *)
Working == {"locked", "read", "proposed", "checked", "backed_up", "receipted", "rechecked"}
AfterErrorAtOnce == "idle"
AfterError == "leaving"
Raise(p) ==
  /\ job[p].stage \in Working
  /\ Goes(p, AfterError)
  /\ UNCHANGED <<settings, receipt, backups, lock, commands, Person>>

(* A kill leaves the lock behind.                                             *)
Crash(p) ==
  /\ job[p].stage # "idle"
  /\ lock' = IF lock = p THEN "stale" ELSE lock
  /\ Becomes(p, Idle)
  /\ UNCHANGED <<settings, receipt, backups, commands, Person>>

-----------------------------------------------------------------------------
(* The person, who removes a stale lock and edits the file at any time.       *)

RemoveLock ==
  /\ lock = "stale" /\ lock' = "free"
  /\ UNCHANGED <<settings, receipt, backups, job, commands, Person>>

Edit ==
  /\ edits < MaxEdits /\ edits' = edits + 1
  /\ \E d \in PersonDocs \ {Absent} : settings' = d /\ written' = d
  /\ raced' = IF \E p \in Procs : job[p].stage = "rechecked" THEN "yes" ELSE raced
  /\ UNCHANGED <<receipt, backups, lock, job, commands>>

Advance(p) == \/ Acquire(p) \/ Read(p) \/ Propose(p) \/ Check(p) \/ Backup(p)
              \/ WriteReceipt(p) \/ Recheck(p) \/ Replace(p) \/ Leave(p)

Next == \/ \E p \in Procs : Begin(p) \/ Advance(p) \/ Raise(p) \/ Crash(p)
        \/ RemoveLock \/ Edit

Spec == Init /\ [][Next]_vars

(* A process that is not killed keeps running.                                *)
FairSpec == Spec /\ \A p \in Procs : WF_vars(Advance(p))
=============================================================================
