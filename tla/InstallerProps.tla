---------------------------- MODULE InstallerProps ----------------------------
(***************************************************************************)
(* What the person who owns the settings file can count on.                 *)
(***************************************************************************)
EXTENDS Installer

(* What of an event is the person's: every group that is not ours alone, with *)
(* its handlers of theirs, in their order.                                    *)
HasTheirs(g) ==
  g.kind = "extra" \/ g.hooks = <<>> \/ \E j \in DOMAIN g.hooks : g.hooks[j] \in Foreign
TheirView(g) == [kind |-> g.kind, hooks |-> Only(g.hooks, Foreign)]
TheirPart(d, e) ==
  LET kept == Only(GroupsOf(d, e), {g \in Groups : HasTheirs(g)})
  IN  [i \in DOMAIN kept |-> TheirView(kept[i])]

(* "Remove only agent-defs hook handlers" (docs/claude-code.md:161): a        *)
(* command that replaces the file changes nothing of the person's, except in  *)
(* the race with the final replacement that the docs own up to.               *)
OnlyOursChanges ==
  [][\A p \in Procs : Replace(p) /\ raced' = "no" =>
       LET old == IF settings = Absent THEN Empty ELSE settings
       IN  \A e \in AnyEvent : TheirPart(settings', e) = TheirPart(old, e)]_vars

(* test_install_idempotent: once an install has replaced the file, whatever   *)
(* handlers of other versions it held, each event runs the hook exactly once. *)
RunsOnce ==
  [][\A p \in Procs : Replace(p) /\ job[p].cmd = "install" =>
       \A e \in Events :
         /\ Cardinality(OwnedAt(settings'.on[e])) = 1
         /\ \E i \in DOMAIN settings'.on[e] : settings'.on[e][i] = Dedicated(job[p].spec)]_vars

(* test_install_idempotent_and_uninstall_preserves_guard: whatever installs,  *)
(* upgrades, kills and refused edits came between, a file without our         *)
(* handlers is the one the person last wrote, if they wrote it without them.  *)
UninstallRestores ==
  raced = "no" /\ settings # Absent /\ ~HasOwned(settings) /\ ~HasOwned(written) =>
    settings = IF written = Absent THEN Empty ELSE written

(* "After backup": what the person last wrote is the file or in a backup.     *)
Recoverable ==
  raced = "no" => settings = written \/ written \in backups \cup {Absent}

(* A command ends, even one that finds a stale lock.                          *)
CommandEnds == \A p \in Procs : job[p].stage # "idle" ~> job[p].stage = "idle"

(* A process never keeps the lock: it is given back or, if killed, stale.     *)
LockGivenBack == \A p \in Procs : lock = p ~> lock # p
=============================================================================
