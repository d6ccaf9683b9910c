----------------------------- MODULE LithosTree -----------------------------
(***************************************************************************)
(* lithos_tree (src/bin/lithos_tree.rs): on every start, and again after   *)
(* every in-place re-exec (reboot), it reads the desired children from the *)
(* config directory, recovers the children it already has from /proc,     *)
(* adopts or kills them, schedules the missing instances and hands over to *)
(* the Monitor loop.  The Monitor and the processes are those of module    *)
(* Monitor; this module adds reconciliation and the re-exec.              *)
(***************************************************************************)
EXTENDS Monitor

CONSTANTS
  Groups,      \* child config files <group>.yaml
  MaxInst,     \* largest `instances` count in a child config
  MaxReboots,  \* bound on in-place re-execs
  Absent       \* no daemon config for a group (missing, unparsable, or not a Daemon)

ASSUME Names = Groups \X (0..(MaxInst - 1))
ASSUME MaxReboots \in Nat /\ RestartTimeout = 1   \* Duration::seconds(1)

VARIABLES
  desired,     \* the children map of run(): group -> config or Absent
  reboots,     \* number of re-execs so far
  dirs         \* names of the per-instance directories under state_dir

treeVars == <<desired, reboots, dirs>>
allVars == <<vars, treeVars>>

(* What run() builds from the config dir: per group the instance count and *)
(* the serialized config, or nothing.                                      *)
ChildCfg == [instances: 0..MaxInst, cfg: Configs]
DesiredStates == [Groups -> ChildCfg \cup {Absent}]

Group(n) == n[1]
Index(n) == n[2]

(* The instances the config dir asks for, named "<stem>.<i>".              *)
Wanted(d) == {n \in Names : d[Group(n)] # Absent /\ Index(n) < d[Group(n)].instances}

(* _is_child and _get_name: every pid in use is a child of ours, and only  *)
(* a live one has a cmdline that satisfies the lithos_knot contract (a     *)
(* zombie's cmdline is empty).  Every child we spawn carries the contract, *)
(* so the name always matches the <word>.<index> pattern.                  *)
Identified == {p \in Pids : os[p].st = "alive"}
Unidentified == {p \in Pids : os[p].st = "zombie"}

(* children.find(<group>.yaml) succeeds.                                   *)
Known(d) == {p \in Identified : d[Group(os[p].name)] # Absent}

(* Faulty variants of the helpers below (see the mutants in PROJECT.json): *)
(* the has() check is dropped; adopted pids are entered into Monitor.pids. *)
FreshNoHasCheck(d) == Wanted(d)
AdoptedIndexed(d) == [p \in Identified |-> os[p].name]

(* *json != current_config: the recovered config differs from the desired *)
Drifted(d) == {p \in Known(d) : os[p].cfg # d[Group(os[p].name)].cfg}

(* Schedule new workers: every wanted instance that mon.has() not.         *)
Fresh(d) == Wanted(d) \ {os[p].name : p \in Identified}

(* Monitor::add registers an adopted pid in processes only; Monitor.pids   *)
(* starts empty and learns a pid only when _start_processes spawns it.     *)
AdoptedIndex(d) == [p \in {} |-> NoName]

(* Remove dangling state dirs: a directory survives iff mon.has() its name *)
(* at that point, i.e. after the /proc scan has added every adopted pid    *)
(* and before the new workers are scheduled.                               *)
KeptDirs(known) == dirs \cap known

(***************************************************************************)
(* One reconciliation pass (run(), from reading the config dir up to       *)
(* allow_reboot()).  It runs before the first wait of the Monitor, so no   *)
(* child is reaped during it; a child that exits during the pass is the    *)
(* same as one that exits just before or just after it.  An identified     *)
(* child of a known group is adopted as Child with the current config and  *)
(* signalled if it drifted; one of an unknown group is adopted as          *)
(* UnidentifiedChild (restart_timeout 0) and signalled; an unidentified    *)
(* pid is signalled and not added; fresh instances are added without pid.  *)
(***************************************************************************)
Reconcile ==
  /\ phase = "reconcile"
  /\ \E d \in DesiredStates :
       LET pidOf(n) == CHOOSE p \in Identified : os[p].name = n
           names    == {os[p].name : p \in Identified} \cup Fresh(d)
           rec(n) ==
             CASE n \in Fresh(d) ->
                    [pid |-> NoPid, age |-> None, timeout |-> RestartTimeout,
                     kind |-> "child", cfg |-> d[Group(n)].cfg]
               [] pidOf(n) \in Known(d) ->
                    [pid |-> pidOf(n), age |-> 0, timeout |-> RestartTimeout,
                     kind |-> "child", cfg |-> d[Group(n)].cfg]
               [] OTHER ->
                    [pid |-> pidOf(n), age |-> 0, timeout |-> 0,
                     kind |-> "unident", cfg |-> NoCfg]
       IN /\ procs' = Added(names, [n \in names |-> rec(n)])
          /\ queue' = AddedQueue(names, [n \in names |-> rec(n)])
          /\ pids' = AdoptedIndex(d)
          /\ SignalAll(Unidentified \cup (Identified \ Known(d)) \cup Drifted(d))
          /\ desired' = d
          /\ dirs' = KeptDirs({os[p].name : p \in Identified})
  /\ left' = {}
  /\ phase' = "running"
  /\ UNCHANGED <<tick, nterm, reboots>>

(* A reboot request makes run() return Reboot (the Monitor's RebootReq,   *)
(* with at most MaxReboots of them); then reexec_myself replaces the image: same pid, same children, a    *)
(* fresh Monitor built by the next reconciliation.                          *)
Reexec ==
  /\ phase = "reboot"
  /\ phase' = "reconcile"
  /\ reboots' = reboots + 1
  /\ UNCHANGED <<procs, queue, pids, left, envVars, desired, dirs>>

(* Child::_prepare: mkdir(state_dir/<name>).  The Monitor of this revision *)
(* never calls prepare(); the directory of a running instance appears at   *)
(* some point while it runs (made by its lithos_knot or a former revision).*)
MakeStateDir(p) ==
  /\ os[p].st = "alive"
  /\ os[p].name \notin dirs
  /\ dirs' = dirs \cup {os[p].name}
  /\ UNCHANGED <<vars, desired, reboots>>

(* global_cleanup after run() returned Killed: unmount and remove the     *)
(* mount dir, and rmdir_recursive the whole state dir.                     *)
GlobalCleanup ==
  /\ phase = "killed"
  /\ dirs # {}
  /\ dirs' = {}
  /\ UNCHANGED <<vars, desired, reboots>>

TreeInit ==
  /\ procs = [n \in {} |-> NoPid]
  /\ queue = EmptyBag
  /\ pids = [p \in {} |-> NoName]
  /\ left = {}
  /\ phase = "reconcile"
  /\ os = [p \in Pids |-> FreeSlot]
  /\ tick \in 0..(TPS - 1)
  /\ nterm = 0
  /\ desired = [g \in Groups |-> Absent]
  /\ reboots = 0
  /\ dirs \in SUBSET Names    \* left over by an earlier lithos_tree

TreeNext ==
  \/ Reconcile \/ Reexec \/ GlobalCleanup
  \/ \E p \in Pids : MakeStateDir(p)
  \/ (RebootReq /\ reboots < MaxReboots /\ UNCHANGED treeVars)
  \/ (MonitorSteps /\ UNCHANGED treeVars)
  \/ (EnvNext /\ UNCHANGED treeVars)

TreeSpec == TreeInit /\ [][TreeNext]_allVars

TreeFairness ==
  /\ Fairness
  /\ WF_allVars(Reconcile) /\ WF_allVars(Reexec)

TreeFairSpec == TreeSpec /\ TreeFairness

-----------------------------------------------------------------------------
(* An UnidentifiedChild is never put on the start queue, so its command(), *)
(* which is unreachable!(), is never called and lithos_tree never panics. *)
(* It holds only because the exit of an adopted pid is never recognised;   *)
(* restart_timeout 0 and finish() would not stop it otherwise.             *)
UnidentNeverQueued ==
  \A e \in BagToSet(queue) : e[2] \in DOMAIN procs => procs[e[2]].kind # "unident"

(* Spec 4.4: an identified child whose index is out of range of its group *)
(* is terminated and not supervised; only wanted instances are Children.  *)
OnlyWantedSupervised ==
  Supervising => \A n \in DOMAIN procs : procs[n].kind = "child" => n \in Wanted(desired)

(* Spec 8: dangling-directory cleanup never removes a directory for a name *)
(* registered during the same reconciliation pass, adopted or scheduled.   *)
RegisteredDirsKept ==
  [][Reconcile => \A n \in DOMAIN procs' : n \in dirs => n \in dirs']_allVars

=============================================================================
