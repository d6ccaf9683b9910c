------------------------------ MODULE Monitor ------------------------------
(***************************************************************************)
(* The supervisor loop of lithos (src/monitor.rs, struct Monitor) together *)
(* with the part of the operating system it talks to: the child processes *)
(* it spawns, the pids they occupy, and the signals that wake it up.       *)
(*                                                                         *)
(* Time.  The code keeps absolute Timespecs; the start queue holds whole   *)
(* seconds (the .sec of a Timespec) and compares them with the sub-second  *)
(* current time.  The model counts time in ticks, TPS ticks per second,    *)
(* and keeps every time relative to now so that the state space stays     *)
(* finite: tick is now mod TPS, a queue entry holds its deadline minus now *)
(* (any overdue deadline is -1), and a process keeps the age of its        *)
(* start_time (capped where a larger age no longer changes any deadline).  *)
(***************************************************************************)
EXTENDS Integers, FiniteSets, Bags, TLC

CONSTANTS
  Names,       \* instance names a Monitor may supervise
  Pids,        \* the pids the operating system may hand out
  Configs,     \* serialized child configurations (compared for equality)
  TPS,         \* ticks per second of the model clock
  MaxTimeout,  \* largest restart_timeout in seconds
  MaxTerm,     \* bound on terminate signals delivered to the supervisor
  AllowReboot, \* Monitor.allow_reboot
  RestartTimeout, \* the restart_timeout the program passes to add(), seconds
  NoPid, NoName, NoCfg, None

ASSUME TPS \in Nat \ {0} /\ MaxTimeout \in Nat /\ MaxTerm \in Nat \ {0}
ASSUME AllowReboot \in BOOLEAN /\ RestartTimeout \in 0..MaxTimeout

VARIABLES
  procs,   \* Monitor.processes: name -> Process, a partial function
  queue,   \* Monitor.start_queue: a bag of <<deadline - now, name>>
  pids,    \* Monitor.pids: pid -> name, a partial function
  left,    \* pids still awaited by the shut-down loop of Monitor::run
  phase,   \* where Monitor::run is; see Phases
  os,      \* the operating system's view of each pid
  tick,    \* now mod TPS
  nterm    \* number of terminate signals delivered so far

monVars == <<procs, queue, pids, left, phase>>
envVars == <<os, tick, nterm>>
vars == <<monVars, envVars>>

(* "starting" is the body of _start_processes, which runs with signals     *)
(* pending; "reconcile" is lithos_tree before it hands over to Monitor::run. *)
Phases == {"reconcile", "running", "starting", "shutdown", "killed", "reboot"}
Kinds == {"child", "unident"}   \* Executor implementations (lithos_tree.rs)
AgeCap == (MaxTimeout + 1) * TPS
Overdue == -1

Process == [pid: Pids \cup {NoPid}, age: (0..AgeCap) \cup {None},
            timeout: 0..MaxTimeout, kind: Kinds, cfg: Configs \cup {NoCfg}]
OsProc == [st: {"free", "alive", "zombie"}, name: Names \cup {NoName},
           cfg: Configs \cup {NoCfg}, term: BOOLEAN]
FreeSlot == [st |-> "free", name |-> NoName, cfg |-> NoCfg, term |-> FALSE]
Dead == [FreeSlot EXCEPT !.st = "zombie"]

ClampDue(d) == IF d < 0 THEN Overdue ELSE d
MinOf(a, b) == IF a < b THEN a ELSE b

(* Faulty variant (see the mutants in PROJECT.json): the restart timeout  *)
(* is left out of the sum, so the entry is queued at start_time.sec.       *)
DeadlineNoTimeout(age, timeout) ==
  ClampDue(((tick - age) \div TPS) * TPS - tick)

(* Relative position of Timespec::new((start_time + timeout).sec, 0) for a *)
(* start_time that lies age ticks in the past: the sum is truncated to a   *)
(* whole second before it is queued.                                       *)
Deadline(age, timeout) ==
  ClampDue(((tick - age + timeout * TPS) \div TPS) * TPS - tick)

Queued(n) == {e \in BagToSet(queue) : e[2] = n}
Due == {e \in BagToSet(queue) : e[1] < 0}
(* The heap top: no entry has an earlier deadline.                         *)
IsTop(e) == \A f \in BagToSet(queue) : e[1] =< f[1]

Push(q, e) == q (+) SetToBag({e})
Pop(q, e) == q (-) SetToBag({e})

(* send_signal to every pid in S.  A live child records that it has been  *)
(* asked to terminate; a signal to a pid that is no longer our child goes  *)
(* to whoever holds that pid now, outside the model.                       *)
SignalAll(S) ==
  /\ os' = [p \in Pids |-> IF p \in S /\ os[p].st = "alive"
                            THEN [os[p] EXCEPT !.term = TRUE] ELSE os[p]]

RunningPids(ps) == {ps[n].pid : n \in {m \in DOMAIN ps : ps[m].pid # NoPid}}

(* Monitor::add for every name of S: the record is inserted, and a name  *)
(* without a current pid is queued at time 0.                              *)
Added(S, recs) == [n \in S |-> recs[n]]
AddedQueue(S, recs) == SetToBag({<<Overdue, n>> : n \in {m \in S : recs[m].pid = NoPid}})

(* Monitor::has                                                            *)
Has(n) == n \in DOMAIN procs

-----------------------------------------------------------------------------
(* _wait_signal returns Timeout once the top of the queue is due; run()    *)
(* then calls _start_processes with a snapshot of the current time.        *)
Timeout ==
  /\ phase = "running"
  /\ Due # {}
  /\ phase' = "starting"
  /\ UNCHANGED <<procs, queue, pids, left, envVars>>

(* Faulty variants of the actions below, each a plausible slip in the     *)
(* code; the runs in PROJECT.json ("mutants") show that some property of   *)
(* the model catches each of them.                                         *)

(* The entry is not popped before the spawn.                               *)
SpawnOkNoPop(n, p) ==
  /\ phase = "starting"
  /\ \E e \in Due : e[2] = n /\ IsTop(e) /\ queue' = queue
  /\ procs[n].kind # "unident"
  /\ os[p].st = "free"
  /\ os' = [os EXCEPT ![p] = [st |-> "alive", name |-> n,
                              cfg |-> procs[n].cfg, term |-> FALSE]]
  /\ procs' = [procs EXCEPT ![n].pid = p, ![n].age = 0]
  /\ pids' = [x \in DOMAIN pids \cup {p} |-> IF x = p THEN n ELSE pids[x]]
  /\ UNCHANGED <<left, phase, tick, nterm>>

(* start_time is not recorded on a successful spawn.                       *)
SpawnOkNoStartTime(n, p) ==
  /\ phase = "starting"
  /\ \E e \in Due : e[2] = n /\ IsTop(e) /\ queue' = Pop(queue, e)
  /\ procs[n].kind # "unident"
  /\ os[p].st = "free"
  /\ os' = [os EXCEPT ![p] = [st |-> "alive", name |-> n,
                              cfg |-> procs[n].cfg, term |-> FALSE]]
  /\ procs' = [procs EXCEPT ![n].pid = p]
  /\ pids' = [x \in DOMAIN pids \cup {p} |-> IF x = p THEN n ELSE pids[x]]
  /\ UNCHANGED <<left, phase, tick, nterm>>

(* The retry is pushed without popping the failed entry.                   *)
SpawnFailNoPop(n) ==
  /\ phase = "starting"
  /\ \E e \in Due : e[2] = n /\ IsTop(e)
                  /\ queue' = Push(queue, <<Deadline(0, procs[n].timeout), n>>)
  /\ procs[n].kind # "unident"
  /\ UNCHANGED <<procs, pids, left, phase, envVars>>

(* The retry is pushed restart_timeout after the last start   *)
(* instead of after now; with a start far in the past it is due at once.   *)
SpawnFailFromStart(n) ==
  /\ phase = "starting"
  /\ \E e \in Due : e[2] = n /\ IsTop(e)
                  /\ queue' = Push(Pop(queue, e),
                                   <<Deadline(AgeCap, procs[n].timeout), n>>)
  /\ procs[n].kind # "unident"
  /\ UNCHANGED <<procs, pids, left, phase, envVars>>

(* run() returns Killed right after forwarding the signal.                 *)
TerminateNoWait ==
  /\ phase = "running"
  /\ nterm < MaxTerm
  /\ nterm' = nterm + 1
  /\ SignalAll(RunningPids(procs))
  /\ left' = {}
  /\ phase' = "killed"
  /\ queue' = EmptyBag
  /\ procs' = [n \in {} |-> NoPid]
  /\ UNCHANGED <<pids, tick>>

(* The shut-down loop returns Killed on the first child exit.             *)
ShutdownChildNoWait(p) ==
  /\ phase = "shutdown"
  /\ os[p].st = "zombie"
  /\ os' = [os EXCEPT ![p] = FreeSlot]
  /\ left' = {}
  /\ phase' = "killed"
  /\ UNCHANGED <<procs, queue, pids, tick, nterm>>

(* A known child's exit is logged but not queued for restart.              *)
ChildEventNoRequeue(p) ==
  /\ phase = "running"
  /\ os[p].st = "zombie"
  /\ os' = [os EXCEPT ![p] = FreeSlot]
  /\ UNCHANGED <<queue, procs, pids, left, phase, tick, nterm>>

(* One iteration of the loop in _start_processes: pop the due top entry   *)
(* and spawn the executor's command.  The command() of UnidentifiedChild  *)
(* is unreachable!(); UnidentNeverQueued (LithosTree) shows that the guard *)
(* on kind never holds a due entry back.                                   *)
SpawnOk(n, p) ==
  /\ phase = "starting"
  /\ \E e \in Due : e[2] = n /\ IsTop(e) /\ queue' = Pop(queue, e)
  /\ procs[n].kind # "unident"
  /\ os[p].st = "free"
  /\ os' = [os EXCEPT ![p] = [st |-> "alive", name |-> n,
                              cfg |-> procs[n].cfg, term |-> FALSE]]
  /\ procs' = [procs EXCEPT ![n].pid = p, ![n].age = 0]
  /\ pids' = [x \in DOMAIN pids \cup {p} |-> IF x = p THEN n ELSE pids[x]]
  /\ UNCHANGED <<left, phase, tick, nterm>>

(* spawn() failed: log and retry restart_timeout after the snapshot.       *)
SpawnFail(n) ==
  /\ phase = "starting"
  /\ \E e \in Due : e[2] = n /\ IsTop(e)
                  /\ queue' = Push(Pop(queue, e),
                                   <<Deadline(0, procs[n].timeout), n>>)
  /\ procs[n].kind # "unident"
  /\ UNCHANGED <<procs, pids, left, phase, envVars>>

(* The loop breaks when the top entry is not earlier than the snapshot.    *)
StartDone ==
  /\ phase = "starting"
  /\ Due = {}
  /\ phase' = "running"
  /\ UNCHANGED <<procs, queue, pids, left, envVars>>

(* Terminate: forward the signal to every current_pid, leave the main    *)
(* loop, clear the queue and move every process with a pid into left.     *)
Terminate ==
  /\ phase = "running"
  /\ nterm < MaxTerm
  /\ nterm' = nterm + 1
  /\ SignalAll(RunningPids(procs))
  /\ left' = RunningPids(procs)
  /\ phase' = IF left' = {} THEN "killed" ELSE "shutdown"
  /\ queue' = EmptyBag
  /\ procs' = [n \in {} |-> NoPid]
  /\ UNCHANGED <<pids, tick>>

(* Child(pid, status) in the main loop: an unknown pid is ignored; a known *)
(* one is queued at (start_time + restart_timeout).sec.  The child has     *)
(* already been reaped, so its pid is free again.                          *)
ChildEvent(p) ==
  /\ phase = "running"
  /\ os[p].st = "zombie"
  /\ os' = [os EXCEPT ![p] = FreeSlot]
  /\ IF p \in DOMAIN pids
       THEN LET n == pids[p] IN
            queue' = Push(queue, <<Deadline(procs[n].age, procs[n].timeout), n>>)
       ELSE UNCHANGED queue
  /\ UNCHANGED <<procs, pids, left, phase, tick, nterm>>

(* Reboot: run() returns Reboot without touching any child.                *)
RebootReq ==
  /\ AllowReboot
  /\ phase \in {"running", "shutdown"}
  /\ phase' = "reboot"
  /\ UNCHANGED <<procs, queue, pids, left, envVars>>

(* Terminate in the shut-down loop: forward it to everybody in left.       *)
ShutdownTerminate ==
  /\ phase = "shutdown"
  /\ nterm < MaxTerm
  /\ nterm' = nterm + 1
  /\ SignalAll(left)
  /\ UNCHANGED <<monVars, tick>>

(* Child in the shut-down loop: drop the pid from left (unknown pids are   *)
(* only logged); run() returns Killed once left is empty.                  *)
ShutdownChild(p) ==
  /\ phase = "shutdown"
  /\ os[p].st = "zombie"
  /\ os' = [os EXCEPT ![p] = FreeSlot]
  /\ left' = left \ {p}
  /\ phase' = IF left' = {} THEN "killed" ELSE "shutdown"
  /\ UNCHANGED <<procs, queue, pids, tick, nterm>>

-----------------------------------------------------------------------------
(* The environment.                                                        *)

(* A child exits, by itself or because it was signalled.  Its cmdline is  *)
(* empty from now on; it stays a zombie until the supervisor reaps it.     *)
ChildExit(p) ==
  /\ phase # "killed"
  /\ os[p].st = "alive"
  /\ os' = [os EXCEPT ![p] = Dead]
  /\ UNCHANGED <<monVars, tick, nterm>>

(* A child that was sent SIGTERM (lithos_knot forwards it and exits).      *)
TermExit(p) == os[p].term /\ ChildExit(p)

(* Time passes, except inside _start_processes, which compares against a *)
(* snapshot of the time taken on entry.                                    *)
Tick ==
  /\ phase # "starting"
  /\ tick' = (tick + 1) % TPS
  /\ queue' = BagOfAll(LAMBDA e : <<ClampDue(e[1] - 1), e[2]>>, queue)
  /\ procs' = [n \in DOMAIN procs |->
                 [procs[n] EXCEPT !.age = IF @ = None THEN None
                                          ELSE MinOf(@ + 1, AgeCap)]]
  /\ UNCHANGED <<pids, left, phase, os, nterm>>

-----------------------------------------------------------------------------
(* lithos_tree started afresh: every instance added without a pid.         *)
Init ==
  /\ \E cfg \in [Names -> Configs] :
       LET rec(n) == [pid |-> NoPid, age |-> None, timeout |-> RestartTimeout,
                      kind |-> "child", cfg |-> cfg[n]]
       IN  /\ procs = Added(Names, [n \in Names |-> rec(n)])
           /\ queue = AddedQueue(Names, [n \in Names |-> rec(n)])
  /\ pids = [p \in {} |-> NoName]
  /\ left = {}
  /\ phase = "running"
  /\ os = [p \in Pids |-> FreeSlot]
  /\ tick \in 0..(TPS - 1)
  /\ nterm = 0

StartStep ==
  \E n \in Names : SpawnFail(n) \/ \E p \in Pids : SpawnOk(n, p)

MonitorSteps ==
  \/ Timeout \/ StartStep \/ StartDone \/ Terminate \/ ShutdownTerminate
  \/ \E p \in Pids : ChildEvent(p) \/ ShutdownChild(p)

MonitorNext == MonitorSteps \/ RebootReq

EnvNext == Tick \/ \E p \in Pids : ChildExit(p)

Next == MonitorNext \/ EnvNext

(* Time passes, and the single thread of run() keeps taking steps; spawn  *)
(* may fail every time (the executable is missing), so only the failing   *)
(* iteration of _start_processes is assumed to be taken.  A failing        *)
(* iteration that pushes back an entry that is due at once changes no      *)
(* state: the model shows such a spin as stuttering in "starting".          *)
LoopFairness ==
  /\ WF_vars(Tick)
  /\ WF_vars(Timeout) /\ WF_vars(\E n \in Names : SpawnFail(n)) /\ WF_vars(StartDone)

(* Moreover SIGCHLD is delivered at every wait, signalled children exit,   *)
(* and a spawn that keeps failing eventually works (the executable comes   *)
(* back, spec 8 scenario 6).                                               *)
Fairness ==
  /\ LoopFairness /\ WF_vars(StartStep)
  /\ \A p \in Pids : SF_vars(ChildEvent(p)) /\ WF_vars(ShutdownChild(p))
                     /\ WF_vars(TermExit(p))
  /\ \A n \in Names : SF_vars(\E p \in Pids : SpawnOk(n, p))

Spec == Init /\ [][Next]_vars
LoopSpec == Spec /\ LoopFairness
FairSpec == Spec /\ Fairness

-----------------------------------------------------------------------------
TypeOK ==
  /\ DOMAIN procs \subseteq Names /\ \A n \in DOMAIN procs : procs[n] \in Process
  \* a process with a current_pid has a start_time (start_time.unwrap())
  /\ \A n \in DOMAIN procs : procs[n].pid # NoPid => procs[n].age # None
  /\ IsABag(queue) /\ BagToSet(queue) \subseteq (Overdue..AgeCap) \X Names
  /\ DOMAIN pids \subseteq Pids /\ \A p \in DOMAIN pids : pids[p] \in Names
  /\ left \subseteq Pids
  /\ phase \in Phases
  /\ os \in [Pids -> OsProc]
  /\ tick \in 0..(TPS - 1)
  /\ nterm \in 0..MaxTerm

Up(n) == \E p \in Pids : os[p].st = "alive" /\ os[p].name = n
Supervising == phase \in {"running", "starting"}

-----------------------------------------------------------------------------
(* Properties.                                                             *)

(* The start queue holds each name at most once: a Child event is only     *)
(* acted on for a pid spawned by this Monitor, and _start_processes pops  *)
(* an entry before it pushes a retry, so no restart is ever scheduled     *)
(* twice for one instance.                                                 *)
QueueUnique ==
  \A n \in Names : BagCardinality([e \in Queued(n) |-> CopiesIn(e, queue)]) =< 1

(* No two live children carry the same instance name: a name is spawned  *)
(* again only after the Child event of its previous process.              *)
AtMostOneLivePerName ==
  \A p, q \in Pids : (p # q /\ os[p].st = "alive" /\ os[q].st = "alive")
                       => os[p].name # os[q].name

(* run() returns Killed only when every child has exited and been reaped: *)
(* lithos_tree unmounts and removes its directories right after.          *)
KilledMeansNoChildren ==
  phase = "killed" => \A p \in Pids : os[p].st = "free"

(* Every supervised instance that is down is eventually up again, while   *)
(* the Monitor keeps supervising: exit -> Child event -> queue -> spawn.   *)
DownInstanceRestarted ==
  \A n \in Names :
    (Supervising /\ Has(n) /\ procs[n].kind = "child" /\ ~Up(n))
      ~> (Up(n) \/ ~Supervising)

(* _start_processes returns to the wait for signals, even while spawns    *)
(* keep failing: every retry is pushed at a deadline that is not yet due.  *)
StartLoopTerminates == (phase = "starting") ~> (phase = "running")

(* Once shutting down, run() eventually returns (Killed), given that every *)
(* signalled child exits and every exit is reported.                       *)
ShutdownCompletes == (phase = "shutdown") ~> (phase \in {"killed", "reboot"})

(* Spec 4.2/8: a start never comes earlier than restart_timeout after the *)
(* previous start of the same instance.                                   *)
BackoffLowerBound ==
  [][\A n \in Names : (\E p \in Pids : SpawnOk(n, p))
        => (procs[n].age = None \/ procs[n].age >= procs[n].timeout * TPS)]_vars

(* What the code does guarantee: truncating the deadline to a whole      *)
(* second and comparing it strictly with the snapshot of _start_processes  *)
(* can bring a restart forward by less than one second, never by more, so *)
(* a start always comes more than restart_timeout - 1 s after the previous *)
(* start of the same instance.                                             *)
RestartNotBeforeTruncated ==
  [][\A n \in Names : (\E p \in Pids : SpawnOk(n, p))
        => (procs[n].age = None \/ procs[n].age > (procs[n].timeout - 1) * TPS)]_vars

-----------------------------------------------------------------------------
(* Refinement.  The Monitor implements the promise of module Supervision:  *)
(* an instance is up while a live child carries its name, and the point of *)
(* run() gives the supervisor's mode.                                      *)
ModeOf(ph) ==
  CASE ph \in {"running", "starting"} -> "run"
    [] ph = "shutdown" -> "stop"
    [] ph = "killed"   -> "done"
    [] OTHER           -> "reboot"

Abs == INSTANCE Supervision WITH
         inst <- [n \in Names |-> IF Up(n) THEN "up" ELSE "down"],
         mode <- ModeOf(phase)

(* Every behaviour of the Monitor is one of Supervision: it starts only    *)
(* instances that are down and only while running (not during shutdown or *)
(* after Killed), and it returns Killed only once no instance is up.       *)
Refinement == Abs!AbsSpec

=============================================================================
