------------------------------ MODULE LithosCmd ------------------------------
(***************************************************************************)
(* lithos_cmd (src/bin/lithos_cmd.rs) runs one command under a Monitor: it *)
(* adds the single instance "<name>.cmd" with a Target executor, a         *)
(* restart_timeout of Duration::milliseconds(0) and no pid, never allows   *)
(* reboot, and returns when run() does.  Monitor's Init is exactly that     *)
(* add() when Names holds the one instance and RestartTimeout is 0.        *)
(***************************************************************************)
EXTENDS Monitor

ASSUME Cardinality(Names) = 1 /\ RestartTimeout = 0 /\ ~AllowReboot

(* Monitor::new, then add(name.cmd, Target, 0 ms, None): one pending       *)
(* Child, queued as due, no pid known; run() starts in its main loop.      *)
CmdInit ==
  /\ \E c \in Configs :
       procs = [n \in Names |-> [pid |-> NoPid, age |-> None, timeout |-> 0,
                                 kind |-> "child", cfg |-> c]]
  /\ queue = SetToBag({<<Overdue, n>> : n \in Names})
  /\ pids = [p \in {} |-> NoName]
  /\ left = {}
  /\ phase = "running"
  /\ os = [p \in Pids |-> FreeSlot]
  /\ tick \in 0..(TPS - 1)
  /\ nterm = 0

CmdSpec == CmdInit /\ [][Next]_vars
CmdLoopSpec == CmdSpec /\ LoopFairness

(* Target::finish says "Do not restart": the command is started once and  *)
(* lithos_cmd ends when it exits.  No spawn follows an earlier start.      *)
CommandRunsOnce ==
  [][\A n \in Names : (\E p \in Pids : SpawnOk(n, p)) => procs[n].age = None]_vars

=============================================================================
