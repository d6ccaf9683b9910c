----------------------------- MODULE Supervision -----------------------------
(***************************************************************************)
(* What a supervisor promises, without queues, pids or time (spec 4.3):   *)
(* every instance is down or up; while the supervisor runs it may start a *)
(* down instance; an up instance may exit at any time; a terminate signal *)
(* stops all starting, and the supervisor ends Killed only once every     *)
(* instance is down; a permitted reboot ends it at once, children intact. *)
(***************************************************************************)
CONSTANT Names

VARIABLES
  inst,   \* instance -> "down" or "up"
  mode    \* "run", "stop" (shutting down), "done" (Killed) or "reboot"

absVars == <<inst, mode>>

AllDown == \A n \in Names : inst[n] = "down"

AbsInit ==
  /\ inst = [n \in Names |-> "down"]
  /\ mode = "run"

Start(n) ==
  /\ mode = "run"
  /\ inst[n] = "down"
  /\ inst' = [inst EXCEPT ![n] = "up"]
  /\ UNCHANGED mode

Exit(n) ==
  /\ mode # "done"
  /\ inst[n] = "up"
  /\ inst' = [inst EXCEPT ![n] = "down"]
  /\ UNCHANGED mode

Stop ==
  /\ mode = "run"
  /\ mode' \in IF AllDown THEN {"stop", "done"} ELSE {"stop"}
  /\ UNCHANGED inst

Finish ==
  /\ mode = "stop"
  /\ AllDown
  /\ mode' = "done"
  /\ UNCHANGED inst

Reboot ==
  /\ mode \in {"run", "stop"}
  /\ mode' = "reboot"
  /\ UNCHANGED inst

AbsNext ==
  \/ \E n \in Names : Start(n) \/ Exit(n)
  \/ Stop \/ Finish \/ Reboot

AbsSpec == AbsInit /\ [][AbsNext]_absVars

=============================================================================
