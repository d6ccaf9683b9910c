----------------------------- MODULE MCMonitor -----------------------------
(* Monitor as lithos_tree uses it on a fresh start: two instances with a   *)
(* restart_timeout of one second, three pids so that pids are reused.      *)
EXTENDS Monitor

MCNames == {"web.0", "web.1"}
MCSymmetry == Permutations(Pids)
=============================================================================
