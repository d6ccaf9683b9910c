---------------------------- MODULE MCLithosTree ----------------------------
(* lithos_tree with one child group of up to two instances, two configs so *)
(* that drift happens, three pids so that pids are reused, two re-execs.   *)
EXTENDS LithosTree

MCNames == {"web"} \X (0..1)
MCSymmetry == Permutations(Pids) \cup Permutations(Configs)
=============================================================================
