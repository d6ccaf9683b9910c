------------------------------ MODULE LithosCheck ------------------------------
(***************************************************************************)
(* lithos_check (src/bin/lithos_check.rs): the walk of check() over the   *)
(* master config, every sandbox file, the children file it names (or the  *)
(* --alternate-config for the --sandbox given), every child, and every     *)
(* instance of it, down to the process exit status.  err! stores 1 in     *)
(* EXIT_STATUS and the walk goes on; warn! only logs.  The files on disk  *)
(* are chosen in Init.  What a child's container, ids, variables and      *)
(* ports hold is abstracted to the set of checks of check() it fails      *)
(* ("faults"); the control of check() -- which check ends the child or    *)
(* the instance with continue, which one only applies to a bridged        *)
(* sandbox -- is kept.  A children file holds one child.                  *)
(***************************************************************************)
EXTENDS Naturals, FiniteSets

CONSTANTS
  Sandboxes,   \* the *.yaml files of sandboxes_dir
  MaxInst,     \* largest `instances` of a child
  Faults,      \* the checks a child may fail (a subset of AllFaults)
  NoFile,      \* no --alternate-config given
  NoName,      \* no --sandbox given
  Stranger     \* a --sandbox name that no sandbox file has

(* Checks that end the child with continue (config path not absolute,     *)
(* image outside the sandbox, container config unreadable).               *)
SkipFaults == {"relpath", "image", "container"}
(* Checks of the child that report and go on: uid/gid in mapped and       *)
(* allowed ranges (check_container and check()), check_mapping,           *)
(* validate_variable_types, validate_activation, validate_substitutions.  *)
ChildFaults == {"ids", "mapping", "types", "activation", "subst"}
(* Per-instance checks: child instantiate fails (continue), bad or        *)
(* missing IP in a bridged sandbox, container instantiate fails           *)
(* (continue), an internal or an external port outside allow_tcp_ports.   *)
InstanceFaults == {"instantiate", "ip", "instsubst", "port", "extport"}
AllFaults == SkipFaults \cup ChildFaults \cup InstanceFaults

ASSUME Faults \subseteq AllFaults /\ MaxInst \in Nat

(* A children file: unparseable, or its child with at most one failing    *)
(* check.                                                                  *)
Unparsed == [parsed |-> FALSE, faults |-> {}, instances |-> 0]
Files ==
  {Unparsed} \cup
  [parsed : {TRUE}, faults : {{}} \cup {{f} : f \in Faults},
   instances : 0..MaxInst]

(* A sandbox file: unparseable, or parsed with allow_users/allow_groups   *)
(* present or not, and with or without bridged_network.                   *)
SandboxFiles ==
  {[parsed |-> FALSE, ranges |-> FALSE, bridged |-> FALSE]}
  \cup [parsed : {TRUE}, ranges : BOOLEAN, bridged : BOOLEAN]

VARIABLES
  masterOk,    \* master.yaml parses
  sb,          \* sandbox -> its file
  primary,     \* sandbox -> the children file its config names
  altFile,     \* the --alternate-config file, or NoFile
  altName,     \* the --sandbox name, or NoName
  alter,       \* alter_config: TRUE while it is Some
  todo,        \* sandboxes not visited yet
  cur,         \* the sandbox being checked
  child,       \* the child being checked
  inst,        \* the instance index of the per-instance loop
  status,      \* EXIT_STATUS
  pc

dataVars == <<masterOk, sb, primary, altFile, altName>>
vars == <<dataVars, alter, todo, cur, child, inst, status, pc>>

Err == status' = 1

(* main: --alternate-config without --sandbox is reported, then check()   *)
(* runs.                                                                  *)
Init ==
  /\ masterOk \in BOOLEAN
  /\ sb \in [Sandboxes -> SandboxFiles]
  /\ primary \in [Sandboxes -> Files]
  /\ altFile \in Files \cup {NoFile}
  /\ altName \in Sandboxes \cup {NoName, Stranger}
  /\ alter = (altFile # NoFile)
  /\ todo = Sandboxes
  /\ cur = NoName
  /\ child = Unparsed
  /\ inst = 0
  /\ status = IF altFile # NoFile /\ altName = NoName THEN 1 ELSE 0
  /\ pc = "master"

(* parse_config of the master config; it fails: err and return.           *)
CheckMaster ==
  /\ pc = "master"
  /\ pc' = IF masterOk THEN "scan" ELSE "end"
  /\ IF masterOk THEN UNCHANGED status ELSE Err
  /\ UNCHANGED <<dataVars, alter, todo, cur, child, inst>>

(* A sandbox file that does not parse: err and continue.                  *)
SandboxUnparsed(s) ==
  /\ pc = "scan" /\ s \in todo /\ ~sb[s].parsed
  /\ todo' = todo \ {s}
  /\ Err
  /\ UNCHANGED <<dataVars, alter, cur, child, inst, pc>>

(* check_sandbox_config, then the children file: the alternate one, taken *)
(* out of alter_config, for the sandbox named by --sandbox, else the      *)
(* default one.  A children file that does not parse: warn and continue.  *)
SandboxParsed(s) ==
  /\ pc = "scan" /\ s \in todo /\ sb[s].parsed
  /\ LET takes == s = altName /\ alter
         file  == IF takes THEN altFile ELSE primary[s]
     IN /\ alter' = (alter /\ ~takes)
        /\ child' = file
        /\ pc' = IF ~file.parsed THEN "scan" ELSE "child"
  /\ todo' = todo \ {s}
  /\ cur' = s
  /\ IF sb[s].ranges THEN UNCHANGED status ELSE Err
  /\ UNCHANGED <<dataVars, inst>>

(* Config path not absolute, image invalid, or check_container Err: err   *)
(* and continue with the next child.                                       *)
SkipChild ==
  /\ pc = "child"
  /\ child.faults \cap SkipFaults # {}
  /\ Err
  /\ pc' = "scan"
  /\ UNCHANGED <<dataVars, alter, todo, cur, child, inst>>

(* The checks of the child that go on after reporting, then the start of  *)
(* the per-instance loop.                                                  *)
CheckChild ==
  /\ pc = "child"
  /\ child.faults \cap SkipFaults = {}
  /\ IF child.faults \cap ChildFaults # {} THEN Err ELSE UNCHANGED status
  /\ inst' = 0
  /\ pc' = "instance"
  /\ UNCHANGED <<dataVars, alter, todo, cur, child>>

(* Faulty variant (see the mutants in PROJECT.json): the loop starts at 1. *)
InstancesLeftFromOne(c, i) == i + 1 < c.instances

(* for i in 0..child_cfg.instances                                         *)
InstancesLeft(c, i) == i < c.instances

(* The port check applies when the sandbox has no bridged network or the  *)
(* port is external.                                                       *)
PortErr(c, s) ==
  \/ "port" \in c.faults /\ ~s.bridged
  \/ "extport" \in c.faults

(* ChildConfig::instantiate(i) fails: err and continue.                    *)
InstantiateFail ==
  /\ pc = "instance" /\ InstancesLeft(child, inst)
  /\ "instantiate" \in child.faults
  /\ Err
  /\ inst' = inst + 1
  /\ UNCHANGED <<dataVars, alter, todo, cur, child, pc>>

(* The IP check of a bridged sandbox, then ContainerConfig::instantiate   *)
(* (Err: err and continue), then the port ranges.                          *)
CheckInstance ==
  /\ pc = "instance" /\ InstancesLeft(child, inst)
  /\ "instantiate" \notin child.faults
  /\ IF \/ sb[cur].bridged /\ "ip" \in child.faults
        \/ "instsubst" \in child.faults
        \/ PortErr(child, sb[cur])
     THEN Err ELSE UNCHANGED status
  /\ inst' = inst + 1
  /\ UNCHANGED <<dataVars, alter, todo, cur, child, pc>>

InstancesDone ==
  /\ pc = "instance" /\ ~InstancesLeft(child, inst)
  /\ pc' = "scan"
  /\ UNCHANGED <<dataVars, alter, todo, cur, child, inst, status>>

(* Faulty variant (see the mutants in PROJECT.json): an alter_config that *)
(* was never taken is not reported.                                         *)
FinishNoAlterCheck ==
  /\ pc = "scan" /\ todo = {}
  /\ pc' = "end"
  /\ UNCHANGED <<dataVars, alter, todo, cur, child, inst, status>>

(* After the scan: an alter_config never taken is reported; exit.          *)
Finish ==
  /\ pc = "scan" /\ todo = {}
  /\ IF alter THEN Err ELSE UNCHANGED status
  /\ pc' = "end"
  /\ UNCHANGED <<dataVars, alter, todo, cur, child, inst>>

Next ==
  \/ CheckMaster \/ SkipChild \/ CheckChild
  \/ InstantiateFail \/ CheckInstance \/ InstancesDone \/ Finish
  \/ \E s \in Sandboxes : SandboxUnparsed(s) \/ SandboxParsed(s)

Spec == Init /\ [][Next]_vars

-----------------------------------------------------------------------------
(* The children file check() reads for sandbox s.                          *)
UsedFile(s) ==
  IF s = altName /\ altFile # NoFile THEN altFile ELSE primary[s]

(* The checks a child fails that matter: the per-instance ones only when  *)
(* it has an instance, the IP only in a bridged sandbox, an internal port *)
(* only on the host network.                                               *)
Harmful(c, s) ==
  (c.faults \cap (SkipFaults \cup ChildFaults))
  \cup IF c.instances = 0 THEN {}
       ELSE (c.faults \cap {"instantiate", "instsubst", "extport"})
            \cup (IF s.bridged THEN c.faults \cap {"ip"}
                               ELSE c.faults \cap {"port"})

(* lithos_check exits 0 only if the master config and every sandbox file  *)
(* parse, every sandbox has user and group ranges, --alternate-config     *)
(* came with the name of an existing sandbox (neither without --sandbox   *)
(* nor with a name no sandbox file has, lithos_check.rs:403-405 and       *)
(* 482-484), and no child in a children file that parses fails a check    *)
(* that matters for it.  A children file that does not parse is only     *)
(* warned about (line 259); MCLithosCheckAlt.cfg shows that case.        *)
AcceptedConfigValid ==
  (pc = "end" /\ status = 0) =>
    /\ masterOk
    /\ \A s \in Sandboxes : sb[s].parsed /\ sb[s].ranges
    /\ altFile # NoFile => altName \in Sandboxes
    /\ \A s \in Sandboxes :
         UsedFile(s).parsed => Harmful(UsedFile(s), sb[s]) = {}

(* --alternate-config is "useful to test configuration file before        *)
(* switching it to be primary one" (its help text): an alternate children *)
(* file that does not parse makes lithos_check fail.                       *)
AlternateUnparsedReported ==
  (pc = "end" /\ altFile = Unparsed) => status = 1

=============================================================================
