------------------------------- MODULE Identity -------------------------------
(***************************************************************************)
(* The argv contract by which lithos_tree recognises its children after a *)
(* re-exec (src/bin/lithos_tree.rs).  The old image names an instance     *)
(* "<stem>.<i>" after the file stem of its "<stem>.yaml" and spawns       *)
(* lithos_knot with Child::command; the new image reads                    *)
(* /proc/<pid>/cmdline back with _read_args and parses the name with      *)
(* _get_name.  One child is followed from its spawn to its recovery.      *)
(* Names are sequences of characters; an instance index below 10 is one  *)
(* digit character.  Configs are the json::encode texts of child     *)
(* configs (model values that json::from_str parses back to themselves).  *)
(***************************************************************************)
EXTENDS Naturals, Sequences, SequencesExt

CONSTANTS
  StemChars,   \* characters a config file stem may contain
  WordChars,   \* those in the regex class [\w-]
  MaxStem,     \* longest stem
  MaxInst,     \* instances per group
  Configs,     \* serialized child configs
  GlobalFile,  \* the --global-config path this lithos_tree runs with
  BaseName,    \* binary path -> its filename
  KnotBinary,  \* bin.lithos_knot
  ForeignArgvs,\* argvs of children that Child::command did not build
  Rest         \* what splitn leaves in its last piece after 7 splits

ASSUME WordChars \subseteq StemChars /\ "." \in StemChars \ WordChars
ASSUME MaxInst \in 1..10 /\ BaseName[KnotBinary] = "lithos_knot"

VARIABLES
  argv,        \* the argv of the child, <<>> before it is spawned
  spawned,     \* <<name, stem, config>> it was spawned as, or NoIdentity
  recovered,   \* what _get_name returns in the new image, None is NoIdentity
  pc           \* "spawn", "scan" or "done"

vars == <<argv, spawned, recovered, pc>>

NoIdentity == <<>>

(* A file "<stem>.yaml" whose filestem_str is not "" (hidden files are    *)
(* skipped when the children map is read).                                 *)
Stems == BoundedSeq(StemChars, MaxStem) \ {<<>>}

DecimalDigits == <<"0", "1", "2", "3", "4", "5", "6", "7", "8", "9">>

(* format!("{}.{}", stem, i) for i < 10                                    *)
InstName(stem, i) == stem \o <<".", DecimalDigits[i + 1]>>

(* Child::command: the argv lithos_knot is spawned with.                   *)
Command(name, cfg) ==
  <<KnotBinary, "--name", name, "--global-config", GlobalFile, "--config", cfg>>

(* /proc/<pid>/cmdline holds every argument followed by a NUL; no field   *)
(* holds a NUL.  splitn(7, '\0') cuts at the first 7 NULs, so it yields   *)
(* the fields and a last "" when there are at most 7 of them, and the     *)
(* first 7 and the NUL-joined rest otherwise.                              *)
SplitCmdline(a) ==
  IF Len(a) <= 7 THEN a \o <<"">> ELSE SubSeq(a, 1, 7) \o <<Rest>>

(* Faulty variant (see MCIdentity.cfg): --global-config is not compared.   *)
ReadArgsAnyGlobal(args) ==
  IF /\ Len(args) = 8
     /\ BaseName[args[1]] = "lithos_knot"
     /\ args[2] = "--name" /\ args[4] = "--global-config"
     /\ args[6] = "--config" /\ args[8] = ""
     /\ args[7] \in Configs
  THEN <<args[3], args[7]>>
  ELSE NoIdentity

(* _read_args: the contract checks and json::from_str of the config.       *)
ReadArgs(args) ==
  IF /\ Len(args) = 8
     /\ BaseName[args[1]] = "lithos_knot"
     /\ args[2] = "--name" /\ args[4] = "--global-config"
     /\ args[5] = GlobalFile
     /\ args[6] = "--config" /\ args[8] = ""
     /\ args[7] \in Configs
  THEN <<args[3], args[7]>>
  ELSE NoIdentity

(* Position of the "." of a match of ^([\w-]+)\.\d+$, 0 if none.           *)
NameDot(name) ==
  LET ok(k) == /\ name[k] = "."
               /\ \A j \in 1..(k - 1) : name[j] \in WordChars
               /\ \A j \in (k + 1)..Len(name) : name[j] \in Range(DecimalDigits)
      ks == {k \in 2..(Len(name) - 1) : ok(k)}
  IN IF ks = {} THEN 0 ELSE CHOOSE k \in ks : TRUE

(* Faulty variant: captures.at(0) taken as the group.                      *)
GetNameWholeMatch(args) ==
  LET r == ReadArgs(args)
  IN IF r = NoIdentity \/ NameDot(r[1]) = 0 THEN NoIdentity
     ELSE <<r[1], r[1], r[2]>>

(* _get_name: <<full name, captures.at(1), config>>, or None.              *)
GetName(args) ==
  LET r == ReadArgs(args)
  IN IF r = NoIdentity \/ NameDot(r[1]) = 0 THEN NoIdentity
     ELSE <<r[1], SubSeq(r[1], 1, NameDot(r[1]) - 1), r[2]>>

Init ==
  /\ argv = <<>>
  /\ spawned = NoIdentity
  /\ recovered = NoIdentity
  /\ pc = "spawn"

(* The old image starts instance i of group stem (schedule loop, then     *)
(* Child::command).                                                        *)
Spawn(stem, i, cfg) ==
  /\ pc = "spawn"
  /\ argv' = Command(InstName(stem, i), cfg)
  /\ spawned' = <<InstName(stem, i), stem, cfg>>
  /\ pc' = "scan"
  /\ UNCHANGED recovered

(* Any other child: forked but not yet exec'd, a lithos_knot of another   *)
(* lithos_tree, or one with a different argv.                              *)
Foreign(a) ==
  /\ pc = "spawn"
  /\ argv' = a
  /\ spawned' = NoIdentity
  /\ pc' = "scan"
  /\ UNCHANGED recovered

(* The re-executed image scans /proc and recovers the child's identity.   *)
Recover ==
  /\ pc = "scan"
  /\ recovered' = GetName(SplitCmdline(argv))
  /\ pc' = "done"
  /\ UNCHANGED <<argv, spawned>>

Next ==
  \/ \E stem \in Stems, i \in 0..(MaxInst - 1), cfg \in Configs :
       Spawn(stem, i, cfg)
  \/ \E a \in ForeignArgvs : Foreign(a)
  \/ Recover

Spec == Init /\ [][Next]_vars

-----------------------------------------------------------------------------
(* A child lithos_tree spawned for a group whose file stem is a word of   *)
(* [\w-] is recovered with the name, group and config it was spawned      *)
(* with, so the new image adopts it instead of starting it again.         *)
WordNamesRecovered ==
  (pc = "done" /\ spawned # NoIdentity /\ spawned[2] \in Seq(WordChars))
    => recovered = spawned

(* A child whose argv Child::command of this lithos_tree did not build is *)
(* never identified: it gets SIGTERM and is not supervised.               *)
ForeignUnidentified ==
  (pc = "done" /\ spawned = NoIdentity) => recovered = NoIdentity

(* Spec 4.4, scenario 5: after a re-exec every child lithos_tree spawned  *)
(* is recovered with the identity it was spawned with.                    *)
TreeNamesRecovered ==
  (pc = "done" /\ spawned # NoIdentity) => recovered = spawned

=============================================================================
