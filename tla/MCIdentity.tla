----------------------------- MODULE MCIdentity -----------------------------
EXTENDS Identity

(* "w" stands for a word character, "-" is allowed by the name regex, "." *)
(* and "+" are not.                                                        *)
MCStemChars == {"w", "-", ".", "+"}
MCWordChars == {"w", "-"}
MCBaseName == [p \in {"/usr/bin/lithos_knot", "/usr/bin/lithos_tree"} |->
                 IF p = "/usr/bin/lithos_knot" THEN "lithos_knot" ELSE "lithos_tree"]
(* Children that lithos_tree did not spawn with Child::command: a child   *)
(* forked but not yet exec'd (lithos_tree's own argv), a lithos_knot of a *)
(* lithos_tree run with another global config, one with an argument too  *)
(* many, and one whose --config is not JSON.                               *)
MCForeignArgvs ==
  { <<"/usr/bin/lithos_tree", "--config", "/etc/lithos.yaml">>,
    <<"/usr/bin/lithos_knot", "--name", <<"w", ".", "0">>, "--global-config",
      "/etc/other.yaml", "--config", "c1">>,
    <<"/usr/bin/lithos_knot", "--name", <<"w", ".", "0">>, "--global-config",
      "/etc/lithos.yaml", "--config", "c1", "--debug">>,
    <<"/usr/bin/lithos_knot", "--name", <<"w", ".", "0">>, "--global-config",
      "/etc/lithos.yaml", "--config", "garbage">> }
=============================================================================
