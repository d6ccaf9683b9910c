---------------------------- MODULE MCReplaceVars ----------------------------
EXTENDS ReplaceVars

(* Placeholder syntax plus one name character; "x" is the only variable    *)
(* the container declares (or the child defines).                         *)
MCChars == {"@", "{", "}", " ", "x"}
MCDefined == {<<"x">>}
=============================================================================
