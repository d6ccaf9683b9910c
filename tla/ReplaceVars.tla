----------------------------- MODULE ReplaceVars -----------------------------
(***************************************************************************)
(* replace_vars (src/container_config.rs) expands "@{name}" placeholders  *)
(* in a configuration string, calling a replacer closure for every one.    *)
(* Two callers give the closure: ContainerConfig::instantiate looks the    *)
(* name up in the child's variables and the lithos:* builtins and records  *)
(* "unknown variable" otherwise; lithos_check's validate_substitutions     *)
(* reports "undefined variable" for a name the container does not declare *)
(* and substitutes "".  One iteration of the while loop is one step; the  *)
(* string is a sequence of characters over a small alphabet.               *)
(***************************************************************************)
EXTENDS Naturals, Sequences, SequencesExt

CONSTANTS
  Chars,       \* the alphabet: "@", "{", "}", " " and name characters
  MaxLen,      \* longest template
  Defined,     \* names the replacer knows (user vars, lithos:name, ...)
  Caller,      \* "instantiate" or "check": whose replacer closure
  Value,       \* what instantiate substitutes for a known name
  NoVar        \* the "<<no var ...>>" text instantiate substitutes otherwise

ASSUME {"@", "{", "}", " "} \subseteq Chars /\ MaxLen \in Nat
ASSUME Caller \in {"instantiate", "check"}

VARIABLES
  input,       \* the template replace_vars was called with
  s,           \* the rest of it still to scan
  result,      \* the String built so far
  calls,       \* the names passed to the replacer, in order
  errs,        \* names the replacer reported (errors1 / err!)
  pc           \* "loop" while in the while loop, "done" once returned

vars == <<input, s, result, calls, errs, pc>>

Template == BoundedSeq(Chars, MaxLen)

(* s.find("@{"): index of the first "@" followed by "{", 0 if none.        *)
FindOpen(t) ==
  SelectInSeq([i \in 1..Len(t) |-> i < Len(t) /\ t[i] = "@" /\ t[i + 1] = "{"],
              LAMBDA b : b)

(* s.find('}')                                                             *)
FindClose(t) == SelectInSeq(t, LAMBDA c : c = "}")

(* str::trim: drop leading and trailing whitespace.                        *)
Trim(t) ==
  LET keep == {i \in 1..Len(t) : t[i] # " "}
  IN IF keep = {} THEN <<>> ELSE SubSeq(t, Min(keep), Max(keep))

(* The replacer closure of ContainerConfig::instantiate.                   *)
InstantiateOut(var) == IF var \in Defined THEN <<Value>> ELSE <<NoVar>>

(* The replacer closure of lithos_check's validate_substitutions.          *)
CheckOut(var) == <<>>

Replacer(var) ==
  IF Caller = "instantiate" THEN InstantiateOut(var) ELSE CheckOut(var)

(* Either closure reports a name it does not know.                         *)
Reported(var) == IF var \in Defined THEN {} ELSE {var}

(* Faulty variant (see the mutants in PROJECT.json): the brace is kept.    *)
AfterVarKeepBrace(rest, vend) == SubSeq(rest, vend, Len(rest))

(* vend = s.find('}') after s = &s[vpos..]                                 *)
VarEnd(t, vpos) == FindClose(SubSeq(t, vpos, Len(t)))

(* s = &s[vend+1..]                                                        *)
AfterVar(rest, vend) == SubSeq(rest, vend + 1, Len(rest))

Init ==
  /\ input \in Template
  /\ s = input
  /\ result = <<>>
  /\ calls = <<>>
  /\ errs = {}
  /\ pc = "loop"

(* One iteration with a closed placeholder: push the text before "@{",    *)
(* call the replacer on s[..vend].trim() and push what it returns.        *)
Substitute ==
  /\ pc = "loop"
  /\ FindOpen(s) > 0
  /\ LET vpos == FindOpen(s)
         rest == SubSeq(s, vpos, Len(s))
         vend == VarEnd(s, vpos)
         var  == Trim(SubSeq(rest, 1, vend - 1))
     IN /\ vend > 0
        /\ result' = result \o SubSeq(s, 1, vpos - 1) \o Replacer(var)
        /\ s' = AfterVar(rest, vend)
        /\ calls' = Append(calls, var)
        /\ errs' = errs \cup Reported(var)
  /\ UNCHANGED <<input, pc>>

(* "@{" without a closing brace: break; the rest is raw text.              *)
Unclosed ==
  /\ pc = "loop"
  /\ FindOpen(s) > 0
  /\ VarEnd(s, FindOpen(s)) = 0
  /\ result' = result \o s
  /\ s' = <<>>
  /\ pc' = "done"
  /\ UNCHANGED <<input, calls, errs>>

(* No "@{" left: the loop ends and the rest is pushed.                     *)
NoMoreVars ==
  /\ pc = "loop"
  /\ FindOpen(s) = 0
  /\ result' = result \o s
  /\ s' = <<>>
  /\ pc' = "done"
  /\ UNCHANGED <<input, calls, errs>>

Next == Substitute \/ Unclosed \/ NoMoreVars

Spec == Init /\ [][Next]_vars

(* instantiate returns Err as soon as errors1 is not empty.                *)
Instantiated == IF errs = {} THEN "Ok" ELSE "Err"

-----------------------------------------------------------------------------
(* The reference: a template is literal text, then "@{", the name up to   *)
(* the first "}", "}" and the rest; an "@{" with no "}" after it is text. *)
HasVar(t) == FindOpen(t) > 0 /\ FindClose(SubSeq(t, FindOpen(t) + 2, Len(t))) > 0
VarStart(t) == FindOpen(t)
VarStop(t) == FindOpen(t) + 1 + FindClose(SubSeq(t, FindOpen(t) + 2, Len(t)))

RECURSIVE RefNames(_)
RefNames(t) ==
  IF HasVar(t)
    THEN <<Trim(SubSeq(t, VarStart(t) + 2, VarStop(t) - 1))>>
           \o RefNames(SubSeq(t, VarStop(t) + 1, Len(t)))
    ELSE <<>>

(* t with its k-th placeholder replaced by outs[k].                        *)
RECURSIVE RefExpand(_, _)
RefExpand(t, outs) ==
  IF HasVar(t) /\ outs # <<>>
    THEN SubSeq(t, 1, VarStart(t) - 1) \o Head(outs)
           \o RefExpand(SubSeq(t, VarStop(t) + 1, Len(t)), Tail(outs))
    ELSE t

(* When replace_vars returns, the literal text of the template is kept,   *)
(* every closed placeholder is replaced by what the replacer returned for *)
(* it, in order, and an unclosed "@{" and all after it stay raw text (the *)
(* unit tests of replace_vars, generalised to every short template).      *)
ExpandsLikeTemplate ==
  pc = "done" =>
    /\ Len(calls) = Len(RefNames(input))
    /\ result = RefExpand(input, [k \in 1..Len(calls) |-> Replacer(calls[k])])

(* A template that uses only defined variables is expanded without error: *)
(* instantiate returns Ok and lithos_check reports no undefined variable   *)
(* (the replacer looks its argument up as a variable name).                *)
DefinedVarsResolve ==
  (pc = "done" /\ \A k \in 1..Len(RefNames(input)) : RefNames(input)[k] \in Defined)
    => Instantiated = "Ok"

=============================================================================
