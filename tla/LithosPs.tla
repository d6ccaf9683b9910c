------------------------------- MODULE LithosPs -------------------------------
(***************************************************************************)
(* The text output of lithos_ps (src/bin/lithos_ps/ascii.rs): one call of *)
(* TreeNode::print, which draws the process tree, or of render_table,     *)
(* which prints columns side by side.                                      *)
(*                                                                         *)
(* A tree is given by the depths of its nodes in pre-order (the order in  *)
(* which print visits them); node k's head is k.  A printed line of the   *)
(* tree is its indent, a sequence of the pieces the code concatenates     *)
(* ("  " is "base", "│   " is "bar", four spaces "blank", "├─" "tee" and    *)
(* "└─" "elbow"), and the head.  A table cell is <<column, row>>, row 0    *)
(* being the title; its padding and number format are left out.  A write  *)
(* to the writer may fail (a closed pipe), and try! then returns the error *)
(* from every level of the recursion.                                      *)
(***************************************************************************)
EXTENDS Naturals, Sequences, SequencesExt

CONSTANTS
  MaxNodes,    \* largest tree
  MaxCols,     \* most columns of a table
  MaxRows      \* most items per column

VARIABLES
  tree,        \* depths of the nodes in pre-order, <<>> for a table call
  out,         \* the lines written so far, newline included
  stack,       \* the frames of _print_children: node, next child, indent
  cols,        \* out_cols: the cells still to pop, per column
  ncols,       \* how many columns render_table was given
  nrows,       \* how many items each column holds
  cell,        \* the column the inner for loop of render_table is at
  line,        \* the cells printed on the current, unterminated line
  pc

tableVars == <<cols, ncols, nrows, cell, line>>
vars == <<tree, out, stack, tableVars, pc>>

(* Trees of at most MaxNodes nodes: the root has depth 0 and every next   *)
(* node in pre-order is a child of the previous one or of an ancestor.    *)
Trees ==
  UNION {{d \in [1..n -> 0..(n - 1)] :
            d[1] = 0 /\ \A k \in 2..n : d[k] \in 1..(d[k - 1] + 1)}
         : n \in 1..MaxNodes}

(* The children of node k, in order (self.children).                      *)
Children(d, k) ==
  LET next(j) == \A i \in (k + 1)..(j - 1) : d[i] > d[k]
  IN SetToSortSeq({j \in (k + 1)..Len(d) : d[j] = d[k] + 1 /\ next(j)},
                  LAMBDA a, b : a < b)

Frame(k, ind) == [node |-> k, next |-> 1, indent |-> ind]

(* print: write the root's head, then _print_children(writer, "  ").     *)
PrintHead ==
  /\ pc = "head"
  /\ out' = <<[indent |-> <<>>, head |-> 1]>>
  /\ stack' = <<Frame(1, <<"base">>)>>
  /\ pc' = "children"
  /\ UNCHANGED <<tree, tableVars>>

(* The for loop over children[..len-1], entered only when there are at    *)
(* least two children (len-1 would underflow otherwise): write             *)
(* indent + "├─" + head, then recurse with indent + "│   ".               *)
WriteMiddle ==
  /\ pc = "children" /\ stack # <<>>
  /\ LET top == Last(stack)
         cs  == Children(tree, top.node)
     IN /\ Len(cs) >= 2 /\ top.next < Len(cs)
        /\ out' = Append(out, [indent |-> top.indent \o <<"tee">>,
                               head |-> cs[top.next]])
        /\ stack' = Append([stack EXCEPT ![Len(stack)].next = @ + 1],
                           Frame(cs[top.next], top.indent \o <<"bar">>))
  /\ UNCHANGED <<tree, tableVars, pc>>

(* Faulty variant (see the mutants in PROJECT.json): the last child's    *)
(* subtree is indented with "│   " as the others are.                     *)
WriteLastBar ==
  /\ pc = "children" /\ stack # <<>>
  /\ LET top == Last(stack)
         cs  == Children(tree, top.node)
     IN /\ top.next = Len(cs)
        /\ out' = Append(out, [indent |-> top.indent \o <<"elbow">>,
                               head |-> cs[top.next]])
        /\ stack' = Append([stack EXCEPT ![Len(stack)].next = @ + 1],
                           Frame(cs[top.next], top.indent \o <<"bar">>))
  /\ UNCHANGED <<tree, tableVars, pc>>

(* self.children.last(): write indent + "└─" + head, then recurse with   *)
(* indent and four spaces.                                                 *)
WriteLast ==
  /\ pc = "children" /\ stack # <<>>
  /\ LET top == Last(stack)
         cs  == Children(tree, top.node)
     IN /\ top.next = Len(cs)
        /\ out' = Append(out, [indent |-> top.indent \o <<"elbow">>,
                               head |-> cs[top.next]])
        /\ stack' = Append([stack EXCEPT ![Len(stack)].next = @ + 1],
                           Frame(cs[top.next], top.indent \o <<"blank">>))
  /\ UNCHANGED <<tree, tableVars, pc>>

(* return Ok(()) from a _print_children whose children are all written;  *)
(* the outermost one returns from print.                                   *)
ChildrenDone ==
  /\ pc = "children" /\ stack # <<>>
  /\ Last(stack).next > Len(Children(tree, Last(stack).node))
  /\ stack' = Front(stack)
  /\ pc' = IF Front(stack) = <<>> THEN "ok" ELSE "children"
  /\ UNCHANGED <<tree, out, tableVars>>

(* A write! fails: try! hands the error up through every frame.           *)
WriteFails ==
  /\ \/ pc = "head"
     \/ /\ pc = "children" /\ stack # <<>>
        /\ Last(stack).next <= Len(Children(tree, Last(stack).node))
  /\ pc' = "err"
  /\ UNCHANGED <<tree, out, stack, tableVars>>

-----------------------------------------------------------------------------
(* render_table over n columns of r items each (lithos_ps builds every    *)
(* column from the same list of processes): column c is its title <<c,0>> *)
(* followed by its items.                                                  *)
Columns(n, r) == [c \in 1..n |-> [i \in 1..(r + 1) |-> <<c, i - 1>>]]

(* Faulty variant (see the mutants in PROJECT.json): values.reverse() is   *)
(* left out.                                                               *)
BuildColsNoReverse ==
  /\ pc = "build"
  /\ cell' = 1
  /\ pc' = "rows"
  /\ UNCHANGED <<tree, out, stack, cols, ncols, nrows, line>>

(* The first for loop: each column's values, title first, formatted and    *)
(* then reversed so that pop() yields them in order.                       *)
BuildCols ==
  /\ pc = "build"
  /\ cols' = [c \in DOMAIN cols |-> Reverse(cols[c])]
  /\ cell' = 1
  /\ pc' = "rows"
  /\ UNCHANGED <<tree, out, stack, ncols, nrows, line>>

(* print!("{} ", lst.pop().unwrap()) for the next column.                  *)
PrintCell ==
  /\ pc = "rows" /\ cell <= ncols /\ cols[cell] # <<>>
  /\ line' = Append(line, Last(cols[cell]))
  /\ cols' = [cols EXCEPT ![cell] = Front(@)]
  /\ cell' = cell + 1
  /\ UNCHANGED <<tree, out, stack, ncols, nrows, pc>>

(* A column with nothing left: return, leaving the cells this line has   *)
(* printed, if any, without a newline.                                     *)
TableReturn ==
  /\ pc = "rows" /\ cell <= ncols /\ cols[cell] = <<>>
  /\ pc' = "ok"
  /\ UNCHANGED <<tree, out, stack, tableVars>>

(* Faulty variant (see the mutants in PROJECT.json): the cells of a line  *)
(* are not cleared after the newline.                                      *)
EndLineNoReset ==
  /\ pc = "rows" /\ cell > ncols
  /\ out' = Append(out, line)
  /\ cell' = 1
  /\ UNCHANGED <<tree, stack, cols, ncols, nrows, line, pc>>

(* println!("") after a pass over every column; the loop starts over.     *)
EndLine ==
  /\ pc = "rows" /\ cell > ncols
  /\ out' = Append(out, line)
  /\ line' = <<>>
  /\ cell' = 1
  /\ UNCHANGED <<tree, stack, cols, ncols, nrows, pc>>

-----------------------------------------------------------------------------
(* One call of print on a tree, or of render_table on at least one column *)
(* (with none, its loop would print empty lines forever).                  *)
Init ==
  /\ out = <<>> /\ stack = <<>> /\ cell = 0 /\ line = <<>>
  /\ \/ /\ tree \in Trees /\ pc = "head"
        /\ cols = <<>> /\ ncols = 0 /\ nrows = 0
     \/ /\ tree = <<>> /\ pc = "build"
        /\ ncols \in 1..MaxCols /\ nrows \in 0..MaxRows
        /\ cols = Columns(ncols, nrows)

Next ==
  \/ PrintHead \/ WriteMiddle \/ WriteLast \/ ChildrenDone \/ WriteFails
  \/ BuildCols \/ PrintCell \/ TableReturn \/ EndLine

Spec == Init /\ [][Next]_vars

Pieces == {"base", "bar", "blank", "tee", "elbow"}

TypeOK ==
  /\ pc \in {"head", "children", "build", "rows", "ok", "err"}
  /\ tree # <<>> => out \in Seq([indent : Seq(Pieces), head : 1..MaxNodes])
  /\ tree = <<>> => out \in Seq(Seq((1..MaxCols) \X (0..MaxRows)))
  /\ \A i \in 1..Len(stack) : stack[i].node \in 1..Len(tree)
  /\ cell \in 0..(ncols + 1)
  /\ Len(line) <= ncols

-----------------------------------------------------------------------------
(* The reference drawing, from the shape of the tree rather than from the *)
(* recursion: a node's line has one piece per ancestor below the root, a  *)
(* bar where that ancestor has a later sibling and blanks where it has    *)
(* none, then a tee, or an elbow for a last child.                         *)
IsLastChild(d, k) ==
  ~\E j \in (k + 1)..Len(d) : d[j] = d[k] /\ \A i \in (k + 1)..(j - 1) : d[i] > d[k]

(* The ancestor of node k at depth i < d[k]: the last node before k at    *)
(* that depth.                                                             *)
Ancestor(d, k, i) == SelectLastInSubSeq(d, 1, k - 1, LAMBDA x : x = i)

Drawn(d, k) ==
  IF k = 1 THEN <<>>
  ELSE <<"base">>
       \o [i \in 1..(d[k] - 1) |-> IF IsLastChild(d, Ancestor(d, k, i))
                                   THEN "blank" ELSE "bar"]
       \o <<IF IsLastChild(d, k) THEN "elbow" ELSE "tee">>

Drawing(d) == [k \in 1..Len(d) |-> [indent |-> Drawn(d, k), head |-> k]]

(* print writes every node once, in pre-order, each under the lines of    *)
(* its ancestors with the connectors of the reference drawing; a failed    *)
(* write leaves a proper prefix of that drawing (lithos_ps | head).        *)
TreeDrawn ==
  /\ (pc = "ok" /\ tree # <<>>) => out = Drawing(tree)
  /\ pc = "err" => IsStrictPrefix(out, Drawing(tree))

(* render_table prints the titles on the first line and item i of every   *)
(* column, left to right, on line i + 1, and nothing else.                *)
TableTransposed ==
  (pc = "ok" /\ tree = <<>>)
    => out = [i \in 1..(nrows + 1) |-> [c \in 1..ncols |-> <<c, i - 1>>]]

=============================================================================
