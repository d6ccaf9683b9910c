----------------------------- MODULE SandboxConfig -----------------------------
(***************************************************************************)
(* The values of a sandbox config (src/sandbox_config.rs) that lithos_check *)
(* relies on: the Range of an id or port list, read from "n" or "a-b", and *)
(* check_path, which lithos_check applies to a child's image before it     *)
(* opens image_dir.join(image).                                            *)
(*                                                                         *)
(* A string is a sequence of one-character strings.  The library           *)
(* conversions the code calls are modelled by what they do on Unix:        *)
(* <u32 as FromStr>::from_str, and Path::components and Path::join.       *)
(***************************************************************************)
EXTENDS Naturals, Sequences, SequencesExt

CONSTANTS
  PathChars,   \* the characters of the image paths checked
  MaxPath,     \* longest image path checked
  Levels       \* the image_dir_levels checked (the validator allows 1..16)

DigitSeq == <<"0", "1", "2", "3", "4", "5", "6", "7", "8", "9">>
Digits == ToSet(DigitSeq)
DigitVal(c) == CHOOSE d \in 0..9 : DigitSeq[d + 1] = c

(* The error of a parse. *)
NoNum == -1

(* from_str for an unsigned integer type whose largest value is max: an   *)
(* optional '+' and at least one decimal digit; a value past max is an    *)
(* overflow error.                                                         *)
ParseUnsigned(s, max) ==
  LET ds == IF s # <<>> /\ Head(s) = "+" THEN Tail(s) ELSE s
      v  == FoldLeft(LAMBDA acc, c : 10 * acc + DigitVal(c), 0, ds)
  IN IF ds = <<>> \/ \E i \in DOMAIN ds : ds[i] \notin Digits THEN NoNum
     ELSE IF v > max THEN NoNum ELSE v

(* u32::MAX (2^32 - 1) is past TLC's integers, which end at 2^31 - 1;   *)
(* the range strings checked have at most 5 digits, so no parse reaches   *)
(* either bound.                                                          *)
U32Max == 2147483647

-----------------------------------------------------------------------------
(* Range::new *)
RangeNew(start, end) == [start |-> start, end |-> end]

NoRange == [start |-> NoNum, end |-> NoNum]

(* Range::deserialize: the whole string as one number, or else            *)
(* splitn(2, '-'): the text before the first '-' and the text after it    *)
(* must both parse.                                                        *)
RangeDeserialize(s) ==
  LET whole == ParseUnsigned(s, U32Max)
      dash  == SelectInSeq(s, LAMBDA c : c = "-")
      lo    == ParseUnsigned(SubSeq(s, 1, dash - 1), U32Max)
      hi    == ParseUnsigned(SubSeq(s, dash + 1, Len(s)), U32Max)
  IN IF whole # NoNum THEN RangeNew(whole, whole)
     ELSE IF dash = 0 \/ lo = NoNum \/ hi = NoNum THEN NoRange
     ELSE RangeNew(lo, hi)

-----------------------------------------------------------------------------
(* The '/'-separated pieces of a path.                                     *)
RECURSIVE SplitSlash(_)
SplitSlash(s) ==
  LET i == SelectInSeq(s, LAMBDA c : c = "/")
  IN IF i = 0 THEN <<s>>
     ELSE <<SubSeq(s, 1, i - 1)>> \o SplitSlash(SubSeq(s, i + 1, Len(s)))

Rooted(p) == p # <<>> /\ Head(p) = "/"

Comp(k, name) == [kind |-> k, name |-> name]

(* Path::components: RootDir for a leading '/', CurDir for a leading "."  *)
(* piece of a relative path; empty pieces (repeated or trailing '/') and   *)
(* every other "." are skipped; ".." is ParentDir, the rest Normal.        *)
Components(p) ==
  LET segs == SplitSlash(p)
      rest == SelectSeq(segs, LAMBDA g : g # <<>> /\ g # <<".">>)
  IN (IF Rooted(p) THEN <<Comp("RootDir", <<>>)>> ELSE <<>>)
     \o (IF ~Rooted(p) /\ segs[1] = <<".">> THEN <<Comp("CurDir", <<>>)>> ELSE <<>>)
     \o [i \in 1..Len(rest) |->
           IF rest[i] = <<".", ".">> THEN Comp("ParentDir", <<>>)
           ELSE Comp("Normal", rest[i])]

(* Faulty variant (see the mutants in PROJECT.json): every component is   *)
(* counted, whatever its kind.                                             *)
CheckPathCountAll(path, levels) == Len(Components(path)) = levels

(* check_path: any component that is not Normal returns false; otherwise  *)
(* the number of components must be image_dir_levels.  Every name here is *)
(* valid UTF-8, so to_str() is always Some.                               *)
CheckPath(path, levels) ==
  LET cs == Components(path)
  IN /\ \A i \in DOMAIN cs : cs[i].kind = "Normal"
     /\ Len(cs) = levels

-----------------------------------------------------------------------------
(* The reference: where image_dir.join(image) leads.  join replaces the   *)
(* base by an absolute path; the kernel then walks the pieces, "." and     *)
(* empty ones staying put, ".." going up (never above the root).           *)
ImageDir == <<<<"v">>, <<"i">>>>

RECURSIVE Walk(_, _)
Walk(at, segs) ==
  IF segs = <<>> THEN at
  ELSE LET g == Head(segs)
           next == CASE g = <<>> \/ g = <<".">> -> at
                     [] g = <<".", ".">>          -> IF at = <<>> THEN at ELSE Front(at)
                     [] OTHER                     -> Append(at, g)
       IN Walk(next, Tail(segs))

ImagePath(p) == Walk(IF Rooted(p) THEN <<>> ELSE ImageDir, SplitSlash(p))

Paths == BoundedSeq(PathChars, MaxPath)

=============================================================================
