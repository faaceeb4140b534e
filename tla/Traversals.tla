------------------------------- MODULE Traversals --------------------------------
(****************************************************************************)
(* What the tree walk and the generators of stackless_vs_stackful.py do, by *)
(* recursion over the tree and the levels.                                  *)
(****************************************************************************)
EXTENDS Continuations

RECURSIVE InOrder(_)
InOrder(t) == IF t = None THEN <<>> ELSE InOrder(t.left) \o <<t.value>> \o InOrder(t.right)

RECURSIVE Walks(_)
Walks(t) == IF t = None THEN 1 ELSE 1 + Walks(t.left) + Walks(t.right)

RECURSIVE stackless_chain(_, _)
stackless_chain(n, d) ==
  IF n = 0 THEN <<<<"leaf", d>>>>
  ELSE <<<<"enter", n, d>>>> \o stackless_chain(n - 1, d + 1) \o <<<<"exit", n, d>>>>

(* The tree walk collects the values in order, and needs a frame for each   *)
(* call and each continuation.  The explicit stack yields what the          *)
(* generators do and, unlike them, enters and leaves the leaf.              *)
Traversed ==
  /\ does = Done /\ Tree => x.vals = InOrder(arg) /\ 2 * Walks(arg) <= limit
  /\ does = "RecursionError" /\ Tree => 2 * Walks(arg) > limit
  /\ does = Done /\ Stackful =>
       SelectSeq(out, LAMBDA e : e[1] = "leaf" \/ e[2] # 0) = stackless_chain(arg, 0)
================================================================================
