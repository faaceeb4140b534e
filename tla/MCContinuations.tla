----------------------------- MODULE MCContinuations -----------------------------
(* Arguments beyond the base cases of every function; one stack limit that the *)
(* larger of them reach, and one that only the largest do.  The lists of the  *)
(* search are short, or end it, with an even number or without, one or two    *)
(* frames below, at or above the lower limit.                                 *)
EXTENDS Traversals

MCPrograms == {"fact_cps", "fact_cps_trampoline", "fib_cps", "fib_cps_trampoline",
               "tree_walk_cps", "search", "run_stackful",
               "fibonacci_yield", "fibonacci_yield_from", "fibonacci_with_send",
               "letter_combinations_recursive", "letter_combinations_backtrack",
               "letter_combinations_generator", "letter_combinations_cps",
               "letter_combinations_cps_chain"}

(* Trees of at most three levels, numbered as the demo numbers its tree.     *)
RECURSIVE Trees(_, _)
Trees(levels, label) ==
  {None} \cup (IF levels = 0 THEN {} ELSE
    [value : {label}, left : Trees(levels - 1, 2 * label), right : Trees(levels - 1, 2 * label + 1)])

Upto(S, n) == UNION {[1..k -> S] : k \in 0..n}

MCArgs(p) ==
  CASE p \in {"fact_cps", "fact_cps_trampoline"} -> 0..12
    [] p \in {"fib_cps", "fib_cps_trampoline"} -> 0..9
    [] p = "tree_walk_cps" -> Trees(3, 1)
    [] p = "search" -> Upto(1..3, 3) \cup {[i \in 1..n |-> IF i = e THEN 2 ELSE 1] :
                                              n \in 8..12, e \in 7..13}
    [] p = "run_stackful" -> 0..5
    [] p \in {"fibonacci_yield", "fibonacci_yield_from"} -> 0..8
    [] p = "fibonacci_with_send" -> {<<>>} \cup {<<<<>>>> \o s : s \in Upto({<<>>, <<10, 20>>}, 4)}
    [] OTHER -> Upto({2, 3, 7}, 2) \cup {<<2, 3, 4>>}
================================================================================
