--------------------------- MODULE MCContinuationTests ---------------------------
(* The tests with a limit of 16 frames for the interpreter's 1000, and inputs *)
(* on the side of the limit on which the test's own lie: below it for 100! and *)
(* 9! in plain CPS, above it for 2000! and the Fibonacci numbers up to the     *)
(* 14th.  A factorial above 12! would not be a number of TLC's.               *)
EXTENDS ContinuationTests

MCOrder == <<"test_fib_cps_matches_direct", "test_fact_cps_matches_direct",
             "test_trampoline_fact", "test_trampoline_fib", "test_trampoline_deep_recursion",
             "test_call_cc_early_exit", "test_tree_walk_cps",
             "test_identical_output", "test_fibonacci_yield", "test_fibonacci_with_send">>

Node(left, value, right) == [value |-> value, left |-> left, right |-> right]

MCInput(t) ==
  CASE t = "test_fib_cps_matches_direct" -> 14
    [] t = "test_fact_cps_matches_direct" -> 7
    [] t = "test_trampoline_fact" -> 10
    [] t = "test_trampoline_fib" -> 6
    [] t = "test_trampoline_deep_recursion" -> 12
    [] t = "test_call_cc_early_exit" -> <<1, 3, 5, 7, 8, 9>>
    [] t = "test_tree_walk_cps" -> Node(Node(None, 1, None), 2, Node(None, 3, None))
    [] t = "test_identical_output" -> 3
    [] t = "test_fibonacci_yield" -> 10
    [] t = "test_fibonacci_with_send" ->
         <<<<>>, <<>>, <<>>, <<>>, <<>>, <<>>, <<10, 20>>, <<>>, <<>>, <<>>>>

MCPrograms == {Called(t) : t \in Tests}
MCArgs(p) == {MCInput(t) : t \in {s \in Tests : Called(s) = p}}
================================================================================
