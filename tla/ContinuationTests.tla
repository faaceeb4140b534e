---------------------------- MODULE ContinuationTests ----------------------------
(****************************************************************************)
(* The session of python/tests that tests the functions of Continuations:   *)
(* one test after another calls its function, and fails when the call       *)
(* raises or its assertion does not hold; pytest goes on with the next.     *)
(****************************************************************************)
EXTENDS Traversals

CONSTANTS Order,    (* the tests of the session, in their order             *)
          Input(_)  (* what a test passes to its function: of a loop over   *)
                    (* arguments, the largest                               *)

VARIABLES todo,     (* the test that runs and those after it                *)
          failed    (* the tests that have failed                           *)

Tests == {"test_fib_cps_matches_direct", "test_fact_cps_matches_direct",
          "test_trampoline_fact", "test_trampoline_fib", "test_trampoline_deep_recursion",
          "test_call_cc_early_exit", "test_tree_walk_cps",
          "test_identical_output", "test_fibonacci_yield", "test_fibonacci_with_send"}

Called(t) ==
  CASE t = "test_fib_cps_matches_direct" -> "fib_cps"
    [] t = "test_fact_cps_matches_direct" -> "fact_cps"
    [] t \in {"test_trampoline_fact", "test_trampoline_deep_recursion"} -> "fact_cps_trampoline"
    [] t = "test_trampoline_fib" -> "fib_cps_trampoline"
    [] t = "test_call_cc_early_exit" -> "search"
    [] t = "test_tree_walk_cps" -> "tree_walk_cps"
    [] t = "test_identical_output" -> "run_stackful"
    [] t = "test_fibonacci_yield" -> "fibonacci_yield"
    [] t = "test_fibonacci_with_send" -> "fibonacci_with_send"

(* What a test asserts of the call that has returned: the same as the       *)
(* direct form, the first even number, the values in order, the events of   *)
(* the generators, and the terms of the first six and the last three sends. *)
Slice(from, to) == SubSeq(out, from, to)
Asserted(t) ==
  CASE t \in {"test_fact_cps_matches_direct", "test_trampoline_fact",
              "test_trampoline_deep_recursion"} -> x = fact_direct[arg]
    [] t \in {"test_fib_cps_matches_direct", "test_trampoline_fib"} -> x = fib_direct[arg]
    [] t = "test_call_cc_early_exit" -> x = 8
    [] t = "test_tree_walk_cps" -> x.vals = InOrder(arg)
    [] t = "test_identical_output" -> out = stackless_chain(arg, 0)
    [] t = "test_fibonacci_yield" -> \A k \in DOMAIN out : out[k] = fib_direct[k - 1]
    [] t = "test_fibonacci_with_send" -> /\ Slice(1, 6) = <<0, 1, 1, 2, 3, 5>>
                                         /\ Slice(8, 10) = <<10, 20, 30>>

Begin(t) == prog = Called(t) /\ arg = Input(t)
SessionInit == /\ todo = Order /\ failed = {}
               /\ Init /\ Begin(Head(Order))

Running == Next /\ UNCHANGED <<todo, failed>>
Passes(t) == does = Done /\ Asserted(t)
TestEnds ==
  /\ todo # <<>> /\ does \in {Done, "RecursionError"}
  /\ failed' = IF Passes(Head(todo)) THEN failed ELSE failed \cup {Head(todo)}
  /\ todo' = Tail(todo)
  /\ \/ todo' = <<>> /\ UNCHANGED vars
     \/ /\ todo' # <<>> /\ limit' = limit
        /\ prog' = Called(Head(todo')) /\ arg' = Input(Head(todo'))
        /\ does' = FirstDoes' /\ x' = FirstX' /\ kont' = FirstKont' /\ depth' = FirstDepth'
        /\ out' = <<>> /\ path' = <<>>

SessionNext == Running \/ TestEnds
SessionSpec == SessionInit /\ [][SessionNext]_<<vars, todo, failed>>

(* Every test of the session passes: what test_continuation_cps.py:23 and   *)
(* 38-40, test_stackless_vs_stackful.py:16 and test_yield_fibonacci.py:34   *)
(* assert of the program, and continuation_cps.py:82 and 258,               *)
(* stackless_vs_stackful.py:118 and yield_fibonacci.py:95 say again.        *)
TestsPass == todo = <<>> => failed = {}
================================================================================
