------------------------------ MODULE Continuations ------------------------------
(****************************************************************************)
(* Four Python programs that keep "the rest of the computation" in their    *)
(* own hands: as closures (continuation_cps/continuation_cps.py), as an     *)
(* explicit stack (stackless_coroutine/stackless_vs_stackful.py), as the    *)
(* frame of a generator (stackless_coroutine/yield_fibonacci.py), and in    *)
(* the five ways of t9_combinations.py.                                     *)
(*                                                                          *)
(* One function runs on one input.  A closure is a frame of kont: what it   *)
(* captured, without the continuation it captured, which is the frame below *)
(* it.  depth counts the frames of the interpreter's own stack, and a call  *)
(* beyond its limit raises.  A thunk is a call that waits.                  *)
(****************************************************************************)
EXTENDS Integers, Sequences, SequencesExt

CONSTANTS Programs,    (* the functions to run                              *)
          Args(_),     (* and the arguments of each                         *)
          StackLimits, (* values of sys.getrecursionlimit()                 *)
          None

Numeric == {"fact_cps", "fact_cps_trampoline", "fib_cps", "fib_cps_trampoline",
            "run_stackful", "fibonacci_yield", "fibonacci_yield_from"}
Keypad == {"letter_combinations_recursive", "letter_combinations_backtrack",
           "letter_combinations_generator", "letter_combinations_cps",
           "letter_combinations_cps_chain"}

(* Numbers are not negative, the first send is of None, and the limit has   *)
(* room for the frames that the search starts with.                         *)
ASSUME ContinuationsAssumption ==
  /\ Programs \subseteq Numeric \cup Keypad \cup {"tree_walk_cps", "search", "fibonacci_with_send"}
  /\ \A p \in Programs : \A a \in Args(p) :
       /\ p \in Numeric => a \in Nat
       /\ p = "search" => a \in Seq(Int)
       /\ p = "fibonacci_with_send" => /\ a \in Seq({<<>>} \cup Int \X Int)
                                       /\ a # <<>> => a[1] = <<>>
       /\ p \in Keypad => a \in Seq(2..9)
  /\ \A l \in StackLimits : l \in Nat /\ l >= 4

VARIABLES
  prog, arg, limit,
  does,   (* "call", "apply", "bounce", "return", "jump", "run", "done" or  *)
          (* "RecursionError"                                               *)
  x,      (* the argument of the call, or the value that is passed on       *)
  kont,   (* the frames the program keeps, the innermost last               *)
  depth,  (* frames of the interpreter                                      *)
  out,    (* what a traversal has collected or a generator has yielded      *)
  path    (* the letters chosen so far                                      *)

input == <<prog, arg, limit>>
vars == <<input, does, x, kont, depth, out, path>>

Factorial == prog \in {"fact_cps", "fact_cps_trampoline"}
Fibonacci == prog \in {"fib_cps", "fib_cps_trampoline"}
Tree == prog = "tree_walk_cps"
CPS == Factorial \/ Fibonacci \/ Tree
Trampolined == prog \in {"fact_cps_trampoline", "fib_cps_trampoline"}
Search == prog = "search"
Stackful == prog = "run_stackful"
Generator == prog \in {"fibonacci_yield", "fibonacci_yield_from", "fibonacci_with_send"}
Local == prog \in {"letter_combinations_recursive", "letter_combinations_cps"}
T9 == prog \in Keypad

(* How a call of prog with arg begins: the search after search itself,      *)
(* call_cc, its lambda and _search_impl, the others with one function.      *)
FirstDoes == IF CPS \/ Search THEN "call" ELSE "run"
FirstX == IF CPS THEN arg ELSE IF Search THEN 0 ELSE <<0, 1>>
FirstKont == CASE Stackful -> <<[n |-> arg, depth |-> 0, phase |-> "enter"]>>
               [] T9 /\ arg # <<>> -> <<[at |-> 1, results |-> <<>>]>>
               [] OTHER -> <<>>
FirstDepth == IF Search THEN 4 ELSE 1

Init == /\ prog \in Programs /\ arg \in Args(prog) /\ limit \in StackLimits
        /\ does = FirstDoes /\ x = FirstX /\ kont = FirstKont /\ depth = FirstDepth
        /\ out = <<>> /\ path = <<>>

(* Goes on with n more frames on the stack, or raises.                      *)
Deeper(n, what, value, frames) ==
  IF depth + n <= limit
  THEN does' = what /\ x' = value /\ kont' = frames /\ depth' = depth + n
  ELSE does' = "RecursionError" /\ UNCHANGED <<x, kont, depth>>

Pushed(frame) == Append(kont, frame)
Popped == Front(kont)
Done == "done"

--------------------------------------------------------------------------------
(* Continuation-passing style.  A call passes a value to its continuation,  *)
(* or calls again with a longer one: directly, one frame deeper, or, when   *)
(* trampolined, by making a Bounce and returning it to trampoline(), the    *)
(* only frame left.  A list is passed on as its vals, apart from trees.      *)
Base == CASE Factorial -> x = 0 [] Fibonacci -> x <= 1 [] Tree -> x = None
BaseValue == CASE Factorial -> 1 [] Fibonacci -> x [] Tree -> [vals |-> <<>>]

CallBase == /\ CPS /\ does = "call" /\ Base
            /\ does' = "apply" /\ x' = BaseValue
            /\ UNCHANGED <<input, kont, depth, out, path>>

Direct(n, value, frames) == Deeper(n, "call", value, frames)
Bounce(n, value, frames) ==
  IF depth + n <= limit
  THEN does' = "bounce" /\ x' = value /\ kont' = frames /\ depth' = 1
  ELSE does' = "RecursionError" /\ UNCHANGED <<x, kont, depth>>
CallOnTheStack(n, value, frames) == Direct(n, value, frames)
CallAgain(n, value, frames) ==
  IF Trampolined THEN Bounce(n, value, frames) ELSE Direct(n, value, frames)

CallRecursive ==
  /\ CPS /\ does = "call" /\ ~Base
  /\ CASE Factorial -> CallAgain(1, x - 1, Pushed([times |-> x]))
       [] Fibonacci -> CallAgain(1, x - 1, Pushed([first |-> x]))
       [] Tree -> CallAgain(1, x.left, Pushed([left |-> x]))
  /\ UNCHANGED <<input, out, path>>

(* trampoline() calls the thunk, and the thunk the function.                *)
Thunk == /\ does = "bounce"
         /\ Deeper(2, "call", x, kont)
         /\ UNCHANGED <<input, out, path>>

RightFirst(left, right) == right \o left
LeftFirst(left, right) == left \o right

(* The innermost continuation gets x: a frame of its own, and one more if   *)
(* it calls.  The first continuation is the identity, or makes a Done.      *)
Apply ==
  /\ CPS /\ does = "apply" /\ kont # <<>>
  /\ LET frame == Last(kont)
         is(name) == name \in DOMAIN frame
         pass(v) == Deeper(1, "apply", v, Popped) IN
     CASE is("times") -> pass(frame.times * x)
       [] is("first") -> CallAgain(2, frame.first - 2, Append(Popped, [plus |-> x]))
       [] is("plus") -> pass(frame.plus + x)
       [] is("left") -> CallAgain(2, frame.left.right,
                                  Append(Popped, [vals |-> Append(x.vals, frame.left.value)]))
       [] is("vals") -> pass([vals |-> LeftFirst(frame.vals, x.vals)])
  /\ UNCHANGED <<input, out, path>>

ApplyFirst == /\ CPS /\ does = "apply" /\ kont = <<>>
              /\ Deeper(IF Trampolined THEN 2 ELSE 1, Done, x, kont)
              /\ UNCHANGED <<input, out, path>>

--------------------------------------------------------------------------------
(* The search that leaves by call/cc.  _search_impl calls itself for the    *)
(* next index; what it returns comes back through all of its calls, while   *)
(* invoke calls cc, which makes a Jump, and raises it once Jump.__init__ has *)
(* returned.  Only call_cc catches it.                                      *)
Even(n) == n % 2 = 0
Num == arg[x + 1]

SearchEnds == /\ Search /\ does = "call" /\ x >= Len(arg)
              /\ does' = "return" /\ x' = -1
              /\ UNCHANGED <<input, kont, depth, out, path>>
SearchFinds == /\ Search /\ does = "call" /\ x < Len(arg) /\ Even(Num)
               /\ Deeper(3, "jump", Num, kont)
               /\ UNCHANGED <<input, out, path>>
SearchGoesOn == /\ Search /\ does = "call" /\ x < Len(arg) /\ ~Even(Num)
                /\ Deeper(1, "call", x + 1, kont)
                /\ UNCHANGED <<input, out, path>>
Leave == /\ does \in {"return", "jump"}
         /\ does' = Done /\ depth' = 1
         /\ UNCHANGED <<input, x, kont, out, path>>

--------------------------------------------------------------------------------
(* StackfulCoroutine.step, called by run_stackful until the coroutine finds *)
(* its stack empty.                                                         *)
InPhase(p) == Stackful /\ does = "run" /\ kont # <<>> /\ Last(kont).phase = p
Frame == Last(kont)
MovedTo(p) == Append(Popped, [Frame EXCEPT !.phase = p])

StepLeaf == /\ InPhase("enter") /\ Frame.n = 0
            /\ out' = out \o <<<<"enter", 0, Frame.depth>>, <<"leaf", Frame.depth>>>>
            /\ kont' = MovedTo("exit")
            /\ UNCHANGED <<input, does, x, depth, path>>
StepEnter == /\ InPhase("enter") /\ Frame.n # 0
             /\ out' = Append(out, <<"enter", Frame.n, Frame.depth>>)
             /\ kont' = Append(MovedTo("after_child"),
                              [n |-> Frame.n - 1, depth |-> Frame.depth + 1, phase |-> "enter"])
             /\ UNCHANGED <<input, does, x, depth, path>>
AfterChildAgain == "after_child"
AfterChild == "exit"
StepAfterChild == /\ InPhase("after_child")
                  /\ kont' = MovedTo(AfterChild)
                  /\ UNCHANGED <<input, does, x, depth, out, path>>
StepExit == /\ InPhase("exit")
            /\ out' = Append(out, <<"exit", Frame.n, Frame.depth>>)
            /\ kont' = Popped
            /\ UNCHANGED <<input, does, x, depth, path>>
StepEmpty == /\ Stackful /\ does = "run" /\ kont = <<>>
             /\ does' = Done
             /\ UNCHANGED <<input, x, kont, depth, out, path>>

--------------------------------------------------------------------------------
(* Generators are resumed by next(): for a number of terms, or, with send,  *)
(* as a list of requests says, <<>> for None.  The first starts it.         *)
Term == IF prog = "fibonacci_yield_from" THEN x' ELSE x'[1]
Requests == IF prog = "fibonacci_with_send" THEN Len(arg) ELSE arg
Received == IF prog = "fibonacci_with_send" THEN arg[Len(out) + 1] ELSE <<>>
NextPairInSteps == <<x[2], x[2] + x[2]>>
NextPair == <<x[2], x[1] + x[2]>>

Resume == /\ Generator /\ does = "run" /\ Len(out) < Requests
          /\ x' = CASE out = <<>> -> x
                    [] out # <<>> /\ Received = <<>> -> NextPair
                    [] OTHER -> Received
          /\ out' = Append(out, Term)
          /\ UNCHANGED <<input, does, kont, depth, path>>
GeneratorEnds == /\ Generator /\ does = "run" /\ Len(out) = Requests
                 /\ does' = Done
                 /\ UNCHANGED <<input, x, kont, depth, out, path>>

--------------------------------------------------------------------------------
(* Letter combinations: a call per digit runs through the letters of its    *)
(* key.  path is the prefix of the running call; backtracking shares one    *)
(* list that it pops from.  Some forms return what they find to their       *)
(* caller, or pass it to the caller's continuation, which extends its own   *)
(* list by it; in the others each combination goes straight to the result.  *)
KEY_MAP == [d \in 2..9 |-> IF d \in {7, 9} THEN 4 ELSE 3]
Letters == KEY_MAP[arg[Len(kont)]]
Combining == T9 /\ does = "run" /\ kont # <<>>
AtLeaf == Len(kont) = Len(arg)
NextLetter == [Frame EXCEPT !.at = @ + 1]
WithResults(frame, found) == [frame EXCEPT !.results = @ \o found]

NoDigits == /\ T9 /\ arg = <<>> /\ does = "run"
            /\ does' = Done
            /\ UNCHANGED <<input, x, kont, depth, out, path>>

Descend == /\ Combining /\ ~AtLeaf /\ Frame.at <= Letters
           /\ path' = Append(path, Frame.at)
           /\ kont' = Append(Append(Popped, NextLetter), [at |-> 1, results |-> <<>>])
           /\ UNCHANGED <<input, does, x, depth, out>>

Found(combination) ==
  IF Local THEN kont' = Append(Popped, WithResults(NextLetter, <<combination>>)) /\ out' = out
  ELSE kont' = Append(Popped, NextLetter) /\ out' = Append(out, combination)
Leaf == /\ Combining /\ AtLeaf /\ Frame.at <= Letters
        /\ Found(Append(path, Frame.at))
        /\ UNCHANGED <<input, does, x, depth, path>>

PathKept == path
Backtracked == IF path = <<>> THEN path ELSE Front(path)
Return == /\ Combining /\ Frame.at > Letters
          /\ path' = Backtracked
          /\ IF Len(kont) = 1
             THEN kont' = <<>> /\ out' = out \o Frame.results /\ does' = Done
             ELSE /\ kont' = Append(Front(Popped), WithResults(Last(Popped), Frame.results))
                  /\ UNCHANGED <<out, does>>
          /\ UNCHANGED <<input, x, depth>>

Next == \/ CallBase \/ CallRecursive \/ Thunk \/ Apply \/ ApplyFirst
        \/ SearchEnds \/ SearchFinds \/ SearchGoesOn \/ Leave
        \/ StepLeaf \/ StepEnter \/ StepAfterChild \/ StepExit \/ StepEmpty
        \/ Resume \/ GeneratorEnds
        \/ NoDigits \/ Descend \/ Leaf \/ Return

(* One thread runs the program, and goes on.                                *)
Spec == Init /\ [][Next]_vars
FairSpec == Spec /\ WF_vars(Next)

--------------------------------------------------------------------------------
(* What the functions compute, each in its direct form.                     *)
fact_direct[n \in Nat] == IF n = 0 THEN 1 ELSE n * fact_direct[n - 1]
fib_direct[n \in Nat] == IF n <= 1 THEN n ELSE fib_direct[n - 1] + fib_direct[n - 2]

(* The index at which the search stops.                                     *)
AllOdd(k) == \A i \in 1..k : ~Even(arg[i])

(* A term n places after the pair <<a, b>> of a sequence in which each is   *)
(* the sum of the two before it, and the pair that was sent last.           *)
TermFrom(pair, n) ==
  IF n = 0 THEN pair[1]
  ELSE pair[1] * (fib_direct[n + 1] - fib_direct[n]) + pair[2] * fib_direct[n]
Sent(k) == prog = "fibonacci_with_send" /\ arg[k] # <<>>
LastSent(s, k) == (s = 1 \/ Sent(s)) /\ \A i \in (s + 1)..k : ~Sent(i)
PairSent(s) == IF Sent(s) THEN arg[s] ELSE <<0, 1>>
Yielded(k) == \E s \in 1..k : LET pair == PairSent(s) IN
  /\ LastSent(s, k)
  /\ out[k] = IF prog = "fibonacci_yield_from"
              THEN <<TermFrom(pair, k - s), TermFrom(pair, k - s + 1)>> ELSE TermFrom(pair, k - s)

(* Combinations in the order of the keypad, and a list of all in a set.     *)
AllCombinations == {c \in [1..Len(arg) -> 1..4] : \A j \in DOMAIN c : c[j] <= KEY_MAP[arg[j]]}
Before(s, t) == \E i \in DOMAIN s : s[i] < t[i] /\ \A j \in 1..(i - 1) : s[j] = t[j]
Lists(s, set) == /\ s \in Seq(set)
                 /\ \A c \in set : \E i \in DOMAIN s : s[i] = c
                 /\ \A i, j \in DOMAIN s : i < j => Before(s[i], s[j])

(* Every form computes what its direct form, its definition or its          *)
(* docstring says: the CPS functions what the direct ones do, the search    *)
(* the first even number, the T9 functions each combination once, in order, *)
(* and a generator the sequence from the pair that was sent last, whose     *)
(* first number is what that send() returns (yield_fibonacci.py:36-37).     *)
Results == does = Done =>
  /\ Factorial => x = fact_direct[arg]
  /\ Fibonacci => x = fib_direct[arg]
  /\ Search => IF AllOdd(Len(arg)) THEN x = -1
               ELSE \E i \in 1..Len(arg) : x = arg[i] /\ Even(x) /\ AllOdd(i - 1)
  /\ Generator => Len(out) = Requests /\ \A k \in DOMAIN out : Yielded(k)
  /\ T9 => IF arg = <<>> THEN out = <<>> ELSE Lists(out, AllCombinations)

(* How deep the interpreter's stack must be: a frame for each call and each *)
(* continuation in plain CPS.  trampoline() keeps the calls flat, but the   *)
(* continuations they have built still call one another, all of them in the *)
(* case of the factorial.  The search starts with three frames, has one for *)
(* each number up to the first even one, or for all and the end of the      *)
(* list, and needs three more to leave from an even number.                 *)
calls[n \in Nat] == IF n <= 1 THEN 1 ELSE 1 + calls[n - 1] + calls[n - 2]
Needed == CASE Trampolined -> IF arg = 0 THEN 3 ELSE arg + 5
            [] prog = "fact_cps" -> 2 * (arg + 1)
            [] prog = "fib_cps" -> 2 * calls[arg]
RaisesBelow(n) == /\ does = "RecursionError" => limit < n
                  /\ does = Done => limit >= n
SearchStack ==
  /\ AllOdd(Len(arg)) => RaisesBelow(Len(arg) + 4)
  /\ \A i \in 1..Len(arg) : Even(arg[i]) /\ AllOdd(i - 1) => RaisesBelow(i + 6)
StackUse ==
  /\ depth <= limit
  /\ Trampolined /\ does = "call" => depth <= 3
  /\ does = "RecursionError" => CPS \/ Search
  /\ does = "RecursionError" /\ (Factorial \/ Fibonacci) => Needed > limit
  /\ does = Done /\ (Factorial \/ prog = "fib_cps") => Needed <= limit
  /\ Search => SearchStack

--------------------------------------------------------------------------------
(* Why: the stack a program keeps itself is that of the calls that are      *)
(* open, and what it has computed so far is what they need.                 *)
DoesOneOf(set) == does \in set \cup {"RecursionError", Done}
FactorialInv == Factorial =>
  /\ DoesOneOf({"call", "bounce", "apply"})
  /\ kont \in Seq([times : Nat]) /\ Len(kont) <= arg
  /\ \A i \in DOMAIN kont : kont[i].times = arg - (i - 1)
  /\ does \in {"call", "bounce"} => x = arg - Len(kont)
  /\ does = "apply" => x = fact_direct[arg - Len(kont)]

DepthInv ==
  /\ does = "bounce" => Trampolined /\ depth = 1 /\ kont # <<>>
  /\ prog = "fact_cps" =>
       /\ does = "call" => depth = 1 + Len(kont)
       /\ does = "apply" => depth = 1 + 2 * arg - Len(kont)
  /\ Trampolined =>
       /\ does = "call" => depth = IF kont = <<>> THEN 1 ELSE 3
       /\ does = "apply" => depth + Len(kont) <= IF arg = 0 THEN 1 ELSE 3 + arg
       /\ does = "apply" /\ Factorial => depth + Len(kont) = IF arg = 0 THEN 1 ELSE 3 + arg

(* A frame of the Fibonacci functions waits for the first call of its       *)
(* number, or for the second and knows the value of the first.              *)
FibonacciInv == Fibonacci =>
  /\ DoesOneOf({"call", "bounce", "apply"})
  /\ kont \in Seq([first : Nat] \cup [plus : Nat]) /\ x \in Nat
  /\ does \in {"call", "bounce"} => x + Len(kont) <= arg
  /\ does = "apply" => Len(kont) <= arg

SearchInv == Search =>
  /\ DoesOneOf({"call", "return", "jump"})
  /\ does = "call" => x \in 0..Len(arg) /\ AllOdd(x) /\ depth = 4 + x
  /\ does = "return" => x = -1 /\ AllOdd(Len(arg)) /\ depth = 4 + Len(arg)
  /\ does = "jump" => \E i \in 1..Len(arg) : /\ x = arg[i] /\ Even(x) /\ AllOdd(i - 1)
                                             /\ depth = i + 6

(* The events of the explicit stack: down to the leaf and up again.         *)
Event(k) == IF k <= arg + 1 THEN <<"enter", arg - (k - 1), k - 1>>
            ELSE IF k = arg + 2 THEN <<"leaf", arg>>
            ELSE <<"exit", k - (arg + 3), arg - (k - (arg + 3))>>
StackfulInv == Stackful =>
  /\ does \in {"run", Done}
  /\ out \in Seq(({"leaf"} \X Nat) \cup ({"enter", "exit"} \X Nat \X Nat))
  /\ kont \in Seq([n : Nat, depth : Nat, phase : {"enter", "after_child", "exit"}])
  /\ Len(kont) <= arg + 1 /\ (does = Done => kont = <<>>)
  /\ \A i \in DOMAIN kont : /\ kont[i].depth = i - 1 /\ kont[i].n = arg - (i - 1)
                            /\ i < Len(kont) => kont[i].phase = "after_child"
  /\ Len(out) = IF kont # <<>> /\ Last(kont).phase = "enter" THEN Len(kont) - 1
                ELSE 2 * arg + 3 - Len(kont)
  /\ \A k \in DOMAIN out : out[k] = Event(k)

GeneratorInv == Generator =>
  /\ does \in {"run", Done} /\ (does = Done => Len(out) = Requests)
  /\ out \in Seq(IF prog = "fibonacci_yield_from" THEN Int \X Int ELSE Int)
  /\ x \in Int \X Int /\ Len(out) <= Requests
  /\ \A k \in DOMAIN out : Yielded(k)
  /\ IF out = <<>> THEN x = <<0, 1>>
     ELSE \E s \in 1..Len(out) : LET d == Len(out) - s  pair == PairSent(s) IN
            LastSent(s, Len(out)) /\ x = <<TermFrom(pair, d), TermFrom(pair, d + 1)>>

(* The combinations of the letters an open call has tried, with the letters *)
(* of the calls around it.                                                  *)
Tried(i) == IF i < Len(kont) THEN path[i] ELSE kont[i].at
Mine(i) == {c \in AllCombinations : c[i] < Tried(i) /\ \A j \in 1..(i - 1) : c[j] = path[j]}
T9Inv == T9 =>
  /\ does \in {"run", Done} /\ (kont = <<>> <=> does = Done \/ arg = <<>>)
  /\ IF arg = <<>> THEN out = <<>> ELSE does = Done => Lists(out, AllCombinations)
  /\ Combining =>
       /\ kont \in Seq([at : 1..5, results : Seq(AllCombinations)]) /\ path \in Seq(1..4)
       /\ Len(kont) <= Len(arg) /\ Len(path) = Len(kont) - 1
       /\ \A i \in DOMAIN path : path[i] = kont[i].at - 1
       /\ \A i \in DOMAIN kont : kont[i].at <= KEY_MAP[arg[i]] + 1
       /\ \A i \in DOMAIN kont : Lists(kont[i].results, IF Local THEN Mine(i) ELSE {})
       /\ Lists(out, IF Local THEN {} ELSE UNION {Mine(i) : i \in DOMAIN kont})

TypeOK ==
  /\ prog \in Programs /\ arg \in Args(prog) /\ limit \in StackLimits
  /\ does \in {"call", "apply", "bounce", "return", "jump", "run", "done", "RecursionError"}
  /\ depth \in 1..limit

ContInv == /\ TypeOK /\ StackUse /\ DepthInv /\ FactorialInv /\ FibonacciInv
           /\ SearchInv /\ StackfulInv /\ GeneratorInv /\ T9Inv

(* Every program comes to an end.                                           *)
Ends == <>(does \in {Done, "RecursionError"})
================================================================================
