------------------------------ MODULE MCSequential -------------------------------
(* The coroutines of MCCoroutines beside the functions of MCContinuations.    *)
(* They share nothing: each of the two sides runs all its instances beside    *)
(* one short run of the other.                                                *)
EXTENDS MCCoroutines, MCContinuations

ShortFunction == prog = "fibonacci_yield" /\ arg = 0 /\ limit = 30
ShortCoroutines == kind = "greenlets" /\ \A c \in Coros : suspends[c] = 0

BesideInit == SchedInit /\ Init /\ (ShortFunction \/ ShortCoroutines)

CoroutinesStep == SchedNext /\ UNCHANGED vars
FunctionStep == Next /\ UNCHANGED schedVars
BesideNext == CoroutinesStep \/ FunctionStep

(* The fairness of SchedFairSpec and of FairSpec.                             *)
Beside == /\ BesideInit /\ [][BesideNext]_<<schedVars, vars>>
          /\ WF_schedVars(Greenlets) /\ WF_schedVars(MainThread)
          /\ \A c \in Coros : WF_schedVars(Thread(c))
          /\ WF_vars(Next)
================================================================================
