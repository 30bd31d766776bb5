---------------------------- MODULE MCExecution -----------------------------
EXTENDS Execution, Corpus, FiniteSets

CONSTANTS
  LoadedCells,  \* the size of the largest program that loops
  LiveCells     \* cells of its own that a loop may keep alive, whatever its length

ASSUME LoadedAssumption == \A e \in Looping : Len(Program(e).heap) <= LoadedCells

NoPrograms == {}

(* Programs without an end, with operations that only the machine has, and   *)
(* those whose continuation is re-entered with a let in between, which      *)
(* execution_reenter_let is about.                                         *)
OnlyRun == Pairs \cup Endless \cup ReenteringLet

RECURSIVE Reachable(_, _)
Reachable(new, seen) ==
  IF new \subseteq seen THEN seen
  ELSE Reachable({v.value : v \in {w \in {heap[i].car : i \in new \ seen}
                                        \cup {heap[i].cdr : i \in new \ seen} : IsCons(w)}},
                 seen \cup new)

Live == Reachable({false, code, stack} \cup ({register} \ {Stale}), {})

(* A loop by tail calls runs in constant space: the cells it keeps alive    *)
(* stay within a bound that does not depend on how often it turns. `call`   *)
(* saves no continuation when its code is null, and a frame is not kept     *)
(* alive by the frames that replace it.                                    *)
ConstantSpace ==
  expression \in Looping /\ ~Finished =>
    Cardinality({i \in Live : i > LoadedCells}) <= LiveCells
=============================================================================
