-------------------------------- MODULE Store --------------------------------
(***************************************************************************)
(* What vm/src/memory.rs promises its clients: a store of objects with      *)
(* identities. There are no addresses, no spaces and no copies here; an     *)
(* object is its two fields, an identity stays the same for as long as the  *)
(* object can be reached, and a collection drops exactly the objects that   *)
(* the roots do not reach. NamedMemory shows that Memory implements it.     *)
(***************************************************************************)
EXTENDS Integers, FiniteSets

CONSTANTS Ids, Capacity, Tags, PairTag, NeverTag, Atoms, ClientRoots,
          ClientFields, MaxHeld, GcAlways

Ref == [index : Ids, tag : Tags]
Never == [index |-> 0, tag |-> NeverTag]

Code == 1
Stack == 2
False == 3
Register == 4
Result == 5
Roots == 1 .. 5

VARIABLES
  objects,  \* the fields of the objects, by identity
  roots,    \* the registers of the machine and the cell being returned
  held,     \* what the client may use besides
  pushing,  \* is the allocation under way a push?
  mode      \* "mutator", "allocating" or "failed"

vars == <<objects, roots, held, pushing, mode>>

SetTag(v, t) == IF v \in Atoms THEN v ELSE [v EXCEPT !.tag = t]
TagOf(v) == IF v \in Atoms THEN PairTag ELSE v.tag

-----------------------------------------------------------------------------
(* Reachability: the least set of objects that holds what the roots refer   *)
(* to and is closed under the fields of its members.                       *)

References(S) == {v.index : v \in S \ (Atoms \cup {Never})}
Fields(i) == {objects[i][0], objects[i][1]}
Anchors == References({roots[r] : r \in Roots})
Closed(S) == Anchors \subseteq S /\ \A i \in S : References(Fields(i)) \subseteq S

Reachable ==
  {i \in DOMAIN objects : \A S \in SUBSET DOMAIN objects : Closed(S) => i \in S}

-----------------------------------------------------------------------------
Hold(v) ==
  /\ v \in Ref
  /\ \E kept \in SUBSET held :
       /\ Cardinality(kept) < MaxHeld
       /\ held' = kept \cup {v}

ReadRoot(r) ==
  /\ mode = "mutator"
  /\ Hold(roots[r])
  /\ UNCHANGED <<objects, roots, pushing, mode>>

Load(v, field) ==
  /\ mode = "mutator"
  /\ Hold(objects[v.index][field])
  /\ UNCHANGED <<objects, roots, pushing, mode>>

SetField(v, field, w) ==
  /\ mode = "mutator"
  /\ objects' = [objects EXCEPT ![v.index][field] = SetTag(w, TagOf(@))]
  /\ UNCHANGED <<roots, held, pushing, mode>>

SetRoot(r, v) ==
  /\ mode = "mutator"
  /\ roots' = [roots EXCEPT ![r] = v]
  /\ UNCHANGED <<objects, held, pushing, mode>>

Pop ==
  /\ mode = "mutator"
  /\ roots[Stack] # Never
  /\ LET top == objects[roots[Stack].index] IN
       /\ top[1] \in Ref
       /\ roots' = [roots EXCEPT ![Stack] = top[1]]
       /\ IF top[0] \in Atoms THEN held' = held ELSE Hold(top[0])
  /\ UNCHANGED <<objects, pushing, mode>>

Return(cons, push) ==
  /\ held' = IF push THEN {} ELSE {cons}
  /\ roots' = [roots EXCEPT ![Stack] = IF push THEN cons ELSE @,
                            ![Result] = Never]
  /\ pushing' = FALSE
  /\ mode' = "mutator"

(* A new object under an unused identity, which no local but the result of  *)
(* the call outlives: a collection follows if it is the last one there is  *)
(* room for.                                                               *)
Allocate(i, car, cdr, push) ==
  /\ mode = "mutator"
  /\ i \notin DOMAIN objects
  /\ Cardinality(DOMAIN objects) < Capacity
  /\ objects' = [j \in DOMAIN objects \cup {i} |->
       IF j = i THEN [f \in {0, 1} |-> IF f = 0 THEN car ELSE cdr] ELSE objects[j]]
  /\ roots' = [roots EXCEPT ![Result] = [index |-> i, tag |-> PairTag]]
  /\ held' = {}
  /\ pushing' = push
  /\ mode' = "allocating"

Full == Cardinality(DOMAIN objects) = Capacity

FinishAllocation ==
  /\ mode = "allocating"
  /\ ~Full /\ ~GcAlways
  /\ Return(roots[Result], pushing)
  /\ UNCHANGED objects

(* What is kept is kept as it is: no identity, field or tag changes.       *)
Collect ==
  /\ mode = "allocating"
  /\ Full \/ GcAlways
  /\ objects' = [i \in Reachable |-> objects[i]]
  /\ Return(roots[Result], pushing)

(* An allocation fails only if the last collection found nothing to drop.  *)
OutOfMemory ==
  /\ mode = "mutator"
  /\ Full
  /\ mode' = "failed"
  /\ UNCHANGED <<objects, roots, held, pushing>>

-----------------------------------------------------------------------------
Values == held \cup Atoms

(* A cons onto NEVER refers to an object that nothing promises.            *)
StackCdr ==
  IF roots[Stack] = Never
  THEN {[index |-> i, tag |-> PairTag] : i \in DOMAIN objects}
  ELSE {SetTag(roots[Stack], PairTag)}

Init ==
  \E i, j \in Ids :
    /\ i # j
    /\ \E zero \in Atoms :
         objects = [k \in {i, j} |-> [f \in {0, 1} |->
           IF k = i THEN zero ELSE [index |-> i, tag |-> PairTag]]]
    /\ roots = [r \in Roots |->
         IF r = False THEN [index |-> j, tag |-> PairTag] ELSE Never]
    /\ held = {}
    /\ pushing = FALSE
    /\ mode = "mutator"

Next ==
  \/ \E r \in ClientRoots \cup {False} : ReadRoot(r)
  \/ \E v \in held, field \in {0, 1} : Load(v, field)
  \/ \E v \in held, field \in ClientFields, w \in Values : SetField(v, field, w)
  \/ \E r \in ClientRoots, v \in held \cup {Never} : SetRoot(r, v)
  \/ Pop
  \/ \E i \in Ids, car \in Values, cdr \in Values, tag \in Tags :
       Allocate(i, car, SetTag(cdr, tag), FALSE)
  \/ \E i \in Ids, car \in Values : \E cdr \in StackCdr :
       Allocate(i, car, cdr, TRUE)
  \/ FinishAllocation \/ Collect
  \/ OutOfMemory

Spec == Init /\ [][Next]_vars /\ WF_vars(FinishAllocation \/ Collect)
=============================================================================
