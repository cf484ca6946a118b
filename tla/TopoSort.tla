------------------------------ MODULE TopoSort ------------------------------
(***************************************************************************)
(* topoSort (src/lib/write.mjs), the order every index of the bundle is    *)
(* written in and the check that refuses a cyclic feature set: Kahn's      *)
(* algorithm over a list of features in creation order, one action for     *)
(* each turn of its loop.                                                  *)
(***************************************************************************)
EXTENDS FeatureGraph, Sequences, Naturals

CONSTANTS
  Slug,    \* features that may be listed
  Ghost,   \* names a depends_on list may hold although no feature has them
  MaxItems \* bound on the length of the list

ASSUME MaxItemsAssumption == MaxItems \in Nat

VARIABLES
  items,     \* the slugs of the argument, in creation order
  dependsOn, \* their depends_on lists
  placed,    \* the Set of slugs already ordered
  order,     \* the order so far
  running    \* the loop has not ended

vars == <<items, dependsOn, placed, order, running>>

Entries(seq) == {seq[i] : i \in DOMAIN seq}

\* The Set slugs of the function.
Slugs == Entries(items)

Distinct(seq) == \A i, j \in DOMAIN seq : seq[i] = seq[j] => i = j

TypeOK ==
  /\ items \in Seq(Slug) /\ Distinct(items)
  /\ dependsOn \in [Slug -> SUBSET (Slug \cup Ghost)]
  /\ placed \in SUBSET Slugs
  /\ order \in Seq(Slug)
  /\ running \in BOOLEAN

\* Mutant: one placed dependency is taken for all of them.
PlaceableAfterOne(s) ==
  /\ s \notin placed
  /\ dependsOn[s] = {} \/ \E d \in dependsOn[s] : d \in placed \/ d \notin Slugs

\* Mutant: a dependency that is not listed is waited for.
PlaceableStrictly(s) == s \notin placed /\ dependsOn[s] \subseteq placed

\* A feature can be placed once everything it waits for is placed, or missing.
Placeable(s) ==
  /\ s \notin placed
  /\ \A d \in dependsOn[s] : d \in placed \/ d \notin Slugs

\* The result's field cycle: what the loop leaves over.
Cycle == Slugs \ placed

InputLists ==
  {seq \in UNION {[1..n -> Slug] : n \in 0..MaxItems} : Distinct(seq)}

Init ==
  /\ items \in InputLists
  /\ dependsOn \in [Slug -> SUBSET (Slug \cup Ghost)]
  /\ placed = {}
  /\ order = <<>>
  /\ running = TRUE

\* Mutant: any feature that can be placed goes next.
PlaceAny ==
  /\ running
  /\ \E i \in DOMAIN items :
       /\ Placeable(items[i])
       /\ placed' = placed \cup {items[i]}
       /\ order' = Append(order, items[i])
  /\ UNCHANGED <<items, dependsOn, running>>

\* Mutant: what the feature waited for counts as placed with it.
PlaceWithDeps ==
  /\ running
  /\ \E i \in DOMAIN items :
       /\ Placeable(items[i])
       /\ \A j \in 1..(i - 1) : ~Placeable(items[j])
       /\ placed' = placed \cup {items[i]} \cup dependsOn[items[i]]
       /\ order' = Append(order, items[i])
  /\ UNCHANGED <<items, dependsOn, running>>

\* One turn: the first feature of the list that can be placed goes next.
Place ==
  /\ running
  /\ \E i \in DOMAIN items :
       /\ Placeable(items[i])
       /\ \A j \in 1..(i - 1) : ~Placeable(items[j])
       /\ placed' = placed \cup {items[i]}
       /\ order' = Append(order, items[i])
  /\ UNCHANGED <<items, dependsOn, running>>

\* Mutant: without the break, only an empty remainder ends the loop.
FinishWhenAllPlaced ==
  /\ running
  /\ Cycle = {}
  /\ running' = FALSE
  /\ UNCHANGED <<items, dependsOn, placed, order>>

\* The loop ends when all are placed, or breaks when none can be.
Finish ==
  /\ running
  /\ \A s \in Slugs : ~Placeable(s)
  /\ running' = FALSE
  /\ UNCHANGED <<items, dependsOn, placed, order>>

Next == Place \/ Finish

Spec == Init /\ [][Next]_vars /\ WF_vars(Next)

-----------------------------------------------------------------------------
(***************************************************************************)
(* Properties.                                                             *)
(***************************************************************************)

\* A feature never precedes a listed feature it depends on, so an index or a
\* wave in this order can be worked through from the top (write.mjs:214-243).
OrderRespectsDeps ==
  \A i \in DOMAIN order :
    dependsOn[order[i]] \cap Slugs \subseteq {order[j] : j \in 1..(i - 1)}

\* The loop leaves features over exactly when some wait for one another: no
\* sound feature set is refused and no cyclic one is written
\* (write.mjs:225-241, 759-762).
CycleIsExact == ~running => (Cycle = {} <=> Acyclic(Slugs, dependsOn))

\* A list that is already in a sound order comes back as it is: regenerating
\* the index never shuffles features that need not move ("ties broken by input
\* order (creation order)", write.mjs:214).
SortedStaysPut ==
  LET sorted == \A i \in DOMAIN items :
                  dependsOn[items[i]] \cap Slugs
                    \subseteq {items[j] : j \in 1..(i - 1)}
  IN  ~running /\ sorted => order = items

\* The loop ends on every input.
Terminates == <>~running
=============================================================================
