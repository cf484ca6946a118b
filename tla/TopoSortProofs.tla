--------------------------- MODULE TopoSortProofs ---------------------------
(***************************************************************************)
(* Proofs about TopoSort for every list of features and every graph.       *)
(***************************************************************************)
EXTENDS TopoSort, TLAPS

\* What each turn keeps: placed holds the entries of order, and any set that
\* meets placed has a member that waits for none of the others.
PlacedIsOrder == placed = Entries(order)
PlacedIsSound ==
  \A T \in SUBSET Slugs :
    T \cap placed # {} => \E s \in T : dependsOn[s] \cap T = {}

\* When the loop has ended, nothing can be placed.
NothingLeft == ~running => \A s \in Slugs : ~Placeable(s)

LoopInv == TypeOK /\ PlacedIsOrder /\ PlacedIsSound /\ NothingLeft

-----------------------------------------------------------------------------
LEMMA InitLoopInv == Init => LoopInv /\ OrderRespectsDeps
<1> SUFFICES ASSUME Init PROVE LoopInv /\ OrderRespectsDeps
  OBVIOUS
<1>1. items \in Seq(Slug) /\ Distinct(items)
  <2>1. PICK n \in 0..MaxItems : items \in [1..n -> Slug]
    BY DEF Init, InputLists
  <2> QED
    BY <2>1, MaxItemsAssumption DEF Init, InputLists
<1>2. TypeOK
  BY <1>1 DEF Init, TypeOK
<1>3. PlacedIsOrder /\ PlacedIsSound /\ NothingLeft /\ OrderRespectsDeps
  BY DEF Init, PlacedIsOrder, PlacedIsSound, NothingLeft, OrderRespectsDeps, Entries
<1> QED
  BY <1>2, <1>3 DEF LoopInv

\* What a turn does to the order.
LEMMA PlaceAppends ==
  ASSUME LoopInv, Place
  PROVE  \E s \in Slugs :
           /\ Placeable(s)
           /\ placed' = placed \cup {s}
           /\ order' \in Seq(Slug)
           /\ Len(order') = Len(order) + 1
           /\ order'[Len(order) + 1] = s
           /\ \A i \in 1..Len(order) : order'[i] = order[i]
<1>1. PICK i \in DOMAIN items : /\ Placeable(items[i])
                                /\ placed' = placed \cup {items[i]}
                                /\ order' = Append(order, items[i])
  BY DEF Place
<1>2. items[i] \in Slugs /\ items[i] \in Slug
  BY DEF Slugs, Entries, LoopInv, TypeOK
<1>3. order \in Seq(Slug)
  BY DEF LoopInv, TypeOK
<1> QED
  BY <1>1, <1>2, <1>3

LEMMA NextLoopInv ==
  ASSUME LoopInv, [Next]_vars
  PROVE  LoopInv'
<1>1. CASE Place
  <2>1. PICK s \in Slugs :
               /\ Placeable(s)
               /\ placed' = placed \cup {s}
               /\ order' \in Seq(Slug)
               /\ Len(order') = Len(order) + 1
               /\ order'[Len(order) + 1] = s
               /\ \A i \in 1..Len(order) : order'[i] = order[i]
    BY <1>1, PlaceAppends
  <2>2. UNCHANGED <<items, dependsOn, running>> /\ running /\ Slugs' = Slugs
    BY <1>1 DEF Place, Slugs
  <2>3. TypeOK'
    BY <2>1, <2>2 DEF LoopInv, TypeOK
  <2>4. PlacedIsOrder'
    <3>1. order \in Seq(Slug)
      BY DEF LoopInv, TypeOK
    <3>2. DOMAIN order = 1..Len(order) /\ DOMAIN order' = 1..(Len(order) + 1)
      BY <2>1, <3>1
    <3> QED
      BY <2>1, <3>1, <3>2 DEF LoopInv, PlacedIsOrder, Entries
  <2>5. PlacedIsSound'
    <3> SUFFICES ASSUME NEW T \in SUBSET Slugs, T \cap (placed \cup {s}) # {}
                 PROVE  \E x \in T : dependsOn[x] \cap T = {}
      BY <2>1, <2>2 DEF PlacedIsSound
    <3>1. CASE T \cap placed # {}
      BY <3>1 DEF LoopInv, PlacedIsSound
    <3>2. CASE T \cap placed = {}
      <4>1. s \in T /\ dependsOn[s] \cap Slugs \subseteq placed
        BY <2>1, <3>2 DEF Placeable
      <4> QED
        BY <3>2, <4>1
    <3> QED
      BY <3>1, <3>2
  <2>6. NothingLeft'
    BY <2>2 DEF NothingLeft
  <2> QED
    BY <2>3, <2>4, <2>5, <2>6 DEF LoopInv
<1>2. CASE Finish
  <2>1. UNCHANGED <<items, dependsOn, placed, order>> /\ running' \in BOOLEAN
    BY <1>2 DEF Finish
  <2>2. NothingLeft'
    BY <1>2, <2>1 DEF Finish, NothingLeft, Placeable, Slugs
  <2> QED
    BY <2>1, <2>2 DEF LoopInv, TypeOK, PlacedIsOrder, PlacedIsSound, Slugs
<1>3. CASE UNCHANGED vars
  BY <1>3 DEF vars, LoopInv, TypeOK, PlacedIsOrder, PlacedIsSound, NothingLeft,
              Slugs, Placeable
<1> QED
  BY <1>1, <1>2, <1>3 DEF Next

LEMMA LoopInvariant == Spec => []LoopInv
BY InitLoopInv, NextLoopInv, PTL DEF Spec

-----------------------------------------------------------------------------
\* For every list and every graph, no feature precedes one it depends on.
THEOREM OrderIsSound == Spec => []OrderRespectsDeps
<1>1. Init => OrderRespectsDeps
  BY InitLoopInv
<1>2. LoopInv /\ OrderRespectsDeps /\ [Next]_vars => OrderRespectsDeps'
  <2> SUFFICES ASSUME LoopInv, OrderRespectsDeps, [Next]_vars
               PROVE  OrderRespectsDeps'
    OBVIOUS
  <2>1. CASE Place
    <3>1. PICK s \in Slugs :
                 /\ Placeable(s)
                 /\ order' \in Seq(Slug)
                 /\ Len(order') = Len(order) + 1
                 /\ order'[Len(order) + 1] = s
                 /\ \A i \in 1..Len(order) : order'[i] = order[i]
      BY <2>1, PlaceAppends
    <3>2. dependsOn' = dependsOn /\ Slugs' = Slugs
      BY <2>1 DEF Place, Slugs
    <3>3. order \in Seq(Slug) /\ DOMAIN order = 1..Len(order) /\ Len(order) \in Nat
      BY DEF LoopInv, TypeOK
    <3>4. DOMAIN order' = 1..(Len(order) + 1)
      BY <3>1
    <3> SUFFICES ASSUME NEW i \in 1..(Len(order) + 1)
                 PROVE  dependsOn[order'[i]] \cap Slugs
                          \subseteq {order'[j] : j \in 1..(i - 1)}
      BY <3>2, <3>4 DEF OrderRespectsDeps
    <3>5. \A j \in 1..(i - 1) : order'[j] = order[j]
      BY <3>1, <3>3
    <3>6. CASE i = Len(order) + 1
      <4>1. dependsOn[s] \cap Slugs \subseteq placed
        BY <3>1 DEF Placeable
      <4>2. placed = {order[j] : j \in 1..Len(order)}
        BY <3>3 DEF LoopInv, PlacedIsOrder, Entries
      <4> QED
        BY <3>1, <3>3, <3>5, <3>6, <4>1, <4>2
    <3>7. CASE i # Len(order) + 1
      <4>1. i \in 1..Len(order)
        BY <3>3, <3>7
      <4>2. dependsOn[order[i]] \cap Slugs \subseteq {order[j] : j \in 1..(i - 1)}
        BY <3>3, <4>1 DEF OrderRespectsDeps
      <4> QED
        BY <3>1, <3>5, <4>1, <4>2
    <3> QED
      BY <3>6, <3>7
  <2>2. CASE Finish \/ UNCHANGED vars
    BY <2>2 DEF Finish, vars, OrderRespectsDeps, Slugs
  <2> QED
    BY <2>1, <2>2 DEF Next
<1> QED
  BY <1>1, <1>2, LoopInvariant, PTL DEF Spec

\* For every list and every graph, the algorithm reports a cycle exactly when
\* the features are not acyclic: the guard of the features op means what
\* FeatureBundle takes it to mean.
THEOREM VerdictIsExact == Spec => []CycleIsExact
<1>1. LoopInv => CycleIsExact
  <2> SUFFICES ASSUME LoopInv, ~running
               PROVE  Cycle = {} <=> Acyclic(Slugs, dependsOn)
    BY DEF CycleIsExact
  <2>1. ASSUME Cycle = {} PROVE Acyclic(Slugs, dependsOn)
    BY <2>1 DEF LoopInv, TypeOK, PlacedIsSound, Cycle, Acyclic
  <2>2. ASSUME Cycle # {} PROVE ~Acyclic(Slugs, dependsOn)
    <3>1. \A s \in Cycle : dependsOn[s] \cap Cycle # {}
      BY DEF LoopInv, NothingLeft, Placeable, Cycle
    <3> QED
      BY <2>2, <3>1 DEF Acyclic, Cycle
  <2> QED
    BY <2>1, <2>2
<1> QED
  BY <1>1, LoopInvariant, PTL

\* The loop's list, order and Set stay what they are: whatever is placed was
\* listed, and only that.
THEOREM TypesAreKept == Spec => []TypeOK
<1>1. LoopInv => TypeOK
  BY DEF LoopInv
<1> QED
  BY <1>1, LoopInvariant, PTL

-----------------------------------------------------------------------------
\* No feature of the list waits for one that comes after it.
Sorted ==
  \A i \in DOMAIN items :
    dependsOn[items[i]] \cap Slugs \subseteq {items[j] : j \in 1..(i - 1)}

\* Of a sorted list the loop has placed the first entries, in their order.
PrefixInv ==
  Sorted => Len(order) <= Len(items) /\ \A j \in 1..Len(order) : order[j] = items[j]

LEMMA Lists ==
  ASSUME TypeOK
  PROVE  /\ DOMAIN items = 1..Len(items) /\ Len(items) \in Nat
         /\ DOMAIN order = 1..Len(order) /\ Len(order) \in Nat
BY DEF TypeOK

\* In a sorted list, the entry after those placed can be placed, and they not.
LEMMA NextInLine ==
  ASSUME LoopInv, PrefixInv, Sorted
  PROVE  /\ placed = {items[j] : j \in 1..Len(order)}
         /\ \A i \in 1..Len(order) : ~Placeable(items[i])
         /\ Len(order) < Len(items) => Placeable(items[Len(order) + 1])
<1> DEFINE n == Len(order)
<1>1. /\ DOMAIN items = 1..Len(items) /\ Len(items) \in Nat
      /\ DOMAIN order = 1..n /\ n \in Nat /\ n <= Len(items)
      /\ \A j \in 1..n : order[j] = items[j]
  BY Lists DEF LoopInv, PrefixInv
<1>2. placed = {items[j] : j \in 1..n}
  BY <1>1 DEF LoopInv, PlacedIsOrder, Entries
<1>3. \A i \in 1..n : ~Placeable(items[i])
  BY <1>2 DEF Placeable
<1>4. ASSUME n < Len(items) PROVE Placeable(items[n + 1])
  <2>1. n + 1 \in DOMAIN items
    BY <1>1, <1>4
  <2>2. \A j \in 1..n : items[n + 1] # items[j]
    BY <1>1, <2>1 DEF LoopInv, TypeOK, Distinct
  <2>3. dependsOn[items[n + 1]] \cap Slugs \subseteq {items[j] : j \in 1..n}
    <3>1. (n + 1) - 1 = n
      BY <1>1
    <3> QED
      BY <2>1, <3>1 DEF Sorted
  <2> QED
    BY <1>2, <2>2, <2>3 DEF Placeable
<1> QED
  BY <1>2, <1>3, <1>4

LEMMA NextPrefixInv ==
  ASSUME LoopInv, PrefixInv, [Next]_vars
  PROVE  PrefixInv'
<1> SUFFICES ASSUME Sorted'
             PROVE  /\ Len(order') <= Len(items')
                    /\ \A j \in 1..Len(order') : order'[j] = items'[j]
  BY DEF PrefixInv
<1>1. CASE Place
  <2>1. UNCHANGED <<items, dependsOn>>
    BY <1>1 DEF Place
  <2>2. Sorted
    BY <2>1 DEF Sorted, Slugs
  <2>3. PICK i \in DOMAIN items :
          /\ Placeable(items[i])
          /\ \A j \in 1..(i - 1) : ~Placeable(items[j])
          /\ order' = Append(order, items[i])
    BY <1>1 DEF Place
  <2>4. /\ DOMAIN items = 1..Len(items) /\ Len(items) \in Nat
        /\ Len(order) \in Nat /\ Len(order) <= Len(items)
        /\ \A j \in 1..Len(order) : order[j] = items[j]
    BY <2>2, Lists DEF LoopInv, PrefixInv
  <2>5. i \notin 1..Len(order)
    BY <2>2, <2>3, NextInLine
  <2>6. Len(order) < Len(items)
    BY <2>3, <2>4, <2>5
  <2>7. i = Len(order) + 1
    <3>1. Placeable(items[Len(order) + 1])
      BY <2>2, <2>6, NextInLine
    <3>2. ~(Len(order) + 1 \in 1..(i - 1))
      BY <2>3, <3>1
    <3> QED
      BY <2>3, <2>4, <2>5, <3>2
  <2>8. order \in Seq(Slug) /\ items[i] \in Slug
    BY <2>3 DEF LoopInv, TypeOK
  <2>9. /\ Len(order') = Len(order) + 1
        /\ order'[Len(order) + 1] = items[i]
        /\ \A j \in 1..Len(order) : order'[j] = order[j]
    BY <2>3, <2>8
  <2> QED
    BY <2>1, <2>4, <2>6, <2>7, <2>9
<1>2. CASE Finish \/ UNCHANGED vars
  <2>1. UNCHANGED <<items, dependsOn, order>>
    BY <1>2 DEF Finish, vars
  <2>2. Sorted
    BY <2>1 DEF Sorted, Slugs
  <2> QED
    BY <2>1, <2>2 DEF PrefixInv
<1> QED
  BY <1>1, <1>2 DEF Next

\* For every list, a sorted one comes back as it is (write.mjs:214): however
\* long, regenerating an index moves nothing that need not move.
THEOREM SortedListsStay == Spec => []SortedStaysPut
<1>1. Init => PrefixInv
  <2>1. Init => Len(order) = 0 /\ Len(items) >= 0
    BY InitLoopInv, Lists DEF Init, LoopInv
  <2> QED
    BY <2>1 DEF PrefixInv
<1>2. LoopInv /\ PrefixInv => SortedStaysPut
  <2> SUFFICES ASSUME LoopInv, PrefixInv, ~running, Sorted
               PROVE  order = items
    BY DEF SortedStaysPut, Sorted
  <2>1. /\ DOMAIN items = 1..Len(items) /\ Len(items) \in Nat
        /\ DOMAIN order = 1..Len(order) /\ Len(order) \in Nat
        /\ Len(order) <= Len(items)
        /\ \A j \in 1..Len(order) : order[j] = items[j]
    BY Lists DEF LoopInv, PrefixInv
  <2>2. ~(Len(order) < Len(items))
    <3>1. ASSUME Len(order) < Len(items) PROVE FALSE
      <4>1. Len(order) + 1 \in DOMAIN items
        BY <2>1, <3>1
      <4>2. items[Len(order) + 1] \in Slugs
        BY <4>1 DEF Slugs, Entries
      <4> QED
        BY <3>1, <4>2, NextInLine DEF LoopInv, NothingLeft
    <3> QED
      BY <3>1
  <2>3. Len(order) = Len(items)
    <3>1. \A m, n \in Nat : m <= n /\ ~(m < n) => m = n
      OBVIOUS
    <3> QED
      BY <2>1, <2>2, <3>1
  <2>4. order \in Seq(Slug) /\ items \in Seq(Slug)
    BY DEF LoopInv, TypeOK
  <2> QED
    BY <2>1, <2>3, <2>4
<1>3. LoopInv /\ PrefixInv /\ [Next]_vars => PrefixInv'
  BY NextPrefixInv
<1> QED
  BY <1>1, <1>2, <1>3, LoopInvariant, PTL DEF Spec
=============================================================================
