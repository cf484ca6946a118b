------------------------- MODULE MemoryPointerProofs -------------------------
(***************************************************************************)
(* Proofs about MemoryPointer, for any number of flows and commits.        *)
(***************************************************************************)
EXTENDS MemoryPointer, TLAPS

\* What the memory has caught up with, but for the commits that were raced.
Covered == (looked \cap written) \cup raced

\* The cards of a flow, once written, cover every commit up to the one it is to
\* advance the pointer to; in an acceptance from the working tree, every commit
\* there is.
FlowCovers(f) ==
  /\ batch[f] \subseteq looked
  /\ phase[f] \in {"review", "slim", "cards"} =>
       Upto(seen[f]) \subseteq Covered \cup batch[f]
  /\ phase[f] = "advance" => Upto(seen[f]) \subseteq Covered
  /\ phase[f] = "tree" /\ seen[f] > 0 => Upto(head) \subseteq Covered \cup batch[f]

\* The inductive invariant.  The last conjunct makes KnowledgeFirst inductive:
\* what Advance makes true of the pointer is promised by the flow from its study
\* on, and no step of another flow may break the promise.
MemoryInv ==
  /\ TypeOK
  /\ KnowledgeFirst
  /\ RetiredIsMemorized
  /\ \A f \in Flow : FlowCovers(f)

\* The pointer and what is pending make up the branch.
LEMMA PendingCompletes ==
  ASSUME TypeOK PROVE Upto(head) \subseteq Upto(pointer) \cup Pending
BY DEF TypeOK, Upto, Pending

\* MemoryInv holds initially.
LEMMA MemoryInvInit == Init => MemoryInv
<1> SUFFICES ASSUME Init PROVE MemoryInv
  OBVIOUS
<1>1. TypeOK
  BY MemoryAssumption DEF Init, TypeOK, Upto
<1>2. KnowledgeFirst /\ RetiredIsMemorized
  BY DEF Init, KnowledgeFirst, RetiredIsMemorized, Upto
<1>3. \A f \in Flow : FlowCovers(f)
  BY DEF Init, FlowCovers
<1> QED
  BY <1>1, <1>2, <1>3 DEF MemoryInv

\* A step that commits makes room for one commit more.
LEMMA UptoNext ==
  ASSUME TypeOK, head < MaxHead, head' = head + 1
  PROVE  /\ head' \in 1..MaxHead /\ Upto(head') = Upto(head) \cup {head + 1}
         /\ \A n \in 0..head : n \in 0..head'
         /\ [Flow -> 0..head] \subseteq [Flow -> 0..head']
         /\ [Flow -> SUBSET Upto(head)] \subseteq [Flow -> SUBSET Upto(head')]
<1>1. head' \in 1..MaxHead /\ Upto(head') = Upto(head) \cup {head + 1}
  BY MemoryAssumption DEF TypeOK, Upto
<1>2. 0..head \subseteq 0..head'
  BY DEF TypeOK
<1>3. SUBSET Upto(head) \subseteq SUBSET Upto(head')
  BY <1>1
<1> QED
  BY <1>1, <1>2, <1>3

\* Every step keeps the types.
LEMMA TypeStep == TypeOK /\ [Next]_vars => TypeOK'
<1> SUFFICES ASSUME TypeOK, [Next]_vars PROVE TypeOK'
  OBVIOUS
<1>a. head \in Nat /\ pointer \in Nat /\ Pending \subseteq Upto(head)
  BY DEF TypeOK, Pending
<1>1. CASE Commit
  <2>1. /\ head < MaxHead /\ head' = head + 1
        /\ raced' \subseteq raced \cup {head + 1}
        /\ UNCHANGED <<pointer, flowVars, looked, written, retired>>
    BY <1>1 DEF Commit, NewCommit
  <2> QED
    BY <2>1, UptoNext DEF TypeOK, flowVars
<1>2. CASE Retire
  BY <1>2, <1>a DEF Retire, flowVars, TypeOK
<1>3. CASE UNCHANGED vars
  BY <1>3 DEF vars, flowVars, TypeOK
<1>4. ASSUME NEW f \in Flow, NEW C \in SUBSET Upto(head), NEW n \in 0..head,
             NEW to \in {"review", "slim", "tree"},
             Enter(f, to), Studies(f, C, n),
             UNCHANGED <<head, pointer, written, raced, retired>>
      PROVE  TypeOK'
  BY <1>4 DEF Studies, Enter, TypeOK
<1>5. ASSUME NEW f \in Flow,
             Approve(f) \/ Reject(f) \/ AcceptCommitted(f) \/ BreaksOff(f)
      PROVE  TypeOK'
  BY <1>5 DEF Approve, Reject, AcceptCommitted, BreaksOff, Enter, TypeOK
<1>6. ASSUME NEW f \in Flow, CommitFeature(f)
      PROVE  TypeOK'
  <2>1. /\ head < MaxHead /\ head' = head + 1
        /\ raced' \subseteq raced \cup {head + 1}
        /\ seen' = [seen EXCEPT ![f] = head + 1]
        /\ phase' = [phase EXCEPT ![f] = "committed"]
        /\ UNCHANGED <<pointer, batch, looked, written, retired>>
    BY <1>6 DEF CommitFeature, NewCommit, Enter
  <2>2. head + 1 \in 0..head'
    BY <2>1, <1>a
  <2> QED
    BY <2>1, <2>2, UptoNext DEF TypeOK
<1>7. ASSUME NEW f \in Flow, AcceptTree(f)
      PROVE  TypeOK'
  <2>1. /\ head < MaxHead /\ head' = head + 1
        /\ raced' \subseteq raced \cup {head + 1}
        /\ phase' = [phase EXCEPT ![f] = "cards"]
        /\ batch' = [batch EXCEPT ![f] = batch[f] \cup {head + 1}]
        /\ looked' = looked \cup batch[f] \cup {head + 1}
        /\ UNCHANGED <<pointer, written, retired>>
    BY <1>7 DEF AcceptTree, NewCommit, Enter, Studies
  <2>2. PICK n \in {0, head + 1} : seen' = [seen EXCEPT ![f] = n]
    BY <1>7 DEF AcceptTree, Studies
  <2>3. n \in 0..head'
    BY <2>1, <2>2, <1>a
  <2>4. seen' \in [Flow -> 0..head']
    BY <2>1, <2>2, <2>3, UptoNext DEF TypeOK
  <2>5. batch' \in [Flow -> SUBSET Upto(head')]
    BY <2>1, UptoNext DEF TypeOK
  <2> QED
    BY <2>1, <2>4, <2>5, UptoNext DEF TypeOK
<1>8. ASSUME NEW f \in Flow, WriteCards(f)
      PROVE  TypeOK'
  BY <1>8 DEF WriteCards, Enter, TypeOK
<1>9. ASSUME NEW f \in Flow, Advance(f)
      PROVE  TypeOK'
  BY <1>9 DEF Advance, Enter, TypeOK
<1>10. ASSUME NEW f \in Flow,
              GatherInit(f) \/ GatherRange(f) \/ GatherCommitted(f) \/ GatherTree(f)
       PROVE  TypeOK'
  <2>1. seen[f] \in 0..head /\ head \in 0..head /\ 0 \in 0..head
    BY <1>a DEF TypeOK
  <2>2. CASE GatherInit(f)
    BY <2>2, <2>1, <1>4 DEF GatherInit
  <2>3. CASE GatherRange(f)
    BY <2>3, <2>1, <1>a, <1>4 DEF GatherRange
  <2>4. CASE GatherCommitted(f)
    BY <2>4, <2>1, <1>a, <1>4 DEF GatherCommitted, Evaluate
  <2>5. CASE GatherTree(f)
    BY <2>5, <2>1, <1>a, <1>4 DEF GatherTree, Evaluate
  <2> QED
    BY <1>10, <2>2, <2>3, <2>4, <2>5
<1> QED
  BY <1>1, <1>2, <1>3, <1>5, <1>6, <1>7, <1>8, <1>9, <1>10 DEF Next

\* History only grows, and the pointer and a retirement move in steps of their
\* own.
LEMMA HistoryGrows ==
  ASSUME [Next]_vars
  PROVE  /\ Covered \subseteq Covered' /\ looked \subseteq looked'
         /\ pointer' = pointer \/ \E f \in Flow : Advance(f)
         /\ retired' = retired \/ Retire
<1>1. CASE Commit
  BY <1>1 DEF Commit, NewCommit, flowVars, Covered
<1>2. CASE Retire
  BY <1>2 DEF Retire, flowVars, Covered
<1>3. CASE UNCHANGED vars
  BY <1>3 DEF vars, flowVars, Covered
<1>4. ASSUME NEW f \in Flow, GatherInit(f) \/ GatherRange(f)
                               \/ GatherCommitted(f) \/ GatherTree(f)
      PROVE  /\ Covered \subseteq Covered' /\ looked \subseteq looked'
             /\ UNCHANGED <<pointer, retired>>
  BY <1>4 DEF GatherInit, GatherRange, GatherCommitted, GatherTree, Evaluate,
              Studies, Covered
<1>5. ASSUME NEW f \in Flow, Approve(f) \/ Reject(f) \/ AcceptCommitted(f)
                               \/ BreaksOff(f) \/ WriteCards(f)
      PROVE  /\ Covered \subseteq Covered' /\ looked \subseteq looked'
             /\ UNCHANGED <<pointer, retired>>
  BY <1>5 DEF Approve, Reject, AcceptCommitted, BreaksOff, WriteCards, Covered
<1>6. ASSUME NEW f \in Flow, CommitFeature(f) \/ AcceptTree(f)
      PROVE  /\ Covered \subseteq Covered' /\ looked \subseteq looked'
             /\ UNCHANGED <<pointer, retired>>
  BY <1>6 DEF CommitFeature, AcceptTree, NewCommit, Studies, Covered
<1>7. ASSUME NEW f \in Flow, Advance(f)
      PROVE  /\ Covered \subseteq Covered' /\ looked \subseteq looked'
             /\ UNCHANGED retired
  BY <1>7 DEF Advance, Covered
<1> QED
  BY <1>1, <1>2, <1>3, <1>4, <1>5, <1>6, <1>7 DEF Next

\* A flow that a step leaves alone keeps its promise; a commit made in the
\* meantime is put down as raced.
LEMMA OthersKeep ==
  ASSUME TypeOK, [Next]_vars, NEW g \in Flow, FlowCovers(g),
         phase'[g] = phase[g], seen'[g] = seen[g], batch'[g] = batch[g],
         \/ head' = head
         \/ /\ head < MaxHead /\ head' = head + 1
            /\ phase[g] = "tree" /\ seen[g] > 0 => head + 1 \in raced'
  PROVE  FlowCovers(g)'
<1>1. Covered \subseteq Covered' /\ looked \subseteq looked'
  BY HistoryGrows
<1>2. raced' \subseteq Covered'
  BY DEF Covered
<1>3. phase[g] = "tree" /\ seen[g] > 0 => Upto(head') \subseteq Covered' \cup batch[g]
  BY <1>1, <1>2, UptoNext DEF FlowCovers
<1> QED
  BY <1>1, <1>3 DEF FlowCovers

\* Every step keeps MemoryInv.
LEMMA MemoryInvStep == MemoryInv /\ [Next]_vars => MemoryInv'
<1> SUFFICES ASSUME MemoryInv, [Next]_vars PROVE MemoryInv'
  OBVIOUS
<1>t. TypeOK /\ TypeOK'
  BY TypeStep DEF MemoryInv
<1>c. Upto(pointer) \subseteq Covered /\ Upto(retired) \subseteq Covered
  BY DEF MemoryInv, KnowledgeFirst, RetiredIsMemorized, Covered
<1>g. /\ Covered \subseteq Covered' /\ looked \subseteq looked'
      /\ pointer' = pointer \/ \E f \in Flow : Advance(f)
      /\ retired' = retired \/ Retire
  BY HistoryGrows
<1>f. \A f \in Flow : FlowCovers(f)
  BY DEF MemoryInv
<1>1. KnowledgeFirst'
  <2>1. CASE pointer' = pointer
    BY <2>1, <1>c, <1>g DEF KnowledgeFirst, Covered
  <2>2. ASSUME NEW f \in Flow, Advance(f) PROVE KnowledgeFirst'
    BY <2>2, <1>c, <1>f, <1>g DEF Advance, FlowCovers, KnowledgeFirst, Covered
  <2> QED
    BY <2>1, <2>2, <1>g
<1>2. RetiredIsMemorized'
  <2>1. CASE retired' = retired
    BY <2>1, <1>c, <1>g DEF RetiredIsMemorized, Covered
  <2>2. CASE Retire
    BY <2>2, <1>t, <1>c, PendingCompletes DEF Retire, flowVars, RetiredIsMemorized, Covered
  <2> QED
    BY <2>1, <2>2, <1>g
<1>3. ASSUME NEW g \in Flow PROVE FlowCovers(g)'
  <2>k. FlowCovers(g)
    BY <1>f
  <2>1. CASE Commit
    <3>1. /\ head < MaxHead /\ head' = head + 1 /\ UNCHANGED <<phase, seen, batch>>
          /\ phase[g] = "tree" /\ seen[g] > 0 => head + 1 \in raced'
      BY <2>1 DEF Commit, NewCommit, flowVars
    <3> QED
      BY <3>1, <2>k, <1>t, OthersKeep
  <2>2. CASE Retire \/ UNCHANGED vars
    BY <2>2, <2>k, <1>t, OthersKeep DEF Retire, vars, flowVars
  <2>3. ASSUME NEW f \in Flow, NEW C, NEW n \in 0..head,
               NEW to \in {"review", "slim", "tree"},
               Upto(head) \subseteq Covered \cup C \/ n = 0,
               Enter(f, to), Studies(f, C, n), head' = head
        PROVE  FlowCovers(g)'
    <3>1. CASE g # f
      BY <3>1, <2>3, <2>k, <1>t, OthersKeep DEF Enter, Studies, TypeOK
    <3>2. CASE g = f
      <4>1. /\ phase'[g] = to /\ seen'[g] = n /\ batch'[g] = C
            /\ C \subseteq looked'
        BY <3>2, <2>3, <1>t DEF Enter, Studies, TypeOK
      <4>2. Upto(n) \subseteq Upto(head) /\ Upto(0) = {}
        BY <1>t DEF TypeOK, Upto
      <4> QED
        BY <4>1, <4>2, <2>3, <1>g DEF FlowCovers
    <3> QED
      BY <3>1, <3>2
  <2>4. ASSUME NEW f \in Flow,
               GatherInit(f) \/ GatherRange(f) \/ GatherCommitted(f) \/ GatherTree(f)
        PROVE  FlowCovers(g)'
    <3>1. seen[f] \in 0..head /\ head \in 0..head /\ 0 \in 0..head
      BY <1>t DEF TypeOK
    <3>2. Upto(head) \subseteq Covered \cup Pending
      BY <1>t, <1>c, PendingCompletes
    <3>3. CASE GatherInit(f)
      BY <3>3, <3>1, <2>3 DEF GatherInit
    <3>4. CASE GatherRange(f)
      BY <3>4, <3>1, <3>2, <2>3 DEF GatherRange
    <3>5. CASE GatherCommitted(f)
      BY <3>5, <3>1, <3>2, <2>3 DEF GatherCommitted, Evaluate
    <3>6. CASE GatherTree(f)
      BY <3>6, <3>1, <3>2, <2>3 DEF GatherTree, Evaluate
    <3> QED
      BY <2>4, <3>3, <3>4, <3>5, <3>6
  <2>5. ASSUME NEW f \in Flow, g # f,
               \/ Approve(f) \/ Reject(f) \/ AcceptCommitted(f) \/ BreaksOff(f)
               \/ WriteCards(f) \/ Advance(f)
        PROVE  FlowCovers(g)'
    BY <2>5, <2>k, <1>t, OthersKeep
       DEF Approve, Reject, AcceptCommitted, BreaksOff, WriteCards, Advance, Enter, TypeOK
  <2>6. CASE Approve(g) \/ Reject(g) \/ AcceptCommitted(g) \/ BreaksOff(g) \/ Advance(g)
    <3>1. /\ phase'[g] \in {"idle", "cards"} /\ UNCHANGED <<seen, batch>>
          /\ phase'[g] = "cards" => phase[g] \in {"review", "slim"}
      BY <2>6, <1>t DEF Approve, Reject, AcceptCommitted, BreaksOff, Advance, Enter, TypeOK
    <3> QED
      BY <3>1, <2>k, <1>g DEF FlowCovers
  <2>7. CASE WriteCards(g)
    <3>1. phase'[g] = "advance" /\ UNCHANGED <<seen, batch, looked, raced>>
      BY <2>7, <1>t DEF WriteCards, Enter, TypeOK
    <3>2. batch[g] \subseteq Covered' /\ phase[g] = "cards"
      BY <2>7, <2>k DEF WriteCards, FlowCovers, Covered
    <3> QED
      BY <3>1, <3>2, <2>k, <1>g DEF FlowCovers
  <2>8. ASSUME NEW f \in Flow, g # f, CommitFeature(f) \/ AcceptTree(f)
        PROVE  FlowCovers(g)'
    <3>1. /\ head < MaxHead /\ head' = head + 1
          /\ phase[g] = "tree" /\ seen[g] > 0 => head + 1 \in raced'
      BY <2>8 DEF CommitFeature, AcceptTree, NewCommit
    <3>2. phase'[g] = phase[g] /\ seen'[g] = seen[g] /\ batch'[g] = batch[g]
      BY <2>8, <1>t DEF CommitFeature, AcceptTree, Enter, Studies, TypeOK
    <3> QED
      BY <3>1, <3>2, <2>k, <1>t, OthersKeep
  <2>9. CASE CommitFeature(g)
    <3>1. phase'[g] = "committed" /\ UNCHANGED <<batch, looked>>
      BY <2>9, <1>t DEF CommitFeature, Enter, TypeOK
    <3> QED
      BY <3>1, <2>k DEF FlowCovers
  <2>10. CASE AcceptTree(g)
    <3>1. /\ phase[g] = "tree" /\ head < MaxHead /\ head' = head + 1
          /\ phase'[g] = "cards"
          /\ batch'[g] = batch[g] \cup {head + 1}
          /\ seen'[g] = IF seen[g] = 0 THEN 0 ELSE head + 1
          /\ looked' = looked \cup batch[g] \cup {head + 1}
      BY <2>10, <1>t DEF AcceptTree, NewCommit, Enter, Studies, TypeOK
    <3>2. Upto(0) = {} /\ Upto(head') = Upto(head) \cup {head + 1}
      BY <3>1, <1>t, UptoNext DEF Upto
    <3>3. seen[g] > 0 => Upto(head) \subseteq Covered' \cup batch[g]
      BY <3>1, <2>k, <1>g DEF FlowCovers
    <3>4. seen[g] = 0 \/ seen[g] > 0
      BY <1>t DEF TypeOK
    <3>5. Upto(seen'[g]) \subseteq Covered' \cup batch'[g]
      BY <3>1, <3>2, <3>3, <3>4
    <3> QED
      BY <3>1, <3>5 DEF FlowCovers
  <2> QED
    BY <2>1, <2>2, <2>4, <2>5, <2>6, <2>7, <2>8, <2>9, <2>10 DEF Next
<1> QED
  BY <1>t, <1>1, <1>2, <1>3 DEF MemoryInv

-----------------------------------------------------------------------------

\* MemoryInv holds of every behaviour.
LEMMA MemoryInvAlways == Spec => []MemoryInv
BY MemoryInvInit, MemoryInvStep, PTL DEF Spec

\* The pointer is a commit of the branch, and so is what every flow holds on to.
THEOREM PointerTyped == Spec => []TypeOK
<1>1. MemoryInv => TypeOK
  BY DEF MemoryInv
<1> QED
  BY <1>1, MemoryInvAlways, PTL

\* The pointer never passes a commit whose study is not on disk, raced ones
\* apart, however many flows overlap, crash or apply late (apply-review, memorize),
\* if an acceptance asks for the advance as its skill tells it to.
THEOREM PointerRule == Spec => []KnowledgeFirst
<1>1. MemoryInv => KnowledgeFirst
  BY DEF MemoryInv
<1> QED
  BY <1>1, MemoryInvAlways, PTL

\* The gate of memorize_on_retire does what it is for (retire-plan).
THEOREM RetirementWaits == Spec => []RetiredIsMemorized
<1>1. MemoryInv => RetiredIsMemorized
  BY DEF MemoryInv
<1> QED
  BY <1>1, MemoryInvAlways, PTL
=============================================================================
