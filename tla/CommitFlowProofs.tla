--------------------------- MODULE CommitFlowProofs ---------------------------
(***************************************************************************)
(* Proofs about CommitFlow for every set of features, every depends_on     *)
(* lists and batches of any two of them, and the step simulation that      *)
(* makes the committing operations an implementation of FeatureBundle.     *)
(***************************************************************************)
EXTENDS CommitFlow, SequenceTheorems, TLAPS

Entries(todo) == {todo[i] : i \in DOMAIN todo}

-----------------------------------------------------------------------------
(***************************************************************************)
(* The inductive invariant, part by part.                                  *)
(***************************************************************************)

\* While an operation is under way, it has left the default branch and reports
\* nothing.
UnderWay == op # Idle => branch = "work" /\ result = "none"

\* A commit is always that of the first feature to come.  The first of a batch
\* is dealt with first, and once only.
TodoInv ==
  /\ op.at = "commit" => op.name # "idle" /\ op.todo # <<>>
  /\ op.todo # <<>> => op.first \notin Entries(Tail(op.todo))

\* The stray file that a batch is to absorb is still there when its first
\* feature is staged.
StrayInv ==
  /\ op.at = "bootstrap" => ~op.stray
  /\ op.at = "next" /\ op.stray /\ op.todo # <<>> /\ Head(op.todo) = op.first
       => Stray \in dirty

\* Between two features of a batch nothing is staged, if there is one to stage;
\* before its commit, what is staged is the feature's own or belongs to nobody.
IndexInv ==
  /\ op.at = "bootstrap" => index = {Stray}
  /\ op.at = "next" /\ (\E f \in Entries(op.todo) \ op.slim : status[f] # "done")
       => index = {}
  /\ op.at = "commit" /\ op.name # "commit-tests"
       => index \subseteq {Head(op.todo), Stray}

\* The features of an accepted batch stay acceptable until it is their turn.
Acceptable(f) == CanTransition(status[f], "done") /\ WaitingOn(f) = {}

Accepting ==
  \/ op.at \in {"bootstrap", "next"}
  \/ op.at = "commit" /\ op.name = "accept-commit"

AcceptInv ==
  Accepting => \A f \in Entries(op.todo) : status[f] # "done" => Acceptable(f)

\* What an operation is to record exists.
MadeInv == op.made \subseteq trailers

CommitInv ==
  /\ TypeOK
  /\ UnderWay /\ TodoInv /\ StrayInv /\ IndexInv /\ AcceptInv /\ MadeInv
  /\ CommitsArePure /\ RecordedIsReal /\ SuccessIsCommitted

-----------------------------------------------------------------------------
(***************************************************************************)
(* Sequences of features to come.                                          *)
(***************************************************************************)

\* The first of the features to come is one of them, and so are the others.
LEMMA HeadAndTail ==
  ASSUME NEW todo \in Seq(Feature), todo # <<>>
  PROVE  /\ Head(todo) \in Entries(todo) /\ Head(todo) \in Feature
         /\ Tail(todo) \in Seq(Feature)
         /\ Entries(Tail(todo)) \subseteq Entries(todo)
<1>1. /\ Tail(todo) \in Seq(Feature)
      /\ Len(Tail(todo)) = Len(todo) - 1
      /\ \A i \in 1..Len(Tail(todo)) : Tail(todo)[i] = todo[i + 1]
  BY HeadTailProperties
<1>2. Len(todo) \in Nat /\ Len(todo) > 0 /\ Head(todo) = todo[1]
  BY EmptySeq
<1>3. DOMAIN todo = 1..Len(todo) /\ DOMAIN Tail(todo) = 1..Len(Tail(todo))
  BY <1>1
<1>4. Entries(Tail(todo)) \subseteq Entries(todo)
  BY <1>1, <1>2, <1>3 DEF Entries
<1> QED
  BY <1>1, <1>2, <1>3, <1>4 DEF Entries

LEMMA EntriesAreFeatures ==
  ASSUME NEW todo \in Seq(Feature)
  PROVE  Entries(todo) \in SUBSET Feature
BY DEF Entries

\* A batch names each of its features once.
LEMMA BatchesAreSound ==
  ASSUME NEW batch \in Batches
  PROVE  /\ batch \in Seq(Feature) /\ batch # <<>>
         /\ batch[1] = Head(batch) /\ batch[1] \in Feature
         /\ batch[1] \notin Entries(Tail(batch))
<1>1. CASE \E f \in Feature : batch = <<f>>
  <2>1. Tail(batch) = <<>>
    BY <1>1
  <2> QED
    BY <1>1, <2>1 DEF Entries
<1>2. CASE \E f \in Feature, g \in Feature : f # g /\ batch = <<f, g>>
  <2>1. PICK f \in Feature, g \in Feature : f # g /\ batch = <<f, g>>
    BY <1>2
  <2>2. Tail(batch) = <<g>>
    BY <2>1
  <2> QED
    BY <2>1, <2>2 DEF Entries
<1> QED
  BY <1>1, <1>2 DEF Batches

-----------------------------------------------------------------------------
(***************************************************************************)
(* The steps between operations, and those that begin or end one.          *)
(***************************************************************************)

\* What is said of an operation under way says nothing when there is none.
LEMMA IdleKeeps ==
  ASSUME op' = Idle
  PROVE  UnderWay' /\ TodoInv' /\ StrayInv' /\ IndexInv' /\ AcceptInv'
         /\ MadeInv' /\ CommitsArePure'
<1>1. /\ op'.at = "end" /\ op'.name = "idle" /\ op'.todo = <<>> /\ op'.made = {}
      /\ op'.head.kind = "none"
  BY DEF Idle, NoCommit
<1> QED
  BY <1>1
  DEF UnderWay, TodoInv, StrayInv, IndexInv, AcceptInv, Accepting, MadeInv, CommitsArePure

LEMMA IdleIsTyped == Idle \in Operations
<1>1. NoCommit \in Commits /\ <<>> \in Seq(Feature)
  BY DEF NoCommit, Commits
<1> QED
  BY <1>1 DEF Idle, Operations

\* How commit-feature and commit-tests begin.
LEMMA Beginning ==
  ASSUME NEW name \in {"commit-feature", "commit-tests"}, NEW f \in Feature
  PROVE  LET o == [Idle EXCEPT !.name = name, !.at = "commit", !.todo = <<f>>]
         IN  /\ o.name = name /\ o.at = "commit" /\ o.todo = <<f>>
             /\ o.first = None /\ o.stray = FALSE
             /\ o.made = {} /\ o.head = NoCommit
             /\ o \in Operations
<1> DEFINE o == [Idle EXCEPT !.name = name, !.at = "commit", !.todo = <<f>>]
<1>1. Idle \in Operations /\ <<f>> \in Seq(Feature)
  BY IdleIsTyped
<1>2. /\ o.name = name /\ o.at = "commit" /\ o.todo = <<f>>
      /\ o.first = Idle.first /\ o.stray = Idle.stray
      /\ o.made = Idle.made /\ o.head = Idle.head
  BY <1>1 DEF Operations
<1>3. o \in Operations
  BY <1>1 DEF Operations
<1> QED
  BY <1>2, <1>3 DEF Idle

LEMMA InitCommitInv == Init => CommitInv
<1> SUFFICES ASSUME Init PROVE CommitInv
  OBVIOUS
<1>1. op = Idle /\ op \in Operations /\ op.name = "idle"
  BY IdleIsTyped DEF Init, Idle
<1>2. TypeOK
  BY <1>1 DEF Init, TypeOK, FeatureStatuses
<1>3. /\ op.at = "end" /\ op.todo = <<>> /\ op.made = {} /\ op.head.kind = "none"
  BY <1>1 DEF Idle, NoCommit
<1> QED
  BY <1>1, <1>2, <1>3
  DEF Init, CommitInv, UnderWay, TodoInv, StrayInv, IndexInv, AcceptInv, Accepting,
      MadeInv, CommitsArePure, RecordedIsReal, SuccessIsCommitted

LEMMA BetweenKeeps ==
  ASSUME CommitInv,
         \/ \E p \in File : Edit(p) \/ Stage(p)
         \/ ReturnToMain
         \/ \E f \in Feature : RestartFeature(f)
  PROVE  CommitInv'
<1>1. op = Idle /\ op' = Idle /\ result' = "none" /\ promised' = {}
  BY DEF Between, Edit, Stage, ReturnToMain, RestartFeature
<1>2. UNCHANGED <<recorded, trailers, surface>>
  BY DEF Edit, Stage, ReturnToMain, RestartFeature, documents
<1>3. /\ status' \in [Feature -> FeatureStatuses]
      /\ clean' \in BOOLEAN /\ branch' \in {"main", "work"}
  BY DEF CommitInv, TypeOK, Edit, Stage, ReturnToMain, RestartFeature, documents,
         FeatureStatuses
<1>4. dirty' \in SUBSET File /\ index' \in SUBSET dirty'
  BY DEF CommitInv, TypeOK, Edit, Stage, ReturnToMain, RestartFeature
<1>5. TypeOK'
  BY <1>1, <1>2, <1>3, <1>4, IdleIsTyped DEF CommitInv, TypeOK
<1>6. RecordedIsReal' /\ SuccessIsCommitted'
  BY <1>1, <1>2 DEF CommitInv, RecordedIsReal, SuccessIsCommitted
<1> QED
  BY <1>1, <1>5, <1>6, IdleKeeps DEF CommitInv

\* What every operation shares when it begins.
LEMMA OffDefaultIsWork == branch \in {"main", "work"} => OffDefault(branch) = "work"
BY DEF OffDefault

LEMMA CommitFeatureKeeps ==
  ASSUME CommitInv, NEW f \in Feature, NEW named \in SUBSET {Stray},
         CommitFeature(f, named)
  PROVE  CommitInv'
<1>1. /\ op'.name = "commit-feature" /\ op'.at = "commit" /\ op'.todo = <<f>>
      /\ op'.first = None /\ op'.stray = FALSE
      /\ op'.made = {} /\ op'.head = NoCommit
      /\ op' \in Operations
  <2>1. op' = [Idle EXCEPT !.name = "commit-feature", !.at = "commit", !.todo = <<f>>]
    BY DEF CommitFeature, Begins
  <2> QED
    BY <2>1, Beginning
<1>2. result' = "none" /\ promised' = {} /\ branch' = "work"
  BY OffDefaultIsWork DEF CommitFeature, Begins, CommitInv, TypeOK
<1>3. /\ index' \subseteq {f, Stray} /\ index' \subseteq dirty
      /\ UNCHANGED <<recorded, dirty, trailers, surface>>
      /\ clean' = FALSE
  BY DEF CommitFeature, Restaged
<1>4. status' \in [Feature -> FeatureStatuses]
  BY DEF CommitFeature, CommitInv, TypeOK, FeatureStatuses
<1>5. Head(op'.todo) = f /\ Tail(op'.todo) = <<>> /\ op'.todo # <<>>
  BY <1>1
<1>6. Entries(Tail(op'.todo)) = {}
  BY <1>5 DEF Entries
<1>7. TypeOK'
  <2>1. op' # Idle
    BY <1>1 DEF Idle
  <2> QED
    BY <1>1, <1>2, <1>3, <1>4, <2>1 DEF CommitInv, TypeOK
<1>8. op'.head.kind = "none" /\ op' # Idle
  BY <1>1 DEF NoCommit, Idle
<1>9. /\ UnderWay' /\ TodoInv' /\ StrayInv' /\ IndexInv' /\ AcceptInv' /\ MadeInv'
      /\ CommitsArePure'
  BY <1>1, <1>2, <1>3, <1>5, <1>6, <1>8
  DEF UnderWay, TodoInv, StrayInv, IndexInv, AcceptInv, Accepting, MadeInv,
      CommitsArePure
<1> QED
  BY <1>2, <1>3, <1>7, <1>9 DEF CommitInv, RecordedIsReal, SuccessIsCommitted

LEMMA CommitTestsKeeps ==
  ASSUME CommitInv, NEW f \in Feature, CommitTests(f)
  PROVE  CommitInv'
<1>1. /\ op'.name = "commit-tests" /\ op'.at = "commit" /\ op'.todo = <<f>>
      /\ op'.first = None /\ op'.stray = FALSE
      /\ op'.made = {} /\ op'.head = NoCommit
      /\ op' \in Operations
  <2>1. op' = [Idle EXCEPT !.name = "commit-tests", !.at = "commit", !.todo = <<f>>]
    BY DEF CommitTests, Begins
  <2> QED
    BY <2>1, Beginning
<1>2. /\ result' = "none" /\ promised' = {} /\ branch' = "work"
      /\ clean' = FALSE
      /\ UNCHANGED <<documents, dirty, index, trailers, surface>>
  BY OffDefaultIsWork DEF CommitTests, Begins, CommitInv, TypeOK
<1>3. op' # Idle /\ op'.head.kind = "none"
  BY <1>1 DEF Idle, NoCommit
<1>4. Entries(Tail(op'.todo)) = {} /\ op'.todo # <<>>
  <2>1. Tail(op'.todo) = <<>> /\ op'.todo # <<>>
    BY <1>1
  <2> QED
    BY <2>1 DEF Entries
<1>5. TypeOK'
  BY <1>1, <1>2, <1>3 DEF CommitInv, TypeOK, documents
<1>6. /\ UnderWay' /\ TodoInv' /\ StrayInv' /\ IndexInv' /\ AcceptInv' /\ MadeInv'
      /\ CommitsArePure'
  BY <1>1, <1>2, <1>3, <1>4
  DEF UnderWay, TodoInv, StrayInv, IndexInv, AcceptInv, Accepting, MadeInv,
      CommitsArePure
<1> QED
  BY <1>2, <1>5, <1>6 DEF CommitInv, RecordedIsReal, SuccessIsCommitted, documents

LEMMA AcceptCommitKeeps ==
  ASSUME CommitInv, NEW batch \in Batches, AcceptCommit(batch)
  PROVE  CommitInv'
<1> DEFINE entries  == Entries(batch)
           slim     == {f \in entries : HasCommits(f)}
           stages   == \E f \in entries \ slim : status[f] # "done"
           baseline == stages /\ Stray \in index
           shown    == {f \in entries : ReviewShows(f) = "working-tree"}
           start    == [Idle EXCEPT
                          !.name = "accept-commit",
                          !.at = IF baseline THEN "bootstrap" ELSE "next",
                          !.todo = batch,
                          !.slim = slim,
                          !.shown = shown,
                          !.first = batch[1],
                          !.stray = stages /\ Stray \in dirty \ index]
<1>1. /\ batch \in Seq(Feature) /\ batch # <<>>
      /\ batch[1] = Head(batch) /\ batch[1] \in Feature
      /\ batch[1] \notin Entries(Tail(batch))
      /\ entries \in SUBSET Feature
  BY BatchesAreSound, EntriesAreFeatures
<1>2. /\ op = Idle /\ op' = start /\ result' = "none" /\ promised' = {}
      /\ branch' = "work"
      /\ \A f \in entries : status[f] # "done" => Acceptable(f)
      /\ index' = IF baseline THEN {Stray} ELSE IF stages THEN {} ELSE index
      /\ UNCHANGED <<status, recorded, clean, dirty, trailers, surface>>
  BY OffDefaultIsWork
  DEF AcceptCommit, Begins, CommitInv, TypeOK, Entries, Acceptable, documents
<1>3. /\ op'.name = "accept-commit"
      /\ op'.at = IF baseline THEN "bootstrap" ELSE "next"
      /\ op'.todo = batch /\ op'.slim = slim /\ op'.first = batch[1]
      /\ op'.stray = (stages /\ Stray \in dirty \ index)
      /\ op'.made = {} /\ op'.head = NoCommit
  <2> HIDE DEF slim, stages, baseline, shown
  <2>1. /\ start.name = "accept-commit"
        /\ start.at = IF baseline THEN "bootstrap" ELSE "next"
        /\ start.todo = batch /\ start.slim = slim /\ start.first = batch[1]
        /\ start.stray = (stages /\ Stray \in dirty \ index)
        /\ start.made = Idle.made /\ start.head = Idle.head
    BY IdleIsTyped DEF Operations
  <2> QED
    BY <1>2, <2>1 DEF Idle
<1>4. op' \in Operations
  <2>1. slim \in SUBSET Feature /\ shown \in SUBSET Feature
    BY <1>1
  <2>2. (stages /\ Stray \in dirty \ index) \in BOOLEAN
    OBVIOUS
  <2> HIDE DEF slim, stages, baseline, shown
  <2> QED
    BY <1>1, <1>2, <2>1, <2>2, IdleIsTyped DEF Operations
<1> HIDE DEF start
<1>5. op' # Idle /\ op'.head.kind = "none"
  BY <1>3 DEF Idle, NoCommit
<1>6. index' \subseteq dirty'
  BY <1>2 DEF CommitInv, TypeOK
<1>7. TypeOK'
  BY <1>2, <1>3, <1>4, <1>5, <1>6 DEF CommitInv, TypeOK
<1>8. UnderWay' /\ TodoInv' /\ MadeInv' /\ CommitsArePure'
  BY <1>1, <1>2, <1>3, <1>5 DEF UnderWay, TodoInv, MadeInv, CommitsArePure
<1>9. StrayInv'
  BY <1>2, <1>3 DEF StrayInv
<1>10. IndexInv'
  BY <1>2, <1>3 DEF IndexInv
<1>11. AcceptInv'
  BY <1>2, <1>3 DEF AcceptInv, Accepting, Acceptable, WaitingOn
<1> QED
  BY <1>2, <1>7, <1>8, <1>9, <1>10, <1>11
  DEF CommitInv, RecordedIsReal, SuccessIsCommitted

-----------------------------------------------------------------------------
(***************************************************************************)
(* The steps of an operation under way.                                    *)
(***************************************************************************)

\* An operation that goes on keeps its name and what it settled.
GoesOn ==
  /\ op # Idle /\ op' \in Operations
  /\ op'.name = op.name /\ op'.slim = op.slim
  /\ op'.first = op.first /\ op'.stray = op.stray

LEMMA GoingOn ==
  ASSUME CommitInv, GoesOn, UNCHANGED <<branch, result>>
  PROVE  /\ op' # Idle /\ (op'.name = "idle" <=> op' = Idle)
         /\ UnderWay'
<1>1. op.name # "idle" /\ Idle.name = "idle"
  BY DEF CommitInv, TypeOK, GoesOn, Idle
<1> QED
  BY <1>1 DEF CommitInv, GoesOn, UnderWay

\* Features that become done leave the others acceptable.
LEMMA AcceptableStays ==
  ASSUME TypeOK, NEW f \in Feature, NEW g \in Feature,
         Acceptable(f), f # g,
         status' = [status EXCEPT ![g] = "done"]
  PROVE  Acceptable(f)'
<1>1. status'[f] = status[f]
  BY DEF TypeOK
<1>2. \A d \in Feature : status[d] = "done" => status'[d] = "done"
  BY DEF TypeOK
<1> QED
  BY <1>1, <1>2
  DEF Acceptable, WaitingOn, SatisfiedSet, DepSatisfied, CanTransition

LEMMA BootstrapKeeps ==
  ASSUME CommitInv, Bootstrap
  PROVE  CommitInv'
<1>1. /\ op.at = "bootstrap" /\ op \in Operations /\ op # Idle /\ index = {Stray}
      /\ ~op.stray
  BY DEF CommitInv, TypeOK, Bootstrap, IndexInv, StrayInv, Idle
<1>2. NewHead("bootstrap", None) \in Commits
  BY DEF NewHead, Commits, CommitInv, TypeOK
<1>3. /\ op'.at = "next" /\ op'.head = NewHead("bootstrap", None)
      /\ op'.todo = op.todo /\ op'.made = op.made
      /\ GoesOn
  BY <1>1, <1>2 DEF Bootstrap, Operations, GoesOn
<1>4. /\ dirty' = dirty \ index /\ index' = {}
      /\ UNCHANGED <<status, recorded, clean, branch, trailers, surface, result, promised>>
  BY DEF Bootstrap, IndexCommitted, documents
<1>5. TypeOK'
  BY <1>3, <1>4, GoingOn DEF CommitInv, TypeOK, GoesOn
<1>6. op'.head.kind = "bootstrap"
  BY <1>3 DEF NewHead
<1>7. TodoInv' /\ StrayInv' /\ IndexInv' /\ MadeInv' /\ CommitsArePure'
  BY <1>1, <1>3, <1>4, <1>6
  DEF GoesOn, CommitInv, TodoInv, StrayInv, IndexInv, MadeInv, CommitsArePure
<1>8. AcceptInv'
  <2>1. \A f \in Entries(op.todo) : status[f] # "done" => Acceptable(f)
    BY <1>1 DEF CommitInv, AcceptInv, Accepting
  <2> QED
    BY <1>3, <1>4, <2>1 DEF AcceptInv, Acceptable, WaitingOn
<1> QED
  BY <1>3, <1>4, <1>5, <1>7, <1>8, GoingOn
  DEF CommitInv, RecordedIsReal, SuccessIsCommitted

LEMMA SkipDoneKeeps ==
  ASSUME CommitInv, SkipDone
  PROVE  CommitInv'
<1>1. /\ op.at = "next" /\ op \in Operations /\ op # Idle
      /\ op.todo \in Seq(Feature) /\ op.todo # <<>>
      /\ Tail(op.todo) \in Seq(Feature)
      /\ Entries(Tail(op.todo)) \subseteq Entries(op.todo)
  BY HeadAndTail DEF CommitInv, TypeOK, SkipDone, Idle, Operations
<1>2. /\ op'.at = "next" /\ op'.todo = Tail(op.todo) /\ op'.made = op.made
      /\ op'.head = op.head
      /\ GoesOn
  BY <1>1 DEF SkipDone, Operations, GoesOn
<1>3. UNCHANGED <<status, recorded, clean, branch, dirty, index, trailers, surface,
                  result, promised>>
  BY DEF SkipDone, documents, git
<1>4. TypeOK'
  BY <1>2, <1>3, GoingOn DEF CommitInv, TypeOK, GoesOn
<1>5. op'.todo # <<>> => /\ op'.first \notin Entries(Tail(op'.todo))
                         /\ Head(op'.todo) # op'.first
  BY <1>1, <1>2, HeadAndTail DEF CommitInv, TodoInv, GoesOn
<1>6. TodoInv' /\ StrayInv' /\ MadeInv' /\ CommitsArePure'
  BY <1>2, <1>3, <1>5
  DEF GoesOn, CommitInv, TodoInv, StrayInv, MadeInv, CommitsArePure
<1>7. IndexInv'
  BY <1>1, <1>2, <1>3 DEF GoesOn, CommitInv, IndexInv
<1>8. AcceptInv'
  <2>1. \A f \in Entries(op.todo) : status[f] # "done" => Acceptable(f)
    BY <1>1 DEF CommitInv, AcceptInv, Accepting
  <2> QED
    BY <1>1, <1>2, <1>3, <2>1 DEF AcceptInv, Acceptable, WaitingOn
<1> QED
  BY <1>2, <1>3, <1>4, <1>6, <1>7, <1>8, GoingOn
  DEF CommitInv, RecordedIsReal, SuccessIsCommitted

\* The feature whose turn it is has not been dealt with, and comes only once,
\* or is skipped the second time.
LEMMA SlimAcceptKeeps ==
  ASSUME CommitInv, SlimAccept
  PROVE  CommitInv'
<1> DEFINE f == Head(op.todo)
<1>1. /\ op.at = "next" /\ op \in Operations /\ op # Idle
      /\ op.todo \in Seq(Feature) /\ op.todo # <<>>
      /\ f \in Feature /\ f \in Entries(op.todo)
      /\ Tail(op.todo) \in Seq(Feature)
      /\ Entries(Tail(op.todo)) \subseteq Entries(op.todo)
  BY HeadAndTail DEF CommitInv, TypeOK, SlimAccept, Idle, Operations
<1>2. /\ op'.at = "next" /\ op'.todo = Tail(op.todo) /\ op'.made = op.made
      /\ op'.head = op.head
      /\ GoesOn
  BY <1>1 DEF SlimAccept, Operations, GoesOn
<1>3. /\ status' = [status EXCEPT ![f] = "done"]
      /\ clean' = FALSE
      /\ UNCHANGED <<recorded, branch, dirty, index, trailers, surface, result,
                     promised>>
  BY DEF SlimAccept
<1>4. /\ status' \in [Feature -> FeatureStatuses]
      /\ \A g \in Feature : status'[g] = IF g = f THEN "done" ELSE status[g]
  BY <1>1, <1>3 DEF CommitInv, TypeOK, FeatureStatuses
<1>5. TypeOK'
  BY <1>2, <1>3, <1>4, GoingOn DEF CommitInv, TypeOK, GoesOn
<1>6. op'.todo # <<>> => /\ op'.first \notin Entries(Tail(op'.todo))
                         /\ Head(op'.todo) # op'.first
  BY <1>1, <1>2, HeadAndTail DEF CommitInv, TodoInv, GoesOn
<1>7. TodoInv' /\ StrayInv' /\ MadeInv' /\ CommitsArePure'
  BY <1>2, <1>3, <1>6
  DEF GoesOn, CommitInv, TodoInv, StrayInv, MadeInv, CommitsArePure
<1>8. IndexInv'
  <2>1. ASSUME NEW g \in Entries(op'.todo) \ op'.slim, status'[g] # "done"
        PROVE  g \in Entries(op.todo) \ op.slim /\ status[g] # "done"
    BY <1>1, <1>2, <1>4, <2>1, EntriesAreFeatures DEF GoesOn
  <2> QED
    BY <1>1, <1>2, <1>3, <2>1 DEF CommitInv, IndexInv
<1>9. AcceptInv'
  <2>1. ASSUME NEW g \in Entries(op'.todo), status'[g] # "done"
        PROVE  Acceptable(g)'
    <3>1. /\ g \in Entries(op.todo) /\ g \in Feature /\ g # f
          /\ status[g] # "done"
      BY <1>1, <1>2, <1>4, <2>1, EntriesAreFeatures
    <3>2. Acceptable(g)
      BY <1>1, <3>1 DEF CommitInv, AcceptInv, Accepting
    <3> QED
      BY <1>1, <1>3, <3>1, <3>2, AcceptableStays DEF CommitInv
  <2> QED
    BY <2>1 DEF AcceptInv
<1> QED
  BY <1>2, <1>3, <1>5, <1>7, <1>8, <1>9, GoingOn
  DEF CommitInv, RecordedIsReal, SuccessIsCommitted

LEMMA StageAcceptKeeps ==
  ASSUME CommitInv, StageAccept
  PROVE  CommitInv'
<1> DEFINE f == Head(op.todo)
<1>1. /\ op.at = "next" /\ op \in Operations /\ op # Idle /\ op.name # "idle"
      /\ op.todo \in Seq(Feature) /\ op.todo # <<>>
      /\ f \in Feature /\ f \in Entries(op.todo)
      /\ f \notin op.slim /\ status[f] # "done"
  BY HeadAndTail DEF CommitInv, TypeOK, StageAccept, Idle, Operations
<1>2. /\ op'.at = "commit" /\ op'.todo = op.todo /\ op'.made = op.made
      /\ op'.head = op.head
      /\ GoesOn
  BY <1>1 DEF StageAccept, Operations, GoesOn
<1>3. /\ status' = [status EXCEPT ![f] = "done"]
      /\ index' = index \cup ({f} \cap dirty)
                        \cup {p \in {Stray} : op.stray /\ f = op.first}
      /\ clean' = FALSE
      /\ UNCHANGED <<recorded, branch, dirty, trailers, surface, result, promised>>
  BY DEF StageAccept
<1>4. index = {}
  BY <1>1 DEF CommitInv, IndexInv
<1>5. index' \subseteq dirty' /\ index' \subseteq {f, Stray}
  BY <1>1, <1>3, <1>4 DEF CommitInv, StrayInv
<1>6. status' \in [Feature -> FeatureStatuses]
  BY <1>1, <1>3 DEF CommitInv, TypeOK, FeatureStatuses
<1>7. TypeOK'
  BY <1>2, <1>3, <1>5, <1>6, GoingOn DEF CommitInv, TypeOK, GoesOn
<1>8. TodoInv' /\ StrayInv' /\ IndexInv' /\ MadeInv' /\ CommitsArePure'
  BY <1>1, <1>2, <1>3, <1>5
  DEF GoesOn, CommitInv, TodoInv, StrayInv, IndexInv, MadeInv, CommitsArePure
<1>9. AcceptInv'
  <2>1. ASSUME NEW g \in Entries(op'.todo), status'[g] # "done"
        PROVE  Acceptable(g)'
    <3>1. g \in Entries(op.todo) /\ g \in Feature
      BY <1>1, <1>2, EntriesAreFeatures
    <3>2. g # f /\ status[g] # "done"
      BY <1>3, <2>1, <3>1 DEF CommitInv, TypeOK
    <3>3. Acceptable(g)
      BY <1>1, <3>1, <3>2 DEF CommitInv, AcceptInv, Accepting
    <3> QED
      BY <1>1, <1>3, <3>1, <3>2, <3>3, AcceptableStays DEF CommitInv
  <2> QED
    BY <2>1 DEF AcceptInv
<1> QED
  BY <1>2, <1>3, <1>7, <1>8, <1>9, GoingOn
  DEF CommitInv, RecordedIsReal, SuccessIsCommitted

LEMMA GitCommitKeeps ==
  ASSUME CommitInv, GitCommit
  PROVE  CommitInv'
<1> DEFINE f == Head(op.todo)
<1>1. /\ op.at = "commit" /\ op \in Operations /\ op # Idle /\ op.name # "idle"
      /\ op.todo \in Seq(Feature) /\ op.todo # <<>>
      /\ f \in Feature
      /\ Tail(op.todo) \in Seq(Feature)
      /\ Entries(Tail(op.todo)) \subseteq Entries(op.todo)
  BY HeadAndTail DEF CommitInv, TypeOK, TodoInv, GitCommit, Idle, Operations
<1>2. NewHead(KindOf(op.name), f) \in Commits
  BY <1>1 DEF NewHead, KindOf, Commits, CommitInv, TypeOK
<1>3. /\ op'.at = IF op.name = "accept-commit" THEN "next" ELSE "record"
      /\ op'.todo = IF op.name = "accept-commit" THEN Tail(op.todo) ELSE op.todo
      /\ op'.made = op.made \cup {f}
      /\ op'.head = NewHead(KindOf(op.name), f)
      /\ GoesOn
  BY <1>1, <1>2 DEF GitCommit, Operations, GoesOn
<1>4. /\ dirty' = dirty \ index /\ index' = {}
      /\ trailers' = trailers \cup {f}
      /\ surface' = [surface EXCEPT ![f] = @ \cup index]
      /\ clean' = TRUE
      /\ UNCHANGED <<status, recorded, branch, result, promised>>
  BY DEF GitCommit, IndexCommitted, documents
<1>5. surface' \in [Feature -> SUBSET File] /\ trailers' \in SUBSET Feature
  BY <1>1, <1>4 DEF CommitInv, TypeOK
<1>6. TypeOK'
  BY <1>3, <1>4, <1>5, GoingOn DEF CommitInv, TypeOK, GoesOn
<1>7. op'.todo # <<>> => op'.first \notin Entries(Tail(op'.todo))
  BY <1>1, <1>3, HeadAndTail DEF CommitInv, TodoInv, GoesOn
<1>8. op'.at = "next" /\ op'.todo # <<>> => Head(op'.todo) # op'.first
  BY <1>1, <1>3, HeadAndTail DEF CommitInv, TodoInv, GoesOn
<1>9. TodoInv' /\ StrayInv' /\ IndexInv' /\ MadeInv'
  BY <1>3, <1>4, <1>7, <1>8
  DEF CommitInv, TodoInv, StrayInv, IndexInv, MadeInv
<1>10. AcceptInv'
  <2>1. CASE op.name = "accept-commit"
    <3>1. \A g \in Entries(op'.todo) : status[g] # "done" => Acceptable(g)
      BY <1>1, <1>3, <2>1 DEF CommitInv, AcceptInv, Accepting
    <3> QED
      BY <1>4, <3>1 DEF AcceptInv, Acceptable, WaitingOn
  <2>2. CASE op.name # "accept-commit"
    BY <1>3, <2>2 DEF AcceptInv, Accepting, GoesOn
  <2> QED
    BY <2>1, <2>2
<1>11. CommitsArePure'
  <2>1. op'.head.kind = KindOf(op.name) /\ op'.head.feature = f /\ op'.head.files = index
    BY <1>3 DEF NewHead
  <2> QED
    BY <1>1, <2>1 DEF CommitsArePure, KindOf, CommitInv, IndexInv
<1> QED
  BY <1>3, <1>4, <1>6, <1>9, <1>10, <1>11, GoingOn
  DEF CommitInv, RecordedIsReal, SuccessIsCommitted

LEMMA AcceptEndKeeps ==
  ASSUME CommitInv, AcceptEnd
  PROVE  CommitInv'
<1>1. op.at = "next" /\ op \in Operations /\ op # Idle /\ op.todo = <<>>
  BY DEF CommitInv, TypeOK, AcceptEnd, Idle
<1>2. /\ op'.at = "record" /\ op'.todo = <<>> /\ op'.made = op.made
      /\ op'.head = op.head
      /\ GoesOn
  BY <1>1 DEF AcceptEnd, Operations, GoesOn
<1>3. UNCHANGED <<status, recorded, clean, branch, dirty, index, trailers, surface,
                  result, promised>>
  BY DEF AcceptEnd, documents, git
<1>4. TypeOK'
  BY <1>2, <1>3, GoingOn DEF CommitInv, TypeOK, GoesOn
<1>5. TodoInv' /\ StrayInv' /\ IndexInv' /\ AcceptInv' /\ MadeInv' /\ CommitsArePure'
  BY <1>2, <1>3
  DEF CommitInv, TodoInv, StrayInv, IndexInv, AcceptInv, Accepting, MadeInv,
      CommitsArePure
<1> QED
  BY <1>2, <1>3, <1>4, <1>5, GoingOn
  DEF CommitInv, RecordedIsReal, SuccessIsCommitted

\* An operation ends well or not.
LEMMA RecordKeeps ==
  ASSUME CommitInv, NEW ok \in BOOLEAN, Record(ok)
  PROVE  CommitInv'
<1>1. /\ op' = Idle
      /\ recorded' = recorded \cup op.made
      /\ UNCHANGED <<status, branch, trailers, surface>>
  BY DEF Record, Reports
<1>2. /\ result' \in {"none", "ok", "skipped"} /\ promised' \in SUBSET Feature
      /\ result' = "ok" => clean' = TRUE
      /\ clean' \in BOOLEAN
  <2>1. op.shown \in SUBSET Feature /\ op.landed \in BOOLEAN /\ clean \in BOOLEAN
    BY DEF CommitInv, TypeOK, Operations
  <2>2. result' \in {"none", "ok", "skipped"} /\ (result' = "ok" => ok /\ op.landed)
    <3>1. result' = IF ~ok THEN "none" ELSE IF op.landed THEN "ok" ELSE "skipped"
      BY DEF Record, Reports
    <3> QED
      BY <3>1
  <2>3. promised' \in SUBSET Feature
    BY <2>1 DEF Record, Reports
  <2>4. clean' = ((ok /\ op.landed) \/ (clean /\ op.made = {}))
    BY DEF Record
  <2> QED
    BY <2>2, <2>3, <2>4
<1>3. dirty' \in SUBSET File /\ index' \in SUBSET dirty'
  BY DEF Record, IndexCommitted, CommitInv, TypeOK
<1>4. op.made \subseteq trailers
  BY DEF CommitInv, MadeInv
<1>5. TypeOK'
  BY <1>1, <1>2, <1>3, <1>4, IdleIsTyped DEF CommitInv, TypeOK, Idle
<1>6. RecordedIsReal' /\ SuccessIsCommitted'
  BY <1>1, <1>2, <1>4 DEF CommitInv, RecordedIsReal, SuccessIsCommitted
<1> QED
  BY <1>1, <1>5, <1>6, IdleKeeps DEF CommitInv

LEMMA FailsKeeps ==
  ASSUME CommitInv, Fails
  PROVE  CommitInv'
<1>1. /\ op' = Idle
      /\ UNCHANGED <<status, recorded, clean, branch, dirty, index, trailers,
                     surface, result, promised>>
  BY DEF Fails, documents, git
<1>2. result' = "none"
  BY <1>1 DEF Fails, CommitInv, UnderWay
<1>3. TypeOK'
  BY <1>1, IdleIsTyped DEF CommitInv, TypeOK, Idle
<1> QED
  BY <1>1, <1>2, <1>3, IdleKeeps DEF CommitInv, RecordedIsReal, SuccessIsCommitted

-----------------------------------------------------------------------------
(***************************************************************************)
(* The invariant, and what it says.                                        *)
(***************************************************************************)

LEMMA NextCommitInv ==
  ASSUME CommitInv, [Next]_vars
  PROVE  CommitInv'
<1>1. CASE \E p \in File : Edit(p) \/ Stage(p)
  BY <1>1, BetweenKeeps
<1>2. CASE ReturnToMain
  BY <1>2, BetweenKeeps
<1>3. CASE \E f \in Feature, named \in SUBSET {Stray} : CommitFeature(f, named)
  BY <1>3, CommitFeatureKeeps
<1>4. CASE \E f \in Feature : CommitTests(f)
  BY <1>4, CommitTestsKeeps
<1>5. CASE \E batch \in Batches : AcceptCommit(batch)
  BY <1>5, AcceptCommitKeeps
<1>6. CASE Bootstrap
  BY <1>6, BootstrapKeeps
<1>7. CASE SkipDone
  BY <1>7, SkipDoneKeeps
<1>8. CASE SlimAccept
  BY <1>8, SlimAcceptKeeps
<1>9. CASE StageAccept
  BY <1>9, StageAcceptKeeps
<1>10. CASE GitCommit
  BY <1>10, GitCommitKeeps
<1>11. CASE AcceptEnd
  BY <1>11, AcceptEndKeeps
<1>12. CASE \E ok \in BOOLEAN : Record(ok)
  BY <1>12, RecordKeeps
<1>13. CASE Fails
  BY <1>13, FailsKeeps
<1>14. CASE \E f \in Feature : RestartFeature(f)
  BY <1>14, BetweenKeeps
<1>15. CASE UNCHANGED vars
  <2>1. UNCHANGED <<status, recorded, clean, branch, dirty, index, trailers,
                    surface, op, result, promised>>
    BY <1>15 DEF vars
  <2> QED
    BY <2>1
    DEF CommitInv, TypeOK, UnderWay, TodoInv, StrayInv, IndexInv, AcceptInv,
        Accepting, Acceptable, WaitingOn, MadeInv, CommitsArePure, RecordedIsReal,
        SuccessIsCommitted
<1> QED
  BY <1>1, <1>2, <1>3, <1>4, <1>5, <1>6, <1>7, <1>8, <1>9, <1>10, <1>11, <1>12,
     <1>13, <1>14, <1>15
  DEF Next

\* Whatever the operations do in between, wherever one fails, what is known of
\* the operation under way holds.
THEOREM CommitCorrect == Spec => []CommitInv
BY InitCommitInv, NextCommitInv, PTL DEF Spec

\* The documents, the working tree, the index and the operation under way stay
\* of their types; in particular only what differs from HEAD is ever staged
\* (commitFeature, commitTests, acceptCommit and restartFeature).
THEOREM TypesAreKept == Spec => []TypeOK
<1>1. CommitInv => TypeOK
  BY DEF CommitInv
<1> QED
  BY <1>1, CommitCorrect, PTL

\* For any features and dependencies, a feature's commit takes along no other
\* feature's file, whatever was staged before the operation and wherever an
\* earlier one failed (commitFeature, acceptCommit).
THEOREM CommitsStayPure == Spec => []CommitsArePure
<1>1. CommitInv => CommitsArePure
  BY DEF CommitInv
<1> QED
  BY <1>1, CommitCorrect, PTL

\* A document never names a commit that git does not have, wherever an
\* operation is cut short (recordFeatureCommits after commitTree).
THEOREM RecordedStaysReal == Spec => []RecordedIsReal
<1>1. CommitInv => RecordedIsReal
  BY DEF CommitInv
<1> QED
  BY <1>1, CommitCorrect, PTL

\* Who is told that an operation has succeeded finds the bundle committed
\* (commitFeature, commitTests, acceptCommit).
THEOREM SuccessStaysCommitted == Spec => []SuccessIsCommitted
<1>1. CommitInv => SuccessIsCommitted
  BY DEF CommitInv
<1> QED
  BY <1>1, CommitCorrect, PTL

-----------------------------------------------------------------------------
(***************************************************************************)
(* Action properties.                                                      *)
(***************************************************************************)

\* The steps that change the working tree: it is added to, committed or, by a
\* restart, thrown away.
LEMMA DirtySteps ==
  ASSUME TypeOK, [Next]_vars
  PROVE  \/ dirty \subseteq dirty'
         \/ dirty' = dirty \ index /\ op'.head.files = index
         \/ op.at = "record" /\ dirty' = dirty \ index
         \/ \E f \in Feature : RestartFeature(f)
<1> USE DEF TypeOK, IndexCommitted, documents, git
<1>1. CASE Bootstrap
  <2>1. op'.head = NewHead("bootstrap", None)
    BY <1>1 DEF Bootstrap, Operations
  <2> QED
    BY <1>1, <2>1 DEF Bootstrap, NewHead
<1>2. CASE GitCommit
  <2>1. op'.head = NewHead(KindOf(op.name), Head(op.todo))
    BY <1>2 DEF GitCommit, Operations
  <2> QED
    BY <1>2, <2>1 DEF GitCommit, NewHead
<1>3. CASE \E ok \in BOOLEAN : Record(ok)
  BY <1>3 DEF Record
<1>4. CASE \/ \E p \in File : Edit(p) \/ Stage(p)
           \/ ReturnToMain
           \/ \E f \in Feature, named \in SUBSET {Stray} : CommitFeature(f, named)
           \/ \E f \in Feature : CommitTests(f)
           \/ \E batch \in Batches : AcceptCommit(batch)
           \/ SkipDone \/ SlimAccept \/ StageAccept \/ AcceptEnd \/ Fails
           \/ UNCHANGED vars
  BY <1>4
  DEF Edit, Stage, ReturnToMain, CommitFeature, CommitTests, AcceptCommit, SkipDone,
      SlimAccept, StageAccept, AcceptEnd, Fails, vars
<1> QED
  BY <1>1, <1>2, <1>3, <1>4 DEF Next

\* For any features and dependencies no change in the working tree is lost, by
\* whatever steps an operation ends (commitFeature, acceptCommit,
\* restartFeature).
THEOREM WorkStaysKept == Spec => WorkIsKept
<1>1. ASSUME CommitInv, [Next]_vars
      PROVE  [\/ dirty \ dirty' \subseteq op'.head.files
              \/ op.at = "record" /\ dirty \ dirty' \subseteq index
              \/ \E f \in Feature : RestartFeature(f)]_vars
  BY <1>1, DirtySteps DEF CommitInv
<1> QED
  BY <1>1, CommitCorrect, PTL DEF Spec, WorkIsKept

\* The steps that give an operation another commit to be at the head.
LEMMA HeadSteps ==
  ASSUME TypeOK, [Next]_vars, op'.head \notin {op.head, NoCommit}
  PROVE  Bootstrap \/ GitCommit
<1>1. ASSUME op' = Idle PROVE FALSE
  BY <1>1 DEF Idle
<1>2. ASSUME SkipDone \/ SlimAccept \/ StageAccept \/ AcceptEnd PROVE FALSE
  BY <1>2 DEF SkipDone, SlimAccept, StageAccept, AcceptEnd, TypeOK, Operations
<1>3. ASSUME \/ \E f \in Feature, named \in SUBSET {Stray} : CommitFeature(f, named)
             \/ \E f \in Feature : CommitTests(f)
      PROVE  FALSE
  <2>1. ASSUME NEW f \in Feature, NEW name \in {"commit-feature", "commit-tests"},
               op' = [Idle EXCEPT !.name = name, !.at = "commit", !.todo = <<f>>]
        PROVE  op'.head = NoCommit
    BY <2>1, Beginning
  <2> QED
    BY <1>3, <2>1 DEF CommitFeature, CommitTests, Begins
<1>4. ASSUME NEW batch \in Batches, AcceptCommit(batch) PROVE FALSE
  <2>1. PICK a, s, sh, st, fi :
          op' = [Idle EXCEPT !.name = "accept-commit", !.at = a, !.todo = batch,
                             !.slim = s, !.shown = sh, !.first = fi, !.stray = st]
    BY <1>4 DEF AcceptCommit, Begins
  <2>2. op'.head = Idle.head
    BY <2>1, IdleIsTyped DEF Operations
  <2> QED
    BY <2>2 DEF Idle
<1>5. ASSUME UNCHANGED vars PROVE FALSE
  BY <1>5 DEF vars
<1>6. ASSUME \/ \E p \in File : Edit(p) \/ Stage(p)
             \/ ReturnToMain \/ Fails
             \/ \E f \in Feature : RestartFeature(f)
             \/ \E ok \in BOOLEAN : Record(ok)
      PROVE  op' = Idle
  BY <1>6
  DEF Edit, Stage, ReturnToMain, Fails, RestartFeature, Between, Record, Reports
<1> QED
  BY <1>1, <1>2, <1>3, <1>4, <1>5, <1>6 DEF Next

\* A feature is only ever committed on a branch of its own, however the branches
\* were switched between the operations (ensureWorkBranch, commitTree).
THEOREM DefaultBranchStaysSafe == Spec => DefaultBranchIsSafe
<1>1. ASSUME CommitInv, [Next]_vars
      PROVE  [op'.head \notin {op.head, NoCommit} => branch = "work"]_vars
  <2>1. Bootstrap \/ GitCommit => op # Idle
    BY DEF Bootstrap, GitCommit, Idle
  <2> QED
    BY <1>1, <2>1, HeadSteps DEF CommitInv, UnderWay
<1> QED
  BY <1>1, CommitCorrect, PTL DEF Spec, DefaultBranchIsSafe

-----------------------------------------------------------------------------
(***************************************************************************)
(* The committing operations implement those of the bundle.                *)
(***************************************************************************)

\* The steps that change the status of a feature.
LEMMA StatusSteps ==
  ASSUME [Next]_vars
  PROVE  \/ \E f \in Feature, named \in SUBSET {Stray} : CommitFeature(f, named)
         \/ SlimAccept \/ StageAccept
         \/ \E f \in Feature : RestartFeature(f)
         \/ UNCHANGED status
BY DEF Next, Edit, Stage, ReturnToMain, CommitTests, AcceptCommit, Bootstrap, SkipDone,
       GitCommit, AcceptEnd, Record, Fails, vars, documents

\* The bundle and the operations read the same rules.
LEMMA SameRules ==
  /\ \A f : Bundle!WaitingOn(f) = WaitingOn(f)
  /\ \A from, to : Bundle!CanTransition(from, to) = CanTransition(from, to)
  /\ Bundle!RestartableStatuses = RestartableStatuses
BY DEF Bundle!WaitingOn, Bundle!Satisfied, Bundle!SatisfiedSet, Bundle!DepSatisfied,
       WaitingOn, SatisfiedSet, DepSatisfied, Bundle!CanTransition,
       Bundle!FeatureTransitions, Bundle!FeatureStatuses, CanTransition,
       FeatureTransitions, FeatureStatuses, Bundle!RestartableStatuses,
       RestartableStatuses

\* Seen from the bundle a step is one of its own, or nothing.
LEMMA BundleStep ==
  ASSUME CommitInv, [Next]_vars
  PROVE  [Bundle!Next]_(Bundle!vars)
<1>1. ASSUME NEW f \in Feature, NEW named \in SUBSET {Stray}, CommitFeature(f, named)
      PROVE  Bundle!CommitFeature(f)
  BY <1>1, SameRules DEF CommitFeature, Bundle!CommitFeature
<1>2. ASSUME SlimAccept \/ StageAccept
      PROVE  Bundle!AcceptCommit({Head(op.todo)})
  <2> DEFINE f == Head(op.todo)
  <2>1. /\ op.at = "next" /\ op.todo # <<>> /\ status[f] # "done"
        /\ status' = [status EXCEPT ![f] = "done"]
    BY <1>2 DEF SlimAccept, StageAccept
  <2>2. f \in Feature /\ f \in Entries(op.todo)
    BY <2>1, HeadAndTail DEF CommitInv, TypeOK, Operations
  <2>3. Acceptable(f)
    BY <2>1, <2>2 DEF CommitInv, AcceptInv, Accepting
  <2>4. status' = [s \in Feature |-> IF s \in {f} THEN "done" ELSE status[s]]
    BY <2>1, <2>2 DEF CommitInv, TypeOK
  <2> QED
    BY <2>2, <2>3, <2>4, SameRules DEF Acceptable, Bundle!AcceptCommit
<1>3. ASSUME NEW f \in Feature, RestartFeature(f)
      PROVE  Bundle!RestartFeature(f)
  BY <1>3, SameRules DEF RestartFeature, Bundle!RestartFeature, Bundle!RuntimeTouched
<1>4. ASSUME UNCHANGED status
      PROVE  UNCHANGED Bundle!vars
  BY <1>4 DEF Bundle!vars
<1>5. SlimAccept \/ StageAccept => {Head(op.todo)} \in SUBSET Feature
  BY HeadAndTail DEF SlimAccept, StageAccept, CommitInv, TypeOK, Operations
<1> QED
  BY <1>1, <1>2, <1>3, <1>4, <1>5, StatusSteps DEF Bundle!Next

\* Every step of commit-feature, accept-commit and restart-feature, also of one
\* that fails half way, is one the bundle's specification allows: a batch that
\* was validated as a whole is still acceptable, feature by feature, when the
\* git commits between its flips have been made (commitFeature, acceptCommit,
\* restartFeature).
THEOREM FlowsImplementTheBundle == Spec => StepsOfTheBundle
<1>1. ASSUME CommitInv, [Next]_vars
      PROVE  [Bundle!Next]_(Bundle!vars)
  BY <1>1, BundleStep
<1> QED
  BY <1>1, CommitCorrect, PTL DEF Spec, StepsOfTheBundle
=============================================================================
