------------------------------ MODULE CommitFlow ------------------------------
(***************************************************************************)
(* The operations of the writer that go on to git: commit-feature,         *)
(* commit-tests, accept-commit and restart-feature (src/lib/write.mjs),    *)
(* with the part of the review gatherer that says what a review shows      *)
(* (src/lib/gather.mjs).  An operation is a run of git calls and document  *)
(* writes; any git commit may fail (a hook, an identity, a lock), and what *)
(* came before it stays.  Each feature declares one file, named like the   *)
(* feature, and there is one changed file that no feature declares.        *)
(***************************************************************************)
EXTENDS FeatureStatus, Sequences, FiniteSets

CONSTANTS
  Feature,    \* the accepted features of the plan
  DependsOn,  \* their depends_on lists
  Stray,      \* the changed file that belongs to no feature
  None,       \* no feature
  TestsFirst, \* may commit-tests run?
  GitMayFail  \* may a git commit fail?

ASSUME CommitFlowAssumption ==
  /\ DependsOn \in [Feature -> SUBSET Feature]
  /\ Stray \notin Feature /\ None \notin Feature
  /\ TestsFirst \in BOOLEAN /\ GitMayFail \in BOOLEAN

VARIABLES
  status,   \* frontmatter status of every feature
  recorded, \* the features whose frontmatter lists commits
  clean,    \* the bundle has no change that git has not
  branch,   \* the branch that is checked out
  dirty,    \* files that differ from HEAD
  index,    \* those of them that are staged
  trailers, \* the features that a Feature: trailer of some commit names
  surface,  \* the files those commits touch
  op,       \* the operation under way
  result,   \* what the last operation reported: "ok", or "skipped" if there was
            \* nothing left to accept
  promised  \* accepted by it although the review showed uncommitted work

documents == <<status, recorded>>
git == <<branch, dirty, index, trailers, surface>>
vars == <<status, recorded, clean, branch, dirty, index, trailers, surface, op,
          result, promised>>

File == Feature \cup {Stray}
\* No operation under way has committed anything outside the bundle yet.
NoCommit == [kind |-> "none", feature |-> None, files |-> {}]

Idle == [name |-> "idle", at |-> "end", todo |-> <<>>, slim |-> {}, shown |-> {},
         first |-> None, stray |-> FALSE, made |-> {}, landed |-> FALSE,
         head |-> NoCommit]

Commits == [kind : {"implement", "test", "bootstrap", "none"},
            feature : Feature \cup {None}, files : SUBSET File]

\* What is kept of an operation: its name and program counter, the features to
\* come, what it settled when it began, and what it has made so far.
Operations ==
  [name : {"idle", "commit-feature", "commit-tests", "accept-commit"},
   at : {"bootstrap", "next", "commit", "record", "end"},
   todo : Seq(Feature), slim : SUBSET Feature, shown : SUBSET Feature,
   first : Feature \cup {None}, stray : BOOLEAN, made : SUBSET Feature,
   landed : BOOLEAN, head : Commits]

TypeOK ==
  /\ status \in [Feature -> FeatureStatuses]
  /\ recorded \in SUBSET Feature
  /\ clean \in BOOLEAN
  /\ branch \in {"main", "work"}
  /\ dirty \in SUBSET File
  /\ index \in SUBSET dirty
  /\ trailers \in SUBSET Feature
  /\ surface \in [Feature -> SUBSET File]
  /\ op \in Operations
  /\ op.name = "idle" <=> op = Idle
  /\ result \in {"none", "ok", "skipped"}
  /\ promised \in SUBSET Feature

-----------------------------------------------------------------------------
(***************************************************************************)
(* What the operations read.                                               *)
(***************************************************************************)

\* Mutant: an implemented dependency will do, whatever review_required says.
WaitingOnWork(f) == DependsOn[f] \ SatisfiedSet(Feature, status, "off")

\* The dependencies a feature is held back by while review_required is on.
WaitingOn(f) == DependsOn[f] \ SatisfiedSet(Feature, status, "on")

\* resolveFeatureCommits finds any: those the frontmatter lists, else those
\* whose trailer names the feature, of whatever kind.
HasCommits(f) == f \in recorded \cup trailers

\* A focused review reads the feature's commits, or else the working tree.
ReviewShows(f) ==
  IF status[f] \in {"implemented", "done"} /\ HasCommits(f)
  THEN "commits" ELSE "working-tree"

\* The batches accept-commit is called with.
Batches == {<<f>> : f \in Feature} \cup
           {<<p[1], p[2]>> : p \in {q \in Feature \X Feature : q[1] # q[2]}}

\* Mutant: commits wherever the user happens to be.
SameBranch(b) == b

\* Branch safety: an operation that commits leaves the default branch first.
OffDefault(b) == IF b = "main" THEN "work" ELSE b

\* Mutant: what was staged before stays staged.
IndexKept(paths) == index \cup paths

\* git reset -q, and then git add of the operation's own paths.
Restaged(paths) == paths

-----------------------------------------------------------------------------
Init ==
  /\ status = [f \in Feature |-> "pending"]
  /\ recorded = {}
  /\ clean = TRUE
  /\ branch = "main"
  /\ dirty = {}
  /\ index = {}
  /\ trailers = {}
  /\ surface = [f \in Feature |-> {}]
  /\ op = Idle
  /\ result = "none"
  /\ promised = {}

\* Between operations, the agent or the user changes a file, stages one that is
\* changed, or moves the default branch up to the work and goes back to it.
Between == op = Idle /\ result' = "none" /\ promised' = {} /\ UNCHANGED op

Edit(p) ==
  /\ Between
  /\ dirty' = dirty \cup {p}
  /\ UNCHANGED <<documents, clean, branch, index, trailers, surface>>

Stage(p) ==
  /\ Between
  /\ p \in dirty
  /\ index' = index \cup {p}
  /\ UNCHANGED <<documents, clean, branch, dirty, trailers, surface>>

ReturnToMain ==
  /\ Between
  /\ branch' = "main"
  /\ UNCHANGED <<documents, clean, dirty, index, trailers, surface>>

\* An operation begins where the last one has ended.
Begins(o) ==
  /\ op = Idle
  /\ op' = o
  /\ result' = "none"
  /\ promised' = {}

(***************************************************************************)
(* op commit-feature up to its git commit: the files the implementer names *)
(* and those the feature declares are staged alone, and the document says  *)
(* implemented so that this rides in the commit.                           *)
(***************************************************************************)
CommitFeature(f, named) ==
  LET paths == (named \cup {f}) \cap dirty
  IN  /\ Begins([Idle EXCEPT !.name = "commit-feature", !.at = "commit",
                             !.todo = <<f>>])
      /\ status[f] \in {"pending", "implemented"}
      /\ WaitingOn(f) = {}
      /\ paths # {}
      /\ branch' = OffDefault(branch)
      /\ index' = Restaged(paths)
      /\ status' = [status EXCEPT ![f] = "implemented"]
      /\ clean' = FALSE
      /\ UNCHANGED <<recorded, dirty, trailers, surface>>

\* op commit-tests up to its git commit: the test files, which are the tester's
\* own and not kept here, join whatever is staged.
CommitTests(f) ==
  /\ TestsFirst
  /\ Begins([Idle EXCEPT !.name = "commit-tests", !.at = "commit",
                         !.todo = <<f>>])
  /\ branch' = OffDefault(branch)
  /\ clean' = FALSE
  /\ UNCHANGED <<documents, dirty, index, trailers, surface>>

(***************************************************************************)
(* op accept-commit up to the first feature: the whole batch is validated, *)
(* it is settled which features take the slim path, and, unless all do,    *)
(* everything is unstaged.  A stray file goes into a bootstrap commit if   *)
(* it was staged, else it is absorbed by the first feature of the batch.   *)
(***************************************************************************)
AcceptCommit(batch) ==
  LET entries  == {batch[i] : i \in DOMAIN batch}
      slim     == {f \in entries : HasCommits(f)}
      stages   == \E f \in entries \ slim : status[f] # "done"
      baseline == stages /\ Stray \in index
  IN  /\ Begins([Idle EXCEPT
                   !.name = "accept-commit",
                   !.at = IF baseline THEN "bootstrap" ELSE "next",
                   !.todo = batch,
                   !.slim = slim,
                   !.shown = {f \in entries : ReviewShows(f) = "working-tree"},
                   !.first = batch[1],
                   !.stray = stages /\ Stray \in dirty \ index])
      /\ \A f \in entries : status[f] # "done" =>
           CanTransition(status[f], "done") /\ WaitingOn(f) = {}
      /\ branch' = OffDefault(branch)
      /\ index' = IF baseline THEN {Stray} ELSE IF stages THEN {} ELSE index
      /\ UNCHANGED <<documents, clean, dirty, trailers, surface>>

\* What git commit does with the index.
NewHead(kind, f) == [kind |-> kind, feature |-> f, files |-> index]

IndexCommitted ==
  /\ dirty' = dirty \ index
  /\ index' = {}

Bootstrap ==
  /\ op.at = "bootstrap"
  /\ IndexCommitted
  /\ op' = [op EXCEPT !.at = "next", !.head = NewHead("bootstrap", None)]
  /\ UNCHANGED <<documents, clean, branch, trailers, surface, result, promised>>

\* A feature that is done already is skipped.
SkipDone ==
  /\ op.at = "next" /\ op.todo # <<>>
  /\ status[Head(op.todo)] = "done"
  /\ op' = [op EXCEPT !.todo = Tail(@)]
  /\ UNCHANGED <<documents, clean, git, result, promised>>

\* The slim path: the flip to done is all that is left.
SlimAccept ==
  /\ op.at = "next" /\ op.todo # <<>>
  /\ LET f == Head(op.todo)
     IN  /\ status[f] # "done"
         /\ f \in op.slim
         /\ status' = [status EXCEPT ![f] = "done"]
  /\ clean' = FALSE
  /\ op' = [op EXCEPT !.todo = Tail(@), !.landed = TRUE]
  /\ UNCHANGED <<recorded, branch, dirty, index, trailers, surface,
                 result, promised>>

\* Mutant: the document names the feature's commit as it is staged.
StageAcceptRecorded ==
  /\ op.at = "next" /\ op.todo # <<>>
  /\ LET f == Head(op.todo)
     IN  /\ status[f] # "done"
         /\ f \notin op.slim
         /\ status' = [status EXCEPT ![f] = "done"]
         /\ recorded' = recorded \cup {f}
         /\ index' = index \cup ({f} \cap dirty)
                           \cup {p \in {Stray} : op.stray /\ f = op.first}
  /\ clean' = FALSE
  /\ op' = [op EXCEPT !.at = "commit"]
  /\ UNCHANGED <<branch, dirty, trailers, surface, result, promised>>

\* The other path: flip to done, then stage what the review showed of it.
StageAccept ==
  /\ op.at = "next" /\ op.todo # <<>>
  /\ LET f == Head(op.todo)
     IN  /\ status[f] # "done"
         /\ f \notin op.slim
         /\ status' = [status EXCEPT ![f] = "done"]
         /\ index' = index \cup ({f} \cap dirty)
                           \cup {p \in {Stray} : op.stray /\ f = op.first}
  /\ clean' = FALSE
  /\ op' = [op EXCEPT !.at = "commit"]
  /\ UNCHANGED <<recorded, branch, dirty, trailers, surface,
                 result, promised>>

KindOf(name) == IF name = "commit-tests" THEN "test" ELSE "implement"

\* The feature's commit.  Only accept-commit may have more of them to make.
GitCommit ==
  /\ op.at = "commit"
  /\ IndexCommitted
  /\ LET f == Head(op.todo)
     IN  /\ trailers' = trailers \cup {f}
         /\ surface' = [surface EXCEPT ![f] = @ \cup index]
         /\ op' = [op EXCEPT
                     !.at = IF op.name = "accept-commit" THEN "next" ELSE "record",
                     !.todo = IF op.name = "accept-commit" THEN Tail(@) ELSE @,
                     !.made = @ \cup {f},
                     !.landed = TRUE,
                     !.head = NewHead(KindOf(op.name), f)]
  /\ clean' = TRUE
  /\ UNCHANGED <<documents, branch, result, promised>>

\* All features of an accepted batch are through.
AcceptEnd ==
  /\ op.name = "accept-commit" /\ op.at = "next"
  /\ op.todo = <<>>
  /\ op' = [op EXCEPT !.at = "record"]
  /\ UNCHANGED <<documents, clean, git, result, promised>>

\* What the operation reports, if it gets to its end.
Reports(ok) ==
  /\ op' = Idle
  /\ result' = IF ~ok THEN "none" ELSE IF op.landed THEN "ok" ELSE "skipped"
  /\ promised' = IF ok /\ op.name = "accept-commit" THEN op.shown ELSE {}

\* Mutant: the shas are recorded, but stay out of the bookkeeping commit.
RecordUncommitted(ok) ==
  /\ op.at = "record"
  /\ ok \/ GitMayFail
  /\ recorded' = recorded \cup op.made
  /\ clean' = (clean /\ op.made = {})
  /\ Reports(ok)
  /\ UNCHANGED <<status, git>>

(***************************************************************************)
(* A commit cannot name itself, so its sha is recorded afterwards, and the *)
(* bundle is committed once more if anything has landed, and with the      *)
(* bundle goes all that is still staged.                                   *)
(***************************************************************************)
Record(ok) ==
  LET commits == ok /\ op.landed
  IN  /\ op.at = "record"
      /\ ok \/ GitMayFail
      /\ recorded' = recorded \cup op.made
      /\ clean' = (commits \/ (clean /\ op.made = {}))
      /\ IF commits THEN IndexCommitted ELSE UNCHANGED <<dirty, index>>
      /\ Reports(ok)
      /\ UNCHANGED <<status, branch, trailers, surface>>

\* Mutant: a failure puts what was staged back to what HEAD has.
FailsHard ==
  /\ GitMayFail
  /\ op # Idle
  /\ op' = Idle
  /\ dirty' = dirty \ index
  /\ index' = {}
  /\ UNCHANGED <<documents, clean, branch, trailers, surface, result, promised>>

\* A git commit fails, or the writer is killed between two of its steps.
Fails ==
  /\ GitMayFail
  /\ op # Idle
  /\ op' = Idle
  /\ UNCHANGED <<documents, clean, git, result, promised>>

\* The files a restart takes for the feature's: those of the commits its review
\* shows, or else its own and the stray file.
Footprint(f) ==
  IF ReviewShows(f) = "commits" THEN surface[f] ELSE {f, Stray}

\* Mutant: the files go back, but stay staged.
RestartFeatureStaged(f) ==
  /\ Between
  /\ status[f] \in RestartableStatuses
  /\ status' = [status EXCEPT ![f] = "pending"]
  /\ dirty' = dirty \ Footprint(f)
  /\ clean' = FALSE
  /\ UNCHANGED <<recorded, branch, index, trailers, surface>>

(***************************************************************************)
(* op restart-feature: the footprint goes back to what HEAD has, the       *)
(* feature to pending, and state.md says implementing.  Commits stay.      *)
(***************************************************************************)
RestartFeature(f) ==
  /\ Between
  /\ status[f] \in RestartableStatuses
  /\ status' = [status EXCEPT ![f] = "pending"]
  /\ dirty' = dirty \ Footprint(f)
  /\ index' = index \ Footprint(f)
  /\ clean' = FALSE
  /\ UNCHANGED <<recorded, branch, trailers, surface>>

Next ==
  \/ \E p \in File : Edit(p) \/ Stage(p)
  \/ ReturnToMain
  \/ \E f \in Feature, named \in SUBSET {Stray} : CommitFeature(f, named)
  \/ \E f \in Feature : CommitTests(f)
  \/ \E batch \in Batches : AcceptCommit(batch)
  \/ Bootstrap
  \/ SkipDone
  \/ SlimAccept
  \/ StageAccept
  \/ GitCommit
  \/ AcceptEnd
  \/ \E ok \in BOOLEAN : Record(ok)
  \/ Fails
  \/ \E f \in Feature : RestartFeature(f)

Spec == Init /\ [][Next]_vars

-----------------------------------------------------------------------------
(***************************************************************************)
(* Properties.                                                             *)
(***************************************************************************)

\* A feature's commit never takes along the work of another feature, whatever
\* was staged when it was made ("exactly its own staged paths", write.mjs:
\* 1747-1750 and 1974-1976).
CommitsArePure ==
  op.head.kind = "implement" => op.head.files \subseteq {op.head.feature, Stray}

\* No change in the working tree is lost: it goes away only into a commit that
\* is being made, or because its feature is restarted, however an operation ends
\* ("The working tree is untouched", write.mjs:1750 and 1976).
WorkIsKept ==
  [][\/ dirty \ dirty' \subseteq op'.head.files
     \/ op.at = "record" /\ dirty \ dirty' \subseteq index
     \/ \E f \in Feature : RestartFeature(f)]_vars

\* No feature's work is committed while the default branch is checked out
\* ("never commit to the default branch", write.mjs:1740 and 1968).
DefaultBranchIsSafe ==
  [][op'.head \notin {op.head, NoCommit} => branch = "work"]_vars

\* A sha in a feature's document is one of a commit that exists and carries the
\* feature's trailer, even if the operation was cut short.
RecordedIsReal == recorded \subseteq trailers

\* An operation that reports success leaves the bundle committed.
SuccessIsCommitted == op = Idle /\ result = "ok" => clean

\* Seen from the bundle, every step is one the bundle's specification allows.
Bundle ==
  INSTANCE FeatureBundle WITH
    Slug <- Feature, OverlappingBatches <- FALSE, KillsPileUp <- FALSE,
    MaxBatch <- 0,
    plan <- "approved", features <- Feature, deps <- DependsOn,
    reviewRequired <- "on", runtime <- "current", bypassed <- FALSE,
    torn <- {}

StepsOfTheBundle == [][Bundle!Next]_(Bundle!vars)

\* What accept-commit says of itself: what a review showed in the working tree
\* is committed when the batch is through, also by a rerun after a failure
\* (write.mjs:1627-1638).
AcceptedWorkLands == promised \cap dirty = {}

\* "The bookkeeping commit ... touches only the bundle" (write.mjs:1869-1870).
BookkeepingIsPure == [][op.at = "record" => dirty' = dirty]_vars
=============================================================================
