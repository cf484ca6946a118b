---------------------------- MODULE MemoryPointer ----------------------------
(***************************************************************************)
(* The pointer last_memorized_commit and the flows that move it: the       *)
(* reviews of /iterator-init and /iterator-memorize (gatherRange and the   *)
(* operation apply-review), the acceptance of a feature (gatherMemorize    *)
(* and the operation accept-commit) and the retirement that waits for it.  *)
(* The commits of the branch are numbered from 1; commits of the bundle    *)
(* alone do not count, as commitsSince leaves them out.  Pointer 0 is a    *)
(* bundle without the pointer.                                             *)
(***************************************************************************)
EXTENDS Naturals, FiniteSets

CONSTANTS
  Flow,      \* the flows that may be under way at once
  MaxHead,   \* bound: the commits of the branch
  Backlog    \* how many pending commits an acceptance still evaluates

ASSUME MemoryAssumption == MaxHead \in Nat \ {0} /\ Backlog \in Nat

VARIABLES
  head,     \* the last commit
  pointer,  \* last_memorized_commit
  phase,    \* how far a flow has come
  seen,     \* the commit a flow is to advance the pointer to, 0 for none
  batch,    \* the commits a flow studies
  looked,   \* history: the commits a flow has studied
  written,  \* history: the commits whose reviewed cards are written
  raced,    \* history: commits made during an acceptance from the working tree
  retired   \* history: the head at the last retirement

flowVars == <<phase, seen, batch>>
vars == <<head, pointer, phase, seen, batch, looked, written, raced, retired>>

Upto(n) == 1..n

TypeOK ==
  /\ head \in 1..MaxHead
  /\ pointer \in 0..head
  /\ phase \in [Flow -> {"idle", "review", "cards", "advance",
                         "committed", "slim", "tree"}]
  /\ seen \in [Flow -> 0..head]
  /\ batch \in [Flow -> SUBSET Upto(head)]
  /\ looked \in SUBSET Upto(head)
  /\ written \in SUBSET Upto(head)
  /\ raced \in SUBSET Upto(head)
  /\ retired \in 0..head

Init ==
  /\ head = 1 /\ pointer = 0
  /\ phase = [f \in Flow |-> "idle"]
  /\ seen = [f \in Flow |-> 0]
  /\ batch = [f \in Flow |-> {}]
  /\ looked = {} /\ written = {} /\ raced = {} /\ retired = 0

Enter(f, to) == phase' = [phase EXCEPT ![f] = to]

\* A flow takes up the commits it is shown and is to advance the pointer to n.
Studies(f, commits, n) ==
  /\ seen' = [seen EXCEPT ![f] = n]
  /\ batch' = [batch EXCEPT ![f] = commits]
  /\ looked' = looked \cup commits

\* The commits since the pointer.
Pending == {c \in Upto(head) : c > pointer}

-----------------------------------------------------------------------------
(***************************************************************************)
(* Commits.                                                                *)
(***************************************************************************)

\* A new commit, known to the flow it belongs to.
NewCommit(own) ==
  /\ head < MaxHead
  /\ head' = head + 1
  /\ LET open == {f \in Flow \ own : phase[f] = "tree" /\ seen[f] > 0}
     IN  raced' = IF open = {} THEN raced ELSE raced \cup {head + 1}

\* The user, or a flow of another kind, commits.
Commit ==
  /\ NewCommit({})
  /\ UNCHANGED <<pointer, flowVars, looked, written, retired>>

\* commit-feature, before the round that reviews the commit.
CommitFeature(f) ==
  /\ phase[f] = "idle"
  /\ NewCommit({f})
  /\ Enter(f, "committed")
  /\ seen' = [seen EXCEPT ![f] = head + 1]
  /\ UNCHANGED <<pointer, batch, looked, written, retired>>

-----------------------------------------------------------------------------
(***************************************************************************)
(* Memory reviews.                                                         *)
(***************************************************************************)

\* Without a pointer there is only the repository as a whole to study.
GatherInit(f) ==
  /\ phase[f] = "idle" /\ pointer = 0
  /\ Enter(f, "review")
  /\ Studies(f, Upto(head), head)
  /\ UNCHANGED <<head, pointer, written, raced, retired>>

GatherRange(f) ==
  /\ phase[f] = "idle" /\ pointer > 0 /\ Pending # {}
  /\ Enter(f, "review")
  /\ Studies(f, Pending, head)
  /\ UNCHANGED <<head, pointer, written, raced, retired>>

\* An approval starts the writer; a cancel, a timeout, or decisions that are
\* invalid do not.
Approve(f) ==
  /\ phase[f] = "review"
  /\ Enter(f, "cards") \/ Enter(f, "idle")
  /\ UNCHANGED <<head, pointer, seen, batch, looked, written, raced, retired>>

\* The concepts, and then the root index with the pointer.
WriteCards(f) ==
  /\ phase[f] = "cards"
  /\ written' = written \cup batch[f]
  /\ Enter(f, "advance")
  /\ UNCHANGED <<head, pointer, seen, batch, looked, raced, retired>>

\* Mutant: the pointer goes to what is the head by now.
AdvanceToHead(f) ==
  /\ phase[f] = "advance"
  /\ pointer' = head
  /\ Enter(f, "idle")
  /\ UNCHANGED <<head, seen, batch, looked, written, raced, retired>>

\* Mutant: the pointer goes past that commit.
AdvancePast(f) ==
  /\ phase[f] = "advance"
  /\ pointer' = IF seen[f] = 0 THEN pointer ELSE seen[f] + 1
  /\ Enter(f, "idle")
  /\ UNCHANGED <<head, seen, batch, looked, written, raced, retired>>

\* updateRootIndex with the commit of the study, whatever the pointer is by now.
Advance(f) ==
  /\ phase[f] = "advance"
  /\ pointer' = IF seen[f] = 0 THEN pointer ELSE seen[f]
  /\ Enter(f, "idle")
  /\ UNCHANGED <<head, seen, batch, looked, written, raced, retired>>

\* The cards turn out to be invalid, after the feature's commit was made if there is
\* one; or the writer is killed.
BreaksOff(f) ==
  /\ phase[f] \in {"cards", "advance"}
  /\ Enter(f, "idle")
  /\ UNCHANGED <<head, pointer, seen, batch, looked, written, raced, retired>>

-----------------------------------------------------------------------------
(***************************************************************************)
(* Acceptance.                                                             *)
(***************************************************************************)

\* The agent's decision, which accept-commit takes over as it finds it in the field
\* advance ("the skill asserts the pointer rules", write.mjs:1868): that the pointer
\* moves only if all the pending commits are evaluated, and that a backlog, or a
\* bundle without the pointer, is left to the memory reviews, is said by the skill
\* iterator-implement (SKILL.md:202-206) and is assumed here.
Evaluate(f, n) ==
  LET all == pointer > 0 /\ Cardinality(Pending) <= Backlog
  IN  Studies(f, IF all THEN Pending ELSE {}, IF all THEN n ELSE 0)

GatherCommitted(f) ==
  /\ phase[f] = "committed"
  /\ Enter(f, "slim")
  /\ Evaluate(f, seen[f])
  /\ UNCHANGED <<head, pointer, written, raced, retired>>

GatherTree(f) ==
  /\ phase[f] = "idle"
  /\ Enter(f, "tree")
  /\ Evaluate(f, head)
  /\ UNCHANGED <<head, pointer, written, raced, retired>>

Reject(f) ==
  /\ phase[f] \in {"slim", "tree"}
  /\ Enter(f, "idle")
  /\ UNCHANGED <<head, pointer, seen, batch, looked, written, raced, retired>>

\* The slim path: the commit is there, the cards and the pointer follow.
AcceptCommitted(f) ==
  /\ phase[f] = "slim"
  /\ Enter(f, "cards")
  /\ UNCHANGED <<head, pointer, seen, batch, looked, written, raced, retired>>

\* From the working tree: the feature is committed on top of what is there by
\* now.
AcceptTree(f) ==
  /\ phase[f] = "tree"
  /\ NewCommit({f})
  /\ Enter(f, "cards")
  /\ LET n == IF seen[f] = 0 THEN 0 ELSE head + 1
     IN  Studies(f, batch[f] \cup {head + 1}, n)
  /\ UNCHANGED <<pointer, written, retired>>

-----------------------------------------------------------------------------
(***************************************************************************)
(* Retirement, with memorize_on_retire on.                                 *)
(***************************************************************************)

\* Mutant: a bundle without the pointer has nothing pending.
RetireUnready ==
  /\ pointer = 0 \/ Pending = {}
  /\ retired' = head
  /\ UNCHANGED <<head, pointer, flowVars, looked, written, raced>>

Retire ==
  /\ pointer > 0 /\ Pending = {}
  /\ retired' = head
  /\ UNCHANGED <<head, pointer, flowVars, looked, written, raced>>

-----------------------------------------------------------------------------

Next ==
  \/ Commit \/ Retire
  \/ \E f \in Flow :
       \/ GatherInit(f) \/ GatherRange(f) \/ Approve(f)
       \/ CommitFeature(f) \/ GatherCommitted(f) \/ GatherTree(f)
       \/ Reject(f) \/ AcceptCommitted(f) \/ AcceptTree(f)
       \/ WriteCards(f) \/ Advance(f) \/ BreaksOff(f)

Spec == Init /\ [][Next]_vars

-----------------------------------------------------------------------------

\* The pointer rule, "never advance past commits nobody looked at"
\* (iterator-implement/SKILL.md:204), over flows that overlap, writers that
\* are killed and reviews that are applied late: every commit up to the pointer
\* has been studied and the cards of its review are on disk.  The one gap is a
\* commit made while a feature is accepted from the working tree.  An acceptance
\* is taken to ask for the advance as its skill tells it to; what is at stake is
\* that the range is the one of its gather when the writer applies it.
KnowledgeFirst == Upto(pointer) \subseteq (looked \cap written) \cup raced

\* A plan is not retired before the memory has caught up with the branch
\* (write.mjs:2744-2756).
RetiredIsMemorized == Upto(retired) \subseteq (looked \cap written) \cup raced
=============================================================================
