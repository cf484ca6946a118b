---------------------------- MODULE FeatureBundle ----------------------------
(***************************************************************************)
(* The memory/ bundle as the deterministic writer (src/lib/write.mjs)      *)
(* leaves it between two of its operations: the plan document, the feature *)
(* documents with their status and depends_on lists, the review_required   *)
(* setting, and whose bookkeeping state.md holds.  An operation loads the  *)
(* bundle from disk, validates its payload and only then writes, and one   *)
(* operation runs at a time, so each is one action here.  An operation     *)
(* that writes several documents can also be killed between two of them,   *)
(* and has then an action for what it leaves behind.  Git is outside       *)
(* this module: where an operation goes on to git after it has written the *)
(* bundle, the write stands whether git succeeds or not.                   *)
(***************************************************************************)
EXTENDS FeatureStatus, FeatureGraph, FiniteSets, Naturals

CONSTANTS
  Slug,               \* the feature slugs callers use
  OverlappingBatches, \* may one features payload rewrite and delete a slug?
  KillsPileUp,        \* bound: may an operation be killed before what an
                      \* earlier one has left in doubt is made good?
  MaxBatch            \* bound on the features one features payload names

ASSUME OverlapAssumption == OverlappingBatches \in BOOLEAN
ASSUME KillsAssumption == KillsPileUp \in BOOLEAN

VARIABLES
  plan,           \* plan.md: absent, or its frontmatter status
  features,       \* the slugs that have a document in memory/features/
  status,         \* frontmatter status of every feature
  deps,           \* frontmatter depends_on of every feature
  reviewRequired, \* the review_required setting
  runtime,        \* whose bookkeeping state.md holds
  bypassed,       \* history: in this feature set review_required was off,
                  \* update-feature called a feature done before its time, or
                  \* a killed operation took done features away from others
  torn            \* history: what killed operations have left in doubt

vars == <<plan, features, status, deps, reviewRequired, runtime, bypassed, torn>>

(***************************************************************************)
(* state.md holds its defaults ("reset"), something written under the      *)
(* present plan ("current"), or something that an earlier plan, or a time  *)
(* with no plan, has left behind ("stale").                                *)
(***************************************************************************)
RuntimeOrigins == {"reset", "current", "stale"}

(***************************************************************************)
(* A killed operation can leave depends_on lists that nobody has validated *)
(* ("graph"), until a features op validates them all or the plan is        *)
(* archived; or an approved plan on the old state.md ("state"), until that *)
(* is written anew.                                                        *)
(***************************************************************************)
Doubts == {"graph", "state"}

\* A killed operation leaves something in doubt.
Killed(doubt) ==
  /\ torn = {} \/ KillsPileUp
  /\ torn' = torn \cup {doubt}

\* What an absent slug's fields are kept at.
NoStatus == "pending"

TypeOK ==
  /\ plan \in {"none", "draft", "approved"}
  /\ features \in SUBSET Slug
  /\ status \in [Slug -> FeatureStatuses]
  /\ deps \in [Slug -> SUBSET Slug]
  /\ reviewRequired \in {"on", "off"}
  /\ runtime \in RuntimeOrigins
  /\ bypassed \in BOOLEAN
  /\ torn \in SUBSET Doubts

Satisfied == SatisfiedSet(features, status, reviewRequired)

WaitingOn(s) == deps[s] \ Satisfied

-----------------------------------------------------------------------------
Init ==
  /\ plan = "none"
  /\ features = {}
  /\ status = [s \in Slug |-> NoStatus]
  /\ deps = [s \in Slug |-> {}]
  /\ reviewRequired = "on"
  /\ runtime = "reset"
  /\ bypassed = FALSE
  /\ torn = {}

\* state.md as the next plan finds it when nobody resets it.
LeftOver == IF runtime = "current" THEN "stale" ELSE runtime

\* Mutant: an approval leaves the old workflow's state.md alone.
WritePlanKeepingState(st) ==
  /\ plan' = st
  /\ runtime' = LeftOver
  /\ UNCHANGED <<features, status, deps, reviewRequired, bypassed, torn>>

(***************************************************************************)
(* op plan.  Approval starts a fresh workflow and resets state.md; a draft *)
(* leaves it alone, so what it holds belongs to the plan that was there    *)
(* before.                                                                 *)
(***************************************************************************)
WritePlan(st) ==
  /\ plan' = st
  /\ runtime' = IF st = "approved" THEN "reset" ELSE LeftOver
  /\ torn' = IF st = "approved" THEN torn \ {"state"} ELSE torn
  /\ UNCHANGED <<features, status, deps, reviewRequired, bypassed>>

\* Killed in between: plan.md says approved, and state.md is the old one.
WritePlanKilled ==
  /\ LeftOver # "reset"
  /\ plan' = "approved"
  /\ runtime' = LeftOver
  /\ Killed("state")
  /\ UNCHANGED <<features, status, deps, reviewRequired, bypassed>>

\* Mutant: a re-slice rewrites whatever its payload names.
NothingProtected(incoming) == {}

\* The features of the payload that are already done are never rewritten.
DoneProtected(incoming) ==
  {s \in incoming \cap features : status[s] = "done"}

\* Mutant: the topological sort orders, but its verdict is not looked at.
ResolvedSlice(F, d) == Resolved(F, d)

\* What a final feature set is refused for: a dependency that is not in it, or
\* a cycle (the verdict of module TopoSort).
SoundSlice(F, d) == Resolved(F, d) /\ Acyclic(F, d)

\* The documents the features op writes, and those it removes.
Written(incoming) == incoming \ DoneProtected(incoming)
Removed(deletes) == deletes \cap features

\* The final feature set is validated before anything is written.
ValidSlice(incoming, deletes, dependsOn) ==
  /\ plan # "none"
  /\ incoming # {}
  /\ \A s \in Removed(deletes) : status[s] # "done"
  /\ SoundSlice((features \ deletes) \cup incoming,
                [s \in Slug |-> IF s \in Written(incoming) THEN dependsOn[s]
                               ELSE deps[s]])

\* The documents in W are written, then those in R removed; st and dependsOn
\* are the payload's statuses and dependencies.
StoreSlice(W, R, st, dependsOn) ==
  /\ features' = (features \cup W) \ R
  /\ status' = [s \in Slug |-> CASE s \in R     -> NoStatus
                                 [] s \in W \ R -> st[s]
                                 [] OTHER      -> status[s]]
  /\ deps' = [s \in Slug |-> CASE s \in R     -> {}
                               [] s \in W \ R -> dependsOn[s]
                               [] OTHER      -> deps[s]]
  /\ UNCHANGED <<plan, reviewRequired, runtime, bypassed>>

(***************************************************************************)
(* op features: write the documents in incoming, with the statuses and     *)
(* dependencies the payload gives, and remove those in deletes.  The       *)
(* removals come last, so a slug in both lists that already had a document *)
(* ends up removed.  In deletes a slug without a document means nothing.   *)
(***************************************************************************)
WriteFeatures(incoming, deletes, dependsOn) ==
  /\ ValidSlice(incoming, deletes, dependsOn)
  /\ \E st \in [Written(incoming) -> CreatableStatuses] :
       StoreSlice(Written(incoming), Removed(deletes), st, dependsOn)
  /\ torn' = torn \ {"graph"}

(***************************************************************************)
(* Killed: the documents in W are written, or all of them and some         *)
(* removed; neither none nor all.  What the payload says of the others     *)
(* leaves no trace, so let it say what passes validation most easily: that *)
(* they wait for nobody.                                                   *)
(***************************************************************************)
WriteFeaturesKilled(incoming, deletes, W, dependsOn) ==
  /\ Killed("graph")
  /\ ValidSlice(incoming, deletes,
                [s \in incoming |-> IF s \in W THEN dependsOn[s] ELSE {}])
  /\ \E R \in SUBSET Removed(deletes) :
       /\ R # {} => W = Written(incoming)
       /\ <<W, R>> \notin {<<{}, {}>>, <<Written(incoming), Removed(deletes)>>}
       /\ \E st \in [W -> CreatableStatuses] : StoreSlice(W, R, st, dependsOn)

\* op update-feature with a status: the transition table is the only rule, and
\* it lets a feature be called done whatever its dependencies are.
UpdateFeature(s, st) ==
  /\ s \in features
  /\ CanTransition(status[s], st)
  /\ status' = [status EXCEPT ![s] = st]
  /\ bypassed' = (bypassed \/ (st = "done" /\ WaitingOn(s) # {}))
  /\ UNCHANGED <<plan, features, deps, reviewRequired, runtime, torn>>

\* Mutant: promotes to a status no other part of the system knows.
PromotedToReady(accept, st) == IF accept /\ st = "draft" THEN "ready" ELSE st

\* The part of op adjustments that promotes every draft to pending.
Promoted(accept, st) == IF accept /\ st = "draft" THEN "pending" ELSE st

\* op adjustments without renames; file moves and descriptions are not kept.
\* Killed among the promotions it leaves what update-feature could have made.
AcceptFeatures ==
  /\ status' = [s \in Slug |-> Promoted(s \in features, status[s])]
  /\ UNCHANGED <<plan, features, deps, reviewRequired, runtime, bypassed, torn>>

\* A depends_on list with one slug replaced by another.
Rewired(d, from, to) == {IF x = from THEN to ELSE x : x \in d}

MayRename(from, to) ==
  /\ from \in features
  /\ to \notin features
  /\ status[from] # "done"

(***************************************************************************)
(* op adjustments with a rename: the document moves and every reference to *)
(* it is rewired.  A batch of renames is a run of single ones, validated   *)
(* as a whole before the first.                                            *)
(***************************************************************************)
RenameFeature(from, to, accept) ==
  /\ MayRename(from, to)
  /\ features' = (features \ {from}) \cup {to}
  /\ status' = [s \in Slug |->
                  CASE s = to   -> Promoted(accept, status[from])
                    [] s = from -> NoStatus
                    [] OTHER    -> Promoted(accept /\ s \in features, status[s])]
  /\ deps' = [s \in Slug |->
                CASE s = to   -> Rewired(deps[from], from, to)
                  [] s = from -> {}
                  [] OTHER    -> Rewired(deps[s], from, to)]
  /\ UNCHANGED <<plan, reviewRequired, runtime, bypassed, torn>>

\* The features that name s in their depends_on list.
Dependents(s) == {x \in features : s \in deps[x]}

\* Killed: the document has moved, and only some of its dependents are rewired.
RenameFeatureKilled(from, to, rewired) ==
  /\ MayRename(from, to)
  /\ rewired # Dependents(from)
  /\ features' = (features \ {from}) \cup {to}
  /\ status' = [status EXCEPT ![to] = status[from], ![from] = NoStatus]
  /\ LET d == [deps EXCEPT ![to] = deps[from], ![from] = {}]
     IN  deps' = [s \in Slug |-> IF s \in rewired THEN Rewired(d[s], from, to)
                                ELSE d[s]]
  /\ Killed("graph")
  /\ UNCHANGED <<plan, reviewRequired, runtime, bypassed>>

(***************************************************************************)
(* op commit-feature, once it has something to stage: the status flips to  *)
(* implemented before the commit is made.                                  *)
(***************************************************************************)
CommitFeature(s) ==
  /\ s \in features
  /\ status[s] \in {"pending", "implemented"}
  /\ WaitingOn(s) = {}
  /\ status' = [status EXCEPT ![s] = "implemented"]
  /\ UNCHANGED <<plan, features, deps, reviewRequired, runtime, bypassed, torn>>

(***************************************************************************)
(* op accept-commit.  Every feature of the batch is validated against the  *)
(* bundle as it was before the batch; then the features flip to done one   *)
(* after the other, and a git failure leaves those that came first.  What  *)
(* it leaves is itself a batch, so landed ranges over what has landed.     *)
(***************************************************************************)
AcceptCommit(landed) ==
  /\ landed # {}
  /\ landed \subseteq features
  /\ \A s \in landed : status[s] # "done" =>
                         /\ CanTransition(status[s], "done")
                         /\ WaitingOn(s) = {}
  /\ status' = [s \in Slug |-> IF s \in landed THEN "done" ELSE status[s]]
  /\ UNCHANGED <<plan, features, deps, reviewRequired, runtime, bypassed, torn>>

\* state.md as it is after an operation has written some of its fields.
RuntimeTouched ==
  IF plan = "none" \/ runtime = "stale" THEN "stale" ELSE "current"

\* op restart-feature: back to pending, and state.md says implementing.
\* Killed in between it is an update-feature.
RestartFeature(s) ==
  /\ s \in features
  /\ status[s] \in RestartableStatuses
  /\ status' = [status EXCEPT ![s] = "pending"]
  /\ runtime' = RuntimeTouched
  /\ UNCHANGED <<plan, features, deps, reviewRequired, bypassed, torn>>

\* op state: strikes, mode, phase and escalation of the automatic driver.
WriteState ==
  /\ runtime' = RuntimeTouched
  /\ UNCHANGED <<plan, features, status, deps, reviewRequired, bypassed, torn>>

\* op record-plan-review by the agent in auto mode rewrites all of state.md.
RecordPlanReview ==
  /\ plan # "none"
  /\ runtime # "reset"
  /\ runtime' = "current"
  /\ torn' = torn \ {"state"}
  /\ UNCHANGED <<plan, features, status, deps, reviewRequired, bypassed>>

\* op settings, as far as review_required goes.
WriteSettings(value) ==
  /\ reviewRequired' = value
  /\ bypassed' = (bypassed \/ value = "off")
  /\ UNCHANGED <<plan, features, status, deps, runtime, torn>>

\* The document of s is archived; the lists of the features in scrubbed forget
\* it.
Archived(s, scrubbed) ==
  /\ s \in features
  /\ features' = features \ {s}
  /\ status' = [status EXCEPT ![s] = NoStatus]
  /\ deps' = [x \in Slug |-> IF x = s THEN {}
                            ELSE IF x \in scrubbed THEN deps[x] \ {s}
                            ELSE deps[x]]
  /\ UNCHANGED <<plan, reviewRequired, runtime>>

\* Mutant: the other features keep waiting for the cancelled one.
CancelFeatureUnscrubbed(s) ==
  /\ Archived(s, {})
  /\ UNCHANGED <<bypassed, torn>>

\* op cancel-feature: whatever its status, the document is archived and the
\* other features forget it.
CancelFeature(s) ==
  /\ Archived(s, Slug)
  /\ UNCHANGED <<bypassed, torn>>

\* Killed: the document is archived, and some features still wait for it.
CancelFeatureKilled(s, scrubbed) ==
  /\ scrubbed # Dependents(s) \ {s}
  /\ Archived(s, scrubbed)
  /\ bypassed' = TRUE
  /\ Killed("graph")

\* Archive plan.md and every feature document.
ArchivePlan ==
  /\ plan' = "none"
  /\ features' = {}
  /\ status' = [s \in Slug |-> NoStatus]
  /\ deps' = [s \in Slug |-> {}]
  /\ bypassed' = (reviewRequired = "off")
  /\ torn' = {}
  /\ UNCHANGED reviewRequired

\* op retire-plan, once the memory pointer allows it; state.md is left as it is.
RetirePlan(force) ==
  /\ plan # "none"
  /\ Unfinished(features, status) # {} => force
  /\ ArchivePlan
  /\ runtime' = LeftOver

\* op cancel-plan: no gate, and state.md is reset.
CancelPlan ==
  /\ plan # "none"
  /\ ArchivePlan
  /\ runtime' = "reset"

(***************************************************************************)
(* Either of them, killed: plan.md goes first, so that neither can be run  *)
(* again, and the features in left are the ones not reached.  cancel-plan  *)
(* has not come to its reset of state.md.                                  *)
(***************************************************************************)
ArchiveKilled(left) ==
  /\ plan # "none"
  /\ left # {}
  /\ plan' = "none"
  /\ features' = left
  /\ status' = [s \in Slug |-> IF s \in left THEN status[s] ELSE NoStatus]
  /\ deps' = [s \in Slug |-> IF s \in left THEN deps[s] ELSE {}]
  /\ runtime' = LeftOver
  /\ bypassed' = TRUE
  /\ Killed("graph")
  /\ UNCHANGED reviewRequired

Next ==
  \/ \E st \in {"draft", "approved"} : WritePlan(st)
  \/ WritePlanKilled
  \/ \E incoming \in SUBSET Slug, deletes \in SUBSET features :
       /\ Cardinality(incoming) <= MaxBatch
       /\ incoming \cap deletes # {} => OverlappingBatches
       /\ \/ \E dependsOn \in [incoming -> SUBSET Slug] :
               WriteFeatures(incoming, deletes, dependsOn)
          \/ \E W \in SUBSET Written(incoming) :
               \E dependsOn \in [W -> SUBSET Slug] :
                 WriteFeaturesKilled(incoming, deletes, W, dependsOn)
  \/ \E s \in Slug, st \in FeatureStatuses : UpdateFeature(s, st)
  \/ AcceptFeatures
  \/ \E from \in Slug, to \in Slug, accept \in BOOLEAN :
       RenameFeature(from, to, accept)
  \/ \E from \in Slug, to \in Slug :
       \E rewired \in SUBSET Dependents(from) :
         RenameFeatureKilled(from, to, rewired)
  \/ \E s \in Slug : CommitFeature(s)
  \/ \E landed \in SUBSET Slug : AcceptCommit(landed)
  \/ \E s \in Slug : RestartFeature(s)
  \/ WriteState
  \/ RecordPlanReview
  \/ \E value \in {"on", "off"} : WriteSettings(value)
  \/ \E s \in Slug : CancelFeature(s)
  \/ \E s \in Slug :
       \E scrubbed \in SUBSET (Dependents(s) \ {s}) : CancelFeatureKilled(s, scrubbed)
  \/ \E force \in BOOLEAN : RetirePlan(force)
  \/ CancelPlan
  \/ \E left \in SUBSET features : ArchiveKilled(left)

Spec == Init /\ [][Next]_vars
-----------------------------------------------------------------------------
(***************************************************************************)
(* Properties.                                                             *)
(***************************************************************************)

\* Every dependency a feature names exists: renames rewire it, cancellation
\* scrubs it and a re-slice that would leave it dangling is refused (write.mjs,
\* writeFeatures, applyAdjustments, cancelFeature).  A dangling one blocks its
\* dependent for good, since nothing can ever satisfy it.  What a killed
\* operation has left dangling, the next re-slice makes good or refuses.
DepsResolve == "graph" \notin torn => Resolved(features, deps)

\* No set of features waits for itself, so as long as a feature is unfinished
\* some feature can be worked on (writeFeatures, applyAdjustments).  Here, too,
\* a re-slice that comes through makes up for what a killed one has left.
DepsAcyclic == "graph" \notin torn => Acyclic(features, deps)

\* As long as review_required has been on for the whole feature set, nobody has
\* called a feature done by hand before its dependencies were, and no removal
\* was killed half way, a done feature stands on done features only: nothing
\* reopens, removes or re-slices what an accepted feature was built on, short
\* of cancelling it; not even a re-slice or a rename that is killed
\* (acceptCommit, writeFeatures, applyAdjustments, restartFeature).
DoneStandsOnDone ==
  ~bypassed => \A s \in features : status[s] = "done" =>
                \A d \in deps[s] : status[d] = "done"

\* The operation that takes the document of s away on purpose.
Cancels(s) ==
  \/ CancelFeature(s)
  \/ \E scrubbed \in SUBSET features : CancelFeatureKilled(s, scrubbed)

\* A done feature keeps its document, its status and every dependency that
\* still exists, until it is cancelled or the plan is archived ("done ...
\* terminal", status.mjs:12-14), whatever operation is killed where.
DoneIsFinal ==
  [][\A s \in features : status[s] = "done" =>
       \/ /\ s \in features'
          /\ status'[s] = "done"
          /\ deps[s] \cap features' \subseteq deps'[s]
       \/ plan' = "none"
       \/ Cancels(s)]_vars

\* No approved plan runs on the bookkeeping of an earlier one: its auto mode,
\* escalation and strikes are gone ("Never let auto-mode bookkeeping, an
\* escalation, or feature strikes from a retired/replaced plan dispatch work
\* into this new plan", write.mjs:473-475).  An approval that is killed before
\* the reset is made good by running it again.
NoCarryOver == plan = "approved" /\ "state" \notin torn => runtime # "stale"
=============================================================================
