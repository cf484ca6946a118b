---------------------------- MODULE FeatureStatus ----------------------------
(***************************************************************************)
(* The rules about feature statuses that every writer, gatherer and view   *)
(* shares (src/lib/status.mjs): which statuses exist, which moves the      *)
(* transition table allows and when a dependency unblocks its dependents.  *)
(***************************************************************************)

FeatureStatuses == {"draft", "pending", "implemented", "done"}

\* The statuses the features op may create a feature with.
CreatableStatuses == {"draft", "pending"}

\* restart-feature throws work away, so it needs work that can have started.
RestartableStatuses == {"pending", "implemented"}

FeatureTransitions ==
  [from \in FeatureStatuses |->
    CASE from = "draft"       -> {"draft", "pending"}
      [] from = "pending"     -> {"pending", "implemented", "done"}
      [] from = "implemented" -> {"implemented", "pending", "done"}
      [] from = "done"        -> {"done"}]

CanTransition(from, to) == to \in FeatureTransitions[from]

\* Mutant: committed is as good as accepted, whatever the setting says.
DepSatisfiedOnceCommitted(st, reviewRequired) == st \in {"implemented", "done"}

\* A dependency counts once it is done, and with review_required off already
\* when its implementation is committed.
DepSatisfied(st, reviewRequired) ==
  \/ st = "done"
  \/ st = "implemented" /\ reviewRequired = "off"

SatisfiedSet(features, status, reviewRequired) ==
  {s \in features : DepSatisfied(status[s], reviewRequired)}

\* The features that stand between a plan and its retirement.
Unfinished(features, status) == {s \in features : status[s] # "done"}
=============================================================================
