------------------------- MODULE FeatureBundleProofs -------------------------
(***************************************************************************)
(* Proofs about FeatureBundle for every set of slugs.                      *)
(***************************************************************************)
EXTENDS FeatureBundle, TLAPS

\* Slugs without a document keep the default fields.
AbsentIsBlank == \A s \in Slug \ features : status[s] = NoStatus

\* The history flag is faithful to the setting.
BypassIsRecorded == ~bypassed => reviewRequired = "on"

\* No features payload deletes a slug it also rewrites.
NoOverlap == ~OverlappingBatches

-----------------------------------------------------------------------------
(***************************************************************************)
(* What the operations do to dependency graphs.                            *)
(***************************************************************************)

\* A part of an acyclic graph, with some edges fewer, is acyclic
\* (cancel-feature, and the removals of the features op).
LEMMA AcyclicPart ==
  ASSUME NEW F, NEW G \in SUBSET F, NEW d, NEW e,
         \A s \in G : e[s] \subseteq d[s],
         Acyclic(F, d)
  PROVE  Acyclic(G, e)
<1> SUFFICES ASSUME NEW T \in SUBSET G, T # {}
             PROVE  \E s \in T : e[s] \cap T = {}
  BY DEF Acyclic
<1>1. PICK s \in T : d[s] \cap T = {}
  BY DEF Acyclic
<1> QED
  BY <1>1

\* The features a rename maps a set back to.
Unrenamed(T, from, to) == {IF x = to THEN from ELSE x : x \in T}

\* Renaming keeps a graph acyclic if nothing already refers to the new name
\* (applyAdjustments).
LEMMA AcyclicRename ==
  ASSUME NEW F, NEW from \in F, NEW to, to \notin F, NEW d, NEW e,
         Resolved(F, d), Acyclic(F, d),
         e[to] = Rewired(d[from], from, to),
         \A s \in F \ {from} : e[s] = Rewired(d[s], from, to)
  PROVE  Acyclic((F \ {from}) \cup {to}, e)
<1> SUFFICES ASSUME NEW T \in SUBSET ((F \ {from}) \cup {to}), T # {}
             PROVE  \E s \in T : e[s] \cap T = {}
  BY DEF Acyclic
<1> DEFINE T0 == Unrenamed(T, from, to)
<1>1. T0 \in SUBSET F /\ T0 # {}
  BY DEF Unrenamed
<1>2. PICK s0 \in T0 : d[s0] \cap T0 = {}
  BY <1>1 DEF Acyclic
<1> DEFINE s == IF s0 = from THEN to ELSE s0
<1>3. s \in T
  BY DEF Unrenamed
<1>4. e[s] = Rewired(d[s0], from, to) /\ d[s0] \subseteq F
  BY <1>1, <1>3 DEF Resolved
<1>5. ASSUME NEW y \in e[s] \cap T PROVE FALSE
  <2>1. PICK x \in d[s0] : y = IF x = from THEN to ELSE x
    BY <1>4, <1>5 DEF Rewired
  <2>2. x \in T0
    BY <1>4, <1>5, <2>1 DEF Unrenamed
  <2> QED
    BY <1>2, <2>1, <2>2
<1> QED
  BY <1>3, <1>5

-----------------------------------------------------------------------------
(***************************************************************************)
(* The features op, killed or not.                                         *)
(***************************************************************************)
WriteFeaturesAnyhow(incoming, deletes) ==
  \/ \E dependsOn \in [incoming -> SUBSET Slug] :
       WriteFeatures(incoming, deletes, dependsOn)
  \/ \E W \in SUBSET Written(incoming) :
       \E dependsOn \in [W -> SUBSET Slug] :
         WriteFeaturesKilled(incoming, deletes, W, dependsOn)

\* The documents in W were written and those in R removed, out of a payload.
Stored(W, R) ==
  \E dependsOn : /\ \A s \in W : dependsOn[s] \in SUBSET Slug
                 /\ \E st \in [W -> CreatableStatuses] :
                      StoreSlice(W, R, st, dependsOn)

\* It has written some of the documents that may be rewritten, and removed some
\* of those that may be removed, none of which is done.
LEMMA WriteFeaturesStores ==
  ASSUME NEW incoming \in SUBSET Slug, NEW deletes \in SUBSET features,
         WriteFeaturesAnyhow(incoming, deletes)
  PROVE  /\ \E W \in SUBSET Written(incoming), R \in SUBSET Removed(deletes) :
              Stored(W, R)
         /\ \A s \in Removed(deletes) : status[s] # "done"
         /\ torn' \in {torn \ {"graph"}, torn \cup {"graph"}}
<1>1. CASE \E dependsOn \in [incoming -> SUBSET Slug] :
             WriteFeatures(incoming, deletes, dependsOn)
  <2>1. PICK dependsOn \in [incoming -> SUBSET Slug] :
               WriteFeatures(incoming, deletes, dependsOn)
    BY <1>1
  <2>2. \A s \in Written(incoming) : dependsOn[s] \in SUBSET Slug
    BY DEF Written
  <2>3. Stored(Written(incoming), Removed(deletes))
    BY <2>1, <2>2 DEF WriteFeatures, Stored
  <2> QED
    BY <2>1, <2>3 DEF WriteFeatures, ValidSlice
<1>2. CASE \E W \in SUBSET Written(incoming) :
             \E dependsOn \in [W -> SUBSET Slug] :
               WriteFeaturesKilled(incoming, deletes, W, dependsOn)
  <2>1. PICK W \in SUBSET Written(incoming) :
               \E dependsOn \in [W -> SUBSET Slug] :
                 WriteFeaturesKilled(incoming, deletes, W, dependsOn)
    BY <1>2
  <2>2. PICK dependsOn \in [W -> SUBSET Slug] :
               WriteFeaturesKilled(incoming, deletes, W, dependsOn)
    BY <2>1
  <2>3. PICK R \in SUBSET Removed(deletes) :
               \E st \in [W -> CreatableStatuses] : StoreSlice(W, R, st, dependsOn)
    BY <2>2 DEF WriteFeaturesKilled
  <2>4. Stored(W, R)
    BY <2>3 DEF Stored
  <2> QED
    BY <2>2, <2>4 DEF WriteFeaturesKilled, ValidSlice, Killed
<1> QED
  BY <1>1, <1>2 DEF WriteFeaturesAnyhow

-----------------------------------------------------------------------------
(***************************************************************************)
(* Type correctness.                                                       *)
(***************************************************************************)

\* Whatever the writer does, the bundle keeps its shape and a slug without a
\* document its default fields.
THEOREM TypeCorrect == Spec => [](TypeOK /\ AbsentIsBlank)
<1> DEFINE Inv == TypeOK /\ AbsentIsBlank
<1>1. Init => Inv
  BY DEF Init, TypeOK, AbsentIsBlank, FeatureStatuses, RuntimeOrigins, NoStatus
<1>2. Inv /\ [Next]_vars => Inv'
  <2> SUFFICES ASSUME TypeOK, AbsentIsBlank, [Next]_vars
               PROVE  TypeOK' /\ AbsentIsBlank'
    OBVIOUS
  <2> USE DEF TypeOK, AbsentIsBlank, FeatureStatuses, RuntimeOrigins, Doubts,
              NoStatus
  <2>1. ASSUME (\E st \in {"draft", "approved"} : WritePlan(st)) \/ WritePlanKilled
        PROVE  TypeOK' /\ AbsentIsBlank'
    BY <2>1 DEF WritePlan, WritePlanKilled, LeftOver, Killed
  <2>2. ASSUME NEW incoming \in SUBSET Slug, NEW deletes \in SUBSET features,
               WriteFeaturesAnyhow(incoming, deletes)
        PROVE  TypeOK' /\ AbsentIsBlank'
    <3>1. torn' \in SUBSET Doubts
      BY <2>2, WriteFeaturesStores
    <3>2. PICK W \in SUBSET incoming, R \in SUBSET features : Stored(W, R)
      BY <2>2, WriteFeaturesStores DEF Written, Removed
    <3>3. PICK dependsOn : /\ \A s \in W : dependsOn[s] \in SUBSET Slug
                           /\ \E st \in [W -> CreatableStatuses] :
                                StoreSlice(W, R, st, dependsOn)
      BY <3>2 DEF Stored
    <3>4. PICK st \in [W -> CreatableStatuses] : StoreSlice(W, R, st, dependsOn)
      BY <3>3
    <3> QED
      BY <3>1, <3>3, <3>4 DEF StoreSlice, CreatableStatuses
  <2>3. ASSUME NEW s \in Slug, NEW st \in FeatureStatuses, UpdateFeature(s, st)
        PROVE  TypeOK' /\ AbsentIsBlank'
    BY <2>3 DEF UpdateFeature
  <2>4. ASSUME AcceptFeatures
        PROVE  TypeOK' /\ AbsentIsBlank'
    BY <2>4 DEF AcceptFeatures, Promoted
  <2>5. ASSUME NEW from \in Slug, NEW to \in Slug, NEW accept \in BOOLEAN,
               RenameFeature(from, to, accept)
        PROVE  TypeOK' /\ AbsentIsBlank'
    BY <2>5 DEF RenameFeature, MayRename, Promoted, Rewired
  <2>6. ASSUME NEW s \in Slug, CommitFeature(s)
        PROVE  TypeOK' /\ AbsentIsBlank'
    BY <2>6 DEF CommitFeature
  <2>7. ASSUME NEW landed \in SUBSET Slug, AcceptCommit(landed)
        PROVE  TypeOK' /\ AbsentIsBlank'
    BY <2>7 DEF AcceptCommit
  <2>8. ASSUME NEW s \in Slug, RestartFeature(s)
        PROVE  TypeOK' /\ AbsentIsBlank'
    BY <2>8 DEF RestartFeature, RuntimeTouched
  <2>9. ASSUME WriteState \/ RecordPlanReview
        PROVE  TypeOK' /\ AbsentIsBlank'
    BY <2>9 DEF WriteState, RecordPlanReview, RuntimeTouched
  <2>10. ASSUME NEW value \in {"on", "off"}, WriteSettings(value)
         PROVE  TypeOK' /\ AbsentIsBlank'
    BY <2>10 DEF WriteSettings
  <2>11. ASSUME NEW s \in Slug, NEW scrubbed \in SUBSET (Dependents(s) \ {s}),
                CancelFeature(s) \/ CancelFeatureKilled(s, scrubbed)
         PROVE  TypeOK' /\ AbsentIsBlank'
    <3>1. PICK x : Archived(s, x)
      BY <2>11 DEF CancelFeature, CancelFeatureKilled
    <3>2. bypassed' \in BOOLEAN /\ torn' \in SUBSET Doubts
      BY <2>11 DEF CancelFeature, CancelFeatureKilled, Killed
    <3> QED
      BY <3>1, <3>2 DEF Archived
  <2>12. ASSUME NEW force \in BOOLEAN, RetirePlan(force) \/ CancelPlan
         PROVE  TypeOK' /\ AbsentIsBlank'
    BY <2>12 DEF RetirePlan, CancelPlan, ArchivePlan, LeftOver
  <2>13. ASSUME NEW left \in SUBSET features, ArchiveKilled(left)
         PROVE  TypeOK' /\ AbsentIsBlank'
    BY <2>13 DEF ArchiveKilled, LeftOver, Killed
  <2>14. ASSUME NEW from \in Slug, NEW to \in Slug,
                NEW rewired \in SUBSET Dependents(from),
                RenameFeatureKilled(from, to, rewired)
         PROVE  TypeOK' /\ AbsentIsBlank'
    <3>1. features' = (features \ {from}) \cup {to} /\ torn' \in SUBSET Doubts
      BY <2>14 DEF RenameFeatureKilled, Killed
    <3>2. /\ status' \in [Slug -> FeatureStatuses]
          /\ \A s \in Slug \ features' : status'[s] = NoStatus
      BY <2>14, <3>1 DEF RenameFeatureKilled, MayRename
    <3>3. deps' \in [Slug -> SUBSET Slug]
      BY <2>14 DEF RenameFeatureKilled, Rewired
    <3> QED
      BY <2>14, <3>1, <3>2, <3>3 DEF RenameFeatureKilled
  <2>15. CASE UNCHANGED vars
    BY <2>15 DEF vars
  <2> HIDE DEF TypeOK, AbsentIsBlank, FeatureStatuses, RuntimeOrigins, Doubts,
               NoStatus
  <2> QED
    BY <2>1, <2>2, <2>3, <2>4, <2>5, <2>6, <2>7, <2>8, <2>9, <2>10, <2>11,
       <2>12, <2>13, <2>14, <2>15 DEF Next, WriteFeaturesAnyhow
<1> QED
  BY <1>1, <1>2, PTL DEF Spec
-----------------------------------------------------------------------------
(***************************************************************************)
(* The dependency graph.  Resolution comes first: a rename keeps the graph *)
(* acyclic only because nothing refers to the new name beforehand.  What a *)
(* killed operation leaves is in doubt, and stays so, until a features op  *)
(* makes it sound without assuming anything of what was there.             *)
(***************************************************************************)
SoundGraph == Resolved(features, deps) /\ Acyclic(features, deps)

GraphInv == "graph" \notin torn => SoundGraph

\* Whatever was there before, the features op leaves a sound graph when no slug
\* is in both of its lists, since what it validates is then what it writes.
LEMMA WriteFeaturesGraph ==
  ASSUME TypeOK,
         NEW incoming \in SUBSET Slug, NEW deletes \in SUBSET features,
         incoming \cap deletes = {},
         NEW dependsOn \in [incoming -> SUBSET Slug],
         WriteFeatures(incoming, deletes, dependsOn)
  PROVE  SoundGraph'
<1> DEFINE final   == (features \ deletes) \cup incoming
           newDeps == [s \in Slug |-> IF s \in Written(incoming) THEN dependsOn[s]
                                     ELSE deps[s]]
<1>0. PICK st \in [Written(incoming) -> CreatableStatuses] :
             StoreSlice(Written(incoming), Removed(deletes), st, dependsOn)
  BY DEF WriteFeatures
<1>1. features' = final
  BY <1>0 DEF StoreSlice, Written, Removed, DoneProtected
<1>2. \A s \in final : deps'[s] = newDeps[s]
  BY <1>0 DEF StoreSlice, Written, Removed, TypeOK
<1>3. Resolved(final, newDeps) /\ Acyclic(final, newDeps)
  BY DEF WriteFeatures, ValidSlice, SoundSlice
<1>4. Resolved(features', deps')
  BY <1>1, <1>2, <1>3 DEF Resolved
<1>5. Acyclic(features', deps')
  <2>1. final \in SUBSET final /\ \A s \in final : deps'[s] \subseteq newDeps[s]
    BY <1>2
  <2>2. Acyclic(final, deps')
    BY <1>3, <2>1, AcyclicPart
  <2> QED
    BY <1>1, <2>2
<1> QED
  BY <1>4, <1>5 DEF SoundGraph

\* A rename keeps the graph resolved and acyclic.
LEMMA RenameGraph ==
  ASSUME TypeOK, SoundGraph, NEW from \in Slug, NEW to \in Slug,
         NEW accept \in BOOLEAN, RenameFeature(from, to, accept)
  PROVE  SoundGraph'
<1>1. /\ from \in features /\ to \notin features
      /\ features' = (features \ {from}) \cup {to}
      /\ deps'[to] = Rewired(deps[from], from, to)
      /\ \A s \in features \ {from} : deps'[s] = Rewired(deps[s], from, to)
  BY DEF RenameFeature, MayRename, TypeOK
<1>2. Resolved(features', deps')
  BY <1>1 DEF SoundGraph, Resolved, Rewired
<1>3. Acyclic((features \ {from}) \cup {to}, deps')
  BY <1>1, AcyclicRename DEF SoundGraph
<1> QED
  BY <1>1, <1>2, <1>3 DEF SoundGraph

\* Cancelling a feature keeps the graph resolved and acyclic.
LEMMA CancelGraph ==
  ASSUME TypeOK, SoundGraph, NEW s \in Slug, CancelFeature(s)
  PROVE  SoundGraph'
<1>1. /\ features' = features \ {s}
      /\ \A x \in features' : deps'[x] = deps[x] \ {s}
  BY DEF CancelFeature, Archived, TypeOK
<1>2. Resolved(features', deps')
  BY <1>1 DEF SoundGraph, Resolved
<1>3. features' \in SUBSET features /\ \A x \in features' : deps'[x] \subseteq deps[x]
  BY <1>1
<1>4. Acyclic(features', deps')
  BY <1>3, AcyclicPart DEF SoundGraph
<1> QED
  BY <1>2, <1>4 DEF SoundGraph

\* A step that leaves the documents and their depends_on lists alone and lifts
\* no doubt about them, or that archives them all, or that leaves them in
\* doubt, keeps GraphInv.
LEMMA OtherGraph ==
  ASSUME GraphInv,
         \/ UNCHANGED <<features, deps>> /\ ("graph" \in torn => "graph" \in torn')
         \/ features' = {}
         \/ "graph" \in torn'
  PROVE  GraphInv'
BY DEF GraphInv, SoundGraph, Resolved, Acyclic

\* If no features payload names a slug both to write and to delete, every
\* dependency exists and no features wait for one another, except between an
\* operation that was killed and the next re-slice or archiving.
THEOREM GraphCorrect == NoOverlap => (Spec => [](DepsResolve /\ DepsAcyclic))
<1> SUFFICES ASSUME NoOverlap PROVE Spec => [](DepsResolve /\ DepsAcyclic)
  OBVIOUS
<1>1. Init => GraphInv
  BY DEF Init, GraphInv, SoundGraph, Resolved, Acyclic
<1>2. TypeOK /\ GraphInv /\ [Next]_vars => GraphInv'
  <2> SUFFICES ASSUME TypeOK, GraphInv, [Next]_vars PROVE GraphInv'
    OBVIOUS
  <2>1. ASSUME NEW incoming \in SUBSET Slug, NEW deletes \in SUBSET features,
               incoming \cap deletes # {} => OverlappingBatches,
               NEW dependsOn \in [incoming -> SUBSET Slug],
               WriteFeatures(incoming, deletes, dependsOn)
        PROVE  GraphInv'
    BY <2>1, WriteFeaturesGraph DEF NoOverlap, GraphInv
  <2>2. ASSUME NEW from \in Slug, NEW to \in Slug, NEW accept \in BOOLEAN,
               RenameFeature(from, to, accept)
        PROVE  GraphInv'
    BY <2>2, RenameGraph DEF GraphInv, RenameFeature
  <2>3. ASSUME NEW s \in Slug, CancelFeature(s)
        PROVE  GraphInv'
    BY <2>3, CancelGraph DEF GraphInv, CancelFeature
  <2>4. ASSUME (\E st \in {"draft", "approved"} : WritePlan(st)) \/ WritePlanKilled
        PROVE  GraphInv'
    BY <2>4, OtherGraph DEF WritePlan, WritePlanKilled, Killed
  <2>5. ASSUME \E s \in Slug :
                 \/ \E st \in FeatureStatuses : UpdateFeature(s, st)
                 \/ CommitFeature(s)
                 \/ RestartFeature(s)
        PROVE  GraphInv'
    BY <2>5, OtherGraph DEF UpdateFeature, CommitFeature, RestartFeature
  <2>6. ASSUME AcceptFeatures \/ \E landed \in SUBSET Slug : AcceptCommit(landed)
        PROVE  GraphInv'
    BY <2>6, OtherGraph DEF AcceptFeatures, AcceptCommit
  <2>7. ASSUME \/ WriteState \/ RecordPlanReview
               \/ \E value \in {"on", "off"} : WriteSettings(value)
        PROVE  GraphInv'
    BY <2>7, OtherGraph DEF WriteState, RecordPlanReview, WriteSettings
  <2>8. ASSUME CancelPlan \/ \E force \in BOOLEAN : RetirePlan(force)
        PROVE  GraphInv'
    BY <2>8, OtherGraph DEF CancelPlan, RetirePlan, ArchivePlan
  <2>9. ASSUME \/ \E incoming \in SUBSET Slug, deletes \in SUBSET features :
                    \E W \in SUBSET Written(incoming) :
                      \E dependsOn \in [W -> SUBSET Slug] :
                        WriteFeaturesKilled(incoming, deletes, W, dependsOn)
               \/ \E from \in Slug, to \in Slug :
                    \E rewired \in SUBSET Dependents(from) :
                      RenameFeatureKilled(from, to, rewired)
               \/ \E s \in Slug :
                    \E scrubbed \in SUBSET (Dependents(s) \ {s}) :
                      CancelFeatureKilled(s, scrubbed)
               \/ \E left \in SUBSET features : ArchiveKilled(left)
        PROVE  GraphInv'
    <3>1. "graph" \in torn'
      BY <2>9 DEF WriteFeaturesKilled, RenameFeatureKilled,
                  CancelFeatureKilled, ArchiveKilled, Killed
    <3> QED
      BY <3>1, OtherGraph
  <2>10. CASE UNCHANGED vars
    BY <2>10, OtherGraph DEF vars
  <2> QED
    BY <2>1, <2>2, <2>3, <2>4, <2>5, <2>6, <2>7, <2>8, <2>9, <2>10 DEF Next
<1>3. GraphInv => DepsResolve /\ DepsAcyclic
  BY DEF GraphInv, SoundGraph, DepsResolve, DepsAcyclic
<1> QED
  BY <1>1, <1>2, <1>3, TypeCorrect, PTL DEF Spec

\* Under the same condition, and in particular whatever is renamed, cancelled or
\* killed, there is always an unfinished feature to work on: no features wait
\* for one another (writeFeatures, applyAdjustments, cancelFeature).
THEOREM NoneWaitInACircle == NoOverlap => (Spec => []DepsAcyclic)
<1>1. DepsResolve /\ DepsAcyclic => DepsAcyclic
  OBVIOUS
<1> QED
  BY <1>1, GraphCorrect, PTL

-----------------------------------------------------------------------------
(***************************************************************************)
(* Done features.                                                          *)
(***************************************************************************)

\* What the features op leaves of a done feature, killed or not: everything.
LEMMA WriteFeaturesKeepsDone ==
  ASSUME TypeOK, AbsentIsBlank,
         NEW incoming \in SUBSET Slug, NEW deletes \in SUBSET features,
         WriteFeaturesAnyhow(incoming, deletes)
  PROVE  /\ \A s \in Slug :
              /\ status'[s] = "done" <=> status[s] = "done"
              /\ status[s] = "done" => deps'[s] = deps[s] /\ s \in features'
         /\ features' \subseteq Slug
         /\ UNCHANGED <<plan, reviewRequired, runtime, bypassed>>
<1>1. PICK W \in SUBSET Written(incoming), R \in SUBSET Removed(deletes) :
        Stored(W, R)
  BY WriteFeaturesStores
<1>2. PICK dependsOn : \E st \in [W -> CreatableStatuses] :
                         StoreSlice(W, R, st, dependsOn)
  BY <1>1 DEF Stored
<1>3. PICK st \in [W -> CreatableStatuses] : StoreSlice(W, R, st, dependsOn)
  BY <1>2
<1>4. \A s \in R : status[s] # "done"
  BY WriteFeaturesStores
<1>5. \A s \in W : status[s] # "done" /\ st[s] # "done"
  <2>1. ASSUME NEW s \in W PROVE status[s] # "done"
    BY <2>1 DEF Written, DoneProtected, AbsentIsBlank, NoStatus
  <2>2. \A s \in W : st[s] # "done"
    BY DEF CreatableStatuses
  <2> QED
    BY <2>1, <2>2
<1>6. ASSUME NEW s \in Slug
      PROVE  /\ status'[s] = "done" <=> status[s] = "done"
             /\ status[s] = "done" => deps'[s] = deps[s] /\ s \in features'
  <2>1. CASE s \in R
    BY <1>3, <1>4, <2>1 DEF StoreSlice, NoStatus
  <2>2. CASE s \in W \ R
    BY <1>3, <1>5, <2>2 DEF StoreSlice
  <2>3. CASE s \notin R /\ s \notin W
    <3>1. status'[s] = status[s] /\ deps'[s] = deps[s]
      BY <1>3, <2>3 DEF StoreSlice
    <3>2. status[s] = "done" => s \in features
      BY DEF AbsentIsBlank, NoStatus
    <3>3. s \in features => s \in features'
      BY <1>3, <2>3 DEF StoreSlice
    <3> QED
      BY <3>1, <3>2, <3>3
  <2> QED
    BY <2>1, <2>2, <2>3
<1>7. features' \subseteq Slug
  BY <1>3 DEF StoreSlice, Written, TypeOK
<1> QED
  BY <1>3, <1>6, <1>7 DEF StoreSlice

DoneInv == BypassIsRecorded /\ DoneStandsOnDone

\* A step that leaves every done feature done, makes no other feature done and
\* only removes dependencies that are not done keeps DoneInv.
LEMMA DoneUndisturbed ==
  ASSUME DoneInv, AbsentIsBlank,
         bypassed' = bypassed, reviewRequired' = reviewRequired,
         \A s \in Slug : status'[s] = "done" <=> status[s] = "done",
         features' \subseteq Slug,
         \A s \in features' : status[s] = "done" => deps'[s] \subseteq deps[s],
         \A s \in features : deps[s] \subseteq Slug
  PROVE  DoneInv'
<1>1. \A s \in Slug : status[s] = "done" => s \in features
  BY DEF AbsentIsBlank, NoStatus
<1> QED
  BY <1>1 DEF DoneInv, BypassIsRecorded, DoneStandsOnDone

\* Every done feature stands on done features only, until review_required is
\* turned off, update-feature calls a feature done out of order, or a removal is
\* killed.
THEOREM DoneSupported == Spec => []DoneStandsOnDone
<1>1. Init => DoneInv
  BY DEF Init, DoneInv, BypassIsRecorded, DoneStandsOnDone
<1>2. TypeOK /\ AbsentIsBlank /\ DoneInv /\ [Next]_vars => DoneInv'
  <2> SUFFICES ASSUME TypeOK, AbsentIsBlank, DoneInv, [Next]_vars PROVE DoneInv'
    OBVIOUS
  <2>0. features \subseteq Slug /\ \A s \in Slug : deps[s] \subseteq Slug
    BY DEF TypeOK
  <2>1. ASSUME NEW incoming \in SUBSET Slug, NEW deletes \in SUBSET features,
               WriteFeaturesAnyhow(incoming, deletes)
        PROVE  DoneInv'
    <3>1. /\ \A s \in Slug : /\ status'[s] = "done" <=> status[s] = "done"
                             /\ status[s] = "done" => deps'[s] = deps[s]
          /\ UNCHANGED <<bypassed, reviewRequired>>
          /\ features' \subseteq Slug
      BY <2>1, WriteFeaturesKeepsDone
    <3> QED
      BY <2>0, <3>1, DoneUndisturbed
  <2>2. ASSUME NEW s \in Slug, NEW st \in FeatureStatuses, UpdateFeature(s, st)
        PROVE  DoneInv'
    <3>1. \A x \in Slug : x # s => status'[x] = status[x]
      BY <2>2 DEF UpdateFeature, TypeOK
    <3>2. status'[s] = st /\ (status[s] = "done" => st = "done")
      BY <2>2 DEF UpdateFeature, CanTransition, FeatureTransitions,
                  FeatureStatuses, TypeOK
    <3>3. ASSUME ~bypassed', st = "done"
          PROVE  \A d \in deps[s] : status[d] = "done"
      BY <2>2, <3>3 DEF UpdateFeature, DoneInv, BypassIsRecorded, WaitingOn,
                  Satisfied, SatisfiedSet, DepSatisfied
    <3>4. UNCHANGED <<features, deps, reviewRequired>> /\ (bypassed => bypassed')
      BY <2>2 DEF UpdateFeature
    <3>5. DoneStandsOnDone'
      BY <2>0, <3>1, <3>2, <3>3, <3>4 DEF DoneInv, DoneStandsOnDone
    <3> QED
      BY <3>4, <3>5 DEF DoneInv, BypassIsRecorded
  <2>3. ASSUME AcceptFeatures PROVE DoneInv'
    <3>1. \A x \in Slug : status'[x] = "done" <=> status[x] = "done"
      BY <2>3 DEF AcceptFeatures, Promoted
    <3> QED
      BY <2>0, <2>3, <3>1, DoneUndisturbed DEF AcceptFeatures
  <2>4. ASSUME NEW from \in Slug, NEW to \in Slug, NEW accept \in BOOLEAN,
               RenameFeature(from, to, accept)
        PROVE  DoneInv'
    <3>1. status[from] # "done" /\ status[to] # "done"
      BY <2>4 DEF RenameFeature, MayRename, AbsentIsBlank, NoStatus
    <3>2. \A x \in Slug : status'[x] = "done" <=> status[x] = "done"
      BY <2>4, <3>1 DEF RenameFeature, Promoted, NoStatus
    <3>3. /\ UNCHANGED <<bypassed, reviewRequired>>
          /\ features' = (features \ {from}) \cup {to}
          /\ \A x \in features \ {from} : deps'[x] = Rewired(deps[x], from, to)
      BY <2>4 DEF RenameFeature, MayRename, TypeOK
    <3>4. SUFFICES ASSUME ~bypassed, NEW x \in features', status'[x] = "done",
                          NEW y \in deps'[x]
                   PROVE  status'[y] = "done"
      BY <3>3 DEF DoneInv, BypassIsRecorded, DoneStandsOnDone
    <3>5. x \in features /\ x # from /\ status[x] = "done"
      BY <2>0, <2>4, <3>1, <3>2, <3>3, <3>4
    <3>6. PICK z \in deps[x] : y = IF z = from THEN to ELSE z
      BY <3>3, <3>4, <3>5 DEF Rewired
    <3>7. status[z] = "done" /\ z \in Slug
      BY <2>0, <3>4, <3>5, <3>6 DEF DoneInv, DoneStandsOnDone
    <3> QED
      BY <3>1, <3>2, <3>6, <3>7
  <2>5. ASSUME NEW s \in Slug, CommitFeature(s) \/ RestartFeature(s)
        PROVE  DoneInv'
    <3>1. \A x \in Slug : status'[x] = "done" <=> status[x] = "done"
      BY <2>5 DEF CommitFeature, RestartFeature, RestartableStatuses, TypeOK
    <3> QED
      BY <2>0, <2>5, <3>1, DoneUndisturbed DEF CommitFeature, RestartFeature
  <2>6. ASSUME NEW landed \in SUBSET Slug, AcceptCommit(landed)
        PROVE  DoneInv'
    <3>1. /\ UNCHANGED <<features, deps, bypassed, reviewRequired>>
          /\ status' = [s \in Slug |-> IF s \in landed THEN "done" ELSE status[s]]
      BY <2>6 DEF AcceptCommit
    <3>2. SUFFICES ASSUME ~bypassed, NEW x \in features, status'[x] = "done",
                          NEW y \in deps[x]
                   PROVE  status'[y] = "done"
      BY <3>1 DEF DoneInv, BypassIsRecorded, DoneStandsOnDone
    <3>3. status[y] = "done"
      <4>1. CASE status[x] = "done"
        BY <3>2, <4>1 DEF DoneInv, DoneStandsOnDone
      <4>2. CASE status[x] # "done"
        <5>1. x \in landed /\ reviewRequired = "on"
          BY <2>0, <3>1, <3>2, <4>2 DEF DoneInv, BypassIsRecorded
        <5>2. WaitingOn(x) = {}
          BY <2>6, <4>2, <5>1 DEF AcceptCommit
        <5> QED
          BY <3>2, <5>1, <5>2 DEF WaitingOn, Satisfied, SatisfiedSet, DepSatisfied
      <4> QED
        BY <4>1, <4>2
    <3> QED
      BY <2>0, <3>1, <3>3
  <2>7. ASSUME NEW value \in {"on", "off"}, WriteSettings(value)
        PROVE  DoneInv'
    BY <2>7 DEF WriteSettings, DoneInv, BypassIsRecorded, DoneStandsOnDone
  <2>8. ASSUME NEW s \in Slug, CancelFeature(s) PROVE DoneInv'
    <3>1. /\ UNCHANGED <<bypassed, reviewRequired>>
          /\ features' = features \ {s}
          /\ \A x \in features' : status'[x] = status[x] /\ deps'[x] = deps[x] \ {s}
          /\ \A x \in Slug \ {s} : status'[x] = status[x]
      BY <2>0, <2>8 DEF CancelFeature, Archived, TypeOK
    <3> QED
      BY <2>0, <3>1 DEF DoneInv, BypassIsRecorded, DoneStandsOnDone
  <2>9. ASSUME CancelPlan \/ \E force \in BOOLEAN : RetirePlan(force)
        PROVE  DoneInv'
    BY <2>9 DEF CancelPlan, RetirePlan, ArchivePlan, DoneInv, BypassIsRecorded,
                DoneStandsOnDone, TypeOK
  <2>10. CASE \/ \E st \in {"draft", "approved"} : WritePlan(st)
              \/ WritePlanKilled
              \/ WriteState
              \/ RecordPlanReview
              \/ UNCHANGED vars
    BY <2>10 DEF WritePlan, WritePlanKilled, WriteState, RecordPlanReview, vars,
                 DoneInv, BypassIsRecorded, DoneStandsOnDone
  <2>11. ASSUME NEW from \in Slug, NEW to \in Slug,
                NEW rewired \in SUBSET Dependents(from),
                RenameFeatureKilled(from, to, rewired)
         PROVE  DoneInv'
    <3>1. status[from] # "done" /\ status[to] # "done" /\ from # to
      BY <2>11 DEF RenameFeatureKilled, MayRename, AbsentIsBlank, NoStatus
    <3>2. \A x \in Slug : status'[x] = "done" <=> status[x] = "done"
      BY <2>11, <3>1 DEF RenameFeatureKilled, NoStatus, TypeOK
    <3>3. /\ UNCHANGED <<bypassed, reviewRequired>>
          /\ features' = (features \ {from}) \cup {to}
          /\ \A x \in features \ {from} :
               deps'[x] \in {deps[x], Rewired(deps[x], from, to)}
      BY <2>0, <2>11, <3>1 DEF RenameFeatureKilled, MayRename, TypeOK
    <3>4. SUFFICES ASSUME ~bypassed, NEW x \in features', status'[x] = "done",
                          NEW y \in deps'[x]
                   PROVE  status'[y] = "done"
      BY <3>3 DEF DoneInv, BypassIsRecorded, DoneStandsOnDone
    <3>5. x \in features /\ x # from /\ status[x] = "done"
      BY <2>0, <2>11, <3>1, <3>2, <3>3, <3>4
    <3>6. PICK z \in deps[x] : y = z \/ y = IF z = from THEN to ELSE z
      BY <3>3, <3>4, <3>5 DEF Rewired
    <3>7. status[z] = "done" /\ z \in Slug
      BY <2>0, <3>4, <3>5, <3>6 DEF DoneInv, DoneStandsOnDone
    <3> QED
      BY <3>1, <3>2, <3>6, <3>7
  <2>12. ASSUME \/ \E s \in Slug :
                     \E scrubbed \in SUBSET (Dependents(s) \ {s}) :
                       CancelFeatureKilled(s, scrubbed)
                \/ \E left \in SUBSET features : ArchiveKilled(left)
         PROVE  DoneInv'
    BY <2>12 DEF CancelFeatureKilled, ArchiveKilled, DoneInv, BypassIsRecorded,
                 DoneStandsOnDone
  <2> QED
    BY <2>1, <2>2, <2>3, <2>4, <2>5, <2>6, <2>7, <2>8, <2>9, <2>10, <2>11, <2>12
    DEF Next, WriteFeaturesAnyhow
<1>3. DoneInv => DoneStandsOnDone
  BY DEF DoneInv
<1> QED
  BY <1>1, <1>2, <1>3, TypeCorrect, PTL DEF Spec

\* Whatever the callers do, and whatever is killed where, a done feature stays as
\* it is until it is cancelled or the plan is archived.
THEOREM DoneFinality == Spec => DoneIsFinal
<1> DEFINE Final(s) ==
             \/ /\ s \in features'
                /\ status'[s] = "done"
                /\ deps[s] \cap features' \subseteq deps'[s]
             \/ plan' = "none"
             \/ Cancels(s)
           Kept == \A s \in features : status[s] = "done" => Final(s)
<1>1. TypeOK /\ AbsentIsBlank /\ [Next]_vars => [Kept]_vars
  <2> SUFFICES ASSUME TypeOK, AbsentIsBlank, Next,
                      NEW s \in features, status[s] = "done"
               PROVE  Final(s)
    OBVIOUS
  <2>0. s \in Slug
    BY DEF TypeOK
  <2>1. ASSUME NEW incoming \in SUBSET Slug, NEW deletes \in SUBSET features,
               WriteFeaturesAnyhow(incoming, deletes)
        PROVE  Final(s)
    BY <2>0, <2>1, WriteFeaturesKeepsDone
  <2>2. ASSUME NEW x \in Slug, NEW st \in FeatureStatuses, UpdateFeature(x, st)
        PROVE  Final(s)
    BY <2>0, <2>2 DEF UpdateFeature, CanTransition, FeatureTransitions,
                      FeatureStatuses, TypeOK
  <2>3. ASSUME AcceptFeatures PROVE Final(s)
    BY <2>0, <2>3 DEF AcceptFeatures, Promoted
  <2>4. ASSUME NEW from \in Slug, NEW to \in Slug, NEW accept \in BOOLEAN,
               RenameFeature(from, to, accept)
        PROVE  Final(s)
    <3>1. /\ s # from /\ s # to /\ from # to
          /\ features' = (features \ {from}) \cup {to}
      BY <2>4 DEF RenameFeature, MayRename
    <3>2. /\ status'[s] = "done"
          /\ deps'[s] = Rewired(deps[s], from, to)
      BY <2>0, <2>4, <3>1 DEF RenameFeature, Promoted
    <3>3. deps[s] \cap features' \subseteq deps'[s]
      BY <3>1, <3>2 DEF Rewired
    <3> QED
      BY <3>1, <3>2, <3>3
  <2>5. ASSUME NEW x \in Slug, CommitFeature(x) \/ RestartFeature(x)
        PROVE  Final(s)
    BY <2>0, <2>5 DEF CommitFeature, RestartFeature, RestartableStatuses, TypeOK
  <2>6. ASSUME NEW landed \in SUBSET Slug, AcceptCommit(landed)
        PROVE  Final(s)
    BY <2>0, <2>6 DEF AcceptCommit
  <2>7. ASSUME NEW x \in Slug, Cancels(x) PROVE Final(s)
    <3>1. CASE x = s
      BY <2>7, <3>1
    <3>2. CASE x # s
      <4>1. PICK scrubbed : Archived(x, scrubbed)
        BY <2>7 DEF Cancels, CancelFeature, CancelFeatureKilled
      <4> QED
        BY <2>0, <3>2, <4>1 DEF Archived, TypeOK
    <3> QED
      BY <3>1, <3>2
  <2>8. ASSUME \/ CancelPlan
               \/ \E force \in BOOLEAN : RetirePlan(force)
               \/ \E left \in SUBSET features : ArchiveKilled(left)
        PROVE  Final(s)
    BY <2>8 DEF CancelPlan, RetirePlan, ArchivePlan, ArchiveKilled
  <2>9. CASE \/ \E st \in {"draft", "approved"} : WritePlan(st)
             \/ WritePlanKilled
             \/ WriteState
             \/ RecordPlanReview
             \/ \E value \in {"on", "off"} : WriteSettings(value)
    BY <2>9 DEF WritePlan, WritePlanKilled, WriteState, RecordPlanReview,
                WriteSettings
  <2>10. ASSUME NEW from \in Slug, NEW to \in Slug,
                NEW rewired \in SUBSET Dependents(from),
                RenameFeatureKilled(from, to, rewired)
         PROVE  Final(s)
    <3>1. /\ s # from /\ s # to /\ from # to
          /\ features' = (features \ {from}) \cup {to}
      BY <2>10 DEF RenameFeatureKilled, MayRename
    <3>2. /\ status'[s] = "done"
          /\ deps'[s] \in {deps[s], Rewired(deps[s], from, to)}
      BY <2>0, <2>10, <3>1 DEF RenameFeatureKilled, TypeOK
    <3>3. deps[s] \cap features' \subseteq deps'[s]
      BY <3>1, <3>2 DEF Rewired
    <3> QED
      BY <3>1, <3>2, <3>3
  <2> QED
    BY <2>1, <2>2, <2>3, <2>4, <2>5, <2>6, <2>7, <2>8, <2>9, <2>10
    DEF Next, Cancels, Dependents, WriteFeaturesAnyhow
<1>2. Spec => [][Kept]_vars
  BY <1>1, TypeCorrect, PTL DEF Spec
<1> QED
  BY <1>2 DEF DoneIsFinal

-----------------------------------------------------------------------------
(***************************************************************************)
(* The runtime bookkeeping.                                                *)
(***************************************************************************)

\* An approved plan never runs on the bookkeeping of an earlier plan, except
\* when its approval was killed before the reset, until it is repeated.
THEOREM RuntimeIsFresh == Spec => []NoCarryOver
<1>1. Init => NoCarryOver
  BY DEF Init, NoCarryOver
<1>2. NoCarryOver /\ [Next]_vars => NoCarryOver'
  <2> SUFFICES ASSUME NoCarryOver, [Next]_vars PROVE NoCarryOver'
    OBVIOUS
  <2> USE DEF NoCarryOver
  <2>1. ASSUME (\E st \in {"draft", "approved"} : WritePlan(st)) \/ WritePlanKilled
        PROVE  NoCarryOver'
    BY <2>1 DEF WritePlan, WritePlanKilled, Killed
  <2>2. ASSUME \/ WriteState
               \/ RecordPlanReview
               \/ \E s \in Slug : RestartFeature(s)
        PROVE  NoCarryOver'
    BY <2>2 DEF WriteState, RecordPlanReview, RestartFeature, RuntimeTouched
  <2>3. ASSUME \/ CancelPlan
               \/ \E force \in BOOLEAN : RetirePlan(force)
               \/ \E left \in SUBSET features : ArchiveKilled(left)
        PROVE  NoCarryOver'
    BY <2>3 DEF CancelPlan, RetirePlan, ArchivePlan, ArchiveKilled
  <2>4. ASSUME \E incoming \in SUBSET Slug, deletes \in SUBSET features :
                 WriteFeaturesAnyhow(incoming, deletes)
        PROVE  NoCarryOver'
    <3>1. PICK incoming \in SUBSET Slug, deletes \in SUBSET features :
            WriteFeaturesAnyhow(incoming, deletes)
      BY <2>4
    <3>2. "state" \in torn => "state" \in torn'
      BY <3>1, WriteFeaturesStores
    <3>3. PICK W, R : Stored(W, R)
      BY <3>1, WriteFeaturesStores
    <3>4. UNCHANGED <<plan, runtime>>
      BY <3>3 DEF Stored, StoreSlice
    <3> QED
      BY <3>2, <3>4
  <2>5. ASSUME \/ \E s \in Slug, st \in FeatureStatuses : UpdateFeature(s, st)
               \/ AcceptFeatures
               \/ \E s \in Slug : CommitFeature(s)
               \/ \E landed \in SUBSET Slug : AcceptCommit(landed)
               \/ \E value \in {"on", "off"} : WriteSettings(value)
        PROVE  NoCarryOver'
    BY <2>5 DEF UpdateFeature, AcceptFeatures, CommitFeature, AcceptCommit,
                WriteSettings
  <2>6. ASSUME \E from \in Slug, to \in Slug :
                 \/ \E accept \in BOOLEAN : RenameFeature(from, to, accept)
                 \/ \E rewired \in SUBSET Dependents(from) :
                      RenameFeatureKilled(from, to, rewired)
        PROVE  NoCarryOver'
    <3>1. UNCHANGED <<plan, runtime>> /\ ("state" \in torn => "state" \in torn')
      BY <2>6 DEF RenameFeature, RenameFeatureKilled, Killed
    <3> QED
      BY <3>1
  <2>7. ASSUME \E s \in Slug : \/ CancelFeature(s)
                               \/ \E scrubbed \in SUBSET (Dependents(s) \ {s}) :
                                    CancelFeatureKilled(s, scrubbed)
        PROVE  NoCarryOver'
    <3>1. UNCHANGED <<plan, runtime>> /\ ("state" \in torn => "state" \in torn')
      BY <2>7 DEF CancelFeature, CancelFeatureKilled, Archived, Killed
    <3> QED
      BY <3>1
  <2>8. CASE UNCHANGED vars
    BY <2>8 DEF vars
  <2> QED
    BY <2>1, <2>2, <2>3, <2>4, <2>5, <2>6, <2>7, <2>8
    DEF Next, WriteFeaturesAnyhow
<1> QED
  BY <1>1, <1>2, PTL DEF Spec
=============================================================================
