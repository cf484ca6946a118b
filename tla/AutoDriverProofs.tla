--------------------------- MODULE AutoDriverProofs ---------------------------
(***************************************************************************)
(* Proofs about AutoDriver, for any features, limits and number of driver  *)
(* steps under way, and for any human: its types, and that a wave accounts *)
(* for each of its features once.  DriverChainProofs has the rest.         *)
(***************************************************************************)
EXTENDS AutoDriver, FiniteSetTheorems, SequenceTheorems,
        WellFoundedInduction, TLAPS

-----------------------------------------------------------------------------
(***************************************************************************)
(* Types.                                                                  *)
(***************************************************************************)

LEMMA ConstantsAre ==
  /\ None \notin Feature /\ Everything \notin Feature \cup {None}
  /\ Order \in Seq(Feature)
  /\ MaxReviews \in Nat /\ MaxReviews > 0 /\ MaxSteps \in Nat /\ MaxSteps > 0
  /\ MaxActs \in Nat
  /\ IsFiniteSet(KickId) /\ "control" \notin KickId
  /\ "control" \in Job /\ KickId \subseteq Job
BY AutoDriverAssumption DEF Job

\* The jobs that write nothing.
Quiet == {"idle", "ended", "gather", "start-wave", "advance", "discard"}

\* The actions of the human that write state.md once.
Single == {"start", "pause", "continue", "reset", "guide", "restart"}

\* What job j can be: the writes it has left follow from its name.
Shape(j, b) ==
  /\ b \in Jobs
  /\ b.copy # Nothing => b.todo # <<>>
  /\ j = "control" => b.name \in ControlNames
  /\ j # "control" => b.name \in KickNames
  /\ b.name \in Quiet => b.todo = <<>>
  /\ b.name = "dispatch" =>
       /\ b.todo \in {<<"strike", "mark">>, <<"mark">>, <<>>}
       /\ b.cmd.feature \in Feature \cup {None} /\ b.cmd.step \in Steps
  /\ b.name = "wave" =>
       /\ b.todo \in {<<"wave">>, <<>>}
       /\ b.cmd.feature \in Feature /\ b.cmd.step = "implement"
  /\ b.name = "escalate" => b.todo \in {<<"escalated">>, <<>>}
  /\ b.name = "finish" => b.todo \in {<<"finished">>, <<>>}
  /\ b.name = "failed" => b.todo \in {<<"pause">>, <<>>}
  /\ b.name = "waved" => b.todo \in {<<"waved">>, <<>>}
  /\ b.name \in Single => b.todo \in {<<b.name>>, <<>>}

JobInv == job \in [Job -> Jobs] /\ \A j \in Job : Shape(j, job[j])

Named(name) == {k \in KickId : job[k].name = name}

\* Every step counted beyond the limit is an escalation that has not ended.
StepsInv == autoSteps \in Nat /\ autoSteps <= MaxSteps + Cardinality(Named("escalate"))

BundleTypes ==
  /\ DOMAIN status \subseteq Feature /\ status \in [DOMAIN status -> FeatureStatuses]
  /\ conflicted \in SUBSET Feature /\ tested \in SUBSET Feature
  /\ planReviewed \in BOOLEAN

TurnTypes ==
  /\ turn \in Turns /\ (turn.step = "none" <=> turn = NoTurn)
  /\ queue \in Seq([step : Steps \cup {"chat"}, feature : Subject])

HumanTypes ==
  /\ acts \in 0..MaxActs
  /\ unattended \in Nat /\ rounds \in [Feature -> Nat] /\ chains \in Nat
  /\ crowded \in BOOLEAN

WaveTypes ==
  /\ wave \in {NoWave} \cup Waves(Feature)
  /\ waveLog \in [snapshot : Seq(Feature), results : Seq(Results(Feature)), cut : BOOLEAN]

TypeInv ==
  BundleTypes /\ st \in States /\ TurnTypes /\ JobInv /\ StepsInv /\ HumanTypes /\ WaveTypes

LEMMA NothingIsNoState == Nothing \notin States
BY DEF Nothing, States

LEMMA IdleIsJob ==
  /\ IdleJob \in Jobs /\ IdleJob.name = "idle" /\ IdleJob.todo = <<>>
  /\ IdleJob.copy = Nothing
BY DEF IdleJob, Jobs, Command, Nothing, KickNames, Subject, Patches

LEMMA IdleShape == \A j \in Job : Shape(j, IdleJob)
BY IdleIsJob DEF Shape, Quiet, Single, KickNames, ControlNames

\* A kick that has just been started.
LEMMA StartedShape ==
  ASSUME NEW k \in KickId, NEW name \in {"ended", "gather", "start-wave", "advance"}
  PROVE  /\ Shape(k, [IdleJob EXCEPT !.name = name])
         /\ [IdleJob EXCEPT !.name = name].name = name
         /\ [IdleJob EXCEPT !.name = name].todo = <<>>
         /\ [IdleJob EXCEPT !.name = name].copy = Nothing
<1>1. name \in KickNames
  BY DEF KickNames
<1>2. [IdleJob EXCEPT !.name = name] \in Jobs
  BY <1>1, IdleIsJob DEF Jobs
<1>3. /\ [IdleJob EXCEPT !.name = name].name = name
      /\ [IdleJob EXCEPT !.name = name].todo = <<>>
      /\ [IdleJob EXCEPT !.name = name].copy = Nothing
  BY IdleIsJob DEF Jobs
<1> QED
  BY <1>1, <1>2, <1>3, ConstantsAre DEF Shape, Quiet, Single

LEMMA PatchedTypes ==
  ASSUME NEW s \in States, NEW patch \in Patches, NEW cmd,
         patch \in {"mark", "wave"} => cmd.feature \in Feature \cup {None},
         patch = "escalated" => cmd.feature \in Subject
  PROVE  Patched(s, patch, cmd) \in States
<1>0. PhaseOf(cmd.step) \in ActivePhases
  BY DEF PhaseOf, ActivePhases
<1>a. NoStrikes \in [Feature -> Nat] /\ Cleared(s.strikes, cmd.feature) \in [Feature -> Nat]
  BY DEF NoStrikes, Cleared, States
<1>b. [s.strikes EXCEPT ![cmd.feature] = @ + 1] \in [Feature -> Nat]
  <2>1. \A h \in [Feature -> Nat] : \A x : [h EXCEPT ![x] = h[x] + 1] \in [Feature -> Nat]
    <3> TAKE h \in [Feature -> Nat]
    <3> TAKE x
    <3>1. CASE x \in Feature
      BY <3>1
    <3>2. CASE x \notin Feature
      BY <3>2
    <3> QED
      BY <3>1, <3>2
  <2>2. s.strikes \in [Feature -> Nat]
    BY DEF States
  <2> QED
    BY <2>1, <2>2
<1>1. CASE patch = "strike"
  <2>1. Patched(s, patch, cmd) = [s EXCEPT !.strikes[cmd.feature] = @ + 1]
    BY <1>1 DEF Patched
  <2> QED
    BY <2>1, <1>b DEF States
<1>2. CASE patch = "mark"
  BY <1>2, <1>0 DEF Patched, States
<1>3. CASE patch = "escalated"
  BY <1>3 DEF Patched, States, Subject
<1>4. CASE patch \in {"finished", "wave", "waved", "pause"}
  BY <1>4 DEF Patched, States, ActivePhases
<1>5. CASE patch \in {"start", "continue"}
  BY <1>5 DEF Patched, States, ActivePhases
<1>6. CASE patch = "reset"
  BY <1>6, <1>a DEF Patched, States
<1>7. CASE patch = "guide"
  BY <1>7, <1>a DEF Patched, States, ActivePhases
<1>8. CASE patch = "restart"
  BY <1>8, <1>a DEF Patched, States, ActivePhases
<1> QED
  BY <1>1, <1>2, <1>3, <1>4, <1>5, <1>6, <1>7, <1>8 DEF Patches

-----------------------------------------------------------------------------
(***************************************************************************)
(* The operators the driver and the wave are built from.                   *)
(***************************************************************************)

\* A set of natural numbers has a least one.
LEMMA Least ==
  ASSUME NEW N \in SUBSET Nat, N # {}
  PROVE  \E m \in N : \A n \in N : m <= n
<1>1. IsWellFoundedOn(OpToRel(<, Nat), Nat)
  BY NatLessThanWellFounded
<1>2. \E x \in N : \A y \in N : ~(<<y, x>> \in OpToRel(<, Nat))
  BY <1>1, WFMin
<1>3. \A x, y \in Nat : <<y, x>> \in OpToRel(<, Nat) <=> y < x
  BY DEF OpToRel
<1>4. \E x \in N : \A y \in N : ~(y < x)
  BY <1>2, <1>3, Zenon
<1>5. \A x, y \in Nat : ~(y < x) => x <= y
  OBVIOUS
<1> QED
  BY <1>4, <1>5

\* First finds a member wherever there is one.
LEMMA FirstFinds ==
  ASSUME NEW S \in SUBSET Feature
  PROVE  /\ First(S) \in Feature \cup {None}
         /\ First(S) = None <=> S = {}
         /\ First(S) # None => First(S) \in S
<1>1. CASE S = {}
  BY <1>1 DEF First
<1>2. CASE S # {}
  <2> DEFINE N == {n \in DOMAIN Order : Order[n] \in S}
             Min1(n) == n \in DOMAIN Order /\ Order[n] \in S
                          /\ \A m \in 1..(n - 1) : Order[m] \notin S
  <2>1. DOMAIN Order = 1..Len(Order) /\ Len(Order) \in Nat
    BY ConstantsAre
  <2>2. N \in SUBSET Nat /\ N # {}
    BY <1>2, <2>1 DEF Feature
  <2>3. PICK n \in N : \A m \in N : n <= m
    BY <2>2, Least
  <2>4. \A m \in 1..(n - 1) : Order[m] \notin S
    <3> TAKE m \in 1..(n - 1)
    <3>1. n \in 1..Len(Order)
      BY <2>1
    <3>2. m \in DOMAIN Order /\ ~(n <= m)
      BY <3>1, <2>1
    <3> QED
      BY <3>2, <2>3
  <2>5. \E i \in DOMAIN Order : Order[i] \in S /\ \A m \in 1..(i - 1) : Order[m] \notin S
    BY <2>4
  <2>6. First(S) \in S
    BY <1>2, <2>5 DEF First
  <2> QED
    BY <2>6, <1>2, ConstantsAre
<1> QED
  BY <1>1, <1>2

\* The next item of a wave is in its queue and can be dispatched.
LEMMA NextPlaceFinds ==
  ASSUME NEW w \in Waves(Feature), NEW stat, NEW conf
  PROVE  /\ NextPlace(w, stat, conf) \in 0..Len(w.queue)
         /\ NextPlace(w, stat, conf) # 0 =>
              Dispatchable(w.queue[NextPlace(w, stat, conf)], stat, conf)
<1> DEFINE I == {i \in 1..Len(w.queue) : Dispatchable(w.queue[i], stat, conf)}
<1>1. NextPlace(w, stat, conf) = IF I # {} THEN Min(I) ELSE 0
  BY DEF NextPlace, SelectInSeq
<1>2. I # {} => Min(I) \in I
  <2>1. I \in SUBSET Nat
    OBVIOUS
  <2> HIDE DEF I
  <2> QED
    BY Least, <2>1 DEF Min
<1>3. w.queue \in Seq(Feature) /\ Len(w.queue) \in Nat
  BY DEF Waves
<1> QED
  BY <1>1, <1>2, <1>3

LEMMA ActiveOfIs ==
  ASSUME NEW w \in Waves(Feature)
  PROVE  /\ ActiveOf(w) \in Seq(Feature)
         /\ w.active = None => ActiveOf(w) = <<>>
         /\ w.active # None => ActiveOf(w) = <<w.active>> /\ w.active \in Feature
BY DEF ActiveOf, Waves

\* What the step of a wave leaves is a wave.
LEMMA NextWaveTypes ==
  ASSUME NEW w \in Waves(Feature), NEW stat, NEW conf
  PROVE  LET next == NextFeatureWave(w, stat, conf)
             n == NextPlace(w, stat, conf)
             passed == Passed(w, n)
             verdict == [i \in DOMAIN ActiveOf(w) |-> Verdict(w.active, stat)]
             rest == [i \in DOMAIN passed |-> PassedOver(passed[i], stat, conf)]
         IN  /\ next \in Waves(Feature)
             /\ next.queue = IF n = 0 THEN <<>> ELSE SubSeq(w.queue, n + 1, Len(w.queue))
             /\ next.active = IF n = 0 THEN None ELSE w.queue[n]
             /\ next.results = w.results \o verdict \o rest
             /\ passed \in Seq(Feature) /\ n \in 0..Len(w.queue)
             /\ verdict \in Seq(Results(Feature)) /\ rest \in Seq(Results(Feature))
<1> DEFINE next == NextFeatureWave(w, stat, conf)
           n == NextPlace(w, stat, conf)
           passed == Passed(w, n)
           verdict == [i \in DOMAIN ActiveOf(w) |-> Verdict(w.active, stat)]
           rest == [i \in DOMAIN passed |-> PassedOver(passed[i], stat, conf)]
<1>1. w.queue \in Seq(Feature) /\ w.results \in Seq(Results(Feature)) /\ Len(w.queue) \in Nat
  BY DEF Waves
<1>2. n \in 0..Len(w.queue)
  BY <1>1, NextPlaceFinds
<1>3. passed \in Seq(Feature)
  <2> HIDE DEF n
  <2> QED
    BY <1>1, <1>2 DEF Passed
<1>4. \A f \in Feature : Verdict(f, stat) \in Results(Feature)
                           /\ PassedOver(f, stat, conf) \in Results(Feature)
  BY DEF Verdict, PassedOver, Result, Results
<1>5. verdict \in Seq(Results(Feature))
  BY <1>4, ActiveOfIs
<1>6. rest \in Seq(Results(Feature))
  <2>1. DOMAIN passed = 1..Len(passed) /\ Len(passed) \in Nat
          /\ \A i \in 1..Len(passed) : passed[i] \in Feature
    BY <1>3
  <2> HIDE DEF passed
  <2> QED
    BY <2>1, <1>4
<1>7. next = [queue |-> IF n = 0 THEN <<>> ELSE SubSeq(w.queue, n + 1, Len(w.queue)),
              active |-> IF n = 0 THEN None ELSE w.queue[n],
              results |-> w.results \o verdict \o rest,
              abortPending |-> FALSE]
  BY DEF NextFeatureWave
<1> HIDE DEF next, n, passed, verdict, rest
<1>8. /\ next.queue = IF n = 0 THEN <<>> ELSE SubSeq(w.queue, n + 1, Len(w.queue))
      /\ next.active = IF n = 0 THEN None ELSE w.queue[n]
      /\ next.results = w.results \o verdict \o rest
  BY <1>7
<1>9. w.results \o verdict \o rest \in Seq(Results(Feature))
  BY <1>1, <1>5, <1>6
<1>10. /\ (IF n = 0 THEN <<>> ELSE SubSeq(w.queue, n + 1, Len(w.queue))) \in Seq(Feature)
       /\ (IF n = 0 THEN None ELSE w.queue[n]) \in Feature \cup {None}
  BY <1>1, <1>2
<1>11. next \in Waves(Feature)
  BY <1>7, <1>9, <1>10 DEF Waves
<1> QED
  BY <1>2, <1>3, <1>5, <1>6, <1>8, <1>11 DEF next, n, passed, verdict, rest

\* What nextAutoAction decides, and when.
LEMMA NextActionCases ==
  ASSUME BundleTypes, st \in States
  PROVE  \/ NextAutoAction = IdleJob /\ ~Driven
         \/ /\ Driven /\ NeedsWork /\ st.active \in Feature
            /\ \/ NextAutoAction = Escalate(st.active)
               \/ /\ st.strikes[st.active] + 1 < MaxReviews
                  /\ NextAutoAction = Decision("dispatch", <<"strike", "mark">>,
                                               Command("implement", st.active))
         \/ /\ Driven /\ ~NeedsWork /\ Awaiting \in Feature
            /\ Awaiting \in Present /\ status[Awaiting] = "implemented"
            /\ NextAutoAction = Dispatch("review", Awaiting)
         \/ /\ Driven /\ ~NeedsWork
            /\ \A f \in Present : status[f] # "implemented"
            /\ \/ \E f \in Feature \cup {Everything} : NextAutoAction = Escalate(f)
               \/ \E step \in {"test", "implement", "plan-review"} :
                    \E f \in Feature \cup {None} :
                      NextAutoAction = Dispatch(step, f) /\ (step = "plan-review" => f = None)
               \/ NextAutoAction = Finish
<1> DEFINE Waiting == {f \in Present : status[f] = "implemented"}
<1>1. Waiting \in SUBSET Feature /\ Awaiting = First(Waiting)
  BY DEF BundleTypes, Present, Awaiting
<1>2. ReadyFeatures \in SUBSET Feature
  BY DEF BundleTypes, Present, ReadyFeatures
<1>3. Ready \in Feature \cup {None}
  BY <1>2, FirstFinds DEF Ready
<1>4. CASE ~Driven
  BY <1>4 DEF NextAutoAction
<1>5. CASE Driven /\ NeedsWork
  <2>1. st.active \in Feature /\ st.strikes[st.active] \in Nat
    BY <1>5 DEF NeedsWork, BundleTypes, Present, States
  <2>2. CASE st.strikes[st.active] + 1 >= MaxReviews
    BY <1>5, <2>1, <2>2 DEF NextAutoAction
  <2>3. CASE ~(st.strikes[st.active] + 1 >= MaxReviews)
    <3>1. NextAutoAction =
            [Dispatch("implement", st.active) EXCEPT !.todo = <<"strike", "mark">>]
      BY <1>5, <2>3 DEF NextAutoAction
    <3>2. st.strikes[st.active] + 1 < MaxReviews
      BY <2>1, <2>3, ConstantsAre
    <3>3. \A c : [Decision("dispatch", <<"mark">>, c) EXCEPT !.todo = <<"strike", "mark">>]
                   = Decision("dispatch", <<"strike", "mark">>, c)
      BY DEF Decision
    <3> QED
      BY <1>5, <2>1, <3>1, <3>2, <3>3 DEF Dispatch
  <2> QED
    BY <2>2, <2>3
<1>6. CASE Driven /\ ~NeedsWork /\ Awaiting # None
  <2>1. Awaiting \in Waiting
    BY <1>1, <1>6, FirstFinds
  <2>2. NextAutoAction = Dispatch("review", Awaiting)
    BY <1>6 DEF NextAutoAction
  <2> HIDE DEF Waiting
  <2> QED
    BY <1>1, <1>6, <2>1, <2>2 DEF Waiting
<1>7. CASE Driven /\ ~NeedsWork /\ Awaiting = None
  <2>1. Waiting = {}
    BY <1>1, <1>7, FirstFinds
  <2>2. CASE Ready # None
    <3>1. NextAutoAction = ForReady(Ready)
      BY <1>7, <2>2 DEF NextAutoAction
    <3> QED
      BY <1>7, <1>3, <2>1, <2>2, <3>1 DEF ForReady
  <2>3. CASE Ready = None
    <3>1. NextAutoAction = Wrap
      BY <1>7, <2>3 DEF NextAutoAction
    <3> QED
      BY <1>7, <2>1, <3>1 DEF Wrap
  <2> QED
    BY <2>2, <2>3
<1> QED
  BY <1>4, <1>5, <1>6, <1>7

\* It is a job that a kick can be, and none that has written anything.
LEMMA NextActionShape ==
  ASSUME BundleTypes, st \in States, NEW k \in KickId
  PROVE  /\ Shape(k, NextAutoAction) /\ Shape(k, Counted(NextAutoAction))
         /\ NextAutoAction.name \in {"idle", "dispatch", "escalate", "finish"}
         /\ NextAutoAction.copy = Nothing
         /\ Counted(NextAutoAction) =
              IF NextAutoAction.name = "dispatch" /\ autoSteps + 1 > MaxSteps
              THEN Escalate(Everything) ELSE NextAutoAction
         /\ Counted(NextAutoAction).copy = Nothing
         /\ Counted(NextAutoAction).name =
              IF NextAutoAction.name = "dispatch" /\ autoSteps + 1 > MaxSteps
              THEN "escalate" ELSE NextAutoAction.name
<1>1. k \in Job /\ k # "control"
  BY ConstantsAre
<1>0. /\ <<"escalated">> \in Seq(Patches) /\ <<"finished">> \in Seq(Patches)
      /\ <<"mark">> \in Seq(Patches) /\ <<"strike", "mark">> \in Seq(Patches)
      /\ "none" \in Steps \cup {"none"} /\ None \in Subject
      /\ {"escalate", "finish", "dispatch"} \subseteq KickNames
  BY DEF Patches, KickNames, Subject
<1>2. \A f \in Feature \cup {Everything} :
        Shape(k, Escalate(f)) /\ Escalate(f).name = "escalate" /\ Escalate(f).copy = Nothing
  <2> TAKE f \in Feature \cup {Everything}
  <2>1. /\ Escalate(f) \in Jobs /\ Escalate(f).name = "escalate"
        /\ Escalate(f).todo = <<"escalated">> /\ Escalate(f).copy = Nothing
    BY <1>0 DEF Escalate, Decision, Command, Jobs, Nothing, Subject
  <2> QED
    BY <1>0, <1>1, <2>1 DEF Shape, Quiet, Single
<1>3. \A step \in {"test", "implement", "review", "plan-review"}, f \in Feature \cup {None} :
        /\ Shape(k, Dispatch(step, f)) /\ Dispatch(step, f).name = "dispatch"
        /\ Dispatch(step, f).copy = Nothing
  <2> TAKE step \in {"test", "implement", "review", "plan-review"}, f \in Feature \cup {None}
  <2>1. /\ Dispatch(step, f) \in Jobs /\ Dispatch(step, f).name = "dispatch"
        /\ Dispatch(step, f).todo = <<"mark">> /\ Dispatch(step, f).copy = Nothing
        /\ Dispatch(step, f).cmd.step = step /\ Dispatch(step, f).cmd.feature = f
    BY <1>0 DEF Dispatch, Decision, Command, Jobs, Nothing, Subject, Steps
  <2> QED
    BY <1>0, <1>1, <2>1 DEF Shape, Quiet, Single, Steps
<1>4. Shape(k, Finish) /\ Finish.name = "finish" /\ Finish.copy = Nothing
  <2>1. /\ Finish \in Jobs /\ Finish.name = "finish"
        /\ Finish.todo = <<"finished">> /\ Finish.copy = Nothing
    BY <1>0 DEF Finish, Decision, Command, Jobs, Nothing
  <2> QED
    BY <1>0, <1>1, <2>1 DEF Shape, Quiet, Single
<1>5. \A f \in Feature :
        LET d == Decision("dispatch", <<"strike", "mark">>, Command("implement", f))
        IN  Shape(k, d) /\ d.name = "dispatch" /\ d.copy = Nothing
  <2> TAKE f \in Feature
  <2> DEFINE d == Decision("dispatch", <<"strike", "mark">>, Command("implement", f))
  <2>1. /\ d \in Jobs /\ d.name = "dispatch"
        /\ d.todo = <<"strike", "mark">> /\ d.copy = Nothing
        /\ d.cmd.step = "implement" /\ d.cmd.feature = f
    BY <1>0 DEF Decision, Command, Jobs, Nothing, Subject, Steps
  <2> HIDE DEF d
  <2>2. Shape(k, d)
    BY <1>0, <1>1, <2>1 DEF Shape, Quiet, Single, Steps
  <2> QED
    BY <2>1, <2>2 DEF d
<1>6. /\ Shape(k, NextAutoAction)
      /\ NextAutoAction.name \in {"idle", "dispatch", "escalate", "finish"}
      /\ NextAutoAction.copy = Nothing
  <2>1. CASE NextAutoAction = IdleJob
    BY <1>1, <2>1, IdleShape, IdleIsJob
  <2>2. CASE \E f \in Feature \cup {Everything} : NextAutoAction = Escalate(f)
    BY <2>2, <1>2
  <2>3. CASE \E step \in {"test", "implement", "review", "plan-review"} :
               \E f \in Feature \cup {None} : NextAutoAction = Dispatch(step, f)
    BY <2>3, <1>3
  <2>4. CASE NextAutoAction = Finish
    BY <2>4, <1>4
  <2>5. CASE \E f \in Feature : NextAutoAction =
               Decision("dispatch", <<"strike", "mark">>, Command("implement", f))
    BY <2>5, <1>5
  <2> QED
    BY <2>1, <2>2, <2>3, <2>4, <2>5, NextActionCases
<1>7. Counted(NextAutoAction) =
        IF NextAutoAction.name = "dispatch" /\ autoSteps + 1 > MaxSteps
        THEN Escalate(Everything) ELSE NextAutoAction
  BY DEF Counted
<1> QED
  BY <1>2, <1>6, <1>7

-----------------------------------------------------------------------------
(***************************************************************************)
(* Every step keeps the types.                                             *)
(***************************************************************************)

\* One job changes, to something it can be.
LEMMA JobUpdate ==
  ASSUME JobInv, NEW j \in Job, NEW b, Shape(j, b), job' = [job EXCEPT ![j] = b]
  PROVE  JobInv' /\ job'[j] = b /\ \A i \in Job \ {j} : job'[i] = job[i]
<1>1. b \in Jobs
  BY DEF Shape
<1>2. job' \in [Job -> Jobs] /\ job'[j] = b /\ \A i \in Job \ {j} : job'[i] = job[i]
  BY <1>1 DEF JobInv
<1>3. \A i \in Job : Shape(i, job'[i])
  BY <1>2 DEF JobInv
<1> QED
  BY <1>2, <1>3 DEF JobInv

LEMMA LoadShape ==
  ASSUME NEW j \in Job, NEW b, Shape(j, b), b.todo # <<>>, NEW s \in States
  PROVE  LET c == [b EXCEPT !.copy = s]
         IN  /\ Shape(j, c) /\ c.name = b.name /\ c.todo = b.todo /\ c.cmd = b.cmd
             /\ c.copy = s
<1> DEFINE c == [b EXCEPT !.copy = s]
<1>1. b \in Jobs
  BY DEF Shape
<1>2. c \in Jobs /\ c.name = b.name /\ c.todo = b.todo /\ c.cmd = b.cmd /\ c.copy = s
  BY <1>1 DEF Jobs
<1> HIDE DEF c
<1>3. Shape(j, c)
  BY <1>2 DEF Shape
<1> QED
  BY <1>2, <1>3 DEF c

\* The names under which each write can be, and what is left after it.
LEMMA WritesAre ==
  ASSUME NEW j \in Job, NEW b, Shape(j, b), b.todo # <<>>
  PROVE  \/ b.name = "dispatch" /\ b.todo = <<"strike", "mark">>
              /\ Head(b.todo) = "strike" /\ Tail(b.todo) = <<"mark">>
         \/ b.name = "dispatch" /\ Head(b.todo) = "mark" /\ Tail(b.todo) = <<>>
         \/ b.name = "wave" /\ Head(b.todo) = "wave" /\ Tail(b.todo) = <<>>
         \/ b.name = "escalate" /\ Head(b.todo) = "escalated" /\ Tail(b.todo) = <<>>
         \/ b.name = "finish" /\ Head(b.todo) = "finished" /\ Tail(b.todo) = <<>>
         \/ b.name = "failed" /\ Head(b.todo) = "pause" /\ Tail(b.todo) = <<>>
         \/ b.name = "waved" /\ Head(b.todo) = "waved" /\ Tail(b.todo) = <<>>
         \/ b.name \in Single /\ Head(b.todo) = b.name /\ Tail(b.todo) = <<>>
<1>0. /\ \A x : Head(<<x>>) = x /\ Tail(<<x>>) = <<>>
      /\ Head(<<"strike", "mark">>) = "strike" /\ Tail(<<"strike", "mark">>) = <<"mark">>
  OBVIOUS
<1>1. b.name \in KickNames \cup ControlNames
  BY DEF Shape
<1>2. CASE b.name = "dispatch"
  <2>1. b.todo = <<"strike", "mark">> \/ b.todo = <<"mark">>
    BY <1>2 DEF Shape
  <2>2. CASE b.todo = <<"strike", "mark">>
    BY <1>0, <1>2, <2>2
  <2>3. CASE b.todo = <<"mark">>
    BY <1>0, <1>2, <2>3
  <2> QED
    BY <2>1, <2>2, <2>3
<1>3. CASE b.name \in Single
  <2>1. b.todo = <<b.name>>
    BY <1>3 DEF Shape
  <2> QED
    BY <1>0, <1>3, <2>1
<1>4. CASE b.name \notin Single /\ b.name # "dispatch"
  <2>1. b.name \in {"wave", "escalate", "finish", "failed", "waved"}
    BY <1>1, <1>4 DEF Shape, Quiet, Single, KickNames, ControlNames
  <2>2. \/ b.name = "wave" /\ b.todo = <<"wave">>
        \/ b.name = "escalate" /\ b.todo = <<"escalated">>
        \/ b.name = "finish" /\ b.todo = <<"finished">>
        \/ b.name = "failed" /\ b.todo = <<"pause">>
        \/ b.name = "waved" /\ b.todo = <<"waved">>
    BY <2>1 DEF Shape
  <2> QED
    BY <1>0, <2>2
<1> QED
  BY <1>2, <1>3, <1>4

LEMMA StoreShape ==
  ASSUME NEW j \in Job, NEW b, Shape(j, b), b.copy # Nothing
  PROVE  LET c == [b EXCEPT !.copy = Nothing, !.todo = Tail(@)]
         IN  /\ Shape(j, c) /\ c.name = b.name /\ c.todo = Tail(b.todo)
             /\ c.cmd = b.cmd /\ c.copy = Nothing
             /\ b.todo # <<>> /\ b.copy \in States
             /\ Patched(b.copy, Head(b.todo), b.cmd) \in States
<1> DEFINE c == [b EXCEPT !.copy = Nothing, !.todo = Tail(@)]
<1>1. b \in Jobs /\ b.todo # <<>> /\ b.copy \in States
  BY DEF Shape, Jobs
<1>2. Tail(b.todo) \in Seq(Patches) /\ Head(b.todo) \in Patches
  BY <1>1 DEF Jobs
<1>3. c \in Jobs /\ c.name = b.name /\ c.todo = Tail(b.todo) /\ c.cmd = b.cmd
        /\ c.copy = Nothing
  BY <1>1, <1>2 DEF Jobs
<1> HIDE DEF c
<1>4. Shape(j, c)
  <2>1. CASE b.name = "dispatch" /\ b.todo = <<"strike", "mark">>
    BY <1>3, <2>1 DEF Shape, Quiet, Single
  <2>2. CASE Tail(b.todo) = <<>>
    BY <1>3, <2>2 DEF Shape
  <2> QED
    BY <2>1, <2>2, <1>1, WritesAre
<1>5. Patched(b.copy, Head(b.todo), b.cmd) \in States
  <2>1. Head(b.todo) \in {"mark", "wave"} => b.cmd.feature \in Feature \cup {None}
    BY <1>1, WritesAre DEF Shape, Single
  <2>2. b.cmd.feature \in Subject
    BY <1>1 DEF Jobs
  <2> QED
    BY <1>1, <1>2, <2>1, <2>2, PatchedTypes
<1> QED
  BY <1>1, <1>3, <1>4, <1>5 DEF c

\* A step that is started takes a free kick.
LEMMA StartedIs ==
  ASSUME NEW jobs, NEW name, FreeKicks # {}
  PROVE  \E k \in FreeKicks : Started(jobs, name) =
           [jobs EXCEPT ![k] = [IdleJob EXCEPT !.name = name]]
<1>1. (CHOOSE k \in FreeKicks : TRUE) \in FreeKicks
  OBVIOUS
<1> QED
  BY <1>1 DEF Started

\* Unless the count starts again, no escalation ends.
LEMMA StepsKept ==
  ASSUME StepsInv,
         \/ autoSteps' = 0
         \/ /\ autoSteps' = autoSteps
            /\ \A k \in KickId : job[k].name = "escalate" => job'[k].name = "escalate"
  PROVE  StepsInv'
<1>1. /\ Named("escalate") \in SUBSET KickId /\ Named("escalate")' \in SUBSET KickId
      /\ IsFiniteSet(KickId)
  BY ConstantsAre DEF Named
<1>2. IsFiniteSet(Named("escalate")')
  BY <1>1, FS_Subset
<1>3. Cardinality(Named("escalate")') \in Nat
  BY <1>2, FS_CardinalityType
<1>4. CASE autoSteps' = 0
  BY <1>3, <1>4, ConstantsAre DEF StepsInv
<1>5. CASE /\ autoSteps' = autoSteps
           /\ \A k \in KickId : job[k].name = "escalate" => job'[k].name = "escalate"
  <2>1. Named("escalate") \in SUBSET Named("escalate")'
    BY <1>5 DEF Named
  <2>2. /\ Cardinality(Named("escalate")) \in Nat
        /\ Cardinality(Named("escalate")) <= Cardinality(Named("escalate")')
    BY <1>2, <2>1, FS_Subset, FS_CardinalityType
  <2> QED
    BY <1>3, <1>5, <2>2, ConstantsAre DEF StepsInv
<1> QED
  BY <1>4, <1>5

LEMMA WritesKeepTypes ==
  ASSUME TypeInv, NEW j \in Job, Load(j) \/ Store(j)
  PROVE  TypeInv'
<1>0. job \in [Job -> Jobs] /\ Shape(j, job[j]) /\ JobInv /\ StepsInv /\ st \in States
  BY DEF TypeInv, JobInv
<1>1. UNCHANGED <<bundle, turn, queue, autoSteps, human, waves>>
  BY DEF Load, Store, agent
<1>2. CASE Load(j)
  <2> DEFINE c == [job[j] EXCEPT !.copy = st]
  <2>1. job' = [job EXCEPT ![j] = c] /\ st' = st /\ job[j].todo # <<>>
    BY <1>2 DEF Load
  <2>2. Shape(j, c) /\ c.name = job[j].name
    BY <1>0, <2>1, LoadShape
  <2> HIDE DEF c
  <2>3. JobInv' /\ \A k \in KickId : job'[k].name = job[k].name
    BY <1>0, <2>1, <2>2, JobUpdate, ConstantsAre
  <2>4. StepsInv'
    BY <1>0, <1>1, <2>3, StepsKept
  <2> QED
    BY <1>1, <2>1, <2>3, <2>4
    DEF TypeInv, BundleTypes, TurnTypes, HumanTypes, WaveTypes, bundle, human, waves
<1>3. CASE Store(j)
  <2> DEFINE c == [job[j] EXCEPT !.copy = Nothing, !.todo = Tail(@)]
  <2>1. /\ job' = [job EXCEPT ![j] = c] /\ job[j].copy # Nothing
        /\ st' = Patched(job[j].copy, Head(job[j].todo), job[j].cmd)
    BY <1>3 DEF Store
  <2>2. Shape(j, c) /\ c.name = job[j].name /\ st' \in States
    BY <1>0, <2>1, StoreShape
  <2> HIDE DEF c
  <2>3. JobInv' /\ \A k \in KickId : job'[k].name = job[k].name
    BY <1>0, <2>1, <2>2, JobUpdate, ConstantsAre
  <2>4. StepsInv'
    BY <1>0, <1>1, <2>3, StepsKept
  <2> QED
    BY <1>1, <2>2, <2>3, <2>4
    DEF TypeInv, BundleTypes, TurnTypes, HumanTypes, WaveTypes, bundle, human, waves
<1> QED
  BY <1>2, <1>3

LEMMA GatherKeepsTypes ==
  ASSUME TypeInv, NEW k \in KickId, Gather(k)
  PROVE  TypeInv'
<1> DEFINE d == NextAutoAction
           b == Counted(NextAutoAction)
<1>0. /\ job \in [Job -> Jobs] /\ JobInv /\ StepsInv /\ st \in States /\ BundleTypes
      /\ k \in Job /\ job[k].name \in {"gather", "ended"}
  BY ConstantsAre DEF TypeInv, JobInv, Gather
<1>1. /\ job' = [job EXCEPT ![k] = b]
      /\ autoSteps' = autoSteps + (IF d.name = "dispatch" THEN 1 ELSE 0)
      /\ UNCHANGED <<bundle, st, turn, queue, human, waves>>
  BY DEF Gather, agent
<1>2. /\ Shape(k, b)
      /\ b.name = IF d.name = "dispatch" /\ autoSteps + 1 > MaxSteps
                  THEN "escalate" ELSE d.name
  BY <1>0, NextActionShape
<1> HIDE DEF b, d
<1>3. JobInv' /\ job'[k] = b /\ \A i \in Job \ {k} : job'[i] = job[i]
  BY <1>0, <1>1, <1>2, JobUpdate
<1>4. StepsInv'
  <2>1. CASE d.name # "dispatch"
    <3>1. autoSteps' = autoSteps
      BY <1>0, <1>1, <2>1 DEF StepsInv
    <3>2. \A i \in KickId : job[i].name = "escalate" => job'[i].name = "escalate"
      BY <1>0, <1>3, ConstantsAre
    <3> QED
      BY <1>0, <3>1, <3>2, StepsKept
  <2>2. CASE d.name = "dispatch" /\ autoSteps + 1 > MaxSteps
    <3>1. /\ Named("escalate")' = Named("escalate") \cup {k} /\ k \notin Named("escalate")
          /\ Named("escalate") \in SUBSET KickId
      BY <1>0, <1>2, <1>3, <2>2, ConstantsAre DEF Named
    <3>2. IsFiniteSet(Named("escalate"))
      BY <3>1, ConstantsAre, FS_Subset
    <3>3. /\ Cardinality(Named("escalate")') = Cardinality(Named("escalate")) + 1
          /\ Cardinality(Named("escalate")) \in Nat
      BY <3>1, <3>2, FS_AddElement, FS_CardinalityType
    <3> QED
      BY <1>0, <1>1, <2>2, <3>3, ConstantsAre DEF StepsInv
  <2>3. CASE d.name = "dispatch" /\ ~(autoSteps + 1 > MaxSteps)
    <3>1. Named("escalate")' \in SUBSET KickId
      BY DEF Named
    <3>2. Cardinality(Named("escalate")') \in Nat
      BY <3>1, ConstantsAre, FS_Subset, FS_CardinalityType
    <3> QED
      BY <1>0, <1>1, <2>3, <3>2, ConstantsAre DEF StepsInv
  <2> QED
    BY <2>1, <2>2, <2>3
<1> QED
  BY <1>1, <1>3, <1>4
  DEF TypeInv, BundleTypes, TurnTypes, HumanTypes, WaveTypes, bundle, human, waves

\* One more kick becomes idle, or something else that is not an escalation.
LEMMA KickEndsTypes ==
  ASSUME TypeInv, NEW k \in KickId, NEW b, Shape(k, b),
         job' = [job EXCEPT ![k] = b],
         \/ autoSteps' = 0
         \/ autoSteps' = autoSteps /\ job[k].name # "escalate"
  PROVE  JobInv' /\ StepsInv' /\ job'[k] = b /\ \A i \in Job \ {k} : job'[i] = job[i]
<1>1. JobInv /\ StepsInv /\ k \in Job
  BY ConstantsAre DEF TypeInv
<1>2. JobInv' /\ job'[k] = b /\ \A i \in Job \ {k} : job'[i] = job[i]
  BY <1>1, JobUpdate
<1>3. \/ autoSteps' = 0
      \/ /\ autoSteps' = autoSteps
         /\ \A i \in KickId : job[i].name = "escalate" => job'[i].name = "escalate"
  BY <1>1, <1>2, ConstantsAre
<1>4. StepsInv'
  BY <1>1, <1>3, StepsKept
<1> QED
  BY <1>2, <1>4

LEMMA DispatchKeepsTypes ==
  ASSUME TypeInv, NEW k \in KickId, DispatchStep(k) \/ DispatchFails(k) \/ EndKick(k)
  PROVE  TypeInv'
<1>0. /\ job \in [Job -> Jobs] /\ Shape(k, job[k]) /\ Shape(k, IdleJob) /\ k \in Job
      /\ TurnTypes /\ HumanTypes
  BY ConstantsAre, IdleShape DEF TypeInv, JobInv
<1>1. CASE DispatchStep(k)
  <2>1. /\ job' = [job EXCEPT ![k] = IdleJob] /\ autoSteps' = autoSteps
        /\ job[k].name = "dispatch"
        /\ UNCHANGED <<bundle, st, turn, acts, chains, crowded, waves>>
    BY <1>1 DEF DispatchStep, Written
  <2>2. JobInv' /\ StepsInv'
    BY <1>0, <2>1, KickEndsTypes
  <2>3. job[k].cmd \in [step : Steps \cup {"chat"}, feature : Subject]
    <3>1. job[k].cmd \in [step : Steps \cup {"none"}, feature : Subject]
      BY <1>0 DEF Jobs
    <3>2. job[k].cmd.step \in Steps
      BY <1>0, <2>1 DEF Shape
    <3> QED
      BY <3>1, <3>2
  <2>4. queue' \in Seq([step : Steps \cup {"chat"}, feature : Subject])
    BY <1>0, <1>1, <2>3, AppendProperties DEF DispatchStep, TurnTypes
  <2>5. unattended' \in Nat /\ rounds' \in [Feature -> Nat]
    BY <1>0, <1>1 DEF DispatchStep, HumanTypes
  <2> QED
    BY <2>1, <2>2, <2>4, <2>5
    DEF TypeInv, BundleTypes, TurnTypes, HumanTypes, WaveTypes, bundle, waves
<1>2. CASE DispatchFails(k)
  <2> DEFINE b == [job[k] EXCEPT !.name = "failed", !.todo = <<"pause">>]
  <2>1. /\ job' = [job EXCEPT ![k] = b] /\ autoSteps' = autoSteps
        /\ job[k].name = "dispatch" /\ job[k].todo = <<>>
        /\ UNCHANGED <<bundle, st, turn, queue, human, waves>>
    BY <1>2 DEF DispatchFails, Written, agent
  <2>a. "failed" \in KickNames \cup ControlNames /\ <<"pause">> \in Seq(Patches)
    BY DEF KickNames, Patches
  <2>b. job[k] \in Jobs
    BY <1>0
  <2>2. b \in Jobs /\ b.name = "failed" /\ b.todo = <<"pause">> /\ b.copy = job[k].copy
    BY <2>a, <2>b DEF Jobs
  <2> HIDE DEF b
  <2>3. Shape(k, b)
    BY <1>0, <2>1, <2>2, ConstantsAre DEF Shape, Quiet, Single, KickNames
  <2>4. JobInv' /\ StepsInv'
    BY <2>1, <2>3, KickEndsTypes
  <2> QED
    BY <2>1, <2>4
    DEF TypeInv, BundleTypes, TurnTypes, HumanTypes, WaveTypes, bundle, human, waves
<1>3. CASE EndKick(k)
  <2>1. /\ job' = [job EXCEPT ![k] = IdleJob]
        /\ autoSteps' = 0 \/ (autoSteps' = autoSteps /\ job[k].name # "escalate")
        /\ UNCHANGED <<bundle, st, turn, queue, human, waves>>
    BY <1>3 DEF EndKick, Written, agent
  <2>2. JobInv' /\ StepsInv'
    BY <1>0, <2>1, KickEndsTypes
  <2> QED
    BY <2>1, <2>2
    DEF TypeInv, BundleTypes, TurnTypes, HumanTypes, WaveTypes, bundle, human, waves
<1> QED
  BY <1>1, <1>2, <1>3

\* The list of a new wave is one of features.
LEMMA ReadyListsTypes ==
  ASSUME BundleTypes, NEW ready \in ReadyLists
  PROVE  ready \in Seq(Feature) /\ NewWave(ready) \in Waves(Feature)
<1>1. ReadyFeatures \in SUBSET Feature
  BY DEF ReadyFeatures, BundleTypes, Present
<1>2. IsFiniteSet(Feature)
  <2>1. IsFiniteSet(1..Len(Order)) /\ DOMAIN Order = 1..Len(Order) /\ Len(Order) \in Nat
    BY ConstantsAre, FS_Interval
  <2>2. Order \in Surjection(1..Len(Order), Feature)
    BY <2>1, ConstantsAre DEF Surjection, Feature
  <2> QED
    BY <2>1, <2>2, FS_Surjection
<1>3. Cardinality(ReadyFeatures) \in Nat
  BY <1>1, <1>2, FS_Subset, FS_CardinalityType
<1>4. ready \in [1..Cardinality(ReadyFeatures) -> ReadyFeatures]
  BY DEF ReadyLists, SetToSeqs
<1>5. ready \in Seq(Feature)
  BY <1>1, <1>3, <1>4
<1>6. <<>> \in Seq(Results(Feature))
  OBVIOUS
<1> QED
  BY <1>5, <1>6 DEF NewWave, Waves

LEMMA CutShortTypes ==
  ASSUME WaveTypes, CutShort
  PROVE  WaveTypes'
<1>1. <<>> \in Seq(Results(Feature))
  OBVIOUS
<1> QED
  BY <1>1 DEF WaveTypes, CutShort

LEMMA GivenUpIs ==
  /\ GivenUp \in Jobs /\ GivenUp.name = "waved" /\ GivenUp.todo = <<"waved">>
  /\ GivenUp.copy = Nothing
  /\ \A k \in KickId : Shape(k, GivenUp)
<1>1. <<"waved">> \in Seq(Patches) /\ None \in Subject
  BY DEF Patches, Subject
<1>2. /\ GivenUp \in Jobs /\ GivenUp.name = "waved" /\ GivenUp.todo = <<"waved">>
      /\ GivenUp.copy = Nothing
  BY <1>1 DEF GivenUp, Decision, Command, Jobs, Nothing, KickNames
<1> QED
  BY <1>2, ConstantsAre DEF Shape, Quiet, Single, KickNames

LEMMA WaveItemIs ==
  ASSUME NEW f \in Feature
  PROVE  LET b == Decision("wave", <<"wave">>, Command("implement", f))
         IN  /\ \A k \in KickId : Shape(k, b)
             /\ b.name = "wave" /\ b.todo = <<"wave">> /\ b.copy = Nothing
             /\ b.cmd = Command("implement", f)
<1> DEFINE b == Decision("wave", <<"wave">>, Command("implement", f))
<1>1. <<"wave">> \in Seq(Patches) /\ f \in Subject
  BY DEF Patches, Subject
<1>2. /\ b \in Jobs /\ b.name = "wave" /\ b.todo = <<"wave">> /\ b.copy = Nothing
      /\ b.cmd = Command("implement", f) /\ b.cmd.step = "implement" /\ b.cmd.feature = f
  BY <1>1 DEF Decision, Command, Jobs, Nothing, KickNames, Steps
<1> HIDE DEF b
<1>3. \A k \in KickId : Shape(k, b)
  BY <1>2, ConstantsAre DEF Shape, Quiet, Single, KickNames
<1> QED
  BY <1>2, <1>3 DEF b

LEMMA WaveStepsKeepTypes ==
  ASSUME TypeInv, NEW k \in KickId,
         StartWave(k) \/ Advance(k) \/ DispatchItem(k) \/ EndWave(k)
  PROVE  TypeInv'
<1>0. /\ job \in [Job -> Jobs] /\ Shape(k, job[k]) /\ Shape(k, IdleJob) /\ k \in Job
      /\ TurnTypes /\ HumanTypes /\ WaveTypes /\ BundleTypes
  BY ConstantsAre, IdleShape DEF TypeInv, JobInv
<1>1. CASE StartWave(k)
  <2>1. /\ job[k].name = "start-wave" /\ autoSteps' = autoSteps
        /\ UNCHANGED <<bundle, st, turn, queue, human>>
    BY <1>1 DEF StartWave, agent
  <2>2. PICK ready \in ReadyLists :
          \/ job' = [job EXCEPT ![k] = IdleJob] /\ UNCHANGED waves
          \/ /\ wave' = NewWave(ready)
             /\ waveLog' = [snapshot |-> ready, results |-> <<>>, cut |-> FALSE]
             /\ job' = [job EXCEPT ![k].name = "advance"]
    BY <1>1 DEF StartWave
  <2>3. WaveTypes'
    <3>1. <<>> \in Seq(Results(Feature))
      OBVIOUS
    <3>2. ready \in Seq(Feature) /\ NewWave(ready) \in Waves(Feature)
      BY <1>0, ReadyListsTypes
    <3>3. CASE UNCHANGED waves
      BY <1>0, <3>3 DEF WaveTypes, waves
    <3>4. CASE /\ wave' = NewWave(ready)
               /\ waveLog' = [snapshot |-> ready, results |-> <<>>, cut |-> FALSE]
      BY <3>1, <3>2, <3>4 DEF WaveTypes
    <3> QED
      BY <2>2, <3>3, <3>4
  <2> DEFINE b == [job[k] EXCEPT !.name = "advance"]
  <2>4. /\ b \in Jobs /\ b.name = "advance" /\ b.todo = <<>> /\ b.copy = job[k].copy
    <3>1. job[k] \in Jobs /\ job[k].todo = <<>>
      BY <1>0, <2>1 DEF Shape, Quiet
    <3> QED
      BY <3>1 DEF Jobs, KickNames
  <2> HIDE DEF b
  <2>5. Shape(k, b)
    BY <1>0, <2>1, <2>4, ConstantsAre DEF Shape, Quiet, Single, KickNames
  <2>6. JobInv' /\ StepsInv'
    <3>1. job' = [job EXCEPT ![k] = IdleJob] \/ job' = [job EXCEPT ![k] = b]
      BY <2>2 DEF b
    <3> QED
      BY <1>0, <2>1, <2>5, <3>1, KickEndsTypes
  <2> QED
    BY <2>1, <2>3, <2>6
    DEF TypeInv, BundleTypes, TurnTypes, HumanTypes, bundle, human
<1>2. CASE Advance(k)
  <2> DEFINE next == NextFeatureWave(wave, status, conflicted)
  <2>1. /\ job[k].name = "advance" /\ autoSteps' = autoSteps
        /\ UNCHANGED <<bundle, st, turn, queue, human>>
    BY <1>2 DEF Advance, agent
  <2>2. \/ job' = [job EXCEPT ![k] = IdleJob] /\ UNCHANGED waves
        \/ job' = [job EXCEPT ![k] = GivenUp] /\ UNCHANGED waves
        \/ /\ wave # NoWave
           /\ wave' = IF next.active = None THEN NoWave ELSE next
           /\ waveLog' = [waveLog EXCEPT !.results = next.results]
           /\ job' = [job EXCEPT ![k] =
                        IF next.active = None THEN GivenUp
                        ELSE Decision("wave", <<"wave">>, Command("implement", next.active))]
    BY <1>2 DEF Advance
  <2>3. wave # NoWave => /\ next \in Waves(Feature) /\ next.active \in Feature \cup {None}
                         /\ next.results \in Seq(Results(Feature))
    <3>1. wave # NoWave => next \in Waves(Feature)
      BY <1>0, NextWaveTypes DEF WaveTypes
    <3> HIDE DEF next
    <3> QED
      BY <3>1 DEF Waves
  <2> HIDE DEF next
  <2>4. WaveTypes'
    BY <1>0, <2>2, <2>3 DEF WaveTypes, waves
  <2>5. JobInv' /\ StepsInv'
    <3>1. \E b : Shape(k, b) /\ job' = [job EXCEPT ![k] = b]
      BY <1>0, <2>2, <2>3, GivenUpIs, WaveItemIs
    <3> QED
      BY <2>1, <3>1, KickEndsTypes
  <2> QED
    BY <2>1, <2>4, <2>5
    DEF TypeInv, BundleTypes, TurnTypes, HumanTypes, bundle, human
<1>3. CASE DispatchItem(k)
  <2>1. /\ job[k].name = "wave" /\ autoSteps' = autoSteps
        /\ UNCHANGED <<bundle, st, turn, human>>
        /\ \/ /\ queue' = Append(queue, job[k].cmd)
              /\ job' = [job EXCEPT ![k] = IdleJob]
              /\ UNCHANGED waves
           \/ /\ job' = [job EXCEPT ![k] = GivenUp]
              /\ CutShort
              /\ queue' = queue
    BY <1>3 DEF DispatchItem, Written
  <2>2. job[k].cmd \in [step : Steps \cup {"chat"}, feature : Subject]
    <3>1. job[k].cmd \in [step : Steps \cup {"none"}, feature : Subject]
      BY <1>0 DEF Jobs
    <3>2. job[k].cmd.step \in Steps
      BY <1>0, <2>1 DEF Shape, Steps
    <3> QED
      BY <3>1, <3>2
  <2>3. TurnTypes'
    <3>1. Append(queue, job[k].cmd) \in Seq([step : Steps \cup {"chat"}, feature : Subject])
      BY <1>0, <2>2, AppendProperties DEF TurnTypes
    <3> QED
      BY <1>0, <2>1, <3>1 DEF TurnTypes
  <2>4. WaveTypes'
    BY <1>0, <2>1, CutShortTypes DEF WaveTypes, waves
  <2>5. JobInv' /\ StepsInv'
    BY <1>0, <2>1, GivenUpIs, KickEndsTypes
  <2> QED
    BY <2>1, <2>3, <2>4, <2>5 DEF TypeInv, BundleTypes, HumanTypes, bundle, human
<1>4. CASE EndWave(k)
  <2>1. /\ job[k].name = "waved" /\ job' = [job EXCEPT ![k] = IdleJob]
        /\ autoSteps' = autoSteps /\ UNCHANGED <<bundle, st, turn, queue, human, waves>>
    BY <1>4 DEF EndWave, Written, agent
  <2>2. JobInv' /\ StepsInv'
    BY <1>0, <2>1, KickEndsTypes
  <2> QED
    BY <2>1, <2>2
    DEF TypeInv, BundleTypes, TurnTypes, HumanTypes, WaveTypes, bundle, human, waves
<1> QED
  BY <1>1, <1>2, <1>3, <1>4

\* A turn that does nothing more, and one that has worked.
LEMMA AbortedIs ==
  ASSUME NEW t \in Turns, t.step = "none" <=> t = NoTurn
  PROVE  /\ Aborted(t) \in Turns
         /\ Aborted(t).step = t.step /\ Aborted(t).feature = t.feature
         /\ Aborted(t).worked
         /\ Aborted(t).step = "none" <=> Aborted(t) = NoTurn
         /\ Aborted(t) = NoTurn <=> t = NoTurn
<1>1. /\ Aborted(t) \in Turns
      /\ Aborted(t).step = t.step /\ Aborted(t).feature = t.feature
      /\ Aborted(t).worked
  BY DEF Aborted, Turns
<1>2. NoTurn.step = "none" /\ NoTurn.worked = TRUE /\ NoTurn \in Turns
  BY DEF NoTurn, Turns, Subject
<1>3. CASE t = NoTurn
  <2>1. \A a, b \in Turns :
          a.step = b.step /\ a.feature = b.feature /\ a.worked = b.worked => a = b
    BY DEF Turns
  <2>2. Aborted(t) = NoTurn
    BY <1>1, <1>2, <1>3, <2>1
  <2> QED
    BY <1>1, <1>2, <1>3, <2>2
<1>4. CASE t # NoTurn
  BY <1>1, <1>2, <1>4
<1> QED
  BY <1>1, <1>3, <1>4

LEMMA NoTurnTypes == NoTurn \in Turns /\ NoTurn.step = "none"
BY DEF NoTurn, Turns, Subject

LEMMA WorkKeepsTypes ==
  ASSUME TypeInv, Work
  PROVE  TypeInv'
<1>0. BundleTypes /\ TurnTypes /\ st \in States /\ turn \in Turns
  BY DEF TypeInv, TurnTypes
<1>1. /\ ~turn.worked /\ turn' = [turn EXCEPT !.worked = TRUE]
      /\ UNCHANGED <<conflicted, queue, job, human, waves>>
      /\ autoSteps' = 0 \/ autoSteps' = autoSteps
  BY DEF Work
<1>2. TurnTypes'
  <2>1. turn' = Aborted(turn)
    BY <1>1 DEF Aborted
  <2> QED
    BY <1>0, <1>1, <2>1, AbortedIs DEF TurnTypes
<1>3. BundleTypes' /\ st' \in States
  <2>1. CASE /\ turn.feature \in Present /\ tested' = tested \cup {turn.feature}
             /\ UNCHANGED <<status, planReviewed, st>>
    BY <1>0, <1>1, <2>1 DEF BundleTypes, Present
  <2>2. CASE /\ turn.feature \in Present
             /\ \E s \in {"implemented", "done"} : status' = [status EXCEPT ![turn.feature] = s]
             /\ UNCHANGED <<tested, planReviewed, st>>
    BY <1>0, <1>1, <2>2 DEF BundleTypes, Present, FeatureStatuses
  <2>3. CASE /\ planReviewed' = TRUE
             /\ \/ st' = [Patched(st, "finished", turn) EXCEPT !.strikes = NoStrikes,
                                                               !.escalation = None]
                \/ st' = st
             /\ UNCHANGED <<status, tested>>
    <3>1. Patched(st, "finished", turn) \in States
      BY <1>0, PatchedTypes DEF Patches
    <3>2. NoStrikes \in [Feature -> Nat]
      BY DEF NoStrikes
    <3>3. \A s \in States : [s EXCEPT !.strikes = NoStrikes, !.escalation = None] \in States
      BY <3>2 DEF States
    <3> QED
      BY <1>0, <1>1, <2>3, <3>1, <3>3 DEF BundleTypes
  <2> QED
    BY <2>1, <2>2, <2>3 DEF Work
<1>4. JobInv' /\ StepsInv'
  BY <1>1, StepsKept DEF TypeInv, JobInv
<1> QED
  BY <1>1, <1>2, <1>3, <1>4 DEF TypeInv, HumanTypes, WaveTypes, human, waves

\* A step of the driver or of the wave is started, beside whatever else the
\* control action becomes.
LEMMA StartedTypes ==
  ASSUME JobInv, StepsInv, FreeKicks # {},
         NEW name \in {"ended", "gather", "start-wave", "advance"},
         NEW jobs, jobs = job \/ jobs = NowIdle,
         job' = Started(jobs, name),
         autoSteps' = 0 \/ autoSteps' = autoSteps
  PROVE  /\ JobInv' /\ StepsInv'
         /\ \E k \in FreeKicks :
              /\ job'[k].name = name /\ job'[k].todo = <<>> /\ job'[k].copy = Nothing
              /\ \A i \in KickId \ {k} : job'[i] = job[i]
         /\ job'["control"] = jobs["control"]
<1>1. PICK k \in FreeKicks : job' = [jobs EXCEPT ![k] = [IdleJob EXCEPT !.name = name]]
  BY StartedIs
<1>2. k \in KickId /\ job[k].name = "idle" /\ k \in Job /\ "control" \in Job /\ k # "control"
  BY ConstantsAre DEF FreeKicks
<1> DEFINE b == [IdleJob EXCEPT !.name = name]
<1>3. Shape(k, b) /\ b.name = name /\ b.todo = <<>> /\ b.copy = Nothing
  BY <1>2, StartedShape
<1> HIDE DEF b
<1>4. /\ jobs \in [Job -> Jobs] /\ \A i \in Job : Shape(i, jobs[i])
      /\ \A i \in KickId : jobs[i] = job[i]
  <2>1. CASE jobs = job
    BY <2>1 DEF JobInv
  <2>2. CASE jobs = NowIdle
    BY <2>2, <1>2, IdleShape, IdleIsJob, ConstantsAre DEF NowIdle, JobInv
  <2> QED
    BY <2>1, <2>2
<1>5. b \in Jobs
  BY <1>3 DEF Shape
<1>6. /\ job' \in [Job -> Jobs] /\ job'[k] = b /\ \A i \in Job \ {k} : job'[i] = jobs[i]
  BY <1>1, <1>2, <1>4, <1>5 DEF b
<1>7. JobInv'
  BY <1>3, <1>4, <1>6 DEF JobInv
<1>8. \A i \in KickId \ {k} : job'[i] = job[i]
  BY <1>4, <1>6, ConstantsAre
<1>9. \A i \in KickId : job[i].name = "escalate" => job'[i].name = "escalate"
  BY <1>2, <1>8
<1>10. StepsInv'
  BY <1>9, StepsKept
<1> QED
  BY <1>2, <1>3, <1>6, <1>7, <1>8, <1>10

LEMMA TurnsKeepTypes ==
  ASSUME TypeInv, StartTurn \/ EndTurn \/ \E k \in KickId : AgentEnd(k)
  PROVE  TypeInv'
<1>0. /\ JobInv /\ StepsInv /\ TurnTypes /\ WaveTypes
      /\ queue \in Seq([step : Steps \cup {"chat"}, feature : Subject])
  BY DEF TypeInv, TurnTypes
<1>1. CASE StartTurn
  <2>1. /\ queue # <<>> /\ queue' = Tail(queue)
        /\ turn' = [step |-> Head(queue).step, feature |-> Head(queue).feature,
                    worked |-> FALSE]
        /\ autoSteps' = autoSteps /\ wave' = wave
        /\ UNCHANGED <<bundle, st, job, human, waveLog>>
    BY <1>1 DEF StartTurn, Handoff, HandoffWave
  <2>2. /\ Head(queue) \in [step : Steps \cup {"chat"}, feature : Subject]
        /\ queue' \in Seq([step : Steps \cup {"chat"}, feature : Subject])
    BY <1>0, <2>1, HeadTailProperties
  <2>3. turn' \in Turns /\ turn'.step # "none"
    BY <2>1, <2>2 DEF Turns, Steps
  <2>4. TurnTypes'
    BY <2>2, <2>3, NoTurnTypes DEF TurnTypes
  <2>5. JobInv' /\ StepsInv'
    BY <1>0, <2>1, StepsKept DEF JobInv
  <2> QED
    BY <2>1, <2>4, <2>5 DEF TypeInv, BundleTypes, HumanTypes, WaveTypes, bundle, human
<1>2. CASE EndTurn
  <2>1. /\ turn' = NoTurn /\ FreeKicks # {} /\ job' = Started(job, "ended")
        /\ UNCHANGED <<bundle, st, queue, autoSteps, human, waves>>
    BY <1>2 DEF EndTurn
  <2>2. JobInv' /\ StepsInv'
    BY <1>0, <2>1, StartedTypes
  <2>3. TurnTypes'
    BY <1>0, <2>1, NoTurnTypes DEF TurnTypes
  <2> QED
    BY <2>1, <2>2, <2>3
    DEF TypeInv, BundleTypes, HumanTypes, WaveTypes, bundle, human, waves
<1>3. CASE \E k \in KickId : AgentEnd(k)
  <2>1. PICK k \in KickId : AgentEnd(k)
    BY <1>3
  <2>2. /\ job[k].name = "ended" /\ wave # NoWave /\ wave' = CompleteFeatureWaveAbort(wave)
        /\ \/ job' = [job EXCEPT ![k] = IdleJob]
           \/ job' = [job EXCEPT ![k] = [IdleJob EXCEPT !.name = "advance"]]
        /\ UNCHANGED <<bundle, st, turn, queue, autoSteps, human, waveLog>>
    BY <2>1 DEF AgentEnd, agent
  <2>3. wave' \in Waves(Feature)
    BY <1>0, <2>2 DEF WaveTypes, CompleteFeatureWaveAbort, Waves
  <2>4. k \in Job /\ Shape(k, IdleJob) /\ Shape(k, [IdleJob EXCEPT !.name = "advance"])
    BY ConstantsAre, IdleShape, StartedShape
  <2>5. JobInv' /\ StepsInv'
    BY <2>2, <2>4, KickEndsTypes
  <2> QED
    BY <1>0, <2>2, <2>3, <2>5 DEF TypeInv, BundleTypes, TurnTypes, HumanTypes, WaveTypes,
      bundle, human
<1> QED
  BY <1>1, <1>2, <1>3

\* The control action becomes something else, and no kick changes.
LEMMA ControlTypes ==
  ASSUME JobInv, StepsInv, NEW b, Shape("control", b),
         job' = [job EXCEPT !["control"] = b],
         autoSteps' = 0 \/ autoSteps' = autoSteps
  PROVE  /\ JobInv' /\ StepsInv' /\ job'["control"] = b
         /\ \A k \in KickId : job'[k] = job[k]
<1>1. JobInv' /\ job'["control"] = b /\ \A k \in KickId : job'[k] = job[k]
  BY JobUpdate, ConstantsAre
<1>2. StepsInv'
  BY <1>1, StepsKept
<1> QED
  BY <1>1, <1>2

LEMMA TokensAre ==
  ASSUME TurnTypes
  PROVE  /\ Tokens \in Nat
         /\ Cardinality({k \in KickId : job[k].name # "idle"}) \in Nat
<1>1. {k \in KickId : job[k].name # "idle"} \in SUBSET KickId
  OBVIOUS
<1>2. Cardinality({k \in KickId : job[k].name # "idle"}) \in Nat
  BY <1>1, ConstantsAre, FS_Subset, FS_CardinalityType
<1>3. Len(queue) \in Nat
  BY LenProperties DEF TurnTypes
<1> QED
  BY <1>2, <1>3 DEF Tokens

LEMMA AttendedTypes ==
  ASSUME HumanTypes, Attended, acts' \in 0..MaxActs, TurnTypes'
  PROVE  HumanTypes'
<1>1. NoStrikes \in [Feature -> Nat]
  BY DEF NoStrikes
<1>2. (TurnTypes => Tokens \in Nat)'
  BY TokensAre, PTL
<1> QED
  BY <1>1, <1>2 DEF HumanTypes, Attended

\* What an approval sets going, and what becomes of it when its write is done.
LEMMA AutoStartIs ==
  /\ \A k \in KickId : Shape(k, AutoStart)
  /\ AutoStart.name = "start" /\ AutoStart.todo = <<"start">> /\ AutoStart.copy = Nothing
<1>1. <<"start">> \in Seq(Patches) /\ None \in Subject
  BY DEF Patches, Subject
<1>2. /\ AutoStart \in Jobs /\ AutoStart.name = "start" /\ AutoStart.todo = <<"start">>
      /\ AutoStart.copy = Nothing
  BY <1>1 DEF AutoStart, Decision, Command, Jobs, Nothing, KickNames
<1> QED
  BY <1>2, ConstantsAre DEF Shape, Quiet, Single, KickNames

\* An approval sets its step going where there was none.
LEMMA AutoStarts ==
  ASSUME JobInv, StepsInv, NEW k \in FreeKicks,
         job' = [job EXCEPT ![k] = AutoStart], autoSteps' = autoSteps
  PROVE  /\ JobInv' /\ StepsInv' /\ k \in KickId /\ job[k].name = "idle"
         /\ job'[k] = AutoStart /\ job'["control"] = job["control"]
         /\ \A i \in KickId \ {k} : job'[i] = job[i]
<1>1. k \in KickId /\ k \in Job /\ k # "control" /\ job[k].name = "idle"
  BY ConstantsAre DEF FreeKicks
<1>2. JobInv' /\ job'[k] = AutoStart /\ \A i \in Job \ {k} : job'[i] = job[i]
  BY <1>1, AutoStartIs, JobUpdate
<1>3. \A i \in KickId : job[i].name = "escalate" => job'[i].name = "escalate"
  BY <1>1, <1>2, ConstantsAre
<1> QED
  BY <1>1, <1>2, <1>3, StepsKept, ConstantsAre

LEMMA ApprovedTurn ==
  ASSUME TurnTypes, turn.step \in {"chat", "approved"},
         NEW step \in {"chat", "approved"}, NEW w \in BOOLEAN,
         turn' = [turn EXCEPT !.step = step, !.worked = w]
  PROVE  /\ turn' \in Turns /\ turn'.step = step /\ turn'.worked = w
         /\ turn'.feature = turn.feature /\ turn' # NoTurn /\ turn # NoTurn
<1>1. turn \in Turns
  BY DEF TurnTypes
<1>2. /\ turn' \in Turns /\ turn'.step = step /\ turn'.worked = w
      /\ turn'.feature = turn.feature
  BY <1>1 DEF Turns
<1> QED
  BY <1>2, NoTurnTypes

LEMMA EndsKeepTypes ==
  ASSUME TypeInv, PauseEnds \/ ResetEnds \/ GuideEnds \/ KickEnds, Attended
  PROVE  TypeInv'
<1>0. /\ JobInv /\ StepsInv /\ TurnTypes /\ HumanTypes
      /\ queue \in Seq([step : Steps \cup {"chat"}, feature : Subject])
      /\ Shape("control", IdleJob) /\ acts \in 0..MaxActs
  BY ConstantsAre, IdleShape DEF TypeInv, TurnTypes, HumanTypes
<1>1. UNCHANGED <<bundle, st, acts, waves>>
  BY DEF PauseEnds, ResetEnds, GuideEnds, KickEnds, Ended
<1>2. JobInv' /\ StepsInv'
  <2>1. CASE job' = NowIdle /\ (autoSteps' = 0 \/ autoSteps' = autoSteps)
    BY <1>0, <2>1, ControlTypes DEF NowIdle
  <2>2. CASE KickEnds /\ job' # NowIdle
    <3>1. /\ FreeKicks # {}
          /\ autoSteps' = 0 \/ autoSteps' = autoSteps
          /\ job' = Started(NowIdle, "advance") \/ job' = Started(NowIdle, "gather")
      BY <2>2 DEF KickEnds
    <3> QED
      BY <1>0, <2>2, <3>1, StartedTypes DEF KickEnds
  <2> QED
    BY <2>1, <2>2 DEF PauseEnds, ResetEnds, GuideEnds, KickEnds
<1>3. TurnTypes'
  <2>1. CASE UNCHANGED agent
    BY <1>0, <2>1 DEF TurnTypes, agent
  <2>2. CASE PauseEnds
    BY <1>0, <2>2, AbortedIs DEF TurnTypes, PauseEnds
  <2>3. CASE GuideEnds
    <3>1. \A f \in Feature : Command("implement", f) \in
                               [step : Steps \cup {"chat"}, feature : Subject]
      BY DEF Command, Steps, Subject
    <3>2. Command("chat", None) \in [step : Steps \cup {"chat"}, feature : Subject]
      BY DEF Command, Subject
    <3>3. PICK c \in [step : Steps \cup {"chat"}, feature : Subject] :
            queue' = Append(queue, c) /\ turn' = turn
      BY <2>3, <3>1, <3>2 DEF GuideEnds
    <3>4. queue' \in Seq([step : Steps \cup {"chat"}, feature : Subject])
      BY <1>0, <3>3, AppendProperties
    <3> QED
      BY <1>0, <3>3, <3>4 DEF TurnTypes
  <2> QED
    BY <2>1, <2>2, <2>3 DEF ResetEnds, KickEnds
<1>4. HumanTypes'
  BY <1>0, <1>1, <1>3, AttendedTypes
<1> QED
  BY <1>1, <1>2, <1>3, <1>4 DEF TypeInv, BundleTypes, WaveTypes, bundle, waves

\* The approval that starts auto mode, and the write it starts with.
LEMMA StartsKeepTypes ==
  ASSUME TypeInv, StartInTurn \/ \E k \in KickId : StartKick(k), Attended
  PROVE  TypeInv'
<1>0. JobInv /\ StepsInv /\ TurnTypes /\ HumanTypes /\ acts \in 0..MaxActs /\ turn \in Turns
  BY DEF TypeInv, TurnTypes, HumanTypes
<1>1. UNCHANGED <<bundle, st, queue, acts, waves>>
  BY DEF StartInTurn, StartKick, agent
<1>2. TurnTypes' /\ JobInv' /\ StepsInv'
  <2>1. CASE StartInTurn
    <3>1. /\ turn.step = "approved" /\ turn' = [turn EXCEPT !.step = "chat", !.worked = TRUE]
          /\ autoSteps' = autoSteps
          /\ \/ job' = job
             \/ \E k \in FreeKicks : job' = [job EXCEPT ![k] = AutoStart]
      BY <2>1 DEF StartInTurn
    <3>2. TurnTypes'
      BY <1>0, <1>1, <3>1, ApprovedTurn DEF TurnTypes
    <3>3. JobInv' /\ StepsInv'
      BY <1>0, <3>1, AutoStarts, StepsKept DEF JobInv
    <3> QED
      BY <3>2, <3>3
  <2>2. CASE \E k \in KickId : StartKick(k)
    <3>1. PICK k \in KickId : /\ job' = [job EXCEPT ![k] = [IdleJob EXCEPT !.name = "gather"]]
                              /\ autoSteps' = 0 /\ turn' = turn
      BY <2>2 DEF StartKick, agent
    <3>2. Shape(k, [IdleJob EXCEPT !.name = "gather"])
      BY StartedShape
    <3> QED
      BY <1>0, <1>1, <3>1, <3>2, KickEndsTypes DEF TurnTypes
  <2> QED
    BY <2>1, <2>2
<1>3. HumanTypes'
  BY <1>0, <1>1, <1>2, AttendedTypes
<1> QED
  BY <1>1, <1>2, <1>3 DEF TypeInv, BundleTypes, WaveTypes, bundle, waves

\* What the human begins is a job of the control strip.
LEMMA BegunShape ==
  ASSUME NEW name \in ControlNames \ {"idle"}, NEW f \in Subject
  PROVE  LET b == Decision(name, IF name = "discard" THEN <<>> ELSE <<name>>,
                           Command("implement", f))
         IN  /\ Shape("control", b) /\ b.name = name /\ b.copy = Nothing
             /\ b.cmd = Command("implement", f)
             /\ b.todo = IF name = "discard" THEN <<>> ELSE <<name>>
<1> DEFINE b == Decision(name, IF name = "discard" THEN <<>> ELSE <<name>>,
                         Command("implement", f))
<1>1. (IF name = "discard" THEN <<>> ELSE <<name>>) \in Seq(Patches)
  <2>1. CASE name = "discard"
    BY <2>1
  <2>2. CASE name # "discard"
    <3>1. name \in Patches
      BY <2>2 DEF ControlNames, Patches
    <3> QED
      BY <2>2, <3>1
  <2> QED
    BY <2>1, <2>2
<1>2. Command("implement", f) \in [step : Steps \cup {"none"}, feature : Subject]
  BY DEF Command, Steps
<1>3. /\ b \in Jobs /\ b.name = name /\ b.copy = Nothing /\ b.cmd = Command("implement", f)
      /\ b.todo = IF name = "discard" THEN <<>> ELSE <<name>>
  BY <1>1, <1>2 DEF Decision, Jobs, Nothing
<1> HIDE DEF b
<1>4. Shape("control", b)
  BY <1>3 DEF Shape, Quiet, Single, ControlNames
<1> QED
  BY <1>3, <1>4 DEF b

LEMMA DiscardKeepsTypes ==
  ASSUME TypeInv, Discard, Attended
  PROVE  TypeInv'
<1> DEFINE cmd == job["control"].cmd
           b == Decision("restart", <<"restart">>, cmd)
<1>0. JobInv /\ StepsInv /\ BundleTypes /\ Shape("control", IdleJob) /\ Shape("control", job["control"])
  BY ConstantsAre, IdleShape DEF TypeInv, JobInv
<1>1. /\ UNCHANGED <<conflicted, tested, planReviewed, st, turn, queue, autoSteps, acts, waves>>
      /\ \/ /\ cmd.feature \in Present /\ status' = [status EXCEPT ![cmd.feature] = "pending"]
            /\ job' = [job EXCEPT !["control"] = b]
         \/ job' = [job EXCEPT !["control"] = IdleJob] /\ UNCHANGED status
  BY DEF Discard, agent
<1>2. Shape("control", b)
  <2>1. cmd \in [step : Steps \cup {"none"}, feature : Subject] /\ <<"restart">> \in Seq(Patches)
    BY <1>0 DEF Shape, Jobs, Patches
  <2> HIDE DEF cmd
  <2>2. b \in Jobs /\ b.name = "restart" /\ b.copy = Nothing /\ b.todo = <<"restart">>
    BY <2>1 DEF Decision, Jobs, Nothing, ControlNames
  <2> HIDE DEF b
  <2> QED
    BY <2>2 DEF Shape, Quiet, Single, ControlNames
<1>3. JobInv' /\ StepsInv'
  BY <1>0, <1>1, <1>2, ControlTypes
<1>4. BundleTypes'
  BY <1>0, <1>1 DEF BundleTypes, Present, FeatureStatuses
<1>5. TurnTypes' /\ HumanTypes /\ acts \in 0..MaxActs
  BY <1>1 DEF TypeInv, TurnTypes, HumanTypes
<1>6. HumanTypes'
  BY <1>1, <1>5, AttendedTypes
<1> QED
  BY <1>1, <1>3, <1>4, <1>5, <1>6 DEF TypeInv, WaveTypes, waves

LEMMA BeginKeepsTypes ==
  ASSUME TypeInv, NEW name \in ControlNames \ {"idle"}, NEW f \in Subject, Begin(name, f),
         Attended, turn' = turn \/ turn' = Aborted(turn)
  PROVE  /\ JobInv' /\ StepsInv' /\ HumanTypes' /\ BundleTypes' /\ st' \in States
         /\ TurnTypes'
<1>1. /\ JobInv /\ StepsInv /\ HumanTypes /\ BundleTypes /\ st \in States /\ acts \in 0..MaxActs
      /\ TurnTypes /\ acts' = acts + 1 /\ acts < MaxActs
      /\ UNCHANGED <<bundle, st, queue, autoSteps>>
  BY DEF TypeInv, Begin, Acts, HumanTypes
<1>2. TurnTypes'
  BY <1>1, AbortedIs DEF TurnTypes
<1>3. HumanTypes'
  BY <1>1, <1>2, AttendedTypes, ConstantsAre
<1>4. JobInv' /\ StepsInv'
  BY <1>1, BegunShape, ControlTypes DEF Begin
<1> QED
  BY <1>1, <1>2, <1>3, <1>4 DEF BundleTypes, bundle

LEMMA PausedWaveTypes ==
  ASSUME NEW w \in Waves(Feature)
  PROVE  PauseFeatureWave(w) \in Waves(Feature)
<1>1. ActiveOf(w) \o w.queue \in Seq(Feature)
  BY ActiveOfIs, ConcatProperties DEF Waves
<1> QED
  BY <1>1 DEF PauseFeatureWave, Waves

\* The actions of the human that begin something at the control strip.
LEMMA ControlsKeepTypes ==
  ASSUME TypeInv, StartAuto \/ Pause \/ Continue \/ Abort \/ Recover, Attended
  PROVE  TypeInv'
<1>0. /\ WaveTypes /\ st \in States /\ None \in Subject
      /\ {"start", "pause", "continue", "reset", "guide", "discard"}
           \subseteq ControlNames \ {"idle"}
  BY DEF TypeInv, Subject, ControlNames
<1>1. CASE StartAuto \/ Continue
  BY <1>0, <1>1, BeginKeepsTypes DEF StartAuto, Continue, TypeInv, WaveTypes, waves
<1>2. CASE Recover
  <2>1. st.escalation \in Subject
    BY <1>0 DEF States, Subject
  <2> QED
    BY <1>0, <1>2, <2>1, BeginKeepsTypes DEF Recover, TypeInv, WaveTypes, waves
<1>3. CASE Pause
  <2>1. WaveTypes'
    BY <1>0, <1>3, PausedWaveTypes DEF Pause, WaveTypes
  <2> QED
    BY <1>0, <1>3, <2>1, BeginKeepsTypes DEF Pause, TypeInv
<1>4. CASE Abort
  <2>1. WaveTypes'
    BY <1>0, <1>4, CutShortTypes DEF Abort
  <2> QED
    BY <1>0, <1>4, <2>1, BeginKeepsTypes DEF Abort, TypeInv
<1> QED
  BY <1>1, <1>2, <1>3, <1>4

\* Its other actions.
LEMMA OthersKeepTypes ==
  ASSUME TypeInv, ClickWave \/ Chat \/ Approve \/ CancelWork \/ Restart, Attended
  PROVE  TypeInv'
<1>0. /\ JobInv /\ StepsInv /\ HumanTypes /\ BundleTypes /\ st \in States /\ acts \in 0..MaxActs
      /\ TurnTypes /\ WaveTypes /\ acts' = acts + 1 /\ acts < MaxActs
      /\ queue \in Seq([step : Steps \cup {"chat"}, feature : Subject])
  BY DEF TypeInv, TurnTypes, HumanTypes, ClickWave, Chat, Approve, CancelWork, Restart, Acts
<1>1. TurnTypes' => HumanTypes'
  BY <1>0, AttendedTypes, ConstantsAre
<1>2. CASE ClickWave
  <2>1. FreeKicks # {} /\ job' = Started(job, "start-wave") /\ autoSteps' = autoSteps
          /\ UNCHANGED <<bundle, st, turn, queue, waves>>
    BY <1>2 DEF ClickWave, agent
  <2>2. JobInv' /\ StepsInv'
    BY <1>0, <2>1, StartedTypes
  <2>3. TurnTypes'
    BY <1>0, <2>1 DEF TurnTypes
  <2> QED
    BY <1>0, <1>1, <2>1, <2>2, <2>3 DEF TypeInv, BundleTypes, WaveTypes, bundle, waves
<1>3. CASE Chat
  <2>1. Command("chat", None) \in [step : Steps \cup {"chat"}, feature : Subject]
    BY DEF Command, Subject
  <2>2. queue' \in Seq([step : Steps \cup {"chat"}, feature : Subject])
    BY <1>0, <1>3, <2>1, AppendProperties DEF Chat
  <2>3. TurnTypes' /\ JobInv' /\ StepsInv'
    BY <1>0, <1>3, <2>2, StepsKept DEF Chat, TurnTypes, JobInv
  <2> QED
    BY <1>0, <1>1, <1>3, <2>3 DEF Chat, TypeInv, BundleTypes, WaveTypes, bundle, waves
<1>4. CASE Approve
  <2>1. BundleTypes'
    BY <1>0, <1>4 DEF Approve, BundleTypes, Present, FeatureStatuses
  <2>2. TurnTypes'
    <3>1. [turn EXCEPT !.step = "approved"] = [turn EXCEPT !.step = "approved", !.worked = FALSE]
      BY <1>0, <1>4 DEF Approve, TurnTypes, Turns
    <3> QED
      BY <1>0, <1>4, <3>1, ApprovedTurn DEF Approve, TurnTypes
  <2>3. JobInv' /\ StepsInv'
    BY <1>0, <1>4, StepsKept DEF Approve, JobInv
  <2> QED
    BY <1>0, <1>1, <1>4, <2>1, <2>2, <2>3 DEF Approve, TypeInv, WaveTypes, waves
<1>5. CASE CancelWork
  <2>1. PICK f \in Present :
          /\ status' = Restrict(status, Present \ {f})
          /\ conflicted' = conflicted \ {f}
          /\ tested' = tested \ {f}
    BY <1>5 DEF CancelWork
  <2>2. BundleTypes'
    BY <1>0, <1>5, <2>1 DEF CancelWork, BundleTypes, Present, Restrict
  <2>3. TurnTypes' /\ JobInv' /\ StepsInv'
    BY <1>0, <1>5, StepsKept DEF CancelWork, TurnTypes, JobInv, agent
  <2> QED
    BY <1>0, <1>1, <1>5, <2>2, <2>3 DEF CancelWork, TypeInv, WaveTypes, waves
<1>6. CASE Restart
  <2>1. /\ turn' = NoTurn /\ queue' = <<>> /\ job' = [j \in Job |-> IdleJob]
        /\ autoSteps' = 0 /\ CutShort /\ UNCHANGED bundle
        /\ st' = [st EXCEPT !.paused = TRUE] \/ st' = st
    BY <1>6 DEF Restart
  <2>2. TurnTypes'
    BY <2>1, NoTurnTypes DEF TurnTypes
  <2>3. WaveTypes'
    BY <1>0, <2>1, CutShortTypes
  <2>4. JobInv'
    BY <2>1, IdleIsJob, IdleShape DEF JobInv
  <2>5. StepsInv'
    BY <1>0, <2>1, StepsKept
  <2>6. st' \in States
    BY <1>0, <2>1 DEF States
  <2> QED
    BY <1>0, <1>1, <2>1, <2>2, <2>3, <2>4, <2>5, <2>6 DEF TypeInv, BundleTypes, bundle
<1> QED
  BY <1>2, <1>3, <1>4, <1>5, <1>6

-----------------------------------------------------------------------------
(***************************************************************************)
(* The type invariant.                                                     *)
(***************************************************************************)

LEMMA InitTypes == Init => TypeInv
<1> SUFFICES ASSUME Init PROVE TypeInv
  OBVIOUS
<1>1. BundleTypes
  BY DEF Init, BundleTypes, FeatureStatuses, CreatableStatuses
<1>2. st \in States
  BY DEF Init, States, ActivePhases
<1>3. TurnTypes
  BY NoTurnTypes DEF Init, TurnTypes
<1>4. JobInv
  BY IdleIsJob, IdleShape DEF Init, JobInv
<1>5. StepsInv
  <2>1. Named("escalate") \in SUBSET KickId
    BY DEF Named
  <2>2. Cardinality(Named("escalate")) \in Nat
    BY <2>1, ConstantsAre, FS_Subset, FS_CardinalityType
  <2> QED
    BY <2>2, ConstantsAre DEF Init, StepsInv
<1>6. HumanTypes /\ WaveTypes
  <2>1. <<>> \in Seq(Results(Feature)) /\ <<>> \in Seq(Feature) /\ NoStrikes \in [Feature -> Nat]
    BY DEF NoStrikes
  <2>2. acts = 0 /\ unattended = 0 /\ rounds = NoStrikes /\ chains = 0 /\ crowded = FALSE
    BY DEF Init
  <2>a. acts \in 0..MaxActs /\ unattended \in Nat /\ chains \in Nat
    BY <2>2, ConstantsAre
  <2>b. rounds \in [Feature -> Nat] /\ crowded \in BOOLEAN
    BY <2>1, <2>2
  <2>3. HumanTypes
    BY <2>a, <2>b DEF HumanTypes
  <2>4. WaveTypes
    BY <2>1 DEF Init, WaveTypes
  <2> QED
    BY <2>3, <2>4
<1> QED
  BY <1>1, <1>2, <1>3, <1>4, <1>5, <1>6 DEF TypeInv

LEMMA NextKeepsTypes == TypeInv /\ [Next]_vars => TypeInv'
<1> SUFFICES ASSUME TypeInv, [Next]_vars PROVE TypeInv'
  OBVIOUS
<1>1. CASE UNCHANGED vars
  <2>1. StepsInv' /\ JobInv'
    BY <1>1, StepsKept DEF vars, TypeInv, JobInv
  <2> QED
    BY <1>1, <2>1 DEF vars, TypeInv, BundleTypes, TurnTypes, HumanTypes, WaveTypes
<1>2. CASE Runtime
  BY <1>2, WritesKeepTypes, GatherKeepsTypes, DispatchKeepsTypes, WaveStepsKeepTypes,
     TurnsKeepTypes, EndsKeepTypes, StartsKeepTypes, DiscardKeepsTypes DEF Runtime, Settles
<1>3. CASE Work
  BY <1>3, WorkKeepsTypes
<1>4. CASE Human
  BY <1>4, ControlsKeepTypes, OthersKeepTypes DEF Human
<1> QED
  BY <1>1, <1>2, <1>3, <1>4 DEF Next

\* The shape of every job follows from its name: what it has left to write, what it
\* has loaded and what it decides on (iterator.js:856-991, write.mjs:1114-1135).
THEOREM TypeInvHolds == Spec => []TypeInv
<1> QED
  BY InitTypes, NextKeepsTypes, PTL DEF Spec

\* Every value keeps its type, and the steps of the driver are counted no higher
\* than the limit and what is being escalated: the strikes and the escalation that
\* the racing writes of state.md leave are those of features of the plan, and
\* nothing is queued or decided on but the steps there are (pi-tools.mjs:382-409,
\* iterator.js:896-957).
THEOREM TypesAreKept == Spec => []TypeOK
<1>1. TypeInv => TypeOK
  <2> SUFFICES ASSUME TypeInv PROVE TypeOK
    OBVIOUS
  <2>1. Named("escalate") \in SUBSET KickId
    BY DEF Named
  <2>2. /\ Cardinality(Named("escalate")) <= Cardinality(KickId)
        /\ Cardinality(Named("escalate")) \in Nat /\ Cardinality(KickId) \in Nat
    BY <2>1, ConstantsAre, FS_Subset, FS_CardinalityType
  <2>3. autoSteps \in 0..(MaxSteps + Cardinality(KickId))
    BY <2>2, ConstantsAre DEF TypeInv, StepsInv
  <2>4. job \in [Job -> Jobs] /\ \A j \in Job : job[j].copy # Nothing => job[j].todo # <<>>
    BY DEF TypeInv, JobInv, Shape
  <2> QED
    BY <2>3, <2>4 DEF TypeInv, TypeOK, BundleTypes, TurnTypes, HumanTypes, WaveTypes
<1> QED
  BY <1>1, TypeInvHolds, PTL

-----------------------------------------------------------------------------
(***************************************************************************)
(* The items of a wave.                                                    *)
(***************************************************************************)

LEMMA ToSetOfConcat ==
  ASSUME NEW S, NEW s \in Seq(S), NEW t \in Seq(S)
  PROVE  /\ s \o t \in Seq(S) /\ Len(s \o t) = Len(s) + Len(t)
         /\ ToSet(s \o t) = ToSet(s) \cup ToSet(t)
<1>1. /\ Len(s) \in Nat /\ DOMAIN s = 1..Len(s)
      /\ Len(t) \in Nat /\ DOMAIN t = 1..Len(t)
  OBVIOUS
<1>2. /\ s \o t \in Seq(S) /\ Len(s \o t) = Len(s) + Len(t)
      /\ DOMAIN (s \o t) = 1..(Len(s) + Len(t))
      /\ \A i \in 1..(Len(s) + Len(t)) :
           (s \o t)[i] = IF i <= Len(s) THEN s[i] ELSE t[i - Len(s)]
  BY ConcatProperties
<1>3. \A m, n \in Nat : \A i \in 1..(m + n) : i <= m \/ i - m \in 1..n
  OBVIOUS
<1>4. \A m, n \in Nat : \A i \in 1..m : i \in 1..(m + n) /\ i <= m
  OBVIOUS
<1>5. \A m, n \in Nat : \A i \in 1..n :
        i + m \in 1..(m + n) /\ ~(i + m <= m) /\ (i + m) - m = i
  OBVIOUS
<1>6. ASSUME NEW x, x \in ToSet(s \o t)
      PROVE  x \in ToSet(s) \cup ToSet(t)
  <2>1. PICK i \in 1..(Len(s) + Len(t)) : x = (s \o t)[i]
    BY <1>2, <1>6 DEF ToSet
  <2>2. CASE i <= Len(s)
    <3>1. i \in 1..Len(s)
      BY <1>1, <2>1, <2>2
    <3> QED
      BY <1>1, <1>2, <2>1, <2>2, <3>1 DEF ToSet
  <2>3. CASE ~(i <= Len(s))
    <3>1. i - Len(s) \in 1..Len(t)
      BY <1>1, <1>3, <2>1, <2>3
    <3> QED
      BY <1>1, <1>2, <2>1, <2>3, <3>1 DEF ToSet
  <2> QED
    BY <2>2, <2>3
<1>7. ASSUME NEW x, x \in ToSet(s)
      PROVE  x \in ToSet(s \o t)
  <2>1. PICK i \in 1..Len(s) : x = s[i]
    BY <1>1, <1>7 DEF ToSet
  <2>2. i \in 1..(Len(s) + Len(t)) /\ i <= Len(s)
    BY <1>1, <1>4, <2>1
  <2> QED
    BY <1>2, <2>1, <2>2 DEF ToSet
<1>8. ASSUME NEW x, x \in ToSet(t)
      PROVE  x \in ToSet(s \o t)
  <2>1. PICK i \in 1..Len(t) : x = t[i]
    BY <1>1, <1>8 DEF ToSet
  <2>2. /\ i + Len(s) \in 1..(Len(s) + Len(t)) /\ ~(i + Len(s) <= Len(s))
        /\ (i + Len(s)) - Len(s) = i
    BY <1>1, <1>5, <2>1
  <2>3. (s \o t)[i + Len(s)] = t[i]
    BY <1>2, <2>2
  <2> QED
    BY <1>2, <2>1, <2>2, <2>3 DEF ToSet
<1> QED
  BY <1>2, <1>6, <1>7, <1>8

\* The features a list of results is about, one for each.
LEMMA ResultsAre ==
  ASSUME NEW rs \in Seq(Results(Feature))
  PROVE  LET fs == [i \in DOMAIN rs |-> rs[i].feature]
         IN  fs \in Seq(Feature) /\ Len(fs) = Len(rs) /\ ToSet(fs) = {r.feature : r \in ToSet(rs)}
<1> DEFINE fs == [i \in DOMAIN rs |-> rs[i].feature]
<1>1. DOMAIN rs = 1..Len(rs) /\ Len(rs) \in Nat /\ \A i \in 1..Len(rs) : rs[i] \in Results(Feature)
  OBVIOUS
<1>2. \A i \in 1..Len(rs) : rs[i].feature \in Feature
  BY <1>1 DEF Results
<1>3. fs \in Seq(Feature) /\ Len(fs) = Len(rs)
  BY <1>1, <1>2
<1>4. ToSet(fs) = {r.feature : r \in ToSet(rs)}
  BY <1>1 DEF ToSet
<1> QED
  BY <1>3, <1>4

\* How many items a wave has, and which.
Size(w) == Len(w.queue) + Len(ActiveOf(w)) + Len(w.results)
Members(w) ==
  ToSet(w.queue) \cup ToSet(ActiveOf(w)) \cup {r.feature : r \in ToSet(w.results)}

LEMMA ItemsAre ==
  ASSUME NEW w \in Waves(Feature)
  PROVE  Len(Items(w)) = Size(w) /\ ToSet(Items(w)) = Members(w)
<1> DEFINE fs == [i \in DOMAIN w.results |-> w.results[i].feature]
<1>1. /\ w.queue \in Seq(Feature) /\ ActiveOf(w) \in Seq(Feature)
      /\ w.results \in Seq(Results(Feature))
  BY ActiveOfIs DEF Waves
<1>2. fs \in Seq(Feature) /\ Len(fs) = Len(w.results)
        /\ ToSet(fs) = {r.feature : r \in ToSet(w.results)}
  BY <1>1, ResultsAre
<1> HIDE DEF fs
<1>3. /\ w.queue \o ActiveOf(w) \in Seq(Feature)
      /\ Len(w.queue \o ActiveOf(w)) = Len(w.queue) + Len(ActiveOf(w))
      /\ ToSet(w.queue \o ActiveOf(w)) = ToSet(w.queue) \cup ToSet(ActiveOf(w))
  BY <1>1, ToSetOfConcat
<1>4. /\ Len((w.queue \o ActiveOf(w)) \o fs) = Len(w.queue) + Len(ActiveOf(w)) + Len(fs)
      /\ ToSet((w.queue \o ActiveOf(w)) \o fs)
           = ToSet(w.queue) \cup ToSet(ActiveOf(w)) \cup ToSet(fs)
  <2> DEFINE both == w.queue \o ActiveOf(w)
  <2>1. both \in Seq(Feature) /\ fs \in Seq(Feature)
    BY <1>2, <1>3
  <2>2. /\ Len(both) = Len(w.queue) + Len(ActiveOf(w))
        /\ ToSet(both) = ToSet(w.queue) \cup ToSet(ActiveOf(w))
    BY <1>3
  <2> HIDE DEF both
  <2>3. Len(both \o fs) = Len(both) + Len(fs) /\ ToSet(both \o fs) = ToSet(both) \cup ToSet(fs)
    BY <2>1, ToSetOfConcat
  <2>4. /\ Len(both \o fs) = Len(w.queue) + Len(ActiveOf(w)) + Len(fs)
        /\ ToSet(both \o fs) = ToSet(w.queue) \cup ToSet(ActiveOf(w)) \cup ToSet(fs)
    BY <2>2, <2>3
  <2> QED
    BY <2>4 DEF both
<1>5. Items(w) = (w.queue \o ActiveOf(w)) \o fs
  BY DEF Items, fs
<1> QED
  BY <1>2, <1>4, <1>5 DEF Size, Members

\* A queue is what is before an item, the item and what is after it.
LEMMA QueueSplits ==
  ASSUME NEW s \in Seq(Feature), NEW n \in 1..Len(s)
  PROVE  LET before == SubSeq(s, 1, n - 1)
             after == SubSeq(s, n + 1, Len(s))
         IN  /\ before \in Seq(Feature) /\ after \in Seq(Feature)
             /\ Len(s) = Len(before) + 1 + Len(after)
             /\ ToSet(s) = ToSet(before) \cup {s[n]} \cup ToSet(after)
<1> DEFINE before == SubSeq(s, 1, n - 1)
           after == SubSeq(s, n + 1, Len(s))
<1>1. Len(s) \in Nat /\ n \in Nat /\ 1 <= n /\ n <= Len(s) /\ DOMAIN s = 1..Len(s)
  OBVIOUS
<1>2. /\ before \in Seq(Feature) /\ Len(before) = n - 1
      /\ \A i \in 1..(n - 1) : before[i] = s[i]
  BY <1>1
<1>3. /\ after \in Seq(Feature) /\ Len(after) = Len(s) - n
      /\ \A i \in 1..(Len(s) - n) : after[i] = s[i + n]
  <2>1. \A i \in (n + 1)..Len(s) : s[i] \in Feature
    BY <1>1
  <2>2. /\ after \in Seq(Feature)
        /\ Len(after) = IF n + 1 <= Len(s) THEN Len(s) - (n + 1) + 1 ELSE 0
        /\ \A i \in 1..(Len(s) - (n + 1) + 1) : after[i] = s[(n + 1) + i - 1]
    BY <1>1, <2>1, SubSeqProperties
  <2> HIDE DEF after
  <2>4. /\ Len(s) - (n + 1) + 1 = Len(s) - n
        /\ ~(n + 1 <= Len(s)) => Len(s) - n = 0
        /\ \A i \in 1..(Len(s) - n) : (n + 1) + i - 1 = i + n
    <3> DEFINE l == Len(s)
    <3>1. l \in Nat /\ n \in Nat /\ n <= l
      BY <1>1
    <3> HIDE DEF l
    <3>2. l - (n + 1) + 1 = l - n
      BY <3>1
    <3>3. ~(n + 1 <= l) => l - n = 0
      BY <3>1
    <3>4. \A i \in 1..(l - n) : (n + 1) + i - 1 = i + n
      BY <3>1
    <3> QED
      BY <3>2, <3>3, <3>4 DEF l
  <2>5. Len(after) = Len(s) - n
    BY <2>2, <2>4
  <2>6. \A i \in 1..(Len(s) - n) : after[i] = s[i + n]
    <3> TAKE i \in 1..(Len(s) - n)
    <3>1. (n + 1) + i - 1 = i + n
      BY <2>4
    <3>2. after[i] = s[(n + 1) + i - 1]
      BY <2>2, <2>4
    <3> QED
      BY <3>1, <3>2
  <2> QED
    BY <2>2, <2>5, <2>6
<1> HIDE DEF before, after
<1>4. DOMAIN before = 1..(n - 1) /\ DOMAIN after = 1..(Len(s) - n)
  BY <1>2, <1>3
<1>5. Len(s) = Len(before) + 1 + Len(after)
  BY <1>1, <1>2, <1>3
<1>6. ToSet(before) \cup {s[n]} \cup ToSet(after) \subseteq ToSet(s)
  <2>1. \A i \in 1..(n - 1) : i \in 1..Len(s)
    BY <1>1
  <2>2. \A i \in 1..(Len(s) - n) : i + n \in 1..Len(s)
    BY <1>1
  <2> QED
    BY <1>1, <1>2, <1>3, <1>4, <2>1, <2>2 DEF ToSet
<1>7. ToSet(s) \subseteq ToSet(before) \cup {s[n]} \cup ToSet(after)
  <2> SUFFICES ASSUME NEW i \in 1..Len(s)
               PROVE  s[i] \in ToSet(before) \cup {s[n]} \cup ToSet(after)
    BY <1>1 DEF ToSet
  <2>1. CASE i < n
    <3>1. i \in 1..(n - 1)
      BY <1>1, <2>1
    <3> QED
      BY <1>2, <1>4, <3>1 DEF ToSet
  <2>2. CASE i = n
    BY <2>2
  <2>3. CASE i > n
    <3>1. i - n \in 1..(Len(s) - n) /\ (i - n) + n = i
      BY <1>1, <2>3
    <3> QED
      BY <1>3, <1>4, <3>1 DEF ToSet
  <2> QED
    BY <1>1, <2>1, <2>2, <2>3
<1> QED
  BY <1>2, <1>3, <1>5, <1>6, <1>7 DEF before, after

LEMMA NewWaveItems ==
  ASSUME NEW ready \in Seq(Feature)
  PROVE  /\ NewWave(ready) \in Waves(Feature)
         /\ Size(NewWave(ready)) = Len(ready) /\ Members(NewWave(ready)) = ToSet(ready)
<1>1. /\ NewWave(ready).queue = ready /\ NewWave(ready).active = None
      /\ NewWave(ready).results = <<>>
  BY DEF NewWave
<1>2. NewWave(ready) \in Waves(Feature)
  <2>1. <<>> \in Seq(Results(Feature))
    OBVIOUS
  <2> QED
    BY <2>1 DEF NewWave, Waves
<1>3. ActiveOf(NewWave(ready)) = <<>>
  BY <1>1 DEF ActiveOf
<1>4. Len(<<>>) = 0 /\ ToSet(<<>>) = {} /\ Len(ready) \in Nat
  BY DEF ToSet
<1> QED
  BY <1>1, <1>2, <1>3, <1>4 DEF Size, Members

\* Two waves with the same items in another order.
LEMMA SameItems ==
  ASSUME NEW w \in Waves(Feature), NEW v \in Waves(Feature), v.results = w.results,
         Len(v.queue) + Len(ActiveOf(v)) = Len(w.queue) + Len(ActiveOf(w)),
         ToSet(v.queue) \cup ToSet(ActiveOf(v)) = ToSet(w.queue) \cup ToSet(ActiveOf(w))
  PROVE  Size(v) = Size(w) /\ Members(v) = Members(w)
BY DEF Size, Members

LEMMA PausedItems ==
  ASSUME NEW w \in Waves(Feature)
  PROVE  /\ PauseFeatureWave(w) \in Waves(Feature)
         /\ Size(PauseFeatureWave(w)) = Size(w)
         /\ Members(PauseFeatureWave(w)) = Members(w)
<1> DEFINE v == PauseFeatureWave(w)
<1>1. /\ w.queue \in Seq(Feature) /\ ActiveOf(w) \in Seq(Feature)
      /\ Len(w.queue) \in Nat /\ Len(ActiveOf(w)) \in Nat
  BY ActiveOfIs DEF Waves
<1>2. v \in Waves(Feature)
  BY PausedWaveTypes
<1>3. v.queue = ActiveOf(w) \o w.queue /\ v.active = None /\ v.results = w.results
  BY DEF PauseFeatureWave, Waves
<1>4. ActiveOf(v) = <<>>
  BY <1>3 DEF ActiveOf
<1> HIDE DEF v
<1>5. Len(<<>>) = 0 /\ ToSet(<<>>) = {}
  BY DEF ToSet
<1>6. /\ Len(v.queue) = Len(ActiveOf(w)) + Len(w.queue)
      /\ ToSet(v.queue) = ToSet(ActiveOf(w)) \cup ToSet(w.queue)
  BY <1>1, <1>3, ToSetOfConcat
<1>7. /\ Len(v.queue) + Len(ActiveOf(v)) = Len(w.queue) + Len(ActiveOf(w))
      /\ ToSet(v.queue) \cup ToSet(ActiveOf(v)) = ToSet(w.queue) \cup ToSet(ActiveOf(w))
  BY <1>1, <1>4, <1>5, <1>6
<1>8. Size(v) = Size(w) /\ Members(v) = Members(w)
  BY <1>2, <1>3, <1>7, SameItems
<1> QED
  BY <1>2, <1>8 DEF v

LEMMA ResumedItems ==
  ASSUME NEW w \in Waves(Feature)
  PROVE  /\ CompleteFeatureWaveAbort(w) \in Waves(Feature)
         /\ Size(CompleteFeatureWaveAbort(w)) = Size(w)
         /\ Members(CompleteFeatureWaveAbort(w)) = Members(w)
<1> DEFINE v == CompleteFeatureWaveAbort(w)
<1>1. v \in Waves(Feature) /\ v.queue = w.queue /\ v.active = w.active /\ v.results = w.results
  BY DEF CompleteFeatureWaveAbort, Waves
<1> HIDE DEF v
<1>2. ActiveOf(v) = ActiveOf(w)
  BY <1>1 DEF ActiveOf
<1>3. Size(v) = Size(w) /\ Members(v) = Members(w)
  BY <1>1, <1>2, SameItems
<1> QED
  BY <1>1, <1>3 DEF v

\* The results that a step of the wave adds are those of the active item and of
\* the items it passes over.
LEMMA NextItems ==
  ASSUME NEW w \in Waves(Feature), NEW stat, NEW conf
  PROVE  LET next == NextFeatureWave(w, stat, conf)
         IN  /\ next \in Waves(Feature)
             /\ Size(next) = Size(w) /\ Members(next) = Members(w)
             /\ next.active = None => next.queue = <<>>
<1> DEFINE next == NextFeatureWave(w, stat, conf)
           n == NextPlace(w, stat, conf)
           passed == Passed(w, n)
           verdict == [i \in DOMAIN ActiveOf(w) |-> Verdict(w.active, stat)]
           rest == [i \in DOMAIN passed |-> PassedOver(passed[i], stat, conf)]
<1>1. /\ next \in Waves(Feature)
      /\ next.queue = IF n = 0 THEN <<>> ELSE SubSeq(w.queue, n + 1, Len(w.queue))
      /\ next.active = IF n = 0 THEN None ELSE w.queue[n]
      /\ next.results = w.results \o verdict \o rest
      /\ passed \in Seq(Feature) /\ n \in 0..Len(w.queue)
      /\ verdict \in Seq(Results(Feature)) /\ rest \in Seq(Results(Feature))
  BY NextWaveTypes
<1>2. /\ w.queue \in Seq(Feature) /\ w.results \in Seq(Results(Feature))
      /\ ActiveOf(w) \in Seq(Feature)
      /\ Len(w.queue) \in Nat /\ Len(w.results) \in Nat /\ Len(ActiveOf(w)) \in Nat
  BY ActiveOfIs DEF Waves
<1>3. /\ Len(verdict) = Len(ActiveOf(w))
      /\ {r.feature : r \in ToSet(verdict)} = ToSet(ActiveOf(w))
  <2>1. CASE w.active = None
    <3>1. ActiveOf(w) = <<>> /\ DOMAIN <<>> = {} /\ Len(<<>>) = 0
      BY <2>1, ActiveOfIs
    <3> QED
      BY <1>1, <3>1 DEF ToSet
  <2>2. CASE w.active # None
    <3>1. ActiveOf(w) = <<w.active>> /\ DOMAIN <<w.active>> = {1} /\ Len(<<w.active>>) = 1
      BY <2>2, ActiveOfIs
    <3>2. DOMAIN verdict = {1} /\ verdict[1] = Verdict(w.active, stat)
      BY <3>1
    <3>3. Verdict(w.active, stat).feature = w.active
      BY DEF Verdict, Result
    <3> HIDE DEF verdict
    <3>4. Len(verdict) = 1
      <4>1. \A l \in Nat : 1..l = {1} => l = 1
        OBVIOUS
      <4> QED
        BY <1>1, <3>2, <4>1
    <3> QED
      BY <3>1, <3>2, <3>3, <3>4 DEF ToSet
  <2> QED
    BY <2>1, <2>2
<1>4. /\ Len(rest) = Len(passed)
      /\ {r.feature : r \in ToSet(rest)} = ToSet(passed)
  <2>1. DOMAIN passed = 1..Len(passed) /\ Len(passed) \in Nat
    BY <1>1
  <2> HIDE DEF passed
  <2>2. DOMAIN rest = 1..Len(passed) /\ \A i \in 1..Len(passed) : rest[i].feature = passed[i]
    BY <2>1 DEF PassedOver, Result
  <2>3. Len(rest) = Len(passed)
    BY <2>1, <2>2, <1>1
  <2> HIDE DEF rest
  <2> QED
    BY <2>1, <2>2, <2>3 DEF ToSet
<1> HIDE DEF next, n, passed, verdict, rest
<1>5. /\ Len(next.results) = Len(w.results) + Len(verdict) + Len(rest)
      /\ ToSet(next.results) = ToSet(w.results) \cup ToSet(verdict) \cup ToSet(rest)
  <2> DEFINE both == w.results \o verdict
  <2>1. /\ both \in Seq(Results(Feature)) /\ Len(both) = Len(w.results) + Len(verdict)
        /\ ToSet(both) = ToSet(w.results) \cup ToSet(verdict)
    BY <1>1, <1>2, ToSetOfConcat
  <2>2. next.results = both \o rest
    BY <1>1
  <2> HIDE DEF both
  <2>3. Len(both \o rest) = Len(both) + Len(rest) /\ ToSet(both \o rest) = ToSet(both) \cup ToSet(rest)
    <3>1. both \in Seq(Results(Feature)) /\ rest \in Seq(Results(Feature))
      BY <1>1, <2>1
    <3> QED
      BY <3>1, ToSetOfConcat
  <2> QED
    BY <2>1, <2>2, <2>3
<1>6. /\ Len(next.results) = Len(w.results) + Len(ActiveOf(w)) + Len(passed)
      /\ {r.feature : r \in ToSet(next.results)} =
           {r.feature : r \in ToSet(w.results)} \cup ToSet(ActiveOf(w)) \cup ToSet(passed)
  <2>1. {r.feature : r \in ToSet(next.results)} =
           {r.feature : r \in ToSet(w.results)} \cup {r.feature : r \in ToSet(verdict)}
             \cup {r.feature : r \in ToSet(rest)}
    BY <1>5
  <2> QED
    BY <1>3, <1>4, <1>5, <2>1
<1>7. /\ Len(w.queue) = Len(passed) + Len(next.queue) + Len(ActiveOf(next))
      /\ ToSet(w.queue) = ToSet(passed) \cup ToSet(next.queue) \cup ToSet(ActiveOf(next))
  <2>0. Len(<<>>) = 0 /\ ToSet(<<>>) = {}
    BY DEF ToSet
  <2>1. CASE n = 0
    <3>1. next.queue = <<>> /\ ActiveOf(next) = <<>> /\ passed = w.queue
      BY <1>1, <2>1 DEF ActiveOf, passed, Passed
    <3> QED
      BY <1>2, <2>0, <3>1
  <2>2. CASE n # 0
    <3>1. n \in 1..Len(w.queue) /\ w.queue[n] \in Feature
      BY <1>1, <1>2, <2>2
    <3>2. /\ passed = SubSeq(w.queue, 1, n - 1)
          /\ next.queue = SubSeq(w.queue, n + 1, Len(w.queue))
          /\ next.active = w.queue[n]
      BY <1>1, <2>2 DEF passed, Passed
    <3>3. ActiveOf(next) = <<w.queue[n]>>
      BY <3>1, <3>2, ConstantsAre DEF ActiveOf
    <3>4. /\ passed \in Seq(Feature) /\ next.queue \in Seq(Feature)
          /\ Len(w.queue) = Len(passed) + 1 + Len(next.queue)
          /\ ToSet(w.queue) = ToSet(passed) \cup {w.queue[n]} \cup ToSet(next.queue)
      <4> DEFINE before == SubSeq(w.queue, 1, n - 1)
                 after == SubSeq(w.queue, n + 1, Len(w.queue))
      <4>1. /\ before \in Seq(Feature) /\ after \in Seq(Feature)
            /\ Len(w.queue) = Len(before) + 1 + Len(after)
            /\ ToSet(w.queue) = ToSet(before) \cup {w.queue[n]} \cup ToSet(after)
        BY <1>2, <3>1, QueueSplits
      <4>2. passed = before /\ next.queue = after
        BY <3>2
      <4> HIDE DEF before, after
      <4> QED
        BY <4>1, <4>2
    <3>5. Len(ActiveOf(next)) = 1 /\ ToSet(ActiveOf(next)) = {w.queue[n]}
      BY <3>3 DEF ToSet
    <3>6. Len(passed) \in Nat /\ Len(next.queue) \in Nat
      BY <3>4
    <3>7. Len(w.queue) = Len(passed) + Len(next.queue) + Len(ActiveOf(next))
      <4>1. \A a, b \in Nat : a + 1 + b = a + b + 1
        OBVIOUS
      <4> QED
        BY <3>4, <3>5, <3>6, <4>1
    <3> QED
      BY <3>4, <3>5, <3>7
  <2> QED
    BY <2>1, <2>2
<1>8. Size(next) = Size(w)
  <2>1. /\ Len(passed) \in Nat /\ Len(next.queue) \in Nat /\ Len(ActiveOf(next)) \in Nat
    BY <1>1, ActiveOfIs DEF Waves
  <2> DEFINE a == Len(passed)
             b == Len(next.queue)
             c == Len(ActiveOf(next))
             d == Len(w.results)
             e == Len(ActiveOf(w))
  <2>2. a \in Nat /\ b \in Nat /\ c \in Nat /\ d \in Nat /\ e \in Nat
    BY <1>2, <2>1
  <2> HIDE DEF a, b, c, d, e
  <2>3. b + c + (d + e + a) = (a + b + c) + e + d
    BY <2>2
  <2> USE DEF a, b, c, d, e
  <2> QED
    BY <1>6, <1>7, <2>3 DEF Size
<1>9. Members(next) = Members(w)
  BY <1>6, <1>7 DEF Members
<1>10. next.active = None => next.queue = <<>>
  <2>1. n # 0 => w.queue[n] \in Feature
    BY <1>1, <1>2
  <2> QED
    BY <1>1, <2>1, ConstantsAre
<1> QED
  BY <1>1, <1>8, <1>9, <1>10 DEF next

\* The last wave, also when it has ended by itself.
LastWave ==
  IF wave = NoWave THEN [NewWave(<<>>) EXCEPT !.results = waveLog.results] ELSE wave

Accounted == Size(LastWave) = Len(waveLog.snapshot)
               /\ Members(LastWave) = ToSet(waveLog.snapshot)

LEMMA WavesAreWaves == NoWave \notin Waves(Feature)
BY DEF NoWave, Waves

\* What is left of a wave that has ended: its results.
LEMMA EndedItems ==
  ASSUME NEW rs \in Seq(Results(Feature))
  PROVE  LET v == [NewWave(<<>>) EXCEPT !.results = rs]
         IN  /\ v \in Waves(Feature) /\ v.queue = <<>> /\ v.active = None /\ v.results = rs
<1>1. <<>> \in Seq(Feature)
  OBVIOUS
<1>2. NewWave(<<>>) \in Waves(Feature)
  BY <1>1, NewWaveItems
<1>3. NewWave(<<>>).queue = <<>> /\ NewWave(<<>>).active = None
  BY DEF NewWave
<1> QED
  BY <1>2, <1>3 DEF Waves

LEMMA LastWaveIsWave ==
  WaveTypes => (WaveAccounts <=> waveLog.cut \/ Accounted)
<1> SUFFICES ASSUME WaveTypes PROVE WaveAccounts <=> waveLog.cut \/ Accounted
  OBVIOUS
<1>1. waveLog.results \in Seq(Results(Feature))
  BY DEF WaveTypes
<1>2. LastWave \in Waves(Feature)
  BY <1>1, EndedItems DEF WaveTypes, LastWave
<1>3. WaveAccounts <=> waveLog.cut \/ /\ Len(Items(LastWave)) = Len(waveLog.snapshot)
                                      /\ ToSet(Items(LastWave)) = ToSet(waveLog.snapshot)
  BY DEF WaveAccounts, LastWave
<1> QED
  BY <1>1, <1>2, <1>3, ItemsAre DEF Accounted

\* A step that keeps the snapshot and the items of the last wave.
LEMMA AccountsKept ==
  ASSUME WaveAccounts, WaveTypes, WaveTypes', waveLog'.snapshot = waveLog.snapshot,
         waveLog'.cut = waveLog.cut,
         Size(LastWave)' = Size(LastWave), Members(LastWave)' = Members(LastWave)
  PROVE  WaveAccounts'
<1>1. waveLog.cut \/ Accounted
  BY LastWaveIsWave
<1>2. waveLog'.cut \/ Accounted'
  BY <1>1 DEF Accounted
<1>3. (WaveTypes => (WaveAccounts <=> waveLog.cut \/ Accounted))'
  BY LastWaveIsWave, PTL
<1> QED
  BY <1>2, <1>3

LEMMA NextKeepsAccounts == TypeInv /\ TypeInv' /\ WaveAccounts /\ [Next]_vars => WaveAccounts'
<1> SUFFICES ASSUME TypeInv, TypeInv', WaveAccounts, [Next]_vars PROVE WaveAccounts'
  OBVIOUS
<1>0. WaveTypes /\ WaveTypes'
  BY DEF TypeInv
<1>1. CASE UNCHANGED waves
  <2>1. wave' = wave /\ waveLog' = waveLog
    BY <1>1 DEF waves
  <2> QED
    BY <2>1 DEF WaveAccounts
<1>2. CASE CutShort
  <2>1. CASE wave = NoWave
    <3>1. wave' = wave /\ waveLog' = waveLog
      BY <1>2, <2>1 DEF CutShort
    <3> QED
      BY <3>1 DEF WaveAccounts
  <2>2. CASE wave # NoWave
    <3>1. waveLog'.cut
      BY <1>2, <2>2 DEF CutShort
    <3> QED
      BY <3>1 DEF WaveAccounts
  <2> QED
    BY <2>1, <2>2
<1>3. ASSUME NEW k \in KickId, StartWave(k)
      PROVE  WaveAccounts'
  <2>1. CASE UNCHANGED waves
    BY <1>1, <2>1
  <2>2. CASE ~UNCHANGED waves
    <3>1. PICK ready \in ReadyLists :
            /\ wave' = NewWave(ready)
            /\ waveLog' = [snapshot |-> ready, results |-> <<>>, cut |-> FALSE]
      BY <1>3, <2>2 DEF StartWave
    <3>2. ready \in Seq(Feature)
      BY ReadyListsTypes DEF TypeInv
    <3>3. wave' \in Waves(Feature) /\ Size(wave') = Len(ready) /\ Members(wave') = ToSet(ready)
      BY <3>1, <3>2, NewWaveItems
    <3>4. /\ Len(Items(wave')) = Len(waveLog'.snapshot)
          /\ ToSet(Items(wave')) = ToSet(waveLog'.snapshot)
      BY <3>1, <3>3, ItemsAre
    <3>5. wave' # NoWave
      BY <3>3, WavesAreWaves
    <3> QED
      BY <3>4, <3>5 DEF WaveAccounts
  <2> QED
    BY <2>1, <2>2
<1>4. ASSUME NEW k \in KickId, Advance(k)
      PROVE  WaveAccounts'
  <2>1. CASE UNCHANGED waves
    BY <1>1, <2>1
  <2>2. CASE ~UNCHANGED waves
    <3> DEFINE next == NextFeatureWave(wave, status, conflicted)
    <3>1. /\ wave # NoWave
          /\ wave' = IF next.active = None THEN NoWave ELSE next
          /\ waveLog' = [waveLog EXCEPT !.results = next.results]
      BY <1>4, <2>2 DEF Advance
    <3>2. wave \in Waves(Feature)
      BY <1>0, <3>1 DEF WaveTypes
    <3>3. /\ next \in Waves(Feature)
          /\ Size(next) = Size(wave) /\ Members(next) = Members(wave)
          /\ next.active = None => next.queue = <<>>
      BY <3>2, NextItems
    <3> HIDE DEF next
    <3>4. /\ waveLog'.snapshot = waveLog.snapshot /\ waveLog'.cut = waveLog.cut
          /\ waveLog'.results = next.results
      BY <1>0, <3>1 DEF WaveTypes
    <3>5. LastWave = wave
      BY <3>1 DEF LastWave
    <3>6. CASE next.active # None
      <4>1. wave' = next /\ next # NoWave
        BY <3>1, <3>3, <3>6, WavesAreWaves
      <4>2. LastWave' = next
        BY <4>1 DEF LastWave
      <4>3. Size(LastWave)' = Size(LastWave) /\ Members(LastWave)' = Members(LastWave)
        BY <3>3, <3>5, <4>2 DEF Size, Members
      <4> QED
        BY <1>0, <3>4, <4>3, AccountsKept
    <3>7. CASE next.active = None
      <4>1. wave' = NoWave
        BY <3>1, <3>7
      <4>2. next.results \in Seq(Results(Feature))
        BY <3>3 DEF Waves
      <4> DEFINE v == [NewWave(<<>>) EXCEPT !.results = next.results]
      <4>3. LastWave' = v
        BY <3>4, <4>1 DEF LastWave
      <4>4. v \in Waves(Feature) /\ v.queue = <<>> /\ v.active = None /\ v.results = next.results
        BY <4>2, EndedItems
      <4> HIDE DEF v
      <4>5. ActiveOf(v) = ActiveOf(next) /\ v.queue = next.queue
        BY <3>3, <3>7, <4>4 DEF ActiveOf
      <4>6. Size(v) = Size(next) /\ Members(v) = Members(next)
        BY <3>3, <4>4, <4>5, SameItems
      <4>7. Size(LastWave)' = Size(LastWave) /\ Members(LastWave)' = Members(LastWave)
        BY <3>3, <3>5, <4>3, <4>6 DEF Size, Members
      <4> QED
        BY <1>0, <3>4, <4>7, AccountsKept
    <3> QED
      BY <3>6, <3>7
  <2> QED
    BY <2>1, <2>2
<1>5. ASSUME NEW k \in KickId, DispatchItem(k)
      PROVE  WaveAccounts'
  BY <1>1, <1>2, <1>5 DEF DispatchItem
<1>6. ASSUME NEW w \in Waves(Feature), wave = w, UNCHANGED waveLog,
             wave' = PauseFeatureWave(w) \/ wave' = CompleteFeatureWaveAbort(w)
      PROVE  WaveAccounts'
  <2>1. wave' \in Waves(Feature) /\ Size(wave') = Size(wave) /\ Members(wave') = Members(wave)
    BY <1>6, PausedItems, ResumedItems
  <2>2. LastWave = wave /\ LastWave' = wave'
    BY <1>6, <2>1, WavesAreWaves DEF LastWave
  <2>3. Size(LastWave)' = Size(LastWave) /\ Members(LastWave)' = Members(LastWave)
    BY <2>1, <2>2 DEF Size, Members
  <2> QED
    BY <1>0, <1>6, <2>3, AccountsKept
<1>7. ASSUME NEW k \in KickId, AgentEnd(k)
      PROVE  WaveAccounts'
  <2>1. wave \in Waves(Feature)
    BY <1>0, <1>7 DEF AgentEnd, WaveTypes
  <2> QED
    BY <1>6, <1>7, <2>1 DEF AgentEnd
<1>8. CASE Pause
  <2>1. CASE wave = NoWave
    <3>1. wave' = wave /\ waveLog' = waveLog
      BY <1>8, <2>1 DEF Pause
    <3> QED
      BY <1>1, <3>1 DEF waves
  <2>2. CASE wave # NoWave
    <3>1. wave \in Waves(Feature) /\ wave' = PauseFeatureWave(wave) /\ waveLog' = waveLog
      BY <1>0, <1>8, <2>2 DEF Pause, WaveTypes
    <3> QED
      BY <1>6, <3>1
  <2> QED
    BY <2>1, <2>2
<1>9. CASE StartTurn
  <2>1. wave' = wave /\ waveLog' = waveLog
    BY <1>9 DEF StartTurn, HandoffWave
  <2> QED
    BY <1>1, <2>1 DEF waves
<1>10. CASE Runtime
  BY <1>10, <1>1, <1>3, <1>4, <1>5, <1>7, <1>9
  DEF Runtime, Load, Store, Gather, DispatchStep, DispatchFails, EndKick, EndWave, EndTurn,
      Settles, PauseEnds, ResetEnds, GuideEnds, KickEnds, Ended, Discard, StartInTurn, StartKick
<1>11. CASE Work
  BY <1>1, <1>11 DEF Work
<1>12. CASE Human
  BY <1>12, <1>1, <1>2, <1>8
  DEF Human, StartAuto, Continue, Abort, ClickWave, Recover, Chat, Approve, CancelWork, Restart
<1>13. CASE UNCHANGED vars
  BY <1>1, <1>13 DEF vars, waves
<1> QED
  BY <1>10, <1>11, <1>12, <1>13 DEF Next

\* Every feature that was ready when a wave was started is in its queue, under way or
\* among its results, in number and as a set, until the wave is cut short: whatever
\* pauses, aborted turns, replaced sessions and failing dispatches come in between,
\* also when the human does not wait (pi-tools.mjs:278-358, iterator.js:760-853).
THEOREM WavesAreAccountedFor == Spec => []WaveAccounts
<1>1. Init => WaveAccounts
  <2> SUFFICES ASSUME Init PROVE WaveAccounts
    OBVIOUS
  <2>1. WaveTypes /\ wave = NoWave /\ waveLog = [snapshot |-> <<>>, results |-> <<>>, cut |-> FALSE]
    BY InitTypes DEF Init, TypeInv
  <2>2. LastWave = [NewWave(<<>>) EXCEPT !.results = <<>>] /\ <<>> \in Seq(Results(Feature))
    BY <2>1 DEF LastWave
  <2>3. LastWave.queue = <<>> /\ LastWave.active = None /\ LastWave.results = <<>>
    BY <2>2, EndedItems
  <2>4. Len(<<>>) = 0 /\ ToSet(<<>>) = {} /\ ActiveOf(LastWave) = <<>>
    BY <2>3 DEF ToSet, ActiveOf
  <2>5. Accounted
    BY <2>1, <2>3, <2>4 DEF Accounted, Size, Members
  <2> QED
    BY <2>1, <2>5, LastWaveIsWave
<1> QED
  BY <1>1, NextKeepsAccounts, TypeInvHolds, PTL DEF Spec
=============================================================================
