-------------------------- MODULE DriverChainProofs --------------------------
(***************************************************************************)
(* Proofs about AutoDriver that follow its chains of steps.  No step makes *)
(* two chains of one; only the human's hand, or the approval he has asked  *)
(* for, adds one.  On that rest the others: what has stopped stays         *)
(* stopped, the breaker holds for every chain, and, as long as there never *)
(* was more than one chain, a feature is reviewed no more often than its   *)
(* limit allows and one feature at a time waits for its review.            *)
(***************************************************************************)
EXTENDS AutoDriverProofs

-----------------------------------------------------------------------------
(***************************************************************************)
(* The chains.                                                             *)
(***************************************************************************)

\* The steps of the driver and of the wave that are under way.
Running == {k \in KickId : job[k].name # "idle"}

\* The turn, and the control action that begins something, as numbers.
TurnToken == IF turn = NoTurn THEN 0 ELSE 1
ControlToken == IF job["control"].name \in Beginnings THEN 1 ELSE 0

\* What one chain alone is: a step, a command, a turn or a control action.
TokenInv ==
  /\ \A k, l \in KickId : job[k].name # "idle" /\ job[l].name # "idle" => k = l
  /\ Driving => turn = NoTurn /\ queue = <<>>
  /\ turn # NoTurn => queue = <<>>
  /\ Len(queue) <= 1
  /\ job["control"].name \in Beginnings =>
       ~Driving /\ turn = NoTurn /\ queue = <<>>

ChainInv == Tokens <= chains /\ (~crowded => Tokens <= 1)

\* No approval has set a step of the driver going beside its turn.
NoneBeside == ~crowded => \A k \in KickId : job[k].name # "start"

LEMMA TokensSum ==
  ASSUME TurnTypes
  PROVE  /\ Tokens = Cardinality(Running) + Len(queue) + TurnToken + ControlToken
         /\ Cardinality(Running) \in Nat /\ Len(queue) \in Nat
         /\ TurnToken \in {0, 1} /\ ControlToken \in {0, 1}
         /\ IsFiniteSet(Running)
<1>1. Running \in SUBSET KickId
  BY DEF Running
<1>2. IsFiniteSet(Running) /\ Cardinality(Running) \in Nat
  BY <1>1, ConstantsAre, FS_Subset, FS_CardinalityType
<1>3. Len(queue) \in Nat
  BY LenProperties DEF TurnTypes
<1> QED
  BY <1>2, <1>3 DEF Tokens, Running, TurnToken, ControlToken

\* Steps that start nothing.
LEMMA NothingStarts ==
  ASSUME TurnTypes, TurnTypes',
         \A k \in KickId : job'[k].name # "idle" => job[k].name # "idle",
         job'["control"].name \in Beginnings => job["control"].name \in Beginnings,
         turn' # NoTurn => turn # NoTurn,
         queue' = queue
  PROVE  Tokens' <= Tokens
<1>1. Running' \in SUBSET Running
  BY DEF Running
<1>2. TurnToken' <= TurnToken /\ ControlToken' <= ControlToken
  BY DEF TurnToken, ControlToken
<1>3. /\ Tokens = Cardinality(Running) + Len(queue) + TurnToken + ControlToken
      /\ Cardinality(Running) \in Nat /\ Len(queue) \in Nat
      /\ TurnToken \in {0, 1} /\ ControlToken \in {0, 1} /\ IsFiniteSet(Running)
  BY TokensSum
<1>4. (TurnTypes => /\ Tokens = Cardinality(Running) + Len(queue) + TurnToken + ControlToken
                    /\ Cardinality(Running) \in Nat
                    /\ TurnToken \in {0, 1} /\ ControlToken \in {0, 1})'
  BY TokensSum, PTL
<1>5. Cardinality(Running') <= Cardinality(Running)
  BY <1>1, <1>3, FS_Subset
<1> QED
  BY <1>2, <1>3, <1>4, <1>5

\* The step of a kick, which may leave a command.
LEMMA KickSteps ==
  ASSUME JobInv, TurnTypes, TurnTypes', NEW k \in KickId, job[k].name # "idle",
         NEW b, job' = [job EXCEPT ![k] = b], turn' = turn,
         \/ queue' = queue
         \/ b = IdleJob /\ \E c : queue' = Append(queue, c)
  PROVE  Tokens' <= Tokens
<1>1. k \in Job /\ k # "control" /\ job \in [Job -> Jobs] /\ "control" \in Job
  BY ConstantsAre DEF JobInv
<1>2. /\ \A i \in Job \ {k} : job'[i] = job[i]
      /\ job'[k] = b
  BY <1>1
<1>3. job'["control"] = job["control"] /\ \A l \in KickId \ {k} : job'[l] = job[l]
  BY <1>1, <1>2, ConstantsAre
<1>4. CASE queue' = queue
  BY <1>3, <1>4, NothingStarts
<1>5. CASE b = IdleJob /\ \E c : queue' = Append(queue, c)
  <2>1. Running' = Running \ {k} /\ k \in Running
    BY <1>2, <1>3, <1>5, IdleIsJob DEF Running
  <2>2. TurnToken' = TurnToken /\ ControlToken' = ControlToken
    BY <1>3 DEF TurnToken, ControlToken
  <2>3. /\ Tokens = Cardinality(Running) + Len(queue) + TurnToken + ControlToken
        /\ Cardinality(Running) \in Nat /\ Len(queue) \in Nat
        /\ TurnToken \in {0, 1} /\ ControlToken \in {0, 1} /\ IsFiniteSet(Running)
    BY TokensSum
  <2>4. (TurnTypes => /\ Tokens = Cardinality(Running) + Len(queue) + TurnToken + ControlToken
                      /\ Cardinality(Running) \in Nat)'
    BY TokensSum, PTL
  <2>5. Cardinality(Running') = Cardinality(Running) - 1
    BY <2>1, <2>3, FS_RemoveElement
  <2>6. Len(queue') = Len(queue) + 1
    BY <1>5 DEF TurnTypes
  <2> QED
    BY <2>2, <2>3, <2>4, <2>5, <2>6
<1> QED
  BY <1>4, <1>5

\* One chain alone.
LEMMA OneChain ==
  ASSUME TurnTypes, Tokens <= 1
  PROVE  TokenInv
<1>1. /\ Cardinality(Running) + Len(queue) + TurnToken + ControlToken <= 1
      /\ Cardinality(Running) \in Nat /\ Len(queue) \in Nat
      /\ TurnToken \in {0, 1} /\ ControlToken \in {0, 1} /\ IsFiniteSet(Running)
  BY TokensSum
<1>2. Driving => Cardinality(Running) >= 1
  <2>1. Driving => Running # {}
    BY DEF Driving, Running
  <2>2. Driving => Cardinality(Running) # 0
    BY <1>1, <2>1, FS_EmptySet
  <2> QED
    BY <1>1, <2>2
<1>3. Len(queue) = 0 => queue = <<>>
  BY EmptySeq DEF TurnTypes
<1>4. ASSUME NEW k \in Running, NEW l \in Running PROVE k = l
  <2>1. Cardinality(Running) = 0 \/ Cardinality(Running) = 1
    BY <1>1
  <2>2. Cardinality(Running) = 1
    BY <1>1, <1>4, <2>1, FS_EmptySet
  <2>3. PICK x : Running = {x}
    BY <1>1, <2>2, FS_Singleton
  <2> QED
    BY <1>4, <2>3
<1>5. /\ turn # NoTurn <=> TurnToken = 1
      /\ job["control"].name \in Beginnings <=> ControlToken = 1
  BY DEF TurnToken, ControlToken
<1>6. Driving => turn = NoTurn /\ queue = <<>>
  BY <1>1, <1>2, <1>3, <1>5
<1>7. turn # NoTurn => queue = <<>>
  BY <1>1, <1>3, <1>5
<1>8. job["control"].name \in Beginnings => ~Driving /\ turn = NoTurn /\ queue = <<>>
  BY <1>1, <1>2, <1>3, <1>5
<1>9. Len(queue) <= 1
  BY <1>1
<1> QED
  BY <1>4, <1>6, <1>7, <1>8, <1>9 DEF TokenInv, Running

\* While a step of the driver is under way, it is all there is.
LEMMA AloneKick ==
  ASSUME TokenInv, NEW k \in KickId, job[k].name # "idle"
  PROVE  /\ turn = NoTurn /\ queue = <<>> /\ job["control"].name \notin Beginnings
         /\ \A l \in KickId \ {k} : job[l].name = "idle"
BY DEF TokenInv, Driving
LEMMA NewNames ==
  ASSUME NEW jobs, jobs \in [Job -> Jobs], NEW k \in KickId, NEW b
  PROVE  LET new == [jobs EXCEPT ![k] = b]
         IN  /\ new[k] = b /\ \A l \in KickId \ {k} : new[l] = jobs[l]
             /\ new["control"] = jobs["control"]
BY ConstantsAre

\* What the driver, the wave and the turns do by themselves.
LEMMA NothingAdded ==
  ASSUME TypeInv, TypeInv', [Next]_vars, ~Attended
  PROVE  Tokens' <= Tokens /\ chains' = chains /\ crowded' = crowded
<1>0. /\ job \in [Job -> Jobs] /\ JobInv /\ StepsInv /\ "control" \in Job
      /\ KickId \subseteq Job /\ "control" \notin KickId
      /\ TurnTypes /\ TurnTypes'
      /\ turn \in Turns /\ (turn.step = "none" <=> turn = NoTurn)
      /\ queue \in Seq([step : Steps \cup {"chat"}, feature : Subject])
  BY ConstantsAre DEF TypeInv, JobInv, TurnTypes
<1>1. CASE UNCHANGED vars
  BY <1>0, <1>1, NothingStarts DEF vars
<1>2. ASSUME NEW j \in Job, Load(j) \/ Store(j)
      PROVE  Tokens' <= Tokens /\ chains' = chains /\ crowded' = crowded
  <2>1. \A i \in Job : job'[i].name = job[i].name
    <3>1. CASE Load(j)
      BY <1>0, <3>1 DEF Load, Jobs
    <3>2. CASE Store(j)
      BY <1>0, <3>2 DEF Store, Jobs
    <3> QED
      BY <1>2, <3>1, <3>2
  <2>2. turn' = turn /\ queue' = queue /\ chains' = chains /\ crowded' = crowded
    BY <1>2 DEF Load, Store, agent, human
  <2> QED
    BY <1>0, <2>1, <2>2, NothingStarts
<1>3. ASSUME NEW k \in KickId,
             \/ Gather(k) \/ DispatchStep(k) \/ DispatchFails(k) \/ EndKick(k)
             \/ StartWave(k) \/ Advance(k) \/ DispatchItem(k) \/ EndWave(k) \/ AgentEnd(k)
      PROVE  Tokens' <= Tokens /\ chains' = chains /\ crowded' = crowded
  <2>1. job[k].name # "idle" /\ turn' = turn /\ chains' = chains /\ crowded' = crowded
    BY <1>3 DEF Gather, DispatchStep, DispatchFails, EndKick, StartWave, Advance, DispatchItem,
                EndWave, AgentEnd, Written, agent, human
  <2>2. \E b : /\ job' = [job EXCEPT ![k] = b]
               /\ \/ queue' = queue
                  \/ b = IdleJob /\ \E c : queue' = Append(queue, c)
    BY <1>3 DEF Gather, DispatchStep, DispatchFails, EndKick, StartWave, Advance, DispatchItem,
                EndWave, AgentEnd, Written, agent
  <2> QED
    BY <1>0, <2>1, <2>2, KickSteps
<1>4. CASE StartTurn
  <2>1. /\ turn = NoTurn /\ queue # <<>> /\ queue' = Tail(queue) /\ job' = job
        /\ chains' = chains /\ crowded' = crowded
    BY <1>4 DEF StartTurn, human
  <2>2. Len(queue') = Len(queue) - 1
    BY <1>0, <2>1, HeadTailProperties
  <2>3. Running' = Running /\ ControlToken' = ControlToken /\ TurnToken = 0
    BY <2>1 DEF Running, ControlToken, TurnToken
  <2>4. /\ Tokens = Cardinality(Running) + Len(queue) + TurnToken + ControlToken
        /\ Cardinality(Running) \in Nat /\ Len(queue) \in Nat
        /\ TurnToken \in {0, 1} /\ ControlToken \in {0, 1}
    BY <1>0, TokensSum
  <2>5. (TurnTypes => /\ Tokens = Cardinality(Running) + Len(queue) + TurnToken + ControlToken
                      /\ TurnToken \in {0, 1})'
    BY TokensSum, PTL
  <2> QED
    BY <1>0, <2>1, <2>2, <2>3, <2>4, <2>5
<1>5. CASE EndTurn
  <2>1. /\ turn # NoTurn /\ turn' = NoTurn /\ FreeKicks # {} /\ job' = Started(job, "ended")
        /\ queue' = queue /\ autoSteps' = autoSteps /\ chains' = chains /\ crowded' = crowded
    BY <1>5 DEF EndTurn, human
  <2>2. PICK k \in FreeKicks : /\ job'[k].name = "ended"
                               /\ \A i \in KickId \ {k} : job'[i] = job[i]
                               /\ job'["control"] = job["control"]
    BY <1>0, <2>1, StartedTypes
  <2>3. Running' = Running \cup {k} /\ k \notin Running
    BY <2>2 DEF Running, FreeKicks
  <2>4. ControlToken' = ControlToken /\ TurnToken = 1 /\ TurnToken' = 0
    BY <2>1, <2>2 DEF ControlToken, TurnToken
  <2>5. /\ Tokens = Cardinality(Running) + Len(queue) + TurnToken + ControlToken
        /\ Cardinality(Running) \in Nat /\ Len(queue) \in Nat /\ ControlToken \in {0, 1}
        /\ IsFiniteSet(Running)
    BY <1>0, TokensSum
  <2>6. (TurnTypes => Tokens = Cardinality(Running) + Len(queue) + TurnToken + ControlToken)'
    BY TokensSum, PTL
  <2>7. Cardinality(Running') = Cardinality(Running) + 1
    BY <2>3, <2>5, FS_AddElement
  <2> QED
    BY <1>0, <2>1, <2>4, <2>5, <2>6, <2>7
<1>6. CASE Work
  <2>1. /\ turn' = Aborted(turn) /\ job' = job /\ queue' = queue
        /\ chains' = chains /\ crowded' = crowded
    BY <1>6 DEF Work, Aborted, human
  <2> QED
    BY <1>0, <2>1, AbortedIs, NothingStarts
<1> QED
  BY <1>1, <1>2, <1>3, <1>4, <1>5, <1>6 DEF Next, Runtime, Settles, Human

LEMMA NextKeepsChains ==
  ASSUME TypeInv, TypeInv', ChainInv, [Next]_vars
  PROVE  ChainInv'
<1>1. Tokens \in Nat /\ chains \in Nat
  BY TokensAre DEF TypeInv, HumanTypes
<1>2. (TurnTypes => Tokens \in Nat)'
  BY TokensAre, PTL
<1>3. CASE Attended
  <2>1. Tokens' \in Nat /\ crowded \in BOOLEAN
    BY <1>2 DEF TypeInv, HumanTypes
  <2>2. chains' = Tokens' /\ crowded' = (crowded \/ Tokens' > 1)
    BY <1>3 DEF Attended
  <2>3. Tokens' <= chains'
    BY <2>1, <2>2
  <2>4. ~crowded' => ~(Tokens' > 1)
    BY <2>1, <2>2, Zenon
  <2>5. ~(Tokens' > 1) => Tokens' <= 1
    BY <2>1
  <2> QED
    BY <2>3, <2>4, <2>5 DEF ChainInv
<1>4. CASE ~Attended
  BY <1>1, <1>2, <1>4, NothingAdded DEF ChainInv, TypeInv
<1> QED
  BY <1>3, <1>4

LEMMA InitChains == Init => ChainInv /\ NoneBeside
<1> SUFFICES ASSUME Init PROVE ChainInv /\ NoneBeside
  OBVIOUS
<1>1. /\ TurnTypes /\ Running = {} /\ queue = <<>> /\ TurnToken = 0 /\ ControlToken = 0
      /\ NoneBeside
  BY InitTypes, IdleIsJob, ConstantsAre
  DEF Init, TypeInv, Running, TurnToken, ControlToken, Beginnings, NoneBeside
<1>2. Tokens = 0
  BY <1>1, TokensSum, FS_EmptySet
<1> QED
  BY <1>1, <1>2 DEF ChainInv, Init

\* kickAuto takes no lock (iterator.js:856), and the driver needs none for its own sake:
\* no step, dispatch or turn makes two chains of one, so there are never more than when
\* the human last did something, or an approval of his started auto mode in a turn; and
\* as long as that never left two, nothing decides twice at once, and never on top of a
\* turn or of a command that waits for one.
THEOREM OneToken == Spec => [](Tokens <= chains /\ (~crowded => TokenInv))
<1>1. Init => ChainInv
  BY InitChains
<1>2. TypeInv /\ TypeInv' /\ ChainInv /\ [Next]_vars => ChainInv'
  BY NextKeepsChains
<1>3. TypeInv /\ ChainInv => Tokens <= chains /\ (~crowded => TokenInv)
  BY OneChain DEF ChainInv, TypeInv
<1> QED
  BY <1>1, <1>2, <1>3, TypeInvHolds, PTL DEF Spec
-----------------------------------------------------------------------------
(***************************************************************************)
(* What has stopped stays stopped.                                         *)
(***************************************************************************)

\* The steps that may be under way when everything has stopped.
Resting ==
  {"idle", "ended", "gather", "advance"} \cup (IF wave = NoWave THEN {"waved"} ELSE {})

LEMMA StoppedStays ==
  ASSUME TypeInv, [Next]_vars, Stopped
  PROVE  Stopped' \/ Human \/ UNCHANGED vars
<1>0. /\ job \in [Job -> Jobs] /\ KickId \subseteq Job /\ "control" \in Job
      /\ "control" \notin KickId /\ JobInv /\ StepsInv /\ TurnTypes
      /\ \A j \in Job : Shape(j, job[j])
      /\ \A k \in KickId : job[k].name \in Resting
      /\ job["control"].name = "idle" /\ queue = <<>> /\ turn.step # "approved"
      /\ st.paused \/ (st.mode = "manual" /\ wave = NoWave)
  BY ConstantsAre DEF TypeInv, JobInv, Stopped, Resting
<1>1. job["control"].todo = <<>> /\ job["control"].copy = Nothing
  BY <1>0 DEF Shape, Quiet
<1>2. ASSUME NEW k \in KickId, NEW b, b.name \in Resting, job' = [job EXCEPT ![k] = b],
             UNCHANGED <<st, turn, queue, wave>>
      PROVE  Stopped'
  <2>1. job'["control"] = job["control"] /\ job'[k] = b
          /\ \A l \in KickId \ {k} : job'[l] = job[l]
    BY <1>0, <1>2, NewNames
  <2> QED
    BY <1>0, <1>2, <2>1 DEF Stopped, Resting
<1>3. ASSUME NEW j \in Job, Load(j) \/ Store(j) PROVE Stopped'
  <2>1. \A i \in Job : job'[i].name = job[i].name
    <3>1. CASE Load(j)
      BY <1>0, <3>1 DEF Load, Jobs
    <3>2. CASE Store(j)
      BY <1>0, <3>2 DEF Store, Jobs
    <3> QED
      BY <1>3, <3>1, <3>2
  <2>2. UNCHANGED <<turn, queue, wave>>
    BY <1>3 DEF Load, Store, agent, waves
  <2>3. CASE Load(j)
    BY <1>0, <2>1, <2>2, <2>3 DEF Load, Stopped, Resting
  <2>4. CASE Store(j)
    <3>1. job[j].copy # Nothing /\ job[j].todo # <<>>
      BY <1>0, <2>4 DEF Store, Shape
    <3>2. j \in KickId
      BY <1>1, <3>1 DEF Job
    <3>3. job[j].name = "waved" /\ wave = NoWave /\ Head(job[j].todo) = "waved"
      BY <1>0, <3>1, <3>2, WritesAre DEF Resting, Shape, Quiet, Single
    <3>4. job[j].copy \in States
      BY <1>0, <3>1 DEF Jobs
    <3>5. st'.mode = "manual"
      BY <2>4, <3>3, <3>4 DEF Store, Patched, States
    <3> QED
      BY <1>0, <2>1, <2>2, <3>3, <3>5 DEF Stopped, Resting
  <2> QED
    BY <1>3, <2>3, <2>4
<1>4. ASSUME NEW k \in KickId, Gather(k) PROVE Stopped'
  <2>1. ~Driven
    BY <1>0 DEF Driven
  <2>2. NextAutoAction = IdleJob
    BY <2>1 DEF NextAutoAction
  <2>3. Counted(NextAutoAction) = IdleJob
    BY <2>2, IdleIsJob DEF Counted
  <2>4. job' = [job EXCEPT ![k] = IdleJob] /\ UNCHANGED <<st, turn, queue, wave>>
    BY <1>4, <2>3 DEF Gather, agent, waves
  <2> QED
    BY <1>2, <2>4, IdleIsJob DEF Resting
<1>5. ASSUME NEW k \in KickId,
             DispatchStep(k) \/ DispatchFails(k) \/ EndKick(k) \/ StartWave(k)
               \/ DispatchItem(k) \/ StartKick(k)
      PROVE  FALSE
  BY <1>0, <1>5 DEF DispatchStep, DispatchFails, EndKick, StartWave, DispatchItem, StartKick,
                    Written, Resting
<1>6. ASSUME NEW k \in KickId, EndWave(k) PROVE Stopped'
  BY <1>2, <1>6, IdleIsJob DEF EndWave, agent, waves, Resting
<1>7. ASSUME NEW k \in KickId, Advance(k) PROVE Stopped'
  <2>1. UNCHANGED <<st, turn, queue, wave>>
    BY <1>0, <1>7 DEF Advance, agent, waves
  <2>2. \/ job' = [job EXCEPT ![k] = IdleJob]
        \/ wave = NoWave /\ job' = [job EXCEPT ![k] = GivenUp]
    BY <1>0, <1>7 DEF Advance
  <2>3. GivenUp.name = "waved"
    BY GivenUpIs
  <2> QED
    BY <1>2, <2>1, <2>2, <2>3, IdleIsJob DEF Resting
<1>8. ASSUME NEW k \in KickId, AgentEnd(k) PROVE Stopped'
  <2>1. st.paused /\ UNCHANGED <<st, turn, queue>>
    BY <1>0, <1>8 DEF AgentEnd, agent
  <2>2. [IdleJob EXCEPT !.name = "advance"].name = "advance"
    BY StartedShape
  <2>3. /\ job'[k] = IdleJob \/ job'[k] = [IdleJob EXCEPT !.name = "advance"]
        /\ job'["control"] = job["control"]
        /\ \A l \in KickId \ {k} : job'[l] = job[l]
    BY <1>0, <1>8, NewNames DEF AgentEnd
  <2>4. wave # NoWave
    BY <1>8 DEF AgentEnd
  <2> QED
    BY <1>0, <2>1, <2>2, <2>3, <2>4, IdleIsJob DEF Stopped, Resting
<1>9. CASE StartTurn
  BY <1>0, <1>9 DEF StartTurn
<1>10. CASE EndTurn
  <2>1. /\ FreeKicks # {} /\ job' = Started(job, "ended") /\ autoSteps' = autoSteps
        /\ UNCHANGED <<st, queue, wave>> /\ turn' = NoTurn
    BY <1>10 DEF EndTurn, waves
  <2>2. PICK k \in FreeKicks : /\ job'[k].name = "ended"
                               /\ \A i \in KickId \ {k} : job'[i] = job[i]
                               /\ job'["control"] = job["control"]
    BY <1>0, <2>1, StartedTypes
  <2> QED
    BY <1>0, <2>1, <2>2, NoTurnTypes DEF Stopped, Resting
<1>11. CASE Work
  <2>1. UNCHANGED <<queue, job, wave>> /\ turn' = Aborted(turn)
    BY <1>11 DEF Work, waves, Aborted
  <2>2. st' = st
    <3>1. ~Driven
      BY <1>0 DEF Driven
    <3> QED
      BY <1>11, <3>1 DEF Work
  <2>3. turn'.step = turn.step
    BY <1>0, <2>1, AbortedIs DEF TurnTypes
  <2> QED
    BY <1>0, <2>1, <2>2, <2>3 DEF Stopped
<1>12. CASE PauseEnds \/ ResetEnds \/ GuideEnds \/ KickEnds \/ Discard \/ StartInTurn
  BY <1>0, <1>12
  DEF PauseEnds, ResetEnds, GuideEnds, KickEnds, Ended, Written, Discard, StartInTurn
<1> QED
  BY <1>3, <1>4, <1>5, <1>6, <1>7, <1>8, <1>9, <1>10, <1>11, <1>12 DEF Next, Runtime, Settles

\* Once auto mode and the wave are paused or over, no step of the driver, no turn that
\* ends late and no command left over starts them again: only the human does
\* (pi-tools.mjs:382-391, iterator.js:903-915 and 1832), however many chains there are.
THEOREM StoppedIsFinal == Spec => StaysStopped
<1>1. TypeInv /\ [Next]_vars => [Stopped => Stopped' \/ Human]_vars
  BY StoppedStays
<1> QED
  BY <1>1, TypeInvHolds, PTL DEF Spec, StaysStopped
-----------------------------------------------------------------------------
(***************************************************************************)
(* The breaker.                                                            *)
(***************************************************************************)

AllDone == \A f \in Present : status[f] = "done"

PlanReviewing ==
  \/ planReviewed
  \/ turn.step = "plan-review"
  \/ \E i \in DOMAIN queue : queue[i].step = "plan-review"
  \/ \E k \in KickId : job[k].cmd.step = "plan-review"

\* The plan is reviewed when every feature is done, and what is done stays so.
PlanLast == PlanReviewing => AllDone

\* The dispatches made and decided on since the human was there.
Due == unattended + Cardinality(Named("dispatch"))

\* What the chains that have ended may have dispatched, and what those that are alive
\* have: all of them count in one variable.
Paid ==
  (chains - Tokens) * MaxSteps
    + (IF autoSteps <= MaxSteps THEN autoSteps ELSE MaxSteps) + chains

BreakerInv == Due <= chains * (MaxSteps + 1) /\ (planReviewed \/ Due <= Paid)

\* Products of natural numbers.
LEMMA ProductsAre ==
  ASSUME NEW m \in Nat, NEW x \in Nat
  PROVE  /\ x * m \in Nat /\ (x + 1) * m = x * m + m /\ x * (m + 1) = x * m + x
         /\ \A y \in Nat : x <= y => x * m <= y * m
<1>1. x * m \in Nat /\ (x + 1) * m = x * m + m /\ x * (m + 1) = x * m + x
  OBVIOUS
<1>2. ASSUME NEW y \in Nat, x <= y PROVE x * m <= y * m
  <2>1. PICK d \in Nat : y = x + d
    <3>1. y - x \in Nat /\ y = x + (y - x)
      BY <1>2
    <3> QED
      BY <3>1
  <2>2. y * m = x * m + d * m /\ d * m \in Nat /\ x * m \in Nat
    BY <2>1
  <2> QED
    BY <2>2
<1> QED
  BY <1>1, <1>2

LEMMA DueIs ==
  ASSUME HumanTypes
  PROVE  /\ Due \in Nat /\ Cardinality(Named("dispatch")) \in Nat
         /\ IsFiniteSet(Named("dispatch"))
<1>1. Named("dispatch") \in SUBSET KickId
  BY DEF Named
<1>2. IsFiniteSet(Named("dispatch")) /\ Cardinality(Named("dispatch")) \in Nat
  BY <1>1, ConstantsAre, FS_Subset, FS_CardinalityType
<1> QED
  BY <1>2 DEF Due, HumanTypes

\* The least of the count and its limit.
StepsWithin == IF autoSteps <= MaxSteps THEN autoSteps ELSE MaxSteps

LEMMA PaidIs ==
  ASSUME HumanTypes, StepsInv, TurnTypes, Tokens <= chains
  PROVE  /\ Paid = (chains - Tokens) * MaxSteps + StepsWithin + chains
         /\ StepsWithin \in Nat /\ StepsWithin <= MaxSteps /\ chains \in Nat
         /\ chains - Tokens \in Nat /\ (chains - Tokens) * MaxSteps \in Nat
<1>1. Tokens \in Nat
  BY TokensAre
<1>2. chains \in Nat /\ autoSteps \in Nat /\ MaxSteps \in Nat
  BY ConstantsAre DEF HumanTypes, StepsInv
<1>3. StepsWithin \in Nat /\ StepsWithin <= MaxSteps
  BY <1>2 DEF StepsWithin
<1>4. chains - Tokens \in Nat
  BY <1>1, <1>2
<1>5. (chains - Tokens) * MaxSteps \in Nat
  BY <1>2, <1>4, ProductsAre
<1> QED
  BY <1>2, <1>3, <1>4, <1>5 DEF Paid, StepsWithin

\* The human is there.
LEMMA BreakerAttended ==
  ASSUME TypeInv', Attended
  PROVE  BreakerInv'
<1>1. (HumanTypes => /\ Due \in Nat /\ Cardinality(Named("dispatch")) \in Nat)'
  BY DueIs, PTL
<1>2. (TurnTypes => /\ Tokens = Cardinality(Running) + Len(queue) + TurnToken + ControlToken
                    /\ Cardinality(Running) \in Nat /\ Len(queue) \in Nat
                    /\ TurnToken \in {0, 1} /\ ControlToken \in {0, 1}
                    /\ IsFiniteSet(Running))'
  BY TokensSum, PTL
<1>3. HumanTypes' /\ TurnTypes' /\ StepsInv'
  BY DEF TypeInv
<1>4. Named("dispatch")' \in SUBSET Running'
  BY DEF Named, Running
<1>5. Cardinality(Named("dispatch")') <= Cardinality(Running')
  BY <1>2, <1>3, <1>4, FS_Subset
<1>6. unattended' = 0 /\ chains' = Tokens'
  BY DEF Attended
<1>7. chains' \in Nat /\ Due' <= chains'
  <2>1. Due' = Cardinality(Named("dispatch"))'
    BY <1>1, <1>3, <1>6 DEF Due
  <2>2. Cardinality(Running') <= Tokens'
    BY <1>2, <1>3
  <2> QED
    BY <1>1, <1>2, <1>3, <1>5, <1>6, <2>1, <2>2
<1>8. Due' <= chains' * (MaxSteps + 1)
  <2>1. chains' * (MaxSteps + 1) = chains' * MaxSteps + chains' /\ chains' * MaxSteps \in Nat
    BY <1>7, ConstantsAre, ProductsAre
  <2> QED
    BY <1>1, <1>3, <1>7, <2>1
<1>9. Due' <= Paid'
  <2>1. (HumanTypes /\ StepsInv /\ TurnTypes /\ Tokens <= chains =>
           /\ Paid = (chains - Tokens) * MaxSteps + StepsWithin + chains
           /\ StepsWithin \in Nat /\ (chains - Tokens) * MaxSteps \in Nat)'
    BY PaidIs, PTL
  <2>2. Tokens' <= chains'
    BY <1>6, <1>7
  <2> QED
    BY <1>1, <1>3, <1>7, <2>1, <2>2
<1> QED
  BY <1>8, <1>9 DEF BreakerInv

\* Nothing more is due, and nothing is forgotten that a chain alive has counted.
LEMMA BreakerKept ==
  ASSUME TypeInv, TypeInv', ChainInv, BreakerInv, Due' <= Due,
         chains' = chains, Tokens' <= Tokens,
         \/ autoSteps' = autoSteps
         \/ Tokens' < Tokens
         \/ planReviewed'
         \/ autoSteps' = autoSteps + 1,
         planReviewed => planReviewed'
  PROVE  BreakerInv'
<1>1. /\ Due \in Nat /\ Due' \in Nat /\ chains \in Nat /\ HumanTypes /\ HumanTypes'
      /\ StepsInv /\ StepsInv' /\ TurnTypes /\ TurnTypes'
  <2>1. (HumanTypes => Due \in Nat)'
    BY DueIs, PTL
  <2> QED
    BY <2>1, DueIs DEF TypeInv, HumanTypes
<1>2. Due' <= chains' * (MaxSteps + 1)
  <2>1. chains * (MaxSteps + 1) \in Nat
    BY <1>1, ConstantsAre, ProductsAre
  <2> QED
    BY <1>1, <2>1 DEF BreakerInv
<1>3. ASSUME ~planReviewed' PROVE Due' <= Paid'
  <2>1. Due <= Paid
    BY <1>3 DEF BreakerInv
  <2>2. Tokens \in Nat /\ Tokens' \in Nat /\ Tokens <= chains /\ Tokens' <= chains'
    <3>1. (TurnTypes => Tokens \in Nat)'
      BY TokensAre, PTL
    <3> QED
      BY <1>1, <3>1, TokensAre DEF ChainInv
  <2>3. /\ Paid = (chains - Tokens) * MaxSteps + StepsWithin + chains
        /\ StepsWithin \in Nat /\ StepsWithin <= MaxSteps
        /\ chains - Tokens \in Nat /\ (chains - Tokens) * MaxSteps \in Nat
    BY <1>1, <2>2, PaidIs
  <2>4. /\ Paid' = (chains' - Tokens') * MaxSteps + StepsWithin' + chains'
        /\ StepsWithin' \in Nat
        /\ chains' - Tokens' \in Nat /\ (chains' - Tokens') * MaxSteps \in Nat
    <3>1. (HumanTypes /\ StepsInv /\ TurnTypes /\ Tokens <= chains =>
             /\ Paid = (chains - Tokens) * MaxSteps + StepsWithin + chains
             /\ StepsWithin \in Nat
             /\ chains - Tokens \in Nat /\ (chains - Tokens) * MaxSteps \in Nat)'
      BY PaidIs, PTL
    <3> QED
      BY <1>1, <2>2, <3>1
  <2> DEFINE x == chains - Tokens
             y == chains' - Tokens'
             p == x * MaxSteps
             q == y * MaxSteps
  <2>5. x <= y /\ (Tokens' < Tokens => x + 1 <= y)
    <3>1. \A c, s, t \in Nat : t <= s => c - s <= c - t /\ (t < s => c - s + 1 <= c - t)
      OBVIOUS
    <3> QED
      BY <1>1, <2>2, <3>1
  <2>6. x \in Nat /\ y \in Nat
    BY <2>3, <2>4
  <2> HIDE DEF x, y
  <2>7. p <= q /\ (Tokens' < Tokens => p + MaxSteps <= q)
    <3>1. p \in Nat /\ (x + 1) * MaxSteps = p + MaxSteps
      BY <2>6, ConstantsAre, ProductsAre
    <3>2. x <= y => p <= q
      BY <2>6, ConstantsAre, ProductsAre
    <3>3. x + 1 <= y => (x + 1) * MaxSteps <= q
      <4>1. x + 1 \in Nat
        BY <2>6
      <4> QED
        BY <2>6, <4>1, ConstantsAre, ProductsAre
    <3> QED
      BY <2>5, <3>1, <3>2, <3>3
  <2>b. Paid = p + StepsWithin + chains /\ Paid' = q + StepsWithin' + chains /\ p \in Nat /\ q \in Nat
    BY <2>3, <2>4 DEF x, y
  <2> HIDE DEF p, q
  <2>c. p + StepsWithin <= q + StepsWithin'
    <3>1. CASE Tokens' < Tokens
      <4>1. \A a, b, c, d, e \in Nat : a + e <= b /\ c <= e => a + c <= b + d
        OBVIOUS
      <4> QED
        BY <2>3, <2>4, <2>7, <2>b, <3>1, <4>1, ConstantsAre
    <3>2. CASE autoSteps' = autoSteps \/ autoSteps' = autoSteps + 1
      <4>1. StepsWithin <= StepsWithin'
        BY <1>1, <3>2, ConstantsAre DEF StepsWithin, StepsInv
      <4>2. \A a, b, c, d \in Nat : a <= b /\ c <= d => a + c <= b + d
        OBVIOUS
      <4> QED
        BY <2>3, <2>4, <2>7, <2>b, <4>1, <4>2
    <3> QED
      BY <1>3, <3>1, <3>2
  <2>d. Due <= p + StepsWithin + chains
    BY <2>1, <2>b
  <2>e. \A a, b, c, d, e, f, g \in Nat :
          g <= a /\ a <= b + c + e /\ b + c <= d + f => g <= d + f + e
    OBVIOUS
  <2>f. Due' <= q + StepsWithin' + chains
    BY <1>1, <2>3, <2>4, <2>b, <2>c, <2>d, <2>e
  <2> QED
    BY <2>b, <2>f
<1> QED
  BY <1>2, <1>3 DEF BreakerInv
\* With everything done, nothing is dispatched but the review of the plan.
LEMMA DoneDecides ==
  ASSUME BundleTypes, st \in States, AllDone
  PROVE  NextAutoAction.name = "dispatch" => ~planReviewed
<1> DEFINE Waiting == {f \in Present : status[f] = "implemented"}
<1>1. ~NeedsWork
  BY DEF NeedsWork, AllDone
<1>2. Awaiting = None
  <2>1. Waiting = {} /\ Awaiting = First(Waiting)
    BY DEF AllDone, Awaiting
  <2> HIDE DEF Waiting
  <2> QED
    BY <2>1 DEF First
<1>3. Ready = None
  <2>1. ReadyFeatures = {}
    BY DEF AllDone, ReadyFeatures
  <2> QED
    BY <2>1 DEF Ready, First
<1>4. NextAutoAction = IdleJob \/ NextAutoAction = Wrap
  BY <1>1, <1>2, <1>3 DEF NextAutoAction
<1>5. Finish.name = "finish"
  BY DEF Finish, Decision
<1> QED
  BY <1>4, <1>5, IdleIsJob DEF Wrap, AllDone

\* A review of the plan that is decided on.
LEMMA PlanDecided ==
  ASSUME BundleTypes, st \in States, Counted(NextAutoAction).cmd.step = "plan-review"
  PROVE  AllDone
<1>1. \A f : Escalate(f).cmd.step = "none"
  BY DEF Escalate, Decision, Command
<1>2. NextAutoAction.cmd.step = "plan-review"
  BY <1>1 DEF Counted
<1>3. /\ IdleJob.cmd.step = "none" /\ Finish.cmd.step = "none"
      /\ \A step, f : Dispatch(step, f).cmd.step = step
      /\ \A f : [Dispatch("implement", f) EXCEPT !.todo = <<"strike", "mark">>].cmd.step
                  = "implement"
  BY DEF IdleJob, Finish, Dispatch, Decision, Command
<1>4. NextAutoAction = Wrap
  BY <1>1, <1>2, <1>3 DEF NextAutoAction, ForReady
<1> QED
  BY <1>1, <1>2, <1>4 DEF Wrap, AllDone

\* Steps that decide on no review of the plan and take nothing back.
LEMMA PlanKept ==
  ASSUME PlanLast, AllDone => AllDone',
         planReviewed' => planReviewed \/ turn.step = "plan-review",
         turn'.step = "plan-review" =>
           turn.step = "plan-review" \/ \E i \in DOMAIN queue : queue[i].step = "plan-review",
         \A i \in DOMAIN queue' : queue'[i].step = "plan-review" =>
           \/ \E n \in DOMAIN queue : queue[n].step = "plan-review"
           \/ \E k \in KickId : job[k].cmd.step = "plan-review",
         \A k \in KickId : job'[k].cmd.step = "plan-review" =>
           job[k].cmd.step = "plan-review" \/ AllDone
  PROVE  PlanLast'
BY DEF PlanLast, PlanReviewing

\* A command that is added.
LEMMA AppendedStep ==
  ASSUME TurnTypes, NEW c, queue' = Append(queue, c), NEW i \in DOMAIN queue',
         c.step # "plan-review", queue'[i].step = "plan-review"
  PROVE  \E n \in DOMAIN queue : queue[n].step = "plan-review"
<1>1. /\ DOMAIN queue' = 1..(Len(queue) + 1) /\ DOMAIN queue = 1..Len(queue)
      /\ Len(queue) \in Nat /\ queue'[Len(queue) + 1] = c
      /\ \A n \in 1..Len(queue) : queue'[n] = queue[n]
  BY DEF TurnTypes
<1> QED
  BY <1>1

LEMMA NextKeepsPlanLast ==
  ASSUME TypeInv, PlanLast, [Next]_vars
  PROVE  PlanLast'
<1>0. /\ job \in [Job -> Jobs] /\ KickId \subseteq Job /\ "control" \notin KickId
      /\ "control" \in Job /\ JobInv /\ StepsInv /\ TurnTypes /\ BundleTypes /\ st \in States
      /\ turn \in Turns /\ (turn.step = "none" <=> turn = NoTurn)
      /\ NoTurn.step = "none" /\ IdleJob.cmd.step = "none" /\ IdleJob \in Jobs
  BY ConstantsAre, IdleIsJob, NoTurnTypes
  DEF TypeInv, JobInv, TurnTypes, IdleJob, Command
<1>a. Present' = Present /\ status' = status => (AllDone => AllDone')
  BY DEF AllDone
<1>b. status' = status => Present' = Present
  BY DEF Present
\* Steps of one kick that leave everything else alone.
<1>1. ASSUME NEW k \in KickId, NEW b, job' = [job EXCEPT ![k] = b],
             b.cmd.step = "plan-review" => job[k].cmd.step = "plan-review" \/ AllDone,
             UNCHANGED <<status, planReviewed, turn>>,
             \/ queue' = queue
             \/ \E c : /\ queue' = Append(queue, c)
                       /\ c.step = "plan-review" => job[k].cmd.step = "plan-review"
      PROVE  PlanLast'
  <2>1. /\ job'[k] = b /\ \A l \in KickId \ {k} : job'[l] = job[l]
    BY <1>0, <1>1, NewNames
  <2>2. ASSUME NEW i \in DOMAIN queue', queue'[i].step = "plan-review"
        PROVE  \/ \E n \in DOMAIN queue : queue[n].step = "plan-review"
               \/ \E l \in KickId : job[l].cmd.step = "plan-review"
    BY <1>0, <1>1, <2>2, AppendedStep
  <2> QED
    BY <1>1, <1>a, <1>b, <2>1, <2>2, PlanKept
<1>2. ASSUME NEW j \in Job, Load(j) \/ Store(j) PROVE PlanLast'
  <2>1. \A i \in Job : job'[i].cmd = job[i].cmd
    <3>1. CASE Load(j)
      BY <1>0, <3>1 DEF Load, Jobs
    <3>2. CASE Store(j)
      BY <1>0, <3>2 DEF Store, Jobs
    <3> QED
      BY <1>2, <3>1, <3>2
  <2>2. UNCHANGED <<status, planReviewed, turn, queue>>
    BY <1>2 DEF Load, Store, agent, bundle
  <2> QED
    BY <1>0, <1>a, <1>b, <2>1, <2>2, PlanKept
<1>3. ASSUME NEW k \in KickId, Gather(k) PROVE PlanLast'
  <2>1. Counted(NextAutoAction).cmd.step = "plan-review" => AllDone
    BY <1>0, PlanDecided
  <2> QED
    BY <1>1, <1>3, <2>1 DEF Gather, bundle, agent
<1>4. ASSUME NEW k \in KickId, DispatchStep(k) PROVE PlanLast'
  BY <1>0, <1>1, <1>4 DEF DispatchStep, bundle
<1>5. ASSUME NEW k \in KickId, DispatchFails(k) PROVE PlanLast'
  <2>1. /\ job' = [job EXCEPT ![k] = [job[k] EXCEPT !.name = "failed", !.todo = <<"pause">>]]
        /\ [job[k] EXCEPT !.name = "failed", !.todo = <<"pause">>].cmd = job[k].cmd
    BY <1>0, <1>5 DEF DispatchFails, Jobs
  <2> QED
    BY <1>1, <1>5, <2>1 DEF DispatchFails, bundle, agent
<1>6. ASSUME NEW k \in KickId, EndKick(k) \/ EndWave(k) PROVE PlanLast'
  BY <1>0, <1>1, <1>6 DEF EndKick, EndWave, bundle, agent
<1>7. ASSUME NEW k \in KickId, StartWave(k) PROVE PlanLast'
  <2>1. \/ job' = [job EXCEPT ![k] = IdleJob]
        \/ job' = [job EXCEPT ![k] = [job[k] EXCEPT !.name = "advance"]]
    BY <1>7 DEF StartWave
  <2>2. [job[k] EXCEPT !.name = "advance"].cmd = job[k].cmd
    BY <1>0 DEF Jobs
  <2> QED
    BY <1>0, <1>1, <1>7, <2>1, <2>2 DEF StartWave, bundle, agent
<1>8. ASSUME NEW k \in KickId, Advance(k) PROVE PlanLast'
  <2>1. GivenUp.cmd.step = "none"
        /\ \A f : Decision("wave", <<"wave">>, Command("implement", f)).cmd.step = "implement"
    BY DEF GivenUp, Decision, Command
  <2> HIDE DEF GivenUp
  <2>2. \E b : job' = [job EXCEPT ![k] = b] /\ b.cmd.step # "plan-review"
    BY <1>0, <1>8, <2>1 DEF Advance
  <2> QED
    BY <1>1, <1>8, <2>2 DEF Advance, bundle, agent
<1>9. ASSUME NEW k \in KickId, DispatchItem(k) PROVE PlanLast'
  <2>1. GivenUp.cmd.step = "none"
    BY DEF GivenUp, Decision, Command
  <2>2. /\ UNCHANGED <<status, planReviewed, turn>>
        /\ \/ job' = [job EXCEPT ![k] = IdleJob] /\ queue' = Append(queue, job[k].cmd)
           \/ job' = [job EXCEPT ![k] = GivenUp] /\ queue' = queue
    BY <1>9 DEF DispatchItem, bundle
  <2> QED
    BY <1>0, <1>1, <2>1, <2>2
<1>10. ASSUME NEW k \in KickId, AgentEnd(k) PROVE PlanLast'
  <2>1. [IdleJob EXCEPT !.name = "advance"].cmd = IdleJob.cmd
    BY <1>0 DEF Jobs
  <2> QED
    BY <1>0, <1>1, <1>10, <2>1 DEF AgentEnd, bundle, agent
<1>11. CASE StartTurn
  <2>1. /\ queue # <<>> /\ turn'.step = Head(queue).step /\ queue' = Tail(queue)
        /\ UNCHANGED <<status, planReviewed, job>>
    BY <1>11 DEF StartTurn, bundle
  <2>2. 1 \in DOMAIN queue /\ Head(queue) = queue[1]
    BY <1>0, <2>1 DEF TurnTypes
  <2>3. \A i \in DOMAIN queue' : i + 1 \in DOMAIN queue /\ queue'[i] = queue[i + 1]
    BY <1>0, <2>1 DEF TurnTypes
  <2> QED
    BY <1>a, <1>b, <2>1, <2>2, <2>3, PlanKept
<1>12. ASSUME UNCHANGED <<status, planReviewed>>,
              turn'.step = turn.step \/ turn'.step \in {"none", "chat"},
              \/ queue' = queue \/ queue' = <<>>
              \/ \E c : queue' = Append(queue, c) /\ c.step # "plan-review",
              \A k \in KickId : job'[k].cmd = job[k].cmd \/ job'[k].cmd.step = "none"
       PROVE  PlanLast'
  <2>1. ASSUME NEW i \in DOMAIN queue', queue'[i].step = "plan-review"
        PROVE  \E n \in DOMAIN queue : queue[n].step = "plan-review"
    BY <1>0, <1>12, <2>1, AppendedStep
  <2>2. \A k \in KickId : job'[k].cmd.step = "plan-review" => job[k].cmd.step = "plan-review"
    BY <1>12
  <2> QED
    BY <1>12, <1>a, <1>b, <2>1, <2>2, PlanKept
<1>13. ASSUME NEW jobs, jobs = job \/ jobs = NowIdle, FreeKicks # {},
              NEW name, job' = Started(jobs, name)
       PROVE  \A k \in KickId : job'[k].cmd = job[k].cmd \/ job'[k].cmd.step = "none"
  <2>1. PICK k \in FreeKicks : job' = [jobs EXCEPT ![k] = [IdleJob EXCEPT !.name = name]]
    BY <1>13, StartedIs
  <2>2. jobs \in [Job -> Jobs] /\ \A l \in KickId : jobs[l] = job[l]
    BY <1>0, <1>13 DEF NowIdle
  <2>3. [IdleJob EXCEPT !.name = name].cmd = IdleJob.cmd
    BY <1>0 DEF Jobs
  <2>4. k \in KickId
    BY DEF FreeKicks
  <2>5. job'[k] = [IdleJob EXCEPT !.name = name] /\ \A l \in KickId \ {k} : job'[l] = job[l]
    BY <1>0, <2>1, <2>2, <2>4
  <2> QED
    BY <1>0, <2>3, <2>5
<1>14. CASE EndTurn \/ ClickWave
  <2>1. /\ FreeKicks # {} /\ UNCHANGED <<status, planReviewed, queue>>
        /\ turn'.step = turn.step \/ turn'.step = "none"
        /\ \E name : job' = Started(job, name)
    BY <1>0, <1>14 DEF EndTurn, ClickWave, bundle, agent
  <2> QED
    BY <1>12, <1>13, <2>1
<1>15. CASE KickEnds
  <2>1. UNCHANGED <<status, planReviewed, queue, turn>>
    BY <1>15 DEF KickEnds, Ended, bundle, agent
  <2>2. \/ job' = NowIdle
        \/ FreeKicks # {} /\ \E name : job' = Started(NowIdle, name)
    BY <1>15 DEF KickEnds
  <2>3. \A k \in KickId : NowIdle[k] = job[k]
    BY <1>0 DEF NowIdle
  <2> QED
    BY <1>12, <1>13, <2>1, <2>2, <2>3
<1>16. CASE PauseEnds \/ ResetEnds \/ GuideEnds
  <2>1. UNCHANGED <<status, planReviewed>> /\ (turn' = Aborted(turn) \/ turn' = turn)
        /\ job' = NowIdle
    BY <1>16 DEF PauseEnds, ResetEnds, GuideEnds, Ended, bundle, agent
  <2>2. \A k \in KickId : NowIdle[k] = job[k]
    BY <1>0 DEF NowIdle
  <2>3. \/ queue' = queue
        \/ \E c : queue' = Append(queue, c) /\ c.step # "plan-review"
    BY <1>16 DEF PauseEnds, ResetEnds, GuideEnds, Command, agent
  <2> QED
    BY <1>0, <1>12, <2>1, <2>2, <2>3, AbortedIs
<1>17. CASE Discard
  <2>1. /\ AllDone => status' = status
        /\ UNCHANGED <<planReviewed, turn, queue>>
        /\ \E b : job' = [job EXCEPT !["control"] = b]
    BY <1>17 DEF Discard, agent, AllDone, RestartableStatuses
  <2>2. \A k \in KickId : job'[k] = job[k]
    BY <1>0, <2>1
  <2>3. AllDone => AllDone'
    BY <1>a, <1>b, <2>1
  <2> QED
    BY <2>1, <2>2, <2>3, PlanKept
<1>18. CASE StartInTurn
  <2>1. UNCHANGED <<status, planReviewed, queue>> /\ turn'.step = "chat"
    BY <1>0, <1>18 DEF StartInTurn, bundle, Turns
  <2>2. \/ job' = job
        \/ \E k \in KickId : job' = [job EXCEPT ![k] = AutoStart]
    BY <1>18 DEF StartInTurn, FreeKicks
  <2>3. AutoStart.cmd.step = "none"
    BY DEF AutoStart, Decision, Command
  <2>4. \A k \in KickId : job'[k].cmd = job[k].cmd \/ job'[k].cmd.step = "none"
    BY <1>0, <2>2, <2>3
  <2> QED
    BY <1>12, <2>1, <2>4
<1>19. ASSUME NEW k \in KickId, StartKick(k) PROVE PlanLast'
  <2>1. [IdleJob EXCEPT !.name = "gather"].cmd = IdleJob.cmd
    BY <1>0 DEF Jobs
  <2> QED
    BY <1>0, <1>1, <1>19, <2>1 DEF StartKick, bundle, agent
<1>20. CASE Work
  <2>1. turn'.step = turn.step /\ queue' = queue /\ job' = job
    BY <1>0, <1>20, AbortedIs DEF Work, Aborted
  <2>2. AllDone => status' = status
    BY <1>20 DEF Work, AllDone
  <2>3. planReviewed' => planReviewed \/ turn.step = "plan-review"
    BY <1>20 DEF Work
  <2> QED
    BY <1>a, <1>b, <2>1, <2>2, <2>3, PlanKept
<1>21. CASE StartAuto \/ Pause \/ Continue \/ Abort \/ Recover
  <2>1. /\ UNCHANGED <<status, planReviewed, queue>>
        /\ turn' = turn \/ turn' = Aborted(turn)
        /\ \E b : job' = [job EXCEPT !["control"] = b]
    BY <1>21 DEF StartAuto, Pause, Continue, Abort, Recover, Begin, bundle
  <2>2. \A k \in KickId : job'[k] = job[k]
    BY <1>0, <2>1
  <2> QED
    BY <1>0, <1>12, <2>1, <2>2, AbortedIs
<1>22. CASE Chat
  <2>1. Command("chat", None).step # "plan-review"
    BY DEF Command
  <2> QED
    BY <1>12, <1>22, <2>1 DEF Chat, bundle
<1>23. CASE Approve
  <2>1. UNCHANGED <<planReviewed, queue, job>> /\ turn'.step = "approved"
    BY <1>0, <1>23 DEF Approve, Turns
  <2>2. status' = [f \in Present |-> IF status[f] = "draft" THEN "pending" ELSE status[f]]
    BY <1>23 DEF Approve
  <2>3. AllDone => AllDone'
    BY <2>2 DEF AllDone, Present
  <2> QED
    BY <2>1, <2>3, PlanKept
<1>24. CASE CancelWork
  <2>1. /\ UNCHANGED <<planReviewed, queue, job, turn>>
        /\ \E f \in Present : status' = Restrict(status, Present \ {f})
    BY <1>24 DEF CancelWork, agent
  <2>2. AllDone => AllDone'
    BY <2>1 DEF AllDone, Present, Restrict
  <2> QED
    BY <2>1, <2>2, PlanKept
<1>25. CASE Restart
  BY <1>0, <1>12, <1>25 DEF Restart, bundle
<1>26. CASE UNCHANGED vars
  BY <1>12, <1>26 DEF vars
<1> QED
  BY <1>2, <1>3, <1>4, <1>5, <1>6, <1>7, <1>8, <1>9, <1>10, <1>11, <1>14, <1>15, <1>16, <1>17,
     <1>18, <1>19, <1>20, <1>21, <1>22, <1>23, <1>24, <1>25, <1>26
  DEF Next, Runtime, Human, Settles

\* Of the steps that are not the human's, one alone makes more of what is due, and it is
\* counted.
LEMMA DueMoves ==
  ASSUME TypeInv, TypeInv', PlanLast, [Next]_vars, ~Attended
  PROVE  \/ /\ Due' <= Due
            /\ \/ autoSteps' = autoSteps \/ autoSteps' = autoSteps + 1
               \/ Tokens' < Tokens \/ planReviewed'
         \/ /\ Due' = Due + 1 /\ autoSteps' = autoSteps + 1 /\ autoSteps + 1 <= MaxSteps
            /\ ~planReviewed /\ Driving
<1> DEFINE Kept == /\ Due' <= Due
                   /\ \/ autoSteps' = autoSteps \/ autoSteps' = autoSteps + 1
                      \/ Tokens' < Tokens \/ planReviewed'
<1>0. /\ job \in [Job -> Jobs] /\ KickId \subseteq Job /\ "control" \notin KickId
      /\ "control" \in Job /\ JobInv /\ StepsInv /\ TurnTypes /\ BundleTypes /\ st \in States
      /\ HumanTypes /\ HumanTypes' /\ TurnTypes'
  BY ConstantsAre DEF TypeInv, JobInv
<1>1. /\ Due \in Nat /\ Due' \in Nat /\ IsFiniteSet(Named("dispatch"))
      /\ Cardinality(Named("dispatch")) \in Nat /\ unattended \in Nat
  <2>1. (HumanTypes => Due \in Nat)'
    BY DueIs, PTL
  <2> QED
    BY <1>0, <2>1, DueIs DEF HumanTypes
\* Steps that decide on no dispatch.
<1>2. ASSUME unattended' = unattended,
             \A k \in KickId : job'[k].name = "dispatch" => job[k].name = "dispatch"
      PROVE  Due' <= Due
  <2>1. Named("dispatch")' \in SUBSET Named("dispatch")
    BY <1>2 DEF Named
  <2>2. Cardinality(Named("dispatch")') <= Cardinality(Named("dispatch"))
        /\ Cardinality(Named("dispatch")') \in Nat
    BY <1>1, <2>1, FS_Subset, FS_CardinalityType
  <2> QED
    BY <1>1, <1>2, <2>2 DEF Due
<1>3. ASSUME NEW k \in KickId, NEW b, job' = [job EXCEPT ![k] = b],
             b.name # "dispatch", unattended' = unattended
      PROVE  Due' <= Due
  <2>1. job'[k] = b /\ \A l \in KickId \ {k} : job'[l] = job[l]
    BY <1>0, <1>3, NewNames
  <2> QED
    BY <1>2, <1>3, <2>1
<1>4. ASSUME NEW j \in Job, Load(j) \/ Store(j) PROVE Kept
  <2>1. \A i \in Job : job'[i].name = job[i].name
    <3>1. CASE Load(j)
      BY <1>0, <3>1 DEF Load, Jobs
    <3>2. CASE Store(j)
      BY <1>0, <3>2 DEF Store, Jobs
    <3> QED
      BY <1>4, <3>1, <3>2
  <2>2. unattended' = unattended /\ autoSteps' = autoSteps
    BY <1>4 DEF Load, Store, human
  <2> QED
    BY <1>0, <1>2, <2>1, <2>2
<1>5. ASSUME NEW k \in KickId, Gather(k)
      PROVE  \/ Kept
             \/ /\ Due' = Due + 1 /\ autoSteps' = autoSteps + 1 /\ autoSteps + 1 <= MaxSteps
                /\ ~planReviewed /\ Driving
  <2>1. /\ job' = [job EXCEPT ![k] = Counted(NextAutoAction)]
        /\ job[k].name \in {"gather", "ended"} /\ unattended' = unattended
        /\ autoSteps' = autoSteps + (IF NextAutoAction.name = "dispatch" THEN 1 ELSE 0)
    BY <1>5 DEF Gather, human
  <2>2. CASE Counted(NextAutoAction).name # "dispatch"
    <3>1. autoSteps' = autoSteps \/ autoSteps' = autoSteps + 1
      BY <1>0, <2>1 DEF StepsInv
    <3> QED
      BY <1>3, <2>1, <2>2, <3>1
  <2>3. CASE Counted(NextAutoAction).name = "dispatch"
    <3>1. NextAutoAction.name = "dispatch" /\ ~(autoSteps + 1 > MaxSteps)
      <4>1. Escalate(Everything).name = "escalate"
        BY DEF Escalate, Decision
      <4> QED
        BY <2>3, <4>1 DEF Counted
    <3>2. autoSteps' = autoSteps + 1 /\ autoSteps + 1 <= MaxSteps
      BY <1>0, <2>1, <3>1, ConstantsAre DEF StepsInv
    <3>3. ~planReviewed
      BY <1>0, <3>1, DoneDecides DEF PlanLast, PlanReviewing
    <3>4. Driving
      BY <2>1 DEF Driving
    <3>5. job'[k] = Counted(NextAutoAction) /\ \A l \in KickId \ {k} : job'[l] = job[l]
      BY <1>0, <2>1, NewNames
    <3>6. Named("dispatch")' = Named("dispatch") \cup {k} /\ k \notin Named("dispatch")
      BY <2>1, <2>3, <3>5 DEF Named
    <3>7. Cardinality(Named("dispatch")') = Cardinality(Named("dispatch")) + 1
      BY <1>1, <3>6, FS_AddElement
    <3>8. Due' = Due + 1
      BY <1>1, <2>1, <3>7 DEF Due
    <3> QED
      BY <3>2, <3>3, <3>4, <3>8
  <2> QED
    BY <2>2, <2>3
<1>6. ASSUME NEW k \in KickId, DispatchStep(k) PROVE Kept
  <2>1. /\ job[k].name = "dispatch" /\ job' = [job EXCEPT ![k] = IdleJob]
        /\ unattended' = unattended + 1 /\ autoSteps' = autoSteps
    BY <1>6 DEF DispatchStep, Written
  <2>2. job'[k] = IdleJob /\ \A l \in KickId \ {k} : job'[l] = job[l]
    BY <1>0, <2>1, NewNames
  <2>3. Named("dispatch")' = Named("dispatch") \ {k} /\ k \in Named("dispatch")
    BY <2>1, <2>2, IdleIsJob DEF Named
  <2>4. Cardinality(Named("dispatch")') = Cardinality(Named("dispatch")) - 1
    BY <1>1, <2>3, FS_RemoveElement
  <2> QED
    BY <1>1, <2>1, <2>4 DEF Due
<1>7. ASSUME NEW k \in KickId, DispatchFails(k) PROVE Kept
  <2>1. [job[k] EXCEPT !.name = "failed", !.todo = <<"pause">>].name # "dispatch"
    BY <1>0 DEF Jobs
  <2>2. /\ unattended' = unattended /\ autoSteps' = autoSteps
        /\ job' = [job EXCEPT ![k] = [job[k] EXCEPT !.name = "failed", !.todo = <<"pause">>]]
    BY <1>7 DEF DispatchFails, human
  <2> QED
    BY <1>3, <2>1, <2>2
<1>8. ASSUME NEW k \in KickId, EndKick(k) PROVE Kept
  <2>1. /\ job[k].name # "idle" /\ job' = [job EXCEPT ![k] = IdleJob]
        /\ UNCHANGED <<unattended, turn, queue>>
    BY <1>8 DEF EndKick, Written, human, agent
  <2>2. job'["control"] = job["control"] /\ job'[k] = IdleJob
          /\ \A l \in KickId \ {k} : job'[l] = job[l]
    BY <1>0, <2>1, NewNames
  <2>3. Running' = Running \ {k} /\ k \in Running
    BY <2>1, <2>2, IdleIsJob DEF Running
  <2>4. /\ Tokens = Cardinality(Running) + Len(queue) + TurnToken + ControlToken
        /\ Cardinality(Running) \in Nat /\ Len(queue) \in Nat
        /\ TurnToken \in {0, 1} /\ ControlToken \in {0, 1} /\ IsFiniteSet(Running)
    BY <1>0, TokensSum
  <2>5. (TurnTypes => Tokens = Cardinality(Running) + Len(queue) + TurnToken + ControlToken)'
    BY TokensSum, PTL
  <2>6. Cardinality(Running') = Cardinality(Running) - 1
    BY <2>3, <2>4, FS_RemoveElement
  <2>7. TurnToken' = TurnToken /\ ControlToken' = ControlToken
    BY <2>1, <2>2 DEF TurnToken, ControlToken
  <2>8. Tokens' < Tokens
    BY <1>0, <2>1, <2>4, <2>5, <2>6, <2>7
  <2> QED
    BY <1>3, <2>1, <2>8, IdleIsJob
<1>9. ASSUME NEW k \in KickId,
             StartWave(k) \/ Advance(k) \/ DispatchItem(k) \/ EndWave(k) \/ AgentEnd(k)
      PROVE  Kept
  <2>1. unattended' = unattended /\ autoSteps' = autoSteps
    BY <1>9 DEF StartWave, Advance, DispatchItem, EndWave, AgentEnd, human
  <2>2. \E b : b.name # "dispatch" /\ job' = [job EXCEPT ![k] = b]
    <3>1. CASE StartWave(k)
      <4>1. [job[k] EXCEPT !.name = "advance"].name # "dispatch"
        BY <1>0 DEF Jobs
      <4> QED
        BY <3>1, <4>1, IdleIsJob DEF StartWave
    <3>2. CASE Advance(k)
      <4>1. \A f : Decision("wave", <<"wave">>, Command("implement", f)).name # "dispatch"
        BY DEF Decision
      <4> QED
        BY <3>2, <4>1, IdleIsJob, GivenUpIs DEF Advance
    <3>3. CASE DispatchItem(k) \/ EndWave(k)
      BY <3>3, IdleIsJob, GivenUpIs DEF DispatchItem, EndWave
    <3>4. CASE AgentEnd(k)
      <4>1. [IdleJob EXCEPT !.name = "advance"].name # "dispatch"
        BY StartedShape
      <4> QED
        BY <3>4, <4>1, IdleIsJob DEF AgentEnd
    <3> QED
      BY <1>9, <3>1, <3>2, <3>3, <3>4
  <2> QED
    BY <1>3, <2>1, <2>2
<1>10. CASE StartTurn \/ Work
  <2>1. job' = job /\ unattended' = unattended /\ (autoSteps' = autoSteps \/ planReviewed')
    BY <1>10 DEF StartTurn, Handoff, Work, human
  <2> QED
    BY <1>2, <2>1
<1>11. CASE EndTurn
  <2>1. /\ FreeKicks # {} /\ job' = Started(job, "ended")
        /\ unattended' = unattended /\ autoSteps' = autoSteps
    BY <1>11 DEF EndTurn, human
  <2>2. PICK k \in FreeKicks : /\ job'[k].name = "ended"
                               /\ \A i \in KickId \ {k} : job'[i] = job[i]
    BY <1>0, <2>1, StartedTypes
  <2> QED
    BY <1>2, <2>1, <2>2
<1>12. CASE UNCHANGED vars
  <2>1. job' = job /\ unattended' = unattended /\ autoSteps' = autoSteps
    BY <1>12 DEF vars
  <2> QED
    BY <1>2, <2>1
<1> QED
  BY <1>4, <1>5, <1>6, <1>7, <1>8, <1>9, <1>10, <1>11, <1>12
  DEF Next, Runtime, Human, Settles

LEMMA NextKeepsBreaker ==
  ASSUME TypeInv, TypeInv', ChainInv, ChainInv', PlanLast, BreakerInv, [Next]_vars
  PROVE  BreakerInv'
<1>1. CASE Attended
  BY <1>1, BreakerAttended
<1>2. CASE ~Attended
  <2>1. Tokens' <= Tokens /\ chains' = chains
    BY <1>2, NothingAdded
  <2>2. planReviewed => planReviewed'
    BY DEF Next, Runtime, Human, Settles, Load, Store, Gather, DispatchStep, DispatchFails,
           EndKick, StartWave, Advance, DispatchItem, EndWave, StartTurn, EndTurn, AgentEnd,
           PauseEnds, ResetEnds, GuideEnds, KickEnds, Ended, Discard, StartInTurn, StartKick,
           Work, StartAuto, Pause, Continue, Abort, ClickWave, Recover, Begin, Chat, Approve,
           CancelWork, Restart, bundle, vars
  <2>3. CASE /\ Due' <= Due
             /\ \/ autoSteps' = autoSteps \/ autoSteps' = autoSteps + 1
                \/ Tokens' < Tokens \/ planReviewed'
    BY <2>1, <2>2, <2>3, BreakerKept
  <2>4. CASE /\ Due' = Due + 1 /\ autoSteps' = autoSteps + 1 /\ autoSteps + 1 <= MaxSteps
             /\ ~planReviewed /\ Driving
    <3>1. /\ HumanTypes /\ StepsInv /\ TurnTypes /\ HumanTypes' /\ StepsInv' /\ TurnTypes'
          /\ Tokens <= chains /\ Tokens' <= chains'
      BY DEF TypeInv, ChainInv
    <3>2. /\ Paid = (chains - Tokens) * MaxSteps + StepsWithin + chains
          /\ chains \in Nat /\ (chains - Tokens) * MaxSteps \in Nat /\ chains - Tokens \in Nat
      BY <3>1, PaidIs
    <3>3. /\ Paid' = (chains' - Tokens') * MaxSteps + StepsWithin' + chains'
          /\ StepsWithin' \in Nat /\ StepsWithin' <= MaxSteps
          /\ (chains' - Tokens') * MaxSteps \in Nat
      <4>1. (HumanTypes /\ StepsInv /\ TurnTypes /\ Tokens <= chains =>
               /\ Paid = (chains - Tokens) * MaxSteps + StepsWithin + chains
               /\ StepsWithin \in Nat /\ StepsWithin <= MaxSteps
               /\ (chains - Tokens) * MaxSteps \in Nat)'
        BY PaidIs, PTL
      <4> QED
        BY <3>1, <4>1
    <3>4. StepsWithin = autoSteps /\ StepsWithin' = autoSteps + 1 /\ autoSteps \in Nat
      BY <2>4, <3>1, ConstantsAre DEF StepsWithin, StepsInv
    <3>5. Due \in Nat /\ Due <= Paid
      BY <2>4, <3>1, DueIs DEF BreakerInv
    <3>6. Tokens \in Nat /\ Tokens' \in Nat /\ Tokens >= 1
      <4>1. (TurnTypes => Tokens \in Nat)'
        BY TokensAre, PTL
      <4>2. Running # {}
        BY <2>4 DEF Driving, Running
      <4>3. /\ Tokens = Cardinality(Running) + Len(queue) + TurnToken + ControlToken
            /\ Cardinality(Running) \in Nat /\ Len(queue) \in Nat
            /\ TurnToken \in {0, 1} /\ ControlToken \in {0, 1} /\ IsFiniteSet(Running)
        BY <3>1, TokensSum
      <4>4. Cardinality(Running) # 0
        BY <4>2, <4>3, FS_EmptySet
      <4> QED
        BY <3>1, <4>1, <4>3, <4>4
    <3> DEFINE p == (chains - Tokens) * MaxSteps
               q == (chains' - Tokens') * MaxSteps
               all == chains * MaxSteps
    <3>7. p <= q /\ p \in Nat /\ q \in Nat
      <4>1. \A c, s, t \in Nat : t <= s /\ s <= c /\ t <= c => c - s <= c - t /\ c - t \in Nat
        OBVIOUS
      <4>2. chains - Tokens <= chains' - Tokens' /\ chains' - Tokens' \in Nat
        BY <2>1, <3>1, <3>2, <3>6, <4>1
      <4> QED
        BY <3>2, <4>2, ConstantsAre, ProductsAre
    <3>8. p + MaxSteps <= all /\ all \in Nat /\ chains * (MaxSteps + 1) = all + chains
      <4>1. \A c, s \in Nat : s >= 1 /\ c - s \in Nat => c - s + 1 <= c /\ c - s + 1 \in Nat
        OBVIOUS
      <4>2. chains - Tokens + 1 <= chains /\ chains - Tokens + 1 \in Nat
        BY <3>2, <3>6, <4>1
      <4>3. (chains - Tokens + 1) * MaxSteps = p + MaxSteps
        BY <3>2, ConstantsAre, ProductsAre
      <4>4. (chains - Tokens + 1) * MaxSteps <= all
        BY <3>2, <4>2, ConstantsAre, ProductsAre
      <4>5. all \in Nat /\ chains * (MaxSteps + 1) = all + chains
        BY <3>2, ConstantsAre, ProductsAre
      <4> QED
        BY <4>3, <4>4, <4>5
    <3>9. Due <= p + autoSteps + chains /\ Paid' = q + (autoSteps + 1) + chains
      BY <2>1, <3>2, <3>3, <3>4, <3>5
    <3> HIDE DEF p, q, all
    <3>10. Due' <= Paid'
      <4>1. \A d, a, b, n, c \in Nat : d <= a + n + c /\ a <= b => d + 1 <= b + (n + 1) + c
        OBVIOUS
      <4> QED
        BY <2>4, <3>2, <3>4, <3>5, <3>7, <3>9, <4>1
    <3>11. Due' <= all + chains
      <4>1. \A d, a, b, n, c, m \in Nat :
              d <= a + n + c /\ n + 1 <= m /\ a + m <= b => d + 1 <= b + c
        OBVIOUS
      <4> QED
        BY <2>4, <3>2, <3>4, <3>5, <3>7, <3>8, <3>9, <4>1, ConstantsAre
    <3> QED
      BY <2>1, <3>8, <3>10, <3>11 DEF BreakerInv
  <2> QED
    BY <1>2, <2>3, <2>4, DueMoves
<1> QED
  BY <1>1, <1>2

\* Left alone, every chain that was alive dispatches AUTO_MAX_STEPS commands and at most
\* the one that was counted before the human's reset, however many fresh sessions,
\* escalations and failed dispatches there are in between, also when several count in one
\* variable and each that stops sets it back (iterator.js:896-917 and 1254-1257), and
\* whatever state.md says in the end.
THEOREM TheBreakerHolds == Spec => []BreakerHolds
<1>1. Init => ChainInv /\ PlanLast /\ BreakerInv
  <2> SUFFICES ASSUME Init PROVE ChainInv /\ PlanLast /\ BreakerInv
    OBVIOUS
  <2>1. TypeInv /\ HumanTypes /\ StepsInv /\ TurnTypes
    BY InitTypes DEF TypeInv
  <2>2. /\ Running = {} /\ Named("dispatch") = {} /\ queue = <<>> /\ TurnToken = 0
        /\ ControlToken = 0 /\ unattended = 0 /\ chains = 0
    BY IdleIsJob, ConstantsAre DEF Init, Running, Named, TurnToken, ControlToken, Beginnings
  <2>3. Tokens = 0 /\ Due = 0
    <3>1. Tokens = Cardinality(Running) + Len(queue) + TurnToken + ControlToken
      BY <2>1, TokensSum
    <3>2. Cardinality({}) = 0 /\ Len(<<>>) = 0
      BY FS_EmptySet
    <3>3. Cardinality(Running) = 0 /\ Cardinality(Named("dispatch")) = 0 /\ Len(queue) = 0
      BY <2>2, <3>2
    <3> QED
      BY <2>2, <3>1, <3>3 DEF Due
  <2>4. ChainInv
    BY <2>2, <2>3 DEF ChainInv
  <2>5. PlanLast
    <3>1. /\ ~planReviewed /\ turn.step = "none" /\ DOMAIN queue = {}
          /\ \A k \in KickId : job[k].cmd.step = "none"
      BY <2>2, NoTurnTypes, ConstantsAre DEF Init, IdleJob, Command
    <3> QED
      BY <3>1 DEF PlanLast, PlanReviewing
  <2>6. Due <= Paid
    <3>1. /\ Paid = (chains - Tokens) * MaxSteps + StepsWithin + chains
          /\ StepsWithin \in Nat /\ (chains - Tokens) * MaxSteps \in Nat /\ chains \in Nat
      BY <2>1, <2>2, <2>3, PaidIs
    <3> QED
      BY <2>3, <3>1
  <2>7. chains * (MaxSteps + 1) \in Nat
    BY <2>2, ConstantsAre, ProductsAre
  <2> QED
    BY <2>3, <2>4, <2>5, <2>6, <2>7 DEF BreakerInv
<1>2. Spec => []ChainInv
  BY <1>1, NextKeepsChains, TypeInvHolds, PTL DEF Spec
<1>3. TypeInv /\ PlanLast /\ [Next]_vars => PlanLast'
  BY NextKeepsPlanLast
<1>4. TypeInv /\ TypeInv' /\ ChainInv /\ ChainInv' /\ PlanLast /\ BreakerInv /\ [Next]_vars
        => BreakerInv'
  BY NextKeepsBreaker
<1>5. TypeInv /\ BreakerInv => BreakerHolds
  <2> SUFFICES ASSUME TypeInv, BreakerInv PROVE BreakerHolds
    OBVIOUS
  <2>1. /\ unattended \in Nat /\ Cardinality(Named("dispatch")) \in Nat
        /\ chains * (MaxSteps + 1) \in Nat
    BY DueIs, ConstantsAre, ProductsAre DEF TypeInv, HumanTypes
  <2> QED
    BY <2>1 DEF BreakerInv, BreakerHolds, Due
<1> QED
  BY <1>1, <1>2, <1>3, <1>4, <1>5, TypeInvHolds, PTL DEF Spec
-----------------------------------------------------------------------------
(***************************************************************************)
(* One chain.                                                              *)
(***************************************************************************)

LEMMA Uncrowded ==
  ASSUME TypeInv, TypeInv', ChainInv, [Next]_vars, ~crowded'
  PROVE  ~crowded /\ TokenInv /\ TokenInv'
<1>1. ~crowded
  <2>1. CASE Attended
    BY <2>1 DEF Attended
  <2>2. CASE ~Attended
    BY <2>2, NothingAdded
  <2> QED
    BY <2>1, <2>2
<1>2. ChainInv' /\ TurnTypes /\ TurnTypes'
  BY NextKeepsChains DEF TypeInv
<1>3. (TurnTypes /\ Tokens <= 1 => TokenInv)'
  BY OneChain, PTL
<1>4. Tokens <= 1 /\ Tokens' <= 1
  BY <1>1, <1>2 DEF ChainInv
<1> QED
  BY <1>1, <1>2, <1>3, <1>4, OneChain

\* The names of what the driver decides on.
LEMMA NextActionNames ==
  ASSUME BundleTypes, st \in States
  PROVE  Counted(NextAutoAction).name \in {"idle", "escalate", "finish", "dispatch"}
<1>1. /\ \A f : Escalate(f).name = "escalate"
      /\ Finish.name = "finish"
      /\ \A step, f : Dispatch(step, f).name = "dispatch"
      /\ \A c : Decision("dispatch", <<"strike", "mark">>, c).name = "dispatch"
  BY DEF Escalate, Finish, Dispatch, Decision
<1>2. NextAutoAction.name \in {"idle", "escalate", "finish", "dispatch"}
  BY <1>1, NextActionCases, IdleIsJob
<1> QED
  BY <1>1, <1>2 DEF Counted

LEMMA NextKeepsNoneBeside ==
  ASSUME TypeInv, TypeInv', ChainInv, NoneBeside, [Next]_vars
  PROVE  NoneBeside'
<1> SUFFICES ASSUME ~crowded' PROVE \A k \in KickId : job'[k].name # "start"
  BY DEF NoneBeside
<1>0. /\ job \in [Job -> Jobs] /\ KickId \subseteq Job /\ "control" \notin KickId
      /\ "control" \in Job /\ JobInv /\ StepsInv /\ TurnTypes /\ BundleTypes /\ st \in States
      /\ TokenInv' /\ \A k \in KickId : job[k].name # "start"
  BY ConstantsAre, Uncrowded DEF TypeInv, JobInv, NoneBeside
<1>1. ASSUME NEW k \in KickId, NEW b, b.name # "start", job' = [job EXCEPT ![k] = b]
      PROVE  \A l \in KickId : job'[l].name # "start"
  BY <1>0, <1>1, NewNames
<1>2. ASSUME NEW j \in Job, Load(j) \/ Store(j)
      PROVE  \A k \in KickId : job'[k].name # "start"
  <2>1. CASE Load(j)
    BY <1>0, <2>1 DEF Load, Jobs
  <2>2. CASE Store(j)
    BY <1>0, <2>2 DEF Store, Jobs
  <2> QED
    BY <1>2, <2>1, <2>2
<1>3. ASSUME NEW k \in KickId, Gather(k)
      PROVE  \A l \in KickId : job'[l].name # "start"
  <2>1. Counted(NextAutoAction).name # "start"
    BY <1>0, NextActionNames
  <2> QED
    BY <1>1, <1>3, <2>1 DEF Gather
<1>4. ASSUME NEW k \in KickId, DispatchFails(k)
      PROVE  \A l \in KickId : job'[l].name # "start"
  <2>1. /\ job' = [job EXCEPT ![k] = [job[k] EXCEPT !.name = "failed", !.todo = <<"pause">>]]
        /\ [job[k] EXCEPT !.name = "failed", !.todo = <<"pause">>].name = "failed"
    BY <1>0, <1>4 DEF DispatchFails, Jobs
  <2> QED
    BY <1>1, <2>1
<1>5. ASSUME NEW k \in KickId,
             DispatchStep(k) \/ EndKick(k) \/ EndWave(k) \/ DispatchItem(k)
      PROVE  \A l \in KickId : job'[l].name # "start"
  BY <1>1, <1>5, IdleIsJob, GivenUpIs DEF DispatchStep, EndKick, EndWave, DispatchItem
<1>6. ASSUME NEW k \in KickId, StartWave(k)
      PROVE  \A l \in KickId : job'[l].name # "start"
  <2>1. [job[k] EXCEPT !.name = "advance"].name = "advance"
    BY <1>0 DEF Jobs
  <2> QED
    BY <1>1, <1>6, <2>1, IdleIsJob DEF StartWave
<1>7. ASSUME NEW k \in KickId, Advance(k)
      PROVE  \A l \in KickId : job'[l].name # "start"
  <2>1. \A f : Decision("wave", <<"wave">>, Command("implement", f)).name = "wave"
    BY DEF Decision
  <2> QED
    BY <1>1, <1>7, <2>1, IdleIsJob, GivenUpIs DEF Advance
<1>8. ASSUME NEW k \in KickId, AgentEnd(k) \/ StartKick(k)
      PROVE  \A l \in KickId : job'[l].name # "start"
  <2>1. /\ [IdleJob EXCEPT !.name = "advance"].name = "advance"
        /\ [IdleJob EXCEPT !.name = "gather"].name = "gather"
    BY StartedShape
  <2> QED
    BY <1>1, <1>8, <2>1, IdleIsJob DEF AgentEnd, StartKick
<1>9. ASSUME NEW jobs, jobs = job \/ jobs = NowIdle, FreeKicks # {},
             NEW name \in {"ended", "gather", "start-wave", "advance"},
             job' = Started(jobs, name)
      PROVE  \A l \in KickId : job'[l].name # "start"
  <2>1. PICK k \in FreeKicks : job' = [jobs EXCEPT ![k] = [IdleJob EXCEPT !.name = name]]
    BY <1>9, StartedIs
  <2>2. jobs \in [Job -> Jobs] /\ \A l \in KickId : jobs[l] = job[l]
    BY <1>0, <1>9, IdleIsJob DEF NowIdle
  <2>3. k \in KickId /\ [IdleJob EXCEPT !.name = name].name = name
    BY StartedShape DEF FreeKicks
  <2>4. job'[k] = [IdleJob EXCEPT !.name = name] /\ \A l \in KickId \ {k} : job'[l] = job[l]
    BY <1>0, <2>1, <2>2, <2>3
  <2> QED
    BY <1>0, <2>3, <2>4
<1>10. CASE EndTurn \/ ClickWave
  BY <1>9, <1>10 DEF EndTurn, ClickWave
<1>11. CASE KickEnds \/ PauseEnds \/ ResetEnds \/ GuideEnds
  <2>1. CASE job' = NowIdle
    BY <1>0, <2>1 DEF NowIdle
  <2>2. CASE job' # NowIdle
    BY <1>9, <1>11, <2>2 DEF KickEnds, PauseEnds, ResetEnds, GuideEnds
  <2> QED
    BY <2>1, <2>2
<1>12. ASSUME \E b : job' = [job EXCEPT !["control"] = b]
       PROVE  \A k \in KickId : job'[k].name # "start"
  BY <1>0, <1>12
<1>13. CASE Discard \/ StartAuto \/ Pause \/ Continue \/ Abort \/ Recover
  BY <1>12, <1>13 DEF Discard, StartAuto, Pause, Continue, Abort, Recover, Begin
<1>14. CASE job' = job
  BY <1>0, <1>14
<1>15. CASE Chat \/ Approve \/ CancelWork \/ StartTurn \/ Work \/ UNCHANGED vars
  BY <1>14, <1>15 DEF Chat, Approve, CancelWork, StartTurn, Work, vars
<1>16. CASE StartInTurn
  <2>1. turn' # NoTurn
    <3>1. turn'.step = "chat"
      BY <1>0, <1>16 DEF StartInTurn, TurnTypes, Turns
    <3> QED
      BY <3>1, NoTurnTypes
  <2>2. ASSUME NEW k \in FreeKicks, job' = [job EXCEPT ![k] = AutoStart] PROVE FALSE
    <3>1. k \in KickId /\ job'[k] = AutoStart
      BY <1>0, <2>2 DEF FreeKicks
    <3>2. Driving'
      BY <3>1, AutoStartIs DEF Driving
    <3> QED
      BY <1>0, <2>1, <3>2 DEF TokenInv
  <2> QED
    BY <1>14, <1>16, <2>2 DEF StartInTurn
<1>17. CASE Restart
  BY <1>0, <1>17, IdleIsJob DEF Restart
<1> QED
  BY <1>2, <1>3, <1>4, <1>5, <1>6, <1>7, <1>8, <1>10, <1>11, <1>13, <1>15, <1>16, <1>17
  DEF Next, Runtime, Human, Settles

-----------------------------------------------------------------------------
(***************************************************************************)
(* Few rounds of review.                                                   *)
(***************************************************************************)

\* The contents of state.md that a step of the driver is about to read or to
\* store, and those that any job is.
KickFiles == {st} \cup ({job[k].copy : k \in KickId} \ {Nothing})
Files == {st} \cup ({job[j].copy : j \in Job} \ {Nothing})

Live(s) == s.mode = "auto" /\ ~s.paused

\* No review of the feature comes any more.
Gone(f) == f \notin Present \/ status[f] = "done"

\* Every review of the feature has its strike, or all but the one whose verdict
\* nobody has looked at yet.
Within(s, f) == Gone(f) \/ (rounds[f] <= s.strikes[f] /\ rounds[f] < MaxReviews)
Under(s, f) == /\ rounds[f] <= MaxReviews /\ rounds[f] <= s.strikes[f] + 1
               /\ s.phase = "reviewing" /\ s.active = f

CalmRounds == job["control"].name \in Beginnings => rounds = NoStrikes

Verdicts == \A s \in KickFiles : Live(s) => \A f \in Feature : Within(s, f) \/ Under(s, f)

\* What a dispatch that has been decided on knows of the strikes.
StrikeFor(b, s) ==
  /\ b.todo = <<"strike", "mark">> =>
       /\ \A f \in Feature \ {b.cmd.feature} : Within(s, f)
       /\ rounds[b.cmd.feature] <= s.strikes[b.cmd.feature] + 1
  /\ b.todo # <<"strike", "mark">> => \A f \in Feature : Within(s, f)
  /\ b.todo = <<>> /\ b.cmd.step = "review" =>
       s.phase = "reviewing" /\ s.active = b.cmd.feature

Decided(b) ==
  b.name = "dispatch" =>
    /\ b.cmd.step = "review" =>
         /\ b.cmd.feature \in Feature /\ rounds[b.cmd.feature] < MaxReviews
         /\ b.todo # <<"strike", "mark">>
    /\ b.todo = <<"strike", "mark">> =>
         b.cmd.feature \in Feature /\ rounds[b.cmd.feature] < MaxReviews
    /\ \A s \in KickFiles : Live(s) => StrikeFor(b, s)

FewCore ==
  /\ \A f \in Feature : rounds[f] <= MaxReviews
  /\ CalmRounds /\ Verdicts
  /\ \A k \in KickId : Decided(job[k])

FewInv == ~crowded => FewCore

FileTypes ==
  /\ Files \subseteq States /\ KickFiles \subseteq Files /\ st \in KickFiles
  /\ \A k \in KickId : job[k].copy # Nothing => job[k].copy \in KickFiles
  /\ \A j \in Job : job[j].copy # Nothing => job[j].copy \in Files

LEMMA FilesAre == TypeInv => FileTypes
<1> SUFFICES ASSUME TypeInv PROVE FileTypes
  OBVIOUS
<1>1. \A j \in Job : job[j].copy \in States \cup {Nothing}
  BY DEF TypeInv, JobInv, Jobs
<1> QED
  BY <1>1, ConstantsAre DEF Files, KickFiles, TypeInv, FileTypes

\* A job that writes nothing holds nothing.
LEMMA QuietHoldsNothing ==
  ASSUME TypeInv, NEW j \in Job, job[j].name \in Quiet \/ job[j].todo = <<>>
  PROVE  job[j].todo = <<>> /\ job[j].copy = Nothing
BY DEF TypeInv, JobInv, Shape

\* Between two steps of the driver nothing but the file counts.
LEMMA NothingHeld ==
  ASSUME TypeInv, ~Driving
  PROVE  KickFiles = {st} /\ \A k \in KickId : job[k].copy = Nothing
<1>1. \A k \in KickId : job[k].copy = Nothing
  BY QuietHoldsNothing, ConstantsAre DEF Driving, Quiet
<1> QED
  BY <1>1 DEF KickFiles

\* Nothing has been reviewed since the human was last there.
LEMMA FewFresh ==
  ASSUME TypeInv', Attended, \A k \in KickId : Decided(job[k])'
  PROVE  FewCore'
<1>1. \A f \in Feature : rounds'[f] = 0
  BY DEF Attended, NoStrikes
<1>2. CalmRounds' /\ \A f \in Feature : rounds'[f] <= MaxReviews
  BY <1>1, ConstantsAre DEF Attended, CalmRounds
<1>3. Verdicts'
  <2>1. (TypeInv => FileTypes)'
    BY FilesAre, PTL
  <2>2. KickFiles' \subseteq States
    BY <2>1 DEF FileTypes
  <2>3. \A s \in States : \A f \in Feature : Within(s, f)'
    BY <1>1, ConstantsAre DEF Within, States
  <2> QED
    BY <2>2, <2>3 DEF Verdicts
<1> QED
  BY <1>2, <1>3 DEF FewCore

\* The human is there, and nothing more has been decided.
LEMMA FewAttended ==
  ASSUME TypeInv, TypeInv', FewCore, Attended, st' = st,
         \A k \in KickId : \/ job'[k] = job[k]
                           \/ job'[k].copy = Nothing /\ job'[k].name # "dispatch"
  PROVE  FewCore'
<1>1. KickFiles' \subseteq KickFiles
  BY DEF KickFiles
<1>2. \A f \in Feature : rounds'[f] = 0
  BY DEF Attended, NoStrikes
<1>3. \A s \in States : \A f \in Feature : Within(s, f)' /\ rounds'[f] <= s.strikes[f] + 1
  BY <1>2, ConstantsAre DEF Within, States
<1>4. ASSUME NEW k \in KickId PROVE Decided(job[k])'
  <2> SUFFICES ASSUME job'[k].name = "dispatch" PROVE Decided(job[k])'
    BY DEF Decided
  <2>1. job'[k] = job[k] /\ Decided(job[k])
    BY DEF FewCore
  <2>2. job[k].todo = <<"strike", "mark">> => job[k].cmd.feature \in Feature
    BY <2>1 DEF Decided
  <2>3. \A s \in KickFiles : StrikeFor(job[k], s) => StrikeFor(job[k], s)'
    BY <1>3, <2>1, <2>2, FilesAre DEF StrikeFor, FileTypes
  <2> QED
    BY <1>1, <1>2, <2>1, <2>3, ConstantsAre DEF Decided, Live
<1> QED
  BY <1>4, FewFresh

\* Steps that leave the files as they are, decide on no dispatch and bring no
\* feature back.
LEMMA FewKept ==
  ASSUME TypeInv, FewCore, st' = st, rounds' = rounds,
         \A f \in Feature : Gone(f) => Gone(f)',
         job'["control"] = job["control"],
         \A k \in KickId : job'[k].copy = Nothing \/ job'[k] = job[k],
         \A k \in KickId : job'[k].name # "dispatch" \/ job'[k] = job[k] \/ Decided(job[k])'
  PROVE  FewCore'
<1>1. KickFiles' \subseteq KickFiles
  BY DEF KickFiles
<1>2. \A s \in KickFiles : \A f \in Feature : Within(s, f) => Within(s, f)'
  BY DEF Within
<1>3. CalmRounds' /\ \A f \in Feature : rounds'[f] <= MaxReviews
  BY DEF FewCore, CalmRounds
<1>5. Verdicts'
  BY <1>1, <1>2 DEF FewCore, Verdicts, Under, Live
<1>6. ASSUME NEW k \in KickId PROVE Decided(job[k])'
  <2> SUFFICES ASSUME job'[k].name = "dispatch", job'[k] = job[k] PROVE Decided(job[k])'
    BY DEF Decided
  <2>1. job'[k] = job[k] /\ Decided(job[k]) /\ job[k].name = "dispatch"
    BY DEF FewCore
  <2>2. \A s \in KickFiles : StrikeFor(job[k], s) => StrikeFor(job[k], s)'
    BY <1>2, <2>1 DEF StrikeFor
  <2> QED
    BY <1>1, <2>1, <2>2 DEF Decided, Live
<1> QED
  BY <1>3, <1>5, <1>6 DEF FewCore

LEMMA FewLoads ==
  ASSUME TypeInv, TokenInv, FewCore, NEW j \in Job, Load(j)
  PROVE  FewCore'
<1>0. job \in [Job -> Jobs] /\ KickId \subseteq Job /\ "control" \in Job /\ st \in States
      /\ "control" \notin KickId
  BY ConstantsAre DEF TypeInv, JobInv
<1>1. /\ job'[j].copy = st /\ \A i \in Job \ {j} : job'[i] = job[i]
      /\ \A i \in Job : /\ job'[i].name = job[i].name /\ job'[i].todo = job[i].todo
                        /\ job'[i].cmd = job[i].cmd
  BY <1>0 DEF Load, Jobs
<1>2. UNCHANGED <<st, status, rounds>>
  BY DEF Load, bundle, human
<1>3. KickFiles' \subseteq KickFiles
  BY <1>0, <1>1, <1>2 DEF KickFiles
<1>4. \A s, f : Within(s, f)' <=> Within(s, f)
  BY <1>2 DEF Within, Gone, Present
<1>5. CalmRounds' /\ \A f \in Feature : rounds'[f] <= MaxReviews
  BY <1>0, <1>1, <1>2 DEF FewCore, CalmRounds
<1>7. Verdicts'
  BY <1>2, <1>3, <1>4 DEF FewCore, Verdicts, Under, Live
<1>8. ASSUME NEW k \in KickId PROVE Decided(job[k])'
  <2>1. /\ job'[k].name = job[k].name /\ job'[k].todo = job[k].todo
        /\ job'[k].cmd = job[k].cmd /\ Decided(job[k])
    BY <1>0, <1>1 DEF FewCore
  <2>2. \A s \in KickFiles : StrikeFor(job[k], s) => StrikeFor(job[k], s)'
    BY <1>2, <1>4, <2>1 DEF StrikeFor
  <2> QED
    BY <1>2, <1>3, <2>1, <2>2 DEF Decided, Live
<1> QED
  BY <1>5, <1>7, <1>8 DEF FewCore

\* What a step of the driver or of the wave writes.
LEMMA KickPatch ==
  ASSUME NEW s \in States, NEW cmd,
         NEW patch \in {"strike", "mark", "escalated", "finished", "wave", "waved", "pause"}
  PROVE  LET t == Patched(s, patch, cmd)
         IN  /\ patch # "strike" => t.strikes = s.strikes
             /\ patch = "strike" => /\ t.strikes = [s.strikes EXCEPT ![cmd.feature] = @ + 1]
                                    /\ t.phase = s.phase /\ t.active = s.active
             /\ patch = "mark" => t.phase = PhaseOf(cmd.step) /\ t.active = cmd.feature
             /\ Live(t) => Live(s) /\ patch \in {"strike", "mark"}
<1>1. CASE patch = "strike"
  <2>1. Patched(s, patch, cmd) = [s EXCEPT !.strikes[cmd.feature] = @ + 1]
    BY <1>1 DEF Patched
  <2> QED
    BY <1>1, <2>1 DEF States, Live
<1>2. CASE patch = "mark"
  <2>1. Patched(s, patch, cmd) = [s EXCEPT !.phase = PhaseOf(cmd.step), !.active = cmd.feature]
    BY <1>2 DEF Patched
  <2> QED
    BY <1>2, <2>1 DEF States, Live
<1>3. CASE patch = "escalated"
  <2>1. Patched(s, patch, cmd) = [s EXCEPT !.phase = "escalated", !.paused = TRUE,
                                           !.escalation = cmd.feature]
    BY <1>3 DEF Patched
  <2> QED
    BY <1>3, <2>1 DEF States, Live
<1>4. CASE patch = "finished"
  <2>1. Patched(s, patch, cmd) = [s EXCEPT !.mode = "manual", !.paused = FALSE,
                                           !.phase = "done", !.active = None]
    BY <1>4 DEF Patched
  <2> QED
    BY <1>4, <2>1 DEF States, Live
<1>5. CASE patch = "wave"
  <2>1. Patched(s, patch, cmd) = [s EXCEPT !.mode = "manual", !.paused = FALSE,
                                           !.phase = "implementing", !.active = cmd.feature]
    BY <1>5 DEF Patched
  <2> QED
    BY <1>5, <2>1 DEF States, Live
<1>6. CASE patch = "waved"
  <2>1. Patched(s, patch, cmd) = [s EXCEPT !.mode = "manual", !.paused = FALSE,
                                           !.phase = "idle", !.active = None]
    BY <1>6 DEF Patched
  <2> QED
    BY <1>6, <2>1 DEF States, Live
<1>7. CASE patch = "pause"
  <2>1. Patched(s, patch, cmd) = [s EXCEPT !.paused = TRUE]
    BY <1>7 DEF Patched
  <2> QED
    BY <1>7, <2>1 DEF States, Live
<1> QED
  BY <1>1, <1>2, <1>3, <1>4, <1>5, <1>6, <1>7

\* What a step of the driver holds when it stores, and what it leaves.
LEMMA KickStores ==
  ASSUME TypeInv, TokenInv, NEW k \in KickId, job[k].name # "start", Store(k)
  PROVE  /\ job[k].todo # <<>> /\ job[k].name # "idle"
         /\ job[k].copy \in KickFiles /\ job[k].copy \in Files /\ job[k].copy \in States
         /\ st' = Patched(job[k].copy, Head(job[k].todo), job[k].cmd)
         /\ Head(job[k].todo) \in {"strike", "mark", "escalated", "finished", "wave",
                                   "waved", "pause"}
         /\ \/ /\ job[k].name = "dispatch" /\ job[k].todo = <<"strike", "mark">>
               /\ Head(job[k].todo) = "strike" /\ Tail(job[k].todo) = <<"mark">>
            \/ /\ job[k].name = "dispatch" /\ job[k].todo = <<"mark">>
               /\ Head(job[k].todo) = "mark" /\ Tail(job[k].todo) = <<>>
            \/ /\ job[k].name # "dispatch"
               /\ Head(job[k].todo) \notin {"strike", "mark"} /\ Tail(job[k].todo) = <<>>
         /\ job'[k].name = job[k].name /\ job'[k].cmd = job[k].cmd
         /\ job'[k].todo = Tail(job[k].todo) /\ job'[k].copy = Nothing
         /\ \A l \in KickId \ {k} : job'[l] = job[l] /\ job[l].name = "idle"
                                    /\ job[l].copy = Nothing
         /\ job'["control"] = job["control"]
         /\ KickFiles' = {st'} /\ Files' \subseteq {st'} \cup Files
         /\ UNCHANGED <<status, rounds, turn, queue>>
<1>0. job \in [Job -> Jobs] /\ k \in Job /\ "control" \in Job /\ k # "control"
      /\ KickId \subseteq Job
      /\ Shape(k, job[k])
  BY ConstantsAre DEF TypeInv, JobInv
<1>1. job[k].copy # Nothing /\ job[k].todo # <<>>
      /\ st' = Patched(job[k].copy, Head(job[k].todo), job[k].cmd)
      /\ UNCHANGED <<status, rounds, turn, queue>>
  BY <1>0 DEF Store, Shape, bundle, human, agent
<1>2. job[k].name # "idle"
  BY <1>0, <1>1 DEF Shape, Quiet
<1>3. job[k].copy \in KickFiles /\ job[k].copy \in Files /\ job[k].copy \in States
  BY <1>0, <1>1, FilesAre DEF FileTypes
<1>4. job' = [job EXCEPT ![k] = [job[k] EXCEPT !.copy = Nothing, !.todo = Tail(@)]]
  BY <1>0 DEF Store
<1>5. /\ job'[k].name = job[k].name /\ job'[k].cmd = job[k].cmd
      /\ job'[k].todo = Tail(job[k].todo) /\ job'[k].copy = Nothing
  BY <1>0, <1>4 DEF Jobs
<1>6. /\ \A l \in KickId \ {k} : job'[l] = job[l] /\ job[l].name = "idle"
      /\ job'["control"] = job["control"]
  BY <1>0, <1>2, <1>4, AloneKick
<1>7. \A l \in KickId \ {k} : job[l].copy = Nothing
  BY <1>0, <1>6, QuietHoldsNothing DEF Quiet
<1>8. KickFiles' = {st'} /\ Files' \subseteq {st'} \cup Files
  BY <1>0, <1>5, <1>6, <1>7 DEF KickFiles, Files, Job
<1>9. \/ /\ job[k].name = "dispatch" /\ job[k].todo = <<"strike", "mark">>
         /\ Head(job[k].todo) = "strike" /\ Tail(job[k].todo) = <<"mark">>
      \/ /\ job[k].name = "dispatch" /\ job[k].todo = <<"mark">>
         /\ Head(job[k].todo) = "mark" /\ Tail(job[k].todo) = <<>>
      \/ /\ job[k].name # "dispatch" /\ Tail(job[k].todo) = <<>>
         /\ Head(job[k].todo) \in {"escalated", "finished", "wave", "waved", "pause"}
  <2>1. job[k].name \in KickNames /\ job[k].name \notin Single
    BY <1>0 DEF Shape, KickNames, Single
  <2>2. job[k].name = "dispatch" => job[k].todo \in {<<"strike", "mark">>, <<"mark">>}
    BY <1>0, <1>1 DEF Shape
  <2>3. <<"strike", "mark">> # <<"mark">> /\ Head(<<"strike", "mark">>) = "strike"
        /\ Head(<<"mark">>) = "mark" /\ Tail(<<"strike", "mark">>) = <<"mark">>
        /\ Tail(<<"mark">>) = <<>>
    OBVIOUS
  <2>4. CASE job[k].name = "dispatch"
    BY <2>2, <2>3, <2>4
  <2>5. CASE job[k].name # "dispatch"
    BY <1>0, <1>1, <2>1, <2>5, WritesAre
  <2> QED
    BY <2>4, <2>5
<1> QED
  BY <1>1, <1>2, <1>3, <1>5, <1>6, <1>7, <1>8, <1>9

\* What a control writes.
LEMMA ControlPatch ==
  ASSUME NEW s \in States, NEW patch \in Single, NEW cmd
  PROVE  LET t == Patched(s, patch, cmd)
         IN  /\ \A f \in Feature : t.strikes[f] = s.strikes[f] \/ t.strikes[f] = 0
             /\ patch \in {"pause", "reset"} => ~Live(t)
             /\ patch \notin {"pause", "reset"} => t.escalation = None
             /\ patch \notin {"pause", "reset", "continue"} => t.phase = "implementing"
             /\ patch = "continue" => t.phase = s.phase /\ t.active = s.active
             /\ patch = "reset" => t.phase = "idle" /\ t.escalation = None
             /\ patch = "pause" => /\ t.phase = s.phase /\ t.active = s.active
                                   /\ t.escalation = s.escalation /\ t.paused
<1>1. CASE patch = "pause"
  <2>1. Patched(s, patch, cmd) = [s EXCEPT !.paused = TRUE]
    BY <1>1 DEF Patched
  <2> QED
    BY <1>1, <2>1 DEF States, Live
<1>2. CASE patch = "reset"
  <2>1. Patched(s, patch, cmd) =
          [mode |-> "manual", paused |-> FALSE, phase |-> "idle", active |-> None,
           strikes |-> NoStrikes, escalation |-> None]
    BY <1>2 DEF Patched
  <2> QED
    BY <1>2, <2>1 DEF Live, NoStrikes
<1>3. CASE patch = "start"
  <2>1. Patched(s, patch, cmd) = [s EXCEPT !.mode = "auto", !.paused = FALSE,
                                           !.phase = "implementing", !.escalation = None]
    BY <1>3 DEF Patched
  <2> QED
    BY <1>3, <2>1 DEF States
<1>4. CASE patch = "continue"
  <2>1. Patched(s, patch, cmd) = [s EXCEPT !.paused = FALSE, !.escalation = None]
    BY <1>4 DEF Patched
  <2> QED
    BY <1>4, <2>1 DEF States
<1>5. CASE patch = "guide" \/ patch = "restart"
  <2>1. \A f \in Feature : Cleared(s.strikes, cmd.feature)[f] = s.strikes[f]
                             \/ Cleared(s.strikes, cmd.feature)[f] = 0
    BY DEF Cleared
  <2>2. CASE patch = "guide"
    <3>1. Patched(s, patch, cmd) =
            [s EXCEPT !.paused = FALSE, !.phase = "implementing", !.escalation = None,
                      !.strikes = Cleared(s.strikes, cmd.feature)]
      BY <2>2 DEF Patched
    <3> QED
      BY <2>1, <2>2, <3>1 DEF States
  <2>3. CASE patch = "restart"
    <3>1. Patched(s, patch, cmd) =
            [s EXCEPT !.paused = FALSE, !.phase = "implementing", !.active = None,
                      !.escalation = None, !.strikes = Cleared(s.strikes, cmd.feature)]
      BY <2>3 DEF Patched
    <3> QED
      BY <2>1, <2>3, <3>1 DEF States
  <2> QED
    BY <1>5, <2>2, <2>3
<1> QED
  BY <1>1, <1>2, <1>3, <1>4, <1>5 DEF Single

LEMMA ControlStores ==
  ASSUME TypeInv, Store("control")
  PROVE  LET c == job["control"]
         IN  /\ c.name \in Single /\ c.todo # <<>> /\ c.copy # Nothing
             /\ c.copy \in Files /\ c.copy \in States
             /\ st' = Patched(c.copy, c.name, c.cmd) /\ st' \in States
             /\ job'["control"].name = c.name /\ job'["control"].cmd = c.cmd
             /\ job'["control"].todo = <<>> /\ job'["control"].copy = Nothing
             /\ \A k \in KickId : job'[k] = job[k]
             /\ KickFiles' \subseteq {st'} \cup KickFiles
             /\ Files' \subseteq {st'} \cup Files
             /\ UNCHANGED <<status, rounds, turn, queue>>
<1> DEFINE c == job["control"]
<1>0. job \in [Job -> Jobs] /\ "control" \in Job /\ KickId \subseteq Job
      /\ "control" \notin KickId /\ Shape("control", c)
  BY ConstantsAre DEF TypeInv, JobInv
<1>1. c.copy # Nothing /\ c.todo # <<>> /\ c.name \in ControlNames
      /\ st' = Patched(c.copy, Head(c.todo), c.cmd)
      /\ UNCHANGED <<status, rounds, turn, queue>>
  BY <1>0 DEF Store, Shape, bundle, human, agent
<1>2. c.copy \in Files /\ c.copy \in States
  BY <1>0, <1>1, FilesAre DEF FileTypes
<1>3. c.name \in Single /\ Head(c.todo) = c.name /\ Tail(c.todo) = <<>>
  <2>1. c.name \notin {"dispatch", "wave", "escalate", "finish", "failed", "waved"}
    BY <1>1 DEF ControlNames
  <2> QED
    BY <1>0, <1>1, <2>1, WritesAre
<1>4. job' = [job EXCEPT !["control"] = [c EXCEPT !.copy = Nothing, !.todo = Tail(@)]]
  BY <1>0 DEF Store
<1>5. /\ job'["control"].name = c.name /\ job'["control"].cmd = c.cmd
      /\ job'["control"].todo = <<>> /\ job'["control"].copy = Nothing
      /\ \A k \in KickId : job'[k] = job[k]
  BY <1>0, <1>3, <1>4 DEF Jobs
<1>6. KickFiles' \subseteq {st'} \cup KickFiles /\ Files' \subseteq {st'} \cup Files
  BY <1>5 DEF KickFiles, Files, Job
<1>7. st' \in States
  BY <1>0, <1>1, StoreShape
<1> QED
  BY <1>1, <1>2, <1>3, <1>5, <1>6, <1>7

\* What the driver decides to dispatch.
LEMMA DispatchDecision ==
  ASSUME TypeInv, NextAutoAction.name = "dispatch"
  PROVE  /\ Driven
         /\ \/ /\ NeedsWork /\ st.active \in Feature /\ st.strikes[st.active] + 1 < MaxReviews
               /\ NextAutoAction.todo = <<"strike", "mark">>
               /\ NextAutoAction.cmd.step = "implement"
               /\ NextAutoAction.cmd.feature = st.active
            \/ /\ ~NeedsWork /\ NextAutoAction.todo = <<"mark">>
               /\ NextAutoAction.cmd.step = "review" =>
                    /\ NextAutoAction.cmd.feature \in Feature
                    /\ NextAutoAction.cmd.feature \in Present
                    /\ status[NextAutoAction.cmd.feature] = "implemented"
                    /\ NextAutoAction.cmd.feature = Awaiting
               /\ NextAutoAction.cmd.step = "implement" =>
                    \A f \in Present : status[f] # "implemented"
<1>1. /\ \A name, todo, cmd : /\ Decision(name, todo, cmd).name = name
                              /\ Decision(name, todo, cmd).todo = todo
                              /\ Decision(name, todo, cmd).cmd = cmd
      /\ \A step, f : Command(step, f).step = step /\ Command(step, f).feature = f
  BY DEF Decision, Command
<1>2. /\ \A f : Escalate(f).name = "escalate" /\ Finish.name = "finish"
      /\ \A step, f : /\ Dispatch(step, f).todo = <<"mark">>
                      /\ Dispatch(step, f).cmd.step = step
                      /\ Dispatch(step, f).cmd.feature = f
  BY <1>1 DEF Escalate, Finish, Dispatch
<1>3. \/ NextAutoAction = IdleJob /\ ~Driven
      \/ /\ Driven /\ NeedsWork /\ st.active \in Feature
         /\ \/ NextAutoAction = Escalate(st.active)
            \/ /\ st.strikes[st.active] + 1 < MaxReviews
               /\ NextAutoAction = Decision("dispatch", <<"strike", "mark">>,
                                            Command("implement", st.active))
      \/ /\ Driven /\ ~NeedsWork /\ Awaiting \in Feature
         /\ Awaiting \in Present /\ status[Awaiting] = "implemented"
         /\ NextAutoAction = Dispatch("review", Awaiting)
      \/ /\ Driven /\ ~NeedsWork
         /\ \A f \in Present : status[f] # "implemented"
         /\ \/ \E f \in Feature \cup {Everything} : NextAutoAction = Escalate(f)
            \/ \E step \in {"test", "implement", "plan-review"} :
                 \E f \in Feature \cup {None} : NextAutoAction = Dispatch(step, f)
            \/ NextAutoAction = Finish
  BY NextActionCases DEF TypeInv
<1> QED
  BY <1>1, <1>2, <1>3, IdleIsJob

LEMMA FewKickStores ==
  ASSUME TypeInv, TokenInv, FewCore, NEW k \in KickId, job[k].name # "start", Store(k)
  PROVE  FewCore'
<1> DEFINE c == job[k].copy
           cmd == job[k].cmd
           patch == Head(job[k].todo)
<1>0. /\ c \in KickFiles /\ c \in States /\ st' = Patched(c, patch, cmd)
      /\ patch \in {"strike", "mark", "escalated", "finished", "wave", "waved", "pause"}
      /\ KickFiles' = {st'}
      /\ job'["control"] = job["control"]
      /\ UNCHANGED <<status, rounds>>
      /\ job'[k].name = job[k].name /\ job'[k].cmd = cmd
      /\ job'[k].todo = Tail(job[k].todo) /\ job'[k].copy = Nothing
      /\ rounds \in [Feature -> Nat]
  BY KickStores DEF TypeInv, HumanTypes
<1>1. \A l \in KickId \ {k} : /\ job'[l] = job[l] /\ job[l].name = "idle"
                              /\ job[l].copy = Nothing
  BY KickStores
<1>3. \/ /\ job[k].name = "dispatch" /\ job[k].todo = <<"strike", "mark">>
         /\ patch = "strike" /\ job'[k].todo = <<"mark">>
      \/ /\ job[k].name = "dispatch" /\ job[k].todo = <<"mark">>
         /\ patch = "mark" /\ job'[k].todo = <<>>
      \/ job[k].name # "dispatch" /\ patch \notin {"strike", "mark"} /\ job'[k].todo = <<>>
  BY KickStores
<1>4. <<"mark">> # <<"strike", "mark">> /\ <<>> # <<"strike", "mark">> /\ <<"mark">> # <<>>
  OBVIOUS
<1>5. c.strikes \in [Feature -> Nat]
  BY <1>0 DEF States
<1>6. patch = "strike" => cmd.feature \in Feature /\ rounds[cmd.feature] < MaxReviews
  BY <1>0, <1>3 DEF FewCore, Decided
<1>7. Decided(job[k])
  BY DEF FewCore
<1> HIDE DEF c, cmd, patch
<1>2. /\ patch # "strike" => st'.strikes = c.strikes
      /\ patch = "strike" => /\ st'.strikes = [c.strikes EXCEPT ![cmd.feature] = @ + 1]
                             /\ st'.phase = c.phase /\ st'.active = c.active
      /\ patch = "mark" => st'.phase = PhaseOf(cmd.step) /\ st'.active = cmd.feature
      /\ Live(st') => Live(c) /\ patch \in {"strike", "mark"}
  BY <1>0, KickPatch
\* The strikes grow by the one that is stored.
<1>8. \A f \in Feature : /\ patch = "strike" /\ f = cmd.feature => st'.strikes[f] = c.strikes[f] + 1
                         /\ patch # "strike" \/ f # cmd.feature => st'.strikes[f] = c.strikes[f]
  BY <1>2, <1>5
\* All reviews have their strikes in what is stored.
<1>9. Live(st') => \A f \in Feature : Within(st, f)'
  <2> SUFFICES ASSUME Live(st'), NEW f \in Feature PROVE Within(st, f)'
    OBVIOUS
  <2>1. StrikeFor(job[k], c)
    BY <1>0, <1>2, <1>3, <1>7 DEF Decided
  <2>2. Gone(f)' <=> Gone(f)
    BY <1>0 DEF Gone, Present
  <2>3. CASE patch = "strike"
    <3>1. /\ \A g \in Feature \ {cmd.feature} : Within(c, g)
          /\ rounds[cmd.feature] <= c.strikes[cmd.feature] + 1
      BY <1>3, <2>1, <2>3 DEF StrikeFor, cmd
    <3>2. CASE f = cmd.feature
      <4>1. rounds'[f] <= st'.strikes[f] /\ rounds'[f] < MaxReviews
        BY <1>0, <1>6, <1>8, <2>3, <3>1, <3>2
      <4> QED
        BY <4>1 DEF Within
    <3>3. CASE f # cmd.feature
      BY <1>0, <1>8, <2>2, <3>1, <3>3 DEF Within
    <3> QED
      BY <3>2, <3>3
  <2>4. CASE patch = "mark"
    <3>1. Within(c, f)
      BY <1>3, <1>4, <2>1, <2>4 DEF StrikeFor
    <3> QED
      BY <1>0, <1>8, <2>2, <2>4, <3>1 DEF Within
  <2> QED
    BY <1>2, <2>3, <2>4
<1>11. CalmRounds' /\ \A f \in Feature : rounds'[f] <= MaxReviews
  BY <1>0 DEF FewCore, CalmRounds
<1>13. Verdicts'
  BY <1>0, <1>9 DEF Verdicts, Live
<1>14. Decided(job[k])'
  <2> SUFFICES ASSUME job[k].name = "dispatch" PROVE Decided(job[k])'
    BY <1>0 DEF Decided
  <2>1. job'[k].todo \in {<<"mark">>, <<>>} /\ job'[k].todo # <<"strike", "mark">>
    BY <1>3, <1>4
  <2>2. cmd.step = "review" => /\ cmd.feature \in Feature
                               /\ rounds'[cmd.feature] < MaxReviews
    BY <1>0, <1>7 DEF Decided, cmd
  <2>3. Live(st') => StrikeFor(job[k], st)'
    <3> SUFFICES ASSUME Live(st') PROVE StrikeFor(job[k], st)'
      OBVIOUS
    <3>1. job'[k].todo = <<>> /\ cmd.step = "review" =>
            st'.phase = "reviewing" /\ st'.active = cmd.feature
      BY <1>2, <1>3, <1>4 DEF PhaseOf
    <3> QED
      BY <1>0, <1>9, <2>1, <3>1 DEF StrikeFor
  <2> QED
    BY <1>0, <2>1, <2>2, <2>3 DEF Decided, Live
<1>15. ASSUME NEW l \in KickId \ {k} PROVE Decided(job[l])'
  BY <1>1, <1>15 DEF Decided
<1> QED
  BY <1>11, <1>13, <1>14, <1>15 DEF FewCore

LEMMA FewControlStores ==
  ASSUME TypeInv, TypeInv', TokenInv, FewCore, Store("control")
  PROVE  FewCore'
<1> DEFINE c == job["control"]
<1>0. /\ c.name \in Single /\ c.copy \in States
      /\ st' = Patched(c.copy, c.name, c.cmd)
      /\ job'["control"].name = c.name
      /\ \A k \in KickId : job'[k] = job[k]
      /\ KickFiles' \subseteq {st'} \cup KickFiles
      /\ UNCHANGED <<status, rounds>>
  BY ControlStores
<1>1. c.name \in {"pause", "reset"} => ~Live(st')
  BY <1>0, ControlPatch
<1>3. CalmRounds' /\ \A f \in Feature : rounds'[f] <= MaxReviews
  BY <1>0 DEF FewCore, CalmRounds
<1>4. CASE c.name \in {"pause", "reset"}
  <2>1. \A s, f : /\ Within(s, f)' <=> Within(s, f)
                  /\ Under(s, f)' <=> Under(s, f)
    BY <1>0 DEF Within, Under, Gone, Present
  <2>2. Verdicts'
    BY <1>0, <1>1, <1>4, <2>1 DEF FewCore, Verdicts, Live
  <2>3. ASSUME NEW k \in KickId PROVE Decided(job[k])'
    <3> SUFFICES ASSUME job[k].name = "dispatch" PROVE Decided(job[k])'
      BY <1>0 DEF Decided
    <3>1. Decided(job[k]) /\ job'[k] = job[k]
      BY <1>0 DEF FewCore
    <3>3. \A s \in KickFiles' : Live(s) => StrikeFor(job[k], s)
      BY <1>0, <1>1, <1>4, <3>1 DEF Decided, Live
    <3>4. \A s : StrikeFor(job[k], s) => StrikeFor(job[k], s)'
      BY <1>0, <2>1, <3>1 DEF StrikeFor
    <3> QED
      BY <1>0, <3>1, <3>3, <3>4 DEF Decided, Live
  <2> QED
    BY <1>3, <2>2, <2>3 DEF FewCore
<1>5. CASE c.name \notin {"pause", "reset"}
  <2>1. c.name \in Beginnings
    BY <1>0, <1>5 DEF Single, Beginnings
  <2>2. ~Driving /\ rounds' = NoStrikes
    BY <1>0, <2>1 DEF TokenInv, FewCore, CalmRounds
  <2>3. \A k \in KickId : job'[k].name = "idle"
    BY <1>0, <2>2 DEF Driving
  <2>4. (TypeInv => FileTypes)'
    BY FilesAre, PTL
  <2>5. \A s \in KickFiles' : \A f \in Feature : Within(s, f)'
    <3> TAKE s \in KickFiles'
    <3> TAKE f \in Feature
    <3>1. s.strikes[f] \in Nat
      BY <2>4 DEF FileTypes, States
    <3>2. rounds'[f] = 0
      BY <2>2 DEF NoStrikes
    <3> QED
      BY <3>1, <3>2, ConstantsAre DEF Within
  <2> QED
    BY <1>3, <2>3, <2>5 DEF FewCore, Verdicts, Decided
<1> QED
  BY <1>4, <1>5

LEMMA FewGathers ==
  ASSUME TypeInv, TokenInv, FewCore, NEW k \in KickId, Gather(k)
  PROVE  FewCore'
<1> DEFINE d == NextAutoAction
<1>0. /\ job[k].name \in {"gather", "ended"} /\ job' = [job EXCEPT ![k] = Counted(d)]
      /\ UNCHANGED <<status, st, rounds>>
      /\ job \in [Job -> Jobs] /\ KickId \subseteq Job /\ "control" \in Job
      /\ "control" \notin KickId /\ st \in States /\ rounds \in [Feature -> Nat]
  BY ConstantsAre DEF Gather, bundle, human, TypeInv, JobInv, HumanTypes
<1>1. /\ job'["control"] = job["control"] /\ job'[k] = Counted(d)
      /\ \A l \in KickId \ {k} : job'[l] = job[l] /\ job[l].name = "idle"
  BY <1>0, AloneKick, NewNames
<1>2. /\ Counted(d).copy = Nothing
      /\ Counted(d).name = "dispatch" => d.name = "dispatch" /\ Counted(d) = d
  BY NextActionShape DEF TypeInv
<1>3. \A f \in Feature : Gone(f) => Gone(f)'
  BY <1>0 DEF Gone, Present
<1>4. ASSUME job'[k].name = "dispatch" PROVE Decided(job[k])'
  <2>1. d.name = "dispatch" /\ job'[k] = d
    BY <1>1, <1>2, <1>4
  <2>2. /\ Driven
        /\ \/ /\ NeedsWork /\ st.active \in Feature /\ st.strikes[st.active] + 1 < MaxReviews
              /\ d.todo = <<"strike", "mark">> /\ d.cmd.step = "implement"
              /\ d.cmd.feature = st.active
           \/ /\ ~NeedsWork /\ d.todo = <<"mark">>
              /\ d.cmd.step = "review" => /\ d.cmd.feature \in Feature
                                          /\ d.cmd.feature \in Present
                                          /\ status[d.cmd.feature] = "implemented"
    BY <2>1, DispatchDecision
  <2> HIDE DEF d
  <2>3. Live(st) /\ \A f \in Feature : Within(st, f) \/ Under(st, f)
    BY <2>2, FilesAre DEF FewCore, Verdicts, FileTypes, Driven, Live
  <2>4. KickFiles' = {st}
    <3>1. \A l \in KickId : job'[l].copy = Nothing
      BY <1>0, <1>1, <1>2, QuietHoldsNothing DEF Quiet
    <3> QED
      BY <1>0, <3>1 DEF KickFiles
  <2>5. \A f : Within(st, f)' <=> Within(st, f)
    BY <1>0 DEF Within, Gone, Present
  <2>6. <<"mark">> # <<"strike", "mark">> /\ <<"mark">> # <<>> /\ <<"strike", "mark">> # <<>>
    OBVIOUS
  <2>7. CASE NeedsWork
    <3>1. /\ st.active \in Feature /\ st.strikes[st.active] + 1 < MaxReviews
          /\ d.todo = <<"strike", "mark">> /\ d.cmd.step = "implement"
          /\ d.cmd.feature = st.active
      BY <2>2, <2>7
    <3>2. \A f \in Feature \ {st.active} : Within(st, f)
      BY <2>3 DEF Under
    <3>3. ~Gone(st.active)
      BY <2>7 DEF NeedsWork, Gone
    <3>4. rounds[st.active] <= st.strikes[st.active] + 1
      <4>1. rounds[st.active] \in Nat /\ st.strikes[st.active] \in Nat
        BY <1>0, <3>1 DEF States
      <4>2. \/ rounds[st.active] <= st.strikes[st.active]
            \/ rounds[st.active] <= st.strikes[st.active] + 1
        BY <2>3, <3>1, <3>3 DEF Under, Within
      <4> QED
        BY <4>1, <4>2
    <3>5. rounds[st.active] < MaxReviews
      <4>1. rounds[st.active] \in Nat /\ st.strikes[st.active] \in Nat
        BY <1>0, <3>1 DEF States
      <4> QED
        BY <3>1, <3>4, <4>1, ConstantsAre
    <3>6. StrikeFor(job[k], st)'
      BY <1>0, <2>1, <2>5, <2>6, <3>1, <3>2, <3>4 DEF StrikeFor
    <3> QED
      BY <1>0, <2>1, <2>4, <3>1, <3>5, <3>6 DEF Decided
  <2>8. CASE ~NeedsWork
    <3>1. /\ d.todo = <<"mark">>
          /\ d.cmd.step = "review" => /\ d.cmd.feature \in Feature
                                      /\ d.cmd.feature \in Present
                                      /\ status[d.cmd.feature] = "implemented"
      BY <2>2, <2>8
    <3>2. \A f \in Feature : Within(st, f)
      BY <2>3, <2>8 DEF Under, NeedsWork, Within, Gone
    <3>3. d.cmd.step = "review" => rounds[d.cmd.feature] < MaxReviews
      BY <3>1, <3>2 DEF Within, Gone
    <3> QED
      BY <1>0, <2>1, <2>4, <2>5, <2>6, <3>1, <3>2, <3>3 DEF Decided, StrikeFor
  <2> QED
    BY <2>7, <2>8
<1> QED
  BY <1>0, <1>1, <1>2, <1>3, <1>4, FewKept

LEMMA FewDispatches ==
  ASSUME TypeInv, TypeInv', TokenInv, FewCore, NEW k \in KickId, DispatchStep(k)
  PROVE  FewCore'
<1> DEFINE cmd == job[k].cmd
<1>0. /\ job[k].name = "dispatch" /\ job[k].todo = <<>> /\ job' = [job EXCEPT ![k] = IdleJob]
      /\ UNCHANGED <<status, st>>
      /\ rounds' = [f \in Feature |-> IF cmd = Command("review", f) THEN rounds[f] + 1
                                                                  ELSE rounds[f]]
      /\ job \in [Job -> Jobs] /\ KickId \subseteq Job /\ "control" \in Job
      /\ "control" \notin KickId /\ st \in States /\ rounds \in [Feature -> Nat]
  BY ConstantsAre DEF DispatchStep, Written, bundle, TypeInv, JobInv, HumanTypes
<1>1. /\ job'["control"] = job["control"] /\ job["control"].name \notin Beginnings
      /\ job'[k] = IdleJob
      /\ \A l \in KickId \ {k} : job'[l] = job[l] /\ job[l].name = "idle"
  BY <1>0, AloneKick, NewNames
<1>2. \A l \in KickId : /\ job[l].copy = Nothing /\ job'[l].copy = Nothing
                        /\ job'[l].name = "idle"
  BY <1>0, <1>1, QuietHoldsNothing, IdleIsJob DEF Quiet
<1>3. KickFiles = {st} /\ KickFiles' = {st}
  BY <1>0, <1>2 DEF KickFiles
<1>4. \A f \in Feature : \/ rounds'[f] = rounds[f]
                         \/ /\ cmd.step = "review" /\ cmd.feature = f
                            /\ rounds'[f] = rounds[f] + 1
  <2> TAKE f \in Feature
  <2>1. rounds'[f] = IF cmd = Command("review", f) THEN rounds[f] + 1 ELSE rounds[f]
    BY <1>0
  <2>2. Command("review", f).step = "review" /\ Command("review", f).feature = f
    BY DEF Command
  <2> HIDE DEF cmd
  <2> QED
    BY <2>1, <2>2
<1>5. /\ Decided(job[k]) /\ (Live(st) => StrikeFor(job[k], st))
      /\ \A f \in Feature : rounds[f] <= MaxReviews
  BY <1>0, <1>3 DEF FewCore, Decided
<1>6. CalmRounds'
  BY <1>1 DEF CalmRounds
<1>7. \A f \in Feature : rounds'[f] <= MaxReviews
  <2> TAKE f \in Feature
  <2>1. CASE rounds'[f] = rounds[f]
    BY <1>5, <2>1
  <2>2. CASE cmd.step = "review" /\ cmd.feature = f /\ rounds'[f] = rounds[f] + 1
    <3>1. rounds[f] < MaxReviews /\ rounds[f] \in Nat
      BY <1>0, <1>5, <2>2 DEF Decided
    <3> QED
      BY <2>2, <3>1, ConstantsAre
  <2> QED
    BY <1>4, <2>1, <2>2
<1>8. Verdicts'
  <2> SUFFICES ASSUME Live(st), NEW f \in Feature PROVE Within(st, f)' \/ Under(st, f)'
    BY <1>0, <1>3 DEF Verdicts, Live
  <2>1. <<>> # <<"strike", "mark">>
    OBVIOUS
  <2>2. Within(st, f) /\ (cmd.step = "review" => st.phase = "reviewing" /\ st.active = cmd.feature)
    BY <1>0, <1>5, <2>1 DEF StrikeFor
  <2>3. Gone(f)' <=> Gone(f)
    BY <1>0 DEF Gone, Present
  <2>4. CASE rounds'[f] = rounds[f] \/ Gone(f)
    BY <1>0, <2>2, <2>3, <2>4 DEF Within
  <2>5. CASE ~Gone(f) /\ cmd.step = "review" /\ cmd.feature = f /\ rounds'[f] = rounds[f] + 1
    <3>1. rounds[f] <= st.strikes[f] /\ rounds[f] \in Nat /\ st.strikes[f] \in Nat
      BY <1>0, <2>2, <2>5 DEF Within, States
    <3>2. rounds'[f] <= st.strikes[f] + 1
      BY <2>5, <3>1
    <3> QED
      BY <1>0, <1>7, <2>2, <2>5, <3>2 DEF Under
  <2> QED
    BY <1>4, <2>4, <2>5
<1>9. \A l \in KickId : Decided(job[l])'
  BY <1>2 DEF Decided
<1> QED
  BY <1>6, <1>7, <1>8, <1>9 DEF FewCore

LEMMA FewWorks ==
  ASSUME TypeInv, TypeInv', TokenInv, FewCore, Work
  PROVE  FewCore'
<1>0. /\ st \in States /\ UNCHANGED <<job, rounds>>
      /\ status \in [DOMAIN status -> FeatureStatuses]
      /\ turn # NoTurn
  BY DEF Work, human, TypeInv, NoTurn, BundleTypes
<1>1. ~Driving /\ KickFiles = {st} /\ \A k \in KickId : job[k].copy = Nothing
  BY <1>0, NothingHeld DEF TokenInv
<1>2. CASE st' = st
  <2>1. \A f \in Feature : Gone(f) => Gone(f)'
    <3>1. CASE status' = status
      BY <3>1 DEF Gone, Present
    <3>2. CASE \E new \in {"implemented", "done"} :
                 /\ status' = [status EXCEPT ![turn.feature] = new]
                 /\ turn.feature \in Present
                 /\ status[turn.feature] \in {"pending", "implemented"}
      BY <3>2 DEF Gone, Present
    <3> QED
      BY <3>1, <3>2 DEF Work
  <2> QED
    BY <1>0, <1>2, <2>1, FewKept
<1>3. CASE st' # st
  <2>1. /\ UNCHANGED status
        /\ st' = [Patched(st, "finished", turn) EXCEPT !.strikes = NoStrikes, !.escalation = None]
    BY <1>3 DEF Work
  <2>2. Patched(st, "finished", turn) = [st EXCEPT !.mode = "manual", !.paused = FALSE,
                                                   !.phase = "done", !.active = None]
    BY DEF Patched
  <2>3. st'.mode = "manual"
    BY <1>0, <2>1, <2>2 DEF States
  <2>4. KickFiles' = {st'}
    BY <1>0, <1>1 DEF KickFiles
  <2>6. CalmRounds' /\ \A f \in Feature : rounds'[f] <= MaxReviews
    BY <1>0 DEF FewCore, CalmRounds
  <2>7. Verdicts'
    BY <2>3, <2>4 DEF Verdicts, Live
  <2>8. \A k \in KickId : Decided(job[k])'
    BY <1>0, <1>1 DEF Decided, Driving
  <2> QED
    BY <2>6, <2>7, <2>8 DEF FewCore
<1> QED
  BY <1>2, <1>3

\* What the human begins and what follows from it.
LEMMA FewHuman ==
  ASSUME TypeInv, TypeInv', FewCore, Human \/ Settles
  PROVE  FewCore'
<1>0. /\ job \in [Job -> Jobs] /\ KickId \subseteq Job /\ "control" \in Job
      /\ "control" \notin KickId /\ JobInv /\ StepsInv /\ Attended
  BY ConstantsAre DEF Human, Settles, TypeInv, JobInv
<1>1. ASSUME st' = st, job' = job \/ \E b : job' = [job EXCEPT !["control"] = b]
      PROVE  FewCore'
  BY <1>0, <1>1, FewAttended
<1>2. ASSUME st' = st, NEW jobs, jobs = job \/ jobs = NowIdle, FreeKicks # {},
             NEW name \in {"ended", "gather", "start-wave", "advance"},
             job' = Started(jobs, name)
      PROVE  FewCore'
  <2>1. PICK k \in FreeKicks : job' = [jobs EXCEPT ![k] = [IdleJob EXCEPT !.name = name]]
    BY <1>2, StartedIs
  <2>2. jobs \in [Job -> Jobs] /\ \A l \in KickId : jobs[l] = job[l]
    BY <1>0, <1>2, IdleIsJob DEF NowIdle
  <2>3. /\ k \in KickId /\ [IdleJob EXCEPT !.name = name].name = name
        /\ [IdleJob EXCEPT !.name = name].copy = Nothing
    BY StartedShape DEF FreeKicks
  <2>4. job'[k] = [IdleJob EXCEPT !.name = name] /\ \A l \in KickId \ {k} : job'[l] = job[l]
    BY <1>0, <2>1, <2>2, <2>3
  <2>5. job'[k].copy = Nothing /\ job'[k].name # "dispatch"
    BY <2>3, <2>4
  <2> QED
    BY <1>0, <1>2, <2>4, <2>5, FewAttended
<1>3. CASE StartAuto \/ Pause \/ Continue \/ Abort \/ Recover \/ Discard
  BY <1>1, <1>3 DEF StartAuto, Pause, Continue, Abort, Recover, Discard, Begin
<1>4. CASE Chat \/ Approve \/ CancelWork
  BY <1>1, <1>4 DEF Chat, Approve, CancelWork
<1>5. CASE ClickWave
  BY <1>2, <1>5 DEF ClickWave
<1>6. CASE PauseEnds \/ ResetEnds \/ GuideEnds \/ KickEnds
  <2>1. st' = st
    BY <1>6 DEF PauseEnds, ResetEnds, GuideEnds, KickEnds, Ended
  <2>2. CASE job' = NowIdle
    BY <1>1, <2>1, <2>2 DEF NowIdle
  <2>3. CASE job' # NowIdle
    BY <1>2, <1>6, <2>1, <2>3 DEF KickEnds, PauseEnds, ResetEnds, GuideEnds
  <2> QED
    BY <2>2, <2>3
<1>7. CASE StartInTurn
  <2>1. st' = st
    BY <1>7 DEF StartInTurn
  <2>2. CASE job' = job
    BY <1>1, <2>1, <2>2
  <2>3. CASE job' # job
    <3>1. PICK k \in FreeKicks : job' = [job EXCEPT ![k] = AutoStart]
      BY <1>7, <2>3 DEF StartInTurn
    <3>2. k \in KickId /\ job'[k] = AutoStart /\ \A l \in KickId \ {k} : job'[l] = job[l]
      BY <1>0, <3>1, NewNames DEF FreeKicks
    <3>3. job'[k].copy = Nothing /\ job'[k].name # "dispatch"
      BY <3>2, AutoStartIs
    <3> QED
      BY <1>0, <2>1, <3>2, <3>3, FewAttended
  <2> QED
    BY <2>2, <2>3
<1>8. ASSUME NEW k \in KickId, StartKick(k) PROVE FewCore'
  <2>1. /\ [IdleJob EXCEPT !.name = "gather"].name = "gather"
        /\ [IdleJob EXCEPT !.name = "gather"].copy = Nothing
    BY StartedShape
  <2>2. /\ st' = st /\ job'[k] = [IdleJob EXCEPT !.name = "gather"]
        /\ \A l \in KickId \ {k} : job'[l] = job[l]
    BY <1>0, <1>8, NewNames DEF StartKick
  <2>3. job'[k].copy = Nothing /\ job'[k].name # "dispatch"
    BY <2>1, <2>2
  <2> QED
    BY <1>0, <2>2, <2>3, FewAttended
<1>9. CASE Restart
  <2>1. \A k \in KickId : job'[k].name # "dispatch"
    BY <1>0, <1>9, IdleIsJob DEF Restart
  <2> QED
    BY <1>0, <2>1, FewFresh DEF Decided
<1> QED
  BY <1>3, <1>4, <1>5, <1>6, <1>7, <1>8, <1>9 DEF Human, Settles

LEMMA NextKeepsFew ==
  ASSUME TypeInv, TypeInv', ChainInv, NoneBeside, FewInv, [Next]_vars
  PROVE  FewInv'
<1> SUFFICES ASSUME ~crowded', TokenInv, FewCore, \A k \in KickId : job[k].name # "start"
             PROVE  FewCore'
  BY Uncrowded DEF FewInv, NoneBeside
<1>0. /\ job \in [Job -> Jobs] /\ KickId \subseteq Job /\ "control" \in Job
      /\ "control" \notin KickId /\ JobInv /\ StepsInv
  BY ConstantsAre DEF TypeInv, JobInv
<1>1. CASE UNCHANGED vars
  BY <1>1, FewKept DEF vars, Gone, Present
<1>2. ASSUME NEW j \in Job, Load(j) \/ Store(j) PROVE FewCore'
  <2>1. CASE Load(j)
    BY <2>1, FewLoads
  <2>2. CASE Store(j) /\ j \in KickId
    BY <2>2, FewKickStores
  <2>3. CASE Store(j) /\ j = "control"
    BY <2>3, FewControlStores
  <2> QED
    BY <1>2, <2>1, <2>2, <2>3 DEF Job
<1>3. ASSUME UNCHANGED <<status, st, rounds>>, NEW k \in KickId, NEW b, b.copy = Nothing,
             b.name # "dispatch", job' = [job EXCEPT ![k] = b]
      PROVE  FewCore'
  <2>1. /\ job'[k] = b /\ \A l \in KickId \ {k} : job'[l] = job[l]
        /\ job'["control"] = job["control"]
    BY <1>0, <1>3, NewNames
  <2>2. \A l \in KickId : job'[l].name # "dispatch" \/ job'[l] = job[l]
    BY <1>3, <2>1
  <2>3. \A l \in KickId : job'[l].copy = Nothing \/ job'[l] = job[l]
    BY <1>3, <2>1
  <2> QED
    BY <1>3, <2>1, <2>2, <2>3, FewKept DEF Gone, Present
<1>4. ASSUME NEW k \in KickId, DispatchFails(k) PROVE FewCore'
  <2> DEFINE b == [job[k] EXCEPT !.name = "failed", !.todo = <<"pause">>]
  <2>1. b.copy = Nothing /\ b.name # "dispatch"
    BY <1>0, <1>4, QuietHoldsNothing DEF DispatchFails, Written, Jobs
  <2>2. UNCHANGED <<status, st, rounds>> /\ job' = [job EXCEPT ![k] = b]
    BY <1>4 DEF DispatchFails, bundle, human
  <2> HIDE DEF b
  <2> QED
    BY <1>3, <2>1, <2>2
<1>5. ASSUME NEW k \in KickId, EndKick(k) \/ EndWave(k) \/ DispatchItem(k) PROVE FewCore'
  BY <1>3, <1>5, IdleIsJob, GivenUpIs DEF EndKick, EndWave, DispatchItem, bundle, human
<1>6. ASSUME NEW k \in KickId, StartWave(k) PROVE FewCore'
  <2>1. [job[k] EXCEPT !.name = "advance"].name = "advance"
        /\ [job[k] EXCEPT !.name = "advance"].copy = Nothing
    BY <1>0, <1>6, QuietHoldsNothing DEF StartWave, Quiet, Jobs
  <2>2. UNCHANGED <<status, st, rounds>>
    BY <1>6 DEF StartWave, bundle, human
  <2>3. CASE job' = [job EXCEPT ![k] = IdleJob]
    BY <1>3, <2>2, <2>3, IdleIsJob
  <2>4. CASE job' = [job EXCEPT ![k] = [job[k] EXCEPT !.name = "advance"]]
    BY <1>3, <2>1, <2>2, <2>4
  <2> QED
    BY <1>6, <2>3, <2>4 DEF StartWave
<1>7. ASSUME NEW k \in KickId, Advance(k) PROVE FewCore'
  <2>1. \A f : /\ Decision("wave", <<"wave">>, Command("implement", f)).name # "dispatch"
               /\ Decision("wave", <<"wave">>, Command("implement", f)).copy = Nothing
    BY DEF Decision
  <2>2. UNCHANGED <<status, st, rounds>>
    BY <1>7 DEF Advance, bundle, human
  <2>3. \E b : b.copy = Nothing /\ b.name # "dispatch" /\ job' = [job EXCEPT ![k] = b]
    BY <1>7, <2>1, IdleIsJob, GivenUpIs DEF Advance
  <2> QED
    BY <1>3, <2>2, <2>3
<1>8. ASSUME NEW k \in KickId, AgentEnd(k) PROVE FewCore'
  <2>1. UNCHANGED <<status, st, rounds>>
    BY <1>8 DEF AgentEnd, bundle, human
  <2>2. [IdleJob EXCEPT !.name = "advance"].name # "dispatch"
        /\ [IdleJob EXCEPT !.name = "advance"].copy = Nothing
    BY StartedShape
  <2>3. \E b : b.copy = Nothing /\ b.name # "dispatch" /\ job' = [job EXCEPT ![k] = b]
    BY <1>8, <2>2, IdleIsJob DEF AgentEnd
  <2> QED
    BY <1>3, <2>1, <2>3
<1>9. CASE StartTurn
  BY <1>9, FewKept DEF StartTurn, bundle, human, Gone, Present
<1>10. CASE EndTurn
  <2>1. /\ FreeKicks # {} /\ job' = Started(job, "ended") /\ autoSteps' = autoSteps
        /\ UNCHANGED <<status, st, rounds>>
    BY <1>10 DEF EndTurn, bundle, human
  <2>2. PICK k \in FreeKicks : /\ job'[k].name = "ended" /\ job'[k].copy = Nothing
                               /\ \A i \in KickId \ {k} : job'[i] = job[i]
                               /\ job'["control"] = job["control"]
    BY <1>0, <2>1, StartedTypes
  <2>3. \A l \in KickId : job'[l].name # "dispatch" \/ job'[l] = job[l]
    BY <2>2
  <2>4. \A l \in KickId : job'[l].copy = Nothing \/ job'[l] = job[l]
    BY <2>2
  <2> QED
    BY <2>1, <2>2, <2>3, <2>4, FewKept DEF Gone, Present
<1> QED
  BY <1>1, <1>2, <1>4, <1>5, <1>6, <1>7, <1>8, <1>9, <1>10, FewGathers, FewDispatches,
     FewWorks, FewHuman
  DEF Next, Runtime

\* Left alone, one chain never asks for more than max_review_iterations reviews of a
\* feature, although a review writes no strike itself and the writes of the driver and of
\* the control strip cross (pi-tools.mjs:382-409), whatever the human clicks meanwhile.
THEOREM FewRoundsOfReview == Spec => []FewRounds
<1>1. Init => ChainInv /\ NoneBeside /\ FewInv
  <2> SUFFICES ASSUME Init PROVE FewInv
    BY InitChains
  <2>1. /\ \A j \in Job : job[j] = IdleJob
        /\ \A f \in Feature : st.strikes[f] = 0 /\ rounds[f] = 0
    BY DEF Init, NoStrikes
  <2>2. KickFiles = {st}
    BY <2>1, IdleIsJob, ConstantsAre DEF KickFiles
  <2>5. CalmRounds /\ \A f \in Feature : rounds[f] <= MaxReviews
    BY <2>1, IdleIsJob, ConstantsAre DEF CalmRounds, Beginnings
  <2>6. Verdicts /\ \A k \in KickId : Decided(job[k])
    BY <2>1, <2>2, IdleIsJob, ConstantsAre DEF Verdicts, Within, Decided
  <2> QED
    BY <2>5, <2>6 DEF FewInv, FewCore
<1>2. TypeInv /\ TypeInv' /\ ChainInv /\ NoneBeside /\ FewInv /\ [Next]_vars
        => ChainInv' /\ NoneBeside' /\ FewInv'
  BY NextKeepsChains, NextKeepsNoneBeside, NextKeepsFew
<1>3. FewInv => FewRounds
  BY DEF FewInv, FewCore, FewRounds
<1> QED
  BY <1>1, <1>2, <1>3, TypeInvHolds, PTL DEF Spec
-----------------------------------------------------------------------------
(***************************************************************************)
(* One feature waits for its review.                                       *)
(***************************************************************************)

Unreviewed == {f \in Present : status[f] = "implemented"}

NoWaveYet == waveLog.snapshot = <<>>

WaveLess ==
  wave = NoWave /\ \A k \in KickId : job[k].name \notin {"advance", "wave", "waved"}

AtMostOne == \A f, g \in Unreviewed : f = g

\* An escalation is shown, or one is that a job still holds.
Raised(s) == s.phase = "escalated" /\ s.escalation # None

\* The feature that a file names as under review is the one that waits, or is done.
FollowsUp(s) ==
  s.phase = "reviewing" /\ s.active \in Present =>
    status[s.active] = "done" \/ Unreviewed = {s.active}

ReviewNext == \A s \in Files : FollowsUp(s)

\* While an escalation is shown, nothing implements.
Calm ==
  /\ Raised(st) /\ st.paused
  /\ st.escalation \in Feature => Unreviewed \subseteq {st.escalation}
  /\ turn.step # "implement" /\ \A i \in DOMAIN queue : queue[i].step # "implement"
  /\ \A k \in KickId :
       /\ job[k].name \in {"idle", "ended", "gather", "escalate", "start-wave"}
       /\ job[k].todo = <<>>

HandsUp == \A s \in Files : Raised(s) => Calm /\ st.escalation = s.escalation

\* What the driver decides is about the feature that waits.
OneDecided(b) ==
  /\ b.name = "dispatch" =>
       /\ b.cmd.step = "implement" => Unreviewed \subseteq {b.cmd.feature}
       /\ b.cmd.step = "review" /\ b.todo # <<>> =>
            b.cmd.feature \notin Present \/ Unreviewed = {b.cmd.feature}
       /\ b.cmd.step = "plan-review" => b.cmd.feature = None
  /\ b.name = "escalate" /\ b.cmd.feature \in Feature => Unreviewed \subseteq {b.cmd.feature}

OneTurn ==
  /\ turn.step = "implement" => Unreviewed \subseteq {turn.feature}
  /\ \A i \in DOMAIN queue :
       queue[i].step = "implement" => Unreviewed \subseteq {queue[i].feature}

\* So is what the human answers to an escalation.
Advice(c) ==
  /\ c.name = "guide" /\ c.cmd.feature \in Feature => Unreviewed \subseteq {c.cmd.feature}
  /\ c.name \in {"guide", "restart"} /\ c.todo # <<>> => Raised(st)
  /\ c.name = "discard" => Raised(st)
  /\ c.name = "guide" /\ c.todo = <<>> => ~Raised(st)

OneCore ==
  /\ WaveLess /\ AtMostOne /\ ReviewNext /\ HandsUp
  /\ \A k \in KickId : OneDecided(job[k])
  /\ OneTurn /\ Advice(job["control"])

OneInv == ~crowded /\ NoWaveYet => OneCore

\* The job has at most loaded its file.
Same(b, c) == b.name = c.name /\ b.todo = c.todo /\ b.cmd = c.cmd

\* Features leave the ones that wait only by being done or cancelled.
Shrinks ==
  /\ Present' \subseteq Present /\ Unreviewed' \subseteq Unreviewed
  /\ \A f \in Present' : status[f] = "done" => status'[f] = "done"
  /\ \A f \in Unreviewed \ Unreviewed' : f \in Present' => status'[f] = "done"

LEMMA NothingShrinks ==
  ASSUME status' = status
  PROVE  /\ Shrinks /\ Present' = Present
         /\ Unreviewed' = Unreviewed /\ Unreviewed' = Unreviewed \cap Present'
BY DEF Shrinks, Unreviewed, Present

\* Steps that decide nothing, dispatch nothing and leave state.md alone.
LEMMA OneKept ==
  ASSUME TypeInv, OneCore, wave' = NoWave, st' = st, Files' \subseteq Files, Shrinks,
         \A k \in KickId :
           \/ /\ Same(job'[k], job[k])
              /\ job[k].name = "dispatch" => Unreviewed' = Unreviewed \cap Present'
           \/ job'[k].name \in {"idle", "ended", "gather", "start-wave"} /\ job'[k].todo = <<>>,
         turn'.step = "implement" =>
           \/ turn.step = "implement" /\ turn'.feature = turn.feature
           \/ \E i \in DOMAIN queue : queue[i].step = "implement"
                                      /\ turn'.feature = queue[i].feature,
         \A i \in DOMAIN queue' : queue'[i].step = "implement" =>
           \E n \in DOMAIN queue : queue[n] = queue'[i],
         \/ Same(job'["control"], job["control"])
         \/ job'["control"].name \notin {"guide", "restart", "discard"}
  PROVE  OneCore'
<1>1. WaveLess' /\ AtMostOne'
  BY DEF OneCore, WaveLess, AtMostOne, Same, Shrinks
<1>2. \A s : FollowsUp(s) => FollowsUp(s)'
  <2> SUFFICES ASSUME NEW s, FollowsUp(s), s.phase = "reviewing", s.active \in Present'
               PROVE  status'[s.active] = "done" \/ Unreviewed' = {s.active}
    BY DEF FollowsUp
  <2>1. s.active \in Present
    BY DEF Shrinks
  <2>2. CASE status[s.active] = "done"
    BY <2>2 DEF Shrinks
  <2>3. CASE Unreviewed = {s.active}
    BY <2>3 DEF Shrinks
  <2> QED
    BY <2>1, <2>2, <2>3 DEF FollowsUp
<1>3. ReviewNext'
  BY <1>2 DEF OneCore, ReviewNext
<1>4. HandsUp'
  <2> SUFFICES ASSUME NEW s \in Files', Raised(s) PROVE Calm' /\ st'.escalation = s.escalation
    BY DEF HandsUp, Raised
  <2>1. Calm /\ st'.escalation = s.escalation
    BY DEF OneCore, HandsUp
  <2>2. /\ Raised(st)' /\ st'.paused
        /\ st'.escalation \in Feature => Unreviewed' \subseteq {st'.escalation}
    BY <2>1 DEF Calm, Raised, Shrinks
  <2>3. turn'.step # "implement" /\ \A i \in DOMAIN queue' : queue'[i].step # "implement"
    BY <2>1 DEF Calm
  <2>4. \A k \in KickId :
          /\ job'[k].name \in {"idle", "ended", "gather", "escalate", "start-wave"}
          /\ job'[k].todo = <<>>
    BY <2>1 DEF Calm, Same
  <2> QED
    BY <2>1, <2>2, <2>3, <2>4 DEF Calm
<1>5. ASSUME NEW k \in KickId PROVE OneDecided(job[k])'
  <2>1. CASE /\ Same(job'[k], job[k])
             /\ job[k].name = "dispatch" => Unreviewed' = Unreviewed \cap Present'
    BY <2>1 DEF OneCore, OneDecided, Same, Shrinks
  <2>2. CASE job'[k].name \in {"idle", "ended", "gather", "start-wave"}
    BY <2>2 DEF OneDecided
  <2> QED
    BY <2>1, <2>2
<1>6. OneTurn'
  BY DEF OneCore, OneTurn, Shrinks
<1>7. Advice(job["control"])'
  <2>1. CASE Same(job'["control"], job["control"])
    BY <2>1 DEF OneCore, Advice, Same, Shrinks, Raised
  <2>2. CASE job'["control"].name \notin {"guide", "restart", "discard"}
    BY <2>2 DEF Advice
  <2> QED
    BY <2>1, <2>2
<1> QED
  BY <1>1, <1>3, <1>4, <1>5, <1>6, <1>7 DEF OneCore

\* The driver decides about the feature that waits for its review, if there is one.
LEMMA DecidesForOne ==
  ASSUME TypeInv, OneCore, NEW k \in KickId
  PROVE  /\ OneDecided(Counted(NextAutoAction))
         /\ Counted(NextAutoAction).copy = Nothing
         /\ Counted(NextAutoAction).name \in {"idle", "dispatch", "escalate", "finish"}
         /\ ~Driven => Counted(NextAutoAction) = IdleJob
<1>1. /\ \A name, todo, cmd : /\ Decision(name, todo, cmd).name = name
                              /\ Decision(name, todo, cmd).todo = todo
                              /\ Decision(name, todo, cmd).cmd = cmd
      /\ \A step, f : Command(step, f).step = step /\ Command(step, f).feature = f
  BY DEF Decision, Command
<1>2. /\ \A f : Escalate(f).name = "escalate" /\ Escalate(f).cmd.feature = f
      /\ Finish.name = "finish"
      /\ \A step, f : /\ Dispatch(step, f).todo = <<"mark">>
                      /\ Dispatch(step, f).name = "dispatch"
                      /\ Dispatch(step, f).cmd.step = step
                      /\ Dispatch(step, f).cmd.feature = f
  BY <1>1 DEF Escalate, Finish, Dispatch
<1>3. NeedsWork => Unreviewed = {st.active}
  BY FilesAre DEF OneCore, ReviewNext, FollowsUp, FileTypes, NeedsWork
<1>4. OneDecided(NextAutoAction)
  <2>1. CASE NextAutoAction = IdleJob /\ ~Driven
    BY <2>1, IdleIsJob DEF OneDecided
  <2>2. CASE NeedsWork /\ NextAutoAction = Escalate(st.active)
    BY <1>2, <1>3, <2>2 DEF OneDecided
  <2>3. CASE NeedsWork /\ NextAutoAction = Decision("dispatch", <<"strike", "mark">>,
                                                    Command("implement", st.active))
    BY <1>1, <1>3, <2>3 DEF OneDecided
  <2>4. CASE /\ Awaiting \in Present /\ status[Awaiting] = "implemented"
             /\ NextAutoAction = Dispatch("review", Awaiting)
    <3>1. Unreviewed = {Awaiting}
      BY <2>4 DEF OneCore, AtMostOne, Unreviewed
    <3> QED
      BY <1>2, <2>4, <3>1 DEF OneDecided
  <2>5. CASE /\ \A f \in Present : status[f] # "implemented"
             /\ \/ \E f \in Feature \cup {Everything} : NextAutoAction = Escalate(f)
                \/ \E step \in {"test", "implement", "plan-review"} :
                     \E f \in Feature \cup {None} :
                       NextAutoAction = Dispatch(step, f) /\ (step = "plan-review" => f = None)
                \/ NextAutoAction = Finish
    <3>1. Unreviewed = {}
      BY <2>5 DEF Unreviewed
    <3> QED
      BY <1>2, <2>5, <3>1 DEF OneDecided
  <2> QED
    BY <2>1, <2>2, <2>3, <2>4, <2>5, NextActionCases DEF TypeInv
<1>5. OneDecided(Escalate(Everything))
  BY <1>2, ConstantsAre DEF OneDecided
<1>6. /\ Counted(NextAutoAction) = Escalate(Everything) \/ Counted(NextAutoAction) = NextAutoAction
      /\ Counted(NextAutoAction).copy = Nothing
      /\ Counted(NextAutoAction).name \in {"idle", "dispatch", "escalate", "finish"}
  BY NextActionShape DEF TypeInv
<1>7. ~Driven => NextAutoAction = IdleJob /\ Counted(NextAutoAction) = NextAutoAction
  BY IdleIsJob DEF NextAutoAction, Counted
<1> QED
  BY <1>4, <1>5, <1>6, <1>7

LEMMA OneGathers ==
  ASSUME TypeInv, TokenInv, OneCore, NEW k \in KickId, Gather(k)
  PROVE  OneCore'
<1> DEFINE d == Counted(NextAutoAction)
<1>0. /\ job[k].name \in {"gather", "ended"} /\ job' = [job EXCEPT ![k] = d]
      /\ UNCHANGED <<status, st, turn, queue, wave>>
      /\ job \in [Job -> Jobs] /\ KickId \subseteq Job /\ "control" \in Job
      /\ "control" \notin KickId
  BY ConstantsAre DEF Gather, bundle, agent, waves, TypeInv, JobInv
<1>1. /\ job'["control"] = job["control"] /\ job'[k] = d
      /\ \A l \in KickId \ {k} : job'[l] = job[l] /\ job[l].name = "idle"
  BY <1>0, AloneKick, NewNames
<1>2. /\ OneDecided(d) /\ d.copy = Nothing
      /\ d.name \in {"idle", "dispatch", "escalate", "finish"}
      /\ ~Driven => d = IdleJob
  BY DecidesForOne
<1> HIDE DEF d
<1>3. /\ Files' \subseteq Files /\ Shrinks /\ Present' = Present
      /\ Unreviewed' = Unreviewed /\ Unreviewed' = Unreviewed \cap Present'
  BY <1>0, <1>1, <1>2, NothingShrinks DEF Files, Job
<1>4. CASE d = IdleJob
  <2>1. wave' = NoWave /\ Same(job'["control"], job["control"])
    BY <1>0, <1>1 DEF OneCore, WaveLess, Same
  <2>2. \A l \in KickId : \/ Same(job'[l], job[l])
                          \/ job'[l].name = "idle" /\ job'[l].todo = <<>>
    BY <1>1, <1>4, IdleIsJob DEF Same
  <2> QED
    BY <1>0, <1>3, <2>1, <2>2, OneKept
<1>5. CASE Driven
  <2>1. \A s \in Files' : ~Raised(s)
    BY <1>3, <1>5 DEF OneCore, HandsUp, Calm, Driven
  <2>2. WaveLess' /\ AtMostOne'
    BY <1>0, <1>1, <1>2, <1>3 DEF OneCore, WaveLess, AtMostOne
  <2>3. ReviewNext' /\ HandsUp'
    BY <1>0, <1>3, <2>1 DEF OneCore, ReviewNext, FollowsUp, HandsUp, Present, Raised
  <2>4. ASSUME NEW l \in KickId PROVE OneDecided(job[l])'
    BY <1>1, <1>2, <1>3 DEF OneCore, OneDecided
  <2>5. OneTurn' /\ Advice(job["control"])'
    BY <1>0, <1>1, <1>3 DEF OneCore, OneTurn, Advice, Raised
  <2> QED
    BY <2>2, <2>3, <2>4, <2>5 DEF OneCore
<1> QED
  BY <1>2, <1>4, <1>5

LEMMA OneLoads ==
  ASSUME TypeInv, OneCore, NEW j \in Job, Load(j)
  PROVE  OneCore'
<1>0. job \in [Job -> Jobs] /\ KickId \subseteq Job /\ "control" \in Job
  BY ConstantsAre DEF TypeInv, JobInv
<1>1. /\ job'[j].copy = st /\ \A i \in Job \ {j} : job'[i] = job[i]
      /\ \A i \in Job : Same(job'[i], job[i])
  BY <1>0 DEF Load, Jobs, Same
<1>2. UNCHANGED <<st, status, turn, queue>> /\ wave' = NoWave
  BY DEF Load, bundle, agent, waves, OneCore, WaveLess
<1>3. Files' \subseteq Files /\ Shrinks /\ Unreviewed' = Unreviewed \cap Present'
  BY <1>0, <1>1, <1>2, NothingShrinks DEF Files
<1> QED
  BY <1>0, <1>1, <1>2, <1>3, OneKept

\* What the steps of the driver write, for the phase and the escalation.
LEMMA KickPhases ==
  ASSUME NEW s \in States, NEW cmd,
         NEW patch \in {"strike", "mark", "escalated", "finished", "wave", "waved", "pause"}
  PROVE  LET t == Patched(s, patch, cmd)
         IN  /\ patch = "escalated" => /\ t.phase = "escalated" /\ t.paused
                                       /\ t.escalation = cmd.feature
             /\ patch # "escalated" => ~Raised(t) \/ Raised(s)
             /\ t.phase = "reviewing" =>
                  \/ t.phase = s.phase /\ t.active = s.active
                  \/ patch = "mark" /\ t.active = cmd.feature
                       /\ cmd.step \notin {"test", "implement"}
<1>1. CASE patch = "strike"
  <2>1. Patched(s, patch, cmd) = [s EXCEPT !.strikes[cmd.feature] = @ + 1]
    BY <1>1 DEF Patched
  <2> QED
    BY <1>1, <2>1 DEF States, Raised
<1>2. CASE patch = "mark"
  <2>1. Patched(s, patch, cmd) = [s EXCEPT !.phase = PhaseOf(cmd.step), !.active = cmd.feature]
    BY <1>2 DEF Patched
  <2>2. /\ PhaseOf(cmd.step) # "escalated"
        /\ PhaseOf(cmd.step) = "reviewing" => cmd.step \notin {"test", "implement"}
    BY DEF PhaseOf
  <2> QED
    BY <1>2, <2>1, <2>2 DEF States, Raised
<1>3. CASE patch = "escalated"
  <2>1. Patched(s, patch, cmd) = [s EXCEPT !.phase = "escalated", !.paused = TRUE,
                                           !.escalation = cmd.feature]
    BY <1>3 DEF Patched
  <2> QED
    BY <1>3, <2>1 DEF States
<1>4. CASE patch = "finished"
  <2>1. Patched(s, patch, cmd) = [s EXCEPT !.mode = "manual", !.paused = FALSE,
                                           !.phase = "done", !.active = None]
    BY <1>4 DEF Patched
  <2> QED
    BY <1>4, <2>1 DEF States, Raised
<1>5. CASE patch = "wave"
  <2>1. Patched(s, patch, cmd) = [s EXCEPT !.mode = "manual", !.paused = FALSE,
                                           !.phase = "implementing", !.active = cmd.feature]
    BY <1>5 DEF Patched
  <2> QED
    BY <1>5, <2>1 DEF States, Raised
<1>6. CASE patch = "waved"
  <2>1. Patched(s, patch, cmd) = [s EXCEPT !.mode = "manual", !.paused = FALSE,
                                           !.phase = "idle", !.active = None]
    BY <1>6 DEF Patched
  <2> QED
    BY <1>6, <2>1 DEF States, Raised
<1>7. CASE patch = "pause"
  <2>1. Patched(s, patch, cmd) = [s EXCEPT !.paused = TRUE]
    BY <1>7 DEF Patched
  <2> QED
    BY <1>7, <2>1 DEF States, Raised
<1> QED
  BY <1>1, <1>2, <1>3, <1>4, <1>5, <1>6, <1>7

LEMMA OneKickStores ==
  ASSUME TypeInv, TokenInv, OneCore, NEW k \in KickId, job[k].name # "start", Store(k)
  PROVE  OneCore'
<1> DEFINE c == job[k].copy
           cmd == job[k].cmd
           patch == Head(job[k].todo)
<1>0. /\ c \in Files /\ c \in States /\ st' = Patched(c, patch, cmd)
      /\ job[k].name # "idle" /\ job[k].todo # <<>>
      /\ patch \in {"strike", "mark", "escalated", "finished", "wave", "waved", "pause"}
      /\ Files' \subseteq {st'} \cup Files
      /\ job'["control"] = job["control"]
      /\ UNCHANGED <<status, turn, queue>>
      /\ job'[k].name = job[k].name /\ job'[k].cmd = cmd
      /\ job'[k].todo = Tail(job[k].todo) /\ job'[k].copy = Nothing
  BY KickStores
<1>1. \A l \in KickId \ {k} : job'[l] = job[l] /\ job[l].name = "idle"
  BY KickStores
<1>2. /\ Shape(k, job[k]) /\ \A l \in KickId : job[l].name = "idle" => job[l].todo = <<>>
      /\ KickId \subseteq Job
  BY ConstantsAre DEF TypeInv, JobInv, Shape, Quiet
<1>3. \/ job[k].name = "dispatch"
      \/ patch # "mark" /\ job'[k].todo = <<>>
  BY KickStores
<1>4. patch = "escalated" => job[k].name = "escalate" /\ job'[k].todo = <<>>
  <2>1. job[k].name \notin Single /\ k \in Job
    BY <1>2, ConstantsAre DEF Shape, KickNames, Single
  <2> QED
    BY <1>0, <1>2, <2>1, WritesAre
<1>5. wave' = NoWave
  BY DEF Store, waves, OneCore, WaveLess
<1>6. turn = NoTurn /\ queue = <<>> /\ job["control"].name \notin Beginnings
  BY <1>0, AloneKick
<1> HIDE DEF c, cmd, patch
<1>7. /\ patch = "escalated" => /\ st'.phase = "escalated" /\ st'.paused
                                /\ st'.escalation = cmd.feature
      /\ patch # "escalated" => ~Raised(st') \/ Raised(c)
      /\ st'.phase = "reviewing" =>
           \/ st'.phase = c.phase /\ st'.active = c.active
           \/ /\ patch = "mark" /\ st'.active = cmd.feature
              /\ cmd.step \notin {"test", "implement"}
  BY <1>0, KickPhases
<1>8. \A s \in Files : ~Raised(s)
  BY <1>0 DEF OneCore, HandsUp, Calm
<1>9. Unreviewed' = Unreviewed /\ Present' = Present
  BY <1>0 DEF Unreviewed, Present
<1>10. WaveLess' /\ AtMostOne'
  BY <1>0, <1>1, <1>5, <1>9 DEF OneCore, WaveLess, AtMostOne
<1>11. ReviewNext'
  <2>1. \A s : FollowsUp(s)' <=> FollowsUp(s)
    BY <1>0, <1>9 DEF FollowsUp
  <2>2. FollowsUp(c)
    BY <1>0 DEF OneCore, ReviewNext
  <2>3. FollowsUp(st')
    <3>1. CASE st'.phase = c.phase /\ st'.active = c.active
      BY <2>2, <3>1 DEF FollowsUp
    <3>2. CASE /\ patch = "mark" /\ st'.active = cmd.feature
               /\ cmd.step \notin {"test", "implement"}
      <4>1. job[k].name = "dispatch" /\ OneDecided(job[k])
        BY <1>3, <3>2 DEF OneCore
      <4>2. cmd.step \in {"review", "plan-review"}
        BY <1>2, <3>2, <4>1 DEF Shape, Steps, cmd
      <4>3. cmd.step = "review" => cmd.feature \notin Present \/ Unreviewed = {cmd.feature}
        BY <1>0, <4>1 DEF OneDecided, cmd
      <4>4. cmd.step = "plan-review" => cmd.feature \notin Present
        BY <4>1, ConstantsAre DEF OneDecided, cmd, TypeInv, BundleTypes, Present
      <4> QED
        BY <3>2, <4>2, <4>3, <4>4 DEF FollowsUp
    <3> QED
      BY <1>7, <3>1, <3>2 DEF FollowsUp
  <2> QED
    BY <1>0, <2>1, <2>3 DEF OneCore, ReviewNext
<1>12. HandsUp'
  <2> SUFFICES ASSUME NEW s \in Files', Raised(s) PROVE Calm' /\ st'.escalation = s.escalation
    BY DEF HandsUp, Raised
  <2>1. s = st'
    BY <1>0, <1>8
  <2>2. patch = "escalated"
    BY <1>0, <1>7, <1>8, <2>1
  <2>3. /\ Raised(st') /\ st'.paused
        /\ st'.escalation \in Feature => Unreviewed' \subseteq {st'.escalation}
    BY <1>4, <1>7, <1>9, <2>1, <2>2 DEF OneCore, OneDecided, cmd
  <2>4. turn'.step # "implement" /\ \A i \in DOMAIN queue' : queue'[i].step # "implement"
    BY <1>0, <1>6, NoTurnTypes
  <2>5. \A l \in KickId :
          /\ job'[l].name \in {"idle", "ended", "gather", "escalate", "start-wave"}
          /\ job'[l].todo = <<>>
    BY <1>0, <1>1, <1>2, <1>4, <2>2
  <2> QED
    BY <2>1, <2>3, <2>4, <2>5 DEF Calm, Raised
<1>13. ASSUME NEW l \in KickId PROVE OneDecided(job[l])'
  <2>1. CASE l = k
    <3>1. OneDecided(job[k])
      BY DEF OneCore
    <3> QED
      BY <1>0, <1>9, <2>1, <3>1 DEF OneDecided, cmd
  <2>2. CASE l # k
    BY <1>1, <2>2 DEF OneDecided
  <2> QED
    BY <2>1, <2>2
<1>14. OneTurn'
  BY <1>0, <1>9 DEF OneCore, OneTurn
<1>15. Advice(job["control"])'
  BY <1>0, <1>6 DEF Advice, Beginnings
<1> QED
  BY <1>10, <1>11, <1>12, <1>13, <1>14, <1>15 DEF OneCore

LEMMA OneControlStores ==
  ASSUME TypeInv, TokenInv, OneCore, Store("control")
  PROVE  OneCore'
<1> DEFINE c == job["control"]
<1>0. /\ c.name \in Single /\ c.copy \in Files /\ c.copy \in States
      /\ st' = Patched(c.copy, c.name, c.cmd)
      /\ job'["control"].name = c.name /\ job'["control"].cmd = c.cmd
      /\ job'["control"].todo = <<>> /\ job'["control"].copy = Nothing
      /\ \A k \in KickId : job'[k] = job[k]
      /\ Files' \subseteq {st'} \cup Files
      /\ UNCHANGED <<status, turn, queue>>
  BY ControlStores
<1>1. /\ c.name \notin {"pause", "reset"} => st'.escalation = None
      /\ c.name \notin {"pause", "reset", "continue"} => st'.phase = "implementing"
      /\ c.name = "continue" => st'.phase = c.copy.phase /\ st'.active = c.copy.active
      /\ c.name = "reset" => st'.phase = "idle" /\ st'.escalation = None
      /\ c.name = "pause" => /\ st'.phase = c.copy.phase /\ st'.active = c.copy.active
                             /\ st'.escalation = c.copy.escalation /\ st'.paused
  BY <1>0, ControlPatch
<1>2. wave' = NoWave
  BY DEF Store, waves, OneCore, WaveLess
<1>3. Unreviewed' = Unreviewed /\ Present' = Present
  BY <1>0 DEF Unreviewed, Present
<1>4. WaveLess' /\ AtMostOne' /\ OneTurn'
  BY <1>0, <1>2, <1>3 DEF OneCore, WaveLess, AtMostOne, OneTurn
<1>5. ReviewNext'
  <2>1. \A s : FollowsUp(s)' <=> FollowsUp(s)
    BY <1>0, <1>3 DEF FollowsUp
  <2>2. FollowsUp(c.copy)
    BY <1>0 DEF OneCore, ReviewNext
  <2>3. FollowsUp(st')
    BY <1>1, <2>2 DEF FollowsUp
  <2> QED
    BY <1>0, <2>1, <2>3 DEF OneCore, ReviewNext
\* What is raised is what is stored: no other job holds anything then.
<1>6. ASSUME NEW s \in Files', Raised(s) PROVE s = st'
  <2> SUFFICES ASSUME s # st' PROVE FALSE
    OBVIOUS
  <2>1. Calm
    BY <1>0, <1>6 DEF OneCore, HandsUp
  <2>2. \A k \in KickId : job'[k].copy = Nothing
    BY <1>0, <2>1, QuietHoldsNothing, ConstantsAre DEF Calm
  <2> QED
    BY <1>0, <1>6, <2>2 DEF Files, Job
<1>7. HandsUp'
  <2> SUFFICES ASSUME NEW s \in Files', Raised(s) PROVE Calm' /\ st'.escalation = s.escalation
    BY DEF HandsUp, Raised
  <2>1. s = st' /\ c.name = "pause"
    BY <1>0, <1>1, <1>6 DEF Raised
  <2>2. Raised(c.copy)
    BY <1>1, <2>1 DEF Raised
  <2>3. Calm /\ st.escalation = c.copy.escalation
    BY <1>0, <2>2 DEF OneCore, HandsUp
  <2>4. st'.escalation = st.escalation /\ st'.paused
    BY <1>1, <2>1, <2>3
  <2> QED
    BY <1>0, <1>3, <2>1, <2>3, <2>4 DEF Calm, Raised
<1>8. ASSUME NEW k \in KickId PROVE OneDecided(job[k])'
  BY <1>0, <1>3 DEF OneCore, OneDecided
<1>9. Advice(job["control"])'
  <2>1. c.name = "guide" => ~Raised(st)'
    BY <1>1 DEF Raised
  <2>2. c.name # "discard"
    BY <1>0 DEF Single
  <2> QED
    BY <1>0, <1>3, <2>1, <2>2 DEF OneCore, Advice
<1> QED
  BY <1>4, <1>5, <1>7, <1>8, <1>9 DEF OneCore

LEMMA OneDispatches ==
  ASSUME TypeInv, TokenInv, OneCore, NEW k \in KickId, DispatchStep(k) \/ DispatchFails(k)
  PROVE  OneCore'
<1>0. /\ job[k].name = "dispatch" /\ job[k].todo = <<>>
      /\ UNCHANGED <<status, st, turn, wave>>
      /\ job \in [Job -> Jobs] /\ KickId \subseteq Job /\ "control" \in Job
      /\ "control" \notin KickId /\ Shape(k, job[k])
  BY ConstantsAre
  DEF DispatchStep, DispatchFails, Written, bundle, agent, waves, TypeInv, JobInv
<1>1. \E b : /\ b.copy = Nothing /\ b.name \in {"idle", "failed"}
             /\ job' = [job EXCEPT ![k] = b]
  <2>1. CASE DispatchStep(k)
    BY <2>1, IdleIsJob DEF DispatchStep
  <2>2. CASE DispatchFails(k)
    <3> DEFINE b == [job[k] EXCEPT !.name = "failed", !.todo = <<"pause">>]
    <3>1. b.name = "failed" /\ b.copy = Nothing
      BY <1>0, QuietHoldsNothing DEF Jobs
    <3>2. job' = [job EXCEPT ![k] = b]
      BY <2>2 DEF DispatchFails
    <3> HIDE DEF b
    <3> QED
      BY <3>1, <3>2
  <2> QED
    BY <2>1, <2>2
<1>2. /\ job'[k].copy = Nothing /\ job'[k].name \in {"idle", "failed"}
      /\ job'["control"] = job["control"]
      /\ \A l \in KickId \ {k} : job'[l] = job[l] /\ job[l].name = "idle"
  BY <1>0, <1>1, AloneKick, NewNames
<1>3. turn = NoTurn /\ queue = <<>>
  BY <1>0, AloneKick
<1>4. Files' \subseteq Files /\ Unreviewed' = Unreviewed /\ Present' = Present
  BY <1>0, <1>2 DEF Files, Job, Unreviewed, Present
<1>5. \A s \in Files : ~Raised(s)
  BY <1>0 DEF OneCore, HandsUp, Calm
<1>6. WaveLess' /\ AtMostOne' /\ HandsUp'
  BY <1>0, <1>2, <1>4, <1>5 DEF OneCore, WaveLess, AtMostOne, HandsUp, Raised
<1>7. ReviewNext'
  BY <1>0, <1>4 DEF OneCore, ReviewNext, FollowsUp
<1>8. ASSUME NEW l \in KickId PROVE OneDecided(job[l])'
  BY <1>2 DEF OneDecided
<1>9. Advice(job["control"])'
  BY <1>0, <1>2, <1>4 DEF OneCore, Advice, Raised
<1>10. OneTurn'
  <2>1. turn'.step # "implement"
    BY <1>0, <1>3, NoTurnTypes
  <2>2. CASE queue' = queue
    BY <1>3, <2>1, <2>2 DEF OneTurn
  <2>3. CASE queue' = Append(queue, job[k].cmd)
    <3>1. queue' = <<job[k].cmd>>
      BY <1>3, <2>3
    <3>2. job[k].cmd.step = "implement" => Unreviewed \subseteq {job[k].cmd.feature}
      BY <1>0 DEF OneCore, OneDecided
    <3>3. \A i \in DOMAIN queue' : queue'[i] = job[k].cmd
      BY <3>1
    <3> QED
      BY <1>4, <2>1, <3>2, <3>3 DEF OneTurn
  <2> QED
    BY <2>2, <2>3 DEF DispatchStep, DispatchFails, agent
<1> QED
  BY <1>6, <1>7, <1>8, <1>9, <1>10 DEF OneCore

LEMMA OneWorks ==
  ASSUME TypeInv, TokenInv, OneCore, Work
  PROVE  OneCore'
<1>0. /\ st \in States /\ UNCHANGED <<job, queue, wave>> /\ turn' = Aborted(turn)
      /\ status \in [DOMAIN status -> FeatureStatuses] /\ turn \in Turns
      /\ (turn.step = "none" <=> turn = NoTurn) /\ turn # NoTurn
      /\ KickId \subseteq Job /\ wave' = NoWave
  BY ConstantsAre
  DEF Work, waves, TypeInv, TurnTypes, BundleTypes, NoTurn, Aborted, OneCore, WaveLess
<1>1. turn'.step = turn.step /\ turn'.feature = turn.feature
  BY <1>0, AbortedIs
<1>2. /\ \A k \in KickId : job[k].name = "idle" /\ job[k].copy = Nothing
      /\ job["control"].name \notin Beginnings /\ queue = <<>>
  BY <1>0, NothingHeld DEF TokenInv, Driving
<1>3. Same(job'["control"], job["control"]) /\ \A k \in KickId : Same(job'[k], job[k])
  BY <1>0 DEF Same
<1>4. CASE st' = st /\ Shrinks
  <2>1. Files' \subseteq Files
    BY <1>0, <1>4 DEF Files
  <2> QED
    BY <1>0, <1>1, <1>2, <1>3, <1>4, <2>1, OneKept
<1>5. CASE status' = status
  <2>1. CASE st' = st
    BY <1>4, <1>5, <2>1, NothingShrinks
  <2>2. CASE st' # st
    <3>1. /\ st' = [Patched(st, "finished", turn) EXCEPT !.strikes = NoStrikes, !.escalation = None]
          /\ ~st.paused
      BY <2>2 DEF Work, Driven
    <3>2. Patched(st, "finished", turn) = [st EXCEPT !.mode = "manual", !.paused = FALSE,
                                                     !.phase = "done", !.active = None]
      BY DEF Patched
    <3>3. st'.phase = "done"
      BY <1>0, <3>1, <3>2 DEF States
    <3>4. Files' \subseteq {st'} \cup Files /\ \A s \in Files' : ~Raised(s)
      BY <1>0, <3>1, <3>3 DEF Files, OneCore, HandsUp, Calm, Raised
    <3>5. Unreviewed' = Unreviewed /\ Present' = Present
      BY <1>5 DEF Unreviewed, Present
    <3>6. WaveLess' /\ AtMostOne' /\ HandsUp' /\ OneTurn'
      BY <1>0, <1>1, <3>4, <3>5
      DEF OneCore, WaveLess, AtMostOne, HandsUp, Raised, OneTurn
    <3>7. ReviewNext'
      BY <1>5, <3>3, <3>4, <3>5 DEF OneCore, ReviewNext, FollowsUp
    <3>8. \A k \in KickId : OneDecided(job[k])'
      BY <1>0, <1>2 DEF OneDecided
    <3>9. Advice(job["control"])'
      BY <1>0, <1>2 DEF Advice, Beginnings
    <3> QED
      BY <3>6, <3>7, <3>8, <3>9 DEF OneCore
  <2> QED
    BY <2>1, <2>2
<1>6. CASE /\ turn.step = "review" /\ turn.feature \in Present
           /\ status[turn.feature] \in {"pending", "implemented"}
           /\ status' = [status EXCEPT ![turn.feature] = "done"] /\ st' = st
  <2>1. /\ Present' = Present /\ status'[turn.feature] = "done"
        /\ \A f \in Present \ {turn.feature} : status'[f] = status[f]
    BY <1>0, <1>6 DEF Present
  <2>2. Shrinks
    BY <2>1 DEF Shrinks, Unreviewed
  <2> QED
    BY <1>4, <1>6, <2>2
<1>7. CASE /\ turn.step = "implement" /\ turn.feature \in Present
           /\ status[turn.feature] \in {"pending", "implemented"}
           /\ status' = [status EXCEPT ![turn.feature] = "implemented"] /\ st' = st
  <2> DEFINE f == turn.feature
  <2>1. /\ Present' = Present /\ status'[f] = "implemented"
        /\ \A g \in Present \ {f} : status'[g] = status[g]
    BY <1>0, <1>7 DEF Present
  <2>2. Unreviewed \subseteq {f}
    BY <1>7 DEF OneCore, OneTurn
  <2>3. Unreviewed' = {f}
    BY <1>7, <2>1, <2>2 DEF Unreviewed
  <2>4. Files' = Files /\ \A s \in Files : ~Raised(s)
    BY <1>0, <1>7 DEF Files, OneCore, HandsUp, Calm
  <2>5. \A s : FollowsUp(s) => FollowsUp(s)'
    <3> SUFFICES ASSUME NEW s, FollowsUp(s), s.phase = "reviewing", s.active \in Present
                 PROVE  status'[s.active] = "done" \/ Unreviewed' = {s.active}
      BY <2>1 DEF FollowsUp
    <3>1. CASE status[s.active] = "done"
      BY <1>7, <2>1, <3>1
    <3>2. CASE Unreviewed = {s.active}
      BY <2>2, <2>3, <3>2
    <3> QED
      BY <3>1, <3>2 DEF FollowsUp
  <2>6. WaveLess' /\ AtMostOne' /\ HandsUp' /\ OneTurn'
    BY <1>0, <1>1, <1>2, <2>3, <2>4
    DEF OneCore, WaveLess, AtMostOne, HandsUp, Raised, OneTurn
  <2>7. ReviewNext'
    BY <2>4, <2>5 DEF OneCore, ReviewNext
  <2>8. \A k \in KickId : OneDecided(job[k])'
    BY <1>0, <1>2 DEF OneDecided
  <2>9. Advice(job["control"])'
    BY <1>0, <1>2 DEF Advice, Beginnings
  <2> QED
    BY <2>6, <2>7, <2>8, <2>9 DEF OneCore
<1> QED
  BY <1>5, <1>6, <1>7 DEF Work

LEMMA OneRecovers ==
  ASSUME TypeInv, OneCore, Recover
  PROVE  OneCore'
<1>0. /\ job \in [Job -> Jobs] /\ JobInv /\ StepsInv /\ "control" \in Job
      /\ "control" \notin KickId /\ KickId \subseteq Job
      /\ Raised(st) /\ st \in States /\ st.escalation \in Subject
      /\ UNCHANGED <<status, st, turn, queue, wave, autoSteps>>
  BY ConstantsAre DEF Recover, Begin, bundle, waves, Raised, TypeInv, JobInv, States, Subject
<1>1. PICK name \in {"guide", "discard"} : Begin(name, st.escalation)
  BY DEF Recover
<1> DEFINE b == Decision(name, IF name = "discard" THEN <<>> ELSE <<name>>,
                         Command("implement", st.escalation))
<1>2. /\ Shape("control", b) /\ b.name = name /\ b.copy = Nothing
      /\ b.cmd = Command("implement", st.escalation)
      /\ b.todo = IF name = "discard" THEN <<>> ELSE <<name>>
  BY <1>0, BegunShape DEF ControlNames
<1>3. job' = [job EXCEPT !["control"] = b]
  BY <1>1 DEF Begin
<1>4. Command("implement", st.escalation).feature = st.escalation
  BY DEF Command
<1> HIDE DEF b
<1>5. job'["control"] = b /\ \A k \in KickId : job'[k] = job[k]
  BY <1>0, <1>2, <1>3, ControlTypes
<1>6. Calm
  BY <1>0, FilesAre DEF OneCore, HandsUp, FileTypes
<1>7. Files' \subseteq Files /\ Unreviewed' = Unreviewed /\ Present' = Present
  BY <1>0, <1>2, <1>5 DEF Files, Job, Unreviewed, Present
<1>8. WaveLess' /\ AtMostOne' /\ OneTurn'
  BY <1>0, <1>5, <1>7 DEF OneCore, WaveLess, AtMostOne, OneTurn
<1>9. ReviewNext'
  BY <1>0, <1>7 DEF OneCore, ReviewNext, FollowsUp
<1>10. HandsUp'
  <2>1. Calm'
    BY <1>0, <1>5, <1>6, <1>7 DEF Calm, Raised
  <2> QED
    BY <1>0, <1>7, <2>1 DEF OneCore, HandsUp, Raised
<1>11. \A k \in KickId : OneDecided(job[k])'
  BY <1>5, <1>7 DEF OneCore, OneDecided
<1>12. Advice(job["control"])'
  <2>1. st.escalation \in Feature => Unreviewed \subseteq {st.escalation}
    BY <1>6 DEF Calm
  <2>2. Raised(st)'
    BY <1>0 DEF Raised
  <2>3. name = "guide" => b.todo # <<>>
    BY <1>2
  <2> QED
    BY <1>2, <1>4, <1>5, <1>7, <2>1, <2>2, <2>3 DEF Advice
<1> QED
  BY <1>8, <1>9, <1>10, <1>11, <1>12 DEF OneCore

LEMMA OneHuman ==
  ASSUME TypeInv, TypeInv', TokenInv', OneCore, Human
  PROVE  OneCore'
<1>0. /\ st \in States /\ job \in [Job -> Jobs] /\ KickId \subseteq Job /\ "control" \in Job
      /\ "control" \notin KickId /\ JobInv /\ StepsInv /\ wave = NoWave
      /\ turn \in Turns /\ (turn.step = "none" <=> turn = NoTurn)
      /\ queue \in Seq([step : Steps \cup {"chat"}, feature : Subject])
  BY ConstantsAre DEF TypeInv, JobInv, TurnTypes, OneCore, WaveLess
<1>1. CASE StartAuto \/ Pause \/ Continue \/ Abort
  <2>1. /\ \E name \in {"start", "pause", "continue", "reset"} : Begin(name, None)
        /\ turn' = turn \/ turn' = Aborted(turn)
        /\ wave' = NoWave
    BY <1>0, <1>1 DEF StartAuto, Pause, Continue, Abort, CutShort, waves
  <2>2. PICK name \in {"start", "pause", "continue", "reset"} : Begin(name, None)
    BY <2>1
  <2> DEFINE b == Decision(name, IF name = "discard" THEN <<>> ELSE <<name>>,
                           Command("implement", None))
  <2>3. Shape("control", b) /\ b.copy = Nothing /\ b.name = name
    <3>1. name \in ControlNames \ {"idle"} /\ None \in Subject
      BY DEF ControlNames, Subject
    <3> QED
      BY <3>1, BegunShape
  <2>4. /\ job' = [job EXCEPT !["control"] = b] /\ st' = st
        /\ UNCHANGED <<status, queue, autoSteps>>
    BY <2>2 DEF Begin, bundle
  <2> HIDE DEF b
  <2>5. job'["control"] = b /\ \A k \in KickId : job'[k] = job[k]
    BY <1>0, <2>3, <2>4, ControlTypes
  <2>6. Files' \subseteq Files /\ Shrinks /\ Unreviewed' = Unreviewed \cap Present'
    BY <2>3, <2>4, <2>5, NothingShrinks DEF Files, Job
  <2>7. turn'.step = turn.step /\ turn'.feature = turn.feature
    BY <1>0, <2>1, AbortedIs
  <2>8. job'["control"].name \notin {"guide", "restart", "discard"}
    BY <2>3, <2>5
  <2>9. \A k \in KickId : Same(job'[k], job[k])
    BY <2>5 DEF Same
  <2> QED
    BY <2>1, <2>4, <2>6, <2>7, <2>8, <2>9, OneKept
<1>2. CASE ClickWave
  <2>1. /\ st' = st /\ FreeKicks # {} /\ job' = Started(job, "start-wave")
        /\ UNCHANGED <<status, turn, queue, wave, autoSteps>>
    BY <1>2 DEF ClickWave, bundle, agent, waves
  <2>2. PICK k \in FreeKicks : /\ job'[k].name = "start-wave" /\ job'[k].copy = Nothing
                               /\ job'[k].todo = <<>>
                               /\ \A i \in KickId \ {k} : job'[i] = job[i]
                               /\ job'["control"] = job["control"]
    BY <1>0, <2>1, StartedTypes
  <2>3. Files' \subseteq Files /\ Shrinks /\ Unreviewed' = Unreviewed \cap Present'
    BY <2>1, <2>2, NothingShrinks DEF Files, Job
  <2>4. /\ \A l \in KickId : \/ Same(job'[l], job[l])
                             \/ job'[l].name = "start-wave" /\ job'[l].todo = <<>>
        /\ Same(job'["control"], job["control"])
    BY <2>2 DEF Same
  <2> QED
    BY <1>0, <2>1, <2>3, <2>4, OneKept
<1>3. CASE Chat \/ Approve \/ CancelWork
  <2>1. UNCHANGED <<st, job, wave>>
    BY <1>3 DEF Chat, Approve, CancelWork, waves
  <2>2. Files' = Files
    BY <2>1 DEF Files
  <2>3. /\ \A k \in KickId : Same(job'[k], job[k])
        /\ Same(job'["control"], job["control"])
    BY <2>1 DEF Same
  <2>4. Shrinks /\ Unreviewed' = Unreviewed \cap Present'
    <3>1. CASE Chat
      BY <3>1, NothingShrinks DEF Chat, bundle
    <3>2. CASE Approve
      <4>1. status' = [f \in Present |-> IF status[f] = "draft" THEN "pending" ELSE status[f]]
        BY <3>2 DEF Approve
      <4>2. Present' = Present
        BY <4>1 DEF Present
      <4>3. /\ \A f \in Present : status'[f] = IF status[f] = "draft" THEN "pending" ELSE status[f]
        BY <4>1
      <4> QED
        BY <4>2, <4>3 DEF Shrinks, Unreviewed
    <3>3. CASE CancelWork
      <4>1. PICK f \in Present : status' = Restrict(status, Present \ {f})
        BY <3>3 DEF CancelWork
      <4>2. Present' = Present \ {f} /\ \A g \in Present \ {f} : status'[g] = status[g]
        BY <4>1 DEF Restrict, Present
      <4> QED
        BY <4>2 DEF Shrinks, Unreviewed
    <3> QED
      BY <1>3, <3>1, <3>2, <3>3
  <2>5. \A i \in DOMAIN queue' : queue'[i].step = "implement" =>
          \E n \in DOMAIN queue : queue[n] = queue'[i]
    <3>1. CASE Chat
      <4>1. queue' = Append(queue, Command("chat", None))
        BY <3>1 DEF Chat
      <4>2. queue = <<>>
        <5>1. Len(queue') = Len(queue) + 1 /\ Len(queue) \in Nat
          BY <1>0, <4>1, LenProperties, AppendProperties
        <5>2. Len(queue) = 0
          BY <5>1 DEF TokenInv
        <5> QED
          BY <1>0, <5>2, EmptySeq
      <4>3. queue' = <<Command("chat", None)>>
        BY <4>1, <4>2
      <4>4. Command("chat", None).step = "chat"
        BY DEF Command
      <4>5. \A i \in DOMAIN queue' : queue'[i] = Command("chat", None)
        BY <4>3
      <4> QED
        BY <4>4, <4>5
    <3>2. CASE queue' = queue
      BY <3>2
    <3> QED
      BY <1>3, <3>1, <3>2 DEF Approve, CancelWork, agent
  <2>6. turn'.step = "implement" => turn.step = "implement" /\ turn'.feature = turn.feature
    <3>1. CASE turn' = turn
      BY <3>1
    <3>2. CASE Approve
      <4>1. turn'.step = "approved"
        BY <1>0, <3>2, ApprovedTurn DEF Approve, Turns
      <4> QED
        BY <4>1
    <3> QED
      BY <1>3, <3>1, <3>2 DEF Chat, CancelWork, agent
  <2> QED
    BY <1>0, <2>1, <2>2, <2>3, <2>4, <2>5, <2>6, OneKept
<1>4. CASE Restart
  <2>1. /\ job' = [j \in Job |-> IdleJob] /\ turn' = NoTurn /\ queue' = <<>>
        /\ UNCHANGED status /\ wave' = NoWave
    BY <1>4 DEF Restart, CutShort, bundle
  <2>2. /\ st'.phase = st.phase /\ st'.active = st.active /\ st'.escalation = st.escalation
        /\ Raised(st) => st' = st
    BY <1>0, <1>4 DEF Restart, States, ActivePhases, Raised
  <2>3. Files' = {st'} /\ st \in Files
    BY <2>1, IdleIsJob DEF Files
  <2>4. Unreviewed' = Unreviewed /\ Present' = Present
    BY <2>1 DEF Unreviewed, Present
  <2>5. WaveLess' /\ AtMostOne'
    BY <1>0, <2>1, <2>4, IdleIsJob DEF OneCore, WaveLess, AtMostOne
  <2>6. ReviewNext'
    BY <2>1, <2>2, <2>3, <2>4 DEF OneCore, ReviewNext, FollowsUp
  <2>7. HandsUp'
    <3> SUFFICES ASSUME Raised(st') PROVE Calm'
      BY <2>3 DEF HandsUp, Raised
    <3>1. Calm /\ st' = st
      BY <2>2, <2>3 DEF OneCore, HandsUp, Raised
    <3> QED
      BY <1>0, <2>1, <2>4, <3>1, IdleIsJob, NoTurnTypes DEF Calm, Raised
  <2>8. /\ \A k \in KickId : OneDecided(job[k])'
        /\ Advice(job["control"])'
    BY <1>0, <2>1, IdleIsJob DEF OneDecided, Advice
  <2>9. OneTurn'
    BY <2>1, NoTurnTypes DEF OneTurn
  <2> QED
    BY <2>5, <2>6, <2>7, <2>8, <2>9 DEF OneCore
<1> QED
  BY <1>1, <1>2, <1>3, <1>4, OneRecovers DEF Human

LEMMA OneEnds ==
  ASSUME TypeInv, TokenInv, OneCore, PauseEnds \/ ResetEnds \/ GuideEnds \/ KickEnds
  PROVE  OneCore'
<1>0. /\ st \in States /\ job \in [Job -> Jobs] /\ KickId \subseteq Job /\ "control" \in Job
      /\ "control" \notin KickId /\ UNCHANGED <<st, status, wave>> /\ JobInv /\ StepsInv
      /\ turn \in Turns /\ (turn.step = "none" <=> turn = NoTurn) /\ wave = NoWave
  BY ConstantsAre
  DEF PauseEnds, ResetEnds, GuideEnds, KickEnds, Ended, bundle, waves, TypeInv, JobInv,
      TurnTypes, OneCore, WaveLess
<1>1. /\ Shrinks /\ Present' = Present
      /\ Unreviewed' = Unreviewed /\ Unreviewed' = Unreviewed \cap Present'
  BY <1>0, NothingShrinks
<1>2. CASE PauseEnds \/ ResetEnds \/ (KickEnds /\ job' = NowIdle)
  <2>1. /\ job' = NowIdle
        /\ queue' = queue
        /\ (turn' = turn \/ turn' = Aborted(turn))
    BY <1>2 DEF PauseEnds, ResetEnds, KickEnds, agent
  <2>2. job'["control"] = IdleJob /\ \A k \in KickId : job'[k] = job[k]
    BY <1>0, <2>1 DEF NowIdle
  <2>3. Files' \subseteq Files
    BY <1>0, <2>2, IdleIsJob DEF Files, Job
  <2>4. turn'.step = turn.step /\ turn'.feature = turn.feature
    BY <1>0, <2>1, AbortedIs
  <2>5. /\ \A k \in KickId : Same(job'[k], job[k])
        /\ job'["control"].name \notin {"guide", "restart", "discard"}
    BY <2>2, IdleIsJob DEF Same
  <2> QED
    BY <1>0, <1>1, <2>1, <2>3, <2>4, <2>5, OneKept
<1>3. CASE KickEnds /\ job' # NowIdle
  <2>1. /\ FreeKicks # {} /\ job' = Started(NowIdle, "gather")
        /\ autoSteps' = 0 \/ autoSteps' = autoSteps
        /\ turn' = turn /\ queue' = queue
    BY <1>0, <1>3 DEF KickEnds, agent
  <2>2. PICK k \in FreeKicks : /\ job'[k].name = "gather" /\ job'[k].copy = Nothing
                               /\ job'[k].todo = <<>>
                               /\ \A i \in KickId \ {k} : job'[i] = job[i]
                               /\ job'["control"] = NowIdle["control"]
    BY <1>0, <2>1, StartedTypes
  <2>3. job'["control"] = IdleJob
    BY <1>0, <2>2 DEF NowIdle
  <2>4. Files' \subseteq Files
    BY <1>0, <2>2, <2>3, IdleIsJob DEF Files, Job
  <2>5. /\ \A l \in KickId : \/ Same(job'[l], job[l])
                             \/ job'[l].name = "gather" /\ job'[l].todo = <<>>
        /\ job'["control"].name \notin {"guide", "restart", "discard"}
    BY <2>2, <2>3, IdleIsJob DEF Same
  <2> QED
    BY <1>0, <1>1, <2>1, <2>4, <2>5, OneKept
<1>4. CASE GuideEnds
  <2> DEFINE c == job["control"]
             cmd == IF c.cmd.feature \in Feature THEN Command("implement", c.cmd.feature)
                                                 ELSE Command("chat", None)
  <2>1. /\ c.name = "guide" /\ c.todo = <<>> /\ job' = NowIdle /\ turn' = turn
        /\ queue' = Append(queue, cmd)
    BY <1>4 DEF GuideEnds, Ended, Written
  <2>2. ~Driving /\ turn = NoTurn /\ queue = <<>>
    BY <2>1 DEF TokenInv, Beginnings
  <2>3. c.copy = Nothing /\ \A k \in KickId : job[k].copy = Nothing
    BY <1>0, <2>1, <2>2, QuietHoldsNothing, NothingHeld
  <2>4. job'["control"] = IdleJob /\ \A k \in KickId : job'[k] = job[k]
    BY <1>0, <2>1 DEF NowIdle
  <2>5. Files = {st} /\ Files' = {st}
    BY <1>0, <2>3, <2>4, IdleIsJob DEF Files, Job
  <2>6. ~Raised(st)
    BY <2>1 DEF OneCore, Advice
  <2>7. cmd.step = "implement" => Unreviewed \subseteq {cmd.feature}
    <3>1. CASE c.cmd.feature \in Feature
      <4>1. cmd.feature = c.cmd.feature
        BY <3>1 DEF Command
      <4> QED
        BY <2>1, <3>1, <4>1 DEF OneCore, Advice
    <3>2. CASE c.cmd.feature \notin Feature
      BY <3>2 DEF Command
    <3> QED
      BY <3>1, <3>2
  <2> HIDE DEF cmd
  <2>8. queue' = <<cmd>>
    BY <2>1, <2>2
  <2>9. \A i \in DOMAIN queue' : queue'[i] = cmd
    BY <2>8
  <2>10. OneTurn'
    BY <1>1, <2>1, <2>2, <2>7, <2>9, NoTurnTypes DEF OneTurn
  <2>11. WaveLess' /\ AtMostOne' /\ HandsUp'
    BY <1>0, <1>1, <2>4, <2>5, <2>6 DEF OneCore, WaveLess, AtMostOne, HandsUp, Raised
  <2>12. ReviewNext'
    BY <1>0, <1>1, <2>5 DEF OneCore, ReviewNext, FollowsUp, Present
  <2>13. /\ \A k \in KickId : OneDecided(job[k])'
         /\ Advice(job["control"])'
    BY <1>1, <2>4, IdleIsJob DEF OneCore, OneDecided, Advice
  <2> QED
    BY <2>10, <2>11, <2>12, <2>13 DEF OneCore
<1> QED
  BY <1>2, <1>3, <1>4

LEMMA OneDiscards ==
  ASSUME TypeInv, TokenInv, OneCore, Discard
  PROVE  OneCore'
<1> DEFINE cmd == job["control"].cmd
<1>0. /\ job \in [Job -> Jobs] /\ KickId \subseteq Job /\ "control" \in Job
      /\ "control" \notin KickId /\ UNCHANGED <<st, turn, queue, wave>>
      /\ status \in [DOMAIN status -> FeatureStatuses]
      /\ job["control"].name = "discard"
  BY ConstantsAre DEF Discard, agent, waves, TypeInv, JobInv, BundleTypes
<1>1. /\ Raised(st) /\ ~Driving /\ turn = NoTurn /\ queue = <<>>
  BY <1>0 DEF OneCore, Advice, TokenInv, Beginnings
<1>2. \A k \in KickId : job[k].copy = Nothing /\ job[k].name = "idle"
  BY <1>1, NothingHeld DEF Driving
<1>3. job["control"].copy = Nothing
  BY <1>0, QuietHoldsNothing DEF Quiet
<1>4. CASE status' = [status EXCEPT ![cmd.feature] = "pending"]
           /\ job' = [job EXCEPT !["control"] = Decision("restart", <<"restart">>, cmd)]
  <2>1. /\ job'["control"].name = "restart" /\ job'["control"].copy = Nothing
        /\ \A k \in KickId : job'[k] = job[k]
    BY <1>0, <1>4 DEF Decision
  <2>2. Files = {st} /\ Files' = {st}
    BY <1>0, <1>2, <1>3, <2>1 DEF Files, Job
  <2>3. Present' = Present /\ Unreviewed' \subseteq Unreviewed
    BY <1>0, <1>4 DEF Present, Unreviewed
  <2>4. Calm
    BY <1>1, <2>2 DEF OneCore, HandsUp
  <2>5. Calm'
    BY <1>0, <2>1, <2>3, <2>4 DEF Calm, Raised
  <2>6. WaveLess' /\ AtMostOne' /\ HandsUp' /\ OneTurn'
    BY <1>0, <2>1, <2>2, <2>3, <2>5 DEF OneCore, WaveLess, AtMostOne, HandsUp, OneTurn
  <2>7. ReviewNext'
    BY <1>0, <1>1, <2>2 DEF ReviewNext, FollowsUp, Raised
  <2>8. \A k \in KickId : OneDecided(job[k])'
    BY <1>2, <2>1 DEF OneDecided
  <2>9. Advice(job["control"])'
    BY <1>0, <1>1, <2>1 DEF Advice, Raised
  <2> QED
    BY <2>6, <2>7, <2>8, <2>9 DEF OneCore
<1>5. CASE status' = status /\ job' = [job EXCEPT !["control"] = IdleJob]
  <2>1. job'["control"] = IdleJob /\ \A k \in KickId : job'[k] = job[k]
    BY <1>0, <1>5
  <2>2. Files' \subseteq Files /\ Shrinks
    BY <1>0, <1>5, <2>1, IdleIsJob, NothingShrinks DEF Files, Job
  <2>3. /\ \A k \in KickId : Same(job'[k], job[k])
        /\ job'["control"].name \notin {"guide", "restart", "discard"}
    BY <2>1, IdleIsJob DEF Same
  <2>4. wave' = NoWave
    BY <1>0 DEF OneCore, WaveLess
  <2> QED
    BY <1>0, <1>2, <2>2, <2>3, <2>4, OneKept
<1> QED
  BY <1>4, <1>5 DEF Discard

LEMMA NextKeepsOne ==
  ASSUME TypeInv, TypeInv', ChainInv, NoneBeside, OneInv, [Next]_vars
  PROVE  OneInv'
<1> SUFFICES ASSUME ~crowded, TokenInv, TokenInv', \A k \in KickId : job[k].name # "start",
                    \A k \in KickId : job'[k].name # "start", NoWaveYet'
             PROVE  OneCore'
  BY Uncrowded, NextKeepsNoneBeside DEF OneInv, NoneBeside
<1>0. /\ job \in [Job -> Jobs] /\ KickId \subseteq Job /\ "control" \in Job
      /\ "control" \notin KickId /\ JobInv /\ StepsInv /\ WaveTypes /\ TurnTypes
      /\ queue \in Seq([step : Steps \cup {"chat"}, feature : Subject])
  BY ConstantsAre DEF TypeInv, JobInv, TurnTypes
\* A wave stays in the log.
<1>1. ASSUME ~NoWaveYet PROVE FALSE
  <2>1. CASE waveLog' = waveLog
    BY <1>1, <2>1 DEF NoWaveYet
  <2>2. CASE CutShort
    <3>1. waveLog'.snapshot = waveLog.snapshot
      BY <2>2 DEF CutShort
    <3> QED
      BY <1>1, <3>1 DEF NoWaveYet
  <2>3. ASSUME NEW k \in KickId, Advance(k) PROVE FALSE
    <3>1. CASE waveLog' = [waveLog EXCEPT !.results =
                             NextFeatureWave(wave, status, conflicted).results]
      <4>1. waveLog'.snapshot = waveLog.snapshot
        BY <1>0, <3>1 DEF WaveTypes
      <4> QED
        BY <1>1, <4>1 DEF NoWaveYet
    <3> QED
      BY <2>1, <2>3, <3>1 DEF Advance, waves
  <2>4. ASSUME NEW k \in KickId, StartWave(k) PROVE FALSE
    <3>1. CASE waveLog' = waveLog
      BY <2>1, <3>1
    <3>2. CASE waveLog' # waveLog
      <4>1. PICK ready \in ReadyLists :
              ready # <<>> /\ waveLog' = [snapshot |-> ready, results |-> <<>>, cut |-> FALSE]
        BY <2>4, <3>2 DEF StartWave, waves
      <4> QED
        BY <4>1 DEF NoWaveYet
    <3> QED
      BY <3>1, <3>2
  <2>5. ASSUME NEW k \in KickId, DispatchItem(k) PROVE FALSE
    BY <2>1, <2>2, <2>5 DEF DispatchItem, waves
  <2>6. ASSUME NEW j \in Job, Load(j) \/ Store(j) PROVE FALSE
    BY <2>1, <2>6 DEF Load, Store, waves
  <2>7. ASSUME NEW k \in KickId,
               Gather(k) \/ DispatchStep(k) \/ DispatchFails(k) \/ EndKick(k)
                 \/ EndWave(k) \/ AgentEnd(k)
        PROVE  FALSE
    BY <2>1, <2>7 DEF Gather, DispatchStep, DispatchFails, EndKick, EndWave, AgentEnd, waves
  <2>8. CASE StartTurn \/ EndTurn \/ Work \/ UNCHANGED vars
    BY <2>1, <2>8 DEF StartTurn, EndTurn, Work, waves, vars
  <2>9. CASE Settles
    BY <2>1, <2>9
    DEF Settles, PauseEnds, ResetEnds, GuideEnds, KickEnds, Ended, Discard, StartInTurn,
        StartKick, waves
  <2>10. CASE Human
    BY <2>1, <2>2, <2>10
    DEF Human, StartAuto, Pause, Continue, Abort, ClickWave, Recover, Chat, Approve,
        CancelWork, Restart, waves
  <2> QED
    BY <2>3, <2>4, <2>5, <2>6, <2>7, <2>8, <2>9, <2>10 DEF Next, Runtime
<1>2. OneCore /\ wave = NoWave
  BY <1>1 DEF OneInv, OneCore, WaveLess
<1>3. CASE UNCHANGED vars
  <2>1. Shrinks /\ Unreviewed' = Unreviewed \cap Present' /\ Files' = Files
    BY <1>3, NothingShrinks DEF vars, Files
  <2>2. /\ \A k \in KickId : Same(job'[k], job[k])
        /\ Same(job'["control"], job["control"])
    BY <1>3 DEF vars, Same
  <2> QED
    BY <1>2, <1>3, <2>1, <2>2, OneKept DEF vars
<1>4. ASSUME NEW j \in Job, Load(j) \/ Store(j) PROVE OneCore'
  BY <1>2, <1>4, OneLoads, OneKickStores, OneControlStores DEF Job
<1>5. ASSUME NEW k \in KickId, job' = [job EXCEPT ![k] = IdleJob],
             UNCHANGED <<status, st, turn, queue, wave>>
      PROVE  OneCore'
  <2>1. /\ job'[k] = IdleJob /\ \A l \in KickId \ {k} : job'[l] = job[l]
        /\ job'["control"] = job["control"]
    BY <1>0, <1>5, NewNames
  <2>2. Shrinks /\ Unreviewed' = Unreviewed \cap Present' /\ Files' \subseteq Files
    BY <1>5, <2>1, IdleIsJob, NothingShrinks DEF Files, Job
  <2>3. /\ \A l \in KickId : \/ Same(job'[l], job[l])
                             \/ job'[l].name = "idle" /\ job'[l].todo = <<>>
        /\ Same(job'["control"], job["control"])
    BY <2>1, IdleIsJob DEF Same
  <2> QED
    BY <1>2, <1>5, <2>2, <2>3, OneKept
<1>6. ASSUME NEW k \in KickId, EndKick(k) PROVE OneCore'
  BY <1>5, <1>6 DEF EndKick, bundle, agent, waves
<1>7. ASSUME NEW k \in KickId, StartWave(k) PROVE OneCore'
  <2>1. CASE job' = [job EXCEPT ![k] = IdleJob] /\ UNCHANGED waves
    BY <1>5, <1>7, <2>1 DEF StartWave, bundle, agent, waves
  <2>2. CASE ~(job' = [job EXCEPT ![k] = IdleJob] /\ UNCHANGED waves)
    <3>1. PICK ready \in ReadyLists :
            ready # <<>> /\ waveLog' = [snapshot |-> ready, results |-> <<>>, cut |-> FALSE]
      BY <1>7, <2>2 DEF StartWave
    <3> QED
      BY <3>1 DEF NoWaveYet
  <2> QED
    BY <2>1, <2>2
<1>8. ASSUME NEW k \in KickId,
             Advance(k) \/ DispatchItem(k) \/ EndWave(k) \/ AgentEnd(k)
      PROVE  FALSE
  BY <1>2, <1>8 DEF Advance, DispatchItem, EndWave, AgentEnd, Written, OneCore, WaveLess
<1>9. CASE StartTurn
  <2>1. /\ queue # <<>> /\ turn'.step = Head(queue).step /\ turn'.feature = Head(queue).feature
        /\ queue' = Tail(queue) /\ wave' = wave /\ UNCHANGED <<status, st, job>>
    BY <1>9 DEF StartTurn, HandoffWave, bundle
  <2>2. queue[1] = Head(queue) /\ 1 \in DOMAIN queue
    BY <1>0, <2>1
  <2>3. queue' = <<>>
    <3> DEFINE n == Len(queue)
    <3>1. n \in Nat /\ n <= 1 /\ n # 0
      BY <1>0, <2>1 DEF TokenInv
    <3>2. /\ Len(queue') = Len(queue) - 1
          /\ queue' \in Seq([step : Steps \cup {"chat"}, feature : Subject])
      BY <1>0, <2>1, HeadTailProperties
    <3> HIDE DEF n
    <3>a. n = 1
      BY <3>1
    <3>3. Len(queue) = 1
      BY <3>a DEF n
    <3>4. Len(queue') = 0 /\ queue' \in Seq([step : Steps \cup {"chat"}, feature : Subject])
      BY <3>2, <3>3
    <3> QED
      BY <3>4, EmptySeq
  <2>4. Shrinks /\ Unreviewed' = Unreviewed \cap Present' /\ Files' \subseteq Files
    BY <2>1, NothingShrinks DEF Files
  <2>5. /\ \A k \in KickId : Same(job'[k], job[k])
        /\ Same(job'["control"], job["control"])
    BY <2>1 DEF Same
  <2>6. turn'.step = "implement" =>
          \E i \in DOMAIN queue : queue[i].step = "implement"
                                  /\ turn'.feature = queue[i].feature
    BY <2>1, <2>2
  <2>7. \A i \in DOMAIN queue' : FALSE
    BY <2>3
  <2> QED
    BY <1>2, <2>1, <2>4, <2>5, <2>6, <2>7, OneKept
<1>10. CASE EndTurn
  <2>1. /\ FreeKicks # {} /\ job' = Started(job, "ended") /\ autoSteps' = autoSteps
        /\ turn' = NoTurn /\ UNCHANGED <<status, st, queue, wave>>
    BY <1>10 DEF EndTurn, bundle, waves
  <2>2. PICK k \in FreeKicks : /\ job'[k].name = "ended" /\ job'[k].copy = Nothing
                               /\ job'[k].todo = <<>>
                               /\ \A i \in KickId \ {k} : job'[i] = job[i]
                               /\ job'["control"] = job["control"]
    BY <1>0, <2>1, StartedTypes
  <2>3. Shrinks /\ Unreviewed' = Unreviewed \cap Present' /\ Files' \subseteq Files
    BY <2>1, <2>2, NothingShrinks DEF Files, Job
  <2>4. /\ \A l \in KickId : \/ Same(job'[l], job[l])
                             \/ job'[l].name = "ended" /\ job'[l].todo = <<>>
        /\ Same(job'["control"], job["control"])
    BY <2>2 DEF Same
  <2>5. turn'.step # "implement"
    BY <2>1, NoTurnTypes
  <2> QED
    BY <1>2, <2>1, <2>3, <2>4, <2>5, OneKept
<1>11. CASE StartInTurn
  <2>1. /\ turn.step = "approved" /\ UNCHANGED <<status, st, queue, wave>>
        /\ turn' = [turn EXCEPT !.step = "chat", !.worked = TRUE]
    BY <1>11 DEF StartInTurn, bundle, waves
  <2>2. turn'.step = "chat"
    BY <1>0, <2>1, ApprovedTurn
  <2>3. job' = job
    <3> SUFFICES ASSUME NEW k \in FreeKicks, job' = [job EXCEPT ![k] = AutoStart] PROVE FALSE
      BY <1>11 DEF StartInTurn
    <3>1. k \in KickId /\ job'[k] = AutoStart
      BY <1>0, NewNames DEF FreeKicks
    <3> QED
      BY <3>1, AutoStartIs
  <2>4. Shrinks /\ Unreviewed' = Unreviewed \cap Present' /\ Files' \subseteq Files
    BY <2>1, <2>3, NothingShrinks DEF Files
  <2>5. /\ \A k \in KickId : Same(job'[k], job[k])
        /\ Same(job'["control"], job["control"])
    BY <2>3 DEF Same
  <2> QED
    BY <1>2, <2>1, <2>2, <2>4, <2>5, OneKept
<1>12. ASSUME NEW k \in KickId, StartKick(k) PROVE FALSE
  BY <1>12 DEF StartKick, Written
<1> QED
  BY <1>2, <1>3, <1>4, <1>6, <1>7, <1>8, <1>9, <1>10, <1>11, <1>12, OneGathers, OneDispatches,
     OneWorks, OneHuman, OneEnds, OneDiscards
  DEF Next, Runtime, Settles

\* Whatever is paused, escalated, sent back, cancelled and started again, one chain reviews
\* a feature before it implements another one (pi-tools.mjs:406-409).
THEOREM OneAwaitsItsReview == Spec => []OneAwaiting
<1>1. Init => ChainInv /\ NoneBeside /\ OneInv
  <2> SUFFICES ASSUME Init PROVE OneCore
    BY InitChains DEF OneInv
  <2>1. /\ \A j \in Job : job[j] = IdleJob
        /\ wave = NoWave /\ turn = NoTurn /\ queue = <<>> /\ st.phase = "idle"
        /\ status \in [Feature -> CreatableStatuses]
    BY DEF Init
  <2>2. Files = {st}
    BY <2>1, IdleIsJob, ConstantsAre DEF Files
  <2>3. Unreviewed = {}
    BY <2>1 DEF Unreviewed, Present, CreatableStatuses
  <2>4. WaveLess /\ AtMostOne /\ OneTurn
    BY <2>1, <2>3, IdleIsJob, ConstantsAre DEF WaveLess, AtMostOne, OneTurn
  <2>5. ReviewNext /\ HandsUp
    BY <2>1, <2>2 DEF ReviewNext, FollowsUp, HandsUp, Raised
  <2>6. (\A k \in KickId : OneDecided(job[k])) /\ Advice(job["control"])
    BY <2>1, IdleIsJob, ConstantsAre DEF OneDecided, Advice
  <2> QED
    BY <2>4, <2>5, <2>6 DEF OneCore
<1>2. TypeInv /\ TypeInv' /\ ChainInv /\ NoneBeside /\ OneInv /\ [Next]_vars
        => ChainInv' /\ NoneBeside' /\ OneInv'
  BY NextKeepsChains, NextKeepsNoneBeside, NextKeepsOne
<1>3. OneInv => OneAwaiting
  <2> SUFFICES ASSUME OneInv, ~crowded, NoWaveYet PROVE Cardinality(Unreviewed) <= 1
    BY DEF OneAwaiting, NoWaveYet, Unreviewed
  <2>1. AtMostOne
    BY DEF OneInv, OneCore
  <2>2. CASE Unreviewed = {}
    BY <2>2, FS_EmptySet
  <2>3. CASE Unreviewed # {}
    <3>1. PICK f \in Unreviewed : TRUE
      BY <2>3
    <3>2. Unreviewed = {f}
      BY <2>1, <3>1 DEF AtMostOne
    <3>3. Cardinality({f}) = 1
      BY FS_Singleton
    <3> QED
      BY <3>2, <3>3
  <2> QED
    BY <2>2, <2>3
<1> QED
  BY <1>1, <1>2, <1>3, TypeInvHolds, PTL DEF Spec
=============================================================================
