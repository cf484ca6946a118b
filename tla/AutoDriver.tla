------------------------------ MODULE AutoDriver ------------------------------
(***************************************************************************)
(* Auto mode: the driver that runs test, implement and review for every    *)
(* feature (nextAutoAction in src/lib/pi-tools.mjs, kickAuto, onControl,   *)
(* startAuto, the escalation actions and the session hooks in              *)
(* src/extensions/iterator.js), and the ready wave, which implements a     *)
(* fixed list of features under the same hooks and controls.  The memory   *)
(* between steps is state.md, and every write of it is a process of its    *)
(* own that loads the file, patches some fields and stores the whole of it *)
(* again, so the writes of the driver and of the control strip interleave. *)
(* The agent's turns, which the pi runtime runs one at a time, end with a  *)
(* step of the wave, if there is one, or of the driver.  kickAuto takes no *)
(* lock: a turn in which an approval starts auto mode ends with a second   *)
(* step of the driver, and so does a click that comes too early.           *)
(***************************************************************************)
EXTENDS FeatureStatus, FeatureWave, FiniteSets

CONSTANTS
  Order,       \* the accepted features, in the order the bundle loads them
  DependsOn,   \* their depends_on lists
  TestFirst,   \* is testing_default on?
  MaxReviews,  \* max_review_iterations
  MaxSteps,    \* AUTO_MAX_STEPS
  KickId,      \* bound on the driver steps under way at once
  Patient,     \* does the human click only when the driver is between two steps?
  MaxActs      \* bound on what the human does

Feature == {Order[i] : i \in DOMAIN Order}

\* What an escalation that names no feature is about.
Everything == "everything"

ASSUME AutoDriverAssumption ==
  /\ Order \in Seq(Feature) /\ None \notin Feature
  /\ Everything \notin Feature \cup {None}
  /\ DependsOn \in [Feature -> SUBSET Feature]
  /\ TestFirst \in BOOLEAN /\ Patient \in BOOLEAN
  /\ MaxReviews \in Nat \ {0} /\ MaxSteps \in Nat \ {0} /\ MaxActs \in Nat
  /\ IsFiniteSet(KickId) /\ "control" \notin KickId

VARIABLES
  status,       \* frontmatter status of every feature that is still there
  conflicted,   \* the features with a recorded decision conflict
  tested,       \* the features that have tests
  planReviewed, \* plan.md has its plan_reviewed date
  st,           \* what state.md holds
  turn,         \* the agent's turn
  queue,        \* the commands waiting for a turn
  job,          \* the driver's steps and the control action under way
  autoSteps,    \* steps since auto mode was started, in this session
  wave,         \* the ready wave, in the extension's memory
  acts,         \* what the human has done so far
  unattended,   \* history: driver dispatches since the human last did something
  rounds,       \* history: those of them that review a feature
  chains,       \* history: what could dispatch when the human last did something
  crowded,      \* history: have two such chains ever been alive at once?
  waveLog       \* history: of the last wave, what it began with, its results
                \* and whether it was cut short

bundle == <<status, conflicted, tested, planReviewed>>
agent == <<turn, queue>>
human == <<acts, unattended, rounds, chains, crowded>>
waves == <<wave, waveLog>>
vars == <<status, conflicted, tested, planReviewed, st, turn, queue, job, autoSteps, acts,
          unattended, rounds, chains, crowded, wave, waveLog>>

Job == KickId \cup {"control"}
Steps == {"test", "implement", "review", "plan-review"}
Command(step, f) == [step |-> step, feature |-> f]
NoTurn == [step |-> "none", feature |-> None, worked |-> TRUE]
Nothing == [mode |-> "none"]
IdleJob == [name |-> "idle", cmd |-> Command("none", None), todo |-> <<>>,
            copy |-> Nothing]
NoStrikes == [f \in Feature |-> 0]
ActivePhases == {"testing", "implementing", "reviewing"}

\* The steps of the driver and of the wave, what the human can have under way,
\* and the writes of state.md they consist of.
KickNames == {"idle", "start", "ended", "gather", "dispatch", "escalate", "finish", "failed",
              "start-wave", "advance", "wave", "waved"}
ControlNames == {"idle", "start", "pause", "continue", "reset", "guide", "discard",
                 "restart"}
Patches == {"strike", "mark", "escalated", "finished", "wave", "waved", "pause",
            "start", "continue", "reset", "guide", "restart"}

States == [mode : {"manual", "auto"}, paused : BOOLEAN,
           phase : ActivePhases \cup {"idle", "escalated", "done"},
           active : Feature \cup {None}, strikes : [Feature -> Nat],
           escalation : Feature \cup {None, Everything}]

Subject == Feature \cup {None, Everything}

Turns == [step : Steps \cup {"none", "chat", "approved"}, feature : Subject, worked : BOOLEAN]

Jobs == [name : KickNames \cup ControlNames,
         cmd : [step : Steps \cup {"none"}, feature : Subject],
         todo : Seq(Patches), copy : States \cup {Nothing}]

TypeOK ==
  /\ DOMAIN status \subseteq Feature /\ status \in [DOMAIN status -> FeatureStatuses]
  /\ conflicted \in SUBSET Feature
  /\ tested \in SUBSET Feature
  /\ planReviewed \in BOOLEAN
  /\ st \in States
  /\ turn \in Turns /\ (turn.step = "none" <=> turn = NoTurn)
  /\ queue \in Seq([step : Steps \cup {"chat"}, feature : Subject])
  /\ job \in [Job -> Jobs]
  /\ \A j \in Job : job[j].copy # Nothing => job[j].todo # <<>>
  /\ autoSteps \in 0..(MaxSteps + Cardinality(KickId))
  /\ acts \in 0..MaxActs
  /\ unattended \in Nat /\ rounds \in [Feature -> Nat] /\ chains \in Nat
  /\ crowded \in BOOLEAN
  /\ wave \in {NoWave} \cup Waves(Feature)
  /\ waveLog \in [snapshot : Seq(Feature), results : Seq(Results(Feature)), cut : BOOLEAN]

Init ==
  /\ status \in [Feature -> CreatableStatuses]
  /\ conflicted \in SUBSET Feature
  /\ tested = {}
  /\ planReviewed = FALSE
  /\ st = [mode |-> "manual", paused |-> FALSE, phase |-> "idle",
           active |-> None, strikes |-> [f \in Feature |-> 0],
           escalation |-> None]
  /\ turn = NoTurn
  /\ queue = <<>>
  /\ job = [j \in Job |-> IdleJob]
  /\ autoSteps = 0
  /\ acts = 0
  /\ unattended = 0
  /\ rounds = NoStrikes
  /\ chains = 0
  /\ crowded = FALSE
  /\ wave = NoWave
  /\ waveLog = [snapshot |-> <<>>, results |-> <<>>, cut |-> FALSE]

-----------------------------------------------------------------------------
(***************************************************************************)
(* nextAutoAction.                                                         *)
(***************************************************************************)

\* The first feature of the bundle's order with property P, or none.
First(S) ==
  IF S = {} THEN None
  ELSE LET i == CHOOSE n \in DOMAIN Order :
                  Order[n] \in S /\ \A m \in 1..(n - 1) : Order[m] \notin S
       IN  Order[i]

\* The features of the bundle; the others are cancelled, and no list of
\* dependencies names them any more.
Present == DOMAIN status

Satisfied == SatisfiedSet(Present, status, "on")
ReadyFeatures == {f \in Present : /\ status[f] = "pending"
                                  /\ DependsOn[f] \cap Present \subseteq Satisfied}
Ready == First(ReadyFeatures)

\* Mutant: what is ready goes before what waits for its review.
AwaitingLast ==
  IF Ready # None THEN None
  ELSE First({f \in Present : status[f] = "implemented"})

Awaiting == First({f \in Present : status[f] = "implemented"})

\* A job, with the writes of state.md it begins with.
Decision(name, todo, cmd) ==
  [name |-> name, cmd |-> cmd, todo |-> todo, copy |-> Nothing]

Escalate(f) == Decision("escalate", <<"escalated">>, Command("none", f))
Finish == Decision("finish", <<"finished">>, Command("none", None))
Dispatch(step, f) == Decision("dispatch", <<"mark">>, Command(step, f))

\* Mutant: a reviewer is expected to put the feature back to pending.
NeedsWorkIfPending ==
  st.phase = "reviewing" /\ st.active \in Present /\ status[st.active] = "pending"

\* A review came back and its feature, if it is still there, is not done:
\* needs-work.
NeedsWork ==
  st.phase = "reviewing" /\ st.active \in Present /\ status[st.active] # "done"

\* When no feature is ready and none awaits its review.
Wrap ==
  IF \E f \in Present : status[f] # "done" THEN Escalate(Everything)
  ELSE IF Present # {} /\ ~planReviewed THEN Dispatch("plan-review", None)
  ELSE Finish

\* What to do for the feature that is ready.
ForReady(f) ==
  IF f \in conflicted \/ st.strikes[f] >= MaxReviews THEN Escalate(f)
  ELSE IF TestFirst /\ f \notin tested THEN Dispatch("test", f)
  ELSE Dispatch("implement", f)

\* Mutant: only the mode says whether the driver drives.
DrivenWhilePaused == st.mode = "auto"

Driven == st.mode = "auto" /\ ~st.paused

NextAutoAction ==
  IF ~Driven THEN IdleJob
  ELSE IF NeedsWork /\ st.strikes[st.active] + 1 >= MaxReviews
    THEN Escalate(st.active)
  ELSE IF NeedsWork
    THEN [Dispatch("implement", st.active) EXCEPT !.todo = <<"strike", "mark">>]
  ELSE IF Awaiting # None THEN Dispatch("review", Awaiting)
  ELSE IF Ready # None THEN ForReady(Ready)
  ELSE Wrap

-----------------------------------------------------------------------------
(***************************************************************************)
(* op state: load, patch, store.                                           *)
(***************************************************************************)

PhaseOf(step) ==
  CASE step = "test" -> "testing"
    [] step = "implement" -> "implementing"
    [] OTHER -> "reviewing"

Cleared(strikes, f) == [x \in Feature |-> IF x = f THEN 0 ELSE strikes[x]]

\* What each caller of the op sets.
Patched(s, patch, cmd) ==
  CASE patch = "strike" -> [s EXCEPT !.strikes[cmd.feature] = @ + 1]
    [] patch = "mark" -> [s EXCEPT !.phase = PhaseOf(cmd.step),
                                   !.active = cmd.feature]
    [] patch = "escalated" -> [s EXCEPT !.phase = "escalated", !.paused = TRUE,
                                        !.escalation = cmd.feature]
    [] patch = "finished" -> [s EXCEPT !.mode = "manual", !.paused = FALSE,
                                       !.phase = "done", !.active = None]
    [] patch = "wave" -> [s EXCEPT !.mode = "manual", !.paused = FALSE,
                                   !.phase = "implementing", !.active = cmd.feature]
    [] patch = "waved" -> [s EXCEPT !.mode = "manual", !.paused = FALSE,
                                    !.phase = "idle", !.active = None]
    [] patch = "pause" -> [s EXCEPT !.paused = TRUE]
    [] patch = "start" -> [s EXCEPT !.mode = "auto", !.paused = FALSE,
                                    !.phase = "implementing", !.escalation = None]
    [] patch = "continue" -> [s EXCEPT !.paused = FALSE, !.escalation = None]
    [] patch = "reset" -> [mode |-> "manual", paused |-> FALSE, phase |-> "idle",
                           active |-> None, strikes |-> NoStrikes,
                           escalation |-> None]
    [] patch = "guide" -> [s EXCEPT !.paused = FALSE, !.phase = "implementing",
                                    !.escalation = None,
                                    !.strikes = Cleared(@, cmd.feature)]
    [] patch = "restart" -> [s EXCEPT !.paused = FALSE, !.phase = "implementing",
                                      !.active = None, !.escalation = None,
                                      !.strikes = Cleared(@, cmd.feature)]

Load(j) ==
  /\ job[j].todo # <<>> /\ job[j].copy = Nothing
  /\ job' = [job EXCEPT ![j].copy = st]
  /\ UNCHANGED <<bundle, st, agent, autoSteps, human, waves>>

Store(j) ==
  /\ job[j].copy # Nothing
  /\ st' = Patched(job[j].copy, Head(job[j].todo), job[j].cmd)
  /\ job' = [job EXCEPT ![j].copy = Nothing, ![j].todo = Tail(@)]
  /\ UNCHANGED <<bundle, agent, autoSteps, human, waves>>

-----------------------------------------------------------------------------
(***************************************************************************)
(* kickAuto.                                                               *)
(***************************************************************************)

FreeKicks == {k \in KickId : job[k].name = "idle"}

\* The jobs with one more step begun, of the driver or of the wave.
Started(jobs, name) ==
  [jobs EXCEPT ![CHOOSE k \in FreeKicks : TRUE] = [IdleJob EXCEPT !.name = name]]

\* The circuit breaker counts the steps to dispatch.
Counted(d) ==
  IF d.name = "dispatch" /\ autoSteps + 1 > MaxSteps THEN Escalate(Everything) ELSE d

\* Where the end of a turn finds no wave, it goes on as a step of the driver.
Gather(k) ==
  /\ job[k].name = "gather" \/ (job[k].name = "ended" /\ wave = NoWave)
  /\ job' = [job EXCEPT ![k] = Counted(NextAutoAction)]
  /\ autoSteps' = autoSteps + (IF NextAutoAction.name = "dispatch" THEN 1 ELSE 0)
  /\ UNCHANGED <<bundle, st, agent, human, waves>>

Written(j, name) == job[j].name = name /\ job[j].todo = <<>>

DispatchStep(k) ==
  /\ Written(k, "dispatch")
  /\ queue' = Append(queue, job[k].cmd)
  /\ job' = [job EXCEPT ![k] = IdleJob]
  /\ unattended' = unattended + 1
  /\ rounds' = [f \in Feature |->
                 IF job[k].cmd = Command("review", f) THEN rounds[f] + 1 ELSE rounds[f]]
  /\ UNCHANGED <<bundle, st, turn, autoSteps, acts, chains, crowded, waves>>

\* Mutant: a dispatch that fails is only reported.
DispatchFailsSilently(k) ==
  /\ Written(k, "dispatch")
  /\ job' = [job EXCEPT ![k] = IdleJob]
  /\ UNCHANGED <<bundle, st, agent, autoSteps, human, waves>>

\* A dispatch that fails pauses auto mode.
DispatchFails(k) ==
  /\ Written(k, "dispatch")
  /\ job' = [job EXCEPT ![k].name = "failed", ![k].todo = <<"pause">>]
  /\ UNCHANGED <<bundle, st, agent, autoSteps, human, waves>>

\* Mutant: the breaker goes on counting when auto mode stops.
EndKickCounting(k) ==
  /\ Written(k, "escalate") \/ Written(k, "finish") \/ Written(k, "failed")
  /\ job' = [job EXCEPT ![k] = IdleJob]
  /\ UNCHANGED <<bundle, st, agent, autoSteps, human, waves>>

EndKick(k) ==
  /\ Written(k, "escalate") \/ Written(k, "finish") \/ Written(k, "failed")
  /\ job' = [job EXCEPT ![k] = IdleJob]
  /\ autoSteps' = IF job[k].name = "failed" THEN autoSteps ELSE 0
  /\ UNCHANGED <<bundle, st, agent, human, waves>>

-----------------------------------------------------------------------------
(***************************************************************************)
(* advanceFeatureWave and startFeatureWave.                                *)
(***************************************************************************)

\* The wave is given up, with a reset to write: advanceFeatureWave's catch.
GivenUp == Decision("waved", <<"waved">>, Command("none", None))

\* The wave ends before every item has its result.
CutShort ==
  /\ wave' = NoWave
  /\ waveLog' = IF wave = NoWave THEN waveLog
                ELSE [snapshot |-> waveLog.snapshot, results |-> <<>>, cut |-> TRUE]

\* The features that are ready, as a list in the order of the bundle.
ReadyLists ==
  {s \in SetToSeqs(ReadyFeatures) :
     \A i, j \in DOMAIN s : i < j =>
       \E m, n \in DOMAIN Order : m < n /\ Order[m] = s[i] /\ Order[n] = s[j]}

StartWave(k) ==
  /\ job[k].name = "start-wave"
  /\ \E ready \in ReadyLists :
       IF ready = <<>>
       THEN job' = [job EXCEPT ![k] = IdleJob] /\ UNCHANGED waves
       ELSE /\ wave' = NewWave(ready)
            /\ waveLog' = [snapshot |-> ready, results |-> <<>>, cut |-> FALSE]
            /\ job' = [job EXCEPT ![k].name = "advance"]
  /\ UNCHANGED <<bundle, st, agent, autoSteps, human>>

\* A wave that was dropped while its session was gathered is given up.
Advance(k) ==
  /\ job[k].name = "advance"
  /\ IF st.paused \/ (wave # NoWave /\ wave.abortPending)
     THEN job' = [job EXCEPT ![k] = IdleJob] /\ UNCHANGED waves
     ELSE IF wave = NoWave
     THEN job' = [job EXCEPT ![k] = GivenUp] /\ UNCHANGED waves
     ELSE LET next == NextFeatureWave(wave, status, conflicted)
          IN  /\ wave' = IF next.active = None THEN NoWave ELSE next
              /\ waveLog' = [waveLog EXCEPT !.results = next.results]
              /\ job' = [job EXCEPT ![k] =
                           IF next.active = None THEN GivenUp
                           ELSE Decision("wave", <<"wave">>,
                                         Command("implement", next.active))]
  /\ UNCHANGED <<bundle, st, agent, autoSteps, human>>

\* Mutant: a dispatch that fails keeps the wave.
DispatchItemOrKeep(k) ==
  /\ Written(k, "wave")
  /\ job' = [job EXCEPT ![k] = IdleJob]
  /\ queue' = queue \/ queue' = Append(queue, job[k].cmd)
  /\ UNCHANGED <<bundle, st, turn, autoSteps, human, waves>>

\* The item is dispatched, unless that fails or the wave has been dropped.
DispatchItem(k) ==
  /\ Written(k, "wave")
  /\ \/ /\ wave # NoWave
        /\ queue' = Append(queue, job[k].cmd)
        /\ job' = [job EXCEPT ![k] = IdleJob]
        /\ UNCHANGED waves
     \/ /\ job' = [job EXCEPT ![k] = GivenUp]
        /\ CutShort
        /\ UNCHANGED queue
  /\ UNCHANGED <<bundle, st, turn, autoSteps, human>>

EndWave(k) ==
  /\ Written(k, "waved")
  /\ job' = [job EXCEPT ![k] = IdleJob]
  /\ UNCHANGED <<bundle, st, agent, autoSteps, human, waves>>

-----------------------------------------------------------------------------
(***************************************************************************)
(* The agent's turns.                                                      *)
(***************************************************************************)

\* Mutant: the fresh session of an implementation counts from the start.
HandoffLost(step, steps) == IF step = "implement" THEN 0 ELSE steps

\* An implementation replaces the session, and the count goes with it.
Handoff(step, steps) == steps

\* Mutant: the fresh session of an implementation knows of no wave.
WaveLeftBehind(step, w) == IF step = "implement" THEN NoWave ELSE w

\* So does the wave.
HandoffWave(step, w) == w

StartTurn ==
  /\ turn = NoTurn /\ queue # <<>>
  /\ turn' = [step |-> Head(queue).step, feature |-> Head(queue).feature,
              worked |-> FALSE]
  /\ queue' = Tail(queue)
  /\ autoSteps' = Handoff(Head(queue).step, autoSteps)
  /\ wave' = HandoffWave(Head(queue).step, wave)
  /\ UNCHANGED <<bundle, st, job, human, waveLog>>

\* What a turn leaves in the bundle, if it gets to it.  The review of the plan ends
\* auto mode, if it is driving.
Work ==
  /\ ~turn.worked
  /\ turn' = [turn EXCEPT !.worked = TRUE]
  /\ \/ /\ turn.step = "test" /\ turn.feature \in Present
        /\ tested' = tested \cup {turn.feature}
        /\ UNCHANGED <<status, planReviewed, st, autoSteps>>
     \/ /\ turn.step = "implement"
        /\ turn.feature \in Present
        /\ status[turn.feature] \in {"pending", "implemented"}
        /\ status' = [status EXCEPT ![turn.feature] = "implemented"]
        /\ UNCHANGED <<tested, planReviewed, st, autoSteps>>
     \/ /\ turn.step = "review"
        /\ turn.feature \in Present
        /\ status[turn.feature] \in {"pending", "implemented"}
        /\ status' = [status EXCEPT ![turn.feature] = "done"]
        /\ UNCHANGED <<tested, planReviewed, st, autoSteps>>
     \/ /\ turn.step = "plan-review"
        /\ planReviewed' = TRUE
        /\ IF Driven
           THEN /\ st' = [Patched(st, "finished", turn) EXCEPT !.strikes = NoStrikes,
                                                              !.escalation = None]
                /\ autoSteps' = 0
           ELSE UNCHANGED <<st, autoSteps>>
        /\ UNCHANGED <<status, tested>>
  /\ UNCHANGED <<conflicted, queue, job, human, waves>>

\* agent_end, whatever the turn has done.
EndTurn ==
  /\ turn # NoTurn /\ turn.step # "approved" /\ FreeKicks # {}
  /\ turn' = NoTurn
  /\ job' = Started(job, "ended")
  /\ UNCHANGED <<bundle, st, queue, autoSteps, human, waves>>

\* What agent_end does last: the wave goes before auto mode, and waits for the
\* end of a turn that was aborted.
AgentEnd(k) ==
  /\ job[k].name = "ended" /\ wave # NoWave
  /\ wave' = CompleteFeatureWaveAbort(wave)
  /\ job' = [job EXCEPT ![k] = IF wave.abortPending /\ st.paused THEN IdleJob
                               ELSE [IdleJob EXCEPT !.name = "advance"]]
  /\ UNCHANGED <<bundle, st, agent, autoSteps, human, waveLog>>

-----------------------------------------------------------------------------
(***************************************************************************)
(* The human.                                                              *)
(***************************************************************************)

\* The chains of steps that are alive: each is a step of the driver or of the wave, a
\* command, a turn, or a control action that is about to set one going.
Beginnings == {"start", "continue", "guide", "discard", "restart"}

Tokens ==
  Cardinality({k \in KickId : job[k].name # "idle"}) + Len(queue)
    + (IF turn = NoTurn THEN 0 ELSE 1) + (IF job["control"].name \in Beginnings THEN 1 ELSE 0)

Attended ==
  /\ unattended' = 0 /\ rounds' = NoStrikes
  /\ chains' = Tokens' /\ crowded' = (crowded \/ Tokens' > 1)

Acts == acts < MaxActs /\ acts' = acts + 1

Driving == \E k \in KickId : job[k].name # "idle"
Busy == turn # NoTurn \/ queue # <<>>

Begin(name, f) ==
  /\ Acts
  /\ Patient => ~Driving /\ (name \in {"pause", "reset"} \/ ~Busy)
  /\ job["control"].name = "idle"
  /\ job' = [job EXCEPT !["control"] =
               Decision(name, IF name = "discard" THEN <<>> ELSE <<name>>,
                        Command("implement", f))]
  /\ UNCHANGED <<bundle, st, queue, autoSteps>>

\* An aborted turn does nothing more.
Aborted(t) == [t EXCEPT !.worked = TRUE]

StartAuto ==
  /\ st.mode = "manual"
  /\ Begin("start", None)
  /\ UNCHANGED <<turn, waves>>

\* The control strip, or the overlay while a wave's turn runs.
Controls == st.mode = "auto" \/ wave # NoWave

\* Pause settles the wave before it writes.
Pause ==
  /\ Controls /\ ~st.paused
  /\ Begin("pause", None)
  /\ wave' = IF wave = NoWave THEN wave ELSE PauseFeatureWave(wave)
  /\ UNCHANGED <<turn, waveLog>>

Continue ==
  /\ st.paused
  /\ Begin("continue", None)
  /\ UNCHANGED <<turn, waves>>

\* Abort drops the wave and stops the turn first.
Abort ==
  /\ Controls
  /\ Begin("reset", None)
  /\ turn' = Aborted(turn)
  /\ CutShort

\* The hub's button for the ready features.
ClickWave ==
  /\ Acts
  /\ Patient => ~Driving /\ ~Busy /\ job["control"].name = "idle"
  /\ Ready # None
  /\ FreeKicks # {} /\ job' = Started(job, "start-wave")
  /\ UNCHANGED <<bundle, st, agent, autoSteps, waves>>

\* The banner of an escalation: go on with guidance, or start the feature again.
Recover ==
  /\ st.phase = "escalated" /\ st.escalation # None
  /\ \/ Begin("guide", st.escalation)
     \/ /\ st.escalation \in Present
        /\ status[st.escalation] \in RestartableStatuses
        /\ Begin("discard", st.escalation)
  /\ UNCHANGED <<turn, waves>>

Chat ==
  /\ Acts
  /\ Patient => ~Driving /\ ~Busy /\ job["control"].name = "idle"
  /\ queue' = Append(queue, Command("chat", None))
  /\ UNCHANGED <<bundle, st, turn, job, autoSteps, waves>>

\* In a turn the human has begun, he approves the features, and the turn writes that
\* down: drafts accepted, conflicts settled.
Approve ==
  /\ Acts
  /\ turn.step = "chat" /\ ~turn.worked
  /\ turn' = [turn EXCEPT !.step = "approved"]
  /\ status' = [f \in Present |-> IF status[f] = "draft" THEN "pending" ELSE status[f]]
  /\ conflicted' = {}
  /\ UNCHANGED <<tested, planReviewed, st, queue, job, autoSteps, waves>>

\* A feature is cancelled from the dashboard: its document goes to the archive.
\* state.md, the wave and the turn under way know nothing of it.
CancelWork ==
  /\ Acts
  /\ Patient => ~Driving /\ job["control"].name = "idle"
  /\ \E f \in Present :
       /\ status' = Restrict(status, Present \ {f})
       /\ conflicted' = conflicted \ {f}
       /\ tested' = tested \ {f}
  /\ UNCHANGED <<planReviewed, st, agent, job, autoSteps, waves>>

\* startAuto, as the tool begins it that has written the approval.
AutoStart == Decision("start", <<"start">>, Command("none", None))

\* The tool goes on, still in that turn: with the setting auto_mode on it starts auto
\* mode, and does not wait for it.  The end of the turn kicks the driver as well.
StartInTurn ==
  /\ turn.step = "approved"
  /\ turn' = [turn EXCEPT !.step = "chat", !.worked = TRUE]
  /\ \/ UNCHANGED job
     \/ /\ st.mode = "manual" /\ FreeKicks # {}
        /\ job' = [job EXCEPT ![CHOOSE k \in FreeKicks : TRUE] = AutoStart]
  /\ UNCHANGED <<bundle, st, queue, autoSteps, acts, waves>>

\* Its write is done.
StartKick(k) ==
  /\ Written(k, "start")
  /\ job' = [job EXCEPT ![k] = [IdleJob EXCEPT !.name = "gather"]]
  /\ autoSteps' = 0
  /\ UNCHANGED <<bundle, st, agent, acts, waves>>

\* What a control action does once its write is done.
Ended(name) ==
  /\ Written("control", name)
  /\ UNCHANGED <<bundle, st, acts, waves>>

NowIdle == [job EXCEPT !["control"] = IdleJob]

PauseEnds ==
  /\ Ended("pause")
  /\ turn' = Aborted(turn)
  /\ job' = NowIdle
  /\ UNCHANGED <<queue, autoSteps>>

ResetEnds ==
  /\ Ended("reset")
  /\ job' = NowIdle
  /\ autoSteps' = 0
  /\ UNCHANGED agent

GuideEnds ==
  /\ Ended("guide")
  /\ LET f == job["control"].cmd.feature
     IN  queue' = Append(queue, IF f \in Feature THEN Command("implement", f)
                                                ELSE Command("chat", None))
  /\ job' = NowIdle
  /\ UNCHANGED <<turn, autoSteps>>

\* start, continue and restart go on with a step of the driver, a restart in
\* auto mode only; continue with one of the wave, if there is one.
KickEnds ==
  /\ \E name \in {"start", "continue", "restart"} : Ended(name)
  /\ IF job["control"].name = "restart" /\ st.mode = "manual"
     THEN job' = NowIdle
     ELSE /\ FreeKicks # {}
          /\ job' = Started(NowIdle,
                            IF job["control"].name = "continue" /\ wave # NoWave
                            THEN "advance" ELSE "gather")
  /\ autoSteps' = IF job["control"].name = "start" THEN 0 ELSE autoSteps
  /\ UNCHANGED agent

\* op restart-feature puts the feature back to pending before it writes state.md.
Discard ==
  /\ job["control"].name = "discard"
  /\ LET cmd == job["control"].cmd
     IN  IF cmd.feature \in Present /\ status[cmd.feature] \in RestartableStatuses
         THEN /\ status' = [status EXCEPT ![cmd.feature] = "pending"]
              /\ job' = [job EXCEPT !["control"] =
                           Decision("restart", <<"restart">>, cmd)]
         ELSE job' = [job EXCEPT !["control"] = IdleJob] /\ UNCHANGED status
  /\ UNCHANGED <<conflicted, tested, planReviewed, st, agent, autoSteps, acts, waves>>

\* The session is restarted, and an interrupted run is paused.
Restart ==
  /\ Acts
  /\ turn' = NoTurn /\ queue' = <<>>
  /\ job' = [j \in Job |-> IdleJob]
  /\ autoSteps' = 0
  /\ CutShort
  /\ st' = IF st.mode = "auto" /\ st.phase \in ActivePhases
           THEN [st EXCEPT !.paused = TRUE] ELSE st
  /\ UNCHANGED bundle

Human ==
  /\ \/ StartAuto \/ Pause \/ Continue \/ Abort \/ ClickWave
     \/ Recover \/ Chat \/ Approve \/ CancelWork \/ Restart
  /\ Attended

\* What the human has set going and what does not count as unattended.
Settles ==
  /\ \/ PauseEnds \/ ResetEnds \/ GuideEnds \/ KickEnds \/ Discard
     \/ StartInTurn \/ \E k \in KickId : StartKick(k)
  /\ Attended

Runtime ==
  \/ \E j \in Job : Load(j) \/ Store(j)
  \/ \E k \in KickId : Gather(k) \/ DispatchStep(k) \/ DispatchFails(k) \/ EndKick(k)
  \/ \E k \in KickId : StartWave(k) \/ Advance(k) \/ DispatchItem(k) \/ EndWave(k)
  \/ StartTurn \/ EndTurn \/ \E k \in KickId : AgentEnd(k)
  \/ Settles

Next == Runtime \/ Work \/ Human

Spec == Init /\ [][Next]_vars /\ WF_vars(Runtime)

-----------------------------------------------------------------------------
(***************************************************************************)
(* Properties.  None presumes a patient human; FewRounds and OneAwaiting   *)
(* say what holds as long as no two chains have been alive at once.        *)
(***************************************************************************)

\* Left alone, auto mode stops: each chain of steps that was alive when the human
\* last did something dispatches at most AUTO_MAX_STEPS times before the breaker ends
\* it, also when the implementations among its steps replace the session
\* (iterator.js:896-917 and 1254-1257), when two chains count in one variable and when
\* the stale write of one undoes the pause of the other.  One more step may have been
\* counted before the human's reset.
BreakerHolds == unattended <= chains * (MaxSteps + 1)

\* Left alone, no feature is reviewed more than max_review_iterations times,
\* although the verdicts are read from the bundle only (pi-tools.mjs:382-409).  Two
\* chains count the strikes of one review twice or not at all.
FewRounds == ~crowded => \A f \in Feature : rounds[f] <= MaxReviews

\* Without a wave, which leaves the reviews to the human, at most one feature
\* waits for its review: "review always directly follows implement in auto mode"
\* (pi-tools.mjs:406-409).  Two chains may have chosen different features.
OneAwaiting ==
  ~crowded /\ waveLog.snapshot = <<>> =>
    Cardinality({f \in Present : status[f] = "implemented"}) <= 1

\* Auto mode is paused or over and so is the wave, nobody is at the controls, no
\* approval is being acted on, and no step has been decided on or waits for its turn;
\* the end of a wave may still be written.
Stopped ==
  /\ st.paused \/ (st.mode = "manual" /\ wave = NoWave)
  /\ job["control"].name = "idle" /\ turn.step # "approved"
  /\ \A k \in KickId :
       job[k].name \in {"idle", "ended", "gather", "advance"}
                        \cup (IF wave = NoWave THEN {"waved"} ELSE {})
  /\ queue = <<>>

\* What has stopped starts again by the hand of the human only (nextAutoAction,
\* and the session_start hook: "never resumes by surprise", iterator.js:1832).
StaysStopped == [][Stopped => Stopped' \/ Human]_vars

\* A run of auto mode comes to its end or to a pause, whatever the turns
\* achieve and whatever the human does in between ("never a silent stall",
\* iterator.js:948).
RunsEnd ==
  st.mode = "auto" /\ ~st.paused /\ st.phase \in ActivePhases
    ~> st.mode = "manual" \/ st.paused

\* Every feature that was ready when the wave was started is accounted for once,
\* also across pauses and the sessions its implementations replace, and has its
\* result when the wave has ended by itself (pi-tools.mjs:299-306, iterator.js:643).
WaveAccounts ==
  LET items == Items(IF wave = NoWave THEN [NewWave(<<>>) EXCEPT !.results = waveLog.results]
                                      ELSE wave)
  IN  waveLog.cut \/ /\ Len(items) = Len(waveLog.snapshot)
                     /\ ToSet(items) = ToSet(waveLog.snapshot)

\* The wave comes to its end or to a pause, whatever the turns achieve: exactly
\* one side resumes it (iterator.js:1872-1876).
WaveEnds == wave # NoWave ~> wave = NoWave \/ st.paused

\* What the control strip says of Abort: when it is through, the flow is reset
\* and nothing drives on (iterator.js:603-605).
AbortIsClean ==
  [][ResetEnds => /\ st.mode = "manual" /\ st.phase = "idle"
                  /\ \A k \in KickId : job[k].name # "dispatch"]_vars
=============================================================================
