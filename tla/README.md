# TLA+ models and proofs for iterator

iterator is a plan-driven workflow for a coding agent. A *plan* is sliced into
*features*; each is (optionally) tested, implemented, reviewed and accepted, and
all of it is kept as Markdown documents in `memory/`. Everything mechanical is a
deterministic Node script: `src/lib/write.mjs` changes the documents and makes
the git commits, `src/lib/gather.mjs` reads them. A human answers questions in a
browser dashboard. In the Pi runtime an extension (`src/extensions/iterator.js`)
keeps the dashboard server inside the agent's process and can drive the whole
flow by itself ("auto mode").

This directory models the parts of that system in which an order of events
matters, checks them with TLC and proves what matters most with TLAPS.

    tlc -workers 2 -config MCFeatureBundle.cfg MCFeatureBundle
    tlapm FeatureBundleProofs.tla

`PROJECT.json` lists components, runs, mutants, hazards, findings and theorems,
and maps every definition to the lines it models. Line numbers in this file are
of the files under `src/`.

## Inventory

| Component | State | Operations | What is hard | What makes it correct |
|---|---|---|---|---|
| Status rules (`lib/status.mjs`) | none | transition table, `depSatisfied`, `satisfiedSet`, `unfinished` | one rule used by every writer and gatherer | done is terminal; a dependency counts only when its setting says so |
| Topological sort (`lib/write.mjs:215`) | the loop's `placed`, `order` | Kahn's algorithm | dangling names, self-dependencies, stability | sound order, exact cycle verdict, termination |
| Writer, bundle operations (`lib/write.mjs`) | `plan.md`, `features/*.md` (`status`, `depends_on`), `settings.md`, `state.md` | `plan`, `features`, `update-feature`, `adjustments`, `settings`, `state`, `record-plan-review`, `retire-plan`, `cancel-feature`, `cancel-plan` | long legal sequences of operations; state that outlives its plan | dependencies resolve and are acyclic; done work stays done; a new plan starts clean |
| Writer, committing operations (`lib/write.mjs:1607-2091, 2569`) | the same, and git's index, working tree, branch, log | `commit-feature`, `commit-tests`, `accept-commit`, `restart-feature` | a commit fails between two documents and the operation is run again; what was staged before; trailers of earlier commits | pure commits, no lost work, never on the default branch, shas that exist |
| Gatherer (`lib/gather.mjs`) | a memo of the trailer scan | one payload for each step | two sources of a review (commits or working tree) | what is shown is what is accepted |
| Auto driver (`lib/pi-tools.mjs:373`, `extensions/iterator.js:641-994`) | `state.md` (mode, paused, phase, active feature, strikes, escalation), `autoSteps` | `kickAuto` at the end of each turn, control strip, escalation banner, session restart | every write of `state.md` is a process of its own; clicks while the driver is between two awaits; an approval that starts auto mode inside a live turn; a turn that achieves nothing; a session replaced by each implementation | bounded, stoppable, stays stopped, never stalls |
| Feature wave (`lib/pi-tools.mjs:279`, `extensions/iterator.js:760`) | the queue, the active item, results, `abortPending` | start, advance, pause, continue, abort | the end of an aborted turn races Continue; sessions replaced under it; features cancelled under it | each ready feature accounted for once; the wave ends |
| Session server (`lib/session-server.mjs`) | pending round, its timer and signal, cancel grace, run id, overlay and its owner, documents per tab, settings; in the browser, the shell's copy of these | `showStep`, `showView`, `showWorking`, `clearWorking`, `showModal`, HTTP requests, server-sent events | requests in two halves, timers and signals of rounds that are over, refreshes across awaits, connections that break | one ending for each round, by what belongs to it; an overlay that goes away; a shell that shows what is the case |
| One-shot server and takeover (`lib/server.mjs`, `lib/server/`, `lib/app.mjs`) | `done`, the grace timer, the writer it spawns, the registry file, the port | take over, listen, answer, cancel, be replaced | processes that kill one another, an answer being applied, a dashboard in the same registry | one JSON line, a cancel that is true, one server up, on the published port, and no dashboard killed |
| Extension glue (`extensions/iterator.js`) | session snapshot, usage buffer, `preAutoModel`, role turns | gather, invalidate, flush, switch and restore models | caches across awaits | nothing stale is acted on; the user's model comes back |
| Knowledge, memorize, backlog, design, usage (`lib/write.mjs`, `lib/gather.mjs`) | documents, the pointer `last_memorized_commit` | reviews of a range of commits, acceptance, one write for each of the others | flows that overlap; a writer killed between the cards and the pointer; the pointer gates retirement | the pointer never passes a commit nobody studied |
| Views, shell, skills, guardrails, settings validation | none | rendering, prose, stateless checks | - | out of scope |

How they interact: skills (prose the agent follows) and the extension call the
writer and the gatherer as child processes with JSON on stdin and stdout; they
share nothing but the files. The extension runs in the agent's process with the
session server; they share the round and the overlay's owner. The driver reacts
to the runtime's callbacks (`agent_end`, `session_start`), the control strip to
HTTP requests, and both write `state.md` through separate processes.

## Modules

| Module | Models | Kind |
|---|---|---|
| `FeatureStatus` | `lib/status.mjs` | operators, shared by all |
| `FeatureGraph` | the two verdicts of `writeFeatures` about a dependency graph | operators |
| `TopoSort` | `topoSort`, one action for each turn of the loop | state machine; MC instance in its own cfg |
| `TopoSortProofs` | | proofs |
| `FeatureBundle` | the bundle as the writer leaves it, one action for each operation | state machine; also the abstract specification of `CommitFlow` |
| `FeatureBundleProofs` | | proofs |
| `CommitFlow` | the committing operations, one action for each git call or document write that can be the last | state machine; refines `FeatureBundle` |
| `CommitFlowProofs` | | proofs |
| `FeatureWave` | the ready wave as a value: its queue, active item and results | operators, used by `AutoDriver` |
| `AutoDriver` | auto mode and the wave, under one `agent_end` and one control strip | state machine |
| `AutoDriverProofs` | | proofs that hold for any human: types, the wave's account |
| `DriverChainProofs` | | proofs that follow the chains of steps, also for any human; extends `AutoDriverProofs` |
| `Rounds` | what `showStep` promises | abstract specification |
| `SessionServer` | the session server with the extension's part in it, and the shell in the browser | state machine; refines `Rounds` |
| `SessionServerProofs` | | proofs |
| `OneShotServer` | one-shot processes and dashboards, the registry, the ports, signals, the answer and its writer | state machine |
| `OneShotServerProofs` | | proofs |
| `MemoryPointer` | the pointer and the flows that move it, over a branch that grows | state machine; MC instance in its own cfg |
| `MemoryPointerProofs` | | proofs |
| `MCFeatureBundle`, `MCCommitFlow`, `MCAutoDriver`, `MCOneShotServer` | constants for TLC | instances |

### FeatureBundle

`plan`, `features`, `status`, `deps` and `reviewRequired` are what the
documents say. `runtime` abstracts `state.md` to whose it is: reset to its
defaults, written under the present plan, or left over. `bypassed` is a history
variable: in this feature set `review_required` has been off,
`update-feature` has called a feature done before its dependencies were, or a
removal was killed. The first two are legal; each of them suspends the promise
that done stands on done.

Each writer operation validates against a bundle it has just loaded, and only
one runs at a time, so it is one action. Nothing is written in a transaction,
however: an operation that writes several documents may be killed between two of
them, and has an action for that. `WritePlanKilled` is an approval without its
reset of `state.md`; `WriteFeaturesKilled` has written some of a payload's
documents, in any order, or all and removed some; `RenameFeatureKilled` has moved
a document and rewired some of its dependents; `CancelFeatureKilled` has archived
it and scrubbed some; `ArchiveKilled` is a retirement or a cancellation of the
plan that has taken `plan.md` and some of the features. Operations that write one
document, or whose first part is itself an operation, need none. `torn` remembers
what such a kill leaves in doubt, the dependency lists or the ownership of
`state.md`. A re-slice that comes through settles the first, since it validates
every list, also those it does not write; a repeated approval settles the second;
archiving the plan settles both. In between the code gives no promise, and the
graph properties and `NoCarryOver` claim none: a killed cancellation leaves
features that wait for good, a re-slice killed half way may even close a cycle,
and a killed retirement leaves features that the next plan takes for its own.
`DoneIsFinal` holds throughout. A document half written is not modelled.

`accept-commit` can stop between two features;
its action ranges over what has landed. Where the code checks the graph with
`topoSort`, the action uses the declarative `Resolved` and `Acyclic`; module
`TopoSort` shows that the algorithm decides them. Left out by this
abstraction: worktrees, document bodies, index files.

### CommitFlow

The state adds git: `branch`, `dirty`, `index`, `trailers` (features that some
commit names), `surface` (files of those commits), and `clean` for the bundle's
own files. `op` is the program counter of the operation under way. Every feature
declares the file of its own name; `Stray` is a changed file nobody declares.
`Fails` stops an operation anywhere, leaving what it has done, which is what a
throw (`fail`, a failing `execFileSync` of git) does in the code. `Edit`,
`Stage` and `ReturnToMain` are the agent and the user between operations.
`HasCommits` is `resolveFeatureCommits`; `ReviewShows` is the choice of source
in `gatherReview`; the slim path, the bootstrap commit and the absorption of the
stray file follow `acceptCommit`. `promised` remembers what a successful accept
was shown as uncommitted work.

### AutoDriver

`NextAutoAction` follows `nextAutoAction` branch for branch. `job` holds the
asynchronous functions under way: several driver steps (`kickAuto` is called
from `agent_end`, from control actions and from starts without a lock) and at
most one control action. Each runs its `todo`, a list of writes of `state.md`,
and each write is a `Load` and a `Store` because it is a process that reads the
file, patches it and writes it back. `Gather` is the read and the decision, with
`autoSteps` counted in the same tick. A turn of the agent may do its work
(`Work`) or not before it ends; both are legal for a language model. `Handoff`
is the replacement of the session by an implementation, which carries the count
over. `Restart` is a `session_start` without that handoff.

The wave (`FeatureWave`) is a snapshot of the ready features, taken when its
button is clicked and implemented one after the other. It lives in the memory
of the extension, so `wave` is a variable beside `st`. It shares everything with
the driver: the agent's turns, `state.md`, the control strip and the end of a
turn. `EndTurn` is `agent_end`; what it goes on with is decided when it gets
there, `AgentEnd` for the wave and `Gather` for the driver, because the wave may
have been started or dropped while it awaited. Pausing puts the active item back
and sets `abortPending`, which the end of the aborted turn clears; exactly one
of that end and the human's Continue is to resume the wave. A dispatch that
fails, or a wave found dropped, is `GivenUp`, which writes a reset. `waveLog`
remembers what the wave began with. `ReadyLists` holds the one list that
`gatherImplement` makes of the ready features, in the order of the bundle;
`NextPlace` is where the loop over the queue (`pi-tools.mjs:326-349`) stops.

`CancelWork` cancels one feature from the dashboard, also while a turn works on
it: its document leaves the bundle (the domain of `status` shrinks), and
`state.md`, the wave and the turn know nothing of it.

Auto mode is started by the hub's button (`StartAuto`), or by the tool
`iterator_write` in the very turn in which the human approves the features
(`iterator.js:1466-1500`): `Approve` is the write, which the human has asked for,
and `StartInTurn` is what the tool does next, with the setting `auto_mode` on
or off. `startAuto` (`AutoStart`, `StartKick`) then runs beside that turn, whose
`agent_end` kicks the driver too. So with `auto_mode` on, two chains of steps are
the *normal* start of a run, and need no impatient human. Clicks inside the
driver's awaits, or a Continue before the paused turn has ended, make a second
chain as well.

A *chain* is a step of the driver or of the wave, a command in the queue, a turn,
or a control action that is about to begin one; `Tokens` counts those alive.
`chains` is their number when the human last did something, or when something he
had set going began (`Attended`: a click, or one of `Settles`), and `crowded`
remembers for good that there ever were two. Two chains count in one `autoSteps`,
write one `state.md` and use one agent: the stale write of one may undo the pause
of the other, one review is counted twice or not at all, two features are
implemented beside each other. What the properties say of that:

* `BreakerHolds` is claimed with any number of chains: what is dispatched
  unattended is bounded by the breaker for each of them. That it survives a pause
  that is undone is not obvious: the breaker sets the count back when it trips, but
  a chain that trips it ends.
* `StaysStopped`, `RunsEnd`, `WaveAccounts` and `WaveEnds` are claimed with any
  number of chains, too.
* `FewRounds` and `OneAwaiting` are claimed for runs that were never crowded.
  They do not speak of a run that was started by an approval, only of one started
  by the hub's button. Without that condition TLC finds `FewRounds` violated by a
  start inside a turn, and `OneAwaiting` by a human who presses the hub's button
  while the turn is there in which he then approves: one chain has chosen the
  second feature before the first is approved. A start inside a turn alone has
  not violated `OneAwaiting` in any instance tried (two reviews, a breaker of
  four, three actions: 15 million states), but that is not proved.

`Patient` says whether the human clicks only while no driver step is under way
(pause and abort while a turn runs are still allowed). No safety property and no
theorem rests on it. The run has it on, to be small enough; with it off, TLC has
checked the same properties on smaller ones: two actions with a breaker of two,
liveness included, or of three, and three actions with a breaker of one.

What else the model shows and no property forbids: a Pause that lands as the turn
ends by itself puts an item of a wave back that has been implemented, so that it
is reported once, but possibly as failed if its turn had not got that far
(`iterator.js:580-582`); starting auto mode while a paused wave is in memory lets
the wave go first and switch the mode back to manual; a restart loses the wave.
Two simplifications: an agent's review of the plan that ends auto mode writes the
end and sets `autoSteps` to 0 (`write.mjs:2663-2677`, `iterator.js:1475-1486`) in
one step, and each command that is dispatched is a turn of its own, also when two
are queued.

### SessionServer

One action for each handler or callback. A request is two actions where the
code is two callbacks: the head of a `/submit` compares the run id, its body
looks at the pending round. A refresh looks for a pending round before its
awaits and shows its view after them. `owner` and `claims` are `workingOwner`
and `workingSeq`; `suspended` is the owner that a pending round remembers;
`turnOwner` is the head of `agentWorkOwners`. A timer and a signal act on
whatever round is pending, as `settle` does in the code, so that it is a
property, not a definition, that they end only their own.

`shell` is the page in the browser, as it will be once the events on their way
to it have arrived: events of one connection arrive in order, so what the page
shows in the end is what the last of each kind said. `Disconnect` loses the
events on their way; `Reconnect` and `Reload` get what `GET /events` replays,
which is the overlay *or* the view, and the settings, and never what was missed.
`post` is a `/tab` request that may be overtaken by a refresh or be lost; a
refresh shows its tabs one by one and stores those silently that the server
believes the human is not looking at. Two tabs stand for four: `tabFor` sends
rounds to `planning` and `work` alike, and `knowledge` and `usage` are refreshed
as `planning` is.

Two things the model has and no property forbids. The settings can be closed
twice, since the shell hides them only when it is told; the second request finds
`modalHtml` empty and, with a round pending, is taken for the round's answer
(`session-server.mjs:544-551`), although "dismissal leaves the originating tab,
pending round, and Work overlay untouched" (`extensions/iterator.js:1118-1119`).
And a tab the human has just gone to can stay out of date, when its refresh is
stored before its `/tab` arrives.

### OneShotServer

A process is a number; `pc` is how far it has come. Starting, it reads the
registry (`ReadRegistry`), probes the entry and signals its pid (`Probe`), waits
for two seconds and kills it (`Wait`), removes the entry (`Unlink`), and walks up
the ports (`Bind`, `InUse`). With a published port it tries once to evict the
holder: a probe (`Reclaim`), then a signal to whoever has answered, or to whom
`lsof` names *by then* if nobody has (`Expel`), two seconds and a kill (`Evict`),
and two seconds more to see it gone (`Reap`). A dashboard comes up in the same
way, is recognised by its probe and left alone, writes its entry with every step
(`ShowStep`), and is never the one to be waited for.

A process that gets SIGKILL is `"dying"`: it does nothing any more, but holds its
port until the system has taken it down (`Dies`). `takeoverStale` does not wait
for that (`takeover.mjs:56-58`), `reclaimPort` does for two seconds (94-98), and
`killPid` reports a failure when the pid is still there, upon which the start
walks up.

An answer is two steps because the code is: `Submit` sets `done` and spawns the
writer, and once that returns the line is printed and the process exits. In
between it ignores SIGTERM, so that its successor may kill it: no line is
printed, while the writer lives on. That is why `LineContract` excepts a process
that was killed. `PageHides` holds a cancel back, `Reload` drops it.

`odd` remembers what the takeover cannot cope with:

| In `odd` | What has happened | Who excepts it, and what happens then |
|---|---|---|
| `overlap` | two processes were starting at once | `OneUp`, `FixedPort`: neither finds the other in the registry, or the entry of one is unlinked by the other; both stay up, on two ports |
| `silent` | a live server left a probe unanswered | `SessionSpared`, `OneUp`, `FixedPort`: `lsof` names a dashboard, or a one-shot is not replaced |
| `late` | a dashboard bound the first port after a probe of it found nobody and before `lsof` was asked | `SessionSpared`: it is killed, though it never left a probe unanswered |
| `lingers` | a start met its port with a process that was killed and is not gone | `FixedPort`: it walks up to a port that is not published |

Dashboards are excepted from `OneUp` and `FixedPort` as well. TLC reaches what
the last column says whenever the exception is dropped. "A live iterator session
dashboard is never killed" (`takeover.mjs:64`) and the fixed port
(`server.mjs:21-25`) are therefore true up to `late` and `lingers`; both are on
the hazard list. `LineContract` and `CancelIsClean` hold without any exception.

### MemoryPointer

Commits are numbered from 1 in the order they are made; `pointer` is
`last_memorized_commit`, 0 before the first review. A flow is one review of
`/iterator-init` or `/iterator-memorize` (`GatherInit`, `GatherRange`,
`Approve`), or one acceptance, of a commit that is there (`GatherCommitted`,
the slim path) or from the working tree (`GatherTree`). Whatever a flow has been
shown, it writes the cards (`WriteCards`) and then the pointer (`Advance`) with
the commit it began with. `BreaksOff` is a writer that is killed or finds the
cards invalid. Flows overlap freely, and their approvals come when they come.

`raced` are the commits made while an acceptance from the working tree was under
way: that acceptance advances the pointer to the commit it makes, past them,
although nobody has studied them. `KnowledgeFirst` excepts them. An acceptance
on the slim path may move the pointer back, which costs a second look and no
knowledge. Whether an acceptance advances the pointer is the agent's decision:
`acceptCommit` obeys the field `advance` it is given (`write.mjs:1868, 1882`).
`Evaluate` takes it to be made as the skill says, only if all the pending
commits were evaluated (`skills/iterator-implement/SKILL.md:202-206`);
`KnowledgeFirst` rests on that, and shows what the code adds to it: that the
commit the pointer goes to is one the study knew of, however late the writer
comes.

Not modelled: a rewritten history. `gatherRange` falls back to a
merge base only when the recorded commit does not exist, and then
`git merge-base` of it fails as well (`gather.mjs:785-790`), so that the range
starts from nothing.

## Runs

All passing runs finish within the limits below; a violation run shows what the
code does against what it says of itself.

| Run | Instance | Distinct states | Shows |
|---|---|---|---|
| `bundle` | 3 interchangeable slugs, payloads of at most 2 features, no second kill before the first is made good | 18,799 | type; `DepsResolve`, `DepsAcyclic`, `DoneStandsOnDone`, `NoCarryOver`, `DoneIsFinal` |
| `toposort` | lists of up to 3 features out of 3, any dependencies, one dangling name | 164,816 | type; `OrderRespectsDeps`, `CycleIsExact`, `SortedStaysPut`, `Terminates` |
| `commit` | 2 features, the second on the first; a stray file; tests first; commits fail | 943,225 | type; `CommitsArePure`, `WorkIsKept`, `DefaultBranchIsSafe`, `RecordedIsReal`, `SuccessIsCommitted`, refinement `StepsOfTheBundle` |
| `auto` | 2 features, tests first, a review each, a breaker of 2, two steps at once, 3 human actions | 456,956 | type; `BreakerHolds`, `FewRounds`, `OneAwaiting`, `StaysStopped`, `RunsEnd`, `WaveAccounts`, `WaveEnds` |
| `session` | 2 rounds, 3 claims, 2 tabs, any number of broken connections and of sessions | 1,208,352 | type; `EndingsAreOwn`, `ShellInSync`, refinement `RoundsAreResolved` with its liveness |
| `oneshot` | 2 one-shots and a dashboard started in any order, 2 ports and the system's pick, a published port | 453,792 | type; `LineContract`, `CancelIsClean`, `SessionSpared`, `OneUp`, `FixedPort`, `OneShotEnds` |
| `memory` | 2 flows at once, any number in turn, 4 commits, a backlog of 2 | 453,685 | type; `KnowledgeFirst`, `RetiredIsMemorized` |
| `bundle_dangling` | 2 slugs, overlapping payloads | - | violates `DepsResolve` |
| `commit_resume` | no tests, commits fail | - | violates `AcceptedWorkLands` |
| `commit_bookkeeping` | no tests, no failures | - | violates `BookkeepingIsPure` |
| `auto_abort` | as `auto` | - | violates `AbortIsClean` |
| `session_wedge` | 2 rounds, 3 claims | - | violates `OverlayIsReleased` |

Why the bounds are enough. *bundle*: a cycle that no payload contained needs two
features and a third to be renamed or cancelled around it; a payload of two can
close one, or be killed after the first. `KillsPileUp` being off keeps the
instance small: no operation is killed while another's remains are in doubt, nor
is there more to be seen then, since `torn` suspends the same claims. The proofs
cover every other size, and kills without limit. *toposort*: three features give
a chain, a diamond's half, a 2- and a 3-cycle and a node downstream of a cycle;
again the proofs cover every length. *commit*: a batch of two shows a failure
between two features; a dependency shows the gate; one stray file is enough for
absorption, bootstrap and restart. *auto*: with one review allowed, the first
strike escalates; the breaker (60 in the code) is 2, below what two features
with tests and reviews take, so that it trips with one chain and with two; a
second feature shows which is chosen; three actions allow a turn, its approval
and a pause, or pause, continue and abort, or a restart and two recoveries, a
wave that is paused and continued, or a feature cancelled in the midst of
either. Two steps under way at once are what a start inside a turn needs; the
proofs have no such bound. *session*: two rounds are what it takes for a timer,
a signal or a cancel that is held back to meet a round that is not its own, and
for a round to supersede another; three claims are a turn's own, an answer's and
one made meanwhile. Claims are counted afresh in each session. *oneshot*: two
one-shots and a dashboard show every pair that can meet in the registry and at
the port; the second port and the one the system picks show the walk up. The
proofs cover any number of all of them. *memory*: a fourth commit is needed for
two flows to overlap around a third one that neither made; a backlog of two lets
an acceptance find more than it may evaluate; again the proofs cover the rest.

Deadlock is checked in `bundle`, `commit` and `session`. It is switched off
where the system really ends: `topoSort` returns, auto mode with no human left
to act is over, one-shot processes exit, and the branch of `memory` is full.

### Fairness

* `TopoSort`: weak fairness of the loop; it is synchronous code.
* `AutoDriver`: weak fairness of `Runtime`, the union of what the runtime and
  node's event loop do: processes exit, promises resume, a queued turn starts, a
  turn ends. Nothing is assumed of `Work`: a turn may end without having
  achieved anything, and `RunsEnd` and `WaveEnds` hold nevertheless. Nothing is
  assumed of the human either.
* `SessionServer`: weak fairness of the round's timeout (a Node timer). Nothing
  is assumed of the browser or the human. The timer is the reason a round is
  resolved at all.
* `OneShotServer`: weak fairness, for each one-shot, of coming up (synchronous
  code, bounded waits), of its ends (the two-hour timer among them), of the
  writer's return and of going once it is killed. Nothing is assumed of the
  human, of signals or of dashboards.
* `MemoryPointer`: none, it has no liveness property; a review may lie there for
  ever.

### Findings

Five statements of the code about itself do not hold; `PROJECT.json` quotes
them. In short: a `features` payload with a slug in both lists leaves dangling
dependencies; a rerun of `accept-commit` after a failed commit drops the work it
was to complete; the bookkeeping commit of a slim accept takes staged files
along; Abort can be followed by one more dispatch; and the answer to a second
round of one turn leaves the overlay up, which blocks the dashboard.

## Proofs

| Theorem | For every | Says |
|---|---|---|
| `FeatureBundleProofs!TypeCorrect` | set of slugs, any kills | `TypeOK`, and slugs without a document are blank |
| `FeatureBundleProofs!GraphCorrect` | set of slugs, no overlapping payload, any kills | `DepsResolve` and `DepsAcyclic` |
| `FeatureBundleProofs!DoneSupported` | set of slugs, any kills | `DoneStandsOnDone` |
| `FeatureBundleProofs!DoneFinality` | set of slugs, any kills | `DoneIsFinal` |
| `FeatureBundleProofs!RuntimeIsFresh` | set of slugs, any kills | `NoCarryOver` |
| `FeatureBundleProofs!NoneWaitInACircle` | set of slugs, no overlapping payload, any kills | `DepsAcyclic` |
| `TopoSortProofs!TypesAreKept` | features, dangling names, length | `TypeOK` |
| `TopoSortProofs!OrderIsSound` | features, dangling names, length | `OrderRespectsDeps` |
| `TopoSortProofs!VerdictIsExact` | features, dangling names, length | `CycleIsExact` |
| `TopoSortProofs!SortedListsStay` | features, dangling names, length | `SortedStaysPut` |
| `CommitFlowProofs!TypesAreKept` | features, dependencies, failures | `TypeOK` |
| `CommitFlowProofs!CommitsStayPure` | features, dependencies, failures | `CommitsArePure` |
| `CommitFlowProofs!RecordedStaysReal` | features, dependencies, failures | `RecordedIsReal` |
| `CommitFlowProofs!SuccessStaysCommitted` | features, dependencies, failures | `SuccessIsCommitted` |
| `CommitFlowProofs!WorkStaysKept` | features, dependencies, failures | `WorkIsKept` |
| `CommitFlowProofs!DefaultBranchStaysSafe` | features, dependencies, failures | `DefaultBranchIsSafe` |
| `CommitFlowProofs!FlowsImplementTheBundle` | features, dependencies, failures | `StepsOfTheBundle` |
| `AutoDriverProofs!TypesAreKept` | features, order, limits, steps at once, any human | `TypeOK` |
| `AutoDriverProofs!WavesAreAccountedFor` | the same | `WaveAccounts` |
| `DriverChainProofs!OneToken` | features, order, limits, steps at once, any human | never more chains than the human set going; one at a time unless two were alive at once |
| `DriverChainProofs!StoppedIsFinal` | features, order, limits, steps at once, any human | `StaysStopped` |
| `DriverChainProofs!TheBreakerHolds` | features, order, limits, steps at once, any human | `BreakerHolds`, for each chain |
| `DriverChainProofs!FewRoundsOfReview` | features, order, limits, steps at once, any human | `FewRounds`, never crowded |
| `DriverChainProofs!OneAwaitsItsReview` | features, order, limits, steps at once, any human | `OneAwaiting`, never crowded |
| `SessionServerProofs!TypesAreKept` | rounds, claims | `TypeOK` |
| `SessionServerProofs!ShellStaysInSync` | rounds, claims | `ShellInSync` |
| `SessionServerProofs!EndingsStayOwn` | rounds, claims | `EndingsAreOwn` |
| `SessionServerProofs!RoundsAreAskedAndResolvedOnce` | rounds, claims | `Rounds` without its fairness |
| `OneShotServerProofs!TypesAreKept` | one-shots, dashboards, ports | `TypeOK` |
| `OneShotServerProofs!OneLine` | one-shots, dashboards, ports | `LineContract` |
| `OneShotServerProofs!CancelTrue` | one-shots, dashboards, ports | `CancelIsClean` |
| `OneShotServerProofs!SessionsLive` | one-shots, dashboards, ports | `SessionSpared` |
| `OneShotServerProofs!SingleUp` | one-shots, dashboards, ports | `OneUp` |
| `OneShotServerProofs!PortStays` | one-shots, dashboards, ports | `FixedPort` |
| `MemoryPointerProofs!PointerTyped` | flows, commits, backlog | `TypeOK` |
| `MemoryPointerProofs!PointerRule` | flows, commits, backlog | `KnowledgeFirst` |
| `MemoryPointerProofs!RetirementWaits` | flows, commits, backlog | `RetiredIsMemorized` |

The arguments. *Graph*: `DepsResolve` and `DepsAcyclic` have to be proved
together, for a rename keeps the graph acyclic only because nothing refers to
the new name beforehand. `AcyclicPart` and `AcyclicRename` are the two facts
about graphs; a re-slice is acyclic because what it validates is what it writes,
which needs the assumption `NoOverlap`, and `bundle_dangling` shows that it is
needed. That argument uses nothing of the graph that was there, so it holds
after a kill as well, which is why a re-slice makes up for one. *Done*: the
inductive invariant adds `BypassIsRecorded` (with the flag down,
`review_required` is on), without which `commit-feature` and `accept-commit`
might rely on an unreviewed dependency, and `AbsentIsBlank`, without which a new
document could be born done. *Finality* is an action property and needs type
correctness only. *Sort*: `LoopInv` says that `placed` and `order` are the same
set, that every set of features meeting `placed` has a member that waits for
none of the others, and that nothing can be placed when the loop has ended; from
the second follows that the loop never places part of a cycle, from the third
that what it leaves over is one. *One line, true cancels*: `ContractInv` reads
off `pc` what a process has printed and what its writer does: nothing before it
serves, nothing while it serves, a writer while it applies. Every way to print
goes through `pc`, so no two of them meet. *Dashboards*: `SparedInv` says that,
`silent` and `late` apart, nobody waits for a dashboard, nobody has chosen one
to be evicted, and whoever has probed the first port in vain and is about to ask
who holds it would not find one there; `Asked` adds that whoever a probe has
named has been started. *Single instance*: `Single` is claimed while starts have
followed each other, probes were answered and no dashboard is up. Then the one
that is starting finds its predecessor in the registry or finds nobody up, waits
for it until it is gone or has killed it, so that what may still hold a port is
dying; `First` adds that unless a start has met such a port, it binds the first
one. Without `Single`'s clause on the registry, that a server that is up is the
registered one, nothing would tell the successor whom to replace. *Pointer*:
`MemoryInv` says of every flow what it will have made known when it advances: up
to `seen`, every commit is studied and written, or in its batch, or raced. It
has to hold of flows that have been overtaken, since a late one advances all the
same.

*Sorted lists*: `PrefixInv` says that of a list that is sorted already, `order`
is a prefix. The next item can then be placed because all it waits for is
before it, and none of the placed ones is left to be taken in its stead.

*Committing operations*: `CommitInv` is one invariant for all of them. `UnderWay`
says that an operation under way has left the default branch and reports
nothing; `TodoInv` that a commit is that of the first feature to come; `AcceptInv`
that what is left of an accepted batch stays acceptable until it is its turn;
`StrayInv` and `IndexInv` which files can be staged at which counter, since
purity is decided when the index is reset and not when the commit is made;
`MadeInv` says that what an operation is about to record has been committed.
`BundleStep` takes each action to the action of `FeatureBundle` it implements,
or to a stutter.

*Session server*: `RoundInv` says that the pending round is the one that waits,
that timers and signals exist for it only, and that a cancel that is held back
is for it or for a round that is over. `EndingsAreOwn` and the steps of `Rounds`
follow, because a timer resolves whatever is pending. `ShellInSync` is inductive
by itself once the types are there: every action that changes what the server
shows says so to a connected shell, and a shell that reconnects is told the
present.

*One-shot types*: two processes never hold one port, which needs that the port
the system picks (`MaxPort + p`) is the process's own; that what `want` counts
stays within the ports needs `ReclaimsFirst`, that only the first port is ever
reclaimed.

*Auto driver, any human*: the writes a job has left follow from its name
(`Shape`, part of `TypeInv`), so that whatever the racing processes load and
store of `state.md` is made of features of the plan. `autoSteps` is held down by
the escalations under way (`StepsInv`), each of which has counted one step past
the limit. The wave's account is a bijection in disguise: `NextFeatureWave`
moves the active item and those passed over into the results and leaves the
others where they are, so that length and set of all items stay the same.

*Chains of steps*: `ChainInv` says that no step makes two chains of one: a step
ends in one command at most, a command is one turn, the end of a turn is one
step; `kickAuto` takes no lock, and that it needs none for its own sake has to
be proved, from the end of each being the only begin of the next. Only what the
human does, or what he has set going, adds one, and then it is counted afresh.
As long as there never were two, `TokenInv` says what one chain is, and
`NoneBeside` that no approval has put a start beside its turn. `StaysStopped`
needs none of this.

*Breaker*: `Due` is what was dispatched unattended and what has been counted but
not yet dispatched. It is bounded twice, both by the number of chains: by
`chains * (MaxSteps + 1)`, and, as long as the plan is not reviewed, by what the
chains that are no longer alive had to spend, and `autoSteps` (`Paid`). The second
is what a chain that trips the breaker needs, since it sets the count back but
ends with it; a stale write that undoes its pause brings the mode back, not the
chain. A review of the plan sets the count back and leaves its chain alive, but
comes last (`PlanLast`): with everything done and reviewed, nothing more is
dispatched.

*Reviews*: `FewInv` and `OneInv` are claimed while never crowded. `FewInv` is
about every copy of `state.md` there is: the file and what the processes have
loaded (`Files`). In each, the strikes are below the limit; in those that the
driver may go on with, the rounds of a feature are its strikes, or one more while
the file says that it is under review (`Verdicts`, `Within`, `Under`), and a
dispatch that has been decided on keeps that through each of its two writes
(`Decided`).
`OneInv` holds as long as no wave was started, for a wave implements without
reviews. The feature a file calls under review is the one that waits
(`ReviewNext`), what the driver has decided, queued or begun is about that
feature (`OneDecided`, `OneTurn`), and so is the human's answer to an escalation
(`Advice`); while one is shown nothing implements (`HandsUp`, `Calm`). Without
`HandsUp` the invariant is not inductive: a guide of a feature that was
escalated would let it be implemented beside another one.

The invariants were checked with TLC on instances like that of `auto` before they
were proved.

Assumptions: only the named `ASSUME`s of the modules, which say the types of
the constants, and the hypothesis the table names, `NoOverlap` for the graph of
the bundle. That `Order` is a sequence
of features, `KickId` finite and `Everything` no feature is what the driver's
proofs need of its constants; no more is said of them.

Model-checked only: `Terminates`, `RunsEnd`, `WaveEnds`, `OneShotEnds` and the
liveness part of `RoundsAreResolved`. Liveness under fairness and ENABLED are out
of the prover's reach and stay with TLC; every other property of a passing run
is stated by a theorem. That `FewRounds` and `OneAwaiting` fail with two chains, and
what happens in each of the cases `odd` excepts, is shown by TLC and not proved.

## Not modelled, and why

* The caches of the extension: the snapshot of the gathered session, the buffer
  of usage rows, the user's model while a role's is on. The first two delay what
  views show; the third hangs on the agent runtime's own queue of turns, whose
  code is not in this repository.
* Worktrees, document bodies, the log, the indexes: no other operation's
  control depends on them. Where it would matter the hazard list says so.
* Explicit dispositions in an accept and `block_commit_on_leftovers` off: the
  default is modelled.
* In auto mode: cancelling the whole plan, which leaves a paused wave in memory;
  a gather or a write of `state.md` that fails, after which auto mode is on with
  nothing under way; a new session that the user cancels.
* In the session server: the fast track of a plan, which asks a round without a
  turn; backlog saves; the lines of activity and the chips of the control strip.
* In the one-shot server: foreign holders of the port, the exemption of a start's
  own parent from being evicted, the IPv4 fallback, listen
  errors other than a port in use, tabs of earlier runs, malformed answers.
* Of memory: rewritten history, consolidation, an explicit advance, an agent that
  asks for the advance against its skill.
* Views, skills, settings validation, guardrails, sync scripts: no state or no
  protocol.
* `skills/iterator/lib` is a byte copy of `lib`: what is said of the one holds of
  the other, and `PROJECT.json` maps the original only. It is half of the
  repository's library code, so that the share of lines mapped is at most half of
  what it would be without it.

## Plan

Built so far, in this order: the status rules and the sort, the bundle with its
proofs, the committing operations as a refinement of it, auto mode, the session
server; then the wave, composed into auto mode, the one-shot server with its
proofs, the memory pointer with its proofs, cancelled features in auto mode, the
shell, the tabs and the settings in the session server, and writers that are
killed in the bundle and its proofs; then the proofs of the committing
operations, the session server and auto mode. Next:

1. Proofs: that an accepted feature's work is in a
   commit, for accepts that are not rerun (`AcceptedWorkLands` without the case of
   the finding); a bound of the claims in `SessionServer`.
2. The worktree a plan may be moved to: two checkouts with a bundle each, of which
   the plan document says which one counts.
3. The replacement of the session as steps of its own (`newSession` cancelled, a
   wave or a count handed over and lost), and cancelling the plan, in
   `AutoDriver`.
