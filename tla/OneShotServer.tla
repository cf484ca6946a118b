---------------------------- MODULE OneShotServer ----------------------------
(***************************************************************************)
(* The one-shot servers and the port they share (src/lib/server.mjs,       *)
(* src/lib/server/takeover.mjs, src/lib/server/listen.mjs and onSubmit of  *)
(* src/lib/app.mjs).  Each is a process that shows one page, prints one    *)
(* line and exits.  Starting, it tells its predecessor, which it finds in  *)
(* a registry file, to go; a session dashboard starts in the same way and  *)
(* is to be spared.  Pids are numbers; ports are counted from the first    *)
(* one to try.                                                             *)
(***************************************************************************)
EXTENDS Integers, FiniteSets

CONSTANTS
  OneShot,     \* the one-shot processes, in the order of their start
  Session,     \* the processes of session dashboards
  MaxPort,     \* the last port of the walk up
  ForcePort    \* is only the first port published?

Process == OneShot \cup Session

ASSUME OneShotAssumption ==
  /\ OneShot \subseteq Nat \ {0} /\ Session \subseteq Nat \ {0}
  /\ OneShot \cap Session = {}
  /\ MaxPort \in Nat /\ ForcePort \in BOOLEAN

VARIABLES
  pc,        \* how far a process has come
  target,    \* the registry entry, or the holder of the port, it acts on
  want,      \* the next port to try
  reclaimed, \* the processes that have tried to reclaim the first port
  port,      \* the port a process listens on
  registry,  \* the registry file
  term,      \* the processes with a SIGTERM not yet handled
  grace,     \* the processes with a cancel held back
  line,      \* what a process has printed
  writer,    \* the writer a process has spawned
  odd        \* history: "overlap", two processes have been starting at once;
             \* "silent", a live server has left a probe unanswered;
             \* "late", a dashboard has taken the first port after another
             \* process has probed it in vain and before it looks who holds it;
             \* "lingers", a start has found its port with a process that has
             \* been killed and is not gone yet

start == <<target, want, reclaimed>>
server == <<port, registry, term, grace, line, writer>>
vars == <<pc, start, server, odd>>

Nobody == 0
Ports == 0..MaxPort \cup {MaxPort + p : p \in Process}
NoPort == -1
NoEntry == [pid |-> Nobody, port |-> NoPort]

Starting ==
  {"read", "probe", "wait", "unlink", "listen", "reclaim", "expel", "evict",
   "reap", "bound"}
Dead == {"gone", "killed"}
Endings == {"answer", "cancel", "timeout"}
Oddities == {"overlap", "silent", "late", "lingers"}

TypeOK ==
  /\ pc \in [Process -> {"off", "serving", "applying", "printed", "dying"}
                            \cup Starting \cup Dead]
  /\ \A p \in Process : target[p].pid \in Process \cup {Nobody}
  /\ want \in [Process -> 0..(MaxPort + 1)]
  /\ reclaimed \in SUBSET Process
  /\ port \in [Process -> Ports \cup {NoPort}]
  /\ \A p, q \in Process : port[p] = port[q] /\ port[p] # NoPort => p = q
  /\ registry.pid \in Process \cup {Nobody}
  /\ term \in SUBSET Process
  /\ grace \in SUBSET OneShot
  /\ line \in [Process -> Endings \cup {"none", "twice"}]
  /\ writer \in [Process -> {"none", "running", "ran"}]
  /\ odd \in SUBSET Oddities

Init ==
  /\ pc = [p \in Process |-> "off"]
  /\ target = [p \in Process |-> NoEntry]
  /\ want = [p \in Process |-> 0]
  /\ reclaimed = {}
  /\ port = [p \in Process |-> NoPort]
  /\ registry = NoEntry
  /\ term = {} /\ grace = {}
  /\ line = [p \in Process |-> "none"]
  /\ writer = [p \in Process |-> "none"]
  /\ odd = {}

-----------------------------------------------------------------------------
(***************************************************************************)
(* Ends of a process.                                                      *)
(***************************************************************************)

Goes(p, at) == pc' = [pc EXCEPT ![p] = at]

Prints(p, ending) ==
  line' = [line EXCEPT ![p] = IF @ = "none" THEN ending ELSE "twice"]

Deregisters(p) == registry' = IF registry.pid = p THEN NoEntry ELSE registry

\* The answer has been taken: the flag done.
Done(p) == pc[p] \in {"applying", "printed"}

\* finish: the one line, and the process is over.
Finish(p, ending) ==
  /\ Prints(p, ending)
  /\ Goes(p, "gone")
  /\ port' = [port EXCEPT ![p] = NoPort]
  /\ Deregisters(p)
  /\ grace' = grace \ {p}
  /\ UNCHANGED <<start, writer, odd>>

\* SIGTERM, which a process that has been killed no longer comes to handle.
Signals(q) == term' = term \cup {p \in {q} : pc[p] # "dying"}

\* Mutant: a process that is not gone in time is only told to go once more.
KilledPolitely(p, by, next) ==
  /\ Goes(by, next)
  /\ Signals(p)
  /\ UNCHANGED <<start, port, registry, grace, line, writer, odd>>

\* SIGKILL: from here on the process does nothing, but it is not gone yet and
\* holds its port; the writer it has spawned lives on.
Killed(p, by, next) ==
  /\ pc' = [pc EXCEPT ![p] = "dying", ![by] = next]
  /\ term' = term \ {p} /\ grace' = grace \ {p}
  /\ UNCHANGED <<start, port, registry, line, writer, odd>>

\* The system has taken it down.
Dies(p) ==
  /\ pc[p] = "dying"
  /\ Goes(p, "killed")
  /\ port' = [port EXCEPT ![p] = NoPort]
  /\ UNCHANGED <<start, registry, term, grace, line, writer, odd>>

-----------------------------------------------------------------------------
(***************************************************************************)
(* takeoverStale.                                                          *)
(***************************************************************************)

Start(p) ==
  /\ pc[p] = "off"
  /\ p \in OneShot => \A q \in OneShot : q < p => pc[q] # "off"
  /\ Goes(p, "read")
  /\ odd' = odd \cup {o \in {"overlap"} : \E q \in Process : pc[q] \in Starting}
  /\ UNCHANGED <<start, server>>

ReadRegistry(p) ==
  /\ pc[p] = "read"
  /\ target' = [target EXCEPT ![p] = registry]
  /\ Goes(p, IF registry = NoEntry THEN "listen" ELSE "probe")
  /\ UNCHANGED <<want, reclaimed, server, odd>>

\* Who listens on a port: one process at most.
Holder(w) == {q \in Process : port[q] = w /\ w # NoPort}

\* Who of them can answer.
Alive(w) == {q \in Holder(w) : pc[q] # "dying"}

\* Who answers a probe of the port, if anybody does within its 500 ms.
Status(w) == Alive(w) \cup {Nobody}

Heard(s, w) == odd' = odd \cup {o \in {"silent"} : s = Nobody /\ Alive(w) # {}}

\* Mutant: a session is told to go like any other.
ProbeSparesNobody(p) ==
  /\ pc[p] = "probe"
  /\ \E s \in Status(target[p].port) :
       /\ Heard(s, target[p].port)
       /\ IF s = target[p].pid
            THEN Goes(p, "wait") /\ term' = term \cup {s}
            ELSE Goes(p, "unlink") /\ UNCHANGED term
  /\ UNCHANGED <<start, port, registry, grace, line, writer>>

Probe(p) ==
  /\ pc[p] = "probe"
  /\ \E s \in Status(target[p].port) :
       /\ Heard(s, target[p].port)
       /\ \/ s \in Session /\ Goes(p, "listen") /\ UNCHANGED term
          \/ /\ s \in OneShot /\ s = target[p].pid
             /\ Goes(p, "wait") /\ term' = term \cup {s}
          \/ /\ s \notin Session /\ s # target[p].pid
             /\ Goes(p, "unlink") /\ UNCHANGED term
  /\ UNCHANGED <<start, port, registry, grace, line, writer>>

Over(q) == pc[q] \in Dead

\* The signalled process is gone within its two seconds, or is killed: it has
\* ignored the signal or has not come to handle it.  Nobody waits for a killed
\* process here.
Wait(p) ==
  /\ pc[p] = "wait"
  /\ LET q == target[p].pid
     IN  \/ Over(q) /\ Goes(p, "unlink") /\ UNCHANGED <<start, server, odd>>
         \/ ~Over(q) /\ Killed(q, p, "unlink")

Unlink(p) ==
  /\ pc[p] = "unlink"
  /\ registry' = NoEntry
  /\ Goes(p, "listen")
  /\ target' = [target EXCEPT ![p] = NoEntry]
  /\ UNCHANGED <<want, reclaimed, port, term, grace, line, writer, odd>>

-----------------------------------------------------------------------------
(***************************************************************************)
(* listenWithTakeover and reclaimPort.                                     *)
(***************************************************************************)

WalkUp(p) ==
  /\ want' = [want EXCEPT ![p] = @ + 1]
  /\ Goes(p, "listen")
  /\ target' = [target EXCEPT ![p] = NoEntry]
  /\ UNCHANGED <<reclaimed, server>>

Tried(p) == IF want[p] > MaxPort THEN MaxPort + p ELSE want[p]

\* Mutant: a port is shared with whoever holds it.
BindShared(p) ==
  /\ pc[p] = "listen"
  /\ port' = [port EXCEPT ![p] = Tried(p)]
  /\ Goes(p, "bound")
  /\ UNCHANGED <<start, registry, term, grace, line, writer, odd>>

\* Somebody has probed the port in vain and has yet to look who holds it.
Unanswered(w) ==
  \E q \in Process : pc[q] = "expel" /\ target[q] = [pid |-> Nobody, port |-> w]

\* The port is free, or all are taken and the system picks one.
Bind(p) ==
  /\ pc[p] = "listen"
  /\ Holder(want[p]) = {} \/ want[p] > MaxPort
  /\ port' = [port EXCEPT ![p] = Tried(p)]
  /\ odd' = odd \cup {o \in {"late"} : p \in Session /\ Unanswered(Tried(p))}
  /\ Goes(p, "bound")
  /\ UNCHANGED <<start, registry, term, grace, line, writer>>

InUse(p) ==
  /\ pc[p] = "listen"
  /\ Holder(want[p]) # {} /\ want[p] <= MaxPort
  /\ odd' = odd \cup {o \in {"lingers"} : Holder(want[p]) # Alive(want[p])}
  /\ \/ /\ ForcePort /\ want[p] = 0 /\ p \notin reclaimed
        /\ reclaimed' = reclaimed \cup {p}
        /\ Goes(p, "reclaim")
        /\ UNCHANGED <<target, want, server>>
     \/ /\ ~(ForcePort /\ want[p] = 0 /\ p \notin reclaimed)
        /\ WalkUp(p)

\* The probe: it names a one-shot, which is to go, or nobody.
Reclaim(p) ==
  /\ pc[p] = "reclaim"
  /\ \E s \in Status(0) :
       /\ Heard(s, 0)
       /\ \/ s \in Session /\ WalkUp(p)
          \/ /\ s \notin Session
             /\ target' = [target EXCEPT ![p] = [pid |-> s, port |-> 0]]
             /\ Goes(p, "expel")
             /\ UNCHANGED <<want, reclaimed, server>>

\* Told to go: the one who has answered, unless it has gone meanwhile, or else
\* whom the system names as the holder by now.
Victims(p) ==
  IF target[p].pid = Nobody THEN Holder(0)
                            ELSE {q \in {target[p].pid} : ~Over(q)}

Expel(p) ==
  /\ pc[p] = "expel"
  /\ UNCHANGED odd
  /\ \/ Victims(p) = {} /\ WalkUp(p)
     \/ \E q \in Victims(p) :
          /\ Signals(q)
          /\ target' = [target EXCEPT ![p] = [pid |-> q, port |-> 0]]
          /\ Goes(p, "evict")
          /\ UNCHANGED <<want, reclaimed, port, registry, grace, line, writer>>

\* killPid: whoever is not gone in time is killed and waited for once more.
Evict(p) ==
  /\ pc[p] = "evict"
  /\ LET q == target[p].pid
     IN  \/ Over(q) /\ Goes(p, "listen") /\ UNCHANGED <<start, server, odd>>
         \/ ~Over(q) /\ Killed(q, p, "reap")

Reap(p) ==
  /\ pc[p] = "reap"
  /\ \/ /\ Over(target[p].pid) /\ Goes(p, "listen")
        /\ UNCHANGED <<start, server>>
     \/ ~Over(target[p].pid) /\ WalkUp(p)
  /\ UNCHANGED odd

\* onListen; what the start has kept goes with it.
Register(p) ==
  /\ pc[p] = "bound"
  /\ registry' = [pid |-> p, port |-> port[p]]
  /\ Goes(p, "serving")
  /\ target' = [target EXCEPT ![p] = NoEntry]
  /\ want' = [want EXCEPT ![p] = 0]
  /\ reclaimed' = reclaimed \ {p}
  /\ UNCHANGED <<port, term, grace, line, writer, odd>>

-----------------------------------------------------------------------------
(***************************************************************************)
(* Signals, requests and timers of a server.                               *)
(***************************************************************************)

\* Whoever has started a one-shot may interrupt it.
Interrupt(p) ==
  /\ p \in OneShot /\ pc[p] \notin Dead \cup {"off", "dying"}
  /\ term' = term \cup {p}
  /\ UNCHANGED <<pc, start, port, registry, grace, line, writer, odd>>

\* Mutant: a signal ends a process that is applying its answer.
HandleTermAlways(p) ==
  /\ p \in term
  /\ term' = term \ {p}
  /\ Finish(p, "cancel")

\* A one-shot that has its answer ignores the signal; an agent dies of it.
HandleTerm(p) ==
  /\ p \in term
  /\ term' = term \ {p}
  /\ \/ /\ p \in OneShot /\ ~Done(p)
        /\ Finish(p, "cancel")
     \/ /\ p \in OneShot /\ Done(p)
        /\ UNCHANGED <<pc, start, port, registry, grace, line, writer, odd>>
     \/ /\ p \in Session
        /\ Goes(p, "killed")
        /\ port' = [port EXCEPT ![p] = NoPort]
        /\ UNCHANGED <<start, registry, grace, line, writer, odd>>

\* The browser's answer, with something to write or without.
Submit(p) ==
  /\ p \in OneShot /\ pc[p] = "serving"
  /\ Goes(p, "applying")
  /\ \E w \in {"none", "running"} : writer' = [writer EXCEPT ![p] = w]
  /\ UNCHANGED <<start, port, registry, term, grace, line, odd>>

WriterEnds(p) ==
  /\ writer[p] = "running"
  /\ writer' = [writer EXCEPT ![p] = "ran"]
  /\ UNCHANGED <<pc, start, port, registry, term, grace, line, odd>>

\* Mutant: only the writer's end brings the answer on.
AnswerOfWriter(p) ==
  /\ pc[p] = "applying" /\ writer[p] = "ran"
  /\ Prints(p, "answer")
  /\ Goes(p, "printed")
  /\ port' = [port EXCEPT ![p] = NoPort]
  /\ UNCHANGED <<start, registry, term, grace, writer, odd>>

\* The registry entry stays.
Answer(p) ==
  /\ pc[p] = "applying" /\ writer[p] # "running"
  /\ Prints(p, "answer")
  /\ Goes(p, "printed")
  /\ port' = [port EXCEPT ![p] = NoPort]
  /\ UNCHANGED <<start, registry, term, grace, writer, odd>>

Exit(p) ==
  /\ pc[p] = "printed"
  /\ Goes(p, "gone")
  /\ term' = term \ {p} /\ grace' = grace \ {p}
  /\ UNCHANGED <<start, port, registry, line, writer, odd>>

CancelNow(p) ==
  /\ p \in OneShot /\ pc[p] = "serving" /\ p \notin grace
  /\ Finish(p, "cancel")
  /\ term' = term \ {p}

PageHides(p) ==
  /\ p \in OneShot /\ pc[p] = "serving" /\ p \notin grace
  /\ grace' = grace \cup {p}
  /\ UNCHANGED <<pc, start, port, registry, term, line, writer, odd>>

Reload(p) ==
  /\ p \in grace /\ pc[p] \in {"serving", "applying"}
  /\ grace' = grace \ {p}
  /\ UNCHANGED <<pc, start, port, registry, term, line, writer, odd>>

\* Mutant: the grace of a page that has gone outlives its answer.
GraceExpiresAlways(p) ==
  /\ p \in grace
  /\ Finish(p, "cancel")
  /\ term' = term \ {p}

\* finish does nothing once there is an answer.
GraceExpires(p) ==
  /\ p \in grace
  /\ \/ /\ ~Done(p)
        /\ Finish(p, "cancel")
        /\ term' = term \ {p}
     \/ /\ Done(p)
        /\ grace' = grace \ {p}
        /\ UNCHANGED <<pc, start, port, registry, term, line, writer, odd>>

Timeout(p) ==
  /\ p \in OneShot /\ pc[p] = "serving"
  /\ Finish(p, "timeout")
  /\ term' = term \ {p}

\* A dashboard writes its entry again with every step it shows.
ShowStep(p) ==
  /\ p \in Session /\ pc[p] = "serving"
  /\ registry' = [pid |-> p, port |-> port[p]]
  /\ UNCHANGED <<pc, start, port, term, grace, line, writer, odd>>

\* session_shutdown.
Stop(p) ==
  /\ p \in Session /\ pc[p] = "serving"
  /\ Goes(p, "gone")
  /\ port' = [port EXCEPT ![p] = NoPort]
  /\ term' = term \ {p}
  /\ Deregisters(p)
  /\ UNCHANGED <<start, grace, line, writer, odd>>

-----------------------------------------------------------------------------

\* What a process does by itself.
ComesUp(p) ==
  \/ ReadRegistry(p) \/ Probe(p) \/ Wait(p) \/ Unlink(p)
  \/ Bind(p) \/ InUse(p) \/ Reclaim(p) \/ Expel(p) \/ Evict(p) \/ Reap(p)
  \/ Register(p)

Ends(p) == Answer(p) \/ Exit(p) \/ GraceExpires(p) \/ Timeout(p)

Browser(p) == Submit(p) \/ CancelNow(p) \/ PageHides(p) \/ Reload(p)

Next ==
  \E p \in Process :
    \/ Start(p) \/ ComesUp(p) \/ Interrupt(p) \/ HandleTerm(p)
    \/ Browser(p) \/ WriterEnds(p) \/ Ends(p)
    \/ ShowStep(p) \/ Stop(p) \/ Dies(p)

\* A one-shot runs, its timers fire, the writer it has spawned returns and the
\* system takes it down once it is killed; the human, the signals and the
\* dashboard may stay away.
Fairness ==
  \A p \in OneShot :
    /\ WF_vars(ComesUp(p)) /\ WF_vars(Ends(p))
    /\ WF_vars(WriterEnds(p)) /\ WF_vars(Dies(p))

Spec == Init /\ [][Next]_vars /\ Fairness

-----------------------------------------------------------------------------
(***************************************************************************)
(* Properties.  What the takeover promises depends on what has been odd;   *)
(* and what it promises of ports and of one-shots alone, on there being no *)
(* dashboard.                                                              *)
(***************************************************************************)

\* Nothing of this kind has happened.
Never(oddities) == odd \cap oddities = {}

\* Starts have followed each other, and live servers have answered.
Calm == Never({"overlap", "silent"})

Alone == \A s \in Session : pc[s] = "off"

\* The output contract, over every interleaving of the answer, the cancel that
\* is held back, the signals and the two hours: a one-shot prints at most one
\* line, and has printed one unless it was killed (server.mjs:33-38).
LineContract ==
  \A p \in OneShot : line[p] # "twice" /\ (pc[p] = "gone" => line[p] # "none")

\* A reported cancel or timeout is true: the writer has not run and will not
\* ("Nothing was written", app.mjs:96).
CancelIsClean ==
  \A p \in OneShot : line[p] \in {"cancel", "timeout"} => writer[p] = "none"

\* A dashboard is never killed to make room, however many starts overlap: its
\* process is the agent itself (takeover.mjs:37-48, 64-65).  That rests on the
\* probes being answered, and on no dashboard taking the port between a probe
\* that found nobody and the look who holds it.
SessionSpared ==
  Never({"silent", "late"}) => \A s \in Session : pc[s] \notin {"dying", "killed"}

Up(p) == pc[p] \in {"serving", "applying"}

\* The single instance: a one-shot that has come up has replaced the others,
\* the one still applying its answer included (takeover.mjs:51-57).
OneUp ==
  Calm /\ Alone => \A p, q \in OneShot : Up(p) /\ Up(q) => p = q

\* Runs one after the other land on the same port, the one that is published
\* (server.mjs:21-25), unless one finds it with a predecessor that it has killed
\* and not waited for (takeover.mjs:56).
FixedPort ==
  [][\A p \in OneShot :
       Bind(p) /\ Calm /\ Never({"lingers"}) /\ Alone => port'[p] = 0]_vars

\* Nobody waits for a one-shot for ever: answered or not, taken over or not,
\* it ends.
OneShotEnds == \A p \in OneShot : pc[p] = "read" ~> pc[p] \in Dead
=============================================================================
