------------------------- MODULE OneShotServerProofs -------------------------
(***************************************************************************)
(* Proofs about OneShotServer, for any number of processes and ports,      *)
(* with or without a published port.                                       *)
(***************************************************************************)
EXTENDS OneShotServer, TLAPS

States ==
  {"off", "serving", "applying", "printed", "dying"} \cup Starting \cup Dead

\* The types that the contract rests on.
ContractTypes ==
  /\ pc \in [Process -> States]
  /\ DOMAIN port = Process
  /\ term \in SUBSET Process /\ grace \in SUBSET OneShot
  /\ line \in [Process -> Endings \cup {"none", "twice"}]
  /\ writer \in [Process -> {"none", "running", "ran"}]

\* What a process has printed and spawned is told by how far it has come; only
\* the living are signalled, and only a page that was served is awaited.
ProcessInv(p) ==
  /\ line[p] # "none" => pc[p] \in {"printed", "dying"} \cup Dead
  /\ line[p] # "twice"
  /\ pc[p] = "printed" => line[p] = "answer"
  /\ p \in OneShot /\ pc[p] = "gone" => line[p] # "none"
  /\ writer[p] # "none" => pc[p] \in {"applying", "printed", "dying"} \cup Dead
  /\ line[p] \in {"cancel", "timeout"} => writer[p] = "none"
  /\ port[p] # NoPort => pc[p] \in {"bound", "serving", "applying", "dying"}
  /\ p \in term => pc[p] \notin Dead \cup {"off", "dying"}
  /\ p \in grace => pc[p] \in {"serving", "applying", "printed"}

\* The inductive invariant: LineContract and CancelIsClean say nothing of the
\* processes that are still at work, whose next step may print.
ContractInv == ContractTypes /\ \A p \in Process : ProcessInv(p)

\* Whoever has answered the probe of a port has been started.
Asked ==
  /\ DOMAIN target = Process
  /\ \A p \in Process :
       pc[p] = "expel" => target[p].pid \in {q \in Process : pc[q] # "off"} \cup {Nobody}

LEMMA ProcessIds ==
  Process \subseteq Nat /\ Nobody \notin Process /\ OneShot \cap Session = {}
BY OneShotAssumption DEF Process, Nobody

LEMMA ContractInit == Init => ContractInv
<1> SUFFICES ASSUME Init PROVE ContractInv
  OBVIOUS
<1>1. ContractTypes
  BY DEF Init, ContractTypes, States, Endings
<1>2. \A p \in Process : ProcessInv(p)
  BY DEF Init, ProcessInv, NoPort
<1> QED
  BY <1>1, <1>2 DEF ContractInv

\* A step that leaves a process and what it holds alone keeps its invariant.
LEMMA Bystander ==
  ASSUME NEW p \in Process, ProcessInv(p),
         pc'[p] = pc[p], line'[p] = line[p], writer'[p] = writer[p],
         port'[p] = port[p], p \in term' => p \in term, p \in grace' => p \in grace
  PROVE  ProcessInv(p)'
BY DEF ProcessInv

\* The end of a process that has not printed is its one line.
LEMMA FinishKeeps ==
  ASSUME ContractInv, NEW p \in OneShot, NEW ending \in {"cancel", "timeout"},
         pc[p] \in Starting \cup {"serving"}, Finish(p, ending), term' = term \ {p}
  PROVE  ContractInv'
<1> USE DEF ContractInv
<1>0. p \in Process
  BY DEF Process
<1>1. line[p] = "none" /\ writer[p] = "none"
  BY <1>0 DEF ProcessInv, Starting, Dead
<1>2. /\ pc' = [pc EXCEPT ![p] = "gone"]
      /\ line' = [line EXCEPT ![p] = ending]
      /\ port' = [port EXCEPT ![p] = NoPort]
      /\ term' = term \ {p} /\ grace' = grace \ {p} /\ writer' = writer
  BY <1>0, <1>1 DEF Finish, Prints, Goes, ContractTypes
<1>3. ContractTypes'
  BY <1>0, <1>2 DEF ContractTypes, States, Dead, Endings
<1>4. ASSUME NEW q \in Process PROVE ProcessInv(q)'
  <2>1. CASE q # p
    BY <2>1, <1>2, <1>4, Bystander DEF ContractTypes
  <2>2. CASE q = p
    BY <2>2, <1>0, <1>1, <1>2 DEF ProcessInv, ContractTypes, Dead
  <2> QED
    BY <2>1, <2>2
<1> QED
  BY <1>3, <1>4

\* A step of one process that has not printed to another state in which it need
\* not have, or back into one it has just left, prints nothing.
LEMMA SilentStep ==
  ASSUME ContractInv, ContractTypes', NEW p \in Process,
         pc[p] \in Starting \cup {"off", "serving"},
         pc'[p] \in Starting \cup {"serving", "applying"},
         \A q \in Process \ {p} : pc'[q] = pc[q] /\ port'[q] = port[q]
                                    /\ writer'[q] = writer[q],
         writer'[p] = "none" \/ pc'[p] = "applying",
         port'[p] # NoPort => pc'[p] \in {"bound", "serving", "applying"},
         line' = line, grace' = grace,
         \A q \in term' : q \in term \/ q = p \/ pc[q] \notin Dead \cup {"off", "dying"},
         p \in grace => pc'[p] \in {"serving", "applying"}
  PROVE  ContractInv'
<1>1. line[p] = "none"
  BY DEF ContractInv, ProcessInv, Starting, Dead
<1>2. ASSUME NEW q \in Process PROVE ProcessInv(q)'
  <2>1. CASE q # p
    BY <2>1, <1>2 DEF ContractInv, ProcessInv
  <2>2. CASE q = p
    BY <2>2, <1>1 DEF ProcessInv, Starting, Dead
  <2> QED
    BY <2>1, <2>2
<1> QED
  BY <1>2 DEF ContractInv

\* A process that is killed has printed before or never will.
LEMMA KilledKeeps ==
  ASSUME ContractInv, NEW p \in Process, NEW q, NEW next \in Starting,
         pc[p] \in Starting, p \notin grace, port[p] = NoPort,
         pc[q] \notin Dead,
         Killed(q, p, next)
  PROVE  ContractInv'
<1> USE DEF ContractInv
<1>1. /\ pc' = [pc EXCEPT ![q] = "dying", ![p] = next]
      /\ term' = term \ {q} /\ grace' = grace \ {q}
      /\ UNCHANGED <<port, line, writer>>
  BY DEF Killed
<1>2. ContractTypes'
  BY <1>1 DEF ContractTypes, States, Dead, Starting
<1>3. line[p] = "none" /\ writer[p] = "none" /\ next \notin Dead \cup {"off", "printed", "dying"}
  BY DEF ProcessInv, Starting, Dead
<1>4. ASSUME NEW r \in Process PROVE ProcessInv(r)'
  <2>1. CASE r = p
    BY <2>1, <1>1, <1>3 DEF ProcessInv, ContractTypes, Dead
  <2>2. CASE r # p /\ r = q
    BY <2>2, <1>1, <1>4 DEF ProcessInv, ContractTypes, Dead
  <2>3. CASE r # p /\ r # q
    BY <2>3, <1>1, <1>4, Bystander DEF ContractTypes
  <2> QED
    BY <2>1, <2>2, <2>3
<1> QED
  BY <1>2, <1>4

\* Whoever is signalled is alive: it listens.
LEMMA HolderLives ==
  ASSUME ContractInv, NEW w, NEW q \in Status(w), q # Nobody
  PROVE  q \in Process /\ pc[q] \notin Dead \cup {"off", "dying"}
BY DEF Status, Alive, Holder, ContractInv, ProcessInv, Dead

\* The steps of a start but the kills: nothing is printed.
LEMMA TakeoverKeeps ==
  ASSUME ContractInv, Asked, NEW p \in Process,
         ReadRegistry(p) \/ Probe(p) \/ Unlink(p) \/ Reclaim(p) \/ Expel(p)
  PROVE  ContractInv'
<1> USE DEF ContractInv
<1>1. CASE ReadRegistry(p)
  <2>1. ContractTypes'
    BY <1>1 DEF ReadRegistry, Goes, server, ContractTypes, States, Starting
  <2> QED
    BY <1>1, <2>1, SilentStep
    DEF ReadRegistry, Goes, server, ContractTypes, ProcessInv, Starting, Dead
<1>2. CASE Probe(p)
  <2>1. PICK s \in Status(target[p].port) :
          \/ s \in Session /\ Goes(p, "listen") /\ UNCHANGED term
          \/ /\ s \in OneShot /\ s = target[p].pid
             /\ Goes(p, "wait") /\ term' = term \cup {s}
          \/ /\ s \notin Session /\ s # target[p].pid
             /\ Goes(p, "unlink") /\ UNCHANGED term
    BY <1>2 DEF Probe
  <2>2. term' \in SUBSET Process
         /\ \A q \in term' : q \in term \/ pc[q] \notin Dead \cup {"off", "dying"}
    <3>1. CASE UNCHANGED term
      BY <3>1 DEF ContractTypes
    <3>2. CASE s \in OneShot /\ term' = term \cup {s}
      <4>1. s # Nobody
        BY <3>2, ProcessIds DEF Process
      <4> QED
        BY <3>2, <4>1, HolderLives DEF ContractTypes
    <3> QED
      BY <2>1, <3>1, <3>2
  <2>3. UNCHANGED <<port, grace, line, writer>> /\ pc[p] = "probe"
    BY <1>2 DEF Probe
  <2>4. \E x \in {"listen", "wait", "unlink"} : pc' = [pc EXCEPT ![p] = x]
    BY <2>1 DEF Goes
  <2>5. ContractTypes'
    BY <2>2, <2>3, <2>4 DEF ContractTypes, States, Starting
  <2> QED
    BY <2>2, <2>3, <2>4, <2>5, SilentStep
    DEF ContractTypes, ProcessInv, Starting, Dead
<1>3. CASE Unlink(p)
  <2>1. ContractTypes'
    BY <1>3 DEF Unlink, Goes, ContractTypes, States, Starting
  <2> QED
    BY <1>3, <2>1, SilentStep
    DEF Unlink, Goes, ContractTypes, ProcessInv, Starting, Dead
<1>4. CASE Reclaim(p)
  <2>1. /\ pc[p] = "reclaim" /\ UNCHANGED server
        /\ \E x \in {"listen", "expel"} : Goes(p, x)
    BY <1>4 DEF Reclaim, WalkUp
  <2>2. ContractTypes'
    BY <2>1 DEF Goes, server, ContractTypes, States, Starting
  <2> QED
    BY <2>1, <2>2, SilentStep
    DEF Goes, server, ContractTypes, ProcessInv, Starting, Dead
<1>5. CASE Expel(p)
  <2>0. pc[p] = "expel"
    BY <1>5 DEF Expel
  <2>1. CASE WalkUp(p)
    <3>1. ContractTypes'
      BY <2>1 DEF WalkUp, Goes, server, ContractTypes, States, Starting
    <3> QED
      BY <2>0, <2>1, <3>1, SilentStep
      DEF WalkUp, Goes, server, ContractTypes, ProcessInv, Starting, Dead
  <2>2. CASE \E q \in Victims(p) :
               /\ Signals(q)
               /\ Goes(p, "evict")
               /\ UNCHANGED <<port, grace, line, writer>>
    <3>1. PICK q \in Victims(p) :
            /\ Signals(q)
            /\ Goes(p, "evict")
            /\ UNCHANGED <<port, grace, line, writer>>
      BY <2>2
    <3>2. q \in Process /\ pc[q] \notin Dead \cup {"off"}
      <4>1. CASE target[p].pid = Nobody
        BY <3>1, <4>1 DEF Victims, Holder, ProcessInv, Dead
      <4>2. CASE target[p].pid # Nobody
        BY <2>0, <3>1, <4>2 DEF Victims, Over, Asked
      <4> QED
        BY <4>1, <4>2
    <3>3. term' \in SUBSET Process
          /\ \A r \in term' : r \in term \/ pc[r] \notin Dead \cup {"off", "dying"}
      BY <3>1, <3>2 DEF Signals, ContractTypes
    <3>4. ContractTypes'
      BY <3>1, <3>3 DEF Goes, ContractTypes, States, Starting
    <3> QED
      BY <2>0, <3>1, <3>3, <3>4, SilentStep
      DEF Goes, ContractTypes, ProcessInv, Starting, Dead
  <2> QED
    BY <1>5, <2>1, <2>2 DEF Expel
<1> QED
  BY <1>1, <1>2, <1>3, <1>4, <1>5

\* Binding a port, and coming up on it.
LEMMA ListenKeeps ==
  ASSUME ContractInv, NEW p \in Process, Bind(p) \/ InUse(p) \/ Register(p)
  PROVE  ContractInv'
<1> USE DEF ContractInv
<1>1. CASE Bind(p)
  <2>1. ContractTypes'
    BY <1>1 DEF Bind, Goes, ContractTypes, States, Starting
  <2> QED
    BY <1>1, <2>1, SilentStep
    DEF Bind, Goes, ContractTypes, ProcessInv, Starting, Dead
<1>2. CASE InUse(p)
  <2>1. /\ pc[p] = "listen" /\ UNCHANGED server
        /\ \E x \in {"listen", "reclaim"} : Goes(p, x)
    BY <1>2 DEF InUse, WalkUp
  <2>2. ContractTypes'
    BY <2>1 DEF Goes, server, ContractTypes, States, Starting
  <2> QED
    BY <2>1, <2>2, SilentStep
    DEF Goes, server, ContractTypes, ProcessInv, Starting, Dead
<1>3. CASE Register(p)
  <2>1. ContractTypes'
    BY <1>3 DEF Register, Goes, ContractTypes, States, Starting
  <2> QED
    BY <1>3, <2>1, SilentStep
    DEF Register, Goes, ContractTypes, ProcessInv, Starting, Dead
<1> QED
  BY <1>1, <1>2, <1>3

\* A process that waits for another goes on when that has gone, or kills it.
LEMMA WaitedKeeps ==
  ASSUME ContractInv, NEW p \in Process, Wait(p) \/ Evict(p) \/ Reap(p)
  PROVE  ContractInv'
<1> USE DEF ContractInv
<1>1. PICK next \in {"unlink", "listen", "reap"} :
        /\ pc[p] \in {"wait", "evict", "reap"}
        /\ \/ Goes(p, next) /\ UNCHANGED server
           \/ pc[target[p].pid] \notin Dead /\ Killed(target[p].pid, p, next)
  BY DEF Wait, Evict, Reap, WalkUp, Over
<1>2. CASE Goes(p, next) /\ UNCHANGED server
  <2>1. ContractTypes'
    BY <1>2 DEF Goes, server, ContractTypes, States, Starting
  <2> QED
    BY <1>1, <1>2, <2>1, SilentStep
    DEF Goes, server, ContractTypes, ProcessInv, Starting, Dead
<1>3. CASE pc[target[p].pid] \notin Dead /\ Killed(target[p].pid, p, next)
  <2>1. p \notin grace /\ port[p] = NoPort
    BY <1>1 DEF ProcessInv
  <2>2. next \in Starting /\ pc[p] \in Starting
    BY <1>1 DEF Starting
  <2> QED
    BY <1>1, <1>3, <2>1, <2>2, KilledKeeps
<1> QED
  BY <1>1, <1>2, <1>3

\* A signal that is handled ends a process that has not printed, or nothing.
LEMMA SignalKeeps ==
  ASSUME ContractInv, NEW p \in Process, Interrupt(p) \/ HandleTerm(p)
  PROVE  ContractInv'
<1> USE DEF ContractInv
<1>1. CASE Interrupt(p)
  <2>1. ContractTypes'
    BY <1>1 DEF Interrupt, ContractTypes
  <2>2. ASSUME NEW q \in Process PROVE ProcessInv(q)'
    BY <1>1, <2>2 DEF Interrupt, ProcessInv
  <2> QED
    BY <2>1, <2>2
<1>2. CASE p \in term /\ p \in OneShot /\ ~Done(p) /\ term' = term \ {p}
             /\ Finish(p, "cancel")
  <2>1. pc[p] \in Starting \cup {"serving"}
    BY <1>2 DEF ProcessInv, ContractTypes, States, Done
  <2> QED
    BY <1>2, <2>1, FinishKeeps
<1>3. CASE term' = term \ {p} /\ UNCHANGED <<pc, port, grace, line, writer>>
  <2>1. ContractTypes'
    BY <1>3 DEF ContractTypes
  <2> QED
    BY <1>3, <2>1, Bystander
<1>4. CASE /\ p \in Session
           /\ pc' = [pc EXCEPT ![p] = "killed"]
           /\ port' = [port EXCEPT ![p] = NoPort]
           /\ term' = term \ {p} /\ UNCHANGED <<grace, line, writer>>
  <2>1. ContractTypes'
    BY <1>4 DEF ContractTypes, States, Dead
  <2>2. ASSUME NEW q \in Process PROVE ProcessInv(q)'
    <3>1. CASE q # p
      BY <3>1, <1>4, <2>2, Bystander DEF ContractTypes
    <3>2. CASE q = p
      <4>1. p \notin grace
        BY <1>4, ProcessIds DEF ContractTypes
      <4> QED
        BY <3>2, <4>1, <1>4 DEF ProcessInv, ContractTypes, Dead
    <3> QED
      BY <3>1, <3>2
  <2> QED
    BY <2>1, <2>2
<1> QED
  BY <1>1, <1>2, <1>3, <1>4 DEF HandleTerm, Goes

\* A killed process is taken down.
LEMMA DiesKeeps ==
  ASSUME ContractInv, NEW p \in Process, Dies(p)
  PROVE  ContractInv'
<1> USE DEF ContractInv
<1>1. ContractTypes'
  BY DEF Dies, Goes, ContractTypes, States, Dead
<1>2. ASSUME NEW q \in Process PROVE ProcessInv(q)'
  <2>1. CASE q # p
    BY <2>1, <1>2, Bystander DEF Dies, Goes, ContractTypes
  <2>2. CASE q = p
    BY <2>2, <1>2 DEF Dies, Goes, ProcessInv, ContractTypes, Dead
  <2> QED
    BY <2>1, <2>2
<1> QED
  BY <1>1, <1>2

\* What the page does, and a page that is closed.
LEMMA BrowserKeeps ==
  ASSUME ContractInv, NEW p \in Process, Browser(p)
  PROVE  ContractInv'
<1> USE DEF ContractInv
<1>1. CASE Submit(p)
  <2>1. PICK w \in {"none", "running"} : writer' = [writer EXCEPT ![p] = w]
    BY <1>1 DEF Submit
  <2>2. ContractTypes'
    BY <1>1, <2>1 DEF Submit, Goes, ContractTypes, States
  <2> QED
    BY <1>1, <2>1, <2>2, SilentStep
    DEF Submit, Goes, ContractTypes, ProcessInv, Starting, Dead
<1>2. CASE CancelNow(p)
  BY <1>2, FinishKeeps DEF CancelNow
<1>3. CASE PageHides(p)
  <2>1. ContractTypes'
    BY <1>3 DEF PageHides, ContractTypes
  <2>2. ASSUME NEW q \in Process PROVE ProcessInv(q)'
    BY <1>3, <2>2 DEF PageHides, ProcessInv
  <2> QED
    BY <2>1, <2>2
<1>4. CASE Reload(p)
  <2>1. ContractTypes'
    BY <1>4 DEF Reload, ContractTypes
  <2> QED
    BY <1>4, <2>1, Bystander DEF Reload
<1> QED
  BY <1>1, <1>2, <1>3, <1>4 DEF Browser

\* The writer returns, the answer is printed, and the process is over.
LEMMA EndsKeep ==
  ASSUME ContractInv, NEW p \in Process, WriterEnds(p) \/ Ends(p)
  PROVE  ContractInv'
<1> USE DEF ContractInv
<1>1. CASE WriterEnds(p)
  <2>1. ContractTypes'
    BY <1>1 DEF WriterEnds, ContractTypes
  <2>2. ASSUME NEW q \in Process PROVE ProcessInv(q)'
    BY <1>1, <2>2 DEF WriterEnds, ProcessInv, ContractTypes
  <2> QED
    BY <2>1, <2>2
<1>2. CASE Answer(p)
  <2>1. line[p] = "none"
    BY <1>2 DEF Answer, ProcessInv, Dead
  <2>2. line' = [line EXCEPT ![p] = "answer"]
    BY <2>1, <1>2 DEF Answer, Prints, ContractTypes
  <2>3. ContractTypes'
    BY <1>2, <2>2 DEF Answer, Goes, ContractTypes, States, Endings
  <2>4. ASSUME NEW q \in Process PROVE ProcessInv(q)'
    <3>1. CASE q # p
      BY <3>1, <1>2, <2>2, <2>4, Bystander DEF Answer, Goes, ContractTypes
    <3>2. CASE q = p
      BY <3>2, <1>2, <2>2 DEF Answer, Goes, ProcessInv, ContractTypes, Dead
    <3> QED
      BY <3>1, <3>2
  <2> QED
    BY <2>3, <2>4
<1>3. CASE Exit(p)
  <2>1. ContractTypes'
    BY <1>3 DEF Exit, Goes, ContractTypes, States, Dead
  <2>2. ASSUME NEW q \in Process PROVE ProcessInv(q)'
    <3>1. CASE q # p
      BY <3>1, <1>3, <2>2, Bystander DEF Exit, Goes, ContractTypes
    <3>2. CASE q = p
      BY <3>2, <1>3 DEF Exit, Goes, ProcessInv, ContractTypes, Dead
    <3> QED
      BY <3>1, <3>2
  <2> QED
    BY <2>1, <2>2
<1>4. CASE GraceExpires(p)
  <2>1. CASE ~Done(p)
    <3>1. p \in OneShot /\ pc[p] = "serving"
      BY <1>4, <2>1 DEF GraceExpires, ProcessInv, ContractTypes, Done
    <3> QED
      BY <1>4, <2>1, <3>1, FinishKeeps DEF GraceExpires
  <2>2. CASE Done(p)
    <3>1. grace' = grace \ {p} /\ UNCHANGED <<pc, port, term, line, writer>>
      BY <1>4, <2>2 DEF GraceExpires
    <3>2. ContractTypes'
      BY <3>1 DEF ContractTypes
    <3> QED
      BY <3>1, <3>2, Bystander
  <2> QED
    BY <2>1, <2>2
<1>5. CASE Timeout(p)
  BY <1>5, FinishKeeps DEF Timeout
<1> QED
  BY <1>1, <1>2, <1>3, <1>4, <1>5 DEF Ends

\* A dashboard prints nothing.
LEMMA SessionKeeps ==
  ASSUME ContractInv, NEW p \in Process, ShowStep(p) \/ Stop(p)
  PROVE  ContractInv'
<1> USE DEF ContractInv
<1>1. CASE ShowStep(p)
  <2>1. ContractTypes'
    BY <1>1 DEF ShowStep, ContractTypes
  <2> QED
    BY <1>1, <2>1, Bystander DEF ShowStep
<1>2. CASE Stop(p)
  <2>1. ContractTypes'
    BY <1>2 DEF Stop, Goes, ContractTypes, States, Dead
  <2>2. p \notin grace /\ p \notin OneShot
    BY <1>2, ProcessIds DEF Stop, ContractTypes
  <2>3. ASSUME NEW q \in Process PROVE ProcessInv(q)'
    <3>1. CASE q # p
      BY <3>1, <1>2, <2>3, Bystander DEF Stop, Goes, ContractTypes
    <3>2. CASE q = p
      BY <3>2, <1>2, <2>2 DEF Stop, Goes, ProcessInv, ContractTypes, Dead
    <3> QED
      BY <3>1, <3>2
  <2> QED
    BY <2>1, <2>3
<1> QED
  BY <1>1, <1>2

LEMMA ContractStep == ContractInv /\ Asked /\ [Next]_vars => ContractInv'
<1> SUFFICES ASSUME ContractInv, Asked, [Next]_vars PROVE ContractInv'
  OBVIOUS
<1>1. CASE UNCHANGED vars
  BY <1>1
  DEF vars, server, ContractInv, ContractTypes, ProcessInv
<1>2. ASSUME NEW p \in Process, Start(p) PROVE ContractInv'
  <2>1. ContractTypes'
    BY <1>2 DEF Start, Goes, server, ContractInv, ContractTypes, States, Starting
  <2> QED
    BY <1>2, <2>1, SilentStep
    DEF Start, Goes, server, ContractInv, ContractTypes, ProcessInv, Starting, Dead
<1>3. ASSUME NEW p \in Process, ComesUp(p) PROVE ContractInv'
  BY <1>3, TakeoverKeeps, ListenKeeps, WaitedKeeps DEF ComesUp
<1>4. ASSUME NEW p \in Process,
             \/ Interrupt(p) \/ HandleTerm(p) \/ Browser(p)
             \/ WriterEnds(p) \/ Ends(p) \/ ShowStep(p) \/ Stop(p) \/ Dies(p)
      PROVE  ContractInv'
  BY <1>4, SignalKeeps, BrowserKeeps, EndsKeep, SessionKeeps, DiesKeeps
<1> QED
  BY <1>1, <1>2, <1>3, <1>4 DEF Next

\* What has been odd once stays known, and no process starts twice.
LEMMA Backwards ==
  ASSUME ContractInv, Next
  PROVE  /\ odd \subseteq odd'
         /\ \A q \in Process : pc'[q] = "off" => pc[q] = "off"
<1> USE DEF ContractInv, ContractTypes
<1>1. PICK p \in Process :
        \/ Start(p) \/ ComesUp(p) \/ Interrupt(p) \/ HandleTerm(p)
        \/ Browser(p) \/ WriterEnds(p) \/ Ends(p) \/ ShowStep(p) \/ Stop(p) \/ Dies(p)
  BY DEF Next
<1>2. CASE Wait(p) \/ Evict(p) \/ Reap(p)
  BY <1>2 DEF Wait, Evict, Reap, WalkUp, Killed, Goes
<1>3. CASE Reclaim(p) \/ Expel(p) \/ Probe(p)
  BY <1>3 DEF Reclaim, Expel, Probe, WalkUp, Heard, Goes
<1>4. CASE ReadRegistry(p) \/ Unlink(p) \/ Bind(p) \/ InUse(p) \/ Register(p)
  BY <1>4 DEF ReadRegistry, Unlink, Bind, InUse, Register, WalkUp, Goes
<1>5. CASE Start(p) \/ Interrupt(p) \/ HandleTerm(p) \/ Dies(p)
  BY <1>5 DEF Start, Interrupt, HandleTerm, Finish, Dies, Goes
<1>6. CASE Browser(p) \/ WriterEnds(p) \/ Ends(p) \/ ShowStep(p) \/ Stop(p)
  BY <1>6 DEF Browser, Submit, CancelNow, PageHides, Reload, WriterEnds, Ends,
              Answer, Exit, GraceExpires, Timeout, ShowStep, Stop, Finish, Goes
<1> QED
  BY <1>1, <1>2, <1>3, <1>4, <1>5, <1>6 DEF ComesUp

\* Whom a start acts on is changed by the start alone, and another is put to
\* the eviction only by the probe of the port.
LEMMA Targets ==
  ASSUME ContractInv, DOMAIN target = Process, [Next]_vars
  PROVE  /\ DOMAIN target' = Process
         /\ \A q \in Process :
              pc'[q] = "expel" => \/ pc[q] = "expel" /\ target'[q] = target[q]
                                 \/ Reclaim(q)
<1> USE DEF ContractInv, ContractTypes
<1>0. CASE UNCHANGED vars
  BY <1>0 DEF vars, start
<1>1. ASSUME NEW p \in Process, Wait(p) \/ Evict(p) \/ Reap(p) \/ Expel(p)
      PROVE  /\ DOMAIN target' = Process
             /\ \A q \in Process :
                  pc'[q] = "expel" => pc[q] = "expel" /\ target'[q] = target[q]
  BY <1>1 DEF Wait, Evict, Reap, Expel, WalkUp, Killed, Goes, start
<1>2. ASSUME NEW p \in Process, Reclaim(p)
      PROVE  /\ DOMAIN target' = Process
             /\ \A q \in Process \ {p} : pc'[q] = pc[q] /\ target'[q] = target[q]
  BY <1>2 DEF Reclaim, WalkUp, Goes
<1>3. ASSUME NEW p \in Process,
             \/ Start(p) \/ ReadRegistry(p) \/ Unlink(p) \/ Bind(p) \/ InUse(p)
             \/ Register(p) \/ Probe(p)
      PROVE  /\ DOMAIN target' = Process
             /\ \A q \in Process :
                  pc'[q] = "expel" => pc[q] = "expel" /\ target'[q] = target[q]
  BY <1>3
  DEF Start, ReadRegistry, Unlink, Bind, InUse, Register, Probe, WalkUp, Goes, start
<1>4. ASSUME NEW p \in Process,
             \/ Interrupt(p) \/ HandleTerm(p) \/ Browser(p)
             \/ WriterEnds(p) \/ Ends(p) \/ ShowStep(p) \/ Stop(p) \/ Dies(p)
      PROVE  /\ DOMAIN target' = Process
             /\ \A q \in Process :
                  pc'[q] = "expel" => pc[q] = "expel" /\ target'[q] = target[q]
  BY <1>4
  DEF Interrupt, HandleTerm, Browser, Submit, CancelNow, PageHides, Reload, WriterEnds,
      Ends, Answer, Exit, GraceExpires, Timeout, ShowStep, Stop, Finish, Dies, Goes, start
<1> QED
  BY <1>0, <1>1, <1>2, <1>3, <1>4 DEF Next, ComesUp

LEMMA AskedStep == ContractInv /\ Asked /\ [Next]_vars => Asked'
<1> SUFFICES ASSUME ContractInv, Asked, Next PROVE Asked'
  BY DEF Asked, vars, start
<1>1. ASSUME NEW p \in Process, pc'[p] = "expel"
      PROVE  target'[p].pid \in {q \in Process : pc'[q] # "off"} \cup {Nobody}
  <2>1. CASE pc[p] = "expel" /\ target'[p] = target[p]
    BY <2>1, Backwards DEF Asked
  <2>2. CASE Reclaim(p)
    <3>1. PICK s \in Status(0) : target' = [target EXCEPT ![p] = [pid |-> s, port |-> 0]]
      BY <1>1, <2>2 DEF Reclaim, WalkUp, Goes, ContractInv, ContractTypes
    <3>2. s = Nobody \/ (s \in Process /\ pc[s] # "off")
      BY HolderLives
    <3> QED
      BY <3>1, <3>2, Backwards DEF Asked
  <2> QED
    BY <1>1, <2>1, <2>2, Targets DEF Asked
<1> QED
  BY <1>1, Targets DEF Asked

LEMMA ContractAlways == Spec => [](ContractInv /\ Asked)
<1>1. Init => Asked
  BY DEF Init, Asked
<1> QED
  BY <1>1, ContractInit, ContractStep, AskedStep, PTL DEF Spec

\* The output contract: one line, and never two, for any number of one-shots
\* and dashboards and any order of their answers, cancels, signals and timers.
THEOREM OneLine == Spec => []LineContract
<1>1. ContractInv => LineContract
  BY DEF ContractInv, ProcessInv, LineContract, Process
<1> QED
  BY <1>1, ContractAlways, PTL

\* No process that reports a cancel or a timeout has had its writer run.
THEOREM CancelTrue == Spec => []CancelIsClean
<1>1. ContractInv => CancelIsClean
  BY DEF ContractInv, ProcessInv, CancelIsClean, Process
<1> QED
  BY <1>1, ContractAlways, PTL

-----------------------------------------------------------------------------

\* While every probe is answered no dashboard is told to go, nobody waits for
\* one to go, which is how it would be killed, and nobody is about to look who
\* holds the port while a dashboard does.
Spared(p) ==
  /\ p \in Session => p \notin term /\ pc[p] \notin {"dying", "killed"}
  /\ pc[p] \in {"wait", "evict", "reap", "expel"} => target[p].pid \notin Session
  /\ pc[p] = "expel" /\ target[p].pid = Nobody
       => target[p] = [pid |-> Nobody, port |-> 0] /\ \A s \in Session : port[s] # 0

SparedInv ==
  /\ ContractInv /\ Asked
  /\ Never({"silent", "late"}) => \A p \in Process : Spared(p)

\* The steps that signal nobody, wait for nobody and bind nothing.
LEMMA SparedPlain ==
  ASSUME SparedInv, \A q \in Process : Spared(q), NEW p \in Process,
         DOMAIN pc' = Process, DOMAIN target' = Process,
         term' \cap Session \subseteq term,
         \A q \in Process \ {p} : pc'[q] = pc[q] /\ target'[q] = target[q],
         \A q \in Process : port'[q] \in {port[q], NoPort},
         \/ pc'[p] = pc[p] /\ target'[p] = target[p]
         \/ pc'[p] \notin {"wait", "evict", "reap", "expel", "dying", "killed"}
  PROVE  \A q \in Process : Spared(q)'
<1>1. \A s \in Session : port[s] # 0 => port'[s] # 0
  BY DEF NoPort, Process
<1>2. ASSUME NEW q \in Process PROVE Spared(q)'
  BY <1>1, <1>2 DEF Spared
<1> QED
  BY <1>2

LEMMA SparedStarts ==
  ASSUME SparedInv, \A q \in Process : Spared(q), NEW p \in Process, ComesUp(p),
         Never({"silent", "late"})'
  PROVE  \A q \in Process : Spared(q)'
<1> USE DEF SparedInv, ContractInv, ContractTypes, Asked
<1>1. CASE ReadRegistry(p) \/ Unlink(p) \/ Register(p)
  BY <1>1, SparedPlain DEF ReadRegistry, Unlink, Register, Goes, start, server
<1>2. CASE Probe(p)
  <2>1. PICK s \in Status(target[p].port) :
          \/ s \in Session /\ Goes(p, "listen") /\ UNCHANGED term
          \/ /\ s \in OneShot /\ s = target[p].pid
             /\ Goes(p, "wait") /\ term' = term \cup {s}
          \/ /\ s \notin Session /\ s # target[p].pid
             /\ Goes(p, "unlink") /\ UNCHANGED term
    BY <1>2 DEF Probe
  <2>2. UNCHANGED <<target, port>>
    BY <1>2 DEF Probe, start
  <2> QED
    BY <2>1, <2>2, ProcessIds DEF Goes, Spared
<1>3. CASE InUse(p)
  BY <1>3, SparedPlain DEF InUse, WalkUp, Goes, start, server
<1>4. CASE Bind(p)
  <2>1. /\ pc[p] = "listen" /\ pc' = [pc EXCEPT ![p] = "bound"]
        /\ port' = [port EXCEPT ![p] = Tried(p)]
        /\ UNCHANGED <<target, term>>
    BY <1>4 DEF Bind, Goes, start
  <2>2. p \in Session => ~Unanswered(Tried(p))
    BY <1>4 DEF Bind, Never
  <2>3. ASSUME NEW q \in Process PROVE Spared(q)'
    <3>1. CASE pc'[q] = "expel" /\ target'[q].pid = Nobody
      <4>1. /\ q # p /\ pc[q] = "expel" /\ target[q] = [pid |-> Nobody, port |-> 0]
            /\ \A s \in Session : port[s] # 0
        BY <2>1, <2>3, <3>1 DEF Spared
      <4>2. p \in Session => Tried(p) # 0
        BY <2>2, <4>1, <2>3 DEF Unanswered
      <4>3. \A s \in Session : port'[s] # 0
        BY <2>1, <4>1, <4>2 DEF Process
      <4> QED
        BY <2>1, <2>3, <4>1, <4>3 DEF Spared
    <3>2. CASE ~(pc'[q] = "expel" /\ target'[q].pid = Nobody)
      BY <2>1, <2>3, <3>2 DEF Spared
    <3> QED
      BY <3>1, <3>2
  <2> QED
    BY <2>3
<1>5. CASE Reclaim(p)
  <2>1. CASE WalkUp(p)
    BY <2>1, SparedPlain DEF WalkUp, Goes, server
  <2>2. CASE \E s \in Status(0) \ Session :
               /\ Heard(s, 0)
               /\ target' = [target EXCEPT ![p] = [pid |-> s, port |-> 0]]
               /\ Goes(p, "expel")
               /\ UNCHANGED server
    <3>1. PICK s \in Status(0) \ Session :
            /\ Heard(s, 0)
            /\ target' = [target EXCEPT ![p] = [pid |-> s, port |-> 0]]
            /\ Goes(p, "expel")
            /\ UNCHANGED server
      BY <2>2
    <3>2. s = Nobody => Alive(0) = {}
      BY <3>1 DEF Heard, Never
    <3>3. s = Nobody => \A t \in Session : port[t] # 0
      BY <3>2 DEF Alive, Holder, NoPort, Spared, Process
    <3>4. UNCHANGED <<port, term>> /\ pc' = [pc EXCEPT ![p] = "expel"]
      BY <3>1 DEF server, Goes
    <3>5. ASSUME NEW q \in Process PROVE Spared(q)'
      <4>1. CASE q = p
        BY <3>1, <3>3, <3>4, <4>1 DEF Spared
      <4>2. CASE q # p
        BY <3>1, <3>4, <3>5, <4>2 DEF Spared
      <4> QED
        BY <4>1, <4>2
    <3> QED
      BY <3>5
  <2> QED
    BY <1>5, <2>1, <2>2 DEF Reclaim
<1>6. CASE Expel(p)
  <2>0. pc[p] = "expel"
    BY <1>6 DEF Expel
  <2>1. CASE WalkUp(p)
    BY <2>1, SparedPlain DEF WalkUp, Goes, server
  <2>2. CASE \E q \in Victims(p) :
               /\ Signals(q)
               /\ target' = [target EXCEPT ![p] = [pid |-> q, port |-> 0]]
               /\ Goes(p, "evict")
               /\ UNCHANGED port
    <3>1. PICK q \in Victims(p) :
            /\ Signals(q)
            /\ target' = [target EXCEPT ![p] = [pid |-> q, port |-> 0]]
            /\ Goes(p, "evict")
            /\ UNCHANGED port
      BY <2>2
    <3>2. q \notin Session
      BY <2>0, <3>1 DEF Victims, Holder, Spared
    <3>3. term' \cap Session \subseteq term /\ pc' = [pc EXCEPT ![p] = "evict"]
      BY <3>1, <3>2 DEF Signals, Goes
    <3>4. ASSUME NEW r \in Process PROVE Spared(r)'
      BY <3>1, <3>2, <3>3, <3>4 DEF Spared
    <3> QED
      BY <3>4
  <2> QED
    BY <1>6, <2>1, <2>2 DEF Expel
<1>7. CASE Wait(p) \/ Evict(p) \/ Reap(p)
  <2>1. CASE WalkUp(p)
    BY <2>1, SparedPlain DEF WalkUp, Goes, server
  <2>2. CASE \E x \in {"unlink", "listen"} : Goes(p, x) /\ UNCHANGED <<start, server>>
    BY <2>2, SparedPlain DEF Goes, start, server
  <2>3. CASE \E x \in {"unlink", "reap"} : /\ pc[p] \in {"wait", "evict"}
                                          /\ Killed(target[p].pid, p, x)
    <3>1. PICK x \in {"unlink", "reap"} :
            /\ pc[p] \in {"wait", "evict"}
            /\ pc' = [pc EXCEPT ![target[p].pid] = "dying", ![p] = x]
            /\ term' \subseteq term /\ UNCHANGED <<target, port>>
      BY <2>3 DEF Killed, start
    <3>2. target[p].pid \notin Session
      BY <3>1 DEF Spared
    <3>3. ASSUME NEW r \in Process PROVE Spared(r)'
      BY <3>1, <3>2, <3>3 DEF Spared
    <3> QED
      BY <3>3
  <2> QED
    BY <1>7, <2>1, <2>2, <2>3 DEF Wait, Evict, Reap
<1> QED
  BY <1>1, <1>2, <1>3, <1>4, <1>5, <1>6, <1>7 DEF ComesUp

LEMMA SparedRuns ==
  ASSUME SparedInv, \A q \in Process : Spared(q), NEW p \in Process,
         \/ Start(p) \/ Interrupt(p) \/ HandleTerm(p) \/ Browser(p)
         \/ WriterEnds(p) \/ Ends(p) \/ ShowStep(p) \/ Stop(p) \/ Dies(p)
  PROVE  \A q \in Process : Spared(q)'
<1> USE DEF SparedInv, ContractInv, ContractTypes, Asked
<1>1. CASE Start(p) \/ Interrupt(p)
  BY <1>1, SparedPlain, ProcessIds DEF Start, Interrupt, Goes, start, server
<1>2. CASE HandleTerm(p)
  <2>1. CASE p \in OneShot
    BY <1>2, <2>1, SparedPlain, ProcessIds DEF HandleTerm, Finish, Goes, start
  <2>2. CASE p \notin OneShot
    BY <1>2, <2>2 DEF HandleTerm, Process, Spared
  <2> QED
    BY <2>1, <2>2
<1>3. CASE Browser(p)
  BY <1>3, SparedPlain
  DEF Browser, Submit, CancelNow, PageHides, Reload, Finish, Goes, start
<1>4. CASE WriterEnds(p) \/ Ends(p)
  BY <1>4, SparedPlain
  DEF WriterEnds, Ends, Answer, Exit, GraceExpires, Timeout, Finish, Goes, start
<1>5. CASE ShowStep(p) \/ Stop(p)
  BY <1>5, SparedPlain DEF ShowStep, Stop, Goes, start
<1>6. CASE Dies(p)
  <2>1. /\ pc[p] = "dying" /\ pc' = [pc EXCEPT ![p] = "killed"]
        /\ port' = [port EXCEPT ![p] = NoPort] /\ UNCHANGED <<target, term>>
    BY <1>6 DEF Dies, Goes, start
  <2>2. p \notin Session
    BY <2>1 DEF Spared
  <2>3. ASSUME NEW q \in Process PROVE Spared(q)'
    BY <2>1, <2>2, <2>3 DEF Spared, Process
  <2> QED
    BY <2>3
<1> QED
  BY <1>1, <1>2, <1>3, <1>4, <1>5, <1>6

\* No dashboard is ever signalled or killed for a one-shot to come up, however
\* many of either start at once, unless one has left a probe unanswered or taken
\* the port between the probe and the look who holds it.
THEOREM SessionsLive == Spec => []SessionSpared
<1>1. SparedInv /\ [Next]_vars => SparedInv'
  <2> SUFFICES ASSUME SparedInv, [Next]_vars, Never({"silent", "late"})'
               PROVE  \A p \in Process : Spared(p)'
    BY ContractStep, AskedStep DEF SparedInv
  <2>1. CASE UNCHANGED vars
    BY <2>1 DEF vars, start, server, SparedInv, Never, Spared
  <2>2. CASE Next
    <3>1. \A p \in Process : Spared(p)
      BY <2>2, Backwards DEF SparedInv, Never
    <3> QED
      BY <2>2, <3>1, SparedStarts, SparedRuns DEF Next
  <2> QED
    BY <2>1, <2>2
<1>2. Init => SparedInv
  <2> SUFFICES ASSUME Init PROVE SparedInv
    OBVIOUS
  <2>1. Asked /\ \A p \in Process : Spared(p)
    BY DEF Init, Asked, Spared, Process
  <2> QED
    BY <2>1, ContractInit DEF SparedInv
<1>3. SparedInv => SessionSpared
  BY DEF SparedInv, Spared, SessionSpared, Process
<1> QED
  BY <1>1, <1>2, <1>3, PTL DEF Spec

-----------------------------------------------------------------------------

\* What is true of one-shots that start one after the other: all but the one
\* that is starting find their predecessor in the registry, the one that waits
\* waits for the one that is up, and none is up once it has waited.
Single ==
  /\ \A p, q \in OneShot : pc[p] \in Starting /\ pc[q] \in Starting => p = q
  /\ \A p \in OneShot : Up(p) \/ pc[p] = "bound" => port[p] # NoPort
  /\ \A q \in OneShot : Up(q) => registry = [pid |-> q, port |-> port[q]]
  /\ \A p, q \in OneShot : Up(q) =>
       /\ pc[p] \in Starting => pc[p] \in {"read", "probe", "wait"}
       /\ pc[p] = "probe" => target[p] = [pid |-> q, port |-> port[q]]
       /\ pc[p] = "wait" => target[p].pid = q

\* And they only ever try the first port, as long as none of them finds it with
\* a predecessor that is not gone yet.
First ==
  \A p \in OneShot : want[p] = 0 /\ pc[p] \notin {"reclaim", "expel", "evict", "reap"}

SingleInv ==
  /\ ContractInv /\ Asked
  /\ want \in [Process -> Nat]
  /\ Calm /\ Alone => Single
  /\ Calm /\ Alone /\ Never({"lingers"}) => First

LEMMA SingleInit == Init => SingleInv
<1> SUFFICES ASSUME Init PROVE SingleInv
  OBVIOUS
<1>1. \A p \in OneShot : pc[p] = "off" /\ want[p] = 0
  BY DEF Init, Process
<1>2. Single /\ First
  BY <1>1 DEF Single, First, Up, Starting
<1>3. Asked /\ want \in [Process -> Nat]
  BY DEF Init, Asked
<1> QED
  BY <1>2, <1>3, ContractInit DEF SingleInv

LEMMA WantStep == SingleInv /\ [Next]_vars => want' \in [Process -> Nat]
<1> SUFFICES ASSUME want \in [Process -> Nat], [Next]_vars
             PROVE  want' \in [Process -> Nat]
  BY DEF SingleInv
<1>1. ASSUME NEW p \in Process, WalkUp(p) PROVE want' \in [Process -> Nat]
  BY <1>1 DEF WalkUp
<1>2. ASSUME NEW p \in Process, ComesUp(p), ~WalkUp(p)
      PROVE  want' \in [Process -> Nat]
  BY <1>2
  DEF ComesUp, ReadRegistry, Probe, Wait, Unlink, Bind, InUse, Reclaim, Expel, Evict,
      Reap, Register, Killed, start
<1>3. ASSUME NEW p \in Process,
             \/ Start(p) \/ Interrupt(p) \/ HandleTerm(p) \/ Browser(p)
             \/ WriterEnds(p) \/ Ends(p) \/ ShowStep(p) \/ Stop(p) \/ Dies(p)
      PROVE  UNCHANGED want
  BY <1>3
  DEF Start, Interrupt, HandleTerm, Browser, Submit, CancelNow, PageHides, Reload,
      WriterEnds, Ends, Answer, Exit, GraceExpires, Timeout, ShowStep, Stop, Finish,
      Dies, start
<1> QED
  BY <1>1, <1>2, <1>3 DEF Next, vars, start

\* A one-shot that is over, or about to be, is in nobody's way.
LEMMA Leaving ==
  ASSUME SingleInv, Single, NEW p \in OneShot,
         pc'[p] \in {"printed", "gone", "killed"},
         \A q \in Process \ {p} : pc'[q] = pc[q] /\ port'[q] = port[q],
         UNCHANGED <<target, want>>,
         registry' = registry \/ registry.pid = p
  PROVE  Single' /\ (First => First')
<1>1. \A q \in OneShot : q \in Process
  BY DEF Process
<1>2. \A q \in OneShot : pc'[q] \in Starting \/ Up(q)' \/ pc'[q] = "bound" => q # p
  BY DEF Starting, Up
<1>3. \A q \in OneShot : q # p /\ Up(q)
         => registry' = [pid |-> q, port |-> port[q]]
  BY DEF Single
<1>4. Single'
  BY <1>1, <1>2, <1>3 DEF Single, Up, Starting
<1>5. First => First'
  BY <1>1 DEF First
<1> QED
  BY <1>4, <1>5

\* A step that changes none of it.
LEMMA Staying ==
  ASSUME SingleInv, Single,
         \A q \in OneShot :
           \/ pc'[q] = pc[q]
           \/ {pc[q], pc'[q]} \subseteq {"serving", "applying"},
         UNCHANGED <<target, want, port, registry>>
  PROVE  Single' /\ (First => First')
<1>1. Single'
  BY DEF Single, Up, Starting
<1>2. First => First'
  BY DEF First
<1> QED
  BY <1>1, <1>2

LEMMA SingleRuns ==
  ASSUME SingleInv, Single, NEW p \in OneShot,
         \/ Interrupt(p) \/ HandleTerm(p) \/ Browser(p) \/ WriterEnds(p) \/ Ends(p)
         \/ Dies(p)
  PROVE  Single' /\ (First => First')
<1> USE DEF SingleInv, ContractInv, ContractTypes
<1>0. p \in Process /\ p \notin Session
  BY ProcessIds DEF Process
<1>1. ASSUME NEW ending, Finish(p, ending) PROVE Single' /\ (First => First')
  BY <1>0, <1>1, Leaving DEF Finish, Goes, Deregisters, start
<1>2. CASE Answer(p) \/ Exit(p) \/ Dies(p)
  BY <1>0, <1>2, Leaving DEF Answer, Exit, Dies, Goes, start
<1>3. CASE Submit(p)
  BY <1>0, <1>3, Staying DEF Submit, Goes, start, Up
<1>4. CASE Interrupt(p) \/ PageHides(p) \/ Reload(p) \/ WriterEnds(p)
  BY <1>4, Staying DEF Interrupt, PageHides, Reload, WriterEnds, start
<1>5. CASE HandleTerm(p)
  <2>1. CASE Finish(p, "cancel")
    BY <2>1, <1>1
  <2>2. CASE UNCHANGED <<pc, start, port, registry>>
    BY <2>2, Staying DEF start
  <2> QED
    BY <1>5, <1>0, <2>1, <2>2 DEF HandleTerm
<1>6. CASE GraceExpires(p)
  <2>1. CASE Finish(p, "cancel")
    BY <2>1, <1>1
  <2>2. CASE UNCHANGED <<pc, start, port, registry>>
    BY <2>2, Staying DEF start
  <2> QED
    BY <1>6, <2>1, <2>2 DEF GraceExpires
<1>7. CASE CancelNow(p) \/ Timeout(p)
  BY <1>7, <1>1 DEF CancelNow, Timeout
<1> QED
  BY <1>2, <1>3, <1>4, <1>5, <1>6, <1>7 DEF Browser, Ends

\* A start that goes on when no one-shot is up.
LEMMA Proceeding ==
  ASSUME SingleInv, Single, NEW p \in OneShot,
         pc[p] \in Starting, \A q \in OneShot : ~Up(q)',
         pc'[p] \in Starting, pc'[p] = "bound" => port'[p] # NoPort,
         \A q \in Process \ {p} : pc'[q] \in {pc[q], "dying"} /\ port'[q] = port[q]
  PROVE  Single'
<1>1. \A q \in OneShot : q \in Process /\ (pc'[q] \in Starting => q = p)
  BY DEF Single, Starting, Process
<1>2. \A q \in OneShot : pc'[q] = "bound" => port'[q] # NoPort
  BY <1>1 DEF Starting
<1> QED
  BY <1>1, <1>2 DEF Single

LEMMA SingleStarts ==
  ASSUME SingleInv, Single, NEW p \in OneShot, Start(p) \/ ComesUp(p), Calm', Alone
  PROVE  Single'
<1> USE DEF SingleInv, ContractInv, ContractTypes, Asked
<1>0. p \in Process /\ OneShot \subseteq Process /\ p # Nobody
  BY ProcessIds DEF Process
<1>1. CASE Start(p)
  <2>1. \A q \in Process : pc[q] \notin Starting
    BY <1>1 DEF Start, Calm, Never
  <2>2. pc' = [pc EXCEPT ![p] = "read"] /\ UNCHANGED <<target, want, port, registry>>
    BY <1>1 DEF Start, Goes, start, server
  <2> QED
    BY <1>0, <2>1, <2>2 DEF Single, Up, Starting
<1>2. CASE ReadRegistry(p)
  <2>1. /\ target' = [target EXCEPT ![p] = registry]
        /\ pc' = [pc EXCEPT ![p] = IF registry = NoEntry THEN "listen" ELSE "probe"]
        /\ UNCHANGED <<want, port, registry>>
    BY <1>2 DEF ReadRegistry, Goes, server
  <2>2. pc[p] = "read"
    BY <1>2 DEF ReadRegistry
  <2>3. \A q \in OneShot : Up(q) => registry # NoEntry
    BY <1>0, ProcessIds DEF Single, NoEntry
  <2> QED
    BY <1>0, <2>1, <2>2, <2>3 DEF Single, Up, Starting
<1>3. CASE Probe(p)
  <2>1. PICK s \in Status(target[p].port) :
          /\ Heard(s, target[p].port)
          /\ \/ s \in Session /\ Goes(p, "listen")
             \/ s \in OneShot /\ s = target[p].pid /\ Goes(p, "wait")
             \/ s \notin Session /\ s # target[p].pid /\ Goes(p, "unlink")
    BY <1>3 DEF Probe
  <2>2. UNCHANGED <<target, want, port, registry>> /\ pc[p] = "probe"
    BY <1>3 DEF Probe, start
  <2>3. ASSUME NEW q \in OneShot, Up(q) PROVE s = q /\ target[p].pid = q
    <3>1. target[p] = [pid |-> q, port |-> port[q]] /\ port[q] # NoPort
      BY <2>2, <2>3 DEF Single
    <3>2. q \in Alive(target[p].port)
      BY <1>0, <2>3, <3>1 DEF Holder, Alive, Up
    <3>3. s # Nobody
      BY <2>1, <3>2 DEF Heard, Calm, Never
    <3>4. s \in Process /\ port[s] = port[q] /\ port[s] # NoPort /\ pc[s] # "dying"
      BY <2>1, <3>1, <3>3 DEF Status, Alive, Holder
    <3>5. s \in OneShot
      BY <3>4 DEF ProcessInv, Alone, Process
    <3>6. pc[s] \in {"bound", "serving", "applying"}
      BY <3>4 DEF ProcessInv
    <3>7. pc[s] # "bound"
      BY <2>3, <3>5 DEF Single, Starting
    <3>8. registry.pid = s /\ registry.pid = q
      BY <2>3, <3>5, <3>6, <3>7 DEF Single, Up
    <3> QED
      BY <3>1, <3>8
  <2>4. ASSUME NEW q \in OneShot, Up(q)
        PROVE  pc' = [pc EXCEPT ![p] = "wait"] /\ target[p].pid = q
    BY <2>1, <2>3, <2>4, ProcessIds DEF Goes
  <2>5. PICK x \in {"listen", "wait", "unlink"} : pc' = [pc EXCEPT ![p] = x]
    BY <2>1 DEF Goes
  <2> QED
    BY <1>0, <2>2, <2>4, <2>5 DEF Single, Up, Starting
<1>4. CASE Wait(p)
  <2>1. pc[p] = "wait" /\ UNCHANGED port
    BY <1>4 DEF Wait, Killed, server
  <2>2. \/ pc[target[p].pid] \in Dead /\ pc' = [pc EXCEPT ![p] = "unlink"]
        \/ pc' = [pc EXCEPT ![target[p].pid] = "dying", ![p] = "unlink"]
    BY <1>4 DEF Wait, Over, Killed, Goes
  <2>3. \A q \in OneShot : Up(q) => target[p].pid = q
    BY <2>1 DEF Single
  <2>4. \A q \in OneShot : ~Up(q)'
    BY <1>0, <2>2, <2>3 DEF Up, Dead
  <2> QED
    BY <1>0, <2>1, <2>2, <2>4, Proceeding DEF Starting
<1>5. CASE Unlink(p) \/ InUse(p) \/ Reclaim(p) \/ Expel(p)
  <2>1. /\ pc[p] \in {"unlink", "listen", "reclaim", "expel"} /\ UNCHANGED port
        /\ \E x \in {"listen", "reclaim", "expel", "evict"} : pc' = [pc EXCEPT ![p] = x]
    BY <1>5 DEF Unlink, InUse, Reclaim, Expel, WalkUp, Goes, server
  <2>2. \A q \in OneShot : ~Up(q)
    BY <2>1 DEF Single, Starting
  <2>3. \A q \in OneShot : ~Up(q)'
    BY <1>0, <2>1, <2>2 DEF Up
  <2> QED
    BY <1>0, <2>1, <2>3, Proceeding DEF Starting
<1>6. CASE Evict(p) \/ Reap(p)
  <2>1. /\ pc[p] \in {"evict", "reap"} /\ UNCHANGED port
        /\ \E x \in {"listen", "reap"} :
             \/ pc' = [pc EXCEPT ![p] = x]
             \/ pc' = [pc EXCEPT ![target[p].pid] = "dying", ![p] = x]
    BY <1>6 DEF Evict, Reap, Killed, WalkUp, Goes, server
  <2>2. \A q \in OneShot : ~Up(q)
    BY <2>1 DEF Single, Starting
  <2>3. \A q \in OneShot : ~Up(q)'
    BY <1>0, <2>1, <2>2 DEF Up
  <2> QED
    BY <1>0, <2>1, <2>3, Proceeding DEF Starting
<1>7. CASE Bind(p)
  <2>1. /\ pc[p] = "listen" /\ pc' = [pc EXCEPT ![p] = "bound"]
        /\ port' = [port EXCEPT ![p] = Tried(p)]
    BY <1>7 DEF Bind, Goes
  <2>2. \A q \in OneShot : ~Up(q)
    BY <2>1 DEF Single, Starting
  <2>3. \A q \in OneShot : ~Up(q)'
    BY <1>0, <2>1, <2>2 DEF Up
  <2>4. Tried(p) # NoPort
    <3>1. want[p] \in Nat /\ p \in Nat /\ MaxPort \in Nat
      BY <1>0, OneShotAssumption
    <3>2. \A w, n, m \in Nat : w # -1 /\ m + n # -1
      OBVIOUS
    <3> QED
      BY <3>1, <3>2 DEF Tried, NoPort
  <2> QED
    BY <1>0, <2>1, <2>3, <2>4, Proceeding DEF Starting
<1>8. CASE Register(p)
  <2>1. /\ pc[p] = "bound" /\ pc' = [pc EXCEPT ![p] = "serving"]
        /\ registry' = [pid |-> p, port |-> port[p]]
        /\ target' = [target EXCEPT ![p] = NoEntry]
        /\ port' = port
    BY <1>8 DEF Register, Goes
  <2>2. \A q \in OneShot : ~Up(q)
    BY <2>1 DEF Single, Starting
  <2>3. \A q \in OneShot : pc[q] \in Starting => q = p
    BY <2>1 DEF Single, Starting
  <2> QED
    BY <1>0, <2>1, <2>2, <2>3 DEF Single, Up, Starting
<1> QED
  BY <1>1, <1>2, <1>3, <1>4, <1>5, <1>6, <1>7, <1>8 DEF ComesUp

\* A port in use, while no one-shot is up and there is no dashboard, is held by a
\* process that has been killed.
LEMMA FirstStarts ==
  ASSUME SingleInv, Single, First, NEW p \in OneShot, Start(p) \/ ComesUp(p),
         Never({"lingers"})', Alone
  PROVE  First'
<1> USE DEF SingleInv, ContractInv, ContractTypes, Asked
<1>0. p \in Process /\ OneShot \subseteq Process
  BY DEF Process
<1>1. CASE InUse(p)
  <2>1. PICK q \in Holder(want[p]) : TRUE
    BY <1>1 DEF InUse
  <2>2. q \in Process /\ port[q] # NoPort
    BY <2>1 DEF Holder
  <2>3. q \in OneShot /\ pc[q] \in {"bound", "serving", "applying", "dying"}
    BY <2>2 DEF ProcessInv, Alone, Process
  <2>4. pc[p] = "listen"
    BY <1>1 DEF InUse
  <2>5. pc[q] = "dying"
    BY <2>3, <2>4 DEF Single, Starting, Up
  <2>6. Holder(want[p]) # Alive(want[p])
    BY <2>1, <2>5 DEF Alive
  <2> QED
    BY <1>1, <2>6 DEF InUse, Never
<1>2. CASE Start(p) \/ ReadRegistry(p) \/ Probe(p) \/ Unlink(p) \/ Bind(p) \/ Register(p)
  BY <1>0, <1>2
  DEF Start, ReadRegistry, Probe, Unlink, Bind, Register, Goes, start, First
<1>3. CASE Wait(p)
  BY <1>0, <1>3 DEF Wait, Killed, Goes, start, First
<1>4. CASE Reclaim(p) \/ Expel(p) \/ Evict(p) \/ Reap(p)
  BY <1>4 DEF Reclaim, Expel, Evict, Reap, First
<1> QED
  BY <1>1, <1>2, <1>3, <1>4 DEF ComesUp

LEMMA SingleStep == SingleInv /\ [Next]_vars => SingleInv'
<1> SUFFICES ASSUME SingleInv, [Next]_vars PROVE SingleInv'
  OBVIOUS
<1>1. ContractInv' /\ Asked' /\ want' \in [Process -> Nat]
  BY ContractStep, AskedStep, WantStep DEF SingleInv
<1>2. CASE UNCHANGED vars
  <2>1. UNCHANGED <<pc, target, want, port, registry, odd>>
    BY <1>2 DEF vars, start, server
  <2>2. (Calm' <=> Calm) /\ (Alone' <=> Alone) /\ (Never({"lingers"})' <=> Never({"lingers"}))
    BY <2>1 DEF Calm, Never, Alone
  <2>3. Calm /\ Alone => Single' /\ (First => First')
    BY <2>1, Staying DEF SingleInv
  <2> QED
    BY <1>1, <2>2, <2>3 DEF SingleInv
<1>3. CASE Next
  <2>1. /\ Calm' => Calm
        /\ Never({"lingers"})' => Never({"lingers"})
        /\ Alone' => Alone
    BY <1>3, Backwards DEF SingleInv, Calm, Never, Alone, Process
  <2>2. SUFFICES ASSUME Calm', Alone'
                 PROVE  Single' /\ (Never({"lingers"})' => First')
    BY <1>1 DEF SingleInv
  <2>3. Calm /\ Alone /\ Single /\ (Never({"lingers"})' => First)
    BY <2>1, <2>2 DEF SingleInv
  <2>4. PICK p \in Process :
          \/ Start(p) \/ ComesUp(p) \/ Interrupt(p) \/ HandleTerm(p)
          \/ Browser(p) \/ WriterEnds(p) \/ Ends(p) \/ ShowStep(p) \/ Stop(p) \/ Dies(p)
    BY <1>3 DEF Next
  <2>5. CASE p \in OneShot
    BY <2>2, <2>3, <2>4, <2>5, SingleRuns, SingleStarts, FirstStarts, ProcessIds
    DEF ShowStep, Stop
  <2>6. CASE p \in Session
    <3>1. pc[p] = "off" /\ pc'[p] = "off" /\ p \notin OneShot
      BY <2>2, <2>3, <2>6, ProcessIds DEF Alone
    <3>2. ProcessInv(p) /\ p \notin grace
      BY <2>4, <3>1 DEF SingleInv, ContractInv, ContractTypes
    <3> QED
      BY <2>4, <2>6, <3>1, <3>2
      DEF Start, ComesUp, ReadRegistry, Probe, Wait, Unlink, Bind, InUse, Reclaim, Expel,
          Evict, Reap, Register, Interrupt, HandleTerm, Browser, Submit, CancelNow,
          PageHides, Reload, WriterEnds, Ends, Answer, Exit, GraceExpires, Timeout,
          ShowStep, Stop, Dies, Goes, ProcessInv, Dead, SingleInv, ContractInv,
          ContractTypes
  <2> QED
    BY <2>5, <2>6 DEF Process
<1> QED
  BY <1>2, <1>3

\* One-shots that start one after the other leave one of them up, however each of
\* them was answered, interrupted, killed or left alone.
THEOREM SingleUp == Spec => []OneUp
<1>1. SingleInv => OneUp
  <2> SUFFICES ASSUME SingleInv, Calm, Alone,
                      NEW p \in OneShot, NEW q \in OneShot, Up(p), Up(q)
               PROVE  p = q
    BY DEF OneUp
  <2>1. registry.pid = p /\ registry.pid = q
    BY DEF SingleInv, Single
  <2> QED
    BY <2>1
<1> QED
  BY <1>1, SingleInit, SingleStep, PTL DEF Spec

\* And each of them lands on the first port, whether that is forced or not, as
\* long as none of them meets a predecessor there that has been killed and is not
\* gone yet.
THEOREM PortStays == Spec => FixedPort
<1>1. SingleInv /\ [Next]_vars
        => [\A p \in OneShot :
              Bind(p) /\ Calm /\ Never({"lingers"}) /\ Alone => port'[p] = 0]_vars
  <2> SUFFICES ASSUME SingleInv, Calm, Never({"lingers"}), Alone,
                      NEW p \in OneShot, Bind(p)
               PROVE  port'[p] = 0
    OBVIOUS
  <2>1. p \in Process /\ Tried(p) = 0
    BY OneShotAssumption DEF SingleInv, First, Tried, Process
  <2> QED
    BY <2>1 DEF Bind, SingleInv, ContractInv, ContractTypes
<1> QED
  BY <1>1, SingleInit, SingleStep, PTL DEF Spec, FixedPort

-----------------------------------------------------------------------------
(***************************************************************************)
(* Types.                                                                  *)
(***************************************************************************)

Entry == [pid : Process \cup {Nobody}, port : Ports \cup {NoPort}]

StartTypes ==
  /\ target \in [Process -> Entry] /\ registry \in Entry
  /\ want \in [Process -> 0..(MaxPort + 1)]
  /\ reclaimed \in SUBSET Process
  /\ odd \in SUBSET Oddities

\* Only the first port is ever reclaimed, so the walk up from it stays bounded.
ReclaimsFirst ==
  \A p \in Process : pc[p] \in {"reclaim", "expel", "evict", "reap"} => want[p] = 0

\* A port past the last of the walk is one the system has picked.
PortsAreOwn ==
  /\ port \in [Process -> Ports \cup {NoPort}]
  /\ \A p, q \in Process : port[p] = port[q] /\ port[p] # NoPort => p = q
  /\ \A p \in Process : port[p] \in 0..MaxPort \cup {MaxPort + p, NoPort}

TypeInv == StartTypes /\ ReclaimsFirst /\ PortsAreOwn

LEMMA PortNumbers ==
  /\ MaxPort \in Nat /\ NoPort \notin Ports /\ NoPort \notin 0..MaxPort
  /\ 0 \in 0..(MaxPort + 1) /\ 0..MaxPort \subseteq Ports
  /\ \A p \in Process : /\ MaxPort + p \in Ports /\ MaxPort + p \notin 0..MaxPort
                        /\ MaxPort + p # NoPort
                        /\ \A q \in Process : MaxPort + p = MaxPort + q => p = q
<1>1. MaxPort \in Nat /\ Process \subseteq Nat \ {0} /\ NoPort = -1
  BY OneShotAssumption DEF Process, NoPort
<1>2. NoPort \notin 0..MaxPort /\ 0 \in 0..(MaxPort + 1)
  BY <1>1
<1>3. \A p \in Process : /\ MaxPort + p \in Nat /\ MaxPort + p > MaxPort
                         /\ MaxPort + p # NoPort
                         /\ \A q \in Process : MaxPort + p = MaxPort + q => p = q
  BY <1>1
<1>4. \A p \in Process : MaxPort + p \in Ports /\ MaxPort + p \notin 0..MaxPort
  BY <1>1, <1>3 DEF Ports
<1>5. NoPort \notin Ports /\ 0..MaxPort \subseteq Ports
  BY <1>2, <1>3 DEF Ports
<1> QED
  BY <1>1, <1>2, <1>3, <1>4, <1>5

LEMMA NoEntryIsOne == NoEntry \in Entry
BY DEF NoEntry, Entry

LEMMA InitTypeInv == Init => TypeInv
BY PortNumbers, NoEntryIsOne DEF Init, TypeInv, StartTypes, ReclaimsFirst, PortsAreOwn

\* A port is bound that nobody listens on, or one process lets go of its own.
LEMMA PortSteps ==
  ASSUME [Next]_vars
  PROVE  \/ \E p \in Process : Bind(p)
         \/ \E p \in Process : port' = [port EXCEPT ![p] = NoPort]
         \/ UNCHANGED port
<1>1. ASSUME NEW p \in Process,
             \/ Start(p) \/ ReadRegistry(p) \/ Probe(p) \/ Unlink(p) \/ InUse(p)
             \/ Reclaim(p) \/ Expel(p) \/ Register(p) \/ Interrupt(p)
      PROVE  UNCHANGED port
  BY <1>1
  DEF Start, ReadRegistry, Probe, Unlink, InUse, WalkUp, Reclaim, Expel, Register,
      Interrupt, server
<1>2. ASSUME NEW p \in Process, Wait(p) \/ Evict(p) \/ Reap(p)
      PROVE  UNCHANGED port
  BY <1>2 DEF Wait, Evict, Reap, WalkUp, Killed, server
<1>3. ASSUME NEW p \in Process, \/ HandleTerm(p) \/ Stop(p) \/ Answer(p) \/ Timeout(p)
                                \/ CancelNow(p) \/ GraceExpires(p) \/ Dies(p)
      PROVE  UNCHANGED port \/ port' = [port EXCEPT ![p] = NoPort]
  BY <1>3 DEF HandleTerm, Stop, Answer, Timeout, CancelNow, GraceExpires, Finish, Dies
<1>4. ASSUME NEW p \in Process, \/ Submit(p) \/ PageHides(p) \/ Reload(p)
                                \/ WriterEnds(p) \/ Exit(p) \/ ShowStep(p)
      PROVE  UNCHANGED port
  BY <1>4 DEF Submit, PageHides, Reload, WriterEnds, Exit, ShowStep
<1>5. CASE UNCHANGED vars
  BY <1>5 DEF vars, server
<1> QED
  BY <1>1, <1>2, <1>3, <1>4, <1>5 DEF Next, ComesUp, Browser, Ends

LEMMA PortsStayOwn ==
  ASSUME StartTypes, PortsAreOwn, [Next]_vars
  PROVE  PortsAreOwn'
<1>1. ASSUME NEW p \in Process, Bind(p) PROVE PortsAreOwn'
  <2>1. /\ port' = [port EXCEPT ![p] = Tried(p)]
        /\ Holder(want[p]) = {} \/ want[p] > MaxPort
        /\ want[p] \in 0..(MaxPort + 1)
    BY <1>1 DEF Bind, StartTypes
  <2>2. CASE want[p] > MaxPort
    <3>1. port' = [port EXCEPT ![p] = MaxPort + p]
      BY <2>1, <2>2 DEF Tried
    <3>2. \A q \in Process \ {p} : port[q] # MaxPort + p
      BY PortNumbers DEF PortsAreOwn
    <3> QED
      BY <3>1, <3>2, PortNumbers DEF PortsAreOwn
  <2>3. CASE ~(want[p] > MaxPort)
    <3>1. want[p] \in 0..MaxPort /\ port' = [port EXCEPT ![p] = want[p]]
      <4>1. \A w \in 0..(MaxPort + 1) : ~(w > MaxPort) => w \in 0..MaxPort
        BY PortNumbers
      <4> QED
        BY <2>1, <2>3, <4>1 DEF Tried
    <3>2. \A q \in Process : port[q] # want[p]
      BY <2>1, <2>3, <3>1, PortNumbers DEF Holder
    <3> QED
      BY <3>1, <3>2, PortNumbers DEF PortsAreOwn
  <2> QED
    BY <2>2, <2>3
<1>2. ASSUME NEW q, port' = [port EXCEPT ![q] = NoPort] PROVE PortsAreOwn'
  BY <1>2 DEF PortsAreOwn
<1>3. CASE UNCHANGED port
  BY <1>3 DEF PortsAreOwn
<1> QED
  BY <1>1, <1>2, <1>3, PortSteps

LEMMA StartTypesKept ==
  ASSUME ContractInv, TypeInv, [Next]_vars
  PROVE  StartTypes' /\ ReclaimsFirst'
<1> USE DEF TypeInv, StartTypes, ReclaimsFirst, start, server
<1>0. DOMAIN pc = Process
  BY DEF ContractInv, ContractTypes
<1>1. ASSUME NEW p \in Process, ReadRegistry(p) \/ Unlink(p)
      PROVE  StartTypes' /\ ReclaimsFirst'
  BY <1>0, <1>1, NoEntryIsOne DEF ReadRegistry, Unlink, Goes
<1>2. ASSUME NEW p \in Process, Start(p)
      PROVE  StartTypes' /\ ReclaimsFirst'
  BY <1>0, <1>2 DEF Start, Goes, Oddities
<1>3. ASSUME NEW p \in Process, Bind(p)
       PROVE  StartTypes' /\ ReclaimsFirst'
  <2>1. odd' \in SUBSET Oddities /\ Goes(p, "bound")
    BY <1>3 DEF Bind, Oddities
  <2>2. UNCHANGED <<target, want, reclaimed, registry>>
    BY <1>3 DEF Bind
  <2> QED
    BY <1>0, <2>1, <2>2 DEF Goes
<1>4. ASSUME NEW p \in Process, Probe(p)
      PROVE  StartTypes' /\ ReclaimsFirst'
  <2>1. PICK s \in Status(target[p].port) :
          /\ Heard(s, target[p].port)
          /\ \E at \in {"listen", "wait", "unlink"} : Goes(p, at)
    BY <1>4 DEF Probe
  <2>2. UNCHANGED <<target, want, reclaimed, registry>>
    BY <1>4 DEF Probe
  <2> QED
    BY <1>0, <2>1, <2>2 DEF Heard, Goes, Oddities
<1>5. ASSUME NEW p \in Process, Wait(p) \/ Evict(p)
      PROVE  StartTypes' /\ ReclaimsFirst'
  BY <1>0, <1>5 DEF Wait, Evict, Killed, Goes
<1>6. ASSUME NEW p \in Process, WalkUp(p), want[p] <= MaxPort, odd' \in SUBSET Oddities
       PROVE  StartTypes' /\ ReclaimsFirst'
  <2>1. want[p] + 1 \in 0..(MaxPort + 1)
    BY <1>6, PortNumbers
  <2> QED
    BY <1>0, <1>6, <2>1, NoEntryIsOne DEF WalkUp, Goes
<1>7. \A p \in Process : want[p] = 0 => want[p] <= MaxPort
  BY PortNumbers
<1>8. ASSUME NEW p \in Process, InUse(p)
      PROVE  StartTypes' /\ ReclaimsFirst'
  <2>0. odd' \in SUBSET Oddities
    BY <1>8 DEF InUse, Oddities
  <2>1. CASE WalkUp(p) /\ want[p] <= MaxPort
    BY <2>0, <2>1, <1>6
  <2>2. CASE /\ want[p] = 0 /\ reclaimed' = reclaimed \cup {p} /\ Goes(p, "reclaim")
             /\ UNCHANGED <<target, want, server>>
    BY <1>0, <2>0, <2>2 DEF Goes
  <2> QED
    BY <1>8, <2>1, <2>2 DEF InUse
<1>9. ASSUME NEW p \in Process, Reclaim(p) \/ Expel(p) \/ Reap(p)
      PROVE  StartTypes' /\ ReclaimsFirst'
  <2>1. odd' \in SUBSET Oddities
    BY <1>9 DEF Reclaim, Expel, Reap, Heard, Oddities
  <2>2. want[p] = 0 /\ pc[p] \in {"reclaim", "expel", "reap"}
    BY <1>9 DEF Reclaim, Expel, Reap
  <2>3. CASE WalkUp(p)
    BY <2>1, <2>2, <2>3, <1>6, <1>7
  <2>4. CASE \E q \in Process \cup {Nobody} :
               /\ target' = [target EXCEPT ![p] = [pid |-> q, port |-> 0]]
               /\ \E x \in {"expel", "evict"} : Goes(p, x)
               /\ UNCHANGED <<want, reclaimed, registry>>
    <3>1. \A q \in Process \cup {Nobody} : [pid |-> q, port |-> 0] \in Entry
      BY PortNumbers DEF Entry, Ports
    <3> QED
      BY <1>0, <2>1, <2>2, <2>4, <3>1 DEF Goes
  <2>5. CASE Goes(p, "listen") /\ UNCHANGED <<start, server>>
    BY <1>0, <2>1, <2>5 DEF Goes
  <2>6. /\ Status(0) \subseteq Process \cup {Nobody}
        /\ Victims(p) \subseteq Process \cup {Nobody}
    BY DEF Status, Alive, Victims, Holder, Entry
  <2> QED
    BY <1>9, <2>3, <2>4, <2>5, <2>6 DEF Reclaim, Expel, Reap
<1>10. ASSUME NEW p \in Process, Register(p)
      PROVE  StartTypes' /\ ReclaimsFirst'
  <2>1. [pid |-> p, port |-> port[p]] \in Entry
    BY DEF Entry, PortsAreOwn
  <2> QED
    BY <1>0, <1>10, <2>1, NoEntryIsOne, PortNumbers DEF Register, Goes
<1>11. ASSUME NEW p \in Process, ShowStep(p)
      PROVE  StartTypes' /\ ReclaimsFirst'
  <2>1. [pid |-> p, port |-> port[p]] \in Entry
    BY DEF Entry, PortsAreOwn
  <2> QED
    BY <1>11, <2>1 DEF ShowStep
<1>12. ASSUME NEW p \in Process, HandleTerm(p) \/ Stop(p) \/ Answer(p) \/ Exit(p)
                                \/ Timeout(p) \/ CancelNow(p) \/ GraceExpires(p)
                                \/ Dies(p)
      PROVE  StartTypes' /\ ReclaimsFirst'
  BY <1>0, <1>12, NoEntryIsOne
  DEF HandleTerm, Stop, Answer, Exit, Timeout, CancelNow, GraceExpires, Finish, Dies,
      Deregisters, Goes
<1>13. ASSUME NEW p \in Process, \/ Interrupt(p) \/ Submit(p) \/ PageHides(p)
                                 \/ Reload(p) \/ WriterEnds(p)
       PROVE  StartTypes' /\ ReclaimsFirst'
  BY <1>0, <1>13 DEF Interrupt, Submit, PageHides, Reload, WriterEnds, Goes
<1>14. CASE UNCHANGED vars
  BY <1>14 DEF vars
<1> QED
  BY <1>1, <1>2, <1>3, <1>4, <1>5, <1>8, <1>9, <1>10, <1>11, <1>12, <1>13, <1>14
  DEF Next, ComesUp, Browser, Ends

\* No two processes ever listen on one port, and what a start acts on is always
\* a process or nobody, however many start at once (listenWithTakeover,
\* reclaimPort).
THEOREM TypesAreKept == Spec => []TypeOK
<1>1. ContractInv /\ TypeInv /\ [Next]_vars => TypeInv'
  BY PortsStayOwn, StartTypesKept DEF TypeInv
<1>2. ContractInv /\ TypeInv => TypeOK
  <2> SUFFICES ASSUME ContractInv, TypeInv PROVE TypeOK
    OBVIOUS
  <2>1. \A p \in Process : target[p].pid \in Process \cup {Nobody}
    BY DEF TypeInv, StartTypes, Entry
  <2>2. registry.pid \in Process \cup {Nobody}
    BY DEF TypeInv, StartTypes, Entry
  <2> QED
    BY <2>1, <2>2
    DEF ContractInv, ContractTypes, States, TypeInv, StartTypes, PortsAreOwn, TypeOK
<1> QED
  BY <1>1, <1>2, InitTypeInv, ContractAlways, PTL DEF Spec
=============================================================================
