-------------------------- MODULE SessionServerProofs --------------------------
(***************************************************************************)
(* Proofs about SessionServer, for any number of rounds and claims, and    *)
(* the step simulation that makes its rounds an implementation of Rounds.  *)
(***************************************************************************)
EXTENDS SessionServer, TLAPS

RoundState == <<outcome, pending, timers, signals>>

-----------------------------------------------------------------------------
(***************************************************************************)
(* Types.                                                                  *)
(***************************************************************************)

LEMMA Numbers ==
  /\ NoRound \notin Round /\ Round \subseteq Nat /\ 1 \in Round
  /\ MaxClaims \in Nat
BY SessionAssumption DEF Round, NoRound

LEMMA TabsAre == Tab = {"planning", "work"}
<1>1. DOMAIN Tabs = 1..2 /\ Tabs[1] = "planning" /\ Tabs[2] = "work"
  BY DEF Tabs
<1>2. 1..2 = {1, 2}
  OBVIOUS
<1> QED
  BY <1>1, <1>2 DEF Tab

\* How a refresh goes through its tabs.
LEMMA TabsToCome ==
  ASSUME refresh \in {Tabs, <<"work">>, <<"planning">>, <<>>}, refresh # <<>>
  PROVE  /\ Head(refresh) \in Tab
         /\ Tail(refresh) \in {Tabs, <<"work">>, <<"planning">>, <<>>}
<1>1. CASE refresh = Tabs
  BY <1>1, TabsAre DEF Tabs
<1>2. CASE refresh = <<"work">>
  BY <1>2, TabsAre
<1>3. CASE refresh = <<"planning">>
  BY <1>3, TabsAre
<1> QED
  BY <1>1, <1>2, <1>3

\* The parts of the state that have types of their own.
RoundTypes ==
  /\ outcome \in [Round -> {"unasked", "waiting", "answer", "cancel", "timeout"}]
  /\ pending \in Round \cup {NoRound}
  /\ timers \subseteq Round /\ signals \subseteq Round

ClaimTypes ==
  /\ owner \in 0..claims /\ suspended \in 0..claims /\ turnOwner \in 0..claims
  /\ claims \in 0..MaxClaims

ShellTypes ==
  /\ activeTab \in Tab /\ post \in Tab \cup {NoTab}
  /\ modal \in BOOLEAN
  /\ shell \in {Gone} \cup [tab : Tab, covered : BOOLEAN, modal : BOOLEAN]

OtherTypes ==
  /\ grace \in Round \cup {NoRound}
  /\ body \in {"none", "view", "settings"}
  /\ refresh \in {Tabs, <<"work">>, <<"planning">>, <<>>}
  /\ saving \in BOOLEAN
  /\ turn \in {"idle", "queued", "running", "ending"}

LEMMA TypesTogether ==
  TypeOK <=> RoundTypes /\ ClaimTypes /\ ShellTypes /\ OtherTypes
BY DEF TypeOK, RoundTypes, ClaimTypes, ShellTypes, OtherTypes

-----------------------------------------------------------------------------
(***************************************************************************)
(* Rounds.                                                                 *)
(***************************************************************************)

\* What would resolve a round is there for the one that waits and for no other;
\* a cancel that is held is for it too, or for one that is over by now.
RoundInv ==
  /\ \A r \in Round : outcome[r] = "waiting" <=> pending = r
  /\ \A r \in timers \cup signals : pending = r
  /\ grace # NoRound => pending \in {grace, NoRound}

\* A round is asked, the one that waits is resolved, or neither.
LEMMA RoundSteps ==
  ASSUME RoundTypes, RoundInv, [Next]_vars
  PROVE  \/ \E r \in Round, tab \in Tab, aborted \in BOOLEAN : ShowStep(r, tab, aborted)
         \/ \E result \in {"answer", "cancel", "timeout"} :
              pending # NoRound /\ Settle(result)
         \/ UNCHANGED RoundState
<1> USE DEF RoundState
<1>1. ASSUME NEW r \in Round, Timeout(r)
      PROVE  pending # NoRound /\ Settle("timeout")
  <2>1. pending = r /\ pending # NoRound
    BY <1>1, Numbers DEF Timeout, RoundInv
  <2> QED
    BY <1>1, <2>1 DEF Timeout, Settle
<1>2. ASSUME NEW r \in Round, SignalAborts(r)
      PROVE  (pending # NoRound /\ Settle("cancel")) \/ UNCHANGED RoundState
  BY <1>2 DEF SignalAborts, SettleAny
<1>3. ASSUME SubmitAnswer PROVE pending # NoRound /\ Settle("answer")
  BY <1>3 DEF SubmitAnswer
<1>4. ASSUME CancelNow PROVE pending # NoRound /\ Settle("cancel")
  BY <1>4 DEF CancelNow
<1>5. ASSUME GraceExpires \/ Stop
      PROVE  (pending # NoRound /\ Settle("cancel")) \/ UNCHANGED RoundState
  BY <1>5 DEF GraceExpires, Stop, SettleAny
<1>6. ASSUME NEW activate \in BOOLEAN, RefreshShows(activate)
      PROVE  (pending # NoRound /\ Settle("cancel")) \/ UNCHANGED RoundState
  BY <1>6 DEF RefreshShows, SettleAny
<1>7. ASSUME \/ \E kind \in {"view", "settings"}, earlier \in BOOLEAN :
                  SubmitHead(kind, earlier)
             \/ SubmitAction \/ SubmitOther
             \/ CloseSettings \/ SaveSettings \/ SettingsSaved \/ OpenSettings
             \/ PageHides \/ Reload \/ Disconnect \/ TabArrives
      PROVE  UNCHANGED RoundState
  BY <1>7
  DEF SubmitHead, SubmitAction, SubmitOther, CloseSettings, SaveSettings,
      SettingsSaved, OpenSettings, PageHides, Reload, Disconnect, TabArrives, round
<1>8. ASSUME \/ \E tab \in Tab : Reconnect(tab) \/ SwitchTab(tab)
             \/ \E announced \in BOOLEAN : Queue(announced)
             \/ StartTurn \/ FinishTurn \/ EndTurn
             \/ RefreshBegins \/ OpenArchive \/ ControlAbort
             \/ UNCHANGED vars
      PROVE  UNCHANGED RoundState
  BY <1>8
  DEF Reconnect, SwitchTab, Queue, StartTurn, FinishTurn, EndTurn, RefreshBegins,
      OpenArchive, ControlAbort, round, vars
<1> HIDE DEF RoundState
<1> QED
  BY <1>1, <1>2, <1>3, <1>4, <1>5, <1>6, <1>7, <1>8 DEF Next

\* The cancel that is held: armed for the round that waits, or dropped.
LEMMA GraceSteps ==
  ASSUME [Next]_vars
  PROVE  \/ grace' \in {grace, NoRound}
         \/ grace' = pending /\ pending' = pending
<1>1. CASE PageHides
  BY <1>1 DEF PageHides
<1>2. CASE \/ \E r \in Round, tab \in Tab, aborted \in BOOLEAN :
                ShowStep(r, tab, aborted)
           \/ \E r \in Round : Timeout(r) \/ SignalAborts(r)
           \/ \E kind \in {"view", "settings"}, earlier \in BOOLEAN :
                SubmitHead(kind, earlier)
           \/ SubmitAnswer \/ SubmitAction \/ SubmitOther
           \/ CloseSettings \/ SaveSettings \/ SettingsSaved \/ OpenSettings
           \/ CancelNow \/ GraceExpires
  BY <1>2
  DEF ShowStep, Timeout, SignalAborts, SubmitHead, SubmitAnswer, SubmitAction,
      SubmitOther, CloseSettings, SaveSettings, SettingsSaved, OpenSettings,
      CancelNow, GraceExpires, round
<1>3. CASE \/ Reload \/ Disconnect \/ TabArrives
           \/ \E tab \in Tab : Reconnect(tab) \/ SwitchTab(tab)
           \/ \E announced \in BOOLEAN : Queue(announced)
           \/ StartTurn \/ FinishTurn \/ EndTurn
           \/ RefreshBegins \/ OpenArchive
           \/ \E activate \in BOOLEAN : RefreshShows(activate)
           \/ ControlAbort \/ Stop \/ UNCHANGED vars
  BY <1>3
  DEF Reload, Disconnect, TabArrives, Reconnect, SwitchTab, Queue, StartTurn,
      FinishTurn, EndTurn, RefreshBegins, OpenArchive, RefreshShows, ControlAbort,
      Stop, round, vars
<1> QED
  BY <1>1, <1>2, <1>3 DEF Next

LEMMA RoundTypesKept ==
  ASSUME RoundTypes, RoundInv, [Next]_vars
  PROVE  RoundTypes'
<1>1. ASSUME NEW r \in Round, NEW tab \in Tab, NEW aborted \in BOOLEAN,
             ShowStep(r, tab, aborted)
      PROVE  RoundTypes'
  BY <1>1, Numbers DEF ShowStep, Asked, RoundTypes
<1>2. ASSUME NEW result \in {"answer", "cancel", "timeout"},
             pending # NoRound, Settle(result)
      PROVE  RoundTypes'
  BY <1>2, Numbers DEF Settle, RoundTypes
<1>3. CASE UNCHANGED RoundState
  BY <1>3 DEF RoundState, RoundTypes
<1> QED
  BY <1>1, <1>2, <1>3, RoundSteps

LEMMA RoundInvKept ==
  ASSUME RoundTypes, RoundInv, [Next]_vars
  PROVE  RoundInv'
<1>1. ASSUME NEW r \in Round, NEW tab \in Tab, NEW aborted \in BOOLEAN,
             ShowStep(r, tab, aborted)
      PROVE  RoundInv'
  <2>1. grace' = NoRound /\ outcome' = Asked(r, aborted)
    BY <1>1 DEF ShowStep
  <2>2. CASE aborted = TRUE
    <3>1. pending' = NoRound /\ timers' = timers \ {pending}
          /\ signals' = signals \ {pending}
      BY <1>1, <2>2 DEF ShowStep
    <3>2. \A q \in Round : outcome'[q] # "waiting"
      BY <2>1, <2>2 DEF Asked
    <3> QED
      BY <2>1, <3>1, <3>2, Numbers DEF RoundInv
  <2>3. CASE aborted = FALSE
    <3>1. pending' = r /\ timers' = (timers \ {pending}) \cup {r}
          /\ signals' = (signals \ {pending}) \cup {r}
      BY <1>1, <2>3 DEF ShowStep
    <3>2. \A q \in Round : outcome'[q] = "waiting" <=> q = r
      BY <2>1, <2>3 DEF Asked
    <3> QED
      BY <2>1, <3>1, <3>2 DEF RoundInv
  <2> QED
    BY <2>2, <2>3
<1>2. ASSUME NEW result \in {"answer", "cancel", "timeout"},
             pending # NoRound, Settle(result)
      PROVE  RoundInv'
  <2>1. pending' = NoRound /\ timers' \cup signals' = {}
    BY <1>2 DEF Settle, RoundInv
  <2>2. \A q \in Round : outcome'[q] # "waiting"
    BY <1>2 DEF Settle, RoundInv, RoundTypes
  <2> QED
    BY <2>1, <2>2, Numbers DEF RoundInv
<1>3. CASE UNCHANGED RoundState
  BY <1>3, GraceSteps DEF RoundState, RoundInv
<1> QED
  BY <1>1, <1>2, <1>3, RoundSteps

\* Seen from the one who asks, a step asks a round, resolves one that waits, or
\* is none of his business.
LEMMA PromiseStep ==
  ASSUME RoundTypes, RoundInv, [Next]_vars
  PROVE  [Promise!RoundsNext]_outcome
<1>1. ASSUME NEW r \in Round, NEW tab \in Tab, NEW aborted \in BOOLEAN,
             ShowStep(r, tab, aborted)
      PROVE  \E result \in {"waiting", "cancel"} : Promise!Ask(r, result)
  <2>1. CASE aborted = TRUE
    <3>1. Promise!Ask(r, "cancel")
      BY <1>1, <2>1 DEF ShowStep, Asked, Promise!Ask
    <3> QED
      BY <3>1
  <2>2. CASE aborted = FALSE
    <3>1. Promise!Ask(r, "waiting")
      BY <1>1, <2>2 DEF ShowStep, Asked, Promise!Ask
    <3> QED
      BY <3>1
  <2> QED
    BY <2>1, <2>2
<1>2. ASSUME NEW result \in {"answer", "cancel", "timeout"},
             pending # NoRound, Settle(result)
      PROVE  Promise!ResolveAny
  <2>1. pending \in Round /\ Promise!Resolve(pending, result)
    BY <1>2 DEF Settle, RoundInv, RoundTypes, Promise!Resolve
  <2> QED
    BY <2>1 DEF Promise!ResolveAny, Promise!Endings
<1>3. UNCHANGED RoundState => UNCHANGED outcome
  BY DEF RoundState
<1> QED
  BY <1>1, <1>2, <1>3, RoundSteps DEF Promise!RoundsNext

-----------------------------------------------------------------------------
(***************************************************************************)
(* Claims and the rest of the types.                                       *)
(***************************************************************************)

LEMMA ClaimTypesKept ==
  ASSUME ClaimTypes, [Next]_vars
  PROVE  ClaimTypes'
<1> USE Numbers DEF ClaimTypes, Claim, Release, working, NoClaim, overlay, agent, round
<1>1. CASE \E r \in Round, tab \in Tab, aborted \in BOOLEAN : ShowStep(r, tab, aborted)
  BY <1>1 DEF ShowStep
<1>2. CASE SubmitAnswer
  BY <1>2 DEF SubmitAnswer
<1>3. CASE SubmitAction
  BY <1>3 DEF SubmitAction
<1>4. CASE \E announced \in BOOLEAN : Queue(announced)
  BY <1>4 DEF Queue
<1>5. CASE StartTurn
  BY <1>5 DEF StartTurn
<1>6. CASE EndTurn
  BY <1>6 DEF EndTurn
<1>7. CASE ControlAbort
  BY <1>7 DEF ControlAbort
<1>8. CASE Stop
  BY <1>8 DEF Stop
<1>9. CASE \/ \E r \in Round : Timeout(r) \/ SignalAborts(r)
           \/ \E kind \in {"view", "settings"}, earlier \in BOOLEAN :
                SubmitHead(kind, earlier)
           \/ SubmitOther
           \/ CloseSettings \/ SaveSettings \/ SettingsSaved \/ OpenSettings
           \/ CancelNow \/ PageHides \/ GraceExpires
           \/ Reload \/ Disconnect \/ TabArrives
           \/ \E tab \in Tab : Reconnect(tab) \/ SwitchTab(tab)
           \/ FinishTurn \/ RefreshBegins \/ OpenArchive
           \/ \E activate \in BOOLEAN : RefreshShows(activate)
           \/ UNCHANGED vars
  BY <1>9
  DEF Timeout, SignalAborts, SubmitHead, SubmitOther, CloseSettings, SaveSettings,
      SettingsSaved, OpenSettings, CancelNow, PageHides, GraceExpires, Reload,
      Disconnect, TabArrives, Reconnect, SwitchTab, FinishTurn, RefreshBegins,
      OpenArchive, RefreshShows, vars
<1> QED
  BY <1>1, <1>2, <1>3, <1>4, <1>5, <1>6, <1>7, <1>8, <1>9 DEF Next

LEMMA OtherTypesKept ==
  ASSUME RoundTypes, OtherTypes, [Next]_vars
  PROVE  OtherTypes'
<1> USE Numbers DEF OtherTypes, RoundTypes, round, agent, dashboard, settings, tabs
<1>1. CASE \E r \in Round, tab \in Tab, aborted \in BOOLEAN : ShowStep(r, tab, aborted)
  BY <1>1 DEF ShowStep
<1>2. CASE \E r \in Round : Timeout(r) \/ SignalAborts(r)
  BY <1>2 DEF Timeout, SignalAborts
<1>3. CASE \/ \E kind \in {"view", "settings"}, earlier \in BOOLEAN :
                SubmitHead(kind, earlier)
           \/ SubmitAnswer \/ SubmitAction \/ SubmitOther
  BY <1>3 DEF SubmitHead, SubmitAnswer, SubmitAction, SubmitOther
<1>4. CASE CloseSettings \/ SaveSettings \/ SettingsSaved \/ OpenSettings
  BY <1>4 DEF CloseSettings, SaveSettings, SettingsSaved, OpenSettings
<1>5. CASE CancelNow \/ PageHides \/ GraceExpires
  BY <1>5 DEF CancelNow, PageHides, GraceExpires
<1>6. CASE \/ Reload \/ Disconnect \/ TabArrives
           \/ \E tab \in Tab : Reconnect(tab) \/ SwitchTab(tab)
  BY <1>6 DEF Reload, Disconnect, TabArrives, Reconnect, SwitchTab
<1>7. CASE \/ \E announced \in BOOLEAN : Queue(announced)
           \/ StartTurn \/ FinishTurn \/ EndTurn
  BY <1>7 DEF Queue, StartTurn, FinishTurn, EndTurn
<1>8. CASE RefreshBegins \/ OpenArchive
  BY <1>8 DEF RefreshBegins, OpenArchive
<1>9. CASE \E activate \in BOOLEAN : RefreshShows(activate)
  <2>1. refresh' = Tail(refresh) /\ refresh # <<>>
    BY <1>9 DEF RefreshShows
  <2> QED
    BY <1>9, <2>1, TabsToCome DEF RefreshShows
<1>10. CASE ControlAbort \/ Stop \/ UNCHANGED vars
  BY <1>10 DEF ControlAbort, Stop, vars
<1> QED
  BY <1>1, <1>2, <1>3, <1>4, <1>5, <1>6, <1>7, <1>8, <1>9, <1>10 DEF Next

-----------------------------------------------------------------------------
(***************************************************************************)
(* The shell.                                                              *)
(***************************************************************************)

ShellInv == ShellTypes /\ ShellInSync

Shells == [tab : Tab, covered : BOOLEAN, modal : BOOLEAN]

\* What an event makes of a shell that is connected.
LEMMA Broadcasts ==
  ASSUME ShellTypes
  PROVE  /\ \A tab \in Tab : Shows(Viewed(tab)) =>
              /\ shell' \in {Gone} \cup Shells
              /\ shell' # Gone =>
                   shell # Gone /\ shell'.covered = FALSE /\ shell'.modal = shell.modal
         /\ Shows(Covered) =>
              /\ shell' \in {Gone} \cup Shells
              /\ shell' # Gone =>
                   shell # Gone /\ shell'.covered = TRUE /\ shell'.modal = shell.modal
         /\ \A open \in BOOLEAN : Shows([shell EXCEPT !.modal = open]) =>
              /\ shell' \in {Gone} \cup Shells
              /\ shell' # Gone =>
                   shell # Gone /\ shell'.covered = shell.covered /\ shell'.modal = open
<1>1. shell # Gone => shell \in Shells
  BY DEF ShellTypes, Shells
<1> HIDE DEF Shells
<1>2. ASSUME NEW tab \in Tab, shell \in Shells
      PROVE  /\ Viewed(tab) \in Shells
             /\ Viewed(tab).covered = FALSE /\ Viewed(tab).modal = shell.modal
  BY <1>2 DEF Viewed, Shells
<1>3. ASSUME shell \in Shells
      PROVE  /\ Covered \in Shells
             /\ Covered.covered = TRUE /\ Covered.modal = shell.modal
  BY <1>3 DEF Covered, Shells
<1>4. ASSUME NEW open \in BOOLEAN, shell \in Shells
      PROVE  /\ [shell EXCEPT !.modal = open] \in Shells
             /\ [shell EXCEPT !.modal = open].covered = shell.covered
             /\ [shell EXCEPT !.modal = open].modal = open
  BY <1>4 DEF Shells
<1> QED
  BY <1>1, <1>2, <1>3, <1>4 DEF Shows

\* Who connects is told the present state.
LEMMA Connects ==
  ASSUME ShellTypes, NEW tab \in Tab, shell' = StateEvent(tab)
  PROVE  /\ shell' \in {Gone} \cup Shells
         /\ shell'.covered = working /\ shell'.modal = modal
BY DEF ShellTypes, StateEvent, Shells, working

\* A claim covers the shell, unless it resumes none.
LEMMA Claims ==
  ASSUME ClaimTypes, ShellInv, NEW resumed \in 0..claims, Claim(resumed), modal' = modal
  PROVE  /\ shell' \in {Gone} \cup Shells
         /\ shell' # Gone => shell'.covered = working' /\ shell'.modal = modal'
<1>1. working' = TRUE /\ Shows(Covered)
  BY Numbers DEF Claim, working, NoClaim, ClaimTypes
<1> QED
  BY <1>1, Broadcasts DEF ShellInv, ShellInSync

LEMMA Releases ==
  ASSUME ShellInv, NEW claim, Release(claim), modal' = modal
  PROVE  /\ shell' \in {Gone} \cup Shells
         /\ shell' # Gone => shell'.covered = working' /\ shell'.modal = modal'
<1>1. CASE working /\ claim \in {NoClaim, owner}
  <2>1. working' = FALSE /\ Shows(Viewed(activeTab)) /\ activeTab \in Tab
    BY <1>1 DEF Release, working, ShellInv, ShellTypes
  <2> QED
    BY <2>1, Broadcasts DEF ShellInv, ShellInSync
<1>2. CASE ~(working /\ claim \in {NoClaim, owner})
  <2>1. UNCHANGED <<owner, shell>>
    BY <1>2 DEF Release
  <2> QED
    BY <2>1 DEF ShellInv, ShellTypes, ShellInSync, working, Shells
<1> QED
  BY <1>1, <1>2

LEMMA ShellInvKept ==
  ASSUME ClaimTypes, ShellInv, OtherTypes, [Next]_vars
  PROVE  ShellInv'
<1> DEFINE InSync == /\ shell' \in {Gone} \cup Shells
                     /\ shell' # Gone => shell'.covered = working' /\ shell'.modal = modal'
           Told == activeTab' \in Tab /\ post' \in Tab \cup {NoTab} /\ modal' \in BOOLEAN
<1> SUFFICES InSync /\ Told
  BY DEF ShellInv, ShellTypes, ShellInSync, Shells
<1>a. ASSUME UNCHANGED <<owner, shell, modal>> PROVE InSync
  BY <1>a DEF ShellInv, ShellTypes, ShellInSync, working, Shells
<1>b. UNCHANGED <<activeTab, post, modal>> => Told
  BY DEF ShellInv, ShellTypes
<1> USE DEF overlay, agent, round, dashboard, settings, tabs
<1>1. ASSUME NEW r \in Round, NEW tab \in Tab, NEW aborted \in BOOLEAN,
             ShowStep(r, tab, aborted)
      PROVE  InSync /\ Told
  <2>1. /\ owner' = NoClaim /\ Shows(Viewed(tab)) /\ activeTab' = tab
        /\ UNCHANGED <<post, modal>>
    BY <1>1 DEF ShowStep
  <2>2. working' = FALSE
    BY <2>1 DEF working
  <2> QED
    BY <2>1, <2>2, Broadcasts DEF ShellInv, ShellInSync, ShellTypes
<1>2. ASSUME SubmitAnswer PROVE InSync /\ Told
  <2>1. Claim(suspended) /\ UNCHANGED <<activeTab, post, modal>>
    BY <1>2 DEF SubmitAnswer
  <2> QED
    BY <1>b, <2>1, Claims DEF ClaimTypes
<1>3. ASSUME SubmitAction \/ \E announced \in BOOLEAN : Queue(announced)
      PROVE  InSync /\ Told
  <2>1. /\ Claim(NoClaim) \/ UNCHANGED <<owner, shell>>
        /\ UNCHANGED <<activeTab, post, modal>>
    BY <1>3 DEF SubmitAction, Queue
  <2> QED
    BY <1>a, <1>b, <2>1, Claims DEF ClaimTypes, NoClaim
<1>4. ASSUME StartTurn PROVE InSync /\ Told
  <2>1. /\ Claim(NoClaim) \/ UNCHANGED <<owner, shell>>
        /\ UNCHANGED <<activeTab, post, modal>>
    BY <1>4 DEF StartTurn
  <2> QED
    BY <1>a, <1>b, <2>1, Claims DEF ClaimTypes, NoClaim
<1>5. ASSUME EndTurn \/ ControlAbort PROVE InSync /\ Told
  <2>1. /\ Release(turnOwner) \/ Release(NoClaim)
        /\ UNCHANGED <<activeTab, post, modal>>
    BY <1>5 DEF EndTurn, ControlAbort
  <2> QED
    BY <1>b, <2>1, Releases
<1>6. ASSUME CloseSettings PROVE InSync /\ Told
  <2>1. /\ Shows([shell EXCEPT !.modal = FALSE])
        /\ modal' = FALSE /\ UNCHANGED <<owner, activeTab, post>>
    BY <1>6 DEF CloseSettings
  <2> QED
    BY <2>1, Broadcasts DEF ShellInv, ShellInSync, ShellTypes, working
<1>7. ASSUME OpenSettings PROVE InSync /\ Told
  <2>1. /\ Shows([shell EXCEPT !.modal = TRUE])
        /\ modal' = TRUE /\ UNCHANGED <<owner, activeTab, post>>
    BY <1>7 DEF OpenSettings
  <2> QED
    BY <2>1, Broadcasts DEF ShellInv, ShellInSync, ShellTypes, working
<1>8. ASSUME SettingsSaved PROVE InSync /\ Told
  <2>1. /\ \/ modal' = FALSE /\ Shows([shell EXCEPT !.modal = FALSE])
           \/ UNCHANGED <<modal, shell>>
        /\ UNCHANGED <<owner, activeTab, post>>
    BY <1>8 DEF SettingsSaved
  <2>2. CASE modal' = FALSE /\ Shows([shell EXCEPT !.modal = FALSE])
    BY <2>1, <2>2, Broadcasts DEF ShellInv, ShellInSync, ShellTypes, working
  <2>3. CASE UNCHANGED <<modal, shell>>
    BY <1>a, <1>b, <2>1, <2>3
  <2> QED
    BY <2>1, <2>2, <2>3
<1>9. ASSUME Reload \/ \E tab \in Tab : Reconnect(tab) PROVE InSync /\ Told
  <2>1. PICK tab \in Tab : shell' = StateEvent(tab)
    BY <1>9 DEF Reload, Reconnect, ShellInv, ShellTypes
  <2>2. UNCHANGED <<owner, activeTab, post, modal>>
    BY <1>9 DEF Reload, Reconnect
  <2> QED
    BY <1>b, <2>1, <2>2, Connects DEF ShellInv, working
<1>10. ASSUME Disconnect PROVE InSync /\ Told
  BY <1>10, <1>b DEF Disconnect
<1>11. ASSUME NEW tab \in Tab, SwitchTab(tab) PROVE InSync /\ Told
  <2>1. /\ shell # Gone /\ shell' = [shell EXCEPT !.tab = tab] /\ post' = tab
        /\ UNCHANGED <<owner, activeTab, modal>>
    BY <1>11 DEF SwitchTab
  <2>2. /\ shell' \in Shells
        /\ shell'.covered = shell.covered /\ shell'.modal = shell.modal
    BY <2>1 DEF ShellInv, ShellTypes, Shells
  <2> QED
    BY <2>1, <2>2 DEF ShellInv, ShellTypes, ShellInSync, working
<1>12. ASSUME TabArrives PROVE InSync /\ Told
  <2>1. /\ activeTab' \in {post, activeTab} /\ post # NoTab /\ post' = NoTab
        /\ UNCHANGED <<owner, shell, modal>>
    BY <1>12 DEF TabArrives
  <2> QED
    BY <1>a, <2>1 DEF ShellInv, ShellTypes
<1>13. ASSUME NEW activate \in BOOLEAN, RefreshShows(activate) PROVE InSync /\ Told
  <2>1. Head(refresh) \in Tab /\ UNCHANGED <<owner, post, modal>>
    BY <1>13, TabsToCome DEF RefreshShows, OtherTypes
  <2>2. Told
    BY <1>13, <2>1 DEF RefreshShows, ShellInv, ShellTypes
  <2>3. \/ UNCHANGED shell
        \/ working /\ Shows(Covered)
        \/ ~working /\ Shows(Viewed(Head(refresh)))
    BY <1>13 DEF RefreshShows
  <2> QED
    BY <1>a, <2>1, <2>2, <2>3, Broadcasts DEF ShellInv, ShellInSync, working
<1>14. ASSUME Stop PROVE InSync /\ Told
  BY <1>14, TabsAre DEF Stop
<1>15. ASSUME \/ \E r \in Round : Timeout(r) \/ SignalAborts(r)
              \/ \E kind \in {"view", "settings"}, earlier \in BOOLEAN :
                   SubmitHead(kind, earlier)
              \/ SubmitOther \/ SaveSettings
              \/ CancelNow \/ PageHides \/ GraceExpires
              \/ FinishTurn \/ RefreshBegins \/ OpenArchive \/ UNCHANGED vars
       PROVE  InSync /\ Told
  <2>1. UNCHANGED <<owner, shell, activeTab, post, modal>>
    BY <1>15
    DEF Timeout, SignalAborts, SubmitHead, SubmitOther, SaveSettings, CancelNow,
        PageHides, GraceExpires, FinishTurn, RefreshBegins, OpenArchive, vars
  <2> QED
    BY <1>a, <1>b, <2>1
<1> HIDE DEF InSync, Told
<1> QED
  BY <1>1, <1>2, <1>3, <1>4, <1>5, <1>6, <1>7, <1>8, <1>9, <1>10, <1>11, <1>12,
     <1>13, <1>14, <1>15
  DEF Next

-----------------------------------------------------------------------------
(***************************************************************************)
(* The invariant, and what it says.                                        *)
(***************************************************************************)

SessionInv == TypeOK /\ RoundInv /\ ShellInSync

LEMMA InitSessionInv == Init => SessionInv
<1> SUFFICES ASSUME Init PROVE SessionInv
  OBVIOUS
<1>1. TypeOK
  <2>1. RoundTypes /\ OtherTypes
    BY Numbers DEF Init, RoundTypes, OtherTypes
  <2>2. ClaimTypes
    BY Numbers DEF Init, ClaimTypes, NoClaim
  <2>3. ShellTypes
    BY TabsAre DEF Init, ShellTypes
  <2> QED
    BY <2>1, <2>2, <2>3, TypesTogether
<1> QED
  BY <1>1, Numbers DEF Init, SessionInv, RoundInv, ShellInSync

LEMMA NextSessionInv ==
  ASSUME SessionInv, [Next]_vars
  PROVE  SessionInv'
<1>1. RoundTypes /\ ClaimTypes /\ ShellInv /\ OtherTypes /\ RoundInv
  BY TypesTogether DEF SessionInv, ShellInv
<1>2. RoundTypes' /\ ClaimTypes' /\ ShellInv' /\ OtherTypes' /\ RoundInv'
  BY <1>1, RoundTypesKept, ClaimTypesKept, ShellInvKept, OtherTypesKept, RoundInvKept
<1>3. TypeOK'
  BY <1>2, TypesTogether
  DEF TypeOK, RoundTypes, ClaimTypes, ShellTypes, OtherTypes, ShellInv
<1> QED
  BY <1>2, <1>3 DEF SessionInv, ShellInv

\* The server and the shell stay in step however requests, timers, refreshes
\* and broken connections interleave.
THEOREM SessionCorrect == Spec => []SessionInv
BY InitSessionInv, NextSessionInv, PTL DEF Spec

\* The server's state, the claims and what the shell shows stay of their types;
\* no claim is ever held that was not made (setWorking, clearWorking).
THEOREM TypesAreKept == Spec => []TypeOK
<1>1. SessionInv => TypeOK
  BY DEF SessionInv
<1> QED
  BY <1>1, SessionCorrect, PTL

\* For any number of rounds and claims, a connected shell covers Work exactly
\* while the agent works and has the settings open exactly while they are,
\* whatever it has missed (stateEvent and the events).
THEOREM ShellStaysInSync == Spec => []ShellInSync
<1>1. SessionInv => ShellInSync
  BY DEF SessionInv
<1> QED
  BY <1>1, SessionCorrect, PTL

\* For any number of rounds, what ends a round belongs to it: no timer, signal
\* or held cancel of a round that is over strikes a later one (settle,
\* clearCancelGrace).
THEOREM EndingsStayOwn == Spec => EndingsAreOwn
<1>1. ASSUME SessionInv
      PROVE  [\A r \in Round :
                /\ Timeout(r) => pending = r
                /\ SignalAborts(r) => pending = r
                /\ GraceExpires => pending \in {grace, NoRound}]_vars
  BY <1>1 DEF SessionInv, RoundInv, Timeout, SignalAborts, GraceExpires
<1> QED
  BY <1>1, SessionCorrect, PTL DEF Spec, EndingsAreOwn

\* Step by step, the server keeps the promise of Rounds: for any number of them
\* a round is asked in its turn, cancels one that waits and is resolved once
\* only (showStep, settle).  That it is resolved in the end is not claimed here.
THEOREM RoundsAreAskedAndResolvedOnce ==
  Spec => Promise!RoundsInit /\ [][Promise!RoundsNext]_outcome
<1>1. Init => Promise!RoundsInit
  BY DEF Init, Promise!RoundsInit
<1>2. ASSUME SessionInv, [Next]_vars PROVE [Promise!RoundsNext]_outcome
  BY <1>2, PromiseStep, TypesTogether DEF SessionInv
<1> QED
  BY <1>1, <1>2, SessionCorrect, PTL DEF Spec
=============================================================================
