---------------------------- MODULE SessionServer ----------------------------
(***************************************************************************)
(* The dashboard server of a Pi session (src/lib/session-server.mjs), with *)
(* the part of the extension that drives it (src/extensions/iterator.js):  *)
(* the round that waits for the human, its timers, the overlay that covers *)
(* the dashboard while the agent works and the claim that says whose work  *)
(* it shows.  A request is handled when its head arrives and again when    *)
(* its body is complete; a refresh of the dashboard looks for a pending    *)
(* round, gathers what it shows, and only then shows it, tab by tab.       *)
(* In the browser the shell, a page that is never reloaded, follows the    *)
(* server's events; when its connection breaks it connects again and is    *)
(* told the present state, not what it has missed.                         *)
(***************************************************************************)
EXTENDS Naturals, Sequences, FiniteSets

CONSTANTS
  MaxRounds,  \* bound on the rounds
  MaxClaims   \* bound on the claims of the overlay

ASSUME SessionAssumption == MaxRounds \in Nat \ {0} /\ MaxClaims \in Nat \ {0}

Round == 1..MaxRounds
NoRound == 0
NoClaim == 0

\* The tabs in the order a refresh shows them; knowledge and usage go the way
\* of planning.
Tabs == <<"planning", "work">>
Tab == {Tabs[i] : i \in DOMAIN Tabs}
NoTab == "none"

\* The shell while it is not connected.
Gone == [tab |-> NoTab]

VARIABLES
  outcome,   \* what every round was resolved with
  pending,   \* the round that waits, if any
  suspended, \* the claim that its view has replaced
  timers,    \* the rounds whose timeout is armed
  signals,   \* the rounds that listen to the abort signal of their tool call
  grace,     \* the round in whose time the cancel grace was armed, if it is
  body,      \* what is in the /submit that got past the run id, while it is to come
  owner,     \* the claim of the overlay; no claim, no overlay
  claims,    \* claims made so far
  turn,      \* the agent: "idle", "queued", "running" or "ending"
  turnOwner, \* the claim that the turn's end is to release
  refresh,   \* the tabs to come of a refresh that has seen no round pending
  activeTab, \* the tab the human is last known to look at
  modal,     \* are the settings open over the shell?
  saving,    \* settings are being written
  shell,     \* what the shell shows once the events on their way have arrived:
             \* its tab, and whether the overlay is up and the settings are open
  post       \* the tab named in a /tab on its way

round == <<outcome, pending, suspended, timers, signals, grace>>
overlay == <<owner, claims, shell>>
agent == <<turn, turnOwner>>
settings == <<modal, saving>>
tabs == <<activeTab, post>>
dashboard == <<activeTab, post, modal, saving>>
vars == <<outcome, pending, suspended, timers, signals, grace, body, owner,
          claims, turn, turnOwner, refresh, activeTab, modal, saving, shell, post>>

working == owner # NoClaim

TypeOK ==
  /\ outcome \in [Round -> {"unasked", "waiting", "answer", "cancel", "timeout"}]
  /\ pending \in Round \cup {NoRound}
  /\ timers \subseteq Round /\ signals \subseteq Round
  /\ grace \in Round \cup {NoRound}
  /\ body \in {"none", "view", "settings"}
  /\ refresh \in {Tabs, <<"work">>, <<"planning">>, <<>>}
  /\ activeTab \in Tab /\ post \in Tab \cup {NoTab}
  /\ modal \in BOOLEAN /\ saving \in BOOLEAN
  /\ shell \in {Gone} \cup [tab : Tab, covered : BOOLEAN, modal : BOOLEAN]
  /\ owner \in 0..claims /\ suspended \in 0..claims /\ turnOwner \in 0..claims
  /\ claims \in 0..MaxClaims
  /\ turn \in {"idle", "queued", "running", "ending"}

Init ==
  /\ outcome = [r \in Round |-> "unasked"]
  /\ pending = NoRound /\ suspended = NoClaim
  /\ timers = {} /\ signals = {} /\ grace = NoRound
  /\ body = "none" /\ refresh = <<>>
  /\ activeTab = "work" /\ post = NoTab
  /\ modal = FALSE /\ saving = FALSE
  /\ shell = Gone
  /\ owner = NoClaim /\ claims = 0
  /\ turn = "idle" /\ turnOwner = NoClaim

-----------------------------------------------------------------------------
(***************************************************************************)
(* The shell and the server's events.                                      *)
(***************************************************************************)

\* The shell is s once the event just broadcast has arrived.
Shows(s) == shell' = IF shell = Gone THEN Gone ELSE s

\* A view event, which loads the tab's document, and a working event.
Viewed(tab) == [shell EXCEPT !.tab = tab, !.covered = FALSE]
Covered == [shell EXCEPT !.covered = TRUE]

\* Mutant: who connects is told of the view, whatever is under way.
StateEventOfView(tab) ==
  [tab |-> activeTab, covered |-> FALSE, modal |-> modal]

\* What a shell that connects is told: of the overlay, or of the view; and of
\* the settings.
StateEvent(tab) ==
  [tab |-> IF working THEN tab ELSE activeTab, covered |-> working, modal |-> modal]

\* The page is opened, or reloaded.
Reload ==
  /\ grace' = NoRound
  /\ shell' = StateEvent(activeTab)
  /\ UNCHANGED <<outcome, pending, suspended, timers, signals, body, owner, claims,
                 agent, refresh, dashboard>>

\* The page is closed, or its connection breaks, ...
Disconnect ==
  /\ shell # Gone
  /\ shell' = Gone
  /\ UNCHANGED <<round, body, owner, claims, agent, refresh, dashboard>>

\* ... and connects again, on whatever tab it was.
Reconnect(tab) ==
  /\ shell = Gone
  /\ shell' = StateEvent(tab)
  /\ grace' = IF working THEN grace ELSE NoRound
  /\ UNCHANGED <<outcome, pending, suspended, timers, signals, body, owner, claims,
                 agent, refresh, dashboard>>

\* The human goes to another tab, and the shell tells the server.
SwitchTab(tab) ==
  /\ shell # Gone /\ shell.tab # tab
  /\ post = NoTab
  /\ post' = tab
  /\ shell' = [shell EXCEPT !.tab = tab]
  /\ grace' = NoRound
  /\ UNCHANGED <<outcome, pending, suspended, timers, signals, body, owner, claims,
                 agent, refresh, activeTab, settings>>

\* It may never arrive.
TabArrives ==
  /\ post # NoTab
  /\ activeTab' \in {post, activeTab}
  /\ post' = NoTab
  /\ UNCHANGED <<round, body, overlay, agent, refresh, settings>>

-----------------------------------------------------------------------------
(***************************************************************************)
(* Rounds and claims.                                                      *)
(***************************************************************************)

\* Mutant: the timeout of a round that is over stays armed.
SettleKeepingTimer(result) ==
  /\ outcome' = [outcome EXCEPT ![pending] = result]
  /\ pending' = NoRound
  /\ signals' = signals \ {pending}
  /\ UNCHANGED timers

\* settle, with a round pending: its timer and its listener go with it.
Settle(result) ==
  /\ outcome' = [outcome EXCEPT ![pending] = result]
  /\ pending' = NoRound
  /\ timers' = timers \ {pending}
  /\ signals' = signals \ {pending}

\* settle, if a round is pending.
SettleAny(result) ==
  IF pending # NoRound THEN Settle(result)
  ELSE UNCHANGED <<outcome, pending, timers, signals>>

\* Mutant: the numbers of the claims are not used up.
ClaimUnnumbered(resumed) ==
  /\ owner' = IF resumed # NoClaim THEN resumed ELSE claims + 1
  /\ Shows(Covered)
  /\ UNCHANGED claims

\* setWorking: a claim of its own, unless it is given one to resume.
Claim(resumed) ==
  IF resumed # NoClaim
  THEN owner' = resumed /\ Shows(Covered) /\ UNCHANGED claims
  ELSE /\ claims < MaxClaims
       /\ claims' = claims + 1
       /\ owner' = claims + 1
       /\ Shows(Covered)

\* clearWorking with the claim of a turn: that of another is left alone.
Release(claim) ==
  /\ UNCHANGED claims
  /\ IF working /\ claim \in {NoClaim, owner}
     THEN owner' = NoClaim /\ Shows(Viewed(activeTab))
     ELSE UNCHANGED <<owner, shell>>

\* Mutant: a round that waits is left waiting when the next one is asked.
AskedBeside(r, aborted) ==
  [outcome EXCEPT ![r] = IF aborted THEN "cancel" ELSE "waiting"]

\* Asked when its signal is aborted, a round is cancelled at once.
Asked(r, aborted) ==
  [q \in Round |-> IF q = r THEN (IF aborted THEN "cancel" ELSE "waiting")
                  ELSE IF outcome[q] = "waiting" THEN "cancel" ELSE outcome[q]]

\* showStep, by the agent, in the tab of the step.
ShowStep(r, tab, aborted) ==
  /\ turn = "running"
  /\ outcome[r] = "unasked"
  /\ \A q \in Round : q < r => outcome[q] # "unasked"
  /\ outcome' = Asked(r, aborted)
  /\ grace' = NoRound
  /\ owner' = NoClaim
  /\ activeTab' = tab
  /\ Shows(Viewed(tab))
  /\ IF aborted
     THEN /\ pending' = NoRound /\ suspended' = NoClaim
          /\ timers' = timers \ {pending} /\ signals' = signals \ {pending}
     ELSE /\ pending' = r /\ suspended' = owner
          /\ timers' = (timers \ {pending}) \cup {r}
          /\ signals' = (signals \ {pending}) \cup {r}
  /\ UNCHANGED <<body, claims, agent, refresh, post, settings>>

\* The timer fires, whatever round is pending by then.
Timeout(r) ==
  /\ r \in timers
  /\ timers' = timers \ {r}
  /\ IF pending = NoRound THEN UNCHANGED <<outcome, pending, signals>>
     ELSE /\ outcome' = [outcome EXCEPT ![pending] = "timeout"]
          /\ pending' = NoRound
          /\ signals' = signals \ {pending}
  /\ UNCHANGED <<suspended, grace, body, overlay, agent, refresh, dashboard>>

\* So does the listener on the abort signal.
SignalAborts(r) ==
  /\ r \in signals
  /\ SettleAny("cancel")
  /\ UNCHANGED <<suspended, grace, body, overlay, agent, refresh, dashboard>>

-----------------------------------------------------------------------------
(***************************************************************************)
(* Requests.                                                               *)
(***************************************************************************)

\* The head of a /submit from a view, or from the settings.  One that names an
\* earlier round is turned away while a round is pending.  The settings may be
\* closed twice, for the shell hides them only when it is told.
SubmitHead(kind, earlier) ==
  /\ body = "none"
  /\ pending # NoRound => ~earlier
  /\ body' = kind
  /\ UNCHANGED <<round, overlay, agent, refresh, dashboard>>

\* Its body: the answer of the round that is pending now, and so are settings
\* that are no longer open, ...
SubmitAnswer ==
  /\ pending # NoRound
  /\ body = "view" \/ (body = "settings" /\ ~modal)
  /\ body' = "none"
  /\ Claim(suspended)
  /\ Settle("answer")
  /\ UNCHANGED <<suspended, grace, agent, refresh, dashboard>>

\* ... or else an action of the dashboard, which starts a turn ...
SubmitAction ==
  /\ body = "view" /\ pending = NoRound /\ ~working
  /\ turn = "idle"
  /\ body' = "none"
  /\ Claim(NoClaim)
  /\ turn' = "queued"
  /\ UNCHANGED <<round, turnOwner, refresh, dashboard>>

\* ... or is turned away or needs no turn ...
SubmitOther ==
  /\ body = "view" /\ pending = NoRound
  /\ body' = "none"
  /\ UNCHANGED <<round, overlay, agent, refresh, dashboard>>

\* ... or closes the settings, also while the agent works ...
CloseSettings ==
  /\ body = "settings" /\ (modal \/ pending = NoRound)
  /\ body' = "none"
  /\ modal' = FALSE
  /\ Shows([shell EXCEPT !.modal = FALSE])
  /\ UNCHANGED <<round, owner, claims, agent, refresh, tabs, saving>>

\* ... or has them saved, unless the agent works ...
SaveSettings ==
  /\ body = "settings"
  /\ IF pending = NoRound THEN ~working ELSE modal
  /\ body' = "none"
  /\ saving' = TRUE
  /\ UNCHANGED <<round, overlay, agent, refresh, tabs, modal>>

\* ... which closes them when it is done, if it succeeds.
SettingsSaved ==
  /\ saving
  /\ saving' = FALSE
  /\ \/ modal' = FALSE /\ Shows([shell EXCEPT !.modal = FALSE])
     \/ UNCHANGED <<modal, shell>>
  /\ UNCHANGED <<round, body, owner, claims, agent, refresh, tabs>>

OpenSettings ==
  /\ modal' = TRUE
  /\ Shows([shell EXCEPT !.modal = TRUE])
  /\ UNCHANGED <<round, body, owner, claims, agent, refresh, tabs, saving>>

CancelNow ==
  /\ pending # NoRound
  /\ Settle("cancel")
  /\ grace' = NoRound
  /\ UNCHANGED <<suspended, body, overlay, agent, refresh, dashboard>>

\* The page goes away: the cancel is held, for it may be a reload.
PageHides ==
  /\ pending # NoRound /\ grace = NoRound
  /\ grace' = pending
  /\ UNCHANGED <<outcome, pending, suspended, timers, signals, body, overlay,
                 agent, refresh, dashboard>>

GraceExpires ==
  /\ grace # NoRound
  /\ grace' = NoRound
  /\ SettleAny("cancel")
  /\ UNCHANGED <<suspended, body, overlay, agent, refresh, dashboard>>

-----------------------------------------------------------------------------
(***************************************************************************)
(* The extension.                                                          *)
(***************************************************************************)

\* A turn is dispatched by the driver or typed into the terminal.
Queue(announced) ==
  /\ turn = "idle"
  /\ turn' = "queued"
  /\ IF announced THEN Claim(NoClaim) ELSE UNCHANGED overlay
  /\ UNCHANGED <<round, body, turnOwner, refresh, dashboard>>

\* before_agent_start: ensureWorking takes the claim over, or makes one.
StartTurn ==
  /\ turn = "queued"
  /\ turn' = "running"
  /\ IF working THEN UNCHANGED overlay ELSE Claim(NoClaim)
  /\ turnOwner' = owner'
  /\ UNCHANGED <<round, body, refresh, dashboard>>

\* A turn ends when its tool call has its result.
FinishTurn ==
  /\ turn = "running" /\ pending = NoRound
  /\ turn' = "ending"
  /\ UNCHANGED <<round, body, overlay, turnOwner, refresh, dashboard>>

\* agent_end, the last thing it does.
EndTurn ==
  /\ turn = "ending"
  /\ turn' = "idle" /\ turnOwner' = NoClaim
  /\ Release(turnOwner)
  /\ UNCHANGED <<round, body, refresh, dashboard>>

\* refreshHub, up to its first await, ...
RefreshBegins ==
  /\ pending = NoRound /\ refresh = <<>>
  /\ refresh' = Tabs
  /\ UNCHANGED <<round, body, overlay, agent, dashboard>>

\* An archived plan is gathered to be shown in the tab of the plans.
OpenArchive ==
  /\ body = "view" /\ pending = NoRound /\ ~working /\ refresh = <<>>
  /\ body' = "none"
  /\ refresh' = <<"planning">>
  /\ UNCHANGED <<round, overlay, agent, dashboard>>

\* ... and one showView after another.  A tab the human does not look at is
\* stored only, and one that the agent's work covers is shown when that ends.
RefreshShows(activate) ==
  /\ refresh # <<>>
  /\ refresh' = Tail(refresh)
  /\ activeTab' = IF activate THEN Head(refresh) ELSE activeTab
  /\ IF Head(refresh) # activeTab'
     THEN UNCHANGED <<outcome, pending, timers, signals, grace, shell>>
     ELSE /\ grace' = NoRound
          /\ IF working
             THEN /\ Shows(Covered)
                  /\ UNCHANGED <<outcome, pending, timers, signals>>
             ELSE Shows(Viewed(Head(refresh))) /\ SettleAny("cancel")
  /\ UNCHANGED <<suspended, body, owner, claims, agent, post, settings>>

\* Abort on the control strip: whatever claim there is goes.  That the turn is
\* aborted too reaches its round as the abort signal.
ControlAbort ==
  /\ Release(NoClaim)
  /\ UNCHANGED <<round, body, agent, refresh, dashboard>>

\* The session is shut down, and its round with it; the next one starts afresh.
Stop ==
  /\ SettleAny("cancel")
  /\ pending' = NoRound /\ suspended' = NoClaim /\ grace' = NoRound
  /\ body' = "none" /\ refresh' = <<>>
  /\ owner' = NoClaim /\ claims' = 0
  /\ activeTab' = "work" /\ post' = NoTab
  /\ modal' = FALSE /\ saving' = FALSE
  /\ shell' = Gone
  /\ turn' = "idle" /\ turnOwner' = NoClaim

Next ==
  \/ \E r \in Round, tab \in Tab, aborted \in BOOLEAN : ShowStep(r, tab, aborted)
  \/ \E r \in Round : Timeout(r) \/ SignalAborts(r)
  \/ \E kind \in {"view", "settings"}, earlier \in BOOLEAN : SubmitHead(kind, earlier)
  \/ SubmitAnswer \/ SubmitAction \/ SubmitOther
  \/ CloseSettings \/ SaveSettings \/ SettingsSaved \/ OpenSettings
  \/ CancelNow \/ PageHides \/ GraceExpires
  \/ Reload \/ Disconnect \/ TabArrives
  \/ \E tab \in Tab : Reconnect(tab) \/ SwitchTab(tab)
  \/ \E announced \in BOOLEAN : Queue(announced)
  \/ StartTurn \/ FinishTurn \/ EndTurn
  \/ RefreshBegins \/ OpenArchive \/ \E activate \in BOOLEAN : RefreshShows(activate)
  \/ ControlAbort \/ Stop

Spec == Init /\ [][Next]_vars /\ WF_vars(\E r \in Round : Timeout(r))

-----------------------------------------------------------------------------
(***************************************************************************)
(* Properties.                                                             *)
(***************************************************************************)

Promise == INSTANCE Rounds

\* Whoever asks gets one ending, and gets it in the end (showStep, settle).
RoundsAreResolved == Promise!RoundsSpec

\* A timeout, an aborted tool call or a page that stays away ends the round it
\* belongs to and no later one, although each resolves whatever is pending when
\* it strikes (settle and clearCancelGrace, session-server.mjs:419-434).
EndingsAreOwn ==
  [][\A r \in Round :
       /\ Timeout(r) => pending = r
       /\ SignalAborts(r) => pending = r
       /\ GraceExpires => pending \in {grace, NoRound}]_vars

\* Whatever broke in between, a connected shell covers Work exactly while the
\* server says that the agent works, and has the settings open exactly while they
\* are (stateEvent and the events, session-server.mjs:390-416 and 695-733).
ShellInSync ==
  shell # Gone => shell.covered = working /\ shell.modal = modal

\* "Resume the same ownership claim so its eventual agent_end can release it":
\* with no turn running or to come, no overlay is left (session-server.mjs:
\* 548-549 and 788-790).
OverlayIsReleased == turn = "idle" => ~working
=============================================================================
