-------------------------------- MODULE Rounds --------------------------------
(***************************************************************************)
(* What showStep promises the one who asks (src/lib/session-server.mjs):   *)
(* a question that has been put to the human is resolved, once, by an      *)
(* answer, a cancel or a timeout, and a new question cancels one that is   *)
(* still waiting.                                                          *)
(***************************************************************************)
EXTENDS Naturals

CONSTANT Round  \* the rounds, numbered in the order they are asked

VARIABLE outcome

Endings == {"answer", "cancel", "timeout"}

RoundsInit == outcome = [r \in Round |-> "unasked"]

\* The next round is asked; its signal may have been aborted already.
Ask(r, result) ==
  /\ outcome[r] = "unasked"
  /\ \A q \in Round : q < r => outcome[q] # "unasked"
  /\ outcome' = [q \in Round |-> IF q = r THEN result
                                ELSE IF outcome[q] = "waiting" THEN "cancel"
                                ELSE outcome[q]]

Resolve(r, result) ==
  /\ outcome[r] = "waiting"
  /\ outcome' = [outcome EXCEPT ![r] = result]

ResolveAny == \E r \in Round, result \in Endings : Resolve(r, result)

RoundsNext ==
  \/ \E r \in Round, result \in {"waiting", "cancel"} : Ask(r, result)
  \/ ResolveAny

RoundsSpec == RoundsInit /\ [][RoundsNext]_outcome /\ WF_outcome(ResolveAny)
=============================================================================
