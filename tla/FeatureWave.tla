----------------------------- MODULE FeatureWave -----------------------------
(***************************************************************************)
(* The ready wave (pauseFeatureWave, completeFeatureWaveAbort and          *)
(* nextFeatureWaveAction in src/lib/pi-tools.mjs): the features that were  *)
(* ready when the button was clicked, implemented one after the other.     *)
(* Pure operators on the wave; AutoDriver keeps it and acts on it.         *)
(***************************************************************************)
EXTENDS SequencesExt, Naturals

CONSTANT None \* no feature

\* No wave under way, or one that ended.
NoWave == [queue |-> <<>>]

NewWave(ready) ==
  [queue |-> ready, active |-> None, results |-> <<>>, abortPending |-> FALSE]

Result(f, outcome) == [feature |-> f, outcome |-> outcome]

\* The results and the waves there are over the features of F.
Results(F) ==
  [feature : F, outcome : {"implemented", "failed", "missing", "conflict", "skipped"}]
Waves(F) == [queue : Seq(F), active : F \cup {None}, results : Seq(Results(F)),
             abortPending : BOOLEAN]

\* The active item alone, as a sequence.
ActiveOf(w) == IF w.active = None THEN <<>> ELSE <<w.active>>

\* The item whose turn is interrupted goes back to the head of the queue.
PauseFeatureWave(w) ==
  [w EXCEPT !.queue = ActiveOf(w) \o @, !.active = None,
            !.abortPending = w.active # None]

CompleteFeatureWaveAbort(w) == [w EXCEPT !.abortPending = FALSE]

Landed(f, status) == status[f] \in {"implemented", "done"}

\* The result of the active item, read off the bundle.
Verdict(f, status) ==
  Result(f, IF f \in DOMAIN status /\ Landed(f, status) THEN "implemented" ELSE "failed")

\* The result of a queued item that is not dispatched.
PassedOver(f, status, conflicted) ==
  Result(f, IF f \notin DOMAIN status THEN "missing"
            ELSE IF f \in conflicted THEN "conflict"
            ELSE IF Landed(f, status) THEN "implemented"
            ELSE "skipped")

Dispatchable(f, status, conflicted) ==
  f \in DOMAIN status /\ f \notin conflicted /\ status[f] = "pending"

\* The place in the queue of the first item that can be dispatched, or 0.
NextPlace(w, status, conflicted) ==
  SelectInSeq(w.queue, LAMBDA f : Dispatchable(f, status, conflicted))

\* The items before it.
Passed(w, n) == IF n = 0 THEN w.queue ELSE SubSeq(w.queue, 1, n - 1)

\* The active item gets its result, and the first queued one that can be
\* dispatched is the next; those before it get theirs.  It is over when there
\* is none.
NextFeatureWave(w, status, conflicted) ==
  LET n == NextPlace(w, status, conflicted)
      passed == Passed(w, n)
  IN  [queue |-> IF n = 0 THEN <<>> ELSE SubSeq(w.queue, n + 1, Len(w.queue)),
       active |-> IF n = 0 THEN None ELSE w.queue[n],
       results |-> w.results
                     \o [i \in DOMAIN ActiveOf(w) |-> Verdict(w.active, status)]
                     \o [i \in DOMAIN passed |-> PassedOver(passed[i], status, conflicted)],
       abortPending |-> FALSE]

\* Every item of the wave, wherever it is.
Items(w) ==
  w.queue \o ActiveOf(w) \o [i \in DOMAIN w.results |-> w.results[i].feature]
=============================================================================
