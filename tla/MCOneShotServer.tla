--------------------------- MODULE MCOneShotServer ---------------------------
(***************************************************************************)
(* Two one-shot servers and the dashboard of a session, started in any     *)
(* order, over two ports and the one the system picks when both are taken. *)
(***************************************************************************)
EXTENDS OneShotServer

MCOneShot == {1, 2}
MCSession == {3}
=============================================================================
