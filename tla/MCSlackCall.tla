----------------------------- MODULE MCSlackCall -----------------------------
(***************************************************************************)
(* Instance of SlackCall for TLC: any two calls.                           *)
(***************************************************************************)
EXTENDS SlackCall

=============================================================================
