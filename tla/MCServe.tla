------------------------------ MODULE MCServe ------------------------------
(* Serve has no size to bound. *)
EXTENDS Serve
=============================================================================
