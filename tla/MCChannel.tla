----------------------------- MODULE MCChannel -----------------------------
(***************************************************************************)
(* Instance of Channel for TLC.                                            *)
(***************************************************************************)
EXTENDS Channel

MCTexts == {{"mention"}, {"mention", "marker"}}

Writer(author, here, subtype) == [author |-> author, here |-> here, subtype |-> subtype]

MCWriters ==
  {Writer("user", TRUE, FALSE), Writer("user", FALSE, FALSE), Writer("self", TRUE, FALSE),
   Writer("bot", TRUE, FALSE), Writer("bot", TRUE, TRUE)}

=============================================================================
