---------------------------- MODULE MCMZHandler -----------------------------
(***************************************************************************)
(* Go with a database that may fail at every call.                         *)
(***************************************************************************)
EXTENDS MZHandler

InsertAnswers == {<<"ok">>}
=============================================================================
