----------------------------- MODULE MCXMySQL -------------------------------
(***************************************************************************)
(* An object of class XMySQL with every order of calls.                    *)
(***************************************************************************)
EXTENDS XMySQL

\* All sequences of up to three answers: a stored procedure with two result
\* sets, and strings of several statements.
MCAnswers ==
  {a \in UNION {[1..n -> Answer] : n \in 1..3} :
     \A j \in 1..(Len(a) - 1) : a[j] # "error"}
=============================================================================
