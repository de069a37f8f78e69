---------------------------- MODULE MCScalperExec ----------------------------
(***************************************************************************)
(* Values of ScalperExec's constants for TLC.                              *)
(***************************************************************************)
EXTENDS ScalperExec

\* A store with no earlier session.
NoneCarried == {}
\* One position, and two, opened and confirmed by an earlier session.
OneCarried == {<<0, 1>>}
TwoCarried == {<<0, 1>>, <<0, 2>>}
=============================================================================
