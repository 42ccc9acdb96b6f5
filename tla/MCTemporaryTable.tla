--------------------------- MODULE MCTemporaryTable ----------------------------
(* A small instance of TemporaryTableReference: values for its constants. *)
EXTENDS TemporaryTableReference

\* The root and a chain of two below it.
NameTree == {<<>>, <<"a">>, <<"a", "b">>}
================================================================================
