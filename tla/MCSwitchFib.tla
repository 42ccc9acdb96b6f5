------------------------------- MODULE MCSwitchFib -----------------------------
(* A small instance of SwitchFib: values for its constants. *)
EXTENDS SwitchFib

\* The root, a short prefix, one of four components, and two of five that share these.
Nested == {<<>>, <<"a">>, <<"a", "b", "c", "d">>, <<"a", "b", "c", "d", "a">>,
           <<"a", "b", "c", "d", "b">>}
FourHashes == [c \in {"a", "b", "c", "d"} |->
                  CASE c = "a" -> 0 [] c = "b" -> 1 [] c = "c" -> 2 [] c = "d" -> 253]
================================================================================
