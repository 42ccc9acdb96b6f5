------------------------------ MODULE MCKiteRouter -----------------------------
(* Small instances of KiteRouter: its constants have their values in the cfg files. *)
EXTENDS KiteRouter

\* The faces of mobile and consumers, the contents and the nonces are interchangeable.
Symmetry == Permutations(Face \ FibNextHops) \cup Permutations(Content) \cup Permutations(Nonce)
================================================================================
