--------------------------- MODULE MCConsumerRequests --------------------------
(* Small instances of ConsumerRequests: its constants have their values in the cfg files. *)
EXTENDS ConsumerRequests
================================================================================
