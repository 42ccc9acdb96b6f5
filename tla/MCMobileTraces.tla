----------------------------- MODULE MCMobileTraces ----------------------------
(* Small instances of MobileTraces: its constants have their values in the cfg files. *)
EXTENDS MobileTraces
================================================================================
