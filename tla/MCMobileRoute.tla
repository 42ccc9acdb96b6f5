----------------------------- MODULE MCMobileRoute -----------------------------
(* Small instances of MobileRoute: values for its constants. *)
EXTENDS MobileRoute

MobilePrefix == {<<"rv", "mobile">>}
Traces == 1..8
================================================================================
