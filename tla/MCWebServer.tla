----------------------------- MODULE MCWebServer -----------------------------
(* Symmetry for the runs of the web server: neither the sessions of drivers  *)
(* nor the orders are told apart by their names.                             *)
EXTENDS RideBook, TLC

RideSymmetry == Permutations(OrderId) \cup Permutations(DriverSid)
==============================================================================
