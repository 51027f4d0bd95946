--------------------------- MODULE MCDeviceRegistry ---------------------------
(***************************************************************************)
(* DeviceRegistry as TLC checks it.  Subscribers are named by requests and *)
(* devices by registrations, so permuting a set permutes the rows with it. *)
(***************************************************************************)
EXTENDS DeviceRegistry, TLC

Symmetry == Permutations(Request) \cup Permutations(Registration) \cup Permutations(MSISDN)
=============================================================================
