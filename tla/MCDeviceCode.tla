---------------------------- MODULE MCDeviceCode ----------------------------
(* DeviceCode instantiated for TLC. *)
EXTENDS DeviceCode, TLC

Symmetry == Permutations(Users) \cup Permutations(Apps) \cup Permutations(Devices)
    \cup Permutations(UserCodes) \cup Permutations(Sids)
    \cup Permutations(Requests) \cup Permutations(Browsers)
=============================================================================
