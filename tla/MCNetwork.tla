------------------------------ MODULE MCNetwork ------------------------------
(* The access point with interchangeable addresses and DHCP servers. *)
EXTENDS Network, TLC

Symmetry == Permutations(Addresses) \cup Permutations(Handlers)
===============================================================================
