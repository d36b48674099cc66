---------------------------- MODULE MCAppletPlugins ----------------------------
(* Two devices on two adapters for Reconnect, and the symmetries. *)
EXTENDS AppletPlugins

CONSTANTS r1, r2, h1, h2

Homed == r1 :> h1 @@ r2 :> h2
Symmetry == Permutations(Controllers) \cup Permutations(Peers) \cup Permutations(Names)
            \cup Permutations(Headsets)
===============================================================================
