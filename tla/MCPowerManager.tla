--------------------------- MODULE MCPowerManager ---------------------------
(* Model values for PowerManager. *)
EXTENDS PowerManager, TLC

CONSTANTS hci0, KillSwitch, OtherSwitch, cb1, cb2

\* Adapters, handlers and callbacks are interchangeable.
OneAdapter == {hci0}
TwoHandlers == {KillSwitch, OtherSwitch}
TwoCallbacks == {cb1, cb2}

Symmetric ==
    Permutations(Adapters) \cup Permutations(Handlers)
        \cup Permutations(Callbacks)
=============================================================================
