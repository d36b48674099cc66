----------------------------- MODULE ProgressBars -----------------------------
(***************************************************************************)
(* gui/manager/ManagerProgressbar.py: the progress bars of the status bar  *)
(* of blueman-manager.  The class keeps a stack of them of which the last  *)
(* is shown; one that ends below the last stays in the stack, finalized,   *)
(* until those above it are gone.                                          *)
(***************************************************************************)
EXTENDS Sequences, FiniteSets, Naturals

CONSTANT Bars          \* bound: the bars there can be at a time

VARIABLES
    instances,         \* __instances__
    finalized,         \* the bars of the stack that are finalized
    visible,           \* the bars whose widgets are visible
    show_statusbar,    \* the setting show-statusbar
    statusbar          \* the status bar is visible

barVars == <<instances, finalized, visible, show_statusbar, statusbar>>

InStack == {instances[i] : i \in DOMAIN instances}
Active == InStack \ finalized
Top(s) == IF s = <<>> THEN {} ELSE {s[Len(s)]}

BarsInit ==
    /\ instances = <<>> /\ finalized = {} /\ visible = {}
    /\ show_statusbar \in BOOLEAN /\ statusbar = show_statusbar

\* Mutant: a new bar does not hide the last one.
NewBarBeside(b) ==
    /\ b \in Bars \ InStack
    /\ instances' = Append(instances, b)
    /\ visible' = visible \cup {b}
    /\ statusbar' = (statusbar \/ ~show_statusbar)
    /\ UNCHANGED <<finalized, show_statusbar>>

\* A new bar hides the last one.
NewBar(b) ==
    /\ b \in Bars \ InStack
    /\ instances' = Append(instances, b)
    /\ visible' = (visible \ Top(instances)) \cup {b}
    /\ statusbar' = (statusbar \/ ~show_statusbar)
    /\ UNCHANGED <<finalized, show_statusbar>>

\* The stack s without the finalized bars at its end, of which D are.
Trim(s, D) ==
    LET live == {i \in DOMAIN s : s[i] \notin D}
    IN  SubSeq(s, 1, IF live = {} THEN 0 ELSE CHOOSE i \in live : \A j \in live : j <= i)

\* What finalize() leaves of the stack when the bars B are finalized one after the other:
\* nothing is dropped unless the last bar is among them.
Left(B) == IF Top(instances) \subseteq B THEN Trim(instances, finalized \cup B) ELSE instances

\* finalize(), for bars of which some may be finalized already
Finalize(B) ==
    IF B \cap Active = {} THEN UNCHANGED barVars ELSE
    /\ instances' = Left(B)
    /\ finalized' = (finalized \cup B) \cap {instances'[i] : i \in DOMAIN instances'}
    /\ visible' = (visible \ B) \cup (IF instances' = instances THEN {} ELSE Top(instances'))
    /\ statusbar' = IF instances' = <<>> THEN statusbar /\ show_statusbar
                    ELSE statusbar \/ (~show_statusbar /\ instances' # instances)
    /\ UNCHANGED show_statusbar

\* The setting is changed: ManagerMenu._on_settings_changed.
SetShowStatusbar(v) ==
    /\ show_statusbar' = v /\ statusbar' = v
    /\ UNCHANGED <<instances, finalized, visible>>

(* One bar is visible, the last that is not finalized, and the status bar is visible when
   it is configured to be and otherwise only for the sake of a bar, in whatever order the
   operations of the bars end (ManagerProgressbar.__init__, finalize). *)
BarsShown ==
    /\ visible = Top(instances)
    /\ visible \cap finalized = {}
    /\ show_statusbar => statusbar
    /\ statusbar => show_statusbar \/ instances # <<>>
===============================================================================
