--------------------------- MODULE PointerClosure ---------------------------
(***************************************************************************)
(* What the collection of function pointers for an entry function means,   *)
(* whatever order it takes: a function is visited when it is the entry, is *)
(* called by a visited one, or may be called indirectly by a visited one   *)
(* and is among the pointers; and only pointers that a visited function    *)
(* passes on are added to those the entry starts with.                     *)
(***************************************************************************)
CONSTANTS
    Functions,
    Calls,       \* per function: the functions it calls for certain
    Indirect,    \* per function: those it may call through a pointer
    Passed       \* per function: those it takes the address of

VARIABLES
    root,        \* the entry function
    visited,
    pointers

absvars == <<root, visited, pointers>>

Init ==
    /\ root \in Functions
    /\ visited = {}
    /\ pointers \in SUBSET Functions

Visit(f) ==
    /\ \/ f = root
       \/ \E g \in visited : f \in Calls[g] \/ f \in Indirect[g] \cap pointers
    /\ visited' = visited \cup {f}
    /\ UNCHANGED <<root, pointers>>

Collect(g) ==
    /\ g \in visited
    /\ \E more \in SUBSET Passed[g] : pointers' = pointers \cup more
    /\ UNCHANGED <<root, visited>>

Next == \E f \in Functions : Visit(f) \/ Collect(f)

Spec == Init /\ [][Next]_absvars
=============================================================================
