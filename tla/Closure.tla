------------------------------ MODULE Closure ------------------------------
(***************************************************************************)
(* What the bottom-up pass promises, without its recursion: in any order,  *)
(* a pair <<caller, callee>> is recorded once the callee leads to a        *)
(* checker result, and the pass may end only when no required pair is      *)
(* missing.  Later passes start with more results and fewer requirements   *)
(* and keep what is recorded.                                              *)
(***************************************************************************)
CONSTANTS
    Functions,
    MayCall      \* the <<caller, callee>> pairs of the call graph

VARIABLES
    hot,         \* functions that hold checker results
    required,    \* the pairs that are not cut at an API call
    recorded,    \* the pairs found so far
    done         \* has the pass ended?

absvars == <<hot, required, recorded, done>>

\* A function leads to a result: it holds one, or a call of it does.
Leads(f) == f \in hot \/ \E p \in recorded : p[1] = f

Init ==
    /\ hot \in SUBSET Functions
    /\ required \in SUBSET MayCall
    /\ recorded = {}
    /\ done = FALSE

Record(p) ==
    /\ ~ done
    /\ p \in required \ recorded
    /\ Leads(p[2])
    /\ recorded' = recorded \cup {p}
    /\ UNCHANGED <<hot, required, done>>

Finish ==
    /\ ~ done
    /\ \A p \in required : Leads(p[2]) => p \in recorded
    /\ done' = TRUE
    /\ UNCHANGED <<hot, required, recorded>>

Restart ==
    /\ done
    /\ hot' \in SUBSET Functions
    /\ hot \subseteq hot'
    /\ required' \in SUBSET required
    /\ done' = FALSE
    /\ UNCHANGED recorded

Next ==
    \/ \E p \in MayCall : Record(p)
    \/ Finish
    \/ Restart

Spec == Init /\ [][Next]_absvars
=============================================================================
