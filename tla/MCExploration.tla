--------------------------- MODULE MCExploration ---------------------------
(***************************************************************************)
(* open calls reg, passing it cb, which reg calls back before cb is among  *)
(* the pointers; cb alone takes the address of late.  probe is only passed *)
(* and sounds like a callback; it calls cb and late, and the heap order    *)
(* decides which comes first.  lib, with two of the possible names, is     *)
(* skipped; late closes a cycle.  late, cb and lib have results, late two. *)
(***************************************************************************)
EXTENDS Exploration, TLC

CONSTANTS open, reg, cb, late, probe, lib

MCFunctions == {open, reg, cb, late, probe, lib}
Direct(inst, f) == [i |-> inst, ct |-> "callee_not_isDeclaration", tf_set |-> {f}, checked |-> FALSE]
CheckedCall(inst, f) == [i |-> inst, ct |-> "callee_not_isDeclaration", tf_set |-> {f}, checked |-> TRUE]
IndirectCall(inst, S) == [i |-> inst, ct |-> "callee_indirect", tf_set |-> S, checked |-> FALSE]
Pointer(inst, S) == [i |-> inst, ct |-> "function_pointer", tf_set |-> S, checked |-> FALSE]
MCAllCallee ==
    open :> <<Direct(1, reg), Pointer(1, {cb, probe, lib}), IndirectCall(2, {late}), CheckedCall(3, late)>>
    @@ reg :> <<IndirectCall(4, {cb}), Direct(5, lib)>>
    @@ cb :> <<Pointer(6, {late})>>
    @@ late :> <<Direct(7, reg), Pointer(8, {reg})>>
    @@ probe :> <<IndirectCall(9, {cb, late})>>
    @@ lib :> <<Pointer(10, {lib})>>
MCOwner == 1 :> open @@ 2 :> open @@ 3 :> open @@ 4 :> reg @@ 5 :> reg @@ 6 :> cb
           @@ 7 :> late @@ 8 :> late @@ 9 :> probe @@ 10 :> lib
MCNamesIn == [f \in MCFunctions |-> CASE f = probe -> 1 [] f = lib -> 2 [] OTHER -> 0]
\* A result is an instruction and a checker.
MCResults == [f \in MCFunctions |->
                 CASE f = cb   -> << <<6, "misc">> >>
                   [] f = late -> << <<8, "cdev">>, <<8, "misc">> >>
                   [] f = lib  -> << <<10, "misc">> >>
                   [] OTHER    -> <<>>]
MCCheckerResults == (1 .. 10) \X {"misc", "cdev"}
MCInstOf == [r \in MCCheckerResults |-> r[1]]
MCHeapOrders == {open :> 1 @@ reg :> 2 @@ cb :> 3 @@ late :> 4 @@ probe :> 5 @@ lib :> 6,
                 open :> 6 @@ reg :> 5 @@ cb :> 4 @@ late :> 3 @@ probe :> 2 @@ lib :> 1}
MCParentPointers == (SUBSET {cb, late}) \cup {{reg, probe}}
MCRealName == [f \in MCFunctions |-> f]
MCMapOrders == {[inst \in 1 .. 10 |-> inst], [inst \in 1 .. 10 |-> 11 - inst]}
=============================================================================
