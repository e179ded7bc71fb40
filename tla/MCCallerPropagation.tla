------------------------ MODULE MCCallerPropagation ------------------------
(***************************************************************************)
(* A program with what makes the walk hard: a cycle of fa, fb and fc; a    *)
(* function that calls itself through a pointer table; two direct calls of *)
(* one function from one caller; an indirect call that may enter a module  *)
(* init function; and an instruction that is a direct call and also passes *)
(* a function pointer.                                                     *)
(***************************************************************************)
EXTENDS CallerPropagation

CONSTANTS fa, fb, fc, init

MCFunctions == {fa, fb, fc, init}
MCInsts == 1 .. 6
MCOwner == <<fb, fb, fa, fc, fb, init>>
MCDirectTargets == <<{fa}, {fa}, {fc}, {}, {}, {fa}>>
MCIndirectTargets == <<{}, {}, {}, {fb, init}, {fb}, {}>>
MCPointerTargets == <<{fb}, {}, {}, {}, {}, {fc}>>
MCInitFunctions == {init}
MCMapOrders == {[i \in MCInsts |-> i], [i \in MCInsts |-> 7 - i]}
=============================================================================
