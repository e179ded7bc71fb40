---------------------------- MODULE MCEntryWalk ----------------------------
(***************************************************************************)
(* Six functions: open calls load directly and hook or load_isra, the copy *)
(* of load that the compiler made, through a pointer; add, which load calls*)
(* and open passes a pointer of, calls back; hook calls lib, which lies in *)
(* a skipped path.  Every set of recorded sites is an initial state.  A    *)
(* result is an instruction and a checker; two checkers match call 4.      *)
(***************************************************************************)
EXTENDS EntryWalk, TLC

CONSTANTS open, load, load_isra, add, hook, lib

MCFunctions == {open, load, load_isra, add, hook, lib}
MCInsts == 1 .. 7
MCOwner == 1 :> open @@ 2 :> open @@ 3 :> load @@ 4 :> add @@ 5 :> load_isra @@ 6 :> hook @@ 7 :> lib
\* 1 also passes add, 3 also passes hook; 2 and 4 call through a pointer; 5, in
\* load_isra, closes a cycle; 7 gives lib a result that is never collected.
MCDirectTargets == 1 :> {load} @@ 2 :> {} @@ 3 :> {add} @@ 4 :> {} @@ 5 :> {load} @@ 6 :> {lib} @@ 7 :> {}
MCIndirectTargets == 1 :> {} @@ 2 :> {hook, load_isra} @@ 3 :> {} @@ 4 :> {load_isra, hook} @@ 5 :> {} @@ 6 :> {} @@ 7 :> {}
MCPointerTargets == 1 :> {add} @@ 2 :> {} @@ 3 :> {hook} @@ 4 :> {} @@ 5 :> {} @@ 6 :> {} @@ 7 :> {}
MCRealName == [f \in MCFunctions |-> IF f = load_isra THEN load ELSE f]
MCResults == [f \in MCFunctions |->
                 CASE f = add       -> << <<4, "misc">>, <<4, "cdev">> >>
                   [] f = load      -> << <<3, "misc">> >>
                   [] f = load_isra -> << <<5, "misc">> >>
                   [] f = hook      -> << <<6, "cdev">> >>
                   [] f = lib       -> << <<7, "cdev">> >>
                   [] OTHER         -> <<>>]
MCCheckerResults == MCInsts \X {"misc", "cdev"}
MCInstOf == [r \in MCCheckerResults |-> r[1]]
MCMapOrders == {[i \in MCInsts |-> i], [i \in MCInsts |-> 8 - i]}
=============================================================================
