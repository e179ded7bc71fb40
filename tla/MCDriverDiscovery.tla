------------------------- MODULE MCDriverDiscovery -------------------------
(***************************************************************************)
(* Two init functions that register the same operations structure, one of  *)
(* them a second one through a probe function pointer, with a handler of   *)
(* its own (ctl_c).  ctl_a and ctl_b each open a file whose handler is the *)
(* other one, ctl_a also one whose handler is ctl_a itself.  n1 and n2 have*)
(* the same source lines, so the drivers they yield are merged.            *)
(***************************************************************************)
EXTENDS DriverDiscovery, TLC

CONSTANTS init_a, init_b, ctl_a, ctl_b, ctl_c, probe,
          f1, f2, f3, n1, n2, n3, n4, n5, n6,
          dev_a, dev_b, file_a, file_b, file_c

MCFunctionNames == {init_a, init_b, ctl_a, ctl_b, ctl_c, probe}
MCInitFunctions == {init_a, init_b}
MCPointers == [f \in MCFunctionNames |-> IF f = init_b THEN {probe} ELSE {}]
MCCmds == [f \in MCFunctionNames |->
              CASE f = ctl_a -> {1, 2} [] f = ctl_b -> {3} [] f = ctl_c -> {1, 4} [] OTHER -> {}]
MCFindings == {f1, f2, f3, n1, n2, n3, n4, n5, n6}
MCFoundIn == f1 :> init_a @@ f2 :> init_b @@ f3 :> init_b @@
             n1 :> ctl_a @@ n2 :> ctl_a @@ n3 :> ctl_a @@ n4 :> ctl_b @@ n5 :> ctl_c @@ n6 :> ctl_c
MCNeeds == [f \in MCFindings |-> IF f \in {f3, n2} THEN {probe} ELSE {}]
MCOpsName == f1 :> dev_a @@ f2 :> dev_a @@ f3 :> dev_b @@
             n1 :> file_b @@ n2 :> file_b @@ n3 :> file_a @@ n4 :> file_a @@ n5 :> file_b @@ n6 :> file_c
MCSourceLines == [f \in MCFindings |-> IF f = n2 THEN n1 ELSE f]
MCFileOps == {n1, n2, n3, n4, n5, n6}
MCThrough == [f \in MCFindings |->
                 CASE f = n1 -> {1} [] f = n2 -> {1, 2} [] f = n4 -> {3} [] f \in {n5, n6} -> {4} [] OTHER -> {}]
MCIoctlHandler == dev_a :> ctl_a @@ dev_b :> ctl_c @@ file_a :> ctl_a @@ file_b :> ctl_b @@
                  file_c :> NoHandler
MCWalkOrders ==
    { f1 :> 1 @@ f2 :> 2 @@ f3 :> 3 @@ n1 :> 4 @@ n2 :> 5 @@ n3 :> 6 @@ n4 :> 7 @@ n5 :> 8 @@ n6 :> 9,
      f1 :> 7 @@ f2 :> 6 @@ f3 :> 5 @@ n1 :> 4 @@ n2 :> 3 @@ n3 :> 2 @@ n4 :> 1 @@ n5 :> 9 @@ n6 :> 8 }
=============================================================================
