--------------------------- MODULE MCDescriptions ---------------------------
(***************************************************************************)
(* Two init functions of different source files register one operations    *)
(* structure; init_b also a second one, through a probe function pointer,  *)
(* whose handler is ctl_b.  A command of ctl_a opens two files with one    *)
(* handler, found twice by the same lines but once through probe; another  *)
(* opens a file whose handler is a loop back to ctl_a; ctl_b opens a file  *)
(* of no use and one of use by the same command.  ctl_c, the handler of    *)
(* that one, opens a file of ctl_a by its own command.                     *)
(***************************************************************************)
EXTENDS Descriptions, TLC

CONSTANTS init_a, init_b, ctl_a, ctl_b, ctl_c, probe, f1, f2, f3, n1, n2, n3, n4, n5, n6,
          dev_a, dev_b, file_a, file_b, file_c

MCFunctionNames == {init_a, init_b, ctl_a, ctl_b, ctl_c, probe}
MCInitFunctions == {init_a, init_b}
MCPointers == [f \in MCFunctionNames |-> IF f = init_b THEN {probe} ELSE {}]
MCCmds == [f \in MCFunctionNames |->
              CASE f = ctl_a -> {1, 2} [] f = ctl_b -> {3} [] f = ctl_c -> {4} [] OTHER -> {}]
MCFindings == {f1, f2, f3, n1, n2, n3, n4, n5, n6}
MCFoundIn == f1 :> init_a @@ f2 :> init_b @@ f3 :> init_b @@
             n1 :> ctl_a @@ n2 :> ctl_a @@ n3 :> ctl_a @@ n4 :> ctl_c @@ n5 :> ctl_b @@ n6 :> ctl_b
MCNeeds == [f \in MCFindings |-> IF f \in {f3, n2} THEN {probe} ELSE {}]
MCOpsName == f1 :> dev_a @@ f2 :> dev_a @@ f3 :> dev_b @@
             n1 :> file_b @@ n2 :> file_b @@ n3 :> file_a @@ n4 :> file_a @@ n5 :> file_b @@ n6 :> file_c
MCSourceLines == [f \in MCFindings |-> IF f = n2 THEN n1 ELSE f]
MCFileOps == {n1, n2, n3, n4, n5, n6}
MCThrough == [f \in MCFindings |->
                 CASE f = n1 -> {1} [] f = n2 -> {1, 2} [] f = n3 -> {2} [] f = n4 -> {4} [] f \in {n5, n6} -> {3} [] OTHER -> {}]
MCIoctlHandler == dev_a :> ctl_a @@ dev_b :> ctl_b @@ file_a :> ctl_a @@ file_b :> ctl_c @@
                  file_c :> NoHandler
MCWalkOrders ==
    { f1 :> 1 @@ f2 :> 2 @@ f3 :> 3 @@ n1 :> 4 @@ n2 :> 5 @@ n3 :> 6 @@ n4 :> 7 @@ n5 :> 8 @@ n6 :> 9 }
MCSourceFile == [f \in MCFunctionNames |-> f]
MCOneSourceFile == [f \in MCFunctionNames |-> init_a]

\* What the theorems about files ask of the program: this one has two call chains that
\* are printed alike.
ASSUME ChainsTell == ChainsNameFunctions /\ ChainsNameCommands
=============================================================================
