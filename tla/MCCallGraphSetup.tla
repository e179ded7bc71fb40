-------------------------- MODULE MCCallGraphSetup --------------------------
(***************************************************************************)
(* run has one indirect call (2), probe two (3 and 4), and MLTA may find   *)
(* init functions for each of them.  init and init_5 are static functions  *)
(* of one name in different files; the lists name it up to three times.    *)
(***************************************************************************)
EXTENDS CallGraphSetup

CONSTANTS run, probe, init, init_5

MCFunctions == {run, probe, init, init_5}
MCInsts == 1 .. 5
MCOwner == <<run, run, probe, probe, init>>
MCDirectCallee == <<{probe}, {}, {}, {}, {run}>>
MCPointed == <<{init}, {}, {}, {probe}, {probe}>>
\* Instruction 1 calls probe and passes init; 5 calls run and passes probe.
MCMltaResults ==
    {[i \in MCInsts |-> CASE i = 2 -> A [] i = 3 -> B [] i = 4 -> C [] OTHER -> {}] :
        A \in SUBSET {run, init}, B \in SUBSET {init, init_5}, C \in SUBSET {init, probe}}
MCLevels == {"6", "7"}
MCRealName == [f \in MCFunctions |-> IF f = init_5 THEN init ELSE f]
MCInitSection == <<init, init_5>>
MCInitcallLists ==
    { <<>>,
      << <<"6", init>> >>,
      << <<"6", init>>, <<"6", init>>, <<"6", NoFunction>>, <<"6", init>> >>,
      << <<"6", init>>, <<"7", init>> >>,
      << <<"6", init_5>>, <<"6", probe>>, <<"7", init>>, <<"7", init>> >> }
=============================================================================
