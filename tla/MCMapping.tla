----------------------------- MODULE MCMapping -----------------------------
(***************************************************************************)
(* first registers two drivers next to each other (opsA, opsB), each with  *)
(* a name, through a helper called at 10, and has a pattern that is as     *)
(* close to both; second registers a driver of another structure, a misc   *)
(* device, has a device name of the same directory, and a driver name for  *)
(* which only first has structures.  The ioctl handler of opsA makes an    *)
(* anonymous file and has a name and a number that fit the earlier drivers.*)
(***************************************************************************)
EXTENDS Mapping, TLC

CONSTANTS
    first, second, handler,
    opsA, opsB, opsC, nameA, pattern, foreign, device, minorC, fileOps, install, late

MCFound == first :> <<opsA, nameA, pattern, opsB>>
           @@ second :> <<foreign, opsC, device, minorC>>
           @@ handler :> <<late, fileOps, install>>
MCChecker == opsA :> "dri_ops" @@ opsB :> "dri_ops" @@ opsC :> "dri_ops" @@ nameA :> "dri_name"
             @@ pattern :> "dri_name" @@ foreign :> "dri_name" @@ device :> "dev_name"
             @@ minorC :> "dri_minor" @@ fileOps :> "file_ops" @@ install :> "file_install"
             @@ late :> "dri_name"
MCId == [c \in {opsA, opsB, nameA, pattern, foreign, late} |-> "cdev"]
        @@ [c \in {opsC, device, minorC, fileOps, install} |-> "none"]
MCChain == opsA :> <<10, 11>> @@ nameA :> <<10, 11>> @@ opsB :> <<10, 12>> @@ pattern :> <<10, 12>>
           @@ opsC :> <<20, 21>> @@ foreign :> <<22>> @@ device :> <<23>> @@ minorC :> <<20, 24>>
           @@ fileOps :> <<30, 31>> @@ install :> <<30>> @@ late :> <<32>>
MCValue == [c \in DOMAIN MCChecker |->
               CASE c \in {pattern, late} -> "%s" [] c = device -> "" [] OTHER -> "name"]
MCSamePlace == {<<device, opsC>>}
MCCheckerResults == DOMAIN MCChecker
MCEntryOf == [c \in MCCheckerResults |-> CHOOSE e \in {first, second, handler} : c \in Range(MCFound[e])]
\* Any of them may be missing.
MCOutcomes ==
    {[e \in {first, second, handler} |->
         [ct \in CheckerTypes |->
             SelectSeq(MCFound[e], LAMBDA c : c \in S /\ MCChecker[c] = ct)]] :
       S \in SUBSET MCCheckerResults}
MCInstalls == handler :> opsA
=============================================================================
