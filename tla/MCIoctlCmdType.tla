--------------------------- MODULE MCIoctlCmdType ---------------------------
(***************************************************************************)
(* A handler, ioctl, with a test of command 7 before a switch on others,   *)
(* the calls of which lead to two functions, sub and aux, that test the    *)
(* command further; sub calls itself and aux calls sub.                    *)
(*   h1: copies in; 7 -> h2, else h3.   h2: copies out; h6.                *)
(*   h3: 1 -> h4, 2 -> h5, 6 and default h6.   h4: calls sub; h6.          *)
(*   h5: copies in, compares with a variable; back to h3 or h6.            *)
(*   h6: calls aux or foreign by a pointer, compares with 5, no branch.    *)
(*   g1: 3 -> g2, default g3.   g2: copies in, calls sub; g3.              *)
(*   g3: copies out.                                                       *)
(*   k1: 1 -> k2, 4 and default k3.   k2: copies out; k3.                  *)
(*   k3: calls sub without the command.                                    *)
(* Otherwise sub is only called in h4: command 3 is found if h4 is looked  *)
(* at before h3.  From h3 and h5 four blocks are reached, where the search *)
(* of LLVM gives up: command 2 gets the copies of h2, too.                 *)
(***************************************************************************)
EXTENDS IoctlCmdType, TLC

CONSTANTS ioctl, sub, aux, foreign, copy_from_user, copy_to_user, memdup_user,
          h1, h2, h3, h4, h5, h6, g1, g2, g3, k1, k2, k3,
          hfile, hcmd, harg, gcmd, garg, kcmd, karg

MCFunctions == {ioctl, sub, aux, foreign, copy_from_user, copy_to_user, memdup_user}
MCDeclared == {foreign, copy_from_user, copy_to_user, memdup_user}
HBlocks == {h1, h2, h3, h4, h5, h6}
GBlocks == {g1, g2, g3}
KBlocks == {k1, k2, k3}
MCBlocks == HBlocks \cup GBlocks \cup KBlocks
MCFunctionOf == [b \in MCBlocks |-> IF b \in HBlocks THEN ioctl ELSE IF b \in GBlocks THEN sub ELSE aux]
MCEntryBlock == ioctl :> h1 @@ sub :> g1 @@ aux :> k1
MCSuccs == h1 :> <<h2, h3>> @@ h2 :> <<h6>> @@ h3 :> <<h6, h4, h5, h6>> @@ h4 :> <<h6>>
           @@ h5 :> <<h3, h6>> @@ h6 :> <<>> @@ g1 :> <<g3, g2>> @@ g2 :> <<g3>> @@ g3 :> <<>>
           @@ k1 :> <<k3, k2, k3>> @@ k2 :> <<k3>> @@ k3 :> <<>>
MCParams == ioctl :> <<hfile, hcmd, harg>> @@ sub :> <<gcmd, garg>> @@ aux :> <<kcmd, karg>>

\* Per instruction: block, kind, operands (of a call: arguments), and the rest.
Code == <<
    <<h1, "other", <<>>, {}>>,             \* 1: a variable for the command
    <<h1, "other", <<hcmd, 1>>, {1}>>,     \* 2: which is stored there
    <<h1, "call", <<harg>>, {copy_from_user}>>,
    <<h1, "other", <<1>>, {}>>,            \* 4: and loaded
    <<h1, "icmp", <<4>>, 7>>,
    <<h1, "br", <<5>>, {}>>,
    <<h2, "call", <<harg>>, {copy_to_user}>>,
    <<h2, "icmp", <<7>>, 9>>,              \* not on the command
    <<h2, "br", <<8>>, {}>>,
    <<h3, "switch", <<4>>, <<1, 2, 6>>>>,  \* 10
    <<h4, "call", <<4, harg>>, {sub}>>,
    <<h4, "br", <<>>, {}>>,
    <<h5, "call", <<harg>>, {copy_from_user}>>,
    <<h5, "icmp", <<4, 13>>, NoConstant>>,
    <<h5, "br", <<14>>, {}>>,              \* 15
    <<h6, "call", <<4, harg, 4>>, {}>>,    \* through a pointer, one argument too many
    <<h6, "icmp", <<4>>, 5>>,
    <<g1, "switch", <<gcmd>>, <<3>>>>,
    <<g2, "call", <<garg>>, {copy_from_user}>>,
    <<g2, "call", <<gcmd, garg>>, {sub}>>,   \* 20
    <<g2, "br", <<>>, {}>>,
    <<g3, "call", <<garg>>, {copy_to_user}>>,
    <<k1, "switch", <<kcmd>>, <<1, 4>>>>,
    <<k2, "call", <<karg>>, {copy_to_user}>>,
    <<k2, "call", <<karg>>, {memdup_user}>>, \* 25
    <<k2, "br", <<>>, {}>>,
    <<k3, "call", <<karg, karg>>, {sub}>> >>

MCInsts == DOMAIN Code
MCBlockOf == [i \in MCInsts |-> Code[i][1]]
MCKind == [i \in MCInsts |-> Code[i][2]]
MCOperands == [i \in MCInsts |-> {Code[i][3][n] : n \in DOMAIN Code[i][3]}]
MCArguments == [i \in MCInsts |-> IF MCKind[i] = "call" THEN Code[i][3] ELSE <<>>]
MCStoredTo == [i \in MCInsts |-> IF i = 2 THEN {1} ELSE {}]
MCCaseValues == [i \in MCInsts |-> IF MCKind[i] = "switch" THEN Code[i][4] ELSE <<>>]
MCCompared == [i \in MCInsts |-> IF MCKind[i] = "icmp" THEN Code[i][4] ELSE NoConstant]
MCDirectTargets == [i \in MCInsts |-> IF MCKind[i] = "call" THEN Code[i][4] ELSE {}]
MCIndirectTargets == [i \in MCInsts |-> IF i = 16 THEN {aux, foreign, ioctl} ELSE {}]

\* Rotations of the program order of the handler's blocks and of its reverse,
\* with two orders of the blocks of sub and aux.
Rotations(p) == {[n \in DOMAIN p |-> p[((n + r) % Len(p)) + 1]] : r \in 1 .. Len(p)}
MCBlockOrders ==
    LET orders == Rotations(<<h1, h2, h3, h4, h5, h6>>) \cup Rotations(<<h6, h5, h4, h3, h2, h1>>)
        rank(p) == [b \in HBlocks |-> CHOOSE n \in DOMAIN p : p[n] = b]
    IN {rank(p) @@ q : p \in orders,
           q \in {g1 :> 1 @@ g2 :> 2 @@ g3 :> 3 @@ k1 :> 4 @@ k2 :> 5 @@ k3 :> 6,
                  g2 :> 1 @@ g3 :> 2 @@ g1 :> 3 @@ k3 :> 4 @@ k1 :> 5 @@ k2 :> 6}}
=============================================================================
