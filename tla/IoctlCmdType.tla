---------------------------- MODULE IoctlCmdType ----------------------------
(***************************************************************************)
(* ioctl_cmd_type (lib/AnalysisLib/ioctl_cmd_type.cpp): which commands an  *)
(* ioctl handler tells apart and what each of them copies from and to user *)
(* space.  run_cmd() goes through the blocks of the handler and, for every *)
(* switch on the command or branch after a comparison with it, starts      *)
(* run_type() at the block of the command, which collects the copies in all*)
(* blocks reachable from there.  Both follow calls that pass the command or*)
(* the argument on, each with a new object of the class.                   *)
(*                                                                         *)
(* The objects are the elements of stack.  run_cmd() takes blocks in the   *)
(* order of their heap addresses, the constant choice block_order, and     *)
(* leaves out those dominated by the block of a command it has seen: what  *)
(* it finds depends on that order.  Statistics (in_entry_function,         *)
(* in_indirect_call) and the types of the copies are left out; a copy      *)
(* stands for the operand it is recorded for.  Every block is taken to be  *)
(* reachable from the entry of its function.                               *)
(***************************************************************************)
EXTENDS Integers, Sequences, FiniteSets, Functions

CONSTANTS
    Functions,        \* declared ones included
    Declared,
    CopyIn,           \* functions with copy_from_user in their name
    CopyOut,          \* functions with copy_to_user in their name
    MemdupUser,       \* functions with memdup_user in their name: not followed, and
                      \* no operand of a call to them is marked as returned
    Blocks,
    FunctionOf,       \* the function of a block
    EntryBlock,       \* of a function
    Succs,            \* successors of a block in order; those of a switch: the
                      \* default, then one per case
    Insts,            \* instructions, numbered in program order
    BlockOf,
    Kind,             \* "call", "switch", "icmp" (an equality), "br" or "other"
    Operands,         \* per instruction that is no call: the values it uses
    StoredTo,         \* of a store: its pointer operand, else {}
    Params,           \* of a defined function: its arguments
    CaseValues,       \* of a switch: the commands of its cases
    Compared,         \* of an icmp: the constant, or NoConstant
    Arguments,        \* of a call: the values it passes, by position
    DirectTargets,    \* of a call: the function it names, or {}
    IndirectTargets,  \* of an indirect call: what T_module has resolved it to
    FunctionPointers, \* fps: those collected for the ioctl entry
    Handler,
    CmdArguments, TypeArguments, \* positions of cmd and arg in the handler, from 1
    BlockOrders,      \* heap orders of blocks to consider
    MAX_FUNC_DEPTH,
    MAX_CALLEE_COUNT,
    DefaultMaxBBsToExplore, \* of LLVM: blocks isPotentiallyReachable() looks at
    Null, Garbage, NoConstant

Kinds == {"call", "switch", "icmp", "br", "other"}

\* An instruction stands for its result.
Values == Insts \cup (UNION {Range(Params[f]) : f \in Functions \ Declared})
                \cup (UNION {StoredTo[i] : i \in Insts})

ASSUME CodeAssumption ==
    /\ Declared \subseteq Functions
    /\ CopyIn \cup CopyOut \cup MemdupUser \subseteq Functions
    /\ FunctionOf \in [Blocks -> Functions \ Declared]
    /\ EntryBlock \in [Functions \ Declared -> Blocks]
    /\ \A f \in Functions \ Declared : FunctionOf[EntryBlock[f]] = f
    /\ Succs \in [Blocks -> Seq(Blocks)]
    /\ \A b \in Blocks : \A n \in DOMAIN Succs[b] :
          FunctionOf[Succs[b][n]] = FunctionOf[b] /\ Succs[b][n] # EntryBlock[FunctionOf[b]]
    /\ IsFiniteSet(Blocks)
    /\ IsFiniteSet(Insts)
    /\ Insts = 1 .. Cardinality(Insts)
    /\ BlockOf \in [Insts -> Blocks]
    /\ Kind \in [Insts -> Kinds]
    /\ CaseValues \in [Insts -> Seq(Nat)]
    /\ Compared \in [Insts -> Nat \cup {NoConstant}]
    /\ \A i \in Insts : Kind[i] = "switch" => Len(Succs[BlockOf[i]]) = Len(CaseValues[i]) + 1
    /\ \A i \in Insts : Kind[i] = "br" => Succs[BlockOf[i]] # <<>>
    /\ \A i, j \in Insts :
          Kind[i] \in {"br", "switch"} /\ BlockOf[j] = BlockOf[i] => j <= i
    /\ DirectTargets \in [Insts -> SUBSET Functions]
    /\ IndirectTargets \in [Insts -> SUBSET Functions]
    /\ Handler \in Functions \ Declared
    /\ BlockOrders \subseteq [Blocks -> Nat]
    /\ MAX_FUNC_DEPTH \in Nat /\ MAX_CALLEE_COUNT \in Nat
    /\ DefaultMaxBBsToExplore \in Nat \ {0}
    /\ {Null, Garbage, NoConstant} \cap (Nat \cup Insts) = {}
    /\ Null # Garbage /\ Null # NoConstant /\ Garbage # NoConstant

VARIABLES
    block_order,
    stack,       \* the objects, each created by the one below
    cmd,         \* dd->cmd: per command its block and the copies
    no_cmd       \* the copies of dd->no_cmd

vars == <<block_order, stack, cmd, no_cmd>>

-----------------------------------------------------------------------------
BlocksOf(f) == {b \in Blocks : FunctionOf[b] = f}

InstsOf(f) == {i \in Insts : FunctionOf[BlockOf[i]] = f}

Least(S) == CHOOSE x \in S : \A y \in S : x <= y

\* The blocks that are reached from b without entering one of avoid.
ReachedFrom(b, avoid) ==
    LET within[n \in 0 .. Cardinality(Blocks)] ==
            IF n = 0 THEN {b} \ avoid
            ELSE within[n - 1] \cup
                 UNION {{Succs[x][k] : k \in DOMAIN Succs[x]} \ avoid : x \in within[n - 1]}
    IN within[Cardinality(Blocks)]

\* isPotentiallyReachable(b, x) for any x, where b is no entry: a search from b that
\* gives up at a number of blocks and then answers true, but for the entry.
Reachable ==
    [b \in Blocks |->
        IF Cardinality(ReachedFrom(b, {})) < DefaultMaxBBsToExplore THEN ReachedFrom(b, {})
        ELSE BlocksOf(FunctionOf[b]) \ {EntryBlock[FunctionOf[b]]}]

\* get_dom_bb() and the block itself.
DominatedBy ==
    [b \in Blocks |-> LET entry == EntryBlock[FunctionOf[b]]
                      IN ReachedFrom(entry, {}) \ ReachedFrom(entry, {b})]

\* predecessors(): one for each of the edges from a block.
HasOnePredecessor(b) ==
    Cardinality({e \in UNION {{x} \X DOMAIN Succs[x] : x \in Blocks} :
                    Succs[e[1]][e[2]] = b}) = 1

\* update_cmd_and_type(): the values that depend on the arguments in seed, by one
\* pass over the instructions of f in program order.  An affected instruction
\* affects its result and, when it is a store, what it stores to.
Affected(f, seed) ==
    LET affects(i) == {i} \cup StoredTo[i]
        hit[i \in Insts] ==
            /\ i \in InstsOf(f) /\ Kind[i] # "call"
            /\ \E v \in Operands[i] :
                  v \in seed \/ \E j \in 1 .. i - 1 : v \in affects(j) /\ hit[j]
    IN seed \cup UNION {affects(i) : i \in {j \in Insts : hit[j]}}

\* What an object is created with: its function, call_stack, and the values that
\* depend on the command and on the argument.
Context(f, calls, cmds, types) ==
    [fn |-> f, calls |-> calls,
     cmd_inst |-> Affected(f, {Params[f][n] : n \in DOMAIN Params[f] \cap cmds}),
     type_inst |-> Affected(f, {Params[f][n] : n \in DOMAIN Params[f] \cap types})]

Root == Context(Handler, <<>>, CmdArguments, TypeArguments)

\* get_arg_propagation().
Passes(i, values) == {n \in DOMAIN Arguments[i] : Arguments[i][n] \in values}

Callee(c, i, f) ==
    Context(f, Append(c.calls, i), Passes(i, c.cmd_inst), Passes(i, c.type_inst))

\* get_callee(): indirect targets are filtered only if there are pointers at all.
Targets(i) ==
    DirectTargets[i] \cup
    IF FunctionPointers = {} THEN IndirectTargets[i]
    ELSE IndirectTargets[i] \cap FunctionPointers

\* The call is not the one an object below was created for.
NotRecursive(c, i) == \A k \in DOMAIN c.calls : c.calls[k] # i

\* The tests of check_callee() but for the count.
Follows(c, i) ==
    /\ Len(c.calls) <= MAX_FUNC_DEPTH
    /\ NotRecursive(c, i)
    /\ Passes(i, c.cmd_inst) # {} \/ Passes(i, c.type_inst) # {}

\* The blocks run_type() starts with.
TypeBlocks(f, b) == IF b = EntryBlock[f] THEN BlocksOf(f) ELSE Reachable[b]

Frame == [context : [fn : Functions, calls : Seq(Insts),
                     cmd_inst : SUBSET Values, type_inst : SUBSET Values],
          all_bb : SUBSET Blocks, insts : SUBSET Insts, cases : Seq(Nat \X Blocks),
          typing : BOOLEAN, type_bb : SUBSET Blocks, type_insts : SUBSET Insts,
          ci : Insts \cup {Null}, targets : SUBSET Functions, count_callee : Nat,
          curr_cmd : Nat \cup {Null, NoConstant}, current_cmd : Nat \cup {Null, Garbage}]

\* A new object that is about to run run_cmd() or, when typing, run_type(entry).
Object(c, typing, current) ==
    [context |-> c,
     all_bb |-> IF typing THEN {} ELSE BlocksOf(c.fn), insts |-> {}, cases |-> <<>>,
     typing |-> typing,
     type_bb |-> IF typing THEN TypeBlocks(c.fn, EntryBlock[c.fn]) ELSE {},
     type_insts |-> {}, ci |-> Null, targets |-> {}, count_callee |-> 0,
     curr_cmd |-> Null, current_cmd |-> current]

Top == stack[Len(stack)]

This(object) == [stack EXCEPT ![Len(stack)] = object]

\* Fault: the block that is taken is not erased.
NotErased(S, b) == S

Erased(S, b) == S \ {b}

First(S) == CHOOSE b \in S : \A x \in S : block_order[b] <= block_order[x]

InstsIn(b) == {i \in Insts : BlockOf[i] = b /\ Kind[i] # "other"}

CallsIn(b) == {i \in InstsIn(b) : Kind[i] = "call"}

\* Is the object on top in run_cmd() resp. run_type(), with no callee left to see?
InCmd == stack # <<>> /\ ~ Top.typing /\ Top.targets = {}
InType == stack # <<>> /\ Top.typing /\ Top.targets = {}

\* At instruction i of run_cmd().
At(i, kind) == InCmd /\ Top.cases = <<>> /\ Top.insts # {} /\ i = Least(Top.insts) /\ Kind[i] = kind

\* Fault: a test of anything that is not a constant.
AnyOperand(i) == Operands[i] # {}

IsCmdAffected(i) == Operands[i] \cap Top.context.cmd_inst # {}

\* Fault: it is not looked at whether the command is a constant.
IsSet(v) == v # Null

IsConstant(v) == v \notin {Null, NoConstant}

\* Fault: a new object does not know the command.
UnknownCmd(object) == Garbage

InheritedCmd(object) == object.current_cmd

\* The record of a command: its first block, and the copies so far.
CmdInfo(v, b) == IF v \in DOMAIN cmd THEN cmd[v] ELSE [b |-> b, in_types |-> {}, out_types |-> {}]

\* Fault: a block that other blocks lead to is left out as well.
LeftOutAnyway(b) == DominatedBy[b]

\* Blocks run_cmd() does not look at any more, after the command of block b.
LeftOut(b) == IF HasOnePredecessor(b) THEN DominatedBy[b] ELSE {}

-----------------------------------------------------------------------------
\* collect_cmd_and_type(): an object on the C++ stack, whose current_cmd is not set.
Init ==
    /\ block_order \in BlockOrders
    /\ \E m \in {Null, Garbage} : stack = <<Object(Root, FALSE, m)>>
    /\ cmd = [v \in {} |-> CmdInfo(v, Null)]
    /\ no_cmd = [in_types |-> {}, out_types |-> {}]

TakeBlock ==
    /\ InCmd /\ Top.cases = <<>> /\ Top.insts = {} /\ Top.all_bb # {}
    /\ LET b == First(Top.all_bb) IN
       stack' = This([Top EXCEPT !.all_bb = Erased(@, b), !.insts = InstsIn(b)])
    /\ UNCHANGED <<block_order, cmd, no_cmd>>

\* check_call_cmd().
CheckCallCmd(i) ==
    /\ At(i, "call")
    /\ stack' = This([Top EXCEPT !.insts = @ \ {i}, !.ci = i, !.targets = Targets(i) \ Declared])
    /\ UNCHANGED <<block_order, cmd, no_cmd>>

Switch(i) ==
    LET k == CaseValues[i] IN
    /\ At(i, "switch")
    /\ stack' = This([Top EXCEPT !.insts = @ \ {i},
                        !.cases = IF IsCmdAffected(i)
                                  THEN [n \in DOMAIN k |-> <<k[n], Succs[BlockOf[i]][n + 1]>>]
                                  ELSE <<>>])
    /\ UNCHANGED <<block_order, cmd, no_cmd>>

ICmp(i) ==
    /\ At(i, "icmp")
    /\ stack' = This([Top EXCEPT !.insts = @ \ {i},
                        !.curr_cmd = IF IsCmdAffected(i) THEN Compared[i] ELSE @])
    /\ UNCHANGED <<block_order, cmd, no_cmd>>

\* Any branch, conditional or not, is taken for that on the comparison seen last.
Br(i) ==
    LET v == Top.curr_cmd IN
    /\ At(i, "br")
    /\ stack' = This([Top EXCEPT !.insts = @ \ {i}, !.curr_cmd = Null,
                        !.cases = IF IsConstant(v) THEN << <<v, Succs[BlockOf[i]][1]>> >> ELSE <<>>])
    /\ UNCHANGED <<block_order, cmd, no_cmd>>

\* A command is found at a block, where run_type() starts.
BeginCmd ==
    LET v == Head(Top.cases)[1]
        b == Head(Top.cases)[2]
    IN
    /\ InCmd /\ Top.cases # <<>>
    /\ cmd' = [w \in DOMAIN cmd \cup {v} |-> IF w = v THEN CmdInfo(v, b) ELSE cmd[w]]
    /\ stack' = This([Top EXCEPT !.current_cmd = v, !.typing = TRUE,
                        !.type_bb = TypeBlocks(Top.context.fn, b)])
    /\ UNCHANGED <<block_order, no_cmd>>

TakeTypeBlock ==
    /\ InType /\ Top.type_insts = {} /\ Top.type_bb # {}
    /\ LET b == First(Top.type_bb) IN
       stack' = This([Top EXCEPT !.type_bb = Erased(@, b), !.type_insts = CallsIn(b)])
    /\ UNCHANGED <<block_order, cmd, no_cmd>>

\* check_call_type() looks up the targets of a call.
CheckCallType ==
    /\ InType /\ Top.type_insts # {}
    /\ LET i == Least(Top.type_insts) IN
       stack' = This([Top EXCEPT !.type_insts = @ \ {i}, !.ci = i, !.targets = Targets(i)])
    /\ UNCHANGED <<block_order, cmd, no_cmd>>

IsCopy(f) == f \in CopyIn \cup CopyOut \cup MemdupUser

\* The record of a copy: copy_from_user is tested for before copy_to_user.
With(info, f, i) ==
    IF f \in CopyIn THEN [info EXCEPT !.in_types = @ \cup {i}]
    ELSE IF f \in CopyOut THEN [info EXCEPT !.out_types = @ \cup {i}]
    ELSE info

\* A copy goes to the current command; Garbage stands for an address of anything.
RecordCopy(f) ==
    LET v == Top.current_cmd IN
    /\ stack # <<>> /\ Top.typing /\ f \in Top.targets /\ IsCopy(f)
    /\ cmd' = IF v \in DOMAIN cmd THEN [cmd EXCEPT ![v] = With(cmd[v], f, Top.ci)] ELSE cmd
    /\ no_cmd' = IF v = Null THEN With(no_cmd, f, Top.ci) ELSE no_cmd
    /\ stack' = This([Top EXCEPT !.targets = @ \ {f}])
    /\ UNCHANGED block_order

\* check_callee(): a new object, or an early return.
CheckCallee(f) ==
    LET i == Top.ci
        goes_on == Top.count_callee <= MAX_CALLEE_COUNT
        this == This([Top EXCEPT !.targets = @ \ {f},
                        !.count_callee = IF goes_on /\ f \notin Declared THEN @ + 1 ELSE @])
    IN
    /\ stack # <<>> /\ f \in Top.targets /\ ~ (Top.typing /\ IsCopy(f))
    /\ stack' = IF goes_on /\ f \notin Declared /\ Follows(Top.context, i)
                THEN Append(this, Object(Callee(Top.context, i, f), Top.typing, InheritedCmd(Top)))
                ELSE this
    /\ UNCHANGED <<block_order, cmd, no_cmd>>

RanType == InType /\ Top.type_insts = {} /\ Top.type_bb = {}

\* run_type() is done for a command: back to run_cmd().
EndCmd ==
    /\ RanType /\ Top.cases # <<>>
    /\ stack' = This([Top EXCEPT !.typing = FALSE, !.cases = Tail(@),
                        !.all_bb = @ \ LeftOut(Head(Top.cases)[2])])
    /\ UNCHANGED <<block_order, cmd, no_cmd>>

\* The object has run and is left to the caller's object.
Return ==
    /\ \/ RanType /\ Top.cases = <<>>
       \/ InCmd /\ Top.cases = <<>> /\ Top.insts = {} /\ Top.all_bb = {}
    /\ stack' = SubSeq(stack, 1, Len(stack) - 1)
    /\ UNCHANGED <<block_order, cmd, no_cmd>>

Next ==
    \/ TakeBlock
    \/ \E i \in Insts : CheckCallCmd(i) \/ Switch(i) \/ ICmp(i) \/ Br(i)
    \/ BeginCmd
    \/ TakeTypeBlock
    \/ CheckCallType
    \/ \E f \in Functions : RecordCopy(f) \/ CheckCallee(f)
    \/ EndCmd
    \/ Return

\* One thread that runs to its end.
Spec == Init /\ [][Next]_vars /\ WF_vars(Next)

-----------------------------------------------------------------------------
(***************************************************************************)
(* What the walk should find, from the code of the handler alone.          *)
(***************************************************************************)
CalleesAt(c, b, ignored) ==
    UNION {{Callee(c, i, f) : f \in Targets(i) \ ignored} : i \in {j \in CallsIn(b) : Follows(c, j)}}

\* The contexts that calls in the blocks from(c) of each context c lead to, n deep.
ContextsWithin(from(_)) ==
    LET within[n \in 0 .. MAX_FUNC_DEPTH + 1] ==
            IF n = 0 THEN {Root}
            ELSE within[n - 1] \cup UNION {UNION {CalleesAt(c, b, Declared) : b \in from(c)} :
                                             c \in within[n - 1]}
    IN within

Contexts(from(_)) == ContextsWithin(from)[MAX_FUNC_DEPTH + 1]

Tests(c, kind) == {i \in InstsOf(c.fn) : Kind[i] = kind /\ Operands[i] \cap c.cmd_inst # {}}

Comparisons(c) == {i \in Tests(c, "icmp") : Compared[i] # NoConstant}

Branches(c) == {i \in InstsOf(c.fn) : Kind[i] = "br"}

\* The command v leads from instruction i to the n-th block after it.
Occurrence(c, v, i, n) == [c |-> c, v |-> v, at |-> BlockOf[i], b |-> Succs[BlockOf[i]][n]]

SwitchOccurrences(c) ==
    UNION {{Occurrence(c, CaseValues[i][n], i, n + 1) : n \in DOMAIN CaseValues[i]} :
              i \in Tests(c, "switch")}

\* The branch belongs to the comparison: the last one of its block.
BranchOccurrences(c) ==
    {Occurrence(c, Compared[p[1]], p[2], 1) :
        p \in {q \in Comparisons(c) \X Branches(c) :
                 /\ BlockOf[q[1]] = BlockOf[q[2]]
                 /\ \A i \in Tests(c, "icmp") : BlockOf[i] = BlockOf[q[1]] => i <= q[1]}}

\* Any branch may come next after a comparison in the order of the blocks.
LooseOccurrences(c) == {Occurrence(c, Compared[i], j, 1) : i \in Comparisons(c), j \in Branches(c)}

\* The blocks that are looked at whatever the order of blocks is.
KeptBlocks(c) ==
    {x \in BlocksOf(c.fn) : \A o \in SwitchOccurrences(c) \cup LooseOccurrences(c) :
                               HasOnePredecessor(o.b) => x \notin DominatedBy[o.b]}

SureOccurrences ==
    {o \in UNION {SwitchOccurrences(c) \cup BranchOccurrences(c) : c \in Contexts(KeptBlocks)} :
        o.at \in KeptBlocks(o.c)}

AllBlocks(c) == BlocksOf(c.fn)

PossibleOccurrences ==
    UNION {SwitchOccurrences(c) \cup LooseOccurrences(c) : c \in Contexts(AllBlocks)}

\* run_type() does not look into them.
Ignored == {f \in Functions : f \in Declared \/ IsCopy(f)}

\* The blocks, with their contexts, on all ways from block b of context c, n calls deep.
WaysFrom(c, b) ==
    LET within[n \in 0 .. MAX_FUNC_DEPTH + 1] ==
            IF n = 0 THEN {c} \X Reachable[b]
            ELSE within[n - 1] \cup
                 UNION {UNION {{d} \X BlocksOf(d.fn) : d \in CalleesAt(p[1], p[2], Ignored)} :
                          p \in within[n - 1]}
    IN within

\* The copies on these ways.
CopiesFrom(c, b) ==
    LET calls == UNION {CallsIn(p[2]) : p \in WaysFrom(c, b)[MAX_FUNC_DEPTH + 1]}
    IN [in_types |-> {i \in calls : Targets(i) \cap CopyIn # {}},
        out_types |-> {i \in calls : Targets(i) \cap (CopyOut \ CopyIn) # {}}]

Copies == [o \in SureOccurrences \cup PossibleOccurrences |-> CopiesFrom(o.c, o.b)]

-----------------------------------------------------------------------------
(***************************************************************************)
(* The type invariant: each object of the walk and the record of each      *)
(* command is well formed.                                                 *)
(***************************************************************************)
TypeOK ==
    /\ block_order \in BlockOrders
    /\ stack \in Seq(Frame)
    /\ no_cmd \in [in_types : SUBSET Insts, out_types : SUBSET Insts]
    /\ DOMAIN cmd \subseteq Nat
    /\ \A v \in DOMAIN cmd :
          cmd[v] \in [b : Blocks, in_types : SUBSET Insts, out_types : SUBSET Insts]

(***************************************************************************)
(* A command is only found, and led to a block, by a test of a value that  *)
(* comes from the command through the calls of the handler (the branch need*)
(* not be that of the comparison), and a copy is only given to a command   *)
(* if it can be reached from a test of it by calls that pass the command or*)
(* the argument on and, in the function of the test, by blocks (run_cmd,   *)
(* run_type).  By blocks means as far as LLVM can tell: from a block that  *)
(* leads to fewer blocks than it explores exactly, from others anywhere.   *)
(***************************************************************************)
CommandsAreSound ==
    \A v \in DOMAIN cmd :
        LET here == {o \in PossibleOccurrences : o.v = v} IN
        /\ \E o \in here : o.b = cmd[v].b
        /\ cmd[v].in_types \subseteq UNION {Copies[o].in_types : o \in here}
        /\ cmd[v].out_types \subseteq UNION {Copies[o].out_types : o \in here}

(***************************************************************************)
(* run_type() always works for a command that has been found: the          *)
(* current_cmd that collect_cmd_and_type() leaves uninitialised is         *)
(* overwritten before any object, however deep, uses it in                 *)
(* check_call_type().                                                      *)
(***************************************************************************)
CommandIsKnown ==
    \A k \in DOMAIN stack : stack[k].typing => stack[k].current_cmd \in DOMAIN cmd

Done == stack = <<>>

(***************************************************************************)
(* Whatever the order of blocks, the walk finds every command that is      *)
(* tested in a block, and reached by calls, outside the blocks that        *)
(* run_cmd() leaves out, with all copies that can be reached from each of  *)
(* its tests, although a command may be met many times, in several objects.*)
(***************************************************************************)
CommandsAreComplete ==
    Done => \A o \in SureOccurrences :
                /\ o.v \in DOMAIN cmd
                /\ Copies[o].in_types \subseteq cmd[o.v].in_types
                /\ Copies[o].out_types \subseteq cmd[o.v].out_types

(***************************************************************************)
(* The walk ends, on programs with loops and recursive functions.          *)
(***************************************************************************)
WalkEnds == <>Done
=============================================================================
