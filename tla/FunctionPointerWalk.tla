------------------------ MODULE FunctionPointerWalk ------------------------
(***************************************************************************)
(* T_module::check_function_pointer() (lib/AnalysisLib/T_module.cpp): the  *)
(* walk that collects, for one entry function, the functions whose address *)
(* is taken on the way; they decide which indirect calls are followed for  *)
(* this entry, by this walk while it runs and by the walk for results      *)
(* (EntryWalk) afterwards.                                                 *)
(*                                                                         *)
(* A function is walked in two loops over its callees, in program order:   *)
(* the first collects pointers and follows the calls, the second enters    *)
(* the functions pointed to whose names sound like callbacks.  Functions   *)
(* are entered again whenever they are met: nothing but the depth and the  *)
(* number of calls has a limit.                                            *)
(***************************************************************************)
EXTENDS Integers, Sequences, FiniteSets

CONSTANTS
    Functions,
    Insts,
    AllCallee,           \* per function: its callees, in program order
    NamesIn,             \* per function: how many of possible_name its name contains
    SkippedFunctions,    \* functions without a path, or in one of skip_path
    EntryFunctions,
    ParentPointers,      \* the sets an entry may start from: {} for an init function
    HeapOrders,          \* the orders of T_function objects to consider
    MAX_FUNC_DEPTH,
    MAX_CALLEE_COUNT

Kinds == {"function_pointer", "callee_not_isDeclaration", "callee_indirect"}

\* A callee object; a direct call has the one function it goes to in tf_set.
Callee == [i : Insts, ct : Kinds, tf_set : SUBSET Functions, checked : BOOLEAN]

ASSUME ProgramAssumption ==
    /\ AllCallee \in [Functions -> Seq(Callee)]
    /\ NamesIn \in [Functions -> Nat]
    /\ SkippedFunctions \subseteq Functions
    /\ EntryFunctions \subseteq Functions
    /\ ParentPointers \subseteq SUBSET Functions
    /\ HeapOrders \subseteq [Functions -> Nat]
    /\ \A order \in HeapOrders : \A f, g \in Functions : order[f] = order[g] => f = g
    /\ MAX_FUNC_DEPTH \in Nat
    /\ MAX_CALLEE_COUNT \in Nat

VARIABLES
    t_function,             \* the function the entry_function stands for
    inherited,              \* function_pointers of the entry of the parent driver
    heap_order,
    function_pointers,
    count_function_pointer,
    stack,                  \* activations, the last is on top
    visited                 \* history: the functions that have been entered

inputs == <<t_function, inherited, heap_order>>

walkvars == <<t_function, inherited, heap_order, function_pointers,
              count_function_pointer, stack, visited>>

-----------------------------------------------------------------------------
\* An activation: the loop it is in, the callee it is at, and the targets of that
\* callee it has yet to try, each with the number of the name it is tried for.
Frame == [fn : Functions, loop : {1, 2}, at : Nat, todo : SUBSET (Functions \X Nat)]

Top == stack[Len(stack)]

CalleeAt(frame) == AllCallee[frame.fn][frame.at]

CurrentCallee == CalleeAt(Top)

AtLastCallee == Top.at = Len(AllCallee[Top.fn])

\* The target on top to try next: sets are walked in heap order.
Turn == IF stack = <<>> THEN {} ELSE
        {p \in Top.todo : \A q \in Top.todo :
            \/ heap_order[p[1]] < heap_order[q[1]]
            \/ p[1] = q[1] /\ p[2] <= q[2]}

PointersOf(ce) == IF ce.ct = "function_pointer" THEN ce.tf_set ELSE {}

\* The targets a callee has for a loop: the second one tries a function pointer once
\* for every possible name in its name.
Targets(loop, ce) ==
    IF loop = 2
    THEN UNION {{f} \X (1 .. NamesIn[f]) : f \in PointersOf(ce)}
    ELSE IF ce.ct = "callee_indirect" \/ (ce.ct = "callee_not_isDeclaration" /\ ~ ce.checked)
    THEN ce.tf_set \X {1}
    ELSE {}

\* Fault: only the pointers of the entry function itself are kept.
OwnPointers(loop, ce) == IF loop = 1 /\ Len(stack) = 1 THEN PointersOf(ce) ELSE {}

NewPointers(loop, ce) == IF loop = 1 THEN PointersOf(ce) ELSE {}

\* Fault: indirect calls are followed to any target.
AnyTarget(f) == TRUE

\* A target of an indirect call is entered if it is among the pointers by now.
Collected(f) == f \in function_pointers

Followed(p) == CurrentCallee.ct = "callee_indirect" => Collected(p[1])

\* Fault: one function too many.
TooDeepByOne(frames) == Len(frames) > MAX_FUNC_DEPTH + 1

TooDeep(frames) == Len(frames) > MAX_FUNC_DEPTH

Exhausted == count_function_pointer > MAX_CALLEE_COUNT

Entered(f, frames) ==
    /\ ~ TooDeep(frames)
    /\ ~ Exhausted
    /\ f \notin SkippedFunctions

WithTop(frame) == [stack EXCEPT ![Len(stack)] = frame]

\* Fault: the target is not crossed off.
NotTried(p) == stack

Tried(p) == WithTop([Top EXCEPT !.todo = @ \ {p}])

Activation(f) == [fn |-> f, loop |-> 1, at |-> 0, todo |-> {}]

-----------------------------------------------------------------------------
\* Fault: the entry does not start from the pointers of the parent's entry.
NothingInherited == {}

Inherited == inherited

Init ==
    /\ t_function \in EntryFunctions
    /\ inherited \in ParentPointers
    /\ heap_order \in HeapOrders
    /\ function_pointers = {}
    /\ count_function_pointer = 0
    /\ stack = <<>>
    /\ visited = {}

\* check_function_pointer(init_f); the count is 0 only once, so that the call for an
\* entry that has been walked does nothing.
Start ==
    /\ count_function_pointer = 0
    /\ function_pointers' = Inherited
    /\ count_function_pointer' = 1
    /\ IF Entered(t_function, <<>>)
       THEN /\ stack' = <<Activation(t_function)>>
            /\ visited' = {t_function}
       ELSE UNCHANGED <<stack, visited>>
    /\ UNCHANGED inputs

\* The turn of the next callee; in the first loop a function pointer is collected.
NextCallee ==
    /\ stack # <<>>
    /\ Top.todo = {}
    /\ ~ AtLastCallee
    /\ LET ce == AllCallee[Top.fn][Top.at + 1] IN
       /\ function_pointers' = function_pointers \cup NewPointers(Top.loop, ce)
       /\ stack' = WithTop([Top EXCEPT !.at = Top.at + 1, !.todo = Targets(Top.loop, ce)])
    /\ UNCHANGED <<inputs, count_function_pointer, visited>>

\* The first loop is over: the second one starts at the first callee.
SecondLoop ==
    /\ stack # <<>>
    /\ Top.todo = {}
    /\ AtLastCallee
    /\ Top.loop = 1
    /\ stack' = WithTop([Top EXCEPT !.loop = 2, !.at = 0])
    /\ UNCHANGED <<inputs, function_pointers, count_function_pointer, visited>>

\* A target of an indirect call that nobody has taken the address of so far.
SkipTarget(p) ==
    /\ ~ Followed(p)
    /\ stack' = Tried(p)
    /\ UNCHANGED <<inputs, function_pointers, count_function_pointer, visited>>

\* The target is called and returns at once; only the first two tests do not count.
RefuseTarget(p) ==
    /\ Followed(p)
    /\ ~ Entered(p[1], stack)
    /\ stack' = Tried(p)
    /\ count_function_pointer' =
          IF TooDeep(stack) \/ Exhausted THEN count_function_pointer
          ELSE count_function_pointer + 1
    /\ UNCHANGED <<inputs, function_pointers, visited>>

EnterTarget(p) ==
    /\ Followed(p)
    /\ Entered(p[1], stack)
    /\ stack' = Append(Tried(p), Activation(p[1]))
    /\ count_function_pointer' = count_function_pointer + 1
    /\ visited' = visited \cup {p[1]}
    /\ UNCHANGED <<inputs, function_pointers>>

Return ==
    /\ stack # <<>>
    /\ Top.todo = {}
    /\ AtLastCallee
    /\ Top.loop = 2
    /\ stack' = SubSeq(stack, 1, Len(stack) - 1)
    /\ UNCHANGED <<inputs, function_pointers, count_function_pointer, visited>>

WalkNext ==
    \/ Start
    \/ NextCallee
    \/ SecondLoop
    \/ \E p \in Turn : SkipTarget(p) \/ RefuseTarget(p) \/ EnterTarget(p)
    \/ Return

\* One thread that runs to its end.
Spec == Init /\ [][WalkNext]_walkvars /\ WF_walkvars(WalkNext)

Done == count_function_pointer > 0 /\ stack = <<>>

-----------------------------------------------------------------------------
Callees(f) == {AllCallee[f][k] : k \in DOMAIN AllCallee[f]}

Of(f, kind) == {ce \in Callees(f) : ce.ct = kind}

PassedBy(f) == UNION {PointersOf(ce) : ce \in Callees(f)}

IndirectOf(f) == UNION {ce.tf_set : ce \in Of(f, "callee_indirect")}

DirectOf(f) == UNION {ce.tf_set : ce \in {c \in Of(f, "callee_not_isDeclaration") : ~ c.checked}}

NamedOf(f) == {g \in PassedBy(f) : NamesIn[g] > 0}

\* Entered for certain: called directly, or passed with the name of a callback.
CertainOf(f) == DirectOf(f) \cup NamedOf(f)

\* Indirect calls to what the parent's entry had collected, or to what the function
\* itself takes the address of in an earlier instruction.
KnownTargetsOf(f) ==
    {g \in IndirectOf(f) :
        \/ g \in inherited
        \/ \E j, k \in DOMAIN AllCallee[f] :
              /\ j < k
              /\ AllCallee[f][j].ct = "function_pointer" /\ g \in AllCallee[f][j].tf_set
              /\ AllCallee[f][k].ct = "callee_indirect" /\ g \in AllCallee[f][k].tf_set}

\* Everything within reach of the entry, n calls deep, along one step function.
Within(Step(_), start) ==
    LET reach[n \in Nat] ==
            IF n = 0 THEN start \ SkippedFunctions
            ELSE LET before == reach[n - 1] IN
                 before \cup ((UNION {Step(f) : f \in before}) \ SkippedFunctions)
    IN reach[MAX_FUNC_DEPTH]

SureFunctions == Within(LAMBDA f : CertainOf(f) \cup KnownTargetsOf(f), {t_function})

(***************************************************************************)
(* The type invariant; an activation is at one of the callees of its       *)
(* function, and the limits are kept that the source states.               *)
(***************************************************************************)
FrameOK(frame) ==
    /\ frame.at <= Len(AllCallee[frame.fn])
    /\ frame.fn \in visited
    /\ frame.todo # {} => frame.at > 0 /\ frame.todo \subseteq Targets(frame.loop, CalleeAt(frame))

WalkTypeOK ==
    /\ t_function \in EntryFunctions
    /\ inherited \in ParentPointers
    /\ heap_order \in HeapOrders
    /\ function_pointers \subseteq Functions
    /\ count_function_pointer \in Nat
    /\ stack \in Seq(Frame)
    /\ visited \subseteq Functions
    /\ \A k \in DOMAIN stack : FrameOK(stack[k])
    /\ Len(stack) <= MAX_FUNC_DEPTH + 1
    /\ count_function_pointer <= MAX_CALLEE_COUNT + 1
    /\ count_function_pointer = 0 => stack = <<>> /\ visited = {}

(***************************************************************************)
(* The walk implements the order-free closure: it enters nothing and       *)
(* collects nothing that does not follow from the calls of the program.    *)
(***************************************************************************)
PC == INSTANCE PointerClosure WITH
          Calls <- [f \in Functions |-> CertainOf(f)],
          Indirect <- [f \in Functions |-> IndirectOf(f)],
          Passed <- [f \in Functions |-> PassedBy(f)],
          root <- t_function,
          visited <- visited,
          pointers <- IF count_function_pointer = 0 THEN inherited ELSE function_pointers

ImplementsPointerClosure == PC!Spec

(***************************************************************************)
(* What does not depend on the order is not missed: a walk that ends       *)
(* within its number of calls has entered every function that certain calls*)
(* lead to, and indirect calls whose target was known before; it has the   *)
(* pointers each of them passes, and those of the parent.                  *)
(***************************************************************************)
SurePointersCollected ==
    Done /\ ~ Exhausted =>
        /\ SureFunctions \subseteq visited
        /\ inherited \cup UNION {PassedBy(f) : f \in SureFunctions} \subseteq function_pointers
=============================================================================
