----------------------------- MODULE EntryWalk -----------------------------
(***************************************************************************)
(* entry_function::update_checker_results() (lib/AnalysisLib/              *)
(* entry_function.cpp): the top-down walk from one entry function along    *)
(* the call sites the bottom-up pass has recorded (CallerPropagation).     *)
(* Every checker result met is copied together with the call chain that    *)
(* leads to it, once per chain.  A chain does not enter two functions of   *)
(* the same real name (f and f.isra.0 are one), follows an indirect call   *)
(* only to a function whose pointer was collected for this entry, and a    *)
(* mere function pointer only to a function whose name sounds like a       *)
(* callback; its length and the number of calls have a limit.              *)
(***************************************************************************)
EXTENDS Integers, Sequences, FiniteSets

CONSTANTS
    Functions,
    Insts,
    Owner,               \* the function an instruction belongs to
    DirectTargets,       \* per instruction: the callee of a direct call, or {}
    IndirectTargets,     \* per instruction: tf_set of an indirect call, or {}
    PointerTargets,      \* per instruction: the functions its operands point to
    RealNames,
    RealName,            \* the name up to its first dot
    PossibleName,        \* functions whose name contains one of possible_name
    SkippedFunctions,    \* functions without a path, or in one of skip_path
    CheckerResults,      \* those that add_checker_result() has made
    InstOf,              \* the instruction of one; several checkers may match it
    Results,             \* checker_results of a function
    EntryFunctions,
    MapOrders,           \* the heap orders of the instructions to consider
    MAX_FUNC_DEPTH,
    MAX_CALLEE_COUNT

ASSUME WalkAssumption ==
    /\ Owner \in [Insts -> Functions]
    /\ DirectTargets \in [Insts -> SUBSET Functions]
    /\ IndirectTargets \in [Insts -> SUBSET Functions]
    /\ PointerTargets \in [Insts -> SUBSET Functions]
    /\ RealName \in [Functions -> RealNames]
    /\ PossibleName \subseteq Functions
    /\ SkippedFunctions \subseteq Functions
    /\ InstOf \in [CheckerResults -> Insts]
    /\ Results \in [Functions -> Seq(CheckerResults)]
    /\ \A f \in Functions : \A j, k \in DOMAIN Results[f] : Results[f][j] = Results[f][k] => j = k
    /\ \A f \in Functions : \A k \in DOMAIN Results[f] : Owner[InstOf[Results[f][k]]] = f
    /\ EntryFunctions \subseteq Functions
    /\ MapOrders \subseteq [Insts -> Nat]
    /\ MAX_FUNC_DEPTH \in Nat
    /\ MAX_CALLEE_COUNT \in Nat

VARIABLES
    t_function,                   \* the function the entry_function stands for
    function_pointers,            \* collected for it by check_function_pointer()
    all_callee_checker_results,   \* <<instruction, callee>> pairs of all functions
    map_order,                    \* key order of all_callee_checker_results
    current_call_chain,
    in_function_pointer,
    count_update_checker,
    all_checker_results,
    stack                         \* activations, the last is on top

inputs == <<t_function, function_pointers, all_callee_checker_results, map_order>>

vars == <<t_function, function_pointers, all_callee_checker_results, map_order,
          current_call_chain, in_function_pointer, count_update_checker,
          all_checker_results, stack>>

-----------------------------------------------------------------------------
Sites == {p \in Insts \X Functions :
             p[2] \in DirectTargets[p[1]] \cup IndirectTargets[p[1]] \cup PointerTargets[p[1]]}

\* A copy of a checker result of some function.
CheckerResult ==
    [result : CheckerResults, call_chain : Seq(Insts), has_function_pointer : BOOLEAN]

\* old_in_function_pointer is what the caller restores after this activation.
Frame == [fn : Functions, old_in_function_pointer : BOOLEAN, callees : SUBSET Sites]

Top == stack[Len(stack)]

\* The callees the activation on top may try next: those of the first call site.
Turn == IF stack = <<>> THEN {} ELSE
        {p \in Top.callees : \A q \in Top.callees : map_order[p[1]] <= map_order[q[1]]}

\* all_callee_map holds for the instruction no call that may go to the callee.
IsPointer(p) == p[2] \notin DirectTargets[p[1]] \cup IndirectTargets[p[1]]

\* Fault: an indirect call is followed to any of its targets.
FollowedAnywhere(p) == IsPointer(p) => p[2] \in PossibleName

Followed(p) ==
    /\ IsPointer(p) => p[2] \in PossibleName
    /\ p[2] \in IndirectTargets[p[1]] \ DirectTargets[p[1]] => p[2] \in function_pointers

\* The tests at the head of update_checker_results(t_f), chain being the call chain.
TooDeep(chain) == Len(chain) > MAX_FUNC_DEPTH

Exhausted == count_update_checker > MAX_CALLEE_COUNT

\* Fault: a function that gave results before is not entered again.
OnAnyChain(f, chain) ==
    \/ \E k \in DOMAIN chain : RealName[Owner[chain[k]]] = RealName[f]
    \/ \E k \in DOMAIN all_checker_results : Owner[InstOf[all_checker_results[k].result]] = f

OnChain(f, chain) == \E k \in DOMAIN chain : RealName[Owner[chain[k]]] = RealName[f]

Entered(f, chain) ==
    /\ ~ TooDeep(chain)
    /\ ~ Exhausted
    /\ f \notin SkippedFunctions
    /\ ~ OnChain(f, chain)

\* The copies of f's own results.
Copies(f, chain, flag) ==
    [k \in DOMAIN Results[f] |->
        [result |-> Results[f][k], call_chain |-> Append(chain, InstOf[Results[f][k]]),
         has_function_pointer |-> flag]]

Activation(f, old) ==
    [fn |-> f, old_in_function_pointer |-> old,
     callees |-> {p \in all_callee_checker_results : Owner[p[1]] = f}]

\* Fault: the callee stays among those to try.
NotTried(p) == stack

\* The stack after the activation on top is done with one callee.
Tried(p) == [stack EXCEPT ![Len(stack)].callees = @ \ {p}]

\* Fault: the call site stays on the call chain.
NotPopped(chain) == chain

\* The call chain of the caller; that of the entry function stays empty.
Popped(chain) == IF chain = <<>> THEN <<>> ELSE SubSeq(chain, 1, Len(chain) - 1)

\* Fault: the flag of the caller is not restored.
FlagOfCallee == in_function_pointer

FlagOfCaller == Top.old_in_function_pointer

-----------------------------------------------------------------------------
Init ==
    /\ t_function \in EntryFunctions
    /\ function_pointers \in SUBSET UNION {IndirectTargets[i] : i \in Insts}
    /\ all_callee_checker_results \in SUBSET Sites
    /\ map_order \in MapOrders
    /\ current_call_chain = <<>>
    /\ in_function_pointer = FALSE
    /\ count_update_checker = 0
    /\ all_checker_results = <<>>
    /\ stack = <<>>

\* update_checker_results() calls update_checker_results(t_function).
Start ==
    /\ count_update_checker = 0
    /\ count_update_checker' = 1
    /\ IF Entered(t_function, <<>>)
       THEN /\ stack' = <<Activation(t_function, FALSE)>>
            /\ all_checker_results' = Copies(t_function, <<>>, FALSE)
       ELSE UNCHANGED <<stack, all_checker_results>>
    /\ UNCHANGED <<inputs, current_call_chain, in_function_pointer>>

\* An edge that is not for this entry: continue with the next callee.
SkipCallee(p) ==
    /\ ~ Followed(p)
    /\ stack' = Tried(p)
    /\ UNCHANGED <<inputs, current_call_chain, in_function_pointer,
                   count_update_checker, all_checker_results>>

\* The callee is called and returns at once; only the first two tests do not count.
RefuseCallee(p) ==
    LET chain == Append(current_call_chain, p[1]) IN
    /\ Followed(p)
    /\ ~ Entered(p[2], chain)
    /\ stack' = Tried(p)
    /\ count_update_checker' =
          IF TooDeep(chain) \/ Exhausted THEN count_update_checker ELSE count_update_checker + 1
    /\ UNCHANGED <<inputs, current_call_chain, in_function_pointer, all_checker_results>>

\* The callee is entered: its results are copied, its callees come next.
EnterCallee(p) ==
    LET chain == Append(current_call_chain, p[1])
        flag == in_function_pointer \/ IsPointer(p)
    IN
    /\ Followed(p)
    /\ Entered(p[2], chain)
    /\ count_update_checker' = count_update_checker + 1
    /\ current_call_chain' = chain
    /\ in_function_pointer' = flag
    /\ all_checker_results' = all_checker_results \o Copies(p[2], chain, flag)
    /\ stack' = Append(Tried(p), Activation(p[2], in_function_pointer))
    /\ UNCHANGED inputs

\* All callees are tried: back to the caller, which pops its call site and restores
\* the flag.
Return ==
    /\ stack # <<>>
    /\ Top.callees = {}
    /\ stack' = SubSeq(stack, 1, Len(stack) - 1)
    /\ current_call_chain' = Popped(current_call_chain)
    /\ in_function_pointer' = FlagOfCaller
    /\ UNCHANGED <<inputs, count_update_checker, all_checker_results>>

Next ==
    \/ Start
    \/ \E p \in Turn : SkipCallee(p) \/ RefuseCallee(p) \/ EnterCallee(p)
    \/ Return

\* One thread that runs to its end.
Spec == Init /\ [][Next]_vars /\ WF_vars(Next)

Done == count_update_checker > 0 /\ stack = <<>>

-----------------------------------------------------------------------------
(***************************************************************************)
(* What the walk is for, said without its recursion: a result is collected *)
(* once for every path of followed call sites from the entry function that *)
(* has no real name twice, enters no skipped function and is short enough. *)
(***************************************************************************)
At(path, k) == IF k = 0 THEN t_function ELSE path[k][2]

End(path) == At(path, Len(path))

NamesOf(path) == {RealName[At(path, k)] : k \in 0 .. Len(path)}

IsPath(path) ==
    /\ t_function \notin SkippedFunctions
    /\ \A k \in 1 .. Len(path) :
          /\ Owner[path[k][1]] = At(path, k - 1)
          /\ Followed(path[k])
          /\ path[k][2] \notin SkippedFunctions
          /\ \A j \in 0 .. k - 1 : RealName[At(path, j)] # RealName[path[k][2]]

Paths ==
    {path \in UNION {[1 .. n -> all_callee_checker_results] : n \in 0 .. MAX_FUNC_DEPTH} :
        IsPath(path)}

ResultsAt(path) ==
    {[result |-> Results[End(path)][k],
      call_chain |-> Append([j \in DOMAIN path |-> path[j][1]], InstOf[Results[End(path)][k]]),
      has_function_pointer |-> \E j \in DOMAIN path : IsPointer(path[j])]
        : k \in DOMAIN Results[End(path)]}

Expected == UNION {ResultsAt(path) : path \in Paths}

Collected == {all_checker_results[k] : k \in DOMAIN all_checker_results}

(***************************************************************************)
(* The type invariant; the call chain is as long as the recursion is deep. *)
(***************************************************************************)
TypeOK ==
    /\ t_function \in EntryFunctions
    /\ function_pointers \subseteq Functions
    /\ all_callee_checker_results \subseteq Sites
    /\ map_order \in MapOrders
    /\ current_call_chain \in Seq(Insts)
    /\ in_function_pointer \in BOOLEAN
    /\ count_update_checker \in Nat
    /\ all_checker_results \in Seq(CheckerResult)
    /\ stack \in Seq(Frame)
    /\ Len(current_call_chain) = IF stack = <<>> THEN 0 ELSE Len(stack) - 1

(***************************************************************************)
(* Nothing spurious: whatever the order of the call sites, and also when   *)
(* the number of calls runs out, a collected result has the call chain of a*)
(* path, and says of it truly whether it goes through a function pointer.  *)
(***************************************************************************)
NothingSpurious == Collected \subseteq Expected

(***************************************************************************)
(* Nothing missed: a walk that ends within its number of calls has the     *)
(* result of every path, so that the order of the call sites, which is the *)
(* order of heap addresses, has no part in the outcome.                    *)
(***************************************************************************)
NothingMissed == Done /\ ~ Exhausted => Expected \subseteq Collected

(***************************************************************************)
(* A result, though not the only one of its instruction, is collected once *)
(* per path: a driver is not made twice.                                   *)
(***************************************************************************)
CollectedOnce ==
    \A j, k \in DOMAIN all_checker_results :
        all_checker_results[j] = all_checker_results[k] => j = k

(***************************************************************************)
(* The walk ends, whatever cycles the call sites form.                     *)
(***************************************************************************)
WalkEnds == <>Done
=============================================================================
