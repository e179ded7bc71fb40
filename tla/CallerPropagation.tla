------------------------- MODULE CallerPropagation -------------------------
(***************************************************************************)
(* The bottom-up pass of T_module (lib/AnalysisLib/T_module.cpp):          *)
(* analysis_functions() lets every function look for API calls and stores  *)
(* that the knowledge describes (T_function::check(k)), and then calls     *)
(* check_caller() on every function, which walks from the functions that   *)
(* found something up to their callers and writes, in each caller, the     *)
(* call site through which the finding can be reached again.  The top-down *)
(* walk of every entry function (module EntryWalk) follows only these call *)
(* sites, so a missing one loses drivers and a spurious one costs time.    *)
(*                                                                         *)
(* The pass is a recursive function over sets of pointers.  The recursion  *)
(* is the variable stack; the iteration order of std::set<T_function *>,   *)
(* which is the order of heap addresses, is a free choice; the order of    *)
(* std::map<Instruction *, callee *> is the variable map_order, because    *)
(* the same map is searched again and again and answers alike every time.  *)
(***************************************************************************)
EXTENDS Integers, Sequences, FiniteSets

CONSTANTS
    Functions,        \* the T_functions of the module
    Insts,            \* instructions, numbered in program order
    Owner,            \* the function an instruction belongs to
    DirectTargets,    \* per instruction: the callee of a direct call, or {}
    IndirectTargets,  \* per instruction: tf_set of an indirect call, or {}
    PointerTargets,   \* per instruction: the functions its operands point to
    InitFunctions,    \* functions whose caller_indirect was cleared
    MapOrders,        \* the heap orders of the instructions to consider
    MaxResults,       \* bound: checker results one function can hold
    MaxRounds         \* bound: calls of analysis_functions()

ASSUME ProgramAssumption ==
    /\ Functions # {}
    /\ Insts \subseteq Nat
    /\ Owner \in [Insts -> Functions]
    /\ DirectTargets \in [Insts -> SUBSET Functions]
    /\ IndirectTargets \in [Insts -> SUBSET Functions]
    /\ PointerTargets \in [Insts -> SUBSET Functions]
    /\ InitFunctions \subseteq Functions

ASSUME BoundAssumption ==
    /\ MapOrders \subseteq [Insts -> Nat]
    /\ \A order \in MapOrders, i, j \in Insts : order[i] = order[j] => i = j
    /\ MaxResults \in Nat
    /\ MaxRounds \in Nat

VARIABLES
    map_order,                   \* key order of every all_callee_map
    checker_results,             \* size of each function's checker_results
    checked,                     \* direct call sites with callee::checked set
    num_checkers_check_caller,   \* per function
    all_callee_checker_results,  \* <<instruction, callee>> pairs
    todo,                        \* functions analysis_functions() has yet to visit
    stack,                       \* activations of check_caller, the last is on top
    round                        \* calls of analysis_functions() so far

vars == <<map_order, checker_results, checked, num_checkers_check_caller,
          all_callee_checker_results, todo, stack, round>>

(***************************************************************************)
(* A function has up to three sets of callers, visited in this order.      *)
(***************************************************************************)
Kinds == {"direct", "indirect", "pointer"}
Rank == [direct |-> 1, indirect |-> 2, pointer |-> 3]

Targets(kind) ==
    CASE kind = "direct"   -> DirectTargets
      [] kind = "indirect" -> IndirectTargets
      [] kind = "pointer"  -> PointerTargets

\* The call sites of g in c.
Sites ==
    [kind \in Kinds |-> [c \in Functions |-> [g \in Functions |->
        {i \in Insts : Owner[i] = c /\ g \in Targets(kind)[i]}]]]

\* caller_not_isDeclaration, caller_indirect and caller_pointer: the inverse of
\* the callee records, except that remove_init_from_indirect() has emptied the
\* caller_indirect of every module init function.
Callers ==
    [kind \in Kinds |-> [g \in Functions |->
        IF kind = "indirect" /\ g \in InitFunctions
        THEN {}
        ELSE {c \in Functions : Sites[kind][c][g] # {}}]]

\* The site a search for g among the callees of c finds first: in map order,
\* for function pointers in program order (they are in no map).
IsFirstSite(kind, c, g, i) ==
    /\ i \in Sites[kind][c][g]
    /\ \A j \in Sites[kind][c][g] :
          IF kind = "pointer" THEN i <= j ELSE map_order[i] <= map_order[j]

-----------------------------------------------------------------------------
Frame == [fn : Functions, ret : Nat, callers : SUBSET (Kinds \X Functions)]

Activation(f, r) ==
    [fn      |-> f,
     ret     |-> r,
     callers |-> {kc \in Kinds \X Functions : kc[2] \in Callers[kc[1]][f]}]

Top == stack[Len(stack)]

\* The callers the activation on top may visit next.
Turn == IF stack = <<>> THEN {} ELSE
        {kc \in Top.callers : \A other \in Top.callers :
                                  Rank[kc[1]] <= Rank[other[1]]}

\* Fault: the caller stays among those to visit.
NotVisited(kc) == stack

\* The stack after the activation on top has dealt with one caller.
Visited(kc) == [stack EXCEPT ![Len(stack)].callers = @ \ {kc}]

\* Fault: only the sites of direct calls are searched.
RecordedDirect(c, g) ==
    \E i \in Insts : /\ Owner[i] = c
                     /\ g \in DirectTargets[i]
                     /\ <<i, g>> \in all_callee_checker_results

Recorded(c, g) ==
    \E i \in Insts : Owner[i] = c /\ <<i, g>> \in all_callee_checker_results

\* Fault: no test that the function has anything to report.
AlwaysReports(ret) == TRUE

\* check_caller() returns at once for a function without results.
Reports(ret) == ret > 0

\* Fault: any direct site that is an API call makes the whole caller skipped.
EntersAnySite(c, g) == Sites["direct"][c][g] \cap checked # {}

\* The first direct call is an API call of the knowledge, whose body is not entered.
EntersAPI(c, g) == \E i \in checked : IsFirstSite("direct", c, g, i)

\* Fault: sites that are API calls are recorded too.
MayRecordAny(kind, i) == TRUE

\* The second half of that test, which only direct calls have.
MayRecord(kind, i) == kind = "direct" => i \notin checked

\* The caller's counter is still zero: nothing was recorded in it yet.
FirstReached(c) == num_checkers_check_caller[c] = 0

\* Fault: the counters restart from -1, as those of the unused check_callee() do.
ResetCountBelowZero == -1

ResetCount == 0

DirectSites == {i \in Insts : DirectTargets[i] # {}}

\* Outcomes of check(k): a matched call site adds a result to its function.
CheckOutcome(results, sites) ==
    /\ results \in [Functions -> 0 .. MaxResults]
    /\ sites \subseteq DirectSites
    /\ \A i \in sites : results[Owner[i]] > 0

-----------------------------------------------------------------------------
\* setup() has read the bitcode; the check(k) half of analysis_functions() is done.
Init ==
    /\ map_order \in MapOrders
    /\ checker_results \in [Functions -> 0 .. MaxResults]
    /\ checked \in SUBSET DirectSites
    /\ CheckOutcome(checker_results, checked)
    /\ num_checkers_check_caller = [f \in Functions |-> 0]
    /\ all_callee_checker_results = {}
    /\ todo = Functions
    /\ stack = <<>>
    /\ round = 1

\* analysis_functions() calls check_caller(f), which returns at once without results.
StartCheckCaller(f) ==
    LET ret == num_checkers_check_caller[f] + checker_results[f] IN
    /\ stack = <<>>
    /\ f \in todo
    /\ todo' = todo \ {f}
    /\ stack' = IF Reports(ret) THEN <<Activation(f, ret)>> ELSE <<>>
    /\ UNCHANGED <<map_order, checker_results, checked, num_checkers_check_caller,
                   all_callee_checker_results, round>>

\* The caller already has the function in all_callee_checker_results.
SkipRecorded(kc) ==
    /\ Recorded(kc[2], Top.fn)
    /\ stack' = Visited(kc)
    /\ UNCHANGED <<map_order, checker_results, checked, num_checkers_check_caller,
                   all_callee_checker_results, todo, round>>

\* The first direct site is an API call of the knowledge: its body is not entered.
SkipChecked(kc) ==
    /\ kc[1] = "direct"
    /\ ~ Recorded(kc[2], Top.fn)
    /\ EntersAPI(kc[2], Top.fn)
    /\ stack' = Visited(kc)
    /\ UNCHANGED <<map_order, checker_results, checked, num_checkers_check_caller,
                   all_callee_checker_results, todo, round>>

\* Record the site; recurse into a caller that is reached for the first time.
RecordCaller(kc, i) ==
    LET c == kc[2] IN
    /\ ~ Recorded(c, Top.fn)
    /\ IsFirstSite(kc[1], c, Top.fn, i)
    /\ MayRecord(kc[1], i)
    /\ all_callee_checker_results' = all_callee_checker_results \cup {<<i, Top.fn>>}
    /\ num_checkers_check_caller' = [num_checkers_check_caller EXCEPT ![c] = @ + Top.ret]
    /\ stack' = IF FirstReached(c)
                THEN Append(Visited(kc), Activation(c, Top.ret + checker_results[c]))
                ELSE Visited(kc)
    /\ UNCHANGED <<map_order, checker_results, checked, todo, round>>

\* All three loops are over.
Return ==
    /\ stack # <<>>
    /\ Top.callers = {}
    /\ stack' = SubSeq(stack, 1, Len(stack) - 1)
    /\ UNCHANGED <<map_order, checker_results, checked, num_checkers_check_caller,
                   all_callee_checker_results, todo, round>>

Done == todo = {} /\ stack = <<>>

\* update_function(): reset() every function and analyse again with more knowledge.
\* reset() keeps all_callee_checker_results.
UpdateFunction(results, sites) ==
    /\ Done
    /\ round < MaxRounds
    /\ CheckOutcome(results, sites)
    /\ checked \subseteq sites
    /\ \A f \in Functions : checker_results[f] <= results[f]
    /\ checker_results' = results
    /\ checked' = sites
    /\ num_checkers_check_caller' = [f \in Functions |-> ResetCount]
    /\ todo' = Functions
    /\ round' = round + 1
    /\ UNCHANGED <<map_order, all_callee_checker_results, stack>>

CheckCaller ==
    \/ \E f \in Functions : StartCheckCaller(f)
    \/ \E kc \in Turn : SkipRecorded(kc)
    \/ \E kc \in Turn : SkipChecked(kc)
    \/ \E kc \in Turn, i \in Insts : RecordCaller(kc, i)
    \/ Return

Next ==
    \/ CheckCaller
    \/ \E results \in [Functions -> 0 .. MaxResults], sites \in SUBSET DirectSites :
          UpdateFunction(results, sites)

\* The pass is one thread that runs to its end; an update may or may not come.
Spec == Init /\ [][Next]_vars /\ WF_vars(CheckCaller)

-----------------------------------------------------------------------------
(***************************************************************************)
(* What the pass is for, said without its recursion.                       *)
(***************************************************************************)
MayCall == {p \in Functions \X Functions :
               \E kind \in Kinds : p[1] \in Callers[kind][p[2]]}

\* A pair that the pass cuts: a direct call only, whose first site is an API call.
Cut(c, g) ==
    /\ c \notin Callers["indirect"][g] \cup Callers["pointer"][g]
    /\ \A i \in Sites["direct"][c][g] : IsFirstSite("direct", c, g, i) => i \in checked

Required == {p \in MayCall : ~ Cut(p[1], p[2])}

RecordedPairs == {p \in Functions \X Functions : Recorded(p[1], p[2])}

Hot == {f \in Functions : checker_results[f] > 0}

\* The functions from which some chain of calls in pairs ends in a checker result:
\* the least set that holds those with results and the callers of its members.
Leading(pairs) ==
    {f \in Functions :
       \A S \in SUBSET Functions :
          /\ Hot \subseteq S
          /\ \A p \in pairs : p[2] \in S => p[1] \in S
          => f \in S}

(***************************************************************************)
(* The type invariant.                                                     *)
(***************************************************************************)
TypeOK ==
    /\ map_order \in MapOrders
    /\ checker_results \in [Functions -> 0 .. MaxResults]
    /\ checked \subseteq Insts
    /\ num_checkers_check_caller \in [Functions -> Nat]
    /\ all_callee_checker_results \subseteq Insts \X Functions
    /\ todo \subseteq Functions
    /\ stack \in Seq(Frame)
    /\ round \in Nat

(***************************************************************************)
(* No spurious site: at every moment, also between two updates, a recorded *)
(* callee leads to a checker result along calls of the program, and so     *)
(* does every function whose counter is not zero.                          *)
(***************************************************************************)
RecordedLeadsToResult ==
    LET leading == Leading(MayCall) IN
    /\ \A e \in all_callee_checker_results : e[2] \in leading
    /\ \A f \in Functions : num_checkers_check_caller[f] > 0 => f \in leading

(***************************************************************************)
(* The outcome of the first pass does not depend on the order in which     *)
(* functions and callers are visited: it is exactly the required pairs.    *)
(***************************************************************************)
OutcomeIsOrderIndependent ==
    Done /\ round = 1 =>
        LET leading == Leading(Required) IN
        RecordedPairs = {p \in Required : p[2] \in leading}

(***************************************************************************)
(* A caller records one site per callee however many calls, kinds of call  *)
(* or updates lead there, so the top-down walk enters the callee once.     *)
(***************************************************************************)
OneSitePerPair ==
    \A e1, e2 \in all_callee_checker_results :
        Owner[e1[1]] = Owner[e2[1]] /\ e1[2] = e2[2] => e1 = e2

(***************************************************************************)
(* Every pass ends.                                                        *)
(***************************************************************************)
PassEnds == <>[]Done

(***************************************************************************)
(* The pass implements the order-free closure of module Closure.  No site  *)
(* is missing when it ends, after an update as well, although the update   *)
(* finds the recorded sites of the pass before and stops at them.          *)
(***************************************************************************)
Abs == INSTANCE Closure WITH
          hot      <- Hot,
          required <- Required,
          recorded <- RecordedPairs,
          done     <- Done

ImplementsClosure == Abs!Spec
=============================================================================
