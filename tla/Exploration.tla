---------------------------- MODULE Exploration ----------------------------
(***************************************************************************)
(* What analysis does with one entry function (Manager.cpp 135-139 and     *)
(* 459-463): check_function_pointer() collects its function pointers       *)
(* (FunctionPointerWalk), then update_checker_results() collects its       *)
(* results (EntryWalk), following indirect calls to these pointers only.   *)
(* Both walk the same program; the second one keeps to the call sites the  *)
(* bottom-up pass has recorded, one per caller and callee that leads to a  *)
(* result (CallerPropagation).                                             *)
(***************************************************************************)
EXTENDS FunctionPointerWalk

CONSTANTS
    Owner,         \* the function an instruction belongs to
    RealNames,
    RealName,
    CheckerResults,
    InstOf,        \* the instruction of a checker result
    Results,       \* checker_results of a function
    MapOrders

ASSUME ProgramsAgree ==
    /\ Owner \in [Insts -> Functions]
    /\ \A f \in Functions : \A k \in DOMAIN AllCallee[f] : Owner[AllCallee[f][k].i] = f
    /\ RealName \in [Functions -> RealNames]
    /\ InstOf \in [CheckerResults -> Insts]
    /\ Results \in [Functions -> Seq(CheckerResults)]
    /\ \A f \in Functions : \A j, k \in DOMAIN Results[f] : Results[f][j] = Results[f][k] => j = k
    /\ \A f \in Functions : \A k \in DOMAIN Results[f] : Owner[InstOf[Results[f][k]]] = f
    /\ MapOrders \subseteq [Insts -> Nat]

VARIABLES
    all_callee_checker_results,
    map_order,
    current_call_chain,
    in_function_pointer,
    count_update_checker,
    all_checker_results,
    activations

pointervars == <<inherited, heap_order, count_function_pointer, stack, visited>>

resultvars == <<all_callee_checker_results, map_order, current_call_chain,
                in_function_pointer, count_update_checker, all_checker_results, activations>>

-----------------------------------------------------------------------------
TargetsAt(kind) ==
    [inst \in Insts |->
        UNION {ce.tf_set : ce \in {ce \in Of(Owner[inst], kind) : ce.i = inst}}]

DirectTargets == TargetsAt("callee_not_isDeclaration")

IndirectTargets == TargetsAt("callee_indirect")

PointerTargets == TargetsAt("function_pointer")

Walk == INSTANCE EntryWalk WITH
            PossibleName <- {f \in Functions : NamesIn[f] > 0},
            stack <- activations

\* The calls the bottom-up pass may record: k has not checked them.
Calls == {<<ce.i, g>> : ce \in UNION {Callees(f) : f \in Functions}, g \in Functions}

RecordableSites ==
    {s \in Calls : \E ce \in Callees(Owner[s[1]]) :
                       ce.i = s[1] /\ s[2] \in ce.tf_set /\ ~ ce.checked}

\* Functions from which a result can be reached.
Leading ==
    LET leads[n \in Nat] ==
            IF n = 0 THEN {f \in Functions : Results[f] # <<>>}
            ELSE LET less == leads[n - 1] IN
                 less \cup {Owner[s[1]] : s \in {t \in RecordableSites : t[2] \in less}}
    IN leads[Cardinality(Functions)]

\* What the bottom-up pass may leave: one site per caller and callee.
Records ==
    LET sites == {s \in RecordableSites : s[2] \in Leading}
        SamePair(s, t) == Owner[s[1]] = Owner[t[1]] /\ s[2] = t[2]
    IN {kept \in SUBSET sites :
            /\ \A s \in sites : \E t \in kept : SamePair(s, t)
            /\ \A s, t \in kept : SamePair(s, t) => s = t}

-----------------------------------------------------------------------------
ExplorationInit ==
    /\ Init
    /\ all_callee_checker_results \in Records
    /\ map_order \in MapOrders
    /\ current_call_chain = <<>>
    /\ in_function_pointer = FALSE
    /\ count_update_checker = 0
    /\ all_checker_results = <<>>
    /\ activations = <<>>

CollectPointers ==
    /\ WalkNext
    /\ UNCHANGED resultvars

PointersAreCollected == Done

CollectResults ==
    /\ PointersAreCollected
    /\ Walk!Next
    /\ UNCHANGED pointervars

ExplorationNext == CollectPointers \/ CollectResults

explorationvars == <<walkvars, resultvars>>

ExplorationSpec ==
    /\ ExplorationInit
    /\ [][ExplorationNext]_explorationvars
    /\ WF_explorationvars(ExplorationNext)

-----------------------------------------------------------------------------
SurePointers == inherited \cup UNION {PassedBy(f) : f \in SureFunctions}

SureSite(s) ==
    \/ s[2] \in DirectTargets[s[1]]
    \/ s[2] \in IndirectTargets[s[1]] /\ s[2] \in SurePointers
    \/ Walk!IsPointer(s) /\ NamesIn[s[2]] > 0

SureSites == {s \in all_callee_checker_results : s[2] \notin SkippedFunctions /\ SureSite(s)}

\* The paths EntryWalk speaks of, with sure calls only.
SurePaths ==
    {path \in UNION {[1 .. n -> SureSites] : n \in 0 .. MAX_FUNC_DEPTH} :
        /\ t_function \notin SkippedFunctions
        /\ \A k \in 1 .. Len(path) :
              /\ Owner[path[k][1]] = Walk!At(path, k - 1)
              /\ \A j \in 0 .. k - 1 : RealName[Walk!At(path, j)] # RealName[path[k][2]]}

(***************************************************************************)
(* The two walks together miss no result that can be reached by direct     *)
(* calls, callbacks with a telling name, and indirect calls to functions   *)
(* whose address is taken where certain calls lead, or by the parent.      *)
(***************************************************************************)
SureResultsCollected ==
    Walk!Done /\ ~ Exhausted /\ ~ Walk!Exhausted =>
        \A path \in SurePaths : Walk!ResultsAt(path) \subseteq Walk!Collected

(***************************************************************************)
(* A collected result owes every indirect call of its call chain to a      *)
(* function the pointer walk has entered, or to the parent's entry.        *)
(***************************************************************************)
IndirectCallsAreJustified ==
    \A n \in DOMAIN all_checker_results :
        LET chain == all_checker_results[n].call_chain IN
        \A k \in 1 .. Len(chain) - 1 :
            LET g == Owner[chain[k + 1]] IN
            g \in IndirectTargets[chain[k]] =>
                \/ g \in DirectTargets[chain[k]]
                \/ g \in inherited
                \/ \E f \in visited : g \in PassedBy(f)

(***************************************************************************)
(* Both walks end.                                                         *)
(***************************************************************************)
ExplorationEnds == <>Walk!Done
=============================================================================
