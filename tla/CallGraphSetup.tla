--------------------------- MODULE CallGraphSetup ---------------------------
(***************************************************************************)
(* How the call graph comes about that CallerPropagation and EntryWalk run *)
(* on: T_module::read_bitcode() lets every function record its callees     *)
(* (T_function::check()) and fills in the targets of indirect calls from   *)
(* the multi-layer type analysis; then the module init functions are found *)
(* by their initcall entries and taken out of the targets of indirect      *)
(* calls (lib/AnalysisLib/T_function.cpp, T_module.cpp).                   *)
(*                                                                         *)
(* Each call edge is kept twice, in the callee records of the caller and in*)
(* the caller sets of the callee, and both are changed by all three parts. *)
(* Calls of functions that are only declared have no caller set and are    *)
(* left out.                                                               *)
(***************************************************************************)
EXTENDS Integers, Sequences, FiniteSets

CONSTANTS
    Functions,
    Insts,            \* instructions, numbered in program order
    Owner,            \* the function an instruction belongs to
    DirectCallee,     \* per instruction: the defined function it calls, or {}
    Pointed,          \* per instruction: the functions its constants lead to
    MltaResults,      \* what MLTA may find: targets per indirect call
    Levels,           \* initcall levels, "init_module" among them
    RealNames,
    RealName,         \* the name up to its first dot
    InitSection,      \* functions of section .init.text, in module order
    InitcallLists,    \* lists of <<level, function of that name>> to consider
    NoFunction        \* what a name gives that the module does not define

ASSUME GraphAssumption ==
    /\ Insts \subseteq Nat
    /\ Owner \in [Insts -> Functions]
    /\ DirectCallee \in [Insts -> SUBSET Functions]
    /\ Pointed \in [Insts -> SUBSET Functions]
    /\ MltaResults \subseteq [Insts -> SUBSET Functions]

ASSUME InitcallAssumption ==
    /\ RealName \in [Functions -> RealNames]
    /\ InitSection \in Seq(Functions)
    /\ NoFunction \notin Functions
    /\ InitcallLists \subseteq Seq(Levels \X (Functions \cup {NoFunction}))

VARIABLES
    mlta,                  \* GlobalCtx.Callees
    initcalls,             \* the initcall entries
    read,                  \* how many find_module_init_function() has read
    phase,                 \* the loop that is running
    todo,                  \* functions it has yet to visit
    targets,               \* the callee records: tf or tf_set per kind and instruction
    callers,               \* the caller sets per kind and function
    module_init_function   \* per level

vars == <<mlta, initcalls, read, phase, todo, targets, callers, module_init_function>>

-----------------------------------------------------------------------------
Kinds == {"direct", "indirect", "pointer"}

Phases == {"check", "mlta", "initcall", "remove", "done"}

\* check() leaves the targets of an indirect call empty.
Found(kind) ==
    CASE kind = "direct"   -> DirectCallee
      [] kind = "indirect" -> [i \in Insts |-> {}]
      [] kind = "pointer"  -> Pointed

\* The instructions of f whose new targets include g.
Calls(new, f, g) == \E i \in Insts : Owner[i] = f /\ g \in new[i]

\* The caller sets after f has got new targets ...
WithCaller(old, new, f) ==
    [g \in Functions |-> IF Calls(new, f, g) THEN old[g] \cup {f} ELSE old[g]]

\* ... and its records.
WithTargets(old, new, f) ==
    [i \in Insts |-> IF Owner[i] = f THEN old[i] \cup new[i] ELSE old[i]]

Registered == UNION {module_init_function[l] : l \in Levels}

\* Fault: a name without function is not passed over.
AnyName(f) == TRUE

\* getFunction() finds a function of the name.
IsFunction(f) == f # NoFunction

\* Fault: the function of exactly that name, however often it is named.
AddedExactly(f, known) == {f}

\* What an entry that names f adds to the functions known for its level: f itself or,
\* if it is known, the first unknown one of its real name in the init section.
Added(f, known) ==
    LET new == {k \in DOMAIN InitSection : /\ RealName[InitSection[k]] = RealName[f]
                                           /\ InitSection[k] \notin known}
    IN IF f \notin known THEN {f}
       ELSE {InitSection[k] : k \in {j \in new : \A i \in new : j <= i}}

\* Fault: the jump follows the first indirect call, whether it has f or not.
FirstIndirect(f, i) ==
    /\ Owner[i] \in callers["indirect"][f]
    /\ targets["indirect"][i] # {}
    /\ \A j \in Insts : Owner[j] = Owner[i] /\ targets["indirect"][j] # {} => i <= j

\* The first indirect call in a caller of f that has f as a target.
ErasedAt(f, i) ==
    /\ Owner[i] \in callers["indirect"][f]
    /\ f \in targets["indirect"][i]
    /\ \A j \in Insts : Owner[j] = Owner[i] /\ f \in targets["indirect"][j] => i <= j

\* Fault: one caller set is left as it was.
CallersKept(f) == callers

\* The caller sets after f is no target any more.
CallersCleared(f) == [callers EXCEPT !["indirect"][f] = {}]

-----------------------------------------------------------------------------
Init ==
    /\ mlta \in MltaResults
    /\ initcalls \in InitcallLists
    /\ read = 0
    /\ phase = "check"
    /\ todo = Functions
    /\ targets = [kind \in Kinds |-> [i \in Insts |-> {}]]
    /\ callers = [kind \in Kinds |-> [g \in Functions |-> {}]]
    /\ module_init_function = [l \in Levels |-> {}]

\* T_function::check(): what f calls and which functions it takes pointers of.
Check(f) ==
    /\ phase = "check"
    /\ f \in todo
    /\ todo' = todo \ {f}
    /\ targets' = [kind \in Kinds |-> WithTargets(targets[kind], Found(kind), f)]
    /\ callers' = [kind \in Kinds |-> WithCaller(callers[kind], Found(kind), f)]
    /\ UNCHANGED <<mlta, initcalls, read, phase, module_init_function>>

\* MLTA_indirect_functions() for the indirect calls of f.
ResolveIndirect(f) ==
    /\ phase = "mlta"
    /\ f \in todo
    /\ todo' = todo \ {f}
    /\ targets' = [targets EXCEPT !["indirect"] = WithTargets(targets["indirect"], mlta, f)]
    /\ callers' = [callers EXCEPT !["indirect"] = WithCaller(callers["indirect"], mlta, f)]
    /\ UNCHANGED <<mlta, initcalls, read, phase, module_init_function>>

\* One turn of find_module_init_function().
FindModuleInitFunction ==
    /\ phase = "initcall"
    /\ read < Len(initcalls)
    /\ read' = read + 1
    /\ LET level == initcalls[read + 1][1]
           f == initcalls[read + 1][2]
       IN module_init_function' =
              IF IsFunction(f)
              THEN [module_init_function EXCEPT
                       ![level] = @ \cup Added(f, module_init_function[level])]
              ELSE module_init_function
    /\ UNCHANGED <<mlta, initcalls, phase, todo, targets, callers>>

\* One turn of remove_init_from_indirect().
RemoveInitFromIndirect(f) ==
    /\ phase = "remove"
    /\ f \in todo
    /\ todo' = todo \ {f}
    /\ targets' = [targets EXCEPT !["indirect"] =
          [i \in Insts |-> IF ErasedAt(f, i) THEN targets["indirect"][i] \ {f}
                           ELSE targets["indirect"][i]]]
    /\ callers' = CallersCleared(f)
    /\ UNCHANGED <<mlta, initcalls, read, phase, module_init_function>>

NextPhase ==
    /\ phase # "done"
    /\ IF phase = "initcall" THEN read = Len(initcalls) ELSE todo = {}
    /\ phase' = CASE phase = "check"    -> "mlta"
                  [] phase = "mlta"     -> "initcall"
                  [] phase = "initcall" -> "remove"
                  [] phase = "remove"   -> "done"
    /\ todo' = CASE phase = "check"    -> Functions
                 [] phase = "initcall" -> Registered
                 [] OTHER              -> {}
    /\ UNCHANGED <<mlta, initcalls, read, targets, callers, module_init_function>>

Next ==
    \/ \E f \in todo : Check(f) \/ ResolveIndirect(f) \/ RemoveInitFromIndirect(f)
    \/ FindModuleInitFunction
    \/ NextPhase

Spec == Init /\ [][Next]_vars

-----------------------------------------------------------------------------
(***************************************************************************)
(* The type invariant.                                                     *)
(***************************************************************************)
TypeOK ==
    /\ mlta \in MltaResults
    /\ initcalls \in InitcallLists
    /\ read \in 0 .. Len(initcalls)
    /\ phase \in Phases
    /\ todo \subseteq Functions
    /\ targets \in [Kinds -> [Insts -> SUBSET Functions]]
    /\ callers \in [Kinds -> [Functions -> SUBSET Functions]]
    /\ module_init_function \in [Levels -> SUBSET Functions]

Removed == IF phase \in {"remove", "done"} THEN Registered \ todo ELSE {}

(***************************************************************************)
(* The two records of an edge agree at every step: the callers of a        *)
(* function are those that have it among their targets, except that a      *)
(* module init function that was removed has no indirect callers.  This is *)
(* what module CallerPropagation takes for granted as Callers.             *)
(***************************************************************************)
CallersAreInverse ==
    \A kind \in Kinds, g \in Functions :
        callers[kind][g] =
            IF kind = "indirect" /\ g \in Removed THEN {}
            ELSE {c \in Functions : \E i \in Insts : Owner[i] = c /\ g \in targets[kind][i]}

(***************************************************************************)
(* What removing init functions from the targets of indirect calls does in *)
(* the end, however many of them and in whatever order: a target that MLTA *)
(* found is missing only where it is an init function, and every caller of *)
(* an init function has lost it from one of its indirect calls at least.   *)
(***************************************************************************)
InitCallsAreLost ==
    phase = "done" =>
        \A i \in Insts :
            /\ mlta[i] \ targets["indirect"][i] \subseteq Registered
            /\ \A g \in mlta[i] \cap Registered :
                  \E j \in Insts : Owner[j] = Owner[i] /\ g \in mlta[j] \ targets["indirect"][j]

\* The entries read so far at a level that name a function of real name r.
EntriesOf(l, r) ==
    {k \in 1 .. read : /\ initcalls[k][1] = l
                       /\ IsFunction(initcalls[k][2])
                       /\ RealName[initcalls[k][2]] = r}

\* The functions of that real name that are known for the level.
CandidatesOf(l, r) ==
    {initcalls[k][2] : k \in EntriesOf(l, r)}
      \cup {f \in {InitSection[k] : k \in DOMAIN InitSection} : RealName[f] = r}

(***************************************************************************)
(* Static functions of one name, which the linker has told apart by a      *)
(* suffix that the initcall entries lack, are all found: a level with n    *)
(* entries of a name registers n functions of that real name, as far as    *)
(* there are so many, whatever the order of the init section.              *)
(***************************************************************************)
DuplicatesAreFound ==
    \A l \in Levels, r \in RealNames :
        LET entries == Cardinality(EntriesOf(l, r))
            candidates == Cardinality(CandidatesOf(l, r))
            registered == Cardinality({f \in module_init_function[l] : RealName[f] = r})
        IN EntriesOf(l, r) # {} =>
              registered = IF entries <= candidates THEN entries ELSE candidates

(***************************************************************************)
(* T_module.cpp says of remove_init_from_indirect(): "for all indirect     *)
(* function call, remove module init functions from targets".              *)
(***************************************************************************)
InitIsNoTarget ==
    phase = "done" => \A i \in Insts : targets["indirect"][i] \cap Registered = {}
=============================================================================
