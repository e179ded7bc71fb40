# A TLA+ model of SyzDescribe

SyzDescribe reads the bitcode of Linux kernel drivers and writes syscall
descriptions for syzkaller. It is one sequential C++ process (about 7,800 lines
of its own under `lib/`, plus the MLTA type analysis it took over). There are no
threads, no network and no persistent state. What makes it hard is of another
kind:

* its algorithms are recursive walks over **cyclic** call graphs, stopped by
  counters and depth limits that are kept in the objects walked over;
* its sets and maps are ordered by **heap addresses** (`std::set<T_function *>`,
  `std::map<llvm::Instruction *, ...>`), so the order of every loop differs from
  run to run and no test sees more than one;
* its result is a **worklist**: drivers yield handlers that are explored and
  yield drivers, which point at each other and are merged by hashes that are
  computed once and cached;
* facts are kept **twice** (call edges in callers and callees, openers in
  commands and drivers) and have to agree.

These are what the modules are about. Line numbers below are those of the
repository, paths are relative to its root.

## The system

`tools/SyzDescribe/SyzDescribe.cpp` calls `Manager::setup()` and then
`Manager::analysis()` (`lib/ManagerLib/Manager.cpp` 20-295), which runs the
phases in this order:

1. `T_module::read_bitcode()`: call graph, targets of indirect calls
2. `find_init_and_exit_function()`, `find_module_init_function()`,
   `remove_init_from_indirect()`
3. `T_module::analysis_functions()`: what the knowledge file describes is looked
   for in every function (`T_function::check(k)`), then `check_caller()` walks
   bottom-up and records the calls that lead there
4. per module init function: `check_function_pointer()`,
   `entry_function::update_checker_results()` (top-down along the recorded
   calls), `mapping_checker_results()` (device drivers)
5. the worklist: `collect_info()`, `collect_cmd_and_type()`,
   `collect_entry_function()`, and phase 4 again for every ioctl handler
6. `syzlang::generate()`: one file of descriptions per init function

| component | state | operations | what makes it correct |
| --- | --- | --- | --- |
| `T_function` (`lib/AnalysisLib/T_function.cpp`) | callee records by instruction, three caller sets, `checker_results`, `num_checkers_check_caller`, `all_callee_checker_results` | `check()`, `check(k)`, `add_callee`, `reset` | records and caller sets describe the same edges |
| `T_module` (`T_module.cpp`) | all functions, init functions per level | `read_bitcode`, MLTA targets, `find_module_init_function`, `remove_init_from_indirect`, `analysis_functions`/`check_caller`, `update_function`, `check_function_pointer` | exactly the calls that lead to a result are recorded, in any order; every pointer that is sure to be taken is collected; the recursions end |
| `entry_function` (`entry_function.cpp`) | collected pointers, results with call chains, the chain and the flag of the walk | `update_checker_results` | one result per admissible path, limits respected, flag truthful |
| `Manager` (`lib/ManagerLib/Manager.cpp`) | drivers kept by hash, worklist of entries | `analysis`, `collect_*`, `mapping_checker_results`, `execute_init_function`, `execute_task` | ends; no handler or driver is lost; openers agree; names, numbers and files go to the nearest driver |
| `device_driver`, `cmd_info` (`lib/KnowledgeLib/device_driver.cpp`) | ids, hashes, commands, opener, resource, structures | `get_id*`, `get_resource`, `update_structure_type` | equal hashes only for drivers that are the same; the structures are closed over their fields |
| `syzlang` (`syzlang.cpp`) | text, declared resources | `generate`, `generate_dd`, `generate_ioctl`, `generate_type`, `is_opt_pointer` | resources are declared and produced; every driver gets into a file; cycles of structures can be ended |
| `ioctl_cmd_type` (`lib/AnalysisLib/ioctl_cmd_type.cpp`) | commands and types of a handler | `run_cmd`: walk over switches and comparisons; `run_type`: walk over copies | each command gets all copies it can reach and no others, whatever the order of blocks |
| `knowledge`, `checker`, `task` (`lib/KnowledgeLib`) | patterns read from JSON, results with call chains | copying, printing, `match_call_chain` | the longest common call chain is found |
| MLTA (`lib/MLTA`) | type maps, `GlobalCtx.Callees` | type-based resolution of indirect calls | sound targets |
| `ToolLib`, `script`, `config`, `SyzDescribe_Syscall_Description` | none | printing, look-ups, one process per bitcode file, data | |

They interact by direct calls and by shared objects only: `T_module` owns the
`T_function`s that `entry_function`s walk over, the caller sets and records
that phases 1 to 3 build are what phase 4 relies on, and the pointers that
`check_function_pointer()` puts into an entry decide what
`update_checker_results()` follows from it.

## The modules

    CallGraphSetup       phases 1 and 2          <- CallGraphSetupProofs
    CallerPropagation    phase 3                 <- CallerPropagationProofs
      implements Closure (abstract specification)
    FunctionPointerWalk  phase 4, first walk     <- ExplorationProofs, first part
      implements PointerClosure (abstract specification)
    EntryWalk            phase 4, second walk    <- EntryWalkProofs
    Exploration          phase 4, composes them  <- ExplorationProofs
      FunctionPointerWalk, then EntryWalk           (instantiates EntryWalkProofs)
    Mapping              phase 4, the rest of it <- MappingProofs
    DriverDiscovery      phases 4 and 5          <- DescriptionsProofs, first part
    Descriptions         phase 6                 <- DescriptionsProofs
      extends DriverDiscovery
    IoctlCmdType         phase 5, one handler    <- IoctlCmdTypeProofs
    StructureTypes       phase 6, one driver     <- StructureTypesProofs

Every module is parameterised by CONSTANTS that stand for the analysed program;
`MC<module>.tla` gives them small values. Operators commented *Fault* are
plausible slips in the code: each is checked to break a property.

Recursion in C++ becomes a variable `stack` of activations; a loop over a
pointer-ordered set is a free choice of the next element. Where the code searches
the same pointer-ordered map several times, the order is a variable that is chosen
once (`map_order`, `walk_order`), since the map answers alike every time.

### CallGraphSetup

`Check(f)` is `T_function::check()` for one function: it adds to `targets`
(callee records: `tf` or `tf_set` by kind and instruction) and `callers`
(`caller_not_isDeclaration`, `caller_indirect`, `caller_pointer`).
`ResolveIndirect(f)` is the loop of `MLTA_indirect_functions()`, whose outcome
`mlta` is arbitrary among `MltaResults`. `FindModuleInitFunction` reads one
initcall entry, with the search for a further static function of the same real
name. `RemoveInitFromIndirect(f)` removes one init function. Calls of functions
that are only declared have no caller set and are left out.

* `CallersAreInverse`: both records of every edge agree at every step.
* `InitCallsAreLost`: in the end only init functions are missing from the targets,
  and each of their callers has lost them from one of its calls at least. It says
  nothing of the other calls of a caller: there the code and its comment disagree,
  and the property holds of both.
* `DuplicatesAreFound`: n initcall entries of a name register n functions.
* `InitIsNoTarget` is what the comment of the code says; it is **violated** (below).

### CallerPropagation and Closure

One action per outcome of a turn of `check_caller()`'s three loops: `SkipRecorded`,
`SkipChecked`, `RecordCaller`; `StartCheckCaller` and `Return` are the call and its
end, `UpdateFunction` is `update_function()`: `reset()` and a new round with more
results. (`update_function()` is reached only from handlers that the code has
commented out at `Manager.cpp` 302-304; it is modelled because it is where stale
records matter.) What `check(k)` finds is arbitrary (`CheckOutcome`).
`num_checkers_check_caller` is an unbounded sum, so `MaxResults` and `MaxRounds`
bound the runs.

* `ImplementsClosure`: refinement of `Closure`, in which a pair may be recorded in
  any order as soon as its callee leads to a result, and which is done only when no
  required pair is missing. `recorded` is mapped to the pairs of
  `all_callee_checker_results`, `required` to the calls that are not cut, and
  `done` to the end of a pass: it says that nothing is missing, also after an
  update that finds old records.
* `RecordedLeadsToResult`: nothing spurious at any time. "Leads to" is the least
  set closed under callers, not the recursion.
* `OutcomeIsOrderIndependent`: for one order of instructions, all heap orders of
  functions give one outcome. The order of instructions does matter: with two direct
  calls of one function from one caller, the pair is cut (`Cut`) if the first of
  them by `map_order` is an API call, as in the code (582-589).
* `OneSitePerPair`, `PassEnds`.

### FunctionPointerWalk and PointerClosure

`check_function_pointer()` of one entry. `Start` copies the pointers of the parent
driver's entry (`inherited`), which is done once: the count of calls is only 0
before. An activation is in one of two loops over its callees in program order
(`NextCallee`, `SecondLoop`): the first collects function pointers and enters
direct calls, and those targets of indirect calls that are among the pointers *by
now* (`EnterTarget`, `SkipTarget`); the second enters the functions pointed to,
once per name of a callback that their name contains. `RefuseTarget` is a call
that returns at once. Sets of functions are walked in `heap_order`.

The outcome depends on orders, and the properties say how far. A callback that is
passed as an argument and called by its callee before the pointer has been
collected is not followed (`T_module.cpp` 778-801), although the comment at
723-724 speaks of false positives only. Hence:

* `ImplementsPointerClosure`: from above, whatever the order, nothing is entered or
  collected that the order-free closure would not.
* `SurePointersCollected`: from below, what certain calls lead to, and indirect
  calls whose target was known before, is not missed. It does not mention
  `heap_order`.
* `WalkTypeOK` has the limits, and that every activation is of an entered function.

### EntryWalk

`update_checker_results()` of one entry: `Start`, `EnterCallee`, `RefuseCallee`
(the callee's own early returns), `SkipCallee`, `Return`. `count_update_checker`
is only incremented behind the first two tests, as in the code. The reference is
`Paths`, defined without the recursion or its counters: simple paths (by real
name) of followed sites, outside skipped functions, of limited length. A checker
result is an object of its own at an instruction (`InstOf`): `T_function::check(k)`
adds one for every checker that matches (`T_function.cpp` 112-117), so that an
instruction may have several.

* `NothingSpurious` holds also when the number of calls runs out half-way;
  `NothingMissed` when it does not; `CollectedOnce`; `WalkEnds`.

### Exploration

The two walks of an entry one after the other, over one program: EntryWalk is
instantiated with the targets that FunctionPointerWalk's callees give and shares
`t_function` and `function_pointers` with it. The recorded sites are any set that
the bottom-up pass may leave (`Records`): one site per caller and callee that leads
to a result.

* `SureResultsCollected`: both walks together miss no result that direct calls,
  callbacks with a telling name, and indirect calls to sure pointers lead to
  (`SurePaths`: the paths of EntryWalk over `SureSites`, defined without either walk).
* `IndirectCallsAreJustified`: each indirect call in a collected call chain goes to
  a function whose address an entered function takes, or that the parent had.
* `ExplorationEnds`.

### Mapping

Exploring an entry yields checker results; `MappingCheckerResults` makes a driver
of each operations structure and gives away names, numbers and files:
`AnalysisInitFunction` and `AnalysisHandler` are the turns of the two loops,
`HandleInitFunctionWithDriverDevice` is what comes between them (reading operands,
dropping names with `%s`). A call chain is a sequence of instructions, `Match` is
the length of the common beginning; `Best` is the loop with its flag for ties, a
recursive function over the drivers, and `Takers` are those it gives a result to.
What the walks find is the variable `checker_results`, any of `Outcomes`. The loops
over results read nothing of a driver but its structure, which none of them
changes, so a step gives away all results of an entry.
Reading a name is to put it into `fmt`. `va2` is always empty, since
`execute_task()` returns at `Manager.cpp` 1101 before the loop that fills it.

* `MappingTypeOK` includes `~ wild`: `temp_dd`, which has no initial value
  (`Manager.cpp` 782, 815, 846), is never written through before it is set.
* `GivenToNearest`: a driver's name, a number or a file belongs to exactly the
  drivers that match best, ties included, among all that existed then. `dev_name` and
  `dev_type` are given otherwise and left to the type invariant.
* `OwnNameIsUsed`: the name a driver is registered with, by the same calls as its
  structure, survives the dropping of patterns and has been read. It is limited to
  names from the driver's own entry: a handler may name an earlier driver, but only
  the handler's own drivers are read afterwards (1004).

### DriverDiscovery

Entries and drivers are C++ objects that are never freed and point at each other:
here they are positions in two sequences. `loop` says which loop of `analysis()`
runs. What exploring a function finds is a set of *findings*, each with the
function pointers its chain needs; an entry finds those whose pointers it has,
its own and those of the entries above it. Assumptions: the commands of a handler
(`Cmds`) do not depend on collected pointers; only ioctl handlers are entries
(`collect_entry_function()` looks at `syscall_name[3]` only).

* `AnalysisEnds`: also with handlers that open each other's files.
* `OpenersAgree`: `cmd_info::dd` against `non_open_parent`, also when overwritten.
* `ParentCommandsAreKnown`, `HandlersAreExplored`, `DriversAreRepresented`,
  `ResourcesAreProduced`: what merging drivers by hash does not lose.
* `FunctionPointersTellApart` is the comment of the header; it is **violated**.

### Descriptions

Extends DriverDiscovery by grouping, generating and writing files. Of the text
only the lines that declare, give and take resources remain, with a flag that
says whether a line is commented out. A useful driver always has an active open
line, since the code replaces missing file names.

* `GoodFilesAreClosed`: a file whose drivers all have commands and openers
  declares, returns and takes the same resources. In the run such a file has no
  drivers that were merged; the theorem `GoodFilesClosed` is about those, too.
* `OpenedInTheSameFile`: a driver comes in the file of the driver it was found from.
* `TakenAreDeclared` (the repository's README) and `EveryDriverIsDescribed` (the
  comment in `Manager.cpp`) are **violated**.

### IoctlCmdType

One handler in `collect_cmd_and_type()`. `stack` holds the objects of the class:
the handler's, and one per call that is followed (`CheckCallee`). An object is in
`run_cmd()`, or *typing* in `run_type()`; an object that `run_cmd()` made goes
from one to the other per command (`BeginCmd`, `EndCmd`), one made while typing
only types. `cases` are the commands of the current switch or branch that
are left. A program is given as blocks with successors and instructions with
operands; which values depend on the command is computed as in
`update_cmd_and_type()` (`Affected`) for every object, and dominators by their
definition. Left out: what type a copy has, inline assembly, statistics.
DriverDiscovery takes the commands as the constant `Cmds`: one outcome of this walk.

The references (`Contexts`, `SureOccurrences`, `PossibleOccurrences`, `Copies`)
are sets over the program, without objects or order. Two of them are needed
because the outcome depends on the order of blocks: *sure* are the tests in blocks
that nothing can erase from `all_bb`; *possible* is every test in every context,
with any branch of the function for a comparison, since `curr_cmd` outlives its
block.

`Reachable` is what `isPotentiallyReachable()` of LLVM 14 answers (the version the
repository's README names): it looks at `DefaultMaxBBsToExplore` blocks, 32 in LLVM,
and then answers true. So a command in a large function is given the copies of all
blocks but the entry, in the model as in the code; dominators are exact.

* `CommandsAreSound`: at every step, nothing but possible commands at their
  blocks, and copies in blocks the search does not rule out from there.
* `CommandsAreComplete`: when the walk is done, every sure command has been found
  and has every copy of every one of its sure tests.
* `CommandIsKnown`: `current_cmd`, which the code leaves uninitialised, is a found
  command in every object that types. It follows that `no_cmd` is never filled,
  although a comment (`ioctl_cmd_type.cpp` 465, "handle copy_from_user before cmd")
  announces it: `run_cmd()` passes over copies.
* `WalkEnds`, with loops, recursion and a depth limit that is reached.

### StructureTypes

`UpdateStructureType` and `CollectElements` are `update_structure_type()`, which
starts from the types that all commands (`cmd`) copy in or out, and which every
`print()` of a driver starts again from what it has; `GenerateDD` is what
`generate_dd()` makes of arguments and structures: a line names a structure and
has the direction of its command, a definition names those of its fields, and a pointer that may lead back to the
structure is optional. `IsOptPointer` is the recursion of `is_opt_pointer()` with the
set of types that all branches below a field share, written as a function of how
deep calls may still get. Structures that the compiler copied have one
name up to the second dot. `Layered` leaves out structures that contain themselves.

* `NamesAreDefined`: exactly the structures that are named are defined.
* `CyclesAreOptional`: each cycle of definitions goes through an optional pointer,
  so that syzkaller can build a finite value.

## The runs

| run | states | bounds and why they are enough |
| --- | --- | --- |
| `call_graph` | 12,672 | 4 functions, one caller with two indirect calls (the case in which removal stops early), 2 static functions of one name, up to 5 initcall entries: more than there are functions, over 2 levels |
| `bottom_up` | 188,672 | 4 functions with a cycle through three, a self-call through a pointer table, two direct calls of one pair, an init function with cleared callers, an instruction that is call and pointer; every outcome of `check(k)`, one update, two opposite instruction orders |
| `top_down` | 105,054 | 6 functions, one with two results on one instruction, every set of recorded sites and collected pointers; depth limit 2 and call limit 4 are both reached and not reached |
| `exploration` | 11,472 | 6 functions, one with two results on one instruction: a callback that is called back before it is collected, a pointer that only the callback takes, a callback by name, a skipped function with two of the names, a cycle; two entries, five inherited sets, two opposite heap orders, every set of records; depth limit 3, call limit 9, reached by some and not by others |
| `mapping` | 13,312 | two init functions and one handler in every order, 11 results of all kinds of which every subset is found: ties, patterns, a name without structures of its kind, a name from the same directory, and results of the handler that fit earlier drivers |
| `descriptions` | 110,725 | two init functions of different files with one driver in common; drivers found twice and merged, nested across files, handlers that open each other's files, one command that opens two drivers, drivers with and without commands |
| `structures` | 912,899 | all programs of three structures, two of them copies of one name, with fields that are integers, structures, pointers, pointers to pointers and arrays; two fields in the first and one in the others; no command, one that copies some types in, out or both, or two that share a type |
| `ioctl_commands` | 11,758 | a handler of 6 blocks with a loop, a comparison before a switch, a case in a shared block, a comparison without branch and one with a variable; a recursive callee that is only called in a block that may be left out, and one called through a pointer; 24 orders of blocks: rotations of the program order and its reverse, so that each test comes before and after each other. In half of them command 3 is not found. `DefaultMaxBBsToExplore` is 4 (32 in LLVM), reached from two blocks of the handler and not from the others. `MAX_CALLEE_COUNT` (10^8 in the code) is not reached, the completeness properties assume that |
| `call_graph_doc`, `discovery_doc`, `descriptions_doc`, `descriptions_lost` | violation | one statement of the documentation each |

`descriptions` is the run of DriverDiscovery as well: Descriptions extends it, and
its properties are checked there, on the larger program. `MCDriverDiscovery`
serves `discovery_doc`.

In the source the limits of a walk are 16 calls of depth and 10^8 calls; the small ones
here are chosen so that they cut some walks and leave others alone. The proofs
do not depend on their values.

Deadlock is not checked because every one of these programs ends; where it
matters that it ends, and ends completely, a liveness property and the
properties with `Done =>` say so.

**Fairness.** The program is one thread that is always running: as long as a step
is enabled it is taken. `WF_vars(Next)` says that and nothing more, the free
choices (orders) are not constrained. In CallerPropagation only the steps of
the pass are fair; an update need never come. Mapping and StructureTypes state no
fairness: nothing is asked of them but safety.

## Disagreements with comments and documentation

1. `T_module.cpp` 196-197: "for all indirect function call, remove module init
   functions from targets". `goto next` at 210 leaves after the first call of a
   caller (`InitIsNoTarget`).
2. `device_driver.h` 88: `id_real_hash` is "based on the ops and whether they have
   different function pointers". It is computed and cached (`Manager.cpp` 109, 144)
   before the ioctl entry that holds the pointers exists
   (`FunctionPointersTellApart`).
3. `README.md` 57: the files "can directly used in syzkaller". A resource that was
   first written as a comment is never declared for the next driver that needs it
   (`syzlang.cpp` 50-60, `TakenAreDeclared`).
4. `Manager.cpp` 165: output "based on source code file". Two init functions of one
   source file overwrite each other's output (`syzlang.cpp` 425,
   `EveryDriverIsDescribed`).

## What is proved

For every program (all values of the constants that satisfy the assumptions):

* `CallerPropagationProofs`. `TypeCorrect`. `OneSitePerPairHolds`: inductive with
  types alone, since `RecordCaller` is the only action that adds a site and its
  guard sees all earlier ones. `NoSpuriousSite` (`RecordedLeadsToResult`): not
  inductive, because an activation on the stack adds sites later; `StackJustified`
  adds that every activation is of a function that leads to a result and holds
  only callers of it. "Leads to" being a least closed set, `CallerLeads` follows
  without induction, and `LeadingGrows` carries the invariant over an update.

  `ImplementsClosureHolds` (`ImplementsClosure`): initial states map to initial
  states, `RecordCaller` to `Record`, `UpdateFunction` to `Restart`, the step that ends
  a pass (the last `Return`, or a last `StartCheckCaller` of a function without
  results) to `Finish`, all others to stutters. `Finish` is the hard one: nothing
  may be missing then. `CompleteInv` says that a function that was reached, by its
  own results or by a site recorded in it, is explored: each required pair with it
  as callee is recorded, or pending in an activation on the stack. With an empty
  stack nothing is pending. No activation ever starts twice to repair an earlier
  one, so this has to hold at every step and across updates, which keep the old
  sites: there it holds since an update finds an empty stack, and more knowledge
  requires less.

  `VisitsInAnyOrder` (`OutcomeIsOrderIndependent`): what the first pass records is
  required and leads to a result by required pairs alone (`FirstPassInv`), and by
  the argument above nothing of that kind is missing; neither mentions the order of
  visits. `SitesInAnyOrder` is what holds whatever the order of instructions: a
  pair that has direct calls only is cut by no order if none of them is an API call
  (`NeverCut`), and kept by some order if not all of them are (`SometimesKept`). The
  recorded pairs include those that lead to results within the former and are among
  those that do within the latter.
* `CallGraphSetupProofs`. `TypeCorrect`. `CallersAgree` (`CallersAreInverse`): both
  records are changed by the same new targets (`WithKeepsInverse`); the
  strengthening is that only registered init functions are to be removed.
  `LosesInitCalls` (`InitCallsAreLost`): `LostInv` follows what is missing
  through the phases: nothing for visited functions, then nothing at all, then
  only removed functions, each missing somewhere in every caller that had it. That
  nothing of a function is missing *before* its removal is what gives every caller
  a first call to erase it from (`ErasedSomewhere`, `RemoveLost`).
* `ExplorationProofs`, of the walk for pointers. `WalkTypeCorrect` (`WalkTypeOK`): the limits hold
  because `EnterTarget` is guarded by both; that the functions on the stack have
  been visited is part of the invariant. `WalkImplementsPointerClosure`
  (`ImplementsPointerClosure`): `EnterTarget` maps to `Visit`, `NextCallee` to
  `Collect` or a stutter; the invariant is needed to see that the target of an
  activation is one of its function's calls, and that the function was visited.

  `SurePointersAreCollected` (`SurePointersCollected`): the depth makes this subtle,
  since a function that was entered deep down has not been walked as far as one
  that is entered near the root. `SureInv` therefore says that *some* set `W` of
  pairs of function and place on the stack has been walked to the end: each of them
  has its pointers collected and its sure targets in `W` one place further, skipped,
  or out of depth; an activation owes the same for the callees behind it, but for
  the target that is above it on the stack. `Return` puts its function into `W`. When the stack is
  empty the root is in `W`, and the functions that sure calls reach in n steps
  (the recursive function `reach`) are in `W` within n places: by the least
  counterexample, as the library's induction rules cannot be instantiated here.
* `EntryWalkProofs`. `TypeCorrect`. `NothingSpuriousHolds`: `WalkInv` says that the
  stack and the call chain spell a path of `Paths` (`Spine`) and that the flag, and
  the copy of it that each activation restores, are those of the path.
  `CollectedOnceHolds`: `OnceInv` says that nothing has been collected yet whose
  path goes by a call site still to be tried (`Free`). `NothingMissedHolds`:
  `MissInv` says that the results of every path have been collected, or that the
  path `Waiting`s: it agrees with the stack up to an activation that has its next
  call site still to try. With `NothingSpuriousHolds` this makes the outcome of a
  walk that is not cut short a function of its inputs, not of heap addresses.

* `ExplorationProofs`, of both walks. What was proved of each is used, not proved
  again: EntryWalkProofs is instantiated as `EW` with the program that Exploration
  gives it; `EntryWalkApplies` proves its assumption.
  `ExplorationInv` says that the second walk is untouched until the first is done
  and keeps its invariants from then on; and that each pointer is owed to the parent
  or to a visited function (`PointersOwed`). `ExplorationKeepsTheWalk`: the limits,
  the refinement of PointerClosure and `SureInv` hold on in the composition.
  `IndirectCallsJustified` is `PointersOwed` at the call sites of a collected
  chain. `SureResultsAreCollected`: sure pointers have been collected when the
  second walk starts, so a sure path is a path that `NothingMissedHolds` speaks of.
* `MappingProofs`. `TypeCorrect` (`MappingTypeOK`), `GivenToTheNearest`
  (`GivenToNearest`), `OwnNamesAreUsed` (`OwnNameIsUsed`). `BestIsFound` is the loop
  that looks for the closest driver, for any number of drivers: `after` is shown to
  exist (`LoopExists`) and to have found the best of the candidates seen so far and
  whether it is alone, hence `TakersAreClosest`. `MapInv` has what connects the
  drivers to the order of exploration: a driver's function is explored, and its lists
  hold results of explored functions only (`DriversInv`). So the drivers of a new
  function come after all others, and for an old result the drivers that existed
  when it was given away are still the same (`ExploreDrivers`). `GivenInv`
  strengthens `GivenToNearest`: a driver that lost a name has another one, which
  `OwnNameIsUsed` needs; `ReadInv` is what has been read once handlers are explored.
* `DescriptionsProofs`, of DriverDiscovery. `TypeCorrect` (`TypeOK`), `OpenersAlwaysAgree`
  (`OpenersAgree`), `ParentCommandsKnown` (`ParentCommandsAreKnown`),
  `HandlersExplored` (`HandlersAreExplored`), `DriversRepresented`
  (`DriversAreRepresented`), from one inductive invariant `Inv` over the seven loops of
  `analysis()`. Its parts: a loop visits each driver of its pass once (`PassInv`); a
  driver and its entry point at each other, so an entry belongs to one driver
  (`EntryInv`); a driver was found by an entry that is explored, before the pass that
  is running (`BirthInv`), which is why its parent already has its commands; what a
  driver has before and after its turn (`InfoInv`); each driver whose hash has been
  compared has a kept one that stands for it (`KeptInv`); each handler has an entry
  that is explored, will be, or is within a loop of names (`ServedInv`); and the names
  above an entry have been explored (`AboveInv`): an entry that is given up because
  its name occurs above it loses nothing, as that name's own entry was explored.
* `DescriptionsProofs`, of Descriptions. `GenTypeCorrect` (`GenTypeOK`), `ResourcesProduced`
  (`ResourcesAreProduced`), `OpenedTogether` (`OpenedInTheSameFile`), `GoodFilesClosed`
  (`GoodFilesAreClosed`). `Inv` says that *some* driver of the same id stands for a
  driver that was merged; these theorems need that it was found in the same way. That
  is a matter of history (`HistoryInv`): an entry is explored once and only after its
  driver had its turn (`FreshInv`); its drivers are made in the order of the walk and
  come to their turns together and in that order (`OrderInv`); so the command of a
  parent opens the last driver that was told to it (`ToldInv`), and which one that is
  depends on the findings alone (`LastTold`). `IdInv` says that an id holds those of
  all drivers above, `UpInv` that an entry is younger than the entry its driver comes
  from: so drivers of one id have entries with the same pointers and names, up to the
  same init function (`SameIdAlike`, by the shortest counterexample; `RootSteps` first
  shows that the recursive function in `RootOf` exists). Then `ProducedByKept`: the
  entry of the kept driver found the same, and its command opens a driver of the same
  name. `GenInv` adds that a file has exactly the lines of the drivers of its group,
  all but repeated declarations (`Describes`), and that nothing is discovered while
  files are written.

  The last three theorems have hypotheses, since merging by id is wrong for some
  programs: two findings with the same source lines in different functions that share a
  handler have one hash, and the one that is merged may be the one whose command
  opens a driver. So call chains that are printed alike must start in one function
  (`ChainsNameFunctions`) and, for `GoodFilesClosed`, if they end at one operations
  structure, be of one kind and be reached from one command (`ChainsNameCommands`).
  `checker_result::get_call_chain()` prints path, line, column and the name of the
  function up to the first dot when no kernel version is given (`llvm_related.cpp`
  150-173): then the first can fail only for functions whose names agree up to the dot.
  With a version it prints path and line only. MCDescriptions
  states both as an assumption that TLC evaluates: its program satisfies them and does
  have two chains that are printed alike.
* `IoctlCmdTypeProofs`. `TypeCorrect` (`TypeOK`), `CommandAlwaysKnown`
  (`CommandIsKnown`), `CommandsJustified` (`CommandsAreSound`) and
  `NothingOutsideCommands`: `no_cmd` stays empty, in every run for every handler.
  `WalkInv` says of each object on the stack (`Good`) that calls lead to its context
  (`InContext`), that it handles code of its own function (`OwnCode`), that the
  constant and the cases it remembers are of a test of the command (`Tested`), which
  targets it has left (`Calling`), and that while it types, its command has been found
  and all it looks at lies on a way from a test of that command (`ForCommand`). The
  contexts and the ways are recursive functions over the depth of calls.
  `CommandsFound` (`CommandsAreComplete`): nothing sure is missed, if no callee is
  turned away for `MAX_CALLEE_COUNT` (`CountNotReached`; the run satisfies it, the
  code's limit is 10^8 callees of one object). What is done is described by sets that
  are closed under calls: a block is done for a command (`TypeDone`) if it belongs to
  a set of blocks whose copies are all recorded and which has with each call that is
  followed all blocks of the callee; likewise for contexts (`CmdDone`). Such sets only
  grow, and a set that holds the handler holds all that `SureOccurrences` speaks of,
  recursive calls included. `FindsAll` says what the objects on the stack still owe:
  each has done the blocks it has taken but for its instructions and callees left and
  for the context of the object above (`TypesFound`, `CmdsFound`), takes instructions
  in order (`InOrder`), so that at a branch `curr_cmd` is the constant of the last
  comparison of its block (`Remembered`), and types for what the object below asked
  (`Chained`). A block that is erased after a command owes nothing: sure tests are
  those in blocks nothing can erase. `ReachableIsEnough`: what is reachable in the
  graph is in `Reachable`, so giving up the search never loses a copy.
* `StructureTypesProofs`. `OptPointerIsExact`: whether a type leads to a structure of
  the same name is defined as reachability, and the search with its shared set of
  visited types is shown to decide it. It is truthful since it only looks into what
  the type leads to. It is thorough because after a call that has found nothing all
  types in `checked` are without the name and have all they contain in `checked`,
  but for those of calls that have not returned; when the first call returns there
  are none. Calls never get deeper than there are types, as each adds one.
  `NamesDefined` (`NamesAreDefined`): `ClosureInv` says that what fields of found
  structures contain has been found, but for the structures still to be looked at,
  also when `print()` starts again, and that each of them is named somewhere.
  `CyclesOptional` (`CyclesAreOptional`): a structure on a cycle of fields leads back to
  itself, so by `OptPointerIsExact` all pointers on the cycle are optional, and a
  field that must be there is no pointer: a cycle of those is a structure that
  contains itself, which `Layered` excludes.
* `CallGraphSetupProofs`, `FindsDuplicates` (`DuplicatesAreFound`): `CountInv` says that
  at each level as many functions of a real name are registered as it has entries,
  or all candidates, and that those the entries name are among them; an entry
  whose function is registered already has to find another one if there is one.

The assumptions are those named in the modules: the constants have their types,
orders are injective, and programs, findings and function names are finite. TLC
evaluates them in the runs. Beyond types: that a result's instruction belongs to
the function that has the result, and that the results of a function are different
objects (EntryWalk, `ProgramsAgree` in Exploration; a result
is found at one of the function's own instructions); that a result is found for the
function and the type it is listed under (Mapping, where `EntryOf` and `Checker` name
them); that the successors of a block are blocks of its function and never its entry
block, and that a branch or switch is the last instruction of its block, which LLVM
guarantees (IoctlCmdType).

Only model-checked: liveness and everything under fairness (`PassEnds`, `WalkEnds`,
`ExplorationEnds`, `AnalysisEnds`), out of the prover's reach. `CommandsAreComplete`
is proved for walks that do not reach `MAX_CALLEE_COUNT`: it does not hold for others.

## What is not modelled

* MLTA (`lib/MLTA`): taken over from another project. Its result is an arbitrary
  choice of targets. Knowledge files and the checkers made from them are data;
  which pattern matches which instruction is the arbitrary `CheckOutcome`.
* The JSON library (`lib/ToolLib/json.hpp`) is vendored. It is three quarters of
  all lines of C++ in the repository, so that any share of lines that counts it
  stays small whatever is modelled.
* Printing, look-ups in LLVM (but for those in StructureTypes), the command line
  tool, the scripts, the published descriptions.
* `task` is a record around the result that `execute_task()` reads; its JSON form is
  for `execute_task_by_klee()`, whose calls are commented out (`Manager.cpp` 1253,
  1268), as are those of `handle_init_function_with_driver()` and `_with_device()`
  (302-304). Of `execute_task()` the model has what is read and when, not how an
  operand of LLVM is turned into text.
* Functions with no caller: `check_callee()`, `type_based_indirect_functions()`,
  `check_open()`, `set_function_flag()`, `get_path_number()`.
* The type of a copy (`ioctl_cmd_type.cpp` 513-742): StructureTypes starts from
  arbitrary types, IoctlCmdType ends with the copies.
* Names of structures in the output (`generate_struct_name`), opaque and empty
  structures.

Hazards without a property are listed in `PROJECT.json` with the reason: mostly
code of which nothing in the repository says what is meant.

## Plan

Done, in the order of importance: CallerPropagation with Closure, DriverDiscovery,
EntryWalk, CallGraphSetup, Descriptions, IoctlCmdType; then FunctionPointerWalk with
PointerClosure, Exploration, Mapping, StructureTypes; and the proofs of all of them.

Left, in this order:

1. `TypeSearch` (`ioctl_cmd_type.cpp` 513-742): the depth-first searches for the type
   of a copy, whose set of visited instructions is the current path only, against
   reachability; termination on phi cycles. It would connect IoctlCmdType and
   StructureTypes.
2. The patterns of `T_function::check(k)`: which checker gets a result where.
3. A composition of CallerPropagation and EntryWalk: the recorded sites are enough
   for every path to a result that the walk would follow in the full graph, up to
   the choice of one site per pair. (Exploration assumes the outcome of the
   former, `Records`.)
