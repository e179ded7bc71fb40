-------------------------- MODULE DriverDiscovery --------------------------
(***************************************************************************)
(* Manager::analysis() (lib/ManagerLib/Manager.cpp), from the module init  *)
(* functions to the last device driver.  Every init function is explored   *)
(* and yields device drivers; the ioctl handler of a driver is an entry    *)
(* function that is explored in turn and may yield drivers that are opened *)
(* by a command of the first one.  Drivers are C++ objects that point at   *)
(* each other: here they are positions in two sequences that only grow.    *)
(*                                                                         *)
(* What exploring a function finds is given: a finding is the call chain   *)
(* from that function to the instruction that installs an operations       *)
(* structure, and it is found when the function pointers its indirect      *)
(* calls need have been collected for the entry function (T_module::       *)
(* check_function_pointer, entry_function::update_checker_results).        *)
(***************************************************************************)
EXTENDS Integers, Sequences, FiniteSets

CONSTANTS
    FunctionNames,     \* functions that are explored
    InitFunctions,     \* the module init functions among them
    Pointers,          \* per function: the pointers it takes, its callees included
    Cmds,              \* per function: the commands its switches tell apart
    Findings,          \* call chains that end at an operations structure
    FoundIn,           \* per finding: the function at its start
    Needs,             \* per finding: the function pointers it is called through
    OpsName,           \* per finding: the operations structure
    SourceLines,       \* per finding: its call chain as debug info prints it
    FileOps,           \* findings of type file_ops; the others are dri_ops
    Through,           \* per finding: the commands whose block reaches it
    IoctlHandler,      \* per operations structure: its ioctl, or NoHandler
    NoHandler,
    WalkOrders         \* the heap orders of call sites to consider

OpsNames == {OpsName[f] : f \in Findings}

ASSUME FindingAssumption ==
    /\ FoundIn \in [Findings -> FunctionNames]
    /\ Needs \in [Findings -> SUBSET FunctionNames]
    /\ Through \in [Findings -> SUBSET Nat]
    /\ IsFiniteSet(Findings)
    /\ FileOps \subseteq Findings
    /\ DOMAIN OpsName = Findings
    /\ DOMAIN SourceLines = Findings

ASSUME FunctionAssumption ==
    /\ IsFiniteSet(FunctionNames)
    /\ InitFunctions \subseteq FunctionNames
    /\ NoHandler \notin FunctionNames
    /\ Pointers \in [FunctionNames -> SUBSET FunctionNames]
    /\ Cmds \in [FunctionNames -> SUBSET Nat]
    /\ IoctlHandler \in [OpsNames -> FunctionNames \cup {NoHandler}]
    /\ WalkOrders \subseteq [Findings -> Nat]
    /\ \A order \in WalkOrders, f, g \in Findings : order[f] = order[g] => f = g

VARIABLES
    walk_order,        \* in which order a walk meets the findings
    todo_init,         \* init functions analysis_init_function() has yet to explore
    entries,           \* every entry_function, in order of creation
    drivers,           \* every device_driver, in order of creation
    device_drivers,    \* the drivers that are kept, one per id_real_hash
    entry_set,         \* entry functions to explore
    loop,              \* the loop of analysis() that is running
    results,           \* the drivers it runs over
    todo               \* those it has yet to visit

vars == <<walk_order, todo_init, entries, drivers, device_drivers, entry_set,
          loop, results, todo>>

objects == <<entries, drivers>>
worklist == <<loop, results, todo>>

-----------------------------------------------------------------------------
None == 0

Loops == {"init", "dedup", "keep", "info", "cmd", "entry", "pick"}

Commands == UNION {Cmds[f] : f \in FunctionNames}

Lines == {SourceLines[f] : f \in Findings}

\* An entry_function.  parent is the driver it serves, None for an init function;
\* handlers are the names met on the way up, the root's own left out.
Entry == [name : FunctionNames, parent : Nat, handlers : Seq(FunctionNames),
          function_pointers : SUBSET FunctionNames]

\* A device_driver.  id names one call chain per level, the root's first; opens is
\* the dd of each cmd_info, None when it is null.
Driver == [finding : Findings, parent : Nat, id : Seq(Lines),
           id_real_hash : {<<>>} \cup (Seq(Lines) \X OpsNames \X SUBSET FunctionNames),
           ioctl : Nat,
           cmd : SUBSET Commands, opens : [Commands -> Nat],
           non_open_parent : {<<>>} \cup (Nat \X Commands)]

NewInitEntry(f) ==
    [name |-> f, parent |-> None, handlers |-> <<>>, function_pointers |-> Pointers[f]]

\* check_function_pointer() starts from the pointers of the entry above.
NewIoctlEntry(h, d) ==
    LET above == entries[drivers[d].parent] IN
    [name |-> h, parent |-> d, handlers |-> Append(above.handlers, h),
     function_pointers |-> above.function_pointers \cup Pointers[h]]

\* A device_driver as mapping_checker_results() leaves it.
NewDriver(f, e, parent_id) ==
    [finding |-> f, parent |-> e, id |-> Append(parent_id, SourceLines[f]),
     id_real_hash |-> <<>>, ioctl |-> None, cmd |-> {},
     opens |-> [v \in Commands |-> None], non_open_parent |-> <<>>]

Found(ef) == {f \in Findings : FoundIn[f] = ef.name /\ Needs[f] \subseteq ef.function_pointers}

\* mapping_checker_results() takes the dri_ops first, then the file_ops.
Precedes(f, g) ==
    \/ f \notin FileOps /\ g \in FileOps
    \/ (f \in FileOps <=> g \in FileOps) /\ walk_order[f] < walk_order[g]

\* What exploring ef leaves in all_checker_results, in order.
IsWalk(s, ef) ==
    /\ {s[i] : i \in DOMAIN s} = Found(ef)
    /\ \A i, j \in DOMAIN s : i < j => Precedes(s[i], s[j])

Walks(ef) == {s \in [1 .. Cardinality(Found(ef)) -> Found(ef)] : IsWalk(s, ef)}

OpsOf(d) == OpsName[drivers[d].finding]

Handler(d) == IoctlHandler[OpsOf(d)]

ParentDriver(d) == entries[drivers[d].parent].parent

Visit == Head(todo)

\* Fault: a driver without ioctl handler is not passed over.
RestOfHandlers == IF Handler(Visit) = NoHandler THEN todo ELSE Tail(todo)

Rest == Tail(todo)

\* Fault: the hash of a nested driver ignores how it was found.
HashOfOps(d) == <<<<>>, OpsOf(d), {}>>

\* get_id_real_hash() before any hash function: a nested driver is told by its id
\* too, and the function pointers are those of its ioctl entry if it has one.
RealHash(d) ==
    <<IF ParentDriver(d) = None THEN <<>> ELSE drivers[d].id,
      OpsOf(d),
      IF drivers[d].ioctl = None THEN {}
      ELSE entries[drivers[d].ioctl].function_pointers>>

\* The commands of the parent driver whose block reaches the driver's finding.
OpenedBy(d) ==
    IF ParentDriver(d) = None THEN {}
    ELSE drivers[ParentDriver(d)].cmd \cap Through[drivers[d].finding]

Smallest(S) == CHOOSE v \in S : \A w \in S : v <= w

\* Fault: the loop over the parent's commands does not stop at the first match.
CommandsToldAll(d) == IF drivers[d].finding \in FileOps THEN OpenedBy(d) ELSE {}

\* Fault: only a driver that is kept is told to the command that opens it.
CommandsToldKept(d) ==
    IF drivers[d].finding \in FileOps /\ OpenedBy(d) # {} /\ d \in device_drivers
    THEN {Smallest(OpenedBy(d))} ELSE {}

\* The commands whose dd becomes the driver.
CommandsTold(d) ==
    IF drivers[d].finding \in FileOps /\ OpenedBy(d) # {}
    THEN {Smallest(OpenedBy(d))} ELSE {}

\* Fault: the handler goes to syscalls, its entry_function is not made.
NoHandlerEntries(d) == <<>>

HandlerEntries(d) ==
    IF Handler(d) = NoHandler THEN <<>> ELSE <<NewIoctlEntry(Handler(d), d)>>

\* Fault: only the drivers that are kept get their commands.
CommandsOfKept(d) ==
    IF drivers[d].ioctl = None \/ d \notin device_drivers THEN {} ELSE Cmds[Handler(d)]

CommandsOf(d) == IF drivers[d].ioctl = None THEN {} ELSE Cmds[Handler(d)]

\* Some name comes twice among the entry and its parents.
WithinLoop(e) ==
    \E i, j \in DOMAIN entries[e].handlers :
        i < j /\ entries[e].handlers[i] = entries[e].handlers[j]

\* Fault: the worklist is emptied instead of losing one element.
NothingLeft(e) == {}

Left(e) == entry_set \ {e}

-----------------------------------------------------------------------------
Init ==
    /\ walk_order \in WalkOrders
    /\ todo_init = InitFunctions
    /\ entries = <<>>
    /\ drivers = <<>>
    /\ device_drivers = {}
    /\ entry_set = {}
    /\ loop = "init"
    /\ results = <<>>
    /\ todo = <<>>

\* One turn of analysis_init_function().
AnalysisInitFunction(f) ==
    /\ loop = "init"
    /\ f \in todo_init
    /\ todo_init' = todo_init \ {f}
    /\ entries' = Append(entries, NewInitEntry(f))
    /\ \E s \in Walks(NewInitEntry(f)) :
          drivers' = drivers \o
              [i \in DOMAIN s |-> NewDriver(s[i], Len(entries) + 1, <<>>)]
    /\ UNCHANGED <<walk_order, device_drivers, entry_set, worklist>>

\* All init functions are explored: keep one driver per hash.
StartKeeping ==
    /\ loop = "init"
    /\ todo_init = {}
    /\ loop' = "dedup"
    /\ results' = [i \in DOMAIN drivers |-> i]
    /\ todo' = results'
    /\ UNCHANGED <<walk_order, todo_init, objects, device_drivers, entry_set>>

\* device_drivers gets the driver unless its hash, computed here once, is taken.
Keep ==
    /\ loop \in {"dedup", "keep"}
    /\ todo # <<>>
    /\ LET hash == RealHash(Visit) IN
       /\ drivers' = [drivers EXCEPT ![Visit].id_real_hash = hash]
       /\ device_drivers' =
             IF \E d \in device_drivers : drivers[d].id_real_hash = hash
             THEN device_drivers
             ELSE device_drivers \cup {Visit}
    /\ todo' = Rest
    /\ UNCHANGED <<walk_order, todo_init, entries, entry_set, loop, results>>

\* collect_info(): the smallest command of the parent driver that reaches the finding
\* opens this driver and, for file_ops, is told so; then the ioctl entry is made.
CollectInfo ==
    /\ loop = "info"
    /\ todo # <<>>
    /\ drivers' = [d \in DOMAIN drivers |->
          CASE d = Visit ->
                  [drivers[d] EXCEPT
                     !.non_open_parent = IF OpenedBy(Visit) = {} THEN <<>>
                                         ELSE <<ParentDriver(Visit), Smallest(OpenedBy(Visit))>>,
                     !.ioctl = IF Handler(Visit) = NoHandler THEN None ELSE Len(entries) + 1]
            [] d = ParentDriver(Visit) ->
                  [drivers[d] EXCEPT
                     !.opens = [v \in Commands |->
                        IF v \in CommandsTold(Visit) THEN Visit ELSE drivers[d].opens[v]]]
            [] OTHER -> drivers[d]]
    /\ entries' = entries \o HandlerEntries(Visit)
    /\ todo' = Rest
    /\ UNCHANGED <<walk_order, todo_init, device_drivers, entry_set, loop, results>>

\* collect_cmd_and_type(): the commands of the ioctl handler, none opens a driver yet.
CollectCmdAndType ==
    /\ loop = "cmd"
    /\ todo # <<>>
    /\ drivers' = [drivers EXCEPT ![Visit].cmd = CommandsOf(Visit)]
    /\ todo' = Rest
    /\ UNCHANGED <<walk_order, todo_init, entries, device_drivers, entry_set, loop, results>>

\* collect_entry_function(): explore the handler, but not within a loop of names.
CollectEntryFunction ==
    LET e == drivers[Visit].ioctl IN
    /\ loop = "entry"
    /\ todo # <<>>
    /\ entry_set' = IF e = None THEN entry_set
                    ELSE IF WithinLoop(e) THEN entry_set
                    ELSE entry_set \cup {e}
    /\ todo' = Rest
    /\ UNCHANGED <<walk_order, todo_init, objects, device_drivers, loop, results>>

\* A loop is over.  The first pass goes on over the map device_drivers, in the order
\* of its keys, which are printed hashes; the later ones over results once more.
NextLoop ==
    LET n == Cardinality(device_drivers) IN
    /\ loop \notin {"init", "pick"}
    /\ todo = <<>>
    /\ loop' = CASE loop \in {"dedup", "keep"} -> "info"
                 [] loop = "info"  -> "cmd"
                 [] loop = "cmd"   -> "entry"
                 [] loop = "entry" -> "pick"
    /\ IF loop = "dedup"
       THEN results' \in {s \in [1 .. n -> device_drivers] :
                             \A d \in device_drivers : \E i \in 1 .. n : s[i] = d}
       ELSE results' = results
    /\ todo' = IF loop = "entry" THEN <<>> ELSE results'
    /\ UNCHANGED <<walk_order, todo_init, objects, device_drivers, entry_set>>

\* One turn of the worklist: explore an entry function and make its drivers.
AnalysisEntry(e) ==
    LET Created(s) == [i \in DOMAIN s |->
                          NewDriver(s[i], e, drivers[entries[e].parent].id)]
    IN
    /\ loop = "pick"
    /\ e \in entry_set
    /\ entry_set' = Left(e)
    /\ \E s \in Walks(entries[e]) :
          /\ drivers' = drivers \o Created(s)
          /\ results' = [i \in DOMAIN s |-> Len(drivers) + i]
    /\ todo' = results'
    /\ loop' = "keep"
    /\ UNCHANGED <<walk_order, todo_init, entries, device_drivers>>

Next ==
    \/ \E f \in todo_init : AnalysisInitFunction(f)
    \/ StartKeeping
    \/ Keep
    \/ CollectInfo
    \/ CollectCmdAndType
    \/ CollectEntryFunction
    \/ NextLoop
    \/ \E e \in entry_set : AnalysisEntry(e)

\* One thread that runs to its end.
Spec == Init /\ [][Next]_vars /\ WF_vars(Next)

Done == loop = "pick" /\ entry_set = {}

-----------------------------------------------------------------------------
(***************************************************************************)
(* The type invariant: every pointer between objects is to one that exists.*)
(***************************************************************************)
DriverOK(d) ==
    /\ drivers[d].parent \in DOMAIN entries
    /\ drivers[d].ioctl \in {None} \cup DOMAIN entries
    /\ \A v \in Commands : drivers[d].opens[v] # None =>
          v \in drivers[d].cmd /\ drivers[d].opens[v] \in DOMAIN drivers
    /\ drivers[d].non_open_parent # <<>> =>
          /\ drivers[d].non_open_parent[1] \in DOMAIN drivers
          /\ drivers[d].non_open_parent[2] \in drivers[drivers[d].non_open_parent[1]].cmd

TypeOK ==
    /\ walk_order \in WalkOrders
    /\ todo_init \subseteq InitFunctions
    /\ entries \in Seq(Entry)
    /\ \A e \in DOMAIN entries : entries[e].parent \in {None} \cup DOMAIN drivers
    /\ drivers \in Seq(Driver)
    /\ \A d \in DOMAIN drivers : DriverOK(d)
    /\ device_drivers \subseteq DOMAIN drivers
    /\ entry_set \subseteq DOMAIN entries
    /\ loop \in Loops
    /\ results \in Seq(DOMAIN drivers)
    /\ todo \in Seq(DOMAIN drivers)

(***************************************************************************)
(* The two pointers collect_info() sets agree.  A command that is said to  *)
(* open a driver opens a file_ops driver that names the command as its     *)
(* non_open_parent; and a file_ops driver that names a command finds it    *)
(* opening a driver, itself or the one that overwrote it.                  *)
(***************************************************************************)
OpenersAgree ==
    /\ \A p \in DOMAIN drivers : \A v \in drivers[p].cmd :
          LET d == drivers[p].opens[v] IN
          d # None => /\ drivers[d].finding \in FileOps
                      /\ drivers[d].non_open_parent = <<p, v>>
    /\ \A d \in DOMAIN drivers :
          LET above == drivers[d].non_open_parent IN
          above # <<>> /\ drivers[d].finding \in FileOps =>
              drivers[above[1]].opens[above[2]] # None

(***************************************************************************)
(* A driver is not opened by any command only when no command of its parent*)
(* leads to it: the commands of a parent, kept or not, are known before    *)
(* the information of its children is collected.                           *)
(***************************************************************************)
ParentCommandsAreKnown ==
    \A d \in DOMAIN drivers :
        drivers[d].ioctl # None /\ ParentDriver(d) # None =>
            (drivers[d].non_open_parent = <<>>
               <=> Cmds[FoundIn[drivers[d].finding]] \cap Through[drivers[d].finding] = {})

(***************************************************************************)
(* No handler is forgotten: in the end the ioctl handler of every driver,  *)
(* kept or not, has been explored as an entry function of some driver: what*)
(* there is to find there has been found.                                  *)
(***************************************************************************)
HandlersAreExplored ==
    Done => \A d \in DOMAIN drivers :
               Handler(d) # NoHandler =>
                   \E e \in DOMAIN entries :
                       /\ entries[e].parent # None
                       /\ entries[e].name = Handler(d)
                       /\ \A f \in Found(entries[e]) : \E x \in DOMAIN drivers :
                             drivers[x].parent = e /\ drivers[x].finding = f

(***************************************************************************)
(* No driver is lost to another: in the end every driver has a kept one of *)
(* the same operations structure and, when nested, of the same call chains.*)
(***************************************************************************)
DriversAreRepresented ==
    Done => \A d \in DOMAIN drivers : \E k \in device_drivers :
               /\ OpsOf(k) = OpsOf(d)
               /\ ParentDriver(k) = None <=> ParentDriver(d) = None
               /\ ParentDriver(d) # None => drivers[k].id = drivers[d].id

(***************************************************************************)
(* The resource a kept driver is opened with is produced: its name is made *)
(* of the id of the driver its opening command was last told, and a kept   *)
(* driver has a command of the same value told a driver of the same id,    *)
(* even when the parent itself was merged with another driver.             *)
(***************************************************************************)
ResourcesAreProduced ==
    Done => \A d \in device_drivers :
               LET above == drivers[d].non_open_parent IN
               above # <<>> /\ drivers[d].finding \in FileOps =>
                   \E k \in device_drivers :
                       /\ drivers[k].opens[above[2]] # None
                       /\ drivers[drivers[k].opens[above[2]]].id =
                          drivers[drivers[above[1]].opens[above[2]]].id

(***************************************************************************)
(* The analysis ends.                                                      *)
(***************************************************************************)
AnalysisEnds == <>Done

HandlerPointers(d) ==
    IF Handler(d) = NoHandler THEN {}
    ELSE NewIoctlEntry(Handler(d), d).function_pointers

(***************************************************************************)
(* device_driver.h says of id_real_hash that it is "based on the ops and   *)
(* whether they have different function pointers": two drivers found with  *)
(* different function pointers would both be kept.                         *)
(***************************************************************************)
FunctionPointersTellApart ==
    Done => \A d \in DOMAIN drivers : \E k \in device_drivers :
               /\ OpsOf(k) = OpsOf(d)
               /\ HandlerPointers(k) = HandlerPointers(d)
=============================================================================
