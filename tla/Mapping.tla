------------------------------ MODULE Mapping ------------------------------
(***************************************************************************)
(* Which device gets which name (lib/ManagerLib/Manager.cpp).  Exploring   *)
(* an entry function yields checker results: an operations structure makes *)
(* a device driver, and names, numbers and files are given to the drivers  *)
(* whose structure is installed closest by, measured by how much of the    *)
(* call chains agrees (mapping_checker_results, match_call_chain).  What a *)
(* name says is read later (execute_init_function, execute_task), for the  *)
(* module init functions when all are explored, for an ioctl handler right *)
(* after it; in between names that hold "%s" are taken from drivers that   *)
(* have another (handle_init_function_with_driver_device).                 *)
(*                                                                         *)
(* The instructions of call chains are told apart; of what a name says     *)
(* only whether it could be read and whether it holds "%s".                *)
(***************************************************************************)
EXTENDS Integers, Sequences, FiniteSets, Functions

CONSTANTS
    InitEntries,       \* the module init functions
    Handlers,          \* ioctl handlers
    Installs,          \* per handler: the operations structure that has it
    CheckerResults,
    Outcomes,          \* what the walks may find: per function and type its results
    EntryOf,           \* per result: the function it is found for
    Checker,           \* per result: its type
    Id,                \* per result: what ties a name to the structures it may name
    Chain,             \* per result: the call chain from the explored function
    Value,             \* per result: what execute_task() reads
    SamePlace          \* pairs of results whose source files start alike

Entries == InitEntries \cup Handlers

OpsTypes == {"dri_ops", "file_ops"}

NumberTypes == {"dri_type", "dri_major", "dri_minor"}

FileTypes == {"file_install", "file_fd"}

CheckerTypes == OpsTypes \cup NumberTypes \cup FileTypes \cup {"dri_name", "dev_name", "dev_type"}

Values == {"", "name", "%s"}

ASSUME ResultAssumption ==
    /\ InitEntries \cap Handlers = {}
    /\ Outcomes \subseteq [Entries -> [CheckerTypes -> Seq(CheckerResults)]]
    /\ \A outcome \in Outcomes : \A e \in Entries, ct \in CheckerTypes :
          \A c \in Range(outcome[e][ct]) : EntryOf[c] = e /\ Checker[c] = ct
    /\ EntryOf \in [CheckerResults -> Entries]
    /\ Checker \in [CheckerResults -> CheckerTypes]
    /\ Chain \in [CheckerResults -> Seq(Nat)]
    /\ DOMAIN Id = CheckerResults
    /\ Value \in [CheckerResults -> Values]
    /\ SamePlace \subseteq CheckerResults \X CheckerResults
    /\ Installs \in [Handlers -> {c \in CheckerResults : Checker[c] \in OpsTypes}]

VARIABLES
    checker_results,      \* what the walks find
    explored,             \* the functions that are explored
    all_device_drivers,   \* every device_driver, in order of creation
    fmt,                  \* the results whose text execute_task() has read
    wild,                 \* a result was given to a driver that does not exist
    phase

vars == <<checker_results, explored, all_device_drivers, fmt, wild, phase>>

-----------------------------------------------------------------------------
\* The lists of a driver only grow by results it has not got: sets.
NewDriver(c) == [ops |-> c, name |-> {}, number |-> {}, file_install |-> {}, file_fd |-> {}]

\* match_call_chain(): how many calls two results have in common.
Match(a, b) ==
    Cardinality({n \in DOMAIN Chain[a] \cap DOMAIN Chain[b] :
                    \A k \in 1 .. n : Chain[a][k] = Chain[b][k]})

GetCheckerResults(e, ct) == checker_results[e][ct]

ResultsOf(e) == UNION {Range(GetCheckerResults(e, ct)) : ct \in CheckerTypes}

found == UNION {ResultsOf(e) : e \in Entries}

NewDrivers(e) ==
    LET crs == GetCheckerResults(e, "dri_ops") \o GetCheckerResults(e, "file_ops")
    IN [i \in DOMAIN crs |-> NewDriver(crs[i])]

OfSameId(c, dds) == {i \in DOMAIN dds : Id[dds[i].ops] = Id[c]}

\* The loop that looks for the driver closest to c among candidates: the first of
\* those that match best, and whether a later one matches as well.
Best(c, dds, candidates) ==
    LET after[n \in 0 .. Len(dds)] ==
            IF n = 0 THEN [match |-> -1, dd |-> {}, equal_match |-> FALSE]
            ELSE LET best == after[n - 1]
                     temp_match == Match(c, dds[n].ops)
                 IN CASE n \notin candidates \/ temp_match < best.match -> best
                      [] n \in candidates /\ temp_match > best.match ->
                            [match |-> temp_match, dd |-> {n}, equal_match |-> FALSE]
                      [] n \in candidates /\ temp_match = best.match ->
                            [best EXCEPT !.equal_match = TRUE]
    IN after[Len(dds)]

\* Fault: a tie is not noticed, the first driver gets the result.
FirstBest(c, dds, candidates) == Best(c, dds, candidates).dd

\* The drivers that get c: the closest one or, on a tie, all that match as well.
Takers(c, dds, candidates) ==
    LET best == Best(c, dds, candidates) IN
    IF best.equal_match
    THEN {i \in candidates : Match(c, dds[i].ops) = best.match}
    ELSE best.dd

GiveDriverName(c, dds) == Takers(c, dds, OfSameId(c, dds))

\* A name found without a driver structure goes to every driver that shares a call
\* with it, and to those that share none but come from the same directory.
GiveDeviceName(c, dds) ==
    {i \in OfSameId(c, dds) : Match(c, dds[i].ops) > 0 \/ <<c, dds[i].ops>> \in SamePlace}

GiveNumber(c, dds) == IF Checker[c] = "dev_type" THEN DOMAIN dds ELSE Takers(c, dds, DOMAIN dds)

GiveFile(c, dds) == Takers(c, dds, DOMAIN dds)

\* Fault: the function goes on when the entry has no operations structure.
GoesOn(e) == TRUE

HasOps(e) == NewDrivers(e) # <<>>

\* mapping_checker_results() up to set_kind().  Its loops take a result at a time, but
\* all they read of the drivers are the structures, which they leave alone.
MappingCheckerResults(e) ==
    LET dds == all_device_drivers \o NewDrivers(e)
        Of(types) == {c \in ResultsOf(e) : Checker[c] \in types}
    IN [i \in DOMAIN dds |->
          [dds[i] EXCEPT
              !.name = @ \cup {c \in Of({"dri_name"}) : i \in GiveDriverName(c, dds)}
                         \cup {c \in Of({"dev_name"}) : i \in GiveDeviceName(c, dds)},
              !.number = @ \cup {c \in Of({"dev_type"} \cup NumberTypes) : i \in GiveNumber(c, dds)},
              !.file_install = @ \cup {c \in Of({"file_install"}) : i \in GiveFile(c, dds)},
              !.file_fd = @ \cup {c \in Of({"file_fd"}) : i \in GiveFile(c, dds)}]]

\* Numbers and files are written to whatever the loop has found.
WritesWild(e) ==
    /\ all_device_drivers \o NewDrivers(e) = <<>>
    /\ \E c \in ResultsOf(e) : Checker[c] \in NumberTypes \cup FileTypes

\* Fault: only the structures are read for the drivers of a handler.
ReadOpsOnly(dds) == {dd.ops : dd \in Range(dds)}

\* execute_init_function(): the structure and the names of every driver are read.
ReadBy(dds) == UNION {{dd.ops} \cup dd.name : dd \in Range(dds)}

ExecuteInitFunction(dds) == fmt \cup ReadBy(dds)

\* va2 stays empty: execute_task() returns before the loop that fills it.
IsPattern(c) == c \in fmt' /\ Value[c] = "%s"

\* Names that are patterns are dropped unless no other is left.
WithoutPatterns(names) ==
    LET temp_name == {c \in names : ~ IsPattern(c)}
    IN IF Cardinality(names) > 1 /\ temp_name # {} THEN temp_name ELSE names

-----------------------------------------------------------------------------
Init ==
    /\ checker_results \in Outcomes
    /\ explored = {}
    /\ all_device_drivers = <<>>
    /\ fmt = {}
    /\ wild = FALSE
    /\ phase = "init"

\* One turn of analysis_init_function().
AnalysisInitFunction(e) ==
    /\ phase = "init"
    /\ e \in InitEntries \ explored
    /\ explored' = explored \cup {e}
    /\ all_device_drivers' = IF HasOps(e) THEN MappingCheckerResults(e) ELSE all_device_drivers
    /\ wild' = (wild \/ (HasOps(e) /\ WritesWild(e)))
    /\ UNCHANGED <<checker_results, fmt, phase>>

\* Read everything that has been found, then drop names that are patterns.
HandleInitFunctionWithDriverDevice ==
    /\ phase = "init"
    /\ InitEntries \subseteq explored
    /\ phase' = "handlers"
    /\ fmt' = ExecuteInitFunction(all_device_drivers)
    /\ all_device_drivers' =
          [i \in DOMAIN all_device_drivers |->
              [all_device_drivers[i] EXCEPT !.name = WithoutPatterns(@)]]
    /\ UNCHANGED <<checker_results, explored, wild>>

\* One turn of the worklist of analysis(), in any order: the drivers of the handler
\* are made, given their results, and read.
AnalysisHandler(e) ==
    /\ phase = "handlers"
    /\ e \in Handlers \ explored
    /\ Installs[e] \in {dd.ops : dd \in Range(all_device_drivers)}
    /\ explored' = explored \cup {e}
    /\ all_device_drivers' = IF HasOps(e) THEN MappingCheckerResults(e) ELSE all_device_drivers
    /\ wild' = (wild \/ (HasOps(e) /\ WritesWild(e)))
    /\ fmt' = ExecuteInitFunction(
                  SubSeq(all_device_drivers', Len(all_device_drivers) + 1, Len(all_device_drivers')))
    /\ UNCHANGED <<checker_results, phase>>

Next ==
    \/ \E e \in InitEntries : AnalysisInitFunction(e)
    \/ HandleInitFunctionWithDriverDevice
    \/ \E e \in Handlers : AnalysisHandler(e)

Spec == Init /\ [][Next]_vars

Done ==
    /\ phase = "handlers"
    /\ \A e \in Handlers \ explored : Installs[e] \notin {dd.ops : dd \in Range(all_device_drivers)}

-----------------------------------------------------------------------------
Drivers == DOMAIN all_device_drivers

Ops(i) == all_device_drivers[i].ops

ResultLists == {"name", "number"} \cup FileTypes

\* The results mapping_checker_results() has looked at.
Mapped == {c \in found : EntryOf[c] \in explored /\ HasOps(EntryOf[c])}

(***************************************************************************)
(* The type invariant.  temp_dd has no initial value for numbers and files:*)
(* it is never used without one.                                           *)
(***************************************************************************)
MappingTypeOK ==
    /\ checker_results \in [Entries -> [CheckerTypes -> Seq(CheckerResults)]]
    /\ explored \subseteq Entries
    /\ fmt \subseteq found
    /\ ~ wild
    /\ phase \in {"init", "handlers"}
    /\ \A i \in Drivers :
          /\ Checker[Ops(i)] \in OpsTypes
          /\ \A list \in ResultLists : all_device_drivers[i][list] \subseteq Mapped

\* The drivers that existed when c was given away.
Before(c) == {i \in Drivers : \E j \in Drivers : i <= j /\ EntryOf[Ops(j)] = EntryOf[c]}

Rivals(c) == IF Checker[c] = "dri_name" THEN {i \in Before(c) : Id[Ops(i)] = Id[c]} ELSE Before(c)

Nearest(c) == {i \in Rivals(c) : \A j \in Rivals(c) : Match(c, Ops(j)) <= Match(c, Ops(i))}

Has(i, list, c) == c \in all_device_drivers[i][list]

(***************************************************************************)
(* The name in a driver structure, a number or a file belongs to exactly   *)
(* the drivers whose operations structure shares most of its call chain    *)
(* with it, whatever order drivers and results were found in; only patterns*)
(* may be taken away again.  Device names (dev_name) and device types      *)
(* (dev_type), which are not given by nearness, are no part of this.       *)
(***************************************************************************)
GivenToNearest ==
    \A c \in Mapped : \A i \in Drivers :
        /\ Checker[c] = "dri_name" =>
              /\ Has(i, "name", c) => i \in Nearest(c)
              /\ i \in Nearest(c) => Has(i, "name", c) \/ (c \in fmt /\ Value[c] = "%s")
        /\ Checker[c] \in NumberTypes => (Has(i, "number", c) <=> i \in Nearest(c))
        /\ Checker[c] \in FileTypes => (Has(i, Checker[c], c) <=> i \in Nearest(c))

RegisteredWith(i) ==
    {c \in found : /\ Checker[c] = "dri_name"
                   /\ EntryOf[c] = EntryOf[Ops(i)]
                   /\ Id[c] = Id[Ops(i)]
                   /\ Chain[c] = Chain[Ops(i)]}

(***************************************************************************)
(* The name a driver is registered with, by the same calls as its          *)
(* operations structure, is one of its names in the end (or, when it is a  *)
(* pattern, some name is left), and the structure and all names that come  *)
(* from the driver's own entry have been read.                             *)
(***************************************************************************)
OwnNameIsUsed ==
    Done => \A i \in Drivers :
        LET names == all_device_drivers[i].name IN
        /\ Ops(i) \in fmt
        /\ \A c \in names : EntryOf[c] = EntryOf[Ops(i)] => c \in fmt
        /\ \A c \in RegisteredWith(i) : c \in names \/ (Value[c] = "%s" /\ names # {})
=============================================================================
