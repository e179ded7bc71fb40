---------------------------- MODULE Descriptions ----------------------------
(***************************************************************************)
(* The end of Manager::analysis() (lib/ManagerLib/Manager.cpp) and syzlang *)
(* (lib/KnowledgeLib/syzlang.cpp): when the analysis of module             *)
(* DriverDiscovery is done, the drivers that are kept are grouped by the   *)
(* init function they stem from, and one file of syscall descriptions is   *)
(* written per group, named after the source file of the init function.    *)
(*                                                                         *)
(* Of a file only the lines that declare, return and take resources are    *)
(* kept.  A driver without commands has its lines commented out.  Both     *)
(* orders, that of the groups and that of the drivers in a group, are      *)
(* orders of pointers (the std::sort sorts pointers, device_driver's       *)
(* operator< is not called) and hence a free choice.                       *)
(***************************************************************************)
EXTENDS DriverDiscovery

CONSTANTS
    SourceFile,   \* per function: the file name debug info gives
    NoFunction

ASSUME SourceFileAssumption ==
    /\ DOMAIN SourceFile = FunctionNames
    /\ NoFunction \notin FunctionNames

VARIABLES
    generating,  \* are the drivers grouped?
    groups,      \* init functions whose file is still to be written
    current,     \* the init function whose file is being generated
    pending,     \* its drivers that are still to be generated
    resources,   \* the names generate() has declared in the file so far
    text,        \* the lines of the file so far
    files        \* the files on disk, by name

genvars == <<generating, groups, current, pending, resources, text, files>>

-----------------------------------------------------------------------------
SourceFiles == {SourceFile[f] : f \in FunctionNames}

\* Fault: a nested driver goes to the file of the handler it was found from.
FinderOf(d) == entries[drivers[d].parent].name

\* The init function at the end of the way up from a driver.
RootOf(d) ==
    LET up[e \in DOMAIN entries] ==
            IF entries[e].parent = None THEN entries[e].name
            ELSE up[drivers[entries[e].parent].parent]
    IN up[drivers[d].parent]

Useful(d) == drivers[d].ioctl # None /\ drivers[d].cmd # {}

NoResource == <<>>

Unopened == <<"not_find_non_open_parent">>

\* generate_resource_name(): after the driver the command opens.
CmdResource(p, v) == <<"cmd", drivers[drivers[p].opens[v]].id, v>>

\* Fault: the resource of an opened driver is named as if it were opened by name.
ResourceOfItself(d) == <<"fd", drivers[d].id>>

\* get_resource().
Resource(d) ==
    LET above == drivers[d].non_open_parent IN
    IF drivers[d].finding \notin FileOps \/ ParentDriver(d) = None THEN <<"fd", drivers[d].id>>
    ELSE IF above = <<>> THEN Unopened
    ELSE CmdResource(above[1], above[2])

\* takes and gives are the resources of a call; a declaration takes its own.
Line(d, what, takes, gives, active) ==
    [driver |-> d, what |-> what, takes |-> takes, gives |-> gives, active |-> active]

Declaration(d) ==
    IF Resource(d) \in resources THEN {}
    ELSE {Line(d, "resource", Resource(d), NoResource, Useful(d))}

\* What is found at which call chain, always a comment.
Header(d) == {Line(d, "header", NoResource, NoResource, FALSE)}

\* Device file names that are missing or unknown are replaced in a useful driver.
Open(d) ==
    IF drivers[d].finding \in FileOps THEN {}
    ELSE {Line(d, "open", NoResource, Resource(d), Useful(d))}

\* generate_ioctl(): a command that opens a driver of no use returns it in a comment.
Ioctl(d, v) ==
    LET opened == drivers[d].opens[v] IN
    IF opened = None THEN {Line(d, "ioctl", Resource(d), NoResource, TRUE)}
    ELSE IF Useful(opened) THEN {Line(d, "ioctl", Resource(d), CmdResource(d, v), TRUE)}
    ELSE {Line(d, "ioctl", Resource(d), NoResource, TRUE),
          Line(d, "ioctl", Resource(d), CmdResource(d, v), FALSE)}

-----------------------------------------------------------------------------
GenInit ==
    /\ Init
    /\ generating = FALSE
    /\ groups = {}
    /\ current = NoFunction
    /\ pending = {}
    /\ resources = {}
    /\ text = {}
    /\ files = [n \in {} |-> {}]

\* temp_dds.
GroupDrivers ==
    /\ Done
    /\ ~ generating
    /\ generating' = TRUE
    /\ groups' = {RootOf(d) : d \in device_drivers}
    /\ UNCHANGED <<vars, current, pending, resources, text, files>>

\* generate(f, dds) starts.
Generate(f) ==
    /\ current = NoFunction
    /\ f \in groups
    /\ groups' = groups \ {f}
    /\ current' = f
    /\ pending' = {d \in device_drivers : RootOf(d) = f}
    /\ resources' = {}
    /\ text' = {}
    /\ UNCHANGED <<vars, generating, files>>

GenerateDD(d) ==
    /\ d \in pending
    /\ pending' = pending \ {d}
    /\ resources' = resources \cup {Resource(d)}
    /\ text' = text \cup Header(d) \cup Declaration(d) \cup Open(d)
                    \cup UNION {Ioctl(d, v) : v \in drivers[d].cmd}
    /\ UNCHANGED <<vars, generating, groups, current, files>>

\* All drivers of the group are generated: the file is opened, truncated and written.
WriteFile ==
    /\ current # NoFunction
    /\ pending = {}
    /\ files' = [n \in DOMAIN files \cup {SourceFile[current]} |->
                    IF n = SourceFile[current] THEN text ELSE files[n]]
    /\ current' = NoFunction
    /\ UNCHANGED <<vars, generating, groups, pending, resources, text>>

GenNext ==
    \/ Next /\ UNCHANGED genvars
    \/ GroupDrivers
    \/ \E f \in groups : Generate(f)
    \/ \E d \in pending : GenerateDD(d)
    \/ WriteFile

\* The same thread goes on.
GenSpec == GenInit /\ [][GenNext]_<<vars, genvars>> /\ WF_<<vars, genvars>>(GenNext)

Written == generating /\ groups = {} /\ current = NoFunction

-----------------------------------------------------------------------------
Names == {NoResource, Unopened} \cup ({"fd"} \X Seq(Lines)) \cup ({"cmd"} \X Seq(Lines) \X Commands)

TextLine == [driver : Nat, what : {"header", "resource", "open", "ioctl"},
             takes : Names, gives : Names, active : BOOLEAN]

(***************************************************************************)
(* The type invariant, that of the discovery included.                     *)
(***************************************************************************)
GenTypeOK ==
    /\ TypeOK
    /\ generating \in BOOLEAN
    /\ groups \subseteq InitFunctions
    /\ current \in InitFunctions \cup {NoFunction}
    /\ pending \subseteq device_drivers
    /\ resources \subseteq Names
    /\ text \subseteq TextLine
    /\ DOMAIN files \subseteq SourceFiles
    /\ \A n \in DOMAIN files : files[n] \subseteq TextLine

Active(lines) == {l \in lines : l.active}

Declared(lines) == {l.takes : l \in {m \in Active(lines) : m.what = "resource"}}

Given(lines) == {l.gives : l \in Active(lines)}

Taken(lines) == {l.takes : l \in {m \in Active(lines) : m.what = "ioctl"}}

DriversIn(lines) == {l.driver : l \in lines}

\* A driver syzkaller can use: it has commands, and some call can open it.
Openable(d) ==
    /\ Useful(d)
    /\ drivers[d].finding \in FileOps =>
          ParentDriver(d) # None /\ drivers[d].non_open_parent # <<>>

\* The command of the function a finding starts in that is told to open its driver.
Tells(f) ==
    IF f \in FileOps /\ Cmds[FoundIn[f]] \cap Through[f] # {}
    THEN {Smallest(Cmds[FoundIn[f]] \cap Through[f])} ELSE {}

(***************************************************************************)
(* What the ids of drivers have to tell for merging drivers to be right.   *)
(* An id is made of call chains as debug info prints them, path, line and  *)
(* function or, when the kernel's version is given, path and line alone:   *)
(* chains that are printed alike start in one function, and if they end at *)
(* one operations structure they are of one kind and are reached by one    *)
(* command.  The code does not check it; these are not assumed of every    *)
(* program, but by the theorems that need them.                            *)
(***************************************************************************)
ChainsNameFunctions ==
    \A f, g \in Findings : SourceLines[f] = SourceLines[g] => FoundIn[f] = FoundIn[g]

ChainsNameCommands ==
    \A f, g \in Findings : SourceLines[f] = SourceLines[g] /\ OpsName[f] = OpsName[g] =>
        (f \in FileOps <=> g \in FileOps) /\ Tells(f) = Tells(g)

(***************************************************************************)
(* A file all of whose drivers have commands and can be opened is closed:  *)
(* every resource that a call takes or returns is declared, and every one  *)
(* that is taken is returned by a call of the same file, although drivers  *)
(* were merged, grouped by their init function and told to commands of     *)
(* parents that are not written themselves.                                *)
(***************************************************************************)
GoodFilesAreClosed ==
    \A n \in DOMAIN files :
        (\A d \in DriversIn(files[n]) : Openable(d)) =>
            /\ Taken(files[n]) \subseteq Declared(files[n]) \cap Given(files[n])
            /\ Given(files[n]) \subseteq Declared(files[n]) \cup {NoResource}

(***************************************************************************)
(* A driver that is opened by a command comes in the file in which the     *)
(* command is, that of the driver it was found from.                       *)
(***************************************************************************)
OpenedInTheSameFile ==
    \A n \in DOMAIN files : \A d \in DriversIn(files[n]) :
        ParentDriver(d) # None =>
            \E p \in DriversIn(files[n]) : drivers[p].id = drivers[ParentDriver(d)].id

(***************************************************************************)
(* Manager.cpp outputs the descriptions "based on source code file": when  *)
(* the program ends every driver it has kept is described in some file.    *)
(***************************************************************************)
EveryDriverIsDescribed ==
    Written => \A d \in device_drivers : \E n \in DOMAIN files : d \in DriversIn(files[n])

(***************************************************************************)
(* The README says of the generated files that they "can directly used in  *)
(* syzkaller": every resource a call takes is declared in its file.        *)
(***************************************************************************)
TakenAreDeclared ==
    \A n \in DOMAIN files : Taken(files[n]) \subseteq Declared(files[n])
=============================================================================
