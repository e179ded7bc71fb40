--------------------------- MODULE StructureTypes ---------------------------
(***************************************************************************)
(* The C structures of a description: device_driver::update_structure_type *)
(* (lib/KnowledgeLib/device_driver.cpp) collects those that the arguments  *)
(* of a driver's commands lead to, syzlang::generate_dd (lib/KnowledgeLib/ *)
(* syzlang.cpp) writes a line per argument and a definition per structure. *)
(* In a definition, a pointer that may lead back to the structure is made  *)
(* optional (syzlang::is_opt_pointer): syzkaller must be able to end a     *)
(* list.                                                                   *)
(*                                                                         *)
(* A type is a base, a structure or an integer, under pointers and arrays; *)
(* of what is printed only the names of structures and their optional      *)
(* pointers are kept.  Pointers have an element type, as they do before    *)
(* LLVM 15.                                                                *)
(***************************************************************************)
EXTENDS Integers, Sequences, FiniteSets, Functions

CONSTANTS
    Structures,        \* the structure types of the module
    Integer,           \* any type that leads to no structure
    RealName,          \* per structure: its name up to the second dot
    Types,             \* the types of fields and arguments
    Bodies,            \* the ways the structures may be defined
    Commands           \* the sets of commands a driver may have

Type(wraps, base) == [wraps |-> wraps, base |-> base]

ASSUME TypeAssumption ==
    /\ Integer \notin Structures
    /\ IsFiniteSet(Structures) /\ IsFiniteSet(Types)
    /\ Types \subseteq [wraps : Seq({"ptr", "array"}), base : Structures \cup {Integer}]
    /\ DOMAIN RealName = Structures
    /\ \A body \in Bodies : body \in [Structures -> Seq(Types)]
    /\ Commands \subseteq SUBSET [in_types : SUBSET Types, out_types : SUBSET Types]

VARIABLES
    elements,          \* per structure: the types of its fields
    cmd,               \* the commands, each with the known types it copies in and out
    structures,        \* those update_structure_type() has found
    new_type_set,      \* those whose fields it has yet to look at
    ioctls,            \* the arguments that are described, with their direction
    definitions,       \* the structures that are described
    generated

vars == <<elements, cmd, structures, new_type_set, ioctls, definitions, generated>>

program == <<elements, cmd>>

-----------------------------------------------------------------------------
Fields(st) == Range(elements[st])

\* What get_real_type() leaves of a type, when it is a structure.
RealTypes(S) == {t.base : t \in S} \cap Structures

\* No node leads to itself, where edges[x] has the nodes next to x.
NoCycle(edges) ==
    LET N == Cardinality(DOMAIN edges)
        within[n \in 0 .. N] ==
            IF n = 0 THEN edges
            ELSE LET less == within[n - 1] IN
                 [x \in DOMAIN edges |-> less[x] \cup UNION {edges[y] : y \in less[x]}]
    IN \A x \in DOMAIN edges : x \notin within[N][x]

\* No structure contains itself.
Layered(body) ==
    NoCycle([st \in Structures |->
                RealTypes({t \in Range(body[st]) : "ptr" \notin Range(t.wraps)})])

\* All types that is_opt_pointer() may look at.
AllTypes ==
    UNION {{Type(SubSeq(t.wraps, k, Len(t.wraps)), t.base) : k \in 1 .. Len(t.wraps) + 1} :
              t \in Types}

\* What it looks into from a type: what a pointer or an array is of, or the fields.
Inner(body, t) ==
    IF t.wraps # <<>> THEN <<Type(Tail(t.wraps), t.base)>>
    ELSE IF t.base = Integer THEN <<>>
    ELSE body[t.base]

NamedLike(st, t) == t.wraps = <<>> /\ t.base # Integer /\ RealName[t.base] = RealName[st]

\* is_opt_pointer(): does a type t lead to a structure named like st?  checked is shared
\* by all calls for a field: what was looked at is not looked at again.  n is how deep
\* calls may get; as each has one more type in checked, they never get any deeper.
IsOptPointer(body, st) ==
    LET call[n \in 0 .. Cardinality(AllTypes)] ==
            [checked \in SUBSET AllTypes |-> [t \in AllTypes |->
               LET looked[k \in 0 .. Len(Inner(body, t))] ==
                       IF k = 0 THEN [opt |-> FALSE, checked |-> checked \cup {t}]
                       ELSE LET last == looked[k - 1] IN
                            IF last.opt THEN last
                            ELSE call[n - 1][last.checked][Inner(body, t)[k]]
               IN IF n = 0 \/ t \in checked THEN [opt |-> FALSE, checked |-> checked]
                  ELSE IF NamedLike(st, t) THEN [opt |-> TRUE, checked |-> checked \cup {t}]
                  ELSE looked[Len(Inner(body, t))]]]
    IN call[Cardinality(AllTypes)]

\* Fault: only a pointer straight to the structure itself is optional.
LeadsToItself(body, st, t) == t.base = st

LeadsBack(body, st, t) == IsOptPointer(body, st)[{}][t].opt

\* generate_type(): arrays hand opt on, the outermost pointer takes it.
Generated(t, opt) == [name |-> t.base, opt |-> opt /\ "ptr" \in Range(t.wraps)]

Definition(body, st) ==
    [name |-> st, fields |-> {Generated(t, LeadsBack(body, st, t)) : t \in Range(body[st])}]

Arguments(c) == c.in_types \cup c.out_types

\* The types of all commands: one may copy in what another copies out.
AllArguments == UNION {Arguments(c) : c \in cmd}

Direction(c, t) ==
    IF t \notin c.out_types THEN "in" ELSE IF t \notin c.in_types THEN "out" ELSE "inout"

\* generate_ioctl(), once for each argument of each command.
Line(c, t) == [type |-> Generated(t, FALSE), inout |-> Direction(c, t)]

\* Fault: the fields of what was found last are not looked at.
Nothing(S) == {}

\* The structures that fields of S have and nothing before had.
NewTypes(S) == RealTypes(UNION {Fields(st) : st \in S}) \ structures

-----------------------------------------------------------------------------
Init ==
    /\ elements \in Bodies
    /\ Layered(elements)
    /\ cmd \in Commands
    /\ structures = {}
    /\ new_type_set = {}
    /\ ioctls = {}
    /\ definitions = {}
    /\ generated = FALSE

\* device_driver::print() calls update_structure_type(): start from the arguments of all
\* commands, and from everything that an earlier call has found.
UpdateStructureType ==
    /\ ~ generated
    /\ new_type_set = {}
    /\ structures' = structures \cup RealTypes(AllArguments)
    /\ new_type_set' = structures'
    /\ UNCHANGED <<program, ioctls, definitions, generated>>

\* One turn of its loop.
CollectElements ==
    /\ new_type_set # {}
    /\ structures' = structures \cup NewTypes(new_type_set)
    /\ new_type_set' = NewTypes(new_type_set)
    /\ UNCHANGED <<program, ioctls, definitions, generated>>

\* generate_dd(): all drivers have been printed by now.
GenerateDD ==
    /\ ~ generated
    /\ structures # {} \/ RealTypes(AllArguments) = {}
    /\ new_type_set = {}
    /\ ioctls' = UNION {{Line(c, t) : t \in Arguments(c)} : c \in cmd}
    /\ definitions' = {Definition(elements, st) : st \in structures}
    /\ generated' = TRUE
    /\ UNCHANGED <<program, structures, new_type_set>>

Next == UpdateStructureType \/ CollectElements \/ GenerateDD

Spec == Init /\ [][Next]_vars

-----------------------------------------------------------------------------
Named(d) == {field.name : field \in d.fields} \cap Structures

Used == ({line.type.name : line \in ioctls} \cap Structures) \cup UNION {Named(d) : d \in definitions}

\* The structures of the fields that must be there.
Required(d) == {field.name : field \in {x \in d.fields : ~ x.opt}} \cap Structures

Needs == [st \in structures |-> UNION {Required(d) : d \in {x \in definitions : x.name = st}}]

(***************************************************************************)
(* A structure is defined if, and only if, an argument or a definition     *)
(* names it: the closure over fields is complete and no larger than needed,*)
(* through pointers, arrays and cycles.                                    *)
(***************************************************************************)
NamesAreDefined == generated => Used = {d.name : d \in definitions}

(***************************************************************************)
(* Values of every described structure can be finite: each cycle of        *)
(* structures goes through a pointer that may be left out, so the fields   *)
(* that must be there form no cycle.                                       *)
(***************************************************************************)
CyclesAreOptional == generated => NoCycle(Needs)
=============================================================================
