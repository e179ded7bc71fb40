-------------------------- MODULE MCStructureTypes --------------------------
(***************************************************************************)
(* All programs of three structures, the first two of which the compiler   *)
(* has as copies of one (struct.list and struct.list.7, say).  The first   *)
(* has two fields, the others one; a field is a structure, a pointer to a  *)
(* structure, a pointer to a pointer, or an array of pointers.  The driver *)
(* has no command, one that copies some types in, out or both, or two that *)
(* share a type, of which one copies in and the other out.                 *)
(***************************************************************************)
EXTENDS StructureTypes, TLC

CONSTANTS list, listcopy, node

MCStructures == {list, listcopy, node}
MCRealName == list :> list @@ listcopy :> list @@ node :> node
MCTypes ==
    {Type(<<>>, Integer)} \cup {Type(<<>>, st) : st \in MCStructures}
    \cup {Type(<<"ptr">>, st) : st \in MCStructures}
    \cup {Type(<<"ptr", "ptr">>, node), Type(<<"array", "ptr">>, list), Type(<<"array">>, node)}
Pairs == {<<first, second>> : first \in MCTypes, second \in {t \in MCTypes : t.wraps # <<>>}}
Singles == {<<t>> : t \in MCTypes}
ArgumentTypes == {Type(<<>>, Integer), Type(<<>>, listcopy), Type(<<"ptr">>, list), Type(<<"ptr", "ptr">>, node)}
Command(ins, outs) == [in_types |-> ins, out_types |-> outs]
MCCommands ==
    {{}, {Command({}, {})}}
    \cup {{Command({s}, outs)} : s \in ArgumentTypes, outs \in {{}} \cup {{t} : t \in ArgumentTypes}}
    \cup {{Command({}, {s}), Command({s, t}, {})} : s, t \in ArgumentTypes}
    \cup {{Command({s}, ArgumentTypes), Command({t}, {s})} : s, t \in ArgumentTypes}
MCBodies == {list :> a @@ listcopy :> b @@ node :> c : a \in Pairs, b \in Singles, c \in Singles}
=============================================================================
