------------------------ MODULE DescriptionsProofs ------------------------
(***************************************************************************)
(* Proofs about modules DriverDiscovery and Descriptions, for every program*)
(* and every order.  First those about DriverDiscovery: its type invariant *)
(* and its safety invariants.  Then those about Descriptions, which extends*)
(* it: the type invariant, and what drivers that are merged by their ids   *)
(* have in common, which makes the files complete.                         *)
(***************************************************************************)
EXTENDS Descriptions, FiniteSetTheorems, SequenceTheorems, NaturalsInduction,
        WellFoundedInduction, TLAPS

-----------------------------------------------------------------------------
(***************************************************************************)
(* The inductive invariant.                                                *)
(***************************************************************************)
Drivers == DOMAIN drivers

\* The drivers of the pass that is running, and those its loop has yet to visit.
OfPass == {results[i] : i \in DOMAIN results}

Waiting == {todo[i] : i \in DOMAIN todo}

\* collect_info() has yet to come to the driver.
Uninformed(d) ==
    \/ loop \in {"init", "dedup"}
    \/ d \in OfPass /\ loop = "keep"
    \/ d \in OfPass /\ loop = "info" /\ d \in Waiting

\* collect_cmd_and_type() has.
Uncommanded(d) ==
    \/ Uninformed(d)
    \/ d \in OfPass /\ loop = "info"
    \/ d \in OfPass /\ loop = "cmd" /\ d \in Waiting

\* collect_entry_function() has.
Unentered(d) ==
    \/ Uncommanded(d)
    \/ d \in OfPass /\ loop = "cmd"
    \/ d \in OfPass /\ loop = "entry" /\ d \in Waiting

\* A loop runs over the drivers of its pass, each of them once.
PassInv ==
    /\ \A i, j \in DOMAIN results : results[i] = results[j] => i = j
    /\ \A i, j \in DOMAIN todo : todo[i] = todo[j] => i = j
    /\ Waiting \subseteq OfPass
    /\ loop = "init" => results = <<>> /\ todo = <<>> /\ device_drivers = {} /\ entry_set = {}
    /\ loop = "pick" => todo = <<>>
    /\ loop = "dedup" => OfPass = Drivers /\ entry_set = {}
    /\ loop # "init" => todo_init = {}

\* The entry function of a driver's handler, and what there is to find from an entry.
EntryOf(d) == NewIoctlEntry(Handler(d), d)

FoundFrom(e) == Found(entries[e])

\* A driver and the entry function of its handler point at each other, and what waits
\* to be explored is such an entry, not within a loop of names.
EntryInv ==
    /\ \A d \in Drivers : drivers[d].ioctl # None =>
          Handler(d) # NoHandler /\ entries[drivers[d].ioctl] = EntryOf(d)
    /\ \A e \in DOMAIN entries : entries[e].parent = None => entries[e].handlers = <<>>
    /\ \A e \in DOMAIN entries :
          entries[e].parent # None => drivers[entries[e].parent].ioctl = e
    /\ \A e \in entry_set : entries[e].parent # None /\ ~ WithinLoop(e)

\* What there is to find from entry e has been found.
Explored(e) ==
    \A f \in FoundFrom(e) :
        \E x \in Drivers : drivers[x].parent = e /\ drivers[x].finding = f

\* A driver was found by exploring its parent entry, in an earlier pass.
BornOK(d) ==
    /\ \A e \in DOMAIN entries : drivers[d].parent = e =>
          drivers[d].finding \in FoundFrom(e) /\ Explored(e) /\ ~ WithinLoop(e)
    /\ drivers[d].id # <<>>

BirthInv ==
    /\ \A d \in Drivers : BornOK(d)
    /\ loop # "pick" => \A d \in Drivers : ParentDriver(d) # None => ParentDriver(d) \notin OfPass

\* What collect_info() says of the command that opens the driver.
InfoOf(d) ==
    IF OpenedBy(d) = {} THEN <<>> ELSE <<ParentDriver(d), Smallest(OpenedBy(d))>>

\* Before its step of a pass a driver has nothing of it, afterwards it has all of it.
InfoOK(d) ==
    /\ Uninformed(d) => drivers[d].ioctl = None /\ drivers[d].non_open_parent = <<>>
    /\ drivers[d].non_open_parent \in {<<>>, InfoOf(d)}
    /\ drivers[d].ioctl # None => drivers[d].non_open_parent = InfoOf(d)
    /\ Uncommanded(d) => drivers[d].cmd = {}
    /\ ~ Uncommanded(d) => drivers[d].cmd = CommandsOf(d)

InfoInv == \A d \in Drivers : InfoOK(d)

\* Driver k stands for driver d in device_drivers.
Represents(k, d) ==
    /\ OpsOf(k) = OpsOf(d)
    /\ ParentDriver(k) = None <=> ParentDriver(d) = None
    /\ ParentDriver(d) # None => drivers[k].id = drivers[d].id

\* The hash of a kept driver tells what it stands for.
HashOK(k) ==
    /\ drivers[k].id_real_hash # <<>>
    /\ drivers[k].id_real_hash[1] = IF ParentDriver(k) = None THEN <<>> ELSE drivers[k].id
    /\ drivers[k].id_real_hash[2] = OpsOf(k)

\* The hash of the driver is yet to be compared.
Undecided(d) == loop = "init" \/ (loop \in {"dedup", "keep"} /\ d \in Waiting)

Kept(d) == \E k \in device_drivers : Represents(k, d)

KeptInv ==
    /\ \A k \in device_drivers : HashOK(k)
    /\ \A d \in Drivers : Undecided(d) \/ Kept(d)

\* The handler of a driver has an entry, or will have one.
Served(d) == Handler(d) = NoHandler \/ Uninformed(d) \/ drivers[d].ioctl # None

\* Some driver of the same operations structure is served.
OpsServed(d) == \E k \in Drivers : OpsOf(k) = OpsOf(d) /\ Served(k)

\* The entry of a driver is explored, or will be, or is within a loop of names.
Entered(d, e) == Unentered(d) \/ WithinLoop(e) \/ e \in entry_set \/ Explored(e)

ServedInv ==
    /\ \A d \in Drivers : OpsServed(d)
    /\ \A d \in Drivers : \A e \in DOMAIN entries : drivers[d].ioctl = e => Entered(d, e)

\* So are the names above an entry.
ExploredName(h) ==
    \E a \in DOMAIN entries : entries[a].parent # None /\ entries[a].name = h /\ Explored(a)

AboveInv ==
    \A e \in DOMAIN entries : \A i \in 1 .. Len(entries[e].handlers) - 1 :
        \A h \in FunctionNames : entries[e].handlers[i] = h => ExploredName(h)

-----------------------------------------------------------------------------
(***************************************************************************)
(* Sequences.                                                              *)
(***************************************************************************)

\* A longer sequence has the old positions and the new ones.
LEMMA Positions ==
    ASSUME NEW m \in Nat, NEW n \in Nat, NEW i \in 1 .. (m + n)
    PROVE  i \in 1 .. m \/ \E j \in 1 .. n : i = m + j
  <1>1. CASE i <= m
    BY <1>1
  <1>2. CASE ~ (i <= m)
    <2>1. i - m \in 1 .. n /\ i = m + (i - m)
      BY <1>2
    <2>2. QED
      BY <2>1
  <1>3. QED
    BY <1>1, <1>2

\* The rest of a sequence of distinct elements is all but its head.
LEMMA TailOfDistinct ==
    ASSUME NEW S, NEW s, s \in Seq(S), s # <<>>,
           \A i, j \in DOMAIN s : s[i] = s[j] => i = j
    PROVE  /\ Head(s) \in S
           /\ Tail(s) \in Seq(S)
           /\ Head(s) \in {s[i] : i \in DOMAIN s}
           /\ \A i, j \in DOMAIN Tail(s) : Tail(s)[i] = Tail(s)[j] => i = j
           /\ {Tail(s)[i] : i \in DOMAIN Tail(s)} = {s[i] : i \in DOMAIN s} \ {Head(s)}
  <1> DEFINE t == Tail(s)  n == Len(s)
  <1>1. n \in Nat /\ n > 0 /\ DOMAIN s = 1 .. n
    OBVIOUS
  <1>2. /\ Head(s) \in S /\ t \in Seq(S) /\ Len(t) = n - 1
        /\ \A i \in 1 .. n - 1 : t[i] = s[i + 1]
    BY HeadTailProperties
  <1>3. DOMAIN t = 1 .. n - 1
    BY <1>2, <1>1
  <1>4. Head(s) = s[1]
    BY <1>1
  <1> HIDE DEF t, n
  <1>5. \A i, j \in DOMAIN t : t[i] = t[j] => i = j
    <2>1. SUFFICES ASSUME NEW i \in 1 .. n - 1, NEW j \in 1 .. n - 1, t[i] = t[j]
                   PROVE  i = j
      BY <1>3
    <2>2. s[i + 1] = s[j + 1] /\ i + 1 \in 1 .. n /\ j + 1 \in 1 .. n
      BY <2>1, <1>1, <1>2
    <2>3. i + 1 = j + 1
      BY <2>2, <1>1
    <2>4. QED
      BY <2>3, <1>1
  <1>6. {t[i] : i \in DOMAIN t} = {s[i] : i \in DOMAIN s} \ {Head(s)}
    <2>1. ASSUME NEW i \in DOMAIN t
          PROVE  t[i] \in {s[j] : j \in DOMAIN s} \ {Head(s)}
      <3>1. t[i] = s[i + 1] /\ i + 1 \in 1 .. n /\ i + 1 # 1 /\ 1 \in 1 .. n
        BY <1>1, <1>2, <1>3
      <3>2. s[i + 1] # s[1]
        BY <3>1, <1>1
      <3>3. QED
        BY <3>1, <3>2, <1>1, <1>4
    <2>2. ASSUME NEW i \in DOMAIN s, s[i] # Head(s)
          PROVE  s[i] \in {t[j] : j \in DOMAIN t}
      <3>1. i # 1
        BY <2>2, <1>4
      <3>2. i - 1 \in 1 .. n - 1 /\ t[i - 1] = s[(i - 1) + 1] /\ (i - 1) + 1 = i
        BY <3>1, <1>1, <1>2
      <3>3. QED
        BY <3>2, <1>3
    <2>3. QED
      BY <2>1, <2>2
  <1>7. Head(s) \in {s[i] : i \in DOMAIN s}
    BY <1>1, <1>4
  <1>8. QED
    BY <1>2, <1>5, <1>6, <1>7 DEF t

\* A set of naturals that is not empty has a least element.
LEMMA SmallestIsIn ==
    ASSUME NEW S \in SUBSET Nat, S # {}
    PROVE  Smallest(S) \in S
  <1> DEFINE R == OpToRel(<, Nat)
  <1>1. IsWellFoundedOn(R, Nat)
    BY NatLessThanWellFounded
  <1>2. \A y, x \in Nat : y < x => <<y, x>> \in R
    BY DEF OpToRel
  <1> HIDE DEF R
  <1>3. PICK x \in S : \A y \in S : ~ (<<y, x>> \in R)
    BY <1>1, WFMin
  <1>4. ASSUME NEW y \in S PROVE x <= y
    <2>1. ~ (<<y, x>> \in R) /\ x \in Nat /\ y \in Nat
      BY <1>3
    <2>2. ~ (y < x)
      BY <2>1, <1>2
    <2>3. QED
      BY <2>1, <2>2
  <1>5. QED
    BY <1>4 DEF Smallest

-----------------------------------------------------------------------------
(***************************************************************************)
(* Objects.                                                                *)
(***************************************************************************)

\* A new driver is one, of what it is made from.
LEMMA NewDriverIsDriver ==
    ASSUME NEW f \in Findings, NEW e \in Nat, NEW id \in Seq(Lines)
    PROVE  /\ NewDriver(f, e, id) \in Driver
           /\ NewDriver(f, e, id).finding = f
           /\ NewDriver(f, e, id).parent = e
           /\ NewDriver(f, e, id).id # <<>>
           /\ NewDriver(f, e, id).ioctl = None
           /\ NewDriver(f, e, id).cmd = {}
           /\ \A v \in Commands : NewDriver(f, e, id).opens[v] = None
           /\ NewDriver(f, e, id).non_open_parent = <<>>
  <1> DEFINE line == SourceLines[f]
             ids == Append(id, line)
             none == [v \in Commands |-> None]
  <1>1. line \in Lines
    BY DEF Lines
  <1> HIDE DEF line
  <1>2. ids \in Seq(Lines) /\ ids # <<>>
    BY <1>1, AppendProperties
  <1>3. none \in [Commands -> Nat] /\ \A v \in Commands : none[v] = None
    BY DEF None
  <1>4. NewDriver(f, e, id) =
          [finding |-> f, parent |-> e, id |-> ids, id_real_hash |-> <<>>, ioctl |-> None,
           cmd |-> {}, opens |-> none, non_open_parent |-> <<>>]
    BY DEF NewDriver, line
  <1> HIDE DEF ids, none
  <1>5. None \in Nat
    BY DEF None
  <1>6. QED
    BY <1>2, <1>3, <1>4, <1>5 DEF Driver

\* The fields of a driver after each kind of assignment.
LEMMA WithHash ==
    ASSUME NEW r \in Driver, NEW h
    PROVE  LET q == [r EXCEPT !.id_real_hash = h] IN
           /\ h \in Seq(Lines) \X OpsNames \X SUBSET FunctionNames => q \in Driver
           /\ q.finding = r.finding /\ q.parent = r.parent /\ q.id = r.id
           /\ q.id_real_hash = h
           /\ q.ioctl = r.ioctl /\ q.cmd = r.cmd /\ q.opens = r.opens
           /\ q.non_open_parent = r.non_open_parent
  BY DEF Driver

\* The same when its commands are set,
LEMMA WithCmd ==
    ASSUME NEW r \in Driver, NEW c \in SUBSET Commands
    PROVE  LET q == [r EXCEPT !.cmd = c] IN
           /\ q \in Driver
           /\ q.finding = r.finding /\ q.parent = r.parent /\ q.id = r.id
           /\ q.id_real_hash = r.id_real_hash
           /\ q.ioctl = r.ioctl /\ q.cmd = c /\ q.opens = r.opens
           /\ q.non_open_parent = r.non_open_parent
  BY DEF Driver

\* and when a command is told what it opens.
LEMMA WithOpens ==
    ASSUME NEW r \in Driver, NEW o \in [Commands -> Nat]
    PROVE  LET q == [r EXCEPT !.opens = o] IN
           /\ q \in Driver
           /\ q.finding = r.finding /\ q.parent = r.parent /\ q.id = r.id
           /\ q.id_real_hash = r.id_real_hash
           /\ q.ioctl = r.ioctl /\ q.cmd = r.cmd /\ q.opens = o
           /\ q.non_open_parent = r.non_open_parent
  BY DEF Driver

\* Commands are numbers, those of every function among them.
LEMMA CommandFacts ==
    Commands \subseteq Nat /\ \A f \in FunctionNames : Cmds[f] \subseteq Commands
  BY FunctionAssumption DEF Commands

\* What a well-typed state says of an entry.
LEMMA EntryFacts ==
    ASSUME TypeOK, NEW e \in DOMAIN entries
    PROVE  /\ e \in Nat /\ e # None
           /\ entries[e] \in Entry
           /\ entries[e].name \in FunctionNames
           /\ entries[e].parent \in Nat
           /\ entries[e].parent # None => entries[e].parent \in Drivers
           /\ entries[e].handlers \in Seq(FunctionNames)
           /\ entries[e].function_pointers \subseteq FunctionNames
  <1>1. entries \in Seq(Entry) /\ entries[e].parent \in {None} \cup DOMAIN drivers
    BY DEF TypeOK
  <1>2. e \in 1 .. Len(entries) /\ Len(entries) \in Nat /\ entries[e] \in Entry
    BY <1>1
  <1>3. e \in Nat /\ e # None
    BY <1>2 DEF None
  <1>4. QED
    BY <1>1, <1>2, <1>3 DEF Entry, Drivers

\* What it says of a driver.
LEMMA DriverFacts ==
    ASSUME TypeOK, NEW d \in Drivers
    PROVE  /\ d \in Nat /\ d # None
           /\ drivers[d] \in Driver
           /\ drivers[d].finding \in Findings
           /\ drivers[d].parent \in DOMAIN entries
           /\ drivers[d].id \in Seq(Lines)
           /\ drivers[d].ioctl \in Nat
           /\ drivers[d].ioctl # None => drivers[d].ioctl \in DOMAIN entries
           /\ drivers[d].cmd \subseteq Commands
           /\ drivers[d].opens \in [Commands -> Nat]
           /\ drivers[d].non_open_parent \in {<<>>} \cup (Nat \X Commands)
           /\ DriverOK(d)
           /\ OpsOf(d) \in OpsNames
           /\ Handler(d) \in FunctionNames \cup {NoHandler}
           /\ ParentDriver(d) \in Nat
           /\ ParentDriver(d) # None => ParentDriver(d) \in Drivers
  <1>1. drivers \in Seq(Driver) /\ DriverOK(d)
    BY DEF TypeOK, Drivers
  <1>2. d \in 1 .. Len(drivers) /\ Len(drivers) \in Nat /\ drivers[d] \in Driver
    BY <1>1 DEF Drivers
  <1>3. d \in Nat /\ d # None
    BY <1>2 DEF None
  <1>4. /\ drivers[d].finding \in Findings
        /\ drivers[d].id \in Seq(Lines)
        /\ drivers[d].ioctl \in Nat
        /\ drivers[d].cmd \subseteq Commands
        /\ drivers[d].opens \in [Commands -> Nat]
        /\ drivers[d].non_open_parent \in {<<>>} \cup (Nat \X Commands)
    BY <1>2 DEF Driver
  <1>5. /\ drivers[d].parent \in DOMAIN entries
        /\ drivers[d].ioctl # None => drivers[d].ioctl \in DOMAIN entries
    BY <1>1 DEF DriverOK
  <1>6. OpsOf(d) \in OpsNames
    BY <1>4 DEF OpsOf, OpsNames
  <1>7. Handler(d) \in FunctionNames \cup {NoHandler}
    BY <1>6, FunctionAssumption DEF Handler
  <1>8. ParentDriver(d) \in Nat /\ (ParentDriver(d) # None => ParentDriver(d) \in Drivers)
    BY <1>5, EntryFacts DEF ParentDriver
  <1>9. QED
    BY <1>1, <1>2, <1>3, <1>4, <1>5, <1>6, <1>7, <1>8

\* The entry made for the handler of a driver is an entry.
LEMMA EntryOfIsEntry ==
    ASSUME TypeOK, NEW d \in Drivers, Handler(d) # NoHandler
    PROVE  /\ EntryOf(d) \in Entry
           /\ EntryOf(d).name = Handler(d)
           /\ EntryOf(d).parent = d
           /\ EntryOf(d).handlers =
                 Append(entries[drivers[d].parent].handlers, Handler(d))
  <1> DEFINE above == entries[drivers[d].parent]
             h == Handler(d)
             hs == Append(above.handlers, h)
             ps == above.function_pointers \cup Pointers[h]
  <1>1. d \in Nat /\ h \in FunctionNames
    BY DriverFacts
  <1>2. above.handlers \in Seq(FunctionNames) /\ above.function_pointers \subseteq FunctionNames
    BY DriverFacts, EntryFacts
  <1> HIDE DEF above, h
  <1>3. hs \in Seq(FunctionNames)
    BY <1>1, <1>2, AppendProperties
  <1>4. ps \subseteq FunctionNames
    BY <1>1, <1>2, FunctionAssumption
  <1>5. EntryOf(d) = [name |-> h, parent |-> d, handlers |-> hs, function_pointers |-> ps]
    BY DEF EntryOf, NewIoctlEntry, above, h
  <1> HIDE DEF hs, ps
  <1>6. /\ EntryOf(d) \in Entry /\ EntryOf(d).name = h
        /\ EntryOf(d).parent = d /\ EntryOf(d).handlers = hs
    BY <1>1, <1>3, <1>4, <1>5 DEF Entry
  <1>7. QED
    BY <1>6 DEF h, hs, above

\* So is the entry of an init function.
LEMMA NewInitEntryIsEntry ==
    ASSUME NEW f \in InitFunctions
    PROVE  /\ NewInitEntry(f) \in Entry
           /\ NewInitEntry(f).parent = None
           /\ NewInitEntry(f).handlers = <<>>
  <1>1. f \in FunctionNames /\ Pointers[f] \subseteq FunctionNames
    BY FunctionAssumption
  <1>2. None \in Nat /\ <<>> \in Seq(FunctionNames)
    BY DEF None
  <1>3. QED
    BY <1>1, <1>2 DEF NewInitEntry, Entry

\* A walk is a sequence of what there is to find, each finding at one position.
LEMMA WalkFacts ==
    ASSUME NEW ef, NEW s \in Walks(ef)
    PROVE  \E n \in Nat :
              /\ s \in [1 .. n -> Findings]
              /\ DOMAIN s = 1 .. n
              /\ \A i \in 1 .. n : s[i] \in Found(ef)
              /\ \A f \in Found(ef) : \E i \in 1 .. n : s[i] = f
  <1> DEFINE n == Cardinality(Found(ef))
  <1>1. Found(ef) \in SUBSET Findings
    BY DEF Found
  <1>2. IsFiniteSet(Found(ef))
    BY <1>1, FindingAssumption, FS_Subset
  <1>3. n \in Nat
    BY <1>2, FS_CardinalityType
  <1>4. s \in [1 .. n -> Found(ef)] /\ IsWalk(s, ef)
    BY DEF Walks
  <1> HIDE DEF n
  <1>5. {s[i] : i \in DOMAIN s} = Found(ef)
    BY <1>4 DEF IsWalk
  <1>6. DOMAIN s = 1 .. n /\ s \in [1 .. n -> Findings]
    BY <1>1, <1>4
  <1>7. \A f \in Found(ef) : \E i \in 1 .. n : s[i] = f
    BY <1>5, <1>6
  <1>8. QED
    BY <1>3, <1>4, <1>6, <1>7

-----------------------------------------------------------------------------
(***************************************************************************)
(* What no step changes.                                                   *)
(***************************************************************************)

\* Objects are never destroyed; a driver stays what it was found as, an entry entirely,
\* and no command is forgotten.
Grows ==
    /\ DOMAIN entries \subseteq DOMAIN entries'
    /\ \A e \in DOMAIN entries : entries'[e] = entries[e]
    /\ Drivers \subseteq DOMAIN drivers'
    /\ \A d \in Drivers :
          /\ drivers'[d].finding = drivers[d].finding
          /\ drivers'[d].parent = drivers[d].parent
          /\ drivers'[d].id = drivers[d].id
          /\ drivers[d].cmd \subseteq drivers'[d].cmd

\* What is told of a driver by how it was found stays.
LEMMA SameDriver ==
    ASSUME TypeOK, Grows, NEW d \in Drivers
    PROVE  /\ d \in Drivers'
           /\ OpsOf(d)' = OpsOf(d)
           /\ Handler(d)' = Handler(d)
           /\ ParentDriver(d)' = ParentDriver(d)
           /\ EntryOf(d)' = EntryOf(d)
  <1>1. drivers[d].parent \in DOMAIN entries
    BY DriverFacts
  <1>2. /\ d \in DOMAIN drivers' /\ drivers'[d].finding = drivers[d].finding
        /\ drivers'[d].parent = drivers[d].parent
        /\ entries'[drivers[d].parent] = entries[drivers[d].parent]
    BY <1>1 DEF Grows
  <1>3. OpsOf(d)' = OpsOf(d) /\ d \in Drivers'
    BY <1>2 DEF OpsOf, Drivers
  <1>4. Handler(d)' = Handler(d)
    BY <1>3 DEF Handler
  <1>5. ParentDriver(d)' = ParentDriver(d)
    BY <1>2 DEF ParentDriver
  <1>6. EntryOf(d)' = EntryOf(d)
    BY <1>2, <1>4 DEF EntryOf, NewIoctlEntry
  <1>7. QED
    BY <1>3, <1>4, <1>5, <1>6

\* What has been found from an entry stays found.
LEMMA SameEntry ==
    ASSUME TypeOK, Grows, NEW e \in DOMAIN entries
    PROVE  /\ e \in DOMAIN entries'
           /\ entries'[e] = entries[e]
           /\ WithinLoop(e)' <=> WithinLoop(e)
           /\ Explored(e) => Explored(e)'
           /\ FoundFrom(e)' = FoundFrom(e)
  <1>1. e \in DOMAIN entries' /\ entries'[e] = entries[e]
    BY DEF Grows
  <1>2. WithinLoop(e)' <=> WithinLoop(e)
    BY <1>1 DEF WithinLoop
  <1>3. FoundFrom(e)' = FoundFrom(e)
    BY <1>1 DEF FoundFrom, Found
  <1>4. ASSUME Explored(e) PROVE Explored(e)'
    <2>1. SUFFICES ASSUME NEW f \in FoundFrom(e)'
                   PROVE  \E x \in Drivers' : drivers'[x].parent = e /\ drivers'[x].finding = f
      BY DEF Explored
    <2>2. PICK x \in Drivers : drivers[x].parent = e /\ drivers[x].finding = f
      BY <1>3, <1>4, <2>1 DEF Explored
    <2>3. x \in Drivers' /\ drivers'[x].parent = e /\ drivers'[x].finding = f
      BY <2>2 DEF Grows, Drivers
    <2>4. QED
      BY <2>3
  <1>5. QED
    BY <1>1, <1>2, <1>3, <1>4

\* A driver that stands for another goes on doing so.
LEMMA SameRepresents ==
    ASSUME TypeOK, Grows, NEW k \in Drivers, NEW d \in Drivers, Represents(k, d)
    PROVE  Represents(k, d)'
  <1>1. /\ OpsOf(k)' = OpsOf(k) /\ ParentDriver(k)' = ParentDriver(k)
        /\ OpsOf(d)' = OpsOf(d) /\ ParentDriver(d)' = ParentDriver(d)
    BY SameDriver
  <1>2. drivers'[k].id = drivers[k].id /\ drivers'[d].id = drivers[d].id
    BY DEF Grows
  <1>3. QED
    BY <1>1, <1>2 DEF Represents

\* A name that has been explored stays so.
LEMMA SameExploredName ==
    ASSUME TypeOK, Grows, NEW h, ExploredName(h)
    PROVE  ExploredName(h)'
  <1>1. PICK a \in DOMAIN entries :
            entries[a].parent # None /\ entries[a].name = h /\ Explored(a)
    BY DEF ExploredName
  <1>2. a \in DOMAIN entries' /\ entries'[a] = entries[a] /\ Explored(a)'
    BY <1>1, SameEntry
  <1>3. entries'[a].parent # None /\ entries'[a].name = h
    BY <1>1, <1>2
  <1>4. QED
    BY <1>2, <1>3 DEF ExploredName

\* A driver whose pointers do not change keeps pointing at what exists.
LEMMA SameDriverOK ==
    ASSUME TypeOK, Grows, NEW d \in Drivers,
           drivers'[d].ioctl = drivers[d].ioctl,
           drivers'[d].opens = drivers[d].opens,
           drivers'[d].non_open_parent = drivers[d].non_open_parent
    PROVE  DriverOK(d)'
  <1> DEFINE a == drivers[d].non_open_parent
  <1>1. DriverOK(d) /\ drivers'[d].parent = drivers[d].parent /\ drivers[d].cmd \subseteq drivers'[d].cmd
    BY DriverFacts DEF Grows
  <1>2. Drivers \subseteq DOMAIN drivers' /\ DOMAIN entries \subseteq DOMAIN entries'
    BY DEF Grows
  <1>3. a # <<>> => a[1] \in DOMAIN drivers' /\ a[2] \in drivers'[a[1]].cmd
    <2>1. a # <<>> => a[1] \in Drivers /\ a[2] \in drivers[a[1]].cmd
      BY <1>1 DEF DriverOK, Drivers
    <2> HIDE DEF a
    <2>2. a[1] \in Drivers => drivers[a[1]].cmd \subseteq drivers'[a[1]].cmd
      BY DEF Grows
    <2>3. QED
      BY <2>1, <2>2, <1>2
  <1>4. \A v \in Commands : drivers[d].opens[v] # None =>
            v \in drivers'[d].cmd /\ drivers[d].opens[v] \in DOMAIN drivers'
    BY <1>1, <1>2 DEF DriverOK, Drivers
  <1>5. /\ drivers'[d].parent \in DOMAIN entries'
        /\ drivers'[d].ioctl \in {None} \cup DOMAIN entries'
    BY <1>1, <1>2 DEF DriverOK
  <1>6. QED
    BY <1>3, <1>4, <1>5 DEF DriverOK

-----------------------------------------------------------------------------
(***************************************************************************)
(* What each action does.                                                  *)
(***************************************************************************)

\* A turn of a loop takes the first of the drivers it has yet to visit.
LEMMA TurnFacts ==
    ASSUME TypeOK, PassInv, todo # <<>>, todo' = Rest, results' = results
    PROVE  /\ Visit \in Drivers /\ Visit \in Waiting /\ Visit \in OfPass
           /\ todo' \in Seq(Drivers)
           /\ \A i, j \in DOMAIN todo' : todo'[i] = todo'[j] => i = j
           /\ Waiting' = Waiting \ {Visit}
           /\ OfPass' = OfPass
  <1>1. todo \in Seq(Drivers)
    BY DEF TypeOK, Drivers
  <1>2. /\ \A i, j \in DOMAIN todo : todo[i] = todo[j] => i = j
        /\ Waiting \subseteq OfPass
    BY DEF PassInv
  <1>3. /\ Head(todo) \in Drivers
        /\ Tail(todo) \in Seq(Drivers)
        /\ Head(todo) \in {todo[i] : i \in DOMAIN todo}
        /\ \A i, j \in DOMAIN Tail(todo) : Tail(todo)[i] = Tail(todo)[j] => i = j
        /\ {Tail(todo)[i] : i \in DOMAIN Tail(todo)} = {todo[i] : i \in DOMAIN todo} \ {Head(todo)}
    BY <1>1, <1>2, TailOfDistinct
  <1>4. todo' = Tail(todo)
    BY DEF Rest
  <1>5. Waiting' = Waiting \ {Visit} /\ Visit \in Waiting
    BY <1>3, <1>4 DEF Waiting, Visit
  <1>6. OfPass' = OfPass
    BY DEF OfPass
  <1>7. QED
    BY <1>2, <1>3, <1>4, <1>5, <1>6 DEF Visit

\* The hash is of its type.
LEMMA RealHashType ==
    ASSUME TypeOK, NEW d \in Drivers
    PROVE  /\ RealHash(d) \in Seq(Lines) \X OpsNames \X SUBSET FunctionNames
           /\ RealHash(d) # <<>>
           /\ RealHash(d)[1] = IF ParentDriver(d) = None THEN <<>> ELSE drivers[d].id
           /\ RealHash(d)[2] = OpsOf(d)
  <1> DEFINE a == IF ParentDriver(d) = None THEN <<>> ELSE drivers[d].id
             c == IF drivers[d].ioctl = None THEN {}
                  ELSE entries[drivers[d].ioctl].function_pointers
  <1>1. a \in Seq(Lines)
    BY DriverFacts
  <1>2. c \in SUBSET FunctionNames
    BY DriverFacts, EntryFacts
  <1>3. RealHash(d) = <<a, OpsOf(d), c>>
    BY DEF RealHash
  <1>4. OpsOf(d) \in OpsNames
    BY DriverFacts
  <1> HIDE DEF a, c
  <1>5. /\ RealHash(d) \in Seq(Lines) \X OpsNames \X SUBSET FunctionNames
        /\ RealHash(d) # <<>> /\ RealHash(d)[1] = a /\ RealHash(d)[2] = OpsOf(d)
    BY <1>1, <1>2, <1>3, <1>4
  <1>6. QED
    BY <1>5 DEF a

\* Drivers of which one is replaced.
LEMMA OneDriver ==
    ASSUME TypeOK, NEW d \in Drivers, NEW r \in Driver
    PROVE  LET ds == [drivers EXCEPT ![d] = r] IN
           /\ ds \in Seq(Driver)
           /\ DOMAIN ds = Drivers
           /\ ds[d] = r
           /\ \A x \in Drivers : x # d => ds[x] = drivers[x]
  <1>1. drivers \in Seq(Driver) /\ d \in 1 .. Len(drivers) /\ Drivers = 1 .. Len(drivers)
    BY DEF TypeOK, Drivers
  <1>2. QED
    BY <1>1

\* Comparing a hash changes the hash of the visited driver only.
LEMMA KeepEffect ==
    ASSUME TypeOK, PassInv, Keep
    PROVE  /\ Grows
           /\ drivers' \in Seq(Driver)
           /\ Drivers' = Drivers
           /\ entries' = entries
           /\ drivers'[Visit].id_real_hash = RealHash(Visit)
           /\ \A d \in Drivers :
                 /\ d # Visit => drivers'[d].id_real_hash = drivers[d].id_real_hash
                 /\ drivers'[d].ioctl = drivers[d].ioctl
                 /\ drivers'[d].cmd = drivers[d].cmd
                 /\ drivers'[d].opens = drivers[d].opens
                 /\ drivers'[d].non_open_parent = drivers[d].non_open_parent
  <1> DEFINE h == RealHash(Visit)
             r == [drivers[Visit] EXCEPT !.id_real_hash = h]
  <1>0. Visit \in Drivers
    BY TurnFacts DEF Keep
  <1>1. entries' = entries /\ drivers' = [drivers EXCEPT ![Visit] = r]
    BY DEF Keep
  <1>2. h \in Seq(Lines) \X OpsNames \X SUBSET FunctionNames /\ drivers[Visit] \in Driver
    BY <1>0, RealHashType, DriverFacts
  <1> HIDE DEF h
  <1>3. /\ r \in Driver
        /\ r.finding = drivers[Visit].finding /\ r.parent = drivers[Visit].parent
        /\ r.id = drivers[Visit].id /\ r.id_real_hash = h
        /\ r.ioctl = drivers[Visit].ioctl /\ r.cmd = drivers[Visit].cmd
        /\ r.opens = drivers[Visit].opens
        /\ r.non_open_parent = drivers[Visit].non_open_parent
    BY <1>2, WithHash
  <1> HIDE DEF r
  <1>4. /\ drivers' \in Seq(Driver)
        /\ DOMAIN drivers' = Drivers
        /\ drivers'[Visit] = r
        /\ \A x \in Drivers : x # Visit => drivers'[x] = drivers[x]
    <2>1. LET ds == [drivers EXCEPT ![Visit] = r] IN
          /\ ds \in Seq(Driver)
          /\ DOMAIN ds = Drivers
          /\ ds[Visit] = r
          /\ \A x \in Drivers : x # Visit => ds[x] = drivers[x]
      BY <1>0, <1>3, OneDriver
    <2>2. QED
      BY <1>1, <2>1
  <1>5. \A d \in Drivers :
           /\ drivers'[d].finding = drivers[d].finding
           /\ drivers'[d].parent = drivers[d].parent
           /\ drivers'[d].id = drivers[d].id
           /\ drivers'[d].cmd = drivers[d].cmd
           /\ drivers'[d].ioctl = drivers[d].ioctl
           /\ drivers'[d].opens = drivers[d].opens
           /\ drivers'[d].non_open_parent = drivers[d].non_open_parent
    BY <1>3, <1>4
  <1>6. Grows
    BY <1>1, <1>4, <1>5 DEF Grows
  <1>7. QED
    BY <1>0, <1>1, <1>3, <1>4, <1>5, <1>6 DEF h, Drivers

\* The commands collect_cmd_and_type() finds are commands.
LEMMA CommandsOfType ==
    ASSUME TypeOK, EntryInv, NEW d \in Drivers
    PROVE  CommandsOf(d) \subseteq Commands
  <1>1. CASE drivers[d].ioctl = None
    BY <1>1 DEF CommandsOf
  <1>2. CASE drivers[d].ioctl # None
    <2>1. Handler(d) \in FunctionNames
      BY <1>2, DriverFacts DEF EntryInv
    <2>2. QED
      BY <1>2, <2>1, CommandFacts DEF CommandsOf
  <1>3. QED
    BY <1>1, <1>2

\* Collecting commands gives the visited driver those it did not have.
LEMMA CmdEffect ==
    ASSUME TypeOK, PassInv, EntryInv, InfoInv, CollectCmdAndType
    PROVE  /\ Grows
           /\ drivers' \in Seq(Driver)
           /\ Drivers' = Drivers
           /\ entries' = entries
           /\ drivers[Visit].cmd = {}
           /\ drivers'[Visit].cmd = CommandsOf(Visit)
           /\ \A d \in Drivers :
                 /\ d # Visit => drivers'[d].cmd = drivers[d].cmd
                 /\ drivers'[d].id_real_hash = drivers[d].id_real_hash
                 /\ drivers'[d].ioctl = drivers[d].ioctl
                 /\ drivers'[d].opens = drivers[d].opens
                 /\ drivers'[d].non_open_parent = drivers[d].non_open_parent
  <1> DEFINE c == CommandsOf(Visit)
             r == [drivers[Visit] EXCEPT !.cmd = c]
  <1>0. Visit \in Drivers /\ Visit \in Waiting /\ Visit \in OfPass /\ loop = "cmd"
    BY TurnFacts DEF CollectCmdAndType
  <1>1. entries' = entries /\ drivers' = [drivers EXCEPT ![Visit] = r]
    BY DEF CollectCmdAndType
  <1>2. c \in SUBSET Commands /\ drivers[Visit] \in Driver
    BY <1>0, CommandsOfType, DriverFacts
  <1> HIDE DEF c
  <1>3. /\ r \in Driver
        /\ r.finding = drivers[Visit].finding /\ r.parent = drivers[Visit].parent
        /\ r.id = drivers[Visit].id /\ r.id_real_hash = drivers[Visit].id_real_hash
        /\ r.ioctl = drivers[Visit].ioctl /\ r.cmd = c
        /\ r.opens = drivers[Visit].opens
        /\ r.non_open_parent = drivers[Visit].non_open_parent
    BY <1>2, WithCmd
  <1> HIDE DEF r
  <1>4. /\ drivers' \in Seq(Driver)
        /\ DOMAIN drivers' = Drivers
        /\ drivers'[Visit] = r
        /\ \A x \in Drivers : x # Visit => drivers'[x] = drivers[x]
    <2>1. LET ds == [drivers EXCEPT ![Visit] = r] IN
          /\ ds \in Seq(Driver)
          /\ DOMAIN ds = Drivers
          /\ ds[Visit] = r
          /\ \A x \in Drivers : x # Visit => ds[x] = drivers[x]
      BY <1>0, <1>3, OneDriver
    <2>2. QED
      BY <1>1, <2>1
  <1>5. drivers[Visit].cmd = {}
    <2>1. Uncommanded(Visit)
      BY <1>0 DEF Uncommanded
    <2>2. QED
      BY <1>0, <2>1 DEF InfoInv, InfoOK
  <1>6. \A d \in Drivers :
           /\ drivers'[d].finding = drivers[d].finding
           /\ drivers'[d].parent = drivers[d].parent
           /\ drivers'[d].id = drivers[d].id
           /\ drivers[d].cmd \subseteq drivers'[d].cmd
           /\ d # Visit => drivers'[d].cmd = drivers[d].cmd
           /\ drivers'[d].id_real_hash = drivers[d].id_real_hash
           /\ drivers'[d].ioctl = drivers[d].ioctl
           /\ drivers'[d].opens = drivers[d].opens
           /\ drivers'[d].non_open_parent = drivers[d].non_open_parent
    BY <1>3, <1>4, <1>5
  <1>7. Grows
    BY <1>1, <1>4, <1>6 DEF Grows
  <1>8. QED
    BY <1>0, <1>1, <1>3, <1>4, <1>5, <1>6, <1>7 DEF c, Drivers

\* The commands that open a driver are among those of its parent driver.
LEMMA OpenedByFacts ==
    ASSUME TypeOK, NEW d \in Drivers
    PROVE  /\ OpenedBy(d) # {} =>
              /\ ParentDriver(d) # None /\ ParentDriver(d) \in Drivers
              /\ Smallest(OpenedBy(d)) \in OpenedBy(d)
              /\ Smallest(OpenedBy(d)) \in Commands
              /\ Smallest(OpenedBy(d)) \in drivers[ParentDriver(d)].cmd
           /\ InfoOf(d) \in {<<>>} \cup (Nat \X Commands)
           /\ CommandsTold(d) = {} \/
              /\ CommandsTold(d) = {Smallest(OpenedBy(d))} /\ OpenedBy(d) # {}
              /\ drivers[d].finding \in FileOps
  <1>1. ASSUME OpenedBy(d) # {}
        PROVE  /\ ParentDriver(d) # None /\ ParentDriver(d) \in Drivers
               /\ Smallest(OpenedBy(d)) \in OpenedBy(d)
               /\ Smallest(OpenedBy(d)) \in Commands
               /\ Smallest(OpenedBy(d)) \in drivers[ParentDriver(d)].cmd
    <2>1. ParentDriver(d) # None
      BY <1>1 DEF OpenedBy
    <2>2. ParentDriver(d) \in Drivers
      BY <2>1, DriverFacts
    <2>3. drivers[ParentDriver(d)].cmd \subseteq Commands
      BY <2>2, DriverFacts
    <2>4. OpenedBy(d) \subseteq drivers[ParentDriver(d)].cmd
      BY <2>1 DEF OpenedBy
    <2>5. OpenedBy(d) \in SUBSET Nat
      BY <2>3, <2>4, CommandFacts
    <2>6. Smallest(OpenedBy(d)) \in OpenedBy(d)
      BY <1>1, <2>5, SmallestIsIn
    <2>7. QED
      BY <2>1, <2>2, <2>3, <2>4, <2>6
  <1>2. InfoOf(d) \in {<<>>} \cup (Nat \X Commands)
    <2>1. CASE OpenedBy(d) = {}
      BY <2>1 DEF InfoOf
    <2>2. CASE OpenedBy(d) # {}
      <3>1. ParentDriver(d) \in Nat /\ Smallest(OpenedBy(d)) \in Commands
        BY <1>1, <2>2, DriverFacts
      <3>2. InfoOf(d) = <<ParentDriver(d), Smallest(OpenedBy(d))>>
        BY <2>2 DEF InfoOf
      <3>3. QED
        BY <3>1, <3>2
    <2>3. QED
      BY <2>1, <2>2
  <1>3. CommandsTold(d) = {} \/
              /\ CommandsTold(d) = {Smallest(OpenedBy(d))} /\ OpenedBy(d) # {}
              /\ drivers[d].finding \in FileOps
    BY DEF CommandsTold
  <1>4. QED
    BY <1>1, <1>2, <1>3

\* Collecting information makes at most one entry, that of the visited driver, and
\* writes to that driver and to its parent only.
LEMMA InfoEffect ==
    ASSUME TypeOK, PassInv, BirthInv, CollectInfo
    PROVE  /\ Grows
           /\ drivers' \in Seq(Driver)
           /\ Drivers' = Drivers
           /\ entries' \in Seq(Entry)
           /\ \A e \in DOMAIN entries' : e \notin DOMAIN entries =>
                 /\ Handler(Visit) # NoHandler
                 /\ e = drivers'[Visit].ioctl
           /\ drivers'[Visit].ioctl # None =>
                 /\ Handler(Visit) # NoHandler
                 /\ drivers'[Visit].ioctl \in DOMAIN entries'
                 /\ drivers'[Visit].ioctl \notin DOMAIN entries
                 /\ entries'[drivers'[Visit].ioctl] = EntryOf(Visit)
           /\ drivers'[Visit].ioctl = None => Handler(Visit) = NoHandler
           /\ drivers'[Visit].non_open_parent = InfoOf(Visit)
           /\ ParentDriver(Visit) # Visit
           /\ \A d \in Drivers :
                 /\ d # Visit => /\ drivers'[d].ioctl = drivers[d].ioctl
                                 /\ drivers'[d].non_open_parent = drivers[d].non_open_parent
                 /\ drivers'[d].id_real_hash = drivers[d].id_real_hash
                 /\ drivers'[d].cmd = drivers[d].cmd
                 /\ \A v \in Commands : drivers'[d].opens[v] =
                       IF d = ParentDriver(Visit) /\ v \in CommandsTold(Visit) THEN Visit
                       ELSE drivers[d].opens[v]
  <1> DEFINE p == ParentDriver(Visit)
             ioctl == IF Handler(Visit) = NoHandler THEN None ELSE Len(entries) + 1
             info == InfoOf(Visit)
             told == CommandsTold(Visit)
             o(d) == [v \in Commands |-> IF v \in told THEN Visit ELSE drivers[d].opens[v]]
             mine == [drivers[Visit] EXCEPT !.non_open_parent = info, !.ioctl = ioctl]
             its(d) == [drivers[d] EXCEPT !.opens = o(d)]
  <1>1. Visit \in Drivers /\ Visit \in OfPass /\ loop = "info"
    BY TurnFacts DEF CollectInfo
  <1>2. p # Visit
    <2>1. Visit # None
      BY <1>1, DriverFacts
    <2>2. p # None => p \notin OfPass
      BY <1>1 DEF BirthInv
    <2>3. QED
      BY <1>1, <2>1, <2>2
  <1>3. entries \in Seq(Entry) /\ drivers \in Seq(Driver)
    BY DEF TypeOK
  <1>4. Len(entries) \in Nat /\ DOMAIN entries = 1 .. Len(entries)
        /\ Len(drivers) \in Nat /\ Drivers = 1 .. Len(drivers) /\ ioctl \in Nat
    BY <1>3 DEF Drivers, None
  <1>5. drivers' = [d \in Drivers |-> IF d = Visit THEN mine
                                      ELSE IF d = p THEN its(d) ELSE drivers[d]]
    <2>1. drivers' = [d \in DOMAIN drivers |->
             CASE d = Visit ->
                  [drivers[d] EXCEPT
                     !.non_open_parent = IF OpenedBy(Visit) = {} THEN <<>>
                                         ELSE <<ParentDriver(Visit), Smallest(OpenedBy(Visit))>>,
                     !.ioctl = IF Handler(Visit) = NoHandler THEN None ELSE Len(entries) + 1]
            [] d = ParentDriver(Visit) ->
                  [drivers[d] EXCEPT
                     !.opens = [v \in Commands |->
                        IF v \in CommandsTold(Visit) THEN Visit ELSE drivers[d].opens[v]]]
            [] OTHER -> drivers[d]]
      BY DEF CollectInfo
    <2>2. QED
      BY <2>1, <1>2 DEF Drivers, InfoOf
  <1>6. info \in {<<>>} \cup (Nat \X Commands)
    BY <1>1, OpenedByFacts
  <1>7. \A d \in Drivers : o(d) \in [Commands -> Nat]
    BY <1>1, DriverFacts
  <1>8. entries' = entries \o HandlerEntries(Visit)
    BY DEF CollectInfo
  <1> HIDE DEF p, info, told
  <1>9. /\ mine \in Driver
        /\ mine.finding = drivers[Visit].finding /\ mine.parent = drivers[Visit].parent
        /\ mine.id = drivers[Visit].id /\ mine.id_real_hash = drivers[Visit].id_real_hash
        /\ mine.ioctl = ioctl /\ mine.cmd = drivers[Visit].cmd
        /\ mine.opens = drivers[Visit].opens /\ mine.non_open_parent = info
    <2>1. drivers[Visit] \in Driver
      BY <1>1, DriverFacts
    <2>2. ioctl \in Nat
      BY <1>4
    <2> HIDE DEF ioctl
    <2>3. LET q == [drivers[Visit] EXCEPT !.non_open_parent = info, !.ioctl = ioctl] IN
          /\ q \in Driver
          /\ q.finding = drivers[Visit].finding /\ q.parent = drivers[Visit].parent
          /\ q.id = drivers[Visit].id /\ q.id_real_hash = drivers[Visit].id_real_hash
          /\ q.ioctl = ioctl /\ q.cmd = drivers[Visit].cmd
          /\ q.opens = drivers[Visit].opens /\ q.non_open_parent = info
      BY ONLY <2>1, <2>2, <1>6 DEF Driver
    <2>4. QED
      BY <2>3
  <1>10. ASSUME NEW d \in Drivers
         PROVE  /\ its(d) \in Driver
                /\ its(d).finding = drivers[d].finding /\ its(d).parent = drivers[d].parent
                /\ its(d).id = drivers[d].id /\ its(d).id_real_hash = drivers[d].id_real_hash
                /\ its(d).ioctl = drivers[d].ioctl /\ its(d).cmd = drivers[d].cmd
                /\ its(d).opens = o(d) /\ its(d).non_open_parent = drivers[d].non_open_parent
    <2>1. drivers[d] \in Driver /\ o(d) \in [Commands -> Nat]
      BY <1>7, DriverFacts
    <2> HIDE DEF o
    <2>2. QED
      BY <2>1, WithOpens
  <1> HIDE DEF mine, its
  <1>11. /\ DOMAIN drivers' = Drivers
         /\ drivers'[Visit] = mine
         /\ \A d \in Drivers : d # Visit => drivers'[d] = IF d = p THEN its(d) ELSE drivers[d]
    BY <1>1, <1>5
  <1>12. drivers' \in Seq(Driver)
    <2>1. \A d \in Drivers : drivers[d] \in Driver
      BY DriverFacts
    <2>2. drivers' \in [1 .. Len(drivers) -> Driver]
      BY <1>4, <1>5, <1>9, <1>10, <2>1
    <2>3. QED
      BY <2>2, <1>4
  <1>13. \A d \in Drivers :
            /\ drivers'[d].finding = drivers[d].finding
            /\ drivers'[d].parent = drivers[d].parent
            /\ drivers'[d].id = drivers[d].id
            /\ drivers'[d].id_real_hash = drivers[d].id_real_hash
            /\ drivers'[d].cmd = drivers[d].cmd
            /\ d # Visit => /\ drivers'[d].ioctl = drivers[d].ioctl
                            /\ drivers'[d].non_open_parent = drivers[d].non_open_parent
            /\ drivers'[d].opens = IF d = p THEN o(d) ELSE drivers[d].opens
    <2> HIDE DEF o, ioctl
    <2>1. QED
      BY <1>2, <1>9, <1>10, <1>11
  <1>14. \A d \in Drivers, v \in Commands : drivers'[d].opens[v] =
            IF d = p /\ v \in told THEN Visit ELSE drivers[d].opens[v]
    BY <1>13
  <1>15. drivers'[Visit].ioctl = ioctl /\ drivers'[Visit].non_open_parent = info
    BY <1>9, <1>11
  <1>16. CASE Handler(Visit) = NoHandler
    <2>1. HandlerEntries(Visit) = <<>> /\ ioctl = None
      BY <1>16 DEF HandlerEntries
    <2>2. entries' = entries
      BY <1>3, <1>8, <2>1
    <2>3. Grows
      BY <2>2, <1>11, <1>13 DEF Grows
    <2>4. QED
      BY <1>2, <1>3, <1>11, <1>12, <1>13, <1>14, <1>15, <1>16, <2>1, <2>2, <2>3
      DEF p, info, told, Drivers
  <1>17. CASE Handler(Visit) # NoHandler
    <2> DEFINE new == NewIoctlEntry(Handler(Visit), Visit)
    <2>1. new \in Entry
      BY <1>1, <1>17, EntryOfIsEntry DEF EntryOf
    <2>2. HandlerEntries(Visit) = <<new>> /\ ioctl = Len(entries) + 1
      BY <1>17 DEF HandlerEntries
    <2> HIDE DEF new, ioctl
    <2>3. /\ entries' \in Seq(Entry)
          /\ DOMAIN entries' = 1 .. (Len(entries) + 1)
          /\ \A e \in DOMAIN entries : entries'[e] = entries[e]
          /\ entries'[Len(entries) + 1] = new
      BY <1>3, <1>8, <2>1, <2>2
    <2>4. Grows
      <3>1. DOMAIN entries \subseteq DOMAIN entries'
        BY <1>4, <2>3
      <3>2. QED
        BY <2>3, <3>1, <1>11, <1>13 DEF Grows
    <2>5. /\ ioctl \in DOMAIN entries' /\ ioctl \notin DOMAIN entries /\ entries'[ioctl] = new
          /\ ioctl # None
          /\ \A e \in DOMAIN entries' : e \notin DOMAIN entries => e = ioctl
      BY <1>4, <2>2, <2>3 DEF None
    <2>6. QED
      BY <1>2, <1>11, <1>12, <1>13, <1>14, <1>15, <1>17, <2>3, <2>4, <2>5
      DEF p, info, told, new, EntryOf, Drivers
  <1>18. QED
    BY <1>16, <1>17

\* What exploring entry e finds becomes drivers, after those that exist.
NewDrivers(e) ==
    /\ drivers' \in Seq(Driver)
    /\ Drivers \subseteq DOMAIN drivers'
    /\ \A d \in Drivers : drivers'[d] = drivers[d]
    /\ \A d \in DOMAIN drivers' : d \notin Drivers =>
          /\ drivers'[d].finding \in FoundFrom(e)'
          /\ drivers'[d].parent = e
          /\ drivers'[d].id # <<>>
          /\ drivers'[d].ioctl = None
          /\ drivers'[d].cmd = {}
          /\ \A v \in Commands : drivers'[d].opens[v] = None
          /\ drivers'[d].non_open_parent = <<>>
    /\ \A f \in FoundFrom(e)' :
          \E d \in DOMAIN drivers' : /\ d \notin Drivers
                                     /\ drivers'[d].parent = e /\ drivers'[d].finding = f

\* The drivers a walk of entry e yields, below the call chains id.
Yield(s, e, id) == [i \in DOMAIN s |-> NewDriver(s[i], e, id)]

\* The drivers a walk yields are added after the others.
LEMMA WalkMakesDrivers ==
    ASSUME TypeOK, NEW e \in Nat, NEW id \in Seq(Lines), NEW ef, NEW s \in Walks(ef)
    PROVE  /\ drivers' = drivers \o Yield(s, e, id)
           /\ FoundFrom(e)' = Found(ef)
           => /\ NewDrivers(e)
              /\ \E n \in Nat : DOMAIN s = 1 .. n /\ DOMAIN drivers' = 1 .. (Len(drivers) + n)
  <1>1. SUFFICES ASSUME drivers' = drivers \o Yield(s, e, id),
                        FoundFrom(e)' = Found(ef)
                 PROVE  /\ NewDrivers(e)
                        /\ \E n \in Nat : /\ DOMAIN s = 1 .. n
                                           /\ DOMAIN drivers' = 1 .. (Len(drivers) + n)
    OBVIOUS
  <1> DEFINE b == Yield(s, e, id)
  <1>2. PICK n \in Nat :
           /\ s \in [1 .. n -> Findings]
           /\ DOMAIN s = 1 .. n
           /\ \A i \in 1 .. n : s[i] \in Found(ef)
           /\ \A f \in Found(ef) : \E i \in 1 .. n : s[i] = f
    BY WalkFacts
  <1>3. ASSUME NEW i \in 1 .. n
        PROVE  /\ b[i] \in Driver
               /\ b[i].finding = s[i]
               /\ b[i].parent = e
               /\ b[i].id # <<>>
               /\ b[i].ioctl = None
               /\ b[i].cmd = {}
               /\ \A v \in Commands : b[i].opens[v] = None
               /\ b[i].non_open_parent = <<>>
    <2>1. s[i] \in Findings /\ b[i] = NewDriver(s[i], e, id)
      BY <1>2 DEF Yield
    <2> HIDE DEF b
    <2>2. QED
      BY <2>1, NewDriverIsDriver
  <1>4. b \in [1 .. n -> Driver]
    BY <1>2, <1>3 DEF Yield
  <1>5. drivers' = drivers \o b
    BY <1>1
  <1> HIDE DEF b
  <1>6. /\ drivers \o b \in Seq(Driver)
        /\ DOMAIN (drivers \o b) = 1 .. (Len(drivers) + n)
        /\ DOMAIN drivers = 1 .. Len(drivers) /\ Len(drivers) \in Nat
        /\ \A d \in DOMAIN drivers : (drivers \o b)[d] = drivers[d]
        /\ \A i \in 1 .. n : (drivers \o b)[Len(drivers) + i] = b[i]
    <2>1. drivers \in Seq(Driver)
      BY DEF TypeOK
    <2>2. b \in Seq(Driver) /\ Len(b) = n
      BY <1>4
    <2>3. /\ drivers \o b \in Seq(Driver)
          /\ DOMAIN (drivers \o b) = 1 .. (Len(drivers) + Len(b))
          /\ DOMAIN drivers = 1 .. Len(drivers) /\ Len(drivers) \in Nat
          /\ \A i \in DOMAIN drivers : (drivers \o b)[i] = drivers[i]
          /\ \A i \in 1 .. Len(b) : (drivers \o b)[Len(drivers) + i] = b[i]
      <3> DEFINE c == drivers \o b
      <3>1. /\ c \in Seq(Driver)
            /\ Len(c) = Len(drivers) + Len(b)
            /\ \A i \in 1 .. Len(drivers) + Len(b) :
                  c[i] = IF i <= Len(drivers) THEN drivers[i] ELSE b[i - Len(drivers)]
        BY ONLY <2>1, <2>2, ConcatProperties
      <3>2. /\ DOMAIN drivers = 1 .. Len(drivers) /\ Len(drivers) \in Nat /\ Len(b) \in Nat
            /\ DOMAIN c = 1 .. Len(c)
        BY ONLY <2>1, <2>2, <3>1
      <3> HIDE DEF c
      <3>3. \A i \in DOMAIN drivers : c[i] = drivers[i]
        BY ONLY <3>1, <3>2
      <3>4. \A i \in 1 .. Len(b) : c[Len(drivers) + i] = b[i]
        BY ONLY <3>1, <3>2
      <3>5. QED
        BY ONLY <3>1, <3>2, <3>3, <3>4 DEF c
    <2>4. QED
      BY ONLY <2>2, <2>3
  <1>7. /\ drivers' \in Seq(Driver)
        /\ DOMAIN drivers' = 1 .. (Len(drivers) + n)
        /\ Drivers = 1 .. Len(drivers) /\ Len(drivers) \in Nat
        /\ \A d \in Drivers : drivers'[d] = drivers[d]
        /\ \A i \in 1 .. n : drivers'[Len(drivers) + i] = b[i]
    BY ONLY <1>5, <1>6 DEF Drivers
  <1>8. ASSUME NEW d \in DOMAIN drivers', d \notin Drivers
        PROVE  \E i \in 1 .. n : drivers'[d] = b[i]
    <2>1. d \in 1 .. (Len(drivers) + n) /\ d \notin 1 .. Len(drivers) /\ Len(drivers) \in Nat
      BY <1>7, <1>8
    <2>2. PICK i \in 1 .. n : d = Len(drivers) + i
      BY <2>1, Positions
    <2>3. QED
      BY <1>7, <2>2
  <1>9. ASSUME NEW f \in Found(ef)
        PROVE  \E d \in DOMAIN drivers' : /\ d \notin Drivers
                                          /\ drivers'[d].parent = e /\ drivers'[d].finding = f
    <2>1. PICK i \in 1 .. n : s[i] = f
      BY <1>2
    <2>2. Len(drivers) + i \in DOMAIN drivers' /\ Len(drivers) + i \notin Drivers
      BY <1>7
    <2>3. drivers'[Len(drivers) + i] = b[i] /\ b[i].parent = e /\ b[i].finding = f
      BY <1>3, <1>7, <2>1
    <2>4. QED
      BY <2>2, <2>3
  <1>10. ASSUME NEW d \in DOMAIN drivers', d \notin Drivers
         PROVE  /\ drivers'[d].finding \in FoundFrom(e)'
                /\ drivers'[d].parent = e
                /\ drivers'[d].id # <<>>
                /\ drivers'[d].ioctl = None
                /\ drivers'[d].cmd = {}
                /\ \A v \in Commands : drivers'[d].opens[v] = None
                /\ drivers'[d].non_open_parent = <<>>
    <2>1. PICK i \in 1 .. n : drivers'[d] = b[i]
      BY <1>8, <1>10
    <2>2. s[i] \in FoundFrom(e)'
      BY <1>1, <1>2
    <2>3. QED
      BY <1>3, <2>1, <2>2
  <1>11. Drivers \subseteq DOMAIN drivers'
    BY <1>7
  <1>12. \A f \in FoundFrom(e)' :
            \E d \in DOMAIN drivers' : /\ d \notin Drivers
                                       /\ drivers'[d].parent = e /\ drivers'[d].finding = f
    BY <1>1, <1>9
  <1>13. NewDrivers(e)
    BY <1>7, <1>10, <1>11, <1>12 DEF NewDrivers
  <1>14. QED
    BY <1>2, <1>7, <1>13

\* Adding drivers and entries only is growing.
LEMMA NewDriversGrow ==
    ASSUME NEW e, NewDrivers(e),
           DOMAIN entries \subseteq DOMAIN entries',
           \A x \in DOMAIN entries : entries'[x] = entries[x]
    PROVE  Grows
  BY DEF Grows, NewDrivers

\* Exploring an init function adds its entry, of no driver, and what it finds.
LEMMA InitEffect ==
    ASSUME TypeOK, NEW f \in todo_init, AnalysisInitFunction(f)
    PROVE  /\ Grows
           /\ entries' \in Seq(Entry)
           /\ \E new \in Nat :
                 /\ NewDrivers(new)
                 /\ new \in DOMAIN entries' /\ new \notin DOMAIN entries
                 /\ \A e \in DOMAIN entries' : e \in DOMAIN entries \/ e = new
                 /\ entries'[new].parent = None
                 /\ entries'[new].handlers = <<>>
  <1> DEFINE ef == NewInitEntry(f)
  <1>1. f \in InitFunctions /\ entries \in Seq(Entry)
    BY DEF TypeOK
  <1>2. ef \in Entry /\ ef.parent = None /\ ef.handlers = <<>>
    BY <1>1, NewInitEntryIsEntry
  <1>3. PICK s \in Walks(ef) :
           drivers' = drivers \o [i \in DOMAIN s |-> NewDriver(s[i], Len(entries) + 1, <<>>)]
    BY DEF AnalysisInitFunction
  <1>4. entries' = Append(entries, ef)
    BY DEF AnalysisInitFunction
  <1> HIDE DEF ef
  <1>5. /\ entries' \in Seq(Entry)
        /\ DOMAIN entries' = 1 .. (Len(entries) + 1) /\ DOMAIN entries = 1 .. Len(entries)
        /\ Len(entries) \in Nat
        /\ \A e \in DOMAIN entries : entries'[e] = entries[e]
        /\ entries'[Len(entries) + 1] = ef
    BY <1>1, <1>2, <1>4, AppendProperties
  <1>6. PICK new \in Nat : new = Len(entries) + 1
    BY <1>5
  <1>7. /\ new \in DOMAIN entries' /\ new \notin DOMAIN entries
        /\ DOMAIN entries \subseteq DOMAIN entries'
        /\ \A e \in DOMAIN entries' : e \in DOMAIN entries \/ e = new
        /\ entries'[new] = ef
    BY <1>5, <1>6
  <1>8. NewDrivers(new)
    <2>1. drivers' = drivers \o Yield(s, new, <<>>)
      BY <1>3, <1>6 DEF Yield
    <2>2. <<>> \in Seq(Lines)
      OBVIOUS
    <2>3. FoundFrom(new)' = Found(ef)
      BY <1>7 DEF FoundFrom, Found
    <2>4. QED
      BY <2>1, <2>2, <2>3, WalkMakesDrivers
  <1>9. Grows
    BY <1>5, <1>7, <1>8, NewDriversGrow
  <1>10. QED
    BY <1>2, <1>5, <1>7, <1>8, <1>9

\* Exploring an entry of the worklist adds what it finds, which is the new pass.
LEMMA EntryEffect ==
    ASSUME TypeOK, EntryInv, NEW e \in entry_set, AnalysisEntry(e)
    PROVE  /\ Grows
           /\ NewDrivers(e)
           /\ entries' = entries
           /\ e \in DOMAIN entries
           /\ entries[e].parent # None /\ ~ WithinLoop(e)
           /\ results' \in Seq(Drivers') /\ todo' = results'
           /\ \A i, j \in DOMAIN results' : results'[i] = results'[j] => i = j
           /\ OfPass' = Drivers' \ Drivers
           /\ Waiting' = OfPass'
  <1> DEFINE id == drivers[entries[e].parent].id
  <1>1. e \in DOMAIN entries /\ entries[e].parent # None /\ ~ WithinLoop(e)
    BY DEF TypeOK, EntryInv
  <1>2. e \in Nat /\ id \in Seq(Lines)
    BY <1>1, EntryFacts, DriverFacts
  <1> HIDE DEF id
  <1>3. PICK s \in Walks(entries[e]) :
           /\ drivers' = drivers \o Yield(s, e, id)
           /\ results' = [i \in DOMAIN s |-> Len(drivers) + i]
    BY DEF AnalysisEntry, Yield, id
  <1>4. entries' = entries /\ todo' = results'
    BY DEF AnalysisEntry
  <1>5. FoundFrom(e)' = Found(entries[e])
    BY <1>4 DEF FoundFrom, Found
  <1>6. /\ NewDrivers(e)
        /\ \E n \in Nat : DOMAIN s = 1 .. n /\ DOMAIN drivers' = 1 .. (Len(drivers) + n)
    BY <1>2, <1>3, <1>5, WalkMakesDrivers
  <1>7. Grows
    BY <1>4, <1>6, NewDriversGrow
  <1>8. PICK n \in Nat : DOMAIN s = 1 .. n /\ DOMAIN drivers' = 1 .. (Len(drivers) + n)
    BY <1>6
  <1>9. Len(drivers) \in Nat /\ Drivers = 1 .. Len(drivers)
    BY DEF TypeOK, Drivers
  <1>10. results' = [i \in 1 .. n |-> Len(drivers) + i]
    BY <1>3, <1>8
  <1>11. DOMAIN results' = 1 .. n /\ \A i \in 1 .. n : results'[i] = Len(drivers) + i
    BY <1>10
  <1>12. Drivers' = 1 .. (Len(drivers) + n)
    BY <1>8 DEF Drivers
  <1>13. results' \in Seq(Drivers')
    <2>1. results' \in [1 .. n -> Drivers']
      BY <1>9, <1>10, <1>12
    <2>2. QED
      BY <2>1
  <1>14. ASSUME NEW i \in DOMAIN results', NEW j \in DOMAIN results', results'[i] = results'[j]
         PROVE  i = j
    BY <1>9, <1>11, <1>14
  <1>15. OfPass' = Drivers' \ Drivers
    <2>1. ASSUME NEW d \in OfPass'
          PROVE  d \in Drivers' /\ d \notin Drivers
      <3>1. PICK i \in 1 .. n : d = results'[i]
        BY <1>11 DEF OfPass
      <3>2. QED
        BY <3>1, <1>9, <1>11, <1>12
    <2>2. ASSUME NEW d \in Drivers', d \notin Drivers
          PROVE  d \in OfPass'
      <3>1. d \in 1 .. (Len(drivers) + n) /\ d \notin 1 .. Len(drivers)
        BY <1>9, <1>12, <2>2
      <3>2. PICK i \in 1 .. n : d = Len(drivers) + i
        BY <1>9, <3>1, Positions
      <3>3. d = results'[i] /\ i \in DOMAIN results'
        BY <1>11, <3>2
      <3>4. QED
        BY <3>3 DEF OfPass
    <2>3. QED
      BY <2>1, <2>2
  <1>16. Waiting' = OfPass'
    BY <1>4 DEF Waiting, OfPass
  <1>17. QED
    BY <1>1, <1>4, <1>6, <1>7, <1>13, <1>14, <1>15, <1>16

\* A step that changes no object is one of growing.
LEMMA SameObjectsGrow ==
    ASSUME UNCHANGED objects
    PROVE  Grows
  BY DEF objects, Grows, Drivers

\* The first pass is over all the drivers, each once.
LEMMA StartEffect ==
    ASSUME TypeOK, StartKeeping
    PROVE  /\ results' \in Seq(Drivers) /\ todo' = results'
           /\ \A i, j \in DOMAIN results' : results'[i] = results'[j] => i = j
           /\ OfPass' = Drivers /\ Waiting' = Drivers
  <1>1. /\ results' = [i \in Drivers |-> i] /\ todo' = results'
    BY DEF StartKeeping, Drivers
  <1>2. Len(drivers) \in Nat /\ Drivers = 1 .. Len(drivers)
    BY DEF TypeOK, Drivers
  <1>3. DOMAIN results' = Drivers /\ \A i \in Drivers : results'[i] = i
    BY <1>1
  <1>4. results' \in Seq(Drivers)
    <2>1. results' \in [1 .. Len(drivers) -> Drivers]
      BY <1>1, <1>2
    <2>2. QED
      BY <1>2, <2>1
  <1>5. \A i, j \in DOMAIN results' : results'[i] = results'[j] => i = j
    BY <1>3
  <1>6. OfPass' = Drivers
    BY <1>3 DEF OfPass
  <1>7. Waiting' = Drivers
    BY <1>1, <1>3 DEF Waiting
  <1>8. QED
    BY <1>1, <1>4, <1>5, <1>6, <1>7

\* A sequence of n elements that has all the n elements of a set has each of them once.
LEMMA EachOnce ==
    ASSUME NEW S, IsFiniteSet(S), NEW n \in Nat, Cardinality(S) = n,
           NEW s \in [1 .. n -> S], \A x \in S : \E i \in 1 .. n : s[i] = x
    PROVE  \A i, j \in 1 .. n : s[i] = s[j] => i = j
  <1>1. s \in Surjection(1 .. n, S)
    BY DEF Surjection
  <1>2. IsFiniteSet(1 .. n) /\ Cardinality(1 .. n) = n
    BY FS_Interval
  <1>3. s \in Injection(1 .. n, S)
    BY <1>1, <1>2, FS_SurjSameCardinalityImpliesInj
  <1>4. QED
    BY <1>3 DEF Injection, IsInjective

\* A new loop runs over its pass again, the first one over what was kept.
LEMMA LoopEffect ==
    ASSUME TypeOK, PassInv, NextLoop
    PROVE  /\ results' \in Seq(Drivers)
           /\ \A i, j \in DOMAIN results' : results'[i] = results'[j] => i = j
           /\ loop = "dedup" => OfPass' = device_drivers
           /\ loop # "dedup" => OfPass' = OfPass
           /\ loop # "entry" => todo' = results' /\ Waiting' = OfPass'
           /\ loop = "entry" => todo' = <<>> /\ Waiting' = {}
           /\ Waiting = {}
  <1>1. results \in Seq(Drivers) /\ device_drivers \subseteq Drivers
    BY DEF TypeOK, Drivers
  <1>2. CASE loop = "dedup"
    <2> DEFINE n == Cardinality(device_drivers)
    <2>1. IsFiniteSet(device_drivers)
      <3>1. Drivers = 1 .. Len(drivers) /\ Len(drivers) \in Int /\ 1 \in Int
        BY DEF TypeOK, Drivers
      <3>2. IsFiniteSet(Drivers)
        BY <3>1, FS_Interval
      <3>3. QED
        BY <1>1, <3>2, FS_Subset
    <2>2. n \in Nat
      BY <2>1, FS_CardinalityType
    <2>3. /\ results' \in [1 .. n -> device_drivers]
          /\ \A d \in device_drivers : \E i \in 1 .. n : results'[i] = d
      BY <1>2 DEF NextLoop
    <2>4. \A i, j \in 1 .. n : results'[i] = results'[j] => i = j
      BY <2>1, <2>2, <2>3, EachOnce
    <2> HIDE DEF n
    <2>5. DOMAIN results' = 1 .. n
      BY <2>3
    <2>6. results' \in Seq(Drivers)
      <3>1. results' \in [1 .. n -> Drivers]
        BY <1>1, <2>3
      <3>2. QED
        BY <2>2, <3>1
    <2>7. OfPass' = device_drivers
      BY <2>3, <2>5 DEF OfPass
    <2>8. todo' = results' /\ todo = <<>>
      BY <1>2 DEF NextLoop
    <2>9. Waiting' = OfPass' /\ Waiting = {}
      BY <2>8 DEF Waiting, OfPass
    <2>10. QED
      BY <1>2, <2>4, <2>5, <2>6, <2>7, <2>8, <2>9
  <1>3. CASE loop # "dedup"
    <2>1. results' = results /\ todo = <<>>
      BY <1>3 DEF NextLoop
    <2>2. \A i, j \in DOMAIN results : results[i] = results[j] => i = j
      BY DEF PassInv
    <2>3. OfPass' = OfPass /\ Waiting = {}
      BY <2>1 DEF OfPass, Waiting
    <2>4. loop # "entry" => todo' = results'
      BY DEF NextLoop
    <2>5. loop = "entry" => todo' = <<>>
      BY DEF NextLoop
    <2>6. todo' = results' => Waiting' = OfPass'
      BY DEF Waiting, OfPass
    <2>7. todo' = <<>> => Waiting' = {}
      BY DEF Waiting
    <2>8. QED
      BY <1>1, <1>3, <2>1, <2>2, <2>3, <2>4, <2>5, <2>6, <2>7
  <1>4. QED
    BY <1>2, <1>3

-----------------------------------------------------------------------------
(***************************************************************************)
(* Every step keeps the types.                                             *)
(***************************************************************************)

\* An entry that exists keeps serving a driver that exists.
LEMMA SameParent ==
    ASSUME TypeOK, Grows, NEW e \in DOMAIN entries
    PROVE  entries'[e].parent \in {None} \cup DOMAIN drivers'
  <1>1. entries[e].parent \in {None} \cup Drivers
    BY DEF TypeOK, Drivers
  <1>2. entries'[e] = entries[e] /\ Drivers \subseteq DOMAIN drivers'
    BY DEF Grows
  <1>3. QED
    BY <1>1, <1>2

\* So do the worklists.
LEMMA SameLists ==
    ASSUME TypeOK, Grows
    PROVE  /\ device_drivers \subseteq DOMAIN drivers'
           /\ entry_set \subseteq DOMAIN entries'
           /\ results \in Seq(DOMAIN drivers')
           /\ todo \in Seq(DOMAIN drivers')
           /\ \A s \in Seq(Drivers) : s \in Seq(DOMAIN drivers')
  <1>1. DOMAIN drivers \subseteq DOMAIN drivers' /\ DOMAIN entries \subseteq DOMAIN entries'
    BY DEF Grows, Drivers
  <1>2. /\ device_drivers \subseteq DOMAIN drivers /\ entry_set \subseteq DOMAIN entries
        /\ results \in Seq(DOMAIN drivers) /\ todo \in Seq(DOMAIN drivers)
    BY DEF TypeOK
  <1>3. \A s \in Seq(DOMAIN drivers) : s \in Seq(DOMAIN drivers')
    BY <1>1, SeqMonotonic
  <1>4. QED
    BY <1>1, <1>2, <1>3 DEF Drivers

\* New drivers point at their entry and at nothing else.
LEMMA NewDriversOK ==
    ASSUME TypeOK, Grows, NEW e, NewDrivers(e), e \in DOMAIN entries', NEW d \in DOMAIN drivers'
    PROVE  DriverOK(d)'
  <1>1. CASE d \in Drivers
    <2>1. drivers'[d] = drivers[d]
      BY <1>1 DEF NewDrivers
    <2>2. QED
      BY <1>1, <2>1, SameDriverOK
  <1>2. CASE d \notin Drivers
    <2>1. /\ drivers'[d].parent = e
          /\ drivers'[d].ioctl = None
          /\ \A v \in Commands : drivers'[d].opens[v] = None
          /\ drivers'[d].non_open_parent = <<>>
      BY <1>2 DEF NewDrivers
    <2>2. QED
      BY <2>1 DEF DriverOK
  <1>3. QED
    BY <1>1, <1>2

\* Exploring an init function keeps the types,
LEMMA InitType ==
    ASSUME TypeOK, NEW f \in todo_init, AnalysisInitFunction(f)
    PROVE  TypeOK'
  <1>1. Grows /\ entries' \in Seq(Entry)
    BY InitEffect
  <1>2. PICK new \in Nat :
            /\ NewDrivers(new) /\ new \in DOMAIN entries'
            /\ \A e \in DOMAIN entries' : e \in DOMAIN entries \/ e = new
            /\ entries'[new].parent = None
    BY InitEffect
  <1>3. drivers' \in Seq(Driver)
    BY <1>2 DEF NewDrivers
  <1>4. \A e \in DOMAIN entries' : entries'[e].parent \in {None} \cup DOMAIN drivers'
    BY <1>1, <1>2, SameParent
  <1>5. \A d \in DOMAIN drivers' : DriverOK(d)'
    BY <1>1, <1>2, NewDriversOK
  <1>6. /\ walk_order' = walk_order /\ todo_init' \subseteq todo_init
        /\ device_drivers' = device_drivers /\ entry_set' = entry_set
        /\ loop' = loop /\ results' = results /\ todo' = todo
    BY DEF AnalysisInitFunction, worklist
  <1>7. walk_order \in WalkOrders /\ todo_init \subseteq InitFunctions /\ loop \in Loops
    BY DEF TypeOK
  <1>8. QED
    BY <1>1, <1>3, <1>4, <1>5, <1>6, <1>7, SameLists DEF TypeOK

\* Drivers of which only the hash or the commands change.
LEMMA TurnType ==
    ASSUME TypeOK, Grows, drivers' \in Seq(Driver), Drivers' = Drivers, entries' = entries,
           \A d \in Drivers : /\ drivers'[d].ioctl = drivers[d].ioctl
                              /\ drivers'[d].opens = drivers[d].opens
                              /\ drivers'[d].non_open_parent = drivers[d].non_open_parent,
           walk_order' = walk_order, todo_init' = todo_init,
           device_drivers' \subseteq Drivers, entry_set' \subseteq DOMAIN entries,
           loop' \in Loops, results' \in Seq(Drivers), todo' \in Seq(Drivers)
    PROVE  TypeOK'
  <1>1. entries' \in Seq(Entry)
    BY DEF TypeOK
  <1>2. \A e \in DOMAIN entries' : entries'[e].parent \in {None} \cup DOMAIN drivers'
    BY SameParent
  <1>3. \A d \in DOMAIN drivers' : DriverOK(d)'
    BY SameDriverOK DEF Drivers
  <1>4. walk_order \in WalkOrders /\ todo_init \subseteq InitFunctions
    BY DEF TypeOK
  <1>5. DOMAIN drivers' = Drivers
    BY DEF Drivers
  <1>6. QED
    BY <1>1, <1>2, <1>3, <1>4, <1>5 DEF TypeOK

\* Objects that do not change at all.
LEMMA WorklistType ==
    ASSUME TypeOK, UNCHANGED objects, walk_order' = walk_order, todo_init' = todo_init,
           device_drivers' \subseteq Drivers, entry_set' \subseteq DOMAIN entries,
           loop' \in Loops, results' \in Seq(Drivers), todo' \in Seq(Drivers)
    PROVE  TypeOK'
  <1>1. entries' = entries /\ drivers' = drivers /\ Grows
    BY SameObjectsGrow DEF objects
  <1>2. drivers' \in Seq(Driver) /\ Drivers' = Drivers
    BY <1>1 DEF TypeOK, Drivers
  <1>3. QED
    BY <1>1, <1>2, TurnType

\* and so does comparing a hash,
LEMMA KeepType ==
    ASSUME TypeOK, PassInv, Keep
    PROVE  TypeOK'
  <1>1. /\ Grows /\ drivers' \in Seq(Driver) /\ Drivers' = Drivers /\ entries' = entries
        /\ \A d \in Drivers : /\ drivers'[d].ioctl = drivers[d].ioctl
                              /\ drivers'[d].opens = drivers[d].opens
                              /\ drivers'[d].non_open_parent = drivers[d].non_open_parent
    BY KeepEffect
  <1>2. Visit \in Drivers /\ todo' \in Seq(Drivers)
    BY TurnFacts DEF Keep
  <1>3. /\ device_drivers \subseteq Drivers /\ entry_set \subseteq DOMAIN entries
        /\ results \in Seq(Drivers) /\ loop \in Loops
    BY DEF TypeOK, Drivers
  <1>4. /\ walk_order' = walk_order /\ todo_init' = todo_init /\ entry_set' = entry_set
        /\ loop' = loop /\ results' = results
        /\ device_drivers' \subseteq device_drivers \cup {Visit}
    BY DEF Keep
  <1>5. device_drivers' \subseteq Drivers
    BY <1>2, <1>3, <1>4
  <1>6. QED
    BY <1>1, <1>2, <1>3, <1>4, <1>5, TurnType

\* collecting the commands of a driver,
LEMMA CmdType ==
    ASSUME TypeOK, PassInv, EntryInv, InfoInv, CollectCmdAndType
    PROVE  TypeOK'
  <1>1. /\ Grows /\ drivers' \in Seq(Driver) /\ Drivers' = Drivers /\ entries' = entries
        /\ \A d \in Drivers : /\ drivers'[d].ioctl = drivers[d].ioctl
                              /\ drivers'[d].opens = drivers[d].opens
                              /\ drivers'[d].non_open_parent = drivers[d].non_open_parent
    BY CmdEffect
  <1>2. todo' \in Seq(Drivers)
    BY TurnFacts DEF CollectCmdAndType
  <1>3. /\ device_drivers \subseteq Drivers /\ entry_set \subseteq DOMAIN entries
        /\ results \in Seq(Drivers) /\ loop \in Loops
    BY DEF TypeOK, Drivers
  <1>4. /\ walk_order' = walk_order /\ todo_init' = todo_init /\ entry_set' = entry_set
        /\ loop' = loop /\ results' = results /\ device_drivers' = device_drivers
    BY DEF CollectCmdAndType
  <1>5. QED
    BY <1>1, <1>2, <1>3, <1>4, TurnType

\* collecting its information: the new entry exists when the driver points at it,
LEMMA InfoType ==
    ASSUME TypeOK, PassInv, BirthInv, CollectInfo
    PROVE  TypeOK'
  <1>1. /\ Grows /\ drivers' \in Seq(Driver) /\ Drivers' = Drivers /\ entries' \in Seq(Entry)
        /\ \A e \in DOMAIN entries' : e \notin DOMAIN entries =>
              Handler(Visit) # NoHandler /\ e = drivers'[Visit].ioctl
        /\ drivers'[Visit].ioctl # None =>
              /\ Handler(Visit) # NoHandler
              /\ drivers'[Visit].ioctl \in DOMAIN entries'
              /\ entries'[drivers'[Visit].ioctl] = EntryOf(Visit)
    BY InfoEffect
  <1>2. /\ drivers'[Visit].non_open_parent = InfoOf(Visit)
        /\ \A d \in Drivers :
              /\ d # Visit => /\ drivers'[d].ioctl = drivers[d].ioctl
                              /\ drivers'[d].non_open_parent = drivers[d].non_open_parent
              /\ drivers'[d].cmd = drivers[d].cmd
              /\ \A v \in Commands : drivers'[d].opens[v] =
                    IF d = ParentDriver(Visit) /\ v \in CommandsTold(Visit) THEN Visit
                    ELSE drivers[d].opens[v]
    BY InfoEffect
  <1>3. Visit \in Drivers /\ todo' \in Seq(Drivers)
    BY TurnFacts DEF CollectInfo
  <1>4. /\ OpenedBy(Visit) # {} =>
              /\ ParentDriver(Visit) \in Drivers
              /\ Smallest(OpenedBy(Visit)) \in drivers[ParentDriver(Visit)].cmd
        /\ \A v \in CommandsTold(Visit) : OpenedBy(Visit) # {} /\ v = Smallest(OpenedBy(Visit))
    BY <1>3, OpenedByFacts
  <1>5. ASSUME NEW e \in DOMAIN entries'
        PROVE  entries'[e].parent \in {None} \cup DOMAIN drivers'
    <2>1. CASE e \in DOMAIN entries
      BY <1>1, <2>1, SameParent
    <2>2. CASE e \notin DOMAIN entries
      <3>1. e # None
        BY <1>1 DEF None
      <3>2. entries'[e] = EntryOf(Visit) /\ Handler(Visit) # NoHandler
        BY <1>1, <2>2, <3>1
      <3>3. entries'[e].parent = Visit
        BY <1>3, <3>2, EntryOfIsEntry
      <3>4. QED
        BY <1>1, <1>3, <3>3 DEF Drivers
    <2>3. QED
      BY <2>1, <2>2
  <1>6. ASSUME NEW d \in Drivers
        PROVE  DriverOK(d)'
    <2>1. DriverOK(d) /\ Drivers \subseteq DOMAIN drivers' /\ DOMAIN entries \subseteq DOMAIN entries'
          /\ drivers'[d].parent = drivers[d].parent
      BY <1>1, DriverFacts DEF Grows
    <2>2. drivers'[d].parent \in DOMAIN entries'
      BY <2>1 DEF DriverOK
    <2>3. drivers'[d].ioctl \in {None} \cup DOMAIN entries'
      <3>1. CASE d = Visit
        BY <1>1, <3>1
      <3>2. CASE d # Visit
        BY <1>2, <2>1, <3>2 DEF DriverOK
      <3>3. QED
        BY <3>1, <3>2
    <2>4. ASSUME NEW v \in Commands, drivers'[d].opens[v] # None
          PROVE  v \in drivers'[d].cmd /\ drivers'[d].opens[v] \in DOMAIN drivers'
      <3>1. CASE d = ParentDriver(Visit) /\ v \in CommandsTold(Visit)
        <4>1. v \in drivers[d].cmd /\ drivers'[d].opens[v] = Visit
          BY <1>2, <1>4, <3>1
        <4>2. QED
          BY <1>2, <1>3, <2>1, <4>1
      <3>2. CASE ~ (d = ParentDriver(Visit) /\ v \in CommandsTold(Visit))
        <4>1. drivers'[d].opens[v] = drivers[d].opens[v] /\ drivers'[d].cmd = drivers[d].cmd
          BY <1>2, <3>2
        <4>2. v \in drivers[d].cmd /\ drivers[d].opens[v] \in Drivers
          BY <2>1, <2>4, <4>1 DEF DriverOK, Drivers
        <4>3. QED
          BY <2>1, <4>1, <4>2
      <3>3. QED
        BY <3>1, <3>2
    <2>5. ASSUME drivers'[d].non_open_parent # <<>>
          PROVE  /\ drivers'[d].non_open_parent[1] \in DOMAIN drivers'
                 /\ drivers'[d].non_open_parent[2] \in drivers'[drivers'[d].non_open_parent[1]].cmd
      <3> DEFINE a == drivers'[d].non_open_parent
      <3>1. a[1] \in Drivers /\ a[2] \in drivers[a[1]].cmd
        <4>1. CASE d = Visit
          <5>1. a = InfoOf(Visit) /\ InfoOf(Visit) # <<>>
            BY <1>2, <2>5, <4>1
          <5>2. OpenedBy(Visit) # {} /\ a = <<ParentDriver(Visit), Smallest(OpenedBy(Visit))>>
            BY <5>1 DEF InfoOf
          <5>3. QED
            BY <1>4, <5>2
        <4>2. CASE d # Visit
          <5>1. a = drivers[d].non_open_parent /\ a # <<>>
            BY <1>2, <2>5, <4>2
          <5>2. QED
            BY <2>1, <5>1 DEF DriverOK, Drivers
        <4>3. QED
          BY <4>1, <4>2
      <3> HIDE DEF a
      <3>2. a[1] \in DOMAIN drivers' /\ a[2] \in drivers'[a[1]].cmd
        BY <1>2, <2>1, <3>1
      <3>3. QED
        BY <3>2 DEF a
    <2>6. QED
      BY <2>2, <2>3, <2>4, <2>5 DEF DriverOK
  <1>7. /\ walk_order' = walk_order /\ todo_init' = todo_init /\ entry_set' = entry_set
        /\ loop' = loop /\ results' = results /\ device_drivers' = device_drivers
    BY DEF CollectInfo
  <1>8. walk_order \in WalkOrders /\ todo_init \subseteq InitFunctions /\ loop \in Loops
    BY DEF TypeOK
  <1>9. DOMAIN drivers' = Drivers
    BY <1>1 DEF Drivers
  <1>10. QED
    BY <1>1, <1>3, <1>5, <1>6, <1>7, <1>8, <1>9, SameLists DEF TypeOK

\* putting it on the worklist,
LEMMA EnterType ==
    ASSUME TypeOK, PassInv, CollectEntryFunction
    PROVE  TypeOK'
  <1>1. Visit \in Drivers /\ todo' \in Seq(Drivers)
    BY TurnFacts DEF CollectEntryFunction
  <1>2. drivers[Visit].ioctl # None => drivers[Visit].ioctl \in DOMAIN entries
    BY <1>1, DriverFacts
  <1>3. entry_set' \subseteq DOMAIN entries
    BY <1>2 DEF CollectEntryFunction, TypeOK
  <1>4. /\ device_drivers \subseteq Drivers /\ results \in Seq(Drivers) /\ loop \in Loops
    BY DEF TypeOK, Drivers
  <1>5. /\ walk_order' = walk_order /\ todo_init' = todo_init /\ UNCHANGED objects
        /\ loop' = loop /\ results' = results /\ device_drivers' = device_drivers
    BY DEF CollectEntryFunction
  <1>6. QED
    BY <1>1, <1>3, <1>4, <1>5, WorklistType

\* starting the first pass,
LEMMA StartType ==
    ASSUME TypeOK, StartKeeping
    PROVE  TypeOK'
  <1>1. results' \in Seq(Drivers) /\ todo' \in Seq(Drivers)
    BY StartEffect
  <1>2. /\ device_drivers \subseteq Drivers /\ entry_set \subseteq DOMAIN entries
    BY DEF TypeOK, Drivers
  <1>3. /\ walk_order' = walk_order /\ todo_init' = todo_init /\ UNCHANGED objects
        /\ loop' \in Loops /\ entry_set' = entry_set /\ device_drivers' = device_drivers
    BY DEF StartKeeping, Loops
  <1>4. QED
    BY <1>1, <1>2, <1>3, WorklistType

\* starting another loop,
LEMMA LoopType ==
    ASSUME TypeOK, PassInv, NextLoop
    PROVE  TypeOK'
  <1>1. results' \in Seq(Drivers)
    BY LoopEffect
  <1>2. todo' \in Seq(Drivers)
    <2>1. todo' = results' \/ todo' = <<>>
      BY LoopEffect
    <2>2. <<>> \in Seq(Drivers)
      OBVIOUS
    <2>3. QED
      BY <1>1, <2>1, <2>2
  <1>3. loop' \in Loops
    <2>1. loop \in Loops /\ loop \notin {"init", "pick"}
      BY DEF TypeOK, NextLoop
    <2>2. loop' = CASE loop \in {"dedup", "keep"} -> "info"
                    [] loop = "info"  -> "cmd"
                    [] loop = "cmd"   -> "entry"
                    [] loop = "entry" -> "pick"
      BY DEF NextLoop
    <2>3. QED
      BY <2>1, <2>2 DEF Loops
  <1>4. device_drivers \subseteq Drivers /\ entry_set \subseteq DOMAIN entries
    BY DEF TypeOK, Drivers
  <1>5. /\ walk_order' = walk_order /\ todo_init' = todo_init /\ UNCHANGED objects
        /\ entry_set' = entry_set /\ device_drivers' = device_drivers
    BY DEF NextLoop
  <1>6. QED
    BY <1>1, <1>2, <1>3, <1>4, <1>5, WorklistType

\* and exploring it.
LEMMA EntryType ==
    ASSUME TypeOK, EntryInv, NEW e \in entry_set, AnalysisEntry(e)
    PROVE  TypeOK'
  <1>1. /\ Grows /\ NewDrivers(e) /\ entries' = entries /\ e \in DOMAIN entries
        /\ results' \in Seq(Drivers') /\ todo' = results'
    BY EntryEffect
  <1>2. entries' \in Seq(Entry) /\ drivers' \in Seq(Driver)
    BY <1>1 DEF TypeOK, NewDrivers
  <1>3. \A x \in DOMAIN entries' : entries'[x].parent \in {None} \cup DOMAIN drivers'
    BY <1>1, SameParent
  <1>4. \A d \in DOMAIN drivers' : DriverOK(d)'
    BY <1>1, NewDriversOK
  <1>5. /\ walk_order' = walk_order /\ todo_init' = todo_init /\ loop' \in Loops
        /\ device_drivers' = device_drivers /\ entry_set' \subseteq entry_set
    BY DEF AnalysisEntry, Left, Loops
  <1>6. walk_order \in WalkOrders /\ todo_init \subseteq InitFunctions
    BY DEF TypeOK
  <1>7. results' \in Seq(DOMAIN drivers') /\ todo' \in Seq(DOMAIN drivers')
    BY <1>1 DEF Drivers
  <1>8. QED
    BY <1>2, <1>3, <1>4, <1>5, <1>6, <1>7, <1>1, SameLists DEF TypeOK

-----------------------------------------------------------------------------
(***************************************************************************)
(* Every step keeps the loops in order.                                    *)
(***************************************************************************)

\* A turn of a loop leaves it with the rest of its drivers.
LEMMA TurnPass ==
    ASSUME TypeOK, PassInv, todo # <<>>, todo' = Rest, results' = results, loop' = loop,
           loop \notin {"init", "pick"}, Drivers' = Drivers, todo_init' = todo_init,
           loop = "dedup" => entry_set' = {}
    PROVE  PassInv'
  <1>1. /\ \A i, j \in DOMAIN todo' : todo'[i] = todo'[j] => i = j
        /\ Waiting' = Waiting \ {Visit}
        /\ OfPass' = OfPass
    BY TurnFacts
  <1>2. /\ \A i, j \in DOMAIN results : results[i] = results[j] => i = j
        /\ Waiting \subseteq OfPass
        /\ loop = "dedup" => OfPass = Drivers
        /\ todo_init = {}
    BY DEF PassInv
  <1>3. QED
    BY <1>1, <1>2 DEF PassInv

\* Comparing a hash is a turn,
LEMMA KeepPass ==
    ASSUME TypeOK, PassInv, Keep
    PROVE  PassInv'
  <1>1. Drivers' = Drivers
    BY KeepEffect
  <1>2. /\ todo # <<>> /\ todo' = Rest /\ results' = results /\ loop' = loop
        /\ loop \notin {"init", "pick"} /\ todo_init' = todo_init /\ entry_set' = entry_set
    BY DEF Keep
  <1>3. loop = "dedup" => entry_set = {}
    BY DEF PassInv
  <1>4. QED
    BY <1>1, <1>2, <1>3, TurnPass

\* so is collecting information,
LEMMA InfoPass ==
    ASSUME TypeOK, PassInv, BirthInv, CollectInfo
    PROVE  PassInv'
  <1>1. Drivers' = Drivers
    BY InfoEffect
  <1>2. /\ todo # <<>> /\ todo' = Rest /\ results' = results /\ loop' = loop
        /\ loop = "info" /\ todo_init' = todo_init
    BY DEF CollectInfo
  <1>3. QED
    BY <1>1, <1>2, TurnPass

\* collecting commands,
LEMMA CmdPass ==
    ASSUME TypeOK, PassInv, EntryInv, InfoInv, CollectCmdAndType
    PROVE  PassInv'
  <1>1. Drivers' = Drivers
    BY CmdEffect
  <1>2. /\ todo # <<>> /\ todo' = Rest /\ results' = results /\ loop' = loop
        /\ loop = "cmd" /\ todo_init' = todo_init
    BY DEF CollectCmdAndType
  <1>3. QED
    BY <1>1, <1>2, TurnPass

\* and putting an entry on the worklist.
LEMMA EnterPass ==
    ASSUME TypeOK, PassInv, CollectEntryFunction
    PROVE  PassInv'
  <1>1. /\ todo # <<>> /\ todo' = Rest /\ results' = results /\ loop' = loop
        /\ loop = "entry" /\ todo_init' = todo_init /\ UNCHANGED objects
    BY DEF CollectEntryFunction
  <1>2. Drivers' = Drivers
    BY <1>1 DEF Drivers, objects
  <1>3. QED
    BY <1>1, <1>2, TurnPass

\* No pass runs while the init functions are explored.
LEMMA InitPass ==
    ASSUME TypeOK, PassInv, NEW f \in todo_init, AnalysisInitFunction(f)
    PROVE  PassInv'
  <1>1. /\ loop = "init" /\ loop' = loop /\ results' = results /\ todo' = todo
        /\ device_drivers' = device_drivers /\ entry_set' = entry_set
    BY DEF AnalysisInitFunction, worklist
  <1>2. OfPass' = OfPass /\ Waiting' = Waiting
    BY <1>1 DEF OfPass, Waiting
  <1>3. QED
    BY <1>1, <1>2 DEF PassInv

\* The first pass starts with all the drivers,
LEMMA StartPass ==
    ASSUME TypeOK, PassInv, StartKeeping
    PROVE  PassInv'
  <1>1. /\ todo' = results'
        /\ \A i, j \in DOMAIN results' : results'[i] = results'[j] => i = j
        /\ OfPass' = Drivers /\ Waiting' = Drivers
    BY StartEffect
  <1>2. /\ loop = "init" /\ loop' = "dedup" /\ todo_init = {} /\ todo_init' = todo_init
        /\ UNCHANGED objects /\ entry_set' = entry_set
    BY DEF StartKeeping
  <1>3. entry_set = {}
    BY <1>2 DEF PassInv
  <1>4. Drivers' = Drivers
    BY <1>2 DEF Drivers, objects
  <1>5. QED
    BY <1>1, <1>2, <1>3, <1>4 DEF PassInv

\* a new loop with those of its pass,
LEMMA LoopPass ==
    ASSUME TypeOK, PassInv, NextLoop
    PROVE  PassInv'
  <1>1. /\ \A i, j \in DOMAIN results' : results'[i] = results'[j] => i = j
        /\ loop # "entry" => todo' = results' /\ Waiting' = OfPass'
        /\ loop = "entry" => todo' = <<>> /\ Waiting' = {}
    BY LoopEffect
  <1>2. /\ loop \in Loops \ {"init", "pick"}
        /\ loop' = CASE loop \in {"dedup", "keep"} -> "info"
                     [] loop = "info"  -> "cmd"
                     [] loop = "cmd"   -> "entry"
                     [] loop = "entry" -> "pick"
        /\ todo_init' = todo_init
    BY DEF NextLoop, TypeOK
  <1>3. loop' \in {"info", "cmd", "entry", "pick"} /\ (loop' = "pick" => loop = "entry")
    BY <1>2 DEF Loops
  <1>4. todo_init = {}
    BY <1>2 DEF PassInv
  <1>5. \A i, j \in DOMAIN todo' : todo'[i] = todo'[j] => i = j
    BY <1>1
  <1>6. Waiting' \subseteq OfPass' /\ (loop' = "pick" => todo' = <<>>)
    BY <1>1, <1>3
  <1>7. QED
    BY <1>1, <1>2, <1>3, <1>4, <1>5, <1>6 DEF PassInv

\* and a new pass with the new drivers.
LEMMA EntryPass ==
    ASSUME TypeOK, PassInv, EntryInv, NEW e \in entry_set, AnalysisEntry(e)
    PROVE  PassInv'
  <1>1. /\ todo' = results'
        /\ \A i, j \in DOMAIN results' : results'[i] = results'[j] => i = j
        /\ Waiting' = OfPass'
    BY EntryEffect
  <1>2. loop = "pick" /\ loop' = "keep" /\ todo_init' = todo_init
    BY DEF AnalysisEntry
  <1>3. todo_init = {}
    BY <1>2 DEF PassInv
  <1>4. QED
    BY <1>1, <1>2, <1>3 DEF PassInv

-----------------------------------------------------------------------------
(***************************************************************************)
(* Every step keeps drivers and the entries of their handlers together.    *)
(***************************************************************************)

\* An old driver whose ioctl is as it was.
LEMMA SameIoctl ==
    ASSUME TypeOK, EntryInv, Grows, NEW d \in Drivers,
           drivers'[d].ioctl = drivers[d].ioctl, drivers[d].ioctl # None
    PROVE  Handler(d)' # NoHandler /\ entries'[drivers'[d].ioctl] = EntryOf(d)'
  <1>1. Handler(d) # NoHandler /\ entries[drivers[d].ioctl] = EntryOf(d)
    BY DEF EntryInv
  <1>2. drivers[d].ioctl \in DOMAIN entries
    BY DriverFacts
  <1>3. entries'[drivers[d].ioctl] = entries[drivers[d].ioctl]
    BY <1>2 DEF Grows
  <1>4. Handler(d)' = Handler(d) /\ EntryOf(d)' = EntryOf(d)
    BY SameDriver
  <1>5. QED
    BY <1>1, <1>3, <1>4

\* Entries that wait and are as they were.
LEMMA SameWaits ==
    ASSUME TypeOK, EntryInv, Grows, NEW e \in DOMAIN entries,
           entries[e].parent # None, ~ WithinLoop(e)
    PROVE  entries'[e].parent # None /\ ~ WithinLoop(e)'
  BY SameEntry

\* Steps that make neither driver nor entry and set no ioctl.
LEMMA SameEntryInv ==
    ASSUME TypeOK, EntryInv, Grows, Drivers' = Drivers, entries' = entries,
           \A d \in Drivers : drivers'[d].ioctl = drivers[d].ioctl,
           \A e \in entry_set' : /\ e \in DOMAIN entries
                                 /\ entries[e].parent # None /\ ~ WithinLoop(e)
    PROVE  EntryInv'
  <1>1. \A d \in Drivers : drivers'[d].ioctl # None =>
            Handler(d)' # NoHandler /\ entries'[drivers'[d].ioctl] = EntryOf(d)'
    BY SameIoctl
  <1>2. \A e \in DOMAIN entries : entries[e].parent = None => entries[e].handlers = <<>>
    BY DEF EntryInv
  <1>3. \A e \in DOMAIN entries :
            entries[e].parent # None => drivers'[entries[e].parent].ioctl = e
    <2>1. \A e \in DOMAIN entries : entries[e].parent # None =>
              entries[e].parent \in Drivers /\ drivers[entries[e].parent].ioctl = e
      BY EntryFacts DEF EntryInv
    <2>2. QED
      BY <2>1
  <1>4. \A e \in entry_set' : entries'[e].parent # None /\ ~ WithinLoop(e)'
    BY SameWaits
  <1>5. QED
    BY <1>1, <1>2, <1>3, <1>4 DEF EntryInv

\* New drivers have no entry yet, a new entry of an init function serves none.
LEMMA MoreEntryInv ==
    ASSUME TypeOK, EntryInv, Grows, NEW new, NewDrivers(new), entry_set' \subseteq entry_set,
           \A e \in DOMAIN entries' : e \notin DOMAIN entries =>
              entries'[e].parent = None /\ entries'[e].handlers = <<>>
    PROVE  EntryInv'
  <1>1. \A d \in Drivers : drivers'[d] = drivers[d]
    BY DEF NewDrivers
  <1>2. ASSUME NEW d \in Drivers', drivers'[d].ioctl # None
        PROVE  Handler(d)' # NoHandler /\ entries'[drivers'[d].ioctl] = EntryOf(d)'
    <2>1. d \in Drivers
      BY <1>2 DEF NewDrivers, Drivers
    <2>2. QED
      BY <1>1, <1>2, <2>1, SameIoctl
  <1>3. ASSUME NEW e \in DOMAIN entries'
        PROVE  /\ entries'[e].parent = None => entries'[e].handlers = <<>>
               /\ entries'[e].parent # None => drivers'[entries'[e].parent].ioctl = e
    <2>1. CASE e \in DOMAIN entries
      <3>1. /\ entries[e].parent = None => entries[e].handlers = <<>>
            /\ entries[e].parent # None =>
                  entries[e].parent \in Drivers /\ drivers[entries[e].parent].ioctl = e
        BY <2>1, EntryFacts DEF EntryInv
      <3>2. entries'[e] = entries[e]
        BY <2>1 DEF Grows
      <3>3. QED
        BY <1>1, <3>1, <3>2
    <2>2. CASE e \notin DOMAIN entries
      BY <2>2
    <2>3. QED
      BY <2>1, <2>2
  <1>4. ASSUME NEW e \in entry_set'
        PROVE  entries'[e].parent # None /\ ~ WithinLoop(e)'
    <2>1. e \in DOMAIN entries /\ entries[e].parent # None /\ ~ WithinLoop(e)
      BY DEF TypeOK, EntryInv
    <2>2. QED
      BY <2>1, SameWaits
  <1>5. QED
    BY <1>2, <1>3, <1>4 DEF EntryInv

\* The entry collect_info() makes and the visited driver point at each other.
LEMMA InfoEntryInv ==
    ASSUME TypeOK, PassInv, EntryInv, BirthInv, InfoInv, CollectInfo
    PROVE  EntryInv'
  <1>1. /\ Grows /\ Drivers' = Drivers
        /\ \A e \in DOMAIN entries' : e \notin DOMAIN entries =>
              Handler(Visit) # NoHandler /\ e = drivers'[Visit].ioctl
        /\ drivers'[Visit].ioctl # None =>
              /\ Handler(Visit) # NoHandler
              /\ entries'[drivers'[Visit].ioctl] = EntryOf(Visit)
        /\ \A d \in Drivers : d # Visit => drivers'[d].ioctl = drivers[d].ioctl
        /\ entries' \in Seq(Entry)
    BY InfoEffect
  <1>2. Visit \in Drivers /\ Visit \in Waiting /\ Visit \in OfPass /\ loop = "info"
    BY TurnFacts DEF CollectInfo
  <1>3. drivers[Visit].ioctl = None
    <2>1. Uninformed(Visit)
      BY <1>2 DEF Uninformed
    <2>2. QED
      BY <1>2, <2>1 DEF InfoInv, InfoOK
  <1>4. ASSUME NEW d \in Drivers, drivers'[d].ioctl # None
        PROVE  Handler(d)' # NoHandler /\ entries'[drivers'[d].ioctl] = EntryOf(d)'
    <2>1. CASE d = Visit
      <3>1. Handler(d)' = Handler(d) /\ EntryOf(d)' = EntryOf(d)
        BY <1>1, SameDriver
      <3>2. QED
        BY <1>1, <1>4, <2>1, <3>1
    <2>2. CASE d # Visit
      BY <1>1, <1>4, <2>2, SameIoctl
    <2>3. QED
      BY <2>1, <2>2
  <1>5. ASSUME NEW e \in DOMAIN entries'
        PROVE  /\ entries'[e].parent = None => entries'[e].handlers = <<>>
               /\ entries'[e].parent # None => drivers'[entries'[e].parent].ioctl = e
    <2>1. CASE e \in DOMAIN entries
      <3>1. /\ entries[e].parent = None => entries[e].handlers = <<>>
            /\ entries[e].parent # None =>
                  entries[e].parent \in Drivers /\ drivers[entries[e].parent].ioctl = e
            /\ e # None
        BY <2>1, EntryFacts DEF EntryInv
      <3>2. entries'[e] = entries[e]
        BY <1>1, <2>1 DEF Grows
      <3>3. entries[e].parent # Visit
        BY <1>2, <1>3, <3>1, DriverFacts
      <3>4. QED
        BY <1>1, <3>1, <3>2, <3>3
    <2>2. CASE e \notin DOMAIN entries
      <3>1. e # None
        BY <1>1 DEF None
      <3>2. /\ e = drivers'[Visit].ioctl /\ entries'[e] = EntryOf(Visit)
            /\ Handler(Visit) # NoHandler
        BY <1>1, <2>2, <3>1
      <3>3. entries'[e].parent = Visit /\ Visit # None
        BY <1>2, <3>2, EntryOfIsEntry, DriverFacts
      <3>4. QED
        BY <3>2, <3>3
    <2>3. QED
      BY <2>1, <2>2
  <1>6. ASSUME NEW e \in entry_set'
        PROVE  entries'[e].parent # None /\ ~ WithinLoop(e)'
    <2>1. e \in entry_set
      BY DEF CollectInfo
    <2>2. e \in DOMAIN entries /\ entries[e].parent # None /\ ~ WithinLoop(e)
      BY <2>1 DEF TypeOK, EntryInv
    <2>3. QED
      BY <1>1, <2>2, SameWaits
  <1>7. QED
    BY <1>1, <1>4, <1>5, <1>6 DEF EntryInv

\* Comparing a hash sets no ioctl,
LEMMA KeepEntryInv ==
    ASSUME TypeOK, PassInv, EntryInv, Keep
    PROVE  EntryInv'
  <1>1. /\ Grows /\ Drivers' = Drivers /\ entries' = entries
        /\ \A d \in Drivers : drivers'[d].ioctl = drivers[d].ioctl
    BY KeepEffect
  <1>2. \A e \in entry_set' : e \in DOMAIN entries /\ entries[e].parent # None /\ ~ WithinLoop(e)
    BY DEF Keep, TypeOK, EntryInv
  <1>3. QED
    BY <1>1, <1>2, SameEntryInv

\* nor does collecting commands.
LEMMA CmdEntryInv ==
    ASSUME TypeOK, PassInv, EntryInv, InfoInv, CollectCmdAndType
    PROVE  EntryInv'
  <1>1. /\ Grows /\ Drivers' = Drivers /\ entries' = entries
        /\ \A d \in Drivers : drivers'[d].ioctl = drivers[d].ioctl
    BY CmdEffect
  <1>2. \A e \in entry_set' : e \in DOMAIN entries /\ entries[e].parent # None /\ ~ WithinLoop(e)
    BY DEF CollectCmdAndType, TypeOK, EntryInv
  <1>3. QED
    BY <1>1, <1>2, SameEntryInv

\* Only an entry of a driver, not within a loop of names, is put on the worklist.
LEMMA WorklistEntryInv ==
    ASSUME TypeOK, EntryInv, UNCHANGED objects,
           \A e \in entry_set' : /\ e \in DOMAIN entries
                                 /\ entries[e].parent # None /\ ~ WithinLoop(e)
    PROVE  EntryInv'
  <1>1. entries' = entries /\ drivers' = drivers /\ Grows
    BY SameObjectsGrow DEF objects
  <1>2. Drivers' = Drivers /\ \A d \in Drivers : drivers'[d].ioctl = drivers[d].ioctl
    BY <1>1 DEF Drivers
  <1>3. QED
    BY <1>1, <1>2, SameEntryInv

\* The entry put on the worklist is that of a driver and not within a loop.
LEMMA EnterEntryInv ==
    ASSUME TypeOK, PassInv, EntryInv, CollectEntryFunction
    PROVE  EntryInv'
  <1>1. Visit \in Drivers
    BY TurnFacts DEF CollectEntryFunction
  <1>2. ASSUME NEW e \in entry_set'
        PROVE  e \in DOMAIN entries /\ entries[e].parent # None /\ ~ WithinLoop(e)
    <2>1. e \in entry_set \/ (e = drivers[Visit].ioctl /\ e # None /\ ~ WithinLoop(e))
      BY DEF CollectEntryFunction
    <2>2. CASE e \in entry_set
      BY <2>2 DEF TypeOK, EntryInv
    <2>3. CASE e = drivers[Visit].ioctl /\ e # None /\ ~ WithinLoop(e)
      <3>1. e \in DOMAIN entries
        BY <1>1, <2>3, DriverFacts
      <3>2. Handler(Visit) # NoHandler /\ entries[e] = EntryOf(Visit)
        BY <1>1, <2>3 DEF EntryInv
      <3>3. entries[e].parent = Visit /\ Visit # None
        BY <1>1, <3>2, EntryOfIsEntry, DriverFacts
      <3>4. QED
        BY <2>3, <3>1, <3>3
    <2>4. QED
      BY <2>1, <2>2, <2>3
  <1>3. UNCHANGED objects
    BY DEF CollectEntryFunction
  <1>4. QED
    BY <1>2, <1>3, WorklistEntryInv

-----------------------------------------------------------------------------
(***************************************************************************)
(* Every step keeps what is known of how a driver was found.               *)
(***************************************************************************)

\* An old driver was found where it was found.
LEMMA SameBorn ==
    ASSUME TypeOK, BirthInv, Grows, NEW d \in Drivers
    PROVE  BornOK(d)'
  <1>1. BornOK(d) /\ drivers[d].parent \in DOMAIN entries
    BY DriverFacts DEF BirthInv
  <1>2. /\ drivers'[d].finding = drivers[d].finding /\ drivers'[d].parent = drivers[d].parent
        /\ drivers'[d].id = drivers[d].id
    BY DEF Grows
  <1>3. ASSUME NEW e \in DOMAIN entries', drivers'[d].parent = e
        PROVE  drivers'[d].finding \in FoundFrom(e)' /\ Explored(e)' /\ ~ WithinLoop(e)'
    <2>1. e \in DOMAIN entries /\ drivers[d].parent = e
      BY <1>1, <1>2, <1>3
    <2>2. drivers[d].finding \in FoundFrom(e) /\ Explored(e) /\ ~ WithinLoop(e)
      BY <1>1, <2>1 DEF BornOK
    <2>3. QED
      BY <1>2, <2>1, <2>2, SameEntry
  <1>4. QED
    BY <1>1, <1>2, <1>3 DEF BornOK

\* Steps that make no driver and do not start a pass with the parent of a driver.
LEMMA SameBirthInv ==
    ASSUME TypeOK, BirthInv, Grows, Drivers' = Drivers,
           \A d \in Drivers : ParentDriver(d) # None /\ loop' # "pick" =>
              ParentDriver(d) \notin OfPass'
    PROVE  BirthInv'
  <1>1. \A d \in Drivers : BornOK(d)'
    BY SameBorn
  <1>2. \A d \in Drivers : ParentDriver(d)' = ParentDriver(d)
    BY SameDriver
  <1>3. QED
    BY <1>1, <1>2 DEF BirthInv

\* Steps that make the drivers of one entry.
LEMMA MoreBirthInv ==
    ASSUME TypeOK, BirthInv, Grows, NEW new, NewDrivers(new), new \in DOMAIN entries',
           ~ WithinLoop(new)',
           \A d \in Drivers' : ParentDriver(d)' # None => ParentDriver(d)' \notin OfPass'
    PROVE  BirthInv'
  <1>1. Explored(new)'
    <2>1. \A f \in FoundFrom(new)' :
             \E d \in Drivers' : drivers'[d].parent = new /\ drivers'[d].finding = f
      BY DEF NewDrivers, Drivers
    <2>2. QED
      BY <2>1 DEF Explored
  <1>2. ASSUME NEW d \in Drivers'
        PROVE  BornOK(d)'
    <2>1. CASE d \in Drivers
      BY <2>1, SameBorn
    <2>2. CASE d \notin Drivers
      <3>1. /\ drivers'[d].finding \in FoundFrom(new)' /\ drivers'[d].parent = new
            /\ drivers'[d].id # <<>>
        BY <2>2 DEF NewDrivers, Drivers
      <3>2. QED
        BY <1>1, <3>1 DEF BornOK
    <2>3. QED
      BY <2>1, <2>2
  <1>3. QED
    BY <1>2 DEF BirthInv

\* Init functions serve no driver.
LEMMA InitParents ==
    ASSUME TypeOK, EntryInv, InfoInv, loop = "init", NEW d \in Drivers
    PROVE  ParentDriver(d) = None
  <1> DEFINE p == ParentDriver(d)
  <1>1. SUFFICES ASSUME p # None PROVE FALSE
    OBVIOUS
  <1>2. p \in Drivers /\ drivers[d].parent \in DOMAIN entries
    BY <1>1, DriverFacts
  <1>3. drivers[p].ioctl = drivers[d].parent /\ drivers[d].parent # None
    BY <1>1, <1>2, EntryFacts DEF EntryInv, ParentDriver
  <1> HIDE DEF p
  <1>4. drivers[p].ioctl = None
    BY <1>2 DEF InfoInv, InfoOK, Uninformed
  <1>5. QED
    BY <1>3, <1>4

\* The drivers of an init function have no parent.
LEMMA InitBirth ==
    ASSUME TypeOK, PassInv, EntryInv, BirthInv, InfoInv,
           NEW f \in todo_init, AnalysisInitFunction(f)
    PROVE  BirthInv'
  <1>1. Grows
    BY InitEffect
  <1>2. PICK new \in Nat :
            /\ NewDrivers(new) /\ new \in DOMAIN entries'
            /\ entries'[new].parent = None /\ entries'[new].handlers = <<>>
    BY InitEffect
  <1>3. ~ WithinLoop(new)'
    BY <1>2 DEF WithinLoop
  <1>4. ASSUME NEW d \in Drivers'
        PROVE  ParentDriver(d)' = None
    <2>1. CASE d \in Drivers
      <3>1. loop = "init"
        BY DEF AnalysisInitFunction
      <3>2. QED
        BY <1>1, <2>1, <3>1, InitParents, SameDriver
    <2>2. CASE d \notin Drivers
      <3>1. drivers'[d].parent = new
        BY <1>2, <2>2 DEF NewDrivers, Drivers
      <3>2. QED
        BY <1>2, <3>1 DEF ParentDriver
    <2>3. QED
      BY <2>1, <2>2
  <1>5. QED
    BY <1>1, <1>2, <1>3, <1>4, MoreBirthInv

\* Those of an entry have one, which is not of their pass.
LEMMA EntryBirth ==
    ASSUME TypeOK, EntryInv, BirthInv, NEW e \in entry_set, AnalysisEntry(e)
    PROVE  BirthInv'
  <1>1. /\ Grows /\ NewDrivers(e) /\ entries' = entries /\ e \in DOMAIN entries
        /\ entries[e].parent # None /\ ~ WithinLoop(e)
        /\ OfPass' = Drivers' \ Drivers
    BY EntryEffect
  <1>2. ~ WithinLoop(e)'
    BY <1>1, SameEntry
  <1>3. ASSUME NEW d \in Drivers', ParentDriver(d)' # None
        PROVE  ParentDriver(d)' \in Drivers
    <2>1. CASE d \in Drivers
      BY <1>1, <1>3, <2>1, SameDriver, DriverFacts
    <2>2. CASE d \notin Drivers
      <3>1. drivers'[d].parent = e
        BY <1>1, <2>2 DEF NewDrivers, Drivers
      <3>2. ParentDriver(d)' = entries[e].parent
        BY <1>1, <3>1 DEF ParentDriver
      <3>3. QED
        BY <1>1, <3>2, EntryFacts
    <2>3. QED
      BY <2>1, <2>2
  <1>4. QED
    BY <1>1, <1>2, <1>3, MoreBirthInv

\* In the first pass no driver has a parent.
LEMMA StartBirth ==
    ASSUME TypeOK, EntryInv, BirthInv, InfoInv, StartKeeping
    PROVE  BirthInv'
  <1>1. UNCHANGED objects /\ loop = "init"
    BY DEF StartKeeping
  <1>2. \A d \in Drivers : ParentDriver(d) = None
    BY <1>1, InitParents
  <1>3. Drivers' = Drivers /\ Grows
    BY <1>1, SameObjectsGrow DEF objects, Drivers
  <1>4. QED
    BY <1>2, <1>3, SameBirthInv

\* A new loop runs over no more drivers than its pass.
LEMMA LoopBirth ==
    ASSUME TypeOK, PassInv, BirthInv, NextLoop
    PROVE  BirthInv'
  <1>1. UNCHANGED objects /\ loop # "pick"
    BY DEF NextLoop
  <1>2. Drivers' = Drivers /\ Grows
    BY <1>1, SameObjectsGrow DEF objects, Drivers
  <1>3. OfPass' \subseteq OfPass
    <2>1. CASE loop = "dedup"
      <3>1. OfPass' = device_drivers /\ OfPass = Drivers
        BY <2>1, LoopEffect DEF PassInv
      <3>2. QED
        BY <3>1 DEF TypeOK, Drivers
    <2>2. CASE loop # "dedup"
      BY <2>2, LoopEffect
    <2>3. QED
      BY <2>1, <2>2
  <1>4. \A d \in Drivers : ParentDriver(d) # None => ParentDriver(d) \notin OfPass'
    BY <1>1, <1>3 DEF BirthInv
  <1>5. QED
    BY <1>2, <1>4, SameBirthInv

\* The turns of a loop stay within its pass.
LEMMA TurnBirth ==
    ASSUME TypeOK, BirthInv, Grows, Drivers' = Drivers, loop' = loop, loop # "pick",
           OfPass' = OfPass
    PROVE  BirthInv'
  <1>1. \A d \in Drivers : ParentDriver(d) # None => ParentDriver(d) \notin OfPass'
    BY DEF BirthInv
  <1>2. QED
    BY <1>1, SameBirthInv

-----------------------------------------------------------------------------
(***************************************************************************)
(* Every step keeps what the loops have told the drivers.                  *)
(***************************************************************************)

\* What opens a driver depends on the commands of its parent driver only.
LEMMA SameInfoOf ==
    ASSUME TypeOK, Grows, NEW d \in Drivers,
           ParentDriver(d) # None => drivers'[ParentDriver(d)].cmd = drivers[ParentDriver(d)].cmd
    PROVE  InfoOf(d)' = InfoOf(d)
  <1>1. ParentDriver(d)' = ParentDriver(d) /\ drivers'[d].finding = drivers[d].finding
    BY SameDriver DEF Grows
  <1>2. OpenedBy(d)' = OpenedBy(d)
    BY <1>1 DEF OpenedBy
  <1>3. QED
    BY <1>1, <1>2 DEF InfoOf, Smallest

\* The commands of a driver's handler depend on its ioctl.
LEMMA SameCommandsOf ==
    ASSUME TypeOK, Grows, NEW d \in Drivers, drivers'[d].ioctl = drivers[d].ioctl
    PROVE  CommandsOf(d)' = CommandsOf(d)
  BY SameDriver DEF CommandsOf

\* A driver that is told nothing, and whose parent driver is not either.
LEMMA SameInfoOK ==
    ASSUME TypeOK, Grows, NEW d \in Drivers, InfoOK(d), InfoOf(d)' = InfoOf(d),
           drivers'[d].ioctl = drivers[d].ioctl, drivers'[d].cmd = drivers[d].cmd,
           drivers'[d].non_open_parent = drivers[d].non_open_parent,
           Uninformed(d)' => Uninformed(d), Uncommanded(d)' => Uncommanded(d),
           Uncommanded(d) => Uncommanded(d)' \/ drivers[d].ioctl = None
    PROVE  InfoOK(d)'
  <1>1. /\ Uninformed(d)' => drivers'[d].ioctl = None /\ drivers'[d].non_open_parent = <<>>
        /\ drivers'[d].non_open_parent \in {<<>>, InfoOf(d)'}
        /\ drivers'[d].ioctl # None => drivers'[d].non_open_parent = InfoOf(d)'
        /\ Uncommanded(d)' => drivers'[d].cmd = {}
    BY DEF InfoOK
  <1>2. ASSUME ~ Uncommanded(d)' PROVE drivers'[d].cmd = CommandsOf(d)'
    <2>1. CommandsOf(d)' = CommandsOf(d)
      BY SameCommandsOf
    <2>2. CASE Uncommanded(d)
      <3>1. drivers[d].ioctl = None /\ drivers[d].cmd = {}
        BY <1>2, <2>2 DEF InfoOK
      <3>2. CommandsOf(d) = {}
        BY <3>1 DEF CommandsOf
      <3>3. QED
        BY <2>1, <3>1, <3>2
    <2>3. CASE ~ Uncommanded(d)
      BY <2>1, <2>3 DEF InfoOK
    <2>4. QED
      BY <2>2, <2>3
  <1>3. QED
    BY <1>1, <1>2 DEF InfoOK

\* A new driver of a new pass, or of an init function.
LEMMA NewInfoOK ==
    ASSUME TypeOK, NEW new, NewDrivers(new), NEW d \in Drivers', d \notin Drivers, Uncommanded(d)'
    PROVE  InfoOK(d)'
  <1>1. drivers'[d].ioctl = None /\ drivers'[d].non_open_parent = <<>> /\ drivers'[d].cmd = {}
    BY DEF NewDrivers, Drivers
  <1>2. QED
    BY <1>1 DEF InfoOK

\* While the init functions are explored no driver has been told anything.
LEMMA InitInfo ==
    ASSUME TypeOK, InfoInv, NEW f \in todo_init, AnalysisInitFunction(f)
    PROVE  InfoInv'
  <1>1. Grows
    BY InitEffect
  <1>2. PICK new \in Nat : NewDrivers(new)
    BY InitEffect
  <1>3. loop = "init" /\ loop' = "init"
    BY DEF AnalysisInitFunction, worklist
  <1>4. \A d \in Drivers' : Uninformed(d)' /\ Uncommanded(d)'
    BY <1>3 DEF Uninformed, Uncommanded
  <1>5. \A d \in Drivers : Uninformed(d) /\ Uncommanded(d)
    BY <1>3 DEF Uninformed, Uncommanded
  <1>6. \A d \in Drivers : drivers'[d] = drivers[d]
    BY <1>2 DEF NewDrivers
  <1>7. ASSUME NEW d \in Drivers'
        PROVE  InfoOK(d)'
    <2>1. CASE d \in Drivers
      <3>1. InfoOf(d)' = InfoOf(d)
        BY <1>1, <1>6, <2>1, SameInfoOf, DriverFacts
      <3>2. QED
        BY <1>1, <1>4, <1>5, <1>6, <2>1, <3>1, SameInfoOK DEF InfoInv
    <2>2. CASE d \notin Drivers
      BY <1>2, <1>4, <2>2, NewInfoOK
    <2>3. QED
      BY <2>1, <2>2
  <1>8. QED
    BY <1>7 DEF InfoInv

\* The new drivers of a pass have not, the old ones have it all.
LEMMA EntryInfo ==
    ASSUME TypeOK, EntryInv, InfoInv, NEW e \in entry_set, AnalysisEntry(e)
    PROVE  InfoInv'
  <1>1. Grows /\ NewDrivers(e) /\ OfPass' = Drivers' \ Drivers /\ Waiting' = OfPass'
    BY EntryEffect
  <1>2. loop = "pick" /\ loop' = "keep"
    BY DEF AnalysisEntry
  <1>3. \A d \in Drivers' : d \notin Drivers => Uncommanded(d)'
    BY <1>1, <1>2 DEF Uninformed, Uncommanded
  <1>4. \A d \in Drivers : /\ ~ Uninformed(d) /\ ~ Uncommanded(d)
                           /\ ~ Uninformed(d)' /\ ~ Uncommanded(d)'
    BY <1>1, <1>2 DEF Uninformed, Uncommanded
  <1>5. \A d \in Drivers : drivers'[d] = drivers[d]
    BY <1>1 DEF NewDrivers
  <1>6. ASSUME NEW d \in Drivers'
        PROVE  InfoOK(d)'
    <2>1. CASE d \in Drivers
      <3>1. InfoOf(d)' = InfoOf(d)
        BY <1>1, <1>5, <2>1, SameInfoOf, DriverFacts
      <3>2. QED
        BY <1>1, <1>4, <1>5, <2>1, <3>1, SameInfoOK DEF InfoInv
    <2>2. CASE d \notin Drivers
      BY <1>1, <1>3, <2>2, NewInfoOK
    <2>3. QED
      BY <2>1, <2>2
  <1>7. QED
    BY <1>6 DEF InfoInv

\* Steps that tell no driver anything.
LEMMA QuietInfo ==
    ASSUME TypeOK, InfoInv, Grows, Drivers' = Drivers,
           \A d \in Drivers : /\ drivers'[d].ioctl = drivers[d].ioctl
                              /\ drivers'[d].cmd = drivers[d].cmd
                              /\ drivers'[d].non_open_parent = drivers[d].non_open_parent,
           \A d \in Drivers : /\ Uninformed(d)' => Uninformed(d)
                              /\ Uncommanded(d)' => Uncommanded(d)
                              /\ Uncommanded(d) => Uncommanded(d)' \/ drivers[d].ioctl = None
    PROVE  InfoInv'
  <1>1. ASSUME NEW d \in Drivers
        PROVE  InfoOK(d)'
    <2>1. InfoOf(d)' = InfoOf(d)
      BY SameInfoOf, DriverFacts
    <2>2. QED
      BY <2>1, SameInfoOK DEF InfoInv
  <1>2. QED
    BY <1>1 DEF InfoInv

\* Comparing a hash tells nothing,
LEMMA KeepInfo ==
    ASSUME TypeOK, PassInv, InfoInv, Keep
    PROVE  InfoInv'
  <1>1. /\ Grows /\ Drivers' = Drivers
        /\ \A d \in Drivers : /\ drivers'[d].ioctl = drivers[d].ioctl
                              /\ drivers'[d].cmd = drivers[d].cmd
                              /\ drivers'[d].non_open_parent = drivers[d].non_open_parent
    BY KeepEffect
  <1>2. loop \in {"dedup", "keep"} /\ loop' = loop /\ OfPass' = OfPass
    BY TurnFacts DEF Keep
  <1>3. \A d \in Drivers : /\ Uninformed(d)' => Uninformed(d)
                           /\ Uncommanded(d)' => Uncommanded(d)
                           /\ Uncommanded(d) => Uncommanded(d)'
    BY <1>2 DEF Uninformed, Uncommanded
  <1>4. QED
    BY <1>1, <1>3, QuietInfo

\* nor does putting an entry on the worklist,
LEMMA EnterInfo ==
    ASSUME TypeOK, PassInv, InfoInv, CollectEntryFunction
    PROVE  InfoInv'
  <1>1. UNCHANGED objects /\ loop = "entry" /\ loop' = loop
    BY DEF CollectEntryFunction
  <1>2. Grows /\ Drivers' = Drivers /\ drivers' = drivers
    BY <1>1, SameObjectsGrow DEF objects, Drivers
  <1>3. \A d \in Drivers : ~ Uninformed(d)' /\ ~ Uncommanded(d)' /\ ~ Uncommanded(d)
    BY <1>1 DEF Uninformed, Uncommanded
  <1>4. QED
    BY <1>2, <1>3, QuietInfo

\* nor the start of the first pass.
LEMMA StartInfo ==
    ASSUME TypeOK, InfoInv, StartKeeping
    PROVE  InfoInv'
  <1>1. UNCHANGED objects /\ loop = "init" /\ loop' = "dedup"
    BY DEF StartKeeping
  <1>2. Grows /\ Drivers' = Drivers /\ drivers' = drivers
    BY <1>1, SameObjectsGrow DEF objects, Drivers
  <1>3. \A d \in Drivers : Uninformed(d) /\ Uncommanded(d) /\ Uncommanded(d)'
    BY <1>1 DEF Uninformed, Uncommanded
  <1>4. QED
    BY <1>2, <1>3, QuietInfo

\* A new loop starts when all the drivers of the pass have what the last one gives.
LEMMA LoopInfo ==
    ASSUME TypeOK, PassInv, InfoInv, NextLoop
    PROVE  InfoInv'
  <1>1. UNCHANGED objects /\ loop \in {"dedup", "keep", "info", "cmd", "entry"}
    BY DEF NextLoop, TypeOK, Loops
  <1>2. Grows /\ Drivers' = Drivers /\ drivers' = drivers
    BY <1>1, SameObjectsGrow DEF objects, Drivers
  <1>3. loop' = CASE loop \in {"dedup", "keep"} -> "info"
                  [] loop = "info"  -> "cmd"
                  [] loop = "cmd"   -> "entry"
                  [] loop = "entry" -> "pick"
    BY DEF NextLoop
  <1>4. /\ loop # "dedup" => OfPass' = OfPass
        /\ loop # "entry" => Waiting' = OfPass'
        /\ Waiting = {}
    BY LoopEffect
  <1>5. ASSUME NEW d \in Drivers
        PROVE  /\ Uninformed(d)' => Uninformed(d)
               /\ Uncommanded(d)' => Uncommanded(d)
               /\ Uncommanded(d) => Uncommanded(d)' \/ drivers[d].ioctl = None
    <2>1. CASE loop = "dedup"
      <3>1. Uninformed(d) /\ Uncommanded(d)
        BY <2>1 DEF Uninformed, Uncommanded
      <3>2. QED
        BY <3>1 DEF InfoInv, InfoOK
    <2>2. CASE loop = "keep"
      BY <1>3, <1>4, <2>2 DEF Uninformed, Uncommanded
    <2>3. CASE loop = "info"
      BY <1>3, <1>4, <2>3 DEF Uninformed, Uncommanded
    <2>4. CASE loop = "cmd"
      BY <1>3, <1>4, <2>4 DEF Uninformed, Uncommanded
    <2>5. CASE loop = "entry"
      BY <1>3, <1>4, <2>5 DEF Uninformed, Uncommanded
    <2>6. QED
      BY <1>1, <2>1, <2>2, <2>3, <2>4, <2>5
  <1>6. QED
    BY <1>2, <1>5, QuietInfo

\* Only the visited driver gets commands, and no driver of the pass is its child.
LEMMA CmdInfo ==
    ASSUME TypeOK, PassInv, EntryInv, BirthInv, InfoInv, CollectCmdAndType
    PROVE  InfoInv'
  <1>1. /\ Grows /\ Drivers' = Drivers
        /\ drivers'[Visit].cmd = CommandsOf(Visit)
        /\ \A d \in Drivers : /\ d # Visit => drivers'[d].cmd = drivers[d].cmd
                              /\ drivers'[d].ioctl = drivers[d].ioctl
                              /\ drivers'[d].non_open_parent = drivers[d].non_open_parent
    BY CmdEffect
  <1>2. /\ Visit \in Drivers /\ Visit \in OfPass /\ loop = "cmd" /\ loop' = loop
        /\ Waiting' = Waiting \ {Visit} /\ OfPass' = OfPass
    BY TurnFacts DEF CollectCmdAndType
  <1>3. ASSUME NEW d \in Drivers
        PROVE  InfoOf(d)' = InfoOf(d)
    <2>1. ParentDriver(d) # None => ParentDriver(d) \in Drivers /\ ParentDriver(d) # Visit
      BY <1>2, DriverFacts DEF BirthInv
    <2>2. QED
      BY <1>1, <2>1, SameInfoOf
  <1>4. ASSUME NEW d \in Drivers, d # Visit
        PROVE  InfoOK(d)'
    <2>1. /\ Uninformed(d)' => Uninformed(d)
          /\ Uncommanded(d)' => Uncommanded(d)
          /\ Uncommanded(d) => Uncommanded(d)'
      BY <1>2, <1>4 DEF Uninformed, Uncommanded
    <2>2. QED
      BY <1>1, <1>3, <1>4, <2>1, SameInfoOK DEF InfoInv
  <1>5. ASSUME NEW d \in Drivers, d = Visit
        PROVE  InfoOK(d)'
    <2>1. /\ drivers'[d].ioctl = drivers[d].ioctl
          /\ drivers'[d].non_open_parent = drivers[d].non_open_parent
          /\ drivers[d].non_open_parent \in {<<>>, InfoOf(d)}
          /\ drivers[d].ioctl # None => drivers[d].non_open_parent = InfoOf(d)
      BY <1>1 DEF InfoInv, InfoOK
    <2>2. drivers'[d].cmd = CommandsOf(d)'
      BY <1>1, <1>5, SameCommandsOf
    <2>3. ~ Uninformed(d)' /\ ~ Uncommanded(d)'
      BY <1>2, <1>5 DEF Uninformed, Uncommanded
    <2>4. QED
      BY <1>3, <2>1, <2>2, <2>3 DEF InfoOK
  <1>6. QED
    BY <1>1, <1>4, <1>5 DEF InfoInv

\* The visited driver gets its information, with the commands of its parent as they
\* are.
LEMMA InfoInfo ==
    ASSUME TypeOK, PassInv, BirthInv, InfoInv, CollectInfo
    PROVE  InfoInv'
  <1>1. /\ Grows /\ Drivers' = Drivers
        /\ drivers'[Visit].non_open_parent = InfoOf(Visit)
        /\ \A d \in Drivers :
              /\ d # Visit => /\ drivers'[d].ioctl = drivers[d].ioctl
                              /\ drivers'[d].non_open_parent = drivers[d].non_open_parent
              /\ drivers'[d].cmd = drivers[d].cmd
    BY InfoEffect
  <1>2. /\ Visit \in Drivers /\ Visit \in OfPass /\ loop = "info" /\ loop' = loop
        /\ Waiting' = Waiting \ {Visit} /\ OfPass' = OfPass
    BY TurnFacts DEF CollectInfo
  <1>3. ASSUME NEW d \in Drivers
        PROVE  InfoOf(d)' = InfoOf(d)
    <2>1. ParentDriver(d) # None => ParentDriver(d) \in Drivers
      BY DriverFacts
    <2>2. QED
      BY <1>1, <2>1, SameInfoOf
  <1>4. ASSUME NEW d \in Drivers, d # Visit
        PROVE  InfoOK(d)'
    <2>1. /\ Uninformed(d)' => Uninformed(d)
          /\ Uncommanded(d)' => Uncommanded(d)
          /\ Uncommanded(d) => Uncommanded(d)'
      BY <1>2, <1>4 DEF Uninformed, Uncommanded
    <2>2. QED
      BY <1>1, <1>3, <1>4, <2>1, SameInfoOK DEF InfoInv
  <1>5. ASSUME NEW d \in Drivers, d = Visit
        PROVE  InfoOK(d)'
    <2>1. Uncommanded(d) /\ Uncommanded(d)' /\ ~ Uninformed(d)'
      BY <1>2, <1>5 DEF Uninformed, Uncommanded
    <2>2. drivers'[d].cmd = {}
      BY <1>1, <2>1 DEF InfoInv, InfoOK
    <2>3. drivers'[d].non_open_parent = InfoOf(d)'
      BY <1>1, <1>3, <1>5
    <2>4. QED
      BY <2>1, <2>2, <2>3 DEF InfoOK
  <1>6. QED
    BY <1>1, <1>4, <1>5 DEF InfoInv

-----------------------------------------------------------------------------
(***************************************************************************)
(* Every step keeps a driver in device_drivers for each that was compared. *)
(***************************************************************************)

\* A hash that is not written again stays that of its driver.
LEMMA SameHash ==
    ASSUME TypeOK, Grows, NEW k \in Drivers, HashOK(k),
           drivers'[k].id_real_hash = drivers[k].id_real_hash
    PROVE  HashOK(k)'
  <1>1. OpsOf(k)' = OpsOf(k) /\ ParentDriver(k)' = ParentDriver(k) /\ drivers'[k].id = drivers[k].id
    BY SameDriver DEF Grows
  <1>2. QED
    BY <1>1 DEF HashOK

\* A driver that is represented stays so.
LEMMA SameKept ==
    ASSUME TypeOK, Grows, device_drivers \subseteq device_drivers', NEW d \in Drivers, Kept(d)
    PROVE  Kept(d)'
  <1>1. PICK k \in device_drivers : Represents(k, d)
    BY DEF Kept
  <1>2. k \in Drivers
    BY DEF TypeOK, Drivers
  <1>3. Represents(k, d)'
    BY <1>1, <1>2, SameRepresents
  <1>4. QED
    BY <1>3 DEF Kept

\* Steps that compare no hash.
LEMMA QuietKept ==
    ASSUME TypeOK, KeptInv, Grows, device_drivers' = device_drivers,
           \A d \in Drivers : drivers'[d].id_real_hash = drivers[d].id_real_hash,
           \A d \in Drivers : Undecided(d) => Undecided(d)' \/ Kept(d),
           \A d \in Drivers' : d \notin Drivers => Undecided(d)'
    PROVE  KeptInv'
  <1>1. \A k \in device_drivers' : HashOK(k)'
    BY SameHash DEF KeptInv, TypeOK, Drivers
  <1>2. ASSUME NEW d \in Drivers'
        PROVE  Undecided(d)' \/ Kept(d)'
    <2>1. CASE d \notin Drivers
      BY <2>1
    <2>2. CASE d \in Drivers
      <3>1. Undecided(d)' \/ Kept(d)
        BY <2>2 DEF KeptInv
      <3>2. QED
        BY <2>2, <3>1, SameKept
    <2>3. QED
      BY <2>1, <2>2
  <1>3. QED
    BY <1>1, <1>2 DEF KeptInv

\* The visited driver is kept, or has the hash of one that is.
LEMMA KeepKept ==
    ASSUME TypeOK, PassInv, BirthInv, KeptInv, Keep
    PROVE  KeptInv'
  <1>1. /\ Grows /\ Drivers' = Drivers
        /\ drivers'[Visit].id_real_hash = RealHash(Visit)
        /\ \A d \in Drivers : d # Visit => drivers'[d].id_real_hash = drivers[d].id_real_hash
    BY KeepEffect
  <1>2. /\ Visit \in Drivers /\ loop' = loop /\ Waiting' = Waiting \ {Visit}
    BY TurnFacts DEF Keep
  <1>3. /\ RealHash(Visit) # <<>>
        /\ RealHash(Visit)[1] = IF ParentDriver(Visit) = None THEN <<>> ELSE drivers[Visit].id
        /\ RealHash(Visit)[2] = OpsOf(Visit)
    BY <1>2, RealHashType
  <1>4. device_drivers' =
            IF \E k \in device_drivers : drivers[k].id_real_hash = RealHash(Visit)
            THEN device_drivers ELSE device_drivers \cup {Visit}
    BY DEF Keep
  <1>5. device_drivers \subseteq Drivers /\ device_drivers \subseteq device_drivers'
    BY <1>4 DEF TypeOK, Drivers
  <1>6. ASSUME NEW k \in device_drivers'
        PROVE  HashOK(k)'
    <2>1. CASE k = Visit
      <3>1. /\ OpsOf(k)' = OpsOf(k) /\ ParentDriver(k)' = ParentDriver(k)
            /\ drivers'[k].id = drivers[k].id
        BY <1>1, <1>2, <2>1, SameDriver DEF Grows
      <3>2. QED
        BY <1>1, <1>3, <2>1, <3>1 DEF HashOK
    <2>2. CASE k # Visit
      <3>1. k \in device_drivers /\ k \in Drivers
        BY <1>4, <1>5, <2>2
      <3>2. QED
        BY <1>1, <2>2, <3>1, SameHash DEF KeptInv
    <2>3. QED
      BY <2>1, <2>2
  <1>7. ASSUME NEW d \in Drivers, d = Visit
        PROVE  Kept(d)'
    <2>1. CASE \E k \in device_drivers : drivers[k].id_real_hash = RealHash(Visit)
      <3>1. PICK k \in device_drivers : drivers[k].id_real_hash = RealHash(Visit)
        BY <2>1
      <3>2. HashOK(k) /\ k \in Drivers
        BY <1>5 DEF KeptInv
      <3>3. /\ OpsOf(k) = OpsOf(d)
            /\ (IF ParentDriver(k) = None THEN <<>> ELSE drivers[k].id) =
               (IF ParentDriver(d) = None THEN <<>> ELSE drivers[d].id)
        BY <1>3, <1>7, <3>1, <3>2 DEF HashOK
      <3>4. drivers[k].id # <<>> /\ drivers[d].id # <<>>
        BY <3>2 DEF BirthInv, BornOK
      <3>5. Represents(k, d)
        BY <3>3, <3>4 DEF Represents
      <3>6. Kept(d)
        BY <3>5 DEF Kept
      <3>7. QED
        BY <1>1, <1>5, <3>6, SameKept
    <2>2. CASE ~ \E k \in device_drivers : drivers[k].id_real_hash = RealHash(Visit)
      <3>1. d \in device_drivers'
        BY <1>4, <1>7, <2>2
      <3>2. Represents(d, d)'
        BY DEF Represents
      <3>3. QED
        BY <3>1, <3>2 DEF Kept
    <2>3. QED
      BY <2>1, <2>2
  <1>8. ASSUME NEW d \in Drivers, d # Visit
        PROVE  Undecided(d)' \/ Kept(d)'
    <2>1. Undecided(d) => Undecided(d)'
      BY <1>2, <1>8 DEF Undecided
    <2>2. Undecided(d) \/ Kept(d)
      BY DEF KeptInv
    <2>3. QED
      BY <1>1, <1>5, <2>1, <2>2, SameKept
  <1>9. QED
    BY <1>1, <1>6, <1>7, <1>8 DEF KeptInv

\* No hash is compared while the init functions are explored;
LEMMA InitKept ==
    ASSUME TypeOK, KeptInv, NEW f \in todo_init, AnalysisInitFunction(f)
    PROVE  KeptInv'
  <1>1. Grows /\ \E new \in Nat : NewDrivers(new)
    BY InitEffect
  <1>2. loop' = "init" /\ device_drivers' = device_drivers
    BY DEF AnalysisInitFunction, worklist
  <1>3. \A d \in Drivers : drivers'[d].id_real_hash = drivers[d].id_real_hash
    BY <1>1 DEF NewDrivers
  <1>4. \A d : Undecided(d)'
    BY <1>2 DEF Undecided
  <1>5. QED
    BY <1>1, <1>2, <1>3, <1>4, QuietKept

\* those of the new drivers of a pass are yet to be.
LEMMA EntryKept ==
    ASSUME TypeOK, EntryInv, KeptInv, NEW e \in entry_set, AnalysisEntry(e)
    PROVE  KeptInv'
  <1>1. Grows /\ NewDrivers(e) /\ OfPass' = Drivers' \ Drivers /\ Waiting' = OfPass'
    BY EntryEffect
  <1>2. loop = "pick" /\ loop' = "keep" /\ device_drivers' = device_drivers
    BY DEF AnalysisEntry
  <1>3. \A d \in Drivers : drivers'[d].id_real_hash = drivers[d].id_real_hash
    BY <1>1 DEF NewDrivers
  <1>4. \A d \in Drivers : ~ Undecided(d)
    BY <1>2 DEF Undecided
  <1>5. \A d \in Drivers' : d \notin Drivers => Undecided(d)'
    BY <1>1, <1>2 DEF Undecided
  <1>6. QED
    BY <1>1, <1>2, <1>3, <1>4, <1>5, QuietKept

\* Steps that leave the drivers, or do not compare hashes.
LEMMA TurnKept ==
    ASSUME TypeOK, KeptInv, Grows, Drivers' = Drivers, device_drivers' = device_drivers,
           \A d \in Drivers : drivers'[d].id_real_hash = drivers[d].id_real_hash,
           \A d \in Drivers : Undecided(d) => Undecided(d)'
    PROVE  KeptInv'
  BY QuietKept

\* Collecting information writes no hash,
LEMMA InfoKept ==
    ASSUME TypeOK, PassInv, BirthInv, KeptInv, CollectInfo
    PROVE  KeptInv'
  <1>1. /\ Grows /\ Drivers' = Drivers
        /\ \A d \in Drivers : drivers'[d].id_real_hash = drivers[d].id_real_hash
    BY InfoEffect
  <1>2. loop = "info" /\ device_drivers' = device_drivers
    BY DEF CollectInfo
  <1>3. \A d \in Drivers : ~ Undecided(d)
    BY <1>2 DEF Undecided
  <1>4. QED
    BY <1>1, <1>2, <1>3, TurnKept

\* nor does collecting commands.
LEMMA CmdKept ==
    ASSUME TypeOK, PassInv, EntryInv, InfoInv, KeptInv, CollectCmdAndType
    PROVE  KeptInv'
  <1>1. /\ Grows /\ Drivers' = Drivers
        /\ \A d \in Drivers : drivers'[d].id_real_hash = drivers[d].id_real_hash
    BY CmdEffect
  <1>2. loop = "cmd" /\ device_drivers' = device_drivers
    BY DEF CollectCmdAndType
  <1>3. \A d \in Drivers : ~ Undecided(d)
    BY <1>2 DEF Undecided
  <1>4. QED
    BY <1>1, <1>2, <1>3, TurnKept

\* Steps that change no object and decide of no driver,
LEMMA WorklistKept ==
    ASSUME TypeOK, KeptInv, UNCHANGED objects, device_drivers' = device_drivers,
           \A d \in Drivers : Undecided(d) => Undecided(d)'
    PROVE  KeptInv'
  <1>1. Grows /\ Drivers' = Drivers /\ drivers' = drivers
    BY SameObjectsGrow DEF objects, Drivers
  <1>2. QED
    BY <1>1, TurnKept

\* such as putting an entry on the worklist,
LEMMA EnterKept ==
    ASSUME TypeOK, KeptInv, CollectEntryFunction
    PROVE  KeptInv'
  <1>1. UNCHANGED objects /\ device_drivers' = device_drivers /\ loop = "entry"
    BY DEF CollectEntryFunction
  <1>2. \A d \in Drivers : ~ Undecided(d)
    BY <1>1 DEF Undecided
  <1>3. QED
    BY <1>1, <1>2, WorklistKept

\* starting the first pass,
LEMMA StartKept ==
    ASSUME TypeOK, KeptInv, StartKeeping
    PROVE  KeptInv'
  <1>1. UNCHANGED objects /\ device_drivers' = device_drivers /\ loop' = "dedup"
    BY DEF StartKeeping
  <1>2. \A d \in Drivers : Undecided(d)'
    BY <1>1, StartEffect DEF Undecided
  <1>3. QED
    BY <1>1, <1>2, WorklistKept

\* and starting another loop: the drivers of the pass are all decided.
LEMMA LoopKept ==
    ASSUME TypeOK, PassInv, KeptInv, NextLoop
    PROVE  KeptInv'
  <1>1. UNCHANGED objects /\ device_drivers' = device_drivers /\ loop # "init"
    BY DEF NextLoop
  <1>2. \A d \in Drivers : ~ Undecided(d)
    BY <1>1, LoopEffect DEF Undecided
  <1>3. QED
    BY <1>1, <1>2, WorklistKept

-----------------------------------------------------------------------------
(***************************************************************************)
(* Every step keeps handlers served and their entries entered.             *)
(***************************************************************************)

\* A driver that waits goes on waiting or gets its entry.
LEMMA SameServed ==
    ASSUME TypeOK, Grows, NEW k \in Drivers, Served(k),
           Uninformed(k) =>
              Uninformed(k)' \/ drivers'[k].ioctl # None \/ Handler(k) = NoHandler,
           drivers[k].ioctl # None => drivers'[k].ioctl # None
    PROVE  Served(k)'
  <1>1. Handler(k)' = Handler(k)
    BY SameDriver
  <1>2. QED
    BY <1>1 DEF Served

\* A driver goes on being served when all that are served do.
LEMMA SameOpsServed ==
    ASSUME TypeOK, Grows, NEW d \in Drivers, OpsServed(d),
           \A k \in Drivers : Served(k) => Served(k)'
    PROVE  OpsServed(d)'
  <1>1. PICK k \in Drivers : OpsOf(k) = OpsOf(d) /\ Served(k)
    BY DEF OpsServed
  <1>2. k \in Drivers' /\ OpsOf(k)' = OpsOf(d)' /\ Served(k)'
    BY <1>1, SameDriver
  <1>3. QED
    BY <1>2 DEF OpsServed

\* So does an entry, for its exploration.
LEMMA SameEntered ==
    ASSUME TypeOK, Grows, NEW d \in Drivers, NEW e \in DOMAIN entries, Entered(d, e),
           Unentered(d) => Unentered(d)' \/ WithinLoop(e) \/ e \in entry_set',
           e \in entry_set => e \in entry_set' \/ Explored(e)'
    PROVE  Entered(d, e)'
  <1>1. /\ WithinLoop(e) => WithinLoop(e)'
        /\ Explored(e) => Explored(e)'
    BY SameEntry
  <1>2. QED
    BY <1>1 DEF Entered

\* An entry of an old driver, and how it goes on.
LEMMA StillEntered ==
    ASSUME TypeOK, ServedInv, Grows, NEW d \in Drivers, NEW e, e # None,
           drivers[d].ioctl = e,
           Unentered(d) => Unentered(d)' \/ WithinLoop(e) \/ e \in entry_set',
           e \in entry_set => e \in entry_set' \/ Explored(e)'
    PROVE  Entered(d, e)'
  <1>1. e \in DOMAIN entries
    BY DriverFacts
  <1>2. Entered(d, e)
    BY <1>1 DEF ServedInv
  <1>3. QED
    BY <1>1, <1>2, SameEntered

\* Steps that lose no driver that waits and no entry that waits.
LEMMA QuietServed ==
    ASSUME TypeOK, ServedInv, Grows, Drivers' = Drivers, entries' = entries,
           \A d \in Drivers : drivers'[d].ioctl = drivers[d].ioctl,
           \A d \in Drivers : OpsServed(d)',
           \A d \in Drivers, e \in DOMAIN entries : drivers[d].ioctl = e /\ Unentered(d) =>
              Unentered(d)' \/ WithinLoop(e) \/ e \in entry_set',
           entry_set \subseteq entry_set'
    PROVE  ServedInv'
  <1>1. ASSUME NEW d \in Drivers, NEW e \in DOMAIN entries, drivers'[d].ioctl = e
        PROVE  Entered(d, e)'
    <2>1. e # None /\ drivers[d].ioctl = e
      BY <1>1, EntryFacts
    <2>2. QED
      BY <2>1, StillEntered
  <1>2. QED
    BY <1>1 DEF ServedInv

\* Steps that take no driver from those that wait.
LEMMA QuietOpsServed ==
    ASSUME TypeOK, ServedInv, Grows,
           \A d \in Drivers : drivers'[d].ioctl = drivers[d].ioctl,
           \A d \in Drivers : Uninformed(d) => Uninformed(d)',
           NEW d \in Drivers
    PROVE  OpsServed(d)'
  <1>1. \A k \in Drivers : Served(k) => Served(k)'
    BY SameServed
  <1>2. QED
    BY <1>1, SameOpsServed DEF ServedInv

\* Comparing a hash takes none,
LEMMA KeepServed ==
    ASSUME TypeOK, PassInv, ServedInv, Keep
    PROVE  ServedInv'
  <1>1. /\ Grows /\ Drivers' = Drivers /\ entries' = entries
        /\ \A d \in Drivers : drivers'[d].ioctl = drivers[d].ioctl
    BY KeepEffect
  <1>2. loop \in {"dedup", "keep"} /\ loop' = loop /\ OfPass' = OfPass /\ entry_set' = entry_set
    BY TurnFacts DEF Keep
  <1>3. \A d \in Drivers : /\ Uninformed(d) => Uninformed(d)'
                           /\ Unentered(d) => Unentered(d)'
    BY <1>2 DEF Uninformed, Uncommanded, Unentered
  <1>4. \A d \in Drivers : OpsServed(d)'
    BY <1>1, <1>3, QuietOpsServed
  <1>5. QED
    BY <1>1, <1>2, <1>3, <1>4, QuietServed

\* nor does collecting commands.
LEMMA CmdServed ==
    ASSUME TypeOK, PassInv, EntryInv, InfoInv, ServedInv, CollectCmdAndType
    PROVE  ServedInv'
  <1>1. /\ Grows /\ Drivers' = Drivers /\ entries' = entries
        /\ \A d \in Drivers : drivers'[d].ioctl = drivers[d].ioctl
    BY CmdEffect
  <1>2. loop = "cmd" /\ loop' = loop /\ OfPass' = OfPass /\ entry_set' = entry_set
    BY TurnFacts DEF CollectCmdAndType
  <1>3. \A d \in Drivers : /\ Uninformed(d) => Uninformed(d)'
                           /\ Unentered(d) => Unentered(d)'
    BY <1>2 DEF Uninformed, Uncommanded, Unentered
  <1>4. \A d \in Drivers : OpsServed(d)'
    BY <1>1, <1>3, QuietOpsServed
  <1>5. QED
    BY <1>1, <1>2, <1>3, <1>4, QuietServed

\* The entry of the visited driver comes to the worklist or is within a loop.
LEMMA EnterServed ==
    ASSUME TypeOK, PassInv, ServedInv, CollectEntryFunction
    PROVE  ServedInv'
  <1>1. UNCHANGED objects /\ loop = "entry" /\ loop' = loop
    BY DEF CollectEntryFunction
  <1>2. Grows /\ Drivers' = Drivers /\ drivers' = drivers /\ entries' = entries
    BY <1>1, SameObjectsGrow DEF objects, Drivers
  <1>3. Visit \in Drivers /\ Waiting' = Waiting \ {Visit} /\ OfPass' = OfPass
    BY TurnFacts DEF CollectEntryFunction
  <1>4. /\ entry_set \subseteq entry_set'
        /\ \A e \in DOMAIN entries : drivers[Visit].ioctl = e /\ e # None =>
              WithinLoop(e) \/ e \in entry_set'
    BY DEF CollectEntryFunction
  <1>5. \A d \in Drivers : ~ Uninformed(d)
    BY <1>1 DEF Uninformed
  <1>6. \A d \in Drivers : d # Visit /\ Unentered(d) => Unentered(d)'
    BY <1>1, <1>3 DEF Uninformed, Uncommanded, Unentered
  <1>7. ASSUME NEW d \in Drivers, NEW e \in DOMAIN entries, drivers[d].ioctl = e, Unentered(d)
        PROVE  Unentered(d)' \/ WithinLoop(e) \/ e \in entry_set'
    <2>1. e # None
      BY EntryFacts
    <2>2. QED
      BY <1>4, <1>6, <1>7, <2>1
  <1>8. \A d \in Drivers : OpsServed(d)'
    BY <1>2, <1>5, QuietOpsServed
  <1>9. QED
    BY <1>2, <1>4, <1>7, <1>8, QuietServed

\* All the drivers wait at the start of the first pass.
LEMMA StartServed ==
    ASSUME TypeOK, ServedInv, StartKeeping
    PROVE  ServedInv'
  <1>1. UNCHANGED objects /\ loop' = "dedup" /\ entry_set' = entry_set
    BY DEF StartKeeping
  <1>2. Grows /\ Drivers' = Drivers /\ drivers' = drivers /\ entries' = entries
    BY <1>1, SameObjectsGrow DEF objects, Drivers
  <1>3. \A d \in Drivers : Uninformed(d)' /\ Unentered(d)'
    BY <1>1 DEF Uninformed, Uncommanded, Unentered
  <1>4. \A d \in Drivers : OpsServed(d)'
    BY <1>2, <1>3, QuietOpsServed
  <1>5. QED
    BY <1>1, <1>2, <1>3, <1>4, QuietServed

\* After the first pass over hashes, a driver that was not kept is served by the one
\* that stands for it.
LEMMA LoopServed ==
    ASSUME TypeOK, PassInv, InfoInv, KeptInv, ServedInv, NextLoop
    PROVE  ServedInv'
  <1>1. /\ UNCHANGED objects /\ loop \in {"dedup", "keep", "info", "cmd", "entry"}
        /\ entry_set' = entry_set
    BY DEF NextLoop, TypeOK, Loops
  <1>2. Grows /\ Drivers' = Drivers /\ drivers' = drivers /\ entries' = entries
    BY <1>1, SameObjectsGrow DEF objects, Drivers
  <1>3. loop' = CASE loop \in {"dedup", "keep"} -> "info"
                  [] loop = "info"  -> "cmd"
                  [] loop = "cmd"   -> "entry"
                  [] loop = "entry" -> "pick"
    BY DEF NextLoop
  <1>4. /\ loop = "dedup" => OfPass' = device_drivers
        /\ loop # "dedup" => OfPass' = OfPass
        /\ loop # "entry" => Waiting' = OfPass'
        /\ Waiting = {}
    BY LoopEffect
  <1>5. ASSUME NEW d \in Drivers
        PROVE  OpsServed(d)'
    <2>1. CASE loop = "dedup"
      <3>1. ~ Undecided(d)
        BY <1>4, <2>1 DEF Undecided
      <3>2. PICK k \in device_drivers : Represents(k, d)
        BY <3>1 DEF KeptInv, Kept
      <3>3. k \in Drivers /\ OpsOf(k) = OpsOf(d)
        BY <3>2 DEF TypeOK, Drivers, Represents
      <3>4. Uninformed(k)'
        BY <1>3, <1>4, <2>1 DEF Uninformed
      <3>5. k \in Drivers' /\ OpsOf(k)' = OpsOf(d)' /\ Served(k)'
        BY <1>2, <3>3, <3>4, SameDriver DEF Served
      <3>6. QED
        BY <3>5 DEF OpsServed
    <2>2. CASE loop # "dedup"
      <3>1. \A k \in Drivers : Uninformed(k) => Uninformed(k)'
        BY <1>1, <1>3, <1>4, <2>2 DEF Uninformed
      <3>2. QED
        BY <1>2, <3>1, QuietOpsServed
    <2>3. QED
      BY <2>1, <2>2
  <1>6. ASSUME NEW d \in Drivers, NEW e \in DOMAIN entries, drivers[d].ioctl = e, Unentered(d)
        PROVE  Unentered(d)'
    <2>1. CASE loop = "dedup"
      <3>1. Uninformed(d)
        BY <2>1 DEF Uninformed
      <3>2. drivers[d].ioctl = None
        BY <3>1 DEF InfoInv, InfoOK
      <3>3. QED
        BY <1>6, <3>2, EntryFacts
    <2>2. CASE loop = "keep"
      BY <1>3, <1>4, <1>6, <2>2 DEF Uninformed, Uncommanded, Unentered
    <2>3. CASE loop = "info"
      BY <1>3, <1>4, <1>6, <2>3 DEF Uninformed, Uncommanded, Unentered
    <2>4. CASE loop = "cmd"
      BY <1>3, <1>4, <1>6, <2>4 DEF Uninformed, Uncommanded, Unentered
    <2>5. CASE loop = "entry"
      BY <1>3, <1>4, <1>6, <2>5 DEF Uninformed, Uncommanded, Unentered
    <2>6. QED
      BY <1>1, <2>1, <2>2, <2>3, <2>4, <2>5
  <1>7. QED
    BY <1>1, <1>2, <1>5, <1>6, QuietServed

\* While the init functions are explored no driver has an entry, and all wait for one.
LEMMA InitServed ==
    ASSUME TypeOK, InfoInv, NEW f \in todo_init, AnalysisInitFunction(f)
    PROVE  ServedInv'
  <1>1. Grows /\ entries' \in Seq(Entry)
    BY InitEffect
  <1>2. PICK new \in Nat : NewDrivers(new)
    BY InitEffect
  <1>3. loop = "init" /\ loop' = "init"
    BY DEF AnalysisInitFunction, worklist
  <1>4. \A d \in Drivers' : drivers'[d].ioctl = None
    <2>1. \A d \in Drivers : drivers'[d].ioctl = None
      BY <1>2, <1>3 DEF Uninformed, InfoInv, InfoOK, NewDrivers
    <2>2. \A d \in Drivers' : d \notin Drivers => drivers'[d].ioctl = None
      BY <1>2 DEF NewDrivers, Drivers
    <2>3. QED
      BY <2>1, <2>2
  <1>5. \A d \in Drivers' : OpsServed(d)'
    BY <1>3 DEF OpsServed, Served, Uninformed
  <1>6. \A e \in DOMAIN entries' : e # None
    BY <1>1 DEF None
  <1>7. QED
    BY <1>4, <1>5, <1>6 DEF ServedInv

\* An entry that is explored leaves the worklist; its drivers wait for their handlers'.
LEMMA EntryServed ==
    ASSUME TypeOK, EntryInv, ServedInv, NEW e \in entry_set, AnalysisEntry(e)
    PROVE  ServedInv'
  <1>1. Grows /\ NewDrivers(e) /\ entries' = entries /\ OfPass' = Drivers' \ Drivers
    BY EntryEffect
  <1>2. loop = "pick" /\ loop' = "keep" /\ entry_set' = entry_set \ {e}
    BY DEF AnalysisEntry, Left
  <1>3. Explored(e)'
    BY <1>1 DEF NewDrivers, Explored, Drivers
  <1>4. \A d \in Drivers : ~ Uninformed(d) /\ ~ Unentered(d)
    BY <1>2 DEF Uninformed, Uncommanded, Unentered
  <1>5. \A d \in Drivers : drivers'[d] = drivers[d]
    BY <1>1 DEF NewDrivers
  <1>6. \A d \in Drivers' : d \notin Drivers => Uninformed(d)' /\ drivers'[d].ioctl = None
    BY <1>1, <1>2 DEF Uninformed, NewDrivers, Drivers
  <1>7. ASSUME NEW d \in Drivers'
        PROVE  OpsServed(d)'
    <2>1. CASE d \in Drivers
      <3>1. \A k \in Drivers : Served(k) => Served(k)'
        BY <1>1, <1>4, <1>5, SameServed
      <3>2. OpsServed(d)
        BY <2>1 DEF ServedInv
      <3>3. QED
        BY <1>1, <2>1, <3>1, <3>2, SameOpsServed
    <2>2. CASE d \notin Drivers
      BY <1>6, <2>2 DEF OpsServed, Served
    <2>3. QED
      BY <2>1, <2>2
  <1>8. ASSUME NEW d \in Drivers', NEW x \in DOMAIN entries', drivers'[d].ioctl = x
        PROVE  Entered(d, x)'
    <2>1. x \in DOMAIN entries /\ x # None
      BY <1>1, EntryFacts
    <2>2. d \in Drivers /\ drivers[d].ioctl = x
      BY <1>5, <1>6, <1>8, <2>1
    <2>3. x \in entry_set => x \in entry_set' \/ Explored(x)'
      BY <1>2, <1>3
    <2>4. QED
      BY <1>1, <1>4, <2>1, <2>2, <2>3, StillEntered
  <1>9. QED
    BY <1>7, <1>8 DEF ServedInv

\* collect_info() serves the driver, whose entry waits for the loop of entries.
LEMMA InfoServed ==
    ASSUME TypeOK, PassInv, EntryInv, BirthInv, ServedInv, CollectInfo
    PROVE  ServedInv'
  <1>1. /\ Grows /\ Drivers' = Drivers
        /\ \A e \in DOMAIN entries' : e \notin DOMAIN entries => e = drivers'[Visit].ioctl
        /\ drivers'[Visit].ioctl = None => Handler(Visit) = NoHandler
        /\ \A d \in Drivers : d # Visit => drivers'[d].ioctl = drivers[d].ioctl
        /\ entries' \in Seq(Entry)
    BY InfoEffect
  <1>2. /\ Visit \in Drivers /\ Visit \in OfPass /\ loop = "info" /\ loop' = loop
        /\ Waiting' = Waiting \ {Visit} /\ OfPass' = OfPass /\ entry_set' = entry_set
    BY TurnFacts DEF CollectInfo
  <1>3. ASSUME NEW d \in Drivers, d = Visit
        PROVE  Unentered(d)' /\ Served(d)'
    <2>1. Unentered(d)'
      BY <1>2, <1>3 DEF Unentered, Uncommanded
    <2>2. Handler(d)' = Handler(d)
      BY <1>1, SameDriver
    <2>3. QED
      BY <1>1, <1>3, <2>1, <2>2 DEF Served
  <1>4. \A d \in Drivers : /\ Unentered(d) => Unentered(d)'
                           /\ d # Visit /\ Uninformed(d) => Uninformed(d)'
    BY <1>2 DEF Unentered, Uncommanded, Uninformed
  <1>5. ASSUME NEW k \in Drivers, Served(k)
        PROVE  Served(k)'
    <2>1. CASE k = Visit
      BY <1>3, <2>1
    <2>2. CASE k # Visit
      BY <1>1, <1>4, <1>5, <2>2, SameServed
    <2>3. QED
      BY <2>1, <2>2
  <1>6. \A d \in Drivers : OpsServed(d)'
    BY <1>1, <1>5, SameOpsServed DEF ServedInv
  <1>7. ASSUME NEW d \in Drivers, NEW e \in DOMAIN entries', drivers'[d].ioctl = e
        PROVE  Entered(d, e)'
    <2>1. CASE d = Visit
      BY <1>3, <2>1 DEF Entered
    <2>2. CASE d # Visit
      <3>1. e # None /\ drivers[d].ioctl = e
        BY <1>1, <1>7, <2>2 DEF None
      <3>2. QED
        BY <1>1, <1>2, <1>4, <3>1, StillEntered
    <2>3. QED
      BY <2>1, <2>2
  <1>8. QED
    BY <1>1, <1>6, <1>7 DEF ServedInv

-----------------------------------------------------------------------------
(***************************************************************************)
(* Every step keeps what is known of the names above an entry.             *)
(***************************************************************************)

\* A step that makes no entry below another.
LEMMA SameAbove ==
    ASSUME TypeOK, AboveInv, Grows,
           \A e \in DOMAIN entries' : e \notin DOMAIN entries => entries'[e].handlers = <<>>
    PROVE  AboveInv'
  <1>1. SUFFICES ASSUME NEW e \in DOMAIN entries', NEW i \in 1 .. Len(entries'[e].handlers) - 1,
                        NEW h \in FunctionNames, entries'[e].handlers[i] = h
                 PROVE  ExploredName(h)'
    BY DEF AboveInv
  <1>2. e \in DOMAIN entries
    BY <1>1
  <1>3. entries'[e] = entries[e]
    BY <1>2 DEF Grows
  <1>4. ExploredName(h)
    BY <1>1, <1>2, <1>3 DEF AboveInv
  <1>5. QED
    BY <1>4, SameExploredName

\* The last name an entry has met on its way up is its own.
LEMMA LastName ==
    ASSUME TypeOK, EntryInv, NEW e \in DOMAIN entries, entries[e].parent # None
    PROVE  /\ Len(entries[e].handlers) \in Nat /\ Len(entries[e].handlers) > 0
           /\ entries[e].handlers[Len(entries[e].handlers)] = entries[e].name
           /\ entries[e].name = Handler(entries[e].parent)
           /\ Handler(entries[e].parent) # NoHandler
           /\ entries[e].parent \in Drivers
           /\ drivers[entries[e].parent].ioctl = e
  <1>1. PICK p \in Drivers : p = entries[e].parent
    BY EntryFacts
  <1>2. drivers[p].ioctl = e /\ e # None
    BY <1>1, EntryFacts DEF EntryInv
  <1>3. Handler(p) # NoHandler /\ entries[e] = EntryOf(p)
    BY <1>2 DEF EntryInv
  <1>4. /\ entries[e].name = Handler(p)
        /\ entries[e].handlers = Append(entries[drivers[p].parent].handlers, Handler(p))
    BY <1>3, EntryOfIsEntry
  <1>5. PICK hs \in Seq(FunctionNames), h \in FunctionNames :
           entries[e].handlers = Append(hs, h) /\ h = Handler(p)
    <2>1. entries[drivers[p].parent].handlers \in Seq(FunctionNames)
      BY DriverFacts, EntryFacts
    <2>2. Handler(p) \in FunctionNames
      BY <1>3, DriverFacts
    <2>3. QED
      BY <1>4, <2>1, <2>2
  <1>6. /\ Len(entries[e].handlers) \in Nat /\ Len(entries[e].handlers) > 0
        /\ entries[e].handlers[Len(entries[e].handlers)] = Handler(p)
    <2>1. /\ Len(Append(hs, h)) = Len(hs) + 1 /\ Len(hs) \in Nat
          /\ Append(hs, h)[Len(hs) + 1] = h
      BY AppendProperties
    <2>2. QED
      BY <1>5, <2>1
  <1>7. QED
    BY <1>1, <1>2, <1>3, <1>4, <1>6

\* An entry that has been explored, as have those above it, is above the new one.
LEMMA InfoAbove ==
    ASSUME TypeOK, PassInv, EntryInv, BirthInv, AboveInv, CollectInfo
    PROVE  AboveInv'
  <1>1. /\ Grows
        /\ \A e \in DOMAIN entries' : e \notin DOMAIN entries =>
              Handler(Visit) # NoHandler /\ e = drivers'[Visit].ioctl
        /\ drivers'[Visit].ioctl # None => entries'[drivers'[Visit].ioctl] = EntryOf(Visit)
        /\ entries' \in Seq(Entry)
    BY InfoEffect
  <1>2. Visit \in Drivers
    BY TurnFacts DEF CollectInfo
  <1>3. SUFFICES ASSUME NEW e \in DOMAIN entries', NEW i \in 1 .. Len(entries'[e].handlers) - 1,
                        NEW h \in FunctionNames, entries'[e].handlers[i] = h
                 PROVE  ExploredName(h)
    BY <1>1, SameExploredName DEF AboveInv
  <1>4. CASE e \in DOMAIN entries
    <2>1. entries'[e] = entries[e]
      BY <1>1, <1>4 DEF Grows
    <2>2. QED
      BY <1>3, <1>4, <2>1 DEF AboveInv
  <1>5. CASE e \notin DOMAIN entries
    <2> DEFINE a == drivers[Visit].parent
               hs == entries[a].handlers
    <2>1. e # None /\ e = drivers'[Visit].ioctl /\ Handler(Visit) # NoHandler
      BY <1>1, <1>5 DEF None
    <2>2. entries'[e] = EntryOf(Visit)
      BY <1>1, <2>1
    <2>3. entries'[e].handlers = Append(hs, Handler(Visit))
      BY <1>2, <2>1, <2>2, EntryOfIsEntry
    <2>4. a \in DOMAIN entries /\ Explored(a) /\ hs \in Seq(FunctionNames)
      BY <1>2, DriverFacts, EntryFacts DEF BirthInv, BornOK
    <2>5. /\ Len(entries'[e].handlers) = Len(hs) + 1 /\ Len(hs) \in Nat
          /\ \A j \in 1 .. Len(hs) : entries'[e].handlers[j] = hs[j]
      <3> HIDE DEF hs
      <3>1. Handler(Visit) \in FunctionNames
        BY <1>2, <2>1, DriverFacts
      <3>2. QED
        BY <2>3, <2>4, <3>1, AppendProperties
    <2>6. i \in 1 .. Len(hs) /\ hs[i] = h
      BY <1>3, <2>5
    <2>7. CASE i = Len(hs)
      <3>1. entries[a].parent # None
        BY <2>4, <2>6 DEF EntryInv
      <3>2. entries[a].name = h
        BY <2>4, <2>6, <2>7, <3>1, LastName
      <3>3. QED
        BY <2>4, <3>1, <3>2 DEF ExploredName
    <2>8. CASE i # Len(hs)
      <3>1. i \in 1 .. Len(entries[a].handlers) - 1 /\ entries[a].handlers[i] = h
        BY <2>5, <2>6, <2>8
      <3>2. QED
        BY <2>4, <3>1 DEF AboveInv
    <2>9. QED
      BY <2>7, <2>8
  <1>6. QED
    BY <1>4, <1>5

\* The entry of an init function is below no other.
LEMMA InitAbove ==
    ASSUME TypeOK, AboveInv, NEW f \in todo_init, AnalysisInitFunction(f)
    PROVE  AboveInv'
  <1>1. Grows
    BY InitEffect
  <1>2. \A e \in DOMAIN entries' : e \notin DOMAIN entries => entries'[e].handlers = <<>>
    BY InitEffect
  <1>3. QED
    BY <1>1, <1>2, SameAbove

\* Steps that make no entry.
LEMMA QuietAbove ==
    ASSUME TypeOK, AboveInv, Grows, entries' = entries
    PROVE  AboveInv'
  BY SameAbove

-----------------------------------------------------------------------------
(***************************************************************************)
(* The inductive invariant.                                                *)
(***************************************************************************)
Inv ==
    /\ TypeOK
    /\ PassInv
    /\ EntryInv
    /\ BirthInv
    /\ InfoInv
    /\ KeptInv
    /\ ServedInv
    /\ AboveInv

\* It holds before the first init function is explored: there is no object.
LEMMA InitInv ==
    ASSUME Init
    PROVE  Inv
  <1>1. /\ walk_order \in WalkOrders /\ todo_init = InitFunctions
        /\ entries = <<>> /\ drivers = <<>> /\ device_drivers = {} /\ entry_set = {}
        /\ loop = "init" /\ results = <<>> /\ todo = <<>>
    BY DEF Init
  <1>2. DOMAIN entries = {} /\ DOMAIN drivers = {} /\ Drivers = {}
    BY <1>1 DEF Drivers
  <1>3. TypeOK
    BY <1>1, <1>2 DEF TypeOK, Loops
  <1>4. Waiting = {}
    BY <1>1 DEF Waiting
  <1>5. PassInv
    BY <1>1, <1>4 DEF PassInv
  <1>6. EntryInv /\ BirthInv /\ InfoInv
    BY <1>1, <1>2 DEF EntryInv, BirthInv, InfoInv
  <1>7. KeptInv /\ ServedInv /\ AboveInv
    BY <1>1, <1>2 DEF KeptInv, ServedInv, AboveInv
  <1>8. QED
    BY <1>3, <1>5, <1>6, <1>7 DEF Inv

\* Exploring an init function keeps it.
LEMMA InitStep ==
    ASSUME Inv, NEW f \in todo_init, AnalysisInitFunction(f)
    PROVE  Inv'
  <1>1. /\ TypeOK /\ PassInv /\ EntryInv /\ BirthInv
        /\ InfoInv /\ KeptInv /\ ServedInv /\ AboveInv
    BY DEF Inv
  <1>2. TypeOK' /\ PassInv' /\ BirthInv'
    BY <1>1, InitType, InitPass, InitBirth
  <1>3. EntryInv'
    <2>1. Grows /\ entry_set' = entry_set
      BY <1>1, InitEffect DEF AnalysisInitFunction
    <2>2. PICK new \in Nat :
             /\ NewDrivers(new)
             /\ \A e \in DOMAIN entries' : e \in DOMAIN entries \/ e = new
             /\ entries'[new].parent = None
             /\ entries'[new].handlers = <<>>
      BY <1>1, InitEffect
    <2>3. QED
      BY <1>1, <2>1, <2>2, MoreEntryInv
  <1>4. InfoInv' /\ KeptInv' /\ ServedInv' /\ AboveInv'
    BY <1>1, InitInfo, InitKept, InitServed, InitAbove
  <1>5. QED
    BY <1>2, <1>3, <1>4 DEF Inv

\* So does the start of the first pass,
LEMMA StartStep ==
    ASSUME Inv, StartKeeping
    PROVE  Inv'
  <1>1. /\ TypeOK /\ PassInv /\ EntryInv /\ BirthInv
        /\ InfoInv /\ KeptInv /\ ServedInv /\ AboveInv
    BY DEF Inv
  <1>2. TypeOK' /\ PassInv' /\ BirthInv'
    BY <1>1, StartType, StartPass, StartBirth
  <1>3. EntryInv' /\ AboveInv'
    <2>1. UNCHANGED objects /\ entry_set' = entry_set
      BY DEF StartKeeping
    <2>2. Grows /\ entries' = entries
      BY <2>1, SameObjectsGrow DEF objects
    <2>3. \A e \in entry_set' : e \in DOMAIN entries /\ entries[e].parent # None /\ ~ WithinLoop(e)
      BY <1>1, <2>1 DEF TypeOK, EntryInv
    <2>4. QED
      BY <1>1, <2>1, <2>2, <2>3, WorklistEntryInv, QuietAbove
  <1>4. InfoInv' /\ KeptInv' /\ ServedInv'
    BY <1>1, StartInfo, StartKept, StartServed
  <1>5. QED
    BY <1>2, <1>3, <1>4 DEF Inv

\* comparing a hash,
LEMMA KeepStep ==
    ASSUME Inv, Keep
    PROVE  Inv'
  <1>1. /\ TypeOK /\ PassInv /\ EntryInv /\ BirthInv
        /\ InfoInv /\ KeptInv /\ ServedInv /\ AboveInv
    BY DEF Inv
  <1>2. TypeOK' /\ PassInv' /\ EntryInv'
    BY <1>1, KeepType, KeepPass, KeepEntryInv
  <1>3. BirthInv' /\ AboveInv'
    <2>1. Grows /\ Drivers' = Drivers /\ entries' = entries
      BY <1>1, KeepEffect
    <2>2. loop' = loop /\ loop # "pick" /\ OfPass' = OfPass
      BY DEF Keep, OfPass
    <2>3. QED
      BY <1>1, <2>1, <2>2, TurnBirth, QuietAbove
  <1>4. InfoInv' /\ KeptInv' /\ ServedInv'
    BY <1>1, KeepInfo, KeepKept, KeepServed
  <1>5. QED
    BY <1>2, <1>3, <1>4 DEF Inv

\* collecting the information of a driver,
LEMMA InfoStep ==
    ASSUME Inv, CollectInfo
    PROVE  Inv'
  <1>1. /\ TypeOK /\ PassInv /\ EntryInv /\ BirthInv
        /\ InfoInv /\ KeptInv /\ ServedInv /\ AboveInv
    BY DEF Inv
  <1>2. TypeOK' /\ PassInv' /\ EntryInv'
    BY <1>1, InfoType, InfoPass, InfoEntryInv
  <1>3. BirthInv'
    <2>1. Grows /\ Drivers' = Drivers
      BY <1>1, InfoEffect
    <2>2. loop' = loop /\ loop # "pick" /\ OfPass' = OfPass
      BY DEF CollectInfo, OfPass
    <2>3. QED
      BY <1>1, <2>1, <2>2, TurnBirth
  <1>4. InfoInv' /\ KeptInv' /\ ServedInv' /\ AboveInv'
    BY <1>1, InfoInfo, InfoKept, InfoServed, InfoAbove
  <1>5. QED
    BY <1>2, <1>3, <1>4 DEF Inv

\* its commands,
LEMMA CmdStep ==
    ASSUME Inv, CollectCmdAndType
    PROVE  Inv'
  <1>1. /\ TypeOK /\ PassInv /\ EntryInv /\ BirthInv
        /\ InfoInv /\ KeptInv /\ ServedInv /\ AboveInv
    BY DEF Inv
  <1>2. TypeOK' /\ PassInv' /\ EntryInv'
    BY <1>1, CmdType, CmdPass, CmdEntryInv
  <1>3. BirthInv' /\ AboveInv'
    <2>1. Grows /\ Drivers' = Drivers /\ entries' = entries
      BY <1>1, CmdEffect
    <2>2. loop' = loop /\ loop # "pick" /\ OfPass' = OfPass
      BY DEF CollectCmdAndType, OfPass
    <2>3. QED
      BY <1>1, <2>1, <2>2, TurnBirth, QuietAbove
  <1>4. InfoInv' /\ KeptInv' /\ ServedInv'
    BY <1>1, CmdInfo, CmdKept, CmdServed
  <1>5. QED
    BY <1>2, <1>3, <1>4 DEF Inv

\* putting its entry on the worklist,
LEMMA EnterStep ==
    ASSUME Inv, CollectEntryFunction
    PROVE  Inv'
  <1>1. /\ TypeOK /\ PassInv /\ EntryInv /\ BirthInv
        /\ InfoInv /\ KeptInv /\ ServedInv /\ AboveInv
    BY DEF Inv
  <1>2. TypeOK' /\ PassInv' /\ EntryInv'
    BY <1>1, EnterType, EnterPass, EnterEntryInv
  <1>3. BirthInv' /\ AboveInv'
    <2>1. UNCHANGED objects
      BY DEF CollectEntryFunction
    <2>2. Grows /\ Drivers' = Drivers /\ entries' = entries
      BY <2>1, SameObjectsGrow DEF objects, Drivers
    <2>3. loop' = loop /\ loop # "pick" /\ OfPass' = OfPass
      BY DEF CollectEntryFunction, OfPass
    <2>4. QED
      BY <1>1, <2>2, <2>3, TurnBirth, QuietAbove
  <1>4. InfoInv' /\ KeptInv' /\ ServedInv'
    BY <1>1, EnterInfo, EnterKept, EnterServed
  <1>5. QED
    BY <1>2, <1>3, <1>4 DEF Inv

\* going on to the next loop,
LEMMA LoopStep ==
    ASSUME Inv, NextLoop
    PROVE  Inv'
  <1>1. /\ TypeOK /\ PassInv /\ EntryInv /\ BirthInv
        /\ InfoInv /\ KeptInv /\ ServedInv /\ AboveInv
    BY DEF Inv
  <1>2. TypeOK' /\ PassInv' /\ BirthInv'
    BY <1>1, LoopType, LoopPass, LoopBirth
  <1>3. EntryInv' /\ AboveInv'
    <2>1. UNCHANGED objects /\ entry_set' = entry_set
      BY DEF NextLoop
    <2>2. Grows /\ entries' = entries
      BY <2>1, SameObjectsGrow DEF objects
    <2>3. \A e \in entry_set' : e \in DOMAIN entries /\ entries[e].parent # None /\ ~ WithinLoop(e)
      BY <1>1, <2>1 DEF TypeOK, EntryInv
    <2>4. QED
      BY <1>1, <2>1, <2>2, <2>3, WorklistEntryInv, QuietAbove
  <1>4. InfoInv' /\ KeptInv' /\ ServedInv'
    BY <1>1, LoopInfo, LoopKept, LoopServed
  <1>5. QED
    BY <1>2, <1>3, <1>4 DEF Inv

\* and exploring an entry of the worklist.
LEMMA EntryStep ==
    ASSUME Inv, NEW e \in entry_set, AnalysisEntry(e)
    PROVE  Inv'
  <1>1. /\ TypeOK /\ PassInv /\ EntryInv /\ BirthInv
        /\ InfoInv /\ KeptInv /\ ServedInv /\ AboveInv
    BY DEF Inv
  <1>2. TypeOK' /\ PassInv' /\ BirthInv'
    BY <1>1, EntryType, EntryPass, EntryBirth
  <1>3. EntryInv' /\ AboveInv'
    <2>1. Grows /\ entries' = entries /\ NewDrivers(e)
      BY <1>1, EntryEffect
    <2>2. entry_set' \subseteq entry_set
      BY DEF AnalysisEntry, Left
    <2>3. EntryInv'
      BY <1>1, <2>1, <2>2, MoreEntryInv
    <2>4. QED
      BY <1>1, <2>1, <2>3, QuietAbove
  <1>4. InfoInv' /\ KeptInv' /\ ServedInv'
    BY <1>1, EntryInfo, EntryKept, EntryServed
  <1>5. QED
    BY <1>2, <1>3, <1>4 DEF Inv

\* A step that changes nothing does.
LEMMA StutterStep ==
    ASSUME Inv, UNCHANGED vars
    PROVE  Inv'
  <1>1. /\ UNCHANGED objects /\ walk_order' = walk_order /\ todo_init' = todo_init
        /\ device_drivers' = device_drivers /\ entry_set' = entry_set
        /\ loop' = loop /\ results' = results /\ todo' = todo
        /\ entries' = entries /\ drivers' = drivers
    BY DEF vars, objects
  <1>2. TypeOK' <=> TypeOK
    BY <1>1 DEF TypeOK, DriverOK
  <1>3. Drivers' = Drivers /\ OfPass' = OfPass /\ Waiting' = Waiting
    BY <1>1 DEF Drivers, OfPass, Waiting
  <1>4. PassInv' <=> PassInv
    BY <1>1, <1>3 DEF PassInv
  <1>5. Grows
    BY <1>1, SameObjectsGrow
  <1>6. \A d \in Drivers : /\ Uninformed(d)' <=> Uninformed(d)
                           /\ Uncommanded(d)' <=> Uncommanded(d)
                           /\ Unentered(d)' <=> Unentered(d)
                           /\ Undecided(d)' <=> Undecided(d)
    BY <1>1, <1>3 DEF Uninformed, Uncommanded, Unentered, Undecided
  <1>7. EntryInv'
    <2>1. TypeOK /\ EntryInv
      BY DEF Inv
    <2>2. \A e \in entry_set' : e \in DOMAIN entries /\ entries[e].parent # None /\ ~ WithinLoop(e)
      BY <1>1, <2>1 DEF TypeOK, EntryInv
    <2>3. QED
      BY <1>1, <2>1, <2>2, WorklistEntryInv
  <1>8. BirthInv'
    BY <1>1, <1>3, <1>5, SameBirthInv DEF Inv, BirthInv
  <1>9. InfoInv'
    BY <1>1, <1>3, <1>5, <1>6, QuietInfo DEF Inv
  <1>10. KeptInv'
    BY <1>1, <1>6, WorklistKept DEF Inv
  <1>11. ServedInv'
    <2>1. \A d \in Drivers : OpsServed(d)'
      BY <1>1, <1>5, <1>6, QuietOpsServed DEF Inv
    <2>2. QED
      BY <1>1, <1>3, <1>5, <1>6, <2>1, QuietServed DEF Inv
  <1>12. AboveInv'
    BY <1>1, <1>5, QuietAbove DEF Inv
  <1>13. QED
    BY <1>2, <1>4, <1>7, <1>8, <1>9, <1>10, <1>11, <1>12 DEF Inv

\* So does every step, and it holds in every state.
LEMMA InvStep ==
    ASSUME Inv, [Next]_vars
    PROVE  Inv'
  <1>1. ASSUME NEW f \in todo_init, AnalysisInitFunction(f) PROVE Inv'
    BY <1>1, InitStep
  <1>2. CASE StartKeeping
    BY <1>2, StartStep
  <1>3. CASE Keep
    BY <1>3, KeepStep
  <1>4. CASE CollectInfo
    BY <1>4, InfoStep
  <1>5. CASE CollectCmdAndType
    BY <1>5, CmdStep
  <1>6. CASE CollectEntryFunction
    BY <1>6, EnterStep
  <1>7. CASE NextLoop
    BY <1>7, LoopStep
  <1>8. ASSUME NEW e \in entry_set, AnalysisEntry(e) PROVE Inv'
    BY <1>8, EntryStep
  <1>9. CASE UNCHANGED vars
    BY <1>9, StutterStep
  <1>10. QED
    BY <1>1, <1>2, <1>3, <1>4, <1>5, <1>6, <1>7, <1>8, <1>9 DEF Next

LEMMA InvHolds == Spec => []Inv
  <1>1. Init => Inv
    BY InitInv
  <1>2. Inv /\ [Next]_vars => Inv'
    BY InvStep
  <1>3. QED
    BY <1>1, <1>2, PTL DEF Spec

-----------------------------------------------------------------------------
(***************************************************************************)
(* The theorems.                                                           *)
(***************************************************************************)

\* Every pointer between drivers and entry functions is to one that exists, for every
\* program: no step of analysis() makes one dangle.
THEOREM TypeCorrect == Spec => []TypeOK
  <1>1. Inv => TypeOK
    BY DEF Inv
  <1>2. QED
    BY <1>1, InvHolds, PTL

\* A driver found its parent's commands known when it got its information: the parent is
\* of an earlier pass, and its commands are those of the function the driver was found in.
LEMMA ParentIsCommanded ==
    ASSUME Inv, NEW d \in Drivers, ~ Uninformed(d), ParentDriver(d) # None
    PROVE  drivers[ParentDriver(d)].cmd = Cmds[FoundIn[drivers[d].finding]]
  <1>1. /\ TypeOK /\ EntryInv /\ BirthInv /\ InfoInv
    BY DEF Inv
  <1>2. PICK a \in DOMAIN entries : a = drivers[d].parent
    BY <1>1, DriverFacts
  <1>3. PICK p \in Drivers : p = ParentDriver(d) /\ p = entries[a].parent /\ p # None
    BY <1>1, <1>2, DriverFacts DEF ParentDriver
  <1>4. entries[a].name = Handler(p) /\ drivers[p].ioctl = a
    BY <1>1, <1>3, LastName
  <1>5. drivers[d].finding \in FoundFrom(a)
    BY <1>1, <1>2 DEF BirthInv, BornOK
  <1>6. FoundIn[drivers[d].finding] = Handler(p)
    BY <1>4, <1>5 DEF FoundFrom, Found
  <1>7. CommandsOf(p) = Cmds[Handler(p)]
    BY <1>1, <1>4, EntryFacts DEF CommandsOf
  <1>8. ~ Uncommanded(p)
    <2>1. loop # "pick" => p \notin OfPass
      BY <1>1, <1>3 DEF BirthInv
    <2>2. QED
      BY <2>1 DEF Uncommanded, Uninformed
  <1>9. QED
    BY <1>1, <1>3, <1>6, <1>7, <1>8 DEF InfoInv, InfoOK

\* What the theorem below says, in a state of the invariant.
LEMMA CommandsKnown == Inv => ParentCommandsAreKnown
  <1>1. SUFFICES ASSUME Inv, NEW d \in Drivers,
                        drivers[d].ioctl # None, ParentDriver(d) # None
                 PROVE  drivers[d].non_open_parent = <<>>
                          <=> Cmds[FoundIn[drivers[d].finding]]
                                \cap Through[drivers[d].finding] = {}
    BY DEF ParentCommandsAreKnown, Drivers
  <1>2. drivers[d].non_open_parent = InfoOf(d)
    BY <1>1 DEF Inv, InfoInv, InfoOK
  <1>3. InfoOf(d) = <<>> <=> OpenedBy(d) = {}
    BY DEF InfoOf
  <1>4. OpenedBy(d) = Cmds[FoundIn[drivers[d].finding]] \cap Through[drivers[d].finding]
    <2>1. ~ Uninformed(d)
      BY <1>1 DEF Inv, InfoInv, InfoOK
    <2>2. QED
      BY <1>1, <2>1, ParentIsCommanded DEF OpenedBy
  <1>5. QED
    BY <1>2, <1>3, <1>4

\* Whether a driver names the command that opens it is decided with all the commands of
\* its parent in hand, kept or not.
THEOREM ParentCommandsKnown == Spec => []ParentCommandsAreKnown
  BY CommandsKnown, InvHolds, PTL

\* What the theorem below says, in a state of the invariant.
LEMMA KeptRepresent == Inv => DriversAreRepresented
  <1>1. SUFFICES ASSUME Inv, Done, NEW d \in Drivers
                 PROVE  \E k \in device_drivers : Represents(k, d)
    BY DEF DriversAreRepresented, Represents, Drivers
  <1>2. ~ Undecided(d)
    BY <1>1 DEF Done, Undecided
  <1>3. QED
    BY <1>1, <1>2 DEF Inv, KeptInv, Kept

\* Merging drivers of one hash loses none: one of the same operations structure and, when
\* nested, of the same call chains is kept.
THEOREM DriversRepresented == Spec => []DriversAreRepresented
  BY KeptRepresent, InvHolds, PTL

\* The name of an entry within a loop has been explored: the entry above it was not within
\* a loop, so it is its own name that comes twice.
LEMMA LoopIsExplored ==
    ASSUME Inv, NEW e \in DOMAIN entries, entries[e].parent # None, WithinLoop(e)
    PROVE  ExploredName(entries[e].name)
  <1>1. TypeOK /\ EntryInv /\ BirthInv /\ AboveInv
    BY DEF Inv
  <1>2. PICK p \in Drivers : p = entries[e].parent /\ drivers[p].ioctl = e /\ Handler(p) # NoHandler
    BY <1>1, LastName
  <1>3. e # None /\ entries[e] = EntryOf(p)
    BY <1>1, <1>2, EntryFacts DEF EntryInv
  <1>4. PICK a \in DOMAIN entries : a = drivers[p].parent
    BY <1>1, DriverFacts
  <1>5. ~ WithinLoop(a)
    BY <1>1, <1>4 DEF BirthInv, BornOK
  <1>6. PICK hs \in Seq(FunctionNames), h \in FunctionNames :
           hs = entries[a].handlers /\ h = entries[e].name /\ entries[e].handlers = Append(hs, h)
    <2>1. entries[a].handlers \in Seq(FunctionNames) /\ entries[e].name \in FunctionNames
      BY <1>1, EntryFacts
    <2>2. /\ EntryOf(p).name = Handler(p)
          /\ EntryOf(p).handlers = Append(entries[drivers[p].parent].handlers, Handler(p))
      BY <1>1, <1>2, EntryOfIsEntry
    <2>3. entries[e].handlers = Append(entries[a].handlers, entries[e].name)
      BY <1>3, <1>4, <2>2
    <2>4. QED
      BY <2>1, <2>3
  <1>7. /\ Len(Append(hs, h)) = Len(hs) + 1 /\ Len(hs) \in Nat
        /\ DOMAIN Append(hs, h) = 1 .. (Len(hs) + 1) /\ DOMAIN hs = 1 .. Len(hs)
        /\ \A x \in 1 .. Len(hs) : Append(hs, h)[x] = hs[x]
        /\ Append(hs, h)[Len(hs) + 1] = h
    BY AppendProperties
  <1>8. PICK i \in 1 .. (Len(hs) + 1), j \in 1 .. (Len(hs) + 1) :
           i < j /\ Append(hs, h)[i] = Append(hs, h)[j]
    BY <1>6, <1>7 DEF WithinLoop
  <1>9. j = Len(hs) + 1
    <2>1. SUFFICES ASSUME j # Len(hs) + 1 PROVE FALSE
      OBVIOUS
    <2>2. i \in DOMAIN hs /\ j \in DOMAIN hs /\ hs[i] = hs[j]
      BY <1>7, <1>8, <2>1
    <2>3. WithinLoop(a)
      BY <1>6, <1>8, <2>2 DEF WithinLoop
    <2>4. QED
      BY <1>5, <2>3
  <1>10. i \in 1 .. Len(entries[e].handlers) - 1 /\ entries[e].handlers[i] = h
    BY <1>6, <1>7, <1>8, <1>9
  <1>11. QED
    BY <1>1, <1>6, <1>10 DEF AboveInv

\* What the theorem below says, in a state of the invariant.
LEMMA NoHandlerLeft == Inv => HandlersAreExplored
  <1>1. SUFFICES ASSUME Inv, Done, NEW d \in Drivers, Handler(d) # NoHandler
                 PROVE  ExploredName(Handler(d))
    BY DEF HandlersAreExplored, ExploredName, Explored, FoundFrom, Drivers
  <1>2. TypeOK /\ EntryInv /\ ServedInv /\ loop = "pick" /\ entry_set = {}
    BY <1>1 DEF Inv, Done
  <1>3. PICK k \in Drivers : OpsOf(k) = OpsOf(d) /\ Served(k)
    BY <1>2 DEF ServedInv, OpsServed
  <1>4. Handler(k) = Handler(d)
    BY <1>3 DEF Handler
  <1>5. PICK e : e = drivers[k].ioctl /\ e # None
    BY <1>1, <1>2, <1>3, <1>4 DEF Served, Uninformed
  <1>6. e \in DOMAIN entries /\ entries[e] = EntryOf(k)
    BY <1>2, <1>5, DriverFacts DEF EntryInv
  <1>7. entries[e].name = Handler(d) /\ entries[e].parent # None
    BY <1>1, <1>2, <1>4, <1>6, EntryOfIsEntry, DriverFacts
  <1>8. Entered(k, e)
    BY <1>2, <1>5, <1>6 DEF ServedInv
  <1>9. WithinLoop(e) \/ Explored(e)
    BY <1>2, <1>8 DEF Entered, Unentered, Uncommanded, Uninformed
  <1>10. CASE Explored(e)
    BY <1>6, <1>7, <1>10 DEF ExploredName
  <1>11. CASE WithinLoop(e)
    BY <1>1, <1>6, <1>7, <1>11, LoopIsExplored
  <1>12. QED
    BY <1>9, <1>10, <1>11

\* When the worklist is empty the ioctl handler of every driver has been explored, kept or
\* not, be it through another driver or as a name met above.
THEOREM HandlersExplored == Spec => []HandlersAreExplored
  BY NoHandlerLeft, InvHolds, PTL

-----------------------------------------------------------------------------
(***************************************************************************)
(* The pointers that collect_info() sets agree.                            *)
(***************************************************************************)

\* Of one command of a driver, and of one driver.
OpensOK(p, v) ==
    LET d == drivers[p].opens[v] IN
    d # None => /\ drivers[d].finding \in FileOps
                /\ drivers[d].non_open_parent = <<p, v>>

OpenedOK(d) ==
    LET above == drivers[d].non_open_parent IN
    above # <<>> /\ drivers[d].finding \in FileOps =>
        drivers[above[1]].opens[above[2]] # None

\* The property is that of its parts.
LEMMA OpenersByParts ==
    OpenersAgree <=> /\ \A p \in Drivers : \A v \in drivers[p].cmd : OpensOK(p, v)
                     /\ \A d \in Drivers : OpenedOK(d)
  BY DEF OpenersAgree, OpensOK, OpenedOK, Drivers

\* Steps that set neither pointer: those of a new driver are null.
LEMMA QuietOpeners ==
    ASSUME TypeOK, TypeOK', OpenersAgree, Grows,
           \A d \in Drivers : /\ drivers'[d].opens = drivers[d].opens
                              /\ drivers'[d].non_open_parent = drivers[d].non_open_parent,
           \A d \in Drivers' : d \notin Drivers =>
              drivers'[d].cmd = {} /\ drivers'[d].non_open_parent = <<>>
    PROVE  OpenersAgree'
  <1>1. ASSUME NEW p \in Drivers', NEW v \in drivers'[p].cmd
        PROVE  OpensOK(p, v)'
    <2>1. p \in Drivers
      BY <1>1
    <2>2. drivers'[p].cmd \subseteq Commands
      <3>1. drivers' \in Seq(Driver) /\ p \in DOMAIN drivers'
        BY DEF TypeOK, Drivers
      <3>2. drivers'[p] \in Driver
        BY <3>1
      <3>3. QED
        BY <3>2 DEF Driver
    <2>3. PICK o : o = drivers[p].opens[v] /\ o = drivers'[p].opens[v]
      BY <2>1
    <2>4. CASE o = None
      BY <2>3, <2>4 DEF OpensOK
    <2>5. CASE o # None
      <3>1. v \in drivers[p].cmd /\ o \in Drivers
        BY <1>1, <2>1, <2>2, <2>3, <2>5, DriverFacts DEF DriverOK, Drivers
      <3>2. drivers[o].finding \in FileOps /\ drivers[o].non_open_parent = <<p, v>>
        BY <2>1, <2>3, <2>5, <3>1, OpenersByParts DEF OpensOK
      <3>3. drivers'[o].finding \in FileOps /\ drivers'[o].non_open_parent = <<p, v>>
        BY <3>1, <3>2 DEF Grows
      <3>4. QED
        BY <2>3, <3>3 DEF OpensOK
    <2>6. QED
      BY <2>4, <2>5
  <1>2. ASSUME NEW d \in Drivers'
        PROVE  OpenedOK(d)'
    <2>1. CASE d \notin Drivers
      BY <2>1 DEF OpenedOK
    <2>2. CASE d \in Drivers
      <3>1. PICK a : a = drivers[d].non_open_parent /\ a = drivers'[d].non_open_parent
        BY <2>2
      <3>2. drivers'[d].finding = drivers[d].finding
        BY <2>2 DEF Grows
      <3>3. a # <<>> => a[1] \in Drivers
        BY <2>2, <3>1, DriverFacts DEF DriverOK, Drivers
      <3>4. a # <<>> => drivers'[a[1]].opens = drivers[a[1]].opens
        BY <3>3
      <3>5. a # <<>> /\ drivers[d].finding \in FileOps => drivers[a[1]].opens[a[2]] # None
        BY <2>2, <3>1, OpenersByParts DEF OpenedOK
      <3>6. QED
        BY <3>1, <3>2, <3>4, <3>5 DEF OpenedOK
    <2>3. QED
      BY <2>1, <2>2
  <1>3. QED
    BY <1>1, <1>2, OpenersByParts DEF OpenersAgree, OpensOK, OpenedOK, Drivers

\* collect_info() sets both, of a driver nothing pointed at.
LEMMA InfoOpeners ==
    ASSUME Inv, OpenersAgree, CollectInfo
    PROVE  OpenersAgree'
  <1>1. TypeOK /\ PassInv /\ BirthInv /\ InfoInv
    BY DEF Inv
  <1>2. /\ Grows /\ Drivers' = Drivers
        /\ drivers'[Visit].non_open_parent = InfoOf(Visit)
        /\ \A d \in Drivers :
              /\ d # Visit => drivers'[d].non_open_parent = drivers[d].non_open_parent
              /\ drivers'[d].cmd = drivers[d].cmd
              /\ \A v \in Commands : drivers'[d].opens[v] =
                    IF d = ParentDriver(Visit) /\ v \in CommandsTold(Visit) THEN Visit
                    ELSE drivers[d].opens[v]
    BY <1>1, InfoEffect
  <1>3. PICK x \in Drivers : x = Visit /\ x # None /\ drivers[x].non_open_parent = <<>>
    <2>1. Visit \in Drivers /\ Visit \in OfPass /\ Visit \in Waiting /\ loop = "info"
      BY <1>1, TurnFacts DEF CollectInfo
    <2>2. Visit # None
      BY <1>1, <2>1, DriverFacts
    <2>3. drivers[Visit].non_open_parent = <<>>
      BY <1>1, <2>1 DEF InfoInv, InfoOK, Uninformed
    <2>4. QED
      BY <2>1, <2>2, <2>3
  <1>4. PICK q : q = ParentDriver(x)
    OBVIOUS
  <1>5. PICK c : c = Smallest(OpenedBy(x))
    OBVIOUS
  <1>6. /\ OpenedBy(x) # {} => q \in Drivers /\ c \in Commands
        /\ CommandsTold(x) = {} \/
              /\ CommandsTold(x) = {c} /\ OpenedBy(x) # {}
              /\ drivers[x].finding \in FileOps
    BY <1>1, <1>4, <1>5, OpenedByFacts
  <1>7. /\ OpenedBy(x) # {} => drivers'[x].non_open_parent = <<q, c>>
        /\ OpenedBy(x) = {} => drivers'[x].non_open_parent = <<>>
    BY <1>2, <1>3, <1>4, <1>5 DEF InfoOf
  <1>8. \A d \in Drivers, v \in Commands :
           drivers'[d].opens[v] = IF d = q /\ v \in CommandsTold(x) THEN x
                                  ELSE drivers[d].opens[v]
    BY <1>2, <1>3, <1>4
  <1>9. ASSUME NEW p \in Drivers, NEW v \in drivers'[p].cmd
        PROVE  OpensOK(p, v)'
    <2>1. v \in drivers[p].cmd /\ v \in Commands
      BY <1>1, <1>2, <1>9, DriverFacts
    <2>2. CASE p = q /\ v \in CommandsTold(x)
      <3>1. OpenedBy(x) # {} /\ v = c /\ drivers[x].finding \in FileOps
        BY <1>6, <2>2
      <3>2. drivers'[x].finding \in FileOps /\ drivers'[x].non_open_parent = <<p, v>>
        BY <1>2, <1>7, <2>2, <3>1 DEF Grows
      <3>3. drivers'[p].opens[v] = x
        BY <1>8, <2>1, <2>2
      <3>4. QED
        BY <3>2, <3>3 DEF OpensOK
    <2>3. CASE ~ (p = q /\ v \in CommandsTold(x))
      <3>1. PICK o : o = drivers'[p].opens[v] /\ o = drivers[p].opens[v]
        BY <1>8, <2>1, <2>3
      <3>2. CASE o = None
        BY <3>1, <3>2 DEF OpensOK
      <3>3. CASE o # None
        <4>1. o \in Drivers
          BY <1>1, <2>1, <3>1, <3>3, DriverFacts DEF DriverOK, Drivers
        <4>2. drivers[o].finding \in FileOps /\ drivers[o].non_open_parent = <<p, v>>
          BY <2>1, <3>1, <3>3, OpenersByParts DEF OpensOK
        <4>3. o # x
          <5>1. <<p, v>> # <<>>
            OBVIOUS
          <5>2. QED
            BY <1>3, <4>2, <5>1
        <4>4. drivers'[o].finding \in FileOps /\ drivers'[o].non_open_parent = <<p, v>>
          BY <1>2, <1>3, <4>1, <4>2, <4>3 DEF Grows
        <4>5. QED
          BY <3>1, <4>4 DEF OpensOK
      <3>4. QED
        BY <3>2, <3>3
    <2>4. QED
      BY <2>2, <2>3
  <1>10. ASSUME NEW d \in Drivers
         PROVE  OpenedOK(d)'
    <2>1. drivers'[d].finding = drivers[d].finding
      BY <1>2 DEF Grows
    <2>2. CASE d = x
      <3>1. CASE OpenedBy(x) = {}
        BY <1>7, <2>2, <3>1 DEF OpenedOK
      <3>2. CASE OpenedBy(x) # {} /\ drivers[x].finding \in FileOps
        <4>1. CommandsTold(x) = {c} /\ c \in Commands /\ q \in Drivers
          BY <1>5, <1>6, <3>2 DEF CommandsTold
        <4>2. drivers'[q].opens[c] = x /\ x # None
          BY <1>3, <1>8, <4>1
        <4>3. drivers'[d].non_open_parent = <<q, c>>
          BY <1>7, <2>2, <3>2
        <4>4. QED
          BY <4>2, <4>3 DEF OpenedOK
      <3>3. QED
        BY <2>1, <2>2, <3>1, <3>2 DEF OpenedOK
    <2>3. CASE d # x
      <3>1. PICK a : a = drivers'[d].non_open_parent /\ a = drivers[d].non_open_parent
        BY <1>2, <1>3, <2>3
      <3>2. a # <<>> => a[1] \in Drivers /\ a[2] \in Commands
        BY <1>1, <3>1, DriverFacts DEF DriverOK, Drivers
      <3>3. a # <<>> /\ drivers[d].finding \in FileOps => drivers[a[1]].opens[a[2]] # None
        BY <3>1, OpenersByParts DEF OpenedOK
      <3>4. a # <<>> /\ drivers[d].finding \in FileOps => drivers'[a[1]].opens[a[2]] # None
        BY <1>3, <1>8, <3>2, <3>3
      <3>5. QED
        BY <2>1, <3>1, <3>4 DEF OpenedOK
    <2>4. QED
      BY <2>2, <2>3
  <1>11. QED
    BY <1>2, <1>9, <1>10 DEF OpenersAgree, OpensOK, OpenedOK, Drivers

\* Every step keeps them so.
LEMMA OpenersStep ==
    ASSUME Inv, Inv', OpenersAgree, [Next]_vars
    PROVE  OpenersAgree'
  <1>1. /\ TypeOK /\ PassInv /\ EntryInv /\ BirthInv /\ InfoInv /\ TypeOK'
    BY DEF Inv
  <1>2. ASSUME NEW f \in todo_init, AnalysisInitFunction(f) PROVE OpenersAgree'
    <2>1. Grows
      BY <1>1, <1>2, InitEffect
    <2>2. PICK new \in Nat : NewDrivers(new)
      BY <1>1, <1>2, InitEffect
    <2>3. QED
      BY <1>1, <2>1, <2>2, QuietOpeners DEF NewDrivers, Drivers
  <1>3. CASE Keep
    BY <1>1, <1>3, KeepEffect, QuietOpeners
  <1>4. CASE CollectInfo
    BY <1>4, InfoOpeners
  <1>5. CASE CollectCmdAndType
    BY <1>1, <1>5, CmdEffect, QuietOpeners
  <1>6. CASE UNCHANGED objects
    <2>1. Grows /\ Drivers' = Drivers /\ drivers' = drivers
      BY <1>6, SameObjectsGrow DEF objects, Drivers
    <2>2. QED
      BY <1>1, <2>1, QuietOpeners
  <1>7. ASSUME NEW e \in entry_set, AnalysisEntry(e) PROVE OpenersAgree'
    <2>1. Grows /\ NewDrivers(e)
      BY <1>1, <1>7, EntryEffect
    <2>2. QED
      BY <1>1, <2>1, QuietOpeners DEF NewDrivers, Drivers
  <1>8. StartKeeping \/ CollectEntryFunction \/ NextLoop \/ UNCHANGED vars => UNCHANGED objects
    BY DEF StartKeeping, CollectEntryFunction, NextLoop, vars, objects
  <1>9. QED
    BY <1>2, <1>3, <1>4, <1>5, <1>6, <1>7, <1>8 DEF Next

\* A command that is said to open a driver opens one that names the command, and a driver
\* that names a command finds it opening one: whatever the order of the drivers.
THEOREM OpenersAlwaysAgree == Spec => []OpenersAgree
  <1>1. Init => OpenersAgree
    BY DEF Init, OpenersAgree
  <1>2. Inv /\ Inv' /\ OpenersAgree /\ [Next]_vars => OpenersAgree'
    BY OpenersStep
  <1>3. QED
    BY <1>1, <1>2, InvHolds, PTL DEF Spec

-----------------------------------------------------------------------------
(***************************************************************************)
(* The way up from a driver (module Descriptions).  It ends at an init     *)
(* function because an entry is always made after the driver it serves was *)
(* found, and that after the entry it was found from was made.             *)
(***************************************************************************)
Nested(d) == ParentDriver(d) # None

UpInv ==
    \A e \in DOMAIN entries :
        /\ entries[e].parent = None => entries[e].name \in InitFunctions
        /\ entries[e].parent # None => drivers[entries[e].parent].parent < e

\* Old entries stay as they are.
LEMMA OldUp ==
    ASSUME TypeOK, UpInv, Grows, NEW e \in DOMAIN entries
    PROVE  /\ entries'[e].parent = None => entries'[e].name \in InitFunctions
           /\ entries'[e].parent # None => drivers'[entries'[e].parent].parent < e
  <1>1. entries'[e] = entries[e]
    BY DEF Grows
  <1>2. entries[e].parent # None =>
            entries[e].parent \in Drivers
            /\ drivers'[entries[e].parent].parent = drivers[entries[e].parent].parent
    BY DEF TypeOK, Grows, Drivers
  <1>3. QED
    BY <1>1, <1>2 DEF UpInv

\* A step that makes no entry keeps the way up.
LEMMA QuietUp ==
    ASSUME TypeOK, UpInv, Grows, entries' = entries
    PROVE  UpInv'
  <1>1. DOMAIN entries' = DOMAIN entries
    OBVIOUS
  <1>2. QED
    BY <1>1, OldUp DEF UpInv

\* Exploring an init function makes an entry of no driver,
LEMMA InitUp ==
    ASSUME TypeOK, UpInv, NEW f \in todo_init, AnalysisInitFunction(f)
    PROVE  UpInv'
  <1>1. Grows
    BY InitEffect
  <1>2. entries \in Seq(Entry) /\ f \in InitFunctions
    BY DEF TypeOK
  <1>3. entries' = Append(entries, NewInitEntry(f))
    BY DEF AnalysisInitFunction
  <1>4. NewInitEntry(f).parent = None /\ NewInitEntry(f).name = f
    BY DEF NewInitEntry
  <1>5. \A e \in DOMAIN entries' : e \in DOMAIN entries \/ entries'[e] = NewInitEntry(f)
    <2> DEFINE new == NewInitEntry(f)
    <2> HIDE DEF new
    <2>1. entries' = Append(entries, new)
      BY <1>3 DEF new
    <2>2. \A e \in DOMAIN entries' : e \in DOMAIN entries \/ entries'[e] = new
      BY <1>2, <2>1
    <2>3. QED
      BY <2>2 DEF new
  <1>6. ASSUME NEW e \in DOMAIN entries'
        PROVE  /\ entries'[e].parent = None => entries'[e].name \in InitFunctions
               /\ entries'[e].parent # None => drivers'[entries'[e].parent].parent < e
    <2>1. CASE e \in DOMAIN entries
      BY <1>1, <2>1, OldUp
    <2>2. CASE entries'[e] = NewInitEntry(f)
      BY <1>2, <1>4, <2>2
    <2>3. QED
      BY <1>5, <2>1, <2>2
  <1>7. QED
    BY <1>6 DEF UpInv

\* collect_info() one of the driver of its turn, which was found from an earlier entry,
LEMMA InfoUp ==
    ASSUME TypeOK, PassInv, BirthInv, UpInv, CollectInfo
    PROVE  UpInv'
  <1>1. Grows /\ entries \in Seq(Entry) /\ entries' \in Seq(Entry)
    BY InfoEffect DEF TypeOK
  <1>2. Visit \in Drivers
    BY TurnFacts DEF CollectInfo
  <1>3. drivers[Visit].parent \in DOMAIN entries /\ drivers'[Visit].parent = drivers[Visit].parent
    BY <1>1, <1>2 DEF TypeOK, DriverOK, Grows, Drivers
  <1>4. ASSUME NEW e \in DOMAIN entries'
        PROVE  /\ entries'[e].parent = None => entries'[e].name \in InitFunctions
               /\ entries'[e].parent # None => drivers'[entries'[e].parent].parent < e
    <2>1. CASE e \in DOMAIN entries
      BY <1>1, <2>1, OldUp
    <2>2. CASE e \notin DOMAIN entries
      <3>1. e = drivers'[Visit].ioctl
        BY <2>2, InfoEffect
      <3>2. e \in Nat \ {0}
        BY <1>1
      <3>3. entries'[e] = EntryOf(Visit)
        BY <3>1, <3>2, InfoEffect DEF None
      <3>4. entries'[e].parent = Visit
        BY <3>3 DEF EntryOf, NewIoctlEntry
      <3>5. Visit # None
        BY <1>2, DriverFacts
      <3>6. drivers[Visit].parent < e
        <4>1. DOMAIN entries = 1 .. Len(entries) /\ Len(entries) \in Nat
          BY <1>1
        <4>2. QED
          BY <1>3, <2>2, <3>2, <4>1
      <3>7. QED
        BY <1>3, <3>4, <3>5, <3>6
    <2>3. QED
      BY <2>1, <2>2
  <1>5. QED
    BY <1>4 DEF UpInv

\* so every step keeps the way up.
LEMMA UpStep ==
    ASSUME Inv, UpInv, [Next]_vars
    PROVE  UpInv'
  <1>1. TypeOK /\ PassInv /\ EntryInv /\ BirthInv /\ InfoInv
    BY DEF Inv
  <1>2. ASSUME NEW f \in todo_init, AnalysisInitFunction(f) PROVE UpInv'
    BY <1>1, <1>2, InitUp
  <1>3. CASE Keep
    BY <1>1, <1>3, KeepEffect, QuietUp
  <1>4. CASE CollectInfo
    BY <1>1, <1>4, InfoUp
  <1>5. CASE CollectCmdAndType
    BY <1>1, <1>5, CmdEffect, QuietUp
  <1>6. ASSUME NEW e \in entry_set, AnalysisEntry(e) PROVE UpInv'
    BY <1>1, <1>6, EntryEffect, QuietUp
  <1>7. CASE StartKeeping \/ CollectEntryFunction \/ NextLoop \/ UNCHANGED vars
    <2>1. UNCHANGED objects
      BY <1>7 DEF StartKeeping, CollectEntryFunction, NextLoop, vars, objects
    <2>2. Grows /\ entries' = entries
      BY <2>1, SameObjectsGrow DEF objects
    <2>3. QED
      BY <1>1, <2>2, QuietUp
  <1>8. QED
    BY <1>2, <1>3, <1>4, <1>5, <1>6, <1>7 DEF Next

\* A set of numbers has a least one.
LEMMA LeastNumber ==
    ASSUME NEW S, S \subseteq Nat, S # {}
    PROVE  \E n \in S : \A m \in S : n <= m
  <1> DEFINE R == OpToRel(<, Nat)
  <1>1. IsWellFoundedOn(R, Nat)
    BY NatLessThanWellFounded
  <1>2. \A y, x \in Nat : y < x => <<y, x>> \in R
    BY DEF OpToRel
  <1> HIDE DEF R
  <1>3. PICK n \in S : \A m \in S : ~ (<<m, n>> \in R)
    BY <1>1, WFMin
  <1>4. ASSUME NEW m \in S PROVE n <= m
    <2>1. m \in Nat /\ n \in Nat
      OBVIOUS
    <2>2. ~ m < n
      BY <1>2, <1>3, <2>1
    <2>3. QED
      BY <2>1, <2>2
  <1>5. QED
    BY <1>4

\* The way up as a function of the first k entries.
Climb(q, e) ==
    IF entries[e].parent = None THEN entries[e].name ELSE q[drivers[entries[e].parent].parent]

\* So there is a way up from every driver, and RootOf() goes it.
LEMMA RootSteps ==
    ASSUME TypeOK, UpInv, NEW d \in Drivers
    PROVE  /\ ~ Nested(d) => RootOf(d) = entries[drivers[d].parent].name
           /\ Nested(d) => RootOf(d) = RootOf(ParentDriver(d))
  <1> DEFINE N == Len(entries)
             above(e) == drivers[entries[e].parent].parent
             Solves(q, k) == q \in [1 .. k -> InitFunctions] /\ \A e \in 1 .. k : q[e] = Climb(q, e)
             Unsolved == {k \in 0 .. N : ~ \E q : Solves(q, k)}
  <1>1. N \in Nat /\ DOMAIN entries = 1 .. N
    BY DEF TypeOK
  <1>2. \A e \in 1 .. N : /\ entries[e].parent = None => entries[e].name \in InitFunctions
                          /\ entries[e].parent # None => above(e) \in 1 .. e - 1
    <2> TAKE e \in 1 .. N
    <2>1. entries[e].parent # None => above(e) \in DOMAIN entries
      BY <1>1 DEF TypeOK, DriverOK
    <2>2. QED
      BY <1>1, <2>1 DEF UpInv
  <1>3. ASSUME NEW k \in 1 .. N, \E q : Solves(q, k - 1)
        PROVE  \E q : Solves(q, k)
    <2>1. PICK q : Solves(q, k - 1)
      BY <1>3
    <2> DEFINE r == [e \in 1 .. k |-> IF e = k THEN Climb(q, k) ELSE q[e]]
    <2>2. /\ \A e \in 1 .. k : e # k => e \in 1 .. k - 1
          /\ \A e \in 1 .. k : e \in 1 .. N /\ \A j \in 1 .. e - 1 : j \in 1 .. k - 1 /\ j \in 1 .. k /\ j # k
          /\ k \in 1 .. k
      BY <1>1
    <2>3. \A j \in 1 .. k - 1 : q[j] \in InitFunctions /\ q[j] = Climb(q, j)
      BY <2>1
    <2>4. \A e \in 1 .. k : Climb(q, e) \in InitFunctions
      BY <1>2, <2>2, <2>3 DEF Climb
    <2>5. r \in [1 .. k -> InitFunctions]
      BY <2>2, <2>3, <2>4
    <2>6. \A e \in 1 .. k : Climb(r, e) = Climb(q, e)
      BY <1>2, <2>2 DEF Climb
    <2>7. \A e \in 1 .. k : r[e] = Climb(r, e)
      BY <2>2, <2>3, <2>6
    <2> HIDE DEF r
    <2>8. Solves(r, k)
      BY <2>5, <2>7
    <2>9. QED
      BY <2>8
  <1>4. \E q : Solves(q, 0)
    <2> DEFINE q == [e \in 1 .. 0 |-> e]
    <2>1. 1 .. 0 = {}
      OBVIOUS
    <2>2. q \in [1 .. 0 -> InitFunctions]
      BY <2>1
    <2> HIDE DEF q
    <2>3. Solves(q, 0)
      BY <2>1, <2>2
    <2>4. QED
      BY <2>3
  <1> HIDE DEF Solves
  <1>5. Unsolved = {}
    <2>1. SUFFICES ASSUME Unsolved # {} PROVE FALSE
      OBVIOUS
    <2>2. Unsolved \subseteq Nat
      OBVIOUS
    <2>3. PICK k \in Unsolved : \A m \in Unsolved : k <= m
      <3> HIDE DEF Unsolved
      <3>1. QED
        BY <2>1, <2>2, LeastNumber
    <2>4. k \in 0 .. N /\ ~ \E q : Solves(q, k)
      OBVIOUS
    <2>5. k # 0
      BY <1>4, <2>4
    <2>6. k \in 1 .. N /\ k - 1 \in 0 .. N /\ k - 1 \notin Unsolved
      BY <1>1, <2>3, <2>4, <2>5
    <2>7. QED
      BY <1>3, <2>4, <2>6
  <1> DEFINE Equation(up) ==
                 up = [e \in DOMAIN entries |->
                          IF entries[e].parent = None THEN entries[e].name
                          ELSE up[drivers[entries[e].parent].parent]]
             u == CHOOSE up : Equation(up)
  <1>6. \E q : Equation(q)
    <2>1. N \in 0 .. N
      BY <1>1
    <2>2. PICK q : Solves(q, N)
      BY <1>5, <2>1
    <2>3. Equation(q)
      BY <1>1, <2>2 DEF Solves, Climb
    <2>4. QED
      BY <2>3
  <1>7. Equation(u)
    <2> HIDE DEF Equation
    <2>1. QED
      BY <1>6
  <1>8. \A x \in Drivers : RootOf(x) = u[drivers[x].parent]
    BY DEF RootOf
  <1> HIDE DEF u
  <1>9. \A e \in 1 .. N : u[e] = Climb(u, e)
    BY <1>1, <1>7 DEF Climb
  <1>10. drivers[d].parent \in 1 .. N /\ (Nested(d) => ParentDriver(d) \in Drivers)
    BY <1>1, DriverFacts DEF Nested
  <1>11. RootOf(d) = u[drivers[d].parent]
    BY <1>8
  <1>12. Nested(d) => RootOf(ParentDriver(d)) = u[drivers[ParentDriver(d)].parent]
    BY <1>8, <1>10
  <1>13. QED
    BY <1>9, <1>10, <1>11, <1>12 DEF Climb, Nested, ParentDriver

\* It ends at an init function.
LEMMA RootIsInit ==
    ASSUME TypeOK, UpInv, NEW d \in Drivers
    PROVE  RootOf(d) \in InitFunctions
  <1> DEFINE Lost == {n \in DOMAIN entries : \E x \in Drivers :
                         drivers[x].parent = n /\ RootOf(x) \notin InitFunctions}
  <1>1. Lost \subseteq Nat
    BY EntryFacts
  <1>2. ASSUME NEW n \in Lost PROVE \E m \in Lost : ~ n <= m
    <2>1. PICK x \in Drivers : drivers[x].parent = n /\ RootOf(x) \notin InitFunctions
      OBVIOUS
    <2>2. n \in DOMAIN entries
      OBVIOUS
    <2>3. Nested(x)
      BY <2>1, <2>2, RootSteps DEF UpInv, Nested, ParentDriver
    <2>4. PICK p \in Drivers : p = ParentDriver(x)
      BY <2>3, DriverFacts DEF Nested
    <2>5. RootOf(p) \notin InitFunctions
      BY <2>1, <2>3, <2>4, RootSteps
    <2>6. drivers[p].parent < n
      BY <2>1, <2>2, <2>3, <2>4 DEF UpInv, Nested, ParentDriver
    <2>7. drivers[p].parent \in DOMAIN entries /\ drivers[p].parent \in Nat /\ n \in Nat
      BY <2>2, <2>4, DriverFacts, EntryFacts
    <2>8. drivers[p].parent \in Lost
      BY <2>4, <2>5, <2>7
    <2>9. QED
      BY <2>6, <2>7, <2>8
  <1> HIDE DEF Lost
  <1>3. Lost = {}
    BY <1>1, <1>2, LeastNumber
  <1>4. drivers[d].parent \in DOMAIN entries
    BY DriverFacts
  <1>5. QED
    BY <1>3, <1>4 DEF Lost

-----------------------------------------------------------------------------
(***************************************************************************)
(* The order of things.  An entry is explored once, so the drivers found   *)
(* from it are made together and stay together in the passes, in the order *)
(* in which the walk met them; collect_info() comes to them in that order. *)
(***************************************************************************)
\* No driver has been found from the entry.
Childless(e) == \A x \in Drivers : drivers[x].parent # e

\* An entry that waits, or is yet to be put into the worklist, has not been explored.
FreshInv ==
    /\ \A e \in entry_set : Childless(e)
    /\ \A p \in Drivers : drivers[p].ioctl # None /\ Unentered(p) => Childless(drivers[p].ioctl)

\* The drivers of an entry are in the order of the walk,
BornInOrder ==
    \A x, y \in Drivers : drivers[x].parent = drivers[y].parent /\ x < y =>
        Precedes(drivers[x].finding, drivers[y].finding)

\* and they come to their turns together
Together ==
    loop # "pick" => \A x \in OfPass : Nested(x) =>
        \A y \in Drivers : drivers[y].parent = drivers[x].parent => y \in OfPass

\* and in that order.
Ascends(s) == \A i, j \in DOMAIN s : i < j /\ Nested(s[i]) => s[i] < s[j]

InTurn ==
    loop = "info" => \A x \in OfPass \ Waiting : Nested(x) => \A y \in Waiting : x < y

OrderInv == BornInOrder /\ Together /\ Ascends(results) /\ Ascends(todo) /\ InTurn

\* collect_info() does all of its work for a nested driver, and comes to no other root
\* than those that are kept.
TurnInv ==
    /\ \A d \in Drivers : Nested(d) /\ ~ Uninformed(d) =>
          /\ drivers[d].non_open_parent = InfoOf(d)
          /\ Handler(d) # NoHandler => drivers[d].ioctl # None
    /\ loop \notin {"init", "dedup"} => \A d \in OfPass : ~ Nested(d) => d \in device_drivers
    /\ \A d \in Drivers : ~ Nested(d) /\ drivers[d].ioctl # None => d \in device_drivers

\* A command opens the last driver of those that were told to it.
ToldInv ==
    \A d \in Drivers : Nested(d) /\ ~ Uninformed(d) =>
        \A v \in CommandsTold(d) :
            LET last == drivers[ParentDriver(d)].opens[v] IN
            last # None /\ drivers[last].parent = drivers[d].parent /\ d <= last

\* The id of a driver, and what the entry of an init function has.
IdOK(d) ==
    drivers[d].id = Append(IF Nested(d) THEN drivers[ParentDriver(d)].id ELSE <<>>,
                           SourceLines[drivers[d].finding])

InitEntryOK(e) == entries[e].parent = None => entries[e] = NewInitEntry(entries[e].name)

IdInv ==
    /\ \A d \in Drivers : IdOK(d)
    /\ \A e \in DOMAIN entries : InitEntryOK(e)

HistoryInv == FreshInv /\ OrderInv /\ TurnInv /\ ToldInv /\ IdInv

\* The drivers of a walk are made in its order, with ids that end in their call chains.
NewInOrder(id) ==
    /\ \A x \in DOMAIN drivers' : x \notin Drivers =>
          drivers'[x].id = Append(id, SourceLines[drivers'[x].finding])
    /\ \A x, y \in DOMAIN drivers' : x \notin Drivers /\ y \notin Drivers /\ x < y =>
          Precedes(drivers'[x].finding, drivers'[y].finding)

\* Making the drivers of a walk is NewInOrder.
LEMMA WalkInOrder ==
    ASSUME TypeOK, NEW e \in Nat, NEW id \in Seq(Lines), NEW ef, NEW s \in Walks(ef),
           drivers' = drivers \o Yield(s, e, id)
    PROVE  NewInOrder(id)
  <1> DEFINE b == Yield(s, e, id)
  <1>1. PICK n \in Nat : s \in [1 .. n -> Findings] /\ DOMAIN s = 1 .. n
    BY WalkFacts
  <1>2. \A i, j \in 1 .. n : i < j => Precedes(s[i], s[j])
    BY <1>1 DEF Walks, IsWalk
  <1>3. DOMAIN b = 1 .. n /\ \A i \in 1 .. n :
            b[i].finding = s[i] /\ b[i].id = Append(id, SourceLines[s[i]])
    BY <1>1 DEF Yield, NewDriver
  <1>4. b \in [1 .. n -> Driver]
    <2>1. ASSUME NEW i \in 1 .. n PROVE NewDriver(s[i], e, id) \in Driver
      <3>1. s[i] \in Findings
        BY <1>1
      <3>2. QED
        BY <3>1, NewDriverIsDriver
    <2>2. QED
      BY <1>1, <2>1 DEF Yield
  <1>5. drivers' = drivers \o b
    OBVIOUS
  <1> HIDE DEF b
  <1>6. drivers \in Seq(Driver) /\ b \in Seq(Driver) /\ Len(b) = n
    <2>1. b \in Seq(Driver) /\ Len(b) = n
      BY ONLY n \in Nat, <1>4
    <2>2. QED
      BY <2>1 DEF TypeOK
  <1>7. /\ Len(drivers \o b) = Len(drivers) + n
        /\ \A i \in 1 .. Len(drivers) + n :
              (drivers \o b)[i] = IF i <= Len(drivers) THEN drivers[i] ELSE b[i - Len(drivers)]
        /\ drivers \o b \in Seq(Driver)
    BY <1>6, ConcatProperties
  <1>8. /\ DOMAIN drivers' = 1 .. Len(drivers) + n
        /\ Drivers = 1 .. Len(drivers) /\ Len(drivers) \in Nat
    BY <1>5, <1>6, <1>7 DEF Drivers
  <1>9. ASSUME NEW x \in DOMAIN drivers', x \notin Drivers
        PROVE  x - Len(drivers) \in 1 .. n /\ drivers'[x] = b[x - Len(drivers)]
    <2>1. x \in 1 .. Len(drivers) + n /\ ~ x <= Len(drivers) /\ x - Len(drivers) \in 1 .. n
      BY <1>8, <1>9
    <2>2. QED
      BY <1>5, <1>7, <2>1
  <1>10. ASSUME NEW x \in DOMAIN drivers', NEW y \in DOMAIN drivers',
                x \notin Drivers, y \notin Drivers, x < y
         PROVE  Precedes(drivers'[x].finding, drivers'[y].finding)
    <2>1. x - Len(drivers) < y - Len(drivers)
      BY <1>8, <1>10
    <2>2. QED
      BY <1>2, <1>3, <1>9, <1>10, <2>1
  <1>11. \A x \in DOMAIN drivers' : x \notin Drivers =>
            drivers'[x].id = Append(id, SourceLines[drivers'[x].finding])
    <2> TAKE x \in DOMAIN drivers'
    <2> HAVE x \notin Drivers
    <2>1. PICK i \in 1 .. n : drivers'[x] = b[i]
      BY <1>9
    <2>2. QED
      BY <1>3, <2>1
  <1>12. QED
    BY <1>10, <1>11 DEF NewInOrder

\* What the step for an init function does, besides InitEffect,
LEMMA InitOrder ==
    ASSUME TypeOK, NEW f \in todo_init, AnalysisInitFunction(f)
    PROVE  /\ NewInOrder(<<>>)
           /\ \E new \in Nat : /\ NewDrivers(new)
                               /\ new \in DOMAIN entries' /\ new \notin DOMAIN entries
                               /\ \A e \in DOMAIN entries' : e \in DOMAIN entries \/ e = new
                               /\ entries'[new] = NewInitEntry(f)
                               /\ NewInitEntry(f).parent = None /\ NewInitEntry(f).name = f
  <1> DEFINE new == Len(entries) + 1
  <1>1. entries \in Seq(Entry)
    BY DEF TypeOK
  <1>2. PICK s \in Walks(NewInitEntry(f)) : drivers' = drivers \o Yield(s, new, <<>>)
    BY DEF AnalysisInitFunction, Yield
  <1>3. <<>> \in Seq(Lines) /\ new \in Nat
    BY <1>1
  <1>4. NewInOrder(<<>>)
    BY <1>2, <1>3, WalkInOrder
  <1>5. new \in DOMAIN entries' /\ new \notin DOMAIN entries /\ entries'[new] = NewInitEntry(f)
    <2> DEFINE ef == NewInitEntry(f)
    <2>1. entries' = Append(entries, ef)
      BY DEF AnalysisInitFunction
    <2> HIDE DEF ef
    <2>2. new \in DOMAIN entries' /\ new \notin DOMAIN entries /\ entries'[new] = ef
      BY <1>1, <2>1
    <2>3. QED
      BY <2>2 DEF ef
  <1>6. PICK m \in Nat : /\ NewDrivers(m)
                         /\ m \in DOMAIN entries' /\ m \notin DOMAIN entries
                         /\ \A e \in DOMAIN entries' : e \in DOMAIN entries \/ e = m
    BY InitEffect
  <1>7. m = new
    BY <1>5, <1>6
  <1>8. NewInitEntry(f).parent = None /\ NewInitEntry(f).name = f
    BY DEF NewInitEntry
  <1>9. QED
    BY <1>3, <1>4, <1>5, <1>6, <1>7, <1>8

\* and that for an entry of the worklist, besides EntryEffect.
LEMMA EntryOrder ==
    ASSUME TypeOK, EntryInv, NEW e \in entry_set, AnalysisEntry(e)
    PROVE  /\ NewInOrder(drivers[entries[e].parent].id)
           /\ \A i, j \in DOMAIN results' : i < j => results'[i] < results'[j]
  <1> DEFINE id == drivers[entries[e].parent].id
  <1>1. e \in DOMAIN entries /\ entries[e].parent # None
    BY DEF TypeOK, EntryInv
  <1>2. e \in Nat /\ id \in Seq(Lines)
    BY <1>1, EntryFacts, DriverFacts
  <1>3. PICK s \in Walks(entries[e]) :
           /\ drivers' = drivers \o Yield(s, e, id)
           /\ results' = [i \in DOMAIN s |-> Len(drivers) + i]
    BY DEF AnalysisEntry, Yield
  <1>4. NewInOrder(id)
    <2> HIDE DEF id
    <2>1. QED
      BY <1>2, <1>3, WalkInOrder
  <1>5. PICK n \in Nat : DOMAIN s = 1 .. n
    BY WalkFacts
  <1>6. Len(drivers) \in Nat
    BY DEF TypeOK
  <1>7. \A i, j \in DOMAIN results' : i < j => results'[i] < results'[j]
    BY <1>3, <1>5, <1>6
  <1>8. QED
    BY <1>4, <1>7

\* The drivers of init functions are the only ones until the first pass is over.
LEMMA FirstDrivers ==
    ASSUME Inv, loop \in {"init", "dedup"}, NEW d \in Drivers
    PROVE  ~ Nested(d)
  <1>1. TypeOK /\ PassInv /\ EntryInv /\ BirthInv /\ InfoInv
    BY DEF Inv
  <1>2. CASE loop = "init"
    BY <1>1, <1>2, InitParents DEF Nested
  <1>3. CASE loop = "dedup"
    <2>1. OfPass = Drivers
      BY <1>1, <1>3 DEF PassInv
    <2>2. ParentDriver(d) # None => ParentDriver(d) \in Drivers
      BY <1>1, DriverFacts
    <2>3. QED
      BY <1>1, <1>3, <2>1, <2>2 DEF BirthInv, Nested
  <1>4. QED
    BY <1>2, <1>3

\* A step of a loop makes no driver and, unless it is one of collect_info(), no entry
\* and no pointer.
Quiet ==
    /\ Grows
    /\ Drivers' = Drivers
    /\ entries' = entries
    /\ walk_order' = walk_order
    /\ device_drivers \subseteq device_drivers'
    /\ \A d \in Drivers : /\ drivers'[d].ioctl = drivers[d].ioctl
                          /\ drivers'[d].opens = drivers[d].opens
                          /\ drivers'[d].non_open_parent = drivers[d].non_open_parent
    /\ \A d \in Drivers : Nested(d) =>
          drivers'[ParentDriver(d)].cmd = drivers[ParentDriver(d)].cmd
    /\ \A d \in Drivers : Unentered(d)' => Unentered(d)
    /\ \A d \in Drivers : Nested(d) /\ Uninformed(d) => Uninformed(d)'

\* A turn of another loop than that of collect_info() makes no one's turn come again.
LEMMA TurnFlags ==
    ASSUME loop' = loop, loop \notin {"info", "pick"}, OfPass' = OfPass, Waiting' \subseteq Waiting,
           NEW d
    PROVE  (Unentered(d)' => Unentered(d)) /\ (Uninformed(d) => Uninformed(d)')
  BY DEF Unentered, Uncommanded, Uninformed

\* A turn of the loop over the hashes is quiet,
LEMMA KeepQuiet ==
    ASSUME Inv, Keep
    PROVE  Quiet
  <1>1. TypeOK /\ PassInv
    BY DEF Inv
  <1>2. /\ Grows /\ Drivers' = Drivers /\ entries' = entries
        /\ \A d \in Drivers : /\ drivers'[d].ioctl = drivers[d].ioctl
                              /\ drivers'[d].cmd = drivers[d].cmd
                              /\ drivers'[d].opens = drivers[d].opens
                              /\ drivers'[d].non_open_parent = drivers[d].non_open_parent
    BY <1>1, KeepEffect
  <1>3. \A d \in Drivers : Nested(d) => ParentDriver(d) \in Drivers
    BY <1>1, DriverFacts DEF Nested
  <1>4. /\ walk_order' = walk_order /\ loop' = loop /\ loop \in {"dedup", "keep"}
        /\ device_drivers \subseteq device_drivers'
    BY DEF Keep
  <1>5. OfPass' = OfPass /\ Waiting' \subseteq Waiting
    BY <1>1, TurnFacts DEF Keep
  <1>6. \A d \in Drivers : (Unentered(d)' => Unentered(d)) /\ (Uninformed(d) => Uninformed(d)')
    BY <1>4, <1>5, TurnFlags
  <1>7. QED
    BY <1>2, <1>3, <1>4, <1>6 DEF Quiet

\* and so is one of collect_cmd_and_type().
LEMMA CmdQuiet ==
    ASSUME Inv, CollectCmdAndType
    PROVE  Quiet
  <1>1. TypeOK /\ PassInv /\ EntryInv /\ BirthInv /\ InfoInv
    BY DEF Inv
  <1>2. /\ Grows /\ Drivers' = Drivers /\ entries' = entries
        /\ \A d \in Drivers : /\ drivers'[d].ioctl = drivers[d].ioctl
                              /\ d # Visit => drivers'[d].cmd = drivers[d].cmd
                              /\ drivers'[d].opens = drivers[d].opens
                              /\ drivers'[d].non_open_parent = drivers[d].non_open_parent
    BY <1>1, CmdEffect
  <1>3. /\ walk_order' = walk_order /\ loop' = loop /\ loop = "cmd"
        /\ device_drivers' = device_drivers
    BY DEF CollectCmdAndType
  <1>4. OfPass' = OfPass /\ Waiting' \subseteq Waiting /\ Visit \in OfPass
    BY <1>1, TurnFacts DEF CollectCmdAndType
  <1>5. \A d \in Drivers : Nested(d) => ParentDriver(d) \in Drivers /\ ParentDriver(d) # Visit
    BY <1>1, <1>3, <1>4, DriverFacts DEF Nested, BirthInv
  <1>6. \A d \in Drivers : (Unentered(d)' => Unentered(d)) /\ (Uninformed(d) => Uninformed(d)')
    BY <1>3, <1>4, TurnFlags
  <1>7. QED
    BY <1>2, <1>3, <1>5, <1>6 DEF Quiet

\* A step that changes no object is quiet if it makes no one's turn come again:
LEMMA SameIsQuiet ==
    ASSUME TypeOK, UNCHANGED objects, walk_order' = walk_order, device_drivers' = device_drivers,
           \A d \in Drivers : Unentered(d)' => Unentered(d),
           \A d \in Drivers : Nested(d) /\ Uninformed(d) => Uninformed(d)'
    PROVE  Quiet
  <1>1. Grows /\ Drivers' = Drivers /\ drivers' = drivers /\ entries' = entries
    BY SameObjectsGrow DEF objects, Drivers
  <1>2. QED
    BY <1>1 DEF Quiet

\* a turn of collect_entry_function(),
LEMMA EnterQuiet ==
    ASSUME Inv, CollectEntryFunction
    PROVE  Quiet
  <1>1. TypeOK /\ PassInv
    BY DEF Inv
  <1>2. /\ UNCHANGED objects /\ walk_order' = walk_order /\ device_drivers' = device_drivers
        /\ loop' = loop /\ loop = "entry"
    BY DEF CollectEntryFunction
  <1>3. OfPass' = OfPass /\ Waiting' \subseteq Waiting
    BY <1>1, TurnFacts DEF CollectEntryFunction
  <1>4. \A d \in Drivers : (Unentered(d)' => Unentered(d)) /\ (Uninformed(d) => Uninformed(d)')
    BY <1>2, <1>3, TurnFlags
  <1>5. QED
    BY <1>1, <1>2, <1>4, SameIsQuiet

\* the start of the first loop,
LEMMA StartQuiet ==
    ASSUME Inv, StartKeeping
    PROVE  Quiet
  <1>1. /\ UNCHANGED objects /\ walk_order' = walk_order /\ device_drivers' = device_drivers
        /\ loop' = "dedup" /\ loop = "init"
    BY DEF StartKeeping
  <1>2. \A d \in Drivers : Unentered(d) /\ Uninformed(d)'
    BY <1>1 DEF Unentered, Uncommanded, Uninformed
  <1>3. TypeOK
    BY DEF Inv
  <1>4. QED
    BY <1>1, <1>2, <1>3, SameIsQuiet

\* the start of another one,
LEMMA LoopQuiet ==
    ASSUME Inv, NextLoop
    PROVE  Quiet
  <1>1. TypeOK /\ PassInv
    BY DEF Inv
  <1>2. /\ UNCHANGED objects /\ walk_order' = walk_order /\ device_drivers' = device_drivers
        /\ loop \in {"dedup", "keep", "info", "cmd", "entry"}
        /\ loop' = CASE loop \in {"dedup", "keep"} -> "info"
                     [] loop = "info"  -> "cmd"
                     [] loop = "cmd"   -> "entry"
                     [] loop = "entry" -> "pick"
    BY <1>1 DEF NextLoop, TypeOK, Loops
  <1>3. /\ loop # "dedup" => OfPass' = OfPass
        /\ loop # "entry" => Waiting' = OfPass'
        /\ Waiting = {}
    BY <1>1, LoopEffect
  <1>4. ASSUME NEW d \in Drivers
        PROVE  /\ Unentered(d)' => Unentered(d)
               /\ Nested(d) /\ Uninformed(d) => Uninformed(d)'
    <2>1. CASE loop = "dedup"
      <3>1. Unentered(d) /\ ~ Nested(d)
        BY <2>1, FirstDrivers DEF Unentered, Uncommanded, Uninformed
      <3>2. QED
        BY <3>1
    <2>2. CASE loop = "keep"
      BY <1>2, <1>3, <2>2 DEF Unentered, Uncommanded, Uninformed
    <2>3. CASE loop = "info"
      BY <1>2, <1>3, <2>3 DEF Unentered, Uncommanded, Uninformed
    <2>4. CASE loop = "cmd"
      BY <1>2, <1>3, <2>4 DEF Unentered, Uncommanded, Uninformed
    <2>5. CASE loop = "entry"
      BY <1>2, <1>3, <2>5 DEF Unentered, Uncommanded, Uninformed
    <2>6. QED
      BY <1>2, <2>1, <2>2, <2>3, <2>4, <2>5
  <1>5. QED
    BY <1>1, <1>2, <1>4, SameIsQuiet

\* and a step that changes nothing.
LEMMA StutterQuiet ==
    ASSUME Inv, UNCHANGED vars
    PROVE  Quiet
  <1>1. /\ UNCHANGED objects /\ walk_order' = walk_order /\ device_drivers' = device_drivers
        /\ loop' = loop /\ results' = results /\ todo' = todo
    BY DEF vars, objects
  <1>2. OfPass' = OfPass /\ Waiting' = Waiting
    BY <1>1 DEF OfPass, Waiting
  <1>3. \A d \in Drivers : (Unentered(d)' => Unentered(d)) /\ (Uninformed(d) => Uninformed(d)')
    BY <1>1, <1>2 DEF Unentered, Uncommanded, Uninformed
  <1>4. TypeOK
    BY DEF Inv
  <1>5. QED
    BY <1>1, <1>3, <1>4, SameIsQuiet

\* What is told of a driver of the parent stays in a quiet step.
LEMMA QuietDriver ==
    ASSUME Inv, Grows, NEW d \in Drivers,
           Nested(d) => drivers'[ParentDriver(d)].cmd = drivers[ParentDriver(d)].cmd
    PROVE  /\ Nested(d)' <=> Nested(d)
           /\ ParentDriver(d)' = ParentDriver(d)
           /\ Handler(d)' = Handler(d)
           /\ InfoOf(d)' = InfoOf(d)
           /\ CommandsTold(d)' = CommandsTold(d)
  <1>1. TypeOK
    BY DEF Inv
  <1>2. ParentDriver(d)' = ParentDriver(d) /\ Handler(d)' = Handler(d)
    BY <1>1, SameDriver
  <1>3. drivers'[d].finding = drivers[d].finding
    BY DEF Grows
  <1>4. OpenedBy(d)' = OpenedBy(d)
    BY <1>2, <1>3 DEF OpenedBy, Nested
  <1>5. InfoOf(d)' = InfoOf(d)
    BY <1>1, SameInfoOf DEF Nested
  <1>6. CommandsTold(d)' = CommandsTold(d)
    BY <1>3, <1>4 DEF CommandsTold, Smallest
  <1>7. QED
    BY <1>2, <1>5, <1>6 DEF Nested

-----------------------------------------------------------------------------
(***************************************************************************)
(* Every step keeps the ids.                                               *)
(***************************************************************************)
LEMMA OldIds ==
    ASSUME TypeOK, IdInv, Grows
    PROVE  /\ \A d \in Drivers : IdOK(d)'
           /\ \A e \in DOMAIN entries : InitEntryOK(e)'
  <1>1. ASSUME NEW d \in Drivers PROVE IdOK(d)'
    <2>1. ParentDriver(d)' = ParentDriver(d) /\ drivers'[d].finding = drivers[d].finding
          /\ drivers'[d].id = drivers[d].id
      BY SameDriver DEF Grows
    <2>2. Nested(d) => ParentDriver(d) \in Drivers
      BY DriverFacts DEF Nested
    <2>3. Nested(d) => drivers'[ParentDriver(d)].id = drivers[ParentDriver(d)].id
      BY <2>2 DEF Grows
    <2>4. IdOK(d)
      BY DEF IdInv
    <2>5. QED
      BY <2>1, <2>3, <2>4 DEF IdOK, Nested
  <1>2. ASSUME NEW e \in DOMAIN entries PROVE InitEntryOK(e)'
    <2>1. entries'[e] = entries[e] /\ InitEntryOK(e)
      BY DEF Grows, IdInv
    <2>2. QED
      BY <2>1 DEF InitEntryOK, NewInitEntry
  <1>3. QED
    BY <1>1, <1>2

\* Ids stay in quiet steps,
LEMMA QuietIds ==
    ASSUME TypeOK, IdInv, Quiet
    PROVE  IdInv'
  BY OldIds DEF Quiet, IdInv

\* those of the drivers of an init function are single call chains,
LEMMA InitIds ==
    ASSUME TypeOK, IdInv, NEW f \in todo_init, AnalysisInitFunction(f)
    PROVE  IdInv'
  <1>1. Grows
    BY InitEffect
  <1>2. NewInOrder(<<>>)
    BY InitOrder
  <1>3. PICK new \in Nat : /\ NewDrivers(new)
                           /\ \A e \in DOMAIN entries' : e \in DOMAIN entries \/ e = new
                           /\ entries'[new] = NewInitEntry(f)
                           /\ NewInitEntry(f).parent = None /\ NewInitEntry(f).name = f
    BY InitOrder
  <1>4. ASSUME NEW d \in Drivers', d \notin Drivers PROVE IdOK(d)'
    <2>1. drivers'[d].parent = new /\ drivers'[d].id = Append(<<>>, SourceLines[drivers'[d].finding])
      BY <1>2, <1>3, <1>4 DEF NewDrivers, NewInOrder, Drivers
    <2>2. ~ Nested(d)'
      BY <1>3, <2>1 DEF Nested, ParentDriver
    <2>3. QED
      BY <2>1, <2>2 DEF IdOK
  <1>5. InitEntryOK(new)'
    BY <1>3 DEF InitEntryOK, NewInitEntry
  <1>6. QED
    BY <1>1, <1>3, <1>4, <1>5, OldIds DEF IdInv

\* collect_info() adds an entry that has no drivers,
LEMMA InfoIds ==
    ASSUME TypeOK, PassInv, BirthInv, IdInv, CollectInfo
    PROVE  IdInv'
  <1>1. Grows /\ Drivers' = Drivers
    BY InfoEffect
  <1>2. ASSUME NEW e \in DOMAIN entries', e \notin DOMAIN entries PROVE InitEntryOK(e)'
    <2>1. Visit \in Drivers
      BY TurnFacts DEF CollectInfo
    <2>2. e = drivers'[Visit].ioctl /\ e \in Nat \ {0}
      <3>1. entries' \in Seq(Entry)
        BY InfoEffect
      <3>2. QED
        BY <1>2, <3>1, InfoEffect
    <2>3. entries'[e] = EntryOf(Visit)
      BY <2>2, InfoEffect DEF None
    <2>4. entries'[e].parent = Visit /\ Visit # None
      BY <2>1, <2>3, DriverFacts DEF EntryOf, NewIoctlEntry
    <2>5. QED
      BY <2>4 DEF InitEntryOK
  <1>3. QED
    BY <1>1, <1>2, OldIds DEF IdInv

\* and the drivers of an entry extend the id of the driver above.
LEMMA EntryIds ==
    ASSUME TypeOK, EntryInv, IdInv, NEW e \in entry_set, AnalysisEntry(e)
    PROVE  IdInv'
  <1>1. Grows /\ NewDrivers(e) /\ entries' = entries /\ e \in DOMAIN entries
        /\ entries[e].parent # None
    BY EntryEffect
  <1>2. NewInOrder(drivers[entries[e].parent].id)
    BY EntryOrder
  <1>3. ASSUME NEW d \in Drivers', d \notin Drivers PROVE IdOK(d)'
    <2>1. /\ drivers'[d].parent = e
          /\ drivers'[d].id = Append(drivers[entries[e].parent].id, SourceLines[drivers'[d].finding])
      BY <1>1, <1>2, <1>3 DEF NewDrivers, NewInOrder, Drivers
    <2>2. ParentDriver(d)' = entries[e].parent /\ Nested(d)'
      BY <1>1, <2>1 DEF ParentDriver, Nested
    <2>3. entries[e].parent \in Drivers
      BY <1>1, EntryFacts
    <2>4. drivers'[entries[e].parent].id = drivers[entries[e].parent].id
      BY <1>1, <2>3 DEF Grows
    <2>5. QED
      BY <2>1, <2>2, <2>4 DEF IdOK
  <1>4. QED
    BY <1>1, <1>3, OldIds DEF IdInv

-----------------------------------------------------------------------------
(***************************************************************************)
(* Every step keeps entries without drivers until they are explored.       *)
(***************************************************************************)
LEMMA SameChildless ==
    ASSUME Grows, Drivers' = Drivers, NEW e, Childless(e)
    PROVE  Childless(e)'
  BY DEF Grows, Childless

\* What waits to be explored has no drivers: after a quiet step,
LEMMA QuietFresh ==
    ASSUME TypeOK, FreshInv, Quiet, \A e \in entry_set' : e \in entry_set \/ Childless(e)
    PROVE  FreshInv'
  <1>1. \A e \in entry_set' : Childless(e)'
    BY SameChildless DEF FreshInv, Quiet
  <1>2. ASSUME NEW p \in Drivers', drivers'[p].ioctl # None, Unentered(p)'
        PROVE  Childless(drivers[p].ioctl)'
    <2>1. p \in Drivers /\ drivers'[p].ioctl = drivers[p].ioctl /\ Unentered(p)
      BY <1>2 DEF Quiet
    <2>2. PICK a : a = drivers[p].ioctl
      OBVIOUS
    <2>3. Childless(a)
      BY <1>2, <2>1, <2>2 DEF FreshInv
    <2>4. Childless(a)'
      BY <2>3, SameChildless DEF Quiet
    <2>5. QED
      BY <2>1, <2>2, <2>4
  <1>3. QED
    BY <1>1, <1>2 DEF FreshInv

\* after exploring an init function, before any driver has an ioctl entry,
LEMMA InitFresh ==
    ASSUME Inv, FreshInv, NEW f \in todo_init, AnalysisInitFunction(f)
    PROVE  FreshInv'
  <1>1. TypeOK /\ PassInv /\ InfoInv /\ loop = "init" /\ entry_set' = entry_set
    BY DEF Inv, AnalysisInitFunction
  <1>2. entry_set' = {}
    BY <1>1 DEF PassInv
  <1>3. PICK new \in Nat : NewDrivers(new)
    BY <1>1, InitEffect
  <1>4. ASSUME NEW p \in Drivers' PROVE drivers'[p].ioctl = None
    <2>1. CASE p \in Drivers
      <3>1. drivers[p].ioctl = None
        BY <1>1, <2>1 DEF InfoInv, InfoOK, Uninformed
      <3>2. QED
        BY <1>3, <2>1, <3>1 DEF NewDrivers
    <2>2. CASE p \notin Drivers
      BY <1>3, <2>2 DEF NewDrivers, Drivers
    <2>3. QED
      BY <2>1, <2>2
  <1>5. QED
    BY <1>2, <1>4 DEF FreshInv

\* after collect_info(), whose entry is new,
LEMMA InfoFresh ==
    ASSUME Inv, FreshInv, CollectInfo
    PROVE  FreshInv'
  <1>1. TypeOK /\ PassInv /\ BirthInv
    BY DEF Inv
  <1>2. /\ Grows /\ Drivers' = Drivers
        /\ drivers'[Visit].ioctl # None => drivers'[Visit].ioctl \notin DOMAIN entries
        /\ \A d \in Drivers : d # Visit => drivers'[d].ioctl = drivers[d].ioctl
    BY <1>1, InfoEffect
  <1>3. loop' = loop /\ loop = "info" /\ entry_set' = entry_set
    BY DEF CollectInfo
  <1>4. OfPass' = OfPass /\ Waiting' \subseteq Waiting
    BY <1>1, TurnFacts DEF CollectInfo
  <1>5. ASSUME NEW p \in Drivers, drivers'[p].ioctl # None, Unentered(p)'
        PROVE  Childless(drivers[p].ioctl)'
    <2>1. CASE p = Visit
      <3>1. drivers'[p].ioctl \notin DOMAIN entries
        BY <1>2, <1>5, <2>1
      <3>2. \A x \in Drivers : drivers'[x].parent \in DOMAIN entries
        BY <1>1, <1>2, DriverFacts DEF Grows
      <3>3. QED
        BY <1>2, <3>1, <3>2 DEF Childless
    <2>2. CASE p # Visit
      <3>1. drivers'[p].ioctl = drivers[p].ioctl
        BY <1>2, <2>2
      <3>2. Unentered(p)
        BY <1>3, <1>4, <1>5 DEF Unentered, Uncommanded, Uninformed
      <3>3. PICK a : a = drivers[p].ioctl
        OBVIOUS
      <3>4. Childless(a)
        BY <1>5, <3>1, <3>2, <3>3 DEF FreshInv
      <3>5. Childless(a)'
        BY <1>2, <3>4, SameChildless
      <3>6. QED
        BY <3>1, <3>3, <3>5
    <2>3. QED
      BY <2>1, <2>2
  <1>6. \A e \in entry_set' : Childless(e)'
    BY <1>2, <1>3, SameChildless DEF FreshInv
  <1>7. QED
    BY <1>2, <1>5, <1>6 DEF FreshInv

\* and after an entry was explored, which waits no more.
LEMMA EntryFresh ==
    ASSUME Inv, FreshInv, NEW e \in entry_set, AnalysisEntry(e)
    PROVE  FreshInv'
  <1>1. TypeOK /\ EntryInv
    BY DEF Inv
  <1>2. Grows /\ NewDrivers(e) /\ OfPass' = Drivers' \ Drivers
    BY <1>1, EntryEffect
  <1>3. entry_set' = entry_set \ {e} /\ loop' = "keep"
    BY DEF AnalysisEntry, Left
  <1>4. ASSUME NEW a \in entry_set' PROVE Childless(a)'
    <2>1. a \in entry_set /\ a # e
      BY <1>3
    <2>2. \A x \in Drivers' : drivers'[x].parent # a
      <3> TAKE x \in Drivers'
      <3>1. CASE x \in Drivers
        BY <1>2, <2>1, <3>1 DEF FreshInv, Childless, Grows
      <3>2. CASE x \notin Drivers
        BY <1>2, <2>1, <3>2 DEF NewDrivers, Drivers
      <3>3. QED
        BY <3>1, <3>2
    <2>3. QED
      BY <2>2 DEF Childless
  <1>5. ASSUME NEW p \in Drivers', Unentered(p)' PROVE drivers'[p].ioctl = None
    <2>1. p \in OfPass'
      BY <1>3, <1>5 DEF Unentered, Uncommanded, Uninformed
    <2>2. p \notin Drivers
      BY <1>2, <2>1
    <2>3. QED
      BY <1>2, <2>2 DEF NewDrivers, Drivers
  <1>6. QED
    BY <1>4, <1>5 DEF FreshInv

\* Of the quiet steps only collect_entry_function() adds to the worklist.
LEMMA EnterFresh ==
    ASSUME Inv, FreshInv, CollectEntryFunction
    PROVE  FreshInv'
  <1>1. TypeOK /\ PassInv /\ Quiet
    BY EnterQuiet DEF Inv
  <1>2. Visit \in Drivers /\ Visit \in Waiting /\ Visit \in OfPass /\ loop = "entry"
    BY <1>1, TurnFacts DEF CollectEntryFunction
  <1>3. Unentered(Visit)
    BY <1>2 DEF Unentered
  <1>4. \A e \in entry_set' : e \in entry_set \/ (e = drivers[Visit].ioctl /\ e # None)
    BY DEF CollectEntryFunction
  <1>5. \A e \in entry_set' : e \in entry_set \/ Childless(e)
    BY <1>2, <1>3, <1>4 DEF FreshInv
  <1>6. QED
    BY <1>1, <1>5, QuietFresh

-----------------------------------------------------------------------------
(***************************************************************************)
(* Every step keeps the order.                                             *)
(***************************************************************************)
LEMMA SameOrder ==
    ASSUME TypeOK, BornInOrder, Grows, Drivers' = Drivers, walk_order' = walk_order
    PROVE  BornInOrder'
  <1>1. \A x \in Drivers : /\ drivers'[x].parent = drivers[x].parent
                           /\ drivers'[x].finding = drivers[x].finding
    BY DEF Grows
  <1>2. QED
    BY <1>1 DEF BornInOrder, Precedes

\* The new drivers of an entry that had none are in the order of the walk.
LEMMA NewOrder ==
    ASSUME TypeOK, BornInOrder, Grows, walk_order' = walk_order, NEW e, NewDrivers(e), Childless(e),
           NEW id, NewInOrder(id)
    PROVE  BornInOrder'
  <1>1. ASSUME NEW x \in Drivers', NEW y \in Drivers', x < y,
               drivers'[x].parent = drivers'[y].parent
        PROVE  Precedes(drivers'[x].finding, drivers'[y].finding)
    <2>1. \A d \in Drivers : /\ drivers'[d].parent = drivers[d].parent
                             /\ drivers'[d].finding = drivers[d].finding
                             /\ drivers[d].parent # e
      BY DEF Grows, Childless
    <2>2. \A d \in Drivers' : d \notin Drivers => drivers'[d].parent = e
      BY DEF NewDrivers, Drivers
    <2>3. CASE x \in Drivers /\ y \in Drivers
      BY <1>1, <2>1, <2>3 DEF BornInOrder
    <2>4. CASE x \notin Drivers /\ y \notin Drivers
      BY <1>1, <2>4 DEF NewInOrder, Drivers
    <2>5. QED
      BY <1>1, <2>1, <2>2, <2>3, <2>4
  <1>2. QED
    BY <1>1 DEF BornInOrder, Precedes

\* Whether a driver is nested never changes,
LEMMA SameNested ==
    ASSUME TypeOK, Grows, NEW d \in Drivers
    PROVE  Nested(d)' <=> Nested(d)
  BY SameDriver DEF Nested

\* and the drivers of an entry stay together.
LEMMA SameTogether ==
    ASSUME TypeOK, Together, Grows, Drivers' = Drivers, OfPass' = OfPass, OfPass \subseteq Drivers,
           loop # "pick"
    PROVE  Together'
  <1>1. \A x \in Drivers : /\ drivers'[x].parent = drivers[x].parent
                           /\ Nested(x)' <=> Nested(x)
    BY SameNested DEF Grows
  <1>2. QED
    BY <1>1 DEF Together

\* A sequence that ascends goes on doing so, and so does its tail.
LEMMA SameAscends ==
    ASSUME TypeOK, Grows, NEW s \in Seq(Drivers), Ascends(s), NEW t,
           t = s \/ (s # <<>> /\ t = Tail(s))
    PROVE  \A i, j \in DOMAIN t : i < j /\ Nested(t[i])' => t[i] < t[j]
  <1>1. \A i \in DOMAIN s : s[i] \in Drivers
    OBVIOUS
  <1>2. \A i, j \in DOMAIN s : i < j /\ Nested(s[i])' => s[i] < s[j]
    BY <1>1, SameNested DEF Ascends
  <1>3. CASE t = s
    BY <1>2, <1>3
  <1>4. CASE s # <<>> /\ t = Tail(s)
    <2>1. /\ DOMAIN t = 1 .. Len(s) - 1 /\ DOMAIN s = 1 .. Len(s) /\ Len(s) \in Nat
          /\ \A i \in 1 .. Len(s) - 1 : t[i] = s[i + 1]
      BY <1>4
    <2>2. ASSUME NEW i \in DOMAIN t, NEW j \in DOMAIN t, i < j, Nested(t[i])'
          PROVE  t[i] < t[j]
      <3>1. PICK k \in DOMAIN s, l \in DOMAIN s : k = i + 1 /\ l = j + 1 /\ k < l
        BY <2>1, <2>2
      <3>2. t[i] = s[k] /\ t[j] = s[l]
        BY <2>1, <3>1
      <3>3. Nested(s[k])'
        BY <2>2, <3>2
      <3>4. QED
        BY <1>2, <3>1, <3>2, <3>3
    <2>3. QED
      BY <2>2
  <1>5. QED
    BY <1>3, <1>4

\* The order is kept by the turns of a loop,
LEMMA TurnOrder ==
    ASSUME Inv, OrderInv, Grows, Drivers' = Drivers, walk_order' = walk_order,
           todo # <<>>, todo' = Rest, results' = results, loop' = loop, loop # "pick"
    PROVE  OrderInv'
  <1>1. TypeOK /\ PassInv
    BY DEF Inv
  <1>2. BornInOrder'
    BY <1>1, SameOrder DEF OrderInv
  <1>3. results \in Seq(Drivers) /\ todo \in Seq(Drivers)
    BY <1>1 DEF TypeOK, Drivers
  <1>4. /\ Visit \in Waiting /\ Visit \in OfPass /\ Visit \in Drivers
        /\ Waiting' = Waiting \ {Visit} /\ OfPass' = OfPass
    BY <1>1, TurnFacts
  <1>5. OfPass \subseteq Drivers
    BY <1>3 DEF OfPass
  <1>6. Together'
    BY <1>1, <1>4, <1>5, SameTogether DEF OrderInv
  <1>7. Ascends(results)'
    <2>1. PICK s \in Seq(Drivers) : s = results /\ s = results'
      BY <1>3
    <2>2. \A i, j \in DOMAIN s : i < j /\ Nested(s[i])' => s[i] < s[j]
      BY <1>1, <2>1, SameAscends DEF OrderInv
    <2>3. QED
      BY <2>1, <2>2 DEF Ascends, Nested, ParentDriver
  <1>8. Ascends(todo)'
    <2>1. PICK t : t = todo'
      OBVIOUS
    <2>2. PICK s \in Seq(Drivers) : s = todo /\ s # <<>> /\ t = Tail(s)
      BY <1>3, <2>1 DEF Rest
    <2>3. \A i, j \in DOMAIN t : i < j /\ Nested(t[i])' => t[i] < t[j]
      BY <1>1, <2>2, SameAscends DEF OrderInv
    <2>4. QED
      BY <2>1, <2>3 DEF Ascends, Nested, ParentDriver
  <1>9. ASSUME loop = "info", NEW x \in OfPass' \ Waiting', Nested(x)', NEW y \in Waiting'
        PROVE  x < y
    <2>1. x \in OfPass /\ y \in Waiting /\ y # Visit /\ (x = Visit \/ x \notin Waiting)
      BY <1>4, <1>9
    <2>2. Nested(x)
      BY <1>1, <1>5, <1>9, <2>1, SameNested
    <2>3. CASE x \notin Waiting
      BY <1>9, <2>1, <2>2, <2>3 DEF OrderInv, InTurn
    <2>4. CASE x = Visit
      <3>1. PICK j \in DOMAIN todo : y = todo[j]
        BY <2>1 DEF Waiting
      <3>2. 1 \in DOMAIN todo /\ todo[1] = x /\ j # 1 /\ j \in Nat /\ 1 <= j
        BY <1>3, <2>1, <2>4, <3>1 DEF Visit
      <3>3. QED
        BY <2>2, <3>1, <3>2 DEF OrderInv, Ascends
    <2>5. QED
      BY <2>1, <2>3, <2>4
  <1>10. InTurn'
    BY <1>9 DEF InTurn
  <1>11. QED
    BY <1>2, <1>6, <1>7, <1>8, <1>10 DEF OrderInv

\* and by exploring an init function, whose drivers are not nested.
LEMMA InitOrderInv ==
    ASSUME Inv, OrderInv, NEW f \in todo_init, AnalysisInitFunction(f)
    PROVE  OrderInv'
  <1>1. TypeOK /\ PassInv /\ BirthInv
    BY DEF Inv
  <1>2. /\ loop = "init" /\ loop' = "init" /\ results' = <<>> /\ todo' = <<>>
        /\ walk_order' = walk_order
    BY <1>1 DEF AnalysisInitFunction, worklist, PassInv
  <1>3. Grows
    BY <1>1, InitEffect
  <1>4. PICK new \in Nat : NewDrivers(new) /\ new \notin DOMAIN entries
    BY <1>1, InitOrder
  <1>5. Childless(new)
    BY <1>1, <1>4, DriverFacts DEF Childless
  <1>6. NewInOrder(<<>>)
    BY <1>1, InitOrder
  <1>7. BornInOrder'
    BY <1>1, <1>2, <1>3, <1>4, <1>5, <1>6, NewOrder DEF OrderInv
  <1>8. OfPass' = {}
    BY <1>2 DEF OfPass
  <1>9. Together' /\ InTurn'
    BY <1>2, <1>8 DEF Together, InTurn
  <1>10. Ascends(results)' /\ Ascends(todo)'
    BY <1>2 DEF Ascends
  <1>11. QED
    BY <1>7, <1>9, <1>10 DEF OrderInv

\* The first pass is over all drivers in the order they were made,
LEMMA StartOrder ==
    ASSUME Inv, OrderInv, StartKeeping
    PROVE  OrderInv'
  <1>1. TypeOK /\ PassInv
    BY DEF Inv
  <1>2. /\ UNCHANGED objects /\ walk_order' = walk_order /\ loop = "init" /\ loop' = "dedup"
        /\ results' = [i \in DOMAIN drivers |-> i] /\ todo' = results'
    BY DEF StartKeeping
  <1>3. Grows /\ Drivers' = Drivers
    BY <1>2, SameObjectsGrow DEF objects, Drivers
  <1>4. BornInOrder'
    BY <1>1, <1>2, <1>3, SameOrder DEF OrderInv
  <1>5. OfPass' = Drivers
    BY <1>1, StartEffect
  <1>6. Together'
    BY <1>3, <1>5 DEF Together
  <1>7. DOMAIN results' = DOMAIN drivers /\ \A i \in DOMAIN drivers : results'[i] = i
    BY <1>2
  <1>8. Ascends(results)' /\ Ascends(todo)'
    BY <1>2, <1>7 DEF Ascends
  <1>9. InTurn'
    BY <1>2 DEF InTurn
  <1>10. QED
    BY <1>4, <1>6, <1>8, <1>9 DEF OrderInv

\* the next ones keep the order of the nested ones,
LEMMA LoopOrder ==
    ASSUME Inv, OrderInv, NextLoop
    PROVE  OrderInv'
  <1>1. TypeOK /\ PassInv
    BY DEF Inv
  <1>2. /\ UNCHANGED objects /\ walk_order' = walk_order /\ loop \notin {"init", "pick"}
        /\ loop # "dedup" => results' = results
        /\ todo' = IF loop = "entry" THEN <<>> ELSE results'
        /\ loop \in {"dedup", "keep", "info", "cmd", "entry"}
        /\ loop' = CASE loop \in {"dedup", "keep"} -> "info"
                     [] loop = "info"  -> "cmd"
                     [] loop = "cmd"   -> "entry"
                     [] loop = "entry" -> "pick"
    BY <1>1 DEF NextLoop, TypeOK, Loops
  <1>3. Grows /\ Drivers' = Drivers
    BY <1>2, SameObjectsGrow DEF objects, Drivers
  <1>4. BornInOrder'
    BY <1>1, <1>2, <1>3, SameOrder DEF OrderInv
  <1>5. /\ results' \in Seq(Drivers)
        /\ loop # "dedup" => OfPass' = OfPass
        /\ loop # "entry" => Waiting' = OfPass'
    BY <1>1, LoopEffect
  <1>6. InTurn'
    <2>1. loop' = "info" => Waiting' = OfPass'
      BY <1>2, <1>5
    <2>2. QED
      BY <2>1 DEF InTurn
  <1>7. CASE loop = "dedup"
    <2>1. \A d \in Drivers : ~ Nested(d)'
      BY <1>1, <1>3, <1>7, FirstDrivers, SameNested
    <2>2. OfPass' \subseteq Drivers
      BY <1>5 DEF OfPass
    <2>3. Together'
      BY <2>1, <2>2 DEF Together
    <2>4. PICK s \in Seq(Drivers) : s = results' /\ s = todo'
      BY <1>2, <1>5, <1>7
    <2>5. \A i \in DOMAIN s : ~ Nested(s[i])'
      BY <2>1
    <2>6. Ascends(results)' /\ Ascends(todo)'
      BY <2>4, <2>5 DEF Ascends, Nested, ParentDriver
    <2>7. QED
      BY <1>4, <1>6, <2>3, <2>6 DEF OrderInv
  <1>8. CASE loop # "dedup"
    <2>1. OfPass \subseteq Drivers /\ results \in Seq(Drivers)
      BY <1>1 DEF TypeOK, OfPass, Drivers
    <2>2. Together'
      BY <1>1, <1>2, <1>3, <1>5, <1>8, <2>1, SameTogether DEF OrderInv
    <2>3. PICK s \in Seq(Drivers) : s = results /\ s = results' /\ (todo' = s \/ todo' = <<>>)
      BY <1>2, <1>8, <2>1
    <2>4. \A i, j \in DOMAIN s : i < j /\ Nested(s[i])' => s[i] < s[j]
      BY <1>1, <1>3, <2>3, SameAscends DEF OrderInv
    <2>5. Ascends(results)'
      BY <2>3, <2>4 DEF Ascends, Nested, ParentDriver
    <2>6. Ascends(todo)'
      <3>1. CASE todo' = <<>>
        BY <3>1 DEF Ascends
      <3>2. CASE todo' = s
        BY <2>4, <3>2 DEF Ascends, Nested, ParentDriver
      <3>3. QED
        BY <2>3, <3>1, <3>2
    <2>7. QED
      BY <1>4, <1>6, <2>2, <2>5, <2>6 DEF OrderInv
  <1>9. QED
    BY <1>7, <1>8

\* and the pass over the drivers of an entry starts in the order of its walk.
LEMMA EntryOrderInv ==
    ASSUME Inv, OrderInv, FreshInv, NEW e \in entry_set, AnalysisEntry(e)
    PROVE  OrderInv'
  <1>1. TypeOK /\ EntryInv
    BY DEF Inv
  <1>2. /\ Grows /\ NewDrivers(e) /\ entries' = entries
        /\ todo' = results' /\ OfPass' = Drivers' \ Drivers
    BY <1>1, EntryEffect
  <1>3. walk_order' = walk_order /\ loop' = "keep"
    BY DEF AnalysisEntry
  <1>4. Childless(e)
    BY DEF FreshInv
  <1>5. /\ NewInOrder(drivers[entries[e].parent].id)
        /\ \A i, j \in DOMAIN results' : i < j => results'[i] < results'[j]
    BY <1>1, EntryOrder
  <1>6. BornInOrder'
    BY <1>1, <1>2, <1>3, <1>4, <1>5, NewOrder DEF OrderInv
  <1>7. Together'
    <2>1. ASSUME NEW x \in OfPass', NEW y \in Drivers', drivers'[y].parent = drivers'[x].parent
          PROVE  y \in OfPass'
      <3>1. drivers'[x].parent = e
        BY <1>2, <2>1 DEF NewDrivers, Drivers
      <3>2. y \notin Drivers
        BY <1>2, <1>4, <2>1, <3>1 DEF Childless, Grows
      <3>3. QED
        BY <1>2, <2>1, <3>2
    <2>2. QED
      BY <2>1 DEF Together
  <1>8. Ascends(results)' /\ Ascends(todo)'
    BY <1>2, <1>5 DEF Ascends
  <1>9. InTurn'
    BY <1>3 DEF InTurn
  <1>10. QED
    BY <1>6, <1>7, <1>8, <1>9 DEF OrderInv

\* collect_info() makes one turn like the others; a stuttering step makes none.
LEMMA StutterOrder ==
    ASSUME Inv, OrderInv, UNCHANGED vars
    PROVE  OrderInv'
  <1>1. /\ drivers' = drivers /\ entries' = entries /\ walk_order' = walk_order
        /\ loop' = loop /\ results' = results /\ todo' = todo
    BY DEF vars, objects, worklist
  <1>2. BornInOrder' /\ Together' /\ Ascends(results)' /\ Ascends(todo)' /\ InTurn'
    BY <1>1 DEF OrderInv, BornInOrder, Together, Ascends, InTurn, Nested, ParentDriver,
                Precedes, OfPass, Waiting, Drivers
  <1>3. QED
    BY <1>2 DEF OrderInv

\* so every step keeps the order.
LEMMA OrderStep ==
    ASSUME Inv, OrderInv, FreshInv, [Next]_vars
    PROVE  OrderInv'
  <1>1. TypeOK /\ PassInv /\ BirthInv
    BY DEF Inv
  <1>2. ASSUME NEW f \in todo_init, AnalysisInitFunction(f) PROVE OrderInv'
    BY <1>2, InitOrderInv
  <1>3. CASE StartKeeping
    BY <1>3, StartOrder
  <1>4. CASE Keep
    <2>1. Grows /\ Drivers' = Drivers
      BY <1>1, <1>4, KeepEffect
    <2>2. /\ walk_order' = walk_order /\ todo # <<>> /\ todo' = Rest /\ results' = results
          /\ loop' = loop /\ loop # "pick"
      BY <1>4 DEF Keep
    <2>3. QED
      BY <2>1, <2>2, TurnOrder
  <1>5. CASE CollectInfo
    <2>1. Grows /\ Drivers' = Drivers
      BY <1>1, <1>5, InfoEffect
    <2>2. /\ walk_order' = walk_order /\ todo # <<>> /\ todo' = Rest /\ results' = results
          /\ loop' = loop /\ loop # "pick"
      BY <1>5 DEF CollectInfo
    <2>3. QED
      BY <2>1, <2>2, TurnOrder
  <1>6. CASE CollectCmdAndType
    <2>1. Grows /\ Drivers' = Drivers
      BY <1>1, <1>6, CmdEffect DEF Inv
    <2>2. /\ walk_order' = walk_order /\ todo # <<>> /\ todo' = Rest /\ results' = results
          /\ loop' = loop /\ loop # "pick"
      BY <1>6 DEF CollectCmdAndType
    <2>3. QED
      BY <2>1, <2>2, TurnOrder
  <1>7. CASE CollectEntryFunction
    <2>1. UNCHANGED objects
      BY <1>7 DEF CollectEntryFunction, objects
    <2>2. Grows /\ Drivers' = Drivers
      BY <2>1, SameObjectsGrow DEF objects, Drivers
    <2>3. /\ walk_order' = walk_order /\ todo # <<>> /\ todo' = Rest /\ results' = results
          /\ loop' = loop /\ loop # "pick"
      BY <1>7 DEF CollectEntryFunction
    <2>4. QED
      BY <2>2, <2>3, TurnOrder
  <1>8. CASE NextLoop
    BY <1>8, LoopOrder
  <1>9. ASSUME NEW e \in entry_set, AnalysisEntry(e) PROVE OrderInv'
    BY <1>9, EntryOrderInv
  <1>10. CASE UNCHANGED vars
    BY <1>10, StutterOrder
  <1>11. QED
    BY <1>2, <1>3, <1>4, <1>5, <1>6, <1>7, <1>8, <1>9, <1>10 DEF Next

-----------------------------------------------------------------------------
(***************************************************************************)
(* Every step keeps what collect_info() has done.                          *)
(***************************************************************************)

\* An old driver that has its information keeps it.
LEMMA KeepsTurn ==
    ASSUME Inv, TurnInv, Grows, NEW d \in Drivers,
           Nested(d) => drivers'[ParentDriver(d)].cmd = drivers[ParentDriver(d)].cmd,
           drivers'[d].ioctl = drivers[d].ioctl,
           drivers'[d].non_open_parent = drivers[d].non_open_parent,
           ~ Uninformed(d), Nested(d)'
    PROVE  /\ drivers'[d].non_open_parent = InfoOf(d)'
           /\ Handler(d)' # NoHandler => drivers'[d].ioctl # None
  <1>1. Nested(d) /\ Handler(d)' = Handler(d) /\ InfoOf(d)' = InfoOf(d)
    BY QuietDriver
  <1>2. QED
    BY <1>1 DEF TurnInv

\* The roots that are kept do so in every step.
LEMMA KeepsRoots ==
    ASSUME Inv, TurnInv, Grows, NEW d \in Drivers,
           drivers'[d].ioctl = drivers[d].ioctl, device_drivers \subseteq device_drivers',
           ~ Nested(d)', drivers'[d].ioctl # None
    PROVE  d \in device_drivers'
  <1>1. ~ Nested(d)
    BY SameNested DEF Inv
  <1>2. QED
    BY <1>1 DEF TurnInv

\* What collect_info() did stays done: in quiet steps,
LEMMA QuietTurns ==
    ASSUME Inv, TurnInv, Quiet,
           loop' \notin {"init", "dedup"} =>
              \/ OfPass' \subseteq device_drivers'
              \/ OfPass' = OfPass /\ loop \notin {"init", "dedup"}
    PROVE  TurnInv'
  <1>1. ASSUME NEW d \in Drivers', Nested(d)', ~ Uninformed(d)'
        PROVE  /\ drivers'[d].non_open_parent = InfoOf(d)'
               /\ Handler(d)' # NoHandler => drivers'[d].ioctl # None
    <2>1. d \in Drivers /\ Nested(d)
      BY <1>1, SameNested DEF Quiet, Inv
    <2>2. ~ Uninformed(d)
      BY <1>1, <2>1 DEF Quiet
    <2>3. QED
      BY <1>1, <2>1, <2>2, KeepsTurn DEF Quiet
  <1>2. ASSUME NEW d \in Drivers', ~ Nested(d)', drivers'[d].ioctl # None
        PROVE  d \in device_drivers'
    BY <1>2, KeepsRoots DEF Quiet
  <1>3. ASSUME loop' \notin {"init", "dedup"}, NEW d \in OfPass', ~ Nested(d)'
        PROVE  d \in device_drivers'
    <2>1. CASE OfPass' = OfPass /\ loop \notin {"init", "dedup"}
      <3>1. d \in OfPass /\ d \in Drivers
        <4>1. d \in OfPass /\ results \in Seq(Drivers)
          BY <1>3, <2>1 DEF Inv, TypeOK, Drivers
        <4>2. QED
          BY <4>1 DEF OfPass
      <3>2. ~ Nested(d)
        BY <1>3, <3>1, SameNested DEF Quiet, Inv
      <3>3. QED
        BY <2>1, <3>1, <3>2 DEF TurnInv, Quiet
    <2>2. QED
      BY <1>3, <2>1
  <1>4. QED
    BY <1>1, <1>2, <1>3 DEF TurnInv

\* in its other turns,
LEMMA InfoTurns ==
    ASSUME Inv, TurnInv, CollectInfo
    PROVE  TurnInv'
  <1>1. TypeOK /\ PassInv /\ BirthInv
    BY DEF Inv
  <1>2. /\ Grows /\ Drivers' = Drivers
        /\ drivers'[Visit].ioctl = None => Handler(Visit) = NoHandler
        /\ drivers'[Visit].non_open_parent = InfoOf(Visit)
        /\ \A d \in Drivers :
              /\ d # Visit => /\ drivers'[d].ioctl = drivers[d].ioctl
                              /\ drivers'[d].non_open_parent = drivers[d].non_open_parent
              /\ drivers'[d].cmd = drivers[d].cmd
    BY <1>1, InfoEffect
  <1>3. /\ Visit \in OfPass /\ Visit \in Drivers
        /\ Waiting' = Waiting \ {Visit} /\ OfPass' = OfPass
    BY <1>1, TurnFacts DEF CollectInfo
  <1>4. loop = "info" /\ loop' = "info" /\ device_drivers' = device_drivers
    BY DEF CollectInfo
  <1>5. \A d \in Drivers : Nested(d) => drivers'[ParentDriver(d)].cmd = drivers[ParentDriver(d)].cmd
    BY <1>1, <1>2, DriverFacts DEF Nested
  <1>6. ASSUME NEW d \in Drivers, Nested(d)', ~ Uninformed(d)'
        PROVE  /\ drivers'[d].non_open_parent = InfoOf(d)'
               /\ Handler(d)' # NoHandler => drivers'[d].ioctl # None
    <2>1. CASE d = Visit
      <3>1. InfoOf(d)' = InfoOf(d) /\ Handler(d)' = Handler(d)
        BY <1>2, <1>5, QuietDriver
      <3>2. QED
        BY <1>2, <2>1, <3>1
    <2>2. CASE d # Visit
      <3>1. ~ Uninformed(d)
        BY <1>3, <1>4, <1>6, <2>2 DEF Uninformed
      <3>2. QED
        BY <1>2, <1>5, <1>6, <2>2, <3>1, KeepsTurn
    <2>3. QED
      BY <2>1, <2>2
  <1>7. ASSUME NEW d \in OfPass, ~ Nested(d)' PROVE d \in device_drivers'
    <2>1. d \in Drivers
      BY <1>1 DEF OfPass, TypeOK, Drivers
    <2>2. ~ Nested(d)
      BY <1>1, <1>2, <1>7, <2>1, SameNested
    <2>3. QED
      BY <1>4, <2>2 DEF TurnInv
  <1>8. ASSUME NEW d \in Drivers, ~ Nested(d)', drivers'[d].ioctl # None
        PROVE  d \in device_drivers'
    BY <1>2, <1>3, <1>4, <1>7, <1>8, KeepsRoots
  <1>9. QED
    BY <1>2, <1>3, <1>6, <1>7, <1>8 DEF TurnInv

\* when there are no turns yet,
LEMMA InitTurns ==
    ASSUME Inv, TurnInv, NEW f \in todo_init, AnalysisInitFunction(f)
    PROVE  TurnInv'
  <1>1. TypeOK
    BY DEF Inv
  <1>2. loop' = "init" /\ device_drivers' = device_drivers
    BY DEF AnalysisInitFunction, worklist
  <1>3. PICK new \in Nat : NewDrivers(new)
    BY <1>1, InitEffect
  <1>4. Grows
    BY <1>1, InitEffect
  <1>5. ASSUME NEW d \in Drivers', ~ Nested(d)', drivers'[d].ioctl # None
        PROVE  d \in device_drivers'
    <2>1. d \in Drivers /\ drivers'[d] = drivers[d]
      BY <1>3, <1>5 DEF NewDrivers, Drivers
    <2>2. QED
      BY <1>2, <1>4, <1>5, <2>1, KeepsRoots
  <1>6. \A d : Uninformed(d)'
    BY <1>2 DEF Uninformed
  <1>7. QED
    BY <1>2, <1>5, <1>6 DEF TurnInv

\* and when the pass of new drivers begins,
LEMMA EntryTurns ==
    ASSUME Inv, TurnInv, NEW e \in entry_set, AnalysisEntry(e)
    PROVE  TurnInv'
  <1>1. TypeOK /\ EntryInv
    BY DEF Inv
  <1>2. /\ Grows /\ NewDrivers(e) /\ OfPass' = Drivers' \ Drivers
        /\ entries' = entries /\ entries[e].parent # None
    BY <1>1, EntryEffect
  <1>3. loop = "pick" /\ loop' = "keep" /\ device_drivers' = device_drivers
    BY DEF AnalysisEntry
  <1>4. \A d \in Drivers : drivers'[d] = drivers[d] /\ ~ Uninformed(d)
    BY <1>2, <1>3 DEF NewDrivers, Uninformed
  <1>5. \A d \in Drivers' : d \notin Drivers =>
            Uninformed(d)' /\ Nested(d)' /\ drivers'[d].ioctl = None
    <2>1. \A d \in Drivers' : d \notin Drivers => drivers'[d].parent = e /\ drivers'[d].ioctl = None
      BY <1>2 DEF NewDrivers, Drivers
    <2>2. \A d \in Drivers' : d \notin Drivers => Uninformed(d)'
      BY <1>2, <1>3 DEF Uninformed
    <2>3. \A d \in Drivers' : d \notin Drivers => Nested(d)'
      BY <1>2, <2>1 DEF Nested, ParentDriver
    <2>4. QED
      BY <2>1, <2>2, <2>3
  <1>6. ASSUME NEW d \in Drivers', Nested(d)', ~ Uninformed(d)'
        PROVE  /\ drivers'[d].non_open_parent = InfoOf(d)'
               /\ Handler(d)' # NoHandler => drivers'[d].ioctl # None
    <2>1. d \in Drivers
      BY <1>5, <1>6
    <2>2. Nested(d) => ParentDriver(d) \in Drivers
      BY <1>1, <2>1, DriverFacts DEF Nested
    <2>3. QED
      BY <1>2, <1>4, <1>6, <2>1, <2>2, KeepsTurn
  <1>7. ASSUME NEW d \in Drivers', ~ Nested(d)', drivers'[d].ioctl # None
        PROVE  d \in device_drivers'
    <2>1. d \in Drivers
      BY <1>5, <1>7
    <2>2. QED
      BY <1>2, <1>3, <1>4, <1>7, <2>1, KeepsRoots
  <1>8. \A d \in OfPass' : Nested(d)'
    BY <1>2, <1>5
  <1>9. QED
    BY <1>6, <1>7, <1>8 DEF TurnInv

\* so in every step.
LEMMA TurnStep ==
    ASSUME Inv, TurnInv, [Next]_vars
    PROVE  TurnInv'
  <1>1. TypeOK /\ PassInv
    BY DEF Inv
  <1>2. ASSUME NEW f \in todo_init, AnalysisInitFunction(f) PROVE TurnInv'
    BY <1>2, InitTurns
  <1>3. CASE StartKeeping
    <2>1. loop' = "dedup" /\ Quiet
      BY <1>3, StartQuiet DEF StartKeeping
    <2>2. QED
      BY <2>1, QuietTurns
  <1>4. CASE Keep
    <2>1. OfPass' = OfPass /\ loop' = loop /\ Quiet
      BY <1>1, <1>4, KeepQuiet, TurnFacts DEF Keep
    <2>2. QED
      BY <2>1, QuietTurns
  <1>5. CASE CollectInfo
    BY <1>5, InfoTurns
  <1>6. CASE CollectCmdAndType
    <2>1. OfPass' = OfPass /\ loop' = loop /\ Quiet
      BY <1>1, <1>6, CmdQuiet, TurnFacts DEF CollectCmdAndType
    <2>2. QED
      BY <2>1, QuietTurns
  <1>7. CASE CollectEntryFunction
    <2>1. OfPass' = OfPass /\ loop' = loop /\ Quiet
      BY <1>1, <1>7, EnterQuiet, TurnFacts DEF CollectEntryFunction
    <2>2. QED
      BY <2>1, QuietTurns
  <1>8. CASE NextLoop
    <2>1. /\ Quiet /\ loop \notin {"init", "pick"} /\ device_drivers' = device_drivers
          /\ loop = "dedup" => OfPass' = device_drivers
          /\ loop # "dedup" => OfPass' = OfPass
      BY <1>1, <1>8, LoopQuiet, LoopEffect DEF NextLoop
    <2>2. QED
      BY <2>1, QuietTurns
  <1>9. ASSUME NEW e \in entry_set, AnalysisEntry(e) PROVE TurnInv'
    BY <1>9, EntryTurns
  <1>10. CASE UNCHANGED vars
    <2>1. OfPass' = OfPass /\ loop' = loop /\ Quiet
      BY <1>10, StutterQuiet DEF vars, worklist, OfPass
    <2>2. QED
      BY <2>1, QuietTurns
  <1>11. QED
    BY <1>2, <1>3, <1>4, <1>5, <1>6, <1>7, <1>8, <1>9, <1>10 DEF Next

-----------------------------------------------------------------------------
(***************************************************************************)
(* Every step keeps what the commands have been told.                      *)
(***************************************************************************)
ToldOK(d) ==
    \A v \in CommandsTold(d) :
        LET last == drivers[ParentDriver(d)].opens[v] IN
        last # None /\ drivers[last].parent = drivers[d].parent /\ d <= last

\* What a command opens is a driver.
LEMMA ToldFacts ==
    ASSUME TypeOK, NEW d \in Drivers, Nested(d), NEW v \in CommandsTold(d)
    PROVE  /\ v \in Commands /\ ParentDriver(d) \in Drivers /\ d \in Nat
           /\ drivers[ParentDriver(d)].opens[v] # None =>
                 drivers[ParentDriver(d)].opens[v] \in Drivers
  <1>1. v \in Commands /\ ParentDriver(d) \in Drivers
    BY OpenedByFacts
  <1>2. DriverOK(ParentDriver(d)) /\ d \in Nat
    BY <1>1, DriverFacts
  <1>3. QED
    BY <1>1, <1>2 DEF DriverOK, Drivers

\* A driver whose parent's commands stay as they are.
LEMMA KeepsTold ==
    ASSUME Inv, ToldInv, Grows, NEW d \in Drivers, Nested(d)', ~ Uninformed(d),
           drivers'[ParentDriver(d)].cmd = drivers[ParentDriver(d)].cmd,
           \A v \in CommandsTold(d) :
              drivers'[ParentDriver(d)].opens[v] = drivers[ParentDriver(d)].opens[v]
    PROVE  ToldOK(d)'
  <1>1. /\ Nested(d) /\ ParentDriver(d)' = ParentDriver(d)
        /\ CommandsTold(d)' = CommandsTold(d)
    BY QuietDriver
  <1>2. PICK q : q = ParentDriver(d) /\ q = ParentDriver(d)'
    BY <1>1
  <1>3. ASSUME NEW v \in CommandsTold(d)
        PROVE  LET last == drivers'[q].opens[v] IN
               last # None /\ drivers'[last].parent = drivers'[d].parent /\ d <= last
    <2>1. PICK o : o = drivers[q].opens[v] /\ o = drivers'[q].opens[v]
      BY <1>2, <1>3
    <2>2. o # None /\ drivers[o].parent = drivers[d].parent /\ d <= o
      BY <1>1, <1>2, <2>1 DEF ToldInv
    <2>3. o \in Drivers
      BY <1>1, <1>2, <2>1, <2>2, ToldFacts DEF Inv
    <2>4. drivers'[o].parent = drivers[o].parent /\ drivers'[d].parent = drivers[d].parent
      BY <2>3 DEF Grows
    <2>5. QED
      BY <2>1, <2>2, <2>4
  <1>4. QED
    BY <1>1, <1>2, <1>3 DEF ToldOK

\* What was told stays told in quiet steps,
LEMMA QuietTold ==
    ASSUME Inv, ToldInv, Quiet
    PROVE  ToldInv'
  <1>1. ASSUME NEW d \in Drivers', Nested(d)', ~ Uninformed(d)'
        PROVE  ToldOK(d)'
    <2>1. d \in Drivers /\ Nested(d) /\ Grows
      BY <1>1, SameNested DEF Quiet, Inv
    <2>2. ~ Uninformed(d) /\ drivers'[ParentDriver(d)].cmd = drivers[ParentDriver(d)].cmd
      BY <1>1, <2>1 DEF Quiet
    <2>3. ParentDriver(d) \in Drivers
      BY <2>1, DriverFacts DEF Inv, Nested
    <2>4. drivers'[ParentDriver(d)].opens = drivers[ParentDriver(d)].opens
      BY <2>3 DEF Quiet
    <2>5. QED
      BY <1>1, <2>1, <2>2, <2>4, KeepsTold
  <1>2. QED
    BY <1>1 DEF ToldInv, ToldOK

\* The driver whose turn it is comes after those of its entry that had theirs.
LEMMA InfoTold ==
    ASSUME Inv, ToldInv, OrderInv, CollectInfo
    PROVE  ToldInv'
  <1>1. TypeOK /\ PassInv /\ BirthInv /\ EntryInv
    BY DEF Inv
  <1>2. /\ Grows /\ Drivers' = Drivers
        /\ \A d \in Drivers :
              /\ drivers'[d].cmd = drivers[d].cmd
              /\ \A v \in Commands : drivers'[d].opens[v] =
                    IF d = ParentDriver(Visit) /\ v \in CommandsTold(Visit) THEN Visit
                    ELSE drivers[d].opens[v]
    BY <1>1, InfoEffect
  <1>3. /\ Visit \in OfPass /\ Visit \in Drivers /\ Visit \in Waiting
        /\ Waiting' = Waiting \ {Visit} /\ OfPass' = OfPass
    BY <1>1, TurnFacts DEF CollectInfo
  <1>4. loop = "info" /\ loop' = "info"
    BY DEF CollectInfo
  <1>5. ASSUME NEW d \in Drivers, Nested(d)', ~ Uninformed(d)'
        PROVE  ToldOK(d)'
    <2>1. Nested(d)
      BY <1>1, <1>2, <1>5, SameNested
    <2>2. ParentDriver(d) \in Drivers
      BY <1>1, <2>1, DriverFacts DEF Nested
    <2>3. drivers'[ParentDriver(d)].cmd = drivers[ParentDriver(d)].cmd
      BY <1>2, <2>2
    <2>4. /\ ParentDriver(d)' = ParentDriver(d)
          /\ CommandsTold(d)' = CommandsTold(d)
      BY <1>2, <2>3, QuietDriver
    <2>5. d # Visit => ~ Uninformed(d)
      BY <1>3, <1>4, <1>5 DEF Uninformed
    <2>6. CASE d # Visit /\ \A v \in CommandsTold(d) :
                  drivers'[ParentDriver(d)].opens[v] = drivers[ParentDriver(d)].opens[v]
      BY <1>2, <1>5, <2>3, <2>5, <2>6, KeepsTold
    <2>7. CASE ParentDriver(d) = ParentDriver(Visit)
      <3>1. PICK q : q = ParentDriver(d) /\ q = ParentDriver(d)'
        BY <2>4
      <3>2. PICK x \in Drivers : x = Visit /\ ParentDriver(x) = q
        BY <1>3, <2>7, <3>1
      <3>3. x # None
        BY <1>1, <3>2, DriverFacts
      <3>4. drivers[x].parent = drivers[d].parent
        <4>1. drivers[x].parent \in DOMAIN entries /\ drivers[d].parent \in DOMAIN entries
          BY <1>1, DriverFacts
        <4>2. drivers[q].ioctl = drivers[x].parent /\ drivers[q].ioctl = drivers[d].parent
          BY <1>1, <2>1, <3>1, <3>2, <4>1 DEF EntryInv, Nested, ParentDriver
        <4>3. QED
          BY <4>2
      <3>5. d <= x
        <4>1. CASE d # x
          <5>1. d \in OfPass
            BY <1>3, <1>4, <2>1, <3>1, <3>2, <3>4 DEF OrderInv, Together, Nested
          <5>2. d \notin Waiting
            BY <1>4, <2>5, <3>2, <4>1, <5>1 DEF Uninformed
          <5>3. d < x
            BY <1>3, <1>4, <2>1, <3>2, <5>1, <5>2 DEF OrderInv, InTurn
          <5>4. d \in Nat /\ x \in Nat
            BY <1>1, DriverFacts
          <5>5. QED
            BY <5>3, <5>4
        <4>2. CASE d = x
          <5>1. d \in Nat
            BY <1>1, DriverFacts
          <5>2. QED
            BY <4>2, <5>1
        <4>3. QED
          BY <4>1, <4>2
      <3>6. ASSUME NEW v \in CommandsTold(d)
            PROVE  LET last == drivers'[q].opens[v] IN
                   last # None /\ drivers'[last].parent = drivers'[d].parent /\ d <= last
        <4>1. v \in Commands /\ q \in Drivers
          BY <1>1, <2>1, <2>2, <3>1, ToldFacts
        <4>2. CASE v \in CommandsTold(x)
          <5>1. drivers'[q].opens[v] = x
            BY <1>2, <3>1, <3>2, <4>1, <4>2
          <5>2. drivers'[x].parent = drivers'[d].parent
            BY <1>2, <3>4 DEF Grows
          <5>3. QED
            BY <3>3, <3>5, <5>1, <5>2
        <4>3. CASE v \notin CommandsTold(x)
          <5>1. d # x
            BY <3>6, <4>3
          <5>2. PICK o : o = drivers[q].opens[v] /\ o = drivers'[q].opens[v]
            BY <1>2, <3>2, <4>1, <4>3
          <5>3. o # None /\ drivers[o].parent = drivers[d].parent /\ d <= o
            <6>1. ToldOK(d)
              BY <2>1, <2>5, <3>2, <5>1 DEF ToldInv, ToldOK
            <6>2. QED
              BY <3>1, <3>6, <5>2, <6>1 DEF ToldOK
          <5>4. o \in Drivers
            BY <1>1, <2>1, <3>1, <3>6, <5>2, <5>3, ToldFacts
          <5>5. drivers'[o].parent = drivers[o].parent /\ drivers'[d].parent = drivers[d].parent
            BY <1>2, <5>4 DEF Grows
          <5>6. QED
            BY <5>2, <5>3, <5>5
        <4>4. QED
          BY <4>2, <4>3
      <3>7. QED
        BY <2>4, <3>1, <3>6 DEF ToldOK
    <2>8. CASE ParentDriver(d) # ParentDriver(Visit)
      <3>1. \A v \in CommandsTold(d) : v \in Commands
        BY <1>1, <2>1, ToldFacts
      <3>2. d # Visit
        BY <2>8
      <3>3. QED
        BY <1>2, <2>2, <2>6, <2>8, <3>1, <3>2
    <2>9. QED
      BY <2>7, <2>8
  <1>6. QED
    BY <1>2, <1>5 DEF ToldInv, ToldOK

\* and in every step: a later driver of the entry is the one that overwrites.
LEMMA ToldStep ==
    ASSUME Inv, ToldInv, OrderInv, [Next]_vars
    PROVE  ToldInv'
  <1>1. TypeOK /\ EntryInv
    BY DEF Inv
  <1>2. ASSUME NEW f \in todo_init, AnalysisInitFunction(f) PROVE ToldInv'
    <2>1. loop' = "init"
      BY <1>2 DEF AnalysisInitFunction, worklist
    <2>2. \A d : Uninformed(d)'
      BY <2>1 DEF Uninformed
    <2>3. QED
      BY <2>2 DEF ToldInv
  <1>3. CASE Quiet
    BY <1>3, QuietTold
  <1>4. CASE CollectInfo
    BY <1>4, InfoTold
  <1>5. ASSUME NEW e \in entry_set, AnalysisEntry(e) PROVE ToldInv'
    <2>1. Grows /\ NewDrivers(e) /\ OfPass' = Drivers' \ Drivers
      BY <1>1, <1>5, EntryEffect
    <2>2. loop = "pick" /\ loop' = "keep"
      BY <1>5 DEF AnalysisEntry
    <2>3. ASSUME NEW d \in Drivers', Nested(d)', ~ Uninformed(d)' PROVE ToldOK(d)'
      <3>1. d \in Drivers
        BY <2>1, <2>2, <2>3 DEF Uninformed
      <3>2. ~ Uninformed(d) /\ Nested(d)
        BY <1>1, <2>1, <2>2, <2>3, <3>1, SameNested DEF Uninformed
      <3>3. ParentDriver(d) \in Drivers
        BY <1>1, <3>1, <3>2, DriverFacts DEF Nested
      <3>4. drivers'[ParentDriver(d)] = drivers[ParentDriver(d)]
        BY <2>1, <3>3 DEF NewDrivers
      <3>5. QED
        BY <2>1, <2>3, <3>1, <3>2, <3>4, KeepsTold
    <2>4. QED
      BY <2>3 DEF ToldInv, ToldOK
  <1>6. QED
    BY <1>2, <1>3, <1>4, <1>5, StartQuiet, KeepQuiet, CmdQuiet, EnterQuiet, LoopQuiet, StutterQuiet
    DEF Next

-----------------------------------------------------------------------------
(***************************************************************************)
(* All of it together.                                                     *)
(***************************************************************************)
LEMMA InitHistory == Init => UpInv /\ HistoryInv
  <1>1. SUFFICES ASSUME Init PROVE UpInv /\ HistoryInv
    OBVIOUS
  <1>2. /\ entries = <<>> /\ drivers = <<>> /\ entry_set = {}
        /\ loop = "init" /\ results = <<>> /\ todo = <<>>
    BY <1>1 DEF Init
  <1>3. DOMAIN entries = {} /\ Drivers = {}
    BY <1>2 DEF Drivers
  <1>4. OfPass = {}
    BY <1>2 DEF OfPass
  <1>5. UpInv /\ FreshInv /\ TurnInv /\ ToldInv /\ IdInv
    BY <1>2, <1>3, <1>4 DEF UpInv, FreshInv, TurnInv, ToldInv, IdInv
  <1>6. OrderInv
    BY <1>2, <1>3, <1>4 DEF OrderInv, BornInOrder, Together, Ascends, InTurn
  <1>7. QED
    BY <1>5, <1>6 DEF HistoryInv

\* The parts of the invariant that are still to be put together,
LEMMA FreshStep ==
    ASSUME Inv, FreshInv, [Next]_vars
    PROVE  FreshInv'
  <1>1. TypeOK
    BY DEF Inv
  <1>2. ASSUME NEW f \in todo_init, AnalysisInitFunction(f) PROVE FreshInv'
    BY <1>2, InitFresh
  <1>3. CASE CollectInfo
    BY <1>3, InfoFresh
  <1>4. CASE CollectEntryFunction
    BY <1>4, EnterFresh
  <1>5. ASSUME NEW e \in entry_set, AnalysisEntry(e) PROVE FreshInv'
    BY <1>5, EntryFresh
  <1>6. CASE Quiet /\ entry_set' = entry_set
    BY <1>1, <1>6, QuietFresh
  <1>7. StartKeeping \/ Keep \/ CollectCmdAndType \/ NextLoop \/ UNCHANGED vars
            => entry_set' = entry_set
    BY DEF StartKeeping, Keep, CollectCmdAndType, NextLoop, vars
  <1>8. QED
    BY <1>2, <1>3, <1>4, <1>5, <1>6, <1>7, StartQuiet, KeepQuiet, CmdQuiet, LoopQuiet, StutterQuiet
    DEF Next

\* and the ids.
LEMMA IdStep ==
    ASSUME Inv, IdInv, [Next]_vars
    PROVE  IdInv'
  <1>1. TypeOK /\ PassInv /\ BirthInv /\ EntryInv
    BY DEF Inv
  <1>2. ASSUME NEW f \in todo_init, AnalysisInitFunction(f) PROVE IdInv'
    BY <1>1, <1>2, InitIds
  <1>3. CASE CollectInfo
    BY <1>1, <1>3, InfoIds
  <1>4. ASSUME NEW e \in entry_set, AnalysisEntry(e) PROVE IdInv'
    BY <1>1, <1>4, EntryIds
  <1>5. CASE Quiet
    BY <1>1, <1>5, QuietIds
  <1>6. QED
    BY <1>2, <1>3, <1>4, <1>5, StartQuiet, KeepQuiet, CmdQuiet, EnterQuiet, LoopQuiet, StutterQuiet
    DEF Next

\* The history is kept by every step.
LEMMA HistoryStep ==
    ASSUME Inv, HistoryInv, [Next]_vars
    PROVE  HistoryInv'
  BY FreshStep, OrderStep, TurnStep, ToldStep, IdStep DEF HistoryInv

-----------------------------------------------------------------------------
(***************************************************************************)
(* Drivers of one id.  The id is made of call chains as debug info prints  *)
(* them.  When two chains that are printed alike start in one function, two*)
(* drivers of one id were found in the same way: by functions of the same  *)
(* names, all the way up to the init function.                             *)
(***************************************************************************)
Alike(x, y) ==
    /\ Nested(x) <=> Nested(y)
    /\ entries[drivers[x].parent].name = entries[drivers[y].parent].name
    /\ entries[drivers[x].parent].handlers = entries[drivers[y].parent].handlers
    /\ entries[drivers[x].parent].function_pointers = entries[drivers[y].parent].function_pointers
    /\ RootOf(x) = RootOf(y)
    /\ Nested(x) => drivers[ParentDriver(x)].id = drivers[ParentDriver(y)].id

\* A sequence tells what was appended to what.
LEMMA AppendIsInjective ==
    ASSUME NEW S, NEW s \in Seq(S), NEW t \in Seq(S), NEW a \in S, NEW b \in S,
           Append(s, a) = Append(t, b)
    PROVE  s = t /\ a = b /\ Len(Append(s, a)) = Len(s) + 1 /\ Len(s) \in Nat
  <1>1. /\ Len(Append(s, a)) = Len(s) + 1 /\ Len(Append(t, b)) = Len(t) + 1
        /\ \A i \in 1 .. Len(s) : Append(s, a)[i] = s[i]
        /\ \A i \in 1 .. Len(t) : Append(t, b)[i] = t[i]
        /\ Append(s, a)[Len(s) + 1] = a /\ Append(t, b)[Len(t) + 1] = b
    BY AppendProperties
  <1>2. Len(s) = Len(t)
    BY <1>1
  <1>3. \A i \in 1 .. Len(s) : s[i] = t[i]
    BY <1>1, <1>2
  <1>4. s = t
    BY <1>2, <1>3, SeqEqual
  <1>5. QED
    BY <1>1, <1>2, <1>4

\* Two drivers of one id are both nested or both not, and so are their parents of one id.
LEMMA IdParts ==
    ASSUME Inv, IdInv, NEW x \in Drivers, NEW y \in Drivers, drivers[x].id = drivers[y].id
    PROVE  /\ Nested(x) <=> Nested(y)
           /\ SourceLines[drivers[x].finding] = SourceLines[drivers[y].finding]
           /\ Nested(x) => /\ ParentDriver(x) \in Drivers /\ ParentDriver(y) \in Drivers
                           /\ drivers[ParentDriver(x)].id = drivers[ParentDriver(y)].id
                           /\ Len(drivers[ParentDriver(x)].id) < Len(drivers[x].id)
                           /\ Len(drivers[ParentDriver(x)].id) \in Nat
  <1> DEFINE above(d) == IF Nested(d) THEN drivers[ParentDriver(d)].id ELSE <<>>
             line(d) == SourceLines[drivers[d].finding]
  <1>1. TypeOK /\ BirthInv
    BY DEF Inv
  <1>2. \A d \in Drivers : Nested(d) => /\ ParentDriver(d) \in Drivers
                                        /\ drivers[ParentDriver(d)].id # <<>>
    BY <1>1, DriverFacts DEF Nested, BirthInv, BornOK
  <1>3. \A d \in Drivers : above(d) \in Seq(Lines) /\ line(d) \in Lines
    <2> TAKE d \in Drivers
    <2>1. drivers[d].finding \in Findings
      BY <1>1, DriverFacts
    <2>2. Nested(d) => drivers[ParentDriver(d)].id \in Seq(Lines)
      BY <1>1, <1>2, DriverFacts
    <2>3. QED
      BY <2>1, <2>2 DEF Lines
  <1>4. drivers[x].id = Append(above(x), line(x)) /\ drivers[y].id = Append(above(y), line(y))
    BY DEF IdInv, IdOK
  <1>5. Nested(x) => above(x) = drivers[ParentDriver(x)].id
    OBVIOUS
  <1>6. Nested(y) => above(y) = drivers[ParentDriver(y)].id
    OBVIOUS
  <1>7. (~ Nested(x) => above(x) = <<>>) /\ (~ Nested(y) => above(y) = <<>>)
    OBVIOUS
  <1> HIDE DEF above, line
  <1>8. /\ above(x) = above(y) /\ line(x) = line(y)
        /\ Len(Append(above(x), line(x))) = Len(above(x)) + 1 /\ Len(above(x)) \in Nat
    <2>1. PICK s \in Seq(Lines) : s = above(x)
      BY <1>3
    <2>2. PICK t \in Seq(Lines) : t = above(y)
      BY <1>3
    <2>3. PICK a \in Lines : a = line(x)
      BY <1>3
    <2>4. PICK b \in Lines : b = line(y)
      BY <1>3
    <2>5. Append(s, a) = Append(t, b)
      BY <1>4, <2>1, <2>2, <2>3, <2>4
    <2>6. s = t /\ a = b /\ Len(Append(s, a)) = Len(s) + 1 /\ Len(s) \in Nat
      BY <2>5, AppendIsInjective
    <2>7. QED
      BY <2>1, <2>2, <2>3, <2>4, <2>6
  <1>9. Nested(x) <=> Nested(y)
    BY <1>2, <1>5, <1>6, <1>7, <1>8
  <1>10. line(x) = line(y)
    BY <1>8
  <1>11. Nested(x) => /\ drivers[ParentDriver(x)].id = drivers[ParentDriver(y)].id
                      /\ Len(drivers[ParentDriver(x)].id) < Len(drivers[x].id)
                      /\ Len(drivers[ParentDriver(x)].id) \in Nat
    BY <1>4, <1>5, <1>6, <1>8, <1>9
  <1>12. QED
    BY <1>2, <1>9, <1>10, <1>11 DEF line

\* A driver was found in the function of its entry, and that of a nested one is the
\* handler of the driver above.
LEMMA FoundInEntry ==
    ASSUME Inv, NEW d \in Drivers
    PROVE  /\ entries[drivers[d].parent].name = FoundIn[drivers[d].finding]
           /\ Nested(d) => /\ entries[drivers[d].parent] = EntryOf(ParentDriver(d))
                           /\ drivers[ParentDriver(d)].ioctl = drivers[d].parent
                           /\ Handler(ParentDriver(d)) = FoundIn[drivers[d].finding]
  <1>1. TypeOK /\ EntryInv /\ BirthInv
    BY DEF Inv
  <1>2. PICK e \in DOMAIN entries : e = drivers[d].parent
    BY <1>1, DriverFacts
  <1>3. entries[e].name = FoundIn[drivers[d].finding]
    BY <1>1, <1>2 DEF BirthInv, BornOK, FoundFrom, Found
  <1>4. ASSUME Nested(d)
        PROVE  /\ entries[e] = EntryOf(ParentDriver(d))
               /\ drivers[ParentDriver(d)].ioctl = e
               /\ Handler(ParentDriver(d)) = entries[e].name
    <2>1. PICK p \in Drivers : p = ParentDriver(d) /\ p = entries[e].parent /\ p # None
      BY <1>1, <1>2, <1>4, DriverFacts DEF Nested, ParentDriver
    <2>2. drivers[p].ioctl = e /\ e # None
      BY <1>1, <2>1, EntryFacts DEF EntryInv
    <2>3. entries[e] = EntryOf(p)
      BY <1>1, <2>2 DEF EntryInv
    <2>4. EntryOf(p).name = Handler(p)
      BY DEF EntryOf, NewIoctlEntry
    <2>5. QED
      BY <2>1, <2>2, <2>3, <2>4
  <1>5. QED
    BY <1>2, <1>3, <1>4

\* Drivers of one id were found alike.
LEMMA SameIdAlike ==
    ASSUME Inv, UpInv, IdInv, ChainsNameFunctions
    PROVE  \A x, y \in Drivers : drivers[x].id = drivers[y].id => Alike(x, y)
  <1> DEFINE Unlike(n) == \E x, y \in Drivers :
                 Len(drivers[x].id) = n /\ drivers[x].id = drivers[y].id /\ ~ Alike(x, y)
             Lengths == {n \in Nat : Unlike(n)}
  <1>1. TypeOK /\ EntryInv
    BY DEF Inv
  <1>2. ASSUME NEW x \in Drivers, NEW y \in Drivers, drivers[x].id = drivers[y].id,
               Nested(x) => Alike(ParentDriver(x), ParentDriver(y))
        PROVE  Alike(x, y)
    <2>1. Nested(x) <=> Nested(y)
      BY <1>2, IdParts
    <2>2. entries[drivers[x].parent].name = entries[drivers[y].parent].name
      <3>1. drivers[x].finding \in Findings /\ drivers[y].finding \in Findings
        BY <1>1, DriverFacts
      <3>2. FoundIn[drivers[x].finding] = FoundIn[drivers[y].finding]
        BY <1>2, <3>1, IdParts DEF ChainsNameFunctions
      <3>3. QED
        BY <3>2, FoundInEntry
    <2>3. CASE ~ Nested(x)
      <3>1. /\ entries[drivers[x].parent] = NewInitEntry(entries[drivers[x].parent].name)
            /\ entries[drivers[y].parent] = NewInitEntry(entries[drivers[y].parent].name)
        <4>1. drivers[x].parent \in DOMAIN entries /\ drivers[y].parent \in DOMAIN entries
          BY <1>1, DriverFacts
        <4>2. QED
          BY <2>1, <2>3, <4>1 DEF IdInv, InitEntryOK, Nested, ParentDriver
      <3>2. entries[drivers[x].parent] = entries[drivers[y].parent]
        BY <2>2, <3>1
      <3>3. RootOf(x) = RootOf(y)
        BY <1>1, <2>1, <2>2, <2>3, RootSteps
      <3>4. QED
        BY <2>1, <2>3, <3>2, <3>3 DEF Alike
    <2>4. CASE Nested(x)
      <3>1. PICK p \in Drivers : p = ParentDriver(x)
        BY <1>2, <2>4, IdParts
      <3>2. PICK q \in Drivers : q = ParentDriver(y)
        BY <1>2, <2>4, IdParts
      <3>3. Alike(p, q) /\ drivers[p].id = drivers[q].id
        BY <1>2, <2>4, <3>1, <3>2, IdParts
      <3>4. Handler(p) = Handler(q)
        BY <2>1, <2>2, <2>4, <3>1, <3>2, FoundInEntry
      <3>5. entries[drivers[x].parent] = EntryOf(p) /\ entries[drivers[y].parent] = EntryOf(q)
        BY <2>1, <2>4, <3>1, <3>2, FoundInEntry
      <3>6. /\ EntryOf(p).handlers = EntryOf(q).handlers
            /\ EntryOf(p).function_pointers = EntryOf(q).function_pointers
        BY <3>3, <3>4 DEF EntryOf, NewIoctlEntry, Alike
      <3>7. RootOf(x) = RootOf(y)
        <4>1. RootOf(x) = RootOf(p) /\ RootOf(y) = RootOf(q)
          BY <1>1, <2>1, <2>4, <3>1, <3>2, RootSteps
        <4>2. QED
          BY <3>3, <4>1 DEF Alike
      <3>8. QED
        BY <2>1, <2>2, <3>1, <3>2, <3>3, <3>5, <3>6, <3>7 DEF Alike
    <2>5. QED
      BY <2>3, <2>4
  <1>3. ASSUME NEW n \in Lengths PROVE \E m \in Lengths : ~ n <= m
    <2>1. PICK x \in Drivers, y \in Drivers :
              Len(drivers[x].id) = n /\ drivers[x].id = drivers[y].id /\ ~ Alike(x, y)
      BY <1>3
    <2>2. Nested(x) /\ ~ Alike(ParentDriver(x), ParentDriver(y))
      BY <1>2, <2>1
    <2>3. PICK p \in Drivers : p = ParentDriver(x)
      BY <2>1, <2>2, IdParts
    <2>4. PICK q \in Drivers : q = ParentDriver(y)
      BY <2>1, <2>2, IdParts
    <2>5. drivers[p].id = drivers[q].id /\ ~ Alike(p, q)
      BY <2>1, <2>2, <2>3, <2>4, IdParts
    <2>6. Len(drivers[p].id) < n /\ Len(drivers[p].id) \in Nat
      BY <2>1, <2>2, <2>3, IdParts
    <2>7. Len(drivers[p].id) \in Lengths /\ n \in Nat
      BY <2>5, <2>6
    <2>8. QED
      BY <2>6, <2>7
  <1>4. Lengths \subseteq Nat
    OBVIOUS
  <1>5. Lengths = {}
    <2> HIDE DEF Lengths
    <2>1. QED
      BY <1>3, <1>4, LeastNumber
  <1>6. ASSUME NEW x \in Drivers, NEW y \in Drivers, drivers[x].id = drivers[y].id, ~ Alike(x, y)
        PROVE  FALSE
    <2>1. drivers[x].id \in Seq(Lines)
      BY <1>1, DriverFacts
    <2>2. Len(drivers[x].id) \in Nat
      BY <2>1
    <2>3. QED
      BY <1>5, <1>6, <2>2
  <1>7. QED
    BY <1>6

-----------------------------------------------------------------------------
(***************************************************************************)
(* When the analysis has ended.                                            *)
(***************************************************************************)

\* All drivers have had their turns,
LEMMA AllIsDone ==
    ASSUME Inv, Done, NEW d \in Drivers
    PROVE  /\ ~ Uninformed(d) /\ ~ Uncommanded(d) /\ ~ Unentered(d)
           /\ drivers[d].cmd = CommandsOf(d)
  BY DEF Done, Uninformed, Uncommanded, Unentered, Inv, InfoInv, InfoOK

\* with the commands of the function they were found in at hand.
LEMMA ToldAtEnd ==
    ASSUME Inv, Done, NEW d \in Drivers, Nested(d)
    PROVE  /\ OpenedBy(d) = Cmds[FoundIn[drivers[d].finding]] \cap Through[drivers[d].finding]
           /\ CommandsTold(d) = Tells(drivers[d].finding)
  <1>1. drivers[ParentDriver(d)].cmd = Cmds[FoundIn[drivers[d].finding]]
    BY AllIsDone, ParentIsCommanded DEF Nested
  <1>2. OpenedBy(d) = Cmds[FoundIn[drivers[d].finding]] \cap Through[drivers[d].finding]
    BY <1>1 DEF OpenedBy, Nested
  <1>3. QED
    BY <1>2 DEF CommandsTold, Tells

\* A driver that names a command is one that the command was told.
LEMMA NamesItsCommand ==
    ASSUME Inv, NEW d \in Drivers, drivers[d].finding \in FileOps,
           drivers[d].non_open_parent # <<>>
    PROVE  /\ Nested(d) /\ CommandsTold(d) = {drivers[d].non_open_parent[2]}
           /\ drivers[d].non_open_parent[1] = ParentDriver(d)
  <1>1. drivers[d].non_open_parent = InfoOf(d)
    BY DEF Inv, InfoInv, InfoOK
  <1>2. OpenedBy(d) # {} /\ InfoOf(d) = <<ParentDriver(d), Smallest(OpenedBy(d))>>
    BY <1>1 DEF InfoOf
  <1>3. CommandsTold(d) = {Smallest(OpenedBy(d))}
    BY <1>2 DEF CommandsTold
  <1>4. Nested(d)
    BY <1>2 DEF OpenedBy, Nested
  <1>5. QED
    BY <1>1, <1>2, <1>3, <1>4

\* A command opens the last of the drivers it was told, in the order of the walk.
LEMMA LastTold ==
    ASSUME Inv, HistoryInv, OpenersAgree, Done, NEW x \in Drivers, Nested(x),
           NEW v \in CommandsTold(x)
    PROVE  \E l \in Drivers :
              /\ l = drivers[ParentDriver(x)].opens[v]
              /\ drivers[l].parent = drivers[x].parent
              /\ v \in Tells(drivers[l].finding)
              /\ drivers[l].finding \in FoundFrom(drivers[x].parent)
              /\ \A f \in FoundFrom(drivers[x].parent) : v \in Tells(f) =>
                    f = drivers[l].finding \/ Precedes(f, drivers[l].finding)
  <1> DEFINE e == drivers[x].parent
  <1>1. TypeOK /\ BirthInv /\ ToldInv /\ BornInOrder
    BY DEF Inv, HistoryInv, OrderInv
  <1>2. PICK q \in Drivers : q = ParentDriver(x)
    BY <1>1, DriverFacts DEF Nested
  <1>3. e \in DOMAIN entries /\ q = entries[e].parent
    BY <1>1, <1>2, DriverFacts DEF ParentDriver
  <1>4. \A d \in Drivers : drivers[d].parent = e => Nested(d) /\ ParentDriver(d) = q
    BY <1>2, <1>3 DEF Nested, ParentDriver
  <1>5. \A d \in Drivers : Nested(d) => ToldOK(d)
    BY <1>1, AllIsDone DEF ToldInv, ToldOK
  <1>6. PICK l \in Drivers : l = drivers[q].opens[v] /\ l # None /\ drivers[l].parent = e
    <2>1. drivers[q].opens[v] # None /\ drivers[drivers[q].opens[v]].parent = e
      BY <1>2, <1>5 DEF ToldOK
    <2>2. drivers[q].opens[v] \in Drivers
      BY <1>1, <1>2, <2>1, ToldFacts
    <2>3. QED
      BY <2>1, <2>2
  <1>7. v \in Tells(drivers[l].finding)
    <2>1. v \in drivers[q].cmd
      BY <1>1, <1>2, <1>6, ToldFacts, DriverFacts DEF DriverOK
    <2>2. drivers[l].finding \in FileOps /\ drivers[l].non_open_parent = <<q, v>>
      BY <1>6, <2>1 DEF OpenersAgree, Drivers
    <2>3. CommandsTold(l) = {v} /\ Nested(l)
      <3>1. <<q, v>> # <<>> /\ <<q, v>>[2] = v
        OBVIOUS
      <3>2. drivers[l].non_open_parent # <<>> /\ drivers[l].non_open_parent[2] = v
        BY <2>2, <3>1
      <3>3. QED
        BY <2>2, <3>2, NamesItsCommand
    <2>4. QED
      BY <2>3, ToldAtEnd
  <1>8. drivers[l].finding \in FoundFrom(e) /\ Explored(e)
    BY <1>1, <1>3, <1>6 DEF BirthInv, BornOK
  <1>9. ASSUME NEW f \in FoundFrom(e), v \in Tells(f)
        PROVE  f = drivers[l].finding \/ Precedes(f, drivers[l].finding)
    <2>1. PICK y \in Drivers : drivers[y].parent = e /\ drivers[y].finding = f
      BY <1>8 DEF Explored
    <2>2. v \in CommandsTold(y) /\ Nested(y) /\ ParentDriver(y) = q
      BY <1>4, <1>9, <2>1, ToldAtEnd
    <2>3. y <= l
      BY <1>5, <1>6, <2>2 DEF ToldOK
    <2>4. y \in Nat /\ l \in Nat
      BY <1>1, DriverFacts
    <2>5. CASE y = l
      BY <2>1, <2>5
    <2>6. CASE y < l
      BY <1>1, <1>6, <2>1, <2>6 DEF BornInOrder
    <2>7. QED
      BY <2>3, <2>4, <2>5, <2>6
  <1>10. QED
    BY <1>2, <1>6, <1>7, <1>8, <1>9

\* The walk meets one of two findings first.
LEMMA PrecedesIsStrict ==
    ASSUME TypeOK, NEW f \in Findings, NEW g \in Findings, Precedes(f, g)
    PROVE  ~ Precedes(g, f)
  <1>1. walk_order \in [Findings -> Nat]
    BY FunctionAssumption DEF TypeOK
  <1>2. walk_order[f] \in Nat /\ walk_order[g] \in Nat
    BY <1>1
  <1>3. QED
    BY <1>2 DEF Precedes

\* So two drivers found alike have their command open drivers of one finding.
LEMMA SameLast ==
    ASSUME Inv, HistoryInv, OpenersAgree, Done,
           NEW x \in Drivers, Nested(x), NEW y \in Drivers, Nested(y),
           FoundFrom(drivers[x].parent) = FoundFrom(drivers[y].parent),
           drivers[ParentDriver(x)].id = drivers[ParentDriver(y)].id,
           NEW v \in CommandsTold(x), v \in CommandsTold(y)
    PROVE  /\ drivers[ParentDriver(x)].opens[v] \in Drivers
           /\ drivers[ParentDriver(y)].opens[v] \in Drivers
           /\ drivers[drivers[ParentDriver(x)].opens[v]].parent = drivers[x].parent
           /\ drivers[drivers[ParentDriver(x)].opens[v]].id =
              drivers[drivers[ParentDriver(y)].opens[v]].id
           /\ OpsOf(drivers[ParentDriver(x)].opens[v]) = OpsOf(drivers[ParentDriver(y)].opens[v])
  <1>1. TypeOK /\ IdInv
    BY DEF Inv, HistoryInv
  <1>2. PICK l \in Drivers :
              /\ l = drivers[ParentDriver(x)].opens[v]
              /\ drivers[l].parent = drivers[x].parent
              /\ v \in Tells(drivers[l].finding)
              /\ drivers[l].finding \in FoundFrom(drivers[x].parent)
              /\ \A f \in FoundFrom(drivers[x].parent) : v \in Tells(f) =>
                    f = drivers[l].finding \/ Precedes(f, drivers[l].finding)
    BY LastTold
  <1>3. PICK m \in Drivers :
              /\ m = drivers[ParentDriver(y)].opens[v]
              /\ drivers[m].parent = drivers[y].parent
              /\ v \in Tells(drivers[m].finding)
              /\ drivers[m].finding \in FoundFrom(drivers[y].parent)
              /\ \A f \in FoundFrom(drivers[y].parent) : v \in Tells(f) =>
                    f = drivers[m].finding \/ Precedes(f, drivers[m].finding)
    BY LastTold
  <1>4. drivers[l].finding = drivers[m].finding
    <2>1. drivers[l].finding \in Findings /\ drivers[m].finding \in Findings
      BY <1>1, DriverFacts
    <2>2. QED
      BY <1>1, <1>2, <1>3, <2>1, PrecedesIsStrict
  <1>5. /\ Nested(l) /\ ParentDriver(l) = ParentDriver(x)
        /\ Nested(m) /\ ParentDriver(m) = ParentDriver(y)
    BY <1>2, <1>3 DEF Nested, ParentDriver
  <1>6. drivers[l].id = drivers[m].id
    BY <1>1, <1>4, <1>5 DEF IdInv, IdOK
  <1>7. OpsOf(l) = OpsOf(m)
    BY <1>4 DEF OpsOf
  <1>8. QED
    BY <1>2, <1>3, <1>6, <1>7

\* A driver that was opened or has a handler's entry is kept, or one just like it is.
LEMMA KeptLike ==
    ASSUME Inv, HistoryInv, Done, NEW p \in Drivers, Nested(p) \/ drivers[p].ioctl # None
    PROVE  \E k \in device_drivers :
              /\ k \in Drivers
              /\ drivers[k].id = drivers[p].id /\ OpsOf(k) = OpsOf(p)
              /\ drivers[k].ioctl # None <=> drivers[p].ioctl # None
              /\ drivers[k].cmd = drivers[p].cmd
  <1>1. TypeOK /\ EntryInv /\ TurnInv /\ device_drivers \subseteq Drivers
    BY DEF Inv, HistoryInv, TypeOK, Drivers
  <1>2. CASE ~ Nested(p)
    BY <1>1, <1>2 DEF TurnInv
  <1>3. CASE Nested(p)
    <2>1. PICK k \in device_drivers : OpsOf(k) = OpsOf(p) /\ Nested(k) /\ drivers[k].id = drivers[p].id
      BY <1>3, KeptRepresent DEF DriversAreRepresented, Nested, Drivers
    <2>2. k \in Drivers
      BY <1>1, <2>1
    <2>3. \A d \in Drivers : Nested(d) => (drivers[d].ioctl # None <=> Handler(d) # NoHandler)
      BY <1>1, AllIsDone DEF TurnInv, EntryInv
    <2>4. Handler(k) = Handler(p)
      BY <2>1 DEF Handler
    <2>5. drivers[k].ioctl # None <=> drivers[p].ioctl # None
      BY <1>3, <2>1, <2>2, <2>3, <2>4
    <2>6. drivers[k].cmd = drivers[p].cmd
      BY <2>2, <2>4, <2>5, AllIsDone DEF CommandsOf
    <2>7. QED
      BY <2>1, <2>2, <2>5, <2>6
  <1>4. QED
    BY <1>2, <1>3

\* The entries of handlers of drivers that are alike find the same.
LEMMA SameEntriesBelow ==
    ASSUME Inv, UpInv, IdInv, ChainsNameFunctions, NEW p \in Drivers, NEW k \in Drivers,
           drivers[k].id = drivers[p].id, OpsOf(k) = OpsOf(p),
           drivers[p].ioctl # None, drivers[k].ioctl # None
    PROVE  /\ FoundFrom(drivers[k].ioctl) = FoundFrom(drivers[p].ioctl)
           /\ WithinLoop(drivers[k].ioctl) <=> WithinLoop(drivers[p].ioctl)
           /\ entries[drivers[k].ioctl].parent = k
  <1>1. EntryInv
    BY DEF Inv
  <1>2. entries[drivers[p].ioctl] = EntryOf(p) /\ entries[drivers[k].ioctl] = EntryOf(k)
    BY <1>1 DEF EntryInv
  <1>3. Alike(k, p) /\ Handler(k) = Handler(p)
    BY SameIdAlike DEF Handler
  <1>4. /\ EntryOf(k).name = EntryOf(p).name /\ EntryOf(k).handlers = EntryOf(p).handlers
        /\ EntryOf(k).function_pointers = EntryOf(p).function_pointers
        /\ EntryOf(k).parent = k
    BY <1>3 DEF EntryOf, NewIoctlEntry, Alike
  <1>5. FoundFrom(drivers[k].ioctl) = FoundFrom(drivers[p].ioctl)
    BY <1>2, <1>4 DEF FoundFrom, Found
  <1>6. WithinLoop(drivers[k].ioctl) <=> WithinLoop(drivers[p].ioctl)
    BY <1>2, <1>4 DEF WithinLoop
  <1>7. QED
    BY <1>2, <1>4, <1>5, <1>6

\* The command of a kept driver opens a driver of the same name.
LEMMA ProducedByKept ==
    ASSUME Inv, UpInv, HistoryInv, OpenersAgree, Done, ChainsNameFunctions,
           NEW d \in Drivers, Nested(d), NEW v \in CommandsTold(d)
    PROVE  \E k \in device_drivers :
              /\ k \in Drivers
              /\ drivers[k].id = drivers[ParentDriver(d)].id
              /\ v \in drivers[k].cmd
              /\ drivers[k].opens[v] \in Drivers /\ drivers[k].opens[v] # None
              /\ ParentDriver(drivers[k].opens[v]) = k
              /\ drivers[drivers[k].opens[v]].id =
                 drivers[drivers[ParentDriver(d)].opens[v]].id
  <1>1. TypeOK /\ BirthInv /\ ServedInv /\ IdInv
    BY DEF Inv, HistoryInv
  <1>2. PICK p \in Drivers : p = ParentDriver(d) /\ p # None
    BY <1>1, DriverFacts DEF Nested
  <1>3. PICK e \in DOMAIN entries : e = drivers[d].parent /\ e # None
    BY <1>1, DriverFacts, EntryFacts
  <1>4. drivers[p].ioctl = e
    BY <1>2, <1>3, FoundInEntry
  <1>5. PICK k \in device_drivers :
              /\ k \in Drivers
              /\ drivers[k].id = drivers[p].id /\ OpsOf(k) = OpsOf(p)
              /\ drivers[k].ioctl # None
    BY <1>3, <1>4, KeptLike
  <1>6. PICK a \in DOMAIN entries : a = drivers[k].ioctl
    BY <1>1, <1>5, DriverFacts
  <1>7. FoundFrom(a) = FoundFrom(e) /\ (WithinLoop(a) <=> WithinLoop(e)) /\ entries[a].parent = k
    BY <1>1, <1>3, <1>4, <1>5, <1>6, SameEntriesBelow
  <1>8. drivers[d].finding \in FoundFrom(e) /\ ~ WithinLoop(e)
    BY <1>1, <1>3 DEF BirthInv, BornOK
  <1>9. Explored(a)
    <2>1. Entered(k, a)
      BY <1>1, <1>5, <1>6 DEF ServedInv
    <2>2. QED
      BY <1>5, <1>7, <1>8, <2>1, AllIsDone DEF Entered, Done
  <1>10. PICK y \in Drivers : drivers[y].parent = a /\ drivers[y].finding = drivers[d].finding
    BY <1>7, <1>8, <1>9 DEF Explored
  <1>11. Nested(y) /\ ParentDriver(y) = k
    <2>1. ParentDriver(y) = k
      BY <1>7, <1>10 DEF ParentDriver
    <2>2. k # None
      BY <1>1, <1>5, DriverFacts
    <2>3. QED
      BY <2>1, <2>2 DEF Nested
  <1>12. v \in CommandsTold(y)
    BY <1>10, <1>11, ToldAtEnd
  <1>13. PICK l : l = drivers[k].opens[v]
    OBVIOUS
  <1>14. /\ l \in Drivers /\ drivers[l].parent = a
         /\ drivers[l].id = drivers[drivers[p].opens[v]].id
    BY <1>2, <1>3, <1>5, <1>7, <1>10, <1>11, <1>12, <1>13, SameLast
  <1>15. l # None /\ ParentDriver(l) = k
    BY <1>1, <1>7, <1>14, DriverFacts DEF ParentDriver
  <1>16. v \in drivers[k].cmd
    BY <1>1, <1>5, <1>11, <1>12, <1>13, <1>15, ToldFacts, DriverFacts DEF DriverOK
  <1>17. QED
    BY <1>2, <1>5, <1>13, <1>14, <1>15, <1>16

\* What the theorem below says, in a state of the invariants.
LEMMA ResourcesAtEnd ==
    ASSUME Inv, UpInv, HistoryInv, OpenersAgree, ChainsNameFunctions
    PROVE  ResourcesAreProduced
  <1>1. ASSUME Done, NEW d \in device_drivers,
               drivers[d].non_open_parent # <<>>, drivers[d].finding \in FileOps
        PROVE  \E k \in device_drivers :
                  /\ drivers[k].opens[drivers[d].non_open_parent[2]] # None
                  /\ drivers[drivers[k].opens[drivers[d].non_open_parent[2]]].id =
                     drivers[drivers[drivers[d].non_open_parent[1]].opens
                                [drivers[d].non_open_parent[2]]].id
    <2>1. d \in Drivers
      BY DEF Inv, TypeOK, Drivers
    <2>2. PICK v : v = drivers[d].non_open_parent[2]
      OBVIOUS
    <2>3. Nested(d) /\ v \in CommandsTold(d) /\ drivers[d].non_open_parent[1] = ParentDriver(d)
      BY <1>1, <2>1, <2>2, NamesItsCommand
    <2>4. PICK k \in device_drivers :
              /\ drivers[k].opens[v] # None
              /\ drivers[drivers[k].opens[v]].id = drivers[drivers[ParentDriver(d)].opens[v]].id
      BY <1>1, <2>1, <2>3, ProducedByKept
    <2>5. QED
      BY <2>2, <2>3, <2>4
  <1>2. QED
    BY <1>1 DEF ResourcesAreProduced

-----------------------------------------------------------------------------
(***************************************************************************)
(* Writing the files.  Nothing of the analysis changes any more; a file is *)
(* the lines of the drivers of its init function.                          *)
(***************************************************************************)
Group(f) == {d \in device_drivers : RootOf(d) = f}

DeclarationOf(d) == Line(d, "resource", Resource(d), NoResource, Useful(d))

CallsOf(d) == Open(d) \cup UNION {Ioctl(d, v) : v \in drivers[d].cmd}

\* The lines are those of the drivers: all but the declarations of names declared before.
Describes(lines, S) ==
    /\ \A l \in lines :
          /\ l.driver \in S
          /\ l \in Header(l.driver) \cup {DeclarationOf(l.driver)} \cup CallsOf(l.driver)
    /\ \A d \in S :
          /\ Header(d) \cup CallsOf(d) \subseteq lines
          /\ \E l \in lines : l.what = "resource" /\ l.takes = Resource(d)

ResourcesOf(S) == {Resource(d) : d \in S}

\* What has been written.
WritingInv ==
    /\ generating => Done
    /\ ~ generating => /\ groups = {} /\ current = NoFunction /\ pending = {}
                       /\ DOMAIN files = {}
    /\ groups \subseteq InitFunctions
    /\ current \in InitFunctions \cup {NoFunction}
    /\ current = NoFunction => pending = {}
    /\ current # NoFunction =>
          /\ pending \subseteq Group(current)
          /\ Describes(text, Group(current) \ pending)
          /\ resources = ResourcesOf(Group(current) \ pending)
    /\ \A n \in DOMAIN files : \E f \in InitFunctions : Describes(files[n], Group(f))

WrittenTypes ==
    /\ generating \in BOOLEAN
    /\ resources \subseteq Names
    /\ text \subseteq TextLine
    /\ DOMAIN files \subseteq SourceFiles
    /\ \A n \in DOMAIN files : files[n] \subseteq TextLine

GenInv == Inv /\ UpInv /\ HistoryInv /\ OpenersAgree /\ WritingInv /\ WrittenTypes

\* The resource of a driver is a name,
LEMMA ResourceIsName ==
    ASSUME TypeOK, OpenersAgree, NEW d \in Drivers
    PROVE  Resource(d) \in Names
  <1>1. \A s \in Seq(Lines) : <<"fd", s>> \in Names
    BY DEF Names
  <1>2. \A s \in Seq(Lines), v \in Commands : <<"cmd", s, v>> \in Names
    BY DEF Names
  <1>3. drivers[d].id \in Seq(Lines)
    BY DriverFacts
  <1>4. Unopened \in Names
    BY DEF Names
  <1>5. PICK a : a = drivers[d].non_open_parent
    OBVIOUS
  <1>6. ASSUME a # <<>>, drivers[d].finding \in FileOps
        PROVE  CmdResource(a[1], a[2]) \in Names
    <2>1. PICK p \in Drivers : p = a[1]
      BY <1>5, <1>6, DriverFacts DEF DriverOK, Drivers
    <2>2. PICK v \in Commands : v = a[2] /\ v \in drivers[p].cmd
      BY <1>5, <1>6, <2>1, DriverFacts DEF DriverOK
    <2>3. PICK o : o = drivers[p].opens[v]
      OBVIOUS
    <2>4. o # None
      BY <1>5, <1>6, <2>1, <2>2, <2>3 DEF OpenersAgree, Drivers
    <2>5. o \in Drivers
      BY <2>3, <2>4, DriverFacts DEF DriverOK, Drivers
    <2>6. drivers[o].id \in Seq(Lines)
      BY <2>5, DriverFacts
    <2>7. <<"cmd", drivers[o].id, v>> \in Names
      BY <1>2, <2>6
    <2>8. QED
      BY <2>1, <2>2, <2>3, <2>7 DEF CmdResource
  <1>7. QED
    BY <1>1, <1>3, <1>4, <1>5, <1>6 DEF Resource

\* and a line about it is one.
LEMMA LinesOfDriver ==
    ASSUME TypeOK, OpenersAgree, NEW d \in Drivers
    PROVE  /\ Header(d) \cup {DeclarationOf(d)} \cup CallsOf(d) \subseteq TextLine
           /\ \A l \in Header(d) \cup {DeclarationOf(d)} \cup CallsOf(d) : l.driver = d
           /\ \A l \in CallsOf(d) : l.what # "resource"
  <1>1. Resource(d) \in Names /\ NoResource \in Names
    BY ResourceIsName DEF Names
  <1>2. d \in Nat
    BY DriverFacts
  <1>3. \A x : Useful(x) \in BOOLEAN
    BY DEF Useful
  <1>4. \A what \in {"header", "resource", "open", "ioctl"}, t \in Names, g \in Names, b \in BOOLEAN :
           /\ Line(d, what, t, g, b) \in TextLine
           /\ Line(d, what, t, g, b).driver = d /\ Line(d, what, t, g, b).what = what
    <2> HIDE DEF Names
    <2>1. QED
      BY <1>2 DEF Line, TextLine
  <1>5. ASSUME NEW v \in drivers[d].cmd, NEW l \in Ioctl(d, v)
        PROVE  l \in TextLine /\ l.driver = d /\ l.what = "ioctl"
    <2>1. PICK o : o = drivers[d].opens[v]
      OBVIOUS
    <2>2. ASSUME NEW g \in Names, NEW b \in BOOLEAN
          PROVE  /\ Line(d, "ioctl", Resource(d), g, b) \in TextLine
                 /\ Line(d, "ioctl", Resource(d), g, b).driver = d
                 /\ Line(d, "ioctl", Resource(d), g, b).what = "ioctl"
      BY <1>1, <1>4
    <2>3. CASE o = None
      <3>1. l = Line(d, "ioctl", Resource(d), NoResource, TRUE)
        BY <1>5, <2>1, <2>3 DEF Ioctl
      <3>2. QED
        BY ONLY <1>1, <2>2, <3>1
    <2>4. CASE o # None
      <3>1. v \in Commands /\ o \in Drivers
        BY <2>1, <2>4, DriverFacts DEF DriverOK, Drivers
      <3>2. drivers[o].id \in Seq(Lines)
        BY <3>1, DriverFacts
      <3>3. <<"cmd", drivers[o].id, v>> \in Names
        BY <3>1, <3>2 DEF Names
      <3>4. CmdResource(d, v) \in Names
        BY <2>1, <3>3 DEF CmdResource
      <3>5. \E g \in Names, b \in BOOLEAN : l = Line(d, "ioctl", Resource(d), g, b)
        <4>1. \/ l = Line(d, "ioctl", Resource(d), CmdResource(d, v), TRUE)
              \/ l = Line(d, "ioctl", Resource(d), NoResource, TRUE)
              \/ l = Line(d, "ioctl", Resource(d), CmdResource(d, v), FALSE)
          BY <1>5, <2>1, <2>4 DEF Ioctl
        <4>2. TRUE \in BOOLEAN /\ FALSE \in BOOLEAN
          OBVIOUS
        <4>3. QED
          BY ONLY <1>1, <3>4, <4>1, <4>2
      <3>6. QED
        BY ONLY <2>2, <3>5
    <2>5. QED
      BY <2>3, <2>4
  <1>6. \A l \in Open(d) : l \in TextLine /\ l.driver = d /\ l.what = "open"
    BY <1>1, <1>3, <1>4 DEF Open
  <1>7. \A l \in Header(d) : l \in TextLine /\ l.driver = d
    <2>1. /\ Line(d, "header", NoResource, NoResource, FALSE) \in TextLine
          /\ Line(d, "header", NoResource, NoResource, FALSE).driver = d
      BY ONLY <1>1, <1>4
    <2>2. QED
      BY <2>1 DEF Header
  <1>8. DeclarationOf(d) \in TextLine /\ DeclarationOf(d).driver = d
    BY <1>1, <1>3, <1>4 DEF DeclarationOf
  <1>9. QED
    BY <1>5, <1>6, <1>7, <1>8 DEF CallsOf

\* While files are written what is said of the drivers stays.
LEMMA SameObjects ==
    ASSUME UNCHANGED vars
    PROVE  /\ device_drivers' = device_drivers
           /\ \A d : /\ RootOf(d)' = RootOf(d)
                     /\ Resource(d)' = Resource(d)
                     /\ Header(d)' = Header(d)
                     /\ DeclarationOf(d)' = DeclarationOf(d)
                     /\ CallsOf(d)' = CallsOf(d)
           /\ Done' <=> Done
  <1>1. /\ drivers' = drivers /\ entries' = entries /\ device_drivers' = device_drivers
        /\ loop' = loop /\ entry_set' = entry_set
    BY DEF vars, objects, worklist
  <1>2. \A d : RootOf(d)' = RootOf(d)
    BY <1>1 DEF RootOf
  <1>3. \A d : Useful(d)' <=> Useful(d)
    BY <1>1 DEF Useful
  <1>4. \A d, v : CmdResource(d, v)' = CmdResource(d, v)
    BY <1>1 DEF CmdResource
  <1>5. \A d : Resource(d)' = Resource(d)
    BY <1>1, <1>4 DEF Resource, ParentDriver
  <1>6. \A d : Header(d)' = Header(d)
    BY DEF Header
  <1>7. \A d : DeclarationOf(d)' = DeclarationOf(d)
    BY <1>3, <1>5 DEF DeclarationOf, Line
  <1>8. \A d : Open(d)' = Open(d)
    BY <1>1, <1>3, <1>5 DEF Open, Line
  <1>9. \A d, v : Ioctl(d, v)' = Ioctl(d, v)
    BY <1>1, <1>3, <1>4, <1>5 DEF Ioctl, Line
  <1>10. \A d : CallsOf(d)' = CallsOf(d)
    BY <1>1, <1>8, <1>9 DEF CallsOf
  <1>11. Done' <=> Done
    BY <1>1 DEF Done
  <1>12. QED
    BY <1>1, <1>2, <1>5, <1>6, <1>7, <1>10, <1>11

\* So the description of files stays if what was written does.
LEMMA WritingKept ==
    ASSUME UNCHANGED vars,
           generating' => Done,
           ~ generating' => /\ groups' = {} /\ current' = NoFunction /\ pending' = {}
                            /\ DOMAIN files' = {},
           groups' \subseteq InitFunctions,
           current' \in InitFunctions \cup {NoFunction},
           current' = NoFunction => pending' = {},
           current' # NoFunction =>
              /\ pending' \subseteq Group(current')
              /\ Describes(text', Group(current') \ pending')
              /\ resources' = ResourcesOf(Group(current') \ pending'),
           \A n \in DOMAIN files' : \E f \in InitFunctions : Describes(files'[n], Group(f))
    PROVE  WritingInv'
  <1>1. /\ device_drivers' = device_drivers
        /\ \A d : /\ RootOf(d)' = RootOf(d)
                  /\ Resource(d)' = Resource(d)
                  /\ Header(d)' = Header(d)
                  /\ DeclarationOf(d)' = DeclarationOf(d)
                  /\ CallsOf(d)' = CallsOf(d)
        /\ Done' <=> Done
    BY SameObjects
  <1>2. (current # NoFunction =>
              /\ pending \subseteq Group(current)
              /\ Describes(text, Group(current) \ pending)
              /\ resources = ResourcesOf(Group(current) \ pending))'
    <2>1. SUFFICES ASSUME current' # NoFunction
                   PROVE  (/\ pending \subseteq Group(current)
                           /\ Describes(text, Group(current) \ pending)
                           /\ resources = ResourcesOf(Group(current) \ pending))'
      OBVIOUS
    <2>2. (pending \subseteq Group(current))'
      BY <1>1, <2>1 DEF Group
    <2>3. Group(current)' = Group(current')
      BY <1>1 DEF Group
    <2>4. Describes(text, Group(current) \ pending)'
      BY <1>1, <2>1, <2>3 DEF Describes
    <2>5. (resources = ResourcesOf(Group(current) \ pending))'
      BY <1>1, <2>1, <2>3 DEF ResourcesOf
    <2>6. QED
      BY <2>2, <2>4, <2>5
  <1>3. (\A n \in DOMAIN files : \E f \in InitFunctions : Describes(files[n], Group(f)))'
    <2>1. \A f : Group(f)' = Group(f)
      BY <1>1 DEF Group
    <2>2. SUFFICES ASSUME NEW n \in DOMAIN files', NEW f \in InitFunctions,
                          Describes(files'[n], Group(f))
                   PROVE  Describes(files[n], Group(f))'
      OBVIOUS
    <2>3. QED
      BY <1>1, <2>1, <2>2 DEF Describes
  <1>4. QED
    BY <1>1, <1>2, <1>3 DEF WritingInv

\* When the analysis is done it stays done,
LEMMA DoneIsEnd == Done /\ Next => FALSE
  BY DEF Done, Next, AnalysisInitFunction, StartKeeping, Keep, CollectInfo, CollectCmdAndType,
         CollectEntryFunction, NextLoop, AnalysisEntry

\* and what has been written is empty before.
LEMMA DiscoveryWrites ==
    ASSUME GenInv, Next, UNCHANGED genvars
    PROVE  WritingInv' /\ WrittenTypes'
  <1>1. ~ generating
    BY DoneIsEnd DEF GenInv, WritingInv
  <1>2. /\ generating' = generating /\ groups' = groups /\ current' = current
        /\ pending' = pending /\ resources' = resources /\ text' = text /\ files' = files
    BY DEF genvars
  <1>3. groups = {} /\ current = NoFunction /\ pending = {} /\ DOMAIN files = {}
    BY <1>1 DEF GenInv, WritingInv
  <1>4. WritingInv'
    BY <1>1, <1>2, <1>3 DEF WritingInv
  <1>5. WrittenTypes'
    BY <1>2 DEF GenInv, WrittenTypes
  <1>6. QED
    BY <1>4, <1>5

\* Grouping the drivers names init functions,
LEMMA GroupWrites ==
    ASSUME GenInv, GroupDrivers
    PROVE  WritingInv' /\ WrittenTypes'
  <1>1. /\ UNCHANGED vars /\ Done /\ ~ generating /\ generating' = TRUE
        /\ groups' = {RootOf(d) : d \in device_drivers}
        /\ current' = current /\ pending' = pending /\ resources' = resources
        /\ text' = text /\ files' = files
    BY DEF GroupDrivers
  <1>2. TypeOK /\ UpInv /\ device_drivers \subseteq Drivers
    BY DEF GenInv, Inv, TypeOK, Drivers
  <1>3. groups' \subseteq InitFunctions
    BY <1>1, <1>2, RootIsInit
  <1>4. current = NoFunction /\ pending = {} /\ DOMAIN files = {}
    BY <1>1 DEF GenInv, WritingInv
  <1>5. WritingInv'
    BY <1>1, <1>3, <1>4, WritingKept
  <1>6. WrittenTypes'
    BY <1>1 DEF GenInv, WrittenTypes
  <1>7. QED
    BY <1>5, <1>6

\* a new file has no lines,
LEMMA GenerateWrites ==
    ASSUME GenInv, NEW f \in groups, Generate(f)
    PROVE  WritingInv' /\ WrittenTypes'
  <1>1. /\ UNCHANGED vars /\ groups' = groups \ {f} /\ current' = f
        /\ pending' = Group(f) /\ resources' = {} /\ text' = {}
        /\ generating' = generating /\ files' = files
    BY DEF Generate, Group
  <1>2. generating /\ Done /\ groups \subseteq InitFunctions
    BY DEF GenInv, WritingInv
  <1>3. f \in InitFunctions /\ f # NoFunction
    BY <1>2, FunctionAssumption, SourceFileAssumption
  <1>4. Group(f) \ Group(f) = {}
    OBVIOUS
  <1>5. Describes({}, {}) /\ ResourcesOf({}) = {}
    BY DEF Describes, ResourcesOf
  <1>6. Describes(text', Group(current') \ pending')
        /\ resources' = ResourcesOf(Group(current') \ pending')
    BY <1>1, <1>4, <1>5
  <1>7. \A n \in DOMAIN files' : \E g \in InitFunctions : Describes(files'[n], Group(g))
    BY <1>1 DEF GenInv, WritingInv
  <1>8. WritingInv'
    BY <1>1, <1>2, <1>3, <1>6, <1>7, WritingKept
  <1>9. WrittenTypes'
    BY <1>1 DEF GenInv, WrittenTypes
  <1>10. QED
    BY <1>8, <1>9

\* then those of one driver after the other, a resource declared by the first that has it,
LEMMA DriverWrites ==
    ASSUME GenInv, NEW d \in pending, GenerateDD(d)
    PROVE  WritingInv' /\ WrittenTypes'
  <1> DEFINE S == Group(current) \ pending
  <1>1. /\ UNCHANGED vars /\ groups' = groups /\ current' = current
        /\ pending' = pending \ {d} /\ resources' = resources \cup {Resource(d)}
        /\ text' = text \cup Header(d) \cup Declaration(d) \cup CallsOf(d)
        /\ generating' = generating /\ files' = files
    BY DEF GenerateDD, CallsOf
  <1>2. /\ current # NoFunction /\ d \in Group(current)
        /\ pending \subseteq Group(current)
        /\ Describes(text, S) /\ resources = ResourcesOf(S)
    BY DEF GenInv, WritingInv
  <1>3. TypeOK /\ OpenersAgree /\ d \in Drivers
    BY <1>2 DEF GenInv, Inv, TypeOK, Drivers, Group
  <1>4. /\ Header(d) \cup {DeclarationOf(d)} \cup CallsOf(d) \subseteq TextLine
        /\ \A l \in Header(d) \cup {DeclarationOf(d)} \cup CallsOf(d) : l.driver = d
    BY <1>3, LinesOfDriver
  <1>5. Declaration(d) = IF Resource(d) \in resources THEN {} ELSE {DeclarationOf(d)}
    BY DEF Declaration, DeclarationOf
  <1>6. DeclarationOf(d).what = "resource" /\ DeclarationOf(d).takes = Resource(d)
    BY DEF DeclarationOf, Line
  <1>7. Group(current') \ pending' = S \cup {d}
    BY <1>1, <1>2
  <1>8. Describes(text', S \cup {d})
    <2>1. ASSUME NEW l \in text'
          PROVE  /\ l.driver \in S \cup {d}
                 /\ l \in Header(l.driver) \cup {DeclarationOf(l.driver)} \cup CallsOf(l.driver)
      <3>1. CASE l \in text
        BY <1>2, <3>1 DEF Describes
      <3>2. CASE l \notin text
        <4>1. l \in Header(d) \cup {DeclarationOf(d)} \cup CallsOf(d)
          BY <1>1, <1>5, <2>1, <3>2
        <4>2. l.driver = d
          BY <1>4, <4>1
        <4>3. QED
          BY <4>1, <4>2
      <3>3. QED
        BY <3>1, <3>2
    <2>2. ASSUME NEW x \in S
          PROVE  /\ Header(x) \cup CallsOf(x) \subseteq text'
                 /\ \E l \in text' : l.what = "resource" /\ l.takes = Resource(x)
      BY <1>1, <1>2 DEF Describes
    <2>3. Header(d) \cup CallsOf(d) \subseteq text'
      BY <1>1
    <2>4. \E l \in text' : l.what = "resource" /\ l.takes = Resource(d)
      <3>1. CASE Resource(d) \in resources
        <4>1. PICK x \in S : Resource(x) = Resource(d)
          BY <1>2, <3>1 DEF ResourcesOf
        <4>2. QED
          BY <2>2, <4>1
      <3>2. CASE Resource(d) \notin resources
        BY <1>1, <1>5, <1>6, <3>2
      <3>3. QED
        BY <3>1, <3>2
    <2> HIDE DEF S
    <2>5. QED
      BY <2>1, <2>2, <2>3, <2>4 DEF Describes
  <1>9. resources' = ResourcesOf(S \cup {d})
    BY <1>1, <1>2 DEF ResourcesOf
  <1>10. \A n \in DOMAIN files' : \E g \in InitFunctions : Describes(files'[n], Group(g))
    BY <1>1 DEF GenInv, WritingInv
  <1>11. WritingInv'
    <2>1. /\ generating' => Done
          /\ ~ generating' => /\ groups' = {} /\ current' = NoFunction /\ pending' = {}
                              /\ DOMAIN files' = {}
          /\ groups' \subseteq InitFunctions
          /\ current' \in InitFunctions \cup {NoFunction}
          /\ current' # NoFunction
      BY <1>1, <1>2 DEF GenInv, WritingInv
    <2>2. /\ pending' \subseteq Group(current')
          /\ Describes(text', Group(current') \ pending')
          /\ resources' = ResourcesOf(Group(current') \ pending')
      BY <1>1, <1>2, <1>7, <1>8, <1>9
    <2> HIDE DEF S
    <2>3. QED
      BY <1>1, <1>10, <2>1, <2>2, WritingKept
  <1>12. WrittenTypes'
    <2>1. text' \subseteq TextLine
      BY <1>1, <1>4, <1>5 DEF GenInv, WrittenTypes
    <2>2. resources' \subseteq Names
      BY <1>1, <1>3, ResourceIsName DEF GenInv, WrittenTypes
    <2>3. QED
      BY <1>1, <2>1, <2>2 DEF GenInv, WrittenTypes
  <1>13. QED
    BY <1>11, <1>12

\* and what is written in the end are the lines of the whole group.
LEMMA FileWrites ==
    ASSUME GenInv, WriteFile
    PROVE  WritingInv' /\ WrittenTypes'
  <1> DEFINE name == SourceFile[current]
  <1>1. /\ UNCHANGED vars /\ groups' = groups /\ current' = NoFunction
        /\ pending' = pending /\ resources' = resources /\ text' = text
        /\ generating' = generating /\ current # NoFunction /\ pending = {}
        /\ DOMAIN files' = DOMAIN files \cup {name}
        /\ \A n \in DOMAIN files' : files'[n] = IF n = name THEN text ELSE files[n]
    BY DEF WriteFile
  <1>2. /\ current \in InitFunctions /\ name \in SourceFiles
    BY <1>1, FunctionAssumption DEF GenInv, WritingInv, SourceFiles
  <1>3. Describes(text, Group(current))
    <2>1. Group(current) \ pending = Group(current)
      BY <1>1
    <2>2. QED
      BY <1>1, <2>1 DEF GenInv, WritingInv
  <1>4. \A n \in DOMAIN files' : \E g \in InitFunctions : Describes(files'[n], Group(g))
    <2>1. TAKE n \in DOMAIN files'
    <2>2. CASE n = name
      BY <1>1, <1>2, <1>3, <2>2
    <2>3. CASE n # name
      <3>1. n \in DOMAIN files /\ files'[n] = files[n]
        BY <1>1, <2>3
      <3>2. QED
        BY <3>1 DEF GenInv, WritingInv
    <2>4. QED
      BY <2>2, <2>3
  <1> HIDE DEF name
  <1>5. WritingInv'
    <2>1. /\ generating' => Done
          /\ generating'
          /\ groups' \subseteq InitFunctions
          /\ current' \in InitFunctions \cup {NoFunction}
          /\ current' = NoFunction /\ pending' = {}
      BY <1>1 DEF GenInv, WritingInv
    <2>2. QED
      BY <1>1, <1>4, <2>1, WritingKept
  <1>6. WrittenTypes'
    <2>1. \A n \in DOMAIN files' : n \in SourceFiles /\ files'[n] \subseteq TextLine
      BY <1>1, <1>2 DEF GenInv, WrittenTypes
    <2>2. QED
      BY <1>1, <2>1 DEF GenInv, WrittenTypes
  <1>7. QED
    BY <1>5, <1>6

\* Nothing is written.
LEMMA StutterWrites ==
    ASSUME GenInv, UNCHANGED <<vars, genvars>>
    PROVE  WritingInv' /\ WrittenTypes'
  <1>1. /\ UNCHANGED vars
        /\ generating' = generating /\ groups' = groups /\ current' = current
        /\ pending' = pending /\ resources' = resources /\ text' = text /\ files' = files
    BY DEF genvars
  <1>2. WritingInv'
    BY <1>1, WritingKept DEF GenInv, WritingInv
  <1>3. WrittenTypes'
    BY <1>1 DEF GenInv, WrittenTypes
  <1>4. QED
    BY <1>2, <1>3

\* All of the invariant is kept by every step,
LEMMA GenStep ==
    ASSUME GenInv, [GenNext]_<<vars, genvars>>
    PROVE  GenInv'
  <1>1. [Next]_vars
    BY DEF GenNext, GroupDrivers, Generate, GenerateDD, WriteFile
  <1>2. Inv' /\ UpInv' /\ HistoryInv'
    BY <1>1, InvStep, UpStep, HistoryStep DEF GenInv
  <1>3. OpenersAgree'
    BY <1>1, <1>2, OpenersStep DEF GenInv
  <1>4. WritingInv' /\ WrittenTypes'
    <2>1. ASSUME NEW f \in groups, Generate(f) PROVE WritingInv' /\ WrittenTypes'
      BY <2>1, GenerateWrites
    <2>2. ASSUME NEW d \in pending, GenerateDD(d) PROVE WritingInv' /\ WrittenTypes'
      BY <2>2, DriverWrites
    <2>3. QED
      BY <2>1, <2>2, DiscoveryWrites, GroupWrites, FileWrites, StutterWrites DEF GenNext
  <1>5. QED
    BY <1>2, <1>3, <1>4 DEF GenInv

\* holds in the beginning,
LEMMA GenStart == GenInit => GenInv
  <1>1. SUFFICES ASSUME GenInit PROVE GenInv
    OBVIOUS
  <1>2. Init /\ Inv /\ UpInv /\ HistoryInv
    BY <1>1, InitInv, InitHistory DEF GenInit
  <1>3. OpenersAgree
    BY <1>2 DEF Init, OpenersAgree
  <1>4. /\ generating = FALSE /\ groups = {} /\ current = NoFunction /\ pending = {}
        /\ resources = {} /\ text = {} /\ DOMAIN files = {}
    BY <1>1 DEF GenInit
  <1>5. WritingInv
    BY <1>4 DEF WritingInv
  <1>6. WrittenTypes
    BY <1>4 DEF WrittenTypes
  <1>7. QED
    BY <1>2, <1>3, <1>5, <1>6 DEF GenInv

\* and hence always.
LEMMA GenInvHolds == GenSpec => []GenInv
  BY GenStart, GenStep, PTL DEF GenSpec

\* The type invariant of the analysis and the writing of its files: every pointer between
\* objects is to one that exists, and every line is about resources the names of which
\* are built from ids and commands.
THEOREM GenTypeCorrect == GenSpec => []GenTypeOK
  <1>1. GenInv => GenTypeOK
    BY DEF GenInv, Inv, WritingInv, WrittenTypes, GenTypeOK, Group
  <1>2. QED
    BY <1>1, GenInvHolds, PTL

-----------------------------------------------------------------------------
(***************************************************************************)
(* The files.                                                              *)
(***************************************************************************)
\* A file is that of some init function, and is written when the analysis is done.
LEMMA FileFacts ==
    ASSUME GenInv, NEW n \in DOMAIN files
    PROVE  /\ Done /\ Inv /\ UpInv /\ HistoryInv /\ OpenersAgree
           /\ TypeOK /\ IdInv /\ TurnInv /\ device_drivers \subseteq Drivers
           /\ \E f \in InitFunctions :
                 /\ Describes(files[n], Group(f))
                 /\ DriversIn(files[n]) = Group(f)
  <1>1. Done /\ Inv /\ UpInv /\ HistoryInv /\ OpenersAgree
    BY DEF GenInv, WritingInv
  <1>2. TypeOK /\ IdInv /\ TurnInv /\ device_drivers \subseteq Drivers
    BY <1>1 DEF Inv, HistoryInv, TypeOK, Drivers
  <1>3. PICK f \in InitFunctions : Describes(files[n], Group(f))
    BY DEF GenInv, WritingInv
  <1>4. DriversIn(files[n]) \subseteq Group(f)
    BY <1>3 DEF DriversIn, Describes
  <1>5. ASSUME NEW d \in Group(f) PROVE d \in DriversIn(files[n])
    <2>1. Line(d, "header", NoResource, NoResource, FALSE) \in files[n]
      BY <1>3 DEF Describes, Header
    <2>2. Line(d, "header", NoResource, NoResource, FALSE).driver = d
      BY DEF Line
    <2>3. QED
      BY <2>1, <2>2 DEF DriversIn
  <1>6. QED
    BY <1>1, <1>2, <1>3, <1>4, <1>5

\* A kept driver of the same id is in the same file.
LEMMA SameGroup ==
    ASSUME Inv, UpInv, IdInv, ChainsNameFunctions, NEW f, NEW x \in Drivers, RootOf(x) = f,
           NEW k \in device_drivers, k \in Drivers, drivers[k].id = drivers[x].id
    PROVE  k \in Group(f)
  BY SameIdAlike DEF Group, Alike

\* What the theorem below says, in a state of the invariants.
LEMMA OpenersAreNear ==
    ASSUME GenInv, ChainsNameFunctions
    PROVE  OpenedInTheSameFile
  <1>1. SUFFICES ASSUME NEW n \in DOMAIN files, NEW d \in DriversIn(files[n]),
                        ParentDriver(d) # None
                 PROVE  \E p \in DriversIn(files[n]) : drivers[p].id = drivers[ParentDriver(d)].id
    BY DEF OpenedInTheSameFile
  <1>2. /\ Done /\ Inv /\ UpInv /\ HistoryInv /\ TypeOK /\ IdInv /\ device_drivers \subseteq Drivers
    BY FileFacts
  <1>3. PICK f \in InitFunctions : DriversIn(files[n]) = Group(f)
    BY FileFacts
  <1>4. d \in Drivers /\ RootOf(d) = f /\ Nested(d)
    BY <1>1, <1>2, <1>3 DEF Group, Nested
  <1>5. PICK p \in Drivers : p = ParentDriver(d)
    BY <1>1, <1>2, <1>4, DriverFacts
  <1>6. RootOf(p) = f
    BY <1>2, <1>4, <1>5, RootSteps
  <1>7. drivers[p].ioctl # None
    BY <1>2, <1>4, <1>5, FoundInEntry, DriverFacts, EntryFacts
  <1>8. PICK k \in device_drivers : k \in Drivers /\ drivers[k].id = drivers[p].id
    BY <1>2, <1>5, <1>7, KeptLike
  <1>9. k \in Group(f)
    BY <1>2, <1>5, <1>6, <1>8, SameGroup
  <1>10. QED
    BY <1>3, <1>5, <1>8, <1>9

\* The kept driver that is just like an opened one has the name of its command.
LEMMA SameResource ==
    ASSUME Inv, HistoryInv, OpenersAgree, UpInv, Done, ChainsNameFunctions, ChainsNameCommands,
           NEW x \in Drivers, Nested(x), NEW v \in CommandsTold(x),
           NEW k \in Drivers, drivers[k].id = drivers[x].id, OpsOf(k) = OpsOf(x)
    PROVE  Resource(k) = CmdResource(ParentDriver(x), v)
  <1>1. TypeOK /\ IdInv /\ TurnInv
    BY DEF Inv, HistoryInv
  <1>2. Alike(k, x) /\ Nested(k) /\ SourceLines[drivers[k].finding] = SourceLines[drivers[x].finding]
    BY <1>1, SameIdAlike, IdParts
  <1>3. drivers[x].finding \in Findings /\ drivers[k].finding \in Findings
    BY <1>1, DriverFacts
  <1>4. /\ drivers[k].finding \in FileOps <=> drivers[x].finding \in FileOps
        /\ Tells(drivers[k].finding) = Tells(drivers[x].finding)
    BY <1>2, <1>3 DEF ChainsNameCommands, OpsOf
  <1>5. CommandsTold(k) = CommandsTold(x)
    BY <1>2, <1>4, ToldAtEnd
  <1>6. drivers[k].finding \in FileOps /\ OpenedBy(k) # {} /\ v = Smallest(OpenedBy(k))
    BY <1>5 DEF CommandsTold
  <1>7. drivers[k].non_open_parent = <<ParentDriver(k), v>>
    <2>1. drivers[k].non_open_parent = InfoOf(k)
      BY <1>1, <1>2, AllIsDone DEF TurnInv
    <2>2. QED
      BY <1>6, <2>1 DEF InfoOf
  <1>8. Resource(k) = CmdResource(ParentDriver(k), v)
    <2>1. <<ParentDriver(k), v>> # <<>> /\ <<ParentDriver(k), v>>[1] = ParentDriver(k)
          /\ <<ParentDriver(k), v>>[2] = v
      OBVIOUS
    <2>2. ParentDriver(k) # None
      BY <1>2 DEF Nested
    <2>3. QED
      BY <1>6, <1>7, <2>1, <2>2 DEF Resource
  <1>9. FoundFrom(drivers[x].parent) = FoundFrom(drivers[k].parent)
    BY <1>2 DEF Alike, FoundFrom, Found
  <1>10. drivers[ParentDriver(x)].id = drivers[ParentDriver(k)].id
    BY <1>2 DEF Alike
  <1>11. drivers[drivers[ParentDriver(x)].opens[v]].id = drivers[drivers[ParentDriver(k)].opens[v]].id
    BY <1>2, <1>5, <1>9, <1>10, SameLast
  <1>12. QED
    BY <1>8, <1>11 DEF CmdResource

\* The lines of a file all of whose drivers are useful: a resource is declared,
LEMMA DeclaredOnce ==
    ASSUME NEW lines, NEW S, Describes(lines, S), NEW d \in S, \A x \in S : Useful(x),
           \A x \in S : \A l \in CallsOf(x) \cup Header(x) : l.what # "resource"
    PROVE  Resource(d) \in Declared(lines)
  <1>1. PICK l \in lines : l.what = "resource" /\ l.takes = Resource(d)
    BY DEF Describes
  <1>2. l.driver \in S /\ l = DeclarationOf(l.driver)
    BY <1>1 DEF Describes
  <1>3. DeclarationOf(l.driver).active = Useful(l.driver)
    BY DEF DeclarationOf, Line
  <1>4. l.active
    BY <1>2, <1>3
  <1>5. QED
    BY <1>1, <1>4 DEF Declared, Active

\* a call is of one of two kinds,
LEMMA CallFacts ==
    ASSUME TypeOK, NEW d \in Drivers, NEW l \in CallsOf(d)
    PROVE  \/ /\ drivers[d].finding \notin FileOps
              /\ l.what = "open" /\ l.gives = Resource(d)
           \/ /\ l.what = "ioctl" /\ l.takes = Resource(d)
              /\ \/ l.gives = NoResource
                 \/ \E v \in drivers[d].cmd :
                       /\ drivers[d].opens[v] # None
                       /\ l.gives = CmdResource(d, v)
                       /\ l.active => Useful(drivers[d].opens[v])
  <1>1. CASE l \in Open(d)
    BY <1>1 DEF Open, Line
  <1>2. ASSUME NEW v \in drivers[d].cmd, l \in Ioctl(d, v)
        PROVE  /\ l.what = "ioctl" /\ l.takes = Resource(d)
               /\ \/ l.gives = NoResource
                  \/ /\ drivers[d].opens[v] # None
                     /\ l.gives = CmdResource(d, v)
                     /\ l.active => Useful(drivers[d].opens[v])
    BY <1>2 DEF Ioctl, Line
  <1>3. QED
    BY <1>1, <1>2 DEF CallsOf

\* and does not declare a resource,
LEMMA NoDeclarations ==
    ASSUME TypeOK, NEW d \in Drivers
    PROVE  \A l \in CallsOf(d) \cup Header(d) : l.what # "resource"
  <1>1. \A l \in Header(d) : l.what # "resource"
    BY DEF Header, Line
  <1>2. QED
    BY <1>1, CallFacts

\* and one that opens a driver of use returns it.
LEMMA Returned ==
    ASSUME NEW lines, NEW S, Describes(lines, S), NEW d \in S
    PROVE  /\ drivers[d].finding \notin FileOps /\ Useful(d) => Resource(d) \in Given(lines)
           /\ \A v \in drivers[d].cmd :
                 drivers[d].opens[v] # None /\ Useful(drivers[d].opens[v]) =>
                     CmdResource(d, v) \in Given(lines)
  <1>1. CallsOf(d) \subseteq lines
    BY DEF Describes
  <1>2. ASSUME drivers[d].finding \notin FileOps, Useful(d)
        PROVE  Resource(d) \in Given(lines)
    <2>1. PICK l : l = Line(d, "open", NoResource, Resource(d), Useful(d))
      OBVIOUS
    <2>2. l \in lines
      BY <1>1, <1>2, <2>1 DEF CallsOf, Open
    <2>3. l.active /\ l.gives = Resource(d)
      BY <1>2, <2>1 DEF Line
    <2>4. QED
      BY <2>2, <2>3 DEF Given, Active
  <1>3. ASSUME NEW v \in drivers[d].cmd, drivers[d].opens[v] # None, Useful(drivers[d].opens[v])
        PROVE  CmdResource(d, v) \in Given(lines)
    <2>1. PICK l : l = Line(d, "ioctl", Resource(d), CmdResource(d, v), TRUE)
      OBVIOUS
    <2>2. l \in lines
      BY <1>1, <1>3, <2>1 DEF CallsOf, Ioctl
    <2>3. l.active /\ l.gives = CmdResource(d, v)
      BY <2>1 DEF Line
    <2>4. QED
      BY <2>2, <2>3 DEF Given, Active
  <1>4. QED
    BY <1>2, <1>3

\* What the theorem below says, in a state of the invariants.
LEMMA FilesClosed ==
    ASSUME GenInv, ChainsNameFunctions, ChainsNameCommands
    PROVE  GoodFilesAreClosed
  <1>1. SUFFICES ASSUME NEW n \in DOMAIN files, \A d \in DriversIn(files[n]) : Openable(d)
                 PROVE  /\ Taken(files[n]) \subseteq Declared(files[n])
                        /\ Taken(files[n]) \subseteq Given(files[n])
                        /\ Given(files[n]) \subseteq Declared(files[n]) \cup {NoResource}
    BY DEF GoodFilesAreClosed
  <1>2. /\ Done /\ Inv /\ UpInv /\ HistoryInv /\ OpenersAgree
        /\ TypeOK /\ IdInv /\ TurnInv /\ device_drivers \subseteq Drivers
    BY FileFacts
  <1>3. PICK f \in InitFunctions : Describes(files[n], Group(f)) /\ DriversIn(files[n]) = Group(f)
    BY FileFacts
  <1>4. PICK lines : lines = files[n]
    OBVIOUS
  <1>5. /\ Describes(lines, Group(f)) /\ Group(f) \subseteq Drivers
        /\ \A d \in Group(f) : d \in Drivers /\ RootOf(d) = f /\ Openable(d) /\ Useful(d)
    BY <1>1, <1>2, <1>3, <1>4 DEF Group, Openable
  <1>6. \A d \in Group(f) : Resource(d) \in Declared(lines)
    <2>1. \A x \in Group(f) : \A l \in CallsOf(x) \cup Header(x) : l.what # "resource"
      BY <1>2, <1>5, NoDeclarations
    <2>2. QED
      BY <1>5, <2>1, DeclaredOnce
  <1>7. \A x \in Drivers : RootOf(x) = f =>
           \A k \in device_drivers : drivers[k].id = drivers[x].id => k \in Group(f)
    BY <1>2, SameGroup
  <1>8. ASSUME NEW l \in lines, l.active
        PROVE  /\ l.driver \in Group(f)
               /\ l.what = "resource" \/ l \in CallsOf(l.driver)
               /\ l.what = "resource" => l.gives = NoResource
    <2>1. /\ l.driver \in Group(f)
          /\ l \in Header(l.driver) \cup {DeclarationOf(l.driver)} \cup CallsOf(l.driver)
      BY <1>5 DEF Describes
    <2>2. l \notin Header(l.driver)
      BY <1>8 DEF Header, Line
    <2>3. DeclarationOf(l.driver).what = "resource" /\ DeclarationOf(l.driver).gives = NoResource
      BY DEF DeclarationOf, Line
    <2>4. \A x \in CallsOf(l.driver) : x.what # "resource"
      BY <1>2, <1>5, <2>1, NoDeclarations
    <2>5. QED
      BY <2>1, <2>2, <2>3, <2>4
  <1>9. ASSUME NEW r \in Taken(lines)
        PROVE  \E d \in Group(f) : r = Resource(d)
    <2>1. PICK l \in lines : l.active /\ l.what = "ioctl" /\ l.takes = r
      BY DEF Taken, Active
    <2>2. l.driver \in Group(f) /\ l \in CallsOf(l.driver) /\ l.driver \in Drivers
      BY <1>5, <1>8, <2>1
    <2>3. l.takes = Resource(l.driver)
      BY <1>2, <2>1, <2>2, CallFacts
    <2>4. QED
      BY <2>1, <2>2, <2>3
  <1>10. ASSUME NEW d \in Group(f) PROVE Resource(d) \in Given(lines)
    <2>1. CASE drivers[d].finding \notin FileOps
      BY <1>5, <2>1, Returned
    <2>2. CASE drivers[d].finding \in FileOps
      <3>1. d \in Drivers /\ RootOf(d) = f /\ drivers[d].non_open_parent # <<>>
        BY <1>5, <2>2 DEF Openable
      <3>2. PICK v : v = drivers[d].non_open_parent[2]
        OBVIOUS
      <3>3. Nested(d) /\ v \in CommandsTold(d) /\ drivers[d].non_open_parent[1] = ParentDriver(d)
        BY <1>2, <2>2, <3>1, <3>2, NamesItsCommand
      <3>4. PICK p \in Drivers : p = ParentDriver(d) /\ p # None
        BY <1>2, <3>1, <3>3, DriverFacts DEF Nested
      <3>5. Resource(d) = CmdResource(p, v)
        BY <2>2, <3>1, <3>2, <3>3, <3>4 DEF Resource
      <3>6. PICK k \in device_drivers :
              /\ k \in Drivers
              /\ drivers[k].id = drivers[p].id
              /\ v \in drivers[k].cmd
              /\ drivers[k].opens[v] \in Drivers /\ drivers[k].opens[v] # None
              /\ ParentDriver(drivers[k].opens[v]) = k
              /\ drivers[drivers[k].opens[v]].id = drivers[drivers[p].opens[v]].id
        BY <1>2, <3>1, <3>3, <3>4, ProducedByKept
      <3>7. PICK o \in Drivers : o = drivers[k].opens[v]
        BY <3>6
      <3>8. RootOf(p) = f
        BY <1>2, <3>1, <3>3, <3>4, RootSteps
      <3>9. k \in Group(f)
        BY <1>7, <3>4, <3>6, <3>8
      <3>10. Nested(o) /\ RootOf(o) = f
        <4>1. k # None /\ RootOf(k) = f
          BY <1>2, <1>5, <3>6, <3>9, DriverFacts
        <4>2. Nested(o) /\ ParentDriver(o) = k
          BY <3>6, <3>7, <4>1 DEF Nested
        <4>3. QED
          BY <1>2, <4>1, <4>2, RootSteps
      <3>11. Useful(o)
        <4>1. PICK q \in device_drivers :
                  /\ q \in Drivers
                  /\ drivers[q].id = drivers[o].id /\ OpsOf(q) = OpsOf(o)
                  /\ drivers[q].ioctl # None <=> drivers[o].ioctl # None
                  /\ drivers[q].cmd = drivers[o].cmd
          BY <1>2, <3>10, KeptLike
        <4>2. Useful(q)
          BY <1>5, <1>7, <3>10, <4>1
        <4>3. QED
          BY <4>1, <4>2 DEF Useful
      <3>12. CmdResource(k, v) \in Given(lines)
        BY <1>5, <3>6, <3>7, <3>9, <3>11, Returned
      <3>13. CmdResource(k, v) = CmdResource(p, v)
        BY <3>6 DEF CmdResource
      <3>14. QED
        BY <3>5, <3>12, <3>13
    <2>3. QED
      BY <2>1, <2>2
  <1>11. ASSUME NEW r \in Given(lines), r # NoResource
         PROVE  \E d \in Group(f) : r = Resource(d)
    <2>1. PICK l \in lines : l.active /\ l.gives = r
      BY DEF Given, Active
    <2>2. PICK d \in Drivers : d = l.driver /\ d \in Group(f) /\ l \in CallsOf(d)
      BY <1>5, <1>8, <1>11, <2>1
    <2>3. CASE r = Resource(d)
      BY <2>2, <2>3
    <2>4. CASE r # Resource(d)
      <3>1. PICK v \in drivers[d].cmd :
                /\ drivers[d].opens[v] # None
                /\ r = CmdResource(d, v)
                /\ Useful(drivers[d].opens[v])
        BY <1>2, <1>11, <2>1, <2>2, <2>4, CallFacts
      <3>2. PICK o : o = drivers[d].opens[v]
        OBVIOUS
      <3>3. o \in Drivers /\ v \in Commands
        BY <1>2, <2>2, <3>1, <3>2, DriverFacts DEF DriverOK, Drivers, Driver
      <3>4. drivers[o].finding \in FileOps /\ drivers[o].non_open_parent = <<d, v>>
        BY <1>2, <2>2, <3>1, <3>2 DEF OpenersAgree, Drivers
      <3>5. Nested(o) /\ v \in CommandsTold(o) /\ ParentDriver(o) = d
        <4>1. <<d, v>> # <<>> /\ <<d, v>>[1] = d /\ <<d, v>>[2] = v
          OBVIOUS
        <4>2. /\ drivers[o].non_open_parent # <<>>
              /\ drivers[o].non_open_parent[1] = d /\ drivers[o].non_open_parent[2] = v
          BY <3>4, <4>1
        <4>3. QED
          BY <1>2, <3>3, <3>4, <4>2, NamesItsCommand
      <3>6. RootOf(o) = f
        BY <1>2, <1>5, <2>2, <3>3, <3>5, RootSteps
      <3>7. PICK k \in device_drivers :
                k \in Drivers /\ drivers[k].id = drivers[o].id /\ OpsOf(k) = OpsOf(o)
        BY <1>2, <3>3, <3>5, KeptLike
      <3>8. k \in Group(f)
        BY <1>7, <3>3, <3>6, <3>7
      <3>9. Resource(k) = CmdResource(d, v)
        BY <1>2, <3>3, <3>5, <3>7, SameResource
      <3>10. QED
        BY <3>1, <3>8, <3>9
    <2>5. QED
      BY <2>3, <2>4
  <1>12. QED
    BY <1>4, <1>6, <1>9, <1>10, <1>11

\* The discovery, invariants and all.
LEMMA DiscoveryHolds == Spec => [](Inv /\ UpInv /\ HistoryInv /\ OpenersAgree)
  <1> DEFINE All == Inv /\ UpInv /\ HistoryInv /\ OpenersAgree
  <1>1. Init => All
    BY InitInv, InitHistory DEF Init, OpenersAgree
  <1>2. All /\ [Next]_vars => All'
    BY InvStep, UpStep, HistoryStep, OpenersStep
  <1>3. QED
    BY <1>1, <1>2, PTL DEF Spec

\* The resource a kept driver is opened with is produced by the command of a kept driver,
\* when call chains that are printed alike start in one function.
THEOREM ResourcesProduced ==
    ASSUME ChainsNameFunctions
    PROVE  Spec => []ResourcesAreProduced
  <1>1. Inv /\ UpInv /\ HistoryInv /\ OpenersAgree => ResourcesAreProduced
    BY ResourcesAtEnd
  <1>2. QED
    BY <1>1, DiscoveryHolds, PTL

\* A driver that a command opens comes in the file of the command, when call chains that
\* are printed alike start in one function.
THEOREM OpenedTogether ==
    ASSUME ChainsNameFunctions
    PROVE  GenSpec => []OpenedInTheSameFile
  <1>1. GenInv => OpenedInTheSameFile
    BY OpenersAreNear
  <1>2. QED
    BY <1>1, GenInvHolds, PTL

\* A file all of whose drivers have commands and can be opened declares every resource
\* that its calls take or return, and returns every one that is taken, when call chains
\* that are printed alike start in one function and, if they end at one operations
\* structure, are of one kind and are reached from one command.
THEOREM GoodFilesClosed ==
    ASSUME ChainsNameFunctions, ChainsNameCommands
    PROVE  GenSpec => []GoodFilesAreClosed
  <1>1. GenInv => GoodFilesAreClosed
    BY FilesClosed
  <1>2. QED
    BY <1>1, GenInvHolds, PTL
=============================================================================
