------------------------ MODULE CallGraphSetupProofs ------------------------
(***************************************************************************)
(* Proofs about CallGraphSetup, for every program, every outcome of the    *)
(* type analysis and every list of initcall entries.                       *)
(***************************************************************************)
EXTENDS CallGraphSetup, FiniteSetTheorems, FunctionTheorems, NaturalsInduction,
        WellFoundedInduction, TLAPS

-----------------------------------------------------------------------------
(***************************************************************************)
(* Types.                                                                  *)
(***************************************************************************)

\* What check() finds has the type of callee records.
LEMMA FoundType ==
    ASSUME NEW kind \in Kinds
    PROVE  Found(kind) \in [Insts -> SUBSET Functions]
  BY GraphAssumption DEF Found, Kinds

\* Giving f new targets keeps the types of records and caller sets.
LEMMA WithType ==
    ASSUME NEW f \in Functions,
           NEW new \in [Insts -> SUBSET Functions],
           NEW oldT \in [Insts -> SUBSET Functions],
           NEW oldC \in [Functions -> SUBSET Functions]
    PROVE  /\ WithTargets(oldT, new, f) \in [Insts -> SUBSET Functions]
           /\ WithCaller(oldC, new, f) \in [Functions -> SUBSET Functions]
  BY DEF WithTargets, WithCaller

\* An initcall entry adds functions only.
LEMMA AddedType ==
    ASSUME NEW f \in Functions, NEW known
    PROVE  Added(f, known) \subseteq Functions
  <1>1. \A k \in DOMAIN InitSection : InitSection[k] \in Functions
    BY InitcallAssumption
  <1> QED BY <1>1 DEF Added

\* An entry is a level and a function or none.
LEMMA EntryType ==
    ASSUME TypeOK, read < Len(initcalls)
    PROVE  /\ read + 1 \in 0 .. Len(initcalls)
           /\ initcalls[read + 1][1] \in Levels
           /\ initcalls[read + 1][2] \in Functions \cup {NoFunction}
  <1>1. initcalls \in Seq(Levels \X (Functions \cup {NoFunction}))
    BY InitcallAssumption DEF TypeOK
  <1>2. Len(initcalls) \in Nat /\ read \in Nat
    BY <1>1 DEF TypeOK
  <1>3. read + 1 \in 1 .. Len(initcalls)
    BY <1>2
  <1>4. initcalls[read + 1] \in Levels \X (Functions \cup {NoFunction})
    BY <1>1, <1>3
  <1> QED BY <1>2, <1>3, <1>4

LEMMA InitType == Init => TypeOK
  <1> SUFFICES ASSUME Init PROVE TypeOK
    OBVIOUS
  <1>1. Len(initcalls) \in Nat
    BY InitcallAssumption DEF Init
  <1> QED BY <1>1 DEF Init, TypeOK, Phases

LEMMA NextType == TypeOK /\ [Next]_vars => TypeOK'
  <1> SUFFICES ASSUME TypeOK, [Next]_vars PROVE TypeOK'
    OBVIOUS
  <1> USE DEF TypeOK
  <1>1. ASSUME NEW f \in todo, Check(f) PROVE TypeOK'
    <2>1. targets' \in [Kinds -> [Insts -> SUBSET Functions]]
      BY <1>1, FoundType, WithType DEF Check
    <2>2. callers' \in [Kinds -> [Functions -> SUBSET Functions]]
      BY <1>1, FoundType, WithType DEF Check
    <2> QED BY <1>1, <2>1, <2>2 DEF Check
  <1>2. ASSUME NEW f \in todo, ResolveIndirect(f) PROVE TypeOK'
    <2>1. mlta \in [Insts -> SUBSET Functions] /\ "indirect" \in Kinds
      BY GraphAssumption DEF Kinds
    <2>2. /\ WithTargets(targets["indirect"], mlta, f) \in [Insts -> SUBSET Functions]
          /\ WithCaller(callers["indirect"], mlta, f) \in [Functions -> SUBSET Functions]
      BY <2>1, WithType
    <2> QED BY <1>2, <2>2 DEF ResolveIndirect
  <1>3. ASSUME NEW f \in todo, RemoveInitFromIndirect(f) PROVE TypeOK'
    <2>1. targets' \in [Kinds -> [Insts -> SUBSET Functions]]
      BY <1>3 DEF RemoveInitFromIndirect, Kinds
    <2>2. callers' \in [Kinds -> [Functions -> SUBSET Functions]]
      BY <1>3 DEF RemoveInitFromIndirect, CallersCleared, Kinds
    <2> QED BY <1>3, <2>1, <2>2 DEF RemoveInitFromIndirect
  <1>4. CASE FindModuleInitFunction
    <2> DEFINE level == initcalls[read + 1][1]
               f == initcalls[read + 1][2]
    <2>1. /\ read + 1 \in 0 .. Len(initcalls)
          /\ level \in Levels
          /\ IsFunction(f) => f \in Functions
      BY <1>4, EntryType DEF FindModuleInitFunction, IsFunction
    <2>2. IsFunction(f) => Added(f, module_init_function[level]) \subseteq Functions
      BY <2>1, AddedType
    <2>3. module_init_function' \in [Levels -> SUBSET Functions]
      BY <1>4, <2>1, <2>2 DEF FindModuleInitFunction
    <2> QED BY <1>4, <2>1, <2>3 DEF FindModuleInitFunction
  <1>5. CASE NextPhase
    <2>1. Registered \subseteq Functions
      BY DEF Registered
    <2> QED BY <1>5, <2>1 DEF NextPhase, Phases
  <1>6. CASE UNCHANGED vars
    BY <1>6 DEF vars
  <1> QED BY <1>1, <1>2, <1>3, <1>4, <1>5, <1>6 DEF Next

(***************************************************************************)
(* The state has its type for every program.                               *)
(***************************************************************************)
THEOREM TypeCorrect == Spec => []TypeOK
  <1> QED BY InitType, NextType, PTL DEF Spec

-----------------------------------------------------------------------------
(***************************************************************************)
(* The two records of an edge.  Both are changed by the same operators, so *)
(* they agree again after f has got new targets; removing f empties its    *)
(* callers and leaves the other functions' targets alone.                  *)
(***************************************************************************)

\* The callers of g according to the callee records.
CallersIn(records, g) == {c \in Functions : \E i \in Insts : Owner[i] = c /\ g \in records[i]}

RemovedInv ==
    /\ CallersAreInverse
    /\ phase = "remove" => todo \subseteq Registered

\* Records and callers that agree still agree when f gets new targets.
LEMMA WithKeepsInverse ==
    ASSUME NEW f \in Functions, NEW g \in Functions,
           NEW new \in [Insts -> SUBSET Functions],
           NEW oldT \in [Insts -> SUBSET Functions],
           NEW oldC \in [Functions -> SUBSET Functions],
           oldC[g] = CallersIn(oldT, g)
    PROVE  WithCaller(oldC, new, f)[g] = CallersIn(WithTargets(oldT, new, f), g)
  BY GraphAssumption DEF WithCaller, WithTargets, CallersIn, Calls

LEMMA InitInverse == Init => RemovedInv
  BY DEF Init, RemovedInv, CallersAreInverse, Removed

LEMMA NextInverse == TypeOK /\ RemovedInv /\ [Next]_vars => RemovedInv'
  <1> SUFFICES ASSUME TypeOK, RemovedInv, [Next]_vars PROVE RemovedInv'
    OBVIOUS
  <1>0. \A kind \in Kinds, g \in Functions :
            callers[kind][g] = IF kind = "indirect" /\ g \in Removed THEN {}
                               ELSE CallersIn(targets[kind], g)
    BY DEF RemovedInv, CallersAreInverse, CallersIn
  <1>1. ASSUME NEW f \in todo, Check(f) PROVE RemovedInv'
    <2>1. f \in Functions /\ Removed = {} /\ Removed' = {}
      BY <1>1 DEF Check, Removed, TypeOK
    <2>2. ASSUME NEW kind \in Kinds, NEW g \in Functions
          PROVE  callers'[kind][g] = CallersIn(targets'[kind], g)
      <3>1. callers[kind][g] = CallersIn(targets[kind], g)
        BY <1>0, <2>1
      <3>2. /\ targets[kind] \in [Insts -> SUBSET Functions]
            /\ callers[kind] \in [Functions -> SUBSET Functions]
        BY DEF TypeOK
      <3>3. WithCaller(callers[kind], Found(kind), f)[g] =
            CallersIn(WithTargets(targets[kind], Found(kind), f), g)
        BY <2>1, <3>1, <3>2, FoundType, WithKeepsInverse
      <3> QED BY <1>1, <3>3 DEF Check
    <2> QED BY <1>1, <2>1, <2>2, ZenonT(30) DEF RemovedInv, CallersAreInverse, CallersIn, Check
  <1>2. ASSUME NEW f \in todo, ResolveIndirect(f) PROVE RemovedInv'
    <2>1. f \in Functions /\ Removed = {} /\ Removed' = {}
      BY <1>2 DEF ResolveIndirect, Removed, TypeOK
    <2>2. ASSUME NEW kind \in Kinds, NEW g \in Functions
          PROVE  callers'[kind][g] = CallersIn(targets'[kind], g)
      <3>1. callers[kind][g] = CallersIn(targets[kind], g)
        BY <1>0, <2>1
      <3>2. /\ targets[kind] \in [Insts -> SUBSET Functions]
            /\ callers[kind] \in [Functions -> SUBSET Functions]
            /\ mlta \in [Insts -> SUBSET Functions]
        BY GraphAssumption DEF TypeOK
      <3>3. WithCaller(callers[kind], mlta, f)[g] =
            CallersIn(WithTargets(targets[kind], mlta, f), g)
        BY <2>1, <3>1, <3>2, WithKeepsInverse
      <3>4. CASE kind = "indirect"
        BY <1>2, <3>3, <3>4 DEF ResolveIndirect, TypeOK
      <3>5. CASE kind # "indirect"
        BY <1>2, <3>1, <3>5 DEF ResolveIndirect, TypeOK
      <3> QED BY <3>4, <3>5
    <2> QED BY <1>2, <2>1, <2>2 DEF RemovedInv, CallersAreInverse, CallersIn, ResolveIndirect
  <1>3. ASSUME NEW f \in todo, RemoveInitFromIndirect(f) PROVE RemovedInv'
    <2>1. /\ f \in Functions /\ f \in Registered /\ Registered' = Registered
          /\ Removed' = Removed \cup {f} /\ f \notin Removed
      BY <1>3 DEF RemoveInitFromIndirect, Removed, RemovedInv, Registered, TypeOK
    <2>2. ASSUME NEW kind \in Kinds, NEW g \in Functions,
                 ~ (kind = "indirect" /\ g \in Removed')
          PROVE  callers'[kind][g] = CallersIn(targets'[kind], g)
      <3>1. callers[kind][g] = CallersIn(targets[kind], g)
        BY <1>0, <2>1, <2>2
      <3>2. CASE kind = "indirect"
        <4>1. g # f
          BY <2>1, <2>2, <3>2
        <4>2. \A i \in Insts : g \in targets'[kind][i] <=> g \in targets[kind][i]
          BY <1>3, <3>2, <4>1 DEF RemoveInitFromIndirect, TypeOK
        <4>3. callers'[kind][g] = callers[kind][g]
          BY <1>3, <3>2, <4>1 DEF RemoveInitFromIndirect, CallersCleared, TypeOK
        <4> QED BY <3>1, <4>2, <4>3 DEF CallersIn
      <3>3. CASE kind # "indirect"
        BY <1>3, <3>1, <3>3 DEF RemoveInitFromIndirect, CallersCleared, TypeOK
      <3> QED BY <3>2, <3>3
    <2>3. ASSUME NEW g \in Functions, g \in Removed'
          PROVE  callers'["indirect"][g] = {}
      <3>1. CASE g = f
        BY <1>3, <3>1 DEF RemoveInitFromIndirect, CallersCleared, TypeOK, Kinds
      <3>2. CASE g # f
        <4>1. callers["indirect"][g] = {}
          BY <1>0, <2>1, <2>3, <3>2 DEF Kinds
        <4> QED BY <1>3, <3>2, <4>1 DEF RemoveInitFromIndirect, CallersCleared, TypeOK, Kinds
      <3> QED BY <3>1, <3>2
    <2>4. CallersAreInverse'
      BY <2>2, <2>3 DEF CallersAreInverse, CallersIn
    <2> QED BY <1>3, <2>1, <2>4 DEF RemovedInv, RemoveInitFromIndirect
  <1>4. CASE FindModuleInitFunction
    <2>1. Removed = {} /\ Removed' = {}
      BY <1>4 DEF FindModuleInitFunction, Removed
    <2> QED BY <1>4, <2>1 DEF FindModuleInitFunction, RemovedInv, CallersAreInverse
  <1>5. CASE NextPhase
    <2>1. Registered' = Registered
      BY <1>5 DEF NextPhase, Registered
    <2>2. phase # "done" /\ targets' = targets /\ callers' = callers
      BY <1>5 DEF NextPhase
    <2>3. CASE phase \in {"check", "mlta"}
      <3>1. phase' \in {"mlta", "initcall"}
        BY <1>5, <2>3 DEF NextPhase
      <3>2. Removed = {} /\ Removed' = {}
        BY <2>3, <3>1 DEF Removed
      <3> QED BY <2>2, <3>1, <3>2 DEF RemovedInv, CallersAreInverse
    <2>4. CASE phase = "initcall"
      <3>1. phase' = "remove" /\ todo' = Registered
        BY <1>5, <2>4 DEF NextPhase
      <3>2. Removed = {} /\ Removed' = {}
        BY <2>1, <2>4, <3>1 DEF Removed
      <3> QED BY <2>1, <2>2, <3>1, <3>2 DEF RemovedInv, CallersAreInverse
    <2>5. CASE phase = "remove"
      <3>1. phase' = "done" /\ todo = {} /\ todo' = {}
        BY <1>5, <2>5 DEF NextPhase
      <3>2. Removed' = Removed
        BY <2>1, <2>5, <3>1 DEF Removed
      <3>3. CallersAreInverse'
        BY <2>2, <3>2 DEF RemovedInv, CallersAreInverse
      <3> QED BY <3>1, <3>3 DEF RemovedInv
    <2> QED BY <2>2, <2>3, <2>4, <2>5 DEF TypeOK, Phases
  <1>6. CASE UNCHANGED vars
    <2>1. /\ phase' = phase /\ todo' = todo /\ targets' = targets /\ callers' = callers
          /\ module_init_function' = module_init_function
      BY <1>6 DEF vars
    <2>2. Registered' = Registered
      BY <2>1 DEF Registered
    <2>3. Removed' = Removed
      BY <2>1, <2>2 DEF Removed
    <2>4. CallersAreInverse'
      BY <2>1, <2>3 DEF RemovedInv, CallersAreInverse
    <2> QED BY <2>1, <2>2, <2>4 DEF RemovedInv
  <1> QED BY <1>1, <1>2, <1>3, <1>4, <1>5, <1>6 DEF Next

(***************************************************************************)
(* The callers of every function are at every step those that have it among*)
(* their targets, but for the indirect callers of removed init functions.  *)
(***************************************************************************)
THEOREM CallersAgree == Spec => []CallersAreInverse
  <1>1. RemovedInv => CallersAreInverse
    BY DEF RemovedInv
  <1> QED BY <1>1, InitType, NextType, InitInverse, NextInverse, PTL DEF Spec

-----------------------------------------------------------------------------
(***************************************************************************)
(* What removing init functions loses.  Until then every target of the type*)
(* analysis is recorded once its function has been visited; afterwards only*)
(* removed functions are missing, and each of their callers misses them.   *)
(***************************************************************************)

\* A set of numbers has a least one.
LEMMA LeastNumber ==
    ASSUME NEW S, S \subseteq Nat, S # {}
    PROVE  \E n \in S : \A m \in S : n <= m
  <1> DEFINE R == OpToRel(<, Nat)
  <1>1. IsWellFoundedOn(R, Nat)
    BY NatLessThanWellFounded
  <1>2. \A y, x \in Nat : y < x => <<y, x>> \in R
    BY DEF OpToRel
  <1> HIDE DEF R
  <1>3. PICK n \in S : \A m \in S : ~ (<<m, n>> \in R)
    BY <1>1, WFMin
  <1>4. ASSUME NEW m \in S PROVE n <= m
    <2>1. m \in Nat /\ n \in Nat
      OBVIOUS
    <2>2. ~ m < n
      BY <1>2, <1>3, <2>1
    <2>3. QED
      BY <2>1, <2>2
  <1>5. QED
    BY <1>4

\* The targets that the type analysis found for i and that are not recorded.
Lost(i) == mlta[i] \ targets["indirect"][i]

\* One of the calls of i's function has lost g.
LostByCaller(g, i) == \E j \in Insts : Owner[j] = Owner[i] /\ g \in Lost(j)

LostInv ==
    /\ \A i \in Insts : targets["indirect"][i] \subseteq mlta[i]
    /\ phase = "mlta" => \A i \in Insts : Owner[i] \notin todo => Lost(i) = {}
    /\ phase = "initcall" => \A i \in Insts : Lost(i) = {}
    /\ phase \in {"remove", "done"} =>
          \A i \in Insts :
              /\ Lost(i) \subseteq Removed
              /\ \A g \in mlta[i] \cap Removed : LostByCaller(g, i)
    /\ phase = "done" => todo = {}

LEMMA InitLost == Init => LostInv
  BY DEF Init, LostInv, Kinds

\* A turn of remove_init_from_indirect() finds a call to erase f from in each caller
\* of f: the first that has it.
LEMMA ErasedSomewhere ==
    ASSUME TypeOK, RemovedInv, NEW f \in Functions, f \notin Removed,
           NEW i \in Insts, f \in targets["indirect"][i]
    PROVE  \E j \in Insts : Owner[j] = Owner[i] /\ ErasedAt(f, j)
  <1> DEFINE sites == {j \in Insts : Owner[j] = Owner[i] /\ f \in targets["indirect"][j]}
  <1>1. sites \subseteq Nat /\ sites # {}
    BY GraphAssumption
  <1>2. PICK j \in sites : \A k \in sites : j <= k
    BY <1>1, LeastNumber
  <1>3. Owner[j] \in callers["indirect"][f]
    <2>1. j \in Insts /\ Owner[j] \in Functions /\ f \in targets["indirect"][j]
      BY <1>2, GraphAssumption
    <2>2. callers["indirect"][f] =
              {c \in Functions : \E k \in Insts : Owner[k] = c /\ f \in targets["indirect"][k]}
      BY DEF RemovedInv, CallersAreInverse, Kinds
    <2> QED BY <2>1, <2>2
  <1> QED BY <1>2, <1>3 DEF ErasedAt

\* A turn of remove_init_from_indirect() loses f, and f alone.
LEMMA RemoveLost ==
    ASSUME TypeOK, RemovedInv, LostInv, NEW f \in todo, RemoveInitFromIndirect(f)
    PROVE  LostInv'
  <1>1. /\ phase = "remove" /\ phase' = "remove" /\ mlta' = mlta
        /\ f \in Registered /\ Registered' = Registered
    BY DEF RemoveInitFromIndirect, RemovedInv, Registered
  <1>2. Removed' = Removed \cup {f} /\ f \notin Removed /\ f \in Functions
    BY <1>1 DEF RemoveInitFromIndirect, Removed, TypeOK
  <1>3. \A i \in Insts : targets'["indirect"][i] =
            IF ErasedAt(f, i) THEN targets["indirect"][i] \ {f} ELSE targets["indirect"][i]
    BY DEF RemoveInitFromIndirect, TypeOK, Kinds
  <1>4. \A i \in Insts : f \in mlta[i] => f \in targets["indirect"][i]
    BY <1>1, <1>2 DEF LostInv, Lost
  <1>5. \A i \in Insts : Lost(i) \subseteq Lost(i)' /\ Lost(i)' \subseteq Lost(i) \cup {f}
    BY <1>1, <1>3 DEF Lost
  <1>6. ASSUME NEW i \in Insts PROVE Lost(i)' \subseteq Removed'
    BY <1>1, <1>2, <1>5, <1>6 DEF LostInv
  <1>7. ASSUME NEW i \in Insts, NEW g \in mlta[i] \cap Removed' PROVE LostByCaller(g, i)'
    <2>1. CASE g # f
      <3>1. PICK j \in Insts : Owner[j] = Owner[i] /\ g \in Lost(j)
        BY <1>1, <1>2, <1>7, <2>1 DEF LostInv, LostByCaller
      <3>2. g \in Lost(j)'
        BY <1>5, <3>1
      <3> QED BY <3>1, <3>2 DEF LostByCaller
    <2>2. CASE g = f
      <3>1. f \in targets["indirect"][i]
        BY <1>4, <1>7, <2>2
      <3>2. PICK j \in Insts : Owner[j] = Owner[i] /\ ErasedAt(f, j)
        BY <1>2, <3>1, ErasedSomewhere
      <3>3. f \in mlta[j]
        BY <3>2 DEF LostInv, ErasedAt
      <3>4. f \in Lost(j)'
        BY <1>1, <1>3, <3>2, <3>3 DEF Lost
      <3> QED BY <2>2, <3>2, <3>4 DEF LostByCaller
    <2> QED BY <2>1, <2>2
  <1>8. \A i \in Insts : targets'["indirect"][i] \subseteq mlta'[i]
    BY <1>1, <1>3 DEF LostInv
  <1> QED BY <1>1, <1>6, <1>7, <1>8 DEF LostInv

LEMMA NextLost == TypeOK /\ RemovedInv /\ LostInv /\ [Next]_vars => LostInv'
  <1> SUFFICES ASSUME TypeOK, RemovedInv, LostInv, [Next]_vars PROVE LostInv'
    OBVIOUS
  <1>1. ASSUME NEW f \in todo, Check(f) PROVE LostInv'
    <2>1. phase = "check" /\ phase' = "check" /\ mlta' = mlta
      BY <1>1 DEF Check
    <2>2. targets'["indirect"] = targets["indirect"]
      BY <1>1, GraphAssumption DEF Check, WithTargets, Found, TypeOK, Kinds
    <2> QED BY <2>1, <2>2 DEF LostInv
  <1>2. ASSUME NEW f \in todo, ResolveIndirect(f) PROVE LostInv'
    <2>1. phase = "mlta" /\ phase' = "mlta" /\ mlta' = mlta /\ todo' = todo \ {f}
      BY <1>2 DEF ResolveIndirect
    <2>2. targets'["indirect"] = WithTargets(targets["indirect"], mlta, f)
      BY <1>2 DEF ResolveIndirect, TypeOK, Kinds
    <2>3. ASSUME NEW i \in Insts, Owner[i] \notin todo' PROVE Lost(i)' = {}
      <3>1. CASE Owner[i] = f
        BY <2>1, <2>2, <3>1 DEF Lost, WithTargets
      <3>2. CASE Owner[i] # f
        <4>1. Lost(i) = {}
          BY <2>1, <2>3, <3>2 DEF LostInv
        <4> QED BY <2>1, <2>2, <3>2, <4>1 DEF Lost, WithTargets
      <3> QED BY <3>1, <3>2
    <2>4. \A i \in Insts : targets'["indirect"][i] \subseteq mlta'[i]
      BY <2>1, <2>2 DEF LostInv, WithTargets
    <2> QED BY <2>1, <2>3, <2>4 DEF LostInv
  <1>3. ASSUME NEW f \in todo, RemoveInitFromIndirect(f) PROVE LostInv'
    BY <1>3, RemoveLost
  <1>4. CASE FindModuleInitFunction
    <2>1. /\ phase = "initcall" /\ phase' = "initcall"
          /\ mlta' = mlta /\ targets' = targets
      BY <1>4 DEF FindModuleInitFunction
    <2>2. \A i \in Insts : Lost(i)' = Lost(i)
      BY <2>1 DEF Lost
    <2> QED BY <2>1, <2>2 DEF LostInv
  <1>5. CASE NextPhase
    <2>1. /\ phase # "done" /\ mlta' = mlta /\ targets' = targets
          /\ module_init_function' = module_init_function
      BY <1>5 DEF NextPhase
    <2>2. \A i \in Insts : Lost(i)' = Lost(i)
      BY <2>1 DEF Lost
    <2>3. \A i \in Insts : targets'["indirect"][i] \subseteq mlta'[i]
      BY <2>1 DEF LostInv
    <2>4. CASE phase = "check"
      <3>1. phase' = "mlta" /\ todo' = Functions
        BY <1>5, <2>4 DEF NextPhase
      <3> QED BY <2>3, <3>1, GraphAssumption DEF LostInv
    <2>5. CASE phase = "mlta"
      <3>1. phase' = "initcall" /\ todo = {}
        BY <1>5, <2>5 DEF NextPhase
      <3> QED BY <2>2, <2>5, <2>3, <3>1 DEF LostInv
    <2>6. CASE phase = "initcall"
      <3>1. phase' = "remove" /\ todo' = Registered
        BY <1>5, <2>6 DEF NextPhase
      <3>2. Removed' = {}
        BY <2>1, <3>1 DEF Removed, Registered
      <3> QED BY <2>2, <2>6, <2>3, <3>1, <3>2 DEF LostInv
    <2>7. CASE phase = "remove"
      <3>1. phase' = "done" /\ todo = {} /\ todo' = {}
        BY <1>5, <2>7 DEF NextPhase
      <3>2. Removed' = Removed
        BY <2>1, <2>7, <3>1 DEF Removed, Registered
      <3>3. \A i \in Insts :
                /\ Lost(i)' \subseteq Removed'
                /\ \A g \in mlta'[i] \cap Removed' : LostByCaller(g, i)'
        BY <2>1, <2>2, <2>7, <3>2 DEF LostInv, LostByCaller
      <3> QED BY <2>3, <3>1, <3>3 DEF LostInv
    <2> QED BY <2>1, <2>4, <2>5, <2>6, <2>7 DEF TypeOK, Phases
  <1>6. CASE UNCHANGED vars
    <2>1. /\ phase' = phase /\ todo' = todo /\ targets' = targets /\ mlta' = mlta
          /\ module_init_function' = module_init_function
      BY <1>6 DEF vars
    <2>2. Removed' = Removed
      BY <2>1 DEF Removed, Registered
    <2>3. \A i \in Insts : Lost(i)' = Lost(i)
      BY <2>1 DEF Lost
    <2>4. \A i \in Insts, g \in Functions : LostByCaller(g, i)' <=> LostByCaller(g, i)
      BY <2>3 DEF LostByCaller
    <2> QED BY <2>1, <2>2, <2>3, <2>4 DEF LostInv, LostByCaller
  <1> QED BY <1>1, <1>2, <1>3, <1>4, <1>5, <1>6 DEF Next

(***************************************************************************)
(* In the end a target of the type analysis is missing only where it is an *)
(* init function, and every function that might call an init function has  *)
(* lost it from one of its indirect calls.                                 *)
(***************************************************************************)
THEOREM LosesInitCalls == Spec => []InitCallsAreLost
  <1>1. LostInv => InitCallsAreLost
    BY DEF LostInv, InitCallsAreLost, Lost, LostByCaller, Removed
  <1> QED BY <1>1, InitType, NextType, InitInverse, NextInverse, InitLost, NextLost,
             PTL DEF Spec

-----------------------------------------------------------------------------
(***************************************************************************)
(* The static functions of one name.  The functions registered at a level  *)
(* of a real name are candidates for it, those that an entry names are     *)
(* among them, and there is one for each entry as long as there are any.   *)
(***************************************************************************)

\* The functions of real name r that are registered at level l.
Known(l, r) == {f \in module_init_function[l] : RealName[f] = r}

Smaller(m, n) == IF m <= n THEN m ELSE n

CountInv ==
    \A l \in Levels, r \in RealNames :
        /\ Known(l, r) \subseteq CandidatesOf(l, r)
        /\ \A k \in EntriesOf(l, r) : initcalls[k][2] \in Known(l, r)
        /\ Cardinality(Known(l, r)) =
              Smaller(Cardinality(EntriesOf(l, r)), Cardinality(CandidatesOf(l, r)))

\* A function on a finite set has finitely many values.
LEMMA FiniteImage ==
    ASSUME NEW S, IsFiniteSet(S), NEW g, DOMAIN g = S
    PROVE  IsFiniteSet({g[x] : x \in S})
  <1> DEFINE T == {g[x] : x \in S}
             h == [x \in S |-> g[x]]
  <1>1. h \in [S -> T] /\ \A t \in T : \E x \in S : h[x] = t
    OBVIOUS
  <1>2. h \in Surjection(S, T)
    BY <1>1 DEF Surjection
  <1> QED BY <1>2, FS_Surjection

LEMMA CountsAreFinite ==
    ASSUME TypeOK, NEW l, NEW r
    PROVE  IsFiniteSet(EntriesOf(l, r)) /\ IsFiniteSet(CandidatesOf(l, r))
  <1>1. read \in Nat
    BY DEF TypeOK
  <1>2. IsFiniteSet(EntriesOf(l, r))
    <2>1. IsFiniteSet(1 .. read)
      BY <1>1, FS_Interval
    <2> QED BY <2>1, FS_Subset DEF EntriesOf
  <1>3. IsFiniteSet({initcalls[k][2] : k \in EntriesOf(l, r)})
    <2> DEFINE E == EntriesOf(l, r)
               g == [k \in E |-> initcalls[k][2]]
    <2>1. {initcalls[k][2] : k \in E} = {g[k] : k \in E}
      OBVIOUS
    <2> HIDE DEF E
    <2>2. DOMAIN g = E
      OBVIOUS
    <2> HIDE DEF g
    <2>3. IsFiniteSet({g[k] : k \in E})
      BY <1>2, <2>2, FiniteImage DEF E
    <2> QED BY <2>1, <2>3 DEF E
  <1>4. IsFiniteSet({InitSection[k] : k \in DOMAIN InitSection})
    <2>1. DOMAIN InitSection = 1 .. Len(InitSection) /\ Len(InitSection) \in Nat
      BY InitcallAssumption
    <2>2. IsFiniteSet(DOMAIN InitSection)
      BY <2>1, FS_Interval
    <2> QED BY <2>2, FiniteImage
  <1>5. IsFiniteSet({f \in {InitSection[k] : k \in DOMAIN InitSection} : RealName[f] = r})
    BY <1>4, FS_Subset
  <1> QED BY <1>2, <1>3, <1>5, FS_Union DEF CandidatesOf

LEMMA InitCount == Init => CountInv
  <1> SUFFICES ASSUME Init, NEW l \in Levels, NEW r \in RealNames
               PROVE  /\ Known(l, r) \subseteq CandidatesOf(l, r)
                      /\ \A k \in EntriesOf(l, r) : initcalls[k][2] \in Known(l, r)
                      /\ Cardinality(Known(l, r)) =
                            Smaller(Cardinality(EntriesOf(l, r)), Cardinality(CandidatesOf(l, r)))
    BY DEF CountInv
  <1>1. Known(l, r) = {} /\ EntriesOf(l, r) = {}
    BY DEF Init, Known, EntriesOf
  <1>2. Cardinality(CandidatesOf(l, r)) \in Nat
    BY InitType, CountsAreFinite, FS_CardinalityType
  <1> QED BY <1>1, <1>2, FS_EmptySet DEF Smaller

\* The names of a level other than that of an entry are not touched.
LEMMA OthersKept ==
    ASSUME NEW level \in Levels, NEW f \in Functions,
           TypeOK, read < Len(initcalls), read' = read + 1, initcalls' = initcalls,
           initcalls[read + 1][1] = level, initcalls[read + 1][2] = f,
           module_init_function' = [module_init_function EXCEPT
                       ![level] = @ \cup Added(f, module_init_function[level])]
    PROVE  \A l \in Levels, r \in RealNames :
              l # level \/ r # RealName[f] => /\ Known(l, r)' = Known(l, r)
                                              /\ EntriesOf(l, r)' = EntriesOf(l, r)
                                              /\ CandidatesOf(l, r)' = CandidatesOf(l, r)
  <1> SUFFICES ASSUME NEW l \in Levels, NEW r \in RealNames, l # level \/ r # RealName[f]
               PROVE  /\ Known(l, r)' = Known(l, r)
                      /\ EntriesOf(l, r)' = EntriesOf(l, r)
                      /\ CandidatesOf(l, r)' = CandidatesOf(l, r)
    OBVIOUS
  <1>1. \A g \in Added(f, module_init_function[level]) : RealName[g] = RealName[f]
    BY DEF Added
  <1>2. Known(l, r)' = Known(l, r)
    BY <1>1 DEF Known, TypeOK
  <1>3. EntriesOf(l, r)' = EntriesOf(l, r)
    <2>1. \A k : k \in 1 .. read + 1 <=> k \in 1 .. read \/ k = read + 1
      BY DEF TypeOK
    <2> QED BY <2>1 DEF EntriesOf
  <1>4. CandidatesOf(l, r)' = CandidatesOf(l, r)
    BY <1>3 DEF CandidatesOf
  <1> QED BY <1>2, <1>3, <1>4

\* What an entry changes about the functions of its level and name.
LEMMA EntryCounts ==
    ASSUME NEW level \in Levels, NEW f \in Functions, f # NoFunction,
           TypeOK, CountInv, read < Len(initcalls), read' = read + 1, initcalls' = initcalls,
           initcalls[read + 1][1] = level, initcalls[read + 1][2] = f,
           module_init_function' = [module_init_function EXCEPT
                       ![level] = @ \cup Added(f, module_init_function[level])]
    PROVE  LET r == RealName[f]
           IN  /\ Known(level, r)' \subseteq CandidatesOf(level, r)'
               /\ \A k \in EntriesOf(level, r)' : initcalls'[k][2] \in Known(level, r)'
               /\ Cardinality(Known(level, r)') =
                     Smaller(Cardinality(EntriesOf(level, r)'), Cardinality(CandidatesOf(level, r)'))
  <1> DEFINE r == RealName[f]
             K == Known(level, r)
             E == EntriesOf(level, r)
             C == CandidatesOf(level, r)
             new == Added(f, module_init_function[level])
             named == {g \in {InitSection[k] : k \in DOMAIN InitSection} : RealName[g] = r}
  <1>1. r \in RealNames
    BY InitcallAssumption
  <1>2. /\ K \subseteq C
        /\ \A k \in E : initcalls[k][2] \in K
        /\ Cardinality(K) = Smaller(Cardinality(E), Cardinality(C))
    BY <1>1 DEF CountInv
  <1>3. IsFiniteSet(E) /\ IsFiniteSet(C) /\ IsFiniteSet(K)
    <2>1. IsFiniteSet(E) /\ IsFiniteSet(C)
      BY CountsAreFinite
    <2> HIDE DEF K, E, C
    <2> QED BY <1>2, <2>1, FS_Subset
  <1>4. Cardinality(E) \in Nat /\ Cardinality(C) \in Nat /\ Cardinality(K) \in Nat
    BY <1>3, FS_CardinalityType
  <1>5. EntriesOf(level, r)' = E \cup {read + 1} /\ read + 1 \notin E
    <2>1. \A k : k \in 1 .. read + 1 <=> k \in 1 .. read \/ k = read + 1
      BY DEF TypeOK
    <2>2. read + 1 \notin 1 .. read
      BY DEF TypeOK
    <2> QED BY <2>1, <2>2 DEF EntriesOf, IsFunction
  <1>6. Cardinality(E \cup {read + 1}) = Cardinality(E) + 1
    <2> HIDE DEF E
    <2> QED BY <1>3, <1>5, FS_AddElement
  <1>7. C = {initcalls[k][2] : k \in E} \cup named
    BY DEF CandidatesOf
  <1>8. CandidatesOf(level, r)' = C \cup {f}
    <2>1. CandidatesOf(level, r)' = {initcalls'[k][2] : k \in EntriesOf(level, r)'} \cup named
      BY DEF CandidatesOf
    <2> HIDE DEF E, C, named
    <2>2. {initcalls'[k][2] : k \in E \cup {read + 1}} = {initcalls[k][2] : k \in E} \cup {f}
      OBVIOUS
    <2> QED BY <1>5, <1>7, <2>1, <2>2
  <1>9. Known(level, r)' = K \cup new
    <2>1. \A g \in new : RealName[g] = r
      BY DEF Added
    <2> QED BY <2>1 DEF Known, TypeOK
  <1>10. f \in module_init_function[level] <=> f \in K
    BY DEF Known
  <1>11. /\ Known(level, r)' \subseteq C \cup {f}
         /\ f \in Known(level, r)'
         /\ Cardinality(Known(level, r)') = Smaller(Cardinality(E) + 1, Cardinality(C \cup {f}))
    <2>1. CASE f \notin K
      <3>1. new = {f}
        BY <1>10, <2>1 DEF Added
      <3>2. Cardinality(K \cup {f}) = Cardinality(K) + 1
        <4> HIDE DEF K
        <4> QED BY <1>3, <2>1, FS_AddElement
      <3>3. CASE f \in C
        <4>1. C \cup {f} = C
          BY <3>3
        <4>2. Cardinality(K) < Cardinality(C)
          <5> HIDE DEF K, C
          <5>1. K # C /\ K \in SUBSET C
            BY <1>2, <2>1, <3>3
          <5>2. Cardinality(K) <= Cardinality(C) /\ Cardinality(K) # Cardinality(C)
            BY <1>3, <5>1, FS_Subset
          <5> QED BY <1>4, <5>2
        <4> HIDE DEF K, E, C, new
        <4>3. Cardinality(K) + 1 = Smaller(Cardinality(E) + 1, Cardinality(C))
          BY <1>2, <1>4, <4>2 DEF Smaller
        <4> QED BY <1>2, <1>9, <3>1, <3>2, <3>3, <4>1, <4>3
      <3>4. CASE f \notin C
        <4> HIDE DEF K, E, C, new
        <4>1. Cardinality(C \cup {f}) = Cardinality(C) + 1
          BY <1>3, <3>4, FS_AddElement
        <4>2. Cardinality(K) + 1 = Smaller(Cardinality(E) + 1, Cardinality(C) + 1)
          BY <1>2, <1>4 DEF Smaller
        <4> QED BY <1>2, <1>9, <3>1, <3>2, <4>1, <4>2
      <3> QED BY <3>3, <3>4
    <2>2. CASE f \in K
      <3>1. C \cup {f} = C
        BY <1>2, <2>2
      <3> DEFINE unknown == {k \in DOMAIN InitSection : /\ RealName[InitSection[k]] = r
                                /\ InitSection[k] \notin module_init_function[level]}
      <3>2. new = {InitSection[k] : k \in {j \in unknown : \A i \in unknown : j <= i}}
        BY <1>10, <2>2 DEF Added
      <3>3. CASE unknown # {}
        <4>1. \E k \in unknown : \A i \in unknown : k <= i
          <5>1. unknown \subseteq Nat
            BY InitcallAssumption
          <5> HIDE DEF unknown
          <5> QED BY <3>3, <5>1, LeastNumber
        <4>2. PICK k \in unknown : \A i \in unknown : k <= i
          BY <4>1
        <4>3. \A j \in unknown : (\A i \in unknown : j <= i) => j = k
          <5>1. unknown \subseteq Nat
            BY InitcallAssumption
          <5> HIDE DEF unknown
          <5> QED BY <4>2, <5>1
        <4> DEFINE g == InitSection[k]
        <4>4. new = {g}
          <5> HIDE DEF unknown
          <5> QED BY <3>2, <4>2, <4>3
        <4>5. g \notin K /\ g \in named
          BY DEF Known
        <4>6. g \in C
          BY <1>7, <4>5
        <4> HIDE DEF K, E, C, new, g
        <4>7. Cardinality(K \cup {g}) = Cardinality(K) + 1
          BY <1>3, <4>5, FS_AddElement
        <4>8. Cardinality(K) < Cardinality(C)
          <5>1. K # C /\ K \in SUBSET C
            BY <1>2, <4>5, <4>6
          <5>2. Cardinality(K) <= Cardinality(C) /\ Cardinality(K) # Cardinality(C)
            BY <1>3, <5>1, FS_Subset
          <5> QED BY <1>4, <5>2
        <4>9. Cardinality(K) + 1 = Smaller(Cardinality(E) + 1, Cardinality(C))
          BY <1>2, <1>4, <4>8 DEF Smaller
        <4> QED BY <1>2, <1>9, <2>2, <3>1, <4>4, <4>6, <4>7, <4>9
      <3>4. CASE unknown = {}
        <4>1. new = {}
          BY <3>2, <3>4
        <4>2. \A g \in named : g \in K
          <5> TAKE g \in named
          <5>1. PICK k \in DOMAIN InitSection : g = InitSection[k]
            OBVIOUS
          <5>2. RealName[g] = r /\ k \notin unknown
            BY <3>4
          <5>3. g \in module_init_function[level]
            BY <5>1, <5>2
          <5> QED BY <5>2, <5>3 DEF Known
        <4> HIDE DEF K, E, C, new, named
        <4>3. C = K
          BY <1>2, <1>7, <4>2
        <4>4. Cardinality(K) = Smaller(Cardinality(E) + 1, Cardinality(C))
          BY <1>2, <1>4, <4>3 DEF Smaller
        <4> QED BY <1>2, <1>9, <2>2, <3>1, <4>1, <4>4
      <3> QED BY <3>3, <3>4
    <2> QED BY <2>1, <2>2
  <1>12. \A k \in EntriesOf(level, r)' : initcalls'[k][2] \in Known(level, r)'
    <2> HIDE DEF K, E, new
    <2> QED BY <1>2, <1>5, <1>9, <1>11
  <1> QED BY <1>5, <1>6, <1>8, <1>11, <1>12

LEMMA NextCount == TypeOK /\ CountInv /\ [Next]_vars => CountInv'
  <1> SUFFICES ASSUME TypeOK, CountInv, [Next]_vars PROVE CountInv'
    OBVIOUS
  <1>1. CASE FindModuleInitFunction
    <2> DEFINE level == initcalls[read + 1][1]
               f == initcalls[read + 1][2]
    <2>1. /\ read < Len(initcalls) /\ read' = read + 1 /\ initcalls' = initcalls
          /\ module_init_function' =
              IF IsFunction(f)
              THEN [module_init_function EXCEPT
                       ![level] = @ \cup Added(f, module_init_function[level])]
              ELSE module_init_function
      BY <1>1 DEF FindModuleInitFunction
    <2>2. level \in Levels /\ f \in Functions \cup {NoFunction}
      BY <2>1, EntryType
    <2>3. CASE f = NoFunction
      <3>1. module_init_function' = module_init_function
        BY <2>1, <2>3 DEF IsFunction
      <3>2. \A l, r : EntriesOf(l, r)' = EntriesOf(l, r)
        <4>1. \A k : k \in 1 .. read + 1 <=> k \in 1 .. read \/ k = read + 1
          BY DEF TypeOK
        <4> QED BY <2>1, <2>3, <4>1 DEF EntriesOf, IsFunction
      <3>3. \A l, r : CandidatesOf(l, r)' = CandidatesOf(l, r)
        BY <2>1, <3>2 DEF CandidatesOf
      <3>4. \A l, r : Known(l, r)' = Known(l, r)
        BY <3>1 DEF Known
      <3> QED BY <2>1, <3>2, <3>3, <3>4 DEF CountInv
    <2>4. CASE f # NoFunction
      <3>1. f \in Functions
        BY <2>2, <2>4
      <3>2. module_init_function' = [module_init_function EXCEPT
                       ![level] = @ \cup Added(f, module_init_function[level])]
        BY <2>1, <2>4 DEF IsFunction
      <3> HIDE DEF level, f
      <3>3. initcalls[read + 1][1] = level /\ initcalls[read + 1][2] = f
        BY DEF level, f
      <3>4. \A l \in Levels, r \in RealNames :
               l # level \/ r # RealName[f] => /\ Known(l, r)' = Known(l, r)
                                               /\ EntriesOf(l, r)' = EntriesOf(l, r)
                                               /\ CandidatesOf(l, r)' = CandidatesOf(l, r)
        BY <2>1, <2>2, <3>1, <3>2, <3>3, OthersKept
      <3>5. ASSUME NEW l \in Levels, NEW r \in RealNames
            PROVE  /\ Known(l, r)' \subseteq CandidatesOf(l, r)'
                   /\ \A k \in EntriesOf(l, r)' : initcalls'[k][2] \in Known(l, r)'
                   /\ Cardinality(Known(l, r)') =
                         Smaller(Cardinality(EntriesOf(l, r)'), Cardinality(CandidatesOf(l, r)'))
        <4>1. CASE l # level \/ r # RealName[f]
          <5>1. l # level \/ r # RealName[f] => /\ Known(l, r)' = Known(l, r)
                                                /\ EntriesOf(l, r)' = EntriesOf(l, r)
                                                /\ CandidatesOf(l, r)' = CandidatesOf(l, r)
            BY <3>4
          <5> QED BY <2>1, <4>1, <5>1 DEF CountInv
        <4>2. CASE l = level /\ r = RealName[f]
          BY <2>1, <2>2, <2>4, <3>1, <3>2, <3>3, <4>2, EntryCounts
        <4> QED BY <4>1, <4>2
      <3> QED BY <3>5 DEF CountInv
    <2> QED BY <2>3, <2>4
  <1>2. CASE UNCHANGED <<initcalls, read, module_init_function>>
    <2>1. \A l, r : /\ EntriesOf(l, r)' = EntriesOf(l, r)
                    /\ CandidatesOf(l, r)' = CandidatesOf(l, r)
                    /\ Known(l, r)' = Known(l, r)
      BY <1>2 DEF EntriesOf, CandidatesOf, Known
    <2> QED BY <1>2, <2>1 DEF CountInv
  <1>3. Next => FindModuleInitFunction \/ UNCHANGED <<initcalls, read, module_init_function>>
    BY DEF Next, Check, ResolveIndirect, RemoveInitFromIndirect, NextPhase
  <1> QED BY <1>1, <1>2, <1>3 DEF vars

(***************************************************************************)
(* A level with n entries of a name registers n functions of that real     *)
(* name, as far as there are so many, for every list of entries and every  *)
(* order of the init section.                                              *)
(***************************************************************************)
THEOREM FindsDuplicates == Spec => []DuplicatesAreFound
  <1>1. CountInv => DuplicatesAreFound
    BY DEF CountInv, Known, Smaller, DuplicatesAreFound
  <1> QED BY <1>1, InitType, NextType, InitCount, NextCount, PTL DEF Spec
=============================================================================
