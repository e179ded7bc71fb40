------------------------ MODULE IoctlCmdTypeProofs ------------------------
(***************************************************************************)
(* Proofs about module IoctlCmdType, for every handler and every order of  *)
(* its blocks: its type invariant, that every copy is recorded for a       *)
(* command that has been found (the pointer that no constructor sets is    *)
(* never used), that nothing is recorded that the code of the handler does *)
(* not lead to, and that nothing is missed that is sure to be found, unless*)
(* the count of callees turns a callee away.                               *)
(***************************************************************************)
EXTENDS IoctlCmdType, FiniteSetTheorems, SequenceTheorems, NaturalsInduction,
        WellFoundedInduction, TLAPS

(***************************************************************************)
(* Facts about numbers.                                                    *)
(***************************************************************************)

\* A set of numbers has a least one.
LEMMA LeastOf ==
    ASSUME NEW S, S \subseteq Nat, S # {}
    PROVE  \E n \in S : \A m \in S : n <= m
  <1> DEFINE R == OpToRel(<, Nat)
  <1>1. IsWellFoundedOn(R, Nat)
    BY NatLessThanWellFounded
  <1>2. \A y, x \in Nat : y < x => <<y, x>> \in R
    BY DEF OpToRel
  <1> HIDE DEF R
  <1>3. PICK n \in S : \A m \in S : ~ (<<m, n>> \in R)
    BY <1>1, WFMin
  <1>4. ASSUME NEW m \in S PROVE n <= m
    <2>1. m \in Nat /\ n \in Nat
      OBVIOUS
    <2>2. ~ m < n
      BY <1>2, <1>3, <2>1
    <2>3. QED
      BY <2>1, <2>2
  <1>5. QED
    BY <1>4

\* r[n] is what there is after what F gives has been added n times to S.
Iterates(r, C, S, F, N) ==
    /\ r \in [0 .. N -> SUBSET C]
    /\ r[0] = S
    /\ \A n \in 1 .. N : r[n] = r[n - 1] \cup F[r[n - 1]]

\* Adding n times what a function gives has an outcome.
LEMMA IterationExists ==
    ASSUME NEW C, NEW S \in SUBSET C, NEW F \in [SUBSET C -> SUBSET C], NEW N \in Nat
    PROVE  \E r : Iterates(r, C, S, F, N)
  <1> DEFINE Solves(r, k) == Iterates(r, C, S, F, k)
             Bad == {k \in Nat : ~ \E r : Solves(r, k)}
  <1>1. SUFFICES ASSUME Bad # {} PROVE FALSE
    <2>1. Bad = {} => \E r : Solves(r, N)
      <3> HIDE DEF Solves
      <3>1. QED
        OBVIOUS
    <2>2. QED
      BY <2>1
  <1> HIDE DEF Solves
  <1>2. PICK k \in Bad : \A m \in Bad : k <= m
    BY <1>1, LeastOf
  <1>3. k \in Nat /\ ~ \E r : Solves(r, k)
    OBVIOUS
  <1>4. CASE k = 0
    <2> DEFINE r == [n \in 0 .. 0 |-> S]
    <2>1. Solves(r, 0)
      BY DEF Solves, Iterates
    <2>2. QED
      BY <1>3, <1>4, <2>1
  <1>5. CASE k # 0
    <2>1. k - 1 \in Nat /\ k - 1 \notin Bad
      BY <1>2, <1>3, <1>5
    <2>2. PICK q : Solves(q, k - 1)
      BY <2>1
    <2> DEFINE r == [n \in 0 .. k |-> IF n = k THEN q[k - 1] \cup F[q[k - 1]] ELSE q[n]]
    <2>3. /\ \A n \in 0 .. k : n # k => n \in 0 .. k - 1
          /\ \A n \in 1 .. k : n - 1 \in 0 .. k /\ n - 1 # k /\ (n # k => n \in 1 .. k - 1)
          /\ 0 \in 0 .. k /\ k \in 0 .. k /\ k - 1 \in 0 .. k - 1
      BY <1>3, <1>5
    <2>4. q \in [0 .. k - 1 -> SUBSET C] /\ q[0] = S
          /\ \A n \in 1 .. k - 1 : q[n] = q[n - 1] \cup F[q[n - 1]]
      BY <2>2 DEF Solves, Iterates
    <2>5. r \in [0 .. k -> SUBSET C]
      <3>1. q[k - 1] \cup F[q[k - 1]] \in SUBSET C
        BY <2>3, <2>4
      <3>2. QED
        BY <2>3, <2>4, <3>1
    <2>6. r[0] = S
      BY <1>5, <2>3, <2>4
    <2>7. ASSUME NEW n \in 1 .. k PROVE r[n] = r[n - 1] \cup F[r[n - 1]]
      <3>1. n \in 0 .. k /\ n - 1 \in 0 .. k /\ n - 1 # k
        BY <1>3, <2>3
      <3>2. r[n - 1] = q[n - 1]
        BY <3>1
      <3>3. CASE n = k
        BY <3>1, <3>2, <3>3
      <3>4. CASE n # k
        BY <2>3, <2>4, <3>1, <3>2, <3>4
      <3>5. QED
        BY <3>3, <3>4
    <2> HIDE DEF r
    <2>8. Solves(r, k)
      BY <2>5, <2>6, <2>7 DEF Solves, Iterates
    <2>9. QED
      BY <1>3, <2>8
  <1>6. QED
    BY <1>4, <1>5

\* What only grows is within its last value.
LEMMA Growing ==
    ASSUME NEW N \in Nat, NEW r, \A n \in 1 .. N : r[n - 1] \subseteq r[n]
    PROVE  \A n \in 0 .. N : r[n] \subseteq r[N]
  <1> DEFINE Bad == {k \in 0 .. N : ~ r[N - k] \subseteq r[N]}
  <1>1. SUFFICES ASSUME Bad # {} PROVE FALSE
    <2>1. ASSUME NEW n \in 0 .. N PROVE r[n] \subseteq r[N]
      <3>1. N - n \in 0 .. N /\ N - (N - n) = n
        OBVIOUS
      <3>2. N - n \notin Bad
        BY <1>1
      <3>3. QED
        BY <3>1, <3>2
    <2>2. QED
      BY <2>1
  <1>2. Bad \subseteq Nat
    OBVIOUS
  <1>3. PICK k \in Bad : \A m \in Bad : k <= m
    <2> HIDE DEF Bad
    <2>1. QED
      BY <1>1, <1>2, LeastOf
  <1>4. k \in 0 .. N /\ ~ r[N - k] \subseteq r[N]
    OBVIOUS
  <1>5. k # 0
    BY <1>4
  <1>6. k - 1 \in 0 .. N /\ k - 1 \notin Bad
    BY <1>3, <1>4, <1>5
  <1>7. r[N - (k - 1)] \subseteq r[N]
    BY <1>6
  <1>8. N - (k - 1) \in 1 .. N /\ (N - (k - 1)) - 1 = N - k
    BY <1>4, <1>5
  <1>9. QED
    BY <1>4, <1>7, <1>8

\* What starts within a set and never leaves it stays there.
LEMMA Staying ==
    ASSUME NEW N \in Nat, NEW r, NEW C, r[0] \subseteq C,
           \A n \in 1 .. N : r[n - 1] \subseteq C => r[n] \subseteq C
    PROVE  \A n \in 0 .. N : r[n] \subseteq C
  <1> DEFINE Bad == {n \in 0 .. N : ~ r[n] \subseteq C}
  <1>1. SUFFICES ASSUME Bad # {} PROVE FALSE
    OBVIOUS
  <1>2. Bad \subseteq Nat
    OBVIOUS
  <1>3. PICK k \in Bad : \A m \in Bad : k <= m
    <2> HIDE DEF Bad
    <2>1. QED
      BY <1>1, <1>2, LeastOf
  <1>4. k \in 1 .. N /\ ~ r[k] \subseteq C
    OBVIOUS
  <1>5. k - 1 \in 0 .. N /\ k - 1 \notin Bad
    BY <1>3, <1>4
  <1>6. QED
    BY <1>4, <1>5

(***************************************************************************)
(* Facts about the operators of the walk.                                  *)
(***************************************************************************)

\* The contexts objects may have.
Opened == {c \in [fn : Functions, calls : Seq(Insts), cmd_inst : SUBSET Values,
                  type_inst : SUBSET Values] : c.fn \notin Declared}

\* Instructions are numbers.
LEMMA InstsAreNumbers == Insts \subseteq Nat
  <1>1. Cardinality(Insts) \in Nat
    BY CodeAssumption, FS_CardinalityType
  <1>2. QED
    BY <1>1, CodeAssumption

\* The first instruction of a set is in it.
LEMMA LeastIn == ASSUME NEW S \in SUBSET Insts, S # {} PROVE Least(S) \in S
  <1>1. \E x \in S : \A y \in S : x <= y
    BY LeastOf, InstsAreNumbers
  <1>2. QED
    BY <1>1 DEF Least

\* The first block of a set is in it.
LEMMA FirstIn ==
    ASSUME block_order \in BlockOrders, NEW S \in SUBSET Blocks, S # {}
    PROVE  First(S) \in S
  <1> DEFINE ranks == {block_order[b] : b \in S}
  <1>1. block_order \in [Blocks -> Nat]
    BY CodeAssumption
  <1>2. ranks \subseteq Nat /\ ranks # {}
    BY <1>1
  <1>3. PICK n \in ranks : \A m \in ranks : n <= m
    <2> HIDE DEF ranks
    <2>1. QED
      BY <1>2, LeastOf
  <1>4. \E b \in S : \A x \in S : block_order[b] <= block_order[x]
    BY <1>3
  <1>5. QED
    BY <1>4 DEF First

LEMMA TargetsType == ASSUME NEW i \in Insts PROVE Targets(i) \subseteq Functions
  BY CodeAssumption DEF Targets

\* What depends on values are values.
LEMMA AffectedType ==
    ASSUME NEW f, NEW seed \in SUBSET Values
    PROVE  Affected(f, seed) \in SUBSET Values
  <1>1. ASSUME NEW i \in Insts PROVE {i} \cup StoredTo[i] \subseteq Values
    <2>1. StoredTo[i] \subseteq UNION {StoredTo[j] : j \in Insts}
      OBVIOUS
    <2>2. StoredTo[i] \subseteq Values
      BY <2>1 DEF Values
    <2>3. QED
      BY <2>2 DEF Values
  <1>2. QED
    BY <1>1 DEF Affected

LEMMA ContextType ==
    ASSUME NEW f \in Functions \ Declared, NEW calls \in Seq(Insts), NEW cmds, NEW types
    PROVE  Context(f, calls, cmds, types) \in Opened
  <1> DEFINE seed(S) == {Params[f][n] : n \in DOMAIN Params[f] \cap S}
  <1>1. ASSUME NEW S PROVE seed(S) \in SUBSET Values
    <2>1. \A n \in DOMAIN Params[f] : Params[f][n] \in Range(Params[f])
      BY DEF Range
    <2>2. Range(Params[f]) \subseteq UNION {Range(Params[g]) : g \in Functions \ Declared}
      OBVIOUS
    <2>3. QED
      BY <2>1, <2>2 DEF Values
  <1> HIDE DEF seed
  <1>2. Affected(f, seed(cmds)) \in SUBSET Values /\ Affected(f, seed(types)) \in SUBSET Values
    BY <1>1, AffectedType
  <1>3. Context(f, calls, cmds, types) =
           [fn |-> f, calls |-> calls, cmd_inst |-> Affected(f, seed(cmds)),
            type_inst |-> Affected(f, seed(types))]
    BY DEF Context, seed
  <1>4. QED
    BY <1>2, <1>3 DEF Opened

LEMMA RootType == Root \in Opened /\ Root.calls = <<>>
  <1>1. Handler \in Functions \ Declared /\ <<>> \in Seq(Insts)
    BY CodeAssumption
  <1>2. Root \in Opened
    BY <1>1, ContextType DEF Root
  <1>3. QED
    BY <1>2 DEF Root, Context

LEMMA CalleeType ==
    ASSUME NEW c \in Opened, NEW i \in Insts, NEW f \in Functions \ Declared
    PROVE  /\ Callee(c, i, f) \in Opened
           /\ Callee(c, i, f).fn = f
           /\ Callee(c, i, f).calls = Append(c.calls, i)
           /\ Len(Callee(c, i, f).calls) = Len(c.calls) + 1
  <1>1. c.calls \in Seq(Insts)
    BY DEF Opened
  <1>2. Append(c.calls, i) \in Seq(Insts) /\ Len(Append(c.calls, i)) = Len(c.calls) + 1
    BY <1>1
  <1>3. Callee(c, i, f) \in Opened
    BY <1>2, ContextType DEF Callee
  <1>4. Callee(c, i, f).fn = f /\ Callee(c, i, f).calls = Append(c.calls, i)
    BY DEF Callee, Context
  <1>5. QED
    BY <1>2, <1>3, <1>4

\* Callees are contexts.
LEMMA CalleesAtType ==
    ASSUME NEW c \in Opened, NEW b, NEW ignored, Declared \subseteq ignored
    PROVE  CalleesAt(c, b, ignored) \subseteq Opened
  <1> SUFFICES ASSUME NEW d \in CalleesAt(c, b, ignored) PROVE d \in Opened
    OBVIOUS
  <1>1. PICK i \in CallsIn(b) : \E f \in Targets(i) \ ignored : d = Callee(c, i, f)
    BY DEF CalleesAt
  <1> PICK f \in Targets(i) \ ignored : d = Callee(c, i, f)
    BY <1>1
  <1>2. i \in Insts
    BY DEF CallsIn, InstsIn
  <1>3. f \in Functions \ Declared
    BY <1>2, TargetsType
  <1>4. QED
    BY <1>1, <1>2, <1>3, CalleeType

\* The way to a callee: it is one of those at the block of the call.
LEMMA CalleeIsAt ==
    ASSUME NEW c, NEW i \in Insts, Kind[i] = "call", Follows(c, i),
           NEW ignored, NEW f \in Targets(i), f \notin ignored
    PROVE  Callee(c, i, f) \in CalleesAt(c, BlockOf[i], ignored)
  <1>1. i \in {j \in CallsIn(BlockOf[i]) : Follows(c, j)}
    BY DEF CallsIn, InstsIn
  <1>2. Callee(c, i, f) \in {Callee(c, i, g) : g \in Targets(i) \ ignored}
    OBVIOUS
  <1>3. QED
    BY <1>1, <1>2 DEF CalleesAt

\* Blocks that no edge leaves hold what is reached from one of them.
LEMMA ReachedWithin ==
    ASSUME NEW here, here \subseteq Blocks, NEW b \in here,
           \A x \in here : \A k \in DOMAIN Succs[x] : Succs[x][k] \in here
    PROVE  ReachedFrom(b, {}) \subseteq here
  <1> DEFINE more(x) == {Succs[x][k] : k \in DOMAIN Succs[x]} \ {}
             F == [X \in SUBSET here |-> UNION {more(x) : x \in X}]
             N == Cardinality(Blocks)
             Equation(r) == r = [n \in 0 .. N |-> IF n = 0 THEN {b} \ {}
                                                  ELSE r[n - 1] \cup UNION {more(x) : x \in r[n - 1]}]
  <1>1. N \in Nat
    BY CodeAssumption, FS_CardinalityType
  <1>2. \A x \in here : more(x) \subseteq here
    OBVIOUS
  <1>3. F \in [SUBSET here -> SUBSET here] /\ {b} \in SUBSET here
    <2> HIDE DEF more
    <2>1. ASSUME NEW X \in SUBSET here PROVE UNION {more(x) : x \in X} \in SUBSET here
      BY <1>2
    <2>2. {b} \in SUBSET here
      OBVIOUS
    <2>3. QED
      BY <2>1, <2>2
  <1>4. PICK r : Iterates(r, here, {b}, F, N)
    <2> HIDE DEF F, N
    <2>1. QED
      BY <1>1, <1>3, IterationExists
  <1> HIDE DEF more
  <1>5. Equation(r)
    <2>1. \A n \in 0 .. N : n # 0 => n \in 1 .. N /\ n - 1 \in 0 .. N
      BY <1>1
    <2>2. \A n \in 0 .. N : n # 0 => F[r[n - 1]] = UNION {more(x) : x \in r[n - 1]}
      BY <1>4, <2>1 DEF Iterates
    <2>3. QED
      BY <1>4, <2>1, <2>2 DEF Iterates
  <1>6. Equation(CHOOSE q : Equation(q))
    BY <1>5
  <1> DEFINE q == CHOOSE q : Equation(q)
  <1>7. ReachedFrom(b, {}) = q[N]
    BY DEF ReachedFrom, more
  <1>8. Equation(q)
    BY <1>6
  <1> HIDE DEF q
  <1>9. \A n \in 0 .. N : q[n] \subseteq here
    <2>1. q[0] \subseteq here
      BY <1>1, <1>3, <1>8
    <2>2. \A n \in 1 .. N : q[n - 1] \subseteq here => q[n] \subseteq here
      <3> TAKE n \in 1 .. N
      <3> HAVE q[n - 1] \subseteq here
      <3>1. n \in 0 .. N /\ n # 0
        BY <1>1
      <3>2. q[n] = q[n - 1] \cup UNION {more(x) : x \in q[n - 1]}
        BY <1>8, <3>1
      <3>3. QED
        BY <1>2, <3>2
    <2> HIDE DEF N, Equation
    <2>3. QED
      BY <1>1, <2>1, <2>2, Staying
  <1>10. QED
    BY <1>1, <1>7, <1>9

\* What is taken to be reached from a block are blocks of its function.
LEMMA ReachableType == ASSUME NEW b \in Blocks PROVE Reachable[b] \subseteq BlocksOf(FunctionOf[b])
  <1> DEFINE here == BlocksOf(FunctionOf[b])
  <1>1. here \subseteq Blocks /\ b \in here
    BY DEF BlocksOf
  <1>2. \A x \in here : \A k \in DOMAIN Succs[x] : Succs[x][k] \in here
    BY CodeAssumption, ElementOfSeq DEF BlocksOf
  <1> HIDE DEF here
  <1>3. ReachedFrom(b, {}) \subseteq here
    BY <1>1, <1>2, ReachedWithin
  <1>4. QED
    BY <1>3 DEF Reachable, here

\* It includes all that is reached, also where LLVM's search gives up.
LEMMA ReachableIsEnough ==
    ASSUME NEW b \in Blocks, b # EntryBlock[FunctionOf[b]]
    PROVE  ReachedFrom(b, {}) \subseteq Reachable[b]
  <1> DEFINE here == BlocksOf(FunctionOf[b]) \ {EntryBlock[FunctionOf[b]]}
  <1>1. here \subseteq Blocks /\ b \in here
    BY DEF BlocksOf
  <1>2. \A x \in here : \A k \in DOMAIN Succs[x] : Succs[x][k] \in here
    BY CodeAssumption, ElementOfSeq DEF BlocksOf
  <1> HIDE DEF here
  <1>3. ReachedFrom(b, {}) \subseteq here
    BY <1>1, <1>2, ReachedWithin
  <1>4. QED
    BY <1>3 DEF Reachable, here

(***************************************************************************)
(* Facts about the contexts and ways that calls lead to.                   *)
(***************************************************************************)

LEMMA DepthIsNat == MAX_FUNC_DEPTH + 1 \in Nat
  BY CodeAssumption

\* The contexts that are n calls deep at most.
LEMMA ContextsEquation ==
    LET W == ContextsWithin(AllBlocks)
        N == MAX_FUNC_DEPTH + 1
    IN  /\ W[0] = {Root}
        /\ \A n \in 1 .. N :
              W[n] = W[n - 1] \cup UNION {UNION {CalleesAt(c, b, Declared) : b \in AllBlocks(c)} :
                                             c \in W[n - 1]}
        /\ \A n \in 0 .. N : W[n] \subseteq Opened
  <1> DEFINE N == MAX_FUNC_DEPTH + 1
             more(X) == UNION {UNION {CalleesAt(c, b, Declared) : b \in AllBlocks(c)} : c \in X}
             F == [X \in SUBSET Opened |-> more(X)]
             Equation(r) == r = [n \in 0 .. N |-> IF n = 0 THEN {Root}
                                                  ELSE r[n - 1] \cup more(r[n - 1])]
  <1>1. N \in Nat
    BY DepthIsNat
  <1>2. \A X \in SUBSET Opened : more(X) \in SUBSET Opened
    BY CalleesAtType
  <1>3. F \in [SUBSET Opened -> SUBSET Opened] /\ {Root} \in SUBSET Opened
    <2> HIDE DEF more
    <2>1. QED
      BY <1>2, RootType
  <1>4. PICK r : Iterates(r, Opened, {Root}, F, N)
    <2> HIDE DEF F, N
    <2>1. QED
      BY <1>1, <1>3, IterationExists
  <1> HIDE DEF more
  <1>5. Equation(r)
    <2>1. \A n \in 0 .. N : n # 0 => n \in 1 .. N /\ n - 1 \in 0 .. N
      BY <1>1
    <2>2. \A n \in 0 .. N : n # 0 => F[r[n - 1]] = more(r[n - 1])
      BY <1>4, <2>1 DEF Iterates
    <2>3. QED
      BY <1>4, <2>1, <2>2 DEF Iterates
  <1> DEFINE q == CHOOSE q : Equation(q)
  <1>6. Equation(q)
    BY <1>5
  <1>7. ContextsWithin(AllBlocks) = q
    BY DEF ContextsWithin, more
  <1> HIDE DEF q
  <1>8. q[0] = {Root}
    BY <1>1, <1>6
  <1>9. \A n \in 1 .. N : q[n] = q[n - 1] \cup more(q[n - 1])
    <2> TAKE n \in 1 .. N
    <2>1. n \in 0 .. N /\ n # 0
      BY <1>1
    <2>2. QED
      BY <1>6, <2>1
  <1>10. \A n \in 0 .. N : q[n] \subseteq Opened
    <2>1. q[0] \subseteq Opened
      BY <1>3, <1>8
    <2>2. \A n \in 1 .. N : q[n - 1] \subseteq Opened => q[n] \subseteq Opened
      BY <1>2, <1>9
    <2> HIDE DEF N, Equation
    <2>3. QED
      BY <1>1, <2>1, <2>2, Staying
  <1>11. QED
    BY <1>7, <1>8, <1>9, <1>10 DEF more

LEMMA RootWithin == Root \in ContextsWithin(AllBlocks)[0]
  BY ContextsEquation

\* A call in a context leads to a context that is one call deeper.
LEMMA CalleeWithin ==
    ASSUME NEW n \in 0 .. MAX_FUNC_DEPTH, NEW c \in ContextsWithin(AllBlocks)[n],
           NEW i \in InstsOf(c.fn), Kind[i] = "call", Follows(c, i),
           NEW f \in Targets(i), f \notin Declared
    PROVE  Callee(c, i, f) \in ContextsWithin(AllBlocks)[n + 1]
  <1> DEFINE W == ContextsWithin(AllBlocks)
             here(d) == UNION {CalleesAt(d, b, Declared) : b \in AllBlocks(d)}
  <1>1. n + 1 \in 1 .. MAX_FUNC_DEPTH + 1 /\ (n + 1) - 1 = n
    BY CodeAssumption
  <1>2. W[n + 1] = W[n] \cup UNION {here(d) : d \in W[n]}
    BY <1>1, ContextsEquation
  <1>3. i \in Insts /\ BlockOf[i] \in AllBlocks(c)
    BY CodeAssumption DEF InstsOf, AllBlocks, BlocksOf
  <1>4. Callee(c, i, f) \in CalleesAt(c, BlockOf[i], Declared)
    BY <1>3, CalleeIsAt
  <1>5. Callee(c, i, f) \in here(c)
    BY <1>3, <1>4
  <1>6. c \in W[n]
    OBVIOUS
  <1> HIDE DEF W, here
  <1>7. Callee(c, i, f) \in W[n + 1]
    BY <1>2, <1>5, <1>6
  <1>8. QED
    BY <1>7 DEF W

LEMMA WithinContexts ==
    ASSUME NEW n \in 0 .. MAX_FUNC_DEPTH + 1
    PROVE  ContextsWithin(AllBlocks)[n] \subseteq Contexts(AllBlocks)
  <1> DEFINE W == ContextsWithin(AllBlocks)
             N == MAX_FUNC_DEPTH + 1
  <1>1. N \in Nat
    BY DepthIsNat
  <1>2. \A k \in 1 .. N : W[k - 1] \subseteq W[k]
    BY ContextsEquation
  <1> HIDE DEF W, N
  <1>3. \A k \in 0 .. N : W[k] \subseteq W[N]
    BY <1>1, <1>2, Growing
  <1>4. QED
    BY <1>3 DEF W, N, Contexts

\* The blocks, with their contexts, on ways that are n calls deep at most.
LEMMA WaysEquation ==
    ASSUME NEW c \in Opened, NEW b \in Blocks
    PROVE  LET W == WaysFrom(c, b)
               N == MAX_FUNC_DEPTH + 1
           IN  /\ W[0] = {c} \X Reachable[b]
               /\ \A n \in 1 .. N :
                     W[n] = W[n - 1] \cup
                            UNION {UNION {{d} \X BlocksOf(d.fn) : d \in CalleesAt(p[1], p[2], Ignored)} :
                                     p \in W[n - 1]}
  <1> DEFINE N == MAX_FUNC_DEPTH + 1
             C == Opened \X Blocks
             more(X) == UNION {UNION {{d} \X BlocksOf(d.fn) : d \in CalleesAt(p[1], p[2], Ignored)} :
                                 p \in X}
             F == [X \in SUBSET C |-> more(X)]
             S == {c} \X Reachable[b]
             Equation(r) == r = [n \in 0 .. N |-> IF n = 0 THEN S
                                                  ELSE r[n - 1] \cup more(r[n - 1])]
  <1>1. N \in Nat
    BY DepthIsNat
  <1>2. \A X \in SUBSET C : more(X) \in SUBSET C
    <2> SUFFICES ASSUME NEW X \in SUBSET C, NEW p \in X,
                        NEW d \in CalleesAt(p[1], p[2], Ignored)
                 PROVE  {d} \X BlocksOf(d.fn) \subseteq C
      OBVIOUS
    <2>1. Declared \subseteq Ignored
      BY CodeAssumption DEF Ignored
    <2>2. p[1] \in Opened
      OBVIOUS
    <2>3. d \in Opened
      BY <2>1, <2>2, CalleesAtType
    <2>4. QED
      BY <2>3 DEF BlocksOf
  <1>3. F \in [SUBSET C -> SUBSET C] /\ S \in SUBSET C
    <2> HIDE DEF more
    <2>1. F \in [SUBSET C -> SUBSET C]
      BY <1>2
    <2>2. S \in SUBSET C
      BY ReachableType DEF BlocksOf
    <2>3. QED
      BY <2>1, <2>2
  <1>4. PICK r : Iterates(r, C, S, F, N)
    <2> HIDE DEF F, N, C, S
    <2>1. QED
      BY <1>1, <1>3, IterationExists
  <1> HIDE DEF more
  <1>5. Equation(r)
    <2>1. \A n \in 0 .. N : n # 0 => n \in 1 .. N /\ n - 1 \in 0 .. N
      BY <1>1
    <2>2. \A n \in 0 .. N : n # 0 => F[r[n - 1]] = more(r[n - 1])
      BY <1>4, <2>1 DEF Iterates
    <2>3. QED
      BY <1>4, <2>1, <2>2 DEF Iterates
  <1> DEFINE q == CHOOSE q : Equation(q)
  <1>6. Equation(q)
    BY <1>5
  <1>7. WaysFrom(c, b) = q
    BY DEF WaysFrom, more
  <1> HIDE DEF q
  <1>8. q[0] = S
    BY <1>1, <1>6
  <1>9. \A n \in 1 .. N : q[n] = q[n - 1] \cup more(q[n - 1])
    <2> TAKE n \in 1 .. N
    <2>1. n \in 0 .. N /\ n # 0
      BY <1>1
    <2>2. QED
      BY <1>6, <2>1
  <1>10. QED
    BY <1>7, <1>8, <1>9 DEF more

\* A call on a way leads to all blocks of what it calls.
LEMMA WayOn ==
    ASSUME NEW c \in Opened, NEW b \in Blocks, NEW n \in 0 .. MAX_FUNC_DEPTH,
           NEW d \in Opened, NEW i \in Insts, <<d, BlockOf[i]>> \in WaysFrom(c, b)[n],
           Kind[i] = "call", Follows(d, i), NEW f \in Targets(i), f \notin Ignored,
           NEW x \in BlocksOf(f)
    PROVE  <<Callee(d, i, f), x>> \in WaysFrom(c, b)[n + 1]
  <1> DEFINE W == WaysFrom(c, b)
             e == Callee(d, i, f)
  <1>1. n + 1 \in 1 .. MAX_FUNC_DEPTH + 1 /\ (n + 1) - 1 = n
    BY CodeAssumption
  <1>2. W[n + 1] = W[n] \cup
                   UNION {UNION {{g} \X BlocksOf(g.fn) : g \in CalleesAt(p[1], p[2], Ignored)} :
                            p \in W[n]}
    BY <1>1, WaysEquation
  <1>3. e \in CalleesAt(d, BlockOf[i], Ignored)
    BY CalleeIsAt
  <1>4. f \in Functions \ Declared
    BY TargetsType DEF Ignored
  <1>5. e.fn = f
    BY <1>4, CalleeType
  <1>6. <<e, x>> \in {e} \X BlocksOf(e.fn)
    BY <1>5
  <1> HIDE DEF e
  <1>7. PICK p \in W[n] : p = <<d, BlockOf[i]>>
    OBVIOUS
  <1>8. e \in CalleesAt(p[1], p[2], Ignored)
    BY <1>3, <1>7
  <1>9. QED
    BY <1>2, <1>6, <1>8 DEF e

\* A call on a way is one of the copies if it calls a function that copies.
LEMMA CallsOnWays ==
    ASSUME NEW c \in Opened, NEW b \in Blocks, NEW n \in 0 .. MAX_FUNC_DEPTH + 1,
           NEW d, NEW i \in Insts, <<d, BlockOf[i]>> \in WaysFrom(c, b)[n], Kind[i] = "call"
    PROVE  /\ Targets(i) \cap CopyIn # {} => i \in CopiesFrom(c, b).in_types
           /\ Targets(i) \cap (CopyOut \ CopyIn) # {} => i \in CopiesFrom(c, b).out_types
  <1> DEFINE W == WaysFrom(c, b)
             N == MAX_FUNC_DEPTH + 1
  <1>1. N \in Nat
    BY DepthIsNat
  <1>2. \A k \in 1 .. N : W[k - 1] \subseteq W[k]
    BY WaysEquation
  <1>3. \A k \in 0 .. N : W[k] \subseteq W[N]
    <2> HIDE DEF W, N
    <2>1. QED
      BY <1>1, <1>2, Growing
  <1>4. PICK p \in W[N] : p = <<d, BlockOf[i]>>
    BY <1>3
  <1>5. i \in CallsIn(p[2])
    BY <1>4 DEF CallsIn, InstsIn
  <1>6. i \in UNION {CallsIn(y[2]) : y \in W[N]}
    BY <1>5
  <1>7. QED
    BY <1>6 DEF CopiesFrom

(***************************************************************************)
(* The inductive invariant.  Each object is in a context that calls lead   *)
(* to and handles blocks and instructions of its own function; the         *)
(* constant and the cases it remembers are those of a test of the command; *)
(* the callees it has left to see are targets of the call it is at; and    *)
(* while it runs run_type(), its command has been found and all it looks at*)
(* lies on a way from a test of that command.                              *)
(***************************************************************************)

\* The commands that are tested in a context.
OccurrencesOf(c) == SwitchOccurrences(c) \cup LooseOccurrences(c)

\* Block x of context c is on a way from a test of the command v.
Led(c, x, v) ==
    \E o \in PossibleOccurrences :
        /\ o.v = v
        /\ \E n \in 0 .. Len(c.calls) : <<c, x>> \in WaysFrom(o.c, o.b)[n]

InContext(o) ==
    /\ o.context \in Opened
    /\ Len(o.context.calls) <= MAX_FUNC_DEPTH + 1
    /\ o.context \in ContextsWithin(AllBlocks)[Len(o.context.calls)]

OwnCode(o) ==
    LET f == o.context.fn IN
    /\ o.all_bb \subseteq BlocksOf(f)
    /\ o.insts \subseteq InstsOf(f)
    /\ o.type_bb \subseteq BlocksOf(f)
    /\ o.type_insts \subseteq {i \in InstsOf(f) : Kind[i] = "call"}
    /\ o.typing \/ o.type_insts = {}

Tested(o) ==
    /\ IsConstant(o.curr_cmd) => \E i \in Comparisons(o.context) : o.curr_cmd = Compared[i]
    /\ \A k \in DOMAIN o.cases : \E p \in OccurrencesOf(o.context) : o.cases[k] = <<p.v, p.b>>

Calling(o) ==
    o.targets # {} => /\ o.ci \in InstsOf(o.context.fn)
                      /\ Kind[o.ci] = "call"
                      /\ o.targets \subseteq Targets(o.ci)

\* known: the commands that have been found.
ForCommand(o, known) ==
    o.typing => /\ o.current_cmd \in known
                /\ \A x \in o.type_bb : Led(o.context, x, o.current_cmd)
                /\ \A i \in o.type_insts : Led(o.context, BlockOf[i], o.current_cmd)
                /\ o.targets # {} => Led(o.context, BlockOf[o.ci], o.current_cmd)

Good(o, known) ==
    /\ o \in Frame
    /\ InContext(o) /\ OwnCode(o) /\ Tested(o) /\ Calling(o) /\ ForCommand(o, known)

StackInv(s, known) == s \in Seq(Frame) /\ \A k \in DOMAIN s : Good(s[k], known)

\* What has been recorded for the command v has its reason in the code.
Justified(info, v) ==
    /\ \E o \in PossibleOccurrences : o.v = v /\ o.b = info.b
    /\ \A i \in info.in_types :
          \E o \in PossibleOccurrences : o.v = v /\ i \in CopiesFrom(o.c, o.b).in_types
    /\ \A i \in info.out_types :
          \E o \in PossibleOccurrences : o.v = v /\ i \in CopiesFrom(o.c, o.b).out_types

Infos == [b : Blocks, in_types : SUBSET Insts, out_types : SUBSET Insts]

CmdInv(found) ==
    /\ DOMAIN found \subseteq Nat
    /\ \A v \in DOMAIN found : found[v] \in Infos /\ Justified(found[v], v)

\* Nothing is copied outside a command.
NoCmdIsEmpty == no_cmd = [in_types |-> {}, out_types |-> {}]

WalkInv ==
    /\ block_order \in BlockOrders
    /\ StackInv(stack, DOMAIN cmd)
    /\ CmdInv(cmd)
    /\ NoCmdIsEmpty

(***************************************************************************)
(* Facts about tests of the command and the ways from them.                *)
(***************************************************************************)

LEMMA SuccsType ==
    ASSUME NEW i \in Insts, NEW n \in DOMAIN Succs[BlockOf[i]]
    PROVE  LET b == Succs[BlockOf[i]][n]
               f == FunctionOf[BlockOf[i]]
           IN  b \in BlocksOf(f) /\ b # EntryBlock[f]
  <1>1. BlockOf[i] \in Blocks /\ Succs[BlockOf[i]] \in Seq(Blocks)
    BY CodeAssumption
  <1>2. Succs[BlockOf[i]][n] \in Blocks
    BY <1>1, ElementOfSeq
  <1>3. QED
    BY <1>1, <1>2, CodeAssumption DEF BlocksOf

\* A test of the command leads to a block of its function, never the first one.
LEMMA OccurrenceFacts ==
    ASSUME NEW c, NEW p \in OccurrencesOf(c)
    PROVE  p.c = c /\ p.v \in Nat /\ p.b \in BlocksOf(c.fn) /\ p.b # EntryBlock[c.fn]
  <1>1. CASE p \in SwitchOccurrences(c)
    <2>1. PICK i \in Tests(c, "switch") :
             \E n \in DOMAIN CaseValues[i] : p = Occurrence(c, CaseValues[i][n], i, n + 1)
      BY <1>1 DEF SwitchOccurrences
    <2>2. PICK n \in DOMAIN CaseValues[i] : p = Occurrence(c, CaseValues[i][n], i, n + 1)
      BY <2>1
    <2>3. i \in Insts /\ Kind[i] = "switch" /\ FunctionOf[BlockOf[i]] = c.fn
      BY DEF Tests, InstsOf
    <2>4. CaseValues[i] \in Seq(Nat) /\ Succs[BlockOf[i]] \in Seq(Blocks)
      BY <2>3, CodeAssumption
    <2>5. CaseValues[i][n] \in Nat
      BY <2>4, ElementOfSeq
    <2>6. n + 1 \in DOMAIN Succs[BlockOf[i]]
      BY <2>3, <2>4, CodeAssumption
    <2>7. QED
      BY <2>2, <2>3, <2>5, <2>6, SuccsType DEF Occurrence
  <1>2. CASE p \in LooseOccurrences(c)
    <2>1. PICK i \in Comparisons(c), j \in Branches(c) : p = Occurrence(c, Compared[i], j, 1)
      BY <1>2 DEF LooseOccurrences
    <2>2. i \in Insts /\ j \in Insts /\ Kind[j] = "br" /\ FunctionOf[BlockOf[j]] = c.fn
      BY DEF Comparisons, Branches, Tests, InstsOf
    <2>3. Compared[i] \in Nat
      BY <2>2, CodeAssumption DEF Comparisons
    <2>4. Succs[BlockOf[j]] \in Seq(Blocks) /\ Succs[BlockOf[j]] # <<>>
      BY <2>2, CodeAssumption
    <2>5. 1 \in DOMAIN Succs[BlockOf[j]]
      BY <2>4
    <2>6. QED
      BY <2>1, <2>2, <2>3, <2>5, SuccsType DEF Occurrence
  <1>3. QED
    BY <1>1, <1>2 DEF OccurrencesOf

LEMMA PossibleFacts ==
    ASSUME NEW o \in PossibleOccurrences
    PROVE  o.c \in Opened /\ o.v \in Nat /\ o.b \in Blocks
  <1>1. PICK c \in Contexts(AllBlocks) : o \in OccurrencesOf(c)
    BY DEF PossibleOccurrences, OccurrencesOf
  <1>2. Contexts(AllBlocks) \subseteq Opened
    <2>1. MAX_FUNC_DEPTH + 1 \in 0 .. MAX_FUNC_DEPTH + 1
      BY CodeAssumption
    <2>2. QED
      BY <2>1, ContextsEquation DEF Contexts
  <1>3. QED
    BY <1>1, <1>2, OccurrenceFacts DEF BlocksOf

\* The tests in a context of the walk are among those that are possible.
LEMMA TestsArePossible ==
    ASSUME NEW o, InContext(o)
    PROVE  OccurrencesOf(o.context) \subseteq PossibleOccurrences
  <1> DEFINE c == o.context
             n == Len(c.calls)
  <1>1. n \in Nat
    BY DEF InContext, Opened
  <1>2. n \in 0 .. MAX_FUNC_DEPTH + 1
    BY <1>1, CodeAssumption DEF InContext
  <1>3. c \in Contexts(AllBlocks)
    BY <1>2, WithinContexts DEF InContext
  <1> HIDE DEF c
  <1>4. OccurrencesOf(c) \subseteq PossibleOccurrences
    BY <1>3 DEF PossibleOccurrences, OccurrencesOf
  <1>5. QED
    BY <1>4 DEF c

LEMMA LedStart ==
    ASSUME NEW o, InContext(o), NEW p \in OccurrencesOf(o.context), NEW x \in Reachable[p.b]
    PROVE  Led(o.context, x, p.v)
  <1>1. p \in PossibleOccurrences
    BY TestsArePossible
  <1>2. p.c = o.context
    BY OccurrenceFacts
  <1>3. p.c \in Opened /\ p.b \in Blocks
    BY <1>1, PossibleFacts
  <1>4. WaysFrom(p.c, p.b)[0] = {p.c} \X Reachable[p.b]
    BY <1>3, WaysEquation
  <1>5. <<o.context, x>> \in WaysFrom(p.c, p.b)[0]
    BY <1>2, <1>4
  <1>6. Len(o.context.calls) \in Nat
    BY DEF InContext, Opened
  <1>7. 0 \in 0 .. Len(o.context.calls)
    BY <1>6
  <1>8. QED
    BY <1>1, <1>5, <1>7 DEF Led

LEMMA LedOn ==
    ASSUME NEW c \in Opened, NEW v, NEW i \in Insts, Led(c, BlockOf[i], v),
           Kind[i] = "call", Follows(c, i), NEW f \in Targets(i), f \notin Ignored,
           NEW x \in BlocksOf(f)
    PROVE  Led(Callee(c, i, f), x, v)
  <1>1. PICK o \in PossibleOccurrences :
           o.v = v /\ \E n \in 0 .. Len(c.calls) : <<c, BlockOf[i]>> \in WaysFrom(o.c, o.b)[n]
    BY DEF Led
  <1>2. PICK n \in 0 .. Len(c.calls) : <<c, BlockOf[i]>> \in WaysFrom(o.c, o.b)[n]
    BY <1>1
  <1>3. Len(c.calls) \in Nat
    BY DEF Opened
  <1>4. n \in 0 .. MAX_FUNC_DEPTH
    BY <1>3, CodeAssumption DEF Follows
  <1>5. o.c \in Opened /\ o.b \in Blocks
    BY PossibleFacts
  <1>6. <<Callee(c, i, f), x>> \in WaysFrom(o.c, o.b)[n + 1]
    BY <1>2, <1>4, <1>5, WayOn
  <1>7. f \in Functions \ Declared
    BY TargetsType DEF Ignored
  <1>8. Len(Callee(c, i, f).calls) = Len(c.calls) + 1
    BY <1>7, CalleeType
  <1>9. n + 1 \in 0 .. Len(Callee(c, i, f).calls)
    BY <1>3, <1>8
  <1>10. QED
    BY <1>1, <1>6, <1>9 DEF Led

\* A copy on a way from a test of v is one of those of v.
LEMMA LedToCopy ==
    ASSUME NEW o, InContext(o), NEW v, NEW i \in Insts, Led(o.context, BlockOf[i], v),
           Kind[i] = "call", NEW f \in Targets(i)
    PROVE  /\ f \in CopyIn =>
                 \E p \in PossibleOccurrences : p.v = v /\ i \in CopiesFrom(p.c, p.b).in_types
           /\ f \in CopyOut \ CopyIn =>
                 \E p \in PossibleOccurrences : p.v = v /\ i \in CopiesFrom(p.c, p.b).out_types
  <1> DEFINE c == o.context
  <1>1. PICK p \in PossibleOccurrences :
           p.v = v /\ \E n \in 0 .. Len(c.calls) : <<c, BlockOf[i]>> \in WaysFrom(p.c, p.b)[n]
    BY DEF Led
  <1>2. PICK n \in 0 .. Len(c.calls) : <<c, BlockOf[i]>> \in WaysFrom(p.c, p.b)[n]
    BY <1>1
  <1>3. Len(c.calls) \in Nat
    BY DEF Opened, InContext
  <1>4. n \in 0 .. MAX_FUNC_DEPTH + 1
    BY <1>3, CodeAssumption DEF InContext
  <1>5. p.c \in Opened /\ p.b \in Blocks
    BY PossibleFacts
  <1>6. /\ Targets(i) \cap CopyIn # {} => i \in CopiesFrom(p.c, p.b).in_types
        /\ Targets(i) \cap (CopyOut \ CopyIn) # {} => i \in CopiesFrom(p.c, p.b).out_types
    BY <1>2, <1>4, <1>5, CallsOnWays
  <1>7. QED
    BY <1>1, <1>6

(***************************************************************************)
(* Facts about the stack of objects.                                       *)
(***************************************************************************)

LEMMA GoodGrows ==
    ASSUME NEW o, NEW known, NEW more, known \subseteq more, Good(o, known)
    PROVE  Good(o, more)
  BY DEF Good, ForCommand

LEMMA TopIsGood ==
    ASSUME NEW known, StackInv(stack, known), stack # <<>>
    PROVE  Len(stack) \in DOMAIN stack /\ Good(Top, known)
  <1>1. stack \in Seq(Frame)
    BY DEF StackInv
  <1>2. Len(stack) \in DOMAIN stack
    BY <1>1
  <1>3. QED
    BY <1>2 DEF StackInv, Top

LEMMA ThisIsGood ==
    ASSUME NEW known, NEW more, StackInv(stack, known), stack # <<>>, known \subseteq more,
           NEW new, Good(new, more)
    PROVE  StackInv(This(new), more)
  <1>1. stack \in Seq(Frame) /\ new \in Frame
    BY DEF StackInv, Good
  <1>2. Len(stack) \in DOMAIN stack
    BY <1>1
  <1>3. This(new) \in Seq(Frame) /\ DOMAIN This(new) = DOMAIN stack
    BY <1>1, <1>2 DEF This
  <1>4. ASSUME NEW k \in DOMAIN stack PROVE Good(This(new)[k], more)
    <2>1. CASE k = Len(stack)
      <3>1. This(new)[k] = new
        BY <2>1 DEF This
      <3>2. QED
        BY <3>1
    <2>2. CASE k # Len(stack)
      <3>1. This(new)[k] = stack[k]
        BY <2>2 DEF This
      <3>2. Good(stack[k], known)
        BY DEF StackInv
      <3>3. Good(stack[k], more)
        BY <3>2, GoodGrows
      <3>4. QED
        BY <3>1, <3>3
    <2>3. QED
      BY <2>1, <2>2
  <1>5. QED
    BY <1>3, <1>4 DEF StackInv

LEMMA AppendIsGood ==
    ASSUME NEW known, NEW s, StackInv(s, known), NEW new, Good(new, known)
    PROVE  StackInv(Append(s, new), known)
  <1>1. s \in Seq(Frame) /\ new \in Frame
    BY DEF StackInv, Good
  <1>2. Append(s, new) \in Seq(Frame) /\ DOMAIN Append(s, new) = 1 .. Len(s) + 1
    BY <1>1
  <1>3. ASSUME NEW k \in 1 .. Len(s) + 1 PROVE Good(Append(s, new)[k], known)
    <2>1. CASE k = Len(s) + 1
      <3>1. Append(s, new)[k] = new
        BY <1>1, <2>1
      <3>2. QED
        BY <3>1
    <2>2. CASE k # Len(s) + 1
      <3>1. k \in DOMAIN s /\ Append(s, new)[k] = s[k]
        BY <1>1, <2>2
      <3>2. Good(s[k], known)
        BY <3>1 DEF StackInv
      <3>3. QED
        BY <3>1, <3>2
    <2>3. QED
      BY <2>1, <2>2
  <1>4. QED
    BY <1>2, <1>3 DEF StackInv

LEMMA FrontIsGood ==
    ASSUME NEW known, StackInv(stack, known), stack # <<>>
    PROVE  StackInv(SubSeq(stack, 1, Len(stack) - 1), known)
  <1> DEFINE s == SubSeq(stack, 1, Len(stack) - 1)
  <1>1. stack \in Seq(Frame)
    BY DEF StackInv
  <1>2. s \in Seq(Frame) /\ DOMAIN s = 1 .. Len(stack) - 1
    BY <1>1
  <1>3. \A k \in DOMAIN s : k \in DOMAIN stack /\ s[k] = stack[k]
    BY <1>1, <1>2
  <1> HIDE DEF s
  <1>4. StackInv(s, known)
    BY <1>2, <1>3 DEF StackInv
  <1>5. QED
    BY <1>4 DEF s

(***************************************************************************)
(* The invariant holds when the walk begins, ...                           *)
(***************************************************************************)

\* A new object is well formed if its context is, and all its code, when it is for a
\* command, on a way from a test of that.
LEMMA NewObjectIsGood ==
    ASSUME NEW c, c \in Opened, Len(c.calls) <= MAX_FUNC_DEPTH + 1,
           c \in ContextsWithin(AllBlocks)[Len(c.calls)],
           NEW typing \in BOOLEAN, NEW current \in Nat \cup {Null, Garbage}, NEW known,
           typing => current \in known /\ \A x \in BlocksOf(c.fn) : Led(c, x, current)
    PROVE  Good(Object(c, typing, current), known)
  <1> DEFINE o == Object(c, typing, current)
             blocks == BlocksOf(c.fn)
  <1>1. c.fn \in Functions \ Declared /\ blocks \subseteq Blocks
    BY DEF Opened, BlocksOf
  <1>2. TypeBlocks(c.fn, EntryBlock[c.fn]) = blocks
    BY DEF TypeBlocks
  <1>3. /\ o.context = c /\ o.typing = typing /\ o.current_cmd = current
        /\ o.all_bb \subseteq blocks /\ o.insts = {} /\ o.type_bb \subseteq blocks
        /\ o.type_insts = {} /\ o.targets = {} /\ o.cases = <<>> /\ o.curr_cmd = Null
    BY <1>2 DEF Object
  <1>4. o \in Frame
    BY <1>1, <1>2 DEF Object, Frame, Opened
  <1> HIDE DEF o
  <1>5. InContext(o)
    BY <1>3 DEF InContext
  <1>6. OwnCode(o)
    BY <1>3 DEF OwnCode
  <1>7. Tested(o)
    BY <1>3 DEF Tested, IsConstant
  <1>8. Calling(o)
    BY <1>3 DEF Calling
  <1>9. ForCommand(o, known)
    BY <1>3 DEF ForCommand
  <1>10. Good(o, known)
    BY <1>4, <1>5, <1>6, <1>7, <1>8, <1>9 DEF Good
  <1>11. QED
    BY <1>10 DEF o

LEMMA InitInv == Init => WalkInv
  <1> SUFFICES ASSUME Init PROVE WalkInv
    OBVIOUS
  <1>1. PICK m \in {Null, Garbage} : stack = <<Object(Root, FALSE, m)>>
    BY DEF Init
  <1>2. DOMAIN cmd = {}
    BY DEF Init
  <1>3. Root \in Opened /\ Len(Root.calls) = 0
    BY RootType
  <1>4. 0 <= MAX_FUNC_DEPTH + 1
    BY CodeAssumption
  <1>5. Good(Object(Root, FALSE, m), {})
    BY <1>3, <1>4, RootWithin, NewObjectIsGood
  <1> DEFINE o == Object(Root, FALSE, m)
  <1> HIDE DEF o
  <1>6. Good(o, {}) /\ o \in Frame
    BY <1>5 DEF o, Good
  <1>7. StackInv(<<o>>, {})
    BY <1>6 DEF StackInv
  <1>8. StackInv(stack, DOMAIN cmd)
    BY <1>1, <1>2, <1>7 DEF o
  <1>9. CmdInv(cmd)
    BY <1>2 DEF CmdInv
  <1>10. QED
    BY <1>8, <1>9 DEF Init, WalkInv, NoCmdIsEmpty

(***************************************************************************)
(* ... and after each of its steps.                                        *)
(***************************************************************************)

\* A step that changes the object on top only.
LEMMA TopChanges ==
    ASSUME WalkInv, stack # <<>>, NEW new, Good(new, DOMAIN cmd), stack' = This(new),
           UNCHANGED <<block_order, cmd, no_cmd>>
    PROVE  WalkInv'
  <1>1. StackInv(This(new), DOMAIN cmd)
    BY ThisIsGood DEF WalkInv
  <1>2. StackInv(stack', DOMAIN cmd')
    BY <1>1
  <1>3. QED
    BY <1>2 DEF WalkInv, NoCmdIsEmpty, CmdInv, Justified

LEMMA TopFacts ==
    ASSUME WalkInv, stack # <<>>
    PROVE  /\ Good(Top, DOMAIN cmd)
           /\ Top \in Frame
           /\ Top.context \in Opened
           /\ InContext(Top) /\ OwnCode(Top) /\ Tested(Top) /\ Calling(Top)
           /\ ForCommand(Top, DOMAIN cmd)
  <1>1. Good(Top, DOMAIN cmd)
    BY TopIsGood DEF WalkInv
  <1>2. QED
    BY <1>1 DEF Good, InContext

\* The instruction run_cmd() is at.
LEMMA AtFacts ==
    ASSUME WalkInv, NEW i \in Insts, NEW kind, At(i, kind)
    PROVE  /\ stack # <<>> /\ ~ Top.typing /\ Top.targets = {} /\ Top.cases = <<>>
           /\ i \in Top.insts /\ i \in InstsOf(Top.context.fn) /\ Kind[i] = kind
  <1>1. stack # <<>> /\ Top.insts # {} /\ i = Least(Top.insts)
    BY DEF At, InCmd
  <1>2. OwnCode(Top)
    BY <1>1, TopFacts
  <1>3. Top.insts \in SUBSET Insts
    BY <1>2 DEF OwnCode, InstsOf
  <1>4. i \in Top.insts
    BY <1>1, <1>3, LeastIn
  <1>5. QED
    BY <1>2, <1>4 DEF At, InCmd, OwnCode

LEMMA TakeBlockInv == ASSUME WalkInv, TakeBlock PROVE WalkInv'
  <1> DEFINE b == First(Top.all_bb)
             new == [Top EXCEPT !.all_bb = Erased(@, b), !.insts = InstsIn(b)]
  <1>1. stack # <<>> /\ ~ Top.typing /\ Top.targets = {} /\ Top.all_bb # {}
    BY DEF TakeBlock, InCmd
  <1>2. /\ Top \in Frame /\ InContext(Top) /\ OwnCode(Top) /\ Tested(Top)
    BY <1>1, TopFacts
  <1>3. b \in Top.all_bb
    <2>1. Top.all_bb \in SUBSET Blocks /\ block_order \in BlockOrders
      BY <1>2 DEF OwnCode, BlocksOf, WalkInv
    <2>2. QED
      BY <1>1, <2>1, FirstIn
  <1>4. InstsIn(b) \subseteq InstsOf(Top.context.fn)
    BY <1>2, <1>3 DEF InstsIn, InstsOf, OwnCode, BlocksOf
  <1>5. new \in Frame
    <2>1. InstsIn(b) \subseteq Insts
      BY DEF InstsIn
    <2>2. Erased(Top.all_bb, b) \subseteq Blocks
      BY <1>2 DEF Erased, Frame
    <2> HIDE DEF b
    <2>3. QED
      BY <1>2, <2>1, <2>2 DEF Frame
  <1>6. /\ new.context = Top.context /\ new.typing = Top.typing /\ new.targets = Top.targets
        /\ new.all_bb \subseteq Top.all_bb /\ new.insts = InstsIn(b)
        /\ new.type_bb = Top.type_bb /\ new.type_insts = Top.type_insts
        /\ new.cases = Top.cases /\ new.curr_cmd = Top.curr_cmd
    BY <1>2 DEF Frame, Erased
  <1>7. stack' = This(new) /\ UNCHANGED <<block_order, cmd, no_cmd>>
    BY DEF TakeBlock
  <1> HIDE DEF new, b
  <1>8. Good(new, DOMAIN cmd)
    <2>1. InContext(new)
      BY <1>2, <1>6 DEF InContext
    <2>2. OwnCode(new)
      BY <1>2, <1>4, <1>6 DEF OwnCode
    <2>3. Tested(new)
      BY <1>2, <1>6 DEF Tested
    <2>4. Calling(new) /\ ForCommand(new, DOMAIN cmd)
      BY <1>1, <1>6 DEF Calling, ForCommand
    <2>5. QED
      BY <1>5, <2>1, <2>2, <2>3, <2>4 DEF Good
  <1>9. QED
    BY <1>1, <1>7, <1>8, TopChanges

LEMMA CheckCallCmdInv == ASSUME WalkInv, NEW i \in Insts, CheckCallCmd(i) PROVE WalkInv'
  <1> DEFINE new == [Top EXCEPT !.insts = @ \ {i}, !.ci = i, !.targets = Targets(i) \ Declared]
  <1>1. At(i, "call")
    BY DEF CheckCallCmd
  <1>2. /\ stack # <<>> /\ ~ Top.typing /\ Top.cases = <<>>
        /\ i \in InstsOf(Top.context.fn) /\ Kind[i] = "call"
    BY <1>1, AtFacts
  <1>3. Top \in Frame /\ InContext(Top) /\ OwnCode(Top) /\ Tested(Top)
    BY <1>2, TopFacts
  <1>4. new \in Frame
    BY <1>3, TargetsType DEF Frame
  <1>5. /\ new.context = Top.context /\ new.typing = Top.typing
        /\ new.targets \subseteq Targets(i) /\ new.ci = i
        /\ new.all_bb = Top.all_bb /\ new.insts \subseteq Top.insts
        /\ new.type_bb = Top.type_bb /\ new.type_insts = Top.type_insts
        /\ new.cases = Top.cases /\ new.curr_cmd = Top.curr_cmd
    BY <1>3 DEF Frame
  <1>6. stack' = This(new) /\ UNCHANGED <<block_order, cmd, no_cmd>>
    BY DEF CheckCallCmd
  <1> HIDE DEF new
  <1>7. Good(new, DOMAIN cmd)
    <2>1. InContext(new)
      BY <1>3, <1>5 DEF InContext
    <2>2. OwnCode(new)
      BY <1>3, <1>5 DEF OwnCode
    <2>3. Tested(new)
      BY <1>3, <1>5 DEF Tested
    <2>4. Calling(new) /\ ForCommand(new, DOMAIN cmd)
      BY <1>2, <1>5 DEF Calling, ForCommand
    <2>5. QED
      BY <1>4, <2>1, <2>2, <2>3, <2>4 DEF Good
  <1>8. QED
    BY <1>2, <1>6, <1>7, TopChanges

\* A step of run_cmd() that changes what is remembered of tests only.
LEMMA TestChanges ==
    ASSUME WalkInv, NEW i \in Insts, NEW kind, At(i, kind), NEW new \in Frame, Tested(new),
           /\ new.context = Top.context /\ new.typing = Top.typing /\ new.targets = Top.targets
           /\ new.all_bb = Top.all_bb /\ new.insts \subseteq Top.insts
           /\ new.type_bb = Top.type_bb /\ new.type_insts = Top.type_insts,
           stack' = This(new), UNCHANGED <<block_order, cmd, no_cmd>>
    PROVE  WalkInv'
  <1>1. stack # <<>> /\ ~ Top.typing /\ Top.targets = {}
    BY AtFacts
  <1>2. InContext(Top) /\ OwnCode(Top)
    BY <1>1, TopFacts
  <1>3. InContext(new) /\ OwnCode(new)
    BY <1>2 DEF InContext, OwnCode
  <1>4. Calling(new) /\ ForCommand(new, DOMAIN cmd)
    BY <1>1 DEF Calling, ForCommand
  <1>5. Good(new, DOMAIN cmd)
    BY <1>3, <1>4 DEF Good
  <1>6. QED
    BY <1>1, <1>5, TopChanges

LEMMA SwitchInv == ASSUME WalkInv, NEW i \in Insts, Switch(i) PROVE WalkInv'
  <1> DEFINE k == CaseValues[i]
             c == Top.context
             cases == IF IsCmdAffected(i)
                      THEN [n \in DOMAIN k |-> <<k[n], Succs[BlockOf[i]][n + 1]>>]
                      ELSE <<>>
             new == [Top EXCEPT !.insts = @ \ {i}, !.cases = cases]
  <1>1. At(i, "switch")
    BY DEF Switch
  <1>2. /\ stack # <<>> /\ ~ Top.typing /\ Top.cases = <<>>
        /\ i \in InstsOf(c.fn) /\ Kind[i] = "switch"
    BY <1>1, AtFacts
  <1>3. Top \in Frame /\ Tested(Top)
    BY <1>2, TopFacts
  <1>4. k \in Seq(Nat) /\ Succs[BlockOf[i]] \in Seq(Blocks)
    BY CodeAssumption
  <1>5. \A n \in DOMAIN k : k[n] \in Nat /\ Succs[BlockOf[i]][n + 1] \in Blocks
    <2> TAKE n \in DOMAIN k
    <2>1. n + 1 \in DOMAIN Succs[BlockOf[i]]
      BY <1>2, <1>4, CodeAssumption
    <2>2. QED
      BY <1>4, <2>1, ElementOfSeq
  <1>6. cases \in Seq(Nat \X Blocks)
    <2>1. DOMAIN k = 1 .. Len(k) /\ Len(k) \in Nat
      BY <1>4
    <2> DEFINE table == [n \in DOMAIN k |-> <<k[n], Succs[BlockOf[i]][n + 1]>>]
    <2>2. table \in [1 .. Len(k) -> Nat \X Blocks]
      BY <1>5, <2>1
    <2>3. table \in Seq(Nat \X Blocks)
      BY <2>1, <2>2
    <2>4. QED
      BY <2>3
  <1>7. ASSUME NEW n \in DOMAIN cases
        PROVE  \E p \in OccurrencesOf(c) : cases[n] = <<p.v, p.b>>
    <2>1. IsCmdAffected(i) /\ n \in DOMAIN k
      OBVIOUS
    <2>2. i \in Tests(c, "switch")
      BY <1>2, <2>1 DEF Tests, IsCmdAffected
    <2> DEFINE p == Occurrence(c, k[n], i, n + 1)
    <2>3. p \in SwitchOccurrences(c)
      BY <2>1, <2>2 DEF SwitchOccurrences
    <2>4. cases[n] = <<p.v, p.b>>
      BY <2>1 DEF Occurrence
    <2>5. QED
      BY <2>3, <2>4 DEF OccurrencesOf
  <1> HIDE DEF cases
  <1>8. new \in Frame
    BY <1>3, <1>6 DEF Frame
  <1>9. /\ new.context = Top.context /\ new.typing = Top.typing /\ new.targets = Top.targets
        /\ new.all_bb = Top.all_bb /\ new.insts \subseteq Top.insts
        /\ new.type_bb = Top.type_bb /\ new.type_insts = Top.type_insts
        /\ new.cases = cases /\ new.curr_cmd = Top.curr_cmd
    BY <1>3 DEF Frame
  <1>10. stack' = This(new) /\ UNCHANGED <<block_order, cmd, no_cmd>>
    BY DEF Switch, cases
  <1> HIDE DEF new
  <1>11. Tested(new)
    BY <1>3, <1>7, <1>9 DEF Tested
  <1> HIDE DEF c
  <1>12. QED
    BY <1>1, <1>8, <1>9, <1>10, <1>11, TestChanges

LEMMA ICmpInv == ASSUME WalkInv, NEW i \in Insts, ICmp(i) PROVE WalkInv'
  <1> DEFINE c == Top.context
             v == IF IsCmdAffected(i) THEN Compared[i] ELSE Top.curr_cmd
             new == [Top EXCEPT !.insts = @ \ {i}, !.curr_cmd = v]
  <1>1. At(i, "icmp")
    BY DEF ICmp
  <1>2. /\ stack # <<>> /\ ~ Top.typing /\ Top.cases = <<>>
        /\ i \in InstsOf(c.fn) /\ Kind[i] = "icmp"
    BY <1>1, AtFacts
  <1>3. Top \in Frame /\ Tested(Top)
    BY <1>2, TopFacts
  <1>4. v \in Nat \cup {Null, NoConstant}
    BY <1>3, CodeAssumption DEF Frame
  <1>5. IsConstant(v) => \E j \in Comparisons(c) : v = Compared[j]
    <2>1. CASE IsCmdAffected(i)
      <3>1. i \in Tests(c, "icmp")
        BY <1>2, <2>1 DEF Tests, IsCmdAffected
      <3>2. QED
        BY <2>1, <3>1 DEF IsConstant, Comparisons
    <2>2. CASE ~ IsCmdAffected(i)
      BY <1>3, <2>2 DEF Tested
    <2>3. QED
      BY <2>1, <2>2
  <1>6. stack' = This(new) /\ UNCHANGED <<block_order, cmd, no_cmd>>
    <2>1. new = [Top EXCEPT !.insts = @ \ {i},
                            !.curr_cmd = IF IsCmdAffected(i) THEN Compared[i] ELSE @]
      BY <1>3 DEF Frame
    <2>2. QED
      BY <2>1 DEF ICmp
  <1> HIDE DEF v
  <1>7. new \in Frame
    BY <1>3, <1>4 DEF Frame
  <1>8. /\ new.context = Top.context /\ new.typing = Top.typing /\ new.targets = Top.targets
        /\ new.all_bb = Top.all_bb /\ new.insts \subseteq Top.insts
        /\ new.type_bb = Top.type_bb /\ new.type_insts = Top.type_insts
        /\ new.cases = Top.cases /\ new.curr_cmd = v
    BY <1>3 DEF Frame
  <1> HIDE DEF new
  <1>9. Tested(new)
    BY <1>3, <1>5, <1>8 DEF Tested
  <1> HIDE DEF c
  <1>10. QED
    BY <1>1, <1>6, <1>7, <1>8, <1>9, TestChanges

LEMMA BrInv == ASSUME WalkInv, NEW i \in Insts, Br(i) PROVE WalkInv'
  <1> DEFINE c == Top.context
             v == Top.curr_cmd
             b == Succs[BlockOf[i]][1]
             cases == IF IsConstant(v) THEN << <<v, b>> >> ELSE <<>>
             new == [Top EXCEPT !.insts = @ \ {i}, !.curr_cmd = Null, !.cases = cases]
  <1>1. At(i, "br")
    BY DEF Br
  <1>2. /\ stack # <<>> /\ ~ Top.typing /\ Top.cases = <<>>
        /\ i \in InstsOf(c.fn) /\ Kind[i] = "br"
    BY <1>1, AtFacts
  <1>3. Top \in Frame /\ Tested(Top)
    BY <1>2, TopFacts
  <1>4. b \in Blocks
    <2>1. Succs[BlockOf[i]] \in Seq(Blocks) /\ Succs[BlockOf[i]] # <<>>
      BY <1>2, CodeAssumption
    <2>2. 1 \in DOMAIN Succs[BlockOf[i]]
      BY <2>1
    <2>3. QED
      BY <2>1, <2>2, ElementOfSeq
  <1>5. cases \in Seq(Nat \X Blocks)
    <2>1. IsConstant(v) => v \in Nat
      BY <1>3 DEF IsConstant, Frame
    <2> HIDE DEF v, b
    <2>2. QED
      BY <1>4, <2>1
  <1>6. ASSUME NEW n \in DOMAIN cases
        PROVE  \E p \in OccurrencesOf(c) : cases[n] = <<p.v, p.b>>
    <2>1. IsConstant(v) /\ cases[n] = <<v, b>>
      OBVIOUS
    <2>2. PICK j \in Comparisons(c) : v = Compared[j]
      BY <1>3, <2>1 DEF Tested
    <2>3. i \in Branches(c)
      BY <1>2 DEF Branches, InstsOf
    <2> DEFINE p == Occurrence(c, Compared[j], i, 1)
    <2>4. p \in LooseOccurrences(c)
      BY <2>3 DEF LooseOccurrences
    <2>5. cases[n] = <<p.v, p.b>>
      BY <2>1, <2>2 DEF Occurrence
    <2>6. QED
      BY <2>4, <2>5 DEF OccurrencesOf
  <1>7. stack' = This(new) /\ UNCHANGED <<block_order, cmd, no_cmd>>
    BY DEF Br
  <1> HIDE DEF cases
  <1>8. new \in Frame
    BY <1>3, <1>5 DEF Frame
  <1>9. /\ new.context = Top.context /\ new.typing = Top.typing /\ new.targets = Top.targets
        /\ new.all_bb = Top.all_bb /\ new.insts \subseteq Top.insts
        /\ new.type_bb = Top.type_bb /\ new.type_insts = Top.type_insts
        /\ new.cases = cases /\ new.curr_cmd = Null
    BY <1>3 DEF Frame
  <1> HIDE DEF new
  <1>10. Tested(new)
    BY <1>6, <1>9 DEF Tested, IsConstant
  <1> HIDE DEF c
  <1>11. QED
    BY <1>1, <1>7, <1>8, <1>9, <1>10, TestChanges

LEMMA BeginCmdInv == ASSUME WalkInv, BeginCmd PROVE WalkInv'
  <1> DEFINE c == Top.context
             v == Head(Top.cases)[1]
             b == Head(Top.cases)[2]
             new == [Top EXCEPT !.current_cmd = v, !.typing = TRUE, !.type_bb = TypeBlocks(c.fn, b)]
  <1>1. stack # <<>> /\ Top.targets = {} /\ Top.cases # <<>>
    BY DEF BeginCmd, InCmd
  <1>2. Top \in Frame /\ InContext(Top) /\ OwnCode(Top) /\ Tested(Top)
    BY <1>1, TopFacts
  <1>3. PICK p \in OccurrencesOf(c) : Head(Top.cases) = <<p.v, p.b>>
    <2>1. Top.cases \in Seq(Nat \X Blocks)
      BY <1>2 DEF Frame
    <2>2. 1 \in DOMAIN Top.cases /\ Head(Top.cases) = Top.cases[1]
      BY <1>1, <2>1
    <2>3. QED
      BY <1>2, <2>2 DEF Tested
  <1>4. v = p.v /\ b = p.b
    BY <1>3
  <1>5. p.v \in Nat /\ p.b \in BlocksOf(c.fn) /\ p.b # EntryBlock[c.fn]
    BY OccurrenceFacts
  <1>6. p \in PossibleOccurrences
    BY <1>2, TestsArePossible
  <1> HIDE DEF v, b
  <1>7. TypeBlocks(c.fn, b) = Reachable[b] /\ Reachable[b] \subseteq BlocksOf(c.fn)
    BY <1>4, <1>5, ReachableType DEF TypeBlocks, BlocksOf
  <1>8. \A x \in Reachable[b] : Led(c, x, v)
    BY <1>2, <1>4, LedStart
  <1>9. /\ cmd' = [w \in DOMAIN cmd \cup {v} |-> IF w = v THEN CmdInfo(v, b) ELSE cmd[w]]
        /\ stack' = This(new)
        /\ UNCHANGED <<block_order, no_cmd>>
    BY DEF BeginCmd, v, b
  <1>10. new \in Frame
    <2>1. TypeBlocks(c.fn, b) \subseteq Blocks
      BY <1>7 DEF BlocksOf
    <2>2. v \in Nat
      BY <1>4, <1>5
    <2>3. QED
      BY <1>2, <2>1, <2>2 DEF Frame
  <1>11. /\ new.context = c /\ new.typing = TRUE /\ new.targets = Top.targets
         /\ new.all_bb = Top.all_bb /\ new.insts = Top.insts
         /\ new.type_bb = TypeBlocks(c.fn, b) /\ new.type_insts = Top.type_insts
         /\ new.cases = Top.cases /\ new.curr_cmd = Top.curr_cmd /\ new.current_cmd = v
    BY <1>2 DEF Frame
  <1> HIDE DEF new
  <1>12. DOMAIN cmd' = DOMAIN cmd \cup {v}
    BY <1>9
  <1>13. Top.type_insts = {}
    BY <1>2 DEF BeginCmd, InCmd, OwnCode
  <1> HIDE DEF c
  <1>14. Good(new, DOMAIN cmd')
    <2>1. InContext(new)
      BY <1>2, <1>11 DEF InContext, c
    <2>2. OwnCode(new)
      BY <1>2, <1>7, <1>11 DEF OwnCode, c
    <2>3. Tested(new)
      BY <1>2, <1>11 DEF Tested, c
    <2>4. Calling(new)
      BY <1>1, <1>11 DEF Calling
    <2>5. ForCommand(new, DOMAIN cmd')
      BY <1>1, <1>7, <1>8, <1>11, <1>12, <1>13 DEF ForCommand
    <2>6. QED
      BY <1>10, <2>1, <2>2, <2>3, <2>4, <2>5 DEF Good
  <1>15. StackInv(stack', DOMAIN cmd')
    <2> DEFINE known == DOMAIN cmd
               more == DOMAIN cmd'
    <2>1. StackInv(stack, known) /\ known \subseteq more /\ Good(new, more)
      BY <1>12, <1>14 DEF WalkInv
    <2> HIDE DEF known, more
    <2>2. StackInv(This(new), more)
      BY <1>1, <2>1, ThisIsGood
    <2>3. QED
      BY <1>9, <2>2 DEF more
  <1>16. CmdInv(cmd')
    <2>1. CmdInv(cmd)
      BY DEF WalkInv
    <2>2. CmdInfo(v, b) \in Infos /\ Justified(CmdInfo(v, b), v)
      <3>1. CASE v \in DOMAIN cmd
        BY <2>1, <3>1 DEF CmdInv, CmdInfo
      <3>2. CASE v \notin DOMAIN cmd
        <4>1. CmdInfo(v, b) = [b |-> b, in_types |-> {}, out_types |-> {}]
          BY <3>2 DEF CmdInfo
        <4>2. b \in Blocks
          BY <1>4, <1>5 DEF BlocksOf
        <4>3. QED
          BY <1>4, <1>6, <4>1, <4>2 DEF Infos, Justified
      <3>3. QED
        BY <3>1, <3>2
    <2>3. \A w \in DOMAIN cmd' : cmd'[w] = IF w = v THEN CmdInfo(v, b) ELSE cmd[w]
      BY <1>9
    <2>4. v \in Nat
      BY <1>4, <1>5
    <2>5. ASSUME NEW w \in DOMAIN cmd' PROVE cmd'[w] \in Infos /\ Justified(cmd'[w], w)
      <3>1. CASE w = v
        BY <2>2, <2>3, <3>1
      <3>2. CASE w # v
        <4>1. w \in DOMAIN cmd /\ cmd'[w] = cmd[w]
          BY <1>12, <2>3, <3>2
        <4>2. QED
          BY <2>1, <4>1 DEF CmdInv
      <3>3. QED
        BY <3>1, <3>2
    <2>6. DOMAIN cmd' \subseteq Nat
      BY <1>12, <2>1, <2>4 DEF CmdInv
    <2>7. QED
      BY <2>5, <2>6 DEF CmdInv
  <1>17. QED
    BY <1>9, <1>15, <1>16 DEF WalkInv, NoCmdIsEmpty, CmdInv, Justified

LEMMA TakeTypeBlockInv == ASSUME WalkInv, TakeTypeBlock PROVE WalkInv'
  <1> DEFINE b == First(Top.type_bb)
             new == [Top EXCEPT !.type_bb = Erased(@, b), !.type_insts = CallsIn(b)]
  <1>1. stack # <<>> /\ Top.typing /\ Top.targets = {} /\ Top.type_bb # {}
    BY DEF TakeTypeBlock, InType
  <1>2. /\ Top \in Frame /\ InContext(Top) /\ OwnCode(Top) /\ Tested(Top)
        /\ ForCommand(Top, DOMAIN cmd)
    BY <1>1, TopFacts
  <1>3. b \in Top.type_bb
    <2>1. Top.type_bb \in SUBSET Blocks /\ block_order \in BlockOrders
      BY <1>2 DEF OwnCode, BlocksOf, WalkInv
    <2>2. QED
      BY <1>1, <2>1, FirstIn
  <1>4. \A i \in CallsIn(b) : i \in InstsOf(Top.context.fn) /\ Kind[i] = "call" /\ BlockOf[i] = b
    BY <1>2, <1>3 DEF CallsIn, InstsIn, InstsOf, OwnCode, BlocksOf
  <1>5. new \in Frame
    <2>1. CallsIn(b) \subseteq Insts
      BY DEF CallsIn, InstsIn
    <2>2. Erased(Top.type_bb, b) \subseteq Blocks
      BY <1>2 DEF Erased, Frame
    <2> HIDE DEF b
    <2>3. QED
      BY <1>2, <2>1, <2>2 DEF Frame
  <1>6. /\ new.context = Top.context /\ new.typing = Top.typing /\ new.targets = Top.targets
        /\ new.all_bb = Top.all_bb /\ new.insts = Top.insts
        /\ new.type_bb \subseteq Top.type_bb /\ new.type_insts = CallsIn(b)
        /\ new.cases = Top.cases /\ new.curr_cmd = Top.curr_cmd
        /\ new.current_cmd = Top.current_cmd
    BY <1>2 DEF Frame, Erased
  <1>7. stack' = This(new) /\ UNCHANGED <<block_order, cmd, no_cmd>>
    BY DEF TakeTypeBlock
  <1> HIDE DEF new, b
  <1>8. Good(new, DOMAIN cmd)
    <2>1. InContext(new)
      BY <1>2, <1>6 DEF InContext
    <2>2. OwnCode(new)
      BY <1>1, <1>2, <1>4, <1>6 DEF OwnCode
    <2>3. Tested(new)
      BY <1>2, <1>6 DEF Tested
    <2>4. Calling(new)
      BY <1>1, <1>6 DEF Calling
    <2>5. ForCommand(new, DOMAIN cmd)
      BY <1>1, <1>2, <1>3, <1>4, <1>6 DEF ForCommand
    <2>6. QED
      BY <1>5, <2>1, <2>2, <2>3, <2>4, <2>5 DEF Good
  <1>9. QED
    BY <1>1, <1>7, <1>8, TopChanges

LEMMA CheckCallTypeInv == ASSUME WalkInv, CheckCallType PROVE WalkInv'
  <1> DEFINE i == Least(Top.type_insts)
             new == [Top EXCEPT !.type_insts = @ \ {i}, !.ci = i, !.targets = Targets(i)]
  <1>1. stack # <<>> /\ Top.typing /\ Top.targets = {} /\ Top.type_insts # {}
    BY DEF CheckCallType, InType
  <1>2. /\ Top \in Frame /\ InContext(Top) /\ OwnCode(Top) /\ Tested(Top)
        /\ ForCommand(Top, DOMAIN cmd)
    BY <1>1, TopFacts
  <1>3. i \in Top.type_insts
    <2>1. Top.type_insts \in SUBSET Insts
      BY <1>2 DEF Frame
    <2>2. QED
      BY <1>1, <2>1, LeastIn
  <1>4. i \in InstsOf(Top.context.fn) /\ Kind[i] = "call" /\ i \in Insts
    BY <1>2, <1>3 DEF OwnCode, InstsOf
  <1>5. stack' = This(new) /\ UNCHANGED <<block_order, cmd, no_cmd>>
    BY DEF CheckCallType
  <1> HIDE DEF i
  <1>6. new \in Frame
    BY <1>2, <1>4, TargetsType DEF Frame
  <1>7. /\ new.context = Top.context /\ new.typing = Top.typing
        /\ new.targets = Targets(i) /\ new.ci = i
        /\ new.all_bb = Top.all_bb /\ new.insts = Top.insts
        /\ new.type_bb = Top.type_bb /\ new.type_insts \subseteq Top.type_insts
        /\ new.cases = Top.cases /\ new.curr_cmd = Top.curr_cmd
        /\ new.current_cmd = Top.current_cmd
    BY <1>2 DEF Frame
  <1> HIDE DEF new
  <1>8. Good(new, DOMAIN cmd)
    <2>1. InContext(new)
      BY <1>2, <1>7 DEF InContext
    <2>2. OwnCode(new)
      BY <1>2, <1>7 DEF OwnCode
    <2>3. Tested(new)
      BY <1>2, <1>7 DEF Tested
    <2>4. Calling(new)
      BY <1>4, <1>7 DEF Calling
    <2>5. ForCommand(new, DOMAIN cmd)
      BY <1>1, <1>2, <1>3, <1>7 DEF ForCommand
    <2>6. QED
      BY <1>6, <2>1, <2>2, <2>3, <2>4, <2>5 DEF Good
  <1>9. QED
    BY <1>1, <1>5, <1>8, TopChanges

\* An object with fewer callees left to see is as good.
LEMMA FewerTargets ==
    ASSUME NEW o, NEW known, Good(o, known), NEW new \in Frame,
           /\ new.context = o.context /\ new.typing = o.typing /\ new.ci = o.ci
           /\ new.targets \subseteq o.targets
           /\ new.all_bb = o.all_bb /\ new.insts = o.insts
           /\ new.type_bb = o.type_bb /\ new.type_insts = o.type_insts
           /\ new.cases = o.cases /\ new.curr_cmd = o.curr_cmd /\ new.current_cmd = o.current_cmd
    PROVE  Good(new, known)
  <1>1. InContext(new)
    BY DEF Good, InContext
  <1>2. OwnCode(new)
    BY DEF Good, OwnCode
  <1>3. Tested(new)
    BY DEF Good, Tested
  <1>4. Calling(new)
    BY DEF Good, Calling
  <1>5. ForCommand(new, known)
    BY DEF Good, ForCommand
  <1>6. QED
    BY <1>1, <1>2, <1>3, <1>4, <1>5 DEF Good

LEMMA RecordCopyInv == ASSUME WalkInv, NEW f \in Functions, RecordCopy(f) PROVE WalkInv'
  <1> DEFINE v == Top.current_cmd
             i == Top.ci
             new == [Top EXCEPT !.targets = @ \ {f}]
  <1>1. stack # <<>> /\ Top.typing /\ f \in Top.targets
    BY DEF RecordCopy
  <1>2. Good(Top, DOMAIN cmd) /\ Top \in Frame /\ InContext(Top) /\ Calling(Top) /\ ForCommand(Top, DOMAIN cmd)
    BY <1>1, TopFacts
  <1>3. v \in DOMAIN cmd /\ Led(Top.context, BlockOf[i], v)
    BY <1>1, <1>2 DEF ForCommand
  <1>4. i \in Insts /\ Kind[i] = "call" /\ f \in Targets(i)
    BY <1>1, <1>2 DEF Calling, InstsOf
  <1>5. v \in Nat /\ v # Null
    BY <1>3, CodeAssumption DEF WalkInv, CmdInv
  <1>6. /\ cmd' = [cmd EXCEPT ![v] = With(cmd[v], f, i)]
        /\ no_cmd' = no_cmd
        /\ stack' = This(new)
        /\ UNCHANGED block_order
    BY <1>3, <1>5 DEF RecordCopy
  <1>7. new \in Frame
    BY <1>2 DEF Frame
  <1>8. /\ new.context = Top.context /\ new.typing = Top.typing /\ new.ci = Top.ci
        /\ new.targets \subseteq Top.targets
        /\ new.all_bb = Top.all_bb /\ new.insts = Top.insts
        /\ new.type_bb = Top.type_bb /\ new.type_insts = Top.type_insts
        /\ new.cases = Top.cases /\ new.curr_cmd = Top.curr_cmd
        /\ new.current_cmd = Top.current_cmd
    BY <1>2 DEF Frame
  <1> HIDE DEF new
  <1>9. Good(new, DOMAIN cmd)
    BY <1>2, <1>7, <1>8, FewerTargets
  <1>10. StackInv(stack', DOMAIN cmd')
    <2> DEFINE known == DOMAIN cmd
    <2>1. StackInv(stack, known) /\ Good(new, known)
      BY <1>9 DEF WalkInv
    <2> HIDE DEF known
    <2>2. StackInv(This(new), known)
      BY <1>1, <2>1, ThisIsGood
    <2>3. DOMAIN cmd' = known
      BY <1>6 DEF known
    <2>4. QED
      BY <1>6, <2>2, <2>3
  <1>11. CmdInv(cmd')
    <2>1. CmdInv(cmd)
      BY DEF WalkInv
    <2>2. cmd[v] \in Infos /\ Justified(cmd[v], v)
      BY <1>3, <2>1 DEF CmdInv
    <2> DEFINE info == With(cmd[v], f, i)
    <2>3. info \in Infos
      BY <1>4, <2>2 DEF With, Infos
    <2>4. /\ info.b = cmd[v].b
          /\ \A j \in info.in_types : j \in cmd[v].in_types \/ (j = i /\ f \in CopyIn)
          /\ \A j \in info.out_types : j \in cmd[v].out_types \/ (j = i /\ f \in CopyOut \ CopyIn)
      BY <2>2 DEF With, Infos
    <2>5. /\ f \in CopyIn =>
                \E p \in PossibleOccurrences : p.v = v /\ i \in CopiesFrom(p.c, p.b).in_types
          /\ f \in CopyOut \ CopyIn =>
                \E p \in PossibleOccurrences : p.v = v /\ i \in CopiesFrom(p.c, p.b).out_types
      BY <1>2, <1>3, <1>4, LedToCopy
    <2> HIDE DEF info
    <2>6. Justified(info, v)
      <3> HIDE DEF v, i
      <3>1. QED
        BY <2>2, <2>4, <2>5 DEF Justified
    <2>7. DOMAIN cmd' = DOMAIN cmd /\ \A w \in DOMAIN cmd : cmd'[w] = IF w = v THEN info ELSE cmd[w]
      BY <1>6 DEF info
    <2>8. ASSUME NEW w \in DOMAIN cmd PROVE cmd'[w] \in Infos /\ Justified(cmd'[w], w)
      <3>1. CASE w = v
        BY <2>3, <2>6, <2>7, <3>1
      <3>2. CASE w # v
        <4>1. cmd'[w] = cmd[w]
          BY <2>7, <3>2
        <4>2. QED
          BY <2>1, <4>1 DEF CmdInv
      <3>3. QED
        BY <3>1, <3>2
    <2>9. QED
      BY <2>1, <2>7, <2>8 DEF CmdInv
  <1>12. QED
    BY <1>6, <1>10, <1>11 DEF WalkInv, NoCmdIsEmpty, CmdInv, Justified

\* The object for a callee is well formed.
LEMMA NewCalleeIsGood ==
    ASSUME NEW o, NEW known, Good(o, known), NEW f \in o.targets, f \notin Declared,
           ~ (o.typing /\ IsCopy(f)), Follows(o.context, o.ci)
    PROVE  Good(Object(Callee(o.context, o.ci, f), o.typing, InheritedCmd(o)), known)
  <1> DEFINE c == o.context
             i == o.ci
             d == Callee(c, i, f)
             n == Len(c.calls)
  <1>1. o \in Frame /\ InContext(o) /\ Calling(o) /\ ForCommand(o, known)
    BY DEF Good
  <1>2. i \in InstsOf(c.fn) /\ i \in Insts /\ Kind[i] = "call" /\ f \in Targets(i)
    BY <1>1 DEF Calling, InstsOf
  <1>3. c \in Opened /\ n \in Nat /\ n <= MAX_FUNC_DEPTH /\ Follows(c, i)
    BY <1>1 DEF InContext, Opened, Follows
  <1>4. f \in Functions \ Declared
    BY <1>2, TargetsType
  <1>5. d \in Opened /\ d.fn = f /\ Len(d.calls) = n + 1
    BY <1>2, <1>3, <1>4, CalleeType
  <1>6. n \in 0 .. MAX_FUNC_DEPTH /\ Len(d.calls) <= MAX_FUNC_DEPTH + 1
    BY <1>3, <1>5, CodeAssumption
  <1>7. d \in ContextsWithin(AllBlocks)[n + 1]
    BY <1>1, <1>2, <1>3, <1>6, CalleeWithin DEF InContext
  <1>8. o.typing => o.current_cmd \in known /\ \A x \in BlocksOf(d.fn) : Led(d, x, o.current_cmd)
    <2> SUFFICES ASSUME o.typing
                 PROVE  o.current_cmd \in known /\ \A x \in BlocksOf(d.fn) : Led(d, x, o.current_cmd)
      OBVIOUS
    <2>1. o.current_cmd \in known /\ Led(c, BlockOf[i], o.current_cmd)
      BY <1>1 DEF ForCommand
    <2>2. f \notin Ignored
      BY DEF Ignored
    <2>3. \A x \in BlocksOf(f) : Led(d, x, o.current_cmd)
      BY <1>2, <1>3, <2>1, <2>2, LedOn
    <2>4. QED
      BY <1>5, <2>1, <2>3
  <1>9. o.typing \in BOOLEAN /\ o.current_cmd \in Nat \cup {Null, Garbage}
    BY <1>1 DEF Frame
  <1> HIDE DEF d, n
  <1>10. Good(Object(d, o.typing, o.current_cmd), known)
    BY <1>5, <1>6, <1>7, <1>8, <1>9, NewObjectIsGood
  <1>11. QED
    BY <1>10 DEF d, InheritedCmd

LEMMA CheckCalleeInv == ASSUME WalkInv, NEW f \in Functions, CheckCallee(f) PROVE WalkInv'
  <1> DEFINE i == Top.ci
             goes_on == Top.count_callee <= MAX_CALLEE_COUNT
             new == [Top EXCEPT !.targets = @ \ {f},
                       !.count_callee = IF goes_on /\ f \notin Declared THEN @ + 1 ELSE @]
             on == goes_on /\ f \notin Declared /\ Follows(Top.context, i)
             callee == Object(Callee(Top.context, i, f), Top.typing, InheritedCmd(Top))
             known == DOMAIN cmd
             count == IF goes_on /\ f \notin Declared THEN Top.count_callee + 1 ELSE Top.count_callee
  <1>1. stack # <<>> /\ f \in Top.targets /\ ~ (Top.typing /\ IsCopy(f))
    BY DEF CheckCallee
  <1>2. Good(Top, known) /\ Top \in Frame
    BY <1>1, TopFacts
  <1>3. stack' = (IF on THEN Append(This(new), callee) ELSE This(new))
        /\ UNCHANGED <<block_order, cmd, no_cmd>>
    BY DEF CheckCallee
  <1>4. new \in Frame
    <2>1. Top.count_callee \in Nat
      BY <1>2 DEF Frame
    <2>2. count \in Nat
      BY <2>1
    <2>3. new = [Top EXCEPT !.targets = @ \ {f}, !.count_callee = count]
      BY <1>2 DEF Frame
    <2> HIDE DEF count, new
    <2>4. QED
      BY <1>2, <2>2, <2>3 DEF Frame
  <1>5. /\ new.context = Top.context /\ new.typing = Top.typing /\ new.ci = Top.ci
        /\ new.targets \subseteq Top.targets
        /\ new.all_bb = Top.all_bb /\ new.insts = Top.insts
        /\ new.type_bb = Top.type_bb /\ new.type_insts = Top.type_insts
        /\ new.cases = Top.cases /\ new.curr_cmd = Top.curr_cmd
        /\ new.current_cmd = Top.current_cmd
    BY <1>2 DEF Frame
  <1>6. on => Good(callee, known)
    <2> HIDE DEF known
    <2>1. QED
      BY <1>1, <1>2, NewCalleeIsGood
  <1>7. StackInv(stack, known)
    BY DEF WalkInv
  <1> HIDE DEF new, callee, known
  <1>8. Good(new, known)
    BY <1>2, <1>4, <1>5, FewerTargets
  <1>9. StackInv(This(new), known)
    BY <1>1, <1>7, <1>8, ThisIsGood
  <1>10. on => StackInv(Append(This(new), callee), known)
    BY <1>6, <1>9, AppendIsGood
  <1>11. StackInv(stack', known)
    BY <1>3, <1>9, <1>10
  <1>12. StackInv(stack', DOMAIN cmd')
    BY <1>3, <1>11 DEF known
  <1>13. QED
    BY <1>3, <1>12 DEF WalkInv, NoCmdIsEmpty, CmdInv, Justified

LEMMA EndCmdInv == ASSUME WalkInv, EndCmd PROVE WalkInv'
  <1> DEFINE new == [Top EXCEPT !.typing = FALSE, !.cases = Tail(@),
                        !.all_bb = @ \ LeftOut(Head(Top.cases)[2])]
  <1>1. stack # <<>> /\ Top.targets = {} /\ Top.cases # <<>> /\ Top.type_insts = {}
    BY DEF EndCmd, RanType, InType
  <1>2. Top \in Frame /\ InContext(Top) /\ OwnCode(Top) /\ Tested(Top)
    BY <1>1, TopFacts
  <1>3. /\ Tail(Top.cases) \in Seq(Nat \X Blocks)
        /\ \A k \in DOMAIN Tail(Top.cases) :
              k + 1 \in DOMAIN Top.cases /\ Tail(Top.cases)[k] = Top.cases[k + 1]
    <2>1. Top.cases \in Seq(Nat \X Blocks)
      BY <1>2 DEF Frame
    <2>2. QED
      BY <1>1, <2>1
  <1>4. new \in Frame
    BY <1>2, <1>3 DEF Frame
  <1>5. /\ new.context = Top.context /\ new.typing = FALSE /\ new.targets = Top.targets
        /\ new.all_bb \subseteq Top.all_bb /\ new.insts = Top.insts
        /\ new.type_bb = Top.type_bb /\ new.type_insts = Top.type_insts
        /\ new.cases = Tail(Top.cases) /\ new.curr_cmd = Top.curr_cmd
    BY <1>2 DEF Frame
  <1>6. stack' = This(new) /\ UNCHANGED <<block_order, cmd, no_cmd>>
    BY DEF EndCmd
  <1> HIDE DEF new
  <1>7. Good(new, DOMAIN cmd)
    <2>1. InContext(new)
      BY <1>2, <1>5 DEF InContext
    <2>2. OwnCode(new)
      BY <1>1, <1>2, <1>5 DEF OwnCode
    <2>3. Tested(new)
      BY <1>2, <1>3, <1>5 DEF Tested
    <2>4. Calling(new) /\ ForCommand(new, DOMAIN cmd)
      BY <1>1, <1>5 DEF Calling, ForCommand
    <2>5. QED
      BY <1>4, <2>1, <2>2, <2>3, <2>4 DEF Good
  <1>8. QED
    BY <1>1, <1>6, <1>7, TopChanges

LEMMA ReturnInv == ASSUME WalkInv, Return PROVE WalkInv'
  <1>1. /\ stack # <<>>
        /\ stack' = SubSeq(stack, 1, Len(stack) - 1)
        /\ UNCHANGED <<block_order, cmd, no_cmd>>
    BY DEF Return, RanType, InType, InCmd
  <1> DEFINE known == DOMAIN cmd
  <1>2. StackInv(stack, known)
    BY DEF WalkInv
  <1> HIDE DEF known
  <1>3. StackInv(SubSeq(stack, 1, Len(stack) - 1), known)
    BY <1>1, <1>2, FrontIsGood
  <1>4. StackInv(stack', DOMAIN cmd')
    BY <1>1, <1>3 DEF known
  <1>5. QED
    BY <1>1, <1>4 DEF WalkInv, NoCmdIsEmpty, CmdInv, Justified

LEMMA NextInv == WalkInv /\ [Next]_vars => WalkInv'
  <1> SUFFICES ASSUME WalkInv, [Next]_vars PROVE WalkInv'
    OBVIOUS
  <1>1. CASE TakeBlock
    BY <1>1, TakeBlockInv
  <1>2. ASSUME NEW i \in Insts, CheckCallCmd(i) \/ Switch(i) \/ ICmp(i) \/ Br(i) PROVE WalkInv'
    BY <1>2, CheckCallCmdInv, SwitchInv, ICmpInv, BrInv
  <1>3. CASE BeginCmd
    BY <1>3, BeginCmdInv
  <1>4. CASE TakeTypeBlock
    BY <1>4, TakeTypeBlockInv
  <1>5. CASE CheckCallType
    BY <1>5, CheckCallTypeInv
  <1>6. ASSUME NEW f \in Functions, RecordCopy(f) \/ CheckCallee(f) PROVE WalkInv'
    BY <1>6, RecordCopyInv, CheckCalleeInv
  <1>7. CASE EndCmd
    BY <1>7, EndCmdInv
  <1>8. CASE Return
    BY <1>8, ReturnInv
  <1>9. CASE UNCHANGED vars
    BY <1>9 DEF vars, WalkInv, NoCmdIsEmpty, StackInv, CmdInv, Good, InContext, OwnCode, Tested,
                Calling, ForCommand, Justified
  <1>10. QED
    BY <1>1, <1>2, <1>3, <1>4, <1>5, <1>6, <1>7, <1>8, <1>9 DEF Next

LEMMA WalkCorrect == Spec => []WalkInv
  <1>1. Init => WalkInv
    BY InitInv
  <1>2. WalkInv /\ [Next]_vars => WalkInv'
    BY NextInv
  <1>3. QED
    BY <1>1, <1>2, PTL DEF Spec

(***************************************************************************)
(* The type invariant holds, for every handler: each object is well formed,*)
(* however deep, and each record of a command has blocks and copies of the *)
(* program.                                                                *)
(***************************************************************************)
THEOREM TypeCorrect == Spec => []TypeOK
  <1>1. WalkInv => TypeOK
    <2> SUFFICES ASSUME WalkInv PROVE TypeOK
      OBVIOUS
    <2>1. no_cmd \in [in_types : SUBSET Insts, out_types : SUBSET Insts]
      BY DEF WalkInv, NoCmdIsEmpty
    <2>2. QED
      BY <2>1 DEF WalkInv, StackInv, CmdInv, Infos, TypeOK
  <1>2. QED
    BY <1>1, WalkCorrect, PTL

(***************************************************************************)
(* run_type() always works for a command that has been found: the pointer  *)
(* that collect_cmd_and_type() leaves uninitialised is never used, at any  *)
(* depth of calls and for any order of blocks.                             *)
(***************************************************************************)
THEOREM CommandAlwaysKnown == Spec => []CommandIsKnown
  <1>1. WalkInv => CommandIsKnown
    BY DEF WalkInv, StackInv, Good, ForCommand, CommandIsKnown
  <1>2. QED
    BY <1>1, WalkCorrect, PTL

(***************************************************************************)
(* A command and its block are only recorded for tests of the command that *)
(* the code of the handler has, and its copies for ways from such tests:   *)
(* by calls exactly, by blocks as far as LLVM's bounded search can tell    *)
(* (DefaultMaxBBsToExplore), so exactly after tests of few blocks.         *)
(***************************************************************************)
THEOREM CommandsJustified == Spec => []CommandsAreSound
  <1>1. WalkInv => CommandsAreSound
    <2> SUFFICES ASSUME WalkInv, NEW v \in DOMAIN cmd
                 PROVE  LET here == {o \in PossibleOccurrences : o.v = v} IN
                        /\ \E o \in here : o.b = cmd[v].b
                        /\ cmd[v].in_types \subseteq UNION {Copies[o].in_types : o \in here}
                        /\ cmd[v].out_types \subseteq UNION {Copies[o].out_types : o \in here}
      BY DEF CommandsAreSound
    <2>1. Justified(cmd[v], v)
      BY DEF WalkInv, CmdInv
    <2>2. \A o \in PossibleOccurrences : Copies[o] = CopiesFrom(o.c, o.b)
      BY DEF Copies
    <2>3. QED
      BY <2>1, <2>2 DEF Justified
  <1>2. QED
    BY <1>1, WalkCorrect, PTL

(***************************************************************************)
(* dd->no_cmd is never filled: run_cmd() passes by what it copies before it*)
(* has found a command, and run_type() only runs for one.                  *)
(***************************************************************************)
THEOREM NothingOutsideCommands == Spec => []NoCmdIsEmpty
  <1>1. WalkInv => NoCmdIsEmpty
    BY DEF WalkInv
  <1>2. QED
    BY <1>1, WalkCorrect, PTL

(***************************************************************************)
(* Nothing is missed.  What is done with a block, or with a context, is    *)
(* stated by the sets that are closed under calls: a block is done for a   *)
(* command if it is in a set of blocks all copies of which are recorded,   *)
(* and with each call that is followed all blocks of the callee.           *)
(***************************************************************************)

\* Target f of the call i is recorded for the command v, if it copies.
Recorded(m, v, i, f) ==
    /\ f \in CopyIn => i \in m[v].in_types
    /\ f \in CopyOut \ CopyIn => i \in m[v].out_types

TypedSet(m, v, S) ==
    /\ S \in SUBSET (Opened \X Blocks)
    /\ \A c \in Opened, x \in Blocks : <<c, x>> \in S =>
          \A i \in CallsIn(x) : \A f \in Targets(i) :
             /\ Recorded(m, v, i, f)
             /\ f \notin Ignored /\ Follows(c, i) => \A y \in BlocksOf(f) : <<Callee(c, i, f), y>> \in S

TypeDone(m, v, c, x) == v \in DOMAIN m /\ \E S : TypedSet(m, v, S) /\ <<c, x>> \in S

TargetTyped(m, v, c, i, f) ==
    /\ Recorded(m, v, i, f)
    /\ f \notin Ignored /\ Follows(c, i) => \A y \in BlocksOf(f) : TypeDone(m, v, Callee(c, i, f), y)

\* All that a test of v leading to block b asks for.
Complete(m, v, c, b) == v \in DOMAIN m /\ \A x \in Reachable[b] : TypeDone(m, v, c, x)

SureOf(c) == SwitchOccurrences(c) \cup BranchOccurrences(c)

DoneSet(m, S) ==
    /\ S \in SUBSET Opened
    /\ \A c \in S :
          /\ \A p \in SureOf(c) : p.at \in KeptBlocks(c) => Complete(m, p.v, c, p.b)
          /\ \A x \in KeptBlocks(c) : CalleesAt(c, x, Declared) \subseteq S

CmdDone(m, c) == \E S : DoneSet(m, S) /\ c \in S

\* What is found stays found.
Grown(m, n) ==
    /\ DOMAIN m \subseteq DOMAIN n
    /\ \A v \in DOMAIN m : m[v].in_types \subseteq n[v].in_types /\ m[v].out_types \subseteq n[v].out_types

LEMMA TypeDoneOpens ==
    ASSUME NEW m, NEW v, NEW c \in Opened, NEW x \in Blocks, TypeDone(m, v, c, x),
           NEW i \in CallsIn(x), NEW f \in Targets(i)
    PROVE  TargetTyped(m, v, c, i, f)
  <1>1. PICK S : TypedSet(m, v, S) /\ <<c, x>> \in S
    BY DEF TypeDone
  <1>2. /\ Recorded(m, v, i, f)
        /\ f \notin Ignored /\ Follows(c, i) => \A y \in BlocksOf(f) : <<Callee(c, i, f), y>> \in S
    BY <1>1 DEF TypedSet
  <1>3. v \in DOMAIN m
    BY DEF TypeDone
  <1>4. QED
    BY <1>1, <1>2, <1>3 DEF TargetTyped, TypeDone

LEMMA TypeDoneCloses ==
    ASSUME NEW m, NEW v \in DOMAIN m, NEW c \in Opened, NEW x \in Blocks,
           \A i \in CallsIn(x) : \A f \in Targets(i) : TargetTyped(m, v, c, i, f)
    PROVE  TypeDone(m, v, c, x)
  <1> DEFINE S == {p \in Opened \X Blocks : TypeDone(m, v, p[1], p[2]) \/ p = <<c, x>>}
  <1>1. <<c, x>> \in S
    OBVIOUS
  <1>2. ASSUME NEW d \in Opened, NEW y \in Blocks, <<d, y>> \in S,
               NEW i \in CallsIn(y), NEW f \in Targets(i)
        PROVE  /\ Recorded(m, v, i, f)
               /\ f \notin Ignored /\ Follows(d, i) =>
                     \A z \in BlocksOf(f) : <<Callee(d, i, f), z>> \in S
    <2>1. TypeDone(m, v, d, y) \/ (d = c /\ y = x)
      BY <1>2
    <2>2. TargetTyped(m, v, d, i, f)
      BY <2>1, TypeDoneOpens
    <2>3. ASSUME f \notin Ignored, NEW z \in BlocksOf(f), Follows(d, i)
          PROVE  <<Callee(d, i, f), z>> \in S
      <3>1. TypeDone(m, v, Callee(d, i, f), z)
        BY <2>2, <2>3 DEF TargetTyped
      <3>2. i \in Insts
        BY DEF CallsIn, InstsIn
      <3>3. f \in Functions \ Declared
        BY <2>3, <3>2, TargetsType DEF Ignored
      <3>4. Callee(d, i, f) \in Opened /\ z \in Blocks
        BY <3>2, <3>3, CalleeType DEF BlocksOf
      <3>5. QED
        BY <3>1, <3>4
    <2>4. QED
      BY <2>2, <2>3 DEF TargetTyped
  <1>3. S \in SUBSET (Opened \X Blocks)
    OBVIOUS
  <1> HIDE DEF S
  <1>4. TypedSet(m, v, S)
    BY <1>2, <1>3 DEF TypedSet
  <1>5. QED
    BY <1>1, <1>4 DEF TypeDone

LEMMA TypeDoneGrows ==
    ASSUME NEW m, NEW n, Grown(m, n), NEW v, NEW c, NEW x, TypeDone(m, v, c, x)
    PROVE  TypeDone(n, v, c, x)
  <1>1. PICK S : TypedSet(m, v, S) /\ <<c, x>> \in S
    BY DEF TypeDone
  <1>2. v \in DOMAIN m /\ v \in DOMAIN n
    BY DEF TypeDone, Grown
  <1>3. \A i, f : Recorded(m, v, i, f) => Recorded(n, v, i, f)
    BY <1>2 DEF Recorded, Grown
  <1>4. TypedSet(n, v, S)
    BY <1>1, <1>3 DEF TypedSet
  <1>5. QED
    BY <1>1, <1>2, <1>4 DEF TypeDone

LEMMA TargetTypedGrows ==
    ASSUME NEW m, NEW n, Grown(m, n), NEW v \in DOMAIN m, NEW c, NEW i, NEW f,
           TargetTyped(m, v, c, i, f)
    PROVE  TargetTyped(n, v, c, i, f)
  <1>1. Recorded(n, v, i, f)
    BY DEF TargetTyped, Recorded, Grown
  <1>2. QED
    BY <1>1, TypeDoneGrows DEF TargetTyped

LEMMA CompleteGrows ==
    ASSUME NEW m, NEW n, Grown(m, n), NEW v, NEW c, NEW b, Complete(m, v, c, b)
    PROVE  Complete(n, v, c, b)
  <1>1. v \in DOMAIN n
    BY DEF Complete, Grown
  <1>2. QED
    BY <1>1, TypeDoneGrows DEF Complete

LEMMA CmdDoneGrows ==
    ASSUME NEW m, NEW n, Grown(m, n), NEW c, CmdDone(m, c)
    PROVE  CmdDone(n, c)
  <1>1. PICK S : DoneSet(m, S) /\ c \in S
    BY DEF CmdDone
  <1>2. DoneSet(n, S)
    BY <1>1, CompleteGrows DEF DoneSet
  <1>3. QED
    BY <1>1, <1>2 DEF CmdDone

LEMMA CmdDoneCloses ==
    ASSUME NEW m, NEW c \in Opened,
           \A p \in SureOf(c) : p.at \in KeptBlocks(c) => Complete(m, p.v, c, p.b),
           \A x \in KeptBlocks(c) : \A i \in CallsIn(x) : \A f \in Targets(i) \ Declared :
              Follows(c, i) => CmdDone(m, Callee(c, i, f))
    PROVE  CmdDone(m, c)
  <1> DEFINE S == {d \in Opened : CmdDone(m, d) \/ d = c}
  <1>1. ASSUME NEW d \in S
        PROVE  /\ \A p \in SureOf(d) : p.at \in KeptBlocks(d) => Complete(m, p.v, d, p.b)
               /\ \A x \in KeptBlocks(d) : CalleesAt(d, x, Declared) \subseteq S
    <2>1. CASE CmdDone(m, d)
      <3>1. PICK R : DoneSet(m, R) /\ d \in R
        BY <2>1 DEF CmdDone
      <3>2. R \subseteq S
        BY <3>1 DEF DoneSet, CmdDone
      <3> HIDE DEF S
      <3>3. QED
        BY <3>1, <3>2 DEF DoneSet
    <2>2. CASE d = c
      <3>1. ASSUME NEW x \in KeptBlocks(c), NEW e \in CalleesAt(c, x, Declared) PROVE e \in S
        <4>1. PICK i \in CallsIn(x) :
                 Follows(c, i) /\ \E f \in Targets(i) \ Declared : e = Callee(c, i, f)
          BY DEF CalleesAt
        <4>2. CmdDone(m, e)
          BY <4>1
        <4>3. e \in Opened
          BY CalleesAtType
        <4>4. QED
          BY <4>2, <4>3
      <3> HIDE DEF S
      <3>2. QED
        BY <2>2, <3>1
    <2>3. QED
      BY <2>1, <2>2
  <1>2. S \in SUBSET Opened /\ c \in S
    OBVIOUS
  <1> HIDE DEF S
  <1>3. DoneSet(m, S)
    BY <1>1, <1>2 DEF DoneSet
  <1>4. QED
    BY <1>2, <1>3 DEF CmdDone

\* A branch on the comparison before it is one of those the walk may take for one.
LEMMA SureAreLoose == ASSUME NEW c PROVE SureOf(c) \subseteq OccurrencesOf(c)
  <1>1. BranchOccurrences(c) \subseteq LooseOccurrences(c)
    <2> SUFFICES ASSUME NEW p \in BranchOccurrences(c) PROVE p \in LooseOccurrences(c)
      OBVIOUS
    <2>1. PICK q \in Comparisons(c) \X Branches(c) : p = Occurrence(c, Compared[q[1]], q[2], 1)
      BY DEF BranchOccurrences
    <2>2. q[1] \in Comparisons(c) /\ q[2] \in Branches(c)
      OBVIOUS
    <2>3. QED
      BY <2>1, <2>2 DEF LooseOccurrences
  <1>2. QED
    BY <1>1 DEF SureOf, OccurrencesOf

(***************************************************************************)
(* What is done in the end is all there is to find.                        *)
(***************************************************************************)

\* The contexts that calls in kept blocks lead to, n calls deep at most.
LEMMA KeptContextsEquation ==
    LET W == ContextsWithin(KeptBlocks)
        N == MAX_FUNC_DEPTH + 1
    IN  /\ W[0] = {Root}
        /\ \A n \in 1 .. N :
              W[n] = W[n - 1] \cup UNION {UNION {CalleesAt(c, b, Declared) : b \in KeptBlocks(c)} :
                                             c \in W[n - 1]}
  <1> DEFINE N == MAX_FUNC_DEPTH + 1
             more(X) == UNION {UNION {CalleesAt(c, b, Declared) : b \in KeptBlocks(c)} : c \in X}
             F == [X \in SUBSET Opened |-> more(X)]
             Equation(r) == r = [n \in 0 .. N |-> IF n = 0 THEN {Root}
                                                  ELSE r[n - 1] \cup more(r[n - 1])]
  <1>1. N \in Nat
    BY DepthIsNat
  <1>2. \A X \in SUBSET Opened : more(X) \in SUBSET Opened
    BY CalleesAtType
  <1>3. F \in [SUBSET Opened -> SUBSET Opened] /\ {Root} \in SUBSET Opened
    <2> HIDE DEF more
    <2>1. QED
      BY <1>2, RootType
  <1>4. PICK r : Iterates(r, Opened, {Root}, F, N)
    <2> HIDE DEF F, N
    <2>1. QED
      BY <1>1, <1>3, IterationExists
  <1> HIDE DEF more
  <1>5. Equation(r)
    <2>1. \A n \in 0 .. N : n # 0 => n \in 1 .. N /\ n - 1 \in 0 .. N
      BY <1>1
    <2>2. \A n \in 0 .. N : n # 0 => F[r[n - 1]] = more(r[n - 1])
      BY <1>4, <2>1 DEF Iterates
    <2>3. QED
      BY <1>4, <2>1, <2>2 DEF Iterates
  <1> DEFINE q == CHOOSE q : Equation(q)
  <1>6. Equation(q)
    BY <1>5
  <1>7. ContextsWithin(KeptBlocks) = q
    BY DEF ContextsWithin, more
  <1> HIDE DEF q
  <1>8. q[0] = {Root}
    BY <1>1, <1>6
  <1>9. \A n \in 1 .. N : q[n] = q[n - 1] \cup more(q[n - 1])
    <2> TAKE n \in 1 .. N
    <2>1. n \in 0 .. N /\ n # 0
      BY <1>1
    <2>2. QED
      BY <1>6, <2>1
  <1>10. QED
    BY <1>7, <1>8, <1>9 DEF more

\* A closed set of contexts holds all that are sure to be entered.
LEMMA DoneContexts ==
    ASSUME NEW m, NEW S, DoneSet(m, S), Root \in S
    PROVE  Contexts(KeptBlocks) \subseteq S
  <1> DEFINE W == ContextsWithin(KeptBlocks)
             N == MAX_FUNC_DEPTH + 1
             here(c) == UNION {CalleesAt(c, b, Declared) : b \in KeptBlocks(c)}
  <1>1. N \in Nat
    BY DepthIsNat
  <1>2. W[0] \subseteq S
    BY KeptContextsEquation
  <1>3. ASSUME NEW n \in 1 .. N, W[n - 1] \subseteq S PROVE W[n] \subseteq S
    <2>1. W[n] = W[n - 1] \cup UNION {here(c) : c \in W[n - 1]}
      BY KeptContextsEquation
    <2>2. \A c \in S : here(c) \subseteq S
      BY DEF DoneSet
    <2> HIDE DEF here, W
    <2>3. QED
      BY <1>3, <2>1, <2>2
  <1> HIDE DEF W, N
  <1>4. \A n \in 0 .. N : W[n] \subseteq S
    BY <1>1, <1>2, <1>3, Staying
  <1>5. QED
    BY <1>1, <1>4 DEF Contexts, W, N

\* All blocks on the ways from a complete test are done.
LEMMA WaysDone ==
    ASSUME NEW m, NEW v, NEW c \in Opened, NEW b \in Blocks, Complete(m, v, c, b)
    PROVE  \A p \in WaysFrom(c, b)[MAX_FUNC_DEPTH + 1] :
              p \in Opened \X Blocks /\ TypeDone(m, v, p[1], p[2])
  <1> DEFINE W == WaysFrom(c, b)
             N == MAX_FUNC_DEPTH + 1
             C == {p \in Opened \X Blocks : TypeDone(m, v, p[1], p[2])}
             here(p) == UNION {{d} \X BlocksOf(d.fn) : d \in CalleesAt(p[1], p[2], Ignored)}
  <1>1. N \in Nat
    BY DepthIsNat
  <1>2. W[0] \subseteq C
    <2>1. W[0] = {c} \X Reachable[b]
      BY WaysEquation
    <2>2. Reachable[b] \subseteq Blocks /\ \A x \in Reachable[b] : TypeDone(m, v, c, x)
      BY ReachableType DEF Complete, BlocksOf
    <2> HIDE DEF W
    <2>3. QED
      BY <2>1, <2>2
  <1>3. ASSUME NEW n \in 1 .. N, W[n - 1] \subseteq C PROVE W[n] \subseteq C
    <2>1. W[n] = W[n - 1] \cup UNION {here(p) : p \in W[n - 1]}
      BY WaysEquation
    <2>2. ASSUME NEW p \in C PROVE here(p) \subseteq C
      <3>1. p[1] \in Opened /\ p[2] \in Blocks /\ TypeDone(m, v, p[1], p[2])
        OBVIOUS
      <3>2. ASSUME NEW d \in CalleesAt(p[1], p[2], Ignored), NEW y \in BlocksOf(d.fn)
            PROVE  <<d, y>> \in C
        <4>1. PICK i \in CallsIn(p[2]) :
                 Follows(p[1], i) /\ \E f \in Targets(i) \ Ignored : d = Callee(p[1], i, f)
          BY DEF CalleesAt
        <4>2. PICK f \in Targets(i) \ Ignored : d = Callee(p[1], i, f)
          BY <4>1
        <4>3. i \in Insts
          BY DEF CallsIn, InstsIn
        <4>4. f \in Functions \ Declared
          BY <4>3, TargetsType DEF Ignored
        <4>5. d \in Opened /\ d.fn = f
          BY <3>1, <4>2, <4>3, <4>4, CalleeType
        <4>6. TargetTyped(m, v, p[1], i, f)
          BY <3>1, TypeDoneOpens
        <4>7. TypeDone(m, v, d, y)
          BY <4>1, <4>2, <4>5, <4>6 DEF TargetTyped
        <4>8. y \in Blocks
          BY DEF BlocksOf
        <4>9. QED
          BY <4>5, <4>7, <4>8
      <3> HIDE DEF C
      <3>3. QED
        BY <3>2
    <2> HIDE DEF here, W, C
    <2>3. QED
      BY <1>3, <2>1, <2>2
  <1> HIDE DEF W, N, C
  <1>4. \A n \in 0 .. N : W[n] \subseteq C
    BY <1>1, <1>2, <1>3, Staying
  <1>5. W[N] \subseteq C
    BY <1>1, <1>4
  <1>6. QED
    BY <1>5 DEF W, N, C

LEMMA CopiesDone ==
    ASSUME NEW m, NEW v, NEW c \in Opened, NEW b \in Blocks, Complete(m, v, c, b)
    PROVE  /\ CopiesFrom(c, b).in_types \subseteq m[v].in_types
           /\ CopiesFrom(c, b).out_types \subseteq m[v].out_types
  <1> DEFINE calls == UNION {CallsIn(p[2]) : p \in WaysFrom(c, b)[MAX_FUNC_DEPTH + 1]}
  <1>1. ASSUME NEW i \in calls, NEW f \in Targets(i) PROVE Recorded(m, v, i, f)
    <2>1. PICK p \in WaysFrom(c, b)[MAX_FUNC_DEPTH + 1] : i \in CallsIn(p[2])
      OBVIOUS
    <2>2. p[1] \in Opened /\ p[2] \in Blocks /\ TypeDone(m, v, p[1], p[2])
      BY WaysDone
    <2>3. TargetTyped(m, v, p[1], i, f)
      BY <2>1, <2>2, TypeDoneOpens
    <2>4. QED
      BY <2>3 DEF TargetTyped
  <1>2. /\ CopiesFrom(c, b).in_types = {i \in calls : Targets(i) \cap CopyIn # {}}
        /\ CopiesFrom(c, b).out_types = {i \in calls : Targets(i) \cap (CopyOut \ CopyIn) # {}}
    BY DEF CopiesFrom
  <1> HIDE DEF calls
  <1>3. QED
    BY <1>1, <1>2 DEF Recorded

\* A handler that is done has all its sure commands with all their copies.
LEMMA DoneIsComplete ==
    ASSUME CmdDone(cmd, Root), NEW p \in SureOccurrences
    PROVE  /\ p.v \in DOMAIN cmd
           /\ Copies[p].in_types \subseteq cmd[p.v].in_types
           /\ Copies[p].out_types \subseteq cmd[p.v].out_types
  <1>1. PICK S : DoneSet(cmd, S) /\ Root \in S
    BY DEF CmdDone
  <1>2. PICK c \in Contexts(KeptBlocks) : p \in SureOf(c)
    BY DEF SureOccurrences, SureOf
  <1>3. c \in S /\ c \in Opened
    BY <1>1, DoneContexts DEF DoneSet
  <1>4. p.c = c /\ p.b \in Blocks
    <2>1. p \in OccurrencesOf(c)
      BY <1>2, SureAreLoose
    <2>2. QED
      BY <2>1, OccurrenceFacts DEF BlocksOf
  <1>5. p.at \in KeptBlocks(c)
    BY <1>4 DEF SureOccurrences
  <1>6. Complete(cmd, p.v, c, p.b)
    BY <1>1, <1>2, <1>3, <1>5 DEF DoneSet
  <1>7. Copies[p] = CopiesFrom(c, p.b)
    BY <1>4 DEF Copies
  <1>8. QED
    BY <1>3, <1>4, <1>6, <1>7, CopiesDone DEF Complete

(***************************************************************************)
(* The invariant.  What an object has left behind is found: in the blocks  *)
(* run_type() has taken every target of a call is recorded and done, but   *)
(* for those it has left to see and the one that the object above works on *)
(* (TypesFound); the same for the blocks run_cmd() has taken, except those *)
(* that may be left out (CmdsFound).  The objects are chained: what types  *)
(* for a command made an object that types for the same, and what is in    *)
(* run_cmd() made one that runs it.                                        *)
(***************************************************************************)

\* An object that was made to run run_cmd(); the cases are what it types for.
CmdObject(o) == ~ o.typing \/ o.cases # <<>>

\* The blocks run_type() started with.
Start(o) == IF o.cases = <<>> THEN BlocksOf(o.context.fn) ELSE Reachable[Head(o.cases)[2]]

CallTyped(o, m, up, i, f) ==
    \/ i = o.ci /\ f \in o.targets
    \/ TargetTyped(m, o.current_cmd, o.context, i, f)
    \/ ~ IsCopy(f) /\ Callee(o.context, i, f) \in up

TypesFound(o, m, up) ==
    o.typing =>
        \A x \in Start(o) \ o.type_bb : \A i \in CallsIn(x) :
            i \in o.type_insts \/ \A f \in Targets(i) : CallTyped(o, m, up, i, f)

CallDone(o, m, up, i, f) ==
    \/ ~ o.typing /\ i = o.ci /\ f \in o.targets
    \/ Follows(o.context, i) => CmdDone(m, Callee(o.context, i, f))
    \/ ~ o.typing /\ Callee(o.context, i, f) \in up

\* The walk is in block b and its last instruction, where a test is decided, is to come.
AtTest(o, b) == \E j \in o.insts : BlockOf[j] = b /\ Kind[j] \in {"br", "switch"}

Found(o, m, p) == Complete(m, p.v, o.context, p.b) \/ <<p.v, p.b>> \in Range(o.cases)

CmdsFound(o, m, up) ==
    CmdObject(o) =>
        /\ \A x \in KeptBlocks(o.context) \ o.all_bb : \A i \in CallsIn(x) :
              i \in o.insts \/ \A f \in Targets(i) \ Declared : CallDone(o, m, up, i, f)
        /\ \A p \in SureOf(o.context) : p.at \in KeptBlocks(o.context) \ o.all_bb =>
              AtTest(o, p.at) \/ Found(o, m, p)

\* The instructions that are left are the last ones of one block.
InOrder(o) ==
    \E b \in Blocks :
        o.insts \subseteq InstsIn(b) /\ \A i \in InstsIn(b) \ o.insts : \A j \in o.insts : i < j

\* Branch j belongs to comparison i.
Belongs(c, i, j) ==
    /\ i \in Comparisons(c) /\ j \in Branches(c)
    /\ BlockOf[i] = BlockOf[j]
    /\ \A k \in Tests(c, "icmp") : BlockOf[k] = BlockOf[i] => k <= i

\* The constant of a comparison is remembered until its branch comes.
Remembered(o) ==
    \A i, j \in Insts : Belongs(o.context, i, j) /\ j \in o.insts => i \in o.insts \/ o.curr_cmd = Compared[i]

OwnCmd(o) == o.typing /\ o.cases # <<>> => o.current_cmd = Head(o.cases)[1]

Served(o, m, up) ==
    TypesFound(o, m, up) /\ CmdsFound(o, m, up) /\ InOrder(o) /\ Remembered(o) /\ OwnCmd(o)

\* Object p was made by object o.
Chained(o, p) ==
    IF o.typing THEN p.typing /\ p.cases = <<>> /\ p.current_cmd = o.current_cmd
    ELSE CmdObject(p)

\* The context of the object above the k-th.
Up(s, k) == IF k < Len(s) THEN {s[k + 1].context} ELSE {}

FindsAll(s, m) ==
    /\ \A k \in DOMAIN s : Served(s[k], m, Up(s, k))
    /\ \A k \in DOMAIN s : k < Len(s) => Chained(s[k], s[k + 1])
    /\ IF s = <<>> THEN CmdDone(m, Root) ELSE s[1].context = Root /\ CmdObject(s[1])

\* What a step of an object may not change for those below.
Keeps(o, new) ==
    /\ new.context = o.context
    /\ CmdObject(o) => CmdObject(new)
    /\ ~ CmdObject(o) => new.typing /\ new.cases = <<>> /\ new.current_cmd = o.current_cmd

LEMMA CmdsFoundGrow ==
    ASSUME NEW o, NEW m, NEW n, Grown(m, n), NEW up, CmdsFound(o, m, up)
    PROVE  CmdsFound(o, n, up)
  <1>1. \A i, f : CallDone(o, m, up, i, f) => CallDone(o, n, up, i, f)
    BY CmdDoneGrows DEF CallDone
  <1>2. \A p : Found(o, m, p) => Found(o, n, p)
    BY CompleteGrows DEF Found
  <1>3. QED
    BY <1>1, <1>2 DEF CmdsFound

LEMMA TypesFoundGrow ==
    ASSUME NEW o, NEW m, NEW n, Grown(m, n), NEW up, TypesFound(o, m, up),
           o.typing => o.current_cmd \in DOMAIN m
    PROVE  TypesFound(o, n, up)
  <1>1. o.typing => \A i, f : CallTyped(o, m, up, i, f) => CallTyped(o, n, up, i, f)
    BY TargetTypedGrows DEF CallTyped
  <1>2. QED
    BY <1>1 DEF TypesFound

LEMMA ServedGrows ==
    ASSUME NEW o, NEW m, NEW n, Grown(m, n), NEW up, Served(o, m, up),
           o.typing => o.current_cmd \in DOMAIN m
    PROVE  Served(o, n, up)
  BY CmdsFoundGrow, TypesFoundGrow DEF Served

LEMMA GrownSelf == ASSUME NEW m PROVE Grown(m, m)
  BY DEF Grown

\* Two stacks have the same objects below the n-th.
SameBelow(s, t, n) == \A k \in 1 .. n - 1 : s[k] = t[k]

\* One object more at most.
OneMore(s, t) == Len(s) = Len(t) \/ Len(s) = Len(t) + 1

\* A step of the object on top, which may make another one.
LEMMA TopServed ==
    ASSUME WalkInv, FindsAll(stack, cmd), stack # <<>>, NEW n, Grown(cmd, n),
           NEW new, Keeps(Top, new), NEW s \in Seq(Frame), OneMore(s, stack),
           SameBelow(s, stack, Len(stack)),
           s[Len(stack)] = new, Served(new, n, Up(s, Len(stack))),
           Len(s) # Len(stack) =>
               Served(s[Len(stack) + 1], n, {}) /\ Chained(new, s[Len(stack) + 1])
    PROVE  FindsAll(s, n)
  <1> DEFINE L == Len(stack)
             M == Len(s)
  <1>1. L \in Nat \ {0} /\ DOMAIN stack = 1 .. L /\ (M = L \/ M = L + 1)
    BY DEF WalkInv, StackInv, OneMore
  <1>2. Top = stack[L]
    BY DEF Top
  <1>3. DOMAIN s = 1 .. M
    OBVIOUS
  <1>4. SameBelow(s, stack, L) /\ s[L] = new /\ Served(new, n, Up(s, L))
        /\ (M # L => Served(s[L + 1], n, {}) /\ Chained(new, s[L + 1]))
    OBVIOUS
  <1>5. \A k : Up(s, k) = IF k < M THEN {s[k + 1].context} ELSE {}
    BY DEF Up
  <1>6. \A k : Up(stack, k) = IF k < L THEN {stack[k + 1].context} ELSE {}
    BY DEF Up
  <1>7. /\ \A k \in 1 .. L : Served(stack[k], cmd, Up(stack, k))
        /\ \A k \in 1 .. L : k < L => Chained(stack[k], stack[k + 1])
        /\ stack[1].context = Root /\ CmdObject(stack[1])
    BY <1>1 DEF FindsAll
  <1>8. \A k \in 1 .. L : stack[k].typing => stack[k].current_cmd \in DOMAIN cmd
    BY <1>1 DEF WalkInv, StackInv, Good, ForCommand
  <1>9. \A k \in 1 .. L - 1 : s[k] = stack[k]
    BY DEF SameBelow
  <1>10. s = <<>> <=> M = 0
    BY <1>3
  <1> HIDE DEF L, M
  <1>11. ASSUME NEW k \in 1 .. L - 1 PROVE Up(s, k) = Up(stack, k)
    <2>1. k < L /\ k < M
      BY <1>1
    <2>2. s[k + 1].context = stack[k + 1].context
      <3>1. CASE k + 1 = L
        BY <1>2, <1>4, <3>1 DEF Keeps
      <3>2. CASE k + 1 # L
        <4>1. k + 1 \in 1 .. L - 1
          BY <1>1, <3>2
        <4>2. QED
          BY <1>9, <4>1
      <3>3. QED
        BY <3>1, <3>2
    <2>3. QED
      BY <1>5, <1>6, <2>1, <2>2
  <1>12. ASSUME NEW k \in 1 .. M PROVE Served(s[k], n, Up(s, k))
    <2>1. CASE k \in 1 .. L - 1
      <3>1. k \in 1 .. L /\ s[k] = stack[k]
        BY <1>1, <1>9, <2>1
      <3>2. Served(stack[k], n, Up(stack, k))
        BY <1>7, <1>8, <3>1, ServedGrows
      <3>3. QED
        BY <1>11, <2>1, <3>1, <3>2
    <2>2. CASE k = L
      BY <1>4, <2>2
    <2>3. CASE k = L + 1
      <3>1. M # L /\ ~ k < M
        BY <1>1, <2>3
      <3>2. Up(s, k) = {}
        BY <1>5, <3>1
      <3>3. QED
        BY <1>4, <2>3, <3>1, <3>2
    <2>4. k \in 1 .. L - 1 \/ k = L \/ k = L + 1
      BY <1>1
    <2>5. QED
      BY <2>1, <2>2, <2>3, <2>4
  <1>13. ASSUME NEW k \in 1 .. M, k < M PROVE Chained(s[k], s[k + 1])
    <2>1. CASE k \in 1 .. L - 2
      <3>1. k \in 1 .. L /\ k < L /\ k \in 1 .. L - 1 /\ k + 1 \in 1 .. L - 1
        BY <1>1, <2>1
      <3>2. s[k] = stack[k] /\ s[k + 1] = stack[k + 1]
        BY <1>9, <3>1
      <3>3. QED
        BY <1>7, <3>1, <3>2
    <2>2. CASE k = L - 1
      <3>1. k \in 1 .. L /\ k < L /\ k \in 1 .. L - 1 /\ k + 1 = L
        BY <1>1, <2>2
      <3>2. Chained(stack[k], Top)
        BY <1>2, <1>7, <3>1
      <3>3. Chained(stack[k], new)
        BY <3>2 DEF Chained, Keeps, CmdObject
      <3>4. QED
        BY <1>4, <1>9, <3>1, <3>3
    <2>3. CASE k = L
      <3>1. M # L
        BY <1>1, <1>13, <2>3
      <3>2. QED
        BY <1>4, <2>3, <3>1
    <2>4. k \in 1 .. L - 2 \/ k = L - 1 \/ k = L
      BY <1>1, <1>13
    <2>5. QED
      BY <2>1, <2>2, <2>3, <2>4
  <1>14. s # <<>> /\ s[1].context = Root /\ CmdObject(s[1])
    <2>1. s # <<>>
      BY <1>1, <1>10
    <2>2. CASE L = 1
      BY <1>2, <1>4, <1>7, <2>1, <2>2 DEF Keeps
    <2>3. CASE L # 1
      <3>1. 1 \in 1 .. L - 1
        BY <1>1, <2>3
      <3>2. QED
        BY <1>7, <1>9, <2>1, <3>1
    <2>4. QED
      BY <2>2, <2>3
  <1>15. \A k \in DOMAIN s : Served(s[k], n, Up(s, k)) /\ (k < Len(s) => Chained(s[k], s[k + 1]))
    BY <1>3, <1>12, <1>13 DEF M
  <1>16. QED
    BY <1>14, <1>15 DEF FindsAll

LEMMA ThisServed ==
    ASSUME WalkInv, FindsAll(stack, cmd), stack # <<>>, NEW n, Grown(cmd, n),
           NEW new \in Frame, Keeps(Top, new), Served(new, n, {})
    PROVE  FindsAll(This(new), n)
  <1> DEFINE s == This(new)
             L == Len(stack)
  <1>1. stack \in Seq(Frame) /\ L \in DOMAIN stack
    BY DEF WalkInv, StackInv
  <1>2. s \in Seq(Frame) /\ Len(s) = L
    BY <1>1 DEF This
  <1>3. s[L] = new /\ SameBelow(s, stack, L)
    BY <1>1 DEF This, SameBelow
  <1>4. Up(s, L) = {}
    BY <1>1, <1>2 DEF Up
  <1> HIDE DEF s
  <1>5. FindsAll(s, n)
    BY <1>2, <1>3, <1>4, TopServed DEF OneMore
  <1>6. QED
    BY <1>5 DEF s

LEMMA CalleeServed ==
    ASSUME WalkInv, FindsAll(stack, cmd), stack # <<>>,
           NEW new \in Frame, Keeps(Top, new), NEW callee \in Frame,
           Served(new, cmd, {callee.context}), Served(callee, cmd, {}), Chained(new, callee)
    PROVE  FindsAll(Append(This(new), callee), cmd)
  <1> DEFINE s == Append(This(new), callee)
             L == Len(stack)
  <1>1. stack \in Seq(Frame) /\ L \in DOMAIN stack
    BY DEF WalkInv, StackInv
  <1>2. This(new) \in Seq(Frame) /\ Len(This(new)) = L
    BY <1>1 DEF This
  <1>3. This(new)[L] = new /\ \A k \in 1 .. L - 1 : This(new)[k] = stack[k]
    BY <1>1 DEF This
  <1>4. s \in Seq(Frame) /\ Len(s) = L + 1 /\ s[L + 1] = callee
    BY <1>2
  <1>5. s[L] = new /\ SameBelow(s, stack, L)
    BY <1>1, <1>2, <1>3 DEF SameBelow
  <1>6. Up(s, L) = {callee.context}
    BY <1>1, <1>4 DEF Up
  <1>7. Grown(cmd, cmd)
    BY GrownSelf
  <1> HIDE DEF s
  <1>8. FindsAll(s, cmd)
    BY <1>4, <1>5, <1>6, <1>7, TopServed DEF OneMore
  <1>9. QED
    BY <1>8 DEF s

\* The object on top is left to the one below, if that is served without it.
LEMMA FrontServed ==
    ASSUME WalkInv, FindsAll(stack, cmd), stack # <<>>,
           Len(stack) = 1 => CmdDone(cmd, Root),
           Len(stack) # 1 => Served(stack[Len(stack) - 1], cmd, {})
    PROVE  FindsAll(SubSeq(stack, 1, Len(stack) - 1), cmd)
  <1> DEFINE s == SubSeq(stack, 1, Len(stack) - 1)
             L == Len(stack)
  <1>1. stack \in Seq(Frame) /\ L \in Nat \ {0} /\ DOMAIN stack = 1 .. L
    BY DEF WalkInv, StackInv
  <1>2. s \in Seq(Frame) /\ Len(s) = L - 1 /\ DOMAIN s = 1 .. L - 1
    BY <1>1
  <1>3. \A k \in 1 .. L - 1 : s[k] = stack[k]
    BY <1>1, <1>2
  <1> HIDE DEF s
  <1>4. ASSUME NEW k \in DOMAIN s PROVE Served(s[k], cmd, Up(s, k))
    <2>1. k \in DOMAIN stack /\ s[k] = stack[k]
      BY <1>1, <1>2, <1>3
    <2>2. CASE k = L - 1
      <3>1. Up(s, k) = {} /\ L # 1
        BY <1>1, <1>2, <2>2 DEF Up
      <3>2. QED
        BY <2>1, <2>2, <3>1
    <2>3. CASE k # L - 1
      <3>1. k < Len(s) /\ k < Len(stack) /\ k + 1 \in 1 .. L - 1
        BY <1>1, <1>2, <2>3
      <3>2. Up(s, k) = Up(stack, k)
        BY <1>3, <3>1 DEF Up
      <3>3. QED
        BY <2>1, <3>2 DEF FindsAll
    <2>4. QED
      BY <2>2, <2>3
  <1>5. ASSUME NEW k \in DOMAIN s, k < Len(s) PROVE Chained(s[k], s[k + 1])
    <2>1. k \in DOMAIN stack /\ k < Len(stack) /\ s[k] = stack[k] /\ s[k + 1] = stack[k + 1]
      <3>1. k + 1 \in 1 .. L - 1 /\ k \in 1 .. L - 1
        BY <1>1, <1>2, <1>5
      <3>2. QED
        BY <1>1, <1>3, <3>1
    <2>2. QED
      BY <2>1 DEF FindsAll
  <1>6. IF s = <<>> THEN CmdDone(cmd, Root) ELSE s[1].context = Root /\ CmdObject(s[1])
    <2>1. CASE L = 1
      <3>1. s = <<>>
        BY <1>1, <1>2, <2>1
      <3>2. QED
        BY <2>1, <3>1
    <2>2. CASE L # 1
      <3>1. s # <<>> /\ s[1] = stack[1]
        BY <1>1, <1>2, <1>3, <2>2
      <3>2. QED
        BY <3>1 DEF FindsAll
    <2>3. QED
      BY <2>1, <2>2
  <1>7. FindsAll(s, cmd)
    BY <1>4, <1>5, <1>6 DEF FindsAll
  <1>8. QED
    BY <1>7 DEF s

(***************************************************************************)
(* Facts about the instructions of a block.                                *)
(***************************************************************************)

LEMMA LeastIsLeast == ASSUME NEW S \in SUBSET Insts, NEW x \in S PROVE Least(S) <= x
  <1>1. \E y \in S : \A z \in S : y <= z
    BY LeastOf, InstsAreNumbers
  <1>2. QED
    BY <1>1 DEF Least

\* A block has one instruction that ends it, its last one.
LEMMA EndOfBlock ==
    ASSUME NEW i \in Insts, NEW j \in Insts, BlockOf[i] = BlockOf[j], Kind[i] \in {"br", "switch"}
    PROVE  /\ j <= i
           /\ Kind[j] \in {"br", "switch"} => i = j
  <1>1. i \in Nat /\ j \in Nat
    BY InstsAreNumbers
  <1>2. j <= i /\ (Kind[j] \in {"br", "switch"} => i <= j)
    BY CodeAssumption
  <1>3. QED
    BY <1>1, <1>2

\* Where a command is sure to be told apart, a switch or a branch ends the block.
LEMMA SureTest ==
    ASSUME NEW c, NEW p \in SureOf(c)
    PROVE  \E i \in InstsIn(p.at) :
              \/ /\ i \in Tests(c, "switch") /\ Kind[i] = "switch"
                 /\ \E n \in DOMAIN CaseValues[i] : p = Occurrence(c, CaseValues[i][n], i, n + 1)
              \/ /\ Kind[i] = "br"
                 /\ \E j \in Insts : Belongs(c, j, i) /\ p = Occurrence(c, Compared[j], i, 1)
  <1>1. CASE p \in SwitchOccurrences(c)
    <2>1. PICK i \in Tests(c, "switch") :
             \E n \in DOMAIN CaseValues[i] : p = Occurrence(c, CaseValues[i][n], i, n + 1)
      BY <1>1 DEF SwitchOccurrences
    <2>2. i \in Insts /\ Kind[i] = "switch"
      BY DEF Tests, InstsOf
    <2>3. p.at = BlockOf[i]
      BY <2>1 DEF Occurrence
    <2>4. i \in InstsIn(p.at)
      BY <2>2, <2>3 DEF InstsIn
    <2>5. QED
      BY <2>1, <2>2, <2>4
  <1>2. CASE p \in BranchOccurrences(c)
    <2>1. PICK q \in Comparisons(c) \X Branches(c) :
             /\ BlockOf[q[1]] = BlockOf[q[2]]
             /\ \A i \in Tests(c, "icmp") : BlockOf[i] = BlockOf[q[1]] => i <= q[1]
             /\ p = Occurrence(c, Compared[q[1]], q[2], 1)
      BY <1>2 DEF BranchOccurrences
    <2>2. q[1] \in Insts /\ q[2] \in Insts /\ Kind[q[2]] = "br" /\ Belongs(c, q[1], q[2])
      BY <2>1 DEF Comparisons, Tests, Branches, InstsOf, Belongs
    <2>3. p.at = BlockOf[q[2]]
      BY <2>1 DEF Occurrence
    <2>4. q[2] \in InstsIn(p.at)
      BY <2>2, <2>3 DEF InstsIn
    <2>5. QED
      BY <2>1, <2>2, <2>4
  <1>3. QED
    BY <1>1, <1>2 DEF SureOf

\* What comes before or after a branch in its block.
LEMMA BelongsFacts ==
    ASSUME NEW c, NEW i \in Insts, NEW j \in Insts, Belongs(c, i, j)
    PROVE  /\ Kind[i] = "icmp" /\ Operands[i] \cap c.cmd_inst # {} /\ Compared[i] \in Nat
           /\ Kind[j] = "br" /\ BlockOf[i] = BlockOf[j] /\ i < j
  <1>1. /\ Kind[i] = "icmp" /\ Operands[i] \cap c.cmd_inst # {}
        /\ Compared[i] # NoConstant /\ Kind[j] = "br" /\ BlockOf[i] = BlockOf[j]
    BY DEF Belongs, Comparisons, Tests, Branches
  <1>2. Compared[i] \in Nat
    BY <1>1, CodeAssumption
  <1>3. i <= j /\ i # j /\ i \in Nat /\ j \in Nat
    BY <1>1, EndOfBlock, InstsAreNumbers
  <1>4. QED
    BY <1>1, <1>2, <1>3

(***************************************************************************)
(* The steps of run_cmd() serve it.                                        *)
(***************************************************************************)

LEMMA TopIsServed ==
    ASSUME WalkInv, FindsAll(stack, cmd), stack # <<>>
    PROVE  Served(Top, cmd, {})
  <1>1. Len(stack) \in DOMAIN stack
    BY DEF WalkInv, StackInv
  <1>2. Up(stack, Len(stack)) = {}
    BY <1>1 DEF Up
  <1>3. QED
    BY <1>1, <1>2 DEF FindsAll, Top

LEMMA NewIsFrame ==
    ASSUME WalkInv, stack # <<>>, NEW new, NEW known, StackInv(This(new), known)
    PROVE  new \in Frame
  <1>1. This(new)[Len(stack)] = new /\ Len(stack) \in DOMAIN This(new)
    BY DEF This, WalkInv, StackInv
  <1>2. This(new) \in Seq(Frame)
    BY DEF StackInv
  <1>3. QED
    BY <1>1, <1>2, ElementOfSeq

\* The object takes instruction i, and does with it what there is to do.
LEMMA InstTaken ==
    ASSUME NEW o, NEW m, Served(o, m, {}), o.insts \in SUBSET Insts,
           ~ o.typing, o.targets = {}, o.cases = <<>>,
           NEW i \in o.insts, i = Least(o.insts),
           NEW new, new.context = o.context, ~ new.typing, new.all_bb = o.all_bb,
           new.insts = o.insts \ {i}, Remembered(new),
           Kind[i] = "call" => \A f \in Targets(i) \ Declared : CallDone(new, m, {}, i, f),
           Kind[i] \in {"br", "switch"} =>
              \A p \in SureOf(o.context) : p.at = BlockOf[i] => Found(new, m, p)
    PROVE  Served(new, m, {}) /\ Keeps(o, new)
  <1> DEFINE c == o.context
             kept == KeptBlocks(c) \ o.all_bb
  <1>1. CmdsFound(o, m, {}) /\ InOrder(o) /\ CmdObject(o)
    BY DEF Served, CmdObject
  <1>2. ASSUME NEW x \in kept, NEW j \in CallsIn(x)
        PROVE  j \in new.insts \/ \A f \in Targets(j) \ Declared : CallDone(new, m, {}, j, f)
    <2>1. j \in o.insts \/ \A f \in Targets(j) \ Declared : CallDone(o, m, {}, j, f)
      BY <1>1 DEF CmdsFound
    <2>2. CASE j \in o.insts /\ j # i
      BY <2>2
    <2>3. CASE j = i
      BY <2>3 DEF CallsIn
    <2>4. CASE \A f \in Targets(j) \ Declared : CallDone(o, m, {}, j, f)
      BY <2>4 DEF CallDone
    <2>5. QED
      BY <2>1, <2>2, <2>3, <2>4
  <1>3. ASSUME NEW p \in SureOf(c), p.at \in kept
        PROVE  AtTest(new, p.at) \/ Found(new, m, p)
    <2>1. AtTest(o, p.at) \/ Found(o, m, p)
      BY <1>1, <1>3 DEF CmdsFound
    <2>2. CASE Found(o, m, p)
      <3>1. Range(<<>>) = {}
        BY DEF Range
      <3>2. Complete(m, p.v, c, p.b)
        BY <2>2, <3>1 DEF Found
      <3>3. QED
        BY <3>2 DEF Found
    <2>3. CASE AtTest(o, p.at)
      <3>1. PICK j \in o.insts : BlockOf[j] = p.at /\ Kind[j] \in {"br", "switch"}
        BY <2>3 DEF AtTest
      <3>2. CASE j = i
        BY <3>1, <3>2
      <3>3. CASE j # i
        BY <3>1, <3>3 DEF AtTest
      <3>4. QED
        BY <3>2, <3>3
    <2>4. QED
      BY <2>1, <2>2, <2>3
  <1>4. CmdsFound(new, m, {})
    BY <1>2, <1>3 DEF CmdsFound
  <1>5. InOrder(new)
    <2>1. PICK b \in Blocks : /\ o.insts \subseteq InstsIn(b)
                              /\ \A h \in InstsIn(b) \ o.insts : \A j \in o.insts : h < j
      BY <1>1 DEF InOrder
    <2>2. ASSUME NEW h \in InstsIn(b) \ new.insts, NEW j \in new.insts PROVE h < j
      <3>1. CASE h = i
        <4>1. i <= j
          BY LeastIsLeast
        <4>2. i \in Nat /\ j \in Nat /\ i # j
          BY InstsAreNumbers
        <4>3. QED
          BY <3>1, <4>1, <4>2
      <3>2. CASE h # i
        BY <2>1, <3>2
      <3>3. QED
        BY <3>1, <3>2
    <2>3. new.insts \subseteq InstsIn(b)
      BY <2>1
    <2>4. QED
      BY <2>2, <2>3 DEF InOrder
  <1>6. TypesFound(new, m, {}) /\ OwnCmd(new)
    BY DEF TypesFound, OwnCmd
  <1>7. Keeps(o, new)
    BY <1>1 DEF Keeps, CmdObject
  <1>8. QED
    BY <1>4, <1>5, <1>6, <1>7 DEF Served

LEMMA TakeBlockFinds ==
    ASSUME WalkInv, FindsAll(stack, cmd), TakeBlock PROVE FindsAll(stack', cmd')
  <1> DEFINE b == First(Top.all_bb)
             new == [Top EXCEPT !.all_bb = Erased(@, b), !.insts = InstsIn(b)]
             c == Top.context
  <1>1. /\ stack # <<>> /\ ~ Top.typing /\ Top.targets = {} /\ Top.all_bb # {}
        /\ Top.cases = <<>> /\ Top.insts = {}
    BY DEF TakeBlock, InCmd
  <1>2. Top \in Frame
    BY <1>1, TopFacts
  <1>3. b \in Blocks
    <2>1. Top.all_bb \in SUBSET Blocks /\ block_order \in BlockOrders
      BY <1>2 DEF Frame, WalkInv
    <2>2. b \in Top.all_bb
      BY <1>1, <2>1, FirstIn
    <2>3. QED
      BY <2>1, <2>2
  <1>4. new \in Frame
    <2>1. InstsIn(b) \subseteq Insts
      BY DEF InstsIn
    <2>2. Erased(Top.all_bb, b) \subseteq Blocks
      BY <1>2 DEF Erased, Frame
    <2> HIDE DEF b
    <2>3. QED
      BY <1>2, <2>1, <2>2 DEF Frame
  <1>5. /\ new.context = c /\ ~ new.typing /\ new.targets = {} /\ new.cases = <<>>
        /\ new.all_bb = Top.all_bb \ {b} /\ new.insts = InstsIn(b)
    BY <1>1, <1>2 DEF Frame, Erased
  <1>6. stack' = This(new) /\ cmd' = cmd
    BY DEF TakeBlock
  <1>7. Served(Top, cmd, {})
    BY <1>1, TopIsServed
  <1> HIDE DEF new, b
  <1>8. CmdsFound(Top, cmd, {}) /\ CmdObject(Top) /\ CmdObject(new)
    BY <1>1, <1>5, <1>7 DEF Served, CmdObject
  <1>9. CmdsFound(new, cmd, {})
    <2>1. ASSUME NEW x \in KeptBlocks(c) \ new.all_bb, NEW i \in CallsIn(x)
          PROVE  i \in new.insts \/ \A f \in Targets(i) \ Declared : CallDone(new, cmd, {}, i, f)
      <3>1. CASE x = b
        BY <1>5, <3>1 DEF CallsIn
      <3>2. CASE x # b
        <4>1. \A f \in Targets(i) \ Declared : CallDone(Top, cmd, {}, i, f)
          BY <1>1, <1>5, <1>8, <3>2 DEF CmdsFound
        <4>2. QED
          BY <1>1, <1>5, <4>1 DEF CallDone
      <3>3. QED
        BY <3>1, <3>2
    <2>2. ASSUME NEW p \in SureOf(c), p.at \in KeptBlocks(c) \ new.all_bb
          PROVE  AtTest(new, p.at) \/ Found(new, cmd, p)
      <3>1. CASE p.at = b
        <4>1. PICK i \in InstsIn(p.at) : Kind[i] \in {"br", "switch"}
          BY SureTest
        <4>2. QED
          BY <1>5, <3>1, <4>1 DEF AtTest, InstsIn
      <3>2. CASE p.at # b
        <4>1. ~ AtTest(Top, p.at)
          BY <1>1 DEF AtTest
        <4>2. Found(Top, cmd, p)
          BY <1>5, <1>8, <2>2, <3>2, <4>1 DEF CmdsFound
        <4>3. QED
          BY <1>1, <1>5, <4>2 DEF Found
      <3>3. QED
        BY <3>1, <3>2
    <2>3. QED
      BY <1>5, <2>1, <2>2 DEF CmdsFound
  <1>10. InOrder(new)
    BY <1>3, <1>5 DEF InOrder
  <1>11. Remembered(new)
    <2>1. ASSUME NEW i \in Insts, NEW j \in Insts, Belongs(c, i, j), j \in InstsIn(b)
          PROVE  i \in InstsIn(b)
      BY <2>1, BelongsFacts DEF InstsIn
    <2>2. QED
      BY <1>5, <2>1 DEF Remembered
  <1>12. Served(new, cmd, {})
    BY <1>1, <1>5, <1>9, <1>10, <1>11 DEF Served, TypesFound, OwnCmd
  <1>13. Keeps(Top, new)
    BY <1>5, <1>8 DEF Keeps
  <1> HIDE DEF c
  <1>14. FindsAll(This(new), cmd)
    BY <1>1, <1>4, <1>12, <1>13, ThisServed, GrownSelf
  <1>15. QED
    BY <1>6, <1>14

LEMMA CheckCallCmdFinds ==
    ASSUME WalkInv, FindsAll(stack, cmd), NEW i \in Insts, CheckCallCmd(i)
    PROVE  FindsAll(stack', cmd')
  <1> DEFINE new == [Top EXCEPT !.insts = @ \ {i}, !.ci = i, !.targets = Targets(i) \ Declared]
  <1>1. At(i, "call")
    BY DEF CheckCallCmd
  <1>2. /\ stack # <<>> /\ ~ Top.typing /\ Top.targets = {} /\ Top.cases = <<>>
        /\ i \in Top.insts /\ i = Least(Top.insts) /\ Kind[i] = "call"
    BY <1>1, AtFacts DEF At
  <1>3. Top \in Frame /\ Top.insts \in SUBSET Insts
    BY <1>2, TopFacts DEF Frame
  <1>4. new \in Frame
    BY <1>3, TargetsType DEF Frame
  <1>5. /\ new.context = Top.context /\ ~ new.typing /\ new.ci = i
        /\ new.targets = Targets(i) \ Declared /\ new.curr_cmd = Top.curr_cmd
        /\ new.all_bb = Top.all_bb /\ new.insts = Top.insts \ {i}
    BY <1>2, <1>3 DEF Frame
  <1>6. stack' = This(new) /\ cmd' = cmd
    BY DEF CheckCallCmd
  <1>7. Served(Top, cmd, {})
    BY <1>2, TopIsServed
  <1> HIDE DEF new
  <1>8. Remembered(new)
    <2>1. ASSUME NEW j \in Insts, NEW k \in Insts, Belongs(Top.context, j, k), k \in new.insts
          PROVE  j \in new.insts \/ new.curr_cmd = Compared[j]
      <3>1. j \in Top.insts \/ Top.curr_cmd = Compared[j]
        BY <1>5, <1>7, <2>1 DEF Served, Remembered
      <3>2. j # i
        BY <1>2, <2>1, BelongsFacts
      <3>3. QED
        BY <1>5, <3>1, <3>2
    <2>2. QED
      BY <1>5, <2>1 DEF Remembered
  <1>9. \A f \in Targets(i) \ Declared : CallDone(new, cmd, {}, i, f)
    BY <1>5 DEF CallDone
  <1>10. Served(new, cmd, {}) /\ Keeps(Top, new)
    BY <1>2, <1>3, <1>5, <1>7, <1>8, <1>9, InstTaken
  <1>11. FindsAll(This(new), cmd)
    BY <1>2, <1>4, <1>10, ThisServed, GrownSelf
  <1>12. QED
    BY <1>6, <1>11

LEMMA SwitchFinds ==
    ASSUME WalkInv, FindsAll(stack, cmd), NEW i \in Insts, Switch(i)
    PROVE  FindsAll(stack', cmd')
  <1> DEFINE k == CaseValues[i]
             c == Top.context
             cases == IF IsCmdAffected(i)
                      THEN [n \in DOMAIN k |-> <<k[n], Succs[BlockOf[i]][n + 1]>>]
                      ELSE <<>>
             new == [Top EXCEPT !.insts = @ \ {i}, !.cases = cases]
  <1>1. At(i, "switch")
    BY DEF Switch
  <1>2. /\ stack # <<>> /\ ~ Top.typing /\ Top.targets = {} /\ Top.cases = <<>>
        /\ i \in Top.insts /\ i = Least(Top.insts) /\ Kind[i] = "switch"
    BY <1>1, AtFacts DEF At
  <1>3. Top \in Frame /\ Top.insts \in SUBSET Insts
    BY <1>2, TopFacts DEF Frame
  <1>4. stack' = This(new) /\ cmd' = cmd
    BY DEF Switch
  <1>5. new \in Frame
    <2>1. StackInv(stack', DOMAIN cmd')
      BY SwitchInv DEF WalkInv
    <2> HIDE DEF new
    <2>2. QED
      BY <1>2, <1>4, <2>1, NewIsFrame
  <1>6. /\ new.context = c /\ ~ new.typing /\ new.cases = cases
        /\ new.targets = {} /\ new.curr_cmd = Top.curr_cmd
        /\ new.all_bb = Top.all_bb /\ new.insts = Top.insts \ {i}
    BY <1>2, <1>3 DEF Frame
  <1>7. Served(Top, cmd, {})
    BY <1>2, TopIsServed
  <1> HIDE DEF new, cases
  <1>8. Remembered(new)
    <2>1. ASSUME NEW j \in Insts, NEW h \in Insts, Belongs(c, j, h), h \in new.insts
          PROVE  j \in new.insts \/ new.curr_cmd = Compared[j]
      <3>1. j \in Top.insts \/ Top.curr_cmd = Compared[j]
        BY <1>6, <1>7, <2>1 DEF Served, Remembered
      <3>2. j # i
        BY <1>2, <2>1, BelongsFacts
      <3>3. QED
        BY <1>6, <3>1, <3>2
    <2>2. QED
      BY <1>6, <2>1 DEF Remembered
  <1>9. ASSUME NEW p \in SureOf(c), p.at = BlockOf[i] PROVE Found(new, cmd, p)
    <2>1. PICK j \in InstsIn(p.at) :
              \/ /\ j \in Tests(c, "switch") /\ Kind[j] = "switch"
                 /\ \E n \in DOMAIN CaseValues[j] : p = Occurrence(c, CaseValues[j][n], j, n + 1)
              \/ Kind[j] = "br"
      BY SureTest
    <2>2. j \in Insts /\ BlockOf[j] = BlockOf[i] /\ Kind[j] \in {"br", "switch"}
      BY <1>9, <2>1 DEF InstsIn
    <2>3. j = i
      BY <1>2, <2>2, EndOfBlock
    <2>4. PICK n \in DOMAIN k : p = Occurrence(c, k[n], i, n + 1)
      BY <1>2, <2>1, <2>3
    <2>5. IsCmdAffected(i)
      BY <1>2, <2>1, <2>3 DEF Tests, IsCmdAffected
    <2>6. cases = [h \in DOMAIN k |-> <<k[h], Succs[BlockOf[i]][h + 1]>>]
      BY <2>5 DEF cases
    <2>7. p.v = k[n] /\ p.b = Succs[BlockOf[i]][n + 1]
      BY <2>4 DEF Occurrence
    <2>8. n \in DOMAIN cases /\ cases[n] = <<p.v, p.b>>
      BY <2>6, <2>7
    <2>9. <<p.v, p.b>> \in Range(cases)
      BY <2>8 DEF Range
    <2>10. QED
      BY <1>6, <2>9 DEF Found
  <1>10. Served(new, cmd, {}) /\ Keeps(Top, new)
    BY <1>2, <1>3, <1>6, <1>7, <1>8, <1>9, InstTaken
  <1> HIDE DEF c
  <1>11. FindsAll(This(new), cmd)
    BY <1>2, <1>5, <1>10, ThisServed, GrownSelf
  <1>12. QED
    BY <1>4, <1>11

LEMMA ICmpFinds ==
    ASSUME WalkInv, FindsAll(stack, cmd), NEW i \in Insts, ICmp(i)
    PROVE  FindsAll(stack', cmd')
  <1> DEFINE c == Top.context
             v == IF IsCmdAffected(i) THEN Compared[i] ELSE Top.curr_cmd
             new == [Top EXCEPT !.insts = @ \ {i}, !.curr_cmd = v]
  <1>1. At(i, "icmp")
    BY DEF ICmp
  <1>2. /\ stack # <<>> /\ ~ Top.typing /\ Top.targets = {} /\ Top.cases = <<>>
        /\ i \in Top.insts /\ i = Least(Top.insts) /\ Kind[i] = "icmp" /\ i \in InstsOf(c.fn)
    BY <1>1, AtFacts DEF At
  <1>3. Top \in Frame /\ Top.insts \in SUBSET Insts
    BY <1>2, TopFacts DEF Frame
  <1>4. v \in Nat \cup {Null, NoConstant}
    BY <1>3, CodeAssumption DEF Frame
  <1>5. stack' = This(new) /\ cmd' = cmd
    <2>1. new = [Top EXCEPT !.insts = @ \ {i},
                            !.curr_cmd = IF IsCmdAffected(i) THEN Compared[i] ELSE @]
      BY <1>3 DEF Frame
    <2>2. QED
      BY <2>1 DEF ICmp
  <1>6. IF IsCmdAffected(i) THEN v = Compared[i] ELSE v = Top.curr_cmd
    OBVIOUS
  <1> HIDE DEF v
  <1>7. new \in Frame
    BY <1>3, <1>4 DEF Frame
  <1>8. /\ new.context = c /\ ~ new.typing /\ new.cases = <<>>
        /\ new.targets = {} /\ new.curr_cmd = v
        /\ new.all_bb = Top.all_bb /\ new.insts = Top.insts \ {i}
    BY <1>2, <1>3 DEF Frame
  <1>9. Served(Top, cmd, {})
    BY <1>2, TopIsServed
  <1> HIDE DEF new
  <1>10. PICK b \in Blocks : /\ Top.insts \subseteq InstsIn(b)
                             /\ \A h \in InstsIn(b) \ Top.insts : \A j \in Top.insts : h < j
    BY <1>9 DEF Served, InOrder
  <1>11. Remembered(new)
    <2>1. ASSUME NEW j \in Insts, NEW h \in Insts, Belongs(c, j, h), h \in new.insts, j \notin new.insts
          PROVE  v = Compared[j]
      <3>1. j \in Top.insts \/ Top.curr_cmd = Compared[j]
        BY <1>8, <1>9, <2>1 DEF Served, Remembered
      <3>2. CASE j = i
        BY <1>6, <2>1, <3>2, BelongsFacts DEF IsCmdAffected
      <3>3. CASE j # i
        <4>1. j \notin Top.insts /\ Top.curr_cmd = Compared[j]
          BY <1>8, <2>1, <3>1, <3>3
        <4>2. BlockOf[h] = b /\ BlockOf[i] = b
          BY <1>2, <1>8, <1>10, <2>1 DEF InstsIn
        <4>3. BlockOf[j] = b /\ Kind[j] = "icmp"
          BY <2>1, <4>2, BelongsFacts
        <4>4. j < i
          BY <1>2, <1>10, <4>1, <4>3 DEF InstsIn
        <4>5. ASSUME IsCmdAffected(i) PROVE FALSE
          <5>1. i \in Tests(c, "icmp")
            BY <1>2, <4>5 DEF Tests, IsCmdAffected
          <5>2. i <= j
            BY <2>1, <4>2, <4>3, <5>1 DEF Belongs
          <5>3. i \in Nat /\ j \in Nat
            BY InstsAreNumbers
          <5>4. QED
            BY <4>4, <5>2, <5>3
        <4>6. QED
          BY <1>6, <4>1, <4>5
      <3>4. QED
        BY <3>2, <3>3
    <2>2. QED
      BY <1>8, <2>1 DEF Remembered
  <1>12. Served(new, cmd, {}) /\ Keeps(Top, new)
    BY <1>2, <1>3, <1>8, <1>9, <1>11, InstTaken
  <1> HIDE DEF c
  <1>13. FindsAll(This(new), cmd)
    BY <1>2, <1>7, <1>12, ThisServed, GrownSelf
  <1>14. QED
    BY <1>5, <1>13

LEMMA BrFinds ==
    ASSUME WalkInv, FindsAll(stack, cmd), NEW i \in Insts, Br(i)
    PROVE  FindsAll(stack', cmd')
  <1> DEFINE c == Top.context
             v == Top.curr_cmd
             b == Succs[BlockOf[i]][1]
             cases == IF IsConstant(v) THEN << <<v, b>> >> ELSE <<>>
             new == [Top EXCEPT !.insts = @ \ {i}, !.curr_cmd = Null, !.cases = cases]
  <1>1. At(i, "br")
    BY DEF Br
  <1>2. /\ stack # <<>> /\ ~ Top.typing /\ Top.targets = {} /\ Top.cases = <<>>
        /\ i \in Top.insts /\ i = Least(Top.insts) /\ Kind[i] = "br"
    BY <1>1, AtFacts DEF At
  <1>3. Top \in Frame /\ Top.insts \in SUBSET Insts
    BY <1>2, TopFacts DEF Frame
  <1>4. stack' = This(new) /\ cmd' = cmd
    BY DEF Br
  <1>5. new \in Frame
    <2>1. StackInv(stack', DOMAIN cmd')
      BY BrInv DEF WalkInv
    <2> HIDE DEF new
    <2>2. QED
      BY <1>2, <1>4, <2>1, NewIsFrame
  <1>6. /\ new.context = c /\ ~ new.typing /\ new.cases = cases
        /\ new.targets = {} /\ new.curr_cmd = Null
        /\ new.all_bb = Top.all_bb /\ new.insts = Top.insts \ {i}
    BY <1>2, <1>3 DEF Frame
  <1>7. Served(Top, cmd, {})
    BY <1>2, TopIsServed
  <1> HIDE DEF new, cases
  <1>8. Remembered(new)
    <2>1. ASSUME NEW j \in Insts, NEW h \in Insts, Belongs(c, j, h), h \in new.insts
          PROVE  FALSE
      <3>1. PICK x \in Blocks : Top.insts \subseteq InstsIn(x)
        BY <1>7 DEF Served, InOrder
      <3>2. BlockOf[h] = BlockOf[i] /\ h # i
        BY <1>2, <1>6, <2>1, <3>1 DEF InstsIn
      <3>3. Kind[h] = "br"
        BY <2>1, BelongsFacts
      <3>4. QED
        BY <1>2, <3>2, <3>3, EndOfBlock
    <2>2. QED
      BY <1>6, <2>1 DEF Remembered
  <1>9. ASSUME NEW p \in SureOf(c), p.at = BlockOf[i] PROVE Found(new, cmd, p)
    <2>1. PICK j \in InstsIn(p.at) :
              \/ Kind[j] = "switch"
              \/ /\ Kind[j] = "br"
                 /\ \E h \in Insts : Belongs(c, h, j) /\ p = Occurrence(c, Compared[h], j, 1)
      BY SureTest
    <2>2. j \in Insts /\ BlockOf[j] = BlockOf[i] /\ Kind[j] \in {"br", "switch"}
      BY <1>9, <2>1 DEF InstsIn
    <2>3. j = i
      BY <1>2, <2>2, EndOfBlock
    <2>4. PICK h \in Insts : Belongs(c, h, i) /\ p = Occurrence(c, Compared[h], i, 1)
      BY <1>2, <2>1, <2>3
    <2>5. Compared[h] \in Nat /\ h < i
      BY <2>4, BelongsFacts
    <2>6. h \notin Top.insts
      <3>1. h \in Top.insts => i <= h
        BY <1>2, <1>3, LeastIsLeast
      <3>2. h \in Nat /\ i \in Nat
        BY InstsAreNumbers
      <3>3. QED
        BY <2>5, <3>1, <3>2
    <2>7. v = Compared[h]
      BY <1>2, <1>7, <2>4, <2>6 DEF Served, Remembered
    <2>8. IsConstant(v)
      BY <2>5, <2>7, CodeAssumption DEF IsConstant
    <2>9. cases = << <<v, b>> >>
      BY <2>8 DEF cases
    <2>10. p.v = v /\ p.b = b
      BY <2>4, <2>7 DEF Occurrence
    <2>11. 1 \in DOMAIN cases /\ cases[1] = <<p.v, p.b>>
      BY <2>9, <2>10
    <2>12. <<p.v, p.b>> \in Range(cases)
      BY <2>11 DEF Range
    <2>13. QED
      BY <1>6, <2>12 DEF Found
  <1>10. Served(new, cmd, {}) /\ Keeps(Top, new)
    BY <1>2, <1>3, <1>6, <1>7, <1>8, <1>9, InstTaken
  <1> HIDE DEF c
  <1>11. FindsAll(This(new), cmd)
    BY <1>2, <1>5, <1>10, ThisServed, GrownSelf
  <1>12. QED
    BY <1>4, <1>11

(***************************************************************************)
(* The steps of run_type() serve it.                                       *)
(***************************************************************************)

\* The start of a command: nothing is owed for it yet.
LEMMA BeginCmdFinds ==
    ASSUME WalkInv, FindsAll(stack, cmd), BeginCmd PROVE FindsAll(stack', cmd')
  <1> DEFINE c == Top.context
             v == Head(Top.cases)[1]
             b == Head(Top.cases)[2]
             new == [Top EXCEPT !.current_cmd = v, !.typing = TRUE, !.type_bb = TypeBlocks(c.fn, b)]
             n == [w \in DOMAIN cmd \cup {v} |-> IF w = v THEN CmdInfo(v, b) ELSE cmd[w]]
  <1>1. stack # <<>> /\ ~ Top.typing /\ Top.targets = {} /\ Top.cases # <<>>
    BY DEF BeginCmd, InCmd
  <1>2. Top \in Frame /\ Tested(Top) /\ OwnCode(Top)
    BY <1>1, TopFacts
  <1>3. stack' = This(new) /\ cmd' = n
    BY DEF BeginCmd
  <1>4. new \in Frame
    <2>1. StackInv(stack', DOMAIN cmd')
      BY BeginCmdInv DEF WalkInv
    <2> HIDE DEF new
    <2>2. QED
      BY <1>1, <1>3, <2>1, NewIsFrame
  <1>5. /\ new.context = c /\ new.typing /\ new.cases = Top.cases /\ new.targets = {}
        /\ new.all_bb = Top.all_bb /\ new.insts = Top.insts /\ new.curr_cmd = Top.curr_cmd
        /\ new.current_cmd = v /\ new.type_bb = TypeBlocks(c.fn, b)
    BY <1>1, <1>2 DEF Frame
  <1>6. Served(Top, cmd, {})
    BY <1>1, TopIsServed
  <1>7. Reachable[b] \subseteq TypeBlocks(c.fn, b)
    <2>1. 1 \in DOMAIN Top.cases /\ Head(Top.cases) = Top.cases[1]
      BY <1>1, <1>2 DEF Frame
    <2>2. PICK p \in OccurrencesOf(c) : Top.cases[1] = <<p.v, p.b>>
      BY <1>2, <2>1 DEF Tested
    <2>3. b # EntryBlock[c.fn]
      BY <2>1, <2>2, OccurrenceFacts
    <2> HIDE DEF b
    <2>4. QED
      BY <2>3 DEF TypeBlocks
  <1>8. Grown(cmd, n)
    <2>1. \A w \in DOMAIN cmd : n[w] = cmd[w]
      BY DEF CmdInfo
    <2>2. DOMAIN cmd \subseteq DOMAIN n
      OBVIOUS
    <2> HIDE DEF n
    <2>3. QED
      BY <2>1, <2>2 DEF Grown
  <1>9. CmdObject(Top) /\ CmdObject(new)
    BY <1>1, <1>5 DEF CmdObject
  <1> HIDE DEF new, n
  <1>10. TypesFound(new, n, {})
    BY <1>1, <1>5, <1>7 DEF TypesFound, Start
  <1>11. CmdsFound(new, n, {})
    <2>1. CmdsFound(Top, n, {})
      BY <1>6, <1>8, CmdsFoundGrow DEF Served
    <2>2. \A i, f : CallDone(Top, n, {}, i, f) => CallDone(new, n, {}, i, f)
      BY <1>1, <1>5 DEF CallDone
    <2>3. \A p : (AtTest(Top, p.at) => AtTest(new, p.at)) /\ (Found(Top, n, p) => Found(new, n, p))
      BY <1>5 DEF AtTest, Found
    <2>4. QED
      BY <1>5, <1>9, <2>1, <2>2, <2>3 DEF CmdsFound
  <1>12. InOrder(new) /\ Remembered(new)
    BY <1>5, <1>6 DEF Served, InOrder, Remembered
  <1>13. OwnCmd(new)
    BY <1>5 DEF OwnCmd
  <1>14. Served(new, n, {})
    BY <1>10, <1>11, <1>12, <1>13 DEF Served
  <1>15. Keeps(Top, new)
    BY <1>5, <1>9 DEF Keeps
  <1> HIDE DEF c, v, b
  <1>16. FindsAll(This(new), n)
    BY <1>1, <1>4, <1>8, <1>14, <1>15, ThisServed
  <1>17. QED
    BY <1>3, <1>16

\* While the object is in run_type(), what run_cmd() owes stays as it is.
LEMMA TypingKept ==
    ASSUME NEW o, NEW m, Served(o, m, {}), o.typing, NEW up, NEW new, new.typing,
           /\ new.context = o.context /\ new.cases = o.cases
           /\ new.all_bb = o.all_bb /\ new.insts = o.insts
           /\ new.curr_cmd = o.curr_cmd /\ new.current_cmd = o.current_cmd
    PROVE  /\ CmdsFound(new, m, up) /\ InOrder(new) /\ Remembered(new) /\ OwnCmd(new)
           /\ Keeps(o, new)
  <1>1. \A i, f : CallDone(o, m, {}, i, f) => CallDone(new, m, up, i, f)
    BY DEF CallDone
  <1>2. \A p : (AtTest(o, p.at) => AtTest(new, p.at)) /\ (Found(o, m, p) => Found(new, m, p))
    BY DEF AtTest, Found
  <1>3. CmdObject(o) <=> CmdObject(new)
    BY DEF CmdObject
  <1>4. CmdsFound(new, m, up)
    BY <1>1, <1>2, <1>3 DEF CmdsFound, Served
  <1>5. InOrder(new) /\ Remembered(new) /\ OwnCmd(new)
    BY DEF Served, InOrder, Remembered, OwnCmd
  <1>6. Keeps(o, new)
    BY <1>3 DEF Keeps, CmdObject
  <1>7. QED
    BY <1>4, <1>5, <1>6

LEMMA TakeTypeBlockFinds ==
    ASSUME WalkInv, FindsAll(stack, cmd), TakeTypeBlock PROVE FindsAll(stack', cmd')
  <1> DEFINE b == First(Top.type_bb)
             new == [Top EXCEPT !.type_bb = Erased(@, b), !.type_insts = CallsIn(b)]
  <1>1. stack # <<>> /\ Top.typing /\ Top.targets = {} /\ Top.type_insts = {}
    BY DEF TakeTypeBlock, InType
  <1>2. Top \in Frame
    BY <1>1, TopFacts
  <1>3. stack' = This(new) /\ cmd' = cmd
    BY DEF TakeTypeBlock
  <1>4. new \in Frame
    <2>1. StackInv(stack', DOMAIN cmd')
      BY TakeTypeBlockInv DEF WalkInv
    <2> HIDE DEF new
    <2>2. QED
      BY <1>1, <1>3, <2>1, NewIsFrame
  <1>5. /\ new.context = Top.context /\ new.typing /\ new.cases = Top.cases /\ new.targets = {}
        /\ new.all_bb = Top.all_bb /\ new.insts = Top.insts /\ new.curr_cmd = Top.curr_cmd
        /\ new.current_cmd = Top.current_cmd
        /\ new.type_bb = Top.type_bb \ {b} /\ new.type_insts = CallsIn(b)
    BY <1>1, <1>2 DEF Frame, Erased
  <1>6. Served(Top, cmd, {})
    BY <1>1, TopIsServed
  <1> HIDE DEF new, b
  <1>7. TypesFound(new, cmd, {})
    <2>1. Start(new) = Start(Top)
      BY <1>5 DEF Start
    <2>2. ASSUME NEW x \in Start(new) \ new.type_bb, NEW i \in CallsIn(x)
          PROVE  i \in new.type_insts \/ \A f \in Targets(i) : CallTyped(new, cmd, {}, i, f)
      <3>1. CASE x = b
        BY <1>5, <3>1
      <3>2. CASE x # b
        <4>1. \A f \in Targets(i) : CallTyped(Top, cmd, {}, i, f)
          BY <1>1, <1>5, <1>6, <2>1, <3>2 DEF Served, TypesFound
        <4>2. QED
          BY <1>1, <1>5, <4>1 DEF CallTyped
      <3>3. QED
        BY <3>1, <3>2
    <2>3. QED
      BY <2>2 DEF TypesFound
  <1>8. Served(new, cmd, {}) /\ Keeps(Top, new)
    BY <1>1, <1>5, <1>6, <1>7, TypingKept DEF Served
  <1>9. FindsAll(This(new), cmd)
    BY <1>1, <1>4, <1>8, ThisServed, GrownSelf
  <1>10. QED
    BY <1>3, <1>9

LEMMA CheckCallTypeFinds ==
    ASSUME WalkInv, FindsAll(stack, cmd), CheckCallType PROVE FindsAll(stack', cmd')
  <1> DEFINE i == Least(Top.type_insts)
             new == [Top EXCEPT !.type_insts = @ \ {i}, !.ci = i, !.targets = Targets(i)]
  <1>1. stack # <<>> /\ Top.typing /\ Top.targets = {}
    BY DEF CheckCallType, InType
  <1>2. Top \in Frame
    BY <1>1, TopFacts
  <1>3. stack' = This(new) /\ cmd' = cmd
    BY DEF CheckCallType
  <1>4. new \in Frame
    <2>1. StackInv(stack', DOMAIN cmd')
      BY CheckCallTypeInv DEF WalkInv
    <2> HIDE DEF new
    <2>2. QED
      BY <1>1, <1>3, <2>1, NewIsFrame
  <1>5. /\ new.context = Top.context /\ new.typing /\ new.cases = Top.cases
        /\ new.all_bb = Top.all_bb /\ new.insts = Top.insts /\ new.curr_cmd = Top.curr_cmd
        /\ new.current_cmd = Top.current_cmd /\ new.targets = Targets(i) /\ new.ci = i
        /\ new.type_bb = Top.type_bb /\ new.type_insts = Top.type_insts \ {i}
    BY <1>1, <1>2 DEF Frame
  <1>6. Served(Top, cmd, {})
    BY <1>1, TopIsServed
  <1> HIDE DEF new, i
  <1>7. TypesFound(new, cmd, {})
    <2>1. Start(new) = Start(Top)
      BY <1>5 DEF Start
    <2>2. ASSUME NEW x \in Start(new) \ new.type_bb, NEW j \in CallsIn(x)
          PROVE  j \in new.type_insts \/ \A f \in Targets(j) : CallTyped(new, cmd, {}, j, f)
      <3>1. CASE j = i
        BY <1>5, <3>1 DEF CallTyped
      <3>2. CASE j # i
        <4>1. j \in Top.type_insts \/ \A f \in Targets(j) : CallTyped(Top, cmd, {}, j, f)
          BY <1>1, <1>5, <1>6, <2>1 DEF Served, TypesFound
        <4>2. QED
          BY <1>1, <1>5, <3>2, <4>1 DEF CallTyped
      <3>3. QED
        BY <3>1, <3>2
    <2>3. QED
      BY <2>2 DEF TypesFound
  <1>8. Served(new, cmd, {}) /\ Keeps(Top, new)
    BY <1>1, <1>5, <1>6, <1>7, TypingKept DEF Served
  <1>9. FindsAll(This(new), cmd)
    BY <1>1, <1>4, <1>8, ThisServed, GrownSelf
  <1>10. QED
    BY <1>3, <1>9

LEMMA RecordCopyFinds ==
    ASSUME WalkInv, FindsAll(stack, cmd), NEW f \in Functions, RecordCopy(f)
    PROVE  FindsAll(stack', cmd')
  <1> DEFINE v == Top.current_cmd
             i == Top.ci
             new == [Top EXCEPT !.targets = @ \ {f}]
             n == [cmd EXCEPT ![v] = With(cmd[v], f, i)]
  <1>1. stack # <<>> /\ Top.typing /\ f \in Top.targets /\ IsCopy(f)
    BY DEF RecordCopy
  <1>2. Top \in Frame /\ ForCommand(Top, DOMAIN cmd)
    BY <1>1, TopFacts
  <1>3. v \in DOMAIN cmd
    BY <1>1, <1>2 DEF ForCommand
  <1>4. stack' = This(new) /\ cmd' = n
    BY <1>3 DEF RecordCopy
  <1>5. new \in Frame
    BY <1>2 DEF Frame
  <1>6. /\ new.context = Top.context /\ new.typing /\ new.cases = Top.cases
        /\ new.all_bb = Top.all_bb /\ new.insts = Top.insts /\ new.curr_cmd = Top.curr_cmd
        /\ new.current_cmd = v /\ new.targets = Top.targets \ {f} /\ new.ci = i
        /\ new.type_bb = Top.type_bb /\ new.type_insts = Top.type_insts
    BY <1>1, <1>2 DEF Frame
  <1>7. Served(Top, cmd, {})
    BY <1>1, TopIsServed
  <1>8. cmd[v] \in Infos
    BY <1>3 DEF WalkInv, CmdInv
  <1>9. /\ DOMAIN n = DOMAIN cmd
        /\ \A w \in DOMAIN cmd : n[w] = IF w = v THEN With(cmd[v], f, i) ELSE cmd[w]
    BY <1>3
  <1>10. LET info == With(cmd[v], f, i)
         IN  /\ cmd[v].in_types \subseteq info.in_types
             /\ cmd[v].out_types \subseteq info.out_types
             /\ f \in CopyIn => i \in info.in_types
             /\ f \in CopyOut \ CopyIn => i \in info.out_types
    <2> HIDE DEF v, i
    <2>1. QED
      BY <1>8 DEF With, Infos
  <1> HIDE DEF new, n, v, i
  <1>11. Grown(cmd, n)
    BY <1>9, <1>10 DEF Grown
  <1>12. Served(Top, n, {})
    BY <1>3, <1>7, <1>11, ServedGrows DEF v
  <1>13. TargetTyped(n, v, Top.context, i, f)
    <2>1. Recorded(n, v, i, f)
      BY <1>3, <1>9, <1>10 DEF Recorded
    <2>2. f \in Ignored
      BY <1>1 DEF Ignored
    <2>3. QED
      BY <2>1, <2>2 DEF TargetTyped
  <1>14. TypesFound(new, n, {})
    <2>1. Start(new) = Start(Top)
      BY <1>6 DEF Start
    <2>2. \A j, g : CallTyped(Top, n, {}, j, g) => CallTyped(new, n, {}, j, g)
      BY <1>6, <1>13 DEF CallTyped, v, i
    <2>3. QED
      BY <1>1, <1>6, <1>12, <2>1, <2>2 DEF Served, TypesFound
  <1>15. Served(new, n, {}) /\ Keeps(Top, new)
    BY <1>1, <1>6, <1>12, <1>14, TypingKept DEF Served, v
  <1>16. FindsAll(This(new), n)
    BY <1>1, <1>5, <1>11, <1>15, ThisServed
  <1>17. QED
    BY <1>4, <1>16

\* The object for a callee owes nothing yet.
LEMMA NewObjectServed ==
    ASSUME NEW d \in Opened, NEW typing \in BOOLEAN, NEW current, NEW m
    PROVE  Served(Object(d, typing, current), m, {})
  <1> DEFINE o == Object(d, typing, current)
  <1>1. /\ o.context = d /\ o.typing = typing /\ o.cases = <<>> /\ o.insts = {}
        /\ o.targets = {} /\ o.type_insts = {} /\ o.ci = Null
        /\ ~ typing => o.all_bb = BlocksOf(d.fn)
        /\ typing => o.type_bb = TypeBlocks(d.fn, EntryBlock[d.fn])
    BY DEF Object
  <1>2. TypeBlocks(d.fn, EntryBlock[d.fn]) = BlocksOf(d.fn)
    BY DEF TypeBlocks
  <1>3. KeptBlocks(d) \subseteq BlocksOf(d.fn)
    BY DEF KeptBlocks
  <1>4. EntryBlock[d.fn] \in Blocks
    BY CodeAssumption DEF Opened
  <1> HIDE DEF o
  <1>5. TypesFound(o, m, {})
    BY <1>1, <1>2 DEF TypesFound, Start
  <1>6. CmdsFound(o, m, {})
    <2>1. CmdObject(o) => ~ typing
      BY <1>1 DEF CmdObject
    <2>2. \A p : p.at \in KeptBlocks(d) /\ ~ typing => p.at \in o.all_bb
      BY <1>1, <1>3
    <2>3. QED
      BY <1>1, <1>3, <2>1, <2>2 DEF CmdsFound
  <1>7. InOrder(o)
    BY <1>1, <1>4 DEF InOrder
  <1>8. Remembered(o) /\ OwnCmd(o)
    BY <1>1 DEF Remembered, OwnCmd
  <1>9. Served(o, m, {})
    BY <1>5, <1>6, <1>7, <1>8 DEF Served
  <1>10. QED
    BY <1>9 DEF o

\* check_callee() lets a callee go only if it does not follow the call: the object
\* is served with one target less to see, the callee above it.
LEMMA TargetLeft ==
    ASSUME NEW o, NEW m, Served(o, m, {}), NEW f \in Functions, f \in o.targets,
           ~ (o.typing /\ IsCopy(f)), NEW up,
           f \notin Declared /\ Follows(o.context, o.ci) => Callee(o.context, o.ci, f) \in up,
           NEW new,
           /\ new.context = o.context /\ new.typing = o.typing /\ new.ci = o.ci
           /\ new.targets = o.targets \ {f}
           /\ new.all_bb = o.all_bb /\ new.insts = o.insts
           /\ new.type_bb = o.type_bb /\ new.type_insts = o.type_insts
           /\ new.cases = o.cases /\ new.curr_cmd = o.curr_cmd /\ new.current_cmd = o.current_cmd
    PROVE  Served(new, m, up) /\ Keeps(o, new)
  <1>1. CASE o.typing
    <2>1. CallTyped(new, m, up, o.ci, f)
      <3>1. CASE f \notin Declared /\ Follows(o.context, o.ci)
        BY <1>1, <3>1 DEF CallTyped
      <3>2. CASE f \in Declared \/ ~ Follows(o.context, o.ci)
        <4>1. Recorded(m, o.current_cmd, o.ci, f)
          BY <1>1 DEF Recorded, IsCopy
        <4>2. f \in Ignored \/ ~ Follows(o.context, o.ci)
          BY <3>2 DEF Ignored
        <4>3. QED
          BY <4>1, <4>2 DEF CallTyped, TargetTyped
      <3>3. QED
        BY <3>1, <3>2
    <2>2. \A j, g : CallTyped(o, m, {}, j, g) => CallTyped(new, m, up, j, g)
      BY <2>1 DEF CallTyped
    <2>3. Start(new) = Start(o)
      BY DEF Start
    <2>4. TypesFound(new, m, up)
      BY <1>1, <2>2, <2>3 DEF Served, TypesFound
    <2>5. QED
      BY <1>1, <2>4, TypingKept DEF Served
  <1>2. CASE ~ o.typing
    <2>1. f \notin Declared => CallDone(new, m, up, o.ci, f)
      BY <1>2 DEF CallDone
    <2>2. \A j : \A g : g \notin Declared /\ CallDone(o, m, {}, j, g) => CallDone(new, m, up, j, g)
      BY <1>2, <2>1 DEF CallDone
    <2>3. \A p : (AtTest(o, p.at) => AtTest(new, p.at)) /\ (Found(o, m, p) => Found(new, m, p))
      BY DEF AtTest, Found
    <2>4. CmdObject(o) /\ CmdObject(new)
      BY <1>2 DEF CmdObject
    <2>5. CmdsFound(new, m, up)
      BY <2>2, <2>3, <2>4 DEF Served, CmdsFound
    <2>6. TypesFound(new, m, up)
      BY <1>2 DEF TypesFound
    <2>7. InOrder(new) /\ Remembered(new) /\ OwnCmd(new)
      BY DEF Served, InOrder, Remembered, OwnCmd
    <2>8. QED
      BY <2>4, <2>5, <2>6, <2>7 DEF Served, Keeps
  <1>3. QED
    BY <1>1, <1>2

\* No callee is turned away for the number of those before it.
CountNotReached ==
    \A f \in Functions :
        stack # <<>> /\ f \in Top.targets /\ ~ (Top.typing /\ IsCopy(f)) =>
            Top.count_callee <= MAX_CALLEE_COUNT

LEMMA CheckCalleeFinds ==
    ASSUME WalkInv, FindsAll(stack, cmd), CountNotReached, NEW f \in Functions, CheckCallee(f)
    PROVE  FindsAll(stack', cmd')
  <1> DEFINE c == Top.context
             i == Top.ci
             count == IF f \notin Declared THEN Top.count_callee + 1 ELSE Top.count_callee
             new == [Top EXCEPT !.targets = @ \ {f}, !.count_callee = count]
             on == f \notin Declared /\ Follows(c, i)
             callee == Object(Callee(c, i, f), Top.typing, InheritedCmd(Top))
  <1>1. stack # <<>> /\ f \in Top.targets /\ ~ (Top.typing /\ IsCopy(f))
    BY DEF CheckCallee
  <1>2. Good(Top, DOMAIN cmd) /\ Top \in Frame /\ Calling(Top) /\ c \in Opened
    BY <1>1, TopFacts
  <1>3. Top.count_callee <= MAX_CALLEE_COUNT
    BY <1>1 DEF CountNotReached
  <1>4. /\ stack' = IF on THEN Append(This(new), callee) ELSE This(new)
        /\ cmd' = cmd
    <2>1. new = [Top EXCEPT !.targets = @ \ {f},
                    !.count_callee = IF Top.count_callee <= MAX_CALLEE_COUNT /\ f \notin Declared
                                     THEN @ + 1 ELSE @]
      BY <1>2, <1>3 DEF Frame
    <2>2. QED
      BY <1>3, <2>1 DEF CheckCallee
  <1>5. new \in Frame
    <2>1. count \in Nat
      BY <1>2 DEF Frame
    <2> HIDE DEF count
    <2>2. QED
      BY <1>2, <2>1 DEF Frame
  <1>6. /\ new.context = Top.context /\ new.typing = Top.typing /\ new.ci = Top.ci
        /\ new.targets = Top.targets \ {f}
        /\ new.all_bb = Top.all_bb /\ new.insts = Top.insts
        /\ new.type_bb = Top.type_bb /\ new.type_insts = Top.type_insts
        /\ new.cases = Top.cases /\ new.curr_cmd = Top.curr_cmd
        /\ new.current_cmd = Top.current_cmd
    BY <1>2 DEF Frame
  <1>7. Served(Top, cmd, {})
    BY <1>1, TopIsServed
  <1> HIDE DEF new, callee, count
  <1>8. CASE ~ on
    <2>1. Served(new, cmd, {}) /\ Keeps(Top, new)
      BY <1>1, <1>6, <1>7, <1>8, TargetLeft
    <2>2. FindsAll(This(new), cmd)
      BY <1>1, <1>5, <2>1, ThisServed, GrownSelf
    <2>3. QED
      BY <1>4, <1>8, <2>2
  <1>9. CASE on
    <2> DEFINE d == Callee(c, i, f)
    <2>1. d \in Opened
      <3>1. i \in Insts /\ f \in Targets(i)
        BY <1>1, <1>2 DEF Calling, InstsOf
      <3>2. f \in Functions \ Declared
        BY <1>9, <3>1, TargetsType
      <3>3. QED
        BY <1>2, <3>1, <3>2, CalleeType
    <2>2. Top.typing \in BOOLEAN
      BY <1>2 DEF Frame
    <2>3. /\ callee.context = d /\ callee.typing = Top.typing /\ callee.cases = <<>>
          /\ callee.current_cmd = Top.current_cmd
      BY DEF callee, Object, InheritedCmd
    <2>4. callee \in Frame
      <3>1. Good(callee, DOMAIN cmd)
        BY <1>1, <1>2, <1>9, NewCalleeIsGood DEF callee
      <3>2. QED
        BY <3>1 DEF Good
    <2> HIDE DEF d
    <2>5. Served(callee, cmd, {})
      BY <2>1, <2>2, NewObjectServed DEF callee, d
    <2>6. d \in {callee.context}
      BY <2>3
    <2>7. Served(new, cmd, {callee.context}) /\ Keeps(Top, new)
      BY <1>1, <1>6, <1>7, <2>6, TargetLeft DEF d
    <2>8. Chained(new, callee)
      BY <1>6, <2>2, <2>3 DEF Chained, CmdObject
    <2> HIDE DEF c, i
    <2>9. FindsAll(Append(This(new), callee), cmd)
      BY <1>1, <1>5, <2>4, <2>5, <2>7, <2>8, CalleeServed
    <2>10. QED
      BY <1>4, <1>9, <2>9
  <1>10. QED
    BY <1>8, <1>9

\* An object that has nothing left in run_type() has typed all it started with.
LEMMA RanIsTyped ==
    ASSUME NEW o, NEW m, TypesFound(o, m, {}), o.typing, o.targets = {},
           o.type_insts = {}, o.type_bb = {}, o.context \in Opened, o.current_cmd \in DOMAIN m,
           Start(o) \subseteq Blocks
    PROVE  \A x \in Start(o) : TypeDone(m, o.current_cmd, o.context, x)
  <1> TAKE x \in Start(o)
  <1>1. \A i \in CallsIn(x) : \A f \in Targets(i) : CallTyped(o, m, {}, i, f)
    BY DEF TypesFound
  <1>2. \A i \in CallsIn(x) : \A f \in Targets(i) : TargetTyped(m, o.current_cmd, o.context, i, f)
    BY <1>1 DEF CallTyped
  <1>3. QED
    BY <1>2, TypeDoneCloses

\* The command is complete, and none of the blocks that are left out is owed.
LEMMA EndCmdFinds ==
    ASSUME WalkInv, FindsAll(stack, cmd), EndCmd PROVE FindsAll(stack', cmd')
  <1> DEFINE c == Top.context
             v == Head(Top.cases)[1]
             b == Head(Top.cases)[2]
             new == [Top EXCEPT !.typing = FALSE, !.cases = Tail(@), !.all_bb = @ \ LeftOut(b)]
  <1>1. /\ stack # <<>> /\ Top.typing /\ Top.targets = {} /\ Top.cases # <<>>
        /\ Top.type_insts = {} /\ Top.type_bb = {}
    BY DEF EndCmd, RanType, InType
  <1>2. Top \in Frame /\ c \in Opened /\ Tested(Top) /\ ForCommand(Top, DOMAIN cmd)
    BY <1>1, TopFacts
  <1>3. stack' = This(new) /\ cmd' = cmd
    BY DEF EndCmd
  <1>4. new \in Frame
    <2>1. StackInv(stack', DOMAIN cmd')
      BY EndCmdInv DEF WalkInv
    <2> HIDE DEF new
    <2>2. QED
      BY <1>1, <1>3, <2>1, NewIsFrame
  <1>5. /\ new.context = c /\ ~ new.typing /\ new.cases = Tail(Top.cases) /\ new.targets = {}
        /\ new.all_bb = Top.all_bb \ LeftOut(b) /\ new.insts = Top.insts
        /\ new.curr_cmd = Top.curr_cmd
    BY <1>1, <1>2 DEF Frame
  <1>6. Served(Top, cmd, {})
    BY <1>1, TopIsServed
  <1>7. 1 \in DOMAIN Top.cases /\ Head(Top.cases) = Top.cases[1]
        /\ Range(Top.cases) \subseteq {Head(Top.cases)} \cup Range(Tail(Top.cases))
    <2>1. Top.cases \in Seq(Nat \X Blocks)
      BY <1>2 DEF Frame
    <2>2. ASSUME NEW k \in DOMAIN Top.cases, k # 1
          PROVE  Top.cases[k] \in Range(Tail(Top.cases))
      <3>1. k - 1 \in DOMAIN Tail(Top.cases) /\ Tail(Top.cases)[k - 1] = Top.cases[k]
        BY <1>1, <2>1, <2>2
      <3>2. QED
        BY <3>1 DEF Range
    <2>3. 1 \in DOMAIN Top.cases /\ Head(Top.cases) = Top.cases[1]
      BY <1>1, <2>1
    <2>4. QED
      BY <2>2, <2>3 DEF Range
  <1>8. PICK p \in OccurrencesOf(c) : Head(Top.cases) = <<p.v, p.b>>
    BY <1>2, <1>7 DEF Tested
  <1>9. v = p.v /\ b = p.b /\ Head(Top.cases) = <<v, b>> /\ b \in Blocks
    BY <1>8, OccurrenceFacts DEF BlocksOf
  <1>10. LeftOut(b) \cap KeptBlocks(c) = {}
    BY <1>9 DEF LeftOut, KeptBlocks, OccurrencesOf
  <1>11. Complete(cmd, v, c, b)
    <2>1. Start(Top) = Reachable[b] /\ Reachable[b] \subseteq Blocks
      BY <1>1, <1>9, ReachableType DEF Start, BlocksOf
    <2>2. Top.current_cmd = v /\ v \in DOMAIN cmd
      BY <1>1, <1>2, <1>6 DEF Served, OwnCmd, ForCommand
    <2>3. \A x \in Reachable[b] : TypeDone(cmd, v, c, x)
      <3>1. TypesFound(Top, cmd, {})
        BY <1>6 DEF Served
      <3> HIDE DEF v, b
      <3>2. QED
        BY <1>1, <1>2, <2>1, <2>2, <3>1, RanIsTyped
    <2>4. QED
      BY <2>2, <2>3 DEF Complete
  <1>12. CmdObject(Top) /\ CmdObject(new) /\ CmdsFound(Top, cmd, {})
    BY <1>1, <1>5, <1>6 DEF Served, CmdObject
  <1> HIDE DEF new, v, b
  <1>13. CmdsFound(new, cmd, {})
    <2>1. KeptBlocks(c) \ new.all_bb = KeptBlocks(c) \ Top.all_bb
      BY <1>5, <1>10
    <2>2. \A i, f : CallDone(Top, cmd, {}, i, f) => CallDone(new, cmd, {}, i, f)
      BY <1>1, <1>5 DEF CallDone
    <2>3. ASSUME NEW q, Found(Top, cmd, q) PROVE Found(new, cmd, q)
      <3>1. CASE <<q.v, q.b>> = Head(Top.cases)
        <4>1. q.v = v /\ q.b = b
          BY <1>9, <3>1
        <4>2. QED
          BY <1>5, <1>11, <4>1 DEF Found
      <3>2. CASE <<q.v, q.b>> # Head(Top.cases)
        BY <1>5, <1>7, <2>3, <3>2 DEF Found
      <3>3. QED
        BY <3>1, <3>2
    <2>4. \A q : AtTest(Top, q.at) => AtTest(new, q.at)
      BY <1>5 DEF AtTest
    <2>5. QED
      BY <1>5, <1>12, <2>1, <2>2, <2>3, <2>4 DEF CmdsFound
  <1>14. InOrder(new) /\ Remembered(new)
    BY <1>5, <1>6 DEF Served, InOrder, Remembered
  <1>15. Served(new, cmd, {})
    BY <1>5, <1>13, <1>14 DEF Served, TypesFound, OwnCmd
  <1>16. Keeps(Top, new)
    BY <1>5, <1>12 DEF Keeps
  <1> HIDE DEF c
  <1>17. FindsAll(This(new), cmd)
    BY <1>1, <1>4, <1>15, <1>16, ThisServed, GrownSelf
  <1>18. QED
    BY <1>3, <1>17

\* An object has run and its context is done, for what the object below made it for.
LEMMA ReturnFinds ==
    ASSUME WalkInv, FindsAll(stack, cmd), Return PROVE FindsAll(stack', cmd')
  <1> DEFINE c == Top.context
             L == Len(stack)
             o == stack[L - 1]
  <1>1. /\ stack # <<>> /\ Top.targets = {} /\ Top.cases = <<>>
        /\ \/ Top.typing /\ Top.type_insts = {} /\ Top.type_bb = {}
           \/ ~ Top.typing /\ Top.insts = {} /\ Top.all_bb = {}
        /\ stack' = SubSeq(stack, 1, Len(stack) - 1) /\ cmd' = cmd
    BY DEF Return, RanType, InType, InCmd
  <1>2. c \in Opened /\ ForCommand(Top, DOMAIN cmd)
    BY <1>1, TopFacts
  <1>3. Served(Top, cmd, {})
    BY <1>1, TopIsServed
  <1>4. L \in Nat \ {0} /\ DOMAIN stack = 1 .. L
    BY <1>1 DEF WalkInv, StackInv
  <1>5. Top = stack[L]
    BY DEF Top
  <1>6. L = 1 => c = Root /\ CmdObject(Top)
    BY <1>1, <1>5 DEF FindsAll
  <1>7. L # 1 => Served(o, cmd, {c}) /\ Chained(o, Top)
    <2> SUFFICES ASSUME L # 1 PROVE Served(o, cmd, {c}) /\ Chained(o, Top)
      OBVIOUS
    <2>1. L - 1 \in DOMAIN stack /\ L - 1 < L /\ L - 1 + 1 = L
      BY <1>4
    <2>2. Up(stack, L - 1) = {c}
      BY <1>5, <2>1 DEF Up
    <2>3. QED
      BY <1>5, <2>1, <2>2 DEF FindsAll
  <1>8. ASSUME NEW d, NEW i, NEW f, Callee(d, i, f) = c PROVE c.fn = f
    BY <1>8 DEF Callee, Context
  <1> HIDE DEF c, L, o
  <1>9. CASE Top.typing
    <2>1. L # 1
      BY <1>1, <1>6, <1>9 DEF CmdObject
    <2>2. o.typing /\ Top.current_cmd = o.current_cmd
      BY <1>1, <1>7, <1>9, <2>1 DEF Chained, CmdObject
    <2>3. o.current_cmd \in DOMAIN cmd
      BY <1>2, <1>9, <2>2 DEF ForCommand
    <2>4. \A x \in BlocksOf(c.fn) : TypeDone(cmd, o.current_cmd, c, x)
      <3>1. Start(Top) = BlocksOf(c.fn) /\ Start(Top) \subseteq Blocks
        BY <1>1 DEF Start, BlocksOf, c
      <3>2. TypesFound(Top, cmd, {})
        BY <1>3 DEF Served
      <3>3. QED
        BY <1>1, <1>2, <1>9, <2>2, <2>3, <3>1, <3>2, RanIsTyped DEF c
    <2>5. ASSUME NEW i, NEW f, CallTyped(o, cmd, {c}, i, f) PROVE CallTyped(o, cmd, {}, i, f)
      <3>1. CASE ~ IsCopy(f) /\ Callee(o.context, i, f) = c
        <4>1. Recorded(cmd, o.current_cmd, i, f)
          BY <3>1 DEF Recorded, IsCopy
        <4>2. c.fn = f
          BY <1>8, <3>1
        <4>3. TargetTyped(cmd, o.current_cmd, o.context, i, f)
          BY <2>4, <3>1, <4>1, <4>2 DEF TargetTyped
        <4>4. QED
          BY <4>3 DEF CallTyped
      <3>2. CASE ~ (~ IsCopy(f) /\ Callee(o.context, i, f) = c)
        BY <2>5, <3>2 DEF CallTyped
      <3>3. QED
        BY <3>1, <3>2
    <2>6. TypesFound(o, cmd, {})
      BY <1>7, <2>1, <2>5 DEF Served, TypesFound
    <2>7. \A i, f : CallDone(o, cmd, {c}, i, f) => CallDone(o, cmd, {}, i, f)
      BY <2>2 DEF CallDone
    <2>8. CmdsFound(o, cmd, {})
      BY <1>7, <2>1, <2>7 DEF Served, CmdsFound
    <2>9. Served(o, cmd, {})
      BY <1>7, <2>1, <2>6, <2>8 DEF Served
    <2>10. FindsAll(SubSeq(stack, 1, Len(stack) - 1), cmd)
      BY <1>1, <2>1, <2>9, FrontServed DEF L, o
    <2>11. QED
      BY <1>1, <2>10
  <1>10. CASE ~ Top.typing
    <2>1. CmdDone(cmd, c)
      <3>1. CmdsFound(Top, cmd, {}) /\ CmdObject(Top) /\ Top.context = c
        BY <1>3, <1>10 DEF Served, CmdObject, c
      <3>2. ASSUME NEW p \in SureOf(c), p.at \in KeptBlocks(c) PROVE Complete(cmd, p.v, c, p.b)
        <4>1. ~ AtTest(Top, p.at)
          BY <1>1, <1>10 DEF AtTest
        <4>2. Found(Top, cmd, p)
          BY <1>1, <1>10, <3>1, <3>2, <4>1 DEF CmdsFound
        <4>3. <<p.v, p.b>> \notin Range(Top.cases)
          BY <1>1 DEF Range
        <4>4. QED
          BY <3>1, <4>2, <4>3 DEF Found
      <3>3. ASSUME NEW x \in KeptBlocks(c), NEW i \in CallsIn(x), NEW f \in Targets(i) \ Declared,
                   Follows(c, i)
            PROVE  CmdDone(cmd, Callee(c, i, f))
        <4>1. CallDone(Top, cmd, {}, i, f)
          BY <1>1, <1>10, <3>1 DEF CmdsFound
        <4>2. QED
          BY <1>1, <3>1, <3>3, <4>1 DEF CallDone
      <3>4. QED
        BY <1>2, <3>2, <3>3, CmdDoneCloses
    <2>2. CASE L = 1
      <3>1. FindsAll(SubSeq(stack, 1, Len(stack) - 1), cmd)
        BY <1>1, <1>6, <2>1, <2>2, FrontServed DEF L
      <3>2. QED
        BY <1>1, <3>1
    <2>3. CASE L # 1
      <3>1. ~ o.typing
        BY <1>7, <1>10, <2>3 DEF Chained
      <3>2. \A i, f : CallDone(o, cmd, {c}, i, f) => CallDone(o, cmd, {}, i, f)
        BY <2>1 DEF CallDone
      <3>3. CmdsFound(o, cmd, {})
        BY <1>7, <2>3, <3>2 DEF Served, CmdsFound
      <3>4. Served(o, cmd, {})
        BY <1>7, <2>3, <3>1, <3>3 DEF Served, TypesFound
      <3>5. FindsAll(SubSeq(stack, 1, Len(stack) - 1), cmd)
        BY <1>1, <2>3, <3>4, FrontServed DEF L, o
      <3>6. QED
        BY <1>1, <3>5
    <2>4. QED
      BY <2>2, <2>3
  <1>11. QED
    BY <1>9, <1>10

LEMMA InitFinds == Init => FindsAll(stack, cmd)
  <1> SUFFICES ASSUME Init PROVE FindsAll(stack, cmd)
    OBVIOUS
  <1>1. PICK m \in {Null, Garbage} : stack = <<Object(Root, FALSE, m)>>
    BY DEF Init
  <1> DEFINE o == Object(Root, FALSE, m)
  <1>2. Served(o, cmd, {})
    BY RootType, NewObjectServed
  <1>3. o.context = Root /\ CmdObject(o)
    BY DEF Object, CmdObject
  <1> HIDE DEF o
  <1>4. stack = <<o>>
    BY <1>1 DEF o
  <1>5. DOMAIN stack = {1} /\ stack[1] = o /\ Len(stack) = 1 /\ stack # <<>>
    BY <1>4
  <1>6. Up(stack, 1) = {}
    BY <1>5 DEF Up
  <1>7. QED
    BY <1>2, <1>3, <1>5, <1>6 DEF FindsAll

LEMMA NextFinds ==
    ASSUME WalkInv, FindsAll(stack, cmd), CountNotReached, [Next]_vars
    PROVE  FindsAll(stack', cmd')
  <1>1. CASE TakeBlock
    BY <1>1, TakeBlockFinds
  <1>2. ASSUME NEW i \in Insts, CheckCallCmd(i) \/ Switch(i) \/ ICmp(i) \/ Br(i)
        PROVE  FindsAll(stack', cmd')
    BY <1>2, CheckCallCmdFinds, SwitchFinds, ICmpFinds, BrFinds
  <1>3. CASE BeginCmd
    BY <1>3, BeginCmdFinds
  <1>4. CASE TakeTypeBlock
    BY <1>4, TakeTypeBlockFinds
  <1>5. CASE CheckCallType
    BY <1>5, CheckCallTypeFinds
  <1>6. ASSUME NEW f \in Functions, RecordCopy(f) \/ CheckCallee(f)
        PROVE  FindsAll(stack', cmd')
    BY <1>6, RecordCopyFinds, CheckCalleeFinds
  <1>7. CASE EndCmd
    BY <1>7, EndCmdFinds
  <1>8. CASE Return
    BY <1>8, ReturnFinds
  <1>9. CASE UNCHANGED vars
    BY <1>9 DEF vars
  <1>10. QED
    BY <1>1, <1>2, <1>3, <1>4, <1>5, <1>6, <1>7, <1>8, <1>9 DEF Next

FindInv == FindsAll(stack, cmd)

(***************************************************************************)
(* The walk misses nothing: whatever the order of blocks and the depth of  *)
(* calls, when collect_cmd_and_type() returns, every command that is tested*)
(* in a block no other command leaves out has been found, with all copies  *)
(* that can be reached from each of its tests; provided that check_callee()*)
(* turns no callee away for MAX_CALLEE_COUNT, which drops callees wherever *)
(* the walk has got to.                                                    *)
(***************************************************************************)
THEOREM CommandsFound == Spec /\ []CountNotReached => []CommandsAreComplete
  <1>1. Init => FindInv
    BY InitFinds DEF FindInv
  <1>2. WalkInv /\ FindInv /\ CountNotReached /\ [Next]_vars => FindInv'
    <2> SUFFICES ASSUME WalkInv, FindInv, CountNotReached, [Next]_vars PROVE FindInv'
      OBVIOUS
    <2>1. FindsAll(stack', cmd')
      BY NextFinds DEF FindInv
    <2>2. QED
      BY <2>1 DEF FindInv
  <1>3. FindInv => CommandsAreComplete
    <2> SUFFICES ASSUME FindInv, Done PROVE CommandsAreComplete
      BY DEF CommandsAreComplete
    <2>1. CmdDone(cmd, Root)
      BY DEF FindInv, FindsAll, Done
    <2>2. QED
      BY <2>1, DoneIsComplete DEF CommandsAreComplete
  <1>4. QED
    BY <1>1, <1>2, <1>3, WalkCorrect, PTL DEF Spec
=============================================================================
