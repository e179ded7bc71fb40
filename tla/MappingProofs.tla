--------------------------- MODULE MappingProofs ---------------------------
(***************************************************************************)
(* Proofs about module Mapping, for all results, call chains and orders of *)
(* exploration: its type invariant, that a result is given to exactly the  *)
(* drivers closest to it, and that the name a driver is registered with is *)
(* in the end one of those that are used for it.                           *)
(***************************************************************************)
EXTENDS Mapping, FiniteSetTheorems, FunctionTheorems, SequenceTheorems, NaturalsInduction,
        WellFoundedInduction, TLAPS

(***************************************************************************)
(* Facts about numbers.                                                    *)
(***************************************************************************)

\* A set of numbers has a least one.
LEMMA LeastOf ==
    ASSUME NEW S, S \subseteq Nat, S # {}
    PROVE  \E n \in S : \A m \in S : n <= m
  <1> DEFINE R == OpToRel(<, Nat)
  <1>1. IsWellFoundedOn(R, Nat)
    BY NatLessThanWellFounded
  <1>2. \A y, x \in Nat : y < x => <<y, x>> \in R
    BY DEF OpToRel
  <1> HIDE DEF R
  <1>3. PICK n \in S : \A m \in S : ~ (<<m, n>> \in R)
    BY <1>1, WFMin
  <1>4. ASSUME NEW m \in S PROVE n <= m
    <2>1. m \in Nat /\ n \in Nat
      OBVIOUS
    <2>2. ~ m < n
      BY <1>2, <1>3, <2>1
    <2>3. QED
      BY <2>1, <2>2
  <1>5. QED
    BY <1>4

\* r starts with b, and each of its values follows from the one before by G.
Loop(r, D, b, G, N) ==
    /\ r \in [0 .. N -> D]
    /\ r[0] = b
    /\ \A n \in 1 .. N : r[n] = G[<<n, r[n - 1]>>]

\* A loop of N turns has an outcome.
LEMMA LoopExists ==
    ASSUME NEW D, NEW b \in D, NEW G \in [Nat \X D -> D], NEW N \in Nat
    PROVE  \E r : Loop(r, D, b, G, N)
  <1> DEFINE Solves(r, k) == Loop(r, D, b, G, k)
             Bad == {k \in Nat : ~ \E r : Solves(r, k)}
  <1>1. SUFFICES ASSUME Bad # {} PROVE FALSE
    <2>1. Bad = {} => \E r : Solves(r, N)
      <3> HIDE DEF Solves
      <3>1. QED
        OBVIOUS
    <2>2. QED
      BY <2>1
  <1> HIDE DEF Solves
  <1>2. PICK k \in Bad : \A m \in Bad : k <= m
    BY <1>1, LeastOf
  <1>3. k \in Nat /\ ~ \E r : Solves(r, k)
    OBVIOUS
  <1>4. CASE k = 0
    <2> DEFINE r == [n \in 0 .. 0 |-> b]
    <2>1. Solves(r, 0)
      BY DEF Solves, Loop
    <2>2. QED
      BY <1>3, <1>4, <2>1
  <1>5. CASE k # 0
    <2>1. k - 1 \in Nat /\ k - 1 \notin Bad
      BY <1>2, <1>3, <1>5
    <2>2. PICK q : Solves(q, k - 1)
      BY <2>1
    <2> DEFINE r == [n \in 0 .. k |-> IF n = k THEN G[<<k, q[k - 1]>>] ELSE q[n]]
    <2>3. /\ \A n \in 0 .. k : n # k => n \in 0 .. k - 1
          /\ \A n \in 1 .. k : n - 1 \in 0 .. k /\ n - 1 # k /\ (n # k => n \in 1 .. k - 1)
          /\ 0 \in 0 .. k /\ k \in 0 .. k /\ k - 1 \in 0 .. k - 1
      BY <1>3, <1>5
    <2>4. q \in [0 .. k - 1 -> D] /\ q[0] = b
          /\ \A n \in 1 .. k - 1 : q[n] = G[<<n, q[n - 1]>>]
      BY <2>2 DEF Solves, Loop
    <2>5. r \in [0 .. k -> D]
      <3>1. G[<<k, q[k - 1]>>] \in D
        BY <1>3, <2>3, <2>4
      <3>2. QED
        BY <2>3, <2>4, <3>1
    <2>6. r[0] = b
      BY <1>5, <2>3, <2>4
    <2>7. ASSUME NEW n \in 1 .. k PROVE r[n] = G[<<n, r[n - 1]>>]
      <3>1. n \in 0 .. k /\ n - 1 \in 0 .. k /\ n - 1 # k
        BY <1>3, <2>3
      <3>2. r[n - 1] = q[n - 1]
        BY <3>1
      <3>3. CASE n = k
        BY <3>1, <3>2, <3>3
      <3>4. CASE n # k
        BY <2>3, <2>4, <3>1, <3>2, <3>4
      <3>5. QED
        BY <3>3, <3>4
    <2> HIDE DEF r
    <2>8. Solves(r, k)
      BY <2>5, <2>6, <2>7 DEF Solves, Loop
    <2>9. QED
      BY <1>3, <2>8
  <1>6. QED
    BY <1>4, <1>5

(***************************************************************************)
(* Facts about how much of two call chains agrees.                         *)
(***************************************************************************)

LEMMA MatchFacts ==
    ASSUME NEW a \in CheckerResults, NEW b \in CheckerResults
    PROVE  /\ Match(a, b) \in Nat
           /\ Match(a, b) <= Len(Chain[a])
           /\ Chain[a] = Chain[b] => Match(a, b) = Len(Chain[a])
  <1> DEFINE S == {n \in DOMAIN Chain[a] \cap DOMAIN Chain[b] :
                      \A k \in 1 .. n : Chain[a][k] = Chain[b][k]}
             N == Len(Chain[a])
  <1>1. N \in Nat /\ DOMAIN Chain[a] = 1 .. N
    BY ResultAssumption
  <1>2. S \in SUBSET (1 .. N)
    BY <1>1
  <1>3. Chain[a] = Chain[b] => S = 1 .. N
    BY <1>1
  <1>4. IsFiniteSet(1 .. N) /\ Cardinality(1 .. N) = N
    <2> HIDE DEF N
    <2>1. QED
      BY <1>1, FS_Interval
  <1>5. IsFiniteSet(S) /\ Cardinality(S) <= N
    <2> DEFINE I == 1 .. N
    <2>1. IsFiniteSet(I) /\ Cardinality(I) = N /\ S \in SUBSET I
      BY <1>2, <1>4
    <2> HIDE DEF S, I
    <2>2. IsFiniteSet(S)
      BY <2>1, FS_Subset
    <2>3. Cardinality(S) <= Cardinality(I)
      BY <2>1, FS_Subset
    <2>4. QED
      BY <2>1, <2>2, <2>3
  <1>6. Cardinality(S) \in Nat
    <2> HIDE DEF S
    <2>1. QED
      BY <1>5, FS_CardinalityType
  <1>7. Match(a, b) = Cardinality(S)
    BY DEF Match
  <1>8. QED
    BY <1>3, <1>4, <1>5, <1>6, <1>7

(***************************************************************************)
(* The loop that looks for the closest driver.                             *)
(***************************************************************************)

Driver == [ops : CheckerResults, name : SUBSET CheckerResults, number : SUBSET CheckerResults,
           file_install : SUBSET CheckerResults, file_fd : SUBSET CheckerResults]

\* What the loop has found among the candidates up to n.
FoundBest(best, c, dds, candidates) ==
    \/ /\ candidates = {}
       /\ best = [match |-> -1, dd |-> {}, equal_match |-> FALSE]
    \/ /\ best.match \in Nat
       /\ \A j \in candidates : Match(c, dds[j].ops) <= best.match
       /\ \E i \in candidates : best.dd = {i} /\ Match(c, dds[i].ops) = best.match
       /\ best.equal_match
          \/ \A j \in candidates : Match(c, dds[j].ops) = best.match => j \in best.dd

LEMMA BestIsFound ==
    ASSUME NEW c \in CheckerResults, NEW dds \in Seq(Driver), NEW candidates \in SUBSET (DOMAIN dds)
    PROVE  FoundBest(Best(c, dds, candidates), c, dds, candidates)
  <1> DEFINE N == Len(dds)
             D == [match : Int, dd : SUBSET Nat, equal_match : BOOLEAN]
             start == [match |-> -1, dd |-> {}, equal_match |-> FALSE]
             M(n) == Match(c, dds[n].ops)
             turn(n, best) ==
                 LET temp_match == Match(c, dds[n].ops)
                 IN CASE n \notin candidates \/ temp_match < best.match -> best
                      [] n \in candidates /\ temp_match > best.match ->
                            [match |-> temp_match, dd |-> {n}, equal_match |-> FALSE]
                      [] n \in candidates /\ temp_match = best.match ->
                            [best EXCEPT !.equal_match = TRUE]
             Turn(n, best) == IF n \in 1 .. N THEN turn(n, best) ELSE best
             G == [p \in Nat \X D |-> Turn(p[1], p[2])]
             Equation(r) == r = [n \in 0 .. N |-> IF n = 0 THEN start ELSE turn(n, r[n - 1])]
  <1>1. N \in Nat /\ DOMAIN dds = 1 .. N
    OBVIOUS
  <1>2. \A n \in 1 .. N : M(n) \in Nat
    <2>1. \A n \in 1 .. N : dds[n] \in Driver
      BY <1>1
    <2>2. \A n \in 1 .. N : dds[n].ops \in CheckerResults
      BY <2>1 DEF Driver
    <2>3. QED
      BY <2>2, MatchFacts
  <1>3. \A n \in 1 .. N, best \in D :
           \/ n \notin candidates /\ turn(n, best) = best
           \/ n \in candidates /\ M(n) < best.match /\ turn(n, best) = best
           \/ n \in candidates /\ M(n) > best.match
              /\ turn(n, best) = [match |-> M(n), dd |-> {n}, equal_match |-> FALSE]
           \/ n \in candidates /\ M(n) = best.match
              /\ turn(n, best) = [best EXCEPT !.equal_match = TRUE]
    <2> TAKE n \in 1 .. N, best \in D
    <2>1. M(n) \in Nat /\ best.match \in Int
      BY <1>2
    <2>2. n \notin candidates \/ M(n) < best.match \/ M(n) > best.match \/ M(n) = best.match
      BY <2>1
    <2>3. CASE n \notin candidates
      BY <2>3
    <2>4. CASE n \in candidates /\ M(n) < best.match
      BY <2>4
    <2>5. CASE n \in candidates /\ M(n) > best.match
      BY <2>1, <2>5
    <2>6. CASE n \in candidates /\ M(n) = best.match
      BY <2>1, <2>6
    <2>7. QED
      BY <2>2, <2>3, <2>4, <2>5, <2>6
  <1> HIDE DEF turn
  <1>4. \A n \in 1 .. N, best \in D : turn(n, best) \in D
    <2> TAKE n \in 1 .. N, best \in D
    <2>1. M(n) \in Int /\ {n} \in SUBSET Nat
      BY <1>2
    <2> HIDE DEF M
    <2>2. [match |-> M(n), dd |-> {n}, equal_match |-> FALSE] \in D
      BY <2>1
    <2>3. [best EXCEPT !.equal_match = TRUE] \in D
      OBVIOUS
    <2>4. QED
      BY <1>3, <2>2, <2>3 DEF M
  <1>5. start \in D
    OBVIOUS
  <1>6. G \in [Nat \X D -> D]
    <2> HIDE DEF D
    <2>1. \A n \in Nat, best \in D : Turn(n, best) \in D
      BY <1>4
    <2> HIDE DEF Turn
    <2>2. QED
      BY <2>1
  <1>7. PICK r : Loop(r, D, start, G, N)
    <2> HIDE DEF D, start, G, N
    <2>1. QED
      BY <1>1, <1>5, <1>6, LoopExists
  <1>8. Equation(r)
    <2> HIDE DEF D, start, N
    <2>1. \A n \in 0 .. N : n # 0 => n \in 1 .. N /\ n \in Nat /\ n - 1 \in 0 .. N
      BY <1>1
    <2>2. \A n \in 0 .. N : n # 0 => G[<<n, r[n - 1]>>] = turn(n, r[n - 1])
      BY <1>7, <2>1 DEF Loop
    <2>3. QED
      BY <1>7, <2>1, <2>2 DEF Loop
  <1> DEFINE q == CHOOSE q : Equation(q)
  <1>9. Equation(q)
    BY <1>8
  <1>10. Best(c, dds, candidates) = q[N]
    BY DEF Best, turn
  <1> HIDE DEF q, G
  <1>11. q[0] = start /\ \A n \in 1 .. N : q[n] = turn(n, q[n - 1])
    <2>1. 0 \in 0 .. N /\ \A n \in 1 .. N : n \in 0 .. N /\ n # 0
      BY <1>1
    <2> HIDE DEF start
    <2>2. QED
      BY <1>9, <2>1
  <1> DEFINE upto(n) == candidates \cap 1 .. n
             Right(n) == q[n] \in D /\ FoundBest(q[n], c, dds, upto(n))
             Bad == {n \in 0 .. N : ~ Right(n)}
  <1>12. Right(0)
    <2>1. upto(0) = {}
      OBVIOUS
    <2>2. QED
      BY <1>5, <1>11, <2>1 DEF FoundBest
  <1>13. ASSUME NEW n \in 1 .. N, Right(n - 1) PROVE Right(n)
    <2> DEFINE best == q[n - 1]
               new == q[n]
    <2>1. best \in D /\ FoundBest(best, c, dds, upto(n - 1))
      BY <1>13
    <2>2. new = turn(n, best)
      BY <1>11
    <2>3. new \in D
      BY <1>4, <2>1, <2>2
    <2>4. M(n) \in Nat
      BY <1>2
    <2>5. n \notin upto(n - 1) /\ upto(n) = IF n \in candidates THEN upto(n - 1) \cup {n} ELSE upto(n - 1)
      BY <1>1
    <2> HIDE DEF best, new, upto
    <2>6. FoundBest(new, c, dds, upto(n))
      <3>1. CASE n \notin candidates
        BY <1>3, <2>1, <2>2, <2>5, <3>1
      <3>2. CASE n \in candidates /\ M(n) < best.match
        <4>1. new = best
          BY <1>3, <2>1, <2>2, <2>4, <3>2
        <4>2. upto(n - 1) # {}
          BY <2>1, <2>4, <3>2 DEF FoundBest
        <4>3. best.match # M(n) /\ M(n) <= best.match
          BY <2>1, <2>4, <3>2
        <4>4. QED
          BY <2>1, <2>5, <3>2, <4>1, <4>2, <4>3 DEF FoundBest
      <3>3. CASE n \in candidates /\ M(n) > best.match
        <4>1. new = [match |-> M(n), dd |-> {n}, equal_match |-> FALSE]
          BY <1>3, <2>1, <2>2, <2>4, <3>3
        <4>2. \A j \in upto(n - 1) : M(j) < M(n)
          <5> TAKE j \in upto(n - 1)
          <5>1. M(j) <= best.match
            BY <2>1 DEF FoundBest
          <5>2. M(j) \in Nat /\ best.match \in Int
            BY <1>1, <1>2, <2>1 DEF upto
          <5> HIDE DEF M
          <5>3. QED
            BY <2>4, <3>3, <5>1, <5>2
        <4>3. \A j \in upto(n) : M(j) <= M(n) /\ (M(j) = M(n) => j \in {n})
          <5> TAKE j \in upto(n)
          <5>1. j = n \/ j \in upto(n - 1)
            BY <2>5
          <5>2. j \in 1 .. N /\ M(j) \in Nat
            BY <1>1, <1>2 DEF upto
          <5> HIDE DEF M
          <5>3. QED
            BY <2>4, <4>2, <5>1, <5>2
        <4>4. n \in upto(n)
          BY <2>5, <3>3
        <4>5. new.match = M(n) /\ new.dd = {n}
          BY <4>1
        <4>6. QED
          BY <2>4, <4>3, <4>4, <4>5 DEF FoundBest
      <3>4. CASE n \in candidates /\ M(n) = best.match
        <4>1. new = [best EXCEPT !.equal_match = TRUE]
          BY <1>3, <2>1, <2>2, <2>4, <3>4
        <4>2. new.match = best.match /\ new.dd = best.dd /\ new.equal_match
          BY <2>1, <4>1
        <4>3. upto(n - 1) # {}
          BY <2>1, <2>4, <3>4 DEF FoundBest
        <4>4. M(n) <= best.match
          BY <2>4, <3>4
        <4>5. QED
          BY <2>1, <2>5, <3>4, <4>2, <4>3, <4>4 DEF FoundBest
      <3>5. QED
        <4>1. best.match \in Int
          BY <2>1
        <4>2. M(n) < best.match \/ M(n) > best.match \/ M(n) = best.match
          <5> HIDE DEF M
          <5>1. QED
            BY <2>4, <4>1
        <4>3. QED
          BY <3>1, <3>2, <3>3, <3>4, <4>2
    <2>7. QED
      BY <2>3, <2>6 DEF new
  <1> HIDE DEF Right
  <1>14. Bad = {}
    <2>1. SUFFICES ASSUME Bad # {} PROVE FALSE
      OBVIOUS
    <2>2. Bad \subseteq Nat
      OBVIOUS
    <2>3. PICK n \in Bad : \A m \in Bad : n <= m
      <3> HIDE DEF Bad
      <3>1. QED
        BY <2>1, <2>2, LeastOf
    <2>4. n # 0
      BY <1>12
    <2>5. n \in 1 .. N /\ n - 1 \in 0 .. N /\ n - 1 \notin Bad
      BY <1>1, <2>3, <2>4
    <2>6. QED
      BY <1>13, <2>5
  <1>15. Right(N) /\ upto(N) = candidates
    BY <1>1, <1>14
  <1>16. QED
    BY <1>10, <1>15 DEF Right

(***************************************************************************)
(* Facts about the results of an entry and what mapping_checker_results()  *)
(* makes of them.                                                          *)
(***************************************************************************)

\* The candidates whose call chain shares most with that of c.
Closest(c, dds, candidates) ==
    {i \in candidates : \A j \in candidates : Match(c, dds[j].ops) <= Match(c, dds[i].ops)}

LEMMA TakersAreClosest ==
    ASSUME NEW c \in CheckerResults, NEW dds \in Seq(Driver), NEW candidates \in SUBSET (DOMAIN dds)
    PROVE  Takers(c, dds, candidates) = Closest(c, dds, candidates)
  <1> DEFINE best == Best(c, dds, candidates)
             M(i) == Match(c, dds[i].ops)
  <1>1. FoundBest(best, c, dds, candidates)
    BY BestIsFound
  <1>2. \A i \in candidates : M(i) \in Nat
    <2>1. \A i \in candidates : dds[i] \in Driver
      OBVIOUS
    <2>2. \A i \in candidates : dds[i].ops \in CheckerResults
      BY <2>1 DEF Driver
    <2>3. QED
      BY <2>2, MatchFacts
  <1>3. Takers(c, dds, candidates) =
            IF best.equal_match THEN {i \in candidates : M(i) = best.match} ELSE best.dd
    BY DEF Takers
  <1>4. Closest(c, dds, candidates) = {i \in candidates : \A j \in candidates : M(j) <= M(i)}
    BY DEF Closest
  <1>5. CASE candidates = {} /\ best = [match |-> -1, dd |-> {}, equal_match |-> FALSE]
    BY <1>3, <1>4, <1>5
  <1>6. ASSUME best.match \in Nat, \A j \in candidates : M(j) <= best.match,
               NEW i \in candidates, best.dd = {i}, M(i) = best.match,
               best.equal_match \/ \A j \in candidates : M(j) = best.match => j \in best.dd
        PROVE  Takers(c, dds, candidates) = Closest(c, dds, candidates)
    <2> HIDE DEF best, M
    <2>1. Closest(c, dds, candidates) = {j \in candidates : M(j) = best.match}
      BY <1>2, <1>4, <1>6
    <2>2. CASE best.equal_match
      BY <1>3, <2>1, <2>2
    <2>3. CASE ~ best.equal_match
      BY <1>3, <1>6, <2>1, <2>3
    <2>4. QED
      BY <2>2, <2>3
  <1>7. QED
    BY <1>1, <1>5, <1>6 DEF FoundBest

LEMMA ResultFacts ==
    ASSUME checker_results \in Outcomes, NEW e \in Entries
    PROVE  /\ \A ct \in CheckerTypes : GetCheckerResults(e, ct) \in Seq(CheckerResults)
           /\ \A ct \in CheckerTypes : \A c \in Range(GetCheckerResults(e, ct)) :
                 c \in ResultsOf(e) /\ Checker[c] = ct
           /\ \A c \in ResultsOf(e) :
                 /\ c \in CheckerResults /\ EntryOf[c] = e /\ Checker[c] \in CheckerTypes
                 /\ c \in Range(GetCheckerResults(e, Checker[c]))
           /\ ResultsOf(e) \subseteq found
  <1>1. checker_results \in [Entries -> [CheckerTypes -> Seq(CheckerResults)]]
    BY ResultAssumption
  <1>2. \A ct \in CheckerTypes : GetCheckerResults(e, ct) \in Seq(CheckerResults)
    BY <1>1 DEF GetCheckerResults
  <1>3. \A ct \in CheckerTypes : \A c \in Range(GetCheckerResults(e, ct)) :
           EntryOf[c] = e /\ Checker[c] = ct
    BY ResultAssumption DEF GetCheckerResults
  <1>4. \A ct \in CheckerTypes : Range(GetCheckerResults(e, ct)) \subseteq CheckerResults
    <2> TAKE ct \in CheckerTypes
    <2> DEFINE s == GetCheckerResults(e, ct)
    <2>1. s \in Seq(CheckerResults)
      BY <1>2
    <2> HIDE DEF s
    <2>2. \A n \in DOMAIN s : s[n] \in CheckerResults
      BY <2>1
    <2>3. Range(s) \subseteq CheckerResults
      BY <2>2 DEF Range
    <2>4. QED
      BY <2>3 DEF s
  <1>5. \A c : c \in ResultsOf(e) <=> \E ct \in CheckerTypes : c \in Range(GetCheckerResults(e, ct))
    BY DEF ResultsOf
  <1>6. ResultsOf(e) \subseteq found
    BY DEF found
  <1>7. QED
    BY <1>2, <1>3, <1>4, <1>5, <1>6

LEMMA FoundFacts ==
    ASSUME checker_results \in Outcomes, NEW c \in found
    PROVE  c \in CheckerResults /\ EntryOf[c] \in Entries /\ c \in ResultsOf(EntryOf[c])
  <1>1. PICK e \in Entries : c \in ResultsOf(e)
    BY DEF found
  <1>2. QED
    BY <1>1, ResultFacts

LEMMA NewDriverFacts ==
    ASSUME checker_results \in Outcomes, NEW e \in Entries
    PROVE  /\ NewDrivers(e) \in Seq(Driver)
           /\ \A n \in 1 .. Len(NewDrivers(e)) : \E o \in ResultsOf(e) :
                 Checker[o] \in OpsTypes /\ NewDrivers(e)[n] = NewDriver(o)
           /\ HasOps(e) => Len(NewDrivers(e)) > 0
           /\ ~ HasOps(e) => \A o \in ResultsOf(e) : Checker[o] \notin OpsTypes
  <1> DEFINE s == GetCheckerResults(e, "dri_ops")
             t == GetCheckerResults(e, "file_ops")
             crs == s \o t
             dds == NewDrivers(e)
  <1>1. s \in Seq(CheckerResults) /\ t \in Seq(CheckerResults)
    <2>1. "dri_ops" \in CheckerTypes /\ "file_ops" \in CheckerTypes
      BY DEF CheckerTypes, OpsTypes
    <2>2. QED
      BY <2>1, ResultFacts
  <1>2. /\ \A c \in Range(s) : c \in ResultsOf(e) /\ Checker[c] = "dri_ops"
        /\ \A c \in Range(t) : c \in ResultsOf(e) /\ Checker[c] = "file_ops"
    <2>1. "dri_ops" \in CheckerTypes /\ "file_ops" \in CheckerTypes
      BY DEF CheckerTypes, OpsTypes
    <2>2. QED
      BY <2>1, ResultFacts
  <1>3. dds = [i \in DOMAIN crs |-> NewDriver(crs[i])]
    BY DEF NewDrivers
  <1>4. \A c \in ResultsOf(e) : Checker[c] \in OpsTypes => c \in Range(s) \/ c \in Range(t)
    BY ResultFacts DEF OpsTypes
  <1>5. HasOps(e) <=> dds # <<>>
    BY DEF HasOps
  <1> HIDE DEF s, t, dds
  <1>6. /\ crs \in Seq(CheckerResults) /\ Len(crs) = Len(s) + Len(t)
        /\ \A n \in 1 .. Len(crs) : crs[n] \in Range(s) \/ crs[n] \in Range(t)
    <2>1. crs \in Seq(CheckerResults) /\ Len(crs) = Len(s) + Len(t)
      BY <1>1
    <2>2. \A n \in 1 .. Len(crs) : crs[n] = IF n <= Len(s) THEN s[n] ELSE t[n - Len(s)]
      BY <1>1
    <2>3. \A n \in 1 .. Len(crs) : crs[n] \in Range(s) \/ crs[n] \in Range(t)
      <3> TAKE n \in 1 .. Len(crs)
      <3>1. CASE n <= Len(s)
        <4>1. n \in DOMAIN s /\ crs[n] = s[n]
          BY <1>1, <2>1, <2>2, <3>1
        <4>2. QED
          BY <4>1 DEF Range
      <3>2. CASE ~ n <= Len(s)
        <4>1. n - Len(s) \in DOMAIN t /\ crs[n] = t[n - Len(s)]
          BY <1>1, <2>1, <2>2, <3>2
        <4>2. QED
          BY <4>1 DEF Range
      <3>3. QED
        BY <3>1, <3>2
    <2>4. QED
      BY <2>1, <2>3
  <1>7. Len(crs) = 0 => Range(s) = {} /\ Range(t) = {}
    <2>1. Len(crs) = 0 => DOMAIN s = {} /\ DOMAIN t = {}
      BY <1>1, <1>6
    <2>2. QED
      BY <2>1 DEF Range
  <1> HIDE DEF crs
  <1>8. DOMAIN crs = 1 .. Len(crs) /\ Len(crs) \in Nat
    BY <1>6
  <1>9. \A n \in 1 .. Len(crs) : \E o \in ResultsOf(e) :
           o \in CheckerResults /\ Checker[o] \in OpsTypes /\ dds[n] = NewDriver(o)
    <2> TAKE n \in 1 .. Len(crs)
    <2>1. crs[n] \in ResultsOf(e) /\ Checker[crs[n]] \in OpsTypes
      BY <1>2, <1>6 DEF OpsTypes
    <2>2. dds[n] = NewDriver(crs[n])
      BY <1>3, <1>8
    <2>3. QED
      BY <2>1, <2>2, ResultFacts
  <1>10. \A o \in CheckerResults : NewDriver(o) \in Driver
    BY DEF NewDriver, Driver
  <1>11. dds \in Seq(Driver) /\ Len(dds) = Len(crs)
    <2>1. \A n \in 1 .. Len(crs) : dds[n] \in Driver
      BY <1>9, <1>10
    <2>2. DOMAIN dds = 1 .. Len(crs) /\ dds = [n \in 1 .. Len(crs) |-> dds[n]]
      BY <1>3, <1>8
    <2>3. dds \in [1 .. Len(crs) -> Driver]
      BY <2>1, <2>2
    <2>4. dds \in Seq(Driver)
      BY <1>8, <2>3, SeqDef
    <2>5. QED
      BY <1>8, <2>2, <2>4
  <1>12. dds # <<>> => Len(dds) > 0
    BY <1>11
  <1>13. dds = <<>> => Len(crs) = 0
    BY <1>11
  <1>14. QED
    BY <1>4, <1>5, <1>7, <1>9, <1>11, <1>12, <1>13 DEF dds

\* The drivers mapping_checker_results() gives the results of e to.
Base(e) == all_device_drivers \o NewDrivers(e)

\* Whether a name of e is given to driver i.
Named(c, dds, i) ==
    \/ Checker[c] = "dri_name" /\ i \in Closest(c, dds, OfSameId(c, dds))
    \/ Checker[c] = "dev_name" /\ i \in GiveDeviceName(c, dds)

\* Old drivers stay, new ones follow, the operations structures are left alone, and a
\* list gets results of e only, each at the drivers closest to it.
LEMMA MappedDrivers ==
    ASSUME checker_results \in Outcomes, all_device_drivers \in Seq(Driver), NEW e \in Entries
    PROVE  LET new == MappingCheckerResults(e)
               base == Base(e)
           IN /\ base \in Seq(Driver) /\ new \in Seq(Driver)
              /\ DOMAIN new = 1 .. Len(all_device_drivers) + Len(NewDrivers(e))
              /\ DOMAIN base = DOMAIN new
              /\ \A i \in DOMAIN all_device_drivers :
                    i \in DOMAIN new /\ base[i] = all_device_drivers[i]
              /\ \A i \in DOMAIN new \ DOMAIN all_device_drivers : \E o \in ResultsOf(e) :
                    Checker[o] \in OpsTypes /\ base[i] = NewDriver(o)
              /\ \A i \in DOMAIN new :
                    /\ new[i].ops = base[i].ops
                    /\ new[i].name = base[i].name \cup {c \in ResultsOf(e) : Named(c, base, i)}
                    /\ new[i].number = base[i].number \cup
                          {c \in ResultsOf(e) :
                              \/ Checker[c] = "dev_type"
                              \/ Checker[c] \in NumberTypes /\ i \in Closest(c, base, DOMAIN base)}
                    /\ new[i].file_install = base[i].file_install \cup
                          {c \in ResultsOf(e) : Checker[c] = "file_install" /\ i \in Closest(c, base, DOMAIN base)}
                    /\ new[i].file_fd = base[i].file_fd \cup
                          {c \in ResultsOf(e) : Checker[c] = "file_fd" /\ i \in Closest(c, base, DOMAIN base)}
  <1> DEFINE old == all_device_drivers
             fresh == NewDrivers(e)
             new == MappingCheckerResults(e)
             base == Base(e)
             Of(types) == {c \in ResultsOf(e) : Checker[c] \in types}
  <1>1. /\ base \in Seq(Driver) /\ DOMAIN base = 1 .. Len(old) + Len(fresh)
        /\ \A i \in 1 .. Len(old) + Len(fresh) : base[i] = IF i <= Len(old) THEN old[i] ELSE fresh[i - Len(old)]
        /\ Len(old) \in Nat /\ Len(fresh) \in Nat /\ DOMAIN old = 1 .. Len(old)
    <2>1. old \in Seq(Driver) /\ fresh \in Seq(Driver)
      BY NewDriverFacts
    <2>2. base = old \o fresh
      BY DEF Base
    <2> HIDE DEF old, fresh, base
    <2>3. base \in Seq(Driver) /\ Len(base) = Len(old) + Len(fresh)
      BY <2>1, <2>2
    <2>4. \A i \in 1 .. Len(old) + Len(fresh) : base[i] = IF i <= Len(old) THEN old[i] ELSE fresh[i - Len(old)]
      BY <2>1, <2>2
    <2>5. QED
      BY <2>1, <2>3, <2>4
  <1>2. \A i \in DOMAIN old : i \in DOMAIN base /\ base[i] = old[i]
    <2> HIDE DEF old, fresh, base
    <2>1. QED
      BY <1>1
  <1>3. \A i \in DOMAIN base \ DOMAIN old : \E o \in ResultsOf(e) :
           Checker[o] \in OpsTypes /\ base[i] = NewDriver(o)
    <2> TAKE i \in DOMAIN base \ DOMAIN old
    <2>1. i - Len(old) \in 1 .. Len(fresh) /\ base[i] = fresh[i - Len(old)]
      <3> HIDE DEF old, fresh, base
      <3>1. QED
        BY <1>1
    <2> DEFINE n == i - Len(old)
    <2> HIDE DEF n, base
    <2>2. PICK o \in ResultsOf(e) : Checker[o] \in OpsTypes /\ fresh[n] = NewDriver(o)
      BY <2>1, NewDriverFacts DEF n
    <2>3. QED
      BY <2>1, <2>2 DEF n
  <1>4. \A c \in ResultsOf(e) : c \in CheckerResults
    BY ResultFacts
  <1>5. \A c \in ResultsOf(e) :
           /\ GiveDriverName(c, base) = Closest(c, base, OfSameId(c, base))
           /\ Checker[c] # "dev_type" => GiveNumber(c, base) = Closest(c, base, DOMAIN base)
           /\ Checker[c] = "dev_type" => GiveNumber(c, base) = DOMAIN base
           /\ GiveFile(c, base) = Closest(c, base, DOMAIN base)
    <2> TAKE c \in ResultsOf(e)
    <2> HIDE DEF base
    <2>1. OfSameId(c, base) \in SUBSET (DOMAIN base)
      BY DEF OfSameId
    <2>2. Takers(c, base, OfSameId(c, base)) = Closest(c, base, OfSameId(c, base))
      BY <1>1, <1>4, <2>1, TakersAreClosest
    <2>3. Takers(c, base, DOMAIN base) = Closest(c, base, DOMAIN base)
      BY <1>1, <1>4, TakersAreClosest
    <2>4. QED
      BY <2>2, <2>3 DEF GiveDriverName, GiveNumber, GiveFile
  <1>6. new = [i \in DOMAIN base |->
          [base[i] EXCEPT
              !.name = @ \cup {c \in Of({"dri_name"}) : i \in GiveDriverName(c, base)}
                         \cup {c \in Of({"dev_name"}) : i \in GiveDeviceName(c, base)},
              !.number = @ \cup {c \in Of({"dev_type"} \cup NumberTypes) : i \in GiveNumber(c, base)},
              !.file_install = @ \cup {c \in Of({"file_install"}) : i \in GiveFile(c, base)},
              !.file_fd = @ \cup {c \in Of({"file_fd"}) : i \in GiveFile(c, base)}]]
    BY DEF MappingCheckerResults, Base
  <1> HIDE DEF base, new, old, fresh, Of
  <1>7. \A i \in DOMAIN base : base[i] \in Driver
    BY <1>1
  <1>8. DOMAIN new = DOMAIN base
    BY <1>6
  <1>9. ASSUME NEW i \in DOMAIN base
        PROVE  /\ new[i].ops = base[i].ops
               /\ new[i].name = (base[i].name \cup {c \in Of({"dri_name"}) : i \in GiveDriverName(c, base)})
                                 \cup {c \in Of({"dev_name"}) : i \in GiveDeviceName(c, base)}
               /\ new[i].number = base[i].number \cup {c \in Of({"dev_type"} \cup NumberTypes) : i \in GiveNumber(c, base)}
               /\ new[i].file_install = base[i].file_install \cup {c \in Of({"file_install"}) : i \in GiveFile(c, base)}
               /\ new[i].file_fd = base[i].file_fd \cup {c \in Of({"file_fd"}) : i \in GiveFile(c, base)}
               /\ new[i] = [ops |-> new[i].ops, name |-> new[i].name, number |-> new[i].number,
                            file_install |-> new[i].file_install, file_fd |-> new[i].file_fd]
    <2> DEFINE N1 == base[i].name \cup {c \in Of({"dri_name"}) : i \in GiveDriverName(c, base)}
                                 \cup {c \in Of({"dev_name"}) : i \in GiveDeviceName(c, base)}
               N2 == base[i].number \cup {c \in Of({"dev_type"} \cup NumberTypes) : i \in GiveNumber(c, base)}
               N3 == base[i].file_install \cup {c \in Of({"file_install"}) : i \in GiveFile(c, base)}
               N4 == base[i].file_fd \cup {c \in Of({"file_fd"}) : i \in GiveFile(c, base)}
               b == base[i]
    <2>1. new[i] = [b EXCEPT !.name = N1, !.number = N2, !.file_install = N3, !.file_fd = N4]
      BY <1>6
    <2>2. b \in Driver
      BY <1>7
    <2> HIDE DEF N1, N2, N3, N4, b
    <2>3. new[i] = [ops |-> b.ops, name |-> N1, number |-> N2, file_install |-> N3, file_fd |-> N4]
      BY <2>1, <2>2 DEF Driver
    <2>4. new[i].ops = b.ops /\ new[i].name = N1 /\ new[i].number = N2 /\ new[i].file_install = N3 /\ new[i].file_fd = N4
      BY <2>3
    <2>5. new[i] = [ops |-> new[i].ops, name |-> new[i].name, number |-> new[i].number,
                            file_install |-> new[i].file_install, file_fd |-> new[i].file_fd]
      BY <2>3, <2>4
    <2>6. N1 = ((b.name \cup {c \in Of({"dri_name"}) : i \in GiveDriverName(c, base)})
                                 \cup {c \in Of({"dev_name"}) : i \in GiveDeviceName(c, base)})
      BY DEF N1, b
    <2>7. QED
      BY <2>4, <2>5, <2>6 DEF N2, N3, N4, b
  <1>10. \A types : \A c : c \in Of(types) <=> c \in ResultsOf(e) /\ Checker[c] \in types
    BY DEF Of
  <1>11. ASSUME NEW i \in DOMAIN base
         PROVE  /\ new[i].name = base[i].name \cup {c \in ResultsOf(e) : Named(c, base, i)}
                /\ new[i].number = base[i].number \cup
                          {c \in ResultsOf(e) :
                              \/ Checker[c] = "dev_type"
                              \/ Checker[c] \in NumberTypes /\ i \in Closest(c, base, DOMAIN base)}
                /\ new[i].file_install = base[i].file_install \cup
                          {c \in ResultsOf(e) : Checker[c] = "file_install" /\ i \in Closest(c, base, DOMAIN base)}
                /\ new[i].file_fd = base[i].file_fd \cup
                          {c \in ResultsOf(e) : Checker[c] = "file_fd" /\ i \in Closest(c, base, DOMAIN base)}
    <2>1. {c \in Of({"dri_name"}) : i \in GiveDriverName(c, base)}
             \cup {c \in Of({"dev_name"}) : i \in GiveDeviceName(c, base)} = {c \in ResultsOf(e) : Named(c, base, i)}
      BY <1>5, <1>10 DEF Named
    <2>2. {c \in Of({"dev_type"} \cup NumberTypes) : i \in GiveNumber(c, base)} =
             {c \in ResultsOf(e) : \/ Checker[c] = "dev_type"
                                   \/ Checker[c] \in NumberTypes /\ i \in Closest(c, base, DOMAIN base)}
      <3>1. "dev_type" \notin NumberTypes
        BY DEF NumberTypes
      <3>2. QED
        BY <1>5, <1>10, <3>1
    <2>3. {c \in Of({"file_install"}) : i \in GiveFile(c, base)} =
             {c \in ResultsOf(e) : Checker[c] = "file_install" /\ i \in Closest(c, base, DOMAIN base)}
      BY <1>5, <1>10
    <2>4. {c \in Of({"file_fd"}) : i \in GiveFile(c, base)} =
             {c \in ResultsOf(e) : Checker[c] = "file_fd" /\ i \in Closest(c, base, DOMAIN base)}
      BY <1>5, <1>10
    <2>5. QED
      BY <1>9, <2>1, <2>2, <2>3, <2>4
  <1>12. new \in Seq(Driver)
    <2>1. ASSUME NEW i \in DOMAIN base PROVE new[i] \in Driver
      <3>1. base[i].ops \in CheckerResults /\ base[i].name \subseteq CheckerResults
            /\ base[i].number \subseteq CheckerResults /\ base[i].file_install \subseteq CheckerResults
            /\ base[i].file_fd \subseteq CheckerResults
        BY <1>7 DEF Driver
      <3>2. new[i].ops \in CheckerResults /\ new[i].name \subseteq CheckerResults
            /\ new[i].number \subseteq CheckerResults /\ new[i].file_install \subseteq CheckerResults
            /\ new[i].file_fd \subseteq CheckerResults
        BY <1>4, <1>9, <1>11, <3>1
      <3> DEFINE o == new[i].ops
                 n1 == new[i].name
                 n2 == new[i].number
                 n3 == new[i].file_install
                 n4 == new[i].file_fd
      <3>3. new[i] = [ops |-> o, name |-> n1, number |-> n2, file_install |-> n3, file_fd |-> n4]
        BY <1>9
      <3> HIDE DEF o, n1, n2, n3, n4
      <3>4. [ops |-> o, name |-> n1, number |-> n2, file_install |-> n3, file_fd |-> n4] \in Driver
        BY <3>2 DEF Driver, o, n1, n2, n3, n4
      <3>5. QED
        BY <3>3, <3>4
    <2> DEFINE L == Len(old) + Len(fresh)
    <2>2. L \in Nat /\ DOMAIN new = 1 .. L
      BY <1>1, <1>8
    <2> HIDE DEF L
    <2>3. new = [i \in 1 .. L |-> new[i]]
      BY <1>6, <1>8, <2>2
    <2>4. new \in [1 .. L -> Driver]
      BY <1>8, <2>1, <2>2, <2>3
    <2>5. QED
      BY <2>2, <2>4, SeqDef
  <1>13. QED
    BY <1>1, <1>2, <1>3, <1>8, <1>9, <1>11, <1>12 DEF base, new, old, fresh

(***************************************************************************)
(* The inductive invariant.                                                *)
(***************************************************************************)

\* Drivers come from explored functions, and so does everything they were given.
DriversInv ==
    \A i \in Drivers :
        /\ Ops(i) \in found /\ Checker[Ops(i)] \in OpsTypes /\ EntryOf[Ops(i)] \in explored
        /\ all_device_drivers[i].name \subseteq Mapped
        /\ all_device_drivers[i].number \subseteq Mapped
        /\ all_device_drivers[i].file_install \subseteq Mapped
        /\ all_device_drivers[i].file_fd \subseteq Mapped

\* What is read once the init functions are done.
ReadInv ==
    phase = "handlers" =>
        \A i \in Drivers :
            /\ Ops(i) \in fmt
            /\ \A c \in all_device_drivers[i].name : EntryOf[c] = EntryOf[Ops(i)] => c \in fmt

\* GivenToNearest, and a driver never loses its last name.
GivenInv ==
    \A c \in Mapped : \A i \in Drivers :
        /\ Checker[c] = "dri_name" =>
              /\ c \in all_device_drivers[i].name => i \in Nearest(c)
              /\ i \in Nearest(c) =>
                    \/ c \in all_device_drivers[i].name
                    \/ c \in fmt /\ Value[c] = "%s" /\ all_device_drivers[i].name # {}
        /\ Checker[c] \in NumberTypes => (c \in all_device_drivers[i].number <=> i \in Nearest(c))
        /\ Checker[c] = "file_install" =>
              (c \in all_device_drivers[i].file_install <=> i \in Nearest(c))
        /\ Checker[c] = "file_fd" => (c \in all_device_drivers[i].file_fd <=> i \in Nearest(c))

MapInv ==
    /\ checker_results \in Outcomes
    /\ explored \subseteq Entries
    /\ all_device_drivers \in Seq(Driver)
    /\ fmt \subseteq found
    /\ wild = FALSE
    /\ phase \in {"init", "handlers"}
    /\ DriversInv
    /\ ReadInv
    /\ GivenInv

(***************************************************************************)
(* Exploring a function.                                                   *)
(***************************************************************************)

\* The walks find what they find.
LEMMA SameResults ==
    ASSUME checker_results' = checker_results
    PROVE  found' = found /\ \A e : HasOps(e)' <=> HasOps(e)
  <1>1. found' = found
    BY DEF found, ResultsOf, GetCheckerResults
  <1>2. \A e : HasOps(e)' <=> HasOps(e)
    BY DEF HasOps, NewDrivers, GetCheckerResults
  <1>3. QED
    BY <1>1, <1>2

\* A function without an operations structure changes nothing.
LEMMA ExploreNothing ==
    ASSUME MapInv, NEW e \in Entries, ~ HasOps(e), checker_results' = checker_results,
           explored' = explored \cup {e}, all_device_drivers' = all_device_drivers,
           fmt \subseteq fmt'
    PROVE  DriversInv' /\ GivenInv'
  <1>1. Mapped' = Mapped
    BY SameResults DEF Mapped
  <1>2. /\ Drivers' = Drivers /\ \A i : Ops(i)' = Ops(i)
        /\ \A c : Nearest(c)' = Nearest(c)
    BY DEF Drivers, Ops, Nearest, Rivals, Before
  <1>3. DriversInv'
    BY <1>1, <1>2, SameResults DEF DriversInv, MapInv
  <1>4. GivenInv'
    BY <1>1, <1>2 DEF GivenInv, MapInv
  <1>5. QED
    BY <1>3, <1>4

LEMMA ExploreDrivers ==
    ASSUME MapInv, NEW e \in Entries \ explored, HasOps(e), checker_results' = checker_results,
           explored' = explored \cup {e}, all_device_drivers' = MappingCheckerResults(e),
           fmt \subseteq fmt'
    PROVE  /\ DriversInv' /\ GivenInv' /\ all_device_drivers' \in Seq(Driver)
           /\ Len(all_device_drivers') = Len(all_device_drivers) + Len(NewDrivers(e))
           /\ \A i \in Drivers : /\ i \in Drivers' /\ Ops(i)' = Ops(i)
                                 /\ \A c \in all_device_drivers'[i].name :
                                       c \in all_device_drivers[i].name \/ EntryOf[c] = e
           /\ \A i \in Drivers' \ Drivers : EntryOf[Ops(i)'] = e /\ Ops(i)' \in found
  <1> DEFINE old == all_device_drivers
             fresh == NewDrivers(e)
             new == all_device_drivers'
             base == Base(e)
  <1>1. /\ checker_results \in Outcomes /\ old \in Seq(Driver)
        /\ e \in Entries /\ e \notin explored /\ DriversInv /\ GivenInv
    BY DEF MapInv
  <1>2. /\ base \in Seq(Driver) /\ new \in Seq(Driver)
        /\ DOMAIN new = 1 .. Len(old) + Len(fresh)
        /\ DOMAIN base = DOMAIN new
        /\ \A i \in DOMAIN old : i \in DOMAIN new /\ base[i] = old[i]
        /\ \A i \in DOMAIN new \ DOMAIN old : \E o \in ResultsOf(e) :
              Checker[o] \in OpsTypes /\ base[i] = NewDriver(o)
    BY <1>1, MappedDrivers
  <1>3. \A i \in DOMAIN new :
            /\ new[i].ops = base[i].ops
            /\ new[i].name = base[i].name \cup {c \in ResultsOf(e) : Named(c, base, i)}
            /\ new[i].number = base[i].number \cup
                  {c \in ResultsOf(e) :
                      \/ Checker[c] = "dev_type"
                      \/ Checker[c] \in NumberTypes /\ i \in Closest(c, base, DOMAIN base)}
            /\ new[i].file_install = base[i].file_install \cup
                  {c \in ResultsOf(e) : Checker[c] = "file_install" /\ i \in Closest(c, base, DOMAIN base)}
            /\ new[i].file_fd = base[i].file_fd \cup
                  {c \in ResultsOf(e) : Checker[c] = "file_fd" /\ i \in Closest(c, base, DOMAIN base)}
    BY <1>1, MappedDrivers
  <1>4. /\ Drivers = DOMAIN old /\ Drivers' = DOMAIN new
        /\ \A i : Ops(i) = old[i].ops /\ Ops(i)' = new[i].ops
    BY DEF Drivers, Ops
  <1>5. \A c : c \in ResultsOf(e) <=> c \in found /\ EntryOf[c] = e
    BY <1>1, ResultFacts, FoundFacts
  <1>6. Mapped' = Mapped \cup ResultsOf(e) /\ Mapped \cap ResultsOf(e) = {}
    <2>1. found' = found /\ \A x : HasOps(x)' <=> HasOps(x)
      BY SameResults
    <2>2. QED
      BY <1>1, <1>5, <2>1 DEF Mapped
  <1>7. \A i \in DOMAIN new \ DOMAIN old :
           /\ new[i].ops \in found /\ Checker[new[i].ops] \in OpsTypes /\ EntryOf[new[i].ops] = e
           /\ base[i].name = {} /\ base[i].number = {}
           /\ base[i].file_install = {} /\ base[i].file_fd = {}
    <2> TAKE i \in DOMAIN new \ DOMAIN old
    <2>1. PICK o \in ResultsOf(e) : Checker[o] \in OpsTypes /\ base[i] = NewDriver(o)
      BY <1>2
    <2>2. base[i].ops = o /\ base[i].name = {} /\ base[i].number = {}
           /\ base[i].file_install = {} /\ base[i].file_fd = {}
      BY <2>1 DEF NewDriver
    <2>3. new[i].ops = o
      BY <1>3, <2>2
    <2>4. QED
      BY <1>5, <2>1, <2>2, <2>3
  <1> HIDE DEF new, old, base, fresh
  <1>8. \A i \in DOMAIN old : i \in DOMAIN new /\ new[i].ops = old[i].ops /\ EntryOf[old[i].ops] # e
    BY <1>1, <1>2, <1>3, <1>4 DEF DriversInv
  <1>9. DriversInv'
    <2> SUFFICES ASSUME NEW i \in DOMAIN new
                 PROVE  /\ new[i].ops \in found' /\ Checker[new[i].ops] \in OpsTypes
                        /\ EntryOf[new[i].ops] \in explored'
                        /\ new[i].name \subseteq Mapped' /\ new[i].number \subseteq Mapped'
                        /\ new[i].file_install \subseteq Mapped' /\ new[i].file_fd \subseteq Mapped'
      BY <1>4 DEF DriversInv, new
    <2>1. found' = found
      BY SameResults
    <2>2. CASE i \in DOMAIN old
      <3>1. /\ old[i].ops \in found /\ Checker[old[i].ops] \in OpsTypes /\ EntryOf[old[i].ops] \in explored
            /\ old[i].name \subseteq Mapped /\ old[i].number \subseteq Mapped
            /\ old[i].file_install \subseteq Mapped /\ old[i].file_fd \subseteq Mapped
        BY <1>1, <1>4, <2>2 DEF DriversInv, old
      <3>2. base[i] = old[i]
        BY <1>2, <2>2
      <3>3. QED
        BY <1>3, <1>6, <2>1, <3>1, <3>2
    <2>3. CASE i \notin DOMAIN old
      BY <1>3, <1>6, <1>7, <2>1, <2>3
    <2>4. QED
      BY <2>2, <2>3
  <1>10. \A c : Nearest(c)' =
            {i \in Rivals(c)' : \A j \in Rivals(c)' : Match(c, new[j].ops) <= Match(c, new[i].ops)}
    BY DEF Nearest, Ops, new, Match
  <1>11. \A c : Rivals(c)' = IF Checker[c] = "dri_name" THEN {i \in Before(c)' : Id[new[i].ops] = Id[c]} ELSE Before(c)'
    BY DEF Rivals, Ops, new
  <1>12. \A c : Before(c)' = {i \in DOMAIN new : \E j \in DOMAIN new : i <= j /\ EntryOf[new[j].ops] = EntryOf[c]}
    BY DEF Before, Drivers, Ops, new
  <1>13. \A c : /\ Nearest(c) = {i \in Rivals(c) : \A j \in Rivals(c) : Match(c, old[j].ops) <= Match(c, old[i].ops)}
                /\ Rivals(c) = IF Checker[c] = "dri_name" THEN {i \in Before(c) : Id[old[i].ops] = Id[c]} ELSE Before(c)
                /\ Before(c) = {i \in DOMAIN old : \E j \in DOMAIN old : i <= j /\ EntryOf[old[j].ops] = EntryOf[c]}
    BY DEF Nearest, Rivals, Before, Drivers, Ops, old
  <1>14. \A c \in Mapped : Nearest(c)' = Nearest(c) /\ Nearest(c) \subseteq DOMAIN old
    <2> TAKE c \in Mapped
    <2>1. EntryOf[c] # e
      BY <1>1 DEF Mapped
    <2>2. \A j \in DOMAIN new : EntryOf[new[j].ops] = EntryOf[c] => j \in DOMAIN old
      BY <1>7, <2>1
    <2>3. \A i \in DOMAIN new, j \in DOMAIN old : i <= j => i \in DOMAIN old
      <3>1. DOMAIN old = 1 .. Len(old) /\ Len(old) \in Nat /\ Len(fresh) \in Nat
        BY <1>1, NewDriverFacts DEF fresh
      <3>2. QED
        BY <1>2, <3>1
    <2>4. Before(c)' = Before(c)
      BY <1>8, <1>12, <1>13, <2>2, <2>3
    <2>5. Before(c) \subseteq DOMAIN old
      BY <1>13
    <2>6. Rivals(c)' = Rivals(c)
      BY <1>8, <1>11, <1>13, <2>4, <2>5
    <2>7. Rivals(c) \subseteq DOMAIN old
      BY <1>13, <2>5
    <2>8. \A i \in Rivals(c) : new[i].ops = old[i].ops
      BY <1>8, <2>7
    <2>9. Nearest(c)' = Nearest(c)
      BY <1>10, <1>13, <2>6, <2>8
    <2>10. QED
      BY <1>13, <2>7, <2>9
  <1>15. \A c \in ResultsOf(e) :
            Nearest(c)' = IF Checker[c] = "dri_name" THEN Closest(c, base, OfSameId(c, base))
                                                     ELSE Closest(c, base, DOMAIN base)
    <2> TAKE c \in ResultsOf(e)
    <2> DEFINE last == Len(old) + Len(fresh)
    <2>1. last \in DOMAIN new \ DOMAIN old /\ \A i \in DOMAIN new : i <= last
      <3>1. DOMAIN old = 1 .. Len(old) /\ Len(old) \in Nat /\ Len(fresh) \in Nat /\ Len(fresh) > 0
        BY <1>1, NewDriverFacts DEF fresh
      <3>2. QED
        BY <1>2, <3>1
    <2> HIDE DEF last
    <2>2. EntryOf[new[last].ops] = EntryOf[c]
      BY <1>5, <1>7, <2>1
    <2>3. Before(c)' = DOMAIN new
      BY <1>12, <2>1, <2>2
    <2>4. OfSameId(c, base) = {i \in DOMAIN new : Id[new[i].ops] = Id[c]}
      BY <1>2, <1>3 DEF OfSameId
    <2>5. \A S \in SUBSET (DOMAIN new) :
             Closest(c, base, S) = {i \in S : \A j \in S : Match(c, new[j].ops) <= Match(c, new[i].ops)}
      BY <1>3 DEF Closest
    <2>6. Rivals(c)' = IF Checker[c] = "dri_name" THEN OfSameId(c, base) ELSE DOMAIN new
      BY <1>11, <2>3, <2>4
    <2>7. Rivals(c)' \in SUBSET (DOMAIN new)
      BY <2>4, <2>6
    <2>8. Nearest(c)' = Closest(c, base, Rivals(c)')
      BY <1>10, <2>5, <2>7
    <2>9. QED
      BY <1>2, <2>6, <2>8
  <1>16. \A c \in Mapped, i \in DOMAIN new :
            /\ c \notin ResultsOf(e)
            /\ c \in new[i].name <=> i \in DOMAIN old /\ c \in old[i].name
            /\ c \in new[i].number <=> i \in DOMAIN old /\ c \in old[i].number
            /\ c \in new[i].file_install <=> i \in DOMAIN old /\ c \in old[i].file_install
            /\ c \in new[i].file_fd <=> i \in DOMAIN old /\ c \in old[i].file_fd
    BY <1>2, <1>3, <1>6, <1>7
  <1>17. \A i \in DOMAIN old : old[i].name \subseteq new[i].name
    BY <1>2, <1>3, <1>8
  <1>18. \A c \in ResultsOf(e), i \in DOMAIN new :
            c \notin base[i].name /\ c \notin base[i].number /\ c \notin base[i].file_install /\ c \notin base[i].file_fd
    <2> TAKE c \in ResultsOf(e), i \in DOMAIN new
    <2>1. CASE i \in DOMAIN old
      <3>1. /\ old[i].name \subseteq Mapped /\ old[i].number \subseteq Mapped
            /\ old[i].file_install \subseteq Mapped /\ old[i].file_fd \subseteq Mapped
        BY <1>1, <1>4, <2>1 DEF DriversInv, old
      <3>2. QED
        BY <1>2, <1>6, <2>1, <3>1
    <2>2. CASE i \notin DOMAIN old
      BY <1>7, <2>2
    <2>3. QED
      BY <2>1, <2>2
  <1>19. GivenInv'
    <2> SUFFICES ASSUME NEW c \in Mapped', NEW i \in DOMAIN new
                 PROVE  /\ Checker[c] = "dri_name" =>
                              /\ c \in new[i].name => i \in Nearest(c)'
                              /\ i \in Nearest(c)' =>
                                    \/ c \in new[i].name
                                    \/ c \in fmt' /\ Value[c] = "%s" /\ new[i].name # {}
                        /\ Checker[c] \in NumberTypes => (c \in new[i].number <=> i \in Nearest(c)')
                        /\ Checker[c] = "file_install" => (c \in new[i].file_install <=> i \in Nearest(c)')
                        /\ Checker[c] = "file_fd" => (c \in new[i].file_fd <=> i \in Nearest(c)')
      BY <1>4 DEF GivenInv, new
    <2>1. CASE c \in Mapped /\ i \in DOMAIN old
      <3>1. /\ Checker[c] = "dri_name" =>
                    /\ c \in old[i].name => i \in Nearest(c)
                    /\ i \in Nearest(c) =>
                          \/ c \in old[i].name
                          \/ c \in fmt /\ Value[c] = "%s" /\ old[i].name # {}
            /\ Checker[c] \in NumberTypes => (c \in old[i].number <=> i \in Nearest(c))
            /\ Checker[c] = "file_install" => (c \in old[i].file_install <=> i \in Nearest(c))
            /\ Checker[c] = "file_fd" => (c \in old[i].file_fd <=> i \in Nearest(c))
        BY <1>1, <1>4, <2>1 DEF GivenInv, old
      <3>2. Nearest(c)' = Nearest(c) /\ old[i].name \subseteq new[i].name
        BY <1>14, <1>17, <2>1
      <3>3. QED
        BY <1>16, <2>1, <3>1, <3>2
    <2>2. CASE c \in Mapped /\ i \notin DOMAIN old
      BY <1>14, <1>16, <2>2
    <2>3. CASE c \in ResultsOf(e)
      <3>1. NumberTypes \cap {"dri_name", "dev_name", "dev_type", "file_install", "file_fd"} = {}
        BY DEF NumberTypes
      <3>2. Checker[c] = "dri_name" => (c \in new[i].name <=> i \in Nearest(c)')
        BY <1>3, <1>15, <1>18, <2>3 DEF Named
      <3>3. Checker[c] \in NumberTypes => (c \in new[i].number <=> i \in Nearest(c)')
        BY <1>3, <1>15, <1>18, <2>3, <3>1
      <3>4. Checker[c] = "file_install" => (c \in new[i].file_install <=> i \in Nearest(c)')
        BY <1>3, <1>15, <1>18, <2>3
      <3>5. Checker[c] = "file_fd" => (c \in new[i].file_fd <=> i \in Nearest(c)')
        BY <1>3, <1>15, <1>18, <2>3
      <3>6. QED
        BY <3>2, <3>3, <3>4, <3>5
    <2>4. QED
      BY <1>6, <2>1, <2>2, <2>3
  <1>20. Len(new) = Len(old) + Len(fresh)
    <2>1. Len(old) \in Nat /\ Len(fresh) \in Nat
      BY <1>1, NewDriverFacts DEF fresh
    <2>2. QED
      BY <1>2, <2>1
  <1>21. \A i \in DOMAIN old : \A c \in new[i].name : c \in old[i].name \/ EntryOf[c] = e
    BY <1>2, <1>3, <1>5, <1>8
  <1>22. QED
    BY <1>2, <1>4, <1>7, <1>8, <1>9, <1>19, <1>20, <1>21 DEF new, old, fresh

\* What is read of some drivers.
LEMMA ReadFacts ==
    ASSUME NEW dds \in Seq(Driver), NEW m \in Nat \ {0}
    PROVE  /\ \A c : c \in ReadBy(dds) <=>
                 \E i \in DOMAIN dds : c = dds[i].ops \/ c \in dds[i].name
           /\ \A c : c \in ReadBy(SubSeq(dds, m, Len(dds))) <=>
                 \E i \in m .. Len(dds) : c = dds[i].ops \/ c \in dds[i].name
  <1> DEFINE s == SubSeq(dds, m, Len(dds))
  <1>1. \A t, c : c \in ReadBy(t) <=> \E i \in DOMAIN t : c = t[i].ops \/ c \in t[i].name
    BY DEF ReadBy, Range
  <1>2. /\ \A k \in DOMAIN s : k + m - 1 \in m .. Len(dds) /\ s[k] = dds[k + m - 1]
        /\ \A i \in m .. Len(dds) : i - m + 1 \in DOMAIN s /\ s[i - m + 1] = dds[i]
    <2>1. Len(dds) \in Nat /\ s = [k \in 1 .. Len(dds) - m + 1 |-> dds[k + m - 1]]
      OBVIOUS
    <2> HIDE DEF s
    <2>2. DOMAIN s = 1 .. Len(dds) - m + 1
      BY <2>1
    <2>3. \A k \in DOMAIN s : k + m - 1 \in m .. Len(dds)
      BY <2>1, <2>2
    <2>4. \A i \in m .. Len(dds) : i - m + 1 \in DOMAIN s /\ (i - m + 1) + m - 1 = i
      BY <2>1, <2>2
    <2>5. \A k \in DOMAIN s : s[k] = dds[k + m - 1]
      BY <2>1, <2>2
    <2>6. QED
      BY <2>3, <2>4, <2>5
  <1> HIDE DEF s
  <1>3. \A c : c \in ReadBy(s) <=> \E i \in m .. Len(dds) : c = dds[i].ops \/ c \in dds[i].name
    BY <1>1, <1>2
  <1>4. QED
    BY <1>1, <1>3 DEF s

\* Whatever is read of drivers is a structure or a name of theirs.
LEMMA ReadIsKnown ==
    ASSUME NEW dds \in Seq(Driver), NEW S,
           \A i \in DOMAIN dds : dds[i].ops \in S /\ dds[i].name \subseteq S
    PROVE  /\ ReadBy(dds) \subseteq S
           /\ \A m \in Nat \ {0} : ReadBy(SubSeq(dds, m, Len(dds))) \subseteq S
  <1>1. ReadBy(dds) \subseteq S
    <2>1. 1 \in Nat \ {0}
      OBVIOUS
    <2>2. QED
      BY <2>1, ReadFacts
  <1>2. ASSUME NEW m \in Nat \ {0} PROVE ReadBy(SubSeq(dds, m, Len(dds))) \subseteq S
    <2>1. m .. Len(dds) \subseteq DOMAIN dds
      OBVIOUS
    <2>2. QED
      BY <2>1, ReadFacts
  <1>3. QED
    BY <1>1, <1>2

\* A function that has an operations structure leaves no result without a driver.
LEMMA NothingWild ==
    ASSUME checker_results \in Outcomes, all_device_drivers \in Seq(Driver), NEW e \in Entries,
           HasOps(e)
    PROVE  ~ WritesWild(e)
  <1> DEFINE base == Base(e)
             N == Len(all_device_drivers)
             K == Len(NewDrivers(e))
  <1>1. DOMAIN base = 1 .. N + K
    BY MappedDrivers
  <1>2. N \in Nat /\ K \in Nat /\ K > 0
    BY NewDriverFacts
  <1> HIDE DEF base, N, K
  <1>3. 1 \in DOMAIN base
    BY <1>1, <1>2
  <1>4. base # <<>>
    BY <1>3
  <1>5. QED
    BY <1>4 DEF WritesWild, Base, base

(***************************************************************************)
(* The invariant is kept.                                                  *)
(***************************************************************************)

LEMMA MapInvInit == Init => MapInv
  <1> SUFFICES ASSUME Init PROVE MapInv
    OBVIOUS
  <1>1. Drivers = {}
    BY DEF Init, Drivers
  <1>2. all_device_drivers \in Seq(Driver)
    BY DEF Init
  <1>3. QED
    BY <1>1, <1>2 DEF Init, MapInv, DriversInv, ReadInv, GivenInv

LEMMA KeptByAnalysisInitFunction ==
    ASSUME MapInv, NEW e \in InitEntries, AnalysisInitFunction(e)
    PROVE  MapInv'
  <1>1. /\ e \in Entries \ explored /\ e \in Entries /\ phase = "init"
        /\ explored' = explored \cup {e} /\ checker_results' = checker_results
        /\ fmt' = fmt /\ phase' = phase
    BY DEF AnalysisInitFunction, Entries
  <1>2. found' = found
    BY <1>1, SameResults
  <1>3. /\ checker_results' \in Outcomes /\ explored' \subseteq Entries /\ fmt' \subseteq found'
        /\ phase' \in {"init", "handlers"} /\ ReadInv'
    BY <1>1, <1>2 DEF MapInv, ReadInv
  <1>4. CASE HasOps(e)
    <2>1. all_device_drivers' = MappingCheckerResults(e)
      BY <1>4 DEF AnalysisInitFunction
    <2>2. all_device_drivers' \in Seq(Driver) /\ DriversInv' /\ GivenInv'
      BY <1>1, <1>4, <2>1, ExploreDrivers
    <2>3. ~ WritesWild(e)
      BY <1>1, <1>4, NothingWild DEF MapInv
    <2>4. wild' = FALSE
      BY <2>3 DEF AnalysisInitFunction, MapInv
    <2>5. QED
      BY <1>3, <2>2, <2>4 DEF MapInv
  <1>5. CASE ~ HasOps(e)
    <2>1. all_device_drivers' = all_device_drivers /\ wild' = FALSE
      BY <1>5 DEF AnalysisInitFunction, MapInv
    <2>2. DriversInv' /\ GivenInv'
      BY <1>1, <1>5, <2>1, ExploreNothing
    <2>3. QED
      BY <1>3, <2>1, <2>2 DEF MapInv
  <1>6. QED
    BY <1>4, <1>5

LEMMA KeptByAnalysisHandler ==
    ASSUME MapInv, NEW e \in Handlers, AnalysisHandler(e)
    PROVE  MapInv'
  <1> DEFINE old == all_device_drivers
             new == all_device_drivers'
             m == Len(old) + 1
  <1>1. /\ e \in Entries \ explored /\ e \in Entries /\ phase = "handlers"
        /\ explored' = explored \cup {e} /\ checker_results' = checker_results /\ phase' = phase
        /\ fmt' = fmt \cup ReadBy(SubSeq(new, m, Len(new)))
    BY DEF AnalysisHandler, Entries, ExecuteInitFunction
  <1>2. found' = found /\ old \in Seq(Driver) /\ fmt \subseteq fmt' /\ fmt \subseteq found
    BY <1>1, SameResults DEF MapInv
  <1>3. m \in Nat \ {0}
    BY <1>2
  <1>4. /\ checker_results' \in Outcomes /\ explored' \subseteq Entries
        /\ phase' \in {"init", "handlers"}
    BY <1>1 DEF MapInv
  <1>5. new \in Seq(Driver) /\ DriversInv' /\ GivenInv' /\ wild' = FALSE
    <2>1. CASE HasOps(e)
      <3>1. new = MappingCheckerResults(e)
        BY <2>1 DEF AnalysisHandler
      <3>2. new \in Seq(Driver) /\ DriversInv' /\ GivenInv'
        BY <1>1, <1>2, <2>1, <3>1, ExploreDrivers
      <3>3. ~ WritesWild(e)
        BY <1>1, <2>1, NothingWild DEF MapInv
      <3>4. wild' = FALSE
        BY <3>3 DEF AnalysisHandler, MapInv
      <3>5. QED
        BY <3>2, <3>4
    <2>2. CASE ~ HasOps(e)
      <3>1. new = old /\ wild' = FALSE
        BY <2>2 DEF AnalysisHandler, MapInv
      <3>2. DriversInv' /\ GivenInv'
        BY <1>1, <1>2, <2>2, <3>1, ExploreNothing
      <3>3. QED
        BY <1>2, <3>1, <3>2
    <2>3. QED
      BY <2>1, <2>2
  <1>6. fmt' \subseteq found'
    <2>1. ReadBy(SubSeq(new, m, Len(new))) \subseteq found'
      <3>1. \A i \in DOMAIN new : new[i].ops \in found' /\ new[i].name \subseteq found'
        BY <1>5 DEF DriversInv, Drivers, Ops, Mapped
      <3> HIDE DEF new, m
      <3>2. QED
        BY <1>3, <1>5, <3>1, ReadIsKnown
    <2>2. QED
      BY <1>1, <1>2, <2>1
  <1>7. ReadInv'
    <2>1. \A i \in DOMAIN old : old[i].ops \in fmt
             /\ \A c \in old[i].name : EntryOf[c] = EntryOf[old[i].ops] => c \in fmt
      BY <1>1 DEF MapInv, ReadInv, Drivers, Ops
    <2>2. SUFFICES ASSUME NEW i \in DOMAIN new
                   PROVE  new[i].ops \in fmt'
                          /\ \A c \in new[i].name : EntryOf[c] = EntryOf[new[i].ops] => c \in fmt'
      BY DEF ReadInv, Drivers, Ops
    <2>3. CASE ~ HasOps(e)
      <3>1. new = old
        BY <2>3 DEF AnalysisHandler
      <3>2. QED
        BY <1>2, <2>1, <2>2, <3>1
    <2>4. CASE HasOps(e)
      <3>1. new = MappingCheckerResults(e)
        BY <2>4 DEF AnalysisHandler
      <3>2. /\ Len(new) = Len(old) + Len(NewDrivers(e))
            /\ \A k \in DOMAIN old : /\ new[k].ops = old[k].ops
                                     /\ \A c \in new[k].name : c \in old[k].name \/ EntryOf[c] = e
        BY <1>1, <1>2, <2>4, <3>1, ExploreDrivers DEF Drivers, Ops
      <3>3. CASE i \in DOMAIN old
        <4>1. EntryOf[old[i].ops] # e
          BY <1>1, <3>3 DEF MapInv, DriversInv, Drivers, Ops
        <4>2. QED
          BY <1>2, <2>1, <3>2, <3>3, <4>1
      <3>4. CASE i \notin DOMAIN old
        <4>1. i \in m .. Len(new)
          <5> HIDE DEF new, old
          <5>1. DOMAIN old = 1 .. Len(old) /\ DOMAIN new = 1 .. Len(new)
                /\ Len(old) \in Nat /\ Len(new) \in Nat
            BY <1>2, <1>5
          <5>2. QED
            BY <2>2, <3>4, <5>1
        <4>2. \A c : c \in ReadBy(SubSeq(new, m, Len(new))) <=>
                 \E k \in m .. Len(new) : c = new[k].ops \/ c \in new[k].name
          <5> HIDE DEF new, m
          <5>1. QED
            BY <1>3, <1>5, ReadFacts
        <4>3. QED
          BY <1>1, <4>1, <4>2
      <3>5. QED
        BY <3>3, <3>4
    <2>5. QED
      BY <2>3, <2>4
  <1>8. QED
    BY <1>4, <1>5, <1>6, <1>7 DEF MapInv

LEMMA KeptByHandleInitFunctionWithDriverDevice ==
    ASSUME MapInv, HandleInitFunctionWithDriverDevice
    PROVE  MapInv'
  <1> DEFINE old == all_device_drivers
             new == all_device_drivers'
  <1>1. /\ phase' = "handlers" /\ explored' = explored /\ checker_results' = checker_results
        /\ wild' = wild /\ fmt' = fmt \cup ReadBy(old)
        /\ new = [i \in DOMAIN old |-> [old[i] EXCEPT !.name = WithoutPatterns(@)]]
    BY DEF HandleInitFunctionWithDriverDevice, ExecuteInitFunction
  <1>2. found' = found /\ Mapped' = Mapped
    BY <1>1, SameResults DEF Mapped
  <1>3. \A i \in DOMAIN old : old[i] \in Driver
    BY DEF MapInv
  <1>4. DOMAIN new = DOMAIN old
    BY <1>1
  <1> HIDE DEF new, old
  <1>5. ASSUME NEW names
        PROVE  /\ WithoutPatterns(names) \subseteq names
               /\ names # {} => WithoutPatterns(names) # {}
               /\ \A c \in names \ WithoutPatterns(names) : c \in fmt' /\ Value[c] = "%s"
    BY DEF WithoutPatterns, IsPattern
  <1>6. ASSUME NEW i \in DOMAIN old
        PROVE  /\ new[i] \in Driver
               /\ new[i].ops = old[i].ops /\ new[i].number = old[i].number
               /\ new[i].file_install = old[i].file_install /\ new[i].file_fd = old[i].file_fd
               /\ new[i].name = WithoutPatterns(old[i].name)
    <2> DEFINE b == old[i]
               n == WithoutPatterns(b.name)
    <2>1. new[i] = [b EXCEPT !.name = n]
      BY <1>1
    <2>2. b \in Driver
      BY <1>3
    <2>3. n \subseteq b.name
      BY <1>5
    <2> HIDE DEF b, n
    <2>4. new[i] \in Driver /\ new[i].ops = b.ops /\ new[i].number = b.number
          /\ new[i].file_install = b.file_install /\ new[i].file_fd = b.file_fd /\ new[i].name = n
      BY <2>1, <2>2, <2>3 DEF Driver
    <2>5. QED
      BY <2>4 DEF b, n
  <1>7. new \in Seq(Driver)
    <2> DEFINE L == Len(old)
    <2>1. L \in Nat /\ DOMAIN new = 1 .. L
      BY <1>4 DEF MapInv, old
    <2> HIDE DEF L
    <2>2. new = [i \in 1 .. L |-> new[i]]
      BY <1>1, <1>4, <2>1
    <2>3. new \in [1 .. L -> Driver]
      BY <1>4, <1>6, <2>1, <2>2
    <2>4. QED
      BY <2>1, <2>3, SeqDef
  <1>8. Drivers = DOMAIN old /\ Drivers' = DOMAIN new /\ \A i : Ops(i) = old[i].ops /\ Ops(i)' = new[i].ops
    BY DEF Drivers, Ops, new, old
  <1>9. \A c : Nearest(c)' = Nearest(c) /\ Nearest(c) \subseteq DOMAIN old
    <2> TAKE c
    <2>1. Before(c)' = {i \in DOMAIN new : \E j \in DOMAIN new : i <= j /\ EntryOf[new[j].ops] = EntryOf[c]}
          /\ Before(c) = {i \in DOMAIN old : \E j \in DOMAIN old : i <= j /\ EntryOf[old[j].ops] = EntryOf[c]}
      BY DEF Before, Drivers, Ops, new, old
    <2>2. Before(c)' = Before(c) /\ Before(c) \subseteq DOMAIN old
      BY <1>4, <1>6, <2>1
    <2>3. Rivals(c)' = (IF Checker[c] = "dri_name" THEN {i \in Before(c)' : Id[new[i].ops] = Id[c]} ELSE Before(c)')
          /\ Rivals(c) = (IF Checker[c] = "dri_name" THEN {i \in Before(c) : Id[old[i].ops] = Id[c]} ELSE Before(c))
      BY DEF Rivals, Ops, new, old
    <2>4. Rivals(c)' = Rivals(c) /\ Rivals(c) \subseteq DOMAIN old
      BY <1>6, <2>2, <2>3
    <2>5. Nearest(c)' = {i \in Rivals(c)' : \A j \in Rivals(c)' : Match(c, new[j].ops) <= Match(c, new[i].ops)}
          /\ Nearest(c) = {i \in Rivals(c) : \A j \in Rivals(c) : Match(c, old[j].ops) <= Match(c, old[i].ops)}
      BY DEF Nearest, Ops, new, old
    <2>6. QED
      BY <1>6, <2>4, <2>5
  <1>10. DriversInv'
    <2>1. \A i \in DOMAIN old :
            /\ old[i].ops \in found /\ Checker[old[i].ops] \in OpsTypes /\ EntryOf[old[i].ops] \in explored
            /\ old[i].name \subseteq Mapped /\ old[i].number \subseteq Mapped
            /\ old[i].file_install \subseteq Mapped /\ old[i].file_fd \subseteq Mapped
      BY <1>8 DEF MapInv, DriversInv, old
    <2>2. \A i \in DOMAIN new :
            /\ new[i].ops \in found' /\ Checker[new[i].ops] \in OpsTypes /\ EntryOf[new[i].ops] \in explored'
            /\ new[i].name \subseteq Mapped' /\ new[i].number \subseteq Mapped'
            /\ new[i].file_install \subseteq Mapped' /\ new[i].file_fd \subseteq Mapped'
      BY <1>1, <1>2, <1>4, <1>5, <1>6, <2>1
    <2>3. QED
      BY <1>8, <2>2 DEF DriversInv, new
  <1>11. \A c : c \in ReadBy(old) <=> \E i \in DOMAIN old : c = old[i].ops \/ c \in old[i].name
    <2>1. old \in Seq(Driver) /\ 1 \in Nat \ {0}
      BY DEF MapInv, old
    <2>2. QED
      BY <2>1, ReadFacts
  <1>12. fmt' \subseteq found'
    <2>1. \A i \in DOMAIN old : old[i].ops \in found /\ old[i].name \subseteq found
      BY DEF MapInv, DriversInv, Drivers, Ops, Mapped, old
    <2>2. ReadBy(old) \subseteq found /\ fmt \subseteq found
      BY <2>1, ReadIsKnown DEF MapInv, old
    <2>3. QED
      BY <1>1, <1>2, <2>2
  <1>13. ReadInv'
    <2>1. \A i \in DOMAIN new : new[i].ops \in fmt' /\ new[i].name \subseteq fmt'
      BY <1>1, <1>4, <1>5, <1>6, <1>11
    <2>2. QED
      BY <1>8, <2>1 DEF ReadInv, new
  <1>14. GivenInv'
    <2> SUFFICES ASSUME NEW c \in Mapped', NEW i \in DOMAIN new
                 PROVE  /\ Checker[c] = "dri_name" =>
                              /\ c \in new[i].name => i \in Nearest(c)'
                              /\ i \in Nearest(c)' =>
                                    \/ c \in new[i].name
                                    \/ c \in fmt' /\ Value[c] = "%s" /\ new[i].name # {}
                        /\ Checker[c] \in NumberTypes => (c \in new[i].number <=> i \in Nearest(c)')
                        /\ Checker[c] = "file_install" => (c \in new[i].file_install <=> i \in Nearest(c)')
                        /\ Checker[c] = "file_fd" => (c \in new[i].file_fd <=> i \in Nearest(c)')
      BY <1>8 DEF GivenInv, new
    <2>1. c \in Mapped /\ i \in DOMAIN old
      BY <1>2, <1>4
    <2>2. /\ Checker[c] = "dri_name" =>
                    /\ c \in old[i].name => i \in Nearest(c)
                    /\ i \in Nearest(c) =>
                          \/ c \in old[i].name
                          \/ c \in fmt /\ Value[c] = "%s" /\ old[i].name # {}
          /\ Checker[c] \in NumberTypes => (c \in old[i].number <=> i \in Nearest(c))
          /\ Checker[c] = "file_install" => (c \in old[i].file_install <=> i \in Nearest(c))
          /\ Checker[c] = "file_fd" => (c \in old[i].file_fd <=> i \in Nearest(c))
      BY <1>8, <2>1 DEF MapInv, GivenInv, old
    <2>3. Nearest(c)' = Nearest(c)
      BY <1>9
    <2>4. /\ new[i].number = old[i].number
          /\ new[i].file_install = old[i].file_install /\ new[i].file_fd = old[i].file_fd
      BY <1>6, <2>1
    <2>5. /\ new[i].name \subseteq old[i].name
          /\ old[i].name # {} => new[i].name # {}
          /\ c \in old[i].name /\ c \notin new[i].name => c \in fmt' /\ Value[c] = "%s"
      BY <1>5, <1>6, <2>1
    <2>6. fmt \subseteq fmt'
      BY <1>1
    <2>7. QED
      BY <2>2, <2>3, <2>4, <2>5, <2>6
  <1>15. QED
    BY <1>1, <1>2, <1>7, <1>10, <1>12, <1>13, <1>14 DEF MapInv, new

LEMMA MapInvNext == MapInv /\ [Next]_vars => MapInv'
  <1> SUFFICES ASSUME MapInv, [Next]_vars PROVE MapInv'
    OBVIOUS
  <1>1. CASE UNCHANGED vars
    <2>1. /\ checker_results' = checker_results /\ explored' = explored /\ fmt' = fmt
          /\ all_device_drivers' = all_device_drivers /\ wild' = wild /\ phase' = phase
      BY <1>1 DEF vars
    <2>2. found' = found /\ Mapped' = Mapped
      BY <2>1, SameResults DEF Mapped
    <2>3. /\ Drivers' = Drivers /\ \A i : Ops(i)' = Ops(i)
          /\ \A c : Nearest(c)' = Nearest(c)
      BY <2>1 DEF Drivers, Ops, Nearest, Rivals, Before
    <2>4. DriversInv'
      BY <2>1, <2>2, <2>3 DEF MapInv, DriversInv
    <2>5. ReadInv'
      BY <2>1, <2>3 DEF MapInv, ReadInv
    <2>6. GivenInv'
      BY <2>1, <2>2, <2>3 DEF MapInv, GivenInv
    <2>7. QED
      BY <2>1, <2>2, <2>4, <2>5, <2>6 DEF MapInv
  <1>2. ASSUME NEW e \in InitEntries, AnalysisInitFunction(e) PROVE MapInv'
    BY <1>2, KeptByAnalysisInitFunction
  <1>3. CASE HandleInitFunctionWithDriverDevice
    BY <1>3, KeptByHandleInitFunctionWithDriverDevice
  <1>4. ASSUME NEW e \in Handlers, AnalysisHandler(e) PROVE MapInv'
    BY <1>4, KeptByAnalysisHandler
  <1>5. QED
    BY <1>1, <1>2, <1>3, <1>4 DEF Next

(***************************************************************************)
(* The invariant implies what the runs check.                              *)
(***************************************************************************)

LEMMA ImpliesTypeOK == MapInv => MappingTypeOK
  <1> SUFFICES ASSUME MapInv PROVE MappingTypeOK
    OBVIOUS
  <1>1. checker_results \in [Entries -> [CheckerTypes -> Seq(CheckerResults)]]
    BY ResultAssumption DEF MapInv
  <1>2. ASSUME NEW i \in Drivers, NEW list \in ResultLists
        PROVE  all_device_drivers[i][list] \subseteq Mapped
    BY DEF MapInv, DriversInv, ResultLists, FileTypes
  <1>3. QED
    BY <1>1, <1>2 DEF MapInv, DriversInv, MappingTypeOK

LEMMA ImpliesGivenToNearest == MapInv => GivenToNearest
  <1> SUFFICES ASSUME MapInv, NEW c \in Mapped, NEW i \in Drivers
               PROVE  /\ Checker[c] = "dri_name" =>
                            /\ c \in all_device_drivers[i].name => i \in Nearest(c)
                            /\ i \in Nearest(c) =>
                                  c \in all_device_drivers[i].name \/ (c \in fmt /\ Value[c] = "%s")
                      /\ Checker[c] \in NumberTypes =>
                            (c \in all_device_drivers[i].number <=> i \in Nearest(c))
                      /\ Checker[c] \in FileTypes =>
                            (c \in all_device_drivers[i][Checker[c]] <=> i \in Nearest(c))
    BY DEF GivenToNearest, Has
  <1>1. /\ Checker[c] = "dri_name" =>
              /\ c \in all_device_drivers[i].name => i \in Nearest(c)
              /\ i \in Nearest(c) =>
                    c \in all_device_drivers[i].name \/ (c \in fmt /\ Value[c] = "%s")
        /\ Checker[c] \in NumberTypes => (c \in all_device_drivers[i].number <=> i \in Nearest(c))
    BY DEF MapInv, GivenInv
  <1>2. CASE Checker[c] = "file_install"
    <2>1. c \in all_device_drivers[i].file_install <=> i \in Nearest(c)
      BY <1>2 DEF MapInv, GivenInv
    <2>2. QED
      BY <1>1, <1>2, <2>1
  <1>3. CASE Checker[c] = "file_fd"
    <2>1. c \in all_device_drivers[i].file_fd <=> i \in Nearest(c)
      BY <1>3 DEF MapInv, GivenInv
    <2>2. QED
      BY <1>1, <1>3, <2>1
  <1>4. QED
    BY <1>1, <1>2, <1>3 DEF FileTypes

LEMMA ImpliesOwnNameIsUsed == MapInv => OwnNameIsUsed
  <1> SUFFICES ASSUME MapInv, Done, NEW i \in Drivers
               PROVE  /\ Ops(i) \in fmt
                      /\ \A c \in all_device_drivers[i].name : EntryOf[c] = EntryOf[Ops(i)] => c \in fmt
                      /\ \A c \in RegisteredWith(i) :
                            \/ c \in all_device_drivers[i].name
                            \/ Value[c] = "%s" /\ all_device_drivers[i].name # {}
    BY DEF OwnNameIsUsed
  <1>1. /\ Ops(i) \in fmt
        /\ \A c \in all_device_drivers[i].name : EntryOf[c] = EntryOf[Ops(i)] => c \in fmt
    BY DEF MapInv, ReadInv, Done
  <1>2. ASSUME NEW c \in RegisteredWith(i)
        PROVE  \/ c \in all_device_drivers[i].name
               \/ Value[c] = "%s" /\ all_device_drivers[i].name # {}
    <2> DEFINE o == Ops(i)
               e == EntryOf[c]
    <2>1. /\ c \in found /\ Checker[c] = "dri_name" /\ e = EntryOf[o] /\ Id[c] = Id[o]
          /\ Chain[c] = Chain[o]
      BY DEF RegisteredWith
    <2>2. o \in found /\ Checker[o] \in OpsTypes /\ EntryOf[o] \in explored
      BY DEF MapInv, DriversInv
    <2>3. /\ c \in CheckerResults /\ o \in CheckerResults /\ e \in Entries /\ o \in ResultsOf(e)
      BY <2>1, <2>2, FoundFacts DEF MapInv
    <2>4. HasOps(e)
      BY <2>2, <2>3, NewDriverFacts DEF MapInv
    <2>5. c \in Mapped
      BY <2>1, <2>2, <2>4 DEF Mapped
    <2>6. \A j \in Drivers : Match(c, Ops(j)) <= Len(Chain[c])
      <3> TAKE j \in Drivers
      <3>1. Ops(j) \in found
        BY DEF MapInv, DriversInv
      <3>2. Ops(j) \in CheckerResults
        BY <3>1, FoundFacts DEF MapInv
      <3>3. QED
        BY <2>3, <3>2, MatchFacts
    <2>7. Match(c, o) = Len(Chain[c])
      BY <2>1, <2>3, MatchFacts
    <2>8. i \in Rivals(c) /\ Rivals(c) \subseteq Drivers
      <3>1. i <= i
        BY DEF Drivers, MapInv
      <3>2. i \in Before(c) /\ Before(c) \subseteq Drivers
        BY <2>1, <3>1 DEF Before
      <3>3. QED
        BY <2>1, <3>2 DEF Rivals
    <2>9. i \in Nearest(c)
      BY <2>6, <2>7, <2>8 DEF Nearest
    <2>10. QED
      BY <2>1, <2>5, <2>9 DEF MapInv, GivenInv
  <1>3. QED
    BY <1>1, <1>2

LEMMA MapInvHolds == Spec => []MapInv
  <1>1. QED
    BY MapInvInit, MapInvNext, PTL DEF Spec

(***************************************************************************)
(* Drivers and their lists hold results of their type that have been found *)
(* and mapped, and numbers and files are never written to a driver that    *)
(* does not exist (the uninitialised temp_dd of mapping_checker_results()).*)
(***************************************************************************)
THEOREM TypeCorrect == Spec => []MappingTypeOK
  <1>1. QED
    BY MapInvHolds, ImpliesTypeOK, PTL

(***************************************************************************)
(* Whatever order functions are explored in, a name, number or file        *)
(* belongs to exactly the drivers that share most of its call chain, among *)
(* those that existed when it was given away (mapping_checker_results());  *)
(* only names that were read and hold "%s" are taken away again.           *)
(***************************************************************************)
THEOREM GivenToTheNearest == Spec => []GivenToNearest
  <1>1. QED
    BY MapInvHolds, ImpliesGivenToNearest, PTL

(***************************************************************************)
(* When nothing is left to explore, the name a driver is registered with   *)
(* is one of its names, or was a pattern and another name is left; and the *)
(* structure and the names of a driver's own function have been read by    *)
(* execute_task(), although handlers and init functions are read at        *)
(* different times and only for some of the drivers.                       *)
(***************************************************************************)
THEOREM OwnNamesAreUsed == Spec => []OwnNameIsUsed
  <1>1. QED
    BY MapInvHolds, ImpliesOwnNameIsUsed, PTL
=============================================================================
