------------------------ MODULE StructureTypesProofs ------------------------
(***************************************************************************)
(* Proofs about module StructureTypes, for all programs: a description     *)
(* defines the structures it names and no others, is_opt_pointer() finds   *)
(* exactly the types that lead back to a structure, and values of every    *)
(* described structure can be finite.                                      *)
(***************************************************************************)
EXTENDS StructureTypes, FiniteSetTheorems, SequenceTheorems, NaturalsInduction,
        WellFoundedInduction, TLAPS

(***************************************************************************)
(* Facts about numbers and recursion over them.                            *)
(***************************************************************************)

\* A set of numbers has a least one.
LEMMA LeastOf ==
    ASSUME NEW S, S \subseteq Nat, S # {}
    PROVE  \E n \in S : \A m \in S : n <= m
  <1> DEFINE R == OpToRel(<, Nat)
  <1>1. IsWellFoundedOn(R, Nat)
    BY NatLessThanWellFounded
  <1>2. \A y, x \in Nat : y < x => <<y, x>> \in R
    BY DEF OpToRel
  <1> HIDE DEF R
  <1>3. PICK n \in S : \A m \in S : ~ (<<m, n>> \in R)
    BY <1>1, WFMin
  <1>4. ASSUME NEW m \in S PROVE n <= m
    <2>1. m \in Nat /\ n \in Nat
      OBVIOUS
    <2>2. ~ m < n
      BY <1>2, <1>3, <2>1
    <2>3. QED
      BY <2>1, <2>2
  <1>5. QED
    BY <1>4

\* What holds at 0 and is handed on holds for all numbers up to N: Good is their set.
LEMMA Stepwise ==
    ASSUME NEW N \in Nat, NEW Good, 0 \in Good,
           \A n \in 1 .. N : n - 1 \in Good => n \in Good
    PROVE  \A n \in 0 .. N : n \in Good
  <1> DEFINE Bad == {n \in 0 .. N : n \notin Good}
  <1>1. SUFFICES ASSUME Bad # {} PROVE FALSE
    OBVIOUS
  <1>2. Bad \subseteq Nat
    OBVIOUS
  <1>3. PICK k \in Bad : \A m \in Bad : k <= m
    <2> HIDE DEF Bad
    <2>1. QED
      BY <1>1, <1>2, LeastOf
  <1>4. k \in 1 .. N /\ k \notin Good
    OBVIOUS
  <1>5. k - 1 \in 0 .. N /\ k - 1 \notin Bad
    BY <1>3, <1>4
  <1>6. QED
    BY <1>4, <1>5

\* r starts with x, and F makes each of its values from the one before.
Steps(r, X, x, F, N) ==
    /\ r \in [0 .. N -> X]
    /\ r[0] = x
    /\ \A n \in 1 .. N : r[n] = F[n][r[n - 1]]

\* Such an r exists for every F.
LEMMA StepsExist ==
    ASSUME NEW X, NEW x \in X, NEW N \in Nat, NEW F \in [1 .. N -> [X -> X]]
    PROVE  \E r : Steps(r, X, x, F, N)
  <1> DEFINE Solves(r, k) == Steps(r, X, x, F, k)
             Good == {k \in Nat : \E r : Solves(r, k)}
  <1> HIDE DEF Solves
  <1>1. 0 \in Good
    <2> DEFINE r == [n \in 0 .. 0 |-> x]
    <2>1. Solves(r, 0)
      BY DEF Solves, Steps
    <2> HIDE DEF r
    <2>2. QED
      BY <2>1
  <1>2. ASSUME NEW k \in 1 .. N, k - 1 \in Good PROVE k \in Good
    <2>1. PICK q : Solves(q, k - 1)
      BY <1>2
    <2> DEFINE r == [n \in 0 .. k |-> IF n = k THEN F[k][q[k - 1]] ELSE q[n]]
    <2>2. /\ \A n \in 0 .. k : n # k => n \in 0 .. k - 1
          /\ \A n \in 1 .. k : n - 1 \in 0 .. k /\ n - 1 # k /\ (n # k => n \in 1 .. k - 1)
          /\ 0 \in 0 .. k /\ k \in 0 .. k /\ k - 1 \in 0 .. k - 1 /\ k # 0 /\ k \in Nat
      OBVIOUS
    <2>3. q \in [0 .. k - 1 -> X] /\ q[0] = x /\ \A n \in 1 .. k - 1 : q[n] = F[n][q[n - 1]]
      BY <2>1 DEF Solves, Steps
    <2>4. F[k][q[k - 1]] \in X
      <3>1. q[k - 1] \in X
        BY <2>2, <2>3
      <3>2. F[k] \in [X -> X]
        BY <2>2
      <3>3. QED
        BY <3>1, <3>2
    <2>5. r \in [0 .. k -> X]
      BY <2>2, <2>3, <2>4
    <2>6. r[0] = x
      BY <2>2, <2>3
    <2>7. ASSUME NEW n \in 1 .. k PROVE r[n] = F[n][r[n - 1]]
      <3>1. n \in 0 .. k /\ n - 1 \in 0 .. k /\ n - 1 # k
        BY <2>2
      <3>2. r[n - 1] = q[n - 1]
        BY <3>1
      <3>3. CASE n = k
        BY <3>1, <3>2, <3>3
      <3>4. CASE n # k
        BY <2>2, <2>3, <3>1, <3>2, <3>4
      <3>5. QED
        BY <3>3, <3>4
    <2> HIDE DEF r
    <2>8. Solves(r, k)
      BY <2>5, <2>6, <2>7 DEF Solves, Steps
    <2>9. QED
      BY <2>2, <2>8
  <1>3. \A n \in 0 .. N : n \in Good
    <2> HIDE DEF Good
    <2>1. QED
      BY <1>1, <1>2, Stepwise
  <1>4. N \in Good
    BY <1>3
  <1>5. QED
    BY <1>4 DEF Solves

(***************************************************************************)
(* Facts about types.                                                      *)
(***************************************************************************)

\* What is left of a type when some of its wraps are taken off.
Inside(t) == {Type(SubSeq(t.wraps, k, Len(t.wraps)), t.base) : k \in 1 .. Len(t.wraps) + 1}

\* Types have a base, under pointers and arrays.
LEMMA AllTypesType ==
    \A t \in AllTypes :
        /\ t.wraps \in Seq({"ptr", "array"})
        /\ t.base \in Structures \cup {Integer}
        /\ t = Type(t.wraps, t.base)
  <1> SUFFICES ASSUME NEW t \in AllTypes
               PROVE  /\ t.wraps \in Seq({"ptr", "array"})
                      /\ t.base \in Structures \cup {Integer}
                      /\ t = Type(t.wraps, t.base)
    OBVIOUS
  <1>1. PICK u \in Types : t \in Inside(u)
    BY DEF AllTypes, Inside
  <1>2. PICK k \in 1 .. Len(u.wraps) + 1 : t = Type(SubSeq(u.wraps, k, Len(u.wraps)), u.base)
    BY <1>1 DEF Inside
  <1>3. u.wraps \in Seq({"ptr", "array"}) /\ u.base \in Structures \cup {Integer}
    BY TypeAssumption
  <1>4. SubSeq(u.wraps, k, Len(u.wraps)) \in Seq({"ptr", "array"})
    <2>1. k \in 1 .. Len(u.wraps) + 1 /\ Len(u.wraps) \in Nat
      BY <1>3
    <2>2. QED
      BY <1>3, <2>1, SubSeqProperties
  <1>5. QED
    BY <1>2, <1>3, <1>4 DEF Type

\* The types of fields and arguments are among them.
LEMMA TypesAreTypes == Types \subseteq AllTypes
  <1> SUFFICES ASSUME NEW t \in Types PROVE t \in AllTypes
    OBVIOUS
  <1>1. t.wraps \in Seq({"ptr", "array"}) /\ t = Type(t.wraps, t.base)
    BY TypeAssumption DEF Type
  <1>2. SubSeq(t.wraps, 1, Len(t.wraps)) = t.wraps /\ 1 \in 1 .. Len(t.wraps) + 1
    BY <1>1
  <1>3. t \in Inside(t)
    BY <1>1, <1>2 DEF Inside
  <1>4. QED
    BY <1>3 DEF AllTypes, Inside

\* There are finitely many.
LEMMA AllTypesFinite == IsFiniteSet(AllTypes)
  <1>1. ASSUME NEW t \in Types PROVE IsFiniteSet(Inside(t))
    <2> DEFINE N == Len(t.wraps) + 1
               F == [k \in 1 .. N |-> Type(SubSeq(t.wraps, k, Len(t.wraps)), t.base)]
    <2>1. N \in Nat
      BY TypeAssumption, LenProperties
    <2>2. IsFiniteSet(1 .. N)
      BY <2>1, FS_Interval
    <2>3. F \in Surjection(1 .. N, Inside(t))
      BY DEF Inside, Surjection
    <2> HIDE DEF F, N
    <2>4. QED
      BY <2>2, <2>3, FS_Surjection DEF ExistsSurjection
  <1> DEFINE G == [t \in Types |-> Inside(t)]
             All == {Inside(t) : t \in Types}
  <1>2. IsFiniteSet(All)
    <2>1. G \in Surjection(Types, All)
      BY DEF Surjection
    <2> HIDE DEF G, All
    <2>2. QED
      BY <2>1, TypeAssumption, FS_Surjection DEF ExistsSurjection
  <1>3. \A S \in All : IsFiniteSet(S)
    BY <1>1
  <1>4. AllTypes = UNION All
    BY DEF AllTypes, Inside
  <1> HIDE DEF All
  <1>5. QED
    BY <1>2, <1>3, <1>4, FS_UNION

\* What is in a type are types.
LEMMA InnerType ==
    ASSUME NEW body \in Bodies, NEW t \in AllTypes
    PROVE  Inner(body, t) \in Seq(AllTypes) /\ Len(Inner(body, t)) \in Nat
  <1>1. t.wraps \in Seq({"ptr", "array"}) /\ t.base \in Structures \cup {Integer}
    BY AllTypesType
  <1>2. CASE t.wraps # <<>>
    <2>1. PICK u \in Types : t \in Inside(u)
      BY DEF AllTypes, Inside
    <2> DEFINE N == Len(u.wraps)
    <2>2. PICK k \in 1 .. N + 1 : t = Type(SubSeq(u.wraps, k, N), u.base)
      BY <2>1 DEF Inside
    <2>3. u.wraps \in Seq({"ptr", "array"}) /\ N \in Nat
      BY TypeAssumption
    <2>4. t.wraps = SubSeq(u.wraps, k, N) /\ t.base = u.base
      BY <2>2 DEF Type
    <2>5. k \in 1 .. N
      <3>1. ASSUME k = N + 1 PROVE FALSE
        <4>1. SubSeq(u.wraps, k, N) = <<>>
          BY <2>3, <3>1
        <4>2. QED
          BY <1>2, <2>4, <4>1
      <3>2. QED
        BY <2>3, <3>1
    <2>6. Tail(t.wraps) = SubSeq(u.wraps, k + 1, N)
      <3> DEFINE w == SubSeq(u.wraps, k, N)
                 v == SubSeq(u.wraps, k + 1, N)
      <3>1. Len(w) = N - k + 1 /\ \A j \in 1 .. N - k + 1 : w[j] = u.wraps[k + j - 1]
        BY <2>3, <2>5
      <3>2. Len(v) = N - k /\ \A j \in 1 .. N - k : v[j] = u.wraps[k + 1 + j - 1]
        BY <2>3, <2>5
      <3>3. w \in Seq({"ptr", "array"}) /\ v \in Seq({"ptr", "array"}) /\ w # <<>>
        BY <1>1, <1>2, <2>3, <2>4, <2>5, SubSeqProperties
      <3> HIDE DEF w, v
      <3>4. Tail(w) \in Seq({"ptr", "array"}) /\ Len(Tail(w)) = N - k
            /\ \A j \in 1 .. N - k : Tail(w)[j] = w[j + 1]
        BY <2>3, <2>5, <3>1, <3>3
      <3>5. \A j \in 1 .. N - k : Tail(w)[j] = v[j]
        <4> TAKE j \in 1 .. N - k
        <4>1. j + 1 \in 1 .. N - k + 1 /\ k + (j + 1) - 1 = k + 1 + j - 1
          BY <2>3, <2>5
        <4>2. QED
          BY <3>1, <3>2, <3>4, <4>1
      <3>6. Tail(w) = v
        BY <3>2, <3>3, <3>4, <3>5, SeqEqual
      <3>7. QED
        BY <2>4, <3>6 DEF w, v
    <2>7. Type(Tail(t.wraps), t.base) \in Inside(u)
      <3>1. k + 1 \in 1 .. N + 1
        BY <2>3, <2>5
      <3>2. QED
        BY <2>4, <2>6, <3>1 DEF Inside
    <2>8. Type(Tail(t.wraps), t.base) \in AllTypes
      BY <2>7 DEF AllTypes, Inside
    <2>9. QED
      BY <1>2, <2>8 DEF Inner
  <1>3. CASE t.wraps = <<>> /\ t.base # Integer
    <2>1. Inner(body, t) = body[t.base] /\ t.base \in Structures
      BY <1>1, <1>3 DEF Inner
    <2>2. body[t.base] \in Seq(Types)
      BY <2>1, TypeAssumption
    <2>3. Types \subseteq AllTypes
      BY TypesAreTypes
    <2>4. body[t.base] \in Seq(AllTypes)
      BY <2>2, <2>3
    <2>5. QED
      BY <2>1, <2>4
  <1>4. CASE t.wraps = <<>> /\ t.base = Integer
    BY <1>4 DEF Inner
  <1>5. QED
    BY <1>2, <1>3, <1>4

(***************************************************************************)
(* Facts about the search of is_opt_pointer().                             *)
(***************************************************************************)

\* What a call gives, and all calls that go no deeper than some number.
Result == [opt : BOOLEAN, checked : SUBSET AllTypes]

Calls == [SUBSET AllTypes -> [AllTypes -> Result]]

\* The loop over what is in t, where g stands for the calls.
LookedAt(body, g, checked, t) ==
    LET looked[k \in 0 .. Len(Inner(body, t))] ==
            IF k = 0 THEN [opt |-> FALSE, checked |-> checked \cup {t}]
            ELSE LET last == looked[k - 1] IN
                 IF last.opt THEN last ELSE g[last.checked][Inner(body, t)[k]]
    IN looked

\* One call, where g stands for the calls it makes.
Call(body, st, g, checked, t) ==
    IF t \in checked THEN [opt |-> FALSE, checked |-> checked]
    ELSE IF NamedLike(st, t) THEN [opt |-> TRUE, checked |-> checked \cup {t}]
    ELSE LookedAt(body, g, checked, t)[Len(Inner(body, t))]

\* The loop goes from one to the next and stops looking when it has found.
Loop(q, inner, g, checked, t) ==
    /\ q \in [0 .. Len(inner) -> Result]
    /\ q[0] = [opt |-> FALSE, checked |-> checked \cup {t}]
    /\ \A k \in 1 .. Len(inner) :
          q[k] = IF q[k - 1].opt THEN q[k - 1] ELSE g[q[k - 1].checked][inner[k]]

\* There is such a loop.
LEMMA LookedAtLoop ==
    ASSUME NEW body \in Bodies, NEW g \in Calls, NEW checked \in SUBSET AllTypes, NEW t \in AllTypes
    PROVE  Loop(LookedAt(body, g, checked, t), Inner(body, t), g, checked, t)
  <1> DEFINE N == Len(Inner(body, t))
             x == [opt |-> FALSE, checked |-> checked \cup {t}]
             Turn(k, last) == IF last.opt THEN last ELSE g[last.checked][Inner(body, t)[k]]
             F == [k \in 1 .. N |-> [last \in Result |-> Turn(k, last)]]
             Equation(r) == r = [k \in 0 .. N |-> IF k = 0 THEN x ELSE Turn(k, r[k - 1])]
             q == CHOOSE r : Equation(r)
  <1>1. N \in Nat /\ \A k \in 1 .. N : Inner(body, t)[k] \in AllTypes
    BY InnerType, ElementOfSeq
  <1>2. \A k \in 1 .. N : \A last \in Result : Turn(k, last) \in Result
    <2> TAKE k \in 1 .. N
    <2> TAKE last \in Result
    <2>1. last.checked \in SUBSET AllTypes
      BY DEF Result
    <2>2. g[last.checked] \in [AllTypes -> Result]
      BY <2>1 DEF Calls
    <2>3. QED
      BY <1>1, <2>2
  <1>3. x \in Result
    BY DEF Result
  <1> HIDE DEF Turn, x
  <1>4. F \in [1 .. N -> [Result -> Result]]
    BY <1>2
  <1>5. PICK r : Steps(r, Result, x, F, N)
    <2> HIDE DEF F, N
    <2>1. QED
      BY <1>1, <1>3, <1>4, StepsExist
  <1>6. Equation(r)
    <2>1. \A k \in 0 .. N : k # 0 => k \in 1 .. N /\ k - 1 \in 0 .. N
      BY <1>1
    <2>2. r \in [0 .. N -> Result] /\ r[0] = x
      BY <1>5 DEF Steps
    <2>3. \A k \in 0 .. N : k # 0 => r[k] = Turn(k, r[k - 1])
      <3> TAKE k \in 0 .. N
      <3> HAVE k # 0
      <3>1. r[k] = F[k][r[k - 1]] /\ r[k - 1] \in Result /\ k \in 1 .. N
        BY <1>5, <2>1, <2>2 DEF Steps
      <3>2. QED
        BY <3>1
    <2>4. QED
      BY <2>2, <2>3
  <1>7. Equation(q)
    BY <1>6
  <1>8. LookedAt(body, g, checked, t) = q
    BY DEF LookedAt, Turn, x
  <1> HIDE DEF q
  <1>9. q[0] = x /\ \A k \in 1 .. N : q[k] = Turn(k, q[k - 1])
    <2>1. \A k \in 1 .. N : k \in 0 .. N /\ k # 0
      BY <1>1
    <2>2. 0 \in 0 .. N
      BY <1>1
    <2>3. QED
      BY <1>7, <2>1, <2>2
  <1>10. \A k \in 0 .. N : q[k] \in Result
    <2> DEFINE Good == {k \in 0 .. N : q[k] \in Result}
    <2>1. 0 \in Good
      BY <1>1, <1>3, <1>9
    <2>2. \A k \in 1 .. N : k - 1 \in Good => k \in Good
      BY <1>1, <1>2, <1>9
    <2>3. \A k \in 0 .. N : k \in Good
      <3> HIDE DEF Good, N
      <3>1. QED
        BY <1>1, <2>1, <2>2, Stepwise
    <2>4. QED
      BY <2>3
  <1>11. q \in [0 .. N -> Result]
    <2>1. q = [k \in 0 .. N |-> q[k]]
      BY <1>7
    <2>2. QED
      BY <1>10, <2>1
  <1>12. QED
    BY <1>8, <1>9, <1>11 DEF Turn, x, Loop

\* A call gives a result, whatever the calls it makes give.
LEMMA CallType ==
    ASSUME NEW body \in Bodies, NEW st, NEW g \in Calls, NEW checked \in SUBSET AllTypes,
           NEW t \in AllTypes
    PROVE  Call(body, st, g, checked, t) \in Result
  <1> DEFINE N == Len(Inner(body, t))
  <1>1. N \in 0 .. N
    BY InnerType
  <1>2. LookedAt(body, g, checked, t) \in [0 .. N -> Result]
    BY LookedAtLoop DEF Loop
  <1>3. LookedAt(body, g, checked, t)[N] \in Result
    BY <1>1, <1>2
  <1>4. QED
    BY <1>3 DEF Call, Result

\* No deeper call than the one that finds all types checked.
Shallowest == [checked \in SUBSET AllTypes |-> [t \in AllTypes |-> [opt |-> FALSE, checked |-> checked]]]

Deeper(body, st, g) ==
    [checked \in SUBSET AllTypes |-> [t \in AllTypes |-> Call(body, st, g, checked, t)]]

\* The search is made of calls, deeper and deeper.
LEMMA IsOptPointerEquation ==
    ASSUME NEW body \in Bodies, NEW st
    PROVE  \E c : LET N == Cardinality(AllTypes) IN
                  /\ c \in [0 .. N -> Calls]
                  /\ c[0] = Shallowest
                  /\ \A n \in 1 .. N : c[n] = Deeper(body, st, c[n - 1])
                  /\ c[N] = IsOptPointer(body, st)
  <1> DEFINE N == Cardinality(AllTypes)
             F == [n \in 1 .. N |-> [g \in Calls |-> Deeper(body, st, g)]]
             Body(n, g) == [checked \in SUBSET AllTypes |-> [t \in AllTypes |->
                              IF n = 0 \/ t \in checked THEN [opt |-> FALSE, checked |-> checked]
                              ELSE IF NamedLike(st, t) THEN [opt |-> TRUE, checked |-> checked \cup {t}]
                              ELSE LookedAt(body, g, checked, t)[Len(Inner(body, t))]]]
             Equation(r) == r = [n \in 0 .. N |-> Body(n, r[n - 1])]
             c == CHOOSE r : Equation(r)
  <1>1. N \in Nat
    BY AllTypesFinite, FS_CardinalityType
  <1>2. Shallowest \in Calls
    BY DEF Shallowest, Calls, Result
  <1>3. \A g \in Calls : Deeper(body, st, g) \in Calls
    <2> TAKE g \in Calls
    <2>1. \A checked \in SUBSET AllTypes : \A t \in AllTypes :
             Call(body, st, g, checked, t) \in Result
      BY CallType
    <2>2. QED
      BY <2>1 DEF Deeper, Calls
  <1>4. \A g : Body(0, g) = Shallowest
    BY DEF Shallowest
  <1>5. \A n \in 1 .. N : \A g : Body(n, g) = Deeper(body, st, g)
    <2> TAKE n \in 1 .. N
    <2>1. n # 0
      BY <1>1
    <2>2. QED
      BY <2>1 DEF Deeper, Call
  <1> HIDE DEF Body
  <1>6. PICK r : Steps(r, Calls, Shallowest, F, N)
    <2>1. F \in [1 .. N -> [Calls -> Calls]]
      BY <1>3
    <2> HIDE DEF F, N
    <2>2. QED
      BY <1>1, <1>2, <2>1, StepsExist
  <1>7. Equation(r)
    <2>1. r \in [0 .. N -> Calls] /\ r[0] = Shallowest
      BY <1>6 DEF Steps
    <2>2. \A n \in 0 .. N : r[n] = Body(n, r[n - 1])
      <3> TAKE n \in 0 .. N
      <3>1. CASE n = 0
        BY <1>4, <2>1, <3>1
      <3>2. CASE n # 0
        <4>1. n \in 1 .. N /\ n - 1 \in 0 .. N
          BY <1>1, <3>2
        <4>2. r[n] = F[n][r[n - 1]] /\ r[n - 1] \in Calls
          BY <1>6, <2>1, <4>1 DEF Steps
        <4>3. QED
          BY <1>5, <4>1, <4>2
      <3>3. QED
        BY <3>1, <3>2
    <2>3. QED
      BY <2>1, <2>2
  <1>8. Equation(c)
    BY <1>7
  <1>9. c[N] = IsOptPointer(body, st)
    BY DEF IsOptPointer, Body, LookedAt
  <1> HIDE DEF c
  <1>10. c[0] = Shallowest
    <2>1. 0 \in 0 .. N
      BY <1>1
    <2>2. QED
      BY <1>4, <1>8, <2>1
  <1>11. \A n \in 1 .. N : c[n] = Deeper(body, st, c[n - 1])
    <2> TAKE n \in 1 .. N
    <2>1. n \in 0 .. N
      BY <1>1
    <2>2. QED
      BY <1>5, <1>8, <2>1
  <1>12. \A n \in 0 .. N : c[n] \in Calls
    <2> DEFINE Good == {n \in 0 .. N : c[n] \in Calls}
    <2>1. 0 \in Good
      BY <1>1, <1>2, <1>10
    <2>2. \A n \in 1 .. N : n - 1 \in Good => n \in Good
      BY <1>1, <1>3, <1>11
    <2>3. \A n \in 0 .. N : n \in Good
      <3> HIDE DEF Good, N
      <3>1. QED
        BY <1>1, <2>1, <2>2, Stepwise
    <2>4. QED
      BY <2>3
  <1>13. c \in [0 .. N -> Calls]
    <2>1. c = [n \in 0 .. N |-> c[n]]
      BY <1>8
    <2>2. QED
      BY <1>12, <2>1
  <1>14. QED
    BY <1>9, <1>10, <1>11, <1>13

\* Looking into x is over: it is not named like st, and C has what is in it.
Explored(body, st, x, C) == ~ NamedLike(st, x) /\ Range(Inner(body, x)) \subseteq C

\* A call for t that has found nothing has looked at t and into all that is new in checked.
Thorough(body, st, checked, t, r) ==
    ~ r.opt => /\ checked \subseteq r.checked
               /\ t \in r.checked
               /\ \A x \in r.checked \ checked : Explored(body, st, x, r.checked)

\* So do all calls that have no more than n types left to look at.
MissesNothing(body, st, n, g) ==
    \A checked \in SUBSET AllTypes : \A t \in AllTypes :
        Cardinality(AllTypes \ checked) <= n => Thorough(body, st, checked, t, g[checked][t])

\* A call misses nothing if the calls it makes do not: each starts with what the one before
\* has checked, so that types below one field need not be looked at again below the next.
LEMMA CallIsThorough ==
    ASSUME NEW body \in Bodies, NEW st, NEW g \in Calls, NEW n \in Nat,
           MissesNothing(body, st, n, g),
           NEW checked \in SUBSET AllTypes, NEW t \in AllTypes,
           Cardinality(AllTypes \ checked) <= n + 1
    PROVE  Thorough(body, st, checked, t, Call(body, st, g, checked, t))
  <1> DEFINE now == checked \cup {t}
             inner == Inner(body, t)
             N == Len(inner)
             q == LookedAt(body, g, checked, t)
             Good == {k \in 0 .. N :
                        ~ q[k].opt => /\ now \subseteq q[k].checked
                                      /\ \A j \in 1 .. k : inner[j] \in q[k].checked
                                      /\ \A x \in q[k].checked \ now : Explored(body, st, x, q[k].checked)}
  <1>1. CASE t \in checked
    BY <1>1 DEF Call, Thorough
  <1>2. CASE t \notin checked /\ NamedLike(st, t)
    BY <1>2 DEF Call, Thorough
  <1>3. CASE t \notin checked /\ ~ NamedLike(st, t)
    <2>1. /\ N \in Nat
          /\ \A k \in 1 .. N : inner[k] \in AllTypes
          /\ Range(inner) = {inner[k] : k \in 1 .. N}
      BY InnerType, ElementOfSeq DEF Range
    <2>2. /\ q \in [0 .. N -> Result]
          /\ q[0] = [opt |-> FALSE, checked |-> now]
          /\ \A k \in 1 .. N : q[k] = IF q[k - 1].opt THEN q[k - 1]
                                      ELSE g[q[k - 1].checked][inner[k]]
      <3>1. Loop(q, inner, g, checked, t)
        BY LookedAtLoop
      <3> HIDE DEF q, inner, Good
      <3>2. QED
        BY <3>1 DEF Loop
    <2>3. ASSUME NEW more \in SUBSET AllTypes, now \subseteq more
          PROVE  Cardinality(AllTypes \ more) <= n
      <3>1. IsFiniteSet(AllTypes \ checked) /\ IsFiniteSet(AllTypes \ more)
        BY AllTypesFinite, FS_Difference
      <3>2. AllTypes \ more \subseteq (AllTypes \ checked) \ {t}
        BY <2>3
      <3>3. Cardinality((AllTypes \ checked) \ {t}) = Cardinality(AllTypes \ checked) - 1
            /\ IsFiniteSet((AllTypes \ checked) \ {t})
        BY <1>3, <3>1, FS_RemoveElement
      <3>4. Cardinality(AllTypes \ more) <= Cardinality((AllTypes \ checked) \ {t})
        BY <3>2, <3>3, FS_Subset
      <3>5. Cardinality(AllTypes \ more) \in Nat /\ Cardinality(AllTypes \ checked) \in Nat
        BY <3>1, FS_CardinalityType
      <3> HIDE DEF now
      <3>6. QED
        BY <3>3, <3>4, <3>5
    <2> HIDE DEF q, inner
    <2>4. 0 \in Good
      BY <2>1, <2>2
    <2>5. ASSUME NEW k \in 1 .. N, k - 1 \in Good PROVE k \in Good
      <3> DEFINE last == q[k - 1]
                 r == q[k]
      <3>1. k \in 0 .. N /\ k - 1 \in 0 .. N /\ last \in Result /\ inner[k] \in AllTypes
        BY <2>1, <2>2
      <3>2. CASE last.opt
        BY <2>2, <3>1, <3>2
      <3>3. CASE ~ last.opt
        <4>1. r = g[last.checked][inner[k]]
          BY <2>2, <3>3
        <4>2. /\ now \subseteq last.checked
              /\ \A j \in 1 .. k - 1 : inner[j] \in last.checked
              /\ \A x \in last.checked \ now : Explored(body, st, x, last.checked)
          BY <2>5, <3>3
        <4>3. last.checked \in SUBSET AllTypes
          BY <3>1 DEF Result
        <4> HIDE DEF last, r, now
        <4>4. Cardinality(AllTypes \ last.checked) <= n
          BY <2>3, <4>2, <4>3
        <4>5. Thorough(body, st, last.checked, inner[k], r)
          BY <3>1, <4>1, <4>3, <4>4 DEF MissesNothing
        <4>6. ASSUME ~ r.opt
              PROVE  /\ now \subseteq r.checked
                     /\ \A j \in 1 .. k : inner[j] \in r.checked
                     /\ \A x \in r.checked \ now : Explored(body, st, x, r.checked)
          <5>1. /\ last.checked \subseteq r.checked /\ inner[k] \in r.checked
                /\ \A x \in r.checked \ last.checked : Explored(body, st, x, r.checked)
            BY <4>5, <4>6 DEF Thorough
          <5>2. ASSUME NEW j \in 1 .. k PROVE inner[j] \in r.checked
            <6>1. CASE j = k
              BY <5>1, <6>1
            <6>2. CASE j # k
              <7>1. j \in 1 .. k - 1
                BY <2>1, <6>2
              <7>2. QED
                BY <4>2, <5>1, <7>1
            <6>3. QED
              BY <6>1, <6>2
          <5>3. ASSUME NEW x \in r.checked, x \notin now PROVE Explored(body, st, x, r.checked)
            <6>1. CASE x \in last.checked
              BY <4>2, <5>1, <5>3, <6>1 DEF Explored
            <6>2. CASE x \notin last.checked
              BY <5>1, <6>2
            <6>3. QED
              BY <6>1, <6>2
          <5>4. QED
            BY <4>2, <5>1, <5>2, <5>3
        <4>7. QED
          BY <3>1, <4>6 DEF r, now
      <3>4. QED
        BY <3>2, <3>3
    <2>6. \A k \in 0 .. N : k \in Good
      <3> HIDE DEF Good, N
      <3>1. QED
        BY <2>1, <2>4, <2>5, Stepwise
    <2>7. N \in Good
      BY <2>1, <2>6
    <2>8. Call(body, st, g, checked, t) = q[N]
      BY <1>3 DEF Call, q, inner
    <2>9. ASSUME ~ q[N].opt
          PROVE  /\ checked \subseteq q[N].checked /\ t \in q[N].checked
                 /\ \A x \in q[N].checked \ checked : Explored(body, st, x, q[N].checked)
      <3> DEFINE C == q[N].checked
      <3>1. /\ now \subseteq C
            /\ \A j \in 1 .. N : inner[j] \in C
            /\ \A x \in C \ now : Explored(body, st, x, C)
        BY <2>7, <2>9
      <3> HIDE DEF C
      <3>2. Explored(body, st, t, C)
        BY <1>3, <2>1, <3>1 DEF Explored, inner
      <3>3. QED
        BY <3>1, <3>2 DEF C
    <2>10. QED
      BY <2>8, <2>9 DEF Thorough
  <1>4. QED
    BY <1>1, <1>2, <1>3

\* Nothing is missed.
LEMMA SearchIsThorough ==
    ASSUME NEW body \in Bodies, NEW st, NEW t \in AllTypes
    PROVE  Thorough(body, st, {}, t, IsOptPointer(body, st)[{}][t])
  <1> DEFINE N == Cardinality(AllTypes)
  <1>1. N \in Nat
    BY AllTypesFinite, FS_CardinalityType
  <1>2. PICK c : /\ c \in [0 .. N -> Calls]
                 /\ c[0] = Shallowest
                 /\ \A n \in 1 .. N : c[n] = Deeper(body, st, c[n - 1])
                 /\ c[N] = IsOptPointer(body, st)
    BY IsOptPointerEquation
  <1> DEFINE Good == {n \in 0 .. N : MissesNothing(body, st, n, c[n])}
  <1>3. 0 \in Good
    <2>1. ASSUME NEW checked \in SUBSET AllTypes, NEW u \in AllTypes,
                 Cardinality(AllTypes \ checked) <= 0
          PROVE  Thorough(body, st, checked, u, Shallowest[checked][u])
      <3>1. IsFiniteSet(AllTypes \ checked)
        BY AllTypesFinite, FS_Difference
      <3>2. Cardinality(AllTypes \ checked) = 0
        BY <2>1, <3>1, FS_CardinalityType
      <3>3. AllTypes \ checked = {}
        BY <3>1, <3>2, FS_EmptySet
      <3>4. u \in checked
        BY <3>3
      <3>5. QED
        BY <3>4 DEF Shallowest, Thorough
    <2>2. 0 \in 0 .. N
      BY <1>1
    <2>3. QED
      BY <1>2, <2>1, <2>2 DEF MissesNothing
  <1>4. ASSUME NEW n \in 1 .. N, n - 1 \in Good PROVE n \in Good
    <2>1. n \in 0 .. N /\ n - 1 \in 0 .. N /\ n - 1 \in Nat /\ (n - 1) + 1 = n
      BY <1>1
    <2> DEFINE g == c[n - 1]
    <2>2. g \in Calls /\ MissesNothing(body, st, n - 1, g) /\ c[n] = Deeper(body, st, g)
      BY <1>2, <1>4, <2>1
    <2> HIDE DEF g, Good, N
    <2>3. ASSUME NEW checked \in SUBSET AllTypes, NEW u \in AllTypes,
                 Cardinality(AllTypes \ checked) <= n
          PROVE  Thorough(body, st, checked, u, c[n][checked][u])
      <3>1. Thorough(body, st, checked, u, Call(body, st, g, checked, u))
        BY <2>1, <2>2, <2>3, CallIsThorough
      <3>2. c[n][checked][u] = Call(body, st, g, checked, u)
        BY <2>2 DEF Deeper
      <3>3. QED
        BY <3>1, <3>2
    <2>4. QED
      BY <2>1, <2>3 DEF MissesNothing, Good
  <1>5. \A n \in 0 .. N : n \in Good
    <2> HIDE DEF Good, N
    <2>1. QED
      BY <1>1, <1>3, <1>4, Stepwise
  <1>6. MissesNothing(body, st, N, IsOptPointer(body, st))
    BY <1>1, <1>2, <1>5
  <1>7. AllTypes \ {} = AllTypes /\ N <= N
    BY <1>1
  <1>8. QED
    BY <1>6, <1>7 DEF MissesNothing

\* Nothing in C leads out of it.
Closed(body, C) == C \subseteq AllTypes /\ \A x \in C : Range(Inner(body, x)) \subseteq C

\* All that a type leads to: what every closed set with the type has.
LeadsTo(body, t) == {u \in AllTypes : \A C : Closed(body, C) /\ t \in C => u \in C}

\* It is the smallest closed set with the type.
LEMMA LeadsToIsClosed ==
    ASSUME NEW body \in Bodies, NEW t \in AllTypes
    PROVE  Closed(body, LeadsTo(body, t)) /\ t \in LeadsTo(body, t)
  <1>1. t \in LeadsTo(body, t) /\ LeadsTo(body, t) \subseteq AllTypes
    BY DEF LeadsTo
  <1>2. ASSUME NEW x \in LeadsTo(body, t), NEW u \in Range(Inner(body, x))
        PROVE  u \in LeadsTo(body, t)
    <2>1. x \in AllTypes
      BY DEF LeadsTo
    <2>2. Inner(body, x) \in Seq(AllTypes)
      BY <2>1, InnerType
    <2>3. u \in AllTypes
      BY <2>2, ElementOfSeq DEF Range
    <2>4. \A C : Closed(body, C) /\ t \in C => u \in C
      BY DEF LeadsTo, Closed
    <2>5. QED
      BY <2>3, <2>4 DEF LeadsTo
  <1>3. QED
    BY <1>1, <1>2 DEF Closed

\* Calls for types of C only find what is in C.
Truthful(st, C, g) ==
    \A checked \in SUBSET AllTypes : \A t \in C :
        g[checked][t].opt => \E u \in C : NamedLike(st, u)

\* A call is truthful if those it makes are.
LEMMA CallIsTruthful ==
    ASSUME NEW body \in Bodies, NEW st, NEW C, Closed(body, C),
           NEW g \in Calls, Truthful(st, C, g),
           NEW checked \in SUBSET AllTypes, NEW t \in C, Call(body, st, g, checked, t).opt
    PROVE  \E u \in C : NamedLike(st, u)
  <1> DEFINE inner == Inner(body, t)
             N == Len(inner)
             q == LookedAt(body, g, checked, t)
             Good == {k \in 0 .. N : q[k].opt => \E u \in C : NamedLike(st, u)}
  <1>1. t \in AllTypes
    BY DEF Closed
  <1>2. /\ N \in Nat
        /\ \A k \in 1 .. N : inner[k] \in C
    <2>1. inner \in Seq(AllTypes) /\ N \in Nat
      BY <1>1, InnerType
    <2>2. \A k \in 1 .. N : inner[k] \in Range(inner)
      BY <2>1 DEF Range
    <2>3. Range(inner) \subseteq C
      BY DEF Closed
    <2>4. QED
      BY <2>1, <2>2, <2>3
  <1>3. /\ q \in [0 .. N -> Result]
        /\ q[0] = [opt |-> FALSE, checked |-> checked \cup {t}]
        /\ \A k \in 1 .. N : q[k] = IF q[k - 1].opt THEN q[k - 1]
                                    ELSE g[q[k - 1].checked][inner[k]]
    <2>1. Loop(q, inner, g, checked, t)
      BY <1>1, LookedAtLoop
    <2> HIDE DEF q, inner, Good
    <2>2. QED
      BY <2>1 DEF Loop
  <1>4. SUFFICES ASSUME t \notin checked, ~ NamedLike(st, t) PROVE \E u \in C : NamedLike(st, u)
    BY DEF Call
  <1>5. Call(body, st, g, checked, t) = q[N]
    BY <1>4 DEF Call
  <1> HIDE DEF q, inner
  <1>6. 0 \in Good
    BY <1>2, <1>3
  <1>7. ASSUME NEW k \in 1 .. N, k - 1 \in Good PROVE k \in Good
    <2>1. k \in 0 .. N /\ k - 1 \in 0 .. N /\ q[k - 1] \in Result
      BY <1>2, <1>3
    <2>2. CASE q[k - 1].opt
      BY <1>3, <1>7, <2>1, <2>2
    <2>3. CASE ~ q[k - 1].opt
      <3>1. q[k] = g[q[k - 1].checked][inner[k]] /\ q[k - 1].checked \in SUBSET AllTypes
        BY <1>3, <2>1, <2>3 DEF Result
      <3>2. QED
        BY <1>2, <2>1, <3>1 DEF Truthful
    <2>4. QED
      BY <2>2, <2>3
  <1>8. \A k \in 0 .. N : k \in Good
    <2> HIDE DEF Good, N
    <2>1. QED
      BY <1>2, <1>6, <1>7, Stepwise
  <1>9. N \in Good
    BY <1>2, <1>8
  <1>10. QED
    BY <1>5, <1>9

\* The search is.
LEMMA SearchIsTruthful ==
    ASSUME NEW body \in Bodies, NEW st, NEW C, Closed(body, C)
    PROVE  Truthful(st, C, IsOptPointer(body, st))
  <1> DEFINE N == Cardinality(AllTypes)
  <1>1. N \in Nat
    BY AllTypesFinite, FS_CardinalityType
  <1>2. PICK c : /\ c \in [0 .. N -> Calls]
                 /\ c[0] = Shallowest
                 /\ \A n \in 1 .. N : c[n] = Deeper(body, st, c[n - 1])
                 /\ c[N] = IsOptPointer(body, st)
    BY IsOptPointerEquation
  <1> DEFINE Good == {n \in 0 .. N : Truthful(st, C, c[n])}
  <1>3. 0 \in Good
    <2>1. Truthful(st, C, Shallowest)
      BY DEF Truthful, Shallowest, Closed
    <2>2. 0 \in 0 .. N
      BY <1>1
    <2>3. QED
      BY <1>2, <2>1, <2>2
  <1>4. ASSUME NEW n \in 1 .. N, n - 1 \in Good PROVE n \in Good
    <2>1. n \in 0 .. N /\ n - 1 \in 0 .. N
      BY <1>1
    <2> DEFINE g == c[n - 1]
    <2>2. g \in Calls /\ Truthful(st, C, g) /\ c[n] = Deeper(body, st, g)
      BY <1>2, <1>4, <2>1
    <2> HIDE DEF g, Good, N
    <2>3. ASSUME NEW checked \in SUBSET AllTypes, NEW t \in C, c[n][checked][t].opt
          PROVE  \E u \in C : NamedLike(st, u)
      <3>1. t \in AllTypes
        BY DEF Closed
      <3>2. c[n][checked][t] = Call(body, st, g, checked, t)
        BY <2>2, <3>1 DEF Deeper
      <3>3. QED
        BY <2>2, <2>3, <3>2, CallIsTruthful
    <2>4. QED
      BY <2>1, <2>3 DEF Truthful, Good
  <1>5. \A n \in 0 .. N : n \in Good
    <2> HIDE DEF Good, N
    <2>1. QED
      BY <1>1, <1>3, <1>4, Stepwise
  <1>6. QED
    BY <1>1, <1>2, <1>5

(***************************************************************************)
(* syzlang::is_opt_pointer() answers exactly the question it is asked, does*)
(* the type of a field lead to a structure with the name of this one?, on  *)
(* every program, although it never looks at a type again for one field    *)
(* and stops at the first one found.                                       *)
(***************************************************************************)
THEOREM OptPointerIsExact ==
    ASSUME NEW body \in Bodies, NEW st, NEW t \in AllTypes
    PROVE  LeadsBack(body, st, t) <=> \E u \in LeadsTo(body, t) : NamedLike(st, u)
  <1> DEFINE r == IsOptPointer(body, st)[{}][t]
  <1>1. LeadsBack(body, st, t) <=> r.opt
    BY DEF LeadsBack
  <1>2. r \in Result
    <2> DEFINE N == Cardinality(AllTypes)
    <2>1. N \in Nat
      BY AllTypesFinite, FS_CardinalityType
    <2>2. PICK c : c \in [0 .. N -> Calls] /\ c[N] = IsOptPointer(body, st)
      BY IsOptPointerEquation
    <2>3. N \in 0 .. N
      BY <2>1
    <2>4. IsOptPointer(body, st) \in Calls
      BY <2>2, <2>3
    <2>5. QED
      BY <2>4 DEF Calls
  <1>3. Thorough(body, st, {}, t, r)
    BY SearchIsThorough
  <1> HIDE DEF r
  <1>4. ASSUME ~ r.opt PROVE ~ \E u \in LeadsTo(body, t) : NamedLike(st, u)
    <2>1. t \in r.checked /\ \A x \in r.checked : Explored(body, st, x, r.checked)
      BY <1>3, <1>4 DEF Thorough
    <2>2. Closed(body, r.checked)
      BY <1>2, <2>1 DEF Closed, Explored, Result
    <2>3. LeadsTo(body, t) \subseteq r.checked
      BY <2>1, <2>2 DEF LeadsTo
    <2>4. QED
      BY <2>1, <2>3 DEF Explored
  <1>5. ASSUME r.opt PROVE \E u \in LeadsTo(body, t) : NamedLike(st, u)
    <2> DEFINE C == LeadsTo(body, t)
    <2>1. Closed(body, C) /\ t \in C
      BY LeadsToIsClosed
    <2> HIDE DEF C
    <2>2. Truthful(st, C, IsOptPointer(body, st))
      BY <2>1, SearchIsTruthful
    <2>3. {} \in SUBSET AllTypes
      OBVIOUS
    <2>4. \E u \in C : NamedLike(st, u)
      BY <1>5, <2>1, <2>2, <2>3 DEF Truthful, r
    <2>5. QED
      BY <2>4 DEF C
  <1>6. QED
    BY <1>1, <1>4, <1>5

-----------------------------------------------------------------------------
(***************************************************************************)
(* The collection of structures.                                           *)
(***************************************************************************)

\* The structures of the arguments, where the collection starts.
Roots == RealTypes(AllArguments)

\* All lines about arguments.
Lines == UNION {{Line(c, t) : t \in Arguments(c)} : c \in cmd}

TypeInv ==
    /\ elements \in Bodies /\ Layered(elements)
    /\ \A c \in cmd : Arguments(c) \subseteq Types
    /\ structures \subseteq Structures
    /\ new_type_set \subseteq structures

\* The arguments are collected first; what is looked into has its fields' structures
\* collected; and nothing is collected without a reason.
ClosureInv ==
    /\ structures # {} => Roots \subseteq structures
    /\ \A st \in structures \ new_type_set : RealTypes(Fields(st)) \subseteq structures
    /\ \A st \in structures : st \in Roots \/ \E x \in structures : st \in RealTypes(Fields(x))

\* What has been printed is of the structures that were collected at the end.
PrintedInv ==
    generated =>
        /\ new_type_set = {}
        /\ structures # {} \/ Roots = {}
        /\ ioctls = Lines
        /\ definitions = {Definition(elements, st) : st \in structures}

StructuresInv == TypeInv /\ ClosureInv /\ PrintedInv

\* It holds before anything is collected.
LEMMA InitInv == Init => StructuresInv
  <1> SUFFICES ASSUME Init PROVE StructuresInv
    OBVIOUS
  <1>1. \A c \in cmd : Arguments(c) \subseteq Types
    BY TypeAssumption DEF Init, Arguments
  <1>2. TypeInv
    BY <1>1 DEF Init, TypeInv
  <1>3. ClosureInv /\ PrintedInv
    BY DEF Init, ClosureInv, PrintedInv
  <1>4. QED
    BY <1>2, <1>3 DEF StructuresInv

\* Starting again from the arguments looks into everything found before once more.
LEMMA UpdateStructureTypeInv == StructuresInv /\ UpdateStructureType => StructuresInv'
  <1> SUFFICES ASSUME StructuresInv, UpdateStructureType PROVE StructuresInv'
    OBVIOUS
  <1>1. /\ ~ generated /\ structures' = structures \cup Roots /\ new_type_set' = structures'
        /\ UNCHANGED <<elements, cmd, ioctls, definitions, generated>>
    BY DEF UpdateStructureType, Roots, program
  <1>2. Roots' = Roots /\ \A st : Fields(st)' = Fields(st)
    BY <1>1 DEF Roots, AllArguments, RealTypes, Fields
  <1>3. Roots \subseteq Structures
    BY DEF Roots, RealTypes
  <1>4. TypeInv'
    BY <1>1, <1>3 DEF StructuresInv, TypeInv
  <1>5. ClosureInv'
    <2>1. structures' # {} => Roots' \subseteq structures'
      BY <1>1, <1>2
    <2>2. \A st \in structures' \ new_type_set' : RealTypes(Fields(st)') \subseteq structures'
      BY <1>1
    <2>3. \A st \in structures' : st \in Roots' \/ \E x \in structures' : st \in RealTypes(Fields(x)')
      BY <1>1, <1>2 DEF StructuresInv, ClosureInv
    <2>4. QED
      BY <2>1, <2>2, <2>3 DEF ClosureInv, RealTypes
  <1>6. PrintedInv'
    BY <1>1 DEF PrintedInv
  <1>7. QED
    BY <1>4, <1>5, <1>6 DEF StructuresInv

\* A turn of the loop leaves only what it has found itself to be looked into.
LEMMA CollectElementsInv == StructuresInv /\ CollectElements => StructuresInv'
  <1> SUFFICES ASSUME StructuresInv, CollectElements PROVE StructuresInv'
    OBVIOUS
  <1> DEFINE more == NewTypes(new_type_set)
  <1>1. /\ new_type_set # {} /\ structures' = structures \cup more /\ new_type_set' = more
        /\ UNCHANGED <<elements, cmd, ioctls, definitions, generated>>
    BY DEF CollectElements, program
  <1>2. /\ more \subseteq Structures
        /\ \A st \in new_type_set : RealTypes(Fields(st)) \subseteq structures \cup more
        /\ \A st \in more : \E x \in new_type_set : st \in RealTypes(Fields(x))
        /\ more \cap structures = {}
    BY DEF NewTypes, RealTypes
  <1>3. Roots' = Roots /\ \A st : Fields(st)' = Fields(st)
    BY <1>1 DEF Roots, AllArguments, RealTypes, Fields
  <1>4. new_type_set \subseteq structures /\ structures # {}
    BY <1>1 DEF StructuresInv, TypeInv
  <1> HIDE DEF more
  <1>5. TypeInv'
    BY <1>1, <1>2 DEF StructuresInv, TypeInv
  <1>6. ClosureInv'
    <2>1. structures' # {} => Roots' \subseteq structures'
      BY <1>1, <1>3, <1>4 DEF StructuresInv, ClosureInv
    <2>2. ASSUME NEW st \in structures' \ new_type_set' PROVE RealTypes(Fields(st)') \subseteq structures'
      <3>1. st \in structures
        BY <1>1
      <3>2. CASE st \in new_type_set
        BY <1>1, <1>2, <1>3, <3>2
      <3>3. CASE st \notin new_type_set
        BY <1>1, <1>3, <3>1, <3>3 DEF StructuresInv, ClosureInv
      <3>4. QED
        BY <3>2, <3>3
    <2>3. ASSUME NEW st \in structures'
          PROVE  st \in Roots' \/ \E x \in structures' : st \in RealTypes(Fields(x)')
      <3>1. CASE st \in structures
        BY <1>1, <1>3, <3>1 DEF StructuresInv, ClosureInv
      <3>2. CASE st \in more
        BY <1>1, <1>2, <1>3, <1>4, <3>2
      <3>3. QED
        BY <1>1, <3>1, <3>2
    <2>4. QED
      BY <2>1, <2>2, <2>3 DEF ClosureInv, RealTypes
  <1>7. PrintedInv'
    <2>1. ~ generated
      BY <1>1 DEF StructuresInv, PrintedInv
    <2>2. QED
      BY <1>1, <2>1 DEF PrintedInv
  <1>8. QED
    BY <1>5, <1>6, <1>7 DEF StructuresInv

\* What is printed is what has been collected by then.
LEMMA GenerateDDInv == StructuresInv /\ GenerateDD => StructuresInv'
  <1> SUFFICES ASSUME StructuresInv, GenerateDD PROVE StructuresInv'
    OBVIOUS
  <1>1. /\ structures # {} \/ Roots = {}
        /\ new_type_set = {}
        /\ ioctls' = Lines
        /\ definitions' = {Definition(elements, st) : st \in structures}
        /\ UNCHANGED <<elements, cmd, structures, new_type_set>>
    BY DEF GenerateDD, Roots, Lines, program
  <1>2. Roots' = Roots /\ Lines' = Lines /\ \A st : Fields(st)' = Fields(st)
    BY <1>1 DEF Roots, Lines, AllArguments, RealTypes, Fields
  <1>3. TypeInv'
    BY <1>1 DEF StructuresInv, TypeInv
  <1>4. ClosureInv'
    BY <1>1, <1>2 DEF StructuresInv, ClosureInv, RealTypes
  <1>5. PrintedInv'
    BY <1>1, <1>2 DEF PrintedInv
  <1>6. QED
    BY <1>3, <1>4, <1>5 DEF StructuresInv

\* Nothing changes but with the variables.
LEMMA StutterInv == StructuresInv /\ UNCHANGED vars => StructuresInv'
  <1> SUFFICES ASSUME StructuresInv, UNCHANGED vars PROVE StructuresInv'
    OBVIOUS
  <1>1. UNCHANGED <<elements, cmd, structures, new_type_set, ioctls, definitions, generated>>
    BY DEF vars
  <1>2. Roots' = Roots /\ Lines' = Lines /\ \A st : Fields(st)' = Fields(st)
    BY <1>1 DEF Roots, Lines, AllArguments, RealTypes, Fields
  <1>3. TypeInv'
    BY <1>1 DEF StructuresInv, TypeInv
  <1>4. ClosureInv'
    BY <1>1, <1>2 DEF StructuresInv, ClosureInv, RealTypes
  <1>5. PrintedInv'
    BY <1>1, <1>2 DEF StructuresInv, PrintedInv
  <1>6. QED
    BY <1>3, <1>4, <1>5 DEF StructuresInv

\* The invariant holds in every run.
LEMMA CollectionCorrect == Spec => []StructuresInv
  <1>1. StructuresInv /\ [Next]_vars => StructuresInv'
    BY UpdateStructureTypeInv, CollectElementsInv, GenerateDDInv, StutterInv DEF Next
  <1>2. QED
    BY InitInv, <1>1, PTL DEF Spec

\* What is printed names the structures of the arguments and of the fields.
LEMMA PrintedNames ==
    ASSUME StructuresInv, generated
    PROVE  /\ {d.name : d \in definitions} = structures
           /\ \A d \in definitions : Named(d) = RealTypes(Fields(d.name))
           /\ {line.type.name : line \in ioctls} \cap Structures = Roots
  <1>1. /\ ioctls = Lines
        /\ definitions = {Definition(elements, st) : st \in structures}
    BY DEF StructuresInv, PrintedInv
  <1>2. \A t, opt : Generated(t, opt).name = t.base
    BY DEF Generated
  <1>3. \A st : Definition(elements, st).name = st
    BY DEF Definition
  <1>4. {d.name : d \in definitions} = structures
    BY <1>1, <1>3
  <1>5. ASSUME NEW st PROVE Named(Definition(elements, st)) = RealTypes(Fields(st))
    <2> DEFINE fields == Definition(elements, st).fields
    <2>1. fields = {Generated(t, LeadsBack(elements, st, t)) : t \in Fields(st)}
      BY DEF Definition, Fields
    <2> HIDE DEF fields
    <2>2. {field.name : field \in fields} = {t.base : t \in Fields(st)}
      BY <1>2, <2>1
    <2>3. QED
      BY <2>2 DEF Named, RealTypes, fields
  <1>6. \A d \in definitions : Named(d) = RealTypes(Fields(d.name))
    BY <1>1, <1>3, <1>5
  <1>7. {line.type.name : line \in ioctls} = {t.base : t \in AllArguments}
    <2>1. \A c, t : Line(c, t).type.name = t.base
      BY <1>2 DEF Line
    <2>2. ASSUME NEW c \in cmd, NEW t \in Arguments(c)
          PROVE  t.base \in {line.type.name : line \in ioctls}
      <3>1. Line(c, t) \in ioctls
        BY <1>1 DEF Lines
      <3>2. QED
        BY <2>1, <3>1
    <2>3. ASSUME NEW line \in ioctls PROVE \E t \in AllArguments : line.type.name = t.base
      <3>1. PICK c \in cmd : \E t \in Arguments(c) : line = Line(c, t)
        BY <1>1 DEF Lines
      <3>2. QED
        BY <2>1, <3>1 DEF AllArguments
    <2>4. QED
      BY <2>2, <2>3 DEF AllArguments
  <1>8. QED
    BY <1>4, <1>6, <1>7 DEF Roots, RealTypes

(***************************************************************************)
(* update_structure_type() collects all structures that the arguments lead *)
(* to and no others, however often it is called: generate_dd() defines a   *)
(* structure if, and only if, an argument or a definition names it.        *)
(***************************************************************************)
THEOREM NamesDefined == Spec => []NamesAreDefined
  <1>1. StructuresInv => NamesAreDefined
    <2> SUFFICES ASSUME StructuresInv, generated PROVE Used = {d.name : d \in definitions}
      BY DEF NamesAreDefined
    <2>1. /\ {d.name : d \in definitions} = structures
          /\ \A d \in definitions : Named(d) = RealTypes(Fields(d.name))
          /\ {line.type.name : line \in ioctls} \cap Structures = Roots
      BY PrintedNames
    <2>2. /\ new_type_set = {}
          /\ structures # {} \/ Roots = {}
          /\ structures # {} => Roots \subseteq structures
          /\ \A st \in structures \ new_type_set : RealTypes(Fields(st)) \subseteq structures
          /\ \A st \in structures : st \in Roots \/ \E x \in structures : st \in RealTypes(Fields(x))
      BY DEF StructuresInv, ClosureInv, PrintedInv
    <2>3. UNION {Named(d) : d \in definitions} = UNION {RealTypes(Fields(st)) : st \in structures}
      BY <2>1
    <2>4. QED
      BY <2>1, <2>2, <2>3 DEF Used
  <1>2. QED
    BY <1>1, CollectionCorrect, PTL

-----------------------------------------------------------------------------
(***************************************************************************)
(* Cycles of structures.                                                   *)
(***************************************************************************)

\* The structures that x leads to through fields, itself included.
Leads(body, x) ==
    {y \in Structures :
        \A S \in SUBSET Structures :
            x \in S /\ (\A z \in S : RealTypes(Range(body[z])) \subseteq S) => y \in S}

\* It is reflexive and transitive, and has what fields have.
LEMMA LeadsOn ==
    ASSUME NEW body, NEW x \in Structures, NEW y \in Leads(body, x)
    PROVE  /\ x \in Leads(body, x)
           /\ RealTypes(Range(body[y])) \subseteq Leads(body, x)
           /\ Leads(body, y) \subseteq Leads(body, x)
  <1>1. x \in Leads(body, x)
    BY DEF Leads
  <1>2. RealTypes(Range(body[y])) \subseteq Leads(body, x)
    <2> SUFFICES ASSUME NEW z \in RealTypes(Range(body[y])) PROVE z \in Leads(body, x)
      OBVIOUS
    <2>1. z \in Structures
      BY DEF RealTypes
    <2>2. ASSUME NEW S \in SUBSET Structures, x \in S,
                 \A w \in S : RealTypes(Range(body[w])) \subseteq S
          PROVE  z \in S
      <3>1. y \in S
        BY <2>2 DEF Leads
      <3>2. QED
        BY <2>2, <3>1
    <2>3. QED
      BY <2>1, <2>2 DEF Leads
  <1>3. Leads(body, y) \subseteq Leads(body, x)
    <2> SUFFICES ASSUME NEW z \in Leads(body, y) PROVE z \in Leads(body, x)
      OBVIOUS
    <2>1. ASSUME NEW S \in SUBSET Structures, x \in S,
                 \A w \in S : RealTypes(Range(body[w])) \subseteq S
          PROVE  z \in S
      <3>1. y \in S
        BY <2>1 DEF Leads
      <3>2. QED
        BY <2>1, <3>1 DEF Leads
    <2>2. QED
      BY <2>1 DEF Leads
  <1>4. QED
    BY <1>1, <1>2, <1>3

\* Looking into a type, under its pointers and arrays, ends at its base.
LEMMA BaseIsReached ==
    ASSUME NEW body, NEW C, Closed(body, C), NEW t \in C
    PROVE  Type(<<>>, t.base) \in C
  <1> DEFINE Lengths == {Len(u.wraps) : u \in {u \in C : u.base = t.base}}
  <1>1. \A u \in C : /\ u.wraps \in Seq({"ptr", "array"}) /\ Len(u.wraps) \in Nat
                     /\ u = Type(u.wraps, u.base)
    BY AllTypesType, LenProperties DEF Closed
  <1>2. Lengths \subseteq Nat /\ Lengths # {}
    BY <1>1
  <1>3. PICK n \in Lengths : \A m \in Lengths : n <= m
    <2> HIDE DEF Lengths
    <2>1. QED
      BY <1>2, LeastOf
  <1>4. PICK u \in C : u.base = t.base /\ n = Len(u.wraps)
    BY <1>3
  <1>5. CASE u.wraps = <<>>
    BY <1>1, <1>4, <1>5
  <1>6. CASE u.wraps # <<>>
    <2> DEFINE v == Type(Tail(u.wraps), u.base)
    <2>1. Inner(body, u) = <<v>>
      BY <1>6 DEF Inner
    <2>2. v \in Range(Inner(body, u))
      <3>1. 1 \in DOMAIN <<v>> /\ <<v>>[1] = v
        OBVIOUS
      <3>2. QED
        BY <2>1, <3>1 DEF Range
    <2>3. v \in C
      BY <2>2 DEF Closed
    <2>4. v.base = t.base /\ v.wraps = Tail(u.wraps)
      BY <1>4 DEF Type
    <2>5. Len(Tail(u.wraps)) = Len(u.wraps) - 1 /\ Len(u.wraps) \in Nat
      BY <1>1, <1>6
    <2>6. Len(Tail(u.wraps)) \in Lengths
      BY <2>3, <2>4
    <2> HIDE DEF Lengths, v
    <2>7. n <= n - 1 /\ n \in Nat
      BY <1>3, <1>4, <2>5, <2>6
    <2>8. QED
      BY <2>7
  <1>7. QED
    BY <1>5, <1>6

\* A field that is_opt_pointer() finds nothing for does not lead back to the structure.
LEMMA NotBack ==
    ASSUME NEW body \in Bodies, NEW st \in Structures, NEW t \in Types, t.base \in Structures,
           ~ LeadsBack(body, st, t)
    PROVE  st \notin Leads(body, t.base)
  <1> DEFINE C == LeadsTo(body, t)
             S == {z \in Structures : Type(<<>>, z) \in C}
  <1>1. t \in AllTypes
    BY TypesAreTypes
  <1>2. Closed(body, C) /\ t \in C
    BY <1>1, LeadsToIsClosed
  <1>3. \A u \in C : ~ NamedLike(st, u)
    BY <1>1, OptPointerIsExact
  <1> HIDE DEF C
  <1>4. t.base \in S
    BY <1>2, BaseIsReached
  <1>5. ASSUME NEW z \in S, NEW y \in RealTypes(Range(body[z])) PROVE y \in S
    <2> DEFINE u == Type(<<>>, z)
    <2>1. u \in C /\ u.wraps = <<>> /\ u.base = z /\ z \in Structures
      BY DEF Type
    <2>2. z # Integer
      BY <2>1, TypeAssumption
    <2> HIDE DEF u
    <2>3. Inner(body, u) = body[z]
      BY <2>1, <2>2 DEF Inner
    <2>4. PICK e \in Range(body[z]) : y = e.base /\ y \in Structures
      BY DEF RealTypes
    <2>5. e \in C
      BY <1>2, <2>1, <2>3 DEF Closed
    <2>6. Type(<<>>, y) \in C
      BY <1>2, <2>4, <2>5, BaseIsReached
    <2>7. QED
      BY <2>4, <2>6
  <1>6. st \notin S
    <2>1. NamedLike(st, Type(<<>>, st))
      BY TypeAssumption DEF NamedLike, Type
    <2>2. QED
      BY <1>3, <2>1
  <1>7. S \subseteq Structures
    OBVIOUS
  <1> HIDE DEF S
  <1>8. QED
    BY <1>4, <1>5, <1>6, <1>7 DEF Leads

\* What nodes lead to by n edges more than one, for n up to N.
Within(edges, N) ==
    LET within[n \in 0 .. N] ==
            IF n = 0 THEN edges
            ELSE LET less == within[n - 1] IN
                 [x \in DOMAIN edges |-> less[x] \cup UNION {edges[y] : y \in less[x]}]
    IN within

\* It is the one recursion its definition says.
LEMMA WithinEquation ==
    ASSUME NEW D, NEW edges \in [D -> SUBSET D], NEW N \in Nat
    PROVE  LET w == Within(edges, N) IN
           /\ \A n \in 0 .. N : w[n] \in [D -> SUBSET D]
           /\ w[0] = edges
           /\ \A n \in 1 .. N : \A x \in D :
                 w[n][x] = w[n - 1][x] \cup UNION {edges[y] : y \in w[n - 1][x]}
  <1> DEFINE Next1(less) == [x \in DOMAIN edges |-> less[x] \cup UNION {edges[y] : y \in less[x]}]
             X == [D -> SUBSET D]
             F == [n \in 1 .. N |-> [less \in X |-> Next1(less)]]
             Equation(r) == r = [n \in 0 .. N |-> IF n = 0 THEN edges ELSE Next1(r[n - 1])]
             w == CHOOSE r : Equation(r)
  <1>1. \A less \in X : Next1(less) \in X
    OBVIOUS
  <1>2. Within(edges, N) = w
    BY DEF Within
  <1>3. \A less \in X : \A x \in D : Next1(less)[x] = less[x] \cup UNION {edges[y] : y \in less[x]}
    OBVIOUS
  <1> HIDE DEF Next1
  <1>4. PICK r : Steps(r, X, edges, F, N)
    <2>1. F \in [1 .. N -> [X -> X]]
      BY <1>1
    <2>2. edges \in X
      OBVIOUS
    <2> HIDE DEF F, X
    <2>3. QED
      BY <2>1, <2>2, StepsExist
  <1>5. Equation(r)
    <2>1. r \in [0 .. N -> X] /\ r[0] = edges
      BY <1>4 DEF Steps
    <2> HIDE DEF X
    <2>2. \A n \in 0 .. N : n # 0 => r[n] = Next1(r[n - 1])
      <3> TAKE n \in 0 .. N
      <3> HAVE n # 0
      <3>1. n \in 1 .. N /\ n - 1 \in 0 .. N
        OBVIOUS
      <3>2. r[n] = F[n][r[n - 1]] /\ r[n - 1] \in X
        BY <1>4, <2>1, <3>1 DEF Steps
      <3>3. QED
        BY <3>1, <3>2
    <2>3. QED
      BY <2>1, <2>2
  <1>6. Equation(w)
    BY <1>5
  <1> HIDE DEF w
  <1>7. w[0] = edges /\ \A n \in 1 .. N : w[n] = Next1(w[n - 1])
    <2>1. 0 \in 0 .. N /\ \A n \in 1 .. N : n \in 0 .. N /\ n # 0
      OBVIOUS
    <2>2. QED
      BY <1>6, <2>1
  <1>8. \A n \in 0 .. N : w[n] \in X
    <2> DEFINE Good == {n \in 0 .. N : w[n] \in X}
    <2>1. 0 \in Good
      BY <1>7
    <2> HIDE DEF X
    <2>2. \A n \in 1 .. N : n - 1 \in Good => n \in Good
      BY <1>1, <1>7
    <2>3. \A n \in 0 .. N : n \in Good
      <3> HIDE DEF Good
      <3>1. QED
        BY <2>1, <2>2, Stepwise
    <2>4. QED
      BY <2>3
  <1>9. \A n \in 1 .. N : \A x \in D :
           w[n][x] = w[n - 1][x] \cup UNION {edges[y] : y \in w[n - 1][x]}
    <2> TAKE n \in 1 .. N
    <2>1. n - 1 \in 0 .. N
      OBVIOUS
    <2>2. w[n - 1] \in X /\ w[n] = Next1(w[n - 1])
      BY <1>7, <1>8, <2>1
    <2> HIDE DEF X
    <2>3. QED
      BY <1>3, <2>2
  <1>10. QED
    BY <1>2, <1>7, <1>8, <1>9

\* There is no cycle if nothing is within reach of itself.
LEMMA NoCycleWithin ==
    ASSUME NEW D, NEW edges, DOMAIN edges = D
    PROVE  NoCycle(edges) <=>
             \A x \in D : x \notin Within(edges, Cardinality(D))[Cardinality(D)][x]
  BY DEF NoCycle, Within

\* The structures that lie in fields.
Held(body) ==
    [st \in Structures |-> RealTypes({t \in Range(body[st]) : "ptr" \notin Range(t.wraps)})]

\* A field that must be there, but leads back, lies in the structure.
LEMMA NeedsBack ==
    ASSUME StructuresInv, generated
    PROVE  /\ Needs \in [structures -> SUBSET structures]
           /\ \A x \in structures : \A y \in Needs[x] :
                 /\ y \in Leads(elements, x)
                 /\ x \in Leads(elements, y) => y \in Held(elements)[x]
  <1> SUFFICES ASSUME NEW x \in structures, NEW y \in Needs[x]
               PROVE  /\ y \in structures
                      /\ y \in Leads(elements, x)
                      /\ x \in Leads(elements, y) => y \in Held(elements)[x]
    BY DEF Needs, Required
  <1>1. /\ elements \in Bodies
        /\ structures \subseteq Structures
        /\ new_type_set = {}
        /\ definitions = {Definition(elements, st) : st \in structures}
        /\ \A st \in structures : RealTypes(Fields(st)) \subseteq structures
    BY DEF StructuresInv, TypeInv, ClosureInv, PrintedInv
  <1>2. y \in Structures
    BY DEF Needs, Required
  <1>3. PICK d \in definitions : d.name = x /\ \E field \in d.fields : ~ field.opt /\ y = field.name
    BY DEF Needs, Required
  <1>4. d = Definition(elements, x)
    BY <1>1, <1>3 DEF Definition
  <1>5. PICK t \in Range(elements[x]) :
           ~ Generated(t, LeadsBack(elements, x, t)).opt /\ y = Generated(t, LeadsBack(elements, x, t)).name
    BY <1>3, <1>4 DEF Definition
  <1>6. y = t.base /\ ~ (LeadsBack(elements, x, t) /\ "ptr" \in Range(t.wraps))
    BY <1>5 DEF Generated
  <1>7. t \in Types
    <2>1. elements[x] \in Seq(Types)
      BY <1>1, TypeAssumption
    <2>2. QED
      BY <2>1, ElementOfSeq DEF Range
  <1>8. y \in RealTypes(Range(elements[x]))
    BY <1>2, <1>5, <1>6 DEF RealTypes
  <1>9. y \in structures
    BY <1>1, <1>8 DEF Fields
  <1>10. y \in Leads(elements, x)
    <2>1. x \in Leads(elements, x)
      BY <1>1 DEF Leads
    <2>2. QED
      BY <1>1, <1>8, <2>1, LeadsOn
  <1>11. ASSUME x \in Leads(elements, y) PROVE y \in Held(elements)[x]
    <2>1. LeadsBack(elements, x, t)
      BY <1>1, <1>2, <1>6, <1>7, <1>11, NotBack
    <2>2. "ptr" \notin Range(t.wraps)
      BY <1>6, <2>1
    <2>3. y \in RealTypes({u \in Range(elements[x]) : "ptr" \notin Range(u.wraps)})
      BY <1>2, <1>5, <1>6, <2>2 DEF RealTypes
    <2>4. QED
      BY <1>1, <2>3 DEF Held
  <1>12. QED
    BY <1>9, <1>10, <1>11

\* If no structure contains itself, none needs itself.
LEMMA NoneNeedsItself == ASSUME StructuresInv, generated PROVE NoCycle(Needs)
  <1> DEFINE n == Cardinality(structures)
             M == Cardinality(Structures)
             W == Within(Needs, n)
             U == Within(Held(elements), M)
             held == Held(elements)
             needs == Needs
             To(x) == Leads(elements, x)
             Good == {k \in 0 .. n : \A x \in structures : \A y \in W[k][x] :
                                        /\ y \in To(x)
                                        /\ x \in To(y) => y \in U[k][x]}
  <1>1. structures \subseteq Structures /\ Layered(elements)
    BY DEF StructuresInv, TypeInv
  <1>2. n \in Nat /\ M \in Nat /\ n <= M
    BY <1>1, TypeAssumption, FS_Subset, FS_CardinalityType
  <1>3. /\ needs \in [structures -> SUBSET structures]
        /\ \A x \in structures : \A y \in needs[x] :
              y \in To(x) /\ (x \in To(y) => y \in held[x])
    BY NeedsBack
  <1>4. held \in [Structures -> SUBSET Structures]
    BY DEF Held, RealTypes
  <1>5. \A x, y \in Structures : y \in To(x) => To(y) \subseteq To(x)
    BY LeadsOn
  <1>6. /\ \A k \in 0 .. n : W[k] \in [structures -> SUBSET structures]
        /\ W[0] = needs
        /\ \A k \in 1 .. n : \A x \in structures :
              W[k][x] = W[k - 1][x] \cup UNION {needs[y] : y \in W[k - 1][x]}
    <2> HIDE DEF n
    <2>1. QED
      BY <1>2, <1>3, WithinEquation
  <1>7. /\ \A k \in 0 .. M : U[k] \in [Structures -> SUBSET Structures]
        /\ U[0] = held
        /\ \A k \in 1 .. M : \A x \in Structures :
              U[k][x] = U[k - 1][x] \cup UNION {held[y] : y \in U[k - 1][x]}
    <2> HIDE DEF M
    <2>1. QED
      BY <1>2, <1>4, WithinEquation
  <1>8. \A x \in Structures : x \notin U[M][x]
    <2>1. NoCycle(held)
      BY <1>1 DEF Layered, Held
    <2>2. DOMAIN held = Structures
      BY <1>4
    <2>3. QED
      BY <2>1, <2>2, NoCycleWithin
  <1>9. (\A x \in structures : x \notin W[n][x]) => NoCycle(Needs)
    <2>1. DOMAIN Needs = structures
      BY DEF Needs
    <2>2. QED
      BY <2>1, NoCycleWithin
  <1> HIDE DEF W, U, held, needs, To, n, M
  <1>10. 0 \in Good
    BY <1>1, <1>2, <1>3, <1>6, <1>7
  <1>11. ASSUME NEW k \in 1 .. n, k - 1 \in Good PROVE k \in Good
    <2>1. k \in 0 .. n /\ k - 1 \in 0 .. n /\ k \in 1 .. M /\ k - 1 \in 0 .. M
      BY <1>2
    <2>2. ASSUME NEW x \in structures, NEW y \in W[k][x]
          PROVE  y \in To(x) /\ (x \in To(y) => y \in U[k][x])
      <3>1. x \in Structures
        BY <1>1
      <3>2. U[k][x] = U[k - 1][x] \cup UNION {held[z] : z \in U[k - 1][x]}
        BY <1>7, <2>1, <3>1
      <3>3. CASE y \in W[k - 1][x]
        BY <1>11, <3>2, <3>3
      <3>4. CASE y \notin W[k - 1][x]
        <4>1. PICK z \in W[k - 1][x] : y \in needs[z]
          BY <1>6, <3>4
        <4>2. z \in structures /\ z \in To(x) /\ (x \in To(z) => z \in U[k - 1][x])
          BY <1>6, <1>11, <2>1
        <4>3. y \in structures /\ y \in To(z) /\ (z \in To(y) => y \in held[z])
          BY <1>3, <4>1, <4>2
        <4>4. z \in Structures /\ y \in Structures
          BY <1>1, <4>2, <4>3
        <4>5. y \in To(x)
          BY <1>5, <3>1, <4>2, <4>3, <4>4
        <4>6. ASSUME x \in To(y) PROVE y \in U[k][x]
          <5>1. x \in To(z)
            BY <1>5, <4>3, <4>4, <4>6
          <5>2. z \in To(y)
            BY <1>5, <3>1, <4>2, <4>4, <4>6
          <5>3. QED
            BY <3>2, <4>2, <4>3, <5>1, <5>2
        <4>7. QED
          BY <4>5, <4>6
      <3>5. QED
        BY <3>3, <3>4
    <2>3. QED
      BY <2>1, <2>2
  <1>12. \A k \in 0 .. n : k \in Good
    <2> HIDE DEF Good
    <2>1. QED
      BY <1>2, <1>10, <1>11, Stepwise
  <1>13. ASSUME NEW x \in structures, x \in W[n][x] PROVE FALSE
    <2>1. n \in Good /\ x \in Structures
      BY <1>1, <1>2, <1>12
    <2>2. x \in To(x) /\ x \in U[n][x]
      BY <1>13, <2>1
    <2> DEFINE Still == {k \in 0 .. M : k >= n => x \in U[k][x]}
    <2>3. 0 \in Still
      BY <1>2, <2>2
    <2>4. ASSUME NEW k \in 1 .. M, k - 1 \in Still PROVE k \in Still
      <3>1. U[k][x] = U[k - 1][x] \cup UNION {held[z] : z \in U[k - 1][x]}
        BY <1>7, <2>1
      <3>2. k = n \/ k < n \/ k - 1 >= n
        BY <1>2
      <3>3. QED
        BY <1>2, <2>2, <2>4, <3>1, <3>2
    <2>5. \A k \in 0 .. M : k \in Still
      <3> HIDE DEF Still
      <3>1. QED
        BY <1>2, <2>3, <2>4, Stepwise
    <2>6. M \in Still
      BY <1>2, <2>5
    <2>7. QED
      BY <1>2, <1>8, <2>1, <2>6
  <1>14. QED
    BY <1>9, <1>13

(***************************************************************************)
(* Values of every described structure can be finite, on every program in  *)
(* which no structure contains itself: what generate_struct() does not make*)
(* optional forms no cycle, however long, and however structures are named.*)
(***************************************************************************)
THEOREM CyclesOptional == Spec => []CyclesAreOptional
  <1>1. StructuresInv => CyclesAreOptional
    BY NoneNeedsItself DEF CyclesAreOptional
  <1>2. QED
    BY <1>1, CollectionCorrect, PTL
=============================================================================
