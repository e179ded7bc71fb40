-------------------------- MODULE EntryWalkProofs --------------------------
(***************************************************************************)
(* Proofs about module EntryWalk, for every program, every set of recorded *)
(* call sites and every limit: its type invariant, that nothing spurious   *)
(* is collected, nothing twice, and nothing missed within the limits.      *)
(*                                                                         *)
(* None of the last three is inductive: they say nothing of the activations*)
(* that will collect more.  WalkInv adds that the stack and the call chain *)
(* spell a path (Spine), and that the flag, and the one each activation    *)
(* keeps for its caller, are those of that path; OnceInv that nothing has  *)
(* been collected below a call site yet to be tried; MissInv that every    *)
(* path has been collected or waits for such a call site.                  *)
(***************************************************************************)
EXTENDS EntryWalk, SequenceTheorems, TLAPS

(***************************************************************************)
(* The path that a stack st and a call chain ch stand for.                 *)
(***************************************************************************)

\* The k-th call site on the way, with the function it enters.
Step(st, ch, k) == <<ch[k], st[k + 1].fn>>

\* One of the first n steps goes through a function pointer.
Through(st, ch, n) == \E k \in 1 .. n : IsPointer(Step(st, ch, k))

\* The k-th step goes from its caller to a function that may be entered.
Linked(st, ch, k) ==
    /\ Step(st, ch, k) \in all_callee_checker_results
    /\ Owner[ch[k]] = st[k].fn
    /\ Followed(Step(st, ch, k))
    /\ st[k + 1].fn \notin SkippedFunctions
    /\ \A j \in 1 .. k : RealName[st[j].fn] # RealName[st[k + 1].fn]

Spine(st, ch, flag) ==
    /\ t_function \notin SkippedFunctions
    /\ st[1].fn = t_function
    /\ st[1].old_in_function_pointer = FALSE
    /\ \A k \in 1 .. Len(ch) : Linked(st, ch, k)
    /\ \A k \in 1 .. Len(ch) : st[k + 1].old_in_function_pointer <=> Through(st, ch, k - 1)
    /\ flag <=> Through(st, ch, Len(ch))

\* Activations only try call sites of their own function.
OwnCallees(frame) ==
    \A p \in frame.callees : p \in all_callee_checker_results /\ Owner[p[1]] = frame.fn

WalkInv ==
    /\ TypeOK
    /\ count_update_checker = 0 => stack = <<>>
    /\ stack = <<>> => ~ in_function_pointer
    /\ stack # <<>> => Spine(stack, current_call_chain, in_function_pointer)
    /\ Len(current_call_chain) <= MAX_FUNC_DEPTH
    /\ \A k \in 1 .. Len(stack) : OwnCallees(stack[k])
    /\ NothingSpurious

-----------------------------------------------------------------------------
(***************************************************************************)
(* Facts about frames and the stack.                                       *)
(***************************************************************************)

\* An activation of a function is a frame.
LEMMA ActivationType ==
    ASSUME TypeOK, NEW f \in Functions, NEW old \in BOOLEAN
    PROVE  /\ Activation(f, old) \in Frame
           /\ Activation(f, old).fn = f
           /\ Activation(f, old).old_in_function_pointer = old
           /\ OwnCallees(Activation(f, old))
  BY DEF TypeOK, Activation, Frame, OwnCallees

\* The frame on top, when there is one.
LEMMA TopFacts ==
    ASSUME TypeOK, stack # <<>>
    PROVE  /\ Len(stack) \in Nat /\ Len(stack) > 0 /\ Len(stack) \in 1 .. Len(stack)
           /\ Top = stack[Len(stack)] /\ Top \in Frame
           /\ Len(current_call_chain) = Len(stack) - 1
  BY DEF TypeOK, Top

\* A turn is a call site the frame on top has yet to try.
LEMMA TurnFacts ==
    ASSUME TypeOK, NEW p \in Turn
    PROVE  stack # <<>> /\ p \in Top.callees /\ p \in Sites /\ p[1] \in Insts /\ p[2] \in Functions
  <1>1. stack # <<>> /\ p \in Top.callees
    BY DEF Turn
  <1>2. Top \in Frame
    BY <1>1, TopFacts
  <1>3. QED
    BY <1>1, <1>2 DEF Frame, Sites

\* Crossing off a callee changes neither the functions on the stack nor their flags.
LEMMA TriedFacts ==
    ASSUME TypeOK, NEW p \in Turn
    PROVE  /\ Tried(p) \in Seq(Frame)
           /\ Len(Tried(p)) = Len(stack)
           /\ \A k \in 1 .. Len(stack) :
                 /\ Tried(p)[k].fn = stack[k].fn
                 /\ Tried(p)[k].old_in_function_pointer = stack[k].old_in_function_pointer
                 /\ Tried(p)[k].callees \subseteq stack[k].callees
                 /\ stack[k].callees \ {p} \subseteq Tried(p)[k].callees
                 /\ k # Len(stack) => stack[k].callees \subseteq Tried(p)[k].callees
  <1> DEFINE n == Len(stack)
             frame == [stack[n] EXCEPT !.callees = stack[n].callees \ {p}]
  <1>1. stack \in Seq(Frame) /\ n \in 1 .. n /\ stack[n] \in Frame
    BY TurnFacts, TopFacts DEF TypeOK
  <1>2. Tried(p) = [stack EXCEPT ![n] = frame]
    BY <1>1 DEF Tried
  <1>3. /\ frame \in Frame
        /\ frame.fn = stack[n].fn
        /\ frame.old_in_function_pointer = stack[n].old_in_function_pointer
        /\ frame.callees = stack[n].callees \ {p}
    BY <1>1 DEF Frame
  <1> HIDE DEF frame, n
  <1>4. /\ Tried(p) \in Seq(Frame)
        /\ Len(Tried(p)) = Len(stack)
        /\ \A k \in 1 .. Len(stack) : Tried(p)[k] = IF k = n THEN frame ELSE stack[k]
    BY <1>1, <1>2, <1>3, ExceptSeq DEF n
  <1>5. QED
    BY <1>3, <1>4 DEF n

\* The results of a function are sequences of results.
LEMMA CopiesType ==
    ASSUME NEW f \in Functions, NEW chain \in Seq(Insts), NEW flag \in BOOLEAN
    PROVE  Copies(f, chain, flag) \in Seq(CheckerResult)
  <1>1. Results[f] \in Seq(CheckerResults)
    BY WalkAssumption
  <1>2. Len(Results[f]) \in Nat /\ DOMAIN Results[f] = 1 .. Len(Results[f])
    BY <1>1
  <1>3. \A k \in 1 .. Len(Results[f]) :
           /\ Results[f][k] \in CheckerResults
           /\ Append(chain, InstOf[Results[f][k]]) \in Seq(Insts)
    BY <1>1, WalkAssumption
  <1>4. Copies(f, chain, flag) \in [1 .. Len(Results[f]) -> CheckerResult]
    BY <1>2, <1>3 DEF Copies, CheckerResult
  <1>5. QED
    BY <1>2, <1>4

-----------------------------------------------------------------------------
(***************************************************************************)
(* Facts about spines.  They are about any two stacks whose functions and  *)
(* flags agree as far as the call chain reaches.                           *)
(***************************************************************************)

\* Two stacks and chains that agree on the first n steps.
Agree(st, ch, st2, ch2, n) ==
    /\ \A k \in 1 .. n : ch2[k] = ch[k]
    /\ \A k \in 1 .. n + 1 : /\ st2[k].fn = st[k].fn
                             /\ st2[k].old_in_function_pointer = st[k].old_in_function_pointer

\* Paths that agree with the stack have its steps.
LEMMA AgreeSteps ==
    ASSUME NEW st, NEW ch, NEW st2, NEW ch2, NEW n \in Nat, Agree(st, ch, st2, ch2, n),
           NEW m \in 0 .. n
    PROVE  /\ m > 0 => Step(st2, ch2, m) = Step(st, ch, m)
           /\ Through(st2, ch2, m) <=> Through(st, ch, m)
           /\ m > 0 => (Linked(st2, ch2, m) <=> Linked(st, ch, m))
  <1>1. \A k \in 1 .. n : Step(st2, ch2, k) = Step(st, ch, k)
    BY DEF Step, Agree
  <1>2. Through(st2, ch2, m) <=> Through(st, ch, m)
    <2>1. \A k \in 1 .. m : k \in 1 .. n
      OBVIOUS
    <2>2. QED
      BY <1>1, <2>1, Zenon DEF Through
  <1>3. ASSUME m > 0
        PROVE  Linked(st2, ch2, m) <=> Linked(st, ch, m)
    <2>1. m \in 1 .. n /\ m \in 1 .. n + 1 /\ m + 1 \in 1 .. n + 1 /\ \A j \in 1 .. m : j \in 1 .. n + 1
      BY <1>3
    <2>2. /\ Step(st2, ch2, m) = Step(st, ch, m) /\ ch2[m] = ch[m]
          /\ st2[m].fn = st[m].fn /\ st2[m + 1].fn = st[m + 1].fn
          /\ \A j \in 1 .. m : st2[j].fn = st[j].fn
      BY <1>1, <2>1 DEF Agree
    <2>3. QED
      BY <2>2, Zenon DEF Linked
  <1>4. QED
    BY <1>1, <1>2, <1>3

\* The first n steps of a spine are a spine, with the flag that fits.
LEMMA SpinePrefix ==
    ASSUME NEW st, NEW ch, NEW flag, Spine(st, ch, flag), Len(ch) \in Nat,
           NEW st2, NEW ch2, NEW n \in 0 .. Len(ch), Len(ch2) = n,
           Agree(st, ch, st2, ch2, n), NEW flag2, flag2 <=> Through(st, ch, n)
    PROVE  Spine(st2, ch2, flag2)
  <1>1. n \in Nat /\ \A k \in 1 .. n : k \in 1 .. Len(ch) /\ k \in 0 .. n /\ k > 0 /\ k - 1 \in 0 .. n
    OBVIOUS
  <1>2. st2[1].fn = st[1].fn /\ st2[1].old_in_function_pointer = st[1].old_in_function_pointer
    BY <1>1 DEF Agree
  <1>3. \A k \in 1 .. n : Linked(st2, ch2, k)
    BY <1>1, AgreeSteps DEF Spine
  <1>4. ASSUME NEW k \in 1 .. n
        PROVE  st2[k + 1].old_in_function_pointer <=> Through(st2, ch2, k - 1)
    <2>1. st[k + 1].old_in_function_pointer <=> Through(st, ch, k - 1)
      BY <1>1 DEF Spine
    <2>2. st2[k + 1].old_in_function_pointer = st[k + 1].old_in_function_pointer
      <3>1. k + 1 \in 1 .. n + 1
        BY <1>1
      <3>2. QED
        BY <3>1 DEF Agree
    <2>3. Through(st2, ch2, k - 1) <=> Through(st, ch, k - 1)
      BY <1>1, AgreeSteps
    <2>4. QED
      BY <2>1, <2>2, <2>3
  <1>5. flag2 <=> Through(st2, ch2, n)
    <2>1. n \in 0 .. n
      BY <1>1
    <2>2. QED
      BY <1>1, <2>1, AgreeSteps
  <1>6. QED
    BY <1>2, <1>3, <1>4, <1>5 DEF Spine

\* One more step makes a longer spine.
LEMMA SpineGrows ==
    ASSUME NEW st, NEW ch, NEW flag, Spine(st, ch, flag), Len(ch) \in Nat,
           NEW st2, NEW ch2, Len(ch2) = Len(ch) + 1, Agree(st, ch, st2, ch2, Len(ch)),
           Linked(st2, ch2, Len(ch2)),
           st2[Len(ch2) + 1].old_in_function_pointer = flag,
           NEW flag2, flag2 <=> (flag \/ IsPointer(Step(st2, ch2, Len(ch2))))
    PROVE  Spine(st2, ch2, flag2)
  <1> DEFINE n == Len(ch)
  <1>1. n \in Nat /\ n \in 0 .. n /\ Len(ch2) = n + 1
    OBVIOUS
  <1> HIDE DEF n
  <1>2. flag <=> Through(st, ch, n)
    BY DEF Spine, n
  <1>3. Spine(st2, [k \in 1 .. n |-> ch2[k]], flag)
    <2> DEFINE front == [k \in 1 .. n |-> ch2[k]]
    <2>1. Len(front) = n
      BY <1>1
    <2>2. Agree(st, ch, st2, front, n)
      BY <1>1 DEF Agree, n
    <2> HIDE DEF front
    <2>3. Len(ch) \in Nat /\ n \in 0 .. Len(ch)
      BY <1>1 DEF n
    <2>4. Spine(st2, front, flag)
      BY <1>2, <2>1, <2>2, <2>3, SpinePrefix
    <2>5. QED
      BY <2>4 DEF front
  <1> DEFINE front == [k \in 1 .. n |-> ch2[k]]
  <1>4. Len(front) = n /\ Agree(st2, front, st2, ch2, n)
    BY <1>1 DEF Agree
  <1> HIDE DEF front
  <1>5. /\ t_function \notin SkippedFunctions
        /\ st2[1].fn = t_function
        /\ st2[1].old_in_function_pointer = FALSE
        /\ \A k \in 1 .. n : Linked(st2, front, k)
        /\ \A k \in 1 .. n : st2[k + 1].old_in_function_pointer <=> Through(st2, front, k - 1)
        /\ flag <=> Through(st2, front, n)
    BY <1>3, <1>4 DEF Spine, front
  <1>6. \A k \in 1 .. n : Linked(st2, ch2, k)
    BY <1>1, <1>4, <1>5, AgreeSteps
  <1>7. \A k \in 0 .. n : Through(st2, ch2, k) <=> Through(st2, front, k)
    BY <1>1, <1>4, AgreeSteps
  <1>8. \A k \in 1 .. n + 1 : k \in 1 .. n \/ k = n + 1
    BY <1>1
  <1>9. \A k \in 1 .. n + 1 : Linked(st2, ch2, k)
    BY <1>1, <1>6, <1>8
  <1>10. ASSUME NEW k \in 1 .. n + 1
         PROVE  st2[k + 1].old_in_function_pointer <=> Through(st2, ch2, k - 1)
    <2>1. CASE k \in 1 .. n
      BY <1>1, <1>5, <1>7, <2>1
    <2>2. CASE k = n + 1
      <3>1. k - 1 = n /\ n \in 0 .. n
        BY <1>1, <2>2
      <3>2. Through(st2, ch2, n) <=> flag
        BY <1>5, <1>7, <3>1
      <3>3. QED
        BY <1>1, <2>2, <3>1, <3>2
    <2>3. QED
      BY <1>8, <2>1, <2>2
  <1>11. flag2 <=> Through(st2, ch2, n + 1)
    <2>1. Through(st2, ch2, n + 1) <=> (Through(st2, ch2, n) \/ IsPointer(Step(st2, ch2, n + 1)))
      BY <1>1, <1>8 DEF Through
    <2>2. Through(st2, ch2, n) <=> flag
      BY <1>1, <1>5, <1>7
    <2>3. QED
      BY <1>1, <2>1, <2>2
  <1>12. QED
    BY <1>1, <1>5, <1>9, <1>10, <1>11 DEF Spine

-----------------------------------------------------------------------------
(***************************************************************************)
(* What a spine collects is expected.                                      *)
(***************************************************************************)

PathOf(st, ch) == [k \in 1 .. Len(ch) |-> Step(st, ch, k)]

\* A spine spells a path from the entry function to the function on top.
LEMMA SpineIsPath ==
    ASSUME NEW st, NEW ch, NEW flag, Spine(st, ch, flag),
           Len(ch) \in Nat, Len(ch) <= MAX_FUNC_DEPTH
    PROVE  /\ PathOf(st, ch) \in Paths
           /\ Len(PathOf(st, ch)) = Len(ch)
           /\ End(PathOf(st, ch)) = st[Len(ch) + 1].fn
  <1> DEFINE n == Len(ch)
             path == PathOf(st, ch)
  <1>1. n \in Nat /\ n \in 0 .. MAX_FUNC_DEPTH
    BY WalkAssumption
  <1>2. path = [k \in 1 .. n |-> Step(st, ch, k)]
    BY DEF PathOf
  <1>3. Len(path) = n /\ \A k \in 1 .. n : path[k] = Step(st, ch, k)
    BY <1>1, <1>2
  <1>4. \A k \in 1 .. n : Linked(st, ch, k)
    BY DEF Spine
  <1>5. path \in [1 .. n -> all_callee_checker_results]
    BY <1>2, <1>4 DEF Linked
  <1>6. \A k \in 1 .. n : path[k][1] = ch[k] /\ path[k][2] = st[k + 1].fn
    BY <1>3 DEF Step
  <1>7. \A k \in 0 .. n : At(path, k) = st[k + 1].fn
    BY <1>1, <1>6 DEF At, Spine
  <1> HIDE DEF n, path
  <1>8. IsPath(path)
    <2>1. t_function \notin SkippedFunctions
      BY DEF Spine
    <2>2. ASSUME NEW k \in 1 .. Len(path)
          PROVE  /\ Owner[path[k][1]] = At(path, k - 1)
                 /\ Followed(path[k])
                 /\ path[k][2] \notin SkippedFunctions
                 /\ \A j \in 0 .. k - 1 : RealName[At(path, j)] # RealName[path[k][2]]
      <3>1. k \in 1 .. n /\ k - 1 \in 0 .. n /\ (k - 1) + 1 = k
        BY <1>1, <1>3
      <3>2. Linked(st, ch, k)
        BY <1>4, <3>1
      <3>3. At(path, k - 1) = st[k].fn /\ path[k][1] = ch[k] /\ path[k][2] = st[k + 1].fn
        BY <1>6, <1>7, <3>1
      <3>4. path[k] = Step(st, ch, k)
        BY <1>3, <3>1
      <3>5. ASSUME NEW j \in 0 .. k - 1
            PROVE  RealName[At(path, j)] # RealName[path[k][2]]
        <4>1. j \in 0 .. n /\ j + 1 \in 1 .. k
          BY <1>1, <3>1
        <4>2. At(path, j) = st[j + 1].fn
          BY <1>7, <4>1
        <4>3. QED
          BY <3>2, <3>3, <4>1, <4>2 DEF Linked
      <3>6. QED
        BY <3>2, <3>3, <3>4, <3>5 DEF Linked
    <2>3. QED
      BY <2>1, <2>2 DEF IsPath
  <1>9. path \in Paths
    BY <1>1, <1>5, <1>8 DEF Paths
  <1>10. End(path) = st[n + 1].fn
    <2>1. n \in 0 .. n
      BY <1>1
    <2>2. QED
      BY <1>3, <1>7, <2>1 DEF End
  <1>11. QED
    BY <1>3, <1>9, <1>10 DEF n, path

\* The copies that are made on top of a spine are results of its path.
LEMMA SpineCollects ==
    ASSUME NEW st, NEW ch \in Seq(Insts), NEW flag \in BOOLEAN, Spine(st, ch, flag),
           Len(ch) <= MAX_FUNC_DEPTH,
           NEW f \in Functions, f = st[Len(ch) + 1].fn,
           NEW k \in DOMAIN Copies(f, ch, flag)
    PROVE  Copies(f, ch, flag)[k] \in Expected
  <1> DEFINE path == PathOf(st, ch)
             n == Len(ch)
  <1>1. n \in Nat /\ ch = [j \in 1 .. n |-> ch[j]]
    OBVIOUS
  <1>2. path \in Paths /\ Len(path) = n /\ End(path) = f
    BY <1>1, SpineIsPath
  <1>3. path = [j \in 1 .. n |-> Step(st, ch, j)]
    BY DEF PathOf
  <1>4. DOMAIN path = 1 .. n /\ \A j \in 1 .. n : path[j] = Step(st, ch, j) /\ path[j][1] = ch[j]
    BY <1>3 DEF Step
  <1> HIDE DEF path, n
  <1>5. [j \in DOMAIN path |-> path[j][1]] = ch
    BY <1>1, <1>4
  <1>6. (\E j \in DOMAIN path : IsPointer(path[j])) = flag
    <2>1. flag <=> Through(st, ch, n)
      BY DEF Spine, n
    <2>2. Through(st, ch, n) <=> \E j \in 1 .. n : IsPointer(path[j])
      BY <1>4 DEF Through
    <2>3. QED
      BY <1>4, <2>1, <2>2
  <1>7. k \in DOMAIN Results[f]
    BY DEF Copies
  <1>8. Copies(f, ch, flag)[k] = [result |-> Results[f][k], call_chain |-> Append(ch, InstOf[Results[f][k]]),
                                  has_function_pointer |-> flag]
    BY <1>7 DEF Copies
  <1>9. Copies(f, ch, flag)[k] \in ResultsAt(path)
    BY <1>2, <1>5, <1>6, <1>7, <1>8 DEF ResultsAt
  <1>10. QED
    BY <1>2, <1>9 DEF Expected

-----------------------------------------------------------------------------
(***************************************************************************)
(* The inputs never change, and neither does what is said of them.         *)
(***************************************************************************)

\* The spine depends on stack and call chain alone.
LEMMA SameSpine ==
    ASSUME UNCHANGED inputs, Spine(stack', current_call_chain', in_function_pointer')
    PROVE  Spine(stack, current_call_chain, in_function_pointer)'
  BY DEF inputs, Spine, Linked, Through, Step, Followed, IsPointer

\* The call sites of a function are inputs.
LEMMA SameOwnCallees ==
    ASSUME UNCHANGED inputs, \A k \in 1 .. Len(stack') : OwnCallees(stack'[k])
    PROVE  (\A k \in 1 .. Len(stack) : OwnCallees(stack[k]))'
  BY DEF inputs, OwnCallees

\* What is expected depends on the inputs alone.
LEMMA SameExpected == UNCHANGED inputs => Expected' = Expected
  <1> SUFFICES ASSUME UNCHANGED inputs PROVE Expected' = Expected
    OBVIOUS
  <1> QED
    BY DEF inputs, Expected, Paths, IsPath, At, End, ResultsAt, Followed, IsPointer

\* Inputs alone are not enough for the type invariant, but for its first part.
LEMMA CollectedGrows ==
    ASSUME UNCHANGED inputs, NothingSpurious, TypeOK,
           NEW more \in Seq(CheckerResult), \A k \in DOMAIN more : more[k] \in Expected,
           all_checker_results' = all_checker_results \o more
    PROVE  NothingSpurious' /\ all_checker_results' \in Seq(CheckerResult)
  <1>1. all_checker_results \in Seq(CheckerResult)
    BY DEF TypeOK
  <1>2. Expected' = Expected
    BY SameExpected
  <1>3. \A k \in DOMAIN all_checker_results' :
           \/ \E j \in DOMAIN all_checker_results : all_checker_results'[k] = all_checker_results[j]
           \/ \E j \in DOMAIN more : all_checker_results'[k] = more[j]
    <2> DEFINE n == Len(all_checker_results)
               m == Len(more)
    <2>1. n \in Nat /\ m \in Nat /\ DOMAIN all_checker_results = 1 .. n /\ DOMAIN more = 1 .. m
      BY <1>1
    <2>2. /\ DOMAIN all_checker_results' = 1 .. n + m
          /\ \A k \in 1 .. n + m :
                all_checker_results'[k] = IF k <= n THEN all_checker_results[k] ELSE more[k - n]
      BY <1>1
    <2> HIDE DEF n, m
    <2>3. \A k \in 1 .. n + m : (k <= n => k \in 1 .. n) /\ (~ k <= n => k - n \in 1 .. m)
      BY <2>1
    <2>4. QED
      BY <2>1, <2>2, <2>3
  <1>4. \A k \in DOMAIN all_checker_results' : all_checker_results'[k] \in Expected
    BY <1>3 DEF NothingSpurious, Collected
  <1>5. all_checker_results' \in Seq(CheckerResult)
    BY <1>1
  <1>6. QED
    BY <1>2, <1>4, <1>5 DEF NothingSpurious, Collected

-----------------------------------------------------------------------------
(***************************************************************************)
(* The invariant is inductive: one lemma for each action.                  *)
(***************************************************************************)

\* Initially nothing is on the stack and nothing is collected.
LEMMA InitInv == Init => WalkInv
  <1> SUFFICES ASSUME Init PROVE WalkInv
    OBVIOUS
  <1>1. TypeOK
    <2>1. UNION {IndirectTargets[i] : i \in Insts} \subseteq Functions
      BY WalkAssumption
    <2>2. function_pointers \subseteq Functions /\ all_callee_checker_results \subseteq Sites
      BY <2>1 DEF Init
    <2>3. <<>> \in Seq(Insts) /\ <<>> \in Seq(CheckerResult) /\ <<>> \in Seq(Frame) /\ Len(<<>>) = 0
      OBVIOUS
    <2>4. Len(current_call_chain) = IF stack = <<>> THEN 0 ELSE Len(stack) - 1
      BY <2>3 DEF Init
    <2>5. QED
      BY <2>2, <2>3, <2>4 DEF Init, TypeOK
  <1>2. Len(current_call_chain) <= MAX_FUNC_DEPTH /\ Len(stack) = 0
    BY WalkAssumption DEF Init
  <1>3. NothingSpurious
    BY DEF Init, NothingSpurious, Collected
  <1>4. QED
    BY <1>1, <1>2, <1>3 DEF Init, WalkInv

\* The first activation is the empty path.
LEMMA StartInv == ASSUME WalkInv, Start PROVE WalkInv'
  <1>1. TypeOK /\ NothingSpurious /\ UNCHANGED inputs
    BY DEF WalkInv, Start
  <1>2. stack = <<>> /\ current_call_chain = <<>> /\ ~ in_function_pointer
    <2>1. stack = <<>> /\ ~ in_function_pointer
      BY DEF WalkInv, Start
    <2>2. Len(current_call_chain) = 0 /\ current_call_chain \in Seq(Insts)
      BY <2>1 DEF WalkInv, TypeOK
    <2>3. QED
      BY <2>1, <2>2
  <1>3. /\ t_function \in Functions
        /\ current_call_chain' = <<>> /\ current_call_chain' \in Seq(Insts)
        /\ in_function_pointer' = in_function_pointer /\ in_function_pointer' = FALSE
        /\ Len(current_call_chain') = 0 /\ Len(current_call_chain') <= MAX_FUNC_DEPTH
        /\ count_update_checker' = 1
    BY <1>1, <1>2, WalkAssumption DEF TypeOK, Start
  <1>4. CASE Entered(t_function, <<>>)
    <2> DEFINE frame == Activation(t_function, FALSE)
    <2>1. /\ stack' = <<frame>>
          /\ all_checker_results' = Copies(t_function, <<>>, FALSE)
      BY <1>4 DEF Start
    <2>2. /\ frame \in Frame /\ frame.fn = t_function
          /\ frame.old_in_function_pointer = FALSE /\ OwnCallees(frame)
      BY <1>1, <1>3, ActivationType
    <2> HIDE DEF frame
    <2>3. stack' \in Seq(Frame) /\ Len(stack') = 1 /\ stack'[1] = frame /\ stack' # <<>>
      BY <2>1, <2>2
    <2>4. Spine(stack', <<>>, FALSE)
      BY <1>4, <2>2, <2>3 DEF Spine, Entered, Through
    <2>5. /\ Copies(t_function, <<>>, FALSE) \in Seq(CheckerResult)
          /\ \A k \in DOMAIN Copies(t_function, <<>>, FALSE) :
                Copies(t_function, <<>>, FALSE)[k] \in Expected
      <3>1. Len(<<>>) + 1 = 1 /\ Len(<<>>) <= MAX_FUNC_DEPTH /\ <<>> \in Seq(Insts)
        BY WalkAssumption
      <3>2. Copies(t_function, <<>>, FALSE) \in Seq(CheckerResult)
        BY <1>3, <3>1, CopiesType
      <3>3. t_function = stack'[Len(<<>>) + 1].fn
        BY <2>2, <2>3, <3>1
      <3>4. QED
        BY <1>3, <2>4, <3>1, <3>2, <3>3, SpineCollects
    <2>6. NothingSpurious' /\ all_checker_results' \in Seq(CheckerResult)
      BY <1>1, <2>1, <2>5, SameExpected DEF NothingSpurious, Collected
    <2>7. TypeOK'
      BY <1>1, <1>3, <2>3, <2>6 DEF TypeOK, inputs
    <2>8. Spine(stack, current_call_chain, in_function_pointer)'
      BY <1>1, <1>3, <2>4, SameSpine
    <2>9. (\A k \in 1 .. Len(stack) : OwnCallees(stack[k]))'
      <3>1. \A k \in 1 .. Len(stack') : OwnCallees(stack'[k])
        BY <2>2, <2>3
      <3>2. QED
        BY <1>1, <3>1, SameOwnCallees
    <2>10. QED
      BY <1>3, <2>3, <2>6, <2>7, <2>8, <2>9 DEF WalkInv
  <1>5. CASE ~ Entered(t_function, <<>>)
    <2>1. stack' = <<>> /\ all_checker_results' = all_checker_results
      BY <1>2, <1>5 DEF Start
    <2>2. TypeOK'
      BY <1>1, <1>3, <2>1 DEF TypeOK, inputs
    <2>3. NothingSpurious'
      BY <1>1, <2>1, SameExpected DEF NothingSpurious, Collected
    <2>4. Len(stack') = 0
      BY <2>1
    <2>5. QED
      BY <1>3, <2>1, <2>2, <2>3, <2>4 DEF WalkInv
  <1>6. QED
    BY <1>4, <1>5

\* Trying a callee without entering it.
LEMMA TriedInv ==
    ASSUME WalkInv, NEW p \in Turn, stack' = Tried(p),
           UNCHANGED <<inputs, current_call_chain, in_function_pointer, all_checker_results>>,
           count_update_checker' \in Nat, count_update_checker' = 0 => count_update_checker = 0
    PROVE  WalkInv'
  <1> DEFINE ch == current_call_chain
             flag == in_function_pointer
  <1>1. TypeOK /\ NothingSpurious /\ stack # <<>> /\ Spine(stack, ch, flag)
    BY TurnFacts DEF WalkInv
  <1>2. /\ stack' \in Seq(Frame) /\ Len(stack') = Len(stack)
        /\ \A k \in 1 .. Len(stack) :
              /\ stack'[k].fn = stack[k].fn
              /\ stack'[k].old_in_function_pointer = stack[k].old_in_function_pointer
              /\ stack'[k].callees \subseteq stack[k].callees
    BY <1>1, TriedFacts
  <1>3. /\ Len(ch) \in Nat /\ Len(stack) = Len(ch) + 1 /\ stack' # <<>>
        /\ count_update_checker # 0 /\ count_update_checker' # 0
    BY <1>1, <1>2 DEF WalkInv, TypeOK
  <1>4. Spine(stack', ch, flag)
    <2>1. Agree(stack, ch, stack', ch, Len(ch)) /\ Len(ch) \in 0 .. Len(ch)
      BY <1>2, <1>3 DEF Agree
    <2>2. flag <=> Through(stack, ch, Len(ch))
      BY <1>1 DEF Spine
    <2>3. QED
      BY <1>1, <1>3, <2>1, <2>2, SpinePrefix
  <1>5. Spine(stack, current_call_chain, in_function_pointer)'
    <2>1. Spine(stack', current_call_chain', in_function_pointer')
      BY <1>4
    <2>2. QED
      BY <2>1, SameSpine
  <1>6. (\A k \in 1 .. Len(stack) : OwnCallees(stack[k]))'
    <2>1. \A k \in 1 .. Len(stack) : OwnCallees(stack[k])
      BY DEF WalkInv
    <2>2. \A k \in 1 .. Len(stack') : OwnCallees(stack'[k])
      BY <1>2, <2>1 DEF OwnCallees
    <2>3. QED
      BY <2>2, SameOwnCallees
  <1>7. TypeOK'
    BY <1>1, <1>2, <1>3 DEF TypeOK, inputs
  <1>8. NothingSpurious'
    BY <1>1, SameExpected DEF NothingSpurious, Collected
  <1>9. QED
    BY <1>3, <1>5, <1>6, <1>7, <1>8 DEF WalkInv

\* A call site that is skipped changes nothing the invariant speaks of.
LEMMA SkipCalleeInv == ASSUME WalkInv, NEW p \in Turn, SkipCallee(p) PROVE WalkInv'
  <1>1. count_update_checker \in Nat
    BY DEF WalkInv, TypeOK
  <1>2. QED
    BY <1>1, TriedInv DEF SkipCallee

\* Nor does one that is refused.
LEMMA RefuseCalleeInv == ASSUME WalkInv, NEW p \in Turn, RefuseCallee(p) PROVE WalkInv'
  <1>1. count_update_checker \in Nat
    BY DEF WalkInv, TypeOK
  <1>2. count_update_checker' \in {count_update_checker, count_update_checker + 1}
    BY DEF RefuseCallee
  <1>3. count_update_checker' \in Nat /\ (count_update_checker' = 0 => count_update_checker = 0)
    BY <1>1, <1>2
  <1>4. QED
    BY <1>3, TriedInv DEF RefuseCallee

\* A callee that is entered extends the path by one step.
LEMMA EnterCalleeInv == ASSUME WalkInv, NEW p \in Turn, EnterCallee(p) PROVE WalkInv'
  <1> DEFINE ch == current_call_chain
             flag == in_function_pointer
             n == Len(ch)
             chain == Append(ch, p[1])
             flag2 == flag \/ IsPointer(p)
             frame == Activation(p[2], flag)
             more == Copies(p[2], chain, flag2)
  <1>1. /\ TypeOK /\ NothingSpurious /\ UNCHANGED inputs
        /\ stack # <<>> /\ Spine(stack, ch, flag)
        /\ p \in Top.callees /\ p[1] \in Insts /\ p[2] \in Functions /\ p = <<p[1], p[2]>>
    BY TurnFacts DEF WalkInv, EnterCallee, Sites
  <1>2. /\ Followed(p) /\ Entered(p[2], chain)
        /\ count_update_checker' = count_update_checker + 1
        /\ current_call_chain' = chain /\ in_function_pointer' = flag2
        /\ all_checker_results' = all_checker_results \o more
        /\ stack' = Append(Tried(p), frame)
    BY DEF EnterCallee
  <1>3. /\ ch \in Seq(Insts) /\ flag \in BOOLEAN /\ flag2 \in BOOLEAN /\ count_update_checker \in Nat
        /\ n \in Nat /\ Len(stack) = n + 1 /\ stack \in Seq(Frame)
    BY <1>1 DEF TypeOK
  <1>4. /\ chain \in Seq(Insts) /\ Len(chain) = n + 1 /\ chain[n + 1] = p[1]
        /\ \A k \in 1 .. n : chain[k] = ch[k]
    BY <1>1, <1>3
  <1>5. /\ Tried(p) \in Seq(Frame) /\ Len(Tried(p)) = n + 1
        /\ \A k \in 1 .. n + 1 :
              /\ Tried(p)[k].fn = stack[k].fn
              /\ Tried(p)[k].old_in_function_pointer = stack[k].old_in_function_pointer
              /\ Tried(p)[k].callees \subseteq stack[k].callees
    BY <1>1, <1>3, TriedFacts
  <1>6. /\ frame \in Frame /\ frame.fn = p[2]
        /\ frame.old_in_function_pointer = flag /\ OwnCallees(frame)
    BY <1>1, <1>3, ActivationType
  <1>7. p \in all_callee_checker_results /\ Owner[p[1]] = stack[n + 1].fn
    <2>1. OwnCallees(stack[n + 1]) /\ Top = stack[n + 1]
      BY <1>1, <1>3, TopFacts DEF WalkInv
    <2>2. QED
      BY <1>1, <2>1 DEF OwnCallees
  <1> HIDE DEF ch, flag, n, chain, flag2, frame, more
  <1>8. /\ stack' \in Seq(Frame) /\ Len(stack') = n + 2 /\ stack' # <<>>
        /\ stack'[n + 2] = frame
        /\ \A k \in 1 .. n + 1 : stack'[k] = Tried(p)[k]
    BY <1>2, <1>3, <1>5, <1>6
  <1>9. Agree(stack, ch, stack', chain, n)
    BY <1>4, <1>5, <1>8 DEF Agree
  <1>10. Step(stack', chain, n + 1) = p
    BY <1>1, <1>3, <1>4, <1>6, <1>8 DEF Step
  <1>11. \A k \in 1 .. n + 1 : Owner[chain[k]] = stack[k].fn
    <2>1. \A k \in 1 .. n : Owner[ch[k]] = stack[k].fn
      BY <1>1 DEF Spine, Linked, n
    <2>2. \A k \in 1 .. n + 1 : k \in 1 .. n \/ k = n + 1
      BY <1>3
    <2>3. QED
      BY <1>4, <1>7, <2>1, <2>2
  <1>12. Linked(stack', chain, n + 1)
    <2>1. ASSUME NEW j \in 1 .. n + 1
          PROVE  RealName[stack'[j].fn] # RealName[p[2]]
      <3>1. DOMAIN chain = 1 .. n + 1
        BY <1>3, <1>4
      <3>2. RealName[Owner[chain[j]]] # RealName[p[2]]
        BY <1>2, <3>1 DEF Entered, OnChain
      <3>3. QED
        BY <1>5, <1>8, <1>11, <3>2
    <2>2. n + 1 \in 1 .. n + 1 /\ stack'[(n + 1) + 1].fn = p[2] /\ p[2] \notin SkippedFunctions
      BY <1>2, <1>3, <1>6, <1>8 DEF Entered
    <2>3. Owner[chain[n + 1]] = stack'[n + 1].fn
      BY <1>5, <1>8, <1>11, <2>2
    <2>4. QED
      BY <1>2, <1>7, <1>10, <2>1, <2>2, <2>3 DEF Linked
  <1>13. Spine(stack', chain, flag2)
    <2>1. flag2 <=> (flag \/ IsPointer(Step(stack', chain, Len(chain))))
      BY <1>4, <1>10 DEF flag2
    <2>2. stack'[Len(chain) + 1].old_in_function_pointer = flag
      BY <1>3, <1>4, <1>6, <1>8
    <2>3. QED
      BY <1>1, <1>3, <1>4, <1>9, <1>12, <2>1, <2>2, SpineGrows DEF n
  <1>14. Len(chain) <= MAX_FUNC_DEPTH
    BY <1>2, <1>3, <1>4, WalkAssumption DEF Entered, TooDeep
  <1>15. /\ more \in Seq(CheckerResult)
         /\ \A k \in DOMAIN more : more[k] \in Expected
    <2>1. more \in Seq(CheckerResult)
      BY <1>1, <1>3, <1>4, CopiesType DEF more
    <2>2. p[2] = stack'[Len(chain) + 1].fn
      BY <1>3, <1>4, <1>6, <1>8
    <2>3. QED
      BY <1>1, <1>3, <1>4, <1>13, <1>14, <2>1, <2>2, SpineCollects, ZenonT(60) DEF more
  <1>16. NothingSpurious' /\ all_checker_results' \in Seq(CheckerResult)
    BY <1>1, <1>2, <1>15, CollectedGrows
  <1>17. TypeOK'
    <2>1. Len(current_call_chain') = Len(stack') - 1
      BY <1>2, <1>3, <1>4, <1>8
    <2>2. /\ current_call_chain' \in Seq(Insts) /\ in_function_pointer' \in BOOLEAN
          /\ count_update_checker' \in Nat
      BY <1>2, <1>3, <1>4
    <2>3. QED
      BY <1>1, <1>8, <1>16, <2>1, <2>2 DEF TypeOK, inputs
  <1>18. Spine(stack, current_call_chain, in_function_pointer)'
    <2>1. Spine(stack', current_call_chain', in_function_pointer')
      BY <1>2, <1>13
    <2>2. QED
      BY <1>1, <2>1, SameSpine
  <1>19. (\A k \in 1 .. Len(stack) : OwnCallees(stack[k]))'
    <2>1. \A k \in 1 .. n + 1 : OwnCallees(stack[k])
      BY <1>3 DEF WalkInv
    <2>2. \A k \in 1 .. n + 1 : OwnCallees(stack'[k])
      BY <1>5, <1>8, <2>1 DEF OwnCallees
    <2>3. \A k \in 1 .. Len(stack') : k \in 1 .. n + 1 \/ k = n + 2
      BY <1>3, <1>8
    <2>4. \A k \in 1 .. Len(stack') : OwnCallees(stack'[k])
      BY <1>6, <1>8, <2>2, <2>3
    <2>5. QED
      BY <1>1, <2>4, SameOwnCallees
  <1>20. count_update_checker' # 0
    BY <1>2, <1>3
  <1>21. QED
    BY <1>2, <1>8, <1>14, <1>16, <1>17, <1>18, <1>19, <1>20 DEF WalkInv

\* A return drops the last step of the path.
LEMMA ReturnInv == ASSUME WalkInv, Return PROVE WalkInv'
  <1> DEFINE ch == current_call_chain
             flag == in_function_pointer
             n == Len(ch)
  <1>1. /\ TypeOK /\ NothingSpurious /\ UNCHANGED inputs
        /\ stack # <<>> /\ Spine(stack, ch, flag)
    BY DEF WalkInv, Return
  <1>2. /\ stack' = SubSeq(stack, 1, Len(stack) - 1)
        /\ current_call_chain' = Popped(ch)
        /\ in_function_pointer' = Top.old_in_function_pointer
        /\ count_update_checker' = count_update_checker
        /\ all_checker_results' = all_checker_results
    BY DEF Return, FlagOfCaller
  <1>3. /\ ch \in Seq(Insts) /\ n \in Nat /\ n <= MAX_FUNC_DEPTH
        /\ Len(stack) = n + 1 /\ stack \in Seq(Frame) /\ Top = stack[n + 1]
        /\ stack[n + 1].old_in_function_pointer \in BOOLEAN
    <2>1. /\ ch \in Seq(Insts) /\ n \in Nat /\ n <= MAX_FUNC_DEPTH
          /\ Len(stack) = n + 1 /\ stack \in Seq(Frame)
      BY <1>1 DEF WalkInv, TypeOK
    <2>2. Top = stack[n + 1] /\ Top \in Frame
      BY <1>1, <2>1, TopFacts
    <2>3. QED
      BY <2>1, <2>2 DEF Frame
  <1> HIDE DEF ch, flag, n
  <1>4. /\ stack' \in Seq(Frame) /\ Len(stack') = n
        /\ \A k \in 1 .. n : stack'[k] = stack[k]
    BY <1>2, <1>3, SubSeqProperties
  <1>5. NothingSpurious'
    BY <1>1, <1>2, SameExpected DEF NothingSpurious, Collected
  <1>6. (\A k \in 1 .. Len(stack) : OwnCallees(stack[k]))'
    <2>1. \A k \in 1 .. n + 1 : OwnCallees(stack[k])
      BY <1>3 DEF WalkInv
    <2>2. \A k \in 1 .. Len(stack') : OwnCallees(stack'[k])
      BY <1>3, <1>4, <2>1
    <2>3. QED
      BY <1>1, <2>2, SameOwnCallees
  <1>7. CASE n = 0
    <2>1. ch = <<>> /\ current_call_chain' = <<>> /\ stack' = <<>>
      BY <1>2, <1>3, <1>4, <1>7 DEF n, Popped
    <2>2. stack[1].old_in_function_pointer = FALSE
      BY <1>1 DEF Spine
    <2>3. in_function_pointer' = FALSE
      BY <1>2, <1>3, <1>7, <2>2
    <2>4. Len(current_call_chain') = 0 /\ current_call_chain' \in Seq(Insts)
      BY <2>1
    <2>5. TypeOK'
      <3>1. Len(current_call_chain') = IF stack' = <<>> THEN 0 ELSE Len(stack') - 1
        BY <2>1, <2>4
      <3>2. count_update_checker' \in Nat /\ all_checker_results' \in Seq(CheckerResult)
        BY <1>1, <1>2 DEF TypeOK
      <3>3. QED
        BY <1>1, <1>4, <2>3, <2>4, <3>1, <3>2 DEF TypeOK, inputs
    <2>6. QED
      BY <1>3, <1>5, <1>6, <1>7, <2>1, <2>3, <2>4, <2>5 DEF WalkInv
  <1>8. CASE n > 0
    <2> DEFINE chain == SubSeq(ch, 1, n - 1)
               flag2 == stack[n + 1].old_in_function_pointer
    <2>1. ch # <<>> /\ current_call_chain' = chain /\ in_function_pointer' = flag2
      BY <1>2, <1>3, <1>8 DEF n, Popped
    <2>2. /\ chain \in Seq(Insts) /\ Len(chain) = n - 1
          /\ \A k \in 1 .. n - 1 : chain[k] = ch[k]
      <3> DEFINE m == n - 1
      <3>1. m \in Nat /\ m >= 0 /\ 1 <= m + 1 /\ m <= n /\ n = Len(ch) /\ chain = SubSeq(ch, 1, m)
        BY <1>3, <1>8 DEF n
      <3> HIDE DEF m, chain
      <3>2. chain \in Seq(Insts) /\ Len(chain) = m /\ \A k \in 1 .. m : chain[k] = ch[k]
        BY <1>3, <3>1, SubSeqProperties
      <3>3. QED
        BY <3>2 DEF m
    <2>3. n - 1 \in Nat /\ n - 1 \in 0 .. n /\ n \in 1 .. n /\ stack' # <<>>
      BY <1>3, <1>4, <1>8
    <2> HIDE DEF chain
    <2>4. Agree(stack, ch, stack', chain, n - 1)
      BY <1>3, <1>4, <2>2 DEF Agree
    <2>5. flag2 <=> Through(stack, ch, n - 1)
      BY <1>1, <2>3 DEF Spine, n
    <2>6. Spine(stack', chain, flag2)
      BY <1>1, <1>3, <2>2, <2>3, <2>4, <2>5, SpinePrefix DEF n
    <2>7. Spine(stack, current_call_chain, in_function_pointer)'
      <3>1. Spine(stack', current_call_chain', in_function_pointer')
        BY <2>1, <2>6
      <3>2. QED
        BY <1>1, <3>1, SameSpine
    <2>8. Len(current_call_chain') = Len(stack') - 1 /\ Len(current_call_chain') <= MAX_FUNC_DEPTH
      BY <1>3, <1>4, <2>1, <2>2, WalkAssumption
    <2>9. TypeOK'
      BY <1>1, <1>2, <1>3, <1>4, <2>1, <2>2, <2>3, <2>8 DEF TypeOK, inputs
    <2>10. count_update_checker # 0
      BY <1>1 DEF WalkInv
    <2>11. QED
      BY <1>2, <1>5, <1>6, <2>3, <2>7, <2>8, <2>9, <2>10 DEF WalkInv
  <1>9. QED
    BY <1>3, <1>7, <1>8

\* Stuttering keeps the invariant.
LEMMA StutterInv == ASSUME WalkInv, UNCHANGED vars PROVE WalkInv'
  <1>1. UNCHANGED inputs /\ TypeOK /\ NothingSpurious
    BY DEF vars, inputs, WalkInv
  <1>2. TypeOK'
    BY <1>1 DEF vars, TypeOK
  <1>3. NothingSpurious'
    BY <1>1, SameExpected DEF vars, NothingSpurious, Collected
  <1>4. stack # <<>> => Spine(stack, current_call_chain, in_function_pointer)'
    <2>1. stack # <<>> => Spine(stack', current_call_chain', in_function_pointer')
      BY DEF WalkInv, vars
    <2>2. QED
      BY <1>1, <2>1, SameSpine
  <1>5. (\A k \in 1 .. Len(stack) : OwnCallees(stack[k]))'
    <2>1. \A k \in 1 .. Len(stack') : OwnCallees(stack'[k])
      BY DEF WalkInv, vars
    <2>2. QED
      BY <1>1, <2>1, SameOwnCallees
  <1>6. QED
    BY <1>2, <1>3, <1>4, <1>5 DEF WalkInv, vars

\* Every step keeps the invariant.
LEMMA NextInv == ASSUME WalkInv, [Next]_vars PROVE WalkInv'
  BY StartInv, SkipCalleeInv, RefuseCalleeInv, EnterCalleeInv, ReturnInv, StutterInv DEF Next

\* The invariant holds in every reachable state.
LEMMA Invariant == Spec => []WalkInv
  BY InitInv, NextInv, PTL DEF Spec

(***************************************************************************)
(* The state of the walk has its type, and the call chain is as long as    *)
(* the recursion of update_checker_results() is deep.                      *)
(***************************************************************************)
THEOREM TypeCorrect == Spec => []TypeOK
  <1>1. WalkInv => TypeOK
    BY DEF WalkInv
  <1>2. QED
    BY Invariant, <1>1, PTL

(***************************************************************************)
(* Whatever a walk has collected, also one that runs out of calls, is the  *)
(* result of a path, with its call chain and a true flag.                  *)
(***************************************************************************)
THEOREM NothingSpuriousHolds == Spec => []NothingSpurious
  <1>1. WalkInv => NothingSpurious
    BY DEF WalkInv
  <1>2. QED
    BY Invariant, <1>1, PTL

-----------------------------------------------------------------------------
(***************************************************************************)
(* A result is collected once.  The call site that an activation has taken *)
(* is not among those it has yet to try, so no result that came by it can  *)
(* come again: no collected result leaves the stack by a call site that is *)
(* left to try (Free).                                                     *)
(***************************************************************************)

\* The call chain c comes through the k-th activation and goes on from there.
GoesOn(st, ch, c, k) ==
    /\ Len(c) > k
    /\ \A j \in 1 .. k - 1 : c[j] = ch[j]
    /\ Owner[c[k]] = st[k].fn

Free(st, ch, c, m) ==
    \A k \in 1 .. m : GoesOn(st, ch, c, k) => <<c[k], Owner[c[k + 1]]>> \notin st[k].callees

\* The steps of the stack have been tried.
Taken(st, ch) == \A k \in 1 .. Len(ch) : Step(st, ch, k) \notin st[k].callees

OnceInv ==
    /\ count_update_checker = 0 => all_checker_results = <<>>
    /\ Taken(stack, current_call_chain)
    /\ \A r \in Collected : Free(stack, current_call_chain, r.call_chain, Len(stack))
    /\ CollectedOnce

\* Fewer call sites to try, on fewer activations: what was free stays free.
LEMMA FreeLess ==
    ASSUME NEW st, NEW ch, NEW c, NEW m \in Nat, Free(st, ch, c, m),
           NEW st2, NEW ch2, NEW m2 \in 0 .. m,
           \A k \in 1 .. m2 : st2[k].fn = st[k].fn /\ st2[k].callees \subseteq st[k].callees,
           \A k \in 1 .. m2 - 1 : ch2[k] = ch[k]
    PROVE  Free(st2, ch2, c, m2)
  <1> SUFFICES ASSUME NEW k \in 1 .. m2, GoesOn(st2, ch2, c, k)
               PROVE  <<c[k], Owner[c[k + 1]]>> \notin st2[k].callees
    BY DEF Free
  <1>1. k \in 1 .. m /\ \A j \in 1 .. k - 1 : j \in 1 .. m2 - 1
    OBVIOUS
  <1>2. GoesOn(st, ch, c, k)
    BY <1>1 DEF GoesOn
  <1>3. QED
    BY <1>1, <1>2 DEF Free

\* Steps that were tried stay tried on a shorter stack.
LEMMA TakenLess ==
    ASSUME NEW st, NEW ch, Taken(st, ch), Len(ch) \in Nat,
           NEW st2, NEW ch2, Len(ch2) \in 0 .. Len(ch),
           \A k \in 1 .. Len(ch2) + 1 : st2[k].fn = st[k].fn /\ st2[k].callees \subseteq st[k].callees,
           \A k \in 1 .. Len(ch2) : ch2[k] = ch[k]
    PROVE  Taken(st2, ch2)
  <1> SUFFICES ASSUME NEW k \in 1 .. Len(ch2)
               PROVE  Step(st2, ch2, k) \notin st2[k].callees
    BY DEF Taken
  <1>1. k \in 1 .. Len(ch) /\ k \in 1 .. Len(ch2) + 1 /\ k + 1 \in 1 .. Len(ch2) + 1
    OBVIOUS
  <1>2. Step(st2, ch2, k) = Step(st, ch, k) /\ st2[k].callees \subseteq st[k].callees
    BY <1>1 DEF Step
  <1>3. QED
    BY <1>1, <1>2 DEF Taken

\* Initially nothing is collected.
LEMMA InitOnce == Init => OnceInv
  <1> SUFFICES ASSUME Init PROVE OnceInv
    OBVIOUS
  <1>1. Len(<<>>) = 0 /\ DOMAIN <<>> = {}
    OBVIOUS
  <1>2. QED
    BY <1>1 DEF Init, OnceInv, Taken, Free, Collected, CollectedOnce

\* The copies that are made for one activation.
LEMMA CopiesFacts ==
    ASSUME NEW f \in Functions, NEW chain \in Seq(Insts), NEW flag
    PROVE  /\ \A k \in DOMAIN Copies(f, chain, flag) :
                 LET c == Copies(f, chain, flag)[k].call_chain IN
                 /\ c \in Seq(Insts)
                 /\ Len(c) = Len(chain) + 1
                 /\ \A j \in 1 .. Len(chain) : c[j] = chain[j]
                 /\ Owner[c[Len(chain) + 1]] = f
           /\ \A j, k \in DOMAIN Copies(f, chain, flag) :
                 Copies(f, chain, flag)[j] = Copies(f, chain, flag)[k] => j = k
  <1> DEFINE copies == Copies(f, chain, flag)
  <1>1. Results[f] \in Seq(CheckerResults) /\ DOMAIN copies = DOMAIN Results[f]
    BY WalkAssumption DEF Copies
  <1>2. ASSUME NEW k \in DOMAIN copies
        PROVE  /\ copies[k].call_chain = Append(chain, InstOf[Results[f][k]])
               /\ copies[k].result = Results[f][k]
               /\ InstOf[Results[f][k]] \in Insts /\ Owner[InstOf[Results[f][k]]] = f
    BY <1>1, <1>2, WalkAssumption DEF Copies
  <1> HIDE DEF copies
  <1>3. ASSUME NEW k \in DOMAIN copies
        PROVE  LET c == copies[k].call_chain IN
               /\ c \in Seq(Insts)
               /\ Len(c) = Len(chain) + 1
               /\ \A j \in 1 .. Len(chain) : c[j] = chain[j]
               /\ Owner[c[Len(chain) + 1]] = f
    BY <1>2, <1>3
  <1>4. ASSUME NEW j \in DOMAIN copies, NEW k \in DOMAIN copies, copies[j] = copies[k]
        PROVE  j = k
    <2>1. Results[f][j] = Results[f][k]
      BY <1>2, <1>4
    <2>2. j \in DOMAIN Results[f] /\ k \in DOMAIN Results[f]
      BY <1>1
    <2>3. QED
      BY <2>1, <2>2, WalkAssumption
  <1>5. QED
    BY <1>3, <1>4 DEF copies

\* The results of the entry function are its own, each once.
LEMMA StartOnce == ASSUME WalkInv, OnceInv, Start PROVE OnceInv'
  <1>1. stack = <<>> /\ all_checker_results = <<>> /\ current_call_chain = <<>>
    <2>1. stack = <<>> /\ all_checker_results = <<>>
      BY DEF WalkInv, OnceInv, Start
    <2>2. Len(current_call_chain) = 0 /\ current_call_chain \in Seq(Insts)
      BY <2>1 DEF WalkInv, TypeOK
    <2>3. QED
      BY <2>1, <2>2
  <1>2. current_call_chain' = <<>> /\ count_update_checker' # 0 /\ Len(<<>>) = 0
    BY <1>1 DEF Start
  <1>3. Taken(stack', <<>>)
    BY <1>2 DEF Taken
  <1>4. CASE Entered(t_function, <<>>)
    <2> DEFINE copies == Copies(t_function, <<>>, FALSE)
    <2>1. stack' = <<Activation(t_function, FALSE)>> /\ all_checker_results' = copies
      BY <1>4 DEF Start
    <2>2. t_function \in Functions /\ <<>> \in Seq(Insts)
      BY WalkAssumption DEF WalkInv, TypeOK
    <2>3. /\ \A k \in DOMAIN copies : Len(copies[k].call_chain) = 1
          /\ \A j, k \in DOMAIN copies : copies[j] = copies[k] => j = k
      <3>1. Results[t_function] \in Seq(CheckerResults) /\ DOMAIN copies = DOMAIN Results[t_function]
        BY <2>2, WalkAssumption DEF Copies
      <3>2. ASSUME NEW k \in DOMAIN copies
            PROVE  /\ copies[k].call_chain = Append(<<>>, InstOf[Results[t_function][k]])
                   /\ copies[k].result = Results[t_function][k]
        BY <3>1, <3>2 DEF Copies
      <3> HIDE DEF copies
      <3>3. ASSUME NEW k \in DOMAIN copies
            PROVE  Len(copies[k].call_chain) = 1
        <4>1. copies[k].call_chain = Append(<<>>, InstOf[Results[t_function][k]])
          BY <3>2
        <4>2. Len(Append(<<>>, InstOf[Results[t_function][k]])) = 1
          OBVIOUS
        <4>3. QED
          BY <4>1, <4>2
      <3>4. ASSUME NEW j \in DOMAIN copies, NEW k \in DOMAIN copies, copies[j] = copies[k]
            PROVE  j = k
        <4>1. Results[t_function][j] = Results[t_function][k]
          BY <3>2, <3>4
        <4>2. j \in DOMAIN Results[t_function] /\ k \in DOMAIN Results[t_function]
          BY <3>1
        <4>3. QED
          BY <2>2, <4>1, <4>2, WalkAssumption
      <3>5. QED
        BY <3>3, <3>4
    <2> HIDE DEF copies
    <2>4. Len(stack') = 1
      BY <2>1
    <2>5. \A r \in Collected' : Free(stack', <<>>, r.call_chain, 1)
      <3>1. \A r \in Collected' : Len(r.call_chain) = 1
        BY <2>1, <2>3 DEF Collected
      <3>2. QED
        BY <3>1 DEF Free, GoesOn
    <2>6. CollectedOnce'
      BY <2>1, <2>3 DEF CollectedOnce
    <2>7. (\A r \in Collected : Free(stack, current_call_chain, r.call_chain, Len(stack)))'
      BY <1>2, <2>4, <2>5 DEF Free, GoesOn
    <2>8. QED
      BY <1>2, <1>3, <2>6, <2>7 DEF OnceInv, Taken, Step
  <1>5. CASE ~ Entered(t_function, <<>>)
    <2>1. all_checker_results' = <<>>
      BY <1>1, <1>5 DEF Start
    <2>2. QED
      BY <1>2, <1>3, <2>1 DEF OnceInv, Taken, Step, Collected, CollectedOnce
  <1>6. QED
    BY <1>4, <1>5

\* The call site tried last is gone, and nothing is collected.
LEMMA TriedOnce ==
    ASSUME WalkInv, OnceInv, NEW p \in Turn, stack' = Tried(p),
           UNCHANGED <<current_call_chain, all_checker_results>>,
           count_update_checker' = 0 => count_update_checker = 0
    PROVE  OnceInv'
  <1> DEFINE ch == current_call_chain
             n == Len(stack)
  <1>1. /\ stack # <<>> /\ n \in Nat /\ n > 0 /\ Len(ch) \in Nat /\ Len(ch) = n - 1
        /\ Len(stack') = n
        /\ \A k \in 1 .. n : stack'[k].fn = stack[k].fn /\ stack'[k].callees \subseteq stack[k].callees
    BY TurnFacts, TriedFacts DEF WalkInv, TypeOK
  <1>2. Taken(stack', ch)
    <2>1. Len(ch) \in 0 .. Len(ch) /\ Len(ch) + 1 = n
      BY <1>1
    <2>2. QED
      BY <1>1, <2>1, TakenLess DEF OnceInv
  <1>3. ASSUME NEW r \in Collected
        PROVE  Free(stack', ch, r.call_chain, n)
    <2>1. n \in 0 .. n
      BY <1>1
    <2>2. QED
      BY <1>1, <2>1, FreeLess DEF OnceInv
  <1>4. Collected' = Collected /\ (CollectedOnce' <=> CollectedOnce)
    BY DEF Collected, CollectedOnce
  <1>5. QED
    BY <1>1, <1>2, <1>3, <1>4 DEF OnceInv

\* A return takes the last step away and collects nothing.
LEMMA ReturnOnce == ASSUME WalkInv, OnceInv, Return PROVE OnceInv'
  <1> DEFINE ch == current_call_chain
             n == Len(ch)
  <1>1. /\ ch \in Seq(Insts) /\ n \in Nat /\ stack # <<>> /\ Len(stack) = n + 1 /\ stack \in Seq(Frame)
        /\ stack' = SubSeq(stack, 1, Len(stack) - 1) /\ current_call_chain' = Popped(ch)
        /\ count_update_checker' = count_update_checker
        /\ all_checker_results' = all_checker_results
    BY DEF WalkInv, TypeOK, Return
  <1>2. Collected' = Collected /\ (CollectedOnce' <=> CollectedOnce)
    BY <1>1 DEF Collected, CollectedOnce
  <1>3. ch = <<>> => n = 0
    OBVIOUS
  <1> HIDE DEF ch, n
  <1>4. Len(stack') = n /\ \A k \in 1 .. n : stack'[k] = stack[k]
    BY <1>1, SubSeqProperties
  <1>5. /\ Len(current_call_chain') = IF n = 0 THEN 0 ELSE n - 1
        /\ \A k \in 1 .. n - 1 : current_call_chain'[k] = ch[k]
    <2>1. CASE n = 0
      BY <1>1, <2>1 DEF n, Popped
    <2>2. CASE n > 0
      <3> DEFINE m == n - 1
                 chain == SubSeq(ch, 1, m)
      <3>1. m \in Nat /\ m <= n /\ n = Len(ch) /\ current_call_chain' = chain
        BY <1>1, <1>3, <2>2 DEF n, Popped
      <3> HIDE DEF m
      <3>2. Len(chain) = m /\ \A k \in 1 .. m : chain[k] = ch[k]
        BY <1>1, <3>1, SubSeqProperties
      <3>3. QED
        BY <2>2, <3>1, <3>2 DEF m
    <2>3. QED
      BY <1>1, <2>1, <2>2
  <1>6. Taken(stack', current_call_chain')
    <2>1. CASE n = 0
      BY <1>5, <2>1 DEF Taken
    <2>2. CASE n > 0
      <3>1. /\ Len(current_call_chain') \in 0 .. n
            /\ Len(current_call_chain') + 1 = n
        BY <1>1, <1>5, <2>2
      <3>2. \A k \in 1 .. Len(current_call_chain') : current_call_chain'[k] = ch[k]
        BY <1>5, <2>2
      <3>3. Taken(stack, ch)
        BY DEF OnceInv, ch
      <3>4. Len(ch) \in Nat /\ Len(current_call_chain') \in 0 .. Len(ch)
        BY <1>1, <3>1 DEF n
      <3>5. \A k \in 1 .. Len(current_call_chain') + 1 :
                stack'[k].fn = stack[k].fn /\ stack'[k].callees \subseteq stack[k].callees
        BY <1>4, <3>1
      <3>6. QED
        BY <3>2, <3>3, <3>4, <3>5, TakenLess
    <2>3. QED
      BY <1>1, <2>1, <2>2
  <1>7. ASSUME NEW r \in Collected
        PROVE  Free(stack', current_call_chain', r.call_chain, n)
    <2>1. n \in 0 .. n + 1 /\ n + 1 \in Nat /\ Free(stack, ch, r.call_chain, n + 1)
      BY <1>1 DEF OnceInv, ch
    <2>2. QED
      BY <1>4, <1>5, <2>1, FreeLess
  <1>8. QED
    BY <1>1, <1>2, <1>4, <1>6, <1>7 DEF OnceInv

\* The results of a callee came by a call site that was free, so they are new.
LEMMA EnterCalleeOnce == ASSUME WalkInv, OnceInv, NEW p \in Turn, EnterCallee(p) PROVE OnceInv'
  <1> DEFINE ch == current_call_chain
             n == Len(ch)
             chain == Append(ch, p[1])
             flag2 == in_function_pointer \/ IsPointer(p)
             frame == Activation(p[2], in_function_pointer)
             more == Copies(p[2], chain, flag2)
  <1>1. /\ TypeOK /\ stack # <<>>
        /\ p \in Top.callees /\ p[1] \in Insts /\ p[2] \in Functions /\ p = <<p[1], p[2]>>
    BY TurnFacts DEF WalkInv, Sites
  <1>2. /\ count_update_checker' = count_update_checker + 1
        /\ current_call_chain' = chain
        /\ all_checker_results' = all_checker_results \o more
        /\ stack' = Append(Tried(p), frame)
    BY DEF EnterCallee
  <1>3. /\ ch \in Seq(Insts) /\ n \in Nat /\ count_update_checker \in Nat
        /\ Len(stack) = n + 1 /\ stack \in Seq(Frame) /\ Top = stack[n + 1]
        /\ all_checker_results \in Seq(CheckerResult)
    BY <1>1, TopFacts DEF TypeOK
  <1>4. /\ chain \in Seq(Insts) /\ Len(chain) = n + 1 /\ chain[n + 1] = p[1]
        /\ \A k \in 1 .. n : chain[k] = ch[k]
    BY <1>1, <1>3
  <1>5. /\ Tried(p) \in Seq(Frame) /\ Len(Tried(p)) = n + 1
        /\ \A k \in 1 .. n + 1 :
              Tried(p)[k].fn = stack[k].fn /\ Tried(p)[k].callees \subseteq stack[k].callees
        /\ p \notin Tried(p)[n + 1].callees
    <2>1. p \notin Tried(p)[n + 1].callees
      <3> DEFINE top == [stack[n + 1] EXCEPT !.callees = stack[n + 1].callees \ {p}]
      <3>1. stack[n + 1] \in Frame /\ n + 1 \in 1 .. Len(stack)
        BY <1>1, <1>3, TopFacts
      <3>2. top.callees = stack[n + 1].callees \ {p} /\ top \in Frame
        BY <3>1 DEF Frame
      <3>3. Tried(p) = [stack EXCEPT ![n + 1] = top]
        BY <1>3, <3>1 DEF Tried
      <3> HIDE DEF top
      <3>4. Tried(p)[n + 1] = top
        BY <1>3, <3>1, <3>2, <3>3, ExceptSeq
      <3>5. QED
        BY <3>2, <3>4
    <2>2. QED
      BY <1>1, <1>3, <2>1, TriedFacts
  <1>6. frame \in Frame /\ frame.fn = p[2]
    BY <1>1, ActivationType DEF TypeOK
  <1>7. Owner[p[1]] = stack[n + 1].fn
    <2>1. OwnCallees(stack[n + 1])
      BY <1>1, <1>3, TopFacts DEF WalkInv
    <2>2. QED
      BY <1>1, <1>3, <2>1 DEF OwnCallees
  <1>8. \A k \in 1 .. n : Owner[ch[k]] = stack[k].fn
    BY <1>1 DEF WalkInv, Spine, Linked
  <1>9. /\ more \in Seq(CheckerResult)
        /\ \A k \in DOMAIN more :
              /\ Len(more[k].call_chain) = n + 2
              /\ \A j \in 1 .. n + 1 : more[k].call_chain[j] = chain[j]
              /\ Owner[more[k].call_chain[n + 2]] = p[2]
        /\ \A j, k \in DOMAIN more : more[j] = more[k] => j = k
    <2>1. flag2 \in BOOLEAN
      BY <1>1 DEF TypeOK
    <2>2. more \in Seq(CheckerResult)
      BY <1>1, <1>4, <2>1, CopiesType
    <2> HIDE DEF flag2, chain
    <2>3. (n + 1) + 1 = n + 2
      BY <1>3
    <2>4. QED
      BY <1>1, <1>4, <2>2, <2>3, CopiesFacts
  <1> HIDE DEF ch, n, chain, flag2, frame, more
  <1>10. /\ Len(stack') = n + 2 /\ stack'[n + 2] = frame
         /\ \A k \in 1 .. n + 1 : stack'[k] = Tried(p)[k]
    BY <1>2, <1>3, <1>5, <1>6
  <1>11. Taken(stack', chain)
    <2>1. ASSUME NEW k \in 1 .. n
          PROVE  Step(stack', chain, k) \notin stack'[k].callees
      <3>1. k \in 1 .. n + 1 /\ k + 1 \in 1 .. n + 1
        BY <1>3
      <3>2. Step(stack, ch, k) \notin stack[k].callees
        BY DEF OnceInv, Taken, ch, n
      <3>3. Step(stack', chain, k) = Step(stack, ch, k)
        BY <1>4, <1>5, <1>10, <3>1 DEF Step
      <3>4. QED
        BY <1>5, <1>10, <3>1, <3>2, <3>3
    <2>2. Step(stack', chain, n + 1) = p
      BY <1>1, <1>3, <1>4, <1>6, <1>10 DEF Step
    <2>3. p \notin stack'[n + 1].callees
      BY <1>3, <1>5, <1>10
    <2>4. \A k \in 1 .. Len(chain) : k \in 1 .. n \/ k = n + 1
      BY <1>3, <1>4
    <2>5. QED
      BY <2>1, <2>2, <2>3, <2>4 DEF Taken
  \* No result has come this way before.
  <1>12. ASSUME NEW r \in Collected,
                Len(r.call_chain) > n + 1,
                \A j \in 1 .. n + 1 : r.call_chain[j] = chain[j],
                Owner[r.call_chain[n + 2]] = p[2]
         PROVE  FALSE
    <2>1. GoesOn(stack, ch, r.call_chain, n + 1)
      <3>1. \A j \in 1 .. (n + 1) - 1 : j \in 1 .. n /\ j \in 1 .. n + 1
        BY <1>3
      <3>2. r.call_chain[n + 1] = p[1]
        BY <1>3, <1>4, <1>12
      <3>3. QED
        BY <1>4, <1>7, <1>12, <3>1, <3>2 DEF GoesOn
    <2>2. Free(stack, ch, r.call_chain, n + 1) /\ n + 1 \in 1 .. n + 1 /\ (n + 1) + 1 = n + 2
      BY <1>3 DEF OnceInv, ch
    <2>3. <<r.call_chain[n + 1], Owner[r.call_chain[n + 2]]>> = p
      BY <1>1, <1>3, <1>4, <1>12
    <2>4. QED
      BY <1>1, <1>3, <2>1, <2>2, <2>3 DEF Free
  <1>13. ASSUME NEW r \in Collected
         PROVE  Free(stack', chain, r.call_chain, n + 2)
    <2>1. Free(stack', chain, r.call_chain, n + 1)
      <3>1. Free(stack, ch, r.call_chain, n + 1) /\ n + 1 \in Nat /\ n + 1 \in 0 .. n + 1
        BY <1>3 DEF OnceInv, ch
      <3>2. \A k \in 1 .. (n + 1) - 1 : chain[k] = ch[k]
        BY <1>3, <1>4
      <3>3. QED
        BY <1>5, <1>10, <3>1, <3>2, FreeLess
    <2>2. ~ GoesOn(stack', chain, r.call_chain, n + 2)
      <3> SUFFICES ASSUME GoesOn(stack', chain, r.call_chain, n + 2) PROVE FALSE
        OBVIOUS
      <3>1. /\ Len(r.call_chain) > n + 2
            /\ \A j \in 1 .. (n + 2) - 1 : r.call_chain[j] = chain[j]
            /\ Owner[r.call_chain[n + 2]] = p[2]
        BY <1>6, <1>10 DEF GoesOn
      <3>2. Len(r.call_chain) \in Nat /\ (n + 2) - 1 = n + 1
        <4>1. r \in CheckerResult
          BY <1>3 DEF Collected
        <4>2. QED
          BY <1>3, <4>1 DEF CheckerResult
      <3>3. QED
        BY <1>3, <1>12, <3>1, <3>2
    <2>3. \A k \in 1 .. n + 2 : k \in 1 .. n + 1 \/ k = n + 2
      BY <1>3
    <2>4. QED
      BY <2>1, <2>2, <2>3 DEF Free
  <1>14. ASSUME NEW i \in DOMAIN more
         PROVE  Free(stack', chain, more[i].call_chain, n + 2)
    <2> DEFINE c == more[i].call_chain
    <2>1. /\ Len(c) = n + 2 /\ \A j \in 1 .. n + 1 : c[j] = chain[j]
          /\ Owner[c[n + 2]] = p[2]
      BY <1>9
    <2> HIDE DEF c
    <2>2. ASSUME NEW k \in 1 .. n + 2, GoesOn(stack', chain, c, k)
          PROVE  <<c[k], Owner[c[k + 1]]>> \notin stack'[k].callees
      <3>1. k \in 1 .. n + 1
        BY <1>3, <2>1, <2>2 DEF GoesOn
      <3>2. Owner[c[k + 1]] = stack'[k + 1].fn
        <4>1. CASE k = n + 1
          BY <1>3, <1>6, <1>10, <2>1, <4>1
        <4>2. CASE k \in 1 .. n
          <5>1. k + 1 \in 1 .. n + 1
            BY <1>3, <4>2
          <5>2. Owner[chain[k + 1]] = stack[k + 1].fn
            <6>1. CASE k + 1 = n + 1
              BY <1>4, <1>7, <6>1
            <6>2. CASE k + 1 \in 1 .. n
              BY <1>4, <1>8, <6>2
            <6>3. QED
              BY <1>3, <5>1, <6>1, <6>2
          <5>3. QED
            BY <1>5, <1>10, <2>1, <5>1, <5>2
        <4>3. QED
          BY <1>3, <3>1, <4>1, <4>2
      <3>3. <<c[k], Owner[c[k + 1]]>> = Step(stack', chain, k)
        BY <2>1, <3>1, <3>2 DEF Step
      <3>4. QED
        BY <1>4, <1>11, <3>1, <3>3 DEF Taken
    <2>3. QED
      BY <2>2 DEF Free, c
  <1>15. \A k \in DOMAIN more : more[k] \notin Collected
    <2> SUFFICES ASSUME NEW k \in DOMAIN more, more[k] \in Collected PROVE FALSE
      OBVIOUS
    <2>1. Len(more[k].call_chain) > n + 1
      BY <1>3, <1>9
    <2>2. QED
      BY <1>9, <1>12, <2>1
  <1>16. \A k \in DOMAIN all_checker_results' :
            \/ /\ k \in DOMAIN all_checker_results
               /\ all_checker_results'[k] = all_checker_results[k]
            \/ /\ k - Len(all_checker_results) \in DOMAIN more
               /\ all_checker_results'[k] = more[k - Len(all_checker_results)]
    <2> DEFINE old == Len(all_checker_results)
               m == Len(more)
    <2>1. old \in Nat /\ m \in Nat /\ DOMAIN all_checker_results = 1 .. old /\ DOMAIN more = 1 .. m
      BY <1>3, <1>9
    <2>2. /\ DOMAIN all_checker_results' = 1 .. old + m
          /\ \A k \in 1 .. old + m :
                all_checker_results'[k] = IF k <= old THEN all_checker_results[k] ELSE more[k - old]
      BY <1>2, <1>3, <1>9
    <2> HIDE DEF old, m
    <2>3. \A k \in 1 .. old + m : (k <= old => k \in 1 .. old) /\ (~ k <= old => k - old \in 1 .. m)
      BY <2>1
    <2>4. QED
      BY <2>1, <2>2, <2>3 DEF old
  <1>17. CollectedOnce'
    <2> SUFFICES ASSUME NEW j \in DOMAIN all_checker_results', NEW k \in DOMAIN all_checker_results',
                        all_checker_results'[j] = all_checker_results'[k]
                 PROVE  j = k
      BY DEF CollectedOnce
    <2> DEFINE Old(i) == i \in DOMAIN all_checker_results
                         /\ all_checker_results'[i] = all_checker_results[i]
               New(i) == i - Len(all_checker_results) \in DOMAIN more
                         /\ all_checker_results'[i] = more[i - Len(all_checker_results)]
    <2>1. (Old(j) \/ New(j)) /\ (Old(k) \/ New(k))
      BY <1>16
    <2>2. \A i \in {j, k} : Old(i) => all_checker_results'[i] \in Collected
      BY DEF Collected
    <2>3. \A i \in {j, k} : New(i) => all_checker_results'[i] \notin Collected
      BY <1>15
    <2>4. CASE Old(j) /\ Old(k)
      BY <2>4 DEF OnceInv, CollectedOnce
    <2>5. CASE New(j) /\ New(k)
      <3>1. j - Len(all_checker_results) = k - Len(all_checker_results)
        BY <1>9, <2>5
      <3>2. j \in Int /\ k \in Int /\ Len(all_checker_results) \in Nat
        <4>1. all_checker_results' \in Seq(CheckerResult)
          BY <1>2, <1>3, <1>9
        <4>2. QED
          BY <1>3, <4>1
      <3>3. QED
        BY <3>1, <3>2
    <2> HIDE DEF Old, New
    <2>6. QED
      BY <2>1, <2>2, <2>3, <2>4, <2>5
  <1>18. \A r \in Collected' : Free(stack', chain, r.call_chain, n + 2)
    BY <1>13, <1>14, <1>16 DEF Collected
  <1>19. count_update_checker' # 0
    BY <1>2, <1>3
  <1>20. QED
    BY <1>2, <1>10, <1>11, <1>17, <1>18, <1>19 DEF OnceInv

\* OnceInv holds in every reachable state.
LEMMA Once == Spec => []OnceInv
  <1>1. ASSUME WalkInv, OnceInv, [Next]_vars
        PROVE  OnceInv'
    <2>1. CASE Start
      BY <1>1, <2>1, StartOnce
    <2>2. ASSUME NEW p \in Turn, SkipCallee(p)
          PROVE  OnceInv'
      BY <1>1, <2>2, TriedOnce DEF SkipCallee
    <2>3. ASSUME NEW p \in Turn, RefuseCallee(p)
          PROVE  OnceInv'
      <3>1. count_update_checker \in Nat /\ count_update_checker' \in {count_update_checker, count_update_checker + 1}
        BY <1>1, <2>3 DEF RefuseCallee, WalkInv, TypeOK
      <3>2. count_update_checker' = 0 => count_update_checker = 0
        BY <3>1
      <3>3. QED
        BY <1>1, <2>3, <3>2, TriedOnce DEF RefuseCallee
    <2>4. ASSUME NEW p \in Turn, EnterCallee(p)
          PROVE  OnceInv'
      BY <1>1, <2>4, EnterCalleeOnce
    <2>5. CASE Return
      BY <1>1, <2>5, ReturnOnce
    <2>6. CASE UNCHANGED vars
      <3>1. /\ stack' = stack /\ current_call_chain' = current_call_chain
            /\ all_checker_results' = all_checker_results
            /\ count_update_checker' = count_update_checker
        BY <2>6 DEF vars
      <3>2. Collected' = Collected /\ (CollectedOnce' <=> CollectedOnce)
        BY <3>1 DEF Collected, CollectedOnce
      <3>3. QED
        BY <1>1, <3>1, <3>2 DEF OnceInv
    <2>7. QED
      BY <1>1, <2>1, <2>2, <2>3, <2>4, <2>5, <2>6 DEF Next
  <1>2. QED
    BY InitOnce, Invariant, <1>1, PTL DEF Spec

(***************************************************************************)
(* No result is collected twice with one call chain, whatever cycles and   *)
(* copies of functions the program has, whatever the order of its call     *)
(* sites, and however many checkers match one instruction: a driver is not *)
(* made twice for one path.                                                *)
(***************************************************************************)
THEOREM CollectedOnceHolds == Spec => []CollectedOnce
  <1>1. OnceInv => CollectedOnce
    BY DEF OnceInv
  <1>2. QED
    BY Once, <1>1, PTL

-----------------------------------------------------------------------------
(***************************************************************************)
(* Nothing is missed.  A path whose results are not collected yet waits on *)
(* the stack: it agrees with the activations up to one that has its next   *)
(* call site yet to try.  Refusing that call site would lose it, so a      *)
(* refusal must mean that there is no such path (PathEnters).              *)
(***************************************************************************)

\* The path goes the way of the stack for k steps, its next one is yet to be tried.
Awaits(st, ch, path, k) ==
    /\ k < Len(path)
    /\ \A j \in 1 .. k : path[j] = Step(st, ch, j)
    /\ path[k + 1] \in st[k + 1].callees

Waiting(st, ch, path) == \E k \in 0 .. Len(st) - 1 : Awaits(st, ch, path, k)

MissInv ==
    count_update_checker # 0 /\ ~ Exhausted =>
        \A path \in Paths :
            ResultsAt(path) \subseteq Collected \/ Waiting(stack, current_call_chain, path)

\* What a path is.
LEMMA PathFacts ==
    ASSUME NEW path \in Paths
    PROVE  /\ Len(path) \in Nat /\ Len(path) <= MAX_FUNC_DEPTH /\ DOMAIN path = 1 .. Len(path)
           /\ \A k \in 1 .. Len(path) : path[k] \in all_callee_checker_results
           /\ IsPath(path)
  <1>1. PICK n \in 0 .. MAX_FUNC_DEPTH : path \in [1 .. n -> all_callee_checker_results]
    BY DEF Paths
  <1>2. n \in Nat /\ n <= MAX_FUNC_DEPTH /\ Len(path) = n
    BY <1>1, WalkAssumption
  <1>3. QED
    BY <1>1, <1>2 DEF Paths

\* The next call of a path is followed and its callee entered, unless calls run out.
LEMMA PathEnters ==
    ASSUME NEW path \in Paths, NEW ch \in Seq(Insts), NEW i \in Insts,
           Len(ch) < Len(path), \A j \in 1 .. Len(ch) : path[j][1] = ch[j],
           path[Len(ch) + 1][1] = i, ~ Exhausted
    PROVE  Followed(path[Len(ch) + 1]) /\ Entered(path[Len(ch) + 1][2], Append(ch, i))
  <1> DEFINE n == Len(ch)
             chain == Append(ch, i)
  <1>1. /\ n \in Nat /\ Len(path) \in Nat /\ n + 1 \in 1 .. Len(path) /\ Len(path) <= MAX_FUNC_DEPTH
        /\ IsPath(path)
    BY PathFacts
  <1>2. /\ Len(chain) = n + 1 /\ DOMAIN chain = 1 .. n + 1
        /\ \A k \in 1 .. n + 1 : chain[k] = path[k][1]
    BY <1>1
  <1> HIDE DEF n, chain
  <1>3. Followed(path[n + 1]) /\ path[n + 1][2] \notin SkippedFunctions
    BY <1>1 DEF IsPath
  <1>4. ~ OnChain(path[n + 1][2], chain)
    <2>1. ASSUME NEW k \in 1 .. n + 1
          PROVE  RealName[Owner[chain[k]]] # RealName[path[n + 1][2]]
      <3>1. k \in 1 .. Len(path) /\ k - 1 \in 0 .. (n + 1) - 1
        BY <1>1
      <3>2. Owner[chain[k]] = At(path, k - 1)
        BY <1>1, <1>2, <3>1 DEF IsPath
      <3>3. RealName[At(path, k - 1)] # RealName[path[n + 1][2]]
        BY <1>1, <3>1 DEF IsPath
      <3>4. QED
        BY <3>2, <3>3
    <2>2. QED
      BY <1>2, <2>1 DEF OnChain
  <1>5. ~ TooDeep(chain)
    BY <1>1, <1>2, WalkAssumption DEF TooDeep
  <1>6. QED
    BY <1>3, <1>4, <1>5 DEF Entered, n, chain

\* Paths and their results are inputs.
LEMMA SamePaths ==
    ASSUME UNCHANGED inputs
    PROVE  Paths' = Paths /\ \A path : ResultsAt(path)' = ResultsAt(path)
  <1>1. \A path : IsPath(path)' <=> IsPath(path)
    BY DEF inputs, IsPath, At, Followed, IsPointer
  <1>2. Paths' = Paths
    BY <1>1 DEF inputs, Paths
  <1>3. \A path : End(path)' = End(path)
    BY DEF inputs, End, At
  <1>4. \A path : ResultsAt(path)' = ResultsAt(path)
    BY <1>3 DEF ResultsAt, IsPointer
  <1>5. QED
    BY <1>2, <1>4

\* A call site that is no path's next step can be crossed off.
LEMMA TriedMiss ==
    ASSUME WalkInv, MissInv, NEW p \in Turn, stack' = Tried(p),
           UNCHANGED <<inputs, current_call_chain, all_checker_results>>,
           ~ Exhausted' => ~ Exhausted,
           ~ Exhausted => ~ (Followed(p) /\ Entered(p[2], Append(current_call_chain, p[1])))
    PROVE  MissInv'
  <1> DEFINE ch == current_call_chain
  <1>1. /\ TypeOK /\ stack # <<>> /\ count_update_checker # 0 /\ p \in Sites /\ p[1] \in Insts
        /\ ch \in Seq(Insts) /\ Len(ch) \in Nat /\ Len(stack) = Len(ch) + 1
    BY TurnFacts DEF WalkInv, TypeOK
  <1>2. /\ Len(stack') = Len(stack)
        /\ \A k \in 1 .. Len(stack) :
              /\ stack'[k].fn = stack[k].fn
              /\ stack[k].callees \ {p} \subseteq stack'[k].callees
              /\ k # Len(stack) => stack[k].callees \subseteq stack'[k].callees
    BY <1>1, TriedFacts
  <1> SUFFICES ASSUME ~ Exhausted, NEW path \in Paths, ~ (ResultsAt(path) \subseteq Collected)
               PROVE  Waiting(stack', ch, path)
    <2>1. Collected' = Collected
      BY DEF Collected
    <2>2. QED
      BY <2>1, SamePaths DEF MissInv, Waiting, Awaits, Step
  <1>3. PICK k \in 0 .. Len(stack) - 1 : Awaits(stack, ch, path, k)
    BY <1>1 DEF MissInv, Waiting
  <1>4. \A j \in 1 .. k : path[j] = Step(stack', ch, j)
    <2>1. \A j \in 1 .. k : j + 1 \in 1 .. Len(stack)
      BY <1>1, <1>3
    <2>2. QED
      BY <1>2, <1>3, <2>1 DEF Awaits, Step
  <1>5. path[k + 1] \in stack'[k + 1].callees
    <2>1. k + 1 \in 1 .. Len(stack)
      BY <1>1, <1>3
    <2>2. CASE k + 1 # Len(stack) \/ path[k + 1] # p
      BY <1>2, <1>3, <2>1, <2>2 DEF Awaits
    <2>3. CASE k + 1 = Len(stack) /\ path[k + 1] = p
      <3>1. k = Len(ch)
        BY <1>1, <1>3, <2>3
      <3>2. \A j \in 1 .. Len(ch) : path[j][1] = ch[j]
        BY <1>3, <3>1 DEF Awaits, Step
      <3>3. Len(ch) < Len(path)
        BY <1>3, <3>1 DEF Awaits
      <3>4. Followed(p) /\ Entered(p[2], Append(ch, p[1]))
        BY <1>1, <2>3, <3>1, <3>2, <3>3, PathEnters
      <3>5. QED
        BY <3>4
    <2>4. QED
      BY <2>2, <2>3
  <1>6. QED
    BY <1>1, <1>2, <1>3, <1>4, <1>5 DEF Waiting, Awaits

\* The walk of the entry function begins with the empty path.
LEMMA StartMiss == ASSUME WalkInv, Start PROVE MissInv'
  <1>1. UNCHANGED inputs /\ count_update_checker = 0
    BY DEF Start
  <1> SUFFICES ASSUME NEW path \in Paths
               PROVE  (ResultsAt(path) \subseteq Collected \/ Waiting(stack, <<>>, path))'
    <2>1. current_call_chain' = <<>>
      <3>1. Len(current_call_chain) = 0 /\ current_call_chain \in Seq(Insts)
        BY <1>1 DEF WalkInv, TypeOK
      <3>2. QED
        BY <3>1 DEF Start
    <2>2. QED
      BY <1>1, <2>1, SamePaths DEF MissInv
  <1>2. /\ Len(path) \in Nat /\ DOMAIN path = 1 .. Len(path) /\ IsPath(path)
        /\ \A k \in 1 .. Len(path) : path[k] \in all_callee_checker_results
    BY PathFacts
  <1>3. Entered(t_function, <<>>)
    <2>1. t_function \notin SkippedFunctions
      BY <1>2 DEF IsPath
    <2>2. Len(<<>>) = 0 /\ DOMAIN <<>> = {}
      OBVIOUS
    <2>3. ~ TooDeep(<<>>) /\ ~ Exhausted
      BY <1>1, <2>2, WalkAssumption DEF TooDeep, Exhausted
    <2>4. QED
      BY <2>1, <2>2, <2>3 DEF Entered, OnChain
  <1>4. stack' = <<Activation(t_function, FALSE)>> /\ all_checker_results' = Copies(t_function, <<>>, FALSE)
    BY <1>3 DEF Start
  <1>5. CASE Len(path) = 0
    <2>1. End(path) = t_function /\ DOMAIN path = {}
      BY <1>2, <1>5 DEF End, At
    <2>2. [j \in DOMAIN path |-> path[j][1]] = <<>> /\ ~ \E j \in DOMAIN path : IsPointer(path[j])
      BY <2>1
    <2>3. ASSUME NEW k \in DOMAIN Results[t_function]
          PROVE  [result |-> Results[t_function][k], call_chain |-> Append(<<>>, InstOf[Results[t_function][k]]),
                  has_function_pointer |-> FALSE] \in Collected'
      BY <1>4 DEF Collected, Copies
    <2>4. ResultsAt(path) =
             {[result |-> Results[t_function][k], call_chain |-> Append(<<>>, InstOf[Results[t_function][k]]),
               has_function_pointer |-> FALSE] : k \in DOMAIN Results[t_function]}
      BY <2>1, <2>2 DEF ResultsAt
    <2>5. ResultsAt(path) \subseteq Collected'
      BY <2>3, <2>4
    <2>6. QED
      BY <1>1, <2>5, SamePaths
  <1>6. CASE Len(path) > 0
    <2>1. 1 \in 1 .. Len(path) /\ 0 \in 0 .. 1 - 1
      BY <1>2, <1>6
    <2>2. path[1] \in all_callee_checker_results /\ Owner[path[1][1]] = t_function
      BY <1>2, <2>1 DEF IsPath, At
    <2>3. PICK frame : frame = Activation(t_function, FALSE)
      OBVIOUS
    <2>4. path[1] \in frame.callees
      BY <2>2, <2>3 DEF Activation
    <2>5. Len(stack') = 1 /\ path[0 + 1] \in stack'[0 + 1].callees
      <3>1. stack' = <<frame>>
        BY <1>4, <2>3
      <3>2. QED
        BY <2>4, <3>1
    <2>6. Awaits(stack', <<>>, path, 0)
      BY <1>6, <2>5 DEF Awaits
    <2>7. Waiting(stack', <<>>, path)
      BY <2>1, <2>5, <2>6 DEF Waiting
    <2>8. QED
      BY <2>7 DEF Waiting, Awaits, Step
  <1>7. QED
    BY <1>2, <1>5, <1>6

\* An activation that returns has tried all its call sites.
LEMMA ReturnMiss == ASSUME WalkInv, MissInv, Return PROVE MissInv'
  <1> DEFINE ch == current_call_chain
             n == Len(ch)
  <1>1. /\ ch \in Seq(Insts) /\ n \in Nat /\ stack # <<>> /\ Len(stack) = n + 1 /\ stack \in Seq(Frame)
        /\ stack' = SubSeq(stack, 1, Len(stack) - 1) /\ current_call_chain' = Popped(ch)
        /\ count_update_checker' = count_update_checker /\ count_update_checker # 0
        /\ all_checker_results' = all_checker_results /\ UNCHANGED inputs
        /\ stack[n + 1].callees = {}
    BY TopFacts DEF WalkInv, TypeOK, Return
  <1>2. Collected' = Collected /\ (Exhausted' <=> Exhausted)
    BY <1>1 DEF Collected, Exhausted
  <1>3. n > 0 => ch # <<>>
    OBVIOUS
  <1> HIDE DEF ch, n
  <1>4. Len(stack') = n /\ \A k \in 1 .. n : stack'[k] = stack[k]
    BY <1>1, SubSeqProperties
  <1>5. \A k \in 1 .. n - 1 : current_call_chain'[k] = ch[k]
    <2>1. CASE n = 0
      BY <2>1
    <2>2. CASE n > 0
      <3> DEFINE m == n - 1
                 chain == SubSeq(ch, 1, m)
      <3>1. m \in Nat /\ m <= n /\ n = Len(ch) /\ current_call_chain' = chain
        BY <1>1, <1>3, <2>2 DEF n, Popped
      <3> HIDE DEF m
      <3>2. Len(chain) = m /\ \A k \in 1 .. m : chain[k] = ch[k]
        BY <1>1, <3>1, SubSeqProperties
      <3>3. QED
        BY <2>2, <3>1, <3>2 DEF m
    <2>3. QED
      BY <1>1, <2>1, <2>2
  <1>6. ASSUME NEW path \in Paths, Waiting(stack, ch, path)
        PROVE  Waiting(stack', current_call_chain', path)
    <2>1. PICK k \in 0 .. Len(stack) - 1 : Awaits(stack, ch, path, k)
      BY <1>6 DEF Waiting
    <2>2. k \in 0 .. n - 1
      <3>1. k # n
        BY <1>1, <2>1 DEF Awaits
      <3>2. QED
        BY <1>1, <3>1
    <2>3. \A j \in 1 .. k : j \in 1 .. n - 1 /\ j + 1 \in 1 .. n
      BY <1>1, <2>2
    <2>4. \A j \in 1 .. k : Step(stack', current_call_chain', j) = Step(stack, ch, j)
      BY <1>4, <1>5, <2>3 DEF Step
    <2>5. k + 1 \in 1 .. n
      BY <1>1, <2>2
    <2>6. Awaits(stack', current_call_chain', path, k)
      BY <1>4, <2>1, <2>4, <2>5 DEF Awaits
    <2>7. QED
      BY <1>4, <2>2, <2>6 DEF Waiting
  <1>7. \A path \in Paths : Waiting(stack, ch, path) => Waiting(stack, current_call_chain, path)'
    BY <1>6 DEF Waiting, Awaits, Step
  <1>8. QED
    BY <1>1, <1>2, <1>7, SamePaths DEF MissInv, ch

\* A path that comes by the callee that is entered ends there or waits there.
LEMMA EnterCalleeMiss ==
    ASSUME WalkInv, MissInv, NEW p \in Turn, EnterCallee(p)
    PROVE  MissInv'
  <1> DEFINE ch == current_call_chain
             flag == in_function_pointer
             n == Len(ch)
             chain == Append(ch, p[1])
             flag2 == flag \/ IsPointer(p)
             frame == Activation(p[2], flag)
             more == Copies(p[2], chain, flag2)
  <1>1. /\ TypeOK /\ UNCHANGED inputs /\ stack # <<>> /\ Spine(stack, ch, flag)
        /\ p[1] \in Insts /\ p[2] \in Functions /\ p = <<p[1], p[2]>>
        /\ count_update_checker # 0
    BY TurnFacts DEF WalkInv, EnterCallee, Sites
  <1>2. /\ count_update_checker' = count_update_checker + 1
        /\ current_call_chain' = chain
        /\ all_checker_results' = all_checker_results \o more
        /\ stack' = Append(Tried(p), frame)
    BY DEF EnterCallee
  <1>3. /\ ch \in Seq(Insts) /\ flag \in BOOLEAN /\ flag2 \in BOOLEAN /\ count_update_checker \in Nat
        /\ n \in Nat /\ Len(stack) = n + 1 /\ stack \in Seq(Frame)
        /\ all_checker_results \in Seq(CheckerResult)
    BY <1>1 DEF TypeOK
  <1>4. /\ chain \in Seq(Insts) /\ Len(chain) = n + 1 /\ chain[n + 1] = p[1]
        /\ \A k \in 1 .. n : chain[k] = ch[k]
    BY <1>1, <1>3
  <1>5. /\ Tried(p) \in Seq(Frame) /\ Len(Tried(p)) = n + 1
        /\ \A k \in 1 .. n + 1 :
              /\ Tried(p)[k].fn = stack[k].fn
              /\ stack[k].callees \ {p} \subseteq Tried(p)[k].callees
              /\ k # n + 1 => stack[k].callees \subseteq Tried(p)[k].callees
    BY <1>1, <1>3, TriedFacts
  <1>6. /\ frame \in Frame /\ frame.fn = p[2]
        /\ frame.callees = {q \in all_callee_checker_results : Owner[q[1]] = p[2]}
    BY <1>1, <1>3, ActivationType DEF Activation
  <1>7. more \in Seq(CheckerResult)
    BY <1>1, <1>3, <1>4, CopiesType
  <1>8. chain = [j \in 1 .. Len(chain) |-> chain[j]]
    BY <1>4
  <1>9. flag2 = (Through(stack, ch, n) \/ IsPointer(p))
    BY <1>1 DEF Spine
  <1>10. more = Copies(p[2], chain, flag2)
    OBVIOUS
  <1> HIDE DEF more
  <1> HIDE DEF ch, flag, n, chain, flag2, frame
  <1>11. /\ Len(stack') = n + 2 /\ stack'[n + 2] = frame
         /\ \A k \in 1 .. n + 1 : stack'[k] = Tried(p)[k]
    BY <1>2, <1>3, <1>5, <1>6
  <1>12. \A j \in 1 .. n : Step(stack', chain, j) = Step(stack, ch, j)
    <2>1. \A j \in 1 .. n : j + 1 \in 1 .. n + 1
      BY <1>3
    <2>2. QED
      BY <1>4, <1>5, <1>11, <2>1 DEF Step
  <1>13. Step(stack', chain, n + 1) = p
    BY <1>1, <1>3, <1>4, <1>6, <1>11 DEF Step
  <1>14. Collected' = Collected \cup {more[k] : k \in DOMAIN more}
    <2> HIDE DEF more
    <2>1. /\ DOMAIN all_checker_results = 1 .. Len(all_checker_results) /\ Len(all_checker_results) \in Nat
          /\ DOMAIN more = 1 .. Len(more) /\ Len(more) \in Nat
      BY <1>3, <1>7
    <2> DEFINE a == Len(all_checker_results)
               b == Len(more)
    <2>2. /\ DOMAIN all_checker_results' = 1 .. a + b
          /\ \A k \in 1 .. a + b :
                all_checker_results'[k] = IF k <= a THEN all_checker_results[k] ELSE more[k - a]
      BY <1>2, <1>3, <1>7
    <2> HIDE DEF a, b
    <2>3. /\ \A k \in 1 .. a + b : (k <= a => k \in 1 .. a) /\ (~ k <= a => k - a \in 1 .. b)
          /\ \A k \in 1 .. a : k \in 1 .. a + b /\ k <= a
          /\ \A k \in 1 .. b : k + a \in 1 .. a + b /\ ~ k + a <= a /\ (k + a) - a = k
      BY <2>1 DEF a, b
    <2>4. Collected' \subseteq Collected \cup {more[k] : k \in DOMAIN more}
      BY <2>1, <2>2, <2>3 DEF Collected, a, b
    <2>5. Collected \subseteq Collected'
      BY <2>1, <2>2, <2>3 DEF Collected, a
    <2>6. {more[k] : k \in DOMAIN more} \subseteq Collected'
      BY <2>1, <2>2, <2>3 DEF Collected, b
    <2>7. QED
      BY <2>4, <2>5, <2>6
  <1>15. ~ Exhausted' => ~ Exhausted
    BY <1>2, <1>3, WalkAssumption DEF Exhausted
  <1> SUFFICES ASSUME ~ Exhausted, NEW path \in Paths
               PROVE  ResultsAt(path) \subseteq Collected' \/ Waiting(stack', chain, path)
    BY <1>1, <1>2, <1>15, SamePaths DEF MissInv, Waiting, Awaits, Step
  <1>16. CASE ResultsAt(path) \subseteq Collected
    BY <1>14, <1>16
  <1>17. ASSUME NEW k \in 0 .. n, Awaits(stack, ch, path, k), k # n \/ path[k + 1] # p
         PROVE  Waiting(stack', chain, path)
    <2>1. k + 1 \in 1 .. n + 1 /\ k \in 0 .. Len(stack') - 1 /\ \A j \in 1 .. k : j \in 1 .. n
      BY <1>3, <1>11
    <2>2. path[k + 1] \in stack'[k + 1].callees
      <3>1. path[k + 1] \in stack[k + 1].callees
        BY <1>17 DEF Awaits
      <3>2. stack'[k + 1] = Tried(p)[k + 1]
        BY <1>11, <2>1
      <3>3. path[k + 1] \in Tried(p)[k + 1].callees
        <4>1. CASE path[k + 1] # p
          BY <1>5, <2>1, <3>1, <4>1
        <4>2. CASE k # n
          <5>1. k + 1 # n + 1
            BY <1>3, <4>2
          <5>2. QED
            BY <1>5, <2>1, <3>1, <5>1
        <4>3. QED
          BY <1>17, <4>1, <4>2
      <3>4. QED
        BY <3>2, <3>3
    <2>3. \A j \in 1 .. k : path[j] = Step(stack', chain, j)
      BY <1>12, <1>17, <2>1 DEF Awaits
    <2>4. QED
      BY <1>17, <2>1, <2>2, <2>3 DEF Waiting, Awaits
  <1>18. ASSUME Awaits(stack, ch, path, n), path[n + 1] = p
         PROVE  ResultsAt(path) \subseteq Collected' \/ Waiting(stack', chain, path)
    <2>1. \A j \in 1 .. n + 1 : path[j] = Step(stack', chain, j)
      <3>1. \A j \in 1 .. n + 1 : j \in 1 .. n \/ j = n + 1
        BY <1>3
      <3>2. QED
        BY <1>12, <1>13, <1>18, <3>1 DEF Awaits
    <2>2. /\ Len(path) \in Nat /\ n + 1 <= Len(path) /\ n + 1 \in 1 .. Len(path) /\ IsPath(path)
          /\ \A j \in 1 .. Len(path) : path[j] \in all_callee_checker_results
      BY <1>3, <1>18, PathFacts DEF Awaits
    <2>3. At(path, n + 1) = p[2]
      BY <1>3, <1>18 DEF At
    <2>4. CASE Len(path) = n + 1
      <3>1. \A j \in 1 .. Len(path) : path[j][1] = chain[j]
        BY <2>1, <2>4 DEF Step
      <3>2. flag2 = (\E j \in 1 .. Len(path) : IsPointer(path[j]))
        <4>1. \A j \in 1 .. n : path[j] = Step(stack, ch, j)
          BY <1>18 DEF Awaits
        <4>2. Through(stack, ch, n) <=> \E j \in 1 .. n : IsPointer(path[j])
          BY <4>1 DEF Through
        <4>3. \A j \in 1 .. n + 1 : j \in 1 .. n \/ j = n + 1
          BY <1>3
        <4>4. \A j \in 1 .. n : j \in 1 .. n + 1
          BY <1>3
        <4>5. (\E j \in 1 .. n + 1 : IsPointer(path[j])) <=> (Through(stack, ch, n) \/ IsPointer(p))
          BY <1>18, <2>2, <2>4, <4>2, <4>3, <4>4
        <4>6. QED
          BY <1>9, <2>4, <4>5
      <3>3. End(path) = p[2]
        BY <2>3, <2>4 DEF End
      <3>4. ResultsAt(path) = {more[k] : k \in DOMAIN more}
        <4> HIDE DEF more
        <4> DEFINE R(k) == [result |-> Results[p[2]][k], call_chain |-> Append(chain, InstOf[Results[p[2]][k]]),
                            has_function_pointer |-> flag2]
        <4>1. DOMAIN path = 1 .. Len(path) /\ Len(chain) = Len(path)
          BY <1>4, <2>4, PathFacts
        <4>2. [j \in DOMAIN path |-> path[j][1]] = chain
          BY <1>8, <3>1, <4>1
        <4>3. (\E j \in DOMAIN path : IsPointer(path[j])) = flag2
          BY <3>2, <4>1
        <4>4. ResultsAt(path) = {R(k) : k \in DOMAIN Results[p[2]]}
          BY <3>3, <4>2, <4>3 DEF ResultsAt
        <4>5. more = [k \in DOMAIN Results[p[2]] |-> R(k)]
          BY <1>10 DEF Copies
        <4>6. QED
          BY ONLY <4>4, <4>5
      <3>5. QED
        BY <1>14, <3>4
    <2>5. CASE Len(path) # n + 1
      <3>1. n + 2 \in 1 .. Len(path) /\ (n + 2) - 1 = n + 1 /\ (n + 1) + 1 = n + 2 /\ n + 1 < Len(path)
        BY <1>3, <2>2, <2>5
      <3>2. Owner[path[n + 2][1]] = p[2] /\ path[n + 2] \in all_callee_checker_results
        BY <2>2, <2>3, <3>1 DEF IsPath
      <3>3. path[(n + 1) + 1] \in stack'[(n + 1) + 1].callees
        BY <1>6, <1>11, <3>1, <3>2
      <3>4. n + 1 \in 0 .. Len(stack') - 1
        BY <1>3, <1>11
      <3>5. Awaits(stack', chain, path, n + 1)
        BY <2>1, <3>1, <3>3 DEF Awaits
      <3>6. QED
        BY <3>4, <3>5 DEF Waiting
    <2>6. QED
      BY <2>4, <2>5
  <1>19. CASE Waiting(stack, ch, path)
    <2>1. PICK k \in 0 .. Len(stack) - 1 : Awaits(stack, ch, path, k)
      BY <1>19 DEF Waiting
    <2>2. k \in 0 .. n
      BY <1>3
    <2>3. QED
      BY <1>17, <1>18, <2>1, <2>2
  <1>20. QED
    BY <1>1, <1>16, <1>19 DEF MissInv, ch

\* Every step keeps MissInv.
LEMMA NextMiss == ASSUME WalkInv, MissInv, [Next]_vars PROVE MissInv'
  <1>1. CASE Start
    BY <1>1, StartMiss
  <1>2. ASSUME NEW p \in Turn, SkipCallee(p)
        PROVE  MissInv'
    BY <1>2, TriedMiss DEF SkipCallee, Exhausted
  <1>3. ASSUME NEW p \in Turn, RefuseCallee(p)
        PROVE  MissInv'
    <2>1. ~ Exhausted' => ~ Exhausted
      BY <1>3, WalkAssumption DEF RefuseCallee, Exhausted, WalkInv, TypeOK
    <2>2. QED
      BY <1>3, <2>1, TriedMiss DEF RefuseCallee
  <1>4. ASSUME NEW p \in Turn, EnterCallee(p)
        PROVE  MissInv'
    BY <1>4, EnterCalleeMiss
  <1>5. CASE Return
    BY <1>5, ReturnMiss
  <1>6. CASE UNCHANGED vars
    <2>1. /\ UNCHANGED inputs /\ stack' = stack /\ current_call_chain' = current_call_chain
          /\ all_checker_results' = all_checker_results
          /\ count_update_checker' = count_update_checker
      BY <1>6 DEF vars, inputs
    <2>2. Collected' = Collected /\ (Exhausted' <=> Exhausted)
      BY <2>1 DEF Collected, Exhausted
    <2>3. \A path : Waiting(stack, current_call_chain, path)' <=> Waiting(stack, current_call_chain, path)
      BY <2>1 DEF Waiting, Awaits, Step
    <2>4. QED
      BY <2>1, <2>2, <2>3, SamePaths DEF MissInv
  <1>7. QED
    BY <1>1, <1>2, <1>3, <1>4, <1>5, <1>6 DEF Next

\* MissInv holds in every reachable state.
LEMMA Miss == Spec => []MissInv
  <1>1. Init => MissInv
    BY DEF Init, MissInv
  <1>2. QED
    BY <1>1, NextMiss, Invariant, PTL DEF Spec

\* What MissInv says at the end.
LEMMA MissEnd == WalkInv /\ MissInv => NothingMissed
  <1> SUFFICES ASSUME WalkInv, MissInv, Done, ~ Exhausted, NEW path \in Paths
               PROVE  ResultsAt(path) \subseteq Collected
    BY DEF NothingMissed, Expected
  <1>1. count_update_checker # 0 /\ Len(stack) = 0
    BY DEF Done, WalkInv, TypeOK
  <1>2. ~ Waiting(stack, current_call_chain, path)
    BY <1>1 DEF Waiting
  <1>3. QED
    BY <1>1, <1>2 DEF MissInv

(***************************************************************************)
(* A walk that ends within its number of calls has collected the results   *)
(* of every path, in whatever order call sites were tried: with            *)
(* NothingSpuriousHolds, what is collected is a function of the inputs.    *)
(***************************************************************************)
THEOREM NothingMissedHolds == Spec => []NothingMissed
  BY MissEnd, Invariant, Miss, PTL
=============================================================================
