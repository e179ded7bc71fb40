------------------------- MODULE ExplorationProofs -------------------------
(***************************************************************************)
(* Proofs about the two walks of an entry: about module FunctionPointerWalk*)
(* for every program, every heap order and every limit, its type invariant,*)
(* that it implements PointerClosure, and that it misses nothing that is   *)
(* sure; then about module Exploration, the walks together.  What was      *)
(* proved of the second walk (EntryWalkProofs) is used here: it is         *)
(* instantiated in the same way as EntryWalk is by Exploration.            *)
(***************************************************************************)
EXTENDS Exploration, SequenceTheorems, NaturalsInduction, WellFoundedInduction, TLAPS

EW == INSTANCE EntryWalkProofs WITH
            PossibleName <- {f \in Functions : NamesIn[f] > 0},
            stack <- activations

-----------------------------------------------------------------------------
(***************************************************************************)
(* Facts about frames and the stack.                                       *)
(***************************************************************************)

\* What FrameOK asks, with the visited functions as a parameter.
Stands(frame, vis) ==
    /\ frame.at <= Len(AllCallee[frame.fn])
    /\ frame.fn \in vis
    /\ frame.todo # {} => frame.at > 0 /\ frame.todo \subseteq Targets(frame.loop, CalleeAt(frame))

\* Both names of one condition.
LEMMA FrameOKIsStands == ASSUME NEW frame PROVE FrameOK(frame) <=> Stands(frame, visited)
  BY DEF FrameOK, Stands

\* An activation of a visited function is a frame, at no callee yet.
LEMMA ActivationStands ==
    ASSUME NEW f \in Functions, NEW vis, f \in vis
    PROVE  Activation(f) \in Frame /\ Stands(Activation(f), vis)
  <1>1. AllCallee[f] \in Seq(Callee)
    BY ProgramAssumption
  <1>2. Len(AllCallee[f]) \in Nat
    BY <1>1
  <1>3. QED
    BY <1>2 DEF Activation, Frame, Stands

\* The frame on top of a stack that is not empty.
LEMMA TopFacts ==
    ASSUME WalkTypeOK, stack # <<>>
    PROVE  /\ Len(stack) \in Nat /\ Len(stack) > 0 /\ Len(stack) \in 1 .. Len(stack)
           /\ Top \in Frame
           /\ Stands(Top, visited)
           /\ AllCallee[Top.fn] \in Seq(Callee)
  <1>1. stack \in Seq(Frame)
    BY DEF WalkTypeOK
  <1>2. Len(stack) \in Nat /\ Len(stack) > 0 /\ Len(stack) \in DOMAIN stack /\ Top \in Frame
    BY <1>1 DEF Top
  <1>3. FrameOK(Top)
    BY <1>2 DEF WalkTypeOK, Top
  <1>4. AllCallee[Top.fn] \in Seq(Callee)
    BY <1>2, ProgramAssumption DEF Frame
  <1>5. QED
    BY <1>1, <1>2, <1>3, <1>4, FrameOKIsStands

\* Another frame on top keeps the stack well formed.
LEMMA WithTopStands ==
    ASSUME WalkTypeOK, stack # <<>>, NEW frame \in Frame, Stands(frame, visited)
    PROVE  /\ WithTop(frame) \in Seq(Frame)
           /\ Len(WithTop(frame)) = Len(stack)
           /\ \A k \in 1 .. Len(stack) : Stands(WithTop(frame)[k], visited)
  <1> DEFINE n == Len(stack)
  <1>1. n \in Nat /\ n \in 1 .. n /\ stack \in Seq(Frame)
    BY TopFacts DEF WalkTypeOK
  <1>2. WithTop(frame) = [stack EXCEPT ![n] = frame]
    BY DEF WithTop
  <1> HIDE DEF n
  <1>3. /\ WithTop(frame) \in Seq(Frame)
        /\ Len(WithTop(frame)) = Len(stack)
        /\ \A k \in 1 .. Len(stack) : WithTop(frame)[k] = IF k = n THEN frame ELSE stack[k]
    BY <1>1, <1>2, ExceptSeq DEF n
  <1>4. \A k \in 1 .. Len(stack) : Stands(stack[k], visited)
    <2>1. \A k \in 1 .. Len(stack) : FrameOK(stack[k])
      BY <1>1 DEF WalkTypeOK
    <2>2. QED
      BY <2>1, FrameOKIsStands
  <1>5. QED
    BY <1>3, <1>4

\* A target in turn comes from the current callee of the function on top.
LEMMA TurnFacts ==
    ASSUME WalkTypeOK, NEW p \in Turn
    PROVE  /\ stack # <<>>
           /\ p \in Top.todo
           /\ p[1] \in Functions
           /\ Top.at \in 1 .. Len(AllCallee[Top.fn])
           /\ CurrentCallee \in Callee
           /\ p \in Targets(Top.loop, CurrentCallee)
  <1>1. stack # <<>> /\ p \in Top.todo
    BY DEF Turn
  <1>2. Top \in Frame /\ Stands(Top, visited) /\ AllCallee[Top.fn] \in Seq(Callee)
    BY <1>1, TopFacts
  <1>3. Top.at \in Nat /\ Top.at > 0 /\ Top.at <= Len(AllCallee[Top.fn])
    BY <1>1, <1>2 DEF Stands, Frame
  <1>4. Top.at \in 1 .. Len(AllCallee[Top.fn])
    BY <1>2, <1>3
  <1>5. CurrentCallee = AllCallee[Top.fn][Top.at] /\ CurrentCallee = CalleeAt(Top)
    BY DEF CurrentCallee, CalleeAt
  <1>6. CurrentCallee \in Callee
    <2> DEFINE callees == AllCallee[Top.fn]
    <2>1. callees \in Seq(Callee) /\ Top.at \in 1 .. Len(callees)
      BY <1>2, <1>4
    <2> HIDE DEF callees
    <2>2. callees[Top.at] \in Callee
      BY <2>1
    <2>3. QED
      BY <2>2, <1>5 DEF callees
  <1>7. p \in Targets(Top.loop, CurrentCallee)
    BY <1>1, <1>2, <1>5 DEF Stands
  <1>8. p[1] \in Functions
    BY <1>1, <1>2 DEF Frame
  <1>9. QED
    BY <1>1, <1>4, <1>6, <1>7, <1>8

\* Crossing off a target leaves the frame on top what it was.
LEMMA TriedStands ==
    ASSUME WalkTypeOK, NEW p \in Turn
    PROVE  /\ Tried(p) \in Seq(Frame)
           /\ Len(Tried(p)) = Len(stack)
           /\ \A k \in 1 .. Len(stack) : Stands(Tried(p)[k], visited)
  <1> DEFINE frame == [Top EXCEPT !.todo = @ \ {p}]
  <1>1. stack # <<>> /\ Top \in Frame /\ Stands(Top, visited)
    BY TurnFacts, TopFacts
  <1>2. /\ frame \in Frame
        /\ frame.fn = Top.fn /\ frame.loop = Top.loop /\ frame.at = Top.at
        /\ frame.todo = Top.todo \ {p}
    BY <1>1 DEF Frame
  <1>3. Tried(p) = WithTop(frame)
    BY DEF Tried
  <1> HIDE DEF frame
  <1>4. Stands(frame, visited)
    BY <1>1, <1>2 DEF Stands, CalleeAt
  <1>5. QED
    BY <1>1, <1>2, <1>3, <1>4, WithTopStands

(***************************************************************************)
(* The type invariant.                                                     *)
(***************************************************************************)

\* The initial state is well typed.
LEMMA InitType == Init => WalkTypeOK
  BY ProgramAssumption DEF Init, WalkTypeOK

\* Targets only ever holds functions.
LEMMA TargetsType ==
    ASSUME NEW loop, NEW ce \in Callee
    PROVE  Targets(loop, ce) \subseteq Functions \X Nat
  <1>1. ce.tf_set \subseteq Functions /\ PointersOf(ce) \subseteq Functions
    BY DEF Callee, PointersOf
  <1>2. \A f \in PointersOf(ce) : {f} \X (1 .. NamesIn[f]) \subseteq Functions \X Nat
    BY <1>1, ProgramAssumption
  <1>3. UNION {{f} \X (1 .. NamesIn[f]) : f \in PointersOf(ce)} \subseteq Functions \X Nat
    BY <1>2
  <1>4. ce.tf_set \X {1} \subseteq Functions \X Nat
    BY <1>1
  <1>5. QED
    BY <1>3, <1>4 DEF Targets

\* The stack alone changes, or the call ends where it was made.
LEMMA StackStays ==
    ASSUME WalkTypeOK,
           UNCHANGED <<inputs, visited>>,
           function_pointers' \subseteq Functions,
           count_function_pointer' \in Nat,
           count_function_pointer' <= MAX_CALLEE_COUNT + 1,
           stack # <<>>,
           count_function_pointer' >= count_function_pointer,
           stack' \in Seq(Frame),
           Len(stack') <= Len(stack),
           \A k \in 1 .. Len(stack') : Stands(stack'[k], visited)
    PROVE  WalkTypeOK'
  <1>1. \A k \in DOMAIN stack' : FrameOK(stack[k])'
    BY DEF FrameOK, Stands
  <1>2. Len(stack') <= MAX_FUNC_DEPTH + 1
    <2>1. Len(stack) \in Nat /\ Len(stack') \in Nat /\ Len(stack) <= MAX_FUNC_DEPTH + 1
      BY DEF WalkTypeOK
    <2>2. QED
      BY <2>1, ProgramAssumption
  <1>3. count_function_pointer' > 0
    BY DEF WalkTypeOK
  <1>4. QED
    BY <1>1, <1>2, <1>3 DEF WalkTypeOK, inputs

\* The stack without its top.
LEMMA PoppedFacts ==
    ASSUME WalkTypeOK, stack # <<>>, stack' = SubSeq(stack, 1, Len(stack) - 1)
    PROVE  /\ stack' \in Seq(Frame)
           /\ Len(stack') = Len(stack) - 1
           /\ \A k \in 1 .. Len(stack') : stack'[k] = stack[k]
  <1> DEFINE m == Len(stack) - 1
  <1>1. m \in Int /\ 1 \in Int /\ m >= 0 /\ \A i \in 1 .. m : stack[i] \in Frame
    BY TopFacts DEF WalkTypeOK
  <1>2. stack' = SubSeq(stack, 1, m)
    OBVIOUS
  <1> HIDE DEF m
  <1>3. /\ SubSeq(stack, 1, m) \in Seq(Frame)
        /\ Len(SubSeq(stack, 1, m)) = IF 1 <= m THEN m - 1 + 1 ELSE 0
        /\ \A i \in 1 .. m - 1 + 1 : SubSeq(stack, 1, m)[i] = stack[1 + i - 1]
    BY <1>1, SubSeqProperties
  <1>4. Len(stack') = m /\ m - 1 + 1 = m
    BY <1>1, <1>2, <1>3
  <1>5. \A i \in 1 .. m : 1 + i - 1 = i
    BY <1>1
  <1>6. QED
    BY <1>2, <1>3, <1>4, <1>5 DEF m

\* Every step keeps the types.
LEMMA NextType == WalkTypeOK /\ [WalkNext]_walkvars => WalkTypeOK'
  <1> SUFFICES ASSUME WalkTypeOK, [WalkNext]_walkvars PROVE WalkTypeOK'
    OBVIOUS
  <1>1. CASE Start
    <2>1. t_function \in Functions /\ inherited \subseteq Functions
      BY ProgramAssumption DEF WalkTypeOK
    <2>2. /\ UNCHANGED inputs
          /\ function_pointers' \subseteq Functions
          /\ count_function_pointer' \in Nat
          /\ count_function_pointer' > 0
          /\ count_function_pointer' <= MAX_CALLEE_COUNT + 1
      BY <1>1, <2>1, ProgramAssumption DEF Start, Inherited
    <2>3. CASE Entered(t_function, <<>>)
      <3> DEFINE a == Activation(t_function)
      <3>1. stack' = <<a>> /\ visited' = {t_function}
        BY <1>1, <2>3 DEF Start
      <3>2. a \in Frame /\ Stands(a, visited')
        BY <2>1, <3>1, ActivationStands
      <3> HIDE DEF a
      <3>3. stack' \in Seq(Frame) /\ Len(stack') = 1 /\ \A k \in DOMAIN stack' : stack'[k] = a
        BY <3>1, <3>2
      <3>4. \A k \in DOMAIN stack' : FrameOK(stack[k])'
        BY <3>2, <3>3 DEF FrameOK, Stands
      <3>5. Len(stack') <= MAX_FUNC_DEPTH + 1
        BY <3>3, ProgramAssumption
      <3>6. QED
        BY <2>1, <2>2, <3>1, <3>3, <3>4, <3>5 DEF WalkTypeOK, inputs
    <2>4. CASE ~ Entered(t_function, <<>>)
      <3>1. UNCHANGED <<stack, visited>>
        BY <1>1, <2>4 DEF Start
      <3>2. QED
        BY <2>2, <3>1 DEF WalkTypeOK, inputs, FrameOK
    <2>5. QED
      BY <2>3, <2>4
  <1>2. CASE NextCallee
    <2> DEFINE ce == AllCallee[Top.fn][Top.at + 1]
               frame == [Top EXCEPT !.at = Top.at + 1, !.todo = Targets(Top.loop, ce)]
    <2>1. /\ stack # <<>> /\ ~ AtLastCallee
          /\ function_pointers' = function_pointers \cup NewPointers(Top.loop, ce)
          /\ stack' = WithTop(frame)
          /\ UNCHANGED <<inputs, count_function_pointer, visited>>
      BY <1>2 DEF NextCallee
    <2>2. Top \in Frame /\ Stands(Top, visited) /\ AllCallee[Top.fn] \in Seq(Callee)
      BY <2>1, TopFacts
    <2>3. Top.at + 1 \in 1 .. Len(AllCallee[Top.fn])
      BY <2>1, <2>2 DEF AtLastCallee, Stands, Frame
    <2>4. ce \in Callee
      <3> DEFINE callees == AllCallee[Top.fn]
      <3>1. callees \in Seq(Callee) /\ Top.at + 1 \in 1 .. Len(callees)
        BY <2>2, <2>3
      <3> HIDE DEF callees
      <3>2. callees[Top.at + 1] \in Callee
        BY <3>1
      <3>3. QED
        BY <3>2 DEF callees
    <2>5. Targets(Top.loop, ce) \subseteq Functions \X Nat
      BY <2>4, TargetsType
    <2>6. /\ frame \in Frame
          /\ frame.fn = Top.fn /\ frame.loop = Top.loop /\ frame.at = Top.at + 1
          /\ frame.todo = Targets(Top.loop, ce)
      <3> DEFINE targets == Targets(Top.loop, ce)
      <3>1. targets \in SUBSET (Functions \X Nat) /\ Top.at + 1 \in Nat
        BY <2>3, <2>5
      <3>2. frame = [Top EXCEPT !.at = Top.at + 1, !.todo = targets]
        OBVIOUS
      <3> HIDE DEF targets, frame
      <3>3. QED
        BY <2>2, <3>1, <3>2 DEF Frame, targets
    <2>7. CalleeAt(frame) = ce
      BY <2>6 DEF CalleeAt
    <2>8. function_pointers' \subseteq Functions
      BY <2>1, <2>4 DEF NewPointers, PointersOf, Callee, WalkTypeOK
    <2> HIDE DEF ce, frame
    <2>9. Stands(frame, visited)
      BY <2>2, <2>3, <2>6, <2>7 DEF Stands
    <2>10. /\ stack' \in Seq(Frame)
           /\ Len(stack') = Len(stack)
           /\ \A k \in 1 .. Len(stack) : Stands(stack'[k], visited)
      BY <2>1, <2>6, <2>9, WithTopStands
    <2>11. Len(stack) \in Nat
      BY DEF WalkTypeOK
    <2>12. /\ count_function_pointer' \in Nat /\ count_function_pointer' <= MAX_CALLEE_COUNT + 1
           /\ count_function_pointer' >= count_function_pointer
      BY <2>1 DEF WalkTypeOK
    <2>13. QED
      BY <2>1, <2>8, <2>10, <2>11, <2>12, StackStays
  <1>3. CASE SecondLoop
    <2> DEFINE frame == [Top EXCEPT !.loop = 2, !.at = 0]
    <2>1. /\ stack # <<>> /\ Top.todo = {}
          /\ stack' = WithTop(frame)
          /\ UNCHANGED <<inputs, function_pointers, count_function_pointer, visited>>
      BY <1>3 DEF SecondLoop
    <2>2. Top \in Frame /\ Stands(Top, visited) /\ Len(AllCallee[Top.fn]) \in Nat
      BY <2>1, TopFacts
    <2>3. frame \in Frame /\ frame.fn = Top.fn /\ frame.at = 0 /\ frame.todo = {}
      BY <2>1, <2>2 DEF Frame
    <2> HIDE DEF frame
    <2>4. Stands(frame, visited)
      BY <2>2, <2>3 DEF Stands
    <2>5. /\ stack' \in Seq(Frame)
          /\ Len(stack') = Len(stack)
          /\ \A k \in 1 .. Len(stack) : Stands(stack'[k], visited)
      BY <2>1, <2>3, <2>4, WithTopStands
    <2>6. QED
      BY <2>1, <2>5, StackStays DEF WalkTypeOK
  <1>4. ASSUME NEW p \in Turn, SkipTarget(p) PROVE WalkTypeOK'
    <2>1. Len(stack) \in Nat /\ count_function_pointer \in Nat /\ stack # <<>>
      BY TurnFacts DEF WalkTypeOK
    <2>2. QED
      BY <1>4, <2>1, TriedStands, StackStays DEF SkipTarget, WalkTypeOK
  <1>5. ASSUME NEW p \in Turn, RefuseTarget(p) PROVE WalkTypeOK'
    <2>1. /\ count_function_pointer' \in Nat /\ count_function_pointer' <= MAX_CALLEE_COUNT + 1
          /\ count_function_pointer' >= count_function_pointer
      BY <1>5, ProgramAssumption DEF RefuseTarget, Exhausted, WalkTypeOK
    <2>2. Len(stack) \in Nat /\ stack # <<>>
      BY TurnFacts DEF WalkTypeOK
    <2>3. QED
      BY <1>5, <2>1, <2>2, TriedStands, StackStays DEF RefuseTarget, WalkTypeOK
  <1>6. ASSUME NEW p \in Turn, EnterTarget(p) PROVE WalkTypeOK'
    <2> DEFINE a == Activation(p[1])
    <2>1. /\ stack' = Append(Tried(p), a)
          /\ count_function_pointer' = count_function_pointer + 1
          /\ visited' = visited \cup {p[1]}
          /\ UNCHANGED <<inputs, function_pointers>>
          /\ Entered(p[1], stack)
      BY <1>6 DEF EnterTarget
    <2>2. p[1] \in Functions
      BY TurnFacts
    <2>3. a \in Frame /\ Stands(a, visited')
      BY <2>1, <2>2, ActivationStands
    <2>4. /\ Tried(p) \in Seq(Frame)
          /\ Len(Tried(p)) = Len(stack)
          /\ \A k \in 1 .. Len(stack) : Stands(Tried(p)[k], visited')
      <3>1. \A k \in 1 .. Len(stack) : Stands(Tried(p)[k], visited)
        BY TriedStands
      <3>2. \A k \in 1 .. Len(stack) : Stands(Tried(p)[k], visited')
        BY <3>1, <2>1 DEF Stands
      <3>3. QED
        BY <3>2, TriedStands
    <2> HIDE DEF a
    <2>5. Len(stack) \in Nat /\ Len(stack) <= MAX_FUNC_DEPTH
      BY <2>1, ProgramAssumption DEF Entered, TooDeep, WalkTypeOK
    <2>6. /\ stack' \in Seq(Frame)
          /\ Len(stack') = Len(stack) + 1
          /\ \A k \in 1 .. Len(stack') : stack'[k] = IF k = Len(stack) + 1 THEN a ELSE Tried(p)[k]
      BY <2>1, <2>3, <2>4, <2>5
    <2>7. \A k \in 1 .. Len(stack') : Stands(stack'[k], visited')
      BY <2>3, <2>4, <2>5, <2>6
    <2>8. \A k \in DOMAIN stack' : FrameOK(stack[k])'
      BY <2>6, <2>7 DEF FrameOK, Stands
    <2>9. Len(stack') <= MAX_FUNC_DEPTH + 1
      BY <2>5, <2>6, ProgramAssumption
    <2>10. /\ count_function_pointer' \in Nat /\ count_function_pointer' <= MAX_CALLEE_COUNT + 1
           /\ count_function_pointer' > 0
      BY <2>1, ProgramAssumption DEF Entered, Exhausted, WalkTypeOK
    <2>11. QED
      BY <2>1, <2>2, <2>6, <2>8, <2>9, <2>10 DEF WalkTypeOK, inputs
  <1>7. CASE Return
    <2>1. /\ stack # <<>>
          /\ stack' = SubSeq(stack, 1, Len(stack) - 1)
          /\ UNCHANGED <<inputs, function_pointers, count_function_pointer, visited>>
      BY <1>7 DEF Return
    <2>2. stack \in Seq(Frame) /\ Len(stack) \in Nat /\ Len(stack) > 0
      BY <2>1, TopFacts DEF WalkTypeOK
    <2>3. /\ stack' \in Seq(Frame)
          /\ Len(stack') = Len(stack) - 1
          /\ \A k \in 1 .. Len(stack') : stack'[k] = stack[k]
      BY <2>1, PoppedFacts
    <2>4. \A k \in 1 .. Len(stack) : Stands(stack[k], visited)
      <3>1. \A k \in 1 .. Len(stack) : FrameOK(stack[k])
        BY <2>2 DEF WalkTypeOK
      <3>2. QED
        BY <3>1, FrameOKIsStands
    <2>5. \A k \in 1 .. Len(stack') : Stands(stack'[k], visited)
      BY <2>2, <2>3, <2>4
    <2>6. Len(stack') <= Len(stack)
      BY <2>2, <2>3
    <2>7. QED
      BY <2>1, <2>3, <2>5, <2>6, StackStays DEF WalkTypeOK
  <1>8. CASE UNCHANGED walkvars
    BY <1>8 DEF WalkTypeOK, walkvars, FrameOK
  <1>9. QED
    BY <1>1, <1>2, <1>3, <1>4, <1>5, <1>6, <1>7, <1>8 DEF WalkNext

(***************************************************************************)
(* The state of the walk is well typed: recursion and calls keep to their  *)
(* limits, and every activation is at a callee of a function it entered.   *)
(***************************************************************************)
THEOREM WalkTypeCorrect == Spec => []WalkTypeOK
  <1>1. QED
    BY InitType, NextType, PTL DEF Spec

(***************************************************************************)
(* The refinement.                                                         *)
(***************************************************************************)

\* The pointers as PointerClosure sees them: before the walk, those of the parent.
Pointers == IF count_function_pointer = 0 THEN inherited ELSE function_pointers

\* The walk starts as the closure does.
LEMMA InitRefines == Init => PC!Init
  <1> SUFFICES ASSUME Init PROVE PC!Init
    OBVIOUS
  <1>1. t_function \in Functions /\ inherited \subseteq Functions
    BY ProgramAssumption DEF Init
  <1>2. QED
    BY <1>1 DEF Init, PC!Init

\* What a callee passes on is passed by its function.
LEMMA CalleeFacts ==
    ASSUME NEW f \in Functions, NEW n \in 1 .. Len(AllCallee[f])
    PROVE  /\ AllCallee[f][n] \in Callees(f)
           /\ PointersOf(AllCallee[f][n]) \subseteq PassedBy(f)
  <1>1. AllCallee[f] \in Seq(Callee)
    BY ProgramAssumption
  <1>2. AllCallee[f][n] \in Callees(f)
    BY <1>1 DEF Callees
  <1>3. QED
    BY <1>2 DEF PassedBy

\* A target in turn that is followed is called for certain, or indirectly and known.
LEMMA FollowedFacts ==
    ASSUME WalkTypeOK, NEW p \in Turn, Followed(p)
    PROVE  \/ p[1] \in CertainOf(Top.fn)
           \/ p[1] \in IndirectOf(Top.fn) /\ p[1] \in function_pointers
  <1> DEFINE ce == CurrentCallee
             f  == Top.fn
  <1>1. /\ p[1] \in Functions /\ ce \in Callee /\ p \in Targets(Top.loop, ce)
        /\ Top.at \in 1 .. Len(AllCallee[f])
    BY TurnFacts
  <1>2. f \in Functions
    BY TurnFacts, TopFacts DEF Frame
  <1>3. ce \in Callees(f) /\ PointersOf(ce) \subseteq PassedBy(f)
    BY <1>1, <1>2, CalleeFacts DEF CurrentCallee, CalleeAt
  <1>4. ce.ct = "callee_indirect" => p[1] \in function_pointers
    BY DEF Followed, Collected
  <1>5. ce.ct \in Kinds
    BY <1>1 DEF Callee
  <1> HIDE DEF ce, f
  <1>6. CASE Top.loop = 2
    <2>1. p \in UNION {{g} \X (1 .. NamesIn[g]) : g \in PointersOf(ce)}
      BY <1>1, <1>6 DEF Targets
    <2>2. PICK g \in PointersOf(ce) : p \in {g} \X (1 .. NamesIn[g])
      BY <2>1
    <2>3. p[1] = g /\ p[2] \in 1 .. NamesIn[g]
      BY <2>2
    <2>4. NamesIn[g] \in Nat
      BY <1>1, <2>3, ProgramAssumption
    <2>5. NamesIn[g] > 0
      BY <2>3, <2>4
    <2>6. p[1] \in NamedOf(f)
      BY <1>3, <2>2, <2>3, <2>5 DEF NamedOf
    <2>7. p[1] \in CertainOf(f)
      BY <2>6 DEF CertainOf
    <2>8. QED
      BY <2>7 DEF f
  <1>7. CASE Top.loop # 2
    <2>1. /\ ce.ct = "callee_indirect" \/ (ce.ct = "callee_not_isDeclaration" /\ ~ ce.checked)
          /\ p \in ce.tf_set \X {1}
      BY <1>1, <1>7 DEF Targets
    <2>2. p[1] \in ce.tf_set
      BY <2>1
    <2>3. CASE ce.ct = "callee_indirect"
      <3>1. p[1] \in IndirectOf(f)
        BY <1>3, <2>2, <2>3 DEF IndirectOf, Of
      <3>2. QED
        BY <1>4, <2>3, <3>1 DEF f
    <2>4. CASE ce.ct = "callee_not_isDeclaration"
      <3>1. p[1] \in DirectOf(f)
        BY <1>3, <2>1, <2>2, <2>4 DEF DirectOf, Of
      <3>2. QED
        BY <3>1 DEF CertainOf, f
    <2>5. QED
      BY <1>5, <2>1, <2>3, <2>4 DEF Kinds
  <1>8. QED
    BY <1>6, <1>7

\* Every step is a step of the closure, or none.
LEMMA NextRefines == WalkTypeOK /\ WalkTypeOK' /\ [WalkNext]_walkvars => [PC!Next]_(PC!absvars)
  <1> SUFFICES ASSUME WalkTypeOK, WalkTypeOK', [WalkNext]_walkvars
               PROVE  [PC!Next]_(PC!absvars)
    OBVIOUS
  <1>1. count_function_pointer \in Nat /\ (stack # <<>> => count_function_pointer > 0)
    BY DEF WalkTypeOK
  <1>2. CASE Start
    <2>1. Pointers' = Pointers /\ UNCHANGED t_function /\ visited = {}
      BY <1>2 DEF Start, Inherited, Pointers, inputs, WalkTypeOK
    <2>2. CASE Entered(t_function, <<>>)
      <3>1. visited' = visited \cup {t_function}
        BY <1>2, <2>1, <2>2 DEF Start
      <3>2. PC!Visit(t_function)
        BY <2>1, <3>1 DEF PC!Visit, Pointers
      <3>3. t_function \in Functions
        BY ProgramAssumption DEF WalkTypeOK
      <3>4. QED
        BY <3>2, <3>3 DEF PC!Next
    <2>3. CASE ~ Entered(t_function, <<>>)
      <3>1. UNCHANGED visited
        BY <1>2, <2>3 DEF Start
      <3>2. QED
        BY <2>1, <3>1 DEF PC!absvars, Pointers
    <2>4. QED
      BY <2>2, <2>3
  <1>3. CASE NextCallee
    <2> DEFINE f  == Top.fn
               ce == AllCallee[f][Top.at + 1]
               more == NewPointers(Top.loop, ce)
    <2>1. /\ stack # <<>> /\ ~ AtLastCallee
          /\ function_pointers' = function_pointers \cup more
          /\ UNCHANGED <<t_function, count_function_pointer, visited>>
      BY <1>3 DEF NextCallee, inputs
    <2>2. f \in Functions /\ f \in visited /\ Top.at + 1 \in 1 .. Len(AllCallee[f])
      BY <2>1, TopFacts DEF AtLastCallee, Stands, Frame
    <2>3. more \in SUBSET PassedBy(f)
      BY <2>2, CalleeFacts DEF NewPointers
    <2>4. Pointers' = Pointers \cup more
      BY <1>1, <2>1 DEF Pointers
    <2> HIDE DEF f, more
    <2>5. PC!Collect(f)
      BY <2>1, <2>2, <2>3, <2>4 DEF PC!Collect, Pointers
    <2>6. QED
      BY <2>2, <2>5 DEF PC!Next
  <1>4. ASSUME NEW p \in Turn, EnterTarget(p) PROVE PC!Next
    <2>1. /\ visited' = visited \cup {p[1]}
          /\ count_function_pointer' = count_function_pointer + 1
          /\ UNCHANGED <<t_function, function_pointers>>
          /\ Followed(p)
      BY <1>4 DEF EnterTarget, inputs
    <2>2. stack # <<>> /\ p[1] \in Functions
      BY TurnFacts
    <2>3. Top.fn \in Functions /\ Top.fn \in visited
      BY <2>2, TopFacts DEF Frame, Stands
    <2>4. Pointers = function_pointers /\ Pointers' = Pointers
      BY <1>1, <2>1, <2>2 DEF Pointers
    <2>5. \/ p[1] \in CertainOf(Top.fn)
          \/ p[1] \in IndirectOf(Top.fn) /\ p[1] \in Pointers
      BY <2>1, <2>4, FollowedFacts
    <2>6. PC!Visit(p[1])
      BY <2>1, <2>3, <2>4, <2>5 DEF PC!Visit, Pointers
    <2>7. QED
      BY <2>2, <2>6 DEF PC!Next
  <1>5. ASSUME UNCHANGED <<t_function, function_pointers, visited>>, inherited' = inherited,
               count_function_pointer > 0, count_function_pointer' > 0
        PROVE  UNCHANGED PC!absvars
    BY <1>1, <1>5 DEF PC!absvars
  <1>6. CASE SecondLoop \/ Return
    BY <1>1, <1>5, <1>6 DEF SecondLoop, Return, inputs
  <1>7. ASSUME NEW p \in Turn, SkipTarget(p) \/ RefuseTarget(p) PROVE UNCHANGED PC!absvars
    <2>1. stack # <<>>
      BY TurnFacts
    <2>2. UNCHANGED <<t_function, inherited, function_pointers, visited>>
      BY <1>7 DEF SkipTarget, RefuseTarget, inputs
    <2>3. count_function_pointer' = count_function_pointer \/ count_function_pointer' = count_function_pointer + 1
      BY <1>7 DEF SkipTarget, RefuseTarget
    <2>4. QED
      BY <1>1, <1>5, <2>1, <2>2, <2>3
  <1>8. CASE UNCHANGED walkvars
    BY <1>8 DEF walkvars, PC!absvars
  <1>9. QED
    BY <1>2, <1>3, <1>4, <1>6, <1>7, <1>8 DEF WalkNext

(***************************************************************************)
(* The walk implements PointerClosure: nothing is entered and nothing is   *)
(* collected that does not follow from the calls of the program, whatever  *)
(* the order and wherever the limits cut it.                               *)
(***************************************************************************)
THEOREM WalkImplementsPointerClosure == Spec => ImplementsPointerClosure
  <1>1. QED
    BY InitRefines, NextRefines, WalkTypeCorrect, PTL DEF Spec, ImplementsPointerClosure, PC!Spec

(***************************************************************************)
(* What is sure to be collected.                                           *)
(***************************************************************************)

\* The functions a function is sure to lead to.
SureStep(f) == CertainOf(f) \cup KnownTargetsOf(f)

\* A sequence of m sure calls from the entry.
SureCalls(p, m) ==
    /\ p \in [0 .. m -> Functions]
    /\ p[0] = t_function
    /\ \A i \in 0 .. m : p[i] \notin SkippedFunctions
    /\ \A i \in 1 .. m : p[i] \in SureStep(p[i - 1])

\* What at most n sure calls lead to.
SureWithin(n) ==
    {f \in Functions : \E m \in 0 .. n : \E p \in [0 .. m -> Functions] : SureCalls(p, m) /\ p[m] = f}

\* The callees of a function are functions.
LEMMA SureStepType == ASSUME NEW f \in Functions PROVE SureStep(f) \subseteq Functions
  <1> DEFINE callees == AllCallee[f]
  <1>1. callees \in Seq(Callee) /\ Callees(f) = {callees[k] : k \in DOMAIN callees}
    BY ProgramAssumption DEF Callees
  <1> HIDE DEF callees
  <1>2. \A ce \in Callees(f) : ce \in Callee
    BY <1>1
  <1>3. \A ce \in Callees(f) : ce.tf_set \subseteq Functions
    BY <1>2 DEF Callee
  <1>4. QED
    BY <1>3 DEF SureStep, CertainOf, DirectOf, NamedOf, PassedBy, PointersOf, KnownTargetsOf, IndirectOf, Of

\* Without a call there is the entry alone.
LEMMA SureWithinNone ==
    ASSUME WalkTypeOK
    PROVE  SureWithin(0) = {t_function} \ SkippedFunctions
  <1>1. t_function \in Functions
    BY ProgramAssumption DEF WalkTypeOK
  <1>2. ASSUME NEW f \in SureWithin(0) PROVE f \in {t_function} \ SkippedFunctions
    BY <1>2 DEF SureWithin, SureCalls
  <1>3. ASSUME t_function \notin SkippedFunctions PROVE t_function \in SureWithin(0)
    <2> DEFINE p == [i \in 0 .. 0 |-> t_function]
    <2>1. SureCalls(p, 0) /\ p[0] = t_function /\ p \in [0 .. 0 -> Functions]
      BY <1>1, <1>3 DEF SureCalls
    <2>2. QED
      BY <1>1, <2>1 DEF SureWithin
  <1>4. QED
    BY <1>2, <1>3

\* What one call more leads to.
LEMMA SureStepFrom ==
    ASSUME NEW S, NEW g
    PROVE  g \in UNION {SureStep(f) : f \in S} <=> \E f \in S : g \in SureStep(f)
  OBVIOUS

\* One call more.
LEMMA SureWithinMore ==
    ASSUME WalkTypeOK, NEW n \in Nat, n # 0
    PROVE  SureWithin(n) =
           SureWithin(n - 1) \cup ((UNION {SureStep(f) : f \in SureWithin(n - 1)}) \ SkippedFunctions)
  <1> DEFINE more == UNION {SureStep(f) : f \in SureWithin(n - 1)}
  <1>0. \A g : g \in more <=> \E f \in SureWithin(n - 1) : g \in SureStep(f)
    BY SureStepFrom
  <1> HIDE DEF more
  <1>1. ASSUME NEW f \in SureWithin(n)
        PROVE  f \in SureWithin(n - 1) \cup (more \ SkippedFunctions)
    <2>0. PICK m \in 0 .. n : \E p \in [0 .. m -> Functions] : SureCalls(p, m) /\ p[m] = f
      BY <1>1 DEF SureWithin
    <2>1. PICK p \in [0 .. m -> Functions] : SureCalls(p, m) /\ p[m] = f
      BY <2>0
    <2>2. CASE m <= n - 1
      BY <2>1, <2>2, <1>1 DEF SureWithin
    <2>3. CASE m = n
      <3> DEFINE q == [i \in 0 .. n - 1 |-> p[i]]
      <3>1. q \in [0 .. n - 1 -> Functions] /\ \A i \in 0 .. n - 1 : q[i] = p[i]
        BY <2>1, <2>3
      <3> HIDE DEF q
      <3>2. SureCalls(q, n - 1)
        BY <2>1, <2>3, <3>1 DEF SureCalls
      <3>3. q[n - 1] \in SureWithin(n - 1)
        BY <3>1, <3>2 DEF SureWithin
      <3>4. f \in SureStep(q[n - 1]) /\ f \notin SkippedFunctions
        BY <2>1, <2>3, <3>1 DEF SureCalls
      <3>5. QED
        BY <1>0, <3>3, <3>4
    <2>4. QED
      BY <2>2, <2>3
  <1>2. ASSUME NEW f \in SureWithin(n - 1) PROVE f \in SureWithin(n)
    BY <1>2 DEF SureWithin
  <1>3. ASSUME NEW f \in SureWithin(n - 1), NEW g \in SureStep(f), g \notin SkippedFunctions
        PROVE  g \in SureWithin(n)
    <2>0. PICK m \in 0 .. n - 1 : \E p \in [0 .. m -> Functions] : SureCalls(p, m) /\ p[m] = f
      BY <1>3 DEF SureWithin
    <2>1. PICK p \in [0 .. m -> Functions] : SureCalls(p, m) /\ p[m] = f
      BY <2>0
    <2>2. g \in Functions
      BY <1>3, SureStepType DEF SureWithin
    <2> DEFINE q == [i \in 0 .. m + 1 |-> IF i = m + 1 THEN g ELSE p[i]]
    <2>3. /\ q \in [0 .. m + 1 -> Functions] /\ q[m + 1] = g
          /\ \A i \in 0 .. m : q[i] = p[i]
      BY <2>1, <2>2
    <2> HIDE DEF q
    <2>4. SureCalls(q, m + 1)
      BY <1>3, <2>1, <2>3 DEF SureCalls
    <2>5. m + 1 \in 0 .. n
      BY <2>1
    <2>6. QED
      BY <2>2, <2>3, <2>4, <2>5 DEF SureWithin
  <1>4. SureWithin(n) = SureWithin(n - 1) \cup (more \ SkippedFunctions)
    BY <1>0, <1>1, <1>2, <1>3
  <1>5. QED
    BY <1>4 DEF more

\* The recursive definition has a solution, and is what it says.
LEMMA SureFunctionsReached ==
    ASSUME WalkTypeOK
    PROVE  \E reach :
              /\ SureFunctions = reach[MAX_FUNC_DEPTH]
              /\ reach[0] = {t_function} \ SkippedFunctions
              /\ \A n \in Nat \ {0} : reach[n] =
                    reach[n - 1] \cup ((UNION {SureStep(f) : f \in reach[n - 1]}) \ SkippedFunctions)
  <1> DEFINE Equation(r) ==
                r = [n \in Nat |->
                       IF n = 0 THEN {t_function} \ SkippedFunctions
                       ELSE r[n - 1] \cup ((UNION {SureStep(f) : f \in r[n - 1]}) \ SkippedFunctions)]
             within == [n \in Nat |-> SureWithin(n)]
  <1>1. Equation(within)
    <2>1. \A n \in Nat : within[n] = SureWithin(n)
      OBVIOUS
    <2>2. \A n \in Nat : n # 0 => n - 1 \in Nat
      OBVIOUS
    <2>3. \A n \in Nat : within[n] =
             IF n = 0 THEN {t_function} \ SkippedFunctions
             ELSE within[n - 1] \cup ((UNION {SureStep(f) : f \in within[n - 1]}) \ SkippedFunctions)
      <3> TAKE n \in Nat
      <3> HIDE DEF within
      <3>1. CASE n = 0
        BY <2>1, <3>1, SureWithinNone
      <3>2. CASE n # 0
        BY <2>1, <2>2, <3>2, SureWithinMore
      <3>3. QED
        BY <3>1, <3>2
    <2>4. QED
      BY <2>3
  <1>2. Equation(CHOOSE r : Equation(r))
    BY <1>1
  <1>3. SureFunctions = (CHOOSE r : Equation(r))[MAX_FUNC_DEPTH]
    BY DEF SureFunctions, Within, SureStep
  <1> DEFINE reach == CHOOSE r : Equation(r)
  <1>4. Equation(reach) /\ SureFunctions = reach[MAX_FUNC_DEPTH]
    BY <1>2, <1>3
  <1> HIDE DEF reach
  <1>5. /\ reach[0] = {t_function} \ SkippedFunctions
        /\ \A n \in Nat \ {0} : reach[n] =
              reach[n - 1] \cup ((UNION {SureStep(f) : f \in reach[n - 1]}) \ SkippedFunctions)
    BY <1>4
  <1>6. QED
    BY <1>4, <1>5

\* The sure targets of the j-th callee of f in the first loop, with the pointers of
\* the parent, and those of the second loop.
SureAt(inh, f, j) ==
    LET ce == AllCallee[f][j] IN
    {g \in ce.tf_set :
        \/ ce.ct = "callee_not_isDeclaration" /\ ~ ce.checked
        \/ /\ ce.ct = "callee_indirect"
           /\ g \in inh \/ \E i \in 1 .. j - 1 : g \in PointersOf(AllCallee[f][i])}

NamedAt(f, j) == {g \in PointersOf(AllCallee[f][j]) : NamesIn[g] > 0}

\* The call of g by an activation that is the k-th on the stack needs no more: W are
\* the functions that have been walked to the end, with their place on the stack.
Given(W, k, g) == g \in SkippedFunctions \/ k > MAX_FUNC_DEPTH \/ <<g, k + 1>> \in W

\* A function that was walked to the end as the k-th on the stack.
FunctionCovered(W, fp, inh, f, k) ==
    \A j \in 1 .. Len(AllCallee[f]) :
        /\ PointersOf(AllCallee[f][j]) \subseteq fp
        /\ \A g \in SureAt(inh, f, j) \cup NamedAt(f, j) : Given(W, k, g)

\* An activation that is the k-th on the stack, up being what is entered from it.
FrameCovered(W, fp, inh, frame, k, up) ==
    \A j \in 1 .. Len(AllCallee[frame.fn]) :
        /\ frame.loop = 2 \/ j <= frame.at =>
              /\ PointersOf(AllCallee[frame.fn][j]) \subseteq fp
              /\ \A g \in SureAt(inh, frame.fn, j) :
                    \/ Given(W, k, g)
                    \/ g \in up
                    \/ frame.loop = 1 /\ j = frame.at /\ <<g, 1>> \in frame.todo
        /\ frame.loop = 2 /\ j <= frame.at =>
              \A g \in NamedAt(frame.fn, j) :
                  \/ Given(W, k, g)
                  \/ g \in up
                  \/ j = frame.at /\ \E n \in Nat : <<g, n>> \in frame.todo

NextUp(frames, k) == IF k < Len(frames) THEN {frames[k + 1].fn} ELSE {}

WalkedCovered(W, fp, inh, vis) ==
    \A f \in Functions, k \in Nat :
        <<f, k>> \in W => f \in vis /\ FunctionCovered(W, fp, inh, f, k)

StackCovered(W, fp, inh, frames) ==
    \A k \in 1 .. Len(frames) : FrameCovered(W, fp, inh, frames[k], k, NextUp(frames, k))

Covered(W, fp, inh, vis, frames, root) ==
    /\ WalkedCovered(W, fp, inh, vis)
    /\ StackCovered(W, fp, inh, frames)
    /\ Given(W, 0, root) \/ root \in NextUp(frames, 0)

\* While the number of calls has not run out, whatever the walk has left behind is
\* covered by it, or will be by what is on the stack.
SureInv ==
    count_function_pointer > 0 /\ ~ Exhausted =>
        /\ inherited \subseteq function_pointers
        /\ \E W \in SUBSET (Functions \X Nat) :
              Covered(W, function_pointers, inherited, visited, stack, t_function)

\* More that has been walked and collected covers what less does.
LEMMA CoveredByMore ==
    ASSUME NEW W, NEW V, W \subseteq V, NEW fp, NEW gp, fp \subseteq gp, NEW inh,
           NEW frame, NEW k, NEW up, NEW above, \A g \in up : g \in above \/ Given(V, k, g),
           FrameCovered(W, fp, inh, frame, k, up)
    PROVE  FrameCovered(V, gp, inh, frame, k, above)
  <1>1. \A g : Given(W, k, g) => Given(V, k, g)
    BY DEF Given
  <1>2. QED
    BY <1>1 DEF FrameCovered

\* The same for functions.
LEMMA FunctionCoveredByMore ==
    ASSUME NEW W, NEW V, W \subseteq V, NEW fp, NEW gp, fp \subseteq gp, NEW inh,
           NEW f, NEW k, FunctionCovered(W, fp, inh, f, k)
    PROVE  FunctionCovered(V, gp, inh, f, k)
  <1>1. \A g : Given(W, k, g) => Given(V, k, g)
    BY DEF Given
  <1>2. QED
    BY <1>1 DEF FunctionCovered

\* A step that replaces the frame on top by one of the same function.
LEMMA TopChanges ==
    ASSUME WalkTypeOK, stack # <<>>,
           NEW W \in SUBSET (Functions \X Nat),
           Covered(W, function_pointers, inherited, visited, stack, t_function),
           NEW fp, function_pointers \subseteq fp,
           NEW frame \in Frame, frame.fn = Top.fn, Stands(frame, visited),
           FrameCovered(W, fp, inherited, frame, Len(stack), {})
    PROVE  Covered(W, fp, inherited, visited, WithTop(frame), t_function)
  <1> DEFINE n == Len(stack)
             frames == WithTop(frame)
  <1>1. n \in Nat /\ n > 0 /\ n \in 1 .. n /\ Len(frames) = n
    BY TopFacts, WithTopStands
  <1>2. \A k \in 1 .. n : frames[k] = IF k = n THEN frame ELSE stack[k]
    <2>1. stack \in Seq(Frame) /\ WithTop(frame) = [stack EXCEPT ![n] = frame]
      BY DEF WithTop, WalkTypeOK
    <2> HIDE DEF n
    <2>2. QED
      BY <1>1, <2>1, ExceptSeq
  <1>3. \A k \in 1 .. n : frames[k].fn = stack[k].fn
    BY <1>2 DEF Top
  <1> HIDE DEF n, frames
  <1>4. \A k \in 0 .. n : NextUp(frames, k) = NextUp(stack, k)
    <2> TAKE k \in 0 .. n
    <2>1. k < n => k + 1 \in 1 .. n
      BY <1>1
    <2>2. k < n => frames[k + 1].fn = stack[k + 1].fn
      BY <1>3, <2>1
    <2>3. n = Len(stack) /\ n = Len(frames)
      BY <1>1 DEF n
    <2>4. QED
      BY <2>2, <2>3 DEF NextUp
  <1>5. ASSUME NEW f \in Functions, NEW k \in Nat, <<f, k>> \in W
        PROVE  f \in visited /\ FunctionCovered(W, fp, inherited, f, k)
    BY <1>5, FunctionCoveredByMore DEF Covered, WalkedCovered
  <1>6. ASSUME NEW k \in 1 .. n
        PROVE  FrameCovered(W, fp, inherited, frames[k], k, NextUp(frames, k))
    <2>1. CASE k = n
      <3>1. NextUp(frames, k) = {} /\ frames[k] = frame
        BY <1>1, <1>2, <2>1 DEF NextUp
      <3>2. QED
        BY <2>1, <3>1 DEF n
    <2>2. CASE k # n
      <3>1. frames[k] = stack[k] /\ NextUp(frames, k) = NextUp(stack, k)
        BY <1>2, <1>4, <2>2
      <3>2. FrameCovered(W, function_pointers, inherited, stack[k], k, NextUp(stack, k))
        BY DEF Covered, StackCovered, n
      <3>3. QED
        BY <3>1, <3>2, CoveredByMore
    <2>3. QED
      BY <2>1, <2>2
  <1>7. Given(W, 0, t_function) \/ t_function \in NextUp(frames, 0)
    BY <1>1, <1>4 DEF Covered
  <1>8. QED
    BY <1>1, <1>5, <1>6, <1>7 DEF Covered, WalkedCovered, StackCovered, frames

\* The activation on top has entered nothing that has not returned.
LEMMA TopIsCovered ==
    ASSUME WalkTypeOK, stack # <<>>, NEW W, NEW fp, NEW inh, StackCovered(W, fp, inh, stack)
    PROVE  FrameCovered(W, fp, inh, Top, Len(stack), {})
  <1>1. Len(stack) \in Nat /\ Len(stack) \in 1 .. Len(stack)
    BY TopFacts
  <1>2. NextUp(stack, Len(stack)) = {}
    BY <1>1 DEF NextUp
  <1>3. FrameCovered(W, fp, inh, stack[Len(stack)], Len(stack), NextUp(stack, Len(stack)))
    BY <1>1 DEF StackCovered
  <1>4. QED
    BY <1>2, <1>3 DEF Top

\* A target that is crossed off was not sure, or needs no more, or is entered.
LEMMA CrossedOff ==
    ASSUME WalkTypeOK, NEW p \in Turn, NEW W, NEW inh, inh \subseteq function_pointers,
           FrameCovered(W, function_pointers, inh, Top, Len(stack), {}),
           NEW up, ~ Followed(p) \/ Given(W, Len(stack), p[1]) \/ p[1] \in up,
           NEW frame, frame = [Top EXCEPT !.todo = @ \ {p}]
    PROVE  FrameCovered(W, function_pointers, inh, frame, Len(stack), up)
  <1> DEFINE f == Top.fn
             n == Len(stack)
             ce == CurrentCallee
  <1>1. /\ stack # <<>> /\ p \in Top.todo /\ ce \in Callee
        /\ p \in Targets(Top.loop, ce) /\ Top.at \in 1 .. Len(AllCallee[f])
        /\ ce = AllCallee[f][Top.at]
    BY TurnFacts DEF CurrentCallee, CalleeAt
  <1>2. Top \in Frame
    BY <1>1, TopFacts
  <1>3. frame.fn = f /\ frame.loop = Top.loop /\ frame.at = Top.at /\ frame.todo = Top.todo \ {p}
    BY <1>2 DEF Frame
  <1> HIDE DEF f, n, ce
  <1>4. ASSUME NEW g, g \in SureAt(inh, f, Top.at), Top.loop = 1, p = <<g, 1>>
        PROVE  Given(W, n, g) \/ g \in up
    <2>1. SUFFICES ASSUME ~ Followed(p) PROVE FALSE
      BY <1>4 DEF n
    <2>2. ce.ct = "callee_indirect" /\ g \notin function_pointers
      BY <1>4, <2>1 DEF Followed, Collected, ce
    <2>3. g \in inh \/ \E i \in 1 .. Top.at - 1 : g \in PointersOf(AllCallee[f][i])
      BY <1>1, <1>4, <2>2 DEF SureAt
    <2>4. PICK i \in 1 .. Top.at - 1 : g \in PointersOf(AllCallee[f][i])
      BY <2>2, <2>3
    <2>5. i \in 1 .. Len(AllCallee[f]) /\ i <= Top.at
      BY <1>1, <2>4
    <2>6. PointersOf(AllCallee[f][i]) \subseteq function_pointers
      BY <2>5 DEF FrameCovered, f
    <2>7. QED
      BY <2>2, <2>4, <2>6
  <1>5. ASSUME NEW g, NEW k, Top.loop = 2, p = <<g, k>>
        PROVE  Given(W, n, g) \/ g \in up
    <2>1. PICK h \in PointersOf(ce) : p \in {h} \X (1 .. NamesIn[h])
      BY <1>1, <1>5 DEF Targets
    <2>2. ce.ct = "function_pointer"
      BY <2>1 DEF PointersOf
    <2>3. Followed(p)
      BY <2>2 DEF Followed, ce
    <2>4. QED
      BY <1>5, <2>3 DEF n
  <1>6. SUFFICES ASSUME NEW j \in 1 .. Len(AllCallee[f])
        PROVE  /\ Top.loop = 2 \/ j <= Top.at =>
                     /\ PointersOf(AllCallee[f][j]) \subseteq function_pointers
                     /\ \A g \in SureAt(inh, f, j) :
                           \/ Given(W, n, g)
                           \/ g \in up
                           \/ Top.loop = 1 /\ j = Top.at /\ <<g, 1>> \in Top.todo \ {p}
               /\ Top.loop = 2 /\ j <= Top.at =>
                     \A g \in NamedAt(f, j) :
                         \/ Given(W, n, g)
                         \/ g \in up
                         \/ j = Top.at /\ \E k \in Nat : <<g, k>> \in Top.todo \ {p}
    BY <1>3 DEF FrameCovered, n
  <1>7. /\ Top.loop = 2 \/ j <= Top.at =>
              /\ PointersOf(AllCallee[f][j]) \subseteq function_pointers
              /\ \A g \in SureAt(inh, f, j) :
                    \/ Given(W, n, g)
                    \/ Top.loop = 1 /\ j = Top.at /\ <<g, 1>> \in Top.todo
        /\ Top.loop = 2 /\ j <= Top.at =>
              \A g \in NamedAt(f, j) :
                  \/ Given(W, n, g)
                  \/ j = Top.at /\ \E k \in Nat : <<g, k>> \in Top.todo
    BY DEF FrameCovered, f, n
  <1>8. QED
    BY <1>4, <1>5, <1>7

\* The next callee: its pointers are collected, its targets are those to try.
LEMMA NextCalleeCovers ==
    ASSUME WalkTypeOK, NextCallee, NEW W \in SUBSET (Functions \X Nat),
           Covered(W, function_pointers, inherited, visited, stack, t_function)
    PROVE  Covered(W, function_pointers', inherited, visited, stack', t_function)
  <1> DEFINE f == Top.fn
             n == Len(stack)
             ce == AllCallee[f][Top.at + 1]
             frame == [Top EXCEPT !.at = Top.at + 1, !.todo = Targets(Top.loop, ce)]
  <1>1. /\ stack # <<>> /\ ~ AtLastCallee /\ Top.todo = {}
        /\ function_pointers' = function_pointers \cup NewPointers(Top.loop, ce)
        /\ stack' = WithTop(frame)
    BY DEF NextCallee
  <1>2. Top \in Frame /\ Stands(Top, visited) /\ AllCallee[f] \in Seq(Callee)
    BY <1>1, TopFacts
  <1>3. Top.at \in Nat /\ Top.at + 1 \in 1 .. Len(AllCallee[f]) /\ Top.loop \in {1, 2} /\ f \in Functions
    BY <1>1, <1>2 DEF AtLastCallee, Stands, Frame
  <1>4. ce \in Callee
    <2> DEFINE callees == AllCallee[f]
    <2>1. callees \in Seq(Callee) /\ Top.at + 1 \in 1 .. Len(callees)
      BY <1>2, <1>3
    <2> HIDE DEF callees
    <2>2. callees[Top.at + 1] \in Callee
      BY <2>1
    <2>3. QED
      BY <2>2 DEF callees
  <1>5. Targets(Top.loop, ce) \in SUBSET (Functions \X Nat)
    BY <1>4, TargetsType
  <1>6. /\ frame \in Frame /\ frame.fn = f /\ frame.loop = Top.loop
        /\ frame.at = Top.at + 1 /\ frame.todo = Targets(Top.loop, ce)
    <2> DEFINE targets == Targets(Top.loop, ce)
    <2>1. targets \in SUBSET (Functions \X Nat) /\ Top.at + 1 \in Nat
      BY <1>3, <1>5
    <2>2. frame = [Top EXCEPT !.at = Top.at + 1, !.todo = targets]
      OBVIOUS
    <2> HIDE DEF targets, frame, ce
    <2>3. QED
      BY <1>2, <2>1, <2>2 DEF Frame, targets
  <1>7. CalleeAt(frame) = ce
    BY <1>6 DEF CalleeAt
  <1> HIDE DEF ce, frame
  <1>8. Stands(frame, visited)
    BY <1>2, <1>3, <1>6, <1>7 DEF Stands
  <1>9. FrameCovered(W, function_pointers, inherited, Top, n, {})
    BY <1>1, TopIsCovered DEF Covered
  <1> HIDE DEF f, n
  <1>10. FrameCovered(W, function_pointers', inherited, frame, n, {})
    <2>1. SUFFICES ASSUME NEW j \in 1 .. Len(AllCallee[f])
          PROVE  /\ Top.loop = 2 \/ j <= Top.at + 1 =>
                       /\ PointersOf(AllCallee[f][j]) \subseteq function_pointers'
                       /\ \A g \in SureAt(inherited, f, j) :
                             \/ Given(W, n, g)
                             \/ Top.loop = 1 /\ j = Top.at + 1 /\ <<g, 1>> \in Targets(Top.loop, ce)
                 /\ Top.loop = 2 /\ j <= Top.at + 1 =>
                       \A g \in NamedAt(f, j) :
                           \/ Given(W, n, g)
                           \/ j = Top.at + 1 /\ \E k \in Nat : <<g, k>> \in Targets(Top.loop, ce)
      BY <1>6 DEF FrameCovered
    <2>2. /\ Top.loop = 2 \/ j <= Top.at =>
                /\ PointersOf(AllCallee[f][j]) \subseteq function_pointers
                /\ \A g \in SureAt(inherited, f, j) : Given(W, n, g)
          /\ Top.loop = 2 /\ j <= Top.at => \A g \in NamedAt(f, j) : Given(W, n, g)
      BY <1>1, <1>9 DEF FrameCovered, f
    <2>3. CASE j <= Top.at
      BY <1>1, <2>2, <2>3
    <2>4. CASE j = Top.at + 1 /\ Top.loop = 1
      <3>1. PointersOf(ce) \subseteq function_pointers'
        BY <1>1, <2>4 DEF NewPointers, ce, f
      <3>2. ASSUME NEW g \in SureAt(inherited, f, j) PROVE <<g, 1>> \in Targets(Top.loop, ce)
        <4>1. g \in ce.tf_set /\ (ce.ct = "callee_indirect" \/ (ce.ct = "callee_not_isDeclaration" /\ ~ ce.checked))
          BY <2>4, <3>2 DEF SureAt, ce
        <4>2. QED
          BY <2>4, <4>1 DEF Targets
      <3>3. QED
        BY <2>4, <3>1, <3>2 DEF ce
    <2>5. CASE j = Top.at + 1 /\ Top.loop = 2
      <3>1. ASSUME NEW g \in NamedAt(f, j) PROVE <<g, 1>> \in Targets(Top.loop, ce)
        <4>1. g \in PointersOf(ce) /\ NamesIn[g] > 0
          BY <2>5, <3>1 DEF NamedAt, ce
        <4>2. NamesIn[g] \in Nat
          BY <1>4, <4>1, ProgramAssumption DEF PointersOf, Callee
        <4>3. <<g, 1>> \in {g} \X (1 .. NamesIn[g])
          BY <4>1, <4>2
        <4>4. QED
          BY <2>5, <4>1, <4>3 DEF Targets
      <3>2. QED
        BY <1>1, <2>2, <2>5, <3>1
    <2>6. CASE j > Top.at + 1
      BY <1>1, <1>3, <2>2, <2>6
    <2>7. QED
      BY <1>3, <2>3, <2>4, <2>5, <2>6
  <1>11. function_pointers \subseteq function_pointers'
    BY <1>1
  <1>12. QED
    BY <1>1, <1>6, <1>8, <1>10, <1>11, TopChanges DEF f, n

\* The second loop: all callees have been tried in the first one.
LEMMA SecondLoopCovers ==
    ASSUME WalkTypeOK, SecondLoop, NEW W \in SUBSET (Functions \X Nat),
           Covered(W, function_pointers, inherited, visited, stack, t_function)
    PROVE  Covered(W, function_pointers, inherited, visited, stack', t_function)
  <1> DEFINE frame == [Top EXCEPT !.loop = 2, !.at = 0]
  <1>1. /\ stack # <<>> /\ Top.todo = {} /\ AtLastCallee /\ Top.loop = 1
        /\ stack' = WithTop(frame)
    BY DEF SecondLoop
  <1>2. Top \in Frame /\ Stands(Top, visited) /\ Len(AllCallee[Top.fn]) \in Nat
    BY <1>1, TopFacts
  <1>3. frame \in Frame /\ frame.fn = Top.fn /\ frame.at = 0 /\ frame.todo = {} /\ frame.loop = 2
    BY <1>1, <1>2 DEF Frame
  <1> HIDE DEF frame
  <1>4. Stands(frame, visited)
    BY <1>2, <1>3 DEF Stands
  <1>5. FrameCovered(W, function_pointers, inherited, Top, Len(stack), {})
    BY <1>1, TopIsCovered DEF Covered
  <1>6. \A j \in 1 .. Len(AllCallee[Top.fn]) : j <= Top.at /\ ~ (j <= 0)
    BY <1>1, <1>2 DEF AtLastCallee
  <1>7. FrameCovered(W, function_pointers, inherited, frame, Len(stack), {})
    BY <1>1, <1>3, <1>5, <1>6 DEF FrameCovered
  <1>8. QED
    BY <1>1, <1>3, <1>4, <1>7, TopChanges

\* A target that is crossed off without being entered.
LEMMA TriedCovers ==
    ASSUME WalkTypeOK, NEW p \in Turn, inherited \subseteq function_pointers,
           NEW W \in SUBSET (Functions \X Nat),
           Covered(W, function_pointers, inherited, visited, stack, t_function),
           ~ Followed(p) \/ Given(W, Len(stack), p[1])
    PROVE  Covered(W, function_pointers, inherited, visited, Tried(p), t_function)
  <1> DEFINE frame == [Top EXCEPT !.todo = @ \ {p}]
  <1>1. stack # <<>> /\ Top \in Frame /\ Stands(Top, visited)
    BY TurnFacts, TopFacts
  <1>2. /\ frame \in Frame
        /\ frame.fn = Top.fn /\ frame.loop = Top.loop /\ frame.at = Top.at
        /\ frame.todo = Top.todo \ {p}
    BY <1>1 DEF Frame
  <1>3. Tried(p) = WithTop(frame)
    BY DEF Tried
  <1>4. FrameCovered(W, function_pointers, inherited, Top, Len(stack), {})
    BY <1>1, TopIsCovered DEF Covered
  <1>5. frame = [Top EXCEPT !.todo = @ \ {p}]
    OBVIOUS
  <1> HIDE DEF frame
  <1>6. FrameCovered(W, function_pointers, inherited, frame, Len(stack), {})
    BY <1>4, <1>5, CrossedOff
  <1>7. Stands(frame, visited)
    BY <1>1, <1>2 DEF Stands, CalleeAt
  <1>8. QED
    BY <1>1, <1>2, <1>3, <1>6, <1>7, TopChanges

\* A target that returns at once while calls are left is too deep or skipped.
LEMMA RefusedIsGiven ==
    ASSUME WalkTypeOK, NEW p \in Turn, ~ Entered(p[1], stack), ~ Exhausted, NEW W
    PROVE  Given(W, Len(stack), p[1])
  BY DEF Entered, TooDeep, Given

\* A target that is entered: what its function needs is still all to come.
LEMMA EnterCovers ==
    ASSUME WalkTypeOK, NEW p \in Turn, EnterTarget(p), inherited \subseteq function_pointers,
           NEW W \in SUBSET (Functions \X Nat),
           Covered(W, function_pointers, inherited, visited, stack, t_function)
    PROVE  Covered(W, function_pointers, inherited, visited', stack', t_function)
  <1> DEFINE n == Len(stack)
             top == [Top EXCEPT !.todo = @ \ {p}]
             a == Activation(p[1])
  <1>1. stack' = Append(Tried(p), a) /\ visited' = visited \cup {p[1]}
    BY DEF EnterTarget
  <1>2. stack # <<>> /\ Top \in Frame /\ n \in Nat /\ n > 0 /\ n \in 1 .. n /\ p[1] \in Functions
    BY TurnFacts, TopFacts
  <1>3. top \in Frame /\ top.fn = Top.fn
    BY <1>2 DEF Frame
  <1>4. Tried(p) \in Seq(Frame) /\ Len(Tried(p)) = n
    BY TriedStands
  <1>5. a \in Frame /\ a.fn = p[1] /\ a.loop = 1 /\ a.at = 0
    BY <1>2, ActivationStands DEF Activation
  <1>6. top = [Top EXCEPT !.todo = @ \ {p}]
    OBVIOUS
  <1>7. \A k \in 1 .. n : Tried(p)[k] = IF k = n THEN top ELSE stack[k]
    <2>1. stack \in Seq(Frame) /\ Tried(p) = [stack EXCEPT ![n] = top]
      BY DEF Tried, WithTop, WalkTypeOK
    <2>2. n \in 1 .. Len(stack) /\ top \in Frame
      BY <1>2, <1>3
    <2> HIDE DEF n, top
    <2>3. QED
      BY <2>1, <2>2, ExceptSeq DEF n
  <1> HIDE DEF top, a, n
  <1>8. /\ Len(stack') = n + 1
        /\ \A k \in 1 .. n + 1 : stack'[k] = IF k = n + 1 THEN a ELSE IF k = n THEN top ELSE stack[k]
    <2>1. /\ Len(stack') = n + 1
          /\ \A k \in 1 .. n + 1 : stack'[k] = IF k = n + 1 THEN a ELSE Tried(p)[k]
      BY <1>1, <1>2, <1>4, <1>5
    <2>2. QED
      BY <1>2, <1>7, <2>1
  <1>9. \A k \in 1 .. n : stack'[k].fn = stack[k].fn
    BY <1>2, <1>3, <1>8 DEF Top, n
  <1>10. \A k \in 0 .. n - 1 : NextUp(stack', k) = NextUp(stack, k)
    <2> TAKE k \in 0 .. n - 1
    <2>1. k + 1 \in 1 .. n /\ k < n /\ k < n + 1
      BY <1>2
    <2>2. stack'[k + 1].fn = stack[k + 1].fn
      BY <1>9, <2>1
    <2>3. QED
      BY <1>8, <2>1, <2>2 DEF NextUp, n
  <1>11. NextUp(stack', n) = {p[1]}
    BY <1>2, <1>5, <1>8 DEF NextUp
  <1>12. ASSUME NEW k \in 1 .. n + 1
         PROVE  FrameCovered(W, function_pointers, inherited, stack'[k], k, NextUp(stack', k))
    <2>1. CASE k = n + 1
      <3>1. stack'[k] = a /\ \A j \in 1 .. Len(AllCallee[p[1]]) : ~ (j <= 0)
        BY <1>8, <2>1
      <3>2. QED
        BY <1>5, <3>1 DEF FrameCovered
    <2>2. CASE k = n
      <3>1. FrameCovered(W, function_pointers, inherited, Top, Len(stack), {})
        BY <1>2, TopIsCovered DEF Covered
      <3>2. FrameCovered(W, function_pointers, inherited, top, Len(stack), {p[1]})
        BY <1>6, <3>1, CrossedOff
      <3>3. stack'[k] = top
        BY <1>2, <1>8, <2>2
      <3>4. QED
        BY <1>11, <2>2, <3>2, <3>3 DEF n
    <2>3. CASE k < n
      <3>1. stack'[k] = stack[k] /\ NextUp(stack', k) = NextUp(stack, k) /\ k \in 1 .. Len(stack)
        BY <1>2, <1>8, <1>10, <2>3 DEF n
      <3>2. QED
        BY <3>1 DEF Covered, StackCovered
    <2>4. QED
      BY <1>2, <2>1, <2>2, <2>3
  <1>13. Given(W, 0, t_function) \/ t_function \in NextUp(stack', 0)
    BY <1>2, <1>10 DEF Covered
  <1>14. WalkedCovered(W, function_pointers, inherited, visited')
    BY <1>1 DEF Covered, WalkedCovered
  <1>15. QED
    BY <1>8, <1>12, <1>13, <1>14 DEF Covered, StackCovered

\* An activation that returns has been walked to the end.
LEMMA ReturnCovers ==
    ASSUME WalkTypeOK, Return,
           NEW W \in SUBSET (Functions \X Nat),
           Covered(W, function_pointers, inherited, visited, stack, t_function)
    PROVE  \E V \in SUBSET (Functions \X Nat) :
              Covered(V, function_pointers, inherited, visited, stack', t_function)
  <1> DEFINE n == Len(stack)
             f == Top.fn
             V == W \cup {<<f, n>>}
  <1>1. /\ stack # <<>> /\ Top.todo = {} /\ AtLastCallee /\ Top.loop = 2
        /\ stack' = SubSeq(stack, 1, n - 1)
    BY DEF Return
  <1>2. /\ Top \in Frame /\ Stands(Top, visited) /\ n \in Nat /\ n > 0 /\ n \in 1 .. n
        /\ Len(AllCallee[f]) \in Nat /\ f \in Functions /\ f \in visited
    BY <1>1, TopFacts DEF Frame, Stands
  <1>3. V \in SUBSET (Functions \X Nat) /\ W \subseteq V /\ <<f, n>> \in V
    BY <1>2
  <1>4. /\ Len(stack') = n - 1
        /\ \A k \in 1 .. n - 1 : stack'[k] = stack[k]
    BY <1>1, <1>2, PoppedFacts
  <1>5. FrameCovered(W, function_pointers, inherited, Top, n, {})
    BY <1>1, TopIsCovered DEF Covered
  <1> HIDE DEF n, f, V
  <1>6. FunctionCovered(W, function_pointers, inherited, f, n)
    <2>1. \A j \in 1 .. Len(AllCallee[f]) : j <= Top.at
      BY <1>1, <1>2 DEF AtLastCallee, f
    <2>2. QED
      BY <1>1, <1>5, <2>1 DEF FrameCovered, FunctionCovered, f
  <1>7. WalkedCovered(V, function_pointers, inherited, visited)
    <2>1. SUFFICES ASSUME NEW g \in Functions, NEW k \in Nat, <<g, k>> \in V
                   PROVE  g \in visited /\ FunctionCovered(V, function_pointers, inherited, g, k)
      BY DEF WalkedCovered
    <2>2. CASE <<g, k>> \in W
      <3>1. g \in visited /\ FunctionCovered(W, function_pointers, inherited, g, k)
        BY <2>2 DEF Covered, WalkedCovered
      <3>2. QED
        BY <1>3, <3>1, FunctionCoveredByMore
    <2>3. CASE <<g, k>> = <<f, n>>
      <3>1. g = f /\ k = n
        BY <2>3
      <3>2. QED
        BY <1>2, <1>3, <1>6, <3>1, FunctionCoveredByMore
    <2>4. QED
      BY <2>1, <2>2, <2>3 DEF V
  <1>8. Given(V, n - 1, f)
    <2>1. n - 1 + 1 = n
      BY <1>2
    <2>2. QED
      BY <1>3, <2>1 DEF Given
  <1>9. ASSUME NEW k \in 0 .. n - 1, NEW g \in NextUp(stack, k)
        PROVE  g \in NextUp(stack', k) \/ Given(V, k, g)
    <2>1. CASE k = n - 1
      <3>1. k + 1 = n /\ stack[k + 1].fn = f
        BY <1>2, <2>1 DEF n, f, Top
      <3>2. g = f
        BY <1>9, <3>1 DEF NextUp
      <3>3. QED
        BY <1>8, <2>1, <3>2
    <2>2. CASE k # n - 1
      <3>1. k < n - 1 /\ k < n /\ k + 1 \in 1 .. n - 1
        BY <1>2, <2>2
      <3>2. stack'[k + 1] = stack[k + 1]
        BY <1>4, <3>1
      <3>3. QED
        BY <1>4, <1>9, <3>1, <3>2 DEF NextUp, n
    <2>3. QED
      BY <2>1, <2>2
  <1>10. StackCovered(V, function_pointers, inherited, stack')
    <2>1. SUFFICES ASSUME NEW k \in 1 .. n - 1
                   PROVE  FrameCovered(V, function_pointers, inherited, stack'[k], k, NextUp(stack', k))
      BY <1>4 DEF StackCovered
    <2>2. stack'[k] = stack[k] /\ k \in 1 .. n /\ k \in 0 .. n - 1
      BY <1>2, <1>4
    <2>3. FrameCovered(W, function_pointers, inherited, stack[k], k, NextUp(stack, k))
      BY <2>2 DEF Covered, StackCovered, n
    <2>4. \A g \in NextUp(stack, k) : g \in NextUp(stack', k) \/ Given(V, k, g)
      BY <1>9, <2>2
    <2> DEFINE frame == stack[k]
               up == NextUp(stack, k)
               above == NextUp(stack', k)
    <2>5. /\ FrameCovered(W, function_pointers, inherited, frame, k, up)
          /\ \A g \in up : g \in above \/ Given(V, k, g)
          /\ function_pointers \subseteq function_pointers
      BY <2>3, <2>4
    <2> HIDE DEF frame, up, above
    <2>6. FrameCovered(V, function_pointers, inherited, frame, k, above)
      BY <1>3, <2>5, CoveredByMore
    <2>7. QED
      BY <2>2, <2>6 DEF frame, above
  <1>11. Given(V, 0, t_function) \/ t_function \in NextUp(stack', 0)
    <2>1. Given(W, 0, t_function) => Given(V, 0, t_function)
      BY <1>3 DEF Given
    <2>2. 0 \in 0 .. n - 1
      BY <1>2
    <2>3. QED
      BY <1>9, <2>1, <2>2 DEF Covered
  <1>12. QED
    BY <1>3, <1>7, <1>10, <1>11 DEF Covered

\* The entry is called.
LEMMA StartCovers ==
    ASSUME WalkTypeOK, Start
    PROVE  /\ inherited \subseteq function_pointers'
           /\ Covered({}, function_pointers', inherited, visited', stack', t_function)
  <1>1. t_function \in Functions /\ stack = <<>> /\ function_pointers' = inherited
    BY ProgramAssumption DEF WalkTypeOK, Start, Inherited
  <1>2. ~ TooDeep(<<>>) /\ ~ Exhausted
    BY ProgramAssumption DEF TooDeep, Exhausted, Start
  <1>3. WalkedCovered({}, function_pointers', inherited, visited')
    BY DEF WalkedCovered
  <1>4. CASE Entered(t_function, <<>>)
    <2> DEFINE a == Activation(t_function)
    <2>1. stack' = <<a>>
      BY <1>4 DEF Start
    <2>2. Len(stack') = 1 /\ stack'[1] = a /\ a.fn = t_function /\ a.loop = 1 /\ a.at = 0
      BY <2>1 DEF Activation
    <2> HIDE DEF a
    <2>3. \A j \in 1 .. Len(AllCallee[t_function]) : ~ (j <= 0)
      OBVIOUS
    <2>4. \A up : FrameCovered({}, function_pointers', inherited, a, 1, up)
      BY <2>2, <2>3 DEF FrameCovered
    <2>5. StackCovered({}, function_pointers', inherited, stack')
      BY <2>2, <2>4 DEF StackCovered
    <2>6. t_function \in NextUp(stack', 0)
      BY <2>2 DEF NextUp
    <2>7. QED
      BY <1>1, <1>3, <2>5, <2>6 DEF Covered
  <1>5. CASE ~ Entered(t_function, <<>>)
    <2>1. stack' = <<>> /\ t_function \in SkippedFunctions
      BY <1>1, <1>2, <1>5 DEF Start, Entered
    <2>2. StackCovered({}, function_pointers', inherited, stack')
      BY <2>1 DEF StackCovered
    <2>3. Given({}, 0, t_function)
      BY <2>1 DEF Given
    <2>4. QED
      BY <1>1, <1>3, <2>2, <2>3 DEF Covered
  <1>6. QED
    BY <1>1, <1>4, <1>5

\* Every step keeps the invariant.
LEMMA SureInvStep == WalkTypeOK /\ SureInv /\ [WalkNext]_walkvars => SureInv'
  <1> SUFFICES ASSUME WalkTypeOK, SureInv, [WalkNext]_walkvars PROVE SureInv'
    OBVIOUS
  <1> DEFINE Kept(W) ==
                /\ W \in SUBSET (Functions \X Nat)
                /\ Covered(W, function_pointers', inherited, visited', stack', t_function)
  <1>1. ASSUME NEW W, Kept(W), inherited \subseteq function_pointers', UNCHANGED inputs
        PROVE  SureInv'
    <2>1. inherited' = inherited /\ t_function' = t_function
      BY <1>1 DEF inputs
    <2>2. inherited' \subseteq function_pointers'
      BY <1>1, <2>1
    <2>3. /\ W \in SUBSET (Functions \X Nat)
          /\ Covered(W, function_pointers', inherited', visited', stack', t_function')
      BY <1>1, <2>1
    <2>4. QED
      BY <2>2, <2>3 DEF SureInv
  <1>2. CASE Start
    BY <1>1, <1>2, StartCovers DEF Start
  <1>3. ASSUME count_function_pointer > 0, ~ Exhausted
        PROVE  /\ inherited \subseteq function_pointers
               /\ \E W \in SUBSET (Functions \X Nat) :
                     Covered(W, function_pointers, inherited, visited, stack, t_function)
    BY <1>3 DEF SureInv
  <1>4. stack # <<>> => count_function_pointer > 0
    BY DEF WalkTypeOK
  <1>5. ASSUME ~ Exhausted', stack # <<>>, UNCHANGED inputs,
               count_function_pointer' = count_function_pointer \/ count_function_pointer' = count_function_pointer + 1,
               function_pointers \subseteq function_pointers',
               \A W \in SUBSET (Functions \X Nat) :
                  /\ inherited \subseteq function_pointers
                  /\ ~ Exhausted
                  /\ Covered(W, function_pointers, inherited, visited, stack, t_function)
                  => \E V : Kept(V)
        PROVE  SureInv'
    <2>1. ~ Exhausted
      BY <1>5, ProgramAssumption DEF Exhausted, WalkTypeOK
    <2>2. PICK W \in SUBSET (Functions \X Nat) :
                 Covered(W, function_pointers, inherited, visited, stack, t_function)
      BY <1>3, <1>4, <1>5, <2>1
    <2>3. inherited \subseteq function_pointers
      BY <1>3, <1>4, <1>5, <2>1
    <2>4. PICK V : Kept(V)
      BY <1>5, <2>1, <2>2, <2>3
    <2>5. QED
      BY <1>1, <1>5, <2>3, <2>4
  <1>6. Exhausted' => SureInv'
    BY DEF SureInv
  <1> HIDE DEF Kept
  <1>7. CASE NextCallee
    <2>1. /\ stack # <<>> /\ UNCHANGED <<inputs, count_function_pointer, visited>>
          /\ function_pointers \subseteq function_pointers'
      BY <1>7 DEF NextCallee
    <2>2. \A W \in SUBSET (Functions \X Nat) :
             Covered(W, function_pointers, inherited, visited, stack, t_function) => Kept(W)
      BY <1>7, <2>1, NextCalleeCovers DEF Kept
    <2>3. QED
      BY <1>5, <1>6, <2>1, <2>2
  <1>8. CASE SecondLoop
    <2>1. stack # <<>> /\ UNCHANGED <<inputs, function_pointers, count_function_pointer, visited>>
      BY <1>8 DEF SecondLoop
    <2>2. \A W \in SUBSET (Functions \X Nat) :
             Covered(W, function_pointers, inherited, visited, stack, t_function) => Kept(W)
      BY <1>8, <2>1, SecondLoopCovers DEF Kept
    <2>3. QED
      BY <1>5, <1>6, <2>1, <2>2
  <1>9. ASSUME NEW p \in Turn, SkipTarget(p) PROVE SureInv'
    <2>1. /\ stack # <<>> /\ UNCHANGED <<inputs, function_pointers, count_function_pointer, visited>>
          /\ stack' = Tried(p) /\ ~ Followed(p)
      BY <1>9, TurnFacts DEF SkipTarget
    <2>2. \A W \in SUBSET (Functions \X Nat) :
             /\ inherited \subseteq function_pointers
             /\ Covered(W, function_pointers, inherited, visited, stack, t_function)
             => Kept(W)
      BY <1>9, <2>1, TriedCovers DEF Kept
    <2>3. QED
      BY <1>5, <1>6, <2>1, <2>2
  <1>10. ASSUME NEW p \in Turn, RefuseTarget(p) PROVE SureInv'
    <2>1. /\ stack # <<>> /\ UNCHANGED <<inputs, function_pointers, visited>>
          /\ stack' = Tried(p) /\ ~ Entered(p[1], stack)
          /\ count_function_pointer' = count_function_pointer \/ count_function_pointer' = count_function_pointer + 1
      BY <1>10, TurnFacts DEF RefuseTarget
    <2>2. \A W \in SUBSET (Functions \X Nat) :
             /\ inherited \subseteq function_pointers
             /\ ~ Exhausted
             /\ Covered(W, function_pointers, inherited, visited, stack, t_function)
             => Kept(W)
      BY <1>10, <2>1, RefusedIsGiven, TriedCovers DEF Kept
    <2>3. QED
      BY <1>5, <1>6, <2>1, <2>2
  <1>11. ASSUME NEW p \in Turn, EnterTarget(p) PROVE SureInv'
    <2>1. /\ stack # <<>> /\ UNCHANGED <<inputs, function_pointers>>
          /\ count_function_pointer' = count_function_pointer + 1
      BY <1>11, TurnFacts DEF EnterTarget
    <2>2. \A W \in SUBSET (Functions \X Nat) :
             /\ inherited \subseteq function_pointers
             /\ Covered(W, function_pointers, inherited, visited, stack, t_function)
             => Kept(W)
      BY <1>11, <2>1, EnterCovers DEF Kept
    <2>3. QED
      BY <1>5, <1>6, <2>1, <2>2
  <1>12. CASE Return
    <2>1. stack # <<>> /\ UNCHANGED <<inputs, function_pointers, count_function_pointer, visited>>
      BY <1>12 DEF Return
    <2>2. \A W \in SUBSET (Functions \X Nat) :
             Covered(W, function_pointers, inherited, visited, stack, t_function)
             => \E V : Kept(V)
      BY <1>12, <2>1, ReturnCovers DEF Kept
    <2>3. QED
      BY <1>5, <1>6, <2>1, <2>2
  <1>13. CASE UNCHANGED walkvars
    BY <1>13 DEF walkvars, SureInv, Exhausted
  <1>14. QED
    BY <1>2, <1>7, <1>8, <1>9, <1>10, <1>11, <1>12, <1>13 DEF WalkNext

\* A function that was walked to the end has all that is sure.
LEMMA SureStepIsGiven ==
    ASSUME NEW f \in Functions, NEW W, NEW fp, NEW k, FunctionCovered(W, fp, inherited, f, k)
    PROVE  /\ PassedBy(f) \subseteq fp
           /\ \A g \in SureStep(f) : Given(W, k, g)
  <1> DEFINE callees == AllCallee[f]
  <1>1. callees \in Seq(Callee)
    BY ProgramAssumption
  <1>2. DOMAIN callees = 1 .. Len(callees) /\ Callees(f) = {callees[j] : j \in 1 .. Len(callees)}
    BY <1>1 DEF Callees
  <1> HIDE DEF callees
  <1>3. ASSUME NEW ce \in Callees(f)
        PROVE  \E j \in 1 .. Len(callees) : ce = callees[j]
    BY <1>2
  <1>4. \A j \in 1 .. Len(callees) :
           /\ PointersOf(callees[j]) \subseteq fp
           /\ \A g \in SureAt(inherited, f, j) \cup NamedAt(f, j) : Given(W, k, g)
    BY DEF FunctionCovered, callees
  <1>5. PassedBy(f) \subseteq fp
    BY <1>3, <1>4 DEF PassedBy
  <1>6. ASSUME NEW g \in DirectOf(f) PROVE Given(W, k, g)
    <2>1. PICK ce \in Of(f, "callee_not_isDeclaration") : ~ ce.checked /\ g \in ce.tf_set
      BY <1>6 DEF DirectOf
    <2>2. ce \in Callees(f) /\ ce.ct = "callee_not_isDeclaration"
      BY <2>1 DEF Of
    <2>3. PICK j \in 1 .. Len(callees) : ce = callees[j]
      BY <1>3, <2>2
    <2>4. g \in SureAt(inherited, f, j)
      BY <2>1, <2>2, <2>3 DEF SureAt, callees
    <2>5. QED
      BY <1>4, <2>4
  <1>7. ASSUME NEW g \in NamedOf(f) PROVE Given(W, k, g)
    <2>1. PICK ce \in Callees(f) : g \in PointersOf(ce) /\ NamesIn[g] > 0
      BY <1>7 DEF NamedOf, PassedBy
    <2>2. PICK j \in 1 .. Len(callees) : ce = callees[j]
      BY <1>3
    <2>3. g \in NamedAt(f, j)
      BY <2>1, <2>2 DEF NamedAt, callees
    <2>4. QED
      BY <1>4, <2>3
  <1>8. ASSUME NEW g \in KnownTargetsOf(f) PROVE Given(W, k, g)
    <2>1. PICK ce \in Of(f, "callee_indirect") : g \in ce.tf_set
      BY <1>8 DEF KnownTargetsOf, IndirectOf
    <2>2. CASE g \in inherited
      <3>1. ce \in Callees(f) /\ ce.ct = "callee_indirect"
        BY <2>1 DEF Of
      <3>2. PICK j \in 1 .. Len(callees) : ce = callees[j]
        BY <1>3, <3>1
      <3>3. g \in SureAt(inherited, f, j)
        BY <2>1, <2>2, <3>1, <3>2 DEF SureAt, callees
      <3>4. QED
        BY <1>4, <3>3
    <2>3. CASE g \notin inherited
      <3>1. PICK i, j \in DOMAIN AllCallee[f] :
               /\ i < j
               /\ AllCallee[f][i].ct = "function_pointer" /\ g \in AllCallee[f][i].tf_set
               /\ AllCallee[f][j].ct = "callee_indirect" /\ g \in AllCallee[f][j].tf_set
        BY <1>8, <2>3 DEF KnownTargetsOf
      <3>2. i \in 1 .. j - 1 /\ j \in 1 .. Len(callees) /\ g \in PointersOf(AllCallee[f][i])
        BY <1>2, <3>1 DEF PointersOf, callees
      <3>3. g \in SureAt(inherited, f, j)
        BY <3>1, <3>2 DEF SureAt
      <3>4. QED
        BY <1>4, <3>2, <3>3
    <2>4. QED
      BY <2>2, <2>3
  <1>9. QED
    BY <1>5, <1>6, <1>7, <1>8 DEF SureStep, CertainOf

\* When the stack is empty, all that is sure has been walked to the end.
LEMMA ReachedIsWalked ==
    ASSUME NEW W \in SUBSET (Functions \X Nat), NEW fp, NEW vis,
           Covered(W, fp, inherited, vis, <<>>, t_function),
           NEW reach,
           reach[0] = {t_function} \ SkippedFunctions,
           \A n \in Nat \ {0} : reach[n] =
              reach[n - 1] \cup ((UNION {SureStep(f) : f \in reach[n - 1]}) \ SkippedFunctions)
    PROVE  \A n \in 0 .. MAX_FUNC_DEPTH : \A f \in reach[n] : \E k \in 1 .. n + 1 : <<f, k>> \in W
  <1> DEFINE Missing == {n \in 0 .. MAX_FUNC_DEPTH :
                            \E f \in reach[n] : \A k \in 1 .. n + 1 : <<f, k>> \notin W}
             R == OpToRel(<, Nat)
  <1>1. SUFFICES ASSUME Missing # {} PROVE FALSE
    OBVIOUS
  <1>2. Missing \subseteq Nat /\ IsWellFoundedOn(R, Nat)
    <2>1. \A m \in Missing : m \in Nat
      BY ProgramAssumption
    <2>2. IsWellFoundedOn(R, Nat)
      BY NatLessThanWellFounded
    <2>3. QED
      BY <2>1, <2>2
  <1>3. PICK n \in Missing : \A m \in Missing : ~ (<<m, n>> \in R)
    <2> HIDE DEF Missing, R
    <2>1. QED
      BY <1>1, <1>2, WFMin
  <1>4. \A m \in Missing : ~ (m < n)
    <2>1. \A y, x \in Nat : y < x => <<y, x>> \in R
      BY DEF OpToRel
    <2>2. QED
      BY <1>2, <1>3, <2>1
  <1>5. n \in 0 .. MAX_FUNC_DEPTH /\ \E f \in reach[n] : \A k \in 1 .. n + 1 : <<f, k>> \notin W
    BY <1>3
  <1>6. PICK f \in reach[n] : \A k \in 1 .. n + 1 : <<f, k>> \notin W
    BY <1>5
  <1>7. n # 0 => \A g \in reach[n - 1] : \E k \in 1 .. n : <<g, k>> \in W
    <2> SUFFICES ASSUME n # 0, NEW g \in reach[n - 1], \A k \in 1 .. n : <<g, k>> \notin W PROVE FALSE
      OBVIOUS
    <2>1. n - 1 \in 0 .. MAX_FUNC_DEPTH /\ n - 1 < n /\ n - 1 + 1 = n
      BY <1>5, ProgramAssumption
    <2>2. n - 1 \in Missing
      BY <2>1
    <2>3. QED
      BY <1>4, <2>1, <2>2
  <1> HIDE DEF Missing, R
  <1>8. n \in Nat /\ n <= MAX_FUNC_DEPTH /\ MAX_FUNC_DEPTH \in Nat
    BY <1>5, ProgramAssumption
  <1>9. CASE n = 0
    <2>1. f = t_function /\ f \notin SkippedFunctions
      BY <1>6, <1>9
    <2>2. Given(W, 0, f)
      BY <2>1 DEF Covered, NextUp
    <2>3. <<f, 1>> \in W
      BY <1>8, <2>1, <2>2 DEF Given
    <2>4. QED
      BY <1>6, <1>9, <2>3
  <1>10. CASE n # 0
    <2>1. f \notin reach[n - 1]
      <3>1. ASSUME NEW k \in 1 .. n PROVE k \in 1 .. n + 1
        BY <1>8
      <3>2. QED
        BY <1>6, <1>7, <1>10, <3>1
    <2> DEFINE more == UNION {SureStep(g) : g \in reach[n - 1]}
    <2>2. \A x : x \in more <=> \E g \in reach[n - 1] : x \in SureStep(g)
      BY SureStepFrom
    <2>3. reach[n] = reach[n - 1] \cup (more \ SkippedFunctions)
      BY <1>8, <1>10
    <2> HIDE DEF more
    <2>4. PICK g \in reach[n - 1] : f \in SureStep(g) /\ f \notin SkippedFunctions
      BY <1>6, <2>1, <2>2, <2>3
    <2>5. PICK k \in 1 .. n : <<g, k>> \in W
      BY <1>7, <1>10, <2>4
    <2>6. k \in Nat /\ k <= MAX_FUNC_DEPTH /\ k + 1 \in 1 .. n + 1
      BY <1>8, <2>5
    <2>7. g \in Functions
      BY <2>5
    <2>8. FunctionCovered(W, fp, inherited, g, k)
      BY <2>5, <2>6, <2>7 DEF Covered, WalkedCovered
    <2>9. Given(W, k, f)
      BY <2>4, <2>7, <2>8, SureStepIsGiven
    <2>10. <<f, k + 1>> \in W
      BY <1>8, <2>4, <2>6, <2>9 DEF Given
    <2>11. QED
      BY <1>6, <2>6, <2>10
  <1>11. QED
    BY <1>9, <1>10

\* What the invariant says at the end.
LEMMA SureInvEnd == WalkTypeOK /\ SureInv => SurePointersCollected
  <1> SUFFICES ASSUME WalkTypeOK, SureInv, Done, ~ Exhausted
               PROVE  /\ SureFunctions \subseteq visited
                      /\ inherited \cup UNION {PassedBy(f) : f \in SureFunctions} \subseteq function_pointers
    BY DEF SurePointersCollected
  <1>1. PICK W \in SUBSET (Functions \X Nat) :
               Covered(W, function_pointers, inherited, visited, stack, t_function)
    BY DEF SureInv, Done
  <1>2. Covered(W, function_pointers, inherited, visited, <<>>, t_function)
    BY <1>1 DEF Done
  <1>3. PICK reach :
              /\ SureFunctions = reach[MAX_FUNC_DEPTH]
              /\ reach[0] = {t_function} \ SkippedFunctions
              /\ \A n \in Nat \ {0} : reach[n] =
                    reach[n - 1] \cup ((UNION {SureStep(f) : f \in reach[n - 1]}) \ SkippedFunctions)
    BY SureFunctionsReached
  <1>4. \A n \in 0 .. MAX_FUNC_DEPTH : \A f \in reach[n] : \E k \in 1 .. n + 1 : <<f, k>> \in W
    BY <1>2, <1>3, ReachedIsWalked
  <1>5. ASSUME NEW f \in SureFunctions
        PROVE  f \in visited /\ PassedBy(f) \subseteq function_pointers
    <2>1. MAX_FUNC_DEPTH \in 0 .. MAX_FUNC_DEPTH
      BY ProgramAssumption
    <2>2. PICK k \in 1 .. MAX_FUNC_DEPTH + 1 : <<f, k>> \in W
      BY <1>3, <1>4, <1>5, <2>1
    <2>3. f \in Functions /\ k \in Nat
      BY <2>2
    <2>4. f \in visited /\ FunctionCovered(W, function_pointers, inherited, f, k)
      BY <1>2, <2>2, <2>3 DEF Covered, WalkedCovered
    <2>5. QED
      BY <2>3, <2>4, SureStepIsGiven
  <1>6. inherited \subseteq function_pointers
    BY DEF SureInv, Done
  <1>7. QED
    BY <1>5, <1>6

(***************************************************************************)
(* What does not depend on the order is never missed: a walk that ends     *)
(* within its number of calls has entered every function that certain calls*)
(* lead to, and indirect calls of what was known before, and has their     *)
(* pointers and those of the parent; for every program and heap order.     *)
(***************************************************************************)
THEOREM SurePointersAreCollected == Spec => []SurePointersCollected
  <1>1. Init => SureInv
    BY DEF Init, SureInv
  <1>2. QED
    BY <1>1, SureInvStep, SureInvEnd, WalkTypeCorrect, PTL DEF Spec

-----------------------------------------------------------------------------
(***************************************************************************)
(* The program the second walk sees is one that EntryWalk is about.        *)
(***************************************************************************)

\* The callees of a function are callees.
LEMMA CalleesType ==
    ASSUME NEW f \in Functions
    PROVE  Callees(f) \subseteq Callee
  <1> DEFINE callees == AllCallee[f]
  <1>1. callees \in Seq(Callee) /\ Callees(f) = {callees[k] : k \in DOMAIN callees}
    BY ProgramAssumption DEF Callees
  <1> HIDE DEF callees
  <1>2. QED
    BY <1>1

\* What an instruction may call or point to are functions.
LEMMA TargetsAtType == ASSUME NEW kind PROVE TargetsAt(kind) \in [Insts -> SUBSET Functions]
  <1>1. ASSUME NEW inst \in Insts
        PROVE  UNION {ce.tf_set : ce \in {ce \in Of(Owner[inst], kind) : ce.i = inst}} \subseteq Functions
    <2>1. Owner[inst] \in Functions
      BY ProgramsAgree
    <2>2. \A ce \in Of(Owner[inst], kind) : ce.tf_set \subseteq Functions
      BY <2>1, CalleesType DEF Of, Callee
    <2>3. QED
      BY <2>2
  <1>2. QED
    BY <1>1 DEF TargetsAt

\* The assumptions of EntryWalk hold.
LEMMA EntryWalkApplies == EW!WalkAssumption
  <1>1. /\ DirectTargets \in [Insts -> SUBSET Functions]
        /\ IndirectTargets \in [Insts -> SUBSET Functions]
        /\ PointerTargets \in [Insts -> SUBSET Functions]
    BY TargetsAtType DEF DirectTargets, IndirectTargets, PointerTargets
  <1>2. QED
    BY <1>1, ProgramAssumption, ProgramsAgree DEF EW!WalkAssumption

\* The sites the bottom-up pass may leave are call sites of EntryWalk.
LEMMA RecordsAreSites == ASSUME NEW kept \in Records PROVE kept \subseteq EW!Sites
  <1>1. kept \subseteq RecordableSites
    BY DEF Records
  <1>2. ASSUME NEW s \in RecordableSites PROVE s \in EW!Sites
    <2>1. PICK c \in UNION {Callees(f) : f \in Functions}, g \in Functions : s = <<c.i, g>>
      BY <1>2 DEF RecordableSites, Calls
    <2>2. s[1] \in Insts /\ s[2] \in Functions /\ s = <<s[1], s[2]>>
      <3>1. c \in Callee
        BY <2>1, CalleesType
      <3>2. QED
        BY <2>1, <3>1 DEF Callee
    <2>3. Owner[s[1]] \in Functions
      BY <2>2, ProgramsAgree
    <2>4. PICK ce \in Callees(Owner[s[1]]) : ce.i = s[1] /\ s[2] \in ce.tf_set
      BY <1>2 DEF RecordableSites
    <2>5. ce.ct \in Kinds
      BY <2>3, CalleesType DEF Callee
    <2>6. s[2] \in TargetsAt(ce.ct)[s[1]]
      <3>1. ce \in {x \in Of(Owner[s[1]], ce.ct) : x.i = s[1]}
        BY <2>4 DEF Of
      <3>2. s[2] \in UNION {x.tf_set : x \in {x \in Of(Owner[s[1]], ce.ct) : x.i = s[1]}}
        BY <2>4, <3>1
      <3>3. QED
        BY <2>2, <3>2 DEF TargetsAt
    <2>7. s[2] \in DirectTargets[s[1]] \cup IndirectTargets[s[1]] \cup PointerTargets[s[1]]
      BY <2>5, <2>6 DEF Kinds, DirectTargets, IndirectTargets, PointerTargets
    <2>8. QED
      BY <2>2, <2>7 DEF EW!Sites
  <1>3. QED
    BY <1>1, <1>2

\* Both instances take the same steps.
LEMMA SameSteps == Walk!Next <=> EW!Next
  BY DEF Walk!Next, Walk!Start, Walk!SkipCallee, Walk!RefuseCallee, Walk!EnterCallee, Walk!Return,
         Walk!Turn, Walk!Top, Walk!Followed, Walk!IsPointer, Walk!Entered, Walk!TooDeep,
         Walk!Exhausted, Walk!OnChain, Walk!Copies, Walk!Activation, Walk!Tried, Walk!Popped,
         Walk!FlagOfCaller, Walk!inputs,
         EW!Next, EW!Start, EW!SkipCallee, EW!RefuseCallee, EW!EnterCallee, EW!Return,
         EW!Turn, EW!Top, EW!Followed, EW!IsPointer, EW!Entered, EW!TooDeep,
         EW!Exhausted, EW!OnChain, EW!Copies, EW!Activation, EW!Tried, EW!Popped,
         EW!FlagOfCaller, EW!inputs

\* And say the same of their state.
LEMMA SameWords ==
    /\ Walk!Done <=> EW!Done
    /\ Walk!Exhausted <=> EW!Exhausted
    /\ Walk!Collected = EW!Collected
    /\ \A path : Walk!ResultsAt(path) = EW!ResultsAt(path)
    /\ \A path, k : Walk!At(path, k) = EW!At(path, k)
    /\ \A s : Walk!IsPointer(s) <=> EW!IsPointer(s)
  BY DEF Walk!Done, EW!Done, Walk!Exhausted, EW!Exhausted, Walk!Collected, EW!Collected,
         Walk!ResultsAt, EW!ResultsAt, Walk!End, EW!End, Walk!At, EW!At, Walk!IsPointer, EW!IsPointer

(***************************************************************************)
(* The invariant.                                                          *)
(***************************************************************************)

\* Every pointer is owed to the parent's entry or to a function that was entered.
PointersOwed ==
    count_function_pointer > 0 =>
        \A g \in function_pointers : g \in inherited \/ \E f \in visited : g \in PassedBy(f)

\* The second walk has not begun.
Untouched ==
    /\ current_call_chain = <<>>
    /\ in_function_pointer = FALSE
    /\ all_checker_results = <<>>
    /\ activations = <<>>

\* The second walk begins when the first one has ended.
ExplorationInv ==
    /\ WalkTypeOK
    /\ SureInv
    /\ PointersOwed
    /\ all_callee_checker_results \subseteq EW!Sites
    /\ map_order \in MapOrders
    /\ count_update_checker = 0 => Untouched
    /\ count_update_checker # 0 => Done /\ EW!WalkInv /\ EW!MissInv

\* Steps of the first walk leave no pointer that nobody passes.
LEMMA OwedStep ==
    ASSUME WalkTypeOK, PointersOwed, [WalkNext]_walkvars
    PROVE  PointersOwed'
  <1>1. ASSUME function_pointers' \subseteq function_pointers, inherited' = inherited, visited \subseteq visited',
               count_function_pointer > 0
        PROVE  PointersOwed'
    <2>1. \A f : PassedBy(f)' = PassedBy(f)
      BY DEF PassedBy, PointersOf, Callees
    <2>2. QED
      BY <1>1, <2>1 DEF PointersOwed
  <1>2. stack # <<>> => count_function_pointer > 0
    BY DEF WalkTypeOK
  <1>3. CASE Start
    BY <1>3 DEF Start, Inherited, inputs, PointersOwed
  <1>4. CASE NextCallee
    <2> DEFINE f == Top.fn
    <2>1. stack # <<>> /\ ~ AtLastCallee /\ UNCHANGED <<inputs, visited>>
      BY <1>4 DEF NextCallee
    <2>2. f \in Functions /\ f \in visited /\ Top.at + 1 \in 1 .. Len(AllCallee[f])
      BY <2>1, TopFacts DEF AtLastCallee, Stands, Frame
    <2>3. NewPointers(Top.loop, AllCallee[f][Top.at + 1]) \subseteq PassedBy(f)
      BY <2>2, CalleeFacts DEF NewPointers
    <2>4. \A g \in function_pointers' : g \in function_pointers \/ g \in PassedBy(f)
      BY <1>4, <2>3 DEF NextCallee
    <2> HIDE DEF f
    <2>5. QED
      BY <1>2, <2>1, <2>2, <2>4 DEF PointersOwed, inputs
  <1>5. CASE SecondLoop \/ Return
    BY <1>1, <1>2, <1>5 DEF SecondLoop, Return, inputs
  <1>6. ASSUME NEW p \in Turn, SkipTarget(p) \/ RefuseTarget(p) \/ EnterTarget(p) PROVE PointersOwed'
    <2>1. stack # <<>>
      BY TurnFacts
    <2>2. QED
      BY <1>1, <1>2, <1>6, <2>1 DEF SkipTarget, RefuseTarget, EnterTarget, inputs
  <1>7. CASE UNCHANGED walkvars
    BY <1>7 DEF walkvars, PointersOwed
  <1>8. QED
    BY <1>3, <1>4, <1>5, <1>6, <1>7 DEF WalkNext

\* A second walk that has not begun is in order.
LEMMA UntouchedInv ==
    ASSUME WalkTypeOK, Untouched, count_update_checker = 0, map_order \in MapOrders,
           all_callee_checker_results \subseteq EW!Sites
    PROVE  EW!WalkInv /\ EW!MissInv
  <1>1. EW!TypeOK
    <2>1. /\ current_call_chain \in Seq(Insts) /\ all_checker_results \in Seq(EW!CheckerResult)
          /\ activations \in Seq(EW!Frame) /\ activations = <<>> /\ Len(current_call_chain) = 0
      BY DEF Untouched
    <2>2. in_function_pointer \in BOOLEAN /\ count_update_checker \in Nat
      BY DEF Untouched
    <2>3. t_function \in EntryFunctions /\ function_pointers \subseteq Functions
      BY DEF WalkTypeOK
    <2>4. QED
      BY <2>1, <2>2, <2>3 DEF EW!TypeOK
  <1>2. EW!NothingSpurious
    BY DEF EW!NothingSpurious, EW!Collected, Untouched
  <1>3. MAX_FUNC_DEPTH \in Nat
    BY ProgramAssumption
  <1>4. EW!WalkInv
    BY <1>1, <1>2, <1>3 DEF EW!WalkInv, Untouched
  <1>5. EW!MissInv
    BY DEF EW!MissInv
  <1>6. QED
    BY <1>4, <1>5

\* The first walk takes no step when it is done.
LEMMA DoneIsLast == ASSUME Done PROVE ~ WalkNext
  BY DEF Done, WalkNext, Start, NextCallee, SecondLoop, Turn, Return

LEMMA ExplorationInitInv == ExplorationInit => ExplorationInv
  <1> SUFFICES ASSUME ExplorationInit PROVE ExplorationInv
    OBVIOUS
  <1>1. WalkTypeOK /\ SureInv /\ PointersOwed
    <2>1. Init /\ count_function_pointer = 0
      BY DEF ExplorationInit, Init
    <2>2. QED
      BY <2>1, InitType DEF SureInv, PointersOwed
  <1>2. all_callee_checker_results \subseteq EW!Sites
    BY RecordsAreSites DEF ExplorationInit
  <1>3. map_order \in MapOrders /\ Untouched /\ count_update_checker = 0
    BY DEF ExplorationInit, Untouched
  <1>4. QED
    BY <1>1, <1>2, <1>3 DEF ExplorationInv

\* A step of the walk for pointers keeps the invariant: the other one has not begun.
LEMMA CollectPointersInv == ASSUME ExplorationInv, CollectPointers PROVE ExplorationInv'
  <1>1. WalkNext /\ UNCHANGED resultvars
    BY DEF CollectPointers
  <1>2. WalkTypeOK' /\ SureInv' /\ PointersOwed'
    BY <1>1, NextType, SureInvStep, OwedStep DEF ExplorationInv
  <1>3. count_update_checker = 0 /\ Untouched
    BY <1>1, DoneIsLast DEF ExplorationInv
  <1>4. count_update_checker' = 0 /\ Untouched' /\ (map_order \in MapOrders)'
        /\ all_callee_checker_results' = all_callee_checker_results
    BY <1>1, <1>3 DEF resultvars, Untouched, ExplorationInv
  <1>5. (all_callee_checker_results \subseteq EW!Sites)'
    BY <1>4 DEF ExplorationInv, EW!Sites, DirectTargets, IndirectTargets, PointerTargets, TargetsAt, Of, Callees
  <1>6. QED
    BY <1>2, <1>4, <1>5 DEF ExplorationInv

\* A step of the walk for results keeps it: the pointers stay what they are.
LEMMA CollectResultsInv == ASSUME ExplorationInv, CollectResults PROVE ExplorationInv'
  <1>1. Done /\ EW!Next /\ UNCHANGED pointervars
    BY SameSteps DEF CollectResults, PointersAreCollected
  <1>2. UNCHANGED EW!inputs
    BY <1>1 DEF EW!Next, EW!Start, EW!SkipCallee, EW!RefuseCallee, EW!EnterCallee, EW!Return
  <1>3. UNCHANGED walkvars /\ UNCHANGED <<all_callee_checker_results, map_order>>
    BY <1>1, <1>2 DEF EW!inputs, pointervars, walkvars
  <1>4. WalkTypeOK' /\ SureInv' /\ PointersOwed'
    BY <1>3, NextType, SureInvStep, OwedStep DEF ExplorationInv
  <1>5. EW!WalkInv /\ EW!MissInv
    BY UntouchedInv DEF ExplorationInv
  <1>6. EW!WalkInv' /\ EW!MissInv'
    <2>1. [EW!Next]_(EW!vars)
      BY <1>1
    <2>2. QED
      BY <1>5, <2>1, EntryWalkApplies, EW!NextInv, EW!NextMiss DEF EW!NextInv, EW!NextMiss
  <1>7. count_update_checker' # 0
    <2>1. count_update_checker \in Nat /\ (count_update_checker = 0 => activations = <<>>)
      BY <1>5 DEF EW!WalkInv, EW!TypeOK
    <2>2. CASE EW!Start
      BY <2>2 DEF EW!Start
    <2>3. CASE EW!Return
      BY <2>1, <2>3 DEF EW!Return
    <2>4. ASSUME NEW p \in EW!Turn, EW!SkipCallee(p) \/ EW!RefuseCallee(p) \/ EW!EnterCallee(p)
          PROVE  count_update_checker' # 0
      <3>1. count_update_checker # 0
        BY <2>1 DEF EW!Turn
      <3>2. count_update_checker' = count_update_checker \/ count_update_checker' = count_update_checker + 1
        BY <2>4 DEF EW!SkipCallee, EW!RefuseCallee, EW!EnterCallee
      <3>3. QED
        BY <2>1, <3>1, <3>2
    <2>5. QED
      BY <1>1, <2>2, <2>3, <2>4 DEF EW!Next
  <1>8. Done'
    BY <1>1, <1>3 DEF Done, walkvars
  <1>9. (all_callee_checker_results \subseteq EW!Sites)' /\ (map_order \in MapOrders)'
    BY <1>3 DEF ExplorationInv, EW!Sites, DirectTargets, IndirectTargets, PointerTargets, TargetsAt, Of, Callees
  <1>10. QED
    BY <1>4, <1>6, <1>7, <1>8, <1>9 DEF ExplorationInv

\* Nothing changes in a step that is of neither walk.
LEMMA ExplorationStutter ==
    ASSUME ExplorationInv, UNCHANGED explorationvars PROVE ExplorationInv'
  <1>1. UNCHANGED walkvars /\ UNCHANGED resultvars
    BY DEF explorationvars
  <1>2. WalkTypeOK' /\ SureInv' /\ PointersOwed'
    BY <1>1, NextType, SureInvStep, OwedStep DEF ExplorationInv
  <1>3. (all_callee_checker_results \subseteq EW!Sites)' /\ (map_order \in MapOrders)'
    BY <1>1 DEF resultvars, ExplorationInv, EW!Sites, DirectTargets, IndirectTargets, PointerTargets,
                TargetsAt, Of, Callees
  <1>4. count_update_checker' = 0 => Untouched'
    BY <1>1 DEF resultvars, Untouched, ExplorationInv
  <1>5. count_update_checker' # 0 => Done' /\ EW!WalkInv' /\ EW!MissInv'
    <2>1. ASSUME count_update_checker' # 0 PROVE Done /\ EW!WalkInv /\ EW!MissInv
      BY <1>1, <2>1 DEF resultvars, ExplorationInv
    <2>2. UNCHANGED EW!vars
      BY <1>1 DEF walkvars, resultvars, EW!vars
    <2>3. Done' = Done
      BY <1>1 DEF walkvars, Done
    <2>4. QED
      BY <2>1, <2>2, <2>3, EntryWalkApplies, EW!NextInv, EW!NextMiss DEF EW!NextInv, EW!NextMiss
  <1>6. QED
    BY <1>2, <1>3, <1>4, <1>5 DEF ExplorationInv

\* The invariant holds in every state of both walks.
LEMMA ExplorationIsInOrder == ExplorationSpec => []ExplorationInv
  <1>1. ExplorationInv /\ [ExplorationNext]_explorationvars => ExplorationInv'
    BY CollectPointersInv, CollectResultsInv, ExplorationStutter DEF ExplorationNext
  <1>2. QED
    BY ExplorationInitInv, <1>1, PTL DEF ExplorationSpec

-----------------------------------------------------------------------------
(***************************************************************************)
(* What the invariant says of results.                                     *)
(***************************************************************************)

\* What a path of the second walk is.
LEMMA PathIs ==
    ASSUME NEW path \in EW!Paths
    PROVE  /\ Len(path) \in Nat /\ DOMAIN path = 1 .. Len(path)
           /\ \A k \in 1 .. Len(path) : path[k] \in all_callee_checker_results
           /\ EW!IsPath(path)
  BY EntryWalkApplies, EW!PathFacts DEF EW!PathFacts

\* The chain of a result on a path: each of its places belongs to the function the
\* place before has called.
LEMMA ChainOfPath ==
    ASSUME WalkTypeOK, all_callee_checker_results \subseteq EW!Sites,
           NEW path \in EW!Paths, NEW result \in EW!ResultsAt(path)
    PROVE  \A k \in 1 .. Len(result.call_chain) - 1 :
              /\ k \in 1 .. Len(path)
              /\ result.call_chain[k] = path[k][1]
              /\ Owner[result.call_chain[k + 1]] = path[k][2]
  <1> DEFINE m == Len(path)
             f == EW!At(path, m)
             calls == [j \in DOMAIN path |-> path[j][1]]
  <1>1. m \in Nat /\ DOMAIN path = 1 .. m
    BY PathIs
  <1>2. \A k \in 1 .. m : path[k][1] \in Insts /\ path[k][2] \in Functions
    BY PathIs DEF EW!Sites
  <1>3. \A k \in 1 .. m : Owner[path[k][1]] = EW!At(path, k - 1)
    BY PathIs DEF EW!IsPath
  <1>4. \A k \in 1 .. m : EW!At(path, k) = path[k][2]
    BY <1>1 DEF EW!At
  <1>5. f \in Functions
    <2>1. CASE m = 0
      BY <2>1, ProgramAssumption DEF EW!At, WalkTypeOK
    <2>2. CASE m # 0
      BY <1>1, <1>2, <1>4, <2>2
    <2>3. QED
      BY <2>1, <2>2
  <1>6. PICK j \in DOMAIN Results[f] : result.call_chain = Append(calls, InstOf[Results[f][j]])
    BY DEF EW!ResultsAt, EW!End
  <1>7. InstOf[Results[f][j]] \in Insts /\ Owner[InstOf[Results[f][j]]] = f
    <2> HIDE DEF f
    <2>1. Results[f] \in Seq(CheckerResults)
      BY <1>5, ProgramsAgree
    <2>2. QED
      BY <1>5, <1>6, <2>1, ProgramsAgree
  <1>8. calls \in Seq(Insts) /\ Len(calls) = m /\ \A k \in 1 .. m : calls[k] = path[k][1]
    BY <1>1, <1>2
  <1> DEFINE last == InstOf[Results[f][j]]
  <1> HIDE DEF calls, last, f, m
  <1>9. /\ Len(result.call_chain) = m + 1
        /\ \A k \in 1 .. m : result.call_chain[k] = path[k][1]
        /\ result.call_chain[m + 1] = last
    BY <1>1, <1>6, <1>8 DEF last
  <1> SUFFICES ASSUME NEW k \in 1 .. m
               PROVE  Owner[result.call_chain[k + 1]] = path[k][2]
    BY <1>1, <1>9 DEF m
  <1>10. CASE k = m
    BY <1>4, <1>7, <1>9, <1>10 DEF f, last
  <1>11. CASE k # m
    <2>1. k + 1 \in 1 .. m /\ (k + 1) - 1 = k
      BY <1>1, <1>11
    <2>2. Owner[path[k + 1][1]] = EW!At(path, k)
      BY <1>3, <2>1
    <2>3. QED
      BY <1>4, <1>9, <2>1, <2>2
  <1>12. QED
    BY <1>10, <1>11

\* Collected results have their paths, and indirect calls of paths their pointers.
LEMMA ResultsAreJustified == ExplorationInv => IndirectCallsAreJustified
  <1> SUFFICES ASSUME ExplorationInv, NEW n \in DOMAIN all_checker_results
               PROVE  LET chain == all_checker_results[n].call_chain IN
                      \A k \in 1 .. Len(chain) - 1 :
                         LET g == Owner[chain[k + 1]] IN
                         g \in IndirectTargets[chain[k]] =>
                            \/ g \in DirectTargets[chain[k]]
                            \/ g \in inherited
                            \/ \E f \in visited : g \in PassedBy(f)
    BY DEF IndirectCallsAreJustified
  <1> DEFINE result == all_checker_results[n]
             chain == result.call_chain
  <1>1. count_update_checker # 0
    BY DEF ExplorationInv, Untouched
  <1>2. WalkTypeOK /\ Done /\ EW!WalkInv /\ PointersOwed /\ all_callee_checker_results \subseteq EW!Sites
    BY <1>1 DEF ExplorationInv
  <1>3. result \in EW!Expected
    BY <1>2 DEF EW!WalkInv, EW!NothingSpurious, EW!Collected
  <1>4. PICK path \in EW!Paths : result \in EW!ResultsAt(path)
    BY <1>3 DEF EW!Expected
  <1> HIDE DEF result
  <1> SUFFICES ASSUME NEW k \in 1 .. Len(chain) - 1,
                      Owner[chain[k + 1]] \in IndirectTargets[chain[k]],
                      Owner[chain[k + 1]] \notin DirectTargets[chain[k]]
               PROVE  \/ Owner[chain[k + 1]] \in inherited
                      \/ \E f \in visited : Owner[chain[k + 1]] \in PassedBy(f)
    BY DEF result
  <1>5. k \in 1 .. Len(path) /\ chain[k] = path[k][1] /\ Owner[chain[k + 1]] = path[k][2]
    BY <1>2, <1>4, ChainOfPath
  <1>6. EW!Followed(path[k])
    BY <1>4, <1>5, PathIs DEF EW!IsPath
  <1>7. path[k][2] \in function_pointers
    BY <1>5, <1>6 DEF EW!Followed
  <1>8. QED
    BY <1>2, <1>5, <1>7 DEF PointersOwed, Done

(***************************************************************************)
(* A collected result owes every indirect call of its chain to a function  *)
(* the walk for pointers has entered, or to the parent's entry: no result  *)
(* is made for a driver by a callback nobody registers on the way to it.   *)
(***************************************************************************)
THEOREM IndirectCallsJustified == ExplorationSpec => []IndirectCallsAreJustified
  BY ExplorationIsInOrder, ResultsAreJustified, PTL

-----------------------------------------------------------------------------
(***************************************************************************)
(* Sure paths.                                                             *)
(***************************************************************************)

\* Once the pointers that are sure have been collected, sure paths are paths.
LEMMA SurePathsArePaths ==
    ASSUME SurePointers \subseteq function_pointers, all_callee_checker_results \subseteq EW!Sites
    PROVE  SurePaths \subseteq EW!Paths
  <1> SUFFICES ASSUME NEW path \in SurePaths PROVE path \in EW!Paths
    OBVIOUS
  <1>1. PICK n \in 0 .. MAX_FUNC_DEPTH : path \in [1 .. n -> SureSites]
    BY DEF SurePaths
  <1>2. n \in Nat /\ Len(path) = n
    BY <1>1, ProgramAssumption
  <1>3. \A s \in SureSites : s \in all_callee_checker_results /\ s[2] \notin SkippedFunctions /\ SureSite(s)
    BY DEF SureSites
  <1>4. path \in [1 .. n -> all_callee_checker_results]
    BY <1>1, <1>3
  <1>5. ASSUME NEW s \in SureSites PROVE EW!Followed(s)
    <2>1. s[2] \in Functions
      BY <1>5 DEF SureSites, EW!Sites
    <2>2. QED
      BY <1>3, <2>1, SameWords DEF SureSite, EW!Followed, EW!IsPointer
  <1>6. EW!IsPath(path)
    <2>1. t_function \notin SkippedFunctions
      BY DEF SurePaths
    <2>2. ASSUME NEW k \in 1 .. Len(path)
          PROVE  /\ Owner[path[k][1]] = EW!At(path, k - 1)
                 /\ \A j \in 0 .. k - 1 : RealName[EW!At(path, j)] # RealName[path[k][2]]
      BY SameWords DEF SurePaths
    <2>3. QED
      BY <1>1, <1>2, <1>3, <1>5, <2>1, <2>2 DEF EW!IsPath
  <1>7. QED
    BY <1>1, <1>4, <1>6 DEF EW!Paths

\* At the end both walks have what is sure.
LEMMA SureIsCollected == ExplorationInv => SureResultsCollected
  <1> SUFFICES ASSUME ExplorationInv, Walk!Done, ~ Exhausted, ~ Walk!Exhausted, NEW path \in SurePaths
               PROVE  Walk!ResultsAt(path) \subseteq Walk!Collected
    BY DEF SureResultsCollected
  <1>1. count_update_checker # 0
    BY DEF Walk!Done
  <1>2. /\ WalkTypeOK /\ SureInv /\ Done /\ EW!WalkInv /\ EW!MissInv
        /\ all_callee_checker_results \subseteq EW!Sites
    BY <1>1 DEF ExplorationInv
  <1>3. SurePointers \subseteq function_pointers
    BY <1>2, SureInvEnd DEF SurePointersCollected, SurePointers
  <1>4. path \in EW!Paths
    BY <1>2, <1>3, SurePathsArePaths
  <1>5. EW!NothingMissed
    BY <1>2, EntryWalkApplies, EW!MissEnd DEF EW!MissEnd
  <1>6. EW!ResultsAt(path) \subseteq EW!Collected
    BY <1>4, <1>5, SameWords DEF EW!NothingMissed, EW!Expected
  <1>7. QED
    BY <1>6, SameWords

(***************************************************************************)
(* The two walks together miss nothing that is sure: when neither runs out *)
(* of its number of calls, the results on every path of direct calls,      *)
(* telling callbacks and indirect calls to pointers that are sure to be    *)
(* collected are there, with the chain of that path, whatever the orders   *)
(* of callees, heap and map, and whatever call sites the pass has left.    *)
(***************************************************************************)
THEOREM SureResultsAreCollected == ExplorationSpec => []SureResultsCollected
  BY ExplorationIsInOrder, SureIsCollected, PTL

-----------------------------------------------------------------------------
(***************************************************************************)
(* The walk for pointers inside the exploration is the walk for pointers.  *)
(***************************************************************************)

\* A step of the exploration is one of the walk for pointers, or leaves it alone.
LEMMA StepOfWalk == ASSUME ExplorationInv, [ExplorationNext]_explorationvars PROVE [WalkNext]_walkvars
  <1>1. ASSUME CollectResults PROVE UNCHANGED walkvars
    <2>1. EW!Next /\ UNCHANGED pointervars
      BY <1>1, SameSteps DEF CollectResults
    <2>2. UNCHANGED EW!inputs
      BY <2>1 DEF EW!Next, EW!Start, EW!SkipCallee, EW!RefuseCallee, EW!EnterCallee, EW!Return
    <2>3. QED
      BY <2>1, <2>2 DEF EW!inputs, pointervars, walkvars
  <1>2. QED
    BY <1>1 DEF ExplorationNext, CollectPointers, explorationvars

(***************************************************************************)
(* What was proved of check_function_pointer() alone holds of it followed  *)
(* by update_checker_results(): its limits are kept, it implements the     *)
(* order-free closure, and pointers collected for certain stay collected.  *)
(***************************************************************************)
THEOREM ExplorationKeepsTheWalk ==
    ExplorationSpec => [](WalkTypeOK /\ SurePointersCollected) /\ ImplementsPointerClosure
  <1>1. ExplorationInv => WalkTypeOK /\ SurePointersCollected
    BY SureInvEnd DEF ExplorationInv
  <1>2. ExplorationInit => PC!Init
    BY InitRefines DEF ExplorationInit
  <1>3. ExplorationInv /\ ExplorationInv' /\ [ExplorationNext]_explorationvars => [PC!Next]_(PC!absvars)
    BY StepOfWalk, NextRefines DEF ExplorationInv
  <1>4. QED
    BY <1>1, <1>2, <1>3, ExplorationIsInOrder, PTL DEF ExplorationSpec, ImplementsPointerClosure, PC!Spec
=============================================================================
