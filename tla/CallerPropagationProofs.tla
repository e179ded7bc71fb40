---------------------- MODULE CallerPropagationProofs ----------------------
(***************************************************************************)
(* Proofs about module CallerPropagation, for every program, every heap    *)
(* order and every outcome of check(k).                                    *)
(***************************************************************************)
EXTENDS CallerPropagation, SequenceTheorems, NaturalsInduction, WellFoundedInduction, TLAPS

(***************************************************************************)
(* Facts about the stack of activations.                                   *)
(***************************************************************************)

\* An activation of a function of the program is a frame.
LEMMA ActivationType ==
    ASSUME NEW f \in Functions, NEW r \in Nat
    PROVE  Activation(f, r) \in Frame
  BY DEF Activation, Frame

\* Only an activation on top gives turns, to the callers it holds.
LEMMA TurnFacts ==
    ASSUME TypeOK, NEW kc \in Turn
    PROVE  /\ stack # <<>>
           /\ Len(stack) \in Nat /\ Len(stack) > 0
           /\ Top \in Frame
           /\ Top = stack[Len(stack)]
           /\ kc \in Top.callers
           /\ kc[1] \in Kinds /\ kc[2] \in Functions
           /\ kc = <<kc[1], kc[2]>>
  <1>1. stack # <<>> /\ kc \in Top.callers
    BY DEF Turn
  <1>2. Len(stack) \in Nat /\ Len(stack) > 0 /\ Top \in Frame
    BY <1>1 DEF TypeOK, Top
  <1>3. QED
    BY <1>1, <1>2 DEF Top, Frame

\* Visiting a caller takes it from the frame on top and changes nothing else.
LEMMA VisitedFacts ==
    ASSUME TypeOK, NEW kc \in Turn
    PROVE  /\ Visited(kc) \in Seq(Frame)
           /\ Len(Visited(kc)) = Len(stack)
           /\ \A n \in 1 .. Len(stack) :
                 /\ Visited(kc)[n].fn = stack[n].fn
                 /\ Visited(kc)[n].ret = stack[n].ret
                 /\ Visited(kc)[n].callers =
                       IF n = Len(stack) THEN stack[n].callers \ {kc}
                                         ELSE stack[n].callers
  <1> DEFINE n == Len(stack)
             top == [stack[n] EXCEPT !.callers = @ \ {kc}]
  <1>1. n \in Nat /\ n > 0 /\ stack[n] \in Frame /\ stack \in Seq(Frame)
    BY TurnFacts DEF TypeOK
  <1>2. top \in Frame
    BY <1>1 DEF Frame
  <1>3. Visited(kc) = [stack EXCEPT ![n] = top]
    BY DEF Visited
  <1>4. n \in 1 .. Len(stack)
    BY <1>1
  <1> HIDE DEF n, top
  <1>5. /\ Visited(kc) \in Seq(Frame)
        /\ Len(Visited(kc)) = Len(stack)
        /\ \A m \in 1 .. Len(stack) :
              Visited(kc)[m] = IF m = n THEN top ELSE stack[m]
    BY <1>1, <1>2, <1>3, <1>4, ExceptSeq
  <1>6. /\ top.fn = stack[n].fn /\ top.ret = stack[n].ret
        /\ top.callers = stack[n].callers \ {kc}
    BY <1>1 DEF Frame, top
  <1>7. ASSUME NEW m \in 1 .. Len(stack)
        PROVE  /\ Visited(kc)[m].fn = stack[m].fn
               /\ Visited(kc)[m].ret = stack[m].ret
               /\ Visited(kc)[m].callers =
                     IF m = n THEN stack[m].callers \ {kc} ELSE stack[m].callers
    <2>1. CASE m = n
      BY <1>5, <1>6, <2>1
    <2>2. CASE m # n
      BY <1>5, <2>2
    <2>3. QED
      BY <2>1, <2>2
  <1>8. QED
    BY <1>5, <1>7 DEF n

(***************************************************************************)
(* The type invariant.                                                     *)
(***************************************************************************)

\* The initial state is well typed.
LEMMA InitType == Init => TypeOK
  BY BoundAssumption DEF Init, TypeOK, CheckOutcome, DirectSites

\* Every step keeps the types.
LEMMA NextType == TypeOK /\ [Next]_vars => TypeOK'
  <1> SUFFICES ASSUME TypeOK, [Next]_vars PROVE TypeOK'
    OBVIOUS
  <1> USE DEF TypeOK
  <1>1. ASSUME NEW f \in Functions, StartCheckCaller(f) PROVE TypeOK'
    <2> DEFINE ret == num_checkers_check_caller[f] + checker_results[f]
    <2>1. ret \in Nat
      BY BoundAssumption
    <2>2. Activation(f, ret) \in Frame
      BY <2>1, ActivationType
    <2>3. stack' \in Seq(Frame)
      BY <1>1, <2>2 DEF StartCheckCaller, Reports
    <2>4. QED
      BY <1>1, <2>3 DEF StartCheckCaller, Reports
  <1>2. ASSUME NEW kc \in Turn, SkipRecorded(kc) PROVE TypeOK'
    BY <1>2, VisitedFacts DEF SkipRecorded
  <1>3. ASSUME NEW kc \in Turn, SkipChecked(kc) PROVE TypeOK'
    BY <1>3, VisitedFacts DEF SkipChecked
  <1>4. ASSUME NEW kc \in Turn, NEW i \in Insts, RecordCaller(kc, i) PROVE TypeOK'
    <2>1. Top.fn \in Functions /\ Top.ret \in Nat /\ kc[2] \in Functions
      BY TurnFacts DEF Frame
    <2>2. Activation(kc[2], Top.ret + checker_results[kc[2]]) \in Frame
      BY <2>1, ActivationType, BoundAssumption
    <2>3. stack' \in Seq(Frame)
      BY <1>4, <2>2, VisitedFacts DEF RecordCaller
    <2>4. num_checkers_check_caller' \in [Functions -> Nat]
      BY <1>4, <2>1 DEF RecordCaller
    <2>5. QED
      BY <1>4, <2>1, <2>3, <2>4 DEF RecordCaller
  <1>5. CASE Return
    <2>1. stack' \in Seq(Frame)
      BY <1>5 DEF Return
    <2>2. QED
      BY <1>5, <2>1 DEF Return
  <1>6. ASSUME NEW results, NEW sites, UpdateFunction(results, sites) PROVE TypeOK'
    BY <1>6 DEF UpdateFunction, ResetCount, CheckOutcome, DirectSites
  <1>7. CASE UNCHANGED vars
    BY <1>7 DEF vars
  <1>8. QED
    BY <1>1, <1>2, <1>3, <1>4, <1>5, <1>6, <1>7 DEF Next, CheckCaller

\* The state of the pass is well typed in every reachable state.
THEOREM TypeCorrect == Spec => []TypeOK
  BY InitType, NextType, PTL DEF Spec

(***************************************************************************)
(* One site per pair: RecordCaller is the only action that adds a site,    *)
(* and it does so only for a pair that has none.                           *)
(***************************************************************************)

\* A step keeps the recorded sites, except that it may add one for a new pair.
LEMMA NextRecords ==
    ASSUME [Next]_vars
    PROVE  \/ all_callee_checker_results' = all_callee_checker_results
           \/ \E kc \in Turn, i \in Insts : RecordCaller(kc, i)
  BY DEF Next, CheckCaller, StartCheckCaller, SkipRecorded, SkipChecked, Return,
         UpdateFunction, vars

\* The site of a pair belongs to the caller.
LEMMA FirstSiteFacts ==
    ASSUME NEW kind \in Kinds, NEW c \in Functions, NEW g \in Functions,
           NEW i, IsFirstSite(kind, c, g, i)
    PROVE  i \in Insts /\ Owner[i] = c /\ g \in Targets(kind)[i]
  BY DEF IsFirstSite, Sites

\* What RecordCaller adds, stated once for the invariants below.
LEMMA RecordCallerFacts ==
    ASSUME TypeOK, NEW kc \in Turn, NEW i \in Insts, RecordCaller(kc, i)
    PROVE  /\ kc[1] \in Kinds /\ kc[2] \in Functions /\ Top.fn \in Functions
           /\ Owner[i] = kc[2]
           /\ ~ Recorded(kc[2], Top.fn)
           /\ all_callee_checker_results'
                 = all_callee_checker_results \cup {<<i, Top.fn>>}
  <1>1. kc[1] \in Kinds /\ kc[2] \in Functions /\ Top.fn \in Functions
    BY TurnFacts DEF Frame
  <1>2. IsFirstSite(kc[1], kc[2], Top.fn, i)
    BY DEF RecordCaller
  <1>3. QED
    BY <1>1, <1>2, FirstSiteFacts DEF RecordCaller

\* However the pass runs, a caller records at most one site per callee.
THEOREM OneSitePerPairHolds == Spec => []OneSitePerPair
  <1>1. Init => OneSitePerPair
    BY DEF Init, OneSitePerPair
  <1>2. TypeOK /\ OneSitePerPair /\ [Next]_vars => OneSitePerPair'
    <2> SUFFICES ASSUME TypeOK, OneSitePerPair, [Next]_vars PROVE OneSitePerPair'
      OBVIOUS
    <2>1. CASE all_callee_checker_results' = all_callee_checker_results
      BY <2>1 DEF OneSitePerPair
    <2>2. ASSUME NEW kc \in Turn, NEW i \in Insts, RecordCaller(kc, i)
          PROVE  OneSitePerPair'
      <3>0. /\ ~ Recorded(Owner[i], Top.fn)
            /\ all_callee_checker_results'
                  = all_callee_checker_results \cup {<<i, Top.fn>>}
        BY <2>2, RecordCallerFacts
      <3>1. ASSUME NEW e \in all_callee_checker_results
            PROVE  ~ (Owner[e[1]] = Owner[i] /\ e[2] = Top.fn)
        <4>1. e[1] \in Insts /\ e = <<e[1], e[2]>>
          BY DEF TypeOK
        <4>2. QED
          BY <3>0, <4>1 DEF Recorded
      <3>2. SUFFICES ASSUME NEW e1 \in all_callee_checker_results',
                            NEW e2 \in all_callee_checker_results',
                            Owner[e1[1]] = Owner[e2[1]] /\ e1[2] = e2[2]
                     PROVE  e1 = e2
        BY DEF OneSitePerPair
      <3>3. \A e \in all_callee_checker_results' :
               e \in all_callee_checker_results \/ e = <<i, Top.fn>>
        BY <3>0
      <3>4. QED
        BY <3>1, <3>2, <3>3 DEF OneSitePerPair
    <2>3. QED
      BY <2>1, <2>2, NextRecords
  <1>3. QED
    BY <1>1, <1>2, TypeCorrect, PTL DEF Spec

(***************************************************************************)
(* No spurious site.  The inductive invariant adds to the property that    *)
(* every activation is of a function that leads to a result, and that the  *)
(* callers it has yet to visit are callers of that function.               *)
(***************************************************************************)

\* Activations are of functions that lead to a result, and hold their callers.
StackJustified ==
    \A n \in 1 .. Len(stack) :
       /\ stack[n].fn \in Leading(MayCall)
       /\ stack[n].ret > 0
       /\ \A kc \in stack[n].callers : kc[2] \in Callers[kc[1]][stack[n].fn]

JustifiedInv == RecordedLeadsToResult /\ StackJustified

\* A function with checker results leads to one.
LEMMA HotLeads == Hot \subseteq Leading(MayCall)
  BY DEF Leading, Hot

\* So does a caller of a function that does.
LEMMA CallerLeads ==
    ASSUME NEW g \in Leading(MayCall), NEW c \in Functions,
           NEW kind \in Kinds, c \in Callers[kind][g]
    PROVE  c \in Leading(MayCall)
  <1>1. g \in Functions
    BY DEF Leading
  <1>2. <<c, g>> \in MayCall
    BY <1>1 DEF MayCall
  <1>3. QED
    BY <1>2 DEF Leading

\* More checker results make more functions lead to one.
LEMMA LeadingGrows ==
    ASSUME Hot \subseteq Hot'
    PROVE  Leading(MayCall) \subseteq Leading(MayCall)'
  BY DEF Leading

\* The callers of a new activation are callers of its function.
LEMMA ActivationCallers ==
    ASSUME NEW f \in Functions, NEW r \in Nat
    PROVE  /\ Activation(f, r).fn = f
           /\ Activation(f, r).ret = r
           /\ \A kc \in Activation(f, r).callers : kc[2] \in Callers[kc[1]][f]
           /\ \A kind \in Kinds : \A c \in Callers[kind][f] :
                 c \in Functions => <<kind, c>> \in Activation(f, r).callers
  BY DEF Activation

\* Every step keeps JustifiedInv.
LEMMA NextJustified == TypeOK /\ JustifiedInv /\ [Next]_vars => JustifiedInv'
  <1> SUFFICES ASSUME TypeOK, JustifiedInv, [Next]_vars PROVE JustifiedInv'
    OBVIOUS
  <1> USE DEF JustifiedInv
  <1>0. checker_results' = checker_results => Leading(MayCall)' = Leading(MayCall)
    BY DEF Leading, Hot
  <1>1. ASSUME NEW f \in Functions, StartCheckCaller(f) PROVE JustifiedInv'
    <2> DEFINE ret == num_checkers_check_caller[f] + checker_results[f]
    <2>1. RecordedLeadsToResult'
      BY <1>0, <1>1 DEF StartCheckCaller, Reports, RecordedLeadsToResult
    <2>2. CASE ret > 0
      <3>1. ret \in Nat /\ f \in Leading(MayCall)
        BY <2>2, HotLeads, BoundAssumption
           DEF TypeOK, RecordedLeadsToResult, Hot
      <3>2. stack' = <<Activation(f, ret)>>
        BY <1>1, <2>2 DEF StartCheckCaller, Reports
      <3>3. QED
        BY <1>0, <1>1, <2>1, <2>2, <3>1, <3>2, ActivationCallers
           DEF StackJustified, StartCheckCaller, Reports
    <2>3. CASE ~ (ret > 0)
      BY <1>1, <2>1, <2>3 DEF StartCheckCaller, Reports, StackJustified
    <2>4. QED
      BY <2>2, <2>3
  <1>2. ASSUME NEW kc \in Turn, stack' = Visited(kc) PROVE
            checker_results' = checker_results => StackJustified'
    <2> SUFFICES ASSUME checker_results' = checker_results PROVE StackJustified'
      OBVIOUS
    <2>1. /\ Len(stack') = Len(stack)
          /\ \A n \in 1 .. Len(stack) :
                /\ stack'[n].fn = stack[n].fn
                /\ stack'[n].ret = stack[n].ret
                /\ stack'[n].callers \subseteq stack[n].callers
      BY <1>2, VisitedFacts
    <2>2. QED
      BY <1>0, <2>1 DEF StackJustified
  <1>3. ASSUME NEW kc \in Turn, SkipRecorded(kc) PROVE JustifiedInv'
    BY <1>0, <1>2, <1>3 DEF SkipRecorded, RecordedLeadsToResult
  <1>4. ASSUME NEW kc \in Turn, SkipChecked(kc) PROVE JustifiedInv'
    BY <1>0, <1>2, <1>4 DEF SkipChecked, RecordedLeadsToResult
  <1>5. ASSUME NEW kc \in Turn, NEW i \in Insts, RecordCaller(kc, i)
        PROVE  JustifiedInv'
    <2> DEFINE c == kc[2]
               pushed == Activation(c, Top.ret + checker_results[c])
    <2>1. /\ Top \in Frame /\ c \in Functions /\ kc[1] \in Kinds
          /\ Top = stack[Len(stack)] /\ kc \in Top.callers
          /\ Len(stack) \in Nat /\ Len(stack) > 0
      BY TurnFacts
    <2>2. Top.fn \in Leading(MayCall) /\ Top.ret > 0 /\ Top.ret \in Nat
      BY <2>1 DEF StackJustified, Frame
    <2>3. c \in Leading(MayCall)
      BY <2>1, <2>2, CallerLeads DEF StackJustified
    <2>4. RecordedLeadsToResult'
      <3>1. \A e \in all_callee_checker_results' : e[2] \in Leading(MayCall)'
        BY <1>0, <1>5, <2>2 DEF RecordCaller, RecordedLeadsToResult
      <3>2. \A f \in Functions :
               num_checkers_check_caller'[f] > 0 => f \in Leading(MayCall)'
        BY <1>0, <1>5, <2>1, <2>3 DEF RecordCaller, RecordedLeadsToResult, TypeOK
      <3>3. QED
        BY <3>1, <3>2 DEF RecordedLeadsToResult
    <2>5. CASE num_checkers_check_caller[c] = 0
      <3>1. stack' = Append(Visited(kc), pushed)
        BY <1>5, <2>5 DEF RecordCaller, FirstReached
      <3>2. Top.ret + checker_results[c] \in Nat /\ Top.ret + checker_results[c] > 0
        BY <2>1, <2>2, BoundAssumption, SMTT(20) DEF TypeOK
      <3>3. /\ pushed.fn = c /\ pushed.ret > 0
            /\ \A x \in pushed.callers : x[2] \in Callers[x[1]][c]
        BY <2>1, <3>2, ActivationCallers
      <3> HIDE DEF pushed
      <3>4. /\ Len(stack') = Len(stack) + 1
            /\ \A n \in 1 .. Len(stack) : stack'[n] = Visited(kc)[n]
            /\ stack'[Len(stack) + 1] = pushed
        BY <2>1, <3>1, VisitedFacts
      <3>5. \A n \in 1 .. Len(stack') : n \in 1 .. Len(stack) \/ n = Len(stack) + 1
        BY <2>1, <3>4
      <3>6. \A n \in 1 .. Len(stack) :
               /\ stack'[n].fn = stack[n].fn
               /\ stack'[n].ret = stack[n].ret
               /\ stack'[n].callers \subseteq stack[n].callers
        <4>1. \A n \in 1 .. Len(stack) :
                 /\ Visited(kc)[n].fn = stack[n].fn
                 /\ Visited(kc)[n].ret = stack[n].ret
                 /\ Visited(kc)[n].callers \subseteq stack[n].callers
          BY VisitedFacts
        <4>2. QED
          BY <3>4, <4>1
      <3>7. Leading(MayCall)' = Leading(MayCall)
        BY <1>0, <1>5 DEF RecordCaller
      <3>8. StackJustified'
        BY <2>3, <3>3, <3>4, <3>5, <3>6, <3>7 DEF StackJustified
      <3>9. QED
        BY <2>4, <3>8
    <2>6. CASE num_checkers_check_caller[c] # 0
      BY <1>2, <1>5, <2>4, <2>6 DEF RecordCaller, FirstReached
    <2>7. QED
      BY <2>5, <2>6
  <1>6. CASE Return
    <2>1. \A n \in 1 .. Len(stack') : n \in 1 .. Len(stack) /\ stack'[n] = stack[n]
      BY <1>6 DEF Return, TypeOK
    <2>2. QED
      BY <1>0, <1>6, <2>1 DEF Return, StackJustified, RecordedLeadsToResult
  <1>7. ASSUME NEW results, NEW sites, UpdateFunction(results, sites)
        PROVE  JustifiedInv'
    <2>1. Hot \subseteq Hot'
      BY <1>7, BoundAssumption DEF UpdateFunction, CheckOutcome, Hot, TypeOK
    <2>2. QED
      BY <1>7, <2>1, LeadingGrows
         DEF UpdateFunction, ResetCount, RecordedLeadsToResult, StackJustified, Done
  <1>8. CASE UNCHANGED vars
    BY <1>0, <1>8 DEF vars, RecordedLeadsToResult, StackJustified
  <1>9. QED
    BY <1>1, <1>3, <1>4, <1>5, <1>6, <1>7, <1>8 DEF Next, CheckCaller

\* No step of any pass records a call that cannot lead to a checker result.
THEOREM NoSpuriousSite == Spec => []RecordedLeadsToResult
  <1>1. Init => JustifiedInv
    BY DEF Init, JustifiedInv, RecordedLeadsToResult, StackJustified
  <1>2. QED
    BY <1>1, NextJustified, TypeCorrect, PTL DEF Spec, JustifiedInv

(***************************************************************************)
(* No missing site.  A function that was reached, by its own results or by *)
(* a site recorded in it, is explored: every pair with it as callee that   *)
(* the pass requires is recorded, or an activation of it has yet to visit  *)
(* the caller in a way that will record it.  No activation ever starts     *)
(* twice to repair an earlier one, so this must hold at every step, and    *)
(* across an update, which finds the sites of the passes before.           *)
(***************************************************************************)

\* The caller c of g is among those an activation has yet to visit.
Pending(c, g) ==
    \E n \in 1 .. Len(stack), kind \in Kinds :
       /\ stack[n].fn = g
       /\ <<kind, c>> \in stack[n].callers
       /\ kind = "direct" =>
             \E i \in Insts : IsFirstSite("direct", c, g, i) /\ i \notin checked

Explored(g) == \A c \in Functions : <<c, g>> \in Required => Recorded(c, g) \/ Pending(c, g)

\* A site is recorded in f.
HasSite(f) == \E g \in Functions : Recorded(f, g)

Reached(f) == (f \in Hot /\ f \notin todo) \/ HasSite(f)

CompleteInv ==
    /\ \A f \in Functions : Reached(f) => Explored(f)
    /\ \A f \in Functions : num_checkers_check_caller[f] # 0 => HasSite(f)
    /\ \A n \in 1 .. Len(stack) : stack[n].fn \in Hot \/ HasSite(stack[n].fn)

\* What an activation has yet to visit are callers of its function.
LEMMA StackCallers ==
    ASSUME TypeOK, StackJustified, NEW kc \in Turn
    PROVE  Top.fn \in Functions /\ kc[2] \in Callers[kc[1]][Top.fn]
  BY TurnFacts DEF StackJustified, Frame

\* The first direct site is unique, because map_order is an order.
LEMMA FirstSiteUnique ==
    ASSUME TypeOK, NEW c \in Functions, NEW g \in Functions, NEW i, NEW j,
           IsFirstSite("direct", c, g, i), IsFirstSite("direct", c, g, j)
    PROVE  i = j
  <1>1. "direct" \in Kinds
    BY DEF Kinds
  <1>2. i \in Insts /\ j \in Insts /\ i \in Sites["direct"][c][g] /\ j \in Sites["direct"][c][g]
    BY <1>1, FirstSiteFacts DEF IsFirstSite
  <1>3. map_order[i] <= map_order[j] /\ map_order[j] <= map_order[i]
    BY <1>2 DEF IsFirstSite
  <1>4. map_order \in [Insts -> Nat]
    BY BoundAssumption DEF TypeOK
  <1>5. map_order[i] = map_order[j]
    BY <1>2, <1>3, <1>4
  <1>6. QED
    BY <1>2, <1>5, BoundAssumption DEF TypeOK

\* A required pair is called in a way that records it.
LEMMA RequiredKind ==
    ASSUME NEW c \in Functions, NEW g \in Functions, <<c, g>> \in Required
    PROVE  \E kind \in Kinds :
              /\ c \in Callers[kind][g]
              /\ kind = "direct" =>
                    \E i \in Insts : IsFirstSite("direct", c, g, i) /\ i \notin checked
  <1>1. ~ Cut(c, g)
    BY DEF Required
  <1>2. CASE c \in Callers["indirect"][g] \cup Callers["pointer"][g]
    BY <1>2 DEF Kinds
  <1>3. CASE \E i \in Sites["direct"][c][g] : IsFirstSite("direct", c, g, i) /\ i \notin checked
    <2>1. PICK i \in Sites["direct"][c][g] : IsFirstSite("direct", c, g, i) /\ i \notin checked
      BY <1>3
    <2>2. "direct" \in Kinds
      BY DEF Kinds
    <2>3. i \in Insts
      BY <2>1, <2>2, FirstSiteFacts
    <2>4. c \in Callers["direct"][g]
      BY <2>1, <2>2 DEF Callers
    <2>5. QED
      BY <2>1, <2>2, <2>3, <2>4
  <1>4. QED
    BY <1>1, <1>2, <1>3 DEF Cut

\* And what is recorded is required.
LEMMA RecordedIsRequired ==
    ASSUME TypeOK, StackJustified, NEW kc \in Turn, NEW i \in Insts, RecordCaller(kc, i)
    PROVE  <<kc[2], Top.fn>> \in Required
  <1> DEFINE c == kc[2]
             g == Top.fn
  <1>1. kc[1] \in Kinds /\ c \in Functions /\ g \in Functions /\ c \in Callers[kc[1]][g]
    BY TurnFacts, StackCallers
  <1>2. IsFirstSite(kc[1], c, g, i) /\ (kc[1] = "direct" => i \notin checked)
    BY DEF RecordCaller, MayRecord
  <1> HIDE DEF c, g
  <1>3. <<c, g>> \in MayCall
    BY <1>1 DEF MayCall
  <1>4. ~ Cut(c, g)
    <2>1. CASE kc[1] = "direct"
      BY <1>2, <2>1 DEF Cut, IsFirstSite
    <2>2. CASE kc[1] # "direct"
      BY <1>1, <2>2 DEF Cut, Kinds
    <2>3. QED
      BY <2>1, <2>2
  <1>5. QED
    BY <1>3, <1>4 DEF Required, c, g

\* What is required, and what is recorded, while program and knowledge stay.
LEMMA SameRequired ==
    ASSUME UNCHANGED <<map_order, checked>>
    PROVE  /\ Required' = Required
           /\ \A c, g, i : IsFirstSite("direct", c, g, i)' <=> IsFirstSite("direct", c, g, i)
  BY DEF Required, Cut, IsFirstSite

\* Recorded sites are never removed, so what has one keeps it.
LEMMA RecordedGrows ==
    ASSUME all_callee_checker_results \subseteq all_callee_checker_results'
    PROVE  /\ \A c, g : Recorded(c, g) => Recorded(c, g)'
           /\ \A f : HasSite(f) => HasSite(f)'
  BY DEF Recorded, HasSite

\* A new activation explores its function.
LEMMA NewExplored ==
    ASSUME UNCHANGED <<map_order, checked>>,
           NEW g \in Functions, NEW r \in Nat, NEW m \in 1 .. Len(stack'),
           stack'[m] = Activation(g, r)
    PROVE  Explored(g)'
  <1> SUFFICES ASSUME NEW c \in Functions, <<c, g>> \in Required
               PROVE  Pending(c, g)'
    BY SameRequired DEF Explored
  <1>1. PICK kind \in Kinds :
           /\ c \in Callers[kind][g]
           /\ kind = "direct" =>
                 \E i \in Insts : IsFirstSite("direct", c, g, i) /\ i \notin checked
    BY RequiredKind
  <1>2. stack'[m].fn = g /\ <<kind, c>> \in stack'[m].callers
    BY <1>1, ActivationCallers
  <1>3. kind = "direct" =>
           \E i \in Insts : IsFirstSite("direct", c, g, i)' /\ i \notin checked'
    BY <1>1, SameRequired
  <1>4. QED
    BY <1>2, <1>3 DEF Pending

\* The visit of a caller loses nothing: its pair is recorded or cut.
LEMMA VisitExplored ==
    ASSUME TypeOK, NEW kc \in Turn, UNCHANGED <<map_order, checked>>,
           all_callee_checker_results \subseteq all_callee_checker_results',
           \A n \in 1 .. Len(stack) :
              /\ n \in 1 .. Len(stack')
              /\ stack'[n].fn = stack[n].fn
              /\ stack[n].callers \ {kc} \subseteq stack'[n].callers
              /\ n # Len(stack) => stack[n].callers \subseteq stack'[n].callers,
           NEW callee, callee = Top.fn,
           Recorded(kc[2], callee)' \/ (kc[1] = "direct" /\ EntersAPI(kc[2], callee)),
           NEW g \in Functions, Explored(g)
    PROVE  Explored(g)'
  <1> SUFFICES ASSUME NEW c \in Functions, <<c, g>> \in Required, ~ Recorded(c, g)'
               PROVE  Pending(c, g)'
    BY SameRequired DEF Explored
  <1>1. Pending(c, g)
    BY RecordedGrows DEF Explored
  <1>2. PICK n \in 1 .. Len(stack), kind \in Kinds :
           /\ stack[n].fn = g
           /\ <<kind, c>> \in stack[n].callers
           /\ kind = "direct" =>
                 \E i \in Insts : IsFirstSite("direct", c, g, i) /\ i \notin checked
    BY <1>1 DEF Pending
  <1>3. kind = "direct" =>
           \E i \in Insts : IsFirstSite("direct", c, g, i)' /\ i \notin checked'
    BY <1>2, SameRequired
  <1>4. <<kind, c>> \in stack'[n].callers
    <2>1. CASE n # Len(stack) \/ <<kind, c>> # kc
      BY <1>2, <2>1
    <2>2. CASE n = Len(stack) /\ <<kind, c>> = kc
      <3>1. callee = g /\ kc[1] = kind /\ kc[2] = c
        BY <1>2, <2>2 DEF Top
      <3>2. kind = "direct" /\ EntersAPI(c, g)
        BY <3>1
      <3>3. PICK i \in checked : IsFirstSite("direct", c, g, i)
        BY <3>2 DEF EntersAPI
      <3>4. QED
        BY <1>2, <3>2, <3>3, FirstSiteUnique
    <2>3. QED
      BY <2>1, <2>2
  <1>5. QED
    BY <1>2, <1>3, <1>4 DEF Pending

\* Nothing is reached when the first pass starts.
LEMMA InitComplete == Init => CompleteInv
  <1> SUFFICES ASSUME Init PROVE CompleteInv
    OBVIOUS
  <1>1. \A f : ~ HasSite(f)
    BY DEF Init, HasSite, Recorded
  <1>2. QED
    BY <1>1 DEF Init, CompleteInv, Reached, Hot

\* A function with results is pushed and explored; one without is not reached by it.
LEMMA StartComplete ==
    ASSUME TypeOK, CompleteInv, NEW f \in Functions, StartCheckCaller(f)
    PROVE  CompleteInv'
  <1> DEFINE ret == num_checkers_check_caller[f] + checker_results[f]
  <1>1. ret \in Nat /\ num_checkers_check_caller[f] \in Nat /\ checker_results[f] \in Nat
    BY BoundAssumption DEF TypeOK
  <1>2. /\ stack = <<>> /\ todo' = todo \ {f}
        /\ UNCHANGED <<map_order, checked>>
        /\ checker_results' = checker_results
        /\ num_checkers_check_caller' = num_checkers_check_caller
        /\ all_callee_checker_results' = all_callee_checker_results
        /\ stack' = IF ret > 0 THEN <<Activation(f, ret)>> ELSE <<>>
    BY DEF StartCheckCaller, Reports
  <1> HIDE DEF ret
  <1>3. /\ Hot' = Hot /\ Required' = Required
        /\ \A c, g : Recorded(c, g)' <=> Recorded(c, g)
        /\ \A g : HasSite(g)' <=> HasSite(g)
    BY <1>2, SameRequired DEF Hot, Recorded, HasSite
  <1>4. ASSUME NEW g \in Functions, Reached(g)'
        PROVE  Explored(g)'
    <2>1. CASE g = f /\ ret > 0
      <3>1. stack' = <<Activation(f, ret)>>
        BY <1>2, <2>1
      <3>2. 1 \in 1 .. Len(stack') /\ stack'[1] = Activation(f, ret)
        BY <3>1
      <3>3. QED
        BY <1>1, <1>2, <2>1, <3>2, NewExplored
    <2>2. CASE ~ (g = f /\ ret > 0)
      <3>1. Reached(g)
        <4>1. CASE HasSite(g)
          BY <4>1 DEF Reached
        <4>2. CASE ~ HasSite(g)
          <5>1. g \in Hot /\ g \notin todo'
            BY <1>3, <1>4, <4>2 DEF Reached
          <5>2. g # f
            BY <1>1, <2>2, <5>1 DEF Hot, ret
          <5>3. QED
            BY <1>2, <5>1, <5>2 DEF Reached
        <4>3. QED
          BY <4>1, <4>2
      <3>2. Explored(g)
        BY <3>1 DEF CompleteInv
      <3>3. \A c \in Functions : ~ Pending(c, g)
        BY <1>2 DEF Pending
      <3>4. QED
        BY <1>3, <3>2, <3>3 DEF Explored
    <2>3. QED
      BY <2>1, <2>2
  <1>5. \A g \in Functions : num_checkers_check_caller'[g] # 0 => HasSite(g)'
    BY <1>2, <1>3 DEF CompleteInv
  <1>6. (\A n \in 1 .. Len(stack) : stack[n].fn \in Hot \/ HasSite(stack[n].fn))'
    <2>1. CASE ret > 0
      <3>1. f \in Hot \/ HasSite(f)
        BY <1>1, <2>1 DEF CompleteInv, Hot, ret
      <3>2. stack' = <<Activation(f, ret)>>
        BY <1>2, <2>1
      <3>3. Len(stack') = 1 /\ stack'[1].fn = f
        BY <1>1, <3>2, ActivationCallers
      <3>4. QED
        BY <1>3, <3>1, <3>3
    <2>2. CASE ~ (ret > 0)
      BY <1>2, <2>2
    <2>3. QED
      BY <2>1, <2>2
  <1>7. QED
    BY <1>4, <1>5, <1>6 DEF CompleteInv

\* A caller that is skipped is recorded already, or cut.
LEMMA VisitComplete ==
    ASSUME TypeOK, CompleteInv, NEW kc \in Turn,
           SkipRecorded(kc) \/ SkipChecked(kc)
    PROVE  CompleteInv'
  <1>1. /\ stack' = Visited(kc)
        /\ UNCHANGED <<map_order, checked>> /\ todo' = todo
        /\ checker_results' = checker_results
        /\ num_checkers_check_caller' = num_checkers_check_caller
        /\ all_callee_checker_results' = all_callee_checker_results
    BY DEF SkipRecorded, SkipChecked
  <1>2. Hot' = Hot /\ (\A c, g : Recorded(c, g)' <=> Recorded(c, g))
                   /\ \A g : HasSite(g)' <=> HasSite(g)
    BY <1>1 DEF Hot, Recorded, HasSite
  <1>3. /\ Len(stack') = Len(stack)
        /\ \A n \in 1 .. Len(stack) :
              /\ n \in 1 .. Len(stack')
              /\ stack'[n].fn = stack[n].fn
              /\ stack[n].callers \ {kc} \subseteq stack'[n].callers
              /\ n # Len(stack) => stack[n].callers \subseteq stack'[n].callers
    BY <1>1, VisitedFacts
  <1> DEFINE callee == Top.fn
  <1>4. Recorded(kc[2], callee) \/ (kc[1] = "direct" /\ EntersAPI(kc[2], callee))
    BY DEF SkipRecorded, SkipChecked
  <1>5. ASSUME NEW g \in Functions, Reached(g)'
        PROVE  Explored(g)'
    <2>1. Explored(g)
      BY <1>1, <1>2, <1>5 DEF CompleteInv, Reached
    <2>2. PICK top : top = Top.fn
      OBVIOUS
    <2>3. Recorded(kc[2], top)' \/ (kc[1] = "direct" /\ EntersAPI(kc[2], top))
      BY <1>2, <1>4, <2>2
    <2>4. QED
      BY <1>1, <1>3, <2>1, <2>2, <2>3, VisitExplored
  <1>6. \A g \in Functions : num_checkers_check_caller'[g] # 0 => HasSite(g)'
    BY <1>1, <1>2 DEF CompleteInv
  <1>7. (\A n \in 1 .. Len(stack) : stack[n].fn \in Hot \/ HasSite(stack[n].fn))'
    BY <1>2, <1>3 DEF CompleteInv
  <1>8. QED
    BY <1>5, <1>6, <1>7 DEF CompleteInv

\* An activation that returns has visited all its callers.
LEMMA ReturnComplete == ASSUME TypeOK, CompleteInv, Return PROVE CompleteInv'
  <1>1. /\ UNCHANGED <<map_order, checked>> /\ todo' = todo
        /\ checker_results' = checker_results
        /\ num_checkers_check_caller' = num_checkers_check_caller
        /\ all_callee_checker_results' = all_callee_checker_results
    BY DEF Return
  <1>2. /\ Hot' = Hot /\ Required' = Required
        /\ \A c, g : Recorded(c, g)' <=> Recorded(c, g)
        /\ \A g : HasSite(g)' <=> HasSite(g)
    BY <1>1, SameRequired DEF Hot, Recorded, HasSite
  <1>3. /\ \A n \in 1 .. Len(stack') : n \in 1 .. Len(stack) /\ stack'[n] = stack[n]
        /\ \A n \in 1 .. Len(stack) : n = Len(stack) \/ n \in 1 .. Len(stack')
    BY DEF Return, TypeOK
  <1>4. stack[Len(stack)].callers = {}
    BY DEF Return, Top
  <1>5. ASSUME NEW c \in Functions, NEW g \in Functions, Pending(c, g)
        PROVE  Pending(c, g)'
    <2>1. PICK n \in 1 .. Len(stack), kind \in Kinds :
             /\ stack[n].fn = g
             /\ <<kind, c>> \in stack[n].callers
             /\ kind = "direct" =>
                   \E i \in Insts : IsFirstSite("direct", c, g, i) /\ i \notin checked
      BY <1>5 DEF Pending
    <2>2. n \in 1 .. Len(stack') /\ stack'[n] = stack[n]
      BY <1>3, <1>4, <2>1
    <2>3. kind = "direct" =>
             \E i \in Insts : IsFirstSite("direct", c, g, i)' /\ i \notin checked'
      BY <1>1, <2>1, SameRequired
    <2>4. QED
      BY <2>1, <2>2, <2>3 DEF Pending
  <1>6. ASSUME NEW g \in Functions, Reached(g)'
        PROVE  Explored(g)'
    <2>1. Explored(g)
      BY <1>1, <1>2, <1>6 DEF CompleteInv, Reached
    <2>2. QED
      BY <1>2, <1>5, <2>1 DEF Explored
  <1>7. \A g \in Functions : num_checkers_check_caller'[g] # 0 => HasSite(g)'
    BY <1>1, <1>2 DEF CompleteInv
  <1>8. (\A n \in 1 .. Len(stack) : stack[n].fn \in Hot \/ HasSite(stack[n].fn))'
    BY <1>2, <1>3 DEF CompleteInv
  <1>9. QED
    BY <1>6, <1>7, <1>8 DEF CompleteInv

\* A caller that is reached for the first time is pushed; else it was explored before.
LEMMA RecordComplete ==
    ASSUME TypeOK, CompleteInv, NEW kc \in Turn, NEW i \in Insts, RecordCaller(kc, i)
    PROVE  CompleteInv'
  <1> DEFINE c == kc[2]
             pushed == Activation(c, Top.ret + checker_results[c])
  <1>1. /\ UNCHANGED <<map_order, checked>> /\ todo' = todo
        /\ checker_results' = checker_results
        /\ num_checkers_check_caller'
              = [num_checkers_check_caller EXCEPT ![c] = @ + Top.ret]
        /\ stack' = IF num_checkers_check_caller[c] = 0
                    THEN Append(Visited(kc), pushed) ELSE Visited(kc)
    BY DEF RecordCaller, FirstReached
  <1>2. /\ c \in Functions /\ Top.fn \in Functions /\ Owner[i] = c
        /\ Top \in Frame /\ Len(stack) \in Nat
        /\ all_callee_checker_results' = all_callee_checker_results \cup {<<i, Top.fn>>}
    BY RecordCallerFacts, TurnFacts
  <1>3. Top.ret + checker_results[c] \in Nat
    BY <1>2, BoundAssumption DEF TypeOK, Frame
  <1>4. PICK top \in Functions : top = Top.fn
    BY <1>2
  <1>5. /\ all_callee_checker_results \subseteq all_callee_checker_results'
        /\ Recorded(c, top)'
        /\ \A b \in Functions, g \in Functions : Recorded(b, g)' => Recorded(b, g) \/ (b = c /\ g = top)
    BY <1>2, <1>4 DEF Recorded
  <1>6. /\ Hot' = Hot /\ HasSite(c)'
        /\ \A g \in Functions : g # c => (HasSite(g)' <=> HasSite(g))
        /\ \A g : HasSite(g) => HasSite(g)'
    BY <1>1, <1>2, <1>5, RecordedGrows DEF Hot, HasSite
  <1> HIDE DEF c, pushed
  <1>7. /\ Len(stack') \in Nat /\ Len(stack') >= Len(stack)
        /\ \A n \in 1 .. Len(stack) : stack'[n] = Visited(kc)[n]
        /\ \A n \in 1 .. Len(stack') : n \in 1 .. Len(stack) \/ stack'[n] = pushed
        /\ num_checkers_check_caller[c] = 0 =>
              Len(stack') = Len(stack) + 1 /\ stack'[Len(stack) + 1] = pushed
    BY <1>1, <1>2, VisitedFacts
  <1>8. \A n \in 1 .. Len(stack) :
           /\ n \in 1 .. Len(stack')
           /\ stack'[n].fn = stack[n].fn
           /\ stack[n].callers \ {kc} \subseteq stack'[n].callers
           /\ n # Len(stack) => stack[n].callers \subseteq stack'[n].callers
    <2>1. \A n \in 1 .. Len(stack) :
             /\ Visited(kc)[n].fn = stack[n].fn
             /\ stack[n].callers \ {kc} \subseteq Visited(kc)[n].callers
             /\ n # Len(stack) => stack[n].callers \subseteq Visited(kc)[n].callers
      BY VisitedFacts
    <2>2. QED
      BY <1>2, <1>7, <2>1
  <1>9. ASSUME NEW g \in Functions, Explored(g)
        PROVE  Explored(g)'
    BY <1>1, <1>4, <1>5, <1>8, <1>9, VisitExplored DEF c
  <1>10. ASSUME NEW g \in Functions, Reached(g)'
         PROVE  Explored(g)'
    <2>1. CASE Reached(g)
      BY <1>9, <2>1 DEF CompleteInv
    <2>2. CASE ~ Reached(g)
      <3>1. g = c /\ ~ HasSite(c)
        BY <1>1, <1>6, <1>10, <2>2 DEF Reached
      <3>2. num_checkers_check_caller[c] = 0
        BY <1>2, <3>1 DEF CompleteInv
      <3>3. Len(stack) + 1 \in 1 .. Len(stack') /\ stack'[Len(stack) + 1] = pushed
        BY <1>2, <1>7, <3>2
      <3>4. QED
        BY <1>1, <1>2, <1>3, <3>1, <3>3, NewExplored DEF pushed
    <2>3. QED
      BY <2>1, <2>2
  <1>11. ASSUME NEW g \in Functions, num_checkers_check_caller'[g] # 0
         PROVE  HasSite(g)'
    <2>1. CASE g = c
      BY <1>6, <2>1
    <2>2. CASE g # c
      BY <1>1, <1>6, <1>11, <2>2 DEF CompleteInv, TypeOK
    <2>3. QED
      BY <2>1, <2>2
  <1>12. (\A n \in 1 .. Len(stack) : stack[n].fn \in Hot \/ HasSite(stack[n].fn))'
    <2>1. pushed.fn = c
      BY <1>2, <1>3, ActivationCallers DEF pushed
    <2>2. QED
      BY <1>6, <1>7, <1>8, <2>1 DEF CompleteInv
  <1>13. QED
    BY <1>10, <1>11, <1>12 DEF CompleteInv

\* More knowledge requires less: an API call that is found cuts its pair.
LEMMA UpdateRequires ==
    ASSUME map_order' = map_order, checked \subseteq checked'
    PROVE  Required' \subseteq Required
  BY DEF Required, Cut, IsFirstSite

\* What an update changes.
LEMMA UpdateFacts ==
    ASSUME TypeOK, NEW results, NEW sites, UpdateFunction(results, sites)
    PROVE  /\ stack = <<>> /\ stack' = <<>> /\ todo = {} /\ todo' = Functions
           /\ Hot \subseteq Hot' /\ Required' \subseteq Required
           /\ all_callee_checker_results' = all_callee_checker_results
           /\ \A f \in Functions : num_checkers_check_caller'[f] = 0
           /\ round' = round + 1
  <1>1. map_order' = map_order /\ checked \subseteq checked'
    BY DEF UpdateFunction
  <1>2. Hot \subseteq Hot'
    BY BoundAssumption DEF UpdateFunction, CheckOutcome, Hot, TypeOK
  <1>3. QED
    BY <1>1, <1>2, UpdateRequires DEF UpdateFunction, Done, ResetCount

\* An update finds an empty stack, so what was explored has all its pairs.
LEMMA UpdateComplete ==
    ASSUME TypeOK, CompleteInv, NEW results, NEW sites, UpdateFunction(results, sites)
    PROVE  CompleteInv'
  <1>1. /\ stack = <<>> /\ stack' = <<>> /\ todo' = Functions
        /\ Required' \subseteq Required
        /\ all_callee_checker_results' = all_callee_checker_results
        /\ \A f \in Functions : num_checkers_check_caller'[f] = 0
    BY UpdateFacts
  <1>2. /\ \A c, g : Recorded(c, g)' <=> Recorded(c, g)
        /\ \A g : HasSite(g)' <=> HasSite(g)
    BY <1>1 DEF Recorded, HasSite
  <1>3. ASSUME NEW g \in Functions, Reached(g)'
        PROVE  Explored(g)'
    <2>1. Explored(g)
      BY <1>1, <1>2, <1>3 DEF CompleteInv, Reached
    <2>2. \A c \in Functions : ~ Pending(c, g)
      BY <1>1 DEF Pending
    <2>3. QED
      BY <1>1, <1>2, <2>1, <2>2 DEF Explored
  <1>4. (\A n \in 1 .. Len(stack) : stack[n].fn \in Hot \/ HasSite(stack[n].fn))'
    BY <1>1
  <1>5. QED
    BY <1>1, <1>3, <1>4 DEF CompleteInv

\* Every step keeps CompleteInv.
LEMMA NextComplete == TypeOK /\ CompleteInv /\ [Next]_vars => CompleteInv'
  <1> SUFFICES ASSUME TypeOK, CompleteInv, [Next]_vars PROVE CompleteInv'
    OBVIOUS
  <1>1. CASE UNCHANGED vars
    <2>1. /\ UNCHANGED <<map_order, checked>> /\ stack' = stack /\ todo' = todo
          /\ checker_results' = checker_results
          /\ num_checkers_check_caller' = num_checkers_check_caller
          /\ all_callee_checker_results' = all_callee_checker_results
      BY <1>1 DEF vars
    <2>2. /\ Hot' = Hot /\ Required' = Required
          /\ \A c, g : Recorded(c, g)' <=> Recorded(c, g)
          /\ \A g : HasSite(g)' <=> HasSite(g)
      BY <2>1, SameRequired DEF Hot, Recorded, HasSite
    <2>3. \A c, g : Pending(c, g)' <=> Pending(c, g)
      BY <2>1, SameRequired DEF Pending
    <2>4. QED
      BY <2>1, <2>2, <2>3 DEF CompleteInv, Reached, Explored
  <1>2. QED
    BY <1>1, StartComplete, VisitComplete, RecordComplete, ReturnComplete, UpdateComplete
       DEF Next, CheckCaller

\* What the refinement rests on, in every reachable state.
LEMMA Complete == Spec => [](TypeOK /\ StackJustified /\ CompleteInv)
  <1>1. Init => JustifiedInv
    BY DEF Init, JustifiedInv, RecordedLeadsToResult, StackJustified
  <1>2. JustifiedInv => StackJustified
    BY DEF JustifiedInv
  <1>3. QED
    BY <1>1, <1>2, NextJustified, InitComplete, NextComplete, TypeCorrect, PTL DEF Spec

(***************************************************************************)
(* The refinement.                                                         *)
(***************************************************************************)

\* A step that finds or keeps everything leaves the abstract state alone, or ends it.
LEMMA EndsOrStutters ==
    ASSUME (CompleteInv)', ~ Done,
           Hot' = Hot, Required' = Required, RecordedPairs' = RecordedPairs
    PROVE  [Abs!Next]_(Abs!absvars)
  <1>1. CASE ~ Done'
    BY <1>1 DEF Abs!absvars, Done
  <1>2. CASE Done'
    <2>1. stack' = <<>> /\ todo' = {}
      BY <1>2 DEF Done
    <2>2. ASSUME NEW p \in Required', Abs!Leads(p[2])'
          PROVE  p \in RecordedPairs'
      <3>1. p[1] \in Functions /\ p[2] \in Functions /\ p = <<p[1], p[2]>>
        BY DEF Required, MayCall
      <3>2. Reached(p[2])'
        BY <2>1, <2>2, <3>1 DEF Abs!Leads, RecordedPairs, Reached, HasSite
      <3>3. Explored(p[2])'
        BY <3>1, <3>2 DEF CompleteInv
      <3>4. \A c \in Functions : ~ Pending(c, p[2])'
        BY <2>1 DEF Pending
      <3>5. QED
        BY <3>1, <3>3, <3>4 DEF Explored, RecordedPairs
    <2>3. \A p \in Required : Abs!Leads(p[2]) => p \in RecordedPairs
      BY <2>2 DEF Abs!Leads
    <2>4. QED
      BY <1>2, <2>3 DEF Abs!Next, Abs!Finish
  <1>3. QED
    BY <1>1, <1>2

\* A new site adds one pair.
LEMMA OnePairMore ==
    ASSUME NEW c \in Functions, NEW g \in Functions, NEW i \in Insts, Owner[i] = c,
           all_callee_checker_results' = all_callee_checker_results \cup {<<i, g>>}
    PROVE  RecordedPairs' = RecordedPairs \cup {<<c, g>>}
  <1>1. \A b \in Functions, h \in Functions :
           Recorded(b, h)' <=> Recorded(b, h) \/ (b = c /\ h = g)
    BY DEF Recorded
  <1>2. QED
    BY <1>1 DEF RecordedPairs

\* RecordCaller is Record of the closure.
LEMMA RecordRefines ==
    ASSUME TypeOK, StackJustified, CompleteInv,
           NEW kc \in Turn, NEW i \in Insts, RecordCaller(kc, i)
    PROVE  Abs!Next
  <1>1. /\ kc[2] \in Functions /\ Top.fn \in Functions /\ Owner[i] = kc[2]
        /\ ~ Recorded(kc[2], Top.fn)
        /\ all_callee_checker_results' = all_callee_checker_results \cup {<<i, Top.fn>>}
        /\ stack # <<>> /\ Len(stack) \in Nat /\ Len(stack) > 0 /\ Top = stack[Len(stack)]
    BY RecordCallerFacts, TurnFacts
  <1>2. PICK g \in Functions : g = Top.fn
    BY <1>1
  <1>3. <<kc[2], g>> \in Required /\ <<kc[2], g>> \in MayCall
    BY <1>2, RecordedIsRequired DEF Required
  <1>4. RecordedPairs' = RecordedPairs \cup {<<kc[2], g>>}
    BY <1>1, <1>2, OnePairMore
  <1>5. <<kc[2], g>> \notin RecordedPairs
    BY <1>1, <1>2 DEF RecordedPairs
  <1>6. Abs!Leads(g)
    <2>1. Len(stack) \in 1 .. Len(stack) /\ stack[Len(stack)].fn = g
      BY <1>1, <1>2
    <2>2. g \in Hot \/ HasSite(g)
      BY <2>1 DEF CompleteInv
    <2>3. CASE HasSite(g)
      <3>1. PICK h \in Functions : Recorded(g, h)
        BY <2>3 DEF HasSite
      <3>2. <<g, h>> \in RecordedPairs /\ <<g, h>>[1] = g
        BY <3>1 DEF RecordedPairs
      <3>3. QED
        BY <3>2 DEF Abs!Leads
    <2>4. QED
      BY <2>2, <2>3 DEF Abs!Leads
  <1>7. Hot' = Hot /\ Required' = Required
    BY SameRequired DEF RecordCaller, Hot
  <1>8. ~ Done /\ ~ Done'
    <2>1. Len(Visited(kc)) = Len(stack) /\ Visited(kc) \in Seq(Frame)
      BY VisitedFacts
    <2>2. stack' # <<>>
      BY <1>1, <2>1 DEF RecordCaller
    <2>3. QED
      BY <1>1, <2>2 DEF Done
  <1>9. PICK p : p = <<kc[2], g>>
    OBVIOUS
  <1>10. p[2] = g /\ Abs!Leads(p[2])
    BY <1>6, <1>9
  <1>11. Abs!Record(p)
    <2>1. UNCHANGED <<Hot, Required, Done>>
      <3>1. Done' = Done
        BY <1>8 DEF Done
      <3>2. QED
        BY <1>7, <3>1
    <2>2. p \in Required \ RecordedPairs /\ RecordedPairs' = RecordedPairs \cup {p}
      BY <1>3, <1>4, <1>5, <1>9
    <2>3. QED
      BY <1>8, <1>10, <2>1, <2>2 DEF Abs!Record
  <1>12. QED
    BY <1>3, <1>9, <1>11 DEF Abs!Next

\* Every step is a step of the closure or leaves its state alone.
LEMMA StepRefines ==
    ASSUME TypeOK, StackJustified, CompleteInv, CompleteInv', [Next]_vars
    PROVE  [Abs!Next]_(Abs!absvars)
  <1>1. ASSUME UNCHANGED <<map_order, checked>>, checker_results' = checker_results,
               all_callee_checker_results' = all_callee_checker_results
        PROVE  Hot' = Hot /\ Required' = Required /\ RecordedPairs' = RecordedPairs
    BY <1>1, SameRequired DEF Hot, RecordedPairs, Recorded
  <1>2. ASSUME NEW f \in Functions, StartCheckCaller(f)
        PROVE  [Abs!Next]_(Abs!absvars)
    <2>1. ~ Done
      BY <1>2 DEF StartCheckCaller, Done
    <2>2. QED
      BY <1>1, <1>2, <2>1, EndsOrStutters DEF StartCheckCaller
  <1>3. ASSUME NEW kc \in Turn, SkipRecorded(kc) \/ SkipChecked(kc)
        PROVE  [Abs!Next]_(Abs!absvars)
    <2>1. ~ Done
      BY TurnFacts DEF Done
    <2>2. QED
      BY <1>1, <1>3, <2>1, EndsOrStutters DEF SkipRecorded, SkipChecked
  <1>4. ASSUME NEW kc \in Turn, NEW i \in Insts, RecordCaller(kc, i)
        PROVE  [Abs!Next]_(Abs!absvars)
    BY <1>4, RecordRefines
  <1>5. CASE Return
    <2>1. ~ Done
      BY <1>5 DEF Return, Done
    <2>2. QED
      BY <1>1, <1>5, <2>1, EndsOrStutters DEF Return
  <1>6. ASSUME NEW results, NEW sites, UpdateFunction(results, sites)
        PROVE  [Abs!Next]_(Abs!absvars)
    <2>1. /\ Hot \subseteq Hot' /\ Required' \subseteq Required /\ todo' = Functions
          /\ all_callee_checker_results' = all_callee_checker_results
      BY <1>6, UpdateFacts
    <2>2. RecordedPairs' = RecordedPairs /\ Hot' \subseteq Functions
      BY <2>1 DEF RecordedPairs, Recorded, Hot
    <2>3. Done /\ ~ Done'
      BY <1>6, <2>1, ProgramAssumption DEF UpdateFunction, Done
    <2>4. QED
      BY <2>1, <2>2, <2>3 DEF Abs!Next, Abs!Restart
  <1>7. CASE UNCHANGED vars
    <2>1. Done' = Done
      BY <1>7 DEF vars, Done
    <2>2. QED
      BY <1>1, <1>7, <2>1 DEF vars, Abs!absvars
  <1>8. QED
    BY <1>2, <1>3, <1>4, <1>5, <1>6, <1>7 DEF Next, CheckCaller

\* Initial states map to initial states.
LEMMA InitRefines == Init => Abs!Init
  BY ProgramAssumption DEF Init, Abs!Init, Hot, Required, RecordedPairs, Recorded, Done

(***************************************************************************)
(* The pass implements the order-free closure.  Whatever the program, the  *)
(* order of callers and the knowledge that updates bring, check_caller()   *)
(* records only required pairs whose callee leads to a result, and it ends *)
(* only when none of them is missing.                                      *)
(***************************************************************************)
THEOREM ImplementsClosureHolds == Spec => ImplementsClosure
  <1>1. Init => Abs!Init
    BY InitRefines
  <1>2. (TypeOK /\ StackJustified /\ CompleteInv) /\ (TypeOK /\ StackJustified /\ CompleteInv)' /\ [Next]_vars
        => [Abs!Next]_(Abs!absvars)
    BY StepRefines
  <1>3. QED
    BY <1>1, <1>2, Complete, PTL DEF Spec, Abs!Spec, ImplementsClosure

(***************************************************************************)
(* The outcome of the first pass.                                          *)
(***************************************************************************)
FirstPassInv ==
    /\ round > 0
    /\ round = 1 => \A p \in RecordedPairs : p \in Required /\ p[2] \in Leading(Required)

\* What is recorded leads to a result by required pairs alone.
LEMMA LeadsInFirstPass ==
    ASSUME FirstPassInv, round = 1, NEW f \in Functions, f \in Hot \/ HasSite(f)
    PROVE  f \in Leading(Required)
  <1>1. CASE f \in Hot
    BY <1>1 DEF Leading
  <1>2. CASE HasSite(f)
    <2>1. PICK g \in Functions : Recorded(f, g)
      BY <1>2 DEF HasSite
    <2>2. <<f, g>> \in RecordedPairs
      BY <2>1 DEF RecordedPairs
    <2>3. <<f, g>> \in Required /\ g \in Leading(Required)
      BY <2>2 DEF FirstPassInv
    <2>4. QED
      BY <2>3 DEF Leading
  <1>3. QED
    BY <1>1, <1>2

\* Every step keeps FirstPassInv.
LEMMA NextFirstPass ==
    ASSUME TypeOK, StackJustified, CompleteInv, FirstPassInv, [Next]_vars
    PROVE  FirstPassInv'
  <1>1. CASE UNCHANGED <<map_order, checked, checker_results, round>>
    <2>1. Required' = Required /\ Leading(Required)' = Leading(Required)
      BY <1>1, SameRequired DEF Leading, Hot
    <2>2. CASE all_callee_checker_results' = all_callee_checker_results
      BY <1>1, <2>1, <2>2 DEF FirstPassInv, RecordedPairs, Recorded
    <2>3. ASSUME NEW kc \in Turn, NEW i \in Insts, RecordCaller(kc, i)
          PROVE  FirstPassInv'
      <3>1. /\ kc[2] \in Functions /\ Top.fn \in Functions /\ Owner[i] = kc[2]
            /\ all_callee_checker_results' = all_callee_checker_results \cup {<<i, Top.fn>>}
            /\ Len(stack) \in Nat /\ Len(stack) > 0 /\ Top = stack[Len(stack)]
        BY <2>3, RecordCallerFacts, TurnFacts
      <3>2. RecordedPairs' = RecordedPairs \cup {<<kc[2], Top.fn>>}
        BY <3>1, OnePairMore
      <3>3. <<kc[2], Top.fn>> \in Required
        BY <2>3, RecordedIsRequired
      <3>4. Top.fn \in Hot \/ HasSite(Top.fn)
        BY <3>1 DEF CompleteInv
      <3>5. round = 1 => Top.fn \in Leading(Required)
        BY <3>1, <3>4, LeadsInFirstPass
      <3>6. QED
        BY <1>1, <2>1, <3>2, <3>3, <3>5 DEF FirstPassInv
    <2>4. QED
      BY <2>2, <2>3, NextRecords
  <1>2. ASSUME NEW results, NEW sites, UpdateFunction(results, sites)
        PROVE  FirstPassInv'
    <2>1. round \in Nat /\ round > 0 /\ round' = round + 1
      BY <1>2, UpdateFacts DEF TypeOK, FirstPassInv
    <2>2. QED
      BY <2>1 DEF FirstPassInv
  <1>3. QED
    BY <1>1, <1>2 DEF Next, CheckCaller, StartCheckCaller, SkipRecorded, SkipChecked,
                      RecordCaller, Return, vars

\* When the pass is done, the functions that lead are those that are reached.
LEMMA LeadingAreReached ==
    ASSUME CompleteInv, Done
    PROVE  /\ \A p \in Required : Reached(p[2]) => p \in RecordedPairs
           /\ \A f \in Leading(Required) : Reached(f)
  <1>1. ASSUME NEW p \in Required, Reached(p[2])
        PROVE  p \in RecordedPairs
    <2>1. p[1] \in Functions /\ p[2] \in Functions /\ p = <<p[1], p[2]>>
      BY DEF Required, MayCall
    <2>2. \A c \in Functions : ~ Pending(c, p[2])
      BY DEF Done, Pending
    <2>3. QED
      BY <1>1, <2>1, <2>2 DEF CompleteInv, Explored, RecordedPairs
  <1>2. ASSUME NEW f \in Leading(Required)
        PROVE  Reached(f)
    <2> DEFINE S == {g \in Functions : Reached(g)}
    <2>1. S \subseteq Functions /\ Hot \subseteq S
      BY DEF Hot, Reached, Done
    <2>2. ASSUME NEW p \in Required, p[2] \in S
          PROVE  p[1] \in S
      <3>1. p \in RecordedPairs
        BY <1>1, <2>2
      <3>2. QED
        BY <3>1 DEF RecordedPairs, Reached, HasSite
    <2> HIDE DEF S
    <2>3. f \in S
      BY <2>1, <2>2 DEF Leading
    <2>4. QED
      BY <2>3 DEF S
  <1>3. QED
    BY <1>1, <1>2

(***************************************************************************)
(* For a given order of instructions the first pass records the same pairs *)
(* in whatever order functions and callers are visited: the required pairs *)
(* whose callee leads to a checker result.                                 *)
(***************************************************************************)
THEOREM VisitsInAnyOrder == Spec => []OutcomeIsOrderIndependent
  <1>1. Init => FirstPassInv
    BY DEF Init, FirstPassInv, RecordedPairs, Recorded
  <1>2. CompleteInv /\ FirstPassInv => OutcomeIsOrderIndependent
    <2> SUFFICES ASSUME CompleteInv, FirstPassInv, Done, round = 1
                 PROVE  RecordedPairs = {p \in Required : p[2] \in Leading(Required)}
      BY DEF OutcomeIsOrderIndependent
    <2>1. \A p \in Required : p[2] \in Leading(Required) => p \in RecordedPairs
      BY LeadingAreReached
    <2>2. QED
      BY <2>1 DEF FirstPassInv
  <1>3. QED
    BY <1>1, <1>2, NextFirstPass, Complete, PTL DEF Spec

-----------------------------------------------------------------------------
(***************************************************************************)
(* The order of instructions has a part in it, since it decides which call *)
(* is the first.  It matters only for a function that has both kinds of    *)
(* direct calls of another one, API calls and others, and no other calls.  *)
(***************************************************************************)

OnlyDirect(p) == p[1] \notin Callers["indirect"][p[2]] \cup Callers["pointer"][p[2]]

\* The pairs that are cut in no order of instructions.
NeverCut == {p \in MayCall : OnlyDirect(p) => Sites["direct"][p[1]][p[2]] \cap checked = {}}

\* The pairs that some order does not cut.
SometimesKept == {p \in MayCall : OnlyDirect(p) => ~ Sites["direct"][p[1]][p[2]] \subseteq checked}

FirstPassInAnySiteOrder ==
    Done /\ round = 1 =>
        /\ {p \in NeverCut : p[2] \in Leading(NeverCut)} \subseteq RecordedPairs
        /\ RecordedPairs \subseteq {p \in SometimesKept : p[2] \in Leading(SometimesKept)}

\* More pairs lead to a result from more functions.
LEMMA LeadingIsMonotone ==
    ASSUME NEW P, NEW Q, P \subseteq Q
    PROVE  Leading(P) \subseteq Leading(Q)
  BY DEF Leading

\* A function that has direct calls of another has a first one.
LEMMA FirstSiteExists ==
    ASSUME TypeOK, NEW c \in Functions, NEW g \in Functions, Sites["direct"][c][g] # {}
    PROVE  \E i \in Insts : IsFirstSite("direct", c, g, i)
  <1> DEFINE S == Sites["direct"][c][g]
             ranks == {map_order[i] : i \in S}
             R == OpToRel(<, Nat)
  <1>1. S \subseteq Insts
    BY DEF Sites, Kinds
  <1>2. map_order \in [Insts -> Nat]
    BY BoundAssumption DEF TypeOK
  <1>3. ranks \subseteq Nat /\ ranks # {}
    BY <1>1, <1>2
  <1>4. IsWellFoundedOn(R, Nat)
    BY NatLessThanWellFounded
  <1>5. \A m, n \in Nat : m < n => <<m, n>> \in R
    BY DEF OpToRel
  <1> HIDE DEF R, ranks
  <1>6. PICK n \in ranks : \A m \in ranks : ~ (<<m, n>> \in R)
    BY <1>3, <1>4, WFMin
  <1>7. PICK i \in S : map_order[i] = n
    BY <1>6 DEF ranks
  <1>8. ASSUME NEW j \in S PROVE map_order[i] <= map_order[j]
    <2>1. map_order[j] \in ranks /\ map_order[j] \in Nat /\ n \in Nat
      BY <1>1, <1>2, <1>3, <1>6 DEF ranks
    <2>2. ~ map_order[j] < n
      BY <1>5, <1>6, <2>1
    <2>3. QED
      BY <1>7, <2>1, <2>2
  <1>9. QED
    BY <1>1, <1>7, <1>8 DEF IsFirstSite

\* What is required lies between the two.
LEMMA RequiredBetween == TypeOK => NeverCut \subseteq Required /\ Required \subseteq SometimesKept
  <1> SUFFICES ASSUME TypeOK, NEW p \in MayCall
               PROVE  /\ p \in NeverCut => p \in Required
                      /\ p \in Required => p \in SometimesKept
    BY DEF NeverCut, Required
  <1>1. p[1] \in Functions /\ p[2] \in Functions
    BY DEF MayCall
  <1>2. CASE ~ OnlyDirect(p)
    BY <1>2 DEF OnlyDirect, Required, Cut, SometimesKept
  <1>3. CASE OnlyDirect(p)
    <2>1. p[1] \in Callers["direct"][p[2]]
      BY <1>3 DEF OnlyDirect, MayCall, Kinds
    <2>2. Sites["direct"][p[1]][p[2]] # {}
      BY <1>1, <2>1 DEF Callers, Kinds
    <2>3. PICK i \in Insts : IsFirstSite("direct", p[1], p[2], i)
      BY <1>1, <2>2, FirstSiteExists
    <2>4. i \in Sites["direct"][p[1]][p[2]]
      BY <2>3 DEF IsFirstSite
    <2>5. p \in NeverCut => p \in Required
      BY <1>3, <2>3, <2>4 DEF NeverCut, Required, Cut
    <2>6. ASSUME p \in Required PROVE p \in SometimesKept
      <3>1. PICK j \in Sites["direct"][p[1]][p[2]] : j \notin checked
        BY <1>3, <2>6 DEF Required, Cut, OnlyDirect
      <3>2. QED
        BY <3>1 DEF SometimesKept
    <2>7. QED
      BY <2>5, <2>6
  <1>4. QED
    BY <1>2, <1>3

(***************************************************************************)
(* Whatever the order of instructions, and of functions and callers, the   *)
(* first pass records all pairs on chains of calls that no order cuts, and *)
(* none but those on chains of calls that some order keeps.                *)
(***************************************************************************)
THEOREM SitesInAnyOrder == Spec => []FirstPassInAnySiteOrder
  <1>1. TypeOK /\ OutcomeIsOrderIndependent => FirstPassInAnySiteOrder
    <2> SUFFICES ASSUME TypeOK, OutcomeIsOrderIndependent, Done, round = 1
                 PROVE  /\ {p \in NeverCut : p[2] \in Leading(NeverCut)} \subseteq RecordedPairs
                        /\ RecordedPairs \subseteq
                              {p \in SometimesKept : p[2] \in Leading(SometimesKept)}
      BY DEF FirstPassInAnySiteOrder
    <2>1. RecordedPairs = {p \in Required : p[2] \in Leading(Required)}
      BY DEF OutcomeIsOrderIndependent
    <2>2. NeverCut \subseteq Required /\ Required \subseteq SometimesKept
      BY RequiredBetween
    <2>3. Leading(NeverCut) \subseteq Leading(Required)
      BY <2>2, LeadingIsMonotone
    <2>4. Leading(Required) \subseteq Leading(SometimesKept)
      BY <2>2, LeadingIsMonotone
    <2>5. QED
      BY <2>1, <2>2, <2>3, <2>4
  <1>2. QED
    BY <1>1, TypeCorrect, VisitsInAnyOrder, PTL
=============================================================================
