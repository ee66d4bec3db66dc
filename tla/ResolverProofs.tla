--------------------------- MODULE ResolverProofs ---------------------------
(***************************************************************************)
(* Proofs about Resolver for every set of packages, every requirement      *)
(* table and every command line: the list it builds is ordered, keeps what *)
(* it has settled, repeats nothing, is counted exactly, holds only what is *)
(* needed, and fits its array.                                             *)
(***************************************************************************)
EXTENDS Resolver, FiniteSetTheorems, SequenceTheorems, TLAPS

-----------------------------------------------------------------------------
(* The stack of frames. *)

LEMMA PushFrame ==
    ASSUME NEW s \in Seq(Frame), NEW p \in Package
    PROVE  LET t == Append(s, [pkg |-> p, i |-> 1]) IN
           /\ t \in Seq(Frame)
           /\ Len(t) = Len(s) + 1
           /\ \A d \in 1 .. Len(s) : t[d] = s[d]
           /\ t[Len(s) + 1] = [pkg |-> p, i |-> 1]
  BY DEF Frame

LEMMA NonEmptyLen ==
    ASSUME NEW S, NEW s \in Seq(S), s # <<>>
    PROVE  Len(s) \in Nat \ {0}
  BY EmptySeq, LenProperties, Zenon

LEMMA PrefixLen ==
    ASSUME NEW S, NEW s \in Seq(S), NEW n \in Nat, n <= Len(s)
    PROVE  Len(SubSeq(s, 1, n)) = n
  BY SMT

LEMMA PrefixElement ==
    ASSUME NEW S, NEW s \in Seq(S), NEW n \in Nat, n <= Len(s), NEW d \in 1 .. n
    PROVE  SubSeq(s, 1, n)[d] = s[d]
  BY SMT

LEMMA PopFrame ==
    ASSUME NEW s \in Seq(Frame), s # <<>>
    PROVE  LET t == SubSeq(s, 1, Len(s) - 1) IN
           /\ t \in Seq(Frame)
           /\ Len(t) = Len(s) - 1
           /\ \A d \in 1 .. Len(s) - 1 : t[d] = s[d]
  <1>1. Len(s) \in Nat \ {0}
    BY NonEmptyLen, Zenon
  <1>2. SubSeq(s, 1, Len(s) - 1) \in Seq(Frame)
    <2>1. 1 \in Int /\ Len(s) - 1 \in Int /\ \A i \in 1 .. Len(s) - 1 : i \in 1 .. Len(s)
      BY <1>1
    <2> QED BY <2>1, ElementOfSeq, SubSeqProperties, Zenon
  <1>3. Len(s) - 1 \in Nat /\ Len(s) - 1 <= Len(s)
    BY <1>1
  <1>4. Len(SubSeq(s, 1, Len(s) - 1)) = Len(s) - 1
    BY <1>3, PrefixLen, Zenon
  <1>5. \A d \in 1 .. Len(s) - 1 : SubSeq(s, 1, Len(s) - 1)[d] = s[d]
    BY <1>3, PrefixElement, Zenon
  <1> QED BY <1>2, <1>4, <1>5, Zenon

LEMMA AdvanceFrame ==
    ASSUME NEW s \in Seq(Frame), s # <<>>
    PROVE  LET t == [s EXCEPT ![Len(s)].i = @ + 1] IN
           /\ t \in Seq(Frame)
           /\ Len(t) = Len(s)
           /\ \A d \in 1 .. Len(s) : d < Len(s) => t[d] = s[d]
           /\ t[Len(s)] = [pkg |-> s[Len(s)].pkg, i |-> s[Len(s)].i + 1]
  <1> DEFINE t == [s EXCEPT ![Len(s)].i = @ + 1]
  <1>1. Len(s) \in 1 .. Len(s) /\ s[Len(s)] \in Frame
    BY SMT
  <1>2. [s[Len(s)] EXCEPT !.i = @ + 1]
           = [pkg |-> s[Len(s)].pkg, i |-> s[Len(s)].i + 1]
    BY <1>1 DEF Frame
  <1>3. [pkg |-> s[Len(s)].pkg, i |-> s[Len(s)].i + 1] \in Frame
    BY <1>1 DEF Frame
  <1>4. t = [s EXCEPT ![Len(s)] = [s[Len(s)] EXCEPT !.i = @ + 1]]
    OBVIOUS
  <1> QED BY <1>1, <1>2, <1>3, <1>4

-----------------------------------------------------------------------------
(* Type correctness. *)

LEMMA TopIsAFrame ==
    ASSUME TypeOK, stack # <<>>
    PROVE  /\ Len(stack) \in Nat \ {0}
           /\ Len(stack) \in 1 .. Len(stack)
           /\ Top \in Frame
           /\ Top.pkg \in Package
           /\ Top.i \in Nat \ {0}
           /\ needs[Top.pkg] \in Seq(Found)
  <1>1. stack \in Seq(Frame)
    BY DEF TypeOK
  <1>2. Len(stack) \in Nat \ {0} /\ Len(stack) \in 1 .. Len(stack)
    BY <1>1, NonEmptyLen
  <1>3. Top \in Frame
    BY <1>1, <1>2, ElementOfSeq, Zenon DEF Top
  <1>4. Top.pkg \in Package /\ Top.i \in Nat \ {0}
    BY <1>3 DEF Frame
  <1>5. needs[Top.pkg] \in Seq(Found)
    BY <1>4, Zenon DEF TypeOK
  <1> QED BY <1>2, <1>3, <1>4, <1>5

\* The stack after a call of resolve_dependencies.
LEMMA CallType ==
    ASSUME TypeOK, NEW p \in Package, NEW back, Call(p, back)
    PROVE  /\ stack' \in Seq(Frame)
           /\ pc' \in {back, "overflow", "loop"}
  BY PushFrame DEF TypeOK, Call

LEMMA TypeStep ==
    TypeOK /\ StackShape /\ CallsArePending /\ [Next]_vars => TypeOK'
  <1> SUFFICES ASSUME TypeOK, StackShape, CallsArePending, [Next]_vars
               PROVE  TypeOK'
    OBVIOUS
  <1> USE DEF world, Final
  <1>1. CASE AskFor
    <2>1. CASE asked[item] = NoPackage
      BY <1>1, <2>1 DEF AskFor, TypeOK
    <2>2. CASE asked[item] # NoPackage
      <3>1. asked[item] \in Package
        BY <1>1, <2>2 DEF AskFor, TypeOK, Found
      <3>2. stack' \in Seq(Frame) /\ pc' \in {"count", "overflow", "loop"}
        BY <1>1, <2>2, <3>1, CallType DEF AskFor
      <3> QED BY <1>1, <3>2 DEF AskFor, TypeOK
    <2> QED BY <2>1, <2>2
  <1>2. CASE Finish
    BY <1>2 DEF Finish, TypeOK
  <1>3. CASE Unresolved
    BY <1>3 DEF Unresolved, TypeOK
  <1>4. CASE AlreadyThere
    <2>1. stack' \in Seq(Frame)
      BY <1>4, AdvanceFrame DEF AlreadyThere, InLoop, NextRequirement, StackShape, TypeOK
    <2> QED BY <1>4, <2>1 DEF AlreadyThere, TypeOK
  <1>5. CASE Recurse
    <2>1. Requirement \in Package
      BY <1>5, TopIsAFrame DEF Recurse, InLoop, Requirement, StackShape, Found
    <2>2. newest[Requirement] \in Package
      BY <2>1 DEF TypeOK
    <2>3. stack' \in Seq(Frame) /\ pc' \in {"store", "overflow", "loop"}
      BY <1>5, <2>2, CallType DEF Recurse
    <2> QED BY <1>5, <2>3 DEF Recurse, TypeOK
  <1>6. CASE Store
    <2>1. CASE req_i \in Slot
      <3>1. stack' \in Seq(Frame)
        <4>1. NextRequirement /\ stack \in Seq(Frame) /\ stack # <<>>
          BY <1>6, <2>1 DEF Store, StackShape, TypeOK
        <4> QED BY <4>1, AdvanceFrame DEF NextRequirement
      <3>2. requirements' \in [Slot -> Found]
        <4>1. Requirement \in Found
          BY <1>6, TopIsAFrame DEF Store, Requirement, StackShape, Top,
             CallsArePending, Pending
        <4> QED BY <1>6, <2>1, <4>1 DEF Store, TypeOK
      <3> QED BY <1>6, <2>1, <3>1, <3>2 DEF Store, TypeOK
    <2>2. CASE req_i \notin Slot
      BY <1>6, <2>2 DEF Store, TypeOK
    <2> QED BY <2>1, <2>2
  <1>7. CASE AppendSelf
    <2>1. CASE req_i \in Slot
      <3>1. /\ Return
            /\ requirements' = [requirements EXCEPT ![req_i] = Top.pkg]
            /\ req_i' = req_i + 1
        BY <1>7, <2>1 DEF AppendSelf
      <3>2. stack # <<>> /\ stack \in Seq(Frame)
        BY <1>7 DEF AppendSelf, LoopIsOver, StackShape, TypeOK
      <3>3. stack' \in Seq(Frame) /\ pc' \in {"count", "store"}
        BY <3>1, <3>2, PopFrame DEF Return
      <3>4. requirements' \in [Slot -> Found]
        <4>1. Top.pkg \in Found
          BY <3>2, TopIsAFrame DEF Found
        <4> QED BY <3>1, <4>1 DEF TypeOK
      <3>5. req_i' \in 0 .. ReqMax
        BY <2>1, <3>1, ConstantsAssumption DEF Slot
      <3> QED BY <1>7, <3>3, <3>4, <3>5 DEF AppendSelf, TypeOK
    <2>2. CASE req_i \notin Slot
      BY <1>7, <2>2 DEF AppendSelf, TypeOK
    <2> QED BY <2>1, <2>2
  <1>8. CASE SelfAlreadyThere
    <2>1. stack' \in Seq(Frame) /\ pc' \in {"count", "store"}
      BY <1>8, PopFrame DEF SelfAlreadyThere, LoopIsOver, Return, StackShape, TypeOK
    <2> QED BY <1>8, <2>1 DEF SelfAlreadyThere, TypeOK
  <1>9. CASE CountUp
    BY <1>9 DEF CountUp, TypeOK
  <1>10. CASE CountPast
    BY <1>10 DEF CountPast, TypeOK
  <1>11. CASE UNCHANGED vars
    BY <1>11 DEF vars, TypeOK
  <1> QED
    BY <1>1, <1>2, <1>3, <1>4, <1>5, <1>6, <1>7, <1>8, <1>9, <1>10, <1>11
       DEF Next, Step, Stopped

-----------------------------------------------------------------------------
(* The array. *)

\* What is covered stays covered while packages settle.
LEMMA CoveredGrows ==
    ASSUME NEW r, NEW S, NEW T, S \subseteq T, UNCHANGED <<needs, newest>>, Covered(r, S)
    PROVE  r # NoPackage /\ (Leaf(newest[r])' \/ r \in T \/ newest[r] \in T)
  BY DEF Covered, Leaf

\* The part of the invariant that is about the array alone.
ArrayInv ==
    /\ NewestIsFixed
    /\ TailIsFree
    /\ SettledOnce
    /\ TailIsCovered
    /\ DependenciesFirst

LEMMA ArrayQuiet ==
    ASSUME ArrayInv, UNCHANGED <<needs, newest, requirements, req_i>>
    PROVE  ArrayInv' /\ Settled' = Settled
  <1>1. Settled' = Settled
    BY DEF Settled, Before
  <1>2. NewestIsFixed' /\ TailIsFree' /\ SettledOnce'
    BY DEF ArrayInv, NewestIsFixed, TailIsFree, SettledOnce
  <1>3. TailIsCovered'
    BY <1>1 DEF ArrayInv, TailIsCovered, Covered, Leaf
  <1>4. DependenciesFirst'
    BY DEF ArrayInv, DependenciesFirst, Covered, Leaf, Before
  <1> QED BY <1>1, <1>2, <1>3, <1>4 DEF ArrayInv

\* The slot req_i is written and req_i stays.
LEMMA ArrayStore ==
    ASSUME TypeOK, ArrayInv, req_i \in Slot, NEW r,
           requirements' = [requirements EXCEPT ![req_i] = r],
           UNCHANGED <<needs, newest, req_i>>, Covered(r, Settled)
    PROVE  ArrayInv' /\ Settled' = Settled
  <1>1. /\ requirements'[req_i] = r
        /\ \A k \in Slot : k # req_i => requirements'[k] = requirements[k]
    BY DEF TypeOK
  <1>2. Settled' = Settled
    BY <1>1 DEF Settled, Before, Slot
  <1>3. NewestIsFixed' /\ TailIsFree' /\ SettledOnce'
    BY <1>1 DEF ArrayInv, NewestIsFixed, TailIsFree, SettledOnce, Slot
  <1>4. TailIsCovered'
    BY <1>1, <1>2 DEF TailIsCovered, Covered, Leaf
  <1>5. DependenciesFirst'
    <2> SUFFICES ASSUME NEW k \in Slot, k < req_i,
                        NEW j \in 1 .. Len(needs[requirements[k]]), j <= ReqMax
                 PROVE  Covered(needs[requirements[k]][j], Before(k))'
      BY <1>1 DEF DependenciesFirst, Slot
    <2>1. Before(k)' = Before(k)
      BY <1>1 DEF Before, Slot
    <2>2. Covered(needs[requirements[k]][j], Before(k))
      BY DEF ArrayInv, DependenciesFirst
    <2>3. requirements'[k] = requirements[k]
      BY <1>1 DEF Slot
    <2> QED BY <2>1, <2>2, <2>3 DEF Covered, Leaf
  <1> QED BY <1>2, <1>3, <1>4, <1>5 DEF ArrayInv

\* A package that is not in the array settles in the slot req_i.
LEMMA ArrayAppend ==
    ASSUME TypeOK, ArrayInv, req_i \in Slot, NEW p \in Package, ~HasDependency(p),
           requirements' = [requirements EXCEPT ![req_i] = p], req_i' = req_i + 1,
           UNCHANGED <<needs, newest>>,
           \A j \in 1 .. Len(needs[p]) : j <= ReqMax => Covered(needs[p][j], Settled)
    PROVE  ArrayInv' /\ Settled' = Settled \cup {p}
  <1> USE ConstantsAssumption DEF Slot
  <1>1. /\ requirements'[req_i] = p
        /\ \A k \in Slot : k # req_i => requirements'[k] = requirements[k]
        /\ req_i \in Nat
    BY DEF TypeOK
  <1>2. Settled' = Settled \cup {p}
    BY <1>1 DEF Settled, Before
  <1>3. NewestIsFixed' /\ TailIsFree'
    BY <1>1 DEF ArrayInv, NewestIsFixed, TailIsFree
  <1>4. SettledOnce'
    BY <1>1 DEF ArrayInv, SettledOnce, HasDependency
  <1>5. TailIsCovered'
    BY <1>1 DEF ArrayInv, TailIsFree, TailIsCovered
  <1>6. DependenciesFirst'
    <2> SUFFICES ASSUME NEW k \in Slot, k < req_i + 1,
                        NEW j \in 1 .. Len(needs[requirements'[k]]), j <= ReqMax
                 PROVE  Covered(needs[requirements[k]][j], Before(k))'
      BY DEF DependenciesFirst
    <2>1. Before(k)' = Before(k)
      BY <1>1 DEF Before
    <2>2. Covered(needs[requirements'[k]][j], Before(k))
      <3>1. CASE k = req_i
        BY <1>1, <3>1 DEF Settled
      <3>2. CASE k # req_i
        BY <1>1, <3>2 DEF ArrayInv, DependenciesFirst
      <3> QED BY <3>1, <3>2
    <2> QED BY <2>1, <2>2 DEF Covered, Leaf
  <1> QED BY <1>2, <1>3, <1>4, <1>5, <1>6 DEF ArrayInv

-----------------------------------------------------------------------------
(* The frames. *)

\* The part of the invariant that is about the frames and the command line.
FramesInv ==
    /\ StackShape
    /\ FramesAreCovered
    /\ CallsArePending
    /\ ItemsAreSettled

\* Nothing but an item's AskedIsSettled depends on the array in ItemsAreSettled.
LEMMA ItemsKept ==
    ASSUME ItemsAreSettled, UNCHANGED <<needs, newest, asked, item>>,
           Settled \subseteq Settled'
    PROVE  /\ \A j \in 1 .. Len(asked) : j < item => AskedIsSettled(j)'
           /\ pc = "count" => item <= Len(asked) /\ AskedIsSettled(item)'
  BY DEF ItemsAreSettled, AskedIsSettled, Leaf

LEMMA AskForFrames ==
    ASSUME TypeOK, FramesInv, AskFor, Settled' = Settled
    PROVE  FramesInv'
  <1> USE DEF world
  <1>1. stack = <<>> /\ item \in 1 .. Len(asked) /\ pc = "next"
    BY DEF AskFor, FramesInv, StackShape, TypeOK
  <1>2. ItemsAreSettled' \/ pc' = "count"
    BY ItemsKept, <1>1 DEF AskFor, FramesInv, ItemsAreSettled
  <1>3. CASE asked[item] = NoPackage
    <2>1. pc' = "failed" /\ UNCHANGED <<stack, needs, newest, asked, item>>
      BY <1>3 DEF AskFor
    <2> QED
      BY <1>1, <1>2, <2>1 DEF FramesInv, StackShape, FramesAreCovered, CallsArePending
  <1>4. CASE asked[item] # NoPackage
    <2>1. asked[item] \in Package /\ Call(asked[item], "count")
      BY <1>1, <1>4 DEF AskFor, TypeOK, Found
    <2>2. UNCHANGED <<needs, newest, asked, item>>
      BY DEF AskFor
    <2>3. CASE Leaf(asked[item])
      <3>1. pc' = "count" /\ stack' = <<>>
        BY <1>1, <2>1, <2>3 DEF Call
      <3>2. ItemsAreSettled'
        BY ItemsKept, <1>1, <2>2, <2>3
           DEF FramesInv, ItemsAreSettled, AskedIsSettled, Leaf
      <3> QED
        BY <2>2, <3>1, <3>2 DEF FramesInv, StackShape, FramesAreCovered, CallsArePending
    <2>4. CASE ~Leaf(asked[item])
      <3>1. CASE Len(stack) = StackMax
        BY <1>1, <3>1, ConstantsAssumption, EmptySeq
      <3>2. CASE Len(stack) # StackMax
        <4>1. pc' = "loop" /\ stack' = Append(stack, [pkg |-> asked[item], i |-> 1])
          BY <2>1, <2>4, <3>2 DEF Call
        <4>2. /\ Len(stack) = 0
              /\ Len(stack') = 1
              /\ stack'[1] = [pkg |-> asked[item], i |-> 1]
          BY <1>1, <2>1, <4>1, PushFrame DEF TypeOK
        <4>3. ItemsAreSettled'
          BY <1>2, <4>1
        <4>4. StackShape'
          BY <1>1, <2>2, <4>1, <4>2 DEF StackShape
        <4>5. FramesAreCovered' /\ CallsArePending'
          BY <4>1, <4>2 DEF FramesAreCovered, CallsArePending
        <4> QED BY <4>3, <4>4, <4>5 DEF FramesInv
      <3> QED BY <3>1, <3>2
    <2> QED BY <2>3, <2>4
  <1> QED BY <1>3, <1>4

LEMMA RecurseFrames ==
    ASSUME TypeOK, FramesInv, Recurse, Settled' = Settled
    PROVE  FramesInv'
  <1> USE DEF world
  <1> DEFINE p == newest[Requirement]
  <1>1. /\ pc = "loop" /\ stack # <<>> /\ stack \in Seq(Frame)
        /\ Len(stack) \in Nat \ {0}
        /\ Pending(Len(stack))
        /\ Requirement \in Package /\ p \in Package
        /\ Call(p, "store")
        /\ UNCHANGED <<needs, newest, asked, item>>
    <2>1. pc = "loop" /\ stack # <<>> /\ stack \in Seq(Frame)
      BY DEF Recurse, InLoop, FramesInv, StackShape, TypeOK
    <2>2. Requirement \in Package /\ p \in Package
      <3>1. Requirement \in Found
        BY <2>1, TopIsAFrame DEF Recurse, InLoop, Requirement
      <3> QED BY <3>1 DEF Recurse, Found, TypeOK
    <2>3. Pending(Len(stack))
      BY DEF Recurse, InLoop, Requirement, Pending, Top
    <2> QED BY <2>1, <2>2, <2>3, TopIsAFrame DEF Recurse
  <1>2. ItemsAreSettled' \/ pc' = "count"
    BY ItemsKept, <1>1 DEF FramesInv, ItemsAreSettled
  <1>3. CASE Leaf(p)
    <2>1. pc' = "store" /\ UNCHANGED stack
      BY <1>1, <1>3 DEF Call
    <2>2. StackShape' /\ FramesAreCovered' /\ ItemsAreSettled'
      BY <1>1, <1>2, <2>1
         DEF FramesInv, StackShape, FramesAreCovered, Covered, Leaf
    <2>3. CallsArePending'
      BY <1>1, <1>3, <2>1
         DEF FramesInv, CallsArePending, Pending, Leaf, Requirement, Top
    <2> QED BY <2>2, <2>3 DEF FramesInv
  <1>4. CASE ~Leaf(p) /\ Len(stack) = StackMax
    <2>1. pc' = "overflow" /\ UNCHANGED stack
      BY <1>1, <1>4 DEF Call
    <2> QED
      BY <1>1, <1>2, <2>1 DEF FramesInv, StackShape, FramesAreCovered, Covered, Leaf,
         CallsArePending, Pending
  <1>5. CASE ~Leaf(p) /\ Len(stack) # StackMax
    <2>1. pc' = "loop" /\ stack' = Append(stack, [pkg |-> p, i |-> 1])
      BY <1>1, <1>5 DEF Call
    <2>2. /\ Len(stack') = Len(stack) + 1
          /\ \A d \in 1 .. Len(stack) : stack'[d] = stack[d]
          /\ stack'[Len(stack) + 1] = [pkg |-> p, i |-> 1]
      BY <1>1, <2>1, PushFrame
    <2>3. StackShape'
      BY <1>1, <2>1, <2>2, EmptySeq DEF FramesInv, StackShape
    <2>4. FramesAreCovered'
      <3> SUFFICES ASSUME NEW d \in 1 .. Len(stack'),
                          NEW j \in 1 .. Len(needs[stack'[d].pkg]), j < stack'[d].i
                   PROVE  Covered(needs[stack[d].pkg][j], Settled)'
        BY <1>1 DEF FramesAreCovered
      <3>1. d # Len(stack) + 1
        BY <1>1, <2>2
      <3>2. d \in 1 .. Len(stack) /\ stack'[d] = stack[d]
        BY <1>1, <2>2, <3>1
      <3> QED BY <1>1, <3>2 DEF FramesInv, FramesAreCovered, Covered, Leaf
    <2>5. CallsArePending'
      <3> SUFFICES ASSUME NEW d \in 1 .. Len(stack'), d < Len(stack')
                   PROVE  /\ Pending(d)'
                          /\ stack'[d + 1].pkg = newest[needs[stack'[d].pkg][stack'[d].i]]
        BY <1>1, <2>1 DEF CallsArePending
      <3>1. d \in 1 .. Len(stack) /\ stack'[d] = stack[d]
        BY <1>1, <2>2
      <3>2. CASE d = Len(stack)
        <4>1. stack'[d + 1].pkg = newest[needs[stack'[d].pkg][stack'[d].i]]
          BY <2>2, <3>1, <3>2 DEF Requirement, Top
        <4> QED BY <1>1, <3>1, <3>2, <4>1 DEF Pending
      <3>3. CASE d # Len(stack)
        <4>1. d < Len(stack) /\ stack'[d + 1] = stack[d + 1]
          BY <1>1, <2>2, <3>1, <3>3
        <4> QED BY <1>1, <3>1, <4>1 DEF FramesInv, CallsArePending, Pending
      <3> QED BY <3>2, <3>3
    <2> QED BY <1>2, <2>1, <2>3, <2>4, <2>5 DEF FramesInv
  <1> QED BY <1>3, <1>4, <1>5

\* The top frame goes on to its next requirement.
LEMMA AdvanceFrames ==
    ASSUME TypeOK, FramesInv, pc \in {"loop", "store"}, Covered(Requirement, Settled),
           NextRequirement, pc' = "loop", UNCHANGED <<needs, newest, asked, item>>,
           Settled' = Settled
    PROVE  FramesInv'
  <1>1. /\ stack # <<>> /\ stack \in Seq(Frame) /\ Len(stack) \in Nat \ {0}
        /\ stack[Len(stack)].i \in Nat \ {0}
    BY TopIsAFrame DEF FramesInv, StackShape, TypeOK, Top
  <1>2. /\ stack' \in Seq(Frame)
        /\ Len(stack') = Len(stack)
        /\ \A d \in 1 .. Len(stack) : d < Len(stack) => stack'[d] = stack[d]
        /\ stack'[Len(stack)] = [pkg |-> stack[Len(stack)].pkg, i |-> stack[Len(stack)].i + 1]
    BY <1>1, AdvanceFrame DEF NextRequirement
  <1>3. \A d \in 1 .. Len(stack) : stack'[d].pkg = stack[d].pkg
    BY <1>2
  <1>4. ItemsAreSettled'
    BY ItemsKept DEF FramesInv, ItemsAreSettled
  <1>5. StackShape'
    <2>1. stack' # <<>> /\ 1 \in 1 .. Len(stack)
      BY <1>1, <1>2, EmptySeq
    <2> QED BY <1>1, <1>3, <2>1 DEF FramesInv, StackShape
  <1>6. FramesAreCovered'
    <2> SUFFICES ASSUME NEW d \in 1 .. Len(stack),
                        NEW j \in 1 .. Len(needs[stack[d].pkg]), j < stack'[d].i
                 PROVE  Covered(needs[stack[d].pkg][j], Settled)
      BY <1>2, <1>3 DEF FramesAreCovered, Covered, Leaf
    <2>1. CASE d < Len(stack)
      BY <1>2, <2>1 DEF FramesInv, FramesAreCovered
    <2>2. CASE d = Len(stack) /\ j = stack[d].i
      BY <2>2 DEF Requirement, Top
    <2>3. CASE d = Len(stack) /\ j # stack[d].i
      <3>1. j < stack[d].i
        BY <1>1, <1>2, <2>3
      <3> QED BY <3>1 DEF FramesInv, FramesAreCovered
    <2> QED BY <1>1, <2>1, <2>2, <2>3
  <1>7. CallsArePending'
    <2> SUFFICES ASSUME NEW d \in 1 .. Len(stack), d < Len(stack)
                 PROVE  /\ Pending(d)'
                        /\ stack'[d + 1].pkg = newest[needs[stack'[d].pkg][stack'[d].i]]
      BY <1>2 DEF CallsArePending
    <2>1. stack'[d] = stack[d] /\ stack'[d + 1].pkg = stack[d + 1].pkg
      BY <1>1, <1>2, <1>3
    <2> QED BY <2>1 DEF FramesInv, CallsArePending, Pending
  <1> QED BY <1>4, <1>5, <1>6, <1>7 DEF FramesInv

\* The top frame returns; its package is a leaf or has settled.
LEMMA PopFrames ==
    ASSUME TypeOK, NewestIsFixed, FramesInv, pc = "loop", Return,
           UNCHANGED <<needs, newest, asked, item>>, Settled \subseteq Settled',
           newest[Top.pkg] = Top.pkg => Leaf(Top.pkg) \/ Top.pkg \in Settled'
    PROVE  FramesInv'
  <1>1. /\ stack # <<>> /\ stack \in Seq(Frame) /\ Len(stack) \in Nat \ {0}
        /\ Top.pkg \in Package
    BY TopIsAFrame DEF FramesInv, StackShape, TypeOK
  <1>2. /\ stack' \in Seq(Frame)
        /\ Len(stack') = Len(stack) - 1
        /\ \A d \in 1 .. Len(stack) - 1 : stack'[d] = stack[d]
    BY <1>1, PopFrame DEF Return
  <1>3. pc' = IF Len(stack) = 1 THEN "count" ELSE "store"
    BY DEF Return
  <1>4. FramesAreCovered'
    <2> SUFFICES ASSUME NEW d \in 1 .. Len(stack'),
                        NEW j \in 1 .. Len(needs[stack'[d].pkg]), j < stack'[d].i
                 PROVE  Covered(needs[stack[d].pkg][j], Settled)'
      BY <1>2 DEF FramesAreCovered
    <2>1. d \in 1 .. Len(stack) /\ stack'[d] = stack[d]
      BY <1>1, <1>2
    <2> QED BY <2>1 DEF FramesInv, FramesAreCovered, Covered, Leaf
  <1>5. CASE Len(stack) = 1
    <2>1. Len(stack') = 0 /\ stack' = <<>> /\ pc' = "count"
      BY <1>2, <1>3, <1>5, EmptySeq
    <2>2. item <= Len(asked) /\ asked[item] = Top.pkg
      BY <1>1, <1>5 DEF FramesInv, StackShape, Top
    <2>3. AskedIsSettled(item)'
      BY <2>2 DEF AskedIsSettled, Leaf
    <2>4. ItemsAreSettled'
      BY ItemsKept, <2>2, <2>3 DEF FramesInv, ItemsAreSettled
    <2> QED
      BY <1>4, <2>1, <2>4 DEF FramesInv, StackShape, CallsArePending
  <1>6. CASE Len(stack) # 1
    <2> DEFINE n == Len(stack) - 1
    <2>1. /\ n \in 1 .. Len(stack) /\ n < Len(stack) /\ n + 1 = Len(stack)
          /\ pc' = "store" /\ stack' # <<>>
          /\ Len(stack') = n /\ stack'[n] = stack[n] /\ stack'[1] = stack[1]
      BY <1>1, <1>2, <1>3, <1>6, EmptySeq
    <2>2. Pending(n) /\ Top.pkg = newest[needs[stack[n].pkg][stack[n].i]]
      BY <2>1 DEF FramesInv, CallsArePending, Top
    <2>3. newest[Top.pkg] = Top.pkg
      <3>1. needs[stack[n].pkg][stack[n].i] \in Package
        <4>1. stack[n] \in Frame
          BY <1>1, <2>1, ElementOfSeq
        <4>2. needs[stack[n].pkg] \in Seq(Found) /\ stack[n].i \in 1 .. Len(needs[stack[n].pkg])
          <5>1. stack[n].pkg \in Package /\ stack[n].i \in Nat \ {0}
            BY <4>1 DEF Frame
          <5>2. needs[stack[n].pkg] \in Seq(Found)
            BY <5>1 DEF TypeOK
          <5>3. Len(needs[stack[n].pkg]) \in Nat
            BY <5>2, LenProperties
          <5>4. stack[n].i <= Len(needs[stack[n].pkg])
            BY <2>2 DEF Pending
          <5> HIDE DEF n
          <5> QED BY <5>1, <5>2, <5>3, <5>4
        <4>3. needs[stack[n].pkg][stack[n].i] \in Found
          BY <4>2, ElementOfSeq
        <4> QED BY <2>2, <4>3 DEF Pending, Found
      <3> QED BY <2>2, <3>1 DEF NewestIsFixed
    <2>4. (Leaf(newest[Requirement]) \/ newest[Requirement] \in Settled)'
      BY <2>1, <2>2, <2>3 DEF Requirement, Top, Leaf
    <2>5. CallsArePending'
      <3>1. ASSUME NEW d \in 1 .. Len(stack'), d < Len(stack')
            PROVE  /\ Pending(d)'
                   /\ stack'[d + 1].pkg = newest[needs[stack'[d].pkg][stack'[d].i]]
        <4>1. /\ d \in 1 .. Len(stack) /\ d < Len(stack)
              /\ stack'[d] = stack[d] /\ stack'[d + 1] = stack[d + 1]
          BY <1>1, <1>2, <3>1
        <4> QED BY <4>1 DEF FramesInv, CallsArePending, Pending
      <3>2. Pending(Len(stack))'
        BY <2>1, <2>2 DEF Pending
      <3> QED BY <2>4, <3>1, <3>2 DEF CallsArePending
    <2>6. StackShape' /\ ItemsAreSettled'
      BY ItemsKept, <2>1 DEF FramesInv, StackShape, ItemsAreSettled
    <2> QED BY <1>4, <2>5, <2>6 DEF FramesInv
  <1> QED BY <1>5, <1>6

\* A package in the array is covered, wherever it is.
LEMMA ThereIsCovered ==
    ASSUME TypeOK, ArrayInv, NEW p \in Package, HasDependency(p)
    PROVE  Covered(p, Settled)
  <1>1. PICK k \in Slot : requirements[k] = p
    BY DEF HasDependency
  <1>2. p # NoPackage
    BY ConstantsAssumption
  <1>3. CASE k < req_i
    BY <1>1, <1>2, <1>3 DEF Covered, Settled, Before
  <1>4. CASE k = req_i
    BY <1>1, <1>2, <1>4 DEF ArrayInv, TailIsCovered
  <1>5. CASE k > req_i
    BY <1>1, <1>2, <1>5 DEF ArrayInv, TailIsFree
  <1> QED BY <1>3, <1>4, <1>5 DEF Slot, TypeOK

-----------------------------------------------------------------------------
(* The inductive invariant. *)

LEMMA InvParts == IInv <=> TypeOK /\ ArrayInv /\ FramesInv /\ OverrunMeansFull
  BY DEF IInv, ArrayInv, FramesInv

LEMMA InvInit == Init => IInv
  <1> SUFFICES ASSUME Init PROVE IInv
    OBVIOUS
  <1> USE ConstantsAssumption DEF Init
  <1>1. TypeOK
    BY DEF TypeOK, Found, Final, Slot
  <1>2. ArrayInv
    BY DEF ArrayInv, NewestIsFixed, TailIsFree, SettledOnce, TailIsCovered, DependenciesFirst, Slot
  <1>3. FramesInv
    BY DEF FramesInv, StackShape, FramesAreCovered, CallsArePending, ItemsAreSettled
  <1> QED BY <1>1, <1>2, <1>3, InvParts DEF OverrunMeansFull

LEMMA InvStep == IInv /\ [Next]_vars => IInv'
  <1> SUFFICES ASSUME IInv, [Next]_vars PROVE IInv'
    OBVIOUS
  <1> USE DEF world
  <1>1. TypeOK /\ ArrayInv /\ FramesInv /\ OverrunMeansFull
    BY InvParts
  <1>2. TypeOK'
    BY <1>1, TypeStep DEF FramesInv
  <1>3. (TypeOK /\ ArrayInv /\ FramesInv /\ OverrunMeansFull)' => IInv'
    BY InvParts, PTL
  <1> SUFFICES ArrayInv' /\ FramesInv' /\ OverrunMeansFull'
    BY <1>2, <1>3
  <1>4. CASE AskFor
    <2>1. ArrayInv' /\ Settled' = Settled
      BY <1>1, <1>4, ArrayQuiet DEF AskFor
    <2>2. pc' \notin {"overrun", "overread"}
      BY <1>4 DEF AskFor, Call
    <2> QED BY <1>1, <1>4, <2>1, <2>2, AskForFrames DEF OverrunMeansFull
  <1>5. CASE Finish
    <2>1. ArrayInv' /\ Settled' = Settled
      BY <1>1, <1>5, ArrayQuiet DEF Finish
    <2> QED
      BY <1>1, <1>5, <2>1 DEF Finish, FramesInv, StackShape, FramesAreCovered, Covered,
         Leaf, CallsArePending, ItemsAreSettled, AskedIsSettled, OverrunMeansFull
  <1>6. CASE Unresolved
    <2>1. ArrayInv' /\ Settled' = Settled
      BY <1>1, <1>6, ArrayQuiet DEF Unresolved
    <2> QED
      BY <1>1, <1>6, <2>1 DEF Unresolved, InLoop, FramesInv, StackShape, FramesAreCovered,
         Covered, Leaf, CallsArePending, Pending, ItemsAreSettled, AskedIsSettled,
         OverrunMeansFull
  <1>7. CASE AlreadyThere
    <2>1. ArrayInv' /\ Settled' = Settled
      BY <1>1, <1>7, ArrayQuiet DEF AlreadyThere
    <2>2. Covered(Requirement, Settled)
      <3>1. stack # <<>>
        BY <1>1, <1>7 DEF AlreadyThere, InLoop, FramesInv, StackShape
      <3>2. Requirement \in Found
        BY <1>1, <1>7, <3>1, TopIsAFrame DEF AlreadyThere, InLoop, Requirement
      <3> QED BY <1>1, <1>7, <3>2, ThereIsCovered DEF AlreadyThere, Found
    <2> QED
      BY <1>1, <1>7, <2>1, <2>2, AdvanceFrames DEF AlreadyThere, InLoop, OverrunMeansFull
  <1>8. CASE Recurse
    <2>1. ArrayInv' /\ Settled' = Settled
      BY <1>1, <1>8, ArrayQuiet DEF Recurse
    <2>2. pc' \notin {"overrun", "overread"}
      BY <1>8 DEF Recurse, Call
    <2> QED BY <1>1, <1>8, <2>1, <2>2, RecurseFrames DEF OverrunMeansFull
  <1>9. CASE Store
    <2>1. CASE req_i \in Slot
      <3>1. Covered(Requirement, Settled)
        BY <1>1, <1>9 DEF Store, FramesInv, CallsArePending, Pending, Covered, Requirement, Top
      <3>2. ArrayInv' /\ Settled' = Settled
        BY <1>1, <1>9, <2>1, <3>1, ArrayStore DEF Store
      <3> QED
        BY <1>1, <1>9, <2>1, <3>1, <3>2, AdvanceFrames DEF Store, OverrunMeansFull
    <2>2. CASE req_i \notin Slot
      <3>1. ArrayInv' /\ Settled' = Settled
        BY <1>1, <1>9, <2>2, ArrayQuiet DEF Store
      <3>2. FramesInv'
        BY <1>1, <1>9, <2>2, <3>1 DEF Store, FramesInv, StackShape, FramesAreCovered, Covered,
           Leaf, CallsArePending, Pending, ItemsAreSettled, AskedIsSettled
      <3> QED
        BY <1>1, <1>9, <2>2, <3>1, <3>2, ConstantsAssumption
           DEF Store, TypeOK, Slot, OverrunMeansFull
    <2> QED BY <2>1, <2>2
  <1>10. CASE AppendSelf
    <2>1. Top.pkg \in Package /\ stack # <<>> /\ pc = "loop"
      BY <1>1, <1>10, TopIsAFrame DEF AppendSelf, LoopIsOver, FramesInv, StackShape
    <2>2. CASE req_i \in Slot
      <3>1. \A j \in 1 .. Len(needs[Top.pkg]) : j <= ReqMax => Covered(needs[Top.pkg][j], Settled)
        <4>1. ~(Top.i <= Len(needs[Top.pkg]) /\ Top.i <= ReqMax)
          BY <1>10 DEF AppendSelf, LoopIsOver
        <4>2. /\ Len(stack) \in 1 .. Len(stack) /\ Top.i \in Nat
              /\ Len(needs[Top.pkg]) \in Nat /\ ReqMax \in Nat
          BY <1>1, <2>1, TopIsAFrame, LenProperties, ConstantsAssumption
        <4>3. \A j \in 1 .. Len(needs[Top.pkg]) : j <= ReqMax => j < Top.i
          BY <4>1, <4>2
        <4> QED BY <1>1, <4>2, <4>3 DEF FramesInv, FramesAreCovered, Top
      <3>2. /\ ~HasDependency(Top.pkg)
            /\ requirements' = [requirements EXCEPT ![req_i] = Top.pkg]
            /\ req_i' = req_i + 1
            /\ Return
            /\ UNCHANGED <<needs, newest, asked, item>>
        BY <1>10, <2>2 DEF AppendSelf
      <3>3. ArrayInv' /\ Settled' = Settled \cup {Top.pkg}
        BY <1>1, <2>1, <2>2, <3>1, <3>2, ArrayAppend
      <3>4. FramesInv'
        BY <1>1, <2>1, <3>2, <3>3, PopFrames DEF ArrayInv
      <3> QED BY <3>2, <3>3, <3>4 DEF Return, OverrunMeansFull
    <2>3. CASE req_i \notin Slot
      <3>1. ArrayInv' /\ Settled' = Settled
        BY <1>1, <1>10, <2>3, ArrayQuiet DEF AppendSelf
      <3>2. FramesInv'
        BY <1>1, <1>10, <2>1, <2>3, <3>1 DEF AppendSelf, FramesInv, StackShape,
           FramesAreCovered, Covered, Leaf, CallsArePending, Pending, ItemsAreSettled,
           AskedIsSettled
      <3> QED
        BY <1>1, <1>10, <2>3, <3>1, <3>2, ConstantsAssumption
           DEF AppendSelf, TypeOK, Slot, OverrunMeansFull
    <2> QED BY <2>2, <2>3
  <1>11. CASE SelfAlreadyThere
    <2>1. ArrayInv' /\ Settled' = Settled
      BY <1>1, <1>11, ArrayQuiet DEF SelfAlreadyThere
    <2>2. Covered(Top.pkg, Settled) /\ pc = "loop"
      BY <1>1, <1>11, TopIsAFrame, ThereIsCovered
         DEF SelfAlreadyThere, LoopIsOver, FramesInv, StackShape
    <2>3. FramesInv'
      BY <1>1, <1>11, <2>1, <2>2, PopFrames DEF SelfAlreadyThere, ArrayInv, Covered
    <2> QED BY <1>11, <2>1, <2>3 DEF SelfAlreadyThere, Return, OverrunMeansFull
  <1>12. CASE CountUp
    <2>1. ArrayInv' /\ Settled' = Settled
      BY <1>1, <1>12, ArrayQuiet DEF CountUp
    <2>2. ItemsAreSettled'
      BY <1>1, <1>12, <2>1 DEF CountUp, FramesInv, ItemsAreSettled, AskedIsSettled, Leaf, TypeOK
    <2> QED
      BY <1>1, <1>12, <2>1, <2>2 DEF CountUp, FramesInv, StackShape, FramesAreCovered, Covered,
         Leaf, CallsArePending, OverrunMeansFull
  <1>13. CASE CountPast
    <2>1. ArrayInv' /\ Settled' = Settled
      BY <1>1, <1>13, ArrayQuiet DEF CountPast
    <2>2. ItemsAreSettled'
      BY <1>1, <1>13, <2>1 DEF CountPast, FramesInv, ItemsAreSettled, AskedIsSettled, Leaf, TypeOK
    <2>3. ReqMax <= req_i + 1
      <3>1. num_requirements \in Slot /\ req_i \in 0 .. ReqMax /\ ReqMax \in Nat \ {0}
        BY <1>1, ConstantsAssumption DEF TypeOK
      <3>2. ReqMax - 1 \in Slot /\ num_requirements <= ReqMax - 1
        BY <3>1 DEF Slot
      <3> QED BY <1>1, <1>13, <3>1, <3>2 DEF CountPast, ArrayInv, TailIsFree
    <2> QED
      BY <1>1, <1>13, <2>1, <2>2, <2>3 DEF CountPast, FramesInv, StackShape, FramesAreCovered,
         Covered, Leaf, CallsArePending, OverrunMeansFull
  <1>14. CASE UNCHANGED vars
    <2>1. ArrayInv' /\ Settled' = Settled
      BY <1>1, <1>14, ArrayQuiet DEF vars
    <2> QED
      BY <1>1, <1>14, <2>1 DEF vars, FramesInv, StackShape, FramesAreCovered, Covered, Leaf,
         CallsArePending, Pending, Requirement, Top, ItemsAreSettled, AskedIsSettled,
         OverrunMeansFull
  <1> QED
    BY <1>4, <1>5, <1>6, <1>7, <1>8, <1>9, <1>10, <1>11, <1>12, <1>13, <1>14
       DEF Next, Step, Stopped

\* The packages that stay are as many as the slots that req_i has passed.
LEMMA PassedIsMany ==
    ASSUME TypeOK, TailIsFree, SettledOnce
    PROVE  req_i <= Cardinality(Package)
  <1> DEFINE Passed == 0 .. req_i - 1
             list == [k \in Passed |-> requirements[k]]
  <1>1. req_i \in Nat /\ Passed \subseteq Slot /\ \A k \in Passed : k < req_i
    BY ConstantsAssumption DEF TypeOK, Slot
  <1>2. list \in Injection(Passed, Package)
    <2>1. \A k \in Passed : requirements[k] \in Package
      BY <1>1 DEF TypeOK, TailIsFree, Found
    <2>2. \A j, k \in Passed : requirements[j] = requirements[k] => j = k
      <3> SUFFICES ASSUME NEW j \in Passed, NEW k \in Passed, j < k
                   PROVE  requirements[j] # requirements[k]
        BY <1>1
      <3> QED BY <1>1 DEF SettledOnce
    <2> QED BY <2>1, <2>2 DEF Injection, IsInjective
  <1>3. IsFiniteSet(Package)
    BY ConstantsAssumption
  <1>4. Cardinality(Passed) <= Cardinality(Package)
    BY <1>2, <1>3, FS_Injection, Zenon
  <1>5. Cardinality(Passed) = req_i
    <2>1. 0 \in Int /\ req_i - 1 \in Int
      BY <1>1
    <2>2. Cardinality(Passed) = IF 0 > req_i - 1 THEN 0 ELSE req_i - 1 - 0 + 1
      BY <2>1, FS_Interval, Zenon
    <2> QED BY <1>1, <2>2
  <1> QED BY <1>4, <1>5

-----------------------------------------------------------------------------
(* No package is in the list twice, and the list is counted exactly. *)

LEMMA OnceInit == Init => OnceInv
  BY ConstantsAssumption DEF Init, OnceInv, WaitedForIsNew, CallsOfSettledAreSettled,
     TailIsNew, StoresAreNew, Settled, Before, Slot

LEMMA OnceQuiet ==
    ASSUME OnceInv, UNCHANGED <<needs, newest, requirements, req_i, stack>>,
           pc' = "store" => pc = "store"
    PROVE  OnceInv'
  BY DEF OnceInv, WaitedForIsNew, CallsOfSettledAreSettled, TailIsNew, StoresAreNew,
     Settled, Before, Top, Requirement

\* What is in the array has settled or is in the slot req_i.
LEMMA ThereIsSettledOrLast ==
    ASSUME TypeOK, TailIsFree, NEW p \in Package, HasDependency(p)
    PROVE  p \in Settled \/ (req_i \in Slot /\ requirements[req_i] = p)
  <1>1. PICK k \in Slot : requirements[k] = p
    BY DEF HasDependency
  <1>2. p # NoPackage
    BY ConstantsAssumption
  <1>3. ~(k > req_i)
    BY <1>1, <1>2 DEF TailIsFree
  <1>4. CASE k < req_i
    BY <1>1, <1>4 DEF Settled, Before
  <1>5. CASE k = req_i
    BY <1>1, <1>5
  <1> QED BY <1>3, <1>4, <1>5 DEF Slot, TypeOK

LEMMA SettledIsThere ==
    ASSUME NEW p, p \in Settled
    PROVE  HasDependency(p)
  BY DEF HasDependency, Settled, Before

\* A settled package that has passed a requirement has settled it, or it is a leaf.
LEMMA SettledHasSettled ==
    ASSUME TypeOK, DependenciesFirst, NEW p \in Package, p \in Settled,
           NEW j \in 1 .. Len(needs[p]), j <= ReqMax
    PROVE  Covered(needs[p][j], Settled)
  <1>1. PICK k \in Slot : k < req_i /\ requirements[k] = p
    BY DEF Settled, Before
  <1>2. Covered(needs[p][j], Before(k))
    BY <1>1 DEF DependenciesFirst
  <1>3. Before(k) \subseteq Settled
    BY <1>1 DEF Before, Settled, Slot, TypeOK
  <1> QED BY <1>2, <1>3 DEF Covered

\* A call of a package that is not a leaf.
LEMMA OnceCall ==
    ASSUME IInv, OnceInv, pc = "loop", Requirement \in Package, ~HasDependency(Requirement),
           ~Leaf(newest[Requirement]), Pending(Len(stack)), Top.i <= ReqMax,
           stack' = Append(stack, [pkg |-> newest[Requirement], i |-> 1]), pc' = "loop",
           UNCHANGED <<needs, newest, requirements, req_i>>
    PROVE  OnceInv'
  <1> DEFINE q == newest[Requirement]
             n == Len(stack)
  <1>1. /\ stack # <<>> /\ stack \in Seq(Frame) /\ n \in Nat \ {0} /\ q \in Package
        /\ Top.pkg \in Package /\ Top.i \in Nat \ {0}
    BY TopIsAFrame DEF IInv, StackShape, TypeOK
  <1>2. /\ Len(stack') = n + 1
        /\ \A d \in 1 .. n : stack'[d] = stack[d]
        /\ stack'[n + 1] = [pkg |-> q, i |-> 1]
    BY <1>1, PushFrame
  <1>3. Settled' = Settled
    BY DEF Settled, Before
  <1>4. Requirement \notin Settled
    BY SettledIsThere
  <1> HIDE DEF n, q
  <1>5. WaitedForIsNew'
    <2> SUFFICES ASSUME NEW d \in 1 .. n
                 PROVE  stack[d].i <= ReqMax /\ needs[stack[d].pkg][stack[d].i] \notin Settled
      BY <1>1, <1>2, <1>3 DEF WaitedForIsNew
    <2>1. CASE d = n
      BY <1>4, <2>1 DEF n, Requirement, Top
    <2>2. CASE d # n
      BY <1>1, <2>2 DEF n, OnceInv, WaitedForIsNew
    <2> QED BY <2>1, <2>2
  <1>6. Top.pkg \in Settled => q \in Settled
    <2> SUFFICES ASSUME Top.pkg \in Settled PROVE q \in Settled
      OBVIOUS
    <2>1. Top.i \in 1 .. Len(needs[Top.pkg])
      <3>1. needs[Top.pkg] \in Seq(Found)
        BY <1>1 DEF IInv, TypeOK
      <3> QED BY <1>1, <3>1, LenProperties DEF Pending, Top
    <2>2. Covered(Requirement, Settled)
      BY <1>1, <2>1, SettledHasSettled DEF IInv, Requirement
    <2> QED BY <1>4, <2>2 DEF q, Covered
  <1>7. CallsOfSettledAreSettled'
    <2> SUFFICES ASSUME NEW d \in 1 .. n + 1, NEW e \in 1 .. n + 1, d < e,
                        stack'[d].pkg \in Settled
                 PROVE  stack'[e].pkg \in Settled
      BY <1>2, <1>3 DEF CallsOfSettledAreSettled
    <2>1. d \in 1 .. n /\ stack[d].pkg \in Settled
      BY <1>1, <1>2
    <2>2. CASE e \in 1 .. n
      <3>1. stack[e].pkg \in Settled
        BY <2>1, <2>2 DEF n, OnceInv, CallsOfSettledAreSettled
      <3> QED BY <1>2, <2>2, <3>1
    <2>3. CASE e = n + 1
      <3>1. Top.pkg \in Settled
        <4>1. CASE d = n
          BY <2>1, <4>1 DEF n, Top
        <4>2. CASE d # n
          <5>1. n \in 1 .. n /\ d < n
            BY <1>1, <2>1, <4>2
          <5> QED BY <2>1, <5>1 DEF n, Top, OnceInv, CallsOfSettledAreSettled
        <4> QED BY <4>1, <4>2
      <3> QED BY <1>2, <1>6, <2>3, <3>1
    <2>4. e \in 1 .. n \/ e = n + 1
      BY <1>1
    <2> QED BY <2>2, <2>3, <2>4
  <1>8. TailIsNew'
    <2>1. stack' # <<>> /\ stack'[1] = stack[1]
      BY <1>1, <1>2, EmptySeq
    <2> QED BY <1>1, <1>3, <2>1 DEF OnceInv, TailIsNew
  <1> QED BY <1>5, <1>7, <1>8 DEF OnceInv, StoresAreNew

\* The top frame goes on, and the slot req_i holds what it did or what has not settled
\* if the first frame has.
LEMMA OnceAdvance ==
    ASSUME IInv, OnceInv, pc \in {"loop", "store"}, NextRequirement, pc' = "loop",
           UNCHANGED <<needs, newest, req_i>>, Settled' = Settled,
           req_i \in Slot /\ stack[1].pkg \in Settled => requirements'[req_i] \notin Settled
    PROVE  OnceInv'
  <1>1. /\ stack # <<>> /\ stack \in Seq(Frame) /\ Len(stack) \in Nat \ {0}
    BY TopIsAFrame DEF IInv, StackShape, TypeOK
  <1>2. /\ stack' \in Seq(Frame)
        /\ Len(stack') = Len(stack)
        /\ \A d \in 1 .. Len(stack) : d < Len(stack) => stack'[d] = stack[d]
        /\ stack'[Len(stack)] = [pkg |-> stack[Len(stack)].pkg, i |-> stack[Len(stack)].i + 1]
    BY <1>1, AdvanceFrame DEF NextRequirement
  <1>3. \A d \in 1 .. Len(stack) : stack'[d].pkg = stack[d].pkg
    BY <1>2
  <1>4. WaitedForIsNew'
    BY <1>2 DEF OnceInv, WaitedForIsNew
  <1>5. CallsOfSettledAreSettled'
    BY <1>2, <1>3 DEF OnceInv, CallsOfSettledAreSettled
  <1>6. TailIsNew'
    <2>1. stack' # <<>> /\ stack'[1].pkg = stack[1].pkg
      BY <1>1, <1>2, <1>3, EmptySeq
    <2> QED BY <2>1 DEF TailIsNew
  <1> QED BY <1>4, <1>5, <1>6 DEF OnceInv, StoresAreNew

\* The frames below the top one after a return.
LEMMA FramesBelow ==
    ASSUME IInv, pc = "loop", Return
    PROVE  /\ Len(stack) \in Nat \ {0} /\ Len(stack') = Len(stack) - 1
           /\ \A d \in 1 .. Len(stack) - 1 : stack'[d] = stack[d]
           /\ stack' = <<>> <=> Len(stack) = 1
           /\ pc' = "store" => Len(stack) # 1
  <1>1. /\ stack # <<>> /\ stack \in Seq(Frame) /\ Len(stack) \in Nat \ {0}
    BY TopIsAFrame DEF IInv, StackShape, TypeOK
  <1>2. /\ stack' \in Seq(Frame)
        /\ Len(stack') = Len(stack) - 1
        /\ \A d \in 1 .. Len(stack) - 1 : stack'[d] = stack[d]
    BY <1>1, PopFrame DEF Return
  <1>3. stack' = <<>> <=> Len(stack) = 1
    BY <1>1, <1>2, EmptySeq
  <1> QED BY <1>1, <1>2, <1>3 DEF Return

\* A package that settles is on the stack once.
LEMMA SettlesOnce ==
    ASSUME IInv, OnceInv, pc = "loop", LoopIsOver, Top.pkg \notin Settled,
           NEW d \in 1 .. Len(stack) - 1
    PROVE  stack[d].pkg # Top.pkg
  <1> SUFFICES ASSUME stack[d].pkg = Top.pkg PROVE FALSE
    OBVIOUS
  <1> DEFINE n == Len(stack)
             r == needs[stack[d].pkg][stack[d].i]
  <1>1. /\ stack # <<>> /\ stack \in Seq(Frame) /\ n \in Nat \ {0}
        /\ Top.pkg \in Package /\ Top.i \in Nat \ {0} /\ needs[Top.pkg] \in Seq(Found)
    BY TopIsAFrame DEF IInv, StackShape, TypeOK
  <1>2. d \in 1 .. n /\ d + 1 \in 1 .. n /\ n \in 1 .. n /\ d < n
    BY <1>1
  <1>3. Pending(d) /\ stack[d + 1].pkg = newest[r]
    BY <1>2 DEF IInv, CallsArePending
  <1>4. stack[d] \in Frame
    BY <1>1, <1>2, ElementOfSeq
  <1>5. Top.i > stack[d].i /\ stack[d].i \in 1 .. Len(needs[stack[d].pkg])
    <2>1. Len(needs[Top.pkg]) \in Nat /\ ReqMax \in Nat /\ stack[d].i \in Nat \ {0}
      BY <1>1, <1>4, LenProperties, ConstantsAssumption DEF Frame
    <2>2. stack[d].i <= Len(needs[Top.pkg]) /\ stack[d].i <= ReqMax
      BY <1>2, <1>3 DEF Pending, OnceInv, WaitedForIsNew
    <2> QED BY <1>1, <2>1, <2>2 DEF LoopIsOver
  <1>6. Covered(r, Settled)
    <2>1. \A j \in 1 .. Len(needs[stack[n].pkg]) :
              j < stack[n].i => Covered(needs[stack[n].pkg][j], Settled)
      BY <1>2 DEF IInv, FramesAreCovered
    <2> QED BY <1>5, <2>1 DEF Top
  <1>7. r \notin Settled
    BY <1>2 DEF OnceInv, WaitedForIsNew
  <1>8. ~Leaf(newest[r])
    <2>1. needs[Top.pkg] # <<>>
      BY <1>1, <1>5, LenProperties
    <2>2. CASE d + 1 = n
      BY <1>3, <2>1, <2>2 DEF Leaf, Top
    <2>3. CASE d + 1 # n
      <3>1. Pending(d + 1) /\ stack[d + 1] \in Frame
        BY <1>1, <1>2, <2>3, ElementOfSeq DEF IInv, CallsArePending
      <3>2. needs[stack[d + 1].pkg] # <<>>
        BY <3>1, EmptySeq DEF Pending, Frame
      <3> QED BY <1>3, <3>2 DEF Leaf
    <2> QED BY <2>2, <2>3
  <1>9. stack[d + 1].pkg \in Settled
    BY <1>3, <1>6, <1>7, <1>8 DEF Covered
  <1>10. CASE d + 1 = n
    BY <1>9, <1>10 DEF Top
  <1>11. CASE d + 1 # n
    <2>1. d + 1 < n
      BY <1>2, <1>11
    <2> QED BY <1>2, <1>9, <2>1 DEF Top, OnceInv, CallsOfSettledAreSettled
  <1> QED BY <1>10, <1>11

\* Below the first frame there are newest versions only.
LEMMA CallsAreNewest ==
    ASSUME IInv, Len(stack) \in Nat, Len(stack) > 1
    PROVE  newest[Top.pkg] = Top.pkg
  <1> DEFINE n == Len(stack) - 1
             r == needs[stack[n].pkg][stack[n].i]
  <1>1. /\ n \in 1 .. Len(stack) /\ n < Len(stack) /\ n + 1 = Len(stack)
        /\ stack \in Seq(Frame)
    BY DEF IInv, TypeOK
  <1>2. Pending(n) /\ Top.pkg = newest[r]
    BY <1>1 DEF IInv, CallsArePending, Top
  <1>3. stack[n] \in Frame
    BY <1>1, ElementOfSeq
  <1>4. stack[n].i \in 1 .. Len(needs[stack[n].pkg]) /\ needs[stack[n].pkg] \in Seq(Found)
    BY <1>2, <1>3, LenProperties DEF Pending, Frame, IInv, TypeOK
  <1>5. r \in Package
    <2>1. r \in Found
      BY <1>4, ElementOfSeq
    <2> QED BY <1>2, <2>1 DEF Pending, Found
  <1> QED BY <1>2, <1>5 DEF IInv, NewestIsFixed

LEMMA OnceStep == IInv /\ OnceInv /\ [Next]_vars => OnceInv'
  <1> SUFFICES ASSUME IInv, OnceInv, [Next]_vars PROVE OnceInv'
    OBVIOUS
  <1> USE DEF world
  <1>0. TypeOK /\ ArrayInv /\ StackShape
    BY DEF IInv, ArrayInv
  <1>1. CASE AskFor
    <2>1. /\ stack = <<>> /\ stack \in Seq(Frame)
          /\ pc' # "store" /\ UNCHANGED <<needs, newest, requirements, req_i>>
      BY <1>0, <1>1 DEF AskFor, Call, StackShape, TypeOK
    <2>2. Settled' = Settled
      BY <2>1 DEF Settled, Before
    <2>3. Len(stack') \in 0 .. 1
      <3>1. CASE UNCHANGED stack
        BY <2>1, <3>1, EmptySeq
      <3>2. CASE stack' = Append(stack, [pkg |-> asked[item], i |-> 1])
        BY <2>1, <3>2
      <3> QED BY <1>1, <3>1, <3>2 DEF AskFor, Call
    <2>4. TailIsNew'
      BY <2>1, <2>2 DEF OnceInv, TailIsNew
    <2>5. \A d, e \in 1 .. Len(stack') : ~(d < e) /\ ~(d < Len(stack'))
      BY <2>3
    <2> QED BY <2>1, <2>4, <2>5 DEF OnceInv, WaitedForIsNew, CallsOfSettledAreSettled, StoresAreNew
  <1>2. CASE Finish
    BY <1>2, OnceQuiet DEF Finish
  <1>3. CASE Unresolved
    BY <1>3, OnceQuiet DEF Unresolved
  <1>4. CASE AlreadyThere
    <2>1. Settled' = Settled
      BY <1>4 DEF AlreadyThere, Settled, Before
    <2>2. stack # <<>>
      BY <1>0, <1>4 DEF AlreadyThere, InLoop, StackShape
    <2> QED BY <1>4, <2>1, <2>2, OnceAdvance DEF AlreadyThere, InLoop, OnceInv, TailIsNew
  <1>5. CASE Recurse
    <2>1. /\ pc = "loop" /\ stack # <<>> /\ Top.i <= ReqMax
          /\ ~HasDependency(Requirement) /\ Requirement # NoPackage
          /\ UNCHANGED <<needs, newest, requirements, req_i>>
          /\ Call(newest[Requirement], "store")
      BY <1>0, <1>5 DEF Recurse, InLoop, StackShape
    <2>2. Requirement \in Package
      BY <1>0, <1>5, <2>1, TopIsAFrame DEF Recurse, InLoop, Requirement, Found
    <2>3. CASE UNCHANGED stack
      <3>1. StoresAreNew'
        <4>1. Requirement \notin Settled
          BY <2>1, SettledIsThere
        <4> QED BY <2>1, <2>3, <4>1 DEF StoresAreNew, Requirement, Top, Settled, Before
      <3> QED
        BY <2>1, <2>3, <3>1 DEF OnceInv, WaitedForIsNew, CallsOfSettledAreSettled, TailIsNew,
           Settled, Before
    <2>4. CASE /\ ~Leaf(newest[Requirement]) /\ pc' = "loop"
               /\ stack' = Append(stack, [pkg |-> newest[Requirement], i |-> 1])
      <3>1. Pending(Len(stack))
        BY <1>5, <2>1 DEF Recurse, InLoop, Pending, Requirement, Top
      <3> QED BY <2>1, <2>2, <2>4, <3>1, OnceCall
    <2> QED BY <2>1, <2>3, <2>4 DEF Call
  <1>6. CASE Store
    <2>1. CASE req_i \in Slot
      <3>1. /\ requirements'[req_i] = Requirement
            /\ \A k \in Slot : k # req_i => requirements'[k] = requirements[k]
        BY <1>0, <1>6, <2>1 DEF Store, TypeOK
      <3>2. Settled' = Settled
        BY <1>0, <1>6, <2>1, <3>1 DEF Store, Settled, Before, Slot, TypeOK
      <3>3. stack # <<>> /\ Len(stack) \in Nat \ {0}
        BY <1>0, <1>6, TopIsAFrame DEF Store, StackShape
      <3>4. stack[1].pkg \in Settled => Top.pkg \in Settled
        BY <3>3 DEF Top, OnceInv, CallsOfSettledAreSettled
      <3>5. stack[1].pkg \in Settled => requirements'[req_i] \notin Settled
        BY <1>6, <3>1, <3>4 DEF Store, OnceInv, StoresAreNew
      <3> QED BY <1>6, <2>1, <3>2, <3>5, OnceAdvance DEF Store
    <2>2. CASE req_i \notin Slot
      BY <1>6, <2>2, OnceQuiet DEF Store
    <2> QED BY <2>1, <2>2
  <1>7. CASE AppendSelf
    <2>1. CASE req_i \in Slot
      <3>1. /\ pc = "loop" /\ Return /\ LoopIsOver /\ ~HasDependency(Top.pkg)
            /\ requirements' = [requirements EXCEPT ![req_i] = Top.pkg]
            /\ req_i' = req_i + 1 /\ UNCHANGED <<needs, newest>>
        BY <1>7, <2>1 DEF AppendSelf, LoopIsOver
      <3>2. /\ Len(stack) \in Nat \ {0} /\ Len(stack') = Len(stack) - 1
            /\ \A d \in 1 .. Len(stack) - 1 : stack'[d] = stack[d]
            /\ pc' = "store" => Len(stack) # 1
            /\ Top.pkg \in Package
        BY <1>0, <3>1, FramesBelow, TopIsAFrame DEF StackShape
      <3>3. Settled' = Settled \cup {Top.pkg}
        <4>1. /\ requirements'[req_i] = Top.pkg
              /\ \A k \in Slot : k # req_i => requirements'[k] = requirements[k]
          BY <1>0, <2>1, <3>1 DEF TypeOK
        <4> QED BY <2>1, <3>1, <4>1, ConstantsAssumption DEF Settled, Before, Slot
      <3>4. Top.pkg \notin Settled
        BY <3>1, SettledIsThere
      <3>5. \A d \in 1 .. Len(stack) - 1 : stack[d].pkg # Top.pkg
        BY <3>1, <3>4, SettlesOnce
      <3>6. WaitedForIsNew'
        <4> SUFFICES ASSUME NEW d \in 1 .. Len(stack) - 1, d < Len(stack) - 1
                     PROVE  /\ stack[d].i <= ReqMax
                            /\ needs[stack[d].pkg][stack[d].i] \notin Settled \cup {Top.pkg}
          BY <3>1, <3>2, <3>3 DEF WaitedForIsNew
        <4>1. d \in 1 .. Len(stack) /\ d < Len(stack) /\ d + 1 \in 1 .. Len(stack) - 1
          BY <3>2
        <4>2. stack[d].i <= ReqMax /\ needs[stack[d].pkg][stack[d].i] \notin Settled
          BY <4>1 DEF OnceInv, WaitedForIsNew
        <4>3. stack[d + 1].pkg = newest[needs[stack[d].pkg][stack[d].i]]
          BY <4>1 DEF IInv, CallsArePending
        <4>4. newest[Top.pkg] = Top.pkg
          BY <1>0, <3>2, <4>1, CallsAreNewest
        <4>5. stack[d + 1].pkg # Top.pkg
          BY <3>5, <4>1
        <4> QED BY <4>2, <4>3, <4>4, <4>5
      <3>7. CallsOfSettledAreSettled'
        <4> SUFFICES ASSUME NEW d \in 1 .. Len(stack) - 1, NEW e \in 1 .. Len(stack) - 1, d < e,
                            stack[d].pkg \in Settled \cup {Top.pkg}
                     PROVE  stack[e].pkg \in Settled \cup {Top.pkg}
          BY <3>2, <3>3 DEF CallsOfSettledAreSettled
        <4>1. d \in 1 .. Len(stack) /\ e \in 1 .. Len(stack)
          BY <3>2
        <4> QED BY <3>5, <4>1 DEF OnceInv, CallsOfSettledAreSettled
      <3>8. TailIsNew'
        <4> SUFFICES ASSUME req_i + 1 \in Slot PROVE requirements'[req_i + 1] \notin Settled'
          BY <3>1 DEF TailIsNew
        <4>1. requirements'[req_i + 1] = NoPackage
          BY <1>0, <2>1, <3>1 DEF ArrayInv, TailIsFree, TypeOK, Slot
        <4>2. NoPackage \notin Settled \cup {Top.pkg}
          BY <1>0, <3>2, ConstantsAssumption DEF ArrayInv, TailIsFree, Settled, Before
        <4> QED BY <3>3, <4>1, <4>2
      <3>9. StoresAreNew'
        <4> SUFFICES ASSUME pc' = "store", (Top.pkg \in Settled)' PROVE FALSE
          BY DEF StoresAreNew
        <4> DEFINE n == Len(stack) - 1
        <4>1. /\ n \in 1 .. Len(stack) - 1 /\ n \in 1 .. Len(stack) /\ n < Len(stack)
              /\ Len(stack) \in 1 .. Len(stack) /\ Len(stack') = n
          BY <3>2
        <4>2. stack[n].pkg \in Settled
          BY <3>2, <3>3, <3>5, <4>1 DEF Top
        <4>3. stack[Len(stack)].pkg \in Settled
          BY <4>1, <4>2 DEF OnceInv, CallsOfSettledAreSettled
        <4> QED BY <3>4, <4>3 DEF Top
      <3> QED BY <3>6, <3>7, <3>8, <3>9 DEF OnceInv
    <2>2. CASE req_i \notin Slot
      BY <1>7, <2>2, OnceQuiet DEF AppendSelf
    <2> QED BY <2>1, <2>2
  <1>8. CASE SelfAlreadyThere
    <2>1. /\ pc = "loop" /\ Return /\ HasDependency(Top.pkg)
          /\ UNCHANGED <<needs, newest, requirements, req_i>>
      BY <1>8 DEF SelfAlreadyThere, LoopIsOver
    <2>2. /\ Len(stack) \in Nat \ {0} /\ Len(stack') = Len(stack) - 1
          /\ \A d \in 1 .. Len(stack) - 1 : stack'[d] = stack[d]
          /\ stack' = <<>> <=> Len(stack) = 1
          /\ pc' = "store" => Len(stack) # 1
          /\ Top.pkg \in Package
      BY <1>0, <2>1, FramesBelow, TopIsAFrame DEF StackShape
    <2>3. Settled' = Settled
      BY <2>1 DEF Settled, Before
    <2>4. WaitedForIsNew' /\ CallsOfSettledAreSettled'
      <3>1. \A d \in 1 .. Len(stack') : d \in 1 .. Len(stack) /\ stack'[d] = stack[d]
        BY <2>2
      <3>2. \A d \in 1 .. Len(stack') : d < Len(stack') => d < Len(stack)
        BY <2>2
      <3>3. WaitedForIsNew'
        BY <2>1, <2>3, <3>1, <3>2 DEF OnceInv, WaitedForIsNew
      <3>4. CallsOfSettledAreSettled'
        BY <2>3, <3>1 DEF OnceInv, CallsOfSettledAreSettled
      <3> QED BY <3>3, <3>4
    <2>5. TailIsNew'
      <3> SUFFICES ASSUME req_i \in Slot, stack' = <<>> \/ stack'[1].pkg \in Settled
                   PROVE  requirements[req_i] \notin Settled
        BY <2>1, <2>3 DEF TailIsNew
      <3>1. CASE stack' = <<>>
        <4>1. stack[1] = Top
          BY <2>2, <3>1 DEF Top
        <4>2. Top.pkg \in Settled \/ requirements[req_i] = Top.pkg
          BY <1>0, <2>1, <2>2, ThereIsSettledOrLast DEF ArrayInv
        <4> QED BY <4>1, <4>2 DEF OnceInv, TailIsNew
      <3>2. CASE stack' # <<>>
        <4>1. stack'[1] = stack[1]
          BY <2>2, <3>2
        <4> QED BY <3>2, <4>1 DEF OnceInv, TailIsNew
      <3> QED BY <3>1, <3>2
    <2>6. StoresAreNew'
      <3> SUFFICES ASSUME pc' = "store" PROVE Requirement' \notin Settled
        BY <2>3 DEF StoresAreNew
      <3> DEFINE n == Len(stack) - 1
      <3>1. n \in 1 .. Len(stack) - 1 /\ n \in 1 .. Len(stack) /\ n < Len(stack) /\ Len(stack') = n
        BY <2>2
      <3>2. Requirement' = needs[stack[n].pkg][stack[n].i]
        BY <2>1, <2>2, <3>1 DEF Requirement, Top
      <3> QED BY <3>1, <3>2 DEF OnceInv, WaitedForIsNew
    <2> QED BY <2>4, <2>5, <2>6 DEF OnceInv
  <1>9. CASE CountUp
    BY <1>9, OnceQuiet DEF CountUp
  <1>10. CASE CountPast
    BY <1>10, OnceQuiet DEF CountPast
  <1>11. CASE UNCHANGED vars
    BY <1>11, OnceQuiet DEF vars
  <1> QED
    BY <1>1, <1>2, <1>3, <1>4, <1>5, <1>6, <1>7, <1>8, <1>9, <1>10, <1>11
       DEF Next, Step, Stopped

\* A slot that was counted stays taken; CountUp ends at the first free one.
LEMMA CountStep == IInv /\ CountInv /\ [Next]_vars => CountInv'
  <1> SUFFICES ASSUME IInv, CountInv, [Next]_vars PROVE CountInv'
    OBVIOUS
  <1>1. TypeOK /\ StackShape /\ CallsArePending
    BY DEF IInv
  <1> USE DEF world
  <1>2. CASE CountUp
    BY <1>1, <1>2 DEF CountUp, CountInv, TypeOK, Slot
  <1>3. CASE Store
    <2>1. Requirement # NoPackage /\ pc' \notin {"next", "done"} /\ requirements \in [Slot -> Found]
      BY <1>1, <1>3 DEF Store, CallsArePending, Pending, Requirement, Top, TypeOK
    <2> QED BY <1>3, <2>1 DEF Store, CountInv
  <1>4. CASE AppendSelf
    <2>1. Top.pkg # NoPackage /\ pc' \notin {"next", "done"} /\ requirements \in [Slot -> Found]
      BY <1>1, <1>4, TopIsAFrame, ConstantsAssumption
         DEF AppendSelf, LoopIsOver, Return, StackShape, TypeOK
    <2> QED BY <1>4, <2>1 DEF AppendSelf, CountInv
  <1>5. CASE Finish \/ UNCHANGED vars
    BY <1>5 DEF Finish, vars, CountInv
  <1>6. CASE AskFor \/ Unresolved \/ AlreadyThere \/ Recurse \/ SelfAlreadyThere \/ CountPast
    <2>1. pc' \notin {"next", "done"} /\ UNCHANGED <<requirements, num_requirements>>
      BY <1>6 DEF AskFor, Call, Unresolved, AlreadyThere, InLoop, Recurse, SelfAlreadyThere,
         Return, CountPast
    <2> QED BY <2>1 DEF CountInv
  <1> QED BY <1>2, <1>3, <1>4, <1>5, <1>6 DEF Next, Step, Stopped

\* A set that has what was asked for and what its members need is never left.
LEMMA NeededStep ==
    ASSUME IInv, [Next]_vars, NEW S \in SUBSET Package,
           AskedIn(S), ClosedUnderNeeds(S), Holds(S)
    PROVE  Holds(S)'
  <1> USE DEF world
  <1>1. TypeOK /\ StackShape /\ CallsArePending
    BY DEF IInv
  <1>2. \A s, p : s \in Seq(Frame) /\ p \in S /\ (\A d \in 1 .. Len(s) : s[d].pkg \in S) =>
            \A d \in 1 .. Len(Append(s, [pkg |-> p, i |-> 1])) :
                Append(s, [pkg |-> p, i |-> 1])[d].pkg \in S
    <2> SUFFICES ASSUME NEW s \in Seq(Frame), NEW p \in S, \A d \in 1 .. Len(s) : s[d].pkg \in S,
                        NEW d \in 1 .. Len(Append(s, [pkg |-> p, i |-> 1]))
                 PROVE  Append(s, [pkg |-> p, i |-> 1])[d].pkg \in S
      OBVIOUS
    <2>1. d \in 1 .. Len(s) \/ d = Len(s) + 1
      BY PushFrame
    <2> QED BY <2>1, PushFrame
  <1>3. CASE AskFor
    <2>1. asked[item] # NoPackage => asked[item] \in S
      BY <1>1, <1>3 DEF AskFor, AskedIn, TypeOK
    <2>2. stack \in Seq(Frame)
      BY <1>1 DEF TypeOK
    <2> QED BY <1>2, <1>3, <2>1, <2>2 DEF AskFor, Call, Holds
  <1>4. ASSUME stack # <<>>, Requirement # NoPackage, Top.i <= Len(needs[Top.pkg])
        PROVE  Requirement \in S /\ newest[Requirement] \in S
    <2>1. Top.pkg \in S
      BY <1>1, <1>4, TopIsAFrame DEF Holds, Top
    <2>2. Top.i \in 1 .. Len(needs[Top.pkg])
      BY <1>1, <1>4, TopIsAFrame, LenProperties
    <2> QED BY <1>4, <2>1, <2>2 DEF ClosedUnderNeeds, Requirement
  <1>5. stack # <<>> /\ NextRequirement => \A d \in 1 .. Len(stack') : stack'[d].pkg \in S
    <2> SUFFICES ASSUME stack # <<>>, NextRequirement, NEW d \in 1 .. Len(stack')
                 PROVE  stack'[d].pkg \in S
      OBVIOUS
    <2>1. /\ d \in 1 .. Len(stack) /\ Len(stack) \in Nat
          /\ stack'[d].pkg = stack[d].pkg
      <3>1. stack \in Seq(Frame) /\ Len(stack) \in Nat
        BY <1>1, TopIsAFrame DEF TypeOK
      <3> QED BY <3>1, AdvanceFrame DEF NextRequirement
    <2> QED BY <2>1 DEF Holds
  <1>6. stack # <<>> /\ Return => \A d \in 1 .. Len(stack') : stack'[d].pkg \in S
    <2> SUFFICES ASSUME stack # <<>>, Return, NEW d \in 1 .. Len(stack')
                 PROVE  stack'[d].pkg \in S
      OBVIOUS
    <2>1. stack \in Seq(Frame) /\ Len(stack) \in Nat
      BY <1>1, TopIsAFrame DEF TypeOK
    <2>2. d \in 1 .. Len(stack) /\ stack'[d] = stack[d]
      BY <2>1, PopFrame DEF Return
    <2> QED BY <2>2 DEF Holds
  <1>7. CASE AlreadyThere
    BY <1>1, <1>5, <1>7 DEF AlreadyThere, InLoop, StackShape, Holds
  <1>8. CASE Recurse
    <2>1. /\ stack # <<>> /\ stack \in Seq(Frame) /\ Requirement # NoPackage
          /\ Top.i <= Len(needs[Top.pkg])
      BY <1>1, <1>8 DEF Recurse, InLoop, StackShape, TypeOK
    <2> QED BY <1>2, <1>4, <1>8, <2>1 DEF Recurse, Call, Holds
  <1>9. CASE Store
    <2>1. stack # <<>> /\ Requirement \in S /\ requirements \in [Slot -> Found]
      <3>1. stack # <<>> /\ Pending(Len(stack)) /\ requirements \in [Slot -> Found]
        BY <1>1, <1>9 DEF Store, StackShape, CallsArePending, TypeOK
      <3> QED BY <1>4, <3>1 DEF Pending, Requirement, Top
    <2> QED BY <1>5, <1>9, <2>1 DEF Store, Holds
  <1>10. CASE AppendSelf
    <2>1. stack # <<>> /\ Top.pkg \in S /\ requirements \in [Slot -> Found]
      BY <1>1, <1>10, TopIsAFrame DEF AppendSelf, LoopIsOver, StackShape, TypeOK, Holds, Top
    <2> QED BY <1>6, <1>10, <2>1 DEF AppendSelf, Holds
  <1>11. CASE SelfAlreadyThere
    BY <1>1, <1>6, <1>11 DEF SelfAlreadyThere, LoopIsOver, StackShape, Holds
  <1>12. CASE Finish \/ Unresolved \/ CountUp \/ CountPast \/ UNCHANGED vars
    BY <1>12 DEF Finish, Unresolved, CountUp, CountPast, vars, Holds
  <1> QED
    BY <1>3, <1>7, <1>8, <1>9, <1>10, <1>11, <1>12 DEF Next, Step, Stopped

-----------------------------------------------------------------------------
(* The theorems. *)

\* The invariant that carries every result below holds of every reachable state.
THEOREM Inductive == Spec => []IInv
  BY InvInit, InvStep, PTL DEF Spec

\* Every variable of resolve.c and of the caller's loop keeps to its type: req_i
\* never points further than one past the array, whatever the manifests hold.
THEOREM TypeCorrect == Spec => []TypeOK
  <1>1. IInv => TypeOK
    BY DEF IInv
  <1> QED BY <1>1, Inductive, PTL

\* The scans of the array that stop at its first free slot (resolve.c:22,
\* install.c:407, 432) never miss an entry behind it.
THEOREM ScansSeeAll == Spec => []TailIsFree
  <1>1. IInv => TailIsFree
    BY DEF IInv
  <1> QED BY <1>1, Inductive, PTL

\* spm_do_install extracts and records packages in the order of the array: a
\* package that stays in it comes after every requirement that has requirements, or
\* after the newest version of that name.
THEOREM Ordered == Spec => []DependenciesFirst
  <1>1. IInv => DependenciesFirst
    BY DEF IInv
  <1> QED BY <1>1, Inductive, PTL

\* What the command line asked for by its newest version is never lost to a
\* later item's resolution, which overwrites slots (resolve.c:56).
THEOREM AskedPackagesStay == Spec => []AskedStays
  <1>1. IInv => AskedStays
    BY DEF IInv, ItemsAreSettled, AskedStays
  <1> QED BY <1>1, Inductive, PTL

\* resolve.c never compares req_i with the size of its array; manifests of fewer
\* packages than it has slots cannot make it write past the end.
THEOREM NoOverrun == Spec => []ArrayIsEnough
  <1>1. IInv => ArrayIsEnough
    <2> SUFFICES ASSUME IInv
                 PROVE  ArrayIsEnough
      OBVIOUS
    <2>1. Cardinality(Package) \in Nat /\ ReqMax \in Nat /\ req_i \in Nat
      BY ConstantsAssumption, FS_CardinalityType DEF IInv, TypeOK
    <2>2. req_i <= Cardinality(Package)
      BY PassedIsMany DEF IInv
    <2> QED BY <2>1, <2>2 DEF IInv, OverrunMeansFull, ArrayIsEnough
  <1> QED BY <1>1, Inductive, PTL

\* No step, of whichever nested call, changes a slot that req_i has passed.
THEOREM SettledStays == Spec => SettledForever
  <1>1. IInv /\ [Next]_vars
          => [\A k \in Slot : k < req_i => requirements'[k] = requirements[k]]_vars
    <2> SUFFICES ASSUME IInv, Next, NEW k \in Slot, k < req_i
                 PROVE  requirements'[k] = requirements[k]
      OBVIOUS
    <2>1. requirements \in [Slot -> Found]
      BY DEF IInv, TypeOK
    <2>2. k # req_i
      BY ConstantsAssumption DEF Slot
    <2>3. CASE Store
      BY <2>1, <2>2, <2>3 DEF Store
    <2>4. CASE AppendSelf
      BY <2>1, <2>2, <2>4 DEF AppendSelf
    <2>5. CASE ~Store /\ ~AppendSelf
      BY <2>5 DEF Next, Step, Stopped, vars, AskFor, Finish, Unresolved, AlreadyThere,
         Recurse, SelfAlreadyThere, CountUp, CountPast
    <2> QED BY <2>3, <2>4, <2>5
  <1> QED BY <1>1, Inductive, PTL DEF Spec, SettledForever

\* spm_do_install extracts, records and frees each package once: whatever calls have
\* overwritten or skipped, its list repeats none.
THEOREM ListedOnce == Spec => []NoDuplicates
  <1>1. IInv /\ OnceInv => NoDuplicates
    <2> SUFFICES ASSUME IInv, OnceInv, pc \in {"next", "done"}, NEW j \in Slot, NEW k \in Slot,
                        j < k, requirements[j] # NoPackage
                 PROVE  requirements[j] # requirements[k]
      BY DEF NoDuplicates, Slot
    <2>1. req_i \in 0 .. ReqMax /\ ReqMax \in Nat /\ j \in Nat /\ k \in Nat
      BY ConstantsAssumption DEF IInv, TypeOK, Slot
    <2>2. CASE k < req_i
      BY <2>1, <2>2 DEF IInv, SettledOnce
    <2>3. CASE k = req_i
      <3>1. requirements[j] \in Settled
        BY <2>1, <2>3 DEF Settled, Before
      <3>2. requirements[k] \notin Settled
        BY <2>3 DEF IInv, StackShape, OnceInv, TailIsNew
      <3> QED BY <3>1, <3>2
    <2>4. CASE k > req_i
      BY <2>4 DEF IInv, TailIsFree
    <2> QED BY <2>1, <2>2, <2>3, <2>4
  <1> QED BY <1>1, Inductive, OnceInit, OnceStep, PTL DEF Spec

\* spm_do_install counts every package of the list and nothing else, although each item
\* counts on from the last and the slots it has counted may be overwritten.
THEOREM CountedExactly == Spec => []CountIsExact
  <1>1. IInv /\ CountInv => CountIsExact
    BY DEF IInv, TypeOK, TailIsFree, CountInv, CountIsExact, Slot
  <1>2. Init => CountInv
    BY ConstantsAssumption DEF Init, CountInv, Slot
  <1> QED BY <1>1, <1>2, Inductive, CountStep, PTL DEF Spec

\* What is extracted was asked for, or something that was needs it: the list is a part
\* of every set that is closed under the requirements and has what was asked for.
THEOREM NothingElseIsListed == Spec => []OnlyWhatIsNeeded
  <1>1. NeededInv => OnlyWhatIsNeeded
    BY DEF NeededInv, Holds, OnlyWhatIsNeeded
  <1>2. Init => NeededInv
    BY DEF Init, NeededInv, Holds
  <1>3. IInv /\ NeededInv /\ [Next]_vars => NeededInv'
    <2> SUFFICES ASSUME IInv, NeededInv, [Next]_vars, NEW S \in SUBSET Package,
                        AskedIn(S)', ClosedUnderNeeds(S)'
                 PROVE  Holds(S)'
      BY DEF NeededInv
    <2>1. UNCHANGED <<needs, newest, asked>>
      BY DEF Next, Step, Stopped, vars, world, AskFor, Finish, Unresolved, AlreadyThere,
         Recurse, Store, AppendSelf, SelfAlreadyThere, CountUp, CountPast
    <2>2. AskedIn(S) /\ ClosedUnderNeeds(S)
      BY <2>1 DEF AskedIn, ClosedUnderNeeds
    <2> QED BY <2>2, NeededStep DEF NeededInv
  <1> QED BY <1>1, <1>2, <1>3, Inductive, PTL DEF Spec
=============================================================================
