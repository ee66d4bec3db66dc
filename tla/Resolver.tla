------------------------------ MODULE Resolver ------------------------------
(***************************************************************************)
(* Dependency resolution (lib/resolve.c), as spm_do_install drives it      *)
(* (lib/install.c, lines 394 to 411).                                      *)
(*                                                                         *)
(* resolve_dependencies is a recursive C function over two static objects, *)
(* the array `requirements` and the index `req_i` of its first free slot.  *)
(* The recursion is an explicit stack of frames here, so that each read    *)
(* and each write of the array is a step of its own in the order of the    *)
(* code.  The manifests are abstracted to what a search returns:           *)
(*   needs[p]   the package found for each requirement spec of p, in order,*)
(*              NoPackage where the search finds none; <<>> stands for     *)
(*              `package->requirements == NULL' (a leaf);                  *)
(*   newest[p]  the package found when the search is given p's archive     *)
(*              name: the name of p without its version, hence the highest *)
(*              version of it (get_name, find_by_strspec);                 *)
(*   asked      the package found for each item of the command line.       *)
(***************************************************************************)
EXTENDS Integers, Sequences, FiniteSets

CONSTANTS
    Package,     \* the packages of all manifests
    NoPackage,   \* the NULL of a search, and of a free slot
    ReqMax,      \* SPM_REQUIREMENT_MAX, the number of slots
    StackMax,    \* frames of resolve_dependencies the C stack has room for
    NeedsWorlds, \* the values of needs to start from
    NewestWorlds,\* the values of newest to start from
    AskedWorlds  \* the values of asked to start from

Found == Package \cup {NoPackage}
Slot == 0 .. ReqMax - 1

ASSUME ConstantsAssumption ==
    /\ NoPackage \notin Package
    /\ IsFiniteSet(Package)
    /\ ReqMax \in Nat \ {0}
    /\ StackMax \in Nat \ {0}
    /\ NeedsWorlds \subseteq [Package -> Seq(Found)]
    /\ NewestWorlds \subseteq [Package -> Package]
    /\ \A n \in NewestWorlds : \A p \in Package : n[n[p]] = n[p]
    /\ AskedWorlds \subseteq Seq(Found)

VARIABLES
    needs, newest, asked,  \* the manifests and the command line, never changed
    requirements,          \* static ManifestPackage *requirements[]
    req_i,                 \* static size_t req_i
    stack,                 \* frames of resolve_dependencies, the top one last
    item,                  \* the loop index of spm_do_install, from 1
    num_requirements,      \* what spm_do_install has counted so far
    pc

world == <<needs, newest, asked>>
vars == <<needs, newest, asked, requirements, req_i, stack, item,
          num_requirements, pc>>

Frame == [pkg : Package, i : Nat \ {0}]

\* "failed" is an exit with an error; "overrun" is a write past the array,
\* "overread" a read that goes on past it and "overflow" the exhaustion of the C
\* stack, where the program's behaviour ends.
Final == {"done", "failed", "overrun", "overread", "overflow"}

Leaf(p) == needs[p] = <<>>
Top == stack[Len(stack)]

\* Mutant: the scan starts behind the first slot.
HasDependencyFromOne(p) == \E k \in Slot : k > 0 /\ requirements[k] = p
\* Mutant: the scan compares nothing.
HasDependencyNever(p) == FALSE
\* resolve_has_dependency: a scan of the array up to its first free slot.  The
\* slots beyond it are free too (the invariant TailIsFree).
HasDependency(p) == \E k \in Slot : requirements[k] = p

Init ==
    /\ needs \in NeedsWorlds
    /\ newest \in NewestWorlds
    /\ asked \in AskedWorlds
    /\ requirements = [k \in Slot |-> NoPackage]
    /\ req_i = 0
    /\ stack = <<>>
    /\ item = 1
    /\ num_requirements = 0
    /\ pc = "next"

(***************************************************************************)
(* The call resolve_dependencies(manifests, spec) where spec finds p.  A   *)
(* leaf returns at once and leaves the array alone (line 41); any other    *)
(* package enters a frame.  `back' is where control is after the return.   *)
(***************************************************************************)
Call(p, back) ==
    IF Leaf(p)
    THEN /\ pc' = back
         /\ UNCHANGED stack
    ELSE IF Len(stack) = StackMax
    THEN /\ pc' = "overflow"
         /\ UNCHANGED stack
    ELSE /\ stack' = Append(stack, [pkg |-> p, i |-> 1])
         /\ pc' = "loop"

\* Mutant: an item is looked up by its name, without its version.
AskForName ==
    /\ pc = "next"
    /\ item <= Len(asked)
    /\ IF asked[item] = NoPackage
       THEN pc' = "failed" /\ UNCHANGED stack
       ELSE Call(newest[asked[item]], "count")
    /\ UNCHANGED <<world, requirements, req_i, item, num_requirements>>

\* spm_do_install, next item of the command line.
AskFor ==
    /\ pc = "next"
    /\ item <= Len(asked)
    /\ IF asked[item] = NoPackage
       THEN pc' = "failed" /\ UNCHANGED stack
       ELSE Call(asked[item], "count")
    /\ UNCHANGED <<world, requirements, req_i, item, num_requirements>>

Finish ==
    /\ pc = "next"
    /\ item > Len(asked)
    /\ pc' = "done"
    /\ UNCHANGED <<world, requirements, req_i, stack, item, num_requirements>>

\* Lines 45 to 55: one turn of the loop, up to the recursive call.
InLoop ==
    /\ pc = "loop"
    /\ Top.i <= Len(needs[Top.pkg])
    /\ Top.i <= ReqMax
Requirement == needs[Top.pkg][Top.i]
\* Mutant: the loop counts down.
PreviousRequirement == stack' = [stack EXCEPT ![Len(stack)].i = @ - 1]
NextRequirement == stack' = [stack EXCEPT ![Len(stack)].i = @ + 1]

Unresolved ==
    /\ InLoop
    /\ Requirement = NoPackage
    /\ pc' = "failed"
    /\ UNCHANGED <<world, requirements, req_i, stack, item, num_requirements>>

\* Mutant: the loop does not go on.
AlreadyThereAgain ==
    /\ InLoop
    /\ Requirement # NoPackage
    /\ HasDependency(Requirement)
    /\ UNCHANGED vars

AlreadyThere ==
    /\ InLoop
    /\ Requirement # NoPackage
    /\ HasDependency(Requirement)
    /\ NextRequirement
    /\ UNCHANGED <<world, requirements, req_i, item, num_requirements, pc>>

\* Mutant: a requirement is taken without its own requirements.
RecurseNot ==
    /\ InLoop
    /\ Requirement # NoPackage
    /\ ~HasDependency(Requirement)
    /\ pc' = "store"
    /\ UNCHANGED <<world, requirements, req_i, stack, item, num_requirements>>

Recurse ==
    /\ InLoop
    /\ Requirement # NoPackage
    /\ ~HasDependency(Requirement)
    /\ Call(newest[Requirement], "store")
    /\ UNCHANGED <<world, requirements, req_i, item, num_requirements>>

\* Mutant: the slot is the one of the loop index.
StoreAtIndex ==
    /\ pc = "store"
    /\ requirements' = [requirements EXCEPT ![Top.i - 1] = Requirement]
    /\ NextRequirement
    /\ pc' = "loop"
    /\ UNCHANGED <<world, req_i, item, num_requirements>>

\* Line 56: the requirement goes into the first free slot, and req_i stays.
Store ==
    /\ pc = "store"
    /\ IF req_i \in Slot
       THEN /\ requirements' = [requirements EXCEPT ![req_i] = Requirement]
            /\ NextRequirement
            /\ pc' = "loop"
       ELSE /\ pc' = "overrun"
            /\ UNCHANGED <<requirements, stack>>
    /\ UNCHANGED <<world, req_i, item, num_requirements>>

\* Lines 60 to 65: the package itself, then the return to the caller.
Return ==
    /\ stack' = SubSeq(stack, 1, Len(stack) - 1)
    /\ pc' = IF Len(stack) = 1 THEN "count" ELSE "store"

LoopIsOver ==
    /\ pc = "loop"
    /\ ~(Top.i <= Len(needs[Top.pkg]) /\ Top.i <= ReqMax)

\* Mutant: req_i is not advanced.
AppendSelfInPlace ==
    /\ LoopIsOver
    /\ ~HasDependency(Top.pkg)
    /\ req_i \in Slot
    /\ requirements' = [requirements EXCEPT ![req_i] = Top.pkg]
    /\ Return
    /\ UNCHANGED <<world, req_i, item, num_requirements>>

AppendSelf ==
    /\ LoopIsOver
    /\ ~HasDependency(Top.pkg)
    /\ IF req_i \in Slot
       THEN /\ requirements' = [requirements EXCEPT ![req_i] = Top.pkg]
            /\ req_i' = req_i + 1
            /\ Return
       ELSE /\ pc' = "overrun"
            /\ UNCHANGED <<requirements, req_i, stack>>
    /\ UNCHANGED <<world, item, num_requirements>>

\* Mutant: req_i is advanced whether or not the slot was taken.
SelfAlreadyThereAdvances ==
    /\ LoopIsOver
    /\ HasDependency(Top.pkg)
    /\ req_i' = IF req_i \in Slot THEN req_i + 1 ELSE req_i
    /\ Return
    /\ UNCHANGED <<world, requirements, item, num_requirements>>

SelfAlreadyThere ==
    /\ LoopIsOver
    /\ HasDependency(Top.pkg)
    /\ Return
    /\ UNCHANGED <<world, requirements, req_i, item, num_requirements>>

\* Mutant: every item counts the list from its start.
CountAgain ==
    /\ pc = "count"
    /\ \E n \in Slot :
         /\ requirements[n] = NoPackage
         /\ \A k \in 0 .. n - 1 : requirements[k] # NoPackage
         /\ num_requirements' = num_requirements + n
    /\ item' = item + 1
    /\ pc' = "next"
    /\ UNCHANGED <<world, requirements, req_i, stack>>

\* install.c, lines 406 to 410: count on from where the last item stopped.  The
\* loop ends at a free slot and nowhere else.
CountUp ==
    /\ pc = "count"
    /\ \E n \in Slot :
         /\ num_requirements <= n /\ requirements[n] = NoPackage
         /\ \A k \in num_requirements .. n - 1 : requirements[k] # NoPackage
         /\ num_requirements' = n
    /\ item' = item + 1
    /\ pc' = "next"
    /\ UNCHANGED <<world, requirements, req_i, stack>>

CountPast ==
    /\ pc = "count"
    /\ \A k \in Slot : num_requirements <= k => requirements[k] # NoPackage
    /\ pc' = "overread"
    /\ UNCHANGED <<world, requirements, req_i, stack, item, num_requirements>>

Step ==
    \/ AskFor
    \/ Finish
    \/ Unresolved
    \/ AlreadyThere
    \/ Recurse
    \/ Store
    \/ AppendSelf
    \/ SelfAlreadyThere
    \/ CountUp
    \/ CountPast

\* The resolution has ended; nothing more happens in this component.
Stopped == pc \in Final /\ UNCHANGED vars

Next == Step \/ Stopped

Spec == Init /\ [][Next]_vars

\* The program is sequential and no step waits for anything.
FairSpec == Spec /\ WF_vars(Step)

-----------------------------------------------------------------------------
\* The packages in the slots before k.  Those in the slots that req_i has passed
\* are the only ones that stay.
Before(k) == {requirements[n] : n \in {m \in Slot : m < k}}
Settled == Before(req_i)

TypeOK ==
    /\ needs \in [Package -> Seq(Found)]
    /\ newest \in [Package -> Package]
    /\ asked \in Seq(Found)
    /\ requirements \in [Slot -> Found]
    /\ req_i \in 0 .. ReqMax
    /\ stack \in Seq(Frame)
    /\ item \in Nat \ {0}
    /\ num_requirements \in Slot
    /\ pc \in Final \cup {"next", "loop", "store", "count"}

\* Every slot below req_i holds a package and every slot above req_i is free,
\* so the scans that stop at the first free slot (resolve.c:22, install.c:407
\* and 432) see the whole list; only the slot req_i may be either.
TailIsFree ==
    \A k \in Slot : /\ k < req_i => requirements[k] # NoPackage
                    /\ k > req_i => requirements[k] = NoPackage

\* What a requirement r leaves behind among the packages of the set S once it
\* is resolved: r, the newest version of its name, or nothing if that is a leaf.
Covered(r, S) ==
    /\ r # NoPackage
    /\ Leaf(newest[r]) \/ r \in S \/ newest[r] \in S

\* A package that stays in the list is preceded by each of its requirements
\* that has requirements of its own, or by the newest version of that name (a
\* pin may be lost, see PinsAreHonoured), whatever calls overwrote the slot
\* req_i in between (resolve.c:55-56), and none is unresolved.
DependenciesFirst ==
    \A k \in Slot : k < req_i =>
        \A j \in 1 .. Len(needs[requirements[k]]) :
            j <= ReqMax => Covered(needs[requirements[k]][j], Before(k))

\* A package that was asked for by its newest version, and has requirements,
\* is in the list to stay once spm_do_install is past it (install.c:405).
AskedIsSettled(j) ==
    \/ Leaf(asked[j])
    \/ newest[asked[j]] # asked[j]
    \/ asked[j] \in Settled
AskedStays ==
    pc \in {"next", "done"} =>
        \A j \in 1 .. Len(asked) : j < item => AskedIsSettled(j)

\* No package is in the list twice when the control is in spm_do_install, so
\* that the list it walks three times names each package once.
NoDuplicates ==
    pc \in {"next", "done"} =>
        \A j, k \in Slot :
            requirements[j] = requirements[k] /\ requirements[j] # NoPackage => j = k

\* The array cannot be overrun by manifests with fewer packages than slots, nor
\* read past its end if one more slot is left: only slots that hold distinct
\* packages are passed (resolve.c:56, 61 and install.c:407).
ArrayIsEnough ==
    /\ Cardinality(Package) < ReqMax => pc # "overrun"
    /\ Cardinality(Package) < ReqMax - 1 => pc # "overread"

\* Everything in the list was asked for, or is required by something needed.
ClosedUnderNeeds(S) ==
    \A p \in S : \A j \in 1 .. Len(needs[p]) :
        needs[p][j] # NoPackage => {needs[p][j], newest[needs[p][j]]} \subseteq S
AskedIn(S) ==
    \A j \in 1 .. Len(asked) : asked[j] # NoPackage => asked[j] \in S
OnlyWhatIsNeeded ==
    \A S \in SUBSET Package :
        AskedIn(S) /\ ClosedUnderNeeds(S) =>
            \A k \in Slot : requirements[k] # NoPackage => requirements[k] \in S

\* spm_do_install counts the list as it stands, so the loop that frees
\* `requirements[0 .. num_requirements - 1]` (install.c:528) frees all of it.
CountIsExact ==
    pc \in {"next", "done"} =>
        \A k \in Slot : (k < num_requirements) <=> (requirements[k] # NoPackage)

\* Without a cycle among the packages (some member of every set of packages
\* needs none of the others) the resolution ends, by itself or with an error,
\* and never exhausts the C stack.
Acyclic ==
    \A S \in SUBSET Package \ {{}} :
        \E p \in S : \A j \in 1 .. Len(needs[p]) :
            needs[p][j] # NoPackage => newest[needs[p][j]] \notin S
Terminates == Acyclic => <>(pc \in {"done", "failed"})

\* A package with requirements stays in the list once it is appended: later
\* calls write at and above req_i only (resolve.c:56, 61).
SettledForever == [][\A k \in Slot : k < req_i => requirements'[k] = requirements[k]]_vars

\* "Install a package and its dependencies into a destination root"
\* (install.c:226) and "Produce a dependency tree from requested package(s)"
\* (install.c:394): the list spm_do_install installs holds whatever was asked
\* for and whatever that needs.
DependenciesAreListed ==
    pc = "done" =>
        \A j \in 1 .. Len(asked) :
            /\ HasDependency(asked[j])
            /\ \A n \in 1 .. Len(needs[asked[j]]) : HasDependency(needs[asked[j]][n])

\* "Recursively scan a package for its dependencies", whose spec "accepts
\* version specifiers" (resolve.c:31, 33): where the list holds the newest
\* version of the name of a requirement, it holds the version that was found
\* for the requirement.
PinsAreHonoured ==
    pc = "done" =>
        \A p \in Settled : \A j \in 1 .. Len(needs[p]) :
            newest[needs[p][j]] \in Settled => HasDependency(needs[p][j])

-----------------------------------------------------------------------------
(***************************************************************************)
(* The inductive strengthening of TailIsFree, DependenciesFirst,           *)
(* AskedStays and ArrayIsEnough.                                           *)
(***************************************************************************)

\* The newest version of a name is its own newest version.
NewestIsFixed == \A p \in Package : newest[newest[p]] = newest[p]

\* Slots that req_i has passed hold distinct packages.
SettledOnce == \A j, k \in Slot :
    j < k /\ k < req_i => requirements[j] # requirements[k]

\* What waits in the slot req_i may be lost: nothing depends on it.
TailIsCovered ==
    req_i \in Slot /\ requirements[req_i] # NoPackage =>
        Covered(requirements[req_i], Settled)

StackShape ==
    /\ pc \in {"loop", "store"} => stack # <<>>
    /\ pc \in {"next", "count", "done"} => stack = <<>>
    /\ stack # <<>> => item <= Len(asked) /\ stack[1].pkg = asked[item]

\* The requirements a frame is past are covered by the settled packages.
FramesAreCovered ==
    \A d \in 1 .. Len(stack) : \A j \in 1 .. Len(needs[stack[d].pkg]) :
        j < stack[d].i => Covered(needs[stack[d].pkg][j], Settled)

\* A frame that waits for a call waits for the newest version of the
\* requirement it is at, and the call settles that unless it is a leaf.
Pending(d) ==
    /\ stack[d].i <= Len(needs[stack[d].pkg])
    /\ needs[stack[d].pkg][stack[d].i] # NoPackage
CallsArePending ==
    /\ \A d \in 1 .. Len(stack) : d < Len(stack) =>
        /\ Pending(d)
        /\ stack[d + 1].pkg = newest[needs[stack[d].pkg][stack[d].i]]
    /\ pc = "store" =>
        /\ Pending(Len(stack))
        /\ Leaf(newest[Requirement]) \/ newest[Requirement] \in Settled

ItemsAreSettled ==
    /\ \A j \in 1 .. Len(asked) : j < item => AskedIsSettled(j)
    /\ pc = "count" => item <= Len(asked) /\ AskedIsSettled(item)

OverrunMeansFull ==
    /\ pc = "overrun" => req_i = ReqMax
    /\ pc = "overread" => ReqMax <= req_i + 1

IInv ==
    /\ TypeOK
    /\ NewestIsFixed
    /\ TailIsFree
    /\ SettledOnce
    /\ TailIsCovered
    /\ StackShape
    /\ FramesAreCovered
    /\ CallsArePending
    /\ ItemsAreSettled
    /\ DependenciesFirst
    /\ OverrunMeansFull

\* The inductive strengthening of NoDuplicates.  What a waiting frame is at does not
\* settle before its call returns, since a package that requires itself, through others,
\* cannot be done before it.
WaitedForIsNew == \A d \in 1 .. Len(stack) : d < Len(stack) =>
    stack[d].i <= ReqMax /\ needs[stack[d].pkg][stack[d].i] \notin Settled

\* A settled package calls for settled ones only.
CallsOfSettledAreSettled == \A d, e \in 1 .. Len(stack) :
    d < e /\ stack[d].pkg \in Settled => stack[e].pkg \in Settled

\* The slot req_i may repeat a settled package (a requirement that its call has settled)
\* only while a package that is not settled yet will take the slot.
TailIsNew ==
    req_i \in Slot /\ (stack = <<>> \/ stack[1].pkg \in Settled) =>
        requirements[req_i] \notin Settled
StoresAreNew == pc = "store" /\ Top.pkg \in Settled => Requirement \notin Settled

OnceInv == WaitedForIsNew /\ CallsOfSettledAreSettled /\ TailIsNew /\ StoresAreNew

\* And of CountIsExact: a slot that was counted is never freed, and the count ends at
\* the first free one.
CountInv ==
    /\ \A k \in Slot : k < num_requirements => requirements[k] # NoPackage
    /\ pc \in {"next", "done"} => requirements[num_requirements] = NoPackage

\* And of OnlyWhatIsNeeded: what is in the array or on the stack is in every closed set.
Holds(S) ==
    /\ \A k \in Slot : requirements[k] \in S \cup {NoPackage}
    /\ \A d \in 1 .. Len(stack) : stack[d].pkg \in S
NeededInv == \A S \in SUBSET Package : AskedIn(S) /\ ClosedUnderNeeds(S) => Holds(S)
=============================================================================
