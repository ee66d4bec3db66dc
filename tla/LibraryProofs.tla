---------------------------- MODULE LibraryProofs ----------------------------
(***************************************************************************)
(* Proofs about the library under the commands.                            *)
(*   The lists of strings: the storage of a list ends in a NULL after every *)
(* sequence of calls, and count and NULL agree after every one whose       *)
(* indices are those of items.                                             *)
(*   The output buffer of shell, for every BUFSIZ and whatever and however *)
(* much a command prints.                                                  *)
(*   The prompt, for whatever is typed.                                    *)
(*   The run paths of the programs that a command relocates, for all       *)
(* packages, libraries and trees.                                          *)
(*   The directory trees that rmdirs takes away, for all names and depths.  *)
(***************************************************************************)
EXTENDS StrList, Shell, Prompt, Rpath, Tree, TextProofs

LEMMA NewSound == Sound(New) /\ Clean(New)
<1>1. New.alloc = 1 /\ New.inuse = 0 /\ New.slot = [k \in {0} |-> NULL]
    BY DEF New
<1>2. 0 .. New.alloc - 1 = {0} /\ New.slot \in [{0} -> Strings \cup {NULL}]
    BY <1>1
<1>3. Sound(New)
    BY <1>1, <1>2 DEF Sound, New
<1>4. Clean(New)
    BY <1>1 DEF Clean, Whole
<1> QED BY <1>3, <1>4

\* strlist_append.
LEMMA PushSound ==
    ASSUME NEW l, Sound(l), NEW t \in Strings
    PROVE  Sound(Push(l, t))
<1> DEFINE m == Push(l, t)
<1>1. m.alloc = l.alloc + 1 /\ m.inuse = l.inuse + 1
      /\ m.slot = [k \in 0 .. l.alloc |->
                     IF k = l.alloc THEN NULL ELSE IF k = l.inuse THEN t ELSE l.slot[k]]
    BY DEF Push
<1>2. m.slot \in [0 .. m.alloc - 1 -> Strings \cup {NULL}]
    <2>1. m.alloc - 1 = l.alloc
        BY <1>1 DEF Sound
    <2>2. \A k \in 0 .. l.alloc : k # l.alloc => l.slot[k] \in Strings \cup {NULL}
        BY DEF Sound
    <2> QED BY <1>1, <2>1, <2>2
<1>3. m.slot[m.alloc - 1] = NULL
    BY <1>1 DEF Sound
<1>4. m.alloc \in Nat /\ m.inuse \in Nat /\ m.inuse < m.alloc
    BY <1>1 DEF Sound
<1>5. m = [alloc |-> m.alloc, inuse |-> m.inuse, slot |-> m.slot]
    BY DEF Push
<1> QED BY <1>2, <1>3, <1>4, <1>5 DEF Sound

LEMMA PushClean ==
    ASSUME NEW l, Sound(l), Clean(l), NEW t \in Strings, NULL \notin Strings
    PROVE  Clean(Push(l, t))
    BY DEF Push, Sound, Clean, Whole

\* strlist_remove: the last slot is never moved.
LEMMA DropSound ==
    ASSUME NEW l, Sound(l), NEW at \in Nat
    PROVE  Sound(Drop(l, at))
<1> DEFINE moved == {k \in at .. l.inuse - 1 : \A j \in at + 1 .. k : l.slot[j] # NULL}
           m == [alloc |-> l.alloc, inuse |-> l.inuse - 1,
                 slot |-> [k \in DOMAIN l.slot |-> IF k \in moved THEN l.slot[k + 1] ELSE l.slot[k]]]
<1>1. CASE l.inuse = 0
    BY <1>1 DEF Drop
<1>2. CASE l.inuse # 0
    <2>1. Drop(l, at) = m
        BY <1>2 DEF Drop
    <2>2. m.alloc = l.alloc /\ m.inuse = l.inuse - 1
          /\ m.slot = [k \in 0 .. l.alloc - 1 |-> IF k \in moved THEN l.slot[k + 1] ELSE l.slot[k]]
        BY DEF Sound
    <2>6. m = [alloc |-> m.alloc, inuse |-> m.inuse, slot |-> m.slot]
        OBVIOUS
    <2>3. \A k \in moved : k + 1 \in 0 .. l.alloc - 1 /\ k # l.alloc - 1
        BY DEF Sound
    <2> HIDE DEF moved, m
    <2>4. m.slot \in [0 .. m.alloc - 1 -> Strings \cup {NULL}]
        BY <2>2, <2>3 DEF Sound
    <2>5. m.slot[m.alloc - 1] = NULL
        BY <2>2, <2>3 DEF Sound
    <2> QED BY <1>2, <2>1, <2>2, <2>4, <2>5, <2>6 DEF Sound
<1> QED BY <1>1, <1>2

\* An index of an item moves all items behind it, and the NULL.
LEMMA DropClean ==
    ASSUME NEW l, Sound(l), Clean(l), NEW at \in Nat, at < l.inuse
    PROVE  Clean(Drop(l, at))
<1> DEFINE moved == {k \in at .. l.inuse - 1 : \A j \in at + 1 .. k : l.slot[j] # NULL}
           m == [alloc |-> l.alloc, inuse |-> l.inuse - 1,
                 slot |-> [k \in DOMAIN l.slot |-> IF k \in moved THEN l.slot[k + 1] ELSE l.slot[k]]]
<1>1. Drop(l, at) = m
    BY DEF Drop, Sound
<1>2. m.alloc = l.alloc /\ m.inuse = l.inuse - 1
      /\ m.slot = [k \in 0 .. l.alloc - 1 |-> IF k \in moved THEN l.slot[k + 1] ELSE l.slot[k]]
    BY DEF Sound
<1>3. moved = at .. l.inuse - 1
    BY DEF Sound, Clean, Whole
<1> HIDE DEF moved, m
<1>4. ASSUME NEW k \in 0 .. m.inuse - 1 PROVE m.slot[k] # NULL
    <2>1. k \in 0 .. l.alloc - 1 /\ k \in 0 .. l.inuse - 1 /\ k + 1 \in 0 .. l.inuse - 1
        BY <1>2 DEF Sound
    <2> QED BY <1>2, <2>1 DEF Clean, Whole
<1>5. ASSUME NEW k \in m.inuse .. m.alloc - 1 PROVE m.slot[k] = NULL
    <2>1. CASE k = l.inuse - 1
        <3>1. k \in 0 .. l.alloc - 1 /\ k \in moved /\ k + 1 = l.inuse
            BY <1>2, <1>3, <2>1 DEF Sound
        <3>2. l.slot[k + 1] = NULL
            BY <3>1 DEF Sound, Clean
        <3> QED BY <1>2, <3>1, <3>2
    <2>2. CASE k # l.inuse - 1
        <3>1. k \in l.inuse .. l.alloc - 1 /\ k \in 0 .. l.alloc - 1 /\ k \notin moved
            BY <1>2, <1>3, <2>2 DEF Sound
        <3>2. l.slot[k] = NULL
            BY <3>1 DEF Clean
        <3> QED BY <1>2, <3>1, <3>2
    <2> QED BY <2>1, <2>2
<1> QED BY <1>1, <1>4, <1>5 DEF Clean, Whole

\* strlist_set: what is NULL stays.
LEMMA PutSound ==
    ASSUME NEW l, Sound(l), NEW at \in Nat, NEW v \in Strings \cup {NULL}
    PROVE  Sound(Put(l, at, v))
<1>1. CASE Get(l, at) = NULL
    BY <1>1 DEF Put
<1>2. CASE Get(l, at) # NULL
    <2> DEFINE m == [l EXCEPT !.slot[at] = v]
    <2>1. at \in 0 .. l.alloc - 2
        BY <1>2 DEF Get, Sound
    <2>2. /\ m.alloc = l.alloc /\ m.inuse = l.inuse /\ m.slot = [l.slot EXCEPT ![at] = v]
          /\ m = [alloc |-> m.alloc, inuse |-> m.inuse, slot |-> m.slot]
        BY SMTT(30) DEF Sound
    <2> HIDE DEF m
    <2>3. m.slot \in [0 .. l.alloc - 1 -> Strings \cup {NULL}] /\ m.slot[l.alloc - 1] = NULL
        BY <2>1, <2>2 DEF Sound
    <2>4. Sound(m)
        BY <2>2, <2>3 DEF Sound
    <2>5. Put(l, at, v) = m
        BY <1>2 DEF Put, m
    <2> QED BY <2>4, <2>5
<1> QED BY <1>1, <1>2

LEMMA PutClean ==
    ASSUME NEW l, Sound(l), Clean(l), NEW at \in Nat, NEW v \in Strings \cup {NULL},
           at < l.inuse => v # NULL
    PROVE  Clean(Put(l, at, v))
    BY DEF Put, Get, Sound, Clean, Whole

\* strlist_reverse of a list with items.
LEMMA BackwardSound ==
    ASSUME NEW l, Sound(l)
    PROVE  Sound(Backward(l)) /\ (Clean(l) => Clean(Backward(l)))
<1> DEFINE m == Backward(l)
<1>1. /\ m.alloc = l.alloc /\ m.inuse = l.inuse
      /\ m.slot = [k \in 0 .. l.alloc - 1 |-> IF k < l.inuse THEN l.slot[l.inuse - 1 - k] ELSE l.slot[k]]
      /\ m = [alloc |-> m.alloc, inuse |-> m.inuse, slot |-> m.slot]
    BY DEF Sound, Backward
<1> HIDE DEF m
<1>2. \A k \in 0 .. l.inuse - 1 : l.inuse - 1 - k \in 0 .. l.inuse - 1
    BY DEF Sound
<1>3. m.slot \in [0 .. l.alloc - 1 -> Strings \cup {NULL}] /\ m.slot[l.alloc - 1] = NULL
    BY <1>1, <1>2, SMTT(30) DEF Sound
<1>4. Sound(m)
    BY <1>1, <1>3 DEF Sound
<1>5. Clean(l) => Clean(m)
    BY <1>1, <1>2 DEF Sound, Clean, Whole
<1> QED BY <1>4, <1>5 DEF m

\* strsort: it changes places in front of the first NULL.
LEMMA SortedSound ==
    ASSUME NEW l, Sound(l), NEW mode, NEW m \in Sorted(mode, l)
    PROVE  Sound(m) /\ (Clean(l) => Clean(m))
<1>0. PICK n \in FirstNull(l) : \E p \in Orders(mode, l, n) :
          m = [l EXCEPT !.slot = [k \in DOMAIN @ |-> IF k < n THEN @[p[k]] ELSE @[k]]]
    BY DEF Sorted
<1>1. PICK p \in Orders(mode, l, n) :
          m = [l EXCEPT !.slot = [k \in DOMAIN @ |-> IF k < n THEN @[p[k]] ELSE @[k]]]
    BY <1>0
<1>2. n \in 0 .. l.alloc - 1 /\ l.slot[n] = NULL /\ \A j \in 0 .. n - 1 : l.slot[j] # NULL
    BY DEF FirstNull, Sound
<1>3. /\ m.alloc = l.alloc /\ m.inuse = l.inuse
      /\ m.slot = [k \in 0 .. l.alloc - 1 |-> IF k < n THEN l.slot[p[k]] ELSE l.slot[k]]
      /\ m = [alloc |-> m.alloc, inuse |-> m.inuse, slot |-> m.slot]
    BY <1>1 DEF Sound
<1>4. \A k \in 0 .. n - 1 : p[k] \in 0 .. n - 1
    BY DEF Orders
<1>5. m.slot \in [0 .. l.alloc - 1 -> Strings \cup {NULL}]
    BY <1>2, <1>3, <1>4 DEF Sound
<1>6. m.slot[l.alloc - 1] = NULL
    BY <1>2, <1>3 DEF Sound
<1>7. Sound(m)
    BY <1>3, <1>5, <1>6 DEF Sound
<1>8. ASSUME Clean(l) PROVE Clean(m)
    <2>1. n = l.inuse
        <3>1. l.slot[l.inuse] = NULL
            BY <1>8 DEF Sound, Clean
        <3>2. ~(n < l.inuse)
            BY <1>2, <1>8 DEF Sound, Clean, Whole
        <3>3. ~(l.inuse < n)
            BY <1>2, <3>1 DEF Sound
        <3> QED BY <1>2, <3>2, <3>3 DEF Sound
    <2> QED BY <1>3, <1>4, <1>8, <2>1 DEF Sound, Clean, Whole
<1> QED BY <1>7, <1>8

\* strlist_copy of a list without NULL items.
LEMMA CopySound ==
    ASSUME NEW l, Sound(l), Whole(l)
    PROVE  Sound(Copy(l)) /\ Clean(Copy(l))
<1> DEFINE m == Copy(l)
<1>1. /\ m.alloc = l.inuse + 1 /\ m.inuse = l.inuse
      /\ m.slot = [k \in 0 .. l.inuse |-> IF k < l.inuse THEN l.slot[k] ELSE NULL]
      /\ m = [alloc |-> m.alloc, inuse |-> m.inuse, slot |-> m.slot]
    BY DEF Copy
<1> HIDE DEF m
<1>2. \A k \in 0 .. l.inuse : k < l.inuse => l.slot[k] \in Strings \cup {NULL}
    BY DEF Sound
<1>3. m.alloc - 1 = l.inuse /\ m.slot \in [0 .. l.inuse -> Strings \cup {NULL}]
    BY <1>1, <1>2 DEF Sound
<1>4. Sound(m)
    BY <1>1, <1>3 DEF Sound
<1>5. Clean(m)
    BY <1>1 DEF Sound, Clean, Whole
<1> QED BY <1>4, <1>5 DEF m

\* strlist_append_strlist.
LEMMA JoinedSound ==
    ASSUME NEW l, Sound(l), NEW o, Sound(o)
    PROVE  Sound(Joined(l, o)) /\ (Clean(l) /\ Clean(o) => Clean(Joined(l, o)))
<1> DEFINE m == Joined(l, o)
<1>1. /\ m.alloc = l.alloc + o.inuse /\ m.inuse = l.inuse + o.inuse
      /\ m.slot = [k \in 0 .. l.alloc + o.inuse - 1 |->
                      IF k < l.inuse THEN l.slot[k]
                      ELSE IF k < l.inuse + o.inuse THEN o.slot[k - l.inuse]
                      ELSE IF k < l.alloc THEN l.slot[k] ELSE NULL]
      /\ m = [alloc |-> m.alloc, inuse |-> m.inuse, slot |-> m.slot]
    BY DEF Joined
<1> HIDE DEF m
<1>2. ASSUME NEW k \in 0 .. l.alloc + o.inuse - 1
      PROVE  m.slot[k] \in Strings \cup {NULL}
    <2>1. CASE k < l.inuse
        BY <1>1, <2>1 DEF Sound
    <2>2. CASE ~(k < l.inuse) /\ k < l.inuse + o.inuse
        <3>1. k - l.inuse \in 0 .. o.alloc - 1 /\ m.slot[k] = o.slot[k - l.inuse]
            BY <1>1, <2>2, SMTT(30) DEF Sound
        <3> QED BY <3>1 DEF Sound
    <2>3. CASE ~(k < l.inuse + o.inuse)
        BY <1>1, <2>3, SMTT(40) DEF Sound
    <2> QED BY <2>1, <2>2, <2>3
<1>7. m.alloc - 1 = l.alloc + o.inuse - 1
    BY <1>1 DEF Sound
<1>8. m.slot = [k \in 0 .. m.alloc - 1 |-> m.slot[k]]
    BY <1>1, <1>7
<1>3. m.slot \in [0 .. m.alloc - 1 -> Strings \cup {NULL}]
    BY <1>2, <1>7, <1>8
<1>4. m.slot[m.alloc - 1] = NULL
    BY <1>1, SMTT(30) DEF Sound
<1>5. Sound(m)
    BY <1>1, <1>3, <1>4, SMTT(30) DEF Sound
<1>9. l.alloc \in Nat /\ l.inuse \in Nat /\ o.inuse \in Nat /\ l.inuse < l.alloc
    BY DEF Sound
<1>6. ASSUME Clean(l), Clean(o) PROVE Clean(m)
    <2>1. ASSUME NEW k \in 0 .. m.inuse - 1 PROVE m.slot[k] # NULL
        <3>1. CASE k < l.inuse
            BY <1>1, <1>6, <3>1 DEF Sound, Clean, Whole
        <3>2. CASE ~(k < l.inuse)
            <4>1. k \in 0 .. l.alloc + o.inuse - 1 /\ k < l.inuse + o.inuse
                BY <1>1, <1>9
            <4>2. m.slot[k] = o.slot[k - l.inuse]
                BY <1>1, <3>2, <4>1
            <4>3. k - l.inuse \in 0 .. o.inuse - 1
                BY <1>9, <3>2, <4>1
            <4> QED BY <1>6, <4>2, <4>3 DEF Clean, Whole
        <3> QED BY <3>1, <3>2
    <2>2. ASSUME NEW k \in m.inuse .. m.alloc - 1 PROVE m.slot[k] = NULL
        <3>1. /\ k \in 0 .. l.alloc + o.inuse - 1
              /\ ~(k < l.inuse) /\ ~(k < l.inuse + o.inuse)
            BY <1>1, <1>9
        <3>2. CASE k < l.alloc
            <4>1. k \in l.inuse .. l.alloc - 1 /\ m.slot[k] = l.slot[k]
                BY <1>1, <1>9, <3>1, <3>2
            <4> QED BY <1>6, <4>1 DEF Clean
        <3>3. CASE ~(k < l.alloc)
            BY <1>1, <3>1, <3>3
        <3> QED BY <3>2, <3>3
    <2> QED BY <2>1, <2>2 DEF Clean, Whole
<1> QED BY <1>5, <1>6 DEF m

-----------------------------------------------------------------------------
LEMMA ListsInit == SLInit => SLInv /\ CleanInv
    BY NewSound DEF SLInit, SLInv, CleanInv

LEMMA ListsStep ==
    ASSUME SLInv, [SLNext]_slVars
    PROVE  SLInv'
<1>1. CASE AppendItem
    BY <1>1, PushSound DEF AppendItem, SLInv
<1>2. CASE RemoveItem
    BY <1>2, DropSound, StrListAssumption DEF RemoveItem, SLInv
<1>3. CASE Set
    BY <1>3, PutSound, StrListAssumption DEF Set, SLInv
<1>4. CASE ReverseList
    BY <1>4, BackwardSound DEF ReverseList, SLInv
<1>5. CASE Sort
    BY <1>5, SortedSound DEF Sort, SLInv
<1>6. CASE CopyList
    BY <1>6, CopySound DEF CopyList, SLInv
<1>7. CASE AppendList
    BY <1>7, JoinedSound DEF AppendList, SLInv
<1>8. CASE UNCHANGED slVars
    BY <1>8 DEF slVars, SLInv
<1> QED BY <1>1, <1>2, <1>3, <1>4, <1>5, <1>6, <1>7, <1>8 DEF SLNext

LEMMA CleanStep ==
    ASSUME SLInv, CleanInv, [SLNext]_slVars
    PROVE  CleanInv'
<1>1. CASE AppendItem
    BY <1>1, PushClean, StrListAssumption DEF AppendItem, SLInv, CleanInv
<1>2. CASE RemoveItem
    <2>1. PICK at \in 0 .. MaxAlloc : list' = Drop(list, at) /\ careful' = (careful /\ at < list.inuse)
        BY <1>2 DEF RemoveItem
    <2>2. at \in Nat
        BY StrListAssumption
    <2>3. careful' => careful /\ at < list.inuse
        BY <2>1
    <2>4. careful' => Clean(list')
        BY <2>1, <2>2, <2>3, DropClean DEF SLInv, CleanInv
    <2>5. Clean(other')
        BY <1>2 DEF RemoveItem, CleanInv
    <2> QED BY <2>4, <2>5 DEF CleanInv
<1>3. CASE Set
    <2>1. PICK at \in 0 .. MaxAlloc, v \in Strings \cup {NULL} :
              list' = Put(list, at, v) /\ careful' = (careful /\ (at < list.inuse => v # NULL))
        BY <1>3 DEF Set
    <2>2. at \in Nat
        BY StrListAssumption
    <2>3. careful' => careful /\ (at < list.inuse => v # NULL)
        BY <2>1
    <2>4. careful' => Clean(list')
        BY <2>1, <2>2, <2>3, PutClean DEF SLInv, CleanInv
    <2>5. Clean(other')
        BY <1>3 DEF Set, CleanInv
    <2> QED BY <2>4, <2>5 DEF CleanInv
<1>4. CASE ReverseList
    BY <1>4, BackwardSound DEF ReverseList, SLInv, CleanInv
<1>5. CASE Sort
    BY <1>5, SortedSound DEF Sort, SLInv, CleanInv
<1>6. CASE CopyList
    BY <1>6, CopySound DEF CopyList, SLInv, CleanInv
<1>7. CASE AppendList
    BY <1>7, JoinedSound DEF AppendList, SLInv, CleanInv
<1>8. CASE UNCHANGED slVars
    BY <1>8 DEF slVars, CleanInv
<1> QED BY <1>1, <1>2, <1>3, <1>4, <1>5, <1>6, <1>7, <1>8 DEF SLNext

-----------------------------------------------------------------------------
\* strlist_append and strlist_append_strlist leave the items and add others.
LEMMA PushEdits ==
    ASSUME NEW l, Sound(l), NEW t \in Strings
    PROVE  Edited(l, Push(l, t))
<1>1. Push(l, t).inuse = l.inuse + 1 /\ l.inuse \in Nat /\ l.inuse < l.alloc /\ l.alloc \in Nat
    BY DEF Push, Sound
<1>2. \A at \in 1 .. l.inuse : Items(Push(l, t))[at] = Items(l)[at]
    BY <1>1 DEF Push, Items
<1> QED BY <1>1, <1>2 DEF Edited

LEMMA JoinedEdits ==
    ASSUME NEW l, Sound(l), NEW o, Sound(o)
    PROVE  Edited(l, Joined(l, o))
<1>1. /\ Joined(l, o).inuse = l.inuse + o.inuse
      /\ l.inuse \in Nat /\ o.inuse \in Nat /\ l.inuse < l.alloc /\ l.alloc \in Nat
    BY DEF Joined, Sound
<1>2. \A at \in 1 .. l.inuse : Items(Joined(l, o))[at] = Items(l)[at]
    BY <1>1 DEF Joined, Items
<1> QED BY <1>1, <1>2 DEF Edited

\* A list that stays.
LEMMA SameEdits ==
    ASSUME NEW l, Sound(l)
    PROVE  Edited(l, l)
<1>1. l.inuse \in Nat
    BY DEF Sound
<1> QED BY <1>1 DEF Edited

\* strlist_remove of an item takes it out: no NULL stops the others on their way down.
LEMMA DropEdits ==
    ASSUME NEW l, Sound(l), Clean(l), NEW at \in Nat, at < l.inuse
    PROVE  Edited(l, Drop(l, at))
<1> DEFINE moved == {k \in at .. l.inuse - 1 : \A j \in at + 1 .. k : l.slot[j] # NULL}
           m == Drop(l, at)
<1>1. l.inuse \in Nat /\ l.inuse < l.alloc /\ l.alloc \in Nat /\ DOMAIN l.slot = 0 .. l.alloc - 1
    BY DEF Sound
<1>2. m.inuse = l.inuse - 1
      /\ m.slot = [k \in 0 .. l.alloc - 1 |-> IF k \in moved THEN l.slot[k + 1] ELSE l.slot[k]]
    BY <1>1 DEF Drop
<1>3. moved = at .. l.inuse - 1
    BY DEF Sound, Clean, Whole
<1> HIDE DEF moved, m
<1>4. ASSUME NEW k \in 1 .. l.inuse - 1
      PROVE  Items(m)[k] = Items(l)[IF k < at + 1 THEN k ELSE k + 1]
    <2>1. Items(m)[k] = m.slot[k - 1]
        BY <1>2 DEF Items
    <2>2. CASE k < at + 1
        <3>1. m.slot[k - 1] = l.slot[k - 1]
            BY <1>1, <1>2, <1>3, <2>2
        <3> QED BY <1>1, <2>1, <2>2, <3>1 DEF Items
    <2>3. CASE ~(k < at + 1)
        <3>1. m.slot[k - 1] = l.slot[k]
            BY <1>1, <1>2, <1>3, <2>3
        <3> QED BY <1>1, <2>1, <2>3, <3>1 DEF Items
    <2> QED BY <2>2, <2>3
<1>5. at + 1 \in 1 .. l.inuse
    BY <1>1
<1> QED BY <1>2, <1>4, <1>5 DEF Edited, m

\* strlist_set replaces one item, or finds a NULL and does nothing.
LEMMA PutEdits ==
    ASSUME NEW l, Sound(l), Clean(l), NEW at \in Nat, NEW v \in Strings \cup {NULL}
    PROVE  Edited(l, Put(l, at, v))
<1>1. CASE Get(l, at) = NULL
    BY <1>1, SameEdits DEF Put
<1>2. CASE Get(l, at) # NULL
    <2>1. l.inuse \in Nat /\ at < l.inuse
        BY <1>2 DEF Get, Sound, Clean
    <2>2. Put(l, at, v).inuse = l.inuse /\ Put(l, at, v).slot = [l.slot EXCEPT ![at] = v]
        BY <1>2 DEF Put, Sound
    <2>3. \A k \in (1 .. l.inuse) \ {at + 1} : Items(Put(l, at, v))[k] = Items(l)[k]
        BY <2>1, <2>2 DEF Items, Sound
    <2>4. at + 1 \in 1 .. l.inuse
        BY <2>1
    <2> QED BY <2>2, <2>3, <2>4 DEF Edited
<1> QED BY <1>1, <1>2

\* A list whose items are those of another one in the order p.
LEMMA Reordered ==
    ASSUME NEW l, NEW m, m.inuse = l.inuse, l.inuse \in Nat,
           \E p \in [1 .. l.inuse -> 1 .. l.inuse] :
               /\ {p[at] : at \in 1 .. l.inuse} = 1 .. l.inuse
               /\ \A at \in 1 .. l.inuse : m.slot[at - 1] = l.slot[p[at] - 1]
    PROVE  Edited(l, m)
<1>1. PICK p \in [1 .. l.inuse -> 1 .. l.inuse] :
          /\ {p[at] : at \in 1 .. l.inuse} = 1 .. l.inuse
          /\ \A at \in 1 .. l.inuse : m.slot[at - 1] = l.slot[p[at] - 1]
    OBVIOUS
<1>2. \A at \in 1 .. l.inuse : Items(m)[at] = Items(l)[p[at]]
    BY <1>1 DEF Items
<1> QED BY <1>1, <1>2 DEF Edited

\* strlist_reverse.
LEMMA BackwardEdits ==
    ASSUME NEW l, Sound(l)
    PROVE  Edited(l, Backward(l))
<1> DEFINE n == l.inuse
           p == [at \in 1 .. n |-> n + 1 - at]
<1>1. n \in Nat /\ n < l.alloc /\ l.alloc \in Nat /\ DOMAIN l.slot = 0 .. l.alloc - 1
    BY DEF Sound
<1>2. Backward(l).inuse = n
      /\ \A at \in 1 .. n : Backward(l).slot[at - 1] = l.slot[p[at] - 1]
    BY <1>1 DEF Backward
<1>3. p \in [1 .. n -> 1 .. n]
    BY <1>1
<1>4. \A k \in 1 .. n : n + 1 - k \in 1 .. n /\ p[n + 1 - k] = k
    BY <1>1
<1>5. {p[at] : at \in 1 .. n} = 1 .. n
    BY <1>3, <1>4
<1> HIDE DEF p
<1>6. \E q \in [1 .. n -> 1 .. n] :
          {q[at] : at \in 1 .. n} = 1 .. n /\ \A at \in 1 .. n : Backward(l).slot[at - 1] = l.slot[q[at] - 1]
    BY <1>2, <1>3, <1>5
<1> QED BY <1>1, <1>2, <1>6, Reordered

\* An order that puts no item in two places leaves none out.
LEMMA OrderIsOnto ==
    ASSUME NEW n \in Nat, NEW p \in [0 .. n - 1 -> 0 .. n - 1],
           \A j, k \in 0 .. n - 1 : p[j] = p[k] => j = k
    PROVE  \A k \in 0 .. n - 1 : \E j \in 0 .. n - 1 : p[j] = k
<1> DEFINE S == 0 .. n - 1
<1>1. IsFiniteSet(S)
    BY FS_Interval
<1>2. p \in Injection(S, S)
    BY DEF Injection, IsInjective
<1>3. p \in Surjection(S, S)
    BY <1>1, <1>2, FS_Injection
<1> QED BY <1>3 DEF Surjection

\* strsort reorders the items: the first NULL is where they end.
LEMMA SortedEdits ==
    ASSUME NEW l, Sound(l), Clean(l), NEW mode, NEW m \in Sorted(mode, l)
    PROVE  Edited(l, m)
<1>0. PICK n \in FirstNull(l) : \E p \in Orders(mode, l, n) :
          m = [l EXCEPT !.slot = [k \in DOMAIN @ |-> IF k < n THEN @[p[k]] ELSE @[k]]]
    BY DEF Sorted
<1>1. PICK p \in Orders(mode, l, n) :
          m = [l EXCEPT !.slot = [k \in DOMAIN @ |-> IF k < n THEN @[p[k]] ELSE @[k]]]
    BY <1>0
<1>2. n \in 0 .. l.alloc - 1 /\ l.slot[n] = NULL /\ \A j \in 0 .. n - 1 : l.slot[j] # NULL
    BY DEF FirstNull, Sound
<1>3. m.inuse = l.inuse
      /\ m.slot = [k \in 0 .. l.alloc - 1 |-> IF k < n THEN l.slot[p[k]] ELSE l.slot[k]]
    BY <1>1 DEF Sound
<1>4. n = l.inuse /\ n \in Nat /\ n < l.alloc /\ l.alloc \in Nat
    <2>1. l.slot[l.inuse] = NULL
        BY DEF Sound, Clean
    <2>2. ~(n < l.inuse)
        BY <1>2 DEF Sound, Clean, Whole
    <2>3. ~(l.inuse < n)
        BY <1>2, <2>1 DEF Sound
    <2> QED BY <1>2, <2>2, <2>3 DEF Sound
<1>5. p \in [0 .. n - 1 -> 0 .. n - 1] /\ \A j, k \in 0 .. n - 1 : p[j] = p[k] => j = k
    BY DEF Orders
<1>6. \A k \in 0 .. n - 1 : \E j \in 0 .. n - 1 : p[j] = k
    BY <1>4, <1>5, OrderIsOnto, ZenonT(60)
<1> DEFINE q == [at \in 1 .. n |-> p[at - 1] + 1]
<1>7. q \in [1 .. n -> 1 .. n]
    BY <1>4, <1>5
<1>8. {q[at] : at \in 1 .. n} = 1 .. n
    <2>1. ASSUME NEW k \in 1 .. n PROVE \E at \in 1 .. n : q[at] = k
        <3>1. PICK j \in 0 .. n - 1 : p[j] = k - 1
            BY <1>4, <1>6
        <3>2. j + 1 \in 1 .. n /\ q[j + 1] = k
            BY <1>4, <3>1
        <3> QED BY <3>2
    <2> QED BY <1>7, <2>1
<1>9. ASSUME NEW at \in 1 .. n PROVE m.slot[at - 1] = l.slot[q[at] - 1]
    <2>1. at - 1 \in 0 .. l.alloc - 1 /\ at - 1 < n /\ at - 1 \in 0 .. n - 1
        BY <1>4
    <2>2. m.slot[at - 1] = l.slot[p[at - 1]]
        BY <1>3, <2>1
    <2>3. q[at] - 1 = p[at - 1]
        BY <1>5, <2>1
    <2> QED BY <2>2, <2>3
<1> HIDE DEF q
<1>10. \E r \in [1 .. n -> 1 .. n] :
          {r[at] : at \in 1 .. n} = 1 .. n /\ \A at \in 1 .. n : m.slot[at - 1] = l.slot[r[at] - 1]
    BY <1>7, <1>8, <1>9
<1> QED BY <1>3, <1>4, <1>10, Reordered

LEMMA EditedStep ==
    ASSUME SLInv, CleanInv, [SLNext]_slVars, careful'
    PROVE  Edited(list, list')
<1>1. CASE AppendItem
    BY <1>1, PushEdits DEF AppendItem, SLInv
<1>2. CASE RemoveItem
    <2>1. PICK at \in 0 .. MaxAlloc : list' = Drop(list, at) /\ careful' = (careful /\ at < list.inuse)
        BY <1>2 DEF RemoveItem
    <2>2. careful' => careful /\ at < list.inuse
        BY <2>1
    <2>3. at \in Nat /\ careful /\ at < list.inuse
        BY <2>2, StrListAssumption
    <2> QED BY <2>1, <2>3, DropEdits DEF SLInv, CleanInv
<1>3. CASE Set
    <2>1. PICK at \in 0 .. MaxAlloc, v \in Strings \cup {NULL} :
              list' = Put(list, at, v) /\ careful' = (careful /\ (at < list.inuse => v # NULL))
        BY <1>3 DEF Set
    <2>2. careful' => careful
        BY <2>1
    <2>3. at \in Nat /\ careful
        BY <2>2, StrListAssumption
    <2> QED BY <2>1, <2>3, PutEdits DEF SLInv, CleanInv
<1>4. CASE ReverseList
    BY <1>4, BackwardEdits, SameEdits DEF ReverseList, SLInv
<1>5. CASE Sort
    BY <1>5, SortedEdits DEF Sort, SLInv, CleanInv
<1>6. CASE CopyList
    BY <1>6, SameEdits DEF CopyList, SLInv
<1>7. CASE AppendList
    BY <1>7, JoinedEdits DEF AppendList, SLInv
<1>8. CASE UNCHANGED slVars
    BY <1>8, SameEdits DEF slVars, SLInv
<1> QED BY <1>1, <1>2, <1>3, <1>4, <1>5, <1>6, <1>7, <1>8 DEF SLNext

-----------------------------------------------------------------------------
\* The low bits of a number, as a signed number of which h is the half, or an unsigned one.
LEMMA LowBits ==
    ASSUME NEW h \in Nat \ {0}, NEW m \in Nat, m = 2 * h, NEW x \in Int
    PROVE  /\ x % m \in 0 .. m - 1
           /\ 0 <= x /\ x < m => x % m = x
           /\ -h <= x /\ x < 0 => x % m = x + m
<1>1. m \in Nat \ {0}
    OBVIOUS
<1>2. x % m \in 0 .. m - 1
    BY <1>1
<1>3. 0 <= x /\ x < m => x % m = x
    BY <1>1
<1>4. ASSUME -h <= x, x < 0 PROVE x % m = x + m
    BY <1>1, <1>4
<1> QED BY <1>2, <1>3, <1>4

\* A conversion to a type gives a number of the type, and leaves one that is.
LEMMA CastFits ==
    ASSUME NEW k \in Kinds, NEW x \in Int
    PROVE  LET h == 2 ^ (Bits[k] - 1)  m == 2 ^ Bits[k] IN
           /\ Cast(k, TRUE, x) \in Int /\ -h <= Cast(k, TRUE, x) /\ Cast(k, TRUE, x) < h
           /\ Cast(k, FALSE, x) \in Int /\ 0 <= Cast(k, FALSE, x) /\ Cast(k, FALSE, x) < m
           /\ -h <= x /\ x < h => Cast(k, TRUE, x) = x
           /\ 0 <= x /\ x < m => Cast(k, FALSE, x) = x
<1> DEFINE h == 2 ^ (Bits[k] - 1)
           m == 2 ^ Bits[k]
           low == x % m
           signed == Cast(k, TRUE, x)
           unsigned == Cast(k, FALSE, x)
<1>1. h \in Nat \ {0} /\ m = 2 * h
    BY WidthAssumption
<1>2. /\ unsigned = low
      /\ signed = IF low >= h THEN low - m ELSE low
    BY DEF Cast
<1> HIDE DEF h, m
<1>3. m \in Nat
    BY <1>1
<1>4. /\ low \in 0 .. m - 1
      /\ 0 <= x /\ x < m => low = x
      /\ -h <= x /\ x < 0 => low = x + m
    BY <1>1, <1>3, LowBits
<1> HIDE DEF low, signed, unsigned
<1>5. signed \in Int /\ -h <= signed /\ signed < h
    BY <1>1, <1>2, <1>3, <1>4
<1>6. unsigned \in Int /\ 0 <= unsigned /\ unsigned < m
    BY <1>2, <1>3, <1>4
<1>7. -h <= x /\ x < h => signed = x
    BY <1>1, <1>2, <1>3, <1>4
<1>8. 0 <= x /\ x < m => unsigned = x
    BY <1>2, <1>4
<1> QED BY <1>5, <1>6, <1>7, <1>8 DEF h, m, signed, unsigned

\* strtol and strtoul give a number, and leave one of their own type.
LEMMA Clamped ==
    ASSUME NEW x \in Int
    PROVE  /\ Half \in Nat \ {0} /\ ToLong(x) \in Int /\ ToULong(x) \in Int
           /\ -Half <= x /\ x < Half => ToLong(x) = x
           /\ 0 <= x /\ x < 2 * Half => ToULong(x) = x
<1>1. Half \in Nat \ {0}
    BY WidthAssumption DEF Half, Kinds
<1>2. 2 * Half \in Nat
    BY <1>1
<1>3. x % (2 * Half) \in 0 .. 2 * Half - 1 /\ (0 <= x /\ x < 2 * Half => x % (2 * Half) = x)
    BY <1>1, <1>2, LowBits
<1> QED BY <1>1, <1>2, <1>3 DEF ToLong, ToULong

\* strlist_item_as_*: a number that the type holds comes back, and of any other one some
\* number of the type.
LEMMA ItemFits ==
    ASSUME NEW k \in Kinds, NEW signed \in BOOLEAN, NEW t \in Strings
    PROVE  ItemAs(k, signed, t) = Number[t] <=>
             IF signed THEN -2 ^ (Bits[k] - 1) <= Number[t] /\ Number[t] < 2 ^ (Bits[k] - 1)
             ELSE 0 <= Number[t] /\ Number[t] < 2 ^ Bits[k]
<1> DEFINE h == 2 ^ (Bits[k] - 1)
           m == 2 ^ Bits[k]
           x == Number[t]
           y == IF signed \/ k = "char" THEN ToLong(x) ELSE ToULong(x)
<1>1. h \in Nat \ {0} /\ m = 2 * h /\ h <= Half /\ (k = "char" => m <= Half)
    BY WidthAssumption DEF Half
<1>2. x \in Int
    BY WidthAssumption
<1>3. /\ Half \in Nat \ {0} /\ ToLong(x) \in Int /\ ToULong(x) \in Int
      /\ -Half <= x /\ x < Half => ToLong(x) = x
      /\ 0 <= x /\ x < 2 * Half => ToULong(x) = x
    BY <1>2, Clamped
<1>4. y \in Int
    BY <1>3
<1>5. /\ -h <= Cast(k, TRUE, y) /\ Cast(k, TRUE, y) < h
      /\ 0 <= Cast(k, FALSE, y) /\ Cast(k, FALSE, y) < m
      /\ -h <= y /\ y < h => Cast(k, TRUE, y) = y
      /\ 0 <= y /\ y < m => Cast(k, FALSE, y) = y
    BY <1>4, CastFits
<1>6. ItemAs(k, signed, t) = Cast(k, signed, y)
    BY DEF ItemAs
<1> HIDE DEF h, m, x
<1>7. signed /\ -h <= x /\ x < h => y = x
    BY <1>1, <1>2, <1>3
<1>8. ~signed /\ 0 <= x /\ x < m => y = x
    BY <1>1, <1>2, <1>3
<1> HIDE DEF y
<1>9. CASE signed
    BY <1>5, <1>6, <1>7, <1>9 DEF h, x
<1>10. CASE ~signed
    BY <1>5, <1>6, <1>8, <1>10 DEF m, x
<1> QED BY <1>9, <1>10

\* Every reader that goes on to the NULL ends inside the storage, after any sequence of
\* calls of strlist.c, with indices of items or without.
THEOREM ListsEnd == SLSpec => []ScansEnd
<1>1. SLInv => ScansEnd
    BY DEF SLInv, Sound, ScansEnd
<1>2. SLInit => SLInv
    BY ListsInit
<1>3. SLInv /\ [SLNext]_slVars => SLInv'
    BY ListsStep
<1> QED BY <1>1, <1>2, <1>3, PTL DEF SLSpec

\* Where every index was one of an item and no item was set to NULL, the readers by count
\* and the readers by NULL see the same items.
THEOREM CountIsNull == SLSpec => []CountIsTerminator
<1>1. SLInv /\ CleanInv => CountIsTerminator
    BY DEF CleanInv, Clean, CountIsTerminator
<1>2. SLInit => SLInv /\ CleanInv
    BY ListsInit
<1>3. SLInv /\ [SLNext]_slVars => SLInv'
    BY ListsStep
<1>4. SLInv /\ CleanInv /\ [SLNext]_slVars => CleanInv'
    BY CleanStep
<1> QED BY <1>1, <1>2, <1>3, <1>4, PTL DEF SLSpec
\* To its users a list is a sequence: while indices are those of items, no function of
\* strlist.c loses, doubles or alters an item it was not called for.
THEOREM ListsAreSequences == SLSpec => KeepsASequence
<1>1. SLInit => SLInv /\ CleanInv
    BY ListsInit
<1>2. SLInv /\ [SLNext]_slVars => SLInv'
    BY ListsStep
<1>3. SLInv /\ CleanInv /\ [SLNext]_slVars => CleanInv'
    BY CleanStep
<1>4. SLInv /\ CleanInv /\ [SLNext]_slVars => [careful' => Edited(list, list')]_slVars
    BY EditedStep
<1> QED BY <1>1, <1>2, <1>3, <1>4, PTL DEF SLSpec, KeepsASequence
\* strlist_item_as_*: every item of every list is read as its number exactly if the type
\* can hold it, whatever the widths of the types.
THEOREM NumbersAreRead == SLSpec => []ReadsWhatFits
<1>1. SLInv => ReadsWhatFits
    <2> SUFFICES ASSUME SLInv, NEW at \in 0 .. list.inuse - 1, NEW k \in Kinds,
                        NEW signed \in BOOLEAN, list.slot[at] # NULL
                 PROVE  LET t == list.slot[at]
                            fits == IF signed
                                    THEN -2 ^ (Bits[k] - 1) <= Number[t] /\ Number[t] < 2 ^ (Bits[k] - 1)
                                    ELSE 0 <= Number[t] /\ Number[t] < 2 ^ Bits[k]
                        IN ItemAs(k, signed, t) = Number[t] <=> fits
        BY DEF ReadsWhatFits
    <2>1. list.slot[at] \in Strings
        BY DEF SLInv, Sound
    <2> QED BY <2>1, ItemFits
<1>2. SLInit => SLInv
    BY ListsInit
<1>3. SLInv /\ [SLNext]_slVars => SLInv'
    BY ListsStep
<1> QED BY <1>1, <1>2, <1>3, PTL DEF SLSpec

-----------------------------------------------------------------------------

USE ShellAssumption

\* What the loop makes of the buffer when it grows, or has room.
LEMMA StoredType ==
    ASSUME TypeOK, NEW b \in Bytes
    PROVE  Size \in Nat /\ Stored(b) \in [0 .. Size - 1 -> Bytes \cup {"any"}]
<1>1. Size \in Nat
    BY DEF TypeOK, Size
<1>2. ASSUME NEW k \in 0 .. Size - 1
      PROVE  (IF k = bytes_read /\ b # "NUL" THEN b ELSE IF k < size THEN output[k] ELSE "any")
                \in Bytes \cup {"any"}
    <2>1. CASE k < size
        <3>1. k \in 0 .. size - 1
            BY <1>1, <2>1 DEF TypeOK
        <3>2. output[k] \in Bytes \cup {"any"}
            BY <3>1 DEF TypeOK
        <3> QED BY <2>1, <3>2
    <2>2. CASE ~(k < size)
        BY <2>2
    <2> QED BY <2>1, <2>2
<1>3. Stored(b) \in [0 .. Size - 1 -> Bytes \cup {"any"}]
    BY <1>2 DEF Stored
<1> QED BY <1>1, <1>3

LEMMA ShellInit == Init => IInv
<1> SUFFICES ASSUME Init PROVE IInv
    OBVIOUS
<1>1. size - 1 = -1 /\ output = [k \in 0 .. -1 |-> "any"]
    BY DEF Init
<1>2. [k \in 0 .. -1 |-> "any"] \in [0 .. -1 -> Bytes \cup {"any"}]
    OBVIOUS
<1>3. output \in [0 .. size - 1 -> Bytes \cup {"any"}]
    BY <1>1, <1>2
<1>4. printed \in Seq(Bytes)
    BY DEF Init
<1> QED BY <1>3, <1>4 DEF Init, IInv, TypeOK

\* The buffer that calloc has made.
LEMMA Cleared == [k \in 0 .. BUFSIZ - 1 |-> "NUL"] \in [0 .. BUFSIZ - 1 -> Bytes \cup {"any"}]
<1>1. "NUL" \in Bytes \cup {"any"}
    BY DEF Bytes
<1> QED BY <1>1

LEMMA OpenKeeps == IInv /\ Open => IInv'
<1> SUFFICES ASSUME IInv, Open PROVE IInv'
    OBVIOUS
<1>1. CASE status' = "failed" /\ UNCHANGED <<size, output>>
    BY <1>1 DEF IInv, TypeOK, Open
<1>2. CASE status' = "reading" /\ size' = BUFSIZ /\ output' = [k \in 0 .. BUFSIZ - 1 |-> "NUL"]
    <2>1. output' \in [0 .. size' - 1 -> Bytes \cup {"any"}]
        BY <1>2, Cleared
    <2>2. bytes_read' \in Nat /\ i' \in Nat /\ size' \in Nat /\ printed' \in Seq(Bytes)
        BY <1>2 DEF IInv, TypeOK, Open
    <2>4. overrun' \in BOOLEAN /\ ~overrun'
        BY DEF IInv, TypeOK, Open
    <2>5. TypeOK'
        BY <1>2, <2>1, <2>2, <2>4 DEF TypeOK
    <2>3. i' <= BUFSIZ /\ bytes_read' + BUFSIZ <= size' + i'
        BY <1>2 DEF IInv, Open
    <2> QED BY <1>2, <2>3, <2>4, <2>5 DEF IInv
<1> QED BY <1>1, <1>2 DEF Open

LEMMA ReadKeeps == IInv /\ Read => IInv'
<1> SUFFICES ASSUME IInv, Read PROVE IInv'
    OBVIOUS
<1>1. PICK b \in Bytes : /\ printed' = Append(printed, b)
                         /\ output' = Stored(b)
                         /\ overrun' = (overrun \/ (b # "NUL" /\ bytes_read >= Size))
    BY DEF Read
<1>2. Size \in Nat /\ Stored(b) \in [0 .. Size - 1 -> Bytes \cup {"any"}]
    BY StoredType DEF IInv
<1>3. bytes_read < Size /\ bytes_read + 1 + BUFSIZ <= Size + (IF Full THEN 1 ELSE i + 1)
    BY DEF IInv, TypeOK, Read, Size, Full
<1>4. printed' \in Seq(Bytes)
    BY <1>1 DEF IInv, TypeOK
<1>5. ~overrun'
    BY <1>1, <1>2, <1>3 DEF IInv, TypeOK
<1>6. i' \in Nat /\ i' <= BUFSIZ
    BY DEF IInv, TypeOK, Read, Full
<1>7. TypeOK'
    BY <1>1, <1>2, <1>4, <1>5, <1>6 DEF IInv, TypeOK, Read
<1>8. bytes_read' + BUFSIZ <= size' + i'
    BY <1>3 DEF Read
<1>9. status' = "reading"
    BY DEF Read
<1> QED BY <1>5, <1>6, <1>7, <1>8, <1>9 DEF IInv

LEMMA CloseKeeps == IInv /\ Close => IInv'
    BY DEF IInv, TypeOK, Close

LEMMA ShellStep == IInv /\ [Next]_vars => IInv'
<1>1. CASE UNCHANGED vars
    BY <1>1 DEF IInv, TypeOK, vars
<1> QED BY <1>1, OpenKeeps, ReadKeeps, CloseKeeps DEF Next

\* shell() stores no byte behind its buffer: the size is right although it is computed
\* from a count that starts anew.
THEOREM ShellFits == Spec => []OutputFits
<1>1. IInv => OutputFits
    BY DEF IInv, OutputFits
<1> QED BY <1>1, ShellInit, ShellStep, PTL DEF Spec

-----------------------------------------------------------------------------
LEMMA ShortInit == Init => ShortInv
    BY DEF Init, ShortInv, Opened

LEMMA ShortOpen == IInv /\ ShortInv /\ Open => ShortInv'
    BY DEF IInv, TypeOK, ShortInv, Opened, Open

LEMMA ShortRead == IInv /\ ShortInv /\ Read => ShortInv'
<1> SUFFICES ASSUME IInv, ShortInv, Read PROVE ShortInv'
    OBVIOUS
<1>1. PICK b \in Bytes : printed' = Append(printed, b) /\ output' = Stored(b)
    BY DEF Read
<1>2. /\ Len(printed') = Len(printed) + 1 /\ printed'[Len(printed) + 1] = b
      /\ \A k \in 1 .. Len(printed) : printed'[k] = printed[k]
    BY <1>1 DEF IInv, TypeOK
<1>3. bytes_read' = Len(printed')
    BY <1>2 DEF ShortInv, Read
<1>4. ASSUME bytes_read' <= BUFSIZ
      PROVE  /\ size' = BUFSIZ /\ i' = bytes_read'
             /\ \A k \in 0 .. size' - 1 : output'[k] = IF k < bytes_read' THEN printed'[k + 1] ELSE "NUL"
    <2>1. bytes_read \in Nat /\ bytes_read < BUFSIZ /\ bytes_read' = bytes_read + 1
        BY <1>4 DEF Read, IInv, TypeOK
    <2>2. /\ size = BUFSIZ /\ i = bytes_read
          /\ \A k \in 0 .. size - 1 : output[k] = IF k < bytes_read THEN printed[k + 1] ELSE "NUL"
        BY <2>1 DEF ShortInv, Opened, Read
    <2>3. ~Full /\ size' = BUFSIZ /\ i' = bytes_read'
        BY <2>1, <2>2 DEF Read, Full, Size
    <2>4. Size = BUFSIZ
        BY <2>2, <2>3 DEF Size
    <2>5. ASSUME NEW k \in 0 .. BUFSIZ - 1
          PROVE  output'[k] = IF k < bytes_read' THEN printed'[k + 1] ELSE "NUL"
        <3>1. output'[k] = IF k = bytes_read /\ b # "NUL" THEN b ELSE output[k]
            BY <1>1, <2>2, <2>4 DEF Stored
        <3>2. CASE k = bytes_read
            BY <1>2, <2>1, <2>2, <3>1, <3>2 DEF ShortInv
        <3>3. CASE k < bytes_read
            BY <1>2, <2>1, <2>2, <3>1, <3>3 DEF ShortInv
        <3>4. CASE k > bytes_read
            BY <2>1, <2>2, <3>1, <3>4
        <3> QED BY <2>1, <3>2, <3>3, <3>4
    <2> QED BY <2>3, <2>5
<1> QED BY <1>3, <1>4 DEF ShortInv

LEMMA ShortClose == IInv /\ ShortInv /\ Close => ShortInv'
    BY DEF ShortInv, Opened, Close

LEMMA ShortStep == IInv /\ ShortInv /\ [Next]_vars => ShortInv'
<1>1. CASE UNCHANGED vars
    BY <1>1 DEF ShortInv, Opened, vars
<1> QED BY <1>1, ShortOpen, ShortRead, ShortClose DEF Next

\* What the callers of shell() rely on for a short output: it is in the buffer as it was
\* printed, and a terminator follows.
THEOREM ShellKeepsShort == Spec => []ShortOutputIsWhole
<1>1. IInv /\ ShortInv => ShortOutputIsWhole
    BY DEF IInv, TypeOK, ShortInv, Opened, ShortOutputIsWhole
<1> QED BY <1>1, ShellInit, ShellStep, ShortInit, ShortStep, PTL DEF Spec

-----------------------------------------------------------------------------
\* The prompt.

LEMMA LinesAreSequences ==
    ASSUME PromptType, NEW k \in 1 .. Len(typed)
    PROVE  typed[k] \in Lines /\ Len(typed[k]) \in Nat
    BY PromptAssumption DEF PromptType

LEMMA PromptStarts == PromptInit => PromptInv
<1> SUFFICES ASSUME PromptInit PROVE PromptInv
    OBVIOUS
<1>1. PromptType
    BY DEF PromptInit, PromptType
<1>2. NoAnswerYet /\ FirstAnswerIsMeant
    BY DEF PromptInit, NoAnswerYet, FirstAnswerIsMeant
<1> QED BY <1>1, <1>2 DEF PromptInv

LEMMA TypeKeeps == PromptInv /\ Type => PromptInv'
<1> SUFFICES ASSUME PromptInv, Type PROVE PromptInv'
    OBVIOUS
<1>1. PICK n \in 1 .. MaxLines : typed' \in [1 .. n -> Lines]
    BY DEF Type
<1>2. typed' \in Seq(Lines) /\ Len(typed') = n /\ n \in Nat /\ typed' # <<>>
    BY <1>1, PromptAssumption
<1>3. answers = <<>> /\ asking = "none" /\ typed = <<>> /\ Len(typed) = 0 /\ line = 1 /\ column \in Nat \ {0}
    BY DEF PromptInv, PromptType, Type
<1>4. column = 1 /\ input_count \in {0, 1} /\ input_count # 1
    BY <1>3 DEF PromptInv, PromptType, NoAnswerYet, Short
<1>5. UNCHANGED <<line, column, asking, input_count, answers>>
    BY DEF Type, stdin
<1>6. PromptType'
    BY <1>2, <1>3, <1>5 DEF PromptInv, PromptType
<1>7. NoAnswerYet' /\ FirstAnswerIsMeant'
    BY <1>3, <1>4, <1>5 DEF NoAnswerYet, FirstAnswerIsMeant
<1> QED BY <1>6, <1>7 DEF PromptInv

LEMMA AskKeeps == PromptInv /\ Ask => PromptInv'
<1> SUFFICES ASSUME PromptInv, Ask PROVE PromptInv'
    OBVIOUS
<1>1. /\ UNCHANGED <<typed, line, column, answers>> /\ typed # <<>>
      /\ asking = "none" /\ asking' \in {"yes", "no"} /\ input_count' = 0
    BY DEF Ask, stdin
<1>2. PromptType'
    BY <1>1 DEF PromptInv, PromptType
<1>3. NoAnswerYet'
    BY <1>1 DEF PromptInv, NoAnswerYet, Short, Clear
<1>4. FirstAnswerIsMeant'
    BY <1>1 DEF PromptInv, FirstAnswerIsMeant, Short, Clear, Meant
<1> QED BY <1>2, <1>3, <1>4 DEF PromptInv

\* An answer behind the first one changes nothing, the first one is the only one.
LEMMA AnswerTypes ==
    ASSUME PromptType, asking # "none", NEW n \in {-1, 0, 1}, Answer(n), UNCHANGED typed
    PROVE  /\ answers' \in Seq([default : {"yes", "no"}, result : {-1, 0, 1}])
           /\ answers' # <<>> /\ asking' = "none" /\ typed' # <<>>
           /\ answers = <<>> => answers'[1].result = n /\ answers'[1].default = asking
           /\ answers # <<>> => answers'[1] = answers[1]
<1> DEFINE r == [default |-> asking, result |-> n]
           R == [default : {"yes", "no"}, result : {-1, 0, 1}]
<1>1. r \in R /\ answers \in Seq(R) /\ answers' = Append(answers, r)
    BY DEF PromptType, Answer
<1>2. r.result = n /\ r.default = asking
    OBVIOUS
<1> HIDE DEF r, R
<1>3. answers' \in Seq(R) /\ answers' # <<>>
    BY <1>1
<1>4. answers = <<>> => answers'[1] = r
    BY <1>1
<1>5. answers # <<>> => answers'[1] = answers[1]
    BY <1>1
<1> QED BY <1>2, <1>3, <1>4, <1>5 DEF PromptType, Answer, R

\* Where the first answer stands, it stays as it was meant.
LEMMA MeantStays ==
    ASSUME PromptInv, answers # <<>>, answers'[1] = answers[1], answers' # <<>>, UNCHANGED typed
    PROVE  NoAnswerYet' /\ FirstAnswerIsMeant'
<1>1. NoAnswerYet'
    BY DEF NoAnswerYet
<1>2. FirstAnswerIsMeant'
    BY DEF PromptInv, FirstAnswerIsMeant, Short, Clear, Meant
<1> QED BY <1>1, <1>2

LEMMA EndOfInputKeeps == PromptInv /\ EndOfInput => PromptInv'
<1> SUFFICES ASSUME PromptInv, EndOfInput PROVE PromptInv'
    OBVIOUS
<1>1. /\ UNCHANGED <<typed, line, column, input_count>> /\ Answer(-1)
      /\ asking # "none" /\ line > Len(typed)
    BY DEF EndOfInput, stdin
<1>2. PromptType /\ -1 \in {-1, 0, 1}
    BY DEF PromptInv
<1>3. PromptType'
    BY <1>1, <1>2, AnswerTypes DEF PromptType
<1>4. CASE answers # <<>>
    BY <1>1, <1>2, <1>3, <1>4, AnswerTypes, MeantStays DEF PromptInv
<1>5. CASE answers = <<>>
    <2>1. answers' # <<>> /\ answers'[1].result = -1
        BY <1>1, <1>2, <1>5, AnswerTypes
    <2>2. ASSUME Short PROVE \A k \in DOMAIN typed : ~Clear(typed[k])
        <3>1. \A k \in 1 .. line - 1 : ~Clear(typed[k])
            BY <1>5, <2>2 DEF PromptInv, NoAnswerYet
        <3>2. DOMAIN typed = 1 .. Len(typed) /\ line - 1 = Len(typed)
            BY <1>1, <1>2 DEF PromptType
        <3> QED BY <3>1, <3>2
    <2>3. FirstAnswerIsMeant'
        BY <1>1, <2>1, <2>2 DEF FirstAnswerIsMeant, Short, Clear
    <2>4. NoAnswerYet'
        BY <2>1 DEF NoAnswerYet
    <2> QED BY <1>3, <2>3, <2>4 DEF PromptInv
<1> QED BY <1>4, <1>5

LEMMA AdvanceTypes ==
    ASSUME PromptType, Advance, UNCHANGED typed
    PROVE  line' \in 1 .. Len(typed') + 1 /\ column' \in Nat \ {0} /\ line \in 1 .. Len(typed)
    BY DEF PromptType, Advance

\* The character is an answer.
LEMMA AnsweredKeeps ==
    ASSUME PromptInv, asking # "none", Advance, input_count = 0, UNCHANGED <<typed, input_count>>,
           NEW n \in {0, 1}, Answer(n),
           Character \in Space \cup Yes \cup No,
           n = IF Character \in Yes THEN 1 ELSE IF Character \in Space THEN Default ELSE 0
    PROVE  PromptInv'
<1>1. PromptType /\ n \in {-1, 0, 1}
    BY DEF PromptInv
<1>2. PromptType'
    BY <1>1, AnswerTypes, AdvanceTypes DEF PromptType
<1>3. CASE answers # <<>>
    BY <1>1, <1>2, <1>3, AnswerTypes, MeantStays DEF PromptInv
<1>4. CASE answers = <<>>
    <2>1. answers' # <<>> /\ answers'[1].result = n /\ answers'[1].default = asking
        BY <1>1, <1>4, AnswerTypes
    <2>2. ASSUME Short
          PROVE  /\ Clear(typed[line]) /\ \A j \in 1 .. line - 1 : ~Clear(typed[j])
                 /\ n = Meant(typed[line], asking)
        <3>1. (\A k \in 1 .. line - 1 : ~Clear(typed[k])) /\ column = 1
            BY <1>4, <2>2 DEF PromptInv, NoAnswerYet
        <3>2. line \in 1 .. Len(typed) /\ typed[line] \in Lines /\ Len(typed[line]) \in Nat
            BY <1>1, AdvanceTypes, LinesAreSequences
        <3>3. CASE typed[line] = <<>>
            <4>1. Character = "\n"
                BY <3>1, <3>3 DEF Character, InLine
            <4> QED BY <3>1, <3>3, <4>1 DEF Clear, Meant, Default, Space, Blank, Yes
        <3>4. CASE typed[line] # <<>>
            <4>1. Len(typed[line]) # 0
                BY <3>2, <3>4, PromptAssumption, EmptySeq
            <4>2. Character = typed[line][1]
                BY <3>1, <3>2, <4>1 DEF Character, InLine
            <4>3. Clear(typed[line])
                BY <4>2 DEF Clear
            <4>4. Space \cap Yes = {}
                BY DEF Space, Blank, Yes
            <4> QED BY <3>1, <3>4, <4>2, <4>3, <4>4 DEF Meant, Default
        <3> QED BY <3>3, <3>4
    <2>3. FirstAnswerIsMeant'
        <3> SUFFICES ASSUME Short
                     PROVE  \E k \in DOMAIN typed :
                               /\ Clear(typed[k]) /\ \A j \in 1 .. k - 1 : ~Clear(typed[j])
                               /\ answers'[1].result = Meant(typed[k], answers'[1].default)
            BY DEF FirstAnswerIsMeant, Short, Clear, Meant
        <3>1. line \in DOMAIN typed
            BY <1>1, AdvanceTypes DEF PromptType
        <3> QED BY <2>1, <2>2, <3>1
    <2>4. NoAnswerYet'
        BY <2>1 DEF NoAnswerYet
    <2> QED BY <1>2, <2>3, <2>4 DEF PromptInv
<1> QED BY <1>3, <1>4

LEMMA PassedOverKeeps ==
    ASSUME PromptInv, asking # "none", Advance, input_count # 0, input_count' = 0,
           UNCHANGED <<typed, asking, answers>>
    PROVE  PromptInv'
<1>1. PromptType /\ input_count = 1
    BY DEF PromptInv, PromptType
<1>2. PromptType'
    BY <1>1, AdvanceTypes DEF PromptType
<1>3. FirstAnswerIsMeant'
    BY DEF PromptInv, FirstAnswerIsMeant, Short, Clear, Meant
<1>4. NoAnswerYet'
    <2> SUFFICES ASSUME answers = <<>>, Short
                 PROVE  (\A k \in 1 .. line' - 1 : ~Clear(typed[k])) /\ column' = 1
        BY DEF NoAnswerYet, Short, Clear
    <2>1. /\ \A k \in 1 .. line - 1 : ~Clear(typed[k])
          /\ line <= Len(typed) /\ column = 2 /\ ~Clear(typed[line])
        BY <1>1 DEF PromptInv, NoAnswerYet
    <2>2. line \in 1 .. Len(typed) /\ line \in DOMAIN typed /\ Len(typed[line]) \in Nat
        BY <1>1, AdvanceTypes, LinesAreSequences DEF PromptType
    <2>3. Len(typed[line]) <= 1
        BY <2>2 DEF Short
    <2>4. line' = line + 1 /\ column' = 1
        BY <2>1, <2>2, <2>3 DEF Advance, InLine
    <2>5. \A k \in 1 .. line : k \in 1 .. line - 1 \/ k = line
        BY <2>2
    <2> QED BY <2>1, <2>2, <2>4, <2>5
<1> QED BY <1>2, <1>3, <1>4 DEF PromptInv

LEMMA WrongOneKeeps ==
    ASSUME PromptInv, asking # "none", Advance, input_count = 0, input_count' = 1,
           UNCHANGED <<typed, asking, answers>>, Character \notin Space \cup Yes \cup No
    PROVE  PromptInv'
<1>1. PromptType
    BY DEF PromptInv
<1>2. PromptType'
    BY <1>1, AdvanceTypes DEF PromptType
<1>3. FirstAnswerIsMeant'
    BY DEF PromptInv, FirstAnswerIsMeant, Short, Clear, Meant
<1>4. NoAnswerYet'
    <2> SUFFICES ASSUME answers = <<>>, Short
                 PROVE  /\ \A k \in 1 .. line' - 1 : ~Clear(typed[k])
                        /\ line' <= Len(typed) /\ column' = 2 /\ ~Clear(typed[line'])
        BY DEF NoAnswerYet, Short, Clear
    <2>1. (\A k \in 1 .. line - 1 : ~Clear(typed[k])) /\ column = 1
        BY DEF PromptInv, NoAnswerYet
    <2>2. line \in 1 .. Len(typed) /\ Len(typed[line]) \in Nat
        BY <1>1, AdvanceTypes, LinesAreSequences
    <2>3. InLine
        BY DEF Character, Space
    <2>4. Character = typed[line][1] /\ typed[line] # <<>>
        BY <2>1, <2>3 DEF Character, InLine
    <2>5. line' = line /\ column' = 2
        BY <2>1, <2>3 DEF Advance
    <2>6. ~Clear(typed[line])
        BY <2>4 DEF Clear
    <2> QED BY <2>1, <2>2, <2>5, <2>6
<1> QED BY <1>2, <1>3, <1>4 DEF PromptInv

LEMMA ReadCharacterKeeps == PromptInv /\ ReadCharacter => PromptInv'
<1> SUFFICES ASSUME PromptInv, ReadCharacter PROVE PromptInv'
    OBVIOUS
<1>1. asking # "none" /\ Advance /\ UNCHANGED typed /\ Default \in {0, 1}
    BY DEF ReadCharacter, Default
<1>2. Space \cap Yes = {} /\ Space \cap No = {} /\ Yes \cap No = {}
    BY DEF Space, Blank, Yes, No
<1>3. CASE input_count # 0 /\ input_count' = 0 /\ UNCHANGED <<asking, answers>>
    BY <1>1, <1>3, PassedOverKeeps
<1>4. CASE input_count = 0 /\ Character \in Space /\ Answer(Default) /\ UNCHANGED input_count
    BY <1>1, <1>2, <1>4, AnsweredKeeps
<1>5. CASE input_count = 0 /\ Character \in Yes /\ Answer(1) /\ UNCHANGED input_count
    BY <1>1, <1>2, <1>5, AnsweredKeeps
<1>6. CASE input_count = 0 /\ Character \in No /\ Answer(0) /\ UNCHANGED input_count
    BY <1>1, <1>2, <1>6, AnsweredKeeps
<1>7. CASE /\ input_count = 0 /\ Character \notin Space \cup Yes \cup No
           /\ input_count' = 1 /\ UNCHANGED <<asking, answers>>
    BY <1>1, <1>7, WrongOneKeeps
<1> QED BY <1>3, <1>4, <1>5, <1>6, <1>7 DEF ReadCharacter

LEMMA PromptStep == PromptInv /\ [PromptNext]_promptVars => PromptInv'
<1> SUFFICES ASSUME PromptInv, UNCHANGED promptVars PROVE PromptInv'
    BY TypeKeeps, AskKeeps, ReadCharacterKeeps, EndOfInputKeeps DEF PromptNext
<1> QED BY DEF promptVars, PromptInv, PromptType, NoAnswerYet, FirstAnswerIsMeant, Short, Clear, Meant

\* user_input.c: of lines with a letter at most, the first that answers the prompt is the
\* one that spm acts on, however many wrong ones come before it.
THEOREM FirstClearAnswers == PromptSpec => []FirstAnswerIsMeant
<1>1. PromptInv => FirstAnswerIsMeant
    BY DEF PromptInv
<1> QED BY <1>1, PromptStarts, PromptStep, PTL DEF PromptSpec

-----------------------------------------------------------------------------
\* Run paths.

\* The paths of libraries.
LEMMA LastSlash ==
    ASSUME NEW A, NEW s \in Seq(A), "/" \in Range(s)
    PROVE  \E m \in 1 .. Len(s) :
              /\ s[m] = "/" /\ dirname(s) = Cut(s, m - 1) /\ basename(s) = From(s, m + 1)
<1> DEFINE S == {k \in DOMAIN s : s[k] = "/"}
<1>1. Len(s) \in Nat /\ DOMAIN s = 1 .. Len(s)
    BY LenProperties
<1>2. S \in SUBSET Nat /\ S # {} /\ \A n \in S : n <= Len(s)
    BY <1>1 DEF Range
<1>3. Max(S) \in S
    <2> HIDE DEF S
    <2> QED BY <1>1, <1>2, MaxIs
<1>4. Max(S) \in 1 .. Len(s) /\ s[Max(S)] = "/"
    BY <1>1, <1>3
<1>5. dirname(s) = Cut(s, Max(S) - 1) /\ basename(s) = From(s, Max(S) + 1)
    BY DEF dirname, basename
<1> QED BY <1>4, <1>5

LEMMA DotSlash ==
    ASSUME NEW A, NEW s \in Seq(A), startswith(s, <<".", "/">>)
    PROVE  Len(s) >= 2 /\ s[1] = "." /\ s[2] = "/"
<1> DEFINE t == <<".", "/">>
<1>1. Len(t) = 2 /\ t[1] = "." /\ t[2] = "/"
    OBVIOUS
<1>2. Len(s) >= 2 /\ SubSeq(t, 1, 2) = SubSeq(s, 1, 2)
    BY <1>1 DEF startswith, IsPrefix
<1>3. Len(s) \in Nat /\ s[1] \in A /\ s[2] \in A
    BY <1>2, LenProperties
<1>4. SubSeq(s, 1, 2)[1] = s[1] /\ SubSeq(s, 1, 2)[2] = s[2]
    BY <1>3
<1>5. SubSeq(t, 1, 2)[1] = "." /\ SubSeq(t, 1, 2)[2] = "/"
    OBVIOUS
<1> QED BY <1>2, <1>4, <1>5

LEMMA SlashBefore ==
    ASSUME NEW A, NEW s \in Seq(A), "/" \in A
    PROVE  /\ Slash \in Seq(A) /\ Slash \o s \in Seq(A) /\ Len(Slash \o s) = Len(s) + 1
           /\ (Slash \o s)[1] = "/" /\ \A k \in 1 .. Len(s) : (Slash \o s)[1 + k] = s[k]
<1> DEFINE a == Slash  j == a \o s
<1>1. a \in Seq(A) /\ Len(a) = 1 /\ a[1] = "/" /\ 1 \in 1 .. 1 /\ Len(s) \in Nat
    BY LenProperties DEF Slash
<1> HIDE DEF a
<1>2. /\ j \in Seq(A) /\ Len(j) = Len(a) + Len(s) /\ \A k \in 1 .. Len(a) : j[k] = a[k]
      /\ \A k \in 1 .. Len(s) : j[Len(a) + k] = s[k]
    <2>1. a \in Seq(A)
        BY <1>1
    <2> QED BY <2>1, JoinedIs
<1> HIDE DEF j
<1>3. Len(j) = Len(s) + 1 /\ j[1] = "/" /\ \A k \in 1 .. Len(s) : j[1 + k] = s[k]
    BY <1>1, <1>2
<1> QED BY <1>1, <1>2, <1>3 DEF a, j

\* A directory from ".", and what is behind the dot.
LEMMA BehindTheDot ==
    ASSUME NEW A, NEW d \in Seq(A), Len(d) >= 2, d[2] = "/"
    PROVE  /\ From(d, 2) \in Seq(A) /\ Len(From(d, 2)) = Len(d) - 1
           /\ \A k \in 1 .. Len(d) - 1 : From(d, 2)[k] = d[1 + k]
           /\ From(d, 3) \in Seq(A) /\ From(d, 2) = Slash \o From(d, 3)
<1> DEFINE d2 == From(d, 2)  d3 == From(d, 3)
<1>1. Len(d) \in Nat /\ d[2] \in A /\ 1 \in 0 .. Len(d) /\ 2 \in 0 .. Len(d) /\ 2 = 1 + 1 /\ 3 = 2 + 1
    BY LenProperties
<1>2. d2 \in Seq(A) /\ Len(d2) = Len(d) - 1 /\ \A k \in 1 .. Len(d) - 1 : d2[k] = d[1 + k]
    BY <1>1, FromIs
<1>3. d3 \in Seq(A) /\ Len(d3) = Len(d) - 2 /\ \A k \in 1 .. Len(d) - 2 : d3[k] = d[2 + k]
    BY <1>1, FromIs
<1> HIDE DEF d2, d3
<1>4. Slash \in Seq(A) /\ Len(Slash) = 1 /\ Slash[1] = "/"
    BY <1>1 DEF Slash
<1>5. \A k \in 1 .. Len(Slash) : d2[k] = Slash[k]
    <2>1. 1 \in 1 .. Len(d) - 1 /\ 1 + 1 = 2 /\ \A k \in 1 .. 1 : k = 1
        BY <1>1
    <2> QED BY <1>2, <1>4, <2>1
<1>6. \A k \in 1 .. Len(d3) : d2[Len(Slash) + k] = d3[k]
    <2>1. ASSUME NEW k \in 1 .. Len(d) - 2 PROVE d2[1 + k] = d3[k]
        <3>1. 1 + k \in 1 .. Len(d) - 1 /\ 1 + (1 + k) = 2 + k
            BY <1>1
        <3> QED BY <1>2, <1>3, <3>1
    <2> QED BY <1>3, <1>4, <2>1
<1>7. Len(d2) = Len(Slash) + Len(d3)
    BY <1>1, <1>2, <1>3, <1>4
<1>8. d2 = Slash \o d3
    BY <1>2, <1>3, <1>4, <1>5, <1>6, <1>7, IsJoined
<1> QED BY <1>2, <1>3, <1>8 DEF d2, d3

\* A path from "." with a directory is that directory, a slash and a name.
LEMMA PathParts ==
    ASSUME NEW s \in Range(Libraries)
    PROVE  /\ Under(s) = Under(dirname(s)) \o Slash \o basename(s)
           /\ Destroot \o Slash \o From(dirname(s), 3) = Under(dirname(s))
           /\ startswith(dirname(s), <<".", "/">>)
           /\ strstr(s, basename(s))
<1> DEFINE A == Range(s) \cup Range(Destroot) \cup {"/"}
<1>1. /\ s \in Seq(Range(s)) /\ Destroot \in Seq(Range(Destroot))
      /\ "/" \in Range(s) /\ startswith(dirname(s), <<".", "/">>)
    BY RpathAssumption
<1>2. s \in Seq(A) /\ Destroot \in Seq(A) /\ Slash \in Seq(A) /\ "/" \in A
    BY <1>1 DEF Slash
<1> HIDE DEF A
<1>3. PICK m \in 1 .. Len(s) : s[m] = "/" /\ dirname(s) = Cut(s, m - 1) /\ basename(s) = From(s, m + 1)
    BY <1>1, <1>2, LastSlash
<1> DEFINE d == dirname(s)  b == basename(s)
<1>4. Len(s) \in Nat /\ m \in Nat /\ m - 1 \in 0 .. Len(s) /\ m \in 0 .. Len(s)
    BY <1>2, LenProperties
<1>5. d \in Seq(A) /\ Len(d) = m - 1 /\ \A k \in 1 .. m - 1 : d[k] = s[k]
    BY <1>2, <1>3, <1>4, CutIs, ZenonT(30)
<1>6. b \in Seq(A) /\ Len(b) = Len(s) - m /\ \A k \in 1 .. Len(s) - m : b[k] = s[m + k]
    <2>1. m + 1 = m + 1
        OBVIOUS
    <2>2. /\ From(s, m + 1) \in Seq(A) /\ Len(From(s, m + 1)) = Len(s) - m
          /\ \A k \in 1 .. Len(s) - m : From(s, m + 1)[k] = s[m + k]
        BY <1>2, <1>4, <2>1, FromIs
    <2> QED BY <1>3, <2>2
<1>7. strstr(s, b)
    BY <1>2, <1>3, <1>4, EndsOccur
<1>8. startswith(d, <<".", "/">>)
    BY <1>1
<1> HIDE DEF d, b
<1>9. Len(d) >= 2 /\ d[2] = "/"
    BY <1>5, <1>8, DotSlash
<1>10. m >= 3 /\ s[2] = "/" /\ Len(s) >= 2
    <2>1. m >= 3
        BY <1>4, <1>5, <1>9
    <2>2. 2 \in 1 .. m - 1
        BY <1>4, <2>1
    <2> QED BY <1>4, <1>5, <1>9, <2>1, <2>2
<1> DEFINE s2 == From(s, 2)  d2 == From(d, 2)  d3 == From(d, 3)  e == Slash \o b
<1>11. s2 \in Seq(A) /\ Len(s2) = Len(s) - 1 /\ \A k \in 1 .. Len(s) - 1 : s2[k] = s[1 + k]
    BY <1>2, <1>10, BehindTheDot
<1>12. /\ d2 \in Seq(A) /\ Len(d2) = Len(d) - 1 /\ \A k \in 1 .. Len(d) - 1 : d2[k] = d[1 + k]
       /\ d3 \in Seq(A) /\ d2 = Slash \o d3
    BY <1>5, <1>9, BehindTheDot
<1>13. /\ e \in Seq(A) /\ Len(e) = Len(b) + 1 /\ e[1] = "/" /\ \A k \in 1 .. Len(b) : e[1 + k] = b[k]
    BY <1>2, <1>6, SlashBefore
<1> HIDE DEF s2, d2, d3, e
<1>14. \A k \in 1 .. Len(d2) : s2[k] = d2[k]
    <2>1. ASSUME NEW k \in 1 .. Len(d) - 1 PROVE s2[k] = d2[k]
        <3>1. 1 + k \in 1 .. m - 1 /\ k \in 1 .. Len(s) - 1
            BY <1>4, <1>5
        <3> QED BY <1>5, <1>11, <1>12, <3>1
    <2> QED BY <1>12, <2>1
<1>15. \A k \in 1 .. Len(e) : s2[Len(d2) + k] = e[k]
    <2>1. Len(d2) = m - 2
        BY <1>4, <1>5, <1>12
    <2>2. ASSUME NEW k \in 1 .. Len(b) + 1 PROVE s2[(m - 2) + k] = e[k]
        <3>1. (m - 2) + k \in 1 .. Len(s) - 1 /\ 1 + ((m - 2) + k) = m + (k - 1)
            BY <1>4, <1>6, <1>10
        <3>2. s2[(m - 2) + k] = s[m + (k - 1)]
            BY <1>11, <3>1
        <3>3. CASE k = 1
            BY <1>3, <1>4, <1>13, <3>2, <3>3
        <3>4. CASE k # 1
            <4>1. k - 1 \in 1 .. Len(b) /\ 1 + (k - 1) = k
                BY <1>4, <1>6, <3>4
            <4> QED BY <1>6, <1>13, <3>2, <4>1
        <3> QED BY <3>3, <3>4
    <2> QED BY <1>13, <2>1, <2>2
<1>16. s2 = d2 \o e
    <2>1. Len(s2) = Len(d2) + Len(e)
        BY <1>4, <1>5, <1>6, <1>11, <1>12, <1>13
    <2> QED BY <1>11, <1>12, <1>13, <1>14, <1>15, <2>1, IsJoined
<1>17. Under(s) = Under(d) \o Slash \o b
    <2>1. Under(d) = Destroot \o d2 /\ Under(s) = Destroot \o s2
        BY DEF Under, d2, s2
    <2>2. (Destroot \o d2) \o e = Destroot \o (d2 \o e)
        <3>1. Destroot \in Seq(A) /\ d2 \in Seq(A) /\ e \in Seq(A)
            BY <1>2, <1>12, <1>13
        <3> QED BY <3>1, JoinedOfThree, SMTT(30)
    <2>3. Destroot \o d2 \in Seq(A)
        BY <1>2, <1>12, JoinedIs
    <2>4. ((Destroot \o d2) \o Slash) \o b = (Destroot \o d2) \o (Slash \o b)
        <3> DEFINE p == Destroot \o d2
        <3> HIDE DEF p
        <3>1. p \in Seq(A) /\ Slash \in Seq(A) /\ b \in Seq(A)
            BY <1>2, <1>6, <2>3 DEF p
        <3>2. (p \o Slash) \o b = p \o (Slash \o b)
            BY <3>1, JoinedOfThree, SMTT(30)
        <3> QED BY <3>2 DEF p
    <2> QED BY <1>16, <2>1, <2>2, <2>4, Zenon DEF e
<1>18. Destroot \o Slash \o d3 = Under(d)
    <2>1. (Destroot \o Slash) \o d3 = Destroot \o (Slash \o d3)
        <3>1. Destroot \in Seq(A) /\ Slash \in Seq(A) /\ d3 \in Seq(A)
            BY <1>2, <1>12
        <3> QED BY <3>1, JoinedOfThree, SMTT(30)
    <2> QED BY <1>12, <2>1, Zenon DEF Under, d2
<1> QED BY <1>7, <1>8, <1>17, <1>18 DEF d, b, d3

LEMMA FallbackIs == Destroot \o Slash \o LibDir = Under(Fallback)
<1> DEFINE A == Range(LibDir) \cup Range(Destroot) \cup {".", "/"}
           f == Fallback
           dot == <<".", "/">>
<1>1. LibDir \in Seq(Range(LibDir)) /\ Destroot \in Seq(Range(Destroot))
    BY RpathAssumption
<1>2. LibDir \in Seq(A) /\ Destroot \in Seq(A) /\ Slash \in Seq(A) /\ dot \in Seq(A) /\ "/" \in A
    BY <1>1 DEF Slash
<1>3. Len(dot) = 2 /\ dot[2] = "/" /\ 2 \in 1 .. 2
    OBVIOUS
<1>4. f = dot \o LibDir
    BY DEF Fallback
<1> HIDE DEF A, f, dot
<1>5. Len(LibDir) \in Nat
    BY <1>2, LenProperties
<1>6. /\ f \in Seq(A) /\ Len(f) = 2 + Len(LibDir) /\ \A k \in 1 .. 2 : f[k] = dot[k]
      /\ \A k \in 1 .. Len(LibDir) : f[2 + k] = LibDir[k]
    <2> DEFINE j == dot \o LibDir
    <2>1. /\ j \in Seq(A) /\ Len(j) = Len(dot) + Len(LibDir) /\ \A k \in 1 .. Len(dot) : j[k] = dot[k]
          /\ \A k \in 1 .. Len(LibDir) : j[Len(dot) + k] = LibDir[k]
        BY <1>2, JoinedIs
    <2> HIDE DEF j
    <2>2. /\ j \in Seq(A) /\ Len(j) = 2 + Len(LibDir) /\ \A k \in 1 .. 2 : j[k] = dot[k]
          /\ \A k \in 1 .. Len(LibDir) : j[2 + k] = LibDir[k]
        BY <1>3, <2>1
    <2> QED BY <1>4, <2>2 DEF j
<1>7. Len(f) >= 2 /\ f[2] = "/"
    BY <1>3, <1>5, <1>6
<1>8. From(f, 3) \in Seq(A) /\ From(f, 2) = Slash \o From(f, 3)
    BY <1>6, <1>7, BehindTheDot
<1>9. From(f, 3) = LibDir
    <2> DEFINE f3 == From(f, 3)
    <2>1. 2 \in 0 .. Len(f) /\ 3 = 2 + 1 /\ Len(f) - 2 = Len(LibDir)
        BY <1>5, <1>6
    <2>2. /\ From(f, 3) \in Seq(A) /\ Len(From(f, 3)) = Len(f) - 2
          /\ \A k \in 1 .. Len(f) - 2 : From(f, 3)[k] = f[2 + k]
        <3>1. f \in Seq(A)
            BY <1>6
        <3> QED BY <2>1, <3>1, FromIs
    <2>3. f3 = LibDir
        <3>1. f3 \in Seq(A) /\ Len(f3) = Len(f) - 2 /\ \A k \in 1 .. Len(f) - 2 : f3[k] = f[2 + k]
            BY <2>2 DEF f3
        <3> HIDE DEF f3
        <3> QED BY <1>2, <1>6, <2>1, <3>1, SeqEqual
    <2> QED BY <2>3 DEF f3
<1>10. (Destroot \o Slash) \o LibDir = Destroot \o (Slash \o LibDir)
    BY <1>2, JoinedOfThree
<1> QED BY <1>8, <1>9, <1>10, Zenon DEF Under, f

\* Where a name is found, the directory is that of a library of the tree in whose path it
\* occurs; where it is not, that of the prefix.
LEMMA FoundIs ==
    ASSUME NEW tree \in Seq(Range(Libraries)), NEW name
    PROVE  \/ /\ \A s \in Range(tree) : ~strstr(s, name)
              /\ Directory(tree, name) = Under(Fallback)
           \/ \E s \in Range(tree) : strstr(s, name) /\ Directory(tree, name) = Under(dirname(s))
<1> DEFINE M == Matches(tree, name)
<1>1. DOMAIN tree = 1 .. Len(tree) /\ Len(tree) \in Nat
    BY LenProperties
<1>2. CASE M = {}
    <2>1. \A s \in Range(tree) : ~strstr(s, name)
        BY <1>2 DEF Matches, Range
    <2>2. Directory(tree, name) = Under(Fallback)
        BY <1>2, FallbackIs DEF Directory
    <2> QED BY <2>1, <2>2
<1>3. CASE M # {}
    <2>1. M \in SUBSET Nat
        BY <1>1 DEF Matches
    <2>2. Min(M) \in M
        BY <1>3, <2>1, MinIs
    <2> DEFINE s == fstree_search(tree, name)
    <2>3. s \in Range(tree) /\ strstr(s, name)
        BY <2>2 DEF fstree_search, Matches, Range
    <2>4. s \in Range(Libraries)
        BY <2>3, RangeOfSeq
    <2>5. Directory(tree, name) = Destroot \o Slash \o From(dirname(s), 3)
        BY <1>3, <2>4, PathParts DEF Directory
    <2>6. Directory(tree, name) = Under(dirname(s))
        BY <2>4, <2>5, PathParts
    <2> QED BY <2>3, <2>6
<1> QED BY <1>2, <1>3

\* The directories are those of the names, and none is left out but for one that hides it.
LEMMA AutodetectIs ==
    ASSUME NEW tree, NEW A, NEW names \in Seq(A)
    PROVE  LET dirs == Range(rpath_autodetect(tree, names)) IN
           /\ \A d \in dirs : \E name \in Range(names) : d = Directory(tree, name)
           /\ \A name \in Range(names) : \E d \in dirs :
                 d = Directory(tree, name) \/ strstr(d, Directory(tree, name))
<1> DEFINE D(k) == Directory(tree, names[k])
           S == {D(k) : k \in 1 .. Len(names)}
           F == [q \in Seq(S) \X Nat |->
                    IF q[2] \notin 1 .. Len(names) \/ strstr_array(q[1], D(q[2])) THEN q[1]
                    ELSE Append(q[1], D(q[2]))]
<1>1. Len(names) \in Nat /\ \A k \in 1 .. Len(names) : D(k) \in S
    BY LenProperties
<1> HIDE DEF D
<1>2. F \in [Seq(S) \X Nat -> Seq(S)] /\ <<>> \in Seq(S)
    <2> HIDE DEF S
    <2> QED BY <1>1
<1>3. PICK g : Along(g, Seq(S), F, <<>>, Len(names))
    <2> HIDE DEF F, S
    <2> QED BY <1>1, <1>2, AlongNumbers
<1>4. /\ g \in [0 .. Len(names) -> Seq(S)] /\ g[0] = <<>>
      /\ \A k \in 1 .. Len(names) : g[k] = F[<<g[k - 1], k>>]
    BY <1>3 DEF Along
<1> HIDE DEF S
<1>5. ASSUME NEW k \in 0 .. Len(names)
      PROVE  g[k] = IF k = 0 THEN <<>>
                    ELSE IF strstr_array(g[k - 1], D(k)) THEN g[k - 1] ELSE Append(g[k - 1], D(k))
    <2>1. CASE k = 0
        BY <1>4, <2>1
    <2>2. CASE k # 0
        <3>1. k \in 1 .. Len(names) /\ k - 1 \in 0 .. Len(names) /\ k \in Nat /\ g[k - 1] \in Seq(S)
            BY <1>1, <1>4, <2>2, SMTT(30)
        <3> QED BY <1>4, <2>2, <3>1
    <2> QED BY <2>1, <2>2
<1>6. g = [k \in 0 .. Len(names) |-> IF k = 0 THEN <<>>
              ELSE IF strstr_array(g[k - 1], D(k)) THEN g[k - 1] ELSE Append(g[k - 1], D(k))]
    <2> HIDE DEF F
    <2> QED BY <1>4, <1>5
<1> DEFINE c == Directories(tree, names)
<1>7. c = [k \in 0 .. Len(names) |-> IF k = 0 THEN <<>>
              ELSE IF strstr_array(c[k - 1], D(k)) THEN c[k - 1] ELSE Append(c[k - 1], D(k))]
    BY <1>6, Zenon DEF Directories, D
<1> HIDE DEF c
<1>8. c[0] = <<>> /\ \A k \in 1 .. Len(names) :
         c[k] = IF strstr_array(c[k - 1], D(k)) THEN c[k - 1] ELSE Append(c[k - 1], D(k))
    <2>1. \A k \in 0 .. Len(names) : c[k] = IF k = 0 THEN <<>>
              ELSE IF strstr_array(c[k - 1], D(k)) THEN c[k - 1] ELSE Append(c[k - 1], D(k))
        BY <1>7, Zenon
    <2>2. 0 \in 0 .. Len(names) /\ \A k \in 1 .. Len(names) : k \in 0 .. Len(names) /\ k # 0
        BY <1>1
    <2> QED BY <2>1, <2>2, Zenon
<1> DEFINE Shown(r, k) == \E d \in Range(r) : d = D(k) \/ strstr(d, D(k))
           T == {k \in 0 .. Len(names) : c[k] \in Seq(S) /\ \A n \in 1 .. k : Shown(c[k], n)}
<1>9. 0 \in T
    <2>1. c[0] \in Seq(S) /\ 0 \in 0 .. Len(names)
        BY <1>1, <1>2, <1>8
    <2>2. \A n \in 1 .. 0 : Shown(c[0], n)
        OBVIOUS
    <2> QED BY <2>1, <2>2
<1>10. ASSUME NEW k \in 0 .. Len(names) - 1, k \in T PROVE k + 1 \in T
    <2>1. k + 1 \in 1 .. Len(names) /\ (k + 1) - 1 = k /\ k + 1 \in 0 .. Len(names) /\ D(k + 1) \in S
        BY <1>1
    <2>2. c[k] \in Seq(S) /\ \A n \in 1 .. k : Shown(c[k], n)
        BY <1>10
    <2>3. \A n \in 1 .. k + 1 : n \in 1 .. k \/ n = k + 1
        BY <1>1
    <2>4. CASE strstr_array(c[k], D(k + 1))
        <3>1. c[k + 1] = c[k]
            BY <1>8, <2>1, <2>4
        <3>2. Shown(c[k], k + 1)
            BY <2>4 DEF strstr_array, Range
        <3> QED BY <2>1, <2>2, <2>3, <3>1, <3>2
    <2>5. CASE ~strstr_array(c[k], D(k + 1))
        <3>1. c[k + 1] = Append(c[k], D(k + 1))
            BY <1>8, <2>1, <2>5
        <3>2. c[k + 1] \in Seq(S) /\ Range(c[k + 1]) = Range(c[k]) \cup {D(k + 1)}
            BY <2>1, <2>2, <3>1, AppendRange
        <3>3. \A n \in 1 .. k + 1 : Shown(c[k + 1], n)
            BY <2>2, <2>3, <3>2
        <3> QED BY <2>1, <3>2, <3>3
    <2> QED BY <2>4, <2>5
<1>11. Len(names) \in T
    <2>1. \A k \in 0 .. Len(names) : k \in T
        <3> HIDE DEF T
        <3> QED BY <1>1, <1>9, <1>10, UpTo
    <2> QED BY <1>1, <2>1
<1> DEFINE r == rpath_autodetect(tree, names)
<1>12. r = c[Len(names)]
    BY DEF rpath_autodetect, c
<1> HIDE DEF r
<1>13. r \in Seq(S) /\ \A n \in 1 .. Len(names) : Shown(r, n)
    BY <1>11, <1>12
<1>14. Range(names) = {names[n] : n \in 1 .. Len(names)}
    BY RangeEquality
<1>15. ASSUME NEW d \in Range(r) PROVE \E name \in Range(names) : d = Directory(tree, name)
    <2>1. d \in S
        BY <1>13, RangeOfSeq
    <2>2. PICK k \in 1 .. Len(names) : d = D(k)
        BY <2>1 DEF S
    <2> QED BY <1>14, <2>2 DEF D
<1>16. ASSUME NEW name \in Range(names)
       PROVE  \E d \in Range(r) : d = Directory(tree, name) \/ strstr(d, Directory(tree, name))
    <2>1. PICK n \in 1 .. Len(names) : name = names[n]
        BY <1>14
    <2> QED BY <1>13, <2>1 DEF D
<1> QED BY <1>15, <1>16 DEF r

\* patchelf puts the directories into the section, and leaves what the program needs.
LEMMA SectionIs ==
    ASSUME NEW s, s \in Seq(Range(s)), NEW r
    PROVE  /\ rpath_set(s, r) \in Seq(Range(rpath_set(s, r)))
           /\ rpath_get(rpath_set(s, r)) = r
           /\ Range(shlib_deps(rpath_set(s, r))) = Range(shlib_deps(s))
<1> DEFINE e == [tag |-> "RPATH", value |-> r]
           A == Range(s) \cup {e}
           others == {q \in Range(s) : q.tag # "RPATH"}
           w == rpath_set(s, r)
<1>1. s \in Seq(A) /\ e \in A /\ e.tag = "RPATH" /\ e.value = r
    OBVIOUS
<1>2. w = Append(Those(s, others), e)
    BY DEF rpath_set
<1> HIDE DEF e, A, w
<1>3. Those(s, others) \in Seq(A) /\ Range(Those(s, others)) = Range(s) \cap others
    BY <1>1, ThoseAre
<1>4. w \in Seq(A) /\ Range(w) = others \cup {e}
    <2> DEFINE o == Those(s, others)
    <2>1. o \in Seq(A) /\ Range(o) = others /\ e \in A
        BY <1>1, <1>3
    <2> HIDE DEF o
    <2>2. Append(o, e) \in Seq(A) /\ Range(Append(o, e)) = Range(o) \cup {e}
        BY <2>1, AppendRange
    <2> QED BY <1>2, <2>1, <2>2 DEF o
<1>5. w \in Seq(Range(w))
    BY <1>4, SeqOfRange
<1>6. rpath_get(w) = r
    <2> DEFINE t == Tagged(w, "RPATH")  S == {q \in Range(w) : q.tag = "RPATH"}
    <2>1. t \in Seq(A) /\ Range(t) = Range(w) \cap S
        BY <1>4, ThoseAre DEF Tagged
    <2>2. Range(w) \cap S = {e}
        BY <1>1, <1>4
    <2> HIDE DEF t, S
    <2>3. Range(t) = {e}
        BY <2>1, <2>2
    <2>4. PICK k \in DOMAIN t : t[k] = e
        BY <2>3, Zenon DEF Range
    <2>5. Len(t) \in Nat /\ DOMAIN t = 1 .. Len(t) /\ Len(t) # 0 /\ t # <<>>
        <3>1. Len(t) \in Nat /\ DOMAIN t = 1 .. Len(t)
            BY <2>1, LenProperties
        <3>2. Len(t) # 0
            BY <2>4, <3>1
        <3> QED BY <2>1, <3>1, <3>2, EmptySeq
    <2>6. t[1] \in Range(t)
        BY <2>5 DEF Range
    <2>7. t[1] = e
        BY <2>3, <2>6
    <2> QED BY <1>1, <2>5, <2>7 DEF rpath_get, t
<1>7. ASSUME NEW u, u \in Seq(A)
      PROVE  Range(shlib_deps(u)) = {q.value : q \in {q \in Range(u) : q.tag = "NEEDED"}}
    <2> DEFINE t == Tagged(u, "NEEDED")  S == {q \in Range(u) : q.tag = "NEEDED"}
    <2>1. t \in Seq(A) /\ Range(t) = Range(u) \cap S
        BY <1>7, ThoseAre DEF Tagged
    <2>2. Range(t) = S
        BY <2>1
    <2>3. Range(shlib_deps(u)) = {t[k].value : k \in DOMAIN t}
        BY DEF shlib_deps, Range
    <2> HIDE DEF t, S
    <2>4. Range(shlib_deps(u)) = {q.value : q \in Range(t)}
        BY <2>3 DEF Range
    <2> QED BY <2>2, <2>4 DEF S
<1>8. {q \in Range(w) : q.tag = "NEEDED"} = {q \in Range(s) : q.tag = "NEEDED"}
    BY <1>1, <1>4
<1>9. Range(shlib_deps(w)) = Range(shlib_deps(s))
    BY <1>1, <1>4, <1>7, <1>8
<1> QED BY <1>5, <1>6, <1>9 DEF w

LEMMA NeedsAreNames ==
    ASSUME NEW s, s \in Seq(Range(s))
    PROVE  \E A : shlib_deps(s) \in Seq(A)
<1> DEFINE t == Tagged(s, "NEEDED")
           A == {q.value : q \in Range(s)}
<1>1. t \in Seq(Range(s))
    BY ThoseAre DEF Tagged
<1> HIDE DEF t
<1>2. Len(t) \in Nat /\ DOMAIN t = 1 .. Len(t) /\ \A k \in 1 .. Len(t) : t[k].value \in A
    BY <1>1, LenProperties
<1>3. shlib_deps(s) = [k \in 1 .. Len(t) |-> t[k].value]
    BY <1>2 DEF shlib_deps, t
<1> HIDE DEF A
<1>4. shlib_deps(s) \in Seq(A)
    BY <1>2, <1>3
<1> QED BY <1>4

\* The invariant.

LEMMA RpathStarts == RpathInit => RpathInv
<1> SUFFICES ASSUME RpathInit PROVE RpathInv
    OBVIOUS
<1>1. fresh = <<>> /\ Len(fresh) = 0 /\ DOMAIN fresh = {} /\ Range(fresh) = {}
    BY DEF RpathInit, Range
<1>2. RpathType
    BY DEF RpathInit, RpathType
<1>3. Seen(0) = {}
    BY DEF Seen
<1>4. TreesAgree
    BY <1>1, <1>3 DEF RpathInit, TreesAgree
<1>5. ProgramsAreCovered
    BY <1>1 DEF ProgramsAreCovered
<1> QED BY <1>2, <1>4, <1>5 DEF RpathInv

LEMMA ChooseKeeps == RpathInv /\ Choose => RpathInv'
<1> SUFFICES ASSUME RpathInv, Choose PROVE RpathInv'
    OBVIOUS
<1>1. /\ UNCHANGED <<plan, fresh, installed, kept, tmpdir, placed>> /\ fresh = <<>>
      /\ has' \in Contents /\ section' \in Sections /\ command' = "idle"
    BY DEF RpathInv, RpathType, Choose
<1>2. Len(fresh) = 0 /\ DOMAIN fresh = {} /\ Range(fresh) = {}
    BY <1>1 DEF Range
<1>3. RpathType'
    BY <1>1, RpathAssumption DEF RpathInv, RpathType
<1>4. Seen(0) = {} /\ Seen(0)' = {}
    BY DEF Seen
<1>5. TreesAgree'
    BY <1>1, <1>2, <1>4 DEF RpathInv, TreesAgree
<1>6. ProgramsAreCovered'
    BY <1>1, <1>2 DEF ProgramsAreCovered
<1> QED BY <1>3, <1>5, <1>6 DEF RpathInv

LEMMA StartKeeps == RpathInv /\ StartCommand => RpathInv'
<1> SUFFICES ASSUME RpathInv, StartCommand PROVE RpathInv'
    OBVIOUS
<1>1. /\ UNCHANGED <<has, section, installed, kept, placed>> /\ command = "idle" /\ command' = "installing"
      /\ plan' \in Plans /\ fresh' = <<>> /\ tmpdir' = {}
    BY DEF StartCommand
<1>2. plan' \in Seq(Relocated)
    <2>1. plan' \in Seq(Range(plan')) /\ Range(plan') \subseteq Relocated
        BY <1>1, RpathAssumption DEF Relocated
    <2> QED BY <2>1, SeqMonotonic
<1>3. RpathType'
    BY <1>1, <1>2 DEF RpathInv, RpathType
<1>4. Len(fresh') = 0 /\ DOMAIN fresh' = {} /\ Range(fresh') = {} /\ Range(fresh)' = {}
    BY <1>1 DEF Range
<1>5. Seen(0)' = {}
    BY DEF Seen
<1>6. TreesAgree'
    BY <1>1, <1>4, <1>5 DEF TreesAgree
<1>7. ProgramsAreCovered'
    BY <1>4 DEF ProgramsAreCovered
<1> QED BY <1>3, <1>6, <1>7 DEF RpathInv

LEMMA SkipKeeps == RpathInv /\ Skip => RpathInv'
<1> SUFFICES ASSUME RpathInv, Skip PROVE RpathInv'
    OBVIOUS
<1>1. /\ UNCHANGED <<has, section, fresh, installed, kept, tmpdir, placed, command>>
      /\ plan # <<>> /\ plan' = Tail(plan)
    BY DEF Skip
<1>2. RpathType'
    BY <1>1 DEF RpathInv, RpathType
<1>3. (\A n : Seen(n)' = Seen(n)) /\ Seen(Len(fresh))' = Seen(Len(fresh)) /\ Range(fresh)' = Range(fresh)
    BY <1>1 DEF Seen
<1>4. TreesAgree'
    BY <1>1, <1>3 DEF RpathInv, TreesAgree
<1>5. ProgramsAreCovered'
    <2> SUFFICES ASSUME NEW n \in DOMAIN fresh', fresh'[n] \in Programs \ kept'
                 PROVE  Covers(section'[fresh'[n]], Those(Libraries, Seen(n)'))
        BY DEF ProgramsAreCovered, Covers
    <2>1. Covers(section[fresh[n]], Those(Libraries, Seen(n)))
        BY <1>1 DEF RpathInv, ProgramsAreCovered
    <2> QED BY <1>1, <1>3, <2>1, Zenon
<1> QED BY <1>2, <1>4, <1>5 DEF RpathInv

LEMMA SyncKeeps == RpathInv /\ Sync => RpathInv'
<1> SUFFICES ASSUME RpathInv, Sync PROVE RpathInv'
    OBVIOUS
<1>1. /\ UNCHANGED <<has, section, plan, fresh, installed, kept, tmpdir>>
      /\ placed' = placed \cup tmpdir /\ command = "installing" /\ command' = "idle"
    BY DEF Sync
<1>2. RpathType'
    BY <1>1 DEF RpathInv, RpathType
<1>3. (\A n : Seen(n)' = Seen(n)) /\ Seen(Len(fresh))' = Seen(Len(fresh)) /\ Range(fresh)' = Range(fresh)
    BY <1>1 DEF Seen
<1>4. TreesAgree'
    BY <1>1, <1>3 DEF RpathInv, TreesAgree
<1>5. ProgramsAreCovered'
    <2> SUFFICES ASSUME NEW n \in DOMAIN fresh', fresh'[n] \in Programs \ kept'
                 PROVE  Covers(section'[fresh'[n]], Those(Libraries, Seen(n)'))
        BY DEF ProgramsAreCovered, Covers
    <2>1. Covers(section[fresh[n]], Those(Libraries, Seen(n)))
        BY <1>1 DEF RpathInv, ProgramsAreCovered
    <2> QED BY <1>1, <1>3, <2>1, Zenon
<1> QED BY <1>2, <1>4, <1>5 DEF RpathInv

\* A package that is installed sees what was there before it and what it brings.
LEMMA SeenGrows ==
    ASSUME RpathType, NEW p \in Relocated, fresh' = Append(fresh, p), UNCHANGED has
    PROVE  /\ Len(fresh) \in Nat /\ Len(fresh') = Len(fresh) + 1 /\ fresh'[Len(fresh) + 1] = p
           /\ \A n \in 1 .. Len(fresh) : fresh'[n] = fresh[n] /\ Seen(n)' = Seen(n)
           /\ Seen(Len(fresh))' = Seen(Len(fresh)) \cup has[p]
           /\ \A n : n = Len(fresh) + 1 => Seen(n)' = Seen(Len(fresh)) \cup has[p]
           /\ Range(fresh)' = Range(fresh) \cup {p} /\ fresh' \in Seq(Relocated)
<1>1. fresh \in Seq(Relocated) /\ Len(fresh) \in Nat
    BY LenProperties DEF RpathType
<1>2. /\ fresh' \in Seq(Relocated) /\ Range(fresh') = Range(fresh) \cup {p}
      /\ Len(fresh') = Len(fresh) + 1 /\ fresh'[Len(fresh) + 1] = p
      /\ \A n \in 1 .. Len(fresh) : fresh'[n] = fresh[n]
    BY <1>1, AppendRange
<1>3. ASSUME NEW n \in 1 .. Len(fresh) PROVE Seen(n)' = Seen(n)
    <2>1. \A j \in 1 .. n : j \in 1 .. Len(fresh)
        BY <1>1
    <2>2. \A j \in 1 .. n : has'[fresh'[j]] = has[fresh[j]]
        BY <1>2, <2>1
    <2> QED BY <2>2 DEF Seen
<1>4. ASSUME NEW n, n = Len(fresh) + 1 PROVE Seen(n)' = Seen(Len(fresh)) \cup has[p]
    <2>1. 1 .. n = (1 .. Len(fresh)) \cup {n}
        BY <1>1, <1>4
    <2>2. \A j \in 1 .. Len(fresh) : has'[fresh'[j]] = has[fresh[j]]
        BY <1>2
    <2>3. has'[fresh'[n]] = has[p]
        BY <1>2, <1>4
    <2>4. {has'[fresh'[j]] : j \in 1 .. n} = {has[fresh[j]] : j \in 1 .. Len(fresh)} \cup {has[p]}
        BY <2>1, <2>2, <2>3
    <2>5. Seen(n)' = UNION {has'[fresh'[j]] : j \in 1 .. n}
        BY DEF Seen
    <2> QED BY <2>4, <2>5 DEF Seen
<1>5. Seen(Len(fresh))' = Seen(Len(fresh)) \cup has[p]
    <2>1. PICK n : n = Len(fresh) + 1
        OBVIOUS
    <2>2. Seen(n)' = UNION {has'[fresh'[j]] : j \in 1 .. n}
        BY DEF Seen
    <2>3. Seen(Len(fresh))' = UNION {has'[fresh'[j]] : j \in 1 .. Len(fresh')}
        BY DEF Seen
    <2>4. Seen(n)' = Seen(Len(fresh)) \cup has[p]
        BY <1>4, <2>1
    <2>5. n = Len(fresh')
        BY <1>2, <2>1
    <2> QED BY <2>2, <2>3, <2>4, <2>5
<1>6. Range(fresh)' = Range(fresh')
    BY DEF Range
<1> QED BY <1>1, <1>2, <1>3, <1>4, <1>5, <1>6

LEMMA InstallKeeps == RpathInv /\ InstallPackage => RpathInv'
<1> SUFFICES ASSUME RpathInv, InstallPackage PROVE RpathInv'
    OBVIOUS
<1> DEFINE p == Current
           tree == Those(Libraries, tmpdir \cup has[p])
           s == section[p]
           dirs == rpath_autodetect(tree, shlib_deps(s))
           Given == /\ p \in Programs
                  /\ section' = [section EXCEPT ![p] = rpath_set(s, dirs)]
                  /\ UNCHANGED kept
           Keep == kept' = kept \cup {p} /\ UNCHANGED section
<1>1. /\ UNCHANGED <<has, placed, command>> /\ command = "installing" /\ plan # <<>>
      /\ p \notin installed /\ installed' = installed \cup {p}
      /\ tmpdir' = tmpdir \cup has[p] /\ fresh' = Append(fresh, p) /\ plan' = Tail(plan)
      /\ Given \/ Keep
    BY DEF InstallPackage, Available
<1>2. plan \in Seq(Relocated) /\ plan' \in Seq(Relocated) /\ p \in Relocated
    BY <1>1 DEF RpathInv, RpathType, Current
<1>3. /\ has[p] \subseteq Range(Libraries) /\ tmpdir = Seen(Len(fresh)) /\ Range(fresh) \subseteq installed
      /\ p \in DOMAIN section /\ s \in Seq(Range(s)) /\ RpathType
    BY <1>1, <1>2 DEF RpathInv, RpathType, TreesAgree
<1> HIDE DEF p
<1>4. /\ Len(fresh) \in Nat /\ Len(fresh') = Len(fresh) + 1 /\ fresh'[Len(fresh) + 1] = p
      /\ \A n \in 1 .. Len(fresh) : fresh'[n] = fresh[n] /\ Seen(n)' = Seen(n)
      /\ Seen(Len(fresh))' = Seen(Len(fresh)) \cup has[p]
      /\ \A n : n = Len(fresh) + 1 => Seen(n)' = Seen(Len(fresh)) \cup has[p]
      /\ Range(fresh)' = Range(fresh) \cup {p} /\ fresh' \in Seq(Relocated)
    BY <1>1, <1>2, <1>3, SeenGrows
<1>5. Libraries \in Seq(Range(Libraries)) /\ tree \in Seq(Range(Libraries))
    BY RpathAssumption, ThoseAre
<1>6. /\ rpath_set(s, dirs) \in Seq(Range(rpath_set(s, dirs)))
      /\ rpath_get(rpath_set(s, dirs)) = dirs
      /\ Range(shlib_deps(rpath_set(s, dirs))) = Range(shlib_deps(s))
    BY <1>3, SectionIs
<1>7. Covers(rpath_set(s, dirs), tree)
    <2>1. PICK A : shlib_deps(s) \in Seq(A)
        BY <1>3, NeedsAreNames
    <2>2. /\ \A d \in Range(dirs) : \E name \in Range(shlib_deps(s)) : d = Directory(tree, name)
          /\ \A name \in Range(shlib_deps(s)) : \E d \in Range(dirs) :
                d = Directory(tree, name) \/ strstr(d, Directory(tree, name))
        BY <2>1, AutodetectIs
    <2> HIDE DEF dirs
    <2> QED BY <1>6, <2>2 DEF Covers
<1> HIDE DEF tree, s, dirs
<1>8. \A q \in Relocated : q # p => section'[q] = section[q]
    <2>1. \A q \in Relocated : q \in DOMAIN section
        BY <1>1, <1>3 DEF RpathType
    <2> QED BY <1>1, <2>1
<1>9. RpathType'
    <2>1. ASSUME NEW q \in Relocated
          PROVE  q \in DOMAIN section' /\ section'[q] \in Seq(Range(section'[q]))
        <3>1. q \in DOMAIN section /\ section[q] \in Seq(Range(section[q]))
            BY <1>1 DEF RpathInv, RpathType
        <3>2. CASE Keep
            BY <3>1, <3>2
        <3>3. CASE Given /\ q # p
            BY <1>8, <3>1, <3>3
        <3>4. CASE Given /\ q = p
            <4>1. section'[q] = rpath_set(s, dirs) /\ q \in DOMAIN section'
                BY <3>1, <3>4
            <4> QED BY <1>6, <4>1
        <3> QED BY <1>1, <3>2, <3>3, <3>4
    <2>2. tmpdir' \subseteq Range(Libraries)
        BY <1>1, <1>3 DEF RpathType
    <2> QED BY <1>1, <1>2, <1>4, <2>1, <2>2 DEF RpathInv, RpathType
<1>10. TreesAgree'
    BY <1>1, <1>3, <1>4 DEF TreesAgree
<1>11. ProgramsAreCovered'
    <2> SUFFICES ASSUME NEW n \in DOMAIN fresh', fresh'[n] \in Programs \ kept'
                 PROVE  Covers(section'[fresh'[n]], Those(Libraries, Seen(n)'))
        BY DEF ProgramsAreCovered, Covers
    <2>1. DOMAIN fresh' = 1 .. Len(fresh) + 1 /\ DOMAIN fresh = 1 .. Len(fresh)
        BY <1>3, <1>4, LenProperties DEF RpathType
    <2>2. CASE n \in 1 .. Len(fresh)
        <3>1. fresh'[n] = fresh[n] /\ Seen(n)' = Seen(n) /\ fresh[n] \in Range(fresh)
            BY <1>4, <2>1, <2>2 DEF Range
        <3>2. fresh[n] # p /\ fresh[n] \in Relocated
            BY <1>1, <1>3, <2>1, <2>2, <3>1 DEF RpathType
        <3>3. fresh[n] \in Programs \ kept
            BY <1>1, <3>1
        <3>4. Covers(section[fresh[n]], Those(Libraries, Seen(n)))
            BY <2>1, <2>2, <3>3 DEF RpathInv, ProgramsAreCovered
        <3> QED BY <1>8, <3>1, <3>2, <3>4
    <2>3. CASE n = Len(fresh) + 1
        <3>1. fresh'[n] = p /\ Seen(n)' = tmpdir \cup has[p]
            BY <1>3, <1>4, <2>3
        <3>2. Given
            BY <1>1, <3>1
        <3>3. section'[p] = rpath_set(s, dirs)
            BY <1>3, <3>2
        <3> QED BY <1>7, <3>1, <3>3 DEF tree
    <2> QED BY <1>4, <2>1, <2>2, <2>3
<1> QED BY <1>9, <1>10, <1>11 DEF RpathInv

LEMMA RpathStep == RpathInv /\ [RpathNext]_rpathVars => RpathInv'
<1> SUFFICES ASSUME RpathInv, UNCHANGED rpathVars PROVE RpathInv'
    BY ChooseKeeps, StartKeeps, SkipKeeps, SyncKeeps, InstallKeeps DEF RpathNext
<1>1. UNCHANGED <<has, section, plan, fresh, installed, kept, tmpdir, placed, command>>
    BY DEF rpathVars
<1>2. (\A n : Seen(n)' = Seen(n)) /\ Seen(Len(fresh))' = Seen(Len(fresh)) /\ Range(fresh)' = Range(fresh)
    BY <1>1 DEF Seen
<1>3. RpathType'
    BY <1>1 DEF RpathInv, RpathType
<1>4. TreesAgree'
    BY <1>1, <1>2 DEF RpathInv, TreesAgree
<1>5. ProgramsAreCovered'
    <2> SUFFICES ASSUME NEW n \in DOMAIN fresh', fresh'[n] \in Programs \ kept'
                 PROVE  Covers(section'[fresh'[n]], Those(Libraries, Seen(n)'))
        BY DEF ProgramsAreCovered, Covers
    <2>1. Covers(section[fresh[n]], Those(Libraries, Seen(n)))
        BY <1>1 DEF RpathInv, ProgramsAreCovered
    <2> QED BY <1>1, <1>2, <2>1, Zenon
<1> QED BY <1>3, <1>4, <1>5 DEF RpathInv

\* What a program needs is in a directory of its section.
LEMMA CoveredIsFound == RpathInv => FindsItsLibraries
<1> SUFFICES ASSUME RpathInv, command = "idle", NEW n \in DOMAIN fresh
             PROVE  LET p == fresh[n]
                        needs == Range(shlib_deps(section[p]))
                        reachable == {s \in placed : s \in Seen(n) \/ dirname(s) = Fallback}
                    IN p \in Programs \ kept /\ Unmistakable(reachable, needs) =>
                       \A name \in needs : (\E s \in reachable : basename(s) = name) =>
                           \E d \in Range(rpath_get(section[p])), s \in placed : Under(s) = d \o Slash \o name
    BY DEF FindsItsLibraries
<1> DEFINE p == fresh[n]
           needs == Range(shlib_deps(section[p]))
           reachable == {s \in placed : s \in Seen(n) \/ dirname(s) = Fallback}
           tree == Those(Libraries, Seen(n))
           dirs == Range(rpath_get(section[p]))
<1> SUFFICES ASSUME p \in Programs \ kept, Unmistakable(reachable, needs),
                    NEW name \in needs, NEW s0 \in reachable, basename(s0) = name
             PROVE  \E d \in dirs, s \in placed : Under(s) = d \o Slash \o name
    BY Zenon
<1>1. Covers(section[p], tree)
    BY DEF RpathInv, ProgramsAreCovered
<1>2. /\ \A d \in dirs : \E m \in needs : d = Directory(tree, m)
      /\ \A m \in needs : \E d \in dirs : d = Directory(tree, m) \/ strstr(d, Directory(tree, m))
    BY <1>1 DEF Covers
<1>3. tree \in Seq(Range(Libraries)) /\ Range(tree) = Range(Libraries) \cap Seen(n)
    BY RpathAssumption, ThoseAre
<1>4. Seen(n) \subseteq placed /\ placed \subseteq Range(Libraries)
    <2>1. DOMAIN fresh = 1 .. Len(fresh) /\ Len(fresh) \in Nat
        BY LenProperties DEF RpathInv, RpathType
    <2>2. Seen(n) \subseteq Seen(Len(fresh))
        BY <2>1 DEF Seen
    <2> QED BY <2>2 DEF RpathInv, RpathType, TreesAgree
<1>5. Range(tree) = Seen(n) /\ Range(tree) \subseteq reachable /\ reachable \subseteq placed
    BY <1>3, <1>4
<1>6. /\ \A s \in reachable, d \in {dirname(t) : t \in reachable} :
            Under(dirname(s)) # Under(d) => ~strstr(Under(d), Under(dirname(s)))
      /\ (\E m \in needs : \A t \in reachable : ~strstr(t, m)) =>
            \A s \in reachable : Under(dirname(s)) # Under(Fallback)
                                    => ~strstr(Under(Fallback), Under(dirname(s)))
      /\ \A s \in reachable, m \in needs : strstr(s, m) => basename(s) = m
    BY Zenon DEF Unmistakable
<1>7. s0 \in Range(Libraries) /\ strstr(s0, name)
    BY <1>4, <1>5, PathParts
<1> HIDE DEF reachable, needs, tree, dirs, p
\* It is in the directory that was looked for.
<1>8. PICK s \in reachable : basename(s) = name /\ Directory(tree, name) = Under(dirname(s))
    <2>1. CASE /\ \A t \in Range(tree) : ~strstr(t, name)
               /\ Directory(tree, name) = Under(Fallback)
        <3>1. s0 \notin Range(tree)
            BY <1>7, <2>1
        <3>2. dirname(s0) = Fallback
            BY <1>5, <3>1 DEF reachable
        <3> QED BY <2>1, <3>2
    <2>2. CASE \E t \in Range(tree) : strstr(t, name) /\ Directory(tree, name) = Under(dirname(t))
        <3>1. PICK t \in Range(tree) : strstr(t, name) /\ Directory(tree, name) = Under(dirname(t))
            BY <2>2
        <3>2. t \in reachable /\ basename(t) = name
            BY <1>5, <1>6, <3>1
        <3> QED BY <3>1, <3>2
    <2> QED BY <1>3, <2>1, <2>2, FoundIs
\* No other directory hides that one.
<1>9. Under(dirname(s)) \in dirs
    <2>1. PICK d \in dirs : d = Directory(tree, name) \/ strstr(d, Directory(tree, name))
        BY <1>2
    <2>2. PICK m \in needs : d = Directory(tree, m)
        BY <1>2
    <2>3. CASE \E t \in Range(tree) : strstr(t, m) /\ Directory(tree, m) = Under(dirname(t))
        <3>1. PICK t \in reachable : d = Under(dirname(t))
            BY <1>5, <2>2, <2>3
        <3>2. Under(dirname(s)) # d => ~strstr(d, Under(dirname(s)))
            BY <1>6, <3>1
        <3> QED BY <1>8, <2>1, <3>2
    <2>4. CASE /\ \A t \in Range(tree) : ~strstr(t, m)
               /\ Directory(tree, m) = Under(Fallback)
        <3>1. CASE \E t \in reachable : strstr(t, m)
            <4>1. PICK t \in reachable : strstr(t, m)
                BY <3>1
            <4>2. dirname(t) = Fallback
                BY <1>5, <2>4, <4>1 DEF reachable
            <4>3. Under(dirname(s)) # d => ~strstr(d, Under(dirname(s)))
                BY <1>6, <2>2, <2>4, <4>1, <4>2
            <4> QED BY <1>8, <2>1, <4>3
        <3>2. CASE \A t \in reachable : ~strstr(t, m)
            <4>1. Under(dirname(s)) # d => ~strstr(d, Under(dirname(s)))
                BY <1>6, <2>2, <2>4, <3>2
            <4> QED BY <1>8, <2>1, <4>1
        <3> QED BY <3>1, <3>2
    <2> QED BY <1>3, <2>2, <2>3, <2>4, FoundIs
<1>10. s \in placed /\ Under(s) = Under(dirname(s)) \o Slash \o name
    BY <1>4, <1>5, <1>8, PathParts
<1> QED BY <1>9, <1>10

\* rpath.c: for any packages, libraries, commands and failures of the tools, a relocated
\* program finds the libraries of its own package and of those before it.
THEOREM ProgramsFindLibraries == RpathSpec => []FindsItsLibraries
<1> QED BY RpathStarts, RpathStep, CoveredIsFound, PTL DEF RpathSpec

-----------------------------------------------------------------------------
\* Directory trees.

\* q lies in the tree below p.
Inside(p, q) == Below(p, q) /\ p # q

\* There is a place of q in s behind which nothing is inside it.
Turn(s, q) == \E j \in 1 .. Len(s) : s[j] = q /\ \A m \in j + 1 .. Len(s) : ~Inside(q, s[m])

LEMMA TurnOfOneMore ==
    ASSUME NEW A, NEW s \in Seq(A), NEW e \in A, NEW q
    PROVE  Turn(Append(s, e), q) <=> q = e \/ (Turn(s, q) /\ ~Inside(q, e))
<1> DEFINE u == Append(s, e)
<1>1. /\ Len(u) = Len(s) + 1 /\ u[Len(s) + 1] = e
      /\ \A n \in 1 .. Len(s) : u[n] = s[n]
    BY AppendRange
<1>2. Len(s) \in Nat
    BY LenProperties
<1> HIDE DEF u
<1>3. ASSUME Turn(u, q) PROVE q = e \/ (Turn(s, q) /\ ~Inside(q, e))
    <2>1. PICK j \in 1 .. Len(u) : u[j] = q /\ \A m \in j + 1 .. Len(u) : ~Inside(q, u[m])
        BY <1>3 DEF Turn
    <2>2. CASE j = Len(u)
        BY <1>1, <2>1, <2>2
    <2>3. CASE j # Len(u)
        <3>1. j \in 1 .. Len(s) /\ Len(u) \in j + 1 .. Len(u) /\ s[j] = q
            BY <1>1, <1>2, <2>1, <2>3
        <3>2. ~Inside(q, e)
            BY <1>1, <2>1, <3>1
        <3>3. ASSUME NEW m \in j + 1 .. Len(s) PROVE ~Inside(q, s[m])
            <4>1. m \in j + 1 .. Len(u) /\ m \in 1 .. Len(s)
                BY <1>1, <1>2, <3>1
            <4> QED BY <1>1, <2>1, <4>1
        <3> QED BY <3>1, <3>2, <3>3 DEF Turn
    <2> QED BY <2>2, <2>3
<1>4. ASSUME q = e PROVE Turn(u, q)
    <2>1. Len(u) \in 1 .. Len(u) /\ Len(u) + 1 .. Len(u) = {} /\ u[Len(u)] = q
        BY <1>1, <1>2, <1>4
    <2> QED BY <2>1 DEF Turn
<1>5. ASSUME Turn(s, q), ~Inside(q, e) PROVE Turn(u, q)
    <2>1. PICK j \in 1 .. Len(s) : s[j] = q /\ \A m \in j + 1 .. Len(s) : ~Inside(q, s[m])
        BY <1>5 DEF Turn
    <2>2. j \in 1 .. Len(u) /\ u[j] = q
        BY <1>1, <1>2, <2>1
    <2>3. ASSUME NEW m \in j + 1 .. Len(u) PROVE ~Inside(q, u[m])
        <3>1. m = Len(s) + 1 \/ (m \in j + 1 .. Len(s) /\ m \in 1 .. Len(s))
            BY <1>1, <1>2
        <3> QED BY <1>1, <1>5, <2>1, <3>1
    <2> QED BY <2>2, <2>3 DEF Turn
<1>6. Turn(u, q) <=> q = e \/ (Turn(s, q) /\ ~Inside(q, e))
    BY <1>3, <1>4, <1>5
<1> QED BY <1>6 DEF u

LEMMA TurnOfJoined ==
    ASSUME NEW A, NEW s \in Seq(A), NEW u \in Seq(A), NEW q
    PROVE  /\ Turn(u, q) => Turn(s \o u, q)
           /\ Turn(s, q) /\ (\A m \in 1 .. Len(u) : ~Inside(q, u[m])) => Turn(s \o u, q)
<1> DEFINE w == s \o u
<1>1. /\ Len(w) = Len(s) + Len(u) /\ \A n \in 1 .. Len(s) : w[n] = s[n]
      /\ \A n \in 1 .. Len(u) : w[Len(s) + n] = u[n]
    BY JoinedIs
<1>2. Len(s) \in Nat /\ Len(u) \in Nat
    BY LenProperties
<1> HIDE DEF w
<1>3. ASSUME Turn(u, q) PROVE Turn(w, q)
    <2>1. PICK j \in 1 .. Len(u) : u[j] = q /\ \A m \in j + 1 .. Len(u) : ~Inside(q, u[m])
        BY <1>3 DEF Turn
    <2>2. Len(s) + j \in 1 .. Len(w) /\ w[Len(s) + j] = q
        BY <1>1, <1>2, <2>1
    <2>3. ASSUME NEW m \in Len(s) + j + 1 .. Len(w) PROVE ~Inside(q, w[m])
        <3>1. m - Len(s) \in j + 1 .. Len(u) /\ m - Len(s) \in 1 .. Len(u) /\ Len(s) + (m - Len(s)) = m
            BY <1>1, <1>2
        <3> QED BY <1>1, <2>1, <3>1
    <2> QED BY <2>2, <2>3 DEF Turn
<1>4. ASSUME Turn(s, q), \A m \in 1 .. Len(u) : ~Inside(q, u[m]) PROVE Turn(w, q)
    <2>1. PICK j \in 1 .. Len(s) : s[j] = q /\ \A m \in j + 1 .. Len(s) : ~Inside(q, s[m])
        BY <1>4 DEF Turn
    <2>2. j \in 1 .. Len(w) /\ w[j] = q
        BY <1>1, <1>2, <2>1
    <2>3. ASSUME NEW m \in j + 1 .. Len(w) PROVE ~Inside(q, w[m])
        <3>1. CASE m \in j + 1 .. Len(s)
            <4>1. m \in 1 .. Len(s)
                BY <3>1
            <4> QED BY <1>1, <2>1, <3>1, <4>1
        <3>2. CASE m \notin j + 1 .. Len(s)
            <4>1. m - Len(s) \in 1 .. Len(u) /\ Len(s) + (m - Len(s)) = m
                BY <1>1, <1>2, <3>2
            <4> QED BY <1>1, <1>4, <4>1
        <3> QED BY <3>1, <3>2
    <2> QED BY <2>2, <2>3 DEF Turn
<1> QED BY <1>3, <1>4 DEF w

\* The choice of some elements keeps their order.
LEMMA TurnOfThose ==
    ASSUME NEW A, NEW s \in Seq(A), NEW S, NEW q \in S, Turn(s, q)
    PROVE  Turn(Those(s, S), q)
<1> DEFINE c == Chosen(s, S)
           T == {k \in 0 .. Len(s) : Turn(Cut(s, k), q) => Turn(c[k], q)}
<1>1. Len(s) \in Nat /\ \A k \in 1 .. Len(s) : s[k] \in A
    BY LenProperties, ElementOfSeq
<1>2. /\ c \in [0 .. Len(s) -> Seq(A)] /\ c[0] = <<>>
      /\ \A k \in 1 .. Len(s) : c[k] = IF s[k] \in S THEN Append(c[k - 1], s[k]) ELSE c[k - 1]
    BY ChosenIs
<1> HIDE DEF c
<1>3. 0 \in T
    <2>1. Len(Cut(s, 0)) = 0 /\ 0 \in 0 .. Len(s)
        BY <1>1, CutIs
    <2>2. ~Turn(Cut(s, 0), q)
        BY <2>1 DEF Turn
    <2> QED BY <2>1, <2>2
<1>4. ASSUME NEW k \in 0 .. Len(s) - 1, k \in T PROVE k + 1 \in T
    <2>1. k + 1 \in 1 .. Len(s) /\ (k + 1) - 1 = k /\ k + 1 \in 0 .. Len(s) /\ k \in 0 .. Len(s)
        BY <1>1
    <2> DEFINE e == s[k + 1]
               z == Cut(s, k)
    <2>2. e \in A /\ z \in Seq(A) /\ c[k] \in Seq(A)
        BY <1>1, <1>2, <2>1, CutIs
    <2>3. Cut(s, k + 1) = Append(z, e)
        BY <2>1, CutOneMore
    <2>4. Turn(z, q) => Turn(c[k], q)
        BY <1>4
    <2>5. c[k + 1] = IF e \in S THEN Append(c[k], e) ELSE c[k]
        BY <1>2, <2>1
    <2> HIDE DEF e, z
    <2>6. Turn(Append(z, e), q) <=> q = e \/ (Turn(z, q) /\ ~Inside(q, e))
        BY <2>2, TurnOfOneMore
    <2>7. Turn(Append(c[k], e), q) <=> q = e \/ (Turn(c[k], q) /\ ~Inside(q, e))
        BY <2>2, TurnOfOneMore
    <2>8. Turn(Cut(s, k + 1), q) => Turn(c[k + 1], q)
        BY <2>3, <2>4, <2>5, <2>6, <2>7, Zenon
    <2> QED BY <2>1, <2>8
<1>5. \A k \in 0 .. Len(s) : k \in T
    <2> HIDE DEF T
    <2> QED BY <1>1, <1>3, <1>4, UpTo
<1>6. Len(s) \in 0 .. Len(s) /\ Cut(s, Len(s)) = s
    <2>1. Len(s) \in 0 .. Len(s)
        BY <1>1
    <2>2. Cut(s, Len(s)) \in Seq(A) /\ Len(Cut(s, Len(s))) = Len(s) /\ \A n \in 1 .. Len(s) : Cut(s, Len(s))[n] = s[n]
        BY <2>1, CutIs
    <2> QED BY <2>1, <2>2, SeqEqual
<1>7. Turn(c[Len(s)], q)
    BY <1>5, <1>6
<1> QED BY <1>7 DEF Those, c

LEMMA PathIs ==
    ASSUME NEW p
    PROVE  p \in Paths <=> p \in Seq(Range(Names)) /\ Len(p) \in 1 .. Depth
<1>1. ASSUME p \in Paths PROVE p \in Seq(Range(Names)) /\ Len(p) \in 1 .. Depth
    <2>1. PICK n \in 1 .. Depth : p \in [1 .. n -> Range(Names)]
        BY <1>1 DEF Paths
    <2>2. n \in Nat
        BY <2>1, TreeAssumption
    <2> QED BY <2>1, <2>2
<1>2. ASSUME p \in Seq(Range(Names)), Len(p) \in 1 .. Depth PROVE p \in Paths
    <2>1. p \in [1 .. Len(p) -> Range(Names)]
        BY <1>2, LenProperties
    <2> QED BY <1>2, <2>1 DEF Paths
<1> QED BY <1>1, <1>2

LEMMA BelowIs ==
    ASSUME NEW A, NEW p \in Seq(A), NEW q \in Seq(A)
    PROVE  Below(p, q) <=> Len(p) <= Len(q) /\ \A k \in 1 .. Len(p) : p[k] = q[k]
<1>1. Len(p) \in Nat /\ Len(q) \in Nat
    BY LenProperties
<1>2. Below(p, q) <=> Len(p) <= Len(q) /\ Cut(p, Len(p)) = Cut(q, Len(p))
    BY DEF Below, IsPrefix, Cut
<1>3. Len(p) \in 0 .. Len(p)
    BY <1>1
<1> DEFINE u == Cut(p, Len(p))
           w == Cut(q, Len(p))
<1>4. u \in Seq(A) /\ Len(u) = Len(p) /\ \A k \in 1 .. Len(p) : u[k] = p[k]
    BY <1>3, CutIs
<1>5. ASSUME Len(p) <= Len(q)
      PROVE  w \in Seq(A) /\ Len(w) = Len(p) /\ \A k \in 1 .. Len(p) : w[k] = q[k]
    <2>1. Len(p) \in 0 .. Len(q)
        BY <1>1, <1>5
    <2> QED BY <2>1, CutIs
<1> HIDE DEF u, w
<1>6. ASSUME Len(p) <= Len(q), \A k \in 1 .. Len(p) : p[k] = q[k] PROVE u = w
    <2>1. \A k \in 1 .. Len(u) : u[k] = w[k]
        BY <1>4, <1>5, <1>6
    <2> QED BY <1>4, <1>5, <1>6, <2>1, SeqEqual
<1>7. ASSUME Len(p) <= Len(q), u = w PROVE \A k \in 1 .. Len(p) : p[k] = q[k]
    BY <1>4, <1>5, <1>7
<1> QED BY <1>2, <1>6, <1>7 DEF u, w

\* A path without its last name.
LEMMA FrontIs ==
    ASSUME NEW A, NEW q \in Seq(A), Len(q) >= 1
    PROVE  /\ Front(q) \in Seq(A) /\ Len(Front(q)) = Len(q) - 1
           /\ \A k \in 1 .. Len(q) - 1 : Front(q)[k] = q[k]
           /\ Front(q) = <<>> <=> Len(q) = 1
           /\ q = Append(Front(q), q[Len(q)]) /\ q[Len(q)] \in A
<1>1. Len(q) \in Nat /\ Len(q) - 1 \in 0 .. Len(q) /\ Len(q) - 1 \in 0 .. Len(q) - 1
    BY LenProperties
<1>2. Front(q) = Cut(q, Len(q) - 1)
    BY DEF Front, Cut
<1>3. /\ Front(q) \in Seq(A) /\ Len(Front(q)) = Len(q) - 1
      /\ \A k \in 1 .. Len(q) - 1 : Front(q)[k] = q[k]
    BY <1>1, <1>2, CutIs
<1>4. Front(q) = <<>> <=> Len(q) = 1
    BY <1>1, <1>3, EmptySeq
<1>5. q[Len(q)] \in A
    BY <1>1, ElementOfSeq
<1>6. q = Append(Front(q), q[Len(q)])
    <2> DEFINE n == Len(q) - 1
    <2>1. n \in 0 .. Len(q) - 1 /\ n + 1 = Len(q)
        BY <1>1
    <2>2. Cut(q, n + 1) = Append(Cut(q, n), q[n + 1])
        <3> HIDE DEF n
        <3> QED BY <2>1, CutOneMore
    <2>3. Cut(q, Len(q)) = q
        <3>1. Len(q) \in 0 .. Len(q)
            BY <1>1
        <3>2. Cut(q, Len(q)) \in Seq(A) /\ Len(Cut(q, Len(q))) = Len(q) /\ \A k \in 1 .. Len(q) : Cut(q, Len(q))[k] = q[k]
            BY <3>1, CutIs
        <3> QED BY <3>2, SeqEqual
    <2> QED BY <1>2, <2>1, <2>2, <2>3
<1> QED BY <1>3, <1>4, <1>5, <1>6

LEMMA FrontOfAppend ==
    ASSUME NEW A, NEW p \in Seq(A), NEW x \in A
    PROVE  Front(Append(p, x)) = p
<1> DEFINE q == Append(p, x)
<1>1. q \in Seq(A) /\ Len(q) = Len(p) + 1 /\ \A k \in 1 .. Len(p) : q[k] = p[k]
    BY AppendRange
<1>2. Len(p) \in Nat
    BY LenProperties
<1> HIDE DEF q
<1>3. /\ Front(q) \in Seq(A) /\ Len(Front(q)) = Len(q) - 1
      /\ \A k \in 1 .. Len(q) - 1 : Front(q)[k] = q[k]
    <2>1. q \in Seq(A) /\ Len(q) >= 1
        BY <1>1, <1>2
    <2> QED BY <2>1, FrontIs
<1>4. Len(Front(q)) = Len(p) /\ \A k \in 1 .. Len(p) : Front(q)[k] = p[k]
    BY <1>1, <1>2, <1>3
<1>5. Front(q) = p
    BY <1>3, <1>4, SeqEqual
<1> QED BY <1>5 DEF q

LEMMA InsideFront ==
    ASSUME NEW A, NEW p \in Seq(A), NEW q \in Seq(A), Len(q) >= 1
    PROVE  Inside(p, q) <=> Below(p, Front(q))
<1>1. Len(p) \in Nat /\ Len(q) \in Nat
    BY LenProperties
<1> DEFINE f == Front(q)
<1>2. f \in Seq(A) /\ Len(f) = Len(q) - 1 /\ \A k \in 1 .. Len(q) - 1 : f[k] = q[k]
    BY FrontIs
<1> HIDE DEF f
<1>3. Below(p, q) <=> Len(p) <= Len(q) /\ \A k \in 1 .. Len(p) : p[k] = q[k]
    BY BelowIs
<1>4. Below(p, f) <=> Len(p) <= Len(f) /\ \A k \in 1 .. Len(p) : p[k] = f[k]
    BY <1>2, BelowIs
<1>5. ASSUME Below(p, q), p # q PROVE Below(p, f)
    <2>1. Len(p) # Len(q)
        BY <1>3, <1>5, SeqEqual
    <2>2. Len(p) <= Len(f) /\ \A k \in 1 .. Len(p) : k \in 1 .. Len(q) - 1
        BY <1>1, <1>2, <1>3, <1>5, <2>1
    <2> QED BY <1>2, <1>3, <1>4, <1>5, <2>2
<1>6. ASSUME Below(p, f) PROVE Below(p, q) /\ p # q
    <2>1. Len(p) <= Len(q) - 1 /\ \A k \in 1 .. Len(p) : p[k] = f[k] /\ k \in 1 .. Len(q) - 1
        BY <1>1, <1>2, <1>4, <1>6
    <2>2. p # q
        BY <1>1, <2>1
    <2>3. Len(p) <= Len(q) /\ \A k \in 1 .. Len(p) : p[k] = q[k]
        BY <1>1, <1>2, <2>1
    <2> QED BY <1>3, <2>2, <2>3
<1> QED BY <1>5, <1>6 DEF Inside, f

LEMMA BelowOrder ==
    ASSUME NEW A, NEW p \in Seq(A), NEW q \in Seq(A), NEW r \in Seq(A)
    PROVE  /\ Below(p, p)
           /\ Below(p, q) /\ Below(q, r) => Below(p, r)
           /\ Below(p, r) /\ Below(q, r) /\ Len(p) <= Len(q) => Below(p, q)
           /\ Inside(p, q) => Len(p) < Len(q)
<1>1. Len(p) \in Nat /\ Len(q) \in Nat /\ Len(r) \in Nat
    BY LenProperties
<1>2. /\ Below(p, p) <=> Len(p) <= Len(p) /\ \A k \in 1 .. Len(p) : p[k] = p[k]
      /\ Below(p, q) <=> Len(p) <= Len(q) /\ \A k \in 1 .. Len(p) : p[k] = q[k]
      /\ Below(q, r) <=> Len(q) <= Len(r) /\ \A k \in 1 .. Len(q) : q[k] = r[k]
      /\ Below(p, r) <=> Len(p) <= Len(r) /\ \A k \in 1 .. Len(p) : p[k] = r[k]
    BY BelowIs
<1>3. Below(p, p)
    BY <1>1, <1>2
<1>4. Below(p, q) /\ Below(q, r) => Below(p, r)
    BY <1>1, <1>2
<1>5. Below(p, r) /\ Below(q, r) /\ Len(p) <= Len(q) => Below(p, q)
    BY <1>1, <1>2
<1>6. Inside(p, q) => Len(p) < Len(q)
    <2>1. ASSUME Below(p, q), p # q PROVE Len(p) # Len(q)
        BY <1>2, <2>1, SeqEqual
    <2> QED BY <1>1, <1>2, <2>1 DEF Inside
<1> QED BY <1>3, <1>4, <1>5, <1>6

\* The paths on the way to one that is there are directories.
LEMMA OnTheWay ==
    ASSUME NEW t, Stands(t), NEW q \in DOMAIN t, NEW p \in Paths, Inside(p, q)
    PROVE  /\ p \in DOMAIN t /\ t[p] = "dir"
           /\ \E c \in DOMAIN t : Front(c) = p /\ Below(c, q)
<1> DEFINE A == Range(Names)
           Way(u) == p \in DOMAIN t /\ t[p] = "dir" /\ \E c \in DOMAIN t : Front(c) = p /\ Below(c, u)
           T == {n \in 0 .. Depth : \A u \in DOMAIN t : Len(u) <= n /\ Inside(p, u) => Way(u)}
<1>1. Depth \in Nat /\ p \in Seq(A) /\ Len(p) >= 1 /\ Len(p) \in Nat
    BY TreeAssumption, PathIs, LenProperties
<1>2. \A u \in DOMAIN t : u \in Seq(A) /\ Len(u) \in 1 .. Depth /\ IsDir(t, Front(u))
    BY PathIs DEF Stands
<1> HIDE DEF A
<1>3. 0 \in T
    <2>1. \A u \in DOMAIN t : ~(Len(u) <= 0)
        BY <1>1, <1>2
    <2> QED BY <1>1, <2>1
<1>4. ASSUME NEW n \in 0 .. Depth - 1, n \in T PROVE n + 1 \in T
    <2>1. n + 1 \in 0 .. Depth /\ n \in 0 .. Depth
        BY <1>1
    <2>2. ASSUME NEW u \in DOMAIN t, Len(u) <= n + 1, Inside(p, u) PROVE Way(u)
        <3> DEFINE f == Front(u)
        <3>1. u \in Seq(A) /\ Len(u) \in Nat /\ Len(u) >= 1
            BY <1>1, <1>2
        <3>2. /\ f \in Seq(A) /\ Len(f) = Len(u) - 1
              /\ (f = <<>> <=> Len(u) = 1) /\ Below(p, f) /\ (f = <<>> \/ (f \in DOMAIN t /\ t[f] = "dir"))
            <4>1. IsDir(t, f)
                BY <1>2
            <4>2. Below(p, f)
                BY <1>1, <2>2, <3>1, InsideFront
            <4>3. f \in Seq(A) /\ Len(f) = Len(u) - 1 /\ (f = <<>> <=> Len(u) = 1)
                BY <3>1, FrontIs
            <4> QED BY <4>1, <4>2, <4>3 DEF IsDir, There
        <3> HIDE DEF f
        <3>3. Below(p, f) <=> Len(p) <= Len(f) /\ \A k \in 1 .. Len(p) : p[k] = f[k]
            BY <1>1, <3>2, BelowIs
        <3>4. f \in DOMAIN t /\ t[f] = "dir"
            BY <1>1, <3>1, <3>2, <3>3
        <3>5. CASE f = p
            <4>1. Below(u, u)
                BY <3>1, BelowOrder
            <4> QED BY <3>4, <3>5, <4>1 DEF f
        <3>6. CASE f # p
            <4>1. Inside(p, f) /\ Len(f) <= n
                BY <3>1, <3>2, <2>2, <3>6 DEF Inside
            <4>2. Way(f)
                BY <1>4, <3>4, <4>1
            <4>3. PICK c \in DOMAIN t : Front(c) = p /\ Below(c, f)
                BY <4>2
            <4>4. Inside(c, u)
                BY <1>2, <3>1, <4>3, InsideFront DEF f
            <4>5. Below(c, u)
                BY <4>4 DEF Inside
            <4> QED BY <4>2, <4>3, <4>5
        <3> QED BY <3>5, <3>6
    <2> QED BY <2>1, <2>2
<1>5. \A n \in 0 .. Depth : n \in T
    <2> HIDE DEF T
    <2> QED BY <1>1, <1>3, <1>4, UpTo
<1>6. Depth \in 0 .. Depth /\ Len(q) <= Depth
    BY <1>1, <1>2
<1>7. Way(q)
    BY <1>5, <1>6
<1> QED BY <1>7

LEMMA ChildrenAre ==
    ASSUME NEW t, Stands(t), NEW p \in Paths
    PROVE  /\ Children(t, p) \in Seq(DOMAIN t)
           /\ Range(Children(t, p)) = {c \in DOMAIN t : Front(c) = p}
<1> DEFINE A == Range(Names)
           s == [m \in DOMAIN Names |-> Append(p, Names[m])]
           d == Those(s, DOMAIN t)
<1>1. p \in Seq(A) /\ Names \in Seq(A)
    BY PathIs, TreeAssumption
<1>2. \A u \in DOMAIN t : u \in Seq(A) /\ Len(u) >= 1
    <2>1. \A u \in DOMAIN t : u \in Seq(A) /\ Len(u) \in 1 .. Depth
        BY PathIs DEF Stands
    <2> QED BY <2>1, TreeAssumption
<1>3. Len(Names) \in Nat /\ DOMAIN Names = 1 .. Len(Names) /\ A = {Names[m] : m \in 1 .. Len(Names)}
    BY <1>1, LenProperties, RangeEquality
<1>4. \A m \in 1 .. Len(Names) : Names[m] \in A
    BY <1>3
<1> HIDE DEF A
<1>5. s \in Seq(Seq(A)) /\ Len(s) = Len(Names) /\ \A m \in 1 .. Len(Names) : s[m] = Append(p, Names[m])
    <2>1. \A m \in 1 .. Len(Names) : Append(p, Names[m]) \in Seq(A)
        BY <1>1, <1>4, AppendRange
    <2> QED BY <1>3, <2>1
<1> HIDE DEF s
<1>6. d \in Seq(Seq(A)) /\ Range(d) = Range(s) \cap DOMAIN t /\ Range(s) = {s[m] : m \in 1 .. Len(s)}
    BY <1>5, ThoseAre, RangeEquality
<1> HIDE DEF d
<1>7. d \in Seq(DOMAIN t)
    <2>1. Len(d) \in Nat /\ d \in [1 .. Len(d) -> Seq(A)] /\ Range(d) = {d[m] : m \in 1 .. Len(d)}
        BY <1>6, LenProperties, RangeEquality
    <2>2. \A m \in 1 .. Len(d) : d[m] \in DOMAIN t
        BY <1>6, <2>1
    <2> QED BY <2>1, <2>2
<1>8. ASSUME NEW c \in Range(d) PROVE c \in DOMAIN t /\ Front(c) = p
    <2>1. PICK m \in 1 .. Len(s) : c = s[m] /\ c \in DOMAIN t
        BY <1>6
    <2>2. c = Append(p, Names[m]) /\ Names[m] \in A
        BY <1>4, <1>5, <2>1
    <2> QED BY <1>1, <2>1, <2>2, FrontOfAppend
<1>9. ASSUME NEW c \in DOMAIN t, Front(c) = p PROVE c \in Range(d)
    <2>1. c = Append(p, c[Len(c)]) /\ c[Len(c)] \in A
        BY <1>2, <1>9, FrontIs
    <2>2. PICK m \in 1 .. Len(Names) : c[Len(c)] = Names[m]
        BY <1>3, <2>1
    <2>3. c = s[m] /\ m \in 1 .. Len(s)
        BY <1>5, <2>1, <2>2
    <2> QED BY <1>6, <2>3
<1> QED BY <1>7, <1>8, <1>9 DEF Children, d, s

\* What is recorded of a path, from what is recorded of the paths in it.
Record(t, r, p) ==
    IF t[p] # "dir" THEN <<p>>
    ELSE LET c == Children(t, p)
         IN <<p>> \o join([m \in DOMAIN c |-> r[c[m]]], <<>>) \o <<p>>

LEMMA RecordType ==
    ASSUME NEW t, Stands(t), NEW r \in [DOMAIN t -> Seq(DOMAIN t)], NEW p \in DOMAIN t
    PROVE  /\ Record(t, r, p) \in Seq(DOMAIN t)
           /\ LET c == Children(t, p)  w == [m \in DOMAIN c |-> r[c[m]]]
              IN /\ w \in Seq(Seq(DOMAIN t)) /\ Len(w) = Len(c) /\ \A m \in 1 .. Len(c) : w[m] = r[c[m]]
                 /\ join(w, <<>>) \in Seq(DOMAIN t)
<1> DEFINE D == DOMAIN t
           c == Children(t, p)
           w == [m \in DOMAIN c |-> r[c[m]]]
<1>1. p \in Paths
    BY DEF Stands
<1>2. c \in Seq(D)
    BY <1>1, ChildrenAre
<1> HIDE DEF c
<1>3. Len(c) \in Nat /\ DOMAIN c = 1 .. Len(c) /\ \A m \in 1 .. Len(c) : c[m] \in D
    BY <1>2, LenProperties, ElementOfSeq
<1>4. w \in Seq(Seq(D)) /\ Len(w) = Len(c) /\ \A m \in 1 .. Len(c) : w[m] = r[c[m]]
    <2>1. \A m \in 1 .. Len(c) : r[c[m]] \in Seq(D)
        BY <1>3
    <2> QED BY <1>3, <2>1
<1> HIDE DEF w
<1>5. join(w, <<>>) \in Seq(D)
    <2>1. <<>> \in Seq(D)
        OBVIOUS
    <2> QED BY <1>4, <2>1, JoinType
<1>6. <<p>> \o join(w, <<>>) \o <<p>> \in Seq(D)
    <2>1. <<p>> \in Seq(D)
        OBVIOUS
    <2>2. <<p>> \o join(w, <<>>) \in Seq(D)
        BY <1>5, <2>1, JoinedIs
    <2> QED BY <2>1, <2>2, JoinedIs
<1>7. Record(t, r, p) \in Seq(D)
    <2>1. <<p>> \in Seq(D)
        OBVIOUS
    <2>2. Record(t, r, p) = IF t[p] # "dir" THEN <<p>> ELSE <<p>> \o join(w, <<>>) \o <<p>>
        BY DEF Record, w, c
    <2> QED BY <1>6, <2>1, <2>2
<1> QED BY <1>4, <1>5, <1>7 DEF c, w

LEMMA VisitsAre ==
    ASSUME NEW t, Stands(t)
    PROVE  /\ Visits(t) \in [0 .. Depth -> [DOMAIN t -> Seq(DOMAIN t)]]
           /\ Visits(t)[0] = [p \in DOMAIN t |-> <<>>]
           /\ \A k \in 1 .. Depth : Visits(t)[k] = [p \in DOMAIN t |-> Record(t, Visits(t)[k - 1], p)]
<1> DEFINE D == DOMAIN t
           St == [D -> Seq(D)]
           b == [p \in D |-> <<>>]
           Step(r) == [p \in D |-> Record(t, r, p)]
           F == [q \in St \X Nat |-> Step(q[1])]
<1>1. Depth \in Nat
    BY TreeAssumption
<1>2. ASSUME NEW r \in St PROVE Step(r) \in St
    BY RecordType
<1>3. b \in St
    OBVIOUS
<1> HIDE DEF Step, St, b
<1>4. F \in [St \X Nat -> St]
    BY <1>2
<1>5. PICK g : Along(g, St, F, b, Depth)
    <2> HIDE DEF F
    <2> QED BY <1>1, <1>3, <1>4, AlongNumbers
<1>6. /\ g \in [0 .. Depth -> St] /\ g[0] = b
      /\ \A k \in 1 .. Depth : g[k] = F[<<g[k - 1], k>>]
    BY <1>5 DEF Along
<1>7. ASSUME NEW k \in 1 .. Depth PROVE g[k] = Step(g[k - 1])
    <2>1. k - 1 \in 0 .. Depth /\ g[k - 1] \in St /\ k \in Nat
        <3>1. k - 1 \in 0 .. Depth /\ k \in Nat
            BY <1>1
        <3> QED BY <1>6, <3>1
    <2>2. F[<<g[k - 1], k>>] = Step(g[k - 1])
        BY <2>1
    <2> QED BY <1>6, <2>2
<1> HIDE DEF F
<1>8. g = [k \in 0 .. Depth |-> IF k = 0 THEN b ELSE Step(g[k - 1])]
    <2>1. ASSUME NEW k \in 0 .. Depth PROVE g[k] = IF k = 0 THEN b ELSE Step(g[k - 1])
        <3>1. k = 0 \/ k \in 1 .. Depth
            BY <1>1
        <3> QED BY <1>6, <1>7, <3>1
    <2> QED BY <1>6, <2>1
<1> DEFINE c == Visits(t)
<1>9. c = [k \in 0 .. Depth |-> IF k = 0 THEN b ELSE Step(c[k - 1])]
    BY <1>8, Zenon DEF Visits, Record, Step, b
<1> HIDE DEF c
<1>10. c[0] = b /\ \A k \in 1 .. Depth : c[k] = Step(c[k - 1])
    <2>1. \A k \in 0 .. Depth : c[k] = IF k = 0 THEN b ELSE Step(c[k - 1])
        BY <1>9, Zenon
    <2>2. 0 \in 0 .. Depth /\ \A k \in 1 .. Depth : k \in 0 .. Depth /\ k # 0
        BY <1>1
    <2> QED BY <2>1, <2>2, Zenon
<1>11. c \in [0 .. Depth -> St]
    <2> DEFINE T == {k \in 0 .. Depth : c[k] \in St}
    <2>1. 0 \in T
        BY <1>1, <1>3, <1>10
    <2>2. ASSUME NEW k \in 0 .. Depth - 1, k \in T PROVE k + 1 \in T
        <3>1. k + 1 \in 1 .. Depth /\ k + 1 \in 0 .. Depth /\ (k + 1) - 1 = k
            BY <1>1
        <3>2. c[k + 1] = Step(c[k])
            BY <1>10, <3>1
        <3> QED BY <1>2, <2>2, <3>1, <3>2
    <2>3. \A k \in 0 .. Depth : k \in T
        <3> HIDE DEF T
        <3> QED BY <1>1, <2>1, <2>2, UpTo
    <2> QED BY <1>9, <2>3
<1> QED BY <1>10, <1>11, Zenon DEF c, Step, St, b

\* s has what lies below p, everything in its turn.
Visited(t, p, s) ==
    /\ s \in Seq(DOMAIN t) /\ Range(s) = {q \in DOMAIN t : Below(p, q)}
    /\ \A q \in DOMAIN t : Below(p, q) => Turn(s, q)

\* The directories of one level, one after the other.
LEMMA JoinedTurns ==
    ASSUME NEW t, Stands(t), NEW n \in Nat, NEW c \in Seq(DOMAIN t),
           NEW w \in Seq(Seq(DOMAIN t)), Len(w) = Len(c),
           \A m \in 1 .. Len(c) : Len(c[m]) = n /\ Visited(t, c[m], w[m])
    PROVE  LET s == join(w, <<>>) IN
           /\ s \in Seq(DOMAIN t)
           /\ Range(s) = {q \in DOMAIN t : \E m \in 1 .. Len(c) : Below(c[m], q)}
           /\ \A q \in DOMAIN t, m \in 1 .. Len(c) : Below(c[m], q) => Turn(s, q)
<1> DEFINE D == DOMAIN t
           A == Range(Names)
           J == Joins(w, <<>>)
           Of(k) == {q \in D : \E m \in 1 .. k : Below(c[m], q)}
           T == {k \in 0 .. Len(c) : Range(J[k]) = Of(k) /\ \A q \in Of(k) : Turn(J[k], q)}
<1>1. Len(c) \in Nat /\ \A m \in 1 .. Len(c) : c[m] \in D /\ w[m] \in Seq(D)
    BY LenProperties, ElementOfSeq
<1>2. \A q \in D : q \in Seq(A)
    BY PathIs DEF Stands
<1>3. /\ J \in [0 .. Len(c) -> Seq(D)] /\ J[0] = <<>>
      /\ \A k \in 1 .. Len(c) : J[k] = J[k - 1] \o (IF k = 1 THEN <<>> ELSE <<>>) \o w[k]
    <2>1. <<>> \in Seq(D)
        OBVIOUS
    <2>2. ASSUME NEW z \in Seq(D)
          PROVE  /\ Joins(w, z) \in [0 .. Len(w) -> Seq(D)] /\ Joins(w, z)[0] = <<>>
                 /\ \A k \in 1 .. Len(w) : Joins(w, z)[k] = Joins(w, z)[k - 1] \o (IF k = 1 THEN <<>> ELSE z) \o w[k]
        BY JoinsAre, ZenonT(60)
    <2> HIDE DEF D
    <2> QED BY <2>1, <2>2, Zenon DEF J
<1> HIDE DEF D, A, J
<1>4. 0 \in T
    <2>1. Range(J[0]) = {} /\ Of(0) = {}
        <3>1. Range(<<>>) = {}
            BY DEF Range
        <3>2. 1 .. 0 = {}
            OBVIOUS
        <3> QED BY <1>3, <3>1, <3>2
    <2> QED BY <1>1, <2>1
<1>5. ASSUME NEW k \in 0 .. Len(c) - 1, k \in T PROVE k + 1 \in T
    <2>1. k + 1 \in 1 .. Len(c) /\ (k + 1) - 1 = k /\ k + 1 \in 0 .. Len(c) /\ k \in 0 .. Len(c)
        BY <1>1
    <2> DEFINE d == c[k + 1]
               u == w[k + 1]
               s == J[k]
    <2>2. s \in Seq(D) /\ u \in Seq(D) /\ d \in D /\ Len(d) = n /\ Visited(t, d, u)
        BY <1>1, <1>3, <2>1
    <2>3. J[k + 1] = s \o u
        <3>1. J[k + 1] = s \o <<>> \o u
            BY <1>3, <2>1, Zenon
        <3>2. s \o <<>> = s
            BY <2>2, ConcatEmptySeq
        <3> QED BY <3>1, <3>2, Zenon
    <2>4. Range(s) = Of(k) /\ \A q \in Of(k) : Turn(s, q)
        BY <1>5
    <2>5. Of(k + 1) = Of(k) \cup {q \in D : Below(d, q)}
        <3>1. 1 .. k + 1 = (1 .. k) \cup {k + 1}
            BY <2>1
        <3> QED BY <3>1
    <2>6. \A m \in 1 .. k : c[m] \in D /\ Len(c[m]) = n
        <3>1. \A m \in 1 .. k : m \in 1 .. Len(c)
            BY <1>1
        <3> QED BY <1>1, <3>1
    <2>7. Range(u) = {q \in D : Below(d, q)} /\ \A q \in D : Below(d, q) => Turn(u, q)
        BY <2>2 DEF Visited, D
    <2> HIDE DEF d, u, s
    <2>8. Range(s \o u) = Range(s) \cup Range(u)
        BY <2>2, RangeConcatenation
    <2>9. ASSUME NEW q \in Of(k), ~Below(d, q), NEW m \in 1 .. Len(u) PROVE ~Inside(q, u[m])
        <3>1. PICK e \in D : Len(e) = n /\ Below(e, q)
            BY <2>6
        <3>2. u[m] \in D /\ Below(d, u[m])
            <4>1. u[m] \in Range(u)
                BY <2>2, RangeEquality
            <4> QED BY <2>7, <4>1
        <3>3. q \in Seq(A) /\ e \in Seq(A) /\ d \in Seq(A) /\ u[m] \in Seq(A)
            BY <1>2, <2>2, <3>1, <3>2
        <3>4. ASSUME Below(q, u[m]) PROVE FALSE
            <4>1. Len(e) <= Len(q) /\ Len(q) \in Nat
                BY <3>1, <3>3, BelowIs, LenProperties
            <4>2. Len(d) <= Len(q)
                BY <2>2, <3>1, <4>1
            <4> DEFINE x == u[m]
            <4>3. x \in Seq(A) /\ Below(d, x) /\ Below(q, x)
                BY <3>2, <3>3, <3>4
            <4> HIDE DEF x
            <4>4. Below(d, q)
                BY <3>3, <4>2, <4>3, BelowOrder
            <4> QED BY <2>9, <4>4
        <3> QED BY <3>4 DEF Inside
    <2>10. ASSUME NEW q \in Of(k + 1) PROVE Turn(s \o u, q)
        <3>1. CASE q \in D /\ Below(d, q)
            <4>1. Turn(u, q)
                BY <2>7, <3>1
            <4> QED BY <2>2, <4>1, TurnOfJoined
        <3>2. CASE q \in Of(k) /\ ~Below(d, q)
            <4>1. Turn(s, q) /\ \A m \in 1 .. Len(u) : ~Inside(q, u[m])
                BY <2>4, <2>9, <3>2
            <4> QED BY <2>2, <4>1, TurnOfJoined
        <3>3. q \in Of(k) \/ (q \in D /\ Below(d, q))
            BY <2>5
        <3> QED BY <3>1, <3>2, <3>3
    <2>11. Range(J[k + 1]) = Of(k + 1)
        BY <2>3, <2>4, <2>5, <2>7, <2>8
    <2> QED BY <2>1, <2>3, <2>10, <2>11
<1>6. \A k \in 0 .. Len(c) : k \in T
    <2> HIDE DEF T
    <2> QED BY <1>1, <1>4, <1>5, UpTo
<1>7. Len(c) \in 0 .. Len(c) /\ J[Len(c)] \in Seq(D)
    BY <1>1, <1>3, SMTT(40)
<1>8. join(w, <<>>) = J[Len(c)]
    BY DEF join, J
<1>9. J[Len(c)] \in Seq(D) /\ Range(J[Len(c)]) = Of(Len(c)) /\ \A q \in Of(Len(c)) : Turn(J[Len(c)], q)
    BY <1>6, <1>7
<1> QED BY <1>8, <1>9 DEF D

\* fstree records a tree.
LEMMA VisitIs ==
    ASSUME NEW t, Stands(t), NEW p \in DOMAIN t
    PROVE  Visited(t, p, Visit(t, p))
<1> DEFINE D == DOMAIN t
           A == Range(Names)
           v == Visits(t)
           T == {n \in 0 .. Depth : \A u \in D : Len(u) + n > Depth => Visited(t, u, v[n][u])}
<1>1. Depth \in Nat /\ \A u \in D : u \in Paths /\ u \in Seq(A) /\ Len(u) \in Nat /\ Len(u) >= 1 /\ Len(u) <= Depth
    <2>1. \A u \in D : u \in Paths /\ u \in Seq(A) /\ Len(u) \in 1 .. Depth
        BY PathIs DEF Stands
    <2> QED BY <2>1, TreeAssumption
<1>2. /\ v \in [0 .. Depth -> [D -> Seq(D)]]
      /\ \A k \in 1 .. Depth : v[k] = [u \in D |-> Record(t, v[k - 1], u)]
    BY VisitsAre
<1> HIDE DEF v, D, A
<1>3. 0 \in T
    BY <1>1
<1>4. ASSUME NEW n \in 0 .. Depth - 1, n \in T PROVE n + 1 \in T
    <2>1. n + 1 \in 1 .. Depth /\ (n + 1) - 1 = n /\ n + 1 \in 0 .. Depth /\ n \in 0 .. Depth /\ n \in Nat
        BY <1>1
    <2>2. ASSUME NEW u \in D, Len(u) + (n + 1) > Depth PROVE Visited(t, u, v[n + 1][u])
        <3> DEFINE r == v[n]
        <3>1. r \in [D -> Seq(D)] /\ v[n + 1][u] = Record(t, r, u)
            <4>1. r \in [D -> Seq(D)]
                BY <1>2, <2>1
            <4>2. v[n + 1] = [e \in D |-> Record(t, v[(n + 1) - 1], e)]
                BY <1>2, <2>1, Zenon
            <4>3. v[n + 1] = [e \in D |-> Record(t, v[n], e)]
                BY <2>1, <4>2, Zenon
            <4>4. v[n + 1][u] = Record(t, v[n], u)
                BY <4>3, Zenon
            <4> QED BY <4>1, <4>4
        <3>2. \A e \in D : Len(e) + n > Depth => Visited(t, e, r[e])
            BY <1>4
        <3> HIDE DEF r
        <3>3. u \in Paths /\ u \in Seq(A) /\ Len(u) \in Nat /\ Len(u) >= 1 /\ <<u>> \in Seq(D)
              /\ Len(<<u>>) = 1 /\ <<u>>[1] = u /\ Range(<<u>>) = {u}
            <4>1. Range(<<u>>) = {u}
                BY DEF Range
            <4> QED BY <1>1, <4>1
        <3>4. ASSUME NEW q \in D, Below(u, q) PROVE ~Inside(q, u)
            <4>1. q \in Seq(A) /\ Len(q) \in Nat
                BY <1>1
            <4>2. Len(u) <= Len(q)
                BY <3>3, <3>4, <4>1, BelowIs
            <4>3. Inside(q, u) => Len(q) < Len(u)
                BY <3>3, <4>1, BelowOrder
            <4> QED BY <3>3, <4>1, <4>2, <4>3
        <3>5. Below(u, u) /\ Turn(<<u>>, u)
            <4>1. Below(u, u)
                BY <3>3, BelowOrder
            <4>2. 1 \in 1 .. Len(<<u>>) /\ 1 + 1 .. Len(<<u>>) = {}
                BY <3>3
            <4> QED BY <3>3, <4>1, <4>2 DEF Turn
        <3>6. CASE t[u] # "dir"
            <4>1. \A q \in D : Below(u, q) => q = u
                BY <3>3, <3>6, OnTheWay DEF Inside, D
            <4>2. Record(t, r, u) = <<u>>
                BY <3>6 DEF Record
            <4>3. {q \in D : Below(u, q)} = {u}
                BY <3>5, <4>1
            <4>4. Visited(t, u, <<u>>)
                BY <3>3, <3>5, <4>1, <4>3 DEF Visited, D
            <4> QED BY <3>1, <4>2, <4>4
        <3>7. CASE t[u] = "dir"
            <4> DEFINE c == Children(t, u)
                       w == [m \in DOMAIN c |-> r[c[m]]]
                       s == join(w, <<>>)
            <4>1. c \in Seq(D) /\ Range(c) = {e \in D : Front(e) = u}
                BY <3>3, ChildrenAre DEF D
            <4>2. /\ w \in Seq(Seq(D)) /\ Len(w) = Len(c) /\ \A m \in 1 .. Len(c) : w[m] = r[c[m]]
                BY <3>1, RecordType, SMTT(40) DEF D
            <4>3. Record(t, r, u) = <<u>> \o s \o <<u>>
                BY <3>7 DEF Record
            <4> HIDE DEF c, w
            <4>4. Len(c) \in Nat /\ Range(c) = {c[m] : m \in 1 .. Len(c)} /\ Len(u) + 1 \in Nat
                BY <3>3, <4>1, LenProperties, RangeEquality
            <4>5. ASSUME NEW m \in 1 .. Len(c)
                  PROVE  c[m] \in D /\ Len(c[m]) = Len(u) + 1 /\ Visited(t, c[m], w[m]) /\ Inside(u, c[m])
                <5>1. c[m] \in D /\ Front(c[m]) = u
                    BY <4>1, <4>4
                <5> DEFINE e == c[m]
                <5>2. e \in D /\ Front(e) = u /\ e \in Seq(A) /\ Len(e) \in Nat /\ Len(e) >= 1
                    BY <1>1, <5>1
                <5>3. w[m] = r[e]
                    BY <4>2
                <5> HIDE DEF e
                <5>4. Len(Front(e)) = Len(e) - 1
                    BY <5>2, FrontIs
                <5>5. Len(e) = Len(u) + 1
                    BY <3>3, <5>2, <5>4
                <5>6. Len(e) + n > Depth
                    BY <1>1, <2>1, <2>2, <3>3, <5>5
                <5>7. Visited(t, e, r[e])
                    BY <3>2, <5>2, <5>6
                <5>8. Inside(u, e)
                    <6>1. Below(u, Front(e))
                        BY <3>5, <5>2
                    <6> QED BY <3>3, <5>2, <6>1, InsideFront
                <5> QED BY <5>2, <5>3, <5>5, <5>7, <5>8 DEF e
            <4>6. /\ s \in Seq(D)
                  /\ Range(s) = {q \in D : \E m \in 1 .. Len(c) : Below(c[m], q)}
                  /\ \A q \in D, m \in 1 .. Len(c) : Below(c[m], q) => Turn(s, q)
                BY <4>1, <4>2, <4>4, <4>5, JoinedTurns DEF D
            <4> HIDE DEF s
            <4>7. ASSUME NEW q \in D, Below(u, q), q # u PROVE \E m \in 1 .. Len(c) : Below(c[m], q)
                <5>1. PICK e \in D : Front(e) = u /\ Below(e, q)
                    BY <3>3, <4>7, OnTheWay DEF Inside, D
                <5> QED BY <4>1, <4>4, <5>1
            <4>8. ASSUME NEW q \in D, NEW m \in 1 .. Len(c), Below(c[m], q) PROVE Below(u, q)
                <5> DEFINE e == c[m]
                <5>1. e \in Seq(A) /\ q \in Seq(A) /\ Below(u, e) /\ Below(e, q)
                    BY <1>1, <4>5, <4>8 DEF Inside
                <5> HIDE DEF e
                <5> QED BY <3>3, <5>1, BelowOrder
            <4> DEFINE z == <<u>> \o s
            <4>9. z \in Seq(D) /\ Range(z) = {u} \cup Range(s)
                  /\ \A q : Turn(s, q) => Turn(z, q)
                <5>1. z \in Seq(D)
                    BY <3>3, <4>6, JoinedIs
                <5>2. Range(z) = Range(<<u>>) \cup Range(s)
                    <6>1. <<u>> \in Seq(D) /\ s \in Seq(D)
                        BY <3>3, <4>6
                    <6> QED BY <6>1, RangeConcatenation, ZenonT(40)
                <5>3. \A q : Turn(s, q) => Turn(z, q)
                    BY <3>3, <4>6, TurnOfJoined
                <5> QED BY <3>3, <5>1, <5>2, <5>3
            <4> HIDE DEF z
            <4> DEFINE y == z \o <<u>>
            <4>10. y \in Seq(D) /\ Range(y) = {u} \cup Range(s)
                   /\ \A q : q = u \/ (Turn(z, q) /\ ~Inside(q, u)) => Turn(y, q)
                <5>1. y \in Seq(D)
                    BY <3>3, <4>9, JoinedIs
                <5>2. Range(y) = Range(z) \cup Range(<<u>>)
                    <6>1. <<u>> \in Seq(D) /\ z \in Seq(D)
                        BY <3>3, <4>9
                    <6> QED BY <6>1, RangeConcatenation, ZenonT(40)
                <5>3. ASSUME NEW q PROVE /\ Turn(<<u>>, q) => Turn(y, q)
                                         /\ Turn(z, q) /\ (\A m \in 1 .. Len(<<u>>) : ~Inside(q, <<u>>[m])) => Turn(y, q)
                    BY <3>3, <4>9, TurnOfJoined
                <5>4. \A m \in 1 .. Len(<<u>>) : <<u>>[m] = u
                    BY <3>3
                <5> QED BY <3>3, <3>5, <4>9, <5>1, <5>2, <5>3, <5>4
            <4>11. Record(t, r, u) = y
                BY <4>3 DEF y, z
            <4> HIDE DEF y
            <4>12. {q \in D : Below(u, q)} = {u} \cup Range(s)
                BY <3>5, <4>6, <4>7, <4>8
            <4>13. ASSUME NEW q \in D, Below(u, q) PROVE Turn(y, q)
                <5>1. CASE q = u
                    BY <4>10, <5>1
                <5>2. CASE q # u
                    <6>1. Turn(s, q)
                        BY <4>6, <4>7, <4>13, <5>2
                    <6> QED BY <3>4, <4>9, <4>10, <4>13, <6>1
                <5> QED BY <5>1, <5>2
            <4>14. Visited(t, u, y)
                BY <4>10, <4>12, <4>13 DEF Visited, D
            <4> QED BY <3>1, <4>11, <4>14
        <3> QED BY <3>6, <3>7
    <2> QED BY <2>1, <2>2
<1>5. \A n \in 0 .. Depth : n \in T
    <2> HIDE DEF T
    <2> QED BY <1>1, <1>3, <1>4, UpTo
<1>6. Depth \in 0 .. Depth /\ p \in D /\ Len(p) + Depth > Depth
    <2>1. p \in D
        BY DEF D
    <2> QED BY <1>1, <2>1
<1>7. Visited(t, p, v[Depth][p])
    BY <1>5, <1>6
<1> QED BY <1>7 DEF Visit, v

\* The trees that stand, as a set.
Standing == {t \in UNION {[D -> Types] : D \in SUBSET Paths} : Stands(t)}

LEMMA StandingIs ==
    ASSUME NEW t
    PROVE  t \in Standing <=> Stands(t)
BY DEF Standing, Stands

\* remove(3) takes away a path that nothing is in, and leaves the others as they are.
LEMMA RemovedPathStands ==
    ASSUME NEW t, Stands(t), NEW p
    PROVE  LET u == RemovePath(t, p) IN
           /\ Stands(u)
           /\ \/ u = t
              \/ /\ DOMAIN u = DOMAIN t \ {p} /\ \A q \in DOMAIN u : u[q] = t[q]
           /\ (\A q \in DOMAIN t : Front(q) # p) => p \notin DOMAIN u
<1> DEFINE u == RemovePath(t, p)
           D == DOMAIN t
<1>1. CASE ~There(t, p) \/ \E q \in D : Front(q) = p
    <2>1. u = t
        BY <1>1 DEF RemovePath
    <2> HIDE DEF u
    <2>2. (\A q \in D : Front(q) # p) => p \notin DOMAIN u
        BY <1>1, <2>1 DEF There
    <2> QED BY <2>1, <2>2 DEF u
<1>2. CASE There(t, p) /\ \A q \in D : Front(q) # p
    <2>1. u = [q \in D \ {p} |-> t[q]]
        BY <1>2 DEF RemovePath, Without
    <2> HIDE DEF u
    <2>2. DOMAIN u = D \ {p} /\ \A q \in DOMAIN u : u[q] = t[q]
        BY <2>1
    <2>3. Stands(u)
        <3>1. D \subseteq Paths /\ t \in [D -> Types] /\ \A q \in D : IsDir(t, Front(q))
            BY DEF Stands
        <3>2. u \in [DOMAIN u -> Types] /\ DOMAIN u \subseteq Paths
            BY <2>1, <3>1
        <3>3. ASSUME NEW q \in DOMAIN u PROVE IsDir(u, Front(q))
            <4>1. IsDir(t, Front(q)) /\ Front(q) # p
                BY <1>2, <2>2, <3>1
            <4> QED BY <2>2, <4>1 DEF IsDir, There
        <3> QED BY <3>2, <3>3 DEF Stands
    <2> QED BY <2>2, <2>3 DEF u
<1>3. (There(t, p) /\ \A q \in D : Front(q) # p) \/ (~There(t, p) \/ \E q \in D : Front(q) = p)
    OBVIOUS
<1> QED BY <1>1, <1>2, <1>3

\* A new path, in a directory that is there.
LEMMA PlacedStands ==
    ASSUME NEW t, Stands(t), NEW p \in Paths, NEW type \in Types
    PROVE  Stands(Place(t, p, type))
<1> DEFINE u == Place(t, p, type)
           D == DOMAIN t
<1>1. CASE There(t, p) \/ ~IsDir(t, Front(p))
    BY <1>1 DEF Place
<1>2. CASE ~There(t, p) /\ IsDir(t, Front(p))
    <2>1. u = [q \in D \cup {p} |-> IF q = p THEN type ELSE t[q]]
        BY <1>2 DEF Place
    <2> HIDE DEF u
    <2>2. D \subseteq Paths /\ t \in [D -> Types] /\ \A q \in D : IsDir(t, Front(q))
        BY DEF Stands
    <2>3. DOMAIN u = D \cup {p} /\ u \in [DOMAIN u -> Types] /\ DOMAIN u \subseteq Paths
          /\ \A q \in D : q # p /\ u[q] = t[q]
        BY <1>2, <2>1, <2>2 DEF There
    <2>4. ASSUME NEW q \in DOMAIN u PROVE IsDir(u, Front(q))
        <3>1. IsDir(t, Front(q))
            BY <1>2, <2>2, <2>3
        <3> QED BY <2>3, <3>1 DEF IsDir, There
    <2>5. Stands(u)
        BY <2>3, <2>4 DEF Stands
    <2> QED BY <2>5 DEF u
<1> QED BY <1>1, <1>2

LEMMA RemovalsAre ==
    ASSUME NEW t, Stands(t), NEW A, NEW s \in Seq(A)
    PROVE  /\ Removals(t, s)[0] = t
           /\ \A k \in 0 .. Len(s) : Stands(Removals(t, s)[k])
           /\ \A k \in 1 .. Len(s) : Removals(t, s)[k] = RemovePath(Removals(t, s)[k - 1], s[k])
<1> DEFINE St == Standing
           b == t
           Step(r, k) == RemovePath(r, s[k])
           F == [q \in St \X Nat |-> IF q[2] \in 1 .. Len(s) THEN Step(q[1], q[2]) ELSE q[1]]
<1>1. Len(s) \in Nat
    BY LenProperties
<1>2. ASSUME NEW r \in St, NEW k \in 1 .. Len(s) PROVE Step(r, k) \in St
    BY RemovedPathStands, StandingIs
<1>3. b \in St
    BY StandingIs
<1> HIDE DEF Step, St, b
<1>4. F \in [St \X Nat -> St]
    BY <1>2
<1>5. PICK g : Along(g, St, F, b, Len(s))
    <2> HIDE DEF F
    <2> QED BY <1>1, <1>3, <1>4, AlongNumbers
<1>6. /\ g \in [0 .. Len(s) -> St] /\ g[0] = b
      /\ \A k \in 1 .. Len(s) : g[k] = F[<<g[k - 1], k>>]
    BY <1>5 DEF Along
<1>7. ASSUME NEW k \in 1 .. Len(s) PROVE g[k] = Step(g[k - 1], k)
    <2>1. k - 1 \in 0 .. Len(s) /\ g[k - 1] \in St /\ k \in Nat
        <3>1. k - 1 \in 0 .. Len(s) /\ k \in Nat
            BY <1>1
        <3> QED BY <1>6, <3>1
    <2>2. F[<<g[k - 1], k>>] = Step(g[k - 1], k)
        BY <2>1
    <2> QED BY <1>6, <2>2
<1> HIDE DEF F
<1>8. g = [k \in 0 .. Len(s) |-> IF k = 0 THEN b ELSE Step(g[k - 1], k)]
    <2>1. ASSUME NEW k \in 0 .. Len(s) PROVE g[k] = IF k = 0 THEN b ELSE Step(g[k - 1], k)
        <3>1. k = 0 \/ k \in 1 .. Len(s)
            BY <1>1
        <3> QED BY <1>6, <1>7, <3>1
    <2> QED BY <1>6, <2>1
<1> DEFINE c == Removals(t, s)
<1>9. c = [k \in 0 .. Len(s) |-> IF k = 0 THEN b ELSE Step(c[k - 1], k)]
    BY <1>8, Zenon DEF Removals, Step, b
<1> HIDE DEF c
<1>10. c[0] = b /\ \A k \in 1 .. Len(s) : c[k] = Step(c[k - 1], k)
    <2>1. \A k \in 0 .. Len(s) : c[k] = IF k = 0 THEN b ELSE Step(c[k - 1], k)
        BY <1>9, Zenon
    <2>2. 0 \in 0 .. Len(s) /\ \A k \in 1 .. Len(s) : k \in 0 .. Len(s) /\ k # 0
        BY <1>1
    <2> QED BY <2>1, <2>2, Zenon
<1>11. \A k \in 0 .. Len(s) : c[k] \in St
    <2> DEFINE T == {k \in 0 .. Len(s) : c[k] \in St}
    <2>1. 0 \in T
        BY <1>1, <1>3, <1>10
    <2>2. ASSUME NEW k \in 0 .. Len(s) - 1, k \in T PROVE k + 1 \in T
        <3>1. k + 1 \in 1 .. Len(s) /\ k + 1 \in 0 .. Len(s) /\ (k + 1) - 1 = k
            BY <1>1
        <3>2. c[k + 1] = Step(c[k], k + 1)
            BY <1>10, <3>1
        <3> QED BY <1>2, <2>2, <3>1, <3>2
    <2>3. \A k \in 0 .. Len(s) : k \in T
        <3> HIDE DEF T
        <3> QED BY <1>1, <2>1, <2>2, UpTo
    <2> QED BY <2>3
<1> QED BY <1>10, <1>11, StandingIs DEF c, Step, St, b

LEMMA MkdirsStand ==
    ASSUME NEW t, Stands(t), NEW p \in Paths
    PROVE  Stands(mkdirs(t, p))
<1> DEFINE St == Standing
           b == t
           Step(r, k) == Place(r, Cut(p, k), "dir")
           F == [q \in St \X Nat |-> IF q[2] \in 1 .. Len(p) THEN Step(q[1], q[2]) ELSE q[1]]
<1>1. Len(p) \in Nat
    BY PathIs, LenProperties
<1>2. ASSUME NEW r \in St, NEW k \in 1 .. Len(p) PROVE Step(r, k) \in St
    <2>1. p \in Seq(Range(Names)) /\ k \in 0 .. Len(p) /\ Len(p) \in 1 .. Depth /\ Depth \in Nat
        BY <1>1, PathIs, TreeAssumption
    <2>2. Cut(p, k) \in Seq(Range(Names)) /\ Len(Cut(p, k)) = k
        BY <2>1, CutIs
    <2>3. k \in 1 .. Depth
        BY <1>1, <2>1
    <2>4. Cut(p, k) \in Paths
        BY <2>2, <2>3, PathIs
    <2>5. "dir" \in Types
        BY DEF Types
    <2>6. Stands(r)
        BY StandingIs
    <2> QED BY <2>4, <2>5, <2>6, PlacedStands, StandingIs
<1>3. b \in St
    BY StandingIs
<1> HIDE DEF Step, St, b
<1>4. F \in [St \X Nat -> St]
    BY <1>2
<1>5. PICK g : Along(g, St, F, b, Len(p))
    <2> HIDE DEF F
    <2> QED BY <1>1, <1>3, <1>4, AlongNumbers
<1>6. /\ g \in [0 .. Len(p) -> St] /\ g[0] = b
      /\ \A k \in 1 .. Len(p) : g[k] = F[<<g[k - 1], k>>]
    BY <1>5 DEF Along
<1>7. ASSUME NEW k \in 1 .. Len(p) PROVE g[k] = Step(g[k - 1], k)
    <2>1. k - 1 \in 0 .. Len(p) /\ g[k - 1] \in St /\ k \in Nat
        <3>1. k - 1 \in 0 .. Len(p) /\ k \in Nat
            BY <1>1
        <3> QED BY <1>6, <3>1
    <2>2. F[<<g[k - 1], k>>] = Step(g[k - 1], k)
        BY <2>1
    <2> QED BY <1>6, <2>2
<1> HIDE DEF F
<1>8. g = [k \in 0 .. Len(p) |-> IF k = 0 THEN b ELSE Step(g[k - 1], k)]
    <2>1. ASSUME NEW k \in 0 .. Len(p) PROVE g[k] = IF k = 0 THEN b ELSE Step(g[k - 1], k)
        <3>1. k = 0 \/ k \in 1 .. Len(p)
            BY <1>1
        <3> QED BY <1>6, <1>7, <3>1
    <2> QED BY <1>6, <2>1
<1> DEFINE c == Mkdirs(t, p)
<1>9. c = [k \in 0 .. Len(p) |-> IF k = 0 THEN b ELSE Step(c[k - 1], k)]
    BY <1>8, Zenon DEF Mkdirs, Step, b
<1> HIDE DEF c
<1>10. c[0] = b /\ \A k \in 1 .. Len(p) : c[k] = Step(c[k - 1], k)
    <2>1. \A k \in 0 .. Len(p) : c[k] = IF k = 0 THEN b ELSE Step(c[k - 1], k)
        BY <1>9, Zenon
    <2>2. 0 \in 0 .. Len(p) /\ \A k \in 1 .. Len(p) : k \in 0 .. Len(p) /\ k # 0
        BY <1>1
    <2> QED BY <2>1, <2>2, Zenon
<1>11. \A k \in 0 .. Len(p) : c[k] \in St
    <2> DEFINE T == {k \in 0 .. Len(p) : c[k] \in St}
    <2>1. 0 \in T
        BY <1>1, <1>3, <1>10
    <2>2. ASSUME NEW k \in 0 .. Len(p) - 1, k \in T PROVE k + 1 \in T
        <3>1. k + 1 \in 1 .. Len(p) /\ k + 1 \in 0 .. Len(p) /\ (k + 1) - 1 = k
            BY <1>1
        <3>2. c[k + 1] = Step(c[k], k + 1)
            BY <1>10, <3>1
        <3> QED BY <1>2, <2>2, <3>1, <3>2
    <2>3. \A k \in 0 .. Len(p) : k \in T
        <3> HIDE DEF T
        <3> QED BY <1>1, <2>1, <2>2, UpTo
    <2> QED BY <2>3
<1>12. Len(p) \in 0 .. Len(p)
    BY <1>1
<1>13. c[Len(p)] \in St
    BY <1>11, <1>12
<1> QED BY <1>13, StandingIs DEF mkdirs, c, St

LEMMA UnlinksStand ==
    ASSUME NEW t, Stands(t), NEW p
    PROVE  Stands(spm_metadata_remove(t, p))
<1> DEFINE St == [ok : BOOLEAN, files : Standing]
           b == [ok |-> TRUE, files |-> t]
           Step(r, k) == LET q == Append(p, Metadata[k])
                         IN IF ~r.ok \/ ~There(r.files, q) THEN r
                            ELSE IF r.files[q] = "dir" THEN [r EXCEPT !.ok = FALSE]
                            ELSE [r EXCEPT !.files = Without(@, q)]
           F == [q \in St \X Nat |-> IF q[2] \in 1 .. Len(Metadata) THEN Step(q[1], q[2]) ELSE q[1]]
<1>1. Len(Metadata) \in Nat
    BY TreeAssumption, LenProperties
<1>2. ASSUME NEW r \in St, NEW k \in 1 .. Len(Metadata) PROVE Step(r, k) \in St
    <2> DEFINE q == Append(p, Metadata[k])
    <2>1. r.ok \in BOOLEAN /\ r.files \in Standing /\ Stands(r.files)
        BY StandingIs
    <2>2. CASE ~r.ok \/ ~There(r.files, q)
        BY <2>2
    <2>3. CASE ~(~r.ok \/ ~There(r.files, q)) /\ r.files[q] = "dir"
        BY <2>3
    <2>4. CASE ~(~r.ok \/ ~There(r.files, q)) /\ r.files[q] # "dir"
        <3> DEFINE w == r.files
        <3>1. Stands(w) /\ There(w, q) /\ w[q] # "dir"
            BY <2>1, <2>4
        <3> HIDE DEF w, q
        <3>2. q \in Paths /\ q # <<>>
            <4>1. q \in Paths
                BY <3>1 DEF Stands, There
            <4>2. Len(q) >= 1
                BY <4>1, PathIs, TreeAssumption
            <4> QED BY <4>1, <4>2
        <3>3. \A u \in DOMAIN w : Front(u) # q
            BY <3>1, <3>2 DEF Stands, IsDir, There
        <3>4. RemovePath(w, q) = Without(w, q)
            BY <3>1, <3>3 DEF RemovePath
        <3>5. Without(w, q) \in Standing
            <4>1. Stands(RemovePath(w, q))
                BY <3>1, RemovedPathStands
            <4>2. Stands(Without(w, q))
                BY <3>4, <4>1
            <4> QED BY <4>2, StandingIs
        <3>6. Step(r, k) = [r EXCEPT !.files = Without(@, q)]
            BY <2>4 DEF q
        <3>7. Without(r.files, q) \in Standing
            BY <3>5 DEF w
        <3> QED BY <3>6, <3>7
    <2> QED BY <2>2, <2>3, <2>4
<1>3. b \in St
    BY StandingIs
<1> HIDE DEF Step, St, b
<1>4. F \in [St \X Nat -> St]
    BY <1>2
<1>5. PICK g : Along(g, St, F, b, Len(Metadata))
    <2> HIDE DEF F
    <2> QED BY <1>1, <1>3, <1>4, AlongNumbers
<1>6. /\ g \in [0 .. Len(Metadata) -> St] /\ g[0] = b
      /\ \A k \in 1 .. Len(Metadata) : g[k] = F[<<g[k - 1], k>>]
    BY <1>5 DEF Along
<1>7. ASSUME NEW k \in 1 .. Len(Metadata) PROVE g[k] = Step(g[k - 1], k)
    <2>1. k - 1 \in 0 .. Len(Metadata) /\ g[k - 1] \in St /\ k \in Nat
        <3>1. k - 1 \in 0 .. Len(Metadata) /\ k \in Nat
            BY <1>1
        <3> QED BY <1>6, <3>1
    <2>2. F[<<g[k - 1], k>>] = Step(g[k - 1], k)
        BY <2>1
    <2> QED BY <1>6, <2>2
<1> HIDE DEF F
<1>8. g = [k \in 0 .. Len(Metadata) |-> IF k = 0 THEN b ELSE Step(g[k - 1], k)]
    <2>1. ASSUME NEW k \in 0 .. Len(Metadata) PROVE g[k] = IF k = 0 THEN b ELSE Step(g[k - 1], k)
        <3>1. k = 0 \/ k \in 1 .. Len(Metadata)
            BY <1>1
        <3> QED BY <1>6, <1>7, <3>1
    <2> QED BY <1>6, <2>1
<1> DEFINE c == Unlinks(t, p)
<1>9. c = [k \in 0 .. Len(Metadata) |-> IF k = 0 THEN b ELSE Step(c[k - 1], k)]
    BY <1>8, Zenon DEF Unlinks, Step, b
<1> HIDE DEF c
<1>10. c[0] = b /\ \A k \in 1 .. Len(Metadata) : c[k] = Step(c[k - 1], k)
    <2>1. \A k \in 0 .. Len(Metadata) : c[k] = IF k = 0 THEN b ELSE Step(c[k - 1], k)
        BY <1>9, Zenon
    <2>2. 0 \in 0 .. Len(Metadata) /\ \A k \in 1 .. Len(Metadata) : k \in 0 .. Len(Metadata) /\ k # 0
        BY <1>1
    <2> QED BY <2>1, <2>2, Zenon
<1>11. \A k \in 0 .. Len(Metadata) : c[k] \in St
    <2> DEFINE T == {k \in 0 .. Len(Metadata) : c[k] \in St}
    <2>1. 0 \in T
        BY <1>1, <1>3, <1>10
    <2>2. ASSUME NEW k \in 0 .. Len(Metadata) - 1, k \in T PROVE k + 1 \in T
        <3>1. k + 1 \in 1 .. Len(Metadata) /\ k + 1 \in 0 .. Len(Metadata) /\ (k + 1) - 1 = k
            BY <1>1
        <3>2. c[k + 1] = Step(c[k], k + 1)
            BY <1>10, <3>1
        <3> QED BY <1>2, <2>2, <3>1, <3>2
    <2>3. \A k \in 0 .. Len(Metadata) : k \in T
        <3> HIDE DEF T
        <3> QED BY <1>1, <2>1, <2>2, UpTo
    <2> QED BY <2>3
<1>12. Len(Metadata) \in 0 .. Len(Metadata)
    BY <1>1
<1>13. c[Len(Metadata)] \in St
    BY <1>11, <1>12
<1>14. c[Len(Metadata)].files \in Standing
    BY <1>13 DEF St
<1> QED BY <1>14, StandingIs DEF spm_metadata_remove, c

\* What is removed in its turns is gone, and nothing else.
LEMMA RemovedInTurn ==
    ASSUME NEW t, Stands(t), NEW p \in DOMAIN t, NEW s \in Seq(DOMAIN t),
           \A k \in 1 .. Len(s) : Below(p, s[k]),
           \A q \in DOMAIN t : Below(p, q) => Turn(s, q)
    PROVE  RemoveAll(t, s) = [q \in {r \in DOMAIN t : ~Below(p, r)} |-> t[q]]
<1> DEFINE D == DOMAIN t
           A == Range(Names)
           R == Removals(t, s)
           Ahead(k, q) == \E j \in k + 1 .. Len(s) :
                              s[j] = q /\ \A m \in j + 1 .. Len(s) : ~Inside(q, s[m])
           Removed(k) == /\ DOMAIN R[k] \subseteq D /\ \A q \in DOMAIN R[k] : R[k][q] = t[q]
                         /\ \A q \in D : ~Below(p, q) => q \in DOMAIN R[k]
                         /\ \A q \in DOMAIN R[k] : Below(p, q) => Ahead(k, q)
           T == {k \in 0 .. Len(s) : Removed(k)}
<1>1. /\ Len(s) \in Nat /\ \A k \in 1 .. Len(s) : s[k] \in D
      /\ \A q \in D : q \in Seq(A) /\ Len(q) \in Nat /\ Len(q) >= 1
    <2>1. Len(s) \in Nat /\ \A k \in 1 .. Len(s) : s[k] \in D
        BY LenProperties, ElementOfSeq
    <2>2. \A q \in D : q \in Seq(A) /\ Len(q) \in 1 .. Depth
        BY PathIs DEF Stands
    <2> QED BY <2>1, <2>2, TreeAssumption
<1>2. /\ R[0] = t
      /\ \A k \in 0 .. Len(s) : Stands(R[k])
      /\ \A k \in 1 .. Len(s) : R[k] = RemovePath(R[k - 1], s[k])
    BY RemovalsAre
<1> HIDE DEF R
<1>3. 0 \in T
    <2>1. \A q \in D : Below(p, q) => Ahead(0, q)
        BY DEF Turn
    <2> QED BY <1>1, <1>2, <2>1
<1>4. ASSUME NEW k \in 0 .. Len(s) - 1, k \in T PROVE k + 1 \in T
    <2>1. k + 1 \in 1 .. Len(s) /\ (k + 1) - 1 = k /\ k + 1 \in 0 .. Len(s) /\ k \in 0 .. Len(s)
        BY <1>1
    <2> DEFINE x == s[k + 1]
               r == R[k]
               u == R[k + 1]
    <2>2. Stands(r) /\ u = RemovePath(r, x) /\ x \in D /\ Below(p, x)
        BY <1>1, <1>2, <2>1
    <2>3. /\ DOMAIN r \subseteq D /\ \A q \in DOMAIN r : r[q] = t[q]
          /\ \A q \in D : ~Below(p, q) => q \in DOMAIN r
          /\ \A q \in DOMAIN r : Below(p, q) => Ahead(k, q)
        BY <1>4
    <2> HIDE DEF r, u
    <2>4. /\ u = r \/ (DOMAIN u = DOMAIN r \ {x} /\ \A q \in DOMAIN u : u[q] = r[q])
          /\ (\A q \in DOMAIN r : Front(q) # x) => x \notin DOMAIN u
        BY <2>2, RemovedPathStands
    <2>5. /\ DOMAIN u \subseteq D /\ DOMAIN u \subseteq DOMAIN r /\ \A q \in DOMAIN u : u[q] = t[q]
          /\ \A q \in D : ~Below(p, q) => q \in DOMAIN u
        BY <2>2, <2>3, <2>4
    <2>6. ASSUME NEW q \in DOMAIN u, Below(p, q) PROVE Ahead(k + 1, q)
        <3>1. PICK j \in k + 1 .. Len(s) : s[j] = q /\ \A m \in j + 1 .. Len(s) : ~Inside(q, s[m])
            BY <2>3, <2>5, <2>6
        <3>2. CASE j # k + 1
            <4>1. j \in (k + 1) + 1 .. Len(s)
                BY <1>1, <3>2
            <4> QED BY <3>1, <4>1
        <3>3. CASE j = k + 1
            <4>1. q = x /\ \A m \in (k + 1) + 1 .. Len(s) : ~Inside(x, s[m])
                BY <3>1, <3>3
            <4>2. PICK c \in DOMAIN r : Front(c) = x
                BY <2>4, <2>6, <4>1
            <4>3. c \in Seq(A) /\ Len(c) >= 1 /\ x \in Seq(A) /\ p \in Seq(A)
                BY <1>1, <2>2, <2>3
            <4> HIDE DEF x
            <4>4. Inside(x, c)
                <5>1. Below(x, Front(c))
                    BY <4>2, <4>3, BelowOrder
                <5> QED BY <4>3, <5>1, InsideFront
            <4>5. Below(p, c)
                BY <2>2, <4>3, <4>4, BelowOrder DEF Inside
            <4>6. PICK n \in k + 1 .. Len(s) : s[n] = c
                BY <2>3, <4>5
            <4>7. n # k + 1
                BY <4>4, <4>6 DEF Inside, x
            <4>8. n \in (k + 1) + 1 .. Len(s)
                BY <1>1, <4>7
            <4> QED BY <4>1, <4>4, <4>6, <4>8
        <3> QED BY <3>2, <3>3
    <2>7. Removed(k + 1)
        BY <2>5, <2>6 DEF u
    <2> HIDE DEF Removed
    <2> QED BY <2>1, <2>7
<1>5. \A k \in 0 .. Len(s) : k \in T
    <2> HIDE DEF T
    <2> QED BY <1>1, <1>3, <1>4, UpTo
<1>6. Len(s) \in 0 .. Len(s) /\ Len(s) + 1 .. Len(s) = {}
    BY <1>1
<1> DEFINE u == R[Len(s)]
<1>7. Stands(u) /\ Removed(Len(s))
    BY <1>2, <1>5, <1>6
<1>8. /\ DOMAIN u \subseteq D /\ \A q \in DOMAIN u : u[q] = t[q]
      /\ \A q \in D : ~Below(p, q) => q \in DOMAIN u
      /\ \A q \in DOMAIN u : ~Below(p, q)
    BY <1>6, <1>7
<1>9. RemoveAll(t, s) = u
    BY DEF RemoveAll, R
<1> HIDE DEF u
<1>10. u = [q \in DOMAIN u |-> u[q]]
    BY <1>7 DEF Stands
<1>11. DOMAIN u = {r \in D : ~Below(p, r)}
    BY <1>8
<1> QED BY <1>8, <1>9, <1>10, <1>11

\* rmdirs: what the turns are.
LEMMA TreeGoesWhole ==
    ASSUME NEW t, Stands(t), NEW p \in DOMAIN t, t[p] # "link"
    PROVE  rmdirs(t, p) = [q \in {r \in DOMAIN t : ~Below(p, r)} |-> t[q]]
<1> DEFINE D == DOMAIN t
           A == Range(Names)
           v == Visit(t, p)
           Of(dirs) == {q \in D : (t[q] = "dir") = dirs}
           a == Those(v, Of(FALSE))
           b == Those(v, Of(TRUE))
           s == a \o b \o <<p>>
<1>1. rmdirs(t, p) = RemoveAll(t, s)
    BY DEF rmdirs
<1>2. /\ v \in Seq(D) /\ Range(v) = {q \in D : Below(p, q)}
      /\ \A q \in D : Below(p, q) => Turn(v, q)
    BY VisitIs DEF Visited
<1> HIDE DEF v
<1>3. /\ a \in Seq(D) /\ Range(a) = Range(v) \cap Of(FALSE)
      /\ b \in Seq(D) /\ Range(b) = Range(v) \cap Of(TRUE)
    BY <1>2, ThoseAre
<1>4. /\ \A q \in Of(FALSE) : Turn(v, q) => Turn(a, q)
      /\ \A q \in Of(TRUE) : Turn(v, q) => Turn(b, q)
    BY <1>2, TurnOfThose
<1> HIDE DEF a, b
<1> DEFINE z == a \o b
           d == <<p>>
<1>5. /\ z \in Seq(D) /\ Range(z) = Range(a) \cup Range(b)
      /\ \A q : Turn(b, q) => Turn(z, q)
      /\ \A q : Turn(a, q) /\ (\A m \in 1 .. Len(b) : ~Inside(q, b[m])) => Turn(z, q)
    BY <1>3, JoinedIs, RangeConcatenation, TurnOfJoined
<1> HIDE DEF z
<1>6. d \in Seq(D) /\ Len(d) = 1 /\ d[1] = p /\ Range(d) = {p}
    BY DEF Range
<1> HIDE DEF d
<1>7. /\ s \in Seq(D) /\ Range(s) = Range(z) \cup Range(d)
      /\ \A q : Turn(d, q) => Turn(s, q)
      /\ \A q : Turn(z, q) /\ (\A m \in 1 .. Len(d) : ~Inside(q, d[m])) => Turn(s, q)
    <2>1. s = z \o d
        BY DEF z, d
    <2> HIDE DEF s
    <2>2. z \in Seq(D) /\ d \in Seq(D)
        BY <1>5, <1>6
    <2>3. z \o d \in Seq(D) /\ Range(z \o d) = Range(z) \cup Range(d)
        BY <2>2, JoinedIs, RangeConcatenation
    <2>4. /\ \A q : Turn(d, q) => Turn(z \o d, q)
          /\ \A q : Turn(z, q) /\ (\A m \in 1 .. Len(d) : ~Inside(q, d[m])) => Turn(z \o d, q)
        BY <2>2, TurnOfJoined
    <2> QED BY <2>1, <2>3, <2>4
<1> HIDE DEF s
<1>8. /\ \A q \in D : q \in Seq(A) /\ Len(q) \in Nat
      /\ Below(p, p) /\ D \subseteq Paths
    <2>1. \A q \in D : q \in Seq(A)
        BY PathIs DEF Stands
    <2>2. \A q \in D : Len(q) \in Nat
        BY <2>1, LenProperties
    <2>3. Below(p, p)
        BY <2>1, BelowOrder
    <2> QED BY <2>1, <2>2, <2>3 DEF Stands
<1> HIDE DEF A
<1>9. ASSUME NEW k \in 1 .. Len(s) PROVE Below(p, s[k])
    <2>1. s[k] \in Range(s)
        BY <1>7, RangeEquality
    <2> QED BY <1>2, <1>3, <1>5, <1>6, <1>7, <1>8, <2>1
<1>10. ASSUME NEW q \in D, Below(p, q) PROVE Turn(s, q)
    <2>1. ~Inside(q, p)
        <3>1. Len(p) <= Len(q) /\ (Inside(q, p) => Len(q) < Len(p))
            BY <1>8, <1>10, BelowIs, BelowOrder
        <3> QED BY <1>8, <3>1
    <2>2. \A m \in 1 .. Len(d) : ~Inside(q, d[m])
        BY <1>6, <2>1
    <2>3. CASE t[q] = "dir"
        <3>1. q \in Of(TRUE)
            BY <2>3
        <3> QED BY <1>2, <1>4, <1>5, <1>7, <1>10, <2>2, <3>1
    <2>4. CASE t[q] # "dir"
        <3>1. q \in Of(FALSE)
            BY <2>4
        <3>2. Turn(a, q)
            BY <1>2, <1>4, <1>10, <3>1
        <3>3. ASSUME NEW m \in 1 .. Len(b) PROVE ~Inside(q, b[m])
            <4>1. b[m] \in D
                BY <1>3, ElementOfSeq
            <4> QED BY <1>8, <2>4, <4>1, OnTheWay
        <3> QED BY <1>5, <1>7, <2>2, <3>2, <3>3
    <2> QED BY <2>3, <2>4
<1>11. RemoveAll(t, s) = [q \in {r \in D : ~Below(p, r)} |-> t[q]]
    BY <1>7, <1>9, <1>10, RemovedInTurn
<1> QED BY <1>1, <1>11

LEMMA TreeStarts == TreeInit => TreeType
<1> SUFFICES ASSUME TreeInit PROVE TreeType
    OBVIOUS
<1>1. fs = [p \in {} |-> "dir"] /\ DOMAIN fs = {}
    BY DEF TreeInit
<1> QED BY <1>1 DEF TreeType, Stands

LEMMA TreeStep == TreeType /\ [TreeNext]_fs => TreeType'
<1> SUFFICES ASSUME TreeType, [TreeNext]_fs PROVE Stands(fs')
    BY DEF TreeType
<1>0. Stands(fs)
    BY DEF TreeType
<1>1. CASE MakeDirectories
    BY <1>0, <1>1, MkdirsStand DEF MakeDirectories, Becomes
<1>2. CASE Touch
    <2>1. PICK p \in Paths : fs' = Place(fs, p, "file")
        BY <1>2 DEF Touch, Becomes, touch
    <2>2. "file" \in Types
        BY DEF Types
    <2> QED BY <1>0, <2>1, <2>2, PlacedStands
<1>3. CASE Link
    <2>1. PICK p \in Paths : fs' = Place(fs, p, "link")
        BY <1>3 DEF Link, Becomes
    <2>2. "link" \in Types
        BY DEF Types
    <2> QED BY <1>0, <2>1, <2>2, PlacedStands
<1>4. CASE RemoveTree
    <2>1. PICK p \in DOMAIN fs : fs' = rmdirs(fs, p)
        BY <1>4 DEF RemoveTree
    <2>2. CASE fs[p] = "link"
        BY <1>0, <2>1, <2>2 DEF rmdirs
    <2>3. CASE fs[p] # "link"
        <3>1. fs' = [q \in {r \in DOMAIN fs : ~Below(p, r)} |-> fs[q]]
            BY <1>0, <2>1, <2>3, TreeGoesWhole
        <3>2. DOMAIN fs \subseteq Paths /\ fs \in [DOMAIN fs -> Types] /\ \A q \in DOMAIN fs : IsDir(fs, Front(q))
            BY <1>0 DEF Stands
        <3>3. DOMAIN fs' = {r \in DOMAIN fs : ~Below(p, r)} /\ \A q \in DOMAIN fs' : fs'[q] = fs[q]
            BY <3>1
        <3>4. fs' \in [DOMAIN fs' -> Types]
            BY <3>1, <3>2
        <3>5. ASSUME NEW q \in DOMAIN fs' PROVE IsDir(fs', Front(q))
            <4> DEFINE A == Range(Names)
            <4>1. \A u \in Paths : u \in Seq(A) /\ Len(u) >= 1
                <5>1. \A u \in Paths : u \in Seq(A) /\ Len(u) \in 1 .. Depth
                    BY PathIs
                <5> QED BY <5>1, TreeAssumption
            <4>2. q \in Seq(A) /\ Len(q) >= 1 /\ p \in Seq(A) /\ ~Below(p, q) /\ IsDir(fs, Front(q))
                BY <3>2, <3>3, <4>1
            <4>3. ~Below(p, Front(q))
                BY <4>2, InsideFront DEF Inside
            <4> QED BY <3>3, <4>2, <4>3 DEF IsDir, There
        <3> QED BY <3>2, <3>3, <3>4, <3>5 DEF Stands
    <2> QED BY <2>2, <2>3
<1>5. CASE RemoveMetadata
    BY <1>0, <1>5, UnlinksStand DEF RemoveMetadata
<1>6. CASE UNCHANGED fs
    BY <1>0, <1>6
<1> QED BY <1>1, <1>2, <1>3, <1>4, <1>5, <1>6 DEF TreeNext

\* fs.c: for all names, any depth and any number of paths, rmdirs of a path that is no link
\* leaves exactly what does not lie below it: fts returns each directory once more behind
\* what is in it, so that it is empty then, and remove takes nothing else.
THEOREM TreesAreTakenAway == TreeSpec => []TreesGoWhole
<1>1. TreeType => TreesGoWhole
    BY TreeGoesWhole DEF TreeType, TreesGoWhole
<1> QED BY <1>1, TreeStarts, TreeStep, PTL DEF TreeSpec
=============================================================================
