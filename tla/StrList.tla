------------------------------ MODULE StrList ------------------------------
(***************************************************************************)
(* The growing array of strings of lib/strlist.c, with strsort of          *)
(* lib/str.c.  A list is its storage of num_alloc slots and the count      *)
(* num_inuse.  The functions of the list go by the count; strsort and join *)
(* go on until the first NULL.  Slots are numbered from 0, as in the code. *)
(***************************************************************************)
EXTENDS Integers

CONSTANTS
    Strings,        \* strings
    Alpha,       \* Alpha[t]: t's place in the order of strcmp
    Length,      \* Length[t]: strlen
    Number,      \* Number[t]: the integer t is read as, if Digits[t]
    Digits,      \* Digits[t]: whether t begins with a digit
    Bits,        \* Bits[k]: the width of the integer type k
    NULL,
    MaxAlloc     \* bound on num_alloc

ASSUME StrListAssumption == NULL \notin Strings /\ MaxAlloc \in Nat

Kinds == {"char", "short", "int", "long"}

\* Every type has a bit and none is wider than a long, a char narrower (said of the powers of
\* two, which the proofs take as they are).
ASSUME WidthAssumption ==
    /\ Number \in [Strings -> Int]
    /\ \A k \in Kinds :
         /\ 2 ^ (Bits[k] - 1) \in Nat \ {0} /\ 2 ^ Bits[k] = 2 * 2 ^ (Bits[k] - 1)
         /\ 2 ^ (Bits[k] - 1) <= 2 ^ (Bits["long"] - 1)
    /\ 2 ^ Bits["char"] <= 2 ^ (Bits["long"] - 1)

VARIABLES
    list, other, \* two lists: alloc, inuse and slot
    careful,     \* whether every index so far was one of an item, every value a string
    ub           \* whether the code has read outside of the storage, or a NULL string

slVars == <<list, other, careful, ub>>

New == [alloc |-> 1, inuse |-> 0, slot |-> [k \in {0} |-> NULL]]

\* Mutant: the new slot is not set to NULL when it is not the one that is filled.
PushShort(l, t) ==
    [alloc |-> l.alloc + 1, inuse |-> l.inuse + 1,
     slot |-> [k \in 0 .. l.alloc |-> IF k = l.inuse \/ k = l.alloc THEN t ELSE l.slot[k]]]

\* One slot more; the string goes to the slot num_inuse, a NULL to the last.
Push(l, t) ==
    [alloc |-> l.alloc + 1, inuse |-> l.inuse + 1,
     slot |-> [k \in 0 .. l.alloc |->
                 IF k = l.alloc THEN NULL ELSE IF k = l.inuse THEN t ELSE l.slot[k]]]

\* strlist_item: an index may be the count, where a NULL should be.
Get(l, i) == IF i > l.inuse THEN NULL ELSE l.slot[i]

\* Mutant: the last item, or its NULL, is not moved.
DropShort(l, i) ==
    [l EXCEPT !.inuse = IF @ = 0 THEN 0 ELSE @ - 1,
              !.slot = [k \in DOMAIN @ |->
                          IF i <= k /\ k + 1 < l.inuse THEN @[k + 1] ELSE @[k]]]

\* Items move down one by one, until the count is reached or a NULL has moved.  At an
\* index past the items nothing moves, and the count drops all the same.
Drop(l, i) ==
    LET moved == {k \in i .. l.inuse - 1 : \A j \in i + 1 .. k : l.slot[j] # NULL} IN
    IF l.inuse = 0 THEN l
    ELSE [alloc |-> l.alloc, inuse |-> l.inuse - 1,
          slot |-> [k \in DOMAIN l.slot |-> IF k \in moved THEN l.slot[k + 1] ELSE l.slot[k]]]

Put(l, i, v) == IF Get(l, i) = NULL THEN l ELSE [l EXCEPT !.slot[i] = v]

Backward(l) ==
    [alloc |-> l.alloc, inuse |-> l.inuse,
     slot |-> [k \in DOMAIN l.slot |-> IF k < l.inuse THEN l.slot[l.inuse - 1 - k] ELSE l.slot[k]]]

\* strtol and strtoul stop at the bounds of a long; strtoul takes a minus sign.
Half == 2 ^ (Bits["long"] - 1)
ToLong(x) == IF x < -Half THEN -Half ELSE IF x >= Half THEN Half - 1 ELSE x
ToULong(x) == IF x >= 2 * Half \/ x <= -2 * Half THEN 2 * Half - 1 ELSE x % (2 * Half)

Modes == {"alpha", "numeric", "shortest", "longest"}

\* The comparison functions.  Those by length are never below 0, and a string without a
\* leading digit is equal to every other.
Compare(m, s, t) ==
    CASE m = "alpha" -> Alpha[s] - Alpha[t]
      [] m = "shortest" -> IF Length[s] > Length[t] THEN 1 ELSE 0
      [] m = "longest" -> IF Length[s] < Length[t] THEN 1 ELSE 0
      [] m = "numeric" -> IF Digits[s] /\ Digits[t] THEN ToLong(Number[s]) - ToLong(Number[t]) ELSE 0

\* What strsort may make of l: the strings before the first NULL (one slot, if there is
\* none) go through qsort, a merge sort, which leaves neighbours in order.
FirstNull(l) == {n \in DOMAIN l.slot : l.slot[n] = NULL /\ \A j \in 0 .. n - 1 : l.slot[j] # NULL}

Orders(m, l, n) ==
    {p \in [0 .. n - 1 -> 0 .. n - 1] :
        /\ \A j, k \in 0 .. n - 1 : p[j] = p[k] => j = k
        /\ \A k \in 1 .. n - 1 : Compare(m, l.slot[p[k - 1]], l.slot[p[k]]) <= 0}

Sorted(m, l) ==
    UNION {{[l EXCEPT !.slot = [k \in DOMAIN @ |-> IF k < n THEN @[p[k]] ELSE @[k]]] :
               p \in Orders(m, l, n)} : n \in FirstNull(l)}

\* A list filled by strlist_append: what was removed has left no slots behind.
Copy(l) == [alloc |-> l.inuse + 1, inuse |-> l.inuse,
            slot |-> [k \in 0 .. l.inuse |-> IF k < l.inuse THEN l.slot[k] ELSE NULL]]

\* strlist_append_strlist.
Joined(l, m) ==
    [alloc |-> l.alloc + m.inuse, inuse |-> l.inuse + m.inuse,
     slot |-> [k \in 0 .. l.alloc + m.inuse - 1 |->
                 IF k < l.inuse THEN l.slot[k]
                 ELSE IF k < l.inuse + m.inuse THEN m.slot[k - l.inuse]
                 ELSE IF k < l.alloc THEN l.slot[k] ELSE NULL]]

Items(l) == [k \in 1 .. l.inuse |-> l.slot[k - 1]]
Whole(l) == \A k \in 0 .. l.inuse - 1 : l.slot[k] # NULL

\* The low bits of x, as a number of kind k.
Cast(k, signed, x) ==
    LET low == x % 2 ^ Bits[k]
    IN IF signed /\ low >= 2 ^ (Bits[k] - 1) THEN low - 2 ^ Bits[k] ELSE low

\* Mutant: an unsigned long is read like a long.
ItemAsSigned(k, signed, t) == Cast(k, signed, ToLong(Number[t]))

\* strlist_item_as_*: an unsigned char is read with strtol as well.
ItemAs(k, signed, t) ==
    Cast(k, signed, IF signed \/ k = "char" THEN ToLong(Number[t]) ELSE ToULong(Number[t]))

SLInit == list = New /\ other = New /\ careful = TRUE /\ ub = FALSE

AppendItem ==
    /\ list.alloc < MaxAlloc
    /\ \E t \in Strings : list' = Push(list, t)
    /\ UNCHANGED <<other, careful, ub>>

RemoveItem == \E i \in 0 .. MaxAlloc :
    /\ list' = Drop(list, i)
    /\ careful' = (careful /\ i < list.inuse)
    /\ UNCHANGED <<other, ub>>

Set == \E i \in 0 .. MaxAlloc, v \in Strings \cup {NULL} :
    /\ list' = Put(list, i, v)
    /\ careful' = (careful /\ (i < list.inuse => v # NULL))
    /\ UNCHANGED <<other, ub>>

\* num_inuse - 1 wraps around for an empty list.
ReverseList ==
    /\ IF list.inuse = 0 THEN ub' = TRUE /\ UNCHANGED list
                         ELSE list' = Backward(list) /\ UNCHANGED ub
    /\ UNCHANGED <<other, careful>>

Sort ==
    /\ \E m \in Modes : list' \in Sorted(m, list)
    /\ UNCHANGED <<other, careful, ub>>

\* strlist_copy and strlist_append_strlist; a NULL item goes to strdup.
CopyList ==
    /\ IF Whole(list) THEN other' = Copy(list) /\ UNCHANGED ub
                      ELSE ub' = TRUE /\ UNCHANGED other
    /\ UNCHANGED <<list, careful>>

AppendList ==
    /\ list.alloc + other.inuse <= MaxAlloc
    /\ list' = Joined(list, other)
    /\ UNCHANGED <<other, careful, ub>>

SLNext ==
    \/ ~ub /\ (AppendItem \/ RemoveItem \/ Set \/ ReverseList \/ Sort \/ CopyList \/ AppendList)
    \/ ub /\ UNCHANGED slVars

SLSpec == SLInit /\ [][SLNext]_slVars

-----------------------------------------------------------------------------
\* Whatever the indices: the count stays below the storage and the last slot is NULL, so
\* that the readers that go by the NULL (strsort, join, the loops of the callers) end
\* inside the storage although strlist_remove and strlist_set move NULLs about.
ScansEnd == \A l \in {list, other} :
    l.inuse < l.alloc /\ DOMAIN l.slot = 0 .. l.alloc - 1 /\ l.slot[l.alloc - 1] = NULL

\* While indices are those of items, the readers by count and the readers by NULL see
\* the same items: the slots that removals free are NULL until they are used again.
CountIsTerminator == careful =>
    Whole(list) /\ \A k \in list.inuse .. list.alloc - 1 : list.slot[k] = NULL

\* What a step may make of the items of l: items appended, one taken out, one replaced, or
\* all of them in another order.
Edited(l, m) ==
    LET old == Items(l)  new == Items(m)  n == l.inuse IN
    \/ m.inuse >= n /\ \A i \in 1 .. n : new[i] = old[i]
    \/ m.inuse = n - 1 /\ \E d \in 1 .. n : \A i \in 1 .. n - 1 :
           new[i] = old[IF i < d THEN i ELSE i + 1]
    \/ m.inuse = n /\ \E d \in 1 .. n : \A i \in (1 .. n) \ {d} : new[i] = old[i]
    \/ m.inuse = n /\ \E p \in [1 .. n -> 1 .. n] :
           {p[i] : i \in 1 .. n} = 1 .. n /\ \A i \in 1 .. n : new[i] = old[p[i]]

\* And the list is a sequence to its users, which a step edits in one of these ways and in
\* no other.
KeepsASequence == [][careful' => Edited(list, list')]_slVars

\* An item is read as its number exactly if the type can hold it, as the tests of
\* tests/test_strlist.c read back the largest values.
ReadsWhatFits == \A i \in 0 .. list.inuse - 1, k \in Kinds, signed \in BOOLEAN :
    LET t == list.slot[i]
        fits == IF signed THEN -2 ^ (Bits[k] - 1) <= Number[t] /\ Number[t] < 2 ^ (Bits[k] - 1)
                ELSE 0 <= Number[t] /\ Number[t] < 2 ^ Bits[k]
    IN t # NULL => (ItemAs(k, signed, t) = Number[t] <=> fits)

-----------------------------------------------------------------------------
\* What every list is, whatever the indices; and what one is that was used with care:
\* only strlist_copy changes the second list.
Sound(l) ==
    /\ l = [alloc |-> l.alloc, inuse |-> l.inuse, slot |-> l.slot]
    /\ l.alloc \in Nat /\ l.inuse \in Nat /\ l.inuse < l.alloc
    /\ l.slot \in [0 .. l.alloc - 1 -> Strings \cup {NULL}]
    /\ l.slot[l.alloc - 1] = NULL

Clean(l) == Whole(l) /\ \A k \in l.inuse .. l.alloc - 1 : l.slot[k] = NULL

SLInv == Sound(list) /\ Sound(other)
CleanInv == Clean(other) /\ (careful => Clean(list))
=============================================================================
