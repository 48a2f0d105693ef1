----------------------------- MODULE StringPool -----------------------------
(***************************************************************************)
(* The index of short strings of the heap (ShortStringIndex in             *)
(* crates/rivetlua-runtime/src/heap.rs) together with the slots its        *)
(* entries point to: a hash table with open addressing through which all   *)
(* short strings of the same content share one object.                     *)
(*                                                                         *)
(* The index is grown before the object is allocated and filled after.     *)
(* The allocation in between may reclaim indexed strings, empty the index, *)
(* and run finalizers that make strings themselves; when it fails, the     *)
(* growth is taken back from an index that has changed since.              *)
(***************************************************************************)
EXTENDS SlotTable, Sequences

CONSTANTS
    Hash,              \* ShortStringIndex::hash
    InitialBuckets     \* the first capacity of the index (16)

ASSUME PoolAssumption ==
    /\ Hash \in [Contents -> Nat]
    /\ InitialBuckets \in Nat /\ InitialBuckets >= 4

VARIABLES
    pool,     \* Vm::short_strings
    intern    \* per level, the interning the current or last allocation is for

poolVars == <<pool, intern>>
allVars == <<vars, poolVars>>

Empty == [st |-> "empty"]
Deleted == [st |-> "deleted"]
Entry(h, r) == [st |-> "entry", hash |-> h, ref |-> r]

NoPool == [buckets |-> <<>>, live |-> 0, deleted |-> 0]

\* What an allocation is for: not for the index, to be put into the index, or
\* put there; the index it replaced by a larger one, if any; and whether
\* finalizers ran inside it.
Plain == [for |-> "plain"]
Interning(grown, old) == [for |-> "insert", grown |-> grown, old |-> old, ran |-> FALSE]

Capacity(p) == Len(p.buckets)
\* The k-th bucket looked at for hash h, k from 0.
At(p, h, k) == 1 + ((h + k) % Capacity(p))
\* Where the buckets in B are met.
Offsets(p, h, B) == {k \in 0..(Capacity(p) - 1) : p.buckets[At(p, h, k)] \in B}
Entries(p) == {b \in {p.buckets[i] : i \in DOMAIN p.buckets} : b.st = "entry"}

---------------------------------------------------------------------------
(* The index *)

\* find_short_string: the entry for content c, up to the first empty bucket.
ContentOf(r) == slots[r.slot].content
Find(p, c) ==
    LET ends == Offsets(p, Hash[c], {Empty})
        hits == Offsets(p, Hash[c], {b \in Entries(p) : b.hash = Hash[c] /\ ContentOf(b.ref) = c})
    IN  {p.buckets[At(p, Hash[c], k)].ref :
            k \in {k \in hits : /\ \A e \in ends : k < e
                                /\ \A j \in hits : k <= j}}

\* ShortStringIndex::insert if it still counted the deleted bucket it reuses.
InsertUncounted(p, h, r) ==
    LET ends == Offsets(p, h, {Empty})
        dels == {k \in Offsets(p, h, {Deleted}) : \A e \in ends : k < e}
    IN  IF ends = {} THEN p
        ELSE [p EXCEPT !.buckets[At(p, h, MinOf(IF dels = {} THEN ends ELSE dels))] = Entry(h, r),
                       !.live = @ + 1]

\* ShortStringIndex::insert: the first deleted bucket before the first empty
\* one is used again.
Insert(p, h, r) ==
    LET ends == Offsets(p, h, {Empty})
        dels == {k \in Offsets(p, h, {Deleted}) : \A e \in ends : k < e}
    IN  IF ends = {} THEN p
        ELSE [buckets |-> [p.buckets EXCEPT ![At(p, h, MinOf(IF dels = {} THEN ends ELSE dels))] =
                              Entry(h, r)],
              live    |-> p.live + 1,
              deleted |-> IF dels = {} THEN p.deleted ELSE p.deleted - 1]

\* ShortStringIndex::remove if it left an empty bucket behind.
RemoveToEmpty(p, h, r) ==
    LET hits == Offsets(p, h, {Entry(h, r)})
    IN  IF hits = {} THEN p
        ELSE IF p.live = 1 THEN NoPool
        ELSE [p EXCEPT !.buckets[At(p, h, MinOf(hits))] = Empty, !.live = @ - 1]

\* ShortStringIndex::remove if it did not count the deleted buckets.
RemoveUncounted(p, h, r) ==
    LET hits == Offsets(p, h, {Entry(h, r)})
    IN  IF hits = {} THEN p
        ELSE IF p.live = 1 THEN NoPool
        ELSE [p EXCEPT !.buckets[At(p, h, MinOf(hits))] = Deleted, !.live = @ - 1]

\* ShortStringIndex::remove: the bucket is marked as deleted; the last entry
\* takes the buckets with it.
Remove(p, h, r) ==
    LET ends == Offsets(p, h, {Empty})
        hits == {k \in Offsets(p, h, {Entry(h, r)}) : \A e \in ends : k < e}
    IN  IF hits = {} THEN p
        ELSE IF p.live = 1 THEN NoPool
        ELSE [buckets |-> [p.buckets EXCEPT ![At(p, h, MinOf(hits))] = Deleted],
              live    |-> p.live - 1,
              deleted |-> p.deleted + 1]

\* The entries of p put into n empty buckets, in the order of the buckets.
Rebuilt(p, n) ==
    LET filled[k \in 0..Capacity(p)] ==
            IF k = 0 THEN [buckets |-> [i \in 1..n |-> Empty], live |-> 0, deleted |-> 0]
            ELSE IF p.buckets[k].st # "entry" THEN filled[k - 1]
            ELSE Insert(filled[k - 1], p.buckets[k].hash, p.buckets[k].ref)
    IN  filled[Capacity(p)]

\* ShortStringIndex::reserve_slot: at most half of the buckets are in use
\* once one more string is inserted.
HasRoom(p) == Capacity(p) # 0 /\ p.live + p.deleted + 1 <= Capacity(p) \div 2
Reserved(p) ==
    IF HasRoom(p) THEN p
    ELSE Rebuilt(p, IF Capacity(p) = 0 THEN InitialBuckets
                    ELSE IF p.live + 1 <= Capacity(p) \div 2 THEN Capacity(p)
                    ELSE 2 * Capacity(p))

\* Vm::restore_short_string_growth: the entries of today go back into the
\* buckets of before, if they fit.
Restored(p, i) ==
    IF ~i.grown THEN p
    ELSE IF p.live = 0 THEN NoPool
    ELSE IF Capacity(i.old) = 0 \/ p.live > Capacity(i.old) \div 2 THEN p
    ELSE Rebuilt(p, Capacity(i.old))

\* Vm::reclaim if it left the index alone.
ForgetNothing(p, r) == p

\* What Vm::reclaim does to the index for the object of r.
Forget(p, r) == IF ContentOf(r) = NoContent THEN p ELSE Remove(p, Hash[ContentOf(r)], r)

---------------------------------------------------------------------------
(* Operations *)

\* No operation comes between the return of the allocation and the insertion.
Settled == ops[Level] # NoOp \/ intern[Level].for # "insert"

\* An object that is not indexed: another kind, or a string made without the
\* index (clone_byte_string, with_temporary_byte_string).
AllocatePlain(c) ==
    /\ Settled /\ Allocate(c)
    /\ intern' = [intern EXCEPT ![Level] = Plain]
    /\ UNCHANGED pool

\* allocate_byte_string_with_status if it did not look for the content first.
AllocateUnsearched(c) ==
    /\ Settled /\ Allocate(c)
    /\ pool' = Reserved(pool)
    /\ intern' = [intern EXCEPT ![Level] = Interning(~HasRoom(pool), pool)]

\* allocate_byte_string_with_status for a content that is not indexed.
AllocateShort(c) ==
    /\ Settled /\ Find(pool, c) = {}
    /\ Allocate(c)
    /\ pool' = Reserved(pool)
    /\ intern' = [intern EXCEPT ![Level] = Interning(~HasRoom(pool), pool)]

\* The same when the object cannot be allocated at all.
ShortFailsEarly(c) ==
    /\ Settled /\ ops[Level] = NoOp /\ Find(pool, c) = {}
    /\ pool' = Restored(Reserved(pool), Interning(~HasRoom(pool), pool))
    /\ UNCHANGED <<vars, intern>>

\* The allocation fails after the object was published.
AllocateFails ==
    /\ Fails
    /\ pool' = IF intern[Level].for = "insert" THEN Restored(pool, intern[Level]) ELSE pool
    /\ intern' = [intern EXCEPT ![Level] = Plain]

\* The allocation returns to allocate_byte_string_with_status or its caller.
AllocateReturns ==
    /\ Done
    /\ intern' = IF intern[Level] = Plain THEN intern
                 ELSE [intern EXCEPT ![Level].ran = ops[Level].ran]
    /\ UNCHANGED pool

\* The index may have lost its last entry, and its buckets, since.
Growing(p) == p.buckets = <<>>

\* allocate_byte_string_with_status after the allocation returned.
InsertShort ==
    LET r == last[Level].ref
        i == intern[Level]
    IN
    /\ ~Settled
    /\ pool' = Insert(IF Growing(pool) THEN Reserved(pool) ELSE pool, Hash[ContentOf(r)], r)
    /\ intern' = [intern EXCEPT ![Level] =
                     [IF Growing(pool) /\ ~i.grown THEN Interning(TRUE, NoPool) ELSE i
                         EXCEPT !.for = "done"]]
    /\ UNCHANGED vars

\* The string cannot be put into the index, or its publication fails later:
\* rollback_unpublished_created_object, then restore_short_string_growth.
UnpublishObject ==
    /\ ~Settled => Growing(pool)
    /\ Unpublish
    /\ pool' = LET p == Forget(pool, last[Level].ref)
               IN  IF intern[Level].for = "plain" THEN p ELSE Restored(p, intern[Level])
    /\ intern' = [intern EXCEPT ![Level] = Plain]

ReclaimObject(r) ==
    /\ Settled /\ Reclaim(r)
    /\ pool' = Forget(pool, r)
    /\ UNCHANGED intern

\* The collection step runs finalizers; they start without strings of theirs.
RunFinalizers == Settled /\ StartFinalizers /\ UNCHANGED poolVars
LeaveFinalizers ==
    /\ Settled /\ EndFinalizers
    /\ intern' = [intern EXCEPT ![2] = Plain]
    /\ UNCHANGED pool

PoolInit == Init /\ pool = NoPool /\ intern = [l \in Levels |-> Plain]

PoolNext ==
    \/ \E c \in Contents \cup {NoContent} : AllocatePlain(c)
    \/ \E c \in Contents : AllocateShort(c) \/ ShortFailsEarly(c)
    \/ Settled /\ Refused /\ UNCHANGED poolVars
    \/ AllocateReturns
    \/ AllocateFails
    \/ InsertShort
    \/ UnpublishObject
    \/ \E r \in made : ReclaimObject(r)
    \/ RunFinalizers
    \/ LeaveFinalizers

PoolSpec == PoolInit /\ [][PoolNext]_allVars

---------------------------------------------------------------------------
(* Properties *)

\* The buckets in state x.
Where(p, x) == {i \in DOMAIN p.buckets : p.buckets[i].st = x}

BucketValues == {Empty, Deleted} \cup {Entry(Hash[c], r) : c \in Contents, r \in Refs}

\* An index by itself: the counters are right, no reference is filed twice, and
\* a search for the hash of an entry meets no empty bucket before the entry.
Sound(p) ==
    /\ p \in [buckets : Seq(BucketValues), live : Nat, deleted : Nat]
    /\ Capacity(p) = 0 \/ Capacity(p) >= 4
    /\ p.live = Cardinality(Where(p, "entry")) /\ p.deleted = Cardinality(Where(p, "deleted"))
    /\ \A i, j \in Where(p, "entry") : p.buckets[i].ref = p.buckets[j].ref => i = j
    /\ \A i \in Where(p, "entry") :
          LET h == p.buckets[i].hash
          IN  \E k \in 0..(Capacity(p) - 1) :
                 /\ At(p, h, k) = i
                 /\ \A j \in 0..(k - 1) : p.buckets[At(p, h, j)] # Empty

\* Every entry of the index leads to a live string with the hash the entry
\* is filed under: a lookup never meets StaleObject, although strings are
\* reclaimed, rolled back and moved between indexes of different sizes.
EntriesLive ==
    \A b \in Entries(pool) :
        /\ b.ref \in Valid
        /\ ContentOf(b.ref) # NoContent /\ b.hash = Hash[ContentOf(b.ref)]

\* A string that was interned and is alive is found: no removal, reuse of a
\* deleted bucket or restored index cuts the chain of buckets to an entry, and
\* a string is indexed even if its own allocation emptied the index.
EntriesFound ==
    /\ \A b \in Entries(pool) : Find(pool, ContentOf(b.ref)) # {}
    /\ \A l \in Levels : intern[l].for = "done" /\ last[l] # NoOp =>
          (last[l].ref \in Valid => Find(pool, ContentOf(last[l].ref)) # {})

\* The counters are right, and an index with buckets keeps an empty one, so
\* that an insertion never fails and a search ends early, even when the
\* finalizers run by an allocation use up the room it had reserved.
RoomLeft ==
    /\ pool.live = Cardinality(Where(pool, "entry"))
    /\ pool.deleted = Cardinality(Where(pool, "deleted"))
    /\ pool.buckets # <<>> => pool.live > 0 \/ ~Settled \/ \E l \in Levels : ops[l] # NoOp
    /\ pool.buckets # <<>> => Where(pool, "empty") # {}

\* A string is indexed only if no string of the same content is, unless
\* finalizers ran while its object was allocated: those may have indexed the
\* content after allocate_byte_string_with_status looked for it.
IndexedOnce ==
    ~Settled /\ ~intern[Level].ran => Find(pool, ContentOf(last[Level].ref)) = {}

\* The interning of level l: its string, and whether finalizers ran inside it.
Target(l) == IF ops[l] # NoOp THEN ops[l].ref ELSE last[l].ref
RanIn(l) == IF ops[l] # NoOp THEN ops[l].ran ELSE intern[l].ran

Internings ==
    {Plain} \cup [for : {"insert", "done"}, grown : BOOLEAN,
                  old : [buckets : Seq(BucketValues), live : Nat, deleted : Nat], ran : BOOLEAN]

PoolTypeOK ==
    /\ Sound(pool)
    /\ intern \in [Levels -> Internings]
    /\ \A l \in Levels : intern[l].for # "plain" =>
          Capacity(intern[l].old) = 0 \/ Capacity(intern[l].old) >= 4

\* How full the index is.  The room for one more string is kept until it is
\* inserted, but for the string whose allocation ran finalizers only half of
\* the buckets are promised to be left.  Buckets without an entry were
\* reserved by an interning that will give them back if it fails.
Load ==
    /\ pool.buckets # <<>> => pool.live + pool.deleted <= Capacity(pool) \div 2 + 1
    /\ \A l \in Levels : intern[l].for = "insert" /\ pool.buckets # <<>> =>
          pool.live + pool.deleted <= Capacity(pool) \div 2
    /\ intern[2].for = "insert" => HasRoom(pool)
    /\ pool.live = 0 /\ pool.buckets # <<>> =>
          \E l \in Levels : intern[l].for = "insert" /\ intern[l].grown

\* A string between the search for its content and its insertion.
OnItsWay(l) ==
    intern[l].for = "insert" =>
        /\ ops[l] # NoOp \/ (l = Level /\ last[l] # NoOp)
        /\ Target(l) \in Valid /\ ContentOf(Target(l)) \in Contents
        /\ \A b \in Entries(pool) : b.ref # Target(l)
        /\ ~RanIn(l) => \A b \in Entries(pool) : ContentOf(b.ref) # ContentOf(Target(l))

\* An object whose allocation is in progress is not indexed.
NotFiled(l) ==
    ops[l] # NoOp => intern[l].for # "done" /\ \A b \in Entries(pool) : b.ref # ops[l].ref

\* The string inserted last is indexed as long as it lives.
Filed(l) ==
    intern[l].for = "done" /\ last[l] # NoOp /\ last[l].ref \in Valid =>
        Entry(Hash[ContentOf(last[l].ref)], last[l].ref) \in Entries(pool)

Pending(l) == OnItsWay(l) /\ NotFiled(l) /\ Filed(l)

\* The inductive invariant of the index: what holds while strings are on their
\* way into it, at both levels.
PoolInv == PoolTypeOK /\ EntriesLive /\ Load /\ \A l \in Levels : Pending(l)

=============================================================================
