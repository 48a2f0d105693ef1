-------------------------- MODULE StringIndexProof --------------------------
(***************************************************************************)
(* What the operations of ShortStringIndex do, for every hash function and *)
(* every number of buckets: an insertion, a removal and a move to other    *)
(* buckets keep an index sound and change its entries as they should, and  *)
(* a search in a sound index finds what is there.                          *)
(***************************************************************************)
EXTENDS StringPool, FiniteSetTheorems, WellFoundedInduction, TLAPS

\* The buckets of a search are met all round.
LEMMA Quotient ==
    ASSUME NEW a \in Nat, NEW c \in Nat \ {0}
    PROVE  /\ a % c \in 0..(c - 1) /\ a \div c \in Nat
           /\ a = c * (a \div c) + (a % c)
  <1>1. a % c \in 0..(c - 1)
    OBVIOUS
  <1>2. a \div c \in Nat
    OBVIOUS
  <1>3. a = c * (a \div c) + (a % c)
    OBVIOUS
  <1> QED
    BY <1>1, <1>2, <1>3

LEMMA SameRest ==
    ASSUME NEW c \in Nat \ {0}, NEW m \in 0..(c - 1), NEW q \in Nat
    PROVE  (c * q + m) % c = m
  OBVIOUS

LEMMA AllRound ==
    ASSUME NEW c \in Nat \ {0}, NEW h \in Nat, NEW i \in 1..c
    PROVE  \E k \in 0..(c - 1) : 1 + ((h + k) % c) = i
  <1> DEFINE m == h % c
             q == h \div c
  <1>1. m \in 0..(c - 1) /\ q \in Nat /\ h = c * q + m
    BY Zenon, Quotient
  <1> HIDE DEF m, q
  <1>2. CASE i - 1 >= m
    <2>1. i - 1 - m \in 0..(c - 1) /\ h + (i - 1 - m) = c * q + (i - 1) /\ i - 1 \in 0..(c - 1)
      BY <1>1, <1>2
    <2>2. (c * q + (i - 1)) % c = i - 1
      BY <1>1, <2>1, SameRest
    <2>3. 1 + ((h + (i - 1 - m)) % c) = i
      BY <2>1, <2>2
    <2> QED
      BY <2>1, <2>3
  <1>3. CASE i - 1 < m
    <2>1. c * (q + 1) = c * q + c
      BY <1>1
    <2>2. /\ i - 1 - m + c \in 0..(c - 1) /\ i - 1 \in 0..(c - 1) /\ q + 1 \in Nat
          /\ h + (i - 1 - m + c) = c * (q + 1) + (i - 1)
      BY <1>1, <1>3, <2>1
    <2>3. (c * (q + 1) + (i - 1)) % c = i - 1
      BY Zenon, <2>2, SameRest
    <2>4. 1 + ((h + (i - 1 - m + c)) % c) = i
      BY <2>2, <2>3
    <2> QED
      BY Zenon, <2>2, <2>4
  <1> QED
    BY <1>1, <1>2, <1>3

---------------------------------------------------------------------------
(* Buckets *)

LEMMA BucketShape ==
    /\ Empty \in BucketValues /\ Deleted \in BucketValues
    /\ Empty.st = "empty" /\ Deleted.st = "deleted"
    /\ \A h, r : Entry(h, r).st = "entry" /\ Entry(h, r).hash = h /\ Entry(h, r).ref = r
    /\ \A c \in Contents, r \in Refs : Entry(Hash[c], r) \in BucketValues
    /\ \A b \in BucketValues :
          /\ b.st = "empty" <=> b = Empty
          /\ b.st = "deleted" <=> b = Deleted
          /\ b.st = "entry" => b = Entry(b.hash, b.ref) /\ b.hash \in Nat /\ b.ref \in Refs
          /\ b.st \in {"empty", "deleted", "entry"}
  <1>1. /\ Empty \in BucketValues /\ Deleted \in BucketValues
        /\ Empty.st = "empty" /\ Deleted.st = "deleted"
    BY DEF BucketValues, Empty, Deleted
  <1>2. \A h, r : Entry(h, r).st = "entry" /\ Entry(h, r).hash = h /\ Entry(h, r).ref = r
    BY DEF Entry
  <1>3. \A c \in Contents, r \in Refs : Entry(Hash[c], r) \in BucketValues
    BY DEF BucketValues
  <1>4. ASSUME NEW b \in BucketValues
        PROVE  /\ b.st = "empty" <=> b = Empty
               /\ b.st = "deleted" <=> b = Deleted
               /\ b.st = "entry" => b = Entry(b.hash, b.ref) /\ b.hash \in Nat /\ b.ref \in Refs
               /\ b.st \in {"empty", "deleted", "entry"}
    <2>1. CASE b \in {Empty, Deleted}
      BY <1>1, <2>1
    <2>2. CASE \E c \in Contents, r \in Refs : b = Entry(Hash[c], r)
      <3>1. PICK c \in Contents, r \in Refs : b = Entry(Hash[c], r)
        BY <2>2
      <3>2. b.st = "entry" /\ b.hash = Hash[c] /\ b.ref = r
        BY <1>2, <3>1
      <3>3. Hash[c] \in Nat
        BY PoolAssumption
      <3> QED
        BY <1>1, <3>1, <3>2, <3>3
    <2> QED
      BY <2>1, <2>2 DEF BucketValues
  <1> QED
    BY <1>1, <1>2, <1>3, <1>4

\* The capacity of an index, and where a search looks.
LEMMA Places ==
    ASSUME NEW p, p.buckets \in Seq(BucketValues)
    PROVE  /\ Capacity(p) \in Nat /\ DOMAIN p.buckets = 1..Capacity(p)
           /\ \A i \in 1..Capacity(p) : p.buckets[i] \in BucketValues
           /\ \A h, k \in Nat : Capacity(p) # 0 => At(p, h, k) \in 1..Capacity(p)
           /\ p.buckets = <<>> <=> Capacity(p) = 0
  <1>1. /\ Capacity(p) \in Nat /\ DOMAIN p.buckets = 1..Capacity(p)
        /\ \A i \in 1..Capacity(p) : p.buckets[i] \in BucketValues
    BY DEF Capacity
  <1>2. ASSUME NEW h \in Nat, NEW k \in Nat, Capacity(p) # 0
        PROVE  At(p, h, k) \in 1..Capacity(p)
    <2>1. h + k \in Nat /\ Capacity(p) \in Nat \ {0}
      BY <1>1, <1>2
    <2>2. (h + k) % Capacity(p) \in 0..(Capacity(p) - 1)
      BY <2>1, Quotient
    <2> QED
      BY <2>1, <2>2 DEF At
  <1>3. p.buckets = <<>> <=> Capacity(p) = 0
    BY <1>1 DEF Capacity
  <1> QED
    BY <1>1, <1>2, <1>3

\* q is the index p with bucket i replaced by v.
Replaces(p, i, v, q) ==
    /\ q.buckets \in Seq(BucketValues) /\ Capacity(q) = Capacity(p)
    /\ \A j \in 1..Capacity(p) : q.buckets[j] = IF j = i THEN v ELSE p.buckets[j]
    /\ \A h, k : At(q, h, k) = At(p, h, k)
    /\ \A x : Where(q, x) = IF v.st = x THEN Where(p, x) \cup {i} ELSE Where(p, x) \ {i}

LEMMA Replaced ==
    ASSUME NEW p, p.buckets \in Seq(BucketValues), NEW i \in 1..Capacity(p), NEW v \in BucketValues,
           NEW q, q.buckets = [p.buckets EXCEPT ![i] = v]
    PROVE  Replaces(p, i, v, q)
  <1>1. Capacity(p) \in Nat /\ DOMAIN p.buckets = 1..Capacity(p)
    BY Places
  <1>2. q.buckets \in Seq(BucketValues) /\ Len(q.buckets) = Len(p.buckets)
    BY <1>1 DEF Capacity
  <1>3. Capacity(q) = Capacity(p) /\ DOMAIN q.buckets = 1..Capacity(p)
    BY <1>2, Places DEF Capacity
  <1>4. \A j \in 1..Capacity(p) : q.buckets[j] = IF j = i THEN v ELSE p.buckets[j]
    BY <1>1
  <1>5. \A h, k : At(q, h, k) = At(p, h, k)
    BY <1>3 DEF At
  <1>6. ASSUME NEW x
        PROVE  Where(q, x) = IF v.st = x THEN Where(p, x) \cup {i} ELSE Where(p, x) \ {i}
    BY <1>1, <1>3, <1>4 DEF Where
  <1> QED
    BY <1>2, <1>3, <1>4, <1>5, <1>6 DEF Replaces

\* How many buckets are in a state.
LEMMA Counted ==
    ASSUME NEW p, p.buckets \in Seq(BucketValues), NEW x
    PROVE  /\ Where(p, x) \subseteq 1..Capacity(p) /\ IsFiniteSet(Where(p, x))
           /\ Cardinality(Where(p, x)) \in Nat
           /\ \A i \in Where(p, x) : Cardinality(Where(p, x) \ {i}) = Cardinality(Where(p, x)) - 1
           /\ \A i : i \notin Where(p, x) =>
                 Cardinality(Where(p, x) \cup {i}) = Cardinality(Where(p, x)) + 1
           /\ Cardinality(Where(p, x)) = 0 <=> Where(p, x) = {}
  <1>1. Where(p, x) \subseteq 1..Capacity(p) /\ Capacity(p) \in Nat
    BY Zenon, Places DEF Where
  <1>2. IsFiniteSet(1..Capacity(p))
    BY <1>1, FS_Interval
  <1>3. IsFiniteSet(Where(p, x))
    BY <1>1, <1>2, FS_Subset
  <1>4. Cardinality(Where(p, x)) \in Nat
    BY <1>3, FS_CardinalityType
  <1>5. \A i \in Where(p, x) : Cardinality(Where(p, x) \ {i}) = Cardinality(Where(p, x)) - 1
    BY Zenon, <1>3, FS_RemoveElement
  <1>6. \A i : i \notin Where(p, x) => Cardinality(Where(p, x) \cup {i}) = Cardinality(Where(p, x)) + 1
    BY Zenon, <1>3, FS_AddElement
  <1>7. Cardinality(Where(p, x)) = 0 <=> Where(p, x) = {}
    BY <1>3, FS_EmptySet
  <1> QED
    BY <1>1, <1>3, <1>4, <1>5, <1>6, <1>7

\* Buckets that are neither used nor deleted are empty.
LEMMA RoomIsEmpty ==
    ASSUME NEW p, p.buckets \in Seq(BucketValues),
           Cardinality(Where(p, "entry")) + Cardinality(Where(p, "deleted")) < Capacity(p)
    PROVE  Where(p, "empty") # {}
  <1> SUFFICES ASSUME Where(p, "empty") = {} PROVE FALSE
    OBVIOUS
  <1> DEFINE E == Where(p, "entry")
             D == Where(p, "deleted")
  <1>1. /\ IsFiniteSet(E) /\ IsFiniteSet(D) /\ Cardinality(E) \in Nat /\ Cardinality(D) \in Nat
        /\ Capacity(p) \in Nat
    BY Counted, Places
  <1>2. E \cap D = {}
    BY DEF Where
  <1>3. E \cup D = 1..Capacity(p)
    <2>1. \A i \in 1..Capacity(p) : p.buckets[i].st \in {"empty", "deleted", "entry"}
      BY Places, BucketShape
    <2>2. DOMAIN p.buckets = 1..Capacity(p)
      BY Places
    <2> QED
      BY <2>1, <2>2 DEF Where
  <1>4. Cardinality(1..Capacity(p)) = Capacity(p)
    BY <1>1, FS_Interval
  <1>5. Cardinality(E \cup D) = Cardinality(E) + Cardinality(D) - Cardinality(E \cap D)
    BY <1>1, FS_Union
  <1>6. Cardinality(E \cap D) = 0
    BY Zenon, <1>2, FS_EmptySet
  <1>7. Cardinality(E) + Cardinality(D) < Capacity(p)
    OBVIOUS
  <1> HIDE DEF E, D
  <1>8. Cardinality(E \cup D) = Capacity(p)
    BY Zenon, <1>3, <1>4
  <1> QED
    BY <1>1, <1>5, <1>6, <1>7, <1>8

---------------------------------------------------------------------------
(* What the operations of the index do *)

\* Two entries are the same if their references are.
LEMMA EntriesAre ==
    ASSUME NEW p, Sound(p)
    PROVE  /\ p.buckets \in Seq(BucketValues) /\ p.live \in Nat /\ p.deleted \in Nat
           /\ Capacity(p) \in Nat
           /\ \A i \in Where(p, "entry") : p.buckets[i] \in Entries(p)
           /\ \A b \in Entries(p) : /\ b = Entry(b.hash, b.ref) /\ b.hash \in Nat /\ b.ref \in Refs
                                    /\ b \in BucketValues /\ b.st = "entry"
           /\ \A b \in Entries(p) : \E i \in Where(p, "entry") : p.buckets[i] = b
           /\ \A a, b \in Entries(p) : a.ref = b.ref => a = b
  <1>1. /\ p.buckets \in Seq(BucketValues) /\ p.live \in Nat /\ p.deleted \in Nat
        /\ \A i, j \in Where(p, "entry") : p.buckets[i].ref = p.buckets[j].ref => i = j
    BY DEF Sound
  <1>2. /\ \A i \in Where(p, "entry") : p.buckets[i] \in Entries(p)
        /\ \A b \in Entries(p) : \E i \in Where(p, "entry") : p.buckets[i] = b
    BY DEF Entries, Where
  <1>3. \A b \in Entries(p) : b \in BucketValues /\ b.st = "entry"
    BY <1>1, Places DEF Entries
  <1>4. \A b \in Entries(p) : b = Entry(b.hash, b.ref) /\ b.hash \in Nat /\ b.ref \in Refs
    BY <1>3, BucketShape
  <1>5. \A a, b \in Entries(p) : a.ref = b.ref => a = b
    BY <1>1, <1>2
  <1>6. Capacity(p) \in Nat
    BY <1>1, Places
  <1> QED
    BY <1>1, <1>2, <1>3, <1>4, <1>5, <1>6

\* MinOf for the places of a search.
LEMMA FirstPlace ==
    ASSUME NEW S, S \subseteq Nat, S # {}
    PROVE  MinOf(S) \in S /\ \A j \in S : MinOf(S) <= j
  <1>1. PICK x \in S : \A y \in S : ~(<<y, x>> \in OpToRel(<, Nat))
    BY Zenon, NatLessThanWellFounded, WFMin
  <1>2. \A y \in S : ~(y < x)
    BY Zenon, <1>1 DEF OpToRel
  <1>3. \E z \in S : \A y \in S : z <= y
    BY <1>2
  <1> QED
    BY Zenon, <1>3 DEF MinOf

\* A bucket that was replaced by one that is not empty leaves every chain whole.
LEMMA ChainsKept ==
    ASSUME NEW p, Sound(p), NEW i \in 1..Capacity(p), NEW v \in BucketValues, v # Empty,
           NEW q, Replaces(p, i, v, q), NEW j \in Where(p, "entry"), j # i
    PROVE  \E k \in 0..(Capacity(q) - 1) :
              /\ At(q, q.buckets[j].hash, k) = j
              /\ \A m \in 0..(k - 1) : q.buckets[At(q, q.buckets[j].hash, m)] # Empty
  <1> DEFINE h == p.buckets[j].hash
  <1>0. p.buckets \in Seq(BucketValues) /\ Capacity(p) \in Nat /\ h \in Nat
    BY EntriesAre
  <1>1. p.buckets \in Seq(BucketValues) /\ Capacity(p) \in Nat /\ h \in Nat /\ j \in 1..Capacity(p)
    BY <1>0, Counted
  <1>2. /\ Capacity(q) = Capacity(p) /\ \A k : At(q, h, k) = At(p, h, k)
        /\ \A n \in 1..Capacity(p) : q.buckets[n] = IF n = i THEN v ELSE p.buckets[n]
    BY DEF Replaces
  <1>3. PICK k \in 0..(Capacity(p) - 1) :
              At(p, h, k) = j /\ \A m \in 0..(k - 1) : p.buckets[At(p, h, m)] # Empty
    BY DEF Sound
  <1>4. q.buckets[j].hash = h
    BY <1>1, <1>2
  <1> HIDE DEF h
  <1>5. ASSUME NEW m \in 0..(k - 1) PROVE q.buckets[At(q, h, m)] # Empty
    <2>1. m \in Nat /\ Capacity(p) # 0
      BY <1>1
    <2>2. At(p, h, m) \in 1..Capacity(p)
      BY <1>1, <2>1, Places
    <2> QED
      BY <1>2, <1>3, <1>5, <2>2
  <1> QED
    BY <1>2, <1>3, <1>4, <1>5

\* Where an insertion puts its entry: in the first empty bucket, or in the first
\* deleted one if that comes before it.
LEMMA InsertPlace ==
    ASSUME NEW p, Sound(p), NEW h \in Nat, p.live + p.deleted < Capacity(p)
    PROVE  \E m \in 0..(Capacity(p) - 1) :
              /\ \A k \in 0..(m - 1) : p.buckets[At(p, h, k)] # Empty
              /\ \/ /\ p.buckets[At(p, h, m)] = Empty
                    /\ \A r : Insert(p, h, r) =
                          [buckets |-> [p.buckets EXCEPT ![At(p, h, m)] = Entry(h, r)],
                           live |-> p.live + 1, deleted |-> p.deleted]
                 \/ /\ p.buckets[At(p, h, m)] = Deleted
                    /\ \A r : Insert(p, h, r) =
                          [buckets |-> [p.buckets EXCEPT ![At(p, h, m)] = Entry(h, r)],
                           live |-> p.live + 1, deleted |-> p.deleted - 1]
  <1> DEFINE c == Capacity(p)
             ends == Offsets(p, h, {Empty})
             dels == {k \in Offsets(p, h, {Deleted}) : \A e \in ends : k < e}
  <1>1. p.buckets \in Seq(BucketValues) /\ c \in Nat /\ c # 0 /\ DOMAIN p.buckets = 1..c
    <2>1. p.buckets \in Seq(BucketValues) /\ c \in Nat /\ p.live \in Nat /\ p.deleted \in Nat
      BY EntriesAre
    <2>2. c # 0
      BY <2>1
    <2> QED
      BY <2>1, <2>2, Places
  <1>2. ends # {}
    <2>1. PICK n \in 1..c : p.buckets[n] = Empty
      <3>1. Where(p, "empty") # {}
        BY <1>1, RoomIsEmpty DEF Sound
      <3>2. PICK n \in 1..c : p.buckets[n].st = "empty"
        BY <1>1, <3>1 DEF Where
      <3>3. p.buckets[n] \in BucketValues
        BY <1>1, Places
      <3> QED
        BY <3>2, <3>3, BucketShape
    <2>2. PICK k \in 0..(c - 1) : 1 + ((h + k) % c) = n
      BY Zenon, <1>1, AllRound
    <2>3. At(p, h, k) = n
      BY <2>2 DEF At
    <2> QED
      BY <2>1, <2>3 DEF Offsets
  <1>3. /\ \A k \in 0..(c - 1) : k \in ends <=> p.buckets[At(p, h, k)] = Empty
        /\ ends \subseteq 0..(c - 1)
        /\ \A k \in dels : k \in 0..(c - 1) /\ p.buckets[At(p, h, k)] = Deleted
        /\ \A k \in dels : \A e \in ends : k < e
    BY DEF Offsets
  <1>4. /\ dels = {} => \A r : Insert(p, h, r) =
               [buckets |-> [p.buckets EXCEPT ![At(p, h, MinOf(ends))] = Entry(h, r)],
                live |-> p.live + 1, deleted |-> p.deleted]
        /\ dels # {} => \A r : Insert(p, h, r) =
               [buckets |-> [p.buckets EXCEPT ![At(p, h, MinOf(dels))] = Entry(h, r)],
                live |-> p.live + 1, deleted |-> p.deleted - 1]
    BY Zenon, <1>2 DEF Insert
  <1> HIDE DEF ends, dels
  <1>5. \A k \in 0..(c - 1) : k \in Nat
    BY <1>1
  <1>6. CASE dels = {}
    <2> DEFINE m == MinOf(ends)
    <2>1. ends \subseteq Nat
      BY <1>3, <1>5
    <2>2. m \in ends /\ \A k \in ends : m <= k
      BY Zenon, <1>2, <2>1, FirstPlace
    <2> HIDE DEF m
    <2>3. m \in 0..(c - 1) /\ p.buckets[At(p, h, m)] = Empty
      BY <1>3, <2>2
    <2>4. ASSUME NEW k \in 0..(m - 1) PROVE p.buckets[At(p, h, k)] # Empty
      <3>1. k \in 0..(c - 1) /\ ~(m <= k)
        BY <1>1, <2>3
      <3> QED
        BY <1>3, <2>2, <3>1
    <2> QED
      BY <1>4, <1>6, <2>3, <2>4 DEF m
  <1>7. CASE dels # {}
    <2> DEFINE m == MinOf(dels)
    <2>1. dels \subseteq Nat
      BY <1>3, <1>5
    <2>2. m \in dels
      BY Zenon, <1>7, <2>1, FirstPlace
    <2> HIDE DEF m
    <2>3. m \in 0..(c - 1) /\ p.buckets[At(p, h, m)] = Deleted /\ \A e \in ends : m < e
      BY <1>3, <2>2
    <2>4. ASSUME NEW k \in 0..(m - 1) PROVE p.buckets[At(p, h, k)] # Empty
      <3>1. k \in 0..(c - 1) /\ ~(m < k)
        BY <1>1, <2>3
      <3> QED
        BY <1>3, <2>3, <3>1
    <2> QED
      BY <1>4, <1>7, <2>3, <2>4 DEF m
  <1> QED
    BY <1>6, <1>7

\* ShortStringIndex::insert files the reference and loses nothing.
LEMMA InsertFacts ==
    ASSUME NEW p, Sound(p), NEW h \in Nat, NEW r \in Refs, Entry(h, r) \in BucketValues,
           \A b \in Entries(p) : b.ref # r, p.live + p.deleted < Capacity(p)
    PROVE  LET q == Insert(p, h, r)
           IN  /\ Sound(q) /\ Capacity(q) = Capacity(p)
               /\ Entries(q) = Entries(p) \cup {Entry(h, r)}
               /\ q.live = p.live + 1 /\ q.deleted <= p.deleted
  <1> DEFINE c == Capacity(p)
             q == Insert(p, h, r)
             v == Entry(h, r)
  <1>1. /\ p.buckets \in Seq(BucketValues) /\ c \in Nat /\ p.live \in Nat /\ p.deleted \in Nat
        /\ c # 0 /\ DOMAIN p.buckets = 1..c
        /\ \A k \in 0..(c - 1) : At(p, h, k) \in 1..c
        /\ p.live = Cardinality(Where(p, "entry")) /\ p.deleted = Cardinality(Where(p, "deleted"))
    <2>1. p.buckets \in Seq(BucketValues) /\ c \in Nat /\ p.live \in Nat /\ p.deleted \in Nat
      BY EntriesAre
    <2>2. c # 0
      BY <2>1
    <2>3. \A k \in 0..(c - 1) : k \in Nat
      BY <2>1
    <2>4. DOMAIN p.buckets = 1..c /\ \A k \in 0..(c - 1) : At(p, h, k) \in 1..c
      BY <2>1, <2>2, <2>3, Places
    <2> QED
      BY <2>1, <2>2, <2>4 DEF Sound
  <1>2. PICK m \in 0..(c - 1) :
              /\ \A k \in 0..(m - 1) : p.buckets[At(p, h, k)] # Empty
              /\ \/ /\ p.buckets[At(p, h, m)] = Empty
                    /\ q = [buckets |-> [p.buckets EXCEPT ![At(p, h, m)] = v],
                            live |-> p.live + 1, deleted |-> p.deleted]
                 \/ /\ p.buckets[At(p, h, m)] = Deleted
                    /\ q = [buckets |-> [p.buckets EXCEPT ![At(p, h, m)] = v],
                            live |-> p.live + 1, deleted |-> p.deleted - 1]
    BY InsertPlace
  <1> DEFINE i == At(p, h, m)
  <1>5. i \in 1..c /\ \A k \in 0..(m - 1) : p.buckets[At(p, h, k)] # Empty
    BY <1>1, <1>2
  <1>7. v.st = "entry" /\ v.hash = h /\ v.ref = r /\ v # Empty /\ v \in BucketValues
    BY BucketShape
  <1> HIDE DEF v, q
  <1>6. /\ q = [buckets |-> q.buckets, live |-> q.live, deleted |-> q.deleted]
        /\ q.buckets = [p.buckets EXCEPT ![i] = v] /\ q.live = p.live + 1
        /\ \/ p.buckets[i] = Empty /\ q.deleted = p.deleted
           \/ p.buckets[i] = Deleted /\ q.deleted = p.deleted - 1
    BY <1>2
  <1>8. p.buckets[i].st # "entry"
    BY <1>6, BucketShape
  <1> HIDE DEF i
  <1>9. Replaces(p, i, v, q)
    BY Zenon, <1>1, <1>5, <1>6, <1>7, Replaced
  <1>10. /\ q.buckets \in Seq(BucketValues) /\ Capacity(q) = c
         /\ \A j \in 1..c : q.buckets[j] = IF j = i THEN v ELSE p.buckets[j]
         /\ \A g, k : At(q, g, k) = At(p, g, k)
         /\ \A x : Where(q, x) = IF v.st = x THEN Where(p, x) \cup {i} ELSE Where(p, x) \ {i}
    BY <1>9 DEF Replaces
  <1>11. i \notin Where(p, "entry") /\ (i \in Where(p, "deleted") <=> p.buckets[i].st = "deleted")
    BY <1>1, <1>5, <1>8 DEF Where
  <1>12. q.live = Cardinality(Where(q, "entry"))
    <2>1. Where(q, "entry") = Where(p, "entry") \cup {i}
      BY <1>7, <1>10
    <2>2. Cardinality(Where(p, "entry") \cup {i}) = Cardinality(Where(p, "entry")) + 1
      BY <1>1, <1>11, Counted
    <2> QED
      BY Zenon, <1>1, <1>6, <2>1, <2>2
  <1>13. q.deleted = Cardinality(Where(q, "deleted")) /\ q.deleted \in Nat /\ q.deleted <= p.deleted
    <2>1. Where(q, "deleted") = Where(p, "deleted") \ {i}
      BY <1>7, <1>10
    <2>2. CASE p.buckets[i] = Empty /\ q.deleted = p.deleted
      <3>1. Where(q, "deleted") = Where(p, "deleted")
        BY <1>11, <2>1, <2>2, BucketShape
      <3> QED
        BY <1>1, <2>2, <3>1
    <2>3. CASE p.buckets[i] = Deleted /\ q.deleted = p.deleted - 1
      <3>1. i \in Where(p, "deleted")
        BY <1>11, <2>3, BucketShape
      <3>2. Cardinality(Where(p, "deleted") \ {i}) = p.deleted - 1
        BY <1>1, <3>1, Counted
      <3>3. p.deleted # 0
        BY <1>1, <3>1, Counted
      <3>4. q.deleted = Cardinality(Where(q, "deleted"))
        BY Zenon, <2>1, <2>3, <3>2
      <3> QED
        BY <1>1, <2>3, <3>3, <3>4
    <2> QED
      BY <1>6, <2>2, <2>3
  <1>14. Entries(q) = Entries(p) \cup {v}
    <2>1. DOMAIN q.buckets = 1..c
      BY <1>10, Places
    <2>2. Entries(q) = {b \in {q.buckets[j] : j \in 1..c} : b.st = "entry"}
      BY <2>1 DEF Entries
    <2>3. Entries(p) = {b \in {p.buckets[j] : j \in 1..c} : b.st = "entry"}
      BY <1>1 DEF Entries
    <2>4. ASSUME NEW b \in Entries(q) PROVE b \in Entries(p) \cup {v}
      <3>1. PICK j \in 1..c : b = q.buckets[j] /\ b.st = "entry"
        BY <2>2, <2>4
      <3> QED
        BY <1>10, <2>3, <3>1
    <2>5. ASSUME NEW b \in Entries(p) PROVE b \in Entries(q)
      <3>1. PICK j \in 1..c : b = p.buckets[j] /\ b.st = "entry"
        BY <2>3, <2>5
      <3>2. j # i
        BY <1>8, <3>1
      <3> QED
        BY <1>10, <2>2, <3>1, <3>2
    <2>6. v \in Entries(q)
      BY <1>5, <1>7, <1>10, <2>2
    <2> QED
      BY <2>4, <2>5, <2>6
  <1>15. ASSUME NEW j \in Where(q, "entry"), NEW k \in Where(q, "entry"),
                q.buckets[j].ref = q.buckets[k].ref
         PROVE  j = k
    <2>1. Where(q, "entry") = Where(p, "entry") \cup {i} /\ Where(p, "entry") \subseteq 1..c
      BY <1>1, <1>7, <1>10, Counted
    <2>2. \A n \in Where(p, "entry") : q.buckets[n] = p.buckets[n] /\ p.buckets[n].ref # r
      <3>1. \A n \in Where(p, "entry") : p.buckets[n] \in Entries(p)
        BY EntriesAre
      <3> QED
        BY <1>10, <1>11, <2>1, <3>1
    <2>3. q.buckets[i].ref = r
      BY <1>5, <1>7, <1>10
    <2>4. \A n, o \in Where(p, "entry") : p.buckets[n].ref = p.buckets[o].ref => n = o
      BY DEF Sound
    <2> QED
      BY <1>15, <2>1, <2>2, <2>3, <2>4
  <1>16. ASSUME NEW j \in Where(q, "entry")
         PROVE  \E k \in 0..(Capacity(q) - 1) :
                   /\ At(q, q.buckets[j].hash, k) = j
                   /\ \A n \in 0..(k - 1) : q.buckets[At(q, q.buckets[j].hash, n)] # Empty
    <2>1. CASE j # i
      <3>1. j \in Where(p, "entry")
        BY <1>7, <1>10, <1>16, <2>1
      <3> QED
        BY <1>5, <1>7, <1>9, <2>1, <3>1, ChainsKept
    <2>2. CASE j = i
      <3>1. q.buckets[j].hash = h
        BY <1>5, <1>7, <1>10, <2>2
      <3>2. ASSUME NEW n \in 0..(m - 1) PROVE q.buckets[At(q, h, n)] # Empty
        <4>1. n \in 0..(c - 1)
          BY <1>1, <3>2
        <4>2. At(p, h, n) \in 1..c
          BY <1>1, <4>1
        <4> QED
          BY <1>5, <1>7, <1>10, <3>2, <4>2
      <3>3. At(q, h, m) = i
        BY <1>10 DEF i
      <3> QED
        BY <1>10, <2>2, <3>1, <3>2, <3>3
    <2> QED
      BY <2>1, <2>2
  <1>17. q \in [buckets : Seq(BucketValues), live : Nat, deleted : Nat]
    <2>1. q.live \in Nat
      BY <1>1, <1>6
    <2> QED
      BY <1>6, <1>10, <1>13, <2>1
  <1>18. Capacity(q) = 0 \/ Capacity(q) >= 4
    BY <1>10 DEF Sound
  <1>19. Sound(q)
    BY <1>12, <1>13, <1>15, <1>16, <1>17, <1>18 DEF Sound
  <1> QED
    BY <1>6, <1>10, <1>13, <1>14, <1>19 DEF v, q

\* The index without buckets.
LEMMA NoPoolFacts ==
    /\ Sound(NoPool) /\ Capacity(NoPool) = 0 /\ Entries(NoPool) = {}
    /\ NoPool.buckets = <<>> /\ NoPool.live = 0 /\ NoPool.deleted = 0
    /\ \A p : Sound(p) /\ Capacity(p) = 0 => p = NoPool
  <1>1. NoPool.buckets = <<>> /\ NoPool.live = 0 /\ NoPool.deleted = 0
    BY DEF NoPool
  <1>2. Capacity(NoPool) = 0 /\ NoPool.buckets \in Seq(BucketValues) /\ DOMAIN NoPool.buckets = {}
    BY <1>1 DEF Capacity
  <1>3. Entries(NoPool) = {} /\ \A x : Where(NoPool, x) = {}
    BY <1>2 DEF Entries, Where
  <1>4. Cardinality({}) = 0
    BY FS_EmptySet
  <1>5. NoPool \in [buckets : Seq(BucketValues), live : Nat, deleted : Nat]
    BY <1>2 DEF NoPool
  <1>6. Sound(NoPool)
    BY Zenon, <1>1, <1>2, <1>3, <1>4, <1>5 DEF Sound
  <1>7. ASSUME NEW p, Sound(p), Capacity(p) = 0 PROVE p = NoPool
    <2>1. p \in [buckets : Seq(BucketValues), live : Nat, deleted : Nat]
      BY <1>7 DEF Sound
    <2>2. p.buckets = <<>> /\ 1..Capacity(p) = {}
      BY <1>7, <2>1, Places
    <2>3. \A x : Where(p, x) = {}
      BY <2>1, <2>2, Counted
    <2>4. p.live = 0 /\ p.deleted = 0
      BY Zenon, <1>4, <1>7, <2>3 DEF Sound
    <2> QED
      BY <2>1, <2>2, <2>4 DEF NoPool
  <1> QED
    BY <1>1, <1>2, <1>3, <1>6, <1>7

\* Where the removal of an entry finds it.
LEMMA RemovePlace ==
    ASSUME NEW p, Sound(p), NEW h \in Nat, NEW r, Entry(h, r) \in Entries(p)
    PROVE  \E m \in 0..(Capacity(p) - 1) :
              /\ p.buckets[At(p, h, m)] = Entry(h, r)
              /\ Remove(p, h, r) =
                    IF p.live = 1 THEN NoPool
                    ELSE [buckets |-> [p.buckets EXCEPT ![At(p, h, m)] = Deleted],
                          live |-> p.live - 1, deleted |-> p.deleted + 1]
  <1> DEFINE c == Capacity(p)
             ends == Offsets(p, h, {Empty})
             hits == {k \in Offsets(p, h, {Entry(h, r)}) : \A e \in ends : k < e}
  <1>1. PICK j \in Where(p, "entry") : p.buckets[j] = Entry(h, r)
    BY EntriesAre
  <1>2. p.buckets[j].hash = h /\ c \in Nat /\ Entry(h, r) # Empty
    BY <1>1, EntriesAre, BucketShape
  <1>3. PICK k \in 0..(c - 1) : /\ At(p, h, k) = j
                                /\ \A n \in 0..(k - 1) : p.buckets[At(p, h, n)] # Empty
    BY Zenon, <1>1, <1>2 DEF Sound
  <1>4. /\ \A e \in ends : e \in 0..(c - 1) /\ p.buckets[At(p, h, e)] = Empty
        /\ \A n \in 0..(c - 1) :
              n \in hits <=> p.buckets[At(p, h, n)] = Entry(h, r) /\ \A e \in ends : n < e
        /\ hits \subseteq 0..(c - 1)
        /\ hits # {} => Remove(p, h, r) =
                           IF p.live = 1 THEN NoPool
                           ELSE [buckets |-> [p.buckets EXCEPT ![At(p, h, MinOf(hits))] = Deleted],
                                 live |-> p.live - 1, deleted |-> p.deleted + 1]
    BY DEF Offsets, Remove
  <1> HIDE DEF ends, hits
  <1>5. ASSUME NEW e \in ends PROVE k < e
    <2>1. e # k
      BY <1>1, <1>2, <1>3, <1>4
    <2>2. e \notin 0..(k - 1)
      BY <1>3, <1>4
    <2>3. e \in 0..(c - 1)
      BY <1>4
    <2> QED
      BY <1>2, <2>1, <2>2, <2>3
  <1>6. k \in hits
    BY <1>1, <1>3, <1>4, <1>5
  <1>7. hits \subseteq Nat
    BY <1>2, <1>4
  <1>8. MinOf(hits) \in hits
    BY Zenon, <1>6, <1>7, FirstPlace
  <1> QED
    BY Zenon, <1>4, <1>6, <1>8

\* ShortStringIndex::remove takes out the entry of the reference and no other.
LEMMA RemoveFacts ==
    ASSUME NEW p, Sound(p), NEW h \in Nat, NEW r
    PROVE  LET q == Remove(p, h, r)
           IN  /\ Sound(q) /\ Entries(q) = Entries(p) \ {Entry(h, r)}
               /\ \/ q = p
                  \/ q = NoPool
                  \/ /\ Capacity(q) = Capacity(p) /\ q.live > 0
                     /\ q.live + q.deleted = p.live + p.deleted
  <1> DEFINE c == Capacity(p)
             q == Remove(p, h, r)
  <1>1. /\ p.buckets \in Seq(BucketValues) /\ c \in Nat /\ p.live \in Nat /\ p.deleted \in Nat
        /\ DOMAIN p.buckets = 1..c
        /\ p.live = Cardinality(Where(p, "entry")) /\ p.deleted = Cardinality(Where(p, "deleted"))
    BY EntriesAre, Places DEF Sound
  <1>2. CASE Entry(h, r) \notin Entries(p)
    <2>1. Offsets(p, h, {Entry(h, r)}) = {}
      <3> SUFFICES ASSUME NEW k \in 0..(c - 1), p.buckets[At(p, h, k)] = Entry(h, r) PROVE FALSE
        BY DEF Offsets
      <3>1. k \in Nat /\ c # 0
        BY <1>1
      <3>2. At(p, h, k) \in 1..c
        BY <1>1, <3>1, Places
      <3>3. Entry(h, r) \in Entries(p)
        BY <1>1, <3>2, BucketShape DEF Entries
      <3> QED
        BY <1>2, <3>3
    <2>2. q = p
      BY Zenon, <2>1 DEF Remove
    <2> QED
      BY <1>2, <2>2
  <1>3. CASE Entry(h, r) \in Entries(p)
    <2>1. PICK m \in 0..(c - 1) :
              /\ p.buckets[At(p, h, m)] = Entry(h, r)
              /\ q = IF p.live = 1 THEN NoPool
                     ELSE [buckets |-> [p.buckets EXCEPT ![At(p, h, m)] = Deleted],
                           live |-> p.live - 1, deleted |-> p.deleted + 1]
      BY <1>3, RemovePlace
    <2> DEFINE i == At(p, h, m)
    <2>2. m \in Nat /\ c # 0
      BY <1>1
    <2>3. i \in 1..c
      BY Zenon, <1>1, <2>2, Places
    <2> HIDE DEF q
    <2>4. p.buckets[i] = Entry(h, r) /\ i \in Where(p, "entry")
      BY <1>1, <2>1, <2>3, BucketShape DEF Where
    <2>5. CASE p.live = 1
      <3>1. q = NoPool
        BY <2>1, <2>5
      <3>2. PICK x : Where(p, "entry") = {x}
        BY Zenon, <1>1, <2>5, Counted, FS_Singleton
      <3>3. Where(p, "entry") = {i}
        BY <2>4, <3>2
      <3>4. Entries(p) = {Entry(h, r)}
        BY <1>3, <2>4, <3>3, EntriesAre
      <3> QED
        BY <3>1, <3>4, NoPoolFacts DEF q
    <2>6. CASE p.live # 1
      <3>1. /\ q.buckets = [p.buckets EXCEPT ![i] = Deleted] /\ q.live = p.live - 1
            /\ q.deleted = p.deleted + 1
            /\ q = [buckets |-> q.buckets, live |-> q.live, deleted |-> q.deleted]
        BY <2>1, <2>6
      <3> HIDE DEF i
      <3>2. Replaces(p, i, Deleted, q)
        BY <1>1, <2>3, <3>1, BucketShape, Replaced
      <3>3. /\ q.buckets \in Seq(BucketValues) /\ Capacity(q) = c
            /\ \A j \in 1..c : q.buckets[j] = IF j = i THEN Deleted ELSE p.buckets[j]
            /\ Where(q, "entry") = Where(p, "entry") \ {i}
            /\ Where(q, "deleted") = Where(p, "deleted") \cup {i}
        BY <3>2, BucketShape DEF Replaces
      <3>4. p.live # 0 /\ q.live = Cardinality(Where(q, "entry"))
        <4>1. Cardinality(Where(p, "entry") \ {i}) = Cardinality(Where(p, "entry")) - 1
          BY <1>1, <2>4, Counted
        <4>2. Cardinality(Where(p, "entry")) # 0
          BY <1>1, <2>4, Counted
        <4> QED
          BY Zenon, <1>1, <3>1, <3>3, <4>1, <4>2
      <3>5. q.deleted = Cardinality(Where(q, "deleted"))
        <4>1. i \notin Where(p, "deleted")
          BY <2>4 DEF Where
        <4>2. Cardinality(Where(p, "deleted") \cup {i}) = Cardinality(Where(p, "deleted")) + 1
          BY <1>1, <4>1, Counted
        <4> QED
          BY Zenon, <1>1, <3>1, <3>3, <4>2
      <3>6. q.live \in Nat /\ q.live > 0 /\ q.deleted \in Nat /\ q.live + q.deleted = p.live + p.deleted
        BY <1>1, <2>6, <3>1, <3>4
      <3>7. Where(p, "entry") \subseteq 1..c
        BY <1>1, Counted
      <3>8. \A j \in Where(q, "entry") : q.buckets[j] = p.buckets[j] /\ j # i /\ j \in Where(p, "entry")
        BY <3>3, <3>7
      <3>9. \A j, k \in Where(q, "entry") : q.buckets[j].ref = q.buckets[k].ref => j = k
        BY <3>8 DEF Sound
      <3>10. ASSUME NEW j \in Where(q, "entry")
             PROVE  \E k \in 0..(Capacity(q) - 1) :
                       /\ At(q, q.buckets[j].hash, k) = j
                       /\ \A n \in 0..(k - 1) : q.buckets[At(q, q.buckets[j].hash, n)] # Empty
        <4>1. j \in Where(p, "entry") /\ j # i
          BY <3>8
        <4>2. Deleted \in BucketValues /\ Deleted # Empty
          BY BucketShape
        <4> QED
          BY <2>3, <3>2, <4>1, <4>2, ChainsKept
      <3>11. Capacity(q) = 0 \/ Capacity(q) >= 4
        BY <3>3 DEF Sound
      <3>12. q \in [buckets : Seq(BucketValues), live : Nat, deleted : Nat]
        BY <3>1, <3>3, <3>6
      <3>13. Sound(q)
        BY <3>4, <3>5, <3>9, <3>10, <3>11, <3>12 DEF Sound
      <3>14. ASSUME NEW b PROVE b \in Entries(q) <=> b \in Entries(p) /\ b # Entry(h, r)
        <4>1. ASSUME b \in Entries(q) PROVE b \in Entries(p) /\ b # Entry(h, r)
          <5>1. PICK j \in Where(q, "entry") : q.buckets[j] = b
            BY <3>13, <4>1, EntriesAre
          <5>2. b = p.buckets[j] /\ j # i /\ j \in Where(p, "entry")
            BY <3>8, <5>1
          <5>3. b \in Entries(p)
            BY <5>2, EntriesAre
          <5>4. b # Entry(h, r)
            BY <2>4, <5>2 DEF Sound
          <5> QED
            BY <5>3, <5>4
        <4>2. ASSUME b \in Entries(p), b # Entry(h, r) PROVE b \in Entries(q)
          <5>1. PICK j \in Where(p, "entry") : p.buckets[j] = b
            BY <4>2, EntriesAre
          <5>2. j \in Where(q, "entry")
            BY <2>4, <3>3, <4>2, <5>1
          <5> QED
            BY <3>8, <3>13, <5>1, <5>2, EntriesAre
        <4> QED
          BY <4>1, <4>2
      <3>15. Entries(q) = Entries(p) \ {Entry(h, r)}
        BY <3>14
      <3> QED
        BY <3>3, <3>6, <3>13, <3>15 DEF q
    <2> QED
      BY <2>5, <2>6
  <1> QED
    BY <1>2, <1>3

---------------------------------------------------------------------------
(* Moving the entries to other buckets *)

\* Induction up to c.
LEMMA UpTo ==
    ASSUME NEW c \in Nat, NEW S, 0 \in S, \A k \in 0..c : k \in S /\ k # c => k + 1 \in S
    PROVE  0..c \subseteq S
  <1> DEFINE T == {k \in 0..c : k \notin S}
  <1> SUFFICES ASSUME T # {} PROVE FALSE
    OBVIOUS
  <1>1. T \subseteq Nat
    OBVIOUS
  <1>2. PICK x \in T : \A y \in T : x <= y
    BY Zenon, <1>1, FirstPlace
  <1>3. x \in 0..c /\ x \notin S /\ x # 0
    BY <1>2
  <1>4. x - 1 \in 0..c /\ x - 1 # c /\ (x - 1) + 1 = x /\ ~(x <= x - 1)
    BY <1>3
  <1>5. x - 1 \in S
    BY <1>2, <1>4
  <1> QED
    BY <1>3, <1>4, <1>5

\* The indexes on the way from p to one with n buckets, after the first c
\* buckets of p.
Blank(n) == [buckets |-> [i \in 1..n |-> Empty], live |-> 0, deleted |-> 0]
Filled(p, n, c, f) ==
    f = [k \in 0..c |->
            IF k = 0 THEN [buckets |-> [i \in 1..n |-> Empty], live |-> 0, deleted |-> 0]
            ELSE IF p.buckets[k].st # "entry" THEN f[k - 1]
            ELSE Insert(f[k - 1], p.buckets[k].hash, p.buckets[k].ref)]

LEMMA FilledExists ==
    ASSUME NEW p, NEW n, NEW c \in Nat
    PROVE  \E f : Filled(p, n, c, f)
  <1> DEFINE S == {k \in 0..c : \E f : Filled(p, n, k, f)}
             G(k, b) == IF p.buckets[k].st # "entry" THEN b
                        ELSE Insert(b, p.buckets[k].hash, p.buckets[k].ref)
  <1>0. \A k \in Nat : \A f : Filled(p, n, k, f) <=>
           f = [j \in 0..k |-> IF j = 0 THEN Blank(n) ELSE G(j, f[j - 1])]
    BY DEF Filled, Blank
  <1> HIDE DEF G
  <1>1. 0 \in S
    <2> DEFINE f == [j \in 0..0 |-> Blank(n)]
    <2>1. \A j \in 0..0 : j = 0
      OBVIOUS
    <2>2. f = [j \in 0..0 |-> IF j = 0 THEN Blank(n) ELSE G(j, f[j - 1])]
      BY <2>1
    <2>3. Filled(p, n, 0, f)
      BY Zenon, <1>0, <2>2
    <2> QED
      BY <2>3
  <1>2. ASSUME NEW k \in 0..c, k \in S, k # c PROVE k + 1 \in S
    <2>1. PICK f : Filled(p, n, k, f)
      BY <1>2
    <2>2. f = [j \in 0..k |-> IF j = 0 THEN Blank(n) ELSE G(j, f[j - 1])] /\ k \in Nat /\ k + 1 \in 0..c
      BY <1>0, <1>2, <2>1
    <2> DEFINE g == [j \in 0..(k + 1) |-> IF j = k + 1 THEN G(k + 1, f[k]) ELSE f[j]]
    <2>3. ASSUME NEW j \in 0..(k + 1)
          PROVE  g[j] = IF j = 0 THEN Blank(n) ELSE G(j, g[j - 1])
      <3>1. CASE j = k + 1
        <4>1. g[j] = G(k + 1, f[k]) /\ j # 0 /\ j - 1 = k /\ k \in 0..(k + 1) /\ k # k + 1
          BY <2>2, <3>1
        <4>2. g[k] = f[k]
          BY <4>1
        <4> QED
          BY <3>1, <4>1, <4>2
      <3>2. CASE j = 0
        <4>1. 0 # k + 1 /\ 0 \in 0..k /\ 0 \in 0..(k + 1)
          BY <2>2
        <4> QED
          BY <2>2, <3>2, <4>1
      <3>3. CASE j # 0 /\ j # k + 1
        <4>1. j \in 0..k /\ j - 1 \in 0..(k + 1) /\ j - 1 # k + 1
          BY <2>2, <3>3
        <4>2. g[j] = f[j] /\ g[j - 1] = f[j - 1]
          BY <3>3, <4>1
        <4>3. f[j] = G(j, f[j - 1])
          BY <2>2, <3>3, <4>1
        <4> QED
          BY <3>3, <4>2, <4>3
      <3> QED
        BY <3>1, <3>2, <3>3
    <2>4. g = [j \in 0..(k + 1) |-> IF j = 0 THEN Blank(n) ELSE G(j, g[j - 1])]
      <3>1. g = [j \in 0..(k + 1) |-> g[j]]
        OBVIOUS
      <3> HIDE DEF g
      <3> QED
        BY Zenon, <2>3, <3>1
    <2>5. Filled(p, n, k + 1, g)
      <3>1. k + 1 \in Nat
        BY <2>2
      <3> HIDE DEF g
      <3> QED
        BY <1>0, <2>4, <3>1
    <2> QED
      BY <2>2, <2>5
  <1>3. 0..c \subseteq S
    <2> HIDE DEF S
    <2> QED
      BY <1>1, <1>2, UpTo
  <1>4. c \in 0..c
    OBVIOUS
  <1> QED
    BY <1>3, <1>4

LEMMA RebuiltIsFilled ==
    ASSUME NEW p, NEW n, Capacity(p) \in Nat
    PROVE  \E f : Filled(p, n, Capacity(p), f) /\ Rebuilt(p, n) = f[Capacity(p)]
  <1> DEFINE f == CHOOSE g : Filled(p, n, Capacity(p), g)
  <1>1. Filled(p, n, Capacity(p), f)
    BY FilledExists
  <1>2. Rebuilt(p, n) = f[Capacity(p)]
    BY DEF Rebuilt, Filled
  <1> QED
    BY Zenon, <1>1, <1>2

\* n empty buckets.
LEMMA BlankFacts ==
    ASSUME NEW n \in Nat, n >= 4
    PROVE  /\ Sound(Blank(n)) /\ Capacity(Blank(n)) = n /\ Entries(Blank(n)) = {}
           /\ Blank(n).live = 0 /\ Blank(n).deleted = 0
  <1> DEFINE q == Blank(n)
  <1>1. q.buckets = [i \in 1..n |-> Empty] /\ q.live = 0 /\ q.deleted = 0
    BY DEF Blank
  <1>2. q = [buckets |-> q.buckets, live |-> q.live, deleted |-> q.deleted]
    BY DEF Blank
  <1> HIDE DEF q
  <1>3. q.buckets \in Seq(BucketValues) /\ Len(q.buckets) = n
    BY <1>1, BucketShape
  <1>4. Capacity(q) = n /\ DOMAIN q.buckets = 1..n
    BY <1>1, <1>3 DEF Capacity
  <1>5. \A i \in 1..n : q.buckets[i].st = "empty"
    BY <1>1, BucketShape
  <1>6. Where(q, "entry") = {} /\ Where(q, "deleted") = {} /\ Entries(q) = {}
    BY <1>4, <1>5 DEF Where, Entries
  <1>7. q \in [buckets : Seq(BucketValues), live : Nat, deleted : Nat]
    BY <1>1, <1>2, <1>3
  <1>8. Cardinality({}) = 0
    BY FS_EmptySet
  <1>9. Sound(q)
    BY Zenon, <1>1, <1>4, <1>6, <1>7, <1>8 DEF Sound
  <1> QED
    BY <1>1, <1>4, <1>6, <1>9 DEF q

\* The entries in the first k buckets.
First(p, k) == {j \in Where(p, "entry") : j <= k}

\* Moved to n buckets, the entries are the same and no deleted bucket is left.
LEMMA RebuiltFacts ==
    ASSUME NEW p, Sound(p), NEW n \in Nat, n >= 4, p.live < n
    PROVE  LET q == Rebuilt(p, n)
           IN  /\ Sound(q) /\ Capacity(q) = n /\ Entries(q) = Entries(p)
               /\ q.live = p.live /\ q.deleted = 0
  <1> DEFINE c == Capacity(p)
  <1>1. /\ p.buckets \in Seq(BucketValues) /\ c \in Nat /\ p.live \in Nat
        /\ DOMAIN p.buckets = 1..c /\ p.live = Cardinality(Where(p, "entry"))
        /\ Where(p, "entry") \subseteq 1..c /\ IsFiniteSet(Where(p, "entry"))
    BY EntriesAre, Places, Counted DEF Sound
  <1>2. PICK f : Filled(p, n, c, f) /\ Rebuilt(p, n) = f[c]
    BY <1>1, RebuiltIsFilled
  <1> DEFINE Good(k) ==
                 /\ Sound(f[k]) /\ Capacity(f[k]) = n /\ f[k].deleted = 0
                 /\ f[k].live = Cardinality(First(p, k))
                 /\ Entries(f[k]) = {p.buckets[j] : j \in First(p, k)}
             S == {k \in 0..c : Good(k)}
  <1>3. 0 \in S
    <2>1. f[0] = Blank(n)
      <3>1. 0 \in 0..c
        BY <1>1
      <3> HIDE DEF c
      <3> QED
        BY <1>2, <3>1 DEF Filled, Blank
    <2>2. First(p, 0) = {}
      BY <1>1 DEF First
    <2>3. Cardinality({}) = 0
      BY FS_EmptySet
    <2>4. {p.buckets[j] : j \in First(p, 0)} = {}
      BY <2>2
    <2>5. Good(0)
      BY <2>1, <2>2, <2>3, <2>4, BlankFacts
    <2>6. 0 \in 0..c
      BY <1>1
    <2> HIDE DEF Good
    <2> QED
      BY <2>5, <2>6
  <1>4. ASSUME NEW k \in 0..c, k \in S, k # c PROVE k + 1 \in S
    <2>1. k + 1 \in 0..c /\ k + 1 \in 1..c /\ k + 1 # 0 /\ (k + 1) - 1 = k
      BY <1>1, <1>4
    <2>2. Good(k)
      BY <1>4
    <2> HIDE DEF Good
    <2>3. f[k + 1] = IF p.buckets[k + 1].st # "entry" THEN f[k]
                     ELSE Insert(f[k], p.buckets[k + 1].hash, p.buckets[k + 1].ref)
      BY <1>2, <2>1 DEF Filled
    <2>4. \A j \in 1..c : j <= k + 1 <=> j <= k \/ j = k + 1
      BY <2>1
    <2>5. CASE p.buckets[k + 1].st # "entry"
      <3>1. k + 1 \notin Where(p, "entry")
        BY <2>5 DEF Where
      <3>2. First(p, k + 1) = First(p, k)
        BY <1>1, <2>4, <3>1 DEF First
      <3>3. Good(k + 1)
        BY <2>2, <2>3, <2>5, <3>2 DEF Good
      <3> QED
        BY <2>1, <3>3
    <2>6. CASE p.buckets[k + 1].st = "entry"
      <3> DEFINE b == p.buckets[k + 1]
                 q == f[k]
                 E == First(p, k)
      <3>1. k + 1 \in Where(p, "entry")
        BY <1>1, <2>1, <2>6 DEF Where
      <3>2. First(p, k + 1) = E \cup {k + 1} /\ k + 1 \notin E /\ E \subseteq Where(p, "entry")
        <4>1. ~(k + 1 <= k)
          BY <2>1
        <4> QED
          BY <1>1, <2>4, <3>1, <4>1 DEF First
      <3>3. /\ IsFiniteSet(E) /\ Cardinality(E) \in Nat /\ Cardinality(E) <= p.live
            /\ Cardinality(E \cup {k + 1}) = Cardinality(E) + 1
        <4> HIDE DEF E
        <4>1. IsFiniteSet(E) /\ Cardinality(E) <= p.live
          BY <1>1, <3>2, FS_Subset
        <4> QED
          BY <3>2, <4>1, FS_CardinalityType, FS_AddElement
      <3>4. Sound(q) /\ Capacity(q) = n /\ q.deleted = 0 /\ q.live = Cardinality(E)
            /\ Entries(q) = {p.buckets[j] : j \in E}
        BY <2>2 DEF Good
      <3>5. b = Entry(b.hash, b.ref) /\ b.hash \in Nat /\ b.ref \in Refs /\ b \in BucketValues
        BY <3>1, EntriesAre
      <3>6. \A a \in Entries(q) : a.ref # b.ref
        <4> SUFFICES ASSUME NEW j \in E, p.buckets[j].ref = b.ref PROVE FALSE
          BY <3>4
        <4>1. j \in Where(p, "entry") /\ j # k + 1
          BY <3>2
        <4> QED
          BY <3>1, <4>1 DEF Sound
      <3> HIDE DEF b, q, E
      <3>7. q.live + q.deleted < Capacity(q)
        BY <1>1, <3>3, <3>4
      <3> DEFINE o == Insert(q, b.hash, b.ref)
      <3>8. /\ Sound(o) /\ Capacity(o) = Capacity(q) /\ Entries(o) = Entries(q) \cup {b}
            /\ o.live = q.live + 1 /\ o.deleted <= q.deleted
        BY <3>4, <3>5, <3>6, <3>7, InsertFacts
      <3>9. f[k + 1] = o
        BY <2>3, <2>6 DEF b, q
      <3> HIDE DEF o
      <3>10. o.deleted = 0
        BY <3>4, <3>8, EntriesAre
      <3>11. o.live = Cardinality(First(p, k + 1))
        BY <3>2, <3>3, <3>4, <3>8
      <3>12. Entries(o) = {p.buckets[j] : j \in First(p, k + 1)}
        BY <3>2, <3>4, <3>8 DEF b
      <3>13. Good(k + 1)
        BY <3>4, <3>8, <3>9, <3>10, <3>11, <3>12 DEF Good
      <3> QED
        BY <2>1, <3>13
    <2> QED
      BY <2>5, <2>6
  <1>5. 0..c \subseteq S
    <2> HIDE DEF S
    <2> QED
      BY Zenon, <1>1, <1>3, <1>4, UpTo
  <1>6. Good(c)
    <2>1. c \in 0..c
      BY <1>1
    <2> HIDE DEF Good
    <2> QED
      BY <1>5, <2>1
  <1>7. First(p, c) = Where(p, "entry")
    BY <1>1 DEF First
  <1>8. Entries(p) = {p.buckets[j] : j \in Where(p, "entry")}
    BY EntriesAre
  <1> QED
    BY <1>1, <1>2, <1>6, <1>7, <1>8

---------------------------------------------------------------------------
(* Growing the index, giving the growth back, and searching *)

Used(p) == p.live + p.deleted

\* An index that is not full for its size.
Loaded(p) == Capacity(p) # 0 => Used(p) <= Capacity(p) \div 2 + 1

\* ShortStringIndex::reserve_slot makes room and keeps the entries.
LEMMA ReservedFacts ==
    ASSUME NEW p, Sound(p), Loaded(p)
    PROVE  LET q == Reserved(p)
           IN  /\ Sound(q) /\ HasRoom(q) /\ Entries(q) = Entries(p) /\ q.live = p.live
               /\ HasRoom(p) => q = p
  <1> DEFINE c == Capacity(p)
             n == IF c = 0 THEN InitialBuckets
                  ELSE IF p.live + 1 <= c \div 2 THEN c
                  ELSE 2 * c
             q == Reserved(p)
  <1>1. CASE HasRoom(p)
    BY <1>1 DEF Reserved
  <1>2. CASE ~HasRoom(p)
    <2>1. q = Rebuilt(p, n)
      BY <1>2 DEF Reserved
    <2>2. /\ c \in Nat /\ p.live \in Nat /\ p.deleted \in Nat /\ (c = 0 \/ c >= 4)
          /\ c = 0 => p.live = 0
          /\ c # 0 => p.live + p.deleted <= c \div 2 + 1
          /\ InitialBuckets \in Nat /\ InitialBuckets >= 4
      BY Zenon, EntriesAre, NoPoolFacts, PoolAssumption DEF Sound, Loaded, Used
    <2> HIDE DEF c, q
    <2>3. n \in Nat /\ n >= 4 /\ p.live < n /\ p.live + 1 <= n \div 2
      <3>1. CASE c = 0
        BY <2>2, <3>1
      <3>2. CASE c # 0 /\ p.live + 1 <= c \div 2
        BY <2>2, <3>2
      <3>3. CASE c # 0 /\ ~(p.live + 1 <= c \div 2)
        <4>1. c >= 4 /\ p.live <= c \div 2 + 1 /\ n = 2 * c
          BY <2>2, <3>3
        <4>2. (2 * c) \div 2 = c /\ c \div 2 + 2 <= c
          BY <2>2, <4>1
        <4> QED
          BY <2>2, <4>1, <4>2
      <3> QED
        BY <3>1, <3>2, <3>3
    <2> HIDE DEF n
    <2>4. /\ Sound(q) /\ Capacity(q) = n /\ Entries(q) = Entries(p)
          /\ q.live = p.live /\ q.deleted = 0
      BY <2>1, <2>3, RebuiltFacts
    <2>5. HasRoom(q)
      BY <2>2, <2>3, <2>4 DEF HasRoom
    <2> QED
      BY <1>2, <2>4, <2>5 DEF q
  <1> QED
    BY <1>1, <1>2

\* The index q in place of p when the growth of the interning i is undone.
Restores(p, i, q) ==
    /\ Sound(q) /\ Entries(q) = Entries(p)
    /\ i.grown /\ q.live = 0 => q = NoPool
    /\ ~i.grown => q = p
    /\ \/ q = p
       \/ q = NoPool
       \/ Used(q) <= Capacity(q) \div 2 /\ q.live > 0

\* Vm::restore_short_string_growth keeps the entries, and leaves no buckets
\* without one.
LEMMA RestoredFacts ==
    ASSUME NEW p, Sound(p), NEW i, Capacity(i.old) \in Nat,
           Capacity(i.old) = 0 \/ Capacity(i.old) >= 4
    PROVE  Restores(p, i, Restored(p, i))
  <1> DEFINE q == Restored(p, i)
             o == Capacity(i.old)
  <1>1. CASE ~i.grown
    BY Zenon, <1>1 DEF Restored, Restores
  <1>2. CASE i.grown /\ p.live = 0
    <2>1. q = NoPool
      BY <1>2 DEF Restored
    <2>2. Entries(p) = {}
      <3>1. Where(p, "entry") = {}
        BY Zenon, <1>2, EntriesAre, Counted DEF Sound
      <3> QED
        BY <3>1, EntriesAre
    <2>3. Sound(q) /\ Entries(q) = Entries(p)
      BY <2>1, <2>2, NoPoolFacts
    <2> QED
      BY Zenon, <1>2, <2>1, <2>3 DEF Restores
  <1>3. CASE i.grown /\ p.live # 0 /\ (o = 0 \/ p.live > o \div 2)
    BY Zenon, <1>3 DEF Restored, Restores
  <1>4. CASE i.grown /\ p.live # 0 /\ ~(o = 0 \/ p.live > o \div 2)
    <2>1. q = Rebuilt(p, o) /\ p.live \in Nat /\ o \in Nat
      BY <1>4, EntriesAre DEF Restored
    <2>2. o >= 4 /\ p.live < o /\ p.live <= o \div 2
      <3> HIDE DEF o
      <3>1. o # 0 /\ ~(p.live > o \div 2) /\ p.live # 0
        BY <1>4
      <3>2. o >= 4
        BY <3>1 DEF o
      <3> QED
        BY <2>1, <3>1, <3>2
    <2> HIDE DEF o, q
    <2>3. /\ Sound(q) /\ Capacity(q) = o /\ Entries(q) = Entries(p)
          /\ q.live = p.live /\ q.deleted = 0
      BY <2>1, <2>2, RebuiltFacts
    <2>4. Used(q) <= Capacity(q) \div 2 /\ q.live > 0
      BY <1>4, <2>1, <2>2, <2>3 DEF Used
    <2> QED
      BY Zenon, <1>4, <2>3, <2>4 DEF q, Restores
  <1> QED
    BY Zenon, <1>1, <1>2, <1>3, <1>4

\* find_short_string finds a content if and only if an entry has it.
LEMMA FindFacts ==
    ASSUME NEW p, Sound(p), NEW c \in Contents
    PROVE  Find(p, c) # {} <=> \E b \in Entries(p) : b.hash = Hash[c] /\ ContentOf(b.ref) = c
  <1> DEFINE h == Hash[c]
             ends == Offsets(p, h, {Empty})
             E == {b \in Entries(p) : b.hash = h /\ ContentOf(b.ref) = c}
             hits == Offsets(p, h, E)
             good == {k \in hits : (\A e \in ends : k < e) /\ (\A j \in hits : k <= j)}
  <1>1. Capacity(p) \in Nat /\ h \in Nat
    BY EntriesAre, PoolAssumption
  <1>2. Find(p, c) # {} <=> good # {}
    BY Zenon DEF Find
  <1>3. /\ \A k \in hits : k \in 0..(Capacity(p) - 1) /\ p.buckets[At(p, h, k)] \in E
        /\ \A k \in 0..(Capacity(p) - 1) : p.buckets[At(p, h, k)] \in E => k \in hits
        /\ \A e \in ends : e \in 0..(Capacity(p) - 1) /\ p.buckets[At(p, h, e)] = Empty
    BY DEF Offsets
  <1>4. good # {} => hits # {}
    OBVIOUS
  <1>5. hits # {} => E # {}
    BY Zenon, <1>3
  <1> HIDE DEF ends, hits
  <1>6. ASSUME NEW b \in E PROVE good # {}
    <2>1. PICK i \in Where(p, "entry") : p.buckets[i] = b
      BY <1>6, EntriesAre
    <2>2. p.buckets[i].hash = h
      BY <1>6, <2>1
    <2>3. PICK k \in 0..(Capacity(p) - 1) :
             At(p, h, k) = i /\ \A n \in 0..(k - 1) : p.buckets[At(p, h, n)] # Empty
      BY <2>1, <2>2 DEF Sound
    <2>4. k \in hits
      BY <1>3, <2>1, <2>3
    <2>5. hits \subseteq Nat
      BY <1>1, <1>3
    <2> DEFINE m == MinOf(hits)
    <2>6. m \in hits /\ \A j \in hits : m <= j
      BY Zenon, <2>4, <2>5, FirstPlace
    <2> HIDE DEF m
    <2>7. m \in 0..(Capacity(p) - 1) /\ m <= k /\ p.buckets[At(p, h, m)] # Empty
      <3>1. \A a \in E : a # Empty
        BY EntriesAre, BucketShape
      <3> QED
        BY <1>3, <2>4, <2>6, <3>1
    <2>8. ASSUME NEW e \in ends PROVE m < e
      <3>1. e \in 0..(Capacity(p) - 1) /\ e # m /\ e \notin 0..(k - 1)
        BY <1>3, <2>3, <2>7
      <3>2. e # k
        <4>1. p.buckets[At(p, h, k)] # Empty
          BY <2>1, <2>3, BucketShape DEF Where
        <4> QED
          BY <1>3, <4>1
      <3> QED
        BY <1>1, <2>7, <3>1, <3>2
    <2>9. m \in good
      BY <2>6, <2>8
    <2> QED
      BY <2>9
  <1> HIDE DEF good
  <1> QED
    BY <1>2, <1>4, <1>5, <1>6

=============================================================================
