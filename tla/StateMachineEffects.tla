------------------------ MODULE StateMachineEffects -------------------------
(***************************************************************************)
(* What the operators of Store do to a state, for any keys, prefixes,      *)
(* values, leases and revisions: the lemmas that the proofs about          *)
(* StateMachine rest on.                                                   *)
(***************************************************************************)
EXTENDS StateMachine, FiniteSetTheorems, TLAPS

\* The leases of a state: none beyond the counter, and the keys of a lease
\* belong to it and have a value.
Indexed(s) ==
    \A l \in LeaseId : \A k \in s.Keys[l] : Exists(s, l) /\ s.key2Lease[k] = l /\ Live(s, k)

Counted(s) == \A l \in LeaseId : Exists(s, l) => l <= s.leaseID

\* No version is newer than the store.
Bounded(s) ==
    \A k \in Key : \A i \in 1..Len(s.data[k]) : s.data[k][i].Revision \in 1..s.storeRev

Sound(s) == s \in State /\ Indexed(s) /\ Counted(s) /\ Bounded(s)

\* RevisionsOrdered, of a state.
InOrder(data, rev) ==
    \A k \in Key : \A i \in 1..Len(data[k]) :
        /\ data[k][i].Revision \in 1..rev
        /\ \A j \in 1..(i - 1) : data[k][j].Revision < data[k][i].Revision
        /\ \A q \in Key : \A j \in 1..Len(data[q]) :
              data[k][i].Revision = data[q][j].Revision => k = q

Ordered(s) == s.storeRev <= s.rev /\ InOrder(s.data, s.storeRev)

\* t has all the versions of s, and new ones that are newer than s.
Extends(t, s) ==
    /\ s.storeRev <= t.storeRev
    /\ \A k \in Key :
        /\ Len(s.data[k]) <= Len(t.data[k])
        /\ \A i \in 1..Len(s.data[k]) : t.data[k][i] = s.data[k][i]
        /\ \A i \in (Len(s.data[k]) + 1)..Len(t.data[k]) : t.data[k][i].Revision > s.storeRev

\* LeaseEndsItsKeys, of two states.
EndsItsKeys(s, t) ==
    \A l \in LeaseId : Exists(s, l) /\ ~Exists(t, l) =>
        \A k \in Key : Live(s, k) => (Live(t, k) <=> k \notin s.Keys[l])

\* d is s with its deadlines rounded.
Mirrors(d, s) ==
    /\ d.data = s.data /\ d.key2Lease = s.key2Lease
    /\ d.storeRev = s.storeRev /\ d.rev = s.rev /\ d.leaseID = s.leaseID
    /\ d.Keys = s.Keys
    /\ \A l \in LeaseId : d.expireAt[l] = Round(s.expireAt[l])

\* A lease does not end when its deadline is rounded.
Lasting(s) == \A l \in LeaseId : s.expireAt[l] # 0 <=> Round(s.expireAt[l]) # 0

-----------------------------------------------------------------------------
(* Arithmetic.                                                             *)

\* Larger is the maximum.
LEMMA LargerIs ==
    ASSUME NEW a \in Nat, NEW b \in Nat
    PROVE  /\ Larger(a, b) \in Nat /\ a <= Larger(a, b) /\ b <= Larger(a, b)
           /\ (a <= b => Larger(a, b) = b) /\ (b <= a => Larger(a, b) = a)
BY DEF Larger

\* Division by the grain.
LEMMA Division ==
    ASSUME NEW d \in Nat, NEW g \in Nat \ {0}
    PROVE  /\ d \div g \in Nat /\ d % g \in 0..(g - 1)
           /\ d = g * (d \div g) + (d % g)
<1>1. d \div g \in Nat
  OBVIOUS
<1>2. d % g \in 0..(g - 1)
  OBVIOUS
<1>3. d = g * (d \div g) + (d % g)
  OBVIOUS
<1> QED  BY <1>1, <1>2, <1>3

\* A positive multiple is no smaller.
LEMMA Multiple ==
    ASSUME NEW a \in Nat \ {0}, NEW g \in Nat \ {0}
    PROVE  g * a >= g
OBVIOUS

\* A multiple of the grain is divided without a remainder.
LEMMA Divided ==
    ASSUME NEW q \in Nat, NEW g \in Nat \ {0}
    PROVE  (q * g) \div g = q /\ (q * g) % g = 0
<1> DEFINE m == (q * g) \div g
           r == (q * g) % g
<1>1. q * g \in Nat
  OBVIOUS
<1>2. m \in Nat /\ r \in 0..(g - 1) /\ q * g = g * m + r
  BY Zenon, <1>1, Division
<1> HIDE DEF m, r
<1>3. g * (q - m) = r
  BY <1>2
<1>4. ~(q > m)
  <2>1. SUFFICES ASSUME q > m PROVE FALSE
    OBVIOUS
  <2>2. q - m \in Nat \ {0}
    BY <2>1, <1>2
  <2>3. g * (q - m) >= g
    BY <2>2, Multiple
  <2> QED  BY <2>3, <1>3, <1>2
<1>5. ~(q < m)
  <2>1. SUFFICES ASSUME q < m PROVE FALSE
    OBVIOUS
  <2>2. m - q \in Nat \ {0}
    BY <2>1, <1>2
  <2>3. g * (m - q) >= g
    BY <2>2, Multiple
  <2>4. g * (m - q) = 0 - (g * (q - m))
    BY <1>2
  <2> QED  BY <2>3, <2>4, <1>3, <1>2
<1>6. q = m
  BY <1>4, <1>5, <1>2
<1>7. r = 0
  BY <1>6, <1>3, <1>2
<1> QED  BY <1>6, <1>7 DEF m, r

\* Rounding: the result is a number, and rounding it again changes nothing.
LEMMA RoundIs ==
    ASSUME NEW d \in Nat
    PROVE  Round(d) \in Nat /\ Round(Round(d)) = Round(d)
<1>1. Grain \in Nat \ {0} /\ 2 * 0 < Grain
  BY StoreConstants DEF StoreConstants
<1>2. d \div Grain \in Nat
  BY <1>1, Division
<1>3. \E q \in Nat : Round(d) = q * Grain
  <2>1. Round(d) = (d \div Grain) * Grain \/ Round(d) = (d \div Grain + 1) * Grain
    BY Zenon DEF Round
  <2>2. d \div Grain + 1 \in Nat
    BY <1>2
  <2> QED  BY Zenon, <2>1, <2>2, <1>2
<1>4. PICK q \in Nat : Round(d) = q * Grain
  BY <1>3
<1>5. q * Grain \in Nat
  BY <1>1
<1>6. Round(q * Grain) = q * Grain
  <2>1. (q * Grain) \div Grain = q /\ (q * Grain) % Grain = 0
    BY <1>1, Divided
  <2> QED  BY Zenon, <1>1, <2>1 DEF Round
<1> QED  BY Zenon, <1>4, <1>5, <1>6

\* No deadline is rounded to no deadline.
LEMMA RoundZero == Round(0) = 0
<1>1. Grain \in Nat \ {0} /\ 2 * 0 < Grain
  BY StoreConstants DEF StoreConstants
<1>2. (0 * Grain) \div Grain = 0 /\ (0 * Grain) % Grain = 0 /\ 0 * Grain = 0
  BY <1>1, Divided
<1> QED  BY <1>1, <1>2 DEF Round

-----------------------------------------------------------------------------
(* Versions.                                                               *)

\* The keys of a command: a finite set.
LEMMA FiniteKeys ==
    ASSUME NEW D \in SUBSET Key
    PROVE  IsFiniteSet(D) /\ Cardinality(D) \in Nat
<1>1. IsFiniteSet(Key)
  BY StoreConstants, FS_Interval DEF StoreConstants, Key
<1> QED  BY <1>1, FS_Subset, FS_CardinalityType

\* The keys of a command have distinct ranks, up to their number.
LEMMA Ranks ==
    ASSUME NEW D \in SUBSET Key, NEW k \in D
    PROVE  /\ Rank(D, k) \in 1..Cardinality(D)
           /\ \A j \in D : Rank(D, j) = Rank(D, k) => j = k
<1> DEFINE upTo(i) == {j \in D : j <= i}
<1>1. \A i \in D : upTo(i) \in SUBSET D /\ i \in upTo(i) /\ i \in Int
  BY DEF Key
<1>2. ASSUME NEW i \in D
      PROVE  /\ IsFiniteSet(upTo(i)) /\ Cardinality(upTo(i)) \in 1..Cardinality(D)
  <2>1. IsFiniteSet(upTo(i)) /\ Cardinality(upTo(i)) <= Cardinality(D) /\ Cardinality(D) \in Nat
    BY <1>1, FiniteKeys, FS_Subset
  <2>2. Cardinality(upTo(i)) \in Nat /\ Cardinality(upTo(i)) # 0
    BY Zenon, <1>1, <2>1, FS_CardinalityType, FS_EmptySet
  <2> QED  BY <2>1, <2>2
<1>3. ASSUME NEW i \in D, NEW j \in D, i < j
      PROVE  Cardinality(upTo(i)) # Cardinality(upTo(j))
  <2>1. upTo(i) \in SUBSET upTo(j) /\ upTo(i) # upTo(j)
    <3>1. i \in Int /\ j \in Int /\ \A n \in D : n \in Int
      BY <1>1
    <3>2. \A n \in D : n <= i => n <= j
      BY <3>1, <1>3
    <3>3. ~(j <= i) /\ j <= j
      BY <3>1, <1>3
    <3> QED  BY Zenon, <3>2, <3>3
  <2> QED  BY Zenon, <2>1, <1>2, FS_Subset
<1>4. \A j \in D : Rank(D, j) = Cardinality(upTo(j))
  BY DEF Rank
<1>5. \A j \in D : j = k \/ j < k \/ k < j
  BY DEF Key
<1> HIDE DEF upTo
<1> QED  BY Zenon, <1>2, <1>3, <1>4, <1>5

\* A version is appended.
LEMMA Appended ==
    ASSUME NEW q \in Seq(Version), NEW x \in Version
    PROVE  /\ Append(q, x) \in Seq(Version) /\ Append(q, x) # << >>
           /\ Len(q) \in Nat /\ Len(Append(q, x)) = Len(q) + 1
           /\ \A i \in 1..Len(q) : Append(q, x)[i] = q[i]
           /\ Append(q, x)[Len(q) + 1] = x
OBVIOUS

\* The keys D get the versions new.
Writes(s, t, D, new) ==
    t.data = [k \in Key |-> IF k \in D THEN Append(s.data[k], new[k]) ELSE s.data[k]]

\* Each version of t is one of s or the new one of its key.
Written(s, t, D, new) ==
    \A k \in Key :
        /\ Len(s.data[k]) \in Nat /\ Len(t.data[k]) \in Nat
        /\ Len(t.data[k]) = IF k \in D THEN Len(s.data[k]) + 1 ELSE Len(s.data[k])
        /\ \A i \in 1..Len(s.data[k]) : t.data[k][i] = s.data[k][i]
        /\ \A i \in 1..Len(t.data[k]) :
            \/ i \in 1..Len(s.data[k])
            \/ k \in D /\ i = Len(s.data[k]) + 1 /\ t.data[k][i] = new[k]
        /\ k \in D => t.data[k] # << >> /\ Latest(t, k) = new[k]
        /\ k \notin D => t.data[k] = s.data[k]

\* A write appends to the versions of its keys.
LEMMA WrittenVersions ==
    ASSUME NEW s \in State, NEW t, NEW D, NEW new \in [Key -> Version], Writes(s, t, D, new)
    PROVE  Written(s, t, D, new)
<1> SUFFICES ASSUME NEW k \in Key
    PROVE  /\ Len(s.data[k]) \in Nat /\ Len(t.data[k]) \in Nat
           /\ Len(t.data[k]) = IF k \in D THEN Len(s.data[k]) + 1 ELSE Len(s.data[k])
           /\ \A i \in 1..Len(s.data[k]) : t.data[k][i] = s.data[k][i]
           /\ \A i \in 1..Len(t.data[k]) :
                \/ i \in 1..Len(s.data[k])
                \/ k \in D /\ i = Len(s.data[k]) + 1 /\ t.data[k][i] = new[k]
           /\ k \in D => t.data[k] # << >> /\ Latest(t, k) = new[k]
           /\ k \notin D => t.data[k] = s.data[k]
  BY Zenon DEF Written
<1>1. s.data[k] \in Seq(Version) /\ new[k] \in Version
  BY DEF State
<1>2. CASE k \in D
  <2>1. t.data[k] = Append(s.data[k], new[k])
    BY Zenon, <1>2 DEF Writes
  <2>2. /\ t.data[k] # << >> /\ Len(s.data[k]) \in Nat
        /\ Len(t.data[k]) = Len(s.data[k]) + 1
        /\ \A i \in 1..Len(s.data[k]) : t.data[k][i] = s.data[k][i]
        /\ t.data[k][Len(s.data[k]) + 1] = new[k]
    BY <1>1, <2>1, Appended
  <2>3. Latest(t, k) = new[k]
    BY Zenon, <2>2 DEF Latest
  <2> QED  BY <1>2, <2>2, <2>3
<1>3. CASE k \notin D
  <2>1. t.data[k] = s.data[k]
    BY Zenon, <1>3 DEF Writes
  <2> QED  BY <2>1, <1>1, <1>3
<1> QED  BY Zenon, <1>2, <1>3

\* A key that is written has a value unless it is a tombstone, the others as
\* before.
LEMMA WrittenLive ==
    ASSUME NEW s \in State, NEW t, NEW D, NEW new \in [Key -> Version], Writes(s, t, D, new)
    PROVE  \A k \in Key : /\ k \in D => (Live(t, k) <=> ~new[k].Tombstone)
                          /\ k \notin D => (Live(t, k) <=> Live(s, k))
<1>1. Written(s, t, D, new)
  BY Zenon, WrittenVersions
<1> QED  BY Zenon, <1>1 DEF Written, Live, Latest

\* The new versions are within the store's revision, if it has been raised.
LEMMA WrittenBounded ==
    ASSUME NEW s \in State, NEW t, NEW D \in SUBSET Key, NEW new \in [Key -> Version],
           Writes(s, t, D, new), Bounded(s), t.storeRev \in Nat, s.storeRev <= t.storeRev,
           \A k \in D : new[k].Revision \in 1..t.storeRev
    PROVE  Bounded(t)
<1> SUFFICES ASSUME NEW k \in Key, NEW i \in 1..Len(t.data[k])
             PROVE  t.data[k][i].Revision \in 1..t.storeRev
  BY Zenon DEF Bounded
<1>1. s.storeRev \in Nat
  BY DEF State
<1>2. Written(s, t, D, new)
  BY Zenon, WrittenVersions
<1>3. CASE i \in 1..Len(s.data[k])
  <2>1. t.data[k][i].Revision \in 1..s.storeRev
    BY Zenon, <1>2, <1>3 DEF Bounded, Written
  <2> QED  BY <2>1, <1>1
<1>4. CASE i \notin 1..Len(s.data[k])
  BY Zenon, <1>2, <1>4 DEF Written
<1> QED  BY Zenon, <1>3, <1>4

\* New versions with revisions of their own that are newer than the store keep
\* the revisions in order, and what could be read.
LEMMA WrittenOrdered ==
    ASSUME NEW s \in State, NEW t, NEW D \in SUBSET Key, NEW new \in [Key -> Version],
           Writes(s, t, D, new), Ordered(s), t.storeRev \in Nat, t.rev \in Nat,
           s.storeRev <= t.storeRev, t.storeRev <= t.rev,
           \A k \in D : new[k].Revision \in (s.storeRev + 1)..t.storeRev,
           \A k, j \in D : new[k].Revision = new[j].Revision => k = j
    PROVE  Ordered(t) /\ Extends(t, s)
<1> DEFINE old(k, i) == i \in 1..Len(s.data[k]) /\ t.data[k][i] = s.data[k][i]
           fresh(k, i) == k \in D /\ i = Len(s.data[k]) + 1 /\ t.data[k][i] = new[k]
<1>0. s.storeRev \in Nat
  BY DEF State
<1>a. \A a \in 1..s.storeRev, b \in (s.storeRev + 1)..t.storeRev : a < b /\ a # b
  BY <1>0
<1>w. Written(s, t, D, new)
  BY Zenon, WrittenVersions
<1>1. ASSUME NEW k \in Key, NEW i \in 1..Len(t.data[k])
      PROVE  old(k, i) \/ fresh(k, i)
  BY Zenon, <1>w DEF Written
<1>2. ASSUME NEW k \in Key, NEW i, old(k, i)
      PROVE  t.data[k][i].Revision \in 1..s.storeRev
  BY Zenon, <1>2 DEF Ordered, InOrder
<1>3. ASSUME NEW k \in Key, NEW i, fresh(k, i)
      PROVE  t.data[k][i].Revision \in (s.storeRev + 1)..t.storeRev
  BY Zenon, <1>3
<1>4. ASSUME NEW k \in Key, NEW i \in 1..Len(t.data[k])
      PROVE  t.data[k][i].Revision \in 1..t.storeRev
  <2>1. t.data[k][i].Revision \in 1..s.storeRev
        \/ t.data[k][i].Revision \in (s.storeRev + 1)..t.storeRev
    BY Zenon, <1>1, <1>2, <1>3
  <2> QED  BY <2>1, <1>0
<1>5. ASSUME NEW k \in Key, NEW i \in 1..Len(t.data[k]), NEW j \in 1..(i - 1)
      PROVE  t.data[k][j].Revision < t.data[k][i].Revision
  <2>1. j \in 1..Len(s.data[k])
    <3>1. Len(s.data[k]) \in Nat /\ (i \in 1..Len(s.data[k]) \/ i = Len(s.data[k]) + 1)
      BY Zenon, <1>w DEF Written
    <3> QED  BY <3>1
  <2>2. old(k, j)
    BY Zenon, <2>1, <1>w DEF Written
  <2>3. CASE old(k, i)
    BY Zenon, <2>2, <2>3 DEF Ordered, InOrder
  <2>4. CASE fresh(k, i)
    <3>1. t.data[k][j].Revision \in 1..s.storeRev
      BY Zenon, <2>2, <1>2
    <3>2. t.data[k][i].Revision \in (s.storeRev + 1)..t.storeRev
      BY Zenon, <2>4, <1>3
    <3> QED  BY Zenon, <3>1, <3>2, <1>a
  <2> QED  BY Zenon, <2>3, <2>4, <1>1
<1>6. ASSUME NEW k \in Key, NEW i \in 1..Len(t.data[k]), NEW q \in Key,
             NEW j \in 1..Len(t.data[q]), t.data[k][i].Revision = t.data[q][j].Revision
      PROVE  k = q
  <2>1. CASE old(k, i) /\ old(q, j)
    <3>1. i \in 1..Len(s.data[k]) /\ j \in 1..Len(s.data[q])
      BY Zenon, <2>1
    <3>2. s.data[k][i].Revision = s.data[q][j].Revision
      BY Zenon, <2>1, <1>6
    <3> QED  BY Zenon, <3>1, <3>2 DEF Ordered, InOrder
  <2>2. CASE fresh(k, i) /\ fresh(q, j)
    BY Zenon, <2>2, <1>6
  <2>3. CASE old(k, i) /\ fresh(q, j)
    <3>1. t.data[k][i].Revision \in 1..s.storeRev
      BY Zenon, <2>3, <1>2
    <3>2. t.data[q][j].Revision \in (s.storeRev + 1)..t.storeRev
      BY Zenon, <2>3, <1>3
    <3> QED  BY Zenon, <3>1, <3>2, <1>a, <1>6
  <2>4. CASE fresh(k, i) /\ old(q, j)
    <3>1. t.data[q][j].Revision \in 1..s.storeRev
      BY Zenon, <2>4, <1>2
    <3>2. t.data[k][i].Revision \in (s.storeRev + 1)..t.storeRev
      BY Zenon, <2>4, <1>3
    <3> QED  BY Zenon, <3>1, <3>2, <1>a, <1>6
  <2> QED  BY Zenon, <2>1, <2>2, <2>3, <2>4, <1>1
<1>7. Ordered(t)
  BY Zenon, <1>4, <1>5, <1>6 DEF Ordered, InOrder
<1>8. ASSUME NEW k \in Key
      PROVE  /\ Len(s.data[k]) <= Len(t.data[k])
             /\ \A i \in 1..Len(s.data[k]) : t.data[k][i] = s.data[k][i]
             /\ \A i \in (Len(s.data[k]) + 1)..Len(t.data[k]) : t.data[k][i].Revision > s.storeRev
  <2>1. Len(s.data[k]) \in Nat /\ Len(t.data[k]) \in Nat /\ Len(s.data[k]) <= Len(t.data[k])
    BY <1>w DEF Written
  <2>2. ASSUME NEW i \in (Len(s.data[k]) + 1)..Len(t.data[k])
        PROVE  t.data[k][i].Revision > s.storeRev
    <3>1. i \in 1..Len(t.data[k]) /\ i \notin 1..Len(s.data[k])
      BY <2>1
    <3>2. fresh(k, i)
      BY Zenon, <3>1, <1>1
    <3>3. t.data[k][i].Revision \in (s.storeRev + 1)..t.storeRev
      BY Zenon, <3>2, <1>3
    <3> QED  BY <3>3, <1>0
  <2> QED  BY Zenon, <2>1, <2>2, <1>w DEF Written
<1> QED  BY Zenon, <1>7, <1>8 DEF Extends

-----------------------------------------------------------------------------
(* The operators of Store, field by field.                                 *)

\* Fields that stay as they are.
SameLeases(s, t) == t.leaseID = s.leaseID /\ t.expireAt = s.expireAt /\ t.Keys = s.Keys
SameStore(s, t) ==
    t.data = s.data /\ t.key2Lease = s.key2Lease /\ t.storeRev = s.storeRev

\* The version a write appends.
Fresh(r, v, b) == [j \in Key |-> [Revision |-> r, Value |-> v, Tombstone |-> b]]

\* Typing of a state, by its fields.
LEMMA StateFields ==
    ASSUME NEW s \in State
    PROVE  /\ s.data \in [Key -> Seq(Version)] /\ s.key2Lease \in [Key -> {0} \cup LeaseId]
           /\ s.storeRev \in Nat /\ s.rev \in Nat /\ s.leaseID \in 0..MaxLeases
           /\ s.expireAt \in [LeaseId -> Nat] /\ s.Keys \in [LeaseId -> SUBSET Key]
BY DEF State

\* The deadlines of a state are replaced.
LEMMA Dated ==
    ASSUME NEW s \in State, NEW g
    PROVE  [s EXCEPT !.expireAt = g] =
             [data |-> s.data, key2Lease |-> s.key2Lease, storeRev |-> s.storeRev, rev |-> s.rev,
              leaseID |-> s.leaseID, expireAt |-> g, Keys |-> s.Keys]
<1>1. /\ s = [s EXCEPT !.rev = s.rev]
      /\ DOMAIN s = {"data", "key2Lease", "storeRev", "rev", "leaseID", "expireAt", "Keys"}
  BY DEF State
<1> QED  BY <1>1

\* t is s with a new version of k.
Adds(s, t, k, r, v, b) ==
    /\ t \in State /\ Fresh(r, v, b) \in [Key -> Version]
    /\ Writes(s, t, {k}, Fresh(r, v, b)) /\ t.storeRev = Larger(s.storeRev, r)
    /\ t.key2Lease = s.key2Lease /\ t.rev = s.rev /\ SameLeases(s, t)

\* addVersion appends a version and raises the store's revision.
LEMMA AddVersionIs ==
    ASSUME NEW s \in State, NEW k \in Key, NEW r \in Nat \ {0}, NEW v \in Value \cup {NoValue},
           NEW b \in BOOLEAN
    PROVE  Adds(s, AddVersion(s, k, r, v, b), k, r, v, b)
<1> DEFINE x == [Revision |-> r, Value |-> v, Tombstone |-> b]
           t == AddVersion(s, k, r, v, b)
<1>1. x \in Version
  BY DEF Version
<1>2. t = [s EXCEPT !.data[k] = Append(@, x), !.storeRev = Larger(@, r)]
  BY DEF AddVersion
<1>3. /\ t.data = [s.data EXCEPT ![k] = Append(@, x)] /\ t.storeRev = Larger(s.storeRev, r)
      /\ t.key2Lease = s.key2Lease /\ t.rev = s.rev /\ t.leaseID = s.leaseID
      /\ t.expireAt = s.expireAt /\ t.Keys = s.Keys
  BY <1>2 DEF State
<1>4. t \in State
  <2>1. [s.data EXCEPT ![k] = Append(@, x)] \in [Key -> Seq(Version)]
    BY <1>1, StateFields, Appended
  <2>2. Larger(s.storeRev, r) \in Nat
    BY StateFields, LargerIs
  <2> HIDE DEF x
  <2> QED  BY Zenon, <1>2, <2>1, <2>2 DEF State
<1>5. Fresh(r, v, b) \in [Key -> Version]
  BY <1>1 DEF Fresh
<1>6. Writes(s, t, {k}, Fresh(r, v, b))
  BY Zenon, <1>3, StateFields DEF Writes, Fresh
<1> HIDE DEF t
<1>7. Adds(s, t, k, r, v, b)
  BY Zenon, <1>3, <1>4, <1>5, <1>6 DEF Adds, SameLeases
<1> QED  BY Zenon, <1>7 DEF t

\* t is s with k bound to a lease, or to none.
Binds(s, t, k, l) ==
    /\ t \in State
    /\ \A j \in Key : t.key2Lease[j] = IF j = k THEN l ELSE s.key2Lease[j]
    /\ t.data = s.data /\ t.storeRev = s.storeRev /\ t.rev = s.rev /\ SameLeases(s, t)

\* A key is bound to a lease, or to none.
LEMMA BindIs ==
    ASSUME NEW s \in State, NEW k \in Key, NEW l \in {0} \cup LeaseId
    PROVE  Binds(s, [s EXCEPT !.key2Lease[k] = l], k, l)
BY Zenon DEF State, SameLeases, Binds

\* t is s at another revision of the server.
Counts(s, t, r) == t \in State /\ t.rev = r /\ SameStore(s, t) /\ SameLeases(s, t)

\* The server's revision is set.
LEMMA RevIs ==
    ASSUME NEW s \in State, NEW r \in Nat
    PROVE  Counts(s, [s EXCEPT !.rev = r], r)
BY Zenon DEF State, SameLeases, SameStore, Counts

\* t is s with the keys D taken out of their leases.
Detaches(s, t, D) ==
    /\ t \in State /\ \A l \in LeaseId : t.Keys[l] = s.Keys[l] \ D
    /\ SameStore(s, t) /\ t.rev = s.rev
    /\ t.leaseID = s.leaseID /\ t.expireAt = s.expireAt

\* Keys are taken out of their leases.
LEMMA RevokeKeysIs ==
    ASSUME NEW s \in State, NEW D
    PROVE  Detaches(s, RevokeKeys(s, D), D)
BY Zenon DEF State, SameStore, RevokeKeys, Detaches

\* t is s with another lease table.
Leases(s, t, id, x, y) ==
    /\ t \in State /\ t.leaseID = id /\ t.expireAt = x /\ t.Keys = y
    /\ SameStore(s, t) /\ t.rev = s.rev

\* The lease table is set.
LEMMA LeasesAre ==
    ASSUME NEW s \in State, NEW id \in 0..MaxLeases, NEW x \in [LeaseId -> Nat],
           NEW y \in [LeaseId -> SUBSET Key],
           NEW t, t = [s EXCEPT !.leaseID = id, !.expireAt = x, !.Keys = y]
    PROVE  Leases(s, t, id, x, y)
BY Zenon DEF State, SameStore, Leases

\* RevokeKey finds the only lease that holds the key.
LEMMA RevokeKeyIs ==
    ASSUME NEW s \in State, Indexed(s), NEW k \in Key
    PROVE  RevokeKey(s, k) = RevokeKeys(s, {k})
<1> DEFINE without == [l \in LeaseId |-> s.Keys[l] \ {k}]
<1>1. CASE \E l \in LeaseId : k \in s.Keys[l]
  <2> DEFINE c == CHOOSE l \in LeaseId : k \in s.Keys[l]
  <2>1. c \in LeaseId /\ k \in s.Keys[c]
    BY Zenon, <1>1
  <2>2. \A l \in LeaseId : k \in s.Keys[l] => l = c
    BY Zenon, <2>1 DEF Indexed
  <2>3. RevokeKey(s, k) = [s EXCEPT !.Keys[c] = @ \ {k}]
    BY Zenon, <1>1 DEF RevokeKey
  <2> HIDE DEF c
  <2>4. [s.Keys EXCEPT ![c] = @ \ {k}] = without
    <3>1. PICK f \in [LeaseId -> SUBSET Key] : f = s.Keys
      BY Zenon, StateFields
    <3>2. [f EXCEPT ![c] = @ \ {k}] = [l \in LeaseId |-> f[l] \ {k}]
      <4>1. \A l \in LeaseId : l # c => f[l] \ {k} = f[l]
        BY Zenon, <3>1, <2>2
      <4> QED  BY Zenon, <4>1, <2>1
    <3> QED  BY Zenon, <3>1, <3>2
  <2>5. [s EXCEPT !.Keys[c] = @ \ {k}] = [s EXCEPT !.Keys = [s.Keys EXCEPT ![c] = @ \ {k}]]
    BY DEF State
  <2> QED  BY Zenon, <2>3, <2>4, <2>5 DEF RevokeKeys
<1>2. CASE ~\E l \in LeaseId : k \in s.Keys[l]
  <2>1. RevokeKey(s, k) = s
    BY Zenon, <1>2 DEF RevokeKey
  <2>2. s.Keys = without
    BY Zenon, <1>2, StateFields
  <2>3. s = [s EXCEPT !.Keys = s.Keys]
    BY DEF State
  <2> QED  BY Zenon, <2>1, <2>2, <2>3 DEF RevokeKeys
<1> QED  BY <1>1, <1>2

\* t is s with k attached to l, if l exists.
Attaches(s, t, l, k) ==
    /\ t \in State /\ SameStore(s, t) /\ t.rev = s.rev
    /\ t.leaseID = s.leaseID /\ t.expireAt = s.expireAt
    /\ \A i \in LeaseId :
        t.Keys[i] = IF i = l /\ Exists(s, l) THEN s.Keys[i] \cup {k} ELSE s.Keys[i]

\* Attach adds a key to a lease that exists.
LEMMA AttachIs ==
    ASSUME NEW s \in State, NEW k \in Key, NEW l \in {0} \cup LeaseId
    PROVE  Attaches(s, Attach(s, l, k), l, k)
<1>1. CASE Exists(s, l)
  <2> DEFINE y == [s.Keys EXCEPT ![l] = @ \cup {k}]
  <2>1. l \in LeaseId
    BY Zenon, <1>1 DEF Exists
  <2>2. Attach(s, l, k) = [s EXCEPT !.Keys[l] = @ \cup {k}]
    BY Zenon, <1>1 DEF Attach
  <2>3. /\ s.leaseID \in 0..MaxLeases /\ s.expireAt \in [LeaseId -> Nat]
        /\ y \in [LeaseId -> SUBSET Key]
        /\ \A i \in LeaseId : y[i] = IF i = l THEN s.Keys[i] \cup {k} ELSE s.Keys[i]
    BY Zenon, StateFields, <2>1
  <2>4. Attach(s, l, k) = [s EXCEPT !.leaseID = s.leaseID, !.expireAt = s.expireAt, !.Keys = y]
    BY Zenon, <2>2, <2>1 DEF State
  <2> HIDE DEF y
  <2>5. Leases(s, Attach(s, l, k), s.leaseID, s.expireAt, y)
    BY Zenon, <2>3, <2>4, LeasesAre
  <2> QED  BY Zenon, <1>1, <2>3, <2>5 DEF Leases, Attaches
<1>2. CASE ~Exists(s, l)
  <2>1. Attach(s, l, k) = s
    BY Zenon, <1>2 DEF Attach
  <2> QED  BY Zenon, <1>2, <2>1 DEF SameStore, Attaches
<1> QED  BY Zenon, <1>1, <1>2

\* Tombstones for the keys D.
Dead(D, base) ==
    [k \in Key |-> [Revision |-> base + Rank(D, k), Value |-> NoValue, Tombstone |-> TRUE]]

\* t is s with the keys D deleted.
Buries(s, t, D, base) ==
    /\ t \in State /\ Dead(D, base) \in [Key -> Version]
    /\ Writes(s, t, D, Dead(D, base))
    /\ \A k \in Key : t.key2Lease[k] = IF k \in D THEN 0 ELSE s.key2Lease[k]
    /\ t.storeRev = IF D = {} THEN s.storeRev ELSE Larger(s.storeRev, base + Cardinality(D))
    /\ t.rev = s.rev /\ SameLeases(s, t)

\* Tombstones for the keys D, with the revisions that follow base.
LEMMA TombstonesIs ==
    ASSUME NEW s \in State, NEW D \in SUBSET Key, NEW base \in Nat
    PROVE  Buries(s, Tombstones(s, D, base), D, base)
<1> DEFINE t == Tombstones(s, D, base)
           x(k) == [Revision |-> base + Rank(D, k), Value |-> NoValue, Tombstone |-> TRUE]
           data == [k \in Key |-> IF k \in D THEN Append(s.data[k], x(k)) ELSE s.data[k]]
           key2Lease == [k \in Key |-> IF k \in D THEN 0 ELSE s.key2Lease[k]]
           storeRev == IF D = {} THEN s.storeRev ELSE Larger(s.storeRev, base + Cardinality(D))
<1>1. \A k \in Key : Rank(D, k) \in Nat
  <2> SUFFICES ASSUME NEW k \in Key  PROVE Rank(D, k) \in Nat
    OBVIOUS
  <2>1. {j \in D : j <= k} \in SUBSET Key
    OBVIOUS
  <2> QED  BY <2>1, FiniteKeys DEF Rank
<1>2. \A k \in Key : x(k) \in Version
  BY <1>1 DEF Version
<1>3. data \in [Key -> Seq(Version)]
  BY <1>2, StateFields, Appended
<1>4. key2Lease \in [Key -> {0} \cup LeaseId]
  BY StateFields
<1>5. storeRev \in Nat
  <2>1. s.storeRev \in Nat /\ base + Cardinality(D) \in Nat
    BY StateFields, FiniteKeys
  <2> QED  BY Zenon, <2>1, LargerIs
<1>6. t = [s EXCEPT !.data = data, !.key2Lease = key2Lease, !.storeRev = storeRev]
  BY DEF Tombstones
<1>7. Dead(D, base) \in [Key -> Version]
  BY <1>2 DEF Dead
<1>8. Dead(D, base) = [k \in Key |-> x(k)]
  BY DEF Dead
<1>9. data = [k \in Key |-> IF k \in D THEN Append(s.data[k], Dead(D, base)[k]) ELSE s.data[k]]
  BY <1>8
<1> HIDE DEF x, data, key2Lease, storeRev, t
<1>10. /\ t \in State
       /\ t.data = data /\ t.key2Lease = key2Lease /\ t.storeRev = storeRev /\ t.rev = s.rev
       /\ t.leaseID = s.leaseID /\ t.expireAt = s.expireAt /\ t.Keys = s.Keys
  BY Zenon, <1>3, <1>4, <1>5, <1>6 DEF State
<1>11. Buries(s, t, D, base)
  BY Zenon, <1>7, <1>9, <1>10 DEF Buries, Writes, SameLeases, key2Lease, storeRev
<1> QED  BY Zenon, <1>11 DEF t

\* t is s with a new lease.
Grants(s, t, id, d) ==
    /\ id \in LeaseId /\ t \in State /\ t.leaseID = id
    /\ \A l \in LeaseId : /\ t.expireAt[l] = IF l = id THEN d ELSE s.expireAt[l]
                          /\ t.Keys[l] = IF l = id THEN {} ELSE s.Keys[l]
    /\ SameStore(s, t) /\ t.rev = s.rev

\* A new lease.
LEMMA GrantIs ==
    ASSUME NEW s \in State, s.leaseID < MaxLeases, NEW d \in Nat
    PROVE  Grants(s, GrantUntil(s, d), s.leaseID + 1, d)
<1>1. s.leaseID + 1 \in LeaseId /\ s.leaseID + 1 \in 0..MaxLeases
  BY StoreConstants, StateFields DEF LeaseId, StoreConstants
<1> DEFINE id == s.leaseID + 1
           x == [s.expireAt EXCEPT ![id] = d]
           y == [s.Keys EXCEPT ![id] = {}]
<1>2. GrantUntil(s, d) = [s EXCEPT !.leaseID = id, !.expireAt[id] = d, !.Keys[id] = {}]
  BY DEF GrantUntil
<1> HIDE DEF id
<1>3. id \in LeaseId /\ id \in 0..MaxLeases
  BY <1>1 DEF id
<1>4. GrantUntil(s, d) = [s EXCEPT !.leaseID = id, !.expireAt = x, !.Keys = y]
  BY <1>2, <1>3 DEF State
<1>5. x \in [LeaseId -> Nat] /\ y \in [LeaseId -> SUBSET Key]
  BY <1>3, StateFields
<1> HIDE DEF x, y
<1>6. \A l \in LeaseId : x[l] = (IF l = id THEN d ELSE s.expireAt[l])
                         /\ y[l] = (IF l = id THEN {} ELSE s.Keys[l])
  BY StateFields DEF x, y
<1>7. Leases(s, GrantUntil(s, d), id, x, y)
  BY Zenon, <1>3, <1>4, <1>5, LeasesAre
<1>8. Grants(s, GrantUntil(s, d), id, d)
  BY Zenon, <1>3, <1>6, <1>7 DEF Leases, Grants
<1> QED  BY Zenon, <1>8 DEF id

\* t is s with another deadline of l, if l exists.
Prolongs(s, t, l, d) ==
    /\ t \in State /\ SameStore(s, t) /\ t.rev = s.rev
    /\ t.leaseID = s.leaseID /\ t.Keys = s.Keys
    /\ \A i \in LeaseId : t.expireAt[i] = IF i = l /\ Exists(s, l) THEN d ELSE s.expireAt[i]

\* A lease that exists gets a new deadline.
LEMMA KeepAliveIs ==
    ASSUME NEW s \in State, NEW l \in {0} \cup LeaseId, NEW d \in Nat
    PROVE  Prolongs(s, KeepAliveUntil(s, l, d), l, d)
<1>1. CASE Exists(s, l)
  <2>1. l \in LeaseId
    BY Zenon, <1>1 DEF Exists
  <2>2. KeepAliveUntil(s, l, d) = [s EXCEPT !.expireAt[l] = d]
    BY Zenon, <1>1 DEF KeepAliveUntil
  <2> DEFINE x == [s.expireAt EXCEPT ![l] = d]
  <2>3. /\ s.leaseID \in 0..MaxLeases /\ s.Keys \in [LeaseId -> SUBSET Key]
        /\ x \in [LeaseId -> Nat]
        /\ \A i \in LeaseId : x[i] = IF i = l THEN d ELSE s.expireAt[i]
    BY StateFields, <2>1
  <2>4. KeepAliveUntil(s, l, d) = [s EXCEPT !.leaseID = s.leaseID, !.expireAt = x, !.Keys = s.Keys]
    BY Zenon, <2>1, <2>2 DEF State
  <2> HIDE DEF x
  <2>5. Leases(s, KeepAliveUntil(s, l, d), s.leaseID, x, s.Keys)
    BY Zenon, <2>3, <2>4, LeasesAre
  <2> QED  BY Zenon, <1>1, <2>3, <2>5 DEF Leases, Prolongs
<1>2. CASE ~Exists(s, l)
  <2>1. KeepAliveUntil(s, l, d) = s
    BY Zenon, <1>2 DEF KeepAliveUntil
  <2> QED  BY Zenon, <1>2, <2>1 DEF SameStore, Prolongs
<1> QED  BY Zenon, <1>1, <1>2

\* t is s without the lease l, if l has the deadline.
Revoked(s, t, l, d) ==
    /\ t \in State /\ SameStore(s, t) /\ t.rev = s.rev /\ t.leaseID = s.leaseID
    /\ \A i \in LeaseId :
        /\ t.expireAt[i] = IF i = l /\ Revokes(s, l, d) THEN 0 ELSE s.expireAt[i]
        /\ t.Keys[i] = IF i = l /\ Revokes(s, l, d) THEN {} ELSE s.Keys[i]

\* A lease that is revoked is gone, with its keys.
LEMMA RevokeLeaseIs ==
    ASSUME NEW s \in State, NEW l \in {0} \cup LeaseId, NEW d \in Nat
    PROVE  Revoked(s, RevokeLease(s, l, d), l, d)
<1>1. CASE Revokes(s, l, d)
  <2>a. l \in LeaseId
    BY Zenon, <1>1 DEF Revokes, Exists
  <2>1. RevokeLease(s, l, d) = [s EXCEPT !.expireAt[l] = 0, !.Keys[l] = {}]
    BY Zenon, <1>1 DEF RevokeLease
  <2> DEFINE x == [s.expireAt EXCEPT ![l] = 0]
             y == [s.Keys EXCEPT ![l] = {}]
  <2>2. /\ s.leaseID \in 0..MaxLeases /\ x \in [LeaseId -> Nat] /\ y \in [LeaseId -> SUBSET Key]
        /\ \A i \in LeaseId : /\ x[i] = IF i = l THEN 0 ELSE s.expireAt[i]
                              /\ y[i] = IF i = l THEN {} ELSE s.Keys[i]
    BY StateFields, <2>a
  <2>3. RevokeLease(s, l, d) = [s EXCEPT !.leaseID = s.leaseID, !.expireAt = x, !.Keys = y]
    BY Zenon, <2>1, <2>a DEF State
  <2> HIDE DEF x, y
  <2>4. Leases(s, RevokeLease(s, l, d), s.leaseID, x, y)
    BY Zenon, <2>2, <2>3, LeasesAre
  <2> QED  BY Zenon, <1>1, <2>2, <2>4 DEF Leases, Revoked
<1>2. CASE ~Revokes(s, l, d)
  <2>1. RevokeLease(s, l, d) = s
    BY Zenon, <1>2 DEF RevokeLease
  <2> QED  BY Zenon, <1>2, <2>1 DEF SameStore, Revoked
<1> QED  BY Zenon, <1>1, <1>2

-----------------------------------------------------------------------------
(* What a command does: it sets a key, clears keys, grants a lease, or     *)
(* prolongs one.                                                           *)

\* k gets a version and is bound to l: Put, Delete, CAS and LeaseAttach.
Sets(s, t, k, v, l, r, b) ==
    /\ t \in State /\ Fresh(r, v, b) \in [Key -> Version] /\ Writes(s, t, {k}, Fresh(r, v, b))
    /\ t.storeRev = Larger(s.storeRev, r) /\ t.rev = s.rev
    /\ t.leaseID = s.leaseID /\ t.expireAt = s.expireAt
    /\ \A j \in Key : t.key2Lease[j] = IF j = k THEN l ELSE s.key2Lease[j]
    /\ \A i \in LeaseId : \A j \in Key :
        j \in t.Keys[i] <=> IF j = k THEN i = l /\ Exists(s, l) ELSE j \in s.Keys[i]

\* The keys D are deleted and taken out of their leases, and the leases gone,
\* whose keys they are, have ended: DeletePrefix and LeaseRevoke.
Clears(s, t, D, base, gone, r) ==
    /\ t \in State /\ Dead(D, base) \in [Key -> Version] /\ Writes(s, t, D, Dead(D, base))
    /\ t.storeRev = IF D = {} THEN s.storeRev ELSE Larger(s.storeRev, base + Cardinality(D))
    /\ t.rev = r /\ t.leaseID = s.leaseID
    /\ \A k \in Key : t.key2Lease[k] = IF k \in D THEN 0 ELSE s.key2Lease[k]
    /\ \A l \in LeaseId : /\ t.expireAt[l] = IF l \in gone THEN 0 ELSE s.expireAt[l]
                          /\ t.Keys[l] = s.Keys[l] \ D
    /\ \A l \in gone : s.Keys[l] = D

\* A key that is set has a value, unless it is deleted.
LEMMA SetsLive ==
    ASSUME NEW s \in State, NEW t, NEW k \in Key, NEW v, NEW l, NEW r, NEW b,
           Sets(s, t, k, v, l, r, b)
    PROVE  /\ b = FALSE => Live(t, k)
           /\ \A j \in Key : j # k => (Live(t, j) <=> Live(s, j))
<1>1. Fresh(r, v, b) \in [Key -> Version] /\ Writes(s, t, {k}, Fresh(r, v, b))
  BY Zenon DEF Sets
<1>2. Fresh(r, v, b)[k].Tombstone = b
  BY DEF Fresh
<1>3. \A j \in Key : /\ j \in {k} => (Live(t, j) <=> ~Fresh(r, v, b)[j].Tombstone)
                     /\ j \notin {k} => (Live(t, j) <=> Live(s, j))
  BY Zenon, <1>1, WrittenLive
<1> QED  BY Zenon, <1>2, <1>3

\* Setting a key keeps a state sound.
LEMMA SetsSound ==
    ASSUME NEW s, Sound(s), NEW t, NEW k \in Key, NEW v, NEW l \in {0} \cup LeaseId,
           NEW r \in Nat \ {0}, NEW b \in BOOLEAN, b => l = 0, Sets(s, t, k, v, l, r, b)
    PROVE  Sound(t) /\ EndsItsKeys(s, t)
<1>0. s \in State /\ Indexed(s) /\ Counted(s) /\ Bounded(s)
  BY Zenon DEF Sound
<1>1. \A i : Exists(t, i) <=> Exists(s, i)
  BY Zenon DEF Sets, Exists
<1>2. 0 \notin LeaseId
  BY DEF LeaseId
<1>3. Indexed(t)
  <2> SUFFICES ASSUME NEW i \in LeaseId, NEW j \in t.Keys[i]
               PROVE  Exists(t, i) /\ t.key2Lease[j] = i /\ Live(t, j)
    BY Zenon DEF Indexed
  <2>0. j \in Key
    <3>1. t.Keys \in [LeaseId -> SUBSET Key]
      BY Zenon, StateFields DEF Sets
    <3> QED  BY <3>1
  <2>1. CASE j = k
    <3>1. i = l /\ Exists(s, l)
      BY Zenon, <2>0, <2>1 DEF Sets
    <3>2. b = FALSE
      <4>1. ~b
        BY Zenon, <3>1, <1>2
      <4> QED  BY <4>1
    <3>3. Live(t, k)
      BY Zenon, <3>2, <1>0, SetsLive
    <3>4. t.key2Lease[k] = l
      BY Zenon DEF Sets
    <3> QED  BY Zenon, <2>1, <3>1, <3>3, <3>4, <1>1
  <2>2. CASE j # k
    <3>1. j \in s.Keys[i] /\ t.key2Lease[j] = s.key2Lease[j]
      BY Zenon, <2>0, <2>2 DEF Sets
    <3>2. Exists(s, i) /\ s.key2Lease[j] = i /\ Live(s, j)
      BY Zenon, <3>1, <1>0 DEF Indexed
    <3> QED  BY Zenon, <2>0, <2>2, <3>1, <3>2, <1>0, <1>1, SetsLive
  <2> QED  BY Zenon, <2>1, <2>2
<1>4. Counted(t)
  BY Zenon, <1>0, <1>1 DEF Counted, Sets
<1>5. Bounded(t)
  <2>1. s.storeRev \in Nat /\ t.storeRev = Larger(s.storeRev, r) /\ r \in Nat
    BY Zenon, <1>0, StateFields DEF Sets
  <2>2. s.storeRev <= t.storeRev /\ r <= t.storeRev /\ t.storeRev \in Nat
    BY <2>1 DEF Larger
  <2>3. Fresh(r, v, b)[k].Revision = r
    BY DEF Fresh
  <2>4. r \in 1..t.storeRev
    BY <2>2
  <2>5. \A j \in {k} : Fresh(r, v, b)[j].Revision \in 1..t.storeRev
    BY Zenon, <2>3, <2>4
  <2>6. Fresh(r, v, b) \in [Key -> Version] /\ Writes(s, t, {k}, Fresh(r, v, b)) /\ {k} \in SUBSET Key
    BY Zenon DEF Sets
  <2> QED  BY Zenon, <1>0, <2>2, <2>5, <2>6, WrittenBounded
<1> QED  BY Zenon, <1>1, <1>3, <1>4, <1>5 DEF Sound, Sets, EndsItsKeys

\* A key set at a revision that is newer than the store: the revisions stay in
\* order.
LEMMA SetsOrdered ==
    ASSUME NEW s \in State, Ordered(s), NEW t, NEW k \in Key, NEW v, NEW l, NEW r \in Nat \ {0},
           NEW b, Sets(s, t, k, v, l, r, b), s.storeRev < r, r <= s.rev
    PROVE  Ordered(t) /\ Extends(t, s)
<1>1. s.storeRev \in Nat /\ s.rev \in Nat /\ t.storeRev = Larger(s.storeRev, r) /\ t.rev = s.rev
  BY Zenon, StateFields DEF Sets
<1>2. s.storeRev <= r
  BY <1>1
<1>3. t.storeRev = r
  BY Zenon, <1>1, <1>2, LargerIs
<1>4. Fresh(r, v, b)[k].Revision = r
  BY DEF Fresh
<1>5. r \in (s.storeRev + 1)..t.storeRev
  BY <1>1, <1>3
<1>6. \A j \in {k} : Fresh(r, v, b)[j].Revision \in (s.storeRev + 1)..t.storeRev
  BY Zenon, <1>4, <1>5
<1>7. Fresh(r, v, b) \in [Key -> Version] /\ Writes(s, t, {k}, Fresh(r, v, b)) /\ {k} \in SUBSET Key
  BY Zenon DEF Sets
<1>8. \A j, q \in {k} : Fresh(r, v, b)[j].Revision = Fresh(r, v, b)[q].Revision => j = q
  OBVIOUS
<1>9. t.storeRev \in Nat /\ t.rev \in Nat /\ s.storeRev <= t.storeRev /\ t.storeRev <= t.rev
  BY Zenon, <1>1, <1>2, <1>3
<1> QED  BY Zenon, <1>6, <1>7, <1>8, <1>9, WrittenOrdered

\* Clearing keys keeps a state sound, and a lease that has ended has taken its
\* keys along.
LEMMA ClearsSound ==
    ASSUME NEW s, Sound(s), NEW t, NEW D \in SUBSET Key, NEW base \in Nat, NEW gone, NEW r,
           Clears(s, t, D, base, gone, r)
    PROVE  Sound(t) /\ EndsItsKeys(s, t)
<1>0. s \in State /\ Indexed(s) /\ Counted(s) /\ Bounded(s) /\ t \in State
  BY Zenon DEF Sound, Clears
<1>1. Dead(D, base) \in [Key -> Version] /\ Writes(s, t, D, Dead(D, base))
  BY Zenon DEF Clears
<1>2. ASSUME NEW k \in Key
      PROVE  /\ k \in D => ~Live(t, k)
             /\ k \notin D => (Live(t, k) <=> Live(s, k))
  <2>1. Dead(D, base)[k].Tombstone = TRUE
    BY DEF Dead
  <2> QED  BY Zenon, <2>1, <1>0, <1>1, WrittenLive
<1>3. ASSUME NEW l \in LeaseId
      PROVE  /\ Exists(t, l) <=> Exists(s, l) /\ l \notin gone
             /\ l \in gone => s.Keys[l] = D
             /\ t.Keys[l] = s.Keys[l] \ D
  BY Zenon DEF Clears, Exists
<1>4. Indexed(t)
  <2> SUFFICES ASSUME NEW i \in LeaseId, NEW j \in t.Keys[i]
               PROVE  Exists(t, i) /\ t.key2Lease[j] = i /\ Live(t, j)
    BY Zenon DEF Indexed
  <2>1. j \in s.Keys[i] /\ j \notin D /\ i \notin gone
    BY Zenon, <1>3
  <2>2. j \in Key
    <3>1. s.Keys \in [LeaseId -> SUBSET Key]
      BY Zenon, <1>0, StateFields
    <3> QED  BY <3>1, <2>1
  <2>3. Exists(s, i) /\ s.key2Lease[j] = i /\ Live(s, j)
    BY Zenon, <2>1, <1>0 DEF Indexed
  <2>4. t.key2Lease[j] = s.key2Lease[j]
    BY Zenon, <2>1, <2>2 DEF Clears
  <2> QED  BY Zenon, <2>1, <2>2, <2>3, <2>4, <1>2, <1>3
<1>5. Counted(t)
  BY Zenon, <1>0, <1>3 DEF Counted, Clears
<1>6. Bounded(t)
  <2>1. s.storeRev \in Nat /\ t.storeRev \in Nat /\ Cardinality(D) \in Nat
    BY <1>0, StateFields, FiniteKeys
  <2>2. s.storeRev <= t.storeRev
    <3>1. t.storeRev = s.storeRev \/ t.storeRev = Larger(s.storeRev, base + Cardinality(D))
      BY Zenon DEF Clears
    <3> QED  BY <3>1, <2>1 DEF Larger
  <2>3. ASSUME NEW k \in D  PROVE Dead(D, base)[k].Revision \in 1..t.storeRev
    <3>1. t.storeRev = Larger(s.storeRev, base + Cardinality(D))
      BY Zenon DEF Clears
    <3>2. base + Cardinality(D) <= t.storeRev
      BY <3>1, <2>1 DEF Larger
    <3>3. Rank(D, k) \in 1..Cardinality(D)
      BY Zenon, Ranks
    <3>4. Dead(D, base)[k].Revision = base + Rank(D, k)
      BY DEF Dead
    <3> QED  BY <3>2, <3>3, <3>4, <2>1
  <2> QED  BY Zenon, <1>0, <1>1, <2>1, <2>2, <2>3, WrittenBounded
<1>7. EndsItsKeys(s, t)
  BY Zenon, <1>2, <1>3 DEF EndsItsKeys
<1> QED  BY Zenon, <1>0, <1>4, <1>5, <1>6, <1>7 DEF Sound

\* Tombstones that follow the store's revision, each with its own: the
\* revisions stay in order.
LEMMA ClearsOrdered ==
    ASSUME NEW s \in State, Ordered(s), NEW t, NEW D \in SUBSET Key, NEW base \in Nat, NEW gone,
           NEW r \in Nat, Clears(s, t, D, base, gone, r), s.storeRev <= base, s.rev <= r,
           D # {} => base + Cardinality(D) <= r
    PROVE  Ordered(t) /\ Extends(t, s)
<1>1. s.storeRev \in Nat /\ s.rev \in Nat /\ Cardinality(D) \in Nat /\ t.rev = r
      /\ s.storeRev <= s.rev
  BY Zenon, StateFields, FiniteKeys DEF Clears, Ordered
<1>2. Dead(D, base) \in [Key -> Version] /\ Writes(s, t, D, Dead(D, base))
  BY Zenon DEF Clears
<1>3. /\ t.storeRev \in Nat /\ s.storeRev <= t.storeRev /\ t.storeRev <= r
      /\ D # {} => t.storeRev = base + Cardinality(D)
  <2>1. CASE D = {}
    <3>1. t.storeRev = s.storeRev
      BY Zenon, <2>1 DEF Clears
    <3> QED  BY <3>1, <2>1, <1>1
  <2>2. CASE D # {}
    <3>1. t.storeRev = Larger(s.storeRev, base + Cardinality(D))
      BY Zenon, <2>2 DEF Clears
    <3>2. base + Cardinality(D) \in Nat /\ s.storeRev <= base + Cardinality(D)
      BY <1>1
    <3>3. t.storeRev = base + Cardinality(D)
      BY Zenon, <3>1, <3>2, <1>1, LargerIs
    <3> QED  BY Zenon, <2>2, <3>2, <3>3
  <2> QED  BY Zenon, <2>1, <2>2
<1>4. ASSUME NEW k \in D
      PROVE  /\ Dead(D, base)[k].Revision \in (s.storeRev + 1)..t.storeRev
             /\ \A j \in D : Dead(D, base)[k].Revision = Dead(D, base)[j].Revision => k = j
  <2>1. \A j \in D : Dead(D, base)[j].Revision = base + Rank(D, j)
    BY DEF Dead
  <2>2. \A j \in D : Rank(D, j) \in 1..Cardinality(D)
    BY Zenon, Ranks
  <2>3. \A j \in D : Rank(D, j) = Rank(D, k) => j = k
    BY Zenon, Ranks
  <2>4. t.storeRev = base + Cardinality(D)
    BY Zenon, <1>3
  <2>5. Dead(D, base)[k].Revision \in (s.storeRev + 1)..t.storeRev
    BY <2>1, <2>2, <2>4, <1>1
  <2>6. ASSUME NEW j \in D, Dead(D, base)[k].Revision = Dead(D, base)[j].Revision
        PROVE  k = j
    <3>1. base + Rank(D, j) = base + Rank(D, k)
      BY Zenon, <2>1, <2>6
    <3>2. Rank(D, j) = Rank(D, k)
      BY <3>1, <2>2, <1>1
    <3> QED  BY Zenon, <3>2, <2>3
  <2> QED  BY Zenon, <2>5, <2>6
<1> QED  BY Zenon, <1>1, <1>2, <1>3, <1>4, WrittenOrdered

\* Detached from its lease, written, bound and attached, a key is set.
LEMMA Chain ==
    ASSUME NEW s, NEW s1, NEW s2, NEW s3, NEW t, NEW k \in Key, NEW v, NEW l, NEW r, NEW b,
           Detaches(s, s1, {k}), Adds(s1, s2, k, r, v, b), Binds(s2, s3, k, l),
           Attaches(s3, t, l, k)
    PROVE  Sets(s, t, k, v, l, r, b)
<1>1. t \in State /\ Fresh(r, v, b) \in [Key -> Version]
  BY Zenon DEF Adds, Attaches
<1>2. t.data = s2.data /\ s1.data = s.data
  BY Zenon DEF Attaches, Binds, Detaches, SameStore
<1>3. Writes(s, t, {k}, Fresh(r, v, b))
  BY Zenon, <1>2 DEF Adds, Writes
<1>4. /\ t.storeRev = Larger(s.storeRev, r) /\ t.rev = s.rev
      /\ t.leaseID = s.leaseID /\ t.expireAt = s.expireAt
  BY Zenon DEF Attaches, Binds, Adds, Detaches, SameStore, SameLeases
<1>5. \A j \in Key : t.key2Lease[j] = IF j = k THEN l ELSE s.key2Lease[j]
  <2>1. t.key2Lease = s3.key2Lease /\ s2.key2Lease = s.key2Lease
    BY Zenon DEF Attaches, Adds, Detaches, SameStore
  <2> QED  BY Zenon, <2>1 DEF Binds
<1>6. Exists(s3, l) <=> Exists(s, l)
  BY Zenon DEF Exists, Binds, Adds, Detaches, SameLeases
<1>7. \A i \in LeaseId : s3.Keys[i] = s.Keys[i] \ {k}
  BY Zenon DEF Binds, Adds, Detaches, SameLeases
<1>8. ASSUME NEW i \in LeaseId, NEW j \in Key
      PROVE  j \in t.Keys[i] <=> IF j = k THEN i = l /\ Exists(s, l) ELSE j \in s.Keys[i]
  BY Zenon, <1>6, <1>7 DEF Attaches
<1> QED  BY Zenon, <1>1, <1>3, <1>4, <1>5, <1>8 DEF Sets

\* Lease 0 has no keys to attach to.
LEMMA AttachNone ==
    ASSUME NEW s, NEW k
    PROVE  Attach(s, 0, k) = s
<1>1. 0 \notin LeaseId
  BY DEF LeaseId
<1> QED  BY Zenon, <1>1 DEF Attach, Exists

\* Put: the key leaves its lease, is written, and joins the lease named.
LEMMA PutSets ==
    ASSUME NEW s, Sound(s), NEW k \in Key, NEW v \in Value, NEW l \in {0} \cup LeaseId,
           NEW r \in Nat \ {0}
    PROVE  /\ Sets(s, ApplyPut(s, k, v, l, r), k, v, l, r, FALSE)
           /\ ReplayPut(s, k, v, l, r) = ApplyPut(s, k, v, l, r)
<1> DEFINE s1 == RevokeKey(s, k)
           s2 == AddVersion(s1, k, r, v, FALSE)
           s3 == [s2 EXCEPT !.key2Lease[k] = l]
           t == Attach(s3, l, k)
<1>0. s \in State /\ Indexed(s)
  BY Zenon DEF Sound
<1>1. ApplyPut(s, k, v, l, r) = IF l > 0 THEN t ELSE s3
  BY Zenon DEF ApplyPut, StorePut
<1>2. ReplayPut(s, k, v, l, r) = ApplyPut(s, k, v, l, r)
  BY Zenon DEF ApplyPut, ReplayPut
<1>3. s1 = RevokeKeys(s, {k})
  BY Zenon, <1>0, RevokeKeyIs
<1> HIDE DEF s1
<1>4. Detaches(s, s1, {k})
  BY Zenon, <1>0, <1>3, RevokeKeysIs
<1>5. s1 \in State
  BY Zenon, <1>4 DEF Detaches
<1>6. Adds(s1, s2, k, r, v, FALSE)
  BY Zenon, <1>5, AddVersionIs
<1> HIDE DEF s2
<1>7. s2 \in State
  BY Zenon, <1>6 DEF Adds
<1>8. Binds(s2, s3, k, l)
  BY Zenon, <1>7, BindIs
<1> HIDE DEF s3
<1>9. s3 \in State
  BY Zenon, <1>8 DEF Binds
<1>10. Attaches(s3, t, l, k)
  BY Zenon, <1>9, AttachIs
<1> HIDE DEF t
<1>11. Sets(s, t, k, v, l, r, FALSE)
  BY Zenon, <1>4, <1>6, <1>8, <1>10, Chain
<1>12. ApplyPut(s, k, v, l, r) = t
  <2>1. CASE l = 0
    <3>1. ~(0 > 0)
      OBVIOUS
    <3>2. t = s3
      BY Zenon, <2>1, AttachNone DEF t
    <3> QED  BY Zenon, <1>1, <2>1, <3>1, <3>2
  <2>2. CASE l \in LeaseId
    <3>1. l > 0
      BY <2>2 DEF LeaseId
    <3> QED  BY Zenon, <1>1, <3>1
  <2> QED  BY Zenon, <2>1, <2>2
<1> QED  BY Zenon, <1>2, <1>11, <1>12

\* LeaseAttach: the same in another order.
LEMMA AttachSets ==
    ASSUME NEW s, Sound(s), NEW k \in Key, NEW v \in Value, NEW l \in LeaseId, NEW r \in Nat \ {0}
    PROVE  /\ Sets(s, ApplyAttach(s, l, k, v, r), k, v, l, r, FALSE)
           /\ ReplayAttach(s, l, k, v, r) = ApplyAttach(s, l, k, v, r)
<1> DEFINE s1 == RevokeKey(s, k)
           s2 == Attach(s1, l, k)
           s3 == AddVersion(s2, k, r, v, FALSE)
           t == [s3 EXCEPT !.key2Lease[k] = l]
<1>0. s \in State /\ Indexed(s)
  BY Zenon DEF Sound
<1>1. l > 0
  BY DEF LeaseId
<1>2. ApplyAttach(s, l, k, v, r) = t
  BY Zenon, <1>1 DEF ApplyAttach, StorePut
<1>3. ReplayAttach(s, l, k, v, r) = ApplyAttach(s, l, k, v, r)
  BY Zenon DEF ApplyAttach, ReplayAttach
<1>4. s1 = RevokeKeys(s, {k})
  BY Zenon, <1>0, RevokeKeyIs
<1> HIDE DEF s1
<1>5. Detaches(s, s1, {k})
  BY Zenon, <1>0, <1>4, RevokeKeysIs
<1>6. s1 \in State
  BY Zenon, <1>5 DEF Detaches
<1>7. Attaches(s1, s2, l, k)
  BY Zenon, <1>6, AttachIs
<1> HIDE DEF s2
<1>8. s2 \in State
  BY Zenon, <1>7 DEF Attaches
<1>9. Adds(s2, s3, k, r, v, FALSE)
  BY Zenon, <1>8, AddVersionIs
<1> HIDE DEF s3
<1>10. s3 \in State
  BY Zenon, <1>9 DEF Adds
<1>11. Binds(s3, t, k, l)
  BY Zenon, <1>10, BindIs
<1> HIDE DEF t
<1>12. t \in State /\ Fresh(r, v, FALSE) \in [Key -> Version]
  BY Zenon, <1>9, <1>11 DEF Adds, Binds
<1>13. t.data = s3.data /\ s2.data = s.data
  BY Zenon, <1>5, <1>7, <1>11 DEF Attaches, Binds, Detaches, SameStore
<1>14. Writes(s, t, {k}, Fresh(r, v, FALSE))
  BY Zenon, <1>9, <1>13 DEF Adds, Writes
<1>15. /\ t.storeRev = Larger(s.storeRev, r) /\ t.rev = s.rev
       /\ t.leaseID = s.leaseID /\ t.expireAt = s.expireAt
  BY Zenon, <1>5, <1>7, <1>9, <1>11 DEF Attaches, Binds, Adds, Detaches, SameStore, SameLeases
<1>16. \A j \in Key : t.key2Lease[j] = IF j = k THEN l ELSE s.key2Lease[j]
  <2>1. s3.key2Lease = s.key2Lease
    BY Zenon, <1>5, <1>7, <1>9 DEF Attaches, Adds, Detaches, SameStore
  <2>2. \A j \in Key : t.key2Lease[j] = IF j = k THEN l ELSE s3.key2Lease[j]
    BY Zenon, <1>11 DEF Binds
  <2> QED  BY Zenon, <2>1, <2>2
<1>17. Exists(s1, l) <=> Exists(s, l)
  BY Zenon, <1>5 DEF Exists, Detaches
<1>18. \A i \in LeaseId : s1.Keys[i] = s.Keys[i] \ {k}
  BY Zenon, <1>5 DEF Detaches
<1>19. t.Keys = s2.Keys
  BY Zenon, <1>9, <1>11 DEF Binds, Adds, SameLeases
<1>20. ASSUME NEW i \in LeaseId, NEW j \in Key
       PROVE  j \in t.Keys[i] <=> IF j = k THEN i = l /\ Exists(s, l) ELSE j \in s.Keys[i]
  BY Zenon, <1>7, <1>17, <1>18, <1>19 DEF Attaches
<1>21. Sets(s, t, k, v, l, r, FALSE)
  BY Zenon, <1>12, <1>14, <1>15, <1>16, <1>20 DEF Sets
<1> QED  BY Zenon, <1>2, <1>3, <1>21

\* Delete: the key leaves its lease and gets a tombstone.
LEMMA DeleteSets ==
    ASSUME NEW s, Sound(s), NEW k \in Key, NEW r \in Nat \ {0}
    PROVE  Sets(s, StoreDelete(RevokeKey(s, k), k, r), k, NoValue, 0, r, TRUE)
<1> DEFINE s1 == RevokeKey(s, k)
           s2 == AddVersion(s1, k, r, NoValue, TRUE)
           t == [s2 EXCEPT !.key2Lease[k] = 0]
<1>0. s \in State /\ Indexed(s)
  BY Zenon DEF Sound
<1>1. StoreDelete(RevokeKey(s, k), k, r) = t
  BY Zenon DEF StoreDelete
<1>2. s1 = RevokeKeys(s, {k})
  BY Zenon, <1>0, RevokeKeyIs
<1> HIDE DEF s1
<1>3. Detaches(s, s1, {k})
  BY Zenon, <1>0, <1>2, RevokeKeysIs
<1>4. s1 \in State /\ NoValue \in Value \cup {NoValue}
  BY Zenon, <1>3 DEF Detaches
<1>5. Adds(s1, s2, k, r, NoValue, TRUE)
  BY Zenon, <1>4, AddVersionIs
<1> HIDE DEF s2
<1>6. s2 \in State
  BY Zenon, <1>5 DEF Adds
<1>7. Binds(s2, t, k, 0)
  BY Zenon, <1>6, BindIs
<1> HIDE DEF t
<1>8. t \in State
  BY Zenon, <1>7 DEF Binds
<1>9. Attaches(t, t, 0, k)
  <2>1. Attaches(t, Attach(t, 0, k), 0, k)
    BY Zenon, <1>8, AttachIs
  <2>2. Attach(t, 0, k) = t
    BY Zenon, AttachNone
  <2> QED  BY Zenon, <2>1, <2>2
<1>10. Sets(s, t, k, NoValue, 0, r, TRUE)
  BY Zenon, <1>3, <1>5, <1>7, <1>9, Chain
<1> QED  BY Zenon, <1>1, <1>10

\* CAS that holds: the key is written and stays with its lease.
LEMMA CASSets ==
    ASSUME NEW s, Sound(s), NEW k \in Key, NEW v \in Value, NEW x, NEW r \in Nat \ {0},
           CASHolds(s, k, x)
    PROVE  /\ Sets(s, ApplyCAS(s, k, v, x, r), k, v, s.key2Lease[k], r, FALSE)
           /\ ReplayCAS(s, k, v, x, r) = ApplyCAS(s, k, v, x, r)
           /\ s.key2Lease[k] \in {0} \cup LeaseId
<1> DEFINE l == s.key2Lease[k]
           s1 == AddVersion(s, k, r, v, FALSE)
           t == Attach(s1, l, k)
<1>0. s \in State /\ Indexed(s)
  BY Zenon DEF Sound
<1>1. l \in {0} \cup LeaseId
  BY <1>0, StateFields
<1>2. ApplyCAS(s, k, v, x, r) = IF l > 0 THEN t ELSE s1
  BY Zenon DEF ApplyCAS, StoreCAS
<1>3. ReplayCAS(s, k, v, x, r) = ApplyCAS(s, k, v, x, r)
  BY Zenon DEF ApplyCAS, ReplayCAS
<1>4. Adds(s, s1, k, r, v, FALSE)
  BY Zenon, <1>0, AddVersionIs
<1> HIDE DEF s1
<1>5. s1 \in State
  BY Zenon, <1>4 DEF Adds
<1>6. Attaches(s1, t, l, k)
  BY Zenon, <1>1, <1>5, AttachIs
<1>7. ApplyCAS(s, k, v, x, r) = t
  <2>1. CASE l = 0
    <3>1. ~(0 > 0)
      OBVIOUS
    <3>2. t = s1
      BY Zenon, <2>1, AttachNone DEF t
    <3> QED  BY Zenon, <1>2, <2>1, <3>1, <3>2
  <2>2. CASE l \in LeaseId
    <3>1. l > 0
      BY <2>2 DEF LeaseId
    <3> QED  BY Zenon, <1>2, <3>1
  <2> QED  BY Zenon, <1>1, <2>1, <2>2
<1> HIDE DEF t
<1>8. t \in State /\ Fresh(r, v, FALSE) \in [Key -> Version]
  BY Zenon, <1>4, <1>6 DEF Adds, Attaches
<1>9. t.data = s1.data
  BY Zenon, <1>6 DEF Attaches, SameStore
<1>10. Writes(s, t, {k}, Fresh(r, v, FALSE))
  BY Zenon, <1>4, <1>9 DEF Adds, Writes
<1>11. /\ t.storeRev = Larger(s.storeRev, r) /\ t.rev = s.rev
       /\ t.leaseID = s.leaseID /\ t.expireAt = s.expireAt /\ t.key2Lease = s.key2Lease
  BY Zenon, <1>4, <1>6 DEF Attaches, Adds, SameStore, SameLeases
<1>12. \A j \in Key : t.key2Lease[j] = IF j = k THEN l ELSE s.key2Lease[j]
  BY Zenon, <1>11
<1>13. Exists(s1, l) <=> Exists(s, l)
  BY Zenon, <1>4 DEF Exists, Adds, SameLeases
<1>14. s1.Keys = s.Keys
  BY Zenon, <1>4 DEF Adds, SameLeases
<1>15. \A i \in LeaseId : k \in s.Keys[i] => i = l /\ Exists(s, l)
  BY Zenon, <1>0 DEF Indexed
<1>16. ASSUME NEW i \in LeaseId, NEW j \in Key
       PROVE  j \in t.Keys[i] <=> IF j = k THEN i = l /\ Exists(s, l) ELSE j \in s.Keys[i]
  <2> HIDE DEF l
  <2>1. t.Keys[i] = IF i = l /\ Exists(s, l) THEN s.Keys[i] \cup {k} ELSE s.Keys[i]
    BY Zenon, <1>6, <1>13, <1>14 DEF Attaches
  <2> QED  BY Zenon, <2>1, <1>15
<1>17. Sets(s, t, k, v, l, r, FALSE)
  BY Zenon, <1>8, <1>10, <1>11, <1>12, <1>16 DEF Sets
<1> QED  BY Zenon, <1>1, <1>3, <1>7, <1>17

\* DeletePrefix, before the server's revision follows the store's.
LEMMA PrefixClears ==
    ASSUME NEW s, Sound(s), NEW p \in Prefix
    PROVE  /\ PrefixKeys(s, p) \in SUBSET Key
           /\ Clears(s, ReplayDeletePrefix(s, p), PrefixKeys(s, p), s.storeRev, {}, s.rev)
<1> DEFINE D == PrefixKeys(s, p)
           u == Tombstones(s, D, s.storeRev)
           t == RevokeKeys(u, D)
<1>0. s \in State /\ s.storeRev \in Nat
  BY Zenon, StateFields DEF Sound
<1>1. D \in SUBSET Key
  BY StoreConstants DEF StoreConstants, PrefixKeys
<1>2. ReplayDeletePrefix(s, p) = t
  BY Zenon DEF ReplayDeletePrefix, StoreDeletePrefix
<1> HIDE DEF D
<1>3. Buries(s, u, D, s.storeRev)
  BY Zenon, <1>0, <1>1, TombstonesIs
<1> HIDE DEF u
<1>4. u \in State
  BY Zenon, <1>3 DEF Buries
<1>5. Detaches(u, t, D)
  BY Zenon, <1>4, RevokeKeysIs
<1> HIDE DEF t
<1>6. t \in State /\ Dead(D, s.storeRev) \in [Key -> Version]
  BY Zenon, <1>3, <1>5 DEF Buries, Detaches
<1>7. t.data = u.data /\ t.key2Lease = u.key2Lease /\ t.storeRev = u.storeRev
  BY Zenon, <1>5 DEF Detaches, SameStore
<1>8. Writes(s, t, D, Dead(D, s.storeRev))
  BY Zenon, <1>3, <1>7 DEF Buries, Writes
<1>9. /\ t.storeRev = IF D = {} THEN s.storeRev ELSE Larger(s.storeRev, s.storeRev + Cardinality(D))
      /\ \A k \in Key : t.key2Lease[k] = IF k \in D THEN 0 ELSE s.key2Lease[k]
  BY Zenon, <1>3, <1>7 DEF Buries
<1>10. t.rev = s.rev /\ t.leaseID = s.leaseID /\ t.expireAt = s.expireAt /\ u.Keys = s.Keys
  BY Zenon, <1>3, <1>5 DEF Buries, Detaches, SameLeases
<1>11. \A l \in LeaseId : t.Keys[l] = s.Keys[l] \ D
  BY Zenon, <1>5, <1>10 DEF Detaches
<1>12. Clears(s, t, D, s.storeRev, {}, s.rev)
  BY Zenon, <1>6, <1>8, <1>9, <1>10, <1>11 DEF Clears
<1> QED  BY Zenon, <1>1, <1>2, <1>12 DEF D

\* The lease that a revocation ends.
Gone(s, l, d) == IF Revokes(s, l, d) THEN {l} ELSE {}

\* LeaseRevoke: the lease goes with its keys, whose tombstones take revisions
\* of the server.
LEMMA RevokeClears ==
    ASSUME NEW s, Sound(s), NEW l \in {0} \cup LeaseId, NEW d \in Nat
    PROVE  /\ RevokedKeys(s, l, d) \in SUBSET Key
           /\ Clears(s, ReplayRevoke(s, l, d), RevokedKeys(s, l, d), s.rev, Gone(s, l, d),
                     s.rev + Cardinality(RevokedKeys(s, l, d)))
<1> DEFINE D == RevokedKeys(s, l, d)
           u == RevokeLease(s, l, d)
           w == Tombstones(u, D, s.rev)
           t == [w EXCEPT !.rev = w.rev + Cardinality(D)]
<1>0. s \in State /\ s.rev \in Nat /\ Indexed(s)
  BY Zenon, StateFields DEF Sound
<1>1. D \in SUBSET Key
  <2>1. CASE Revokes(s, l, d)
    <3>1. l \in LeaseId /\ D = s.Keys[l]
      BY Zenon, <2>1 DEF Revokes, Exists, RevokedKeys
    <3> QED  BY <3>1, <1>0, StateFields
  <2>2. CASE ~Revokes(s, l, d)
    BY Zenon, <2>2 DEF RevokedKeys
  <2> QED  BY Zenon, <2>1, <2>2
<1>2. ReplayRevoke(s, l, d) = t
  BY DEF ReplayRevoke
<1>3. /\ Revokes(s, l, d) => l \in LeaseId /\ D = s.Keys[l]
      /\ ~Revokes(s, l, d) => D = {}
  BY Zenon DEF Revokes, Exists, RevokedKeys
<1> HIDE DEF D
<1>4. Revoked(s, u, l, d)
  BY Zenon, <1>0, RevokeLeaseIs
<1> HIDE DEF u
<1>5. u \in State
  BY Zenon, <1>4 DEF Revoked
<1>6. Buries(u, w, D, s.rev)
  BY Zenon, <1>0, <1>1, <1>5, TombstonesIs
<1> HIDE DEF w
<1>7. w \in State /\ w.rev = s.rev
  BY Zenon, <1>4, <1>6 DEF Buries, Revoked
<1>8. w.rev + Cardinality(D) \in Nat
  BY <1>0, <1>1, <1>7, FiniteKeys
<1>9. Counts(w, t, w.rev + Cardinality(D))
  BY Zenon, <1>7, <1>8, RevIs
<1> HIDE DEF t
<1>10. t \in State /\ Dead(D, s.rev) \in [Key -> Version] /\ t.rev = s.rev + Cardinality(D)
  BY Zenon, <1>6, <1>7, <1>9 DEF Buries, Counts
<1>11. /\ t.data = w.data /\ t.key2Lease = w.key2Lease /\ t.storeRev = w.storeRev
       /\ u.data = s.data /\ u.key2Lease = s.key2Lease /\ u.storeRev = s.storeRev
  BY Zenon, <1>4, <1>9 DEF Counts, Revoked, SameStore
<1>12. Writes(s, t, D, Dead(D, s.rev))
  BY Zenon, <1>6, <1>11 DEF Buries, Writes
<1>13. /\ t.storeRev = IF D = {} THEN s.storeRev ELSE Larger(s.storeRev, s.rev + Cardinality(D))
       /\ \A k \in Key : t.key2Lease[k] = IF k \in D THEN 0 ELSE s.key2Lease[k]
  BY Zenon, <1>6, <1>11 DEF Buries
<1>14. t.leaseID = s.leaseID /\ t.expireAt = u.expireAt /\ t.Keys = u.Keys
  BY Zenon, <1>4, <1>6, <1>9 DEF Buries, Counts, Revoked, SameLeases
<1>15. ASSUME NEW i \in LeaseId
       PROVE  /\ t.expireAt[i] = IF i \in Gone(s, l, d) THEN 0 ELSE s.expireAt[i]
              /\ t.Keys[i] = s.Keys[i] \ D
  <2>1. i \in Gone(s, l, d) <=> i = l /\ Revokes(s, l, d)
    BY Zenon DEF Gone
  <2>2. /\ u.expireAt[i] = IF i = l /\ Revokes(s, l, d) THEN 0 ELSE s.expireAt[i]
        /\ u.Keys[i] = IF i = l /\ Revokes(s, l, d) THEN {} ELSE s.Keys[i]
    BY Zenon, <1>4 DEF Revoked
  <2>3. (i = l /\ Revokes(s, l, d)) => s.Keys[i] \ D = {}
    BY Zenon, <1>3
  <2>4. ~(i = l /\ Revokes(s, l, d)) => s.Keys[i] \ D = s.Keys[i]
    <3>1. Revokes(s, l, d) /\ i # l => \A k \in s.Keys[i] : k \notin D
      BY Zenon, <1>0, <1>3 DEF Indexed
    <3> QED  BY Zenon, <1>3, <3>1
  <2> QED  BY Zenon, <1>14, <2>1, <2>2, <2>3, <2>4
<1>16. \A i \in Gone(s, l, d) : s.Keys[i] = D
  BY Zenon, <1>3 DEF Gone
<1>17. Clears(s, t, D, s.rev, Gone(s, l, d), s.rev + Cardinality(D))
  BY Zenon, <1>10, <1>12, <1>13, <1>14, <1>15, <1>16 DEF Clears
<1> QED  BY Zenon, <1>1, <1>2, <1>17 DEF D

\* A new lease keeps a state sound.
LEMMA GrantsSound ==
    ASSUME NEW s, Sound(s), NEW t, NEW d, Grants(s, t, s.leaseID + 1, d)
    PROVE  Sound(t) /\ EndsItsKeys(s, t)
<1> DEFINE id == s.leaseID + 1
<1>0. s \in State /\ Indexed(s) /\ Counted(s) /\ Bounded(s)
  BY Zenon DEF Sound
<1>1. s.leaseID \in Nat
  BY <1>0, StoreConstants, StateFields DEF StoreConstants
<1>2. \A l \in LeaseId : l <= s.leaseID => l # id /\ l <= id
  BY <1>1 DEF LeaseId
<1>3. id \in LeaseId /\ id <= id
  BY <1>1 DEF Grants
<1>4. Grants(s, t, id, d)
  OBVIOUS
<1> HIDE DEF id
<1>5. t \in State /\ t.data = s.data /\ t.key2Lease = s.key2Lease /\ t.storeRev = s.storeRev
      /\ t.leaseID = id
  BY Zenon, <1>4 DEF Grants, SameStore
<1>6. \A l \in LeaseId : l # id => (Exists(t, l) <=> Exists(s, l)) /\ t.Keys[l] = s.Keys[l]
  BY Zenon, <1>4 DEF Grants, Exists
<1>7. t.Keys[id] = {}
  BY Zenon, <1>3, <1>4 DEF Grants
<1>8. \A k \in Key : Live(t, k) <=> Live(s, k)
  BY Zenon, <1>5 DEF Live, Latest
<1>9. Indexed(t)
  <2> SUFFICES ASSUME NEW l \in LeaseId, NEW k \in t.Keys[l]
               PROVE  Exists(t, l) /\ t.key2Lease[k] = l /\ Live(t, k)
    BY Zenon DEF Indexed
  <2>1. l # id
    BY Zenon, <1>7
  <2>2. k \in s.Keys[l] /\ (Exists(t, l) <=> Exists(s, l))
    BY Zenon, <1>6, <2>1
  <2>3. Exists(s, l) /\ s.key2Lease[k] = l /\ Live(s, k)
    BY Zenon, <1>0, <2>2 DEF Indexed
  <2>4. Live(t, k)
    BY Zenon, <2>3, <1>5 DEF Live, Latest
  <2> QED  BY Zenon, <1>5, <2>2, <2>3, <2>4
<1>10. Counted(t)
  <2> SUFFICES ASSUME NEW l \in LeaseId, Exists(t, l)
               PROVE  l <= t.leaseID
    BY Zenon DEF Counted
  <2>1. CASE l = id
    BY Zenon, <2>1, <1>3, <1>5
  <2>2. CASE l # id
    <3>1. l <= s.leaseID
      BY Zenon, <2>2, <1>0, <1>6 DEF Counted
    <3> QED  BY Zenon, <3>1, <1>2, <1>5
  <2> QED  BY Zenon, <2>1, <2>2
<1>11. Bounded(t)
  BY Zenon, <1>0, <1>5 DEF Bounded
<1>12. EndsItsKeys(s, t)
  <2>1. \A l \in LeaseId : Exists(s, l) => l # id
    BY Zenon, <1>0, <1>2 DEF Counted
  <2> QED  BY Zenon, <1>6, <2>1 DEF EndsItsKeys
<1> QED  BY Zenon, <1>5, <1>9, <1>10, <1>11, <1>12 DEF Sound

\* Another deadline keeps a state sound.
LEMMA ProlongsSound ==
    ASSUME NEW s, Sound(s), NEW t, NEW l, NEW d, d # 0, Prolongs(s, t, l, d)
    PROVE  Sound(t) /\ EndsItsKeys(s, t)
<1>0. s \in State /\ Indexed(s) /\ Counted(s) /\ Bounded(s)
  BY Zenon DEF Sound
<1>1. t \in State /\ t.data = s.data /\ t.key2Lease = s.key2Lease /\ t.storeRev = s.storeRev
      /\ t.leaseID = s.leaseID /\ t.Keys = s.Keys
  BY Zenon DEF Prolongs, SameStore
<1>2. \A i \in LeaseId : Exists(t, i) <=> Exists(s, i)
  BY Zenon DEF Prolongs, Exists
<1>a. \A k : Live(t, k) <=> Live(s, k)
  BY Zenon, <1>1 DEF Live, Latest
<1>3. Indexed(t)
  BY Zenon, <1>0, <1>1, <1>2, <1>a DEF Indexed
<1>4. Counted(t)
  BY Zenon, <1>0, <1>1, <1>2 DEF Counted
<1>5. Bounded(t)
  BY Zenon, <1>0, <1>1 DEF Bounded
<1> QED  BY Zenon, <1>1, <1>2, <1>3, <1>4, <1>5 DEF Sound, EndsItsKeys

\* The server's revision has no part in it.
LEMMA CountsSound ==
    ASSUME NEW s, Sound(s), NEW t, NEW r, Counts(s, t, r)
    PROVE  Sound(t) /\ EndsItsKeys(s, t)
<1>1. t \in State /\ t.data = s.data /\ t.key2Lease = s.key2Lease /\ t.storeRev = s.storeRev
      /\ t.leaseID = s.leaseID /\ t.Keys = s.Keys /\ t.expireAt = s.expireAt
  BY Zenon DEF Counts, SameStore, SameLeases
<1>2. \A i : Exists(t, i) <=> Exists(s, i)
  BY Zenon, <1>1 DEF Exists
<1>3. \A k : Live(t, k) <=> Live(s, k)
  BY Zenon, <1>1 DEF Live, Latest
<1>4. Indexed(t) /\ Counted(t)
  BY Zenon, <1>1, <1>2, <1>3 DEF Sound, Indexed, Counted
<1>5. Bounded(t)
  BY Zenon, <1>1 DEF Sound, Bounded
<1> QED  BY Zenon, <1>1, <1>2, <1>4, <1>5 DEF Sound, EndsItsKeys

-----------------------------------------------------------------------------
(* What an effect does to a state and to its mirror.                       *)

\* A mirrored state has the same leases.
LEMMA MirroredLeases ==
    ASSUME NEW s, NEW d, Mirrors(d, s), Lasting(s), NEW l
    PROVE  Exists(d, l) <=> Exists(s, l)
BY Zenon DEF Mirrors, Lasting, Exists

\* The server's revision follows the store's.
Settled(s) == [s EXCEPT !.rev = Larger(s.rev, s.storeRev)]

\* Settling a state that is in order changes nothing.
LEMMA SettledMirrors ==
    ASSUME NEW u \in State, NEW t, Mirrors(u, t), Ordered(t)
    PROVE  Mirrors(Settled(u), t)
<1>1. u.rev \in Nat /\ u.storeRev \in Nat /\ u.storeRev <= u.rev
  BY Zenon, StateFields DEF Mirrors, Ordered
<1>2. Larger(u.rev, u.storeRev) = u.rev
  BY <1>1 DEF Larger
<1>3. Counts(u, Settled(u), u.rev)
  BY Zenon, <1>1, <1>2, RevIs DEF Settled
<1> QED  BY Zenon, <1>3 DEF Counts, Mirrors, SameStore, SameLeases

\* t follows s in order, and u is t on the disk.
Follows(s, t, u) == Ordered(t) /\ Extends(t, s) /\ Mirrors(u, t)

\* A key is set on both sides.
LEMMA SetsMirror ==
    ASSUME NEW s, NEW d, Mirrors(d, s), Lasting(s), NEW t, NEW u, NEW k \in Key, NEW v, NEW l,
           NEW r, NEW b, Sets(s, t, k, v, l, r, b), Sets(d, u, k, v, l, r, b)
    PROVE  Mirrors(u, t) /\ t.expireAt = s.expireAt
<1>0. t \in State /\ u \in State
  BY Zenon DEF Sets
<1>1. u.data = t.data
  <2>1. Writes(s, t, {k}, Fresh(r, v, b)) /\ Writes(d, u, {k}, Fresh(r, v, b)) /\ d.data = s.data
    BY Zenon DEF Sets, Mirrors
  <2> QED  BY Zenon, <2>1 DEF Writes
<1>2. u.storeRev = t.storeRev /\ u.rev = t.rev /\ u.leaseID = t.leaseID /\ t.expireAt = s.expireAt
      /\ u.expireAt = d.expireAt
  BY Zenon DEF Sets, Mirrors
<1>3. u.key2Lease = t.key2Lease
  <2>1. u.key2Lease \in [Key -> {0} \cup LeaseId] /\ t.key2Lease \in [Key -> {0} \cup LeaseId]
    BY Zenon, <1>0, StateFields
  <2>2. ASSUME NEW j \in Key  PROVE u.key2Lease[j] = t.key2Lease[j]
    <3>1. /\ t.key2Lease[j] = IF j = k THEN l ELSE s.key2Lease[j]
          /\ u.key2Lease[j] = IF j = k THEN l ELSE d.key2Lease[j]
          /\ d.key2Lease = s.key2Lease
      BY Zenon DEF Sets, Mirrors
    <3> QED  BY Zenon, <3>1
  <2> QED  BY <2>1, <2>2
<1>4. u.Keys = t.Keys
  <2>1. u.Keys \in [LeaseId -> SUBSET Key] /\ t.Keys \in [LeaseId -> SUBSET Key]
    BY Zenon, <1>0, StateFields
  <2>2. Exists(d, l) <=> Exists(s, l)
    BY Zenon, MirroredLeases
  <2>3. d.Keys = s.Keys
    BY Zenon DEF Mirrors
  <2>4. \A i \in LeaseId : \A j \in Key : j \in u.Keys[i] <=> j \in t.Keys[i]
    BY Zenon, <2>2, <2>3 DEF Sets
  <2>5. ASSUME NEW i \in LeaseId  PROVE u.Keys[i] = t.Keys[i]
    <3>1. u.Keys[i] \subseteq Key /\ t.Keys[i] \subseteq Key
      BY <2>1
    <3> QED  BY Zenon, <2>4, <3>1
  <2> QED  BY <2>1, <2>5
<1> QED  BY Zenon, <1>1, <1>2, <1>3, <1>4 DEF Mirrors

\* Put, Delete, CAS and LeaseAttach.
LEMMA SetsFollows ==
    ASSUME NEW s, Ordered(s), s \in State, NEW d, Mirrors(d, s), Lasting(s),
           NEW t, NEW u, NEW k \in Key, NEW v, NEW l, NEW r \in Nat \ {0}, NEW b,
           s.storeRev < r, r <= s.rev, Sets(s, t, k, v, l, r, b), Sets(d, u, k, v, l, r, b)
    PROVE  Follows(s, t, Settled(u)) /\ t.expireAt = s.expireAt
<1>1. Ordered(t) /\ Extends(t, s)
  BY Zenon, SetsOrdered
<1>2. Mirrors(u, t) /\ t.expireAt = s.expireAt
  BY Zenon, SetsMirror
<1>3. u \in State
  BY Zenon DEF Sets
<1> QED  BY Zenon, <1>1, <1>2, <1>3, SettledMirrors DEF Follows

\* Keys are cleared on both sides.
LEMMA ClearsMirror ==
    ASSUME NEW s, NEW d, Mirrors(d, s), NEW t, NEW u, NEW D, NEW base, NEW gone, NEW r,
           Clears(s, t, D, base, gone, r), Clears(d, u, D, base, gone, r)
    PROVE  Mirrors(u, t) /\ \A l \in LeaseId : t.expireAt[l] \in {0, s.expireAt[l]}
<1>0. t \in State /\ u \in State
  BY Zenon DEF Clears
<1>1. u.data = t.data
  <2>1. Writes(s, t, D, Dead(D, base)) /\ Writes(d, u, D, Dead(D, base)) /\ d.data = s.data
    BY Zenon DEF Clears, Mirrors
  <2> QED  BY Zenon, <2>1 DEF Writes
<1>2. u.storeRev = t.storeRev /\ u.rev = t.rev /\ u.leaseID = t.leaseID
  BY Zenon DEF Clears, Mirrors
<1>3. u.key2Lease = t.key2Lease
  <2>1. u.key2Lease \in [Key -> {0} \cup LeaseId] /\ t.key2Lease \in [Key -> {0} \cup LeaseId]
    BY Zenon, <1>0, StateFields
  <2>2. ASSUME NEW j \in Key  PROVE u.key2Lease[j] = t.key2Lease[j]
    <3>1. /\ t.key2Lease[j] = IF j \in D THEN 0 ELSE s.key2Lease[j]
          /\ u.key2Lease[j] = IF j \in D THEN 0 ELSE d.key2Lease[j]
          /\ d.key2Lease = s.key2Lease
      BY Zenon DEF Clears, Mirrors
    <3> QED  BY Zenon, <3>1
  <2> QED  BY <2>1, <2>2
<1>4. u.Keys = t.Keys
  <2>1. u.Keys \in [LeaseId -> SUBSET Key] /\ t.Keys \in [LeaseId -> SUBSET Key]
    BY Zenon, <1>0, StateFields
  <2>2. ASSUME NEW i \in LeaseId  PROVE u.Keys[i] = t.Keys[i]
    <3>1. t.Keys[i] = s.Keys[i] \ D /\ u.Keys[i] = d.Keys[i] \ D /\ d.Keys = s.Keys
      BY Zenon DEF Clears, Mirrors
    <3> QED  BY Zenon, <3>1
  <2> QED  BY <2>1, <2>2
<1>5. ASSUME NEW l \in LeaseId
      PROVE  u.expireAt[l] = Round(t.expireAt[l]) /\ t.expireAt[l] \in {0, s.expireAt[l]}
  <2>1. /\ t.expireAt[l] = IF l \in gone THEN 0 ELSE s.expireAt[l]
        /\ u.expireAt[l] = IF l \in gone THEN 0 ELSE d.expireAt[l]
        /\ d.expireAt[l] = Round(s.expireAt[l])
    BY Zenon DEF Clears, Mirrors
  <2> QED  BY Zenon, <2>1, RoundZero
<1> QED  BY Zenon, <1>1, <1>2, <1>3, <1>4, <1>5 DEF Mirrors

\* A lease is granted on both sides.
LEMMA GrantsMirror ==
    ASSUME NEW s, NEW d, Mirrors(d, s), NEW t, NEW u, NEW id, NEW x,
           Grants(s, t, id, x), Grants(d, u, id, Round(x))
    PROVE  Mirrors(u, t) /\ \A l \in LeaseId : t.expireAt[l] \in {x, s.expireAt[l]}
<1>0. t \in State /\ u \in State
  BY Zenon DEF Grants
<1>1. /\ u.data = t.data /\ u.key2Lease = t.key2Lease /\ u.storeRev = t.storeRev
      /\ u.rev = t.rev /\ u.leaseID = t.leaseID
  BY Zenon DEF Grants, Mirrors, SameStore
<1>2. u.Keys = t.Keys
  <2>1. u.Keys \in [LeaseId -> SUBSET Key] /\ t.Keys \in [LeaseId -> SUBSET Key]
    BY Zenon, <1>0, StateFields
  <2>2. ASSUME NEW i \in LeaseId  PROVE u.Keys[i] = t.Keys[i]
    <3>1. /\ t.Keys[i] = IF i = id THEN {} ELSE s.Keys[i]
          /\ u.Keys[i] = IF i = id THEN {} ELSE d.Keys[i]
          /\ d.Keys = s.Keys
      BY Zenon DEF Grants, Mirrors
    <3> QED  BY Zenon, <3>1
  <2> QED  BY <2>1, <2>2
<1>3. ASSUME NEW l \in LeaseId
      PROVE  u.expireAt[l] = Round(t.expireAt[l]) /\ t.expireAt[l] \in {x, s.expireAt[l]}
  <2>1. /\ t.expireAt[l] = IF l = id THEN x ELSE s.expireAt[l]
        /\ u.expireAt[l] = IF l = id THEN Round(x) ELSE d.expireAt[l]
        /\ d.expireAt[l] = Round(s.expireAt[l])
    BY Zenon DEF Grants, Mirrors
  <2> QED  BY Zenon, <2>1
<1> QED  BY Zenon, <1>1, <1>2, <1>3 DEF Mirrors

\* A lease is kept alive on both sides.
LEMMA ProlongsMirror ==
    ASSUME NEW s, NEW d, Mirrors(d, s), Lasting(s), NEW t, NEW u, NEW i, NEW x,
           Prolongs(s, t, i, x), Prolongs(d, u, i, Round(x))
    PROVE  Mirrors(u, t) /\ \A l \in LeaseId : t.expireAt[l] \in {x, s.expireAt[l]}
<1>1. /\ u.data = t.data /\ u.key2Lease = t.key2Lease /\ u.storeRev = t.storeRev
      /\ u.rev = t.rev /\ u.leaseID = t.leaseID /\ u.Keys = t.Keys
  BY Zenon DEF Prolongs, Mirrors, SameStore
<1>2. Exists(d, i) <=> Exists(s, i)
  BY Zenon, MirroredLeases
<1>3. ASSUME NEW l \in LeaseId
      PROVE  u.expireAt[l] = Round(t.expireAt[l]) /\ t.expireAt[l] \in {x, s.expireAt[l]}
  <2>1. /\ t.expireAt[l] = IF l = i /\ Exists(s, i) THEN x ELSE s.expireAt[l]
        /\ u.expireAt[l] = IF l = i /\ Exists(s, i) THEN Round(x) ELSE d.expireAt[l]
        /\ d.expireAt[l] = Round(s.expireAt[l])
    BY Zenon, <1>2 DEF Prolongs, Mirrors
  <2> QED  BY Zenon, <2>1
<1> QED  BY Zenon, <1>1, <1>3 DEF Mirrors

\* The same store, at a revision that is no smaller.
LEMMA SameFollows ==
    ASSUME NEW s \in State, Ordered(s), NEW t, SameStore(s, t), t.rev \in Nat, s.rev <= t.rev
    PROVE  Ordered(t) /\ Extends(t, s)
<1>1. t.data = s.data /\ t.storeRev = s.storeRev
  BY Zenon DEF SameStore
<1>2. s.storeRev \in Nat /\ s.rev \in Nat /\ s.storeRev <= s.rev
  BY Zenon, StateFields DEF Ordered
<1>3. t.storeRev <= t.rev /\ s.storeRev <= t.storeRev
  BY <1>1, <1>2
<1>4. Ordered(t)
  BY Zenon, <1>1, <1>3 DEF Ordered
<1>5. ASSUME NEW k \in Key
      PROVE  /\ Len(s.data[k]) <= Len(t.data[k])
             /\ \A i \in 1..Len(s.data[k]) : t.data[k][i] = s.data[k][i]
             /\ \A i \in (Len(s.data[k]) + 1)..Len(t.data[k]) : t.data[k][i].Revision > s.storeRev
  <2>1. Len(s.data[k]) \in Nat
    BY StateFields
  <2>2. Len(t.data[k]) = Len(s.data[k])
    BY Zenon, <1>1
  <2>3. \A i \in 1..Len(s.data[k]) : t.data[k][i] = s.data[k][i]
    BY Zenon, <1>1
  <2> QED  BY <2>1, <2>2, <2>3
<1> QED  BY Zenon, <1>3, <1>4, <1>5 DEF Extends

\* Extends looks at the versions and the store's revision only.
LEMMA ExtendsFrom ==
    ASSUME NEW s, NEW b, NEW t, NEW u,
           t.data = s.data, t.storeRev = s.storeRev, Extends(b, s), u.data = b.data,
           u.storeRev = b.storeRev
    PROVE  Extends(u, t)
BY Zenon DEF Extends

=============================================================================
