------------------------- MODULE StateMachineProofs -------------------------
(***************************************************************************)
(* Proofs about StateMachine: recovery gives the live state back,          *)
(* revisions stay in order and reads at a revision are stable, as long as  *)
(* ExactDeadlines keeps a lease the same on both sides of a shutdown.      *)
(***************************************************************************)
EXTENDS StateMachineInv, WellFoundedInduction

-----------------------------------------------------------------------------
(* A command, live and replayed.                                           *)

\* Deadlines change to x or to none.
Moves(s, t, x) == \A l \in LeaseId : t.expireAt[l] \in {0, x, s.expireAt[l]}

\* No deadline changes.
Steady(s, t) == t.expireAt = s.expireAt

\* Two states before a numbered command takes effect on them.
Twins(s, d) ==
    /\ Sound(s) /\ Sound(d) /\ Ordered(s) /\ Lasting(s) /\ Mirrors(d, s)

\* A command that sets a key, on both sides.
LEMMA SetFollows ==
    ASSUME NEW s, NEW d, Twins(s, d), NEW c \in SetCommand, c.Revision \in Nat \ {0},
           s.storeRev < c.Revision, c.Revision <= s.rev
    PROVE  Follows(s, Apply(s, c), Settled(ReplayEffects(d, c))) /\ Steady(s, Apply(s, c))
<1>0. /\ Sound(s) /\ Sound(d) /\ Ordered(s) /\ Lasting(s) /\ Mirrors(d, s) /\ c.Revision # 0
      /\ s \in State /\ d \in State
  BY Zenon DEF Twins, Sound
<1>1. ASSUME NoneSet(s, c), NoneSet(d, c)
      PROVE  Follows(s, Apply(s, c), Settled(ReplayEffects(d, c))) /\ Steady(s, Apply(s, c))
  <2>1. s.rev \in Nat /\ s.rev <= s.rev /\ SameStore(s, s)
    BY <1>0, StateFields DEF SameStore
  <2>2. Ordered(s) /\ Extends(s, s)
    BY Zenon, <1>0, <2>1, SameFollows
  <2>3. Mirrors(Settled(d), s)
    BY Zenon, <1>0, SettledMirrors
  <2> QED  BY Zenon, <1>1, <2>2, <2>3 DEF NoneSet, Follows, Steady
<1>2. ASSUME NEW k, NEW v, NEW l, NEW b, BothSet(s, c, k, v, l, b), BothSet(d, c, k, v, l, b)
      PROVE  Follows(s, Apply(s, c), Settled(ReplayEffects(d, c))) /\ Steady(s, Apply(s, c))
  <2>1. /\ Sets(s, Apply(s, c), k, v, l, c.Revision, b)
        /\ Sets(d, ReplayEffects(d, c), k, v, l, c.Revision, b) /\ k \in Key
    BY Zenon, <1>2 DEF BothSet
  <2>2. /\ Follows(s, Apply(s, c), Settled(ReplayEffects(d, c)))
        /\ Apply(s, c).expireAt = s.expireAt
    BY Zenon, <1>0, <2>1, SetsFollows
  <2> QED  BY Zenon, <2>2 DEF Steady
<1>3. CASE c \in PutCommand
  BY Zenon, <1>0, <1>2, <1>3, PutSetsBoth
<1>4. CASE c \in AttachCommand
  <2>1. CASE c.LeaseID = 0
    <3>1. NoneSet(s, c) /\ NoneSet(d, c)
      BY Zenon, <1>0, <1>4, <2>1, AttachSetsBoth
    <3> QED  BY Zenon, <1>1, <3>1
  <2>2. CASE c.LeaseID # 0
    <3>1. /\ BothSet(s, c, c.Key, c.Value, c.LeaseID, FALSE)
          /\ BothSet(d, c, c.Key, c.Value, c.LeaseID, FALSE)
      BY Zenon, <1>0, <1>4, <2>2, AttachSetsBoth
    <3> QED  BY Zenon, <1>2, <3>1
  <2> QED  BY Zenon, <2>1, <2>2
<1>5. CASE c \in CASCommand
  <2>1. s.data = d.data /\ s.key2Lease = d.key2Lease
    BY Zenon, <1>0 DEF Mirrors
  <2>2. CASHolds(s, c.Key, c.ExpectedRev) <=> CASHolds(d, c.Key, c.ExpectedRev)
    BY Zenon, <2>1 DEF CASHolds, Live, Latest
  <2>3. CASE CASHolds(s, c.Key, c.ExpectedRev)
    <3>1. /\ BothSet(s, c, c.Key, c.Value, s.key2Lease[c.Key], FALSE)
          /\ BothSet(d, c, c.Key, c.Value, d.key2Lease[c.Key], FALSE)
      BY Zenon, <1>0, <1>5, <2>2, <2>3, CASSetsBoth
    <3>2. d.key2Lease[c.Key] = s.key2Lease[c.Key]
      BY Zenon, <2>1
    <3> QED  BY Zenon, <1>2, <3>1, <3>2
  <2>4. CASE ~CASHolds(s, c.Key, c.ExpectedRev)
    <3>1. NoneSet(s, c) /\ NoneSet(d, c)
      BY Zenon, <1>0, <1>5, <2>2, <2>4, CASSetsBoth
    <3> QED  BY Zenon, <1>1, <3>1
  <2> QED  BY Zenon, <2>3, <2>4
<1>6. CASE c \in DeleteCommand
  BY Zenon, <1>0, <1>2, <1>6, DeleteSetsBoth
<1> QED  BY Zenon, <1>3, <1>4, <1>5, <1>6 DEF SetCommand

\* Clears, at another revision of the server.
LEMMA ClearsCounts ==
    ASSUME NEW s, NEW t, NEW u, NEW D, NEW base, NEW gone, NEW r, NEW q,
           Clears(s, t, D, base, gone, r), Counts(t, u, q)
    PROVE  Clears(s, u, D, base, gone, q)
<1>1. /\ u \in State /\ u.rev = q /\ u.data = t.data /\ u.key2Lease = t.key2Lease
      /\ u.storeRev = t.storeRev
      /\ u.leaseID = t.leaseID /\ u.expireAt = t.expireAt /\ u.Keys = t.Keys
  BY Zenon DEF Counts, SameStore, SameLeases
<1>2. Writes(s, u, D, Dead(D, base))
  BY Zenon, <1>1 DEF Clears, Writes
<1> QED  BY Zenon, <1>1, <1>2 DEF Clears

\* DeletePrefix, on both sides.
LEMMA PrefixFollows ==
    ASSUME NEW s, NEW d, Twins(s, d), NEW c \in PrefixCommand
    PROVE  Follows(s, Apply(s, c), Settled(ReplayEffects(d, c))) /\ Moves(s, Apply(s, c), 0)
<1>0. Sound(s) /\ Sound(d) /\ Ordered(s) /\ Mirrors(d, s) /\ s \in State /\ d \in State
  BY Zenon DEF Twins, Sound
<1> DEFINE D == PrefixKeys(s, c.Prefix)
           t == ReplayDeletePrefix(s, c.Prefix)
           u == ReplayDeletePrefix(d, c.Prefix)
<1>1. c.Prefix \in Prefix
  BY Zenon, PrefixIs
<1>2. Apply(s, c) = Settled(t)
  <2>1. Apply(s, c) = ApplyDeletePrefix(s, c.Prefix)
    BY Zenon, PrefixIs
  <2> QED  BY Zenon, <2>1, PrefixSettles
<1>3. ReplayEffects(d, c) = u
  BY Zenon, PrefixIs
<1>4. PrefixKeys(d, c.Prefix) = D /\ d.storeRev = s.storeRev /\ d.rev = s.rev
  BY Zenon, <1>0 DEF Mirrors, PrefixKeys
<1>5. D \in SUBSET Key /\ Clears(s, t, D, s.storeRev, {}, s.rev)
  BY Zenon, <1>0, <1>1, PrefixClears
<1>6. Clears(d, u, PrefixKeys(d, c.Prefix), d.storeRev, {}, d.rev)
  BY Zenon, <1>0, <1>1, PrefixClears
<1> HIDE DEF D, t, u
<1>7. Clears(d, u, D, s.storeRev, {}, s.rev)
  BY Zenon, <1>4, <1>6
<1>8. /\ s.rev \in Nat /\ s.storeRev \in Nat /\ s.storeRev <= s.rev /\ Cardinality(D) \in Nat
      /\ t \in State /\ u \in State /\ t.rev = s.rev
  BY Zenon, <1>0, <1>5, <1>7, StateFields, FiniteKeys DEF Ordered, Clears
<1>9. Mirrors(u, t) /\ Moves(s, t, 0)
  BY Zenon, <1>0, <1>5, <1>7, ClearsMirror DEF Moves
<1> DEFINE r == Larger(s.rev, t.storeRev)
<1>10. t.storeRev \in Nat
  BY Zenon, <1>8, StateFields
<1>11. r \in Nat /\ s.rev <= r /\ t.storeRev <= r
  BY <1>8, <1>10 DEF Larger
<1>12. Counts(t, Settled(t), r)
  BY Zenon, <1>8, <1>11, RevIs DEF Settled
<1>13. Counts(u, Settled(u), r)
  <2>1. u.rev = s.rev /\ u.storeRev = t.storeRev
    BY Zenon, <1>8, <1>9 DEF Mirrors
  <2> QED  BY Zenon, <1>8, <1>11, <2>1, RevIs DEF Settled
<1>14. D # {} => s.storeRev + Cardinality(D) <= r
  <2> SUFFICES ASSUME D # {}  PROVE s.storeRev + Cardinality(D) <= r
    OBVIOUS
  <2>1. t.storeRev = Larger(s.storeRev, s.storeRev + Cardinality(D))
    BY Zenon, <1>5 DEF Clears
  <2>2. s.storeRev + Cardinality(D) <= t.storeRev
    BY <1>8, <2>1 DEF Larger
  <2> HIDE DEF r
  <2> QED  BY <1>8, <1>10, <1>11, <2>2
<1> HIDE DEF r
<1>15. Clears(s, Settled(t), D, s.storeRev, {}, r)
  BY Zenon, <1>5, <1>12, ClearsCounts
<1>16. s.storeRev <= s.storeRev
  BY <1>8
<1>17. Ordered(Settled(t)) /\ Extends(Settled(t), s)
  BY Zenon, <1>0, <1>5, <1>8, <1>11, <1>14, <1>15, <1>16, ClearsOrdered
<1>18. Mirrors(Settled(u), Settled(t)) /\ Moves(s, Settled(t), 0)
  BY Zenon, <1>9, <1>12, <1>13 DEF Counts, Mirrors, Moves, SameStore, SameLeases
<1> QED  BY Zenon, <1>2, <1>3, <1>17, <1>18 DEF Follows

\* The lease table changes, and nothing else.
LEMMA LeasesFollow ==
    ASSUME NEW s, NEW d, Twins(s, d), NEW t, SameStore(s, t), t.rev = s.rev, NEW u \in State,
           Mirrors(u, t)
    PROVE  Follows(s, t, Settled(u))
<1>1. s \in State /\ Ordered(s) /\ s.rev \in Nat
  BY Zenon, StateFields DEF Twins, Sound
<1>2. t.rev \in Nat /\ s.rev <= t.rev
  BY <1>1
<1>3. Ordered(t) /\ Extends(t, s)
  BY Zenon, <1>1, <1>2, SameFollows
<1> QED  BY Zenon, <1>3, SettledMirrors DEF Follows

\* LeaseGrant, on both sides.
LEMMA GrantFollows ==
    ASSUME NEW s, NEW d, Twins(s, d), s.leaseID < MaxLeases,
           NEW c \in GrantCommand, NEW x \in GrantCommand, x.ExpireAt = Round(c.ExpireAt)
    PROVE  Follows(s, Apply(s, c), Settled(ReplayEffects(d, x))) /\ Moves(s, Apply(s, c), c.ExpireAt)
<1>0. Mirrors(d, s) /\ s \in State /\ d \in State /\ d.leaseID = s.leaseID
  BY Zenon DEF Twins, Sound, Mirrors
<1> DEFINE t == GrantUntil(s, c.ExpireAt)
           u == GrantUntil(d, x.ExpireAt)
<1>1. Apply(s, c) = t /\ c.ExpireAt \in Nat
  BY Zenon, GrantCommandIs
<1>2. ReplayEffects(d, x) = u /\ x.ExpireAt \in Nat
  BY Zenon, GrantCommandIs
<1>3. Grants(s, t, s.leaseID + 1, c.ExpireAt)
  BY Zenon, <1>0, <1>1, GrantIs
<1>4. Grants(d, u, s.leaseID + 1, Round(c.ExpireAt))
  BY Zenon, <1>0, <1>2, GrantIs
<1> HIDE DEF t, u
<1>5. Mirrors(u, t) /\ \A l \in LeaseId : t.expireAt[l] \in {c.ExpireAt, s.expireAt[l]}
  BY Zenon, <1>0, <1>3, <1>4, GrantsMirror
<1>6. SameStore(s, t) /\ t.rev = s.rev /\ u \in State
  BY Zenon, <1>3, <1>4 DEF Grants
<1>7. Follows(s, t, Settled(u))
  BY Zenon, <1>5, <1>6, LeasesFollow
<1>8. Moves(s, t, c.ExpireAt)
  BY Zenon, <1>5 DEF Moves
<1> QED  BY Zenon, <1>1, <1>2, <1>7, <1>8

\* LeaseKeepAlive, on both sides.
LEMMA KeepAliveFollows ==
    ASSUME NEW s, NEW d, Twins(s, d), NEW c \in KeepAliveCommand, NEW x \in KeepAliveCommand,
           x.LeaseID = c.LeaseID, x.ExpireAt = Round(c.ExpireAt)
    PROVE  Follows(s, Apply(s, c), Settled(ReplayEffects(d, x))) /\ Moves(s, Apply(s, c), c.ExpireAt)
<1>0. Mirrors(d, s) /\ Lasting(s) /\ s \in State /\ d \in State
  BY Zenon DEF Twins, Sound
<1> DEFINE t == KeepAliveUntil(s, c.LeaseID, c.ExpireAt)
           u == KeepAliveUntil(d, x.LeaseID, x.ExpireAt)
<1>1. Apply(s, c) = t /\ c.ExpireAt \in Nat /\ c.LeaseID \in {0} \cup LeaseId
  BY Zenon, KeepAliveCommandIs
<1>2. ReplayEffects(d, x) = u /\ x.ExpireAt \in Nat
  BY Zenon, KeepAliveCommandIs
<1>3. Prolongs(s, t, c.LeaseID, c.ExpireAt)
  BY Zenon, <1>0, <1>1, KeepAliveIs
<1>4. Prolongs(d, u, c.LeaseID, Round(c.ExpireAt))
  BY Zenon, <1>0, <1>1, <1>2, KeepAliveIs
<1> HIDE DEF t, u
<1>5. Mirrors(u, t) /\ \A l \in LeaseId : t.expireAt[l] \in {c.ExpireAt, s.expireAt[l]}
  BY Zenon, <1>0, <1>3, <1>4, ProlongsMirror
<1>6. SameStore(s, t) /\ t.rev = s.rev /\ u \in State
  BY Zenon, <1>3, <1>4 DEF Prolongs
<1>7. Follows(s, t, Settled(u))
  BY Zenon, <1>5, <1>6, LeasesFollow
<1>8. Moves(s, t, c.ExpireAt)
  BY Zenon, <1>5 DEF Moves
<1> QED  BY Zenon, <1>1, <1>2, <1>7, <1>8

\* Clearing no key leaves a state as it is.
LEMMA ClearsNothing ==
    ASSUME NEW s \in State, NEW base, Dead({}, base) \in [Key -> Version]
    PROVE  Clears(s, s, {}, base, {}, s.rev)
<1>1. s.data \in [Key -> Seq(Version)]
  BY Zenon, StateFields
<1>2. Writes(s, s, {}, Dead({}, base))
  <2>1. s.data = [k \in Key |-> s.data[k]]
    BY <1>1
  <2>2. [k \in Key |-> s.data[k]] =
          [k \in Key |-> IF k \in {} THEN Append(s.data[k], Dead({}, base)[k]) ELSE s.data[k]]
    BY Zenon
  <2> QED  BY Zenon, <2>1, <2>2 DEF Writes
<1>3. \A l \in LeaseId : s.Keys[l] \ {} = s.Keys[l]
  BY Zenon
<1> QED  BY Zenon, <1>2, <1>3 DEF Clears

\* LeaseRevoke, on both sides.
LEMMA RevokeFollows ==
    ASSUME NEW s, NEW d, Twins(s, d), NEW c \in RevokeCommand, NEW x \in RevokeCommand,
           x.LeaseID = c.LeaseID,
           Revokes(s, c.LeaseID, c.ExpireAt) <=> Revokes(d, c.LeaseID, x.ExpireAt)
    PROVE  Follows(s, Apply(s, c), Settled(ReplayEffects(d, x))) /\ Moves(s, Apply(s, c), 0)
<1>0. Sound(s) /\ Sound(d) /\ Mirrors(d, s) /\ Ordered(s) /\ s \in State /\ d \in State
  BY Zenon DEF Twins, Sound
<1> DEFINE l == c.LeaseID
           D == RevokedKeys(s, l, c.ExpireAt)
           gone == Gone(s, l, c.ExpireAt)
           t == Apply(s, c)
           u == ReplayRevoke(d, x.LeaseID, x.ExpireAt)
           r == s.rev + Cardinality(D)
<1>1. /\ l \in {0} \cup LeaseId /\ c.ExpireAt \in Nat
      /\ t = ApplyRevoke(s, l, c.ExpireAt)
  BY Zenon, RevokeCommandIs
<1>2. ReplayEffects(d, x) = u /\ x.ExpireAt \in Nat
  BY Zenon, RevokeCommandIs
<1>3. RevokedKeys(d, l, x.ExpireAt) = D /\ Gone(d, l, x.ExpireAt) = gone /\ d.rev = s.rev
  <2>1. d.Keys = s.Keys /\ d.rev = s.rev
    BY Zenon, <1>0 DEF Mirrors
  <2> QED  BY Zenon, <2>1 DEF RevokedKeys, Gone
<1>4. D \in SUBSET Key /\ Clears(s, ReplayRevoke(s, l, c.ExpireAt), D, s.rev, gone, r)
  BY Zenon, <1>0, <1>1, RevokeClears
<1>5. Clears(d, u, RevokedKeys(d, l, x.ExpireAt), d.rev, Gone(d, l, x.ExpireAt),
             d.rev + Cardinality(RevokedKeys(d, l, x.ExpireAt)))
  BY Zenon, <1>0, <1>1, <1>2, RevokeClears
<1>6. Clears(d, u, D, s.rev, gone, r)
  BY Zenon, <1>3, <1>5
<1>7. s.rev \in Nat /\ s.storeRev \in Nat /\ s.storeRev <= s.rev /\ Cardinality(D) \in Nat
  BY Zenon, <1>0, <1>4, StateFields, FiniteKeys DEF Ordered
<1>8. r \in Nat /\ s.rev <= r /\ (D # {} => s.rev + Cardinality(D) <= r)
  BY <1>7
<1>9. Clears(s, t, D, s.rev, gone, r)
  <2>1. CASE l = 0
    <3>1. ~(0 > 0) /\ 0 \notin LeaseId
      BY DEF LeaseId
    <3>2. t = s /\ D = {} /\ gone = {}
      BY Zenon, <1>1, <2>1, <3>1 DEF ApplyRevoke, RevokedKeys, Revokes, Exists, Gone
    <3>3. Dead(D, s.rev) \in [Key -> Version]
      BY Zenon, <1>4 DEF Clears
    <3>4. r = s.rev
      <4>1. Cardinality(D) = 0
        BY <3>2, FS_EmptySet
      <4> QED  BY <1>7, <4>1
    <3>5. Clears(s, s, {}, s.rev, {}, s.rev)
      BY Zenon, <1>0, <3>2, <3>3, ClearsNothing
    <3> QED  BY Zenon, <3>2, <3>4, <3>5
  <2>2. CASE l \in LeaseId
    <3>1. l > 0
      BY <2>2 DEF LeaseId
    <3>2. t = ReplayRevoke(s, l, c.ExpireAt)
      BY Zenon, <1>1, <3>1 DEF ApplyRevoke, ReplayRevoke
    <3> QED  BY Zenon, <1>4, <3>2
  <2> QED  BY Zenon, <1>1, <2>1, <2>2
<1> HIDE DEF D, gone, t, u, r, l
<1>10. Mirrors(u, t) /\ Moves(s, t, 0)
  BY Zenon, <1>0, <1>6, <1>9, ClearsMirror DEF Moves
<1>11. Ordered(t) /\ Extends(t, s)
  BY Zenon, <1>0, <1>4, <1>7, <1>8, <1>9, ClearsOrdered
<1>12. u \in State
  BY Zenon, <1>6 DEF Clears
<1>13. Mirrors(Settled(u), t)
  BY Zenon, <1>10, <1>11, <1>12, SettledMirrors
<1> QED  BY Zenon, <1>2, <1>10, <1>11, <1>13 DEF Follows, t

\* A revocation that takes effect does so on both sides.
Matched(s, d, cmd) ==
    cmd \in RevokeCommand =>
        (Revokes(s, cmd.LeaseID, cmd.ExpireAt) <=> Revokes(d, cmd.LeaseID, Round(cmd.ExpireAt)))

\* Whatever is applied, the disk stays the live state with rounded deadlines,
\* and the revisions stay in order.
LEMMA StepFollows ==
    ASSUME NEW s, NEW d, Twins(s, d), NEW cmd, Fits(s, d, cmd), Matched(s, d, cmd),
           NEW b, NEW c, NEW t, NEW e, NEW x, NEW u, Steps(s, cmd, b, c, t, d, e, x, u)
    PROVE  /\ Follows(s, t, u)
           /\ \/ Moves(s, t, 0)
              \/ cmd \in GrantCommand \cup KeepAliveCommand /\ Moves(s, t, cmd.ExpireAt)
           /\ cmd \in SetCommand => Steady(s, t)
<1>0. /\ Sound(s) /\ Sound(d) /\ Mirrors(d, s) /\ Ordered(s) /\ Lasting(s)
      /\ s \in State /\ d \in State
  BY Zenon DEF Twins, Sound
<1>1. CASE cmd \in Numbers
  <2>0. Journalled(s, cmd, b, c, t, d, e, u)
    BY Zenon, <1>0, <1>1, NumbersStep
  <2>1. /\ Counts(s, b, s.rev + 1) /\ Counts(d, e, Larger(d.rev, s.rev + 1))
        /\ t = Apply(b, c) /\ u = Settled(ReplayEffects(e, c))
        /\ c.Revision = s.rev + 1 /\ c.Revision \in Nat \ {0}
        /\ cmd \in SetCommand => c \in SetCommand
        /\ cmd \in PrefixCommand => c \in PrefixCommand
    BY Zenon, <2>0 DEF Journalled
  <2>2. Sound(b) /\ Sound(e)
    BY Zenon, <1>0, <2>1, CountsSound
  <2>3. SameStore(s, b) /\ SameLeases(s, b) /\ b.rev = s.rev + 1
    BY Zenon, <2>1 DEF Counts
  <2>4. /\ s.rev \in Nat /\ s.storeRev \in Nat /\ s.storeRev <= s.rev /\ d.rev = s.rev
        /\ b.storeRev = s.storeRev /\ b.data = s.data
    BY Zenon, <1>0, <2>3, StateFields DEF Ordered, Mirrors, SameStore
  <2>5. /\ b.rev \in Nat /\ s.rev <= b.rev /\ b.storeRev < c.Revision /\ c.Revision <= b.rev
        /\ Larger(d.rev, s.rev + 1) = s.rev + 1
    BY <2>1, <2>3, <2>4 DEF Larger
  <2>6. Ordered(b)
    BY Zenon, <1>0, <2>3, <2>5, SameFollows
  <2>7. Mirrors(e, b) /\ Lasting(b)
    BY Zenon, <1>0, <2>1, <2>3, <2>5 DEF Counts, Mirrors, Lasting, SameStore, SameLeases
  <2>8. Twins(b, e)
    BY Zenon, <2>2, <2>6, <2>7 DEF Twins
  <2>9. Follows(b, t, u) /\ Moves(b, t, 0) /\ (cmd \in SetCommand => Steady(b, t))
    <3>1. CASE cmd \in SetCommand
      <4>1. Follows(b, t, u) /\ Steady(b, t)
        BY Zenon, <2>1, <2>5, <2>8, <3>1, SetFollows
      <4> QED  BY Zenon, <4>1 DEF Steady, Moves
    <3>2. CASE cmd \in PrefixCommand
      <4>1. cmd \notin SetCommand
        BY <3>2 DEF PrefixCommand, SetCommand, PutCommand, AttachCommand, CASCommand, DeleteCommand
      <4> QED  BY Zenon, <2>1, <2>8, <3>2, <4>1, PrefixFollows
    <3> QED  BY Zenon, <1>1, <3>1, <3>2 DEF Numbers
  <2>10. Moves(s, t, 0) /\ (cmd \in SetCommand => Steady(s, t))
    BY Zenon, <2>3, <2>9 DEF Moves, Steady, SameLeases
  <2>11. Extends(t, s)
    BY Zenon, <2>4, <2>9, ExtendsFrom DEF Follows
  <2> QED  BY Zenon, <2>9, <2>10, <2>11 DEF Follows
<1>2. CASE cmd \in Timed
  <2>a. cmd \notin SetCommand
    BY <1>2 DEF Timed, GrantCommand, RevokeCommand, KeepAliveCommand, SetCommand, PutCommand,
                AttachCommand, CASCommand, DeleteCommand
  <2>0. JournalledTime(s, cmd, t, d, x, u)
    BY Zenon, <1>0, <1>2, TimedStep
  <2>1. /\ t = Apply(s, cmd) /\ u = Settled(ReplayEffects(d, x)) /\ x.ExpireAt = Round(cmd.ExpireAt)
        /\ cmd \in GrantCommand /\ Round(cmd.ExpireAt) # 0 => x \in GrantCommand
        /\ cmd \in RevokeCommand => x \in RevokeCommand /\ x.LeaseID = cmd.LeaseID
        /\ cmd \in KeepAliveCommand /\ Round(cmd.ExpireAt) # 0 =>
              x \in KeepAliveCommand /\ x.LeaseID = cmd.LeaseID
    BY Zenon, <2>0 DEF JournalledTime
  <2>2. CASE cmd \in GrantCommand
    <3>1. x \in GrantCommand /\ s.leaseID < MaxLeases
      BY Zenon, <2>1, <2>2 DEF Fits
    <3> QED  BY Zenon, <2>a, <2>1, <2>2, <3>1, GrantFollows
  <2>3. CASE cmd \in KeepAliveCommand
    <3>1. x \in KeepAliveCommand /\ x.LeaseID = cmd.LeaseID
      BY Zenon, <2>1, <2>3 DEF Fits
    <3> QED  BY Zenon, <2>a, <2>1, <2>3, <3>1, KeepAliveFollows
  <2>4. CASE cmd \in RevokeCommand
    <3>1. /\ x \in RevokeCommand /\ x.LeaseID = cmd.LeaseID
          /\ Revokes(s, cmd.LeaseID, cmd.ExpireAt) <=> Revokes(d, cmd.LeaseID, x.ExpireAt)
      BY Zenon, <2>1, <2>4 DEF Matched
    <3> QED  BY Zenon, <2>a, <2>1, <2>4, <3>1, RevokeFollows
  <2> QED  BY Zenon, <1>2, <2>2, <2>3, <2>4 DEF Timed
<1>3. CASE cmd \in ReadCommand
  <2>1. Idle(s, t, d, u)
    BY Zenon, <1>0, <1>3, ReadStep
  <2>2. t = s /\ u = Settled(d)
    BY Zenon, <2>1 DEF Idle
  <2>3. Follows(s, s, Settled(d))
    BY Zenon, <1>0, LeasesFollow DEF SameStore
  <2> QED  BY Zenon, <2>2, <2>3 DEF Moves, Steady
<1> QED  BY Zenon, <1>1, <1>2, <1>3 DEF Fits

-----------------------------------------------------------------------------
(* Deadlines.                                                              *)

\* The deadlines of leases and of revocations have been computed, and a
\* revocation whose deadline is that of its lease after rounding has it
\* before.
Clocked(s, e, n) ==
    /\ \A l \in LeaseId : s.expireAt[l] # 0 => Used(s.expireAt[l], n)
    /\ \A cmd \in e :
        /\ Used(cmd.ExpireAt, n)
        /\ Round(cmd.ExpireAt) = Round(s.expireAt[cmd.LeaseID]) =>
              cmd.ExpireAt = s.expireAt[cmd.LeaseID]

\* Leases do not end when their deadlines are rounded.
LEMMA ClockedLasts ==
    ASSUME NEW s, NEW e, NEW n, Clocked(s, e, n)
    PROVE  Lasting(s)
<1>1. ASSUME NEW l \in LeaseId
      PROVE  s.expireAt[l] # 0 <=> Round(s.expireAt[l]) # 0
  <2>1. CASE s.expireAt[l] = 0
    BY Zenon, <2>1, RoundZero
  <2>2. CASE s.expireAt[l] # 0
    <3>1. Used(s.expireAt[l], n)
      BY Zenon, <2>2 DEF Clocked
    <3> QED  BY Zenon, <2>2, <3>1, UsedIs
  <2> QED  BY Zenon, <2>1, <2>2
<1> QED  BY Zenon, <1>1 DEF Lasting

\* As deadlines are computed, granted, prolonged and revoked.
LEMMA ClockedMoves ==
    ASSUME NEW s, NEW e \in SUBSET Expiry, NEW n \in SUBSET Deadline, Clocked(s, e, n),
           NEW t, NEW f \in SUBSET e, NEW m \in SUBSET n, NEW x, Moves(s, t, x),
           x = 0 \/ x \in n \ m
    PROVE  Clocked(t, f, m)
<1>1. \A y : Used(y, n) => Used(y, m)
  BY Zenon DEF Used
<1>2. x # 0 => x \in Deadline /\ x \in n /\ x \notin m
  BY Zenon
<1>3. ASSUME NEW l \in LeaseId, t.expireAt[l] # 0
      PROVE  Used(t.expireAt[l], m)
  <2>1. t.expireAt[l] = x \/ t.expireAt[l] = s.expireAt[l]
    BY Zenon, <1>3 DEF Moves
  <2>2. CASE t.expireAt[l] = x
    <3>1. x \in Deadline \ m
      BY Zenon, <1>2, <1>3, <2>2
    <3> QED  BY Zenon, <2>2, <3>1 DEF Used
  <2>3. CASE t.expireAt[l] = s.expireAt[l]
    BY Zenon, <1>1, <1>3, <2>3 DEF Clocked
  <2> QED  BY Zenon, <2>1, <2>2, <2>3
<1>4. ASSUME NEW cmd \in f, Round(cmd.ExpireAt) = Round(t.expireAt[cmd.LeaseID])
      PROVE  cmd.ExpireAt = t.expireAt[cmd.LeaseID]
  <2> DEFINE l == cmd.LeaseID
  <2>1. l \in LeaseId
    BY DEF Expiry
  <2>2. Used(cmd.ExpireAt, n) /\ cmd \in e
    BY Zenon DEF Clocked
  <2>3. Round(cmd.ExpireAt) # 0 /\ \E d \in Deadline \ n : Round(cmd.ExpireAt) = Round(d)
    BY Zenon, <2>2, UsedIs
  <2>4. t.expireAt[l] # 0
    BY Zenon, <1>4, <2>3, RoundZero
  <2>5. t.expireAt[l] # x
    <3> SUFFICES ASSUME t.expireAt[l] = x  PROVE FALSE
      OBVIOUS
    <3>1. x # 0
      BY Zenon, <2>4
    <3>2. PICK d \in Deadline \ n : Round(cmd.ExpireAt) = Round(d)
      BY Zenon, <2>3
    <3>3. Round(x) = Round(d)
      BY Zenon, <1>4, <3>2
    <3>4. x = d
      BY Zenon, <1>2, <3>1, <3>3, DeadlinesApart DEF DeadlinesApart
    <3> QED  BY Zenon, <1>2, <3>1, <3>4
  <2>6. t.expireAt[l] = s.expireAt[l]
    BY Zenon, <2>1, <2>4, <2>5 DEF Moves
  <2> QED  BY Zenon, <1>4, <2>2, <2>6 DEF Clocked
<1>5. \A cmd \in f : Used(cmd.ExpireAt, m)
  BY Zenon, <1>1 DEF Clocked
<1> QED  BY Zenon, <1>3, <1>4, <1>5 DEF Clocked

\* A revocation of a client, or of the cleanup loop, ends the lease on both
\* sides or on none.
LEMMA ClockedMatches ==
    ASSUME NEW s, NEW d, Mirrors(d, s), NEW e \in SUBSET Expiry, NEW n, Clocked(s, e, n), NEW cmd,
           cmd \in RevokeCommand => cmd.ExpireAt = 0 \/ cmd \in e
    PROVE  Matched(s, d, cmd)
<1> SUFFICES ASSUME cmd \in RevokeCommand
             PROVE  Revokes(s, cmd.LeaseID, cmd.ExpireAt) <=>
                      Revokes(d, cmd.LeaseID, Round(cmd.ExpireAt))
  BY Zenon DEF Matched
<1>0. Lasting(s)
  BY Zenon, ClockedLasts
<1>1. Exists(d, cmd.LeaseID) <=> Exists(s, cmd.LeaseID)
  BY Zenon, <1>0, MirroredLeases
<1>2. CASE cmd.ExpireAt = 0
  <2>1. Round(cmd.ExpireAt) = 0
    BY Zenon, <1>2, RoundZero
  <2> QED  BY Zenon, <1>1, <1>2, <2>1 DEF Revokes
<1>3. CASE cmd \in e
  <2>1. Used(cmd.ExpireAt, n)
    BY Zenon, <1>3 DEF Clocked
  <2>2. cmd.ExpireAt # 0 /\ Round(cmd.ExpireAt) # 0
    BY Zenon, <2>1, UsedIs
  <2>3. cmd.LeaseID \in LeaseId
    BY <1>3 DEF Expiry
  <2>4. d.expireAt[cmd.LeaseID] = Round(s.expireAt[cmd.LeaseID])
    BY Zenon, <2>3 DEF Mirrors
  <2>5. d.expireAt[cmd.LeaseID] = Round(cmd.ExpireAt) <=> s.expireAt[cmd.LeaseID] = cmd.ExpireAt
    BY Zenon, <1>3, <2>4 DEF Clocked
  <2> QED  BY Zenon, <1>1, <2>2, <2>5 DEF Revokes
<1> QED  BY Zenon, <1>2, <1>3

-----------------------------------------------------------------------------
(* The disk gives the live state back.                                     *)

\* A lease restored from a snapshot keeps its deadline as it is, the journal
\* rounds that of its revocation, and the replay misses the lease: on disk it
\* lives on, and the keys it should have taken along come back.  So where
\* there are snapshots, deadlines that rounding does not change are assumed;
\* where there are none, nothing is.
ExactDeadlines == HasSnapshot => \A d \in Deadline : Round(d) = d

\* The live state s, the disk d and the apply loop p.  After a failed write
\* the revisions of s move on, and d may have the command that failed.
Recovers(s, d, p) ==
    /\ Ordered(s) /\ Ordered(d) /\ Extends(d, s)
    /\ p # "failed" => Mirrors(d, s)
    /\ \A l \in LeaseId : d.expireAt[l] = Round(s.expireAt[l])

\* The inductive invariant.
Full == Base /\ Recovers(st, disk, loop) /\ Clocked(st, expiries, unused)

\* A mirrored disk recovers.
LEMMA MirrorRecovers ==
    ASSUME NEW s \in State, Ordered(s), NEW d, Mirrors(d, s), NEW p
    PROVE  Recovers(s, d, p)
<1>1. SameStore(s, d) /\ d.rev = s.rev
  BY Zenon DEF Mirrors, SameStore
<1>2. d.rev \in Nat /\ s.rev <= d.rev
  BY <1>1, StateFields
<1>3. Ordered(d) /\ Extends(d, s)
  BY Zenon, <1>1, <1>2, SameFollows
<1> QED  BY Zenon, <1>3 DEF Recovers, Mirrors

\* What a step keeps, and what it does to the store.
Advances(s, d, p, e, n, t) ==
    /\ Recovers(t, d, p) /\ Clocked(t, e, n) /\ Extends(t, s)

\* Nothing changes but the server's revision.
LEMMA CountsAdvance ==
    ASSUME NEW s, Sound(s), Ordered(s), NEW r \in Nat, s.rev <= r, NEW t, Counts(s, t, r)
    PROVE  Ordered(t) /\ Extends(t, s)
<1>1. SameStore(s, t) /\ t.rev = r /\ s \in State
  BY Zenon DEF Counts, Sound
<1> QED  BY Zenon, <1>1, SameFollows

\* A command that is applied.
LEMMA SubmitAdvances ==
    ASSUME Full, NEW cmd, Submits(cmd)
    PROVE  Advances(st, disk', loop', expiries', unused', st')
<1>1. /\ Base /\ Recovers(st, disk, loop) /\ Clocked(st, expiries, unused)
      /\ Sound(st) /\ Sound(disk) /\ expiries \in SUBSET Expiry /\ unused \in SUBSET Deadline
  BY Zenon DEF Full, Base, TypeOK, Expiry
<1>2. /\ Fits(st, disk, cmd) /\ Commit(cmd)
      /\ expiries' \in SUBSET expiries /\ unused' \in SUBSET unused
  BY Zenon DEF Submits
<1>3. loop = "running"
  BY Zenon, <1>2 DEF Commit
<1>4. loop # "failed"
  BY <1>3
<1>5. Mirrors(disk, st) /\ Ordered(st)
  BY Zenon, <1>1, <1>4 DEF Recovers
<1>6. Matched(st, disk, cmd)
  BY Zenon, <1>1, <1>5, ClockedMatches DEF Submits
<1>7. Lasting(st)
  BY Zenon, <1>1, ClockedLasts
<1>8. Twins(st, disk)
  BY Zenon, <1>1, <1>5, <1>7 DEF Twins
<1>9. Steps(st, cmd, Bumped(st, cmd), Numbered(st, cmd), st', disk,
            Redone(disk, Decoded(Numbered(st, cmd))), Decoded(Numbered(st, cmd)), disk')
  BY Zenon, <1>2 DEF Commit, Steps
<1>10. /\ Follows(st, st', disk')
       /\ \/ Moves(st, st', 0)
          \/ cmd \in GrantCommand \cup KeepAliveCommand /\ Moves(st, st', cmd.ExpireAt)
  BY Zenon, <1>2, <1>6, <1>8, <1>9, StepFollows
<1>11. Sound(st')
  BY Zenon, <1>1, <1>2, CommitSound
<1>12. Recovers(st', disk', loop')
  BY Zenon, <1>10, <1>11, MirrorRecovers DEF Follows, Sound
<1>13. Clocked(st', expiries', unused')
  <2>1. CASE Moves(st, st', 0)
    BY Zenon, <1>1, <1>2, <2>1, ClockedMoves
  <2>2. CASE cmd \in GrantCommand \cup KeepAliveCommand /\ Moves(st, st', cmd.ExpireAt)
    <3>1. cmd.ExpireAt \in unused \ unused'
      BY Zenon, <2>2 DEF Submits
    <3> QED  BY Zenon, <1>1, <1>2, <2>2, <3>1, ClockedMoves
  <2> QED  BY Zenon, <1>10, <2>1, <2>2
<1> QED  BY Zenon, <1>10, <1>11, <1>12, <1>13 DEF Advances, Follows

\* A state does not change.
LEMMA StaysAdvances ==
    ASSUME Full
    PROVE  Extends(st, st)
<1>1. Sound(st) /\ Ordered(st)
  BY Zenon DEF Full, Base, Recovers
<1>2. st \in State /\ st.rev \in Nat /\ st.rev <= st.rev
  BY <1>1, StateFields DEF Sound
<1>3. Counts(st, st, st.rev)
  BY Zenon, <1>2 DEF Counts, SameStore, SameLeases
<1> QED  BY Zenon, <1>1, <1>2, <1>3, CountsAdvance

\* The cleanup loop.
LEMMA CleanupAdvances ==
    ASSUME Full, NEW l \in LeaseId, Cleanup(l)
    PROVE  Advances(st, disk', loop', expiries', unused', st')
<1> DEFINE cmd == [Type |-> "LeaseRevoke", LeaseID |-> l, ExpireAt |-> st.expireAt[l]]
<1>1. /\ Exists(st, l) /\ expiries' = expiries \cup {cmd}
      /\ st' = st /\ disk' = disk /\ loop' = loop /\ unused' = unused
  BY Zenon DEF Cleanup
<1>2. cmd.LeaseID = l /\ cmd.ExpireAt = st.expireAt[l]
  OBVIOUS
<1> HIDE DEF cmd
<1>3. Recovers(st, disk, loop) /\ Clocked(st, expiries, unused)
  BY Zenon DEF Full
<1>4. Used(st.expireAt[l], unused)
  BY Zenon, <1>1, <1>3 DEF Exists, Clocked
<1>5. Clocked(st, expiries \cup {cmd}, unused)
  <2>1. Used(cmd.ExpireAt, unused) /\ cmd.ExpireAt = st.expireAt[cmd.LeaseID]
    BY Zenon, <1>2, <1>4
  <2> QED  BY Zenon, <1>3, <2>1 DEF Clocked
<1>6. Advances(st, disk, loop, expiries \cup {cmd}, unused, st)
  BY Zenon, <1>3, <1>5, StaysAdvances DEF Advances
<1> QED  BY Zenon, <1>1, <1>6


\* A write that fails, with or without the record on the disk.
LEMMA WriteFailsAdvances ==
    ASSUME Full, NEW k \in Key, NEW v \in Value, WriteFails(k, v)
    PROVE  Advances(st, disk', loop', expiries', unused', st')
<1> DEFINE cmd == [Type |-> "Put", Key |-> k, Value |-> v, LeaseID |-> 0, Revision |-> 0]
           b == Bumped(st, cmd)
           t == Apply(b, Numbered(st, cmd))
           u == Replay(disk, Decoded(Numbered(st, cmd)))
<1>1. /\ Base /\ Recovers(st, disk, loop) /\ Clocked(st, expiries, unused)
      /\ Sound(st) /\ Sound(disk) /\ expiries \in SUBSET Expiry /\ unused \in SUBSET Deadline
      /\ st \in State /\ disk \in State
  BY Zenon DEF Full, Base, TypeOK, Expiry
<1>2. /\ st' = b /\ disk' \in {disk, u} /\ loop' = "failed" /\ loop = "running"
      /\ expiries' = expiries /\ unused' = unused
  BY Zenon DEF WriteFails
<1>3. Fits(st, disk, cmd) /\ cmd \in SetCommand /\ cmd \notin RevokeCommand
  <2>1. cmd \in PutCommand /\ 0 \in {0} \cup LeaseId
    BY DEF PutCommand
  <2>2. Fits(st, disk, cmd)
    BY Zenon, <1>1, <2>1, FitsAll
  <2>3. cmd \notin RevokeCommand
    BY DEF RevokeCommand
  <2> QED  BY Zenon, <2>1, <2>2, <2>3 DEF SetCommand
<1> HIDE DEF cmd
<1>4. Steps(st, cmd, b, Numbered(st, cmd), t, disk, Redone(disk, Decoded(Numbered(st, cmd))),
            Decoded(Numbered(st, cmd)), u)
  BY Zenon DEF Steps
<1> HIDE DEF b, t, u
<1>5. loop # "failed"
  BY <1>2
<1>6. Mirrors(disk, st) /\ Ordered(st) /\ Ordered(disk) /\ Extends(disk, st)
  BY Zenon, <1>1, <1>5 DEF Recovers
<1>7. Matched(st, disk, cmd) /\ Lasting(st)
  BY Zenon, <1>1, <1>3, <1>6, ClockedMatches, ClockedLasts
<1>8. Twins(st, disk)
  BY Zenon, <1>1, <1>6, <1>7 DEF Twins
<1>9. Follows(st, t, u) /\ Steady(st, t)
  BY Zenon, <1>3, <1>4, <1>7, <1>8, StepFollows
<1>10. Sound(t)
  BY Zenon, <1>1, <1>3, <1>4, StepSound
<1>11. Counts(st, b, st.rev + 1)
  BY Zenon, <1>1, <1>3, <1>4, NumbersStep DEF Journalled, Numbers
<1>12. st.rev + 1 \in Nat /\ st.rev <= st.rev + 1
  BY <1>1, StateFields
<1>13. Ordered(b) /\ Extends(b, st)
  BY Zenon, <1>1, <1>6, <1>11, <1>12, CountsAdvance
<1>14. b.data = st.data /\ b.storeRev = st.storeRev /\ b.expireAt = st.expireAt
  BY Zenon, <1>11 DEF Counts, SameStore, SameLeases
<1>15. Clocked(b, expiries, unused)
  BY Zenon, <1>1, <1>14 DEF Clocked
<1>16. Recovers(b, disk, "failed")
  <2>1. Extends(disk, b)
    BY Zenon, <1>6, <1>14, ExtendsFrom
  <2>2. \A l \in LeaseId : disk.expireAt[l] = Round(b.expireAt[l])
    BY Zenon, <1>6, <1>14 DEF Mirrors
  <2> QED  BY Zenon, <1>6, <1>13, <2>1, <2>2 DEF Recovers
<1>17. Recovers(b, u, "failed")
  <2>1. Recovers(t, u, "running")
    BY Zenon, <1>9, <1>10, MirrorRecovers DEF Follows, Sound
  <2>2. Ordered(u) /\ u.data = t.data /\ u.storeRev = t.storeRev /\ Extends(t, st)
    BY Zenon, <1>9, <2>1 DEF Recovers, Follows, Mirrors
  <2>3. Extends(u, b)
    BY Zenon, <1>14, <2>2, ExtendsFrom
  <2>4. \A l \in LeaseId : u.expireAt[l] = Round(b.expireAt[l])
    BY Zenon, <1>9, <1>14 DEF Follows, Mirrors, Steady
  <2> QED  BY Zenon, <1>13, <2>2, <2>3, <2>4 DEF Recovers
<1>18. Recovers(b, disk', "failed")
  BY Zenon, <1>2, <1>16, <1>17
<1>19. Advances(st, disk', "failed", expiries, unused, b)
  BY Zenon, <1>13, <1>15, <1>18 DEF Advances
<1> QED  BY Zenon, <1>2, <1>19

\* A command after a failed write.
LEMMA RefuseAdvances ==
    ASSUME Full, Refuse
    PROVE  Advances(st, disk', loop', expiries', unused', st')
<1>1. /\ Recovers(st, disk, loop) /\ Clocked(st, expiries, unused) /\ Sound(st) /\ st \in State
  BY Zenon DEF Full, Base, TypeOK
<1>2. /\ st' = [st EXCEPT !.rev = st.rev + 1] /\ disk' = disk /\ loop' = loop /\ loop = "failed"
      /\ expiries' = expiries /\ unused' = unused
  BY DEF Refuse
<1>3. st.rev + 1 \in Nat /\ st.rev <= st.rev + 1
  BY <1>1, StateFields
<1>4. Counts(st, st', st.rev + 1)
  BY Zenon, <1>1, <1>2, <1>3, RevIs
<1>5. Ordered(st') /\ Extends(st', st)
  BY Zenon, <1>1, <1>3, <1>4, CountsAdvance DEF Recovers
<1>6. st'.data = st.data /\ st'.storeRev = st.storeRev /\ st'.expireAt = st.expireAt
  BY Zenon, <1>4 DEF Counts, SameStore, SameLeases
<1>7. Clocked(st', expiries, unused)
  BY Zenon, <1>1, <1>6 DEF Clocked
<1>8. Extends(disk, st')
  BY Zenon, <1>1, <1>6, ExtendsFrom DEF Recovers
<1>9. Recovers(st', disk, "failed")
  BY Zenon, <1>1, <1>5, <1>6, <1>8 DEF Recovers
<1>10. Advances(st, disk, "failed", expiries, unused, st')
  BY Zenon, <1>5, <1>7, <1>9 DEF Advances
<1> QED  BY Zenon, <1>2, <1>10

\* A restart.
LEMMA RestartAdvances ==
    ASSUME Full, Restart
    PROVE  Advances(st, disk', loop', expiries', unused', st')
<1>1. /\ Recovers(st, disk, loop) /\ Clocked(st, expiries, unused) /\ st \in State /\ disk \in State
      /\ expiries \in SUBSET Expiry
  BY Zenon DEF Full, Base, TypeOK, Expiry
<1>2. st' = disk /\ disk' = disk /\ loop' = "running" /\ expiries' = Returned /\ unused' = unused
  BY Zenon DEF Restart
<1>3. /\ \A l \in LeaseId : disk.expireAt[l] = Round(st.expireAt[l])
      /\ Ordered(disk) /\ Extends(disk, st)
  BY Zenon, <1>1 DEF Recovers
<1>4. ASSUME NEW l \in LeaseId  PROVE Round(disk.expireAt[l]) = disk.expireAt[l]
  <2>1. st.expireAt[l] \in Nat
    BY <1>1, StateFields
  <2> QED  BY Zenon, <1>3, <2>1, RoundIs
<1>5. Mirrors(disk, disk)
  BY Zenon, <1>4 DEF Mirrors
<1>6. Recovers(disk, disk, "running")
  BY Zenon, <1>1, <1>3, <1>5, MirrorRecovers
<1>7. ASSUME NEW l \in LeaseId, disk.expireAt[l] # 0  PROVE Used(disk.expireAt[l], unused)
  <2>1. st.expireAt[l] # 0
    BY Zenon, <1>3, <1>7, RoundZero
  <2>2. Used(st.expireAt[l], unused)
    BY Zenon, <1>1, <2>1 DEF Clocked
  <2>3. Used(Round(st.expireAt[l]), unused)
    BY Zenon, <2>2, UsedIs
  <2> QED  BY Zenon, <1>3, <2>3
<1>8. ASSUME NEW c \in Returned
      PROVE  /\ Used(c.ExpireAt, unused)
             /\ Round(c.ExpireAt) = Round(disk.expireAt[c.LeaseID]) =>
                   c.ExpireAt = disk.expireAt[c.LeaseID]
  <2>1. PICK cmd \in expiries : c = Decoded(cmd)
    BY Zenon DEF Returned
  <2>2. cmd.Type = "LeaseRevoke" /\ cmd.LeaseID \in LeaseId /\ cmd.ExpireAt \in Nat /\ cmd \in Expiry
    BY <1>1 DEF Expiry
  <2>3. c.ExpireAt = Round(cmd.ExpireAt) /\ c.LeaseID = cmd.LeaseID
    BY <2>1, <2>2 DEF Decoded, Expiry
  <2>4. Used(cmd.ExpireAt, unused)
    BY Zenon, <1>1 DEF Clocked
  <2>5. Used(Round(cmd.ExpireAt), unused)
    BY Zenon, <2>4, UsedIs
  <2>6. Round(c.ExpireAt) = c.ExpireAt
    BY Zenon, <2>2, <2>3, RoundIs
  <2>7. Round(disk.expireAt[c.LeaseID]) = disk.expireAt[c.LeaseID]
    BY Zenon, <1>4, <2>2, <2>3
  <2>8. Used(c.ExpireAt, unused)
    BY Zenon, <2>3, <2>5
  <2> QED  BY Zenon, <2>6, <2>7, <2>8
<1>9. Clocked(disk, Returned, unused)
  BY Zenon, <1>7, <1>8 DEF Clocked
<1>10. Advances(st, disk, "running", Returned, unused, disk)
  BY Zenon, <1>3, <1>6, <1>9 DEF Advances
<1> QED  BY Zenon, <1>2, <1>10

\* A shutdown: here deadlines reach the disk as they are.
LEMMA ShutdownAdvances ==
    ASSUME ExactDeadlines, Full, Shutdown
    PROVE  Advances(st, disk', loop', expiries', unused', st')
<1>1. /\ Recovers(st, disk, loop) /\ Clocked(st, expiries, unused) /\ st \in State /\ Sound(st)
  BY Zenon DEF Full, Base, TypeOK
<1>2. disk' = Restored(Saved(st)) /\ st' = st /\ expiries' = expiries /\ unused' = unused /\ HasSnapshot
  BY Zenon DEF Shutdown
<1>3. Ordered(st)
  BY Zenon, <1>1 DEF Recovers
<1>4. Larger(st.rev, st.storeRev) = st.rev
  BY <1>1, <1>3, StateFields DEF Larger, Ordered
<1>5. Counts(st, Restored(Saved(st)), Larger(st.rev, st.storeRev))
  BY Zenon, <1>1, RestoredIs
<1>6. Counts(st, disk', st.rev)
  BY Zenon, <1>2, <1>4, <1>5
<1>7. ASSUME NEW l \in LeaseId  PROVE Round(st.expireAt[l]) = st.expireAt[l]
  <2>1. CASE st.expireAt[l] = 0
    BY Zenon, <2>1, RoundZero
  <2>2. CASE st.expireAt[l] # 0
    <3>1. PICK d \in Deadline : st.expireAt[l] = d \/ st.expireAt[l] = Round(d)
      BY Zenon, <1>1, <2>2 DEF Clocked, Used
    <3>2. Round(d) = d
      BY Zenon, <1>2 DEF ExactDeadlines
    <3> QED  BY Zenon, <3>1, <3>2
  <2> QED  BY Zenon, <2>1, <2>2
<1>8. /\ disk'.data = st.data /\ disk'.key2Lease = st.key2Lease /\ disk'.storeRev = st.storeRev
      /\ disk'.rev = st.rev /\ disk'.leaseID = st.leaseID /\ disk'.Keys = st.Keys
      /\ disk'.expireAt = st.expireAt
  BY Zenon, <1>6 DEF Counts, SameStore, SameLeases
<1>9. \A l \in LeaseId : disk'.expireAt[l] = Round(st.expireAt[l])
  BY Zenon, <1>7, <1>8
<1>10. Mirrors(disk', st)
  BY Zenon, <1>8, <1>9 DEF Mirrors
<1>11. Recovers(st, disk', loop')
  BY Zenon, <1>1, <1>3, <1>10, MirrorRecovers
<1>12. Advances(st, disk', loop', expiries, unused, st)
  BY Zenon, <1>1, <1>11, StaysAdvances DEF Advances
<1> QED  BY Zenon, <1>2, <1>12

\* Every step.
LEMMA FullAdvances ==
    ASSUME ExactDeadlines, Full, [Next]_vars
    PROVE  Advances(st, disk', loop', expiries', unused', st')
<1>1. CASE UNCHANGED vars
  <2>1. Advances(st, disk, loop, expiries, unused, st)
    BY Zenon, StaysAdvances DEF Advances, Full
  <2> QED  BY Zenon, <1>1, <2>1 DEF vars
<1>2. CASE Next
  BY Zenon, <1>2, NextIs, SubmitAdvances, CleanupAdvances, WriteFailsAdvances, RefuseAdvances,
     RestartAdvances, ShutdownAdvances DEF Full
<1> QED  BY Zenon, <1>1, <1>2


\* The empty state.
LEMMA FullInit ==
    Init => Full
<1> SUFFICES ASSUME Init  PROVE Full
  OBVIOUS
<1>1. Base
  BY BaseInit
<1>2. st = NewState /\ disk = NewState /\ expiries = {}
  BY Zenon DEF Init
<1>3. st \in State
  BY Zenon, <1>1 DEF Base, TypeOK
<1>4. /\ \A k \in Key : st.data[k] = << >>
      /\ \A l \in LeaseId : st.expireAt[l] = 0
      /\ st.storeRev = 0 /\ st.rev = 0
  BY <1>2 DEF NewState
<1>5. Ordered(st)
  <2>1. \A k \in Key : Len(st.data[k]) = 0
    BY <1>4
  <2> QED  BY <1>4, <2>1 DEF Ordered, InOrder
<1>6. Mirrors(disk, st)
  <2>1. \A l \in LeaseId : disk.expireAt[l] = Round(st.expireAt[l])
    BY Zenon, <1>2, <1>4, RoundZero
  <2> QED  BY Zenon, <1>2, <2>1 DEF Mirrors
<1>7. Recovers(st, disk, loop)
  BY Zenon, <1>3, <1>5, <1>6, MirrorRecovers
<1>8. Clocked(st, expiries, unused)
  BY Zenon, <1>2, <1>4 DEF Clocked
<1> QED  BY Zenon, <1>1, <1>7, <1>8 DEF Full

\* Full is inductive.
LEMMA FullStep ==
    ASSUME ExactDeadlines, Full, [Next]_vars
    PROVE  Full'
<1>1. Base'
  BY Zenon, BaseStep DEF Full
<1>2. Recovers(st', disk', loop') /\ Clocked(st', expiries', unused')
  BY Zenon, FullAdvances DEF Advances
<1>3. Recovers(st, disk, loop)'
  BY Zenon, <1>2 DEF Recovers, Ordered, InOrder, Extends, Mirrors
<1>4. Clocked(st, expiries, unused)'
  BY Zenon, <1>2 DEF Clocked, Used
<1> QED  BY Zenon, <1>1, <1>3, <1>4 DEF Full

\* Full, which the theorems below are read off.
LEMMA FullAlways ==
    ASSUME ExactDeadlines
    PROVE  Spec => []Full
<1>1. Init => Full
  BY FullInit
<1>2. Full /\ [Next]_vars => Full'
  BY FullStep
<1> QED  BY <1>1, <1>2, PTL DEF Spec

\* What nextRevision numbers in applyLoop, and what the store numbers by
\* itself, are the identity of versions: also after failed commands, failed
\* writes and restarts.
THEOREM RevisionsInOrder ==
    ASSUME ExactDeadlines
    PROVE  Spec => []RevisionsOrdered
<1>1. Full => RevisionsOrdered
  BY Zenon DEF Full, Recovers, Ordered, InOrder, RevisionsOrdered
<1> QED  BY <1>1, FullAlways, PTL

\* applyRecoveredCommand mirrors applyLoop: as long as the WAL is written, the
\* disk replays to the live state.
THEOREM RecoveryIsFaithful ==
    ASSUME ExactDeadlines
    PROVE  Spec => []RecoveryMirrors
<1>1. Full => RecoveryMirrors
  <2> SUFFICES ASSUME Full, loop # "failed"  PROVE Rounded(disk) = Rounded(st)
    BY Zenon DEF RecoveryMirrors
  <2>1. st \in State /\ disk \in State /\ Mirrors(disk, st)
    BY Zenon DEF Full, Base, TypeOK, Recovers
  <2>2. ASSUME NEW l \in LeaseId  PROVE Round(disk.expireAt[l]) = Round(st.expireAt[l])
    <3>1. st.expireAt[l] \in Nat
      BY <2>1, StateFields
    <3> QED  BY Zenon, <2>1, <3>1, RoundIs DEF Mirrors
  <2> DEFINE f == [l \in LeaseId |-> Round(disk.expireAt[l])]
             g == [l \in LeaseId |-> Round(st.expireAt[l])]
  <2>3. f = g
    BY <2>2
  <2>4. Rounded(disk) = [disk EXCEPT !.expireAt = f] /\ Rounded(st) = [st EXCEPT !.expireAt = g]
    BY Zenon DEF Rounded
  <2> HIDE DEF f, g
  <2>6. /\ disk.data = st.data /\ disk.key2Lease = st.key2Lease /\ disk.storeRev = st.storeRev
        /\ disk.rev = st.rev /\ disk.leaseID = st.leaseID /\ disk.Keys = st.Keys
    BY Zenon, <2>1 DEF Mirrors
  <2>7. [disk EXCEPT !.expireAt = g] =
          [data |-> disk.data, key2Lease |-> disk.key2Lease, storeRev |-> disk.storeRev,
           rev |-> disk.rev, leaseID |-> disk.leaseID, expireAt |-> g, Keys |-> disk.Keys]
    BY Zenon, <2>1, Dated
  <2>8. [st EXCEPT !.expireAt = g] =
          [data |-> st.data, key2Lease |-> st.key2Lease, storeRev |-> st.storeRev,
           rev |-> st.rev, leaseID |-> st.leaseID, expireAt |-> g, Keys |-> st.Keys]
    BY Zenon, <2>1, Dated
  <2> QED  BY Zenon, <2>3, <2>4, <2>6, <2>7, <2>8
<1> QED  BY <1>1, FullAlways, PTL

\* The newest of finitely many versions.
LEMMA NewestExists ==
    ASSUME NEW n \in Nat, NEW S \in SUBSET (1..n), S # {}
    PROVE  \E i \in S : \A j \in S : j <= i
<1> DEFINE T == {n - i : i \in S}
           R == {ss \in Nat \X Nat : ss[1] < ss[2]}
<1>1. T \subseteq Nat /\ T # {}
  OBVIOUS
<1>2. IsWellFoundedOn(R, Nat)
  BY NatLessThanWellFounded DEF OpToRel
<1>3. \A a, b \in Nat : a < b => <<a, b>> \in R
  OBVIOUS
<1>4. \A x \in T : \E i \in S : x = n - i
  OBVIOUS
<1>5. \A i \in S : n - i \in T
  OBVIOUS
<1> HIDE DEF R, T
<1>6. PICK m \in T : \A y \in T : ~(<<y, m>> \in R)
  BY ZenonT(30), <1>1, <1>2, WFMin
<1>7. PICK i \in S : m = n - i
  BY Zenon, <1>4
<1>8. ASSUME NEW j \in S  PROVE j <= i
  <2>1. n - j \in T /\ n - j \in Nat /\ m \in Nat
    BY Zenon, <1>1, <1>5
  <2>2. ~(n - j < m)
    BY Zenon, <1>3, <1>6, <2>1
  <2>3. j \in Int /\ i \in Int
    OBVIOUS
  <2> QED  BY <1>7, <2>2, <2>3
<1> QED  BY Zenon, <1>8

\* Reads at the revisions of s see nothing of what t adds.
LEMMA ReadsSame ==
    ASSUME NEW s \in State, NEW t \in State, Extends(t, s), NEW k \in Key, NEW rev \in 1..s.storeRev
    PROVE  GetAtRevision(t, k, rev) = GetAtRevision(s, k, rev)
<1> DEFINE a == {i \in 1..Len(s.data[k]) : s.data[k][i].Revision <= rev}
           b == {i \in 1..Len(t.data[k]) : t.data[k][i].Revision <= rev}
           c == CHOOSE i \in a : \A j \in a : j <= i
<1>1. /\ Len(s.data[k]) \in Nat /\ Len(t.data[k]) \in Nat /\ s.storeRev \in Nat
      /\ \A i \in 1..Len(t.data[k]) : t.data[k][i].Revision \in Nat
  <2>1. s.data[k] \in Seq(Version) /\ t.data[k] \in Seq(Version) /\ s.storeRev \in Nat
    <3>1. s.data \in [Key -> Seq(Version)] /\ t.data \in [Key -> Seq(Version)] /\ s.storeRev \in Nat
      BY Zenon, StateFields
    <3> QED  BY Zenon, <3>1
  <2>2. ASSUME NEW i \in 1..Len(t.data[k])  PROVE t.data[k][i].Revision \in Nat
    <3>1. t.data[k][i] \in Version
      BY <2>1
    <3> QED  BY <3>1 DEF Version
  <2>3. Len(s.data[k]) \in Nat /\ Len(t.data[k]) \in Nat
    BY <2>1
  <2> QED  BY Zenon, <2>1, <2>2, <2>3
<1>2. /\ Len(s.data[k]) <= Len(t.data[k])
      /\ \A i \in 1..Len(s.data[k]) : t.data[k][i] = s.data[k][i]
      /\ \A i \in (Len(s.data[k]) + 1)..Len(t.data[k]) : t.data[k][i].Revision > s.storeRev
  BY Zenon DEF Extends
<1>3. a \subseteq b
  <2> SUFFICES ASSUME NEW i \in a  PROVE i \in b
    OBVIOUS
  <2>1. i \in 1..Len(s.data[k]) /\ s.data[k][i].Revision <= rev
    BY Zenon
  <2>2. i \in 1..Len(t.data[k])
    BY <1>1, <1>2, <2>1
  <2> QED  BY Zenon, <1>2, <2>1, <2>2
<1>4. b \subseteq a
  <2> SUFFICES ASSUME NEW i \in b  PROVE i \in a
    OBVIOUS
  <2>1. i \in 1..Len(t.data[k]) /\ t.data[k][i].Revision <= rev
    OBVIOUS
  <2>2. i \in 1..Len(s.data[k]) \/ i \in (Len(s.data[k]) + 1)..Len(t.data[k])
    BY <1>1, <2>1
  <2>3. ASSUME i \in (Len(s.data[k]) + 1)..Len(t.data[k])  PROVE FALSE
    <3>1. t.data[k][i].Revision > s.storeRev
      BY Zenon, <1>2, <2>3
    <3> QED  BY <1>1, <2>1, <3>1
  <2> QED  BY Zenon, <1>2, <2>1, <2>2, <2>3
<1>5. /\ GetAtRevision(s, k, rev) = IF a = {} THEN [Revision |-> 0, Value |-> NoValue, Tombstone |-> TRUE]
                                     ELSE s.data[k][c]
      /\ GetAtRevision(t, k, rev) = IF b = {} THEN [Revision |-> 0, Value |-> NoValue, Tombstone |-> TRUE]
                                     ELSE t.data[k][CHOOSE i \in b : \A j \in b : j <= i]
  BY Zenon DEF GetAtRevision
<1>6. a = b
  BY Zenon, <1>3, <1>4
<1>7. a # {} => c \in a
  <2>1. a \in SUBSET (1..Len(s.data[k]))
    OBVIOUS
  <2> HIDE DEF a
  <2>2. a # {} => \E i \in a : \A j \in a : j <= i
    BY Zenon, <1>1, <2>1, NewestExists
  <2> QED  BY Zenon, <2>2
<1>8. a # {} => t.data[k][c] = s.data[k][c]
  BY Zenon, <1>2, <1>7
<1> HIDE DEF a, b
<1> QED  BY Zenon, <1>5, <1>6, <1>8

\* GetAtRevision gives the same version for ever.
THEOREM ReadsAreStable ==
    ASSUME ExactDeadlines
    PROVE  Spec => ReadsStable
<1>1. ASSUME Full, Full', [Next]_vars
      PROVE  \A k \in Key : \A rev \in 1..st.storeRev :
                GetAtRevision(st', k, rev) = GetAtRevision(st, k, rev)
  <2>1. st \in State /\ st' \in State
    BY Zenon, <1>1 DEF Full, Base, TypeOK
  <2>2. Extends(st', st)
    BY Zenon, <1>1, FullAdvances DEF Advances
  <2> QED  BY Zenon, <2>1, <2>2, ReadsSame
<1> QED  BY <1>1, FullAlways, PTL DEF Spec, ReadsStable

=============================================================================
