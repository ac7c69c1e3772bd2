-------------------------- MODULE StateMachineInv ---------------------------
(***************************************************************************)
(* Proofs about StateMachine: what its commands do, live and replayed, and *)
(* what holds whatever the deadlines are and however often the server is   *)
(* shut down.                                                              *)
(***************************************************************************)
EXTENDS StateMachineEffects

-----------------------------------------------------------------------------
(* Commands.                                                               *)

PutCommand ==
    [Type : {"Put"}, Key : Key, Value : Value, LeaseID : {0} \cup LeaseId, Revision : Nat]

AttachCommand ==
    [Type : {"LeaseAttach"}, Key : Key, Value : Value, LeaseID : {0} \cup LeaseId, Revision : Nat]

CASCommand == [Type : {"CAS"}, Key : Key, Value : Value, ExpectedRev : Nat, Revision : Nat]

DeleteCommand == [Type : {"Delete"}, Key : Key, Revision : Nat]

PrefixCommand == [Type : {"DeletePrefix"}, Prefix : Prefix, Revision : Nat]

ReadCommand == [Type : {"Get"}, Key : Key] \cup [Type : {"GetPrefix"}, Prefix : Prefix]

GrantCommand == [Type : {"LeaseGrant"}, ExpireAt : Nat \ {0}]

RevokeCommand == [Type : {"LeaseRevoke"}, LeaseID : {0} \cup LeaseId, ExpireAt : Nat]

KeepAliveCommand ==
    [Type : {"LeaseKeepAlive"}, LeaseID : {0} \cup LeaseId, ExpireAt : Nat \ {0}]

\* The commands that set a key.
SetCommand == PutCommand \cup AttachCommand \cup CASCommand \cup DeleteCommand

Numbers == SetCommand \cup PrefixCommand

Timed == GrantCommand \cup RevokeCommand \cup KeepAliveCommand

\* What applying a command, and replaying it, makes of s: t and u.
Keeps(s, t, u) == Sound(t) /\ EndsItsKeys(s, t) /\ Sound(u)

\* The effects of Put.
LEMMA PutIs ==
    ASSUME NEW s, NEW c \in PutCommand
    PROVE  /\ Apply(s, c) = ApplyPut(s, c.Key, c.Value, c.LeaseID, c.Revision)
           /\ ReplayEffects(s, c) = ReplayPut(s, c.Key, c.Value, c.LeaseID, c.Revision)
           /\ c.Type = "Put" /\ c.Key \in Key /\ c.Value \in Value
           /\ c.LeaseID \in {0} \cup LeaseId /\ c.Revision \in Nat
BY DEF PutCommand, Apply, ReplayEffects

\* The effects of LeaseAttach.
LEMMA AttachCommandIs ==
    ASSUME NEW s, NEW c \in AttachCommand
    PROVE  /\ Apply(s, c) = ApplyAttach(s, c.LeaseID, c.Key, c.Value, c.Revision)
           /\ ReplayEffects(s, c) = ReplayAttach(s, c.LeaseID, c.Key, c.Value, c.Revision)
           /\ c.Type = "LeaseAttach" /\ c.Key \in Key /\ c.Value \in Value
           /\ c.LeaseID \in {0} \cup LeaseId /\ c.Revision \in Nat
BY DEF AttachCommand, Apply, ReplayEffects

\* The effects of CAS.
LEMMA CASIs ==
    ASSUME NEW s, NEW c \in CASCommand
    PROVE  /\ Apply(s, c) = ApplyCAS(s, c.Key, c.Value, c.ExpectedRev, c.Revision)
           /\ ReplayEffects(s, c) = ReplayCAS(s, c.Key, c.Value, c.ExpectedRev, c.Revision)
           /\ c.Type = "CAS" /\ c.Key \in Key /\ c.Value \in Value /\ c.Revision \in Nat
BY DEF CASCommand, Apply, ReplayEffects

\* The effects of Delete.
LEMMA DeleteIs ==
    ASSUME NEW s, NEW c \in DeleteCommand
    PROVE  /\ Apply(s, c) = StoreDelete(RevokeKey(s, c.Key), c.Key, c.Revision)
           /\ ReplayEffects(s, c) = StoreDelete(RevokeKey(s, c.Key), c.Key, c.Revision)
           /\ c.Type = "Delete" /\ c.Key \in Key /\ c.Revision \in Nat
BY DEF DeleteCommand, Apply, ReplayEffects

\* The effects of DeletePrefix.
LEMMA PrefixIs ==
    ASSUME NEW s, NEW c \in PrefixCommand
    PROVE  /\ Apply(s, c) = ApplyDeletePrefix(s, c.Prefix)
           /\ ReplayEffects(s, c) = ReplayDeletePrefix(s, c.Prefix)
           /\ c.Type = "DeletePrefix" /\ c.Prefix \in Prefix /\ c.Revision \in Nat
BY DEF PrefixCommand, Apply, ReplayEffects

\* Reads have none.
LEMMA ReadIs ==
    ASSUME NEW s, NEW c \in ReadCommand
    PROVE  Apply(s, c) = s /\ ReplayEffects(s, c) = s /\ c.Type \in {"Get", "GetPrefix"}
BY DEF ReadCommand, Apply, ReplayEffects

\* The effects of LeaseGrant.
LEMMA GrantCommandIs ==
    ASSUME NEW s, NEW c \in GrantCommand
    PROVE  /\ Apply(s, c) = GrantUntil(s, c.ExpireAt)
           /\ ReplayEffects(s, c) = GrantUntil(s, c.ExpireAt)
           /\ c.Type = "LeaseGrant" /\ c.ExpireAt \in Nat \ {0}
BY DEF GrantCommand, Apply, ReplayEffects

\* The effects of LeaseRevoke.
LEMMA RevokeCommandIs ==
    ASSUME NEW s, NEW c \in RevokeCommand
    PROVE  /\ Apply(s, c) = ApplyRevoke(s, c.LeaseID, c.ExpireAt)
           /\ ReplayEffects(s, c) = ReplayRevoke(s, c.LeaseID, c.ExpireAt)
           /\ c.Type = "LeaseRevoke" /\ c.LeaseID \in {0} \cup LeaseId /\ c.ExpireAt \in Nat
BY DEF RevokeCommand, Apply, ReplayEffects

\* The effects of LeaseKeepAlive.
LEMMA KeepAliveCommandIs ==
    ASSUME NEW s, NEW c \in KeepAliveCommand
    PROVE  /\ Apply(s, c) = KeepAliveUntil(s, c.LeaseID, c.ExpireAt)
           /\ ReplayEffects(s, c) = KeepAliveUntil(s, c.LeaseID, c.ExpireAt)
           /\ c.Type = "LeaseKeepAlive" /\ c.LeaseID \in {0} \cup LeaseId
           /\ c.ExpireAt \in Nat \ {0}
BY DEF KeepAliveCommand, Apply, ReplayEffects

\* A step of the server's revision before or after the others is harmless.
LEMMA EndsAndCounts ==
    ASSUME NEW s, NEW t, NEW u, NEW r
    PROVE  /\ EndsItsKeys(s, t) /\ Counts(t, u, r) => EndsItsKeys(s, u)
           /\ Counts(s, t, r) /\ EndsItsKeys(t, u) => EndsItsKeys(s, u)
<1>1. ASSUME NEW a, NEW b, Counts(a, b, r)
      PROVE  /\ \A l : Exists(b, l) <=> Exists(a, l)
             /\ \A k : Live(b, k) <=> Live(a, k)
             /\ b.Keys = a.Keys
  BY Zenon, <1>1 DEF Counts, SameStore, SameLeases, Exists, Live, Latest
<1>2. ASSUME EndsItsKeys(s, t), Counts(t, u, r)
      PROVE  EndsItsKeys(s, u)
  <2>1. /\ \A l : Exists(u, l) <=> Exists(t, l)
        /\ \A k : Live(u, k) <=> Live(t, k)
    BY Zenon, <1>1, <1>2
  <2> QED  BY Zenon, <1>2, <2>1 DEF EndsItsKeys
<1>3. ASSUME Counts(s, t, r), EndsItsKeys(t, u)
      PROVE  EndsItsKeys(s, u)
  <2>1. /\ \A l : Exists(t, l) <=> Exists(s, l)
        /\ \A k : Live(t, k) <=> Live(s, k)
        /\ t.Keys = s.Keys
    BY Zenon, <1>1, <1>3
  <2> QED  BY Zenon, <1>3, <2>1 DEF EndsItsKeys
<1> QED  BY Zenon, <1>2, <1>3

\* A settled state is sound.
LEMMA SettledSound ==
    ASSUME NEW s, Sound(s)
    PROVE  /\ Counts(s, Settled(s), Larger(s.rev, s.storeRev))
           /\ Sound(Settled(s))
<1>1. s \in State /\ s.rev \in Nat /\ s.storeRev \in Nat
  BY Zenon, StateFields DEF Sound
<1>2. Larger(s.rev, s.storeRev) \in Nat
  BY Zenon, <1>1, LargerIs
<1>3. Counts(s, Settled(s), Larger(s.rev, s.storeRev))
  BY Zenon, <1>1, <1>2, RevIs DEF Settled
<1> QED  BY Zenon, <1>3, CountsSound

\* Applied and replayed, c sets a key.
BothSet(s, c, k, v, l, b) ==
    /\ Sets(s, Apply(s, c), k, v, l, c.Revision, b)
    /\ Sets(s, ReplayEffects(s, c), k, v, l, c.Revision, b)
    /\ k \in Key /\ l \in {0} \cup LeaseId /\ b \in BOOLEAN /\ (b => l = 0)

\* Applied and replayed, c does nothing.
NoneSet(s, c) == Apply(s, c) = s /\ ReplayEffects(s, c) = s

\* Put.
LEMMA PutSetsBoth ==
    ASSUME NEW s, Sound(s), NEW c \in PutCommand, c.Revision # 0
    PROVE  BothSet(s, c, c.Key, c.Value, c.LeaseID, FALSE)
<1>1. /\ Apply(s, c) = ApplyPut(s, c.Key, c.Value, c.LeaseID, c.Revision)
      /\ ReplayEffects(s, c) = ReplayPut(s, c.Key, c.Value, c.LeaseID, c.Revision)
      /\ c.Key \in Key /\ c.Value \in Value /\ c.LeaseID \in {0} \cup LeaseId
      /\ c.Revision \in Nat \ {0}
  BY Zenon, PutIs
<1> DEFINE t == ApplyPut(s, c.Key, c.Value, c.LeaseID, c.Revision)
<1>2. /\ Sets(s, t, c.Key, c.Value, c.LeaseID, c.Revision, FALSE)
      /\ ReplayPut(s, c.Key, c.Value, c.LeaseID, c.Revision) = t
  BY Zenon, <1>1, PutSets
<1> QED  BY Zenon, <1>1, <1>2 DEF BothSet

\* LeaseAttach.
LEMMA AttachSetsBoth ==
    ASSUME NEW s, Sound(s), NEW c \in AttachCommand, c.Revision # 0
    PROVE  /\ c.LeaseID = 0 => NoneSet(s, c)
           /\ c.LeaseID # 0 => BothSet(s, c, c.Key, c.Value, c.LeaseID, FALSE)
<1>1. /\ Apply(s, c) = ApplyAttach(s, c.LeaseID, c.Key, c.Value, c.Revision)
      /\ ReplayEffects(s, c) = ReplayAttach(s, c.LeaseID, c.Key, c.Value, c.Revision)
      /\ c.Key \in Key /\ c.Value \in Value /\ c.LeaseID \in {0} \cup LeaseId
      /\ c.Revision \in Nat \ {0}
  BY Zenon, AttachCommandIs
<1>2. CASE c.LeaseID = 0
  <2>1. ~(0 > 0)
    OBVIOUS
  <2>2. /\ ApplyAttach(s, 0, c.Key, c.Value, c.Revision) = s
        /\ ReplayAttach(s, 0, c.Key, c.Value, c.Revision) = s
    BY Zenon, <2>1 DEF ApplyAttach, ReplayAttach
  <2> QED  BY Zenon, <1>1, <1>2, <2>2 DEF NoneSet
<1>3. CASE c.LeaseID \in LeaseId
  <2> DEFINE t == ApplyAttach(s, c.LeaseID, c.Key, c.Value, c.Revision)
  <2>1. /\ Sets(s, t, c.Key, c.Value, c.LeaseID, c.Revision, FALSE)
        /\ ReplayAttach(s, c.LeaseID, c.Key, c.Value, c.Revision) = t
    BY Zenon, <1>1, <1>3, AttachSets
  <2>2. c.LeaseID # 0
    BY <1>3 DEF LeaseId
  <2> QED  BY Zenon, <1>1, <2>1, <2>2 DEF BothSet
<1> QED  BY Zenon, <1>1, <1>2, <1>3

\* CAS, of a key and a revision that are as expected or not.
LEMMA CASSetsBoth ==
    ASSUME NEW s, Sound(s), NEW c \in CASCommand, c.Revision # 0
    PROVE  /\ CASHolds(s, c.Key, c.ExpectedRev) =>
                BothSet(s, c, c.Key, c.Value, s.key2Lease[c.Key], FALSE)
           /\ ~CASHolds(s, c.Key, c.ExpectedRev) => NoneSet(s, c)
<1>1. /\ Apply(s, c) = ApplyCAS(s, c.Key, c.Value, c.ExpectedRev, c.Revision)
      /\ ReplayEffects(s, c) = ReplayCAS(s, c.Key, c.Value, c.ExpectedRev, c.Revision)
      /\ c.Key \in Key /\ c.Value \in Value /\ c.Revision \in Nat \ {0}
  BY Zenon, CASIs
<1>2. CASE CASHolds(s, c.Key, c.ExpectedRev)
  <2> DEFINE t == ApplyCAS(s, c.Key, c.Value, c.ExpectedRev, c.Revision)
  <2>1. /\ Sets(s, t, c.Key, c.Value, s.key2Lease[c.Key], c.Revision, FALSE)
        /\ ReplayCAS(s, c.Key, c.Value, c.ExpectedRev, c.Revision) = t
        /\ s.key2Lease[c.Key] \in {0} \cup LeaseId
    BY Zenon, <1>1, <1>2, CASSets
  <2> QED  BY Zenon, <1>1, <1>2, <2>1 DEF BothSet
<1>3. CASE ~CASHolds(s, c.Key, c.ExpectedRev)
  <2>1. /\ ApplyCAS(s, c.Key, c.Value, c.ExpectedRev, c.Revision) = s
        /\ ReplayCAS(s, c.Key, c.Value, c.ExpectedRev, c.Revision) = s
    BY Zenon, <1>3 DEF ApplyCAS, ReplayCAS, StoreCAS
  <2> QED  BY Zenon, <1>1, <1>3, <2>1 DEF NoneSet
<1> QED  BY Zenon, <1>2, <1>3

\* Delete.
LEMMA DeleteSetsBoth ==
    ASSUME NEW s, Sound(s), NEW c \in DeleteCommand, c.Revision # 0
    PROVE  BothSet(s, c, c.Key, NoValue, 0, TRUE)
<1>1. /\ Apply(s, c) = StoreDelete(RevokeKey(s, c.Key), c.Key, c.Revision)
      /\ ReplayEffects(s, c) = StoreDelete(RevokeKey(s, c.Key), c.Key, c.Revision)
      /\ c.Key \in Key /\ c.Revision \in Nat \ {0}
  BY Zenon, DeleteIs
<1>2. Sets(s, StoreDelete(RevokeKey(s, c.Key), c.Key, c.Revision), c.Key, NoValue, 0, c.Revision, TRUE)
  BY Zenon, <1>1, DeleteSets
<1> QED  BY Zenon, <1>1, <1>2 DEF BothSet

\* The commands that set a key keep a state sound.
LEMMA SetKeeps ==
    ASSUME NEW s, Sound(s), NEW c \in SetCommand, c.Revision # 0
    PROVE  Keeps(s, Apply(s, c), ReplayEffects(s, c))
<1>0. c.Revision \in Nat \ {0}
  <2>1. c.Revision \in Nat
    BY DEF SetCommand, PutCommand, AttachCommand, CASCommand, DeleteCommand
  <2> QED  BY Zenon, <2>1
<1>1. ASSUME NoneSet(s, c)
      PROVE  Keeps(s, Apply(s, c), ReplayEffects(s, c))
  BY Zenon, <1>1 DEF NoneSet, Keeps, EndsItsKeys
<1>2. ASSUME NEW k, NEW v, NEW l, NEW b, BothSet(s, c, k, v, l, b)
      PROVE  Keeps(s, Apply(s, c), ReplayEffects(s, c))
  <2>1. /\ Sets(s, Apply(s, c), k, v, l, c.Revision, b)
        /\ Sets(s, ReplayEffects(s, c), k, v, l, c.Revision, b)
        /\ k \in Key /\ l \in {0} \cup LeaseId /\ b \in BOOLEAN /\ (b => l = 0)
    BY Zenon, <1>2 DEF BothSet
  <2> QED  BY Zenon, <1>0, <2>1, SetsSound DEF Keeps
<1> QED  BY Zenon, <1>1, <1>2, PutSetsBoth, AttachSetsBoth, CASSetsBoth, DeleteSetsBoth DEF SetCommand

\* Applied, DeletePrefix is what it is replayed, settled.
LEMMA PrefixSettles ==
    ASSUME NEW s, NEW p
    PROVE  ApplyDeletePrefix(s, p) = Settled(ReplayDeletePrefix(s, p))
BY DEF ApplyDeletePrefix, ReplayDeletePrefix, Settled

\* DeletePrefix keeps a state sound.
LEMMA PrefixKeeps ==
    ASSUME NEW s, Sound(s), NEW c \in PrefixCommand
    PROVE  Keeps(s, Apply(s, c), ReplayEffects(s, c))
<1>1. s.storeRev \in Nat
  BY Zenon, StateFields DEF Sound
<1> DEFINE u == ReplayDeletePrefix(s, c.Prefix)
<1>2. Apply(s, c) = Settled(u) /\ ReplayEffects(s, c) = u /\ c.Prefix \in Prefix
  BY Zenon, PrefixIs, PrefixSettles
<1>3. /\ PrefixKeys(s, c.Prefix) \in SUBSET Key
      /\ Clears(s, u, PrefixKeys(s, c.Prefix), s.storeRev, {}, s.rev)
  BY Zenon, <1>2, PrefixClears
<1> HIDE DEF u
<1>4. Sound(u) /\ EndsItsKeys(s, u)
  BY Zenon, <1>1, <1>3, ClearsSound
<1>5. Sound(Settled(u)) /\ Counts(u, Settled(u), Larger(u.rev, u.storeRev))
  BY Zenon, <1>4, SettledSound
<1>6. EndsItsKeys(s, Settled(u))
  BY Zenon, <1>4, <1>5, EndsAndCounts
<1> QED  BY Zenon, <1>2, <1>4, <1>5, <1>6 DEF Keeps

\* The lease commands keep a state sound.
LEMMA TimedKeep ==
    ASSUME NEW s, Sound(s), NEW c \in Timed, c \in GrantCommand => s.leaseID < MaxLeases
    PROVE  Keeps(s, Apply(s, c), ReplayEffects(s, c))
<1>0. s \in State /\ s.rev \in Nat
  BY Zenon, StateFields DEF Sound
<1>1. CASE c \in GrantCommand
  <2>1. c.ExpireAt \in Nat
    BY Zenon, <1>1, GrantCommandIs
  <2>2. /\ Grants(s, Apply(s, c), s.leaseID + 1, c.ExpireAt)
        /\ ReplayEffects(s, c) = Apply(s, c)
    BY Zenon, <1>0, <1>1, <2>1, GrantCommandIs, GrantIs
  <2> QED  BY Zenon, <2>2, GrantsSound DEF Keeps
<1>2. CASE c \in RevokeCommand
  <2>1. c.LeaseID \in {0} \cup LeaseId /\ c.ExpireAt \in Nat
    BY Zenon, <1>2, RevokeCommandIs
  <2> DEFINE u == ReplayRevoke(s, c.LeaseID, c.ExpireAt)
             D == RevokedKeys(s, c.LeaseID, c.ExpireAt)
  <2>2. D \in SUBSET Key /\ Clears(s, u, D, s.rev, Gone(s, c.LeaseID, c.ExpireAt), s.rev + Cardinality(D))
    BY Zenon, <2>1, RevokeClears
  <2>3. ReplayEffects(s, c) = u
    BY Zenon, <1>2, RevokeCommandIs
  <2>4. Apply(s, c) = s \/ Apply(s, c) = u
    BY Zenon, <1>2, RevokeCommandIs DEF ApplyRevoke, ReplayRevoke
  <2> HIDE DEF u, D
  <2>5. Sound(u) /\ EndsItsKeys(s, u)
    BY Zenon, <1>0, <2>2, ClearsSound
  <2> QED  BY Zenon, <2>3, <2>4, <2>5 DEF Keeps, EndsItsKeys
<1>3. CASE c \in KeepAliveCommand
  <2>1. c.LeaseID \in {0} \cup LeaseId /\ c.ExpireAt \in Nat /\ c.ExpireAt # 0
    BY Zenon, <1>3, KeepAliveCommandIs
  <2>2. /\ Prolongs(s, Apply(s, c), c.LeaseID, c.ExpireAt)
        /\ ReplayEffects(s, c) = Apply(s, c)
    BY Zenon, <1>0, <1>3, <2>1, KeepAliveCommandIs, KeepAliveIs
  <2> QED  BY Zenon, <2>1, <2>2, ProlongsSound DEF Keeps
<1> QED  BY Zenon, <1>1, <1>2, <1>3 DEF Timed

-----------------------------------------------------------------------------
(* A step of the apply loop: numbered, journalled, applied.                *)

\* A command with a number is one of its kind.
LEMMA NumberIs ==
    ASSUME NEW c \in Numbers, NEW n \in Nat
    PROVE  /\ c.Type \in Revisioned
           /\ [c EXCEPT !.Revision = n].Revision = n
           /\ [c EXCEPT !.Revision = n].Type = c.Type
           /\ c \in SetCommand => [c EXCEPT !.Revision = n] \in SetCommand
           /\ c \in PrefixCommand => [c EXCEPT !.Revision = n] \in PrefixCommand
<1>1. c.Type \in Revisioned /\ [c EXCEPT !.Revision = n].Revision = n
      /\ [c EXCEPT !.Revision = n].Type = c.Type
  BY DEF Numbers, SetCommand, Revisioned, PutCommand, AttachCommand, CASCommand, DeleteCommand, PrefixCommand
<1>2. c \in PutCommand => [c EXCEPT !.Revision = n] \in PutCommand
  BY DEF PutCommand
<1>3. c \in AttachCommand => [c EXCEPT !.Revision = n] \in AttachCommand
  BY DEF AttachCommand
<1>4. c \in CASCommand => [c EXCEPT !.Revision = n] \in CASCommand
  BY DEF CASCommand
<1>5. c \in DeleteCommand => [c EXCEPT !.Revision = n] \in DeleteCommand
  BY DEF DeleteCommand
<1>6. c \in PrefixCommand => [c EXCEPT !.Revision = n] \in PrefixCommand
  BY DEF PrefixCommand
<1> QED  BY Zenon, <1>1, <1>2, <1>3, <1>4, <1>5, <1>6 DEF SetCommand

\* The live step b -> t and the step d -> u of the disk are those of c.
Steps(s, cmd, b, c, t, d, e, x, u) ==
    /\ b = Bumped(s, cmd) /\ c = Numbered(s, cmd) /\ t = Apply(b, c)
    /\ x = Decoded(c) /\ e = Redone(d, x) /\ u = Replay(d, x)

\* cmd takes the next revision, becomes c, and is replayed with that revision.
Journalled(s, cmd, b, c, t, d, e, u) ==
    /\ Counts(s, b, s.rev + 1) /\ Counts(d, e, Larger(d.rev, s.rev + 1))
    /\ t = Apply(b, c) /\ u = Settled(ReplayEffects(e, c))
    /\ c.Revision = s.rev + 1 /\ c.Revision \in Nat \ {0}
    /\ cmd \in SetCommand => c \in SetCommand
    /\ cmd \in PrefixCommand => c \in PrefixCommand

\* How a numbered command is journalled.
LEMMA NumbersStep ==
    ASSUME NEW s \in State, NEW cmd \in Numbers, NEW b, NEW c, NEW t, NEW d \in State, NEW e,
           NEW x, NEW u, Steps(s, cmd, b, c, t, d, e, x, u)
    PROVE  Journalled(s, cmd, b, c, t, d, e, u)
<1>1. s.rev + 1 \in Nat \ {0} /\ s.rev \in Nat /\ d.rev \in Nat
  BY StateFields
<1>2. cmd.Type \in Revisioned /\ b = [s EXCEPT !.rev = s.rev + 1] /\ c = [cmd EXCEPT !.Revision = s.rev + 1]
  <2>1. cmd.Type \in Revisioned
    BY Zenon, <1>1, NumberIs
  <2> QED  BY <2>1 DEF Steps, Bumped, Numbered
<1>3. c.Revision = s.rev + 1 /\ c.Type = cmd.Type
  BY Zenon, <1>1, <1>2, NumberIs
<1>4. Counts(s, b, s.rev + 1)
  BY Zenon, <1>1, <1>2, RevIs
<1>5. x = c
  <2>1. c.Type \in Revisioned
    BY Zenon, <1>2, <1>3
  <2> QED  BY <2>1 DEF Steps, Decoded, Revisioned
<1>6. e = [d EXCEPT !.rev = Larger(d.rev, s.rev + 1)]
  <2>1. c.Type \in Revisioned /\ c.Revision # 0
    BY Zenon, <1>1, <1>2, <1>3
  <2> QED  BY <1>3, <1>5, <2>1 DEF Steps, Redone
<1>7. Larger(d.rev, s.rev + 1) \in Nat
  BY <1>1 DEF Larger
<1>8. Counts(d, e, Larger(d.rev, s.rev + 1))
  BY Zenon, <1>6, <1>7, RevIs
<1>9. Renumbered(d, c) = c
  BY Zenon, <1>1, <1>3 DEF Renumbered
<1>10. u = Settled(ReplayEffects(e, c))
  BY <1>5, <1>9 DEF Steps, Replay, Settled
<1>11. t = Apply(b, c)
  BY Zenon DEF Steps
<1>12. /\ cmd \in SetCommand => c \in SetCommand
       /\ cmd \in PrefixCommand => c \in PrefixCommand
  BY Zenon, <1>1, <1>2, NumberIs
<1> QED  BY Zenon, <1>1, <1>3, <1>4, <1>8, <1>10, <1>11, <1>12 DEF Journalled

\* cmd is replayed as x, with its deadline rounded.
JournalledTime(s, cmd, t, d, x, u) ==
    /\ t = Apply(s, cmd) /\ u = Settled(ReplayEffects(d, x))
    /\ x.ExpireAt = Round(cmd.ExpireAt)
    /\ cmd \in GrantCommand /\ Round(cmd.ExpireAt) # 0 => x \in GrantCommand
    /\ cmd \in RevokeCommand => x \in RevokeCommand /\ x.LeaseID = cmd.LeaseID
    /\ cmd \in KeepAliveCommand /\ Round(cmd.ExpireAt) # 0 =>
          x \in KeepAliveCommand /\ x.LeaseID = cmd.LeaseID

\* How a command with a deadline is journalled.
LEMMA TimedStep ==
    ASSUME NEW s \in State, NEW cmd \in Timed, NEW b, NEW c, NEW t, NEW d \in State, NEW e,
           NEW x, NEW u, Steps(s, cmd, b, c, t, d, e, x, u)
    PROVE  JournalledTime(s, cmd, t, d, x, u)
<1>1. cmd.Type \in {"LeaseGrant", "LeaseRevoke", "LeaseKeepAlive"} /\ cmd.ExpireAt \in Nat
  BY DEF Timed, GrantCommand, RevokeCommand, KeepAliveCommand
<1>2. cmd.Type \notin Revisioned
  BY <1>1 DEF Revisioned
<1>3. b = s /\ c = cmd
  BY Zenon, <1>2 DEF Steps, Bumped, Numbered
<1>4. x = [cmd EXCEPT !.ExpireAt = Round(cmd.ExpireAt)]
  BY <1>1, <1>3 DEF Steps, Decoded
<1>5. Round(cmd.ExpireAt) \in Nat
  BY Zenon, <1>1, RoundIs
<1>6. x.Type = cmd.Type /\ x.ExpireAt = Round(cmd.ExpireAt)
  BY <1>4 DEF Timed, GrantCommand, RevokeCommand, KeepAliveCommand
<1>7. e = d /\ Renumbered(d, x) = x
  BY Zenon, <1>2, <1>6 DEF Steps, Redone, Renumbered
<1>8. t = Apply(s, cmd)
  BY Zenon, <1>3 DEF Steps
<1>9. u = Settled(ReplayEffects(d, x))
  BY <1>7 DEF Steps, Replay, Settled
<1>10. cmd \in GrantCommand /\ Round(cmd.ExpireAt) # 0 => x \in GrantCommand
  BY <1>4, <1>5 DEF GrantCommand
<1>11. cmd \in RevokeCommand => x \in RevokeCommand /\ x.LeaseID = cmd.LeaseID
  BY <1>4, <1>5 DEF RevokeCommand
<1>12. cmd \in KeepAliveCommand /\ Round(cmd.ExpireAt) # 0 =>
         x \in KeepAliveCommand /\ x.LeaseID = cmd.LeaseID
  BY <1>4, <1>5 DEF KeepAliveCommand
<1> QED  BY Zenon, <1>6, <1>8, <1>9, <1>10, <1>11, <1>12 DEF JournalledTime

\* A live state that stays, and a disk whose revision is settled.
Idle(s, t, d, u) == t = s /\ u = Settled(d)

\* How a read is journalled.
LEMMA ReadStep ==
    ASSUME NEW s \in State, NEW cmd \in ReadCommand, NEW b, NEW c, NEW t, NEW d \in State, NEW e,
           NEW x, NEW u, Steps(s, cmd, b, c, t, d, e, x, u)
    PROVE  Idle(s, t, d, u)
<1>1. cmd.Type \in {"Get", "GetPrefix"}
  BY Zenon, ReadIs
<1>2. cmd.Type \notin Revisioned /\ cmd.Type \notin {"LeaseGrant", "LeaseRevoke", "LeaseKeepAlive"}
  BY <1>1 DEF Revisioned
<1>3. b = s /\ c = cmd /\ x = c
  BY Zenon, <1>2 DEF Steps, Bumped, Numbered, Decoded
<1>4. e = d /\ Renumbered(d, x) = x
  BY Zenon, <1>2, <1>3 DEF Steps, Redone, Renumbered
<1>5. Apply(s, cmd) = s /\ ReplayEffects(d, cmd) = d
  BY Zenon, <1>2 DEF Apply, ReplayEffects, Revisioned
<1>6. u = Settled(d)
  BY <1>3, <1>4, <1>5 DEF Steps, Replay, Settled
<1> QED  BY Zenon, <1>3, <1>5, <1>6 DEF Steps, Idle

\* What clients, the cleanup loop and the WAL submit.
Fits(s, d, cmd) ==
    /\ cmd \in Numbers \cup Timed \cup ReadCommand
    /\ cmd \in GrantCommand => s.leaseID < MaxLeases /\ d.leaseID < MaxLeases
    /\ cmd \in GrantCommand \cup KeepAliveCommand => Round(cmd.ExpireAt) # 0

\* Whatever is applied, the live state and the disk stay sound, and a lease
\* that ends takes its keys along.
LEMMA StepSound ==
    ASSUME NEW s, Sound(s), NEW d, Sound(d), NEW cmd, Fits(s, d, cmd), NEW b, NEW c, NEW t, NEW e,
           NEW x, NEW u, Steps(s, cmd, b, c, t, d, e, x, u)
    PROVE  Sound(t) /\ EndsItsKeys(s, t) /\ Sound(u)
<1>0. s \in State /\ d \in State
  BY Zenon DEF Sound
<1>1. CASE cmd \in Numbers
  <2>a. Journalled(s, cmd, b, c, t, d, e, u)
    BY Zenon, <1>0, <1>1, NumbersStep
  <2>1. /\ Counts(s, b, s.rev + 1) /\ Counts(d, e, Larger(d.rev, s.rev + 1))
        /\ t = Apply(b, c) /\ u = Settled(ReplayEffects(e, c))
        /\ c.Revision # 0
        /\ cmd \in SetCommand => c \in SetCommand
        /\ cmd \in PrefixCommand => c \in PrefixCommand
    BY Zenon, <2>a DEF Journalled
  <2>2. Sound(b) /\ Sound(e)
    BY Zenon, <2>1, CountsSound
  <2>3. c \in SetCommand \/ c \in PrefixCommand
    BY Zenon, <1>1, <2>1 DEF Numbers
  <2>4. Keeps(b, Apply(b, c), ReplayEffects(b, c)) /\ Keeps(e, Apply(e, c), ReplayEffects(e, c))
    BY Zenon, <2>1, <2>2, <2>3, SetKeeps, PrefixKeeps
  <2>5. Sound(t) /\ EndsItsKeys(b, t) /\ Sound(ReplayEffects(e, c))
    BY Zenon, <2>1, <2>4 DEF Keeps
  <2>6. Sound(u)
    BY Zenon, <2>1, <2>5, SettledSound
  <2> QED  BY Zenon, <2>1, <2>5, <2>6, EndsAndCounts
<1>2. CASE cmd \in Timed
  <2>a. JournalledTime(s, cmd, t, d, x, u)
    BY Zenon, <1>0, <1>2, TimedStep
  <2>1. /\ t = Apply(s, cmd) /\ u = Settled(ReplayEffects(d, x))
        /\ cmd \in GrantCommand /\ Round(cmd.ExpireAt) # 0 => x \in GrantCommand
        /\ cmd \in RevokeCommand => x \in RevokeCommand
        /\ cmd \in KeepAliveCommand /\ Round(cmd.ExpireAt) # 0 => x \in KeepAliveCommand
    BY Zenon, <2>a DEF JournalledTime
  <2>2. Keeps(s, Apply(s, cmd), ReplayEffects(s, cmd))
    BY Zenon, <1>2, TimedKeep DEF Fits
  <2>3. x \in Timed /\ (x \in GrantCommand => cmd \in GrantCommand)
    <3>1. x \in GrantCommand => x \notin RevokeCommand /\ x \notin KeepAliveCommand
      BY DEF GrantCommand, RevokeCommand, KeepAliveCommand
    <3> QED  BY Zenon, <1>2, <2>1, <3>1 DEF Timed, Fits
  <2>4. Keeps(d, Apply(d, x), ReplayEffects(d, x))
    BY Zenon, <2>3, TimedKeep DEF Fits
  <2>5. Sound(u)
    BY Zenon, <2>1, <2>4, SettledSound DEF Keeps
  <2> QED  BY Zenon, <2>1, <2>2, <2>5 DEF Keeps
<1>3. CASE cmd \in ReadCommand
  <2>1. Idle(s, t, d, u)
    BY Zenon, <1>0, <1>3, ReadStep
  <2>2. Sound(Settled(d)) /\ EndsItsKeys(s, s)
    BY Zenon, SettledSound DEF EndsItsKeys
  <2> QED  BY Zenon, <2>1, <2>2 DEF Idle
<1> QED  BY Zenon, <1>1, <1>2, <1>3 DEF Fits

-----------------------------------------------------------------------------
(* What holds whatever the deadlines are and however often the server is   *)
(* shut down.                                                              *)

Base == TypeOK /\ Sound(st) /\ Sound(disk) /\ loop # "refused"

\* The empty state is sound.
LEMMA NewSound ==
    Sound(NewState)
<1>1. NewState \in State
  <2>1. << >> \in Seq(Version) /\ 0 \in 0..MaxLeases
    BY StoreConstants DEF StoreConstants
  <2> QED  BY <2>1 DEF NewState, State
<1>2. /\ \A k \in Key : NewState.data[k] = << >>
      /\ \A l \in LeaseId : NewState.Keys[l] = {} /\ NewState.expireAt[l] = 0
  BY DEF NewState
<1>3. Indexed(NewState) /\ Counted(NewState)
  BY Zenon, <1>2 DEF Indexed, Counted, Exists
<1>4. Bounded(NewState)
  <2> SUFFICES ASSUME NEW k \in Key, NEW i \in 1..Len(NewState.data[k])  PROVE FALSE
    BY Zenon DEF Bounded
  <2>1. NewState.data[k] = << >>
    BY Zenon, <1>2
  <2>2. Len(NewState.data[k]) = 0
    BY <2>1
  <2> QED  BY <2>2
<1> QED  BY Zenon, <1>1, <1>3, <1>4 DEF Sound

\* A snapshot of a sound state gives it back, with the larger of its revisions.
LEMMA RestoredIs ==
    ASSUME NEW s, Sound(s)
    PROVE  Counts(s, Restored(Saved(s)), Larger(s.rev, s.storeRev))
<1> DEFINE t == Restored(Saved(s))
           r == Larger(s.rev, s.storeRev)
<1>0. s \in State /\ Indexed(s) /\ s.rev \in Nat /\ s.storeRev \in Nat
  BY Zenon, StateFields DEF Sound
<1>1. r \in Nat /\ Larger(r, s.storeRev) = r
  BY <1>0 DEF Larger
<1>2. /\ t.data = s.data /\ t.key2Lease = s.key2Lease /\ t.storeRev = s.storeRev
      /\ t.rev = Larger(r, s.storeRev) /\ t.leaseID = s.leaseID
  BY Zenon DEF Restored, Saved, StoreSnapshot, LeaseSnapshot
<1>3. t.expireAt = [l \in LeaseId |-> IF Exists(s, l) THEN s.expireAt[l] ELSE 0]
  BY DEF Restored, Saved, LeaseSnapshot
<1>4. t.Keys = [l \in LeaseId |-> IF Exists(s, l) THEN s.Keys[l] ELSE {}]
  BY DEF Restored, Saved, LeaseSnapshot
<1>5. t.expireAt = s.expireAt
  <2>1. \A l \in LeaseId : ~Exists(s, l) => s.expireAt[l] = 0
    BY Zenon DEF Exists
  <2>2. s.expireAt \in [LeaseId -> Nat]
    BY Zenon, <1>0, StateFields
  <2> QED  BY <1>3, <2>1, <2>2
<1>6. t.Keys = s.Keys
  <2>1. \A l \in LeaseId : ~Exists(s, l) => s.Keys[l] = {}
    BY Zenon, <1>0 DEF Indexed
  <2>2. s.Keys \in [LeaseId -> SUBSET Key]
    BY Zenon, <1>0, StateFields
  <2> QED  BY Zenon, <1>4, <2>1, <2>2
<1>7. t = [data |-> t.data, key2Lease |-> t.key2Lease, storeRev |-> t.storeRev, rev |-> t.rev,
           leaseID |-> t.leaseID, expireAt |-> t.expireAt, Keys |-> t.Keys]
  BY Zenon DEF Restored
<1> HIDE DEF t, r
<1>8. t \in State
  BY <1>0, <1>1, <1>2, <1>5, <1>6, <1>7 DEF State
<1>9. Counts(s, t, r)
  BY Zenon, <1>1, <1>2, <1>5, <1>6, <1>8 DEF Counts, SameStore, SameLeases
<1> QED  BY Zenon, <1>9 DEF t, r

\* Restore accepts the snapshot of a sound state.
LEMMA Accepted ==
    ASSUME NEW s, Sound(s)
    PROVE  StoreAccepts(Saved(s).Store) /\ LeasesAccept(Saved(s).Leases)
<1>1. Saved(s).Store = StoreSnapshot(s) /\ Saved(s).Leases = LeaseSnapshot(s)
  BY DEF Saved
<1>2. StoreAccepts(StoreSnapshot(s))
  BY DEF StoreAccepts, StoreSnapshot, Sound, Bounded
<1>3. LeasesAccept(LeaseSnapshot(s))
  <2> DEFINE T == {i \in LeaseId : Exists(s, i)}
             f == [l \in T |-> [ExpireAt |-> s.expireAt[l], Keys |-> s.Keys[l]]]
  <2>1. LeaseSnapshot(s).Leases = f /\ LeaseSnapshot(s).LeaseID = s.leaseID /\ DOMAIN f = T
    BY DEF LeaseSnapshot
  <2>2. ASSUME NEW l \in T  PROVE f[l].ExpireAt > 0 /\ l <= s.leaseID
    <3>1. l \in LeaseId /\ Exists(s, l) /\ s.expireAt[l] # 0
      BY Zenon DEF Exists
    <3>2. l <= s.leaseID
      BY Zenon, <3>1 DEF Sound, Counted
    <3>3. s.expireAt[l] \in Nat
      BY <3>1, StateFields DEF Sound
    <3>4. f[l].ExpireAt = s.expireAt[l]
      OBVIOUS
    <3> QED  BY <3>1, <3>2, <3>3, <3>4
  <2> HIDE DEF f, T
  <2> QED  BY Zenon, <2>1, <2>2 DEF LeasesAccept
<1> QED  BY Zenon, <1>1, <1>2, <1>3

\* The apply loop keeps the state and the disk sound.
LEMMA CommitSound ==
    ASSUME Base, NEW cmd, Fits(st, disk, cmd), Commit(cmd)
    PROVE  /\ Sound(st') /\ Sound(disk') /\ EndsItsKeys(st, st')
           /\ loop' \in {"running", "stuck"} /\ hangs' \in BOOLEAN
<1>1. Steps(st, cmd, Bumped(st, cmd), Numbered(st, cmd), st', disk,
            Redone(disk, Decoded(Numbered(st, cmd))), Decoded(Numbered(st, cmd)), disk')
  BY Zenon DEF Commit, Steps
<1>2. Sound(st) /\ Sound(disk)
  BY Zenon DEF Base
<1>3. Sound(st') /\ Sound(disk') /\ EndsItsKeys(st, st')
  BY Zenon, <1>1, <1>2, StepSound
<1>4. loop' \in {"running", "stuck"} /\ hangs' \in BOOLEAN
  BY DEF Commit, Base, TypeOK
<1> QED  BY Zenon, <1>3, <1>4

\* The commands that the actions submit.
LEMMA FitsAll ==
    ASSUME Base
    PROVE  /\ \A k \in Key, v \in Value, l \in {0} \cup LeaseId :
                /\ Fits(st, disk, [Type |-> "Put", Key |-> k, Value |-> v, LeaseID |-> l,
                                   Revision |-> 0])
                /\ Fits(st, disk, [Type |-> "LeaseAttach", Key |-> k, Value |-> v, LeaseID |-> l,
                                   Revision |-> 0])
           /\ \A k \in Key, v \in Value, rev \in 0..MaxRev :
                Fits(st, disk, [Type |-> "CAS", Key |-> k, Value |-> v, ExpectedRev |-> rev,
                                Revision |-> 0])
           /\ \A k \in Key : /\ Fits(st, disk, [Type |-> "Delete", Key |-> k, Revision |-> 0])
                             /\ Fits(st, disk, [Type |-> "Get", Key |-> k])
           /\ \A p \in Prefix :
                /\ Fits(st, disk, [Type |-> "DeletePrefix", Prefix |-> p, Revision |-> 0])
                /\ Fits(st, disk, [Type |-> "GetPrefix", Prefix |-> p])
           /\ \A d \in unused :
                /\ st.leaseID < MaxLeases /\ disk.leaseID < MaxLeases =>
                     Fits(st, disk, [Type |-> "LeaseGrant", ExpireAt |-> d])
                /\ \A l \in {0} \cup LeaseId :
                     Fits(st, disk, [Type |-> "LeaseKeepAlive", LeaseID |-> l, ExpireAt |-> d])
           /\ \A l \in {0} \cup LeaseId :
                Fits(st, disk, [Type |-> "LeaseRevoke", LeaseID |-> l, ExpireAt |-> 0])
           /\ \A cmd \in expiries : Fits(st, disk, cmd)
<1>1. ASSUME NEW c, c.Type \notin {"LeaseGrant", "LeaseKeepAlive"}
      PROVE  c \notin GrantCommand /\ c \notin KeepAliveCommand
  BY <1>1 DEF GrantCommand, KeepAliveCommand
<1>2. ASSUME NEW c \in Numbers \cup RevokeCommand \cup ReadCommand
      PROVE  Fits(st, disk, c)
  <2>1. c.Type \notin {"LeaseGrant", "LeaseKeepAlive"}
    BY DEF Numbers, SetCommand, PutCommand, AttachCommand, CASCommand, DeleteCommand, PrefixCommand,
           RevokeCommand, ReadCommand
  <2> QED  BY Zenon, <1>1, <2>1 DEF Fits, Timed
<1>3. ASSUME NEW k \in Key, NEW v \in Value, NEW l \in {0} \cup LeaseId
      PROVE  /\ [Type |-> "Put", Key |-> k, Value |-> v, LeaseID |-> l, Revision |-> 0] \in PutCommand
             /\ [Type |-> "LeaseAttach", Key |-> k, Value |-> v, LeaseID |-> l,
                 Revision |-> 0] \in AttachCommand
  BY DEF PutCommand, AttachCommand
<1>4. ASSUME NEW k \in Key, NEW v \in Value, NEW rev \in 0..MaxRev
      PROVE  [Type |-> "CAS", Key |-> k, Value |-> v, ExpectedRev |-> rev, Revision |-> 0] \in CASCommand
  BY StateMachineConstants DEF CASCommand, StateMachineConstants
<1>5. ASSUME NEW k \in Key
      PROVE  /\ [Type |-> "Delete", Key |-> k, Revision |-> 0] \in DeleteCommand
             /\ [Type |-> "Get", Key |-> k] \in ReadCommand
  BY DEF DeleteCommand, ReadCommand
<1>6. ASSUME NEW p \in Prefix
      PROVE  /\ [Type |-> "DeletePrefix", Prefix |-> p, Revision |-> 0] \in PrefixCommand
             /\ [Type |-> "GetPrefix", Prefix |-> p] \in ReadCommand
  BY DEF PrefixCommand, ReadCommand
<1>7. ASSUME NEW l \in {0} \cup LeaseId
      PROVE  [Type |-> "LeaseRevoke", LeaseID |-> l, ExpireAt |-> 0] \in RevokeCommand
  BY DEF RevokeCommand
<1>8. \A cmd \in expiries : cmd \in RevokeCommand
  BY DEF Base, TypeOK, RevokeCommand
<1>9. \A d \in unused : d \in Nat \ {0} /\ Round(d) # 0
  <2>1. \A d \in unused : d \in Deadline
    BY Zenon DEF Base, TypeOK
  <2>2. \A d \in Deadline : d \in Nat \ {0} /\ Round(d) > 0
    BY Zenon, StateMachineConstants, DeadlinesApart DEF StateMachineConstants, DeadlinesApart
  <2>3. \A d \in Deadline : Round(d) # 0
    BY <2>2
  <2> QED  BY Zenon, <2>1, <2>2, <2>3
<1>10. ASSUME NEW d \in unused, st.leaseID < MaxLeases, disk.leaseID < MaxLeases
       PROVE  Fits(st, disk, [Type |-> "LeaseGrant", ExpireAt |-> d])
  <2> DEFINE c == [Type |-> "LeaseGrant", ExpireAt |-> d]
  <2>1. c \in GrantCommand /\ c.ExpireAt = d
    BY <1>9 DEF GrantCommand
  <2> HIDE DEF c
  <2>2. Fits(st, disk, c)
    BY Zenon, <1>9, <1>10, <2>1 DEF Fits, Timed
  <2> QED  BY Zenon, <2>2 DEF c
<1>11. ASSUME NEW d \in unused, NEW l \in {0} \cup LeaseId
       PROVE  Fits(st, disk, [Type |-> "LeaseKeepAlive", LeaseID |-> l, ExpireAt |-> d])
  <2> DEFINE c == [Type |-> "LeaseKeepAlive", LeaseID |-> l, ExpireAt |-> d]
  <2>1. c \in KeepAliveCommand /\ c.ExpireAt = d
    BY <1>9 DEF KeepAliveCommand
  <2>2. c \notin GrantCommand
    BY DEF GrantCommand
  <2> HIDE DEF c
  <2>3. Fits(st, disk, c)
    BY Zenon, <1>9, <2>1, <2>2 DEF Fits, Timed
  <2> QED  BY Zenon, <2>3 DEF c
<1>12. PutCommand \cup AttachCommand \cup CASCommand \cup DeleteCommand \cup PrefixCommand
         \cup ReadCommand \cup RevokeCommand \subseteq Numbers \cup RevokeCommand \cup ReadCommand
  BY Zenon DEF Numbers, SetCommand
<1>13. \A k \in Key, v \in Value, l \in {0} \cup LeaseId :
         /\ Fits(st, disk, [Type |-> "Put", Key |-> k, Value |-> v, LeaseID |-> l, Revision |-> 0])
         /\ Fits(st, disk, [Type |-> "LeaseAttach", Key |-> k, Value |-> v, LeaseID |-> l,
                            Revision |-> 0])
  BY Zenon, <1>2, <1>3, <1>12
<1>14. \A k \in Key, v \in Value, rev \in 0..MaxRev :
         Fits(st, disk, [Type |-> "CAS", Key |-> k, Value |-> v, ExpectedRev |-> rev, Revision |-> 0])
  BY Zenon, <1>2, <1>4, <1>12
<1>15. \A k \in Key : /\ Fits(st, disk, [Type |-> "Delete", Key |-> k, Revision |-> 0])
                      /\ Fits(st, disk, [Type |-> "Get", Key |-> k])
  BY Zenon, <1>2, <1>5, <1>12
<1>16. \A p \in Prefix : /\ Fits(st, disk, [Type |-> "DeletePrefix", Prefix |-> p, Revision |-> 0])
                         /\ Fits(st, disk, [Type |-> "GetPrefix", Prefix |-> p])
  BY Zenon, <1>2, <1>6, <1>12
<1>17. \A l \in {0} \cup LeaseId :
         Fits(st, disk, [Type |-> "LeaseRevoke", LeaseID |-> l, ExpireAt |-> 0])
  BY Zenon, <1>2, <1>7, <1>12
<1>18. \A cmd \in expiries : Fits(st, disk, cmd)
  BY Zenon, <1>2, <1>8, <1>12
<1> QED  BY Zenon, <1>10, <1>11, <1>13, <1>14, <1>15, <1>16, <1>17, <1>18

\* A command is submitted by a client or by the cleanup loop, and applied.
Submits(cmd) ==
    /\ Fits(st, disk, cmd) /\ Commit(cmd) /\ expiries' \subseteq expiries /\ unused' \subseteq unused
    /\ cmd \in GrantCommand \cup KeepAliveCommand =>
          cmd.ExpireAt \in unused /\ cmd.ExpireAt \notin unused'
    /\ cmd \in RevokeCommand => cmd.ExpireAt = 0 \/ cmd \in expiries

\* Requests without a deadline.
LEMMA PlainSubmits ==
    ASSUME NEW c, c.Type \notin {"LeaseGrant", "LeaseKeepAlive", "LeaseRevoke"},
           Fits(st, disk, c), Request(c)
    PROVE  Submits(c)
<1>1. c \notin GrantCommand /\ c \notin KeepAliveCommand /\ c \notin RevokeCommand
  BY DEF GrantCommand, KeepAliveCommand, RevokeCommand
<1> QED  BY Zenon, <1>1 DEF Submits, Request

\* Requests with one.
LEMMA TimedSubmits ==
    ASSUME NEW c, c.Type # "LeaseRevoke", c.ExpireAt \in unused,
           Fits(st, disk, c), TimedRequest(c)
    PROVE  Submits(c)
<1>1. c \notin RevokeCommand
  BY DEF RevokeCommand
<1> QED  BY Zenon, <1>1 DEF Submits, TimedRequest

\* A step of the system is that of a command, or one of six others.
LEMMA NextIs ==
    ASSUME Base, Next
    PROVE  \/ \E cmd : Submits(cmd)
           \/ \E l \in LeaseId : Cleanup(l)
           \/ \E k \in Key, v \in Value : WriteFails(k, v)
           \/ Refuse \/ Restart \/ Shutdown
<1>1. CASE \E k \in Key, v \in Value, l \in {0} \cup LeaseId : Put(k, v, l) \/ LeaseAttach(k, v, l)
  <2>1. PICK k \in Key, v \in Value, l \in {0} \cup LeaseId : Put(k, v, l) \/ LeaseAttach(k, v, l)
    BY Zenon, <1>1
  <2> DEFINE c(T) == [Type |-> T, Key |-> k, Value |-> v, LeaseID |-> l, Revision |-> 0]
  <2>2. c("Put").Type = "Put" /\ c("LeaseAttach").Type = "LeaseAttach"
    OBVIOUS
  <2>3. Fits(st, disk, c("Put")) /\ Fits(st, disk, c("LeaseAttach"))
    BY Zenon, FitsAll
  <2>4. Request(c("Put")) \/ Request(c("LeaseAttach"))
    BY Zenon, <2>1 DEF Put, LeaseAttach
  <2> HIDE DEF c
  <2>5. /\ c("Put").Type \notin {"LeaseGrant", "LeaseKeepAlive", "LeaseRevoke"}
        /\ c("LeaseAttach").Type \notin {"LeaseGrant", "LeaseKeepAlive", "LeaseRevoke"}
    BY <2>2
  <2> QED  BY Zenon, <2>3, <2>4, <2>5, PlainSubmits
<1>2. CASE \E k \in Key, v \in Value, rev \in 0..MaxRev : CAS(k, v, rev)
  <2>1. PICK k \in Key, v \in Value, rev \in 0..MaxRev : CAS(k, v, rev)
    BY Zenon, <1>2
  <2> DEFINE c == [Type |-> "CAS", Key |-> k, Value |-> v, ExpectedRev |-> rev, Revision |-> 0]
  <2>2. c.Type \notin {"LeaseGrant", "LeaseKeepAlive", "LeaseRevoke"}
    OBVIOUS
  <2>3. Fits(st, disk, c)
    BY Zenon, FitsAll
  <2>4. Request(c)
    BY Zenon, <2>1 DEF CAS
  <2> HIDE DEF c
  <2> QED  BY Zenon, <2>2, <2>3, <2>4, PlainSubmits
<1>3. CASE \E k \in Key : Delete(k) \/ Get(k)
  <2>1. PICK k \in Key : Delete(k) \/ Get(k)
    BY Zenon, <1>3
  <2> DEFINE c == [Type |-> "Delete", Key |-> k, Revision |-> 0]
             g == [Type |-> "Get", Key |-> k]
  <2>2. /\ c.Type \notin {"LeaseGrant", "LeaseKeepAlive", "LeaseRevoke"}
        /\ g.Type \notin {"LeaseGrant", "LeaseKeepAlive", "LeaseRevoke"}
    OBVIOUS
  <2>3. Fits(st, disk, c) /\ Fits(st, disk, g)
    BY Zenon, FitsAll
  <2>4. Request(c) \/ Request(g)
    BY Zenon, <2>1 DEF Delete, Get
  <2> HIDE DEF c, g
  <2> QED  BY Zenon, <2>2, <2>3, <2>4, PlainSubmits
<1>4. CASE \E p \in Prefix : DeletePrefix(p) \/ GetPrefix(p)
  <2>1. PICK p \in Prefix : DeletePrefix(p) \/ GetPrefix(p)
    BY Zenon, <1>4
  <2> DEFINE c == [Type |-> "DeletePrefix", Prefix |-> p, Revision |-> 0]
             g == [Type |-> "GetPrefix", Prefix |-> p]
  <2>2. /\ c.Type \notin {"LeaseGrant", "LeaseKeepAlive", "LeaseRevoke"}
        /\ g.Type \notin {"LeaseGrant", "LeaseKeepAlive", "LeaseRevoke"}
    OBVIOUS
  <2>3. Fits(st, disk, c) /\ Fits(st, disk, g)
    BY Zenon, FitsAll
  <2>4. Request(c) \/ Request(g)
    BY Zenon, <2>1 DEF DeletePrefix, GetPrefix
  <2> HIDE DEF c, g
  <2> QED  BY Zenon, <2>2, <2>3, <2>4, PlainSubmits
<1>5. CASE \E d \in unused : LeaseGrant(d)
  <2>1. PICK d \in unused : LeaseGrant(d)
    BY Zenon, <1>5
  <2> DEFINE c == [Type |-> "LeaseGrant", ExpireAt |-> d]
  <2>2. c.Type # "LeaseRevoke" /\ c.ExpireAt = d
    OBVIOUS
  <2>3. TimedRequest(c) /\ st.leaseID < MaxLeases /\ disk.leaseID < MaxLeases
    BY Zenon, <2>1 DEF LeaseGrant
  <2>4. Fits(st, disk, c)
    BY Zenon, <2>3, FitsAll
  <2> HIDE DEF c
  <2> QED  BY Zenon, <2>2, <2>3, <2>4, TimedSubmits
<1>6. CASE \E l \in {0} \cup LeaseId, d \in unused : LeaseKeepAlive(l, d)
  <2>1. PICK l \in {0} \cup LeaseId, d \in unused : LeaseKeepAlive(l, d)
    BY Zenon, <1>6
  <2> DEFINE c == [Type |-> "LeaseKeepAlive", LeaseID |-> l, ExpireAt |-> d]
  <2>2. c.Type # "LeaseRevoke" /\ c.ExpireAt = d
    OBVIOUS
  <2>3. TimedRequest(c)
    BY Zenon, <2>1 DEF LeaseKeepAlive
  <2>4. Fits(st, disk, c)
    BY Zenon, FitsAll
  <2> HIDE DEF c
  <2> QED  BY Zenon, <2>2, <2>3, <2>4, TimedSubmits
<1>7. CASE \E l \in {0} \cup LeaseId : LeaseRevoke(l)
  <2>1. PICK l \in {0} \cup LeaseId : LeaseRevoke(l)
    BY Zenon, <1>7
  <2> DEFINE c == [Type |-> "LeaseRevoke", LeaseID |-> l, ExpireAt |-> 0]
  <2>2. c.Type = "LeaseRevoke" /\ c.ExpireAt = 0
    OBVIOUS
  <2>3. Request(c)
    BY Zenon, <2>1 DEF LeaseRevoke
  <2>4. Fits(st, disk, c)
    BY Zenon, FitsAll
  <2> HIDE DEF c
  <2>5. c \notin GrantCommand /\ c \notin KeepAliveCommand
    BY <2>2 DEF GrantCommand, KeepAliveCommand
  <2>6. Submits(c)
    BY Zenon, <2>2, <2>3, <2>4, <2>5 DEF Submits, Request
  <2> QED  BY Zenon, <2>6
<1>8. CASE \E cmd \in expiries : Expire(cmd)
  <2>1. PICK cmd \in expiries : Expire(cmd)
    BY Zenon, <1>8
  <2>2. cmd.Type = "LeaseRevoke"
    BY DEF Base, TypeOK
  <2>3. cmd \notin GrantCommand /\ cmd \notin KeepAliveCommand
    BY <2>2 DEF GrantCommand, KeepAliveCommand
  <2>4. Fits(st, disk, cmd)
    BY Zenon, FitsAll
  <2>5. Submits(cmd)
    BY Zenon, <2>1, <2>3, <2>4 DEF Submits, Expire
  <2> QED  BY Zenon, <2>5
<1> QED  BY Zenon, <1>1, <1>2, <1>3, <1>4, <1>5, <1>6, <1>7, <1>8 DEF Next

\* The empty state satisfies Base.
LEMMA BaseInit ==
    Init => Base
<1> SUFFICES ASSUME Init  PROVE Base
  OBVIOUS
<1>1. st = NewState /\ disk = NewState /\ loop = "running" /\ hangs = FALSE /\ expiries = {}
      /\ unused = Deadline
  BY Zenon DEF Init
<1>2. Sound(st) /\ Sound(disk)
  BY Zenon, <1>1, NewSound
<1>3. loop \in {"running", "failed", "stuck", "down", "refused"} /\ loop # "refused"
  BY <1>1
<1>4. /\ hangs \in BOOLEAN /\ unused \subseteq Deadline
      /\ expiries \subseteq [Type : {"LeaseRevoke"}, LeaseID : LeaseId, ExpireAt : Nat]
  BY Zenon, <1>1
<1> QED  BY Zenon, <1>2, <1>3, <1>4 DEF Base, TypeOK, Sound

\* Every step keeps Base.
LEMMA BaseStep ==
    Base /\ [Next]_vars => Base'
<1> SUFFICES ASSUME Base, [Next]_vars  PROVE Base'
  OBVIOUS
<1>0. /\ Sound(st) /\ Sound(disk) /\ st \in State /\ disk \in State
      /\ loop \in {"running", "failed", "stuck", "down", "refused"} /\ loop # "refused"
      /\ hangs \in BOOLEAN /\ unused \subseteq Deadline
      /\ expiries \subseteq [Type : {"LeaseRevoke"}, LeaseID : LeaseId, ExpireAt : Nat]
  BY Zenon DEF Base, TypeOK
<1> DEFINE Kept(s, d, l, h, e, u) ==
             /\ Sound(s) /\ Sound(d)
             /\ l \in {"running", "failed", "stuck", "down", "refused"} /\ l # "refused"
             /\ h \in BOOLEAN /\ u \subseteq Deadline
             /\ e \subseteq [Type : {"LeaseRevoke"}, LeaseID : LeaseId, ExpireAt : Nat]
<1>1. SUFFICES Kept(st', disk', loop', hangs', expiries', unused')
  BY Zenon DEF Base, TypeOK, Sound, Indexed, Counted, Bounded
<1>2. CASE \E cmd : Submits(cmd)
  <2>1. PICK cmd : Submits(cmd)
    BY Zenon, <1>2
  <2>2. Fits(st, disk, cmd) /\ Commit(cmd) /\ expiries' \subseteq expiries /\ unused' \subseteq unused
    BY Zenon, <2>1 DEF Submits
  <2>3. Sound(st') /\ Sound(disk') /\ loop' \in {"running", "stuck"} /\ hangs' \in BOOLEAN
    BY Zenon, <2>2, CommitSound
  <2>4. loop' \in {"running", "failed", "stuck", "down", "refused"} /\ loop' # "refused"
    BY <2>3
  <2> QED  BY Zenon, <1>0, <2>2, <2>3, <2>4
<1>3. CASE \E l \in LeaseId : Cleanup(l)
  <2>1. PICK l \in LeaseId : Cleanup(l)
    BY Zenon, <1>3
  <2>2. st.expireAt[l] \in Nat
    BY <1>0, StateFields
  <2>3. [Type |-> "LeaseRevoke", LeaseID |-> l, ExpireAt |-> st.expireAt[l]]
          \in [Type : {"LeaseRevoke"}, LeaseID : LeaseId, ExpireAt : Nat]
    BY <2>2
  <2>4. /\ expiries' = expiries \cup {[Type |-> "LeaseRevoke", LeaseID |-> l,
                                       ExpireAt |-> st.expireAt[l]]}
        /\ st' = st /\ disk' = disk /\ loop' = loop /\ hangs' = hangs /\ unused' = unused
    BY Zenon, <2>1 DEF Cleanup
  <2>5. expiries' \subseteq [Type : {"LeaseRevoke"}, LeaseID : LeaseId, ExpireAt : Nat]
    BY Zenon, <1>0, <2>3, <2>4
  <2> QED  BY Zenon, <1>0, <2>4, <2>5
<1>4. CASE \E k \in Key, v \in Value : WriteFails(k, v)
  <2>1. PICK k \in Key, v \in Value : WriteFails(k, v)
    BY Zenon, <1>4
  <2> DEFINE cmd == [Type |-> "Put", Key |-> k, Value |-> v, LeaseID |-> 0, Revision |-> 0]
             u == Replay(disk, Decoded(Numbered(st, cmd)))
  <2>2. /\ st' = Bumped(st, cmd) /\ disk' \in {disk, u} /\ loop' = "failed"
        /\ hangs' = hangs /\ expiries' = expiries /\ unused' = unused
    BY Zenon, <2>1 DEF WriteFails
  <2>3. Fits(st, disk, cmd) /\ cmd \in Numbers
    <3>1. cmd \in PutCommand /\ 0 \in {0} \cup LeaseId
      BY DEF PutCommand
    <3>2. Fits(st, disk, cmd)
      BY Zenon, <3>1, FitsAll
    <3> QED  BY Zenon, <3>1, <3>2 DEF Numbers, SetCommand
  <2> HIDE DEF cmd
  <2>4. Steps(st, cmd, Bumped(st, cmd), Numbered(st, cmd), Apply(Bumped(st, cmd), Numbered(st, cmd)),
              disk, Redone(disk, Decoded(Numbered(st, cmd))), Decoded(Numbered(st, cmd)), u)
    BY Zenon DEF Steps
  <2> HIDE DEF u
  <2>5. Sound(u)
    BY Zenon, <1>0, <2>3, <2>4, StepSound
  <2>6. Counts(st, Bumped(st, cmd), st.rev + 1)
    BY Zenon, <1>0, <2>3, <2>4, NumbersStep DEF Journalled
  <2>7. Sound(Bumped(st, cmd))
    BY Zenon, <1>0, <2>6, CountsSound
  <2>8. loop' \in {"running", "failed", "stuck", "down", "refused"} /\ loop' # "refused"
    BY <2>2
  <2> QED  BY Zenon, <1>0, <2>2, <2>5, <2>7, <2>8
<1>5. CASE Refuse
  <2>1. /\ st' = [st EXCEPT !.rev = st.rev + 1] /\ disk' = disk /\ loop' = loop
        /\ hangs' = hangs /\ expiries' = expiries /\ unused' = unused
    BY <1>5 DEF Refuse
  <2>2. st.rev + 1 \in Nat
    BY <1>0, StateFields
  <2>3. Counts(st, st', st.rev + 1)
    BY Zenon, <1>0, <2>1, <2>2, RevIs
  <2>4. Sound(st')
    BY Zenon, <1>0, <2>3, CountsSound
  <2> QED  BY Zenon, <1>0, <2>1, <2>4
<1>6. CASE Restart
  <2>1. /\ st' = disk /\ loop' = "running" /\ expiries' = Returned
        /\ disk' = disk /\ hangs' = hangs /\ unused' = unused
    BY Zenon, <1>6 DEF Restart
  <2>2. ASSUME NEW cmd \in expiries
        PROVE  Decoded(cmd) \in [Type : {"LeaseRevoke"}, LeaseID : LeaseId, ExpireAt : Nat]
    <3>1. cmd \in [Type : {"LeaseRevoke"}, LeaseID : LeaseId, ExpireAt : Nat]
      BY Zenon, <1>0
    <3>2. Round(cmd.ExpireAt) \in Nat
      BY <3>1, RoundIs
    <3> QED  BY <3>1, <3>2 DEF Decoded
  <2>3. expiries' \subseteq [Type : {"LeaseRevoke"}, LeaseID : LeaseId, ExpireAt : Nat]
    BY Zenon, <2>1, <2>2 DEF Returned
  <2>4. loop' \in {"running", "failed", "stuck", "down", "refused"} /\ loop' # "refused"
    BY <2>1
  <2> QED  BY Zenon, <1>0, <2>1, <2>3, <2>4
<1>7. CASE Shutdown
  <2>1. /\ disk' = Restored(Saved(st)) /\ st' = st /\ expiries' = expiries /\ unused' = unused
        /\ hangs' = FALSE /\ loop' = "down"
    BY Zenon, <1>0, <1>7, Accepted DEF Shutdown
  <2>2. Sound(disk')
    BY Zenon, <1>0, <2>1, RestoredIs, CountsSound
  <2>3. loop' \in {"running", "failed", "stuck", "down", "refused"} /\ loop' # "refused"
    BY <2>1
  <2> QED  BY Zenon, <1>0, <2>1, <2>2, <2>3
<1>8. CASE UNCHANGED vars
  BY Zenon, <1>0, <1>8 DEF vars
<1> QED  BY Zenon, <1>2, <1>3, <1>4, <1>5, <1>6, <1>7, <1>8, NextIs

\* Base, which the theorems below are read off.
LEMMA BaseAlways ==
    Spec => []Base
<1>1. Init => Base
  BY BaseInit
<1>2. Base /\ [Next]_vars => Base'
  BY BaseStep
<1> QED  BY <1>1, <1>2, PTL DEF Spec

\* The store, the lease table and what the disk replays to are always well
\* formed, for any deadlines, shutdowns and crashes.
THEOREM Typed ==
    Spec => []TypeOK
<1>1. Base => TypeOK
  BY Zenon DEF Base
<1> QED  BY <1>1, BaseAlways, PTL

\* applyLoop and applyRecoveredCommand keep the two indexes between keys and
\* leases in step.
THEOREM IndexSound ==
    Spec => []LeaseIndexSound
<1>1. Base => LeaseIndexSound
  BY Zenon DEF Base, Sound, Indexed, LeaseIndexSound
<1> QED  BY <1>1, BaseAlways, PTL

\* The snapshot that a shutdown saves is accepted by the next start.
THEOREM SnapshotsAccepted ==
    Spec => []SnapshotAccepted
<1>1. Base => SnapshotAccepted
  BY Zenon DEF Base, SnapshotAccepted
<1> QED  BY <1>1, BaseAlways, PTL

-----------------------------------------------------------------------------
(* Leases end with their keys, however deadlines are rounded: a restart    *)
(* ends none.                                                              *)

\* x is a deadline that some Submit has computed, rounded or not; n are those
\* that are still to come.
Used(x, n) == \E d \in Deadline \ n : x = d \/ x = Round(d)

\* The revocations of the cleanup loop.
Expiry == [Type : {"LeaseRevoke"}, LeaseID : LeaseId, ExpireAt : Nat]

\* A deadline that was computed is a number, and stays one when it is rounded.
LEMMA UsedIs ==
    ASSUME NEW n, NEW x, Used(x, n)
    PROVE  /\ x \in Nat /\ x # 0 /\ Round(x) # 0 /\ Used(Round(x), n)
           /\ \E d \in Deadline \ n : Round(x) = Round(d)
<1>1. PICK d \in Deadline \ n : x = d \/ x = Round(d)
  BY Zenon DEF Used
<1>2. d \in Nat \ {0} /\ Round(d) > 0
  BY Zenon, StateMachineConstants, DeadlinesApart DEF StateMachineConstants, DeadlinesApart
<1>3. Round(d) \in Nat /\ Round(Round(d)) = Round(d)
  BY Zenon, <1>2, RoundIs
<1>4. Round(d) # 0
  BY <1>2, <1>3
<1>5. Round(x) = Round(d)
  BY Zenon, <1>1, <1>3
<1> QED  BY Zenon, <1>1, <1>2, <1>3, <1>4, <1>5 DEF Used

\* The deadlines a and b of the lease l in memory and on the disk: a lease in
\* memory is on the disk, and a pending revocation that ends the one on the
\* disk, or would after a shutdown, ends the one in memory.
Outlasts(a, b, l, e, n) ==
    /\ a # 0 => b # 0 /\ Used(a, n)
    /\ b # 0 => Used(b, n)
    /\ \A cmd \in e :
        cmd.LeaseID = l /\ a # 0 /\ (Round(cmd.ExpireAt) = a \/ Round(cmd.ExpireAt) = b) =>
            cmd.ExpireAt = a

Outlives(s, d, e, n) ==
    /\ d.leaseID = s.leaseID
    /\ \A cmd \in e : Used(cmd.ExpireAt, n)
    /\ \A l \in LeaseId : Outlasts(s.expireAt[l], d.expireAt[l], l, e, n)

\* Fewer revocations are pending, more deadlines have been computed, or the
\* lease has ended in memory or on both sides.
LEMMA OutlastsKept ==
    ASSUME NEW a, NEW b, NEW l, NEW e, NEW n, Outlasts(a, b, l, e, n),
           NEW f \in SUBSET e, NEW m \in SUBSET n
    PROVE  Outlasts(a, b, l, f, m) /\ Outlasts(0, b, l, f, m) /\ Outlasts(0, 0, l, f, m)
<1>1. \A y : Used(y, n) => Used(y, m)
  BY Zenon DEF Used
<1> QED  BY Zenon, <1>1 DEF Outlasts

\* A new deadline is that of no pending revocation.
LEMMA OutlastsNew ==
    ASSUME NEW e, NEW n \in SUBSET Deadline, \A cmd \in e : Used(cmd.ExpireAt, n),
           NEW f \in SUBSET e, NEW m \in SUBSET n, NEW x \in n, x \notin m, NEW l
    PROVE  Outlasts(x, Round(x), l, f, m) /\ Outlasts(0, Round(x), l, f, m)
<1>1. x \in Deadline \ m
  BY Zenon
<1>2. Used(x, m)
  BY Zenon, <1>1 DEF Used
<1>3. x \in Nat /\ Round(x) # 0 /\ Used(Round(x), m)
  BY Zenon, <1>2, UsedIs
<1>4. ASSUME NEW cmd \in f  PROVE Round(cmd.ExpireAt) # Round(x) /\ Round(cmd.ExpireAt) # x
  <2>1. PICK d \in Deadline \ n : Round(cmd.ExpireAt) = Round(d)
    BY Zenon, UsedIs
  <2>2. Round(d) # Round(x)
    BY Zenon, DeadlinesApart DEF DeadlinesApart
  <2>3. d \in Nat
    BY Zenon, StateMachineConstants DEF StateMachineConstants
  <2>4. Round(Round(d)) = Round(d)
    BY Zenon, <2>3, RoundIs
  <2> QED  BY Zenon, <2>1, <2>2, <2>4
<1> QED  BY Zenon, <1>2, <1>3, <1>4 DEF Outlasts

\* What commands do to the leases of a state: nothing, a new one, a new
\* deadline, an end.
Stays(s, t) == t.leaseID = s.leaseID /\ \A i \in LeaseId : t.expireAt[i] = s.expireAt[i]

Opens(s, t, x) ==
    /\ t.leaseID = s.leaseID + 1
    /\ \A i \in LeaseId : t.expireAt[i] = IF i = s.leaseID + 1 THEN x ELSE s.expireAt[i]

Renews(s, t, l, x) ==
    /\ t.leaseID = s.leaseID
    /\ \A i \in LeaseId : t.expireAt[i] = IF i = l /\ s.expireAt[i] # 0 THEN x ELSE s.expireAt[i]

Ends(s, t, l, x) ==
    /\ t.leaseID = s.leaseID
    /\ \A i \in LeaseId :
        t.expireAt[i] = IF i = l /\ (x = 0 \/ s.expireAt[i] = x) THEN 0 ELSE s.expireAt[i]

Dates(s, t, c) ==
    /\ c \in GrantCommand => Opens(s, t, c.ExpireAt)
    /\ c \in KeepAliveCommand => Renews(s, t, c.LeaseID, c.ExpireAt)
    /\ c \in RevokeCommand => Ends(s, t, c.LeaseID, c.ExpireAt)

\* A command that sets or deletes keys leaves the leases as they are.
LEMMA NumbersStay ==
    ASSUME NEW s, Sound(s), NEW c \in Numbers, c.Revision # 0
    PROVE  Stays(s, Apply(s, c)) /\ Stays(s, Settled(ReplayEffects(s, c)))
<1>1. ASSUME NEW t, Sound(t)  PROVE Stays(t, Settled(t)) /\ \A u : Stays(u, t) => Stays(u, Settled(t))
  <2>1. Counts(t, Settled(t), Larger(t.rev, t.storeRev))
    BY Zenon, <1>1, SettledSound
  <2> QED  BY Zenon, <2>1 DEF Counts, SameLeases, Stays
<1>2. CASE c \in SetCommand
  <2>1. Keeps(s, Apply(s, c), ReplayEffects(s, c))
    BY Zenon, <1>2, SetKeeps
  <2>2. ASSUME NoneSet(s, c)  PROVE Stays(s, Apply(s, c)) /\ Stays(s, ReplayEffects(s, c))
    BY Zenon, <2>2 DEF NoneSet, Stays
  <2>3. ASSUME NEW k, NEW v, NEW l, NEW b, BothSet(s, c, k, v, l, b)
        PROVE  Stays(s, Apply(s, c)) /\ Stays(s, ReplayEffects(s, c))
    BY Zenon, <2>3 DEF BothSet, Sets, Stays
  <2>4. Stays(s, Apply(s, c)) /\ Stays(s, ReplayEffects(s, c))
    BY Zenon, <1>2, <2>2, <2>3, PutSetsBoth, AttachSetsBoth, CASSetsBoth, DeleteSetsBoth DEF SetCommand
  <2> QED  BY Zenon, <1>1, <2>1, <2>4 DEF Keeps
<1>3. CASE c \in PrefixCommand
  <2> DEFINE u == ReplayDeletePrefix(s, c.Prefix)
  <2>1. Apply(s, c) = Settled(u) /\ ReplayEffects(s, c) = u /\ c.Prefix \in Prefix
    BY Zenon, <1>3, PrefixIs, PrefixSettles
  <2>2. Clears(s, u, PrefixKeys(s, c.Prefix), s.storeRev, {}, s.rev)
    BY Zenon, <2>1, PrefixClears
  <2>3. Keeps(s, Apply(s, c), ReplayEffects(s, c))
    BY Zenon, <1>3, PrefixKeeps
  <2> HIDE DEF u
  <2>4. Stays(s, u) /\ Sound(u)
    BY Zenon, <2>1, <2>2, <2>3 DEF Clears, Stays, Keeps
  <2> QED  BY Zenon, <1>1, <2>1, <2>4
<1> QED  BY Zenon, <1>2, <1>3 DEF Numbers

\* What a lease command does to the leases of a state.
LEMMA TimedDates ==
    ASSUME NEW s, Sound(s), NEW c \in Timed, c \in GrantCommand => s.leaseID < MaxLeases
    PROVE  Dates(s, Apply(s, c), c) /\ Dates(s, Settled(ReplayEffects(s, c)), c)
<1> DEFINE w == ReplayEffects(s, c)
<1>0. s \in State /\ Keeps(s, Apply(s, c), w)
  BY Zenon, TimedKeep DEF Sound
<1>a. /\ c \in GrantCommand => c \notin KeepAliveCommand /\ c \notin RevokeCommand
      /\ c \in KeepAliveCommand => c \notin RevokeCommand
  BY DEF GrantCommand, KeepAliveCommand, RevokeCommand
<1>b. ASSUME Dates(s, w, c)  PROVE Dates(s, Settled(w), c)
  <2>1. Counts(w, Settled(w), Larger(w.rev, w.storeRev))
    BY Zenon, <1>0, SettledSound DEF Keeps
  <2>2. Settled(w).leaseID = w.leaseID /\ Settled(w).expireAt = w.expireAt
    BY Zenon, <2>1 DEF Counts, SameLeases
  <2> QED  BY Zenon, <1>b, <2>2 DEF Dates, Opens, Renews, Ends
<1>1. CASE c \in GrantCommand
  <2>1. c.ExpireAt \in Nat /\ Apply(s, c) = w /\ w = GrantUntil(s, c.ExpireAt)
    BY Zenon, <1>1, GrantCommandIs
  <2>2. Grants(s, w, s.leaseID + 1, c.ExpireAt)
    BY Zenon, <1>0, <1>1, <2>1, GrantIs
  <2>3. Opens(s, w, c.ExpireAt)
    BY Zenon, <2>2 DEF Grants, Opens
  <2>4. Dates(s, w, c)
    BY Zenon, <1>1, <1>a, <2>3 DEF Dates
  <2> QED  BY Zenon, <1>b, <2>1, <2>4
<1>2. CASE c \in KeepAliveCommand
  <2>1. /\ c.LeaseID \in {0} \cup LeaseId /\ c.ExpireAt \in Nat
        /\ Apply(s, c) = w /\ w = KeepAliveUntil(s, c.LeaseID, c.ExpireAt)
    BY Zenon, <1>2, KeepAliveCommandIs
  <2>2. Prolongs(s, w, c.LeaseID, c.ExpireAt)
    BY Zenon, <1>0, <2>1, KeepAliveIs
  <2>3. Renews(s, w, c.LeaseID, c.ExpireAt)
    BY Zenon, <2>2 DEF Prolongs, Renews, Exists
  <2>4. Dates(s, w, c)
    BY Zenon, <1>2, <1>a, <2>3 DEF Dates
  <2> QED  BY Zenon, <1>b, <2>1, <2>4
<1>3. CASE c \in RevokeCommand
  <2> DEFINE l == c.LeaseID
             x == c.ExpireAt
             u == ReplayRevoke(s, l, x)
  <2>1. /\ l \in {0} \cup LeaseId /\ x \in Nat /\ w = u /\ Apply(s, c) = ApplyRevoke(s, l, x)
    BY Zenon, <1>3, RevokeCommandIs
  <2>2. Clears(s, u, RevokedKeys(s, l, x), s.rev, Gone(s, l, x), s.rev + Cardinality(RevokedKeys(s, l, x)))
    BY Zenon, <2>1, RevokeClears
  <2>3. Ends(s, u, l, x)
    <3>1. /\ u.leaseID = s.leaseID
          /\ \A i \in LeaseId : u.expireAt[i] = IF i \in Gone(s, l, x) THEN 0 ELSE s.expireAt[i]
      BY Zenon, <2>2 DEF Clears
    <3>2. ASSUME NEW i \in LeaseId
          PROVE  u.expireAt[i] = IF i = l /\ (x = 0 \/ s.expireAt[i] = x) THEN 0 ELSE s.expireAt[i]
      <4>1. i \in Gone(s, l, x) <=> i = l /\ s.expireAt[i] # 0 /\ (x = 0 \/ s.expireAt[i] = x)
        BY Zenon DEF Gone, Revokes, Exists
      <4> QED  BY Zenon, <3>1, <4>1
    <3> QED  BY Zenon, <3>1, <3>2 DEF Ends
  <2>4. Ends(s, Apply(s, c), l, x)
    <3>1. CASE l = 0
      <4>1. ~(0 > 0) /\ 0 \notin LeaseId
        BY DEF LeaseId
      <4>2. Apply(s, c) = s
        BY Zenon, <2>1, <3>1, <4>1 DEF ApplyRevoke
      <4> QED  BY Zenon, <3>1, <4>1, <4>2 DEF Ends
    <3>2. CASE l \in LeaseId
      <4>1. l > 0
        BY <3>2 DEF LeaseId
      <4>2. Apply(s, c) = u
        BY Zenon, <2>1, <4>1 DEF ApplyRevoke, ReplayRevoke
      <4> QED  BY Zenon, <2>3, <4>2
    <3> QED  BY Zenon, <2>1, <3>1, <3>2
  <2>5. Dates(s, w, c) /\ Dates(s, Apply(s, c), c)
    BY Zenon, <1>3, <1>a, <2>1, <2>3, <2>4 DEF Dates
  <2> QED  BY Zenon, <1>b, <2>5
<1> QED  BY Zenon, <1>1, <1>2, <1>3 DEF Timed

\* What a step of the apply loop does to the leases in memory and on the
\* disk, where deadlines are rounded.
DatesBoth(s, t, d, u, cmd) ==
    \/ Stays(s, t) /\ Stays(d, u)
    \/ /\ cmd \in GrantCommand
       /\ Opens(s, t, cmd.ExpireAt) /\ Opens(d, u, Round(cmd.ExpireAt))
    \/ /\ cmd \in KeepAliveCommand
       /\ Renews(s, t, cmd.LeaseID, cmd.ExpireAt) /\ Renews(d, u, cmd.LeaseID, Round(cmd.ExpireAt))
    \/ /\ cmd \in RevokeCommand
       /\ Ends(s, t, cmd.LeaseID, cmd.ExpireAt) /\ Ends(d, u, cmd.LeaseID, Round(cmd.ExpireAt))

\* The apply loop, on both sides.
LEMMA StepDates ==
    ASSUME NEW s, Sound(s), NEW d, Sound(d), NEW cmd, Fits(s, d, cmd), NEW b, NEW c, NEW t, NEW e,
           NEW x, NEW u, Steps(s, cmd, b, c, t, d, e, x, u)
    PROVE  DatesBoth(s, t, d, u, cmd) /\ (cmd \in Numbers => Stays(s, t) /\ Stays(d, u))
<1>0. s \in State /\ d \in State
  BY Zenon DEF Sound
<1>1. CASE cmd \in Numbers
  <2>a. Journalled(s, cmd, b, c, t, d, e, u)
    BY Zenon, <1>0, <1>1, NumbersStep
  <2>1. /\ Counts(s, b, s.rev + 1) /\ Counts(d, e, Larger(d.rev, s.rev + 1))
        /\ t = Apply(b, c) /\ u = Settled(ReplayEffects(e, c))
        /\ c.Revision # 0 /\ c \in Numbers
    BY Zenon, <1>1, <2>a DEF Journalled, Numbers
  <2>2. Sound(b) /\ Sound(e)
    BY Zenon, <2>1, CountsSound
  <2>3. Stays(b, t) /\ Stays(e, u)
    BY Zenon, <2>1, <2>2, NumbersStay
  <2>4. b.leaseID = s.leaseID /\ b.expireAt = s.expireAt /\ e.leaseID = d.leaseID /\ e.expireAt = d.expireAt
    BY Zenon, <2>1 DEF Counts, SameLeases
  <2>5. Stays(s, t) /\ Stays(d, u)
    BY Zenon, <2>3, <2>4 DEF Stays
  <2> QED  BY Zenon, <2>5 DEF DatesBoth
<1>2. CASE cmd \in Timed
  <2>a. JournalledTime(s, cmd, t, d, x, u)
    BY Zenon, <1>0, <1>2, TimedStep
  <2>1. /\ t = Apply(s, cmd) /\ u = Settled(ReplayEffects(d, x)) /\ x.ExpireAt = Round(cmd.ExpireAt)
        /\ cmd \in GrantCommand => x \in GrantCommand /\ d.leaseID < MaxLeases
        /\ cmd \in RevokeCommand => x \in RevokeCommand /\ x.LeaseID = cmd.LeaseID
        /\ cmd \in KeepAliveCommand => x \in KeepAliveCommand /\ x.LeaseID = cmd.LeaseID
    BY Zenon, <2>a DEF JournalledTime, Fits
  <2>2. Dates(s, t, cmd)
    BY Zenon, <1>2, <2>1, TimedDates DEF Fits
  <2>3. x \in Timed /\ (x \in GrantCommand => d.leaseID < MaxLeases)
    <3>1. x \in Timed
      BY Zenon, <1>2, <2>1 DEF Timed
    <3>2. cmd \in RevokeCommand \/ cmd \in KeepAliveCommand => x \notin GrantCommand
      BY <2>1 DEF GrantCommand, RevokeCommand, KeepAliveCommand
    <3> QED  BY Zenon, <1>2, <2>1, <3>1, <3>2 DEF Timed
  <2>4. Dates(d, u, x)
    BY Zenon, <2>1, <2>3, TimedDates
  <2>5. DatesBoth(s, t, d, u, cmd)
    BY Zenon, <1>2, <2>1, <2>2, <2>4 DEF Timed, Dates, DatesBoth
  <2>6. cmd \notin Numbers
    BY <1>2 DEF Timed, GrantCommand, RevokeCommand, KeepAliveCommand, Numbers, SetCommand, PutCommand,
                AttachCommand, CASCommand, DeleteCommand, PrefixCommand
  <2> QED  BY Zenon, <2>5, <2>6
<1>3. CASE cmd \in ReadCommand
  <2>1. t = s /\ u = Settled(d)
    BY Zenon, <1>0, <1>3, ReadStep DEF Idle
  <2>2. Counts(d, u, Larger(d.rev, d.storeRev))
    BY Zenon, <2>1, SettledSound
  <2>3. Stays(s, t) /\ Stays(d, u)
    BY Zenon, <2>1, <2>2 DEF Stays, Counts, SameLeases
  <2> QED  BY Zenon, <2>3 DEF DatesBoth
<1> QED  BY Zenon, <1>1, <1>2, <1>3 DEF Fits

\* A step of the apply loop keeps the leases of the disk alive.
LEMMA DatesOutlive ==
    ASSUME NEW s, NEW d, NEW e, NEW n \in SUBSET Deadline, Outlives(s, d, e, n),
           NEW t, NEW u, NEW f \in SUBSET e, NEW m \in SUBSET n, NEW cmd, DatesBoth(s, t, d, u, cmd),
           cmd \in GrantCommand \cup KeepAliveCommand => cmd.ExpireAt \in n /\ cmd.ExpireAt \notin m,
           cmd \in RevokeCommand => cmd.ExpireAt = 0 \/ cmd \in e
    PROVE  Outlives(t, u, f, m)
<1>1. /\ d.leaseID = s.leaseID
      /\ \A c \in e : Used(c.ExpireAt, n)
      /\ \A l \in LeaseId : Outlasts(s.expireAt[l], d.expireAt[l], l, e, n)
  BY Zenon DEF Outlives
<1>2. \A c \in f : Used(c.ExpireAt, m)
  BY Zenon, <1>1 DEF Used
<1>3. ASSUME NEW l \in LeaseId
      PROVE  /\ Outlasts(s.expireAt[l], d.expireAt[l], l, f, m)
             /\ Outlasts(0, d.expireAt[l], l, f, m)
             /\ Outlasts(0, 0, l, f, m)
  <2>1. Outlasts(s.expireAt[l], d.expireAt[l], l, e, n)
    BY Zenon, <1>1
  <2> QED  BY Zenon, <2>1, OutlastsKept
<1> DEFINE x == cmd.ExpireAt
<1>4. ASSUME cmd \in GrantCommand \cup KeepAliveCommand, NEW l \in LeaseId
      PROVE  Outlasts(x, Round(x), l, f, m) /\ Outlasts(0, Round(x), l, f, m)
  BY Zenon, <1>1, <1>4, OutlastsNew
<1>5. CASE Stays(s, t) /\ Stays(d, u)
  BY Zenon, <1>1, <1>2, <1>3, <1>5 DEF Stays, Outlives
<1>6. CASE cmd \in GrantCommand /\ Opens(s, t, x) /\ Opens(d, u, Round(x))
  <2>1. u.leaseID = t.leaseID
    BY Zenon, <1>1, <1>6 DEF Opens
  <2>2. ASSUME NEW l \in LeaseId  PROVE Outlasts(t.expireAt[l], u.expireAt[l], l, f, m)
    <3>1. CASE l = s.leaseID + 1
      <4>1. t.expireAt[l] = x /\ u.expireAt[l] = Round(x)
        BY Zenon, <1>1, <1>6, <3>1 DEF Opens
      <4>2. Outlasts(x, Round(x), l, f, m)
        BY Zenon, <1>4, <1>6
      <4> QED  BY Zenon, <4>1, <4>2
    <3>2. CASE l # s.leaseID + 1
      <4>1. t.expireAt[l] = s.expireAt[l] /\ u.expireAt[l] = d.expireAt[l]
        BY Zenon, <1>1, <1>6, <3>2 DEF Opens
      <4> QED  BY Zenon, <1>3, <4>1
    <3> QED  BY Zenon, <3>1, <3>2
  <2> QED  BY Zenon, <1>2, <2>1, <2>2 DEF Outlives
<1>7. CASE cmd \in KeepAliveCommand /\ Renews(s, t, cmd.LeaseID, x) /\ Renews(d, u, cmd.LeaseID, Round(x))
  <2>1. u.leaseID = t.leaseID
    BY Zenon, <1>1, <1>7 DEF Renews
  <2>2. ASSUME NEW l \in LeaseId  PROVE Outlasts(t.expireAt[l], u.expireAt[l], l, f, m)
    <3>0. /\ Outlasts(x, Round(x), l, f, m) /\ Outlasts(0, Round(x), l, f, m)
          /\ s.expireAt[l] # 0 => d.expireAt[l] # 0
      BY Zenon, <1>1, <1>4, <1>7 DEF Outlasts
    <3>1. CASE l = cmd.LeaseID /\ d.expireAt[l] # 0
      <4>1. t.expireAt[l] \in {0, x} /\ u.expireAt[l] = Round(x)
        BY Zenon, <1>7, <3>1 DEF Renews
      <4> QED  BY Zenon, <3>0, <4>1
    <3>2. CASE ~(l = cmd.LeaseID /\ d.expireAt[l] # 0)
      <4>1. t.expireAt[l] = s.expireAt[l] /\ u.expireAt[l] = d.expireAt[l]
        BY Zenon, <1>7, <3>0, <3>2 DEF Renews
      <4> QED  BY Zenon, <1>3, <4>1
    <3> QED  BY Zenon, <3>1, <3>2
  <2> QED  BY Zenon, <1>2, <2>1, <2>2 DEF Outlives
<1>8. CASE cmd \in RevokeCommand /\ Ends(s, t, cmd.LeaseID, x) /\ Ends(d, u, cmd.LeaseID, Round(x))
  <2>1. u.leaseID = t.leaseID
    BY Zenon, <1>1, <1>8 DEF Ends
  <2>2. ASSUME NEW l \in LeaseId  PROVE Outlasts(t.expireAt[l], u.expireAt[l], l, f, m)
    <3>1. /\ t.expireAt[l] \in {0, s.expireAt[l]}
          /\ u.expireAt[l] \in {0, d.expireAt[l]}
      BY Zenon, <1>8 DEF Ends
    <3>2. ASSUME u.expireAt[l] # d.expireAt[l]  PROVE t.expireAt[l] = 0
      <4>1. u.expireAt[l] = 0 /\ d.expireAt[l] # 0
        BY Zenon, <3>1, <3>2
      <4>2. l = cmd.LeaseID /\ (Round(x) = 0 \/ d.expireAt[l] = Round(x))
        BY Zenon, <1>8, <3>2 DEF Ends
      <4>3. CASE x = 0
        BY Zenon, <1>8, <4>2, <4>3 DEF Ends
      <4>4. CASE x # 0
        <5>1. cmd \in e
          BY Zenon, <1>8, <4>4
        <5>2. Round(x) # 0
          BY Zenon, <1>1, <5>1, UsedIs
        <5>3. s.expireAt[l] # 0 => x = s.expireAt[l]
          BY Zenon, <1>1, <4>2, <5>1, <5>2 DEF Outlasts
        <5> QED  BY Zenon, <1>8, <3>1, <4>2, <5>3 DEF Ends
      <4> QED  BY Zenon, <4>3, <4>4
    <3> QED  BY Zenon, <1>3, <3>1, <3>2
  <2> QED  BY Zenon, <1>2, <2>1, <2>2 DEF Outlives
<1> QED  BY Zenon, <1>5, <1>6, <1>7, <1>8 DEF DatesBoth

\* The inductive invariant of the leases.
Leased == Base /\ Outlives(st, disk, expiries, unused)

\* What a step keeps of it, and that it ends no lease without its keys.
Leads(s, t, d, e, n) == Outlives(t, d, e, n) /\ EndsItsKeys(s, t)

\* A command that is applied.
LEMMA SubmitLeads ==
    ASSUME Leased, NEW cmd, Submits(cmd)
    PROVE  Leads(st, st', disk', expiries', unused')
<1>1. /\ Base /\ Outlives(st, disk, expiries, unused) /\ Sound(st) /\ Sound(disk)
      /\ unused \in SUBSET Deadline
  BY Zenon DEF Leased, Base, TypeOK
<1>2. /\ Fits(st, disk, cmd) /\ Commit(cmd)
      /\ expiries' \in SUBSET expiries /\ unused' \in SUBSET unused
      /\ cmd \in GrantCommand \cup KeepAliveCommand =>
           cmd.ExpireAt \in unused /\ cmd.ExpireAt \notin unused'
      /\ cmd \in RevokeCommand => cmd.ExpireAt = 0 \/ cmd \in expiries
  BY Zenon DEF Submits
<1>3. Steps(st, cmd, Bumped(st, cmd), Numbered(st, cmd), st', disk,
            Redone(disk, Decoded(Numbered(st, cmd))), Decoded(Numbered(st, cmd)), disk')
  BY Zenon, <1>2 DEF Commit, Steps
<1>4. DatesBoth(st, st', disk, disk', cmd)
  BY Zenon, <1>1, <1>2, <1>3, StepDates
<1>5. Outlives(st', disk', expiries', unused')
  BY Zenon, <1>1, <1>2, <1>4, DatesOutlive
<1>6. EndsItsKeys(st, st')
  BY Zenon, <1>1, <1>2, CommitSound
<1> QED  BY Zenon, <1>5, <1>6 DEF Leads

\* Leases that stay as they are, in memory and on the disk.
LEMMA StaysLeads ==
    ASSUME Leased, NEW t, NEW d, Stays(st, t), Stays(disk, d)
    PROVE  Outlives(t, d, expiries, unused)
BY Zenon DEF Leased, Outlives, Stays

\* The cleanup loop.
LEMMA CleanupLeads ==
    ASSUME Leased, NEW l \in LeaseId, Cleanup(l)
    PROVE  Leads(st, st', disk', expiries', unused')
<1> DEFINE cmd == [Type |-> "LeaseRevoke", LeaseID |-> l, ExpireAt |-> st.expireAt[l]]
<1>1. /\ Exists(st, l) /\ expiries' = expiries \cup {cmd}
      /\ st' = st /\ disk' = disk /\ unused' = unused
  BY Zenon DEF Cleanup
<1>2. cmd.LeaseID = l /\ cmd.ExpireAt = st.expireAt[l]
  OBVIOUS
<1> HIDE DEF cmd
<1>3. /\ disk.leaseID = st.leaseID
      /\ \A c \in expiries : Used(c.ExpireAt, unused)
      /\ \A i \in LeaseId : Outlasts(st.expireAt[i], disk.expireAt[i], i, expiries, unused)
  BY Zenon DEF Leased, Outlives
<1>4. Used(cmd.ExpireAt, unused)
  BY Zenon, <1>1, <1>2, <1>3 DEF Exists, Outlasts
<1>5. ASSUME NEW i \in LeaseId
      PROVE  Outlasts(st.expireAt[i], disk.expireAt[i], i, expiries \cup {cmd}, unused)
  BY Zenon, <1>2, <1>3 DEF Outlasts
<1>6. Outlives(st, disk, expiries \cup {cmd}, unused)
  BY Zenon, <1>3, <1>4, <1>5 DEF Outlives
<1> QED  BY Zenon, <1>1, <1>6 DEF Leads, EndsItsKeys

\* A write that fails.
LEMMA WriteFailsLeads ==
    ASSUME Leased, NEW k \in Key, NEW v \in Value, WriteFails(k, v)
    PROVE  Leads(st, st', disk', expiries', unused')
<1> DEFINE cmd == [Type |-> "Put", Key |-> k, Value |-> v, LeaseID |-> 0, Revision |-> 0]
           b == Bumped(st, cmd)
           u == Replay(disk, Decoded(Numbered(st, cmd)))
<1>1. Base /\ Sound(st) /\ Sound(disk) /\ st \in State /\ disk \in State
  BY Zenon DEF Leased, Base, TypeOK
<1>2. st' = b /\ disk' \in {disk, u} /\ expiries' = expiries /\ unused' = unused
  BY Zenon DEF WriteFails
<1>3. Fits(st, disk, cmd) /\ cmd \in Numbers
  <2>1. cmd \in PutCommand /\ 0 \in {0} \cup LeaseId
    BY DEF PutCommand
  <2>2. Fits(st, disk, cmd)
    BY Zenon, <1>1, <2>1, FitsAll
  <2> QED  BY Zenon, <2>1, <2>2 DEF Numbers, SetCommand
<1> HIDE DEF cmd
<1>4. Steps(st, cmd, b, Numbered(st, cmd), Apply(b, Numbered(st, cmd)), disk,
            Redone(disk, Decoded(Numbered(st, cmd))), Decoded(Numbered(st, cmd)), u)
  BY Zenon DEF Steps
<1> HIDE DEF b, u
<1>5. Stays(disk, u)
  BY Zenon, <1>1, <1>3, <1>4, StepDates
<1>6. Counts(st, b, st.rev + 1)
  BY Zenon, <1>1, <1>3, <1>4, NumbersStep DEF Journalled
<1>7. Stays(st, b) /\ EndsItsKeys(st, b) /\ Stays(disk, disk)
  BY Zenon, <1>1, <1>6, CountsSound DEF Counts, SameLeases, Stays
<1>8. Outlives(b, disk, expiries, unused) /\ Outlives(b, u, expiries, unused)
  BY Zenon, <1>5, <1>7, StaysLeads
<1> QED  BY Zenon, <1>2, <1>7, <1>8 DEF Leads

\* A command after a failed write.
LEMMA RefuseLeads ==
    ASSUME Leased, Refuse
    PROVE  Leads(st, st', disk', expiries', unused')
<1>1. Sound(st) /\ st \in State
  BY Zenon DEF Leased, Base, TypeOK
<1>2. /\ st' = [st EXCEPT !.rev = st.rev + 1] /\ disk' = disk
      /\ expiries' = expiries /\ unused' = unused
  BY DEF Refuse
<1>3. st.rev + 1 \in Nat
  BY <1>1, StateFields
<1>4. Counts(st, st', st.rev + 1)
  BY Zenon, <1>1, <1>2, <1>3, RevIs
<1>5. Stays(st, st') /\ EndsItsKeys(st, st') /\ Stays(disk, disk)
  BY Zenon, <1>1, <1>4, CountsSound DEF Counts, SameLeases, Stays
<1>6. Outlives(st', disk, expiries, unused)
  BY Zenon, <1>5, StaysLeads
<1> QED  BY Zenon, <1>2, <1>5, <1>6 DEF Leads

\* A restart: the leases of the disk are those in memory, and more.
LEMMA RestartLeads ==
    ASSUME Leased, Restart
    PROVE  Leads(st, st', disk', expiries', unused')
<1>1. expiries \in SUBSET Expiry
  BY Zenon DEF Leased, Base, TypeOK, Expiry
<1>2. st' = disk /\ disk' = disk /\ expiries' = Returned /\ unused' = unused
  BY Zenon DEF Restart
<1>3. /\ \A c \in expiries : Used(c.ExpireAt, unused)
      /\ \A i \in LeaseId : Outlasts(st.expireAt[i], disk.expireAt[i], i, expiries, unused)
  BY Zenon DEF Leased, Outlives
<1>4. ASSUME NEW c \in Returned
      PROVE  Used(c.ExpireAt, unused) /\ Round(c.ExpireAt) = c.ExpireAt
  <2>1. PICK cmd \in expiries : c = Decoded(cmd)
    BY Zenon DEF Returned
  <2>2. cmd.Type = "LeaseRevoke" /\ cmd.ExpireAt \in Nat /\ cmd \in Expiry
    BY <1>1 DEF Expiry
  <2>3. c.ExpireAt = Round(cmd.ExpireAt)
    BY <2>1, <2>2 DEF Decoded, Expiry
  <2>4. Used(Round(cmd.ExpireAt), unused)
    BY Zenon, <1>3, UsedIs
  <2>5. Round(Round(cmd.ExpireAt)) = Round(cmd.ExpireAt)
    BY Zenon, <2>2, RoundIs
  <2> QED  BY Zenon, <2>3, <2>4, <2>5
<1>5. ASSUME NEW i \in LeaseId
      PROVE  Outlasts(disk.expireAt[i], disk.expireAt[i], i, Returned, unused)
  BY Zenon, <1>3, <1>4 DEF Outlasts
<1>6. Outlives(disk, disk, Returned, unused)
  BY Zenon, <1>4, <1>5 DEF Outlives
<1>7. \A l \in LeaseId : Exists(st, l) => Exists(disk, l)
  BY Zenon, <1>3 DEF Exists, Outlasts
<1> QED  BY Zenon, <1>2, <1>6, <1>7 DEF Leads, EndsItsKeys

\* A shutdown: here deadlines reach the disk as they are.
LEMMA ShutdownLeads ==
    ASSUME Leased, Shutdown
    PROVE  Leads(st, st', disk', expiries', unused')
<1>1. Sound(st)
  BY Zenon DEF Leased, Base
<1>2. disk' = Restored(Saved(st)) /\ st' = st /\ expiries' = expiries /\ unused' = unused
  BY Zenon DEF Shutdown
<1>3. Counts(st, disk', Larger(st.rev, st.storeRev))
  BY Zenon, <1>1, <1>2, RestoredIs
<1>4. disk'.leaseID = st.leaseID /\ disk'.expireAt = st.expireAt
  BY Zenon, <1>3 DEF Counts, SameLeases
<1>5. /\ \A c \in expiries : Used(c.ExpireAt, unused)
      /\ \A i \in LeaseId : Outlasts(st.expireAt[i], disk.expireAt[i], i, expiries, unused)
  BY Zenon DEF Leased, Outlives
<1>6. \A i \in LeaseId : Outlasts(st.expireAt[i], st.expireAt[i], i, expiries, unused)
  BY Zenon, <1>5 DEF Outlasts
<1>7. Outlives(st, disk', expiries, unused)
  BY Zenon, <1>4, <1>5, <1>6 DEF Outlives
<1> QED  BY Zenon, <1>2, <1>7 DEF Leads, EndsItsKeys

\* Every step.
LEMMA LeasedLeads ==
    ASSUME Leased, [Next]_vars
    PROVE  Leads(st, st', disk', expiries', unused')
<1>1. CASE UNCHANGED vars
  BY Zenon, <1>1 DEF vars, Leads, Leased, EndsItsKeys
<1>2. CASE Next
  BY Zenon, <1>2, NextIs, SubmitLeads, CleanupLeads, WriteFailsLeads, RefuseLeads, RestartLeads,
     ShutdownLeads DEF Leased
<1> QED  BY Zenon, <1>1, <1>2

\* Leased, which the theorem below is read off.
LEMMA LeasedAlways ==
    Spec => []Leased
<1>1. Init => Leased
  <2> SUFFICES ASSUME Init  PROVE Leased
    OBVIOUS
  <2>1. st = NewState /\ disk = NewState /\ expiries = {} /\ Base
    BY Zenon, BaseInit DEF Init
  <2>2. \A l \in LeaseId : NewState.expireAt[l] = 0
    BY DEF NewState
  <2> QED  BY Zenon, <2>1, <2>2 DEF Leased, Outlives, Outlasts
<1>2. Leased /\ [Next]_vars => Leased'
  <2> SUFFICES ASSUME Leased, [Next]_vars  PROVE Leased'
    OBVIOUS
  <2>1. Base'
    BY Zenon, BaseStep DEF Leased
  <2>2. Outlives(st', disk', expiries', unused')
    BY Zenon, LeasedLeads DEF Leads
  <2> QED  BY Zenon, <2>1, <2>2 DEF Leased, Outlives, Outlasts, Used
<1> QED  BY <1>1, <1>2, PTL DEF Spec

\* A lease that ends, revoked by a client or by cleanupExpiredLeases, takes
\* its keys along and no others; a crash or a shutdown ends none, whatever
\* the rounding of deadlines makes of late revocations.
THEOREM LeasesEndTheirKeys ==
    Spec => LeaseEndsItsKeys
<1>1. ASSUME Leased, [Next]_vars
      PROVE  \A l \in LeaseId : Exists(st, l) /\ ~Exists(st', l) =>
                \A k \in Key : Live(st, k) => (Live(st', k) <=> k \notin st.Keys[l])
  BY Zenon, <1>1, LeasedLeads DEF Leads, EndsItsKeys
<1> QED  BY <1>1, LeasedAlways, PTL DEF Spec, LeaseEndsItsKeys

=============================================================================
