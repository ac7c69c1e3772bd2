--------------------------- MODULE JournalProofs ---------------------------
(***************************************************************************)
(* What a restart recovers, for any number of commands, inodes, crashes    *)
(* and outages, with and without snapshots and torn writes.                *)
(*                                                                         *)
(* The invariant says of every snapshot and every WAL that a restart may   *)
(* find, the names in the page cache and the names on the disk in all      *)
(* combinations, that together they hold each answered command, synced,    *)
(* and none twice.                                                         *)
(***************************************************************************)
EXTENDS Journal, TLAPS

Holds(s, c) == \E i \in 1..Len(s) : s[i] = c

Increasing(s) == \A i \in 1..Len(s) : \A j \in 1..(i - 1) : s[j] < s[i]

Below(s, n) == \A i \in 1..Len(s) : s[i] <= n

\* The last newline of the first m pieces is behind piece n.
NewlineAt(f, m, n) == (n = 0 \/ f[n].ended) /\ \A i \in (n + 1)..m : ~f[i].ended

\* A file whose commands were issued in the order of the file, n so far.
FileSound(f, n) ==
    /\ Len(f) <= n
    /\ \A p \in 1..Len(f) : f[p].cmd <= n /\ \A o \in 1..(p - 1) : f[o].cmd < f[p].cmd
    /\ \A m \in 0..Len(f) : \E k \in 0..m : NewlineAt(f, m, k)

Files == \A i \in Inode : FileSound(files[i], issued)

\* Where the replay of file w on top of snapshot sn begins.
From(sn, w) == IF sn.walID = w THEN sn.walOffset ELSE 0

\* Snapshot sn and file f behind offset o are in order and hold all commands of
\* done, those of the file in the k pieces that are synced.  n were issued.
Recoverable(sn, f, k, o, n, done) ==
    /\ Increasing(sn.state) /\ Below(sn.state, n)
    /\ \A p \in 1..Len(f) : p > o => \A j \in 1..Len(sn.state) : sn.state[j] < f[p].cmd
    /\ \A a \in 1..Len(done) :
        Holds(sn.state, done[a]) \/ \E p \in 1..k : p > o /\ f[p].ended /\ f[p].cmd = done[a]

Disk ==
    \A sn \in {snap, snapOnDisk}, w \in {wal, walOnDisk} :
        Recoverable(sn, files[w], synced[w], From(sn, w), issued, acked)

\* The directory lags behind by one rename at most, and a checkpoint replaces the
\* WAL only under a snapshot that has all answered commands.
Names ==
    /\ pc \notin {"down", "renamed"} => snapOnDisk = snap
    /\ pc \notin {"down", "replaced"} => walOnDisk = wal
    /\ pc # "down" => open = walOnDisk
    /\ pc \in {"renamed", "saved", "replaced"} =>
        \A a \in 1..Len(acked) : Holds(snap.state, acked[a])

\* The process has all answered commands, and appends behind the snapshot.
Process ==
    /\ Durability /\ AppliedOnce /\ Below(applied, issued)
    /\ pc = "running" => From(snap, wal) <= Len(files[wal])
    /\ pc = "written" =>
        /\ From(snap, wal) < Len(files[wal])
        /\ files[wal][Len(files[wal])] = [cmd |-> issued, ended |-> TRUE]
        /\ \A i \in 1..Len(applied) : applied[i] < issued

JournalInv == TypeOK /\ Files /\ Disk /\ Names /\ Process
-----------------------------------------------------------------------------
(* Files.                                                                  *)

\* The fields of a piece.
LEMMA PieceType ==
    ASSUME NEW f \in Seq(Piece), NEW p \in 1..Len(f)
    PROVE  f[p].cmd \in Nat /\ f[p].cmd \in 1..MaxCommands /\ f[p].ended \in BOOLEAN
<1>1. f[p] \in Piece
  OBVIOUS
<1>2. f[p].cmd \in 1..MaxCommands /\ f[p].ended \in BOOLEAN
  BY Zenon, <1>1 DEF Piece
<1> QED  BY <1>2

\* A new file.
LEMMA EmptyFile ==
    ASSUME NEW n \in Nat
    PROVE  FileSound(<< >>, n)
BY DEF FileSound, NewlineAt

\* Commands that no file has yet.
LEMMA MoreIssued ==
    ASSUME NEW f \in Seq(Piece), NEW n \in 0..MaxCommands, FileSound(f, n)
    PROVE  FileSound(f, n + 1)
<1>1. MaxCommands \in Nat
  BY Zenon, JournalConstants DEF JournalConstants
<1>2. \A p \in 1..Len(f) : f[p].cmd \in Nat
  BY Zenon, PieceType
<1>3. Len(f) \in Nat
  OBVIOUS
<1> QED  BY <1>1, <1>2, <1>3 DEF FileSound

\* A write that adds the next command, with its newline or without it.
LEMMA AppendedFile ==
    ASSUME NEW f \in Seq(Piece), NEW n \in 0..MaxCommands, FileSound(f, n), n < MaxCommands,
           NEW b \in BOOLEAN
    PROVE  LET g == Append(f, [cmd |-> n + 1, ended |-> b])
           IN  /\ g \in Seq(Piece) /\ FileSound(g, n + 1) /\ Len(g) = Len(f) + 1
               /\ g[Len(g)] = [cmd |-> n + 1, ended |-> b]
               /\ \A p \in 1..Len(f) : g[p] = f[p]
<1> DEFINE piece == [cmd |-> n + 1, ended |-> b]
           g == Append(f, piece)
<1>0. MaxCommands \in Nat /\ n \in Nat /\ Len(f) \in Nat
  BY JournalConstants DEF JournalConstants
<1>1. piece \in Piece /\ piece.cmd = n + 1 /\ piece.ended = b
  BY <1>0 DEF Piece
<1> HIDE DEF piece
<1>2. g \in Seq(Piece) /\ Len(g) = Len(f) + 1 /\ g[Len(g)] = piece /\ \A p \in 1..Len(f) : g[p] = f[p]
  BY <1>1
<1> HIDE DEF g
<1>3. Len(g) <= n + 1
  BY <1>0, <1>2 DEF FileSound
<1>4. ASSUME NEW p \in 1..Len(g)
      PROVE  g[p].cmd <= n + 1 /\ \A o \in 1..(p - 1) : g[o].cmd < g[p].cmd
  <2>1. \A o \in 1..Len(f) : f[o].cmd \in Nat /\ f[o].cmd <= n
    BY Zenon, PieceType DEF FileSound
  <2>2. CASE p = Len(g)
    <3>1. g[p].cmd = n + 1
      BY Zenon, <1>1, <1>2, <2>2
    <3>2. \A o \in 1..(p - 1) : o \in 1..Len(f) /\ g[o] = f[o]
      BY <1>0, <1>2, <2>2
    <3> QED  BY <1>0, <2>1, <3>1, <3>2
  <2>3. CASE p # Len(g)
    <3>1. p \in 1..Len(f) /\ \A o \in 1..(p - 1) : o \in 1..Len(f)
      BY <1>0, <1>2, <2>3
    <3>2. g[p] = f[p] /\ \A o \in 1..(p - 1) : g[o] = f[o]
      BY Zenon, <1>2, <3>1
    <3>3. \A o \in 1..(p - 1) : f[o].cmd < f[p].cmd
      BY Zenon, <3>1 DEF FileSound
    <3>4. g[p].cmd <= n + 1
      BY <1>0, <2>1, <3>1, <3>2
    <3> QED  BY Zenon, <3>2, <3>3, <3>4
  <2> QED  BY Zenon, <2>2, <2>3
<1>5. ASSUME NEW m \in 0..Len(g)
      PROVE  \E k \in 0..m : NewlineAt(g, m, k)
  <2>1. CASE m = Len(g) /\ b
    <3>1. m \in 0..m /\ \A i \in (m + 1)..m : FALSE
      BY <1>0, <1>2
    <3>2. g[m].ended
      BY Zenon, <1>1, <1>2, <2>1
    <3> QED  BY Zenon, <3>1, <3>2 DEF NewlineAt
  <2>2. CASE m = Len(g) /\ ~b
    <3>1. Len(f) \in 0..Len(f)
      BY <1>0
    <3>2. PICK k \in 0..Len(f) : NewlineAt(f, Len(f), k)
      BY Zenon, <3>1 DEF FileSound
    <3>3. k \in 0..m /\ (k = 0 \/ g[k].ended)
      <4>1. k = 0 \/ f[k].ended
        BY Zenon, <3>2 DEF NewlineAt
      <4>2. k # 0 => k \in 1..Len(f)
        BY <1>0
      <4>3. k \in 0..m
        BY <1>0, <1>2, <2>2
      <4> QED  BY Zenon, <1>2, <4>1, <4>2, <4>3
    <3>4. ASSUME NEW i \in (k + 1)..m  PROVE ~g[i].ended
      <4>1. CASE i = m
        BY Zenon, <1>1, <1>2, <2>2, <4>1
      <4>2. CASE i # m
        <5>1. i \in (k + 1)..Len(f) /\ i \in 1..Len(f)
          BY <1>0, <1>2, <2>2, <4>2
        <5>2. ~f[i].ended
          BY Zenon, <3>2, <5>1 DEF NewlineAt
        <5> QED  BY Zenon, <1>2, <5>1, <5>2
      <4> QED  BY Zenon, <4>1, <4>2
    <3> QED  BY Zenon, <3>3, <3>4 DEF NewlineAt
  <2>3. CASE m # Len(g)
    <3>1. m \in 0..Len(f)
      BY <1>0, <1>2, <2>3
    <3>2. PICK k \in 0..m : NewlineAt(f, m, k)
      BY Zenon, <3>1 DEF FileSound
    <3>3. \A i \in 1..m : g[i] = f[i]
      BY <1>0, <1>2, <3>1
    <3>4. (k # 0 => k \in 1..m) /\ \A i \in (k + 1)..m : i \in 1..m
      BY <3>1
    <3> QED  BY Zenon, <3>2, <3>3, <3>4 DEF NewlineAt
  <2> QED  BY Zenon, <2>1, <2>2, <2>3
<1> QED  BY Zenon, <1>1, <1>2, <1>3, <1>4, <1>5 DEF FileSound, g, piece

\* A file that has lost pieces at its end, or newlines, is still in order.
LEMMA SameCommands ==
    ASSUME NEW f \in Seq(Piece), NEW g \in Seq(Piece), NEW n \in Nat, FileSound(f, n),
           Len(g) <= Len(f), \A p \in 1..Len(g) : g[p].cmd = f[p].cmd,
           \A m \in 0..Len(g) : \E k \in 0..m : NewlineAt(g, m, k)
    PROVE  FileSound(g, n)
<1>1. Len(f) \in Nat /\ Len(g) \in Nat /\ Len(f) <= n
  BY DEF FileSound
<1>2. \A p \in 1..Len(g) : p \in 1..Len(f) /\ \A o \in 1..(p - 1) : o \in 1..Len(g)
  BY <1>1
<1>3. \A p \in 1..Len(f) : f[p].cmd <= n /\ \A o \in 1..(p - 1) : f[o].cmd < f[p].cmd
  BY Zenon DEF FileSound
<1>4. \A p \in 1..Len(g) : g[p].cmd <= n /\ \A o \in 1..(p - 1) : g[o].cmd < g[p].cmd
  BY Zenon, <1>2, <1>3
<1>5. Len(g) <= n
  BY <1>1
<1> QED  BY Zenon, <1>4, <1>5 DEF FileSound

\* The first m pieces.
LEMMA FirstPieces ==
    ASSUME NEW f \in Seq(Piece), NEW m \in 0..Len(f)
    PROVE  /\ SubSeq(f, 1, m) \in Seq(Piece) /\ Len(SubSeq(f, 1, m)) = m
           /\ \A p \in 1..m : SubSeq(f, 1, m)[p] = f[p]
OBVIOUS

\* Newlines stay where they are when pieces are the same.
LEMMA SameNewlines ==
    ASSUME NEW f, NEW g, NEW m \in Nat, \A p \in 1..m : g[p] = f[p],
           NEW k \in 0..m, NewlineAt(f, m, k)
    PROVE  NewlineAt(g, m, k)
<1>1. (k # 0 => k \in 1..m) /\ \A i \in (k + 1)..m : i \in 1..m
  OBVIOUS
<1> QED  BY Zenon, <1>1 DEF NewlineAt

\* What an outage leaves of a file: the synced pieces, and nothing that was not
\* written there.
LEMMA WhatRemains ==
    ASSUME NEW f \in Seq(Piece), NEW n \in Nat, FileSound(f, n), NEW k \in 0..Len(f),
           NEW rest \in Remains(f, k)
    PROVE  /\ rest \in Seq(Piece) /\ FileSound(rest, n)
           /\ k <= Len(rest) /\ Len(rest) <= Len(f)
           /\ \A p \in 1..k : rest[p] = f[p]
           /\ \A p \in 1..Len(rest) : rest[p].cmd = f[p].cmd
<1>0. Len(f) \in Nat /\ k \in Nat /\ k <= Len(f)
  OBVIOUS
<1>n. \A m \in 0..Len(f) : \E j \in 0..m : NewlineAt(f, m, j)
  BY Zenon DEF FileSound
<1>1. \/ \E m \in k..Len(f) : rest = SubSeq(f, 1, m)
      \/ \E m \in (k + 1)..Len(f) :
            rest = Append(SubSeq(f, 1, m - 1), [f[m] EXCEPT !.ended = FALSE])
  BY Zenon DEF Remains
<1>2. ASSUME NEW m \in k..Len(f), rest = SubSeq(f, 1, m)
      PROVE  /\ rest \in Seq(Piece) /\ FileSound(rest, n)
             /\ k <= Len(rest) /\ Len(rest) <= Len(f)
             /\ \A p \in 1..k : rest[p] = f[p]
             /\ \A p \in 1..Len(rest) : rest[p].cmd = f[p].cmd
  <2>1. m \in 0..Len(f) /\ m \in Nat /\ k <= m /\ m <= Len(f) /\ \A p \in 1..k : p \in 1..m
    BY <1>0
  <2>2. rest \in Seq(Piece) /\ Len(rest) = m /\ \A p \in 1..m : rest[p] = f[p]
    BY Zenon, <1>2, <2>1, FirstPieces
  <2>3. ASSUME NEW j \in 0..Len(rest)  PROVE \E i \in 0..j : NewlineAt(rest, j, i)
    <3>1. j \in 0..Len(f) /\ j \in Nat /\ \A p \in 1..j : p \in 1..m
      BY <1>0, <2>1, <2>2
    <3>2. PICK i \in 0..j : NewlineAt(f, j, i)
      BY Zenon, <1>n, <3>1
    <3> QED  BY Zenon, <2>2, <3>1, <3>2, SameNewlines
  <2>4. FileSound(rest, n)
    BY Zenon, <2>1, <2>2, <2>3, SameCommands
  <2> QED  BY Zenon, <2>1, <2>2, <2>4
<1>3. ASSUME NEW m \in (k + 1)..Len(f),
             rest = Append(SubSeq(f, 1, m - 1), [f[m] EXCEPT !.ended = FALSE])
      PROVE  /\ rest \in Seq(Piece) /\ FileSound(rest, n)
             /\ k <= Len(rest) /\ Len(rest) <= Len(f)
             /\ \A p \in 1..k : rest[p] = f[p]
             /\ \A p \in 1..Len(rest) : rest[p].cmd = f[p].cmd
  <2> DEFINE h == SubSeq(f, 1, m - 1)
             t == [f[m] EXCEPT !.ended = FALSE]
  <2>1. /\ m - 1 \in 0..Len(f) /\ m \in 1..Len(f) /\ m \in Nat /\ m - 1 \in Nat /\ k <= m /\ m <= Len(f)
        /\ \A p \in 1..k : p \in 1..(m - 1)
        /\ \A p \in 1..m : p = m \/ p \in 1..(m - 1)
    BY <1>0
  <2>2. h \in Seq(Piece) /\ Len(h) = m - 1 /\ \A p \in 1..(m - 1) : h[p] = f[p]
    BY Zenon, <2>1, FirstPieces
  <2>3. t \in Piece /\ t.cmd = f[m].cmd /\ t.ended = FALSE
    <3>1. f[m] \in Piece
      BY <2>1
    <3> QED  BY Zenon, <3>1 DEF Piece
  <2> HIDE DEF h, t
  <2>4. rest \in Seq(Piece) /\ Len(rest) = m /\ rest[m] = t /\ \A p \in 1..(m - 1) : rest[p] = f[p]
    <3>1. rest = Append(h, t)
      BY Zenon, <1>3 DEF h, t
    <3>2. /\ Append(h, t) \in Seq(Piece) /\ Len(Append(h, t)) = Len(h) + 1
          /\ Append(h, t)[Len(h) + 1] = t /\ \A p \in 1..Len(h) : Append(h, t)[p] = h[p]
      BY <2>2, <2>3
    <3>3. Len(h) + 1 = m
      BY <2>1, <2>2
    <3> QED  BY Zenon, <2>2, <3>1, <3>2, <3>3
  <2>5. \A p \in 1..Len(rest) : rest[p].cmd = f[p].cmd
    BY Zenon, <2>1, <2>3, <2>4
  <2>6. ASSUME NEW j \in 0..Len(rest)  PROVE \E i \in 0..j : NewlineAt(rest, j, i)
    <3>1. CASE j = m
      <4>1. PICK i \in 0..(m - 1) : NewlineAt(f, m - 1, i)
        BY Zenon, <1>n, <2>1
      <4>2. NewlineAt(rest, m - 1, i)
        BY Zenon, <2>1, <2>4, <4>1, SameNewlines
      <4>3. i \in 0..m /\ \A p \in (i + 1)..m : p = m \/ p \in (i + 1)..(m - 1)
        BY <2>1
      <4>4. NewlineAt(rest, m, i)
        BY Zenon, <2>3, <2>4, <4>2, <4>3 DEF NewlineAt
      <4> QED  BY Zenon, <3>1, <4>3, <4>4
    <3>2. CASE j # m
      <4>1. j \in 0..Len(f) /\ j \in Nat /\ \A p \in 1..j : p \in 1..(m - 1)
        BY <2>1, <2>4, <3>2
      <4>2. PICK i \in 0..j : NewlineAt(f, j, i)
        BY Zenon, <1>n, <4>1
      <4> QED  BY Zenon, <2>4, <4>1, <4>2, SameNewlines
    <3> QED  BY Zenon, <3>1, <3>2
  <2>7. FileSound(rest, n)
    BY Zenon, <2>1, <2>4, <2>5, <2>6, SameCommands
  <2> QED  BY Zenon, <2>1, <2>4, <2>5, <2>7
<1> QED  BY Zenon, <1>1, <1>2, <1>3

\* decodeEntries finds the last newline.
LEMMA LastNewlineFound ==
    ASSUME NEW f \in Seq(Piece), NEW n \in Nat, FileSound(f, n)
    PROVE  /\ LastNewline(f) \in 0..Len(f)
           /\ \A i \in (LastNewline(f) + 1)..Len(f) : ~f[i].ended
<1>1. Len(f) \in 0..Len(f)
  OBVIOUS
<1>2. PICK k \in 0..Len(f) : NewlineAt(f, Len(f), k)
  BY Zenon, <1>1 DEF FileSound
<1>3. Boundary(f, k)
  <2>1. k # 0 => k \in 1..Len(f)
    OBVIOUS
  <2> QED  BY Zenon, <1>2, <2>1 DEF Boundary, NewlineAt
<1>4. \E j \in 0..Len(f) : Boundary(f, j) /\ \A i \in (j + 1)..Len(f) : ~f[i].ended
  BY Zenon, <1>2, <1>3 DEF NewlineAt
<1> QED  BY Zenon, <1>4 DEF LastNewline

-----------------------------------------------------------------------------
(* Recovery.                                                               *)

\* Concatenation, by positions.
LEMMA Joined ==
    ASSUME NEW S, NEW s \in Seq(S), NEW e \in Seq(S)
    PROVE  /\ s \o e \in Seq(S) /\ Len(s \o e) = Len(s) + Len(e)
           /\ \A i \in 1..Len(s) : (s \o e)[i] = s[i]
           /\ \A i \in 1..Len(e) : (s \o e)[Len(s) + i] = e[i]
OBVIOUS

\* p is q with x at its end.
OneMore(q, x, p) ==
    /\ Len(p) = Len(q) + 1 /\ p[Len(p)] = x /\ Len(p) \in 1..Len(p)
    /\ \A i \in 1..Len(q) : i \in 1..Len(p) /\ p[i] = q[i]
    /\ \A i \in 1..Len(p) : i = Len(p) \/ (i \in 1..Len(q) /\ p[i] = q[i])
    /\ \A i \in 1..Len(p) : \A j \in 1..(i - 1) : j \in 1..Len(q)

\* One element more at the end.
LEMMA Longer ==
    ASSUME NEW S, NEW q \in Seq(S), NEW x \in S
    PROVE  OneMore(q, x, Append(q, x))
BY DEF OneMore

\* The elements of a sequence.
LEMMA ElementType ==
    ASSUME NEW S, NEW s \in Seq(S), NEW j \in 1..Len(s)
    PROVE  s[j] \in S
OBVIOUS

\* A function on the first n positions is a sequence.
LEMMA SequenceOf ==
    ASSUME NEW S, NEW n \in Nat, NEW e \in [1..n -> S]
    PROVE  e \in Seq(S) /\ Len(e) = n
OBVIOUS

\* What replayEntries gets: the commands behind the offset, in file order.
LEMMA ReplayedEntries ==
    ASSUME NEW f \in Seq(Piece), NEW n \in Nat, FileSound(f, n), NEW o \in Nat, Decodes(f, o)
    PROVE  /\ Entries(f, o) \in Seq(1..MaxCommands) /\ o <= Len(f)
           /\ \A i \in 1..Len(Entries(f, o)) :
                o + i \in 1..Len(f) /\ Entries(f, o)[i] = f[o + i].cmd
           /\ \A p \in 1..Len(f) : p > o /\ f[p].ended => p - o \in 1..Len(Entries(f, o))
<1> DEFINE l == LastNewline(f)
<1>1. l \in 0..Len(f) /\ \A i \in (l + 1)..Len(f) : ~f[i].ended
  BY Zenon, LastNewlineFound
<1>2. o = 0 \/ (o \in 1..Len(f) /\ f[o].ended)
  BY Zenon DEF Decodes, Boundary
<1> HIDE DEF l
<1>3. o <= l /\ l \in Nat /\ Len(f) \in Nat /\ l <= Len(f)
  <2>1. l \in Nat /\ Len(f) \in Nat /\ l <= Len(f)
    BY <1>1
  <2>2. CASE o = 0
    BY <2>1, <2>2
  <2>3. CASE o \in 1..Len(f) /\ f[o].ended
    <3>1. o \notin (l + 1)..Len(f)
      BY Zenon, <1>1, <2>3
    <3> QED  BY <2>1, <2>3, <3>1
  <2> QED  BY Zenon, <1>2, <2>1, <2>2, <2>3
<1>4. l - o \in Nat /\ \A i \in 1..(l - o) : o + i \in 1..Len(f)
  BY <1>3
<1>5. \A i \in 1..(l - o) : f[o + i].cmd \in 1..MaxCommands
  BY Zenon, <1>4, PieceType
<1>6. Entries(f, o) = [i \in 1..(l - o) |-> f[o + i].cmd]
  BY Zenon DEF Entries, l
<1>7. Entries(f, o) \in Seq(1..MaxCommands) /\ Len(Entries(f, o)) = l - o
  <2>1. Entries(f, o) \in [1..(l - o) -> 1..MaxCommands]
    BY Zenon, <1>5, <1>6
  <2> QED  BY Zenon, <1>4, <2>1, SequenceOf
<1>8. \A i \in 1..(l - o) : Entries(f, o)[i] = f[o + i].cmd
  BY Zenon, <1>6
<1>9. ASSUME NEW p \in 1..Len(f), p > o, f[p].ended  PROVE p - o \in 1..(l - o)
  <2>1. p \notin (l + 1)..Len(f)
    BY Zenon, <1>1, <1>9
  <2> QED  BY <1>3, <1>9, <2>1
<1>10. o <= Len(f)
  BY <1>3
<1> QED  BY Zenon, <1>4, <1>7, <1>8, <1>9, <1>10

\* A start on a snapshot and a WAL that are recoverable has every answered
\* command, and all commands in order.
LEMMA StartRecovers ==
    ASSUME NEW f \in Seq(Piece), issued \in Nat, FileSound(f, issued), NEW o \in Nat, Decodes(f, o),
           NEW sn, sn.state \in Seq(1..MaxCommands), NEW k \in 0..Len(f), Recoverable(sn, f, k, o, issued, acked),
           NEW a, a = sn.state \o Entries(f, o)
    PROVE  /\ a \in Seq(1..MaxCommands) /\ Increasing(a) /\ Below(a, issued)
           /\ \A i \in 1..Len(acked) : Holds(a, acked[i])
<1> DEFINE s == sn.state
           e == Entries(f, o)
<1>1. /\ e \in Seq(1..MaxCommands) /\ o <= Len(f)
      /\ \A i \in 1..Len(e) : o + i \in 1..Len(f) /\ e[i] = f[o + i].cmd
      /\ \A p \in 1..Len(f) : p > o /\ f[p].ended => p - o \in 1..Len(e)
  BY Zenon, ReplayedEntries
<1>2. /\ s \in Seq(1..MaxCommands) /\ Increasing(s) /\ Below(s, issued)
      /\ \A p \in 1..Len(f) : p > o => \A j \in 1..Len(s) : s[j] < f[p].cmd
      /\ \A i \in 1..Len(acked) :
          Holds(s, acked[i]) \/ \E p \in 1..k : p > o /\ f[p].ended /\ f[p].cmd = acked[i]
  BY Zenon DEF Recoverable
<1>3. a = s \o e
  BY Zenon
<1>f. \A p \in 1..Len(f) : f[p].cmd <= issued /\ \A j \in 1..(p - 1) : f[j].cmd < f[p].cmd
  BY Zenon DEF FileSound
<1> HIDE DEF s, e
<1>4. /\ a \in Seq(1..MaxCommands) /\ Len(a) = Len(s) + Len(e)
      /\ \A i \in 1..Len(s) : a[i] = s[i]
      /\ \A i \in 1..Len(e) : a[Len(s) + i] = e[i]
  <2>1. s \in Seq(1..MaxCommands) /\ e \in Seq(1..MaxCommands)
    BY Zenon, <1>1, <1>2
  <2>2. /\ s \o e \in Seq(1..MaxCommands) /\ Len(s \o e) = Len(s) + Len(e)
        /\ \A i \in 1..Len(s) : (s \o e)[i] = s[i]
        /\ \A i \in 1..Len(e) : (s \o e)[Len(s) + i] = e[i]
    BY <2>1, Joined
  <2> QED  BY Zenon, <1>3, <2>2
<1>5. Len(s) \in Nat /\ Len(e) \in Nat /\ Len(f) \in Nat
  BY <1>1, <1>2
<1>6. ASSUME NEW i \in 1..Len(a), i \notin 1..Len(s)
      PROVE  /\ o + (i - Len(s)) \in 1..Len(f) /\ o + (i - Len(s)) > o
             /\ a[i] = f[o + (i - Len(s))].cmd
  <2>0. Len(a) = Len(s) + Len(e)
    BY Zenon, <1>4
  <2>1. i - Len(s) \in 1..Len(e) /\ i = Len(s) + (i - Len(s)) /\ o + (i - Len(s)) > o
    BY <1>5, <1>6, <2>0
  <2>2. a[i] = e[i - Len(s)]
    BY Zenon, <1>4, <2>1
  <2> QED  BY Zenon, <1>1, <2>1, <2>2
<1>7. Below(a, issued)
  <2> SUFFICES ASSUME NEW i \in 1..Len(a)  PROVE a[i] <= issued
    BY Zenon DEF Below
  <2>1. CASE i \in 1..Len(s)
    BY Zenon, <1>2, <1>4, <2>1 DEF Below
  <2>2. CASE i \notin 1..Len(s)
    BY Zenon, <1>6, <1>f, <2>2
  <2> QED  BY Zenon, <2>1, <2>2
<1>8. Increasing(a)
  <2> SUFFICES ASSUME NEW i \in 1..Len(a), NEW j \in 1..(i - 1)  PROVE a[j] < a[i]
    BY Zenon DEF Increasing
  <2>0. j \in 1..Len(a)
    BY <1>4, <1>5
  <2>1. CASE i \in 1..Len(s)
    <3>1. j \in 1..Len(s)
      BY <1>5, <2>1
    <3> QED  BY Zenon, <1>2, <1>4, <2>1, <3>1 DEF Increasing
  <2>2. CASE i \notin 1..Len(s) /\ j \in 1..Len(s)
    BY Zenon, <1>2, <1>4, <1>6, <2>2
  <2>3. CASE i \notin 1..Len(s) /\ j \notin 1..Len(s)
    <3>1. o + (j - Len(s)) \in 1..((o + (i - Len(s))) - 1)
      BY <1>5, <2>0, <2>3
    <3> QED  BY Zenon, <1>6, <1>f, <2>0, <2>3, <3>1
  <2> QED  BY Zenon, <2>1, <2>2, <2>3
<1>9. ASSUME NEW i \in 1..Len(acked)  PROVE Holds(a, acked[i])
  <2>1. CASE Holds(s, acked[i])
    <3>1. PICK j \in 1..Len(s) : s[j] = acked[i]
      BY Zenon, <2>1 DEF Holds
    <3>2. j \in 1..Len(a)
      BY <1>4, <1>5
    <3> QED  BY Zenon, <1>4, <3>1, <3>2 DEF Holds
  <2>2. CASE \E p \in 1..k : p > o /\ f[p].ended /\ f[p].cmd = acked[i]
    <3>1. PICK p \in 1..k : p > o /\ f[p].ended /\ f[p].cmd = acked[i]
      BY Zenon, <2>2
    <3>2. p \in 1..Len(f)
      BY <1>5
    <3>3. p - o \in 1..Len(e) /\ e[p - o] = f[o + (p - o)].cmd
      BY Zenon, <1>1, <3>1, <3>2
    <3>4. o + (p - o) = p /\ Len(s) + (p - o) \in 1..Len(a)
      <4>1. p \in Int /\ p - o \in 1..Len(e) /\ Len(a) = Len(s) + Len(e)
        BY <1>4, <1>5, <3>3
      <4> QED  BY <1>5, <4>1
    <3>5. a[Len(s) + (p - o)] = e[p - o]
      BY Zenon, <1>4, <3>3
    <3>6. a[Len(s) + (p - o)] = acked[i]
      BY Zenon, <3>1, <3>3, <3>4, <3>5
    <3> QED  BY Zenon, <3>4, <3>6 DEF Holds
  <2> QED  BY Zenon, <1>2, <2>1, <2>2
<1> QED  BY Zenon, <1>4, <1>7, <1>8, <1>9

-----------------------------------------------------------------------------
(* What keeps snapshot and WAL recoverable.                                *)

\* One more command is issued, and perhaps appended to the file.
LEMMA StillRecoverable ==
    ASSUME NEW f \in Seq(Piece), NEW g \in Seq(Piece), NEW n \in Nat, NEW done, NEW o \in Nat,
           NEW sn, sn.state \in Seq(1..MaxCommands), NEW k \in 0..Len(f),
           Recoverable(sn, f, k, o, n, done),
           \A p \in 1..Len(f) : g[p] = f[p],
           g = f \/ (Len(g) = Len(f) + 1 /\ g[Len(g)].cmd = n + 1)
    PROVE  Recoverable(sn, g, k, o, n + 1, done)
<1> DEFINE s == sn.state
<1>1. /\ Increasing(s) /\ Below(s, n)
      /\ \A p \in 1..Len(f) : p > o => \A j \in 1..Len(s) : s[j] < f[p].cmd
      /\ \A a \in 1..Len(done) :
          Holds(s, done[a]) \/ \E p \in 1..k : p > o /\ f[p].ended /\ f[p].cmd = done[a]
  BY Zenon DEF Recoverable
<1>2. \A j \in 1..Len(s) : s[j] \in Nat /\ s[j] <= n
  <2>1. \A j \in 1..Len(s) : s[j] \in 1..MaxCommands
    BY Zenon, ElementType
  <2>2. \A x \in 1..MaxCommands : x \in Nat
    OBVIOUS
  <2> QED  BY Zenon, <1>1, <2>1, <2>2 DEF Below
<1> HIDE DEF s
<1>3. \A j \in 1..Len(s) : s[j] < n + 1 /\ s[j] <= n + 1
  BY <1>2
<1>4. ASSUME NEW p \in 1..Len(g), p > o  PROVE \A j \in 1..Len(s) : s[j] < g[p].cmd
  <2>1. CASE p \in 1..Len(f)
    BY Zenon, <1>1, <1>4, <2>1
  <2>2. CASE p \notin 1..Len(f)
    <3>1. p = Len(g) /\ g # f
      BY <2>2
    <3>2. g[p].cmd = n + 1
      BY Zenon, <3>1
    <3> QED  BY Zenon, <1>3, <3>2
  <2> QED  BY Zenon, <2>1, <2>2
<1>5. \A p \in 1..k : g[p] = f[p]
  <2>1. \A p \in 1..k : p \in 1..Len(f)
    OBVIOUS
  <2> QED  BY Zenon, <2>1
<1>6. Below(s, n + 1)
  BY Zenon, <1>3 DEF Below
<1> QED  BY Zenon, <1>1, <1>4, <1>5, <1>6 DEF Recoverable, s

\* The last piece is synced, and its command answered.
LEMMA SyncedIsRecoverable ==
    ASSUME NEW f \in Seq(Piece), NEW n \in 1..MaxCommands, NEW done \in Seq(1..MaxCommands),
           NEW o \in Nat, NEW sn,
           NEW k \in 0..Len(f), Recoverable(sn, f, k, o, n, done),
           o < Len(f), f[Len(f)] = [cmd |-> n, ended |-> TRUE]
    PROVE  Recoverable(sn, f, Len(f), o, n, Append(done, n))
<1> DEFINE more == Append(done, n)
<1>1. /\ Len(more) = Len(done) + 1 /\ more[Len(more)] = n
      /\ \A a \in 1..Len(more) : a = Len(more) \/ (a \in 1..Len(done) /\ more[a] = done[a])
  OBVIOUS
<1> HIDE DEF more
<1>2. (\A p \in 1..k : p \in 1..Len(f)) /\ Len(f) \in 1..Len(f) /\ Len(f) > o
  OBVIOUS
<1>3. f[Len(f)].ended /\ f[Len(f)].cmd = n
  OBVIOUS
<1>4. ASSUME NEW a \in 1..Len(more)
      PROVE  Holds(sn.state, more[a])
             \/ \E p \in 1..Len(f) : p > o /\ f[p].ended /\ f[p].cmd = more[a]
  <2>1. CASE a = Len(more)
    BY Zenon, <1>1, <1>2, <1>3, <2>1
  <2>2. CASE a \in 1..Len(done) /\ more[a] = done[a]
    <3>1. Holds(sn.state, done[a]) \/ \E p \in 1..k : p > o /\ f[p].ended /\ f[p].cmd = done[a]
      BY Zenon, <2>2 DEF Recoverable
    <3> QED  BY Zenon, <1>2, <2>2, <3>1
  <2> QED  BY Zenon, <1>1, <2>1, <2>2
<1> QED  BY Zenon, <1>4 DEF Recoverable, more

\* Nothing that was answered is lost in an outage.
LEMMA RestIsRecoverable ==
    ASSUME NEW f \in Seq(Piece), NEW n, NEW done, NEW o \in Nat, NEW sn,
           NEW k \in 0..Len(f), Recoverable(sn, f, k, o, n, done),
           NEW rest \in Seq(Piece), k <= Len(rest), Len(rest) <= Len(f),
           \A p \in 1..k : rest[p] = f[p], \A p \in 1..Len(rest) : rest[p].cmd = f[p].cmd
    PROVE  Recoverable(sn, rest, Len(rest), o, n, done)
<1>1. (\A p \in 1..Len(rest) : p \in 1..Len(f)) /\ \A p \in 1..k : p \in 1..Len(rest)
  OBVIOUS
<1>2. \A p \in 1..Len(rest) : p > o => \A j \in 1..Len(sn.state) : sn.state[j] < rest[p].cmd
  BY Zenon, <1>1 DEF Recoverable
<1>3. \A a \in 1..Len(done) :
        Holds(sn.state, done[a])
        \/ \E p \in 1..Len(rest) : p > o /\ rest[p].ended /\ rest[p].cmd = done[a]
  BY ZenonT(30), <1>1 DEF Recoverable
<1> QED  BY ZenonT(30), <1>2, <1>3 DEF Recoverable

\* A snapshot that holds all answered commands needs nothing behind o.
LEMMA SnapshotSuffices ==
    ASSUME NEW f, NEW k, NEW o, NEW n, NEW done, NEW sn, Increasing(sn.state), Below(sn.state, n),
           \A a \in 1..Len(done) : Holds(sn.state, done[a]), \A p \in 1..Len(f) : ~(p > o)
    PROVE  Recoverable(sn, f, k, o, n, done)
BY Zenon DEF Recoverable

-----------------------------------------------------------------------------
(* The steps.                                                              *)

\* The types of what the steps read.
LEMMA Typed ==
    ASSUME TypeOK
    PROVE  /\ files \in [Inode -> Seq(Piece)] /\ synced \in [Inode -> 0..MaxCommands]
           /\ wal \in Inode /\ walOnDisk \in Inode
           /\ \A i \in Inode : files[i] \in Seq(Piece) /\ synced[i] \in 0..Len(files[i])
           /\ \A sn \in {snap, snapOnDisk} :
                /\ sn \in Snapshot /\ sn.state \in Seq(1..MaxCommands)
                /\ \A w : From(sn, w) \in Nat
           /\ issued \in 0..MaxCommands /\ issued \in Nat /\ MaxCommands \in Nat
           /\ applied \in Seq(1..MaxCommands) /\ acked \in Seq(1..MaxCommands)
<1>1. MaxCommands \in Nat
  BY Zenon, JournalConstants DEF JournalConstants
<1>2. /\ files \in [Inode -> Seq(Piece)] /\ synced \in [Inode -> 0..MaxCommands]
      /\ wal \in Inode /\ walOnDisk \in Inode /\ snap \in Snapshot /\ snapOnDisk \in Snapshot
      /\ issued \in 0..MaxCommands
      /\ applied \in Seq(1..MaxCommands) /\ acked \in Seq(1..MaxCommands)
      /\ \A i \in Inode : synced[i] <= Len(files[i])
  BY Zenon DEF TypeOK
<1>3. ASSUME NEW i \in Inode  PROVE files[i] \in Seq(Piece) /\ synced[i] \in 0..Len(files[i])
  <2>1. files[i] \in Seq(Piece) /\ synced[i] \in 0..MaxCommands /\ synced[i] <= Len(files[i])
    BY Zenon, <1>2
  <2>2. Len(files[i]) \in Nat
    BY <2>1
  <2> QED  BY <1>1, <2>1, <2>2
<1>4. ASSUME NEW sn \in Snapshot
      PROVE  sn.state \in Seq(1..MaxCommands) /\ \A w : From(sn, w) \in Nat
  <2>1. sn.state \in Seq(1..MaxCommands) /\ sn.walOffset \in Nat
    BY Zenon DEF Snapshot
  <2> QED  BY Zenon, <2>1 DEF From
<1>5. issued \in Nat
  BY <1>1, <1>2
<1> QED  BY Zenon, <1>1, <1>2, <1>3, <1>4, <1>5

\* What is on the disk depends on the disk only.
LEMMA DiskFrame ==
    ASSUME Disk, Files, UNCHANGED <<files, synced, acked, issued>>,
           snap' \in {snap, snapOnDisk}, snapOnDisk' \in {snap, snapOnDisk},
           wal' \in {wal, walOnDisk}, walOnDisk' \in {wal, walOnDisk}
    PROVE  Disk' /\ Files'
<1>1. Files'
  BY Zenon DEF Files
<1>2. ASSUME NEW sn \in {snap', snapOnDisk'}, NEW w \in {wal', walOnDisk'}
      PROVE  Recoverable(sn, files'[w], synced'[w], From(sn, w), issued', acked')
  <2>1. sn \in {snap, snapOnDisk} /\ w \in {wal, walOnDisk}
    BY Zenon
  <2> QED  BY Zenon, <2>1 DEF Disk
<1> QED  BY Zenon, <1>1, <1>2 DEF Disk

\* A process that has ended leaves the disk as it was.
LEMMA ExitKeeps ==
    ASSUME JournalInv, Exits, UNCHANGED <<files, synced, snap, snapOnDisk, acked, issued>>,
           wal' = wal, walOnDisk' \in {wal, walOnDisk},
           crashes' \in 0..MaxCrashes, outages' \in 0..MaxOutages
    PROVE  JournalInv'
<1>1. TypeOK'
  <2>1. << >> \in Seq(1..MaxCommands)
    OBVIOUS
  <2> QED  BY ZenonT(30), <2>1 DEF JournalInv, TypeOK, Exits
<1>2. Disk' /\ Files'
  BY Zenon, DiskFrame DEF JournalInv
<1>3. Names'
  BY Zenon DEF Exits, Names
<1>4. applied' = << >> /\ pc' = "down"
  BY Zenon DEF Exits
<1>5. Process'
  BY <1>4 DEF Process, Durability, AppliedOnce, Below
<1> QED  BY Zenon, <1>1, <1>2, <1>3, <1>5 DEF JournalInv

\* NewServer.
LEMMA StartKeeps ==
    ASSUME JournalInv, Start
    PROVE  JournalInv'
<1> DEFINE f == files[wal]
           o == ReplayFrom
<1>0. TypeOK /\ Files /\ Disk
  BY Zenon DEF JournalInv
<1>t. /\ f \in Seq(Piece) /\ synced[wal] \in 0..Len(f) /\ wal \in Inode
      /\ snap.state \in Seq(1..MaxCommands) /\ o \in Nat /\ o = From(snap, wal)
      /\ issued \in Nat /\ FileSound(f, issued)
  <2>1. o = From(snap, wal)
    BY Zenon DEF ReplayFrom, From
  <2> QED  BY Zenon, <1>0, <2>1, Typed DEF Files
<1>1. /\ pc = "down" /\ walOnDisk' = wal /\ snapOnDisk' = snap /\ open' = wal
      /\ UNCHANGED <<files, synced, wal, snap, acked, issued, crashes, outages>>
      /\ \/ Decodes(f, o) /\ pc' = "running" /\ applied' = snap.state \o Entries(f, o)
         \/ pc' = "refused" /\ applied' = << >>
  BY Zenon DEF Start
<1> HIDE DEF f, o
<1>2. Disk' /\ Files'
  BY Zenon, <1>0, <1>1, DiskFrame
<1>3. Names'
  BY Zenon, <1>1 DEF Names
<1>4. CASE Decodes(f, o) /\ pc' = "running" /\ applied' = snap.state \o Entries(f, o)
  <2>1. Recoverable(snap, f, synced[wal], o, issued, acked)
    BY Zenon, <1>0, <1>t DEF Disk, f
  <2>2. /\ applied' \in Seq(1..MaxCommands) /\ Increasing(applied') /\ Below(applied', issued)
        /\ \A i \in 1..Len(acked) : Holds(applied', acked[i])
    BY Zenon, <1>t, <1>4, <2>1, StartRecovers
  <2>3. o <= Len(f)
    BY Zenon, <1>t, <1>4, ReplayedEntries
  <2>4. TypeOK'
    BY Zenon, <1>0, <1>1, <1>4, <2>2, <1>t, JournalConstants DEF TypeOK, JournalConstants
  <2>5. Durability' /\ AppliedOnce' /\ Below(applied, issued)'
    BY Zenon, <1>1, <2>2 DEF Durability, AppliedOnce, Increasing, Holds, Below
  <2>6. From(snap, wal)' <= Len(files[wal])'
    BY Zenon, <1>1, <1>t, <2>3 DEF f, From
  <2>7. Process'
    BY Zenon, <1>4, <2>5, <2>6 DEF Process
  <2> QED  BY Zenon, <1>2, <1>3, <2>4, <2>7 DEF JournalInv
<1>5. CASE pc' = "refused" /\ applied' = << >>
  <2>1. TypeOK'
    BY <1>0, <1>1, <1>5, <1>t, JournalConstants DEF TypeOK, JournalConstants
  <2>2. Process'
    BY <1>5 DEF Process, Durability, AppliedOnce, Below
  <2> QED  BY Zenon, <1>2, <1>3, <2>1, <2>2 DEF JournalInv
<1> QED  BY Zenon, <1>1, <1>4, <1>5

\* A write, complete or torn: the file stays in order and nothing is lost.
LEMMA AppendKeeps ==
    ASSUME JournalInv, pc = "running", issued < MaxCommands, issued' = issued + 1,
           NEW b \in BOOLEAN, Append1([cmd |-> issued', ended |-> b]),
           UNCHANGED <<synced, wal, walOnDisk, snap, snapOnDisk, acked>>
    PROVE  /\ Files' /\ Disk' /\ files' \in [Inode -> Seq(Piece)]
           /\ \A i \in Inode : synced[i] <= Len(files'[i])
           /\ Len(files'[wal]) = Len(files[wal]) + 1
           /\ files'[wal][Len(files'[wal])] = [cmd |-> issued + 1, ended |-> b]
<1> DEFINE f == files[wal]
           g == Append(f, [cmd |-> issued + 1, ended |-> b])
<1>0. TypeOK /\ Files /\ Disk /\ Names
  BY Zenon DEF JournalInv
<1>1. snapOnDisk = snap /\ walOnDisk = wal /\ open = wal
  BY Zenon, <1>0 DEF Names
<1>2. /\ files \in [Inode -> Seq(Piece)] /\ wal \in Inode /\ f \in Seq(Piece)
      /\ \A i \in Inode : files[i] \in Seq(Piece) /\ synced[i] \in 0..Len(files[i])
      /\ issued \in 0..MaxCommands /\ issued \in Nat
      /\ snap.state \in Seq(1..MaxCommands) /\ From(snap, wal) \in Nat
  BY Zenon, <1>0, Typed
<1>3. FileSound(f, issued)
  BY Zenon, <1>0, <1>2 DEF Files
<1>4. /\ g \in Seq(Piece) /\ FileSound(g, issued + 1) /\ Len(g) = Len(f) + 1
      /\ g[Len(g)] = [cmd |-> issued + 1, ended |-> b] /\ \A p \in 1..Len(f) : g[p] = f[p]
  BY Zenon, <1>2, <1>3, AppendedFile
<1>5. files' = [files EXCEPT ![wal] = g]
  BY Zenon, <1>1 DEF Append1
<1> HIDE DEF f, g
<1>6. files' \in [Inode -> Seq(Piece)] /\ files'[wal] = g /\ \A i \in Inode \ {wal} : files'[i] = files[i]
  BY Zenon, <1>2, <1>4, <1>5
<1>7. Files'
  <2> SUFFICES ASSUME NEW i \in Inode  PROVE FileSound(files'[i], issued + 1)
    BY Zenon DEF Files
  <2>1. CASE i = wal
    BY Zenon, <1>4, <1>6, <2>1
  <2>2. CASE i # wal
    <3>1. FileSound(files[i], issued)
      BY Zenon, <1>0 DEF Files
    <3> QED  BY Zenon, <1>2, <1>6, <2>2, <3>1, MoreIssued
  <2> QED  BY Zenon, <2>1, <2>2
<1>8. Recoverable(snap, g, synced[wal], From(snap, wal), issued + 1, acked)
  <2>1. Recoverable(snap, f, synced[wal], From(snap, wal), issued, acked) /\ synced[wal] \in 0..Len(f)
    BY Zenon, <1>0, <1>2 DEF Disk, f
  <2>2. g[Len(g)].cmd = issued + 1
    BY <1>4
  <2> QED  BY Zenon, <1>2, <1>4, <2>1, <2>2, StillRecoverable
<1>9. Disk'
  BY Zenon, <1>1, <1>6, <1>8 DEF Disk
<1>10. ASSUME NEW i \in Inode  PROVE synced[i] <= Len(files'[i])
  <2>1. synced[i] \in 0..Len(files[i]) /\ Len(files[i]) \in Nat
    BY <1>2
  <2>2. CASE i = wal
    BY <1>4, <1>6, <2>1, <2>2 DEF f
  <2>3. CASE i # wal
    BY <1>6, <2>1, <2>3
  <2> QED  BY Zenon, <2>2, <2>3
<1> QED  BY Zenon, <1>4, <1>6, <1>7, <1>9, <1>10 DEF f

\* The first half of WriteEntry.
LEMMA WriteKeeps ==
    ASSUME JournalInv, Write
    PROVE  JournalInv'
<1>0. TypeOK /\ Names /\ Process /\ issued \in 0..MaxCommands /\ MaxCommands \in Nat
      /\ applied \in Seq(1..MaxCommands) /\ wal \in Inode /\ From(snap, wal) \in Nat
      /\ files[wal] \in Seq(Piece)
  BY Zenon, Typed DEF JournalInv
<1>1. /\ pc = "running" /\ issued < MaxCommands /\ issued' = issued + 1 /\ pc' = "written"
      /\ Append1([cmd |-> issued', ended |-> TRUE])
      /\ UNCHANGED <<synced, wal, walOnDisk, snap, snapOnDisk, open, applied, acked, crashes, outages>>
  BY Zenon DEF Write
<1>2. /\ Files' /\ Disk' /\ files' \in [Inode -> Seq(Piece)]
      /\ \A i \in Inode : synced[i] <= Len(files'[i])
      /\ Len(files'[wal]) = Len(files[wal]) + 1
      /\ files'[wal][Len(files'[wal])] = [cmd |-> issued + 1, ended |-> TRUE]
  BY Zenon, <1>1, AppendKeeps
<1>3. issued' \in 0..MaxCommands
  BY <1>0, <1>1
<1>4. TypeOK'
  BY Zenon, <1>0, <1>1, <1>2, <1>3 DEF TypeOK
<1>5. Names'
  BY Zenon, <1>0, <1>1 DEF Names
<1>6. \A i \in 1..Len(applied) : applied[i] < issued + 1 /\ applied[i] <= issued + 1
  <2>1. \A i \in 1..Len(applied) : applied[i] \in 1..MaxCommands /\ applied[i] <= issued
    BY Zenon, <1>0, ElementType DEF Process, Below
  <2>2. issued \in 0..MaxCommands /\ MaxCommands \in Nat
    BY Zenon, <1>0
  <2> QED  BY <2>1, <2>2
<1>7. From(snap, wal)' < Len(files'[wal])
  <2>1. From(snap, wal) <= Len(files[wal]) /\ Len(files[wal]) \in Nat
    BY <1>0, <1>1 DEF Process
  <2>2. From(snap, wal)' = From(snap, wal)
    BY Zenon, <1>1 DEF From
  <2> QED  BY <1>0, <1>2, <2>1, <2>2
<1>8. Durability' /\ AppliedOnce' /\ Below(applied, issued)'
  <2>1. Durability'
    BY Zenon, <1>0, <1>1 DEF Process, Durability
  <2> QED  BY Zenon, <1>0, <1>1, <1>6, <2>1 DEF Process, AppliedOnce, Below
<1>9. Process'
  BY Zenon, <1>1, <1>2, <1>6, <1>7, <1>8 DEF Process
<1> QED  BY Zenon, <1>2, <1>4, <1>5, <1>9 DEF JournalInv

\* The second half: the command is on the disk before it is answered.
LEMMA SyncKeeps ==
    ASSUME JournalInv, Sync
    PROVE  JournalInv'
<1> DEFINE f == files[wal]
           o == From(snap, wal)
<1>0. TypeOK /\ Files /\ Disk /\ Names /\ Process
  BY Zenon DEF JournalInv
<1>1. /\ pc = "written" /\ pc' = "running" /\ synced' = [synced EXCEPT ![open] = Len(files[open])]
      /\ applied' = Append(applied, issued) /\ acked' = Append(acked, issued)
      /\ UNCHANGED <<files, wal, walOnDisk, snap, snapOnDisk, open, issued, crashes, outages>>
  BY Zenon DEF Sync
<1>2. snapOnDisk = snap /\ walOnDisk = wal /\ open = wal
  BY Zenon, <1>0, <1>1 DEF Names
<1>3. /\ synced \in [Inode -> 0..MaxCommands] /\ wal \in Inode /\ f \in Seq(Piece)
      /\ \A i \in Inode : synced[i] \in 0..Len(files[i])
      /\ issued \in 0..MaxCommands /\ MaxCommands \in Nat /\ o \in Nat
      /\ applied \in Seq(1..MaxCommands) /\ acked \in Seq(1..MaxCommands)
  BY Zenon, <1>0, Typed
<1>4. o < Len(f) /\ f[Len(f)] = [cmd |-> issued, ended |-> TRUE]
      /\ \A i \in 1..Len(applied) : applied[i] < issued
  BY Zenon, <1>0, <1>1 DEF Process
<1>5. Len(f) \in 0..MaxCommands
  <2>1. Len(f) <= issued
    BY Zenon, <1>0, <1>3 DEF Files, FileSound
  <2>2. Len(f) \in Nat
    BY <1>3
  <2> QED  BY <1>3, <2>1, <2>2
<1>6. issued \in 1..MaxCommands
  <2>1. Len(f) \in 1..Len(f)
    BY <1>3, <1>4, <1>5
  <2>2. f[Len(f)].cmd \in 1..MaxCommands
    BY Zenon, <1>3, <2>1, PieceType
  <2> QED  BY <1>4, <2>2
<1>7. Recoverable(snap, f, Len(f), o, issued, acked')
  <2>1. Recoverable(snap, f, synced[wal], o, issued, acked)
    BY Zenon, <1>0 DEF Disk
  <2> QED  BY Zenon, <1>1, <1>3, <1>4, <1>6, <2>1, SyncedIsRecoverable
<1>8. synced'[wal] = Len(f) /\ \A i \in Inode \ {wal} : synced'[i] = synced[i]
  BY Zenon, <1>1, <1>2, <1>3
<1>9. Disk' /\ Files'
  <2>1. Files'
    BY Zenon, <1>0, <1>1 DEF Files
  <2>2. \A sn \in {snap', snapOnDisk'}, w \in {wal', walOnDisk'} : sn = snap /\ w = wal
    BY Zenon, <1>1, <1>2
  <2>3. Recoverable(snap, files'[wal], synced'[wal], From(snap, wal), issued', acked')
    BY Zenon, <1>1, <1>7, <1>8
  <2> QED  BY Zenon, <2>1, <2>2, <2>3 DEF Disk
<1> HIDE DEF f
<1>10. TypeOK'
  <2>1. \A i \in Inode : synced'[i] <= Len(files[i])
    <3>1. Len(f) <= Len(f) /\ \A i \in Inode : synced[i] <= Len(files[i])
      BY <1>0, <1>5 DEF TypeOK
    <3> QED  BY Zenon, <1>8, <3>1 DEF f
  <2>2. synced' \in [Inode -> 0..MaxCommands]
    BY Zenon, <1>1, <1>2, <1>3, <1>5 DEF f
  <2>3. applied' \in Seq(1..MaxCommands) /\ acked' \in Seq(1..MaxCommands)
    BY <1>1, <1>3, <1>6
  <2> QED  BY Zenon, <1>0, <1>1, <2>1, <2>2, <2>3 DEF TypeOK
<1>11. Names'
  BY Zenon, <1>0, <1>1 DEF Names
<1>12. /\ Len(applied') = Len(applied) + 1 /\ applied'[Len(applied')] = issued
       /\ Len(acked') = Len(acked) + 1 /\ acked'[Len(acked')] = issued
       /\ \A i \in 1..Len(applied) : i \in 1..Len(applied') /\ applied'[i] = applied[i]
       /\ \A i \in 1..Len(applied') : i = Len(applied') \/ i \in 1..Len(applied)
       /\ \A i \in 1..Len(acked') : i = Len(acked') \/ (i \in 1..Len(acked) /\ acked'[i] = acked[i])
       /\ Len(applied') \in 1..Len(applied')
       /\ \A i \in 1..Len(applied') : \A j \in 1..(i - 1) : j \in 1..Len(applied)
  <2>1. OneMore(applied, issued, applied') /\ OneMore(acked, issued, acked')
    BY Zenon, <1>1, <1>3, <1>6, Longer
  <2> QED  BY Zenon, <2>1 DEF OneMore
<1>13. Process'
  <2>1. \A i \in 1..Len(acked) : \E j \in 1..Len(applied) : applied[j] = acked[i]
    BY Zenon, <1>0, <1>1 DEF Process, Durability
  <2>2. Durability'
    BY Zenon, <1>12, <2>1 DEF Durability
  <2>3. AppliedOnce'
    BY ZenonT(30), <1>0, <1>4, <1>12 DEF Process, AppliedOnce
  <2>4. Below(applied, issued)'
    <3>1. issued <= issued
      BY <1>3
    <3> QED  BY Zenon, <1>0, <1>1, <1>12, <3>1 DEF Process, Below
  <2>5. From(snap, wal)' <= Len(files'[wal'])
    <3>1. From(snap, wal)' = o /\ files'[wal'] = f
      BY Zenon, <1>1 DEF f, From
    <3>2. o <= Len(f)
      BY <1>3, <1>4, <1>5
    <3> QED  BY Zenon, <3>1, <3>2
  <2> QED  BY Zenon, <1>1, <2>2, <2>3, <2>4, <2>5 DEF Process
<1> QED  BY Zenon, <1>9, <1>10, <1>11, <1>13 DEF JournalInv

\* A write that failed, with or without a piece of it in the file.
LEMMA WriteFailsKeeps ==
    ASSUME JournalInv, WriteFails
    PROVE  JournalInv'
<1>0. TypeOK /\ Files /\ Disk /\ Names /\ Process /\ issued \in 0..MaxCommands /\ MaxCommands \in Nat
      /\ issued \in Nat /\ applied \in Seq(1..MaxCommands) /\ wal \in Inode
      /\ snap.state \in Seq(1..MaxCommands) /\ From(snap, wal) \in Nat
      /\ \A i \in Inode : files[i] \in Seq(Piece) /\ synced[i] \in 0..Len(files[i])
      /\ files \in [Inode -> Seq(Piece)]
  BY Zenon, Typed DEF JournalInv
<1>1. /\ pc = "running" /\ issued < MaxCommands /\ issued' = issued + 1 /\ pc' = "failed"
      /\ \/ UNCHANGED files
         \/ Append1([cmd |-> issued', ended |-> TRUE])
         \/ Append1([cmd |-> issued', ended |-> FALSE])
      /\ UNCHANGED <<synced, wal, walOnDisk, snap, snapOnDisk, open, applied, acked, crashes, outages>>
  BY Zenon DEF WriteFails
<1>2. /\ Files' /\ Disk' /\ files' \in [Inode -> Seq(Piece)]
      /\ \A i \in Inode : synced[i] <= Len(files'[i])
  <2>1. CASE Append1([cmd |-> issued', ended |-> TRUE])
    BY Zenon, <1>1, <2>1, AppendKeeps
  <2>2. CASE Append1([cmd |-> issued', ended |-> FALSE])
    BY Zenon, <1>1, <2>2, AppendKeeps
  <2>3. CASE UNCHANGED files
    <3>1. Files'
      BY Zenon, <1>0, <1>1, <2>3, MoreIssued DEF Files
    <3>2. snapOnDisk = snap /\ walOnDisk = wal
      BY Zenon, <1>0, <1>1 DEF Names
    <3>3. Recoverable(snap, files[wal], synced[wal], From(snap, wal), issued, acked)
      BY Zenon, <1>0 DEF Disk
    <3>4. Recoverable(snap, files[wal], synced[wal], From(snap, wal), issued + 1, acked)
      BY Zenon, <1>0, <3>3, StillRecoverable
    <3>5. Disk'
      BY Zenon, <1>1, <2>3, <3>2, <3>4 DEF Disk
    <3>6. \A i \in Inode : synced[i] <= Len(files[i])
      BY Zenon, <1>0 DEF TypeOK
    <3> QED  BY Zenon, <1>0, <2>3, <3>1, <3>5, <3>6
  <2> QED  BY Zenon, <1>1, <2>1, <2>2, <2>3
<1>3. issued' \in 0..MaxCommands
  BY <1>0, <1>1
<1>4. TypeOK'
  BY Zenon, <1>0, <1>1, <1>2, <1>3 DEF TypeOK
<1>5. Names'
  BY Zenon, <1>0, <1>1 DEF Names
<1>6. \A i \in 1..Len(applied) : applied[i] <= issued + 1
  <2>1. \A i \in 1..Len(applied) : applied[i] \in 1..MaxCommands /\ applied[i] <= issued
    BY Zenon, <1>0, ElementType DEF Process, Below
  <2>2. issued \in 0..MaxCommands /\ MaxCommands \in Nat
    BY Zenon, <1>0
  <2> QED  BY <2>1, <2>2
<1>7. Durability'
  BY Zenon, <1>0, <1>1 DEF Process, Durability
<1>8. AppliedOnce' /\ Below(applied, issued)'
  BY Zenon, <1>0, <1>1, <1>6 DEF Process, AppliedOnce, Below
<1>9. Process'
  BY Zenon, <1>1, <1>7, <1>8 DEF Process
<1> QED  BY Zenon, <1>2, <1>4, <1>5, <1>9 DEF JournalInv

\* The new snapshot has the whole WAL.
LEMMA SaveRenameKeeps ==
    ASSUME JournalInv, SaveRename
    PROVE  JournalInv'
<1>0. TypeOK /\ Files /\ Disk /\ Names /\ Process /\ wal \in Inode /\ files[wal] \in Seq(Piece)
      /\ applied \in Seq(1..MaxCommands)
  BY Zenon, Typed DEF JournalInv
<1>1. /\ pc = "running" /\ pc' = "renamed"
      /\ snap' = [state |-> applied, walID |-> open, walOffset |-> Len(files[open])]
      /\ UNCHANGED <<files, synced, wal, walOnDisk, snapOnDisk, open, applied, acked, issued, crashes,
                     outages>>
  BY Zenon DEF SaveRename
<1>2. snapOnDisk = snap /\ walOnDisk = wal /\ open = wal
  BY Zenon, <1>0, <1>1 DEF Names
<1>3. snap'.state = applied /\ snap'.walID = wal /\ snap'.walOffset = Len(files[wal])
  BY Zenon, <1>1, <1>2
<1>4. Len(files[wal]) \in Nat /\ \A p \in 1..Len(files[wal]) : ~(p > Len(files[wal]))
  BY <1>0
<1>5. snap' \in Snapshot
  BY Zenon, <1>0, <1>1, <1>2, <1>4 DEF Snapshot
<1>6. /\ AppliedOnce /\ Below(applied, issued)
      /\ \A a \in 1..Len(acked) : \E j \in 1..Len(applied) : applied[j] = acked[a]
  BY Zenon, <1>0, <1>1 DEF Process, Durability
<1>7. Recoverable(snap', files[wal], synced[wal], From(snap', wal), issued, acked)
  <2>1. From(snap', wal) = Len(files[wal])
    BY Zenon, <1>3 DEF From
  <2>2. Increasing(snap'.state) /\ Below(snap'.state, issued)
    BY Zenon, <1>3, <1>6 DEF Increasing, AppliedOnce
  <2>3. \A a \in 1..Len(acked) : Holds(snap'.state, acked[a])
    BY Zenon, <1>3, <1>6 DEF Holds
  <2>4. \A p \in 1..Len(files[wal]) : ~(p > From(snap', wal))
    BY Zenon, <1>4, <2>1
  <2> QED  BY Zenon, <2>2, <2>3, <2>4, SnapshotSuffices
<1>8. Recoverable(snapOnDisk, files[wal], synced[wal], From(snapOnDisk, wal), issued, acked)
  BY Zenon, <1>0 DEF Disk
<1>9. Disk' /\ Files'
  BY Zenon, <1>0, <1>1, <1>2, <1>7, <1>8 DEF Disk, Files
<1>10. TypeOK'
  BY Zenon, <1>0, <1>1, <1>5 DEF TypeOK
<1>11. Names'
  <2>1. (\A a \in 1..Len(acked) : Holds(snap.state, acked[a]))'
    BY Zenon, <1>1, <1>3, <1>6 DEF Holds
  <2> QED  BY Zenon, <1>1, <1>2, <2>1 DEF Names
<1>12. Process'
  BY Zenon, <1>0, <1>1 DEF Process, Durability, AppliedOnce, Below
<1> QED  BY Zenon, <1>9, <1>10, <1>11, <1>12 DEF JournalInv

\* The directory entry of the snapshot is on the disk.
LEMMA SaveSyncKeeps ==
    ASSUME JournalInv, SaveSync
    PROVE  JournalInv'
<1>0. TypeOK /\ Files /\ Disk /\ Names /\ Process
  BY Zenon DEF JournalInv
<1>1. /\ pc = "renamed" /\ pc' = "saved" /\ snapOnDisk' = snap
      /\ UNCHANGED <<files, synced, wal, walOnDisk, snap, open, applied, acked, issued, crashes, outages>>
  BY Zenon DEF SaveSync
<1>2. Disk' /\ Files'
  BY Zenon, <1>0, <1>1, DiskFrame
<1>3. TypeOK'
  BY Zenon, <1>0, <1>1 DEF TypeOK
<1>4. Names'
  BY Zenon, <1>0, <1>1 DEF Names, Holds
<1>5. Process'
  BY Zenon, <1>0, <1>1 DEF Process, Durability, AppliedOnce, Below
<1> QED  BY Zenon, <1>2, <1>3, <1>4, <1>5 DEF JournalInv

\* The empty WAL takes the name: the snapshot has all that was answered.
LEMMA ClearRenameKeeps ==
    ASSUME JournalInv, ClearRename
    PROVE  JournalInv'
<1>0. TypeOK /\ Files /\ Disk /\ Names /\ Process /\ wal \in Inode /\ walOnDisk \in Inode
      /\ files \in [Inode -> Seq(Piece)] /\ synced \in [Inode -> 0..MaxCommands]
      /\ MaxCommands \in Nat /\ issued \in Nat
  BY Zenon, Typed DEF JournalInv
<1>1. PICK i \in Inode \ {wal, walOnDisk, open} :
        /\ files' = [files EXCEPT ![i] = << >>] /\ synced' = [synced EXCEPT ![i] = 0]
        /\ wal' = i
  BY Zenon DEF ClearRename
<1>2. /\ pc = "saved" /\ pc' = "replaced"
      /\ UNCHANGED <<walOnDisk, snap, snapOnDisk, open, applied, acked, issued, crashes, outages>>
  BY Zenon DEF ClearRename
<1>3. snapOnDisk = snap /\ \A a \in 1..Len(acked) : Holds(snap.state, acked[a])
  BY Zenon, <1>0, <1>2 DEF Names
<1>4. /\ files'[i] = << >> /\ synced'[i] = 0
      /\ \A w \in Inode \ {i} : files'[w] = files[w] /\ synced'[w] = synced[w]
  BY Zenon, <1>0, <1>1
<1>5. Recoverable(snap, files'[i], synced'[i], From(snap, i), issued, acked)
  <2>1. Increasing(snap.state) /\ Below(snap.state, issued)
    BY Zenon, <1>0 DEF Disk, Recoverable
  <2>2. \A p \in 1..Len(files'[i]) : ~(p > From(snap, i))
    BY <1>4
  <2> QED  BY Zenon, <1>3, <2>1, <2>2, SnapshotSuffices
<1>6. Recoverable(snap, files'[walOnDisk], synced'[walOnDisk], From(snap, walOnDisk), issued, acked)
  BY Zenon, <1>0, <1>1, <1>4 DEF Disk
<1>7. Disk'
  BY Zenon, <1>1, <1>2, <1>3, <1>5, <1>6 DEF Disk
<1>8. Files'
  BY Zenon, <1>0, <1>2, <1>4, EmptyFile DEF Files
<1>9. TypeOK'
  <2>1. << >> \in Seq(Piece) /\ 0 \in 0..MaxCommands /\ Len(<< >>) = 0 /\ 0 <= 0
    BY <1>0
  <2>2. files' \in [Inode -> Seq(Piece)] /\ synced' \in [Inode -> 0..MaxCommands]
    BY Zenon, <1>0, <1>1, <2>1
  <2>3. \A w \in Inode : synced'[w] <= Len(files'[w])
    BY Zenon, <1>0, <1>4, <2>1 DEF TypeOK
  <2> QED  BY Zenon, <1>0, <1>1, <1>2, <2>2, <2>3 DEF TypeOK
<1>10. Names'
  BY Zenon, <1>0, <1>2 DEF Names, Holds
<1>11. Process'
  BY Zenon, <1>0, <1>2 DEF Process, Durability, AppliedOnce, Below
<1> QED  BY Zenon, <1>7, <1>8, <1>9, <1>10, <1>11 DEF JournalInv

\* The machine dies: one of the snapshots, one of the WALs, and what was synced
\* of it.
LEMMA OutageKeeps ==
    ASSUME JournalInv, Outage
    PROVE  JournalInv'
<1> DEFINE f == files[wal']
           k == synced[wal']
<1>0. TypeOK /\ Files /\ Disk
  BY Zenon DEF JournalInv
<1>1. /\ snap' \in {snap, snapOnDisk} /\ snapOnDisk' = snap'
      /\ wal' \in {wal, walOnDisk} /\ walOnDisk' = wal'
      /\ Exits /\ UNCHANGED <<acked, issued, crashes>>
  BY Zenon DEF Outage
<1>2. PICK rest \in Remains(f, k) :
        files' = [files EXCEPT ![wal'] = rest] /\ synced' = [synced EXCEPT ![wal'] = Len(rest)]
  BY Zenon DEF Outage
<1>3. /\ files \in [Inode -> Seq(Piece)] /\ synced \in [Inode -> 0..MaxCommands] /\ wal' \in Inode
      /\ f \in Seq(Piece) /\ k \in 0..Len(f) /\ issued \in Nat /\ issued \in 0..MaxCommands
      /\ MaxCommands \in Nat /\ From(snap', wal') \in Nat
      /\ snap \in Snapshot /\ snapOnDisk \in Snapshot
  BY Zenon, <1>0, <1>1, Typed
<1>4. FileSound(f, issued) /\ Recoverable(snap', f, k, From(snap', wal'), issued, acked)
  BY Zenon, <1>0, <1>1, <1>3 DEF Files, Disk
<1>5. /\ rest \in Seq(Piece) /\ FileSound(rest, issued)
      /\ k <= Len(rest) /\ Len(rest) <= Len(f)
      /\ \A p \in 1..k : rest[p] = f[p]
      /\ \A p \in 1..Len(rest) : rest[p].cmd = f[p].cmd
  BY ZenonT(30), <1>2, <1>3, <1>4, WhatRemains
<1>6. Recoverable(snap', rest, Len(rest), From(snap', wal'), issued, acked)
  BY Zenon, <1>3, <1>4, <1>5, RestIsRecoverable
<1>7. /\ files'[wal'] = rest /\ synced'[wal'] = Len(rest)
      /\ \A w \in Inode \ {wal'} : files'[w] = files[w] /\ synced'[w] = synced[w]
  BY Zenon, <1>2, <1>3
<1>8. Disk'
  BY Zenon, <1>1, <1>6, <1>7 DEF Disk
<1>9. Files'
  BY Zenon, <1>0, <1>1, <1>5, <1>7 DEF Files
<1>10. Len(rest) \in 0..MaxCommands /\ Len(rest) <= Len(rest)
  <2>1. Len(rest) \in Nat /\ Len(rest) <= issued
    BY <1>5 DEF FileSound
  <2> QED  BY <1>3, <2>1
<1>11. outages' \in 0..MaxOutages
  BY <1>0, JournalConstants DEF TypeOK, Outage, JournalConstants
<1>12. TypeOK'
  <2>1. files' \in [Inode -> Seq(Piece)] /\ synced' \in [Inode -> 0..MaxCommands]
    BY Zenon, <1>2, <1>3, <1>5, <1>10
  <2>2. \A w \in Inode : synced'[w] <= Len(files'[w])
    BY Zenon, <1>0, <1>7, <1>10 DEF TypeOK
  <2>3. snap' \in Snapshot /\ snapOnDisk' \in Snapshot /\ wal' \in Inode /\ walOnDisk' \in Inode
    BY Zenon, <1>1, <1>3
  <2>4. /\ pc' = "down" /\ open' = NoFile /\ applied' = << >> /\ applied' \in Seq(1..MaxCommands)
        /\ pc' \in {"down", "running", "refused", "written", "failed", "renamed", "saved", "replaced"}
    BY <1>1 DEF Exits
  <2> QED  BY Zenon, <1>0, <1>1, <1>11, <2>1, <2>2, <2>3, <2>4 DEF TypeOK
<1>13. pc' = "down" /\ applied' = << >>
  BY Zenon, <1>1 DEF Exits
<1>14. Names' /\ Process'
  BY <1>13 DEF Names, Process, Durability, AppliedOnce, Below
<1> QED  BY Zenon, <1>8, <1>9, <1>12, <1>14 DEF JournalInv

-----------------------------------------------------------------------------
(* The theorems.                                                           *)

\* An empty disk.
LEMMA JournalInit ==
    ASSUME Init
    PROVE  JournalInv
<1>1. MaxCommands \in Nat /\ MaxCrashes \in Nat /\ MaxOutages \in Nat
  BY Zenon, JournalConstants DEF JournalConstants
<1>2. NoSnapshot \in Snapshot /\ NoSnapshot.state = << >>
  BY DEF NoSnapshot, Snapshot
<1>3. /\ \A i \in Inode : files[i] = << >> /\ synced[i] = 0
      /\ wal \in Inode /\ walOnDisk = wal /\ snap = NoSnapshot /\ snapOnDisk = NoSnapshot
      /\ pc = "down" /\ open = NoFile /\ applied = << >> /\ acked = << >>
      /\ issued = 0 /\ crashes = 0 /\ outages = 0
  BY Zenon DEF Init
<1>4. files \in [Inode -> Seq(Piece)] /\ synced \in [Inode -> 0..MaxCommands]
  BY <1>1 DEF Init
<1>5. TypeOK
  BY <1>1, <1>2, <1>3, <1>4 DEF TypeOK
<1>6. Files
  BY Zenon, <1>3, EmptyFile, 0 \in Nat DEF Files
<1>7. Disk
  <2>1. Recoverable(NoSnapshot, << >>, 0, From(NoSnapshot, wal), 0, << >>)
    BY <1>2 DEF Recoverable, Increasing, Below
  <2> QED  BY Zenon, <1>3, <2>1 DEF Disk
<1>8. Names /\ Process
  BY <1>3 DEF Names, Process, Durability, AppliedOnce, Below
<1> QED  BY Zenon, <1>5, <1>6, <1>7, <1>8 DEF JournalInv

\* Shutdown and the death of the process: nothing on the disk changes but the
\* directory, which catches up.
LEMMA EndKeeps ==
    ASSUME JournalInv, ClearSync \/ SaveFails \/ Close \/ Crash
    PROVE  JournalInv'
<1>0. crashes \in 0..MaxCrashes /\ outages \in 0..MaxOutages
  BY Zenon DEF JournalInv, TypeOK
<1>1. CASE ClearSync
  BY Zenon, <1>0, <1>1, ExitKeeps DEF ClearSync
<1>2. CASE SaveFails
  BY Zenon, <1>0, <1>2, ExitKeeps DEF SaveFails, fileVars
<1>3. CASE Close
  BY Zenon, <1>0, <1>3, ExitKeeps DEF Close, fileVars
<1>4. CASE Crash
  <2>1. crashes' \in 0..MaxCrashes
    BY <1>0, <1>4, JournalConstants DEF Crash, JournalConstants
  <2> QED  BY Zenon, <1>0, <1>4, <2>1, ExitKeeps DEF Crash, fileVars
<1> QED  BY Zenon, <1>1, <1>2, <1>3, <1>4

\* Every step keeps the invariant.
LEMMA JournalStep ==
    ASSUME JournalInv, [Next]_vars
    PROVE  JournalInv'
<1>1. CASE Next
  BY Zenon, <1>1, StartKeeps, WriteKeeps, SyncKeeps, WriteFailsKeeps, SaveRenameKeeps, SaveSyncKeeps,
     ClearRenameKeeps, EndKeeps, OutageKeeps DEF Next
<1>2. CASE UNCHANGED vars
  <2> USE <1>2 DEF vars, fileVars
  <2>1. TypeOK'
    BY Zenon DEF JournalInv, TypeOK
  <2>2. Disk' /\ Files'
    BY Zenon, DiskFrame DEF JournalInv
  <2>3. Names'
    BY Zenon DEF JournalInv, Names, Holds
  <2>4. Process'
    BY Zenon DEF JournalInv, Process, Durability, AppliedOnce, Below, From
  <2> QED  BY Zenon, <2>1, <2>2, <2>3, <2>4 DEF JournalInv
<1> QED  BY Zenon, <1>1, <1>2

\* The disk is recoverable wherever the process and the machine die.
THEOREM JournalInvariant == Spec => []JournalInv
BY JournalInit, JournalStep, PTL DEF Spec

\* A server that has started has every command that was ever answered
\* (WAL.WriteEntry syncs before the answer; SaveWithWAL syncs the directory
\* before Clear), after any number of crashes, outages, failed writes and
\* failed checkpoints.
THEOREM AnswersSurvive == Spec => []Durability
<1>1. JournalInv => Durability
  BY Zenon DEF JournalInv, Process
<1> QED  BY <1>1, JournalInvariant, PTL

\* Recovery applies no command twice and none out of order
\* (restorePersistentState compares the WAL's identity and skips the part that
\* the snapshot contains).
THEOREM RecoveryAppliesOnce == Spec => []AppliedOnce
<1>1. JournalInv => AppliedOnce
  BY Zenon DEF JournalInv, Process
<1> QED  BY <1>1, JournalInvariant, PTL

\* Every WAL is synced up to a position inside it, and the process has a WAL open
\* exactly while it runs.
THEOREM JournalTyped == Spec => []TypeOK
<1>1. JournalInv => TypeOK
  BY Zenon DEF JournalInv
<1> QED  BY <1>1, JournalInvariant, PTL

=============================================================================
