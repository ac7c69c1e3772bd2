------------------------------ MODULE Journal ------------------------------
(***************************************************************************)
(* What a server keeps on disk (storage/wal.go) and how NewServer, the     *)
(* apply loop and Shutdown use it: appends that are synced before they are *)
(* answered, a checkpoint that writes a snapshot, then replaces the WAL by *)
(* an empty file, and the restart that puts the two together again.        *)
(*                                                                         *)
(* A process may die between any two steps, and so may the machine: then   *)
(* writes and renames that were not synced survive or do not.  Commands    *)
(* are numbered in the order they are applied, and the state of the store  *)
(* is the sequence of the commands it is made of.                          *)
(***************************************************************************)
EXTENDS Integers, Sequences

CONSTANTS
    Inode,        \* inodes for the WAL file, used again once they are free
    NoFile,       \* no inode
    HasSnapshot,  \* the server was started with a snapshot file
    Torn,         \* a write may reach the disk in part
    MaxCommands,  \* bound: commands
    MaxCrashes,   \* bound: deaths of the process
    MaxOutages    \* bound: deaths of the machine

ASSUME JournalConstants ==
    /\ NoFile \notin Inode
    /\ HasSnapshot \in BOOLEAN /\ Torn \in BOOLEAN
    /\ MaxCommands \in Nat /\ MaxCrashes \in Nat /\ MaxOutages \in Nat

VARIABLES
    files,     \* contents of the inodes: pieces of [cmd, ended]; a piece that
               \* is not ended lacks its newline
    synced,    \* pieces of each file that are on the disk
    wal,       \* the inode the WAL's name leads to
    walOnDisk, \* the same, in the directory on the disk
    snap,      \* the snapshot the snapshot's name leads to
    snapOnDisk,
    pc,        \* where the process is
    open,      \* the inode WAL.file has open
    applied,   \* the commands in the state of the process
    acked,     \* the commands that were answered
    issued,    \* number of commands so far
    crashes, outages

fileVars == <<files, synced, wal, walOnDisk, snap, snapOnDisk>>
vars == <<fileVars, pc, open, applied, acked, issued, crashes, outages>>

NoSnapshot == [state |-> << >>, walID |-> NoFile, walOffset |-> 0]

Init ==
    /\ files = [i \in Inode |-> << >>]
    /\ synced = [i \in Inode |-> 0]
    /\ wal \in Inode /\ walOnDisk = wal
    /\ snap = NoSnapshot /\ snapOnDisk = NoSnapshot
    /\ pc = "down" /\ open = NoFile
    /\ applied = << >> /\ acked = << >>
    /\ issued = 0 /\ crashes = 0 /\ outages = 0

-----------------------------------------------------------------------------
(* Starting: NewWAL, NewSnapshot, restorePersistentState.                  *)

Boundary(file, offset) == offset = 0 \/ (offset \in 1..Len(file) /\ file[offset].ended)

\* What decodeEntries reads ends with the last newline, if there is one.
LastNewline(file) ==
    CHOOSE n \in 0..Len(file) : Boundary(file, n) /\ \A i \in (n + 1)..Len(file) : ~file[i].ended

\* A piece without its newline spoils the line that follows it.
Decodes(file, offset) ==
    Boundary(file, offset) /\ \A i \in (offset + 1)..LastNewline(file) : file[i].ended

Entries(file, offset) ==
    [n \in 1..(LastNewline(file) - offset) |-> file[offset + n].cmd]

\* Mutant: the whole WAL is replayed on top of the snapshot.
ReplayFromStart == 0

\* The part of the WAL that the snapshot contains already.
ReplayFrom == IF snap.walID = wal THEN snap.walOffset ELSE 0

Start ==
    /\ pc = "down"
    /\ walOnDisk' = wal /\ snapOnDisk' = snap
    /\ open' = wal
    /\ IF Decodes(files[wal], ReplayFrom)
       THEN pc' = "running" /\ applied' = snap.state \o Entries(files[wal], ReplayFrom)
       ELSE pc' = "refused" /\ applied' = << >>
    /\ UNCHANGED <<files, synced, wal, snap, acked, issued, crashes, outages>>

-----------------------------------------------------------------------------
(* The apply loop: WAL.WriteEntry, then the command and its answer.        *)

Append1(piece) == files' = [files EXCEPT ![open] = Append(@, piece)]

Write ==
    /\ pc = "running" /\ issued < MaxCommands
    /\ issued' = issued + 1
    /\ Append1([cmd |-> issued', ended |-> TRUE])
    /\ pc' = "written"
    /\ UNCHANGED <<synced, wal, walOnDisk, snap, snapOnDisk, open, applied, acked, crashes, outages>>

Sync ==
    /\ pc = "written"
    /\ synced' = [synced EXCEPT ![open] = Len(files[open])]
    /\ applied' = Append(applied, issued) /\ acked' = Append(acked, issued)
    /\ pc' = "running"
    /\ UNCHANGED <<files, wal, walOnDisk, snap, snapOnDisk, open, issued, crashes, outages>>

\* WriteEntry returns an error, of the write or of the sync: no command is
\* applied any more and Shutdown saves nothing.
WriteFails ==
    /\ pc = "running" /\ issued < MaxCommands
    /\ issued' = issued + 1
    /\ \/ UNCHANGED files
       \/ Append1([cmd |-> issued', ended |-> TRUE])
       \/ Torn /\ Append1([cmd |-> issued', ended |-> FALSE])
    /\ pc' = "failed"
    /\ UNCHANGED <<synced, wal, walOnDisk, snap, snapOnDisk, open, applied, acked, crashes, outages>>

-----------------------------------------------------------------------------
(* Shutdown: savePersistentState, that is SaveWithWAL and Clear.           *)

\* Mutant: the file is not closed.
ExitsOpen == pc' = "down" /\ applied' = << >> /\ UNCHANGED open

Exits == pc' = "down" /\ open' = NoFile /\ applied' = << >>

\* The temporary file is complete and synced before it takes the name.
SaveRename ==
    /\ pc = "running" /\ HasSnapshot
    /\ snap' = [state |-> applied, walID |-> open, walOffset |-> Len(files[open])]
    /\ pc' = "renamed"
    /\ UNCHANGED <<files, synced, wal, walOnDisk, snapOnDisk, open, applied, acked, issued, crashes,
                   outages>>

\* Mutant: SaveWithWAL leaves the directory alone.
SaveNoSync ==
    /\ pc = "renamed"
    /\ pc' = "saved"
    /\ UNCHANGED <<fileVars, open, applied, acked, issued, crashes, outages>>

SaveSync ==
    /\ pc = "renamed"
    /\ snapOnDisk' = snap
    /\ pc' = "saved"
    /\ UNCHANGED <<files, synced, wal, walOnDisk, snap, open, applied, acked, issued, crashes, outages>>

\* An inode is free when no name leads to it and nobody has it open.
ClearRename ==
    /\ pc = "saved"
    /\ \E i \in Inode \ {wal, walOnDisk, open} :
        /\ files' = [files EXCEPT ![i] = << >>] /\ synced' = [synced EXCEPT ![i] = 0]
        /\ wal' = i
    /\ pc' = "replaced"
    /\ UNCHANGED <<walOnDisk, snap, snapOnDisk, open, applied, acked, issued, crashes, outages>>

\* The new file is opened, the old one closed, the directory synced, and
\* Shutdown closes both files.
ClearSync ==
    /\ pc = "replaced"
    /\ walOnDisk' = wal
    /\ Exits
    /\ UNCHANGED <<files, synced, wal, snap, snapOnDisk, acked, issued, crashes, outages>>

\* A file cannot be written, renamed, opened, closed or synced at any step of
\* the checkpoint: SaveWithWAL or Clear returns the error, nothing that was
\* done is undone and nothing that is left is done, and Shutdown closes the
\* files.
SaveFails ==
    /\ pc \in {"running", "renamed", "saved", "replaced"} /\ HasSnapshot
    /\ Exits
    /\ UNCHANGED <<fileVars, acked, issued, crashes, outages>>

\* Shutdown without a snapshot to write, or after a failed write or start.
Close ==
    /\ pc \in {"failed", "refused"} \/ (pc = "running" /\ ~HasSnapshot)
    /\ Exits
    /\ UNCHANGED <<fileVars, acked, issued, crashes, outages>>

-----------------------------------------------------------------------------
(* Crashes (external).                                                     *)

Crash ==
    /\ pc # "down" /\ crashes < MaxCrashes
    /\ crashes' = crashes + 1
    /\ Exits
    /\ UNCHANGED <<fileVars, acked, issued, outages>>

\* What may be left of a file: its synced part, some of the rest, and perhaps
\* a part of the next piece.
Remains(file, n) ==
    {SubSeq(file, 1, m) : m \in n..Len(file)} \cup
    {Append(SubSeq(file, 1, m - 1), [file[m] EXCEPT !.ended = FALSE]) :
        m \in IF Torn THEN (n + 1)..Len(file) ELSE {}}

\* The machine dies.  Nobody looks at a WAL that no name leads to.
Outage ==
    /\ outages < MaxOutages
    /\ outages' = outages + 1
    /\ snap' \in {snap, snapOnDisk} /\ snapOnDisk' = snap'
    /\ wal' \in {wal, walOnDisk} /\ walOnDisk' = wal'
    /\ \E rest \in Remains(files[wal'], synced[wal']) :
        /\ files' = [files EXCEPT ![wal'] = rest]
        /\ synced' = [synced EXCEPT ![wal'] = Len(rest)]
    /\ Exits
    /\ UNCHANGED <<acked, issued, crashes>>

Next ==
    \/ Start
    \/ Write \/ Sync \/ WriteFails
    \/ SaveRename \/ SaveSync \/ ClearRename \/ ClearSync \/ SaveFails \/ Close
    \/ Crash \/ Outage

Spec == Init /\ [][Next]_vars

-----------------------------------------------------------------------------
(* Properties.                                                             *)

Piece == [cmd : 1..MaxCommands, ended : BOOLEAN]
Snapshot == [state : Seq(1..MaxCommands), walID : Inode \cup {NoFile}, walOffset : Nat]

\* The disk holds a WAL of pieces and a snapshot, and the process is at one of
\* the steps above.
TypeOK ==
    /\ files \in [Inode -> Seq(Piece)]
    /\ synced \in [Inode -> 0..MaxCommands] /\ \A i \in Inode : synced[i] <= Len(files[i])
    /\ wal \in Inode /\ walOnDisk \in Inode
    /\ snap \in Snapshot /\ snapOnDisk \in Snapshot
    /\ pc \in {"down", "running", "refused", "written", "failed", "renamed", "saved", "replaced"}
    /\ open \in Inode \cup {NoFile} /\ (open = NoFile <=> pc = "down")
    /\ applied \in Seq(1..MaxCommands) /\ acked \in Seq(1..MaxCommands)
    /\ issued \in 0..MaxCommands /\ crashes \in 0..MaxCrashes /\ outages \in 0..MaxOutages

\* A server that has started holds every command that was ever answered,
\* wherever a process or the machine died before: in an append, between the
\* snapshot and the new WAL, or in a torn write.
Durability ==
    pc \notin {"down", "refused"} =>
        \A i \in 1..Len(acked) : \E j \in 1..Len(applied) : applied[j] = acked[i]

\* Snapshot and WAL never overlap and never come in the wrong order: recovery
\* applies a command once, and after those before it.  A reused inode, or an
\* offset into a WAL that has been replaced, would break it.
AppliedOnce ==
    \A i \in 1..Len(applied) : \A j \in 1..(i - 1) : applied[j] < applied[i]

-----------------------------------------------------------------------------
(* What the code does not keep; see README.                                *)

\* "A crash can interrupt the last append. Only a newline-terminated record is
\* committed to the journal; ignore an incomplete final fragment."
\* (decodeEntries): no crash makes NewServer fail.
StartSucceeds == pc # "refused"

\* "Matching IDs mean the snapshot was written before the clear and its offset
\* splits the old WAL into included and new records."
\* (restorePersistentState).
OffsetSplitsWAL == snap.walID = wal => Boundary(files[wal], snap.walOffset)

=============================================================================
