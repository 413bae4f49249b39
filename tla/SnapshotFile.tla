---------------------------- MODULE SnapshotFile ----------------------------
(***************************************************************************)
(* save_snapshot against the file system: the state is serialised under    *)
(* the lock, written to "<path>.tmp" and renamed over "<path>". The        *)
(* snapshot thread does this every 30 seconds, the thread that reads the   *)
(* console does it for "quit", and main does it after a signal, without a  *)
(* lock between them and under the same temporary name.                    *)
(*                                                                         *)
(* What the tracker knows is the number of registrations it has accepted.  *)
(* A file is the set of the states written to it since it was truncated:   *)
(* {} while the bytes have not all arrived, {k} when it is complete, and a *)
(* larger set when two savers wrote different states over each other.      *)
(***************************************************************************)
EXTENDS Naturals, FiniteSets

CONSTANTS Savers,            \* the threads that call save_snapshot
          MaxRegistrations,  \* bound: registrations the tracker accepts
          MaxDeaths          \* bound: times the process ends

ASSUME SaversAssumption ==
  "main" \in Savers /\ Savers \subseteq {"snapshot_thread", "exit_thread", "main"}

VARIABLES known,   \* registrations in memory
          inode,   \* the file behind each of the two names, 0 for none
          file,    \* the content of each inode
          pc,      \* where each saver is in save_snapshot
          data,    \* what it has serialised
          fd,      \* the inode it has open, 0 for none
          deaths

fileVars == <<known, inode, file, pc, data, fd, deaths>>

Inodes == 1..(Cardinality(Savers) + 2)
Complete(content) == Cardinality(content) = 1
The(content) == CHOOSE k \in content : TRUE

\* The content under the snapshot's own name; with no file a tracker starts
\* with nothing, as over the snapshot of an empty state.
Snapshot == IF inode["path"] = 0 THEN {0} ELSE file[inode["path"]]

FileInit ==
  /\ known = 0
  /\ inode = [n \in {"tmp", "path"} |-> 0]
  /\ file = [i \in Inodes |-> {}]
  /\ pc = [s \in Savers |-> "idle"]
  /\ data = [s \in Savers |-> 0]
  /\ fd = [s \in Savers |-> 0]
  /\ deaths = 0

Register ==
  /\ known < MaxRegistrations
  /\ known' = known + 1
  /\ UNCHANGED <<inode, file, pc, data, fd, deaths>>

Serialize(s) ==
  /\ pc[s] \in {"idle", "woken"}
  /\ data' = [data EXCEPT ![s] = known]
  /\ pc' = [pc EXCEPT ![s] = "open"]
  /\ UNCHANGED <<known, inode, file, fd, deaths>>

\* save_snapshot returns. The snapshot thread goes back to sleep whether it was
\* successful or not; the two others end the process.
Return(s, ok) ==
  /\ pc' = [pc EXCEPT ![s] = IF s = "snapshot_thread" THEN "idle"
                             ELSE IF ok THEN "saved" ELSE "unsaved"]
  /\ data' = [data EXCEPT ![s] = 0]
  /\ fd' = [fd EXCEPT ![s] = 0]

\* Opening with ios::trunc empties the file of that name or makes a new one.
Truncate(s, name) ==
  LET taken == {inode["tmp"], inode["path"]} \cup {fd[x] : x \in Savers}
      i == IF inode[name] # 0 THEN inode[name]
           ELSE CHOOSE j \in Inodes : j \notin taken
  IN /\ inode' = [inode EXCEPT ![name] = i]
     /\ file' = [file EXCEPT ![i] = {}]
     /\ fd' = [fd EXCEPT ![s] = i]

\* Mutant: the snapshot is written in place.
Open_direct(s) ==
  /\ pc[s] = "open"
  /\ Truncate(s, "path")
  /\ pc' = [pc EXCEPT ![s] = "write"]
  /\ UNCHANGED <<known, data, deaths>>

Open(s) ==
  /\ pc[s] = "open"
  /\ Truncate(s, "tmp")
  /\ pc' = [pc EXCEPT ![s] = "write"]
  /\ UNCHANGED <<known, data, deaths>>

OpenFails(s) ==
  /\ pc[s] = "open"
  /\ Return(s, FALSE)
  /\ UNCHANGED <<known, inode, file, deaths>>

\* The bytes go to the open file, whatever its name is by now. Another saver
\* may have written there since it was truncated.
Write(s) ==
  /\ pc[s] = "write"
  /\ file' = [file EXCEPT ![fd[s]] = @ \cup {data[s]}]
  /\ pc' = [pc EXCEPT ![s] = "rename"]
  /\ fd' = [fd EXCEPT ![s] = 0]
  /\ UNCHANGED <<known, inode, data, deaths>>

\* The disk is full: the temporary file is removed by name.
WriteFails(s) ==
  /\ pc[s] = "write"
  /\ inode' = [inode EXCEPT !["tmp"] = 0]
  /\ Return(s, FALSE)
  /\ UNCHANGED <<known, file, deaths>>

\* rename takes the file that has the temporary name now, and fails if there
\* is none because the other saver was faster. Failing, for this or another
\* reason, the temporary file is removed.
Rename(s) ==
  /\ pc[s] = "rename"
  /\ \/ /\ inode["tmp"] # 0
        /\ inode' = [n \in {"tmp", "path"} |-> IF n = "path" THEN inode["tmp"] ELSE 0]
        /\ Return(s, TRUE)
     \/ /\ inode' = [inode EXCEPT !["tmp"] = 0]
        /\ Return(s, FALSE)
  /\ UNCHANGED <<known, file, deaths>>

\* Mutant: the new process does not load the snapshot.
Restart_empty ==
  /\ deaths < MaxDeaths
  /\ deaths' = deaths + 1
  /\ known' = 0
  /\ pc' = [s \in Savers |-> "idle"]
  /\ data' = [s \in Savers |-> 0]
  /\ fd' = [s \in Savers |-> 0]
  /\ UNCHANGED <<inode, file>>

\* The process ends, by exit, by the return from main or killed, and a new one
\* loads what it finds; of a damaged file it may keep anything (here nothing).
Restart ==
  /\ deaths < MaxDeaths
  /\ deaths' = deaths + 1
  /\ known' = IF Complete(Snapshot) THEN The(Snapshot) ELSE 0
  /\ pc' = [s \in Savers |-> "idle"]
  /\ data' = [s \in Savers |-> 0]
  /\ fd' = [s \in Savers |-> 0]
  /\ UNCHANGED <<inode, file>>

\* The rest of save_snapshot, one system call after the other.
SaveStep(s) == Open(s) \/ OpenFails(s) \/ Write(s) \/ WriteFails(s) \/ Rename(s)

-----------------------------------------------------------------------------
(* Properties.                                                             *)

\* The snapshot under its own name is complete at every moment: "a crash
\* mid-write leaves the previous good snapshot intact rather than a truncated
\* one" (persistence.cpp:244).
GoodSnapshot == Complete(Snapshot)

\* What is on disk is never replaced by an older state, over failed writes,
\* crashes and restarts.
NeverGoesBack ==
  [][(Complete(Snapshot) /\ Complete(Snapshot')) => The(Snapshot') >= The(Snapshot)]_fileVars
=============================================================================
