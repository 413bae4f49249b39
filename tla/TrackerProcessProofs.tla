------------------------ MODULE TrackerProcessProofs ------------------------
(***************************************************************************)
(* Proofs about TrackerProcess and the snapshot file, for any number of    *)
(* registrations and process ends, under one condition: no save begins     *)
(* while another is under way (Overlap is FALSE).  The source does nothing *)
(* to guarantee it, and TLC shows what happens without it.                 *)
(*                                                                         *)
(* With one saver at a time (Solo) the file it writes is the one under the *)
(* temporary name (Handles, Ready) and never the one under the snapshot's  *)
(* own (Apart), and the states in the snapshot, in the saver's hands and   *)
(* in memory are in the order they were taken in (Ordered).                *)
(***************************************************************************)
EXTENDS TrackerProcess, TLAPS, FiniteSetTheorems

Resting == {"idle", "woken", "saved", "unsaved"}

FileTypes ==
  /\ known \in Nat
  /\ inode \in [{"tmp", "path"} -> {0} \cup Inodes]
  /\ file \in [Inodes -> SUBSET Nat]
  /\ pc \in [Savers -> Resting \cup {"open", "write", "rename"}]
  /\ data \in [Savers -> Nat]
  /\ fd \in [Savers -> {0} \cup Inodes]

Solo == \A s, x \in Savers : pc[s] \in Resting \/ pc[x] \in Resting \/ s = x

Handles ==
  \A s \in Savers :
    IF pc[s] = "write"
    THEN fd[s] # 0 /\ fd[s] = inode["tmp"] /\ file[fd[s]] = {}
    ELSE fd[s] = 0

Ready ==
  \A s \in Savers :
    pc[s] = "rename" /\ inode["tmp"] # 0 => file[inode["tmp"]] = {data[s]}

Apart == inode["tmp"] = inode["path"] => inode["tmp"] = 0

\* k is the state in the snapshot.
InOrder(k) ==
  /\ Snapshot = {k} /\ k <= known
  /\ \A s \in Savers : pc[s] \notin Resting => k <= data[s] /\ data[s] <= known
  /\ pc["main"] = "saved" => due <= k

Ordered == \E k \in Nat : InOrder(k)

\* main saves only after a signal, and saves all that had been accepted then.
Signals ==
  /\ due \in Nat /\ due <= known /\ running \in BOOLEAN
  /\ main \in {"check", "call", "accept", "failed", "save"}
  /\ signalled = "never" => running
  /\ main = "save" => ~running
  /\ pc["main"] # "idle" => main = "save"
  /\ pc["main"] \in {"open", "write", "rename"} => due <= data["main"]

SaveInv ==
  FileTypes /\ Solo /\ Handles /\ Ready /\ Apart /\ Ordered /\ Signals

-----------------------------------------------------------------------------
(* Files. *)

\* A complete file holds one state (what the loader returns).
LEMMA OneState ==
  \A k : Complete({k}) /\ The({k}) = k
  BY FS_Singleton DEF Complete, The

\* There are more inodes than open files: a new file finds one.
LEMMA InodesEnough == 1 \in Inodes /\ 2 \in Inodes /\ 0 \notin Inodes
  <1>1. IsFiniteSet({"snapshot_thread", "exit_thread", "main"})
    <2>1. IsFiniteSet({"main"}) /\ IsFiniteSet({"main"} \cup {"exit_thread"})
      BY FS_Singleton, FS_AddElement
    <2>2. IsFiniteSet(({"main"} \cup {"exit_thread"}) \cup {"snapshot_thread"})
      BY <2>1, FS_AddElement
    <2>3. ({"main"} \cup {"exit_thread"}) \cup {"snapshot_thread"} =
            {"snapshot_thread", "exit_thread", "main"}
      OBVIOUS
    <2> QED
      BY <2>2, <2>3
  <1>2. Cardinality(Savers) \in Nat
    BY <1>1, SaversAssumption, FS_Subset, FS_CardinalityType
  <1> QED
    BY <1>2 DEF Inodes

\* Opening the temporary file: it is empty, and not the snapshot.
LEMMA Truncated ==
  ASSUME FileTypes, Apart, NEW s \in Savers, \A x \in Savers : fd[x] = 0,
         Truncate(s, "tmp")
  PROVE  \E i \in Inodes : /\ i # inode["path"]
                           /\ inode' = [inode EXCEPT !["tmp"] = i]
                           /\ file' = [file EXCEPT ![i] = {}]
                           /\ fd' = [fd EXCEPT ![s] = i]
  <1> DEFINE taken == {inode["tmp"], inode["path"]} \cup {fd[x] : x \in Savers}
             fresh == CHOOSE j \in Inodes : j \notin taken
  <1>1. CASE inode["tmp"] # 0
    BY <1>1 DEF Truncate, FileTypes, Apart
  <1>2. CASE inode["tmp"] = 0
    <2>1. \E j \in Inodes : j \notin taken
      <3>1. \A x \in taken : x = 0 \/ x = inode["path"]
        BY <1>2
      <3> QED
        BY <3>1, InodesEnough
    <2>2. fresh \in Inodes /\ fresh # inode["path"]
      BY <2>1
    <2>3. /\ inode' = [inode EXCEPT !["tmp"] = fresh]
          /\ file' = [file EXCEPT ![fresh] = {}]
          /\ fd' = [fd EXCEPT ![s] = fresh]
      BY <1>2 DEF Truncate
    <2> QED
      BY <2>2, <2>3
  <1> QED
    BY <1>1, <1>2

-----------------------------------------------------------------------------
(* The invariant. *)

\* A first start: no file, nothing known.
LEMMA SaveInitInv == Init => SaveInv
  <1> SUFFICES ASSUME Init PROVE SaveInv
    OBVIOUS
  <1> USE SaversAssumption DEF Init, FileInit, Resting
  <1>1. FileTypes /\ Solo /\ Handles /\ Ready /\ Apart /\ Signals
    BY DEF FileTypes, Solo, Handles, Ready, Apart, Signals
  <1>2. InOrder(0)
    BY DEF InOrder, Snapshot
  <1> QED
    BY <1>1, <1>2 DEF SaveInv, Ordered

\* main's own steps, the signal and registrations leave files and savers alone.
LEMMA ControlStep ==
  ASSUME SaveInv,
         \/ Check \/ EnterAccept \/ AcceptClient \/ AfterFailure \/ Signal
         \/ Register /\ UNCHANGED mainVars
         \/ UNCHANGED vars
  PROVE  SaveInv'
  <1> USE SaversAssumption DEF SaveInv
  <1>1. /\ UNCHANGED <<inode, file, pc, data, fd>>
        /\ known' \in Nat /\ known' >= known
    BY DEF FileTypes, Check, EnterAccept, AcceptClient, AfterFailure, Signal,
           Register, vars, fileVars
  <1>2. FileTypes' /\ Solo' /\ Handles' /\ Ready' /\ Apart'
    BY <1>1 DEF FileTypes, Solo, Handles, Ready, Apart
  <1>3. Signals'
    <2>1. CASE Signal
      BY <1>1, <2>1 DEF Signal, Signals, FileTypes, Resting, fileVars
    <2>2. CASE ~Signal
      BY <1>1, <2>2 DEF Signals, FileTypes, Check, EnterAccept, AcceptClient,
             AfterFailure, Register, mainVars, vars, fileVars
    <2> QED
      BY <2>1, <2>2
  <1>4. Ordered'
    <2>1. PICK k \in Nat : InOrder(k)
      BY DEF Ordered
    <2>2. pc["main"] = "saved" => due' = due
      BY DEF Signals, Check, EnterAccept, AcceptClient, AfterFailure, Signal,
             Register, mainVars, vars
    <2>3. InOrder(k)'
      BY <1>1, <2>1, <2>2 DEF InOrder, Snapshot, FileTypes
    <2> QED
      BY <2>3 DEF Ordered
  <1> QED
    BY <1>2, <1>3, <1>4

\* The snapshot thread wakes.
LEMMA WakeStep ==
  ASSUME SaveInv, PeriodicWake
  PROVE  SaveInv'
  <1> USE SaversAssumption DEF SaveInv, PeriodicWake, mainVars, Resting
  <1>1. FileTypes' /\ Solo' /\ Handles' /\ Ready' /\ Apart' /\ Signals'
    BY DEF FileTypes, Solo, Handles, Ready, Apart, Signals
  <1>2. PICK k \in Nat : InOrder(k)
    BY DEF Ordered
  <1>3. InOrder(k)'
    BY <1>2 DEF InOrder, Snapshot, FileTypes
  <1> QED
    BY <1>1, <1>3 DEF Ordered

\* A save begins, alone: what it takes is what the tracker knows.
LEMMA BeginStep ==
  ASSUME ~Overlap, SaveInv, NEW s \in Savers, MayBegin(s), Serialize(s),
         s = "main" => main = "save", UNCHANGED mainVars
  PROVE  SaveInv'
  <1> USE SaversAssumption DEF SaveInv, Serialize, mainVars, Resting
  <1>1. \A x \in Savers : pc[x] \in Resting
    BY DEF MayBegin
  <1>2. FileTypes' /\ Solo' /\ Handles' /\ Ready' /\ Apart'
    BY <1>1 DEF FileTypes, Solo, Handles, Ready, Apart
  <1>3. Signals'
    BY DEF Signals, FileTypes
  <1>4. PICK k \in Nat : InOrder(k)
    BY DEF Ordered
  <1>5. InOrder(k)'
    BY <1>1, <1>4 DEF InOrder, Snapshot, FileTypes
  <1> QED
    BY <1>2, <1>3, <1>5 DEF Ordered

\* A save goes on: a new temporary file, its bytes, and its new name.
LEMMA SavingStep ==
  ASSUME SaveInv, NEW s \in Savers, SaveStep(s), UNCHANGED mainVars
  PROVE  SaveInv'
  <1> USE SaversAssumption DEF SaveInv, mainVars, Resting
  <1>1. PICK k \in Nat : InOrder(k)
    BY DEF Ordered
  <1>2. \A x \in Savers : x # s => pc[x] \in Resting /\ fd[x] = 0
    BY DEF SaveStep, Solo, Handles, Open, OpenFails, Write, WriteFails, Rename
  <1>3. CASE Open(s)
    <2>1. \A x \in Savers : fd[x] = 0
      BY <1>3 DEF Open, Handles, Solo
    <2>2. PICK i \in Inodes : /\ i # inode["path"]
                              /\ inode' = [inode EXCEPT !["tmp"] = i]
                              /\ file' = [file EXCEPT ![i] = {}]
                              /\ fd' = [fd EXCEPT ![s] = i]
      BY <1>3, <2>1, Truncated DEF Open
    <2>3. pc[s] = "open" /\ pc' = [pc EXCEPT ![s] = "write"]
          /\ UNCHANGED <<known, data, deaths>>
      BY <1>3 DEF Open
    <2>4. FileTypes' /\ Solo' /\ Apart' /\ Ready'
      BY <1>2, <2>2, <2>3, InodesEnough DEF FileTypes, Solo, Apart, Ready
    <2>5. Handles'
      BY <1>2, <2>2, <2>3, InodesEnough DEF FileTypes, Handles
    <2>6. Signals'
      BY <2>3 DEF Signals, FileTypes
    <2>7. InOrder(k)'
      BY <1>1, <1>2, <2>2, <2>3 DEF InOrder, Snapshot, FileTypes
    <2> QED
      BY <2>4, <2>5, <2>6, <2>7 DEF Ordered
  <1>4. CASE OpenFails(s)
    <2> USE <1>4 DEF OpenFails, Return
    <2>1. FileTypes' /\ Solo' /\ Apart'
      BY <1>2 DEF FileTypes, Solo, Apart
    <2>2. Handles' /\ Ready'
      BY <1>2 DEF FileTypes, Handles, Ready
    <2>3. Signals'
      BY DEF Signals, FileTypes
    <2>4. InOrder(k)'
      BY <1>1, <1>2 DEF InOrder, Snapshot, FileTypes
    <2> QED
      BY <2>1, <2>2, <2>3, <2>4 DEF Ordered
  <1>5. CASE Write(s)
    <2>1. /\ pc[s] = "write" /\ fd[s] \in Inodes /\ fd[s] = inode["tmp"]
          /\ file[fd[s]] = {} /\ fd[s] # inode["path"]
          /\ file' = [file EXCEPT ![fd[s]] = {data[s]}]
          /\ pc' = [pc EXCEPT ![s] = "rename"] /\ fd' = [fd EXCEPT ![s] = 0]
          /\ UNCHANGED <<known, inode, data, deaths>>
      BY <1>5 DEF Write, Handles, FileTypes, Apart
    <2>2. FileTypes' /\ Solo' /\ Apart'
      BY <1>2, <2>1 DEF FileTypes, Solo, Apart
    <2>3. Handles' /\ Ready'
      BY <1>2, <2>1 DEF FileTypes, Handles, Ready
    <2>4. Signals'
      BY <2>1 DEF Signals, FileTypes
    <2>5. InOrder(k)'
      BY <1>1, <1>2, <2>1 DEF InOrder, Snapshot, FileTypes
    <2> QED
      BY <2>2, <2>3, <2>4, <2>5 DEF Ordered
  <1>6. CASE WriteFails(s)
    <2> USE <1>6 DEF WriteFails, Return
    <2>1. FileTypes' /\ Solo' /\ Apart'
      BY <1>2 DEF FileTypes, Solo, Apart
    <2>2. Handles' /\ Ready'
      BY <1>2 DEF FileTypes, Handles, Ready
    <2>3. Signals'
      BY DEF Signals, FileTypes
    <2>4. InOrder(k)'
      BY <1>1, <1>2 DEF InOrder, Snapshot, FileTypes
    <2> QED
      BY <2>1, <2>2, <2>3, <2>4 DEF Ordered
  <1>7. CASE Rename(s)
    <2>1. CASE /\ inode["tmp"] # 0
               /\ inode' = [n \in {"tmp", "path"} |->
                              IF n = "path" THEN inode["tmp"] ELSE 0]
               /\ Return(s, TRUE)
      <3>1. /\ pc[s] = "rename" /\ UNCHANGED <<known, file, deaths>>
            /\ file[inode["tmp"]] = {data[s]}
            /\ inode'["tmp"] = 0 /\ inode'["path"] = inode["tmp"]
        BY <1>7, <2>1 DEF Rename, Ready
      <3> USE <2>1 DEF Return
      <3>2. FileTypes' /\ Solo' /\ Apart'
        BY <1>2, <3>1 DEF FileTypes, Solo, Apart
      <3>3. Handles' /\ Ready'
        BY <1>2, <3>1 DEF FileTypes, Handles, Ready
      <3>4. Signals'
        BY <3>1 DEF Signals, FileTypes
      <3>5. k <= data[s] /\ data[s] <= known /\ data[s] \in Nat
        BY <1>1, <3>1 DEF InOrder, FileTypes
      <3>6. PICK e \in Nat : e = data[s]
        BY <3>5
      <3>7. InOrder(e)'
        <4>1. Snapshot' = {e}
          BY <3>1, <3>6 DEF Snapshot
        <4>2. \A x \in Savers : pc'[x] \in Resting
          BY <1>2 DEF FileTypes
        <4>3. pc'["main"] = "saved" => due <= e
          BY <1>1, <3>1, <3>5, <3>6 DEF InOrder, FileTypes, Signals
        <4> QED
          BY <3>1, <3>5, <3>6, <4>1, <4>2, <4>3 DEF InOrder
      <3> QED
        BY <3>2, <3>3, <3>4, <3>7 DEF Ordered
    <2>2. CASE inode' = [inode EXCEPT !["tmp"] = 0] /\ Return(s, FALSE)
      <3> USE <1>7, <2>2 DEF Rename, Return
      <3>1. FileTypes' /\ Solo' /\ Apart'
        BY <1>2 DEF FileTypes, Solo, Apart
      <3>2. Handles' /\ Ready'
        BY <1>2 DEF FileTypes, Handles, Ready
      <3>3. Signals'
        BY DEF Signals, FileTypes
      <3>4. InOrder(k)'
        BY <1>1, <1>2 DEF InOrder, Snapshot, FileTypes
      <3> QED
        BY <3>1, <3>2, <3>3, <3>4 DEF Ordered
    <2> QED
      BY <1>7, <2>1, <2>2 DEF Rename
  <1> QED
    BY <1>3, <1>4, <1>5, <1>6, <1>7 DEF SaveStep

\* A new process loads the snapshot, whatever its predecessor left of a save.
LEMMA NewProcessStep ==
  ASSUME SaveInv, NewProcess
  PROVE  SaveInv'
  <1> USE SaversAssumption DEF SaveInv, NewProcess, Restart, Resting
  <1>1. PICK k \in Nat : InOrder(k)
    BY DEF Ordered
  <1>2. known' = k
    BY <1>1, OneState DEF InOrder
  <1>3. FileTypes' /\ Solo' /\ Handles' /\ Ready' /\ Apart' /\ Signals'
    BY <1>2 DEF FileTypes, Solo, Handles, Ready, Apart, Signals
  <1>4. InOrder(k)'
    BY <1>1, <1>2 DEF InOrder, Snapshot, FileTypes
  <1> QED
    BY <1>3, <1>4 DEF Ordered

-----------------------------------------------------------------------------
(* The theorems. *)

\* Every step of the tracker process keeps the invariant.
LEMMA SaveInvStep ==
  ASSUME ~Overlap, SaveInv, [Next]_vars
  PROVE  SaveInv'
  <1>1. CASE MainStep
    BY <1>1, ControlStep, BeginStep, SavingStep DEF MainStep, FinalSave
  <1>2. CASE PeriodicSave \/ QuitSave
    BY <1>2, BeginStep DEF PeriodicSave, QuitSave
  <1>3. CASE \E s \in Others : ThreadStep(s)
    BY <1>3, SavingStep DEF Others, ThreadStep
  <1> QED
    BY <1>1, <1>2, <1>3, ControlStep, WakeStep, NewProcessStep DEF Next

\* What a step of a save does to the snapshot: nothing, until the new file gets
\* its name.
LEMMA SnapshotStep ==
  ASSUME SaveInv, NEW s \in Savers, SaveStep(s)
  PROVE  \/ Snapshot' = Snapshot
         \/ pc[s] = "rename" /\ Snapshot' = {data[s]}
  <1> USE DEF SaveInv
  <1>1. CASE Open(s)
    <2>1. \A x \in Savers : fd[x] = 0
      BY <1>1 DEF Open, Handles, Solo, Resting
    <2>2. \E i \in Inodes : /\ i # inode["path"]
                            /\ inode' = [inode EXCEPT !["tmp"] = i]
                            /\ file' = [file EXCEPT ![i] = {}]
      BY <1>1, <2>1, Truncated DEF Open
    <2> QED
      BY <2>2 DEF Snapshot, FileTypes
  <1>2. CASE Write(s)
    BY <1>2 DEF Write, Handles, Apart, Snapshot, FileTypes
  <1>3. CASE OpenFails(s) \/ WriteFails(s)
    BY <1>3 DEF OpenFails, WriteFails, Snapshot, FileTypes
  <1>4. CASE Rename(s)
    BY <1>4 DEF Rename, Ready, Snapshot, FileTypes
  <1> QED
    BY <1>1, <1>2, <1>3, <1>4 DEF SaveStep

\* SaveInvariant: the invariant holds in every state of the tracker process, if
\* no two saves overlap.
THEOREM SaveInvariant == ASSUME ~Overlap PROVE Spec => []SaveInv
  <1>1. SaveInv /\ [Next]_vars => SaveInv'
    BY SaveInvStep
  <1> QED
    BY <1>1, SaveInitInv, PTL DEF Spec

\* SnapshotAlwaysGood: if no two saves overlap, the snapshot under its own name
\* is complete at every moment, over failed writes, kills and restarts.
THEOREM SnapshotAlwaysGood == ASSUME ~Overlap PROVE Spec => []GoodSnapshot
  <1>1. SaveInv => GoodSnapshot
    BY OneState DEF SaveInv, Ordered, InOrder, GoodSnapshot
  <1> QED
    BY <1>1, SaveInvariant, PTL

\* ShutdownLosesNothing: if no two saves overlap, a last save that succeeds has
\* every registration accepted before the signal.
THEOREM ShutdownLosesNothing == ASSUME ~Overlap PROVE Spec => []ShutdownKeeps
  <1>1. SaveInv => ShutdownKeeps
    BY OneState DEF SaveInv, Ordered, InOrder, ShutdownKeeps
  <1> QED
    BY <1>1, SaveInvariant, PTL

\* The step of NeverGoesBack.
Grows ==
  Complete(Snapshot) /\ Complete(Snapshot') => The(Snapshot') >= The(Snapshot)

\* SnapshotsGrow: if no two saves overlap, no step replaces the snapshot by an
\* older state.
THEOREM SnapshotsGrow == ASSUME ~Overlap PROVE Spec => NeverGoesBack
  <1>1. SaveInv /\ [Next]_vars => [Grows]_fileVars
    <2> SUFFICES ASSUME SaveInv, Next \/ UNCHANGED vars PROVE Grows \/ UNCHANGED fileVars
      OBVIOUS
    <2>1. PICK k \in Nat : InOrder(k)
      BY DEF SaveInv, Ordered
    <2>2. ASSUME NEW e \in Nat, Snapshot' = {e}, k <= e
          PROVE  Grows
      BY <2>1, <2>2, OneState DEF InOrder, Grows
    <2>3. Snapshot' = Snapshot => Grows
      BY <2>1, <2>2 DEF InOrder
    <2>4. ASSUME NEW s \in Savers, SaveStep(s)
          PROVE  Grows
      <3>1. \/ Snapshot' = Snapshot
            \/ pc[s] = "rename" /\ Snapshot' = {data[s]}
        BY <2>4, SnapshotStep
      <3>2. CASE pc[s] = "rename" /\ Snapshot' = {data[s]}
        <4>1. data[s] \in Nat /\ k <= data[s]
          BY <2>1, <3>2 DEF InOrder, SaveInv, FileTypes, Resting
        <4> QED
          BY <2>2, <3>2, <4>1
      <3> QED
        BY <2>3, <3>1, <3>2
    <2>5. \/ \E s \in Savers : SaveStep(s)
          \/ UNCHANGED <<inode, file>>
      BY DEF Next, MainStep, Check, EnterAccept, AfterFailure, FinalSave,
             AcceptClient, Signal, PeriodicWake, PeriodicSave, QuitSave,
             Serialize, ThreadStep, Others, Register, NewProcess, Restart,
             fileVars, vars
    <2> QED
      BY <2>3, <2>4, <2>5 DEF Snapshot
  <1> QED
    BY <1>1, SaveInvariant, PTL DEF Spec, NeverGoesBack, Grows
=============================================================================
