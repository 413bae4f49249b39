--------------------------- MODULE DownloadProofs ---------------------------
(***************************************************************************)
(* Proofs about Download, for any number of pieces, peers and attempts and *)
(* for any number of runs of the file that overlap, except where a theorem *)
(* says otherwise.                                                         *)
(*                                                                         *)
(*   RunInv      how the queue and the workers of one run divide its       *)
(*               pieces; types, the bound on attempts and the count of     *)
(*               pieces fetched rest on it.                                *)
(*   WrittenInv  what a piece is that anything calls completed.            *)
(*   WholeInv    the file is whole between its check and its announcement. *)
(*   CountInv    the slot's count and statuses follow the one run's.       *)
(***************************************************************************)
EXTENDS Download, FiniteSetTheorems, TLAPS

\* Worker w of run r has a piece.
Busy(r, w) == pc[r][w] \notin {"pop", "done"}
Saving == {"open", "copy", "flush", "lost"}

\* w is fetching its piece, or will be when its save_state returns.
Trying(r, w) ==
    \/ pc[r][w] = "fetch"
    \/ pc[r][w] \in Saving /\ status[r][job[r][w].piece] = "downloading"

\* The queue and the workers of a run divide its missing pieces among them.
Divided(r) ==
    /\ \A p \in queue[r] : status[r][p] # "completed"
    /\ \A w \in Workers : Busy(r, w) => job[r][w].piece \notin queue[r]
    /\ \A v, w \in Workers :
          Busy(r, v) /\ Busy(r, w) /\ v # w => job[r][v].piece # job[r][w].piece
    /\ \A w \in Workers : pc[r][w] \in {"fetch", "mark", "fail"}
                          => status[r][job[r][w].piece] = "downloading"

\* Workers run only while thread 0 waits for them, and none leaves before the
\* queue is empty.
Joined(r) ==
    /\ pc[r][0] # "work" => \A w \in Workers : pc[r][w] = "done"
    /\ (\E w \in Workers : pc[r][w] = "done") => queue[r] = {}

\* The attempts spent on a piece before the peer whose turn it is: fewer than
\* MaxRetries at the start of a round, and one more at most per peer.
Bounded(r) ==
    \A w \in Workers :
        Trying(r, w) => job[r][w].attempt + 2 <= MaxRetries + job[r][w].turn

RunOK(r) == Divided(r) /\ Joined(r) /\ Bounded(r)
RunInv == \A r \in Runs : RunOK(r)

TypeInv == TypeOK /\ RunInv

-----------------------------------------------------------------------------
(* Types and the division of the pieces. *)

\* The threads of a run, and that thread 0 is no worker.
LEMMA ThreadSets ==
  /\ 0 \in Threads /\ 0 \notin Workers /\ Workers \subseteq Threads
  /\ Threads \ {0} = Workers /\ Workers # {} /\ 1 \in Workers
  /\ 1 \in Pieces /\ NumPieces \in Pieces
  BY SizesAssumption DEF Threads, Workers, Pieces

\* The value types of TypeOK.
Slots == [active : BOOLEAN, listed : BOOLEAN, status : [Pieces -> Status],
          done : Nat]
Jobs == [piece : Pieces, turn : Workers, attempt : 0..(MaxRetries + NumPeers)]
PlacesOK ==
    /\ pc \in [Runs -> [Threads -> RunPlaces \cup WorkerPlaces]]
    /\ \A r \in Runs : pc[r][0] \in RunPlaces
                       /\ \A w \in Workers : pc[r][w] \in WorkerPlaces

\* A thread goes on to another place of its own kind.
LEMMA GoTypes ==
  ASSUME PlacesOK, NEW r \in Runs, NEW t \in Threads, NEW there, Go(r, t, there),
         t = 0 => there \in RunPlaces, t # 0 => there \in WorkerPlaces
  PROVE  /\ PlacesOK' /\ pc'[r][t] = there
         /\ \A q \in Runs, v \in Threads : q # r \/ v # t => pc'[q][v] = pc[q][v]
  BY ThreadSets DEF PlacesOK, Go

\* The values the entry of downloads_ takes.
LEMMA SlotTypes ==
  /\ \A b \in BOOLEAN : Placeholder(b) \in Slots
  /\ \A st \in [Pieces -> Status] :
        [active |-> TRUE, listed |-> TRUE, status |-> st, done |-> 0] \in Slots
  /\ slot \in Slots => Released \in Slots
  /\ slot \in Slots => \A p \in Pieces, st \in Status : SlotMarked(p, st) \in Slots
  /\ \A s \in Slots : [s EXCEPT !.done = @ + 1] \in Slots
  <1>1. \A b \in BOOLEAN : Placeholder(b) \in Slots
    BY DEF Placeholder, Slots, AllPending, Status
  <1>2. \A st \in [Pieces -> Status] :
          [active |-> TRUE, listed |-> TRUE, status |-> st, done |-> 0] \in Slots
    BY DEF Slots
  <1>3. slot \in Slots => Released \in Slots
    BY DEF Slots, Released
  <1>4. slot \in Slots => \A p \in Pieces, st \in Status : SlotMarked(p, st) \in Slots
    BY DEF Slots, SlotMarked
  <1>5. \A s \in Slots : [s EXCEPT !.done = @ + 1] \in Slots
    BY DEF Slots
  <1> QED
    BY <1>1, <1>2, <1>3, <1>4, <1>5

\* TypeOK in these terms.
Shaped ==
    /\ slot \in Slots /\ PlacesOK
    /\ status \in [Runs -> [Pieces -> Status]]
    /\ queue \in [Runs -> SUBSET Pieces]
    /\ job \in [Runs -> [Workers -> Jobs]]
    /\ copy \in [Runs -> [Threads -> [Pieces -> Status]]]
    /\ out \in [Pieces -> {"missing", "clipped", "good"}]
    /\ sidecar \in [Pieces -> Status]
    /\ registered \in BOOLEAN /\ seeding \in BOOLEAN

\* Shaped is TypeOK, before and after a step.
LEMMA TypeParts == (TypeOK <=> Shaped) /\ (TypeOK' <=> Shaped')
  BY DEF TypeOK, Slots, PlacesOK, Jobs, Shaped

USE DEF Shaped

\* A client that has just started (the constructor of Downloader).
LEMMA InitTypes == Init => TypeInv
  <1> SUFFICES ASSUME Init PROVE TypeInv
    OBVIOUS
  <1>1. PlacesOK
    BY ThreadSets DEF Init, PlacesOK, Quiet, RunPlaces, WorkerPlaces
  <1>2. NoJob \in Jobs
    BY ThreadSets, SizesAssumption DEF NoJob, Jobs
  <1>3. AllPending \in [Pieces -> Status]
    BY DEF AllPending, Status
  <1>4. TypeOK
    <2>1. slot \in Slots
      BY SlotTypes DEF Init
    <2>2. registered \in BOOLEAN /\ seeding \in BOOLEAN
      BY DEF Init
    <2>3. out \in [Pieces -> {"missing", "clipped", "good"}]
      BY DEF Init
    <2> QED
      BY <1>1, <1>2, <1>3, <2>1, <2>2, <2>3, TypeParts DEF Init
  <1>5. \A r \in Runs : RunOK(r)
    BY ThreadSets
    DEF Init, RunOK, Divided, Joined, Bounded, Busy, Trying, Saving, Quiet
  <1> QED
    BY <1>4, <1>5 DEF TypeInv, RunInv

\* The steps of start() and of thread 0 keep the types (start, run).
LEMMA RunTypes ==
  ASSUME TypeInv, NEW r \in Runs, Start(r) \/ RunStep(r)
  PROVE  TypeOK'
  <1>0. /\ TypeOK /\ slot \in Slots /\ PlacesOK
        /\ 0 \in Threads /\ 0 \notin Workers
        /\ AllPending \in [Pieces -> Status]
    BY TypeParts, ThreadSets DEF TypeInv, AllPending, Status
  <1>1. CASE Start(r)
    <2>1. PlacesOK'
      BY <1>0, <1>1, GoTypes DEF Start, RunPlaces
    <2>2. slot' \in Slots
      BY <1>1, SlotTypes DEF Start
    <2> QED
      BY <1>0, <1>1, <2>1, <2>2, TypeParts DEF Start, diskVars, shareVars
  <1>2. CASE Metadata(r) \/ ReadSidecar(r)
    <2>1. PlacesOK'
      BY <1>0, <1>2, GoTypes DEF Metadata, ReadSidecar, RunPlaces
    <2> QED
      BY <1>0, <1>2, <2>1, TypeParts DEF Metadata, ReadSidecar, diskVars, shareVars
  <1>3. CASE Preallocate(r)
    <2>1. PlacesOK'
      BY <1>0, <1>3, GoTypes DEF Preallocate, RunPlaces
    <2>2. out' \in [Pieces -> {"missing", "clipped", "good"}]
      BY <1>0, <1>3, TypeParts DEF Preallocate, Preallocated
    <2> QED
      BY <1>0, <1>3, <2>1, <2>2, TypeParts DEF Preallocate, shareVars
  <1>4. CASE Track(r)
    <2>1. PlacesOK'
      BY <1>0, <1>4, ThreadSets DEF Track, PlacesOK, RunPlaces, WorkerPlaces
    <2>2. slot' \in Slots
      BY <1>0, <1>4, SlotTypes, TypeParts DEF Track
    <2> QED
      BY <1>0, <1>4, <2>1, <2>2, TypeParts DEF Track, Missing, diskVars, shareVars
  <1>5. CASE Join(r) \/ CheckHash(r) \/ Release(r)
    <2>1. PlacesOK'
      BY <1>0, <1>5, GoTypes DEF Join, CheckHash, Release, RunPlaces
    <2>2. slot' \in Slots
      BY <1>0, <1>5, SlotTypes DEF Join, CheckHash, Release
    <2> QED
      BY <1>0, <1>5, <2>1, <2>2, TypeParts
      DEF Join, CheckHash, Release, diskVars, shareVars
  <1>6. CASE Register(r) \/ Notify(r)
    <2>1. PlacesOK'
      BY <1>0, <1>6, GoTypes DEF Register, Notify, RunPlaces
    <2>2. registered' \in BOOLEAN /\ seeding' \in BOOLEAN
      BY <1>0, <1>6, TypeParts DEF Register, Notify
    <2> QED
      BY <1>0, <1>6, <2>1, <2>2, TypeParts DEF Register, Notify, diskVars
  <1>7. CASE RemoveSidecar(r)
    <2>1. PlacesOK'
      BY <1>0, <1>7, ThreadSets DEF RemoveSidecar, PlacesOK, RunPlaces, WorkerPlaces
    <2>2. copy' \in [Runs -> [Threads -> [Pieces -> Status]]]
      BY <1>0, <1>7, TypeParts DEF RemoveSidecar
    <2> QED
      BY <1>0, <1>7, <2>1, <2>2, TypeParts DEF RemoveSidecar, shareVars
  <1>8. CASE Guard(r)
    <2>1. PlacesOK'
      BY <1>0, <1>8, GoTypes DEF Guard, RunPlaces
    <2>2. slot' \in Slots
      BY <1>0, <1>8, SlotTypes DEF Guard
    <2> QED
      BY <1>0, <1>8, <2>1, <2>2, TypeParts DEF Guard, diskVars, shareVars
  <1> QED
    BY <1>1, <1>2, <1>3, <1>4, <1>5, <1>6, <1>7, <1>8 DEF RunStep

\* On to the next peer: the attempts stay within the loop's reach
\* (download_piece_worker's retry loop).
LEMMA NextTryTypes ==
  ASSUME TypeInv, NEW r \in Runs, NEW w \in Workers, NEW cost \in {0, 1},
         pc[r][w] = "fetch", NextTry(r, w, cost)
  PROVE  /\ job' \in [Runs -> [Workers -> Jobs]]
         /\ job'[r][w].piece = job[r][w].piece
         /\ \A v \in Workers \ {w} : job'[r][v] = job[r][v]
         /\ \A q \in Runs \ {r} : job'[q] = job[q]
         /\ pc'[r][w] \in {"fetch", "fail"}
         /\ pc'[r][w] = "fetch"
            => job'[r][w].attempt + 2 <= MaxRetries + job'[r][w].turn
  <1> DEFINE j == job[r][w]
             spent == j.attempt + cost
             over == j.turn = NumPeers
             k == [piece |-> j.piece, turn |-> IF over THEN 1 ELSE j.turn + 1,
                   attempt |-> IF over THEN spent + 1 ELSE spent]
  <1>1. /\ j \in Jobs
        /\ j.attempt + 2 <= MaxRetries + j.turn
    BY DEF TypeInv, TypeOK, Jobs, RunInv, RunOK, Bounded, Trying
  <1>2. job' = [job EXCEPT ![r][w] = k]
    BY Zenon DEF NextTry
  <1>3. pc' = [pc EXCEPT ![r][w] =
                  IF over /\ spent + 1 >= MaxRetries THEN "fail" ELSE "fetch"]
    BY DEF NextTry, Go
  <1>4. /\ k \in Jobs
        /\ k.piece = j.piece
        /\ ~(over /\ spent + 1 >= MaxRetries) => k.attempt + 2 <= MaxRetries + k.turn
    <2>1. /\ j.piece \in Pieces /\ j.turn \in Nat /\ 1 <= j.turn /\ j.turn <= NumPeers
          /\ j.attempt \in Nat /\ j.attempt + 2 <= MaxRetries + j.turn
      BY <1>1, SizesAssumption DEF Workers, Jobs
    <2>2. /\ k.turn \in 1..NumPeers /\ k.attempt \in 0..(MaxRetries + NumPeers)
          /\ ~(over /\ spent + 1 >= MaxRetries)
             => k.attempt + 2 <= MaxRetries + k.turn
      BY <2>1, SizesAssumption
    <2> QED
      BY <2>1, <2>2 DEF Workers, Jobs
  <1> HIDE DEF j, k, over, spent
  <1>5. job'[r][w] = k
    BY <1>2 DEF TypeInv, TypeOK
  <1>6. pc'[r][w] = IF over /\ spent + 1 >= MaxRetries THEN "fail" ELSE "fetch"
    BY <1>3, ThreadSets DEF TypeInv, TypeOK
  <1>7. /\ \A v \in Workers \ {w} : job'[r][v] = job[r][v]
        /\ \A q \in Runs \ {r} : job'[q] = job[q]
    BY <1>2 DEF TypeInv, TypeOK, Jobs
  <1>8. job' \in [Runs -> [Workers -> Jobs]]
    BY <1>2, <1>4 DEF TypeInv, TypeOK, Jobs
  <1> QED
    BY <1>4, <1>5, <1>6, <1>7, <1>8 DEF j

\* The steps of a worker and of save_state keep the types.
LEMMA WorkerTypes ==
  ASSUME TypeInv, NEW r \in Runs, NEW t \in Threads,
         (t \in Workers /\ WorkerStep(r, t)) \/ SaveState(r, t)
  PROVE  TypeOK'
  <1>0. /\ TypeOK /\ slot \in Slots /\ PlacesOK
        /\ AllPending \in [Pieces -> Status]
    BY TypeParts DEF TypeInv, AllPending, Status
  <1>1. ASSUME t \in Workers, Take(r, t)
        PROVE  TypeOK'
    <2>1. PICK p \in Pieces :
            /\ queue' = [queue EXCEPT ![r] = @ \ {p}]
            /\ job' = [job EXCEPT ![r][t] = [NoJob EXCEPT !.piece = p]]
            /\ Mark(r, p, "downloading")
      BY <1>0, <1>1, TypeParts DEF Take
    <2>2. [NoJob EXCEPT !.piece = p] \in Jobs
      BY ThreadSets, SizesAssumption DEF NoJob, Jobs
    <2>3. job' \in [Runs -> [Workers -> Jobs]]
      BY <1>0, <1>1, <2>1, <2>2, TypeParts
    <2>4. PlacesOK'
      BY <1>0, <1>1, ThreadSets, GoTypes DEF Take, WorkerPlaces
    <2>5. /\ slot' \in Slots /\ status' \in [Runs -> [Pieces -> Status]]
          /\ queue' \in [Runs -> SUBSET Pieces]
      BY <1>0, <2>1, SlotTypes, TypeParts DEF Mark, Status
    <2> QED
      BY <1>0, <1>1, <2>3, <2>4, <2>5, TypeParts DEF Take, diskVars, shareVars
  <1>2. ASSUME t \in Workers, NoneLeft(r, t)
        PROVE  TypeOK'
    <2>1. NoJob \in Jobs
      BY ThreadSets, SizesAssumption DEF NoJob, Jobs
    <2>2. PlacesOK'
      BY <1>0, <1>2, ThreadSets, GoTypes DEF NoneLeft, WorkerPlaces
    <2>3. job' \in [Runs -> [Workers -> Jobs]]
      BY <1>0, <1>2, <2>1, TypeParts DEF NoneLeft
    <2> QED
      BY <1>0, <1>2, <2>2, <2>3, TypeParts DEF NoneLeft, diskVars, shareVars
  <1>3. ASSUME t \in Workers, NoAnswer(r, t) \/ BadAnswer(r, t)
        PROVE  TypeOK'
    <2>1. PICK cost \in {0, 1} : NextTry(r, t, cost) /\ pc[r][t] = "fetch"
      BY <1>3 DEF NoAnswer, BadAnswer, At
    <2>2. job' \in [Runs -> [Workers -> Jobs]]
      BY <1>3, <2>1, NextTryTypes
    <2>3. PlacesOK'
      BY <1>0, <1>3, <2>1, ThreadSets, GoTypes DEF NextTry, WorkerPlaces
    <2> QED
      BY <1>0, <1>3, <2>2, <2>3, TypeParts DEF NoAnswer, BadAnswer, diskVars, shareVars
  <1>4. ASSUME t \in Workers, WritePiece(r, t)
        PROVE  TypeOK'
    <2>1. PlacesOK'
      BY <1>0, <1>4, ThreadSets, GoTypes DEF WritePiece, WorkerPlaces
    <2>2. out' \in [Pieces -> {"missing", "clipped", "good"}]
      BY <1>0, <1>4, TypeParts DEF WritePiece
    <2> QED
      BY <1>0, <1>4, <2>1, <2>2, TypeParts DEF WritePiece, shareVars
  <1>5. ASSUME t \in Workers, MarkCompleted(r, t) \/ MarkFailed(r, t)
        PROVE  TypeOK'
    <2>0. job[r][t].piece \in Pieces /\ "completed" \in Status /\ "failed" \in Status
      BY <1>0, <1>5, TypeParts DEF Jobs, Status
    <2>1. PlacesOK'
      BY <1>0, <1>5, ThreadSets, GoTypes DEF MarkCompleted, MarkFailed, WorkerPlaces
    <2>2. slot' \in Slots
      BY <1>0, <1>5, <2>0, SlotTypes DEF MarkCompleted, MarkFailed, Mark
    <2>3. status' \in [Runs -> [Pieces -> Status]]
      <3>1. \E st \in Status : status' = [status EXCEPT ![r][job[r][t].piece] = st]
        BY <1>5, <2>0 DEF MarkCompleted, MarkFailed, Mark
      <3> QED
        BY <1>0, <2>0, <3>1, TypeParts
    <2> QED
      BY <1>0, <1>5, <2>1, <2>2, <2>3, TypeParts
      DEF MarkCompleted, MarkFailed, diskVars, shareVars
  <1>6. CASE SaveState(r, t)
    <2>1. PlacesOK'
      BY <1>0, <1>6, ThreadSets, GoTypes
      DEF SaveState, OpenSidecar, SkipSidecar, CopyStatus, FlushSidecar,
          AfterSave, RunPlaces, WorkerPlaces
    <2>2. \/ copy' = copy
          \/ \E st \in [Pieces -> Status] : copy' = [copy EXCEPT ![r][t] = st]
      BY <1>0, <1>6, TypeParts
      DEF SaveState, OpenSidecar, SkipSidecar, CopyStatus, FlushSidecar
    <2>3. sidecar' \in [Pieces -> Status]
      BY <1>0, <1>6, TypeParts
      DEF SaveState, OpenSidecar, SkipSidecar, CopyStatus, FlushSidecar, diskVars
    <2>4. copy' \in [Runs -> [Threads -> [Pieces -> Status]]]
      <3>1. copy \in [Runs -> [Threads -> [Pieces -> Status]]]
        BY <1>0, TypeParts
      <3>2. ASSUME NEW st \in [Pieces -> Status], copy' = [copy EXCEPT ![r][t] = st]
            PROVE  copy' \in [Runs -> [Threads -> [Pieces -> Status]]]
        BY <3>1, <3>2
      <3> QED
        BY <2>2, <3>1, <3>2
    <2> QED
      BY <1>0, <1>6, <2>1, <2>3, <2>4, TypeParts
      DEF SaveState, OpenSidecar, SkipSidecar, CopyStatus, FlushSidecar,
          diskVars, shareVars
  <1> QED
    BY <1>1, <1>2, <1>3, <1>4, <1>5, <1>6 DEF WorkerStep
\* Nothing of run q that RunOK is about has changed.
Untouched(q) ==
    /\ \A t \in Threads : pc'[q][t] = pc[q][t]
    /\ status'[q] = status[q] /\ queue'[q] = queue[q]
    /\ \A w \in Workers : job'[q][w] = job[q][w]

\* An untouched run stays in order.
LEMMA UntouchedOK ==
  ASSUME NEW q \in Runs, RunOK(q), Untouched(q)
  PROVE  RunOK(q)'
  <1> USE ThreadSets
  <1>1. Divided(q)'
    BY DEF RunOK, Divided, Busy, Untouched
  <1>2. Joined(q)'
    BY DEF RunOK, Joined, Untouched
  <1>3. Bounded(q)'
    BY DEF RunOK, Bounded, Trying, Untouched
  <1> QED
    BY <1>1, <1>2, <1>3 DEF RunOK

\* A step in which no worker gets a piece leaves them divided, provided that
\* nothing in the queue becomes completed and that what is fetched is under way.
LEMMA NoPieceTaken ==
  ASSUME NEW r \in Runs, Divided(r), queue'[r] = queue[r],
         \A w \in Workers : Busy(r, w)' => /\ Busy(r, w)
                                           /\ job'[r][w].piece = job[r][w].piece,
         \A p \in queue[r] : status'[r][p] # "completed",
         \A w \in Workers : pc'[r][w] \in {"fetch", "mark", "fail"}
                             => status'[r][job[r][w].piece] = "downloading"
  PROVE  Divided(r)'
  <1>1. \A w \in Workers : Busy(r, w)' => job'[r][w].piece \notin queue'[r]
    BY DEF Divided
  <1>2. \A v, w \in Workers :
          Busy(r, v)' /\ Busy(r, w)' /\ v # w => job'[r][v].piece # job'[r][w].piece
    BY DEF Divided
  <1>3. \A w \in Workers : pc'[r][w] \in {"fetch", "mark", "fail"}
                            => status'[r][job'[r][w].piece] = "downloading"
    BY DEF Busy
  <1> QED
    BY <1>1, <1>2, <1>3 DEF Divided

\* A step of one run that leaves it in order leaves all in order.
LEMMA OneRunMoves ==
  ASSUME RunInv, NEW r \in Runs, RunOK(r)', \A q \in Runs \ {r} : Untouched(q)
  PROVE  RunInv'
  BY UntouchedOK DEF RunInv

\* The steps of start() and of thread 0 keep runs in order: the queue is filled
\* while no worker runs, and the workers are joined before anything else.
LEMMA RunDivides ==
  ASSUME TypeInv, NEW r \in Runs, Start(r) \/ RunStep(r)
  PROVE  RunInv'
  <1>0. /\ RunOK(r) /\ PlacesOK /\ RunInv
        /\ status \in [Runs -> [Pieces -> Status]]
        /\ queue \in [Runs -> SUBSET Pieces]
    BY TypeParts DEF TypeInv, RunInv
  <1>1. CASE \/ Start(r) \/ Metadata(r) \/ Preallocate(r) \/ CheckHash(r)
             \/ Register(r) \/ Notify(r) \/ Release(r)
    <2>1. PICK there \in RunPlaces :
            Go(r, 0, there) /\ there # "work" /\ pc[r][0] # "work"
      BY <1>1 DEF Start, Metadata, Preallocate, CheckHash, Register, Notify,
                  Release, At, RunPlaces
    <2>2. /\ \A q \in Runs, t \in Threads : q # r \/ t # 0 => pc'[q][t] = pc[q][t]
          /\ pc'[r][0] # "work"
      BY <1>0, <2>1, ThreadSets, GoTypes
    <2>3. UNCHANGED <<status, queue, job>>
      BY <1>1 DEF Start, Metadata, Preallocate, CheckHash, Register, Notify, Release
    <2>4. RunOK(r)'
      <3>1. \A w \in Workers : pc[r][w] = "done" /\ pc'[r][w] = "done"
        BY <1>0, <2>1, <2>2, ThreadSets DEF RunOK, Joined
      <3> QED
        BY <1>0, <2>2, <2>3, <3>1
        DEF RunOK, Divided, Joined, Bounded, Busy, Trying, Saving
    <2> QED
      BY <1>0, <2>2, <2>3, <2>4, OneRunMoves DEF Untouched
  <1>2. CASE ReadSidecar(r) \/ Guard(r)
    <2>1. PICK there \in RunPlaces :
            Go(r, 0, there) /\ there # "work" /\ pc[r][0] # "work"
      BY <1>2 DEF ReadSidecar, Guard, At, RunPlaces
    <2>2. /\ \A q \in Runs, t \in Threads : q # r \/ t # 0 => pc'[q][t] = pc[q][t]
          /\ pc'[r][0] # "work"
      BY <1>0, <2>1, ThreadSets, GoTypes
    <2>3. /\ UNCHANGED <<queue, job>>
          /\ \A q \in Runs \ {r} : status'[q] = status[q]
      BY <1>0, <1>2 DEF ReadSidecar, Guard
    <2>4. RunOK(r)'
      <3>1. /\ \A w \in Workers : pc[r][w] = "done" /\ pc'[r][w] = "done"
            /\ queue[r] = {}
        BY <1>0, <2>1, <2>2, ThreadSets DEF RunOK, Joined
      <3> QED
        BY <2>2, <2>3, <3>1
        DEF RunOK, Divided, Joined, Bounded, Busy, Trying, Saving
    <2> QED
      BY <1>0, <2>2, <2>3, <2>4, OneRunMoves DEF Untouched
  <1>3. CASE Track(r)
    <2>1. /\ pc'[r][0] = "work" /\ \A w \in Workers : pc'[r][w] = "pop"
          /\ \A q \in Runs \ {r} : pc'[q] = pc[q] /\ queue'[q] = queue[q]
          /\ queue'[r] = Missing(status[r]) /\ UNCHANGED <<status, job>>
      BY <1>0, <1>3, ThreadSets DEF Track, PlacesOK
    <2>2. RunOK(r)'
      BY <2>1 DEF RunOK, Divided, Joined, Bounded, Busy, Trying, Saving, Missing
    <2> QED
      BY <1>0, <2>1, <2>2, OneRunMoves DEF Untouched
  <1>4. CASE Join(r)
    <2>1. PICK there \in {"hash", "open"} : Go(r, 0, there)
      BY <1>4 DEF Join
    <2>2. /\ \A q \in Runs, t \in Threads : q # r \/ t # 0 => pc'[q][t] = pc[q][t]
          /\ pc'[r][0] = there
      BY <1>0, <2>1, ThreadSets, GoTypes DEF RunPlaces
    <2>3. UNCHANGED <<status, queue, job>> /\ \A w \in Workers : pc[r][w] = "done"
      BY <1>4 DEF Join, At
    <2>4. RunOK(r)'
      <3>1. \A w \in Workers : pc'[r][w] = "done"
        BY <2>2, <2>3, ThreadSets
      <3>2. queue'[r] = {}
        BY <1>0, <2>3, ThreadSets DEF RunOK, Joined
      <3> QED
        BY <3>1, <3>2 DEF RunOK, Divided, Joined, Bounded, Busy, Trying, Saving
    <2> QED
      BY <1>0, <2>2, <2>3, <2>4, OneRunMoves DEF Untouched
  <1>5. CASE RemoveSidecar(r)
    <2>1. /\ UNCHANGED <<status, queue, job>>
          /\ \A q \in Runs, t \in Threads :
                \/ pc'[q][t] = pc[q][t]
                \/ q = r /\ t = 0 /\ pc'[q][t] = "guard" /\ pc[q][t] = "remove"
                \/ pc'[q][t] = "lost" /\ pc[q][t] \in {"copy", "flush"}
      BY <1>5 DEF RemoveSidecar, At
    <2>2. ASSUME NEW q \in Runs
          PROVE  RunOK(q)'
      <3>0. RunOK(q)
        BY <1>0 DEF RunInv
      <3>1. /\ \A w \in Workers : \/ pc'[q][w] = pc[q][w]
                                  \/ pc'[q][w] = "lost" /\ pc[q][w] \in {"copy", "flush"}
            /\ pc'[q][0] # "work" => pc[q][0] # "work"
        BY <2>1, ThreadSets
      <3>2. Divided(q)'
        BY <2>1, <3>0, <3>1 DEF RunOK, Divided, Busy
      <3>3. Joined(q)'
        BY <2>1, <3>0, <3>1 DEF RunOK, Joined
      <3>4. Bounded(q)'
        BY <2>1, <3>0, <3>1 DEF RunOK, Bounded, Trying, Saving
      <3> QED
        BY <3>2, <3>3, <3>4 DEF RunOK
    <2> QED
      BY <2>2 DEF RunInv
  <1> QED
    BY <1>1, <1>2, <1>3, <1>4, <1>5 DEF RunStep

\* So do the steps of a worker and of save_state: pop() hands every piece to
\* one worker, and only that worker changes its status.
LEMMA WorkerDivides ==
  ASSUME TypeInv, NEW r \in Runs, NEW t \in Threads,
         (t \in Workers /\ WorkerStep(r, t)) \/ SaveState(r, t)
  PROVE  RunInv'
  <1>0. /\ RunOK(r) /\ PlacesOK /\ RunInv
        /\ status \in [Runs -> [Pieces -> Status]]
        /\ queue \in [Runs -> SUBSET Pieces]
        /\ job \in [Runs -> [Workers -> Jobs]]
        /\ \A w \in Workers : job[r][w].piece \in Pieces
    BY TypeParts DEF TypeInv, RunInv, Jobs
  <1>1. ASSUME t \in Workers, Take(r, t)
        PROVE  RunInv'
    <2>1. PICK p \in queue[r] :
            /\ queue' = [queue EXCEPT ![r] = @ \ {p}]
            /\ job' = [job EXCEPT ![r][t] = [NoJob EXCEPT !.piece = p]]
            /\ status' = [status EXCEPT ![r][p] = "downloading"]
      BY <1>1 DEF Take, Mark
    <2>2. /\ pc'[r][t] = "open" /\ pc[r][t] = "pop"
          /\ \A q \in Runs, v \in Threads : q # r \/ v # t => pc'[q][v] = pc[q][v]
      BY <1>0, <1>1, ThreadSets, GoTypes DEF Take, At, WorkerPlaces
    <2>3. /\ job'[r][t].piece = p /\ job'[r][t].attempt = 0 /\ job'[r][t].turn = 1
          /\ \A w \in Workers \ {t} : job'[r][w] = job[r][w]
          /\ \A q \in Runs \ {r} : job'[q] = job[q]
      BY <1>0, <1>1, <2>1 DEF NoJob
    <2>4. /\ queue'[r] = queue[r] \ {p} /\ status'[r][p] = "downloading"
          /\ \A o \in Pieces \ {p} : status'[r][o] = status[r][o]
          /\ \A q \in Runs \ {r} : queue'[q] = queue[q] /\ status'[q] = status[q]
          /\ p \in Pieces
      BY <1>0, <2>1
    <2>5. Divided(r)'
      <3>0. /\ Divided(r) /\ ~Busy(r, t)
            /\ \A w \in Workers \ {t} : pc'[r][w] = pc[r][w]
        BY <1>0, <2>2, ThreadSets DEF RunOK, Busy
      <3>1. \A o \in queue'[r] : status'[r][o] # "completed"
        BY <1>0, <2>4, <3>0 DEF Divided
      <3>2. \A w \in Workers : Busy(r, w)' => job'[r][w].piece \notin queue'[r]
        BY <2>3, <2>4, <3>0 DEF Divided, Busy
      <3>3. \A w \in Workers \ {t} : Busy(r, w)' => job'[r][w].piece # p
        BY <2>3, <3>0 DEF Divided, Busy
      <3>4. \A v, w \in Workers :
              Busy(r, v)' /\ Busy(r, w)' /\ v # w
              => job'[r][v].piece # job'[r][w].piece
        BY <2>3, <3>0, <3>3 DEF Divided, Busy
      <3>5. \A w \in Workers : pc'[r][w] \in {"fetch", "mark", "fail"}
                                => status'[r][job'[r][w].piece] = "downloading"
        <4> SUFFICES ASSUME NEW w \in Workers, pc'[r][w] \in {"fetch", "mark", "fail"}
                     PROVE  status'[r][job'[r][w].piece] = "downloading"
          OBVIOUS
        <4>1. w # t /\ job'[r][w] = job[r][w] /\ job[r][w].piece \in Pieces
          BY <1>0, <2>2, <2>3
        <4>2. job[r][w].piece # p
          BY <3>3, <4>1 DEF Busy
        <4>3. status[r][job[r][w].piece] = "downloading"
          BY <3>0, <4>1 DEF Divided
        <4> QED
          BY <2>4, <4>1, <4>2, <4>3
      <3> QED
        BY <3>1, <3>2, <3>4, <3>5 DEF Divided
    <2>6. Joined(r)'
      BY <1>0, <1>1, <2>2, <2>4, ThreadSets DEF RunOK, Joined
    <2>7. Bounded(r)'
      <3> SUFFICES ASSUME NEW w \in Workers, Trying(r, w)'
                   PROVE  job'[r][w].attempt + 2 <= MaxRetries + job'[r][w].turn
        BY DEF Bounded
      <3>1. CASE w = t
        BY <2>3, <3>1, SizesAssumption
      <3>2. CASE w # t
        <4>0. pc'[r][w] = pc[r][w] /\ job'[r][w] = job[r][w] /\ Busy(r, w)
          BY <2>2, <2>3, <3>2, ThreadSets DEF Trying, Saving, Busy
        <4>1. job[r][w].piece \in Pieces \ {p}
          BY <1>0, <4>0 DEF RunOK, Divided
        <4>2. Trying(r, w)
          BY <2>4, <4>0, <4>1 DEF Trying
        <4> QED
          BY <1>0, <4>0, <4>2 DEF RunOK, Bounded
      <3> QED
        BY <3>1, <3>2
    <2>8. RunOK(r)' /\ \A q \in Runs \ {r} : Untouched(q)
      BY <2>2, <2>3, <2>4, <2>5, <2>6, <2>7 DEF RunOK, Untouched
    <2> QED
      BY <1>0, <2>8, OneRunMoves
  <1>2. ASSUME t \in Workers, NoneLeft(r, t)
        PROVE  RunInv'
    <2>1. /\ pc'[r][t] = "done" /\ pc[r][t] = "pop" /\ queue[r] = {}
          /\ \A q \in Runs, v \in Threads : q # r \/ v # t => pc'[q][v] = pc[q][v]
          /\ UNCHANGED <<status, queue>>
      BY <1>0, <1>2, ThreadSets, GoTypes DEF NoneLeft, At, WorkerPlaces
    <2>2. /\ \A w \in Workers \ {t} : job'[r][w] = job[r][w]
          /\ \A q \in Runs \ {r} : job'[q] = job[q]
      BY <1>0, <1>2 DEF NoneLeft
    <2>3. Divided(r)'
      <3>1. /\ Divided(r) /\ \A w \in Workers \ {t} : pc'[r][w] = pc[r][w]
        BY <1>0, <2>1, ThreadSets DEF RunOK
      <3>2. \A w \in Workers : Busy(r, w)' => /\ Busy(r, w)
                                              /\ job'[r][w].piece = job[r][w].piece
        BY <2>1, <2>2, <3>1 DEF Busy
      <3>3. \A w \in Workers : pc'[r][w] \in {"fetch", "mark", "fail"}
                                => status'[r][job[r][w].piece] = "downloading"
        BY <2>1, <3>1 DEF Divided
      <3> QED
        BY <2>1, <3>1, <3>2, <3>3, NoPieceTaken
    <2>4. Joined(r)'
      BY <1>0, <1>2, <2>1, ThreadSets DEF RunOK, Joined
    <2>5. Bounded(r)'
      BY <1>0, <1>2, <2>1, <2>2, ThreadSets DEF RunOK, Bounded, Trying, Saving
    <2>6. RunOK(r)' /\ \A q \in Runs \ {r} : Untouched(q)
      BY <2>1, <2>2, <2>3, <2>4, <2>5 DEF RunOK, Untouched
    <2> QED
      BY <1>0, <2>6, OneRunMoves
  <1>3. ASSUME t \in Workers, NoAnswer(r, t) \/ BadAnswer(r, t)
        PROVE  RunInv'
    <2>1. PICK cost \in {0, 1} : NextTry(r, t, cost) /\ pc[r][t] = "fetch"
      BY <1>3 DEF NoAnswer, BadAnswer, At
    <2>2. /\ job'[r][t].piece = job[r][t].piece
          /\ \A v \in Workers \ {t} : job'[r][v] = job[r][v]
          /\ \A q \in Runs \ {r} : job'[q] = job[q]
          /\ pc'[r][t] \in {"fetch", "fail"}
          /\ pc'[r][t] = "fetch"
             => job'[r][t].attempt + 2 <= MaxRetries + job'[r][t].turn
      BY <1>3, <2>1, NextTryTypes
    <2>3. \A q \in Runs, v \in Threads : q # r \/ v # t => pc'[q][v] = pc[q][v]
      BY <1>0, <1>3, <2>1, ThreadSets, GoTypes DEF NextTry, WorkerPlaces
    <2>4. UNCHANGED <<status, queue>>
      BY <1>3 DEF NoAnswer, BadAnswer
    <2>5. Divided(r)'
      <3>1. /\ Divided(r) /\ \A w \in Workers \ {t} : pc'[r][w] = pc[r][w]
        BY <1>0, <2>3, ThreadSets DEF RunOK
      <3>2. \A w \in Workers : Busy(r, w)' => /\ Busy(r, w)
                                              /\ job'[r][w].piece = job[r][w].piece
        BY <2>1, <2>2, <3>1 DEF Busy
      <3>3. \A w \in Workers : pc'[r][w] \in {"fetch", "mark", "fail"}
                                => status'[r][job[r][w].piece] = "downloading"
        BY <2>1, <2>4, <3>1 DEF Divided
      <3>4. \A p \in queue[r] : status'[r][p] # "completed"
        BY <2>4, <3>1 DEF Divided
      <3> QED
        BY <2>4, <3>1, <3>2, <3>3, <3>4, NoPieceTaken
    <2>6. Joined(r)'
      BY <1>0, <1>3, <2>1, <2>2, <2>3, <2>4, ThreadSets DEF RunOK, Joined
    <2>7. Bounded(r)'
      BY <1>0, <1>3, <2>2, <2>3, <2>4, ThreadSets DEF RunOK, Bounded, Trying, Saving
    <2>8. RunOK(r)' /\ \A q \in Runs \ {r} : Untouched(q)
      BY <2>2, <2>3, <2>4, <2>5, <2>6, <2>7 DEF RunOK, Untouched
    <2> QED
      BY <1>0, <2>8, OneRunMoves
  <1>4. ASSUME t \in Workers, WritePiece(r, t)
        PROVE  RunInv'
    <2>1. /\ pc'[r][t] = "mark" /\ pc[r][t] = "fetch" /\ UNCHANGED <<status, queue, job>>
          /\ \A q \in Runs, v \in Threads : q # r \/ v # t => pc'[q][v] = pc[q][v]
      BY <1>0, <1>4, ThreadSets, GoTypes DEF WritePiece, At, WorkerPlaces
    <2>2. Divided(r)' /\ Joined(r)'
      <3>1. /\ Divided(r) /\ \A w \in Workers \ {t} : pc'[r][w] = pc[r][w]
        BY <1>0, <2>1, ThreadSets DEF RunOK
      <3>2. \A w \in Workers : Busy(r, w)' => Busy(r, w)
        BY <2>1, <3>1 DEF Busy
      <3>3. \A w \in Workers : pc'[r][w] \in {"fetch", "mark", "fail"}
                                => status'[r][job[r][w].piece] = "downloading"
        BY <2>1, <3>1 DEF Divided
      <3>4. \A p \in queue[r] : status'[r][p] # "completed"
        BY <2>1, <3>1 DEF Divided
      <3>5. Divided(r)'
        BY <2>1, <3>1, <3>2, <3>3, <3>4, NoPieceTaken
      <3>6. Joined(r)'
        BY <1>0, <1>4, <2>1, ThreadSets DEF RunOK, Joined
      <3> QED
        BY <3>5, <3>6
    <2>3. Bounded(r)'
      BY <1>0, <1>4, <2>1, ThreadSets DEF RunOK, Bounded, Trying, Saving
    <2>4. RunOK(r)' /\ \A q \in Runs \ {r} : Untouched(q)
      BY <2>1, <2>2, <2>3 DEF RunOK, Untouched
    <2> QED
      BY <1>0, <2>4, OneRunMoves
  <1>5. ASSUME t \in Workers, MarkCompleted(r, t) \/ MarkFailed(r, t)
        PROVE  RunInv'
    <2> DEFINE p == job[r][t].piece
    <2>1. /\ pc'[r][t] = "open" /\ pc[r][t] \in {"mark", "fail"}
          /\ UNCHANGED <<queue, job>>
          /\ \A q \in Runs, v \in Threads : q # r \/ v # t => pc'[q][v] = pc[q][v]
      BY <1>0, <1>5, ThreadSets, GoTypes
      DEF MarkCompleted, MarkFailed, At, WorkerPlaces
    <2>2. /\ status'[r][p] # "downloading"
          /\ \A o \in Pieces \ {p} : status'[r][o] = status[r][o]
          /\ \A q \in Runs \ {r} : status'[q] = status[q]
      BY <1>0, <1>5 DEF MarkCompleted, MarkFailed, Mark
    <2> HIDE DEF p
    <2>3. p \in Pieces /\ job[r][t].piece = p
      BY <1>0, <1>5 DEF p
    <2>4. Divided(r)'
      <3>1. /\ Divided(r) /\ \A w \in Workers \ {t} : pc'[r][w] = pc[r][w]
            /\ Busy(r, t)
        BY <1>0, <1>5, <2>1, ThreadSets DEF RunOK, Busy
      <3>2. \A w \in Workers : Busy(r, w)' => Busy(r, w)
        BY <3>1 DEF Busy
      <3>3. \A o \in queue[r] : status'[r][o] # "completed"
        BY <1>0, <1>5, <2>2, <2>3, <3>1 DEF Divided
      <3>4. ASSUME NEW w \in Workers, pc'[r][w] \in {"fetch", "mark", "fail"}
            PROVE  status'[r][job[r][w].piece] = "downloading"
        <4>1. w # t /\ pc[r][w] = pc'[r][w] /\ Busy(r, w)
          BY <2>1, <3>1, <3>4 DEF Busy
        <4>2. job[r][w].piece \in Pieces \ {p}
          BY <1>0, <1>5, <2>3, <3>1, <4>1 DEF Divided
        <4>3. status[r][job[r][w].piece] = "downloading"
          BY <3>1, <3>4, <4>1 DEF Divided
        <4> QED
          BY <2>2, <4>2, <4>3
      <3> QED
        BY <2>1, <3>1, <3>2, <3>3, <3>4, NoPieceTaken
    <2>5. Joined(r)'
      BY <1>0, <1>5, <2>1, ThreadSets DEF RunOK, Joined
    <2>6. Bounded(r)'
      BY <1>0, <1>5, <2>1, <2>2, <2>3, ThreadSets
      DEF RunOK, Bounded, Trying, Saving, Divided, Busy
    <2>7. RunOK(r)' /\ \A q \in Runs \ {r} : Untouched(q)
      BY <2>1, <2>2, <2>4, <2>5, <2>6 DEF RunOK, Untouched
    <2> QED
      BY <1>0, <2>7, OneRunMoves
  <1>6. CASE SaveState(r, t)
    <2>1. PICK there : /\ Go(r, t, there) /\ pc[r][t] \in Saving
                       /\ there \in Saving \/ there = AfterSave(r, t)
      BY <1>6 DEF SaveState, OpenSidecar, SkipSidecar, CopyStatus, FlushSidecar,
                  At, Saving
    <2>2. /\ pc'[r][t] = there
          /\ \A q \in Runs, v \in Threads : q # r \/ v # t => pc'[q][v] = pc[q][v]
      BY <1>0, <2>1, ThreadSets, GoTypes DEF AfterSave, Saving, RunPlaces, WorkerPlaces
    <2>3. UNCHANGED <<status, queue, job>>
      BY <1>6 DEF SaveState, OpenSidecar, SkipSidecar, CopyStatus, FlushSidecar
    <2>4. there # "work" /\ there # "done" /\ pc[r][t] # "work" /\ pc[r][t] # "done"
      BY <2>1 DEF AfterSave, Saving
    <2>5. /\ t \in Workers /\ there = "fetch" => status[r][job[r][t].piece] = "downloading"
          /\ there # "mark" /\ there # "fail"
      BY <2>1, ThreadSets DEF AfterSave, Saving
    <2>6. Divided(r)'
      <3>1. Divided(r) /\ \A w \in Workers \ {t} : pc'[r][w] = pc[r][w]
        BY <1>0, <2>2, ThreadSets DEF RunOK
      <3>2. \A w \in Workers : Busy(r, w)' => Busy(r, w)
        BY <2>1, <2>2, <3>1 DEF Busy, Saving
      <3>3. \A w \in Workers : pc'[r][w] \in {"fetch", "mark", "fail"}
                                => status'[r][job[r][w].piece] = "downloading"
        BY <2>2, <2>3, <2>5, <3>1 DEF Divided
      <3>4. \A p \in queue[r] : status'[r][p] # "completed"
        BY <2>3, <3>1 DEF Divided
      <3> QED
        BY <2>3, <3>1, <3>2, <3>3, <3>4, NoPieceTaken
    <2>7. Joined(r)'
      BY <1>0, <2>2, <2>3, <2>4, ThreadSets DEF RunOK, Joined
    <2>8. Bounded(r)'
      BY <1>0, <2>1, <2>2, <2>3, <2>5, ThreadSets DEF RunOK, Bounded, Trying
    <2>9. RunOK(r)' /\ \A q \in Runs \ {r} : Untouched(q)
      BY <2>2, <2>3, <2>6, <2>7, <2>8 DEF RunOK, Untouched
    <2> QED
      BY <1>0, <2>9, OneRunMoves
  <1> QED
    BY <1>1, <1>2, <1>3, <1>4, <1>5, <1>6 DEF WorkerStep

\* Every step keeps types and division.
LEMMA TypeStep ==
  ASSUME TypeInv, [Next]_vars
  PROVE  TypeInv'
  <1>1. CASE UNCHANGED vars
    <2>1. TypeOK'
      BY <1>1 DEF vars, TypeInv, TypeOK
    <2>2. \A r \in Runs : Untouched(r)
      BY <1>1 DEF vars, Untouched
    <2> QED
      BY <2>1, <2>2, UntouchedOK DEF TypeInv, RunInv
  <1>2. CASE Crash
    <2>1. TypeOK'
      <3>1. PlacesOK'
        BY <1>2, ThreadSets DEF Crash, PlacesOK, Quiet, RunPlaces, WorkerPlaces
      <3>2. NoJob \in Jobs /\ AllPending \in [Pieces -> Status]
        BY ThreadSets, SizesAssumption DEF NoJob, Jobs, AllPending, Status
      <3>3. slot' \in Slots /\ registered' \in BOOLEAN
        BY <1>2, SlotTypes DEF Crash
      <3> QED
        BY <1>2, <3>1, <3>2, <3>3, TypeParts DEF Crash, TypeInv, diskVars
    <2>2. \A r \in Runs : RunOK(r)'
      BY <1>2, ThreadSets
      DEF Crash, RunOK, Divided, Joined, Bounded, Busy, Trying, Saving, Quiet
    <2> QED
      BY <2>1, <2>2 DEF TypeInv, RunInv
  <1>3. ASSUME NEW r \in Runs, Start(r) \/ RunStep(r)
        PROVE  TypeInv'
    BY <1>3, RunTypes, RunDivides DEF TypeInv
  <1>4. ASSUME NEW r \in Runs, NEW t \in Threads,
               (t \in Workers /\ WorkerStep(r, t)) \/ SaveState(r, t)
        PROVE  TypeInv'
    BY <1>4, WorkerTypes, WorkerDivides DEF TypeInv
  <1> QED
    BY <1>1, <1>2, <1>3, <1>4, ThreadSets DEF Next

\* The division of the pieces holds throughout.
LEMMA RunsInOrder == Spec => []TypeInv
  BY InitTypes, TypeStep, PTL DEF Spec

\* DownloadTypes: for any number of overlapping runs, peers and pieces every
\* status, queue and job stays of its kind, and no piece is tried more often
\* than the retry loop allows (downloader.cpp, the worker's attempt counter).
THEOREM DownloadTypes == Spec => []TypeOK
  <1>1. TypeInv => TypeOK
    BY DEF TypeInv
  <1> QED
    BY <1>1, RunsInOrder, PTL
-----------------------------------------------------------------------------
(* What is called completed.  Statuses travel from the workers to the slot, *)
(* into copies, to the sidecar and back into the next run, so the claim has *)
(* to hold of all of them at once.                                          *)

\* What is known of a piece that is called completed: that it was written, and
\* that it is intact unless run() clips the last byte when it resumes.
Kept == IF EndsInZero THEN {"good"} ELSE {"good", "clipped"}
Vouched(st) == \A p \in Pieces : st[p] = "completed" => out[p] \in Kept
WrittenInv ==
    /\ Vouched(sidecar) /\ Vouched(slot.status)
    /\ \A r \in Runs : Vouched(status[r])
    /\ \A r \in Runs, t \in Threads : Vouched(copy[r][t])
    /\ \A r \in Runs, w \in Workers :
          pc[r][w] = "mark" => out[job[r][w].piece] \in Kept

\* After the step, st claims nothing that is not there.
VouchedNext(st) == \A p \in Pieces : st[p] = "completed" => out'[p] \in Kept

\* Only run()'s preallocation and a worker change the output file.
LEMMA OutChanges ==
  ASSUME [Next]_vars
  PROVE  \/ out' = out
         \/ \E r \in Runs : Preallocate(r)
         \/ \E r \in Runs, w \in Workers : WritePiece(r, w)
  <1>1. ASSUME NEW r \in Runs, Start(r) \/ RunStep(r)
        PROVE  Preallocate(r) \/ out' = out
    BY <1>1 DEF RunStep, Start, Metadata, ReadSidecar, Track, Join, CheckHash,
       Register, Notify, Release, RemoveSidecar, Guard, diskVars
  <1>2. ASSUME NEW r \in Runs, NEW w \in Workers, WorkerStep(r, w)
        PROVE  WritePiece(r, w) \/ out' = out
    BY <1>2 DEF WorkerStep, Take, NoneLeft, NoAnswer, BadAnswer, MarkCompleted,
       MarkFailed, diskVars
  <1>3. ASSUME NEW r \in Runs, NEW t \in Threads, SaveState(r, t)
        PROVE  out' = out
    BY <1>3
    DEF SaveState, OpenSidecar, SkipSidecar, CopyStatus, FlushSidecar, diskVars
  <1>4. (Crash \/ UNCHANGED vars) => out' = out
    BY DEF Crash, diskVars, vars
  <1> QED
    BY <1>1, <1>2, <1>3, <1>4 DEF Next

\* No step takes back a piece (run() preallocates, workers write).
LEMMA OutStays ==
  ASSUME TypeInv, [Next]_vars
  PROVE  \A p \in Pieces : out[p] \in Kept => out'[p] \in Kept
  <1>0. out \in [Pieces -> {"missing", "clipped", "good"}]
    BY TypeParts DEF TypeInv
  <1>1. ASSUME NEW r \in Runs, Preallocate(r)
        PROVE  \A p \in Pieces : out[p] \in Kept => out'[p] \in Kept
    <2>1. out' = out \/ out' = Preallocated
      BY <1>1 DEF Preallocate
    <2>2. \A p \in Pieces : out[p] \in Kept => Preallocated[p] \in Kept
      BY <1>0, SizesAssumption DEF Preallocated, Kept
    <2> QED
      BY <2>1, <2>2
  <1>2. ASSUME NEW r \in Runs, NEW w \in Workers, WritePiece(r, w)
        PROVE  \A p \in Pieces : out[p] \in Kept => out'[p] \in Kept
    BY <1>0, <1>2 DEF WritePiece, Kept
  <1>3. ASSUME out' = out
        PROVE  \A p \in Pieces : out[p] \in Kept => out'[p] \in Kept
    BY <1>3
  <1> QED
    BY <1>1, <1>2, <1>3, OutChanges

\* Where claims come from: the empty list claims nothing, and every list there
\* is claims after the step what it claimed before.
LEMMA ClaimsStay ==
  ASSUME TypeInv, WrittenInv, [Next]_vars
  PROVE  /\ VouchedNext(AllPending) /\ VouchedNext(sidecar)
         /\ VouchedNext(slot.status)
         /\ \A r \in Runs : VouchedNext(status[r])
         /\ \A r \in Runs, t \in Threads : VouchedNext(copy[r][t])
         /\ \A r \in Runs, w \in Workers :
               pc[r][w] = "mark" => out'[job[r][w].piece] \in Kept
  <1>1. \A p \in Pieces : out[p] \in Kept => out'[p] \in Kept
    BY OutStays
  <1>2. \A r \in Runs, w \in Workers : job[r][w].piece \in Pieces
    BY TypeParts DEF TypeInv, Jobs
  <1> QED
    BY <1>1, <1>2 DEF WrittenInv, Vouched, VouchedNext, AllPending

\* The goal of a step, list by list.
LEMMA ClaimsThen ==
  ASSUME VouchedNext(sidecar'), VouchedNext(slot'.status),
         \A r \in Runs : VouchedNext(status'[r]),
         \A r \in Runs, t \in Threads : VouchedNext(copy'[r][t]),
         \A r \in Runs, w \in Workers :
            pc'[r][w] = "mark" => out'[job'[r][w].piece] \in Kept
  PROVE  WrittenInv'
  BY DEF WrittenInv, Vouched, VouchedNext

\* start() and thread 0 only pass claims on.
LEMMA RunWritten ==
  ASSUME TypeInv, WrittenInv, [Next]_vars, NEW r \in Runs, Start(r) \/ RunStep(r)
  PROVE  WrittenInv'
  <1>0. /\ PlacesOK /\ status \in [Runs -> [Pieces -> Status]]
        /\ copy \in [Runs -> [Threads -> [Pieces -> Status]]]
        /\ slot \in Slots
    BY TypeParts DEF TypeInv
  <1>1. /\ VouchedNext(AllPending) /\ VouchedNext(sidecar)
        /\ VouchedNext(slot.status)
        /\ \A q \in Runs : VouchedNext(status[q])
        /\ \A q \in Runs, t \in Threads : VouchedNext(copy[q][t])
    BY ClaimsStay
  <1>2. \A q \in Runs, w \in Workers :
           pc'[q][w] = "mark" => out'[job'[q][w].piece] \in Kept
    <2>1. UNCHANGED job
      BY DEF RunStep, Start, Metadata, Preallocate, ReadSidecar, Track, Join,
             CheckHash, Register, Notify, Release, RemoveSidecar, Guard
    <2>2. \A q \in Runs, w \in Workers : pc'[q][w] = "mark" => pc[q][w] = "mark"
      <3>1. CASE Track(r)
        BY <1>0, <3>1, ThreadSets DEF Track, PlacesOK
      <3>2. CASE RemoveSidecar(r)
        BY <3>2, ThreadSets DEF RemoveSidecar
      <3>3. ASSUME NEW there, Go(r, 0, there)
            PROVE  \A q \in Runs, w \in Workers : pc'[q][w] = "mark" => pc[q][w] = "mark"
        BY <1>0, <3>3, ThreadSets DEF Go, PlacesOK
      <3> QED
        BY <3>1, <3>2, <3>3 DEF RunStep, Start, Metadata, Preallocate, ReadSidecar,
           Join, CheckHash, Register, Notify, Release, Guard
    <2> QED
      BY <2>1, <2>2, ClaimsStay
  <1>3. VouchedNext(sidecar')
    BY <1>1 DEF RunStep, Start, Metadata, Preallocate, ReadSidecar, Track, Join,
             CheckHash, Register, Notify, Release, RemoveSidecar, Guard, diskVars
  <1>4. VouchedNext(slot'.status)
    <2>1. slot'.status = slot.status \/ slot'.status = AllPending
          \/ slot'.status = status[r]
      <3>1. CASE Track(r)
        BY <3>1 DEF Track
      <3>2. CASE Start(r)
        BY <3>2 DEF Start, Placeholder
      <3>3. Track(r) \/ Start(r) \/ slot' \in {slot, Released}
        <4>1. CASE Join(r) \/ CheckHash(r) \/ Release(r) \/ Guard(r)
          BY <4>1 DEF Join, CheckHash, Release, Guard
        <4>2. CASE Metadata(r) \/ Preallocate(r) \/ ReadSidecar(r) \/ Register(r)
                   \/ Notify(r) \/ RemoveSidecar(r)
          BY <4>2 DEF Metadata, Preallocate, ReadSidecar, Register, Notify,
             RemoveSidecar
        <4> QED
          BY <4>1, <4>2 DEF RunStep
      <3>4. Released.status = slot.status
        BY <1>0 DEF Released, Slots
      <3> QED
        BY <3>1, <3>2, <3>3, <3>4
    <2> QED
      BY <1>1, <2>1
  <1>5. ASSUME NEW q \in Runs
        PROVE  VouchedNext(status'[q])
    <2>1. status'[q] = status[q] \/ status'[q] = AllPending \/ status'[q] = sidecar
      BY <1>0 DEF RunStep, Start, Metadata, Preallocate, ReadSidecar, Track, Join,
             CheckHash, Register, Notify, Release, RemoveSidecar, Guard
    <2> QED
      BY <1>1, <2>1
  <1>6. ASSUME NEW q \in Runs, NEW t \in Threads
        PROVE  VouchedNext(copy'[q][t])
    <2>1. copy'[q][t] = copy[q][t] \/ copy'[q][t] = AllPending
      <3>1. CASE RemoveSidecar(r)
        BY <3>1 DEF RemoveSidecar
      <3>2. RemoveSidecar(r) \/ copy' = copy
        BY DEF RunStep, Start, Metadata, Preallocate, ReadSidecar, Track, Join,
               CheckHash, Register, Notify, Release, Guard
      <3> QED
        BY <3>1, <3>2
    <2> QED
      BY <1>1, <2>1
  <1> QED
    BY <1>2, <1>3, <1>4, <1>5, <1>6, ClaimsThen

\* A worker claims a piece only when it has written it, and save_state writes
\* what the run claims.
LEMMA WorkerWritten ==
  ASSUME TypeInv, WrittenInv, [Next]_vars, NEW r \in Runs, NEW t \in Threads,
         (t \in Workers /\ WorkerStep(r, t)) \/ SaveState(r, t)
  PROVE  WrittenInv'
  <1>0. /\ PlacesOK /\ status \in [Runs -> [Pieces -> Status]]
        /\ copy \in [Runs -> [Threads -> [Pieces -> Status]]]
        /\ slot \in Slots /\ queue \in [Runs -> SUBSET Pieces]
        /\ job \in [Runs -> [Workers -> Jobs]]
        /\ out \in [Pieces -> {"missing", "clipped", "good"}]
    BY TypeParts DEF TypeInv
  <1>1. /\ VouchedNext(AllPending) /\ VouchedNext(sidecar)
        /\ VouchedNext(slot.status)
        /\ \A q \in Runs : VouchedNext(status[q])
        /\ \A q \in Runs, v \in Threads : VouchedNext(copy[q][v])
        /\ \A q \in Runs, w \in Workers :
              pc[q][w] = "mark" => out'[job[q][w].piece] \in Kept
    BY ClaimsStay
  <1>2. ASSUME NEW p \in Pieces, NEW st \in Status, Mark(r, p, st),
               st = "completed" => out'[p] \in Kept
        PROVE  VouchedNext(slot'.status) /\ \A q \in Runs : VouchedNext(status'[q])
    <2>1. VouchedNext(slot'.status)
      BY <1>0, <1>1, <1>2 DEF Mark, SlotMarked, Slots, VouchedNext
    <2>2. \A q \in Runs : VouchedNext(status'[q])
      BY <1>0, <1>1, <1>2 DEF Mark, VouchedNext
    <2> QED
      BY <2>1, <2>2
  <1>3. ASSUME t \in Workers, Take(r, t)
        PROVE  WrittenInv'
    <2>1. PICK p \in Pieces :
            /\ Mark(r, p, "downloading")
            /\ job' = [job EXCEPT ![r][t] = [NoJob EXCEPT !.piece = p]]
      BY <1>0, <1>3 DEF Take
    <2>2. VouchedNext(slot'.status) /\ \A q \in Runs : VouchedNext(status'[q])
      BY <1>2, <2>1 DEF Status
    <2>3. \A q \in Runs, w \in Workers :
             pc'[q][w] = "mark" => out'[job'[q][w].piece] \in Kept
      BY <1>0, <1>1, <1>3, <2>1, ThreadSets DEF Take, Go, PlacesOK
    <2> QED
      BY <1>1, <1>3, <2>2, <2>3, ClaimsThen DEF Take, diskVars
  <1>4. ASSUME t \in Workers, NoneLeft(r, t) \/ NoAnswer(r, t) \/ BadAnswer(r, t)
        PROVE  WrittenInv'
    <2>1. PICK there \in {"done", "fetch", "fail"} : Go(r, t, there)
      BY <1>4 DEF NoneLeft, NoAnswer, BadAnswer, NextTry
    <2>2. \A q \in Runs, w \in Workers : pc'[q][w] = "mark" =>
             pc[q][w] = "mark" /\ job'[q][w] = job[q][w]
      BY <1>0, <1>4, <2>1, ThreadSets
      DEF NoneLeft, NoAnswer, BadAnswer, NextTry, Go, PlacesOK
    <2> QED
      BY <1>1, <1>4, <2>2, ClaimsThen DEF NoneLeft, NoAnswer, BadAnswer, diskVars
  <1>5. ASSUME t \in Workers, WritePiece(r, t)
        PROVE  WrittenInv'
    <2>1. out'[job[r][t].piece] \in Kept
      BY <1>0, <1>5 DEF WritePiece, Kept, Jobs
    <2>2. \A q \in Runs, w \in Workers :
             pc'[q][w] = "mark" => pc[q][w] = "mark" \/ (q = r /\ w = t)
      BY <1>0, <1>5, ThreadSets DEF WritePiece, Go, PlacesOK
    <2> QED
      BY <1>1, <1>5, <2>1, <2>2, ClaimsThen DEF WritePiece
  <1>6. ASSUME t \in Workers, MarkCompleted(r, t) \/ MarkFailed(r, t)
        PROVE  WrittenInv'
    <2>0. job[r][t].piece \in Pieces /\ "completed" \in Status /\ "failed" \in Status
      BY <1>0, <1>6 DEF Jobs, Status
    <2>1. VouchedNext(slot'.status) /\ \A q \in Runs : VouchedNext(status'[q])
      <3>1. CASE MarkFailed(r, t)
        BY <1>2, <2>0, <3>1 DEF MarkFailed
      <3>2. CASE MarkCompleted(r, t)
        <4>1. out'[job[r][t].piece] \in Kept
          BY <1>1, <1>6, <3>2 DEF MarkCompleted, At
        <4>2. /\ status' = [status EXCEPT ![r][job[r][t].piece] = "completed"]
              /\ slot'.status = SlotMarked(job[r][t].piece, "completed").status
          BY <3>2, <1>0, <2>0, SlotTypes DEF MarkCompleted, Slots
        <4>3. VouchedNext(slot'.status)
          BY <1>0, <1>1, <2>0, <4>1, <4>2 DEF SlotMarked, Slots, VouchedNext
        <4>4. \A q \in Runs : VouchedNext(status'[q])
          BY <1>0, <1>1, <2>0, <4>1, <4>2 DEF VouchedNext
        <4> QED
          BY <4>3, <4>4
      <3> QED
        BY <1>6, <3>1, <3>2
    <2>2. \A q \in Runs, w \in Workers : pc'[q][w] = "mark" => pc[q][w] = "mark"
      <3>1. Go(r, t, "open")
        BY <1>6 DEF MarkCompleted, MarkFailed
      <3> QED
        BY <1>0, <3>1, ThreadSets DEF Go, PlacesOK
    <2> QED
      BY <1>1, <1>6, <2>1, <2>2, ClaimsThen DEF MarkCompleted, MarkFailed, diskVars
  <1>7. CASE SaveState(r, t)
    <2>1. \A q \in Runs, w \in Workers : pc'[q][w] = "mark" => pc[q][w] = "mark"
      <3>1. PICK there \in {"copy", "flush", "guard", "fetch", "pop"} : Go(r, t, there)
        BY <1>7
        DEF SaveState, OpenSidecar, SkipSidecar, CopyStatus, FlushSidecar, AfterSave
      <3> QED
        BY <1>0, <3>1, ThreadSets DEF Go, PlacesOK
    <2>2. VouchedNext(sidecar')
      BY <1>1, <1>7
      DEF SaveState, OpenSidecar, SkipSidecar, CopyStatus, FlushSidecar, diskVars
    <2>3. ASSUME NEW q \in Runs, NEW v \in Threads
          PROVE  VouchedNext(copy'[q][v])
      <3>1. copy'[q][v] = copy[q][v] \/ copy'[q][v] = AllPending
            \/ copy'[q][v] = status[r]
        BY <1>0, <1>7 DEF SaveState, OpenSidecar, SkipSidecar, CopyStatus, FlushSidecar
      <3> QED
        BY <1>1, <3>1
    <2>4. UNCHANGED <<slot, status, job>>
      BY <1>7 DEF SaveState, OpenSidecar, SkipSidecar, CopyStatus, FlushSidecar
    <2> QED
      BY <1>1, <2>1, <2>2, <2>3, <2>4, ClaimsThen
  <1> QED
    BY <1>3, <1>4, <1>5, <1>6, <1>7 DEF WorkerStep

\* No list ever claims a piece that is not there.
LEMMA WrittenStep ==
  ASSUME TypeInv, WrittenInv, [Next]_vars
  PROVE  WrittenInv'
  <1>1. CASE UNCHANGED vars
    BY <1>1 DEF vars, WrittenInv, Vouched
  <1>2. CASE Crash
    <2>1. /\ VouchedNext(AllPending) /\ VouchedNext(sidecar)
      BY ClaimsStay
    <2>2. slot'.status = AllPending
      BY <1>2 DEF Crash, Placeholder
    <2>3. \A r \in Runs, w \in Workers : pc'[r][w] # "mark"
      BY <1>2, ThreadSets DEF Crash, Quiet
    <2> QED
      BY <1>2, <2>1, <2>2, <2>3, ClaimsThen DEF Crash, diskVars
  <1> QED
    BY <1>1, <1>2, RunWritten, WorkerWritten, ThreadSets DEF Next

\* WrittenInv holds throughout.
LEMMA AlwaysWritten == Spec => []WrittenInv
  <1>1. Init => WrittenInv
    BY ThreadSets DEF Init, WrittenInv, Vouched, AllPending, Placeholder, Quiet
  <1> QED
    BY <1>1, WrittenStep, RunsInOrder, PTL DEF Spec

\* SidecarClaimsWritten: for any number of overlapping runs, crashes and saves
\* that land in any order, a piece the sidecar calls completed was verified and
\* written in full (downloader.cpp save_state and the worker).
THEOREM SidecarClaimsWritten == Spec => []SidecarWritten
  <1>1. WrittenInv => SidecarWritten
    BY DEF WrittenInv, Vouched, Kept, SidecarWritten
  <1> QED
    BY <1>1, AlwaysWritten, PTL

\* ResumeLosesNothing: if the file ends in a zero byte, a piece the sidecar
\* calls completed is intact, so that a resumed run may skip it.  For any other
\* file run() breaks this when it resumes (downloader.cpp:129).
THEOREM ResumeLosesNothing ==
  ASSUME EndsInZero = TRUE
  PROVE  Spec => []SidecarHonest
  <1>1. WrittenInv => SidecarHonest
    BY DEF WrittenInv, Vouched, Kept, SidecarHonest
  <1> QED
    BY <1>1, AlwaysWritten, PTL

\* CompletedWasWritten: show_downloads says COMPLETED only of a file every
\* piece of which has been written, whichever of the overlapping runs filled
\* the slot (downloader.cpp show_downloads).
THEOREM CompletedWasWritten == Spec => []CompletedIsWritten
  <1>1. WrittenInv => CompletedIsWritten
    BY DEF WrittenInv, Vouched, Kept, CompletedIsWritten, Reported
  <1> QED
    BY <1>1, AlwaysWritten, PTL
-----------------------------------------------------------------------------
(* The full-file check. *)

\* Runs of the file do not overlap.
Alone == \A q, r \in Runs : q = r

WholeInv == \A r \in Runs : pc[r][0] \in {"announce", "notify"} => Whole

\* Only run()'s preallocation can spoil a whole file.
LEMMA WholeStays ==
  ASSUME TypeInv, [Next]_vars, Whole
  PROVE  \/ Whole'
         \/ ~EndsInZero /\ \E r \in Runs : Preallocate(r)
  <1>1. CASE EndsInZero
    BY <1>1, OutStays DEF Whole, Kept
  <1>2. ASSUME NEW r \in Runs, NEW w \in Workers, WritePiece(r, w)
        PROVE  Whole'
    <2>1. out \in [Pieces -> {"missing", "clipped", "good"}]
      BY TypeParts DEF TypeInv
    <2> QED
      BY <1>2, <2>1 DEF WritePiece, Whole
  <1>3. out' = out => Whole'
    BY DEF Whole
  <1>4. EndsInZero \/ ~EndsInZero
    BY SizesAssumption
  <1> QED
    BY <1>1, <1>2, <1>3, <1>4, OutChanges

\* Thread 0 comes to the announcement from the check only (run).
LEMMA Announces ==
  ASSUME TypeInv, [Next]_vars, NEW r \in Runs, pc'[r][0] \in {"announce", "notify"}
  PROVE  pc[r][0] \in {"announce", "notify"} \/ (CheckHash(r) /\ Whole)
  <1>0. PlacesOK /\ 0 \in Threads /\ 0 \notin Workers /\ Workers \subseteq Threads
    BY TypeParts, ThreadSets DEF TypeInv
  <1>1. ASSUME NEW q \in Runs, NEW t \in Threads, NEW there, Go(q, t, there),
               ~(q = r /\ t = 0) \/ there \notin {"announce", "notify"}
        PROVE  pc[r][0] \in {"announce", "notify"}
    BY <1>0, <1>1 DEF Go, PlacesOK
  <1>2. ASSUME NEW q \in Runs, Start(q) \/ RunStep(q), q # r
        PROVE  pc[r][0] \in {"announce", "notify"}
    <2>1. CASE Track(q)
      BY <1>0, <1>2, <2>1 DEF Track, PlacesOK
    <2>2. CASE RemoveSidecar(q)
      BY <1>0, <1>2, <2>2 DEF RemoveSidecar, PlacesOK
    <2>3. Track(q) \/ RemoveSidecar(q) \/ \E there : Go(q, 0, there)
      BY <1>2 DEF RunStep, Start, Metadata, Preallocate, ReadSidecar, Join,
         CheckHash, Register, Notify, Release, Guard
    <2> QED
      BY <1>0, <1>1, <1>2, <2>1, <2>2, <2>3
  <1>3. CASE Start(r) \/ Metadata(r) \/ Preallocate(r) \/ ReadSidecar(r) \/ Join(r)
             \/ Notify(r) \/ Release(r) \/ Guard(r)
    <2>1. \E there \in {"metadata", "prepare", "guard", "resume", "track", "hash",
                         "open", "release", "remove", "idle"} : Go(r, 0, there)
      <3>1. CASE Join(r)
        BY <3>1 DEF Join
      <3> QED
        BY <1>3, <3>1 DEF Start, Metadata, Preallocate, ReadSidecar, Notify,
           Release, Guard
    <2> QED
      BY <1>0, <1>1, <2>1
  <1>4. CASE Track(r) \/ RemoveSidecar(r)
    BY <1>0, <1>4 DEF Track, RemoveSidecar, PlacesOK
  <1>5. CASE CheckHash(r)
    BY <1>0, <1>5 DEF CheckHash, Go, PlacesOK
  <1>6. CASE Register(r)
    BY <1>6 DEF Register, At
  <1>7. ASSUME NEW q \in Runs, NEW w \in Workers, WorkerStep(q, w)
        PROVE  pc[r][0] \in {"announce", "notify"}
    <2>1. \E there : Go(q, w, there)
      BY <1>7 DEF WorkerStep, Take, NoneLeft, NoAnswer, BadAnswer, NextTry,
         WritePiece, MarkCompleted, MarkFailed
    <2> QED
      BY <1>0, <1>1, <2>1
  <1>8. ASSUME NEW q \in Runs, NEW t \in Threads, SaveState(q, t)
        PROVE  pc[r][0] \in {"announce", "notify"}
    <2>1. \E there : Go(q, t, there) /\ there \notin {"announce", "notify"}
      BY <1>8 DEF SaveState, OpenSidecar, SkipSidecar, CopyStatus, FlushSidecar,
         AfterSave
    <2> QED
      BY <1>0, <1>1, <2>1
  <1>9. CASE Crash
    BY <1>0, <1>9 DEF Crash, Quiet
  <1>10. CASE UNCHANGED vars
    BY <1>10 DEF vars
  <1> QED
    BY <1>2, <1>3, <1>4, <1>5, <1>6, <1>7, <1>8, <1>9, <1>10 DEF Next, RunStep

\* The file is whole from the check to the announcement.
LEMMA WholeStep ==
  ASSUME EndsInZero \/ Alone, TypeInv, WholeInv, [Next]_vars
  PROVE  WholeInv'
  <1> SUFFICES ASSUME NEW r \in Runs, pc'[r][0] \in {"announce", "notify"}
               PROVE  Whole'
    BY DEF WholeInv
  <1>1. Whole
    BY Announces DEF WholeInv
  <1>2. ASSUME Preallocate(r)
        PROVE  FALSE
    <2>1. PlacesOK /\ 0 \in Threads
      BY TypeParts, ThreadSets DEF TypeInv
    <2> QED
      BY <1>2, <2>1 DEF Preallocate, Go, PlacesOK
  <1> QED
    BY <1>1, <1>2, WholeStays DEF Alone

\* SeedsWhole: the tracker is told that this client has the file only while
\* the file on disk is whole (run() from verify_full_hash to file_downloaded),
\* if the preallocation leaves a whole file alone or runs do not overlap.
THEOREM SeedsWhole ==
  ASSUME EndsInZero \/ Alone
  PROVE  Spec => SeedsWholeFile
  <1>1. Init => WholeInv
    BY ThreadSets DEF Init, WholeInv, Quiet
  <1>2. TypeInv /\ WholeInv /\ [Next]_vars => WholeInv'
    BY WholeStep
  <1>3. WholeInv /\ [Next]_vars => [seeding' # seeding => Whole]_vars
    <2> SUFFICES ASSUME WholeInv, [Next]_vars, seeding' # seeding
                 PROVE  Whole
      BY DEF vars
    <2>1. \E r \in Runs : Notify(r)
      <3>1. ASSUME NEW r \in Runs, Start(r) \/ RunStep(r)
            PROVE  Notify(r)
        BY <3>1 DEF RunStep, Start, Metadata, Preallocate, ReadSidecar, Track,
           Join, CheckHash, Register, Release, RemoveSidecar, Guard, shareVars
      <3>2. ASSUME NEW r \in Runs, NEW w \in Workers, WorkerStep(r, w)
            PROVE  FALSE
        BY <3>2 DEF WorkerStep, Take, NoneLeft, NoAnswer, BadAnswer, WritePiece,
           MarkCompleted, MarkFailed, shareVars
      <3>3. ASSUME NEW r \in Runs, NEW t \in Threads, SaveState(r, t)
            PROVE  FALSE
        BY <3>3 DEF SaveState, OpenSidecar, SkipSidecar, CopyStatus,
           FlushSidecar, shareVars
      <3> QED
        BY <3>1, <3>2, <3>3 DEF Next, Crash, vars
    <2> QED
      BY <2>1 DEF WholeInv, Notify, At
  <1> QED
    BY <1>1, <1>2, <1>3, RunsInOrder, PTL DEF Spec, SeedsWholeFile
-----------------------------------------------------------------------------
(* The count of pieces fetched. *)

Completed(st) == {p \in Pieces : st[p] = "completed"}

\* While a run's workers are at work the slot shows the run's own statuses.
InStep(r) == pc[r][0] = "work" => slot.listed /\ slot.status = status[r]
CountInv == ProgressSound /\ \A r \in Runs : InStep(r)

\* The completed pieces can be counted.
LEMMA CompletedFinite ==
  \A st \in [Pieces -> Status] :
     /\ IsFiniteSet(Completed(st)) /\ Cardinality(Completed(st)) \in Nat
     /\ 0 <= Cardinality(Completed(st))
  <1> SUFFICES ASSUME NEW st \in [Pieces -> Status]
               PROVE  /\ IsFiniteSet(Completed(st))
                      /\ Cardinality(Completed(st)) \in Nat
    OBVIOUS
  <1>1. IsFiniteSet(Pieces)
    BY SizesAssumption, FS_Interval DEF Pieces
  <1>2. Completed(st) \in SUBSET Pieces
    BY DEF Completed
  <1>3. IsFiniteSet(Completed(st))
    BY <1>1, <1>2, FS_Subset
  <1> QED
    BY <1>3, FS_CardinalityType

\* What a change of one status does to the number of completed pieces.
LEMMA CountChanges ==
  ASSUME NEW st \in [Pieces -> Status], NEW p \in Pieces, NEW s \in Status,
         st[p] # "completed"
  PROVE  /\ Cardinality(Completed(st)) \in Nat
         /\ Cardinality(Completed([st EXCEPT ![p] = s])) =
              IF s = "completed" THEN Cardinality(Completed(st)) + 1
              ELSE Cardinality(Completed(st))
  <1>1. IsFiniteSet(Completed(st)) /\ Cardinality(Completed(st)) \in Nat
    BY CompletedFinite
  <1>2. s = "completed" => Completed([st EXCEPT ![p] = s]) = Completed(st) \cup {p}
    BY DEF Completed
  <1>3. s # "completed" => Completed([st EXCEPT ![p] = s]) = Completed(st)
    BY DEF Completed
  <1>4. p \notin Completed(st)
    BY DEF Completed
  <1> QED
    BY <1>1, <1>2, <1>3, <1>4, FS_AddElement

\* A worker's write of a status, counted or not, when runs do not overlap.
LEMMA MarkCounts ==
  ASSUME Alone, TypeInv, CountInv, NEW r \in Runs, NEW w \in Workers,
         NEW p \in Pieces, NEW s \in Status, status[r][p] # "completed",
         pc[r][w] # "done", pc'[r][0] = pc[r][0],
         status' = [status EXCEPT ![r][p] = s],
         slot' = IF s = "completed"
                 THEN [SlotMarked(p, s) EXCEPT !.done = @ + 1]
                 ELSE SlotMarked(p, s)
  PROVE  CountInv'
  <1>0. /\ slot \in Slots /\ status \in [Runs -> [Pieces -> Status]]
    BY TypeParts DEF TypeInv
  <1>1. pc[r][0] = "work"
    BY DEF TypeInv, RunInv, RunOK, Joined
  <1>2. slot.listed /\ slot.status = status[r]
    BY <1>1 DEF CountInv, InStep
  <1>3. SlotMarked(p, s) = [slot EXCEPT !.status[p] = s]
    BY <1>2 DEF SlotMarked
  <1>4. /\ slot'.listed
        /\ slot'.status = [slot.status EXCEPT ![p] = s]
        /\ slot'.done = IF s = "completed" THEN slot.done + 1 ELSE slot.done
    BY <1>0, <1>2, <1>3 DEF Slots
  <1>5. status'[r] = slot'.status
    BY <1>0, <1>2, <1>4
  <1>6. slot'.done <= Cardinality(Completed(slot'.status))
    <2>1. slot.status \in [Pieces -> Status] /\ slot.status[p] # "completed"
          /\ slot.done \in Nat
      BY <1>0, <1>2 DEF Slots
    <2>2. slot.done <= Cardinality(Completed(slot.status))
      BY DEF CountInv, ProgressSound, Completed
    <2> HIDE DEF Completed
    <2> QED
      BY <1>4, <2>1, <2>2, CountChanges
  <1>7. ProgressSound'
    BY <1>6 DEF ProgressSound, Completed
  <1> QED
    BY <1>4, <1>5, <1>7 DEF CountInv, InStep, Alone

\* The slot is emptied, refilled or only given up (start, run).
LEMMA RunCounts ==
  ASSUME Alone, TypeInv, CountInv, NEW r \in Runs, Start(r) \/ RunStep(r)
  PROVE  CountInv'
  <1>0. /\ slot \in Slots /\ PlacesOK /\ status \in [Runs -> [Pieces -> Status]]
        /\ 0 \in Threads /\ 0 \notin Workers
    BY TypeParts, ThreadSets DEF TypeInv
  <1>1. ASSUME slot'.done = 0, slot'.status \in [Pieces -> Status]
        PROVE  ProgressSound'
    BY <1>1, CompletedFinite DEF ProgressSound, Completed
  <1>2. Released.done = slot.done /\ Released.status = slot.status
    BY <1>0 DEF Released, Slots
  <1>3. ASSUME slot' \in {slot, Released}
        PROVE  ProgressSound'
    BY <1>2, <1>3 DEF CountInv, ProgressSound
  <1>4. CASE Start(r)
    <2>1. slot'.done = 0 /\ slot'.status \in [Pieces -> Status]
      BY <1>4, SlotTypes DEF Start, Placeholder, AllPending, Status
    <2>2. pc'[r][0] = "metadata"
      BY <1>0, <1>4 DEF Start, Go, PlacesOK
    <2> QED
      BY <1>1, <2>1, <2>2 DEF CountInv, InStep, Alone
  <1>5. CASE Track(r)
    <2>1. /\ slot'.done = 0 /\ slot'.status = status[r] /\ slot'.listed
          /\ status' = status
      BY <1>5 DEF Track
    <2> QED
      BY <1>0, <1>1, <2>1 DEF CountInv, InStep, Alone
  <1>6. ASSUME slot' \in {slot, Released}, NEW there, there # "work", Go(r, 0, there)
        PROVE  CountInv'
    <2>1. pc'[r][0] = there
      BY <1>0, <1>6 DEF Go, PlacesOK
    <2> QED
      BY <1>3, <1>6, <2>1 DEF CountInv, InStep, Alone
  <1>7. CASE Join(r) \/ CheckHash(r) \/ Release(r) \/ Guard(r)
    <2>1. slot' \in {slot, Released}
      BY <1>7 DEF Join, CheckHash, Release, Guard
    <2>2. \E there \in {"hash", "open", "announce", "remove", "idle"} : Go(r, 0, there)
      BY <1>7 DEF Join, CheckHash, Release, Guard
    <2> QED
      BY <1>6, <2>1, <2>2
  <1>8. CASE Metadata(r) \/ Preallocate(r) \/ ReadSidecar(r) \/ Register(r) \/ Notify(r)
    <2>1. \E there \in {"prepare", "guard", "resume", "track", "notify", "release"} :
             Go(r, 0, there)
      BY <1>8 DEF Metadata, Preallocate, ReadSidecar, Register, Notify
    <2>2. slot' = slot
      BY <1>8 DEF Metadata, Preallocate, ReadSidecar, Register, Notify
    <2> QED
      BY <1>6, <2>1, <2>2
  <1>9. CASE RemoveSidecar(r)
    <2>1. slot' = slot /\ pc'[r][0] = "guard"
      BY <1>0, <1>9 DEF RemoveSidecar
    <2> QED
      BY <1>3, <2>1 DEF CountInv, InStep, Alone
  <1> QED
    BY <1>4, <1>5, <1>7, <1>8, <1>9 DEF RunStep

\* The count keeps up with the statuses, whatever the threads of a run do.
LEMMA CountStep ==
  ASSUME Alone, TypeInv, CountInv, [Next]_vars
  PROVE  CountInv'
  <1>0. /\ slot \in Slots /\ PlacesOK /\ status \in [Runs -> [Pieces -> Status]]
        /\ queue \in [Runs -> SUBSET Pieces]
        /\ job \in [Runs -> [Workers -> Jobs]]
    BY TypeParts DEF TypeInv
  <1>1. ASSUME slot' = slot, status' = status,
               \A r \in Runs : pc'[r][0] = "work" => pc[r][0] = "work"
        PROVE  CountInv'
    BY <1>1 DEF CountInv, ProgressSound, InStep
  <1>2. ASSUME NEW r \in Runs, NEW w \in Workers, NEW there, Go(r, w, there)
        PROVE  \A q \in Runs : pc'[q][0] = pc[q][0]
    BY <1>0, <1>2, ThreadSets DEF Go, PlacesOK
  <1>3. ASSUME NEW r \in Runs, NEW w \in Workers, Take(r, w)
        PROVE  CountInv'
    <2>1. PICK p \in queue[r] : Mark(r, p, "downloading")
      BY <1>3 DEF Take
    <2>2. p \in Pieces /\ status[r][p] # "completed"
      BY <1>0, <2>1 DEF TypeInv, RunInv, RunOK, Divided
    <2>3. pc[r][w] # "done" /\ pc'[r][0] = pc[r][0]
      BY <1>2, <1>3 DEF Take, At
    <2> QED
      BY <2>1, <2>2, <2>3, MarkCounts DEF Mark, Status
  <1>4. ASSUME NEW r \in Runs, NEW w \in Workers, MarkCompleted(r, w) \/ MarkFailed(r, w)
        PROVE  CountInv'
    <2>1. job[r][w].piece \in Pieces /\ pc[r][w] \in {"mark", "fail"}
      BY <1>0, <1>4 DEF Jobs, MarkCompleted, MarkFailed, At
    <2>2. status[r][job[r][w].piece] # "completed"
      BY <2>1 DEF TypeInv, RunInv, RunOK, Divided
    <2>3. pc[r][w] # "done" /\ pc'[r][0] = pc[r][0]
      BY <1>2, <1>4, <2>1 DEF MarkCompleted, MarkFailed
    <2>4. CASE MarkCompleted(r, w)
      BY <2>1, <2>2, <2>3, <2>4, MarkCounts DEF MarkCompleted, Status
    <2>5. CASE MarkFailed(r, w)
      BY <2>1, <2>2, <2>3, <2>5, MarkCounts DEF MarkFailed, Mark, Status
    <2> QED
      BY <1>4, <2>4, <2>5
  <1>5. ASSUME NEW r \in Runs, NEW w \in Workers,
               NoneLeft(r, w) \/ NoAnswer(r, w) \/ BadAnswer(r, w) \/ WritePiece(r, w)
        PROVE  CountInv'
    <2>1. slot' = slot /\ status' = status /\ \E there : Go(r, w, there)
      BY <1>5 DEF NoneLeft, NoAnswer, BadAnswer, WritePiece, NextTry
    <2> QED
      BY <1>1, <1>2, <2>1
  <1>6. ASSUME NEW r \in Runs, NEW t \in Threads, SaveState(r, t)
        PROVE  CountInv'
    <2>1. /\ slot' = slot /\ status' = status
          /\ \E there \in {"copy", "flush", "guard", "fetch", "pop"} : Go(r, t, there)
      BY <1>6
      DEF SaveState, OpenSidecar, SkipSidecar, CopyStatus, FlushSidecar, AfterSave
    <2>2. \A q \in Runs : pc'[q][0] = "work" => pc[q][0] = "work"
      BY <1>0, <2>1, ThreadSets DEF Go, PlacesOK
    <2> QED
      BY <1>1, <2>1, <2>2
  <1>7. CASE Crash
    <2>1. slot'.done = 0 /\ slot'.status \in [Pieces -> Status]
      BY <1>7 DEF Crash, Placeholder, AllPending, Status
    <2>2. \A r \in Runs : pc'[r][0] # "work"
      BY <1>7, ThreadSets DEF Crash, Quiet
    <2>3. ProgressSound'
      BY <2>1, CompletedFinite DEF ProgressSound, Completed
    <2> QED
      BY <2>2, <2>3 DEF CountInv, InStep
  <1>8. CASE UNCHANGED vars
    BY <1>1, <1>8 DEF vars
  <1> QED
    BY <1>3, <1>4, <1>5, <1>6, <1>7, <1>8, RunCounts DEF Next, WorkerStep

\* CountsWhatWasFetched: when runs of the file do not overlap, show_downloads
\* never reports more pieces fetched than have the status completed, although
\* the workers of a run count and mark side by side (the worker's
\* pieces_downloaded++ next to its status).
THEOREM CountsWhatWasFetched ==
  ASSUME Alone
  PROVE  Spec => []ProgressSound
  <1>1. Init => CountInv
    <2> SUFFICES ASSUME Init PROVE CountInv
      OBVIOUS
    <2>1. slot.done = 0 /\ slot.status \in [Pieces -> Status]
      BY DEF Init, Placeholder, AllPending, Status
    <2>2. \A r \in Runs : pc[r][0] # "work"
      BY ThreadSets DEF Init, Quiet
    <2>3. ProgressSound
      BY <2>1, CompletedFinite DEF ProgressSound, Completed
    <2> QED
      BY <2>2, <2>3 DEF CountInv, InStep
  <1>2. TypeInv /\ CountInv /\ [Next]_vars => CountInv'
    BY CountStep
  <1>3. CountInv => ProgressSound
    BY DEF CountInv
  <1> QED
    BY <1>1, <1>2, <1>3, RunsInOrder, PTL DEF Spec
=============================================================================
