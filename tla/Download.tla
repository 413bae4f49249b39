------------------------------ MODULE Download ------------------------------
(***************************************************************************)
(* One file of one client as the Downloader fetches it: start() claims the *)
(* file's slot in downloads_, run() prepares the output file, reads the    *)
(* ".downloading" sidecar, hands the missing pieces to its workers, checks *)
(* the whole file and announces it; a crash of the process leaves the      *)
(* output file and the sidecar behind for the next run().                  *)
(*                                                                         *)
(* Thread 0 of a run is the thread start() creates, threads 1..NumPeers    *)
(* are its workers (one per peer, for at most 8 peers and 1000 pieces).    *)
(* Runs can overlap, because a run gives up its slot before it has ended.  *)
(* All runs here are of one group and write to one destination.  The slot  *)
(* is keyed by the name alone; runs of the name that overlap with another  *)
(* group or destination would have a file and a sidecar of their own.      *)
(*                                                                         *)
(* A piece of the output file is "missing" (never written in full), "good" *)
(* (its hash is the one the tracker gave) or "clipped" (it was good and a  *)
(* zero has been written over its last byte). A sidecar that is missing,   *)
(* empty or all zeros reads as "every piece pending", so the three are one *)
(* value here.                                                             *)
(***************************************************************************)
EXTENDS Integers, FiniteSets

CONSTANTS Runs,        \* names for the calls of run() under way
          NumPieces,   \* num_pieces of the file
          NumPeers,    \* peers on the tracker's list, each gets a worker
          MaxRetries,  \* MAX_RETRIES; 5 in the source
          EndsInZero,  \* whether the last byte of the file is zero
          MaxStarts,   \* bound: calls of start() that claim the slot
          MaxCrashes   \* bound: times the client process dies

ASSUME SizesAssumption ==
  /\ NumPieces \in Nat \ {0} /\ NumPeers \in Nat \ {0}
  /\ MaxRetries \in Nat \ {0}
  /\ EndsInZero \in BOOLEAN

VARIABLES slot,       \* downloads_[fname]
          pc,         \* where each thread of each run is
          status,     \* piece_status of each run
          queue,      \* pending_pieces of each run: it is filled in ascending
                      \* order and then only popped, so a set will do
          job,        \* the piece a worker has, its attempt, the peer's turn
          copy,       \* what a thread in save_state is about to write
          out,        \* the pieces of the output file
          sidecar,    \* the statuses a reader finds in the sidecar
          registered, \* registry_ has the file
          seeding,    \* the tracker was told that this client has the file
          starts, crashes

vars == <<slot, pc, status, queue, job, copy, out, sidecar, registered,
          seeding, starts, crashes>>
diskVars == <<out, sidecar>>
shareVars == <<registered, seeding>>
bounds == <<starts, crashes>>

Pieces == 1..NumPieces
Workers == 1..NumPeers
Threads == {0} \cup Workers

Status == {"pending", "downloading", "completed", "failed"}
AllPending == [p \in Pieces |-> "pending"]
Whole == \A p \in Pieces : out[p] = "good"

\* The entry start() makes has no piece list yet.
Placeholder(active) ==
  [active |-> active, listed |-> FALSE, status |-> AllPending, done |-> 0]

NoJob == [piece |-> 1, attempt |-> 0, turn |-> 1]
Quiet == [t \in Threads |-> IF t = 0 THEN "idle" ELSE "done"]

Init ==
  /\ slot = Placeholder(FALSE)
  /\ pc = [r \in Runs |-> Quiet]
  /\ status = [r \in Runs |-> AllPending]
  /\ queue = [r \in Runs |-> {}]
  /\ job = [r \in Runs |-> [w \in Workers |-> NoJob]]
  /\ copy = [r \in Runs |-> [t \in Threads |-> AllPending]]
  /\ out = [p \in Pieces |-> "missing"]
  /\ sidecar = AllPending
  /\ registered = FALSE /\ seeding = FALSE
  /\ starts = 0 /\ crashes = 0

-----------------------------------------------------------------------------
At(r, t, here) == pc[r][t] = here
Go(r, t, there) == pc' = [pc EXCEPT ![r][t] = there]

\* A worker writes a piece's status under mtx_. While the slot holds a
\* placeholder its piece_status is empty and the write is out of bounds: the
\* process dies (Crash) or the write is lost.
SlotMarked(p, st) ==
  IF slot.listed THEN [slot EXCEPT !.status[p] = st] ELSE slot

-----------------------------------------------------------------------------
(* start() and the part of run() before the workers.                       *)

Start(r) ==
  /\ At(r, 0, "idle") /\ starts < MaxStarts
  /\ ~slot.active
  /\ slot' = Placeholder(TRUE)
  /\ Go(r, 0, "metadata")
  /\ starts' = starts + 1
  /\ UNCHANGED <<status, queue, job, copy, diskVars, shareVars, crashes>>

\* The tracker refuses, cannot be reached or knows no peer: run() returns.
Metadata(r) ==
  /\ At(r, 0, "metadata")
  /\ Go(r, 0, "prepare") \/ Go(r, 0, "guard")
  /\ UNCHANGED <<slot, status, queue, job, copy, diskVars, shareVars, bounds>>

\* Writing a zero in the last place gives the file its size, whether the file
\* is new or already there. A flush that fails is reported and ignored.
Preallocated ==
  [out EXCEPT ![NumPieces] = IF @ = "good" /\ ~EndsInZero THEN "clipped" ELSE @]

Preallocate(r) ==
  /\ At(r, 0, "prepare")
  /\ \/ Go(r, 0, "resume") /\ out' \in {out, Preallocated}
     \/ Go(r, 0, "guard") /\ UNCHANGED out
  /\ UNCHANGED <<slot, status, queue, job, copy, sidecar, shareVars, bounds>>

ReadSidecar(r) ==
  /\ At(r, 0, "resume")
  /\ status' = [status EXCEPT ![r] = sidecar]
  /\ Go(r, 0, "track")
  /\ UNCHANGED <<slot, queue, job, copy, diskVars, shareVars, bounds>>

\* The slot gets the piece list, the missing pieces are queued and the workers
\* start.
Missing(st) == {p \in Pieces : st[p] # "completed"}

Track(r) ==
  /\ At(r, 0, "track")
  /\ slot' = [active |-> TRUE, listed |-> TRUE, status |-> status[r],
              done |-> 0]
  /\ queue' = [queue EXCEPT ![r] = Missing(status[r])]
  /\ pc' = [pc EXCEPT ![r] = [t \in Threads |-> IF t = 0 THEN "work" ELSE "pop"]]
  /\ UNCHANGED <<status, job, copy, diskVars, shareVars, bounds>>

-----------------------------------------------------------------------------
(* A worker.                                                               *)

\* The status in the run's own piece_status and in the slot.
Mark(r, p, st) ==
  /\ status' = [status EXCEPT ![r][p] = st]
  /\ slot' = SlotMarked(p, st)

\* The front of the queue is its least piece.
Take(r, w) ==
  /\ At(r, w, "pop")
  /\ \E p \in queue[r] :
       /\ \A other \in queue[r] : p <= other
       /\ queue' = [queue EXCEPT ![r] = @ \ {p}]
       /\ job' = [job EXCEPT ![r][w] = [NoJob EXCEPT !.piece = p]]
       /\ Mark(r, p, "downloading")
  /\ Go(r, w, "open")
  /\ UNCHANGED <<copy, diskVars, shareVars, bounds>>

\* No piece is left; the job is over and forgotten.
NoneLeft(r, w) ==
  /\ At(r, w, "pop")
  /\ queue[r] = {}
  /\ Go(r, w, "done")
  /\ job' = [job EXCEPT ![r][w] = NoJob]
  /\ UNCHANGED <<slot, status, queue, copy, diskVars, shareVars, bounds>>

\* Mutant: the retry loop has no limit.
NextTry_unbounded(r, w, cost) ==
  LET over == job[r][w].turn = NumPeers
  IN /\ job' = [job EXCEPT ![r][w] =
                  [@ EXCEPT !.turn = IF over THEN 1 ELSE @ + 1,
                            !.attempt = @ + cost + (IF over THEN 1 ELSE 0)]]
     /\ Go(r, w, "fetch")

\* Mutant: a round in which no peer answers is not counted as an attempt.
NextTry_free(r, w, cost) ==
  LET spent == job[r][w].attempt + cost
      over == job[r][w].turn = NumPeers
  IN /\ job' = [job EXCEPT ![r][w] =
                  [@ EXCEPT !.turn = IF over THEN 1 ELSE @ + 1,
                            !.attempt = spent]]
     /\ Go(r, w, IF over /\ spent >= MaxRetries THEN "fail" ELSE "fetch")

\* On to the next peer, or to the next round while attempts are left. `cost`
\* is 1 for an answer that was bad or could not be written and 0 for a peer
\* that gave none; a round without success costs one more.
NextTry(r, w, cost) ==
  LET spent == job[r][w].attempt + cost
      over == job[r][w].turn = NumPeers
  IN /\ job' = [job EXCEPT ![r][w] =
                  [piece |-> @.piece,
                   turn |-> IF over THEN 1 ELSE @.turn + 1,
                   attempt |-> IF over THEN spent + 1 ELSE spent]]
     /\ Go(r, w, IF over /\ spent + 1 >= MaxRetries THEN "fail" ELSE "fetch")

\* No socket, bad address, no connection, no answer within the timeout.
NoAnswer(r, w) ==
  /\ At(r, w, "fetch")
  /\ NextTry(r, w, 0)
  /\ UNCHANGED <<slot, status, queue, copy, diskVars, shareVars, bounds>>

\* The hash differs, or the verified piece cannot be written in full. A part
\* of the right bytes makes no piece worse and none good.
BadAnswer(r, w) ==
  /\ At(r, w, "fetch")
  /\ NextTry(r, w, 1)
  /\ UNCHANGED <<slot, status, queue, copy, diskVars, shareVars, bounds>>

\* Mutant: the piece is marked while its bytes are still to be written.
WritePiece_unwritten(r, w) ==
  /\ At(r, w, "fetch")
  /\ Go(r, w, "mark")
  /\ UNCHANGED <<slot, status, queue, job, copy, diskVars, shareVars, bounds>>

\* The hash agrees and the piece is written at its offset.
WritePiece(r, w) ==
  /\ At(r, w, "fetch")
  /\ out' = [out EXCEPT ![job[r][w].piece] = "good"]
  /\ Go(r, w, "mark")
  /\ UNCHANGED <<slot, status, queue, job, copy, sidecar, shareVars, bounds>>

MarkCompleted(r, w) ==
  LET p == job[r][w].piece
      marked == SlotMarked(p, "completed")
  IN /\ At(r, w, "mark")
     /\ status' = [status EXCEPT ![r][p] = "completed"]
     /\ slot' = [marked EXCEPT !.done = @ + 1]
     /\ Go(r, w, "open")
     /\ UNCHANGED <<queue, job, copy, diskVars, shareVars, bounds>>

\* Mutant: a piece that was given up is counted as fetched.
MarkFailed_counted(r, w) ==
  LET marked == SlotMarked(job[r][w].piece, "failed")
  IN /\ At(r, w, "fail")
     /\ status' = [status EXCEPT ![r][job[r][w].piece] = "failed"]
     /\ slot' = [marked EXCEPT !.done = @ + 1]
     /\ Go(r, w, "open")
     /\ UNCHANGED <<queue, job, copy, diskVars, shareVars, bounds>>

\* Mutant: a piece that was given up is marked completed.
MarkFailed_done(r, w) ==
  /\ At(r, w, "fail")
  /\ Mark(r, job[r][w].piece, "completed")
  /\ Go(r, w, "open")
  /\ UNCHANGED <<queue, job, copy, diskVars, shareVars, bounds>>

MarkFailed(r, w) ==
  /\ At(r, w, "fail")
  /\ Mark(r, job[r][w].piece, "failed")
  /\ Go(r, w, "open")
  /\ UNCHANGED <<queue, job, copy, diskVars, shareVars, bounds>>

-----------------------------------------------------------------------------
(* save_state, which no lock protects: the file is truncated, the statuses *)
(* are read into the stream's buffer, and the buffer reaches the file.     *)

OpenSidecar(r, t) ==
  /\ At(r, t, "open")
  /\ Go(r, t, "copy")
  /\ sidecar' = AllPending
  /\ UNCHANGED <<slot, status, queue, job, copy, out, shareVars, bounds>>

\* Where the thread goes when save_state returns.
AfterSave(r, t) ==
  IF t = 0 THEN "guard"
  ELSE IF status[r][job[r][t].piece] = "downloading" THEN "fetch" ELSE "pop"

\* The sidecar cannot be opened, or was removed while this thread had it open.
SkipSidecar(r, t) ==
  /\ At(r, t, "open") \/ At(r, t, "lost")
  /\ Go(r, t, AfterSave(r, t))
  /\ UNCHANGED <<slot, status, queue, job, copy, diskVars, shareVars, bounds>>

CopyStatus(r, t) ==
  /\ At(r, t, "copy")
  /\ copy' = [copy EXCEPT ![r][t] = status[r]]
  /\ Go(r, t, "flush")
  /\ UNCHANGED <<slot, status, queue, job, diskVars, shareVars, bounds>>

FlushSidecar(r, t) ==
  /\ At(r, t, "flush")
  /\ sidecar' = copy[r][t]
  /\ copy' = [copy EXCEPT ![r][t] = AllPending]
  /\ Go(r, t, AfterSave(r, t))
  /\ UNCHANGED <<slot, status, queue, job, out, shareVars, bounds>>

-----------------------------------------------------------------------------
(* The end of run().                                                       *)

Released == [slot EXCEPT !.active = FALSE]

\* The workers are joined and the slot's statuses decide. Out of bounds (the
\* slot is a placeholder) they are whatever the memory holds.
AllCompleted(answer) ==
  slot.listed => answer = (\A p \in Pieces : slot.status[p] = "completed")

Join(r) ==
  /\ At(r, 0, "work")
  /\ \A w \in Workers : At(r, w, "done")
  /\ \E answer \in BOOLEAN :
       /\ AllCompleted(answer)
       /\ Go(r, 0, IF answer THEN "hash" ELSE "open")
       /\ slot' = IF answer THEN slot ELSE Released
  /\ UNCHANGED <<status, queue, job, copy, diskVars, shareVars, bounds>>

\* Mutant: pieces that are all marked are taken for a whole file.
CheckHash_trusting(r) ==
  /\ At(r, 0, "hash")
  /\ Go(r, 0, "announce")
  /\ UNCHANGED <<slot, status, queue, job, copy, diskVars, shareVars, bounds>>

CheckHash(r) ==
  /\ At(r, 0, "hash")
  /\ Go(r, 0, IF Whole THEN "announce" ELSE "open")
  /\ slot' = IF Whole THEN slot ELSE Released
  /\ UNCHANGED <<status, queue, job, copy, diskVars, shareVars, bounds>>

Register(r) ==
  /\ At(r, 0, "announce")
  /\ registered' = TRUE
  /\ Go(r, 0, "notify")
  /\ UNCHANGED <<slot, status, queue, job, copy, diskVars, seeding, bounds>>

\* file_downloaded; the answer, or that there is none, is not looked at.
Notify(r) ==
  /\ At(r, 0, "notify")
  /\ seeding' \in {seeding, TRUE}
  /\ Go(r, 0, "release")
  /\ UNCHANGED <<slot, status, queue, job, copy, diskVars, registered, bounds>>

Release(r) ==
  /\ At(r, 0, "release")
  /\ slot' = Released
  /\ Go(r, 0, "remove")
  /\ UNCHANGED <<status, queue, job, copy, diskVars, shareVars, bounds>>

\* Another run's save_state that has the removed file open writes to nothing.
RemoveSidecar(r) ==
  LET writing == {x \in Runs \X Threads : pc[x[1]][x[2]] \in {"copy", "flush"}}
  IN /\ At(r, 0, "remove")
     /\ sidecar' = AllPending
     /\ pc' = [q \in Runs |-> [t \in Threads |->
                 IF q = r /\ t = 0 THEN "guard"
                 ELSE IF <<q, t>> \in writing THEN "lost" ELSE pc[q][t]]]
     /\ copy' = [q \in Runs |-> [t \in Threads |->
                   IF <<q, t>> \in writing THEN AllPending ELSE copy[q][t]]]
     /\ UNCHANGED <<slot, status, queue, job, out, shareVars, bounds>>

\* ~ActiveGuard: run() returns through mark_inactive, and its locals are gone.
Guard(r) ==
  /\ At(r, 0, "guard")
  /\ slot' = Released
  /\ Go(r, 0, "idle")
  /\ status' = [status EXCEPT ![r] = AllPending]
  /\ UNCHANGED <<queue, job, copy, diskVars, shareVars, bounds>>

\* The process dies. A piece half written is as good as it was before;
\* downloads_ and registry_ were only in memory.
Crash ==
  /\ crashes < MaxCrashes
  /\ crashes' = crashes + 1
  /\ slot' = Placeholder(FALSE)
  /\ pc' = [r \in Runs |-> Quiet]
  /\ status' = [r \in Runs |-> AllPending]
  /\ queue' = [r \in Runs |-> {}]
  /\ job' = [r \in Runs |-> [w \in Workers |-> NoJob]]
  /\ copy' = [r \in Runs |-> [t \in Threads |-> AllPending]]
  /\ registered' = FALSE
  /\ UNCHANGED <<diskVars, seeding, starts>>

-----------------------------------------------------------------------------
WorkerStep(r, w) ==
  \/ Take(r, w) \/ NoneLeft(r, w)
  \/ NoAnswer(r, w) \/ BadAnswer(r, w) \/ WritePiece(r, w)
  \/ MarkCompleted(r, w) \/ MarkFailed(r, w)

SaveState(r, t) ==
  \/ OpenSidecar(r, t) \/ SkipSidecar(r, t)
  \/ CopyStatus(r, t) \/ FlushSidecar(r, t)

RunStep(r) ==
  \/ Metadata(r) \/ Preallocate(r) \/ ReadSidecar(r) \/ Track(r)
  \/ Join(r) \/ CheckHash(r) \/ Register(r) \/ Notify(r)
  \/ Release(r) \/ RemoveSidecar(r) \/ Guard(r)

Next ==
  \/ \E r \in Runs :
       \/ Start(r)
       \/ RunStep(r)
       \/ \E w \in Workers : WorkerStep(r, w)
       \/ \E t \in Threads : SaveState(r, t)
  \/ Crash

\* Every thread is scheduled: sockets to peers time out after 30 seconds, and the
\* tracker answers or its connection fails, so that TrackerClient::send, which
\* holds its mutex for as long, lets the next caller in.
Fairness ==
  \A r \in Runs :
    /\ WF_vars(RunStep(r))
    /\ \A w \in Workers : WF_vars(WorkerStep(r, w))
    /\ \A t \in Threads : WF_vars(SaveState(r, t))

Spec == Init /\ [][Next]_vars
FairSpec == Spec /\ Fairness

-----------------------------------------------------------------------------
(* What show_downloads says of the file.                                   *)

\* Mutant: all pieces of the empty list of a download just begun are completed.
Reported_vacuous ==
  IF /\ slot.active \/ slot.listed
     /\ slot.listed => \A p \in Pieces : slot.status[p] = "completed"
  THEN "COMPLETED"
  ELSE IF slot.active THEN "counts" ELSE "nothing"

Reported ==
  LET completed == slot.listed /\ \A p \in Pieces : slot.status[p] = "completed"
  IN IF completed THEN "COMPLETED"
     ELSE IF ~slot.active THEN "nothing"
     ELSE IF slot.listed THEN "counts" ELSE "PREPARING"

-----------------------------------------------------------------------------
(* Properties.                                                             *)

RunPlaces == {"idle", "metadata", "prepare", "resume", "track", "work", "hash",
              "announce", "notify", "release", "remove", "guard",
              "open", "copy", "flush", "lost"}
WorkerPlaces == {"pop", "open", "copy", "flush", "lost", "fetch", "mark",
                 "fail", "done"}

\* Type of the state; the attempts of a piece stay within the retry loop's
\* reach: MaxRetries - 1 before the last round, which can add one per peer.
TypeOK ==
  /\ slot \in [active : BOOLEAN, listed : BOOLEAN, status : [Pieces -> Status],
               done : Nat]
  /\ pc \in [Runs -> [Threads -> RunPlaces \cup WorkerPlaces]]
  /\ \A r \in Runs : pc[r][0] \in RunPlaces
                     /\ \A w \in Workers : pc[r][w] \in WorkerPlaces
  /\ status \in [Runs -> [Pieces -> Status]]
  /\ queue \in [Runs -> SUBSET Pieces]
  /\ job \in [Runs -> [Workers -> [piece : Pieces, turn : Workers,
                                 attempt : 0..(MaxRetries + NumPeers)]]]
  /\ copy \in [Runs -> [Threads -> [Pieces -> Status]]]
  /\ out \in [Pieces -> {"missing", "clipped", "good"}]
  /\ sidecar \in [Pieces -> Status]
  /\ registered \in BOOLEAN /\ seeding \in BOOLEAN

\* A piece the sidecar calls completed is intact in the output file, so a run
\* that skips it loses nothing: "re-running an interrupted download fetches only
\* what is missing" (README.md:182). Saves of several workers and runs, each
\* with its own copy of statuses that others are changing, may land in any
\* order, and the process may die between any two of their steps.
SidecarHonest == \A p \in Pieces : sidecar[p] = "completed" => out[p] = "good"

\* The part of SidecarHonest that does not depend on the last byte: a piece the
\* sidecar calls completed was verified and written in full.
SidecarWritten ==
  \A p \in Pieces : sidecar[p] = "completed" => out[p] # "missing"

\* show_downloads says COMPLETED of a file only when every piece of it has been
\* written, whatever run the slot's statuses come from (downloader.cpp:533: a
\* download that has only just started is not complete).
CompletedIsWritten ==
  Reported = "COMPLETED" => \A p \in Pieces : out[p] # "missing"

\* The number of pieces show_downloads reports as fetched never exceeds the
\* number of pieces whose status is completed.
ProgressSound ==
  slot.done <= Cardinality({p \in Pieces : slot.status[p] = "completed"})

\* The tracker is told that this client has the file only while the file on
\* disk is whole: the full-file check stands between a resumed run, which
\* trusts the sidecar, and the swarm.
SeedsWholeFile == [][seeding' # seeding => Whole]_vars

\* Every run comes to its end and gives the slot back, however its peers
\* behave: the retry loop is bounded and no thread waits for another for ever.
RunEnds == \A r \in Runs : ~At(r, 0, "idle") ~> At(r, 0, "idle")
=============================================================================
