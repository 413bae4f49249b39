---------------------------- MODULE SwarmProofs -----------------------------
(***************************************************************************)
(* Proofs about Swarm, for any finite number of clients and any groups,    *)
(* contents and pieces.                                                    *)
(***************************************************************************)
EXTENDS Swarm, TLAPS, FiniteSetTheorems, WellFoundedInduction

Uploading == [verb : {"upload"}, group : Groups, content : Contents]
Unsharing == [verb : {"stop"}, group : Groups]

\* The state TypeOK does not type: the console, the bounds, and runs as a
\* function.
Shapes ==
    /\ console \in [Clients -> {Idle} \cup Uploading \cup Unsharing]
    /\ run \in [Clients -> {NoRun} \cup Runs]
    /\ stops \in Nat /\ restarts \in Nat

\* Within a round an attempt is counted for each peer at most; a round starts
\* below the limit.
Rounds ==
    \A c \in Clients :
        run[c] # NoRun =>
            run[c].attempt <= MaxRetries + Cardinality(run[c].tried)

\* A client about to be listed by the tracker has the name registered already.
Registered ==
    stops = 0 /\ restarts = 0 =>
        \A c \in Clients :
            \/ console[c].verb = "upload"
            \/ run[c].at = "notify"
            \/ \E g \in Groups : c \in seeders[g]
            => registry[c] # "none"

SwarmInv == TypeOK /\ Shapes /\ Rounds /\ Registered

-----------------------------------------------------------------------------
(* The first open piece, and the length of a round. *)

\* Min picks a member of a set of positions (the first piece not yet done).
LEMMA MinIsMember ==
  ASSUME NEW T \in SUBSET Nat, T # {}
  PROVE  Min(T) \in T
  <1> DEFINE R == OpToRel(<, Nat)
  <1>1. IsWellFoundedOn(R, Nat)
    BY NatLessThanWellFounded
  <1> HIDE DEF R
  <1>2. PICK x \in T : \A y \in T : ~(<<y, x>> \in R)
    BY <1>1, WFMin
  <1>3. R = {ss \in Nat \X Nat : ss[1] < ss[2]}
    BY Zenon DEF R, OpToRel
  <1>4. ASSUME NEW y \in T
        PROVE  x <= y
    <2>1. x \in Nat /\ y \in Nat
      OBVIOUS
    <2>2. ~(y < x)
      BY <1>2, <1>3, <2>1
    <2> QED
      BY <2>1, <2>2
  <1> QED
    BY <1>4 DEF Min

\* One more peer tried: the round is one longer, and never longer than the list
\* of all clients.
LEMMA RoundLength ==
  ASSUME NEW S \in SUBSET Clients, NEW p \in Clients, p \notin S
  PROVE  /\ Cardinality(S) \in Nat
         /\ Cardinality(S) <= Cardinality(Clients)
         /\ Cardinality(Clients) \in Nat
         /\ Cardinality(S \cup {p}) = Cardinality(S) + 1
         /\ S \cup {p} \in SUBSET Clients
  BY ClientsAssumption, FS_Subset, FS_AddElement, FS_CardinalityType

-----------------------------------------------------------------------------
(* The invariant. *)

\* Nothing is uploaded, asked for or listed at first.
LEMMA SwarmInitInv == Init => SwarmInv
  <1> SUFFICES ASSUME Init PROVE SwarmInv
    OBVIOUS
  <1>1. TypeOK
    BY DEF Init, TypeOK
  <1>2. Shapes
    BY DEF Init, Shapes
  <1>3. Rounds
    BY DEF Init, Rounds, NoRun
  <1>4. Registered
    BY DEF Init, Registered, NoRun, Idle
  <1> QED
    BY <1>1, <1>2, <1>3, <1>4 DEF SwarmInv

\* Steps that leave runs alone keep what is said of rounds.
LEMMA RunsUnchanged ==
  ASSUME Rounds, UNCHANGED run
  PROVE  Rounds'
  BY DEF Rounds

\* upload_file registers the name, then tells the tracker.
LEMMA UploadStep ==
  ASSUME SwarmInv, NEW c \in Clients, NEW g \in Groups, NEW k \in Contents,
         UploadFile(c, g, k)
  PROVE  SwarmInv'
  <1> USE DEF UploadFile, trackerVars
  <1>1. TypeOK'
    BY DEF SwarmInv, TypeOK
  <1>2. Shapes'
    BY DEF SwarmInv, Shapes, Uploading
  <1>3. Registered'
    BY DataAssumption DEF SwarmInv, TypeOK, Shapes, Registered
  <1> QED
    BY <1>1, <1>2, <1>3, RunsUnchanged DEF SwarmInv

\* The tracker lists the uploader, whose registry has the name by then.
LEMMA UploadSentStep ==
  ASSUME SwarmInv, NEW c \in Clients, UploadSent(c)
  PROVE  SwarmInv'
  <1> USE DEF UploadSent, fileVars, bounds
  <1>1. console[c] \in Uploading
    BY DEF SwarmInv, Shapes, Idle, Unsharing
  <1>2. TypeOK'
    BY <1>1 DEF SwarmInv, TypeOK, Uploading
  <1>3. Shapes'
    BY DEF SwarmInv, Shapes
  <1>4. Registered'
    BY <1>1 DEF SwarmInv, TypeOK, Shapes, Registered, Uploading, Idle
  <1> QED
    BY <1>2, <1>3, <1>4, RunsUnchanged DEF SwarmInv

\* stop_share takes the name out of the registry, then tells the tracker.
LEMMA StopStep ==
  ASSUME SwarmInv, NEW c \in Clients,
         StopSent(c) \/ \E g \in Groups : StopShare(c, g)
  PROVE  SwarmInv'
  <1>1. CASE StopSent(c)
    <2> USE <1>1 DEF StopSent, fileVars, bounds
    <2>1. console[c] \in Unsharing
      BY DEF SwarmInv, Shapes, Idle, Uploading
    <2>2. TypeOK'
      BY <2>1 DEF SwarmInv, TypeOK, Unsharing
    <2>3. Shapes'
      BY DEF SwarmInv, Shapes
    <2>4. Registered'
      BY <2>1 DEF SwarmInv, TypeOK, Shapes, Registered, Unsharing, Idle
    <2> QED
      BY <2>2, <2>3, <2>4, RunsUnchanged DEF SwarmInv
  <1>2. ASSUME NEW g \in Groups, StopShare(c, g)
        PROVE  SwarmInv'
    <2> USE <1>2 DEF StopShare, trackerVars
    <2>1. TypeOK'
      BY DEF SwarmInv, TypeOK
    <2>2. Shapes'
      BY DEF SwarmInv, Shapes, Unsharing
    <2>3. Registered'
      BY DEF SwarmInv, Shapes, Registered
    <2> QED
      BY <2>1, <2>2, <2>3, RunsUnchanged DEF SwarmInv
  <1> QED
    BY <1>1, <1>2

\* A process ends and another one comes back: no run, an empty registry.
LEMMA ProcessStep ==
  ASSUME SwarmInv, NEW c \in Clients, Quit(c) \/ ComeBack(c)
  PROVE  SwarmInv'
  <1>1. CASE Quit(c)
    <2> USE <1>1 DEF Quit
    <2>1. TypeOK'
      BY DEF SwarmInv, TypeOK, Shapes
    <2>2. Shapes'
      BY DEF SwarmInv, Shapes
    <2>3. Registered'
      BY DEF SwarmInv, Shapes, Registered
    <2>4. Rounds'
      BY DEF SwarmInv, Shapes, Rounds, NoRun
    <2> QED
      BY <2>1, <2>2, <2>3, <2>4 DEF SwarmInv
  <1>2. CASE ComeBack(c)
    <2> USE <1>2 DEF ComeBack, fileVars, bounds
    <2>1. TypeOK' /\ Shapes' /\ Registered'
      BY DEF SwarmInv, TypeOK, Shapes, Registered
    <2> QED
      BY <2>1, RunsUnchanged DEF SwarmInv
  <1> QED
    BY <1>1, <1>2

\* run() asks the tracker and sizes the output file.
LEMMA QueryStep ==
  ASSUME SwarmInv, NEW c \in Clients, NEW g \in Groups, Query(c, g)
  PROVE  SwarmInv'
  <1> DEFINE r == [at |-> "fetch", group |-> g, want |-> meta[g],
                   list |-> seeders[g] \cap online, got |-> sidecar[c],
                   failed |-> {}, tried |-> {}, attempt |-> 0]
  <1>1. /\ run' = [run EXCEPT ![c] = r] /\ run[c] = NoRun
        /\ dest' = [dest EXCEPT ![c][NumPieces] = Zeroed]
        /\ UNCHANGED <<trackerVars, registry, sidecar, console, restarts, stops>>
    BY DEF Query, download_file
  <1>2. Cardinality({}) = 0 /\ Cardinality(Clients) \in Nat
    BY ClientsAssumption, FS_EmptySet, FS_CardinalityType
  <1>3. r \in Runs
    <2>1. meta[g] \in Contents
      BY DEF SwarmInv, TypeOK, Query
    <2> QED
      BY <1>2, <2>1, ClientsAssumption DEF SwarmInv, TypeOK, Runs
  <1>4. TypeOK'
    <2>1. dest' \in [Clients -> [Pieces -> Bytes \cup {NoBytes, Zeroed}]]
      BY <1>1, DataAssumption DEF SwarmInv, TypeOK, Pieces
    <2>2. \A d \in Clients : run'[d] = NoRun \/ run'[d] \in Runs
      BY <1>1, <1>3 DEF SwarmInv, Shapes
    <2> QED
      BY <1>1, <2>1, <2>2 DEF SwarmInv, TypeOK, trackerVars
  <1>5. Shapes'
    BY <1>1, <1>3 DEF SwarmInv, Shapes
  <1>6. Rounds'
    BY <1>1, <1>2, ClientsAssumption DEF SwarmInv, Shapes, Rounds
  <1>7. Registered'
    BY <1>1 DEF SwarmInv, Shapes, Registered, trackerVars
  <1> QED
    BY <1>4, <1>5, <1>6, <1>7 DEF SwarmInv

\* A run in progress is a record of Runs, and its first open piece is a piece.
LEMMA RunOpen ==
  ASSUME SwarmInv, NEW c \in Clients, Fetching(c), Open(c) # {}
  PROVE  run[c] \in Runs /\ Min(Open(c)) \in Pieces
  <1>1. run[c] \in Runs
    BY DEF SwarmInv, TypeOK, Fetching, NoRun
  <1>2. Open(c) \in SUBSET Nat /\ Open(c) \subseteq Pieces
    BY DataAssumption DEF Open, Pieces
  <1> QED
    BY <1>1, <1>2, MinIsMember

\* A piece with the right hash is written and noted.
LEMMA FetchStep ==
  ASSUME SwarmInv, NEW c \in Clients, NEW p \in Clients, Fetch(c, p)
  PROVE  SwarmInv'
  <1> DEFINE i == Min(Open(c))
             r == [run[c] EXCEPT !.got = @ \cup {i}, !.tried = {}, !.attempt = 0]
  <1>1. run[c] \in Runs /\ i \in Pieces /\ run[c].at = "fetch"
    BY RunOpen DEF Fetch, Fetching
  <1> HIDE DEF i
  <1>2. /\ run' = [run EXCEPT ![c] = r]
        /\ dest' = [dest EXCEPT ![c][i] = Data[run[c].want][i]]
        /\ sidecar' = [sidecar EXCEPT ![c] = run[c].got \cup {i}]
        /\ UNCHANGED <<trackerVars, registry, console, bounds>>
    BY DEF Fetch, Verified, i
  <1>3. Cardinality({}) = 0 /\ Cardinality(Clients) \in Nat
    BY ClientsAssumption, FS_EmptySet, FS_CardinalityType
  <1>4. r \in Runs /\ r.at = "fetch" /\ r.attempt = 0 /\ r.tried = {}
    <2>1. 0 \in 0..(MaxRetries + Cardinality(Clients))
      BY <1>3, ClientsAssumption
    <2>2. run[c].got \cup {i} \in SUBSET Pieces /\ {} \in SUBSET Clients
      BY <1>1 DEF Runs
    <2> QED
      BY <1>1, <2>1, <2>2 DEF Runs
  <1> HIDE DEF r
  <1>5. TypeOK'
    <2>1. Data[run[c].want][i] \in Bytes
      BY <1>1, DataAssumption DEF Runs
    <2>2. dest' \in [Clients -> [Pieces -> Bytes \cup {NoBytes, Zeroed}]]
      BY <1>2, <2>1 DEF SwarmInv, TypeOK
    <2>3. sidecar' \in [Clients -> SUBSET Pieces]
      BY <1>1, <1>2 DEF SwarmInv, TypeOK, Runs
    <2>4. \A d \in Clients : run'[d] = NoRun \/ run'[d] \in Runs
      BY <1>2, <1>4 DEF SwarmInv, Shapes
    <2> QED
      BY <1>2, <2>2, <2>3, <2>4 DEF SwarmInv, TypeOK, trackerVars
  <1>6. Shapes'
    BY <1>2, <1>4 DEF SwarmInv, Shapes, bounds
  <1>7. Rounds'
    <2>1. r.attempt <= MaxRetries + Cardinality(r.tried)
      BY <1>3, <1>4, ClientsAssumption
    <2> QED
      BY <1>2, <2>1 DEF SwarmInv, Shapes, Rounds
  <1>8. Registered'
    BY <1>2, <1>4 DEF SwarmInv, Shapes, Registered, trackerVars, bounds
  <1> QED
    BY <1>5, <1>6, <1>7, <1>8 DEF SwarmInv

\* A wrong answer: the next peer, the next round, or the piece is given up.
LEMMA TryStep ==
  ASSUME SwarmInv, NEW c \in Clients, NEW p \in Clients, TryNext(c, p)
  PROVE  SwarmInv'
  <1> DEFINE i == Min(Open(c))
             more == run[c].tried \cup {p}
             over == more = run[c].list
             n == Spent(c, p, over)
             last == over /\ n >= MaxRetries
             r == [run[c] EXCEPT
                     !.tried = IF over THEN {} ELSE more,
                     !.attempt = IF last THEN 0 ELSE n,
                     !.failed = IF last THEN @ \cup {i} ELSE @]
  <1>1. run[c] \in Runs /\ i \in Pieces /\ run[c].at = "fetch"
    BY RunOpen DEF TryNext, Wrong, Fetching
  <1> HIDE DEF i
  <1>2. /\ run' = [run EXCEPT ![c] = r]
        /\ UNCHANGED <<trackerVars, fileVars, console, bounds>>
    BY DEF TryNext, i
  <1>3. /\ run[c].tried \in SUBSET Clients /\ p \notin run[c].tried
        /\ run[c].attempt \in Nat /\ run[c] # NoRun
        /\ run[c].attempt <= MaxRetries + Cardinality(run[c].tried)
    <2>1. p \notin run[c].tried /\ run[c].tried \in SUBSET Clients
      BY <1>1 DEF TryNext, Wrong, Runs
    <2>2. run[c].attempt \in Nat
      BY <1>1, ClientsAssumption, FS_CardinalityType DEF Runs
    <2>3. run[c] # NoRun
      BY <1>1 DEF NoRun
    <2> QED
      BY <2>1, <2>2, <2>3 DEF SwarmInv, Rounds
  <1>4. /\ n \in Nat
        /\ ~over => n <= run[c].attempt + 1
    BY <1>3 DEF Spent
  <1>5. /\ Cardinality({}) = 0 /\ Cardinality(Clients) \in Nat
        /\ Cardinality(more) = Cardinality(run[c].tried) + 1
        /\ Cardinality(run[c].tried) \in Nat
        /\ more \in SUBSET Clients
        /\ Cardinality(more) <= Cardinality(Clients)
    BY <1>3, RoundLength, ClientsAssumption, FS_EmptySet, FS_Subset
  <1> HIDE DEF n, more
  <1>6. /\ (IF last THEN 0 ELSE n) \in Nat
        /\ (IF last THEN 0 ELSE n) <=
             MaxRetries + Cardinality(IF over THEN {} ELSE more)
        /\ MaxRetries + Cardinality(IF over THEN {} ELSE more) <=
             MaxRetries + Cardinality(Clients)
    <2>1. CASE over
      BY <1>4, <1>5, <2>1, ClientsAssumption
    <2>2. CASE ~over
      BY <1>3, <1>4, <1>5, <2>2, ClientsAssumption
    <2> QED
      BY <2>1, <2>2
  <1>7. /\ r \in Runs /\ r.at = "fetch"
        /\ r.attempt <= MaxRetries + Cardinality(r.tried)
    <2> DEFINE a == IF last THEN 0 ELSE n
               t == IF over THEN {} ELSE more
               f == IF last THEN run[c].failed \cup {i} ELSE run[c].failed
    <2>1. a \in 0..(MaxRetries + Cardinality(Clients))
      BY <1>5, <1>6, ClientsAssumption
    <2>2. t \in SUBSET Clients /\ f \in SUBSET Pieces
      BY <1>1, <1>5 DEF Runs
    <2>3. a <= MaxRetries + Cardinality(t)
      BY <1>6
    <2>4. r = [run[c] EXCEPT !.tried = t, !.attempt = a, !.failed = f]
      OBVIOUS
    <2> HIDE DEF a, t, f, r
    <2> QED
      BY <1>1, <2>1, <2>2, <2>3, <2>4 DEF Runs
  <1> HIDE DEF r
  <1>8. TypeOK'
    BY <1>2, <1>7 DEF SwarmInv, TypeOK, Shapes, trackerVars, fileVars
  <1>9. Shapes'
    BY <1>2, <1>7 DEF SwarmInv, Shapes, bounds
  <1>10. Rounds'
    BY <1>2, <1>7 DEF SwarmInv, Shapes, Rounds
  <1>11. Registered'
    BY <1>2, <1>7
    DEF SwarmInv, Shapes, Registered, trackerVars, fileVars, bounds
  <1> QED
    BY <1>8, <1>9, <1>10, <1>11 DEF SwarmInv

\* A run that ends without the file: save_state, no announcement.
LEMMA GivenUp ==
  ASSUME SwarmInv, NEW c \in Clients, NEW s \in SUBSET Pieces,
         run' = [run EXCEPT ![c] = NoRun],
         sidecar' = [sidecar EXCEPT ![c] = s],
         UNCHANGED <<trackerVars, registry, dest, console, bounds>>
  PROVE  SwarmInv'
  <1>1. TypeOK' /\ Shapes'
    BY DEF SwarmInv, TypeOK, Shapes, trackerVars, bounds
  <1>2. Rounds'
    BY DEF SwarmInv, Shapes, Rounds, NoRun
  <1>3. Registered'
    BY DEF SwarmInv, Shapes, Registered, trackerVars, bounds, NoRun
  <1> QED
    BY <1>1, <1>2, <1>3 DEF SwarmInv

\* The end of a run: given up, refused by the full hash, or registered.
LEMMA CheckStep ==
  ASSUME SwarmInv, NEW c \in Clients, Incomplete(c) \/ Check(c)
  PROVE  SwarmInv'
  <1>1. run[c] \in Runs /\ run[c].at = "fetch"
    BY DEF SwarmInv, TypeOK, Fetching, NoRun, Incomplete, Check
  <1>2. run[c].got \in SUBSET Pieces
    BY <1>1 DEF Runs
  <1>3. CASE Incomplete(c) \/ (Check(c) /\ dest[c] # Data[run[c].want])
    BY <1>2, <1>3, GivenUp DEF Incomplete, Check
  <1>4. CASE Check(c) /\ dest[c] = Data[run[c].want]
    <2> DEFINE r == [run[c] EXCEPT !.at = "notify"]
    <2>1. /\ run' = [run EXCEPT ![c] = r]
          /\ registry' = [registry EXCEPT ![c] = "dest"]
          /\ UNCHANGED <<trackerVars, dest, sidecar, console, bounds>>
      BY <1>4 DEF Check
    <2>2. /\ r \in Runs /\ r.want = run[c].want /\ r.tried = run[c].tried
          /\ r.attempt = run[c].attempt /\ run[c] # NoRun
      BY <1>1 DEF Runs, NoRun
    <2> HIDE DEF r
    <2>3. TypeOK'
      BY <2>1, <2>2 DEF SwarmInv, TypeOK, Shapes, trackerVars
    <2>4. Shapes'
      BY <2>1, <2>2 DEF SwarmInv, Shapes, bounds
    <2>5. Rounds'
      BY <2>1, <2>2 DEF SwarmInv, Shapes, Rounds
    <2>6. Registered'
      BY <2>1, <2>2
      DEF SwarmInv, TypeOK, Shapes, Registered, trackerVars, bounds
    <2> QED
      BY <2>3, <2>4, <2>5, <2>6 DEF SwarmInv
  <1> QED
    BY <1>3, <1>4

\* file_downloaded: the tracker lists a client that has registered the file.
LEMMA NotifyStep ==
  ASSUME SwarmInv, NEW c \in Clients, Notify(c)
  PROVE  SwarmInv'
  <1>1. run[c] \in Runs /\ run[c].at = "notify" /\ run[c].group \in Groups
    BY DEF SwarmInv, TypeOK, NoRun, Notify, Runs
  <1>2. TypeOK' /\ Shapes'
    BY <1>1 DEF SwarmInv, TypeOK, Shapes, Notify, bounds
  <1>3. Rounds'
    BY DEF SwarmInv, Shapes, Rounds, NoRun, Notify
  <1>4. Registered'
    BY <1>1 DEF SwarmInv, TypeOK, Shapes, Registered, Notify, bounds, NoRun
  <1> QED
    BY <1>2, <1>3, <1>4 DEF SwarmInv

\* SwarmInvariant: the invariant holds in every state of the swarm.
THEOREM SwarmInvariant == Spec => []SwarmInv
  <1>1. SwarmInv /\ [Next]_vars => SwarmInv'
    <2> SUFFICES ASSUME SwarmInv, [Next]_vars PROVE SwarmInv'
      OBVIOUS
    <2>1. CASE UNCHANGED vars
      BY <2>1, RunsUnchanged
      DEF vars, SwarmInv, TypeOK, Shapes, Registered, trackerVars, fileVars,
          bounds
    <2>2. ASSUME NEW c \in Clients, RunStep(c)
          PROVE  SwarmInv'
      BY <2>2, FetchStep, TryStep, CheckStep, NotifyStep DEF RunStep
    <2> QED
      BY <2>1, <2>2, ClientsAssumption, UploadStep, UploadSentStep, StopStep,
         ProcessStep, QueryStep DEF Next, ConsoleStep
  <1> QED
    BY <1>1, SwarmInitInv, PTL DEF Spec

\* SwarmTypes: the types of the tracker's and the clients' state, with the
\* bound on the attempts at a piece that MAX_RETRIES and the peer list give.
THEOREM SwarmTypes == Spec => []TypeOK
  <1>1. SwarmInv => TypeOK
    BY DEF SwarmInv
  <1> QED
    BY <1>1, SwarmInvariant, PTL

\* ListedHaveTheName: while nobody stops sharing or restarts, every client the
\* tracker lists has the name in its registry, from the first moment on.
THEOREM ListedHaveTheName == Spec => []ListedServes
  <1>1. SwarmInv => ListedServes
    BY DEF SwarmInv, TypeOK, Registered, ListedServes
  <1> QED
    BY <1>1, SwarmInvariant, PTL

-----------------------------------------------------------------------------
(* One upload. *)

\* Nobody has uploaded yet: nothing is listed, so nothing can be asked for.
Untouched ==
    /\ online = Clients
    /\ \A g \in Groups : meta[g] = NoContent /\ seeders[g] = {}
    /\ \A c \in Clients :
          /\ registry[c] = "none" /\ sidecar[c] = {}
          /\ console[c] = Idle /\ run[c] = NoRun

\* What the tracker knows of the one upload, of content k by client u.
ListsOnly(u, k) ==
    \A g \in Groups :
        /\ seeders[g] # {} => meta[g] = k
        /\ meta[g] # NoContent => meta[g] = k /\ u \in seeders[g]

\* A run wants k, still has u to ask, has given nothing up, and the pieces it has
\* are those of k; a client without a run has no sidecar, and the file it may
\* offer is whole.
RunsFor(u, k) ==
    \A c \in Clients :
        /\ run[c] # NoRun =>
              /\ c \notin Uploaders /\ run[c].want = k
              /\ meta[run[c].group] = k
              /\ u \in run[c].list \ run[c].tried /\ run[c].failed = {}
              /\ \A i \in run[c].got : dest[c][i] = Data[k][i]
              /\ run[c].at = "notify" => dest[c] = Data[k]
        /\ run[c] = NoRun =>
              /\ sidecar[c] = {}
              /\ registry[c] = "dest" => dest[c] = Data[k]

OneUpload(u, k) ==
    /\ online = Clients /\ registry[u] = k
    /\ ListsOnly(u, k) /\ RunsFor(u, k)
    /\ \A c \in Clients :
          /\ c # u => registry[c] \in {"dest", "none"}
          /\ console[c] # Idle =>
                c = u /\ console[c].verb = "upload" /\ console[c].content = k

SoleInv ==
    stops = 0 /\ restarts = 0 =>
        /\ uploads \in Nat
        /\ uploads = 0 => Untouched
        /\ uploads = 1 =>
              \E u \in Uploaders, k \in Contents : OneUpload(u, k)

\* The uploader sends the right bytes, whatever is asked of it.
LEMMA UploaderServes ==
  ASSUME SwarmInv, NEW u \in Clients, NEW k \in Contents, online = Clients,
         registry[u] = k, NEW i \in Pieces
  PROVE  serve_one(u, i) = Data[k][i]
  BY DataAssumption DEF serve_one

\* upload_file: the first one makes the uploader, the second one ends the story.
LEMMA SoleUpload ==
  ASSUME SwarmInv, SoleInv, NEW c \in Uploaders, NEW g \in Groups,
         NEW k \in Contents, UploadFile(c, g, k)
  PROVE  SoleInv'
  <1> SUFFICES ASSUME stops = 0, restarts = 0, uploads = 0
               PROVE  OneUpload(c, k)'
    BY DEF UploadFile, SoleInv
  <1>1. c \in Clients /\ Untouched
    BY ClientsAssumption DEF SoleInv
  <1>2. /\ registry' = [registry EXCEPT ![c] = k]
        /\ console' = [console EXCEPT ![c] = [verb |-> "upload", group |-> g,
                                              content |-> k]]
        /\ UNCHANGED <<meta, seeders, online, dest, sidecar, run>>
    BY DEF UploadFile, trackerVars
  <1>3. ListsOnly(c, k)' /\ RunsFor(c, k)'
    BY <1>1, <1>2, DataAssumption
    DEF Untouched, ListsOnly, RunsFor, SwarmInv, TypeOK
  <1> QED
    BY <1>1, <1>2, <1>3 DEF Untouched, OneUpload, SwarmInv, TypeOK, Shapes

\* The steps of a console and of a process that the assumptions leave.
LEMMA SoleConsole ==
  ASSUME SwarmInv, SoleInv, NEW c \in Clients,
         UploadSent(c) \/ StopSent(c) \/ Quit(c) \/ ComeBack(c)
            \/ \E g \in Groups : StopShare(c, g)
  PROVE  SoleInv'
  <1>1. CASE Quit(c) \/ \E g \in Groups : StopShare(c, g)
    BY <1>1 DEF Quit, StopShare, SoleInv, SwarmInv, Shapes
  <1>2. CASE ComeBack(c) \/ StopSent(c)
    <2>1. UNCHANGED <<uploads, stops, restarts>>
      BY <1>2 DEF ComeBack, StopSent, bounds
    <2>2. stops = 0 /\ restarts = 0 /\ uploads = 0 => ~Untouched
      BY <1>2 DEF ComeBack, StopSent, Untouched, Idle
    <2>3. ASSUME NEW u \in Uploaders, NEW k \in Contents, OneUpload(u, k)
          PROVE  FALSE
      BY <1>2, <2>3 DEF ComeBack, StopSent, OneUpload, Idle
    <2> QED
      BY <2>1, <2>2, <2>3 DEF SoleInv
  <1>3. CASE UploadSent(c)
    <2>1. UNCHANGED <<online, registry, dest, sidecar, run, uploads, stops,
                      restarts>>
      BY <1>3 DEF UploadSent, fileVars, bounds
    <2>2. console[c] \in Uploading
      BY <1>3 DEF UploadSent, SwarmInv, Shapes, Idle, Unsharing
    <2>3. ~Untouched
      BY <1>3 DEF UploadSent, Untouched, Idle
    <2>4. ASSUME NEW u \in Uploaders, NEW k \in Contents, OneUpload(u, k)
          PROVE  OneUpload(u, k)'
      <3> DEFINE g == console[c].group
      <3>1. c = u /\ console[c].content = k
        <4>1. console[c] # Idle
          BY <1>3 DEF UploadSent, Idle
        <4> QED
          BY <2>4, <4>1 DEF OneUpload
      <3>2. /\ g \in Groups
            /\ meta' = [meta EXCEPT ![g] = k]
            /\ seeders' = [seeders EXCEPT ![g] = @ \cup {u}]
            /\ console' = [console EXCEPT ![c] = Idle]
        BY <1>3, <2>2, <3>1 DEF UploadSent, Uploading
      <3> HIDE DEF g
      <3>3. ListsOnly(u, k)'
        BY <2>4, <3>2 DEF OneUpload, ListsOnly, SwarmInv, TypeOK
      <3>4. RunsFor(u, k)'
        <4>1. \A h \in Groups : meta[h] = k => meta'[h] = k
          BY <3>2 DEF SwarmInv, TypeOK
        <4>2. \A d \in Clients : run[d] # NoRun => run[d].group \in Groups
          BY DEF SwarmInv, TypeOK, Runs
        <4> QED
          BY <2>1, <2>4, <4>1, <4>2 DEF OneUpload, RunsFor
      <3> QED
        BY <2>1, <2>4, <3>2, <3>3, <3>4 DEF OneUpload, SwarmInv, Shapes
    <2> QED
      BY <2>1, <2>3, <2>4 DEF SoleInv
  <1> QED
    BY <1>1, <1>2, <1>3

\* What a step of client c leaves of OneUpload when it only changes the client's
\* run, output file and sidecar, and lists or registers the client.
LEMMA SoleRun ==
  ASSUME SwarmInv, NEW u \in Uploaders, NEW k \in Contents, OneUpload(u, k),
         NEW c \in Clients \ Uploaders,
         UNCHANGED <<meta, online, console>>,
         \A d \in Clients \ {c} :
            /\ registry'[d] = registry[d] /\ run'[d] = run[d]
            /\ dest'[d] = dest[d] /\ sidecar'[d] = sidecar[d],
         registry'[c] \in {"dest", registry[c]},
         \A g \in Groups :
            seeders'[g] = seeders[g]
               \/ (seeders'[g] = seeders[g] \cup {c} /\ meta[g] = k),
         run'[c] # NoRun =>
            /\ run'[c].want = k /\ meta[run'[c].group] = k
            /\ u \in run'[c].list \ run'[c].tried /\ run'[c].failed = {}
            /\ \A i \in run'[c].got : dest'[c][i] = Data[k][i]
            /\ run'[c].at = "notify" => dest'[c] = Data[k],
         run'[c] = NoRun =>
            /\ sidecar'[c] = {}
            /\ registry'[c] = "dest" => dest'[c] = Data[k]
  PROVE  OneUpload(u, k)'
  <1>1. u \in Clients /\ u # c
    BY ClientsAssumption
  <1>2. ListsOnly(u, k)'
    BY <1>1 DEF OneUpload, ListsOnly
  <1>3. RunsFor(u, k)'
    BY <1>1 DEF OneUpload, RunsFor
  <1> QED
    BY <1>1, <1>2, <1>3 DEF OneUpload

\* run() begins: the uploader is on its list and no sidecar is left behind.
LEMMA SoleQuery ==
  ASSUME SwarmInv, SoleInv, NEW c \in Clients \ Uploaders, NEW g \in Groups,
         Query(c, g)
  PROVE  SoleInv'
  <1> DEFINE r == [at |-> "fetch", group |-> g, want |-> meta[g],
                   list |-> seeders[g] \cap online, got |-> sidecar[c],
                   failed |-> {}, tried |-> {}, attempt |-> 0]
  <1>1. /\ run' = [run EXCEPT ![c] = r] /\ run[c] = NoRun /\ meta[g] # NoContent
        /\ dest' = [dest EXCEPT ![c][NumPieces] = Zeroed]
        /\ UNCHANGED <<trackerVars, registry, sidecar, console, uploads, restarts,
                       stops>>
    BY DEF Query, download_file
  <1>2. ~Untouched
    BY <1>1 DEF Untouched
  <1>3. ASSUME NEW u \in Uploaders, NEW k \in Contents, OneUpload(u, k)
        PROVE  OneUpload(u, k)'
    <2>1. u \in Clients /\ meta[g] = k /\ u \in seeders[g] /\ online = Clients
      BY <1>1, <1>3, ClientsAssumption DEF OneUpload, ListsOnly
    <2>2. sidecar[c] = {}
      BY <1>1, <1>3 DEF OneUpload, RunsFor
    <2>3. /\ run'[c] = r /\ r # NoRun
          /\ \A d \in Clients \ {c} : run'[d] = run[d] /\ dest'[d] = dest[d]
      BY <1>1 DEF SwarmInv, Shapes, TypeOK, NoRun
    <2> QED
      BY <1>1, <1>3, <2>1, <2>2, <2>3, SoleRun DEF trackerVars
  <1> QED
    BY <1>1, <1>2, <1>3 DEF SoleInv

\* A client with a run is not the uploader.
LEMMA SoleWho ==
  ASSUME SwarmInv, NEW u \in Uploaders, NEW k \in Contents, OneUpload(u, k),
         NEW c \in Clients, run[c] # NoRun
  PROVE  c \in Clients \ Uploaders /\ u \in Clients
  BY ClientsAssumption DEF OneUpload, RunsFor

\* A piece with the right hash: one more piece of the content.
LEMMA SoleFetch ==
  ASSUME SwarmInv, NEW u \in Uploaders, NEW k \in Contents, OneUpload(u, k),
         NEW c \in Clients, NEW p \in Clients, Fetch(c, p)
  PROVE  OneUpload(u, k)'
  <1> DEFINE i == Min(Open(c))
             r == [run[c] EXCEPT !.got = @ \cup {i}, !.tried = {}, !.attempt = 0]
  <1>1. run[c] \in Runs /\ i \in Pieces /\ run[c].at = "fetch" /\ run[c] # NoRun
    BY RunOpen DEF Fetch, Fetching, NoRun
  <1>2. c \in Clients \ Uploaders /\ u \in Clients
    BY <1>1, SoleWho
  <1> HIDE DEF i
  <1>3. /\ run' = [run EXCEPT ![c] = r]
        /\ dest' = [dest EXCEPT ![c][i] = Data[run[c].want][i]]
        /\ sidecar' = [sidecar EXCEPT ![c] = run[c].got \cup {i}]
        /\ UNCHANGED <<trackerVars, registry, console>>
    BY DEF Fetch, Verified, i
  <1>4. /\ run[c].want = k /\ meta[run[c].group] = k /\ u \in run[c].list
        /\ run[c].failed = {} /\ \A j \in run[c].got : dest[c][j] = Data[k][j]
    BY <1>1 DEF OneUpload, RunsFor
  <1>5. /\ r.at = "fetch" /\ r.want = k /\ r.group = run[c].group
        /\ r.list = run[c].list /\ r.tried = {} /\ r.failed = {}
        /\ r.got = run[c].got \cup {i} /\ r # NoRun
    BY <1>1, <1>4 DEF Runs, NoRun
  <1> HIDE DEF r
  <1>6. /\ run'[c] = r /\ dest'[c] = [dest[c] EXCEPT ![i] = Data[k][i]]
        /\ \A d \in Clients \ {c} : /\ run'[d] = run[d] /\ dest'[d] = dest[d]
                                    /\ sidecar'[d] = sidecar[d]
    BY <1>3, <1>4 DEF SwarmInv, Shapes, TypeOK
  <1>7. \A j \in r.got : dest'[c][j] = Data[k][j]
    BY <1>1, <1>4, <1>5, <1>6 DEF SwarmInv, TypeOK, Runs
  <1> QED
    BY <1>2, <1>3, <1>4, <1>5, <1>6, <1>7, SoleRun DEF trackerVars

\* A wrong answer is not the uploader's, who is still to be asked: the round is
\* not over and nothing is given up.
LEMMA SoleTry ==
  ASSUME SwarmInv, NEW u \in Uploaders, NEW k \in Contents, OneUpload(u, k),
         NEW c \in Clients, NEW p \in Clients, TryNext(c, p)
  PROVE  OneUpload(u, k)'
  <1> DEFINE i == Min(Open(c))
             more == run[c].tried \cup {p}
             r == [run[c] EXCEPT !.tried = more, !.attempt = Spent(c, p, FALSE)]
  <1>1. run[c] \in Runs /\ i \in Pieces /\ run[c].at = "fetch" /\ run[c] # NoRun
    <2>1. Fetching(c) /\ Open(c) # {}
      BY DEF TryNext, Wrong
    <2> QED
      BY <2>1, RunOpen DEF Fetching, NoRun
  <1>2. c \in Clients \ Uploaders /\ u \in Clients
    BY <1>1, SoleWho
  <1>3. /\ run[c].want = k /\ meta[run[c].group] = k
        /\ u \in run[c].list \ run[c].tried
        /\ run[c].failed = {} /\ \A j \in run[c].got : dest[c][j] = Data[k][j]
    BY <1>1 DEF OneUpload, RunsFor
  <1>4. p # u
    <2>1. serve_one(u, i) = Data[k][i]
      BY <1>1, <1>2, UploaderServes DEF OneUpload
    <2> QED
      BY <1>3, <2>1 DEF TryNext, Wrong, Verified
  <1>5. more # run[c].list
    BY <1>3, <1>4
  <1>6. /\ run' = [run EXCEPT ![c] = r]
        /\ UNCHANGED <<trackerVars, fileVars, console>>
    BY <1>1, <1>5 DEF TryNext, Runs, Spent
  <1>7. /\ r.at = "fetch" /\ r.want = k /\ r.group = run[c].group
        /\ r.list = run[c].list /\ r.tried = more /\ r.failed = {}
        /\ r.got = run[c].got /\ r # NoRun
    BY <1>1, <1>3 DEF Runs, NoRun
  <1> HIDE DEF r
  <1>8. run'[c] = r /\ \A d \in Clients \ {c} : run'[d] = run[d]
    BY <1>6 DEF SwarmInv, Shapes
  <1> QED
    BY <1>2, <1>3, <1>4, <1>6, <1>7, <1>8, SoleRun DEF trackerVars, fileVars

\* No run ends without the file, and its full hash agrees.
LEMMA SoleCheck ==
  ASSUME SwarmInv, NEW u \in Uploaders, NEW k \in Contents, OneUpload(u, k),
         NEW c \in Clients, Incomplete(c) \/ Check(c)
  PROVE  OneUpload(u, k)'
  <1> DEFINE r == [run[c] EXCEPT !.at = "notify"]
  <1>1. run[c] \in Runs /\ run[c].at = "fetch" /\ run[c] # NoRun
    BY DEF SwarmInv, TypeOK, Fetching, NoRun, Incomplete, Check
  <1>2. c \in Clients \ Uploaders /\ u \in Clients
    BY <1>1, SoleWho
  <1>3. /\ run[c].want = k /\ meta[run[c].group] = k
        /\ u \in run[c].list \ run[c].tried
        /\ run[c].failed = {} /\ \A j \in run[c].got : dest[c][j] = Data[k][j]
    BY <1>1 DEF OneUpload, RunsFor
  <1>4. Check(c) /\ run[c].got = Pieces
    BY <1>3 DEF Incomplete, Check
  <1>5. dest[c] = Data[k]
    <2>1. dest[c] \in [Pieces -> Bytes \cup {NoBytes, Zeroed}]
      BY DEF SwarmInv, TypeOK
    <2>2. Data[k] \in [Pieces -> Bytes]
      BY DataAssumption
    <2> QED
      BY <1>3, <1>4, <2>1, <2>2
  <1>6. /\ run' = [run EXCEPT ![c] = r]
        /\ registry' = [registry EXCEPT ![c] = "dest"]
        /\ UNCHANGED <<trackerVars, dest, sidecar, console>>
    BY <1>3, <1>4, <1>5 DEF Check
  <1>7. /\ r.at = "notify" /\ r.want = k /\ r.group = run[c].group
        /\ r.list = run[c].list /\ r.tried = run[c].tried /\ r.failed = {}
        /\ r.got = run[c].got /\ r # NoRun
    BY <1>1, <1>3 DEF Runs, NoRun
  <1> HIDE DEF r
  <1>8. /\ run'[c] = r /\ registry'[c] = "dest"
        /\ \A d \in Clients \ {c} : run'[d] = run[d] /\ registry'[d] = registry[d]
    BY <1>6 DEF SwarmInv, Shapes, TypeOK
  <1> QED
    BY <1>2, <1>3, <1>5, <1>6, <1>7, <1>8, SoleRun DEF trackerVars

\* file_downloaded: the tracker lists a client whose file is whole.
LEMMA SoleNotify ==
  ASSUME SwarmInv, NEW u \in Uploaders, NEW k \in Contents, OneUpload(u, k),
         NEW c \in Clients, Notify(c)
  PROVE  OneUpload(u, k)'
  <1>1. run[c] \in Runs /\ run[c].at = "notify" /\ run[c] # NoRun
    BY DEF SwarmInv, TypeOK, NoRun, Notify
  <1>2. c \in Clients \ Uploaders /\ u \in Clients
    BY <1>1, SoleWho
  <1>3. meta[run[c].group] = k /\ dest[c] = Data[k] /\ run[c].group \in Groups
    BY <1>1 DEF OneUpload, RunsFor, Runs
  <1>4. /\ run'[c] = NoRun /\ sidecar'[c] = {}
        /\ \A d \in Clients \ {c} : run'[d] = run[d] /\ sidecar'[d] = sidecar[d]
        /\ \A g \in Groups :
              seeders'[g] = seeders[g]
                 \/ (seeders'[g] = seeders[g] \cup {c} /\ meta[g] = k)
        /\ UNCHANGED <<meta, online, registry, dest, console>>
    BY <1>3 DEF Notify, SwarmInv, Shapes, TypeOK
  <1> QED
    BY <1>2, <1>3, <1>4, SoleRun

\* DownloadersServe: if those who upload do not download, a client listed for
\* having downloaded a file that was uploaded once serves every byte of it
\* whenever it is not downloading, until somebody stops sharing or leaves.
THEOREM DownloadersServe ==
  ASSUME Uploaders \cap Downloaders = {}
  PROVE  Spec => []SeedersServe
  <1>1. Init => SoleInv
    BY DEF Init, SoleInv, Untouched
  <1>2. SwarmInv /\ SoleInv /\ [Next]_vars => SoleInv'
    <2> SUFFICES ASSUME SwarmInv, SoleInv, [Next]_vars PROVE SoleInv'
      OBVIOUS
    <2>1. CASE UNCHANGED vars
      BY <2>1 DEF vars, trackerVars, fileVars, bounds, SoleInv, Untouched,
                  OneUpload, ListsOnly, RunsFor
    <2>2. ASSUME NEW c \in Clients, RunStep(c)
          PROVE  SoleInv'
      <3>1. UNCHANGED <<uploads, stops, restarts>> /\ run[c] # NoRun
        <4>1. UNCHANGED <<uploads, stops, restarts>>
          BY <2>2
          DEF RunStep, Fetch, TryNext, Incomplete, Check, Notify, bounds
        <4>2. Fetching(c) \/ run[c].at = "notify"
          BY <2>2
          DEF RunStep, Fetch, TryNext, Wrong, Incomplete, Check, Notify
        <4> QED
          BY <4>1, <4>2 DEF Fetching, NoRun
      <3>2. ~Untouched
        BY <3>1 DEF Untouched
      <3>3. ASSUME NEW u \in Uploaders, NEW k \in Contents, OneUpload(u, k)
            PROVE  OneUpload(u, k)'
        BY <2>2, <3>3, SoleFetch, SoleTry, SoleCheck, SoleNotify DEF RunStep
      <3> QED
        BY <3>1, <3>2, <3>3 DEF SoleInv
    <2>3. ASSUME NEW c \in Downloaders, NEW g \in Groups, Query(c, g)
          PROVE  SoleInv'
      BY <2>3, SoleQuery, ClientsAssumption
    <2>4. ASSUME NEW c \in Clients,
                 ConsoleStep(c) \/ Quit(c) \/ ComeBack(c)
                    \/ \E g \in Groups : StopShare(c, g)
          PROVE  SoleInv'
      BY <2>4, SoleConsole DEF ConsoleStep
    <2> QED
      BY <2>1, <2>2, <2>3, <2>4, SoleUpload DEF Next
  <1>3. SwarmInv /\ SoleInv => SeedersServe
    <2> SUFFICES ASSUME SwarmInv, stops = 0, restarts = 0,
                        NEW u \in Uploaders, NEW k \in Contents, OneUpload(u, k),
                        NEW g \in Groups, NEW c \in seeders[g] \ Uploaders,
                        run[c] = NoRun, NEW i \in Pieces
                 PROVE  serve_one(c, i) = Data[meta[g]][i]
      BY DEF SoleInv, SeedersServe, Serves
    <2>1. c \in Clients /\ c # u
      BY DEF SwarmInv, TypeOK
    <2>2. registry[c] = "dest" /\ c \in online
      BY <2>1 DEF OneUpload, SwarmInv, Registered
    <2>3. dest[c] = Data[k] /\ meta[g] = k
      BY <2>1, <2>2 DEF OneUpload, RunsFor, ListsOnly
    <2> QED
      BY <2>2, <2>3 DEF serve_one
  <1> QED
    BY <1>1, <1>2, <1>3, SwarmInvariant, PTL DEF Spec
=============================================================================
