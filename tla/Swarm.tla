------------------------------- MODULE Swarm --------------------------------
(***************************************************************************)
(* Clients that share files of one name over a tracker: upload_file and    *)
(* stop_share on the console, the upload registry, which knows a file by   *)
(* its name alone, the tracker's metadata and seeders per group, the list  *)
(* of peers in its download_file reply, the pieces those peers send, and   *)
(* the check, registration and announcement of what was fetched.           *)
(*                                                                         *)
(* A client's own files do not change and are named by their content.  The *)
(* file a download writes changes piece by piece, also while the registry  *)
(* offers it to others.  All clients are members of all groups.  A run     *)
(* fetches the pieces in order here and a client has one run at a time,    *)
(* although a run that is about to end lets the next one begin: Download   *)
(* has overlapping runs, with their workers and the writing of the         *)
(* sidecar; Sessions has log-ins, PeerServer the sockets.                  *)
(***************************************************************************)
EXTENDS Integers, FiniteSets, FiniteSetsExt

CONSTANTS Clients, Groups,
          Contents,     \* the files people upload under the name
          Data,         \* their pieces
          NumPieces,
          NoContent, NoBytes,
          Zeroed,       \* a last piece with a zero written over its last byte
          Uploaders, Downloaders,   \* bound: who does what
          MaxRetries,   \* MAX_RETRIES, 5 in the source
          MaxUploads, MaxQueries,   \* bounds
          MaxUpsets     \* bound on stop_share and ended processes together

Pieces == 1..NumPieces
Bytes == UNION {{Data[k][i] : i \in Pieces} : k \in Contents}

ASSUME DataAssumption ==
    /\ NumPieces \in Nat \ {0}
    /\ \A k \in Contents : Data[k] \in [Pieces -> Bytes]
    /\ {NoContent, "dest", "none"} \cap Contents = {}
    /\ {NoBytes, Zeroed} \cap Bytes = {}

ASSUME ClientsAssumption ==
    /\ IsFiniteSet(Clients) /\ MaxRetries \in Nat
    /\ Uploaders \subseteq Clients /\ Downloaders \subseteq Clients

VARIABLES
    \* the tracker
    meta, seeders,   \* per group: the hashes it has, as the content they name
    online,          \* the clients whose users are connected
    \* per client
    registry,   \* UploadRegistry: a content (the path of a file of one's own),
                \* "dest" (the output file) or "none"
    dest,       \* the pieces of the output file
    sidecar,    \* the pieces its sidecar calls completed
    console,    \* the command main is executing
    run,        \* the download under way
    uploads, queries, restarts, stops

trackerVars == <<meta, seeders, online>>
fileVars == <<registry, dest, sidecar>>
bounds == <<uploads, queries, restarts, stops>>
vars == <<trackerVars, fileVars, console, run, bounds>>

Idle == [verb |-> "idle"]
NoRun == [at |-> "idle"]

Init ==
    /\ meta = [g \in Groups |-> NoContent]
    /\ seeders = [g \in Groups |-> {}]
    /\ online = Clients
    /\ registry = [c \in Clients |-> "none"]
    /\ dest = [c \in Clients |-> [i \in Pieces |-> NoBytes]]
    /\ sidecar = [c \in Clients |-> {}]
    /\ console = [c \in Clients |-> Idle]
    /\ run = [c \in Clients |-> NoRun]
    /\ uploads = 0 /\ queries = 0 /\ restarts = 0 /\ stops = 0

-----------------------------------------------------------------------------
(* The console. *)

Free(c) == c \in online /\ console[c] = Idle

\* Mutant: the tracker is told before the file is registered.
UploadFile_unregistered(c, g, k) ==
    /\ Free(c) /\ uploads < MaxUploads
    /\ console' = [console EXCEPT ![c] = [verb |-> "register", group |-> g, content |-> k]]
    /\ meta' = [meta EXCEPT ![g] = k]
    /\ seeders' = [seeders EXCEPT ![g] = @ \cup {c}]
    /\ uploads' = uploads + 1
    /\ UNCHANGED <<online, fileVars, run, queries, restarts, stops>>

\* upload_file: the file is hashed and registered ...
UploadFile(c, g, k) ==
    /\ Free(c) /\ uploads < MaxUploads
    /\ registry' = [registry EXCEPT ![c] = k]
    /\ console' = [console EXCEPT ![c] = [verb |-> "upload", group |-> g, content |-> k]]
    /\ uploads' = uploads + 1
    /\ UNCHANGED <<trackerVars, dest, sidecar, run, queries, restarts, stops>>

\* ... and the tracker replaces the hashes and adds the seeder.
UploadSent(c) ==
    /\ console[c].verb = "upload"
    /\ meta' = [meta EXCEPT ![console[c].group] = console[c].content]
    /\ seeders' = [seeders EXCEPT ![console[c].group] = @ \cup {c}]
    /\ console' = [console EXCEPT ![c] = Idle]
    /\ UNCHANGED <<online, fileVars, run, bounds>>

\* stop_share: out of the registry first, whichever group is meant ...
StopShare(c, g) ==
    /\ Free(c) /\ stops + restarts < MaxUpsets
    /\ registry' = [registry EXCEPT ![c] = "none"]
    /\ console' = [console EXCEPT ![c] = [verb |-> "stop", group |-> g]]
    /\ stops' = stops + 1
    /\ UNCHANGED <<trackerVars, dest, sidecar, run, uploads, queries, restarts>>

\* ... then the tracker is told; of a file it does not know it keeps nothing.
StopSent(c) ==
    /\ console[c].verb = "stop"
    /\ seeders' = [seeders EXCEPT ![console[c].group] = @ \ {c}]
    /\ console' = [console EXCEPT ![c] = Idle]
    /\ UNCHANGED <<meta, online, fileVars, run, bounds>>

ConsoleStep(c) == UploadSent(c) \/ StopSent(c)

-----------------------------------------------------------------------------
(* The download. *)

\* TrackerState::download_file: the metadata and the seeders connected now.
download_file(g) == [want |-> meta[g], list |-> seeders[g] \cap online]

\* run() asks the tracker, gives the output file its size by writing a zero in
\* the last place, and trusts the sidecar of an earlier run.  One run of a client
\* at a time: overlapping runs are in Download.
Query(c, g) ==
    /\ c \in online /\ run[c] = NoRun /\ queries < MaxQueries
    /\ meta[g] # NoContent /\ download_file(g).list # {}
    /\ run' = [run EXCEPT ![c] =
                  [at |-> "fetch", group |-> g, want |-> download_file(g).want,
                   list |-> download_file(g).list, got |-> sidecar[c],
                   failed |-> {}, tried |-> {}, attempt |-> 0]]
    /\ dest' = [dest EXCEPT ![c][NumPieces] = Zeroed]
    /\ queries' = queries + 1
    /\ UNCHANGED <<trackerVars, registry, sidecar, console, uploads, restarts,
                   stops>>

\* What the peer server of client p sends for piece i: the registry is asked by
\* name, and a client that is gone or does not have the name sends nothing.
serve_one(p, i) ==
    CASE p \notin online \/ registry[p] = "none" -> NoBytes
      [] registry[p] = "dest" -> dest[p][i]
      [] OTHER -> Data[registry[p]][i]

Fetching(c) == run[c].at = "fetch"
Open(c) == Pieces \ (run[c].got \cup run[c].failed)
Verified(c, i, bytes) == bytes = Data[run[c].want][i]

\* Piece i comes from peer p with the right hash and is written and noted.
Fetch(c, p) ==
    /\ Fetching(c) /\ Open(c) # {}
    /\ p \in run[c].list \ run[c].tried
    /\ LET i == Min(Open(c)) IN
         /\ Verified(c, i, serve_one(p, i))
         /\ dest' = [dest EXCEPT ![c][i] = serve_one(p, i)]
         /\ sidecar' = [sidecar EXCEPT ![c] = run[c].got \cup {i}]
         /\ run' = [run EXCEPT ![c].got = @ \cup {i}, ![c].tried = {},
                               ![c].attempt = 0]
    /\ UNCHANGED <<trackerVars, registry, console, bounds>>

\* Peer p sends nothing, or something else.
Wrong(c, p) ==
    /\ Fetching(c) /\ Open(c) # {}
    /\ p \in run[c].list \ run[c].tried
    /\ ~Verified(c, Min(Open(c)), serve_one(p, Min(Open(c))))

\* Mutant: the first wrong answer ends the search for the piece.
TryNext_gives_up(c, p) ==
    /\ Wrong(c, p)
    /\ run' = [run EXCEPT ![c].failed = @ \cup {Min(Open(c))}, ![c].tried = {},
                          ![c].attempt = 0]
    /\ UNCHANGED <<trackerVars, fileVars, console, bounds>>

\* What the attempts come to: a wrong answer counts as one, a peer that sends
\* nothing as none, and the round as one more when its last peer has failed.
Spent(c, p, over) ==
    run[c].attempt + (IF serve_one(p, Min(Open(c))) = NoBytes THEN 0 ELSE 1)
                   + (IF over THEN 1 ELSE 0)

\* Mutant: the attempts are not limited.
TryNext_unbounded(c, p) ==
    /\ Wrong(c, p)
    /\ LET tried == run[c].tried \cup {p}
           over == tried = run[c].list
       IN run' = [run EXCEPT ![c].tried = IF over THEN {} ELSE tried,
                             ![c].attempt = Spent(c, p, over)]
    /\ UNCHANGED <<trackerVars, fileVars, console, bounds>>

\* On to the next peer; after the last one to the next round while attempts are
\* left, or the piece is given up.
TryNext(c, p) ==
    /\ Wrong(c, p)
    /\ LET tried == run[c].tried \cup {p}
           over == tried = run[c].list
           last == over /\ Spent(c, p, over) >= MaxRetries
       IN run' = [run EXCEPT
                    ![c].tried = IF over THEN {} ELSE tried,
                    ![c].attempt = IF last THEN 0 ELSE Spent(c, p, over),
                    ![c].failed = IF last THEN @ \cup {Min(Open(c))} ELSE @]
    /\ UNCHANGED <<trackerVars, fileVars, console, bounds>>

\* Pieces are missing: save_state, and run() returns.
Incomplete(c) ==
    /\ Fetching(c) /\ Open(c) = {} /\ run[c].failed # {}
    /\ sidecar' = [sidecar EXCEPT ![c] = run[c].got]
    /\ run' = [run EXCEPT ![c] = NoRun]
    /\ UNCHANGED <<trackerVars, registry, dest, console, bounds>>

\* The full hash agrees and the file is registered, or run() returns and leaves
\* a sidecar that calls every piece completed.
Check(c) ==
    /\ Fetching(c) /\ run[c].got = Pieces
    /\ IF dest[c] = Data[run[c].want]
       THEN /\ registry' = [registry EXCEPT ![c] = "dest"]
            /\ run' = [run EXCEPT ![c].at = "notify"]
            /\ UNCHANGED sidecar
       ELSE /\ sidecar' = [sidecar EXCEPT ![c] = run[c].got]
            /\ run' = [run EXCEPT ![c] = NoRun]
            /\ UNCHANGED registry
    /\ UNCHANGED <<trackerVars, dest, console, bounds>>

\* file_downloaded: the tracker adds a seeder to whatever it lists by now.
Notify(c) ==
    /\ run[c].at = "notify"
    /\ seeders' = [seeders EXCEPT ![run[c].group] = @ \cup {c}]
    /\ sidecar' = [sidecar EXCEPT ![c] = {}]
    /\ run' = [run EXCEPT ![c] = NoRun]
    /\ UNCHANGED <<meta, online, registry, dest, console, bounds>>

RunStep(c) ==
    \/ \E p \in Clients : Fetch(c, p) \/ TryNext(c, p)
    \/ Incomplete(c) \/ Check(c) \/ Notify(c)

-----------------------------------------------------------------------------
\* The client process ends.  The tracker sees the connection drop and keeps the
\* seeders; the registry was only in memory, the files are still there.
Quit(c) ==
    /\ c \in online /\ stops + restarts < MaxUpsets
    /\ online' = online \ {c}
    /\ registry' = [registry EXCEPT ![c] = "none"]
    /\ console' = [console EXCEPT ![c] = Idle]
    /\ run' = [run EXCEPT ![c] = NoRun]
    /\ restarts' = restarts + 1
    /\ UNCHANGED <<meta, seeders, dest, sidecar, uploads, queries, stops>>

\* A new process logs in.
ComeBack(c) ==
    /\ c \notin online
    /\ online' = online \cup {c}
    /\ UNCHANGED <<meta, seeders, fileVars, console, run, bounds>>

Next ==
    \/ \E c \in Uploaders, g \in Groups, k \in Contents : UploadFile(c, g, k)
    \/ \E c \in Clients :
          \/ ConsoleStep(c) \/ RunStep(c) \/ Quit(c) \/ ComeBack(c)
          \/ \E g \in Groups : StopShare(c, g)
    \/ \E c \in Downloaders, g \in Groups : Query(c, g)

\* A run goes on as long as its process does: every connection to a peer is
\* answered, refused or timed out.
Fairness == \A c \in Clients : WF_vars(RunStep(c)) /\ WF_vars(ConsoleStep(c))

Spec == Init /\ [][Next]_vars
FairSpec == Spec /\ Fairness

-----------------------------------------------------------------------------
(* Properties. *)

Runs == [at : {"fetch", "notify"}, group : Groups, want : Contents,
         list : SUBSET Clients, got : SUBSET Pieces, failed : SUBSET Pieces,
         tried : SUBSET Clients,
         attempt : 0..(MaxRetries + Cardinality(Clients))]

\* TypeOK: types of the tracker's and the clients' state; the attempts at a
\* piece stay within their limit and one round.
TypeOK ==
    /\ meta \in [Groups -> Contents \cup {NoContent}]
    /\ seeders \in [Groups -> SUBSET Clients] /\ online \subseteq Clients
    /\ registry \in [Clients -> Contents \cup {"dest", "none"}]
    /\ dest \in [Clients -> [Pieces -> Bytes \cup {NoBytes, Zeroed}]]
    /\ sidecar \in [Clients -> SUBSET Pieces]
    /\ \A c \in Clients : run[c] = NoRun \/ run[c] \in Runs

\* ListedServes: while nobody stops sharing or restarts, a client the tracker
\* lists has the name registered, at the moment it is listed and ever after:
\* "Register locally first so the peer server can serve pieces the moment the
\* tracker starts handing our address to downloaders" (commands.cpp:175).
ListedServes ==
    stops = 0 /\ restarts = 0 =>
        \A g \in Groups : \A c \in seeders[g] \cap online : registry[c] # "none"

\* The pieces a resumed run did not fetch are pieces of what it wants.
Fresh(c) == \A i \in run[c].got : dest[c][i] = Data[run[c].want][i]
Serves(p, k) == \A i \in Pieces : serve_one(p, i) = Data[k][i]

\* SeedersServe: as long as the name has been uploaded once and everybody stays,
\* a client that is listed for having downloaded the file serves every byte of it
\* whenever it is not downloading.  A second download first writes a zero at the
\* end of the file that the client offers (downloader.cpp:129), and its peers,
\* the client itself among them, may serve a file in that state: it must not end
\* before the damage is undone.
SeedersServe ==
    uploads = 1 /\ stops = 0 /\ restarts = 0 =>
        \A g \in Groups : \A c \in seeders[g] \ Uploaders :
            run[c] = NoRun => Serves(c, meta[g])

\* No piece is given up yet and p is still to be asked for the current one.
ToTry(c, p) ==
    /\ Fetching(c) /\ Fresh(c)
    /\ run[c].failed = {} /\ p \in run[c].list \ run[c].tried

\* HonestSuffices: one listed peer that goes on serving the wanted content is
\* enough, whatever the others on the list serve and wherever they come in it:
\* "a peer serving wrong bytes is detected and the piece is retried against a
\* different peer" (PROTOCOL.md:161).
HonestSuffices ==
    \A c \in Downloaders : \A p \in Clients \ {c}, k \in Contents :
        (ToTry(c, p) /\ run[c].want = k)
        ~> (run[c].at = "notify" \/ c \notin online \/ ~Serves(p, k))
=============================================================================
