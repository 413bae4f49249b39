---------------------------- MODULE Replication -----------------------------
(***************************************************************************)
(* Trackers that replicate to one another: the client commands each of     *)
(* them executes, the PeerLink thread that pulls and pushes serialised     *)
(* state, the snapshot on disk, and process start, shutdown and crash.     *)
(*                                                                         *)
(* Tracker t runs one PeerLink, to Peer[t].  Its thread is at one of       *)
(*                                                                         *)
(*   "idle"    no connection (before dial, or waiting to retry)            *)
(*   "sync"    SYNC_REQ sent, waiting for the peer's state                 *)
(*   "pulled"  the peer's state received, not yet merged                   *)
(*   "push"    in the push loop                                            *)
(*   "send"    version read into seen, state not yet serialised            *)
(*   "state"   STATE sent, waiting for the peer to merge it                *)
(*   "ack"     the peer has merged and answered                            *)
(*                                                                         *)
(* A client command is one step: its TrackerState method holds the lock    *)
(* throughout.  The session that authorised it is modelled in Sessions.    *)
(***************************************************************************)
EXTENDS TrackerState

CONSTANTS Trackers, Peer,
          Verbs,      \* the client commands issued in this instance
          MaxWrites,  \* bound on the client commands executed
          MaxDrops,   \* bound on the links that time out
          MaxEnds,    \* bound on the processes that are stopped or killed
          MaxSaves,   \* bound on the periodic snapshots
          MaxEvents,  \* bound on all four together
          NoRecords,  \* no serialised state
          Overlap     \* whether saves of one tracker may overlap

ASSUME PeerAssumption == Peer \in [Trackers -> Trackers]
ASSUME NoRecordsAssumption == NoRecords \notin Records
ASSUME OverlapAssumption == Overlap \in BOOLEAN

VARIABLES
    db,          \* TrackerState's four maps
    addr,        \* each peer's address while connected
    version,     \* TrackerState::version_
    phase,       \* the tracker process: "down", "starting", "up", or
                 \* "stopping" once main is at its last save
    disk,        \* the snapshot file
    saving,      \* the text a save_snapshot under way is writing
    loaded,      \* history: what load_snapshot has put into the memory of the
                 \* process, which the version counter does not count
    at,          \* where the PeerLink thread is
    alive,       \* is the link's socket still connected to the peer process?
    seen,        \* the local v of the push loop
    lastPushed,  \* last_pushed_version_
    box,         \* serialised state on its way over the link
    late,        \* STATEs whose sender gave up, not yet read by the peer
    writes, drops, ends, saves   \* counters for the bounds

stateVars == <<db, addr, version>>
fileVars == <<disk, saving, loaded>>
bounds == <<writes, drops, ends, saves>>
linkVars == <<at, alive, seen, lastPushed, box, late>>
vars == <<db, addr, version, phase, fileVars, at, alive, seen, lastPushed, box,
          late, bounds>>

\* The bounds leave room for one more event of the kind that n counts.
Room(n, max) == n < max /\ writes + drops + ends + saves < MaxEvents

Stages == {"idle", "sync", "pulled", "push", "send", "state", "ack"}

\* Type of the state: every merge and every load is given what serialize wrote.
TypeOK ==
    /\ db \in [Trackers -> Durable]
    /\ addr \in [Trackers -> [Users -> Addrs \cup {Offline}]]
    /\ version \in [Trackers -> Nat]
    /\ phase \in [Trackers -> {"down", "starting", "up", "stopping"}]
    /\ disk \in [Trackers -> Records \cup {NoRecords}]
    /\ saving \in [Trackers -> Records \cup {NoRecords}]
    /\ loaded \in [Trackers -> Durable]
    /\ at \in [Trackers -> Stages]
    /\ alive \in [Trackers -> BOOLEAN]
    /\ seen \in [Trackers -> Nat]
    /\ lastPushed \in [Trackers -> Nat]
    /\ box \in [Trackers -> Records \cup {NoRecords}]
    /\ late \in [Trackers -> SUBSET Records]
    /\ writes \in Nat /\ drops \in Nat /\ ends \in Nat /\ saves \in Nat

AllOffline == [u \in Users |-> Offline]

\* Every tracker process t has just started over its own snapshot file r[t]:
\* main has called listen() and link->start() and not yet load_snapshot().
StartedOver(r) ==
    /\ db = [t \in Trackers |-> Empty]
    /\ addr = [t \in Trackers |-> AllOffline]
    /\ version = [t \in Trackers |-> 0]
    /\ phase = [t \in Trackers |-> "starting"]
    /\ disk = r
    /\ saving = [t \in Trackers |-> NoRecords]
    /\ loaded = [t \in Trackers |-> Empty]
    /\ at = [t \in Trackers |-> "idle"]
    /\ alive = [t \in Trackers |-> FALSE]
    /\ seen = [t \in Trackers |-> 0]
    /\ lastPushed = [t \in Trackers |-> 0]
    /\ box = [t \in Trackers |-> NoRecords]
    /\ late = [t \in Trackers |-> {}]
    /\ writes = 0 /\ drops = 0 /\ ends = 0 /\ saves = 0

\* A new installation: there is no snapshot.
Init == StartedOver([t \in Trackers |-> NoRecords])

-----------------------------------------------------------------------------
\* The accept loop is running, and with it the connection threads.
Serving(t) == phase[t] \in {"up", "stopping"}

(* Client commands.  Each one that succeeds bumps the version. *)

Execute(t, verb, d, ad) ==
    /\ verb \in Verbs /\ Serving(t) /\ Room(writes, MaxWrites)
    /\ db' = [db EXCEPT ![t] = d]
    /\ addr' = [addr EXCEPT ![t] = ad]
    /\ version' = [version EXCEPT ![t] = @ + 1]
    /\ writes' = writes + 1
    /\ UNCHANGED <<phase, fileVars, at, alive, seen, lastPushed, box, late,
                   drops, ends, saves>>

CreateUser(t, u, p) ==
    /\ create_user_ok(db[t], u)
    /\ Execute(t, "create_user", create_user(db[t], u, p), addr[t])

Login(t, u, p, a) ==
    /\ login_ok(db[t], u, p)
    /\ Execute(t, "login", db[t], Peer_login(addr[t], u, a))

\* logout, and handle_disconnect when a connection drops.
Logout(t, u) ==
    /\ user_exists(db[t], u)
    /\ Execute(t, "logout", db[t], Peer_logout(addr[t], u))

CreateGroup(t, u, g) ==
    /\ create_group_ok(db[t], g, u)
    /\ Execute(t, "create_group", create_group(db[t], g, u), addr[t])

JoinGroup(t, u, g) ==
    /\ join_group_ok(db[t], g, u)
    /\ Execute(t, "join_group", join_group(db[t], g, u), addr[t])

LeaveGroup(t, u, g) ==
    /\ leave_group_ok(db[t], g, u)
    /\ \E heir \in heirs(db[t], g, u) :
          Execute(t, "leave_group", leave_group(db[t], g, u, heir), addr[t])

AcceptRequest(t, u, g, a) ==
    /\ answer_ok(db[t], g, a, u)
    /\ Execute(t, "accept_request", accept_request(db[t], g, a), addr[t])

RejectRequest(t, u, g, a) ==
    /\ answer_ok(db[t], g, a, u)
    /\ Execute(t, "reject_request", reject_request(db[t], g, a), addr[t])

UploadFile(t, u, g, f, m) ==
    /\ is_member(db[t], g, u)
    /\ Execute(t, "upload_file", upload_file(db[t], g, f, u, m), addr[t])

FileDownloaded(t, u, g, f) ==
    /\ file_downloaded_ok(db[t], g, f, u)
    /\ Execute(t, "file_downloaded", file_downloaded(db[t], g, f, u), addr[t])

StopShare(t, u, g, f) ==
    /\ stop_share_ok(db[t], g, f, u)
    /\ Execute(t, "stop_share", stop_share(db[t], g, f, u), addr[t])

ClientCommand(t) ==
    \/ \E u \in Users, p \in Passwords : CreateUser(t, u, p)
    \/ \E u \in Users, p \in Passwords, a \in Addrs : Login(t, u, p, a)
    \/ \E u \in Users : Logout(t, u)
    \/ \E u \in Users, g \in Groups : CreateGroup(t, u, g)
    \/ \E u \in Users, g \in Groups : JoinGroup(t, u, g)
    \/ \E u \in Users, g \in Groups : LeaveGroup(t, u, g)
    \/ \E u \in Users, g \in Groups, a \in Users : AcceptRequest(t, u, g, a)
    \/ \E u \in Users, g \in Groups, a \in Users : RejectRequest(t, u, g, a)
    \/ \E u \in Users, g \in Groups, f \in Names, m \in Metas :
          UploadFile(t, u, g, f, m)
    \/ \E u \in Users, g \in Groups, f \in Names : FileDownloaded(t, u, g, f)
    \/ \E u \in Users, g \in Groups, f \in Names : StopShare(t, u, g, f)

-----------------------------------------------------------------------------
(* The replication link of tracker t. *)

MergeInto(t, r) ==
    /\ db' = [db EXCEPT ![t] = merge(@, r)]
    /\ version' = [version EXCEPT ![t] = merge_version(db[t], r, @)]
    /\ UNCHANGED addr

\* dial and SYNC_REQ.  The peer listens before it loads its snapshot, so a
\* starting peer already takes the connection into its backlog.
Dial(t) ==
    /\ phase[t] # "down" /\ at[t] = "idle" /\ phase[Peer[t]] # "down"
    /\ at' = [at EXCEPT ![t] = "sync"]
    /\ alive' = [alive EXCEPT ![t] = TRUE]
    /\ UNCHANGED <<stateVars, phase, fileVars, seen, lastPushed, box, late, bounds>>

\* The peer's connection thread answers SYNC_REQ with serialize().
ServeSync(t) ==
    /\ at[t] = "sync" /\ alive[t] /\ Serving(Peer[t])
    /\ box' = [box EXCEPT ![t] = serialize(db[Peer[t]])]
    /\ at' = [at EXCEPT ![t] = "pulled"]
    /\ UNCHANGED <<stateVars, phase, fileVars, alive, seen, lastPushed, late, bounds>>

\* merge_from the reply, then last_pushed_version_ = 0 "to force a push".
MergePulled(t) ==
    /\ at[t] = "pulled"
    /\ MergeInto(t, box[t])
    /\ at' = [at EXCEPT ![t] = "push"]
    /\ lastPushed' = [lastPushed EXCEPT ![t] = 0]
    /\ box' = [box EXCEPT ![t] = NoRecords]
    /\ UNCHANGED <<phase, fileVars, alive, seen, late, bounds>>

\* v = state_.version(), and something to push.
ReadVersion(t) ==
    /\ at[t] = "push" /\ version[t] # lastPushed[t]
    /\ seen' = [seen EXCEPT ![t] = version[t]]
    /\ at' = [at EXCEPT ![t] = "send"]
    /\ UNCHANGED <<stateVars, phase, fileVars, alive, lastPushed, box, late, bounds>>

\* Nothing to push: sleep for kPushInterval and look again.
Poll(t) ==
    /\ at[t] = "push" /\ version[t] = lastPushed[t]
    /\ UNCHANGED vars

\* send_framed(STATE + serialize()).  The kernel may take the bytes even when
\* the peer process is gone; the failure then shows at the acknowledgement.
SendState(t) ==
    /\ at[t] = "send"
    /\ box' = [box EXCEPT ![t] = serialize(db[t])]
    /\ at' = [at EXCEPT ![t] = "state"]
    /\ UNCHANGED <<stateVars, phase, fileVars, alive, seen, lastPushed, late, bounds>>

\* The peer's connection thread merges STATE and answers OK.
ServeState(t) ==
    /\ at[t] = "state" /\ alive[t] /\ Serving(Peer[t])
    /\ MergeInto(Peer[t], box[t])
    /\ at' = [at EXCEPT ![t] = "ack"]
    /\ box' = [box EXCEPT ![t] = NoRecords]
    /\ UNCHANGED <<phase, fileVars, alive, seen, lastPushed, late, bounds>>

\* Mutants: the acknowledgement is credited with the version of now, and with
\* nothing at all.
RecvAck_now(t) ==
    /\ at[t] = "ack"
    /\ lastPushed' = [lastPushed EXCEPT ![t] = version[t]]
    /\ at' = [at EXCEPT ![t] = "push"]
    /\ UNCHANGED <<stateVars, phase, fileVars, alive, seen, box, late, bounds>>
RecvAck_forgotten(t) ==
    /\ at[t] = "ack"
    /\ at' = [at EXCEPT ![t] = "push"]
    /\ UNCHANGED <<stateVars, phase, fileVars, alive, seen, lastPushed, box, late,
                   bounds>>

\* The acknowledgement: what was pushed is the version read before serialize.
\* An "OK" already received is read even if the peer has ended since.
RecvAck(t) ==
    /\ at[t] = "ack"
    /\ lastPushed' = [lastPushed EXCEPT ![t] = seen[t]]
    /\ at' = [at EXCEPT ![t] = "push"]
    /\ UNCHANGED <<stateVars, phase, fileVars, alive, seen, box, late, bounds>>

\* The session ends: the socket is closed and the thread will dial again.  A
\* STATE the peer has not read stays in the peer's receive buffer.
Hangup(t) ==
    /\ at' = [at EXCEPT ![t] = "idle"]
    /\ alive' = [alive EXCEPT ![t] = FALSE]
    /\ late' = IF at[t] = "state" /\ alive[t]
               THEN [late EXCEPT ![t] = @ \cup {box[t]}] ELSE late
    /\ box' = [box EXCEPT ![t] = NoRecords]

\* A send or a recv fails because the peer process has ended.
LinkFails(t) ==
    /\ at[t] \in {"sync", "send", "state", "ack"} /\ ~alive[t]
    /\ Hangup(t)
    /\ UNCHANGED <<stateVars, phase, fileVars, seen, lastPushed, bounds>>

\* The five-second SO_RCVTIMEO expires while a live peer is still to answer.
LinkTimesOut(t) ==
    /\ at[t] \in {"sync", "state", "ack"} /\ alive[t] /\ Room(drops, MaxDrops)
    /\ Hangup(t)
    /\ drops' = drops + 1
    /\ UNCHANGED <<stateVars, phase, fileVars, seen, lastPushed, writes, ends,
                   saves>>

\* The peer's connection thread reads a STATE whose sender has hung up.
ServeLate(t) ==
    /\ Serving(Peer[t])
    /\ \E r \in late[t] : /\ MergeInto(Peer[t], r)
                          /\ late' = [late EXCEPT ![t] = @ \ {r}]
    /\ UNCHANGED <<phase, fileVars, at, alive, seen, lastPushed, box, bounds>>

LinkStep(t) ==
    \/ Dial(t) \/ ServeSync(t) \/ MergePulled(t) \/ Poll(t) \/ ReadVersion(t)
    \/ SendState(t) \/ ServeState(t) \/ RecvAck(t) \/ LinkFails(t)
    \/ ServeLate(t)

-----------------------------------------------------------------------------
(* The tracker process. *)

\* load_snapshot, then the accept loop.  Without a snapshot file it returns
\* before it clears anything; the version counter is not touched.
LoadSnapshot(t) ==
    /\ phase[t] = "starting"
    /\ IF disk[t] = NoRecords
       THEN UNCHANGED <<db, addr, loaded>>
       ELSE /\ db' = [db EXCEPT ![t] = load(disk[t])]
            /\ addr' = [addr EXCEPT ![t] = AllOffline]
            /\ loaded' = [loaded EXCEPT ![t] = load(disk[t])]
    /\ phase' = [phase EXCEPT ![t] = "up"]
    /\ UNCHANGED <<version, disk, saving, linkVars, bounds>>

\* save_snapshot begins: data = serialize().  Nothing in the code keeps the
\* snapshot thread, the console's quit and main from saving at the same time;
\* without Overlap it does not happen.
BeginSave(t) ==
    /\ Overlap \/ saving[t] = NoRecords
    /\ saving' = [saving EXCEPT ![t] = serialize(db[t])]
    /\ UNCHANGED <<disk, loaded>>

\* What a save may leave under the snapshot's name: its own text, or what was
\* there if it fails.  Savers that overlap write to one temporary file, and
\* what is renamed then can be anything (SnapshotFile goes into that).
Left(t) == {saving[t], disk[t]} \cup (IF Overlap THEN Records ELSE {})

\* The temporary file is written and renamed, or save_snapshot fails.
FinishSave(t) ==
    /\ saving[t] # NoRecords
    /\ \E r \in Left(t) : disk' = [disk EXCEPT ![t] = r]
    /\ saving' = [saving EXCEPT ![t] = IF Overlap THEN @ ELSE NoRecords]
    /\ UNCHANGED <<stateVars, phase, loaded, linkVars, bounds>>

\* Mutant: the snapshot thread is started before load_snapshot.
SaveSnapshot_early(t) ==
    /\ phase[t] # "down" /\ Room(saves, MaxSaves)
    /\ BeginSave(t)
    /\ saves' = saves + 1
    /\ UNCHANGED <<stateVars, phase, linkVars, writes, drops, ends>>

\* The snapshot thread, every kSnapshotInterval.
SaveSnapshot(t) ==
    /\ Serving(t) /\ Room(saves, MaxSaves)
    /\ BeginSave(t)
    /\ saves' = saves + 1
    /\ UNCHANGED <<stateVars, phase, linkVars, writes, drops, ends>>

\* quit, SIGINT or SIGTERM: the last save.  The detached connection threads go
\* on serving until the process is gone.
Shutdown(t) ==
    /\ phase[t] = "up" /\ Room(ends, MaxEnds)
    /\ BeginSave(t)
    /\ phase' = [phase EXCEPT ![t] = "stopping"]
    /\ ends' = ends + 1
    /\ UNCHANGED <<stateVars, linkVars, writes, drops, saves>>

\* The process ends: exit() or the return from main after a Shutdown, kill -9
\* or a power failure at any time, also in the middle of a save.  It takes its
\* memory and its sockets with it; what it had sent may still be read, what it
\* had not read is lost.
ProcessEnds(t) ==
    /\ \/ phase[t] = "stopping" /\ UNCHANGED ends
       \/ phase[t] \in {"starting", "up"} /\ Room(ends, MaxEnds) /\ ends' = ends + 1
    /\ phase' = [phase EXCEPT ![t] = "down"]
    /\ db' = [db EXCEPT ![t] = Empty]
    /\ addr' = [addr EXCEPT ![t] = AllOffline]
    /\ version' = [version EXCEPT ![t] = 0]
    /\ at' = [at EXCEPT ![t] = "idle"]
    /\ alive' = [x \in Trackers |-> alive[x] /\ x # t /\ Peer[x] # t]
    /\ seen' = [seen EXCEPT ![t] = 0]
    /\ lastPushed' = [lastPushed EXCEPT ![t] = 0]
    /\ late' = [x \in Trackers |->
                   IF Peer[x] = t THEN {}
                   ELSE IF x = t /\ at[t] = "state" /\ alive[t]
                   THEN late[x] \cup {box[t]}
                   ELSE late[x]]
    /\ box' = [box EXCEPT ![t] = NoRecords]
    /\ saving' = [saving EXCEPT ![t] = NoRecords]
    /\ loaded' = [loaded EXCEPT ![t] = Empty]
    /\ UNCHANGED <<disk, writes, drops, saves>>

Restart(t) ==
    /\ phase[t] = "down"
    /\ phase' = [phase EXCEPT ![t] = "starting"]
    /\ UNCHANGED <<stateVars, fileVars, linkVars, bounds>>

ProcessStep(t) == LoadSnapshot(t) \/ Restart(t)

Next ==
    \E t \in Trackers :
        \/ ClientCommand(t)
        \/ LinkStep(t)
        \/ LinkTimesOut(t)
        \/ ProcessStep(t)
        \/ SaveSnapshot(t)
        \/ FinishSave(t)
        \/ Shutdown(t)
        \/ ProcessEnds(t)

\* The link and connection threads run forever and their blocking calls
\* return; a started tracker gets through load_snapshot, and an operator
\* restarts one that ended.  Nothing obliges a client to send a command.
Fairness == \A t \in Trackers : WF_vars(LinkStep(t)) /\ WF_vars(ProcessStep(t))

Spec == Init /\ [][Next]_vars
FairSpec == Spec /\ Fairness
-----------------------------------------------------------------------------
(* Properties. *)

Accounts(d) == {u \in Users : d.cred[u] # NoPassword}
Shared(d) == {k \in Files : d.meta[k] # NoMeta}

\* d knows every account, group and file that e knows.  No command removes one.
Covers(d, e) ==
    /\ Accounts(e) \subseteq Accounts(d)
    /\ e.groups \subseteq d.groups
    /\ Shared(e) \subseteq Shared(d)

\* The integrity of a database or of a serialised one, in which "nobody" is
\* NoUser or Dash.  References resolve, the file index and the metadata name
\* the same files, and a group has an owner, one of its members, exactly while
\* it has members.
References(d) ==
    /\ \A g \in Groups : d.participants[g] \cup d.applicants[g] \subseteq Accounts(d)
    /\ \A g \in Groups \ d.groups :
          d.participants[g] \cup d.applicants[g] = {} /\ d.group_files[g] = {}
    /\ \A k \in Files : d.seeders[k] \subseteq Accounts(d)
FileIndex(d) ==
    \A g \in Groups, f \in Names :
        /\ f \in d.group_files[g] <=> d.meta[<<g, f>>] # NoMeta
        /\ d.meta[<<g, f>>] = NoMeta => d.seeders[<<g, f>>] = {}
Ownership(d, nobody) ==
    \A g \in Groups :
        IF d.participants[g] = {} THEN d.groupmaster[g] = nobody
        ELSE d.groupmaster[g] \in d.participants[g] \ {nobody}
Sound(d, nobody) == References(d) /\ FileIndex(d) /\ Ownership(d, nobody)

\* Integrity: however commands, merges of whole, stale or reordered STATE
\* messages, snapshot loads and crashes interleave, every tracker's four maps
\* agree with each other.  An owner who is not a member, or a group with
\* members and no owner, could never have its join requests answered
\* (tracker_state.cpp deluser, persistence.cpp apply_records_locked).
Integrity == \A t \in Trackers : Sound(db[t], NoUser)

\* The inductive form of Integrity: the same holds of everything that will be
\* merged or loaded later, on disk or in flight, and a link that is about to
\* merge something has something to merge.
SoundRecords(r) == r # NoRecords => Sound(r, Dash)
Carrying == \A t \in Trackers : at[t] \in {"pulled", "state"} => box[t] # NoRecords
RecordsSound ==
    \A t \in Trackers : /\ SoundRecords(disk[t]) /\ SoundRecords(saving[t])
                         /\ SoundRecords(box[t])
                         /\ \A r \in late[t] : SoundRecords(r)
IntegrityInv == TypeOK /\ Carrying /\ Integrity /\ RecordsSound

\* Tracker t serves before and after the step.
StaysUp(t) == Serving(t) /\ Serving(t)'

\* OwnerKept: while a tracker serves, the owner of a group changes only in a
\* leave_group of that owner, whatever is merged from the other tracker: "a
\* reconnecting tracker cannot reassign a group's owner" (persistence.cpp:164).
OwnerMovesOnLeave(d, e) ==
    \A g \in Groups :
        d.groupmaster[g] \notin {NoUser, e.groupmaster[g]}
        => e.participants[g] = d.participants[g] \ {d.groupmaster[g]}
OwnerKept ==
    [][\A t \in Trackers : StaysUp(t) => OwnerMovesOnLeave(db[t], db[t]')]_vars

\* FirstKept: while a tracker serves, nothing swaps the password of an account
\* it has ("an account already here wins", persistence.cpp:132), and only a
\* client's command, never a merge, replaces the metadata of a file it has
\* ("keep our metadata", persistence.cpp:199).
CredKept(d, e) == \A u \in Accounts(d) : e.cred[u] = d.cred[u]
MetaKept(d, e) == \A k \in Shared(d) : e.meta[k] = d.meta[k]
FirstKept ==
    [][\A t \in Trackers : StaysUp(t) =>
          /\ CredKept(db[t], db[t]')
          /\ writes' = writes => MetaKept(db[t], db[t]')]_vars

\* SavedStaysSaved: if no two saves of a tracker overlap, what its snapshot
\* file once held it holds ever after, although it is written again and again
\* from texts that may be old by the time they are in place, saves fail or die
\* half-way, and the link fills the memory of a tracker that is still to load:
\* "an unclean shutdown loses at most one interval's worth of registrations"
\* (main.cpp:443).
SavedStaysSaved ==
    [][\A t \in Trackers :
          disk[t] # NoRecords => /\ disk'[t] # NoRecords
                                 /\ Covers(disk'[t], disk[t])]_vars

Pushed(t) == at[t] = "push" /\ alive[t] /\ version[t] = lastPushed[t]

\* d knows every account, group and file that e knows and b does not.
CoversBeyond(d, e, b) ==
    /\ Accounts(e) \subseteq Accounts(d) \cup Accounts(b)
    /\ e.groups \subseteq d.groups \cup b.groups
    /\ Shared(e) \subseteq Shared(d) \cup Shared(b)

\* PushedMeansDelivered: a link with nothing left to push has delivered every
\* account, group and file its tracker has got since it loaded its snapshot,
\* by a command or by a merge: none is missed that falls between version() and
\* serialize(), between two sessions, before the load or after either process
\* was restarted (peer_link.cpp:114-124).  What the snapshot held is another
\* matter: load_snapshot leaves version_ at 0, which the link takes for pushed
\* (see Converges).
PushedMeansDelivered ==
    \A t \in Trackers :
        Pushed(t) => CoversBeyond(db[Peer[t]], db[t], loaded[t])

Settled == \A t \in Trackers : Pushed(t)

\* GoesQuiet: once clients stop, the links stop pushing: a merge that changes
\* nothing is not answered with another push (persistence.cpp:231).
GoesQuiet == <>[]Settled

\* Converges: once clients stop, both trackers know the same accounts, groups
\* and files, and, if nobody left a group or stopped sharing meanwhile, the
\* same members and seeders, whatever links timed out on the way: they "end up
\* present on both" (DECISIONS.md:148), by a push that is forced "so the peer
\* sees anything we hold that it does not" (peer_link.cpp:108).
SameDirectory ==
    \A t, x \in Trackers :
        /\ Covers(db[t], db[x])
        /\ db[t].participants = db[x].participants
        /\ db[t].seeders = db[x].seeders
Converges == <>[]SameDirectory

-----------------------------------------------------------------------------
(* What the maps of accounts and of file metadata implement. *)

InFlight == {box[t] : t \in Trackers} \cup UNION {late[t] : t \in Trackers}
Copies == InFlight \ {NoRecords}
OnDisk(t) == {disk[t]} \ {NoRecords}
InHand(t) == {saving[t]} \ {NoRecords}
Desk(t) == CASE phase[t] = "down" -> "closed"
             [] phase[t] = "starting" -> "opening"
             [] OTHER -> "open"

AccountBook ==
    INSTANCE Directory WITH
        Keys <- Users, Values <- Passwords, Absent <- NoPassword,
        Revisable <- FALSE,
        desk <- [t \in Trackers |-> Desk(t)],
        known <- [t \in Trackers |-> db[t].cred],
        draft <- [t \in Trackers |-> {r.cred : r \in InHand(t)}],
        stored <- [t \in Trackers |-> {r.cred : r \in OnDisk(t)}],
        sent <- {r.cred : r \in Copies},
        entries <- writes

FileBook ==
    INSTANCE Directory WITH
        Keys <- Files, Values <- Metas, Absent <- NoMeta,
        Revisable <- TRUE,
        desk <- [t \in Trackers |-> Desk(t)],
        known <- [t \in Trackers |-> db[t].meta],
        draft <- [t \in Trackers |-> {r.meta : r \in InHand(t)}],
        stored <- [t \in Trackers |-> {r.meta : r \in OnDisk(t)}],
        sent <- {r.meta : r \in Copies},
        entries <- writes

\* AccountsReplicate: the trackers' accounts behave like books that clients
\* fill and copies complete: no restart, timeout or late STATE invents, loses
\* or changes an account other than by going back to the last snapshot
\* ("members, applicants, files and seeders present on either side end up
\* present on both", DECISIONS.md:148; persistence.cpp:130, 227, 267).
AccountsReplicate == AccountBook!Spec

\* FilesReplicate: the same for the metadata of files, which an upload may
\* also replace (persistence.cpp:194, tracker_state.cpp:293).
FilesReplicate == FileBook!Spec
=============================================================================
