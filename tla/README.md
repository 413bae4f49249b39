# TLA+ models of the peer-to-peer file sharing system

The system is a pair of trackers that replicate to each other and clients that
log in to one of them, share files in groups and fetch pieces from each other.
The code is under `src/src/{common,tracker,client}`; the documents are under
`src/docs`. The modules here follow the code. Where a document says something
else, section 3 says so; the findings of `PROJECT.json` are the ones a run shows.

## 1. Inventory

| Component | State | Operations | Interacts with | Correct when |
|---|---|---|---|---|
| Tracker state (`tracker_state`) | accounts, groups, file metadata and seeders, file index, version counter, all behind one lock | create_user, login, logout, create/join/leave_group, accept/reject_request, upload_file, file_downloaded, stop_share, handle_disconnect, listings | called by every connection thread, the link, the snapshot thread | the four maps agree with each other after any sequence of commands, merges and loads |
| Record format and merge (`persistence`) | none | serialize, merge_from, load_snapshot | state, link, disk | round trips lose nothing; a merge never replaces what is there |
| Replication link (`peer_link`) | socket, last pushed version | dial, SYNC_REQ, merge, poll version, STATE, acknowledgement, retry | connection thread of the other tracker | what is acknowledged was delivered; trackers converge and go quiet |
| Snapshot file (`persistence`, `main`) | file and temporary file | save every 30 s, on quit, on a signal | state, file system | complete at every moment; never goes back |
| Tracker process (`main`) | phase, g_running | listen, start link, load, accept, signal, quit, save, exit | all of the above | a restart restores what was saved; a signal ends in a save that loses nothing accepted before it |
| Sessions (`main`, `session_manager`) | token table, per-connection user and token, connected flag | login, logout, lookup with expiry, disconnect | client, tracker state | tokens die with their session; nobody dead is advertised, nobody alive is missing |
| Client session (`commands`, `tracker_client`) | logged-in user, token, one socket | every console and dashboard command | tracker connection thread | agrees with the tracker about who is logged in |
| Downloader (`downloader`) | slot per file name, piece statuses, queue, output file, sidecar | start, run, workers, save_state, resume, announce, report | tracker, peers, registry, file system | only verified pieces are skipped, only whole files are announced, every run ends, one run per file |
| Upload registry and swarm | name to path; the tracker's seeders and hashes per group | add, remove, path_for; upload_file, stop_share, file_downloaded, the download_file reply | downloader, commands, peer server, tracker | who is listed serves, and serves the whole file; one honest peer is enough |
| Peer server (`peer_server`) | listener, queue of sockets, condition variable, 4 workers | accept, serve a piece, stop | downloaders of other clients, main | no socket leaks or is served twice; every peer is answered; stop returns |
| Dashboard (`http_server`, `web_ui`) | listener, one thread | routes to the command processor, stop | command processor, downloader, main | same effect as the console; stop returns |
| Client process (`main`) | download threads, tracker socket | start, console loop, exit | all of the client's parts | exit waits for everything that still uses what it closes, and returns |
| Framing, hashing, credentials, configuration | none | pure functions | all | |

What is hard in it: two trackers merge each other's whole state at any time and
may do so late; sessions live in three places that are updated in separate
locked steps by one thread per connection; a client executes commands on two
threads over one socket; download runs of a file share the slot, the output
file and a sidecar that nobody locks; a file is known by its name to the
registry, by name and group to the tracker, and by neither to the sidecar; main
stops five kinds of threads that use each other's sockets; processes die between
any two of these steps and resume from files. `PROJECT.json` lists the hazards one by one with
the properties that would catch each.

## 2. Modules

| Module | Models | Used by |
|---|---|---|
| `TrackerState` | the durable maps as one record, every mutating method as a guard and a new value, serialize, merge, load. No variables | `Replication` |
| `Replication` | any number of trackers, each with a link to its peer, client commands, snapshot, start, shutdown, kill | `MCReplication`, `ReplicationProofs` |
| `ReplicationProofs` | types and integrity of `Replication` | `RefinementProofs` |
| `RefinementProofs` | `Replication` implements `Directory`; durability and delivery | |
| `Sessions` | clients, connection threads, token table, connected flags | `MCSessions`, `SessionsProofs` |
| `Directory` | abstract: one replicated book that clients fill, trackers copy and only gaps are filled from copies | `Replication` (INSTANCE, twice) |
| `Download` | one file of one client: start, run, workers, sidecar, crash | `MCDownload`, `DownloadProofs` |
| `Swarm` | several clients, contents and groups for one file name: registry, seeders, pieces served and checked | `MCSwarm`, `SwarmProofs` |
| `PeerServer` | accept thread, queue, worker pool, stop() | `ClientProcess`, `PeerServerProofs` |
| `HttpServer` | the dashboard's thread and stop() | `ClientProcess` |
| `ClientProcess` | composition: main, dashboard, download threads, peer server and the tracker socket they share | `MCClientProcess`, `ClientProcessProofs` |
| `SnapshotFile` | save_snapshot, system call by system call, against the file system | `TrackerProcess` |
| `TrackerProcess` | composition: accept loop, signal, quit, periodic and final save, over `SnapshotFile` | `MCTrackerProcess`, `TrackerProcessProofs` |
| `SessionsProofs`, `DownloadProofs`, `SwarmProofs`, `PeerServerProofs`, `TrackerProcessProofs` | theorems about the module of that name | |
| `ClientProcessProofs` | theorems about `ClientProcess`, with those of `PeerServerProofs` carried over | |

Definitions whose comment begins with "Mutant" are deliberate variants of the
definition that follows. No specification uses them; a property is trusted when
putting its mutant in place of the original makes TLC report it violated.

### TrackerState and Replication

A tracker's state is a record with the fields of the code's maps; an absent
user, group or file is a `No...` value or the empty set. Each public method
holds the lock from its first test to its last assignment, so each is one
action. A rejected command changes nothing and is not an action. Passwords are
compared as values (SHA-256 is taken as collision free). The one conversion in
the record format that matters is kept: an empty owner is written as `-` and `-`
is read back as an empty owner.

`at[t]` is the place of tracker t's link thread: dialled and waiting for the
peer's state, holding that state, in the push loop, between reading the version
and serialising, waiting for the acknowledgement. The peer's side is the
connection thread: `ServeSync` and `ServeState` are single steps, because
serialize and merge_from hold the lock. A timeout leaves the STATE already sent
in `late`, and the peer may merge it at any time later. `phase[t]` follows main:
"starting" is after listen and link->start and before load_snapshot, "stopping"
from the last save on. `ProcessEnds` is exit, return and kill alike. Every
tracker starts over a snapshot file of its own (`StartedOver`).

A save begins when the state is serialised (`BeginSave`; `saving` is the text) and
is finished when the snapshot's name holds that text, or has failed and the name
holds what it held (`FinishSave`); commands, merges or a kill come in between. Nothing in the code keeps the snapshot thread, quit and main
from saving at once. With `Overlap` TRUE they do, and what a save then leaves is
any record (`Left`); with FALSE a save begins only when none is under way.
`SnapshotFile` has the system calls. `loaded` is a history variable: what
load_snapshot put into memory, which the version counter does not count.

`Directory` is what this adds up to for one map. A client's command may enter a
value; copies of the whole book travel and may be lost, late or out of order;
receiving one fills gaps and changes nothing else; a book is saved as it was when
the save began (`draft`); a tracker forgets only when its process ends or when it
opens its snapshot. `Replication` instantiates it
twice: `AccountBook` (user to credential, never revised) and `FileBook` (file to
metadata, revised by a later upload_file). `sent` is mapped to the link buffers
and the late messages, `desk` to the phase. Groups are left out: membership can
shrink, and `IntegrityInv` and `OwnerKept` speak of them.

### Sessions

`c` names a client process and its one connection. The tracker's thread for it
is between two locked calls when `stage` is not "recv": login is
g_state.login then g_sessions.create, logout is destroy then g_state.logout, a
drop is destroy then handle_disconnect. The client's threads check the login
state, copy the token without a lock and send under the socket's mutex, each as
a step of its own. A token expires at most `MaxExpiries` times, at any moment.

### Download

A piece of the output file is missing, good, or clipped (good but for a zero over
its last byte); the sidecar is what a reader would find in it. A save is
three steps (truncate, copy the statuses, write), because no lock protects it.
`EndsInZero` says whether the last byte of the file is zero: pre-allocation
writes a zero there, which is harmless exactly in that case. A run gives up its
slot before it has ended, so runs overlap; each has its own statuses and queue.
The queue is filled in ascending order and then only popped, so it is kept as the
set of its pieces, from which the least is taken.
A worker's status write to a placeholder slot is out of bounds: it is lost here,
or the process dies (`Crash`). The statuses of up to 1024 pieces fit in one
stdio buffer, so the write of the sidecar is one step. A part of a verified piece
written over the same place never makes a good piece bad. All runs are of one group
and one destination: the slot is keyed by the file name alone (`downloader.cpp:169`,
`491`), while group and destination may differ between runs (`downloader.cpp:109`),
and what such runs do to each other's slot is not covered.

### Swarm

A content is a sequence of pieces; the tracker's hashes are the content they
identify. A client serves, by name, one of its own files or the output file of
its downloads, whatever that holds at the moment. A run takes the tracker's
reply, overwrites the last piece (pre-allocation), trusts the sidecar, asks the
listed peers for each missing piece, checks it, then checks the whole, registers
and announces. Attempts are counted as the code does: one for each wrong answer,
none for a silent peer, one for a round without success. upload_file and
stop_share are two steps, registry and tracker. A client has one run of the name
at a time (`Query`); in the code a run can begin while an earlier one is about to
end (`downloader.cpp:421`, `447`, `468`), which is in `Download`, with the condition
that SeedsWholeFile then needs. The clients' own files do not
change. Every client is a member of every group and no command is refused;
refusals are in `Replication`.

### PeerServer, HttpServer, ClientProcess

`PeerServer` has a step for each stretch under `mtx_` and for each system call
and notification outside it, so that a worker can go to sleep, be woken or be
woken for nothing between any two of them. `HttpServer` is the same for its one
thread. `ClientProcess` adds main, the download threads (`threads_`, `wait_all`),
and `sender`, the holder of the tracker client's mutex. What the browser asks for
decides whether the dashboard's handler must call the tracker ("ask": it waits for
that mutex, and main, which joins it, waits with it) or answers by itself or starts
a download ("handle"). `ExitSteps` is the order in which main
stops the others. What is read from a socket is in `Swarm` or `Sessions`; here
it matters only that the read returns.

### SnapshotFile and TrackerProcess

Names refer to inodes and inodes to contents, because a saver that has the
temporary file open keeps writing to it after another has renamed it. The state
is the number of registrations; a file is the set of states written to it since
it was truncated. `TrackerProcess` puts the savers into main: the accept loop in
the steps that a signal tells apart (before the test of g_running, between the
test and accept(), in accept(), after its failure), the snapshot thread's test
and save as two steps, and quit. With `Overlap` FALSE a save begins only when no
other is under way; the code does not ensure that, and `snapshot_shutdown`
checks the same module with TRUE.

## 3. Runs

Passing runs:

| Run | Checks | Instance |
|---|---|---|
| `replication_faults` | TypeOK, IntegrityInv, PushedMeansDelivered, OwnerKept, SavedStaysSaved, AccountsReplicate, FilesReplicate | 2 trackers on empty disks, or over two snapshots that disagree: 2 accounts with other passwords, on one side also a group, a join request and a file; any 2 of: 2 commands that register, change a group or stop sharing, 1 timeout, 2 process ends, each a shutdown or a kill, 1 periodic save |
| `replication_converges` | FirstKept, GoesQuiet, Converges, AccountsReplicate, FilesReplicate | both over one snapshot with an account and a group, 2 account or file commands that remove nothing from it, 2 passwords, 2 contents, 1 timeout, fair |
| `sessions` | TypeOK, TokensRevoked, ClientAgrees, Listed, LiveAddresses, GoneIsUnlisted | 2 clients, with an account each or with 2 accounts they both use; 3 logins, 1 expiry, 1 entropy failure, fair |
| `download_resume` | TypeOK, SidecarWritten, ProgressSound, SeedsWholeFile, RunEnds | 2 pieces, 2 peers, 2 retries, 2 starts, 1 crash, fair, last byte not zero |
| `download_overlap` | SidecarHonest, CompletedIsWritten | 2 overlapping runs, 2 pieces, 3 starts, 1 crash, last byte zero |
| `client_exit` | TypeOK, OneHolder, ListenerOutlivesAcceptor, PoolDrained, DisconnectedAlone, ExitReturns, PeersAnswered | 2 workers, 2 peers, 1 browser connection, 1 download, 1 failing accept, fair |
| `swarm` | TypeOK, ListedServes, SeedersServe, HonestSuffices | 3 clients, 1 of which uploads and 2 download, 2 groups, 2 contents of 2 pieces with the first in common, 2 uploads, 2 downloads, 1 stop_share or restart, 2 retries, fair |
| `tracker_process` | GoodSnapshot, ShutdownKeeps, NeverGoesBack, SignalSaves | all 3 savers one at a time, 3 registrations, 2 process ends, failing writes and renames, fair |

Runs that show a disagreement between the code and what is said of it:

| Run | Property | What happens |
|---|---|---|
| `replication_behind` | Converges | a tracker over an older snapshot loads it after it has pulled; the other's forced push is skipped, since its version is 0 after its own load, and the two stay different |
| `sessions_expiry` | NoDeadAddress | a logout with an expired token leaves the user listed for ever |
| `download_prealloc` | SidecarHonest | resuming damages a last piece that is then skipped, and every retry fails |
| `snapshot_shutdown` | GoodSnapshot | two savers share the temporary file; a truncated one is renamed into place |

The same property can pass in one run and fail in another: the passing run says
under which conditions the code keeps it (snapshots that agree, no expiry before
logout, a file that ends in zero, saves that do not overlap), the violation which condition it needs. Other passing
runs have conditions of the same kind, outside which the models also reach
states where the property fails. No run is kept for these:

| Property | Needs | Otherwise |
|---|---|---|
| PushedMeansDelivered | speaks of what came after the load | load_snapshot leaves version_ at 0 (`persistence.cpp:276`), equal to the last_pushed_version_ = 0 meant to force a push (`peer_link.cpp:110`); `replication_behind` shows what comes of it |
| SavedStaysSaved, IntegrityInv, AccountsReplicate, FilesReplicate | saves that do not overlap | savers share one temporary file (`persistence.cpp:247`), and an older or a truncated text can be the last one renamed; `snapshot_shutdown` shows how |
| IntegrityInv | no user called `-` | a group owned by `-` is read back without an owner (`persistence.cpp:49`, `159`) |
| TokensRevoked, ClientAgrees, Listed, LiveAddresses | one thread per client | console and dashboard both pass the check at `commands.cpp:96`, log in, and the first token is never revoked, nor the address that went with it |
| ProgressSound | runs that do not overlap | a later start() or run puts fresh statuses into the slot while an earlier run still counts its pieces there (`downloader.cpp:169`) |
| SeedsWholeFile | runs that do not overlap, or a file that ends in zero | a second run's pre-allocation clips the file between the first one's check and its announcement (`downloader.cpp:126`) |
| Listed | one connection per user | the old connection's handle_disconnect unlists the new session (tracker `main.cpp:274`) |
| AccountsReplicate without Directory's Open | a load before the link runs | link->start() comes first (tracker `main.cpp:421`), and load_snapshot clears what the link has merged (`persistence.cpp:115`) |
| SignalSaves | no signal between the test of g_running and accept() | accept() blocks until the next client (tracker `main.cpp:495`) |
| SeedersServe | one upload of the name, no stop_share, no restart, nobody who both uploads and downloads it | stale seeders of an earlier upload (`tracker_state.cpp:293`); a run that is given up leaves a zero at the end of the file still offered (`downloader.cpp:129`) |
| ListedServes | no stop_share, no restart | the registry is emptied by a restart and knows no groups; the tracker keeps the seeder (`upload_registry.cpp:7`) |
| HonestSuffices | completed pieces in the sidecar that are of the wanted content | after a new upload of the name the old statuses stand for other bytes, the full hash fails and the statuses are saved as completed again (`downloader.cpp:150`, `462`) |
| ExitReturns, PeersAnswered | peers and browsers that speak or hang up | recv_framed and read_headers have no timeout (`peer_server.cpp:125`, `http_server.cpp:36`) |

Three more facts about the code that follow from the models and are stated
nowhere as a promise: a leave_group is undone by the other tracker's next push
even when both links are up (`persistence.cpp:167`; `DECISIONS.md:172` mentions
only a link that was down); commands acknowledged between the last save and the
end of the process are lost (tracker `main.cpp:511`); and a finished run's guard
clears the claim of its successor by file name (`downloader.cpp:468`), so that two
transfers of one file can be under way, which `download_overlap` shows to be
harmless to the sidecar.

HonestSuffices holds in spite of all this for a downloader: listed clients that
serve nothing, another group's file or a half-overwritten one cost attempts, but
a round always goes over the whole list before attempts are compared with the
limit, so an honest peer is asked.

Bounds. Two trackers are what the configuration allows. `MaxEvents` bounds the
commands, timeouts, process ends and periodic saves of a behaviour together
(`Room`): the faults are combined in pairs, on top of two snapshots that disagree,
which puts what two trackers did apart into the initial state. The commands of one
run are those that can disturb its properties; two of them are enough for a command
between the version read and the serialisation, for a stale STATE that arrives after
a newer one and for commands on both sides of a partition. One timeout gives one
late message; a second would only be merged like the first. Two process ends cover
a restart during the other's restart, and a kill during the last save needs none of
its own. Two users sharing
accounts over two connections give every order of login, logout and disconnect
of one user. Two pieces and two workers give a stale and a new sidecar copy;
three starts are needed for two concurrent transfers and suffice. MaxRetries is
5 in the code and 1 or 2 here: only reaching it matters. Two workers and two
peers give an idle and a busy pool, a full queue and a wake-up for nobody; the
pool has 4 in the code. Two uploads and two downloads over two groups give a
re-upload during a download, a stale seeder, and a download over a file that is
being seeded; contents that share a piece let a stale piece pass its check.

`CHECK_DEADLOCK FALSE` is set for `Download`, `Swarm` and `TrackerProcess`, which
stop when nobody starts anything any more; that no thread waits for ever is
`RunEnds`, `HonestSuffices` and `SignalSaves`. The replication and session models
never stop, and in `ClientProcess` only an ended process does (`Ended`), so that
TLC's deadlock check covers the exit.

Fairness. Link and connection threads are loops around calls that return
(sockets have 5 s timeouts, the peer's process is scheduled), and an operator
restarts a tracker: weak fairness of the link and of process start. Session
threads: weak fairness of the tracker's thread and of a client's started
commands; nobody is obliged to connect, type or leave. Downloads: weak fairness
of each thread; peer sockets have 30 s timeouts. The client's tracker socket has
no timeout, so `RunEnds` assumes that the tracker answers or its connection
breaks. `ClientProcess`: every thread is scheduled, downloads end (that is
`RunEnds`), the tracker answers or fails, and a peer or browser that has
connected sends its request or hangs up; peers that run this program do so
within their 30 s timeout. `TrackerProcess`: main and the savers are scheduled,
but accept() need never return, because no client has to come. `Swarm`: a run
and a console command go on while their process does. No fairness is assumed of crashes, timeouts or clients' wishes.

## 4. Proofs

A theorem holds for every value of the constants that the ASSUMEs of its module
allow; a further condition is an assumption of the theorem itself. The Max...
constants only guard actions, so the bounds of the runs play no part here. TLC has
also checked each inductive invariant on the instance of a run.

| Module | Theorems | Under |
|---|---|---|
| `ReplicationProofs` | `TypeCorrect` (TypeOK) | |
| | `IntegrityInductive`, `IntegrityKept` (IntegrityInv, Integrity), `OwnersStay` (OwnerKept) | no user is called `-`; saves do not overlap; the first snapshots are sound |
| `RefinementProofs` | `AccountsAreReplicated`, `FilesAreReplicated` (AccountsReplicate, FilesReplicate: the refinement to `Directory`), `SnapshotsKeepAll` (SavedStaysSaved) | saves do not overlap |
| | `FirstWins` (FirstKept), `DeliveredWhenPushed` (PushedMeansDelivered) | |
| `SessionsProofs` | `SessionTypes` (TypeOK) | |
| | `ClientsAgree` (ClientAgrees), `TokensAreRevoked` (TokensRevoked), `AddressesLive` (LiveAddresses), `HoldersListed` (Listed) | one thread per client |
| `DownloadProofs` | `DownloadTypes` (TypeOK), `SidecarClaimsWritten` (SidecarWritten), `CompletedWasWritten` (CompletedIsWritten) | |
| | `ResumeLosesNothing` (SidecarHonest) | the file ends in a zero byte |
| | `SeedsWhole` (SeedsWholeFile) | the file ends in a zero byte, or runs do not overlap |
| | `CountsWhatWasFetched` (ProgressSound) | runs do not overlap |
| `SwarmProofs` | `SwarmTypes` (TypeOK), `ListedHaveTheName` (ListedServes) | |
| | `DownloadersServe` (SeedersServe) | nobody both uploads and downloads |
| `PeerServerProofs` | `SocketsHeldOnce` (OneHolder) | |
| `ClientProcessProofs` | `RunsPeerServer`, `ListenerClosedLast` (ListenerOutlivesAcceptor), `DrainedWhenJoined` (PoolDrained), `ClientTypes` (TypeOK), `AloneAtDisconnect` (DisconnectedAlone) | |
| `TrackerProcessProofs` | `SnapshotAlwaysGood` (GoodSnapshot), `ShutdownLosesNothing` (ShutdownKeeps), `SnapshotsGrow` (NeverGoesBack) | saves do not overlap |

No condition is there for the prover's sake: where the code does not ensure it,
TLC shows what happens otherwise (section 3, the runs that expect a violation and
the table after them). Every invariant and every safety property the passing runs
check is stated by one of these theorems.

Assumptions on the constants: the No... values are not members of the sets they
stand outside of; functions among the constants have their types; a
client has a finite number of threads and there are finitely many clients; the pool
of the peer server is not empty (it has 4 workers); a piece is tried at least once
(5 times in the code), by a run that has a peer (it returns early otherwise,
`downloader.cpp:98`) and a piece to fetch (the empty file is left out). TLC evaluates
all of them.

`ReplicationProofs`. Each tracker starts over any snapshot of its own or over none
(`SpecFrom`), which includes the specifications of the runs. TypeOK alone is not
inductive: a link about to merge must have something to merge (`Carrying`).
Integrity alone is not inductive either: a merge or a load is as sound as the
record, and the record may be old: on disk, in the link's buffer, or sent by a
link that has hung up. `RecordsSound` says that all of these are sound with `-` in
the place of the empty owner. Each operator keeps a sound state sound (one lemma
per operator), serialize turns soundness with the empty owner into soundness with
`-` (this is where `-` must not be a user), a merge of two sound states is sound,
and each action applies one of these to one tracker.

`RefinementProofs`. The actions of `Replication` come in few shapes, told apart by
what they do to databases, snapshots and copies under way; one lemma shows that
every step has a shape, and each shape is an action of `Directory` or a stutter
for both books. A link must be idle while its process is down (`Linked`), or a
copy could arrive at a tracker that is not there. SavedStaysSaved needs `Covered`:
a tracker that serves knows all its snapshot holds, and so does the text it is
saving, for as long as no other save comes in between. PushedMeansDelivered needs to
know what each place of the link implies for the version it has read, the copy it
holds and the peer's memory beyond what was loaded (`DeliveryInv`).

`SessionsProofs`, four invariants, each resting on the one before. `TypeInv` counts
the logins under way that may still get a token: without it the tokens issued are
not bounded by the logins. `TalkInv` says how far the client, the wire and the
connection thread are with the one request there can be; ClientAgrees is its case
where nothing is under way. `TokenInv` says whose each token is and which
connection will destroy it, `AddrInv` which connection will clear an address.

`DownloadProofs`. `RunInv` says how the queue and the workers of a run divide its
pieces, when workers are joined and how attempts are bounded over a round of
peers; types rest on it. `WrittenInv` follows "completed" along every way it
travels (worker, run, slot, copy of the statuses, sidecar, next run) and ties it to the
output file. `WholeInv` is the stretch from the full hash to the announcement,
which another run's pre-allocation would spoil. `CountInv` ties the slot's count
and statuses to those of the one run.

`SwarmProofs`. `Shapes` types the console and the runs, `Rounds` bounds the attempts
by the peers already tried in the round, and `Registered` says that whoever is
about to be listed has the name registered already. For SeedersServe, `OneUpload`
follows the one upload: the uploader is on every list and never among those who
answered wrongly, so no round is ever over and no piece given up; the pieces a run
has are those of the content; and a client without a run has no sidecar left that
could vouch for other bytes.

`PeerServerProofs` and `ClientProcessProofs`. What a thread holds is tied to where
it is (`Hands`), the life of the threads to that of the listener (`Begun`), and a
worker's end to the empty queue, which nobody fills once stopping_ is set
(`Stopping`). Every step of the client is one of the peer server or leaves it alone
(`RunsPeerServer`), so these theorems hold inside it. DisconnectedAlone needs what
each exit step of main leaves behind (`After`), that the thread inside send is at
a call of it (`InSend`), and that a running download is known to the Downloader or
to the wait_all that took its threads (`Known`).

`TrackerProcessProofs`. With one saver at a time (`Solo`) the file it writes is the
one under the temporary name (`Handles`, `Ready`) and not the one under the
snapshot's (`Apart`), and the states in the snapshot, in the saver's hands and in
memory are in the order they were taken in (`Ordered`).

Only model-checked: the liveness properties (GoesQuiet, Converges,
GoneIsUnlisted, RunEnds, ExitReturns, PeersAnswered, HonestSuffices, SignalSaves),
since fairness and ENABLED are out of the prover's reach.

## 5. Plan

Done: `TrackerState`, `Replication` and the refinement to `Directory`, `Sessions`,
`Download`, `Swarm`, `PeerServer`, `HttpServer` and their composition
`ClientProcess`, `SnapshotFile` and its composition `TrackerProcess`, with proofs
of all their safety properties. Next:

1. For the liveness properties, the safety facts they rest on: that a thread which
   waits has somebody who will wake it (`PeerServer`, `HttpServer`), and, beyond
   `DownloadersServe`, that a round of a download asks every listed peer before it
   gives up (`Swarm`).
2. What remains true where a condition of section 4 fails, as theorems: tokens with
   two threads per client.
3. Overlapping runs of a name with other groups or destinations in `Download`.

## 6. Not modelled

SHA-1, SHA-256 and OpenSSL (taken as collision free), framing and number
parsing (messages arrive whole or the connection fails), the configuration file,
JSON, HTTP and the dashboard's assets, malformed records, the read-only listings
except download_file and the download report: pure functions, text or static
data. The choice of a tracker at client start-up is a loop over a list that keeps
no state, and a lost tracker connection is never reopened, so there is nothing
after it to model. A torn read of the token string, which download threads copy
without a lock, has no outcome the model could name. leave_group keeps the
leaver in the seeder sets (`tracker_state.cpp:188`), which the models reach and no
document forbids. exit(0) while detached
connection threads run is taken as the end of all of them at once.
