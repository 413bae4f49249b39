----------------------------- MODULE PeerServer -----------------------------
(***************************************************************************)
(* The part of a client that serves pieces: the accept thread, the queue   *)
(* of accepted sockets, the worker pool that waits on a condition variable *)
(* for it, and stop(), which another thread calls.                         *)
(*                                                                         *)
(* What a worker does between recv_framed and close (parse, look up the    *)
(* registry, read and send the piece) touches nothing of this module's     *)
(* state; Swarm says which bytes are sent.                                 *)
(***************************************************************************)
EXTENDS Naturals, Sequences, FiniteSets

CONSTANTS Conns,      \* connections other clients make to this one
          Pool,       \* the worker threads; 4 in the source
          NoConn,
          MaxErrors   \* bound on accept() failing while the listener is open

ASSUME NoConnAssumption == NoConn \notin Conns
ASSUME PoolAssumption == Pool # {}
ASSUME MaxErrorsAssumption == MaxErrors \in Nat

VARIABLES
    sock,       \* per connection: "none", "backlog", "open" (accepted), "closed"
    acceptor,   \* "off", "accept", "failed", "got", "notify", "done"
    held,       \* the socket accept() returned, until it is queued
    pending,    \* pending_
    worker,     \* "off", "ready" (to lock mtx_), "asleep" on cv_, "serve", "done"
    job,        \* the socket a worker serves
    stopping,   \* stopping_
    listener,   \* listen_fd_: "none", "open", "shut" by shutdown(), "closed"
    stopper,    \* where the caller of stop() is, "away" before
    errors

queueVars == <<sock, pending, job>>
peerVars == <<sock, acceptor, held, pending, worker, job, stopping,
              listener, stopper, errors>>

PeerInit ==
    /\ sock = [c \in Conns |-> "none"]
    /\ acceptor = "off" /\ held = NoConn /\ pending = <<>>
    /\ worker = [w \in Pool |-> "off"] /\ job = [w \in Pool |-> NoConn]
    /\ stopping = FALSE /\ listener = "none" /\ stopper = "away" /\ errors = 0

\* start(): socket, bind and listen succeed, then the threads are created.
StartServer ==
    /\ listener = "none" /\ ~stopping
    /\ listener' = "open"
    /\ worker' = [w \in Pool |-> "ready"]
    /\ acceptor' = "accept"
    /\ UNCHANGED <<queueVars, held, stopping, stopper, errors>>

-----------------------------------------------------------------------------
(* The other clients. *)

PeerConnects(c) ==
    /\ listener = "open" /\ sock[c] = "none"
    /\ sock' = [sock EXCEPT ![c] = "backlog"]
    /\ UNCHANGED <<acceptor, held, pending, worker, job, stopping,
                   listener, stopper, errors>>

-----------------------------------------------------------------------------
(* accept_loop. *)

Accept ==
    /\ acceptor = "accept" /\ listener = "open"
    /\ \E c \in Conns :
          /\ sock[c] = "backlog"
          /\ sock' = [sock EXCEPT ![c] = "open"]
          /\ held' = c
    /\ acceptor' = "got"
    /\ UNCHANGED <<pending, worker, job, stopping, listener, stopper,
                   errors>>

\* accept() fails: for good once the listener is shut, or this once (the peer
\* aborted, no descriptor is left).
AcceptFails ==
    /\ acceptor = "accept"
    /\ \/ listener = "shut" /\ UNCHANGED errors
       \/ listener = "open" /\ errors < MaxErrors /\ errors' = errors + 1
    /\ acceptor' = "failed"
    /\ UNCHANGED <<queueVars, held, worker, stopping, listener, stopper>>

AfterFailure ==
    /\ acceptor = "failed"
    /\ acceptor' = IF stopping THEN "done" ELSE "accept"
    /\ UNCHANGED <<queueVars, held, worker, stopping, listener, stopper,
                   errors>>

\* Mutant: a socket accepted while the server stops is not closed.
TurnAway_leaks ==
    /\ acceptor = "got" /\ stopping
    /\ held' = NoConn
    /\ acceptor' = "done"
    /\ UNCHANGED <<sock, pending, worker, job, stopping, listener,
                   stopper, errors>>

\* The lock is taken and stopping_ is set: the socket is closed.
TurnAway ==
    /\ acceptor = "got" /\ stopping
    /\ sock' = [sock EXCEPT ![held] = "closed"]
    /\ held' = NoConn
    /\ acceptor' = "done"
    /\ UNCHANGED <<pending, worker, job, stopping, listener, stopper,
                   errors>>

\* Mutant: the local that holds the socket is cleared before it is pushed.
Enqueue_cleared ==
    /\ acceptor = "got" /\ ~stopping
    /\ pending' = Append(pending, NoConn)
    /\ held' = NoConn
    /\ acceptor' = "notify"
    /\ UNCHANGED <<sock, worker, job, stopping, listener, stopper, errors>>

Enqueue ==
    /\ acceptor = "got" /\ ~stopping
    /\ pending' = Append(pending, held)
    /\ held' = NoConn
    /\ acceptor' = "notify"
    /\ UNCHANGED <<sock, worker, job, stopping, listener, stopper, errors>>

Asleep == {w \in Pool : worker[w] = "asleep"}

\* Mutant: nobody is told of the new socket.
NotifyOne_silent ==
    /\ acceptor = "notify"
    /\ acceptor' = "accept"
    /\ UNCHANGED <<queueVars, held, worker, stopping, listener, stopper,
                   errors>>

\* cv_.notify_one, after the lock is released.
NotifyOne ==
    /\ acceptor = "notify"
    /\ IF Asleep = {} THEN UNCHANGED worker
       ELSE \E w \in Asleep : worker' = [worker EXCEPT ![w] = "ready"]
    /\ acceptor' = "accept"
    /\ UNCHANGED <<queueVars, held, stopping, listener, stopper, errors>>

AcceptorStep ==
    Accept \/ AcceptFails \/ AfterFailure \/ TurnAway \/ Enqueue \/ NotifyOne

-----------------------------------------------------------------------------
(* worker_loop.  The predicate of cv_.wait is evaluated under mtx_. *)

Take(w) ==
    /\ worker[w] = "ready" /\ pending # <<>>
    /\ job' = [job EXCEPT ![w] = Head(pending)]
    /\ pending' = Tail(pending)
    /\ worker' = [worker EXCEPT ![w] = "serve"]
    /\ UNCHANGED <<sock, acceptor, held, stopping, listener, stopper,
                   errors>>

Sleep(w) ==
    /\ worker[w] = "ready" /\ pending = <<>> /\ ~stopping
    /\ worker' = [worker EXCEPT ![w] = "asleep"]
    /\ UNCHANGED <<queueVars, acceptor, held, stopping, listener,
                   stopper, errors>>

WakeSpuriously(w) ==
    /\ worker[w] = "asleep"
    /\ worker' = [worker EXCEPT ![w] = "ready"]
    /\ UNCHANGED <<queueVars, acceptor, held, stopping, listener,
                   stopper, errors>>

\* Mutant: a worker leaves as soon as the server stops.
Leave_early(w) ==
    /\ worker[w] = "ready" /\ stopping
    /\ worker' = [worker EXCEPT ![w] = "done"]
    /\ UNCHANGED <<queueVars, acceptor, held, stopping, listener,
                   stopper, errors>>

Leave(w) ==
    /\ worker[w] = "ready" /\ pending = <<>> /\ stopping
    /\ worker' = [worker EXCEPT ![w] = "done"]
    /\ UNCHANGED <<queueVars, acceptor, held, stopping, listener,
                   stopper, errors>>

\* serve_one: recv_framed, which has no timeout, returns when the peer has sent
\* its request or hung up; the piece is sent or not, and the socket closed.
ServeOne(w) ==
    /\ worker[w] = "serve"
    /\ sock' = [sock EXCEPT ![job[w]] = "closed"]
    /\ job' = [job EXCEPT ![w] = NoConn]
    /\ worker' = [worker EXCEPT ![w] = "ready"]
    /\ UNCHANGED <<acceptor, held, pending, stopping, listener, stopper,
                   errors>>

WorkerStep(w) == Take(w) \/ Sleep(w) \/ Leave(w) \/ ServeOne(w)

-----------------------------------------------------------------------------
(* stop(). *)

RaiseStop ==
    /\ stopper = "away"
    /\ stopping' = TRUE
    /\ stopper' = "raised"
    /\ UNCHANGED <<queueVars, acceptor, held, worker, listener, errors>>

\* Mutant: only one sleeping worker is told.
NotifyAll_one ==
    /\ stopper = "raised"
    /\ IF Asleep = {} THEN UNCHANGED worker
       ELSE \E w \in Asleep : worker' = [worker EXCEPT ![w] = "ready"]
    /\ stopper' = "notified"
    /\ UNCHANGED <<queueVars, acceptor, held, stopping, listener, errors>>

NotifyAll ==
    /\ stopper = "raised"
    /\ worker' = [w \in Pool |-> IF w \in Asleep THEN "ready" ELSE worker[w]]
    /\ stopper' = "notified"
    /\ UNCHANGED <<queueVars, acceptor, held, stopping, listener, errors>>

\* shutdown(listen_fd_): the kernel resets what is still in the backlog and
\* accept() fails from now on.
ShutListener ==
    /\ stopper = "notified"
    /\ listener' = IF listener = "open" THEN "shut" ELSE listener
    /\ sock' = [c \in Conns |-> IF sock[c] = "backlog" THEN "closed" ELSE sock[c]]
    /\ stopper' = "shut"
    /\ UNCHANGED <<acceptor, held, pending, worker, job, stopping, errors>>

\* Mutant: the descriptor is closed before the accept thread is joined.
CloseListener_early ==
    /\ stopper = "shut"
    /\ listener' = IF listener = "shut" THEN "closed" ELSE listener
    /\ stopper' = "closed"
    /\ UNCHANGED <<queueVars, acceptor, held, worker, stopping, errors>>

\* accept_thread_.join(), then close(listen_fd_).
CloseListener ==
    /\ stopper = "shut" /\ acceptor \in {"off", "done"}
    /\ listener' = IF listener = "shut" THEN "closed" ELSE listener
    /\ stopper' = "closed"
    /\ UNCHANGED <<queueVars, acceptor, held, worker, stopping, errors>>

JoinWorkers ==
    /\ stopper = "closed"
    /\ \A w \in Pool : worker[w] \in {"off", "done"}
    /\ stopper' = "joined"
    /\ UNCHANGED <<queueVars, acceptor, held, worker, stopping, listener,
                   errors>>

\* What is left in the queue is closed.
ClosePending ==
    /\ stopper = "joined"
    /\ sock' = [c \in Conns |-> IF \E i \in 1..Len(pending) : pending[i] = c
                                THEN "closed" ELSE sock[c]]
    /\ pending' = <<>>
    /\ stopper' = "stopped"
    /\ UNCHANGED <<acceptor, held, worker, job, stopping, listener, errors>>

StopStep ==
    \/ NotifyAll \/ ShutListener \/ CloseListener \/ JoinWorkers \/ ClosePending

PeerNext ==
    \/ StartServer \/ AcceptorStep
    \/ \E w \in Pool : WorkerStep(w) \/ WakeSpuriously(w)
    \/ \E c \in Conns : PeerConnects(c)
    \/ RaiseStop \/ StopStep

PeerSpec == PeerInit /\ [][PeerNext]_peerVars

-----------------------------------------------------------------------------
(* Properties. *)

PeerTypeOK ==
    /\ sock \in [Conns -> {"none", "backlog", "open", "closed"}]
    /\ acceptor \in {"off", "accept", "failed", "got", "notify", "done"}
    /\ held \in Conns \cup {NoConn}
    /\ pending \in Seq(Conns)
    /\ worker \in [Pool -> {"off", "ready", "asleep", "serve", "done"}]
    /\ job \in [Pool -> Conns \cup {NoConn}]
    /\ stopping \in BOOLEAN
    /\ listener \in {"none", "open", "shut", "closed"}
    /\ stopper \in {"away", "raised", "notified", "shut", "closed", "joined",
                    "stopped"}
    /\ errors \in 0..MaxErrors

Queued(c) == \E i \in 1..Len(pending) : pending[i] = c
Served(c) == \E w \in Pool : job[w] = c

\* OneHolder: an accepted socket that is not closed is in exactly one place,
\* the accept thread, the queue or one worker, and a closed one in none: no
\* interleaving of the pool and of stop() leaks a descriptor, serves a socket
\* twice or uses one after its close (peer_server.cpp:98, 116, 202).
OneHolder ==
    /\ \A c \in Conns : sock[c] = "open" <=> (held = c \/ Queued(c) \/ Served(c))
    /\ \A c \in Conns : Queued(c) => held # c /\ ~Served(c)
    /\ \A c \in Conns : Served(c) => held # c
    /\ \A i, j \in 1..Len(pending) : pending[i] = pending[j] => i = j
    /\ \A w, x \in Pool : job[w] = job[x] => w = x \/ job[w] = NoConn

\* ListenerOutlivesAcceptor: the listening descriptor is closed only when the
\* accept thread has ended: "closing an fd another thread is still blocked on
\* invites that number being reused" (peer_server.cpp:181).
ListenerOutlivesAcceptor == listener = "closed" => acceptor = "done"

\* PoolDrained: when the workers have been joined the queue is empty, so every
\* connection queued before stop() was served and the closing loop at its end
\* finds nothing: "Stops accepting, drains the pool" (peer_server.h:33).
PoolDrained == stopper \in {"joined", "stopped"} => pending = <<>>
=============================================================================
