-------------------------- MODULE PeerServerProofs --------------------------
(***************************************************************************)
(* Proofs about PeerServer, for any pool that is not empty and any number  *)
(* of connections.                                                         *)
(*                                                                         *)
(* OneHolder alone is not inductive.  What a thread holds must be tied to  *)
(* where the thread is (Hands), the life of the threads to that of the     *)
(* listener (Begun), and the end of a worker to the empty queue, which     *)
(* nobody fills any more once stopping_ is set (Stopping).                 *)
(***************************************************************************)
EXTENDS PeerServer, TLAPS

\* A thread has a socket in its hands exactly where its code says so.
Hands ==
    /\ held # NoConn <=> acceptor = "got"
    /\ \A w \in Pool : job[w] # NoConn <=> worker[w] = "serve"

\* start() makes the listener, the pool and the accept thread together.
Begun ==
    /\ listener = "none" <=> acceptor = "off"
    /\ \A w \in Pool : worker[w] = "off" <=> acceptor = "off"
    /\ acceptor = "off" => pending = <<>>

\* Threads end only when stop() was called, workers only over an empty queue.
Stopping ==
    /\ stopper = "away" <=> ~stopping
    /\ acceptor = "done" => stopping
    /\ \A w \in Pool : worker[w] = "done" => stopping /\ pending = <<>>
    /\ stopper \in {"joined", "stopped"} =>
          \A w \in Pool : worker[w] \in {"off", "done"}

PeerInv ==
    /\ PeerTypeOK /\ Hands /\ Begun /\ Stopping
    /\ OneHolder /\ ListenerOutlivesAcceptor /\ PoolDrained

-----------------------------------------------------------------------------
(* The queue. *)

\* push: what is in the queue afterwards, and where.
LEMMA Pushed ==
  ASSUME NEW S, NEW q \in Seq(S), NEW e \in S
  PROVE  /\ Append(q, e) \in Seq(S)
         /\ Len(Append(q, e)) = Len(q) + 1
         /\ \A i \in 1..Len(q) : Append(q, e)[i] = q[i]
         /\ Append(q, e)[Len(q) + 1] = e
  OBVIOUS

\* front and pop: the rest of the queue moves up by one.
LEMMA Popped ==
  ASSUME NEW S, NEW q \in Seq(S), q # <<>>
  PROVE  /\ Head(q) \in S /\ Tail(q) \in Seq(S)
         /\ Len(q) \in Nat \ {0}
         /\ Len(Tail(q)) = Len(q) - 1
         /\ Head(q) = q[1]
         /\ \A i \in 1..Len(Tail(q)) : Tail(q)[i] = q[i + 1]
  OBVIOUS

-----------------------------------------------------------------------------
(* The invariant. *)

\* A new server satisfies the invariant (the constructor).
LEMMA PeerInitInv == PeerInit => PeerInv
  <1> SUFFICES ASSUME PeerInit PROVE PeerInv
    OBVIOUS
  <1>1. PeerTypeOK
    <2>1. pending \in Seq(Conns)
      BY DEF PeerInit
    <2>2. errors \in 0..MaxErrors
      BY MaxErrorsAssumption DEF PeerInit
    <2> QED
      BY <2>1, <2>2 DEF PeerInit, PeerTypeOK
  <1>2. Hands /\ Begun /\ Stopping /\ ListenerOutlivesAcceptor /\ PoolDrained
    BY DEF PeerInit, Hands, Begun, Stopping, ListenerOutlivesAcceptor,
           PoolDrained
  <1>3. OneHolder
    <2>1. Len(pending) = 0
      BY DEF PeerInit
    <2>2. \A c \in Conns : ~Queued(c) /\ ~Served(c) /\ held # c
      BY <2>1, NoConnAssumption DEF PeerInit, Queued, Served
    <2> QED
      BY <2>1, <2>2 DEF PeerInit, OneHolder
  <1> QED
    BY <1>1, <1>2, <1>3 DEF PeerInv

\* Steps that leave the queue, the sockets and what the workers hold alone keep
\* OneHolder.
LEMMA HolderUnchanged ==
  ASSUME OneHolder, UNCHANGED <<sock, pending, job, held>>
  PROVE  OneHolder'
  BY DEF OneHolder, Queued, Served

\* Every step of the server and of its peers keeps the types.
LEMMA PeerTypeStep ==
  ASSUME PeerInv, [PeerNext]_peerVars
  PROVE  PeerTypeOK'
  <1> USE DEF PeerInv, PeerTypeOK, queueVars
  <1>1. CASE UNCHANGED peerVars
    BY <1>1 DEF peerVars
  <1>2. CASE StartServer
    BY <1>2 DEF StartServer
  <1>3. CASE AcceptorStep
    <2>1. CASE Accept
      BY <2>1 DEF Accept
    <2>2. CASE AcceptFails
      BY <2>2, MaxErrorsAssumption DEF AcceptFails
    <2>3. CASE AfterFailure
      BY <2>3 DEF AfterFailure
    <2>4. CASE TurnAway
      BY <2>4 DEF TurnAway
    <2>5. CASE Enqueue
      BY <2>5 DEF Enqueue, Hands
    <2>6. CASE NotifyOne
      BY <2>6 DEF NotifyOne, Asleep
    <2> QED
      BY <1>3, <2>1, <2>2, <2>3, <2>4, <2>5, <2>6 DEF AcceptorStep
  <1>4. ASSUME NEW w \in Pool, WorkerStep(w) \/ WakeSpuriously(w)
        PROVE  PeerTypeOK'
    <2>1. CASE Take(w)
      BY <2>1, Popped DEF Take
    <2>2. CASE Sleep(w) \/ Leave(w)
      BY <2>2 DEF Sleep, Leave
    <2>3. CASE ServeOne(w)
      BY <2>3 DEF ServeOne
    <2>4. CASE WakeSpuriously(w)
      BY <2>4 DEF WakeSpuriously
    <2> QED
      BY <1>4, <2>1, <2>2, <2>3, <2>4 DEF WorkerStep
  <1>5. ASSUME NEW c \in Conns, PeerConnects(c)
        PROVE  PeerTypeOK'
    BY <1>5 DEF PeerConnects
  <1>6. CASE RaiseStop \/ StopStep
    <2>1. CASE RaiseStop
      BY <2>1 DEF RaiseStop
    <2>2. CASE NotifyAll
      BY <2>2 DEF NotifyAll, Asleep
    <2>3. CASE ShutListener
      BY <2>3 DEF ShutListener
    <2>4. CASE CloseListener
      BY <2>4 DEF CloseListener
    <2>5. CASE JoinWorkers
      BY <2>5 DEF JoinWorkers
    <2>6. CASE ClosePending
      <3>1. pending' \in Seq(Conns)
        BY <2>6 DEF ClosePending
      <3> QED
        BY <2>6, <3>1 DEF ClosePending
    <2> QED
      BY <1>6, <2>1, <2>2, <2>3, <2>4, <2>5, <2>6 DEF StopStep
  <1> QED
    BY <1>1, <1>2, <1>3, <1>4, <1>5, <1>6 DEF PeerNext

\* Every step keeps the ties between the threads' places, what they hold, the
\* listener and the queue.
LEMMA PeerPlacesStep ==
  ASSUME PeerInv, [PeerNext]_peerVars
  PROVE  /\ Hands' /\ Begun' /\ Stopping'
         /\ ListenerOutlivesAcceptor' /\ PoolDrained'
  <1> USE NoConnAssumption
      DEF PeerInv, PeerTypeOK, queueVars, Hands, Begun, Stopping,
          ListenerOutlivesAcceptor, PoolDrained
  <1>1. CASE UNCHANGED peerVars
    BY <1>1 DEF peerVars
  <1>2. CASE StartServer
    BY <1>2 DEF StartServer
  <1>3. CASE AcceptorStep
    <2>1. CASE Accept
      BY <2>1 DEF Accept
    <2>2. CASE AcceptFails
      BY <2>2 DEF AcceptFails
    <2>3. CASE AfterFailure
      BY <2>3 DEF AfterFailure
    <2>4. CASE TurnAway
      BY <2>4 DEF TurnAway
    <2>5. CASE Enqueue
      BY <2>5 DEF Enqueue
    <2>6. CASE NotifyOne
      BY <2>6 DEF NotifyOne, Asleep
    <2> QED
      BY <1>3, <2>1, <2>2, <2>3, <2>4, <2>5, <2>6 DEF AcceptorStep
  <1>4. ASSUME NEW w \in Pool, WorkerStep(w) \/ WakeSpuriously(w)
        PROVE  /\ Hands' /\ Begun' /\ Stopping'
               /\ ListenerOutlivesAcceptor' /\ PoolDrained'
    <2>1. CASE Take(w)
      BY <2>1, Popped DEF Take
    <2>2. CASE Sleep(w)
      BY <2>2 DEF Sleep
    <2>3. CASE Leave(w)
      BY <2>3 DEF Leave
    <2>4. CASE ServeOne(w)
      BY <2>4 DEF ServeOne
    <2>5. CASE WakeSpuriously(w)
      BY <2>5 DEF WakeSpuriously
    <2> QED
      BY <1>4, <2>1, <2>2, <2>3, <2>4, <2>5 DEF WorkerStep
  <1>5. ASSUME NEW c \in Conns, PeerConnects(c)
        PROVE  /\ Hands' /\ Begun' /\ Stopping'
               /\ ListenerOutlivesAcceptor' /\ PoolDrained'
    BY <1>5 DEF PeerConnects
  <1>6. CASE RaiseStop
    BY <1>6 DEF RaiseStop
  <1>7. CASE StopStep
    <2>1. CASE NotifyAll
      BY <2>1 DEF NotifyAll, Asleep
    <2>2. CASE ShutListener
      BY <2>2 DEF ShutListener
    <2>3. CASE CloseListener
      BY <2>3 DEF CloseListener
    <2>4. CASE JoinWorkers
      BY <2>4, PoolAssumption DEF JoinWorkers
    <2>5. CASE ClosePending
      BY <2>5 DEF ClosePending
    <2> QED
      BY <1>7, <2>1, <2>2, <2>3, <2>4, <2>5 DEF StopStep
  <1> QED
    BY <1>1, <1>2, <1>3, <1>4, <1>5, <1>6, <1>7 DEF PeerNext

\* Every step keeps each accepted socket in one place: accept() puts it in the
\* accept thread's hands, the push moves it to the queue, the pop to a worker,
\* and it leaves the hands of a thread when that thread closes it.
LEMMA PeerHolderStep ==
  ASSUME PeerInv, PeerTypeOK', [PeerNext]_peerVars
  PROVE  OneHolder'
  <1> USE NoConnAssumption DEF PeerInv, queueVars
  <1>1. CASE UNCHANGED <<sock, pending, job, held>>
    BY <1>1, HolderUnchanged
  <1>2. CASE Accept
    <2>1. PICK c \in Conns : /\ sock[c] = "backlog" /\ held' = c
                             /\ sock' = [sock EXCEPT ![c] = "open"]
      BY <1>2 DEF Accept
    <2>2. held = NoConn /\ UNCHANGED <<pending, job>>
      BY <1>2 DEF Accept, Hands
    <2>3. ~Queued(c) /\ ~Served(c)
      BY <2>1 DEF OneHolder
    <2>4. \A d \in Conns : /\ Queued(d)' <=> Queued(d)
                           /\ Served(d)' <=> Served(d)
      BY <2>2 DEF Queued, Served
    <2> QED
      BY <2>1, <2>2, <2>3, <2>4 DEF OneHolder, PeerTypeOK
  <1>3. CASE TurnAway
    <2>1. /\ held \in Conns /\ held' = NoConn /\ UNCHANGED <<pending, job>>
          /\ sock' = [sock EXCEPT ![held] = "closed"]
      BY <1>3 DEF TurnAway, Hands, PeerTypeOK
    <2>2. ~Queued(held) /\ ~Served(held)
      BY <2>1 DEF OneHolder
    <2>3. \A d \in Conns : /\ Queued(d)' <=> Queued(d)
                           /\ Served(d)' <=> Served(d)
      BY <2>1 DEF Queued, Served
    <2> QED
      BY <2>1, <2>2, <2>3 DEF OneHolder, PeerTypeOK
  <1>4. CASE Enqueue
    <2>1. /\ held \in Conns /\ held' = NoConn /\ UNCHANGED <<sock, job>>
          /\ pending' = Append(pending, held) /\ pending \in Seq(Conns)
      BY <1>4 DEF Enqueue, Hands, PeerTypeOK
    <2>2. /\ Len(pending) \in Nat /\ Len(pending') = Len(pending) + 1
          /\ \A i \in 1..Len(pending) : pending'[i] = pending[i]
          /\ pending'[Len(pending) + 1] = held
      BY <2>1, Pushed
    <2>3. ~Queued(held) /\ ~Served(held)
      BY <2>1 DEF OneHolder
    <2>4. \A d \in Conns : /\ Queued(d)' <=> Queued(d) \/ d = held
                           /\ Served(d)' <=> Served(d)
      BY <2>1, <2>2 DEF Queued, Served
    <2>5. \A i, j \in 1..Len(pending') : pending'[i] = pending'[j] => i = j
      BY <2>2, <2>3 DEF OneHolder, Queued
    <2> QED
      BY <2>1, <2>3, <2>4, <2>5 DEF OneHolder
  <1>5. ASSUME NEW w \in Pool, Take(w)
        PROVE  OneHolder'
    <2>1. /\ job' = [job EXCEPT ![w] = Head(pending)]
          /\ job \in [Pool -> Conns \cup {NoConn}] /\ job[w] = NoConn
          /\ pending # <<>> /\ pending' = Tail(pending)
          /\ pending \in Seq(Conns) /\ UNCHANGED <<sock, held>>
      BY <1>5 DEF Take, Hands, PeerTypeOK
    <2>2. /\ Head(pending) \in Conns /\ Len(pending) \in Nat \ {0}
          /\ Len(pending') = Len(pending) - 1 /\ Head(pending) = pending[1]
          /\ \A i \in 1..Len(pending') : pending'[i] = pending[i + 1]
      BY <2>1, Popped
    <2> DEFINE h == Head(pending)
    <2>3. Queued(h) /\ held # h /\ ~Served(h)
      BY <2>2 DEF OneHolder, Queued
    <2>4. \A d \in Conns : Served(d)' <=> Served(d) \/ d = h
      BY <2>1, <2>2 DEF Served
    <2>5. \A d \in Conns : Queued(d)' <=> Queued(d) /\ d # h
      <3>1. ASSUME NEW d \in Conns, Queued(d)'
            PROVE  Queued(d) /\ d # h
        <4>1. PICK i \in 1..Len(pending') : pending'[i] = d
          BY <3>1 DEF Queued
        <4>2. i + 1 \in 1..Len(pending) /\ pending[i + 1] = d /\ i + 1 # 1
          BY <4>1, <2>2
        <4>3. 1 \in 1..Len(pending)
          BY <2>2
        <4> QED
          BY <4>2, <4>3, <2>2 DEF Queued, OneHolder
      <3>2. ASSUME NEW d \in Conns, Queued(d), d # h
            PROVE  Queued(d)'
        <4>1. PICK i \in 1..Len(pending) : pending[i] = d
          BY <3>2 DEF Queued
        <4>2. i - 1 \in 1..Len(pending') /\ pending'[i - 1] = d
          BY <4>1, <3>2, <2>2
        <4> QED
          BY <4>2 DEF Queued
      <3> QED
        BY <3>1, <3>2
    <2>6. \A i, j \in 1..Len(pending') : pending'[i] = pending'[j] => i = j
      <3> SUFFICES ASSUME NEW i \in 1..Len(pending'), NEW j \in 1..Len(pending'),
                          pending'[i] = pending'[j]
                   PROVE  i = j
        OBVIOUS
      <3>1. i + 1 \in 1..Len(pending) /\ j + 1 \in 1..Len(pending)
        BY <2>2
      <3>2. pending[i + 1] = pending[j + 1]
        BY <2>2
      <3> QED
        BY <3>1, <3>2 DEF OneHolder
    <2>7. \A x, y \in Pool : job'[x] = job'[y] => x = y \/ job'[x] = NoConn
      BY <2>1, <2>2, <2>3 DEF OneHolder, Served
    <2> QED
      BY <2>1, <2>2, <2>3, <2>4, <2>5, <2>6, <2>7 DEF OneHolder
  <1>6. ASSUME NEW w \in Pool, ServeOne(w)
        PROVE  OneHolder'
    <2>1. /\ job[w] \in Conns /\ job' = [job EXCEPT ![w] = NoConn]
          /\ sock' = [sock EXCEPT ![job[w]] = "closed"]
          /\ job \in [Pool -> Conns \cup {NoConn}]
          /\ sock \in [Conns -> {"none", "backlog", "open", "closed"}]
          /\ UNCHANGED <<pending, held>>
      BY <1>6 DEF ServeOne, Hands, PeerTypeOK
    <2>2. Served(job[w]) /\ ~Queued(job[w]) /\ held # job[w]
      BY <2>1 DEF OneHolder, Served
    <2>3. \A d \in Conns : /\ Served(d)' <=> Served(d) /\ d # job[w]
                           /\ Queued(d)' <=> Queued(d)
      BY <2>1 DEF Served, Queued, OneHolder
    <2>4. \A x, y \in Pool : job'[x] = job'[y] => x = y \/ job'[x] = NoConn
      BY <2>1 DEF OneHolder
    <2> QED
      BY <2>1, <2>2, <2>3, <2>4 DEF OneHolder
  <1>7. ASSUME NEW c \in Conns, PeerConnects(c)
        PROVE  OneHolder'
    <2>1. /\ sock[c] = "none" /\ sock' = [sock EXCEPT ![c] = "backlog"]
          /\ UNCHANGED <<pending, job, held>>
      BY <1>7 DEF PeerConnects
    <2> QED
      BY <2>1 DEF OneHolder, Queued, Served, PeerTypeOK
  <1>8. CASE ShutListener
    <2>1. /\ \A d \in Conns : sock'[d] = "open" <=> sock[d] = "open"
          /\ UNCHANGED <<pending, job, held>>
      BY <1>8 DEF ShutListener
    <2> QED
      BY <2>1 DEF OneHolder, Queued, Served
  <1>9. CASE ClosePending
    <2>1. pending = <<>> /\ Len(pending) = 0
      BY <1>9 DEF ClosePending, PoolDrained
    <2>2. sock' = sock /\ UNCHANGED <<pending, job, held>>
      BY <1>9, <2>1 DEF ClosePending, PeerTypeOK
    <2> QED
      BY <2>2, HolderUnchanged
  <1> QED
    BY <1>1, <1>2, <1>3, <1>4, <1>5, <1>6, <1>7, <1>8, <1>9
    DEF PeerNext, peerVars, AcceptorStep, WorkerStep, StopStep, StartServer,
        AcceptFails, AfterFailure, NotifyOne, Sleep, Leave, WakeSpuriously,
        RaiseStop, NotifyAll, CloseListener, JoinWorkers

-----------------------------------------------------------------------------
(* The theorems. *)

\* PeerInvariant: the invariant holds in every state of the peer server, for
\* any pool and any number of connections.
THEOREM PeerInvariant == PeerSpec => []PeerInv
  <1>1. PeerInv /\ [PeerNext]_peerVars => PeerInv'
    BY PeerTypeStep, PeerPlacesStep, PeerHolderStep DEF PeerInv
  <1> QED
    BY <1>1, PeerInitInv, PTL DEF PeerSpec

\* SocketsHeldOnce: no interleaving of accept_loop, the pool and stop() leaks a
\* socket, serves it twice or uses it after its close.
THEOREM SocketsHeldOnce == PeerSpec => []OneHolder
  <1>1. PeerInv => OneHolder
    BY DEF PeerInv
  <1> QED
    BY <1>1, PeerInvariant, PTL
=============================================================================
