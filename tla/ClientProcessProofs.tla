------------------------ MODULE ClientProcessProofs -------------------------
(***************************************************************************)
(* Proofs about ClientProcess, for any number of downloads, connections,   *)
(* browser tabs and workers.                                               *)
(*                                                                         *)
(* The process runs the peer server: PeerServer's theorems carry over once *)
(* every step of the process is seen to be one of the server or to leave   *)
(* it alone.  DisconnectedAlone needs to know what each of main's exit     *)
(* steps leaves behind (After), that the thread inside send is at a place  *)
(* where its code calls send (InSend), and that a running download is      *)
(* known to the Downloader or to the wait_all that took its threads        *)
(* (Known).                                                                *)
(***************************************************************************)
EXTENDS ClientProcess, PeerServerProofs

MainSteps == {"start", "web", "repl", "command", "web_stop", "wait_all",
              "disconnect", "server_stop", "return", "ended"}

\* The thread inside TrackerClient::send is at a call of it.
InSend ==
    /\ sender = "main" => main = "command"
    /\ sender = "httpd" => httpd = "ask"
    /\ sender \in Downloads => download[sender] \in {"query", "report"}

\* A thread that runs is in threads_ or in the vector wait_all has taken.
Known ==
    /\ \A d \in Downloads :
          download[d] \in {"none", "ended"} \/ d \in threads \cup joining
    /\ ~swapped => joining = {}
    /\ swapped => main = "wait_all" /\ threads = {}

\* What main has seen to before it goes on.
After ==
    /\ main \in {"start", "web"} => httpd = "off"
    /\ main \in {"start", "web", "repl", "command"} => webStopper = "away"
    /\ main = "start" => /\ threads = {}
                         /\ \A d \in Downloads : download[d] = "none"
    /\ webStopper = "stopped" => httpd \in {"off", "done"}
    /\ main \in {"wait_all", "disconnect", "server_stop", "return", "ended"} =>
          httpd \in {"off", "done"}
    /\ main \in {"disconnect", "server_stop", "return", "ended"} =>
          /\ threads = {}
          /\ \A d \in Downloads : download[d] \in {"none", "ended"}
    /\ ~connected => main \in {"server_stop", "return", "ended"}

OwnTypeOK ==
    /\ WebTypeOK
    /\ download \in [Downloads -> {"none", "query", "fetch", "report", "ended"}]
    /\ threads \subseteq Downloads /\ joining \subseteq Downloads
    /\ swapped \in BOOLEAN /\ connected \in BOOLEAN
    /\ sender \in Downloads \cup {"main", "httpd", NoThread}
    /\ main \in MainSteps

ExitInv == OwnTypeOK /\ InSend /\ Known /\ After

-----------------------------------------------------------------------------
(* The process runs a peer server. *)

\* A step of the process is a step of the peer server or leaves it alone.
LEMMA StepOfServer == [Next]_vars => [PeerNext]_peerVars
  <1> SUFFICES ASSUME [Next]_vars PROVE [PeerNext]_peerVars
    OBVIOUS
  <1> USE DEF PeerNext
  <1>1. CASE UNCHANGED vars
    BY <1>1 DEF vars
  <1>2. CASE MainStep
    <2>1. CASE StartPeerServer
      BY <2>1 DEF StartPeerServer
    <2>2. CASE StartDashboard \/ CommandDone \/ StopDashboard \/ WaitAll \/ Disconnect
      BY <2>2 DEF StartDashboard, CommandDone, StopDashboard, WaitAll, Disconnect
    <2>3. CASE StopPeerServer \/ ReturnFromMain
      BY <2>3 DEF StopPeerServer, ReturnFromMain
    <2> QED
      BY <1>2, <2>1, <2>2, <2>3 DEF MainStep
  <1>3. CASE Console \/ LeaveConsole \/ WebStep \/ Ended
    BY <1>3 DEF Console, LeaveConsole, WebStep, Ended, vars
  <1>4. CASE \E d \in Downloads : DownloadStep(d)
    BY <1>4 DEF DownloadStep
  <1>5. CASE \/ PeerStep(AcceptorStep)
             \/ \E w \in Pool : \/ PeerStep(WorkerStep(w))
                                \/ PeerStep(WakeSpuriously(w))
             \/ \E c \in Conns : PeerStep(PeerConnects(c))
    BY <1>5 DEF PeerStep
  <1>6. CASE \E b \in Tabs : TabConnects(b) /\ UNCHANGED <<peerVars, main, callVars>>
    BY <1>6
  <1> QED
    BY <1>1, <1>2, <1>3, <1>4, <1>5, <1>6 DEF Next

\* RunsPeerServer: whatever main, the dashboard and the downloads do, the peer
\* server inside a client behaves as PeerServer says.
THEOREM RunsPeerServer == Spec => PeerSpec
  <1>1. Init => PeerInit
    BY DEF Init
  <1> QED
    BY <1>1, StepOfServer, PTL DEF Spec, PeerSpec

\* HeldOnceInProcess: in a whole client every accepted socket that is not closed
\* is in exactly one place, and a closed one in none.
THEOREM HeldOnceInProcess == Spec => []OneHolder
  BY RunsPeerServer, SocketsHeldOnce, PTL

\* ListenerClosedLast: in a whole client the listening descriptor outlives the
\* thread that accepts on it.
THEOREM ListenerClosedLast == Spec => []ListenerOutlivesAcceptor
  <1>1. PeerInv => ListenerOutlivesAcceptor
    BY DEF PeerInv
  <1> QED
    BY <1>1, RunsPeerServer, PeerInvariant, PTL

\* DrainedWhenJoined: when stop() has joined the pool, whatever was queued has
\* been served.
THEOREM DrainedWhenJoined == Spec => []PoolDrained
  <1>1. PeerInv => PoolDrained
    BY DEF PeerInv
  <1> QED
    BY <1>1, RunsPeerServer, PeerInvariant, PTL

-----------------------------------------------------------------------------
(* main's exit steps. *)

\* The order of the last lines of main.
LEMMA ExitOrder ==
  /\ Done("web_stop") => main' = "wait_all"
  /\ Done("wait_all") => main' = "disconnect"
  /\ Done("disconnect") => main' = "server_stop"
  /\ Done("server_stop") => main' = "return"
  /\ ExitSteps[1] = "web_stop"
  <1>1. \A i \in 1..4 : i = 1 \/ i = 2 \/ i = 3 \/ i = 4
    OBVIOUS
  <1> QED
    BY <1>1 DEF Done, Goto, ExitSteps

\* The process starts with nothing to leave behind.
LEMMA ExitInitInv == Init => ExitInv
  BY ThreadsAssumption
  DEF Init, WebInit, ExitInv, OwnTypeOK, WebTypeOK, MainSteps, InSend, Known,
      After

\* A step of the peer server changes nothing of the rest.
LEMMA ExitPeerStep ==
  ASSUME ExitInv, UNCHANGED <<webVars, main, callVars>>
  PROVE  ExitInv'
  BY DEF ExitInv, OwnTypeOK, WebTypeOK, InSend, Known, After, webVars, callVars

\* The steps of the download threads.
LEMMA ExitDownloadStep ==
  ASSUME ExitInv, NEW d \in Downloads, DownloadStep(d)
  PROVE  ExitInv'
  <1> USE ThreadsAssumption
      DEF ExitInv, OwnTypeOK, WebTypeOK, InSend, Known, After, webVars
  <1>1. UNCHANGED <<webVars, main>>
    BY DEF DownloadStep
  <1>2. CASE Calls(d)
    BY <1>1, <1>2 DEF Calls, Call
  <1>3. CASE Answered(d)
    BY <1>1, <1>3 DEF Answered, Return
  <1>4. CASE Fetched(d)
    BY <1>1, <1>4 DEF Fetched
  <1> QED
    BY <1>2, <1>3, <1>4 DEF DownloadStep

\* The steps of the dashboard's thread, its handlers included.
LEMMA ExitWebStep ==
  ASSUME ExitInv, WebStep
  PROVE  ExitInv'
  <1> USE ThreadsAssumption
      DEF ExitInv, OwnTypeOK, WebTypeOK, InSend, Known, After
  <1>1. UNCHANGED main
    BY DEF WebStep
  <1>2. CASE HttpStep /\ UNCHANGED callVars
    <2> USE DEF callVars
    <2>1. CASE WebAccept
      BY <1>1, <1>2, <2>1 DEF WebAccept
    <2>2. CASE WebAcceptFails
      BY <1>1, <1>2, <2>2 DEF WebAcceptFails
    <2>3. CASE WebAfterFailure \/ WebBegin \/ WebRead
      BY <1>1, <1>2, <2>3 DEF WebAfterFailure, WebBegin, WebRead
    <2>4. CASE WebTurnAway \/ WebRespond
      BY <1>1, <1>2, <2>4 DEF WebTurnAway, WebRespond, CloseTab
    <2> QED
      BY <1>2, <2>1, <2>2, <2>3, <2>4 DEF HttpStep
  <1>3. CASE HandleCalls
    BY <1>1, <1>3 DEF HandleCalls, Call, webVars
  <1>4. CASE HandleReturns
    BY <1>1, <1>4 DEF HandleReturns, Return
  <1>5. CASE HandleLocally
    BY <1>1, <1>5 DEF HandleLocally, callVars
  <1>6. CASE HandleDownload
    <2>1. PICK d \in Downloads : Begin(d)
      BY <1>6 DEF HandleDownload
    <2> QED
      BY <1>1, <1>6, <2>1 DEF HandleDownload, Begin
  <1> QED
    BY <1>2, <1>3, <1>4, <1>5, <1>6 DEF WebStep

\* The steps of main.
LEMMA ExitMainStep ==
  ASSUME ExitInv, MainStep \/ Console \/ LeaveConsole
  PROVE  ExitInv'
  <1> USE ThreadsAssumption
      DEF ExitInv, OwnTypeOK, WebTypeOK, MainSteps, InSend, Known, After
  <1>1. CASE StartPeerServer
    BY <1>1 DEF StartPeerServer, Goto, webVars
  <1>2. CASE StartDashboard
    <2>1. CASE StartWeb
      BY <1>2, <2>1 DEF StartDashboard, StartWeb, Goto, callVars
    <2>2. CASE UNCHANGED webVars
      BY <1>2, <2>2 DEF StartDashboard, webVars, Goto, callVars
    <2> QED
      BY <1>2, <2>1, <2>2 DEF StartDashboard
  <1>3. CASE CommandDone
    BY <1>3 DEF CommandDone, Return, Goto, webVars
  <1>4. CASE StopDashboard
    <2>1. CASE webStopper = "stopped"
      BY <1>4, <2>1, ExitOrder DEF StopDashboard, webVars, callVars
    <2>2. CASE webStopper # "stopped"
      <3>1. /\ main = "web_stop" /\ UNCHANGED <<main, callVars>>
            /\ WebRaiseStop \/ WebShutListener \/ WebClose
        BY <1>4, <2>2 DEF StopDashboard, WebStopStep
      <3>2. CASE WebRaiseStop
        BY <3>1, <3>2 DEF WebRaiseStop, callVars
      <3>3. CASE WebShutListener
        BY <3>1, <3>3 DEF WebShutListener, callVars
      <3>4. CASE WebClose
        BY <3>1, <3>4 DEF WebClose, callVars
      <3> QED
        BY <3>1, <3>2, <3>3, <3>4
    <2> QED
      BY <2>1, <2>2
  <1>5. CASE WaitAll
    <2>1. CASE swapped
      <3>1. /\ main = "wait_all" /\ main' = "disconnect"
            /\ joining' = {} /\ swapped' = FALSE
            /\ \A d \in joining : download[d] = "ended"
            /\ UNCHANGED <<threads, webVars, download, connected, sender>>
        BY <1>5, <2>1, ExitOrder DEF WaitAll
      <3>2. \A d \in Downloads : download[d] \in {"none", "ended"}
        BY <2>1, <3>1
      <3> QED
        BY <2>1, <3>1, <3>2 DEF webVars
    <2>2. CASE ~swapped
      BY <1>5, <2>2 DEF WaitAll, webVars
    <2> QED
      BY <2>1, <2>2
  <1>6. CASE Disconnect
    <2>1. /\ main = "disconnect" /\ main' = "server_stop" /\ connected' = FALSE
          /\ UNCHANGED <<webVars, download, threads, joining, swapped, sender>>
      BY <1>6, ExitOrder DEF Disconnect
    <2>2. swapped = FALSE /\ swapped' = FALSE
      BY <2>1
    <2>3. OwnTypeOK'
      BY <2>1, <2>2 DEF webVars
    <2>4. InSend' /\ Known' /\ After'
      BY <2>1, <2>2 DEF webVars
    <2> QED
      BY <2>3, <2>4
  <1>7. CASE StopPeerServer
    BY <1>7, ExitOrder DEF StopPeerServer, webVars, callVars
  <1>8. CASE ReturnFromMain
    BY <1>8 DEF ReturnFromMain, Goto, webVars, callVars
  <1>9. CASE Console
    <2>1. CASE main = "repl" /\ Call("main") /\ Goto("command")
               /\ UNCHANGED <<download, threads, joining, swapped, connected>>
      BY <1>9, <2>1 DEF Console, Call, Goto, webVars
    <2>2. ASSUME NEW d \in Downloads, main = "repl", Goto("repl"), Begin(d)
          PROVE  ExitInv'
      BY <1>9, <2>2 DEF Console, Begin, Goto, webVars
    <2> QED
      BY <1>9, <2>1, <2>2 DEF Console
  <1>10. CASE LeaveConsole
    BY <1>10, ExitOrder DEF LeaveConsole, Goto, webVars, callVars
  <1> QED
    BY <1>1, <1>2, <1>3, <1>4, <1>5, <1>6, <1>7, <1>8, <1>9, <1>10 DEF MainStep

\* ExitInvariant: what main's exit relies on holds throughout.
THEOREM ExitInvariant == Spec => []ExitInv
  <1>1. ExitInv /\ [Next]_vars => ExitInv'
    <2> SUFFICES ASSUME ExitInv, [Next]_vars PROVE ExitInv'
      OBVIOUS
    <2>1. CASE UNCHANGED vars
      BY <2>1, ExitPeerStep DEF vars
    <2>2. CASE \E b \in Tabs : TabConnects(b) /\ UNCHANGED <<peerVars, main, callVars>>
      BY <2>2
      DEF TabConnects, callVars, ExitInv, OwnTypeOK, WebTypeOK, InSend, Known,
          After
    <2> QED
      BY <2>1, <2>2, ExitMainStep, ExitWebStep, ExitDownloadStep, ExitPeerStep
      DEF Next, Ended, PeerStep
  <1> QED
    BY <1>1, ExitInitInv, PTL DEF Spec

\* ClientTypes: the types of a whole client.
THEOREM ClientTypes == Spec => []TypeOK
  <1>1. PeerInv /\ ExitInv => TypeOK
    BY DEF PeerInv, ExitInv, OwnTypeOK, TypeOK
  <1> QED
    BY <1>1, RunsPeerServer, PeerInvariant, ExitInvariant, PTL

\* AloneAtDisconnect: when main closes the tracker connection, without the lock
\* of send, no thread of the client is in send or can still get there.
THEOREM AloneAtDisconnect == Spec => []DisconnectedAlone
  <1>1. ExitInv => DisconnectedAlone
    BY ThreadsAssumption DEF ExitInv, OwnTypeOK, InSend, After, DisconnectedAlone
  <1> QED
    BY <1>1, ExitInvariant, PTL
=============================================================================
