--------------------------- MODULE ClientProcess ----------------------------
(***************************************************************************)
(* One client process from start to exit: main and its console loop, the   *)
(* dashboard thread, the download threads, the peer server's threads, and  *)
(* the one tracker connection they share.  main's last lines stop the      *)
(* dashboard, wait for the downloads, close the tracker connection and     *)
(* stop the peer server, in this order.                                    *)
(*                                                                         *)
(* What a download does to its file is in Download, what the tracker       *)
(* answers in Sessions; here a download is a thread that calls the tracker *)
(* once, fetches for a while, and may call the tracker once more.          *)
(***************************************************************************)
EXTENDS PeerServer, HttpServer

CONSTANTS Downloads,   \* the calls of start() that create a thread
          NoThread

ASSUME ThreadsAssumption ==
    /\ NoThread \notin Downloads \cup {"main", "httpd"}
    /\ Downloads \cap {"main", "httpd"} = {}

VARIABLES
    main,        \* "start", "web", "repl", "command", a step of ExitSteps,
                 \* "return" (the destructors), "ended"
    download,    \* per download thread: "none", "query", "fetch", "report",
                 \* "ended"
    threads,     \* threads_ of the Downloader
    joining,     \* the local vector of wait_all, or {}
    swapped,     \* wait_all has taken the vector
    connected,   \* sock_ of the TrackerClient is open
    sender       \* the thread in TrackerClient::send, or NoThread

callVars == <<download, threads, joining, swapped, connected, sender>>
vars == <<peerVars, webVars, main, callVars>>

Init ==
    /\ PeerInit /\ WebInit
    /\ main = "start"
    /\ download = [d \in Downloads |-> "none"]
    /\ threads = {} /\ joining = {} /\ swapped = FALSE
    /\ connected = TRUE /\ sender = NoThread

-----------------------------------------------------------------------------
(* TrackerClient::send: one caller at a time, from the lock to the reply or *)
(* the failure.                                                            *)

Call(th) == sender = NoThread /\ sender' = th
Return(th) == sender = th /\ sender' = NoThread

(* Downloader. *)

\* start(): the slot is claimed and a thread goes into threads_.
Begin(d) ==
    /\ download[d] = "none"
    /\ download' = [download EXCEPT ![d] = "query"]
    /\ threads' = threads \cup {d}
    /\ UNCHANGED <<joining, swapped, connected, sender>>

Calls(d) ==
    /\ download[d] \in {"query", "report"}
    /\ Call(d)
    /\ UNCHANGED <<download, threads, joining, swapped, connected>>

\* download_file is answered or refused; file_downloaded ends the run.
Answered(d) ==
    /\ Return(d)
    /\ \/ download[d] = "query" /\ download' = [download EXCEPT ![d] = "fetch"]
       \/ download' = [download EXCEPT ![d] = "ended"]
    /\ UNCHANGED <<threads, joining, swapped, connected>>

\* Every piece was fetched or given up.
Fetched(d) ==
    /\ download[d] = "fetch"
    /\ \E next \in {"report", "ended"} : download' = [download EXCEPT ![d] = next]
    /\ UNCHANGED <<threads, joining, swapped, connected, sender>>

DownloadStep(d) ==
    /\ Calls(d) \/ Answered(d) \/ Fetched(d)
    /\ UNCHANGED <<peerVars, webVars, main>>

-----------------------------------------------------------------------------
(* The dashboard's handlers. *)

\* "ask": /api/status, which lists the groups through the tracker, or
\* /api/command with a command for the tracker.  The thread waits for the lock of
\* send while main or a download is in it.
HandleCalls ==
    /\ httpd = "ask" /\ Call("httpd")
    /\ UNCHANGED <<webVars, download, threads, joining, swapped, connected>>
HandleReturns ==
    /\ httpd = "ask" /\ Return("httpd")
    /\ httpd' = "respond"
    /\ UNCHANGED <<page, tab, webStopping, webListener, webStopper,
                   download, threads, joining, swapped, connected>>

\* "handle": with nobody logged in neither of them calls the tracker, and some
\* commands never do.
HandleLocally ==
    /\ httpd = "handle"
    /\ httpd' = "respond"
    /\ UNCHANGED <<page, tab, webStopping, webListener, webStopper, callVars>>

\* POST /api/command with download_file.
HandleDownload ==
    /\ httpd = "handle"
    /\ \E d \in Downloads : Begin(d)
    /\ httpd' = "respond"
    /\ UNCHANGED <<page, tab, webStopping, webListener, webStopper>>

WebStep ==
    /\ \/ HttpStep /\ UNCHANGED callVars
       \/ HandleCalls \/ HandleReturns \/ HandleLocally \/ HandleDownload
    /\ UNCHANGED <<peerVars, main>>

-----------------------------------------------------------------------------
(* main. *)

Goto(there) == main' = there

\* server.start, or its failure: disconnect and return 1.
StartPeerServer ==
    /\ main = "start"
    /\ \/ StartServer /\ Goto("web") /\ UNCHANGED connected
       \/ Goto("return") /\ connected' = FALSE /\ UNCHANGED peerVars
    /\ UNCHANGED <<webVars, download, threads, joining, swapped, sender>>

\* No dashboard asked for or its port taken, or web.start.
StartDashboard ==
    /\ main = "web"
    /\ StartWeb \/ UNCHANGED webVars
    /\ Goto("repl")
    /\ UNCHANGED <<peerVars, callVars>>

\* execute() on the console: a command for the tracker, or a download.
Console ==
    /\ \/ main = "repl" /\ Call("main") /\ Goto("command")
          /\ UNCHANGED <<download, threads, joining, swapped, connected>>
       \/ main = "repl" /\ Goto("repl") /\ \E d \in Downloads : Begin(d)
    /\ UNCHANGED <<peerVars, webVars>>
CommandDone ==
    /\ main = "command" /\ Return("main") /\ Goto("repl")
    /\ UNCHANGED <<peerVars, webVars, download, threads, joining, swapped,
                   connected>>

\* Mutant: the downloads are waited for while the dashboard can start more.
ExitSteps_swapped == <<"wait_all", "web_stop", "disconnect", "server_stop", "return">>

\* What main does after "exit" or the end of the console's input.
ExitSteps == <<"web_stop", "wait_all", "disconnect", "server_stop", "return">>
Done(step) == \E i \in 1..4 : ExitSteps[i] = step /\ Goto(ExitSteps[i + 1])

LeaveConsole ==
    /\ main = "repl" /\ Goto(ExitSteps[1])
    /\ UNCHANGED <<peerVars, webVars, callVars>>

StopDashboard ==
    /\ main = "web_stop"
    /\ IF webStopper = "stopped" THEN Done("web_stop") /\ UNCHANGED webVars
       ELSE (WebRaiseStop \/ WebStopStep) /\ UNCHANGED main
    /\ UNCHANGED <<peerVars, callVars>>

\* wait_all: the vector is swapped out under its lock, then every thread in it
\* is joined.
WaitAll ==
    /\ main = "wait_all"
    /\ IF swapped
       THEN /\ \A d \in joining : download[d] = "ended"
            /\ joining' = {} /\ swapped' = FALSE
            /\ Done("wait_all")
            /\ UNCHANGED threads
       ELSE /\ joining' = threads /\ threads' = {} /\ swapped' = TRUE
            /\ UNCHANGED main
    /\ UNCHANGED <<peerVars, webVars, download, connected, sender>>

\* close(sock_), without the lock of send.
Disconnect ==
    /\ main = "disconnect"
    /\ connected' = FALSE
    /\ Done("disconnect")
    /\ UNCHANGED <<peerVars, webVars, download, threads, joining, swapped, sender>>

StopPeerServer ==
    /\ main = "server_stop"
    /\ IF stopper = "stopped" THEN Done("server_stop") /\ UNCHANGED peerVars
       ELSE (RaiseStop \/ StopStep) /\ UNCHANGED main
    /\ UNCHANGED <<webVars, callVars>>

\* The destructors stop what the failed start left, and find nothing else.
ReturnFromMain ==
    /\ main = "return"
    /\ IF stopper = "stopped" THEN Goto("ended") /\ UNCHANGED peerVars
       ELSE (RaiseStop \/ StopStep) /\ UNCHANGED main
    /\ UNCHANGED <<webVars, callVars>>

MainStep ==
    \/ StartPeerServer \/ StartDashboard \/ CommandDone
    \/ StopDashboard \/ WaitAll \/ Disconnect \/ StopPeerServer \/ ReturnFromMain

-----------------------------------------------------------------------------
PeerStep(A) == A /\ UNCHANGED <<webVars, main, callVars>>

\* A process that has ended stays as it is.
Ended == main = "ended" /\ UNCHANGED vars

Next ==
    \/ MainStep \/ Console \/ LeaveConsole \/ WebStep \/ Ended
    \/ \E d \in Downloads : DownloadStep(d)
    \/ PeerStep(AcceptorStep)
    \/ \E w \in Pool : PeerStep(WorkerStep(w)) \/ PeerStep(WakeSpuriously(w))
    \/ \E c \in Conns : PeerStep(PeerConnects(c))
    \/ \E b \in Tabs : TabConnects(b) /\ UNCHANGED <<peerVars, main, callVars>>

\* Every thread is scheduled.  Downloads end because their sockets time out
\* (Download, RunEnds).  The tracker answers or its connection fails; a peer
\* that has connected sends its request or hangs up, as this program's own
\* downloader does within its timeout, and so does the browser.
Fairness ==
    /\ WF_vars(MainStep) /\ WF_vars(WebStep)
    /\ \A d \in Downloads : WF_vars(DownloadStep(d))
    /\ WF_vars(PeerStep(AcceptorStep))
    /\ \A w \in Pool : WF_vars(PeerStep(WorkerStep(w)))

Spec == Init /\ [][Next]_vars
FairSpec == Spec /\ Fairness

-----------------------------------------------------------------------------
(* Properties. *)

\* TypeOK: types of the state of the process and of its two servers.
TypeOK ==
    /\ PeerTypeOK /\ WebTypeOK
    /\ download \in [Downloads -> {"none", "query", "fetch", "report", "ended"}]
    /\ threads \subseteq Downloads /\ joining \subseteq Downloads
    /\ swapped \in BOOLEAN /\ connected \in BOOLEAN
    /\ sender \in Downloads \cup {"main", "httpd", NoThread}

\* DisconnectedAlone: once main closes the tracker connection, which it does
\* without the lock of send, no thread is in send or can still get there: the
\* dashboard, which can start downloads, has ended, and so has every download,
\* whoever started it and whenever (main.cpp of the client:151-154).
DisconnectedAlone ==
    ~connected =>
        /\ sender = NoThread /\ httpd \in {"off", "done"}
        /\ \A d \in Downloads : download[d] \in {"none", "ended"}
        /\ threads = {}

\* ExitReturns: "exit" ends the process: no lost wake-up, full queue, open
\* browser connection or running download keeps main waiting for ever.
ExitReturns == (main = "web_stop") ~> (main = "ended")

\* PeersAnswered: a peer that connects is served, turned away by stop() or
\* reset by its end, however busy the pool is (peer_server.h:19 "a burst of
\* downloaders cannot create unbounded threads").
PeersAnswered ==
    \A c \in Conns : (sock[c] = "backlog") ~> (sock[c] = "closed")
=============================================================================
