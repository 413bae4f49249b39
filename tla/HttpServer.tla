----------------------------- MODULE HttpServer -----------------------------
(***************************************************************************)
(* The dashboard's web server: one thread that accepts a connection, reads *)
(* the request, runs the route's handler and answers before it accepts the *)
(* next, and stop(), which main calls.  The handlers are in ClientProcess. *)
(*                                                                         *)
(* Only GET /api/status and POST /api/command touch the rest of the        *)
(* client.  The page, a path without a route (404), too long a body (413)  *)
(* or headers, and a browser that hangs up do not.                         *)
(***************************************************************************)
EXTENDS Naturals

CONSTANTS Tabs,    \* connections a browser makes
          NoTab

ASSUME NoTabAssumption == NoTab \notin Tabs

VARIABLES
    page,          \* per connection: "none", "backlog", "open", "closed"
    httpd,         \* the thread: "off", "accept", "got", "serve", "ask", "handle",
                   \* "respond", "failed", "done"
    tab,           \* the connection it has accepted
    webStopping,   \* stopping_
    webListener,   \* listen_fd_: "none", "open", "shut", "closed"
    webStopper     \* where the caller of stop() is: "away", "raised", "shut",
                   \* "stopped"

webVars == <<page, httpd, tab, webStopping, webListener, webStopper>>

WebInit ==
    /\ page = [b \in Tabs |-> "none"]
    /\ httpd = "off" /\ tab = NoTab
    /\ webStopping = FALSE /\ webListener = "none" /\ webStopper = "away"

StartWeb ==
    /\ webListener = "none"
    /\ webListener' = "open"
    /\ httpd' = "accept"
    /\ UNCHANGED <<page, tab, webStopping, webStopper>>

TabConnects(b) ==
    /\ webListener = "open" /\ page[b] = "none"
    /\ page' = [page EXCEPT ![b] = "backlog"]
    /\ UNCHANGED <<httpd, tab, webStopping, webListener, webStopper>>

-----------------------------------------------------------------------------
(* accept_loop and serve. *)

WebAccept ==
    /\ httpd = "accept" /\ webListener = "open"
    /\ \E b \in Tabs : /\ page[b] = "backlog"
                       /\ page' = [page EXCEPT ![b] = "open"]
                       /\ tab' = b
    /\ httpd' = "got"
    /\ UNCHANGED <<webStopping, webListener, webStopper>>

\* accept() fails: for good once the listener is shut, or because the browser
\* has aborted the connection.
WebAcceptFails ==
    /\ httpd = "accept"
    /\ \/ webListener = "shut" /\ UNCHANGED page
       \/ /\ webListener = "open"
          /\ \E b \in Tabs : /\ page[b] = "backlog"
                             /\ page' = [page EXCEPT ![b] = "closed"]
    /\ httpd' = "failed"
    /\ UNCHANGED <<tab, webStopping, webListener, webStopper>>

WebAfterFailure ==
    /\ httpd = "failed"
    /\ httpd' = IF webStopping THEN "done" ELSE "accept"
    /\ UNCHANGED <<page, tab, webStopping, webListener, webStopper>>

CloseTab(there) ==
    /\ page' = [page EXCEPT ![tab] = "closed"]
    /\ tab' = NoTab
    /\ httpd' = there
    /\ UNCHANGED <<webStopping, webListener, webStopper>>

WebTurnAway == httpd = "got" /\ webStopping /\ CloseTab("done")

WebBegin ==
    /\ httpd = "got" /\ ~webStopping
    /\ httpd' = "serve"
    /\ UNCHANGED <<page, tab, webStopping, webListener, webStopper>>

\* read_headers and the body, which have no timeout, return when the browser
\* has sent them or hung up; then the route is looked up.  The request and
\* whether somebody is logged in decide if its handler has to ask the tracker.
WebRead ==
    /\ httpd = "serve"
    /\ httpd' \in {"ask", "handle", "respond"}
    /\ UNCHANGED <<page, tab, webStopping, webListener, webStopper>>

\* The handler has returned: the answer is sent and the connection closed.
WebRespond == httpd = "respond" /\ CloseTab("accept")

HttpStep ==
    \/ WebAccept \/ WebAcceptFails \/ WebAfterFailure \/ WebTurnAway
    \/ WebBegin \/ WebRead \/ WebRespond

-----------------------------------------------------------------------------
(* stop(). *)

WebRaiseStop ==
    /\ webStopper = "away"
    /\ webStopping' = TRUE
    /\ webStopper' = "raised"
    /\ UNCHANGED <<page, httpd, tab, webListener>>

WebShutListener ==
    /\ webStopper = "raised"
    /\ webListener' = IF webListener = "open" THEN "shut" ELSE webListener
    /\ page' = [b \in Tabs |-> IF page[b] = "backlog" THEN "closed" ELSE page[b]]
    /\ webStopper' = "shut"
    /\ UNCHANGED <<httpd, tab, webStopping>>

\* thread_.join(), then close(listen_fd_).
WebClose ==
    /\ webStopper = "shut" /\ httpd \in {"off", "done"}
    /\ webListener' = IF webListener = "shut" THEN "closed" ELSE webListener
    /\ webStopper' = "stopped"
    /\ UNCHANGED <<page, httpd, tab, webStopping>>

WebStopStep == WebShutListener \/ WebClose

WebTypeOK ==
    /\ page \in [Tabs -> {"none", "backlog", "open", "closed"}]
    /\ httpd \in {"off", "accept", "got", "serve", "ask", "handle",
                  "respond", "failed", "done"}
    /\ tab \in Tabs \cup {NoTab}
    /\ webStopping \in BOOLEAN
    /\ webListener \in {"none", "open", "shut", "closed"}
    /\ webStopper \in {"away", "raised", "shut", "stopped"}
=============================================================================
