------------------------------ MODULE Sessions ------------------------------
(***************************************************************************)
(* Who is logged in, as the three parties to a session see it: the client  *)
(* process (CommandProcessor and TrackerClient, shared by the console and  *)
(* the dashboard thread), the tracker's connection thread (managepeer and  *)
(* dispatch), and the tables every connection thread shares (g_sessions    *)
(* and the connected flag of g_state's peers).                             *)
(*                                                                         *)
(* A client process has one connection for life, so c names both.  A       *)
(* tracker thread handles a login as two locked calls, g_state.login and   *)
(* g_sessions.create, a logout and a dropped connection likewise; stage    *)
(* says between which two it is.  The commands other than login and logout *)
(* are all "command" here: what they share is the lookup of their token.   *)
(* Their effects are in TrackerState.                                      *)
(***************************************************************************)
EXTENDS Naturals, FiniteSets

CONSTANTS Conns,       \* client processes, each with its connection
          Threads,     \* the threads of a client that execute commands
          Users,
          Holdings,    \* who may know which passwords: the possible accounts
          NoUser, Offline, NoMsg,
          MaxLogins,   \* bound on login requests, and so on the tokens
          MaxExpiries, \* bound on the tokens that outlive kSessionTtl
          MaxDry       \* bound on random_hex failing for want of entropy

ASSUME HoldingsAssumption == Holdings \subseteq [Conns -> SUBSET Users]
ASSUME NoValues == NoUser \notin Users /\ Offline \notin Conns
ASSUME SizesAssumption ==
    /\ IsFiniteSet(Conns) /\ IsFiniteSet(Threads)
    /\ MaxLogins \in Nat /\ MaxExpiries \in Nat /\ MaxDry \in Nat

NoToken == 0               \* the empty string
Tokens == 1..MaxLogins     \* in the order random_hex makes them up

VARIABLES
    \* the tracker
    addr,           \* peers_[u]: the client u is advertised at, or Offline
    sessions,       \* sessions_: the user of each live token, or NoUser
    expired,        \* tokens past their expires_at
    issued,         \* the number of tokens made up so far
    stage,          \* per connection thread: "recv", "login", "logout", "drop"
    session_user, session_token,   \* locals of managepeer
    work,           \* the user the thread is logging in or out
    \* the wire
    conn,           \* "closed", "open", or "gone": the client has hung up
    inbox, outbox,  \* the request and the reply under way
    \* the client
    client,         \* peername_, connected_ and token_
    pc,             \* per client thread: where execute() is
    accounts,       \* the accounts each client's user has the password of;
                    \* it never changes
    logins, expiries, dry   \* counters for the bounds

tables == <<addr, sessions, expired, issued>>
locals == <<stage, session_user, session_token, work>>
bounds == <<accounts, logins, expiries, dry>>
vars == <<tables, locals, conn, inbox, outbox, client, pc, bounds>>

LoggedOut == [peername |-> NoUser, connected |-> FALSE, token |-> NoToken]
Idle == [at |-> "idle", verb |-> "none", arg |-> NoMsg]
NoThread == [th \in Threads |-> Idle]

Init ==
    /\ addr = [u \in Users |-> Offline]
    /\ sessions = [k \in Tokens |-> NoUser]
    /\ expired = {} /\ issued = 0
    /\ stage = [c \in Conns |-> "recv"]
    /\ session_user = [c \in Conns |-> NoUser]
    /\ session_token = [c \in Conns |-> NoToken]
    /\ work = [c \in Conns |-> NoUser]
    /\ conn = [c \in Conns |-> "closed"]
    /\ inbox = [c \in Conns |-> NoMsg]
    /\ outbox = [c \in Conns |-> NoMsg]
    /\ client = [c \in Conns |-> LoggedOut]
    /\ pc = [c \in Conns |-> NoThread]
    /\ accounts \in Holdings
    /\ logins = 0 /\ expiries = 0 /\ dry = 0

-----------------------------------------------------------------------------
\* The user of a token in sessions_, expired or not, as destroy sees it.
Owner(k) == IF k \in Tokens THEN sessions[k] ELSE NoUser
destroy(k) == IF k \in Tokens THEN [sessions EXCEPT ![k] = NoUser] ELSE sessions

(* The client process. *)

\* A client starts and connects; the accept loop gives it a new thread.
Connect(c) ==
    /\ conn[c] = "closed"
    /\ conn' = [conn EXCEPT ![c] = "open"]
    /\ UNCHANGED <<tables, locals, inbox, outbox, client, pc, bounds>>

\* execute("login u pass") gets past the check that no session is active.
BeginLogin(c, th, u) ==
    /\ conn[c] = "open" /\ pc[c][th].at = "idle"
    /\ ~client[c].connected /\ logins < MaxLogins
    /\ pc' = [pc EXCEPT ![c][th] = [at |-> "send", verb |-> "login", arg |-> u]]
    /\ logins' = logins + 1
    /\ UNCHANGED <<tables, locals, conn, inbox, outbox, client, accounts,
                   expiries, dry>>

\* execute() of any other verb gets past require_login ...
BeginCommand(c, th, verb) ==
    /\ conn[c] = "open" /\ pc[c][th].at = "idle"
    /\ client[c].connected
    /\ pc' = [pc EXCEPT ![c][th] = [at |-> "token", verb |-> verb, arg |-> NoMsg]]
    /\ UNCHANGED <<tables, locals, conn, inbox, outbox, client, bounds>>

\* ... and copies token_ into the command, without a lock.
ReadToken(c, th) ==
    /\ pc[c][th].at = "token"
    /\ pc' = [pc EXCEPT ![c][th] = [at |-> "send", verb |-> @.verb,
                                    arg |-> client[c].token]]
    /\ UNCHANGED <<tables, locals, conn, inbox, outbox, client, bounds>>

\* TrackerClient::send holds its mutex until the reply is in.
Send(c, th) ==
    /\ conn[c] = "open" /\ pc[c][th].at = "send"
    /\ \A o \in Threads : pc[c][o].at # "wait"
    /\ inbox' = [inbox EXCEPT ![c] = [verb |-> pc[c][th].verb,
                                      arg |-> pc[c][th].arg]]
    /\ pc' = [pc EXCEPT ![c][th] = [@ EXCEPT !.at = "wait"]]
    /\ UNCHANGED <<tables, locals, conn, outbox, client, bounds>>

Receive(c, th) ==
    /\ pc[c][th].at = "wait" /\ outbox[c] # NoMsg
    /\ outbox' = [outbox EXCEPT ![c] = NoMsg]
    /\ pc' = [pc EXCEPT ![c][th] =
                 IF @.verb = "login"
                 THEN [at |-> "apply", verb |-> "login",
                       arg |-> [user |-> @.arg, token |-> outbox[c].token]]
                 ELSE [@ EXCEPT !.at = "apply"]]
    /\ UNCHANGED <<tables, locals, conn, inbox, client, bounds>>

\* Mutant: clear_session is forgotten on logout.
Apply_stays(c, th) ==
    /\ pc[c][th].at = "apply"
    /\ client' = [client EXCEPT ![c] =
          IF pc[c][th].verb = "login" /\ pc[c][th].arg.token # NoToken
          THEN [peername |-> pc[c][th].arg.user, connected |-> TRUE,
                token |-> pc[c][th].arg.token]
          ELSE @]
    /\ pc' = [pc EXCEPT ![c][th] = Idle]
    /\ UNCHANGED <<tables, locals, conn, inbox, outbox, bounds>>

\* set_session on "OK <token>"; clear_session on any reply to a logout.
Apply(c, th) ==
    /\ pc[c][th].at = "apply"
    /\ client' = [client EXCEPT ![c] =
          IF pc[c][th].verb = "login" /\ pc[c][th].arg.token # NoToken
          THEN [peername |-> pc[c][th].arg.user, connected |-> TRUE,
                token |-> pc[c][th].arg.token]
          ELSE IF pc[c][th].verb = "logout" THEN LoggedOut
          ELSE @]
    /\ pc' = [pc EXCEPT ![c][th] = Idle]
    /\ UNCHANGED <<tables, locals, conn, inbox, outbox, bounds>>

\* The process exits or dies at any point.  A request it had sent is read
\* before the end of the stream, or is lost with the connection.
Exit(c) ==
    /\ conn[c] = "open"
    /\ conn' = [conn EXCEPT ![c] = "gone"]
    /\ \/ UNCHANGED inbox
       \/ inbox' = [inbox EXCEPT ![c] = NoMsg]
    /\ outbox' = [outbox EXCEPT ![c] = NoMsg]
    /\ client' = [client EXCEPT ![c] = LoggedOut]
    /\ pc' = [pc EXCEPT ![c] = NoThread]
    /\ UNCHANGED <<tables, locals, bounds>>

ClientStep(c) ==
    \E th \in Threads : ReadToken(c, th) \/ Send(c, th) \/ Receive(c, th) \/ Apply(c, th)

-----------------------------------------------------------------------------
(* The tracker's thread for connection c. *)

\* send_framed; a reply to a client that has hung up goes nowhere.
Reply(c, ok, token) ==
    outbox' = IF conn[c] = "open"
              THEN [outbox EXCEPT ![c] = [ok |-> ok, token |-> token]]
              ELSE outbox

Request(c, verb) ==
    /\ stage[c] = "recv" /\ inbox[c] # NoMsg /\ inbox[c].verb = verb
    /\ inbox' = [inbox EXCEPT ![c] = NoMsg]

ForgetSession(c) ==
    /\ session_user' = [session_user EXCEPT ![c] = NoUser]
    /\ session_token' = [session_token EXCEPT ![c] = NoToken]

\* Mutants of g_state.login: arguments swapped, connected never set.
LoginAccepted_swapped(c) ==
    /\ Request(c, "login")
    /\ inbox[c].arg \in accounts[c]
    /\ addr' = [addr EXCEPT ![inbox[c].arg] = inbox[c].arg]
    /\ stage' = [stage EXCEPT ![c] = "login"]
    /\ work' = [work EXCEPT ![c] = inbox[c].arg]
    /\ UNCHANGED <<sessions, expired, issued, session_user, session_token, conn,
                   outbox, client, pc, bounds>>
LoginAccepted_unlisted(c) ==
    /\ Request(c, "login")
    /\ inbox[c].arg \in accounts[c]
    /\ stage' = [stage EXCEPT ![c] = "login"]
    /\ work' = [work EXCEPT ![c] = inbox[c].arg]
    /\ UNCHANGED <<tables, session_user, session_token, conn, outbox, client, pc,
                   bounds>>

\* g_state.login: the password was wrong, or u is now advertised at c.
LoginRefused(c) ==
    /\ Request(c, "login")
    /\ Reply(c, FALSE, NoToken)
    /\ UNCHANGED <<tables, locals, conn, client, pc, bounds>>
LoginAccepted(c) ==
    /\ Request(c, "login")
    /\ inbox[c].arg \in accounts[c]
    /\ addr' = [addr EXCEPT ![inbox[c].arg] = c]
    /\ stage' = [stage EXCEPT ![c] = "login"]
    /\ work' = [work EXCEPT ![c] = inbox[c].arg]
    /\ UNCHANGED <<sessions, expired, issued, session_user, session_token, conn,
                   outbox, client, pc, bounds>>

\* g_sessions.create, and managepeer notes the session.
SessionCreated(c) ==
    /\ stage[c] = "login"
    /\ issued' = issued + 1
    /\ sessions' = [sessions EXCEPT ![issued + 1] = work[c]]
    /\ session_user' = [session_user EXCEPT ![c] = work[c]]
    /\ session_token' = [session_token EXCEPT ![c] = issued + 1]
    /\ stage' = [stage EXCEPT ![c] = "recv"]
    /\ work' = [work EXCEPT ![c] = NoUser]
    /\ Reply(c, TRUE, issued + 1)
    /\ UNCHANGED <<addr, expired, conn, inbox, client, pc, bounds>>

\* random_hex failed: the reply is an error and no session is noted.
SessionFailed(c) ==
    /\ stage[c] = "login" /\ dry < MaxDry
    /\ dry' = dry + 1
    /\ stage' = [stage EXCEPT ![c] = "recv"]
    /\ work' = [work EXCEPT ![c] = NoUser]
    /\ Reply(c, FALSE, NoToken)
    /\ UNCHANGED <<tables, session_user, session_token, conn, inbox, client, pc,
                   accounts, logins, expiries>>

\* logout: destroy finds no such token.  managepeer forgets the session anyway.
LogoutRefused(c) ==
    /\ Request(c, "logout")
    /\ Owner(inbox[c].arg) = NoUser
    /\ ForgetSession(c)
    /\ Reply(c, FALSE, NoToken)
    /\ UNCHANGED <<tables, stage, work, conn, client, pc, bounds>>
LogoutBegins(c) ==
    /\ Request(c, "logout")
    /\ Owner(inbox[c].arg) # NoUser
    /\ sessions' = destroy(inbox[c].arg)
    /\ stage' = [stage EXCEPT ![c] = "logout"]
    /\ work' = [work EXCEPT ![c] = Owner(inbox[c].arg)]
    /\ UNCHANGED <<addr, expired, issued, session_user, session_token, conn,
                   outbox, client, pc, bounds>>

\* g_state.logout.
LogoutEnds(c) ==
    /\ stage[c] = "logout"
    /\ addr' = [addr EXCEPT ![work[c]] = Offline]
    /\ stage' = [stage EXCEPT ![c] = "recv"]
    /\ work' = [work EXCEPT ![c] = NoUser]
    /\ ForgetSession(c)
    /\ Reply(c, TRUE, NoToken)
    /\ UNCHANGED <<sessions, expired, issued, conn, inbox, client, pc, bounds>>

\* Any other verb: lookup, which erases a token it finds expired.
Command(c) ==
    /\ Request(c, "command")
    /\ LET k == inbox[c].arg IN
         /\ sessions' = IF k \in expired THEN destroy(k) ELSE sessions
         /\ Reply(c, Owner(k) # NoUser /\ k \notin expired, NoToken)
    /\ UNCHANGED <<addr, expired, issued, locals, conn, client, pc, bounds>>

\* Mutants: a dropped connection does not revoke its token; a failed
\* recv_framed is taken for an empty command.
DropBegins_kept(c) ==
    /\ conn[c] = "gone" /\ stage[c] = "recv" /\ inbox[c] = NoMsg
    /\ stage' = [stage EXCEPT ![c] = "drop"]
    /\ UNCHANGED <<tables, session_user, session_token, work, conn, inbox,
                   outbox, client, pc, bounds>>

DropBegins_ignored(c) ==
    /\ conn[c] = "gone" /\ stage[c] = "recv" /\ inbox[c] = NoMsg
    /\ UNCHANGED vars

\* recv_framed fails: the token is revoked ...
DropBegins(c) ==
    /\ conn[c] = "gone" /\ stage[c] = "recv" /\ inbox[c] = NoMsg
    /\ sessions' = destroy(session_token[c])
    /\ stage' = [stage EXCEPT ![c] = "drop"]
    /\ UNCHANGED <<addr, expired, issued, session_user, session_token, work,
                   conn, inbox, outbox, client, pc, bounds>>

\* Mutant: handle_disconnect is not called.
DropEnds_listed(c) ==
    /\ stage[c] = "drop"
    /\ stage' = [stage EXCEPT ![c] = "recv"]
    /\ conn' = [conn EXCEPT ![c] = "closed"]
    /\ ForgetSession(c)
    /\ UNCHANGED <<tables, work, inbox, outbox, client, pc, bounds>>

\* ... then handle_disconnect clears the connected flag of session_user, and
\* the thread ends.
DropEnds(c) ==
    /\ stage[c] = "drop"
    /\ addr' = IF session_user[c] = NoUser THEN addr
               ELSE [addr EXCEPT ![session_user[c]] = Offline]
    /\ stage' = [stage EXCEPT ![c] = "recv"]
    /\ conn' = [conn EXCEPT ![c] = "closed"]
    /\ ForgetSession(c)
    /\ UNCHANGED <<sessions, expired, issued, work, inbox, outbox, client, pc,
                   bounds>>

TrackerStep(c) ==
    \/ LoginRefused(c) \/ LoginAccepted(c) \/ SessionCreated(c)
    \/ SessionFailed(c) \/ LogoutRefused(c) \/ LogoutBegins(c)
    \/ LogoutEnds(c) \/ Command(c) \/ DropBegins(c) \/ DropEnds(c)

\* kSessionTtl passes since token k was issued.
Expire(k) ==
    /\ k <= issued /\ k \notin expired /\ expiries < MaxExpiries
    /\ expired' = expired \cup {k}
    /\ expiries' = expiries + 1
    /\ UNCHANGED <<addr, sessions, issued, locals, conn, inbox, outbox, client,
                   pc, accounts, logins, dry>>

Next ==
    \/ \E c \in Conns :
          \/ Connect(c)
          \/ \E th \in Threads, u \in Users : BeginLogin(c, th, u)
          \/ \E th \in Threads, verb \in {"logout", "command"} :
                BeginCommand(c, th, verb)
          \/ ClientStep(c)
          \/ Exit(c)
          \/ TrackerStep(c)
    \/ \E k \in Tokens : Expire(k)

\* Connection threads are never starved, and a client's threads finish what
\* they have begun.  Nobody is obliged to connect, to type or to leave.
Fairness == \A c \in Conns : WF_vars(TrackerStep(c)) /\ WF_vars(ClientStep(c))

Spec == Init /\ [][Next]_vars
FairSpec == Spec /\ Fairness

-----------------------------------------------------------------------------
(* Properties. *)

Requests == [verb : {"login"}, arg : Users]
            \cup [verb : {"logout", "command"}, arg : Tokens \cup {NoToken}]
Replies == [ok : BOOLEAN, token : Tokens \cup {NoToken}]
ASSUME NoMsgAssumption == NoMsg \notin Requests \cup Replies

\* TypeOK: the types of the tracker's and the clients' state; session_user and
\* session_token of managepeer hold values of their own kind.
TypeOK ==
    /\ addr \in [Users -> Conns \cup {Offline}]
    /\ sessions \in [Tokens -> Users \cup {NoUser}]
    /\ expired \subseteq Tokens /\ issued \in 0..MaxLogins
    /\ stage \in [Conns -> {"recv", "login", "logout", "drop"}]
    /\ session_user \in [Conns -> Users \cup {NoUser}]
    /\ session_token \in [Conns -> Tokens \cup {NoToken}]
    /\ work \in [Conns -> Users \cup {NoUser}]
    /\ conn \in [Conns -> {"closed", "open", "gone"}]
    /\ inbox \in [Conns -> Requests \cup {NoMsg}]
    /\ outbox \in [Conns -> Replies \cup {NoMsg}]
    /\ client \in [Conns -> [peername : Users \cup {NoUser},
                             connected : BOOLEAN,
                             token : Tokens \cup {NoToken}]]
    /\ accounts \in Holdings /\ logins \in 0..MaxLogins
    /\ expiries \in 0..MaxExpiries /\ dry \in 0..MaxDry

\* NoDeadAddress: an address the tracker hands out belongs to a client whose
\* connection it has not yet seen end: "Downloaders are therefore never handed
\* a dead address" (PROTOCOL.md:110).
NoDeadAddress == \A u \in Users : addr[u] # Offline => conn[addr[u]] # "closed"

\* LiveAddresses: the same as long as no token has expired and random_hex has
\* not failed, also when two clients log in to one account in any order.
Undisturbed == expired = {} /\ dry = 0
LiveAddresses == Undisturbed => NoDeadAddress

\* TokensRevoked: every token the tracker still honours is one a connection
\* thread will revoke when its client logs out or is gone: "Tokens are revoked
\* on logout and on disconnect" (DECISIONS.md:56).
TokensRevoked ==
    \A k \in Tokens : Owner(k) # NoUser => \E c \in Conns : session_token[c] = k

\* Nothing is under way on connection c.
Quiet(c) ==
    /\ stage[c] = "recv" /\ inbox[c] = NoMsg /\ outbox[c] = NoMsg
    /\ \A th \in Threads : pc[c][th].at = "idle"

\* ClientAgrees: a client that shows a user as logged in holds the token its
\* connection thread would revoke, for the user it would disconnect, however
\* requests, expiry and failed logins interleaved (commands.cpp:99, main.cpp
\* of the tracker:297).
ClientAgrees ==
    \A c \in Conns :
        (Quiet(c) /\ client[c].connected) =>
            /\ session_user[c] = client[c].peername
            /\ session_token[c] = client[c].token

\* Listed: with every hang-up dealt with, and nobody's account in use by two
\* clients, the user of a client that holds a live token is advertised: a peer
\* that dropped is left out only "until it reconnects" (PROTOCOL.md:110).
NoneShared == \A c, d \in Conns : c = d \/ accounts[c] \cap accounts[d] = {}
Listed ==
    (NoneShared /\ \A c \in Conns : Quiet(c) /\ conn[c] # "gone") =>
        \A c \in Conns :
            Owner(client[c].token) # NoUser => addr[client[c].peername] # Offline

\* GoneIsUnlisted: when the last client has hung up, nobody stays advertised,
\* unless a client comes back first, a token expires or random_hex fails.
GoneIsUnlisted ==
    \A u \in Users :
        (\A c \in Conns : conn[c] # "open")
        ~> (addr[u] = Offline \/ ~Undisturbed \/ \E c \in Conns : conn[c] = "open")
=============================================================================
