--------------------------- MODULE SessionsProofs ---------------------------
(***************************************************************************)
(* Proofs about Sessions, for any clients, users and accounts, and for any *)
(* number of logins, expired tokens and failures of random_hex.            *)
(*                                                                         *)
(*   TypeInv   types, and the logins under way that may still get a token. *)
(*   TalkInv   how far the client, the wire and the connection thread are  *)
(*             with the one request there can be.                          *)
(*   TokenInv  whose every token is, and who will revoke it.               *)
(*   AddrInv   which connection will clear an address.                     *)
(*                                                                         *)
(* Each rests on the one before it.                                        *)
(***************************************************************************)
EXTENDS Sessions, FiniteSetTheorems, TLAPS

\* What a client's thread can be in the middle of (execute, TrackerClient).
Steps ==
    {Idle}
    \cup [at : {"token"}, verb : {"logout", "command"}, arg : {NoMsg}]
    \cup [at : {"send", "wait"}, verb : {"login"}, arg : Users]
    \cup [at : {"send", "wait", "apply"}, verb : {"logout", "command"},
          arg : Tokens \cup {NoToken}]
    \cup [at : {"apply"}, verb : {"login"},
          arg : [user : Users, token : Tokens \cup {NoToken}]]

\* The logins under way that may still get a token: typed in, received by the
\* tracker, or between g_state.login and g_sessions.create.
ToSend == {x \in Conns \X Threads :
             pc[x[1]][x[2]].at = "send" /\ pc[x[1]][x[2]].verb = "login"}
Arrived == {c \in Conns : inbox[c] # NoMsg /\ inbox[c].verb = "login"}
Creating == {c \in Conns : stage[c] = "login"}
Counted ==
    issued + Cardinality(ToSend) + Cardinality(Arrived) + Cardinality(Creating)
      <= logins

PcOK == pc \in [Conns -> [Threads -> Steps]]
TypeInv == TypeOK /\ PcOK /\ Counted

-----------------------------------------------------------------------------
(* Types and the count of tokens. *)

\* Cardinalities of sets that differ by one element.
LEMMA Counting ==
  ASSUME NEW S, IsFiniteSet(S), NEW T, NEW x
  PROVE  /\ Cardinality(S) \in Nat
         /\ T \subseteq S => /\ IsFiniteSet(T) /\ Cardinality(T) \in Nat
                             /\ Cardinality(T) <= Cardinality(S)
         /\ T \subseteq S \cup {x} => /\ IsFiniteSet(T) /\ Cardinality(T) \in Nat
                                      /\ Cardinality(T) <= Cardinality(S) + 1
         /\ x \in S /\ T \subseteq S \ {x}
               => /\ IsFiniteSet(T) /\ Cardinality(T) \in Nat
                  /\ Cardinality(T) + 1 <= Cardinality(S)
  <1>1. Cardinality(S) \in Nat
    BY FS_CardinalityType
  <1>2. T \subseteq S => IsFiniteSet(T) /\ Cardinality(T) \in Nat
                         /\ Cardinality(T) <= Cardinality(S)
    BY FS_Subset, FS_CardinalityType
  <1>3. IsFiniteSet(S \cup {x}) /\ Cardinality(S \cup {x}) \in Nat
        /\ Cardinality(S \cup {x}) <= Cardinality(S) + 1
    BY <1>1, FS_AddElement, FS_CardinalityType
  <1>4. ASSUME T \subseteq S \cup {x}
        PROVE  IsFiniteSet(T) /\ Cardinality(T) \in Nat
               /\ Cardinality(T) <= Cardinality(S) + 1
    <2>1. IsFiniteSet(T) /\ Cardinality(T) <= Cardinality(S \cup {x})
      BY <1>3, <1>4, FS_Subset
    <2>2. Cardinality(T) \in Nat
      BY <2>1, FS_CardinalityType
    <2> QED
      BY <1>1, <1>3, <2>1, <2>2
  <1>5. IsFiniteSet(S \ {x})
    BY FS_RemoveElement
  <1>6. ASSUME x \in S, T \subseteq S \ {x}
        PROVE  IsFiniteSet(T) /\ Cardinality(T) \in Nat
               /\ Cardinality(T) + 1 <= Cardinality(S)
    <2>1. Cardinality(S \ {x}) = Cardinality(S) - 1
      BY <1>6, FS_RemoveElement
    <2>2. IsFiniteSet(T) /\ Cardinality(T) <= Cardinality(S \ {x})
      BY <1>5, <1>6, FS_Subset
    <2>3. Cardinality(T) \in Nat
      BY <2>2, FS_CardinalityType
    <2> QED
      BY <1>1, <2>1, <2>2, <2>3
  <1> QED
    BY <1>1, <1>2, <1>4, <1>6

\* The logins under way can be counted.
LEMMA Finite ==
  /\ IsFiniteSet(ToSend) /\ IsFiniteSet(Arrived) /\ IsFiniteSet(Creating)
  /\ Cardinality(ToSend) \in Nat /\ Cardinality(Arrived) \in Nat
  /\ Cardinality(Creating) \in Nat
  <1>1. IsFiniteSet(Conns \X Threads)
    BY SizesAssumption, FS_Product
  <1>2. /\ ToSend \in SUBSET (Conns \X Threads)
        /\ Arrived \in SUBSET Conns /\ Creating \in SUBSET Conns
    BY DEF ToSend, Arrived, Creating
  <1>3. IsFiniteSet(ToSend) /\ IsFiniteSet(Arrived) /\ IsFiniteSet(Creating)
    BY <1>1, <1>2, SizesAssumption, FS_Subset
  <1> QED
    BY <1>3, FS_CardinalityType

\* No login begins or gets further.
LEMMA FewerLogins ==
  ASSUME TypeInv, ToSend' \subseteq ToSend, Arrived' \subseteq Arrived,
         Creating' \subseteq Creating, issued' = issued, logins' = logins
  PROVE  Counted'
  <1>1. issued \in Nat /\ logins \in Nat
    BY SizesAssumption DEF TypeInv, TypeOK
  <1> HIDE DEF ToSend, Arrived, Creating
  <1>2. /\ Cardinality(ToSend') \in Nat /\ Cardinality(ToSend') <= Cardinality(ToSend)
        /\ Cardinality(Arrived') \in Nat /\ Cardinality(Arrived') <= Cardinality(Arrived)
        /\ Cardinality(Creating') \in Nat /\ Cardinality(Creating') <= Cardinality(Creating)
    BY Finite, Counting
  <1> QED
    BY <1>1, <1>2, Finite DEF TypeInv, Counted

\* The steps of a client's thread (execute, TrackerClient::send).
LEMMA ClientTypeStep ==
  ASSUME TypeInv, NEW c \in Conns, NEW th \in Threads, 
         \/ \E u \in Users : BeginLogin(c, th, u)
         \/ \E verb \in {"logout", "command"} : BeginCommand(c, th, verb)
         \/ ReadToken(c, th) \/ Send(c, th) \/ Receive(c, th) \/ Apply(c, th)
  PROVE  TypeInv'
  <1>0. TypeOK /\ PcOK /\ pc[c][th] \in Steps
    BY DEF TypeInv, PcOK
  <1>2. ASSUME NEW u \in Users, BeginLogin(c, th, u)
        PROVE  TypeInv'
    <2>1. TypeOK'
      BY <1>0, <1>2, SizesAssumption DEF TypeOK, BeginLogin, tables, locals
    <2>2. PcOK'
      BY <1>0, <1>2 DEF PcOK, BeginLogin, Steps
    <2>3. /\ ToSend' \subseteq ToSend \cup {<<c, th>>}
          /\ Arrived' = Arrived /\ Creating' = Creating /\ issued' = issued
      BY <1>0, <1>2 DEF BeginLogin, tables, locals, ToSend, Arrived, Creating, PcOK
    <2>4. Counted'
      <3>1. /\ Cardinality(ToSend') \in Nat
            /\ Cardinality(ToSend') <= Cardinality(ToSend) + 1
        BY <2>3, Finite, Counting
      <3>2. issued \in Nat /\ logins \in Nat /\ logins' = logins + 1
        BY <1>0, <1>2, SizesAssumption DEF TypeOK, BeginLogin
      <3>3. /\ issued + Cardinality(ToSend) + Cardinality(Arrived)
               + Cardinality(Creating) <= logins
            /\ Cardinality(Arrived') = Cardinality(Arrived)
            /\ Cardinality(Creating') = Cardinality(Creating)
        BY <2>3 DEF TypeInv, Counted
      <3> HIDE DEF ToSend, Arrived, Creating
      <3> QED
        BY <2>3, <3>1, <3>2, <3>3, Finite DEF Counted
    <2> QED
      BY <2>1, <2>2, <2>4 DEF TypeInv
  <1>3. ASSUME NEW verb \in {"logout", "command"}, BeginCommand(c, th, verb)
        PROVE  TypeInv'
    <2>1. TypeOK'
      BY <1>0, <1>3 DEF TypeOK, BeginCommand, tables, locals, bounds
    <2>2. PcOK'
      BY <1>0, <1>3 DEF PcOK, BeginCommand, Steps
    <2>3. Counted'
      BY <1>0, <1>3, FewerLogins
      DEF BeginCommand, tables, locals, bounds, ToSend, Arrived, Creating, PcOK
    <2> QED
      BY <2>1, <2>2, <2>3 DEF TypeInv
  <1>4. CASE ReadToken(c, th)
    <2>1. TypeOK'
      BY <1>0, <1>4 DEF TypeOK, ReadToken, tables, locals, bounds
    <2>2. pc[c][th].at = "token" /\ pc[c][th].verb \in {"logout", "command"}
      BY <1>0, <1>4 DEF ReadToken, Steps, Idle
    <2>3. pc' = [pc EXCEPT ![c][th] = [at |-> "send", verb |-> pc[c][th].verb,
                                       arg |-> client[c].token]]
      BY <1>4 DEF ReadToken
    <2>4. PcOK'
      BY <1>0, <2>2, <2>3 DEF PcOK, Steps, TypeOK
    <2>5. Counted'
      BY <1>0, <1>4, <2>2, <2>3, FewerLogins
      DEF ReadToken, tables, locals, bounds, ToSend, Arrived, Creating, PcOK
    <2> QED
      BY <2>1, <2>4, <2>5 DEF TypeInv
  <1>5. CASE Send(c, th)
    <2> DEFINE m == [verb |-> pc[c][th].verb, arg |-> pc[c][th].arg]
    <2>1. m \in Requests
      BY <1>0, <1>5 DEF Send, Steps, Idle, Requests
    <2>2. inbox' = [inbox EXCEPT ![c] = m]
      BY <1>5 DEF Send
    <2> HIDE DEF m
    <2>3. inbox' \in [Conns -> Requests \cup {NoMsg}]
      BY <1>0, <2>1, <2>2 DEF TypeOK
    <2>4. TypeOK'
      BY <1>0, <1>5, <2>3 DEF TypeOK, Send, tables, locals, bounds
    <2>5. pc' = [pc EXCEPT ![c][th] = [at |-> "wait", verb |-> pc[c][th].verb,
                                       arg |-> pc[c][th].arg]]
      <3>1. [pc[c][th] EXCEPT !.at = "wait"] =
               [at |-> "wait", verb |-> pc[c][th].verb, arg |-> pc[c][th].arg]
        BY <1>0 DEF Steps, Idle
      <3> QED
        BY <1>5, <3>1 DEF Send
    <2>6. PcOK'
      BY <1>0, <1>5, <2>5 DEF PcOK, Send, Steps, Idle
    <2>7. Creating' = Creating /\ issued' = issued /\ logins' = logins
      BY <1>5 DEF Send, tables, locals, bounds, Creating
    <2>8. Counted'
      <3>1. CASE pc[c][th].verb = "login"
        <4>1. /\ <<c, th>> \in ToSend /\ ToSend' \subseteq ToSend \ {<<c, th>>}
              /\ Arrived' \subseteq Arrived \cup {c}
          BY <1>0, <1>5, <2>2, <2>5, <3>1 DEF Send, ToSend, Arrived, PcOK, TypeOK
        <4>2. /\ Cardinality(ToSend') \in Nat
              /\ Cardinality(ToSend') + 1 <= Cardinality(ToSend)
              /\ Cardinality(Arrived') \in Nat
              /\ Cardinality(Arrived') <= Cardinality(Arrived) + 1
          BY <4>1, Finite, Counting
        <4>3. issued \in Nat /\ logins \in Nat
          BY <1>0, SizesAssumption DEF TypeOK
        <4> QED
          BY <2>7, <4>2, <4>3, Finite DEF TypeInv, Counted
      <3>2. CASE pc[c][th].verb # "login"
        <4>1. ToSend' \subseteq ToSend /\ Arrived' \subseteq Arrived
          BY <1>0, <2>2, <2>5, <3>2 DEF ToSend, Arrived, PcOK, TypeOK, m
        <4> QED
          BY <2>7, <4>1, FewerLogins
      <3> QED
        BY <3>1, <3>2
    <2> QED
      BY <2>4, <2>6, <2>8 DEF TypeInv
  <1>6. CASE Receive(c, th)
    <2>1. TypeOK'
      BY <1>0, <1>6 DEF TypeOK, Receive, tables, locals, bounds
    <2>2. outbox[c] \in Replies
      BY <1>0, <1>6 DEF TypeOK, Receive
    <2>3. PICK q \in Steps : q.at = "apply" /\ pc' = [pc EXCEPT ![c][th] = q]
      <3>1. CASE pc[c][th].verb = "login"
        <4>1. [at |-> "apply", verb |-> "login",
               arg |-> [user |-> pc[c][th].arg, token |-> outbox[c].token]] \in Steps
          BY <1>0, <1>6, <2>2, <3>1 DEF Receive, Steps, Idle, Replies
        <4> QED
          BY <1>6, <3>1, <4>1 DEF Receive
      <3>2. CASE pc[c][th].verb # "login"
        <4>1. /\ [pc[c][th] EXCEPT !.at = "apply"] \in Steps
              /\ [pc[c][th] EXCEPT !.at = "apply"].at = "apply"
          BY <1>0, <1>6, <3>2 DEF Receive, Steps, Idle
        <4> QED
          BY <1>6, <3>2, <4>1 DEF Receive
      <3> QED
        BY <3>1, <3>2
    <2>4. PcOK'
      BY <1>0, <2>3 DEF PcOK
    <2>5. Counted'
      BY <1>0, <1>6, <2>3, FewerLogins
      DEF Receive, tables, locals, bounds, ToSend, Arrived, Creating, PcOK
    <2> QED
      BY <2>1, <2>4, <2>5 DEF TypeInv
  <1>7. CASE Apply(c, th)
    <2>1. client' \in [Conns -> [peername : Users \cup {NoUser}, connected : BOOLEAN,
                                 token : Tokens \cup {NoToken}]]
      <3>1. /\ LoggedOut \in [peername : Users \cup {NoUser}, connected : BOOLEAN,
                              token : Tokens \cup {NoToken}]
            /\ pc[c][th].verb = "login" =>
                 pc[c][th].arg \in [user : Users, token : Tokens \cup {NoToken}]
        BY <1>0, <1>7 DEF Apply, Steps, Idle, LoggedOut
      <3> QED
        BY <1>0, <1>7, <3>1 DEF TypeOK, Apply
    <2>2. TypeOK'
      BY <1>0, <1>7, <2>1 DEF TypeOK, Apply, tables, locals, bounds
    <2>3. PcOK'
      BY <1>0, <1>7 DEF PcOK, Apply, Steps
    <2>4. Counted'
      BY <1>0, <1>7, FewerLogins
      DEF Apply, tables, locals, bounds, ToSend, Arrived, Creating, PcOK, Idle
    <2> QED
      BY <2>2, <2>3, <2>4 DEF TypeInv
  <1> QED
    BY <1>2, <1>3, <1>4, <1>5, <1>6, <1>7

\* The steps of a connection thread (managepeer, dispatch) and expiry.
LEMMA TrackerTypeStep ==
  ASSUME TypeInv, NEW c \in Conns, TrackerStep(c)
  PROVE  TypeInv'
  <1>0. TypeOK /\ PcOK
    BY DEF TypeInv
  <1>1. ASSUME NEW ok \in BOOLEAN, NEW k \in Tokens \cup {NoToken}, Reply(c, ok, k)
        PROVE  outbox' \in [Conns -> Replies \cup {NoMsg}]
    BY <1>0, <1>1 DEF TypeOK, Reply, Replies
  <1>2. \A k : destroy(k) \in [Tokens -> Users \cup {NoUser}]
    BY <1>0 DEF TypeOK, destroy
  <1>3. ASSUME NEW v, Request(c, v)
        PROVE  /\ inbox' \in [Conns -> Requests \cup {NoMsg}]
               /\ inbox[c] \in Requests /\ Arrived' \subseteq Arrived
               /\ v = "login" => c \in Arrived /\ Arrived' \subseteq Arrived \ {c}
    BY <1>0, <1>3 DEF TypeOK, Request, Arrived
  <1>4. CASE LoginRefused(c)
    <2>1. TypeOK'
      BY <1>0, <1>1, <1>3, <1>4 DEF TypeOK, LoginRefused, tables, locals, bounds
    <2>2. Counted'
      BY <1>3, <1>4, FewerLogins
      DEF LoginRefused, tables, locals, bounds, ToSend, Creating
    <2> QED
      BY <1>0, <1>4, <2>1, <2>2 DEF TypeInv, PcOK, LoginRefused
  <1>5. CASE LoginAccepted(c)
    <2>1. inbox[c].arg \in Users
      BY <1>3, <1>5 DEF LoginAccepted, Request, Requests
    <2>2. TypeOK'
      BY <1>0, <1>3, <1>5, <2>1 DEF TypeOK, LoginAccepted, bounds
    <2>3. Counted'
      <3>1. /\ c \in Arrived /\ Arrived' \subseteq Arrived \ {c}
            /\ Creating' \subseteq Creating \cup {c} /\ ToSend' = ToSend
            /\ issued' = issued /\ logins' = logins
        BY <1>0, <1>3, <1>5 DEF TypeOK, LoginAccepted, bounds, Creating, ToSend
      <3>2. /\ Cardinality(Arrived') \in Nat
            /\ Cardinality(Arrived') + 1 <= Cardinality(Arrived)
            /\ Cardinality(Creating') \in Nat
            /\ Cardinality(Creating') <= Cardinality(Creating) + 1
        BY <3>1, Finite, Counting
      <3>3. issued \in Nat /\ logins \in Nat
        BY <1>0, SizesAssumption DEF TypeOK
      <3> QED
        BY <3>1, <3>2, <3>3, Finite DEF TypeInv, Counted
    <2> QED
      BY <1>0, <1>5, <2>2, <2>3 DEF TypeInv, PcOK, LoginAccepted
  <1>6. CASE SessionCreated(c)
    <2>1. /\ c \in Creating /\ Creating' \subseteq Creating \ {c}
          /\ ToSend' = ToSend /\ Arrived' = Arrived
          /\ issued' = issued + 1 /\ logins' = logins
      BY <1>0, <1>6 DEF TypeOK, SessionCreated, bounds, Creating, ToSend, Arrived
    <2>2. /\ Cardinality(Creating') \in Nat
          /\ Cardinality(Creating') + 1 <= Cardinality(Creating)
      BY <2>1, Finite, Counting
    <2>3. /\ issued \in Nat /\ logins \in Nat /\ logins <= MaxLogins
          /\ issued + Cardinality(ToSend) + Cardinality(Arrived)
             + Cardinality(Creating) <= logins
          /\ Cardinality(ToSend') = Cardinality(ToSend)
          /\ Cardinality(Arrived') = Cardinality(Arrived)
      BY <1>0, <2>1, SizesAssumption DEF TypeOK, TypeInv, Counted
    <2> HIDE DEF ToSend, Arrived, Creating
    <2>4. Counted' /\ issued + 1 \in Tokens
      BY <2>1, <2>2, <2>3, Finite, SizesAssumption DEF Counted, Tokens
    <2>5. outbox' \in [Conns -> Replies \cup {NoMsg}]
      BY <1>1, <1>6, <2>4 DEF SessionCreated
    <2>6. issued' \in 0..MaxLogins
      BY <2>1, <2>3, <2>4, SizesAssumption DEF Tokens
    <2>7. TypeOK'
      BY <1>0, <1>6, <2>4, <2>5, <2>6 DEF TypeOK, SessionCreated, bounds
    <2> QED
      BY <1>0, <1>6, <2>4, <2>7 DEF TypeInv, PcOK, SessionCreated
  <1>7. CASE SessionFailed(c)
    <2>1. TypeOK'
      <3>1. outbox' \in [Conns -> Replies \cup {NoMsg}]
        BY <1>1, <1>7 DEF SessionFailed
      <3>2. dry' \in 0..MaxDry
        BY <1>0, <1>7, SizesAssumption DEF TypeOK, SessionFailed
      <3> QED
        BY <1>0, <1>7, <3>1, <3>2 DEF TypeOK, SessionFailed, tables
    <2>2. Counted'
      BY <1>0, <1>7, FewerLogins
      DEF SessionFailed, tables, ToSend, Arrived, Creating, TypeOK
    <2> QED
      BY <1>0, <1>7, <2>1, <2>2 DEF TypeInv, PcOK, SessionFailed
  <1>8. CASE LogoutRefused(c)
    <2>1. TypeOK'
      BY <1>0, <1>1, <1>3, <1>8
      DEF TypeOK, LogoutRefused, ForgetSession, tables, bounds
    <2>2. Counted'
      BY <1>3, <1>8, FewerLogins DEF LogoutRefused, tables, bounds, ToSend, Creating
    <2> QED
      BY <1>0, <1>8, <2>1, <2>2 DEF TypeInv, PcOK, LogoutRefused
  <1>9. CASE LogoutBegins(c)
    <2>1. Owner(inbox[c].arg) \in Users \cup {NoUser}
      BY <1>0 DEF TypeOK, Owner
    <2>2. TypeOK'
      BY <1>0, <1>2, <1>3, <1>9, <2>1 DEF TypeOK, LogoutBegins, bounds
    <2>3. Counted'
      BY <1>0, <1>3, <1>9, FewerLogins
      DEF LogoutBegins, bounds, ToSend, Creating, TypeOK
    <2> QED
      BY <1>0, <1>9, <2>2, <2>3 DEF TypeInv, PcOK, LogoutBegins
  <1>10. CASE LogoutEnds(c)
    <2>1. TypeOK'
      BY <1>0, <1>1, <1>10 DEF TypeOK, LogoutEnds, ForgetSession, bounds
    <2>2. Counted'
      BY <1>0, <1>10, FewerLogins
      DEF LogoutEnds, bounds, ToSend, Arrived, Creating, TypeOK
    <2> QED
      BY <1>0, <1>10, <2>1, <2>2 DEF TypeInv, PcOK, LogoutEnds
  <1>11. CASE Command(c)
    <2>1. sessions' \in [Tokens -> Users \cup {NoUser}]
      BY <1>0, <1>2, <1>11 DEF Command, TypeOK
    <2>2. TypeOK'
      BY <1>0, <1>1, <1>3, <1>11, <2>1 DEF TypeOK, Command, locals, bounds
    <2>3. Counted'
      BY <1>3, <1>11, FewerLogins DEF Command, locals, bounds, ToSend, Creating
    <2> QED
      BY <1>0, <1>11, <2>2, <2>3 DEF TypeInv, PcOK, Command
  <1>12. CASE DropBegins(c)
    <2>1. TypeOK'
      BY <1>0, <1>2, <1>12 DEF TypeOK, DropBegins, bounds
    <2>2. Counted'
      BY <1>0, <1>12, FewerLogins
      DEF DropBegins, bounds, ToSend, Arrived, Creating, TypeOK
    <2> QED
      BY <1>0, <1>12, <2>1, <2>2 DEF TypeInv, PcOK, DropBegins
  <1>13. CASE DropEnds(c)
    <2>1. TypeOK'
      BY <1>0, <1>13 DEF TypeOK, DropEnds, ForgetSession, bounds
    <2>2. Counted'
      BY <1>0, <1>13, FewerLogins
      DEF DropEnds, bounds, ToSend, Arrived, Creating, TypeOK
    <2> QED
      BY <1>0, <1>13, <2>1, <2>2 DEF TypeInv, PcOK, DropEnds
  <1> QED
    BY <1>4, <1>5, <1>6, <1>7, <1>8, <1>9, <1>10, <1>11, <1>12, <1>13
    DEF TrackerStep

\* Every step keeps the types and the count.
LEMMA TypeStep ==
  ASSUME TypeInv, [Next]_vars
  PROVE  TypeInv'
  <1>1. CASE UNCHANGED vars
    BY <1>1 DEF vars, tables, locals, bounds, TypeInv, TypeOK, PcOK, Counted,
       ToSend, Arrived, Creating
  <1>2. ASSUME NEW k \in Tokens, Expire(k)
        PROVE  TypeInv'
    <2>1. TypeOK'
      BY <1>2, SizesAssumption DEF Expire, TypeInv, TypeOK, locals
    <2>2. Counted'
      BY <1>2, FewerLogins DEF Expire, locals, ToSend, Arrived, Creating
    <2> QED
      BY <1>2, <2>1, <2>2 DEF Expire, TypeInv, PcOK
  <1>3. ASSUME NEW c \in Conns, Connect(c) \/ Exit(c)
        PROVE  TypeInv'
    <2>1. CASE Connect(c)
      <3>1. TypeOK'
        BY <2>1 DEF Connect, TypeInv, TypeOK, tables, locals, bounds
      <3>2. Counted'
        BY <2>1, FewerLogins
        DEF Connect, tables, locals, bounds, ToSend, Arrived, Creating
      <3> QED
        BY <2>1, <3>1, <3>2 DEF Connect, TypeInv, PcOK
    <2>2. CASE Exit(c)
      <3>1. TypeOK'
        BY <2>2 DEF Exit, TypeInv, TypeOK, tables, locals, bounds, LoggedOut
      <3>2. PcOK'
        BY <2>2 DEF Exit, TypeInv, PcOK, Steps, NoThread
      <3>3. Counted'
        BY <2>2, FewerLogins
        DEF Exit, tables, locals, bounds, ToSend, Arrived, Creating, PcOK,
            TypeInv, TypeOK, NoThread, Idle
      <3> QED
        BY <3>1, <3>2, <3>3 DEF TypeInv
    <2> QED
      BY <1>3, <2>1, <2>2
  <1> QED
    BY <1>1, <1>2, <1>3, ClientTypeStep, TrackerTypeStep DEF Next, ClientStep

\* Types and the count hold throughout.
LEMMA AlwaysTyped == Spec => []TypeInv
  <1>1. Init => TypeInv
    <2> SUFFICES ASSUME Init PROVE TypeInv
      OBVIOUS
    <2>1. TypeOK
      BY SizesAssumption DEF Init, TypeOK, LoggedOut
    <2>2. PcOK
      BY DEF Init, PcOK, NoThread, Steps
    <2>3. ToSend = {} /\ Arrived = {} /\ Creating = {}
      BY DEF Init, ToSend, Arrived, Creating, NoThread, Idle
    <2>4. Counted
      BY <2>3, FS_EmptySet DEF Init, Counted
    <2> QED
      BY <2>1, <2>2, <2>4 DEF TypeInv
  <1>2. TypeInv /\ [Next]_vars => TypeInv'
    BY TypeStep
  <1> QED
    BY <1>1, <1>2, PTL DEF Spec

\* SessionTypes: for any number of clients and of threads in each, the state
\* of the tracker, the wire and the clients stays of its kind; in particular
\* random_hex is asked for no more tokens than there were logins, however
\* logins, hang-ups and failures interleave (managepeer, dispatch, execute).
THEOREM SessionTypes == Spec => []TypeOK
  <1>1. TypeInv => TypeOK
    BY DEF TypeInv
  <1> QED
    BY <1>1, AlwaysTyped, PTL
-----------------------------------------------------------------------------
(* The conversation of one client with its connection thread.  From here   *)
(* on one thread of the client executes commands: the console's, with the  *)
(* dashboard off, or the dashboard's.  Two of them can both get past the   *)
(* check that no session is active, and then none of this holds.           *)

OneThread == \E th : Threads = {th}

\* A client that is not there says nothing, and a thread that has ended has
\* forgotten its session.
Silent(c) ==
    /\ conn[c] # "open" => /\ \A th \in Threads : pc[c][th] = Idle
                           /\ client[c] = LoggedOut /\ outbox[c] = NoMsg
    /\ conn[c] = "closed" => /\ stage[c] = "recv" /\ inbox[c] = NoMsg
                             /\ session_user[c] = NoUser
                             /\ session_token[c] = NoToken

\* Request and reply alternate, and the request is the one the client has in
\* mind.
InTurn(c) ==
    /\ stage[c] # "recv" => inbox[c] = NoMsg /\ outbox[c] = NoMsg
    /\ stage[c] = "drop" => conn[c] = "gone"
    /\ inbox[c] # NoMsg => outbox[c] = NoMsg
    /\ conn[c] = "open" => \A th \in Threads :
          /\ pc[c][th].at # "wait"
                => stage[c] = "recv" /\ inbox[c] = NoMsg /\ outbox[c] = NoMsg
          /\ inbox[c] # NoMsg
                => inbox[c] = [verb |-> pc[c][th].verb, arg |-> pc[c][th].arg]
          /\ stage[c] = "login" => pc[c][th].verb = "login" /\ pc[c][th].arg = work[c]
          /\ stage[c] = "logout" => pc[c][th].verb = "logout"

\* A client logs in only when it is logged out, and sends the token it has.
Coherent(c) ==
    /\ ~client[c].connected => client[c] = LoggedOut
    /\ \A th \in Threads :
          /\ pc[c][th].verb = "login" => client[c] = LoggedOut
          /\ pc[c][th].at \in {"send", "wait"} /\ pc[c][th].verb # "login"
                => pc[c][th].arg = client[c].token

\* The reply with the new token is being applied, or waits; the reply to a
\* logout likewise.
Granted(c, th) == /\ pc[c][th].at = "apply" /\ pc[c][th].verb = "login"
                  /\ pc[c][th].arg.token # NoToken
Granting(c, th) == /\ pc[c][th].at = "wait" /\ pc[c][th].verb = "login"
                   /\ outbox[c] # NoMsg /\ outbox[c].token # NoToken
Ended(c, th) == /\ pc[c][th].verb = "logout"
                /\ pc[c][th].at = "apply" \/ (pc[c][th].at = "wait" /\ outbox[c] # NoMsg)

\* What managepeer has noted is what the client will believe when it has read
\* the reply that is under way, if any.
Seen(c) ==
    conn[c] = "open" => \A th \in Threads :
        /\ Granted(c, th) => /\ session_user[c] = pc[c][th].arg.user
                             /\ session_token[c] = pc[c][th].arg.token
        /\ Granting(c, th) => /\ session_user[c] = pc[c][th].arg
                              /\ session_token[c] = outbox[c].token
        /\ Ended(c, th) => session_user[c] = NoUser /\ session_token[c] = NoToken
        /\ ~Granted(c, th) /\ ~Granting(c, th) /\ ~Ended(c, th)
              => /\ session_user[c] = client[c].peername
                 /\ session_token[c] = client[c].token

\* A request carries the token of its own connection, and a login comes when
\* there is none.
Asks(c) == inbox[c] # NoMsg /\ inbox[c].verb = "login"
Own(c) ==
    /\ inbox[c] # NoMsg /\ inbox[c].verb # "login" => inbox[c].arg = session_token[c]
    /\ stage[c] = "login" \/ Asks(c)
          => session_user[c] = NoUser /\ session_token[c] = NoToken
    /\ stage[c] = "login" => work[c] \in Users
    /\ session_user[c] = NoUser <=> session_token[c] = NoToken

Talk(c) == Silent(c) /\ InTurn(c) /\ Coherent(c) /\ Seen(c) /\ Own(c)
TalkInv == TypeInv /\ \A c \in Conns : Talk(c)

\* Nothing of connection d changes.
Same(d) ==
    /\ stage'[d] = stage[d] /\ work'[d] = work[d] /\ conn'[d] = conn[d]
    /\ session_user'[d] = session_user[d] /\ session_token'[d] = session_token[d]
    /\ inbox'[d] = inbox[d] /\ outbox'[d] = outbox[d]
    /\ client'[d] = client[d] /\ pc'[d] = pc[d]

\* A connection nobody touches stays as it is.
LEMMA SameTalk ==
  ASSUME NEW d \in Conns, Talk(d), Same(d)
  PROVE  Talk(d)'
  BY DEF Talk, Silent, InTurn, Coherent, Granted, Granting, Ended, Seen, Asks, Own, Same

\* A client and a connection thread touch only their own connection.
LEMMA Elsewhere ==
  ASSUME TypeInv, NEW c \in Conns, NEW d \in Conns, d # c,
         \/ Connect(c) \/ Exit(c) \/ ClientStep(c) \/ TrackerStep(c)
         \/ \E th \in Threads, u \in Users : BeginLogin(c, th, u)
         \/ \E th \in Threads, verb \in {"logout", "command"} :
               BeginCommand(c, th, verb)
  PROVE  Same(d)
  <1>0. TypeOK /\ PcOK
    BY DEF TypeInv
  <1>1. CASE Connect(c)
    BY <1>0, <1>1 DEF Connect, Same, TypeOK, locals
  <1>2. CASE Exit(c)
    BY <1>0, <1>2 DEF Exit, Same, TypeOK, PcOK, locals
  <1>3. ASSUME NEW th \in Threads,
               \/ ReadToken(c, th) \/ Send(c, th) \/ Receive(c, th) \/ Apply(c, th)
               \/ \E u \in Users : BeginLogin(c, th, u)
               \/ \E verb \in {"logout", "command"} : BeginCommand(c, th, verb)
        PROVE  Same(d)
    <2>1. pc'[d] = pc[d]
      BY <1>0, <1>3 DEF ReadToken, Send, Receive, Apply, BeginLogin, BeginCommand, PcOK
    <2>2. client'[d] = client[d] /\ inbox'[d] = inbox[d] /\ outbox'[d] = outbox[d]
      BY <1>0, <1>3
      DEF ReadToken, Send, Receive, Apply, BeginLogin, BeginCommand, TypeOK
    <2>3. UNCHANGED <<locals, conn>>
      BY <1>3 DEF ReadToken, Send, Receive, Apply, BeginLogin, BeginCommand
    <2> QED
      BY <2>1, <2>2, <2>3 DEF Same, locals
  <1>4. CASE TrackerStep(c)
    <2>1. \A ok, k : Reply(c, ok, k) => outbox'[d] = outbox[d]
      BY <1>0 DEF Reply, TypeOK
    <2>2. outbox'[d] = outbox[d]
      BY <1>4, <2>1 DEF TrackerStep, LoginRefused, LoginAccepted, SessionCreated,
         SessionFailed, LogoutRefused, LogoutBegins, LogoutEnds, Command,
         DropBegins, DropEnds
    <2>3. inbox'[d] = inbox[d]
      BY <1>0, <1>4 DEF TrackerStep, LoginRefused, LoginAccepted, SessionCreated,
         SessionFailed, LogoutRefused, LogoutBegins, LogoutEnds, Command,
         DropBegins, DropEnds, Request, TypeOK
    <2>4. stage'[d] = stage[d] /\ work'[d] = work[d] /\ conn'[d] = conn[d]
      BY <1>0, <1>4 DEF TrackerStep, LoginRefused, LoginAccepted, SessionCreated,
         SessionFailed, LogoutRefused, LogoutBegins, LogoutEnds, Command,
         DropBegins, DropEnds, locals, TypeOK
    <2>5. session_user'[d] = session_user[d] /\ session_token'[d] = session_token[d]
      BY <1>0, <1>4 DEF TrackerStep, LoginRefused, LoginAccepted, SessionCreated,
         SessionFailed, LogoutRefused, LogoutBegins, LogoutEnds, Command,
         DropBegins, DropEnds, ForgetSession, locals, TypeOK
    <2>6. client'[d] = client[d] /\ pc'[d] = pc[d]
      BY <1>4 DEF TrackerStep, LoginRefused, LoginAccepted, SessionCreated,
         SessionFailed, LogoutRefused, LogoutBegins, LogoutEnds, Command,
         DropBegins, DropEnds
    <2> QED
      BY <2>2, <2>3, <2>4, <2>5, <2>6 DEF Same
  <1> QED
    BY <1>1, <1>2, <1>3, <1>4 DEF ClientStep

\* What a client's step does to its own connection keeps the conversation in
\* order (execute, TrackerClient::send, set_session, clear_session).
LEMMA ClientTalks ==
  ASSUME NEW th, Threads = {th}, TypeInv, NEW c \in Conns, Talk(c),
         \/ Connect(c) \/ Exit(c) \/ ClientStep(c)
         \/ \E u \in Users : BeginLogin(c, th, u)
         \/ \E verb \in {"logout", "command"} : BeginCommand(c, th, verb)
  PROVE  Talk(c)'
  <1>0. TypeOK /\ PcOK /\ th \in Threads /\ pc[c][th] \in Steps
    BY DEF TypeInv, PcOK
  <1> USE DEF Silent, InTurn, Coherent, Granted, Granting, Ended, Seen, Asks, Own
  <1>1. CASE Connect(c)
    <2>1. /\ conn[c] = "closed" /\ conn'[c] = "open"
          /\ UNCHANGED <<stage, session_user, session_token, work, inbox, outbox,
                         client, pc>>
      BY <1>0, <1>1 DEF Connect, locals, TypeOK
    <2>2. Idle.at = "idle" /\ Idle.verb = "none"
      BY DEF Idle
    <2>3. LoggedOut.peername = NoUser /\ LoggedOut.token = NoToken
      BY DEF LoggedOut
    <2> QED
      BY <1>0, <2>1, <2>2, <2>3 DEF Talk
  <1>2. CASE Exit(c)
    <2>1. /\ conn[c] = "open" /\ conn'[c] = "gone"
          /\ inbox'[c] \in {inbox[c], NoMsg} /\ outbox'[c] = NoMsg
          /\ client'[c] = LoggedOut /\ \A t \in Threads : pc'[c][t] = Idle
          /\ UNCHANGED <<stage, session_user, session_token, work>>
      BY <1>0, <1>2 DEF Exit, locals, TypeOK, PcOK, NoThread
    <2>2. Idle.at = "idle" /\ Idle.verb = "none"
      BY DEF Idle
    <2> QED
      BY <1>0, <2>1, <2>2 DEF Talk
  <1>3. ASSUME NEW u \in Users, BeginLogin(c, th, u)
        PROVE  Talk(c)'
    <2>1. /\ conn[c] = "open" /\ pc[c][th].at = "idle" /\ ~client[c].connected
          /\ pc'[c][th] = [at |-> "send", verb |-> "login", arg |-> u]
          /\ UNCHANGED <<stage, session_user, session_token, work, conn, inbox,
                         outbox, client>>
      BY <1>0, <1>3 DEF BeginLogin, locals, PcOK
    <2>2. pc[c][th].verb = "none"
      BY <1>0, <2>1 DEF Steps, Idle
    <2> QED
      BY <1>0, <2>1, <2>2 DEF Talk
  <1>4. ASSUME NEW verb \in {"logout", "command"}, BeginCommand(c, th, verb)
        PROVE  Talk(c)'
    <2>1. /\ conn[c] = "open" /\ pc[c][th].at = "idle"
          /\ pc'[c][th] = [at |-> "token", verb |-> verb, arg |-> NoMsg]
          /\ UNCHANGED <<stage, session_user, session_token, work, conn, inbox,
                         outbox, client>>
      BY <1>0, <1>4 DEF BeginCommand, locals, PcOK
    <2>2. pc[c][th].verb = "none"
      BY <1>0, <2>1 DEF Steps, Idle
    <2> QED
      BY <1>0, <2>1, <2>2 DEF Talk
  <1>5. CASE ReadToken(c, th)
    <2>1. /\ pc[c][th].at = "token"
          /\ pc'[c][th] = [at |-> "send", verb |-> pc[c][th].verb,
                           arg |-> client[c].token]
          /\ UNCHANGED <<stage, session_user, session_token, work, conn, inbox,
                         outbox, client>>
      BY <1>0, <1>5 DEF ReadToken, locals, PcOK
    <2>2. conn[c] = "open" /\ pc[c][th].verb # "login"
      BY <1>0, <2>1 DEF Steps, Idle, Talk
    <2> QED
      BY <1>0, <2>1, <2>2 DEF Talk
  <1>6. CASE Send(c, th)
    <2>1. /\ conn[c] = "open" /\ pc[c][th].at = "send"
          /\ inbox'[c] = [verb |-> pc[c][th].verb, arg |-> pc[c][th].arg]
          /\ UNCHANGED <<stage, session_user, session_token, work, conn, outbox,
                         client>>
      BY <1>0, <1>6 DEF Send, locals, TypeOK
    <2>2. /\ pc'[c][th].at = "wait" /\ pc'[c][th].verb = pc[c][th].verb
          /\ pc'[c][th].arg = pc[c][th].arg
      <3>1. pc'[c][th] = [pc[c][th] EXCEPT !.at = "wait"]
        BY <1>0, <1>6 DEF Send, PcOK
      <3> QED
        BY <1>0, <3>1 DEF Steps, Idle
    <2>3. inbox'[c] # NoMsg
      <3>1. inbox'[c] \in Requests
        BY <1>0, <2>1 DEF Steps, Idle, Requests
      <3> QED
        BY <3>1, NoMsgAssumption
    <2>4. LoggedOut.peername = NoUser /\ LoggedOut.token = NoToken
      BY DEF LoggedOut
    <2> HIDE DEF NoToken
    <2>5. Silent(c)'
      BY <1>0, <2>1, <2>2, <2>3, <2>4 DEF Talk
    <2>6. InTurn(c)'
      BY <1>0, <2>1, <2>2, <2>3, <2>4 DEF Talk
    <2>7. Coherent(c)'
      BY <1>0, <2>1, <2>2, <2>3, <2>4 DEF Talk
    <2>8. Seen(c)'
      BY <1>0, <2>1, <2>2, <2>3, <2>4 DEF Talk
    <2>9. Own(c)'
      BY <1>0, <2>1, <2>2, <2>3, <2>4 DEF Talk
    <2> QED
      BY <2>5, <2>6, <2>7, <2>8, <2>9 DEF Talk
  <1>7. CASE Receive(c, th)
    <2>1. /\ pc[c][th].at = "wait" /\ outbox[c] # NoMsg /\ outbox'[c] = NoMsg
          /\ UNCHANGED <<stage, session_user, session_token, work, conn, inbox,
                         client>>
      BY <1>0, <1>7 DEF Receive, locals, TypeOK
    <2>2. conn[c] = "open" /\ stage[c] = "recv" /\ inbox[c] = NoMsg
      BY <1>0, <2>1 DEF Talk, Idle
    <2>3. /\ pc'[c][th].at = "apply" /\ pc'[c][th].verb = pc[c][th].verb
          /\ pc[c][th].verb = "login" =>
               /\ pc'[c][th].arg.user = pc[c][th].arg
               /\ pc'[c][th].arg.token = outbox[c].token
      <3>1. pc'[c][th] = IF pc[c][th].verb = "login"
                         THEN [at |-> "apply", verb |-> "login",
                               arg |-> [user |-> pc[c][th].arg,
                                        token |-> outbox[c].token]]
                         ELSE [pc[c][th] EXCEPT !.at = "apply"]
        BY <1>0, <1>7 DEF Receive, PcOK
      <3> QED
        BY <1>0, <3>1 DEF Steps, Idle
    <2>4. Silent(c)'
      BY <1>0, <2>1, <2>2, <2>3 DEF Talk
    <2>5. InTurn(c)'
      BY <1>0, <2>1, <2>2, <2>3 DEF Talk
    <2>6. Coherent(c)'
      BY <1>0, <2>1, <2>2, <2>3 DEF Talk
    <2>7. Seen(c)'
      BY <1>0, <2>1, <2>2, <2>3 DEF Talk
    <2>8. Own(c)'
      BY <1>0, <2>1, <2>2, <2>3 DEF Talk
    <2> QED
      BY <2>4, <2>5, <2>6, <2>7, <2>8 DEF Talk
  <1>8. CASE Apply(c, th)
    <2>1. /\ pc[c][th].at = "apply" /\ pc'[c][th] = Idle
          /\ client'[c] =
               IF pc[c][th].verb = "login" /\ pc[c][th].arg.token # NoToken
               THEN [peername |-> pc[c][th].arg.user, connected |-> TRUE,
                     token |-> pc[c][th].arg.token]
               ELSE IF pc[c][th].verb = "logout" THEN LoggedOut ELSE client[c]
          /\ UNCHANGED <<stage, session_user, session_token, work, conn, inbox,
                         outbox>>
      BY <1>0, <1>8 DEF Apply, locals, PcOK, TypeOK
    <2>2. Idle.at = "idle" /\ Idle.verb = "none"
      BY DEF Idle
    <2>3. LoggedOut.peername = NoUser /\ LoggedOut.token = NoToken
          /\ ~LoggedOut.connected
      BY DEF LoggedOut
    <2>4. conn[c] = "open"
      BY <1>0, <2>1, <2>2 DEF Talk
    <2> HIDE DEF NoToken
    <2> QED
      BY <1>0, <2>1, <2>2, <2>3, <2>4 DEF Talk
  <1> QED
    BY <1>0, <1>1, <1>2, <1>3, <1>4, <1>5, <1>6, <1>7, <1>8 DEF ClientStep

\* The same of a connection thread (managepeer, dispatch).
LEMMA TrackerTalks ==
  ASSUME NEW th, Threads = {th}, TypeInv, NEW c \in Conns, Talk(c), TrackerStep(c)
  PROVE  Talk(c)'
  <1>0. TypeOK /\ PcOK /\ th \in Threads /\ pc[c][th] \in Steps
    BY DEF TypeInv, PcOK
  <1>1. ASSUME NEW ok \in BOOLEAN, NEW k \in Tokens \cup {NoToken}, Reply(c, ok, k)
        PROVE  /\ conn[c] # "open" => outbox'[c] = outbox[c]
               /\ conn[c] = "open" => outbox'[c] # NoMsg /\ outbox'[c].token = k
    <2>1. [ok |-> ok, token |-> k] # NoMsg
      BY NoMsgAssumption DEF Replies
    <2> QED
      BY <1>0, <1>1, <2>1 DEF Reply, TypeOK
  <1>2. ASSUME NEW v, Request(c, v)
        PROVE  /\ stage[c] = "recv" /\ inbox[c] # NoMsg /\ inbox[c].verb = v
               /\ inbox[c] \in Requests /\ inbox'[c] = NoMsg
               /\ outbox[c] = NoMsg /\ conn[c] # "closed"
               /\ conn[c] = "open" => /\ pc[c][th].at = "wait" /\ pc[c][th].verb = v
                                      /\ pc[c][th].arg = inbox[c].arg
    BY <1>0, <1>2 DEF Request, TypeOK, Talk, InTurn, Silent
  <1> USE DEF Silent, InTurn, Coherent, Granted, Granting, Ended, Seen, Asks, Own
  <1>3. CASE LoginRefused(c)
    <2>1. UNCHANGED <<stage, session_user, session_token, work, conn, client, pc>>
      BY <1>3 DEF LoginRefused, locals
    <2>2. /\ Request(c, "login") /\ Reply(c, FALSE, NoToken)
      BY <1>3 DEF LoginRefused
    <2>3. /\ conn[c] # "open" => outbox'[c] = outbox[c]
          /\ conn[c] = "open" => outbox'[c] # NoMsg /\ outbox'[c].token = NoToken
      BY <1>1, <2>2
    <2> HIDE DEF NoToken
    <2> QED
      BY <1>0, <1>2, <2>1, <2>2, <2>3 DEF Talk
  <1>4. CASE LoginAccepted(c)
    <2>1. /\ Request(c, "login") /\ stage'[c] = "login" /\ work'[c] = inbox[c].arg
          /\ UNCHANGED <<session_user, session_token, conn, outbox, client, pc>>
      BY <1>0, <1>4 DEF LoginAccepted, TypeOK
    <2>2. inbox[c].arg \in Users
      BY <1>2, <2>1 DEF Requests
    <2> HIDE DEF NoToken
    <2> QED
      BY <1>0, <1>2, <2>1, <2>2 DEF Talk
  <1>5. CASE SessionCreated(c)
    <2>1. /\ stage[c] = "login" /\ stage'[c] = "recv" /\ session_user'[c] = work[c]
          /\ session_token'[c] = issued + 1
          /\ UNCHANGED <<conn, inbox, client, pc>>
      BY <1>0, <1>5 DEF SessionCreated, TypeOK
    <2>2. issued + 1 \in Tokens /\ issued + 1 # NoToken
      <3>1. TypeInv' /\ issued' = issued + 1 /\ issued \in Nat
        BY <1>5, TrackerTypeStep, SizesAssumption DEF SessionCreated, TypeInv, TypeOK
      <3> QED
        BY <3>1, SizesAssumption DEF TypeInv, TypeOK, Tokens, NoToken
    <2>3. /\ conn[c] # "open" => outbox'[c] = outbox[c]
          /\ conn[c] = "open" => outbox'[c] # NoMsg /\ outbox'[c].token = issued + 1
      BY <1>1, <1>5, <2>2 DEF SessionCreated
    <2>4. /\ conn[c] # "closed" /\ inbox[c] = NoMsg /\ outbox[c] = NoMsg
          /\ work[c] \in Users /\ work[c] # NoUser
          /\ conn[c] = "open" => /\ pc[c][th].at = "wait" /\ pc[c][th].verb = "login"
                                 /\ pc[c][th].arg = work[c]
      BY <1>0, <2>1, NoValues DEF Talk
    <2> HIDE DEF NoToken
    <2> QED
      BY <1>0, <2>1, <2>2, <2>3, <2>4 DEF Talk
  <1>6. CASE SessionFailed(c)
    <2>1. /\ stage[c] = "login" /\ stage'[c] = "recv"
          /\ UNCHANGED <<session_user, session_token, conn, inbox, client, pc>>
      BY <1>0, <1>6 DEF SessionFailed, TypeOK
    <2>2. /\ conn[c] # "open" => outbox'[c] = outbox[c]
          /\ conn[c] = "open" => outbox'[c] # NoMsg /\ outbox'[c].token = NoToken
      BY <1>1, <1>6 DEF SessionFailed
    <2>3. /\ conn[c] # "closed" /\ inbox[c] = NoMsg /\ outbox[c] = NoMsg
          /\ conn[c] = "open" => pc[c][th].at = "wait" /\ pc[c][th].verb = "login"
      BY <1>0, <2>1 DEF Talk
    <2> HIDE DEF NoToken
    <2> QED
      BY <1>0, <2>1, <2>2, <2>3 DEF Talk
  <1>7. CASE LogoutRefused(c)
    <2>1. /\ Request(c, "logout") /\ session_user'[c] = NoUser
          /\ session_token'[c] = NoToken
          /\ UNCHANGED <<stage, work, conn, client, pc>>
      BY <1>0, <1>7 DEF LogoutRefused, ForgetSession, TypeOK
    <2>2. /\ conn[c] # "open" => outbox'[c] = outbox[c]
          /\ conn[c] = "open" => outbox'[c] # NoMsg
      BY <1>1, <1>7 DEF LogoutRefused
    <2> HIDE DEF NoToken
    <2> QED
      BY <1>0, <1>2, <2>1, <2>2 DEF Talk
  <1>8. CASE LogoutBegins(c)
    <2>1. /\ Request(c, "logout") /\ stage'[c] = "logout"
          /\ UNCHANGED <<session_user, session_token, conn, outbox, client, pc>>
      BY <1>0, <1>8 DEF LogoutBegins, TypeOK
    <2> HIDE DEF NoToken
    <2> QED
      BY <1>0, <1>2, <2>1 DEF Talk
  <1>9. CASE LogoutEnds(c)
    <2>1. /\ stage[c] = "logout" /\ stage'[c] = "recv"
          /\ session_user'[c] = NoUser /\ session_token'[c] = NoToken
          /\ UNCHANGED <<conn, inbox, client, pc>>
      BY <1>0, <1>9 DEF LogoutEnds, ForgetSession, TypeOK
    <2>2. /\ conn[c] # "open" => outbox'[c] = outbox[c]
          /\ conn[c] = "open" => outbox'[c] # NoMsg
      BY <1>1, <1>9 DEF LogoutEnds
    <2>3. /\ conn[c] # "closed" /\ inbox[c] = NoMsg /\ outbox[c] = NoMsg
          /\ conn[c] = "open" => pc[c][th].at = "wait" /\ pc[c][th].verb = "logout"
      BY <1>0, <2>1 DEF Talk
    <2> HIDE DEF NoToken
    <2> QED
      BY <1>0, <2>1, <2>2, <2>3 DEF Talk
  <1>10. CASE Command(c)
    <2>1. /\ Request(c, "command")
          /\ UNCHANGED <<stage, session_user, session_token, work, conn, client, pc>>
      BY <1>10 DEF Command, locals
    <2>2. /\ conn[c] # "open" => outbox'[c] = outbox[c]
          /\ conn[c] = "open" => outbox'[c] # NoMsg
      BY <1>1, <1>10 DEF Command
    <2> HIDE DEF NoToken
    <2> QED
      BY <1>0, <1>2, <2>1, <2>2 DEF Talk
  <1>11. CASE DropBegins(c)
    <2>1. /\ conn[c] = "gone" /\ stage[c] = "recv" /\ stage'[c] = "drop"
          /\ inbox[c] = NoMsg
          /\ UNCHANGED <<session_user, session_token, work, conn, inbox, outbox,
                         client, pc>>
      BY <1>0, <1>11 DEF DropBegins, TypeOK
    <2> QED
      BY <1>0, <2>1 DEF Talk
  <1>12. CASE DropEnds(c)
    <2>1. /\ stage[c] = "drop" /\ stage'[c] = "recv" /\ conn'[c] = "closed"
          /\ session_user'[c] = NoUser /\ session_token'[c] = NoToken
          /\ UNCHANGED <<work, inbox, outbox, client, pc>>
      BY <1>0, <1>12 DEF DropEnds, ForgetSession, TypeOK
    <2> QED
      BY <1>0, <2>1 DEF Talk
  <1> QED
    BY <1>3, <1>4, <1>5, <1>6, <1>7, <1>8, <1>9, <1>10, <1>11, <1>12 DEF TrackerStep

\* The conversations stay in order.
LEMMA TalkStep ==
  ASSUME OneThread, TalkInv, [Next]_vars
  PROVE  TalkInv'
  <1> PICK th : Threads = {th}
    BY DEF OneThread
  <1>1. TypeInv /\ TypeInv'
    BY TypeStep DEF TalkInv
  <1>2. CASE UNCHANGED vars \/ \E k \in Tokens : Expire(k)
    <2>1. \A d \in Conns : Same(d)
      BY <1>2 DEF vars, locals, Expire, Same
    <2> QED
      BY <1>1, <2>1, SameTalk DEF TalkInv
  <1>3. ASSUME NEW c \in Conns,
               \/ Connect(c) \/ Exit(c) \/ ClientStep(c) \/ TrackerStep(c)
               \/ \E t \in Threads, u \in Users : BeginLogin(c, t, u)
               \/ \E t \in Threads, verb \in {"logout", "command"} :
                     BeginCommand(c, t, verb)
        PROVE  TalkInv'
    <2>1. Talk(c)'
      BY <1>1, <1>3, ClientTalks, TrackerTalks DEF TalkInv
    <2>2. ASSUME NEW d \in Conns, d # c
          PROVE  Talk(d)'
      BY <1>1, <1>3, <2>2, Elsewhere, SameTalk DEF TalkInv
    <2> QED
      BY <1>1, <2>1, <2>2 DEF TalkInv
  <1> QED
    BY <1>2, <1>3 DEF Next

\* They are in order throughout.
LEMMA AlwaysInTurn ==
  ASSUME OneThread
  PROVE  Spec => []TalkInv
  <1>1. Init /\ TypeInv => TalkInv
    BY DEF Init, TalkInv, Talk, Silent, InTurn, Coherent, Granted, Granting, Ended,
       Seen, Asks, Own, LoggedOut, NoThread, Idle
  <1>2. TalkInv /\ [Next]_vars => TalkInv'
    BY TalkStep
  <1> QED
    BY <1>1, <1>2, AlwaysTyped, PTL DEF Spec

\* A client with nothing under way believes what managepeer has noted.
LEMMA QuietAgrees ==
  ASSUME OneThread, TalkInv, NEW c \in Conns, Quiet(c), conn[c] = "open"
  PROVE  session_user[c] = client[c].peername /\ session_token[c] = client[c].token
  <1>1. PICK th \in Threads : pc[c][th].at = "idle"
    BY DEF OneThread, Quiet
  <1> QED
    BY <1>1 DEF TalkInv, Talk, Seen, Granted, Granting, Ended

\* ClientsAgree: a client that shows a user as logged in holds the token its
\* connection thread would revoke, for the user it would disconnect (set_session
\* and clear_session against managepeer's locals), for any clients, when one
\* thread of each executes commands.
THEOREM ClientsAgree ==
  ASSUME OneThread
  PROVE  Spec => []ClientAgrees
  <1>1. TalkInv => ClientAgrees
    <2> SUFFICES ASSUME TalkInv, NEW c \in Conns, Quiet(c), client[c].connected
                 PROVE  /\ session_user[c] = client[c].peername
                        /\ session_token[c] = client[c].token
      BY DEF ClientAgrees
    <2>1. conn[c] = "open"
      BY DEF TalkInv, Talk, Silent, LoggedOut
    <2> QED
      BY <2>1, QuietAgrees
  <1> QED
    BY <1>1, AlwaysInTurn, PTL
-----------------------------------------------------------------------------
(* The life of a token. *)

\* The user sessions_ has for the token managepeer has noted.
OwnerOf(c) == Owner(session_token[c])

\* Tokens are new and given out once.
Distinct ==
    /\ \A c \in Conns : session_token[c] <= issued
    /\ \A c, d \in Conns :
          session_token[c] = session_token[d] /\ session_token[c] # NoToken => c = d

\* A token is its session's until it is revoked; while none expires it is
\* revoked by its own connection only, on logout or when the client is gone.
Tied(c) ==
    /\ OwnerOf(c) \in {NoUser, session_user[c]}
    /\ stage[c] \in {"logout", "drop"} => OwnerOf(c) = NoUser
    /\ stage[c] = "logout" => work[c] = session_user[c]
    /\ expired = {} /\ stage[c] \in {"recv", "login"} => OwnerOf(c) = session_user[c]

TokenInv == Distinct /\ TokensRevoked /\ \A c \in Conns : Tied(c)

\* Revoking a token takes no other session's (SessionTable::destroy).
LEMMA DestroyOwners ==
  ASSUME TypeInv, Distinct, NEW c \in Conns, sessions' = destroy(session_token[c]),
         session_token' = session_token
  PROVE  /\ OwnerOf(c)' = NoUser
         /\ \A d \in Conns : d # c => OwnerOf(d)' = OwnerOf(d)
         /\ \A k \in Tokens : Owner(k)' # NoUser => Owner(k) # NoUser
  <1>1. /\ sessions \in [Tokens -> Users \cup {NoUser}]
        /\ session_token \in [Conns -> Tokens \cup {NoToken}]
    BY DEF TypeInv, TypeOK
  <1>2. NoToken \notin Tokens
    BY SizesAssumption DEF NoToken, Tokens
  <1> QED
    BY <1>1, <1>2 DEF Distinct, destroy, Owner, OwnerOf

\* Only a dead token is forgotten (managepeer's locals).
LEMMA ForgetOwners ==
  ASSUME TypeInv, TokensRevoked, NEW c \in Conns, OwnerOf(c) = NoUser,
         sessions' = sessions,
         session_token' = [session_token EXCEPT ![c] = NoToken]
  PROVE  /\ OwnerOf(c)' = NoUser /\ TokensRevoked'
         /\ \A d \in Conns : d # c => OwnerOf(d)' = OwnerOf(d)
  <1>1. session_token \in [Conns -> Tokens \cup {NoToken}]
    BY DEF TypeInv, TypeOK
  <1>2. NoToken \notin Tokens
    BY SizesAssumption DEF NoToken, Tokens
  <1>3. ASSUME NEW k \in Tokens, Owner(k)' # NoUser
        PROVE  \E d \in Conns : session_token'[d] = k
    <2>1. PICK d \in Conns : session_token[d] = k
      BY <1>3 DEF TokensRevoked, Owner
    <2>2. d # c
      BY <1>3, <2>1 DEF OwnerOf, Owner
    <2> QED
      BY <1>1, <2>1, <2>2
  <1> QED
    BY <1>1, <1>2, <1>3 DEF OwnerOf, Owner, TokensRevoked

\* Every token stays its session's.
LEMMA TokenStep ==
  ASSUME OneThread, TalkInv, TokenInv, [Next]_vars
  PROVE  TokenInv'
  <1>0. /\ TypeInv /\ TypeOK /\ issued \in Nat
        /\ session_token \in [Conns -> Tokens \cup {NoToken}]
        /\ \A c \in Conns : session_token[c] \in Nat
    BY SizesAssumption DEF TalkInv, TypeInv, TypeOK, Tokens, NoToken
  <1>1. ASSUME UNCHANGED <<sessions, issued, session_token, session_user>>,
               expired \subseteq expired',
               \A c \in Conns :
                  \/ stage'[c] = stage[c] /\ work'[c] = work[c]
                  \/ stage'[c] \in {"recv", "login"} /\ stage[c] \in {"recv", "login"}
        PROVE  TokenInv'
    <2>1. Distinct' /\ TokensRevoked'
      BY <1>1 DEF TokenInv, Distinct, TokensRevoked, Owner
    <2>2. ASSUME NEW c \in Conns
          PROVE  Tied(c)'
      BY <1>1 DEF TokenInv, Tied, OwnerOf, Owner
    <2> QED
      BY <2>1, <2>2 DEF TokenInv
  <1>2. ASSUME NEW c \in Conns, sessions' = destroy(session_token[c]),
               UNCHANGED <<expired, issued, session_user, session_token>>,
               \A d \in Conns : d # c => stage'[d] = stage[d] /\ work'[d] = work[d],
               \/ stage'[c] = "drop"
               \/ stage'[c] = "logout" /\ work'[c] = session_user[c]
               \/ expired # {} /\ stage'[c] = "recv"
        PROVE  TokenInv'
    <2>1. /\ OwnerOf(c)' = NoUser
          /\ \A d \in Conns : d # c => OwnerOf(d)' = OwnerOf(d)
          /\ \A k \in Tokens : Owner(k)' # NoUser => Owner(k) # NoUser
      BY <1>0, <1>2, DestroyOwners DEF TokenInv
    <2>2. Distinct' /\ TokensRevoked'
      BY <1>2, <2>1 DEF TokenInv, Distinct, TokensRevoked
    <2>3. Tied(c)'
      BY <1>2, <2>1 DEF Tied
    <2>4. ASSUME NEW d \in Conns, d # c
          PROVE  Tied(d)'
      BY <1>2, <2>1, <2>4 DEF TokenInv, Tied
    <2> QED
      BY <2>2, <2>3, <2>4 DEF TokenInv
  <1>3. ASSUME NEW c \in Conns, OwnerOf(c) = NoUser, ForgetSession(c),
               UNCHANGED <<sessions, expired, issued>>, stage'[c] = "recv",
               \A d \in Conns : d # c => stage'[d] = stage[d] /\ work'[d] = work[d]
        PROVE  TokenInv'
    <2>1. /\ OwnerOf(c)' = NoUser /\ TokensRevoked'
          /\ \A d \in Conns : d # c => OwnerOf(d)' = OwnerOf(d)
      BY <1>0, <1>3, ForgetOwners DEF TokenInv, ForgetSession
    <2>2. /\ session_user'[c] = NoUser /\ session_token'[c] = NoToken
          /\ \A d \in Conns : d # c => /\ session_user'[d] = session_user[d]
                                       /\ session_token'[d] = session_token[d]
      BY <1>0, <1>3 DEF ForgetSession, TypeOK
    <2>3. Distinct'
      BY <1>0, <1>3, <2>2 DEF TokenInv, Distinct, NoToken
    <2>4. Tied(c)'
      BY <1>3, <2>1, <2>2 DEF Tied
    <2>5. ASSUME NEW d \in Conns, d # c
          PROVE  Tied(d)'
      BY <1>3, <2>1, <2>2, <2>5 DEF TokenInv, Tied
    <2> QED
      BY <2>1, <2>3, <2>4, <2>5 DEF TokenInv
  <1>4. ASSUME NEW c \in Conns, SessionCreated(c)
        PROVE  TokenInv'
    <2>1. session_token[c] = NoToken /\ stage[c] = "login"
      BY <1>4 DEF SessionCreated, TalkInv, Talk, Own
    <2>2. issued + 1 \in Tokens
      <3>1. TypeInv' /\ issued' = issued + 1
        BY <1>0, <1>4, TrackerTypeStep DEF SessionCreated, TrackerStep
      <3> QED
        BY <1>0, <3>1, SizesAssumption DEF TypeInv, TypeOK, Tokens
    <2>3. /\ session_token'[c] = issued + 1 /\ session_user'[c] = work[c]
          /\ stage'[c] = "recv" /\ issued' = issued + 1 /\ expired' = expired
          /\ \A d \in Conns : d # c => /\ session_user'[d] = session_user[d]
                                       /\ session_token'[d] = session_token[d]
                                       /\ stage'[d] = stage[d] /\ work'[d] = work[d]
      BY <1>0, <1>4 DEF SessionCreated, TypeOK
    <2>4. \A k \in Tokens : sessions'[k] = IF k = issued + 1 THEN work[c] ELSE sessions[k]
      BY <1>0, <1>4 DEF SessionCreated, TypeOK
    <2>5. Distinct'
      BY <1>0, <2>3 DEF TokenInv, Distinct
    <2>6. /\ OwnerOf(c)' = work[c]
          /\ \A d \in Conns : d # c => OwnerOf(d)' = OwnerOf(d)
      BY <1>0, <2>2, <2>3, <2>4 DEF TokenInv, Distinct, OwnerOf, Owner
    <2>7. TokensRevoked'
      <3> SUFFICES ASSUME NEW k \in Tokens, sessions'[k] # NoUser
                   PROVE  \E d \in Conns : session_token'[d] = k
        BY DEF TokensRevoked, Owner
      <3>1. CASE k = issued + 1
        BY <2>3, <3>1
      <3>2. CASE k # issued + 1
        <4>1. PICK d \in Conns : session_token[d] = k
          BY <2>4, <3>2 DEF TokenInv, TokensRevoked, Owner
        <4>2. d # c
          BY <2>1, <4>1, SizesAssumption DEF Tokens, NoToken
        <4> QED
          BY <2>3, <4>1, <4>2
      <3> QED
        BY <3>1, <3>2
    <2>8. Tied(c)'
      BY <2>3, <2>6 DEF Tied
    <2>9. ASSUME NEW d \in Conns, d # c
          PROVE  Tied(d)'
      BY <2>3, <2>6, <2>9 DEF TokenInv, Tied
    <2> QED
      BY <2>5, <2>7, <2>8, <2>9 DEF TokenInv
  <1>5. ASSUME NEW c \in Conns, LoginRefused(c) \/ LoginAccepted(c) \/ SessionFailed(c)
        PROVE  TokenInv'
    <2>1. UNCHANGED <<sessions, issued, session_token, session_user, expired>>
      BY <1>5 DEF LoginRefused, LoginAccepted, SessionFailed, tables, locals
    <2>2. \A d \in Conns :
             \/ stage'[d] = stage[d] /\ work'[d] = work[d]
             \/ stage'[d] \in {"recv", "login"} /\ stage[d] \in {"recv", "login"}
      BY <1>0, <1>5 DEF LoginRefused, LoginAccepted, SessionFailed, Request, locals,
         TypeOK
    <2> QED
      BY <1>1, <2>1, <2>2
  <1>6. ASSUME NEW c \in Conns, NEW v \in {"logout", "command"}, Request(c, v)
        PROVE  inbox[c].arg = session_token[c] /\ stage[c] = "recv"
    BY <1>6 DEF Request, TalkInv, Talk, Own
  <1>7. ASSUME NEW c \in Conns, LogoutRefused(c)
        PROVE  TokenInv'
    <2>1. OwnerOf(c) = NoUser /\ stage[c] = "recv"
      BY <1>6, <1>7 DEF LogoutRefused, OwnerOf
    <2> QED
      BY <1>3, <1>7, <2>1 DEF LogoutRefused, tables
  <1>8. ASSUME NEW c \in Conns, LogoutBegins(c)
        PROVE  TokenInv'
    <2>1. inbox[c].arg = session_token[c]
      BY <1>6, <1>8 DEF LogoutBegins
    <2>2. Owner(inbox[c].arg) = session_user[c]
      BY <1>8, <2>1 DEF LogoutBegins, TokenInv, Tied, OwnerOf
    <2>3. /\ stage'[c] = "logout" /\ work'[c] = session_user[c]
          /\ \A d \in Conns : d # c => stage'[d] = stage[d] /\ work'[d] = work[d]
      BY <1>0, <1>8, <2>2 DEF LogoutBegins, TypeOK
    <2> QED
      BY <1>2, <1>8, <2>1, <2>3 DEF LogoutBegins
  <1>9. ASSUME NEW c \in Conns, LogoutEnds(c) \/ DropEnds(c)
        PROVE  TokenInv'
    <2>1. OwnerOf(c) = NoUser
      BY <1>9 DEF LogoutEnds, DropEnds, TokenInv, Tied
    <2>2. /\ stage'[c] = "recv"
          /\ \A d \in Conns : d # c => stage'[d] = stage[d] /\ work'[d] = work[d]
      BY <1>0, <1>9 DEF LogoutEnds, DropEnds, TypeOK
    <2>3. ForgetSession(c) /\ UNCHANGED <<sessions, expired, issued>>
      BY <1>9 DEF LogoutEnds, DropEnds
    <2> QED
      BY <1>3, <2>1, <2>2, <2>3
  <1>10. ASSUME NEW c \in Conns, Command(c)
         PROVE  TokenInv'
    <2>1. inbox[c].arg = session_token[c] /\ stage[c] = "recv"
      BY <1>6, <1>10 DEF Command
    <2>2. UNCHANGED <<expired, issued, session_user, session_token, stage, work>>
      BY <1>10 DEF Command, locals
    <2>3. CASE inbox[c].arg \in expired
      BY <1>2, <1>10, <2>1, <2>2, <2>3 DEF Command
    <2>4. CASE inbox[c].arg \notin expired
      BY <1>1, <1>10, <2>2, <2>4 DEF Command
    <2> QED
      BY <2>3, <2>4
  <1>11. ASSUME NEW c \in Conns, DropBegins(c)
         PROVE  TokenInv'
    <2>1. /\ stage'[c] = "drop"
          /\ \A d \in Conns : d # c => stage'[d] = stage[d] /\ work'[d] = work[d]
      BY <1>0, <1>11 DEF DropBegins, TypeOK
    <2> QED
      BY <1>2, <1>11, <2>1 DEF DropBegins
  <1>12. ASSUME NEW c \in Conns,
                \/ Connect(c) \/ Exit(c) \/ ClientStep(c)
                \/ \E t \in Threads, u \in Users : BeginLogin(c, t, u)
                \/ \E t \in Threads, verb \in {"logout", "command"} :
                      BeginCommand(c, t, verb)
         PROVE  UNCHANGED <<tables, locals>>
    BY <1>12 DEF Connect, Exit, ClientStep, ReadToken, Send, Receive, Apply,
       BeginLogin, BeginCommand
  <1>13. CASE UNCHANGED <<tables, locals>>
    BY <1>1, <1>13 DEF tables, locals
  <1>14. ASSUME NEW k \in Tokens, Expire(k)
         PROVE  TokenInv'
    BY <1>1, <1>14 DEF Expire, locals
  <1> QED
    BY <1>4, <1>5, <1>7, <1>8, <1>9, <1>10, <1>11, <1>12, <1>13, <1>14
    DEF Next, TrackerStep, vars

\* They do throughout.
LEMMA AlwaysTied ==
  ASSUME OneThread
  PROVE  Spec => []TokenInv
  <1>1. Init => TokenInv
    <2>1. NoToken \notin Tokens
      BY SizesAssumption DEF NoToken, Tokens
    <2> QED
      BY <2>1 DEF Init, TokenInv, Distinct, TokensRevoked, Tied, OwnerOf, Owner, NoToken
  <1>2. TalkInv /\ TokenInv /\ [Next]_vars => TokenInv'
    BY TokenStep
  <1> QED
    BY <1>1, <1>2, AlwaysInTurn, PTL DEF Spec

\* TokensAreRevoked: every token the tracker still honours is the one some
\* connection thread has noted and will revoke when its client logs out or is
\* gone (managepeer with g_sessions), for any clients and in any order of
\* logins, logouts, hang-ups and expiry, when one thread of each client
\* executes commands.
THEOREM TokensAreRevoked ==
  ASSUME OneThread
  PROVE  Spec => []TokensRevoked
  <1>1. TokenInv => TokensRevoked
    BY DEF TokenInv
  <1> QED
    BY <1>1, AlwaysTied, PTL
-----------------------------------------------------------------------------
(* The addresses the tracker hands out. *)

\* c is in charge of u's address: it will clear it when its client is gone.
InCharge(c, u) == session_user[c] = u \/ (stage[c] = "login" /\ work[c] = u)
Cleared ==
    Undisturbed => \A c \in Conns, u \in Users : addr[u] = c => InCharge(c, u)

\* Nobody is logged in without the password.
Entitled(c) ==
    /\ session_user[c] \in accounts[c] \cup {NoUser}
    /\ stage[c] = "login" => work[c] \in accounts[c]

\* When nobody shares an account, whoever has a live token is advertised.
Advertised(c) ==
    NoneShared => /\ stage[c] = "login" => addr[work[c]] = c
                  /\ OwnerOf(c) # NoUser => addr[session_user[c]] = c

AddrInv == Cleared /\ \A c \in Conns : Entitled(c) /\ Advertised(c)

\* Clearing the address of a session's user when the session ends (logout,
\* handle_disconnect).
LEMMA SessionEnds ==
  ASSUME TypeInv, TokenInv, AddrInv, NEW c \in Conns, stage[c] # "login",
         OwnerOf(c) = NoUser, ForgetSession(c), stage'[c] = "recv",
         UNCHANGED <<sessions, expired, dry, accounts>>,
         \A d \in Conns : d # c => stage'[d] = stage[d] /\ work'[d] = work[d],
         \A u \in Users : addr'[u] = IF u = session_user[c] THEN Offline ELSE addr[u]
  PROVE  AddrInv'
  <1>0. TypeOK /\ Offline \notin Conns /\ NoUser \notin Users
    BY NoValues DEF TypeInv
  <1>1. /\ session_user'[c] = NoUser /\ OwnerOf(c)' = NoUser
        /\ \A d \in Conns : d # c => /\ session_user'[d] = session_user[d]
                                     /\ OwnerOf(d)' = OwnerOf(d)
    BY <1>0, ForgetOwners DEF ForgetSession, TypeOK, TokenInv
  <1>2. Cleared'
    BY <1>0, <1>1 DEF AddrInv, Cleared, InCharge, Undisturbed
  <1>3. Entitled(c)' /\ Advertised(c)'
    BY <1>1 DEF Entitled, Advertised
  <1>4. ASSUME NEW d \in Conns, d # c
        PROVE  Entitled(d)' /\ Advertised(d)'
    <2>1. Entitled(d) /\ Advertised(d) /\ Entitled(c)
      BY DEF AddrInv
    <2>2. Entitled(d)'
      BY <1>1, <1>4, <2>1 DEF Entitled
    <2>3. ASSUME NEW u \in accounts[d], NoneShared, addr[u] = d
          PROVE  addr'[u] = d
      <3>1. u \in Users
        BY <1>0, HoldingsAssumption DEF TypeOK
      <3>2. u # session_user[c]
        BY <1>0, <1>4, <2>1, <2>3, <3>1 DEF Entitled, NoneShared
      <3> QED
        BY <2>3, <3>1, <3>2
    <2>4. OwnerOf(d) # NoUser => session_user[d] \in accounts[d]
      BY <2>1 DEF Entitled, TokenInv, Tied
    <2>5. NoneShared' = NoneShared
      BY DEF NoneShared
    <2>6. Advertised(d)'
      BY <1>1, <1>4, <2>1, <2>3, <2>4, <2>5 DEF Advertised, Entitled
    <2> QED
      BY <2>2, <2>6
  <1> QED
    BY <1>2, <1>3, <1>4 DEF AddrInv

\* Addresses follow the sessions.
LEMMA AddrStep ==
  ASSUME OneThread, TalkInv, TokenInv, AddrInv, [Next]_vars
  PROVE  AddrInv'
  <1>0. TypeInv /\ TypeOK /\ Offline \notin Conns /\ NoUser \notin Users
        /\ dry \in Nat
    BY NoValues, SizesAssumption DEF TalkInv, TypeInv, TypeOK
  <1>1. ASSUME UNCHANGED <<addr, session_user, accounts>>, Undisturbed' => Undisturbed,
               \A c \in Conns : /\ OwnerOf(c)' \in {OwnerOf(c), NoUser}
                                /\ stage'[c] = "login" =>
                                      stage[c] = "login" /\ work'[c] = work[c]
                                /\ stage[c] = "login" =>
                                      ~Undisturbed' \/ (stage'[c] = "login" /\ work'[c] = work[c])
        PROVE  AddrInv'
    <2>1. Cleared'
      BY <1>1 DEF AddrInv, Cleared, InCharge
    <2>2. ASSUME NEW c \in Conns
          PROVE  Entitled(c)' /\ Advertised(c)'
      BY <1>1 DEF AddrInv, Entitled, Advertised, NoneShared
    <2> QED
      BY <2>1, <2>2 DEF AddrInv
  <1>2. ASSUME NEW c \in Conns, LoginAccepted(c)
        PROVE  AddrInv'
    <2>1. /\ stage[c] = "recv" /\ Asks(c) /\ inbox[c] \in Requests
          /\ session_user[c] = NoUser /\ session_token[c] = NoToken
      BY <1>0, <1>2
      DEF LoginAccepted, Request, Asks, TalkInv, Talk, Own, TypeOK
    <2>2. PICK u \in Users :
             /\ u \in accounts[c] /\ stage'[c] = "login" /\ work'[c] = u
             /\ \A v \in Users : addr'[v] = IF v = u THEN c ELSE addr[v]
      BY <1>0, <1>2, <2>1 DEF LoginAccepted, Asks, Requests, TypeOK
    <2>3. /\ UNCHANGED <<sessions, expired, dry, session_user, session_token, accounts>>
          /\ \A d \in Conns : d # c => stage'[d] = stage[d] /\ work'[d] = work[d]
          /\ \A d \in Conns : OwnerOf(d)' = OwnerOf(d)
      BY <1>0, <1>2 DEF LoginAccepted, bounds, TypeOK, OwnerOf, Owner
    <2>4. OwnerOf(c) = NoUser
      BY <2>1, SizesAssumption DEF OwnerOf, Owner, NoToken, Tokens
    <2>5. Cleared'
      BY <1>0, <2>1, <2>2, <2>3 DEF AddrInv, Cleared, InCharge, Undisturbed
    <2>6. Entitled(c)' /\ Advertised(c)'
      BY <2>1, <2>2, <2>3, <2>4 DEF Entitled, Advertised
    <2>7. ASSUME NEW d \in Conns, d # c
          PROVE  Entitled(d)' /\ Advertised(d)'
      <3>1. Entitled(d) /\ Advertised(d)
        BY DEF AddrInv
      <3>2. Entitled(d)'
        BY <2>3, <2>7, <3>1 DEF Entitled
      <3>3. ASSUME NEW v \in accounts[d], NoneShared, addr[v] = d
            PROVE  addr'[v] = d
        <4>1. v \in Users
          BY <1>0, HoldingsAssumption DEF TypeOK
        <4>2. v # u
          BY <2>2, <2>7, <3>3 DEF NoneShared
        <4> QED
          BY <2>2, <3>3, <4>1, <4>2
      <3>4. OwnerOf(d) # NoUser => session_user[d] \in accounts[d]
        BY <3>1 DEF Entitled, TokenInv, Tied
      <3>5. NoneShared' = NoneShared
        BY <2>3 DEF NoneShared
      <3>6. Advertised(d)'
        BY <2>3, <2>7, <3>1, <3>3, <3>4, <3>5 DEF Advertised, Entitled
      <3> QED
        BY <3>2, <3>6
    <2> QED
      BY <2>5, <2>6, <2>7 DEF AddrInv
  <1>3. ASSUME NEW c \in Conns, SessionCreated(c)
        PROVE  AddrInv'
    <2>1. /\ stage[c] = "login" /\ stage'[c] = "recv" /\ session_user[c] = NoUser
          /\ session_user'[c] = work[c]
          /\ \A d \in Conns : d # c => /\ session_user'[d] = session_user[d]
                                       /\ session_token'[d] = session_token[d]
                                       /\ stage'[d] = stage[d] /\ work'[d] = work[d]
          /\ UNCHANGED <<addr, expired, dry, accounts>>
      BY <1>0, <1>3 DEF SessionCreated, TypeOK, bounds, TalkInv, Talk, Own
    <2>2. \A d \in Conns : d # c => OwnerOf(d)' = OwnerOf(d)
      <3>1. ASSUME NEW d \in Conns, d # c
            PROVE  OwnerOf(d)' = OwnerOf(d)
        <4>1. session_token[d] # issued + 1
          BY <1>0, SizesAssumption DEF TokenInv, Distinct, TypeOK, Tokens, NoToken
        <4> QED
          BY <1>0, <1>3, <2>1, <3>1, <4>1 DEF SessionCreated, TypeOK, OwnerOf, Owner
      <3> QED
        BY <3>1
    <2>3. Cleared'
      BY <1>0, <2>1 DEF AddrInv, Cleared, InCharge, Undisturbed
    <2>4. Entitled(c)' /\ Advertised(c)'
      BY <2>1 DEF AddrInv, Entitled, Advertised, NoneShared
    <2>5. ASSUME NEW d \in Conns, d # c
          PROVE  Entitled(d)' /\ Advertised(d)'
      BY <2>1, <2>2, <2>5 DEF AddrInv, Entitled, Advertised, NoneShared
    <2> QED
      BY <2>3, <2>4, <2>5 DEF AddrInv
  <1>4. ASSUME NEW c \in Conns, SessionFailed(c)
        PROVE  AddrInv'
    <2>1. /\ UNCHANGED <<addr, sessions, session_user, session_token, accounts>>
          /\ ~Undisturbed'
          /\ \A d \in Conns : stage'[d] = "login" =>
                                 stage[d] = "login" /\ work'[d] = work[d]
      BY <1>0, <1>4 DEF SessionFailed, tables, TypeOK, Undisturbed
    <2>2. \A d \in Conns : OwnerOf(d)' = OwnerOf(d)
      BY <2>1 DEF OwnerOf, Owner
    <2> QED
      BY <1>1, <2>1, <2>2
  <1>5. ASSUME NEW c \in Conns, LogoutRefused(c)
        PROVE  AddrInv'
    <2>1. /\ OwnerOf(c) = NoUser /\ stage[c] = "recv"
          /\ UNCHANGED <<addr, sessions, expired, dry, accounts, stage, work>>
          /\ ForgetSession(c)
      BY <1>5 DEF LogoutRefused, Request, OwnerOf, TalkInv, Talk, Own, tables, bounds
    <2>2. /\ session_user'[c] = NoUser /\ OwnerOf(c)' = NoUser
          /\ \A d \in Conns : d # c => /\ session_user'[d] = session_user[d]
                                       /\ OwnerOf(d)' = OwnerOf(d)
      BY <1>0, <2>1, ForgetOwners DEF ForgetSession, TypeOK, TokenInv
    <2>3. Undisturbed => session_user[c] = NoUser
      BY <2>1 DEF Undisturbed, TokenInv, Tied
    <2>4. Cleared'
      BY <1>0, <2>1, <2>2, <2>3 DEF AddrInv, Cleared, InCharge, Undisturbed
    <2>5. \A d \in Conns : Entitled(d)' /\ Advertised(d)'
      BY <2>1, <2>2 DEF AddrInv, Entitled, Advertised, NoneShared
    <2> QED
      BY <2>4, <2>5 DEF AddrInv
  <1>6. ASSUME NEW c \in Conns, LogoutBegins(c) \/ Command(c) \/ DropBegins(c)
        PROVE  AddrInv'
    <2>1. /\ UNCHANGED <<addr, expired, dry, session_user, session_token, accounts>>
          /\ \A d \in Conns : /\ stage[d] = "login" =>
                                    stage'[d] = "login" /\ work'[d] = work[d]
                              /\ stage'[d] = "login" =>
                                    stage[d] = "login" /\ work'[d] = work[d]
      BY <1>0, <1>6
      DEF LogoutBegins, Command, DropBegins, Request, bounds, locals, TypeOK
    <2>2. sessions' = sessions \/ \E k : sessions' = destroy(k)
      BY <1>6 DEF LogoutBegins, Command, DropBegins
    <2>3. \A d \in Conns : OwnerOf(d)' \in {OwnerOf(d), NoUser}
      BY <1>0, <2>1, <2>2 DEF OwnerOf, Owner, destroy, TypeOK
    <2> QED
      BY <1>1, <2>1, <2>3 DEF Undisturbed
  <1>7. ASSUME NEW c \in Conns, LogoutEnds(c) \/ DropEnds(c)
        PROVE  AddrInv'
    <2>1. /\ stage[c] \in {"logout", "drop"} /\ stage'[c] = "recv"
          /\ ForgetSession(c) /\ UNCHANGED <<sessions, expired, dry, accounts>>
          /\ \A d \in Conns : d # c => stage'[d] = stage[d] /\ work'[d] = work[d]
      BY <1>0, <1>7 DEF LogoutEnds, DropEnds, bounds, TypeOK
    <2>2. OwnerOf(c) = NoUser /\ (stage[c] = "logout" => work[c] = session_user[c])
      BY <2>1 DEF TokenInv, Tied
    <2>3. \A u \in Users : addr'[u] = IF u = session_user[c] THEN Offline ELSE addr[u]
      BY <1>0, <1>7, <2>2 DEF LogoutEnds, DropEnds, TypeOK
    <2> QED
      BY <1>0, <2>1, <2>2, <2>3, SessionEnds
  <1>8. ASSUME NEW c \in Conns,
               \/ Connect(c) \/ Exit(c) \/ ClientStep(c)
               \/ \E t \in Threads, u \in Users : BeginLogin(c, t, u)
               \/ \E t \in Threads, verb \in {"logout", "command"} :
                     BeginCommand(c, t, verb)
        PROVE  UNCHANGED <<tables, locals, accounts, dry>>
    BY <1>8 DEF Connect, Exit, ClientStep, ReadToken, Send, Receive, Apply,
       BeginLogin, BeginCommand, bounds
  <1>9. ASSUME NEW c \in Conns, LoginRefused(c)
        PROVE  UNCHANGED <<tables, locals, accounts, dry>>
    BY <1>9 DEF LoginRefused, bounds
  <1>10. CASE UNCHANGED <<tables, locals, accounts, dry>>
    <2>1. \A d \in Conns : OwnerOf(d)' = OwnerOf(d)
      BY <1>10 DEF OwnerOf, Owner, tables, locals
    <2> QED
      BY <1>1, <1>10, <2>1 DEF tables, locals, Undisturbed
  <1>11. ASSUME NEW k \in Tokens, Expire(k)
         PROVE  AddrInv'
    <2>1. \A d \in Conns : OwnerOf(d)' = OwnerOf(d)
      BY <1>11 DEF Expire, OwnerOf, Owner, locals
    <2> QED
      BY <1>1, <1>11, <2>1 DEF Expire, locals, Undisturbed
  <1> QED
    BY <1>2, <1>3, <1>4, <1>5, <1>6, <1>7, <1>8, <1>9, <1>10, <1>11
    DEF Next, TrackerStep, vars, bounds

\* They do throughout.
LEMMA AlwaysPlaced ==
  ASSUME OneThread
  PROVE  Spec => []AddrInv
  <1>1. Init => AddrInv
    <2>1. NoToken \notin Tokens
      BY SizesAssumption DEF NoToken, Tokens
    <2> QED
      BY <2>1, NoValues DEF Init, AddrInv, Cleared, InCharge, Entitled, Advertised,
         OwnerOf, Owner
  <1>2. TalkInv /\ TokenInv /\ AddrInv /\ [Next]_vars => AddrInv'
    BY AddrStep
  <1> QED
    BY <1>1, <1>2, AlwaysInTurn, AlwaysTied, PTL DEF Spec

\* AddressesLive: as long as no token has expired and random_hex has not
\* failed, every address the tracker hands out is of a client whose hang-up it
\* has not dealt with (TrackerState::login, logout and handle_disconnect), for
\* any clients and accounts, shared or not, when one thread of each client
\* executes commands.
THEOREM AddressesLive ==
  ASSUME OneThread
  PROVE  Spec => []LiveAddresses
  <1>1. TalkInv /\ AddrInv => LiveAddresses
    <2> SUFFICES ASSUME TalkInv, AddrInv, Undisturbed, NEW u \in Users, addr[u] # Offline
                 PROVE  conn[addr[u]] # "closed"
      BY DEF LiveAddresses, NoDeadAddress
    <2>1. addr[u] \in Conns
      BY DEF TalkInv, TypeInv, TypeOK
    <2>2. InCharge(addr[u], u)
      BY <2>1 DEF AddrInv, Cleared
    <2> QED
      BY <2>1, <2>2, NoValues DEF InCharge, TalkInv, Talk, Silent
  <1> QED
    BY <1>1, AlwaysInTurn, AlwaysPlaced, PTL

\* HoldersListed: when nobody shares an account, every hang-up is dealt with
\* and nothing is under way, the user of a client that holds a live token is
\* advertised (TrackerState::login against the disconnects of others), for any
\* clients, when one thread of each executes commands.
THEOREM HoldersListed ==
  ASSUME OneThread
  PROVE  Spec => []Listed
  <1>1. TalkInv /\ AddrInv => Listed
    <2> SUFFICES ASSUME TalkInv, AddrInv, NoneShared,
                        \A c \in Conns : Quiet(c) /\ conn[c] # "gone",
                        NEW c \in Conns, Owner(client[c].token) # NoUser
                 PROVE  addr[client[c].peername] # Offline
      BY DEF Listed
    <2>1. conn[c] = "open"
      <3>1. LoggedOut.token = NoToken /\ Owner(NoToken) = NoUser
        BY SizesAssumption DEF LoggedOut, Owner, NoToken, Tokens
      <3>2. conn[c] \in {"open", "closed"}
        BY DEF TalkInv, TypeInv, TypeOK
      <3> QED
        BY <3>1, <3>2 DEF TalkInv, Talk, Silent
    <2>2. session_user[c] = client[c].peername /\ session_token[c] = client[c].token
      BY <2>1, QuietAgrees
    <2>3. addr[session_user[c]] = c
      BY <2>2 DEF AddrInv, Advertised, OwnerOf
    <2> QED
      BY <2>2, <2>3, NoValues
  <1> QED
    BY <1>1, AlwaysInTurn, AlwaysPlaced, PTL
=============================================================================
