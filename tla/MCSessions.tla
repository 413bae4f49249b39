----------------------------- MODULE MCSessions -----------------------------
(* Two client processes of one tracker. *)
EXTENDS Sessions

CONSTANTS c1, c2, u1, u2

TwoClients == {c1, c2}
Everyone == {u1, u2}

\* Both people have both accounts, or each has one.
SharedAccounts == [c \in TwoClients |-> Everyone]
OwnAccounts == [c \in TwoClients |-> IF c = c1 THEN {u1} ELSE {u2}]
SharedOrOwn == {SharedAccounts, OwnAccounts}
Own == {OwnAccounts}
=============================================================================
