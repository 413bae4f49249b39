---------------------------- MODULE MCReplication ---------------------------
(* Two trackers, each the other's peer, over small sets of clients' data. *)
EXTENDS Replication

CONSTANTS t1, t2, u1, u2, g1, f1, m1, p1, p2

TwoTrackers == {t1, t2}
EachOther == [t \in TwoTrackers |-> IF t = t1 THEN t2 ELSE t1]

FaultVerbs == {"create_user", "create_group", "leave_group", "accept_request",
               "reject_request", "stop_share"}
GrowingVerbs == {"create_user", "login", "logout", "join_group", "upload_file",
                 "file_downloaded"}

\* Snapshots of trackers that have been running for a while, by the commands
\* that lead there: u1 has an account, and with it the group g1.
Registered == create_user(Empty, u1, p1)
Young == create_group(Registered, g1, u1)

\* Trackers that have run without a link and disagree: on the first one u1
\* also seeds a file and u2 has asked to join the group, on the second u1 and
\* u2 have other passwords and there is no group.
Ours == join_group(upload_file(create_user(Young, u2, p1), g1, f1, u1, m1), g1, u2)
Theirs == create_user(create_user(Empty, u1, p2), u2, p2)

\* t1 starts over the snapshot of d, t2 over that of e.
Over(d, e) == StartedOver([t \in Trackers |-> serialize(IF t = t1 THEN d ELSE e)])

ApartSpec == (Init \/ Over(Ours, Theirs)) /\ [][Next]_vars
YoungFairSpec == Over(Young, Young) /\ [][Next]_vars /\ Fairness

\* t2 was killed after t1 had saved the group and before t2 had.
BehindFairSpec == Over(Young, Registered) /\ [][Next]_vars /\ Fairness
=============================================================================
