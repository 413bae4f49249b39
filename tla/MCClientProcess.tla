-------------------------- MODULE MCClientProcess ---------------------------
(* One client with two workers, two peers, a browser and a download. *)
EXTENDS ClientProcess

CONSTANTS c1, c2, w1, w2, b1, d1

TwoPeers == {c1, c2}
TwoWorkers == {w1, w2}
=============================================================================
