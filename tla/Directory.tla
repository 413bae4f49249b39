----------------------------- MODULE Directory ------------------------------
(***************************************************************************)
(* What replicating trackers promise about one of their maps, whatever the *)
(* links, messages and processes do.  Every tracker holds a book that maps *)
(* keys to values.  Only a client's command enters a value into a book;    *)
(* copies of whole books travel and may arrive late, out of order or       *)
(* never, and a tracker that receives one fills the gaps of its own book   *)
(* and changes nothing else.  A book is saved as a whole, as it was when   *)
(* the save began, and a tracker that starts opens the one it saved last.  *)
(***************************************************************************)
EXTENDS Naturals

CONSTANTS Trackers, Keys, Values,
          Absent,    \* the value of a key that is not in a book
          Revisable  \* whether a client may enter a new value for a key

VARIABLES desk,     \* each tracker: "closed", "opening" or "open"
          known,    \* the book it works with
          draft,    \* the book it is saving, if any, as a set
          stored,   \* the book it has saved, if any, as a set
          sent,     \* the copies under way
          entries   \* how many commands clients have given

vars == <<desk, known, draft, stored, sent, entries>>

Books == [Keys -> Values \cup {Absent}]
Blank == [k \in Keys |-> Absent]

\* Book b with its gaps filled from book c.
Filled(b, c) == [k \in Keys |-> IF b[k] = Absent THEN c[k] ELSE b[k]]

Init ==
    /\ desk \in [Trackers -> {"closed", "opening"}]
    /\ known = [t \in Trackers |-> Blank]
    /\ draft = [t \in Trackers |-> {}]
    /\ \A t \in Trackers : stored[t] = {} \/ \E b \in Books : stored[t] = {b}
    /\ sent = {}
    /\ entries = 0

\* A command of a client, about this book or about something else.
Command(t) ==
    /\ desk[t] = "open"
    /\ \/ UNCHANGED known
       \/ \E k \in Keys, v \in Values :
             /\ Revisable \/ known[t][k] = Absent
             /\ known' = [known EXCEPT ![t][k] = v]
    /\ entries' = entries + 1
    /\ UNCHANGED <<desk, draft, stored, sent>>

\* A copy leaves; others may get lost.
Send(t) ==
    /\ desk[t] # "closed"
    /\ sent' \subseteq sent \cup {known[t]}
    /\ UNCHANGED <<desk, known, draft, stored, entries>>

Receive(t) ==
    /\ desk[t] # "closed"
    /\ \E c \in sent : known' = [known EXCEPT ![t] = Filled(@, c)]
    /\ sent' \subseteq sent
    /\ UNCHANGED <<desk, draft, stored, entries>>

Save(t) ==
    /\ desk[t] = "open" /\ draft[t] = {}
    /\ draft' = [draft EXCEPT ![t] = {known[t]}]
    /\ UNCHANGED <<desk, known, stored, sent, entries>>

\* The save is done, or has failed.
Saved(t) ==
    /\ draft[t] # {}
    /\ stored' = [stored EXCEPT ![t] = draft[t]] \/ UNCHANGED stored
    /\ draft' = [draft EXCEPT ![t] = {}]
    /\ UNCHANGED <<desk, known, sent, entries>>

\* The process ends and takes its book and copies it has not read with it.
Stop(t) ==
    /\ desk[t] # "closed"
    /\ desk' = [desk EXCEPT ![t] = "closed"]
    /\ known' = [known EXCEPT ![t] = Blank]
    /\ draft' = [draft EXCEPT ![t] = {}]
    /\ sent' \subseteq sent
    /\ UNCHANGED <<stored, entries>>

Start(t) ==
    /\ desk[t] = "closed"
    /\ desk' = [desk EXCEPT ![t] = "opening"]
    /\ UNCHANGED <<known, draft, stored, sent, entries>>

Open(t) ==
    /\ desk[t] = "opening"
    /\ desk' = [desk EXCEPT ![t] = "open"]
    /\ IF stored[t] = {} THEN UNCHANGED known
       ELSE \E b \in stored[t] : known' = [known EXCEPT ![t] = b]
    /\ UNCHANGED <<draft, stored, sent, entries>>

Next ==
    \E t \in Trackers :
        \/ Command(t) \/ Send(t) \/ Receive(t) \/ Save(t) \/ Saved(t)
        \/ Stop(t) \/ Start(t) \/ Open(t)

Spec == Init /\ [][Next]_vars
=============================================================================
