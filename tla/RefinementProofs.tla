-------------------------- MODULE RefinementProofs --------------------------
(***************************************************************************)
(* What replicating trackers promise together, for any trackers, peers,    *)
(* users and files, each started over any snapshot or over none: the map   *)
(* of accounts and the map of file metadata are books in the sense of      *)
(* Directory and a snapshot never loses what it had, both if the saves of  *)
(* a tracker do not overlap; whoever is first with an account or a file    *)
(* stays first; and what a tracker got since it loaded its snapshot has    *)
(* arrived when its link has nothing left to push.                         *)
(*                                                                         *)
(* The steps of Replication come in few shapes, told apart by what they do *)
(* to the databases, the snapshots and the copies under way (Shapes).      *)
(* Every step has one of them (StepHasShape), and each shape is an action  *)
(* of Directory or a stutter for both books.                               *)
(***************************************************************************)
EXTENDS ReplicationProofs

USE DEF fileVars

\* A link is in a session only while its own process lives; without it a copy
\* could arrive at a tracker that is down.
Linked == \A t \in Trackers : phase[t] = "down" => at[t] = "idle"

LinkInv == TypeInv /\ Linked

-----------------------------------------------------------------------------
(* The shapes of a step. *)

Unmoved == UNCHANGED <<db, phase, disk, saving, box, late, writes>>

\* One book changes as a client's command may change it.
CredEntered(d, e) ==
    \/ e.cred = d.cred
    \/ \E u \in Users, p \in Passwords :
          d.cred[u] = NoPassword /\ e.cred = [d.cred EXCEPT ![u] = p]
MetaEntered(d, e) ==
    \/ e.meta = d.meta
    \/ \E k \in Files, m \in Metas : e.meta = [d.meta EXCEPT ![k] = m]

Commanded(t) ==
    /\ Serving(t)
    /\ \E d \in Durable : /\ db' = [db EXCEPT ![t] = d]
                          /\ CredEntered(db[t], d) /\ MetaEntered(db[t], d)
                          /\ db[t].groups \subseteq d.groups
    /\ writes' = writes + 1
    /\ UNCHANGED <<phase, disk, saving, box, late>>

Copied(t) ==
    /\ phase[t] # "down"
    /\ Copies' \subseteq Copies \cup {serialize(db[t])}
    /\ UNCHANGED <<db, phase, disk, saving, writes>>

Merged(t) ==
    /\ phase[t] # "down"
    /\ \E r \in Copies : db' = [db EXCEPT ![t] = merge(db[t], r)]
    /\ Copies' \subseteq Copies
    /\ UNCHANGED <<phase, disk, saving, writes>>

Begun(t) ==
    /\ Serving(t) /\ (Overlap \/ saving[t] = NoRecords)
    /\ saving' = [saving EXCEPT ![t] = serialize(db[t])]
    /\ phase' = phase \/ phase' = [phase EXCEPT ![t] = "stopping"]
    /\ UNCHANGED <<db, disk, box, late, writes>>

Filed(t) ==
    /\ saving[t] # NoRecords
    /\ \E q \in Left(t) : disk' = [disk EXCEPT ![t] = q]
    /\ ~Overlap => saving' = [saving EXCEPT ![t] = NoRecords]
    /\ UNCHANGED <<db, phase, box, late, writes>>

Stopped(t) ==
    /\ phase[t] # "down" /\ phase' = [phase EXCEPT ![t] = "down"]
    /\ db' = [db EXCEPT ![t] = Empty]
    /\ saving' = [saving EXCEPT ![t] = NoRecords]
    /\ Copies' \subseteq Copies
    /\ UNCHANGED <<disk, writes>>

Started(t) ==
    /\ phase[t] = "down" /\ phase' = [phase EXCEPT ![t] = "starting"]
    /\ UNCHANGED <<db, disk, saving, box, late, writes>>

Opened(t) ==
    /\ phase[t] = "starting" /\ phase' = [phase EXCEPT ![t] = "up"]
    /\ IF disk[t] = NoRecords THEN UNCHANGED db
       ELSE db' = [db EXCEPT ![t] = load(disk[t])]
    /\ UNCHANGED <<disk, saving, box, late, writes>>

Shape(t) ==
    \/ Commanded(t) \/ Copied(t) \/ Merged(t) \/ Begun(t) \/ Filed(t)
    \/ Stopped(t) \/ Started(t) \/ Opened(t)

-----------------------------------------------------------------------------
(* Every step has a shape. *)

\* The copies under way are records (what serialize wrote).
LEMMA CopiesAreRecords ==
  ASSUME TypeInv
  PROVE  /\ Copies \subseteq Records
         /\ \A t \in Trackers : /\ box[t] # NoRecords => box[t] \in Copies
                                /\ \A r \in late[t] : r \in Copies
  BY NoRecordsAssumption DEF TypeInv, TypeOK, Copies, InFlight

\* Every command enters at most one account, under a name that is free, and at
\* most one file's metadata (dispatch).
LEMMA CommandShape ==
  ASSUME TypeInv, NEW t \in Trackers, ClientCommand(t)
  PROVE  Commanded(t)
  <1> DEFINE d == db[t]
             Enters(e) == /\ e \in Durable /\ CredEntered(d, e)
                          /\ MetaEntered(d, e) /\ d.groups \subseteq e.groups
  <1>0. d \in Durable
    BY DEF TypeInv, TypeOK
  <1> HIDE DEF d
  <1>1. Enters(d)
    BY <1>0 DEF CredEntered, MetaEntered
  <1>2. ASSUME NEW u \in Users, NEW p \in Passwords, create_user_ok(d, u)
        PROVE  Enters(create_user(d, u, p))
    <2>1. /\ create_user(d, u, p).cred = [d.cred EXCEPT ![u] = p]
          /\ create_user(d, u, p).meta = d.meta
          /\ create_user(d, u, p).groups = d.groups
          /\ d.cred[u] = NoPassword
      BY <1>0, <1>2 DEF create_user, create_user_ok, user_exists, Durable
    <2> QED
      BY <1>0, <2>1, CreateUserType DEF CredEntered, MetaEntered
  <1>3. ASSUME NEW u \in Users, NEW g \in Groups
        PROVE  Enters(create_group(d, g, u)) /\ Enters(join_group(d, g, u))
    <2>1. /\ create_group(d, g, u).cred = d.cred /\ join_group(d, g, u).cred = d.cred
          /\ create_group(d, g, u).meta = d.meta /\ join_group(d, g, u).meta = d.meta
          /\ d.groups \subseteq create_group(d, g, u).groups
          /\ join_group(d, g, u).groups = d.groups
      BY <1>0 DEF create_group, join_group, Durable
    <2> QED
      BY <1>0, <2>1, CreateGroupType, JoinGroupType DEF CredEntered, MetaEntered
  <1>4. ASSUME NEW u \in Users, NEW g \in Groups, NEW heir \in heirs(d, g, u)
        PROVE  Enters(leave_group(d, g, u, heir))
    <2>1. /\ leave_group(d, g, u, heir).cred = d.cred
          /\ leave_group(d, g, u, heir).meta = d.meta
          /\ leave_group(d, g, u, heir).groups = d.groups
      BY <1>0 DEF leave_group, Durable
    <2> QED
      BY <1>0, <2>1, LeaveGroupType DEF CredEntered, MetaEntered
  <1>5. ASSUME NEW g \in Groups, NEW a \in Users
        PROVE  Enters(accept_request(d, g, a)) /\ Enters(reject_request(d, g, a))
    <2>1. /\ accept_request(d, g, a).cred = d.cred
          /\ accept_request(d, g, a).meta = d.meta
          /\ reject_request(d, g, a).cred = d.cred
          /\ reject_request(d, g, a).meta = d.meta
          /\ accept_request(d, g, a).groups = d.groups
          /\ reject_request(d, g, a).groups = d.groups
      BY <1>0 DEF accept_request, reject_request, Durable
    <2> QED
      BY <1>0, <2>1, AnswerType DEF CredEntered, MetaEntered
  <1>6. ASSUME NEW u \in Users, NEW g \in Groups, NEW f \in Names, NEW m \in Metas
        PROVE  Enters(upload_file(d, g, f, u, m))
    <2>1. /\ upload_file(d, g, f, u, m).cred = d.cred
          /\ upload_file(d, g, f, u, m).meta = [d.meta EXCEPT ![<<g, f>>] = m]
          /\ upload_file(d, g, f, u, m).groups = d.groups
          /\ <<g, f>> \in Files
      BY <1>0 DEF upload_file, Durable, Files
    <2> QED
      BY <1>0, <2>1, UploadFileType DEF CredEntered, MetaEntered
  <1>7. ASSUME NEW u \in Users, NEW g \in Groups, NEW f \in Names
        PROVE  Enters(file_downloaded(d, g, f, u)) /\ Enters(stop_share(d, g, f, u))
    <2>1. /\ file_downloaded(d, g, f, u).cred = d.cred
          /\ file_downloaded(d, g, f, u).meta = d.meta
          /\ stop_share(d, g, f, u).cred = d.cred
          /\ stop_share(d, g, f, u).meta = d.meta
          /\ file_downloaded(d, g, f, u).groups = d.groups
          /\ stop_share(d, g, f, u).groups = d.groups
      BY <1>0 DEF file_downloaded, stop_share, Durable
    <2> QED
      BY <1>0, <2>1, SeederType DEF CredEntered, MetaEntered
  <1> HIDE DEF Enters
  <1>8. \E verb, e, ad : Execute(t, verb, e, ad) /\ Enters(e)
    BY <1>1, <1>2, <1>3, <1>4, <1>5, <1>6, <1>7
    DEF ClientCommand, CreateUser, Login, Logout, CreateGroup, JoinGroup,
        LeaveGroup, AcceptRequest, RejectRequest, UploadFile, FileDownloaded,
        StopShare, d
  <1> QED
    BY <1>8 DEF Execute, Commanded, Enters, d

\* A session ends: what it had under way is lost or stays as a late STATE.
LEMMA HangupCopies ==
  ASSUME TypeInv, NEW t \in Trackers, Hangup(t)
  PROVE  Copies' \subseteq Copies
  <1> SUFFICES ASSUME NEW r \in Copies' PROVE r \in Copies
    OBVIOUS
  <1>1. r # NoRecords /\ \E x \in Trackers : r = box'[x] \/ r \in late'[x]
    BY DEF Copies, InFlight
  <1>2. \E x \in Trackers : r = box[x] \/ r \in late[x]
    BY <1>1 DEF Hangup, TypeInv, TypeOK
  <1> QED
    BY <1>1, <1>2 DEF Copies, InFlight

\* A message goes into the box: one copy more.
LEMMA BoxedCopies ==
  ASSUME TypeInv, NEW t \in Trackers, NEW b,
         box' = [box EXCEPT ![t] = b], late' = late
  PROVE  Copies' \subseteq Copies \cup {b}
  <1> SUFFICES ASSUME NEW r \in Copies' PROVE r \in Copies \cup {b}
    OBVIOUS
  <1>1. r # NoRecords /\ \E x \in Trackers : r = box'[x] \/ r \in late'[x]
    BY DEF Copies, InFlight
  <1>2. r = b \/ \E x \in Trackers : r = box[x] \/ r \in late[x]
    BY <1>1 DEF TypeInv, TypeOK
  <1> QED
    BY <1>1, <1>2 DEF Copies, InFlight

\* The steps of a link copy, merge or change nothing a book is made of.
LEMMA LinkShape ==
  ASSUME LinkInv, NEW t \in Trackers, LinkStep(t) \/ LinkTimesOut(t)
  PROVE  Unmoved \/ \E x \in Trackers : Shape(x)
  <1> USE DEF Shape, LinkInv
  <1>0. Peer[t] \in Trackers
    BY PeerAssumption
  <1>1. at[t] # "idle" => phase[t] # "down"
    BY DEF Linked
  <1>2. CASE Dial(t) \/ Poll(t) \/ ReadVersion(t) \/ RecvAck(t)
    BY <1>2 DEF Dial, Poll, ReadVersion, RecvAck, Unmoved, stateVars, bounds, vars
  <1>3. CASE ServeSync(t)
    <2>1. Copies' \subseteq Copies \cup {serialize(db[Peer[t]])}
      BY <1>3, BoxedCopies DEF ServeSync
    <2>2. Copied(Peer[t])
      BY <1>3, <2>1 DEF ServeSync, Copied, Serving, stateVars, bounds
    <2> QED
      BY <1>0, <2>2
  <1>4. CASE SendState(t)
    <2>1. Copies' \subseteq Copies \cup {serialize(db[t])}
      BY <1>4, BoxedCopies DEF SendState
    <2>2. Copied(t)
      BY <1>1, <1>4, <2>1 DEF SendState, Copied, stateVars, bounds
    <2> QED
      BY <2>2
  <1>5. CASE MergePulled(t) \/ ServeState(t)
    <2>1. box[t] \in Copies
      BY <1>5, CopiesAreRecords
      DEF MergePulled, ServeState, TypeInv, Carrying
    <2>2. Copies' \subseteq Copies
      <3>1. Copies' \subseteq Copies \cup {NoRecords}
        BY <1>5, BoxedCopies DEF MergePulled, ServeState
      <3> QED
        BY <3>1 DEF Copies
    <2>3. CASE MergePulled(t)
      BY <1>1, <2>1, <2>2, <2>3 DEF MergePulled, MergeInto, Merged, bounds
    <2>4. CASE ServeState(t)
      <3>1. Merged(Peer[t])
        BY <2>1, <2>2, <2>4 DEF ServeState, MergeInto, Merged, Serving, bounds
      <3> QED
        BY <1>0, <3>1
    <2> QED
      BY <1>5, <2>3, <2>4
  <1>6. CASE LinkFails(t) \/ LinkTimesOut(t)
    <2>1. Copies' \subseteq Copies
      BY <1>6, HangupCopies DEF LinkFails, LinkTimesOut
    <2>2. Copied(t)
      BY <1>1, <1>6, <2>1 DEF LinkFails, LinkTimesOut, Copied, stateVars, bounds
    <2> QED
      BY <2>2
  <1>7. CASE ServeLate(t)
    <2>1. PICK r \in late[t] : /\ MergeInto(Peer[t], r)
                               /\ late' = [late EXCEPT ![t] = @ \ {r}]
      BY <1>7 DEF ServeLate
    <2>2. r \in Copies
      BY <2>1, CopiesAreRecords
    <2>3. Copies' \subseteq Copies
      BY <1>7, <2>1 DEF ServeLate, Copies, InFlight, TypeInv, TypeOK
    <2>4. Merged(Peer[t])
      BY <1>7, <2>1, <2>2, <2>3 DEF ServeLate, MergeInto, Merged, Serving, bounds
    <2> QED
      BY <1>0, <2>4
  <1> QED
    BY <1>2, <1>3, <1>4, <1>5, <1>6, <1>7 DEF LinkStep

\* So do the steps of a process.
LEMMA ProcessShape ==
  ASSUME LinkInv, NEW t \in Trackers,
         \/ ProcessStep(t) \/ SaveSnapshot(t) \/ FinishSave(t)
         \/ Shutdown(t) \/ ProcessEnds(t)
  PROVE  Shape(t)
  <1> USE DEF Shape, LinkInv
  <1>1. CASE LoadSnapshot(t)
    BY <1>1 DEF LoadSnapshot, Opened, linkVars, bounds
  <1>2. CASE Restart(t)
    BY <1>2 DEF Restart, Started, stateVars, linkVars, bounds
  <1>3. CASE SaveSnapshot(t) \/ Shutdown(t)
    BY <1>3 DEF SaveSnapshot, Shutdown, BeginSave, Begun, Serving, stateVars,
                linkVars
  <1>4. CASE ProcessEnds(t)
    <2>1. Copies' \subseteq Copies
      <3> SUFFICES ASSUME NEW r \in Copies' PROVE r \in Copies
        OBVIOUS
      <3>1. r # NoRecords /\ \E x \in Trackers : r = box'[x] \/ r \in late'[x]
        BY DEF Copies, InFlight
      <3>2. \E x \in Trackers : r = box[x] \/ r \in late[x]
        BY <1>4, <3>1 DEF ProcessEnds, TypeInv, TypeOK
      <3> QED
        BY <3>1, <3>2 DEF Copies, InFlight
    <2> QED
      BY <1>4, <2>1 DEF ProcessEnds, Stopped
  <1>5. CASE FinishSave(t)
    BY <1>5 DEF FinishSave, Filed, stateVars, linkVars, bounds
  <1> QED
    BY <1>1, <1>2, <1>3, <1>4, <1>5 DEF ProcessStep

\* Every step of the trackers has a shape.
LEMMA StepHasShape ==
  ASSUME LinkInv, [Next]_vars
  PROVE  Unmoved \/ \E t \in Trackers : Shape(t)
  <1>1. CASE UNCHANGED vars
    BY <1>1 DEF vars, Unmoved, bounds
  <1>2. ASSUME NEW t \in Trackers, ClientCommand(t)
        PROVE  Shape(t)
    BY <1>2, CommandShape DEF Shape, LinkInv
  <1> QED
    BY <1>1, <1>2, LinkShape, ProcessShape DEF Next

\* A link is in a session only while its process lives.
LEMMA LinkedStep ==
  ASSUME LinkInv, [Next]_vars
  PROVE  LinkInv'
  <1>1. TypeInv'
    BY TypeStep DEF LinkInv
  <1>2. Linked'
    <2> USE DEF LinkInv, Linked, TypeInv, TypeOK
    <2>1. CASE UNCHANGED vars
      BY <2>1 DEF vars
    <2>2. ASSUME NEW t \in Trackers, ClientCommand(t)
          PROVE  Linked'
      BY <2>2 DEF ClientCommand, CreateUser, Login, Logout, CreateGroup,
           JoinGroup, LeaveGroup, AcceptRequest, RejectRequest, UploadFile,
           FileDownloaded, StopShare, Execute
    <2>3. ASSUME NEW t \in Trackers, LinkStep(t) \/ LinkTimesOut(t)
          PROVE  Linked'
      <3>1. CASE Poll(t)
        BY <3>1 DEF Poll, vars
      <3>2. CASE Dial(t) \/ ReadVersion(t) \/ RecvAck(t) \/ SendState(t) \/ ServeSync(t)
        BY <3>2 DEF Dial, ReadVersion, RecvAck, SendState, ServeSync
      <3>3. CASE MergePulled(t) \/ ServeState(t) \/ ServeLate(t)
        BY <3>3 DEF MergePulled, ServeState, ServeLate
      <3>4. CASE LinkFails(t) \/ LinkTimesOut(t)
        BY <3>4 DEF LinkFails, LinkTimesOut, Hangup
      <3> QED
        BY <2>3, <3>1, <3>2, <3>3, <3>4 DEF LinkStep
    <2>4. ASSUME NEW t \in Trackers,
                 \/ ProcessStep(t) \/ SaveSnapshot(t) \/ FinishSave(t)
                 \/ Shutdown(t) \/ ProcessEnds(t)
          PROVE  Linked'
      BY <2>4 DEF ProcessStep, LoadSnapshot, Restart, SaveSnapshot, FinishSave,
                  Shutdown, ProcessEnds, linkVars
    <2> QED
      BY <2>1, <2>2, <2>3, <2>4 DEF Next
  <1> QED
    BY <1>1, <1>2 DEF LinkInv

\* LinkInvariant: from any snapshots, types and links are in order throughout.
LEMMA LinkInvariant ==
  ASSUME NEW r \in Snapshots
  PROVE  SpecFrom(r) => []LinkInv
  <1>1. StartedOver(r) => LinkInv
    BY StartType DEF Snapshots, LinkInv, Linked, StartedOver
  <1> QED
    BY <1>1, LinkedStep, PTL DEF SpecFrom

-----------------------------------------------------------------------------
(* What the shapes do to the books. *)

\* Merging fills gaps, and loading, saving and copying keep a book as it is.
LEMMA BooksKept ==
  ASSUME NEW d \in Durable, NEW r \in Records
  PROVE  /\ merge(d, r).cred = [u \in Users |-> IF d.cred[u] = NoPassword
                                                THEN r.cred[u] ELSE d.cred[u]]
         /\ merge(d, r).meta = [k \in Files |-> IF d.meta[k] = NoMeta
                                                THEN r.meta[k] ELSE d.meta[k]]
         /\ load(r).cred = r.cred /\ load(r).meta = r.meta
         /\ serialize(d).cred = d.cred /\ serialize(d).meta = d.meta
  <1>1. /\ merge(d, r).cred = [u \in Users |-> IF d.cred[u] = NoPassword
                                               THEN r.cred[u] ELSE d.cred[u]]
        /\ merge(d, r).meta = [k \in Files |-> IF d.meta[k] = NoMeta
                                               THEN r.meta[k] ELSE d.meta[k]]
    BY DEF merge, kept_cred, kept_meta, user_exists
  <1>2. load(r).cred = r.cred /\ load(r).meta = r.meta
    BY DEF load, merge, kept_cred, kept_meta, user_exists, Empty, Records
  <1>3. serialize(d).cred = d.cred /\ serialize(d).meta = d.meta
    BY DEF serialize, Durable
  <1> QED
    BY <1>1, <1>2, <1>3

\* Where a tracker is at its desk.
LEMMA DeskOf ==
  ASSUME NEW t
  PROVE  /\ phase[t] = "down" => Desk(t) = "closed"
         /\ phase[t] = "starting" => Desk(t) = "opening"
         /\ Serving(t) => Desk(t) = "open"
         /\ phase[t] # "down" => Desk(t) # "closed"
  BY DEF Desk, Serving

-----------------------------------------------------------------------------
(* Accounts. *)

\* Each shape is a step of the book of accounts.
LEMMA AccountStep ==
  ASSUME ~Overlap, LinkInv, LinkInv', NEW t \in Trackers, Shape(t)
  PROVE  AccountBook!Next
  <1> USE DEF LinkInv
  <1>0. /\ db \in [Trackers -> Durable] /\ Copies \subseteq Records
        /\ phase \in [Trackers -> {"down", "starting", "up", "stopping"}]
        /\ disk \in Snapshots /\ saving \in Snapshots
    BY CopiesAreRecords DEF TypeInv, TypeOK, Snapshots
  <1>1. CASE Commanded(t)
    <2>1. AccountBook!Command(t)
      <3>1. PICK d \in Durable : /\ db' = [db EXCEPT ![t] = d]
                                 /\ CredEntered(db[t], d)
        BY <1>1 DEF Commanded
      <3>2. /\ Desk(t) = "open" /\ writes' = writes + 1
            /\ [x \in Trackers |-> Desk(x)]' = [x \in Trackers |-> Desk(x)]
            /\ [x \in Trackers |-> {r.cred : r \in OnDisk(x)}]' =
                 [x \in Trackers |-> {r.cred : r \in OnDisk(x)}]
            /\ [x \in Trackers |-> {r.cred : r \in InHand(x)}]' =
                 [x \in Trackers |-> {r.cred : r \in InHand(x)}]
            /\ {r.cred : r \in Copies}' = {r.cred : r \in Copies}
        BY <1>1, DeskOf DEF Commanded, Desk, OnDisk, InHand, Copies, InFlight
      <3>3. CASE d.cred = db[t].cred
        <4>1. [x \in Trackers |-> db[x].cred]' = [x \in Trackers |-> db[x].cred]
          BY <1>0, <3>1, <3>3
        <4> QED
          BY <3>2, <4>1 DEF AccountBook!Command
      <3>4. ASSUME NEW u \in Users, NEW p \in Passwords,
                   db[t].cred[u] = NoPassword, d.cred = [db[t].cred EXCEPT ![u] = p]
            PROVE  AccountBook!Command(t)
        <4>1. [x \in Trackers |-> db[x].cred]' =
                [[x \in Trackers |-> db[x].cred] EXCEPT ![t][u] = p]
          BY <1>0, <3>1, <3>4
        <4>2. [x \in Trackers |-> db[x].cred][t][u] = NoPassword
          BY <3>4
        <4> QED
          BY <3>2, <4>1, <4>2 DEF AccountBook!Command
      <3> QED
        BY <3>1, <3>3, <3>4 DEF CredEntered
    <2> QED
      BY <2>1 DEF AccountBook!Next
  <1>2. CASE Copied(t)
    <2>1. serialize(db[t]).cred = db[t].cred
      BY <1>0 DEF serialize, Durable
    <2>2. AccountBook!Send(t)
      BY <1>2, <2>1, DeskOf DEF Copied, AccountBook!Send, Desk, OnDisk, InHand
    <2> QED
      BY <2>2 DEF AccountBook!Next
  <1>3. CASE Merged(t)
    <2>1. PICK r \in Copies : db' = [db EXCEPT ![t] = merge(db[t], r)]
      BY <1>3 DEF Merged
    <2>2. [x \in Trackers |-> db[x].cred]' =
            [[x \in Trackers |-> db[x].cred] EXCEPT
                ![t] = AccountBook!Filled(@, r.cred)]
      <3>1. merge(db[t], r).cred = AccountBook!Filled(db[t].cred, r.cred)
        BY <1>0, BooksKept DEF AccountBook!Filled
      <3> QED
        BY <1>0, <2>1, <3>1
    <2>3. AccountBook!Receive(t)
      BY <1>3, <2>1, <2>2, DeskOf
      DEF Merged, AccountBook!Receive, Desk, OnDisk, InHand
    <2> QED
      BY <2>3 DEF AccountBook!Next
  <1>4. CASE Begun(t)
    <2>1. /\ serialize(db[t]).cred = db[t].cred
          /\ serialize(db[t]) # NoRecords
      BY <1>0, SerializeType, NoRecordsAssumption DEF serialize, Durable
    <2>2. [x \in Trackers |-> {r.cred : r \in InHand(x)}]' =
            [[x \in Trackers |-> {r.cred : r \in InHand(x)}] EXCEPT
                ![t] = {db[t].cred}]
      <3>1. InHand(t)' = {serialize(db[t])}
        BY <1>0, <1>4, <2>1 DEF Begun, InHand, Snapshots
      <3>2. \A x \in Trackers \ {t} : InHand(x)' = InHand(x)
        BY <1>0, <1>4 DEF Begun, InHand, Snapshots
      <3>3. {r.cred : r \in InHand(t)'} = {db[t].cred}
        BY <2>1, <3>1
      <3>4. \A x \in Trackers :
               {r.cred : r \in InHand(x)'} =
                 [[y \in Trackers |-> {r.cred : r \in InHand(y)}] EXCEPT
                     ![t] = {db[t].cred}][x]
        BY <3>2, <3>3
      <3> QED
        BY <3>4
    <2>3. [x \in Trackers |-> Desk(x)]' = [x \in Trackers |-> Desk(x)]
      BY <1>0, <1>4 DEF Begun, Serving, Desk
    <2>4. [x \in Trackers |-> {r.cred : r \in InHand(x)}][t] = {}
      BY <1>4 DEF Begun, InHand
    <2>5. AccountBook!Save(t)
      BY <1>4, <2>2, <2>3, <2>4, DeskOf
      DEF Begun, AccountBook!Save, OnDisk, Copies, InFlight
    <2> QED
      BY <2>5 DEF AccountBook!Next
  <1>5. CASE Stopped(t)
    <2>1. Empty.cred = [u \in Users |-> NoPassword]
      BY DEF Empty
    <2>2. [x \in Trackers |-> db[x].cred]' =
            [[x \in Trackers |-> db[x].cred] EXCEPT ![t] = AccountBook!Blank]
      BY <1>0, <1>5, <2>1 DEF Stopped, AccountBook!Blank
    <2>3. [x \in Trackers |-> Desk(x)]' =
            [[x \in Trackers |-> Desk(x)] EXCEPT ![t] = "closed"]
      BY <1>0, <1>5 DEF Stopped, Desk
    <2>4. [x \in Trackers |-> {r.cred : r \in InHand(x)}]' =
            [[x \in Trackers |-> {r.cred : r \in InHand(x)}] EXCEPT ![t] = {}]
      <3>1. \A x \in Trackers : InHand(x)' = IF x = t THEN {} ELSE InHand(x)
        BY <1>0, <1>5 DEF Stopped, InHand, Snapshots
      <3>2. \A x \in Trackers :
               {r.cred : r \in InHand(x)'} =
                 [[y \in Trackers |-> {r.cred : r \in InHand(y)}] EXCEPT
                     ![t] = {}][x]
        BY <3>1
      <3> QED
        BY <3>2
    <2>5. AccountBook!Stop(t)
      BY <1>5, <2>2, <2>3, <2>4, DeskOf DEF Stopped, AccountBook!Stop, OnDisk
    <2> QED
      BY <2>5 DEF AccountBook!Next
  <1>6. CASE Started(t)
    <2>1. [x \in Trackers |-> Desk(x)]' =
            [[x \in Trackers |-> Desk(x)] EXCEPT ![t] = "opening"]
      BY <1>0, <1>6 DEF Started, Desk
    <2>2. AccountBook!Start(t)
      BY <1>6, <2>1, DeskOf
      DEF Started, AccountBook!Start, OnDisk, InHand, Copies, InFlight
    <2> QED
      BY <2>2 DEF AccountBook!Next
  <1>7. CASE Opened(t)
    <2>1. [x \in Trackers |-> Desk(x)]' =
            [[x \in Trackers |-> Desk(x)] EXCEPT ![t] = "open"]
      BY <1>0, <1>7 DEF Opened, Desk
    <2>2. AccountBook!Open(t)
      <3>1. CASE disk[t] = NoRecords
        <4>1. OnDisk(t) = {}
          BY <3>1 DEF OnDisk
        <4> QED
          BY <1>7, <2>1, <3>1, <4>1, DeskOf
          DEF Opened, AccountBook!Open, OnDisk, InHand, Copies, InFlight
      <3>2. CASE disk[t] # NoRecords
        <4>1. OnDisk(t) = {disk[t]} /\ disk[t] \in Records
          BY <1>0, <3>2 DEF OnDisk, Snapshots
        <4>2. [x \in Trackers |-> db[x].cred]' =
                [[x \in Trackers |-> db[x].cred] EXCEPT ![t] = disk[t].cred]
          BY <1>0, <1>7, <3>2, <4>1, BooksKept DEF Opened
        <4>3. [x \in Trackers |-> {r.cred : r \in OnDisk(x)}][t] = {disk[t].cred}
          BY <4>1
        <4>4. /\ Desk(t) = "opening" /\ UNCHANGED writes
              /\ [x \in Trackers |-> {r.cred : r \in OnDisk(x)}]' =
                   [x \in Trackers |-> {r.cred : r \in OnDisk(x)}]
              /\ [x \in Trackers |-> {r.cred : r \in InHand(x)}]' =
                   [x \in Trackers |-> {r.cred : r \in InHand(x)}]
              /\ {r.cred : r \in Copies}' = {r.cred : r \in Copies}
          BY <1>7, DeskOf DEF Opened, OnDisk, InHand, Copies, InFlight
        <4> QED
          BY <2>1, <4>2, <4>3, <4>4 DEF AccountBook!Open
      <3> QED
        BY <3>1, <3>2
    <2> QED
      BY <2>2 DEF AccountBook!Next
  <1>8. CASE Filed(t)
    <2>1. InHand(t) = {saving[t]} /\ InHand(t)' = {}
      BY <1>0, <1>8 DEF Filed, InHand, Snapshots
    <2>2. \A x \in Trackers \ {t} : InHand(x)' = InHand(x) /\ OnDisk(x)' = OnDisk(x)
      BY <1>0, <1>8 DEF Filed, InHand, OnDisk, Snapshots
    <2>3. OnDisk(t)' = InHand(t) \/ OnDisk(t)' = OnDisk(t)
      BY <1>0, <1>8 DEF Filed, Left, InHand, OnDisk, Snapshots
    <2>4. [x \in Trackers |-> {r.cred : r \in InHand(x)}]' =
            [[x \in Trackers |-> {r.cred : r \in InHand(x)}] EXCEPT ![t] = {}]
      <3>1. {r.cred : r \in InHand(t)'} = {}
        BY <2>1
      <3>2. \A x \in Trackers :
               {r.cred : r \in InHand(x)'} =
                 [[y \in Trackers |-> {r.cred : r \in InHand(y)}] EXCEPT
                     ![t] = {}][x]
        BY <2>2, <3>1
      <3> QED
        BY <3>2
    <2>5. \/ [x \in Trackers |-> {r.cred : r \in OnDisk(x)}]' =
               [[x \in Trackers |-> {r.cred : r \in OnDisk(x)}] EXCEPT
                   ![t] = {r.cred : r \in InHand(t)}]
          \/ [x \in Trackers |-> {r.cred : r \in OnDisk(x)}]' =
               [x \in Trackers |-> {r.cred : r \in OnDisk(x)}]
      <3>1. CASE OnDisk(t)' = OnDisk(t)
        BY <2>2, <3>1
      <3>2. CASE OnDisk(t)' = InHand(t)
        <4>1. \A x \in Trackers :
                 {r.cred : r \in OnDisk(x)'} =
                   [[y \in Trackers |-> {r.cred : r \in OnDisk(y)}] EXCEPT
                       ![t] = {r.cred : r \in InHand(t)}][x]
          BY <2>2, <3>2
        <4> QED
          BY <4>1
      <3> QED
        BY <2>3, <3>1, <3>2
    <2>6. [x \in Trackers |-> {r.cred : r \in InHand(x)}][t] =
            {r.cred : r \in InHand(t)}
      OBVIOUS
    <2>7. {r.cred : r \in InHand(t)} # {}
      BY <2>1
    <2>8. /\ [x \in Trackers |-> Desk(x)]' = [x \in Trackers |-> Desk(x)]
          /\ [x \in Trackers |-> db[x].cred]' = [x \in Trackers |-> db[x].cred]
          /\ {r.cred : r \in Copies}' = {r.cred : r \in Copies}
          /\ UNCHANGED writes
      BY <1>8 DEF Filed, Desk, Copies, InFlight
    <2>9. AccountBook!Saved(t)
      BY <2>4, <2>5, <2>6, <2>7, <2>8, Zenon DEF AccountBook!Saved
    <2> QED
      BY <2>9 DEF AccountBook!Next
  <1> QED
    BY <1>1, <1>2, <1>3, <1>4, <1>5, <1>6, <1>7, <1>8 DEF Shape

\* Nothing a book is made of moves: the book stutters.
LEMMA AccountStutter ==
  ASSUME Unmoved
  PROVE  UNCHANGED AccountBook!vars
  BY DEF Unmoved, AccountBook!vars, Desk, OnDisk, InHand, Copies, InFlight

\* Trackers that start over snapshots have blank books, and each has saved at
\* most one.
LEMMA AccountInit ==
  ASSUME NEW r \in Snapshots, StartedOver(r)
  PROVE  AccountBook!Init
  <1>1. [t \in Trackers |-> db[t].cred] = [t \in Trackers |-> AccountBook!Blank]
    BY DEF StartedOver, Empty, AccountBook!Blank
  <1>2. Copies = {}
    BY DEF StartedOver, Copies, InFlight
  <1>3. [t \in Trackers |-> Desk(t)] \in [Trackers -> {"closed", "opening"}]
    BY DEF StartedOver, Desk
  <1>4. ASSUME NEW t \in Trackers
        PROVE  \/ {q.cred : q \in OnDisk(t)} = {}
               \/ \E b \in AccountBook!Books : {q.cred : q \in OnDisk(t)} = {b}
    <2>0. disk[t] = r[t]
      BY DEF StartedOver
    <2>1. CASE r[t] = NoRecords
      BY <2>0, <2>1 DEF OnDisk
    <2>2. CASE r[t] \in Records
      <3>1. r[t].cred \in AccountBook!Books
        BY <2>2 DEF Records, AccountBook!Books
      <3>2. {q.cred : q \in OnDisk(t)} = {r[t].cred}
        BY <2>0, <2>2, NoRecordsAssumption DEF OnDisk
      <3> QED
        BY <3>1, <3>2
    <2> QED
      BY <2>1, <2>2 DEF Snapshots
  <1>5. {q.cred : q \in Copies} = {} /\ writes = 0
    BY <1>2 DEF StartedOver
  <1>6. [t \in Trackers |-> {q.cred : q \in InHand(t)}] = [t \in Trackers |-> {}]
    BY DEF StartedOver, InHand
  <1> QED
    BY <1>1, <1>3, <1>4, <1>5, <1>6 DEF AccountBook!Init

\* AccountsAreReplicated: started over any snapshots, and if no two saves of a
\* tracker overlap, the trackers' accounts implement a Directory: no interleaving of commands, links, timeouts, late
\* STATEs, crashes and restarts invents, loses or changes an account other
\* than by going back to the last snapshot (persistence.cpp
\* apply_records_locked, save_snapshot, load_snapshot).
THEOREM AccountsAreReplicated ==
  ASSUME ~Overlap, NEW r \in Snapshots
  PROVE  SpecFrom(r) => AccountsReplicate
  <1>1. StartedOver(r) => AccountBook!Init
    BY AccountInit
  <1>2. LinkInv /\ LinkInv' /\ [Next]_vars => [AccountBook!Next]_(AccountBook!vars)
    BY StepHasShape, AccountStutter, AccountStep
  <1> QED
    BY <1>1, <1>2, LinkInvariant, PTL DEF SpecFrom, AccountsReplicate, AccountBook!Spec

-----------------------------------------------------------------------------
(* Files. *)

\* Each shape is a step of the book of files.
LEMMA FileStep ==
  ASSUME ~Overlap, LinkInv, LinkInv', NEW t \in Trackers, Shape(t)
  PROVE  FileBook!Next
  <1> USE DEF LinkInv
  <1>0. /\ db \in [Trackers -> Durable] /\ Copies \subseteq Records
        /\ phase \in [Trackers -> {"down", "starting", "up", "stopping"}]
        /\ disk \in Snapshots /\ saving \in Snapshots
    BY CopiesAreRecords DEF TypeInv, TypeOK, Snapshots
  <1>1. CASE Commanded(t)
    <2>1. FileBook!Command(t)
      <3>1. PICK d \in Durable : /\ db' = [db EXCEPT ![t] = d]
                                 /\ MetaEntered(db[t], d)
        BY <1>1 DEF Commanded
      <3>2. /\ Desk(t) = "open" /\ writes' = writes + 1
            /\ [x \in Trackers |-> Desk(x)]' = [x \in Trackers |-> Desk(x)]
            /\ [x \in Trackers |-> {r.meta : r \in OnDisk(x)}]' =
                 [x \in Trackers |-> {r.meta : r \in OnDisk(x)}]
            /\ [x \in Trackers |-> {r.meta : r \in InHand(x)}]' =
                 [x \in Trackers |-> {r.meta : r \in InHand(x)}]
            /\ {r.meta : r \in Copies}' = {r.meta : r \in Copies}
        BY <1>1, DeskOf DEF Commanded, Desk, OnDisk, InHand, Copies, InFlight
      <3>3. CASE d.meta = db[t].meta
        <4>1. [x \in Trackers |-> db[x].meta]' = [x \in Trackers |-> db[x].meta]
          BY <1>0, <3>1, <3>3
        <4> QED
          BY <3>2, <4>1 DEF FileBook!Command
      <3>4. ASSUME NEW k \in Files, NEW m \in Metas,
                   d.meta = [db[t].meta EXCEPT ![k] = m]
            PROVE  FileBook!Command(t)
        <4>1. [x \in Trackers |-> db[x].meta]' =
                [[x \in Trackers |-> db[x].meta] EXCEPT ![t][k] = m]
          BY <1>0, <3>1, <3>4
        <4> QED
          BY <3>2, <4>1 DEF FileBook!Command
      <3> QED
        BY <3>1, <3>3, <3>4 DEF MetaEntered
    <2> QED
      BY <2>1 DEF FileBook!Next
  <1>2. CASE Copied(t)
    <2>1. serialize(db[t]).meta = db[t].meta
      BY <1>0 DEF serialize, Durable
    <2>2. FileBook!Send(t)
      BY <1>2, <2>1, DeskOf DEF Copied, FileBook!Send, Desk, OnDisk, InHand
    <2> QED
      BY <2>2 DEF FileBook!Next
  <1>3. CASE Merged(t)
    <2>1. PICK r \in Copies : db' = [db EXCEPT ![t] = merge(db[t], r)]
      BY <1>3 DEF Merged
    <2>2. [x \in Trackers |-> db[x].meta]' =
            [[x \in Trackers |-> db[x].meta] EXCEPT
                ![t] = FileBook!Filled(@, r.meta)]
      <3>1. merge(db[t], r).meta = FileBook!Filled(db[t].meta, r.meta)
        BY <1>0, BooksKept DEF FileBook!Filled
      <3> QED
        BY <1>0, <2>1, <3>1
    <2>3. FileBook!Receive(t)
      BY <1>3, <2>1, <2>2, DeskOf
      DEF Merged, FileBook!Receive, Desk, OnDisk, InHand
    <2> QED
      BY <2>3 DEF FileBook!Next
  <1>4. CASE Begun(t)
    <2>1. /\ serialize(db[t]).meta = db[t].meta
          /\ serialize(db[t]) # NoRecords
      BY <1>0, SerializeType, NoRecordsAssumption DEF serialize, Durable
    <2>2. [x \in Trackers |-> {r.meta : r \in InHand(x)}]' =
            [[x \in Trackers |-> {r.meta : r \in InHand(x)}] EXCEPT
                ![t] = {db[t].meta}]
      <3>1. InHand(t)' = {serialize(db[t])}
        BY <1>0, <1>4, <2>1 DEF Begun, InHand, Snapshots
      <3>2. \A x \in Trackers \ {t} : InHand(x)' = InHand(x)
        BY <1>0, <1>4 DEF Begun, InHand, Snapshots
      <3>3. {r.meta : r \in InHand(t)'} = {db[t].meta}
        BY <2>1, <3>1
      <3>4. \A x \in Trackers :
               {r.meta : r \in InHand(x)'} =
                 [[y \in Trackers |-> {r.meta : r \in InHand(y)}] EXCEPT
                     ![t] = {db[t].meta}][x]
        BY <3>2, <3>3
      <3> QED
        BY <3>4
    <2>3. [x \in Trackers |-> Desk(x)]' = [x \in Trackers |-> Desk(x)]
      BY <1>0, <1>4 DEF Begun, Serving, Desk
    <2>4. [x \in Trackers |-> {r.meta : r \in InHand(x)}][t] = {}
      BY <1>4 DEF Begun, InHand
    <2>5. FileBook!Save(t)
      BY <1>4, <2>2, <2>3, <2>4, DeskOf
      DEF Begun, FileBook!Save, OnDisk, Copies, InFlight
    <2> QED
      BY <2>5 DEF FileBook!Next
  <1>5. CASE Stopped(t)
    <2>1. Empty.meta = [k \in Files |-> NoMeta]
      BY DEF Empty
    <2>2. [x \in Trackers |-> db[x].meta]' =
            [[x \in Trackers |-> db[x].meta] EXCEPT ![t] = FileBook!Blank]
      BY <1>0, <1>5, <2>1 DEF Stopped, FileBook!Blank
    <2>3. [x \in Trackers |-> Desk(x)]' =
            [[x \in Trackers |-> Desk(x)] EXCEPT ![t] = "closed"]
      BY <1>0, <1>5 DEF Stopped, Desk
    <2>4. [x \in Trackers |-> {r.meta : r \in InHand(x)}]' =
            [[x \in Trackers |-> {r.meta : r \in InHand(x)}] EXCEPT ![t] = {}]
      <3>1. \A x \in Trackers : InHand(x)' = IF x = t THEN {} ELSE InHand(x)
        BY <1>0, <1>5 DEF Stopped, InHand, Snapshots
      <3>2. \A x \in Trackers :
               {r.meta : r \in InHand(x)'} =
                 [[y \in Trackers |-> {r.meta : r \in InHand(y)}] EXCEPT
                     ![t] = {}][x]
        BY <3>1
      <3> QED
        BY <3>2
    <2>5. FileBook!Stop(t)
      BY <1>5, <2>2, <2>3, <2>4, DeskOf DEF Stopped, FileBook!Stop, OnDisk
    <2> QED
      BY <2>5 DEF FileBook!Next
  <1>6. CASE Started(t)
    <2>1. [x \in Trackers |-> Desk(x)]' =
            [[x \in Trackers |-> Desk(x)] EXCEPT ![t] = "opening"]
      BY <1>0, <1>6 DEF Started, Desk
    <2>2. FileBook!Start(t)
      BY <1>6, <2>1, DeskOf
      DEF Started, FileBook!Start, OnDisk, InHand, Copies, InFlight
    <2> QED
      BY <2>2 DEF FileBook!Next
  <1>7. CASE Opened(t)
    <2>1. [x \in Trackers |-> Desk(x)]' =
            [[x \in Trackers |-> Desk(x)] EXCEPT ![t] = "open"]
      BY <1>0, <1>7 DEF Opened, Desk
    <2>2. FileBook!Open(t)
      <3>1. CASE disk[t] = NoRecords
        <4>1. OnDisk(t) = {}
          BY <3>1 DEF OnDisk
        <4> QED
          BY <1>7, <2>1, <3>1, <4>1, DeskOf
          DEF Opened, FileBook!Open, OnDisk, InHand, Copies, InFlight
      <3>2. CASE disk[t] # NoRecords
        <4>1. OnDisk(t) = {disk[t]} /\ disk[t] \in Records
          BY <1>0, <3>2 DEF OnDisk, Snapshots
        <4>2. [x \in Trackers |-> db[x].meta]' =
                [[x \in Trackers |-> db[x].meta] EXCEPT ![t] = disk[t].meta]
          BY <1>0, <1>7, <3>2, <4>1, BooksKept DEF Opened
        <4>3. [x \in Trackers |-> {r.meta : r \in OnDisk(x)}][t] = {disk[t].meta}
          BY <4>1
        <4>4. /\ Desk(t) = "opening" /\ UNCHANGED writes
              /\ [x \in Trackers |-> {r.meta : r \in OnDisk(x)}]' =
                   [x \in Trackers |-> {r.meta : r \in OnDisk(x)}]
              /\ [x \in Trackers |-> {r.meta : r \in InHand(x)}]' =
                   [x \in Trackers |-> {r.meta : r \in InHand(x)}]
              /\ {r.meta : r \in Copies}' = {r.meta : r \in Copies}
          BY <1>7, DeskOf DEF Opened, OnDisk, InHand, Copies, InFlight
        <4> QED
          BY <2>1, <4>2, <4>3, <4>4 DEF FileBook!Open
      <3> QED
        BY <3>1, <3>2
    <2> QED
      BY <2>2 DEF FileBook!Next
  <1>8. CASE Filed(t)
    <2>1. InHand(t) = {saving[t]} /\ InHand(t)' = {}
      BY <1>0, <1>8 DEF Filed, InHand, Snapshots
    <2>2. \A x \in Trackers \ {t} : InHand(x)' = InHand(x) /\ OnDisk(x)' = OnDisk(x)
      BY <1>0, <1>8 DEF Filed, InHand, OnDisk, Snapshots
    <2>3. OnDisk(t)' = InHand(t) \/ OnDisk(t)' = OnDisk(t)
      BY <1>0, <1>8 DEF Filed, Left, InHand, OnDisk, Snapshots
    <2>4. [x \in Trackers |-> {r.meta : r \in InHand(x)}]' =
            [[x \in Trackers |-> {r.meta : r \in InHand(x)}] EXCEPT ![t] = {}]
      <3>1. {r.meta : r \in InHand(t)'} = {}
        BY <2>1
      <3>2. \A x \in Trackers :
               {r.meta : r \in InHand(x)'} =
                 [[y \in Trackers |-> {r.meta : r \in InHand(y)}] EXCEPT
                     ![t] = {}][x]
        BY <2>2, <3>1
      <3> QED
        BY <3>2
    <2>5. \/ [x \in Trackers |-> {r.meta : r \in OnDisk(x)}]' =
               [[x \in Trackers |-> {r.meta : r \in OnDisk(x)}] EXCEPT
                   ![t] = {r.meta : r \in InHand(t)}]
          \/ [x \in Trackers |-> {r.meta : r \in OnDisk(x)}]' =
               [x \in Trackers |-> {r.meta : r \in OnDisk(x)}]
      <3>1. CASE OnDisk(t)' = OnDisk(t)
        BY <2>2, <3>1
      <3>2. CASE OnDisk(t)' = InHand(t)
        <4>1. \A x \in Trackers :
                 {r.meta : r \in OnDisk(x)'} =
                   [[y \in Trackers |-> {r.meta : r \in OnDisk(y)}] EXCEPT
                       ![t] = {r.meta : r \in InHand(t)}][x]
          BY <2>2, <3>2
        <4> QED
          BY <4>1
      <3> QED
        BY <2>3, <3>1, <3>2
    <2>6. [x \in Trackers |-> {r.meta : r \in InHand(x)}][t] =
            {r.meta : r \in InHand(t)}
      OBVIOUS
    <2>7. {r.meta : r \in InHand(t)} # {}
      BY <2>1
    <2>8. /\ [x \in Trackers |-> Desk(x)]' = [x \in Trackers |-> Desk(x)]
          /\ [x \in Trackers |-> db[x].meta]' = [x \in Trackers |-> db[x].meta]
          /\ {r.meta : r \in Copies}' = {r.meta : r \in Copies}
          /\ UNCHANGED writes
      BY <1>8 DEF Filed, Desk, Copies, InFlight
    <2>9. FileBook!Saved(t)
      BY <2>4, <2>5, <2>6, <2>7, <2>8, Zenon DEF FileBook!Saved
    <2> QED
      BY <2>9 DEF FileBook!Next
  <1> QED
    BY <1>1, <1>2, <1>3, <1>4, <1>5, <1>6, <1>7, <1>8 DEF Shape

\* Nothing a book is made of moves: the book stutters.
LEMMA FileStutter ==
  ASSUME Unmoved
  PROVE  UNCHANGED FileBook!vars
  BY DEF Unmoved, FileBook!vars, Desk, OnDisk, InHand, Copies, InFlight

\* Trackers that start over snapshots have blank books, and each has saved at
\* most one.
LEMMA FileInit ==
  ASSUME NEW r \in Snapshots, StartedOver(r)
  PROVE  FileBook!Init
  <1>1. [t \in Trackers |-> db[t].meta] = [t \in Trackers |-> FileBook!Blank]
    BY DEF StartedOver, Empty, FileBook!Blank
  <1>2. Copies = {}
    BY DEF StartedOver, Copies, InFlight
  <1>3. [t \in Trackers |-> Desk(t)] \in [Trackers -> {"closed", "opening"}]
    BY DEF StartedOver, Desk
  <1>4. ASSUME NEW t \in Trackers
        PROVE  \/ {q.meta : q \in OnDisk(t)} = {}
               \/ \E b \in FileBook!Books : {q.meta : q \in OnDisk(t)} = {b}
    <2>0. disk[t] = r[t]
      BY DEF StartedOver
    <2>1. CASE r[t] = NoRecords
      BY <2>0, <2>1 DEF OnDisk
    <2>2. CASE r[t] \in Records
      <3>1. r[t].meta \in FileBook!Books
        BY <2>2 DEF Records, FileBook!Books
      <3>2. {q.meta : q \in OnDisk(t)} = {r[t].meta}
        BY <2>0, <2>2, NoRecordsAssumption DEF OnDisk
      <3> QED
        BY <3>1, <3>2
    <2> QED
      BY <2>1, <2>2 DEF Snapshots
  <1>5. {q.meta : q \in Copies} = {} /\ writes = 0
    BY <1>2 DEF StartedOver
  <1>6. [t \in Trackers |-> {q.meta : q \in InHand(t)}] = [t \in Trackers |-> {}]
    BY DEF StartedOver, InHand
  <1> QED
    BY <1>1, <1>3, <1>4, <1>5, <1>6 DEF FileBook!Init

\* FilesAreReplicated: so does the metadata of the files, except that an upload
\* may also replace it (tracker_state.cpp upload_file).
THEOREM FilesAreReplicated ==
  ASSUME ~Overlap, NEW r \in Snapshots
  PROVE  SpecFrom(r) => FilesReplicate
  <1>1. StartedOver(r) => FileBook!Init
    BY FileInit
  <1>2. LinkInv /\ LinkInv' /\ [Next]_vars => [FileBook!Next]_(FileBook!vars)
    BY StepHasShape, FileStutter, FileStep
  <1> QED
    BY <1>1, <1>2, LinkInvariant, PTL DEF SpecFrom, FilesReplicate, FileBook!Spec

-----------------------------------------------------------------------------
(* Snapshots. *)

\* The inductive form of SavedStaysSaved: a tracker that serves knows all that
\* its snapshot holds, so saving again loses nothing.  One that is still to
\* load does not, which is why nothing may be saved before load_snapshot.
\* And the text of a save under way is between the two.
Covered == \A t \in Trackers :
              /\ Serving(t) /\ disk[t] # NoRecords => Covers(db[t], disk[t])
              /\ saving[t] # NoRecords =>
                    /\ Serving(t) /\ Covers(db[t], saving[t])
                    /\ disk[t] # NoRecords => Covers(saving[t], disk[t])

\* Covers is a preorder.
LEMMA CoversOrder ==
  /\ \A d : Covers(d, d)
  /\ \A d, e, f : Covers(d, e) /\ Covers(e, f) => Covers(d, f)
  BY DEF Covers

\* A command removes no account, group or file (dispatch).
LEMMA CommandCovers ==
  ASSUME NEW d \in Durable, NEW e \in Durable, CredEntered(d, e),
         MetaEntered(d, e), d.groups \subseteq e.groups
  PROVE  Covers(e, d)
  <1>1. Accounts(d) \subseteq Accounts(e)
    BY NoValues DEF Accounts, CredEntered, Durable
  <1>2. Shared(d) \subseteq Shared(e)
    BY NoValues DEF Shared, MetaEntered, Durable
  <1> QED
    BY <1>1, <1>2 DEF Covers

\* A merge knows what both sides knew; loading, saving and sending keep what
\* there is (apply_records_locked, serialize).
LEMMA RecordsCover ==
  ASSUME NEW d \in Durable, NEW r \in Records
  PROVE  /\ Covers(merge(d, r), d) /\ Covers(merge(d, r), r)
         /\ Covers(load(r), r) /\ Covers(r, load(r))
         /\ Covers(serialize(d), d) /\ Covers(d, serialize(d))
  <1>1. /\ merge(d, r).groups = d.groups \cup r.groups
        /\ load(r).groups = r.groups
        /\ serialize(d).groups = d.groups
    BY DEF merge, load, Empty, serialize, Durable
  <1>2. /\ Accounts(merge(d, r)) = Accounts(d) \cup Accounts(r)
        /\ Shared(merge(d, r)) = Shared(d) \cup Shared(r)
    <2>1. /\ \A u \in Users : merge(d, r).cred[u] = kept_cred(d, r, u)
          /\ \A k \in Files : merge(d, r).meta[k] = kept_meta(d, r, k)
      BY DEF merge
    <2> QED
      BY <2>1 DEF Accounts, Shared, kept_cred, kept_meta, user_exists
  <1>3. /\ Accounts(load(r)) = Accounts(r) /\ Shared(load(r)) = Shared(r)
        /\ Accounts(serialize(d)) = Accounts(d)
        /\ Shared(serialize(d)) = Shared(d)
    BY BooksKept DEF Accounts, Shared
  <1> QED
    BY <1>1, <1>2, <1>3 DEF Covers

\* A snapshot is only ever replaced by one that covers it.
LEMMA SavedStep ==
  ASSUME ~Overlap, LinkInv, Covered, NEW t \in Trackers, Shape(t)
  PROVE  /\ Covered'
         /\ \A x \in Trackers : disk[x] # NoRecords => /\ disk'[x] # NoRecords
                                                       /\ Covers(disk'[x], disk[x])
  <1>0. /\ db \in [Trackers -> Durable] /\ Copies \subseteq Records
        /\ phase \in [Trackers -> {"down", "starting", "up", "stopping"}]
        /\ disk \in Snapshots /\ saving \in Snapshots
    BY CopiesAreRecords DEF LinkInv, TypeInv, TypeOK, Snapshots
  <1>1. CASE Commanded(t)
    <2>1. PICK d \in Durable : db' = [db EXCEPT ![t] = d] /\ Covers(d, db[t])
      BY <1>0, <1>1, CommandCovers DEF Commanded
    <2> QED
      BY <1>0, <1>1, <2>1, CoversOrder DEF Commanded, Covered, Serving
  <1>2. CASE Copied(t) \/ Started(t)
    BY <1>0, <1>2, CoversOrder DEF Copied, Started, Covered, Serving
  <1>3. CASE Merged(t)
    <2>1. PICK d \in Durable : db' = [db EXCEPT ![t] = d] /\ Covers(d, db[t])
      BY <1>0, <1>3, RecordsCover, MergeType DEF Merged
    <2> QED
      BY <1>0, <1>3, <2>1, CoversOrder DEF Merged, Covered, Serving
  <1>4. CASE Begun(t)
    <2>1. PICK r \in Records : /\ saving' = [saving EXCEPT ![t] = r]
                               /\ Covers(r, db[t]) /\ Covers(db[t], r)
      BY <1>0, <1>4, RecordsCover, SerializeType DEF Begun
    <2>2. disk[t] # NoRecords => Covers(r, disk[t])
      BY <1>4, <2>1, CoversOrder DEF Begun, Covered
    <2>3. Covered'
      BY <1>0, <1>4, <2>1, <2>2 DEF Begun, Covered, Serving, Snapshots
    <2> QED
      BY <1>4, <2>3, CoversOrder DEF Begun
  <1>7. CASE Filed(t)
    <2>1. PICK q \in {saving[t], disk[t]} : disk' = [disk EXCEPT ![t] = q]
      BY <1>7 DEF Filed, Left
    <2>2. saving' = [saving EXCEPT ![t] = NoRecords]
      BY <1>7 DEF Filed
    <2>3. disk[t] # NoRecords => q # NoRecords /\ Covers(q, disk[t])
      BY <1>7, <2>1, CoversOrder DEF Filed, Covered
    <2>4. q # NoRecords /\ Serving(t) => Covers(db[t], q)
      BY <1>7, <2>1 DEF Filed, Covered
    <2>5. Covered'
      BY <1>0, <1>7, <2>1, <2>2, <2>4 DEF Filed, Covered, Serving, Snapshots
    <2> QED
      BY <1>0, <2>1, <2>3, <2>5, CoversOrder DEF Snapshots
  <1>5. CASE Stopped(t)
    BY <1>0, <1>5, CoversOrder DEF Stopped, Covered, Serving, Snapshots
  <1>6. CASE Opened(t)
    <2>1. disk[t] # NoRecords => Covers(db'[t], disk[t])
      BY <1>0, <1>6, RecordsCover DEF Opened, Snapshots
    <2> QED
      BY <1>0, <1>6, <2>1, CoversOrder DEF Opened, Covered, Serving
  <1> QED
    BY <1>1, <1>2, <1>3, <1>4, <1>5, <1>6, <1>7 DEF Shape

\* SnapshotsKeepAll: started over any snapshots, and if no two saves of a
\* tracker overlap, what its snapshot file once held it holds ever after,
\* although the text that replaces it was taken some time before and commands
\* and merges go on while it is written (main.cpp loads the snapshot before it
\* starts the snapshot thread; save_snapshot replaces it as a whole).
THEOREM SnapshotsKeepAll ==
  ASSUME ~Overlap, NEW r \in Snapshots
  PROVE  SpecFrom(r) => SavedStaysSaved
  <1> DEFINE Kept == \A t \in Trackers :
                        disk[t] # NoRecords => /\ disk'[t] # NoRecords
                                               /\ Covers(disk'[t], disk[t])
  <1>1. StartedOver(r) => Covered
    BY DEF StartedOver, Covered, Serving
  <1>2. ASSUME LinkInv, Covered, [Next]_vars
        PROVE  Covered' /\ Kept
    <2>1. CASE Unmoved
      BY <1>2, <2>1, CoversOrder DEF Unmoved, Covered, Serving
    <2> QED
      BY <1>2, <2>1, StepHasShape, SavedStep
  <1> QED
    BY <1>1, <1>2, LinkInvariant, PTL DEF SpecFrom, SavedStaysSaved
-----------------------------------------------------------------------------
(* First come, first kept. *)

\* No shape of a step changes a password on a tracker that goes on serving, and
\* only a command changes metadata.
LEMMA FirstStep ==
  ASSUME LinkInv, NEW t \in Trackers, Shape(t), NEW x \in Trackers, StaysUp(x)
  PROVE  /\ CredKept(db[x], db[x]')
         /\ writes' = writes => MetaKept(db[x], db[x]')
  <1>0. /\ db \in [Trackers -> Durable] /\ Copies \subseteq Records
        /\ phase \in [Trackers -> {"down", "starting", "up", "stopping"}]
        /\ writes \in Nat
    BY CopiesAreRecords DEF LinkInv, TypeInv, TypeOK
  <1>1. CASE db[x]' = db[x]
    BY <1>1 DEF CredKept, MetaKept
  <1>2. CASE Commanded(t)
    <2>1. PICK d \in Durable : db' = [db EXCEPT ![t] = d] /\ CredEntered(db[t], d)
      BY <1>2 DEF Commanded
    <2>2. CredKept(db[t], d)
      BY <1>0, <2>1 DEF CredEntered, CredKept, Accounts, Durable
    <2>3. CredKept(db[x], db[x]')
      <3>1. CASE x = t
        BY <1>0, <2>1, <2>2, <3>1 DEF CredKept
      <3>2. CASE x # t
        BY <1>0, <1>1, <2>1, <3>2
      <3> QED
        BY <3>1, <3>2
    <2> QED
      BY <1>0, <1>2, <2>3 DEF Commanded
  <1>3. CASE Merged(t)
    <2>1. PICK q \in Copies : db' = [db EXCEPT ![t] = merge(db[t], q)]
      BY <1>3 DEF Merged
    <2>2. CredKept(db[t], merge(db[t], q)) /\ MetaKept(db[t], merge(db[t], q))
      <3>1. /\ \A u \in Users : merge(db[t], q).cred[u] = kept_cred(db[t], q, u)
            /\ \A k \in Files : merge(db[t], q).meta[k] = kept_meta(db[t], q, k)
        BY DEF merge
      <3> QED
        BY <3>1 DEF CredKept, MetaKept, Accounts, Shared, kept_cred, kept_meta,
                    user_exists
    <2>3. CASE x = t
      BY <1>0, <2>1, <2>2, <2>3 DEF CredKept, MetaKept
    <2>4. CASE x # t
      BY <1>0, <1>1, <2>1, <2>4
    <2> QED
      BY <2>3, <2>4
  <1>4. CASE Copied(t) \/ Begun(t) \/ Filed(t) \/ Started(t)
    BY <1>1, <1>4 DEF Copied, Begun, Filed, Started
  <1>5. CASE Stopped(t) \/ Opened(t)
    <2>1. x # t
      BY <1>0, <1>5 DEF Stopped, Opened, StaysUp, Serving
    <2> QED
      BY <1>0, <1>1, <1>5, <2>1 DEF Stopped, Opened
  <1> QED
    BY <1>2, <1>3, <1>4, <1>5 DEF Shape

\* FirstWins: started over any snapshots or none, a serving tracker never loses
\* a password to anything, nor its metadata to anything but a client's upload
\* ("an account already here wins", "keep our metadata", persistence.cpp:132
\* and :199).
THEOREM FirstWins ==
  ASSUME NEW r \in Snapshots
  PROVE  SpecFrom(r) => FirstKept
  <1>1. LinkInv /\ [Next]_vars =>
        [\A t \in Trackers : StaysUp(t) =>
            /\ CredKept(db[t], db[t]')
            /\ writes' = writes => MetaKept(db[t], db[t]')]_vars
    <2>1. ASSUME Unmoved, NEW t \in Trackers
          PROVE  CredKept(db[t], db[t]') /\ MetaKept(db[t], db[t]')
      BY <2>1 DEF Unmoved, CredKept, MetaKept
    <2> QED
      BY <2>1, StepHasShape, FirstStep
  <1> QED
    BY <1>1, LinkInvariant, PTL DEF SpecFrom, FirstKept
-----------------------------------------------------------------------------
(* Deliveries.  load_snapshot does not count as a version and the link    *)
(* takes version 0 for pushed, so what counts is what the memory holds     *)
(* beyond loaded.                                                          *)

\* The memory of a tracker: at version 0 it holds nothing but what has been
\* loaded into it, which is nothing before load_snapshot.
MemoryOK(t) ==
    /\ phase[t] \in {"down", "starting"} => loaded[t] = Empty
    /\ version[t] = 0 => Covers(loaded[t], db[t])

\* Its link.  The version it has read, or is credited with, is not ahead; and
\* while that version is the current one, what the link sends or has delivered
\* is all there is beyond what was loaded.  A live session past its SYNC has a
\* peer that is through with loading, which could otherwise forget what it was
\* given.
LinkOK(t) ==
    /\ at[t] \notin {"idle", "sync"} /\ alive[t] => Serving(Peer[t])
    /\ at[t] \in {"send", "state", "ack"} => seen[t] <= version[t]
    /\ at[t] = "push" => lastPushed[t] <= version[t]
    /\ at[t] = "state" /\ version[t] = seen[t] =>
          CoversBeyond(box[t], db[t], loaded[t])
    /\ at[t] = "ack" /\ alive[t] /\ version[t] = seen[t] =>
          CoversBeyond(db[Peer[t]], db[t], loaded[t])
    /\ at[t] = "push" /\ alive[t] /\ version[t] = lastPushed[t] =>
          CoversBeyond(db[Peer[t]], db[t], loaded[t])

DeliveryInv == \A t \in Trackers : MemoryOK(t) /\ LinkOK(t)

\* The database of x grows and its version with it, or neither changes.
Grew(x) ==
    /\ \E d \in Durable, v \in Nat :
          /\ db' = [db EXCEPT ![x] = d] /\ version' = [version EXCEPT ![x] = v]
          /\ Covers(d, db[x])
          /\ v > version[x] \/ (v = version[x] /\ d = db[x])
    /\ UNCHANGED <<phase, loaded>>

\* The thread of tracker t's link has not moved.
Still(t) == /\ at'[t] = at[t] /\ alive'[t] = alive[t] /\ seen'[t] = seen[t]
            /\ lastPushed'[t] = lastPushed[t] /\ box'[t] = box[t]

\* How CoversBeyond composes with Covers.
LEMMA CoversCompose ==
  ASSUME NEW b, NEW d, NEW e, NEW f
  PROVE  /\ Covers(d, e) => CoversBeyond(d, e, b)
         /\ Covers(b, e) => CoversBeyond(d, e, b)
         /\ CoversBeyond(d, e, b) /\ Covers(f, d) => CoversBeyond(f, e, b)
  BY DEF Covers, CoversBeyond

\* A tracker whose memory grew and a link that has not moved stay in order
\* (merge_from and the commands bump the version under the lock).
LEMMA GrewKeeps ==
  ASSUME TypeInv, DeliveryInv, NEW x \in Trackers, Grew(x)
  PROVE  /\ \A t \in Trackers : MemoryOK(t)'
         /\ \A t \in Trackers : Still(t) => LinkOK(t)'
         /\ \A t \in Trackers : Covers(db[t]', db[t])
         /\ \A t \in Trackers : /\ version[t]' \in Nat /\ version[t]' >= version[t]
                                /\ version[t]' = version[t] => db[t]' = db[t]
  <1>0. /\ db \in [Trackers -> Durable] /\ version \in [Trackers -> Nat]
        /\ seen \in [Trackers -> Nat] /\ lastPushed \in [Trackers -> Nat]
    BY DEF TypeInv, TypeOK
  <1>1. \A t \in Trackers : Covers(db[t]', db[t])
    BY <1>0, CoversOrder DEF Grew
  <1>2. \A t \in Trackers : /\ version[t]' \in Nat /\ version[t]' >= version[t]
                            /\ version[t]' = version[t] => db[t]' = db[t]
    BY <1>0 DEF Grew
  <1>3. ASSUME NEW t \in Trackers
        PROVE  MemoryOK(t)'
    <2>1. MemoryOK(t)
      BY DEF DeliveryInv
    <2>2. version[t]' = 0 => version[t] = 0 /\ db[t]' = db[t]
      BY <1>0, <1>2
    <2> QED
      BY <2>1, <2>2 DEF MemoryOK, Grew
  <1>4. ASSUME NEW t \in Trackers, Still(t)
        PROVE  LinkOK(t)'
    <2>0. LinkOK(t) /\ Peer[t] \in Trackers
      BY PeerAssumption DEF DeliveryInv
    <2>1. /\ at[t] \in {"send", "state", "ack"} => seen[t] <= version[t]'
          /\ at[t] = "push" => lastPushed[t] <= version[t]'
      BY <1>0, <1>2, <2>0 DEF LinkOK
    <2>2. /\ at[t] \in {"state", "ack"} /\ version[t]' = seen[t]
             => version[t] = seen[t] /\ db[t]' = db[t]
          /\ at[t] = "push" /\ version[t]' = lastPushed[t]
             => version[t] = lastPushed[t] /\ db[t]' = db[t]
      BY <1>0, <1>2, <2>0 DEF LinkOK
    <2>3. CoversBeyond(db[Peer[t]], db[t], loaded[t])
          => CoversBeyond(db[Peer[t]]', db[t], loaded[t])
      BY <1>1, <2>0, CoversCompose
    <2> QED
      BY <1>4, <2>0, <2>1, <2>2, <2>3 DEF LinkOK, Still, Grew, Serving
  <1> QED
    BY <1>1, <1>2, <1>3, <1>4

\* A merge makes a database grow (merge_from).
LEMMA MergeGrew ==
  ASSUME TypeInv, NEW t \in Trackers, NEW q \in Records, MergeInto(t, q),
         UNCHANGED <<phase, loaded>>
  PROVE  Grew(t)
  <1>1. db[t] \in Durable /\ version[t] \in Nat
    BY DEF TypeInv, TypeOK
  <1>2. merge(db[t], q) \in Durable /\ Covers(merge(db[t], q), db[t])
    BY <1>1, MergeType, RecordsCover
  <1>3. /\ merge_version(db[t], q, version[t]) \in Nat
        /\ \/ merge_version(db[t], q, version[t]) > version[t]
           \/ /\ merge_version(db[t], q, version[t]) = version[t]
              /\ merge(db[t], q) = db[t]
    BY <1>1 DEF merge_version
  <1> QED
    BY <1>2, <1>3 DEF MergeInto, Grew

\* So does a command (dispatch).
LEMMA CommandGrew ==
  ASSUME TypeInv, NEW t \in Trackers, ClientCommand(t)
  PROVE  Grew(t) /\ UNCHANGED <<at, alive, seen, lastPushed, box>>
  <1>0. db[t] \in Durable /\ version[t] \in Nat
    BY DEF TypeInv, TypeOK
  <1>1. PICK d \in Durable : db' = [db EXCEPT ![t] = d] /\ Covers(d, db[t])
    BY <1>0, CommandShape, CommandCovers DEF Commanded
  <1>2. /\ version' = [version EXCEPT ![t] = @ + 1]
        /\ UNCHANGED <<phase, loaded, at, alive, seen, lastPushed, box>>
    BY DEF ClientCommand, CreateUser, Login, Logout, CreateGroup,
           JoinGroup, LeaveGroup, AcceptRequest, RejectRequest, UploadFile,
           FileDownloaded, StopShare, Execute
  <1>3. \E v \in Nat : version' = [version EXCEPT ![t] = v] /\ v > version[t]
    <2>1. version[t] + 1 \in Nat /\ version[t] + 1 > version[t]
      BY <1>0
    <2> QED
      BY <1>2, <2>1
  <1> QED
    BY <1>1, <1>2, <1>3 DEF Grew

\* A link that moves without touching memory leaves the others alone.
LEMMA LinkMoves ==
  ASSUME DeliveryInv, NEW t \in Trackers,
         UNCHANGED <<db, version, phase, loaded>>,
         \A x \in Trackers \ {t} : Still(x), LinkOK(t)'
  PROVE  DeliveryInv'
  <1>1. \A x \in Trackers : MemoryOK(x)'
    BY DEF DeliveryInv, MemoryOK, Serving
  <1>2. \A x \in Trackers \ {t} : LinkOK(x)'
    BY DEF DeliveryInv, LinkOK, Still, Serving
  <1> QED
    BY <1>1, <1>2 DEF DeliveryInv

\* The steps of the link.  version() is read before serialize(), so a command
\* in between makes the version run ahead of what is sent, never behind.
LEMMA LinkDelivers ==
  ASSUME TypeInv, DeliveryInv, NEW t \in Trackers,
         LinkStep(t) \/ LinkTimesOut(t)
  PROVE  DeliveryInv'
  <1>0. /\ db \in [Trackers -> Durable] /\ version \in [Trackers -> Nat]
        /\ seen \in [Trackers -> Nat] /\ lastPushed \in [Trackers -> Nat]
        /\ at \in [Trackers -> Stages] /\ box \in Snapshots
        /\ alive \in [Trackers -> BOOLEAN]
        /\ MemoryOK(t) /\ LinkOK(t)
        /\ Peer[t] \in Trackers /\ MemoryOK(Peer[t])
    BY PeerAssumption DEF TypeInv, TypeOK, DeliveryInv, Snapshots
  <1>1. CASE Poll(t)
    BY <1>1 DEF Poll, vars, DeliveryInv, MemoryOK, LinkOK, Serving
  <1>2. CASE Dial(t) \/ LinkFails(t) \/ LinkTimesOut(t)
    <2>1. /\ at'[t] \in {"idle", "sync"} /\ \A x \in Trackers \ {t} : Still(x)
          /\ UNCHANGED <<db, version, phase, loaded>>
      BY <1>0, <1>2
      DEF Dial, LinkFails, LinkTimesOut, Hangup, Still, stateVars, Snapshots
    <2>2. LinkOK(t)'
      BY <2>1 DEF LinkOK
    <2> QED
      BY <2>1, <2>2, LinkMoves
  <1>3. CASE ServeSync(t)
    <2>1. /\ at'[t] = "pulled" /\ \A x \in Trackers \ {t} : Still(x)
          /\ UNCHANGED <<db, version, phase, loaded>> /\ Serving(Peer[t])
      BY <1>0, <1>3 DEF ServeSync, Still, stateVars
    <2>2. LinkOK(t)'
      BY <2>1 DEF LinkOK, Serving
    <2> QED
      BY <2>1, <2>2, LinkMoves
  <1>4. CASE MergePulled(t)
    <2>1. Grew(t) /\ UNCHANGED phase
      <3>1. box[t] \in Records
        BY <1>4 DEF MergePulled, TypeInv, TypeOK, Carrying
      <3> QED
        BY <1>4, <3>1, MergeGrew DEF MergePulled
    <2>2. /\ \A x \in Trackers \ {t} : Still(x)
          /\ at'[t] = "push" /\ lastPushed'[t] = 0
      BY <1>0, <1>4 DEF MergePulled, Still
    <2>3. /\ \A x \in Trackers : MemoryOK(x)'
          /\ \A x \in Trackers : Still(x) => LinkOK(x)'
          /\ version[t]' \in Nat
      BY <2>1, GrewKeeps
    <2>4. alive[t]' => Serving(Peer[t])'
      BY <1>0, <1>4, <2>1 DEF MergePulled, LinkOK, Serving
    <2>5. version[t]' = 0 => CoversBeyond(db[Peer[t]]', db[t]', loaded[t]')
      BY <2>3, CoversCompose DEF MemoryOK
    <2>6. LinkOK(t)'
      BY <2>2, <2>3, <2>4, <2>5 DEF LinkOK
    <2> QED
      BY <2>2, <2>3, <2>6 DEF DeliveryInv
  <1>5. CASE ReadVersion(t)
    <2>1. /\ at'[t] = "send" /\ \A x \in Trackers \ {t} : Still(x)
          /\ seen'[t] = version[t] /\ UNCHANGED <<db, version, phase, loaded>>
          /\ alive'[t] = alive[t]
      BY <1>0, <1>5 DEF ReadVersion, Still, stateVars
    <2>2. (alive'[t] => Serving(Peer[t])') /\ seen'[t] <= version'[t]
      BY <1>0, <1>5, <2>1 DEF ReadVersion, LinkOK, Serving
    <2>3. LinkOK(t)'
      BY <2>1, <2>2 DEF LinkOK
    <2> QED
      BY <2>1, <2>3, LinkMoves
  <1>6. CASE SendState(t)
    <2>1. /\ at'[t] = "state" /\ \A x \in Trackers \ {t} : Still(x)
          /\ box'[t] = serialize(db[t]) /\ seen'[t] = seen[t]
          /\ alive'[t] = alive[t]
          /\ UNCHANGED <<db, version, phase, loaded>>
      BY <1>0, <1>6 DEF SendState, Still, stateVars, Snapshots
    <2>2. (alive'[t] => Serving(Peer[t])') /\ seen'[t] <= version'[t]
      BY <1>0, <1>6, <2>1 DEF SendState, LinkOK, Serving
    <2>3. CoversBeyond(serialize(db[t]), db[t], loaded[t])
      <3>1. Covers(serialize(db[t]), db[t])
        <4>1. Accounts(serialize(db[t])) = Accounts(db[t])
          BY DEF serialize, Accounts
        <4> QED
          BY <4>1 DEF serialize, Covers, Shared
      <3> QED
        BY <3>1, CoversCompose
    <2>4. LinkOK(t)'
      BY <2>1, <2>2, <2>3 DEF LinkOK
    <2> QED
      BY <2>1, <2>4, LinkMoves
  <1>7. CASE ServeState(t)
    <2>0. box[t] \in Records
      BY <1>7 DEF ServeState, TypeInv, TypeOK, Carrying
    <2>1. Grew(Peer[t]) /\ UNCHANGED phase
      BY <1>0, <1>7, <2>0, MergeGrew DEF ServeState
    <2>2. /\ \A x \in Trackers \ {t} : Still(x)
          /\ at'[t] = "ack" /\ seen'[t] = seen[t]
          /\ db[Peer[t]]' = merge(db[Peer[t]], box[t])
      BY <1>0, <1>7 DEF ServeState, MergeInto, Still
    <2>3. /\ \A x \in Trackers : MemoryOK(x)'
          /\ \A x \in Trackers : Still(x) => LinkOK(x)'
          /\ version[t]' \in Nat /\ version[t]' >= version[t]
          /\ version[t]' = version[t] => db[t]' = db[t]
      BY <1>0, <2>1, GrewKeeps
    <2>4. Serving(Peer[t])'
      BY <1>7, <2>1 DEF ServeState, Serving
    <2>5. seen[t] <= version[t]
      BY <1>0, <1>7 DEF ServeState, LinkOK
    <2>6. ASSUME version[t]' = seen[t]
          PROVE  CoversBeyond(db[Peer[t]]', db[t]', loaded[t]')
      <3>1. version[t] = seen[t] /\ db[t]' = db[t] /\ loaded' = loaded
        BY <1>0, <2>1, <2>3, <2>5, <2>6 DEF Grew
      <3>2. CoversBeyond(box[t], db[t], loaded[t])
        BY <1>0, <1>7, <3>1 DEF ServeState, LinkOK
      <3>3. Covers(db[Peer[t]]', box[t])
        BY <1>0, <2>0, <2>2, RecordsCover
      <3> QED
        BY <3>1, <3>2, <3>3, CoversCompose
    <2>7. LinkOK(t)'
      BY <1>0, <2>2, <2>3, <2>4, <2>5, <2>6 DEF LinkOK
    <2> QED
      BY <2>2, <2>3, <2>7 DEF DeliveryInv
  <1>8. CASE RecvAck(t)
    <2>1. /\ at'[t] = "push" /\ \A x \in Trackers \ {t} : Still(x)
          /\ lastPushed'[t] = seen[t] /\ alive'[t] = alive[t]
          /\ UNCHANGED <<db, version, phase, loaded>>
      BY <1>0, <1>8 DEF RecvAck, Still, stateVars
    <2>2. /\ alive'[t] => Serving(Peer[t])'
          /\ seen[t] <= version'[t]
          /\ alive'[t] /\ version'[t] = seen[t] =>
                CoversBeyond(db[Peer[t]], db[t], loaded[t])
      BY <1>0, <1>8, <2>1 DEF RecvAck, LinkOK, Serving
    <2>3. LinkOK(t)'
      BY <2>1, <2>2 DEF LinkOK
    <2> QED
      BY <2>1, <2>3, LinkMoves
  <1>9. CASE ServeLate(t)
    <2>0. PICK q \in late[t] : MergeInto(Peer[t], q)
      BY <1>9 DEF ServeLate
    <2>1. Grew(Peer[t]) /\ UNCHANGED phase
      BY <1>0, <1>9, <2>0, MergeGrew DEF ServeLate, TypeInv, TypeOK
    <2>2. \A x \in Trackers : Still(x)
      BY <1>9 DEF ServeLate, Still
    <2> QED
      BY <1>0, <2>1, <2>2, GrewKeeps DEF DeliveryInv
  <1> QED
    BY <1>1, <1>2, <1>3, <1>4, <1>5, <1>6, <1>7, <1>8, <1>9 DEF LinkStep

\* The steps of a process.  load_snapshot leaves in memory what it loads and
\* nothing else; one that ends takes its sessions with it on both sides.
LEMMA ProcessDelivers ==
  ASSUME TypeInv, DeliveryInv, NEW t \in Trackers,
         \/ ProcessStep(t) \/ SaveSnapshot(t) \/ FinishSave(t)
         \/ Shutdown(t) \/ ProcessEnds(t)
  PROVE  DeliveryInv'
  <1>0. /\ db \in [Trackers -> Durable] /\ version \in [Trackers -> Nat]
        /\ phase \in [Trackers -> {"down", "starting", "up", "stopping"}]
        /\ loaded \in [Trackers -> Durable]
        /\ at \in [Trackers -> Stages] /\ box \in Snapshots
        /\ seen \in [Trackers -> Nat] /\ lastPushed \in [Trackers -> Nat]
        /\ \A x \in Trackers : Peer[x] \in Trackers /\ MemoryOK(x) /\ LinkOK(x)
    BY PeerAssumption DEF TypeInv, TypeOK, DeliveryInv, Snapshots
  <1>1. CASE SaveSnapshot(t) \/ FinishSave(t) \/ Shutdown(t) \/ Restart(t)
    <2>1. UNCHANGED <<db, version, loaded, at, alive, seen, lastPushed, box>>
      BY <1>1 DEF SaveSnapshot, FinishSave, Shutdown, Restart, BeginSave,
                  stateVars, linkVars
    <2>2. \A x \in Trackers :
             /\ Serving(x) => Serving(x)'
             /\ phase'[x] \in {"down", "starting"} => phase[x] \in {"down", "starting"}
      BY <1>0, <1>1 DEF SaveSnapshot, FinishSave, Shutdown, Restart, Serving
    <2>3. \A x \in Trackers : MemoryOK(x)'
      BY <1>0, <2>1, <2>2 DEF MemoryOK
    <2>4. \A x \in Trackers : LinkOK(x)'
      BY <1>0, <2>1, <2>2 DEF LinkOK
    <2> QED
      BY <2>3, <2>4 DEF DeliveryInv
  <1>2. CASE LoadSnapshot(t)
    <2>1. /\ phase[t] = "starting" /\ phase'[t] = "up"
          /\ UNCHANGED <<version, at, alive, seen, lastPushed, box>>
          /\ \A x \in Trackers \ {t} : /\ phase'[x] = phase[x]
                                       /\ db'[x] = db[x] /\ loaded'[x] = loaded[x]
          /\ \/ db'[t] = db[t] /\ loaded'[t] = loaded[t]
             \/ db'[t] = loaded'[t]
      BY <1>0, <1>2 DEF LoadSnapshot, linkVars
    <2>2. \A x \in Trackers : \/ db'[x] = db[x] /\ loaded'[x] = loaded[x]
                              \/ Covers(loaded'[x], db'[x])
      BY <2>1, CoversOrder
    <2>3. \A x \in Trackers : MemoryOK(x)'
      BY <1>0, <2>1, <2>2 DEF MemoryOK
    <2>4. ASSUME NEW x \in Trackers
          PROVE  LinkOK(x)'
      <3>1. at'[x] \notin {"idle", "sync"} /\ alive'[x] =>
               /\ Serving(Peer[x]) /\ Serving(Peer[x])'
               /\ db'[Peer[x]] = db[Peer[x]]
        BY <1>0, <2>1 DEF LinkOK, Serving
      <3>2. CASE db'[x] = db[x] /\ loaded'[x] = loaded[x]
        BY <1>0, <2>1, <3>1, <3>2 DEF LinkOK
      <3>3. CASE Covers(loaded'[x], db'[x])
        <4>1. \A d : CoversBeyond(d, db'[x], loaded'[x])
          BY <3>3, CoversCompose
        <4> QED
          BY <1>0, <2>1, <3>1, <4>1 DEF LinkOK
      <3> QED
        BY <2>2, <3>2, <3>3
    <2> QED
      BY <2>3, <2>4 DEF DeliveryInv
  <1>3. CASE ProcessEnds(t)
    <2>1. /\ db'[t] = Empty /\ loaded'[t] = Empty /\ at'[t] = "idle"
          /\ \A x \in Trackers \ {t} :
                /\ db'[x] = db[x] /\ loaded'[x] = loaded[x]
                /\ version'[x] = version[x] /\ phase'[x] = phase[x]
                /\ at'[x] = at[x] /\ seen'[x] = seen[x]
                /\ lastPushed'[x] = lastPushed[x] /\ box'[x] = box[x]
      BY <1>0, <1>3 DEF ProcessEnds, Snapshots
    <2>2. ASSUME NEW x \in Trackers \ {t}, alive'[x]
          PROVE  alive[x] /\ Peer[x] # t
      BY <1>3, <2>2 DEF ProcessEnds
    <2>3. ASSUME NEW x \in Trackers
          PROVE  MemoryOK(x)'
      <3>1. CASE x = t
        BY <2>1, <3>1, CoversOrder DEF MemoryOK
      <3>2. CASE x # t
        BY <1>0, <2>1, <3>2 DEF MemoryOK
      <3> QED
        BY <3>1, <3>2
    <2>4. ASSUME NEW x \in Trackers
          PROVE  LinkOK(x)'
      <3>1. CASE x = t
        BY <2>1, <3>1 DEF LinkOK
      <3>2. CASE x # t
        <4>1. alive'[x] => /\ alive[x] /\ db'[Peer[x]] = db[Peer[x]]
                           /\ phase'[Peer[x]] = phase[Peer[x]]
          BY <1>0, <2>1, <2>2, <3>2
        <4> QED
          BY <1>0, <2>1, <3>2, <4>1 DEF LinkOK, Serving
      <3> QED
        BY <3>1, <3>2
    <2> QED
      BY <2>3, <2>4 DEF DeliveryInv
  <1> QED
    BY <1>1, <1>2, <1>3 DEF ProcessStep

\* DeliveredWhenPushed: a link with nothing left to push has delivered every
\* account, group and file its tracker got since it loaded its snapshot, for
\* any trackers started over any snapshots, however their processes end and
\* start again and whatever commands, merges, timeouts and late STATEs
\* interleave with the session (peer_link.cpp run_session).
THEOREM DeliveredWhenPushed ==
  ASSUME NEW r \in Snapshots
  PROVE  SpecFrom(r) => []PushedMeansDelivered
  <1>1. StartedOver(r) => DeliveryInv
    <2> SUFFICES ASSUME StartedOver(r), NEW t \in Trackers
                 PROVE  MemoryOK(t) /\ LinkOK(t)
      BY DEF DeliveryInv
    <2> QED
      BY CoversOrder DEF StartedOver, MemoryOK, LinkOK
  <1>2. TypeInv /\ DeliveryInv /\ [Next]_vars => DeliveryInv'
    <2> SUFFICES ASSUME TypeInv, DeliveryInv, [Next]_vars
                 PROVE  DeliveryInv'
      OBVIOUS
    <2>1. CASE UNCHANGED vars
      BY <2>1 DEF vars, DeliveryInv, MemoryOK, LinkOK, Serving
    <2>2. ASSUME NEW t \in Trackers, ClientCommand(t)
          PROVE  DeliveryInv'
      BY <2>2, CommandGrew, GrewKeeps DEF DeliveryInv, Still
    <2> QED
      BY <2>1, <2>2, LinkDelivers, ProcessDelivers DEF Next
  <1>3. DeliveryInv => PushedMeansDelivered
    BY DEF DeliveryInv, LinkOK, PushedMeansDelivered, Pushed
  <1>4. LinkInv => TypeInv
    BY DEF LinkInv
  <1> QED
    BY <1>1, <1>2, <1>3, <1>4, LinkInvariant, PTL DEF SpecFrom
=============================================================================
