-------------------------- MODULE ReplicationProofs -------------------------
(***************************************************************************)
(* Proofs about Replication, for any set of trackers, any assignment of    *)
(* peers, any users, groups and files, and without bounds that matter: the *)
(* Max constants only guard actions.                                       *)
(*                                                                         *)
(*   Types       every operation of TrackerState maps Durable to Durable,  *)
(*               serialize maps it to Records, merge and load back.        *)
(*   Soundness   every operation keeps the four maps in agreement.         *)
(*   Steps       one lemma per shape of action, one theorem per invariant. *)
(***************************************************************************)
EXTENDS Replication, TLAPS

USE DEF fileVars

Address == Addrs \cup {Offline}
Snapshots == [Trackers -> Records \cup {NoRecords}]

\* The trackers, each started over its own snapshot r[t], or over none; with
\* none anywhere it is Spec.
SpecFrom(r) == StartedOver(r) /\ [][Next]_vars

-----------------------------------------------------------------------------
(* Types. *)

\* A new tracker's four maps have their types (TrackerState's constructor).
LEMMA EmptyType == Empty \in Durable
  BY DEF Empty, Durable

\* create_user keeps the types.
LEMMA CreateUserType ==
  ASSUME NEW d \in Durable, NEW u \in Users, NEW p \in Passwords
  PROVE  create_user(d, u, p) \in Durable
  BY DEF create_user, Durable

\* create_group keeps the types.
LEMMA CreateGroupType ==
  ASSUME NEW d \in Durable, NEW g \in Groups, NEW u \in Users
  PROVE  create_group(d, g, u) \in Durable
  BY DEF create_group, Durable

\* join_group keeps the types.
LEMMA JoinGroupType ==
  ASSUME NEW d \in Durable, NEW g \in Groups, NEW u \in Users
  PROVE  join_group(d, g, u) \in Durable
  BY DEF join_group, Durable

\* leave_group keeps the types whichever member deluser picks as the heir.
LEMMA LeaveGroupType ==
  ASSUME NEW d \in Durable, NEW g \in Groups, NEW u \in Users,
         NEW heir \in heirs(d, g, u)
  PROVE  leave_group(d, g, u, heir) \in Durable
  BY DEF leave_group, heirs, Durable

\* accept_request and reject_request keep the types.
LEMMA AnswerType ==
  ASSUME NEW d \in Durable, NEW g \in Groups, NEW a \in Users
  PROVE  /\ accept_request(d, g, a) \in Durable
         /\ reject_request(d, g, a) \in Durable
  <1>1. accept_request(d, g, a) \in Durable
    BY DEF accept_request, Durable
  <1>2. reject_request(d, g, a) \in Durable
    BY DEF reject_request, Durable
  <1> QED
    BY <1>1, <1>2

\* upload_file keeps the types.
LEMMA UploadFileType ==
  ASSUME NEW d \in Durable, NEW g \in Groups, NEW f \in Names,
         NEW u \in Users, NEW m \in Metas
  PROVE  upload_file(d, g, f, u, m) \in Durable
  BY DEF upload_file, Durable, Files

\* file_downloaded and stop_share keep the types.
LEMMA SeederType ==
  ASSUME NEW d \in Durable, NEW g \in Groups, NEW f \in Names, NEW u \in Users
  PROVE  /\ file_downloaded(d, g, f, u) \in Durable
         /\ stop_share(d, g, f, u) \in Durable
  <1> DEFINE k == <<g, f>>
  <1>1. k \in Files
    BY DEF Files
  <1>2. [d EXCEPT !.seeders[k] = @ \cup {u}] \in Durable
    BY <1>1 DEF Durable
  <1>3. [d EXCEPT !.seeders[k] = @ \ {u}] \in Durable
    BY <1>1 DEF Durable
  <1> QED
    BY <1>2, <1>3 DEF file_downloaded, stop_share

\* What serialize writes is what apply_records_locked reads.
LEMMA SerializeType ==
  ASSUME NEW d \in Durable
  PROVE  serialize(d) \in Records
  BY DEF serialize, Durable, Records

\* merge_from keeps the types, and the version counter a number.
LEMMA MergeType ==
  ASSUME NEW d \in Durable, NEW r \in Records, NEW v \in Nat
  PROVE  merge(d, r) \in Durable /\ merge_version(d, r, v) \in Nat
  <1>1. merge(d, r) \in Durable
    BY DEF merge, Durable, Records, kept_cred, kept_master, kept_meta,
           parsed_master, user_exists
  <1> QED
    BY <1>1 DEF merge_version

\* load_snapshot yields a database.
LEMMA LoadType ==
  ASSUME NEW r \in Records
  PROVE  load(r) \in Durable
  BY EmptyType, MergeType, 0 \in Nat DEF load

-----------------------------------------------------------------------------
(* Soundness. *)

\* A new tracker's maps agree.
LEMMA EmptySound == Sound(Empty, NoUser)
  BY DEF Empty, Sound, References, FileIndex, Ownership, Accounts, Files

\* create_user keeps the maps in agreement.
LEMMA CreateUserSound ==
  ASSUME NEW d \in Durable, NEW u \in Users, NEW p \in Passwords,
         Sound(d, NoUser)
  PROVE  Sound(create_user(d, u, p), NoUser)
  BY NoValues DEF create_user, Durable, Sound, References, FileIndex,
                  Ownership, Accounts, Files

\* create_group of a free name by an account keeps the maps in agreement.
LEMMA CreateGroupSound ==
  ASSUME NEW d \in Durable, NEW g \in Groups, NEW u \in Users,
         Sound(d, NoUser), create_group_ok(d, g, u)
  PROVE  Sound(create_group(d, g, u), NoUser)
  <1> DEFINE e == create_group(d, g, u)
  <1>1. /\ e.cred = d.cred /\ e.meta = d.meta /\ e.seeders = d.seeders
        /\ e.group_files = d.group_files
        /\ e.groups = d.groups \cup {g}
        /\ e.groupmaster = [d.groupmaster EXCEPT ![g] = u]
        /\ e.participants = [d.participants EXCEPT ![g] = {u}]
        /\ e.applicants = [d.applicants EXCEPT ![g] = {}]
    BY DEF create_group, Durable
  <1>2. u \in Accounts(d)
    BY DEF create_group_ok, user_exists, Accounts
  <1> HIDE DEF e
  <1>3. References(e)
    BY <1>1, <1>2 DEF Sound, References, Accounts, Durable
  <1>4. FileIndex(e)
    <2> SUFFICES ASSUME NEW h \in Groups, NEW f \in Names
                 PROVE  /\ f \in e.group_files[h] <=> e.meta[<<h, f>>] # NoMeta
                        /\ e.meta[<<h, f>>] = NoMeta => e.seeders[<<h, f>>] = {}
      BY DEF FileIndex
    <2> QED
      BY <1>1 DEF Sound, FileIndex
  <1>5. Ownership(e, NoUser)
    <2> SUFFICES ASSUME NEW h \in Groups
                 PROVE  IF e.participants[h] = {} THEN e.groupmaster[h] = NoUser
                        ELSE e.groupmaster[h] \in e.participants[h] \ {NoUser}
      BY DEF Ownership
    <2>1. CASE h = g
      BY <1>1, <2>1, NoValues DEF Durable
    <2>2. CASE h # g
      BY <1>1, <2>2 DEF Durable, Sound, Ownership
    <2> QED
      BY <2>1, <2>2
  <1> QED
    BY <1>3, <1>4, <1>5 DEF Sound, e

\* join_group of an account keeps the maps in agreement.
LEMMA JoinGroupSound ==
  ASSUME NEW d \in Durable, NEW g \in Groups, NEW u \in Users,
         Sound(d, NoUser), join_group_ok(d, g, u)
  PROVE  Sound(join_group(d, g, u), NoUser)
  BY NoValues DEF join_group, join_group_ok, group_exists, user_exists,
                  Durable, Sound, References, FileIndex, Ownership, Accounts,
                  Files

\* leave_group hands a group on to a member while it has one.
LEMMA LeaveGroupSound ==
  ASSUME NEW d \in Durable, NEW g \in Groups, NEW u \in Users,
         NEW heir \in heirs(d, g, u),
         Sound(d, NoUser), leave_group_ok(d, g, u)
  PROVE  Sound(leave_group(d, g, u, heir), NoUser)
  BY NoValues DEF leave_group, heirs, leave_group_ok, Durable, Sound,
                  References, FileIndex, Ownership, Accounts, Files

\* accept_request and reject_request keep the maps in agreement: an applicant
\* has an account, and whoever answers owns the group.
LEMMA AnswerSound ==
  ASSUME NEW d \in Durable, NEW g \in Groups, NEW u \in Users, NEW a \in Users,
         Sound(d, NoUser), answer_ok(d, g, a, u)
  PROVE  /\ Sound(accept_request(d, g, a), NoUser)
         /\ Sound(reject_request(d, g, a), NoUser)
  <1>1. Sound(accept_request(d, g, a), NoUser)
    BY NoValues DEF accept_request, answer_ok, group_exists, user_exists,
                    Durable, Sound, References, FileIndex, Ownership,
                    Accounts, Files
  <1>2. Sound(reject_request(d, g, a), NoUser)
    BY NoValues DEF reject_request, answer_ok, Durable, Sound, References,
                    FileIndex, Ownership, Accounts, Files
  <1> QED
    BY <1>1, <1>2

\* upload_file enters a file in the metadata and in the index of its group.
LEMMA UploadFileSound ==
  ASSUME NEW d \in Durable, NEW g \in Groups, NEW f \in Names,
         NEW u \in Users, NEW m \in Metas,
         Sound(d, NoUser), is_member(d, g, u)
  PROVE  Sound(upload_file(d, g, f, u, m), NoUser)
  BY NoValues DEF upload_file, is_member, group_exists, user_exists, Durable,
                  Sound, References, FileIndex, Ownership, Accounts, Files

\* file_downloaded and stop_share only name accounts as seeders, and only of
\* files that have metadata.
LEMMA SeederSound ==
  ASSUME NEW d \in Durable, NEW g \in Groups, NEW f \in Names, NEW u \in Users,
         Sound(d, NoUser), is_member(d, g, u)
  PROVE  /\ Sound(file_downloaded(d, g, f, u), NoUser)
         /\ Sound(stop_share(d, g, f, u), NoUser)
  <1>1. Sound(file_downloaded(d, g, f, u), NoUser)
    BY NoValues DEF file_downloaded, is_member, user_exists, Durable, Sound,
                    References, FileIndex, Ownership, Accounts, Files
  <1>2. Sound(stop_share(d, g, f, u), NoUser)
    BY NoValues DEF stop_share, Durable, Sound, References, FileIndex,
                    Ownership, Accounts, Files
  <1> QED
    BY <1>1, <1>2

\* Unless an account is called "-", serialize keeps the maps in agreement: the
\* owner written is the owner, and "-" is written for nobody else.
LEMMA SerializeSound ==
  ASSUME NEW d \in Durable, Sound(d, NoUser), Dash \notin Users
  PROVE  Sound(serialize(d), Dash)
  BY NoValues DEF serialize, Durable, Sound, References, FileIndex, Ownership,
                  Accounts, Files

\* merge_from of a sound record keeps the maps in agreement: a group takes the
\* sender's owner exactly when it has no member of its own, and the sender's
\* owner then comes with the sender's members.
LEMMA MergeSound ==
  ASSUME NEW d \in Durable, NEW r \in Records,
         Sound(d, NoUser), Sound(r, Dash), Dash \notin Users
  PROVE  Sound(merge(d, r), NoUser)
  <1> DEFINE e == merge(d, r)
  <1>1. /\ e.cred = [u \in Users |-> kept_cred(d, r, u)]
        /\ e.groups = d.groups \cup r.groups
        /\ e.groupmaster = [g \in Groups |-> kept_master(d, r, g)]
        /\ e.participants =
              [g \in Groups |-> d.participants[g] \cup r.participants[g]]
        /\ e.applicants =
              [g \in Groups |-> d.applicants[g] \cup r.applicants[g]]
        /\ e.meta = [k \in Files |-> kept_meta(d, r, k)]
        /\ e.seeders = [k \in Files |-> d.seeders[k] \cup r.seeders[k]]
        /\ e.group_files =
              [g \in Groups |-> d.group_files[g] \cup r.group_files[g]]
    BY DEF merge
  <1> HIDE DEF e
  <1>2. Accounts(e) = Accounts(d) \cup Accounts(r)
    <2> SUFFICES ASSUME NEW u \in Users
                 PROVE  e.cred[u] # NoPassword <=>
                           d.cred[u] # NoPassword \/ r.cred[u] # NoPassword
      BY DEF Accounts
    <2>1. e.cred[u] = kept_cred(d, r, u)
      BY <1>1
    <2> QED
      BY <2>1 DEF kept_cred, user_exists
  <1>3. References(e)
    BY <1>1, <1>2 DEF Sound, References, Durable, Records
  <1>4. FileIndex(e)
    <2> SUFFICES ASSUME NEW g \in Groups, NEW f \in Names
                 PROVE  /\ f \in e.group_files[g] <=> e.meta[<<g, f>>] # NoMeta
                        /\ e.meta[<<g, f>>] = NoMeta => e.seeders[<<g, f>>] = {}
      BY DEF FileIndex
    <2> DEFINE k == <<g, f>>
    <2>1. /\ e.group_files[g] = d.group_files[g] \cup r.group_files[g]
          /\ e.meta[k] = kept_meta(d, r, k)
          /\ e.seeders[k] = d.seeders[k] \cup r.seeders[k]
      BY <1>1 DEF Files
    <2>2. /\ f \in d.group_files[g] <=> d.meta[k] # NoMeta
          /\ d.meta[k] = NoMeta => d.seeders[k] = {}
          /\ f \in r.group_files[g] <=> r.meta[k] # NoMeta
          /\ r.meta[k] = NoMeta => r.seeders[k] = {}
      BY DEF Sound, FileIndex
    <2> QED
      BY <2>1, <2>2 DEF kept_meta
  <1>5. Ownership(e, NoUser)
    BY <1>1, NoValues DEF Sound, Ownership, kept_master, parsed_master,
                          Durable, Records
  <1> QED
    BY <1>3, <1>4, <1>5 DEF Sound, e

\* load_snapshot of a sound record yields a sound database.
LEMMA LoadSound ==
  ASSUME NEW r \in Records, Sound(r, Dash), Dash \notin Users
  PROVE  Sound(load(r), NoUser)
  BY EmptyType, EmptySound, MergeSound DEF load
-----------------------------------------------------------------------------
(* The type invariant.  TypeOK alone is not inductive: that merge_from is   *)
(* given a record rests on the link carrying one while it is "pulled" or    *)
(* "state".                                                                 *)

TypeInv == TypeOK /\ Carrying

\* Trackers that have started over a snapshot file, or over none, have their
\* types (the start of main).
LEMMA StartType ==
  ASSUME NEW r \in Snapshots, StartedOver(r)
  PROVE  TypeInv
  BY EmptyType DEF StartedOver, AllOffline, TypeInv, TypeOK, Carrying, Stages,
                   Snapshots

\* A command that leaves a database and addresses of the right type keeps the
\* type invariant (dispatch).
LEMMA ExecuteType ==
  ASSUME TypeInv, NEW t \in Trackers, NEW verb, NEW d \in Durable,
         NEW ad \in [Users -> Address], Execute(t, verb, d, ad)
  PROVE  TypeInv'
  BY DEF Execute, TypeInv, TypeOK, Carrying, Address

\* So does merging a record into a database (merge_from).
LEMMA MergeIntoType ==
  ASSUME TypeInv, NEW t \in Trackers, NEW r \in Records, MergeInto(t, r)
  PROVE  /\ db' \in [Trackers -> Durable]
         /\ version' \in [Trackers -> Nat]
         /\ addr' = addr
  <1>1. db[t] \in Durable /\ version[t] \in Nat
    BY DEF TypeInv, TypeOK
  <1>2. merge(db[t], r) \in Durable /\ merge_version(db[t], r, version[t]) \in Nat
    BY <1>1, MergeType
  <1> QED
    BY <1>2 DEF MergeInto, TypeInv, TypeOK

\* Every client command keeps the type invariant (dispatch).
LEMMA ClientCommandType ==
  ASSUME TypeInv, NEW t \in Trackers, ClientCommand(t)
  PROVE  TypeInv'
  <1>0. db[t] \in Durable /\ addr[t] \in [Users -> Address]
    BY DEF TypeInv, TypeOK, Address
  <1>1. ASSUME NEW u \in Users, NEW p \in Passwords, CreateUser(t, u, p)
        PROVE  TypeInv'
    BY <1>0, <1>1, CreateUserType, ExecuteType DEF CreateUser
  <1>2. ASSUME NEW u \in Users, NEW p \in Passwords, NEW a \in Addrs,
               Login(t, u, p, a)
        PROVE  TypeInv'
    <2>1. Peer_login(addr[t], u, a) \in [Users -> Address]
      BY <1>0 DEF Peer_login, Address
    <2> QED
      BY <1>0, <1>2, <2>1, ExecuteType DEF Login
  <1>3. ASSUME NEW u \in Users, Logout(t, u)
        PROVE  TypeInv'
    <2>1. Peer_logout(addr[t], u) \in [Users -> Address]
      BY <1>0 DEF Peer_logout, Address
    <2> QED
      BY <1>0, <1>3, <2>1, ExecuteType DEF Logout
  <1>4. ASSUME NEW u \in Users, NEW g \in Groups, CreateGroup(t, u, g)
        PROVE  TypeInv'
    BY <1>0, <1>4, CreateGroupType, ExecuteType DEF CreateGroup
  <1>5. ASSUME NEW u \in Users, NEW g \in Groups, JoinGroup(t, u, g)
        PROVE  TypeInv'
    BY <1>0, <1>5, JoinGroupType, ExecuteType DEF JoinGroup
  <1>6. ASSUME NEW u \in Users, NEW g \in Groups, LeaveGroup(t, u, g)
        PROVE  TypeInv'
    BY <1>0, <1>6, LeaveGroupType, ExecuteType DEF LeaveGroup
  <1>7. ASSUME NEW u \in Users, NEW g \in Groups, NEW a \in Users,
               AcceptRequest(t, u, g, a) \/ RejectRequest(t, u, g, a)
        PROVE  TypeInv'
    BY <1>0, <1>7, AnswerType, ExecuteType DEF AcceptRequest, RejectRequest
  <1>8. ASSUME NEW u \in Users, NEW g \in Groups, NEW f \in Names,
               NEW m \in Metas, UploadFile(t, u, g, f, m)
        PROVE  TypeInv'
    BY <1>0, <1>8, UploadFileType, ExecuteType DEF UploadFile
  <1>9. ASSUME NEW u \in Users, NEW g \in Groups, NEW f \in Names,
               FileDownloaded(t, u, g, f) \/ StopShare(t, u, g, f)
        PROVE  TypeInv'
    BY <1>0, <1>9, SeederType, ExecuteType DEF FileDownloaded, StopShare
  <1> QED
    BY <1>1, <1>2, <1>3, <1>4, <1>5, <1>6, <1>7, <1>8, <1>9 DEF ClientCommand

\* Every step of a link keeps the type invariant (PeerLink::session).
LEMMA LinkType ==
  ASSUME TypeInv, NEW t \in Trackers, LinkStep(t) \/ LinkTimesOut(t)
  PROVE  TypeInv'
  <1>0. Peer[t] \in Trackers
    BY PeerAssumption
  <1>1. CASE Dial(t)
    BY <1>1 DEF Dial, TypeInv, TypeOK, Carrying, Stages, stateVars, bounds
  <1>2. CASE ServeSync(t)
    <2>1. serialize(db[Peer[t]]) \in Records
      BY <1>0, SerializeType DEF TypeInv, TypeOK
    <2> QED
      BY <1>2, <2>1, NoRecordsAssumption
      DEF ServeSync, TypeInv, TypeOK, Carrying, Stages, stateVars, bounds
  <1>3. CASE MergePulled(t)
    <2>1. box[t] \in Records
      BY <1>3 DEF MergePulled, TypeInv, TypeOK, Carrying
    <2>2. /\ db' \in [Trackers -> Durable]
          /\ version' \in [Trackers -> Nat]
          /\ addr' = addr
      BY <1>3, <2>1, MergeIntoType DEF MergePulled
    <2> QED
      BY <1>3, <2>2 DEF MergePulled, TypeInv, TypeOK, Carrying, Stages, bounds
  <1>4. CASE Poll(t)
    BY <1>4 DEF Poll, vars, TypeInv, TypeOK, Carrying, bounds
  <1>5. CASE ReadVersion(t)
    BY <1>5
    DEF ReadVersion, TypeInv, TypeOK, Carrying, Stages, stateVars, bounds
  <1>6. CASE SendState(t)
    <2>1. serialize(db[t]) \in Records
      BY SerializeType DEF TypeInv, TypeOK
    <2> QED
      BY <1>6, <2>1, NoRecordsAssumption
      DEF SendState, TypeInv, TypeOK, Carrying, Stages, stateVars, bounds
  <1>7. CASE ServeState(t)
    <2>1. box[t] \in Records
      BY <1>7 DEF ServeState, TypeInv, TypeOK, Carrying
    <2>2. /\ db' \in [Trackers -> Durable]
          /\ version' \in [Trackers -> Nat]
          /\ addr' = addr
      BY <1>0, <1>7, <2>1, MergeIntoType DEF ServeState
    <2> QED
      BY <1>7, <2>2 DEF ServeState, TypeInv, TypeOK, Carrying, Stages, bounds
  <1>8. CASE RecvAck(t)
    BY <1>8
    DEF RecvAck, TypeInv, TypeOK, Carrying, Stages, stateVars, bounds
  <1>9. CASE LinkFails(t) \/ LinkTimesOut(t)
    <2>1. Hangup(t)
      BY <1>9 DEF LinkFails, LinkTimesOut
    <2>2. at[t] = "state" => box[t] \in Records
      BY DEF TypeInv, TypeOK, Carrying
    <2>3. late' \in [Trackers -> SUBSET Records]
      BY <2>1, <2>2 DEF Hangup, TypeInv, TypeOK
    <2> QED
      BY <1>9, <2>1, <2>3
      DEF LinkFails, LinkTimesOut, Hangup, TypeInv, TypeOK, Carrying, Stages,
          stateVars, bounds
  <1>10. CASE ServeLate(t)
    <2>1. PICK r \in late[t] : /\ MergeInto(Peer[t], r)
                               /\ late' = [late EXCEPT ![t] = @ \ {r}]
      BY <1>10 DEF ServeLate
    <2>2. r \in Records
      BY <2>1 DEF TypeInv, TypeOK
    <2>3. /\ db' \in [Trackers -> Durable]
          /\ version' \in [Trackers -> Nat]
          /\ addr' = addr
      BY <1>0, <2>1, <2>2, MergeIntoType
    <2> QED
      BY <1>10, <2>1, <2>3 DEF ServeLate, TypeInv, TypeOK, Carrying, bounds
  <1> QED
    BY <1>1, <1>2, <1>3, <1>4, <1>5, <1>6, <1>7, <1>8, <1>9, <1>10 DEF LinkStep

\* Start, snapshot, shutdown and end of a process keep the type invariant
\* (main).
LEMMA ProcessType ==
  ASSUME TypeInv, NEW t \in Trackers,
         \/ ProcessStep(t) \/ SaveSnapshot(t) \/ FinishSave(t)
         \/ Shutdown(t) \/ ProcessEnds(t)
  PROVE  TypeInv'
  <1>0. serialize(db[t]) \in Records
    BY SerializeType DEF TypeInv, TypeOK
  <1>1. CASE LoadSnapshot(t)
    <2>1. disk[t] # NoRecords => load(disk[t]) \in Durable
      BY LoadType DEF TypeInv, TypeOK
    <2>2. db' \in [Trackers -> Durable]
      BY <1>1, <2>1 DEF LoadSnapshot, TypeInv, TypeOK
    <2>3. addr' \in [Trackers -> [Users -> Addrs \cup {Offline}]]
      BY <1>1 DEF LoadSnapshot, AllOffline, TypeInv, TypeOK
    <2>4. phase' \in [Trackers -> {"down", "starting", "up", "stopping"}]
      BY <1>1 DEF LoadSnapshot, TypeInv, TypeOK
    <2>5. loaded' \in [Trackers -> Durable]
      BY <1>1, <2>1 DEF LoadSnapshot, TypeInv, TypeOK
    <2> QED
      BY <1>1, <2>2, <2>3, <2>4, <2>5
      DEF LoadSnapshot, TypeInv, TypeOK, Carrying, linkVars, bounds
  <1>2. CASE Restart(t)
    BY <1>2
    DEF Restart, TypeInv, TypeOK, Carrying, stateVars, linkVars, bounds
  <1>3. CASE SaveSnapshot(t)
    BY <1>0, <1>3
    DEF SaveSnapshot, BeginSave, TypeInv, TypeOK, Carrying, stateVars, linkVars
  <1>4. CASE Shutdown(t)
    BY <1>0, <1>4
    DEF Shutdown, BeginSave, TypeInv, TypeOK, Carrying, stateVars, linkVars
  <1>5. CASE ProcessEnds(t)
    <2>1. at[t] = "state" => box[t] \in Records
      BY DEF TypeInv, TypeOK, Carrying
    <2>2. late' \in [Trackers -> SUBSET Records]
      BY <1>5, <2>1 DEF ProcessEnds, TypeInv, TypeOK
    <2>3. Carrying'
      BY <1>5 DEF ProcessEnds, TypeInv, TypeOK, Carrying
    <2>4. alive' \in [Trackers -> BOOLEAN]
      <3>1. alive' = [x \in Trackers |-> alive[x] /\ x # t /\ Peer[x] # t]
        BY <1>5 DEF ProcessEnds
      <3>2. \A x \in Trackers : (alive[x] /\ x # t /\ Peer[x] # t) \in BOOLEAN
        BY Zenon
      <3> QED
        BY <3>1, <3>2, Zenon
    <2> QED
      BY <1>5, <2>2, <2>3, <2>4, EmptyType
      DEF ProcessEnds, AllOffline, TypeInv, TypeOK, Stages
  <1>6. CASE FinishSave(t)
    <2>1. PICK r \in Left(t) : disk' = [disk EXCEPT ![t] = r]
      BY <1>6 DEF FinishSave
    <2>2. r \in Records \cup {NoRecords}
      BY <2>1 DEF Left, TypeInv, TypeOK
    <2> QED
      BY <1>6, <2>1, <2>2
      DEF FinishSave, TypeInv, TypeOK, Carrying, stateVars, linkVars, bounds
  <1> QED
    BY <1>1, <1>2, <1>3, <1>4, <1>5, <1>6 DEF ProcessStep

\* Every step of the trackers keeps the types.
LEMMA TypeStep ==
  ASSUME TypeInv, [Next]_vars
  PROVE  TypeInv'
  <1>1. CASE UNCHANGED vars
    BY <1>1 DEF vars, TypeInv, TypeOK, Carrying, bounds
  <1>2. CASE Next
    BY <1>2, ClientCommandType, LinkType, ProcessType DEF Next
  <1> QED
    BY <1>1, <1>2

\* The strengthened type invariant holds always.
LEMMA TypeInvariant ==
  ASSUME NEW r \in Snapshots
  PROVE  SpecFrom(r) => []TypeInv
  <1>1. StartedOver(r) => TypeInv
    BY StartType
  <1> QED
    BY <1>1, TypeStep, PTL DEF SpecFrom

\* Started over any snapshots or none, the state of the trackers, their links
\* and their disks always has its types: in particular merge_from is only ever
\* handed something that serialize wrote, and no operation leaves the four
\* maps of TrackerState malformed.
THEOREM TypeCorrect ==
  ASSUME NEW r \in Snapshots
  PROVE  SpecFrom(r) => []TypeOK
  <1>1. TypeInv => TypeOK
    BY DEF TypeInv
  <1> QED
    BY <1>1, TypeInvariant, PTL

-----------------------------------------------------------------------------
(* Integrity.  It is not inductive: a merge or a load is only as sound as   *)
(* the record, which may have been written long ago.  RecordsSound says so  *)
(* of every record on disk or in flight.                                    *)

SoundInv == Integrity /\ RecordsSound

\* Splits the inductive invariant into its typing and its soundness.
LEMMA IntegrityInvParts == IntegrityInv <=> TypeInv /\ SoundInv
  BY DEF IntegrityInv, TypeInv, SoundInv

\* Trackers that start over a sound snapshot or none are sound (the start of
\* main).
LEMMA StartSound ==
  ASSUME NEW r \in Snapshots, \A t \in Trackers : SoundRecords(r[t]), StartedOver(r)
  PROVE  SoundInv
  BY EmptySound DEF StartedOver, SoundInv, Integrity, RecordsSound, SoundRecords

\* A command that leaves a sound database keeps soundness (dispatch).
LEMMA ExecuteSound ==
  ASSUME TypeInv, SoundInv, NEW t \in Trackers, NEW verb, NEW d, NEW ad,
         Sound(d, NoUser), Execute(t, verb, d, ad)
  PROVE  SoundInv'
  <1>1. Integrity'
    BY DEF Execute, TypeInv, TypeOK, SoundInv, Integrity
  <1>2. RecordsSound'
    BY DEF Execute, SoundInv, RecordsSound
  <1> QED
    BY <1>1, <1>2 DEF SoundInv

\* So does merging a sound record (merge_from).
LEMMA MergeIntoSound ==
  ASSUME TypeInv, SoundInv, Dash \notin Users, NEW t \in Trackers,
         NEW r \in Records, Sound(r, Dash), MergeInto(t, r)
  PROVE  Integrity'
  <1>1. db[t] \in Durable /\ Sound(db[t], NoUser)
    BY DEF TypeInv, TypeOK, SoundInv, Integrity
  <1>2. Sound(merge(db[t], r), NoUser)
    BY <1>1, MergeSound
  <1> QED
    BY <1>2 DEF MergeInto, TypeInv, TypeOK, SoundInv, Integrity

\* Every client command keeps soundness (dispatch).
LEMMA ClientCommandSound ==
  ASSUME TypeInv, SoundInv, NEW t \in Trackers, ClientCommand(t)
  PROVE  SoundInv'
  <1>0. db[t] \in Durable /\ Sound(db[t], NoUser)
    BY DEF TypeInv, TypeOK, SoundInv, Integrity
  <1>1. ASSUME NEW u \in Users, NEW p \in Passwords, CreateUser(t, u, p)
        PROVE  SoundInv'
    BY <1>0, <1>1, CreateUserSound, ExecuteSound DEF CreateUser
  <1>2. ASSUME NEW u \in Users, NEW p \in Passwords, NEW a \in Addrs,
               Login(t, u, p, a)
        PROVE  SoundInv'
    BY <1>0, <1>2, ExecuteSound DEF Login
  <1>3. ASSUME NEW u \in Users, Logout(t, u)
        PROVE  SoundInv'
    BY <1>0, <1>3, ExecuteSound DEF Logout
  <1>4. ASSUME NEW u \in Users, NEW g \in Groups, CreateGroup(t, u, g)
        PROVE  SoundInv'
    BY <1>0, <1>4, CreateGroupSound, ExecuteSound DEF CreateGroup
  <1>5. ASSUME NEW u \in Users, NEW g \in Groups, JoinGroup(t, u, g)
        PROVE  SoundInv'
    BY <1>0, <1>5, JoinGroupSound, ExecuteSound DEF JoinGroup
  <1>6. ASSUME NEW u \in Users, NEW g \in Groups, LeaveGroup(t, u, g)
        PROVE  SoundInv'
    BY <1>0, <1>6, LeaveGroupSound, ExecuteSound DEF LeaveGroup
  <1>7. ASSUME NEW u \in Users, NEW g \in Groups, NEW a \in Users,
               AcceptRequest(t, u, g, a) \/ RejectRequest(t, u, g, a)
        PROVE  SoundInv'
    BY <1>0, <1>7, AnswerSound, ExecuteSound DEF AcceptRequest, RejectRequest
  <1>8. ASSUME NEW u \in Users, NEW g \in Groups, NEW f \in Names,
               NEW m \in Metas, UploadFile(t, u, g, f, m)
        PROVE  SoundInv'
    BY <1>0, <1>8, UploadFileSound, ExecuteSound DEF UploadFile
  <1>9. ASSUME NEW u \in Users, NEW g \in Groups, NEW f \in Names,
               FileDownloaded(t, u, g, f) \/ StopShare(t, u, g, f)
        PROVE  SoundInv'
    <2>1. is_member(db[t], g, u)
      BY <1>9 DEF FileDownloaded, StopShare, file_downloaded_ok, stop_share_ok
    <2> QED
      BY <1>0, <1>9, <2>1, SeederSound, ExecuteSound
      DEF FileDownloaded, StopShare
  <1> QED
    BY <1>1, <1>2, <1>3, <1>4, <1>5, <1>6, <1>7, <1>8, <1>9 DEF ClientCommand

\* Every step of a link keeps soundness (PeerLink::session).
LEMMA LinkSound ==
  ASSUME TypeInv, SoundInv, Dash \notin Users, NEW t \in Trackers,
         LinkStep(t) \/ LinkTimesOut(t)
  PROVE  SoundInv'
  <1>0. /\ Peer[t] \in Trackers
        /\ \A x \in Trackers : SoundRecords(serialize(db[x]))
    <2>1. ASSUME NEW x \in Trackers PROVE Sound(serialize(db[x]), Dash)
      BY SerializeSound DEF TypeInv, TypeOK, SoundInv, Integrity
    <2> QED
      BY <2>1, PeerAssumption DEF SoundRecords
  <1>1. CASE Dial(t)
    BY <1>1 DEF Dial, SoundInv, Integrity, RecordsSound, stateVars
  <1>2. CASE ServeSync(t)
    BY <1>0, <1>2
    DEF ServeSync, TypeInv, TypeOK, SoundInv, Integrity, RecordsSound, stateVars
  <1>3. CASE MergePulled(t)
    <2>1. box[t] \in Records /\ Sound(box[t], Dash)
      BY <1>3 DEF MergePulled, TypeInv, TypeOK, Carrying, SoundInv,
                  RecordsSound, SoundRecords
    <2>2. Integrity'
      BY <1>3, <2>1, MergeIntoSound DEF MergePulled
    <2>3. RecordsSound'
      BY <1>3 DEF MergePulled, TypeInv, TypeOK, SoundInv, RecordsSound,
                  SoundRecords
    <2> QED
      BY <2>2, <2>3 DEF SoundInv
  <1>4. CASE Poll(t)
    BY <1>4 DEF Poll, vars, SoundInv, Integrity, RecordsSound
  <1>5. CASE ReadVersion(t)
    BY <1>5 DEF ReadVersion, SoundInv, Integrity, RecordsSound, stateVars
  <1>6. CASE SendState(t)
    BY <1>0, <1>6
    DEF SendState, TypeInv, TypeOK, SoundInv, Integrity, RecordsSound, stateVars
  <1>7. CASE ServeState(t)
    <2>1. box[t] \in Records /\ Sound(box[t], Dash)
      BY <1>7 DEF ServeState, TypeInv, TypeOK, Carrying, SoundInv,
                  RecordsSound, SoundRecords
    <2>2. Integrity'
      BY <1>0, <1>7, <2>1, MergeIntoSound DEF ServeState
    <2>3. RecordsSound'
      BY <1>7 DEF ServeState, TypeInv, TypeOK, SoundInv, RecordsSound,
                  SoundRecords
    <2> QED
      BY <2>2, <2>3 DEF SoundInv
  <1>8. CASE RecvAck(t)
    BY <1>8 DEF RecvAck, SoundInv, Integrity, RecordsSound, stateVars
  <1>9. CASE LinkFails(t) \/ LinkTimesOut(t)
    <2>1. Hangup(t) /\ UNCHANGED <<db, disk, saving>>
      BY <1>9 DEF LinkFails, LinkTimesOut, stateVars
    <2>2. RecordsSound'
      BY <2>1 DEF Hangup, TypeInv, TypeOK, SoundInv, RecordsSound, SoundRecords
    <2> QED
      BY <2>1, <2>2 DEF SoundInv, Integrity
  <1>10. CASE ServeLate(t)
    <2>1. PICK r \in late[t] : /\ MergeInto(Peer[t], r)
                               /\ late' = [late EXCEPT ![t] = @ \ {r}]
      BY <1>10 DEF ServeLate
    <2>2. r \in Records /\ Sound(r, Dash)
      BY <2>1, NoRecordsAssumption
      DEF TypeInv, TypeOK, SoundInv, RecordsSound, SoundRecords
    <2>3. Integrity'
      BY <1>0, <2>1, <2>2, MergeIntoSound
    <2>4. RecordsSound'
      BY <1>10, <2>1 DEF ServeLate, TypeInv, TypeOK, SoundInv, RecordsSound
    <2> QED
      BY <2>3, <2>4 DEF SoundInv
  <1> QED
    BY <1>1, <1>2, <1>3, <1>4, <1>5, <1>6, <1>7, <1>8, <1>9, <1>10 DEF LinkStep

\* Start, snapshot, shutdown and end of a process keep soundness (main).
LEMMA ProcessSound ==
  ASSUME TypeInv, SoundInv, Dash \notin Users, ~Overlap, NEW t \in Trackers,
         \/ ProcessStep(t) \/ SaveSnapshot(t) \/ FinishSave(t)
         \/ Shutdown(t) \/ ProcessEnds(t)
  PROVE  SoundInv'
  <1>0. SoundRecords(serialize(db[t]))
    BY SerializeSound DEF TypeInv, TypeOK, SoundInv, Integrity, SoundRecords
  <1>1. CASE LoadSnapshot(t)
    <2>1. disk[t] # NoRecords => Sound(load(disk[t]), NoUser)
      BY LoadSound DEF TypeInv, TypeOK, SoundInv, RecordsSound, SoundRecords
    <2>2. Integrity'
      BY <1>1, <2>1 DEF LoadSnapshot, TypeInv, TypeOK, SoundInv, Integrity
    <2>3. RecordsSound'
      BY <1>1 DEF LoadSnapshot, SoundInv, RecordsSound, linkVars
    <2> QED
      BY <2>2, <2>3 DEF SoundInv
  <1>2. CASE Restart(t)
    BY <1>2 DEF Restart, SoundInv, Integrity, RecordsSound, stateVars, linkVars
  <1>3. CASE SaveSnapshot(t) \/ Shutdown(t)
    <2>1. /\ saving' = [saving EXCEPT ![t] = serialize(db[t])]
          /\ UNCHANGED <<db, disk, box, late>>
      BY <1>3 DEF SaveSnapshot, Shutdown, BeginSave, stateVars, linkVars
    <2> QED
      BY <1>0, <2>1 DEF TypeInv, TypeOK, SoundInv, Integrity, RecordsSound
  <1>4. CASE ProcessEnds(t)
    <2>1. Integrity'
      BY <1>4, EmptySound
      DEF ProcessEnds, TypeInv, TypeOK, SoundInv, Integrity
    <2>2. RecordsSound'
      BY <1>4
      DEF ProcessEnds, TypeInv, TypeOK, SoundInv, RecordsSound, SoundRecords
    <2> QED
      BY <2>1, <2>2 DEF SoundInv
  <1>5. CASE FinishSave(t)
    <2>1. PICK r \in {saving[t], disk[t]} : disk' = [disk EXCEPT ![t] = r]
      BY <1>5 DEF FinishSave, Left
    <2>2. saving' = [saving EXCEPT ![t] = NoRecords] /\ UNCHANGED <<db, box, late>>
      BY <1>5 DEF FinishSave, stateVars, linkVars
    <2> QED
      BY <2>1, <2>2
      DEF TypeInv, TypeOK, SoundInv, Integrity, RecordsSound, SoundRecords
  <1> QED
    BY <1>1, <1>2, <1>3, <1>4, <1>5 DEF ProcessStep

\* Started over any sound snapshots or none, if no two saves of a tracker
\* overlap and no account is called "-", the inductive invariant holds for ever: the maps of every tracker
\* agree, and so do those of every snapshot on disk and every STATE in flight,
\* however old (tracker_state.cpp, persistence.cpp).
THEOREM IntegrityInductive ==
  ASSUME Dash \notin Users, ~Overlap, NEW r \in Snapshots,
         \A t \in Trackers : SoundRecords(r[t])
  PROVE  SpecFrom(r) => []IntegrityInv
  <1>1. StartedOver(r) => IntegrityInv
    BY StartType, StartSound, IntegrityInvParts
  <1>2. IntegrityInv /\ [Next]_vars => IntegrityInv'
    <2> SUFFICES ASSUME TypeInv, SoundInv, [Next]_vars
                 PROVE  TypeInv' /\ SoundInv'
      BY IntegrityInvParts DEF IntegrityInv, TypeInv, SoundInv
    <2>1. CASE UNCHANGED vars
      BY <2>1 DEF vars, TypeInv, TypeOK, Carrying, SoundInv, Integrity,
                  RecordsSound, bounds
    <2>2. CASE Next
      BY <2>2, ClientCommandType, LinkType, ProcessType, ClientCommandSound,
         LinkSound, ProcessSound DEF Next
    <2> QED
      BY <2>1, <2>2
  <1> QED
    BY <1>1, <1>2, PTL DEF SpecFrom

\* On the same conditions every tracker's maps agree with each other
\* for ever: members, applicants and seeders have accounts, the file index and
\* the metadata name the same files, and a group has an owner, one of its
\* members, exactly while it has members (tracker_state.cpp, persistence.cpp).
THEOREM IntegrityKept ==
  ASSUME Dash \notin Users, ~Overlap, NEW r \in Snapshots,
         \A t \in Trackers : SoundRecords(r[t])
  PROVE  SpecFrom(r) => []Integrity
  <1>1. IntegrityInv => Integrity
    BY DEF IntegrityInv
  <1> QED
    BY <1>1, IntegrityInductive, PTL
-----------------------------------------------------------------------------
(* What a step never does. *)

\* A command changes an owner only in create_group, of a group nobody owns,
\* and in leave_group, of the owner.
LEMMA CommandKeeps ==
  ASSUME TypeInv, Integrity, NEW t \in Trackers, ClientCommand(t)
  PROVE  \A x \in Trackers : OwnerMovesOnLeave(db[x], db[x]')
  <1>0. db[t] \in Durable /\ Sound(db[t], NoUser)
    BY DEF TypeInv, TypeOK, Integrity
  <1> DEFINE d == db[t]
  <1>1. PICK verb, e, ad : Execute(t, verb, e, ad) /\ OwnerMovesOnLeave(d, e)
    <2>1. ASSUME NEW u \in Users, NEW p \in Passwords, CreateUser(t, u, p)
          PROVE  OwnerMovesOnLeave(d, create_user(d, u, p))
      BY <1>0, <2>1 DEF CreateUser, create_user_ok, create_user, user_exists,
           OwnerMovesOnLeave, Durable
    <2>2. OwnerMovesOnLeave(d, d)
      BY DEF OwnerMovesOnLeave
    <2>3. ASSUME NEW u \in Users, NEW g \in Groups, CreateGroup(t, u, g)
          PROVE  OwnerMovesOnLeave(d, create_group(d, g, u))
      <3>1. d.groupmaster[g] = NoUser
        BY <1>0, <2>3 DEF CreateGroup, create_group_ok, group_exists, Sound,
                          References, Ownership
      <3> QED
        BY <1>0, <3>1 DEF create_group, OwnerMovesOnLeave, Durable
    <2>4. ASSUME NEW u \in Users, NEW g \in Groups
          PROVE  OwnerMovesOnLeave(d, join_group(d, g, u))
      BY <1>0 DEF join_group, OwnerMovesOnLeave, Durable
    <2>5. ASSUME NEW u \in Users, NEW g \in Groups, NEW heir \in heirs(d, g, u)
          PROVE  OwnerMovesOnLeave(d, leave_group(d, g, u, heir))
      BY <1>0 DEF leave_group, heirs, OwnerMovesOnLeave, Durable
    <2>6. ASSUME NEW g \in Groups, NEW a \in Users
          PROVE  /\ OwnerMovesOnLeave(d, accept_request(d, g, a))
                 /\ OwnerMovesOnLeave(d, reject_request(d, g, a))
      BY <1>0 DEF accept_request, reject_request, OwnerMovesOnLeave, Durable
    <2>7. ASSUME NEW u \in Users, NEW g \in Groups, NEW f \in Names,
                 NEW m \in Metas
          PROVE  OwnerMovesOnLeave(d, upload_file(d, g, f, u, m))
      BY <1>0 DEF upload_file, OwnerMovesOnLeave, Durable
    <2>8. ASSUME NEW u \in Users, NEW g \in Groups, NEW f \in Names
          PROVE  /\ OwnerMovesOnLeave(d, file_downloaded(d, g, f, u))
                 /\ OwnerMovesOnLeave(d, stop_share(d, g, f, u))
      BY <1>0 DEF file_downloaded, stop_share, OwnerMovesOnLeave, Durable
    <2> QED
      BY <2>1, <2>2, <2>3, <2>4, <2>5, <2>6, <2>7, <2>8
      DEF ClientCommand, CreateUser, Login, Logout, CreateGroup, JoinGroup,
          LeaveGroup, AcceptRequest, RejectRequest, UploadFile,
          FileDownloaded, StopShare
  <1>2. \A x \in Trackers : db[x]' = IF x = t THEN e ELSE db[x]
    BY <1>1 DEF Execute, TypeInv, TypeOK
  <1> QED
    BY <1>1, <1>2 DEF OwnerMovesOnLeave

\* A merge changes no owner (merge_from).
LEMMA MergeKeeps ==
  ASSUME TypeInv, NEW t \in Trackers, NEW r \in Records, MergeInto(t, r)
  PROVE  \A x \in Trackers : OwnerMovesOnLeave(db[x], db[x]')
  <1>1. \A x \in Trackers : db[x]' = IF x = t THEN merge(db[t], r) ELSE db[x]
    BY DEF MergeInto, TypeInv, TypeOK
  <1>2. merge(db[t], r).groupmaster = [g \in Groups |-> kept_master(db[t], r, g)]
    BY DEF merge
  <1>3. OwnerMovesOnLeave(db[t], merge(db[t], r))
    BY <1>2 DEF OwnerMovesOnLeave, kept_master
  <1> QED
    BY <1>1, <1>3 DEF OwnerMovesOnLeave

\* Every other step of a tracker that goes on serving leaves its maps alone.
LEMMA StepKeeps ==
  ASSUME TypeInv, Integrity, [Next]_vars, NEW x \in Trackers, StaysUp(x)
  PROVE  OwnerMovesOnLeave(db[x], db[x]')
  <1>1. CASE db[x]' = db[x]
    BY <1>1 DEF OwnerMovesOnLeave
  <1>2. ASSUME NEW t \in Trackers, ClientCommand(t)
        PROVE  OwnerMovesOnLeave(db[x], db[x]')
    BY <1>2, CommandKeeps
  <1>3. ASSUME NEW t \in Trackers, MergePulled(t) \/ ServeState(t)
        PROVE  OwnerMovesOnLeave(db[x], db[x]')
    <2>1. box[t] \in Records /\ Peer[t] \in Trackers
      BY <1>3, PeerAssumption
      DEF MergePulled, ServeState, TypeInv, TypeOK, Carrying
    <2> QED
      BY <1>3, <2>1, MergeKeeps DEF MergePulled, ServeState
  <1>4. ASSUME NEW t \in Trackers, ServeLate(t)
        PROVE  OwnerMovesOnLeave(db[x], db[x]')
    <2>1. PICK r \in late[t] : MergeInto(Peer[t], r)
      BY <1>4 DEF ServeLate
    <2>2. r \in Records /\ Peer[t] \in Trackers
      BY <2>1, PeerAssumption DEF TypeInv, TypeOK
    <2> QED
      BY <2>1, <2>2, MergeKeeps
  <1>5. ASSUME NEW t \in Trackers, LoadSnapshot(t) \/ ProcessEnds(t)
        PROVE  db[x]' = db[x]
    <2>1. x # t
      BY <1>5 DEF LoadSnapshot, ProcessEnds, StaysUp, Serving, TypeInv, TypeOK
    <2> QED
      BY <1>5, <2>1 DEF LoadSnapshot, ProcessEnds, TypeInv, TypeOK
  <1>6. ASSUME NEW t \in Trackers,
               \/ Dial(t) \/ ServeSync(t) \/ Poll(t) \/ ReadVersion(t)
               \/ SendState(t) \/ RecvAck(t) \/ LinkFails(t)
               \/ LinkTimesOut(t) \/ Restart(t) \/ SaveSnapshot(t)
               \/ FinishSave(t) \/ Shutdown(t)
        PROVE  db[x]' = db[x]
    BY <1>6 DEF Dial, ServeSync, Poll, ReadVersion, SendState, RecvAck,
         LinkFails, LinkTimesOut, Restart, SaveSnapshot, FinishSave, Shutdown,
         stateVars, vars
  <1> QED
    BY <1>1, <1>2, <1>3, <1>4, <1>5, <1>6
    DEF Next, LinkStep, ProcessStep, vars

\* Started over any sound snapshots or none, if no two saves of a tracker
\* overlap and no account is called "-", the owner of a group moves on a serving tracker only when the owner
\* leaves, whatever STATE arrives: "a reconnecting tracker cannot reassign a
\* group's owner" (persistence.cpp:164).
THEOREM OwnersStay ==
  ASSUME Dash \notin Users, ~Overlap, NEW r \in Snapshots,
         \A t \in Trackers : SoundRecords(r[t])
  PROVE  SpecFrom(r) => OwnerKept
  <1>1. TypeInv /\ Integrity /\ [Next]_vars =>
        [\A t \in Trackers : StaysUp(t) => OwnerMovesOnLeave(db[t], db[t]')]_vars
    BY StepKeeps
  <1> QED
    BY <1>1, TypeInvariant, IntegrityKept, PTL DEF SpecFrom, OwnerKept
=============================================================================
