---------------------------- MODULE TrackerState ----------------------------
(***************************************************************************)
(* The metadata one tracker keeps (class TrackerState) as values and       *)
(* operators on them.  A tracker's durable state is one record d, the four *)
(* maps that TrackerState::mtx_ guards:                                    *)
(*                                                                         *)
(*   d.cred          peers_[u].password, NoPassword if u has no account    *)
(*   d.groups        the keys of groups_                                   *)
(*   d.groupmaster   groups_[g].groupmaster, NoUser for the empty string   *)
(*   d.participants  groups_[g].participants                               *)
(*   d.applicants    groups_[g].applicants                                 *)
(*   d.meta          files_[g/f] without its seeders, NoMeta if absent     *)
(*   d.seeders       files_[g/f].peers                                     *)
(*   d.group_files   group_files_[g]                                       *)
(*                                                                         *)
(* Every public method runs under the lock from its first test to its last *)
(* assignment, so an operation is one guard (the conjunction of the early  *)
(* returns' negations, named ..._ok) and one new value of d.  A rejected   *)
(* command leaves d and the version counter as they were.                  *)
(***************************************************************************)
EXTENDS Naturals

CONSTANTS Users,      \* account names
          Groups,     \* group ids
          Names,      \* valid shared file names (valid_filename)
          Metas,      \* file metadata: size, full hash, piece hashes
          Passwords,  \* what hash_password is given
          Addrs,      \* listening addresses, ip and port
          NoUser, NoPassword, NoMeta, Offline,
          Dash        \* the token "-" that stands for "" in a GROUP record

ASSUME NoValues ==
    /\ NoUser \notin Users \cup {Dash}   \* no account has the empty name
    /\ NoPassword \notin Passwords
    /\ NoMeta \notin Metas
    /\ Offline \notin Addrs

Files == Groups \X Names   \* file_key: a file is named by group and name

Durable ==
    [cred : [Users -> Passwords \cup {NoPassword}],
     groups : SUBSET Groups,
     groupmaster : [Groups -> Users \cup {NoUser}],
     participants : [Groups -> SUBSET Users],
     applicants : [Groups -> SUBSET Users],
     meta : [Files -> Metas \cup {NoMeta}],
     seeders : [Files -> SUBSET Users],
     group_files : [Groups -> SUBSET Names]]

\* A freshly constructed TrackerState, and what clear() leaves behind.
Empty ==
    [cred |-> [u \in Users |-> NoPassword],
     groups |-> {},
     groupmaster |-> [g \in Groups |-> NoUser],
     participants |-> [g \in Groups |-> {}],
     applicants |-> [g \in Groups |-> {}],
     meta |-> [k \in Files |-> NoMeta],
     seeders |-> [k \in Files |-> {}],
     group_files |-> [g \in Groups |-> {}]]

user_exists(d, u) == d.cred[u] # NoPassword
group_exists(d, g) == g \in d.groups
group_has_file(d, g, f) == f \in d.group_files[g]

-----------------------------------------------------------------------------
(* Accounts.  verify_password compares salted digests; with SHA-256 taken  *)
(* as collision free that is equality with the registered password.        *)

create_user_ok(d, u) == ~user_exists(d, u)
create_user(d, u, p) == [d EXCEPT !.cred[u] = p]

login_ok(d, u, p) == user_exists(d, u) /\ d.cred[u] = p

(* Peer::login and Peer::logout keep hostip, hostport and connected in     *)
(* step, so a peer's address is a member of Addrs exactly while connected. *)
Peer_login(addr, u, a) == [addr EXCEPT ![u] = a]
Peer_logout(addr, u) == [addr EXCEPT ![u] = Offline]

-----------------------------------------------------------------------------
(* Groups. *)

create_group_ok(d, g, u) == user_exists(d, u) /\ ~group_exists(d, g)
create_group(d, g, u) ==
    [d EXCEPT !.groups = @ \cup {g},
              !.groupmaster[g] = u,
              !.participants[g] = {u},
              !.applicants[g] = {}]

join_group_ok(d, g, u) ==
    user_exists(d, u) /\ group_exists(d, g) /\ u \notin d.participants[g]
join_group(d, g, u) == [d EXCEPT !.applicants[g] = @ \cup {u}]

\* Mutant: the last owner to leave leaves "-" behind.
heirs_dash(d, g, u) ==
    IF u # d.groupmaster[g] THEN {d.groupmaster[g]}
    ELSE IF d.participants[g] \ {u} = {} THEN {Dash}
    ELSE d.participants[g] \ {u}

\* Group::deluser picks *participants.begin() of an unordered set as the next
\* owner: any remaining member.
heirs(d, g, u) ==
    IF u # d.groupmaster[g] THEN {d.groupmaster[g]}
    ELSE IF d.participants[g] \ {u} = {} THEN {NoUser}
    ELSE d.participants[g] \ {u}
leave_group_ok(d, g, u) ==
    user_exists(d, u) /\ group_exists(d, g) /\ u \in d.participants[g]
leave_group(d, g, u, heir) ==
    [d EXCEPT !.participants[g] = @ \ {u}, !.groupmaster[g] = heir]

\* accept_request and reject_request share their checks; u is the caller.
answer_ok(d, g, a, u) ==
    /\ user_exists(d, a)
    /\ group_exists(d, g)
    /\ d.groupmaster[g] = u
    /\ a \in d.applicants[g]
accept_request(d, g, a) ==
    [d EXCEPT !.applicants[g] = @ \ {a}, !.participants[g] = @ \cup {a}]
reject_request(d, g, a) == [d EXCEPT !.applicants[g] = @ \ {a}]

-----------------------------------------------------------------------------
(* Files. *)

is_member(d, g, u) ==
    group_exists(d, g) /\ user_exists(d, u) /\ u \in d.participants[g]

\* A second upload under the same name replaces the metadata and keeps the
\* seeders of the first.
upload_file(d, g, f, u, m) ==
    [d EXCEPT !.meta[<<g, f>>] = m,
              !.seeders[<<g, f>>] = @ \cup {u},
              !.group_files[g] = @ \cup {f}]

file_known(d, g, f) == group_has_file(d, g, f) /\ d.meta[<<g, f>>] # NoMeta
file_downloaded_ok(d, g, f, u) == is_member(d, g, u) /\ group_has_file(d, g, f)
file_downloaded(d, g, f, u) ==
    IF d.meta[<<g, f>>] = NoMeta THEN d
    ELSE [d EXCEPT !.seeders[<<g, f>>] = @ \cup {u}]
stop_share_ok(d, g, f, u) == is_member(d, g, u) /\ file_known(d, g, f)

\* Mutant: the last seeder takes the metadata with it, not the index entry.
stop_share_last(d, g, f, u) ==
    IF d.seeders[<<g, f>>] \subseteq {u}
    THEN [d EXCEPT !.seeders[<<g, f>>] = {}, !.meta[<<g, f>>] = NoMeta]
    ELSE [d EXCEPT !.seeders[<<g, f>>] = @ \ {u}]

stop_share(d, g, f, u) == [d EXCEPT !.seeders[<<g, f>>] = @ \ {u}]

-----------------------------------------------------------------------------
(* The record format shared by snapshots and replication.  Each field is a *)
(* whitespace-free token and is written verbatim, except that a cleared    *)
(* owner is written as "-" and "-" is read back as a cleared owner.        *)

Records == [cred : [Users -> Passwords \cup {NoPassword}],
            groups : SUBSET Groups,
            groupmaster : [Groups -> Users \cup {Dash}],
            participants : [Groups -> SUBSET Users],
            applicants : [Groups -> SUBSET Users],
            meta : [Files -> Metas \cup {NoMeta}],
            seeders : [Files -> SUBSET Users],
            group_files : [Groups -> SUBSET Names]]

serialize(d) ==
    [d EXCEPT !.groupmaster =
        [g \in Groups |-> IF d.groupmaster[g] = NoUser
                          THEN Dash ELSE d.groupmaster[g]]]

parsed_master(r, g) ==
    IF r.groupmaster[g] = Dash THEN NoUser ELSE r.groupmaster[g]

(* apply_records_locked with replace = false.  The first account, owner and *)
(* metadata win; every set is a union.  A group or a file d does not have   *)
(* holds NoUser, NoMeta and empty sets here, so taking the record whole and *)
(* merging it are the same expression.                                      *)

\* Mutants: the sender's password wins; the sender's accounts replace ours.
kept_cred_theirs(d, r, u) == IF r.cred[u] = NoPassword THEN d.cred[u] ELSE r.cred[u]
kept_cred_replaced(d, r, u) == r.cred[u]

kept_cred(d, r, u) == IF user_exists(d, u) THEN d.cred[u] ELSE r.cred[u]

\* Mutant: the sender's owner wins.
kept_master_theirs(d, r, g) == IF parsed_master(r, g) = NoUser
                               THEN d.groupmaster[g] ELSE parsed_master(r, g)

kept_master(d, r, g) == IF d.groupmaster[g] = NoUser
                        THEN parsed_master(r, g) ELSE d.groupmaster[g]

\* Mutant: the sender's metadata wins.
kept_meta_theirs(d, r, k) == IF r.meta[k] = NoMeta THEN d.meta[k] ELSE r.meta[k]

kept_meta(d, r, k) == IF d.meta[k] = NoMeta THEN r.meta[k] ELSE d.meta[k]

merge(d, r) ==
    [cred |-> [u \in Users |-> kept_cred(d, r, u)],
     groups |-> d.groups \cup r.groups,
     groupmaster |-> [g \in Groups |-> kept_master(d, r, g)],
     participants |-> [g \in Groups |-> d.participants[g] \cup r.participants[g]],
     applicants |-> [g \in Groups |-> d.applicants[g] \cup r.applicants[g]],
     meta |-> [k \in Files |-> kept_meta(d, r, k)],
     seeders |-> [k \in Files |-> d.seeders[k] \cup r.seeders[k]],
     group_files |-> [g \in Groups |-> d.group_files[g] \cup r.group_files[g]]]

\* merge_from: only a merge that altered something counts as a new version.
merge_version(d, r, v) == IF merge(d, r) = d THEN v ELSE v + 1

\* Mutant: the owners are not loaded.
load_unowned(r) == [merge(Empty, r) EXCEPT !.groupmaster = Empty.groupmaster]

\* apply_records_locked with replace = true: the maps are cleared first.
load(r) == merge(Empty, r)
=============================================================================
