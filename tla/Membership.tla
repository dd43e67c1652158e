----------------------------- MODULE Membership -----------------------------
(***************************************************************************)
(* Profiles, their members, invitations, and the default profile that      *)
(* /today and /week read (app/planner/service.py, api.py).                 *)
(*                                                                         *)
(* Every request runs in one READ COMMITTED transaction.  An operation     *)
(* whose reads are all protected by the lock on the profile's row is one   *)
(* action.  The four that read first and write later are two or three: in  *)
(* between, other connections commit.  A write waits for the row lock on   *)
(* users that create_profile holds, and for nothing else.                  *)
(***************************************************************************)
EXTENDS Integers, FiniteSets

CONSTANTS
    Users,        \* registered: the trigger gave each a main profile
    Profiles,     \* ids of profiles, never used twice
    Main,         \* the main profile (is_default) of each user
    Invites,      \* ids of invitations, never used twice
    Connections,  \* database connections that serve requests
    Limit,        \* profiles a user may own (20 in the code)
    None

Granted == {"editor", "viewer"}
Roles == Granted \cup {"owner"}

Invite == [profile : Profiles, role : Granted, used : BOOLEAN,
           expired : BOOLEAN, revoked : BOOLEAN]

ASSUME MembershipAssumption ==
    /\ Main \in [Users -> Profiles]
    /\ \A u, v \in Users : Main[u] = Main[v] => u = v
    /\ IsFiniteSet(Profiles)
    /\ Limit \in Nat \ {0}
    /\ None \notin Users \cup Profiles \cup Invites \cup Roles \cup Invite

VARIABLES
    owner,    \* profiles.owner_id; None when there is no such row
    unused,   \* ids no profile has had
    role,     \* profile_members: the role of a user in a profile, or None
    default,  \* users.default_profile_id
    invite,   \* profile_invites by id; None before its creation
    request,  \* the transaction open on a connection
    joined    \* whom an invitation has made a member (a history)

vars == <<owner, unused, role, default, invite, request, joined>>

\* What a transaction has read.  "choosing": PATCH /api/me has found the user to
\* be a member of `profile`.  "reading": bootstrap has read the user's default,
\* `profile`; "repairing": it found that one unreadable and picked `profile`.
\* "joining": `invite` is valid.  "creating": the user's row is locked, and
\* there is room for one more profile.
Request ==
    [op : {"idle", "choosing", "reading", "repairing", "joining", "creating"},
     user : Users \cup {None}, profile : Profiles \cup {None},
     invite : Invites \cup {None}]

Idle == [op |-> "idle", user |-> None, profile |-> None, invite |-> None]

Mains == {Main[u] : u \in Users}

Init ==
    /\ owner = [p \in Profiles |->
          IF p \in Mains THEN CHOOSE u \in Users : Main[u] = p ELSE None]
    /\ unused = Profiles \ Mains
    /\ role = [p \in Profiles |->
          [u \in Users |-> IF Main[u] = p THEN "owner" ELSE None]]
    /\ default = Main
    /\ invite = [i \in Invites |-> None]
    /\ request = [c \in Connections |-> Idle]
    /\ joined = [i \in Invites |-> {}]

Exists(p) == owner[p] # None
Member(p, u) == role[p][u] # None
Readable(u) == {p \in Profiles : Member(p, u)}
Owned(u) == {p \in Profiles : owner[p] = u}

\* Nobody holds the lock on the row of the user.
RowFree(u) ==
    \A c \in Connections : ~(request[c].op = "creating" /\ request[c].user = u)

Free(c) == request[c].op = "idle"
Open(c, r) == request' = [request EXCEPT ![c] = r]
Close(c) == Open(c, Idle)

-----------------------------------------------------------------------------
(* Profiles. *)

\* Seeded fault: the row of the user is not locked before counting.
CountUnlocked(c, u) ==
    /\ Free(c)
    /\ Cardinality(Owned(u)) < Limit
    /\ Open(c, [Idle EXCEPT !.op = "creating", !.user = u])
    /\ UNCHANGED <<owner, unused, role, default, invite, joined>>

\* create_profile: the lock, then the count; at the limit it answers 409.
CountProfiles(c, u) ==
    /\ Free(c)
    /\ RowFree(u)
    /\ Cardinality(Owned(u)) < Limit
    /\ Open(c, [Idle EXCEPT !.op = "creating", !.user = u])
    /\ UNCHANGED <<owner, unused, role, default, invite, joined>>

InsertProfile(c, p) ==
    LET u == request[c].user
    IN  /\ request[c].op = "creating"
        /\ p \in unused
        /\ unused' = unused \ {p}
        /\ owner' = [owner EXCEPT ![p] = u]
        /\ role' = [role EXCEPT ![p][u] = "owner"]
        /\ Close(c)
        /\ UNCHANGED <<default, invite, joined>>

\* The rows that ON DELETE CASCADE removes with the profile.
RemoveRows(p) ==
    /\ owner' = [owner EXCEPT ![p] = None]
    /\ role' = [role EXCEPT ![p] = [u \in Users |-> None]]
    /\ invite' = [i \in Invites |->
          IF invite[i] # None /\ invite[i].profile = p
          THEN [invite[i] EXCEPT !.revoked = TRUE] ELSE invite[i]]

\* Seeded fault: the default is left NULL, as ON DELETE SET NULL leaves it.
DeleteProfileOnly(u, p) ==
    /\ role[p][u] = "owner"
    /\ p \notin Mains
    /\ \A x \in Users : default[x] = p => RowFree(x)
    /\ RemoveRows(p)
    /\ default' = [x \in Users |-> IF default[x] = p THEN None ELSE default[x]]
    /\ UNCHANGED <<unused, request, joined>>

\* Whoever had the profile as the default gets his main profile back.
DeleteProfile(u, p) ==
    /\ role[p][u] = "owner"
    /\ p \notin Mains
    /\ \A x \in Users : default[x] = p => RowFree(x)
    /\ RemoveRows(p)
    /\ default' = [x \in Users |-> IF default[x] = p THEN Main[x] ELSE default[x]]
    /\ UNCHANGED <<unused, request, joined>>

-----------------------------------------------------------------------------
(* Invitations and members. *)

CreateInvite(u, p, r, i) ==
    /\ role[p][u] = "owner"
    /\ invite[i] = None
    /\ invite' = [invite EXCEPT ![i] =
          [profile |-> p, role |-> r, used |-> FALSE,
           expired |-> FALSE, revoked |-> FALSE]]
    /\ UNCHANGED <<owner, unused, role, default, request, joined>>

\* The row is deleted, a used one as well.
RevokeInvite(u, i) ==
    /\ invite[i] # None
    /\ ~invite[i].revoked
    /\ role[invite[i].profile][u] = "owner"
    /\ invite' = [invite EXCEPT ![i].revoked = TRUE]
    /\ UNCHANGED <<owner, unused, role, default, request, joined>>

\* Seven days pass.
Expire(i) ==
    /\ invite[i] # None
    /\ ~invite[i].expired
    /\ invite' = [invite EXCEPT ![i].expired = TRUE]
    /\ UNCHANGED <<owner, unused, role, default, request, joined>>

\* join_invite reads the invitation before it knows which profile to lock.
FindInvite(c, u, i) ==
    /\ Free(c)
    /\ invite[i] # None
    /\ ~invite[i].used /\ ~invite[i].revoked /\ ~invite[i].expired
    /\ Open(c, [Idle EXCEPT !.op = "joining", !.user = u, !.invite = i])
    /\ UNCHANGED <<owner, unused, role, default, invite, joined>>

\* Seeded faults: the invitation is not read again; it stays unused; a member
\* who opens an invitation gets its role.
JoinUnread(c) ==
    LET u == request[c].user
        i == request[c].invite
        p == invite[i].profile
    IN  /\ request[c].op = "joining"
        /\ Exists(p)
        /\ RowFree(u)
        /\ IF Member(p, u) THEN UNCHANGED <<role, joined>>
           ELSE /\ role' = [role EXCEPT ![p][u] = invite[i].role]
                /\ joined' = [joined EXCEPT ![i] = @ \cup {u}]
        /\ invite' = [invite EXCEPT ![i].used = TRUE]
        /\ Close(c)
        /\ UNCHANGED <<owner, unused, default>>

JoinKeepsInvite(c) ==
    LET u == request[c].user
        i == request[c].invite
        p == invite[i].profile
    IN  /\ request[c].op = "joining"
        /\ ~invite[i].revoked
        /\ RowFree(u)
        /\ IF Member(p, u) THEN UNCHANGED <<role, joined>>
           ELSE /\ role' = [role EXCEPT ![p][u] = invite[i].role]
                /\ joined' = [joined EXCEPT ![i] = @ \cup {u}]
        /\ Close(c)
        /\ UNCHANGED <<owner, unused, default, invite>>

JoinReplacesRole(c) ==
    LET u == request[c].user
        i == request[c].invite
        p == invite[i].profile
    IN  /\ request[c].op = "joining"
        /\ ~invite[i].used /\ ~invite[i].revoked
        /\ RowFree(u)
        /\ role' = [role EXCEPT ![p][u] = invite[i].role]
        /\ joined' = [joined EXCEPT ![i] = @ \cup {u}]
        /\ invite' = [invite EXCEPT ![i].used = TRUE]
        /\ Close(c)
        /\ UNCHANGED <<owner, unused, default>>

\* With the profile locked the invitation is read again, inserted ON CONFLICT DO
\* NOTHING and marked used.  now() is the start of the transaction, so that an
\* invitation which has expired since is still good.
JoinInvite(c) ==
    LET u == request[c].user
        i == request[c].invite
        p == invite[i].profile
    IN  /\ request[c].op = "joining"
        /\ ~invite[i].used /\ ~invite[i].revoked
        /\ RowFree(u)
        /\ IF Member(p, u) THEN UNCHANGED <<role, joined>>
           ELSE /\ role' = [role EXCEPT ![p][u] = invite[i].role]
                /\ joined' = [joined EXCEPT ![i] = @ \cup {u}]
        /\ invite' = [invite EXCEPT ![i].used = TRUE]
        /\ Close(c)
        /\ UNCHANGED <<owner, unused, default>>

\* Seeded fault: the default of the removed member is not looked at.
RemoveMemberOnly(u, p, x) ==
    /\ role[p][u] = "owner"
    /\ role[p][x] \in Granted
    /\ role' = [role EXCEPT ![p][x] = None]
    /\ UNCHANGED <<owner, unused, default, invite, request, joined>>

RemoveMember(u, p, x) ==
    /\ role[p][u] = "owner"
    /\ role[p][x] \in Granted
    /\ default[x] = p => RowFree(x)
    /\ role' = [role EXCEPT ![p][x] = None]
    /\ default' = [default EXCEPT ![x] = IF @ = p THEN Main[x] ELSE @]
    /\ UNCHANGED <<owner, unused, invite, request, joined>>

-----------------------------------------------------------------------------
(* The default profile. *)

\* update_user: access() without write takes no lock.
CheckChoice(c, u, p) ==
    /\ Free(c)
    /\ Member(p, u)
    /\ Open(c, [Idle EXCEPT !.op = "choosing", !.user = u, !.profile = p])
    /\ UNCHANGED <<owner, unused, role, default, invite, joined>>

\* The foreign key waits for a deletion of the profile and then fails.
WriteDefault(c) ==
    LET u == request[c].user
        p == request[c].profile
    IN  /\ request[c].op \in {"choosing", "repairing"}
        /\ Exists(p)
        /\ RowFree(u)
        /\ default' = [default EXCEPT ![u] = p]
        /\ Close(c)
        /\ UNCHANGED <<owner, unused, role, invite, joined>>

ReadDefault(c, u) ==
    /\ Free(c)
    /\ Open(c, [Idle EXCEPT !.op = "reading", !.user = u, !.profile = default[u]])
    /\ UNCHANGED <<owner, unused, role, default, invite, joined>>

\* bootstrap: the profiles are listed main profiles first, the oldest of them
\* first, which need not be the user's own.
ReadProfiles(c) ==
    LET u == request[c].user
    IN  /\ request[c].op = "reading"
        /\ IF request[c].profile \in Readable(u) THEN Close(c)
           ELSE \E p \in Readable(u) \cap Mains :
                   Open(c, [request[c] EXCEPT !.op = "repairing", !.profile = p])
        /\ UNCHANGED <<owner, unused, role, default, invite, joined>>

\* A refusal, a failed foreign key, a time-out, a lost client: nothing is
\* written and the locks are gone.
Rollback(c) ==
    /\ ~Free(c)
    /\ Close(c)
    /\ UNCHANGED <<owner, unused, role, default, invite, joined>>

-----------------------------------------------------------------------------
Step(c) ==
    \/ \E u \in Users : CountProfiles(c, u) \/ ReadDefault(c, u)
    \/ \E p \in Profiles : InsertProfile(c, p)
    \/ \E u \in Users, i \in Invites : FindInvite(c, u, i)
    \/ \E u \in Users, p \in Profiles : CheckChoice(c, u, p)
    \/ JoinInvite(c)
    \/ WriteDefault(c)
    \/ ReadProfiles(c)
    \/ Rollback(c)

Manage(u) ==
    \/ \E p \in Profiles : DeleteProfile(u, p)
    \/ \E p \in Profiles, r \in Granted, i \in Invites : CreateInvite(u, p, r, i)
    \/ \E i \in Invites : RevokeInvite(u, i)

Removal == \E u, x \in Users, p \in Profiles : RemoveMember(u, p, x)

Next ==
    \/ \E c \in Connections : Step(c)
    \/ \E u \in Users : Manage(u)
    \/ \E i \in Invites : Expire(i)
    \/ Removal

Spec == Init /\ [][Next]_vars

-----------------------------------------------------------------------------
(* Properties. *)

\* The variables are of their types, only existing profiles have members, and a
\* transaction holds what its operation has read.
TypeOK ==
    /\ owner \in [Profiles -> Users \cup {None}]
    /\ unused \subseteq {p \in Profiles : ~Exists(p)}
    /\ role \in [Profiles -> [Users -> Roles \cup {None}]]
    /\ \A p \in Profiles, u \in Users : Member(p, u) => Exists(p)
    /\ default \in [Users -> Profiles \cup {None}]
    /\ invite \in [Invites -> Invite \cup {None}]
    /\ request \in [Connections -> Request]
    /\ \A c \in Connections :
          /\ request[c].user = None <=> Free(c)
          /\ request[c].invite # None <=> request[c].op = "joining"
          /\ request[c].op \in {"choosing", "reading", "repairing"}
                => request[c].profile # None
    /\ joined \in [Invites -> SUBSET Users]

\* An invitation makes at most one person a member, also when several open it
\* at the same moment (docs/architecture.md: invitations are single-use).
InvitationJoinsOne == \A i \in Invites : Cardinality(joined[i]) <= 1

\* Nobody becomes a member of a profile that exists but by an invitation to it
\* which at that moment is neither used nor revoked, and with its role; nobody's
\* role changes in any other way than by losing it.
JoinNeedsInvitation ==
    [][\A p \in Profiles, u \in Users :
          /\ Member(p, u) => role'[p][u] \in {role[p][u], None}
          /\ ~Member(p, u) /\ Exists(p) /\ role'[p][u] # None =>
                \E i \in Invites :
                    /\ invite[i] # None
                    /\ invite[i].profile = p /\ invite[i].role = role'[p][u]
                    /\ ~invite[i].used /\ ~invite[i].revoked]_vars

\* A profile that exists has exactly its owner in the role of the owner, whoever
\* opens its invitations, and nobody loses his main profile, which the bot writes.
OwnersStay ==
    /\ \A p \in Profiles :
          Exists(p) => {u \in Users : role[p][u] = "owner"} = {owner[p]}
    /\ \A u \in Users : owner[Main[u]] = u

\* Two requests at once do not take a user past the limit of profiles.
ProfileLimit == \A u \in Users : Cardinality(Owned(u)) <= Limit

\* The default of a user is always a profile that exists, also after another
\* member's profile was deleted while it was being chosen.
DefaultExists == \A u \in Users : default[u] # None /\ Exists(default[u])

\* /today and /week find a profile that the user may read.
Reads(u) == default[u] # None /\ Member(default[u], u)

\* Removing a member and deleting a profile give everybody who reads it another
\* default in the same step; what makes a default unreadable is only the late
\* write of a choice of that user that was checked before, his own in update_user
\* or the one that bootstrap makes for him as a repair.
OnlyLateChoices ==
    [][\A u \in Users : Reads(u) =>
          Reads(u)' \/ \E c \in Connections : request[c].user = u /\ WriteDefault(c)]_vars
=============================================================================
