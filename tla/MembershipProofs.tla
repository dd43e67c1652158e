-------------------------- MODULE MembershipProofs --------------------------
(***************************************************************************)
(* Proofs about Membership, for any number of users, profiles, invitations *)
(* and connections.                                                        *)
(***************************************************************************)
EXTENDS Membership, FiniteSetTheorems, TLAPS

\* An invitation that made somebody a member is used, and has made nobody else.
Single ==
    \A i \in Invites :
        \/ joined[i] = {}
        \/ /\ invite[i] # None
           /\ invite[i].used
           /\ \E u \in Users : joined[i] = {u}

\* What is being joined is an invitation, though perhaps no longer a valid one.
Found ==
    \A c \in Connections :
        request[c].op = "joining" => invite[request[c].invite] # None

\* The deletion of a profile takes its invitations along.
Rooted ==
    \A i \in Invites :
        invite[i] # None /\ ~invite[i].revoked => Exists(invite[i].profile)

IInv == TypeOK /\ OwnersStay /\ DefaultExists /\ Single /\ Found /\ Rooted

-----------------------------------------------------------------------------
\* Every user owns a main profile that exists.
LEMMA MainsExist ==
    ASSUME TypeOK, OwnersStay, NEW u \in Users
    PROVE  /\ Main[u] \in Profiles /\ Main[u] \in Mains
           /\ Exists(Main[u]) /\ role[Main[u]][u] = "owner"
  BY MembershipAssumption DEF TypeOK, OwnersStay, Exists, Mains

\* The invariant holds at the start.
LEMMA InitIInv == Init => IInv
<1> SUFFICES ASSUME Init PROVE IInv
  OBVIOUS
<1> USE MembershipAssumption DEF Init, Mains, Exists, Member
<1>1. \A u \in Users : owner[Main[u]] = u
  OBVIOUS
<1>2. \A p \in Profiles : owner[p] \in Users \cup {None}
  OBVIOUS
<1>3. owner \in [Profiles -> Users \cup {None}]
  BY <1>2
<1>4. \A p \in Profiles, u \in Users : Main[u] = p <=> owner[p] = u
  BY <1>1
<1>5. TypeOK
  BY <1>3, <1>4 DEF TypeOK, Invite, Request, Idle, Free, Roles
<1>6. OwnersStay
  BY <1>1, <1>2, <1>4 DEF OwnersStay, Roles
<1>7. DefaultExists
  BY <1>1 DEF DefaultExists
<1>8. Single /\ Found /\ Rooted
  BY DEF Single, Found, Rooted, Idle
<1> QED
  BY <1>5, <1>6, <1>7, <1>8 DEF IInv

\* A step that only opens or closes a transaction.
LEMMA OnlyRequest ==
    ASSUME IInv, UNCHANGED <<owner, unused, role, default, invite, joined>>,
           NEW c \in Connections, NEW r \in Request,
           request' = [request EXCEPT ![c] = r],
           r.user = None <=> r.op = "idle",
           r.invite # None <=> r.op = "joining",
           r.op \in {"choosing", "reading", "repairing"} => r.profile # None,
           r.op = "joining" => invite[r.invite] # None
    PROVE  IInv'
<1>1. TypeOK'
  BY DEF IInv, TypeOK, Exists, Member, Free
<1>2. OwnersStay' /\ DefaultExists' /\ Single' /\ Rooted'
  BY DEF IInv, OwnersStay, DefaultExists, Single, Rooted, Exists
<1>3. Found'
  BY DEF IInv, TypeOK, Found
<1> QED
  BY <1>1, <1>2, <1>3 DEF IInv

\* Closing a transaction keeps what TypeOK says of the others.
LEMMA ClosedRequest ==
    ASSUME TypeOK, NEW c \in Connections, Close(c)
    PROVE  /\ request' \in [Connections -> Request]
           /\ \A d \in Connections :
                 /\ request'[d].user = None <=> request'[d].op = "idle"
                 /\ request'[d].invite # None <=> request'[d].op = "joining"
                 /\ request'[d].op \in {"choosing", "reading", "repairing"}
                       => request'[d].profile # None
           /\ Found /\ (\A i \in Invites : invite[i] # None => invite'[i] # None) => Found'
  BY DEF TypeOK, Close, Open, Idle, Request, Free, Found

\* create_profile inserts a profile nobody was a member of.
LEMMA InsertStep ==
    ASSUME IInv, NEW c \in Connections, NEW p \in Profiles, InsertProfile(c, p)
    PROVE  IInv'
<1> DEFINE u == request[c].user
<1>1. u \in Users
  BY DEF IInv, TypeOK, InsertProfile, Free, Request
<1>2. ~Exists(p) /\ \A v \in Users : role[p][v] = None
  BY DEF IInv, TypeOK, InsertProfile, Member
<1>3. owner' = [owner EXCEPT ![p] = u] /\ role' = [role EXCEPT ![p][u] = "owner"]
  BY DEF InsertProfile
<1>4. TypeOK'
  BY <1>1, <1>2, <1>3, ClosedRequest, MembershipAssumption
     DEF IInv, TypeOK, InsertProfile, Exists, Member, Roles, Free
<1>5. OwnersStay'
  <2>1. \A v \in Users : Main[v] # p
    BY <1>2, MainsExist DEF IInv
  <2>2. \A v \in Users : owner'[Main[v]] = v
    BY <1>3, <2>1, MembershipAssumption DEF IInv, TypeOK, OwnersStay
  <2>3. {v \in Users : role'[p][v] = "owner"} = {owner'[p]}
    BY <1>1, <1>2, <1>3, MembershipAssumption DEF IInv, TypeOK, Roles
  <2>4. \A q \in Profiles \ {p} : owner'[q] = owner[q] /\ role'[q] = role[q]
    BY <1>3 DEF IInv, TypeOK
  <2> QED
    BY <2>2, <2>3, <2>4 DEF IInv, OwnersStay, Exists
<1>6. DefaultExists' /\ Single'
  BY <1>1, <1>2, <1>3, MembershipAssumption
     DEF IInv, TypeOK, DefaultExists, Single, InsertProfile, Exists
<1>7. Found'
  BY ClosedRequest DEF IInv, InsertProfile
<1>8. Rooted'
  BY <1>1, <1>3, MembershipAssumption DEF IInv, TypeOK, Rooted, InsertProfile, Exists
<1> QED
  BY <1>4, <1>5, <1>6, <1>7, <1>8 DEF IInv

\* What setting one of its flags leaves of an invitation.
LEMMA Changed ==
    ASSUME NEW r \in Invite
    PROVE  /\ r # None
           /\ [r EXCEPT !.used = TRUE] \in Invite
           /\ [r EXCEPT !.used = TRUE].used
           /\ [r EXCEPT !.used = TRUE].revoked = r.revoked
           /\ [r EXCEPT !.used = TRUE].profile = r.profile
           /\ [r EXCEPT !.revoked = TRUE] \in Invite
           /\ [r EXCEPT !.revoked = TRUE].used = r.used
           /\ [r EXCEPT !.revoked = TRUE].revoked
           /\ [r EXCEPT !.expired = TRUE] \in Invite
           /\ [r EXCEPT !.expired = TRUE].used = r.used
           /\ [r EXCEPT !.expired = TRUE].revoked = r.revoked
           /\ [r EXCEPT !.expired = TRUE].profile = r.profile
<1>1. r # None
  BY MembershipAssumption
<1>2. QED
  BY <1>1 DEF Invite

\* delete_profile removes its rows and repairs the defaults.
LEMMA DeleteStep ==
    ASSUME IInv, NEW u \in Users, NEW p \in Profiles, DeleteProfile(u, p)
    PROVE  IInv'
<1>1. /\ owner' = [owner EXCEPT ![p] = None]
      /\ role' = [role EXCEPT ![p] = [v \in Users |-> None]]
  BY DEF DeleteProfile, RemoveRows
<1>2. \A i \in Invites :
          /\ invite'[i] \in Invite \cup {None}
          /\ invite[i] # None => invite'[i] # None /\ invite'[i].used = invite[i].used
          /\ \/ invite'[i] = invite[i] /\ (invite[i] # None => invite[i].profile # p)
             \/ invite[i] # None /\ invite'[i].revoked
  <2> TAKE i \in Invites
  <2>1. \/ invite'[i] = invite[i] /\ (invite[i] # None => invite[i].profile # p)
        \/ invite[i] # None /\ invite'[i] = [invite[i] EXCEPT !.revoked = TRUE]
    BY Zenon DEF DeleteProfile, RemoveRows
  <2>2. invite[i] \in Invite \cup {None}
    BY DEF IInv, TypeOK
  <2>3. invite[i] # None =>
          /\ [invite[i] EXCEPT !.revoked = TRUE] \in Invite
          /\ [invite[i] EXCEPT !.revoked = TRUE] # None
          /\ [invite[i] EXCEPT !.revoked = TRUE].used = invite[i].used
          /\ [invite[i] EXCEPT !.revoked = TRUE].revoked
    BY <2>2, Changed, MembershipAssumption, Zenon
  <2> QED
    BY <2>1, <2>2, <2>3, Zenon
<1>3. \A v \in Users : Main[v] # p
  BY DEF DeleteProfile, Mains
<1>4. TypeOK'
  <2>1. invite' \in [Invites -> Invite \cup {None}]
    BY <1>2 DEF DeleteProfile, RemoveRows
  <2>2. default' \in [Users -> Profiles \cup {None}]
    BY MembershipAssumption DEF IInv, TypeOK, DeleteProfile
  <2> QED
    BY <1>1, <2>1, <2>2 DEF IInv, TypeOK, DeleteProfile, Exists, Member, Free
<1>5. OwnersStay'
  BY <1>1, <1>3, MembershipAssumption DEF IInv, TypeOK, OwnersStay, Exists
<1>6. DefaultExists'
  BY <1>1, <1>3, MembershipAssumption, MainsExist
     DEF IInv, TypeOK, DefaultExists, DeleteProfile, Exists
<1>7. Single'
  BY <1>2 DEF IInv, Single, DeleteProfile
<1>8. Found'
  <2>1. \A c \in Connections : request[c].op = "joining" => request[c].invite \in Invites
    BY DEF IInv, TypeOK, Request
  <2> QED
    BY <1>2, <2>1 DEF IInv, Found, DeleteProfile
<1>9. Rooted'
  BY <1>1, <1>2 DEF IInv, TypeOK, Rooted, Exists, Invite
<1> QED
  BY <1>4, <1>5, <1>6, <1>7, <1>8, <1>9 DEF IInv

\* join_invite: the invitation read again is unused, and its profile exists.
LEMMA JoinStep ==
    ASSUME IInv, NEW c \in Connections, JoinInvite(c)
    PROVE  IInv'
<1> DEFINE u == request[c].user
           i == request[c].invite
           p == invite[i].profile
<1>1. u \in Users /\ i \in Invites
  BY MembershipAssumption DEF IInv, TypeOK, JoinInvite, Free, Request
<1>2. invite[i] \in Invite /\ p \in Profiles /\ invite[i].role \in Granted
  BY <1>1 DEF IInv, TypeOK, Found, JoinInvite, Invite
<1>3. ~invite[i].used
  BY DEF JoinInvite
<1>4. joined[i] = {}
  BY <1>1, <1>3 DEF IInv, Single
<1>5. /\ invite' = [invite EXCEPT ![i].used = TRUE]
      /\ UNCHANGED <<owner, unused, default>>
      /\ Close(c)
  BY DEF JoinInvite
<1>6. \/ role' = role /\ joined' = joined
      \/ /\ role[p][u] = None
         /\ role' = [role EXCEPT ![p][u] = invite[i].role]
         /\ joined' = [joined EXCEPT ![i] = joined[i] \cup {u}]
  BY DEF JoinInvite, Member
<1>7. /\ invite'[i] \in Invite /\ invite'[i].used
      /\ invite'[i].profile = p /\ invite'[i].revoked = invite[i].revoked
      /\ \A j \in Invites : j # i => invite'[j] = invite[j]
  BY <1>1, <1>2, <1>5, Changed DEF IInv, TypeOK
<1>8. Exists(p)
  BY <1>1, <1>2, Changed DEF IInv, Rooted, JoinInvite
<1>9. TypeOK'
  <2>1. invite' \in [Invites -> Invite \cup {None}]
    BY <1>1, <1>5, <1>2, Changed DEF IInv, TypeOK
  <2>2. joined' \in [Invites -> SUBSET Users]
    BY <1>1, <1>6 DEF IInv, TypeOK
  <2>3. role' \in [Profiles -> [Users -> Roles \cup {None}]]
    <3>1. role \in [Profiles -> [Users -> Roles \cup {None}]]
      BY DEF IInv, TypeOK
    <3>2. invite[i].role \in Roles
      BY <1>2 DEF Roles
    <3> HIDE DEF u, i, p
    <3> QED
      BY <1>1, <1>2, <1>6, <3>1, <3>2
  <2>4. \A q \in Profiles, v \in Users : role'[q][v] # None => Exists(q)
    BY <1>1, <1>2, <1>6, <1>8 DEF IInv, TypeOK, Member
  <2> QED
    BY <1>5, <2>1, <2>2, <2>3, <2>4, ClosedRequest
       DEF IInv, TypeOK, Exists, Member, Free
<1>10. OwnersStay'
  <2>1. \A q \in Profiles, v \in Users : role'[q][v] = "owner" <=> role[q][v] = "owner"
    BY <1>1, <1>2, <1>6, MembershipAssumption DEF IInv, TypeOK, Granted, Roles
  <2> QED
    BY <1>5, <2>1 DEF IInv, OwnersStay, Exists
<1>11. Single'
  <2> SUFFICES ASSUME NEW j \in Invites
               PROVE  \/ joined'[j] = {}
                      \/ /\ invite'[j] # None
                         /\ invite'[j].used
                         /\ \E v \in Users : joined'[j] = {v}
    BY DEF Single
  <2>a. joined' = joined \/ joined' = [joined EXCEPT ![i] = joined[i] \cup {u}]
    BY <1>6
  <2>b. joined \in [Invites -> SUBSET Users] /\ invite'[i] # None
    BY <1>7, Changed DEF IInv, TypeOK
  <2> HIDE DEF u, i, p
  <2>1. CASE j = i
    BY <1>1, <1>4, <1>7, <2>a, <2>b, <2>1
  <2>2. CASE j # i
    BY <1>1, <1>7, <2>a, <2>b, <2>2 DEF IInv, Single
  <2> QED
    BY <2>1, <2>2
<1>12. Found'
  BY <1>5, <1>7, Changed, ClosedRequest DEF IInv
<1>13. Rooted' /\ DefaultExists'
  BY <1>5, <1>7, <1>8 DEF IInv, Rooted, DefaultExists, Exists
<1> QED
  BY <1>9, <1>10, <1>11, <1>12, <1>13 DEF IInv
\* remove_member takes a role that is not the owner's, and repairs the default.
LEMMA RemoveStep ==
    ASSUME IInv, NEW u \in Users, NEW p \in Profiles, NEW x \in Users,
           RemoveMember(u, p, x)
    PROVE  IInv'
<1>1. /\ role' = [role EXCEPT ![p][x] = None]
      /\ default' = [default EXCEPT ![x] = IF default[x] = p THEN Main[x] ELSE default[x]]
      /\ UNCHANGED <<owner, unused, invite, request, joined>>
      /\ role[p][x] # "owner"
  BY DEF RemoveMember, Granted
<1>2. Main[x] \in Profiles /\ Exists(Main[x])
  BY MainsExist DEF IInv
<1>3. TypeOK'
  BY <1>1, <1>2 DEF IInv, TypeOK, Exists, Member, Free
<1>4. OwnersStay'
  <2>1. \A q \in Profiles, v \in Users : role'[q][v] = "owner" <=> role[q][v] = "owner"
    BY <1>1, MembershipAssumption DEF IInv, TypeOK, Roles
  <2> QED
    BY <1>1, <2>1 DEF IInv, OwnersStay, Exists
<1>5. DefaultExists'
  <2>1. \A v \in Users : default'[v] = default[v] \/ default'[v] = Main[v]
    BY <1>1 DEF IInv, TypeOK
  <2>2. \A v \in Users : Main[v] # None /\ Exists(Main[v])
    BY MainsExist, MembershipAssumption DEF IInv
  <2> QED
    BY <1>1, <2>1, <2>2 DEF IInv, DefaultExists, Exists
<1>6. Single' /\ Found' /\ Rooted'
  BY <1>1 DEF IInv, Single, Found, Rooted, Exists
<1> QED
  BY <1>3, <1>4, <1>5, <1>6 DEF IInv

\* update_user and bootstrap write a default that the foreign key accepts.
LEMMA WriteDefaultStep ==
    ASSUME IInv, NEW c \in Connections, WriteDefault(c)
    PROVE  IInv'
<1> DEFINE u == request[c].user
           p == request[c].profile
<1>1. u \in Users /\ p \in Profiles /\ Exists(p)
  BY DEF IInv, TypeOK, WriteDefault, Free, Request
<1>2. /\ default' = [default EXCEPT ![u] = p]
      /\ UNCHANGED <<owner, unused, role, invite, joined>>
      /\ Close(c)
  BY DEF WriteDefault
<1>3. TypeOK'
  BY <1>1, <1>2, ClosedRequest DEF IInv, TypeOK, Exists, Member, Free
<1>4. DefaultExists'
  BY <1>1, <1>2, MembershipAssumption DEF IInv, TypeOK, DefaultExists, Exists
<1>5. OwnersStay' /\ Single' /\ Rooted'
  BY <1>2 DEF IInv, OwnersStay, Single, Rooted, Exists
<1>6. Found'
  BY <1>2, ClosedRequest DEF IInv
<1> QED
  BY <1>3, <1>4, <1>5, <1>6 DEF IInv

\* An invitation is written, revoked or expires.
LEMMA OnlyInvite ==
    ASSUME IInv, UNCHANGED <<owner, unused, role, default, request, joined>>,
           NEW i \in Invites, NEW r \in Invite,
           invite' = [invite EXCEPT ![i] = r],
           invite[i] # None => r.used = invite[i].used,
           ~r.revoked => Exists(r.profile)
    PROVE  IInv'
<1>1. r # None
  BY MembershipAssumption
<1>2. invite'[i] = r /\ \A j \in Invites : j # i => invite'[j] = invite[j]
  BY DEF IInv, TypeOK
<1>3. TypeOK'
  BY DEF IInv, TypeOK, Exists, Member, Free
<1>4. OwnersStay' /\ DefaultExists'
  BY DEF IInv, OwnersStay, DefaultExists, Exists
<1>5. Single'
  BY <1>1, <1>2 DEF IInv, Single
<1>6. Found'
  <2>1. \A c \in Connections : request[c].op = "joining" => request[c].invite \in Invites
    BY DEF IInv, TypeOK, Request
  <2> QED
    BY <1>1, <1>2, <2>1 DEF IInv, Found
<1>7. Rooted'
  BY <1>2 DEF IInv, Rooted, Exists
<1> QED
  BY <1>3, <1>4, <1>5, <1>6, <1>7 DEF IInv

\* create_invite, revoke_invite and the passing of seven days.
LEMMA InviteSteps ==
    ASSUME IInv, NEW i \in Invites,
           \/ \E u \in Users, p \in Profiles, r \in Granted : CreateInvite(u, p, r, i)
           \/ \E u \in Users : RevokeInvite(u, i)
           \/ Expire(i)
    PROVE  IInv'
<1>0. invite[i] \in Invite \cup {None}
  BY DEF IInv, TypeOK
<1>1. ASSUME NEW u \in Users, NEW p \in Profiles, NEW r \in Granted,
             CreateInvite(u, p, r, i)
      PROVE  IInv'
  <2> DEFINE new == [profile |-> p, role |-> r, used |-> FALSE,
                     expired |-> FALSE, revoked |-> FALSE]
  <2>1. new \in Invite
    BY DEF Invite
  <2>2. Exists(p)
    BY <1>1, MembershipAssumption DEF IInv, TypeOK, CreateInvite, Member, Roles
  <2>3. invite[i] = None /\ invite' = [invite EXCEPT ![i] = new]
        /\ UNCHANGED <<owner, unused, role, default, request, joined>>
    BY <1>1 DEF CreateInvite
  <2>4. new.profile = p
    OBVIOUS
  <2> HIDE DEF new
  <2> QED
    BY <2>1, <2>2, <2>3, <2>4, OnlyInvite
<1>2. ASSUME NEW u \in Users, RevokeInvite(u, i)
      PROVE  IInv'
  <2> DEFINE new == [invite[i] EXCEPT !.revoked = TRUE]
  <2>1. new \in Invite /\ new.used = invite[i].used /\ new.revoked
    BY <1>0, <1>2, Changed, Zenon DEF RevokeInvite
  <2>2. /\ invite' = [invite EXCEPT ![i] = new]
        /\ UNCHANGED <<owner, unused, role, default, request, joined>>
    BY <1>0, <1>2 DEF IInv, TypeOK, RevokeInvite
  <2> HIDE DEF new
  <2> QED
    BY <2>1, <2>2, OnlyInvite
<1>3. ASSUME Expire(i)
      PROVE  IInv'
  <2> DEFINE new == [invite[i] EXCEPT !.expired = TRUE]
  <2>1. /\ new \in Invite /\ new.used = invite[i].used
        /\ new.revoked = invite[i].revoked /\ new.profile = invite[i].profile
        /\ invite[i] # None
    BY <1>0, <1>3, Changed, Zenon DEF Expire
  <2>2. /\ invite' = [invite EXCEPT ![i] = new]
        /\ UNCHANGED <<owner, unused, role, default, request, joined>>
    BY <1>0, <1>3 DEF IInv, TypeOK, Expire
  <2> HIDE DEF new
  <2>3. ~new.revoked => Exists(new.profile)
    BY <2>1 DEF IInv, Rooted
  <2> QED
    BY <2>1, <2>2, <2>3, OnlyInvite
<1> QED
  BY <1>1, <1>2, <1>3

\* The steps that only read, lock, or give up.
LEMMA RequestSteps ==
    ASSUME IInv, NEW c \in Connections, NEW u \in Users,
           \/ CountProfiles(c, u)
           \/ ReadDefault(c, u)
           \/ \E i \in Invites : FindInvite(c, u, i)
           \/ \E p \in Profiles : CheckChoice(c, u, p)
           \/ ReadProfiles(c)
           \/ Rollback(c)
    PROVE  IInv'
<1>1. UNCHANGED <<owner, unused, role, default, invite, joined>>
  BY DEF CountProfiles, ReadDefault, FindInvite, CheckChoice, ReadProfiles, Rollback
<1>2. PICK r \in Request :
          /\ request' = [request EXCEPT ![c] = r]
          /\ r.user = None <=> r.op = "idle"
          /\ r.invite # None <=> r.op = "joining"
          /\ r.op \in {"choosing", "reading", "repairing"} => r.profile # None
          /\ r.op = "joining" => invite[r.invite] # None
  <2>0. Idle \in Request
    BY DEF Idle, Request
  <2>1. CASE CountProfiles(c, u)
    <3> DEFINE r == [Idle EXCEPT !.op = "creating", !.user = u]
    <3>1. r \in Request
      BY DEF Idle, Request
    <3> QED
      BY <2>1, <3>1, MembershipAssumption DEF CountProfiles, Open, Idle
  <2>2. CASE ReadDefault(c, u)
    <3> DEFINE r == [Idle EXCEPT !.op = "reading", !.user = u, !.profile = default[u]]
    <3>1. r \in Request /\ default[u] # None
      BY DEF IInv, TypeOK, DefaultExists, Idle, Request
    <3> QED
      BY <2>2, <3>1, MembershipAssumption DEF ReadDefault, Open, Idle
  <2>3. ASSUME NEW i \in Invites, FindInvite(c, u, i)
        PROVE  \E r \in Request :
                  /\ request' = [request EXCEPT ![c] = r]
                  /\ r.user = None <=> r.op = "idle"
                  /\ r.invite # None <=> r.op = "joining"
                  /\ r.op \in {"choosing", "reading", "repairing"} => r.profile # None
                  /\ r.op = "joining" => invite[r.invite] # None
    <3> DEFINE r == [Idle EXCEPT !.op = "joining", !.user = u, !.invite = i]
    <3>1. r \in Request
      BY DEF Idle, Request
    <3> QED
      BY <2>3, <3>1, MembershipAssumption DEF FindInvite, Open, Idle
  <2>4. ASSUME NEW p \in Profiles, CheckChoice(c, u, p)
        PROVE  \E r \in Request :
                  /\ request' = [request EXCEPT ![c] = r]
                  /\ r.user = None <=> r.op = "idle"
                  /\ r.invite # None <=> r.op = "joining"
                  /\ r.op \in {"choosing", "reading", "repairing"} => r.profile # None
                  /\ r.op = "joining" => invite[r.invite] # None
    <3> DEFINE r == [Idle EXCEPT !.op = "choosing", !.user = u, !.profile = p]
    <3>1. r \in Request
      BY DEF Idle, Request
    <3> QED
      BY <2>4, <3>1, MembershipAssumption DEF CheckChoice, Open, Idle
  <2>5. CASE ReadProfiles(c)
    <3>1. CASE Close(c)
      BY <2>0, <3>1 DEF Close, Open, Idle
    <3>2. CASE \E p \in Readable(request[c].user) \cap Mains :
                  Open(c, [request[c] EXCEPT !.op = "repairing", !.profile = p])
      <4>1. PICK p \in Profiles :
                request' = [request EXCEPT ![c] =
                   [request[c] EXCEPT !.op = "repairing", !.profile = p]]
        BY <3>2 DEF Open, Readable
      <4> DEFINE r == [request[c] EXCEPT !.op = "repairing", !.profile = p]
      <4>2. /\ request[c] \in Request
            /\ request[c].user # None /\ request[c].invite = None
        BY <2>5 DEF IInv, TypeOK, Free, ReadProfiles
      <4>3. /\ r \in Request /\ r.op = "repairing" /\ r.profile = p
            /\ r.user = request[c].user /\ r.invite = None
        BY <4>2 DEF Request
      <4> QED
        BY <4>1, <4>2, <4>3, MembershipAssumption
    <3> QED
      BY <2>5, <3>1, <3>2 DEF ReadProfiles
  <2>6. CASE Rollback(c)
    BY <2>0, <2>6 DEF Rollback, Close, Open, Idle
  <2> QED
    BY <2>1, <2>2, <2>3, <2>4, <2>5, <2>6
<1> QED
  BY <1>1, <1>2, OnlyRequest
\* Every step keeps the invariant.
LEMMA NextIInv == IInv /\ [Next]_vars => IInv'
<1> SUFFICES ASSUME IInv, [Next]_vars PROVE IInv'
  OBVIOUS
<1>1. ASSUME NEW c \in Connections, Step(c) PROVE IInv'
  <2>1. ASSUME NEW u \in Users, CountProfiles(c, u) \/ ReadDefault(c, u) PROVE IInv'
    BY <2>1, RequestSteps
  <2>2. ASSUME NEW p \in Profiles, InsertProfile(c, p) PROVE IInv'
    BY <2>2, InsertStep
  <2>3. ASSUME NEW u \in Users, NEW i \in Invites, FindInvite(c, u, i) PROVE IInv'
    BY <2>3, RequestSteps
  <2>4. ASSUME NEW u \in Users, NEW p \in Profiles, CheckChoice(c, u, p) PROVE IInv'
    BY <2>4, RequestSteps
  <2>5. CASE JoinInvite(c)
    BY <2>5, JoinStep
  <2>6. CASE WriteDefault(c)
    BY <2>6, WriteDefaultStep
  <2>7. CASE ReadProfiles(c) \/ Rollback(c)
    <3>1. request[c].user \in Users
      BY <2>7 DEF IInv, TypeOK, Request, Free, ReadProfiles, Rollback
    <3> QED
      BY <2>7, <3>1, RequestSteps
  <2> QED
    BY <1>1, <2>1, <2>2, <2>3, <2>4, <2>5, <2>6, <2>7 DEF Step
<1>2. ASSUME NEW u \in Users, Manage(u) PROVE IInv'
  <2>1. ASSUME NEW p \in Profiles, DeleteProfile(u, p) PROVE IInv'
    BY <2>1, DeleteStep
  <2>2. ASSUME NEW p \in Profiles, NEW r \in Granted, NEW i \in Invites,
               CreateInvite(u, p, r, i)
        PROVE  IInv'
    BY <2>2, InviteSteps
  <2>3. ASSUME NEW i \in Invites, RevokeInvite(u, i) PROVE IInv'
    BY <2>3, InviteSteps
  <2> QED
    BY <1>2, <2>1, <2>2, <2>3 DEF Manage
<1>3. ASSUME NEW i \in Invites, Expire(i) PROVE IInv'
  BY <1>3, InviteSteps
<1>4. CASE Removal
  BY <1>4, RemoveStep DEF Removal
<1>5. CASE UNCHANGED vars
  BY <1>5 DEF vars, IInv, TypeOK, OwnersStay, DefaultExists, Single, Found, Rooted,
              Exists, Member, Free
<1> QED
  BY <1>1, <1>2, <1>3, <1>4, <1>5 DEF Next

\* The invariant holds in every reachable state.
LEMMA Invariance == Spec => []IInv
  BY InitIInv, NextIInv, PTL DEF Spec

-----------------------------------------------------------------------------
\* Every reachable state is well typed, deletions and half-done requests included.
THEOREM TypeCorrect == Spec => []TypeOK
<1>1. IInv => TypeOK
  BY DEF IInv
<1> QED
  BY <1>1, Invariance, PTL

\* An invitation lets in at most one person, however many requests have found it
\* valid before one of them has used it (join_invite).
THEOREM SinglyUsed == Spec => []InvitationJoinsOne
<1>1. ASSUME IInv PROVE InvitationJoinsOne
  <2> SUFFICES ASSUME NEW i \in Invites PROVE Cardinality(joined[i]) <= 1
    BY DEF InvitationJoinsOne
  <2>1. Cardinality({}) = 0 /\ \A u \in Users : Cardinality({u}) = 1
    BY FS_EmptySet, FS_Singleton
  <2>2. joined[i] = {} \/ \E u \in Users : joined[i] = {u}
    BY <1>1 DEF IInv, Single
  <2>3. Cardinality(joined[i]) \in {0, 1}
    BY <2>1, <2>2, Zenon
  <2> QED
    BY <2>3
<1> QED
  BY <1>1, Invariance, PTL

\* A profile has its owner as the only member in that role, and every user keeps
\* the main profile the bot writes to.
THEOREM OwnersRemain == Spec => []OwnersStay
<1>1. IInv => OwnersStay
  BY DEF IInv
<1> QED
  BY <1>1, Invariance, PTL

\* No deletion, removal or late choice leaves a user without a default profile
\* that exists (delete_profile, remove_member, update_user).
THEOREM DefaultRemains == Spec => []DefaultExists
<1>1. IInv => DefaultExists
  BY DEF IInv
<1> QED
  BY <1>1, Invariance, PTL

\* Nobody becomes a member of an existing profile but by an unused, unrevoked
\* invitation to it, with its role, and no role changes but by being lost, although
\* the invitation was first read without a lock (join_invite).
THEOREM JoiningNeedsInvitation == Spec => JoinNeedsInvitation
<1> DEFINE A ==
      \A p \in Profiles, u \in Users :
          /\ Member(p, u) => role'[p][u] \in {role[p][u], None}
          /\ ~Member(p, u) /\ Exists(p) /\ role'[p][u] # None =>
                \E i \in Invites :
                    /\ invite[i] # None
                    /\ invite[i].profile = p /\ invite[i].role = role'[p][u]
                    /\ ~invite[i].used /\ ~invite[i].revoked
<1>1. ASSUME IInv, [Next]_vars PROVE A \/ UNCHANGED vars
  <2> SUFFICES ASSUME Next, NEW p \in Profiles, NEW u \in Users
               PROVE  /\ Member(p, u) => role'[p][u] \in {role[p][u], None}
                      /\ ~Member(p, u) /\ Exists(p) /\ role'[p][u] # None =>
                            \E i \in Invites :
                                /\ invite[i] # None
                                /\ invite[i].profile = p
                                /\ invite[i].role = role'[p][u]
                                /\ ~invite[i].used /\ ~invite[i].revoked
    BY <1>1
  <2>0. role \in [Profiles -> [Users -> Roles \cup {None}]]
    BY <1>1 DEF IInv, TypeOK
  <2>1. CASE role' = role
    BY <2>1 DEF Member
  <2>2. ASSUME NEW c \in Connections, NEW q \in Profiles, InsertProfile(c, q)
        PROVE  \/ role'[p][u] = role[p][u]
               \/ ~Exists(p) /\ role[p][u] = None
    <3>1. ~Exists(q) /\ \A v \in Users : role[q][v] = None
      BY <1>1, <2>2 DEF IInv, TypeOK, InsertProfile, Member
    <3> QED
      BY <2>0, <2>2, <3>1 DEF InsertProfile
  <2>3. ASSUME NEW v \in Users, NEW q \in Profiles,
               DeleteProfile(v, q) \/ \E x \in Users : RemoveMember(v, q, x)
        PROVE  role'[p][u] \in {role[p][u], None}
    BY <2>0, <2>3 DEF DeleteProfile, RemoveRows, RemoveMember
  <2>4. ASSUME NEW c \in Connections, JoinInvite(c)
        PROVE  \/ role'[p][u] = role[p][u]
               \/ /\ role[p][u] = None
                  /\ \E i \in Invites :
                        /\ invite[i] # None
                        /\ invite[i].profile = p /\ invite[i].role = role'[p][u]
                        /\ ~invite[i].used /\ ~invite[i].revoked
    <3> DEFINE v == request[c].user
               i == request[c].invite
               q == invite[i].profile
    <3>1. v \in Users /\ i \in Invites /\ invite[i] # None
      BY <1>1, <2>4 DEF IInv, TypeOK, Found, JoinInvite, Free, Request
    <3>2. /\ ~invite[i].used /\ ~invite[i].revoked
          /\ \/ role' = role
             \/ role[q][v] = None /\ role' = [role EXCEPT ![q][v] = invite[i].role]
      BY <2>4 DEF JoinInvite, Member
    <3>3. q \in Profiles
      BY <1>1, <3>1 DEF IInv, TypeOK, Invite
    <3>4. CASE role' = role
      BY <3>4
    <3>5. CASE /\ role[q][v] = None
               /\ role' = [role EXCEPT ![q][v] = invite[i].role]
      <4>1. CASE p = q /\ u = v
        <5>1. role'[p][u] = invite[i].role
          BY <2>0, <3>5, <4>1
        <5> QED
          BY <3>1, <3>2, <3>5, <4>1, <5>1
      <4>2. CASE ~(p = q /\ u = v)
        <5> HIDE DEF v, q, i
        <5> QED
          BY <2>0, <3>5, <4>2
      <4> QED
        BY <4>1, <4>2
    <3> QED
      BY <3>2, <3>4, <3>5
  <2>5. \/ role' = role
        \/ \E c \in Connections, q \in Profiles : InsertProfile(c, q)
        \/ \E v \in Users, q \in Profiles :
              DeleteProfile(v, q) \/ \E x \in Users : RemoveMember(v, q, x)
        \/ \E c \in Connections : JoinInvite(c)
    <3>1. ASSUME NEW c \in Connections, Step(c)
          PROVE  \/ role' = role
                 \/ \E q \in Profiles : InsertProfile(c, q)
                 \/ JoinInvite(c)
      BY <3>1 DEF Step, CountProfiles, ReadDefault, FindInvite, CheckChoice,
                  WriteDefault, ReadProfiles, Rollback
    <3>2. ASSUME NEW v \in Users, Manage(v)
          PROVE  role' = role \/ \E q \in Profiles : DeleteProfile(v, q)
      BY <3>2 DEF Manage, CreateInvite, RevokeInvite
    <3>3. ASSUME NEW i \in Invites, Expire(i)
          PROVE  role' = role
      BY <3>3 DEF Expire
    <3> QED
      BY <3>1, <3>2, <3>3 DEF Next, Removal
  <2> QED
    BY <2>1, <2>2, <2>3, <2>4, <2>5 DEF Member
<1>2. IInv /\ [Next]_vars => [A]_vars
  BY <1>1
<1> QED
  BY <1>2, Invariance, PTL DEF Spec, JoinNeedsInvitation

\* Removals and deletions never leave a default unreadable: what can is only a
\* choice that was checked, and is written, after its reason is gone
\* (remove_member, delete_profile, update_user, the repair in bootstrap).
THEOREM OnlyLateChoicesHurt == Spec => OnlyLateChoices
<1> DEFINE A ==
      \A u \in Users : Reads(u) =>
          Reads(u)' \/ \E c \in Connections : request[c].user = u /\ WriteDefault(c)
<1>1. ASSUME IInv, [Next]_vars PROVE A \/ UNCHANGED vars
  <2> SUFFICES ASSUME Next, NEW u \in Users, Reads(u),
                      \A c \in Connections : ~(request[c].user = u /\ WriteDefault(c))
               PROVE  Reads(u)'
    BY <1>1
  <2>0. /\ role \in [Profiles -> [Users -> Roles \cup {None}]]
        /\ default \in [Users -> Profiles \cup {None}]
        /\ default[u] \in Profiles
        /\ default[u] # None /\ role[default[u]][u] # None
    BY <1>1 DEF IInv, TypeOK, Reads, Member
  <2>1. CASE default'[u] = default[u] /\ role'[default[u]][u] # None
    BY <2>0, <2>1 DEF Reads, Member
  <2>2. CASE role' = role /\ default' = default
    BY <2>0, <2>2 DEF Reads, Member
  <2>3. ASSUME NEW c \in Connections, NEW p \in Profiles, InsertProfile(c, p)
        PROVE  Reads(u)'
    <3>1. request[c].user # None /\ role[p][u] = None
      BY <1>1, <2>3 DEF IInv, TypeOK, InsertProfile, Free, Member
    <3>2. default' = default /\ role' = [role EXCEPT ![p][request[c].user] = "owner"]
      BY <2>3 DEF InsertProfile
    <3> QED
      BY <2>0, <2>1, <3>1, <3>2
  <2>4. ASSUME NEW c \in Connections, JoinInvite(c) PROVE Reads(u)'
    <3> DEFINE v == request[c].user
               i == request[c].invite
               q == invite[i].profile
    <3>1. default' = default
      BY <2>4 DEF JoinInvite
    <3>2. \/ role' = role
          \/ role[q][v] = None /\ role' = [role EXCEPT ![q][v] = invite[i].role]
      BY <2>4 DEF JoinInvite, Member
    <3> HIDE DEF v, q, i
    <3> QED
      BY <2>0, <2>1, <3>1, <3>2
  <2>5. ASSUME NEW c \in Connections, WriteDefault(c) PROVE Reads(u)'
    <3>1. request[c].user # u /\ role' = role
          /\ default' = [default EXCEPT ![request[c].user] = request[c].profile]
      BY <2>0, <2>5 DEF WriteDefault
    <3> QED
      BY <2>0, <2>1, <3>1
  <2>6. ASSUME NEW v \in Users, NEW p \in Profiles, DeleteProfile(v, p)
        PROVE  Reads(u)'
    <3>1. Main[u] # p /\ Main[u] \in Profiles /\ Main[u] # None
      BY <2>6, MembershipAssumption DEF DeleteProfile, Mains
    <3>2. role[Main[u]][u] # None
      BY <1>1, MainsExist, MembershipAssumption DEF IInv, Roles
    <3>3. /\ role' = [role EXCEPT ![p] = [x \in Users |-> None]]
          /\ default'[u] = IF default[u] = p THEN Main[u] ELSE default[u]
      BY <2>6 DEF DeleteProfile, RemoveRows
    <3>4. CASE default[u] = p
      BY <2>0, <3>1, <3>2, <3>3, <3>4 DEF Reads, Member
    <3>5. CASE default[u] # p
      BY <2>0, <2>1, <3>3, <3>5
    <3> QED
      BY <3>4, <3>5
  <2>7. ASSUME NEW v \in Users, NEW x \in Users, NEW p \in Profiles, RemoveMember(v, p, x)
        PROVE  Reads(u)'
    <3>1. role[Main[u]][u] = "owner" /\ Main[u] \in Profiles
          /\ Main[u] # None /\ "owner" # None /\ "owner" \notin Granted
      BY <1>1, MainsExist, MembershipAssumption DEF IInv, Roles, Granted
    <3>2. /\ role[p][x] \in Granted
          /\ role' = [role EXCEPT ![p][x] = None]
          /\ default' = [default EXCEPT ![x] = IF @ = p THEN Main[x] ELSE @]
      BY <2>7 DEF RemoveMember
    <3>3. CASE u = x /\ default[u] = p
      BY <2>0, <3>1, <3>2, <3>3 DEF Reads, Member
    <3>4. CASE ~(u = x /\ default[u] = p)
      BY <2>0, <2>1, <3>2, <3>4
    <3> QED
      BY <3>3, <3>4
  <2>8. ASSUME NEW c \in Connections, Step(c) PROVE Reads(u)'
    BY <2>2, <2>3, <2>4, <2>5, <2>8
       DEF Step, CountProfiles, ReadDefault, FindInvite, CheckChoice,
           ReadProfiles, Rollback
  <2>9. ASSUME NEW v \in Users, Manage(v) PROVE Reads(u)'
    <3>1. CASE \E p \in Profiles : DeleteProfile(v, p)
      BY <2>6, <3>1
    <3>2. ASSUME NEW p \in Profiles, NEW r \in Granted, NEW i \in Invites,
                 CreateInvite(v, p, r, i)
          PROVE  role' = role /\ default' = default
      BY <3>2, Zenon DEF CreateInvite
    <3>3. ASSUME NEW i \in Invites, RevokeInvite(v, i)
          PROVE  role' = role /\ default' = default
      BY <3>3, Zenon DEF RevokeInvite
    <3> QED
      BY <2>2, <2>9, <3>1, <3>2, <3>3, Zenon DEF Manage
  <2>10. ASSUME NEW i \in Invites, Expire(i) PROVE Reads(u)'
    BY <2>2, <2>10 DEF Expire
  <2> QED
    BY <2>7, <2>8, <2>9, <2>10 DEF Next, Removal
<1>2. IInv /\ [Next]_vars => [A]_vars
  BY <1>1
<1> QED
  BY <1>2, Invariance, PTL DEF Spec, OnlyLateChoices

-----------------------------------------------------------------------------
Creating(c, u) == request[c].op = "creating" /\ request[c].user = u

\* Whoever is creating a profile is alone in doing so for his user, and there is
\* still room: the lock on the user's row is held since the count.
Room ==
    \A c \in Connections, u \in Users :
        Creating(c, u) => /\ Cardinality(Owned(u)) < Limit
                          /\ \A d \in Connections : Creating(d, u) => d = c

LInv == IInv /\ ProfileLimit /\ Room

\* Cardinalities of sets of profiles.
LEMMA OwnedFinite ==
    ASSUME NEW u \in Users, NEW S \in SUBSET Profiles
    PROVE  /\ IsFiniteSet(S) /\ Cardinality(S) \in Nat
           /\ \A T \in SUBSET S : Cardinality(T) <= Cardinality(S)
           /\ \A p \in Profiles : Cardinality(S \cup {p}) <= Cardinality(S) + 1
<1>1. IsFiniteSet(S)
  BY FS_Subset, MembershipAssumption
<1>2. Cardinality(S) \in Nat
  BY <1>1, FS_CardinalityType
<1>3. \A T \in SUBSET S : Cardinality(T) <= Cardinality(S)
  BY <1>1, FS_Subset
<1>4. ASSUME NEW p \in Profiles PROVE Cardinality(S \cup {p}) <= Cardinality(S) + 1
  <2>1. \/ Cardinality(S \cup {p}) = Cardinality(S)
        \/ Cardinality(S \cup {p}) = Cardinality(S) + 1
    BY <1>1, FS_AddElement
  <2> QED
    BY <1>2, <2>1
<1> QED
  BY <1>1, <1>2, <1>3, <1>4

\* A step that takes no lock and gives nobody another profile.
LEMMA NoMoreOwned ==
    ASSUME LInv, IInv',
           \A u \in Users : Owned(u)' \subseteq Owned(u),
           \A c \in Connections :
               request'[c].op = "creating" => request'[c] = request[c]
    PROVE  LInv'
<1>1. \A u \in Users : Owned(u) \subseteq Profiles
  BY DEF Owned
<1>2. \A u \in Users :
          /\ Cardinality(Owned(u)') <= Cardinality(Owned(u))
          /\ Cardinality(Owned(u)) \in Nat /\ Cardinality(Owned(u)') \in Nat
  <2> TAKE u \in Users
  <2>1. Owned(u) \in SUBSET Profiles /\ Owned(u)' \in SUBSET Owned(u)
    BY <1>1
  <2>2. Owned(u)' \in SUBSET Profiles
    BY <2>1
  <2> QED
    BY <2>1, <2>2, OwnedFinite
<1>3. ProfileLimit'
  BY <1>2, MembershipAssumption DEF LInv, ProfileLimit
<1>4. Room'
  <2> SUFFICES ASSUME NEW c \in Connections, NEW u \in Users, Creating(c, u)'
               PROVE  /\ Cardinality(Owned(u)') < Limit
                      /\ \A d \in Connections : Creating(d, u)' => d = c
    BY DEF Room
  <2>1. \A d \in Connections : Creating(d, u)' => Creating(d, u)
    BY DEF Creating
  <2>2. Cardinality(Owned(u)) < Limit
    BY <2>1 DEF LInv, Room
  <2>3. Cardinality(Owned(u)') < Limit
    BY <1>2, <2>2, MembershipAssumption
  <2> QED
    BY <2>1, <2>3 DEF LInv, Room
<1> QED
  BY <1>3, <1>4 DEF LInv

\* create_profile locks the user's row and counts.
LEMMA CountStep ==
    ASSUME LInv, IInv', NEW c \in Connections, NEW u \in Users, CountProfiles(c, u)
    PROVE  LInv'
<1>1. \A v \in Users : Owned(v)' = Owned(v)
  BY DEF CountProfiles, Owned
<1>2. ProfileLimit'
  BY <1>1 DEF LInv, ProfileLimit
<1>3. /\ \A v \in Users : Creating(c, v)' <=> v = u
      /\ \A d \in Connections \ {c}, v \in Users : Creating(d, v)' <=> Creating(d, v)
  BY DEF LInv, IInv, TypeOK, CountProfiles, Open, Idle, Creating
<1>4. Cardinality(Owned(u)) < Limit /\ \A d \in Connections : ~Creating(d, u)
  BY DEF CountProfiles, RowFree, Creating
<1>5. Room'
  <2> SUFFICES ASSUME NEW d \in Connections, NEW v \in Users, Creating(d, v)'
               PROVE  /\ Cardinality(Owned(v)') < Limit
                      /\ \A e \in Connections : Creating(e, v)' => e = d
    BY DEF Room
  <2>1. CASE v = u
    BY <1>1, <1>3, <1>4, <2>1
  <2>2. CASE v # u
    <3>1. Creating(d, v) /\ \A e \in Connections : Creating(e, v)' => Creating(e, v)
      BY <1>3, <2>2
    <3> QED
      BY <1>1, <3>1 DEF LInv, Room
  <2> QED
    BY <2>1, <2>2
<1> QED
  BY <1>2, <1>5 DEF LInv

\* create_profile inserts while it holds the lock.
LEMMA InsertLimitStep ==
    ASSUME LInv, IInv', NEW c \in Connections, NEW p \in Profiles, InsertProfile(c, p)
    PROVE  LInv'
<1>1. PICK u \in Users : Creating(c, u)
  BY DEF LInv, IInv, TypeOK, InsertProfile, Free, Request, Creating
<1>2. owner' = [owner EXCEPT ![p] = u] /\ owner \in [Profiles -> Users \cup {None}]
  BY <1>1 DEF LInv, IInv, TypeOK, InsertProfile, Creating
<1>3. owner[p] = None
  BY DEF LInv, IInv, TypeOK, InsertProfile, Exists
<1>4. /\ Owned(u)' = Owned(u) \cup {p}
      /\ \A v \in Users \ {u} : Owned(v)' = Owned(v)
  BY <1>2, <1>3, MembershipAssumption DEF Owned
<1>5. Cardinality(Owned(u)) < Limit
  BY <1>1 DEF LInv, Room
<1>6. ProfileLimit'
  <2>1. Owned(u) \in SUBSET Profiles /\ Owned(u) \cup {p} \in SUBSET Profiles
    BY DEF Owned
  <2>2. /\ Cardinality(Owned(u)) \in Nat
        /\ Cardinality(Owned(u) \cup {p}) <= Cardinality(Owned(u)) + 1
        /\ Cardinality(Owned(u) \cup {p}) \in Nat
    BY <2>1, OwnedFinite
  <2>3. Cardinality(Owned(u)') <= Limit
    BY <1>4, <1>5, <2>2, MembershipAssumption
  <2> QED
    BY <1>4, <2>3 DEF LInv, ProfileLimit
<1>7. Room'
  <2>1. /\ \A v \in Users : ~Creating(c, v)'
        /\ \A d \in Connections \ {c}, v \in Users : Creating(d, v)' <=> Creating(d, v)
    BY DEF LInv, IInv, TypeOK, InsertProfile, Close, Open, Idle, Creating
  <2> SUFFICES ASSUME NEW d \in Connections, NEW v \in Users, Creating(d, v)'
               PROVE  /\ Cardinality(Owned(v)') < Limit
                      /\ \A e \in Connections : Creating(e, v)' => e = d
    BY DEF Room
  <2>2. Creating(d, v) /\ \A e \in Connections : Creating(e, v)' => Creating(e, v)
    BY <2>1
  <2>3. v # u
    BY <1>1, <2>1, <2>2 DEF LInv, Room
  <2> QED
    BY <1>4, <2>2, <2>3 DEF LInv, Room
<1> QED
  BY <1>6, <1>7 DEF LInv

\* A user starts with one profile.
LEMMA InitLInv == Init => LInv
<1> SUFFICES ASSUME Init PROVE LInv
  OBVIOUS
<1>1. IInv
  BY InitIInv
<1>2. \A u \in Users : Owned(u) = {Main[u]}
  BY MembershipAssumption DEF Init, Owned, Mains
<1>3. ProfileLimit
  <2>1. \A u \in Users : Cardinality(Owned(u)) = 1
    BY <1>2, FS_Singleton
  <2> QED
    BY <2>1, MembershipAssumption DEF ProfileLimit
<1>4. Room
  BY DEF Init, Idle, Room, Creating
<1> QED
  BY <1>1, <1>3, <1>4 DEF LInv

\* Every step keeps the limit and the lock.
LEMMA NextLInv == LInv /\ [Next]_vars => LInv'
<1> SUFFICES ASSUME LInv, [Next]_vars PROVE LInv'
  OBVIOUS
<1>0. IInv'
  BY NextIInv DEF LInv
<1>1. ASSUME NEW c \in Connections, NEW u \in Users, CountProfiles(c, u) PROVE LInv'
  BY <1>0, <1>1, CountStep
<1>2. ASSUME NEW c \in Connections, NEW p \in Profiles, InsertProfile(c, p) PROVE LInv'
  BY <1>0, <1>2, InsertLimitStep
<1>3. ASSUME NEW c \in Connections,
             \/ JoinInvite(c) \/ WriteDefault(c) \/ ReadProfiles(c) \/ Rollback(c)
             \/ \E u \in Users :
                   \/ ReadDefault(c, u)
                   \/ \E i \in Invites : FindInvite(c, u, i)
                   \/ \E p \in Profiles : CheckChoice(c, u, p)
      PROVE  LInv'
  <2>1. owner' = owner
    BY <1>3 DEF JoinInvite, WriteDefault, ReadProfiles, Rollback, ReadDefault,
                FindInvite, CheckChoice
  <2>2. /\ \A d \in Connections \ {c} : request'[d] = request[d]
        /\ request'[c].op # "creating"
    <3>1. ASSUME NEW r, request' = [request EXCEPT ![c] = r], r.op # "creating"
          PROVE  /\ \A d \in Connections \ {c} : request'[d] = request[d]
                 /\ request'[c].op # "creating"
      BY <3>1 DEF LInv, IInv, TypeOK
    <3>2. Idle.op # "creating"
      BY DEF Idle
    <3>3. CASE JoinInvite(c) \/ WriteDefault(c) \/ Rollback(c)
      BY <3>1, <3>2, <3>3 DEF JoinInvite, WriteDefault, Rollback, Close, Open
    <3>4. CASE ReadProfiles(c)
      <4>1. request[c] \in Request
        BY DEF LInv, IInv, TypeOK
      <4>2. ASSUME NEW p PROVE [request[c] EXCEPT !.op = "repairing",
                                                  !.profile = p].op # "creating"
        BY <4>1 DEF Request
      <4>3. PICK r : request' = [request EXCEPT ![c] = r] /\ r.op # "creating"
        <5>1. CASE request' = [request EXCEPT ![c] = Idle]
          BY <3>2, <5>1
        <5>2. CASE \E p \in Profiles :
                      request' = [request EXCEPT ![c] =
                         [request[c] EXCEPT !.op = "repairing", !.profile = p]]
          BY <4>2, <5>2, Zenon
        <5> QED
          BY <3>4, <5>1, <5>2, Zenon DEF ReadProfiles, Close, Open, Readable
      <4> QED
        BY <3>1, <4>3
    <3>5. CASE \E u \in Users :
                  \/ ReadDefault(c, u)
                  \/ \E i \in Invites : FindInvite(c, u, i)
                  \/ \E p \in Profiles : CheckChoice(c, u, p)
      <4>1. ASSUME NEW u \in Users, ReadDefault(c, u)
            PROVE  \E r : request' = [request EXCEPT ![c] = r] /\ r.op # "creating"
        <5> DEFINE r == [Idle EXCEPT !.op = "reading", !.user = u, !.profile = default[u]]
        <5>1. request' = [request EXCEPT ![c] = r] /\ r.op # "creating"
          BY <4>1 DEF ReadDefault, Open, Idle
        <5> QED
          BY <5>1
      <4>2. ASSUME NEW u \in Users, NEW i \in Invites, FindInvite(c, u, i)
            PROVE  \E r : request' = [request EXCEPT ![c] = r] /\ r.op # "creating"
        <5> DEFINE r == [Idle EXCEPT !.op = "joining", !.user = u, !.invite = i]
        <5>1. request' = [request EXCEPT ![c] = r] /\ r.op # "creating"
          BY <4>2 DEF FindInvite, Open, Idle
        <5> QED
          BY <5>1
      <4>3. ASSUME NEW u \in Users, NEW p \in Profiles, CheckChoice(c, u, p)
            PROVE  \E r : request' = [request EXCEPT ![c] = r] /\ r.op # "creating"
        <5> DEFINE r == [Idle EXCEPT !.op = "choosing", !.user = u, !.profile = p]
        <5>1. request' = [request EXCEPT ![c] = r] /\ r.op # "creating"
          BY <4>3 DEF CheckChoice, Open, Idle
        <5> QED
          BY <5>1
      <4> QED
        BY <3>1, <3>5, <4>1, <4>2, <4>3
    <3> QED
      BY <1>3, <3>3, <3>4, <3>5
  <2> QED
    BY <1>0, <2>1, <2>2, NoMoreOwned DEF Owned
<1>4. ASSUME NEW u \in Users, NEW p \in Profiles, DeleteProfile(u, p) PROVE LInv'
  <2>1. \A v \in Users : Owned(v)' \subseteq Owned(v)
    BY <1>4, MembershipAssumption
       DEF LInv, IInv, TypeOK, DeleteProfile, RemoveRows, Owned
  <2>2. request' = request
    BY <1>4 DEF DeleteProfile
  <2> QED
    BY <1>0, <2>1, <2>2, NoMoreOwned
<1>5. CASE UNCHANGED <<owner, request>>
  BY <1>0, <1>5, NoMoreOwned DEF Owned
<1>6. \/ \E c \in Connections :
            \/ \E u \in Users :
                  \/ CountProfiles(c, u) \/ ReadDefault(c, u)
                  \/ \E i \in Invites : FindInvite(c, u, i)
                  \/ \E p \in Profiles : CheckChoice(c, u, p)
            \/ \E p \in Profiles : InsertProfile(c, p)
            \/ JoinInvite(c) \/ WriteDefault(c) \/ ReadProfiles(c) \/ Rollback(c)
      \/ \E u \in Users, p \in Profiles : DeleteProfile(u, p)
      \/ UNCHANGED <<owner, request>>
  <2>1. ASSUME NEW u \in Users, Manage(u)
        PROVE  \/ \E p \in Profiles : DeleteProfile(u, p)
               \/ UNCHANGED <<owner, request>>
    BY <2>1 DEF Manage, CreateInvite, RevokeInvite
  <2>2. ASSUME NEW i \in Invites, Expire(i) PROVE UNCHANGED <<owner, request>>
    BY <2>2 DEF Expire
  <2>3. CASE Removal
    BY <2>3 DEF Removal, RemoveMember
  <2>4. CASE UNCHANGED vars
    BY <2>4 DEF vars
  <2>5. CASE \E c \in Connections : Step(c)
    BY <2>5 DEF Step
  <2> QED
    BY <2>1, <2>2, <2>3, <2>4, <2>5 DEF Next
<1> QED
  BY <1>1, <1>2, <1>3, <1>4, <1>5, <1>6

\* Two requests at once do not pass the limit of profiles: create_profile counts
\* and inserts under the lock on the user's row.
THEOREM LimitHolds == Spec => []ProfileLimit
<1>1. LInv => ProfileLimit
  BY DEF LInv
<1> QED
  BY <1>1, InitLInv, NextLInv, PTL DEF Spec
=============================================================================
