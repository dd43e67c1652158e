---------------------------- MODULE Transactions ----------------------------
(***************************************************************************)
(* Requests of the web application and the bot as database transactions:   *)
(* a connection of the pool (core/database.py), the locks each statement   *)
(* takes in the order of the code, and the commit.  Among them the upload  *)
(* of a file to a task, which counts before it inserts.                    *)
(*                                                                         *)
(* The other modules take a request that locks its profile first for one   *)
(* action.  Here is why they may, and what the locks cost: who waits for   *)
(* whom.                                                                   *)
(***************************************************************************)
EXTENDS Integers, Sequences, FiniteSets

CONSTANTS
    Users,
    Profiles,
    Main,       \* the main profile of each user
    Invites,
    Tasks,
    Home,       \* the profile of each invitation and task
    Asks,       \* what may be asked for
    Requests,   \* requests, numbered as they arrive
    PoolSize,   \* max_size of the pool
    FileLimit,  \* files per task
    Chosen,     \* the default profiles each user may have at first
    None, Done

\* The kinds of requests: of the web application, of the bot ("legacy"), and
\* the claim of a reminder.
Operations ==
    {"view", "edit", "create_task", "remove_task", "attach", "remove_attachment",
     "join_invite", "revoke_invite", "delete_profile", "remove_member", "update_user",
     "create_profile", "legacy", "claim"}

ASSUME TransactionAssumption ==
    /\ Main \in [Users -> Profiles]
    /\ Home \in [Invites \cup Tasks -> Profiles]
    /\ Chosen \in [Users -> SUBSET Profiles]
    /\ PoolSize \in Nat \ {0}
    /\ FileLimit \in Nat
    /\ Requests \subseteq Nat
    /\ \A a \in Asks : a.op \in Operations
    /\ \A a \in Asks :
         a.op \in {"create_task", "join_invite", "remove_member", "update_user",
                  "create_profile", "legacy", "claim"} => a.user \in Users
    /\ \A a \in Asks :
         a.op \in {"edit", "create_task", "delete_profile", "remove_member", "update_user",
                  "claim"} => a.profile \in Profiles
    /\ \A a \in Asks : a.op \in {"attach", "remove_attachment", "remove_task"} => a.task \in Tasks
    /\ \A a \in Asks : a.op \in {"join_invite", "revoke_invite"} => a.invite \in Invites
    /\ None \notin Asks /\ Done \notin Asks /\ None # Done

VARIABLES
    request,  \* what each request is for; None before it, Done after it
    todo,     \* the statements it has still to execute
    conns,    \* how many connections it holds
    held,     \* the locks it holds
    resets,   \* the users whose default it sets to their main profile
    default,  \* the default profile of each user
    files,    \* the number of files of each task
    gone      \* rows that have been deleted, invitations that have been used

session == <<request, todo, conns, held, resets>>
tables == <<default, files, gone>>
vars == <<request, todo, conns, held, resets, default, files, gone>>

Init ==
    /\ request = [r \in Requests |-> None]
    /\ todo = [r \in Requests |-> <<>>]
    /\ conns = [r \in Requests |-> 0]
    /\ held = [r \in Requests |-> {}]
    /\ resets = [r \in Requests |-> {}]
    /\ default \in {d \in [Users -> Profiles] : \A u \in Users : d[u] \in Chosen[u]}
    /\ files = [t \in Tasks |-> 0]
    /\ gone = {}

-----------------------------------------------------------------------------
(* Locks of PostgreSQL: FOR UPDATE and DELETE, UPDATE of other columns, and *)
(* what a foreign key takes on the row it refers to.                        *)

Profile(p) == <<"profile", p>>
User(u) == <<"user", u>>
Invitation(i) == <<"invite", i>>
Task(t) == <<"task", t>>
Advisory(u) == <<"advisory", u>>

Update(row) == [row |-> row, mode |-> "update"]
NoKeyUpdate(row) == [row |-> row, mode |-> "no key update"]
KeyShare(row) == [row |-> row, mode |-> "key share"]

Conflicting ==
    {<<"update", "update">>, <<"update", "no key update">>, <<"update", "key share">>,
     <<"no key update", "update">>, <<"no key update", "no key update">>,
     <<"key share", "update">>}

Blocks(l, k) == l.row = k.row /\ <<l.mode, k.mode>> \in Conflicting

-----------------------------------------------------------------------------
(* The statements of each request. *)

Lock(l) == [do |-> "lock", lock |-> l]
Connection == [do |-> "connect"]
Count(t) == [do |-> "count", task |-> t]

\* UPDATE users SET default_profile_id = p: the row, then the foreign key.
Assign(u, p) == [do |-> "assign", user |-> u, profile |-> p]

\* Every user in `whom` whose default is p loses it and gets his main profile.
Reset(whom, p) == [do |-> "reset", whom |-> whom, profile |-> p]
Restore == [do |-> "restore"]

\* Seeded fault: access() reads the profile without FOR UPDATE.
AccessUnlocked(p) == <<>>

\* access(write=True), access(owner=True)
Access(p) == <<Lock(Update(Profile(p)))>>

\* Seeded fault: unit_of_work takes the advisory lock only.
UnitOfWorkAdvisory(u) == <<Lock(Update(Advisory(u)))>>

\* Seeded fault: repositories inside unit_of_work take a connection each.
UnitOfWorkNested(u) ==
    <<Lock(Update(Advisory(u))), Lock(Update(Profile(Main[u]))), Connection>>

UnitOfWork(u) == <<Lock(Update(Advisory(u))), Lock(Update(Profile(Main[u])))>>

\* Seeded fault: the invitation is locked before its profile.
JoinInviteFirst(u, i) ==
    <<Lock(Update(Invitation(i))), Lock(Update(Profile(Home[i]))), Lock(KeyShare(User(u)))>>

Join(u, i) ==
    <<Lock(Update(Profile(Home[i]))), Lock(Update(Invitation(i))), Lock(KeyShare(User(u)))>>

\* The cascade on profiles: the defaults, then the tasks and invitations.
Cascade(p) ==
    LET owned == {Task(t) : t \in {x \in Tasks : Home[x] = p}}
                   \cup {Invitation(i) : i \in {x \in Invites : Home[x] = p}}
    IN  <<Reset(Users, p), [do |-> "cascade", rows |-> owned], Restore>>

Statements(a) ==
    CASE a.op = "view" -> <<>>
      [] a.op = "edit" -> Access(a.profile)
      [] a.op = "create_task" -> Access(a.profile) \o <<Lock(KeyShare(User(a.user)))>>
      [] a.op = "remove_attachment" -> Access(Home[a.task])
      [] a.op = "remove_task" -> Access(Home[a.task]) \o <<Lock(Update(Task(a.task)))>>
      [] a.op = "attach" ->
            Access(Home[a.task]) \o <<Count(a.task), Lock(KeyShare(Task(a.task)))>>
      [] a.op = "join_invite" -> Join(a.user, a.invite)
      [] a.op = "revoke_invite" ->
            Access(Home[a.invite]) \o <<Lock(Update(Invitation(a.invite)))>>
      [] a.op = "delete_profile" -> Access(a.profile) \o Cascade(a.profile)
      [] a.op = "remove_member" ->
            Access(a.profile) \o <<Reset({a.user}, a.profile), Restore>>
      [] a.op = "update_user" -> <<Assign(a.user, a.profile)>>
      [] a.op = "create_profile" -> <<Lock(Update(User(a.user)))>>
      [] a.op = "legacy" -> UnitOfWork(a.user)
      [] a.op = "claim" ->
            <<Lock(KeyShare(User(a.user))), Lock(KeyShare(Profile(a.profile)))>>

-----------------------------------------------------------------------------
(* Waiting. *)

At(r, do) == todo[r] # <<>> /\ Head(todo[r]).do = do

\* The locks that the statement of r has still to get.
Needs(r) ==
    LET step == Head(todo[r])
        wanted ==
          CASE At(r, "lock") -> {step.lock}
            [] At(r, "assign") -> {NoKeyUpdate(User(step.user))}
            [] At(r, "reset") ->
                  {NoKeyUpdate(User(u)) : u \in {x \in step.whom : default[x] = step.profile}}
            [] At(r, "cascade") -> {Update(row) : row \in step.rows \ gone}
            [] At(r, "restore") -> {KeyShare(Profile(Main[u])) : u \in resets[r]}
            [] OTHER -> {}
    IN  wanted \ held[r]

Holders(r, l) == {s \in Requests \ {r} : \E k \in held[s] : Blocks(l, k)}

\* r waits for s: none of the locks it needs is free, and s holds one.
Waits(r, s) ==
    /\ Needs(r) # {}
    /\ \A l \in Needs(r) : Holders(r, l) # {}
    /\ \E l \in Needs(r) : s \in Holders(r, l)

-----------------------------------------------------------------------------
(* Steps of a request. *)

Continue(r, steps) == todo' = [todo EXCEPT ![r] = steps \o Tail(@)]

Ask(r, a) ==
    /\ request[r] = None
    /\ \A q \in Requests : q < r => request[q] # None
    /\ request' = [request EXCEPT ![r] = a]
    /\ todo' = [todo EXCEPT ![r] = <<Connection>> \o Statements(a)]
    /\ UNCHANGED <<conns, held, resets, tables>>

\* The connections of the pool that are given out.
InUse == Cardinality(UNION {{r} \X (1 .. conns[r]) : r \in Requests})

Connect(r) ==
    /\ At(r, "connect")
    /\ InUse < PoolSize
    /\ conns' = [conns EXCEPT ![r] = @ + 1]
    /\ Continue(r, <<>>)
    /\ UNCHANGED <<request, held, resets, tables>>

\* A default that changes makes the foreign key look at the new profile.
ThenForeignKey(r) ==
    LET step == Head(todo[r])
    IN  IF At(r, "assign") /\ default[step.user] # step.profile
        THEN <<Lock(KeyShare(Profile(step.profile)))>> ELSE <<>>

\* One more lock, in any order within a statement.  A row that is gone cannot
\* be locked: the request is refused (Abort).
Grant(r) ==
    /\ \E l \in Needs(r) :
         /\ Holders(r, l) = {}
         /\ l.row \notin gone
         /\ held' = [held EXCEPT ![r] = @ \cup {l}]
         /\ resets' = IF At(r, "reset")
                      THEN [resets EXCEPT ![r] = @ \cup {l.row[2]}] ELSE resets
         /\ IF Needs(r) = {l} THEN Continue(r, ThenForeignKey(r)) ELSE UNCHANGED todo
    /\ UNCHANGED <<request, conns, tables>>

\* A statement that finds no row to lock, or only rows it has locked.
Pass(r) ==
    /\ \E do \in {"lock", "assign", "reset", "cascade", "restore"} : At(r, do)
    /\ Needs(r) = {}
    /\ Continue(r, ThenForeignKey(r))
    /\ UNCHANGED <<request, conns, held, resets, tables>>

CountFiles(r) ==
    /\ At(r, "count")
    /\ Task(Head(todo[r]).task) \notin gone
    /\ files[Head(todo[r]).task] < FileLimit
    /\ Continue(r, <<>>)
    /\ UNCHANGED <<request, conns, held, resets, tables>>

\* The connection goes back to the pool and every lock is released.
Close(r) ==
    /\ request' = [request EXCEPT ![r] = Done]
    /\ todo' = [todo EXCEPT ![r] = <<>>]
    /\ conns' = [conns EXCEPT ![r] = 0]
    /\ held' = [held EXCEPT ![r] = {}]
    /\ resets' = [resets EXCEPT ![r] = {}]

Deleted(a) ==
    CASE a.op = "delete_profile" ->
            {Profile(a.profile)} \cup {Task(t) : t \in {x \in Tasks : Home[x] = a.profile}}
                \cup {Invitation(i) : i \in {x \in Invites : Home[x] = a.profile}}
      [] a.op \in {"join_invite", "revoke_invite"} -> {Invitation(a.invite)}
      [] a.op = "remove_task" -> {Task(a.task)}
      [] OTHER -> {}

Commit(r) ==
    LET a == request[r]
    IN  /\ a \notin {None, Done}
        /\ todo[r] = <<>>
        /\ default' =
             [u \in Users |->
               IF u \in resets[r] THEN Main[u]
               ELSE IF a.op = "update_user" /\ a.user = u THEN a.profile
               ELSE default[u]]
        /\ files' =
             CASE a.op = "attach" -> [files EXCEPT ![a.task] = @ + 1]
               [] a.op = "remove_attachment" ->
                     [files EXCEPT ![a.task] = IF @ > 0 THEN @ - 1 ELSE 0]
               [] OTHER -> files
        /\ gone' = gone \cup Deleted(a)
        /\ Close(r)

\* A refusal, a lost connection, the deadlock detector or command_timeout: it
\* ends any request that has a connection.  Waiting for one has no time limit.
Abort(r) ==
    /\ conns[r] > 0
    /\ ~At(r, "connect")
    /\ Close(r)
    /\ UNCHANGED tables

Execute(r) == Grant(r) \/ Pass(r) \/ CountFiles(r) \/ Commit(r) \/ Abort(r)

Next ==
    \E r \in Requests :
        \/ \E a \in Asks : Ask(r, a)
        \/ Connect(r)
        \/ Execute(r)

\* Every request has been answered.
AllDone == (\A r \in Requests : request[r] = Done) /\ UNCHANGED vars

Spec == Init /\ [][Next \/ AllDone]_vars

-----------------------------------------------------------------------------
(* Properties. *)

\* A request has at most one connection, the pool gives out no more than it
\* has, and locks are held only by requests with a connection.
TypeOK ==
    /\ request \in [Requests -> Asks \cup {None, Done}]
    /\ conns \in [Requests -> 0..1]
    /\ InUse <= PoolSize
    /\ \A r \in Requests : held[r] # {} => conns[r] = 1
    /\ resets \in [Requests -> SUBSET Users]
    /\ default \in [Users -> Profiles]
    /\ files \in [Tasks -> Nat]

\* The profile whose calendar, tasks or members a request changes.
Written(a) ==
    CASE a.op \in {"edit", "create_task", "delete_profile", "remove_member"} -> {a.profile}
      [] a.op \in {"remove_task", "remove_attachment", "attach"} -> {Home[a.task]}
      [] a.op \in {"join_invite", "revoke_invite"} -> {Home[a.invite]}
      [] a.op = "legacy" -> {Main[a.user]}
      [] OTHER -> {}

\* r reads or writes p: what it reads there its commit relies on.
Inside(r, p) ==
    /\ request[r] \notin {None, Done}
    /\ p \in Written(request[r])
    /\ conns[r] > 0
    /\ \A i \in DOMAIN todo[r] : todo[r][i] # Lock(Update(Profile(p)))

\* The web application, whose requests lock the profile (access), and the bot,
\* whose commands lock a user first (unit_of_work), are never both at work on
\* one profile: a check of one is not undone by the other.
OneWriter ==
    \A r, s \in Requests : \A p \in Profiles :
        Inside(r, p) /\ Inside(s, p) => r = s

\* Uploads to one task at the same time do not pass the limit of files.
AtMostFive == \A t \in Tasks : files[t] <= FileLimit

\* r waits for ever unless one of S gives something up.
Stuck(r, S) ==
    \/ \E s \in S : Waits(r, s)
    \/ /\ At(r, "connect")
       /\ InUse >= PoolSize
       /\ \A s \in Requests : conns[s] > 0 => s \in S

\* Requests wait for each other only when two of them take away defaults
\* (remove_member, delete_profile): each then holds one profile and needs the
\* main profile of a user, to whom it gives that profile back, or his row.
\* Anything else, with the locks of the bot and of foreign keys and with the
\* pool used up, has someone who can go on.
OnlyResetsDeadlock ==
    \A S \in SUBSET Requests :
        S # {} /\ (\A r \in S : Stuck(r, S))
            => \E r, s \in S :
                 /\ r # s
                 /\ {request[r].op, request[s].op} \subseteq {"remove_member", "delete_profile"}
=============================================================================
