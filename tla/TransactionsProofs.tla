-------------------------- MODULE TransactionsProofs --------------------------
(***************************************************************************)
(* Proofs about Transactions: one writer per profile, the limit of files,  *)
(* locks and connections, and who may wait for whom, for every set of      *)
(* requests, users, profiles and tasks.                                    *)
(***************************************************************************)
EXTENDS Transactions, FiniteSetTheorems, SequenceTheorems, TLAPS

\* A statement list is a sequence, of whatever statements.
IsSeq(s) == \E S : s \in Seq(S)

LEMMA SeqEmpty == IsSeq(<<>>) /\ Len(<<>>) = 0
BY DEF IsSeq

LEMMA SeqOne == ASSUME NEW x PROVE IsSeq(<<x>>) /\ Len(<<x>>) = 1 /\ <<x>>[1] = x
<1>1. <<x>> \in Seq({x})
  OBVIOUS
<1> QED BY <1>1 DEF IsSeq

LEMMA SeqTail ==
  ASSUME NEW s, IsSeq(s), s # <<>>
  PROVE  /\ IsSeq(Tail(s)) /\ Len(s) \in Nat /\ Len(Tail(s)) = Len(s) - 1
         /\ DOMAIN s = 1..Len(s) /\ DOMAIN Tail(s) = 1..Len(Tail(s))
         /\ Head(s) = s[1]
         /\ \A i \in 1..Len(Tail(s)) : Tail(s)[i] = s[i + 1]
<1>1. PICK S : s \in Seq(S)
  BY DEF IsSeq
<1>2. Tail(s) \in Seq(S)
  BY <1>1
<1> QED BY <1>1, <1>2 DEF IsSeq

LEMMA SeqConcat ==
  ASSUME NEW s, NEW t, IsSeq(s), IsSeq(t)
  PROVE  /\ IsSeq(s \o t) /\ Len(s) \in Nat /\ Len(t) \in Nat
         /\ Len(s \o t) = Len(s) + Len(t)
         /\ DOMAIN s = 1..Len(s) /\ DOMAIN t = 1..Len(t)
         /\ DOMAIN (s \o t) = 1..(Len(s) + Len(t))
         /\ \A i \in 1..Len(s) : (s \o t)[i] = s[i]
         /\ \A i \in 1..Len(t) : (s \o t)[Len(s) + i] = t[i]
<1>1. PICK S : s \in Seq(S)
  BY DEF IsSeq
<1>2. PICK T : t \in Seq(T)
  BY DEF IsSeq
<1>3. s \in Seq(S \cup T) /\ t \in Seq(S \cup T)
  BY <1>1, <1>2
<1>4. s \o t \in Seq(S \cup T)
  BY <1>3
<1> QED BY <1>3, <1>4 DEF IsSeq

-----------------------------------------------------------------------------
(* What a request changes, it locks. *)

Active(r) == request[r] \notin {None, Done}

\* The lock on p is held or still to be taken.
WillLock(r, p) ==
    \/ Update(Profile(p)) \in held[r]
    \/ \E i \in DOMAIN todo[r] : todo[r][i] = Lock(Update(Profile(p)))

Shape ==
    /\ request = [r \in Requests |-> request[r]]
    /\ todo = [r \in Requests |-> todo[r]]
    /\ held = [r \in Requests |-> held[r]]
    /\ conns = [r \in Requests |-> conns[r]]
    /\ \A r \in Requests : IsSeq(todo[r])

Exclusive ==
    \A r, s \in Requests : \A p \in Profiles :
        Update(Profile(p)) \in held[r] /\ Update(Profile(p)) \in held[s] => r = s

LocksWhatItWrites ==
    \A r \in Requests : \A p \in Profiles :
        Active(r) /\ p \in Written(request[r]) => WillLock(r, p)

WriterInv == Shape /\ Exclusive /\ LocksWhatItWrites

\* A lock that stands first on a list stands on it.
LEMMA LockFirst ==
  ASSUME NEW l, NEW s, IsSeq(s)
  PROVE  IsSeq(<<Lock(l)>> \o s) /\ (\E i \in DOMAIN (<<Lock(l)>> \o s) : (<<Lock(l)>> \o s)[i] = Lock(l))
<1>1. IsSeq(<<Lock(l)>>) /\ Len(<<Lock(l)>>) = 1 /\ <<Lock(l)>>[1] = Lock(l)
  BY SeqOne
<1>2. /\ IsSeq(<<Lock(l)>> \o s)
      /\ Len(s) \in Nat
      /\ DOMAIN (<<Lock(l)>> \o s) = 1..(1 + Len(s))
      /\ (<<Lock(l)>> \o s)[1] = <<Lock(l)>>[1]
  <2> HIDE DEF Lock
  <2> QED BY <1>1, SeqConcat
<1> QED BY <1>1, <1>2

\* The list of a request that goes through access().
LEMMA AccessFirst ==
  ASSUME NEW p, NEW s, IsSeq(s), NEW list, list = Access(p) \o s
  PROVE  /\ IsSeq(list)
         /\ \E i \in DOMAIN list : list[i] = Lock(Update(Profile(p)))
BY LockFirst DEF Access

\* The list of a request that takes two or three locks.
LEMMA SeqTwo ==
  ASSUME NEW x, NEW y
  PROVE  IsSeq(<<x, y>>) /\ DOMAIN <<x, y>> = 1..2
<1>1. <<x, y>> \in Seq({x, y}) /\ DOMAIN <<x, y>> = 1..2
  OBVIOUS
<1>2. IsSeq(<<x, y>>)
  BY <1>1 DEF IsSeq
<1> QED BY <1>1, <1>2

LEMMA SeqThree ==
  ASSUME NEW x, NEW y, NEW z
  PROVE  IsSeq(<<x, y, z>>) /\ DOMAIN <<x, y, z>> = 1..3
<1>1. <<x, y, z>> \in Seq({x, y, z}) /\ DOMAIN <<x, y, z>> = 1..3
  OBVIOUS
<1>2. IsSeq(<<x, y, z>>)
  BY <1>1 DEF IsSeq
<1> QED BY <1>1, <1>2

\* Every request that writes a profile has its lock among its statements.
LEMMA StatementsLock ==
  ASSUME NEW a \in Asks
  PROVE  /\ IsSeq(Statements(a))
         /\ \A p \in Written(a) :
              \E i \in DOMAIN Statements(a) : Statements(a)[i] = Lock(Update(Profile(p)))
<1>0. a.op \in Operations
  BY TransactionAssumption
<1>a. CASE a.op = "view"
  <2>1. Statements(a) = <<>>
    BY <1>a DEF Statements
  <2>2. Written(a) = {}
    BY <1>a DEF Written
  <2>3. IsSeq(Statements(a))
    BY <2>1, SeqEmpty
  <2> QED BY <2>2, <2>3
<1>b. CASE a.op = "edit"
  <2>1. Statements(a) = <<Lock(Update(Profile(a.profile)))>>
    BY <1>b DEF Statements, Access
  <2>2. Written(a) = {a.profile}
    BY <1>b DEF Written
  <2>3. IsSeq(Statements(a)) /\ 1 \in DOMAIN Statements(a)
    BY <2>1, SeqOne
  <2> QED BY <2>1, <2>2, <2>3
<1>c. CASE a.op = "create_task"
  <2>1. Statements(a) = Access(a.profile) \o <<Lock(KeyShare(User(a.user)))>>
    BY <1>c DEF Statements
  <2>2. Written(a) = {a.profile}
    BY <1>c DEF Written
  <2>3. IsSeq(<<Lock(KeyShare(User(a.user)))>>)
    BY SeqOne
  <2>4. /\ IsSeq(Statements(a))
        /\ \E i \in DOMAIN Statements(a) : Statements(a)[i] = Lock(Update(Profile(a.profile)))
    BY <2>1, <2>3, AccessFirst
  <2> QED BY <2>2, <2>4
<1>d. CASE a.op = "remove_task"
  <2>1. Statements(a) = Access(Home[a.task]) \o <<Lock(Update(Task(a.task)))>>
    BY <1>d DEF Statements
  <2>2. Written(a) = {Home[a.task]}
    BY <1>d DEF Written
  <2>3. IsSeq(<<Lock(Update(Task(a.task)))>>)
    BY SeqOne
  <2>4. /\ IsSeq(Statements(a))
        /\ \E i \in DOMAIN Statements(a) : Statements(a)[i] = Lock(Update(Profile(Home[a.task])))
    BY <2>1, <2>3, AccessFirst
  <2> QED BY <2>2, <2>4
<1>e. CASE a.op = "attach"
  <2>1. Statements(a) = Access(Home[a.task]) \o <<Count(a.task), Lock(KeyShare(Task(a.task)))>>
    BY <1>e DEF Statements
  <2>2. Written(a) = {Home[a.task]}
    BY <1>e DEF Written
  <2>3. IsSeq(<<Count(a.task), Lock(KeyShare(Task(a.task)))>>)
    BY SeqTwo
  <2>4. /\ IsSeq(Statements(a))
        /\ \E i \in DOMAIN Statements(a) : Statements(a)[i] = Lock(Update(Profile(Home[a.task])))
    BY <2>1, <2>3, AccessFirst
  <2> QED BY <2>2, <2>4
<1>f. CASE a.op = "remove_attachment"
  <2>1. Statements(a) = <<Lock(Update(Profile(Home[a.task])))>>
    BY <1>f DEF Statements, Access
  <2>2. Written(a) = {Home[a.task]}
    BY <1>f DEF Written
  <2>3. IsSeq(Statements(a)) /\ 1 \in DOMAIN Statements(a)
    BY <2>1, SeqOne
  <2> QED BY <2>1, <2>2, <2>3
<1>g. CASE a.op = "join_invite"
  <2>1. Statements(a) = <<Lock(Update(Profile(Home[a.invite]))),
            Lock(Update(Invitation(a.invite))), Lock(KeyShare(User(a.user)))>>
    BY <1>g DEF Statements, Join
  <2>2. Written(a) = {Home[a.invite]}
    BY <1>g DEF Written
  <2>3. IsSeq(Statements(a)) /\ 1 \in DOMAIN Statements(a)
    BY <2>1, SeqThree
  <2> QED BY <2>1, <2>2, <2>3
<1>h. CASE a.op = "revoke_invite"
  <2>1. Statements(a) = Access(Home[a.invite]) \o <<Lock(Update(Invitation(a.invite)))>>
    BY <1>h DEF Statements
  <2>2. Written(a) = {Home[a.invite]}
    BY <1>h DEF Written
  <2>3. IsSeq(<<Lock(Update(Invitation(a.invite)))>>)
    BY SeqOne
  <2>4. /\ IsSeq(Statements(a))
        /\ \E i \in DOMAIN Statements(a) : Statements(a)[i] = Lock(Update(Profile(Home[a.invite])))
    BY <2>1, <2>3, AccessFirst
  <2> QED BY <2>2, <2>4
<1>i. CASE a.op = "delete_profile"
  <2>1. Statements(a) = Access(a.profile) \o Cascade(a.profile)
    BY <1>i DEF Statements
  <2>2. Written(a) = {a.profile}
    BY <1>i DEF Written
  <2>3. IsSeq(Cascade(a.profile))
    BY SeqThree DEF Cascade
  <2>4. /\ IsSeq(Statements(a))
        /\ \E i \in DOMAIN Statements(a) : Statements(a)[i] = Lock(Update(Profile(a.profile)))
    BY <2>1, <2>3, AccessFirst
  <2> QED BY <2>2, <2>4
<1>j. CASE a.op = "remove_member"
  <2>1. Statements(a) = Access(a.profile) \o <<Reset({a.user}, a.profile), Restore>>
    BY <1>j DEF Statements
  <2>2. Written(a) = {a.profile}
    BY <1>j DEF Written
  <2>3. IsSeq(<<Reset({a.user}, a.profile), Restore>>)
    BY SeqTwo
  <2>4. /\ IsSeq(Statements(a))
        /\ \E i \in DOMAIN Statements(a) : Statements(a)[i] = Lock(Update(Profile(a.profile)))
    BY <2>1, <2>3, AccessFirst
  <2> QED BY <2>2, <2>4
<1>k. CASE a.op = "update_user"
  <2>1. Statements(a) = <<Assign(a.user, a.profile)>>
    BY <1>k DEF Statements
  <2>2. Written(a) = {}
    BY <1>k DEF Written
  <2>3. IsSeq(Statements(a))
    BY <2>1, SeqOne
  <2> QED BY <2>2, <2>3
<1>l. CASE a.op = "create_profile"
  <2>1. Statements(a) = <<Lock(Update(User(a.user)))>>
    BY <1>l DEF Statements
  <2>2. Written(a) = {}
    BY <1>l DEF Written
  <2>3. IsSeq(Statements(a))
    BY <2>1, SeqOne
  <2> QED BY <2>2, <2>3
<1>m. CASE a.op = "legacy"
  <2>1. Statements(a) = <<Lock(Update(Advisory(a.user))), Lock(Update(Profile(Main[a.user])))>>
    BY <1>m DEF Statements, UnitOfWork
  <2>2. Written(a) = {Main[a.user]}
    BY <1>m DEF Written
  <2>3. IsSeq(Statements(a)) /\ 2 \in DOMAIN Statements(a)
    BY <2>1, SeqTwo
  <2> QED BY <2>1, <2>2, <2>3
<1>n. CASE a.op = "claim"
  <2>1. Statements(a) = <<Lock(KeyShare(User(a.user))), Lock(KeyShare(Profile(a.profile)))>>
    BY <1>n DEF Statements
  <2>2. Written(a) = {}
    BY <1>n DEF Written
  <2>3. IsSeq(Statements(a))
    BY <2>1, SeqTwo
  <2> QED BY <2>2, <2>3
<1> QED
  BY <1>0, <1>a, <1>b, <1>c, <1>d, <1>e, <1>f, <1>g, <1>h, <1>i, <1>j, <1>k, <1>l, <1>m, <1>n
     DEF Operations

-----------------------------------------------------------------------------
(* The steps of a request. *)

\* A statement that is done with leaves the list; a lock among the statements
\* is held or still on the list.
LEMMA ContinueKeeps ==
  ASSUME NEW r \in Requests, NEW steps, Shape, IsSeq(steps), todo[r] # <<>>,
         Continue(r, steps), held' = [q \in Requests |-> held'[q]],
         \A q \in Requests : held[q] \subseteq held'[q],
         \A l : Head(todo[r]) = Lock(l) => l \in held'[r]
  PROVE  /\ todo' = [q \in Requests |-> todo'[q]]
         /\ \A q \in Requests : IsSeq(todo'[q])
         /\ \A q \in Requests : \A p : WillLock(q, p) => WillLock(q, p)'
<1> DEFINE rest == Tail(todo[r])
<1>1. IsSeq(todo[r])
  BY DEF Shape
<1>2. /\ todo'[r] = steps \o rest
      /\ \A q \in Requests \ {r} : todo'[q] = todo[q]
      /\ todo' = [q \in Requests |-> todo'[q]]
  BY DEF Continue, Shape
<1>3. /\ IsSeq(rest) /\ Len(todo[r]) \in Nat /\ Len(rest) = Len(todo[r]) - 1
      /\ DOMAIN todo[r] = 1..Len(todo[r]) /\ Head(todo[r]) = todo[r][1]
      /\ \A i \in 1..Len(rest) : rest[i] = todo[r][i + 1]
  BY <1>1, SeqTail
<1> HIDE DEF rest
<1>4. /\ IsSeq(steps \o rest) /\ Len(steps) \in Nat /\ Len(rest) \in Nat
      /\ DOMAIN (steps \o rest) = 1..(Len(steps) + Len(rest))
      /\ \A i \in 1..Len(rest) : (steps \o rest)[Len(steps) + i] = rest[i]
  BY <1>3, SeqConcat
<1>5. \A q \in Requests : IsSeq(todo'[q])
  BY <1>2, <1>4 DEF Shape
<1>6. ASSUME NEW q \in Requests, NEW p, WillLock(q, p)
      PROVE  WillLock(q, p)'
  <2> DEFINE L == Update(Profile(p))
  <2>1. CASE L \in held[q]
    BY <2>1 DEF WillLock, Update, Profile
  <2>2. CASE q # r /\ L \notin held[q]
    BY <1>2, <1>6, <2>2 DEF WillLock, Update, Profile, Lock
  <2>3. CASE q = r /\ L \notin held[q]
    <3>1. PICK i \in 1..Len(todo[r]) : todo[r][i] = Lock(L)
      BY <1>3, <1>6, <2>3 DEF WillLock
    <3>2. CASE i = 1
      <4>1. L \in held'[r]
        BY <1>3, <3>1, <3>2
      <4> QED BY <2>3, <4>1 DEF WillLock, Update, Profile
    <3>3. CASE i # 1
      <4>1. i - 1 \in 1..Len(rest) /\ rest[i - 1] = Lock(L)
        BY <1>3, <1>4, <3>1, <3>3
      <4>2. /\ Len(steps) + (i - 1) \in DOMAIN todo'[r]
            /\ todo'[r][Len(steps) + (i - 1)] = Lock(L)
        BY <1>2, <1>4, <4>1
      <4> QED BY <2>3, <4>2 DEF WillLock, Update, Profile, Lock
    <3> QED BY <3>2, <3>3
  <2> QED BY <2>1, <2>2, <2>3
<1> QED BY <1>2, <1>5, <1>6

\* The statements that a foreign key adds are a list too.
LEMMA ForeignKeySeq == ASSUME NEW r PROVE IsSeq(ThenForeignKey(r))
BY SeqEmpty, SeqOne DEF ThenForeignKey

\* A lock that is the first statement is what the request needs, unless it
\* holds it.
LEMMA NeedsLock ==
  ASSUME NEW r, NEW l, todo[r] # <<>>, Head(todo[r]) = Lock(l)
  PROVE  At(r, "lock") /\ Needs(r) = {l} \ held[r]
<1>1. At(r, "lock") /\ Head(todo[r]).lock = l
  BY DEF At, Lock
<1>2. ~At(r, "assign") /\ ~At(r, "reset") /\ ~At(r, "cascade") /\ ~At(r, "restore")
  BY DEF At, Lock
<1> HIDE DEF At
<1> QED BY <1>1, <1>2 DEF Needs

LEMMA AskKeeps ==
  ASSUME WriterInv, NEW r \in Requests, NEW a \in Asks, Ask(r, a)
  PROVE  WriterInv'
<1>1. /\ request' = [q \in Requests |-> request'[q]]
      /\ request'[r] = a
      /\ \A q \in Requests \ {r} : request'[q] = request[q]
      /\ todo' = [q \in Requests |-> todo'[q]]
      /\ todo'[r] = <<Connection>> \o Statements(a)
      /\ \A q \in Requests \ {r} : todo'[q] = todo[q]
      /\ held' = held /\ conns' = conns
  BY DEF Ask, WriterInv, Shape
<1>2. IsSeq(<<Connection>>) /\ Len(<<Connection>>) = 1
  BY SeqOne
<1>3. IsSeq(Statements(a))
  BY StatementsLock
<1> DEFINE tail == Statements(a)
<1> HIDE DEF tail
<1>4. /\ IsSeq(<<Connection>> \o tail)
      /\ DOMAIN (<<Connection>> \o tail) = 1..(1 + Len(tail))
      /\ DOMAIN tail = 1..Len(tail) /\ Len(tail) \in Nat
      /\ \A i \in 1..Len(tail) : (<<Connection>> \o tail)[1 + i] = tail[i]
  BY <1>2, <1>3, SeqConcat DEF tail
<1>5. Shape'
  BY <1>1, <1>4 DEF WriterInv, Shape, tail
<1>6. Exclusive'
  BY <1>1 DEF WriterInv, Exclusive, Update, Profile
<1>7. ASSUME NEW q \in Requests, NEW p \in Profiles,
             Active(q)', p \in Written(request'[q])
      PROVE  WillLock(q, p)'
  <2>1. CASE q = r
    <3>1. PICK i \in 1..Len(tail) : tail[i] = Lock(Update(Profile(p)))
      BY <1>1, <1>4, <1>7, <2>1, StatementsLock DEF tail
    <3>2. 1 + i \in DOMAIN todo'[r] /\ todo'[r][1 + i] = Lock(Update(Profile(p)))
      BY <1>1, <1>4, <3>1 DEF tail
    <3> QED BY <2>1, <3>2 DEF WillLock, Update, Profile, Lock
  <2>2. CASE q # r
    <3>1. Active(q) /\ p \in Written(request[q])
      BY <1>1, <1>7, <2>2 DEF Active
    <3>2. WillLock(q, p)
      BY <3>1 DEF WriterInv, LocksWhatItWrites
    <3> QED BY <1>1, <2>2, <3>2 DEF WillLock, Update, Profile, Lock
  <2> QED BY <2>1, <2>2
<1>8. LocksWhatItWrites'
  BY <1>7 DEF LocksWhatItWrites, Written
<1> QED BY <1>5, <1>6, <1>8 DEF WriterInv

\* Going on with the list, the locks only growing, and never by the lock of a
\* profile that another request holds.
LEMMA GoingOnKeeps ==
  ASSUME WriterInv, NEW r \in Requests,
         UNCHANGED <<request, conns>>,
         held' = [q \in Requests |-> held'[q]],
         \A q \in Requests : held[q] \subseteq held'[q],
         todo' = [q \in Requests |-> todo'[q]],
         \A q \in Requests : IsSeq(todo'[q]),
         \A q \in Requests : \A p : WillLock(q, p) => WillLock(q, p)',
         Exclusive'
  PROVE  WriterInv'
<1>1. Shape'
  BY DEF WriterInv, Shape
<1>2. ASSUME NEW q \in Requests, NEW p \in Profiles,
             Active(q)', p \in Written(request'[q])
      PROVE  WillLock(q, p)'
  <2>1. Active(q) /\ p \in Written(request[q])
    BY <1>2 DEF Active
  <2> QED BY <2>1 DEF WriterInv, LocksWhatItWrites
<1>3. LocksWhatItWrites'
  BY <1>2 DEF LocksWhatItWrites, Written
<1> QED BY <1>1, <1>3 DEF WriterInv

\* Connect, Pass and CountFiles: no lock is taken.
LEMMA NoLockKeeps ==
  ASSUME WriterInv, NEW r \in Requests, NEW steps, IsSeq(steps), todo[r] # <<>>,
         Continue(r, steps), UNCHANGED <<request, held>>,
         \A l : Head(todo[r]) = Lock(l) => l \in held[r],
         conns' = [q \in Requests |-> conns'[q]]
  PROVE  WriterInv'
<1>1. /\ held' = [q \in Requests |-> held'[q]]
      /\ \A q \in Requests : held[q] \subseteq held'[q]
      /\ \A l : Head(todo[r]) = Lock(l) => l \in held'[r]
  BY DEF WriterInv, Shape
<1>2. /\ todo' = [q \in Requests |-> todo'[q]]
      /\ \A q \in Requests : IsSeq(todo'[q])
      /\ \A q \in Requests : \A p : WillLock(q, p) => WillLock(q, p)'
  BY <1>1, ContinueKeeps DEF WriterInv
<1>3. Exclusive'
  BY DEF WriterInv, Exclusive, Update, Profile
<1>4. Shape'
  BY <1>1, <1>2 DEF WriterInv, Shape
<1>5. ASSUME NEW q \in Requests, NEW p \in Profiles,
             Active(q)', p \in Written(request'[q])
      PROVE  WillLock(q, p)'
  <2>1. Active(q) /\ p \in Written(request[q])
    BY <1>5 DEF Active
  <2> QED BY <1>2, <2>1 DEF WriterInv, LocksWhatItWrites
<1>6. LocksWhatItWrites'
  BY <1>5 DEF LocksWhatItWrites, Written
<1> QED BY <1>3, <1>4, <1>6 DEF WriterInv

LEMMA ConnectKeeps ==
  ASSUME WriterInv, NEW r \in Requests, Connect(r)
  PROVE  WriterInv'
<1>1. todo[r] # <<>> /\ \A l : Head(todo[r]) # Lock(l)
  BY DEF Connect, At, Lock
<1>2. conns' = [q \in Requests |-> conns'[q]]
  BY DEF Connect, WriterInv, Shape
<1>3. Continue(r, <<>>) /\ UNCHANGED <<request, held>>
  BY DEF Connect
<1> QED BY <1>1, <1>2, <1>3, SeqEmpty, NoLockKeeps

LEMMA CountFilesKeeps ==
  ASSUME WriterInv, NEW r \in Requests, CountFiles(r)
  PROVE  WriterInv'
<1>1. todo[r] # <<>> /\ \A l : Head(todo[r]) # Lock(l)
  BY DEF CountFiles, At, Lock
<1>2. conns' = [q \in Requests |-> conns'[q]]
  BY DEF CountFiles, WriterInv, Shape
<1>3. Continue(r, <<>>) /\ UNCHANGED <<request, held>>
  BY DEF CountFiles
<1> QED BY <1>1, <1>2, <1>3, SeqEmpty, NoLockKeeps

LEMMA PassKeeps ==
  ASSUME WriterInv, NEW r \in Requests, Pass(r)
  PROVE  WriterInv'
<1>1. todo[r] # <<>> /\ Needs(r) = {}
  BY DEF Pass, At
<1>2. \A l : Head(todo[r]) = Lock(l) => l \in held[r]
  BY <1>1, NeedsLock
<1>3. conns' = [q \in Requests |-> conns'[q]]
  BY DEF Pass, WriterInv, Shape
<1>4. Continue(r, ThenForeignKey(r)) /\ UNCHANGED <<request, held>>
  BY DEF Pass
<1> QED BY <1>1, <1>2, <1>3, <1>4, ForeignKeySeq, NoLockKeeps

\* Grant: the lock is one that nobody else holds.
LEMMA GrantKeeps ==
  ASSUME WriterInv, NEW r \in Requests, Grant(r)
  PROVE  WriterInv'
<1>1. PICK l \in Needs(r) :
        /\ Holders(r, l) = {}
        /\ held' = [held EXCEPT ![r] = @ \cup {l}]
        /\ IF Needs(r) = {l} THEN Continue(r, ThenForeignKey(r)) ELSE UNCHANGED todo
  BY DEF Grant
<1>2. UNCHANGED <<request, conns>>
  BY DEF Grant
<1>3. /\ held' = [q \in Requests |-> held'[q]]
      /\ \A q \in Requests : held[q] \subseteq held'[q]
      /\ held'[r] = held[r] \cup {l}
      /\ \A q \in Requests \ {r} : held'[q] = held[q]
  BY <1>1 DEF WriterInv, Shape
<1>4. Exclusive'
  <2> SUFFICES ASSUME NEW q \in Requests, NEW s \in Requests, NEW p \in Profiles,
                      Update(Profile(p)) \in held'[q], Update(Profile(p)) \in held'[s],
                      q # s
               PROVE  FALSE
    BY DEF Exclusive, Update, Profile
  <2>1. ASSUME NEW o \in Requests \ {r}, Update(Profile(p)) \in held[o]
        PROVE  l # Update(Profile(p))
    <3>1. Blocks(Update(Profile(p)), Update(Profile(p)))
      BY DEF Blocks, Conflicting, Update
    <3> HIDE DEF Update, Profile
    <3> QED BY <1>1, <2>1, <3>1 DEF Holders
  <2>2. Update(Profile(p)) \in held[q] /\ Update(Profile(p)) \in held[s]
    <3> HIDE DEF Update, Profile
    <3> QED BY <1>3, <2>1
  <2> QED BY <2>2 DEF WriterInv, Exclusive
<1>5. CASE Needs(r) = {l}
  <2>1. Continue(r, ThenForeignKey(r))
    BY <1>1, <1>5
  <2>2. todo[r] # <<>>
    BY <1>1 DEF Needs, At
  <2>3. \A k : Head(todo[r]) = Lock(k) => k \in held'[r]
    BY <1>3, <1>5, <2>2, NeedsLock
  <2>4. /\ todo' = [q \in Requests |-> todo'[q]]
        /\ \A q \in Requests : IsSeq(todo'[q])
        /\ \A q \in Requests : \A p : WillLock(q, p) => WillLock(q, p)'
    BY <1>3, <2>1, <2>2, <2>3, ForeignKeySeq, ContinueKeeps DEF WriterInv
  <2> QED BY <1>2, <1>3, <1>4, <2>4, GoingOnKeeps
<1>6. CASE Needs(r) # {l}
  <2>1. UNCHANGED todo
    BY <1>1, <1>6
  <2>2. /\ todo' = [q \in Requests |-> todo'[q]]
        /\ \A q \in Requests : IsSeq(todo'[q])
    BY <2>1 DEF WriterInv, Shape
  <2>3. \A q \in Requests : \A p : WillLock(q, p) => WillLock(q, p)'
    BY <1>3, <2>1 DEF WillLock, Update, Profile, Lock
  <2> QED BY <1>2, <1>3, <1>4, <2>2, <2>3, GoingOnKeeps
<1> QED BY <1>5, <1>6

\* Commit and Abort: the request has nothing to do and holds nothing.
LEMMA CloseKeeps ==
  ASSUME WriterInv, NEW r \in Requests, Close(r)
  PROVE  WriterInv'
<1>1. /\ request' = [q \in Requests |-> request'[q]] /\ request'[r] = Done
      /\ \A q \in Requests \ {r} : request'[q] = request[q]
      /\ todo' = [q \in Requests |-> todo'[q]] /\ todo'[r] = <<>>
      /\ \A q \in Requests \ {r} : todo'[q] = todo[q]
      /\ held' = [q \in Requests |-> held'[q]] /\ held'[r] = {}
      /\ \A q \in Requests \ {r} : held'[q] = held[q]
      /\ conns' = [q \in Requests |-> conns'[q]]
  BY DEF Close, WriterInv, Shape
<1>2. Shape'
  BY <1>1, SeqEmpty DEF WriterInv, Shape
<1>3. Exclusive'
  <2> SUFFICES ASSUME NEW q \in Requests, NEW s \in Requests, NEW p \in Profiles,
                      Update(Profile(p)) \in held'[q], Update(Profile(p)) \in held'[s]
               PROVE  q = s
    BY DEF Exclusive, Update, Profile
  <2>1. Update(Profile(p)) \in held[q] /\ Update(Profile(p)) \in held[s]
    <3> HIDE DEF Update, Profile
    <3> QED BY <1>1
  <2> QED BY <2>1 DEF WriterInv, Exclusive
<1>4. ASSUME NEW q \in Requests, NEW p \in Profiles,
             Active(q)', p \in Written(request'[q])
      PROVE  WillLock(q, p)'
  <2>1. q # r /\ Active(q) /\ p \in Written(request[q])
    BY <1>1, <1>4 DEF Active
  <2>2. WillLock(q, p)
    BY <2>1 DEF WriterInv, LocksWhatItWrites
  <2> QED BY <1>1, <2>1, <2>2 DEF WillLock, Update, Profile, Lock
<1>5. LocksWhatItWrites'
  BY <1>4 DEF LocksWhatItWrites, Written
<1> QED BY <1>2, <1>3, <1>5 DEF WriterInv

LEMMA WriterInvInductive == WriterInv /\ [Next \/ AllDone]_vars => WriterInv'
<1> SUFFICES ASSUME WriterInv, [Next \/ AllDone]_vars
             PROVE  WriterInv'
  OBVIOUS
<1>1. ASSUME NEW r \in Requests, NEW a \in Asks, Ask(r, a)
      PROVE  WriterInv'
  BY <1>1, AskKeeps
<1>2. ASSUME NEW r \in Requests, Connect(r)
      PROVE  WriterInv'
  BY <1>2, ConnectKeeps
<1>3. ASSUME NEW r \in Requests, Grant(r)
      PROVE  WriterInv'
  BY <1>3, GrantKeeps
<1>4. ASSUME NEW r \in Requests, Pass(r)
      PROVE  WriterInv'
  BY <1>4, PassKeeps
<1>5. ASSUME NEW r \in Requests, CountFiles(r)
      PROVE  WriterInv'
  BY <1>5, CountFilesKeeps
<1>6. ASSUME NEW r \in Requests, Commit(r) \/ Abort(r)
      PROVE  WriterInv'
  <2>1. Close(r)
    BY <1>6 DEF Commit, Abort
  <2> QED BY <2>1, CloseKeeps
<1>7. CASE UNCHANGED vars
  BY <1>7 DEF vars, WriterInv, Shape, Exclusive, LocksWhatItWrites, Active, WillLock,
              Update, Profile, Lock, Written
<1> QED
  BY <1>1, <1>2, <1>3, <1>4, <1>5, <1>6, <1>7 DEF Next, Execute, AllDone

LEMMA WriterInvInit == Init => WriterInv
<1> SUFFICES ASSUME Init PROVE WriterInv
  OBVIOUS
<1>1. Shape
  BY SeqEmpty DEF Init, Shape
<1>2. Exclusive
  BY DEF Init, Exclusive
<1>3. LocksWhatItWrites
  BY DEF Init, LocksWhatItWrites, Active
<1> QED BY <1>1, <1>2, <1>3 DEF WriterInv

LEMMA WriterInvMeansOneWriter == WriterInv => OneWriter
<1> SUFFICES ASSUME WriterInv, NEW r \in Requests, NEW s \in Requests, NEW p \in Profiles,
                    Inside(r, p), Inside(s, p)
             PROVE  r = s
  BY DEF OneWriter
<1>1. ASSUME NEW q \in Requests, Inside(q, p)
      PROVE  Update(Profile(p)) \in held[q]
  <2>1. Active(q) /\ p \in Written(request[q])
    BY <1>1 DEF Inside, Active
  <2>2. WillLock(q, p)
    BY <2>1 DEF WriterInv, LocksWhatItWrites
  <2> QED BY <1>1, <2>2 DEF WillLock, Inside
<1> QED BY <1>1 DEF WriterInv, Exclusive

\* Two requests are never both at work on one profile (access(write=True),
\* planner/service.py:83-97, and unit_of_work, repositories/base.py:26-58):
\* whichever locks a request takes besides, and in which order, the lock of the
\* profile it changes is among them, and it keeps it until it is answered.
THEOREM SpecOneWriter == Spec => []OneWriter
<1>1. Init => WriterInv
  BY WriterInvInit
<1>2. WriterInv /\ [Next \/ AllDone]_vars => WriterInv'
  BY WriterInvInductive
<1>3. WriterInv => OneWriter
  BY WriterInvMeansOneWriter
<1> QED BY <1>1, <1>2, <1>3, PTL DEF Spec

-----------------------------------------------------------------------------
(* Uploads and the limit of files. *)

HomeLock(t) == Update(Profile(Home[t]))

\* How far an upload to t is, by what it has still to do: before the lock of
\* the profile, with the lock and before the count, or after a count that found
\* room, which nobody else can take away while it holds the lock.
UploadPhase(r, t) ==
    LET counting == <<Count(t), Lock(KeyShare(Task(t)))>>
    IN  \/ todo[r] = <<Connection, Lock(HomeLock(t)), Count(t), Lock(KeyShare(Task(t)))>>
        \/ todo[r] = <<Lock(HomeLock(t)), Count(t), Lock(KeyShare(Task(t)))>>
        \/ todo[r] = counting /\ HomeLock(t) \in held[r]
        \/ /\ todo[r] = <<Lock(KeyShare(Task(t)))>> \/ todo[r] = <<>>
           /\ HomeLock(t) \in held[r]
           /\ files[t] < FileLimit

Uploads ==
    \A r \in Requests :
        Active(r) /\ request[r].op = "attach"
            => \E t \in Tasks : t = request[r].task /\ UploadPhase(r, t)

RequestTypes == \A r \in Requests : request[r] \in Asks \cup {None, Done}

FilesInv ==
    /\ files \in [Tasks -> Nat]
    /\ AtMostFive
    /\ RequestTypes
    /\ Uploads

\* What holds the lock of t's profile has it to itself.
LEMMA HomeLockAlone ==
  ASSUME Exclusive, NEW t \in Tasks, NEW r \in Requests, NEW s \in Requests,
         HomeLock(t) \in held[r], HomeLock(t) \in held[s]
  PROVE  r = s
<1>1. Home[t] \in Profiles
  BY TransactionAssumption
<1> QED BY <1>1 DEF Exclusive, HomeLock

\* A step that leaves an upload's list and the files alone, and takes no lock
\* away from it, leaves it in its phase.
LEMMA PhaseStays ==
  ASSUME NEW r, NEW t, UploadPhase(r, t), todo'[r] = todo[r],
         held[r] \subseteq held'[r],
         HomeLock(t) \in held[r] => files'[t] <= files[t],
         files[t] \in Int, files'[t] \in Int, FileLimit \in Int
  PROVE  UploadPhase(r, t)'
<1>1. HomeLock(t) \in held[r] => HomeLock(t) \in held'[r]
  OBVIOUS
<1>2. HomeLock(t) \in held[r] /\ files[t] < FileLimit => files'[t] < FileLimit
  OBVIOUS
<1>3. HomeLock(t) = HomeLock(t)'
  BY DEF HomeLock, Update, Profile
<1> QED
  BY <1>1, <1>2, <1>3
     DEF UploadPhase, Count, Lock, Connection, KeyShare, Task, HomeLock, Update, Profile

\* The four lists of an upload, one statement after the other.
LEMMA UploadLists ==
  ASSUME NEW a, NEW b, NEW c, NEW d
  PROVE  /\ <<>> \o Tail(<<a, b, c, d>>) = <<b, c, d>> /\ Head(<<a, b, c, d>>) = a
         /\ <<>> \o Tail(<<b, c, d>>) = <<c, d>> /\ Head(<<b, c, d>>) = b
         /\ <<>> \o Tail(<<c, d>>) = <<d>> /\ Head(<<c, d>>) = c
         /\ <<>> \o Tail(<<d>>) = <<>> /\ Head(<<d>>) = d
OBVIOUS

LEMMA UploadList ==
  ASSUME NEW a, NEW b, NEW c, NEW d
  PROVE  <<a>> \o (<<b>> \o <<c, d>>) = <<a, b, c, d>>
<1> DEFINE S == {a, b, c, d}
<1>1. <<a>> \in Seq(S) /\ <<b>> \in Seq(S) /\ <<c, d>> \in Seq(S) /\ <<b, c, d>> \in Seq(S)
      /\ <<a, b, c, d>> \in Seq(S)
  OBVIOUS
<1>2. <<b>> \o <<c, d>> = <<b, c, d>>
  <2> DEFINE s == <<b>> \o <<c, d>>
  <2>1. s \in Seq(S) /\ Len(s) = 3 /\ s[1] = b /\ s[2] = c /\ s[3] = d
    BY <1>1
  <2> HIDE DEF s
  <2>2. \A i \in 1..Len(s) : s[i] = <<b, c, d>>[i]
    BY <2>1
  <2>3. s = <<b, c, d>>
    BY <1>1, <2>1, <2>2, SeqEqual
  <2> QED BY <2>3 DEF s
<1>3. <<a>> \o <<b, c, d>> = <<a, b, c, d>>
  <2> DEFINE s == <<a>> \o <<b, c, d>>
  <2>1. s \in Seq(S) /\ Len(s) = 4 /\ s[1] = a /\ s[2] = b /\ s[3] = c /\ s[4] = d
    BY <1>1
  <2> HIDE DEF s
  <2>2. \A i \in 1..Len(s) : s[i] = <<a, b, c, d>>[i]
    BY <2>1
  <2>3. s = <<a, b, c, d>>
    BY <1>1, <2>1, <2>2, SeqEqual
  <2> QED BY <2>3 DEF s
<1> QED BY <1>2, <1>3

\* An upload's own step: its statement is done.
LEMMA UploadGoesOn ==
  ASSUME NEW r \in Requests, NEW t \in Tasks, Shape, UploadPhase(r, t),
         todo[r] # <<>>, Continue(r, <<>>), files' = files,
         held[r] \subseteq held'[r],
         Head(todo[r]) = Lock(HomeLock(t)) => HomeLock(t) \in held'[r],
         Head(todo[r]) = Count(t) => files[t] < FileLimit
  PROVE  UploadPhase(r, t)'
<1> DEFINE C == Connection
           L == Lock(HomeLock(t))
           N == Count(t)
           K == Lock(KeyShare(Task(t)))
           phase == \/ todo'[r] = <<L, N, K>>
                    \/ todo'[r] = <<N, K>> /\ HomeLock(t) \in held'[r]
                    \/ /\ todo'[r] = <<K>> \/ todo'[r] = <<>>
                       /\ HomeLock(t) \in held'[r]
                       /\ files[t] < FileLimit
<1>1. todo'[r] = <<>> \o Tail(todo[r])
  BY DEF Continue, Shape
<1>2. phase
  <2>1. CASE todo[r] = <<C, L, N, K>>
    <3> HIDE DEF C, L, N, K
    <3> QED BY <1>1, <2>1, UploadLists
  <2>2. CASE todo[r] = <<L, N, K>>
    <3>1. Head(todo[r]) = L
      <4> HIDE DEF C, L, N, K
      <4> QED BY <2>2
    <3>2. HomeLock(t) \in held'[r]
      BY <3>1
    <3> HIDE DEF C, L, N, K
    <3> QED BY <1>1, <2>2, <3>2, UploadLists
  <2>3. CASE todo[r] = <<N, K>> /\ HomeLock(t) \in held[r]
    <3>1. Head(todo[r]) = N
      <4> HIDE DEF C, L, N, K
      <4> QED BY <2>3
    <3>2. HomeLock(t) \in held'[r] /\ files[t] < FileLimit
      BY <2>3, <3>1
    <3> HIDE DEF C, L, N, K
    <3> QED BY <1>1, <2>3, <3>2, UploadLists
  <2>4. CASE todo[r] = <<K>> /\ HomeLock(t) \in held[r] /\ files[t] < FileLimit
    <3>1. HomeLock(t) \in held'[r]
      BY <2>4
    <3> HIDE DEF C, L, N, K
    <3> QED BY <1>1, <2>4, <3>1, UploadLists
  <2> QED BY <2>1, <2>2, <2>3, <2>4 DEF UploadPhase
<1> QED
  BY <1>2 DEF UploadPhase, Count, Lock, KeyShare, Task, HomeLock, Update, Profile

\* A step of q leaves the uploads of the others where they are, and ends or
\* follows its own.
LEMMA OthersStay ==
  ASSUME WriterInv, FilesInv, NEW q \in Requests,
         \A r \in Requests \ {q} :
            request'[r] = request[r] /\ todo'[r] = todo[r] /\ held'[r] = held[r],
         files' \in [Tasks -> Nat], AtMostFive',
         request'[q] \in Asks \cup {None, Done},
         \A r \in Requests \ {q} : \A t \in Tasks :
            HomeLock(t) \in held[r] => files'[t] <= files[t],
         Active(q)' /\ request'[q].op = "attach"
            => \E t \in Tasks : t = request'[q].task /\ UploadPhase(q, t)'
  PROVE  FilesInv'
<1>1. RequestTypes'
  BY DEF FilesInv, RequestTypes
<1>2. ASSUME NEW r \in Requests, Active(r)', request'[r].op = "attach", r # q
      PROVE  \E t \in Tasks : t = request'[r].task /\ UploadPhase(r, t)'
  <2>1. request'[r] = request[r] /\ todo'[r] = todo[r] /\ held'[r] = held[r]
    BY <1>2
  <2>2. Active(r) /\ request[r].op = "attach"
    BY <1>2, <2>1 DEF Active
  <2>3. PICK t \in Tasks : t = request[r].task /\ UploadPhase(r, t)
    BY <2>2 DEF FilesInv, Uploads
  <2>4. HomeLock(t) \in held[r] => files'[t] <= files[t]
    BY <1>2
  <2>5. files[t] \in Int /\ files'[t] \in Int /\ FileLimit \in Int
    BY TransactionAssumption DEF FilesInv
  <2>6. UploadPhase(r, t)'
    BY <2>1, <2>3, <2>4, <2>5, PhaseStays
  <2>7. t = request'[r].task
    BY <2>1, <2>3
  <2> QED BY <2>6, <2>7
       DEF UploadPhase, Count, Lock, Connection, KeyShare, Task, HomeLock, Update, Profile
<1>3. Uploads'
  BY <1>2 DEF Uploads
<1> QED BY <1>1, <1>3 DEF FilesInv

LEMMA AskUpload ==
  ASSUME WriterInv, FilesInv, NEW r \in Requests, NEW a \in Asks, Ask(r, a)
  PROVE  FilesInv'
<1>1. /\ request'[r] = a
      /\ \A q \in Requests \ {r} : request'[q] = request[q]
      /\ todo'[r] = <<Connection>> \o Statements(a)
      /\ \A q \in Requests \ {r} : todo'[q] = todo[q]
      /\ held' = held /\ files' = files
  BY DEF Ask, WriterInv, Shape, tables
<1>2. files' \in [Tasks -> Nat] /\ AtMostFive'
  BY <1>1 DEF FilesInv, AtMostFive
<1>3. \A q \in Requests \ {r} : \A t \in Tasks :
         HomeLock(t) \in held[q] => files'[t] <= files[t]
  BY <1>1 DEF FilesInv
<1>4. ASSUME a.op = "attach"
      PROVE  a.task \in Tasks /\ UploadPhase(r, a.task)'
  <2> DEFINE L == Lock(HomeLock(a.task))
             N == Count(a.task)
             K == Lock(KeyShare(Task(a.task)))
  <2>1. Statements(a) = <<L>> \o <<N, K>>
    BY <1>4 DEF Statements, Access, HomeLock
  <2>2. todo'[r] = <<Connection, L, N, K>>
    <3> HIDE DEF L, N, K, Connection
    <3> QED BY <1>1, <2>1, UploadList
  <2>3. a.task \in Tasks
    BY <1>4, TransactionAssumption
  <2> QED BY <2>2, <2>3
       DEF UploadPhase, Count, Lock, Connection, KeyShare, Task, HomeLock, Update, Profile
<1>5. Active(r)' /\ request'[r].op = "attach"
         => \E t \in Tasks : t = request'[r].task /\ UploadPhase(r, t)'
  BY <1>1, <1>4
     DEF UploadPhase, Count, Lock, Connection, KeyShare, Task, HomeLock, Update, Profile
<1>6. \A q \in Requests \ {r} :
         request'[q] = request[q] /\ todo'[q] = todo[q] /\ held'[q] = held[q]
  BY <1>1
<1>7. request'[r] \in Asks \cup {None, Done}
  BY <1>1
<1> QED BY <1>2, <1>3, <1>5, <1>6, <1>7, OthersStay

\* Connect, Pass, CountFiles and Grant: the upload's list gets shorter, or a
\* lock is added to what it holds.
LEMMA StepUpload ==
  ASSUME WriterInv, FilesInv, NEW r \in Requests, NEW steps,
         todo[r] # <<>>, UNCHANGED <<request, files>>,
         held[r] \subseteq held'[r],
         \A q \in Requests \ {r} : held'[q] = held[q],
         \/ /\ Continue(r, steps)
            /\ Head(todo[r]).do \in {"connect", "lock", "count"} => steps = <<>>
            /\ \A l : Head(todo[r]) = Lock(l) => l \in held'[r]
            /\ \A t \in Tasks : Head(todo[r]) = Count(t) => files[t] < FileLimit
         \/ UNCHANGED todo
  PROVE  FilesInv'
<1>1. \A q \in Requests \ {r} :
         request'[q] = request[q] /\ todo'[q] = todo[q] /\ held'[q] = held[q]
  BY DEF Continue, WriterInv, Shape
<1>2. files' \in [Tasks -> Nat] /\ AtMostFive'
  BY DEF FilesInv, AtMostFive
<1>3. \A q \in Requests \ {r} : \A t \in Tasks :
         HomeLock(t) \in held[q] => files'[t] <= files[t]
  BY DEF FilesInv
<1>4. request'[r] \in Asks \cup {None, Done}
  BY DEF FilesInv, RequestTypes
<1>5. ASSUME Active(r)', request'[r].op = "attach"
      PROVE  \E t \in Tasks : t = request'[r].task /\ UploadPhase(r, t)'
  <2>1. Active(r) /\ request[r].op = "attach"
    BY <1>5 DEF Active
  <2>2. PICK t \in Tasks : t = request[r].task /\ UploadPhase(r, t)
    BY <2>1 DEF FilesInv, Uploads
  <2>3. CASE ~UNCHANGED todo
    <3>1. Head(todo[r]).do \in {"connect", "lock", "count"}
      <4> DEFINE L == Lock(HomeLock(t))
                 N == Count(t)
                 K == Lock(KeyShare(Task(t)))
      <4>1. Head(todo[r]) \in {Connection, L, N, K}
        <5>1. \/ todo[r] = <<Connection, L, N, K>> \/ todo[r] = <<L, N, K>>
              \/ todo[r] = <<N, K>> \/ todo[r] = <<K>>
          BY <2>2 DEF UploadPhase
        <5> HIDE DEF L, N, K, Connection
        <5> QED BY <5>1, UploadLists
      <4> QED BY <4>1 DEF Connection, Lock, Count
    <3>2. Continue(r, <<>>)
      BY <2>3, <3>1
    <3>3. UploadPhase(r, t)'
      BY <2>2, <2>3, <3>2, UploadGoesOn DEF WriterInv
    <3> QED BY <2>2, <3>3
         DEF UploadPhase, Count, Lock, Connection, KeyShare, Task, HomeLock, Update, Profile
  <2>4. CASE UNCHANGED todo
    <3>1. files[t] \in Int /\ files'[t] \in Int /\ FileLimit \in Int /\ files'[t] <= files[t]
      BY TransactionAssumption DEF FilesInv
    <3>2. todo'[r] = todo[r]
      BY <2>4
    <3>3. UploadPhase(r, t)'
      BY <2>2, <3>1, <3>2, PhaseStays
    <3> QED BY <2>2, <3>3
         DEF UploadPhase, Count, Lock, Connection, KeyShare, Task, HomeLock, Update, Profile
  <2> QED BY <2>3, <2>4
<1> QED BY <1>1, <1>2, <1>3, <1>4, <1>5, OthersStay

\* A foreign key adds statements to an assignment alone.
LEMMA ForeignKeyOfAssign ==
  ASSUME NEW r, Head(todo[r]).do \in {"connect", "lock", "count"}
  PROVE  ThenForeignKey(r) = <<>>
<1>1. ~At(r, "assign")
  BY DEF At
<1> QED BY <1>1 DEF ThenForeignKey

LEMMA ExecuteUpload ==
  ASSUME WriterInv, FilesInv, NEW r \in Requests,
         Connect(r) \/ Pass(r) \/ CountFiles(r) \/ Grant(r)
  PROVE  FilesInv'
<1>1. CASE Connect(r)
  <2>1. /\ todo[r] # <<>>
        /\ \A l : Head(todo[r]) # Lock(l)
        /\ \A t : Head(todo[r]) # Count(t)
    BY <1>1 DEF Connect, At, Lock, Count
  <2>2. Continue(r, <<>>) /\ UNCHANGED <<request, files>> /\ held' = held
    BY <1>1 DEF Connect, tables
  <2> QED BY <2>1, <2>2, StepUpload
<1>2. CASE CountFiles(r)
  <2>1. /\ todo[r] # <<>>
        /\ \A l : Head(todo[r]) # Lock(l)
        /\ \A t : Head(todo[r]) = Count(t) => files[t] < FileLimit
    BY <1>2 DEF CountFiles, At, Lock, Count
  <2>2. Continue(r, <<>>) /\ UNCHANGED <<request, files>> /\ held' = held
    BY <1>2 DEF CountFiles, tables
  <2> QED BY <2>1, <2>2, StepUpload
<1>3. CASE Pass(r)
  <2>1. /\ todo[r] # <<>> /\ Needs(r) = {}
        /\ \A t : Head(todo[r]) # Count(t)
    BY <1>3 DEF Pass, At, Count
  <2>2. \A l : Head(todo[r]) = Lock(l) => l \in held[r]
    BY <2>1, NeedsLock
  <2>3. Continue(r, ThenForeignKey(r)) /\ UNCHANGED <<request, files>> /\ held' = held
    BY <1>3 DEF Pass, tables
  <2> QED BY <2>1, <2>2, <2>3, ForeignKeyOfAssign, StepUpload
<1>4. CASE Grant(r)
  <2>1. PICK l \in Needs(r) :
          /\ held' = [held EXCEPT ![r] = @ \cup {l}]
          /\ IF Needs(r) = {l} THEN Continue(r, ThenForeignKey(r)) ELSE UNCHANGED todo
    BY <1>4 DEF Grant
  <2>2. /\ held'[r] = held[r] \cup {l}
        /\ \A q \in Requests \ {r} : held'[q] = held[q]
    BY <2>1 DEF WriterInv, Shape
  <2>3. UNCHANGED <<request, files>>
    BY <1>4 DEF Grant, tables
  <2>4. todo[r] # <<>> /\ \A t : Head(todo[r]) # Count(t)
    BY <2>1 DEF Needs, At, Count
  <2>5. CASE Needs(r) = {l}
    <3>1. \A k : Head(todo[r]) = Lock(k) => k \in held'[r]
      BY <2>2, <2>4, <2>5, NeedsLock
    <3>2. Continue(r, ThenForeignKey(r))
      BY <2>1, <2>5
    <3> QED BY <2>2, <2>3, <2>4, <3>1, <3>2, ForeignKeyOfAssign, StepUpload
  <2>6. CASE Needs(r) # {l}
    <3>1. UNCHANGED todo
      BY <2>1, <2>6
    <3> QED BY <2>2, <2>3, <2>4, <3>1, StepUpload
  <2> QED BY <2>5, <2>6
<1> QED BY <1>1, <1>2, <1>3, <1>4

LEMMA AbortUpload ==
  ASSUME WriterInv, FilesInv, NEW r \in Requests, Abort(r)
  PROVE  FilesInv'
<1>1. /\ request'[r] = Done
      /\ \A q \in Requests \ {r} :
            request'[q] = request[q] /\ todo'[q] = todo[q] /\ held'[q] = held[q]
      /\ files' = files
  BY DEF Abort, Close, WriterInv, Shape, tables
<1>2. files' \in [Tasks -> Nat] /\ AtMostFive'
  BY <1>1 DEF FilesInv, AtMostFive
<1>3. \A q \in Requests \ {r} : \A t \in Tasks :
         HomeLock(t) \in held[q] => files'[t] <= files[t]
  BY <1>1 DEF FilesInv
<1>4. ~Active(r)'
  BY <1>1 DEF Active
<1>5. request'[r] \in Asks \cup {None, Done}
  BY <1>1
<1> QED BY <1>1, <1>2, <1>3, <1>4, <1>5, OthersStay

\* Commit of an upload: there was room, and nobody else counted meanwhile.
LEMMA CommitUpload ==
  ASSUME WriterInv, FilesInv, NEW r \in Requests, Commit(r)
  PROVE  FilesInv'
<1> DEFINE a == request[r]
<1>1. /\ request'[r] = Done
      /\ \A q \in Requests \ {r} :
            request'[q] = request[q] /\ todo'[q] = todo[q] /\ held'[q] = held[q]
  BY DEF Commit, Close, WriterInv, Shape
<1>2. Active(r) /\ a \in Asks /\ todo[r] = <<>>
  BY DEF Commit, Active, FilesInv, RequestTypes
<1>3. ~Active(r)' /\ request'[r] \in Asks \cup {None, Done}
  BY <1>1 DEF Active
<1>4. CASE a.op = "attach"
  <2>1. PICK t \in Tasks : t = a.task /\ UploadPhase(r, t)
    BY <1>2, <1>4 DEF FilesInv, Uploads
  <2>2. HomeLock(t) \in held[r] /\ files[t] < FileLimit
    BY <1>2, <2>1 DEF UploadPhase
  <2>3. files' = [files EXCEPT ![t] = @ + 1]
    BY <1>4, <2>1 DEF Commit
  <2>4. files' \in [Tasks -> Nat] /\ AtMostFive'
    BY <2>2, <2>3, TransactionAssumption DEF FilesInv, AtMostFive
  <2>5. ASSUME NEW q \in Requests \ {r}, NEW x \in Tasks, HomeLock(x) \in held[q]
        PROVE  files'[x] <= files[x]
    <3>1. x # t
      BY <2>2, <2>5, HomeLockAlone DEF WriterInv
    <3> QED BY <2>3, <3>1 DEF FilesInv
  <2> QED BY <1>1, <1>3, <2>4, <2>5, OthersStay
<1>5. CASE a.op = "remove_attachment"
  <2>1. /\ a.task \in Tasks
        /\ files' = [files EXCEPT ![a.task] = IF @ > 0 THEN @ - 1 ELSE 0]
    BY <1>2, <1>5, TransactionAssumption DEF Commit
  <2>2. files' \in [Tasks -> Nat] /\ \A t \in Tasks : files'[t] <= files[t]
    BY <2>1 DEF FilesInv
  <2>3. AtMostFive'
    BY <2>2, TransactionAssumption DEF FilesInv, AtMostFive
  <2> QED BY <1>1, <1>3, <2>2, <2>3, OthersStay
<1>6. CASE a.op \notin {"attach", "remove_attachment"}
  <2>1. files' = files
    BY <1>6 DEF Commit
  <2>2. files' \in [Tasks -> Nat] /\ AtMostFive' /\ \A t \in Tasks : files'[t] <= files[t]
    BY <2>1 DEF FilesInv, AtMostFive
  <2> QED BY <1>1, <1>3, <2>2, OthersStay
<1> QED BY <1>4, <1>5, <1>6

LEMMA FilesInvInductive ==
  WriterInv /\ FilesInv /\ [Next \/ AllDone]_vars => FilesInv'
<1> SUFFICES ASSUME WriterInv, FilesInv, [Next \/ AllDone]_vars
             PROVE  FilesInv'
  OBVIOUS
<1>1. ASSUME NEW r \in Requests, NEW a \in Asks, Ask(r, a)
      PROVE  FilesInv'
  BY <1>1, AskUpload
<1>2. ASSUME NEW r \in Requests, Connect(r) \/ Pass(r) \/ CountFiles(r) \/ Grant(r)
      PROVE  FilesInv'
  BY <1>2, ExecuteUpload
<1>3. ASSUME NEW r \in Requests, Commit(r)
      PROVE  FilesInv'
  BY <1>3, CommitUpload
<1>4. ASSUME NEW r \in Requests, Abort(r)
      PROVE  FilesInv'
  BY <1>4, AbortUpload
<1>5. CASE UNCHANGED vars
  BY <1>5
     DEF vars, FilesInv, RequestTypes, AtMostFive, Uploads, Active, UploadPhase, Count,
         Lock, Connection, KeyShare, Task, HomeLock, Update, Profile
<1> QED BY <1>1, <1>2, <1>3, <1>4, <1>5 DEF Next, Execute, AllDone

\* Uploads at the same time leave a task within the limit of files
\* (add_attachment, planner/service.py:592-625): the count of one upload stays
\* true until its commit, because no other upload to that task gets the lock of
\* the profile in between.
THEOREM SpecAtMostFive == Spec => []AtMostFive
<1>1. Init => WriterInv /\ FilesInv
  <2>1. Init => FilesInv
    BY TransactionAssumption
       DEF Init, FilesInv, AtMostFive, RequestTypes, Uploads, Active
  <2> QED BY <2>1, WriterInvInit
<1>2. WriterInv /\ FilesInv /\ [Next \/ AllDone]_vars => (WriterInv /\ FilesInv)'
  BY WriterInvInductive, FilesInvInductive
<1>3. FilesInv => AtMostFive
  BY DEF FilesInv
<1> QED BY <1>1, <1>2, <1>3, PTL DEF Spec

-----------------------------------------------------------------------------
(* Where a request stands, and what it has locked there.                   *)

\* Those that take away defaults.
Resetters == {"remove_member", "delete_profile"}

\* What a request executes: its statements, and for a default that changes the
\* foreign key.
Script(a) == <<Connection>> \o Statements(a)
WithForeignKey(a) == Script(a) \o <<Lock(KeyShare(Profile(a.profile)))>>

\* The locks a statement takes.
Takes(st, k) ==
    \/ st.do = "lock" /\ k = st.lock
    \/ st.do = "assign" /\ k = NoKeyUpdate(User(st.user))
    \/ st.do = "reset" /\ \E u \in st.whom : k = NoKeyUpdate(User(u))
    \/ st.do = "cascade" /\ \E row \in st.rows : k = Update(row)
    \/ st.do = "restore" /\ \E u \in Users : k = KeyShare(Profile(Main[u]))

\* A statement that is over has left its lock.
Settled(r, st) ==
    /\ st.do = "lock" => st.lock \in held[r]
    /\ st.do = "assign" => NoKeyUpdate(User(st.user)) \in held[r]

\* r has executed the first n statements of a script and is at the next.
Position(r, script, n) ==
    /\ n \in 0 .. Len(script)
    /\ Len(todo[r]) = Len(script) - n
    /\ \A i \in 1 .. Len(todo[r]) : todo[r][i] = script[n + i]
    /\ \A i \in 1 .. n : Settled(r, script[i])
    /\ \A k \in held[r] : \E i \in 1 .. Len(script) :
           /\ i <= n \/ (i = n + 1 /\ script[i].do \in {"reset", "cascade", "restore"})
           /\ Takes(script[i], k)
    /\ conns[r] = IF n = 0 THEN 0 ELSE 1

\* The foreign key is looked at only when the default changes, and while its
\* row is locked it stays what it was.
Underway(r) ==
    LET a == request[r]
    IN  \/ \E n \in 0 .. Len(Script(a)) : Position(r, Script(a), n)
        \/ /\ a.op = "update_user" /\ default[a.user] # a.profile
           /\ \E n \in 2 .. 3 : Position(r, WithForeignKey(a), n)

Idle(r) == todo[r] = <<>> /\ conns[r] = 0 /\ held[r] = {} /\ resets[r] = {}

Requested ==
    /\ request \in [Requests -> Asks \cup {None, Done}]
    /\ resets \in [Requests -> SUBSET Users]
    /\ \A r \in Requests : IF Active(r) THEN Underway(r) ELSE Idle(r)
    /\ \A r \in Requests : \A u \in resets[r] : NoKeyUpdate(User(u)) \in held[r]

\* Nobody holds a lock that another's lock excludes.
Compatible ==
    \A r, s \in Requests : r # s =>
        \A l \in held[r], k \in held[s] : ~Blocks(l, k)

Pool ==
    /\ IsFiniteSet(UNION {{r} \X (1 .. conns[r]) : r \in Requests})
    /\ InUse <= PoolSize

LocksInv == Requested /\ Compatible /\ Pool

\* The rows that a profile owns.
Owned(row, p) ==
    \/ \E t \in Tasks : row = Task(t) /\ Home[t] = p
    \/ \E i \in Invites : row = Invitation(i) /\ Home[i] = p

\* The i-th statement of a script: which request may have it, and where.
OwnLock(a, s, i) ==
    /\ IF a.op = "legacy" THEN i = 3 /\ Len(s) = 3 ELSE i = 2
    /\ \E p \in Written(a) : s[i] = Lock(Update(Profile(p)))
UserShared(a, s, i) ==
    /\ \/ a.op \in {"create_task", "join_invite"} /\ i = Len(s) /\ i > 2
       \/ a.op = "claim" /\ i = 2 /\ Len(s) = 3 /\ s[3] = Lock(KeyShare(Profile(a.profile)))
    /\ s[i] = Lock(KeyShare(User(a.user)))
ProfileShared(a, s, i) ==
    /\ a.op \in {"claim", "update_user"} /\ i = 3 /\ Len(s) = 3
    /\ s[i] = Lock(KeyShare(Profile(a.profile)))
Assigned(a, s, i) ==
    a.op = "update_user" /\ i = 2 /\ Len(s) \in 2 .. 3 /\ s[i] = Assign(a.user, a.profile)
UserTaken(a, s, i) ==
    a.op = "create_profile" /\ i = 2 /\ Len(s) = 2 /\ s[i] = Lock(Update(User(a.user)))
AdvisoryTaken(a, s, i) ==
    /\ a.op = "legacy" /\ i = 2 /\ Len(s) = 3
    /\ s[2] = Lock(Update(Advisory(a.user)))
    /\ s[3] = Lock(Update(Profile(Main[a.user])))
OwnedTaken(a, s, i) ==
    /\ a.op \notin Resetters /\ i > 2
    /\ \E row, p : /\ Owned(row, p)
                   /\ s[i] \in {Lock(Update(row)), Lock(KeyShare(row))}
                   /\ s[2] = Lock(Update(Profile(p)))
Counted(a, s, i) == a.op = "attach" /\ i = 3 /\ s[i] = Count(a.task)
Resetting(a, s, i) ==
    /\ a.op \in Resetters /\ i > 2 /\ s[2] = Lock(Update(Profile(a.profile)))
    /\ \/ \E whom \in SUBSET Users : s[i] = Reset(whom, a.profile)
       \/ s[i].do = "cascade" /\ \A row \in s[i].rows : Owned(row, a.profile)
       \/ s[i] = Restore

Fits(a, s, i) ==
    \/ OwnLock(a, s, i) \/ UserShared(a, s, i) \/ ProfileShared(a, s, i)
    \/ Assigned(a, s, i) \/ UserTaken(a, s, i) \/ AdvisoryTaken(a, s, i)
    \/ OwnedTaken(a, s, i) \/ Counted(a, s, i) \/ Resetting(a, s, i)

Orderly(a, s) ==
    /\ IsSeq(s) /\ Len(s) \in Nat /\ Len(s) >= 1 /\ s[1] = Connection
    /\ \A i \in 2 .. Len(s) : Fits(a, s, i)

-----------------------------------------------------------------------------
(* Rows, locks and statements are told apart.                              *)

LEMMA Rows ==
    ASSUME NEW x, NEW y
    PROVE  /\ (Profile(x) = Profile(y) => x = y) /\ (User(x) = User(y) => x = y)
           /\ (Task(x) = Task(y) => x = y) /\ (Invitation(x) = Invitation(y) => x = y)
           /\ Profile(x) # User(y) /\ Profile(x) # Task(y) /\ Profile(x) # Invitation(y)
           /\ Profile(x) # Advisory(y) /\ User(x) # Task(y) /\ User(x) # Invitation(y)
           /\ User(x) # Advisory(y) /\ Task(x) # Invitation(y) /\ Task(x) # Advisory(y)
           /\ Invitation(x) # Advisory(y)
           /\ User(x)[2] = x
BY DEF Profile, User, Task, Invitation, Advisory

LEMMA Modes ==
    ASSUME NEW x, NEW y
    PROVE  /\ Update(x).row = x /\ NoKeyUpdate(x).row = x /\ KeyShare(x).row = x
           /\ (Update(x) = Update(y) => x = y) /\ (KeyShare(x) = KeyShare(y) => x = y)
           /\ (NoKeyUpdate(x) = NoKeyUpdate(y) => x = y)
           /\ Update(x) # KeyShare(y) /\ Update(x) # NoKeyUpdate(y)
           /\ NoKeyUpdate(x) # KeyShare(y)
BY DEF Update, NoKeyUpdate, KeyShare

\* Which locks exclude each other.
LEMMA Excludes ==
    ASSUME NEW x, NEW y
    PROVE  /\ (Blocks(Update(x), Update(y)) <=> x = y)
           /\ (Blocks(Update(x), NoKeyUpdate(y)) <=> x = y)
           /\ (Blocks(Update(x), KeyShare(y)) <=> x = y)
           /\ (Blocks(NoKeyUpdate(x), Update(y)) <=> x = y)
           /\ (Blocks(NoKeyUpdate(x), NoKeyUpdate(y)) <=> x = y)
           /\ ~Blocks(NoKeyUpdate(x), KeyShare(y))
           /\ (Blocks(KeyShare(x), Update(y)) <=> x = y)
           /\ ~Blocks(KeyShare(x), NoKeyUpdate(y)) /\ ~Blocks(KeyShare(x), KeyShare(y))
BY DEF Blocks, Conflicting, Update, NoKeyUpdate, KeyShare

LEMMA BlocksBoth == ASSUME NEW l, NEW k, Blocks(l, k) PROVE Blocks(k, l) /\ l.row = k.row
BY DEF Blocks, Conflicting

LEMMA StatementKinds ==
    ASSUME NEW l, NEW k, NEW t, NEW u, NEW p, NEW whom
    PROVE  /\ Lock(l).do = "lock" /\ Lock(l).lock = l /\ (Lock(l) = Lock(k) => l = k)
           /\ Connection.do = "connect" /\ Count(t).do = "count" /\ Count(t).task = t
           /\ Assign(u, p).do = "assign" /\ Assign(u, p).user = u /\ Assign(u, p).profile = p
           /\ Reset(whom, p).do = "reset" /\ Reset(whom, p).whom = whom
           /\ Reset(whom, p).profile = p /\ Restore.do = "restore"
BY DEF Lock, Connection, Count, Assign, Reset, Restore

-----------------------------------------------------------------------------
(* The statements of every request, in their order.                        *)

\* Short lists put together.
LEMMA OneAfter ==
    ASSUME NEW c, NEW s, IsSeq(s)
    PROVE  LET t == <<c>> \o s
           IN  /\ IsSeq(t) /\ Len(t) = 1 + Len(s) /\ Len(s) \in Nat /\ t[1] = c
               /\ \A i \in 1 .. Len(s) : t[1 + i] = s[i]
<1>1. IsSeq(<<c>>) /\ Len(<<c>>) = 1 /\ <<c>>[1] = c
  BY SeqOne
<1>2. QED
  BY <1>1, SeqConcat

LEMMA ListOne ==
    ASSUME NEW c
    PROVE  /\ IsSeq(<<c>> \o <<>>) /\ Len(<<c>> \o <<>>) = 1
           /\ (<<c>> \o <<>>)[1] = c
<1> DEFINE S == {c}
           s == <<c>> \o <<>>
<1>1. <<>> \in Seq(S) /\ <<c>> \in Seq(S)
  OBVIOUS
<1>2. s \in Seq(S) /\ Len(s) = 1 /\ s[1] = c
  BY <1>1
<1> HIDE DEF s
<1>3. IsSeq(s)
  BY <1>2 DEF IsSeq
<1> QED BY <1>2, <1>3 DEF s

LEMMA ListTwo ==
    ASSUME NEW c, NEW x
    PROVE  /\ IsSeq(<<c>> \o <<x>>) /\ Len(<<c>> \o <<x>>) = 2
           /\ (<<c>> \o <<x>>)[1] = c
           /\ (<<c>> \o <<x>>)[2] = x
<1> DEFINE S == {c, x}
           s == <<c>> \o <<x>>
<1>1. <<c>> \in Seq(S) /\ <<x>> \in Seq(S)
  OBVIOUS
<1>2. s \in Seq(S) /\ Len(s) = 2 /\ s[1] = c /\ s[2] = x
  BY <1>1
<1> HIDE DEF s
<1>3. IsSeq(s)
  BY <1>2 DEF IsSeq
<1> QED BY <1>2, <1>3 DEF s

LEMMA ListThree ==
    ASSUME NEW c, NEW x, NEW y
    PROVE  /\ IsSeq(<<c>> \o <<x, y>>) /\ Len(<<c>> \o <<x, y>>) = 3
           /\ (<<c>> \o <<x, y>>)[1] = c
           /\ (<<c>> \o <<x, y>>)[2] = x
           /\ (<<c>> \o <<x, y>>)[3] = y
<1> DEFINE S == {c, x, y}
           s == <<c>> \o <<x, y>>
<1>1. <<c>> \in Seq(S) /\ <<x, y>> \in Seq(S)
  OBVIOUS
<1>2. s \in Seq(S) /\ Len(s) = 3 /\ s[1] = c /\ s[2] = x /\ s[3] = y
  BY <1>1
<1> HIDE DEF s
<1>3. IsSeq(s)
  BY <1>2 DEF IsSeq
<1> QED BY <1>2, <1>3 DEF s

LEMMA ListFour ==
    ASSUME NEW c, NEW x, NEW y, NEW z
    PROVE  /\ IsSeq(<<c>> \o <<x, y, z>>) /\ Len(<<c>> \o <<x, y, z>>) = 4
           /\ (<<c>> \o <<x, y, z>>)[1] = c
           /\ (<<c>> \o <<x, y, z>>)[2] = x
           /\ (<<c>> \o <<x, y, z>>)[3] = y
           /\ (<<c>> \o <<x, y, z>>)[4] = z
<1> DEFINE S == {c, x, y, z}
           s == <<c>> \o <<x, y, z>>
<1>1. <<c>> \in Seq(S) /\ <<x, y, z>> \in Seq(S)
  OBVIOUS
<1>2. s \in Seq(S) /\ Len(s) = 4 /\ s[1] = c /\ s[2] = x /\ s[3] = y /\ s[4] = z
  BY <1>1
<1> HIDE DEF s
<1>3. IsSeq(s)
  BY <1>2 DEF IsSeq
<1> QED BY <1>2, <1>3 DEF s

LEMMA ListTwoOne ==
    ASSUME NEW c, NEW x, NEW y
    PROVE  /\ IsSeq(<<c>> \o (<<x>> \o <<y>>)) /\ Len(<<c>> \o (<<x>> \o <<y>>)) = 3
           /\ (<<c>> \o (<<x>> \o <<y>>))[1] = c
           /\ (<<c>> \o (<<x>> \o <<y>>))[2] = x
           /\ (<<c>> \o (<<x>> \o <<y>>))[3] = y
<1> DEFINE S == {c, x, y}
           s == <<c>> \o (<<x>> \o <<y>>)
<1>1. <<c>> \in Seq(S) /\ <<x>> \in Seq(S) /\ <<y>> \in Seq(S)
  OBVIOUS
<1>2. s \in Seq(S) /\ Len(s) = 3 /\ s[1] = c /\ s[2] = x /\ s[3] = y
  BY <1>1
<1> HIDE DEF s
<1>3. IsSeq(s)
  BY <1>2 DEF IsSeq
<1> QED BY <1>2, <1>3 DEF s

LEMMA ListTwoTwo ==
    ASSUME NEW c, NEW x, NEW y, NEW z
    PROVE  /\ IsSeq(<<c>> \o (<<x>> \o <<y, z>>)) /\ Len(<<c>> \o (<<x>> \o <<y, z>>)) = 4
           /\ (<<c>> \o (<<x>> \o <<y, z>>))[1] = c
           /\ (<<c>> \o (<<x>> \o <<y, z>>))[2] = x
           /\ (<<c>> \o (<<x>> \o <<y, z>>))[3] = y
           /\ (<<c>> \o (<<x>> \o <<y, z>>))[4] = z
<1> DEFINE S == {c, x, y, z}
           s == <<c>> \o (<<x>> \o <<y, z>>)
<1>1. <<c>> \in Seq(S) /\ <<x>> \in Seq(S) /\ <<y, z>> \in Seq(S)
  OBVIOUS
<1>2. s \in Seq(S) /\ Len(s) = 4 /\ s[1] = c /\ s[2] = x /\ s[3] = y /\ s[4] = z
  BY <1>1
<1> HIDE DEF s
<1>3. IsSeq(s)
  BY <1>2 DEF IsSeq
<1> QED BY <1>2, <1>3 DEF s

LEMMA ListTwoThree ==
    ASSUME NEW c, NEW x, NEW y, NEW z, NEW w
    PROVE  /\ IsSeq(<<c>> \o (<<x>> \o <<y, z, w>>)) /\ Len(<<c>> \o (<<x>> \o <<y, z, w>>)) = 5
           /\ (<<c>> \o (<<x>> \o <<y, z, w>>))[1] = c
           /\ (<<c>> \o (<<x>> \o <<y, z, w>>))[2] = x
           /\ (<<c>> \o (<<x>> \o <<y, z, w>>))[3] = y
           /\ (<<c>> \o (<<x>> \o <<y, z, w>>))[4] = z
           /\ (<<c>> \o (<<x>> \o <<y, z, w>>))[5] = w
<1> DEFINE S == {c, x, y, z, w}
           s == <<c>> \o (<<x>> \o <<y, z, w>>)
<1>1. <<c>> \in Seq(S) /\ <<x>> \in Seq(S) /\ <<y, z, w>> \in Seq(S)
  OBVIOUS
<1>2. s \in Seq(S) /\ Len(s) = 5 /\ s[1] = c /\ s[2] = x /\ s[3] = y /\ s[4] = z /\ s[5] = w
  BY <1>1
<1> HIDE DEF s
<1>3. IsSeq(s)
  BY <1>2 DEF IsSeq
<1> QED BY <1>2, <1>3 DEF s

LEMMA ListOneMore ==
    ASSUME NEW c, NEW x, NEW y
    PROVE  /\ IsSeq((<<c>> \o <<x>>) \o <<y>>) /\ Len((<<c>> \o <<x>>) \o <<y>>) = 3
           /\ ((<<c>> \o <<x>>) \o <<y>>)[1] = c
           /\ ((<<c>> \o <<x>>) \o <<y>>)[2] = x
           /\ ((<<c>> \o <<x>>) \o <<y>>)[3] = y
<1> DEFINE S == {c, x, y}
           s == (<<c>> \o <<x>>) \o <<y>>
<1>1. <<c>> \in Seq(S) /\ <<x>> \in Seq(S) /\ <<y>> \in Seq(S)
  OBVIOUS
<1>2. s \in Seq(S) /\ Len(s) = 3 /\ s[1] = c /\ s[2] = x /\ s[3] = y
  BY <1>1
<1> HIDE DEF s
<1>3. IsSeq(s)
  BY <1>2 DEF IsSeq
<1> QED BY <1>2, <1>3 DEF s

\* Every request executes its statements in one of the orders above.
LEMMA Scripts ==
    ASSUME NEW a \in Asks
    PROVE  Orderly(a, Script(a)) /\ (a.op = "update_user" => Len(Script(a)) = 2)
<1> DEFINE s == Script(a)
<1>0. a.op \in Operations
  BY TransactionAssumption
<1>1. CASE a.op = "view"
  <2>1. Statements(a) = <<>>
    BY <1>1 DEF Statements
  <2>2. IsSeq(s) /\ Len(s) = 1 /\ s[1] = Connection
    <3>1. s = <<Connection>> \o Statements(a)
      BY DEF Script
    <3> HIDE DEF s
    <3> QED BY <2>1, <3>1, ListOne
  <2> HIDE DEF s
  <2> QED BY <1>1, <2>2 DEF Orderly, s
<1>2. CASE a.op = "edit"
  <2>1. Statements(a) = <<Lock(Update(Profile(a.profile)))>>
    BY <1>2 DEF Statements, Access
  <2>2. IsSeq(s) /\ Len(s) = 2 /\ s[1] = Connection
        /\ s[2] = Lock(Update(Profile(a.profile)))
    <3>1. s = <<Connection>> \o Statements(a)
      BY DEF Script
    <3> HIDE DEF s
    <3> QED BY <2>1, <3>1, ListTwo
  <2> HIDE DEF s
  <2>3. Fits(a, s, 2)
    BY <1>2, <2>2 DEF Fits, OwnLock, Written
  <2>8. \A i \in 2 .. Len(s) : i = 2
    BY <2>2
  <2> QED BY <1>2, <2>2, <2>3, <2>8 DEF Orderly, s
<1>3. CASE a.op = "create_task"
  <2>1. Statements(a) = <<Lock(Update(Profile(a.profile)))>> \o <<Lock(KeyShare(User(a.user)))>>
    BY <1>3 DEF Statements, Access
  <2>2. IsSeq(s) /\ Len(s) = 3 /\ s[1] = Connection
        /\ s[2] = Lock(Update(Profile(a.profile)))
        /\ s[3] = Lock(KeyShare(User(a.user)))
    <3>1. s = <<Connection>> \o Statements(a)
      BY DEF Script
    <3> HIDE DEF s
    <3> QED BY <2>1, <3>1, ListTwoOne
  <2> HIDE DEF s
  <2>3. Fits(a, s, 2)
    BY <1>3, <2>2 DEF Fits, OwnLock, Written
  <2>4. Fits(a, s, 3)
    BY <1>3, <2>2 DEF Fits, UserShared
  <2>8. \A i \in 2 .. Len(s) : i = 2 \/ i = 3
    BY <2>2
  <2> QED BY <1>3, <2>2, <2>3, <2>4, <2>8 DEF Orderly, s
<1>4. CASE a.op = "remove_task"
  <2>1. Statements(a) = <<Lock(Update(Profile(Home[a.task])))>> \o <<Lock(Update(Task(a.task)))>>
    BY <1>4 DEF Statements, Access
  <2>2. IsSeq(s) /\ Len(s) = 3 /\ s[1] = Connection
        /\ s[2] = Lock(Update(Profile(Home[a.task])))
        /\ s[3] = Lock(Update(Task(a.task)))
    <3>1. s = <<Connection>> \o Statements(a)
      BY DEF Script
    <3> HIDE DEF s
    <3> QED BY <2>1, <3>1, ListTwoOne
  <2> HIDE DEF s
  <2>3. Fits(a, s, 2)
    BY <1>4, <2>2 DEF Fits, OwnLock, Written
  <2>4. Fits(a, s, 3)
    BY <1>4, <2>2, TransactionAssumption DEF Fits, OwnedTaken, Owned, Resetters
  <2>8. \A i \in 2 .. Len(s) : i = 2 \/ i = 3
    BY <2>2
  <2> QED BY <1>4, <2>2, <2>3, <2>4, <2>8 DEF Orderly, s
<1>5. CASE a.op = "remove_attachment"
  <2>1. Statements(a) = <<Lock(Update(Profile(Home[a.task])))>>
    BY <1>5 DEF Statements, Access
  <2>2. IsSeq(s) /\ Len(s) = 2 /\ s[1] = Connection
        /\ s[2] = Lock(Update(Profile(Home[a.task])))
    <3>1. s = <<Connection>> \o Statements(a)
      BY DEF Script
    <3> HIDE DEF s
    <3> QED BY <2>1, <3>1, ListTwo
  <2> HIDE DEF s
  <2>3. Fits(a, s, 2)
    BY <1>5, <2>2 DEF Fits, OwnLock, Written
  <2>8. \A i \in 2 .. Len(s) : i = 2
    BY <2>2
  <2> QED BY <1>5, <2>2, <2>3, <2>8 DEF Orderly, s
<1>6. CASE a.op = "attach"
  <2>1. Statements(a) = <<Lock(Update(Profile(Home[a.task])))>>
             \o <<Count(a.task), Lock(KeyShare(Task(a.task)))>>
    BY <1>6 DEF Statements, Access
  <2>2. IsSeq(s) /\ Len(s) = 4 /\ s[1] = Connection
        /\ s[2] = Lock(Update(Profile(Home[a.task])))
        /\ s[3] = Count(a.task)
        /\ s[4] = Lock(KeyShare(Task(a.task)))
    <3>1. s = <<Connection>> \o Statements(a)
      BY DEF Script
    <3> HIDE DEF s
    <3> QED BY <2>1, <3>1, ListTwoTwo
  <2> HIDE DEF s
  <2>3. Fits(a, s, 2)
    BY <1>6, <2>2 DEF Fits, OwnLock, Written
  <2>4. Fits(a, s, 3)
    BY <1>6, <2>2 DEF Fits, Counted
  <2>5. Fits(a, s, 4)
    BY <1>6, <2>2, TransactionAssumption DEF Fits, OwnedTaken, Owned, Resetters
  <2>8. \A i \in 2 .. Len(s) : i = 2 \/ i = 3 \/ i = 4
    BY <2>2
  <2> QED BY <1>6, <2>2, <2>3, <2>4, <2>5, <2>8 DEF Orderly, s
<1>7. CASE a.op = "join_invite"
  <2>1. Statements(a) = <<Lock(Update(Profile(Home[a.invite]))),
             Lock(Update(Invitation(a.invite))),
             Lock(KeyShare(User(a.user)))>>
    BY <1>7 DEF Statements, Join
  <2>2. IsSeq(s) /\ Len(s) = 4 /\ s[1] = Connection
        /\ s[2] = Lock(Update(Profile(Home[a.invite])))
        /\ s[3] = Lock(Update(Invitation(a.invite)))
        /\ s[4] = Lock(KeyShare(User(a.user)))
    <3>1. s = <<Connection>> \o Statements(a)
      BY DEF Script
    <3> HIDE DEF s
    <3> QED BY <2>1, <3>1, ListFour
  <2> HIDE DEF s
  <2>3. Fits(a, s, 2)
    BY <1>7, <2>2 DEF Fits, OwnLock, Written
  <2>4. Fits(a, s, 3)
    BY <1>7, <2>2, TransactionAssumption DEF Fits, OwnedTaken, Owned, Resetters
  <2>5. Fits(a, s, 4)
    BY <1>7, <2>2 DEF Fits, UserShared
  <2>8. \A i \in 2 .. Len(s) : i = 2 \/ i = 3 \/ i = 4
    BY <2>2
  <2> QED BY <1>7, <2>2, <2>3, <2>4, <2>5, <2>8 DEF Orderly, s
<1>8. CASE a.op = "revoke_invite"
  <2>1. Statements(a) = <<Lock(Update(Profile(Home[a.invite])))>>
             \o <<Lock(Update(Invitation(a.invite)))>>
    BY <1>8 DEF Statements, Access
  <2>2. IsSeq(s) /\ Len(s) = 3 /\ s[1] = Connection
        /\ s[2] = Lock(Update(Profile(Home[a.invite])))
        /\ s[3] = Lock(Update(Invitation(a.invite)))
    <3>1. s = <<Connection>> \o Statements(a)
      BY DEF Script
    <3> HIDE DEF s
    <3> QED BY <2>1, <3>1, ListTwoOne
  <2> HIDE DEF s
  <2>3. Fits(a, s, 2)
    BY <1>8, <2>2 DEF Fits, OwnLock, Written
  <2>4. Fits(a, s, 3)
    BY <1>8, <2>2, TransactionAssumption DEF Fits, OwnedTaken, Owned, Resetters
  <2>8. \A i \in 2 .. Len(s) : i = 2 \/ i = 3
    BY <2>2
  <2> QED BY <1>8, <2>2, <2>3, <2>4, <2>8 DEF Orderly, s
<1>9. CASE a.op = "remove_member"
  <2>1. Statements(a) = <<Lock(Update(Profile(a.profile)))>>
             \o <<Reset({a.user}, a.profile), Restore>>
    BY <1>9 DEF Statements, Access
  <2>2. IsSeq(s) /\ Len(s) = 4 /\ s[1] = Connection
        /\ s[2] = Lock(Update(Profile(a.profile)))
        /\ s[3] = Reset({a.user}, a.profile)
        /\ s[4] = Restore
    <3>1. s = <<Connection>> \o Statements(a)
      BY DEF Script
    <3> HIDE DEF s
    <3> QED BY <2>1, <3>1, ListTwoTwo
  <2> HIDE DEF s
  <2>3. Fits(a, s, 2)
    BY <1>9, <2>2 DEF Fits, OwnLock, Written
  <2>4. Fits(a, s, 3)
    BY <1>9, <2>2, TransactionAssumption DEF Fits, Resetting, Resetters
  <2>5. Fits(a, s, 4)
    BY <1>9, <2>2 DEF Fits, Resetting, Resetters
  <2>8. \A i \in 2 .. Len(s) : i = 2 \/ i = 3 \/ i = 4
    BY <2>2
  <2> QED BY <1>9, <2>2, <2>3, <2>4, <2>5, <2>8 DEF Orderly, s
<1>10. CASE a.op = "update_user"
  <2>1. Statements(a) = <<Assign(a.user, a.profile)>>
    BY <1>10 DEF Statements
  <2>2. IsSeq(s) /\ Len(s) = 2 /\ s[1] = Connection
        /\ s[2] = Assign(a.user, a.profile)
    <3>1. s = <<Connection>> \o Statements(a)
      BY DEF Script
    <3> HIDE DEF s
    <3> QED BY <2>1, <3>1, ListTwo
  <2> HIDE DEF s
  <2>3. Fits(a, s, 2)
    BY <1>10, <2>2 DEF Fits, Assigned
  <2>8. \A i \in 2 .. Len(s) : i = 2
    BY <2>2
  <2> QED BY <1>10, <2>2, <2>3, <2>8 DEF Orderly, s
<1>11. CASE a.op = "create_profile"
  <2>1. Statements(a) = <<Lock(Update(User(a.user)))>>
    BY <1>11 DEF Statements
  <2>2. IsSeq(s) /\ Len(s) = 2 /\ s[1] = Connection
        /\ s[2] = Lock(Update(User(a.user)))
    <3>1. s = <<Connection>> \o Statements(a)
      BY DEF Script
    <3> HIDE DEF s
    <3> QED BY <2>1, <3>1, ListTwo
  <2> HIDE DEF s
  <2>3. Fits(a, s, 2)
    BY <1>11, <2>2 DEF Fits, UserTaken
  <2>8. \A i \in 2 .. Len(s) : i = 2
    BY <2>2
  <2> QED BY <1>11, <2>2, <2>3, <2>8 DEF Orderly, s
<1>12. CASE a.op = "legacy"
  <2>1. Statements(a) = <<Lock(Update(Advisory(a.user))), Lock(Update(Profile(Main[a.user])))>>
    BY <1>12 DEF Statements, UnitOfWork
  <2>2. IsSeq(s) /\ Len(s) = 3 /\ s[1] = Connection
        /\ s[2] = Lock(Update(Advisory(a.user)))
        /\ s[3] = Lock(Update(Profile(Main[a.user])))
    <3>1. s = <<Connection>> \o Statements(a)
      BY DEF Script
    <3> HIDE DEF s
    <3> QED BY <2>1, <3>1, ListThree
  <2> HIDE DEF s
  <2>3. Fits(a, s, 2)
    BY <1>12, <2>2 DEF Fits, AdvisoryTaken
  <2>4. Fits(a, s, 3)
    BY <1>12, <2>2 DEF Fits, OwnLock, Written
  <2>8. \A i \in 2 .. Len(s) : i = 2 \/ i = 3
    BY <2>2
  <2> QED BY <1>12, <2>2, <2>3, <2>4, <2>8 DEF Orderly, s
<1>13. CASE a.op = "claim"
  <2>1. Statements(a) = <<Lock(KeyShare(User(a.user))), Lock(KeyShare(Profile(a.profile)))>>
    BY <1>13 DEF Statements
  <2>2. IsSeq(s) /\ Len(s) = 3 /\ s[1] = Connection
        /\ s[2] = Lock(KeyShare(User(a.user)))
        /\ s[3] = Lock(KeyShare(Profile(a.profile)))
    <3>1. s = <<Connection>> \o Statements(a)
      BY DEF Script
    <3> HIDE DEF s
    <3> QED BY <2>1, <3>1, ListThree
  <2> HIDE DEF s
  <2>3. Fits(a, s, 2)
    BY <1>13, <2>2 DEF Fits, UserShared
  <2>4. Fits(a, s, 3)
    BY <1>13, <2>2 DEF Fits, ProfileShared
  <2>8. \A i \in 2 .. Len(s) : i = 2 \/ i = 3
    BY <2>2
  <2> QED BY <1>13, <2>2, <2>3, <2>4, <2>8 DEF Orderly, s
<1>14. CASE a.op = "delete_profile"
  <2> DEFINE p == a.profile
             owned == {Task(t) : t \in {x \in Tasks : Home[x] = p}}
                        \cup {Invitation(i) : i \in {x \in Invites : Home[x] = p}}
             cascade == [do |-> "cascade", rows |-> owned]
  <2>1. Statements(a) = <<Lock(Update(Profile(p)))>> \o <<Reset(Users, p), cascade, Restore>>
    BY <1>14 DEF Statements, Access, Cascade
  <2>2. cascade.do = "cascade" /\ \A row \in cascade.rows : Owned(row, p)
    BY DEF Owned
  <2> HIDE DEF cascade
  <2>3. IsSeq(s) /\ Len(s) = 5 /\ s[1] = Connection
        /\ s[2] = Lock(Update(Profile(p))) /\ s[3] = Reset(Users, p)
        /\ s[4] = cascade /\ s[5] = Restore
    <3>1. s = <<Connection>> \o Statements(a)
      BY DEF Script
    <3> HIDE DEF s
    <3> QED BY <2>1, <3>1, ListTwoThree
  <2> HIDE DEF s
  <2>4. Fits(a, s, 2)
    BY <1>14, <2>3 DEF Fits, OwnLock, Written
  <2>5. Fits(a, s, 3) /\ Fits(a, s, 4) /\ Fits(a, s, 5)
    BY <1>14, <2>2, <2>3 DEF Fits, Resetting, Resetters
  <2>6. \A i \in 2 .. Len(s) : i = 2 \/ i = 3 \/ i = 4 \/ i = 5
    BY <2>3
  <2> QED BY <1>14, <2>3, <2>4, <2>5, <2>6 DEF Orderly, s
<1> QED
  BY <1>0, <1>1, <1>2, <1>3, <1>4, <1>5, <1>6, <1>7,
     <1>8, <1>9, <1>10, <1>11, <1>12, <1>13, <1>14 DEF Operations

LEMMA ForeignKeyScript ==
    ASSUME NEW a \in Asks, a.op = "update_user"
    PROVE  /\ Orderly(a, WithForeignKey(a)) /\ Len(WithForeignKey(a)) = 3
           /\ WithForeignKey(a)[2] = Assign(a.user, a.profile)
           /\ WithForeignKey(a)[3] = Lock(KeyShare(Profile(a.profile)))
           /\ Script(a)[2] = Assign(a.user, a.profile)
<1> DEFINE s == WithForeignKey(a)
<1>1. Statements(a) = <<Assign(a.user, a.profile)>>
  BY DEF Statements
<1>2. IsSeq(s) /\ Len(s) = 3 /\ s[1] = Connection
      /\ s[2] = Assign(a.user, a.profile) /\ s[3] = Lock(KeyShare(Profile(a.profile)))
  <2>1. s = (<<Connection>> \o <<Assign(a.user, a.profile)>>)
              \o <<Lock(KeyShare(Profile(a.profile)))>>
    BY <1>1 DEF Script, WithForeignKey
  <2> HIDE DEF s
  <2> QED BY <2>1, ListOneMore
<1>3. Script(a)[2] = Assign(a.user, a.profile)
  <2>1. Script(a) = <<Connection>> \o <<Assign(a.user, a.profile)>>
    BY <1>1 DEF Script
  <2> QED BY <2>1, ListTwo
<1> HIDE DEF s
<1>4. Fits(a, s, 2) /\ Fits(a, s, 3)
  BY <1>2 DEF Fits, Assigned, ProfileShared
<1>5. \A i \in 2 .. Len(s) : i = 2 \/ i = 3
  BY <1>2
<1>6. Orderly(a, s)
  BY <1>2, <1>4, <1>5 DEF Orderly
<1> QED BY <1>2, <1>3, <1>6 DEF s

-----------------------------------------------------------------------------
(* A request goes through its script.                                      *)

Stands(r, s, n) ==
    LET a == request[r]
    IN  /\ Position(r, s, n)
        /\ \/ s = Script(a)
           \/ /\ a.op = "update_user" /\ default[a.user] # a.profile
              /\ s = WithForeignKey(a) /\ n \in 2 .. 3

LEMMA UnderwayStands ==
    ASSUME NEW r, request[r] \in Asks
    PROVE  Underway(r) <=> \E s, n : Stands(r, s, n)
<1>1. ASSUME NEW s, NEW n, Stands(r, s, n)
      PROVE  Underway(r)
  <2>1. CASE s = Script(request[r])
    BY <1>1, <2>1 DEF Underway, Stands, Position
  <2>2. CASE s # Script(request[r])
    BY <1>1, <2>2 DEF Underway, Stands
  <2> QED BY <2>1, <2>2
<1>2. ASSUME Underway(r)
      PROVE  \E s, n : Stands(r, s, n)
  BY <1>2 DEF Underway, Stands
<1> QED BY <1>1, <1>2

\* Where an active request stands: its script is in order.
LEMMA Placed ==
    ASSUME Requested, NEW r \in Requests, Active(r)
    PROVE  /\ request[r] \in Asks
           /\ \E s, n : Stands(r, s, n)
           /\ \A s, n : Stands(r, s, n) =>
                /\ Orderly(request[r], s) /\ Len(s) \in Nat /\ n \in 0 .. Len(s)
                /\ IsSeq(s) /\ Len(s) >= 1 /\ s[1] = Connection
                /\ request[r].op = "update_user" =>
                     /\ Len(s) = 2 \/ (Len(s) = 3 /\ n \in 2 .. 3)
                     /\ s[2] = Assign(request[r].user, request[r].profile)
<1>1. request[r] \in Asks /\ Underway(r)
  BY DEF Requested, Active
<1>2. \E s, n : Stands(r, s, n)
  BY <1>1, UnderwayStands
<1>3. ASSUME NEW s, NEW n, Stands(r, s, n)
      PROVE  /\ Orderly(request[r], s) /\ n \in 0 .. Len(s)
             /\ request[r].op = "update_user" =>
                  /\ Len(s) = 2 \/ (Len(s) = 3 /\ n \in 2 .. 3)
                  /\ s[2] = Assign(request[r].user, request[r].profile)
  <2>1. n \in 0 .. Len(s)
    BY <1>3 DEF Stands, Position
  <2>2. CASE s = Script(request[r])
    <3>1. Orderly(request[r], s) /\ (request[r].op = "update_user" => Len(s) = 2)
      BY <1>1, <2>2, Scripts
    <3>2. request[r].op = "update_user" => s[2] = Assign(request[r].user, request[r].profile)
      BY <1>1, <2>2, ForeignKeyScript
    <3> QED BY <2>1, <3>1, <3>2
  <2>3. CASE s # Script(request[r])
    <3>1. request[r].op = "update_user" /\ s = WithForeignKey(request[r]) /\ n \in 2 .. 3
      BY <1>3, <2>3 DEF Stands
    <3>2. /\ Orderly(request[r], s) /\ Len(s) = 3
          /\ s[2] = Assign(request[r].user, request[r].profile)
      BY <1>1, <3>1, ForeignKeyScript
    <3> QED BY <2>1, <3>1, <3>2
  <2> QED BY <2>2, <2>3
<1>4. \A s : Orderly(request[r], s) =>
          IsSeq(s) /\ Len(s) \in Nat /\ Len(s) >= 1 /\ s[1] = Connection
  BY DEF Orderly
<1> QED BY <1>1, <1>2, <1>3, <1>4

\* The statement a request is at.
LEMMA NextStatement ==
    ASSUME NEW r, NEW s, NEW n, Position(r, s, n), IsSeq(todo[r]), Len(s) \in Nat
    PROVE  /\ n \in Nat /\ n <= Len(s) /\ Len(todo[r]) \in Nat
           /\ todo[r] = <<>> => n = Len(s)
           /\ todo[r] # <<>> => n < Len(s) /\ Head(todo[r]) = s[n + 1]
<1>1. n \in Nat /\ n <= Len(s) /\ Len(todo[r]) = Len(s) - n
  BY DEF Position
<1>2. CASE todo[r] = <<>>
  BY <1>1, <1>2, SeqEmpty
<1>3. CASE todo[r] # <<>>
  <2>1. Len(todo[r]) \in Nat /\ Len(todo[r]) # 0 /\ Head(todo[r]) = todo[r][1]
    <3>1. PICK S : todo[r] \in Seq(S)
      BY DEF IsSeq
    <3> QED BY <1>3, <3>1
  <2> QED BY <1>1, <2>1 DEF Position
<1> QED BY <1>1, <1>2, <1>3

\* A statement is over.
LEMMA PositionMoves ==
    ASSUME NEW r, NEW s, NEW n, Position(r, s, n), IsSeq(todo[r]), Len(s) \in Nat,
           todo[r] # <<>>, todo'[r] = <<>> \o Tail(todo[r]),
           held[r] \subseteq held'[r],
           \A k \in held'[r] \ held[r] : Takes(Head(todo[r]), k),
           Head(todo[r]).do = "lock" => Head(todo[r]).lock \in held'[r],
           Head(todo[r]).do = "assign" => NoKeyUpdate(User(Head(todo[r]).user)) \in held'[r],
           conns'[r] = 1
    PROVE  Position(r, s, n + 1)'
<1> DEFINE tail == Tail(todo[r])
<1>1. n \in Nat /\ n < Len(s) /\ Head(todo[r]) = s[n + 1]
  BY NextStatement
<1>2. /\ IsSeq(tail) /\ Len(todo[r]) \in Nat /\ Len(tail) = Len(todo[r]) - 1
      /\ \A i \in 1 .. Len(tail) : tail[i] = todo[r][i + 1]
  BY SeqTail
<1> HIDE DEF tail
<1>3. Len(<<>> \o tail) = Len(tail) /\ \A i \in 1 .. Len(tail) : (<<>> \o tail)[i] = tail[i]
  BY <1>2, SeqEmpty, SeqConcat
<1>4. /\ n + 1 \in 0 .. Len(s) /\ Len(todo'[r]) = Len(s) - (n + 1)
      /\ \A i \in 1 .. Len(todo'[r]) : todo'[r][i] = s[(n + 1) + i]
  BY <1>1, <1>2, <1>3 DEF Position, tail
<1>5. ASSUME NEW i \in 1 .. n + 1
      PROVE  Settled(r, s[i])'
  <2>1. CASE i = n + 1
    BY <1>1, <2>1 DEF Settled
  <2>2. CASE i # n + 1
    <3>1. Settled(r, s[i])
      BY <1>1, <2>2 DEF Position
    <3> QED BY <3>1 DEF Settled
  <2> QED BY <2>1, <2>2
<1>6. ASSUME NEW k \in held'[r]
      PROVE  \E i \in 1 .. Len(s) : i <= n + 1 /\ Takes(s[i], k)
  <2>1. CASE k \in held[r]
    <3>1. PICK i \in 1 .. Len(s) : i <= n + 1 /\ Takes(s[i], k)
      BY <1>1, <2>1 DEF Position
    <3> QED BY <3>1
  <2>2. CASE k \notin held[r]
    BY <1>1, <2>2
  <2> QED BY <2>1, <2>2
<1> QED BY <1>1, <1>4, <1>5, <1>6 DEF Position

\* One more lock of a statement that takes several.
LEMMA PositionStays ==
    ASSUME NEW r, NEW s, NEW n, Position(r, s, n), Len(s) \in Nat,
           todo'[r] = todo[r], conns'[r] = conns[r], held[r] \subseteq held'[r],
           \A k \in held'[r] \ held[r] :
             /\ n < Len(s) /\ s[n + 1].do \in {"reset", "cascade", "restore"}
             /\ Takes(s[n + 1], k)
    PROVE  Position(r, s, n)'
<1>1. n \in Nat
  BY DEF Position
<1>2. ASSUME NEW i \in 1 .. n
      PROVE  Settled(r, s[i])'
  BY <1>2 DEF Position, Settled
<1>3. ASSUME NEW k \in held'[r]
      PROVE  \E i \in 1 .. Len(s) :
                /\ i <= n \/ (i = n + 1 /\ s[i].do \in {"reset", "cascade", "restore"})
                /\ Takes(s[i], k)
  <2>1. CASE k \in held[r]
    BY <2>1 DEF Position
  <2>2. CASE k \notin held[r]
    <3>1. n + 1 \in 1 .. Len(s)
      BY <1>1, <2>2
    <3> QED BY <2>2, <3>1
  <2> QED BY <2>1, <2>2
<1> QED BY <1>2, <1>3 DEF Position

\* The default changes: the foreign key is the statement that remains.
LEMMA PositionAtForeignKey ==
    ASSUME NEW r, NEW a \in Asks, a.op = "update_user",
           Position(r, Script(a), 1), IsSeq(todo[r]), Len(Script(a)) = 2, todo[r] # <<>>,
           todo'[r] = <<Lock(KeyShare(Profile(a.profile)))>> \o Tail(todo[r]),
           held[r] \subseteq held'[r],
           \A k \in held'[r] \ held[r] : Takes(Head(todo[r]), k),
           Head(todo[r]).do = "lock" => Head(todo[r]).lock \in held'[r],
           Head(todo[r]).do = "assign" => NoKeyUpdate(User(Head(todo[r]).user)) \in held'[r],
           conns'[r] = 1
    PROVE  Position(r, WithForeignKey(a), 2)'
<1> DEFINE tail == Tail(todo[r])
           x == Lock(KeyShare(Profile(a.profile)))
           s == WithForeignKey(a)
<1>1. Head(todo[r]) = Script(a)[2]
  BY NextStatement
<1>2. Len(todo[r]) = 1 /\ IsSeq(tail) /\ Len(tail) = 0
  BY SeqTail DEF Position
<1>3. s[1] = Connection /\ s[2] = Script(a)[2] /\ s[3] = x /\ Len(s) = 3
  BY ForeignKeyScript DEF Orderly
<1>4. Script(a)[1] = Connection
  BY Scripts DEF Orderly
<1> HIDE DEF tail, s, x
<1>5. IsSeq(<<x>>) /\ Len(<<x>>) = 1 /\ <<x>>[1] = x
  BY SeqOne
<1>6. Len(<<x>> \o tail) = 1 /\ (<<x>> \o tail)[1] = x
  BY <1>2, <1>5, SeqConcat
<1>7. Len(todo'[r]) = 1 /\ todo'[r][1] = x
  BY <1>6 DEF tail, x
<1>8. Settled(r, s[1])' /\ Settled(r, s[2])'
  <2>1. Settled(r, s[2])'
    BY <1>1, <1>3 DEF Settled
  <2>2. Settled(r, s[1])'
    BY <1>3 DEF Settled, Connection
  <2> QED BY <2>1, <2>2
<1>9. ASSUME NEW k \in held'[r]
      PROVE  Takes(s[1], k) \/ Takes(s[2], k)
  <2>1. CASE k \in held[r]
    <3>1. PICK i \in 1 .. 2 : Takes(Script(a)[i], k)
      BY <2>1 DEF Position
    <3> QED BY <1>3, <1>4, <3>1
  <2>2. CASE k \notin held[r]
    BY <1>1, <1>3, <2>2
  <2> QED BY <2>1, <2>2
<1>10. /\ 2 \in 0 .. Len(s) /\ Len(todo'[r]) = Len(s) - 2
       /\ \A i \in 1 .. Len(todo'[r]) : todo'[r][i] = s[2 + i]
  BY <1>3, <1>7
<1>11. \A i \in 1 .. 2 : Settled(r, s[i])'
  BY <1>8
<1>12. \A k \in held'[r] : \E i \in 1 .. Len(s) : i <= 2 /\ Takes(s[i], k)
  BY <1>3, <1>9
<1> QED BY <1>10, <1>11, <1>12 DEF Position, s

-----------------------------------------------------------------------------
(* What a statement needs, it takes.                                       *)

LEMMA NeedsTaken ==
    ASSUME NEW r, NEW l \in Needs(r), resets[r] \subseteq Users
    PROVE  /\ todo[r] # <<>> /\ l \notin held[r] /\ Takes(Head(todo[r]), l)
           /\ Head(todo[r]).do \in {"lock", "assign", "reset", "cascade", "restore"}
           /\ Head(todo[r]).do = "reset" => \E u \in Head(todo[r]).whom :
                 l = NoKeyUpdate(User(u)) /\ default[u] = Head(todo[r]).profile
           /\ Head(todo[r]).do \in {"lock", "assign"} => Needs(r) = {l}
           /\ Head(todo[r]).do = "lock" => l = Head(todo[r]).lock
           /\ Head(todo[r]).do = "assign" => l = NoKeyUpdate(User(Head(todo[r]).user))
<1> DEFINE st == Head(todo[r])
<1>1. CASE At(r, "lock")
  <2>1. st.do = "lock" /\ l = st.lock /\ Needs(r) = {l} /\ l \notin held[r] /\ todo[r] # <<>>
    BY <1>1 DEF Needs, At
  <2> QED BY <2>1 DEF Takes
<1>2. CASE At(r, "assign")
  <2>1. /\ st.do = "assign" /\ l = NoKeyUpdate(User(st.user)) /\ Needs(r) = {l}
        /\ l \notin held[r] /\ todo[r] # <<>>
    BY <1>2 DEF Needs, At
  <2> QED BY <2>1 DEF Takes
<1>3. CASE At(r, "reset")
  <2>1. /\ st.do = "reset" /\ l \notin held[r] /\ todo[r] # <<>>
        /\ \E u \in st.whom : l = NoKeyUpdate(User(u)) /\ default[u] = st.profile
    BY <1>3 DEF Needs, At
  <2> QED BY <2>1 DEF Takes
<1>4. CASE At(r, "cascade")
  <2>1. /\ st.do = "cascade" /\ l \notin held[r] /\ todo[r] # <<>>
        /\ \E row \in st.rows : l = Update(row)
    BY <1>4 DEF Needs, At
  <2> QED BY <2>1 DEF Takes
<1>5. CASE At(r, "restore")
  <2>1. /\ st.do = "restore" /\ l \notin held[r] /\ todo[r] # <<>>
        /\ \E u \in Users : l = KeyShare(Profile(Main[u]))
    BY <1>5 DEF Needs, At
  <2> QED BY <2>1 DEF Takes
<1>6. ~(/\ ~At(r, "lock") /\ ~At(r, "assign") /\ ~At(r, "reset") /\ ~At(r, "cascade")
        /\ ~At(r, "restore"))
  BY DEF Needs
<1> QED BY <1>1, <1>2, <1>3, <1>4, <1>5, <1>6

\* Where nothing is needed any more, the lock of the statement is held.
LEMMA NothingNeeded ==
    ASSUME NEW r, NEW S, todo[r] # <<>>, Needs(r) \subseteq S
    PROVE  /\ Head(todo[r]).do = "lock" => Head(todo[r]).lock \in held[r] \cup S
           /\ Head(todo[r]).do = "assign" =>
                 NoKeyUpdate(User(Head(todo[r]).user)) \in held[r] \cup S
<1>1. CASE At(r, "lock")
  BY <1>1 DEF Needs, At
<1>2. CASE At(r, "assign")
  BY <1>2 DEF Needs, At
<1> QED BY <1>1, <1>2 DEF At

\* The verb of a statement tells whose it can be.
LEMMA Verbs ==
    ASSUME NEW a, NEW s, NEW i, Fits(a, s, i)
    PROVE  /\ s[i].do # "connect"
           /\ s[i].do = "assign" => Assigned(a, s, i)
           /\ s[i].do \in {"reset", "cascade", "restore"} => Resetting(a, s, i)
<1>1. CASE OwnLock(a, s, i) \/ UserShared(a, s, i) \/ ProfileShared(a, s, i)
  <2>1. PICK l : s[i] = Lock(l)
    BY <1>1 DEF OwnLock, UserShared, ProfileShared
  <2> QED BY <2>1, StatementKinds
<1>2. CASE UserTaken(a, s, i) \/ OwnedTaken(a, s, i)
  <2>1. PICK l : s[i] = Lock(l)
    BY <1>2 DEF UserTaken, OwnedTaken
  <2> QED BY <2>1, StatementKinds
<1>3. CASE AdvisoryTaken(a, s, i)
  <2>1. s[i] = Lock(Update(Advisory(a.user)))
    BY <1>3 DEF AdvisoryTaken
  <2> QED BY <2>1, StatementKinds
<1>4. CASE Assigned(a, s, i)
  <2>1. s[i].do = "assign"
    BY <1>4, StatementKinds DEF Assigned
  <2> QED BY <1>4, <2>1
<1>5. CASE Counted(a, s, i)
  <2>1. s[i].do = "count"
    BY <1>5, StatementKinds DEF Counted
  <2> QED BY <2>1
<1>6. CASE Resetting(a, s, i)
  <2>1. s[i].do \in {"reset", "cascade", "restore"}
    BY <1>6, StatementKinds DEF Resetting
  <2> QED BY <1>6, <2>1
<1> QED BY <1>1, <1>2, <1>3, <1>4, <1>5, <1>6 DEF Fits

\* Only update_user assigns, as its first statement.
LEMMA AtAssign ==
    ASSUME Requested, NEW r \in Requests, Active(r), IsSeq(todo[r]), todo[r] # <<>>,
           NEW s, NEW n, Stands(r, s, n), Head(todo[r]).do = "assign"
    PROVE  /\ request[r].op = "update_user" /\ s = Script(request[r]) /\ n = 1 /\ Len(s) = 2
           /\ Head(todo[r]) = Assign(request[r].user, request[r].profile)
<1>1. /\ Orderly(request[r], s) /\ Len(s) \in Nat /\ n \in Nat /\ n < Len(s)
      /\ Head(todo[r]) = s[n + 1] /\ s[1] = Connection
  BY Placed, NextStatement DEF Stands
<1>2. n # 0
  BY <1>1 DEF Connection
<1>3. Fits(request[r], s, n + 1)
  BY <1>1, <1>2 DEF Orderly
<1>4. Assigned(request[r], s, n + 1)
  BY <1>1, <1>3, Verbs
<1>5. /\ request[r].op = "update_user" /\ n = 1
      /\ Head(todo[r]) = Assign(request[r].user, request[r].profile)
  BY <1>1, <1>4 DEF Assigned
<1>6. s = Script(request[r])
  BY <1>5 DEF Stands
<1>7. Len(s) = 2
  BY <1>5, <1>6, Placed, Scripts
<1> QED BY <1>5, <1>6, <1>7

\* A statement is over and the request is at the next one, or at the foreign
\* key of a default that changes.
LEMMA StatementOver ==
    ASSUME Requested, NEW r \in Requests, Active(r), IsSeq(todo[r]), todo[r] # <<>>,
           NEW steps,
           todo'[r] = steps \o Tail(todo[r]),
           \/ steps = <<>>
           \/ /\ Head(todo[r]).do = "assign"
              /\ default[Head(todo[r]).user] # Head(todo[r]).profile
              /\ steps = <<Lock(KeyShare(Profile(Head(todo[r]).profile)))>>,
           request'[r] = request[r], default' = default, held[r] \subseteq held'[r],
           \A k \in held'[r] \ held[r] : Takes(Head(todo[r]), k),
           Head(todo[r]).do = "lock" => Head(todo[r]).lock \in held'[r],
           Head(todo[r]).do = "assign" => NoKeyUpdate(User(Head(todo[r]).user)) \in held'[r],
           conns'[r] = 1
    PROVE  Underway(r)'
<1> DEFINE a == request[r]
<1>1. a \in Asks
  BY Placed
<1>2. PICK s, n : Stands(r, s, n)
  BY Placed
<1>3. /\ Position(r, s, n) /\ Len(s) \in Nat /\ n \in Nat
  BY <1>2, Placed DEF Stands
<1>4. CASE steps = <<>>
  <2>1. Position(r, s, n + 1)'
    BY <1>3, <1>4, PositionMoves
  <2>2. n < Len(s)
    BY <1>3, NextStatement
  <2>3. CASE s = Script(a)
    <3>1. n + 1 \in 0 .. Len(Script(request'[r])) /\ s = Script(request'[r])
      BY <1>3, <2>2, <2>3
    <3> QED BY <2>1, <3>1 DEF Underway
  <2>4. CASE s # Script(a)
    <3>1. a.op = "update_user" /\ default[a.user] # a.profile /\ s = WithForeignKey(a)
          /\ n \in 2 .. 3 /\ Len(s) = 3
      BY <1>1, <1>2, <2>4, ForeignKeyScript DEF Stands
    <3>2. n + 1 \in 2 .. 3 /\ s = WithForeignKey(request'[r])
      BY <2>2, <3>1
    <3> QED BY <2>1, <3>1, <3>2 DEF Underway
  <2> QED BY <2>3, <2>4
<1>5. CASE steps # <<>>
  <2>1. /\ a.op = "update_user" /\ s = Script(a) /\ n = 1 /\ Len(Script(a)) = 2
        /\ Head(todo[r]) = Assign(a.user, a.profile)
    BY <1>2, <1>5, AtAssign
  <2>2. Head(todo[r]).user = a.user /\ Head(todo[r]).profile = a.profile
    BY <2>1 DEF Assign
  <2>3. Position(r, WithForeignKey(a), 2)'
    <3>1. todo'[r] = <<Lock(KeyShare(Profile(a.profile)))>> \o Tail(todo[r])
      BY <1>5, <2>2
    <3>2. Position(r, Script(a), 1)
      BY <1>3, <2>1
    <3> QED BY <1>1, <2>1, <3>1, <3>2, PositionAtForeignKey
  <2>4. request'[r].op = "update_user" /\ default'[request'[r].user] # request'[r].profile
    BY <1>5, <2>1, <2>2
  <2> QED BY <2>3, <2>4 DEF Underway
<1> QED BY <1>4, <1>5

\* A connection comes first.
LEMMA Connected ==
    ASSUME Requested, NEW r \in Requests, Active(r), IsSeq(todo[r])
    PROVE  /\ conns[r] \in 0 .. 1
           /\ At(r, "connect") <=> conns[r] = 0
           /\ conns[r] = 0 => held[r] = {}
<1>1. PICK s, n : Stands(r, s, n)
  BY Placed
<1>2. /\ Position(r, s, n) /\ Len(s) \in Nat /\ Len(s) >= 1 /\ n \in 0 .. Len(s)
      /\ s[1] = Connection /\ Orderly(request[r], s)
  BY <1>1, Placed DEF Stands
<1>3. conns[r] = IF n = 0 THEN 0 ELSE 1
  BY <1>2 DEF Position
<1>4. CASE n = 0
  <2>1. todo[r] # <<>> /\ Head(todo[r]) = Connection
    BY <1>2, <1>4, NextStatement
  <2>2. At(r, "connect")
    BY <2>1 DEF At, Connection
  <2>3. ASSUME NEW k \in held[r]
        PROVE  FALSE
    <3>1. Connection.do \in {"reset", "cascade", "restore"}
      BY <1>2, <1>4 DEF Position
    <3> QED BY <3>1 DEF Connection
  <2> QED BY <1>3, <1>4, <2>2, <2>3
<1>5. CASE n # 0
  <2>1. ASSUME At(r, "connect")
        PROVE  FALSE
    <3>1. n + 1 \in 2 .. Len(s) /\ s[n + 1].do = "connect"
      BY <1>2, <1>5, <2>1, NextStatement DEF At
    <3>2. Fits(request[r], s, n + 1)
      BY <1>2, <3>1 DEF Orderly
    <3> QED BY <3>1, <3>2, Verbs
  <2> QED BY <1>3, <1>5, <2>1
<1> QED BY <1>4, <1>5

-----------------------------------------------------------------------------
(* LocksInv is kept.                                                       *)

\* A request that a step leaves alone stands where it stood.  Its default may
\* change only while it does not hold the row of its user.
LEMMA OtherStands ==
    ASSUME Requested, NEW q \in Requests,
           request'[q] = request[q], todo'[q] = todo[q], conns'[q] = conns[q],
           held'[q] = held[q], resets'[q] = resets[q],
           \A u \in Users : NoKeyUpdate(User(u)) \in held[q] => default'[u] = default[u]
    PROVE  /\ IF Active(q)' THEN Underway(q)' ELSE Idle(q)'
           /\ \A u \in resets'[q] : NoKeyUpdate(User(u)) \in held'[q]
<1>1. Active(q)' = Active(q)
  BY DEF Active
<1>2. CASE ~Active(q)
  <2>1. Idle(q)
    BY <1>2 DEF Requested
  <2>2. Idle(q)'
    BY <2>1 DEF Idle
  <2> QED BY <1>1, <1>2, <2>2 DEF Requested
<1>3. CASE Active(q)
  <2>1. request[q] \in Asks
    BY <1>3, Placed
  <2>2. PICK s, n : Stands(q, s, n)
    BY <1>3, Placed
  <2>3. Position(q, s, n) /\ Len(s) \in Nat /\ n \in 0 .. Len(s)
    BY <1>3, <2>2, Placed DEF Stands
  <2>4. Position(q, s, n)'
    BY <2>3, PositionStays
  <2>5. CASE s = Script(request[q])
    <3>1. s = Script(request'[q])
      BY <2>5
    <3>2. Underway(q)'
      BY <2>3, <2>4, <3>1 DEF Underway
    <3> QED BY <1>1, <1>3, <3>2 DEF Requested
  <2>6. CASE s # Script(request[q])
    <3> DEFINE a == request[q]
    <3>1. /\ a.op = "update_user" /\ default[a.user] # a.profile
          /\ s = WithForeignKey(a) /\ n \in 2 .. 3
      BY <2>2, <2>6 DEF Stands
    <3>2. NoKeyUpdate(User(a.user)) \in held[q]
      <4>1. s[2] = Assign(a.user, a.profile)
        BY <2>1, <3>1, ForeignKeyScript
      <4>2. Settled(q, s[2])
        BY <2>3, <3>1 DEF Position
      <4> QED BY <4>1, <4>2, StatementKinds DEF Settled
    <3>3. default'[request'[q].user] # request'[q].profile
      BY <2>1, <3>1, <3>2, TransactionAssumption
    <3>4. request'[q].op = "update_user" /\ s = WithForeignKey(request'[q])
      BY <3>1
    <3>5. Underway(q)'
      BY <2>4, <3>1, <3>3, <3>4 DEF Underway
    <3> QED BY <1>1, <1>3, <3>5 DEF Requested
  <2> QED BY <2>5, <2>6
<1> QED BY <1>2, <1>3

\* The step of one request leaves the others alone.
LEMMA OneStep ==
    ASSUME Requested, NEW r \in Requests,
           request' \in [Requests -> Asks \cup {None, Done}],
           resets' \in [Requests -> SUBSET Users],
           \A q \in Requests \ {r} :
             /\ request'[q] = request[q] /\ todo'[q] = todo[q] /\ conns'[q] = conns[q]
             /\ held'[q] = held[q] /\ resets'[q] = resets[q]
             /\ \A u \in Users : NoKeyUpdate(User(u)) \in held[q] => default'[u] = default[u],
           IF Active(r)' THEN Underway(r)' ELSE Idle(r)',
           \A u \in resets'[r] : NoKeyUpdate(User(u)) \in held'[r]
    PROVE  Requested'
<1>1. ASSUME NEW q \in Requests
      PROVE  /\ IF Active(q)' THEN Underway(q)' ELSE Idle(q)'
             /\ \A u \in resets'[q] : NoKeyUpdate(User(u)) \in held'[q]
  <2>1. CASE q = r
    BY <2>1
  <2>2. CASE q # r
    BY <2>2, OtherStands
  <2> QED BY <2>1, <2>2
<1> QED BY <1>1 DEF Requested

\* A set of connections, to which one is added or from which some go.
Given == UNION {{r} \X (1 .. conns[r]) : r \in Requests}

LEMMA PoolShrinks ==
    ASSUME Pool, \A q \in Requests : conns'[q] = conns[q] \/ conns'[q] = 0
    PROVE  Pool'
<1>1. Given' \subseteq Given
  <2>1. ASSUME NEW x \in Given'
        PROVE  x \in Given
    <3>1. PICK q \in Requests : x \in {q} \X (1 .. conns'[q])
      BY <2>1 DEF Given
    <3>2. conns'[q] = conns[q]
      <4>1. CASE conns'[q] = 0
        BY <3>1, <4>1
      <4> QED BY <4>1
    <3> QED BY <3>1, <3>2 DEF Given
  <2> QED BY <2>1
<1>2. IsFiniteSet(Given) /\ Cardinality(Given) <= PoolSize
  BY DEF Pool, InUse, Given
<1>3. IsFiniteSet(Given') /\ Cardinality(Given') <= Cardinality(Given)
  BY <1>1, <1>2, FS_Subset
<1>4. Cardinality(Given) \in Nat /\ Cardinality(Given') \in Nat /\ PoolSize \in Nat
  BY <1>2, <1>3, FS_CardinalityType, TransactionAssumption
<1>5. IsFiniteSet(Given') /\ Cardinality(Given') <= PoolSize
  BY <1>2, <1>3, <1>4
<1> QED BY <1>5 DEF Pool, InUse, Given

LEMMA PoolGives ==
    ASSUME Pool, NEW r \in Requests, conns[r] = 0, conns'[r] = 1, InUse < PoolSize,
           \A q \in Requests \ {r} : conns'[q] = conns[q]
    PROVE  Pool'
<1>1. Given' = Given \cup {<<r, 1>>}
  <2>1. ASSUME NEW x \in Given'
        PROVE  x \in Given \cup {<<r, 1>>}
    <3>1. PICK q \in Requests : x \in {q} \X (1 .. conns'[q])
      BY <2>1 DEF Given
    <3>2. CASE q = r
      BY <3>1, <3>2
    <3>3. CASE q # r
      BY <3>1, <3>3 DEF Given
    <3> QED BY <3>2, <3>3
  <2>2. ASSUME NEW x \in Given
        PROVE  x \in Given'
    <3>1. PICK q \in Requests : x \in {q} \X (1 .. conns[q])
      BY <2>2 DEF Given
    <3>2. q # r
      BY <3>1
    <3> QED BY <3>1, <3>2 DEF Given
  <2>3. <<r, 1>> \in {r} \X (1 .. conns'[r])
    OBVIOUS
  <2>4. <<r, 1>> \in Given'
    BY <2>3 DEF Given
  <2> QED BY <2>1, <2>2, <2>4
<1>2. <<r, 1>> \notin Given
  <2>1. ASSUME NEW q \in Requests, <<r, 1>> \in {q} \X (1 .. conns[q])
        PROVE  FALSE
    BY <2>1
  <2> QED BY <2>1 DEF Given
<1>3. IsFiniteSet(Given) /\ Cardinality(Given) < PoolSize
  BY DEF Pool, InUse, Given
<1>4. IsFiniteSet(Given') /\ Cardinality(Given') = Cardinality(Given) + 1
  BY <1>1, <1>2, <1>3, FS_AddElement
<1>5. Cardinality(Given) \in Nat /\ PoolSize \in Nat
  BY <1>3, FS_CardinalityType, TransactionAssumption
<1>6. IsFiniteSet(Given') /\ Cardinality(Given') <= PoolSize
  BY <1>3, <1>4, <1>5
<1> QED BY <1>6 DEF Pool, InUse, Given

\* Locks that go exclude nobody.
LEMMA FewerLocks ==
    ASSUME Compatible, \A q \in Requests : held'[q] \subseteq held[q]
    PROVE  Compatible'
<1>1. ASSUME NEW q \in Requests, NEW s \in Requests, q # s,
             NEW l \in held'[q], NEW k \in held'[s]
      PROVE  ~Blocks(l, k)
  BY <1>1 DEF Compatible
<1> QED BY <1>1 DEF Compatible

\* The end of a request.
LEMMA CloseLocks ==
    ASSUME WriterInv, LocksInv, NEW r \in Requests, Close(r),
           \A q \in Requests \ {r} : \A u \in Users :
             NoKeyUpdate(User(u)) \in held[q] => default'[u] = default[u]
    PROVE  LocksInv'
<1>1. /\ request'[r] = Done /\ todo'[r] = <<>> /\ conns'[r] = 0 /\ held'[r] = {}
      /\ resets'[r] = {}
      /\ request' \in [Requests -> Asks \cup {None, Done}]
      /\ resets' \in [Requests -> SUBSET Users]
      /\ \A q \in Requests \ {r} :
            /\ request'[q] = request[q] /\ todo'[q] = todo[q] /\ conns'[q] = conns[q]
            /\ held'[q] = held[q] /\ resets'[q] = resets[q]
  BY DEF Close, WriterInv, Shape, LocksInv, Requested
<1>2. Idle(r)' /\ ~Active(r)'
  BY <1>1 DEF Idle, Active
<1>3. Requested'
  BY <1>1, <1>2, OneStep DEF LocksInv
<1>4. \A q \in Requests : conns'[q] = conns[q] \/ conns'[q] = 0
  BY <1>1
<1>5. \A q \in Requests : held'[q] \subseteq held[q]
  BY <1>1
<1>6. Pool'
  BY <1>4, PoolShrinks DEF LocksInv
<1>7. Compatible'
  BY <1>5, FewerLocks DEF LocksInv
<1> QED BY <1>3, <1>6, <1>7 DEF LocksInv

\* An arrival holds nothing yet.
LEMMA AskLocks ==
    ASSUME WriterInv, LocksInv, NEW r \in Requests, NEW a \in Asks, Ask(r, a)
    PROVE  LocksInv'
<1>1. /\ request'[r] = a /\ todo'[r] = Script(a)
      /\ request' \in [Requests -> Asks \cup {None, Done}]
      /\ \A q \in Requests \ {r} : request'[q] = request[q] /\ todo'[q] = todo[q]
      /\ conns' = conns /\ held' = held /\ resets' = resets /\ default' = default
  BY DEF Ask, WriterInv, Shape, LocksInv, Requested, Script, tables
<1>2. conns[r] = 0 /\ held[r] = {} /\ resets[r] = {}
  <2>1. ~Active(r)
    BY DEF Ask, Active
  <2> QED BY <2>1 DEF LocksInv, Requested, Idle
<1>3. Active(r)'
  BY <1>1, TransactionAssumption DEF Active
<1>4. Len(Script(a)) \in Nat /\ Len(Script(a)) >= 1
  BY Scripts DEF Orderly
<1>5. Position(r, Script(a), 0)'
  <2> DEFINE s == Script(a)
  <2>1. todo'[r] = s /\ Len(s) \in Nat
    BY <1>1, <1>4
  <2> HIDE DEF s
  <2>2. conns'[r] = 0 /\ held'[r] = {}
    BY <1>1, <1>2
  <2>3. Position(r, s, 0)'
    BY <2>1, <2>2 DEF Position
  <2> QED BY <2>3 DEF s
<1>6. Underway(r)'
  <2>1. Script(a) = Script(request'[r]) /\ 0 \in 0 .. Len(Script(request'[r]))
    BY <1>1, <1>4
  <2> QED BY <1>5, <2>1 DEF Underway
<1>7. Requested'
  <2>1. resets' \in [Requests -> SUBSET Users]
    BY <1>1 DEF LocksInv, Requested
  <2>2. \A u \in resets'[r] : NoKeyUpdate(User(u)) \in held'[r]
    BY <1>1, <1>2
  <2> QED BY <1>1, <1>3, <1>6, <2>1, <2>2, OneStep DEF LocksInv
<1>8. Compatible' /\ Pool'
  <2>1. \A q \in Requests : held'[q] \subseteq held[q]
    BY <1>1
  <2>2. \A q \in Requests : conns'[q] = conns[q] \/ conns'[q] = 0
    BY <1>1
  <2> QED BY <2>1, <2>2, PoolShrinks, FewerLocks DEF LocksInv
<1> QED BY <1>7, <1>8 DEF LocksInv

\* A step that ends a statement and takes no lock.
LEMMA OverLocks ==
    ASSUME WriterInv, LocksInv, NEW r \in Requests, NEW steps,
           todo[r] # <<>>, Continue(r, steps),
           steps = <<>> \/ steps = ThenForeignKey(r),
           request' = request, held' = held, resets' = resets, default' = default,
           Active(r), conns'[r] = 1,
           \A q \in Requests \ {r} : conns'[q] = conns[q],
           Needs(r) = {},
           Pool'
    PROVE  LocksInv'
<1>1. /\ todo'[r] = steps \o Tail(todo[r])
      /\ \A q \in Requests \ {r} : todo'[q] = todo[q]
  BY DEF Continue, WriterInv, Shape
<1>2. IsSeq(todo[r]) /\ Requested
  BY DEF WriterInv, Shape, LocksInv
<1>3. /\ Head(todo[r]).do = "lock" => Head(todo[r]).lock \in held'[r]
      /\ Head(todo[r]).do = "assign" =>
            NoKeyUpdate(User(Head(todo[r]).user)) \in held'[r]
  BY NothingNeeded
<1>4. \/ steps = <<>>
      \/ /\ Head(todo[r]).do = "assign"
         /\ default[Head(todo[r]).user] # Head(todo[r]).profile
         /\ steps = <<Lock(KeyShare(Profile(Head(todo[r]).profile)))>>
  BY DEF ThenForeignKey, At
<1>5. Underway(r)'
  <2>1. held[r] \subseteq held'[r] /\ \A k \in held'[r] \ held[r] : Takes(Head(todo[r]), k)
    OBVIOUS
  <2>2. request'[r] = request[r]
    OBVIOUS
  <2> QED BY ONLY <1>1, <1>2, <1>3, <1>4, <2>1, <2>2, StatementOver, r \in Requests,
             Active(r), todo[r] # <<>>, default' = default, conns'[r] = 1
<1>6. Active(r)'
  BY DEF Active
<1>7. Requested'
  <2>1. request' \in [Requests -> Asks \cup {None, Done}] /\ resets' \in [Requests -> SUBSET Users]
    BY <1>2 DEF Requested
  <2>2. \A u \in resets'[r] : NoKeyUpdate(User(u)) \in held'[r]
    BY <1>2 DEF Requested
  <2>3. \A q \in Requests \ {r} :
          /\ request'[q] = request[q] /\ todo'[q] = todo[q] /\ conns'[q] = conns[q]
          /\ held'[q] = held[q] /\ resets'[q] = resets[q]
          /\ \A u \in Users : NoKeyUpdate(User(u)) \in held[q] => default'[u] = default[u]
    BY <1>1
  <2> QED BY <1>2, <1>5, <1>6, <2>1, <2>2, <2>3, OneStep
<1>8. Compatible'
  BY FewerLocks DEF LocksInv
<1> QED BY <1>7, <1>8 DEF LocksInv

\* A request that has something to execute is active, and but for the first
\* statement it has its connection.
LEMMA Busy ==
    ASSUME WriterInv, LocksInv, NEW r \in Requests, todo[r] # <<>>
    PROVE  /\ Active(r) /\ IsSeq(todo[r]) /\ Requested
           /\ At(r, "connect") => conns[r] = 0
           /\ ~At(r, "connect") => conns[r] = 1
<1>1. Requested /\ IsSeq(todo[r])
  BY DEF LocksInv, WriterInv, Shape
<1>2. Active(r)
  BY <1>1 DEF Requested, Idle
<1>3. conns[r] \in 0 .. 1 /\ (At(r, "connect") <=> conns[r] = 0)
  BY <1>1, <1>2, Connected
<1> QED BY <1>1, <1>2, <1>3

LEMMA ConnectLocks ==
    ASSUME WriterInv, LocksInv, NEW r \in Requests, Connect(r)
    PROVE  LocksInv'
<1>1. todo[r] # <<>> /\ At(r, "connect") /\ InUse < PoolSize /\ Continue(r, <<>>)
  BY DEF Connect, At
<1>2. Active(r) /\ conns[r] = 0
  BY <1>1, Busy
<1>3. conns'[r] = 1 /\ \A q \in Requests \ {r} : conns'[q] = conns[q]
  BY <1>2 DEF Connect, WriterInv, Shape
<1>4. Pool'
  BY <1>1, <1>2, <1>3, PoolGives DEF LocksInv
<1>5. Needs(r) = {}
  BY <1>1 DEF Needs, At
<1>6. request' = request /\ held' = held /\ resets' = resets /\ default' = default
  BY DEF Connect, tables
<1> QED BY <1>1, <1>2, <1>3, <1>4, <1>5, <1>6, OverLocks

LEMMA PassLocks ==
    ASSUME WriterInv, LocksInv, NEW r \in Requests, Pass(r) \/ CountFiles(r)
    PROVE  LocksInv'
<1>1. todo[r] # <<>> /\ ~At(r, "connect")
  BY DEF Pass, CountFiles, At
<1>2. Active(r) /\ conns[r] = 1
  BY <1>1, Busy
<1>3. request' = request /\ held' = held /\ resets' = resets /\ default' = default
      /\ conns' = conns
  BY DEF Pass, CountFiles, tables
<1>4. Needs(r) = {}
  BY DEF Pass, CountFiles, Needs, At
<1>5. Continue(r, <<>>) \/ Continue(r, ThenForeignKey(r))
  BY DEF Pass, CountFiles
<1>6. Pool'
  BY <1>3, PoolShrinks DEF LocksInv
<1> QED BY <1>1, <1>2, <1>3, <1>4, <1>5, <1>6, OverLocks

\* The lock that is given is one that nobody else's excludes.
LEMMA GrantCompatible ==
    ASSUME Compatible, NEW r \in Requests, NEW l, Holders(r, l) = {},
           held'[r] = held[r] \cup {l}, \A q \in Requests \ {r} : held'[q] = held[q]
    PROVE  Compatible'
<1>1. ASSUME NEW q \in Requests, NEW s \in Requests, q # s,
             NEW j \in held'[q], NEW k \in held'[s], Blocks(j, k)
      PROVE  FALSE
  <2>1. CASE q = r /\ j = l
    <3>1. k \in held[s] /\ s \in Requests \ {r}
      BY <1>1, <2>1
    <3> QED BY <1>1, <2>1, <3>1 DEF Holders
  <2>2. CASE s = r /\ k = l
    <3>1. j \in held[q] /\ q \in Requests \ {r}
      BY <1>1, <2>2
    <3>2. Blocks(k, j)
      BY <1>1, BlocksBoth
    <3> QED BY <2>2, <3>1, <3>2 DEF Holders
  <2>3. CASE ~(q = r /\ j = l) /\ ~(s = r /\ k = l)
    <3>1. j \in held[q] /\ k \in held[s]
      BY <2>3
    <3> QED BY <1>1, <3>1 DEF Compatible
  <2> QED BY <2>1, <2>2, <2>3
<1> QED BY <1>1 DEF Compatible

\* A reset gives its users their main profile, whose rows it locks.
LEMMA ResetsUsers ==
    ASSUME Requested, NEW r \in Requests, Active(r), IsSeq(todo[r]), At(r, "reset"),
           NEW l \in Needs(r)
    PROVE  \E u \in Users : l = NoKeyUpdate(User(u)) /\ l.row[2] = u
<1>1. PICK s, n : Stands(r, s, n)
  BY Placed
<1>2. /\ Orderly(request[r], s) /\ n \in Nat /\ n < Len(s) /\ Len(s) \in Nat
      /\ Head(todo[r]) = s[n + 1] /\ s[1] = Connection /\ s[n + 1].do = "reset"
  BY <1>1, Placed, NextStatement DEF Stands, At
<1>3. n # 0
  BY <1>2 DEF Connection
<1>4. Fits(request[r], s, n + 1)
  BY <1>2, <1>3 DEF Orderly
<1>5. Resetting(request[r], s, n + 1) /\ s[n + 1] # Restore
  BY <1>2, <1>4, Verbs, StatementKinds
<1>9. PICK whom \in SUBSET Users : s[n + 1] = Reset(whom, request[r].profile)
  BY <1>2, <1>5 DEF Resetting
<1>10. Head(todo[r]).whom = whom
  BY <1>2, <1>9 DEF Reset
<1>11. resets[r] \subseteq Users
  BY DEF Requested
<1>12. PICK u \in whom : l = NoKeyUpdate(User(u))
  BY <1>10, <1>11, NeedsTaken DEF At
<1> QED BY <1>12, Modes, Rows

LEMMA GrantLocks ==
    ASSUME WriterInv, LocksInv, NEW r \in Requests, Grant(r)
    PROVE  LocksInv'
<1>1. PICK l \in Needs(r) :
        /\ Holders(r, l) = {}
        /\ held' = [held EXCEPT ![r] = @ \cup {l}]
        /\ resets' = IF At(r, "reset")
                     THEN [resets EXCEPT ![r] = @ \cup {l.row[2]}] ELSE resets
        /\ IF Needs(r) = {l} THEN Continue(r, ThenForeignKey(r)) ELSE UNCHANGED todo
  BY DEF Grant
<1>2. /\ held'[r] = held[r] \cup {l}
      /\ \A q \in Requests \ {r} : held'[q] = held[q]
      /\ request' = request /\ conns' = conns /\ default' = default
  BY <1>1 DEF Grant, WriterInv, Shape, tables
<1>3. todo[r] # <<>> /\ ~At(r, "connect")
  BY <1>1 DEF Needs, At
<1>4. Active(r) /\ IsSeq(todo[r]) /\ Requested /\ conns[r] = 1
  BY <1>3, Busy
<1>5. resets[r] \in SUBSET Users /\ resets \in [Requests -> SUBSET Users]
  BY <1>4 DEF Requested
<1>6. /\ Takes(Head(todo[r]), l)
      /\ Head(todo[r]).do \in {"lock", "assign", "reset", "cascade", "restore"}
      /\ Head(todo[r]).do \in {"lock", "assign"} => Needs(r) = {l}
  BY <1>1, <1>5, NeedsTaken
<1>7. /\ resets' \in [Requests -> SUBSET Users]
      /\ \A q \in Requests \ {r} : resets'[q] = resets[q]
      /\ \A u \in resets'[r] : NoKeyUpdate(User(u)) \in held'[r]
  <2>1. \A u \in resets[r] : NoKeyUpdate(User(u)) \in held'[r]
    BY <1>2, <1>4 DEF Requested
  <2>2. CASE At(r, "reset")
    <3>1. PICK u \in Users : l = NoKeyUpdate(User(u)) /\ l.row[2] = u
      BY <1>4, <2>2, ResetsUsers
    <3>2. resets' = [resets EXCEPT ![r] = @ \cup {u}]
      BY <1>1, <2>2, <3>1
    <3> QED BY <1>2, <1>5, <2>1, <3>1, <3>2
  <2>3. CASE ~At(r, "reset")
    BY <1>1, <1>5, <2>1, <2>3
  <2> QED BY <2>2, <2>3
<1>8. \A q \in Requests \ {r} : todo'[q] = todo[q]
  BY <1>1 DEF Continue, WriterInv, Shape
<1>9. Underway(r)'
  <2>1. held[r] \subseteq held'[r] /\ \A k \in held'[r] \ held[r] : Takes(Head(todo[r]), k)
    BY <1>2, <1>6
  <2>2. CASE Needs(r) = {l}
    <3>1. todo'[r] = ThenForeignKey(r) \o Tail(todo[r])
      BY <1>1, <2>2 DEF Continue, WriterInv, Shape
    <3>2. \/ ThenForeignKey(r) = <<>>
          \/ /\ Head(todo[r]).do = "assign"
             /\ default[Head(todo[r]).user] # Head(todo[r]).profile
             /\ ThenForeignKey(r) = <<Lock(KeyShare(Profile(Head(todo[r]).profile)))>>
      BY DEF ThenForeignKey, At
    <3>3. /\ Head(todo[r]).do = "lock" => Head(todo[r]).lock \in held'[r]
          /\ Head(todo[r]).do = "assign" =>
                NoKeyUpdate(User(Head(todo[r]).user)) \in held'[r]
      BY <1>2, <1>3, <2>2, NothingNeeded
    <3>4. request'[r] = request[r] /\ conns'[r] = 1
      BY <1>2, <1>4
    <3> QED BY ONLY <1>2, <1>3, <1>4, <2>1, <3>1, <3>2, <3>3, <3>4, StatementOver, r \in Requests
  <2>3. CASE Needs(r) # {l}
    <3>1. todo'[r] = todo[r] /\ conns'[r] = conns[r] /\ request'[r] = request[r]
      BY <1>1, <1>2, <2>3
    <3>2. request[r] \in Asks
      BY <1>4, Placed
    <3>3. PICK s, n : Stands(r, s, n)
      BY <1>4, Placed
    <3>4. Position(r, s, n) /\ Len(s) \in Nat /\ n \in 0 .. Len(s)
      BY <1>4, <3>3, Placed DEF Stands
    <3>5. n < Len(s) /\ Head(todo[r]) = s[n + 1]
      BY <1>3, <1>4, <3>4, NextStatement
    <3>6. s[n + 1].do \in {"reset", "cascade", "restore"}
      BY <1>6, <2>3, <3>5
    <3>7. Position(r, s, n)'
      BY <2>1, <3>1, <3>4, <3>5, <3>6, PositionStays
    <3>8. CASE s = Script(request[r])
      <4>1. s = Script(request'[r])
        BY <3>1, <3>8
      <4> QED BY <3>4, <3>7, <4>1 DEF Underway
    <3>9. CASE s # Script(request[r])
      <4>1. /\ request[r].op = "update_user" /\ n \in 2 .. 3 /\ s = WithForeignKey(request[r])
            /\ default[request[r].user] # request[r].profile
        BY <3>3, <3>9 DEF Stands
      <4>2. /\ request'[r].op = "update_user" /\ s = WithForeignKey(request'[r])
            /\ default'[request'[r].user] # request'[r].profile
        BY <1>2, <3>1, <4>1
      <4> QED BY <3>7, <4>1, <4>2 DEF Underway
    <3> QED BY <3>8, <3>9
  <2> QED BY <2>2, <2>3
<1>10. Active(r)'
  BY <1>2, <1>4 DEF Active
<1>11. Requested'
  <2>1. request' \in [Requests -> Asks \cup {None, Done}]
    BY <1>2, <1>4 DEF Requested
  <2>2. \A q \in Requests \ {r} :
          /\ request'[q] = request[q] /\ todo'[q] = todo[q] /\ conns'[q] = conns[q]
          /\ held'[q] = held[q] /\ resets'[q] = resets[q]
          /\ \A u \in Users : NoKeyUpdate(User(u)) \in held[q] => default'[u] = default[u]
    BY <1>2, <1>7, <1>8
  <2> QED BY <1>4, <1>7, <1>9, <1>10, <2>1, <2>2, OneStep
<1>12. Compatible'
  BY <1>1, <1>2, GrantCompatible DEF LocksInv
<1>13. Pool'
  BY <1>2, PoolShrinks DEF LocksInv
<1> QED BY <1>11, <1>12, <1>13 DEF LocksInv

\* A commit changes the defaults of the users whose rows it has locked.
LEMMA CommitDefaults ==
    ASSUME WriterInv, LocksInv, NEW r \in Requests, Commit(r),
           NEW q \in Requests \ {r}, NEW u \in Users, NoKeyUpdate(User(u)) \in held[q],
           default \in [Users -> Profiles]
    PROVE  default'[u] = default[u]
<1> DEFINE a == request[r]
<1>1. Active(r) /\ todo[r] = <<>> /\ Requested /\ Compatible
  BY DEF Commit, Active, LocksInv
<1>2. default' = [x \in Users |->
                    IF x \in resets[r] THEN Main[x]
                    ELSE IF a.op = "update_user" /\ a.user = x THEN a.profile
                    ELSE default[x]]
  BY DEF Commit
<1>3. NoKeyUpdate(User(u)) \notin held[r]
  <2>1. Blocks(NoKeyUpdate(User(u)), NoKeyUpdate(User(u)))
    BY Excludes
  <2> QED BY <1>1, <2>1 DEF Compatible
<1>4. u \notin resets[r]
  BY <1>1, <1>3 DEF Requested
<1>5. ~(a.op = "update_user" /\ a.user = u)
  <2> SUFFICES ASSUME a.op = "update_user", a.user = u
               PROVE  FALSE
    OBVIOUS
  <2>1. PICK s, n : Stands(r, s, n)
    BY <1>1, Placed
  <2>2. /\ Position(r, s, n) /\ Len(s) \in Nat /\ Len(s) >= 2
        /\ s[2] = Assign(a.user, a.profile)
    BY <1>1, <2>1, Placed DEF Stands
  <2>3. n = Len(s)
    BY <1>1, <2>2, NextStatement DEF WriterInv, Shape
  <2>4. Settled(r, s[2])
    BY <2>2, <2>3 DEF Position
  <2>5. NoKeyUpdate(User(a.user)) \in held[r]
    BY <2>2, <2>4, StatementKinds DEF Settled
  <2> QED BY <1>3, <2>5
<1> QED BY <1>2, <1>4, <1>5

LEMMA CommitLocks ==
    ASSUME WriterInv, LocksInv, NEW r \in Requests, Commit(r), default \in [Users -> Profiles]
    PROVE  LocksInv' /\ default' \in [Users -> Profiles]
<1>1. Close(r)
  BY DEF Commit
<1>2. \A q \in Requests \ {r} : \A u \in Users :
        NoKeyUpdate(User(u)) \in held[q] => default'[u] = default[u]
  BY CommitDefaults
<1>3. request[r] \in Asks
  BY DEF Commit, LocksInv, Requested
<1>4. request[r].op = "update_user" => request[r].profile \in Profiles
  BY <1>3, TransactionAssumption
<1>5. default' \in [Users -> Profiles]
  BY <1>4, TransactionAssumption DEF Commit
<1> QED BY <1>1, <1>2, <1>5, CloseLocks

LEMMA LocksInvInit == Init => LocksInv /\ default \in [Users -> Profiles]
<1> SUFFICES ASSUME Init
             PROVE  LocksInv /\ default \in [Users -> Profiles]
  OBVIOUS
<1>1. Requested
  BY DEF Init, Requested, Active, Idle
<1>2. Compatible
  BY DEF Init, Compatible
<1>3. Given = {}
  <2>1. \A q \in Requests : conns[q] = 0
    BY DEF Init
  <2>2. ASSUME NEW x \in Given
        PROVE  FALSE
    <3>1. PICK q \in Requests : x \in {q} \X (1 .. conns[q])
      BY <2>2 DEF Given
    <3> QED BY <2>1, <3>1
  <2> QED BY <2>2
<1>4. IsFiniteSet(Given) /\ Cardinality(Given) = 0
  BY <1>3, FS_EmptySet
<1>5. IsFiniteSet(Given) /\ Cardinality(Given) <= PoolSize
  BY <1>4, TransactionAssumption
<1>6. Pool
  BY <1>5 DEF Pool, InUse, Given
<1>7. default \in [Users -> Profiles]
  BY DEF Init
<1> QED BY <1>1, <1>2, <1>6, <1>7 DEF LocksInv

LEMMA LocksInvInductive ==
    ASSUME WriterInv, LocksInv, default \in [Users -> Profiles], [Next \/ AllDone]_vars
    PROVE  LocksInv' /\ default' \in [Users -> Profiles]
<1>1. ASSUME NEW r \in Requests, NEW a \in Asks, Ask(r, a)
      PROVE  LocksInv' /\ default' \in [Users -> Profiles]
  BY <1>1, AskLocks DEF Ask, tables
<1>2. ASSUME NEW r \in Requests, Connect(r)
      PROVE  LocksInv' /\ default' \in [Users -> Profiles]
  BY <1>2, ConnectLocks DEF Connect, tables
<1>3. ASSUME NEW r \in Requests, Grant(r)
      PROVE  LocksInv' /\ default' \in [Users -> Profiles]
  BY <1>3, GrantLocks DEF Grant, tables
<1>4. ASSUME NEW r \in Requests, Pass(r) \/ CountFiles(r)
      PROVE  LocksInv' /\ default' \in [Users -> Profiles]
  BY <1>4, PassLocks DEF Pass, CountFiles, tables
<1>5. ASSUME NEW r \in Requests, Commit(r)
      PROVE  LocksInv' /\ default' \in [Users -> Profiles]
  BY <1>5, CommitLocks
<1>6. ASSUME NEW r \in Requests, Abort(r)
      PROVE  LocksInv' /\ default' \in [Users -> Profiles]
  <2>1. Close(r) /\ default' = default
    BY <1>6 DEF Abort, tables
  <2> QED BY <2>1, CloseLocks
<1>7. CASE UNCHANGED vars
  <2>1. /\ request' = request /\ todo' = todo /\ conns' = conns /\ held' = held
        /\ resets' = resets /\ default' = default
    BY <1>7 DEF vars
  <2>2. \A q \in Requests :
           /\ IF Active(q)' THEN Underway(q)' ELSE Idle(q)'
           /\ \A u \in resets'[q] : NoKeyUpdate(User(u)) \in held'[q]
    BY <2>1, OtherStands DEF LocksInv
  <2>3. Requested'
    BY <2>1, <2>2 DEF LocksInv, Requested
  <2>4. Compatible' /\ Pool'
    BY <2>1, FewerLocks, PoolShrinks DEF LocksInv
  <2> QED BY <2>1, <2>3, <2>4 DEF LocksInv
<1> QED
  BY <1>1, <1>2, <1>3, <1>4, <1>5, <1>6, <1>7 DEF Next, Execute, AllDone

Whole == WriterInv /\ FilesInv /\ LocksInv /\ default \in [Users -> Profiles]

LEMMA WholeHolds == Spec => []Whole
<1>1. Init => Whole
  <2>1. Init => FilesInv
    BY TransactionAssumption
       DEF Init, FilesInv, AtMostFive, RequestTypes, Uploads, Active
  <2> QED BY <2>1, WriterInvInit, LocksInvInit DEF Whole
<1>2. Whole /\ [Next \/ AllDone]_vars => Whole'
  BY WriterInvInductive, FilesInvInductive, LocksInvInductive DEF Whole
<1> QED BY <1>1, <1>2, PTL DEF Spec

\* Whatever is asked for, a request has at most one connection, the pool gives
\* out no more than max_size, and who has no connection holds no lock
\* (core/database.py: one transaction is one connection).
THEOREM SpecTypeOK == Spec => []TypeOK
<1>1. Whole => TypeOK
  <2> SUFFICES ASSUME WriterInv, FilesInv, LocksInv, default \in [Users -> Profiles]
               PROVE  TypeOK
    BY DEF Whole
  <2>1. ASSUME NEW r \in Requests
        PROVE  conns[r] \in 0 .. 1 /\ (held[r] # {} => conns[r] = 1)
    <3>1. CASE Active(r)
      <4>1. Requested /\ IsSeq(todo[r])
        BY DEF LocksInv, WriterInv, Shape
      <4> QED BY <3>1, <4>1, Connected
    <3>2. CASE ~Active(r)
      BY <3>2 DEF LocksInv, Requested, Idle
    <3> QED BY <3>1, <3>2
  <2>2. conns \in [Requests -> 0..1]
    BY <2>1 DEF WriterInv, Shape
  <2>3. request \in [Requests -> Asks \cup {None, Done}] /\ resets \in [Requests -> SUBSET Users]
    BY DEF LocksInv, Requested
  <2>4. InUse <= PoolSize /\ files \in [Tasks -> Nat]
    BY DEF LocksInv, Pool, FilesInv
  <2> QED BY <2>1, <2>2, <2>3, <2>4 DEF TypeOK
<1> QED BY <1>1, WholeHolds, PTL

-----------------------------------------------------------------------------
(* What a request that waits holds, and what it waits for.                 *)

LEMMA TakesLock == ASSUME NEW l, NEW k, Takes(Lock(l), k) PROVE k = l
BY DEF Takes, Lock

LEMMA TakesAssign ==
    ASSUME NEW u, NEW p, NEW k, Takes(Assign(u, p), k)
    PROVE  k = NoKeyUpdate(User(u))
BY DEF Takes, Assign

LEMMA TakesReset ==
    ASSUME NEW whom, NEW p, NEW k, Takes(Reset(whom, p), k)
    PROVE  \E u \in whom : k = NoKeyUpdate(User(u))
BY DEF Takes, Reset

LEMMA TakesRestore ==
    ASSUME NEW k, Takes(Restore, k)
    PROVE  \E u \in Users : k = KeyShare(Profile(Main[u]))
BY DEF Takes, Restore

LEMMA TakesRows ==
    ASSUME NEW st, st.do = "cascade", NEW k, Takes(st, k)
    PROVE  \E row \in st.rows : k = Update(row)
BY DEF Takes

LEMMA TakesNothing == ASSUME NEW k, NEW t PROVE ~Takes(Connection, k) /\ ~Takes(Count(t), k)
BY DEF Takes, Connection, Count

\* Where a request that holds or needs a lock stands.
LEMMA Standing ==
    ASSUME WriterInv, LocksInv, NEW r \in Requests, Needs(r) # {}
    PROVE  /\ request[r] \in Asks
           /\ \E s, n :
                /\ Stands(r, s, n) /\ Position(r, s, n)
                /\ n \in Nat /\ n >= 1 /\ Len(s) \in Nat /\ n < Len(s)
                /\ Fits(request[r], s, n + 1)
                /\ \A l \in Needs(r) :
                     /\ Takes(s[n + 1], l) /\ l \notin held[r]
                     /\ \A u, p : s[n + 1] = Reset(u, p) => \E v :
                          l = NoKeyUpdate(User(v)) /\ default[v] = p
                /\ \A k \in held[r] : \E i \in 2 .. Len(s) :
                     /\ Fits(request[r], s, i) /\ Takes(s[i], k)
                     /\ i <= n \/ (i = n + 1 /\ Resetting(request[r], s, i))
                /\ \A i \in 1 .. n : Settled(r, s[i])
<1>1. todo[r] # <<>> /\ Head(todo[r]).do # "connect"
  BY DEF Needs, At
<1>2. Active(r) /\ IsSeq(todo[r]) /\ Requested
  BY <1>1, Busy
<1>3. request[r] \in Asks
  BY <1>2, Placed
<1>4. PICK s, n : Stands(r, s, n)
  BY <1>2, Placed
<1>5. /\ Orderly(request[r], s) /\ Len(s) \in Nat /\ s[1] = Connection
      /\ Position(r, s, n)
  BY <1>2, <1>4, Placed DEF Stands
<1>6. n \in Nat /\ n < Len(s) /\ Head(todo[r]) = s[n + 1]
  BY <1>1, <1>2, <1>5, NextStatement
<1>7. n >= 1
  <2>1. n # 0
    BY <1>1, <1>5, <1>6 DEF Connection
  <2> QED BY <1>6, <2>1
<1>8. \A i \in 2 .. Len(s) : Fits(request[r], s, i)
  BY <1>5 DEF Orderly
<1>9. ASSUME NEW l \in Needs(r)
      PROVE  /\ Takes(s[n + 1], l) /\ l \notin held[r]
             /\ \A u, p : s[n + 1] = Reset(u, p) => \E v :
                    l = NoKeyUpdate(User(v)) /\ default[v] = p
  <2>1. resets[r] \subseteq Users
    BY <1>2 DEF Requested
  <2>2. /\ Takes(s[n + 1], l) /\ l \notin held[r]
        /\ s[n + 1].do = "reset" => \E u \in s[n + 1].whom :
              l = NoKeyUpdate(User(u)) /\ default[u] = s[n + 1].profile
    BY <1>6, <2>1, NeedsTaken
  <2>3. ASSUME NEW u, NEW p, s[n + 1] = Reset(u, p)
        PROVE  \E v : l = NoKeyUpdate(User(v)) /\ default[v] = p
    <3>1. s[n + 1].do = "reset" /\ s[n + 1].profile = p
      BY <2>3, StatementKinds
    <3> QED BY <2>2, <3>1
  <2> QED BY <2>2, <2>3
<1>10. ASSUME NEW k \in held[r]
       PROVE  \E i \in 2 .. Len(s) :
                 /\ Fits(request[r], s, i) /\ Takes(s[i], k)
                 /\ i <= n \/ (i = n + 1 /\ Resetting(request[r], s, i))
  <2>1. PICK i \in 1 .. Len(s) :
           /\ i <= n \/ (i = n + 1 /\ s[i].do \in {"reset", "cascade", "restore"})
           /\ Takes(s[i], k)
    BY <1>5 DEF Position
  <2>2. i # 1
    BY <1>5, <2>1, TakesNothing
  <2>3. i \in 2 .. Len(s) /\ Fits(request[r], s, i)
    BY <1>5, <1>8, <2>2
  <2> QED BY <2>1, <2>3, Verbs
<1>11. Fits(request[r], s, n + 1) /\ \A i \in 1 .. n : Settled(r, s[i])
  BY <1>5, <1>6, <1>7, <1>8 DEF Position
<1> QED BY <1>3, <1>4, <1>5, <1>6, <1>7, <1>9, <1>10, <1>11

\* A row that a profile owns, for who has locked the profile.
HasOwner(r, l) ==
    \E row, p :
      /\ Owned(row, p) /\ l \in {Update(row), KeyShare(row)}
      /\ Update(Profile(p)) \in held[r]

\* What a request may wait for.
LEMMA NeedKinds ==
    ASSUME WriterInv, LocksInv, NEW r \in Requests, NEW l \in Needs(r),
           NEW a, a = request[r]
    PROVE  /\ l \notin held[r]
           /\ \/ \E p \in Written(a) : l = Update(Profile(p))
              \/ l = KeyShare(User(a.user))
              \/ a.op \in {"claim", "update_user"} /\ l = KeyShare(Profile(a.profile))
              \/ a.op = "update_user" /\ l = NoKeyUpdate(User(a.user))
              \/ a.op = "create_profile" /\ l = Update(User(a.user))
              \/ a.op = "legacy" /\ l = Update(Advisory(a.user))
              \/ HasOwner(r, l)
              \/ a.op \in Resetters /\ \E u : l = NoKeyUpdate(User(u)) /\ default[u] = a.profile
              \/ a.op \in Resetters /\ \E u \in Users : l = KeyShare(Profile(Main[u]))
<1>1. PICK s, n :
        /\ n \in Nat /\ n >= 1
        /\ Fits(a, s, n + 1)
        /\ Takes(s[n + 1], l) /\ l \notin held[r]
        /\ \A u, p : s[n + 1] = Reset(u, p) => \E v :
              l = NoKeyUpdate(User(v)) /\ default[v] = p
        /\ \A i \in 1 .. n : Settled(r, s[i])
  BY Standing
<1>2. CASE OwnLock(a, s, n + 1)
  BY <1>1, <1>2, TakesLock DEF OwnLock
<1>3. CASE UserShared(a, s, n + 1)
  BY <1>1, <1>3, TakesLock DEF UserShared
<1>4. CASE ProfileShared(a, s, n + 1)
  BY <1>1, <1>4, TakesLock DEF ProfileShared
<1>5. CASE Assigned(a, s, n + 1)
  BY <1>1, <1>5, TakesAssign DEF Assigned
<1>6. CASE UserTaken(a, s, n + 1)
  BY <1>1, <1>6, TakesLock DEF UserTaken
<1>7. CASE AdvisoryTaken(a, s, n + 1)
  <2>1. a.op = "legacy" /\ s[n + 1] = Lock(Update(Advisory(a.user)))
    BY <1>7 DEF AdvisoryTaken
  <2> QED BY <1>1, <2>1, TakesLock
<1>8. CASE OwnedTaken(a, s, n + 1)
  <2>1. PICK row, p : /\ Owned(row, p) /\ s[2] = Lock(Update(Profile(p))) /\ n + 1 > 2
                      /\ s[n + 1] \in {Lock(Update(row)), Lock(KeyShare(row))}
    BY <1>8 DEF OwnedTaken
  <2>2. Update(Profile(p)) \in held[r]
    BY <1>1, <2>1, StatementKinds DEF Settled
  <2>3. l \in {Update(row), KeyShare(row)}
    BY <1>1, <2>1, TakesLock
  <2> QED BY <1>1, <2>1, <2>2, <2>3 DEF HasOwner
<1>9. CASE Counted(a, s, n + 1)
  BY <1>1, <1>9, TakesNothing DEF Counted
<1>10. CASE Resetting(a, s, n + 1)
  <2>1. a.op \in Resetters /\ n + 1 > 2 /\ s[2] = Lock(Update(Profile(a.profile)))
    BY <1>10 DEF Resetting
  <2>2. CASE \E whom : s[n + 1] = Reset(whom, a.profile)
    BY <1>1, <2>1, <2>2
  <2>3. CASE s[n + 1].do = "cascade" /\ \A row \in s[n + 1].rows : Owned(row, a.profile)
    <3>1. Update(Profile(a.profile)) \in held[r]
      BY <1>1, <2>1, StatementKinds DEF Settled
    <3>2. PICK row \in s[n + 1].rows : l = Update(row)
      BY <1>1, <2>3, TakesRows
    <3> QED BY <1>1, <2>3, <3>1, <3>2 DEF HasOwner
  <2>4. CASE s[n + 1] = Restore
    BY <1>1, <2>1, <2>4, TakesRestore
  <2> QED BY <1>10, <2>2, <2>3, <2>4 DEF Resetting
<1> QED
  BY <1>1, <1>2, <1>3, <1>4, <1>5, <1>6, <1>7, <1>8, <1>9, <1>10 DEF Fits

\* What a request may hold while it waits.
LEMMA HeldKinds ==
    ASSUME WriterInv, LocksInv, NEW r \in Requests, Needs(r) # {}, NEW k \in held[r],
           NEW a, a = request[r]
    PROVE  \/ a.op # "legacy" /\ \E p \in Written(a) : k = Update(Profile(p))
           \/ /\ a.op = "claim" /\ k = KeyShare(User(a.user))
              /\ Needs(r) \subseteq {KeyShare(Profile(a.profile))}
           \/ /\ a.op = "update_user" /\ k = NoKeyUpdate(User(a.user))
              /\ Needs(r) \subseteq {KeyShare(Profile(a.profile))}
              /\ default[a.user] # a.profile
           \/ /\ a.op = "legacy" /\ k = Update(Advisory(a.user))
              /\ Needs(r) \subseteq {Update(Profile(Main[a.user]))}
           \/ HasOwner(r, k)
           \/ a.op \in Resetters /\ \E u : k = NoKeyUpdate(User(u))
           \/ a.op \in Resetters /\ \E u \in Users : k = KeyShare(Profile(Main[u]))
<1>1. PICK s, n :
        /\ Stands(r, s, n)
        /\ n \in Nat /\ n >= 1 /\ Len(s) \in Nat /\ n < Len(s)
        /\ \A l \in Needs(r) : Takes(s[n + 1], l)
        /\ \A i \in 1 .. n : Settled(r, s[i])
        /\ \E i \in 2 .. Len(s) :
             /\ Fits(a, s, i) /\ Takes(s[i], k)
             /\ i <= n \/ (i = n + 1 /\ Resetting(a, s, i))
  BY Standing
<1>2. PICK i \in 2 .. Len(s) : /\ Fits(a, s, i) /\ Takes(s[i], k)
                               /\ i <= n \/ (i = n + 1 /\ Resetting(a, s, i))
  BY <1>1
<1>3. CASE OwnLock(a, s, i) /\ ~Resetting(a, s, i)
  <2>1. a.op # "legacy"
    BY <1>1, <1>2, <1>3 DEF OwnLock
  <2> QED BY <1>2, <1>3, <2>1, TakesLock DEF OwnLock
<1>4. CASE UserShared(a, s, i) /\ ~Resetting(a, s, i)
  <2>1. /\ a.op = "claim" /\ i = 2 /\ Len(s) = 3 /\ s[3] = Lock(KeyShare(Profile(a.profile)))
        /\ s[i] = Lock(KeyShare(User(a.user)))
    BY <1>1, <1>2, <1>4 DEF UserShared
  <2>2. n + 1 = 3
    BY <1>1, <1>2, <1>4, <2>1
  <2>3. Needs(r) \subseteq {KeyShare(Profile(a.profile))}
    BY <1>1, <2>1, <2>2, TakesLock
  <2> QED BY <1>2, <2>1, <2>3, TakesLock
<1>5. CASE ProfileShared(a, s, i) /\ ~Resetting(a, s, i)
  BY <1>1, <1>2, <1>5 DEF ProfileShared
<1>6. CASE Assigned(a, s, i) /\ ~Resetting(a, s, i)
  <2>1. /\ a.op = "update_user" /\ i = 2 /\ Len(s) = 3 /\ n + 1 = 3
        /\ s[i] = Assign(a.user, a.profile)
    BY <1>1, <1>2, <1>6 DEF Assigned
  <2>2. a \in Asks
    BY Standing
  <2>3. s # Script(a)
    BY <2>1, <2>2, Scripts
  <2>4. s = WithForeignKey(a) /\ default[a.user] # a.profile
    BY <1>1, <2>3 DEF Stands
  <2>5. s[3] = Lock(KeyShare(Profile(a.profile)))
    BY <2>1, <2>2, <2>4, ForeignKeyScript
  <2>6. Needs(r) \subseteq {KeyShare(Profile(a.profile))}
    BY <1>1, <2>1, <2>5, TakesLock
  <2> QED BY <1>2, <2>1, <2>4, <2>6, TakesAssign
<1>7. CASE UserTaken(a, s, i) /\ ~Resetting(a, s, i)
  BY <1>1, <1>2, <1>7 DEF UserTaken
<1>8. CASE AdvisoryTaken(a, s, i) /\ ~Resetting(a, s, i)
  <2>1. /\ a.op = "legacy" /\ i = 2 /\ n + 1 = 3
        /\ s[2] = Lock(Update(Advisory(a.user)))
        /\ s[3] = Lock(Update(Profile(Main[a.user])))
    BY <1>1, <1>2, <1>8 DEF AdvisoryTaken
  <2>2. Needs(r) \subseteq {Update(Profile(Main[a.user]))}
    BY <1>1, <2>1, TakesLock
  <2> QED BY <1>2, <2>1, <2>2, TakesLock
<1>9. CASE OwnedTaken(a, s, i) /\ ~Resetting(a, s, i)
  <2>1. PICK row, p : /\ Owned(row, p) /\ s[2] = Lock(Update(Profile(p))) /\ i > 2
                      /\ s[i] \in {Lock(Update(row)), Lock(KeyShare(row))}
    BY <1>9 DEF OwnedTaken
  <2>2. Settled(r, s[2])
    BY <1>1, <1>2, <1>9, <2>1
  <2>3. Update(Profile(p)) \in held[r]
    BY <2>1, <2>2, StatementKinds DEF Settled
  <2>4. k \in {Update(row), KeyShare(row)}
    BY <1>2, <2>1, TakesLock
  <2> QED BY <2>1, <2>3, <2>4 DEF HasOwner
<1>10. CASE Counted(a, s, i) /\ ~Resetting(a, s, i)
  BY <1>2, <1>10, TakesNothing DEF Counted
<1>11. CASE Resetting(a, s, i)
  <2>1. a.op \in Resetters /\ i > 2 /\ s[2] = Lock(Update(Profile(a.profile)))
    BY <1>11 DEF Resetting
  <2>2. CASE \E whom \in SUBSET Users : s[i] = Reset(whom, a.profile)
    <3>1. PICK whom \in SUBSET Users : s[i] = Reset(whom, a.profile)
      BY <2>2
    <3>2. \E u \in whom : k = NoKeyUpdate(User(u))
      BY <1>2, <3>1, TakesReset
    <3> QED BY <2>1, <3>2
  <2>3. CASE s[i].do = "cascade" /\ \A row \in s[i].rows : Owned(row, a.profile)
    <3>1. Settled(r, s[2])
      BY <1>1, <1>2, <2>1
    <3>2. Update(Profile(a.profile)) \in held[r]
      BY <2>1, <3>1, StatementKinds DEF Settled
    <3>3. PICK row \in s[i].rows : k = Update(row)
      BY <1>2, <2>3, TakesRows
    <3> QED BY <2>3, <3>2, <3>3 DEF HasOwner
  <2>4. CASE s[i] = Restore
    BY <1>2, <2>1, <2>4, TakesRestore
  <2> QED BY <1>11, <2>2, <2>3, <2>4 DEF Resetting
<1> QED
  BY <1>2, <1>3, <1>4, <1>5, <1>6, <1>7, <1>8, <1>9, <1>10, <1>11 DEF Fits

-----------------------------------------------------------------------------
(* Who waits for whom.                                                     *)

LEMMA OneOwner ==
    ASSUME NEW row, NEW p, Owned(row, p)
    PROVE  /\ \A q : Owned(row, q) => p = q
           /\ \A x : row # Profile(x) /\ row # User(x) /\ row # Advisory(x)
BY Rows DEF Owned

\* The requests of W wait for each other.
Circle(W) ==
    /\ W \subseteq Requests
    /\ \A r \in W : \E l \in Needs(r) : \E t \in W \ {r} : \E k \in held[t] : Blocks(l, k)

\* Rows that a profile owns are safe: who locks one has locked the profile.
LEMMA NoRowWait ==
    ASSUME WriterInv, LocksInv, NEW W, Circle(W), NEW r \in W, NEW t \in W \ {r},
           NEW l, HasOwner(r, l), NEW k \in held[t], Blocks(l, k)
    PROVE  FALSE
<1>1. PICK row, p : /\ Owned(row, p) /\ l \in {Update(row), KeyShare(row)}
                    /\ Update(Profile(p)) \in held[r]
  BY DEF HasOwner
<1>2. r \in Requests /\ t \in Requests /\ r # t /\ Needs(t) # {}
  BY DEF Circle
<1>3. k.row = row
  BY <1>1, BlocksBoth, Modes
<1>4. /\ \A x : row # Profile(x) /\ row # User(x) /\ row # Advisory(x)
      /\ \A q : Owned(row, q) => p = q
  BY <1>1, OneOwner
<1>5. /\ \A x : k # Update(Profile(x)) /\ k # KeyShare(Profile(x))
      /\ \A x : k # KeyShare(User(x)) /\ k # NoKeyUpdate(User(x))
      /\ \A x : k # Update(Advisory(x))
  BY <1>3, <1>4, Modes
<1>6. HasOwner(t, k)
  BY <1>2, <1>5, HeldKinds
<1>7. PICK row2, q : /\ Owned(row2, q) /\ k \in {Update(row2), KeyShare(row2)}
                     /\ Update(Profile(q)) \in held[t]
  BY <1>6 DEF HasOwner
<1>8. row2 = row
  BY <1>3, <1>7, Modes
<1>9. q = p
  BY <1>4, <1>7, <1>8
<1>10. Blocks(Update(Profile(p)), Update(Profile(p)))
  BY Excludes
<1> QED BY <1>1, <1>2, <1>7, <1>9, <1>10 DEF LocksInv, Compatible

\* Nobody waits for the row of a user who keeps it as it is.
LEMMA NoShareWait ==
    ASSUME WriterInv, LocksInv, NEW W, Circle(W), NEW r \in W, NEW t \in W \ {r},
           NEW u, NEW k \in held[t], Blocks(KeyShare(User(u)), k)
    PROVE  FALSE
<1>1. t \in Requests /\ Needs(t) # {}
  BY DEF Circle
<1>2. k.row = User(u)
  BY BlocksBoth, Modes
<1>3. /\ \A x : k # Update(Profile(x)) /\ k # KeyShare(Profile(x))
      /\ \A x : k # Update(Advisory(x))
  BY <1>2, Modes, Rows
<1>4. \A x : k # KeyShare(x) /\ k # NoKeyUpdate(x)
  BY Excludes
<1>5. ~HasOwner(t, k)
  BY <1>2, Modes, OneOwner DEF HasOwner
<1> QED BY <1>1, <1>3, <1>4, <1>5, HeldKinds

\* What is written is one profile.
LEMMA OneWritten ==
    ASSUME NEW a, NEW p \in Written(a)
    PROVE  /\ Written(a) = {p}
           /\ a.op \notin {"claim", "update_user", "create_profile"}
           /\ a.op \in Resetters => p = a.profile
BY DEF Written, Resetters

\* Who waits with the lock of a profile takes away defaults of that profile.
LEMMA ProfileHolder ==
    ASSUME WriterInv, LocksInv, NEW W, Circle(W), NEW r \in W,
           NEW p, Update(Profile(p)) \in held[r]
    PROVE  request[r].op \in Resetters /\ p = request[r].profile
<1> DEFINE a == request[r]
<1>1. r \in Requests
  BY DEF Circle
<1>2. PICK l \in Needs(r), t \in W \ {r} : \E k \in held[t] : Blocks(l, k)
  BY DEF Circle
<1>3. PICK k \in held[t] : Blocks(l, k)
  BY <1>2
<1>4. a.op # "legacy" /\ \E q \in Written(a) : Update(Profile(p)) = Update(Profile(q))
  <2> DEFINE h == Update(Profile(p))
  <2>1. /\ \A x : h # KeyShare(x) /\ h # NoKeyUpdate(x)
        /\ \A x : h # Update(Advisory(x))
    BY Modes, Rows
  <2>2. ~HasOwner(r, h)
    BY Modes, OneOwner DEF HasOwner
  <2> HIDE DEF h
  <2>3. h \in held[r] /\ Needs(r) # {}
    BY DEF h
  <2>4. a.op # "legacy" /\ \E q \in Written(a) : h = Update(Profile(q))
    BY <1>1, <2>1, <2>2, <2>3, HeldKinds
  <2> QED BY <2>4 DEF h
<1>5. p \in Written(a)
  BY <1>4, Modes, Rows
<1>6. /\ Written(a) = {p} /\ a.op \notin {"claim", "update_user", "create_profile"}
      /\ a.op \in Resetters => p = a.profile
  BY <1>5, OneWritten
<1>7. l \notin held[r]
  BY <1>1, NeedKinds
<1>8. l # KeyShare(User(a.user))
  BY <1>3, NoShareWait
<1>9. ~HasOwner(r, l)
  BY <1>3, NoRowWait
<1>10. \A q \in Written(a) : l # Update(Profile(q))
  BY <1>6, <1>7
<1>11. a.op \in Resetters
  BY <1>1, <1>4, <1>6, <1>8, <1>9, <1>10, NeedKinds
<1> QED BY <1>6, <1>11

\* Who is waited for because of a profile takes away defaults.
LEMMA ToProfile ==
    ASSUME WriterInv, LocksInv, NEW W, Circle(W), NEW r \in W, NEW t \in W \ {r},
           NEW l \in Needs(r), NEW k \in held[t], Blocks(l, k), NEW p, l.row = Profile(p)
    PROVE  /\ request[t].op \in Resetters
           /\ l = KeyShare(Profile(p)) => request[t].profile = p
<1>1. t \in Requests /\ Needs(t) # {}
  BY DEF Circle
<1>2. k.row = Profile(p)
  BY BlocksBoth
<1>3. /\ \A x : k # KeyShare(User(x)) /\ k # NoKeyUpdate(User(x))
      /\ \A x : k # Update(Advisory(x))
  BY <1>2, Modes, Rows
<1>4. ~HasOwner(t, k)
  BY <1>2, Modes, OneOwner DEF HasOwner
<1>5. \/ \E q : k = Update(Profile(q))
      \/ request[t].op \in Resetters /\ \E x : k = KeyShare(x)
  BY <1>1, <1>3, <1>4, HeldKinds
<1>6. ASSUME NEW q, k = Update(Profile(q))
      PROVE  request[t].op \in Resetters /\ request[t].profile = p
  <2>1. q = p
    BY <1>2, <1>6, Modes, Rows
  <2> QED BY <1>6, <2>1, ProfileHolder
<1>7. ASSUME NEW x, k = KeyShare(x)
      PROVE  l # KeyShare(Profile(p))
  BY <1>7, Excludes
<1> QED BY <1>5, <1>6, <1>7

\* Who needs the lock of a profile to change a default, to reserve a reminder
\* or for a command of the bot waits for somebody who takes away defaults.
LEMMA AtProfile ==
    ASSUME WriterInv, LocksInv, NEW W, Circle(W), NEW r \in W,
           NEW p, Needs(r) \subseteq {Update(Profile(p)), KeyShare(Profile(p))}
    PROVE  \E t \in W \ {r} :
             /\ request[t].op \in Resetters
             /\ Needs(r) \subseteq {KeyShare(Profile(p))} => request[t].profile = p
<1>1. PICK l \in Needs(r), t \in W \ {r} : \E k \in held[t] : Blocks(l, k)
  BY DEF Circle
<1>2. PICK k \in held[t] : Blocks(l, k)
  BY <1>1
<1>3. l.row = Profile(p)
  BY Modes
<1>4. request[t].op \in Resetters /\ (l = KeyShare(Profile(p)) => request[t].profile = p)
  BY <1>2, <1>3, ToProfile
<1> QED BY <1>4

\* The row of a user is kept by a change of his default that looks at its new
\* profile, by a reservation that does, or by who takes away defaults.
LEMMA AtUser ==
    ASSUME WriterInv, LocksInv, NEW W, Circle(W), NEW t \in W, NEW k \in held[t],
           NEW u, k.row = User(u)
    PROVE  \/ request[t].op \in Resetters
           \/ /\ Needs(t) \subseteq {KeyShare(Profile(request[t].profile))}
              /\ k = NoKeyUpdate(User(u)) =>
                   u = request[t].user /\ default[u] # request[t].profile
<1> DEFINE a == request[t]
<1>1. t \in Requests /\ Needs(t) # {}
  BY DEF Circle
<1>2. /\ \A x : k # Update(Profile(x)) /\ k # KeyShare(Profile(x))
      /\ \A x : k # Update(Advisory(x))
  BY Modes, Rows
<1>3. ~HasOwner(t, k)
  BY Modes, OneOwner DEF HasOwner
<1>4. \/ a.op \in Resetters
      \/ k = KeyShare(User(a.user)) /\ Needs(t) \subseteq {KeyShare(Profile(a.profile))}
      \/ /\ k = NoKeyUpdate(User(a.user)) /\ default[a.user] # a.profile
         /\ Needs(t) \subseteq {KeyShare(Profile(a.profile))}
  BY <1>1, <1>2, <1>3, HeldKinds
<1>5. k = NoKeyUpdate(User(a.user)) => a.user = u
  BY Modes, Rows
<1>6. k = KeyShare(User(a.user)) => k # NoKeyUpdate(User(u))
  BY Modes
<1> QED BY <1>4, <1>5, <1>6

\* Somebody takes away defaults.
LEMMA SomeResetter ==
    ASSUME WriterInv, LocksInv, NEW W, Circle(W), NEW r \in W
    PROVE  \E t \in W : request[t].op \in Resetters
<1> DEFINE a == request[r]
<1>1. r \in Requests
  BY DEF Circle
<1>2. PICK l \in Needs(r), t \in W \ {r} : \E k \in held[t] : Blocks(l, k)
  BY DEF Circle
<1>3. PICK k \in held[t] : Blocks(l, k)
  BY <1>2
<1>4. k.row = l.row
  BY <1>3, BlocksBoth
<1>5. CASE \E p : l.row = Profile(p)
  BY <1>2, <1>3, <1>5, ToProfile
<1>6. CASE \E u : l.row = User(u)
  <2>1. PICK u : k.row = User(u)
    BY <1>4, <1>6
  <2>2. \/ request[t].op \in Resetters
        \/ Needs(t) \subseteq {KeyShare(Profile(request[t].profile))}
    BY <1>2, <1>3, <2>1, AtUser
  <2>3. CASE Needs(t) \subseteq {KeyShare(Profile(request[t].profile))}
    <3>1. Needs(t) \subseteq {Update(Profile(request[t].profile)),
                               KeyShare(Profile(request[t].profile))}
      BY <2>3
    <3> QED BY <1>2, <3>1, AtProfile
  <2> QED BY <2>2, <2>3
<1>7. CASE l = Update(Advisory(a.user))
  <2>1. t \in Requests /\ Needs(t) # {}
    BY DEF Circle
  <2>2. k.row = Advisory(a.user)
    BY <1>4, <1>7, Modes
  <2>3. /\ \A x : k # Update(Profile(x)) /\ k # KeyShare(Profile(x))
        /\ \A x : k # KeyShare(User(x)) /\ k # NoKeyUpdate(User(x))
    BY <2>2, Modes, Rows
  <2>4. ~HasOwner(t, k)
    BY <2>2, Modes, OneOwner DEF HasOwner
  <2>5. Needs(t) \subseteq {Update(Profile(Main[request[t].user]))}
    BY <1>3, <2>1, <2>3, <2>4, HeldKinds
  <2>6. Needs(t) \subseteq {Update(Profile(Main[request[t].user])),
                             KeyShare(Profile(Main[request[t].user]))}
    BY <2>5
  <2> QED BY <1>2, <2>6, AtProfile
<1>8. ~HasOwner(r, l)
  BY <1>2, <1>3, NoRowWait
<1>9. \/ \E p : l.row = Profile(p)
      \/ \E u : l.row = User(u)
      \/ l = Update(Advisory(a.user))
  BY <1>1, <1>8, NeedKinds, Modes
<1> QED BY <1>5, <1>6, <1>7, <1>9

\* It takes two of them.
LEMMA SecondResetter ==
    ASSUME WriterInv, LocksInv, NEW W, Circle(W), NEW r \in W, request[r].op \in Resetters
    PROVE  \E t \in W \ {r} : request[t].op \in Resetters
<1> DEFINE a == request[r]
<1>1. r \in Requests
  BY DEF Circle
<1>2. PICK l \in Needs(r), t \in W \ {r} : \E k \in held[t] : Blocks(l, k)
  BY DEF Circle
<1>3. PICK k \in held[t] : Blocks(l, k)
  BY <1>2
<1>4. k.row = l.row
  BY <1>3, BlocksBoth
<1>5. CASE \E p : l.row = Profile(p)
  BY <1>2, <1>3, <1>5, ToProfile
<1>6. CASE \E u : l = NoKeyUpdate(User(u)) /\ default[u] = a.profile
  <2>1. PICK u : l = NoKeyUpdate(User(u)) /\ default[u] = a.profile
    BY <1>6
  <2>2. k.row = User(u)
    BY <1>4, <2>1, Modes
  <2>3. CASE request[t].op \in Resetters
    BY <2>3
  <2>4. CASE request[t].op \notin Resetters
    <3> DEFINE q == request[t].profile
    <3>1. k = NoKeyUpdate(User(u))
      <4>1. t \in Requests /\ Needs(t) # {}
        BY DEF Circle
      <4>2. /\ \A x : k # Update(Profile(x)) /\ k # KeyShare(x)
            /\ \A x : k # Update(Advisory(x))
        BY <1>3, <2>1, <2>2, Modes, Rows, Excludes
      <4>3. ~HasOwner(t, k)
        BY <2>2, Modes, OneOwner DEF HasOwner
      <4>4. k = NoKeyUpdate(User(request[t].user))
        BY <2>4, <4>1, <4>2, <4>3, HeldKinds
      <4> QED BY <2>2, <4>4, Modes, Rows
    <3>2. Needs(t) \subseteq {KeyShare(Profile(q))} /\ default[u] # q
      BY <1>2, <1>3, <2>2, <2>4, <3>1, AtUser
    <3>3. PICK x \in W \ {t} : request[x].op \in Resetters /\ request[x].profile = q
      <4>1. Needs(t) \subseteq {Update(Profile(q)), KeyShare(Profile(q))}
        BY <3>2
      <4> QED BY <1>2, <3>2, <4>1, AtProfile
    <3>4. x # r
      BY <2>1, <3>2, <3>3
    <3> QED BY <3>3, <3>4
  <2> QED BY <2>3, <2>4
<1>7. l # KeyShare(User(a.user))
  BY <1>2, <1>3, NoShareWait
<1>8. ~HasOwner(r, l)
  BY <1>2, <1>3, NoRowWait
<1>9. \/ \E p : l.row = Profile(p)
      \/ \E u : l = NoKeyUpdate(User(u)) /\ default[u] = a.profile
  <2>1. a.op \notin {"claim", "update_user", "create_profile", "legacy"}
    BY DEF Resetters
  <2> QED BY <1>1, <1>7, <1>8, <2>1, NeedKinds, Modes
<1> QED BY <1>5, <1>6, <1>9

\* The connections of the pool, when all are given out, are somebody's.
LEMMA PoolUsed ==
    ASSUME Pool, InUse >= PoolSize, \A q \in Requests : conns[q] \in 0 .. 1
    PROVE  \E q \in Requests : conns[q] = 1
<1> SUFFICES ASSUME \A q \in Requests : conns[q] = 0
             PROVE  FALSE
  OBVIOUS
<1>1. Given = {}
  <2>1. ASSUME NEW x \in Given
        PROVE  FALSE
    <3>1. PICK q \in Requests : x \in {q} \X (1 .. conns[q])
      BY <2>1 DEF Given
    <3> QED BY <3>1
  <2> QED BY <2>1
<1>2. Cardinality(Given) = 0
  BY <1>1, FS_EmptySet
<1>3. InUse = 0
  BY <1>2 DEF InUse, Given
<1> QED BY <1>3, TransactionAssumption

LEMMA CircleOfTwo ==
    ASSUME WriterInv, LocksInv
    PROVE  OnlyResetsDeadlock
<1> SUFFICES ASSUME NEW S \in SUBSET Requests, S # {}, \A r \in S : Stuck(r, S)
             PROVE  \E r, s \in S :
                      /\ r # s
                      /\ {request[r].op, request[s].op} \subseteq Resetters
  BY DEF OnlyResetsDeadlock, Resetters
<1> DEFINE W == {r \in S : conns[r] = 1}
<1>1. ASSUME NEW r \in Requests
      PROVE  /\ conns[r] \in 0 .. 1 /\ (held[r] # {} => conns[r] = 1)
             /\ conns[r] = 1 => ~At(r, "connect")
  <2>1. Requested /\ IsSeq(todo[r])
    BY DEF LocksInv, WriterInv, Shape
  <2>2. CASE Active(r)
    BY <2>1, <2>2, Connected
  <2>3. CASE ~Active(r)
    BY <2>1, <2>3 DEF Requested, Idle
  <2> QED BY <2>2, <2>3
<1>2. ASSUME NEW r \in S, NEW s \in S, Waits(r, s)
      PROVE  /\ s \in W /\ s # r
             /\ \E l \in Needs(r) : \E k \in held[s] : Blocks(l, k)
  <2>1. PICK l \in Needs(r) : s \in Holders(r, l)
    BY <1>2 DEF Waits
  <2>2. s # r /\ \E k \in held[s] : Blocks(l, k)
    BY <2>1 DEF Holders
  <2>3. conns[s] = 1
    BY <1>1, <2>2
  <2> QED BY <2>1, <2>2, <2>3
<1>3. Circle(W)
  <2>1. ASSUME NEW r \in W
        PROVE  \E l \in Needs(r) : \E t \in W \ {r} : \E k \in held[t] : Blocks(l, k)
    <3>1. r \in S /\ ~At(r, "connect")
      BY <1>1
    <3>2. PICK s \in S : Waits(r, s)
      BY <3>1 DEF Stuck
    <3> QED BY <1>2, <3>1, <3>2
  <2> QED BY <2>1 DEF Circle
<1>4. W # {}
  <2>1. PICK r \in S : Stuck(r, S)
    OBVIOUS
  <2>2. CASE \E s \in S : Waits(r, s)
    BY <1>2, <2>2
  <2>3. CASE ~\E s \in S : Waits(r, s)
    <3>1. InUse >= PoolSize /\ \A s \in Requests : conns[s] > 0 => s \in S
      BY <2>1, <2>3 DEF Stuck
    <3>2. PICK q \in Requests : conns[q] = 1
      BY <1>1, <3>1, PoolUsed DEF LocksInv
    <3> QED BY <3>1, <3>2
  <2> QED BY <2>2, <2>3
<1> HIDE DEF W
<1>5. PICK r \in W : request[r].op \in Resetters
  BY <1>3, <1>4, SomeResetter
<1>6. PICK t \in W \ {r} : request[t].op \in Resetters
  BY <1>3, <1>5, SecondResetter
<1>7. W \subseteq S
  BY DEF W
<1> QED BY <1>5, <1>6, <1>7

\* Requests wait for each other only when two of them take away defaults
\* (remove_member, delete_profile of planner/service.py): whatever else holds
\* a lock that somebody needs can go on, and so does the pool.
THEOREM SpecOnlyResetsDeadlock == Spec => []OnlyResetsDeadlock
<1>1. Whole => OnlyResetsDeadlock
  BY CircleOfTwo DEF Whole
<1> QED BY <1>1, WholeHolds, PTL
=============================================================================
