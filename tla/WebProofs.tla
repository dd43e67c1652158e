------------------------------ MODULE WebProofs ------------------------------
(***************************************************************************)
(* What the web client shows after late, reordered and lost answers, and   *)
(* what pressing "save" again repeats: the inductive invariants of          *)
(* WebScreen and WebTasks and the properties that follow from them.        *)
(***************************************************************************)
EXTENDS WebTasks, FiniteSetTheorems, TLAPS

-----------------------------------------------------------------------------
(* The invariant of the screen. *)

Mondays == {Monday(d) : d \in Dates}
Weeks == [pid : Profiles, monday : Mondays, read : Nat]
Calls == [serial : Nat, boot : BOOLEAN, pid : Profiles \cup {None},
          monday : Mondays \cup {None}, read : Nat \cup {None}]

ScreenTypes ==
    /\ pid \in Profiles \cup {None}
    /\ date \in Dates
    /\ week \in Weeks \cup {None}
    /\ serial \in Nat
    /\ calls \subseteq Calls
    /\ busy \in BOOLEAN /\ loaded \in BOOLEAN
    /\ access \subseteq Profiles /\ Default \in access
    /\ changes \in [Profiles -> Nat] /\ shouldSee \in [Profiles -> Nat]

\* Nobody has seen, or has been promised, more changes than were made.
NothingFromTheFuture ==
    /\ \A p \in Profiles : shouldSee[p] <= changes[p]
    /\ week # None => week.read <= changes[week.pid]
    /\ \A c \in calls : c.read # None =>
           ~c.boot /\ c.pid \in Profiles /\ c.read <= changes[c.pid]

\* Every call of refresh has a number of its own, none is ahead of the counter.
OneCallEach ==
    /\ \A c \in calls : c.serial \in 1..serial
    /\ \A c, d \in calls : c.serial = d.serial => c = d

\* The newest call has read after the last change that was reported: reporting
\* a change starts a call.
NewestIsFresh ==
    \A c \in calls : Newest(c) /\ c.read # None => c.read >= shouldSee[c.pid]

LoadedIsNewest ==
    loaded =>
        /\ \A c \in calls : ~Newest(c)
        /\ week # None /\ week.pid = pid /\ week.read >= shouldSee[pid]

DrawnIsKept == screen = "data" => week # None

\* A call that knows its profile asks for a week; the newest for the week of the
\* day, unless that day was chosen on the week that is kept.
AsksForTheDay ==
    \A c \in calls : ~c.boot =>
        /\ c.monday \in Mondays
        /\ Newest(c) =>
               c.monday = Monday(date) \/ (week # None /\ week.monday = Monday(date))

ScreenInv ==
    /\ ScreenTypes /\ NothingFromTheFuture /\ OneCallEach /\ NewestIsFresh
    /\ BusyWhileWaiting /\ LoadedIsNewest /\ DrawnIsKept /\ AsksForTheDay

Forms == [pid : Profiles \cup {None}, task : {None, "known"}, files : FileLists,
          uploaded : Nat, at : {"edit", "task", "file", "saved"},
          sending : Files \cup {None}, changed : BOOLEAN]

\* The counts are numbers, and those of the files add up.
SheetTypes ==
    /\ form \in Forms \cup {None}
    /\ made \in Nat
    /\ attached \in [Files -> Nat] /\ IsFiniteSet(Occurrences(attached))
    /\ lost \in [Files \cup {None} -> Nat]

\* Files are uploaded only to a task that is known, and the sheet closes only
\* after the last one.  While the choice stands, the file under way is the next.
InOrder ==
    form # None =>
        /\ form.uploaded <= Total(attached)
        /\ form.at \in {"file", "saved"} => form.task = "known"
        /\ form.at = "file" => form.sending \in Files
        /\ form.at = "file" /\ ~form.changed =>
               form.uploaded < Len(form.files) /\ form.sending = form.files[form.uploaded + 1]
        /\ form.at = "saved" => form.uploaded >= Len(form.files)

\* A task that the client does not know was made as often as its answer was
\* lost.
MadeOnce ==
    form # None =>
        /\ made <= 1 + lost[None]
        /\ form.task = None => made <= lost[None]

\* While the choice of files stands, the count of uploads is the place in it up
\* to which every file is attached; the others are only if an answer was lost.
UploadedUpTo ==
    form # None /\ ~form.changed =>
        /\ form.uploaded <= Len(form.files)
        /\ \A i \in 1..form.uploaded :
               attached[form.files[i]] \in 1..(1 + lost[form.files[i]])
        /\ \A file \in Files :
               (\A i \in 1..form.uploaded : form.files[i] # file) => attached[file] <= lost[file]

\* As long as no file counts as uploaded, a file is attached only if its answer
\* was lost: whatever is chosen then, the count fits it.
NoneUploaded ==
    form # None /\ form.uploaded = 0 => \A file \in Files : attached[file] <= lost[file]

SheetInv == SheetTypes /\ InOrder /\ MadeOnce /\ UploadedUpTo /\ NoneUploaded

-----------------------------------------------------------------------------
(* Steps of the screen. *)

\* Before the first answer nothing is kept and one call is outstanding.
LEMMA ScreenStart == ScreenInit => ScreenInv
<1> SUFFICES ASSUME ScreenInit PROVE ScreenInv
  OBVIOUS
<1>1. ScreenTypes
  <2>1. [serial |-> 1, boot |-> TRUE, pid |-> None, monday |-> None, read |-> None] \in Calls
    BY DEF Calls
  <2>2. QED
    BY <2>1, ScreenAssumption DEF ScreenInit, ScreenTypes
<1>2. QED
  BY <1>1, ScreenAssumption DEF ScreenInit, ScreenInv, NothingFromTheFuture, OneCallEach,
     NewestIsFresh, BusyWhileWaiting, LoadedIsNewest, DrawnIsKept, AsksForTheDay, Newest

\* refresh() with whatever the server has done and the client has reported in
\* the same step: the new call is the newest and has read nothing.
LEMMA RefreshKeeps ==
    ASSUME ScreenInv, NEW p \in Profiles \cup {None}, NEW d \in Dates, NEW boot \in BOOLEAN,
           Refresh(p, d, boot),
           changes' \in [Profiles -> Nat], \A q \in Profiles : changes[q] <= changes'[q],
           shouldSee' \in [Profiles -> Nat], \A q \in Profiles : shouldSee'[q] <= changes'[q],
           access' \subseteq Profiles, Default \in access'
    PROVE  ScreenInv'
<1> DEFINE new == [serial |-> serial + 1, boot |-> boot, pid |-> IF boot THEN None ELSE p,
                   monday |-> IF boot THEN None ELSE Monday(d), read |-> None]
<1>1. /\ ScreenTypes /\ NothingFromTheFuture /\ OneCallEach /\ DrawnIsKept
      /\ serial \in Nat /\ calls \subseteq Calls
  BY DEF ScreenInv, ScreenTypes
<1>2. /\ pid' = p /\ date' = d /\ week' = week /\ serial' = serial + 1
      /\ calls' = calls \cup {new} /\ busy' = TRUE /\ loaded' = FALSE
      /\ screen' \in {"loading", "error"}
  BY DEF Refresh
<1>3. new \in Calls
  BY <1>1 DEF Calls, Mondays
<1>4. new.serial = serial' /\ new.boot = boot /\ new.read = None
      /\ (~boot => new.monday = Monday(d))
  BY <1>2
<1>5. \A c \in calls : ~Newest(c)'
  BY <1>1, <1>2 DEF OneCallEach, Newest
<1> HIDE DEF new
<1>6. ScreenTypes'
  <2>1. calls' \subseteq Calls /\ serial' \in Nat
    BY <1>1, <1>2, <1>3
  <2>2. busy' \in BOOLEAN /\ loaded' \in BOOLEAN /\ week' \in Weeks \cup {None}
    BY <1>1, <1>2 DEF ScreenTypes
  <2>3. QED
    BY <1>2, <2>1, <2>2 DEF ScreenTypes
<1>7. NothingFromTheFuture'
  <2>1. ASSUME NEW c \in calls', c.read # None
        PROVE  ~c.boot /\ c.pid \in Profiles /\ c.read <= changes'[c.pid]
    <3>1. c \in calls
      BY <1>2, <1>4, <2>1
    <3>2. c.pid \in Profiles /\ c.read \in Nat /\ c.read <= changes[c.pid] /\ ~c.boot
      BY <1>1, <2>1, <3>1 DEF NothingFromTheFuture, Calls
    <3>3. QED
      BY <1>1, <3>2 DEF ScreenTypes
  <2>2. ASSUME week # None PROVE week.read <= changes'[week.pid]
    <3>1. week.pid \in Profiles /\ week.read \in Nat /\ week.read <= changes[week.pid]
      BY <1>1, <2>2 DEF NothingFromTheFuture, ScreenTypes, Weeks
    <3>2. QED
      BY <1>1, <3>1 DEF ScreenTypes
  <2>3. QED
    BY <1>2, <2>1, <2>2 DEF NothingFromTheFuture
<1>8. OneCallEach'
  BY <1>1, <1>2, <1>4 DEF OneCallEach
<1>9. NewestIsFresh'
  BY <1>2, <1>4, <1>5 DEF NewestIsFresh
<1>10. BusyWhileWaiting'
  BY <1>2, <1>4 DEF BusyWhileWaiting, Newest
<1>11. LoadedIsNewest' /\ DrawnIsKept'
  BY <1>2 DEF LoadedIsNewest, DrawnIsKept
<1>12. AsksForTheDay'
  BY <1>1, <1>2, <1>4, <1>5 DEF AsksForTheDay, Mondays, ScreenInv
<1>13. QED
  BY <1>6, <1>7, <1>8, <1>9, <1>10, <1>11, <1>12 DEF ScreenInv

\* The server goes on while the client keeps everything.
LEMMA ServerKeeps ==
    ASSUME ScreenInv, UNCHANGED <<client, shouldSee>>,
           changes' \in [Profiles -> Nat], \A q \in Profiles : changes[q] <= changes'[q],
           access' \subseteq Profiles, Default \in access'
    PROVE  ScreenInv'
<1>1. /\ ScreenTypes /\ NothingFromTheFuture /\ OneCallEach /\ NewestIsFresh
      /\ BusyWhileWaiting /\ LoadedIsNewest /\ DrawnIsKept /\ AsksForTheDay
  BY DEF ScreenInv
<1>2. /\ pid' = pid /\ date' = date /\ week' = week /\ serial' = serial
      /\ calls' = calls /\ busy' = busy /\ screen' = screen /\ loaded' = loaded
      /\ shouldSee' = shouldSee
  BY DEF client
<1>3. ScreenTypes'
  BY <1>1, <1>2 DEF ScreenTypes
<1>4. NothingFromTheFuture'
  <2>1. ASSUME NEW c \in calls, c.read # None
        PROVE  ~c.boot /\ c.pid \in Profiles /\ c.read <= changes'[c.pid]
    <3>1. c.pid \in Profiles /\ c.read \in Nat /\ c.read <= changes[c.pid] /\ ~c.boot
      BY <1>1, <2>1 DEF NothingFromTheFuture, ScreenTypes, Calls
    <3>2. QED
      BY <1>1, <3>1 DEF ScreenTypes
  <2>2. ASSUME week # None PROVE week.read <= changes'[week.pid]
    <3>1. week.pid \in Profiles /\ week.read \in Nat /\ week.read <= changes[week.pid]
      BY <1>1, <2>2 DEF NothingFromTheFuture, ScreenTypes, Weeks
    <3>2. QED
      BY <1>1, <3>1 DEF ScreenTypes
  <2>3. \A q \in Profiles : shouldSee[q] <= changes'[q]
    BY <1>1 DEF NothingFromTheFuture, ScreenTypes
  <2>4. QED
    BY <1>2, <2>1, <2>2, <2>3 DEF NothingFromTheFuture
<1>5. OneCallEach' /\ NewestIsFresh' /\ BusyWhileWaiting' /\ LoadedIsNewest'
      /\ DrawnIsKept' /\ AsksForTheDay'
  BY <1>1, <1>2 DEF OneCallEach, NewestIsFresh, BusyWhileWaiting, LoadedIsNewest,
     DrawnIsKept, AsksForTheDay, Newest
<1>6. QED
  BY <1>3, <1>4, <1>5 DEF ScreenInv

\* Neither goes on.
LEMMA ScreenStays ==
    ASSUME ScreenInv, UNCHANGED <<client, server, shouldSee>> PROVE ScreenInv'
<1>1. /\ changes \in [Profiles -> Nat] /\ \A q \in Profiles : changes[q] <= changes[q]
      /\ access \subseteq Profiles /\ Default \in access
  BY DEF ScreenInv, ScreenTypes
<1>2. QED
  BY <1>1, ServerKeeps DEF server

\* The answer of bootstrap turns the call into one for a profile and a week.
LEMMA BootstrapKeeps ==
    ASSUME ScreenInv, NEW c \in calls, Bootstrap(c) PROVE ScreenInv'
<1> DEFINE p == IF pid \in access THEN pid ELSE Default
           new == [c EXCEPT !.boot = FALSE, !.pid = p, !.monday = Monday(date)]
<1>1. /\ ScreenTypes /\ NothingFromTheFuture /\ OneCallEach /\ NewestIsFresh
      /\ BusyWhileWaiting /\ LoadedIsNewest /\ DrawnIsKept /\ AsksForTheDay
  BY DEF ScreenInv
<1>2. /\ c \in Calls /\ c.boot
      /\ UNCHANGED <<date, week, serial, busy, screen, loaded, changes, access, shouldSee>>
  BY <1>1 DEF Bootstrap, ScreenTypes, server
<1>3. c.read = None
  BY <1>1, <1>2 DEF NothingFromTheFuture
<1>4. p \in Profiles /\ date \in Dates
  BY <1>1, ScreenAssumption DEF ScreenTypes
<1>5. new \in Calls /\ new.serial = c.serial /\ ~new.boot /\ new.read = None
      /\ new.monday = Monday(date)
  BY <1>2, <1>3, <1>4 DEF Calls, Mondays
<1> HIDE DEF p, new
<1>6. CASE Newest(c)
  <2>1. pid' = p /\ calls' = (calls \ {c}) \cup {new}
    BY <1>6 DEF Bootstrap, p, new
  <2>2. ~loaded
    BY <1>1, <1>6 DEF LoadedIsNewest
  <2>3. \A e \in calls \ {c} : ~Newest(e)
    BY <1>1, <1>6 DEF OneCallEach, Newest
  <2>4. ScreenTypes'
    BY <1>1, <1>2, <1>4, <1>5, <2>1 DEF ScreenTypes
  <2>5. NothingFromTheFuture' /\ OneCallEach' /\ NewestIsFresh' /\ AsksForTheDay'
    BY <1>1, <1>2, <1>4, <1>5, <2>1, <2>3
    DEF NothingFromTheFuture, OneCallEach, NewestIsFresh, AsksForTheDay, Newest, Mondays
  <2>6. BusyWhileWaiting' /\ LoadedIsNewest' /\ DrawnIsKept'
    BY <1>1, <1>2, <1>5, <1>6, <2>1, <2>2
    DEF BusyWhileWaiting, LoadedIsNewest, DrawnIsKept, Newest
  <2>7. QED
    BY <2>4, <2>5, <2>6 DEF ScreenInv
<1>7. CASE ~Newest(c)
  <2>1. pid' = pid /\ calls' = calls \ {c}
    BY <1>7 DEF Bootstrap
  <2>2. ScreenTypes'
    BY <1>1, <1>2, <2>1 DEF ScreenTypes
  <2>3. QED
    BY <1>1, <1>2, <1>7, <2>1, <2>2 DEF ScreenInv, NothingFromTheFuture, OneCallEach,
       NewestIsFresh, BusyWhileWaiting, LoadedIsNewest, DrawnIsKept, AsksForTheDay, Newest
<1>8. QED
  BY <1>6, <1>7

\* The server reads what it has: nothing that was reported can be newer.
LEMMA ServeKeeps ==
    ASSUME ScreenInv, NEW c \in calls, Serve(c) PROVE ScreenInv'
<1> DEFINE new == [c EXCEPT !.read = changes[c.pid]]
<1>1. /\ ScreenTypes /\ NothingFromTheFuture /\ OneCallEach /\ NewestIsFresh
      /\ BusyWhileWaiting /\ LoadedIsNewest /\ DrawnIsKept /\ AsksForTheDay
  BY DEF ScreenInv
<1>2. /\ c \in Calls /\ ~c.boot /\ c.pid \in Profiles /\ changes[c.pid] \in Nat
      /\ UNCHANGED <<pid, date, week, serial, busy, screen, loaded, changes, access, shouldSee>>
      /\ calls' = (calls \ {c}) \cup {new}
  BY <1>1 DEF Serve, ScreenTypes, server
<1>3. /\ new \in Calls /\ new.serial = c.serial /\ ~new.boot /\ new.pid = c.pid
      /\ new.read = changes[c.pid] /\ new.monday = c.monday
  BY <1>2 DEF Calls
<1> HIDE DEF new
<1>4. ScreenTypes'
  BY <1>1, <1>2, <1>3 DEF ScreenTypes
<1>5. shouldSee[c.pid] <= changes[c.pid]
  BY <1>1, <1>2 DEF NothingFromTheFuture
<1>6. NothingFromTheFuture' /\ OneCallEach' /\ NewestIsFresh'
  BY <1>1, <1>2, <1>3, <1>5
  DEF NothingFromTheFuture, OneCallEach, NewestIsFresh, Newest
<1>7. BusyWhileWaiting' /\ LoadedIsNewest' /\ DrawnIsKept' /\ AsksForTheDay'
  BY <1>1, <1>2, <1>3
  DEF BusyWhileWaiting, LoadedIsNewest, DrawnIsKept, AsksForTheDay, Newest
<1>8. QED
  BY <1>4, <1>6, <1>7 DEF ScreenInv

\* Answers are kept from the newest call only, and only for the chosen profile.
LEMMA AnswerKeeps ==
    ASSUME ScreenInv, NEW c \in calls, Answer(c) PROVE ScreenInv'
<1>1. /\ ScreenTypes /\ NothingFromTheFuture /\ OneCallEach /\ NewestIsFresh
      /\ BusyWhileWaiting /\ LoadedIsNewest /\ DrawnIsKept /\ AsksForTheDay
  BY DEF ScreenInv
<1>2. /\ c.read # None /\ calls' = calls \ {c}
      /\ UNCHANGED <<pid, date, serial, changes, access, shouldSee>>
      /\ busy' = IF Newest(c) THEN FALSE ELSE busy
  BY DEF Answer, server
<1>3. c \in Calls /\ ~c.boot /\ c.pid \in Profiles /\ c.read \in Nat
      /\ c.read <= changes[c.pid]
  BY <1>1, <1>2 DEF NothingFromTheFuture, ScreenTypes, Calls
<1>4. OneCallEach' /\ NewestIsFresh'
  BY <1>1, <1>2 DEF OneCallEach, NewestIsFresh, Newest
<1>5. BusyWhileWaiting'
  BY <1>1, <1>2 DEF BusyWhileWaiting, OneCallEach, Newest
<1>6. CASE Newest(c) /\ c.pid = pid
  <2> DEFINE new == [pid |-> c.pid, monday |-> c.monday, read |-> c.read]
  <2>1. week' = new /\ screen' = "data" /\ loaded' = TRUE
    BY <1>6 DEF Answer
  <2>2. \A e \in calls' : ~Newest(e)'
    BY <1>1, <1>2, <1>6 DEF OneCallEach, Newest
  <2>3. c.read >= shouldSee[pid]
    BY <1>1, <1>2, <1>6 DEF NewestIsFresh
  <2>4. new \in Weeks /\ new.pid = c.pid /\ new.read = c.read
    BY <1>1, <1>3 DEF Weeks, AsksForTheDay
  <2>5. new # None
    BY <2>4, ScreenAssumption DEF Weeks, Mondays
  <2> HIDE DEF new
  <2>6. ScreenTypes' /\ NothingFromTheFuture'
    BY <1>1, <1>2, <1>3, <2>1, <2>4 DEF ScreenTypes, NothingFromTheFuture
  <2>7. LoadedIsNewest' /\ DrawnIsKept'
    BY <1>2, <1>6, <2>1, <2>2, <2>3, <2>4, <2>5 DEF LoadedIsNewest, DrawnIsKept
  <2>8. AsksForTheDay'
    BY <1>1, <1>2, <2>2 DEF AsksForTheDay
  <2>9. QED
    BY <1>4, <1>5, <2>6, <2>7, <2>8 DEF ScreenInv
<1>7. CASE ~(Newest(c) /\ c.pid = pid)
  <2>1. UNCHANGED <<week, screen, loaded>>
    BY <1>7 DEF Answer
  <2>2. ScreenTypes' /\ NothingFromTheFuture' /\ LoadedIsNewest' /\ DrawnIsKept'
        /\ AsksForTheDay'
    BY <1>1, <1>2, <2>1 DEF ScreenTypes, NothingFromTheFuture, LoadedIsNewest, DrawnIsKept,
       AsksForTheDay, Newest
  <2>3. QED
    BY <1>4, <1>5, <2>2 DEF ScreenInv
<1>8. QED
  BY <1>6, <1>7

\* A call that fails leaves what is kept.
LEMMA FailKeeps ==
    ASSUME ScreenInv, NEW c \in calls, Fail(c) PROVE ScreenInv'
<1>1. /\ ScreenTypes /\ NothingFromTheFuture /\ OneCallEach /\ NewestIsFresh
      /\ BusyWhileWaiting /\ LoadedIsNewest /\ DrawnIsKept /\ AsksForTheDay
  BY DEF ScreenInv
<1>2. /\ calls' = calls \ {c}
      /\ UNCHANGED <<pid, date, week, serial, loaded, changes, access, shouldSee>>
      /\ screen' = (IF Newest(c) THEN "error" ELSE screen)
      /\ busy' = IF Newest(c) THEN FALSE ELSE busy
  BY DEF Fail, server
<1>3. ScreenTypes' /\ NothingFromTheFuture' /\ OneCallEach' /\ NewestIsFresh'
      /\ LoadedIsNewest' /\ DrawnIsKept' /\ AsksForTheDay'
  BY <1>1, <1>2 DEF ScreenTypes, NothingFromTheFuture, OneCallEach, NewestIsFresh,
     LoadedIsNewest, DrawnIsKept, AsksForTheDay, Newest
<1>4. BusyWhileWaiting'
  BY <1>1, <1>2 DEF BusyWhileWaiting, OneCallEach, Newest
<1>5. QED
  BY <1>3, <1>4 DEF ScreenInv

\* What the user and the timer do.
LEMMA PagesKeep == ASSUME ScreenInv, Pages PROVE ScreenInv'
<1>1. /\ ScreenTypes /\ NothingFromTheFuture /\ OneCallEach /\ NewestIsFresh
      /\ BusyWhileWaiting /\ LoadedIsNewest /\ DrawnIsKept /\ AsksForTheDay
  BY DEF ScreenInv
<1>2. /\ changes \in [Profiles -> Nat] /\ shouldSee \in [Profiles -> Nat]
      /\ \A q \in Profiles : changes[q] <= changes[q] /\ shouldSee[q] <= changes[q]
      /\ access \subseteq Profiles /\ Default \in access
      /\ pid \in Profiles \cup {None} /\ date \in Dates
  BY <1>1 DEF ScreenTypes, NothingFromTheFuture
<1>3. CASE Draw
  BY <1>1, <1>3 DEF Draw, ScreenInv, ScreenTypes, NothingFromTheFuture, OneCallEach,
     NewestIsFresh, BusyWhileWaiting, LoadedIsNewest, DrawnIsKept, AsksForTheDay, Newest,
     server
<1>4. ASSUME NEW d \in Dates, ChangeDate(d) PROVE ScreenInv'
  <2>1. UNCHANGED <<changes, access, shouldSee>> /\ screen = "data"
    BY <1>4 DEF ChangeDate, server
  <2>2. CASE Monday(d) = week.monday /\ date' = d /\ screen' = "data"
             /\ UNCHANGED <<pid, week, serial, calls, busy, loaded>>
    BY <1>1, <2>1, <2>2 DEF ScreenInv, ScreenTypes, NothingFromTheFuture, OneCallEach,
       NewestIsFresh, BusyWhileWaiting, LoadedIsNewest, DrawnIsKept, AsksForTheDay, Newest
  <2>3. CASE Refresh(pid, d, FALSE)
    BY <1>2, <2>1, <2>3, RefreshKeeps
  <2>4. QED
    BY <1>4, <2>2, <2>3 DEF ChangeDate
<1>5. ASSUME NEW p \in access, NEW boot \in BOOLEAN, OpenProfile(p, boot) PROVE ScreenInv'
  <2>1. UNCHANGED <<changes, access, shouldSee>> /\ Refresh(p, date, boot)
    BY <1>5 DEF OpenProfile, server
  <2>2. QED
    BY <1>2, <2>1, RefreshKeeps
<1>6. ASSUME NEW p \in Profiles, DeleteProfile(p) PROVE ScreenInv'
  <2>1. UNCHANGED <<changes, shouldSee>> /\ Refresh(None, date, TRUE)
        /\ access' = access \ {p} /\ p # Default
    BY <1>6 DEF DeleteProfile
  <2>2. QED
    BY <1>2, <2>1, RefreshKeeps
<1>7. ASSUME NEW boot \in BOOLEAN, Reload(boot) PROVE ScreenInv'
  <2>1. UNCHANGED <<changes, access, shouldSee>> /\ Refresh(pid, date, boot)
    BY <1>7 DEF Reload, server
  <2>2. QED
    BY <1>2, <2>1, RefreshKeeps
<1>8. QED
  BY <1>3, <1>4, <1>5, <1>6, <1>7 DEF Pages

LEMMA NetworkKeeps == ASSUME ScreenInv, Network PROVE ScreenInv'
BY BootstrapKeeps, ServeKeeps, AnswerKeeps, FailKeeps DEF Network

LEMMA RevokeKeeps == ASSUME ScreenInv, NEW p \in Profiles, Revoke(p) PROVE ScreenInv'
<1>1. /\ changes \in [Profiles -> Nat] /\ \A q \in Profiles : changes[q] <= changes[q]
      /\ access \subseteq Profiles /\ Default \in access
  BY DEF ScreenInv, ScreenTypes
<1>2. UNCHANGED <<client, changes, shouldSee>> /\ access' = access \ {p} /\ p # Default
  BY DEF Revoke
<1>3. QED
  BY <1>1, <1>2, ServerKeeps

-----------------------------------------------------------------------------
(* The counts of what was done. *)

LEMMA NoneAttached ==
    IsFiniteSet(Occurrences(NoFiles)) /\ Total(NoFiles) = 0 /\ NoFiles \in [Files -> Nat]
<1>1. NoFiles \in [Files -> Nat] /\ \A x \in Files : 1 .. NoFiles[x] = {}
  BY DEF NoFiles
<1>2. Occurrences(NoFiles) = {}
  BY <1>1 DEF Occurrences, NoFiles
<1>3. QED
  BY <1>1, <1>2, FS_EmptySet DEF Total

\* Attaching a file once more adds one to the total.
LEMMA OneMore ==
    ASSUME NEW count \in [Files -> Nat], IsFiniteSet(Occurrences(count)), NEW x \in Files
    PROVE  LET more == [count EXCEPT ![x] = @ + 1]
           IN  /\ more \in [Files -> Nat]
               /\ IsFiniteSet(Occurrences(more))
               /\ Total(count) \in Nat
               /\ Total(more) = Total(count) + 1
<1> DEFINE more == [count EXCEPT ![x] = @ + 1]
           new == <<x, count[x] + 1>>
<1>1. more \in [Files -> Nat]
  OBVIOUS
<1>2. Occurrences(more) = Occurrences(count) \cup {new}
  <2>1. ASSUME NEW e \in Occurrences(more) PROVE e \in Occurrences(count) \cup {new}
    <3>1. PICK y \in Files : e \in {y} \X (1 .. more[y])
      BY <2>1 DEF Occurrences
    <3>2. e = <<y, e[2]>> /\ e[2] \in 1 .. more[y]
      BY <3>1
    <3>3. CASE y = x /\ e[2] = count[x] + 1
      BY <3>2, <3>3
    <3>4. CASE ~(y = x /\ e[2] = count[x] + 1)
      <4>1. e[2] \in 1 .. count[y]
        BY <1>1, <3>2, <3>4
      <4>2. e \in {y} \X (1 .. count[y])
        BY <3>2, <4>1
      <4>3. QED
        BY <4>2 DEF Occurrences
    <3>5. QED
      BY <3>3, <3>4
  <2>2. ASSUME NEW e \in Occurrences(count) PROVE e \in Occurrences(more)
    <3>1. PICK y \in Files : e \in {y} \X (1 .. count[y])
      BY <2>2 DEF Occurrences
    <3>2. e = <<y, e[2]>> /\ e[2] \in 1 .. count[y]
      BY <3>1
    <3>3. e[2] \in 1 .. more[y]
      BY <3>2
    <3>4. e \in {y} \X (1 .. more[y])
      BY <3>2, <3>3
    <3>5. QED
      BY <3>4 DEF Occurrences
  <2>3. new \in Occurrences(more)
    <3>1. new \in {x} \X (1 .. more[x]) /\ DOMAIN more = Files
      OBVIOUS
    <3>2. QED
      BY <3>1 DEF Occurrences
  <2>4. QED
    BY <2>1, <2>2, <2>3
<1>3. new \notin Occurrences(count)
  <2>1. ASSUME new \in Occurrences(count) PROVE FALSE
    <3>1. PICK y \in Files : new \in {y} \X (1 .. count[y])
      BY <2>1 DEF Occurrences
    <3>2. QED
      BY <3>1
  <2>2. QED
    BY <2>1
<1>4. /\ IsFiniteSet(Occurrences(count) \cup {new})
      /\ Cardinality(Occurrences(count) \cup {new}) = Cardinality(Occurrences(count)) + 1
      /\ Cardinality(Occurrences(count)) \in Nat
  BY <1>3, FS_AddElement, FS_CardinalityType
<1>5. QED
  BY <1>1, <1>2, <1>4 DEF Total

\* The choices of files: sequences without repetition.
LEMMA ChosenFiles ==
    ASSUME NEW files \in FileLists
    PROVE  /\ Len(files) \in Nat /\ DOMAIN files = 1 .. Len(files)
           /\ \A i \in 1 .. Len(files) : files[i] \in Files
           /\ \A i, j \in 1 .. Len(files) : files[i] = files[j] => i = j
<1>1. Cardinality(Files) \in Nat
  BY TaskAssumption, FS_CardinalityType
<1>2. files \in SeqOf(Files, Cardinality(Files)) /\ IsInjective(files)
  BY DEF FileLists
<1>3. Len(files) \in Nat /\ DOMAIN files = 1 .. Len(files) /\ files \in [DOMAIN files -> Files]
  <2>1. PICK m \in 0 .. Cardinality(Files) : files \in [1 .. m -> Files]
    BY <1>1, <1>2 DEF SeqOf
  <2>2. m \in Nat /\ files \in Seq(Files) /\ Len(files) = m
    BY <1>1, <2>1
  <2>3. QED
    BY <2>1, <2>2
<1>4. \A i, j \in DOMAIN files : files[i] = files[j] => i = j
  BY <1>2 DEF IsInjective
<1>5. QED
  BY <1>3, <1>4

LEMMA NoFilesChosen == <<>> \in FileLists
<1>1. Cardinality(Files) \in Nat
  BY TaskAssumption, FS_CardinalityType
<1>2. <<>> \in [1 .. 0 -> Files] /\ 0 \in 0 .. Cardinality(Files)
  BY <1>1
<1>3. <<>> \in SeqOf(Files, Cardinality(Files))
  BY <1>2 DEF SeqOf
<1>4. QED
  BY <1>3 DEF FileLists, IsInjective

-----------------------------------------------------------------------------
(* Steps of the sheet. *)

\* What Change does to the server.
LEMMA Changed ==
    ASSUME ScreenInv, NEW p, Change(p)
    PROVE  /\ p \in Profiles /\ changes' \in [Profiles -> Nat] /\ access' = access
           /\ \A q \in Profiles : changes[q] <= changes'[q]
           /\ access' \subseteq Profiles /\ Default \in access'
<1>1. changes \in [Profiles -> Nat] /\ access \subseteq Profiles /\ Default \in access
  BY DEF ScreenInv, ScreenTypes
<1>2. p \in Profiles /\ changes' = [changes EXCEPT ![p] = @ + 1] /\ access' = access
  BY <1>1 DEF Change
<1>3. QED
  BY <1>1, <1>2

\* After a change the loop over the files goes on, or the change is reported
\* and a refresh begins.
LEMMA ProceedKeeps ==
    ASSUME ScreenInv, NEW f \in Forms, Change(f.pid), Proceed(f)
    PROVE  ScreenInv'
<1>1. /\ f.pid \in Profiles /\ changes' \in [Profiles -> Nat] /\ access' = access
      /\ \A q \in Profiles : changes[q] <= changes'[q]
      /\ access' \subseteq Profiles /\ Default \in access'
  BY Changed
<1>2. CASE UNCHANGED <<client, shouldSee>>
  BY <1>1, <1>2, ServerKeeps
<1>3. CASE shouldSee' = [shouldSee EXCEPT ![f.pid] = changes'[f.pid]]
           /\ Refresh(pid, date, FALSE)
  <2>1. /\ pid \in Profiles \cup {None} /\ date \in Dates
        /\ shouldSee \in [Profiles -> Nat] /\ changes \in [Profiles -> Nat]
        /\ \A q \in Profiles : shouldSee[q] <= changes[q]
    BY DEF ScreenInv, ScreenTypes, NothingFromTheFuture
  <2>2. shouldSee' \in [Profiles -> Nat] /\ \A q \in Profiles : shouldSee'[q] <= changes'[q]
    BY <1>1, <1>3, <2>1
  <2>3. QED
    BY <1>1, <1>3, <2>1, <2>2, RefreshKeeps
<1>4. QED
  BY <1>2, <1>3 DEF Proceed

\* What the sheet becomes: another file, or saved.
LEMMA Proceeded ==
    ASSUME NEW f \in Forms, Proceed(f), f.task = "known"
    PROVE  /\ form' \in Forms
           /\ form'.task = "known" /\ form'.files = f.files /\ form'.uploaded = f.uploaded
           /\ form'.changed = f.changed /\ form'.pid = f.pid
           /\ \/ /\ form'.at = "file" /\ f.uploaded < Len(f.files)
                 /\ form'.sending = f.files[f.uploaded + 1]
              \/ form'.at = "saved" /\ f.uploaded >= Len(f.files)
<1>1. /\ Len(f.files) \in Nat /\ f.uploaded \in Nat
      /\ \A i \in 1 .. Len(f.files) : f.files[i] \in Files
  BY ChosenFiles DEF Forms
<1>2. CASE f.uploaded < Len(f.files)
           /\ form' = [f EXCEPT !.at = "file", !.sending = f.files[f.uploaded + 1]]
  <2>1. f.files[f.uploaded + 1] \in Files
    BY <1>1, <1>2
  <2>2. QED
    BY <1>2, <2>1 DEF Forms
<1>3. CASE f.uploaded >= Len(f.files) /\ form' = [f EXCEPT !.at = "saved", !.sending = None]
  BY <1>3 DEF Forms
<1>4. QED
  BY <1>2, <1>3 DEF Proceed

\* A sheet that has just been opened.
LEMMA Opened ==
    ASSUME SheetInv, form' \in Forms, Forgotten, form'.uploaded = 0, form'.at = "edit"
    PROVE  SheetInv'
<1>1. attached' = NoFiles /\ lost' = NoLosses /\ made' = 0
  BY DEF Forgotten
<1>2. lost' \in [Files \cup {None} -> Nat] /\ lost'[None] = 0
      /\ \A x \in Files : attached'[x] = 0 /\ lost'[x] = 0
  BY <1>1 DEF NoLosses, NoFiles
<1>3. SheetTypes'
  BY <1>1, <1>2, NoneAttached DEF SheetTypes
<1>4. Len(form'.files) \in Nat
  BY ChosenFiles DEF Forms
<1>5. InOrder' /\ MadeOnce' /\ UploadedUpTo' /\ NoneUploaded'
  <2>1. Total(attached') = 0
    BY <1>1, NoneAttached
  <2>2. QED
    BY <1>1, <1>2, <1>4, <2>1 DEF InOrder, MadeOnce, UploadedUpTo, NoneUploaded
<1>6. QED
  BY <1>3, <1>5 DEF SheetInv

\* A sheet that is closed.
LEMMA Closed ==
    ASSUME SheetInv, form' = None, Forgotten
    PROVE  SheetInv'
<1>1. attached' = NoFiles /\ lost' = NoLosses /\ made' = 0
  BY DEF Forgotten
<1>2. lost' \in [Files \cup {None} -> Nat]
  BY <1>1 DEF NoLosses
<1>3. SheetTypes'
  BY <1>1, <1>2, NoneAttached DEF SheetTypes
<1>4. QED
  BY <1>3 DEF SheetInv, InOrder, MadeOnce, UploadedUpTo, NoneUploaded

\* The parts of the invariant that only the sheet itself can disturb.
LEMMA SheetKeeps ==
    ASSUME SheetInv, UNCHANGED sheet PROVE SheetInv'
BY DEF SheetInv, SheetTypes, InOrder, MadeOnce, UploadedUpTo, NoneUploaded, sheet,
   Total, Occurrences

\* The sheet before a step: what the invariant says of it.
LEMMA Sheet ==
    ASSUME SheetInv, form # None
    PROVE  /\ form \in Forms /\ made \in Nat /\ attached \in [Files -> Nat]
           /\ lost \in [Files \cup {None} -> Nat] /\ IsFiniteSet(Occurrences(attached))
           /\ Total(attached) \in Nat
           /\ Len(form.files) \in Nat /\ DOMAIN form.files = 1 .. Len(form.files)
           /\ \A i \in 1 .. Len(form.files) : form.files[i] \in Files
           /\ \A i, j \in 1 .. Len(form.files) : form.files[i] = form.files[j] => i = j
           /\ InOrder /\ MadeOnce /\ UploadedUpTo /\ NoneUploaded
<1>1. /\ form \in Forms /\ made \in Nat /\ attached \in [Files -> Nat]
      /\ lost \in [Files \cup {None} -> Nat] /\ IsFiniteSet(Occurrences(attached))
      /\ InOrder /\ MadeOnce /\ UploadedUpTo /\ NoneUploaded
  BY DEF SheetInv, SheetTypes
<1>2. form.files \in FileLists
  BY <1>1 DEF Forms
<1>3. Total(attached) \in Nat
  BY <1>1, FS_CardinalityType DEF Total
<1>4. QED
  BY <1>1, <1>2, <1>3, ChosenFiles

\* A new choice: the counts stay, and from the first upload on the place in the
\* list says nothing any more.
LEMMA ChooseKeeps ==
    ASSUME SheetInv, NEW files \in FileLists, Choose(files) PROVE SheetInv'
<1>1. form # None /\ form.at # "saved" /\ UNCHANGED <<made, attached, lost>>
  BY DEF Choose
<1>2. /\ form \in Forms /\ made \in Nat /\ attached \in [Files -> Nat]
      /\ lost \in [Files \cup {None} -> Nat] /\ IsFiniteSet(Occurrences(attached))
      /\ InOrder /\ MadeOnce /\ UploadedUpTo /\ NoneUploaded
  BY <1>1, Sheet
<1> DEFINE late == form.changed \/ form.uploaded > 0 \/ form.at = "file"
<1>3. /\ form' \in Forms
      /\ form'.task = form.task /\ form'.uploaded = form.uploaded /\ form'.at = form.at
      /\ form'.sending = form.sending /\ form'.uploaded \in Nat
      /\ (~form'.changed => form.uploaded = 0 /\ form.at # "file")
  <2>1. form.uploaded \in Nat /\ form.changed \in BOOLEAN
    BY <1>2 DEF Forms
  <2>2. form' = [form EXCEPT !.files = files, !.changed = late]
    BY DEF Choose
  <2>3. late \in BOOLEAN /\ (~late => form.uploaded = 0 /\ form.at # "file")
    BY <2>1
  <2> HIDE DEF late
  <2>4. /\ form'.files = files /\ form'.task = form.task /\ form'.uploaded = form.uploaded
        /\ form'.at = form.at /\ form'.sending = form.sending /\ form'.changed = late
    BY <1>1, <1>2, <2>2 DEF Forms
  <2>5. form' \in Forms
    BY <1>2, <2>2, <2>3 DEF Forms
  <2>6. ~form'.changed => form.uploaded = 0 /\ form.at # "file"
    BY ONLY <2>3, <2>4, Zenon
  <2>7. QED
    BY <2>1, <2>4, <2>5, <2>6
<1> HIDE DEF late
<1>4. Len(form'.files) \in Nat
  BY <1>3, ChosenFiles DEF Forms
<1>5. SheetTypes'
  BY <1>1, <1>2, <1>3 DEF SheetTypes, Occurrences
<1>6. InOrder' /\ MadeOnce'
  BY <1>1, <1>2, <1>3 DEF InOrder, MadeOnce, Total, Occurrences
<1>7. NoneUploaded'
  BY <1>1, <1>2, <1>3 DEF NoneUploaded
<1>8. UploadedUpTo'
  BY <1>1, <1>2, <1>3, <1>4 DEF UploadedUpTo, NoneUploaded
<1>9. QED
  BY <1>5, <1>6, <1>7, <1>8 DEF SheetInv

\* The button: the sheet keeps what it has.
LEMMA SubmitKeeps == ASSUME SheetInv, Submit PROVE SheetInv'
<1>1. form # None /\ UNCHANGED <<made, attached, lost>>
  BY DEF Submit
<1>2. /\ form \in Forms /\ InOrder /\ MadeOnce /\ UploadedUpTo /\ NoneUploaded /\ SheetTypes
  BY <1>1, Sheet DEF SheetInv
<1>3. /\ form' \in Forms /\ form'.at = "task"
      /\ form'.task = form.task /\ form'.uploaded = form.uploaded
      /\ form'.files = form.files /\ form'.changed = form.changed
  BY <1>1, <1>2 DEF Submit, Forms
<1>4. SheetTypes'
  BY <1>1, <1>2, <1>3 DEF SheetTypes, Occurrences
<1>5. InOrder' /\ MadeOnce'
  BY <1>1, <1>2, <1>3 DEF InOrder, MadeOnce, Total, Occurrences
<1>6. UploadedUpTo' /\ NoneUploaded'
  BY <1>1, <1>2, <1>3 DEF UploadedUpTo, NoneUploaded
<1>7. QED
  BY <1>4, <1>5, <1>6 DEF SheetInv

\* What an attempt that failed leaves of the sheet.
LEMMA WhenStopped ==
    ASSUME SheetInv, form # None, form' = Stopped
    PROVE  /\ form' \in Forms /\ form'.at = "edit"
           /\ form'.task = form.task /\ form'.uploaded = form.uploaded
           /\ form'.files = form.files /\ form.uploaded \in Nat
           /\ (~form'.changed => ~form.changed \/ form.uploaded = 0)
<1> DEFINE still == form.changed /\ form.uploaded > 0
<1>1. form \in Forms /\ form.uploaded \in Nat /\ form.changed \in BOOLEAN
  BY Sheet DEF Forms
<1>2. form' = [form EXCEPT !.at = "edit", !.sending = None, !.changed = still]
  BY DEF Stopped
<1>3. still \in BOOLEAN /\ (~still => ~form.changed \/ form.uploaded = 0)
  BY <1>1
<1> HIDE DEF still
<1>4. /\ form' \in Forms /\ form'.at = "edit"
      /\ form'.task = form.task /\ form'.uploaded = form.uploaded
      /\ form'.files = form.files /\ form'.changed = still
  BY <1>1, <1>2, <1>3 DEF Forms
<1>5. ~form'.changed => ~form.changed \/ form.uploaded = 0
  BY ONLY <1>3, <1>4, Zenon
<1>6. QED
  BY <1>1, <1>4, <1>5

\* A refusal: an attempt that has changed nothing on the server.
LEMMA RefusedKeeps == ASSUME SheetInv, Refused PROVE SheetInv'
<1>1. form # None /\ form' = Stopped /\ UNCHANGED <<made, attached, lost>>
  BY DEF Refused
<1>2. /\ form \in Forms /\ InOrder /\ MadeOnce /\ UploadedUpTo /\ NoneUploaded /\ SheetTypes
      /\ Len(form.files) \in Nat
  BY <1>1, Sheet DEF SheetInv
<1>3. /\ form' \in Forms /\ form'.at = "edit"
      /\ form'.task = form.task /\ form'.uploaded = form.uploaded
      /\ form'.files = form.files /\ form.uploaded \in Nat
      /\ (~form'.changed => ~form.changed \/ form.uploaded = 0)
  BY <1>1, WhenStopped
<1>4. SheetTypes'
  BY <1>1, <1>2, <1>3 DEF SheetTypes, Occurrences
<1>5. InOrder' /\ MadeOnce'
  BY <1>1, <1>2, <1>3 DEF InOrder, MadeOnce, Total, Occurrences
<1>6. NoneUploaded'
  BY <1>1, <1>2, <1>3 DEF NoneUploaded
<1>7. UploadedUpTo'
  BY <1>1, <1>2, <1>3 DEF UploadedUpTo, NoneUploaded
<1>8. QED
  BY <1>4, <1>5, <1>6, <1>7 DEF SheetInv

\* The task is saved and its answer is there: from now on it is known.
LEMMA SaveTaskKeeps == ASSUME SheetInv, SaveTask PROVE SheetInv'
<1> DEFINE f == [form EXCEPT !.task = "known"]
<1>1. /\ form # None /\ form.at = "task" /\ UNCHANGED <<attached, lost>> /\ Proceed(f)
      /\ made' = IF form.task = None THEN made + 1 ELSE made
  BY DEF SaveTask
<1>2. /\ form \in Forms /\ InOrder /\ MadeOnce /\ UploadedUpTo /\ NoneUploaded /\ SheetTypes
      /\ made \in Nat /\ lost[None] \in Nat
      /\ form.uploaded \in Nat /\ Len(form.files) \in Nat
      /\ \A i \in 1 .. Len(form.files) : form.files[i] \in Files
  BY <1>1, Sheet DEF SheetInv, Forms
<1>3. /\ f \in Forms /\ f.task = "known" /\ f.files = form.files
      /\ f.uploaded = form.uploaded /\ f.changed = form.changed
  BY <1>2 DEF Forms
<1> HIDE DEF f
<1>4. /\ form' \in Forms
      /\ form'.task = "known" /\ form'.files = form.files /\ form'.uploaded = form.uploaded
      /\ form'.changed = form.changed
      /\ \/ /\ form'.at = "file" /\ form.uploaded < Len(form.files)
            /\ form'.sending = form.files[form.uploaded + 1]
         \/ form'.at = "saved" /\ form.uploaded >= Len(form.files)
  BY <1>1, <1>3, Proceeded
<1>5. made' \in Nat /\ made' <= 1 + lost[None]
  BY <1>1, <1>2 DEF MadeOnce
<1>6. SheetTypes'
  BY <1>1, <1>2, <1>4, <1>5 DEF SheetTypes, Occurrences
<1>7. MadeOnce'
  BY <1>1, <1>4, <1>5, TaskAssumption DEF MadeOnce
<1>8. InOrder'
  BY <1>1, <1>2, <1>4 DEF InOrder, Total, Occurrences
<1>9. UploadedUpTo' /\ NoneUploaded'
  BY <1>1, <1>2, <1>4 DEF UploadedUpTo, NoneUploaded
<1>10. QED
  BY <1>6, <1>7, <1>8, <1>9 DEF SheetInv

\* The file under way is attached, with or without its answer.
LEMMA Attach ==
    ASSUME SheetInv, form # None, form.at = "file",
           attached' = [attached EXCEPT ![form.sending] = @ + 1]
    PROVE  /\ form.sending \in Files
           /\ attached' \in [Files -> Nat] /\ IsFiniteSet(Occurrences(attached'))
           /\ attached'[form.sending] = attached[form.sending] + 1
           /\ \A x \in Files \ {form.sending} : attached'[x] = attached[x]
           /\ Total(attached') = Total(attached) + 1
<1>1. /\ form \in Forms /\ attached \in [Files -> Nat]
      /\ IsFiniteSet(Occurrences(attached)) /\ InOrder
  BY Sheet
<1>2. form.sending \in Files
  BY <1>1 DEF InOrder
<1>3. /\ attached' \in [Files -> Nat] /\ IsFiniteSet(Occurrences(attached'))
      /\ Total(attached') = Total(attached) + 1
  BY <1>1, <1>2, OneMore
<1>4. QED
  BY <1>1, <1>2, <1>3

\* While the choice stands, it is the next file of the list, not one that counts
\* as uploaded.
LEMMA NextInTurn ==
    ASSUME SheetInv, form # None, form.at = "file", ~form.changed
    PROVE  /\ form.sending = form.files[form.uploaded + 1]
           /\ form.uploaded + 1 \in 1 .. Len(form.files)
           /\ \A i \in 1 .. form.uploaded :
                  i \in 1 .. Len(form.files) /\ form.files[i] # form.sending
           /\ attached[form.sending] <= lost[form.sending]
<1>1. /\ form \in Forms
      /\ Len(form.files) \in Nat /\ DOMAIN form.files = 1 .. Len(form.files)
      /\ \A i \in 1 .. Len(form.files) : form.files[i] \in Files
      /\ \A i, j \in 1 .. Len(form.files) : form.files[i] = form.files[j] => i = j
      /\ InOrder /\ UploadedUpTo
  BY Sheet
<1>2. /\ form.uploaded \in Nat /\ form.uploaded < Len(form.files)
      /\ form.sending = form.files[form.uploaded + 1]
  BY <1>1 DEF Forms, InOrder
<1>3. /\ form.uploaded + 1 \in 1 .. Len(form.files)
      /\ \A i \in 1 .. form.uploaded : i \in 1 .. Len(form.files) /\ i # form.uploaded + 1
  BY <1>1, <1>2
<1>4. form.sending \in Files /\ \A i \in 1 .. form.uploaded : form.files[i] # form.sending
  BY <1>1, <1>2, <1>3
<1>5. attached[form.sending] <= lost[form.sending]
  BY <1>1, <1>4 DEF UploadedUpTo
<1>6. QED
  BY <1>2, <1>3, <1>4, <1>5

\* The file is attached and its answer is there: the count goes up to it.
LEMMA UploadFileKeeps == ASSUME SheetInv, UploadFile PROVE SheetInv'
<1> DEFINE f == [form EXCEPT !.uploaded = @ + 1]
<1>1. /\ form # None /\ form.at = "file" /\ UNCHANGED <<made, lost>> /\ Proceed(f)
      /\ attached' = [attached EXCEPT ![form.sending] = @ + 1]
  BY DEF UploadFile
<1>2. /\ form \in Forms /\ InOrder /\ MadeOnce /\ UploadedUpTo /\ SheetTypes
      /\ lost \in [Files \cup {None} -> Nat] /\ attached \in [Files -> Nat]
      /\ Len(form.files) \in Nat /\ Total(attached) \in Nat
      /\ \A i \in 1 .. Len(form.files) : form.files[i] \in Files
  BY <1>1, Sheet DEF SheetInv
<1>3. /\ f \in Forms /\ f.task = form.task /\ f.files = form.files
      /\ f.uploaded = form.uploaded + 1 /\ f.changed = form.changed
      /\ form.uploaded \in Nat /\ form.task = "known"
  BY <1>1, <1>2 DEF Forms, InOrder
<1> HIDE DEF f
<1>4. /\ form' \in Forms
      /\ form'.task = "known" /\ form'.files = form.files
      /\ form'.uploaded = form.uploaded + 1 /\ form'.changed = form.changed
      /\ \/ /\ form'.at = "file" /\ form.uploaded + 1 < Len(form.files)
            /\ form'.sending = form.files[form.uploaded + 1 + 1]
         \/ form'.at = "saved" /\ form.uploaded + 1 >= Len(form.files)
  BY <1>1, <1>3, Proceeded
<1>5. /\ form.sending \in Files
      /\ attached' \in [Files -> Nat] /\ IsFiniteSet(Occurrences(attached'))
      /\ attached'[form.sending] = attached[form.sending] + 1
      /\ \A x \in Files \ {form.sending} : attached'[x] = attached[x]
      /\ Total(attached') = Total(attached) + 1
  BY <1>1, Attach
<1>6. SheetTypes'
  BY <1>1, <1>2, <1>4, <1>5 DEF SheetTypes
<1>7. InOrder' /\ MadeOnce'
  <2>1. form'.at = "file" => form'.sending \in Files
    BY <1>2, <1>3, <1>4
  <2>2. QED
    BY <1>1, <1>2, <1>3, <1>4, <1>5, <2>1, TaskAssumption DEF InOrder, MadeOnce
<1>8. NoneUploaded'
  BY <1>3, <1>4 DEF NoneUploaded
<1>9. ASSUME ~form'.changed PROVE UploadedUpTo'
  <2>1. /\ ~form.changed /\ attached[form.sending] \in Nat /\ lost[form.sending] \in Nat
    BY <1>2, <1>4, <1>5, <1>9
  <2>2. /\ form.sending = form.files[form.uploaded + 1]
        /\ form.uploaded + 1 \in 1 .. Len(form.files)
        /\ \A i \in 1 .. form.uploaded :
               i \in 1 .. Len(form.files) /\ form.files[i] # form.sending
        /\ attached[form.sending] <= lost[form.sending]
    BY <1>1, <2>1, NextInTurn
  <2>3. form.uploaded + 1 <= Len(form.files)
    BY <1>2, <1>3, <2>2
  <2>4. ASSUME NEW i \in 1 .. form.uploaded + 1
        PROVE  attached'[form.files[i]] \in 1 .. (1 + lost[form.files[i]])
    <3>1. CASE i = form.uploaded + 1
      BY <1>5, <2>1, <2>2, <3>1
    <3>2. CASE i # form.uploaded + 1
      <4>1. i \in 1 .. form.uploaded
        BY <1>3, <3>2
      <4>2. form.files[i] \in Files \ {form.sending}
        BY <1>2, <2>2, <4>1
      <4>3. QED
        BY <1>1, <1>2, <1>5, <2>1, <4>1, <4>2 DEF UploadedUpTo
    <3>3. QED
      BY <3>1, <3>2
  <2>5. ASSUME NEW file \in Files, \A i \in 1 .. form.uploaded + 1 : form.files[i] # file
        PROVE  attached'[file] <= lost[file]
    <3>1. form.uploaded + 1 \in 1 .. form.uploaded + 1
          /\ \A i \in 1 .. form.uploaded : i \in 1 .. form.uploaded + 1
      BY <1>3
    <3>2. file # form.sending /\ \A i \in 1 .. form.uploaded : form.files[i] # file
      BY <2>2, <2>5, <3>1
    <3>3. QED
      BY <1>1, <1>2, <1>5, <2>1, <3>2 DEF UploadedUpTo
  <2>6. QED
    BY <1>1, <1>4, <2>3, <2>4, <2>5 DEF UploadedUpTo
<1>10. UploadedUpTo'
  BY <1>9 DEF UploadedUpTo
<1>11. QED
  BY <1>6, <1>7, <1>8, <1>10 DEF SheetInv

\* Done, and the answer lost: the client keeps the place it had.
LEMMA AnswerLostKeeps == ASSUME SheetInv, AnswerLost PROVE SheetInv'
<1>1. /\ form # None /\ form.at \in {"task", "file"} /\ form' = Stopped
  BY DEF AnswerLost
<1>2. /\ form \in Forms /\ InOrder /\ MadeOnce /\ UploadedUpTo /\ NoneUploaded /\ SheetTypes
      /\ lost \in [Files \cup {None} -> Nat] /\ attached \in [Files -> Nat] /\ made \in Nat
      /\ Len(form.files) \in Nat /\ Total(attached) \in Nat
      /\ \A i \in 1 .. Len(form.files) : form.files[i] \in Files
  BY <1>1, Sheet DEF SheetInv
<1>3. /\ form' \in Forms /\ form'.at = "edit"
      /\ form'.task = form.task /\ form'.uploaded = form.uploaded
      /\ form'.files = form.files /\ form.uploaded \in Nat
      /\ (~form'.changed => ~form.changed \/ form.uploaded = 0)
  BY <1>1, WhenStopped
<1>4. CASE /\ form.at = "task"
           /\ made' = IF form.task = None THEN made + 1 ELSE made
           /\ lost' = [lost EXCEPT ![None] = @ + 1]
           /\ UNCHANGED attached
  <2>1. /\ lost' \in [Files \cup {None} -> Nat] /\ lost'[None] = lost[None] + 1
        /\ \A x \in Files : lost'[x] = lost[x]
    BY <1>2, <1>4, TaskAssumption
  <2>2. SheetTypes'
    BY <1>2, <1>3, <1>4, <2>1 DEF SheetTypes, Occurrences
  <2>3. InOrder'
    <3>1. Total(attached') = Total(attached)
      BY <1>4
    <3>2. QED
      BY <1>1, <1>2, <1>3, <3>1 DEF InOrder
  <2>4. MadeOnce'
    BY <1>1, <1>2, <1>3, <1>4, <2>1 DEF MadeOnce
  <2>5. NoneUploaded'
    BY <1>1, <1>2, <1>3, <1>4, <2>1 DEF NoneUploaded
  <2>6. ASSUME ~form.changed PROVE UploadedUpTo'
    <3>1. ASSUME NEW i \in 1 .. form.uploaded
          PROVE  /\ attached[form.files[i]] \in 1 .. (1 + lost[form.files[i]])
                 /\ form.files[i] \in Files
      <4>1. form.uploaded <= Len(form.files)
        BY <1>1, <1>2, <2>6 DEF UploadedUpTo
      <4>2. i \in 1 .. Len(form.files)
        BY <1>2, <1>3, <4>1
      <4>3. QED
        BY <1>1, <1>2, <2>6, <4>2 DEF UploadedUpTo
    <3>2. QED
      BY <1>1, <1>2, <1>3, <1>4, <2>1, <2>6, <3>1 DEF UploadedUpTo
  <2>7. UploadedUpTo'
    <3>1. CASE form.uploaded = 0
      BY <1>2, <1>3, <2>5, <3>1 DEF UploadedUpTo, NoneUploaded
    <3>2. QED
      BY <1>3, <2>6, <3>1 DEF UploadedUpTo
  <2>8. QED
    BY <2>2, <2>3, <2>4, <2>5, <2>7 DEF SheetInv
<1>5. CASE /\ form.at = "file"
           /\ attached' = [attached EXCEPT ![form.sending] = @ + 1]
           /\ lost' = [lost EXCEPT ![form.sending] = @ + 1]
           /\ UNCHANGED made
  <2>1. /\ form.sending \in Files
        /\ attached' \in [Files -> Nat] /\ IsFiniteSet(Occurrences(attached'))
        /\ attached'[form.sending] = attached[form.sending] + 1
        /\ \A x \in Files \ {form.sending} : attached'[x] = attached[x]
        /\ Total(attached') = Total(attached) + 1
    BY <1>1, <1>5, Attach
  <2>2. /\ lost' \in [Files \cup {None} -> Nat] /\ lost'[None] = lost[None]
        /\ lost'[form.sending] = lost[form.sending] + 1
        /\ \A x \in Files \ {form.sending} : lost'[x] = lost[x]
    BY <1>2, <1>5, <2>1, TaskAssumption
  <2>3. SheetTypes'
    BY <1>2, <1>3, <1>5, <2>1, <2>2 DEF SheetTypes
  <2>4. InOrder' /\ MadeOnce'
    BY <1>1, <1>2, <1>3, <1>5, <2>1, <2>2 DEF InOrder, MadeOnce
  <2>5. ASSUME NEW file \in Files, attached[file] <= lost[file]
        PROVE  attached'[file] <= lost'[file]
    <3>1. attached[file] \in Nat /\ lost[file] \in Nat
      BY <1>2
    <3>2. QED
      BY <2>1, <2>2, <2>5, <3>1
  <2>6. NoneUploaded'
    BY <1>1, <1>2, <1>3, <2>5 DEF NoneUploaded
  <2>7. ASSUME ~form.changed PROVE UploadedUpTo'
    <3>1. /\ \A i \in 1 .. form.uploaded :
                 i \in 1 .. Len(form.files) /\ form.files[i] # form.sending
      BY <1>1, <1>5, <2>7, NextInTurn
    <3>2. ASSUME NEW i \in 1 .. form.uploaded
          PROVE  attached'[form.files[i]] \in 1 .. (1 + lost'[form.files[i]])
      <4>1. form.files[i] \in Files \ {form.sending}
        BY <1>2, <3>1
      <4>2. QED
        BY <1>1, <1>2, <2>1, <2>2, <2>7, <4>1 DEF UploadedUpTo
    <3>3. ASSUME NEW file \in Files,
                 \A i \in 1 .. form.uploaded : form.files[i] # file
          PROVE  attached'[file] <= lost'[file]
      BY <1>1, <1>2, <2>5, <2>7, <3>3 DEF UploadedUpTo
    <3>4. QED
      BY <1>1, <1>2, <1>3, <2>7, <3>2, <3>3 DEF UploadedUpTo
  <2>8. UploadedUpTo'
    <3>1. CASE form.uploaded = 0
      BY <1>2, <1>3, <2>6, <3>1 DEF UploadedUpTo, NoneUploaded
    <3>2. QED
      BY <1>3, <2>7, <3>1 DEF UploadedUpTo
  <2>9. QED
    BY <2>3, <2>4, <2>6, <2>8 DEF SheetInv
<1>6. QED
  BY <1>4, <1>5 DEF AnswerLost

-----------------------------------------------------------------------------
(* The invariants of the web client. *)

\* A step on the sheet: what it does to the screen and to the sheet.
LEMMA SheetSteps ==
    ASSUME ScreenInv, SheetInv,
           \/ \E task \in {None, "known"} : OpenForm(task)
           \/ \E files \in FileLists : Choose(files)
           \/ Submit \/ CloseForm \/ SaveTask \/ UploadFile \/ Refused \/ AnswerLost \/ Forget
    PROVE  ScreenInv' /\ SheetInv'
<1>1. pid \in Profiles \cup {None}
  BY DEF ScreenInv, ScreenTypes
<1>2. ASSUME UNCHANGED <<client, server, shouldSee>> PROVE ScreenInv'
  BY <1>2, ScreenStays
<1>3. ASSUME NEW task \in {None, "known"}, OpenForm(task) PROVE ScreenInv' /\ SheetInv'
  <2>1. form' \in Forms /\ form'.uploaded = 0 /\ form'.at = "edit"
    BY <1>1, <1>3, NoFilesChosen DEF OpenForm, Forms
  <2>2. Forgotten /\ UNCHANGED <<client, server, shouldSee>>
    BY <1>3 DEF OpenForm
  <2>3. QED
    BY <1>2, <2>1, <2>2, Opened
<1>4. ASSUME NEW files \in FileLists, Choose(files) PROVE ScreenInv' /\ SheetInv'
  BY <1>2, <1>4, ChooseKeeps DEF Choose
<1>5. CASE Submit \/ Refused
  BY <1>2, <1>5, SubmitKeeps, RefusedKeeps DEF Submit, Refused
<1>6. CASE CloseForm \/ Forget
  BY <1>2, <1>6, Closed DEF CloseForm, Forget
<1>7. CASE SaveTask
  <2>1. form \in Forms /\ Change(form.pid)
    BY <1>7, Sheet DEF SaveTask
  <2>2. [form EXCEPT !.task = "known"] \in Forms
        /\ [form EXCEPT !.task = "known"].pid = form.pid
        /\ Proceed([form EXCEPT !.task = "known"])
    BY <1>7, <2>1 DEF SaveTask, Forms
  <2>3. QED
    BY <1>7, <2>1, <2>2, ProceedKeeps, SaveTaskKeeps
<1>8. CASE UploadFile
  <2>1. form \in Forms /\ Change(form.pid)
    BY <1>8, Sheet DEF UploadFile
  <2>2. [form EXCEPT !.uploaded = @ + 1] \in Forms
        /\ [form EXCEPT !.uploaded = @ + 1].pid = form.pid
        /\ Proceed([form EXCEPT !.uploaded = @ + 1])
    BY <1>8, <2>1 DEF UploadFile, Forms
  <2>3. QED
    BY <1>8, <2>1, <2>2, ProceedKeeps, UploadFileKeeps
<1>9. CASE AnswerLost
  <2>1. Change(form.pid) /\ UNCHANGED <<client, shouldSee>>
    BY <1>9 DEF AnswerLost
  <2>2. QED
    BY <1>9, <2>1, Changed, ServerKeeps, AnswerLostKeeps
<1>10. QED
  BY <1>3, <1>4, <1>5, <1>6, <1>7, <1>8, <1>9

\* A step on a box of the list.
LEMMA BoxSteps ==
    ASSUME ScreenInv, SheetInv,
           Tick \/ \E t \in toggles : ServeTick(t) \/ Ticked(t) \/ NotTicked(t)
    PROVE  ScreenInv' /\ SheetInv'
<1>1. /\ changes \in [Profiles -> Nat] /\ \A q \in Profiles : changes[q] <= changes[q]
      /\ access \subseteq Profiles /\ Default \in access
      /\ pid \in Profiles \cup {None} /\ date \in Dates
      /\ shouldSee \in [Profiles -> Nat] /\ \A q \in Profiles : shouldSee[q] <= changes[q]
  BY DEF ScreenInv, ScreenTypes, NothingFromTheFuture
<1>2. UNCHANGED sheet
  BY DEF Tick, ServeTick, Ticked, NotTicked
<1>3. ASSUME UNCHANGED <<client, server, shouldSee>> PROVE ScreenInv'
  BY <1>3, ScreenStays
<1>4. ASSUME NEW t \in toggles, ServeTick(t) PROVE ScreenInv'
  <2>1. Change(t.pid) /\ UNCHANGED <<client, shouldSee>>
    BY <1>4 DEF ServeTick
  <2>2. QED
    BY <2>1, Changed, ServerKeeps
<1>5. ASSUME NEW t \in toggles, Ticked(t) PROVE ScreenInv'
  <2>1. /\ shouldSee' = [shouldSee EXCEPT ![t.pid] = changes[t.pid]]
        /\ Refresh(pid, date, FALSE) /\ changes' = changes /\ access' = access
    BY <1>5 DEF Ticked, server
  <2>2. shouldSee' \in [Profiles -> Nat] /\ \A q \in Profiles : shouldSee'[q] <= changes'[q]
    BY <1>1, <2>1
  <2>3. QED
    BY <1>1, <2>1, <2>2, RefreshKeeps
<1>6. ScreenInv'
  BY <1>3, <1>4, <1>5 DEF Tick, NotTicked
<1>7. QED
  BY <1>2, <1>6, SheetKeeps

WebInv == ScreenInv /\ SheetInv

LEMMA WebStart == Init => WebInv
<1> SUFFICES ASSUME Init PROVE WebInv
  OBVIOUS
<1>1. ScreenInit /\ form = None /\ made = 0 /\ attached = NoFiles /\ lost = NoLosses
  BY DEF Init
<1>2. lost \in [Files \cup {None} -> Nat]
  BY <1>1 DEF NoLosses
<1>3. SheetInv
  BY <1>1, <1>2, NoneAttached DEF SheetInv, SheetTypes, InOrder, MadeOnce, UploadedUpTo,
     NoneUploaded
<1>4. QED
  BY <1>1, <1>3, ScreenStart DEF WebInv

\* Every step of the client, the network and the server keeps the invariant.
LEMMA WebStep == WebInv /\ [Next]_vars => WebInv'
<1> SUFFICES ASSUME ScreenInv, SheetInv, [Next]_vars PROVE ScreenInv' /\ SheetInv'
  BY DEF WebInv
<1>1. CASE Network /\ UNCHANGED <<sheet, toggles>>
  BY <1>1, NetworkKeeps, SheetKeeps
<1>2. CASE Pages /\ UNCHANGED <<sheet, toggles>>
  BY <1>2, PagesKeep, SheetKeeps
<1>3. CASE (\E p \in Profiles : Revoke(p)) /\ UNCHANGED <<sheet, toggles>>
  BY <1>3, RevokeKeeps, SheetKeeps
<1>4. CASE \/ \E task \in {None, "known"} : OpenForm(task)
           \/ \E files \in FileLists : Choose(files)
           \/ Submit \/ CloseForm \/ SaveTask \/ UploadFile \/ Refused \/ AnswerLost \/ Forget
  BY <1>4, SheetSteps
<1>5. CASE Tick \/ \E t \in toggles : ServeTick(t) \/ Ticked(t) \/ NotTicked(t)
  BY <1>5, BoxSteps
<1>6. CASE UNCHANGED vars
  BY <1>6, ScreenStays, SheetKeeps DEF vars
<1>7. Next \/ UNCHANGED vars
  OBVIOUS
<1>8. QED
  BY ONLY <1>1, <1>2, <1>3, <1>4, <1>5, <1>6, <1>7, Zenon DEF Next

LEMMA WebInvariant == Spec => []WebInv
<1>1. QED
  BY WebStart, WebStep, PTL DEF Spec

\* The kept week belongs to a profile and is never ahead of the server, every
\* call has a number of its own, and a sheet has uploaded no more files than
\* the server has attached: TypeOK for any number of profiles, dates and files.
THEOREM WebTypes == Spec => []TypeOK
<1>1. WebInv => TypeOK
  <2> SUFFICES ASSUME ScreenInv, SheetInv PROVE TypeOK
    BY DEF WebInv
  <2>1. week # None => week.pid \in Profiles /\ week.read \in 0 .. changes[week.pid]
    <3>1. week # None => week \in Weeks /\ week.read <= changes[week.pid]
      BY DEF ScreenInv, ScreenTypes, NothingFromTheFuture
    <3>2. changes \in [Profiles -> Nat]
      BY DEF ScreenInv, ScreenTypes
    <3>3. QED
      BY <3>1, <3>2 DEF Weeks
  <2>2. \A p \in Profiles : shouldSee[p] \in 0 .. changes[p]
    BY DEF ScreenInv, ScreenTypes, NothingFromTheFuture
  <2>3. form # None => form.uploaded <= Total(attached)
    BY DEF SheetInv, InOrder
  <2>4. QED
    BY <2>1, <2>2, <2>3 DEF TypeOK, ScreenInv, ScreenTypes, OneCallEach
<1>2. QED
  BY <1>1, WebInvariant, PTL

\* After a refresh the client keeps the chosen profile, no older than the last
\* change it has reported, whatever answers came late or were overtaken.
THEOREM KeptIsNewest == Spec => []KeepsTheNewest
<1>1. WebInv => KeepsTheNewest
  BY DEF WebInv, ScreenInv, LoadedIsNewest, KeepsTheNewest
<1>2. QED
  BY <1>1, WebInvariant, PTL

\* The main panel is busy exactly while the newest refresh is outstanding.
THEOREM BusyIsWaiting == Spec => []BusyWhileWaiting
<1>1. WebInv => BusyWhileWaiting
  BY DEF WebInv, ScreenInv
<1>2. QED
  BY <1>1, WebInvariant, PTL

\* The day shown leaves the week that was loaded only by going back to the week
\* before while the next one is outstanding.
THEOREM GoingBack == Spec => OnlyGoingBackMisleads
<1>1. ASSUME ScreenInv, [Next]_vars, ~Misled, Misled'
      PROVE  busy /\ week # None /\ week.monday = Monday(date)
  <2>1. loaded' /\ week'.monday # Monday(date')
    BY <1>1 DEF Misled
  <2>2. ASSUME NEW p, NEW d, NEW boot, Refresh(p, d, boot) PROVE FALSE
    BY <2>1, <2>2 DEF Refresh
  <2>3. ASSUME UNCHANGED <<date, week, loaded>> PROVE FALSE
    BY <1>1, <2>3 DEF Misled
  <2>4. ASSUME NEW c \in calls, Answer(c), ~UNCHANGED <<week, loaded>>
        PROVE  busy /\ week # None /\ week.monday = Monday(date)
    <3>1. Newest(c) /\ week' = [pid |-> c.pid, monday |-> c.monday, read |-> c.read]
          /\ date' = date /\ c.read # None
      BY <2>4 DEF Answer
    <3>2. ~c.boot /\ c.monday # Monday(date)
      BY <1>1, <2>1, <3>1 DEF ScreenInv, NothingFromTheFuture
    <3>3. QED
      BY <1>1, <3>1, <3>2 DEF ScreenInv, BusyWhileWaiting, AsksForTheDay
  <2>5. CASE Network
    <3>1. PICK c \in calls : Bootstrap(c) \/ Serve(c) \/ Answer(c) \/ Fail(c)
      BY <2>5 DEF Network
    <3>2. CASE Bootstrap(c) \/ Serve(c) \/ Fail(c)
      BY <2>3, <3>2 DEF Bootstrap, Serve, Fail
    <3>3. CASE Answer(c)
      BY <2>3, <2>4, <3>3 DEF Answer
    <3>4. QED
      BY <3>1, <3>2, <3>3
  <2>6. ASSUME Pages PROVE FALSE
    <3>1. ASSUME NEW d, ChangeDate(d) PROVE FALSE
      BY <2>1, <2>2, <3>1 DEF ChangeDate
    <3>2. QED
      BY <2>2, <2>3, <2>6, <3>1 DEF Pages, Draw, OpenProfile, DeleteProfile, Reload
  <2>7. ASSUME UNCHANGED client PROVE FALSE
    BY <2>3, <2>7 DEF client
  <2>8. ASSUME NEW f, Proceed(f) PROVE FALSE
    BY <2>2, <2>7, <2>8 DEF Proceed
  <2>9. CASE \/ \E task \in {None, "known"} : OpenForm(task)
             \/ \E files \in FileLists : Choose(files)
             \/ Submit \/ CloseForm \/ SaveTask \/ UploadFile \/ Refused \/ AnswerLost \/ Forget
    BY <2>7, <2>8, <2>9 DEF OpenForm, Choose, Submit, CloseForm, SaveTask, UploadFile,
       Refused, AnswerLost, Forget
  <2>10. CASE Tick \/ \E t \in toggles : ServeTick(t) \/ Ticked(t) \/ NotTicked(t)
    BY <2>2, <2>7, <2>10 DEF Tick, ServeTick, Ticked, NotTicked
  <2>11. ASSUME NEW p, Revoke(p) PROVE FALSE
    BY <2>7, <2>11 DEF Revoke
  <2>12. CASE UNCHANGED vars
    BY <2>7, <2>12 DEF vars
  <2>13. Next \/ UNCHANGED vars
    BY <1>1
  <2>14. QED
    BY ONLY <2>5, <2>6, <2>9, <2>10, <2>11, <2>12, <2>13, Zenon DEF Next
<1>2. WebInv /\ [Next]_vars =>
        [~Misled /\ Misled' => busy /\ week # None /\ week.monday = Monday(date)]_<<client>>
  BY <1>1 DEF WebInv
<1>3. QED
  BY <1>2, WebInvariant, PTL DEF Spec, OnlyGoingBackMisleads

\* One sheet makes a second task, or attaches a file twice, only when an answer
\* about it was lost, or when other files were chosen after an upload or during
\* one that then succeeded.
THEOREM RetriesRepeat == Spec => []RetriesRepeatNothing
<1>1. WebInv => RetriesRepeatNothing
  <2> SUFFICES ASSUME SheetInv, form # None
      PROVE  /\ made <= 1 + lost[None]
             /\ form.changed \/ \A f \in Files : attached[f] <= 1 + lost[f]
    BY DEF WebInv, RetriesRepeatNothing
  <2>1. /\ form \in Forms /\ attached \in [Files -> Nat]
        /\ lost \in [Files \cup {None} -> Nat] /\ MadeOnce /\ UploadedUpTo
    BY Sheet
  <2>2. ASSUME ~form.changed, NEW x \in Files PROVE attached[x] <= 1 + lost[x]
    <3>1. CASE \E i \in 1 .. form.uploaded : form.files[i] = x
      BY <2>1, <2>2, <3>1 DEF UploadedUpTo
    <3>2. CASE \A i \in 1 .. form.uploaded : form.files[i] # x
      <4>1. attached[x] <= lost[x]
        BY <2>1, <2>2, <3>2 DEF UploadedUpTo
      <4>2. QED
        BY <2>1, <4>1
    <3>3. QED
      BY <3>1, <3>2
  <2>3. QED
    BY <2>1, <2>2 DEF MadeOnce
<1>2. QED
  BY <1>1, WebInvariant, PTL

\* A sheet that closes as saved has its task on the server and every file of it,
\* unless other files were chosen after an upload or during one that succeeded.
THEOREM SavedIsComplete == Spec => []SavedWithEveryFile
<1>1. WebInv => SavedWithEveryFile
  <2> SUFFICES ASSUME SheetInv, form # None, form.at = "saved"
      PROVE  /\ form.task # None
             /\ form.changed \/ \A i \in DOMAIN form.files : attached[form.files[i]] > 0
    BY DEF WebInv, SavedWithEveryFile
  <2>1. /\ form \in Forms /\ attached \in [Files -> Nat]
        /\ lost \in [Files \cup {None} -> Nat]
        /\ Len(form.files) \in Nat /\ DOMAIN form.files = 1 .. Len(form.files)
        /\ \A i \in 1 .. Len(form.files) : form.files[i] \in Files
        /\ InOrder /\ UploadedUpTo
    BY Sheet
  <2>2. form.task = "known" /\ form.uploaded >= Len(form.files) /\ form.uploaded \in Nat
    BY <2>1 DEF InOrder, Forms
  <2>3. ASSUME ~form.changed, NEW i \in DOMAIN form.files
        PROVE  attached[form.files[i]] > 0
    <3>1. i \in 1 .. form.uploaded /\ form.files[i] \in Files
      BY <2>1, <2>2
    <3>2. attached[form.files[i]] \in 1 .. (1 + lost[form.files[i]])
      BY <2>1, <2>3, <3>1 DEF UploadedUpTo
    <3>3. QED
      BY <2>1, <3>1, <3>2
  <2>4. QED
    BY <2>2, <2>3, TaskAssumption
<1>2. QED
  BY <1>1, WebInvariant, PTL
=============================================================================
