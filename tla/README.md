# School Planner Bot: verification project

TLA+ modules, TLC configurations and TLAPS proofs for the school planner in
this repository: a Telegram bot and a Telegram Mini App that share one
PostgreSQL store of weekly schedules, dated events, exceptions, holidays, tasks
and reminders, deployed by one shell script.

## 1. The system

| Component | State it keeps | Operations | Modelled by |
| --- | --- | --- | --- |
| Calendar rules (`app/planner/service.py:31-60, 268-336`) | none (reads `planner_events`, `event_exceptions`, `profile_holidays`) | resolve a date, validate one event, validate the calendar | `CalendarRules` |
| Planner operations (`app/planner/service.py`, `api.py`) | the rows of one profile's calendar, `planner_shares` | create, update, delete, restore; set and remove an exception; holidays; copy a day; share and import | `Planner` |
| Legacy schedule path (`app/services/schedule_service.py`, `app/repositories/`, `migrations/0002_planner.sql`) | the same rows through the views `schedule` and `extras` | create, update, retype, delete an entry; replace a day; import another user's week | `LegacySchedule` |
| Reminders (`app/reminders.py`) | `reminder_deliveries`, the loop's local variables | tick, claim, send, record | `Reminders` |
| Profiles, members, invitations (`service.py:87-198, 622-692`) | `profiles`, `profile_members`, `profile_invites`, `users.default_profile_id` | bootstrap, create and delete a profile, invite, join, revoke, remove a member, choose a default | `Membership` |
| Transactions and pool (`repositories/base.py`, `core/database.py`, `api.py:29-32`) | ten connections, row and advisory locks | begin, lock, commit, roll back | `Transactions` |
| Tasks and attachments (`service.py`, `api.py:194`) | `planner_tasks`, `task_attachments` | create, update, delete, attach (at most five) | `Transactions` (server), `WebTasks` (client) |
| Dialog state storage (`telegram/fsm_storage.py`) | `bot_fsm_storage` rows with an expiry, the clean-up lock | set and get state and data, clean up | `DialogStorage`; promises `DialogMemory` |
| Bot dialogs (`telegram/handlers.py`) | the dialog of one chat | set a day, rename or delete an entry | `BotDialogs`, on `DialogMemory` |
| Web client (`webapp/static/planner-v2.js`) | the shown profile, week and sheet, a request serial | refresh, switch profile or day, save a task with files, tick it off | `WebScreen`, `WebTasks` |
| Migrations (`core/database.py`, `migrate.py`) | `planner_migrations`, an advisory lock | apply pending files | `Deployment` |
| Deployment and backup (`scripts/`) | containers, image tags, dumps, two file locks | deploy, back up, rehearse, roll back | `Deployment` |
| Bells | `profile_bells` | replace the list | not modelled (section 7) |
| Calendar export, text parsing, authentication, body limits, statistics | none | conversions and per-request checks | not modelled (section 7) |

How they interact. Web requests open one transaction each (`api.py:29-32`); a
writing one first locks the profile's row (`PlannerService.access`). The bot's
commands go through `ScheduleService`, whose mutating methods run in
`unit_of_work`: an advisory lock per user, then the same profile row. They write
views; the trigger `planner_legacy_write` turns each row into a row of
`planner_events`. Both end in the same `validate_calendar`, but not every
operation calls it. Dialogs reach those commands through several messages, with
what was said before kept in `bot_fsm_storage`. The reminder loop runs in the
bot's process beside the dispatcher, reads calendars without a lock, and talks
to Telegram between two statements of its own. The web client talks to the same
requests and draws whatever answers it has. A deployment stops bot and web
application, migrates the tables all of them use, and starts them again.

What is hard here: rules that are checked only on some dates after only some
operations; two write paths with different checks; imports that are many
statements; a loop whose reads, claims and sends interleave with the users'
changes, with a second process and with crashes; dialogs whose buttons outlive
their state and whose rows expire between two statements; locks taken in
different orders; a client whose answers arrive late; a script that may fail or
be killed at every command. `PROJECT.json` lists each hazard at its line.

What makes each component correct, in the names of the properties:

- The calendar never holds an illegal day (`NoSameTypeOverlap`,
  `WithinDailyLimit`), exceptions belong to days of their series
  (`ExceptionsFollowSeries`), imports are exact and atomic (`ImportIsExact`), the
  older path leaves alone what it cannot show (`LegacyKeepsDatedEvents`) and strands
  exceptions in one way only (`OnlyMovesOrphan`).
- Reminders are sent at most once (`AtMostOnce`), recorded honestly
  (`LedgerHonest`), stop when switched off (`OptOutStopsSending`), and are on time
  (`OnTime`).
- At most one person joins by an invitation (`InvitationJoinsOne`,
  `JoinNeedsInvitation`), owners and limits stay (`OwnersStay`, `ProfileLimit`),
  the default profile exists (`DefaultExists`), and becomes unreadable in one way
  only (`OnlyLateChoices`).
- Nobody works on a profile that another is changing (`OneWriter`), a task never
  has six files (`AtMostFive`), requests do not wait for each other in a circle,
  with one exception (`OnlyResetsDeadlock`).
- A dialog's state and data live and end together (`KeepsPromise`); clean-up
  neither piles up nor blocks (`CleanOnlyWhenDue`, `EveryCallEnds`,
  `ExpiredRowsGo`); what is saved is what was previewed, once, and a new name goes
  to the chosen entry (`SavesThePreview`, `SavesOnce`, `RenamesTheChosen`).
- The client keeps the newest answer for the profile it names (`KeepsTheNewest`),
  is busy while it waits (`BusyWhileWaiting`), repeats nothing it knows to be done
  (`RetriesRepeatNothing`), and says "saved" when everything is
  (`SavedWithEveryFile`); where it misleads, it does so in one way
  (`OnlyGoingBackMisleads`).
- A deployment ends with a working pair of applications, or leaves them to a person
  (`SoundUnlessManual`, `AppsComeBack`), has a complete backup before it migrates
  (`SavedBeforeMigrating`), and applies each file once and before it is needed
  (`AppliedOnce`, `MigratedBeforeRun`).

## 2. Plan

Done, in this order: `CalendarRules`, `Planner`, `LegacySchedule` with
`PlannerProofs`; `Reminders` with `RemindersProofs`;
`Membership` with `MembershipProofs`; `DialogMemory`, `DialogStorage` and
`DialogStorageProofs`; `BotDialogs` with `BotDialogsProofs`; `Transactions` with `TransactionsProofs`;
`WebScreen` and `WebTasks` with `WebProofs`; `Deployment` with `DeploymentProofs`.

Left, in this order:

1. The conversion of old rows by `0002_planner.sql`, as a pure function from the
   old tables to the new ones, with the property that the views show the old rows
   again.
2. Changes of the UTC offset in `Reminders`.

## 3. The modules

### CalendarRules

One profile's calendar is a record `[event, live, exception, holiday]`, one
field per table; `live` is the set of rows without `deleted_at`. Soft-deleted
rows and their exceptions stay, because `restore_event` brings them back. Labels,
places and notes are left out: no rule reads them. Dates and times are integers;
`WeekdayOf` is `date.isoweekday()`. `DatedEntries` is `dated_entries` without the
entries it marks as cancelled, since every rule drops those first; `Fits`,
`ValidEvent` and `ValidCalendar` are the loops of `validate_event` and
`validate_calendar` as quantifiers. The dates they look at are kept exactly: only
dates with an exception or a dated event, and in `ValidEvent` the exceptions of
the excluded event still contribute their dates. The warnings about overlaps of
different types are only part of an answer and are left out.

### Planner

Each request is one action: it runs in one transaction that holds the profile's
row lock (`Transactions` shows that this excludes others), and a refusal rolls
back. Deletions and updates happen before the final validation in the code; here
the guard is evaluated on the resulting calendar. An import is the exception. It
opens a savepoint and creates entry by entry, so it is a sequence of actions on
`request.work`, a copy that other connections cannot see; the other writers'
guards `request = None` are the lock. `Rollback` may come at any moment: a refused
entry, a disconnected client, a lost process. A share link is the snapshot it
carries. `EventIds` bounds the rows ever inserted, since rows are never physically
deleted. The order of entries in an import is not fixed (the code's order is one
of those explored).

### LegacySchedule

`ScheduleService` on the default profile of a user. `LegacyRows` are what the two
views show; the trigger's insert, update and delete are `Insert`, an update of
`event[e]`, and `SoftDelete`. Every method ends with `validate_calendar`
(`atomic_schedule`); replacing a day and importing a week insert rows without a
check and rely on it alone. A day's text is checked before, as the code does it: its
entries are put in the order of their starts and compared with their neighbours
(`Sorted`, `NeighboursApart`). `OwnerWeeks` need not be a week that ever stood: the
owner's days are read one after the other without the owner's lock. Renaming an
entry changes nothing modelled. `Spec` lets both paths write the same profile.

### Reminders

`worker[w]` is one process: the instant its tick began (`at`), the users it has
not looked at with the preferences read at the start (`todo`), what is due for
the current one (`queue`), and the delivery under way (`item`, `outcome`).
`Claim` is the `INSERT ... WHERE EXISTS ... ON CONFLICT DO NOTHING`, committed at
once; `Send` separates whether the message reached the user from how the call
ended; `Record` and `Abandon` are the second statement and its failure. `Advance`
moves the clock at any point, also inside a tick. A profile's membership and
`reminders_enabled` are both tested by the claim and are one set, `wants`. One
unit of time is half a minute; local time is uniform. Telegram may deliver a
message whose call then fails; it does not deliver one call's message twice.

### Membership

`owner`, `role`, `default` and `invite` are the four tables; `request[c]` is the
transaction open on connection `c` and what it has read. An operation whose
reads are all made under the lock on the profile's row is one action
(`DeleteProfile`, `CreateInvite`, `RevokeInvite`, `RemoveMember`). The others
follow their statements: `CheckChoice` and `WriteDefault` are `update_user`,
`ReadDefault`, `ReadProfiles` and `WriteDefault` are `bootstrap`, `FindInvite` and
`JoinInvite` are `join_invite`, `CountProfiles` and `InsertProfile` are
`create_profile`, which holds the lock on the user's row in between (`RowFree`).
The foreign key from `users` to `profiles` is the guard `Exists` of
`WriteDefault`. Inside a transaction `now()` stands still, so an invitation that
expires between the two reads is still accepted. The branch of `bootstrap` that
creates a profile because the list is empty cannot be taken by a registered user,
who always is a member of his main profile. Users are registered from the start:
`ensure_user` and its trigger run in the user's first transaction, which without
them would be `Init` for that user. `joined` is a history.

### Transactions

What a request *holds* rather than what it computes: a connection of the pool,
and the locks of PostgreSQL with their three modes (`FOR UPDATE` and `DELETE`;
updates of other columns; what a foreign key takes on the row it refers to).
`Statements(a)` lists, for each kind of request, the statements that may wait, in
the order of the code: `Access` is `PlannerService.access(write=True)`, `UnitOfWork`
the advisory lock and then the profile, `Cascade` what `DELETE FROM profiles` sets
off, `Reset` and `Restore` the two updates of `users` that give people their main
profile back. A request may end at any moment (refusal, disconnection, time-out).
The upload of a file is there in full, count and insertion, since its limit rests
on the lock alone. `FileLimit` is 5 in the code.

### DialogData, DialogMemory, DialogStorage

`DialogMemory` is the abstract specification: state and data of a dialog, which
live `TTL` after the last write and then vanish together. `DialogStorage` is
`PostgresStorage`: rows with an expiry, reads that skip expired rows, upserts that
do not carry expired fields over, and `_maybe_cleanup` with its two tests around
the `asyncio.Lock`. A call that writes one row in one statement, or in one
transaction that keeps the row locked, is one action; the clean-up of a call is a
step before it. Times are remaining times (`expires_at - now()`, the time until
`_next_cleanup`), so no clock has to be bounded. `Fail` is an exception in any
statement, `Restart` the loss of the process. `DialogData` holds what both have in
common, the data dictionary with few fields.

### BotDialogs

Each handler is the list of storage and service calls it awaits (`todo`); time
passes, the web deletes entries, and the handler may be interrupted between any
two of them. `Router` is the order of registration, which decides who takes a
message; `Filter` the state a button asks for. A button of any message ever sent
may be pressed again, as the keyboards stay on the screen. Updates of one chat are
handled one at a time (`SimpleEventIsolation`). The dialog is `DialogMemory`, which
`DialogStorage` implements. Handlers that only answer are one command, `/today`,
or `/start` where the order of registration matters. One answer is a step of its
own, the preview (`SendPreview`): it is sent after `update_data` and `set_state`,
and may fail (`Interrupt` at `"send"`). `offered` is what previews, and so which save
buttons, are on the screen: `OnScreen` lets a save button be pressed only after a
preview with that button was sent. `preview`, `unsent`, `saved` and `renaming` are
histories. `Ids` bounds the entries ever made.

### WebScreen, WebTasks

`WebScreen` is `refresh()`: each call has a serial number, aborts the one before,
and keeps its answers only if it is still the newest and the profile is still the
one chosen. What a profile holds is the number of changes made to it, so that an
answer is a number and "stale" is "less". The three parallel answers of a refresh
are one. `WebTasks` adds the task sheet, which saves in several requests (the task,
then each file) of which any may be refused or done with its answer lost, and the
boxes that complete a task. While the sheet saves, its buttons are disabled and its
file input is not: `Choose` may happen at any moment until `saved()` closes the
sheet, `Proceed` takes the next file from the choice as it then is, and `sending` is
the file under way. `uploaded` is the count that the closure of `taskForm` keeps
over all attempts. `shouldSee`, `made`, `attached`, `lost` and the sheet's `changed`
are histories for the properties; `changed` says that the count may belong to an
earlier choice: other files were chosen after an upload, or during one that is
outstanding or then succeeded.

### Deployment

`script[d]` is the script of deployment `d`: the command it is at, the services it
still has to reach, and the two flags its exit trap reads. Every command may fail
(`Fail`; SIGINT and SIGTERM also run the trap), and `Kill` ends it with its locks
and without the trap, at any point. The migrations container belongs to the Docker
daemon and outlives the script (`Migrate`, with the transaction and advisory lock
of `Database._run_migrations`). Image `n` brings the migrations `1 .. n`; the image
before is allowed to run on a newer schema, as `docs/safe-update.md:44`
assumes of every migration. `manual` is "a person has to look": the script says so
itself when a rollback fails; one that is killed while the applications are stopped
tells nobody, and counts as manual because nothing else can go on from there.
`Recover` is that person. Backups of the timer compete for the backup lock.
`Start` and `Refuse` sum up the environment checks before anything is changed.

### What is assumed of the surroundings

PostgreSQL: a transaction is atomic and its rows are invisible until it commits;
a lock excludes, and ends with its transaction. Docker: a container that is not
recreated keeps its image. A killed script releases its file locks at once; a
child that inherited the descriptor would hold them longer, which only makes
others wait.

## 4. The runs

| Run | Question | Bounds |
| --- | --- | --- |
| `planner` | Can any order of edits, copies and imports make an illegal day? Is an import exact, all or nothing? | 3 rows, 2 weekdays, 2 dates (one per weekday), 3 times (slots that overlap and slots that touch), limits 2 and 1, 1 holiday, a copy of a day and a share in both modes and as previews; imports of one entry complete, those of two do not (the three rows are used up) |
| `legacy_both_paths` | Does the older path keep the rules and its hands off dated events, and how does it strand exceptions? | 3 rows, 2 weekdays, 1 date, day texts that touch, overlap and are empty |
| `legacy_orphans` | *violation*: the older path moves a series with exceptions | as above |
| `planner_undo` | *violation*: an offered undo is refused | 3 rows, 2 dates, edits only |
| `reminders` | At most once, honest, and what still arrives after opting out? | 2 processes, 1 user, two lessons and the evening summary due at the same time around midnight, one rescheduling value |
| `reminders_timely` | Is everything due claimed within the window plus one tick? | 1 process, 2 users of whom one has a failing calendar, two days, leads 0 and 4, every timetable |
| `membership` | Who gets in, who stays, who keeps a default? | 3 users, 5 profiles of which 2 are new, limit 2, 1 invitation, 2 requests at a time |
| `transactions` | Who excludes whom, and who waits for whom for ever? | 3 requests out of 17 kinds, 2 connections, 2 users, 3 profiles, 1 task with room for 1 file |
| `dialog_storage` | Does the table keep its promise, and does every call end? | 2 coroutines, 1 dialog, 2 fields, TTL and interval of 2 units |
| `bot_dialogs` | Is what is saved what was seen? | 1 chat, 2 days, 2 texts of which one is refused when saved, 2 ids, TTL 1 |
| `web_client` | Is what is shown and said true? | 2 profiles, the last day of one week and the first of the next, 3 refreshes, 5 changes, 2 files, 1 box; a sheet is opened, or a box ticked, only while a refresh is left for its end |
| `deployment` | How can a deployment end? | 2 deployments, of one commit and the next, 2 services, 1 row written |

Why the bounds are enough. An overlap needs two entries on one date; the third
row is the one whose edit exposes it (a restored series, a dated event in a
cancelled slot). Two overlapping slots, two that touch and one that covers both
are the cases of `overlaps`. With limits of two and one, three rows reach and
would pass the limit. Dates do not interact except through their weekday, so one
date per weekday shows every case of a rule. A second process is enough to race a
claim; three messages due at once let one process find two more after the
opt-out, which it must not send; two days hold the midnight between the due time
and the start. Two of three people can race for one invitation while the third
owns the profile; two requests of one user at the limit less one race for the last
profile. Three requests make a circle through three locks, and with two
connections the pool runs out while one of them waits for a lock; the requests of
`MCAsks` cover every kind in `Operations`. Two coroutines race for the clean-up
lock, and two units of time let a row expire, or be due, between any two
statements of a call. Two days, two ids and two kinds of text are enough to be
mixed up by an old button. No handler reads how long its dialog still lasts, so a
TTL of one unit, where a dialog may expire after any step, has every behaviour of a
longer one; the TTL itself is the subject of `dialog_storage`. Three refreshes have
two overtaken answers; two files have a first that is stored and a second that
fails, and five changes let a task be made and both files be stored with two of the
answers lost, or a file be attached twice. The second deployment meets
everything a failed or killed first one leaves behind. The proofs of section 5
remove most of these bounds: `ImportsAreExact` covers imports of any number of
entries, where the run completes those of one. Rows, ids, holidays, the clock (`LastTime`),
`MaxRefreshes`, `MaxChanges`, `MaxToggles`, `MaxRows` and the inputs are bounded;
nothing else is.

Fairness. Safety needs none, and where none is stated none is assumed.

- `DialogStorage.FairSpec`: the event loop runs every coroutine that can run (weak
  fairness of `CheckDue` and of the end of a statement, well or not), `asyncio.Lock`
  wakes its waiters in the order of arrival (strong fairness of `EnterLock`), and
  time passes. A statement may fail every time: fairness is about its end, not its
  success. `ExpiredRowsGo` needs in addition that the bot is used, because only
  calls clean up; that is a premise of the property.
- `Deployment.Spec`: every command of the script returns, well or not (the wait for
  health has a deadline), and so does every statement of a migration
  (`command_timeout`). Nothing is assumed about people, so `AppsComeBack` may end in
  `manual`.
- `OnTime` is about time, not eventuality: in `TimelySpec` the clock waits while a
  tick takes longer than `TickBound` or a poll is overdue, so it says what
  `reminder_poll_seconds` (at most 60 s, the window is 120 s) buys when ticks are
  short. The code bounds neither the duration of a tick (it sends one message after
  the other) nor a restart: this is an assumption, not a promise. That slow sends
  delay the next poll is thereby assumed away.
  `TimelyAssumption` says which numbers it takes: a pause and a tick together fit
  into the window of 120 s and the 60 s of grace after a start (the default pause is
  30 s, so a tick may take 30 s), and nothing falls due so late in the day that the
  next tick may belong to the next day, which does not look back. With a pause of
  30 s and a tick of 30 s that holds for every minute up to 23:59; with longer ones
  a lesson or a summary of 23:59 may be missed.

`reminders_timely` switches deadlock checking off because its clock stops at
`LastTime`, `web_client` because its numbers of refreshes and changes are used up;
everywhere else deadlock is checked.

Every property of a passing run has a seeded fault in its module (the operators
marked *Seeded fault*) under which TLC finds it violated.

## 5. The proofs

All theorems hold for all values of the constants that satisfy the named
assumptions of the modules, which say that inputs are of their types, limits are
naturals, sets of rows or processes are finite, and `None` is a value of its own.
`TypeOK` of every component is proved; in the runs of `BotDialogs` and `Transactions` it is
checked too.

### The calendar (`PlannerProofs`)

`TypeCorrect`, `NeverOverlapping`, `NeverAboveLimit` for both write paths together,
`ExceptionsStayOnSeries` for the planner alone, `ImportsAreExact`,
`OlderPathStaysWeekly` and `OrphansAreMoved`; and about a rule by itself,
`NeighboursSuffice`.

The two calendar properties quantify over every date; the code validates only
dates with an exception or a dated event. What closes the gap is that on any other
date the entries shown are a subset of the weekday's template (holidays only
remove), so a legal template makes them legal. That gives
`ValidCalendar(c) => Sound(c)` for operations that validate the whole calendar. For
those that do not: deleting an event or adding a holiday only removes entries from
each date; setting an exception changes one date, where the replaced entry was
checked against all the others; removing one puts back the series' own entry,
checked likewise. Cardinalities of subsets and of a set with one more element carry
the limits. The inductive invariant `IInv` adds typing of every inserted row,
deleted ones too, and soundness of an import's working copy; of a legacy
replacement's working copy only typing holds, since its rows go in unchecked and
the closing validation is what makes the commit sound. `ExceptionsFollowSeries`
needs the stronger `FInv`: deleted rows keep exceptions and come back, so the
relation is kept for all rows. The two action properties follow from `EInv`: an
open import's working copy is the calendar it began with, less the scope, plus
the entries that are no longer pending, and everything that is entered is weekly.
`OrphansAreMoved` turns finding 1 into a bound: with both paths at work no step but a
move by `update_entry` leaves an exception on a date without its series, deleted rows
included. Its invariant `NInv` says that only inserted rows have exceptions, and that
the working copy of an open transaction has the same exceptions and only more rows.
`NeighboursSuffice` is why one pass over a sorted list may stand for all its pairs, in
the text of a day and in the list of bells. That a list can be sorted is taken from
Python; the prover cannot show it, as it takes an induction.

### Reminders (`RemindersProofs`)

`NeverTwice`, `HonestLedger`, `OptOutStops`, `InTime`. `IInv` adds to `TypeOK`, `AtMostOnce` and
`LedgerHonest`: a message without a row has not arrived (`Claimed`), what is under
way is pending in the ledger and, until it is sent, has not arrived (`UnderWay`), and
no two processes are under way with the same item (`Alone`). The opt-out is a budget
(`Budget`): what a user has received since, plus the processes still sending to him,
never exceeds the number of processes; a claim, which tests the preference again,
cannot raise it.

`InTime` is `TimelySpec => []OnTime`: everything due is found by a tick that begins
inside its window, and so is claimed within `Window + TickBound`. What is inductive is not that something is
claimed but that it is coming (`TInv`): for every process and everything that falls
due at some time `t`, the row is there, or the process sleeps until `t + Poll +
TickBound - 1` at the latest, or its tick began before `t` and the next one will
find it, or the tick began in time and the user is still to be looked at or the
item is already queued. `FoundInTime` is the arithmetic of days behind it: a tick
that begins in that interval inspects the day of the lesson, over midnight too, and
the window and the grace after the start are still open. `EndTimely` is where the
bound on ticks is used: the pause is counted from the end of a tick.

### Membership (`MembershipProofs`)

`SinglyUsed`, `JoiningNeedsInvitation`, `OwnersRemain`, `DefaultRemains`, `LimitHolds`,
`OnlyLateChoicesHurt`. `IInv` adds that an invitation which let somebody in is marked
used (`Single`), that a request which is joining refers to one that was created
(`Found`), and that an unrevoked invitation belongs to a profile that exists
(`Rooted`, the cascade): without the last the insertion of a member could not be
shown to meet a profile. `LInv` adds `Room`: whoever is between the count and the
insertion is the only one of his user and below the limit, which is what the row
lock gives.

### Dialog storage (`DialogStorageProofs`)

`StorageKeepsPromise` is the refinement `Spec => Promise!MemorySpec`: `state`, `data`
and `left` are read off the rows as a query reads them, so an expired row is no
dialog. Each step of a call maps to one step of the memory, the clean-up to a
stutter, because it deletes only what reads as nothing. `CleanUpIsExclusive`
rests on the second test under the lock.

### Bot dialogs (`BotDialogsProofs`)

`TypeCorrect`, `ThePreviewIsSaved`, `OnePreviewOneSave`, `TheChosenIsRenamed`. The
properties speak of the moment of a write; what makes them inductive is what holds
of a chat at every other moment (`Sane`). In a confirming state the day and text in
the dialog are those of the preview it is about, or are gone, and once it is saved the
dialog is only closed (`Kept`); between `set_state` and the answer they are those of
the preview still to be sent (`Sends`). That preview is the last one sent or, when
sending failed, the unsent one (`Current`): `Interrupt` turns the second case into
the first. In the state that waits for a name
the entry in the dialog is the chosen one. What is left of a handler is one of a few
lists (`AtWork`), and those that would change the day run only in states that do not
confirm: a handler that died after `update_data` therefore leaves new data under a
state that does not use them. The set of states is closed, so a filter by state is
a fact about the dialog.

### Transactions (`TransactionsProofs`)

`SpecTypeOK`, `SpecOneWriter`, `SpecAtMostFive`, `SpecOnlyResetsDeadlock`.
`SpecOneWriter` from `WriterInv`: the variables are functions and the lists of
statements sequences (`Shape`), every profile that a request writes is locked by it
or by a statement still on its list (`LocksWhatItWrites`), and the lock of a profile
has one holder (`Exclusive`). `SpecAtMostFive` from `FilesInv`, which follows an upload
through its phases: between its count and its insertion it is the one writer, so
the count still stands.

`SpecOnlyResetsDeadlock` needs to know what a request holds and what it still needs.
`LocksInv` says it: what is left of a request is a suffix of the script of its kind,
and it holds locks of the statements it has passed only, or of the reset, cascade or
restore it is at, which take theirs row by row (`Requested`); locks held by two requests do not
exclude each other (`Compatible`); the pool has given out no more than it has
(`Pool`). Requests that wait for each other for ever, with a pool that is used up or
not, contain a set in which everyone has a connection and needs a lock of another of
the set (`Circle`). In such a set somebody waits for the lock of a profile, because
what is locked before or instead of it (the user, the advisory lock) is held by
requests that need nothing but a profile; and who holds a profile and still needs
something is taking away defaults, as everybody else takes his profile last or is
done with waiting (`SomeResetter`). From that request the same argument leads to
another one (`SecondResetter`).

### Web client (`WebProofs`)

`WebTypes`, `KeptIsNewest`, `BusyIsWaiting`, `GoingBack`, `RetriesRepeat`,
`SavedIsComplete`, for any number of refreshes, changes, profiles, dates and files.
`ScreenInv` has the reasons: nobody has read a change that was not made
(`NothingFromTheFuture`), every call has a number of its own (`OneCallEach`), the
newest call reads after the last change that was reported, because reporting one
starts a call (`NewestIsFresh`), and it asks for the week of the day on screen unless
that day was chosen on the week that is kept (`AsksForTheDay`). `SheetInv` counts: a
task is made once for each lost answer and once more (`MadeOnce`), and as long as the
count belongs to the choice, the files before it are attached, those from it on at
most as often as answers about them were lost (`UploadedUpTo`), the file under way is
the next one or one that was taken out of the choice meanwhile (`InOrder`), and
while nothing counts as uploaded every file has been attached only as often as
answers were lost (`NoneUploaded`), whatever was chosen.

### Deployment (`DeploymentProofs`)

`EndsSound`, `SavesFirst`, `MigratesFirst`, `AppliesOnce`. The invariant has the exclusion of
deployments (`Exclusive`), what the flags of the script mean at each command
(`Marked`), what state the containers are in at each command (`Staged`), that the
rollback image is one that was found healthy (`WayBack`); then that stopped
applications write nothing after the dump (`Saved`), that applied files are those
of the ledger (`Recorded`), and that every image that runs or is about to has its
files (`Prepared`).

### Only model-checked

Every invariant and action property of a passing run is a theorem. Liveness under
fairness is out of the prover's reach, so `EveryCallEnds`, `ExpiredRowsGo` and
`AppsComeBack` are checked by TLC only, as is that the other runs do not deadlock.
No module that is proved about declares a recursive operator; none needs one.

## 6. Findings

1. *Orphaned exceptions* (`legacy_orphans`). The item route of the older path
   moves a weekly entry to another weekday without the check that
   `update_event` makes (`service.py:352-359`), leaving replacements and
   cancellations on dates where the series no longer takes place. Nothing else
   does (`OnlyMovesOrphan`, proved).
2. *Refused undo* (`planner_undo`). A deletion answers that it can be restored;
   when the series is cancelled or replaced on a date where a dated event has
   taken its slot, `restore_event` refuses, and so does any update of the
   series, because `validate_event` compares its template with that date.

Some properties say exactly when something goes wrong instead of that it never
does. They describe the following behaviour of the code.

3. *A default nobody can read* (`OnlyLateChoices`). `update_user` tests the
   membership without a lock (`service.py:149`); a removal that commits between
   test and write leaves a default profile that exists and cannot be read, and
   `/today` and `/week` answer 404 until the next bootstrap. The repair in
   `bootstrap` (`service.py:126`) has the same gap, and the property excepts its
   late write too.
4. *Circular waiting* (`OnlyResetsDeadlock`). Two owners who at once remove each
   other from their main profiles hold a profile each and need the other's for the
   default they give back; PostgreSQL ends one of the two requests with an error.
5. *A week without its lessons* (`OnlyGoingBackMisleads`). While another week is
   loading, drawing the old one again and choosing a day of it starts no refresh
   and aborts none; the new week then arrives under a day it does not contain.
   `docs/architecture.md:62` says that outdated requests are cancelled.
6. *Files skipped or repeated* (`RetriesRepeatNothing`, `SavedWithEveryFile`). The
   client counts uploaded files and reads the choice anew for each
   (`planner-v2.js:803-826`); only buttons are disabled meanwhile (`443-444`). When
   other files are chosen after an upload, or during one that succeeds, it skips as
   many of the new choice as it has stored of the old and reports the task as saved,
   or, with the order changed, attaches a file twice. A lost answer makes the retry
   repeat the task or file.
7. *Saving a preview that was never sent* (`SavesThePreview`). `lessons_input` and
   `extras_input` set the confirming state before they send the preview
   (`handlers.py:569-572`, `649-652`). If sending fails, the save button of an
   earlier preview of that kind, still on the screen, saves the text and day whose
   preview the user has not seen; never a mixture of the two.

Met while modelling, without a property of their own: `edit_receive_label`
(`handlers.py:348`) is registered before `/today` and others, so a command sent
while a name is awaited becomes the name. `backup-postgres.sh` takes the dump and
the counts in two snapshots: a backup of the timer made while applications write
can fail its own rehearsal, and only a deployment's, made while they are stopped,
cannot (`SavedBeforeMigrating`). After a deployment that failed before it recreated
the containers, `school-planner:local` already names the new image; after one that
was killed once it had recreated them, an image nobody found healthy is what the
next deployment would go back to.

## 7. Not modelled

- *Bells*: one list per profile, replaced whole under the profile's lock (the
  operation `edit` of `Transactions`); what is left is the check of one payload, the
  comparison of sorted neighbours that `NeighboursSuffice` is about.
- *Calendar export, text input, authentication, headers, body limits, static files,
  statistics, formatting*: computations within one request, without state.
- *Registration and `update_profile`*: the first is the initial state of
  `Membership`; names and colours are read by no rule.
- *Conversion of old rows by `0002_planner.sql`*, which happens once, and
  `keep-existing-db.py`. The views and triggers of that file are in `LegacySchedule`.
- *Fields of a task, type and size of a file, downloads*: checked within one request.
- *The other sheets of the web client*, which are one request each followed by the
  same refresh, and its confirmation dialogs and previews; so also not that an open
  preview of an attachment keeps `saved()` from closing the sheet.
- *Changes of the UTC offset* in `Reminders`.
- *Retention and copies to another host* in the backup script: they run after the
  backup is complete, or delete older ones.
