# A verification of the meeting-room booking service

This directory holds TLA+ models of the service under `src/`, TLC runs that
check them on small instances, and proofs that TLAPS checks for every instance.
Line numbers refer to files under `src/`.

## 1. The system

A Go HTTP server in front of one Postgres database. It keeps no state between
requests: everything lives in the tables of
`migrations/000001_init.up.sql`. Each request is a goroutine that calls one
service method; goroutines meet only in the database, whose transactions run
at READ COMMITTED (`tx_manager.go:21` asks for the default).

| component | state | operations |
|---|---|---|
| booking service (`application/bookings`, `postgres/booking_repository.go`) | `bookings`, partial unique index `bookings_active_slot_uidx` | `Create`, `Cancel`, `ListMine`, `List` |
| schedule service (`application/schedules`) | `schedules` (one per room), `slots` | `Create`, which also generates 7 days of slots |
| slot service (`application/slots`) | `slots`, unique per room and start | `ListAvailable`, which generates a missing day first |
| auth service, JWT, password, middleware | `users`, tokens held by clients | `Register`, `Login`, `DummyLogin`, `IssueToken`, `ParseToken` |
| room service | `rooms` | `Create`, `List` |
| transaction manager (`postgres/tx_manager.go`) | open transactions | `WithinTransaction` |
| HTTP transport (`infrastructure/http`) | none | binding, `authMiddleware`, decoding, `mapAPIError`, 30 s timeout |
| conference mock | none (a link is a function of the booking id) | `CreateConferenceLink` |
| server life cycle (`cmd/server/main.go`) | listener, pool | start, graceful shutdown |
| seed (`cmd/seed/main.go`) | none | ensures demo users, rooms, schedules and a booking |
| settings, logging, clock, ids, generated code | none | |

What a request may do is decided in this order: the generated wrapper binds its
parameters (`generated/api.gen.go`), `authMiddleware` looks at the token, the
handler decodes the body, the service asks for the role.

Interactions: listings read what the booking service commits (a slot with an
active booking is not listed); listings and schedule creation insert into the
same table; bookings refer to slots and users by id; user and role come from
the token and are not looked up again.

What is hard here, and what must hold:

- **Check-then-act across transactions.** `Create` looks for an active booking
  and then inserts; `Cancel` reads a row without a lock and writes it back;
  two schedule creations, two listings of one day, two registrations of one
  email do the same. The indexes and `ON CONFLICT DO NOTHING` must make each
  race safe.
- **Partial failure.** A call may fail, time out or be cut off at any
  statement; `COMMIT` may succeed without its acknowledgement; a link is
  created before its booking; slots are inserted one by one and a day that has
  any slot is never completed later.
- **Waiting.** An INSERT waits for uncommitted entries of a unique index, an
  UPDATE for a row lock: no circle may arise.
- **Staleness.** `now` and the dates to generate are read before the
  transaction that uses them.
- **Boundaries.** The instant a slot begins, the last day of the horizon, the
  end of a day's window, Sunday, an offset beyond an int.
- **Reads in pieces.** `GET /bookings/list` counts and selects in two statements
  outside a transaction, and its pages are turned while bookings are made.
- **Stopping.** After a signal, handlers get 10 s where the router allows them
  30 s and a body may never arrive; then the pool closes and the process ends.
- **Running again.** The seed stops anywhere, is repeated, and runs beside
  others that make the same rooms, whose names are not unique.

`PROJECT.json` lists these hazards at their lines with the properties that
would catch each going wrong.

## 2. The modules

| module | models |
|---|---|
| `SlotBook` | the promise of the booking service: every call takes effect in one step or not at all |
| `Bookings` | `Create` and `Cancel`, a statement a step, with Postgres's locks |
| `BookingsRefinement` | the mapping from `Bookings` to `SlotBook` |
| `BookingsProofs` | theorems about `Bookings` |
| `BookingsRefinementProofs` | the proof that `Bookings` implements `SlotBook` |
| `Lists` | `ListMine` and `List` beside the calls of `Bookings`, with readers that turn pages |
| `ListsProofs` | theorems about `Lists` |
| `Availability` | schedule `Create` and `ListAvailable`, a statement a step, slots inserted one by one |
| `Timetable` | validation of a schedule and generation of its slots, an iteration of each loop a step, in minutes |
| `TimetableProofs` | theorems about `Timetable` |
| `Accounts` | registration, the logins, tokens and the middleware |
| `AccountsProofs` | theorems about `Accounts` |
| `Reservations` | `Availability` with bookers that book slots out of its answers |
| `AvailabilityProofs` | theorems about `Availability` and `Reservations` |
| `Transport` | per endpoint: parameters, token, body, role, and the status of every error (operators only) |
| `Server` | one run of `cmd/server` with the requests it serves |
| `ServerProofs` | theorems about `Server` |
| `Seed` | runs of `cmd/seed`, the room service and table `rooms` |
| `SeedProofs` | theorems about `Seed` |
| `MC*` | instances for TLC |

How to read them against the code:

- `pc[c]` is the next statement of call `c`; the locals of a handler (`now`,
  `booking`, the generated slots) are functions of the call. An id is a random
  UUID in the code, so it is the name of the call that drew it in the model.
- The tables are sets of committed rows. `write[c]`, `newSchedule[c]` and
  `newSlots[c]` are what `c`'s open transaction has written: nobody else reads
  it (READ COMMITTED), but it blocks (`IndexBusy`, `RowLocked`,
  `ScheduleLocked`, `SlotLocked`). A lock is a row that is still unpublished;
  `Return` drops it as the deferred `Rollback` does.
- `IndexBusy` also covers a transaction that is about to take an entry *out* of
  the index: an INSERT waits for a concurrent `Cancel` of the slot's booking.
- `Update` writes `status`, `link` and `createdAt` from the copy `GetBooking`
  read and the other columns from the row as it is then, as the statement does.
- The clock is finer than a stored time: the code takes nanoseconds, a
  `TIMESTAMPTZ` keeps microseconds and the driver truncates what it is sent. So
  `Precision` instants share one stored time. `NewActiveBooking` has the instant
  itself, which `Create` also answers with; `AsStored` is the row, and the bound
  `@now` of `ListByUserFuture` is truncated likewise. Slots begin at whole
  minutes, which a column holds exactly.
- `Fail` is any failing statement or the timeout of `router.go:24`; the commit
  that succeeds unacknowledged is `CommitUnacknowledged`; `Crash` ends every
  call in flight. A restart changes nothing, there being no other state.
- A retry is one more call.
- In `Availability` a day is a set of half-hours of the schedule. It begins with
  the slots one earlier schedule generated, or with none. `Timetable` has the
  minutes, the weekdays and the order. Table `rooms` never loses a row, so its
  look-up is joined to the step before it. Slots are inserted the earliest
  first because `GenerateSlotsForDate` yields them so, which `Timetable` shows
  (`SlotsInOrder`).
- `Reservations` adds the bookings of those slots (`taken`, `held`). A booking
  or a cancellation is one step there, which the refinement of `SlotBook` by
  `Bookings` justifies; looking up the slot is a step of its own, as slots are
  made meanwhile. Bookers choose from any answer ever given, or send an id that
  nobody was shown.
- `Lists` keeps every action of `Bookings` and adds readers. `known` is what
  there was when a reader began (nothing if it began at a later page), and
  `Offset` wraps as the product of two ints does. The order of a user's own
  list is left out.
- `Server` follows a request from its connection to its answer; of a service it
  keeps the connections of the pool it takes, one at a time, and which errors it
  may return (`Transport!ServiceErrors`). "driver" stands for every error
  without a name: a failed statement, the timeout, a closed pool. In
  `AnswersAreDocumented` 500 is allowed everywhere, as `api.yaml` does.
- In `Seed` a call of the schedule or the booking service is one step; user
  registration and room creation, which use no transaction, are several. What
  clients write meanwhile (`OtherRegisters`, `OtherSchedules`, `OtherBooks`,
  `OtherCancels`) is one step a call. `repeats` is whether a run began with
  everything there, whoever made it: also a run that ended in a failure, as when
  the acknowledgement of its booking is lost. The whole model plays within one
  day: a seed run on another day rightly books again.
- `Accounts` takes hashing and signing as ideal: a hash is the password it was
  made from, a token cannot be made up. A body whose email is no address does
  not get there: decoding it fails, which is answered 500 as in section 6.

Operators preceded by a comment "Variant: ..." are deliberate mistakes, used to
see that each property can fail; no specification refers to them.

## 3. What TLC checks

| run | instance | what it shows |
|---|---|---|
| `bookings_contention` | 4 calls of 2 users for one slot, of whom one cancels, an instant before the slot begins and the one when it does | `BookingsInv` (the inductive invariant), `OneActivePerSlot`, `ReplyIsStored`, `CancelIsFinal`, `OnlyOwnerCancels`, and `CallsTakeEffectAtOnce`: `Bookings` implements `SlotBook` |
| `bookings_lists` | 2 calls of any kind by 4 actors for 2 slots and an unknown one, 1 reader with pages of 1, a page 0, a size 0 and offsets that wrap, before, when and after the first slot begins | `RefusedLeavesNothing`, `LinkOfBookingExists`, `EveryCallAnswered`, `PagesSkipNothing`, `PageAgreesWithTotal`, `MineIsUpToDate` |
| `bookings_mine_starting_now` | as `bookings_lists` | violated: see section 6 |
| `reservations` | 3 calls (two different schedules of a room, listings of two days), 2 bookers, with and without an earlier schedule | `DayIsWholeOrEmpty`, `SlotsDoNotCollide`, `WinnerKeepsRoom`, `RoomNeverDoubleBooked`, `ShownSlotIsFound` |
| `availability_requests` | 2 calls, every request and refusal, 2 rooms, dates 0..4, midnight | `IInv` (the inductive invariant), `SlotsWithinHorizon`, `EveryCallAnswered`, `ScheduledDayIsListed` |
| `availability_second_schedule` | 2 calls | violated: see section 6 |
| `timetable` | requests at the edges of each rule, 7 days from a Monday and a Saturday | `IInv` (the invariant of all loops), `NoOverlap`, `RejectedOnlyIfInvalid`, `DaysNormalized`, `TimetableIsExact` |
| `accounts` | 3 calls, 3 instants, tokens that live one | `IInv` (the inductive invariant), `OneAccountPerEmail`, `TokensTellTheTruth`, `LoginProvesRegistration`, `RegisteredCanLogIn` |
| `accounts_email_taken` | 2 calls | violated: see section 6 |
| `server` | 2 requests with any one fault to any endpoint, a pool of 1 | `ExitTellsTruth`, `NothingWithoutToken`, `AnswersAreDocumented`, `SignalStopsServer` |
| `http_bad_request` | 1 request | violated: see section 6 |
| `seed` | 2 runs, 1 room creation by a client, 1 other write | `DoneMeansSeeded`, `DoneMeansBooked`, `NoSecondRoom`, `SeededStaysPut` |

Bounds. Four calls are enough for two users to book, cancel, book again and
cancel late on the same slot, which is the longest chain in which one call's
staleness can meet another's effect: a stale `Cancel` needs the booking it
read, its cancellation by another call, and a new holder. Slots are independent
of each other (no statement reads two), so one is enough for contention.
Two schedules that overlap in one half-hour and not in others make a mixed day
possible; three calls let two generators race while a third looks. A week of
two days and a horizon of two keep the listings on both sides of every
comparison. `MaxTime` and `LastDay` bound the clocks: they reach the first
start or pass it, the horizon's move or a token's expiry. `Precision` is 2 and
the first instant, 1, is no stored time: a booking made then is answered with a
`createdAt` that its row does not have.
In `bookings_lists` pages of one booking make two writers enough for every page
to move under the reader; `Word` is 16, so that page 5 has an offset that is
negative (pages of 2) or that of page 1 (pages of 4). In `reservations` two
bookers suffice because `RoomNeverDoubleBooked` is about pairs, and three calls
because two must generate a day while a third shows it. `PoolSize` is 1, which
makes the second request wait, and `MaxUses` 2 lets it wait again after its
first statement; requests have one fault each because the first decides. In
`seed`, `MaxOthers` writes come from outside (1 in the run; the properties also
hold with 2) and two instants decide which room of a name comes first.
Symmetry over calls is used only in runs without liveness. Deadlock is not
checked because the systems really stop when every call is answered.

Fairness. `WF_vars(Handle(c))` for each call: a goroutine whose next statement
can run is scheduled, and Postgres grants a lock once it is free. Failures,
crashes, the clock, readers and bookings by others have no fairness. `Handle` of
a call is enabled continuously once its locks are free or it is blocked by a
call that itself goes on, so weak fairness suffices. In `Server` the main
goroutine of a signalled run goes on (`WF_vars(signalled /\ MainStep)`: a signal
cancels `pgxpool.New`, wakes the `select`, and `Shutdown` has a deadline), and
whoever holds a connection gives it back (`WF_vars(Release(c))`: the router's
timeout cancels the statement it waits for). Requests, bodies and the signal
itself owe nothing. `Seed`, `Reservations` and `Timetable` are checked for
safety only.

## 4. What is proved

Every safety property that a passing run checks is also a theorem, which TLAPS
checks for all values of the constants: any number of calls, users, rooms,
slots, pages and seeds. Each module has one invariant that is inductive; the
properties follow from it, and action properties from one step taken in it.

| module | invariant | properties |
|---|---|---|
| `BookingsProofs` | `Invariance` (`IInv`), `AnswersInvariance` (`RInv`), `WholeInvariance` (`BookingsInv`, both) | `NoDoubleBooking`, `CancellationIsFinal`, `RepliesAreStored`, `NoTraceOfRefused`, `LinksExist`, `OwnersCancel` |
| `BookingsRefinementProofs` | | `Refinement`: `Spec => CallsTakeEffectAtOnce` |
| `ListsProofs` | `ListsInvariance` (`ListsInv`) | `NoBookingIsSkipped`, `PagesAreAsLongAsTold`, `OwnListIsUpToDate`; `ReadersDisturbNothing`, and with it `BookingsBesideReaders`: the properties of `Bookings` hold there too |
| `AvailabilityProofs` | `Invariance` (`IInv`), `ReservationsInvariance` (`ReservationsInv`) | `NoCollision`, `WholeDays`, `OneWinner`, `WithinHorizon`, `ListingsFindTheDay`; with bookers `NoDoubleBooking`, `ShownIsFound`, `DaysStayWhole` |
| `TimetableProofs` | `Invariance` (`IInv`) | `InvalidOnesAreRejected`, `DaysAreNormalized`, `TimetablesAreExact`, `SlotsNeverOverlap` |
| `AccountsProofs` | `Invariance` (`IInv`) | `OneAccount`, `TokensAreTrue`, `LoginsAreEarned`, `RegisteredLogIn` |
| `SeedProofs` | `Invariance` (`IInv`) | `CompleteRunsAreComplete`, `CompleteRunsAreBooked`, `NoNameTwice`, `RepeatsWriteNothing` |
| `ServerProofs` | `Invariance` (`IInv`) | `ExitCodeIsTrue`, `TokenComesFirst`, `AnswersFollowTheContract` |

The invariants are invariants of the runs too, where TLC found them to hold
before they were proved; those of `Lists`, `Reservations` and `Seed`, which say
more than the properties of their runs, were checked with the instances of
`bookings_lists`, `reservations` and `seed`.

Assumptions. `ConstantsAssumption` (of `Bookings`, `Availability`, `Timetable`
and `Accounts`), `SeedAssumption`, `ServerAssumption`, `ReadersAssumption` and
`FreeAssumption` say what kind of value a constant is. What they say beyond
that, the code grants: normalising an email and trimming a password twice is as
doing it once, and the emails the migration inserts are in normal form; the
days a creation generates lie within the horizon
(`InitialSlotGenerationDays <= MaxSlotGenerationDaysAhead + 1`); ids are
distinct; a page and a page size are less than half of an int's range; the
start of a slot is a time that its column holds exactly. No bound
of the runs is assumed: `MaxTime`, `LastDay`, `MaxUses` and `MaxOthers` are any
numbers.

**Bookings.** `OneActivePerSlot` alone is not inductive: a commit publishes a
row that was checked against the index earlier. `IInv` adds what the index
guarantees meanwhile: an uncommitted active row shares its slot with no
committed and no other uncommitted active row (`IndexInv`); a transaction
writes either its own new booking or a cancelled copy of a committed row
(`WriteInv`), because what `Cancel` carries from its read is such a copy
(`LocalInv`) and rows keep their key (`KeyInv`); and each statement belongs to
the right kind of request (`ControlInv`). The proof goes action by action; the
steps that leave the table alone share `AbortInv` and `MoveInv`. A cancellation
in flight is the delicate case: it may be written from a stale copy, and the row
it replaces has to be the same booking, active or cancelled.

`RInv` is about what calls say. A local copy is the call's own new booking or
the target as read, cancelled, and found to be the caller's (`CopyInv`); what is
about to be committed is that copy as a column stores it (`PendingInv`), so that
a reply agrees with the table without being read from it, but for the fraction
of `createdAt` that is not stored; what `Cancel` answers was read from a row and
is the row (`AsStored` of a row is the row); a link exists for a booking exactly if
every copy of it says so (`LinkInv`), which needs that no call that has yet to
build its booking has a link.

**The refinement.** `HolderOf` maps the active row of each slot, `Told` the
answers. Every statement but the commit changes neither, the commit of a `Create`
books, that of a `Cancel` releases, and an answer is `SlotBook`'s answer. Two
cases need `BookingsInv`: a commit of a row that was found free long before (the
slot is still free, by `IndexInv`), and a `Cancel` that commits a copy of a
booking that has been cancelled since (it releases nothing, or what it should,
`ReleaseAgainSimulation`). A commit that loses its acknowledgement takes effect
and tells the client nothing.

**Lists.** Why turning pages skips nothing: rows are never deleted, and neither
`created_at` nor the id of a row changes, so the number of rows before a given
one never falls (`NothingMovesUp`, for any finite table). `UnseenInv` says that
whatever was known and has not been shown stands below all the pages the reader
is done with; `Positions` turns "how many rows come before" into a place in the
listing. Offsets wrap, but a reader that began at the first page meets a
negative offset, and an error, before a wrapped one: a page is shorter than half
the range (`Offsets`). The invariant is about the table and the readers
together; `WriterInv` and the readers' lemmas each touch one side.

**Availability.** Slots are written one by one by several calls, so what holds
in between is a plan: each slot, stored or pending, belongs to a schedule, and
the whole of that day is stored, pending or about to be (`PlanInv`); no two
pending or stored slots start together (`CollisionInv`), as the unique index
makes one wait for the other. When a call commits, what it had planned is there
(`PublishedDay`), so a day is whole or empty. `ListingsFindTheDay` is about what
a listing answers and about two moments: its arrival, when the room has a
schedule, and its answer. Its proof carries along what such a listing knows
(`Listing`): when it selects, the day is stored, and as no slot of `Availability`
is ever booked (`NothingTaken`) it selects all of it (`SelectedDayIsWhole`); an
answer once given stays (`AnswerKept`).
In `Reservations` bookers only mark slots (`TouchInv`); a slot shown is stored
for good (`SlotsStay`), and two bookers hold different ids, hence different
half-hours by `SlotsDoNotCollide`. The proof showed that `BookersInv` must say
that who has no answer was told nothing.

**Timetable.** `IInv` is the invariant of four loops. `OrderInv`: slots are in
order and end before what the loops turn to next, and the window lies within its
day (`WindowInDay`), which keeps Monday's last slot from reaching Tuesday's
first. `DaysSoFar`: the days kept are those looked at, each once. `JudgedSoFar`:
the checks passed so far are the rules. `SlotsSoFar`: what has been generated is
what the days before mean, and of today the half-hours up to `current`.
`slices.Sort` is the sorted sequence of the same elements; that there is one
(`Sortable`) is shown by a least counterexample, as induction over sequences is
not available to the prover.

**Accounts.** Rows are the migration's or made by a registration that passed
the checks, with normalised emails, each once (`UsersInv`); a call past a check
has what the check found, and a token was issued for a row (`CallsInv`).

**Seed.** What a run has got to by its step stays, whoever runs beside it
(`Progress`), and the rooms it holds are of the names it looked for
(`RightRooms`); a run creates a room only of a name that was free when it began
(`NameWasFree`), for if there is one of the name, there is one to take
(`FirstRoomExists`); a run that begins when everything is there finds it and
never gets to a step that writes (`FindsEverything`). `DoneMeansBooked` is an
action property: the booking is there, or no slot is free, when a run ends, and
a client may cancel it afterwards.

**Server.** `ExitTellsTruth` is about the end; what carries it there is that a
graceful stop leaves no handler behind and none begins (`StopInv`), which in
turn needs that nothing is connected to a server that has not started
(`StartInv`). `NothingWithoutToken` holds step by step along the order of the
checks; its proof needs only what a request is (`RequestInv`).
`AnswersFollowTheContract` goes through the tables of `Transport`: every error a
service may return at an endpoint, or the transport itself, has a status that
the endpoint documents (`ErrorsAreDocumented`).

Only model-checked: the liveness properties `EveryCallAnswered` (of `Bookings`
and `Availability`) and `SignalStopsServer`, which are about fairness and beyond
the prover; and the disagreements of section 6, which are counterexamples. The
operators of the SQL order and of sorting are functions and sets, so that no
theorem rests on a recursive definition.

## 5. Not modelled

- Logging, the system endpoints and settings: they change no state and refuse
  nothing; a setting is a constant.
- API documents and the generated types: data without behaviour. Of the
  generated code the routes and the binding of parameters are in `Transport`.
- Payloads of requests and answers beyond what the properties tell apart;
  descriptions of rooms; the wording of errors.
- A server that dies while Postgres keeps its transaction open for a while (its
  locks would be held longer). UUIDs never collide.
- The 504 that chi's timeout middleware writes in addition to a handler's own
  answer, and `Recoverer`: no handler panics in these models.
- The summary the seed prints.

## 6. Where code and documents disagree

Shown by a run:

- `http_bad_request`: `writeAPIError` asks `mapAPIError` for the status of every
  error, and `mapAPIError` has no case for an `apiError` (`http/errors.go:37-62`),
  which unwraps to nothing. So what the transport refuses itself with 400 or 401
  (a missing or malformed parameter, a malformed body, a `pageSize` above 100,
  an invalid token) is answered 500. `api.yaml:522` says a missing date is a 400.
- `availability_second_schedule`: the loser of two concurrent schedule
  creations gets 500 (`schedule_repository.go:32`) where `api.yaml:488-496`
  has 409 `SCHEDULE_EXISTS`.
- `accounts_email_taken`: the loser of two concurrent registrations gets 500
  (`user_repository.go:33`) where `api.yaml:260` has 400.
- `bookings_mine_starting_now`: `ListByUserFuture` asks for `start_at > now`
  (`booking_repository.go:84`) where `api.yaml:699` says `start >= now`: the own
  list misses a booking whose slot begins at the instant of the call.
  `MineIsUpToDate` leaves that instant open.

Met on the way, and modelled as the code does it:

- A slot that begins at the instant of the call is refused (`domain/slot.go:48`);
  `api.yaml:570` refuses only `start < now`.
- `Register` trims the password, `Login` does not (`auth/service.go:84`, `:123`):
  `LoginProvesRegistration` says that a login needs the trimmed password, so a
  user who registered a padded one is refused with it.
- `Create` answers with a `createdAt` in nanoseconds; every later answer has the
  microseconds of the row.
- `(page - 1) * pageSize` (`booking_repository.go:120`) wraps for a huge `page`,
  which `api.yaml` bounds from below only: the answer is a 500, or another page.
- Two seeds at once, or a seed and an admin, make two rooms of one name.

## 7. Plan

All components that keep or change state are modelled, and every safety property
of the passing runs is proved. What would say more: the lock order that liveness
rests on as a safety theorem of `Availability`, that the transactions which wait
for each other never form a circle.
