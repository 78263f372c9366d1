# Verification of crow-microservice

The program (C++, Windows) connects to a MetaTrader 4 trading server through
the vendor's manager API, keeps the manager sessions alive, and mirrors the
server's trades, accounts and margins into Redis, with an HTTP notification per
change. This directory holds TLA+ modules of its core, the TLC configurations
that check them on small instances, and proofs that hold for every instance.

Paths below are relative to the repository's `src/`. `src/main.cpp` is UTF-16
with a byte order mark: `iconv -f UTF-16 -t UTF-8` shows it, with the lines the
map names.

## 1. Inventory

| Part | Files | State | Operations |
|---|---|---|---|
| Session manager | `session_manager.*` | `managerDB` (login -> session), `DBMutex`, `is_ping_setup`, timer | `CheckGetToken`, `CheckGetManager`, `CheckGetPump`, `checkConnection`, `SetupPing`, `ping`, `Clean` |
| Microservice controller | `microsvc_controller.*` | none (one static session manager per translation unit) | `Init`: `CheckGetToken`, then `SetupPing` |
| Pump manager | `pump_manager.*` | `pump`, `redis`, three time stamps `prev_call*` | `Init`, `PumpingFunc`, `callBack` |
| Redis client | `redis_client.*` | a cpp_redis client: connection and command queue | `Connect`, `CacheSet/Clear/Commit/SAdd/SDel/SInter`; `Send`, `Disconnect` unused |
| Network utilities | `network_utils.*` | none | `CallBack` (one POST), `hostIP` |
| Record views | `types.hpp` | none | MT4 record -> JSON |
| Main, shutdown | `main.cpp`, `usr_interrupt_handler.hpp` | a condition variable, the handler of SIGINT | start, serve, open the session, wait for SIGINT, clean up |
| Configuration | `config_manager.*`, `config.json` | property tree | `Load`, `Get` |
| REST listener | `basic_controller.*`, `controller.hpp` | listener | not compiled, no user |
| Vendor API | `MT4ManagerAPI.h` | external | `CManagerInterface`, `CManagerFactory` |
| Documents | `swagger.json`, `docs.html`, `logs/` | | describe an older, larger service |

How they interact:

    main -> MicroserviceController::Init -> SessionManager --Connect, Login,
                                              |   ^           PumpingSwitchEx--> MT4
                              timer thread -> ping |
                              look-ups -> checkConnection

    MT4 --callback, one at a time--> PumpManager::PumpingFunc --> RedisClient --> Redis
                                              \--> NetworkUtils::CallBack --> subscriber

Both chains are compiled; `main.cpp` starts only the first one today, and never
creates a `PumpManager`.

What is hard:

- **Sessions.** Six network calls happen between the look-up and the insert of
  a session, any of which may throw; connections drop at any time and are
  reopened by whoever looks next; the ping timer runs in a thread of its own
  and all of them share one mutex.
- **Mirror.** Commands to Redis are pipelined, silently skipped while the
  connection is down, and sent again after it was lost. The set of working
  orders is kept by three separate commands per close, and rebuilt from time to
  time from a list that may be ahead of the changes still to be reported.
- **Time.** The rebuild is gated by differences of a wrapping 32 bit count.
- **Shutdown.** A wait without predicate, a timer thread nobody joins, a server
  `run()` that blocks before the session is opened.

What makes each part correct:

- Session manager: looks like an atomic registry; one session per login; no
  interface shared; reconnections stay on the session's server; every call
  returns; every session is pinged.
- Mirror: when nothing is under way Redis has the latest state of every order
  that has changed since pumping began, and an account's working set the open
  orders the program was told of; a close is announced after it is stored; the
  callback always returns.
- Gates: never early, never late by more than a tick, wherever the count wraps.
- Texts: of two texts about one thing, written by different code from different
  sources, a reader can tell which to take and of what moment it is.
- Service: whatever fails on the way in ends the process; while it waits it has
  the configured session and pings it; what it wakes up for ends it.

`PROJECT.json` lists every hazard at its line with the property that covers it.

## 2. Modules

| Module | What it is |
|---|---|
| `SessionRegistry` | abstract: a registry of sessions with operations of one step |
| `SessionManager` | detailed: `session_manager.cpp` with one action per network call |
| `Service` | `main.cpp` around it: extends `SessionManager`, whose steps it takes while the process lives |
| `RedisClient` | `redis_client.cpp` over cpp_redis's queue, the connection, and Redis |
| `PumpManager` | `PumpingFunc`, extending `RedisClient`, and the MT4 server's trades |
| `TickGate` | the gate `abs(call_time - prev_call) > Limit` |
| `OrderViews` | extends `TickGate`: the two texts about one order, written behind the gate and by reports |
| `AccountViews` | the texts about one account and the code that writes them |
| `MCSessionManager`, `MCPumpManager` | symmetries and one account's orders, for TLC |
| `SessionManagerProofs`, `AccountViewsProofs` | the theorems about the module of that name |
| `OrderViewsProofs` | the theorems about `TickGate`, and about `OrderViews`, which implements it |
| `ServiceProofs` | the theorems about `Service`; extends `SessionManagerProofs`, whose lemmas it uses in the process |
| `QueueProofs` | lemmas about Append, Head and Tail |
| `PumpManagerProofs`, `MirrorProofs`, `WorkingSetProofs` | the theorems about `PumpManager`: types; texts, removals and notices; working sets |

### SessionManager

`managerDB`, `is_ping_setup` and `ping_seconds` are the code's variables;
`lock` is the owner of `DBMutex`; `pc`, `args`, `man`, `pump`, `conn` are a
thread's place and its arguments and locals (of a look-up, also the `role` it
wants, man or pump); `answer` is how its last session
call ended (a token, an interface, NULL or an exception). `link` and `home` are
the state of the MT4 interfaces, which the model learns from their use only:
Create, Connect, Login and PumpingSwitchEx climb a ladder, and `Drop` throws an
interface off it. `chain` and `todo` are the deadline timers and what a running
`ping` has still to visit.

| Actions | Code |
|---|---|
| `CallInit`, `CallManager`, `CallPump` | a thread enters `Init`, `CheckGetManager`, `CheckGetPump` |
| `TokenFound`, `TokenMissing` | lock and find (67-79) |
| `CreateMan` ... `SwitchPump` | the calls of 83-142; `SwitchPump` inserts and returns |
| `OpenFails` | any of the throws, and the destructor of the lock |
| `LookupMissing`, `LookupConnected`, `LookupOffline` | 166-192 with the test at 223 |
| `Reconnect`, `Relogin`, `ReconnectFails` | `checkConnection` |
| `SetupDone`, `SetupNeeded`, `ArmPing`, `MarkSetup` | `SetupPing`, which takes no lock |
| `PingStart`, `PingOne`, `PingDone` | `ping`, re-arming its timer |

The password and the time stamp of a session play no part in its control and
are left out; two calls with one login have, in the model, one password.
Exceptions the C++ runtime may raise by itself (`bad_alloc`) are left out.

### RedisClient and PumpManager

`pending` is cpp_redis's queue of unanswered commands, `written` of which have
been committed and `executed` of which Redis has executed. Each RedisClient
operation is an operator that PumpManager's actions use, so that a step of
`PumpingFunc` is one command. `PumpingFunc` is a thread with one activation
(`pc`, `event`, `listed`, `todo`), because the DLL calls it from its pumping
thread, one call at a time. `trade` is the server's truth, `feed` the changes
the pumping thread has yet to report.

Pumping starts (`Init`) at a server that has orders already, open, closed or
waiting, and on a Redis that has what earlier runs left there: any members of an
account's sets that are orders of it (in the closed set, orders that are closed
or were), and of each order no text, its state, or one it was in before
(`Was`, and the constant `PastTexts`, which bounds the texts a run tries). The
code reports none of this: the update of everything at once has `data = NULL`
and `PumpingFunc` returns (236). An order that is open when pumping starts has
no `order:<n>`, or an old one, until it changes, and enters the working set at
the first refresh. One that closed while the program was down stays in the
working set until the purge. The claims are therefore about orders that have
changed since pumping began (`changed`), or of which `PumpingFunc` was told
(`placed`); both are auxiliary.

JSON texts are abstracted to what they are derived from: an order's text is its
state, a margin is `"level"` or `"summary"` (two shapes are written under one
key), user and symbol records are `"record"`.

Assumed of code that is not in the repository:

- MT4's DLL reports changes in order, on one thread; `TradesGet` lists the open
  and the pending orders, and may be ahead of the reports.
- cpp_redis answers in order. After a lost connection it sends every unanswered
  command again, or gives up after `connect`'s last attempt and answers all of
  them with an error. `is_connected` and the enqueueing it guards are one step:
  the window between the two is as if the connection was lost after.
- Redis keeps its data (no restart, no eviction).

`lossy` is an auxiliary variable: some command was skipped or abandoned. The
code has no repair for that but the next refresh, so the agreement invariants
are stated for runs without loss (re-sent and doubly executed commands are not
a loss), while `WorkingLosesOnlyClosed`, `PumpingReturns` and the type
invariant are stated for all runs. `placed` has the orders `PumpingFunc` was told
of by a change or by `TradesGet`, since the working set of their account was
last deleted.

An exception that escapes `PumpingFunc` (`SummaryFails`) ends the thread in the
stage `"escaped"`; what Windows does with the process is not modelled.

### AccountViews

`history` is the account on the MT4 server through the moments of its past. A
copy of its records that the program holds is the number of a moment: `level`
is that of the list `MarginsGet` handed out, `record` that of the `UserRecord`
in the second loop, `news` has those to be reported. `margin` and `user` are the
texts under `margin:<login>` and `user:<login>`, as records of the members that
show money, and `made` (auxiliary) the moments they were made of. `stage` is
where the tick handler is.

| Actions | Code (`pump_manager.cpp`) |
|---|---|
| `AccountChanges` | the MT4 server, between any two calls |
| `MarginsGet`, `SetMargin`, `MarginFails` | the list (67), a round of the loop over it (69-83), the exception that is caught (74, 105) |
| `UsersNotDue`, `UserRecordGet`, `SetSummary`, `SummaryFails` | the second loop: its gate (110), its two calls and the text (123-157), the exception that nothing catches (129) |
| `UpdateUser` | `PUMP_UPDATE_USERS` (216-228) |

`MarginLevel` is the vendor's, `JMarginLevel`, `Summary` and `JUser` are the
conversions (`types.hpp` 85-276, `pump_manager.cpp` 133-152). `margin:<login>`
has two writers, with different sources and members: `MarginIsOfMoments` says of
which moment each member is, also when the level is older than the record beside
it, when no level is found and when the equity is 0; `MarginNeverGoesBack` that
the two may take turns without harm. What `user:<login>` shows as `margin` is
never filled, and agrees with nothing (`account_user`).

### TickGate and OrderViews

`TickGate` is one gate with its `int` time stamps on a circle of `2 * Half`
values; `GateStart` lets the machine have been up for any time, as
`GetTickCount` does. `Pass` and `Skip` are a tick that finds it open or closed.

`OrderViews` puts the refresh of the tick handler behind it. `trade` is the
order's record on the server and `feed` the copies of it that are still to be
reported; `order` and `orderpl` are the texts under `order:<n>` and
`orderpl:<n>`. `jTrade` is the conversion (`FromTradeRecord` and `AsJSON`, `types.hpp` 576-682).

| Actions | Code |
|---|---|
| `Place`, `PriceMoves`, `Activate`, `Close`, `Restore` | the MT4 server; a price move is not reported |
| `StoreOrder` | `PUMP_UPDATE_TRADES` as far as it concerns the two texts |
| `Tick` with `RefreshProfit` | `PUMP_UPDATE_BIDASK`, the loop over `TradesGet` |
| `TickEscapes` | the same with the gate open, when `UserRecordGet` fails: the exception leaves the handler (129) before the refresh |
| `TimePasses` | a millisecond without a tick, in which a reader may come |

`waited` counts the milliseconds since the last tick, and `escaped` says that an
exception has left the handler. `version`, `made` and `lag` are auxiliary: how
often the record has changed, which version each text was made of, and for how
many milliseconds a reader has not seen the current one. The order is placed
while the program runs. The reader is `ReadProfit`: `orderpl` while the text says that the
order is open, the text's own profit afterwards. That is the only rule that
works, because nothing deletes `orderpl` when the order closes.
`swap` is taken from `Memory`, since no code sets it. Pips are in tenths, lots
are divided in integers, as in the code. A restored order is excepted from the
claims about age: until the next refresh the reader is back at an old number.

### Service

`stage` is where `wmain` is; `config` the property tree, for the four keys that
matter later and one that stands for the others; `sigint` whose handler SIGINT
has; `trapped` the thread the C run time creates for ours; `notified` whether
the condition was notified for a thread that waits.

| Actions | Code |
|---|---|
| `HookSIGINT`, `Load`, `ConfigFails`, `Serve` | `main.cpp` 16-54 |
| `ServeFails`, `Served` | `app.run()` throws or returns |
| `InitBegins`, `InitEnds`, `InitFails` | `server.Init`, with `SessionManager`'s steps between |
| `WaitForUserInterrupt`, `WakeUp`, `WakeSpuriously` | `InterruptHandler::waitForUserInterrupt` |
| `Clean`, `Exit` | `~MicroserviceController`, the return of `wmain` and the destruction of the static objects (`microsvc_controller.hpp` 18, `session_manager.cpp` 4-5) |
| `Trap`, `Notify`, `Kill` | SIGINT with our handler, its `notify_one`, SIGINT with none |

Left open, because the code leaves it open: whether Crow takes SIGINT over and
whether it gives it back; whether the destructor's copy of the static session
manager is the one `Init` used; whether the last `WSACleanup` ends the
connections. Windows uninstalls a handler that runs, so that a second SIGINT
kills. The pings go on until `wmain` has returned. Nobody joins the timer's
thread, which may use the session's timer, `managerDB` and `DBMutex` while they
are destroyed: with such a thread `Exit` may also end in the stage
`"undefined"`, of which nothing is claimed.

## 3. Runs

Passing:

| Run | Instance | Shows |
|---|---|---|
| `session_race` | 2 threads in `Init`, 1 login, 2 servers, 4 interfaces, 2 timers | `LockDiscipline`, `OpeningIsNew`, `TokenIsRegistered`, `SessionOnItsServer`, refinement of `SessionRegistry` |
| `session_logins` | 1 `Init` thread and 1 look-up thread, 2 logins, 4 interfaces, 2 timers | `TypeOK`, `InterfacesNotShared`, `AnswerIsOwn`, `OnePingChain` |
| `session_fair` | the same with 1 login, 3 interfaces, fairness | `CallsReturn`, `SessionsPinged` |
| `pump_trades` | 2 orders in any state and Redis of earlier runs, user records, 2 unreported changes, 1 lost connection | `WorkingMatchesOpen`, `OpenOrdersWorking`, `RecordIsLatest`, `NoticeAfterClose` |
| `pump_world` | 1 order in any state and Redis of earlier runs, every kind of trade event, ticks, purge, failing look-ups | `TypeOK`, `AnswerIsOwed`, `OnlyMarginsLinger`, `WorkingMatchesOpen`, `WorkingLosesOnlyClosed` |
| `pump_fair` | 1 order, ticks, 1 lost connection, fairness | `PumpingReturns`, `ClosedLeavesWorking` |
| `account_views` | sums and losses 0 and 1, 4 moments, 1 unreported record | `TypeOK`, `MarginIsOfMoments`, `MarginNeverGoesBack` |
| `order_views` | 4 bit counts, limit 3, gap 2; 3 commands, 2 precisions, 2 prices, 4 changes of which 2 unreported | `TypeOK`, `Prompt`, `Spaced`, `FreshProfit`, `ClosedShowsFinal`, `ProfitNeverGoesBack`, `PipsIgnoreExtraDigit`, `PipsAndProfitAgree` |
| `service` | 1 login, 2 servers, 2 periods, 2 interfaces, 2 timers, fairness | `SessionAsConfigured`, `InterruptEndsWait`, `WaitingPings` |

Bounds and why they are enough. Two threads are enough to race for a lock, and
the ping timer is a third contender. Four interfaces allow two complete
sessions, or one session after a failed opening. A call that finds no unmade
interface can only fail. Two timers let a second timer appear if the code made
one. Two orders of one account let the intersection remove an order other than
the one that closed; orders of different accounts share no key. `MaxFeed = 2`
lets an order open and close before the first report arrives; `MaxBacklog`
bounds how far Redis may lag when the next call starts, and one lost connection
reaches every point of a call. `PastTexts` has of each order no text, "open" and
"closed". There are no symbols: their records take the same way as those of
users, to another key. The largest runs are `pump_world` (3.7 million states)
and `order_views` (2.3 million). Sums of 0 and 1 tell apart every member, a zero
equity and a credit; four moments are one for each copy a text is made of, and
one more. A count of 4 bits wraps after 16 milliseconds, so that the gate of 3
meets the wrap at every phase; buy, sell and one limit order are the
three cases of the arithmetic, 2 and 4 digits are those that an extra one turns
into 3 and 5; four changes let an order be placed, moved, closed and restored.
`wmain` makes one session, so one login; a second server and a second period
are there to be the wrong ones. The proofs of the safety
properties (section 5) cover every value of these constants.
The three pump runs switch deadlock checking off, because the server may have
nothing more to report, and an escaped exception or the backlog bound ends a
run; `service` does so because the process ends; `account_views`, `account_user`
and `order_views` because an escaped exception or the bound on changes ends the
run.

Violations, each a disagreement between what the code does and what it says:

| Run | Property | What happens |
|---|---|---|
| `session_alias` | `InitedOnServer` | `Init` with a known login and another server returns the old session and logs the new server |
| `pump_restore` | `OpenOrdersWorking` | a restored order stays in the closed set; the next close of another order drops it from the working set (`pump_trades` checks the same property without restores, where it holds) |
| `account_user` | `UserShowsMargin` | the member `margin` of `user:<login>` shows balance and equity 0: nothing calls `FillMarginLevel`. What a user's `margin` should be is said by `swagger.json` (1456), which describes the former REST API: an old document, but the only one |

Also seen while modelling, and listed as hazards without a run of their own:

- A throw of `CheckGetToken` after man's `Login` (123-141) leaves a logged-in
  connection that nothing refers to; the release in `Clean` is commented out.
- A later `Init`'s ping period is ignored (`SetupPing` 50-52), though `Init`
  logs it, and the defaults given to `ConfigManager::Get(key, def)` never apply.
- The session is opened only after `app.run()` returns, when the HTTP server
  has already stopped.
- The refresh adds limit and stop orders to the working set (180), and deleting
  one does not remove it. The repository does not say whether they belong there.
- The balance in `margin:<login>` includes the account's credit or not,
  depending on the loop that wrote it, and an equity of exactly 0 is replaced by
  the balance; `MarginIsOfMoments` states both.
- A SIGINT whose handler has run before the wait begins notifies nobody, and the
  service waits on (`usr_interrupt_handler.hpp` 51 has no predicate). Nothing in
  the program says otherwise, so there is no property; `InterruptEndsWait` is
  about a handler that runs during the wait.
- The ping thread may outlive the objects it uses (`Exit`).
- What was there before pumping starts is not mirrored (see `PumpManager`).
- Without open trades the summaries are queued and not committed (154, 183):
  `OnlyMarginsLinger` excepts them, and the margins of a loop that failed.
- `MarginLevelGet` failing, `UserRecordGet` failing outside of a try block.
- Limit and stop buys get their pips with the sign of a sale; `lots` is 0 below
  a volume of 10000; `swap` is never set.

## 4. Fairness

Sessions: weak fairness for the owner of `DBMutex` and for `SetupPing`, because
the DLL bounds every network call; strong fairness for threads and timers that
wait for the mutex, the assumption that `std::mutex` starves nobody. Nothing is
assumed of calls or of dropped connections. Pump: weak fairness of
`PumpingFunc`, of Redis answering, and of a reconnection ending one way or the
other (`connect` is given 1000 attempts); strong fairness of reported changes,
which share the thread with ticks.
`PumpingReturns` is checked with `UserRecordGet` succeeding: a failure in the
second loop escapes the callback (`SummaryFails`), after which nothing returns.
Service: weak fairness of `wmain` and of the handler's thread, which the system
schedules; strong fairness of an opening's steps and of a ping's start, which
wait for the mutex, as above; weak fairness of a ping that has it. Nothing is
assumed of `app.run()` returning, of SIGINT, or of spurious wake-ups.

## 5. Proofs

`SessionManagerProofs`, from the named assumptions on the constants only, for
any number of threads, timers, logins, servers and interfaces:

- `TypeCorrect`: `[]TypeOK`. `TypeOK` is not inductive: that an opening thread's
  `man` and `pump` are interfaces depends on where it is, which `LocalsOK` adds.
- `MutualExclusion`: `[]LockDiscipline`, on top of the types.
- `OpeningsAreNew`, `AnswersAreOwn`, `RegistryCorrect`: an opening is for a
  new login, look-ups answer with the session's own interfaces, and, as both
  together, tokens stay registered. They rest on `LockDiscipline`: between find
  and insert nobody else can be inside.
- `InterfacesExclusive`: needs that an interface some thread holds, or a session
  has, was created (so `Create` cannot return it again), that two threads never
  hold one interface, and that only openings hold any.
- `SessionsStayOnServer`: needs where each opening stands, since an interface
  has its server only after its `Connect`.
- `OneTimer`: one chain of pings, under the assumption `OneInitThread` that one
  thread calls `Init`, as `main.cpp` does. `SetupPing` takes no lock, and two
  threads would break it.
- `Refinement`: every step is a step of `SessionRegistry` or leaves its view
  unchanged; the invariants above supply that a registered session is new and
  its interfaces unused.

The gate, in `OrderViewsProofs`: `GatePrompt` and `GateSpaced`, for any `Half`, `Limit` and
`Gap` with `Limit + Gap < Half`. The inductive invariant `GateInv` says that,
once the gate has opened, the two counts differ by the elapsed time, or by a
turn less. For the code, `Limit <= 1000000` and `Half = 2^31`: prices must tick
at least every 24 days. `RefreshIsGated` says that `OrderViews` implements
`GateSpec`: each of its steps is one of the gate or leaves it alone, and so both
theorems hold of the refresh.

`AccountViewsProofs`: `TextShapes`, `MarginOfMoments` and `MarginGoesOn`, for any
sums and any number of moments. `MomentInv` says at which stage the handler holds
which copy, and that it is at least as new as the one the text was made of:
without it `SetMargin` or `SetSummary` could use a copy that was never made, or
an older one than the text shows.

`OrderViewsProofs`, for any commands, digits, prices, volumes, gates and number
of changes:

- `ViewsTyped`, `SignsAgree`, `ExtraDigitIgnored` from `RecordInv`: every text
  was made by `jTrade` of a record the server had.
- `FinalProfit` from `LastInv`: what was stored or reported last has the state
  of the order, and the profit it closed with.
- `ProfitIsFresh` from `AgeInv`: while an order was never closed, what a reader
  misses is no older than the last opening of the gate, which `GateInv` bounds at
  ticks, and the time since the last tick, which `Gap` bounds.
- `ReaderNeverGoesBack` from `OrderInv`, that reports are in order and newer
  than the text, and `CloseInv`, that nothing but a restoring follows a close,
  and the close is no older than the last refresh. Both are needed for the step
  at which the reader changes from one text to the other.

`ServiceProofs`, for any configuration, logins, servers, periods and interfaces:

- `SessionIsConfigured`: `[]SessionAsConfigured`. `ConfigOK` says that nothing
  is missing from `stage = "serving"` on, and `InitInv` what `Init` has done at
  each place of its call: up to the insert there is no session at all, up to the
  timer none is pinged, after it both are there, unless the call has thrown. It
  needs that no other thread runs `Init` (`MainAssumption`), and that look-ups
  and pings neither insert nor remove a session.
- `SessionsSafe` and `ServiceRefinement`: what is proved of `SessionManager`
  alone holds in the process. A step of the process is one of the session
  manager's, leaves its variables alone, or is `Clean`, which may cut any
  connection; the invariants and the view of `SessionRegistry` do not mind that.

`PumpManagerProofs`, `MirrorProofs`, `WorkingSetProofs`, for any orders,
accounts, symbols, queue lengths and numbers of lost connections:

- `MirrorTyped`: `[]TypeOK`, with `executed <= written <= Len(pending)` and
  what each stage of `PumpingFunc` knows of its locals.
- `WaitsForAnAnswer`: while `PumpingFunc` waits, its SINTER is in the queue, on
  the wire unless the connection is down, and `GiveUp` answers it with an error.
  This is the half of `PumpingReturns` that is a safety property: what is awaited
  can still come, also when commands are sent again.
- `OrdersAreCommitted`: `LingerInv` says what may be uncommitted: margins at any time, and
  the profits of a refresh while it runs over a list that is not empty, whose
  end commits them.
- `RemovalsAreOfClosed`: an SREM in the queue removes members of the closed set
  (`SetInv`), however often it is executed, because Redis never shrinks that
  set; and the intersection that `remove` uses is a part of it.
- `TextIsState`: an order that has changed since pumping began, without a change
  in the feed or in `PumpingFunc`'s hands, has its latest state as the last write in the queue, or in Redis if
  the queue has none. `EndsWith` says this so that executing a command again
  from the first one does not disturb it: every other write of the key is
  followed by that one.
- `ToldAfterStored`: when the SINTER was answered, all that was queued before
  it is done, the text and the SADD among it (`CloseInv`).
- `WorkingSetsAgree`: `EndsAt` says the same of an order's place in the
  working set, as what SADD, SREM and DEL do to it. `WorkingInv` adds to
  `LatestInv` that the change in hand is the latest (`HandInv`), that the
  refresh works through orders that are open, or whose end is still in the feed
  (`TodoInv`: the step at which a refresh could bring a closed order back), and
  that the intersection contains the order that closed, if the working set
  does (`FoundInv`).
- `OpenOrdersAreWorking`: without restored orders, every open order `PumpingFunc`
  was told of is in its working set, no matter what else closes. `WorkingSetsAgree` leaves open the
  orders of a closed set; `OverInv` says that these are closed on the server for
  good (so are those a queued SADD adds), which a restoring would break: the
  theorem assumes `"restore" \notin World`, and `pump_restore` shows why.

The working set's two theorems, `TextIsState` and `ToldAfterStored` are stated
for runs without loss, like the invariants they prove; re-sent commands are not
a loss.

Only model-checked: liveness (`CallsReturn`, `SessionsPinged`,
`PumpingReturns`, `ClosedLeavesWorking`, `InterruptEndsWait`, `WaitingPings`), which is out of the prover's reach. Every invariant and every
action property of the passing runs is a theorem.

## 6. Plan

1. Done: `SessionRegistry`, `SessionManager`; `RedisClient`, `PumpManager`;
   `AccountViews`; `TickGate`; their proofs.
2. Done: `OrderViews` over `TickGate`, and its proofs; `Service`, composing
   `wmain`, SIGINT and the session manager; the mirror's theorems.
3. Done: `SessionAsConfigured` and the session manager's theorems in the process
   of `Service`; `OrderViews` implements `TickGate`; `AnswerIsOwed`,
   `OnlyMarginsLinger` and `OpenOrdersWorking`.
   Left to prove: that a refresh repairs what lost commands left behind. It
   needs an auxiliary variable for what was lost since, and a claim about
   `orders:<login>:working` only, since closed orders are never added again.
4. Left to model, if the code comes to depend on it: the times in an order's
   text and the time zone `JUser` sets for the whole process; what is done with
   an interface a look-up returned.

## 7. Not modelled

- `basic_controller.*` and its interface `controller.hpp`, which are not
  compiled, and the address look-up of `network_utils.*`, which only they use;
  `swagger.json` and `docs.html` describe an API that no longer exists.
- The unused `Send`, `Disconnect` and vector `CacheSAdd` of RedisClient;
  `formatError*` of the controller; the structures of `types.hpp` that nothing
  uses; `jSymbol`, which copies three members.
- Logging, headers and Winsock's initialisation. `MT4ManagerAPI.h` is the
  vendor's: of its 1848 lines the project uses the enumerations and the members
  named in the map.
- Names, addresses, stops and times in texts, which are copied; JSON itself.
- Memory the DLL hands out and the code never frees (`UsersGet`'s array), and
  `bad_alloc`.
- Redis restarting or evicting keys, for which the code has no repair.
