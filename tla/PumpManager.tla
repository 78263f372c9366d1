----------------------------- MODULE PumpManager -----------------------------
(***************************************************************************)
(* src/src/pump_manager.cpp: PumpManager::PumpingFunc, the callback that   *)
(* mirrors the MT4 server's state into Redis.                              *)
(*                                                                         *)
(* The DLL's pumping thread keeps a local copy of the server's trades and  *)
(* calls PumpingFunc once per change, in order, one call at a time; it     *)
(* also calls it on every price tick (PUMP_UPDATE_BIDASK).  Every command  *)
(* to Redis is a step of its own, so that the connection can be lost, or   *)
(* Redis can run, between any two.  The time gates of the tick handler     *)
(* open at will: TickGate.tla is about their arithmetic.                   *)
(***************************************************************************)
EXTENDS RedisClient

CONSTANTS
  Logins,    \* trading accounts
  Symbols,   \* symbols whose properties the server may change
  Owner,     \* order -> the account it belongs to
  World,     \* what may happen in a run: see Worlds
  MaxFeed,   \* changes not yet delivered to PumpingFunc (a bound)
  MaxBacklog \* commands still in the queue when PumpingFunc is called (a bound)

Orders == Members

\* "restore":  the server restores a closed order (TS_OPEN_RESTORED)
\* "pending":  there are limit and stop orders
\* "records":  user and symbol records change
\* "tick":     prices change
\* "purge":    1000 seconds pass, "nouser": UserRecordGet may fail
Worlds == {"restore", "pending", "records", "tick", "purge", "nouser"}

Working(l) == <<"working", l>>
Closed(l) == <<"closed", l>>

ASSUME PumpAssumption ==
  /\ Owner \in [Orders -> Logins]
  /\ World \subseteq Worlds
  /\ MaxFeed \in Nat /\ MaxBacklog \in Nat
  /\ SetKeys = {Working(l) : l \in Logins} \cup {Closed(l) : l \in Logins}
  /\ StringKeys = ({"order", "orderpl"} \X Orders) \cup ({"margin", "user"} \X Logins)
                    \cup ({"symbol"} \X Symbols)

(***************************************************************************)
(* "open" and "closed" stand for the market orders (OP_BUY, OP_SELL) in    *)
(* one of the TS_OPEN or one of the TS_CLOSED states (TS_DELETED among     *)
(* them), "waiting" and "deleted" for the limit and stop orders.           *)
(***************************************************************************)
TradeStates == {"none", "open", "closed", "waiting", "deleted"}

ASSUME ValuesAssumption ==
  Values = TradeStates \cup {"record", "level", "summary", "profit"}

VARIABLES
  trade,   \* the MT4 server's trades, which TradesGet returns
  feed,    \* changes the pumping thread has yet to report, oldest first
  pc,      \* where PumpingFunc is; "idle" between calls
  event,   \* its code and data arguments
  listed,  \* the array a loop runs over: of MarginsGet, then of TradesGet
  todo,    \* what the loop PumpingFunc is in has still to visit
  changed, \* auxiliary: orders that have changed since pumping began
  placed   \* auxiliary: orders PumpingFunc was told of, by a change or by
           \* TradesGet, since it last deleted the working set of their account

worldVars == <<trade, feed, changed>>
pumpVars == <<pc, event, listed, todo, placed>>
vars == <<redisVars, worldVars, pumpVars>>

Change(kind, id, value) == [kind |-> kind, id |-> id, value |-> value]

NoEvent == Change("none", None, None)

\* An order that is in state now may have been in state before.
Was(before, now) ==
  \/ before = now
  \/ before = "waiting" /\ now # "none"
  \/ before = "open" /\ now = "closed"
  \/ "restore" \in World /\ before = "closed" /\ now = "open"

\* connectManager switches pumping on at a server that has orders already, and
\* connectRedis finds the Redis of earlier runs: of an order that exists it has
\* no text or an old one, and the order may be in the sets or not.  No change is
\* reported for what is there already (the update of everything at once has
\* data = NULL, for which PumpingFunc returns).
Init ==
  /\ trade \in [Orders -> TradeStates]
  /\ "pending" \in World \/ \A o \in Orders : trade[o] \notin {"waiting", "deleted"}
  /\ RedisInit
  /\ \A o \in Orders :
       strings[<<"order", o>>] # None => Was(strings[<<"order", o>>], trade[o])
  /\ \A l \in Logins :
       /\ sets[Working(l)] \subseteq {o \in Orders : Owner[o] = l /\ trade[o] # "none"}
       /\ sets[Closed(l)] \subseteq {o \in Orders : Owner[o] = l /\ Was("closed", trade[o])}
  /\ feed = <<>>
  /\ pc = "idle"
  /\ event = NoEvent
  /\ listed = {}
  /\ todo = {}
  /\ changed = {}
  /\ placed = {}

-----------------------------------------------------------------------------
(* The MT4 server.                                                           *)

Report(c) ==
  /\ Len(feed) < MaxFeed
  /\ feed' = Append(feed, c)

TradeBecomes(o, before, after) ==
  /\ trade[o] \in before
  /\ trade' = [trade EXCEPT ![o] = after]
  /\ changed' = changed \cup {o}
  /\ Report(Change("order", o, after))
  /\ UNCHANGED <<redisVars, pumpVars>>

Open(o) == TradeBecomes(o, {"none"}, "open")

Close(o) == TradeBecomes(o, {"open"}, "closed")

Restore(o) == "restore" \in World /\ TradeBecomes(o, {"closed"}, "open")

Place(o) == "pending" \in World /\ TradeBecomes(o, {"none"}, "waiting")

Activate(o) == TradeBecomes(o, {"waiting"}, "open")

Delete(o) == TradeBecomes(o, {"waiting"}, "deleted")

RecordChanges ==
  /\ "records" \in World
  /\ \E k \in ({"user"} \X Logins) \cup ({"symbol"} \X Symbols) :
       Report(Change(k[1], k[2], "record"))
  /\ UNCHANGED <<redisVars, trade, changed, pumpVars>>

WorldStep ==
  \/ \E o \in Orders :
       Open(o) \/ Close(o) \/ Restore(o) \/ Place(o) \/ Activate(o) \/ Delete(o)
  \/ RecordChanges

-----------------------------------------------------------------------------
(* PumpingFunc: one call at a time, from pc = "idle" back to it.             *)

Goto(stage) == pc' = stage /\ UNCHANGED <<event, listed, todo, placed>>

\* A loop visits the elements of todo, in the order of some array.
Visit(x) == x \in todo /\ todo' = todo \ {x}

Loop(stage, elements) == pc' = stage /\ todo' = elements

\* PumpingFunc returns, or catches and returns: its locals are gone.
Return ==
  /\ pc' = "idle"
  /\ event' = NoEvent
  /\ listed' = {}
  /\ todo' = {}

-----------------------------------------------------------------------------
(* Mutants of definitions below; no specification uses them.                 *)

\* One of the closed states is missing from the condition.
StoreRecordIgnoresClosed ==
  /\ pc = "record"
  /\ CacheSet(<<event.kind, event.id>>, event.value, TRUE)
  /\ Goto(IF event.value = "open" THEN "addWorking" ELSE "notify")
  /\ UNCHANGED worldVars

\* The text of an order waits for the next commit.
StoreRecordUncommitted ==
  /\ pc = "record"
  /\ CacheSet(<<event.kind, event.id>>, event.value, FALSE)
  /\ Goto(CASE event.value = "open" -> "addWorking"
            [] event.value = "closed" -> "addClosed"
            [] OTHER -> "notify")
  /\ UNCHANGED worldVars

\* One of the two keys is left out.
IntersectAlone ==
  /\ pc = "intersect"
  /\ CacheSInter({Working(Owner[event.id])})
  /\ Goto("await")
  /\ UNCHANGED worldVars

\* The future's get is forgotten.
AwaitImpatient ==
  /\ pc = "await"
  /\ answer' = "none"
  /\ Goto("remove")
  /\ UNCHANGED <<link, queueVars, serverVars, drops, lossy, worldVars>>

\* The two keys are confused.
RemoveFromClosed ==
  /\ pc = "remove"
  /\ CacheSDel(Closed(Owner[event.id]), inter)
  /\ Goto("notify")
  /\ UNCHANGED worldVars

\* The order of the event is removed, in the closed set or not.
RemoveUnchecked ==
  /\ pc = "remove"
  /\ CacheSDel(Working(Owner[event.id]), {event.id})
  /\ Goto("notify")
  /\ UNCHANGED worldVars

\* The refresh uses a list that still has the closed orders.
SummariesSetWithHistory ==
  /\ pc = "users"
  /\ todo = {}
  /\ listed' = {o \in Orders : trade[o] # "none"}
  /\ Loop("refresh", listed')
  /\ placed' = placed \cup listed'
  /\ UNCHANGED <<redisVars, worldVars, event>>

-----------------------------------------------------------------------------
(* PUMP_UPDATE_TRADES, PUMP_UPDATE_USERS and PUMP_UPDATE_SYMBOLS.            *)

\* A change is reported.  Calls with data = NULL return at once.
Take ==
  /\ pc = "idle"
  /\ feed # <<>>
  /\ written <= MaxBacklog
  /\ event' = Head(feed)
  /\ feed' = Tail(feed)
  /\ pc' = "record"
  /\ placed' = placed \cup {o \in Orders : event'.kind = "order" /\ event'.id = o}
  /\ UNCHANGED <<redisVars, trade, changed, listed, todo>>

StoreRecord ==
  /\ pc = "record"
  /\ CacheSet(<<event.kind, event.id>>, event.value, TRUE)
  /\ Goto(CASE event.value = "open" -> "addWorking"
            [] event.value = "closed" -> "addClosed"
            [] OTHER -> "notify")
  /\ UNCHANGED worldVars

AddWorking ==
  /\ pc = "addWorking"
  /\ CacheSAdd(Working(Owner[event.id]), event.id)
  /\ Goto("notify")
  /\ UNCHANGED worldVars

AddClosed ==
  /\ pc = "addClosed"
  /\ CacheSAdd(Closed(Owner[event.id]), event.id)
  /\ Goto("intersect")
  /\ UNCHANGED worldVars

Intersect ==
  /\ pc = "intersect"
  /\ CacheSInter({Working(Owner[event.id]), Closed(Owner[event.id])})
  /\ Goto("await")
  /\ UNCHANGED worldVars

Await ==
  /\ pc = "await"
  /\ answer = "found"
  /\ answer' = "none"
  /\ Goto("remove")
  /\ UNCHANGED <<link, queueVars, serverVars, drops, lossy, worldVars>>

\* as_array of an error throws; PumpingFunc logs it and returns.
AwaitFails ==
  /\ pc = "await"
  /\ answer = "error"
  /\ answer' = "none"
  /\ Return
  /\ UNCHANGED placed
  /\ UNCHANGED <<link, queueVars, serverVars, drops, lossy, worldVars>>

\* Whatever is in both sets is removed, not only the order just closed.
RemoveWorking ==
  /\ pc = "remove"
  /\ CacheSDel(Working(Owner[event.id]), inter)
  /\ Goto("notify")
  /\ UNCHANGED worldVars

\* callBack: a blocking POST, sent at most once, its outcome only logged.
Notify ==
  /\ pc = "notify"
  /\ Return
  /\ UNCHANGED <<redisVars, worldVars, placed>>

TradeStep ==
  \/ Take \/ StoreRecord \/ AddWorking \/ AddClosed \/ Intersect
  \/ Await \/ AwaitFails \/ RemoveWorking \/ Notify

-----------------------------------------------------------------------------
(* PUMP_UPDATE_BIDASK.                                                       *)

\* The 2 second gate is open: MarginsGet.  (When it is not, nothing happens.)
Tick ==
  /\ "tick" \in World
  /\ pc = "idle"
  /\ Len(pending) <= MaxBacklog
  /\ \E ls \in SUBSET Logins :
       /\ listed' = ls
       /\ Loop("margins", ls)
  /\ UNCHANGED <<redisVars, worldVars, event, placed>>

SetMargin ==
  /\ pc = "margins"
  /\ \E l \in todo :
       Visit(l) /\ CacheSet(<<"margin", l>>, "level", FALSE)
  /\ UNCHANGED <<worldVars, pc, event, listed, placed>>

\* UserRecordGet fails and the exception is caught: the purge, the commit and
\* MemFree are skipped.
MarginFails ==
  /\ "nouser" \in World
  /\ pc = "margins"
  /\ todo # {}
  /\ Loop("users?", {})
  /\ UNCHANGED <<redisVars, worldVars, event, listed, placed>>

MarginsSet ==
  /\ pc = "margins"
  /\ todo = {}
  /\ \/ "purge" \in World /\ Loop("purge", listed)
     \/ Loop("commit", {})
  /\ UNCHANGED <<redisVars, worldVars, event, listed, placed>>

PurgeWorking ==
  /\ pc = "purge"
  /\ \E l \in todo :
       Visit(l) /\ CacheClear(Working(l)) /\ placed' = {o \in placed : Owner[o] # l}
  /\ UNCHANGED <<worldVars, pc, event, listed>>

Purged ==
  /\ pc = "purge"
  /\ todo = {}
  /\ Goto("commit")
  /\ UNCHANGED <<redisVars, worldVars>>

CommitMargins ==
  /\ pc = "commit"
  /\ IF listed # {} THEN CacheCommit ELSE UNCHANGED redisVars
  /\ Goto("users?")
  /\ UNCHANGED worldVars

\* The 100 second gate is closed.
UsersNotDue ==
  /\ pc = "users?"
  /\ Return
  /\ UNCHANGED <<redisVars, worldVars, placed>>

\* It is open: UsersGet returns every account, or NULL.
UsersDue ==
  /\ pc = "users?"
  /\ \E ls \in {Logins, {}} : Loop("users", ls)
  /\ UNCHANGED <<redisVars, worldVars, event, listed, placed>>

\* The key is the one SetMargin writes; the text has other members.
SetSummary ==
  /\ pc = "users"
  /\ \E l \in todo :
       Visit(l) /\ CacheSet(<<"margin", l>>, "summary", FALSE)
  /\ UNCHANGED <<worldVars, pc, event, listed, placed>>

\* UserRecordGet fails, and no try block is open: the exception leaves
\* PumpingFunc, and what becomes of the process is not defined.
SummaryFails ==
  /\ "nouser" \in World
  /\ pc = "users"
  /\ todo # {}
  /\ Loop("escaped", {})
  /\ UNCHANGED <<redisVars, worldVars, event, listed, placed>>

\* "Margin updated done".  TradesGet lists the open and the waiting orders.
SummariesSet ==
  /\ pc = "users"
  /\ todo = {}
  /\ listed' = {o \in Orders : trade[o] \in {"open", "waiting"}}
  /\ Loop("refresh", listed')
  /\ placed' = placed \cup listed'
  /\ UNCHANGED <<redisVars, worldVars, event>>

RefreshProfit ==
  /\ pc = "refresh"
  /\ \E o \in todo :
       /\ CacheSet(<<"orderpl", o>>, "profit", FALSE)
       /\ event' = Change("order", o, "profit")
  /\ pc' = "refreshAdd"
  /\ UNCHANGED <<worldVars, listed, todo, placed>>

RefreshWorking ==
  /\ pc = "refreshAdd"
  /\ CacheSAdd(Working(Owner[event.id]), event.id)
  /\ Visit(event.id)
  /\ pc' = "refresh"
  /\ event' = NoEvent
  /\ UNCHANGED <<worldVars, listed, placed>>

Refreshed ==
  /\ pc = "refresh"
  /\ todo = {}
  /\ IF listed # {} THEN CacheCommit ELSE UNCHANGED redisVars
  /\ Return
  /\ UNCHANGED <<worldVars, placed>>

MarginStep ==
  \/ Tick \/ SetMargin \/ MarginFails \/ MarginsSet \/ PurgeWorking \/ Purged
  \/ CommitMargins

RefreshStep ==
  \/ UsersNotDue \/ UsersDue \/ SetSummary \/ SummaryFails \/ SummariesSet
  \/ RefreshProfit \/ RefreshWorking \/ Refreshed

Next ==
  \/ WorldStep
  \/ TradeStep
  \/ MarginStep
  \/ RefreshStep
  \/ RedisStep /\ UNCHANGED <<worldVars, pumpVars>>

Spec == Init /\ [][Next]_vars

(***************************************************************************)
(* Fairness.  MarginsGet, UsersGet, TradesGet and the POST return; Redis    *)
(* executes and answers what it is sent; cpp_redis ends every reconnection  *)
(* one way or the other (connect's 1000 attempts bound it).  The pumping    *)
(* thread reports changes in order, between ticks that may come without     *)
(* end: strong fairness for Take.                                           *)
(***************************************************************************)
Fairness ==
  /\ SF_vars(Take)
  /\ WF_vars(pc # "idle" /\ (TradeStep \/ MarginStep \/ RefreshStep))
  /\ WF_vars((Execute \/ Reply) /\ UNCHANGED <<worldVars, pumpVars>>)
  /\ WF_vars((Reconnect \/ GiveUp) /\ UNCHANGED <<worldVars, pumpVars>>)

FairSpec == Spec /\ Fairness

-----------------------------------------------------------------------------
(* Invariants and action properties.                                        *)

Commands ==
  [op: {"set"}, key: StringKeys, value: Values]
    \cup [op: {"del"}, key: SetKeys]
    \cup [op: {"sadd", "srem"}, key: SetKeys, members: SUBSET Members]
    \cup [op: {"sinter"}, keys: SUBSET SetKeys]

Changes ==
  [kind: {"order"}, id: Orders, value: TradeStates \ {"none"}]
    \cup [kind: {"user"}, id: Logins, value: {"record"}]
    \cup [kind: {"symbol"}, id: Symbols, value: {"record"}]

Stages == {"idle", "record", "addWorking", "addClosed", "intersect", "await",
           "remove", "notify", "margins", "purge", "commit", "users?", "users",
           "refresh", "refreshAdd", "escaped"}

\* Every variable keeps its type, and the two counters of cpp_redis's queue
\* stay in order: executed <= written <= queued.
TypeOK ==
  /\ link \in {"up", "down", "stopped"}
  /\ \A i \in 1 .. Len(pending) : pending[i] \in Commands
  /\ written \in 0 .. Len(pending)
  /\ executed \in 0 .. written
  /\ answer \in {"none", "awaited", "found", "error"}
  /\ inter \subseteq Members
  /\ strings \in [StringKeys -> Values \cup {None}]
  /\ sets \in [SetKeys -> SUBSET Members]
  /\ drops \in 0 .. MaxDrops
  /\ lossy \in BOOLEAN
  /\ trade \in [Orders -> TradeStates]
  /\ \A i \in 1 .. Len(feed) : feed[i] \in Changes
  /\ Len(feed) <= MaxFeed
  /\ pc \in Stages
  /\ event \in Changes \cup {NoEvent} \cup [kind: {"order"}, id: Orders, value: {"profit"}]
  /\ listed \subseteq Logins \cup Orders
  /\ todo \subseteq Logins \cup Orders
  /\ changed \subseteq Orders
  /\ placed \subseteq Orders

\* Nothing is under way: every change was handled, every command written was
\* answered.
Quiet == pc = "idle" /\ feed = <<>> /\ link = "up" /\ written = 0

\* In a quiet state, if no command was skipped, the working set of an account
\* has every open order the program was told of, and no order that has closed
\* since pumping began.  This needs SADD, SINTER and SREM to reach Redis in order,
\* also across reconnections, and the lists of TradesGet not to bring an order
\* back that closes meanwhile.  It is not said of an open order that is in the
\* closed set, because it was restored: another close may have taken it out.  Nor
\* of an order that was open when pumping began, before the first refresh, or
\* after a purge, before the next one; nor of one that closed before pumping
\* began, which an earlier run may have left in the set.
WorkingMatchesOpen ==
  (Quiet /\ ~lossy) =>
    \A o \in Orders : LET l == Owner[o] IN
      /\ (trade[o] = "closed" /\ o \in changed) => o \notin sets[Working(l)]
      /\ (trade[o] = "open" /\ o \in placed /\ o \notin sets[Closed(l)])
           => o \in sets[Working(l)]

\* In a quiet state Redis holds the latest state of every order that has changed
\* since pumping began, also after commands were executed twice around a
\* reconnection.  Of the others it has what earlier runs left, or nothing: the
\* refresh writes orderpl:<n>, not order:<n>.
RecordIsLatest ==
  (Quiet /\ ~lossy) => \A o \in changed : strings[<<"order", o>>] = trade[o]

\* When the subscriber is told of a closed order, Redis already has it: waiting
\* for the answer to SINTER waits for everything before it.
NoticeAfterClose ==
  (pc \in {"remove", "notify"} /\ event.value = "closed" /\ ~lossy) =>
    /\ event.id \in sets[Closed(Owner[event.id])]
    /\ strings[<<"order", event.id>>] = "closed"

\* PumpingFunc waits for the answer to a SINTER only as long as cpp_redis owes
\* it one: the command is in the queue, on the wire if the connection is up, and
\* none is left behind in a queue that was given up.
AnswerIsOwed ==
  (pc = "await" /\ answer \notin {"found", "error"}) =>
    /\ answer = "awaited"
    /\ link # "stopped"
    /\ \E i \in 1 .. Len(pending) :
         pending[i].op = "sinter" /\ (link = "up" => i <= written)

\* Between two calls of PumpingFunc nothing waits for a commit but margins and
\* summaries: whatever a change or a refresh queues is on the wire, or will be
\* sent by the reconnection.
OnlyMarginsLinger ==
  (pc = "idle" /\ link = "up") =>
    \A i \in written + 1 .. Len(pending) :
      pending[i].op = "set" /\ pending[i].key[1] = "margin"

\* Redis deletes a whole key in this step.
ExecutesPurge == executed' = executed + 1 /\ pending[executed'].op = "del"

\* An order leaves the working set only once it is in the closed set, or
\* because the whole set is deleted; so also when commands are skipped while
\* the connection is down, or executed twice around a reconnection.
WorkingLosesOnlyClosed ==
  [][ExecutesPurge \/
     \A l \in Logins : sets[Working(l)] \ sets'[Working(l)] \subseteq sets[Closed(l)]]_vars

-----------------------------------------------------------------------------
(* Liveness.                                                                *)

\* PumpingFunc always returns: the answer it waits for comes, or an error.
PumpingReturns == pc # "idle" ~> pc = "idle"

\* An order that closes leaves the working set, however ticks and reconnections
\* fall, unless a command was lost.
ClosedLeavesWorking ==
  \A o \in Orders :
    (trade[o] = "closed" /\ o \in changed) ~> (lossy \/ o \notin sets[Working(Owner[o])])

-----------------------------------------------------------------------------
(* What the log of the code says, and the code keeps until an order is      *)
(* restored.                                                                *)

\* pump_manager.cpp:265 "TS OPEN Normal -> add to working order": an open order
\* that PumpingFunc was told of is a working order, whatever other orders of its
\* account close meanwhile.  The branch takes restored orders too, and for those
\* the code breaks it (the run pump_restore).
OpenOrdersWorking ==
  (Quiet /\ ~lossy) =>
    \A o \in placed : trade[o] = "open" => o \in sets[Working(Owner[o])]
=============================================================================
