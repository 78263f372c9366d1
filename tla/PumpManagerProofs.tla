-------------------------- MODULE PumpManagerProofs --------------------------
(***************************************************************************)
(* Proofs about PumpManager, for any orders, accounts and symbols, any     *)
(* number of lost connections, and queues of any length.                   *)
(***************************************************************************)
EXTENDS PumpManager, QueueProofs

(***************************************************************************)
(* cpp_redis's queue and the server behind it.  Without a connection       *)
(* nothing counts as written.                                              *)
(***************************************************************************)
QueueType ==
  /\ link \in {"up", "down", "stopped"}
  /\ pending \in Seq(Commands)
  /\ written \in Nat /\ executed \in Nat
  /\ executed <= written /\ written <= Len(pending)
  /\ link # "up" => written = 0
  /\ answer \in {"none", "awaited", "found", "error"}
  /\ inter \subseteq Members
  /\ strings \in [StringKeys -> Values \cup {None}]
  /\ sets \in [SetKeys -> SUBSET Members]
  /\ drops \in 0 .. MaxDrops
  /\ lossy \in BOOLEAN

WorldType ==
  /\ trade \in [Orders -> TradeStates]
  /\ feed \in Seq(Changes)
  /\ Len(feed) <= MaxFeed
  /\ changed \subseteq Orders

(***************************************************************************)
(* Where PumpingFunc is tells what its event is and what its loop visits.  *)
(***************************************************************************)
Closing == {"addClosed", "intersect", "await", "remove"}

StageType ==
  /\ pc \in Stages
  /\ event \in Changes \cup {NoEvent} \cup [kind: {"order"}, id: Orders, value: {"profit"}]
  /\ listed \subseteq Logins \cup Orders
  /\ todo \subseteq Logins \cup Orders
  /\ placed \subseteq Orders
  /\ pc \in {"record", "addWorking", "notify"} \cup Closing => event \in Changes
  /\ pc = "addWorking" => event.kind = "order" /\ event.value = "open"
  /\ pc \in Closing => event.kind = "order" /\ event.value = "closed"
  /\ pc = "refreshAdd" => event.id \in Orders
  /\ pc \in {"margins", "purge", "users"} => todo \subseteq Logins
  /\ pc = "margins" => listed \subseteq Logins
  /\ pc \in {"refresh", "refreshAdd"} => todo \subseteq Orders

PumpTypes == QueueType /\ WorldType /\ StageType

USE DEF Orders

\* The commands PumpingFunc uses are commands of the model.
LEMMA CommandTypes ==
  /\ \A k \in StringKeys, v \in Values : [op |-> "set", key |-> k, value |-> v] \in Commands
  /\ \A k \in SetKeys : [op |-> "del", key |-> k] \in Commands
  /\ \A k \in SetKeys, m \in Members : [op |-> "sadd", key |-> k, members |-> {m}] \in Commands
  /\ \A k \in SetKeys, ms \in SUBSET Members :
       [op |-> "srem", key |-> k, members |-> ms] \in Commands
  /\ \A ks \in SUBSET SetKeys : [op |-> "sinter", keys |-> ks] \in Commands
  BY DEF Commands

\* The keys the code builds are keys of Redis.
LEMMA KeyTypes ==
  /\ \A l \in Logins : Working(l) \in SetKeys /\ Closed(l) \in SetKeys
  /\ \A l \in Logins : <<"margin", l>> \in StringKeys /\ <<"user", l>> \in StringKeys
  /\ \A o \in Orders : <<"order", o>> \in StringKeys /\ <<"orderpl", o>> \in StringKeys
  /\ \A s \in Symbols : <<"symbol", s>> \in StringKeys
  /\ \A o \in Orders : Owner[o] \in Logins
  BY PumpAssumption

\* A change is stored under a key of its own kind.
LEMMA ChangeTypes ==
  ASSUME NEW c \in Changes
  PROVE  /\ <<c.kind, c.id>> \in StringKeys
         /\ c.value \in Values
         /\ c.value \in {"open", "closed"} => c.kind = "order"
         /\ c.kind = "order" => c.id \in Orders /\ c.value \in TradeStates \ {"none"}
<1>1. CASE c.kind = "order"
  BY <1>1, KeyTypes, ValuesAssumption DEF Changes
<1>2. CASE c.kind = "user"
  BY <1>2, KeyTypes, ValuesAssumption DEF Changes
<1>3. CASE c.kind = "symbol"
  BY <1>3, KeyTypes, ValuesAssumption DEF Changes
<1>. QED
  BY <1>1, <1>2, <1>3 DEF Changes

\* An operation appends its command, or is skipped without a connection.
LEMMA IssueType ==
  ASSUME QueueType, NEW cmd \in Commands, NEW commit \in BOOLEAN, Issue(cmd, commit),
         answer' \in {"none", "awaited", "found", "error"}, inter' \subseteq Members
  PROVE  QueueType'
<1>1. CASE link = "up"
  <2>1. pending' = Append(pending, cmd) /\ UNCHANGED lossy
        /\ written' \in {written, Len(pending) + 1}
    BY <1>1 DEF Issue, Queue
  <2>2. pending' \in Seq(Commands) /\ Len(pending) \in Nat /\ Len(pending') = Len(pending) + 1
    BY <2>1, AppendFacts DEF QueueType
  <2>. QED
    BY <1>1, <2>1, <2>2 DEF Issue, QueueType
<1>2. CASE link # "up"
  BY <1>2 DEF Issue, queueVars, QueueType
<1>. QED
  BY <1>1, <1>2

\* A command that is queued, or skipped, leaves the queue typed.
LEMMA CommandType ==
  ASSUME QueueType, NEW cmd \in Commands, NEW commit \in BOOLEAN, Command(cmd, commit)
  PROVE  QueueType'
<1>1. Issue(cmd, commit) /\ UNCHANGED <<answer, inter>>
  BY DEF Command
<1>. QED
  BY <1>1, IssueType DEF QueueType

\* So does a commit.
LEMMA CommitType ==
  ASSUME QueueType, CacheCommit PROVE QueueType'
<1>1. Len(pending) \in Nat
  BY LenProperties DEF QueueType
<1>. QED
  BY <1>1 DEF CacheCommit, QueueType, serverVars

\* Redis, the network and cpp_redis keep the counters of the queue in order.
LEMMA RedisType ==
  ASSUME QueueType, RedisStep PROVE QueueType'
<1>0. Len(pending) \in Nat /\ \A i \in 1 .. Len(pending) : pending[i] \in Commands
  BY ElementOfSeq, LenProperties DEF QueueType
<1>1. CASE Execute
  <2>1. executed + 1 \in 1 .. Len(pending) /\ executed' = executed + 1 /\ executed' \in Nat
        /\ executed' <= written /\ UNCHANGED <<link, pending, written, answer, drops, lossy>>
    BY <1>0, <1>1 DEF Execute, QueueType, queueVars
  <2> DEFINE cmd == pending[executed + 1]
  <2>2. cmd \in Commands /\ Apply(cmd)
    BY <1>0, <1>1, <2>1 DEF Execute
  <2> HIDE DEF cmd
  <2>3. /\ inter' \subseteq Members
        /\ strings' \in [StringKeys -> Values \cup {None}]
        /\ sets' \in [SetKeys -> SUBSET Members]
    <3>1. CASE cmd.op = "set"
      BY <2>2, <3>1 DEF Apply, Commands, QueueType
    <3>2. CASE cmd.op = "del"
      BY <2>2, <3>2 DEF Apply, Commands, QueueType
    <3>3. CASE cmd.op = "sadd"
      BY <2>2, <3>3 DEF Apply, Commands, QueueType
    <3>4. CASE cmd.op = "srem"
      BY <2>2, <3>4 DEF Apply, Commands, QueueType
    <3>5. CASE cmd.op = "sinter"
      BY <2>2, <3>5 DEF Apply, Commands, QueueType
    <3>. QED
      BY <2>2, <3>1, <3>2, <3>3, <3>4, <3>5 DEF Commands
  <2>. QED
    BY <2>1, <2>3 DEF QueueType
<1>2. CASE Reply
  <2>1. pending # <<>>
    BY <1>2, EmptySeq DEF Reply, QueueType
  <2>2. pending' \in Seq(Commands) /\ Len(pending') = Len(pending) - 1
    BY <1>2, <2>1, TailFacts DEF Reply, QueueType
  <2>. QED
    BY <1>0, <1>2, <2>2 DEF Reply, QueueType
<1>3. CASE DropLink
  BY <1>0, <1>3, StoreAssumption DEF DropLink, QueueType
<1>4. CASE Reconnect
  BY <1>0, <1>4 DEF Reconnect, QueueType, serverVars
<1>5. CASE GiveUp
  <2>1. <<>> \in Seq(Commands) /\ Len(<<>>) = 0
    BY EmptySeq
  <2>. QED
    BY <1>5, <2>1 DEF GiveUp, QueueType, serverVars
<1>. QED
  BY <1>1, <1>2, <1>3, <1>4, <1>5 DEF RedisStep

-----------------------------------------------------------------------------
\* The server's changes are changes of the model, and join the feed.
LEMMA WorldTypeStep ==
  ASSUME PumpTypes, WorldStep PROVE PumpTypes'
<1> USE DEF PumpTypes
<1>1. ASSUME NEW c \in Changes, Report(c) PROVE feed' \in Seq(Changes) /\ Len(feed') <= MaxFeed
  <2>1. feed' = Append(feed, c) /\ Len(feed) < MaxFeed /\ Len(feed) \in Nat
    BY <1>1, LenProperties DEF Report, WorldType
  <2>. QED
    BY <2>1, AppendFacts, PumpAssumption DEF WorldType
<1>2. ASSUME NEW o \in Orders, NEW before, NEW after \in TradeStates \ {"none"},
             TradeBecomes(o, before, after)
      PROVE  PumpTypes'
  <2>1. Change("order", o, after) \in Changes
    BY DEF Changes, Change
  <2>2. feed' \in Seq(Changes) /\ Len(feed') <= MaxFeed
    BY <1>1, <1>2, <2>1 DEF TradeBecomes
  <2>3. UNCHANGED <<redisVars, pumpVars>> /\ trade' \in [Orders -> TradeStates]
        /\ changed' \subseteq Orders
    BY <1>2 DEF TradeBecomes, WorldType
  <2>. QED
    BY <2>2, <2>3 DEF redisVars, queueVars, serverVars, pumpVars, QueueType,
         WorldType, StageType
<1>3. CASE RecordChanges
  <2>1. PICK k \in ({"user"} \X Logins) \cup ({"symbol"} \X Symbols) :
          Report(Change(k[1], k[2], "record"))
    BY <1>3 DEF RecordChanges
  <2>0. Change(k[1], k[2], "record") \in Changes
    BY DEF Changes, Change
  <2>2. feed' \in Seq(Changes) /\ Len(feed') <= MaxFeed
    BY <1>1, <2>0, <2>1
  <2>. QED
    BY <1>3, <2>2 DEF RecordChanges, redisVars, queueVars, serverVars, pumpVars,
         QueueType, WorldType, StageType
<1>4. ASSUME NEW o \in Orders,
             Open(o) \/ Close(o) \/ Restore(o) \/ Place(o) \/ Activate(o) \/ Delete(o)
      PROVE  PumpTypes'
  <2>1. \E before : \E after \in TradeStates \ {"none"} : TradeBecomes(o, before, after)
    BY <1>4 DEF Open, Close, Restore, Place, Activate, Delete, TradeStates
  <2>. QED
    BY <1>2, <2>1
<1>. QED
  BY <1>3, <1>4 DEF WorldStep

\* A change that is reported, an order that closes: one command per step.
LEMMA TradeTypeStep ==
  ASSUME PumpTypes, TradeStep PROVE PumpTypes'
<1> USE DEF PumpTypes, Goto, Closing, Stages, worldVars
<1>1. CASE Take
  <2>1. feed \in Seq(Changes) /\ feed # <<>>
    BY <1>1 DEF Take, WorldType
  <2>2. Head(feed) \in Changes /\ feed' \in Seq(Changes) /\ Len(feed') <= MaxFeed
    BY <1>1, <2>1, TailFacts, PumpAssumption DEF Take, WorldType
  <2>3. QueueType'
    BY <1>1 DEF Take, redisVars, queueVars, serverVars, QueueType
  <2>4. StageType'
    BY <1>1, <2>2 DEF Take, StageType
  <2>. QED
    BY <1>1, <2>2, <2>3, <2>4 DEF Take, WorldType
<1>2. CASE StoreRecord
  <2>1. event \in Changes
    BY <1>2 DEF StoreRecord, StageType
  <2>2. QueueType'
    BY <1>2, <2>1, ChangeTypes, CommandTypes, CommandType DEF StoreRecord, CacheSet
  <2>3. StageType'
    BY <1>2, <2>1, ChangeTypes DEF StoreRecord, StageType
  <2>. QED
    BY <1>2, <2>2, <2>3 DEF StoreRecord, WorldType
<1>3. CASE AddWorking
  <2>1. event.id \in Orders
    BY <1>3, ChangeTypes DEF AddWorking, StageType
  <2>2. QueueType'
    BY <1>3, <2>1, KeyTypes, CommandTypes, CommandType DEF AddWorking, CacheSAdd
  <2>3. StageType'
    BY <1>3 DEF AddWorking, StageType
  <2>. QED
    BY <1>3, <2>2, <2>3 DEF AddWorking, WorldType
<1>4. CASE AddClosed
  <2>1. event.id \in Orders
    BY <1>4, ChangeTypes DEF AddClosed, StageType
  <2>2. QueueType'
    BY <1>4, <2>1, KeyTypes, CommandTypes, CommandType DEF AddClosed, CacheSAdd
  <2>3. StageType'
    BY <1>4 DEF AddClosed, StageType
  <2>. QED
    BY <1>4, <2>2, <2>3 DEF AddClosed, WorldType
<1>5. CASE Intersect
  <2> DEFINE ks == {Working(Owner[event.id]), Closed(Owner[event.id])}
  <2>1. event.id \in Orders
    BY <1>5, ChangeTypes DEF Intersect, StageType
  <2>2. ks \in SUBSET SetKeys
    BY <2>1, KeyTypes
  <2> HIDE DEF ks
  <2>3. CacheSInter(ks)
    BY <1>5 DEF Intersect, ks
  <2>4. answer' \in {"awaited", "found"} /\ inter' \subseteq Members
    BY <2>3 DEF CacheSInter, QueueType
  <2>5. QueueType'
    BY <2>2, <2>3, <2>4, CommandTypes, IssueType DEF CacheSInter
  <2>6. StageType'
    BY <1>5 DEF Intersect, StageType
  <2>. QED
    BY <1>5, <2>5, <2>6 DEF Intersect, WorldType
<1>6. CASE Await
  <2>1. QueueType'
    BY <1>6 DEF Await, QueueType, queueVars, serverVars
  <2>2. StageType'
    BY <1>6 DEF Await, StageType
  <2>. QED
    BY <1>6, <2>1, <2>2 DEF Await, WorldType
<1>7. CASE AwaitFails
  <2>1. QueueType'
    BY <1>7 DEF AwaitFails, QueueType, queueVars, serverVars
  <2>2. StageType'
    BY <1>7 DEF AwaitFails, Return, StageType
  <2>. QED
    BY <1>7, <2>1, <2>2 DEF AwaitFails, WorldType
<1>8. CASE RemoveWorking
  <2>1. event.id \in Orders
    BY <1>8, ChangeTypes DEF RemoveWorking, StageType
  <2>2. inter \in SUBSET Members
    BY DEF QueueType
  <2>3. QueueType'
    BY <1>8, <2>1, <2>2, KeyTypes, CommandTypes, CommandType DEF RemoveWorking, CacheSDel
  <2>4. StageType'
    BY <1>8 DEF RemoveWorking, StageType
  <2>. QED
    BY <1>8, <2>3, <2>4 DEF RemoveWorking, WorldType
<1>9. CASE Notify
  <2>1. StageType'
    BY <1>9 DEF Notify, Return, StageType
  <2>. QED
    BY <1>9, <2>1 DEF Notify, redisVars, queueVars, serverVars, QueueType, WorldType
<1>. QED
  BY <1>1, <1>2, <1>3, <1>4, <1>5, <1>6, <1>7, <1>8, <1>9 DEF TradeStep

\* The loops of the tick handler visit what their array listed.
LEMMA TickTypeStep ==
  ASSUME PumpTypes, MarginStep \/ RefreshStep PROVE PumpTypes'
<1> USE DEF PumpTypes, Goto, Loop, Visit, Closing, Stages, worldVars
<1>1. ASSUME UNCHANGED redisVars PROVE QueueType'
  BY <1>1 DEF redisVars, queueVars, serverVars, QueueType
<1>2. ASSUME UNCHANGED worldVars PROVE WorldType'
  BY <1>2 DEF WorldType
<1>3. CASE Tick
  <2>1. StageType'
    BY <1>3 DEF Tick, StageType
  <2>. QED
    BY <1>1, <1>2, <1>3, <2>1 DEF Tick
<1>4. CASE SetMargin
  <2>1. PICK l \in todo : Visit(l) /\ CacheSet(<<"margin", l>>, "level", FALSE)
    BY <1>4 DEF SetMargin
  <2>2. l \in Logins
    BY <1>4, <2>1 DEF SetMargin, StageType
  <2>3. QueueType'
    BY <2>1, <2>2, KeyTypes, ValuesAssumption, CommandTypes, CommandType DEF CacheSet
  <2>4. StageType'
    BY <1>4, <2>1 DEF SetMargin, StageType
  <2>. QED
    BY <1>2, <1>4, <2>3, <2>4 DEF SetMargin
<1>5. CASE MarginFails
  <2>1. StageType'
    BY <1>5 DEF MarginFails, StageType
  <2>. QED
    BY <1>1, <1>2, <1>5, <2>1 DEF MarginFails
<1>6. CASE MarginsSet
  <2>1. StageType'
    BY <1>6 DEF MarginsSet, StageType
  <2>. QED
    BY <1>1, <1>2, <1>6, <2>1 DEF MarginsSet
<1>7. CASE PurgeWorking
  <2>1. PICK l \in todo : Visit(l) /\ CacheClear(Working(l)) /\ UNCHANGED <<pc, event, listed>>
                         /\ placed' = {o \in placed : Owner[o] # l}
    BY <1>7 DEF PurgeWorking
  <2>2. l \in Logins
    BY <1>7, <2>1 DEF PurgeWorking, StageType
  <2>3. QueueType'
    BY <2>1, <2>2, KeyTypes, CommandTypes, CommandType DEF CacheClear
  <2>4. StageType'
    BY <1>7, <2>1, <2>2 DEF PurgeWorking, StageType
  <2>. QED
    BY <1>2, <1>7, <2>3, <2>4 DEF PurgeWorking
<1>8. CASE Purged
  <2>1. StageType'
    BY <1>8 DEF Purged, StageType
  <2>. QED
    BY <1>1, <1>2, <1>8, <2>1 DEF Purged
<1>9. CASE CommitMargins
  <2>1. QueueType'
    BY <1>1, <1>9, CommitType DEF CommitMargins
  <2>2. StageType'
    BY <1>9 DEF CommitMargins, StageType
  <2>. QED
    BY <1>2, <1>9, <2>1, <2>2 DEF CommitMargins
<1>10. CASE UsersNotDue
  <2>1. StageType'
    BY <1>10 DEF UsersNotDue, Return, StageType
  <2>. QED
    BY <1>1, <1>2, <1>10, <2>1 DEF UsersNotDue
<1>11. CASE UsersDue
  <2>1. StageType'
    BY <1>11 DEF UsersDue, StageType
  <2>. QED
    BY <1>1, <1>2, <1>11, <2>1 DEF UsersDue
<1>12. CASE SetSummary
  <2>1. PICK l \in todo : Visit(l) /\ CacheSet(<<"margin", l>>, "summary", FALSE)
    BY <1>12 DEF SetSummary
  <2>2. l \in Logins
    BY <1>12, <2>1 DEF SetSummary, StageType
  <2>3. QueueType'
    BY <2>1, <2>2, KeyTypes, ValuesAssumption, CommandTypes, CommandType DEF CacheSet
  <2>4. StageType'
    BY <1>12, <2>1 DEF SetSummary, StageType
  <2>. QED
    BY <1>2, <1>12, <2>3, <2>4 DEF SetSummary
<1>13. CASE SummaryFails
  <2>1. StageType'
    BY <1>13 DEF SummaryFails, StageType
  <2>. QED
    BY <1>1, <1>2, <1>13, <2>1 DEF SummaryFails
<1>14. CASE SummariesSet
  <2>1. StageType'
    BY <1>14 DEF SummariesSet, StageType
  <2>. QED
    BY <1>1, <1>2, <1>14, <2>1 DEF SummariesSet
<1>15. CASE RefreshProfit
  <2>1. PICK o \in todo : CacheSet(<<"orderpl", o>>, "profit", FALSE)
                         /\ event' = Change("order", o, "profit")
    BY <1>15 DEF RefreshProfit
  <2>2. o \in Orders
    BY <1>15, <2>1 DEF RefreshProfit, StageType
  <2>3. QueueType'
    BY <2>1, <2>2, KeyTypes, ValuesAssumption, CommandTypes, CommandType DEF CacheSet
  <2>4. StageType'
    BY <1>15, <2>1, <2>2 DEF RefreshProfit, StageType, Change
  <2>. QED
    BY <1>2, <1>15, <2>3, <2>4 DEF RefreshProfit
<1>16. CASE RefreshWorking
  <2>1. event.id \in Orders
    BY <1>16 DEF RefreshWorking, StageType
  <2>2. QueueType'
    BY <1>16, <2>1, KeyTypes, CommandTypes, CommandType DEF RefreshWorking, CacheSAdd
  <2>3. StageType'
    BY <1>16 DEF RefreshWorking, StageType
  <2>. QED
    BY <1>2, <1>16, <2>2, <2>3 DEF RefreshWorking
<1>17. CASE Refreshed
  <2>1. QueueType'
    BY <1>1, <1>17, CommitType DEF Refreshed
  <2>2. StageType'
    BY <1>17 DEF Refreshed, Return, StageType
  <2>. QED
    BY <1>2, <1>17, <2>1, <2>2 DEF Refreshed
<1>. QED
  BY <1>3, <1>4, <1>5, <1>6, <1>7, <1>8, <1>9, <1>10, <1>11, <1>12, <1>13,
     <1>14, <1>15, <1>16, <1>17 DEF MarginStep, RefreshStep

\* The mirror starts with empty queues.
LEMMA PumpTypesInit == Init => PumpTypes
<1> SUFFICES ASSUME Init PROVE PumpTypes
  OBVIOUS
<1>1. QueueType
  BY EmptySeq, StoreAssumption DEF Init, RedisInit, QueueType
<1>2. WorldType
  BY EmptySeq, PumpAssumption DEF Init, WorldType, TradeStates
<1>3. StageType
  BY DEF Init, StageType, Stages, Closing
<1>. QED
  BY <1>1, <1>2, <1>3 DEF PumpTypes

\* Every step keeps the types.
LEMMA PumpTypesStep == PumpTypes /\ [Next]_vars => PumpTypes'
<1> SUFFICES ASSUME PumpTypes, [Next]_vars PROVE PumpTypes'
  OBVIOUS
<1>1. CASE RedisStep /\ UNCHANGED <<worldVars, pumpVars>>
  BY <1>1, RedisType DEF PumpTypes, worldVars, pumpVars, WorldType, StageType
<1>2. CASE UNCHANGED vars
  BY <1>2 DEF vars, redisVars, queueVars, serverVars, worldVars, pumpVars,
       PumpTypes, QueueType, WorldType, StageType
<1>. QED
  BY <1>1, <1>2, WorldTypeStep, TradeTypeStep, TickTypeStep DEF Next

\* Every variable of the mirror keeps its type, and the queue its counters, for
\* any orders and accounts.
THEOREM MirrorTyped == Spec => []TypeOK
<1>1. PumpTypes => TypeOK
  <2> SUFFICES ASSUME PumpTypes PROVE TypeOK
    OBVIOUS
  <2>1. \A i \in 1 .. Len(pending) : pending[i] \in Commands
    BY ElementOfSeq DEF PumpTypes, QueueType
  <2>2. \A i \in 1 .. Len(feed) : feed[i] \in Changes
    BY ElementOfSeq DEF PumpTypes, WorldType
  <2>3. Len(pending) \in Nat
    BY LenProperties DEF PumpTypes, QueueType
  <2>. QED
    BY <2>1, <2>2, <2>3 DEF PumpTypes, QueueType, WorldType, StageType, TypeOK
<1>. QED
  BY <1>1, PumpTypesInit, PumpTypesStep, PTL DEF Spec

-----------------------------------------------------------------------------
(* The wait for an answer.                                                   *)

\* A SINTER joins the queue as its last command, written, or is answered at
\* once.
LEMMA IntersectOwes ==
  ASSUME PumpTypes, Intersect PROVE AnswerIsOwed'
<1> DEFINE cmd == [op |-> "sinter",
                   keys |-> {Working(Owner[event.id]), Closed(Owner[event.id])}]
<1>1. Issue(cmd, TRUE)
  BY DEF Intersect, CacheSInter
<1>2. CASE link = "up"
  <2>1. pending' = Append(pending, cmd) /\ written' = Len(pending) + 1
        /\ answer' = "awaited" /\ link' = link
    BY <1>1, <1>2 DEF Issue, Queue, Intersect, CacheSInter
  <2>2. event.id \in Orders
    BY ChangeTypes DEF Intersect, PumpTypes, StageType, Closing
  <2>3. cmd \in Commands /\ cmd.op = "sinter"
    BY <2>2, KeyTypes, CommandTypes
  <2> HIDE DEF cmd
  <2>4. Len(pending') = Len(pending) + 1 /\ pending'[Len(pending) + 1] = cmd
        /\ Len(pending) \in Nat
    BY <2>1, <2>3, AppendFacts DEF PumpTypes, QueueType
  <2>. QED
    BY <1>2, <2>1, <2>3, <2>4 DEF AnswerIsOwed
<1>3. CASE link # "up"
  BY <1>3 DEF Intersect, CacheSInter, AnswerIsOwed
<1>. QED
  BY <1>2, <1>3

\* cpp_redis answers it, sends it again, or answers it with an error.
LEMMA RedisOwes ==
  ASSUME PumpTypes, AnswerIsOwed, RedisStep, UNCHANGED pumpVars PROVE AnswerIsOwed'
<1> SUFFICES ASSUME pc = "await", answer' \notin {"found", "error"}
             PROVE  /\ answer' = "awaited"
                    /\ link' # "stopped"
                    /\ \E i \in 1 .. Len(pending') :
                         pending'[i].op = "sinter" /\ (link' = "up" => i <= written')
  BY DEF AnswerIsOwed, pumpVars
<1>0. QueueType /\ Len(pending) \in Nat
  BY LenProperties DEF PumpTypes, QueueType
<1>1. CASE Execute
  BY <1>1 DEF Execute, AnswerIsOwed, queueVars
<1>2. CASE Reply
  <2>1. pending # <<>>
    BY <1>0, <1>2, EmptySeq DEF Reply, QueueType
  <2>2. /\ Len(pending') = Len(pending) - 1
        /\ \A i \in 1 .. Len(pending) - 1 : pending'[i] = pending[i + 1]
        /\ Head(pending) = pending[1]
    BY <1>0, <1>2, <2>1, TailFacts DEF Reply, QueueType
  <2>3. pending[1].op # "sinter" /\ answer' = answer
    BY <1>2, <2>2 DEF Reply
  <2>4. PICK i \in 1 .. Len(pending) : pending[i].op = "sinter" /\ i <= written
    BY <1>2, <2>3 DEF Reply, AnswerIsOwed
  <2>5. i - 1 \in 1 .. Len(pending')
    BY <1>0, <2>2, <2>3, <2>4
  <2>6. pending'[i - 1].op = "sinter" /\ i - 1 <= written - 1
    BY <1>0, <2>2, <2>4, <2>5 DEF QueueType
  <2>. QED
    BY <1>2, <2>3, <2>5, <2>6 DEF Reply, AnswerIsOwed
<1>3. CASE DropLink
  BY <1>3 DEF DropLink, AnswerIsOwed
<1>4. CASE Reconnect
  BY <1>0, <1>4 DEF Reconnect, AnswerIsOwed
<1>5. CASE GiveUp
  BY <1>5 DEF GiveUp, AnswerIsOwed
<1>. QED
  BY <1>1, <1>2, <1>3, <1>4, <1>5 DEF RedisStep

\* Only Intersect leads to the wait.
LEMMA OwedStep == PumpTypes /\ AnswerIsOwed /\ [Next]_vars => AnswerIsOwed'
<1> SUFFICES ASSUME PumpTypes, AnswerIsOwed, [Next]_vars PROVE AnswerIsOwed'
  OBVIOUS
<1>1. CASE WorldStep \/ UNCHANGED vars
  <2>1. UNCHANGED <<redisVars, pumpVars>>
    BY <1>1 DEF WorldStep, Open, Close, Restore, Place, Activate, Delete, TradeBecomes,
         RecordChanges, vars
  <2>. QED
    BY <2>1 DEF AnswerIsOwed, redisVars, queueVars, pumpVars
<1>2. CASE Intersect
  BY <1>2, IntersectOwes
<1>3. CASE Take \/ StoreRecord \/ AddWorking \/ AddClosed \/ Await \/ AwaitFails
            \/ RemoveWorking \/ Notify
  <2>1. pc' # "await"
    BY <1>3 DEF Take, StoreRecord, AddWorking, AddClosed, Await, AwaitFails,
         RemoveWorking, Notify, Goto, Return
  <2>. QED
    BY <2>1 DEF AnswerIsOwed
<1>4. CASE MarginStep \/ RefreshStep
  <2>1. pc' # "await"
    BY <1>4 DEF MarginStep, Tick, SetMargin, MarginFails, MarginsSet, PurgeWorking,
         Purged, CommitMargins, RefreshStep, UsersNotDue, UsersDue, SetSummary,
         SummaryFails, SummariesSet, RefreshProfit, RefreshWorking, Refreshed,
         Goto, Loop, Return
  <2>. QED
    BY <2>1 DEF AnswerIsOwed
<1>5. CASE RedisStep /\ UNCHANGED <<worldVars, pumpVars>>
  BY <1>5, RedisOwes
<1>. QED
  BY <1>1, <1>2, <1>3, <1>4, <1>5 DEF Next, TradeStep

\* The callback never waits for an answer that cannot come: the DLL's pumping
\* thread, which it blocks, is held up by the network or by Redis, and by nothing
\* in the program.
THEOREM WaitsForAnAnswer == Spec => []AnswerIsOwed
<1>1. Init => AnswerIsOwed
  BY DEF Init, AnswerIsOwed
<1>. QED
  BY <1>1, PumpTypesInit, PumpTypesStep, OwedStep, PTL DEF Spec

-----------------------------------------------------------------------------
(***************************************************************************)
(* Commands that nobody has committed: margins and summaries, and, as long *)
(* as the refresh runs, the profits it will commit at its end.             *)
(***************************************************************************)
IsText(cmd, kind) == cmd.op = "set" /\ cmd.key[1] = kind

Lingering(q, w, l, stage, array) ==
  l = "up" =>
    \A i \in w + 1 .. Len(q) :
      \/ IsText(q[i], "margin")
      \/ IsText(q[i], "orderpl") /\ stage \in {"refresh", "refreshAdd"} /\ array # {}

LingerInv ==
  /\ pc \in {"refresh", "refreshAdd"} => todo \subseteq listed
  /\ pc = "refreshAdd" => listed # {}
  /\ Lingering(pending, written, link, pc, listed)

\* A command that is committed, or is a text of the kind, joins the queue.
LEMMA CommandLingers ==
  ASSUME PumpTypes, LingerInv, NEW cmd \in Commands, NEW commit \in BOOLEAN,
         Issue(cmd, commit),
         \/ commit
         \/ IsText(cmd, "margin")
         \/ IsText(cmd, "orderpl") /\ pc' \in {"refresh", "refreshAdd"} /\ listed' # {},
         \/ commit
         \/ pc \notin {"refresh", "refreshAdd"}
         \/ pc' \in {"refresh", "refreshAdd"} /\ listed' = listed
  PROVE  Lingering(pending', written', link', pc', listed')
<1>1. CASE link # "up"
  BY <1>1 DEF Issue, Lingering
<1>2. CASE link = "up" /\ commit
  <2>1. pending' = Append(pending, cmd) /\ written' = Len(pending) + 1
    BY <1>2 DEF Issue, Queue
  <2>2. Len(pending') = Len(pending) + 1 /\ Len(pending) \in Nat
    BY <2>1, AppendFacts DEF PumpTypes, QueueType
  <2>. QED
    BY <2>1, <2>2 DEF Lingering
<1>3. CASE link = "up" /\ ~commit
  <2>1. pending' = Append(pending, cmd) /\ written' = written
    BY <1>3 DEF Issue, Queue
  <2>2. /\ Len(pending) \in Nat /\ Len(pending') = Len(pending) + 1
        /\ \A i \in 1 .. Len(pending) : pending'[i] = pending[i]
        /\ pending'[Len(pending) + 1] = cmd
    BY <2>1, AppendFacts DEF PumpTypes, QueueType
  <2>3. \A i \in written' + 1 .. Len(pending') :
          \/ i \in written + 1 .. Len(pending) /\ i \in 1 .. Len(pending)
          \/ i = Len(pending) + 1
    BY <2>1, <2>2 DEF PumpTypes, QueueType
  <2>. QED
    BY <1>3, <2>2, <2>3 DEF Lingering, LingerInv
<1>. QED
  BY <1>1, <1>2, <1>3

\* Nothing is queued, and nothing of the refresh is forgotten before its commit.
LEMMA QueueLingers ==
  ASSUME LingerInv, UNCHANGED <<link, queueVars>>,
         \/ pc \notin {"refresh", "refreshAdd"}
         \/ UNCHANGED <<pc, listed>>
         \/ listed = {}
  PROVE  Lingering(pending', written', link', pc', listed')
  BY DEF LingerInv, Lingering, queueVars

\* A commit leaves nothing behind.
LEMMA CommitLingers ==
  ASSUME PumpTypes, CacheCommit
  PROVE  Lingering(pending', written', link', pc', listed')
<1>1. Len(pending) \in Nat
  BY LenProperties DEF PumpTypes, QueueType
<1>. QED
  BY <1>1 DEF CacheCommit, Lingering

\* A change is mirrored by commands that commit themselves.
LEMMA TradeLingers ==
  ASSUME PumpTypes, LingerInv, TradeStep PROVE LingerInv'
<1> USE DEF Goto, Return
<1>0. PumpTypes /\ pc' \notin {"refresh", "refreshAdd"} /\ pc \notin {"refresh", "refreshAdd"}
  BY DEF TradeStep, Take, StoreRecord, AddWorking, AddClosed, Intersect, Await,
       AwaitFails, RemoveWorking, Notify
<1>1. CASE Take \/ Await \/ AwaitFails \/ Notify
  <2>1. UNCHANGED <<link, queueVars>>
    BY <1>1 DEF Take, Await, AwaitFails, Notify, redisVars
  <2>. QED
    BY <1>0, <2>1, QueueLingers DEF LingerInv
<1>2. ASSUME NEW cmd \in Commands, Issue(cmd, TRUE) PROVE LingerInv'
  BY <1>0, <1>2, CommandLingers DEF LingerInv
<1>3. CASE StoreRecord
  <2> DEFINE cmd == [op |-> "set", key |-> <<event.kind, event.id>>, value |-> event.value]
  <2>1. event \in Changes
    BY <1>3 DEF StoreRecord, PumpTypes, StageType
  <2>2. cmd \in Commands
    BY <2>1, ChangeTypes, CommandTypes
  <2>. QED
    BY <1>2, <1>3, <2>2 DEF StoreRecord, CacheSet, Command
<1>4. CASE AddWorking \/ AddClosed \/ Intersect \/ RemoveWorking
  <2>1. event.id \in Orders /\ inter \in SUBSET Members
    BY <1>4, ChangeTypes DEF AddWorking, AddClosed, Intersect, RemoveWorking,
         PumpTypes, StageType, Closing, QueueType
  <2>2. \E cmd \in Commands : Issue(cmd, TRUE)
    BY <1>4, <2>1, KeyTypes, CommandTypes
    DEF AddWorking, AddClosed, Intersect, RemoveWorking, CacheSAdd, CacheSDel,
        CacheSInter, Command
  <2>. QED
    BY <1>2, <2>2
<1>. QED
  BY <1>1, <1>3, <1>4 DEF TradeStep

\* The loops of the tick handler leave margins and summaries behind; the profits
\* of the refresh are there only for orders that are listed, and then its end
\* commits them.
LEMMA TickLingers ==
  ASSUME PumpTypes, LingerInv, MarginStep \/ RefreshStep PROVE LingerInv'
<1> USE DEF Goto, Loop, Return
<1>0. PumpTypes /\ LingerInv
  OBVIOUS
<1>1. CASE Tick \/ MarginFails \/ MarginsSet \/ Purged \/ UsersNotDue \/ UsersDue
           \/ SummaryFails \/ SummariesSet
  <2>1. UNCHANGED <<link, queueVars>> /\ pc \notin {"refresh", "refreshAdd"}
        /\ (pc' \in {"refresh", "refreshAdd"} => pc' = "refresh" /\ todo' = listed')
    BY <1>1 DEF Tick, MarginFails, MarginsSet, Purged, UsersNotDue, UsersDue,
         SummaryFails, SummariesSet, redisVars
  <2>. QED
    BY <2>1, QueueLingers DEF LingerInv
<1>2. CASE SetMargin \/ SetSummary
  <2>1. PICK l \in Logins, v \in Values : CacheSet(<<"margin", l>>, v, FALSE)
    BY <1>2, ValuesAssumption DEF SetMargin, SetSummary, PumpTypes, StageType
  <2> DEFINE cmd == [op |-> "set", key |-> <<"margin", l>>, value |-> v]
  <2>2. cmd \in Commands /\ IsText(cmd, "margin")
    BY <2>1, KeyTypes, CommandTypes DEF IsText
  <2>3. Issue(cmd, FALSE)
    BY <2>1 DEF CacheSet, Command
  <2>4. pc \notin {"refresh", "refreshAdd"} /\ pc' = pc
    BY <1>2 DEF SetMargin, SetSummary
  <2> HIDE DEF cmd
  <2>. QED
    BY <2>2, <2>3, <2>4, CommandLingers DEF LingerInv
<1>3. CASE PurgeWorking
  <2>1. PICK l \in Logins : CacheClear(Working(l))
    BY <1>3 DEF PurgeWorking, PumpTypes, StageType
  <2> DEFINE cmd == [op |-> "del", key |-> Working(l)]
  <2>2. cmd \in Commands /\ Issue(cmd, TRUE)
    BY <2>1, KeyTypes, CommandTypes DEF CacheClear, Command
  <2>3. pc = "purge" /\ pc' = pc
    BY <1>3 DEF PurgeWorking
  <2> HIDE DEF cmd
  <2>. QED
    BY <2>2, <2>3, CommandLingers DEF LingerInv
<1>4. CASE CommitMargins
  <2>1. pc = "commit" /\ pc' = "users?"
    BY <1>4 DEF CommitMargins
  <2>2. CASE listed # {}
    BY <1>4, <2>1, <2>2, CommitLingers DEF CommitMargins, LingerInv
  <2>3. CASE listed = {}
    BY <1>4, <2>1, <2>3, QueueLingers DEF CommitMargins, redisVars, LingerInv
  <2>. QED
    BY <2>2, <2>3
<1>5. CASE RefreshProfit
  <2>1. PICK o \in todo : CacheSet(<<"orderpl", o>>, "profit", FALSE)
    BY <1>5 DEF RefreshProfit
  <2> DEFINE cmd == [op |-> "set", key |-> <<"orderpl", o>>, value |-> "profit"]
  <2>2. o \in Orders /\ listed # {}
    BY <1>5, <2>1 DEF RefreshProfit, PumpTypes, StageType, LingerInv
  <2>3. cmd \in Commands /\ IsText(cmd, "orderpl")
    BY <2>2, KeyTypes, ValuesAssumption, CommandTypes DEF IsText
  <2>4. Issue(cmd, FALSE)
    BY <2>1 DEF CacheSet, Command
  <2>5. pc = "refresh" /\ pc' = "refreshAdd" /\ UNCHANGED <<listed, todo>>
    BY <1>5 DEF RefreshProfit
  <2> HIDE DEF cmd
  <2>. QED
    BY <2>2, <2>3, <2>4, <2>5, CommandLingers DEF LingerInv
<1>6. CASE RefreshWorking
  <2>1. event.id \in Orders
    BY <1>6 DEF RefreshWorking, PumpTypes, StageType
  <2>2. PICK cmd \in Commands : Issue(cmd, TRUE)
    BY <1>6, <2>1, KeyTypes, CommandTypes DEF RefreshWorking, CacheSAdd, Command
  <2>3. pc = "refreshAdd" /\ pc' = "refresh" /\ listed' = listed /\ todo' \subseteq todo
    BY <1>6 DEF RefreshWorking, Visit
  <2>. QED
    BY <2>2, <2>3, CommandLingers DEF LingerInv
<1>7. CASE Refreshed
  <2>1. pc' = "idle"
    BY <1>7 DEF Refreshed
  <2>2. CASE listed # {}
    BY <1>7, <2>1, <2>2, CommitLingers DEF Refreshed, LingerInv
  <2>3. CASE listed = {}
    BY <1>7, <2>1, <2>3, QueueLingers DEF Refreshed, redisVars, LingerInv
  <2>. QED
    BY <2>2, <2>3
<1>. QED
  BY <1>1, <1>2, <1>3, <1>4, <1>5, <1>6, <1>7 DEF MarginStep, RefreshStep

\* A reconnection writes everything.
LEMMA RedisLingers ==
  ASSUME PumpTypes, LingerInv, RedisStep, UNCHANGED pumpVars PROVE LingerInv'
<1> SUFFICES Lingering(pending', written', link', pc', listed')
  BY DEF LingerInv, pumpVars
<1>0. QueueType /\ Len(pending) \in Nat /\ UNCHANGED <<pc, listed>>
  BY LenProperties DEF PumpTypes, QueueType, pumpVars
<1>1. CASE Execute
  BY <1>0, <1>1, QueueLingers DEF Execute
<1>2. CASE Reply
  <2>1. pending # <<>>
    BY <1>0, <1>2, EmptySeq DEF Reply, QueueType
  <2>2. /\ Len(pending') = Len(pending) - 1
        /\ \A i \in 1 .. Len(pending) - 1 : pending'[i] = pending[i + 1]
    BY <1>0, <1>2, <2>1, TailFacts DEF Reply, QueueType
  <2>3. written' = written - 1 /\ written \in Nat /\ written >= 1 /\ link' = link
    BY <1>0, <1>2 DEF Reply, QueueType
  <2>4. \A i \in written' + 1 .. Len(pending') :
          i + 1 \in written + 1 .. Len(pending) /\ pending'[i] = pending[i + 1]
    BY <1>0, <2>2, <2>3
  <2>. QED
    BY <1>0, <2>3, <2>4 DEF Lingering, LingerInv
<1>3. CASE DropLink \/ GiveUp
  BY <1>3 DEF DropLink, GiveUp, Lingering
<1>4. CASE Reconnect
  BY <1>0, <1>4 DEF Reconnect, Lingering
<1>. QED
  BY <1>1, <1>2, <1>3, <1>4 DEF RedisStep

\* Whatever PumpingFunc is in the middle of.
LEMMA LingerStep == PumpTypes /\ LingerInv /\ [Next]_vars => LingerInv'
<1> SUFFICES ASSUME PumpTypes, LingerInv, [Next]_vars PROVE LingerInv'
  OBVIOUS
<1>1. CASE WorldStep \/ UNCHANGED vars
  <2>1. UNCHANGED <<redisVars, pumpVars>>
    BY <1>1 DEF WorldStep, Open, Close, Restore, Place, Activate, Delete, TradeBecomes,
         RecordChanges, vars
  <2>. QED
    BY <2>1 DEF LingerInv, redisVars, queueVars, pumpVars
<1>2. CASE RedisStep /\ UNCHANGED <<worldVars, pumpVars>>
  BY <1>2, RedisLingers
<1>. QED
  BY <1>1, <1>2, TradeLingers, TickLingers DEF Next

\* Between two calls only margins and summaries are left in the queue without a
\* commit, for any number of accounts: the state of an order never waits there.
THEOREM OrdersAreCommitted == Spec => []OnlyMarginsLinger
<1>1. Init => LingerInv
  BY EmptySeq DEF Init, RedisInit, LingerInv, Lingering
<1>2. LingerInv => OnlyMarginsLinger
  BY DEF LingerInv, Lingering, IsText, OnlyMarginsLinger
<1>. QED
  BY <1>1, <1>2, PumpTypesInit, PumpTypesStep, LingerStep, PTL DEF Spec
=============================================================================
