----------------------------- MODULE MirrorProofs -----------------------------
(***************************************************************************)
(* What Redis holds while PumpManager mirrors the server's trades, for any *)
(* orders and accounts and any number of lost connections.  The commands   *)
(* under way are as much part of the state as what Redis has stored: most  *)
(* invariants here are about the two together.                             *)
(***************************************************************************)
EXTENDS PumpManagerProofs

USE DEF Orders

\* The places of the queue that hold a command of a kind.
Waiting(op) == {i \in 1 .. Len(pending) : pending[i].op = op}

ClosedSet == sets[Closed(Owner[event.id])]

(***************************************************************************)
(* SINTER is the last command under way, and somebody waits for it; what   *)
(* it found is in the closed set, also after the wait; SREM takes orders   *)
(* of the closed set only; and nothing takes an order out of a closed set. *)
(***************************************************************************)
SetInv ==
  /\ answer # "none" => pc = "await"
  /\ \A i \in Waiting("sinter") :
       /\ answer = "awaited"
       /\ i = Len(pending)
       /\ Closed(Owner[event.id]) \in pending[i].keys
  /\ \A i \in Waiting("srem") :
       \E l \in Logins : pending[i].key = Working(l) /\ pending[i].members \subseteq sets[Closed(l)]
  /\ \A i \in Waiting("del") : \E l \in Logins : pending[i].key = Working(l)
  /\ \/ answer = "found"
     \/ pc = "remove"
     \/ \E i \in Waiting("sinter") : i <= executed
     => inter \subseteq ClosedSet

MirrorInv == PumpTypes /\ SetInv

\* The working and the closed sets are different keys.
LEMMA KeysDiffer ==
  /\ \A l, k \in Logins : Working(l) # Closed(k)
  /\ \A l, k \in Logins : Working(l) = Working(k) => l = k
  BY DEF Working, Closed

\* Redis never takes an order out of a closed set, and out of a working set
\* only what is in the closed one, unless it deletes the key.
LEMMA ClosedGrows ==
  ASSUME MirrorInv, Execute
  PROVE  /\ \A l \in Logins : sets[Closed(l)] \subseteq sets'[Closed(l)]
         /\ pending[executed + 1].op # "del" =>
              \A l \in Logins : sets[Working(l)] \ sets'[Working(l)] \subseteq sets[Closed(l)]
<1> DEFINE cmd == pending[executed + 1]
<1>1. executed + 1 \in 1 .. Len(pending)
  BY LenProperties DEF MirrorInv, PumpTypes, QueueType, Execute
<1>2. cmd \in Commands /\ Apply(cmd)
  BY <1>1, ElementOfSeq DEF MirrorInv, PumpTypes, QueueType, Execute
<1>3. sets \in [SetKeys -> SUBSET Members]
  BY DEF MirrorInv, PumpTypes, QueueType
<1>4. cmd.op = "srem" =>
        \E l \in Logins : cmd.key = Working(l) /\ cmd.members \subseteq sets[Closed(l)]
  BY <1>1 DEF MirrorInv, SetInv, Waiting
<1>5. cmd.op = "del" => \E l \in Logins : cmd.key = Working(l)
  BY <1>1 DEF MirrorInv, SetInv, Waiting
<1> HIDE DEF cmd
<1>6. CASE cmd.op \in {"set", "sinter"}
  <2>. sets' = sets
    BY <1>2, <1>6 DEF Apply
  <2>. QED
    OBVIOUS
<1>7. CASE cmd.op = "sadd"
  <2>1. cmd.key \in SetKeys
    BY <1>2, <1>7 DEF Commands
  <2>2. sets' = [sets EXCEPT ![cmd.key] = @ \cup cmd.members]
    BY <1>2, <1>7 DEF Apply
  <2>3. \A k \in SetKeys : sets[k] \subseteq sets'[k]
    BY <1>3, <2>1, <2>2
  <2>. QED
    BY <2>3, KeyTypes
<1>8. CASE cmd.op = "srem"
  <2>1. PICK k \in Logins : cmd.key = Working(k) /\ cmd.members \subseteq sets[Closed(k)]
    BY <1>4, <1>8
  <2>2. sets' = [sets EXCEPT ![cmd.key] = @ \ cmd.members]
    BY <1>2, <1>8 DEF Apply
  <2>3. \A j \in SetKeys : sets'[j] = IF j = Working(k) THEN sets[j] \ cmd.members ELSE sets[j]
    BY <1>3, <2>1, <2>2
  <2>4. \A l \in Logins : sets'[Closed(l)] = sets[Closed(l)]
    BY <2>1, <2>3, KeysDiffer, KeyTypes
  <2>5. ASSUME NEW l \in Logins
        PROVE  sets[Working(l)] \ sets'[Working(l)] \subseteq sets[Closed(l)]
    <3>1. CASE l = k
      BY <2>1, <2>3, <3>1, KeyTypes
    <3>2. CASE l # k
      BY <2>3, <3>2, KeyTypes, KeysDiffer
    <3>. QED
      BY <3>1, <3>2
  <2>. QED
    BY <2>4, <2>5
<1>9. CASE cmd.op = "del"
  <2>1. PICK k \in Logins : cmd.key = Working(k)
    BY <1>5, <1>9
  <2>2. sets' = [sets EXCEPT ![cmd.key] = {}]
    BY <1>2, <1>9 DEF Apply
  <2>3. \A l \in Logins : sets'[Closed(l)] = sets[Closed(l)]
    BY <1>3, <2>1, <2>2, KeysDiffer, KeyTypes
  <2>. QED
    BY <1>9, <2>3 DEF cmd
<1>. QED
  BY <1>2, <1>6, <1>7, <1>8, <1>9 DEF Commands, cmd

-----------------------------------------------------------------------------
\* A command that is not SINTER is queued, while nobody waits for an answer.
LEMMA CommandSetInv ==
  ASSUME MirrorInv, NEW cmd \in Commands, NEW commit \in BOOLEAN, Command(cmd, commit),
         pc # "await", pc' # "remove",
         cmd.op # "sinter",
         cmd.op = "srem" =>
           \E l \in Logins : cmd.key = Working(l) /\ cmd.members \subseteq sets[Closed(l)],
         cmd.op = "del" => \E l \in Logins : cmd.key = Working(l)
  PROVE  SetInv'
<1> USE DEF MirrorInv, PumpTypes, SetInv
<1>1. answer = "none" /\ Waiting("sinter") = {} /\ answer' = "none" /\ sets' = sets
  BY DEF Command, Issue
<1>2. CASE link = "up"
  <2>1. pending' = Append(pending, cmd)
    BY <1>2 DEF Command, Issue, Queue
  <2>2. /\ Len(pending) \in Nat /\ Len(pending') = Len(pending) + 1
        /\ \A i \in 1 .. Len(pending) : pending'[i] = pending[i]
        /\ pending'[Len(pending) + 1] = cmd
    BY <2>1, AppendFacts DEF QueueType
  <2>3. \A i \in 1 .. Len(pending') : i \in 1 .. Len(pending) \/ i = Len(pending) + 1
    BY <2>2
  <2>. QED
    BY <1>1, <2>2, <2>3 DEF Waiting
<1>3. CASE link # "up"
  BY <1>1, <1>3 DEF Command, Issue, queueVars, Waiting
<1>. QED
  BY <1>2, <1>3

\* Nothing is queued, and nothing is answered.
LEMMA SameQueueSetInv ==
  ASSUME MirrorInv, UNCHANGED <<pending, executed, inter, answer, sets, event>>,
         pc' = pc \/ (pc # "await" /\ pc' # "remove")
  PROVE  SetInv'
  BY DEF MirrorInv, SetInv, Waiting, ClosedSet

\* The calls of PumpingFunc keep SetInv: SREM is only queued with what SINTER
\* has found.
LEMMA TradeSetInv ==
  ASSUME MirrorInv, TradeStep PROVE SetInv'
<1>0. PumpTypes
  BY DEF MirrorInv
<1>1. CASE Take
  <2>1. answer = "none" /\ pc = "idle"
    BY <1>1 DEF MirrorInv, SetInv, Take
  <2>. QED
    BY <1>1, <2>1 DEF MirrorInv, SetInv, Waiting, Take, redisVars, queueVars, serverVars
<1>2. CASE StoreRecord
  <2> DEFINE cmd == [op |-> "set", key |-> <<event.kind, event.id>>, value |-> event.value]
  <2>1. event \in Changes
    BY <1>0, <1>2 DEF StoreRecord, PumpTypes, StageType
  <2>2. cmd \in Commands /\ Command(cmd, TRUE) /\ cmd.op = "set"
    BY <1>2, <2>1, ChangeTypes, CommandTypes DEF StoreRecord, CacheSet
  <2>3. pc # "await" /\ pc' # "remove"
    BY <1>2 DEF StoreRecord, Goto
  <2>. QED
    BY <2>2, <2>3, CommandSetInv
<1>3. CASE AddWorking
  <2> DEFINE cmd == [op |-> "sadd", key |-> Working(Owner[event.id]), members |-> {event.id}]
  <2>1. event.id \in Orders
    BY <1>0, <1>3, ChangeTypes DEF AddWorking, PumpTypes, StageType
  <2>2. cmd \in Commands /\ Command(cmd, TRUE) /\ cmd.op = "sadd"
    BY <1>3, <2>1, KeyTypes, CommandTypes DEF AddWorking, CacheSAdd
  <2>3. pc # "await" /\ pc' # "remove"
    BY <1>3 DEF AddWorking, Goto
  <2>. QED
    BY <2>2, <2>3, CommandSetInv
<1>4. CASE AddClosed
  <2> DEFINE cmd == [op |-> "sadd", key |-> Closed(Owner[event.id]), members |-> {event.id}]
  <2>1. event.id \in Orders
    BY <1>0, <1>4, ChangeTypes DEF AddClosed, PumpTypes, StageType, Closing
  <2>2. cmd \in Commands /\ Command(cmd, TRUE) /\ cmd.op = "sadd"
    BY <1>4, <2>1, KeyTypes, CommandTypes DEF AddClosed, CacheSAdd
  <2>3. pc # "await" /\ pc' # "remove"
    BY <1>4 DEF AddClosed, Goto
  <2>. QED
    BY <2>2, <2>3, CommandSetInv
<1>5. CASE Intersect
  <2> DEFINE ks == {Working(Owner[event.id]), Closed(Owner[event.id])}
             cmd == [op |-> "sinter", keys |-> ks]
  <2>1. answer = "none" /\ pc = "intersect" /\ Waiting("sinter") = {} /\ pc' = "await"
        /\ UNCHANGED <<event, sets, executed>>
    BY <1>5 DEF MirrorInv, SetInv, Intersect, Goto, CacheSInter, Issue
  <2>2. ks \in SUBSET SetKeys
    BY <1>0, <1>5, KeyTypes, ChangeTypes DEF Intersect, PumpTypes, StageType, Closing
  <2>3. Issue(cmd, TRUE) /\ cmd \in Commands /\ Closed(Owner[event.id]) \in cmd.keys /\ cmd.op = "sinter"
    BY <1>5, <2>2, CommandTypes DEF Intersect, CacheSInter
  <2>4. CASE link = "up"
    <3>1. pending' = Append(pending, cmd) /\ answer' = "awaited"
      BY <1>5, <2>3, <2>4 DEF Intersect, CacheSInter, Issue, Queue
    <3> HIDE DEF cmd
    <3>2. /\ Len(pending) \in Nat /\ Len(pending') = Len(pending) + 1
          /\ \A i \in 1 .. Len(pending) : pending'[i] = pending[i]
          /\ pending'[Len(pending) + 1] = cmd
      BY <1>0, <2>3, <3>1, AppendFacts DEF PumpTypes, QueueType
    <3>3. \A i \in 1 .. Len(pending') : i \in 1 .. Len(pending) \/ i = Len(pending) + 1
      BY <3>2
    <3>4. executed \in Nat /\ executed <= Len(pending)
      BY <1>0, <3>2 DEF PumpTypes, QueueType
    <3>5. \A i \in Waiting("sinter")' : i = Len(pending) + 1
      BY <2>1, <3>2, <3>3 DEF Waiting
    <3>6. ~ \E i \in Waiting("sinter")' : i <= executed'
      BY <2>1, <3>2, <3>4, <3>5
    <3>. QED
      BY <2>1, <2>3, <3>1, <3>2, <3>3, <3>5, <3>6 DEF MirrorInv, SetInv, Waiting
  <2>5. CASE link # "up"
    <3>1. UNCHANGED pending /\ answer' = "found" /\ inter' = {}
      BY <1>5, <2>5 DEF Intersect, CacheSInter, Issue, queueVars
    <3>. QED
      BY <2>1, <3>1 DEF MirrorInv, SetInv, Waiting
  <2>. QED
    BY <2>4, <2>5
<1>6. CASE Await
  <2>1. Waiting("sinter") = {} /\ answer' = "none" /\ UNCHANGED <<pending, executed, inter, sets, event>>
    BY <1>6 DEF MirrorInv, SetInv, Await, queueVars, serverVars, Goto
  <2>. QED
    BY <1>6, <2>1 DEF MirrorInv, SetInv, Await, Waiting, ClosedSet, Goto
<1>7. CASE AwaitFails
  <2>1. Waiting("sinter") = {} /\ answer' = "none" /\ UNCHANGED <<pending, executed, inter, sets>>
        /\ pc' = "idle"
    BY <1>7 DEF MirrorInv, SetInv, AwaitFails, queueVars, serverVars, Return
  <2>. QED
    BY <2>1 DEF MirrorInv, SetInv, Waiting
<1>8. CASE RemoveWorking
  <2> DEFINE cmd == [op |-> "srem", key |-> Working(Owner[event.id]), members |-> inter]
  <2>1. event.id \in Orders /\ inter \in SUBSET Members
    BY <1>0, <1>8, ChangeTypes DEF RemoveWorking, PumpTypes, StageType, Closing, QueueType
  <2>2. cmd \in Commands /\ Command(cmd, TRUE) /\ cmd.op = "srem"
    BY <1>8, <2>1, KeyTypes, CommandTypes DEF RemoveWorking, CacheSDel
  <2>3. pc = "remove" /\ pc' = "notify"
    BY <1>8 DEF RemoveWorking, Goto
  <2>4. Owner[event.id] \in Logins /\ inter \subseteq sets[Closed(Owner[event.id])]
    BY <2>1, <2>3, KeyTypes DEF MirrorInv, SetInv, ClosedSet
  <2>. QED
    BY <2>2, <2>3, <2>4, CommandSetInv
<1>9. CASE Notify
  <2>1. answer = "none" /\ pc = "notify" /\ pc' = "idle" /\ UNCHANGED redisVars
    BY <1>9 DEF MirrorInv, SetInv, Notify, Return
  <2>. QED
    BY <2>1 DEF MirrorInv, SetInv, Waiting, redisVars, queueVars, serverVars
<1>. QED
  BY <1>1, <1>2, <1>3, <1>4, <1>5, <1>6, <1>7, <1>8, <1>9 DEF TradeStep

\* So do the loops of the tick handler, which sends no SREM.
LEMMA TickSetInv ==
  ASSUME MirrorInv, MarginStep \/ RefreshStep PROVE SetInv'
<1> USE DEF Goto, Loop, Return
<1>0. PumpTypes /\ (pc # "await" => answer = "none")
  BY DEF MirrorInv, SetInv
<1>1. ASSUME UNCHANGED redisVars, pc # "await", pc' \notin {"await", "remove"} PROVE SetInv'
  BY <1>0, <1>1 DEF MirrorInv, SetInv, Waiting, redisVars, queueVars, serverVars
<1>2. ASSUME CacheCommit, pc # "await", pc' \notin {"await", "remove"} PROVE SetInv'
  BY <1>0, <1>2 DEF CacheCommit, MirrorInv, SetInv, Waiting, serverVars
<1>3. CASE SetMargin
  <2>1. PICK l \in todo : CacheSet(<<"margin", l>>, "level", FALSE)
    BY <1>3 DEF SetMargin
  <2> DEFINE cmd == [op |-> "set", key |-> <<"margin", l>>, value |-> "level"]
  <2>2. l \in Logins
    BY <1>0, <1>3 DEF SetMargin, PumpTypes, StageType
  <2>3. cmd \in Commands /\ Command(cmd, FALSE) /\ cmd.op = "set"
    BY <2>1, <2>2, KeyTypes, ValuesAssumption, CommandTypes DEF CacheSet
  <2>5. pc # "await" /\ pc' # "remove"
    BY <1>3 DEF SetMargin
  <2>. QED
    BY <2>3, <2>5, CommandSetInv
<1>4. CASE PurgeWorking
  <2>1. PICK l \in todo : CacheClear(Working(l))
    BY <1>4 DEF PurgeWorking
  <2> DEFINE cmd == [op |-> "del", key |-> Working(l)]
  <2>2. l \in Logins
    BY <1>0, <1>4 DEF PurgeWorking, PumpTypes, StageType
  <2>3. cmd \in Commands /\ Command(cmd, TRUE) /\ cmd.op = "del" /\ cmd.key = Working(l)
    BY <2>1, <2>2, KeyTypes, CommandTypes DEF CacheClear
  <2>5. pc # "await" /\ pc' # "remove"
    BY <1>4 DEF PurgeWorking
  <2>. QED
    BY <2>2, <2>3, <2>5, CommandSetInv
<1>5. CASE SetSummary
  <2>1. PICK l \in todo : CacheSet(<<"margin", l>>, "summary", FALSE)
    BY <1>5 DEF SetSummary
  <2> DEFINE cmd == [op |-> "set", key |-> <<"margin", l>>, value |-> "summary"]
  <2>2. l \in Logins
    BY <1>0, <1>5 DEF SetSummary, PumpTypes, StageType
  <2>3. cmd \in Commands /\ Command(cmd, FALSE) /\ cmd.op = "set"
    BY <2>1, <2>2, KeyTypes, ValuesAssumption, CommandTypes DEF CacheSet
  <2>5. pc # "await" /\ pc' # "remove"
    BY <1>5 DEF SetSummary
  <2>. QED
    BY <2>3, <2>5, CommandSetInv
<1>6. CASE RefreshProfit
  <2>1. PICK o \in todo : CacheSet(<<"orderpl", o>>, "profit", FALSE)
    BY <1>6 DEF RefreshProfit
  <2> DEFINE cmd == [op |-> "set", key |-> <<"orderpl", o>>, value |-> "profit"]
  <2>2. o \in Orders
    BY <1>0, <1>6 DEF RefreshProfit, PumpTypes, StageType
  <2>3. cmd \in Commands /\ Command(cmd, FALSE) /\ cmd.op = "set"
    BY <2>1, <2>2, KeyTypes, ValuesAssumption, CommandTypes DEF CacheSet
  <2>5. pc # "await" /\ pc' # "remove"
    BY <1>6 DEF RefreshProfit
  <2>. QED
    BY <2>3, <2>5, CommandSetInv
<1>7. CASE RefreshWorking
  <2> DEFINE cmd == [op |-> "sadd", key |-> Working(Owner[event.id]), members |-> {event.id}]
  <2>1. event.id \in Orders
    BY <1>0, <1>7 DEF RefreshWorking, PumpTypes, StageType
  <2>2. cmd \in Commands /\ Command(cmd, TRUE) /\ cmd.op = "sadd"
    BY <1>7, <2>1, KeyTypes, CommandTypes DEF RefreshWorking, CacheSAdd
  <2>5. pc # "await" /\ pc' # "remove"
    BY <1>7 DEF RefreshWorking
  <2>. QED
    BY <2>2, <2>5, CommandSetInv
<1>8. CASE Tick \/ MarginFails \/ MarginsSet \/ Purged \/ UsersNotDue \/ UsersDue
            \/ SummaryFails \/ SummariesSet
  BY <1>1, <1>8 DEF Tick, MarginFails, MarginsSet, Purged, UsersNotDue, UsersDue,
       SummaryFails, SummariesSet
<1>9. CASE CommitMargins \/ Refreshed
  BY <1>1, <1>2, <1>9 DEF CommitMargins, Refreshed
<1>. QED
  BY <1>3, <1>4, <1>5, <1>6, <1>7, <1>8, <1>9 DEF MarginStep, RefreshStep

\* SINTER sees the closed set, which only grows until SREM is sent; commands
\* sent again find it no smaller.
LEMMA RedisSetInv ==
  ASSUME MirrorInv, RedisStep, UNCHANGED <<worldVars, pumpVars>> PROVE SetInv'
<1>0. QueueType /\ Len(pending) \in Nat /\ UNCHANGED <<pc, event>>
      /\ (pc = "await" => event.id \in Orders)
      /\ (pc = "remove" => event.id \in Orders)
  BY LenProperties, ChangeTypes DEF MirrorInv, PumpTypes, QueueType, StageType, Closing, pumpVars
<1>1. CASE Execute
  <2>1. executed + 1 \in 1 .. Len(pending) /\ executed' = executed + 1
        /\ UNCHANGED <<pending, answer>>
    BY <1>0, <1>1 DEF Execute, QueueType, queueVars
  <2>2. \A l \in Logins : sets[Closed(l)] \subseteq sets'[Closed(l)]
    BY <1>1, ClosedGrows
  <2>3. \A op : Waiting(op)' = Waiting(op)
    BY <2>1 DEF Waiting
  <2>4. \A i \in Waiting("srem")' :
          \E l \in Logins : pending'[i].key = Working(l) /\ pending'[i].members \subseteq sets'[Closed(l)]
    <3> SUFFICES ASSUME NEW i \in Waiting("srem")
                 PROVE  \E l \in Logins : pending[i].key = Working(l)
                                          /\ pending[i].members \subseteq sets'[Closed(l)]
      BY <2>1, <2>3
    <3>1. PICK l \in Logins : pending[i].key = Working(l) /\ pending[i].members \subseteq sets[Closed(l)]
      BY DEF MirrorInv, SetInv
    <3>. QED
      BY <2>2, <3>1
  <2>5. ASSUME answer = "found" \/ pc = "remove" \/ \E i \in Waiting("sinter") : i <= executed + 1
        PROVE  inter' \subseteq sets'[Closed(Owner[event.id])]
    <3>1. event.id \in Orders /\ Owner[event.id] \in Logins
      BY <1>0, <2>5, KeyTypes DEF MirrorInv, SetInv
    <3>2. CASE pending[executed + 1].op = "sinter"
      <4>1. Closed(Owner[event.id]) \in pending[executed + 1].keys
        BY <2>1, <3>2 DEF MirrorInv, SetInv, Waiting
      <4>2. inter' = {m \in Members : \A k \in pending[executed + 1].keys : m \in sets[k]}
            /\ sets' = sets
        BY <1>1, <3>2 DEF Execute, Apply
      <4>. QED
        BY <4>1, <4>2
    <3>3. CASE pending[executed + 1].op # "sinter"
      <4>1. pending[executed + 1] \in Commands
        BY <1>0, <2>1, ElementOfSeq DEF QueueType
      <4>2. inter' = inter
        BY <1>1, <3>3, <4>1 DEF Execute, Apply, Commands
      <4>3. answer = "found" \/ pc = "remove" \/ \E i \in Waiting("sinter") : i <= executed
        BY <1>0, <2>1, <2>5, <3>3 DEF Waiting, QueueType
      <4>4. inter \subseteq sets[Closed(Owner[event.id])]
        BY <4>3 DEF MirrorInv, SetInv, ClosedSet
      <4>. QED
        BY <2>2, <3>1, <4>2, <4>4
    <3>. QED
      BY <3>2, <3>3
  <2>. QED
    BY <1>0, <2>1, <2>3, <2>4, <2>5 DEF MirrorInv, SetInv, ClosedSet
<1>2. CASE Reply
  <2>1. pending # <<>> /\ executed > 0 /\ executed \in Nat /\ executed <= Len(pending)
    BY <1>0, <1>2, EmptySeq DEF Reply, QueueType
  <2>2. /\ Len(pending') = Len(pending) - 1
        /\ \A i \in 1 .. Len(pending) - 1 : pending'[i] = pending[i + 1]
        /\ Head(pending) = pending[1]
    BY <1>2, <2>1, TailFacts DEF Reply, QueueType
  <2>3. UNCHANGED <<sets, inter>> /\ executed' = executed - 1
        /\ answer' = IF pending[1].op = "sinter" THEN "found" ELSE answer
    BY <1>2, <2>2 DEF Reply
  <2>4. \A op : \A i \in Waiting(op)' : i + 1 \in Waiting(op)
    BY <1>0, <2>1, <2>2 DEF Waiting
  <2>5. CASE pending[1].op = "sinter"
    <3>1. 1 \in Waiting("sinter")
      BY <1>0, <2>1, <2>5 DEF Waiting
    <3>2. answer = "awaited" /\ Len(pending) = 1
      BY <3>1 DEF MirrorInv, SetInv
    <3>3. pending' = <<>> /\ \A op : Waiting(op)' = {}
      BY <1>0, <1>2, <2>1, <2>2, <3>2, TailFacts DEF Reply, QueueType, Waiting
    <3>4. inter \subseteq ClosedSet
      BY <2>1, <3>1 DEF MirrorInv, SetInv
    <3>. QED
      BY <1>0, <2>3, <2>5, <3>2, <3>3, <3>4 DEF MirrorInv, SetInv, ClosedSet
  <2>6. CASE pending[1].op # "sinter"
    <3>1. \A i \in Waiting("sinter")' :
            /\ answer' = "awaited"
            /\ i = Len(pending')
            /\ Closed(Owner[event'.id]) \in pending'[i].keys
      <4> SUFFICES ASSUME NEW i \in Waiting("sinter")'
                   PROVE  /\ answer = "awaited"
                          /\ i = Len(pending) - 1
                          /\ Closed(Owner[event.id]) \in pending[i + 1].keys
        BY <1>0, <2>2, <2>3, <2>6 DEF Waiting
      <4>1. i + 1 \in Waiting("sinter") /\ i \in Nat
        BY <2>4 DEF Waiting
      <4>. QED
        BY <1>0, <4>1 DEF MirrorInv, SetInv
    <3>2. \A i \in Waiting("srem")' :
            \E l \in Logins : pending'[i].key = Working(l) /\ pending'[i].members \subseteq sets'[Closed(l)]
      BY <2>2, <2>3, <2>4 DEF MirrorInv, SetInv, Waiting
    <3>3. \A i \in Waiting("del")' : \E l \in Logins : pending'[i].key = Working(l)
      BY <2>2, <2>4 DEF MirrorInv, SetInv, Waiting
    <3>4. (\E i \in Waiting("sinter")' : i <= executed') => \E i \in Waiting("sinter") : i <= executed
      <4> SUFFICES ASSUME NEW i \in Waiting("sinter")', i <= executed - 1
                   PROVE  \E j \in Waiting("sinter") : j <= executed
        BY <2>3
      <4>1. i + 1 \in Waiting("sinter") /\ i \in Nat /\ i + 1 <= executed
        BY <2>1, <2>4 DEF Waiting
      <4>. QED
        BY <4>1
    <3>. QED
      BY <1>0, <2>3, <2>6, <3>1, <3>2, <3>3, <3>4 DEF MirrorInv, SetInv, ClosedSet
  <2>. QED
    BY <2>5, <2>6
<1>3. CASE DropLink
  <2>1. UNCHANGED <<pending, inter, answer, sets>> /\ executed' = 0
    BY <1>3 DEF DropLink
  <2>2. ~ \E i \in Waiting("sinter")' : i <= executed'
    BY <2>1 DEF Waiting
  <2>. QED
    BY <1>0, <2>1, <2>2 DEF MirrorInv, SetInv, Waiting, ClosedSet
<1>4. CASE Reconnect
  BY <1>0, <1>4, SameQueueSetInv DEF Reconnect, serverVars
<1>5. CASE GiveUp
  <2>1. pending' = <<>> /\ UNCHANGED <<inter, sets, executed>>
        /\ answer' = IF answer = "awaited" THEN "error" ELSE answer
    BY <1>5 DEF GiveUp, serverVars
  <2>2. \A op : Waiting(op)' = {}
    BY <2>1, EmptySeq DEF Waiting
  <2>. QED
    BY <1>0, <2>1, <2>2 DEF MirrorInv, SetInv, ClosedSet
<1>. QED
  BY <1>1, <1>2, <1>3, <1>4, <1>5 DEF RedisStep

-----------------------------------------------------------------------------
\* The queue and the sets start empty.
LEMMA MirrorInit == Init => MirrorInv
<1> SUFFICES ASSUME Init PROVE MirrorInv
  OBVIOUS
<1>1. PumpTypes
  BY PumpTypesInit
<1>2. \A op : Waiting(op) = {}
  BY EmptySeq DEF Init, RedisInit, Waiting
<1>3. SetInv
  BY <1>2 DEF Init, RedisInit, SetInv
<1>. QED
  BY <1>1, <1>3 DEF MirrorInv

\* Every step keeps the removals within the closed sets.
LEMMA MirrorStep == MirrorInv /\ [Next]_vars => MirrorInv'
<1> SUFFICES ASSUME MirrorInv, [Next]_vars PROVE MirrorInv'
  OBVIOUS
<1>1. PumpTypes'
  BY PumpTypesStep DEF MirrorInv
<1>2. CASE WorldStep
  <2>1. UNCHANGED <<redisVars, pumpVars>>
    BY <1>2 DEF WorldStep, Open, Close, Restore, Place, Activate, Delete, TradeBecomes,
         RecordChanges
  <2>2. SetInv'
    BY <2>1, SameQueueSetInv DEF redisVars, queueVars, serverVars, pumpVars
  <2>. QED
    BY <1>1, <2>2 DEF MirrorInv
<1>3. CASE UNCHANGED vars
  <2>1. SetInv'
    BY <1>3, SameQueueSetInv DEF vars, redisVars, queueVars, serverVars, pumpVars
  <2>. QED
    BY <1>1, <2>1 DEF MirrorInv
<1>4. CASE RedisStep /\ UNCHANGED <<worldVars, pumpVars>>
  BY <1>1, <1>4, RedisSetInv DEF MirrorInv
<1>5. CASE TradeStep
  BY <1>1, <1>5, TradeSetInv DEF MirrorInv
<1>6. CASE MarginStep \/ RefreshStep
  BY <1>1, <1>6, TickSetInv DEF MirrorInv
<1>. QED
  BY <1>2, <1>3, <1>4, <1>5, <1>6 DEF Next

\* Every reachable state satisfies the invariant.
LEMMA MirrorAlways == Spec => []MirrorInv
  BY MirrorInit, MirrorStep, PTL DEF Spec

\* An order leaves its account's working set only when it is in the closed
\* set, or when the purge deletes the key: whatever is skipped while the
\* connection is down and whatever is executed twice when it comes back.
THEOREM RemovalsAreOfClosed == Spec => WorkingLosesOnlyClosed
<1> DEFINE Loses == \A l \in Logins : sets[Working(l)] \ sets'[Working(l)] \subseteq sets[Closed(l)]
<1>1. MirrorInv /\ [Next]_vars => [ExecutesPurge \/ Loses]_vars
  <2> SUFFICES ASSUME MirrorInv, Next PROVE ExecutesPurge \/ Loses
    BY DEF vars
  <2>1. CASE sets' = sets
    BY <2>1
  <2>2. CASE Execute
    BY <2>2, ClosedGrows DEF ExecutesPurge, Execute, queueVars
  <2>3. ASSUME sets' # sets PROVE Execute
    <3>1. ~ \E cmd, commit : Command(cmd, commit)
      BY <2>3 DEF Command, Issue
    <3>2. ~ UNCHANGED redisVars /\ ~ UNCHANGED serverVars
      BY <2>3 DEF redisVars, serverVars
    <3>3. ~ WorldStep
      BY <3>2 DEF WorldStep, Open, Close, Restore, Place, Activate, Delete, TradeBecomes,
           RecordChanges
    <3>4. ~ TradeStep
      BY <2>3, <3>1, <3>2 DEF TradeStep, Take, StoreRecord, AddWorking, AddClosed, Intersect,
           Await, AwaitFails, RemoveWorking, Notify, CacheSet, CacheSAdd, CacheSDel,
           CacheSInter, Issue
    <3>5. ~ MarginStep /\ ~ RefreshStep
      BY <3>1, <3>2 DEF MarginStep, RefreshStep, Tick, SetMargin, MarginFails, MarginsSet,
           PurgeWorking, Purged, CommitMargins, UsersNotDue, UsersDue, SetSummary,
           SummaryFails, SummariesSet, RefreshProfit, RefreshWorking, Refreshed,
           CacheSet, CacheSAdd, CacheClear, CacheCommit
    <3>. QED
      BY <2>3, <3>2, <3>3, <3>4, <3>5 DEF Next, RedisStep, Reply, DropLink, Reconnect, GiveUp
  <2>. QED
    BY <2>1, <2>2, <2>3
<1>. QED
  BY <1>1, MirrorAlways, PTL DEF Spec, WorkingLosesOnlyClosed

-----------------------------------------------------------------------------
(***************************************************************************)
(* What a key will hold.  q is the queue of commands, of which Redis has   *)
(* executed done, perhaps not for the first time; text is what it stores.  *)
(* The key ends with the value v if v is stored or still to be set, and    *)
(* whatever else is set in q is set before v is.                           *)
(***************************************************************************)
SetsTo(cmd, k, v) == cmd.op = "set" /\ cmd.key = k /\ cmd.value = v

EndsWith(q, done, text, k, v) ==
  /\ \A i \in 1 .. Len(q) :
       (q[i].op = "set" /\ q[i].key = k /\ q[i].value # v) =>
         \E j \in i + 1 .. Len(q) : SetsTo(q[j], k, v)
  /\ text[k] = v \/ \E j \in done + 1 .. Len(q) : SetsTo(q[j], k, v)

\* The order m is, or will be, in the set k.
EndsIn(q, done, members, k, m) ==
  m \in members[k] \/
    \E j \in done + 1 .. Len(q) : q[j].op = "sadd" /\ q[j].key = k /\ m \in q[j].members

\* Queueing v, or a command about another key.
LEMMA EndsAppend ==
  ASSUME NEW q \in Seq(Commands), NEW cmd \in Commands, NEW done \in Nat, done <= Len(q),
         NEW text, NEW k, NEW v,
         EndsWith(q, done, text, k, v) \/ SetsTo(cmd, k, v),
         cmd.op = "set" /\ cmd.key = k => cmd.value = v
  PROVE  EndsWith(Append(q, cmd), done, text, k, v)
<1> DEFINE p == Append(q, cmd)
<1>1. /\ Len(q) \in Nat /\ Len(p) = Len(q) + 1
      /\ \A i \in 1 .. Len(q) : p[i] = q[i]
      /\ p[Len(q) + 1] = cmd
  BY AppendFacts
<1> HIDE DEF p
<1>2. CASE SetsTo(cmd, k, v)
  <2>1. \A i \in 1 .. Len(p) : i = Len(p) \/ Len(p) \in i + 1 .. Len(p)
    BY <1>1
  <2>2. Len(p) \in done + 1 .. Len(p) /\ SetsTo(p[Len(p)], k, v)
    BY <1>1, <1>2
  <2>3. \A i \in 1 .. Len(p) :
          (p[i].op = "set" /\ p[i].key = k /\ p[i].value # v) => Len(p) \in i + 1 .. Len(p)
    BY <2>1, <2>2 DEF SetsTo
  <2>4. EndsWith(p, done, text, k, v)
    BY <2>2, <2>3 DEF EndsWith
  <2>. QED
    BY <2>4 DEF p
<1>3. CASE ~ SetsTo(cmd, k, v)
  <2>1. EndsWith(q, done, text, k, v) /\ ~ (cmd.op = "set" /\ cmd.key = k)
    BY <1>3 DEF SetsTo
  <2>2. ASSUME NEW i \in 1 .. Len(p), p[i].op = "set", p[i].key = k, p[i].value # v
        PROVE  \E j \in i + 1 .. Len(p) : SetsTo(p[j], k, v)
    <3>1. i \in 1 .. Len(q)
      BY <1>1, <2>1, <2>2
    <3>2. PICK j \in i + 1 .. Len(q) : SetsTo(q[j], k, v)
      BY <1>1, <2>1, <2>2, <3>1 DEF EndsWith
    <3>3. j \in i + 1 .. Len(p) /\ p[j] = q[j]
      BY <1>1, <3>1
    <3>. QED
      BY <3>2, <3>3
  <2>3. ASSUME NEW j \in done + 1 .. Len(q), SetsTo(q[j], k, v)
        PROVE  j \in done + 1 .. Len(p) /\ SetsTo(p[j], k, v)
    BY <1>1, <2>3
  <2>4. EndsWith(p, done, text, k, v)
    BY <2>1, <2>2, <2>3 DEF EndsWith
  <2>. QED
    BY <2>4 DEF p
<1>. QED
  BY <1>2, <1>3

\* Dropping a command that was executed and answered.
LEMMA EndsTail ==
  ASSUME NEW q \in Seq(Commands), NEW done \in Nat, done > 0, done <= Len(q),
         NEW text, NEW k, NEW v, EndsWith(q, done, text, k, v)
  PROVE  EndsWith(Tail(q), done - 1, text, k, v)
<1> DEFINE p == Tail(q)
<1>0. q # <<>>
  BY EmptySeq
<1>1. /\ Len(q) \in Nat /\ Len(p) = Len(q) - 1
      /\ \A i \in 1 .. Len(q) - 1 : p[i] = q[i + 1]
  BY <1>0, TailFacts
<1> HIDE DEF p
<1>2. ASSUME NEW i \in Nat, NEW j \in i + 1 .. Len(q), j > 1, SetsTo(q[j], k, v)
      PROVE  j - 1 \in i .. Len(p) /\ SetsTo(p[j - 1], k, v)
  <2>1. j - 1 \in i .. Len(p) /\ j - 1 \in 1 .. Len(q) - 1 /\ (j - 1) + 1 = j
    BY <1>1, <1>2
  <2>. QED
    BY <1>1, <1>2, <2>1
<1>3. ASSUME NEW i \in 1 .. Len(p), p[i].op = "set", p[i].key = k, p[i].value # v
      PROVE  \E j \in i + 1 .. Len(p) : SetsTo(p[j], k, v)
  <2>1. i + 1 \in 1 .. Len(q) /\ i + 1 \in Nat /\ p[i] = q[i + 1]
    BY <1>1
  <2>2. PICK j \in (i + 1) + 1 .. Len(q) : SetsTo(q[j], k, v)
    BY <1>3, <2>1 DEF EndsWith
  <2>3. j - 1 \in i + 1 .. Len(p) /\ SetsTo(p[j - 1], k, v)
    BY <1>1, <1>2, <2>1, <2>2
  <2>. QED
    BY <2>3
<1>4. text[k] = v \/ \E j \in (done - 1) + 1 .. Len(p) : SetsTo(p[j], k, v)
  <2>1. CASE \E j \in done + 1 .. Len(q) : SetsTo(q[j], k, v)
    <3>1. PICK j \in done + 1 .. Len(q) : SetsTo(q[j], k, v)
      BY <2>1
    <3>2. j - 1 \in done .. Len(p) /\ SetsTo(p[j - 1], k, v)
      BY <1>1, <1>2, <3>1
    <3>. QED
      BY <3>2
  <2>. QED
    BY <2>1 DEF EndsWith
<1>5. EndsWith(p, done - 1, text, k, v)
  BY <1>3, <1>4 DEF EndsWith
<1>. QED
  BY <1>5 DEF p

\* Executing the next command, for the first time or again.
LEMMA EndsExecute ==
  ASSUME NEW q \in Seq(Commands), NEW done \in Nat, done < Len(q),
         NEW text \in [StringKeys -> Values \cup {None}], NEW k \in StringKeys, NEW v,
         NEW next,
         next = IF q[done + 1].op = "set"
                  THEN [text EXCEPT ![q[done + 1].key] = q[done + 1].value] ELSE text,
         EndsWith(q, done, text, k, v)
  PROVE  EndsWith(q, done + 1, next, k, v)
<1> DEFINE n == done + 1
<1>1. Len(q) \in Nat /\ n \in 1 .. Len(q) /\ n \in Nat /\ q[n] \in Commands
  BY ElementOfSeq, LenProperties
<1>2. next[k] = v \/ \E j \in n + 1 .. Len(q) : SetsTo(q[j], k, v)
  <2>1. CASE q[n].op = "set" /\ q[n].key = k
    <3>1. next[k] = q[n].value
      BY <2>1
    <3>. QED
      BY <1>1, <2>1, <3>1 DEF EndsWith
  <2>2. CASE ~ (q[n].op = "set" /\ q[n].key = k)
    <3>1. next[k] = text[k]
      BY <1>1, <2>2 DEF Commands
    <3>2. ASSUME NEW j \in done + 1 .. Len(q), SetsTo(q[j], k, v)
          PROVE  j \in n + 1 .. Len(q)
      BY <1>1, <2>2, <3>2 DEF SetsTo
    <3>. QED
      BY <3>1, <3>2 DEF EndsWith
  <2>. QED
    BY <2>1, <2>2
<1>. QED
  BY <1>2 DEF EndsWith

\* Executing everything again from the start.
LEMMA EndsRestart ==
  ASSUME NEW q \in Seq(Commands), NEW done \in Nat, NEW text, NEW k, NEW v,
         EndsWith(q, done, text, k, v)
  PROVE  EndsWith(q, 0, text, k, v)
<1>1. ASSUME NEW j \in done + 1 .. Len(q) PROVE j \in 0 + 1 .. Len(q)
  BY LenProperties
<1>. QED
  BY <1>1 DEF EndsWith

\* The same four facts of a set that loses nothing.
LEMMA EndsInFacts ==
  ASSUME NEW q \in Seq(Commands), NEW done \in Nat, done <= Len(q),
         NEW members, NEW k, NEW m, EndsIn(q, done, members, k, m)
  PROVE  /\ \A cmd \in Commands : EndsIn(Append(q, cmd), done, members, k, m)
         /\ done > 0 => EndsIn(Tail(q), done - 1, members, k, m)
         /\ EndsIn(q, 0, members, k, m)
<1>0. Len(q) \in Nat
  BY LenProperties
<1>1. CASE m \in members[k]
  BY <1>1 DEF EndsIn
<1>2. CASE m \notin members[k]
  <2>1. PICK j \in done + 1 .. Len(q) : q[j].op = "sadd" /\ q[j].key = k /\ m \in q[j].members
    BY <1>2 DEF EndsIn
  <2>2. ASSUME NEW cmd \in Commands PROVE EndsIn(Append(q, cmd), done, members, k, m)
    <3>1. j \in done + 1 .. Len(Append(q, cmd)) /\ Append(q, cmd)[j] = q[j]
      BY <1>0, AppendFacts
    <3>. QED
      BY <2>1, <3>1 DEF EndsIn
  <2>3. ASSUME done > 0 PROVE EndsIn(Tail(q), done - 1, members, k, m)
    <3>1. q # <<>>
      BY <2>3, EmptySeq
    <3>2. j - 1 \in (done - 1) + 1 .. Len(Tail(q)) /\ Tail(q)[j - 1] = q[j]
      <4>1. Len(Tail(q)) = Len(q) - 1 /\ \A i \in 1 .. Len(q) - 1 : Tail(q)[i] = q[i + 1]
        BY <3>1, TailFacts
      <4>2. j - 1 \in 1 .. Len(q) - 1 /\ (j - 1) + 1 = j
        BY <1>0, <2>3
      <4>. QED
        BY <1>0, <4>1, <4>2
    <3>. QED
      BY <2>1, <3>2 DEF EndsIn
  <2>4. j \in 0 + 1 .. Len(q)
    BY <1>0
  <2>. QED
    BY <2>1, <2>2, <2>3, <2>4 DEF EndsIn
<1>. QED
  BY <1>1, <1>2

-----------------------------------------------------------------------------
(***************************************************************************)
(* The texts of the orders.  Unless commands were lost: the last change of *)
(* an order in the feed is its state; without one, that state is in the    *)
(* hands of PumpingFunc or is what the order's key ends with.  From the    *)
(* moment a closed order is stored, its key ends with that; the closed set *)
(* ends with the order once it is added; and an answer to SINTER leaves    *)
(* nothing under way.  Only tick commands wait for a commit.               *)
(***************************************************************************)
About(c, o) == c.kind = "order" /\ c.id = o

FeedInv ==
  \A o \in Orders, i \in 1 .. Len(feed) :
    (About(feed[i], o) /\ \A j \in i + 1 .. Len(feed) : ~ About(feed[j], o)) =>
      feed[i].value = trade[o]

TextInv ==
  \A o \in Orders :
    (o \in changed /\ \A i \in 1 .. Len(feed) : ~ About(feed[i], o)) =>
      IF pc = "record" /\ About(event, o)
        THEN event.value = trade[o]
        ELSE EndsWith(pending, executed, strings, <<"order", o>>, trade[o])

Stored == {"addClosed", "intersect", "await", "remove", "notify"}

CloseInv ==
  (pc \in Stored /\ event.value = "closed") =>
    /\ EndsWith(pending, executed, strings, <<"order", event.id>>, "closed")
    /\ pc # "addClosed" =>
         EndsIn(pending, executed, sets, Closed(Owner[event.id]), event.id)
    /\ pc = "await" /\ answer = "found" => pending = <<>>
    /\ pc \in {"remove", "notify"} => \A i \in 1 .. Len(pending) : pending[i].op = "srem"

TickOnly ==
  link = "up" =>
    \A i \in written + 1 .. Len(pending) :
      pending[i].op = "set" /\ \A o \in Orders : pending[i].key # <<"order", o>>

LatestInv == MirrorInv /\ FeedInv /\ TickOnly /\ (~ lossy => TextInv /\ CloseInv)

\* The change that Take reports is the next one; the others keep their order.
LEMMA TakeFacts ==
  ASSUME MirrorInv, FeedInv, Take
  PROVE  /\ FeedInv'
         /\ event' = feed[1] /\ event' \in Changes
         /\ \A o \in Orders : (\A i \in 1 .. Len(feed') : ~ About(feed'[i], o)) =>
              \/ About(event', o) /\ event'.value = trade[o]
              \/ ~ About(event', o) /\ \A i \in 1 .. Len(feed) : ~ About(feed[i], o)
<1>1. feed \in Seq(Changes) /\ feed # <<>> /\ feed' = Tail(feed) /\ event' = Head(feed)
      /\ UNCHANGED trade
  BY DEF MirrorInv, PumpTypes, WorldType, Take
<1>2. /\ Head(feed) = feed[1] /\ feed[1] \in Changes
      /\ Len(feed) \in Nat /\ Len(feed) >= 1 /\ Len(feed') = Len(feed) - 1
      /\ \A i \in 1 .. Len(feed) - 1 : feed'[i] = feed[i + 1]
  BY <1>1, TailFacts
<1>3. ASSUME NEW o \in Orders, NEW i \in 1 .. Len(feed'), About(feed'[i], o),
             \A j \in i + 1 .. Len(feed') : ~ About(feed'[j], o)
      PROVE  feed'[i].value = trade'[o]
  <2>1. i + 1 \in 1 .. Len(feed) /\ feed'[i] = feed[i + 1]
    BY <1>2
  <2>2. ASSUME NEW j \in (i + 1) + 1 .. Len(feed) PROVE ~ About(feed[j], o)
    <3>1. j - 1 \in i + 1 .. Len(feed') /\ j - 1 \in 1 .. Len(feed) - 1 /\ (j - 1) + 1 = j
      BY <1>2
    <3>. QED
      BY <1>2, <1>3, <3>1
  <2>. QED
    BY <1>1, <1>3, <2>1, <2>2 DEF FeedInv
<1>4. ASSUME NEW o \in Orders, \A i \in 1 .. Len(feed') : ~ About(feed'[i], o)
      PROVE  \A i \in 2 .. Len(feed) : ~ About(feed[i], o)
  <2> SUFFICES ASSUME NEW i \in 2 .. Len(feed) PROVE ~ About(feed[i], o)
    OBVIOUS
  <2>1. i - 1 \in 1 .. Len(feed') /\ i - 1 \in 1 .. Len(feed) - 1 /\ (i - 1) + 1 = i
    BY <1>2
  <2>. QED
    BY <1>2, <1>4, <2>1
<1>5. ASSUME NEW o \in Orders, \A i \in 1 .. Len(feed') : ~ About(feed'[i], o)
      PROVE  \/ About(event', o) /\ event'.value = trade[o]
             \/ ~ About(event', o) /\ \A i \in 1 .. Len(feed) : ~ About(feed[i], o)
  <2>1. \A i \in 1 + 1 .. Len(feed) : ~ About(feed[i], o)
    BY <1>4, <1>5
  <2>2. CASE About(event', o)
    BY <1>1, <1>2, <2>1, <2>2 DEF FeedInv
  <2>3. CASE ~ About(event', o)
    BY <1>1, <1>2, <2>1, <2>3
  <2>. QED
    BY <2>2, <2>3
<1>. QED
  BY <1>1, <1>2, <1>3, <1>5 DEF FeedInv

\* A change of the server is the last one of its order in the feed.
LEMMA ReportFacts ==
  ASSUME MirrorInv, FeedInv, NEW c \in Changes, Report(c),
         \A o \in Orders : trade'[o] = (IF About(c, o) THEN c.value ELSE trade[o])
  PROVE  /\ FeedInv'
         /\ \A o \in Orders : (\A i \in 1 .. Len(feed') : ~ About(feed'[i], o)) =>
              ~ About(c, o) /\ \A i \in 1 .. Len(feed) : ~ About(feed[i], o)
<1>1. /\ Len(feed) \in Nat /\ Len(feed') = Len(feed) + 1
      /\ \A i \in 1 .. Len(feed) : feed'[i] = feed[i]
      /\ feed'[Len(feed) + 1] = c
  BY AppendFacts DEF Report, MirrorInv, PumpTypes, WorldType
<1>2. ASSUME NEW o \in Orders, NEW i \in 1 .. Len(feed'), About(feed'[i], o),
             \A j \in i + 1 .. Len(feed') : ~ About(feed'[j], o)
      PROVE  feed'[i].value = trade'[o]
  <2>1. CASE i = Len(feed) + 1
    BY <1>1, <1>2, <2>1
  <2>2. CASE i # Len(feed) + 1
    <3>1. i \in 1 .. Len(feed) /\ Len(feed) + 1 \in i + 1 .. Len(feed')
      BY <1>1, <2>2
    <3>2. ~ About(c, o)
      BY <1>1, <1>2, <3>1
    <3>3. ASSUME NEW j \in i + 1 .. Len(feed) PROVE ~ About(feed[j], o)
      <4>1. j \in i + 1 .. Len(feed') /\ j \in 1 .. Len(feed)
        BY <1>1, <3>1
      <4>. QED
        BY <1>1, <1>2, <4>1
    <3>. QED
      BY <1>1, <1>2, <3>1, <3>2, <3>3 DEF FeedInv
  <2>. QED
    BY <2>1, <2>2
<1>3. ASSUME NEW o \in Orders, \A i \in 1 .. Len(feed') : ~ About(feed'[i], o)
      PROVE  ~ About(c, o) /\ \A i \in 1 .. Len(feed) : ~ About(feed[i], o)
  BY <1>1, <1>3
<1>. QED
  BY <1>2, <1>3 DEF FeedInv

-----------------------------------------------------------------------------
\* A text that is set under another key than an order's leaves the orders'
\* texts alone; so does any command on a set.
Harmless(cmd) == cmd.op = "set" => \A o \in Orders : cmd.key # <<"order", o>>

\* PumpingFunc queues a command that is no order's text.  It is committed, or
\* one of the tick handler's texts.
LEMMA CommandLatestInv ==
  ASSUME LatestInv, MirrorInv', NEW cmd \in Commands, NEW commit \in BOOLEAN,
         Issue(cmd, commit), UNCHANGED worldVars, Harmless(cmd),
         commit \/ cmd.op = "set",
         pc # "record", pc' # "record"
  PROVE  /\ FeedInv' /\ TickOnly'
         /\ ~ lossy' => ~ lossy /\ link = "up" /\ TextInv'
                        /\ \A k, v : EndsWith(pending, executed, strings, k, v) /\ cmd.op # "set"
                              => EndsWith(pending', executed', strings', k, v)
<1>0. QueueType /\ QueueType'
  BY DEF LatestInv, MirrorInv, PumpTypes
<1>1. FeedInv'
  BY DEF LatestInv, FeedInv, worldVars
<1>2. CASE link = "up"
  <2>1. pending' = Append(pending, cmd) /\ UNCHANGED <<lossy, executed, strings, link>>
        /\ written' = IF commit THEN Len(pending) + 1 ELSE written
    BY <1>2 DEF Issue, Queue
  <2>2. /\ Len(pending) \in Nat /\ Len(pending') = Len(pending) + 1
        /\ \A i \in 1 .. Len(pending) : pending'[i] = pending[i]
        /\ pending'[Len(pending) + 1] = cmd
        /\ executed \in Nat /\ executed <= Len(pending) /\ written \in Nat
    BY <1>0, <2>1, AppendFacts DEF QueueType
  <2>3. TickOnly'
    <3>1. CASE commit
      BY <2>1, <2>2, <3>1 DEF TickOnly
    <3>2. CASE ~ commit
      <4>1. ASSUME NEW i \in written' + 1 .. Len(pending'), i # Len(pending) + 1
            PROVE  i \in 1 .. Len(pending) /\ i \in written + 1 .. Len(pending)
        <5>1. written' = written
          BY <2>1, <3>2
        <5>. QED
          BY <2>2, <4>1, <5>1
      <4>. QED
        BY <1>2, <2>1, <2>2, <3>2, <4>1 DEF TickOnly, LatestInv, Harmless
    <3>. QED
      BY <3>1, <3>2
  <2>4. ASSUME NEW o \in Orders, NEW v, EndsWith(pending, executed, strings, <<"order", o>>, v)
        PROVE  EndsWith(pending', executed', strings', <<"order", o>>, v)
    BY <1>0, <2>1, <2>2, <2>4, EndsAppend DEF QueueType, Harmless
  <2>5. ASSUME NEW k, NEW v, EndsWith(pending, executed, strings, k, v), cmd.op # "set"
        PROVE  EndsWith(pending', executed', strings', k, v)
    BY <1>0, <2>1, <2>2, <2>5, EndsAppend DEF QueueType
  <2>6. ASSUME ~ lossy PROVE TextInv'
    <3> SUFFICES ASSUME NEW o \in Orders, o \in changed,
                        \A i \in 1 .. Len(feed) : ~ About(feed[i], o)
                 PROVE  EndsWith(pending', executed', strings', <<"order", o>>, trade[o])
      BY DEF TextInv, worldVars
    <3>1. EndsWith(pending, executed, strings, <<"order", o>>, trade[o])
      BY <2>6 DEF LatestInv, TextInv
    <3>. QED
      BY <2>4, <3>1
  <2>. QED
    BY <1>1, <1>2, <2>1, <2>3, <2>5, <2>6
<1>3. CASE link # "up"
  BY <1>1, <1>3 DEF Issue, TickOnly
<1>. QED
  BY <1>2, <1>3

\* Steps that touch neither the queue nor the server of Redis.
LEMMA SameQueueLatestInv ==
  ASSUME LatestInv, UNCHANGED <<link, pending, written, executed, strings, sets, lossy, feed, trade, changed>>,
         pc # "record" /\ pc' # "record"
  PROVE  /\ FeedInv' /\ TickOnly'
         /\ ~ lossy' => ~ lossy /\ TextInv'
<1>1. FeedInv' /\ TickOnly'
  BY DEF LatestInv, FeedInv, TickOnly
<1>2. ~ lossy => TextInv'
  BY DEF LatestInv, TextInv
<1>. QED
  BY <1>1, <1>2

\* The server reports c, and that is all that becomes of any order.
Makes(c) ==
  /\ Report(c)
  /\ \A q \in Orders : /\ trade'[q] = (IF About(c, q) THEN c.value ELSE trade[q])
                       /\ q \in changed' => q \in changed \/ About(c, q)

\* The server's own steps: an order that changes has its change in the feed.
LEMMA ServerFacts ==
  ASSUME MirrorInv, FeedInv, WorldStep
  PROVE  /\ UNCHANGED <<redisVars, pumpVars>> /\ FeedInv'
         /\ \A o \in Orders : (\A i \in 1 .. Len(feed') : ~ About(feed'[i], o)) =>
              /\ trade'[o] = trade[o] /\ (o \in changed' => o \in changed)
              /\ \A i \in 1 .. Len(feed) : ~ About(feed[i], o)
<1>1. UNCHANGED <<redisVars, pumpVars>>
  BY DEF WorldStep, Open, Close, Restore, Place, Activate, Delete, TradeBecomes, RecordChanges
<1>2. \E c \in Changes : Makes(c)
  <2>1. ASSUME NEW o \in Orders, NEW before, NEW after \in TradeStates \ {"none"},
               TradeBecomes(o, before, after)
        PROVE  \E c \in Changes : Makes(c)
    <3> DEFINE c == Change("order", o, after)
    <3>1. c \in Changes /\ Report(c)
      BY <2>1 DEF Changes, Change, TradeBecomes
    <3>2. trade \in [Orders -> TradeStates] /\ trade' = [trade EXCEPT ![o] = after]
          /\ changed' = changed \cup {o}
      BY <2>1 DEF MirrorInv, PumpTypes, WorldType, TradeBecomes
    <3>3. \A q \in Orders : (About(c, q) <=> q = o) /\ c.value = after
      BY DEF About, Change
    <3> HIDE DEF c
    <3>4. Makes(c)
      BY <3>1, <3>2, <3>3 DEF Makes
    <3>. QED
      BY <3>1, <3>4
  <2>2. CASE RecordChanges
    <3>0. PICK k \in ({"user"} \X Logins) \cup ({"symbol"} \X Symbols) :
            Report(Change(k[1], k[2], "record"))
      BY <2>2 DEF RecordChanges
    <3> DEFINE c == Change(k[1], k[2], "record")
    <3>1. c \in Changes /\ Report(c) /\ c.kind # "order"
      BY <3>0 DEF Changes, Change
    <3> HIDE DEF c
    <3>2. UNCHANGED <<trade, changed>> /\ \A q \in Orders : ~ About(c, q)
      BY <2>2, <3>1 DEF RecordChanges, About
    <3>. QED
      BY <3>1, <3>2 DEF Makes
  <2>3. ASSUME NEW o \in Orders,
               Open(o) \/ Close(o) \/ Restore(o) \/ Place(o) \/ Activate(o) \/ Delete(o)
        PROVE  \E before : \E after \in TradeStates \ {"none"} : TradeBecomes(o, before, after)
    BY <2>3 DEF Open, Close, Restore, Place, Activate, Delete, TradeStates
  <2>. QED
    BY <2>1, <2>2, <2>3 DEF WorldStep
<1>3. PICK c \in Changes : Makes(c)
  BY <1>2
<1>4. /\ FeedInv'
      /\ \A o \in Orders : (\A i \in 1 .. Len(feed') : ~ About(feed'[i], o)) =>
           ~ About(c, o) /\ \A i \in 1 .. Len(feed) : ~ About(feed[i], o)
  BY <1>3, ReportFacts DEF Makes
<1>. QED
  BY <1>1, <1>3, <1>4 DEF Makes

\* So what is said of the other orders stays true.
LEMMA WorldLatestInv ==
  ASSUME LatestInv, WorldStep PROVE FeedInv' /\ TickOnly' /\ (~ lossy' => TextInv' /\ CloseInv')
<1>1. /\ UNCHANGED <<redisVars, pumpVars>> /\ FeedInv'
      /\ \A o \in Orders : (\A i \in 1 .. Len(feed') : ~ About(feed'[i], o)) =>
           /\ trade'[o] = trade[o] /\ (o \in changed' => o \in changed)
           /\ \A i \in 1 .. Len(feed) : ~ About(feed[i], o)
  BY ServerFacts DEF LatestInv
<1>2. UNCHANGED <<link, pending, written, executed, strings, sets, lossy, answer, pc, event>>
  BY <1>1 DEF redisVars, queueVars, serverVars, pumpVars
<1>3. TickOnly' /\ (~ lossy' => ~ lossy)
  BY <1>2 DEF LatestInv, TickOnly
<1>4. ~ lossy => TextInv'
  BY <1>1, <1>2 DEF LatestInv, TextInv
<1>5. ~ lossy => CloseInv'
  BY <1>2 DEF LatestInv, CloseInv
<1>. QED
  BY <1>1, <1>3, <1>4, <1>5

\* A change is taken and stored, a closed order is added, intersected and
\* removed: from one stage to the next its text and its place are under way.
LEMMA TradeLatestInv ==
  ASSUME LatestInv, MirrorInv', TradeStep
  PROVE  FeedInv' /\ TickOnly' /\ (~ lossy' => TextInv' /\ CloseInv')
<1>0. PumpTypes /\ QueueType /\ StageType
  BY DEF LatestInv, MirrorInv, PumpTypes
<1>1. CASE Take
  <2>1. UNCHANGED redisVars /\ pc' = "record" /\ UNCHANGED <<trade, changed>>
    BY <1>1 DEF Take
  <2>2. UNCHANGED <<link, pending, written, executed, strings, lossy>>
    BY <2>1 DEF redisVars, queueVars, serverVars
  <2>3. FeedInv' /\ \A o \in Orders : (\A i \in 1 .. Len(feed') : ~ About(feed'[i], o)) =>
              \/ About(event', o) /\ event'.value = trade[o]
              \/ ~ About(event', o) /\ \A i \in 1 .. Len(feed) : ~ About(feed[i], o)
    BY <1>1, TakeFacts DEF LatestInv
  <2>4. TickOnly' /\ CloseInv' /\ (~ lossy' => ~ lossy)
    BY <2>1, <2>2 DEF LatestInv, TickOnly, CloseInv, Stored
  <2>5. ~ lossy => TextInv'
    <3> SUFFICES ASSUME ~ lossy, NEW o \in Orders, o \in changed,
                        \A i \in 1 .. Len(feed') : ~ About(feed'[i], o)
                 PROVE  IF About(event', o)
                          THEN event'.value = trade[o]
                          ELSE EndsWith(pending, executed, strings, <<"order", o>>, trade[o])
      BY <2>1, <2>2 DEF TextInv
    <3>1. pc = "idle"
      BY <1>1 DEF Take
    <3>. QED
      BY <2>3, <3>1 DEF LatestInv, TextInv
  <2>. QED
    BY <2>3, <2>4, <2>5
<1>2. CASE StoreRecord
  <2> DEFINE cmd == [op |-> "set", key |-> <<event.kind, event.id>>, value |-> event.value]
  <2>1. event \in Changes /\ pc = "record" /\ pc' \in {"addWorking", "addClosed", "notify"}
        /\ UNCHANGED <<event, feed, trade, changed>>
    BY <1>0, <1>2 DEF StoreRecord, StageType, Goto, worldVars
  <2>2. cmd \in Commands /\ Issue(cmd, TRUE)
    BY <1>2, <2>1, ChangeTypes, CommandTypes DEF StoreRecord, CacheSet, Command
  <2>3. FeedInv'
    BY <2>1 DEF LatestInv, FeedInv
  <2>4. CASE link # "up"
    BY <2>2, <2>3, <2>4 DEF Issue, TickOnly
  <2>5. CASE link = "up"
    <3>1. pending' = Append(pending, cmd) /\ written' = Len(pending) + 1
          /\ UNCHANGED <<lossy, executed, strings, link>>
      BY <2>2, <2>5 DEF Issue, Queue
    <3>2. cmd.op = "set" /\ cmd.key = <<event.kind, event.id>> /\ cmd.value = event.value
      OBVIOUS
    <3> HIDE DEF cmd
    <3>3. Len(pending) \in Nat /\ Len(pending') = Len(pending) + 1
      BY <1>0, <2>2, <3>1, AppendFacts DEF QueueType
    <3>4. TickOnly'
      BY <3>1, <3>3 DEF TickOnly
    <3>5. ASSUME NEW o \in Orders, NEW v,
                 About(event, o) => event.value = v,
                 ~ About(event, o) => EndsWith(pending, executed, strings, <<"order", o>>, v)
          PROVE  EndsWith(pending', executed', strings', <<"order", o>>, v)
      <4>1. cmd.key = <<"order", o>> <=> About(event, o)
        BY <3>2 DEF About
      <4>2. EndsWith(pending, executed, strings, <<"order", o>>, v) \/ SetsTo(cmd, <<"order", o>>, v)
        BY <3>2, <3>5, <4>1 DEF SetsTo
      <4>3. cmd.op = "set" /\ cmd.key = <<"order", o>> => cmd.value = v
        BY <3>2, <3>5, <4>1
      <4>. QED
        BY <1>0, <2>2, <3>1, <3>3, <4>2, <4>3, EndsAppend DEF QueueType
    <3>6. ~ lossy => TextInv'
      <4> SUFFICES ASSUME ~ lossy, NEW o \in Orders, o \in changed,
                          \A i \in 1 .. Len(feed) : ~ About(feed[i], o)
                   PROVE  EndsWith(pending', executed', strings', <<"order", o>>, trade[o])
        BY <2>1 DEF TextInv
      <4>1. About(event, o) => event.value = trade[o]
        BY <2>1, ChangeTypes DEF LatestInv, TextInv, About
      <4>2. ~ About(event, o) => EndsWith(pending, executed, strings, <<"order", o>>, trade[o])
        BY DEF LatestInv, TextInv
      <4>. QED
        BY <3>5, <4>1, <4>2
    <3>7. CloseInv'
      <4> SUFFICES ASSUME event.value = "closed", pc' \in Stored PROVE CloseInv'
        BY <2>1 DEF CloseInv
      <4>1. pc' = "addClosed" /\ event.id \in Orders /\ About(event, event.id)
        BY <1>2, <2>1, ChangeTypes DEF StoreRecord, Goto, About
      <4>2. EndsWith(pending', executed', strings', <<"order", event.id>>, "closed")
        BY <3>5, <4>1
      <4>. QED
        BY <2>1, <4>1, <4>2 DEF CloseInv
    <3>. QED
      BY <2>3, <3>1, <3>4, <3>6, <3>7
  <2>. QED
    BY <2>4, <2>5
<1>3. CASE AddWorking
  <2> DEFINE cmd == [op |-> "sadd", key |-> Working(Owner[event.id]), members |-> {event.id}]
  <2>1. event.id \in Orders /\ event.value = "open" /\ event' = event
        /\ pc = "addWorking" /\ pc' = "notify" /\ UNCHANGED worldVars
    BY <1>0, <1>3, ChangeTypes DEF AddWorking, StageType, Goto
  <2>2. cmd \in Commands /\ Issue(cmd, TRUE) /\ cmd.op = "sadd"
    BY <1>3, <2>1, KeyTypes, CommandTypes DEF AddWorking, CacheSAdd, Command
  <2>3. Harmless(cmd)
    BY DEF Harmless
  <2>4. CloseInv'
    BY <2>1 DEF CloseInv
  <2>. QED
    BY <2>1, <2>2, <2>3, <2>4, CommandLatestInv
<1>4. CASE AddClosed
  <2> DEFINE k == Closed(Owner[event.id])
             cmd == [op |-> "sadd", key |-> k, members |-> {event.id}]
  <2>1. event.id \in Orders /\ event.value = "closed" /\ event' = event
        /\ pc = "addClosed" /\ pc' = "intersect" /\ UNCHANGED worldVars
    BY <1>0, <1>4, ChangeTypes DEF AddClosed, StageType, Goto, Closing
  <2>2. cmd \in Commands /\ Issue(cmd, TRUE)
    BY <1>4, <2>1, KeyTypes, CommandTypes DEF AddClosed, CacheSAdd, Command
  <2>3. cmd.op = "sadd" /\ cmd.key = k /\ event.id \in cmd.members
    OBVIOUS
  <2> HIDE DEF cmd, k
  <2>4. /\ FeedInv' /\ TickOnly'
        /\ ~ lossy' => ~ lossy /\ link = "up" /\ TextInv'
                       /\ \A j, v : EndsWith(pending, executed, strings, j, v)
                             => EndsWith(pending', executed', strings', j, v)
    BY <2>1, <2>2, <2>3, CommandLatestInv DEF Harmless
  <2>5. ASSUME ~ lossy' PROVE CloseInv'
    <3>1. pending' = Append(pending, cmd) /\ executed' = executed
      BY <2>2, <2>4, <2>5 DEF Issue, Queue
    <3>2. Len(pending) + 1 \in executed' + 1 .. Len(pending') /\ pending'[Len(pending) + 1] = cmd
      <4>1. /\ Len(pending) \in Nat /\ Len(pending') = Len(pending) + 1
            /\ pending'[Len(pending) + 1] = cmd
        BY <1>0, <2>2, <3>1, AppendFacts DEF QueueType
      <4>2. executed \in Nat /\ executed <= Len(pending)
        BY <1>0, <4>1 DEF QueueType
      <4>. QED
        BY <3>1, <4>1, <4>2
    <3>3. EndsIn(pending', executed', sets', k, event.id)
      BY <2>3, <3>2 DEF EndsIn
    <3>4. EndsWith(pending', executed', strings', <<"order", event.id>>, "closed")
      BY <2>1, <2>4, <2>5 DEF LatestInv, CloseInv, Stored
    <3>. QED
      BY <2>1, <3>3, <3>4 DEF CloseInv, k
  <2>. QED
    BY <2>4, <2>5
<1>5. CASE Intersect
  <2> DEFINE k == Closed(Owner[event.id])
             ks == {Working(Owner[event.id]), k}
             cmd == [op |-> "sinter", keys |-> ks]
  <2>1. event.id \in Orders /\ event.value = "closed" /\ event' = event
        /\ pc = "intersect" /\ pc' = "await" /\ UNCHANGED worldVars
    BY <1>0, <1>5, ChangeTypes DEF Intersect, StageType, Goto, Closing
  <2>2. ks \in SUBSET SetKeys
    BY <2>1, KeyTypes
  <2>3. cmd \in Commands /\ Issue(cmd, TRUE) /\ cmd.op = "sinter"
        /\ (link = "up" => answer' = "awaited")
    BY <1>5, <2>2, CommandTypes DEF Intersect, CacheSInter
  <2> HIDE DEF cmd
  <2>4. /\ FeedInv' /\ TickOnly'
        /\ ~ lossy' => ~ lossy /\ link = "up" /\ TextInv'
                       /\ \A j, v : EndsWith(pending, executed, strings, j, v)
                             => EndsWith(pending', executed', strings', j, v)
    BY <2>1, <2>3, CommandLatestInv DEF Harmless
  <2>5. ASSUME ~ lossy' PROVE CloseInv'
    <3>1. pending' = Append(pending, cmd) /\ UNCHANGED <<executed, sets>> /\ answer' = "awaited"
      BY <2>3, <2>4, <2>5 DEF Issue, Queue
    <3>2. /\ EndsWith(pending, executed, strings, <<"order", event.id>>, "closed")
          /\ EndsIn(pending, executed, sets, k, event.id)
      BY <2>1, <2>4, <2>5 DEF LatestInv, CloseInv, Stored
    <3>3. executed \in Nat /\ executed <= Len(pending)
      BY <1>0, LenProperties DEF QueueType
    <3>4. EndsIn(pending', executed', sets', k, event.id)
      BY <1>0, <2>3, <3>1, <3>2, <3>3, EndsInFacts DEF QueueType
    <3>5. EndsWith(pending', executed', strings', <<"order", event.id>>, "closed")
      BY <2>4, <2>5, <3>2
    <3>. QED
      BY <2>1, <3>1, <3>4, <3>5 DEF CloseInv
  <2>. QED
    BY <2>4, <2>5
<1>6. CASE Await
  <2>1. UNCHANGED <<link, pending, written, executed, strings, sets, lossy, feed, trade, changed, event>>
        /\ pc = "await" /\ pc' = "remove" /\ answer = "found"
    BY <1>6 DEF Await, queueVars, serverVars, worldVars, Goto
  <2>2. ~ lossy' => CloseInv'
    <3> SUFFICES ASSUME ~ lossy, event.value = "closed" PROVE CloseInv'
      BY <2>1 DEF CloseInv
    <3>1. pending = <<>>
      BY <2>1 DEF LatestInv, CloseInv, Stored
    <3>2. \A i \in 1 .. Len(pending) : pending[i].op = "srem"
      BY <3>1, EmptySeq
    <3>. QED
      BY <2>1, <3>2 DEF LatestInv, CloseInv, Stored
  <2>. QED
    BY <2>1, <2>2, SameQueueLatestInv
<1>7. CASE AwaitFails
  <2>1. UNCHANGED <<link, pending, written, executed, strings, sets, lossy, feed, trade, changed>>
        /\ pc = "await" /\ pc' = "idle"
    BY <1>7 DEF AwaitFails, queueVars, serverVars, worldVars, Return
  <2>2. CloseInv'
    BY <2>1 DEF CloseInv, Stored
  <2>. QED
    BY <2>1, <2>2, SameQueueLatestInv
<1>8. CASE RemoveWorking
  <2> DEFINE cmd == [op |-> "srem", key |-> Working(Owner[event.id]), members |-> inter]
  <2>1. event.id \in Orders /\ event.value = "closed" /\ event' = event
        /\ pc = "remove" /\ pc' = "notify" /\ UNCHANGED worldVars /\ inter \in SUBSET Members
    BY <1>0, <1>8, ChangeTypes DEF RemoveWorking, StageType, Goto, Closing, QueueType
  <2>2. cmd \in Commands /\ Issue(cmd, TRUE) /\ cmd.op = "srem"
    BY <1>8, <2>1, KeyTypes, CommandTypes DEF RemoveWorking, CacheSDel, Command
  <2> HIDE DEF cmd
  <2>3. /\ FeedInv' /\ TickOnly'
        /\ ~ lossy' => ~ lossy /\ link = "up" /\ TextInv'
                       /\ \A j, v : EndsWith(pending, executed, strings, j, v)
                             => EndsWith(pending', executed', strings', j, v)
    BY <2>1, <2>2, CommandLatestInv DEF Harmless
  <2>4. ASSUME ~ lossy' PROVE CloseInv'
    <3>1. pending' = Append(pending, cmd) /\ UNCHANGED <<executed, sets>>
      BY <2>2, <2>3, <2>4 DEF Issue, Queue
    <3>2. /\ EndsWith(pending, executed, strings, <<"order", event.id>>, "closed")
          /\ EndsIn(pending, executed, sets, Closed(Owner[event.id]), event.id)
          /\ \A i \in 1 .. Len(pending) : pending[i].op = "srem"
      BY <2>1, <2>3, <2>4 DEF LatestInv, CloseInv, Stored
    <3>3. executed \in Nat /\ executed <= Len(pending)
      BY <1>0, LenProperties DEF QueueType
    <3>4. EndsIn(pending', executed', sets', Closed(Owner[event.id]), event.id)
      BY <1>0, <2>2, <3>1, <3>2, <3>3, EndsInFacts DEF QueueType
    <3>5. EndsWith(pending', executed', strings', <<"order", event.id>>, "closed")
      BY <2>2, <2>3, <2>4, <3>2
    <3>6. \A i \in 1 .. Len(pending') : pending'[i].op = "srem"
      <4>1. /\ Len(pending) \in Nat /\ Len(pending') = Len(pending) + 1
            /\ \A i \in 1 .. Len(pending) : pending'[i] = pending[i]
            /\ pending'[Len(pending) + 1] = cmd
        BY <1>0, <2>2, <3>1, AppendFacts DEF QueueType
      <4>2. \A i \in 1 .. Len(pending') : i \in 1 .. Len(pending) \/ i = Len(pending) + 1
        BY <4>1
      <4>. QED
        BY <2>2, <3>2, <4>1, <4>2
    <3>. QED
      BY <2>1, <3>4, <3>5, <3>6 DEF CloseInv
  <2>. QED
    BY <2>3, <2>4
<1>9. CASE Notify
  <2>1. UNCHANGED redisVars /\ UNCHANGED worldVars /\ pc = "notify" /\ pc' = "idle"
    BY <1>9 DEF Notify, Return
  <2>2. CloseInv'
    BY <2>1 DEF CloseInv, Stored
  <2>. QED
    BY <2>1, <2>2, SameQueueLatestInv DEF redisVars, queueVars, serverVars, worldVars
<1>. QED
  BY <1>1, <1>2, <1>3, <1>4, <1>5, <1>6, <1>7, <1>8, <1>9 DEF TradeStep

\* The tick handler stores no order's text; its stages are not those of a
\* change.
LEMMA TickLatestInv ==
  ASSUME LatestInv, MirrorInv', MarginStep \/ RefreshStep
  PROVE  FeedInv' /\ TickOnly' /\ (~ lossy' => TextInv' /\ CloseInv')
<1>0. PumpTypes
  BY DEF LatestInv, MirrorInv
<1>1. pc # "record" /\ pc' \notin {"record"} \cup Stored /\ UNCHANGED worldVars
  BY DEF MarginStep, RefreshStep, Tick, SetMargin, MarginFails, MarginsSet,
     PurgeWorking, Purged, CommitMargins, UsersNotDue, UsersDue, SetSummary,
     SummaryFails, SummariesSet, RefreshProfit, RefreshWorking, Refreshed,
     Goto, Loop, Return, Stored, worldVars
<1>2. CloseInv' /\ pc' # "record"
  BY <1>1 DEF CloseInv
<1>3. ASSUME NEW cmd \in Commands, NEW commit \in BOOLEAN, Command(cmd, commit),
             Harmless(cmd), commit \/ cmd.op = "set"
      PROVE  FeedInv' /\ TickOnly' /\ (~ lossy' => TextInv')
  BY <1>1, <1>2, <1>3, CommandLatestInv DEF Command
<1>4. ASSUME UNCHANGED redisVars PROVE FeedInv' /\ TickOnly' /\ (~ lossy' => TextInv')
  BY <1>1, <1>2, <1>4, SameQueueLatestInv DEF redisVars, queueVars, serverVars, worldVars
<1>5. ASSUME CacheCommit PROVE FeedInv' /\ TickOnly' /\ (~ lossy' => TextInv')
  <2>1. FeedInv'
    BY <1>1 DEF LatestInv, FeedInv, worldVars
  <2>2. TickOnly'
    <3>1. Len(pending) \in Nat
      BY <1>0, LenProperties DEF PumpTypes, QueueType
    <3>. QED
      BY <1>5, <3>1 DEF CacheCommit, TickOnly
  <2>3. ~ lossy' => TextInv'
    BY <1>1, <1>2, <1>5 DEF CacheCommit, LatestInv, TextInv, worldVars, serverVars
  <2>. QED
    BY <2>1, <2>2, <2>3
<1>6. CASE SetMargin \/ SetSummary
  <2>1. PICK l \in todo, v \in {"level", "summary"} : CacheSet(<<"margin", l>>, v, FALSE)
    BY <1>6 DEF SetMargin, SetSummary
  <2> DEFINE cmd == [op |-> "set", key |-> <<"margin", l>>, value |-> v]
  <2>2. l \in Logins
    BY <1>0, <1>6 DEF SetMargin, SetSummary, PumpTypes, StageType
  <2>3. cmd \in Commands /\ Command(cmd, FALSE) /\ cmd.op = "set" /\ Harmless(cmd)
    BY <2>1, <2>2, KeyTypes, ValuesAssumption, CommandTypes DEF CacheSet, Harmless
  <2>. QED
    BY <1>2, <1>3, <2>3
<1>7. CASE PurgeWorking
  <2>1. PICK l \in todo : CacheClear(Working(l))
    BY <1>7 DEF PurgeWorking
  <2> DEFINE cmd == [op |-> "del", key |-> Working(l)]
  <2>2. l \in Logins
    BY <1>0, <1>7 DEF PurgeWorking, PumpTypes, StageType
  <2>3. cmd \in Commands /\ Command(cmd, TRUE) /\ Harmless(cmd)
    BY <2>1, <2>2, KeyTypes, CommandTypes DEF CacheClear, Harmless
  <2>. QED
    BY <1>2, <1>3, <2>3
<1>8. CASE RefreshProfit
  <2>1. PICK o \in todo : CacheSet(<<"orderpl", o>>, "profit", FALSE)
    BY <1>8 DEF RefreshProfit
  <2> DEFINE cmd == [op |-> "set", key |-> <<"orderpl", o>>, value |-> "profit"]
  <2>2. o \in Orders
    BY <1>0, <1>8 DEF RefreshProfit, PumpTypes, StageType
  <2>3. cmd \in Commands /\ Command(cmd, FALSE) /\ cmd.op = "set" /\ Harmless(cmd)
    BY <2>1, <2>2, KeyTypes, ValuesAssumption, CommandTypes DEF CacheSet, Harmless
  <2>. QED
    BY <1>2, <1>3, <2>3
<1>9. CASE RefreshWorking
  <2> DEFINE cmd == [op |-> "sadd", key |-> Working(Owner[event.id]), members |-> {event.id}]
  <2>1. event.id \in Orders
    BY <1>0, <1>9 DEF RefreshWorking, PumpTypes, StageType
  <2>2. cmd \in Commands /\ Command(cmd, TRUE) /\ Harmless(cmd)
    BY <1>9, <2>1, KeyTypes, CommandTypes DEF RefreshWorking, CacheSAdd, Harmless
  <2>. QED
    BY <1>2, <1>3, <2>2
<1>10. CASE Tick \/ MarginFails \/ MarginsSet \/ Purged \/ UsersNotDue \/ UsersDue
            \/ SummaryFails \/ SummariesSet
  BY <1>2, <1>4, <1>10 DEF Tick, MarginFails, MarginsSet, Purged, UsersNotDue, UsersDue,
       SummaryFails, SummariesSet
<1>11. CASE CommitMargins \/ Refreshed
  BY <1>2, <1>4, <1>5, <1>11 DEF CommitMargins, Refreshed
<1>. QED
  BY <1>6, <1>7, <1>8, <1>9, <1>10, <1>11 DEF MarginStep, RefreshStep

\* Redis executes the queue in order, and from its start again when the
\* connection comes back: what a key ends with stays the same.
LEMMA RedisLatestInv ==
  ASSUME LatestInv, MirrorInv', RedisStep, UNCHANGED <<worldVars, pumpVars>>
  PROVE  FeedInv' /\ TickOnly' /\ (~ lossy' => TextInv' /\ CloseInv')
<1>0. /\ QueueType /\ QueueType' /\ Len(pending) \in Nat
      /\ UNCHANGED <<pc, event, feed, trade, changed>>
      /\ (pc \in Stored /\ event.value = "closed" => event.id \in Orders)
  BY LenProperties, ChangeTypes DEF LatestInv, MirrorInv, PumpTypes, QueueType, StageType,
     Closing, Stored, pumpVars, worldVars
<1>1. FeedInv'
  BY <1>0 DEF LatestInv, FeedInv
<1>2. ASSUME \A o \in Orders : \A v : EndsWith(pending, executed, strings, <<"order", o>>, v)
                => EndsWith(pending', executed', strings', <<"order", o>>, v)
      PROVE  ~ lossy => TextInv'
  BY <1>0, <1>2 DEF LatestInv, TextInv
<1>3. ASSUME \A o \in Orders : \A v : EndsWith(pending, executed, strings, <<"order", o>>, v)
                => EndsWith(pending', executed', strings', <<"order", o>>, v),
             \A o \in Orders : EndsIn(pending, executed, sets, Closed(Owner[o]), o)
                => EndsIn(pending', executed', sets', Closed(Owner[o]), o),
             (pc = "await" /\ answer' = "found") =>
               (answer = "found" /\ pending' = pending) \/ pending' = <<>>,
             (\A i \in 1 .. Len(pending) : pending[i].op = "srem") =>
               \A i \in 1 .. Len(pending') : pending'[i].op = "srem"
      PROVE  ~ lossy => CloseInv'
  BY <1>0, <1>3 DEF LatestInv, CloseInv, Stored
<1>4. CASE Execute
  <2> DEFINE n == executed + 1
             cmd == pending[n]
  <2>1. n \in 1 .. Len(pending) /\ executed \in Nat /\ executed < Len(pending) /\ executed' = n
        /\ UNCHANGED <<link, pending, written, answer, lossy>>
    BY <1>0, <1>4 DEF Execute, QueueType, queueVars
  <2>2. cmd \in Commands /\ Apply(cmd)
    BY <1>0, <1>4, <2>1, ElementOfSeq DEF Execute, QueueType
  <2>3. strings' = IF cmd.op = "set" THEN [strings EXCEPT ![cmd.key] = cmd.value] ELSE strings
    BY <2>2 DEF Apply, Commands
  <2>4. ASSUME NEW o \in Orders, NEW v, EndsWith(pending, executed, strings, <<"order", o>>, v)
        PROVE  EndsWith(pending', executed', strings', <<"order", o>>, v)
    BY <1>0, <2>1, <2>3, <2>4, KeyTypes, EndsExecute DEF QueueType
  <2>5. ASSUME NEW o \in Orders, EndsIn(pending, executed, sets, Closed(Owner[o]), o)
        PROVE  EndsIn(pending', executed', sets', Closed(Owner[o]), o)
    <3> DEFINE k == Closed(Owner[o])
    <3>1. sets[k] \subseteq sets'[k] /\ k \in SetKeys
      BY <1>4, ClosedGrows, KeyTypes DEF LatestInv
    <3>2. ASSUME cmd.op = "sadd", cmd.key = k, o \in cmd.members PROVE o \in sets'[k]
      BY <1>0, <2>2, <3>1, <3>2 DEF Apply, QueueType
    <3> HIDE DEF k
    <3>3. EndsIn(pending, executed, sets, k, o) => EndsIn(pending', executed', sets', k, o)
      <4>1. CASE o \in sets[k]
        BY <3>1, <4>1 DEF EndsIn
      <4>2. ASSUME NEW j \in executed + 1 .. Len(pending),
                   pending[j].op = "sadd", pending[j].key = k, o \in pending[j].members
            PROVE  EndsIn(pending', executed', sets', k, o)
        <5>1. CASE j = n
          BY <3>2, <4>2, <5>1 DEF EndsIn
        <5>2. CASE j # n
          <6>1. j \in executed' + 1 .. Len(pending')
            BY <1>0, <2>1, <5>2
          <6>. QED
            BY <2>1, <4>2, <6>1 DEF EndsIn
        <5>. QED
          BY <5>1, <5>2
      <4>. QED
        BY <4>1, <4>2 DEF EndsIn
    <3>. QED
      BY <2>5, <3>3 DEF k
  <2>6. TickOnly'
    BY <2>1 DEF LatestInv, TickOnly
  <2>. QED
    BY <1>1, <1>2, <1>3, <2>1, <2>4, <2>5, <2>6
<1>5. CASE Reply
  <2>1. pending # <<>> /\ executed > 0 /\ executed \in Nat /\ executed <= Len(pending)
    BY <1>0, <1>5, EmptySeq DEF Reply, QueueType
  <2>2. /\ pending' = Tail(pending) /\ Len(pending') = Len(pending) - 1
        /\ \A i \in 1 .. Len(pending) - 1 : pending'[i] = pending[i + 1]
        /\ Head(pending) = pending[1] /\ (pending' = <<>> <=> Len(pending) = 1)
    BY <1>0, <1>5, <2>1, TailFacts DEF Reply, QueueType
  <2>3. UNCHANGED <<link, strings, sets, lossy>> /\ executed' = executed - 1
        /\ written' = written - 1
        /\ answer' = IF pending[1].op = "sinter" THEN "found" ELSE answer
    BY <1>5, <2>2 DEF Reply
  <2>4. ASSUME NEW o \in Orders, NEW v, EndsWith(pending, executed, strings, <<"order", o>>, v)
        PROVE  EndsWith(pending', executed', strings', <<"order", o>>, v)
    BY <1>0, <2>1, <2>2, <2>3, <2>4, EndsTail DEF QueueType
  <2>5. ASSUME NEW o \in Orders, EndsIn(pending, executed, sets, Closed(Owner[o]), o)
        PROVE  EndsIn(pending', executed', sets', Closed(Owner[o]), o)
    BY <1>0, <2>1, <2>2, <2>3, <2>5, EndsInFacts DEF QueueType
  <2>6. TickOnly'
    <3> SUFFICES ASSUME link = "up", NEW i \in written' + 1 .. Len(pending')
                 PROVE  pending'[i].op = "set" /\ \A o \in Orders : pending'[i].key # <<"order", o>>
      BY <2>3 DEF TickOnly
    <3>1. i + 1 \in written + 1 .. Len(pending) /\ i \in 1 .. Len(pending) - 1
      BY <1>0, <2>2, <2>3 DEF QueueType
    <3>. QED
      BY <2>2, <3>1 DEF LatestInv, TickOnly
  <2>7. pc = "await" /\ answer' = "found" /\ ~ lossy /\ event.value = "closed" => pending' = <<>>
    <3>1. CASE pending[1].op = "sinter"
      <4>1. 1 \in Waiting("sinter")
        BY <1>0, <2>1, <3>1 DEF Waiting
      <4>. QED
        BY <2>2, <4>1 DEF LatestInv, MirrorInv, SetInv
    <3>2. CASE pending[1].op # "sinter"
      BY <2>1, <2>3, <3>2 DEF LatestInv, CloseInv, Stored
    <3>. QED
      BY <3>1, <3>2
  <2>8. (\A i \in 1 .. Len(pending) : pending[i].op = "srem") =>
          \A i \in 1 .. Len(pending') : pending'[i].op = "srem"
    <3>1. \A i \in 1 .. Len(pending') : i + 1 \in 1 .. Len(pending) /\ pending'[i] = pending[i + 1]
      BY <1>0, <2>2
    <3>. QED
      BY <3>1
  <2>9. ~ lossy => CloseInv'
    BY <1>0, <2>4, <2>5, <2>7, <2>8 DEF LatestInv, CloseInv, Stored
  <2>. QED
    BY <1>1, <1>2, <2>3, <2>4, <2>6, <2>9
<1>6. CASE DropLink \/ Reconnect
  <2>1. UNCHANGED <<pending, strings, sets, answer, lossy>> /\ executed' \in {0, executed}
        /\ (link' = "up" => written' = Len(pending))
    BY <1>6 DEF DropLink, Reconnect, serverVars
  <2>2. executed \in Nat /\ executed <= Len(pending)
    BY <1>0 DEF QueueType
  <2>3. TickOnly'
    BY <1>0, <2>1 DEF TickOnly
  <2>4. ASSUME NEW o \in Orders, NEW v, EndsWith(pending, executed, strings, <<"order", o>>, v)
        PROVE  EndsWith(pending', executed', strings', <<"order", o>>, v)
    BY <1>0, <2>1, <2>2, <2>4, EndsRestart DEF QueueType
  <2>5. ASSUME NEW o \in Orders, EndsIn(pending, executed, sets, Closed(Owner[o]), o)
        PROVE  EndsIn(pending', executed', sets', Closed(Owner[o]), o)
    BY <1>0, <2>1, <2>2, <2>5, EndsInFacts DEF QueueType
  <2>. QED
    BY <1>1, <1>2, <1>3, <2>1, <2>3, <2>4, <2>5
<1>7. CASE GiveUp
  BY <1>1, <1>7 DEF GiveUp, TickOnly
<1>. QED
  BY <1>4, <1>5, <1>6, <1>7 DEF RedisStep

-----------------------------------------------------------------------------
\* At the start no order has changed, and no command is under way.
LEMMA LatestInit == Init => LatestInv
<1> SUFFICES ASSUME Init PROVE LatestInv
  OBVIOUS
<1>1. MirrorInv
  BY MirrorInit
<1>2. Len(feed) = 0 /\ Len(pending) = 0
  BY EmptySeq DEF Init, RedisInit
<1>3. FeedInv /\ TickOnly /\ CloseInv
  BY <1>2 DEF Init, RedisInit, FeedInv, TickOnly, CloseInv, Stored
<1>4. TextInv
  BY DEF Init, TextInv
<1>. QED
  BY <1>1, <1>3, <1>4 DEF LatestInv

\* Every step keeps the last write of an order the one of its latest report.
LEMMA LatestStep == LatestInv /\ [Next]_vars => LatestInv'
<1> SUFFICES ASSUME LatestInv, [Next]_vars PROVE LatestInv'
  OBVIOUS
<1>1. MirrorInv'
  BY MirrorStep DEF LatestInv
<1>2. CASE UNCHANGED vars
  BY <1>1, <1>2 DEF vars, redisVars, queueVars, serverVars, worldVars, pumpVars,
     LatestInv, FeedInv, TickOnly, TextInv, CloseInv
<1>3. CASE RedisStep /\ UNCHANGED <<worldVars, pumpVars>>
  BY <1>1, <1>3, RedisLatestInv DEF LatestInv
<1>4. CASE WorldStep
  BY <1>1, <1>4, WorldLatestInv DEF LatestInv
<1>5. CASE TradeStep
  BY <1>1, <1>5, TradeLatestInv DEF LatestInv
<1>6. CASE MarginStep \/ RefreshStep
  BY <1>1, <1>6, TickLatestInv DEF LatestInv
<1>. QED
  BY <1>2, <1>3, <1>4, <1>5, <1>6 DEF Next

\* When nothing is under way, the text Redis holds of an order that has changed
\* since pumping began is its state on the server, whatever was executed twice
\* around reconnections and whatever orders and texts there were before.
THEOREM TextIsState == Spec => []RecordIsLatest
<1>1. LatestInv => RecordIsLatest
  <2> SUFFICES ASSUME LatestInv, Quiet, ~ lossy, NEW o \in Orders, o \in changed
               PROVE  strings[<<"order", o>>] = trade[o]
    BY DEF RecordIsLatest, LatestInv, MirrorInv, PumpTypes, WorldType
  <2>1. Len(feed) = 0 /\ written = 0 /\ executed = 0 /\ Len(pending) \in Nat
    BY EmptySeq, LenProperties DEF Quiet, LatestInv, MirrorInv, PumpTypes, QueueType
  <2>2. EndsWith(pending, executed, strings, <<"order", o>>, trade[o])
    BY <2>1 DEF LatestInv, TextInv, Quiet
  <2>3. \A i \in 0 + 1 .. Len(pending) : pending[i].key # <<"order", o>>
    BY <2>1 DEF LatestInv, TickOnly, Quiet
  <2>. QED
    BY <2>1, <2>2, <2>3 DEF EndsWith, SetsTo
<1>. QED
  BY <1>1, LatestInit, LatestStep, PTL DEF Spec

\* Whoever is told that an order closed finds it closed in Redis: waiting for
\* the answer to SINTER waits for everything sent before it.
THEOREM ToldAfterStored == Spec => []NoticeAfterClose
<1>1. LatestInv => NoticeAfterClose
  <2> SUFFICES ASSUME LatestInv, pc \in {"remove", "notify"}, event.value = "closed", ~ lossy
               PROVE  /\ event.id \in sets[Closed(Owner[event.id])]
                      /\ strings[<<"order", event.id>>] = "closed"
    BY DEF NoticeAfterClose
  <2>1. /\ EndsWith(pending, executed, strings, <<"order", event.id>>, "closed")
        /\ EndsIn(pending, executed, sets, Closed(Owner[event.id]), event.id)
        /\ \A i \in 1 .. Len(pending) : pending[i].op = "srem"
    BY DEF LatestInv, CloseInv, Stored
  <2>2. \A i \in executed + 1 .. Len(pending) : i \in 1 .. Len(pending)
    BY LenProperties DEF LatestInv, MirrorInv, PumpTypes, QueueType
  <2>3. \A i \in executed + 1 .. Len(pending) : pending[i].op = "srem"
    BY <2>1, <2>2
  <2>. QED
    BY <2>1, <2>3 DEF EndsWith, EndsIn, SetsTo
<1>. QED
  BY <1>1, LatestInit, LatestStep, PTL DEF Spec
=============================================================================
