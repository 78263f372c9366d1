--------------------------- MODULE WorkingSetProofs ---------------------------
(***************************************************************************)
(* The working sets agree with the server's open orders (the invariant     *)
(* WorkingMatchesOpen of PumpManager), for any orders and accounts and any *)
(* number of lost connections.                                             *)
(***************************************************************************)
EXTENDS MirrorProofs

USE DEF Orders

W(o) == Working(Owner[o])
C(o) == Closed(Owner[o])

(***************************************************************************)
(* What a command does to an order's place in the working set of its       *)
(* account, and where the order will be: as EndsWith says it of texts.     *)
(***************************************************************************)
Effect(cmd, o) ==
  CASE cmd.op = "sadd" /\ cmd.key = W(o) /\ o \in cmd.members -> "in"
    [] cmd.op = "srem" /\ cmd.key = W(o) /\ o \in cmd.members -> "out"
    [] cmd.op = "del" /\ cmd.key = W(o) -> "out"
    [] OTHER -> "none"

Side(members, o) == IF o \in members[W(o)] THEN "in" ELSE "out"

EndsAt(q, done, members, o, v) ==
  /\ \A i \in 1 .. Len(q) :
       Effect(q[i], o) \in {"in", "out"} \ {v} =>
         \E j \in i + 1 .. Len(q) : Effect(q[j], o) = v
  /\ Side(members, o) = v \/ \E j \in done + 1 .. Len(q) : Effect(q[j], o) = v

\* Every command does one of the three.
LEMMA EffectType == \A cmd, o : Effect(cmd, o) \in {"in", "out", "none"}
  BY DEF Effect

\* Queueing a command that puts the order where it will be, or does not move it.
LEMMA EndsAtAppend ==
  ASSUME NEW q \in Seq(Commands), NEW cmd \in Commands, NEW done \in Nat, done <= Len(q),
         NEW members, NEW o, NEW v \in {"in", "out"},
         \/ Effect(cmd, o) = v
         \/ Effect(cmd, o) = "none" /\ EndsAt(q, done, members, o, v)
  PROVE  EndsAt(Append(q, cmd), done, members, o, v)
<1> DEFINE p == Append(q, cmd)
<1>1. /\ Len(q) \in Nat /\ Len(p) = Len(q) + 1
      /\ \A i \in 1 .. Len(q) : p[i] = q[i]
      /\ p[Len(q) + 1] = cmd
  BY AppendFacts
<1> HIDE DEF p
<1>2. CASE Effect(cmd, o) = v
  <2>1. Len(p) \in done + 1 .. Len(p) /\ Effect(p[Len(p)], o) = v
    BY <1>1, <1>2
  <2>2. \A i \in 1 .. Len(p) : i = Len(p) \/ Len(p) \in i + 1 .. Len(p)
    BY <1>1
  <2>3. EndsAt(p, done, members, o, v)
    BY <2>1, <2>2 DEF EndsAt
  <2>. QED
    BY <2>3 DEF p
<1>3. CASE Effect(cmd, o) = "none" /\ EndsAt(q, done, members, o, v)
  <2>1. ASSUME NEW i \in Nat, NEW j \in i + 1 .. Len(q), Effect(q[j], o) = v
        PROVE  j \in i + 1 .. Len(p) /\ Effect(p[j], o) = v
    <3>1. j \in i + 1 .. Len(p) /\ p[j] = q[j]
      BY <1>1
    <3>. QED
      BY <2>1, <3>1
  <2>2. ASSUME NEW i \in 1 .. Len(p), Effect(p[i], o) \in {"in", "out"} \ {v}
        PROVE  \E j \in i + 1 .. Len(p) : Effect(p[j], o) = v
    <3>1. i # Len(q) + 1
      BY <1>1, <1>3, <2>2
    <3>2. i \in 1 .. Len(q) /\ i \in Nat /\ p[i] = q[i]
      BY <1>1, <3>1
    <3>3. PICK j \in i + 1 .. Len(q) : Effect(q[j], o) = v
      BY <1>3, <2>2, <3>2 DEF EndsAt
    <3>. QED
      BY <2>1, <3>2, <3>3
  <2>3. EndsAt(p, done, members, o, v)
    BY <1>3, <2>1, <2>2 DEF EndsAt
  <2>. QED
    BY <2>3 DEF p
<1>. QED
  BY <1>2, <1>3

\* Dropping a command that was executed and answered.
LEMMA EndsAtTail ==
  ASSUME NEW q \in Seq(Commands), NEW done \in Nat, done > 0, done <= Len(q),
         NEW members, NEW o, NEW v, EndsAt(q, done, members, o, v)
  PROVE  EndsAt(Tail(q), done - 1, members, o, v)
<1> DEFINE p == Tail(q)
<1>0. q # <<>>
  BY EmptySeq
<1>1. /\ Len(q) \in Nat /\ Len(p) = Len(q) - 1
      /\ \A i \in 1 .. Len(q) - 1 : p[i] = q[i + 1]
  BY <1>0, TailFacts
<1> HIDE DEF p
<1>2. ASSUME NEW i \in Nat, NEW j \in i + 1 .. Len(q), j > 1, Effect(q[j], o) = v
      PROVE  j - 1 \in i .. Len(p) /\ Effect(p[j - 1], o) = v
  <2>1. j - 1 \in i .. Len(p) /\ j - 1 \in 1 .. Len(q) - 1 /\ (j - 1) + 1 = j
    BY <1>1, <1>2
  <2>. QED
    BY <1>1, <1>2, <2>1
<1>3. ASSUME NEW i \in 1 .. Len(p), Effect(p[i], o) \in {"in", "out"} \ {v}
      PROVE  \E j \in i + 1 .. Len(p) : Effect(p[j], o) = v
  <2>1. i + 1 \in 1 .. Len(q) /\ i + 1 \in Nat /\ p[i] = q[i + 1]
    BY <1>1
  <2>2. PICK j \in (i + 1) + 1 .. Len(q) : Effect(q[j], o) = v
    BY <1>3, <2>1 DEF EndsAt
  <2>3. j - 1 \in i + 1 .. Len(p) /\ Effect(p[j - 1], o) = v
    BY <1>1, <1>2, <2>1, <2>2
  <2>. QED
    BY <2>3
<1>4. Side(members, o) = v \/ \E j \in (done - 1) + 1 .. Len(p) : Effect(p[j], o) = v
  <2>1. CASE \E j \in done + 1 .. Len(q) : Effect(q[j], o) = v
    <3>1. PICK j \in done + 1 .. Len(q) : Effect(q[j], o) = v
      BY <2>1
    <3>2. j - 1 \in done .. Len(p) /\ Effect(p[j - 1], o) = v
      BY <1>1, <1>2, <3>1
    <3>. QED
      BY <3>2
  <2>. QED
    BY <2>1 DEF EndsAt
<1>5. EndsAt(p, done - 1, members, o, v)
  BY <1>3, <1>4 DEF EndsAt
<1>. QED
  BY <1>5 DEF p

\* Executing everything again from the start.
LEMMA EndsAtRestart ==
  ASSUME NEW q \in Seq(Commands), NEW done \in Nat, NEW members, NEW o, NEW v,
         EndsAt(q, done, members, o, v)
  PROVE  EndsAt(q, 0, members, o, v)
<1>1. ASSUME NEW j \in done + 1 .. Len(q) PROVE j \in 0 + 1 .. Len(q)
  BY LenProperties
<1>. QED
  BY <1>1 DEF EndsAt

\* What Redis does with the next command is its effect.
LEMMA SideAfter ==
  ASSUME QueueType, NEW cmd \in Commands, Apply(cmd), NEW o \in Orders
  PROVE  Side(sets', o) = IF Effect(cmd, o) = "none" THEN Side(sets, o) ELSE Effect(cmd, o)
<1>0. W(o) \in SetKeys /\ sets \in [SetKeys -> SUBSET Members]
  BY KeyTypes DEF QueueType, W
<1>1. CASE cmd.op \in {"set", "sinter"}
  <2>1. sets' = sets
    BY <1>1 DEF Apply
  <2>. QED
    BY <1>1, <2>1 DEF Side, Effect
<1>2. CASE cmd.op = "sadd"
  <2>1. sets' = [sets EXCEPT ![cmd.key] = @ \cup cmd.members]
    BY <1>2 DEF Apply
  <2>2. sets'[W(o)] = IF cmd.key = W(o) THEN sets[W(o)] \cup cmd.members ELSE sets[W(o)]
    BY <1>0, <2>1
  <2>. QED
    BY <1>2, <2>2 DEF Side, Effect
<1>3. CASE cmd.op = "srem"
  <2>1. sets' = [sets EXCEPT ![cmd.key] = @ \ cmd.members]
    BY <1>3 DEF Apply
  <2>2. sets'[W(o)] = IF cmd.key = W(o) THEN sets[W(o)] \ cmd.members ELSE sets[W(o)]
    BY <1>0, <2>1
  <2>. QED
    BY <1>3, <2>2 DEF Side, Effect
<1>4. CASE cmd.op = "del"
  <2>1. sets' = [sets EXCEPT ![cmd.key] = {}]
    BY <1>4 DEF Apply
  <2>2. sets'[W(o)] = IF cmd.key = W(o) THEN {} ELSE sets[W(o)]
    BY <1>0, <2>1
  <2>. QED
    BY <1>4, <2>2 DEF Side, Effect
<1>. QED
  BY <1>1, <1>2, <1>3, <1>4 DEF Commands

\* Executing the next command, for the first time or again.
LEMMA EndsAtExecute ==
  ASSUME QueueType, executed < Len(pending), Apply(pending[executed + 1]),
         NEW o \in Orders, NEW v \in {"in", "out"},
         EndsAt(pending, executed, sets, o, v)
  PROVE  EndsAt(pending, executed + 1, sets', o, v)
<1> DEFINE n == executed + 1
<1>1. Len(pending) \in Nat /\ executed \in Nat /\ n \in 1 .. Len(pending) /\ n \in Nat
  BY LenProperties DEF QueueType
<1>2. pending[n] \in Commands
  BY <1>1, ElementOfSeq DEF QueueType
<1>3. Side(sets', o) = IF Effect(pending[n], o) = "none" THEN Side(sets, o)
                                                          ELSE Effect(pending[n], o)
  BY <1>2, SideAfter
<1>4. Side(sets', o) = v \/ \E j \in n + 1 .. Len(pending) : Effect(pending[j], o) = v
  <2>1. CASE Effect(pending[n], o) = v
    BY <1>3, <2>1
  <2>2. CASE Effect(pending[n], o) \in {"in", "out"} \ {v}
    BY <1>1, <2>2 DEF EndsAt
  <2>3. CASE Effect(pending[n], o) = "none"
    <3>1. ASSUME NEW j \in executed + 1 .. Len(pending), Effect(pending[j], o) = v
          PROVE  j \in n + 1 .. Len(pending)
      BY <1>1, <2>3, <3>1
    <3>. QED
      BY <1>3, <2>3, <3>1 DEF EndsAt
  <2>. QED
    BY <2>1, <2>2, <2>3, EffectType
<1>. QED
  BY <1>4 DEF EndsAt

-----------------------------------------------------------------------------
\* The feed has no change of o: what the server has of it was reported.
Free(o) == \A i \in 1 .. Len(feed) : ~ About(feed[i], o)

Handled == {"record", "addWorking"} \cup Closing

\* The change in PumpingFunc's hands is the last one of its order, unless
\* there is another one in the feed.
HandInv ==
  (pc \in Handled /\ event.kind = "order" /\ Free(event.id)) =>
    event.value = trade[event.id]

\* The refresh works through orders that are open or waiting, or whose end is
\* in the feed.
TodoInv ==
  /\ pc \in {"refresh", "refreshAdd"} =>
       \A o \in todo \cap Orders : Free(o) => trade[o] \in {"open", "waiting"}
  /\ pc = "refreshAdd" => event.id \in todo

\* SINTER is of the two sets of the closed order's account; the wait for it
\* fails only with the connection.
InterInv ==
  /\ \A i \in Waiting("sinter") : pending[i].keys = {W(event.id), C(event.id)}
  /\ answer = "error" => lossy

\* The intersection has the closed order, if the working set has it.
FoundInv ==
  (\/ pc = "await" /\ answer = "found"
   \/ pc = "await" /\ \E i \in Waiting("sinter") : i <= executed
   \/ pc = "remove")
  => (event.id \in sets[W(event.id)] => event.id \in inter)

\* An order that has closed, and whose close is not being handled, will be out.
OutDue(o) ==
  /\ trade[o] = "closed"
  /\ o \in changed
  /\ ~ (pc \in {"record"} \cup Closing /\ About(event, o))

\* An open order will be in, but for the exceptions of WorkingMatchesOpen,
\* and when it is still to be added.
InDue(o) ==
  /\ trade[o] = "open"
  /\ o \in placed
  /\ o \notin sets[C(o)]
  /\ ~ (pc \in {"record", "addWorking"} /\ About(event, o))
  /\ ~ (pc \in {"refresh", "refreshAdd"} /\ o \in todo)

Settled(o) ==
  Free(o) =>
    /\ OutDue(o) => EndsAt(pending, executed, sets, o, "out")
    /\ InDue(o) => EndsAt(pending, executed, sets, o, "in")

SettledInv == \A o \in Orders : Settled(o)

WorkingInv ==
  /\ LatestInv /\ HandInv /\ TodoInv /\ InterInv
  /\ ~ lossy => FoundInv /\ SettledInv

-----------------------------------------------------------------------------
\* The keys of two orders are the same for orders of one account only.
LEMMA OrderKeys ==
  /\ \A o \in Orders : W(o) \in SetKeys /\ C(o) \in SetKeys
  /\ \A o, q \in Orders : W(o) # C(q) /\ (W(o) = W(q) => C(o) = C(q))
  /\ \A o \in Orders, l \in Logins : W(o) = Working(l) <=> Owner[o] = l
  BY KeyTypes, KeysDiffer DEF W, C

\* A command is queued that takes no order the wrong way.
LEMMA CommandSettles ==
  ASSUME WorkingInv, NEW cmd \in Commands, NEW commit \in BOOLEAN, Issue(cmd, commit),
         UNCHANGED worldVars,
         ~ lossy => \A o \in Orders :
           /\ OutDue(o)' /\ Free(o) =>
                \/ Effect(cmd, o) = "out"
                \/ Effect(cmd, o) = "none" /\ EndsAt(pending, executed, sets, o, "out")
           /\ InDue(o)' /\ Free(o) =>
                \/ Effect(cmd, o) = "in"
                \/ Effect(cmd, o) = "none" /\ EndsAt(pending, executed, sets, o, "in")
  PROVE  ~ lossy' => SettledInv'
<1> SUFFICES ASSUME ~ lossy', NEW o \in Orders, Free(o) PROVE
               /\ OutDue(o)' => EndsAt(pending', executed', sets', o, "out")
               /\ InDue(o)' => EndsAt(pending', executed', sets', o, "in")
  BY DEF SettledInv, Settled, Free, worldVars
<1>1. ~ lossy /\ pending' = Append(pending, cmd) /\ UNCHANGED <<executed, sets>>
  BY DEF Issue, Queue
<1>2. pending \in Seq(Commands) /\ executed \in Nat /\ executed <= Len(pending)
  BY LenProperties DEF WorkingInv, LatestInv, MirrorInv, PumpTypes, QueueType
<1>. QED
  BY <1>1, <1>2, EndsAtAppend

\* Nothing is queued, executed or answered.
LEMMA SameQueueSettles ==
  ASSUME WorkingInv, UNCHANGED <<pending, executed, sets, lossy>>,
         \A o \in Orders : Free(o)' =>
           /\ OutDue(o)' => Free(o) /\ OutDue(o)
           /\ InDue(o)' => Free(o) /\ InDue(o)
  PROVE  ~ lossy' => SettledInv'
  BY DEF WorkingInv, SettledInv, Settled

\* What holds of SINTER and its answer where nobody waits for it.
LEMMA NobodyWaits ==
  ASSUME MirrorInv', pc' \notin {"await", "remove"} PROVE InterInv' /\ FoundInv'
  BY DEF MirrorInv, SetInv, InterInv, FoundInv

-----------------------------------------------------------------------------
\* From Take to Notify.
LEMMA TradeWorkingInv ==
  ASSUME WorkingInv, LatestInv', TradeStep
  PROVE  HandInv' /\ TodoInv' /\ InterInv' /\ (~ lossy' => FoundInv' /\ SettledInv')
<1>0. LatestInv /\ MirrorInv /\ MirrorInv' /\ PumpTypes /\ QueueType /\ StageType
  BY DEF WorkingInv, LatestInv, MirrorInv, PumpTypes
<1>1. pc' \notin {"refresh", "refreshAdd"}
  BY DEF TradeStep, Take, StoreRecord, AddWorking, AddClosed, Intersect, Await, AwaitFails,
     RemoveWorking, Notify, Goto, Return
<1>2. TodoInv'
  BY <1>1 DEF TodoInv
<1>3. ASSUME UNCHANGED <<worldVars, event>>, pc \in Handled PROVE HandInv'
  BY <1>3 DEF WorkingInv, HandInv, Free, worldVars
<1>4. ASSUME pc' \notin Handled PROVE HandInv'
  BY <1>4 DEF HandInv
<1>5. CASE Take
  <2>1. pc = "idle" /\ pc' = "record" /\ UNCHANGED <<redisVars, trade, changed, todo>>
        /\ placed' = placed \cup {o \in Orders : About(event', o)}
    BY <1>5 DEF Take, About
  <2>2. event' \in Changes /\ \A o \in Orders : Free(o)' =>
          \/ About(event', o) /\ event'.value = trade[o]
          \/ ~ About(event', o) /\ Free(o)
    BY <1>0, <1>5, TakeFacts DEF LatestInv, Free
  <2>3. HandInv'
    <3> SUFFICES ASSUME event'.kind = "order", Free(event.id)' PROVE event'.value = trade[event'.id]
      BY <2>1 DEF HandInv
    <3>1. event'.id \in Orders
      BY <2>2, ChangeTypes
    <3>2. \/ About(event', event'.id) /\ event'.value = trade[event'.id]
          \/ ~ About(event', event'.id)
      BY <2>2, <3>1 DEF Free
    <3>. QED
      BY <3>2 DEF About
  <2>4. \A o \in Orders : Free(o)' =>
           /\ OutDue(o)' => Free(o) /\ OutDue(o)
           /\ InDue(o)' => Free(o) /\ InDue(o)
    BY <2>1, <2>2 DEF OutDue, InDue, Closing, redisVars, serverVars
  <2>5. ~ lossy' => SettledInv'
    BY <2>1, <2>4, SameQueueSettles DEF redisVars, queueVars, serverVars
  <2>. QED
    BY <1>0, <1>2, <2>1, <2>3, <2>5, NobodyWaits
<1>6. CASE StoreRecord
  <2> DEFINE cmd == [op |-> "set", key |-> <<event.kind, event.id>>, value |-> event.value]
  <2>1. event \in Changes /\ pc = "record" /\ pc' \in {"addWorking", "addClosed", "notify"}
        /\ (event.value = "open" => pc' = "addWorking")
        /\ (event.value = "closed" => pc' = "addClosed")
        /\ UNCHANGED <<event, worldVars, placed, todo>>
    BY <1>0, <1>6 DEF StoreRecord, StageType, Goto
  <2>2. cmd \in Commands /\ Issue(cmd, TRUE) /\ cmd.op = "set"
    BY <1>6, <2>1, ChangeTypes, CommandTypes DEF StoreRecord, CacheSet, Command
  <2> HIDE DEF cmd
  <2>3. UNCHANGED sets
    BY <2>2 DEF Issue
  <2>4. \A o \in Orders : Free(o) =>
          (OutDue(o)' => OutDue(o)) /\ (InDue(o)' => InDue(o))
    <3> SUFFICES ASSUME NEW o \in Orders, Free(o)
                 PROVE  (OutDue(o)' => OutDue(o)) /\ (InDue(o)' => InDue(o))
      OBVIOUS
    <3>1. About(event, o) => event.value = trade[o] /\ event.value \in TradeStates \ {"none"}
      BY <2>1, ChangeTypes DEF WorkingInv, HandInv, Handled, About
    <3>. QED
      BY <2>1, <2>3, <3>1 DEF OutDue, InDue, Closing, worldVars
  <2>5. \A o : Effect(cmd, o) = "none"
    BY <2>2 DEF Effect
  <2>6. ~ lossy' => SettledInv'
    BY <2>1, <2>2, <2>4, <2>5, CommandSettles DEF WorkingInv, SettledInv, Settled
  <2>. QED
    BY <1>0, <1>2, <1>3, <2>1, <2>6, NobodyWaits DEF Handled
<1>7. CASE AddWorking
  <2> DEFINE cmd == [op |-> "sadd", key |-> Working(Owner[event.id]), members |-> {event.id}]
  <2>1. event.id \in Orders /\ event.value = "open" /\ event.kind = "order"
        /\ pc = "addWorking" /\ pc' = "notify" /\ UNCHANGED <<event, worldVars, placed, todo>>
    BY <1>0, <1>7, ChangeTypes DEF AddWorking, StageType, Goto
  <2>2. cmd \in Commands /\ Issue(cmd, TRUE)
    BY <1>7, <2>1, KeyTypes, CommandTypes DEF AddWorking, CacheSAdd, Command
  <2>3. cmd.op = "sadd" /\ cmd.key = W(event.id) /\ cmd.members = {event.id}
    BY DEF W
  <2> HIDE DEF cmd
  <2>4. Effect(cmd, event.id) = "in" /\ \A o : o # event.id => Effect(cmd, o) = "none"
    BY <2>3 DEF Effect
  <2>5. UNCHANGED sets
    BY <2>2 DEF Issue
  <2>6. ASSUME NEW o \in Orders, Free(o)
        PROVE  /\ OutDue(o)' => o # event.id /\ OutDue(o)
               /\ InDue(o)' => o = event.id \/ InDue(o)
    <3>1. o = event.id => trade[o] = "open"
      BY <2>1, <2>6 DEF WorkingInv, HandInv, Handled
    <3>. QED
      BY <2>1, <2>5, <3>1 DEF OutDue, InDue, Closing, worldVars, About
  <2>7. ~ lossy' => SettledInv'
    BY <2>1, <2>2, <2>4, <2>6, CommandSettles DEF WorkingInv, SettledInv, Settled
  <2>. QED
    BY <1>0, <1>2, <1>3, <2>1, <2>7, NobodyWaits DEF Handled
<1>8. CASE AddClosed
  <2> DEFINE cmd == [op |-> "sadd", key |-> Closed(Owner[event.id]), members |-> {event.id}]
  <2>1. event.id \in Orders
        /\ pc = "addClosed" /\ pc' = "intersect" /\ UNCHANGED <<event, worldVars, placed, todo>>
    BY <1>0, <1>8, ChangeTypes DEF AddClosed, StageType, Goto, Closing
  <2>2. cmd \in Commands /\ Issue(cmd, TRUE)
    BY <1>8, <2>1, KeyTypes, CommandTypes DEF AddClosed, CacheSAdd, Command
  <2>3. cmd.op = "sadd" /\ cmd.key = C(event.id)
    BY DEF C
  <2> HIDE DEF cmd
  <2>4. \A o \in Orders : Effect(cmd, o) = "none"
    BY <2>1, <2>3, OrderKeys DEF Effect
  <2>5. UNCHANGED sets
    BY <2>2 DEF Issue
  <2>6. \A o \in Orders : (OutDue(o)' => OutDue(o)) /\ (InDue(o)' => InDue(o))
    BY <2>1, <2>5 DEF OutDue, InDue, Closing, worldVars
  <2>7. ~ lossy' => SettledInv'
    BY <2>1, <2>2, <2>4, <2>6, CommandSettles DEF WorkingInv, SettledInv, Settled
  <2>. QED
    BY <1>0, <1>2, <1>3, <2>1, <2>7, NobodyWaits DEF Handled, Closing
<1>9. CASE Intersect
  <2> DEFINE ks == {Working(Owner[event.id]), Closed(Owner[event.id])}
             cmd == [op |-> "sinter", keys |-> ks]
  <2>1. event.id \in Orders
        /\ pc = "intersect" /\ pc' = "await" /\ UNCHANGED <<event, worldVars, placed, todo>>
    BY <1>0, <1>9, ChangeTypes DEF Intersect, StageType, Goto, Closing
  <2>2. ks \in SUBSET SetKeys /\ ks = {W(event.id), C(event.id)}
    BY <2>1, KeyTypes DEF W, C
  <2>3. cmd \in Commands /\ Issue(cmd, TRUE) /\ cmd.op = "sinter" /\ cmd.keys = ks
    BY <1>9, <2>2, CommandTypes DEF Intersect, CacheSInter
  <2>4. (link = "up" /\ answer' = "awaited") \/ (link # "up" /\ answer' = "found" /\ lossy')
    BY <1>9 DEF Intersect, CacheSInter, Issue
  <2> HIDE DEF cmd, ks
  <2>5. Waiting("sinter") = {} /\ UNCHANGED <<sets, executed>>
    BY <1>0, <2>1, <2>3 DEF MirrorInv, SetInv, Issue
  <2>6. /\ \A i \in Waiting("sinter")' : pending'[i].keys = {W(event.id), C(event.id)}
        /\ ~ \E i \in Waiting("sinter")' : i <= executed'
    <3>1. CASE link = "up"
      <4>1. pending' = Append(pending, cmd)
        BY <2>3, <3>1 DEF Issue, Queue
      <4>2. /\ Len(pending) \in Nat /\ Len(pending') = Len(pending) + 1
            /\ \A i \in 1 .. Len(pending) : pending'[i] = pending[i]
            /\ pending'[Len(pending) + 1] = cmd
        BY <1>0, <2>3, <4>1, AppendFacts DEF QueueType
      <4>3. \A i \in 1 .. Len(pending') : i \in 1 .. Len(pending) \/ i = Len(pending) + 1
        BY <4>2
      <4>4. \A i \in Waiting("sinter")' : i = Len(pending) + 1
        BY <2>5, <4>2, <4>3 DEF Waiting
      <4>5. executed \in Nat /\ executed <= Len(pending)
        BY <1>0, <4>2 DEF QueueType
      <4>. QED
        BY <2>2, <2>3, <2>5, <4>2, <4>4, <4>5
    <3>2. CASE link # "up"
      <4>1. UNCHANGED pending
        BY <2>3, <3>2 DEF Issue, queueVars
      <4>. QED
        BY <2>5, <4>1 DEF Waiting
    <3>. QED
      BY <3>1, <3>2
  <2>7. InterInv'
    BY <2>1, <2>4, <2>6 DEF InterInv
  <2>8. ~ lossy' => FoundInv'
    BY <2>1, <2>4, <2>6 DEF FoundInv
  <2>9. \A o \in Orders : Effect(cmd, o) = "none"
    BY <2>3 DEF Effect
  <2>10. \A o \in Orders : (OutDue(o)' => OutDue(o)) /\ (InDue(o)' => InDue(o))
    BY <2>1, <2>5 DEF OutDue, InDue, Closing, worldVars
  <2>11. ~ lossy' => SettledInv'
    BY <2>1, <2>3, <2>9, <2>10, CommandSettles DEF WorkingInv, SettledInv, Settled
  <2>. QED
    BY <1>2, <1>3, <2>1, <2>7, <2>8, <2>11 DEF Handled, Closing
<1>10. CASE Await
  <2>1. pc = "await" /\ pc' = "remove" /\ answer = "found" /\ answer' = "none"
        /\ UNCHANGED <<event, worldVars, placed, todo, pending, executed, sets, inter, lossy>>
    BY <1>10 DEF Await, Goto, queueVars, serverVars
  <2>2. InterInv' /\ (~ lossy' => FoundInv')
    BY <1>0, <2>1 DEF WorkingInv, InterInv, FoundInv, MirrorInv, SetInv, Waiting
  <2>3. \A o \in Orders : Free(o)' =>
           /\ OutDue(o)' => Free(o) /\ OutDue(o)
           /\ InDue(o)' => Free(o) /\ InDue(o)
    BY <2>1 DEF OutDue, InDue, Closing, worldVars, Free
  <2>4. ~ lossy' => SettledInv'
    BY <2>1, <2>3, SameQueueSettles
  <2>. QED
    BY <1>2, <1>3, <2>1, <2>2, <2>4 DEF Handled, Closing
<1>11. CASE AwaitFails
  <2>1. pc' = "idle" /\ answer = "error" /\ UNCHANGED lossy
    BY <1>11 DEF AwaitFails, Return
  <2>2. lossy'
    BY <2>1 DEF WorkingInv, InterInv
  <2>. QED
    BY <1>0, <1>2, <1>4, <2>1, <2>2, NobodyWaits DEF Handled, Closing
<1>12. CASE RemoveWorking
  <2> DEFINE cmd == [op |-> "srem", key |-> Working(Owner[event.id]), members |-> inter]
  <2>1. event.id \in Orders /\ event.value = "closed" /\ inter \in SUBSET Members
        /\ pc = "remove" /\ pc' = "notify" /\ UNCHANGED <<event, worldVars, placed, todo>>
    BY <1>0, <1>12, ChangeTypes DEF RemoveWorking, StageType, Goto, Closing, QueueType
  <2>2. cmd \in Commands /\ Issue(cmd, TRUE)
    BY <1>12, <2>1, KeyTypes, CommandTypes DEF RemoveWorking, CacheSDel, Command
  <2>3. cmd.op = "srem" /\ cmd.key = W(event.id) /\ cmd.members = inter
    BY DEF W
  <2> HIDE DEF cmd
  <2>4. UNCHANGED sets
    BY <2>2 DEF Issue
  <2>5. inter \subseteq sets[C(event.id)]
    BY <1>0, <2>1 DEF MirrorInv, SetInv, ClosedSet, C
  <2>6. ASSUME ~ lossy, NEW o \in Orders, OutDue(o)', Free(o)
        PROVE  \/ Effect(cmd, o) = "out"
               \/ Effect(cmd, o) = "none" /\ EndsAt(pending, executed, sets, o, "out")
    <3>1. Effect(cmd, o) \in {"out", "none"}
      BY <2>3 DEF Effect
    <3>2. CASE o # event.id
      <4>1. OutDue(o)
        BY <2>1, <2>6, <3>2 DEF OutDue, worldVars, About
      <4>. QED
        BY <2>6, <3>1, <4>1 DEF WorkingInv, SettledInv, Settled
    <3>3. CASE o = event.id /\ o \in inter
      BY <2>3, <3>3 DEF Effect
    <3>4. CASE o = event.id /\ o \notin inter
      <4>1. o \notin sets[W(o)]
        BY <2>1, <2>6, <3>4 DEF WorkingInv, FoundInv
      <4>2. \A i \in 1 .. Len(pending) : pending[i].op = "srem"
        BY <1>0, <2>1, <2>6 DEF LatestInv, CloseInv, Stored
      <4>3. \A i \in 1 .. Len(pending) : Effect(pending[i], o) \in {"out", "none"}
        BY <4>2 DEF Effect
      <4>. QED
        BY <3>1, <4>1, <4>3 DEF EndsAt, Side
    <3>. QED
      BY <3>2, <3>3, <3>4
  <2>7. ASSUME ~ lossy, NEW o \in Orders, InDue(o)', Free(o)
        PROVE  Effect(cmd, o) = "none" /\ EndsAt(pending, executed, sets, o, "in")
    <3>1. InDue(o)
      BY <2>1, <2>4, <2>7 DEF InDue, worldVars
    <3>2. Effect(cmd, o) = "none"
      BY <2>1, <2>3, <2>5, <3>1, OrderKeys DEF Effect, InDue
    <3>. QED
      BY <2>7, <3>1, <3>2 DEF WorkingInv, SettledInv, Settled
  <2>8. ~ lossy' => SettledInv'
    BY <2>1, <2>2, <2>6, <2>7, CommandSettles
  <2>. QED
    BY <1>0, <1>2, <1>4, <2>1, <2>8, NobodyWaits DEF Handled, Closing
<1>13. CASE Notify
  <2>1. pc = "notify" /\ pc' = "idle" /\ UNCHANGED <<redisVars, worldVars, placed>>
    BY <1>13 DEF Notify, Return
  <2>2. \A o \in Orders : Free(o)' =>
           /\ OutDue(o)' => Free(o) /\ OutDue(o)
           /\ InDue(o)' => Free(o) /\ InDue(o)
    BY <2>1 DEF OutDue, InDue, Closing, worldVars, Free, redisVars, serverVars
  <2>3. ~ lossy' => SettledInv'
    BY <2>1, <2>2, SameQueueSettles DEF redisVars, queueVars, serverVars
  <2>. QED
    BY <1>0, <1>2, <1>4, <2>1, <2>3, NobodyWaits DEF Handled, Closing
<1>. QED
  BY <1>5, <1>6, <1>7, <1>8, <1>9, <1>10, <1>11, <1>12, <1>13 DEF TradeStep

\* The tick handler: the refresh adds what is open, and the purge is one of the
\* exceptions.
LEMMA TickWorkingInv ==
  ASSUME WorkingInv, LatestInv', MarginStep \/ RefreshStep
  PROVE  HandInv' /\ TodoInv' /\ InterInv' /\ (~ lossy' => FoundInv' /\ SettledInv')
<1> USE DEF Goto, Loop, Return, Visit
<1>0. LatestInv /\ MirrorInv /\ MirrorInv' /\ PumpTypes /\ QueueType /\ StageType
  BY DEF WorkingInv, LatestInv, MirrorInv, PumpTypes
<1>1. /\ pc \notin Handled /\ pc' \notin Handled \cup {"await", "remove"}
      /\ UNCHANGED worldVars
  BY DEF MarginStep, RefreshStep, Tick, SetMargin, MarginFails, MarginsSet,
     PurgeWorking, Purged, CommitMargins, UsersNotDue, UsersDue, SetSummary,
     SummaryFails, SummariesSet, RefreshProfit, RefreshWorking, Refreshed,
     Handled, Closing, worldVars
<1>2. HandInv' /\ InterInv' /\ FoundInv'
  BY <1>0, <1>1, NobodyWaits DEF HandInv
<1>3. \A o \in Orders : (Free(o)' <=> Free(o)) /\ (OutDue(o)' <=> OutDue(o))
  BY <1>1 DEF Free, OutDue, worldVars, Handled
<1>4. ASSUME UNCHANGED <<sets, placed>>,
             \/ pc \notin {"refresh", "refreshAdd"}
             \/ (pc' \in {"refresh", "refreshAdd"} /\ todo' = todo)
             \/ todo = {},
             pc' \notin {"refresh", "refreshAdd"} \/ pc \in {"refresh", "refreshAdd"}
      PROVE  \A o \in Orders : InDue(o)' => InDue(o)
  BY <1>1, <1>4 DEF InDue, worldVars, Handled
<1>5. ASSUME NEW cmd \in Commands, NEW commit \in BOOLEAN, Issue(cmd, commit), cmd.op = "set",
             UNCHANGED placed,
             (pc' = pc /\ pc # "refresh") \/ (pc = "refresh" /\ pc' = "refreshAdd" /\ todo' = todo),
             pc \notin {"refreshAdd"}
      PROVE  ~ lossy' => SettledInv'
  <2>1. UNCHANGED sets /\ \A o \in Orders : Effect(cmd, o) = "none"
    BY <1>5 DEF Issue, Effect
  <2>2. \A o \in Orders : InDue(o)' => InDue(o)
    BY <1>4, <1>5, <2>1
  <2>. QED
    BY <1>1, <1>3, <1>5, <2>1, <2>2, CommandSettles DEF WorkingInv, SettledInv, Settled
<1>6. CASE SetMargin \/ SetSummary
  <2>1. PICK l \in todo, v \in {"level", "summary"} : CacheSet(<<"margin", l>>, v, FALSE)
    BY <1>6 DEF SetMargin, SetSummary
  <2> DEFINE cmd == [op |-> "set", key |-> <<"margin", l>>, value |-> v]
  <2>2. l \in Logins
    BY <1>0, <1>6 DEF SetMargin, SetSummary, StageType
  <2>3. cmd \in Commands /\ Issue(cmd, FALSE) /\ cmd.op = "set"
    BY <2>1, <2>2, KeyTypes, ValuesAssumption, CommandTypes DEF CacheSet, Command
  <2> HIDE DEF cmd
  <2>4. pc' = pc /\ pc \notin {"refresh", "refreshAdd"} /\ UNCHANGED placed
    BY <1>6 DEF SetMargin, SetSummary
  <2>5. ~ lossy' => SettledInv'
    BY <1>5, <2>3, <2>4
  <2>6. TodoInv'
    BY <2>4 DEF TodoInv
  <2>. QED
    BY <1>2, <2>5, <2>6
<1>7. CASE PurgeWorking
  <2>1. PICK l \in todo : CacheClear(Working(l)) /\ placed' = {o \in placed : Owner[o] # l}
    BY <1>7 DEF PurgeWorking
  <2> DEFINE cmd == [op |-> "del", key |-> Working(l)]
  <2>2. l \in Logins
    BY <1>0, <1>7 DEF PurgeWorking, StageType
  <2>3. cmd \in Commands /\ Issue(cmd, TRUE) /\ cmd.op = "del" /\ cmd.key = Working(l)
    BY <2>1, <2>2, KeyTypes, CommandTypes DEF CacheClear, Command
  <2> HIDE DEF cmd
  <2>4. pc = "purge" /\ pc' = "purge" /\ UNCHANGED sets
    BY <1>7, <2>3 DEF PurgeWorking, Issue
  <2>5. \A o \in Orders : Effect(cmd, o) = IF Owner[o] = l THEN "out" ELSE "none"
    BY <2>2, <2>3, OrderKeys DEF Effect
  <2>6. \A o \in Orders : InDue(o)' => InDue(o) /\ Owner[o] # l
    BY <1>1, <2>1, <2>4 DEF InDue, worldVars
  <2>7. ~ lossy' => SettledInv'
    BY <1>1, <1>3, <2>3, <2>5, <2>6, CommandSettles DEF WorkingInv, SettledInv, Settled
  <2>. QED
    BY <1>2, <2>4, <2>7 DEF TodoInv
<1>8. CASE RefreshProfit
  <2>1. PICK o \in todo : CacheSet(<<"orderpl", o>>, "profit", FALSE)
                         /\ event' = Change("order", o, "profit")
    BY <1>8 DEF RefreshProfit
  <2> DEFINE cmd == [op |-> "set", key |-> <<"orderpl", o>>, value |-> "profit"]
  <2>2. o \in Orders /\ event'.id = o
    BY <1>0, <1>8, <2>1 DEF RefreshProfit, StageType, Change
  <2>3. cmd \in Commands /\ Issue(cmd, FALSE) /\ cmd.op = "set"
    BY <2>1, <2>2, KeyTypes, ValuesAssumption, CommandTypes DEF CacheSet, Command
  <2> HIDE DEF cmd
  <2>4. pc = "refresh" /\ pc' = "refreshAdd" /\ UNCHANGED <<placed, todo>>
    BY <1>8 DEF RefreshProfit
  <2>5. ~ lossy' => SettledInv'
    BY <1>5, <2>3, <2>4
  <2>6. TodoInv'
    BY <1>1, <1>3, <2>1, <2>2, <2>4 DEF WorkingInv, TodoInv, worldVars
  <2>. QED
    BY <1>2, <2>5, <2>6
<1>9. CASE RefreshWorking
  <2> DEFINE cmd == [op |-> "sadd", key |-> Working(Owner[event.id]), members |-> {event.id}]
  <2>1. event.id \in Orders /\ event.id \in todo /\ todo' = todo \ {event.id}
        /\ pc = "refreshAdd" /\ pc' = "refresh" /\ UNCHANGED placed
    BY <1>0, <1>9 DEF RefreshWorking, StageType, WorkingInv, TodoInv
  <2>2. cmd \in Commands /\ Issue(cmd, TRUE)
    BY <1>9, <2>1, KeyTypes, CommandTypes DEF RefreshWorking, CacheSAdd, Command
  <2>3. cmd.op = "sadd" /\ cmd.key = W(event.id) /\ cmd.members = {event.id}
    BY DEF W
  <2> HIDE DEF cmd
  <2>4. Effect(cmd, event.id) = "in" /\ \A o : o # event.id => Effect(cmd, o) = "none"
    BY <2>3 DEF Effect
  <2>5. UNCHANGED sets
    BY <2>2 DEF Issue
  <2>6. ASSUME NEW o \in Orders, Free(o)
        PROVE  /\ OutDue(o)' => o # event.id /\ OutDue(o)
               /\ InDue(o)' => o = event.id \/ InDue(o)
    <3>1. trade[event.id] \in {"open", "waiting"} \/ ~ Free(event.id)
      BY <2>1 DEF WorkingInv, TodoInv
    <3>2. OutDue(o)' => o # event.id /\ OutDue(o)
      BY <1>3, <2>6, <3>1 DEF OutDue
    <3>3. InDue(o)' /\ o # event.id => InDue(o)
      BY <1>1, <2>1, <2>5 DEF InDue, worldVars, Handled
    <3>. QED
      BY <3>2, <3>3
  <2>7. ~ lossy' => SettledInv'
    BY <1>1, <2>2, <2>4, <2>6, CommandSettles DEF WorkingInv, SettledInv, Settled
  <2>8. TodoInv'
    BY <1>1, <1>3, <2>1 DEF WorkingInv, TodoInv, worldVars
  <2>. QED
    BY <1>2, <2>7, <2>8
<1>10. CASE Tick \/ MarginFails \/ MarginsSet \/ Purged \/ UsersNotDue \/ UsersDue \/ SummaryFails
  <2>1. UNCHANGED <<redisVars, placed>> /\ pc \notin {"refresh", "refreshAdd"}
        /\ pc' \notin {"refresh", "refreshAdd"}
    BY <1>10 DEF Tick, MarginFails, MarginsSet, Purged, UsersNotDue, UsersDue, SummaryFails
  <2>2. \A o \in Orders : InDue(o)' => InDue(o)
    BY <1>4, <2>1 DEF redisVars, serverVars
  <2>3. ~ lossy' => SettledInv'
    BY <1>3, <2>1, <2>2, SameQueueSettles DEF redisVars, queueVars, serverVars
  <2>. QED
    BY <1>2, <2>1, <2>3 DEF TodoInv
<1>11. CASE SummariesSet
  <2>1. pc = "users" /\ pc' = "refresh" /\ UNCHANGED redisVars
        /\ todo' = {o \in Orders : trade[o] \in {"open", "waiting"}}
    BY <1>11 DEF SummariesSet
  <2>2. \A o \in Orders : ~ InDue(o)'
    BY <1>1, <2>1 DEF InDue, worldVars
  <2>3. ~ lossy' => SettledInv'
    BY <1>3, <2>1, <2>2, SameQueueSettles DEF redisVars, queueVars, serverVars
  <2>4. TodoInv'
    BY <1>1, <2>1 DEF TodoInv, worldVars
  <2>. QED
    BY <1>2, <2>3, <2>4
<1>12. CASE CommitMargins \/ Refreshed
  <2>1. UNCHANGED <<pending, executed, sets, lossy, placed>> /\ pc' \notin {"refresh", "refreshAdd"}
        /\ (pc \notin {"refresh", "refreshAdd"} \/ todo = {})
    BY <1>12 DEF CommitMargins, Refreshed, CacheCommit, redisVars, queueVars, serverVars
  <2>2. \A o \in Orders : InDue(o)' => InDue(o)
    BY <1>4, <2>1
  <2>3. ~ lossy' => SettledInv'
    BY <1>3, <2>1, <2>2, SameQueueSettles
  <2>. QED
    BY <1>2, <2>1, <2>3 DEF TodoInv
<1>. QED
  BY <1>6, <1>7, <1>8, <1>9, <1>10, <1>11, <1>12 DEF MarginStep, RefreshStep

\* Redis, the network and cpp_redis move no order but by the commands under way.
LEMMA RedisWorkingInv ==
  ASSUME WorkingInv, LatestInv', RedisStep, UNCHANGED <<worldVars, pumpVars>>
  PROVE  HandInv' /\ TodoInv' /\ InterInv' /\ (~ lossy' => FoundInv' /\ SettledInv')
<1>0. /\ LatestInv /\ MirrorInv /\ QueueType /\ Len(pending) \in Nat
      /\ UNCHANGED <<pc, event, todo, placed, feed, trade, changed>>
      /\ (pc \in {"await", "remove"} => event.id \in Orders /\ event.value = "closed")
  BY LenProperties, ChangeTypes DEF WorkingInv, LatestInv, MirrorInv, PumpTypes, QueueType,
     StageType, Closing, pumpVars, worldVars
<1>1. HandInv' /\ TodoInv'
  BY <1>0 DEF WorkingInv, HandInv, TodoInv, Free
<1>2. ASSUME \A l \in Logins : sets[Closed(l)] \subseteq sets'[Closed(l)],
             \A o \in Orders : \A v \in {"in", "out"} :
               EndsAt(pending, executed, sets, o, v) => EndsAt(pending', executed', sets', o, v)
      PROVE  ~ lossy => SettledInv'
  <2> SUFFICES ASSUME ~ lossy, NEW o \in Orders, Free(o)
               PROVE  /\ OutDue(o)' => EndsAt(pending', executed', sets', o, "out")
                      /\ InDue(o)' => EndsAt(pending', executed', sets', o, "in")
    BY <1>0 DEF SettledInv, Settled, Free
  <2>1. sets[C(o)] \subseteq sets'[C(o)]
    BY <1>2, KeyTypes DEF C
  <2>2. (OutDue(o)' => OutDue(o)) /\ (InDue(o)' => InDue(o))
    BY <1>0, <2>1 DEF OutDue, InDue
  <2>. QED
    BY <1>2, <2>2 DEF WorkingInv, SettledInv, Settled
<1>3. CASE Execute
  <2> DEFINE n == executed + 1
             cmd == pending[n]
  <2>1. n \in 1 .. Len(pending) /\ executed \in Nat /\ executed < Len(pending) /\ executed' = n
        /\ UNCHANGED <<link, pending, written, answer, lossy>>
    BY <1>0, <1>3 DEF Execute, QueueType, queueVars
  <2>2. cmd \in Commands /\ Apply(cmd)
    BY <1>0, <1>3, <2>1, ElementOfSeq DEF Execute, QueueType
  <2>3. \A l \in Logins : sets[Closed(l)] \subseteq sets'[Closed(l)]
    BY <1>0, <1>3, ClosedGrows
  <2>4. ~ lossy => SettledInv'
    BY <1>0, <1>2, <2>1, <2>2, <2>3, EndsAtExecute
  <2>5. InterInv'
    BY <1>0, <2>1 DEF WorkingInv, InterInv, Waiting
  <2>6. ASSUME ~ lossy, pc = "remove", event.id \in sets'[W(event.id)] PROVE event.id \in inter'
    <3>1. cmd.op = "srem"
      BY <1>0, <2>1, <2>6 DEF LatestInv, CloseInv, Stored
    <3>2. inter' = inter /\ Effect(cmd, event.id) \in {"out", "none"}
      BY <2>2, <3>1 DEF Apply, Effect
    <3>3. event.id \in sets[W(event.id)]
      BY <1>0, <2>2, <2>6, <3>2, SideAfter DEF Side
    <3>. QED
      BY <2>6, <3>2, <3>3 DEF WorkingInv, FoundInv
  <2>7. ASSUME ~ lossy, pc = "await", answer = "found" \/ \E i \in Waiting("sinter") : i <= n,
               event.id \in sets'[W(event.id)]
        PROVE  event.id \in inter'
    <3>1. answer # "found"
      <4>1. answer = "found" => Len(pending) = 0
        BY <1>0, <2>7, EmptySeq DEF LatestInv, CloseInv, Stored
      <4>. QED
        BY <2>1, <4>1
    <3>2. PICK i \in Waiting("sinter") : i <= n
      BY <2>7, <3>1
    <3>3. i = n /\ n = Len(pending) /\ cmd.op = "sinter" /\ cmd.keys = {W(event.id), C(event.id)}
      <4>1. i = Len(pending) /\ pending[i].op = "sinter"
            /\ pending[i].keys = {W(event.id), C(event.id)}
        BY <1>0, <3>2 DEF MirrorInv, SetInv, WorkingInv, InterInv, Waiting
      <4>2. i = n
        BY <2>1, <3>2, <4>1
      <4>. QED
        BY <4>1, <4>2
    <3>4. sets' = sets /\ inter' = {m \in Members : \A k \in cmd.keys : m \in sets[k]}
      BY <2>2, <3>3 DEF Apply
    <3>5. event.id \in sets[C(event.id)]
      <4>1. EndsIn(pending, executed, sets, C(event.id), event.id)
        BY <1>0, <2>7 DEF LatestInv, CloseInv, Stored, C
      <4>2. \A j \in executed + 1 .. Len(pending) : pending[j].op # "sadd"
        BY <2>1, <3>3
      <4>. QED
        BY <4>1, <4>2 DEF EndsIn
    <3>. QED
      BY <1>0, <2>7, <3>3, <3>4, <3>5
  <2>8. ~ lossy => FoundInv'
    BY <1>0, <2>1, <2>6, <2>7 DEF FoundInv, Waiting
  <2>. QED
    BY <1>1, <2>1, <2>4, <2>5, <2>8
<1>4. CASE Reply
  <2>1. pending # <<>> /\ executed > 0 /\ executed \in Nat /\ executed <= Len(pending)
    BY <1>0, <1>4, EmptySeq DEF Reply, QueueType
  <2>2. /\ pending' = Tail(pending) /\ Len(pending') = Len(pending) - 1
        /\ \A i \in 1 .. Len(pending) - 1 : pending'[i] = pending[i + 1]
        /\ Head(pending) = pending[1]
    BY <1>0, <1>4, <2>1, TailFacts DEF Reply, QueueType
  <2>3. UNCHANGED <<sets, inter, lossy>> /\ executed' = executed - 1
        /\ answer' = IF pending[1].op = "sinter" THEN "found" ELSE answer
    BY <1>4, <2>2 DEF Reply
  <2>4. ~ lossy => SettledInv'
    BY <1>0, <1>2, <2>1, <2>2, <2>3, EndsAtTail DEF QueueType
  <2>5. \A i \in Waiting("sinter")' : i + 1 \in Waiting("sinter") /\ pending'[i] = pending[i + 1]
                                     /\ i \in Nat
    BY <1>0, <2>1, <2>2 DEF Waiting
  <2>6. InterInv'
    BY <1>0, <2>3, <2>5 DEF WorkingInv, InterInv
  <2>7. ~ lossy => FoundInv'
    <3>1. (\E i \in Waiting("sinter")' : i <= executed') => \E i \in Waiting("sinter") : i <= executed
      <4> SUFFICES ASSUME NEW i \in Waiting("sinter")', i <= executed - 1
                   PROVE  \E j \in Waiting("sinter") : j <= executed
        BY <2>3
      <4>1. i + 1 \in Waiting("sinter") /\ i + 1 <= executed
        BY <2>1, <2>5
      <4>. QED
        BY <4>1
    <3>2. pending[1].op = "sinter" => \E i \in Waiting("sinter") : i <= executed
      BY <1>0, <2>1 DEF Waiting
    <3>. QED
      BY <1>0, <2>3, <3>1, <3>2 DEF WorkingInv, FoundInv
  <2>. QED
    BY <1>1, <2>3, <2>4, <2>6, <2>7
<1>5. CASE DropLink \/ Reconnect
  <2>1. UNCHANGED <<pending, sets, inter, answer, lossy>> /\ executed' \in {0, executed}
    BY <1>5 DEF DropLink, Reconnect, serverVars
  <2>2. executed \in Nat
    BY <1>0 DEF QueueType
  <2>3. ~ lossy => SettledInv'
    BY <1>0, <1>2, <2>1, <2>2, EndsAtRestart DEF QueueType
  <2>4. InterInv'
    BY <1>0, <2>1 DEF WorkingInv, InterInv, Waiting
  <2>5. (\E i \in Waiting("sinter")' : i <= executed') => \E i \in Waiting("sinter") : i <= executed
    BY <2>1, <2>2 DEF Waiting
  <2>6. ~ lossy => FoundInv'
    BY <1>0, <2>1, <2>5 DEF WorkingInv, FoundInv
  <2>. QED
    BY <1>1, <2>1, <2>3, <2>4, <2>6
<1>6. CASE GiveUp
  <2>1. lossy' /\ pending' = <<>>
    BY <1>6 DEF GiveUp
  <2>2. Waiting("sinter")' = {}
    BY <2>1, EmptySeq DEF Waiting
  <2>. QED
    BY <1>1, <2>1, <2>2 DEF InterInv
<1>. QED
  BY <1>3, <1>4, <1>5, <1>6 DEF RedisStep

\* The server's own steps.
LEMMA WorldWorkingInv ==
  ASSUME WorkingInv, WorldStep
  PROVE  HandInv' /\ TodoInv' /\ InterInv' /\ (~ lossy' => FoundInv' /\ SettledInv')
<1>0. LatestInv /\ MirrorInv /\ StageType
  BY DEF WorkingInv, LatestInv, MirrorInv, PumpTypes
<1>1. /\ UNCHANGED <<redisVars, pumpVars>>
      /\ \A o \in Orders : Free(o)' =>
           trade'[o] = trade[o] /\ (o \in changed' => o \in changed) /\ Free(o)
  BY <1>0, ServerFacts DEF LatestInv, Free
<1>2. UNCHANGED <<pending, executed, answer, inter, sets, lossy, pc, event, todo, placed>>
  BY <1>1 DEF redisVars, queueVars, serverVars, pumpVars
<1>3. pc \in Handled /\ event.kind = "order" => event.id \in Orders
  BY <1>0, ChangeTypes DEF StageType, Handled
<1>4. HandInv' /\ TodoInv'
  BY <1>1, <1>2, <1>3 DEF WorkingInv, HandInv, TodoInv
<1>5. InterInv' /\ (~ lossy' => FoundInv')
  BY <1>2 DEF WorkingInv, InterInv, FoundInv, Waiting
<1>6. ~ lossy' => SettledInv'
  BY <1>1, <1>2, SameQueueSettles DEF OutDue, InDue
<1>. QED
  BY <1>4, <1>5, <1>6

-----------------------------------------------------------------------------
\* At the start PumpingFunc was told of no order, and none has changed.
LEMMA WorkingInit == Init => WorkingInv
<1> SUFFICES ASSUME Init PROVE WorkingInv
  OBVIOUS
<1>1. LatestInv
  BY LatestInit
<1>2. Waiting("sinter") = {}
  BY EmptySeq DEF Init, RedisInit, Waiting
<1>3. HandInv /\ TodoInv /\ InterInv /\ FoundInv
  BY <1>2 DEF Init, RedisInit, HandInv, Handled, Closing, TodoInv, InterInv, FoundInv
<1>4. SettledInv
  BY DEF SettledInv, Settled, OutDue, InDue, Init
<1>. QED
  BY <1>1, <1>3, <1>4 DEF WorkingInv

\* Every step keeps the places of the orders settled.
LEMMA WorkingStep == WorkingInv /\ [Next]_vars => WorkingInv'
<1> SUFFICES ASSUME WorkingInv, [Next]_vars PROVE WorkingInv'
  OBVIOUS
<1>1. LatestInv'
  BY LatestStep DEF WorkingInv
<1>2. CASE UNCHANGED vars
  <2>1. UNCHANGED <<pending, executed, answer, inter, sets, lossy, pc, event, todo, placed,
                  trade, changed, feed>>
    BY <1>2 DEF vars, redisVars, queueVars, serverVars, worldVars, pumpVars
  <2>2. HandInv' /\ TodoInv' /\ InterInv' /\ (~ lossy' => FoundInv')
    BY <2>1 DEF WorkingInv, HandInv, TodoInv, InterInv, FoundInv, Waiting, Free
  <2>3. ~ lossy' => SettledInv'
    BY <2>1, SameQueueSettles DEF OutDue, InDue, Free
  <2>. QED
    BY <1>1, <2>2, <2>3 DEF WorkingInv
<1>3. CASE RedisStep /\ UNCHANGED <<worldVars, pumpVars>>
  BY <1>1, <1>3, RedisWorkingInv DEF WorkingInv
<1>4. CASE WorldStep
  BY <1>1, <1>4, WorldWorkingInv DEF WorkingInv
<1>5. CASE TradeStep
  BY <1>1, <1>5, TradeWorkingInv DEF WorkingInv
<1>6. CASE MarginStep \/ RefreshStep
  BY <1>1, <1>6, TickWorkingInv DEF WorkingInv
<1>. QED
  BY <1>2, <1>3, <1>4, <1>5, <1>6 DEF Next

\* When nothing is under way and no command was lost, the working set of an
\* account has the open orders PumpingFunc was told of, but for those of the
\* closed set, and none that has closed since pumping began, however changes,
\* refreshes, purges and reconnections fell before and whatever earlier runs left.
THEOREM WorkingSetsAgree == Spec => []WorkingMatchesOpen
<1>1. WorkingInv => WorkingMatchesOpen
  <2> SUFFICES ASSUME WorkingInv, Quiet, ~ lossy, NEW o \in Orders
               PROVE  /\ (trade[o] = "closed" /\ o \in changed) => o \notin sets[W(o)]
                      /\ (trade[o] = "open" /\ o \in placed /\ o \notin sets[C(o)])
                           => o \in sets[W(o)]
    BY DEF WorkingMatchesOpen, W, C
  <2>1. Len(feed) = 0 /\ written = 0 /\ executed = 0 /\ Len(pending) \in Nat
    BY EmptySeq, LenProperties
       DEF Quiet, WorkingInv, LatestInv, MirrorInv, PumpTypes, QueueType
  <2>2. \A j \in executed + 1 .. Len(pending) : Effect(pending[j], o) = "none"
    BY <2>1 DEF WorkingInv, LatestInv, TickOnly, Quiet, Effect
  <2>3. \A v \in {"in", "out"} : EndsAt(pending, executed, sets, o, v) => Side(sets, o) = v
    BY <2>2 DEF EndsAt
  <2>4. Free(o) /\ Settled(o)
    BY <2>1 DEF Free, WorkingInv, SettledInv
  <2>. QED
    BY <2>3, <2>4 DEF Settled, OutDue, InDue, Quiet, Closing, Side
<1>. QED
  BY <1>1, WorkingInit, WorkingStep, PTL DEF Spec

-----------------------------------------------------------------------------
(***************************************************************************)
(* While nothing is restored, a closed order stays closed: then the closed *)
(* sets, and whatever is on its way there, have closed orders only, and    *)
(* every open order is in its working set.                                 *)
(***************************************************************************)
Over == {o \in Orders : trade[o] = "closed"}

\* A command that adds to a closed set adds orders of the set over.
AddsOver(cmd, over) ==
  \A l \in Logins : (cmd.op = "sadd" /\ cmd.key = Closed(l)) => cmd.members \subseteq over

OverInv ==
  /\ \A l \in Logins : sets[Closed(l)] \subseteq Over
  /\ \A i \in 1 .. Len(pending) : AddsOver(pending[i], Over)
  /\ \A i \in 1 .. Len(feed) : feed[i].value = "closed" => feed[i].id \in Over
  /\ event.value = "closed" => event.id \in Over

\* The server closes an order for good, and reports what it has done.
LEMMA WorldOver ==
  ASSUME "restore" \notin World, PumpTypes, OverInv, WorldStep
  PROVE  OverInv'
<1>1. UNCHANGED <<redisVars, pumpVars>>
  BY DEF WorldStep, Open, Close, Restore, Place, Activate, Delete, TradeBecomes, RecordChanges
<1>2. /\ Over \subseteq Over'
      /\ \E c \in Changes : Report(c) /\ (c.value = "closed" => c.id \in Over')
  <2>1. ASSUME NEW o \in Orders, NEW before, NEW after \in TradeStates \ {"none"},
               "closed" \notin before, TradeBecomes(o, before, after)
        PROVE  /\ Over \subseteq Over'
               /\ \E c \in Changes : Report(c) /\ (c.value = "closed" => c.id \in Over')
    <3> DEFINE c == Change("order", o, after)
    <3>1. c \in Changes /\ Report(c) /\ c.id = o /\ c.value = after
      BY <2>1 DEF Changes, Change, TradeBecomes
    <3>2. trade' = [trade EXCEPT ![o] = after] /\ trade \in [Orders -> TradeStates]
          /\ trade[o] # "closed"
      BY <2>1 DEF TradeBecomes, PumpTypes, WorldType
    <3>3. Over \subseteq Over' /\ (after = "closed" => o \in Over')
      BY <3>2 DEF Over
    <3>. QED
      BY <3>1, <3>3
  <2>2. CASE RecordChanges
    <3>1. PICK k \in ({"user"} \X Logins) \cup ({"symbol"} \X Symbols) :
            Report(Change(k[1], k[2], "record"))
      BY <2>2 DEF RecordChanges
    <3> DEFINE c == Change(k[1], k[2], "record")
    <3>2. c \in Changes /\ Report(c) /\ c.value = "record"
      BY <3>1 DEF Changes, Change
    <3>. QED
      BY <2>2, <3>2 DEF RecordChanges, Over
  <2>3. ASSUME NEW o \in Orders, Open(o) \/ Close(o) \/ Place(o) \/ Activate(o) \/ Delete(o)
        PROVE  \E before : "closed" \notin before /\
                 \E after \in TradeStates \ {"none"} : TradeBecomes(o, before, after)
    BY <2>3 DEF Open, Close, Place, Activate, Delete, TradeStates
  <2>. QED
    BY <2>1, <2>2, <2>3 DEF WorldStep, Restore
<1>3. PICK c \in Changes : Report(c) /\ (c.value = "closed" => c.id \in Over')
  BY <1>2
<1>4. /\ Len(feed) \in Nat /\ Len(feed') = Len(feed) + 1
      /\ \A i \in 1 .. Len(feed) : feed'[i] = feed[i]
      /\ feed'[Len(feed) + 1] = c
  BY <1>3, AppendFacts DEF Report, PumpTypes, WorldType
<1>5. \A i \in 1 .. Len(feed') : i \in 1 .. Len(feed) \/ i = Len(feed) + 1
  BY <1>4
<1>6. \A i \in 1 .. Len(feed') : feed'[i].value = "closed" => feed'[i].id \in Over'
  BY <1>2, <1>3, <1>4, <1>5 DEF OverInv
<1>. QED
  BY <1>1, <1>2, <1>6 DEF OverInv, AddsOver, redisVars, queueVars, serverVars, pumpVars

\* A command is queued that adds closed orders to a closed set, if anything.
LEMMA CommandOver ==
  ASSUME PumpTypes, OverInv, NEW cmd \in Commands, NEW commit \in BOOLEAN,
         Issue(cmd, commit), AddsOver(cmd, Over), UNCHANGED worldVars,
         event'.value = "closed" => event' = event
  PROVE  OverInv'
<1>1. Over' = Over /\ UNCHANGED <<sets, feed>>
  BY DEF Over, Issue, worldVars
<1>2. CASE link # "up"
  BY <1>1, <1>2 DEF Issue, queueVars, OverInv
<1>3. CASE link = "up"
  <2>1. /\ Len(pending) \in Nat /\ Len(pending') = Len(pending) + 1
        /\ \A i \in 1 .. Len(pending) : pending'[i] = pending[i]
        /\ pending'[Len(pending) + 1] = cmd
    BY <1>3, AppendFacts DEF Issue, Queue, PumpTypes, QueueType
  <2>2. \A i \in 1 .. Len(pending') : i \in 1 .. Len(pending) \/ i = Len(pending) + 1
    BY <2>1
  <2>. QED
    BY <1>1, <2>1, <2>2 DEF OverInv
<1>. QED
  BY <1>2, <1>3

\* Nothing is queued, executed or taken.
LEMMA SameQueueOver ==
  ASSUME OverInv, UNCHANGED <<pending, sets, trade, feed>>,
         event'.value = "closed" => event' = event
  PROVE  OverInv'
  BY DEF OverInv, Over

\* None of the program's events that are no change is of a closed order.
LEMMA NotClosed ==
  /\ NoEvent.value # "closed"
  /\ \A o \in Orders : Change("order", o, "profit").value # "closed"
  BY StoreAssumption, ValuesAssumption DEF NoEvent, Change, TradeStates

\* PumpingFunc adds to a closed set only in AddClosed, for the order whose close
\* it handles.
LEMMA TradeOver ==
  ASSUME PumpTypes, OverInv, TradeStep PROVE OverInv'
<1> USE DEF Goto, Return
<1>1. CASE Take
  <2>1. feed \in Seq(Changes) /\ feed # <<>>
    BY <1>1 DEF Take, PumpTypes, WorldType
  <2>2. /\ event' = feed[1] /\ Len(feed') = Len(feed) - 1 /\ Len(feed) \in Nat
        /\ 1 \in 1 .. Len(feed)
        /\ \A i \in 1 .. Len(feed) - 1 : feed'[i] = feed[i + 1]
    BY <1>1, <2>1, TailFacts DEF Take
  <2>3. \A i \in 1 .. Len(feed') : i + 1 \in 1 .. Len(feed) /\ feed'[i] = feed[i + 1]
    BY <2>2
  <2>. QED
    BY <1>1, <2>2, <2>3 DEF Take, OverInv, Over, redisVars, queueVars, serverVars
<1>2. CASE Await \/ AwaitFails \/ Notify
  BY <1>2, NotClosed, SameQueueOver
  DEF Await, AwaitFails, Notify, queueVars, serverVars, redisVars, worldVars
<1>3. CASE StoreRecord
  <2> DEFINE cmd == [op |-> "set", key |-> <<event.kind, event.id>>, value |-> event.value]
  <2>1. event \in Changes
    BY <1>3 DEF StoreRecord, PumpTypes, StageType
  <2>2. cmd \in Commands /\ AddsOver(cmd, Over)
    BY <2>1, ChangeTypes, CommandTypes DEF AddsOver
  <2>. QED
    BY <1>3, <2>2, CommandOver DEF StoreRecord, CacheSet, Command
<1>4. CASE AddWorking
  <2> DEFINE cmd == [op |-> "sadd", key |-> Working(Owner[event.id]), members |-> {event.id}]
  <2>1. event.id \in Orders
    BY <1>4, ChangeTypes DEF AddWorking, PumpTypes, StageType
  <2>2. cmd \in Commands /\ AddsOver(cmd, Over)
    BY <2>1, KeyTypes, KeysDiffer, CommandTypes DEF AddsOver
  <2>. QED
    BY <1>4, <2>2, CommandOver DEF AddWorking, CacheSAdd, Command
<1>5. CASE AddClosed
  <2> DEFINE cmd == [op |-> "sadd", key |-> Closed(Owner[event.id]), members |-> {event.id}]
  <2>1. event.id \in Orders /\ event.value = "closed"
    BY <1>5, ChangeTypes DEF AddClosed, PumpTypes, StageType, Closing
  <2>2. cmd \in Commands /\ AddsOver(cmd, Over)
    BY <2>1, KeyTypes, CommandTypes DEF AddsOver, OverInv
  <2>. QED
    BY <1>5, <2>2, CommandOver DEF AddClosed, CacheSAdd, Command
<1>6. CASE Intersect
  <2> DEFINE ks == {Working(Owner[event.id]), Closed(Owner[event.id])}
             cmd == [op |-> "sinter", keys |-> ks]
  <2>1. event.id \in Orders
    BY <1>6, ChangeTypes DEF Intersect, PumpTypes, StageType, Closing
  <2>2. ks \in SUBSET SetKeys
    BY <2>1, KeyTypes
  <2>3. cmd \in Commands /\ AddsOver(cmd, Over)
    BY <2>2, CommandTypes DEF AddsOver
  <2>. QED
    BY <1>6, <2>3, CommandOver DEF Intersect, CacheSInter
<1>7. CASE RemoveWorking
  <2> DEFINE cmd == [op |-> "srem", key |-> Working(Owner[event.id]), members |-> inter]
  <2>1. event.id \in Orders /\ inter \in SUBSET Members
    BY <1>7, ChangeTypes DEF RemoveWorking, PumpTypes, StageType, Closing, QueueType
  <2>2. cmd \in Commands /\ AddsOver(cmd, Over)
    BY <2>1, KeyTypes, CommandTypes DEF AddsOver
  <2>. QED
    BY <1>7, <2>2, CommandOver DEF RemoveWorking, CacheSDel, Command
<1>. QED
  BY <1>1, <1>2, <1>3, <1>4, <1>5, <1>6, <1>7 DEF TradeStep

\* The tick handler adds to no closed set.
LEMMA TickOver ==
  ASSUME PumpTypes, OverInv, MarginStep \/ RefreshStep PROVE OverInv'
<1> USE DEF Goto, Loop, Return
<1>1. CASE Tick \/ MarginFails \/ MarginsSet \/ Purged \/ CommitMargins \/ UsersNotDue
           \/ UsersDue \/ SummaryFails \/ SummariesSet \/ Refreshed
  BY <1>1, NotClosed, SameQueueOver
  DEF Tick, MarginFails, MarginsSet, Purged, CommitMargins, UsersNotDue, UsersDue,
      SummaryFails, SummariesSet, Refreshed, CacheCommit, redisVars, queueVars,
      serverVars, worldVars
<1>2. CASE SetMargin \/ SetSummary
  <2>1. PICK l \in Logins, v \in Values : CacheSet(<<"margin", l>>, v, FALSE)
    BY <1>2, ValuesAssumption DEF SetMargin, SetSummary, PumpTypes, StageType
  <2> DEFINE cmd == [op |-> "set", key |-> <<"margin", l>>, value |-> v]
  <2>2. cmd \in Commands /\ AddsOver(cmd, Over)
    BY KeyTypes, CommandTypes DEF AddsOver
  <2>3. Issue(cmd, FALSE) /\ UNCHANGED <<worldVars, event>>
    BY <1>2, <2>1 DEF SetMargin, SetSummary, CacheSet, Command
  <2> HIDE DEF cmd
  <2>. QED
    BY <2>2, <2>3, CommandOver
<1>3. CASE PurgeWorking
  <2>1. PICK l \in Logins : CacheClear(Working(l))
    BY <1>3 DEF PurgeWorking, PumpTypes, StageType
  <2> DEFINE cmd == [op |-> "del", key |-> Working(l)]
  <2>2. cmd \in Commands /\ AddsOver(cmd, Over)
    BY KeyTypes, CommandTypes DEF AddsOver
  <2>3. Issue(cmd, TRUE) /\ UNCHANGED <<worldVars, event>>
    BY <1>3, <2>1 DEF PurgeWorking, CacheClear, Command
  <2> HIDE DEF cmd
  <2>. QED
    BY <2>2, <2>3, CommandOver
<1>4. CASE RefreshProfit
  <2>1. PICK o \in todo : /\ CacheSet(<<"orderpl", o>>, "profit", FALSE)
                          /\ event' = Change("order", o, "profit")
    BY <1>4 DEF RefreshProfit
  <2> DEFINE cmd == [op |-> "set", key |-> <<"orderpl", o>>, value |-> "profit"]
  <2>2. o \in Orders
    BY <1>4, <2>1 DEF RefreshProfit, PumpTypes, StageType
  <2>3. cmd \in Commands /\ AddsOver(cmd, Over)
    BY <2>2, KeyTypes, ValuesAssumption, CommandTypes DEF AddsOver
  <2>4. Issue(cmd, FALSE) /\ UNCHANGED worldVars /\ event'.value # "closed"
    BY <1>4, <2>1, <2>2, NotClosed DEF RefreshProfit, CacheSet, Command
  <2> HIDE DEF cmd
  <2>. QED
    BY <2>3, <2>4, CommandOver
<1>5. CASE RefreshWorking
  <2> DEFINE cmd == [op |-> "sadd", key |-> Working(Owner[event.id]), members |-> {event.id}]
  <2>1. event.id \in Orders
    BY <1>5 DEF RefreshWorking, PumpTypes, StageType
  <2>2. cmd \in Commands /\ AddsOver(cmd, Over)
    BY <2>1, KeyTypes, KeysDiffer, CommandTypes DEF AddsOver
  <2>3. Issue(cmd, TRUE) /\ UNCHANGED worldVars /\ event'.value # "closed"
    BY <1>5, NotClosed DEF RefreshWorking, CacheSAdd, Command
  <2> HIDE DEF cmd
  <2>. QED
    BY <2>2, <2>3, CommandOver
<1>. QED
  BY <1>1, <1>2, <1>3, <1>4, <1>5 DEF MarginStep, RefreshStep

\* Redis adds to a closed set what it is sent, once or twice.
LEMMA RedisOver ==
  ASSUME PumpTypes, OverInv, RedisStep, UNCHANGED <<worldVars, pumpVars>> PROVE OverInv'
<1>0. /\ QueueType /\ Len(pending) \in Nat
      /\ UNCHANGED <<trade, feed, event>> /\ Over' = Over
  BY LenProperties DEF PumpTypes, QueueType, worldVars, pumpVars, Over
<1>1. CASE Execute
  <2> DEFINE cmd == pending[executed + 1]
  <2>1. executed + 1 \in 1 .. Len(pending)
    BY <1>0, <1>1 DEF Execute, QueueType
  <2>2. cmd \in Commands /\ Apply(cmd) /\ AddsOver(cmd, Over) /\ UNCHANGED pending
    BY <1>0, <1>1, <2>1, ElementOfSeq DEF Execute, QueueType, OverInv, queueVars
  <2> HIDE DEF cmd
  <2>3. \A l \in Logins :
          \/ sets'[Closed(l)] \subseteq sets[Closed(l)]
          \/ cmd.op = "sadd" /\ cmd.key = Closed(l)
             /\ sets'[Closed(l)] = sets[Closed(l)] \cup cmd.members
    <3> USE KeyTypes DEF QueueType
    <3>1. CASE cmd.op \in {"set", "sinter"}
      BY <2>2, <3>1 DEF Apply
    <3>2. CASE cmd.op = "del"
      BY <1>0, <2>2, <3>2 DEF Apply, Commands
    <3>3. CASE cmd.op = "sadd"
      BY <1>0, <2>2, <3>3 DEF Apply, Commands
    <3>4. CASE cmd.op = "srem"
      BY <1>0, <2>2, <3>4 DEF Apply, Commands
    <3>. QED
      BY <2>2, <3>1, <3>2, <3>3, <3>4 DEF Commands
  <2>4. \A l \in Logins : sets'[Closed(l)] \subseteq Over
    BY <2>2, <2>3 DEF OverInv, AddsOver
  <2>. QED
    BY <1>0, <2>2, <2>4 DEF OverInv
<1>2. CASE Reply
  <2>1. pending # <<>>
    BY <1>0, <1>2, EmptySeq DEF Reply, QueueType
  <2>2. /\ Len(pending') = Len(pending) - 1
        /\ \A i \in 1 .. Len(pending) - 1 : pending'[i] = pending[i + 1]
    BY <1>0, <1>2, <2>1, TailFacts DEF Reply, QueueType
  <2>3. \A i \in 1 .. Len(pending') : i + 1 \in 1 .. Len(pending) /\ pending'[i] = pending[i + 1]
    BY <1>0, <2>2
  <2>. QED
    BY <1>0, <1>2, <2>3 DEF Reply, OverInv
<1>3. CASE GiveUp
  <2>1. Len(pending') = 0 /\ sets' = sets
    BY <1>3, EmptySeq DEF GiveUp, serverVars
  <2>. QED
    BY <1>0, <2>1 DEF OverInv
<1>4. CASE DropLink \/ Reconnect
  BY <1>0, <1>4, SameQueueOver DEF DropLink, Reconnect, serverVars
<1>. QED
  BY <1>1, <1>2, <1>3, <1>4 DEF RedisStep

\* Without restores the closed sets have closed orders only.
LEMMA OverStep ==
  ASSUME "restore" \notin World
  PROVE  PumpTypes /\ OverInv /\ [Next]_vars => OverInv'
<1> SUFFICES ASSUME PumpTypes, OverInv, [Next]_vars PROVE OverInv'
  OBVIOUS
<1>1. CASE UNCHANGED vars
  BY <1>1, SameQueueOver DEF vars, redisVars, queueVars, serverVars, worldVars, pumpVars
<1>. QED
  BY <1>1, WorldOver, TradeOver, TickOver, RedisOver DEF Next

\* In a quiet state every open order PumpingFunc was told of is a working order,
\* if none was ever restored: restoring is the one thing that breaks what the log
\* says of open orders.
THEOREM OpenOrdersAreWorking ==
  ASSUME "restore" \notin World
  PROVE  Spec => []OpenOrdersWorking
<1>1. Init => OverInv
  <2> SUFFICES ASSUME Init PROVE OverInv
    OBVIOUS
  <2>1. \A l \in Logins : sets[Closed(l)] \subseteq Over
    BY DEF Init, Was, Over
  <2>2. Len(pending) = 0 /\ Len(feed) = 0 /\ event.value # "closed"
    BY EmptySeq, NotClosed DEF Init, RedisInit
  <2>. QED
    BY <2>1, <2>2 DEF OverInv
<1>2. PumpTypes /\ OverInv /\ [Next]_vars => OverInv'
  BY OverStep
<1>3. PumpTypes /\ WorkingMatchesOpen /\ OverInv => OpenOrdersWorking
  <2> SUFFICES ASSUME PumpTypes, WorkingMatchesOpen, OverInv, Quiet, ~ lossy,
                      NEW o \in placed, trade[o] = "open"
               PROVE  o \in sets[Working(Owner[o])]
    BY DEF OpenOrdersWorking
  <2>1. o \in Orders /\ Owner[o] \in Logins
    BY PumpAssumption DEF PumpTypes, StageType
  <2>2. o \notin sets[Closed(Owner[o])]
    BY <2>1 DEF OverInv, Over
  <2>. QED
    BY <2>1, <2>2 DEF WorkingMatchesOpen
<1>. QED
  BY <1>1, <1>2, <1>3, PumpTypesInit, PumpTypesStep, WorkingSetsAgree, PTL DEF Spec
=============================================================================
