----------------------------- MODULE RedisClient -----------------------------
(***************************************************************************)
(* src/src/redis_client.cpp over cpp_redis, and the Redis server behind.   *)
(*                                                                         *)
(* RedisClient's operations hand a command to cpp_redis, which keeps it in *)
(* a queue until Redis has answered it.  A command is written to the       *)
(* socket by a commit, its own or a later one.  Redis executes what is     *)
(* written in order; its answers come back in order.  When the connection  *)
(* is lost, cpp_redis reconnects and sends every unanswered command again, *)
(* or gives up and answers all of them with an error.                      *)
(*                                                                         *)
(* The prefix that formatKey adds is "" in this program (connectRedis).    *)
(***************************************************************************)
EXTENDS Naturals, Sequences

CONSTANTS
  StringKeys,  \* keys that hold a JSON text
  SetKeys,     \* keys that hold a set of order numbers
  Values,      \* JSON texts, as far as the properties tell them apart
  Members,     \* order numbers
  None,        \* a key without value
  PastTexts,   \* texts that an earlier run may have left in Redis
  MaxDrops     \* how often a run may lose the connection (a bound)

ASSUME StoreAssumption ==
  /\ StringKeys \cap SetKeys = {}
  /\ None \notin Values
  /\ PastTexts \subseteq [StringKeys -> Values \cup {None}]
  /\ MaxDrops \in Nat

VARIABLES
  link,      \* client_.is_connected: "up", "down" while reconnecting, "stopped"
  pending,   \* commands not answered yet, oldest first
  written,   \* how many of them have been written to the socket
  executed,  \* how many of them Redis has executed
  answer,    \* the future of CacheSInter: "none", "awaited", "found" or "error"
  inter,     \* the members that the last SINTER executed has found
  strings,   \* the database of the Redis server: string keys
  sets,      \* and set keys
  drops,     \* connections lost so far (bounded by MaxDrops)
  lossy      \* auxiliary: some command was skipped or abandoned

queueVars == <<pending, written>>
serverVars == <<executed, inter, strings, sets>>
redisVars == <<link, queueVars, serverVars, answer, drops, lossy>>

\* redis_enabled = false leaves the client unconnected for good.  Redis is not
\* emptied: it has what the runs before this one left.
RedisInit ==
  /\ link \in {"up", "stopped"}
  /\ pending = <<>>
  /\ written = 0
  /\ executed = 0
  /\ inter = {}
  /\ answer = "none"
  /\ strings \in PastTexts
  /\ sets \in [SetKeys -> SUBSET Members]
  /\ drops = 0
  /\ lossy = (link # "up")

-----------------------------------------------------------------------------
(* The operations of RedisClient.  Each first tests is_connected and, when   *)
(* it is false, returns without a trace.                                     *)

Queue(cmd, commit) ==
  /\ pending' = Append(pending, cmd)
  /\ written' = IF commit THEN Len(pending) + 1 ELSE written

Issue(cmd, commit) ==
  /\ \/ /\ link = "up"
        /\ Queue(cmd, commit)
        /\ UNCHANGED lossy
     \/ /\ link # "up"
        /\ lossy' = TRUE
        /\ UNCHANGED queueVars
  /\ UNCHANGED <<link, executed, strings, sets, drops>>

Command(cmd, commit) == Issue(cmd, commit) /\ UNCHANGED <<answer, inter>>

CacheSet(k, v, commit) == Command([op |-> "set", key |-> k, value |-> v], commit)

CacheClear(k) == Command([op |-> "del", key |-> k], TRUE)

CacheSAdd(k, m) == Command([op |-> "sadd", key |-> k, members |-> {m}], TRUE)

\* A SREM without members is refused by Redis, and changes nothing either.
CacheSDel(k, ms) == Command([op |-> "srem", key |-> k, members |-> ms], TRUE)

CacheCommit ==
  /\ written' = IF link = "up" THEN Len(pending) ELSE written
  /\ UNCHANGED <<link, pending, serverVars, answer, drops, lossy>>

\* The first half of CacheSInter, up to r.get(): the second half waits for
\* answer to be there.  Without a connection the result is empty at once.
CacheSInter(keys) ==
  /\ Issue([op |-> "sinter", keys |-> keys], TRUE)
  /\ \/ link = "up" /\ answer' = "awaited" /\ UNCHANGED inter
     \/ link # "up" /\ answer' = "found" /\ inter' = {}

-----------------------------------------------------------------------------
(* Mutants of definitions below; no specification uses them.                 *)

\* After a reconnection nothing is sent again.
ReconnectForgetsWritten ==
  /\ link = "down"
  /\ link' = "up"
  /\ pending' = <<>>
  /\ UNCHANGED <<written, serverVars, answer, drops, lossy>>

\* Giving up drops the commands without answering their futures.
GiveUpSilently ==
  /\ link = "down"
  /\ link' = "stopped"
  /\ pending' = <<>>
  /\ lossy' = TRUE
  /\ UNCHANGED <<written, serverVars, answer, drops>>

\* An answer does not count against the commands on the wire.
ReplyKeepsWritten ==
  /\ link = "up"
  /\ executed > 0
  /\ pending' = Tail(pending)
  /\ executed' = executed - 1
  /\ answer' = IF Head(pending).op = "sinter" THEN "found" ELSE answer
  /\ UNCHANGED <<link, written, inter, strings, sets, drops, lossy>>

-----------------------------------------------------------------------------
(* Redis, the network and cpp_redis's own thread.                            *)

Apply(cmd) ==
  CASE cmd.op = "set" ->
         /\ strings' = [strings EXCEPT ![cmd.key] = cmd.value]
         /\ UNCHANGED <<sets, inter>>
    [] cmd.op = "del" ->
         /\ sets' = [sets EXCEPT ![cmd.key] = {}]
         /\ UNCHANGED <<strings, inter>>
    [] cmd.op = "sadd" ->
         /\ sets' = [sets EXCEPT ![cmd.key] = @ \cup cmd.members]
         /\ UNCHANGED <<strings, inter>>
    [] cmd.op = "srem" ->
         /\ sets' = [sets EXCEPT ![cmd.key] = @ \ cmd.members]
         /\ UNCHANGED <<strings, inter>>
    [] cmd.op = "sinter" ->
         /\ inter' = {m \in Members : \A k \in cmd.keys : m \in sets[k]}
         /\ UNCHANGED <<strings, sets>>

Execute ==
  /\ link = "up"
  /\ executed < written
  /\ executed' = executed + 1
  /\ Apply(pending[executed + 1])
  /\ UNCHANGED <<link, queueVars, answer, drops, lossy>>

\* An answer arrives; only CacheSInter's caller looks at it.
Reply ==
  /\ link = "up"
  /\ executed > 0
  /\ pending' = Tail(pending)
  /\ written' = written - 1
  /\ executed' = executed - 1
  /\ answer' = IF Head(pending).op = "sinter" THEN "found" ELSE answer
  /\ UNCHANGED <<link, inter, strings, sets, drops, lossy>>

\* The connection is lost, and with it the answers under way.  Which of the
\* written commands were executed is decided by the Execute steps before.
DropLink ==
  /\ link = "up"
  /\ drops < MaxDrops
  /\ drops' = drops + 1
  /\ link' = "down"
  /\ written' = 0
  /\ executed' = 0
  /\ UNCHANGED <<pending, inter, answer, strings, sets, lossy>>

\* Commands that Redis had executed but not answered are executed again.
Reconnect ==
  /\ link = "down"
  /\ link' = "up"
  /\ written' = Len(pending)
  /\ UNCHANGED <<pending, serverVars, answer, drops, lossy>>

GiveUp ==
  /\ link = "down"
  /\ link' = "stopped"
  /\ pending' = <<>>
  /\ answer' = IF answer = "awaited" THEN "error" ELSE answer
  /\ lossy' = TRUE
  /\ UNCHANGED <<written, serverVars, drops>>

RedisStep == Execute \/ Reply \/ DropLink \/ Reconnect \/ GiveUp
=============================================================================
