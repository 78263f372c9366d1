--------------------------- MODULE SessionManager ---------------------------
(***************************************************************************)
(* src/src/session_manager.cpp: the registry of broker sessions.           *)
(*                                                                         *)
(* A session is a pair of MT4 manager interfaces ("man" for requests,      *)
(* "pump" for notifications), kept in managerDB under the manager login,   *)
(* which doubles as the token.  Three kinds of thread meet here, all of    *)
(* them serialised by DBMutex:                                             *)
(*   - threads in MicroserviceController::Init (CheckGetToken, then        *)
(*     SetupPing),                                                         *)
(*   - threads in CheckGetManager or CheckGetPump,                         *)
(*   - the boost thread that runs io_timer, whose handler is ping.         *)
(* Every call that goes over the network is a step of its own, so that a   *)
(* connection can be lost, or another thread can run, between any two.     *)
(***************************************************************************)
EXTENDS FiniteSets

CONSTANTS
  Callers,      \* threads that call the public operations
  InitCallers,  \* those of them that may run MicroserviceController::Init
  Chains,       \* deadline timers SetupPing may create (bounds the model)
  Logins,       \* manager logins; a login is also the session's token
  Servers,      \* addresses of MT4 servers
  Periods,      \* values of ping_seconds
  Interfaces,   \* CManagerInterface objects the DLL can create (a bound)
  None,         \* NULL, a missing map entry, a free mutex, an unset local
  Thrown        \* the outcome of a call that left by an exception

\* An entry of managerDB; the map's key holds the login.
ManagerInformation == [server: Servers, man: Interfaces, pump: Interfaces]

ASSUME ConstantsAssumption ==
  /\ InitCallers \subseteq Callers
  /\ Callers \cap Chains = {}
  /\ None \notin Callers \cup Chains \cup Logins \cup Servers \cup Interfaces
  /\ None \notin Periods \cup ManagerInformation
  /\ Thrown \notin Logins \cup Interfaces \cup {None}
  /\ Logins \cap Interfaces = {}
  /\ None \notin {"man", "pump"}

VARIABLES
  managerDB,      \* login -> ManagerInformation, or None when there is no entry
  lock,           \* owner of DBMutex
  pc,             \* where each caller is
  args,           \* arguments of each caller's current or last call
  man,            \* CheckGetToken's local man, per caller
  pump,           \* CheckGetToken's local pump, per caller
  conn,           \* checkConnection's parameter, per caller
  answer,         \* how each caller's last session call ended
  link,           \* state of each interface
  home,           \* server each interface was last connected to
  is_ping_setup,  \* SessionManager::is_ping_setup
  ping_seconds,   \* SessionManager::ping_seconds
  chain,          \* state of each deadline timer
  todo            \* interfaces the running ping has still to visit, per timer

callVars == <<pc, args, man, pump, conn, answer>>
linkVars == <<link, home>>
pingVars == <<is_ping_setup, ping_seconds, chain, todo>>
vars == <<managerDB, lock, callVars, linkVars, pingVars>>

(***************************************************************************)
(* An interface climbs this ladder; whatever is above "offline" counts as  *)
(* connected for CManagerInterface::IsConnected.                           *)
(***************************************************************************)
LinkStates == {"unmade", "offline", "online", "authed", "pumping"}
Connected == {"online", "authed", "pumping"}

Opening == {"create", "createPump", "connectMan", "loginMan",
            "connectPump", "loginPump", "switchPump"}
Reconnecting == {"reconnect", "relogin"}
SettingUp == {"setupPing", "armPing", "markSetup"}
Waiting == {"wantToken", "wantManager", "wantPump"}
Critical == Opening \cup Reconnecting

\* The interfaces managerDB holds.
Registered ==
  UNION { {managerDB[t].man, managerDB[t].pump} :
          t \in {u \in Logins : managerDB[u] # None} }

Init ==
  /\ managerDB = [t \in Logins |-> None]
  /\ lock = None
  /\ pc = [c \in Callers |-> "idle"]
  /\ args = [c \in Callers |->
              [login |-> None, server |-> None, seconds |-> None, role |-> None]]
  /\ man = [c \in Callers |-> None]
  /\ pump = [c \in Callers |-> None]
  /\ conn = [c \in Callers |-> None]
  /\ answer = [c \in Callers |-> None]
  /\ link = [i \in Interfaces |-> "unmade"]
  /\ home = [i \in Interfaces |-> None]
  /\ is_ping_setup = FALSE
  /\ ping_seconds = None
  /\ chain = [k \in Chains |-> "unarmed"]
  /\ todo = [k \in Chains |-> {}]

-----------------------------------------------------------------------------
(* Calls arriving.  A thread makes one call at a time.                      *)

Call(c, stage, a) ==
  /\ pc[c] = "idle"
  /\ pc' = [pc EXCEPT ![c] = stage]
  /\ args' = [args EXCEPT ![c] = a]
  /\ answer' = [answer EXCEPT ![c] = None]
  /\ UNCHANGED <<managerDB, lock, man, pump, conn, linkVars, pingVars>>

CallInit(c) ==
  /\ c \in InitCallers
  /\ \E t \in Logins, s \in Servers, p \in Periods :
       Call(c, "wantToken", [login |-> t, server |-> s, seconds |-> p, role |-> None])

CallManager(c) ==
  \E t \in Logins :
    Call(c, "wantManager",
         [login |-> t, server |-> None, seconds |-> None, role |-> "man"])

CallPump(c) ==
  \E t \in Logins :
    Call(c, "wantPump",
         [login |-> t, server |-> None, seconds |-> None, role |-> "pump"])

\* Leaving the critical section: the unique_lock's destructor runs, and the
\* locals go out of scope, whether the exit is a return or an exception.
Leave(c, stage, outcome) ==
  /\ lock' = None
  /\ pc' = [pc EXCEPT ![c] = stage]
  /\ answer' = [answer EXCEPT ![c] = outcome]
  /\ man' = [man EXCEPT ![c] = None]
  /\ pump' = [pump EXCEPT ![c] = None]
  /\ conn' = [conn EXCEPT ![c] = None]

Goto(c, stage) ==
  /\ pc' = [pc EXCEPT ![c] = stage]
  /\ UNCHANGED <<args, answer>>

-----------------------------------------------------------------------------
(* Mutants: definitions below, changed the way a plausible bug would.  Each  *)
(* shows that one of the properties can fail; no specification uses them.    *)

\* The exception leaves without running the unique_lock's destructor.
OpenFailsLocked(c) ==
  /\ pc[c] \in Opening
  /\ Goto(c, "idle")
  /\ UNCHANGED <<managerDB, lock, man, pump, conn, linkVars, pingVars>>

\* CheckGetToken looks the login up before it takes DBMutex.
TokenMissingUnlocked(c) ==
  /\ pc[c] = "wantToken"
  /\ managerDB[args[c].login] = None
  /\ lock' = c
  /\ Goto(c, "create")
  /\ UNCHANGED <<managerDB, man, pump, conn, linkVars, pingVars>>

\* The second Create is forgotten: pump is the man interface.
CreatePumpReusesMan(c) ==
  /\ pc[c] = "createPump"
  /\ pump' = [pump EXCEPT ![c] = man[c]]
  /\ Goto(c, "connectMan")
  /\ UNCHANGED <<managerDB, lock, man, conn, linkVars, pingVars>>

\* The token is returned, the session never inserted.
SwitchPumpForgetsInsert(c) ==
  /\ pc[c] = "switchPump"
  /\ link[pump[c]] = "authed"
  /\ link' = [link EXCEPT ![pump[c]] = "pumping"]
  /\ Leave(c, "setupPing", args[c].login)
  /\ UNCHANGED <<managerDB, args, home, pingVars>>

\* info.pump is never assigned.
SwitchPumpForgetsPump(c) ==
  /\ pc[c] = "switchPump"
  /\ link[pump[c]] = "authed"
  /\ link' = [link EXCEPT ![pump[c]] = "pumping"]
  /\ managerDB' = [managerDB EXCEPT ![args[c].login] =
                     [server |-> args[c].server, man |-> man[c], pump |-> None]]
  /\ Leave(c, "setupPing", args[c].login)
  /\ UNCHANGED <<args, home, pingVars>>

\* CheckGetPump is a copy of CheckGetManager, and its "man" has not been replaced.
WantedMan(c) == managerDB[args[c].login].man

\* The entry that is found is given the server of the new call, which it is not
\* connected to.
TokenFoundRenames(c) ==
  /\ pc[c] = "wantToken"
  /\ lock = None
  /\ managerDB[args[c].login] # None
  /\ managerDB' = [managerDB EXCEPT ![args[c].login].server = args[c].server]
  /\ Leave(c, "setupPing", args[c].login)
  /\ UNCHANGED <<args, linkVars, pingVars>>

\* A failed reconnection is answered with NULL, as if the token were unknown.
ReconnectFailsQuietly(c) ==
  /\ pc[c] \in Reconnecting
  /\ Leave(c, "idle", None)
  /\ UNCHANGED <<managerDB, args, linkVars, pingVars>>

\* is_ping_setup is never set.
MarkSetupForgotten(c) ==
  /\ pc[c] = "markSetup"
  /\ Goto(c, "idle")
  /\ UNCHANGED <<managerDB, lock, man, pump, conn, linkVars, pingVars>>

\* ping returns without re-arming the timer.
PingDoneOnce(k) ==
  /\ chain[k] = "pinging"
  /\ todo[k] = {}
  /\ lock' = None
  /\ chain' = [chain EXCEPT ![k] = "unarmed"]
  /\ UNCHANGED <<managerDB, callVars, linkVars, is_ping_setup, ping_seconds, todo>>

\* ping keeps DBMutex until the next deadline.
PingDoneLocked(k) ==
  /\ chain[k] = "pinging"
  /\ todo[k] = {}
  /\ chain' = [chain EXCEPT ![k] = "armed"]
  /\ UNCHANGED <<managerDB, lock, callVars, linkVars, is_ping_setup, ping_seconds, todo>>

-----------------------------------------------------------------------------
(* CheckGetToken.                                                           *)

\* The login has an entry: its token is the answer, whatever the server asked
\* for.
TokenFound(c) ==
  /\ pc[c] = "wantToken"
  /\ lock = None
  /\ managerDB[args[c].login] # None
  /\ Leave(c, "setupPing", args[c].login)
  /\ UNCHANGED <<managerDB, args, linkVars, pingVars>>

TokenMissing(c) ==
  /\ pc[c] = "wantToken"
  /\ lock = None
  /\ managerDB[args[c].login] = None
  /\ lock' = c
  /\ Goto(c, "create")
  /\ UNCHANGED <<managerDB, man, pump, conn, linkVars, pingVars>>

\* A new interface is never connected, so the IsConnected / Disconnect pair
\* that follows Create does nothing.
CreateMan(c) ==
  /\ pc[c] = "create"
  /\ \E i \in Interfaces :
       /\ link[i] = "unmade"
       /\ link' = [link EXCEPT ![i] = "offline"]
       /\ man' = [man EXCEPT ![c] = i]
  /\ Goto(c, "createPump")
  /\ UNCHANGED <<managerDB, lock, pump, conn, home, pingVars>>

CreatePump(c) ==
  /\ pc[c] = "createPump"
  /\ \E i \in Interfaces :
       /\ link[i] = "unmade"
       /\ link' = [link EXCEPT ![i] = "offline"]
       /\ pump' = [pump EXCEPT ![c] = i]
  /\ Goto(c, "connectMan")
  /\ UNCHANGED <<managerDB, lock, man, conn, home, pingVars>>

Connect(i, s) ==
  /\ link' = [link EXCEPT ![i] = "online"]
  /\ home' = [home EXCEPT ![i] = s]

\* Login succeeds only over a connection that is still there.
Login(i) ==
  /\ link[i] = "online"
  /\ link' = [link EXCEPT ![i] = "authed"]
  /\ UNCHANGED home

ConnectMan(c) ==
  /\ pc[c] = "connectMan"
  /\ Connect(man[c], args[c].server)
  /\ Goto(c, "loginMan")
  /\ UNCHANGED <<managerDB, lock, man, pump, conn, pingVars>>

LoginMan(c) ==
  /\ pc[c] = "loginMan"
  /\ Login(man[c])
  /\ Goto(c, "connectPump")
  /\ UNCHANGED <<managerDB, lock, man, pump, conn, pingVars>>

ConnectPump(c) ==
  /\ pc[c] = "connectPump"
  /\ Connect(pump[c], args[c].server)
  /\ Goto(c, "loginPump")
  /\ UNCHANGED <<managerDB, lock, man, pump, conn, pingVars>>

LoginPump(c) ==
  /\ pc[c] = "loginPump"
  /\ Login(pump[c])
  /\ Goto(c, "switchPump")
  /\ UNCHANGED <<managerDB, lock, man, pump, conn, pingVars>>

\* std::map::insert keeps an entry that is already there.
Insert(t, info) ==
  managerDB' = IF managerDB[t] = None THEN [managerDB EXCEPT ![t] = info]
                                      ELSE managerDB

\* PumpingSwitchEx succeeds; the session is inserted and its token returned.
SwitchPump(c) ==
  /\ pc[c] = "switchPump"
  /\ link[pump[c]] = "authed"
  /\ link' = [link EXCEPT ![pump[c]] = "pumping"]
  /\ Insert(args[c].login,
            [server |-> args[c].server, man |-> man[c], pump |-> pump[c]])
  /\ Leave(c, "setupPing", args[c].login)
  /\ UNCHANGED <<args, home, pingVars>>

\* Every throw of CheckGetToken: WinsockStartup, IsValid, Create, Connect,
\* Login or PumpingSwitchEx failed.  The interfaces made so far are neither
\* disconnected nor released.
OpenFails(c) ==
  /\ pc[c] \in Opening
  /\ Leave(c, "idle", Thrown)
  /\ UNCHANGED <<managerDB, args, linkVars, pingVars>>

-----------------------------------------------------------------------------
(* CheckGetManager, CheckGetPump and the checkConnection they share.        *)

\* The interface a look-up is after.
Wanted(c) ==
  IF pc[c] = "wantManager" THEN managerDB[args[c].login].man
                           ELSE managerDB[args[c].login].pump

LookupMissing(c) ==
  /\ pc[c] \in {"wantManager", "wantPump"}
  /\ lock = None
  /\ managerDB[args[c].login] = None
  /\ Leave(c, "idle", None)
  /\ UNCHANGED <<managerDB, args, linkVars, pingVars>>

LookupConnected(c) ==
  /\ pc[c] \in {"wantManager", "wantPump"}
  /\ lock = None
  /\ managerDB[args[c].login] # None
  /\ link[Wanted(c)] \in Connected
  /\ Leave(c, "idle", Wanted(c))
  /\ UNCHANGED <<managerDB, args, linkVars, pingVars>>

LookupOffline(c) ==
  /\ pc[c] \in {"wantManager", "wantPump"}
  /\ lock = None
  /\ managerDB[args[c].login] # None
  /\ link[Wanted(c)] \notin Connected
  /\ lock' = c
  /\ conn' = [conn EXCEPT ![c] = Wanted(c)]
  /\ Goto(c, "reconnect")
  /\ UNCHANGED <<managerDB, man, pump, linkVars, pingVars>>

Reconnect(c) ==
  /\ pc[c] = "reconnect"
  /\ Connect(conn[c], managerDB[args[c].login].server)
  /\ Goto(c, "relogin")
  /\ UNCHANGED <<managerDB, lock, man, pump, conn, pingVars>>

\* A pump interface is only logged in again: nothing here calls
\* PumpingSwitchEx.
Relogin(c) ==
  /\ pc[c] = "relogin"
  /\ Login(conn[c])
  /\ Leave(c, "idle", conn[c])
  /\ UNCHANGED <<managerDB, args, pingVars>>

ReconnectFails(c) ==
  /\ pc[c] \in Reconnecting
  /\ Leave(c, "idle", Thrown)
  /\ UNCHANGED <<managerDB, args, linkVars, pingVars>>

-----------------------------------------------------------------------------
(* SetupPing, which takes no lock, and the end of Init.                     *)

SetupDone(c) ==
  /\ pc[c] = "setupPing"
  /\ is_ping_setup
  /\ Goto(c, "idle")
  /\ UNCHANGED <<managerDB, lock, man, pump, conn, linkVars, pingVars>>

SetupNeeded(c) ==
  /\ pc[c] = "setupPing"
  /\ ~is_ping_setup
  /\ Goto(c, "armPing")
  /\ UNCHANGED <<managerDB, lock, man, pump, conn, linkVars, pingVars>>

\* Creates the timer, waits on it, and starts the thread that runs io_timer.
ArmPing(c) ==
  /\ pc[c] = "armPing"
  /\ ping_seconds' = args[c].seconds
  /\ \E k \in Chains :
       /\ chain[k] = "unarmed"
       /\ chain' = [chain EXCEPT ![k] = "armed"]
  /\ Goto(c, "markSetup")
  /\ UNCHANGED <<managerDB, lock, man, pump, conn, linkVars, is_ping_setup, todo>>

MarkSetup(c) ==
  /\ pc[c] = "markSetup"
  /\ is_ping_setup' = TRUE
  /\ Goto(c, "idle")
  /\ UNCHANGED <<managerDB, lock, man, pump, conn, linkVars,
                 ping_seconds, chain, todo>>

-----------------------------------------------------------------------------
(* ping, run by the timer thread when the deadline of timer k has passed.   *)

PingStart(k) ==
  /\ chain[k] = "armed"
  /\ lock = None
  /\ lock' = k
  /\ chain' = [chain EXCEPT ![k] = "pinging"]
  /\ todo' = [todo EXCEPT ![k] = Registered]
  /\ UNCHANGED <<managerDB, callVars, linkVars, is_ping_setup, ping_seconds>>

\* One Ping; its result is only logged.
PingOne(k) ==
  /\ chain[k] = "pinging"
  /\ \E i \in todo[k] : todo' = [todo EXCEPT ![k] = @ \ {i}]
  /\ UNCHANGED <<managerDB, lock, callVars, linkVars,
                 is_ping_setup, ping_seconds, chain>>

\* expires_at and async_wait re-arm the timer; the lock goes at the return.
PingDone(k) ==
  /\ chain[k] = "pinging"
  /\ todo[k] = {}
  /\ lock' = None
  /\ chain' = [chain EXCEPT ![k] = "armed"]
  /\ UNCHANGED <<managerDB, callVars, linkVars, is_ping_setup, ping_seconds, todo>>

-----------------------------------------------------------------------------
\* The environment: the server or the network drops a connection, and with it
\* the login and the pumping mode.
Drop(i) ==
  /\ link[i] \in Connected
  /\ link' = [link EXCEPT ![i] = "offline"]
  /\ UNCHANGED <<managerDB, lock, callVars, home, pingVars>>

TokenStep(c) ==
  \/ TokenFound(c) \/ TokenMissing(c) \/ CreateMan(c) \/ CreatePump(c)
  \/ ConnectMan(c) \/ LoginMan(c) \/ ConnectPump(c) \/ LoginPump(c)
  \/ SwitchPump(c) \/ OpenFails(c)

LookupStep(c) ==
  \/ LookupMissing(c) \/ LookupConnected(c) \/ LookupOffline(c)
  \/ Reconnect(c) \/ Relogin(c) \/ ReconnectFails(c)

SetupStep(c) == SetupDone(c) \/ SetupNeeded(c) \/ ArmPing(c) \/ MarkSetup(c)

PingStep(k) == PingStart(k) \/ PingOne(k) \/ PingDone(k)

Next ==
  \/ \E c \in Callers : CallInit(c) \/ CallManager(c) \/ CallPump(c)
  \/ \E c \in Callers : TokenStep(c) \/ LookupStep(c) \/ SetupStep(c)
  \/ \E k \in Chains : PingStep(k)
  \/ \E i \in Interfaces : Drop(i)

Spec == Init /\ [][Next]_vars
(***************************************************************************)
(* Fairness.  Connect, Login, PumpingSwitchEx and Ping come back, with a   *)
(* verdict or an error, because the DLL bounds every network call: weak    *)
(* fairness for the owner of DBMutex and for SetupPing.  A waiting thread  *)
(* competes with others for DBMutex, which is free again and again but not *)
(* for good: strong fairness, the assumption that std::mutex starves no    *)
(* waiter.  Calls arrive, and connections drop, at will or never.          *)
(***************************************************************************)
Fairness ==
  /\ \A c \in Callers : SF_vars(TokenStep(c)) /\ SF_vars(LookupStep(c))
  /\ \A c \in Callers : WF_vars(SetupStep(c))
  /\ \A k \in Chains : SF_vars(PingStart(k)) /\ WF_vars(PingOne(k) \/ PingDone(k))

FairSpec == Spec /\ Fairness

-----------------------------------------------------------------------------
(* Invariants.                                                              *)

\* Every variable keeps its type: a map entry is a complete session, a local
\* or an answer is one of the values the code can put there.
TypeOK ==
  /\ managerDB \in [Logins -> ManagerInformation \cup {None}]
  /\ lock \in Callers \cup Chains \cup {None}
  /\ pc \in [Callers -> {"idle"} \cup Waiting \cup Critical \cup SettingUp]
  /\ args \in [Callers -> [login: Logins \cup {None}, server: Servers \cup {None},
                            seconds: Periods \cup {None},
                            role: {"man", "pump", None}]]
  /\ man \in [Callers -> Interfaces \cup {None}]
  /\ pump \in [Callers -> Interfaces \cup {None}]
  /\ conn \in [Callers -> Interfaces \cup {None}]
  /\ answer \in [Callers -> Logins \cup Interfaces \cup {None, Thrown}]
  /\ link \in [Interfaces -> LinkStates]
  /\ home \in [Interfaces -> Servers \cup {None}]
  /\ is_ping_setup \in BOOLEAN
  /\ ping_seconds \in Periods \cup {None}
  /\ chain \in [Chains -> {"unarmed", "armed", "pinging"}]
  /\ todo \in [Chains -> SUBSET Interfaces]

\* DBMutex is owned exactly by the thread that is inside a critical section:
\* two threads are never inside at once, and no exit, the exceptional ones
\* included, leaves the mutex locked.
LockDiscipline ==
  /\ \A c \in Callers : pc[c] \in Critical <=> lock = c
  /\ \A k \in Chains : chain[k] = "pinging" <=> lock = k

\* While a thread opens a session, nobody registers one for the same login:
\* the find at the top of CheckGetToken still holds at the insert at its end.
OpeningIsNew ==
  \A c \in Callers : pc[c] \in Opening => managerDB[args[c].login] = None

\* A token that was handed out is, and stays, a key of managerDB, and it is
\* the login the caller asked for.
TokenIsRegistered ==
  \A c \in Callers :
    answer[c] \in Logins =>
      /\ answer[c] = args[c].login
      /\ managerDB[answer[c]] # None

\* No interface serves two sessions, or two roles of one, and none that is
\* still being opened is already registered.
InterfacesNotShared ==
  /\ \A t \in Logins : managerDB[t] # None => managerDB[t].man # managerDB[t].pump
  /\ \A t, u \in Logins :
       (t # u /\ managerDB[t] # None /\ managerDB[u] # None) =>
         {managerDB[t].man, managerDB[t].pump}
           \cap {managerDB[u].man, managerDB[u].pump} = {}
  /\ \A c \in Callers : {man[c], pump[c]} \cap Registered = {}

\* A registered session talks to the server it was registered for, also after
\* checkConnection has reconnected one of its interfaces.
SessionOnItsServer ==
  \A t \in Logins :
    managerDB[t] # None =>
      /\ home[managerDB[t].man] = managerDB[t].server
      /\ home[managerDB[t].pump] = managerDB[t].server

\* What a session has for a role.
InRole(session, role) == IF role = "man" THEN session.man ELSE session.pump

\* CheckGetManager answers with the man interface of the session that was asked
\* for, CheckGetPump with its pump interface, never with the other one or with
\* somebody else's, also after a reconnection and whatever is registered since.
AnswerIsOwn ==
  \A c \in Callers :
    answer[c] \in Interfaces =>
      /\ args[c].role \in {"man", "pump"}
      /\ managerDB[args[c].login] # None
      /\ answer[c] = InRole(managerDB[args[c].login], args[c].role)

\* SetupPing starts one timer however often Init is called.  The test of
\* is_ping_setup takes no lock, so this needs Init calls that do not overlap,
\* as in main.cpp.
OnePingChain == \A j, k \in Chains :
  (chain[j] # "unarmed" /\ chain[k] # "unarmed") => j = k

-----------------------------------------------------------------------------
(* Liveness.                                                                *)

\* Every call returns, one way or the other: no exit keeps DBMutex, and the
\* ping thread gives it back.
CallsReturn == \A c \in Callers : pc[c] # "idle" ~> pc[c] = "idle"

\* Once a timer is armed, both interfaces of every registered session are
\* visited by a ping, again and again: the timer re-arms itself and is not
\* starved of DBMutex.
SessionsPinged ==
  \A t \in Logins, k \in Chains :
    (managerDB[t] # None /\ chain[k] # "unarmed")
      ~> (chain[k] = "pinging" /\ {managerDB[t].man, managerDB[t].pump} \subseteq todo[k])

-----------------------------------------------------------------------------
(* What the logs and comments of the code say, and the code does not keep.  *)

\* microsvc_controller.cpp:46 logs "Inited <server> : <login>": the session
\* Init ends with is one on the server it was called for.
InitedOnServer ==
  \A c \in Callers :
    (pc[c] = "idle" /\ answer[c] \in Logins) =>
      managerDB[answer[c]].server = args[c].server

-----------------------------------------------------------------------------
\* The registry this module implements: a session call takes effect in one
\* step, the step that releases DBMutex.
StageOf(p) ==
  CASE p \in {"wantToken"} \cup Opening -> "token"
    [] p \in {"wantManager", "wantPump"} \cup Reconnecting -> "lookup"
    [] OTHER -> "none"

Stage == [c \in Callers |-> StageOf(pc[c])]

Registry == INSTANCE SessionRegistry WITH
  registry <- managerDB, stage <- Stage, asked <- args, reply <- answer

\* Whatever the interleaving of its network calls, the session manager looks
\* like a registry whose operations are atomic.
ImplementsRegistry == Registry!Spec
=============================================================================
