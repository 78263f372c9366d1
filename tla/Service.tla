------------------------------- MODULE Service -------------------------------
(***************************************************************************)
(* The process: src/src/main.cpp around the session manager, from          *)
(* hookSIGINT to the end of wmain, with src/src/config_manager.cpp and     *)
(* src/src/usr_interrupt_handler.hpp.                                      *)
(*                                                                         *)
(* Four threads meet: wmain, the ping timer's, the one the C run time      *)
(* creates for the handler of SIGINT, and Crow's, which wmain waits for in *)
(* run().  wmain's only session call is MicroserviceController::Init, so   *)
(* that SessionManager runs here with one caller.                          *)
(***************************************************************************)
EXTENDS SessionManager

CONSTANT Main  \* the thread that runs wmain

ASSUME MainAssumption == Callers = {Main} /\ InitCallers = {Main}

VARIABLES
  stage,     \* where wmain is
  config,    \* ConfigManager::_pt, for the keys wmain reads
  sigint,    \* whose handler SIGINT has: "default", "ours" or "other"
  trapped,   \* the thread of handleUserInterrupt is running
  notified   \* _condition was notified for a thread that waits for it

mainVars == <<stage, config, sigint, trapped, notified>>
sessionVars == <<managerDB, lock, callVars, linkVars, pingVars>>
serviceVars == <<mainVars, sessionVars>>

\* How wmain's time ends: the process exits, SIGINT kills it, or static objects
\* are destroyed while the ping thread may use them.
Ended == {"exited", "killed", "undefined"}
Stages == {"start", "load", "config", "serving", "init", "opening", "wait",
           "waiting", "clean", "exiting"} \cup Ended

Alive == stage \notin Ended

\* The keys that matter later, and one for the others wmain reads.
Keys == {"host", "login", "ping_seconds", "init_enabled", "other"}

ValuesOf(k) ==
  CASE k = "host" -> Servers
    [] k = "login" -> Logins
    [] k = "ping_seconds" -> Periods
    [] k = "init_enabled" -> {0, 1}
    [] OTHER -> {1}

Trees == {t \in [Keys -> (UNION {ValuesOf(k) : k \in Keys}) \cup {None}] :
            \A k \in Keys : t[k] \in ValuesOf(k) \cup {None}}

EmptyTree == [k \in Keys |-> None]

ServiceInit ==
  /\ Init
  /\ stage = "start"
  /\ config = EmptyTree
  /\ sigint = "default"
  /\ trapped = FALSE
  /\ notified = FALSE

Goes(from, to) == stage = from /\ stage' = to

-----------------------------------------------------------------------------
(* Mutants of definitions below; no specification uses them.                 *)

\* The exception of CheckGetToken is caught around Init, and wmain goes on.
InitFailsQuietly ==
  /\ Goes("opening", "wait")
  /\ answer[Main] = Thrown /\ pc[Main] = "idle"
  /\ UNCHANGED <<config, sigint, trapped, notified, sessionVars>>

\* The handler prints, and notifies nobody.
NotifyNobody ==
  /\ Alive /\ trapped
  /\ trapped' = FALSE
  /\ UNCHANGED <<stage, config, sigint, notified, sessionVars>>

-----------------------------------------------------------------------------
(* wmain.                                                                    *)

\* The handler is installed once, and Windows uninstalls it when it runs.
HookSIGINT ==
  /\ Goes("start", "load")
  /\ sigint' = "ours"
  /\ UNCHANGED <<config, trapped, notified, sessionVars>>

\* ConfigManager::Load: a file that is missing or malformed leaves the tree
\* empty; the result that says so is not looked at.
Load ==
  /\ Goes("load", "config")
  /\ config' \in Trees
  /\ UNCHANGED <<sigint, trapped, notified, sessionVars>>

\* Both forms of ConfigManager::Get throw for a key that is not there: the
\* default of the second is not used.
Missing == {k \in Keys : config[k] = None}

\* logging::init_from_stream may throw as well.
ConfigFails ==
  /\ Goes("config", "clean")
  /\ UNCHANGED <<config, sigint, trapped, notified, sessionVars>>

\* app.run().  Crow may take SIGINT over.
Serve ==
  /\ Goes("config", "serving")
  /\ Missing = {}
  /\ sigint' \in {sigint, "other"}
  /\ UNCHANGED <<config, trapped, notified, sessionVars>>

\* The port is in use.
ServeFails ==
  /\ Goes("serving", "clean")
  /\ UNCHANGED <<config, sigint, trapped, notified, sessionVars>>

\* run() returns.  Crow keeps SIGINT, if it has taken it, or gives it up.
Served ==
  /\ Goes("serving", IF config["init_enabled"] # 0 THEN "init" ELSE "wait")
  /\ sigint' \in {sigint} \cup (IF sigint = "other" THEN {"default"} ELSE {})
  /\ UNCHANGED <<config, trapped, notified, sessionVars>>

\* MicroserviceController::Init begins; SessionManager's steps take it on.
InitBegins ==
  /\ Goes("init", "opening")
  /\ Call(Main, "wantToken", [login |-> config["login"], server |-> config["host"],
                              seconds |-> config["ping_seconds"], role |-> None])
  /\ UNCHANGED <<config, sigint, trapped, notified>>

InitEnds ==
  /\ Goes("opening", "wait")
  /\ answer[Main] \in Logins /\ pc[Main] = "idle"
  /\ UNCHANGED <<config, sigint, trapped, notified, sessionVars>>

InitFails ==
  /\ Goes("opening", "clean")
  /\ answer[Main] = Thrown /\ pc[Main] = "idle"
  /\ UNCHANGED <<config, sigint, trapped, notified, sessionVars>>

\* waitForUserInterrupt: the wait forgets what was notified before.
WaitForUserInterrupt ==
  /\ Goes("wait", "waiting")
  /\ notified' = FALSE
  /\ UNCHANGED <<config, sigint, trapped, sessionVars>>

WakeUp ==
  /\ Goes("waiting", "clean")
  /\ notified
  /\ UNCHANGED <<config, sigint, trapped, notified, sessionVars>>

\* A condition variable may wake by itself, and the wait has no predicate.
WakeSpuriously ==
  /\ Goes("waiting", "clean")
  /\ ~notified
  /\ UNCHANGED <<config, sigint, trapped, notified, sessionVars>>

\* The destructor of server calls Clean, without DBMutex.  Each file that
\* includes microsvc_controller.hpp has a session of its own, and the one that
\* the linker's copy of the destructor means may have no factory; if it has,
\* WinsockCleanup may be the last use of Winsock and end all connections.
Clean ==
  /\ Goes("clean", "exiting")
  /\ link' \in {link,
                [i \in Interfaces |-> IF link[i] \in Connected THEN "offline"
                                                                 ELSE link[i]]}
  /\ UNCHANGED <<config, sigint, trapped, notified, managerDB, lock, callVars,
                 home, pingVars>>

\* wmain has returned, and the static objects are destroyed: the session with
\* its io_service and its timer, managerDB and DBMutex.  Nobody has joined the
\* timer's thread.  If there is one, it may use them after that, and whether the
\* process exits, crashes or hangs is not known.
Exit ==
  /\ stage = "exiting"
  /\ \/ stage' = "exited"
     \/ stage' = "undefined" /\ \E k \in Chains : chain[k] # "unarmed"
  /\ UNCHANGED <<config, sigint, trapped, notified, sessionVars>>

MainStep ==
  \/ HookSIGINT \/ Load \/ ConfigFails \/ Serve \/ InitBegins \/ InitEnds
  \/ InitFails \/ WaitForUserInterrupt \/ WakeUp \/ Clean \/ Exit

-----------------------------------------------------------------------------
(* SIGINT.  A handler of Crow's stops run(), which is Served, or is lost.    *)

Trap ==
  /\ Alive /\ sigint = "ours"
  /\ sigint' = "default"
  /\ trapped' = TRUE
  /\ UNCHANGED <<stage, config, notified, sessionVars>>

\* notify_one, which reaches a thread only if one is waiting.
Notify ==
  /\ Alive /\ trapped
  /\ trapped' = FALSE
  /\ notified' = (stage = "waiting")
  /\ UNCHANGED <<stage, config, sigint, sessionVars>>

Kill ==
  /\ Alive /\ sigint = "default"
  /\ stage' = "killed"
  /\ UNCHANGED <<config, sigint, trapped, notified, sessionVars>>

-----------------------------------------------------------------------------
\* A step of the session manager, while the process lives.
Within(A) == Alive /\ A /\ UNCHANGED mainVars

OpeningStep == Within(TokenStep(Main) \/ SetupStep(Main))

ServiceNext ==
  \/ MainStep \/ ServeFails \/ Served \/ WakeSpuriously
  \/ Trap \/ Notify \/ Kill
  \/ OpeningStep
  \/ \E k \in Chains : Within(PingStep(k))
  \/ \E i \in Interfaces : Within(Drop(i))

ServiceSpec == ServiceInit /\ [][ServiceNext]_serviceVars

(***************************************************************************)
(* Fairness.  wmain and the handler's thread run; the network calls of an  *)
(* opening come back; DBMutex starves nobody (as in SessionManager).  That *)
(* run() returns, SIGINT comes or the wait wakes by itself is not assumed. *)
(***************************************************************************)
ServiceFairness ==
  /\ WF_serviceVars(MainStep)
  /\ WF_serviceVars(Notify)
  /\ SF_serviceVars(OpeningStep)
  /\ \A k \in Chains :
       /\ SF_serviceVars(Within(PingStart(k)))
       /\ WF_serviceVars(Within(PingOne(k) \/ PingDone(k)))

ServiceFairSpec == ServiceSpec /\ ServiceFairness

-----------------------------------------------------------------------------
(* Properties.                                                               *)

\* A service that waits for its end with sessions enabled has the one that was
\* configured, on the configured server, and one timer that pings it with the
\* configured period: everything else has ended it before.
SessionAsConfigured ==
  (stage \in {"wait", "waiting"} /\ config["init_enabled"] # 0) =>
    /\ managerDB[config["login"]] # None
    /\ managerDB[config["login"]].server = config["host"]
    /\ ping_seconds = config["ping_seconds"]
    /\ is_ping_setup
    /\ \E k \in Chains : \A j \in Chains : chain[j] # "unarmed" <=> j = k

\* A SIGINT that is trapped while wmain waits, or has its handler running when
\* the wait begins, ends the wait and brings wmain to its return, though a ping
\* may be in a network call and own DBMutex.  What the destruction of the static
\* objects does after that is not claimed.
InterruptEndsWait == (trapped /\ stage = "waiting") ~> stage \in Ended

\* As long as the service waits, its session is pinged again and again.
WaitingPings ==
  \A t \in Logins :
    (stage = "waiting" /\ managerDB[t] # None)
      ~> \/ stage # "waiting"
         \/ \E k \in Chains :
              chain[k] = "pinging" /\ {managerDB[t].man, managerDB[t].pump} \subseteq todo[k]

=============================================================================
