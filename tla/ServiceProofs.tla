---------------------------- MODULE ServiceProofs ----------------------------
(***************************************************************************)
(* Proofs about Service, for any logins, servers, periods and interfaces,  *)
(* and any number of timers.                                               *)
(***************************************************************************)
EXTENDS Service, SessionManagerProofs

USE DEF callVars, linkVars, pingVars, vars, LinkStates, Connected, Opening,
        Reconnecting, SettingUp, Waiting, Critical

-----------------------------------------------------------------------------
(* What wmain knows of the session manager, stage by stage.                  *)

\* No session has been opened, and no timer made.
Untouched ==
  /\ managerDB = [t \in Logins |-> None]
  /\ ~is_ping_setup
  /\ \A k \in Chains : chain[k] = "unarmed"

\* The configured login has a session, on the configured server.
SessionOpen ==
  /\ managerDB[config["login"]] # None
  /\ managerDB[config["login"]].server = config["host"]

\* One timer runs, with the configured period.
Pinging ==
  /\ ping_seconds = config["ping_seconds"]
  /\ \E k \in Chains : \A j \in Chains : chain[j] # "unarmed" <=> j = k

\* Before wmain serves it has read every key.
ConfigOK ==
  /\ stage \in Stages
  /\ config \in [Keys -> (UNION {ValuesOf(k) : k \in Keys}) \cup {None}]
  /\ \A k \in Keys : config[k] \in ValuesOf(k) \cup {None}
  /\ stage \in {"serving", "init", "opening", "wait", "waiting"} => Missing = {}

\* wmain's only session call is Init's, and Init is on its way exactly in stage
\* "opening": what it has done so far is what its place says.
InitInv ==
  /\ stage \in {"start", "load", "config", "serving", "init"} => Untouched
  /\ stage \notin {"opening", "killed"} => pc[Main] = "idle"
  /\ stage = "opening" =>
       /\ args[Main] = [login |-> config["login"], server |-> config["host"],
                        seconds |-> config["ping_seconds"], role |-> None]
       /\ pc[Main] \in {"idle", "wantToken"} \cup Opening \cup SettingUp
       /\ pc[Main] \in {"wantToken"} \cup Opening => Untouched
       /\ pc[Main] \in SettingUp => SessionOpen /\ ~is_ping_setup
       /\ pc[Main] \in {"setupPing", "armPing"} => \A k \in Chains : chain[k] = "unarmed"
       /\ pc[Main] = "markSetup" => Pinging
       /\ pc[Main] = "idle" /\ answer[Main] # Thrown =>
            SessionOpen /\ Pinging /\ is_ping_setup

-----------------------------------------------------------------------------
(* What is proved of SessionManager holds in the process: its steps are the  *)
(* session manager's, but for the end, which may cut all connections.        *)

\* ~MicroserviceController, as the session manager sees it.
Cut ==
  /\ \A i \in Interfaces :
       link'[i] \in {link[i]} \cup (IF link[i] \in Connected THEN {"offline"} ELSE {})
  /\ link' \in [Interfaces -> LinkStates]
  /\ UNCHANGED <<managerDB, lock, callVars, home, pingVars>>

\* A login, a server and a period is what wmain passes on, for it has not come
\* to Init without them.
LEMMA ConfiguredCall ==
  ASSUME ConfigOK, stage \in {"serving", "init", "opening", "wait", "waiting"}
  PROVE  /\ config["login"] \in Logins
         /\ config["host"] \in Servers
         /\ config["ping_seconds"] \in Periods
<1>1. \A k \in Keys : config[k] \in ValuesOf(k)
  BY DEF ConfigOK, Missing
<1>2. {"login", "host", "ping_seconds"} \subseteq Keys
  BY DEF Keys
<1>3. config["login"] \in ValuesOf("login")
  BY <1>1, <1>2
<1>4. config["host"] \in ValuesOf("host")
  BY <1>1, <1>2
<1>5. config["ping_seconds"] \in ValuesOf("ping_seconds")
  BY <1>1, <1>2
<1>. QED
  BY <1>3, <1>4, <1>5 DEF ValuesOf

\* Init is called with what the configuration says.
LEMMA InitBeginsCalls ==
  ASSUME ConfigOK, InitBegins
  PROVE  CallInit(Main)
<1>1. Main \in InitCallers
  BY MainAssumption
<1>2. /\ config["login"] \in Logins
      /\ config["host"] \in Servers
      /\ config["ping_seconds"] \in Periods
  BY ConfiguredCall DEF InitBegins, Goes
<1>. QED
  BY <1>1, <1>2 DEF InitBegins, CallInit

\* Every step of the process is a step of the session manager, or cuts its
\* connections, or leaves it alone.
LEMMA SessionGoesOn ==
  ASSUME TypeOK, ConfigOK, [ServiceNext]_serviceVars
  PROVE  [Next]_vars \/ Cut
<1>1. CASE Clean
  <2>1. link' \in [Interfaces -> LinkStates]
    BY <1>1 DEF Clean, TypeOK
  <2>. QED
    BY <1>1, <2>1 DEF Clean, Cut, TypeOK
<1>2. CASE InitBegins
  <2>1. Main \in Callers
    BY MainAssumption
  <2>. QED
    BY <1>2, <2>1, InitBeginsCalls DEF Next
<1>3. CASE OpeningStep
  <2>1. Main \in Callers
    BY MainAssumption
  <2>. QED
    BY <1>3, <2>1 DEF OpeningStep, Within, Next
<1>4. ASSUME NEW k \in Chains, Within(PingStep(k)) PROVE Next
  BY <1>4 DEF Within, Next
<1>5. ASSUME NEW i \in Interfaces, Within(Drop(i)) PROVE Next
  BY <1>5 DEF Within, Next
<1>6. CASE HookSIGINT \/ Load \/ ConfigFails \/ Serve \/ InitEnds \/ InitFails
           \/ WaitForUserInterrupt \/ WakeUp \/ Exit \/ ServeFails \/ Served
           \/ WakeSpuriously \/ Trap \/ Notify \/ Kill
  BY <1>6 DEF HookSIGINT, Load, ConfigFails, Serve, InitEnds, InitFails,
       WaitForUserInterrupt, WakeUp, Exit, ServeFails, Served, WakeSpuriously,
       Trap, Notify, Kill, sessionVars
<1>7. CASE UNCHANGED serviceVars
  BY <1>7 DEF serviceVars, sessionVars
<1>. QED
  BY <1>1, <1>2, <1>3, <1>4, <1>5, <1>6, <1>7 DEF ServiceNext, MainStep

\* A connection that is cut takes nothing from managerDB, a local or a timer.
LEMMA CutKeepsInv == Inv /\ Cut => Inv'
<1> SUFFICES ASSUME Inv, Cut PROVE Inv'
  OBVIOUS
<1>1. TypeInv'
  BY SMTT(30) DEF Inv, TypeInv, TypeOK, LocalsOK, Cut
<1>2. LockDiscipline'
  BY DEF Inv, LockDiscipline, Cut
<1>3. RegistryInv'
  BY DEF Inv, RegistryInv, OpeningIsNew, TokenIsRegistered, AnswerIsOwn,
         ReconnectsOwn, InRole, Cut
<1>4. SharingInv'
  <2>1. \A i \in Interfaces : link[i] # "unmade" => link'[i] # "unmade"
    BY DEF Cut
  <2>2. Created'
    BY <2>1 DEF Inv, TypeInv, TypeOK, ManagerInformation, SharingInv, Created, Cut
  <2>3. Exclusive'
    BY DEF Inv, SharingInv, Exclusive, Cut
  <2>. QED
    BY <2>2, <2>3 DEF SharingInv
<1>5. ServerInv'
  BY DEF Inv, ServerInv, OpeningOnItsServer, SessionOnItsServer, Cut
<1>. QED
  BY <1>1, <1>2, <1>3, <1>4, <1>5 DEF Inv

\* wmain runs Init, and nobody else does.
LEMMA MainAlone == OneInitThread
  BY MainAssumption DEF OneInitThread

\* The invariants of the session manager, in the process.
SessionInv == Inv /\ PingInv

\* They hold at the start, before any call.
LEMMA SessionInvInit == ServiceInit => SessionInv
<1>1. Init => PingInv
  BY DEF Init, PingInv, OnePingChain
<1>. QED
  BY <1>1, InvInit DEF ServiceInit, SessionInv

\* Every step of the process keeps them.
LEMMA SessionInvStep ==
  ConfigOK /\ SessionInv /\ [ServiceNext]_serviceVars => SessionInv'
<1> SUFFICES ASSUME ConfigOK, SessionInv, [ServiceNext]_serviceVars
             PROVE  SessionInv'
  OBVIOUS
<1>1. [Next]_vars \/ Cut
  BY SessionGoesOn DEF SessionInv, Inv, TypeInv
<1>2. CASE [Next]_vars
  BY <1>2, InvStep, PingInvStep, MainAlone DEF SessionInv, Inv
<1>3. CASE Cut
  <2>1. PingInv'
    BY <1>3 DEF SessionInv, PingInv, OnePingChain, Cut
  <2>. QED
    BY <1>3, <2>1, CutKeepsInv DEF SessionInv
<1>. QED
  BY <1>1, <1>2, <1>3

-----------------------------------------------------------------------------
(* The configuration, and the session Init opens for it.                     *)

\* Load takes what the file holds, and wmain serves only if nothing is missing.
LEMMA ConfigStep == ConfigOK /\ [ServiceNext]_serviceVars => ConfigOK'
<1> SUFFICES ASSUME ConfigOK, [ServiceNext]_serviceVars PROVE ConfigOK'
  OBVIOUS
<1>1. CASE Load
  BY <1>1 DEF Load, Goes, Trees, ConfigOK, Stages, Ended
<1>2. CASE Serve
  BY <1>2 DEF Serve, Goes, ConfigOK, Stages, Ended, Missing
<1>3. CASE HookSIGINT \/ ConfigFails \/ InitBegins \/ InitEnds \/ InitFails
           \/ WaitForUserInterrupt \/ WakeUp \/ Clean \/ Exit \/ ServeFails
           \/ Served \/ WakeSpuriously \/ Kill
  BY <1>3 DEF HookSIGINT, ConfigFails, InitBegins, InitEnds, InitFails,
       WaitForUserInterrupt, WakeUp, Clean, Exit, ServeFails, Served,
       WakeSpuriously, Kill, Goes, ConfigOK, Stages, Ended, Missing
<1>4. CASE UNCHANGED <<stage, config>>
  BY <1>4 DEF ConfigOK, Missing
<1>. QED
  BY <1>1, <1>2, <1>3, <1>4
  DEF ServiceNext, MainStep, Trap, Notify, OpeningStep, Within, mainVars, serviceVars

\* Init goes its way from the call to the answer, with nothing else touching the
\* registry or the timer: at the start nothing is registered, so CheckGetToken
\* opens the configured session; no timer runs, so SetupPing arms one.
LEMMA InitStep ==
  SessionInv /\ ConfigOK /\ InitInv /\ [ServiceNext]_serviceVars => InitInv'
<1> SUFFICES ASSUME SessionInv, ConfigOK, InitInv, [ServiceNext]_serviceVars
             PROVE  InitInv'
  OBVIOUS
<1> USE MainAssumption, ConstantsAssumption
    DEF SessionInv, Inv, TypeInv, TypeOK, InitInv, Untouched, SessionOpen, Pinging,
        Leave, Goto
<1>1. CASE HookSIGINT \/ Load \/ ConfigFails \/ Serve \/ ServeFails \/ Served
  BY <1>1 DEF HookSIGINT, Load, ConfigFails, Serve, ServeFails, Served, Goes,
       sessionVars
<1>2. CASE InitBegins
  <2>1. pc[Main] = "idle" /\ pc'[Main] = "wantToken"
    BY <1>2 DEF InitBegins, Goes, Call
  <2>. QED
    BY <1>2, <2>1 DEF InitBegins, Goes, Call
<1>3. CASE InitEnds \/ InitFails
  BY <1>3 DEF InitEnds, InitFails, Goes, sessionVars
<1>4. CASE WaitForUserInterrupt \/ WakeUp \/ WakeSpuriously \/ Clean \/ Exit
  BY <1>4 DEF WaitForUserInterrupt, WakeUp, WakeSpuriously, Clean, Exit, Goes,
       sessionVars
<1>5. CASE Trap \/ Notify
  BY <1>5 DEF Trap, Notify, sessionVars
<1>6. CASE Kill
  BY <1>6 DEF Kill, sessionVars
<1>7. CASE OpeningStep
  <2>1. pc[Main] # "idle" /\ UNCHANGED mainVars /\ Alive
    BY <1>7 DEF OpeningStep, Within, TokenStep, TokenFound, TokenMissing, CreateMan,
         CreatePump, ConnectMan, LoginMan, ConnectPump, LoginPump, SwitchPump,
         OpenFails, SetupStep, SetupDone, SetupNeeded, ArmPing, MarkSetup
  <2>2. stage = "opening" /\ UNCHANGED <<stage, config>>
    BY <2>1 DEF Alive, Ended, mainVars
  <2>3. CASE TokenFound(Main)
    BY <2>2, <2>3, ConfiguredCall DEF TokenFound
  <2>4. CASE TokenMissing(Main) \/ CreateMan(Main) \/ CreatePump(Main)
             \/ ConnectMan(Main) \/ LoginMan(Main) \/ ConnectPump(Main)
             \/ LoginPump(Main)
    BY <2>2, <2>4 DEF TokenMissing, CreateMan, CreatePump, ConnectMan, LoginMan,
         ConnectPump, LoginPump
  <2>5. CASE SwitchPump(Main)
    <3>1. config["login"] \in Logins /\ config["host"] \in Servers
      BY <2>2, ConfiguredCall
    <3>2. managerDB'[config["login"]]
            = [server |-> config["host"], man |-> man[Main], pump |-> pump[Main]]
      BY <2>2, <2>5, <3>1, SMTT(30) DEF SwitchPump, Insert
    <3>3. managerDB'[config["login"]] \in ManagerInformation
      BY <2>5, <3>1, <3>2 DEF SwitchPump, LocalsOK, ManagerInformation
    <3>. QED
      BY <2>2, <2>5, <3>2, <3>3 DEF SwitchPump
  <2>6. CASE OpenFails(Main)
    BY <2>2, <2>6 DEF OpenFails
  <2>7. CASE SetupDone(Main)
    BY <2>2, <2>7 DEF SetupDone
  <2>8. CASE SetupNeeded(Main)
    BY <2>2, <2>8 DEF SetupNeeded
  <2>9. CASE ArmPing(Main)
    BY <2>2, <2>9 DEF ArmPing
  <2>10. CASE MarkSetup(Main)
    BY <2>2, <2>10 DEF MarkSetup
  <2>. QED
    BY <1>7, <2>3, <2>4, <2>5, <2>6, <2>7, <2>8, <2>9, <2>10
    DEF OpeningStep, Within, TokenStep, SetupStep
<1>8. ASSUME NEW k \in Chains, Within(PingStep(k)) PROVE InitInv'
  <2>1. \A j \in Chains : chain'[j] = "unarmed" <=> chain[j] = "unarmed"
    BY <1>8 DEF Within, PingStep, PingStart, PingOne, PingDone
  <2>2. UNCHANGED <<stage, config, managerDB, callVars, is_ping_setup, ping_seconds>>
    BY <1>8 DEF Within, mainVars, PingStep, PingStart, PingOne, PingDone
  <2>. QED
    BY <2>1, <2>2
<1>9. ASSUME NEW i \in Interfaces, Within(Drop(i)) PROVE InitInv'
  BY <1>9 DEF Within, mainVars, Drop
<1>10. CASE UNCHANGED serviceVars
  BY <1>10 DEF serviceVars, mainVars, sessionVars
<1>. QED
  BY <1>1, <1>2, <1>3, <1>4, <1>5, <1>6, <1>7, <1>8, <1>9, <1>10
  DEF ServiceNext, MainStep

\* What Init has left stays: no other call reaches the session manager, the
\* timer re-arms itself, and lost connections leave the registry alone.
LEMMA ConfiguredStep ==
  SessionInv /\ ConfigOK /\ InitInv /\ SessionAsConfigured
      /\ [ServiceNext]_serviceVars
    => SessionAsConfigured'
<1> SUFFICES ASSUME SessionInv, ConfigOK, InitInv, SessionAsConfigured,
                    [ServiceNext]_serviceVars
             PROVE  SessionAsConfigured'
  OBVIOUS
<1> USE MainAssumption, ConstantsAssumption DEF SessionAsConfigured
<1>1. CASE Served
  BY <1>1 DEF Served, Goes
<1>2. CASE InitEnds
  BY <1>2 DEF InitEnds, Goes, sessionVars, InitInv, SessionOpen, Pinging
<1>3. CASE WaitForUserInterrupt
  BY <1>3 DEF WaitForUserInterrupt, Goes, sessionVars
<1>4. CASE HookSIGINT \/ Load \/ ConfigFails \/ Serve \/ ServeFails \/ InitBegins
           \/ InitFails \/ WakeUp \/ WakeSpuriously \/ Clean \/ Exit \/ Kill
  BY <1>4 DEF HookSIGINT, Load, ConfigFails, Serve, ServeFails, InitBegins,
       InitFails, WakeUp, WakeSpuriously, Clean, Exit, Kill, Goes
<1>5. CASE Trap \/ Notify
  BY <1>5 DEF Trap, Notify, sessionVars
<1>6. CASE OpeningStep
  <2>1. pc[Main] # "idle"
    BY <1>6 DEF OpeningStep, Within, TokenStep, TokenFound, TokenMissing, CreateMan,
         CreatePump, ConnectMan, LoginMan, ConnectPump, LoginPump, SwitchPump,
         OpenFails, SetupStep, SetupDone, SetupNeeded, ArmPing, MarkSetup
  <2>2. stage = "opening" /\ stage' = stage
    BY <1>6, <2>1 DEF OpeningStep, Within, Alive, Ended, mainVars, InitInv
  <2>. QED
    BY <2>2
<1>7. ASSUME NEW k \in Chains, Within(PingStep(k)) PROVE SessionAsConfigured'
  <2>1. \A j \in Chains : chain'[j] = "unarmed" <=> chain[j] = "unarmed"
    BY <1>7 DEF SessionInv, Inv, TypeInv, TypeOK, Within, PingStep, PingStart,
         PingOne, PingDone
  <2>2. UNCHANGED <<stage, config, managerDB, is_ping_setup, ping_seconds>>
    BY <1>7 DEF Within, mainVars, PingStep, PingStart, PingOne, PingDone
  <2>. QED
    BY <2>1, <2>2
<1>8. ASSUME NEW i \in Interfaces, Within(Drop(i)) PROVE SessionAsConfigured'
  BY <1>8 DEF Within, mainVars, Drop
<1>9. CASE UNCHANGED serviceVars
  BY <1>9 DEF serviceVars, mainVars, sessionVars
<1>. QED
  BY <1>1, <1>2, <1>3, <1>4, <1>5, <1>6, <1>7, <1>8, <1>9
  DEF ServiceNext, MainStep

\* The inductive invariant of the process.
ServiceInv == SessionInv /\ ConfigOK /\ InitInv /\ SessionAsConfigured

\* The process starts without a configuration, a session or a timer.
LEMMA ServiceInvInit == ServiceInit => ServiceInv
<1> SUFFICES ASSUME ServiceInit PROVE ServiceInv
  OBVIOUS
<1>1. SessionInv
  BY SessionInvInit
<1>2. ConfigOK
  <2>1. config = [k \in Keys |-> None]
    BY DEF ServiceInit, EmptyTree
  <2>. QED
    BY <2>1 DEF ServiceInit, ConfigOK, Stages, Ended
<1>3. InitInv
  BY MainAssumption DEF ServiceInit, Init, InitInv, Untouched
<1>4. SessionAsConfigured
  BY DEF ServiceInit, SessionAsConfigured
<1>. QED
  BY <1>1, <1>2, <1>3, <1>4 DEF ServiceInv

\* Every step of every thread keeps it.
LEMMA ServiceInvStep == ServiceInv /\ [ServiceNext]_serviceVars => ServiceInv'
  BY SessionInvStep, ConfigStep, InitStep, ConfiguredStep DEF ServiceInv

-----------------------------------------------------------------------------
(* Theorems.                                                                 *)

\* A service that waits has the configured session, on the configured server,
\* and one timer with the configured period, whatever its threads and the
\* network do.
THEOREM SessionIsConfigured == ServiceSpec => []SessionAsConfigured
<1>1. ServiceInv => SessionAsConfigured
  BY DEF ServiceInv
<1>. QED
  BY <1>1, ServiceInvInit, ServiceInvStep, PTL DEF ServiceSpec

\* From the start of wmain to its return the locks, the registry and the timer are
\* as they are in the session manager alone.  Nothing is claimed of the time after,
\* when static objects are destroyed.
THEOREM SessionsSafe ==
  ServiceSpec => [](/\ LockDiscipline /\ OpeningIsNew /\ TokenIsRegistered
                    /\ AnswerIsOwn /\ InterfacesNotShared /\ SessionOnItsServer
                    /\ OnePingChain)
<1>1. ServiceInv => /\ LockDiscipline /\ OpeningIsNew /\ TokenIsRegistered
                    /\ AnswerIsOwn /\ InterfacesNotShared /\ SessionOnItsServer
                    /\ OnePingChain
  BY ExclusiveMeansNotShared
  DEF ServiceInv, SessionInv, Inv, RegistryInv, SharingInv, ServerInv, PingInv
<1>. QED
  BY <1>1, ServiceInvInit, ServiceInvStep, PTL DEF ServiceSpec

\* The process implements the registry of atomic operations as well: the end of
\* wmain takes nothing out of it.
THEOREM ServiceRefinement == ServiceSpec => ImplementsRegistry
<1>1. ServiceInit => Registry!Init
  <2>1. StageOf("idle") = "none"
    BY DEF StageOf
  <2>. QED
    BY <2>1 DEF ServiceInit, Init, Registry!Init, Stage
<1>2. ServiceInv /\ [ServiceNext]_serviceVars => [Registry!Next]_(Registry!vars)
  <2> SUFFICES ASSUME ServiceInv, [ServiceNext]_serviceVars
               PROVE  [Registry!Next]_(Registry!vars)
    OBVIOUS
  <2>1. Inv /\ ([Next]_vars \/ Cut)
    BY SessionGoesOn DEF ServiceInv, SessionInv, Inv, TypeInv
  <2>2. CASE [Next]_vars
    BY <2>1, <2>2, StepRefines
  <2>3. CASE Cut
    BY <2>3, StageSame DEF Cut, Registry!vars
  <2>. QED
    BY <2>1, <2>2, <2>3
<1>. QED
  BY <1>1, <1>2, ServiceInvInit, ServiceInvStep, PTL
  DEF ServiceSpec, ImplementsRegistry, Registry!Spec
=============================================================================
