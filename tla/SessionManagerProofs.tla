------------------------ MODULE SessionManagerProofs ------------------------
(***************************************************************************)
(* Proofs about SessionManager, for any sets of threads, logins, servers   *)
(* and interfaces.                                                         *)
(***************************************************************************)
EXTENDS SessionManager, TLAPS

(***************************************************************************)
(* Where a thread is tells which of its locals are set, and that its       *)
(* arguments are those of the call it is in.                               *)
(***************************************************************************)
LocalsOK ==
  \A c \in Callers :
    /\ pc[c] # "idle" => args[c].login \in Logins
    /\ pc[c] \in {"wantToken"} \cup Opening \cup SettingUp =>
         args[c].server \in Servers /\ args[c].seconds \in Periods
    /\ man[c] # None <=> pc[c] \in Opening \ {"create"}
    /\ pump[c] # None <=> pc[c] \in Opening \ {"create", "createPump"}
    /\ conn[c] # None <=> pc[c] \in Reconnecting
    /\ pc[c] \in Reconnecting => managerDB[args[c].login] # None
    /\ pc[c] = "wantManager" => args[c].role = "man"
    /\ pc[c] = "wantPump" => args[c].role = "pump"
    /\ pc[c] \in Reconnecting => args[c].role \in {"man", "pump"}

TypeInv == TypeOK /\ LocalsOK

USE DEF callVars, linkVars, pingVars, vars, LinkStates, Connected, Opening,
        Reconnecting, SettingUp, Waiting, Critical

\* No call and no ping ever leaves a variable outside its type; the invariant
\* that carries the proof adds what each stage of a call knows of its locals.
LEMMA TypeInvInit == Init => TypeInv
<1> SUFFICES ASSUME Init PROVE TypeInv
  OBVIOUS
<1>1. TypeOK
  BY DEF Init, TypeOK
<1>2. LocalsOK
  BY DEF Init, LocalsOK
<1>. QED
  BY <1>1, <1>2 DEF TypeInv

\* Every action keeps types and locals in step with pc.
LEMMA TypeInvStep == TypeInv /\ [Next]_vars => TypeInv'
<1> SUFFICES ASSUME TypeInv, [Next]_vars PROVE TypeInv'
  OBVIOUS
<1> USE ConstantsAssumption DEF TypeInv, TypeOK, LocalsOK, ManagerInformation,
        Leave, Goto
<1>1. ASSUME NEW c \in Callers, CallInit(c) PROVE TypeInv'
  BY <1>1, SMTT(30) DEF CallInit, Call
<1>2. ASSUME NEW c \in Callers, CallManager(c) PROVE TypeInv'
  BY <1>2, SMTT(30) DEF CallManager, Call
<1>3. ASSUME NEW c \in Callers, CallPump(c) PROVE TypeInv'
  BY <1>3, SMTT(30) DEF CallPump, Call
<1>4. ASSUME NEW c \in Callers, TokenFound(c) PROVE TypeInv'
  BY <1>4, SMTT(30) DEF TokenFound
<1>5. ASSUME NEW c \in Callers, TokenMissing(c) PROVE TypeInv'
  BY <1>5, SMTT(30) DEF TokenMissing
<1>6. ASSUME NEW c \in Callers, CreateMan(c) PROVE TypeInv'
  BY <1>6, SMTT(30) DEF CreateMan
<1>7. ASSUME NEW c \in Callers, CreatePump(c) PROVE TypeInv'
  BY <1>7, SMTT(30) DEF CreatePump
<1>8. ASSUME NEW c \in Callers, ConnectMan(c) PROVE TypeInv'
  BY <1>8, SMTT(30) DEF ConnectMan, Connect
<1>9. ASSUME NEW c \in Callers, LoginMan(c) PROVE TypeInv'
  BY <1>9, SMTT(30) DEF LoginMan, Login
<1>10. ASSUME NEW c \in Callers, ConnectPump(c) PROVE TypeInv'
  BY <1>10, SMTT(30) DEF ConnectPump, Connect
<1>11. ASSUME NEW c \in Callers, LoginPump(c) PROVE TypeInv'
  BY <1>11, SMTT(30) DEF LoginPump, Login
<1>12. ASSUME NEW c \in Callers, SwitchPump(c) PROVE TypeInv'
  BY <1>12, SMTT(30) DEF SwitchPump, Insert
<1>13. ASSUME NEW c \in Callers, OpenFails(c) PROVE TypeInv'
  BY <1>13, SMTT(30) DEF OpenFails
<1>14. ASSUME NEW c \in Callers, LookupMissing(c) PROVE TypeInv'
  BY <1>14, SMTT(30) DEF LookupMissing
<1>15. ASSUME NEW c \in Callers, LookupConnected(c) PROVE TypeInv'
  BY <1>15, SMTT(30) DEF LookupConnected, Wanted
<1>16. ASSUME NEW c \in Callers, LookupOffline(c) PROVE TypeInv'
  BY <1>16, SMTT(30) DEF LookupOffline, Wanted
<1>17. ASSUME NEW c \in Callers, Reconnect(c) PROVE TypeInv'
  BY <1>17, SMTT(30) DEF Reconnect, Connect
<1>18. ASSUME NEW c \in Callers, Relogin(c) PROVE TypeInv'
  BY <1>18, SMTT(30) DEF Relogin, Login
<1>19. ASSUME NEW c \in Callers, ReconnectFails(c) PROVE TypeInv'
  BY <1>19, SMTT(30) DEF ReconnectFails
<1>20. ASSUME NEW c \in Callers, SetupDone(c) PROVE TypeInv'
  BY <1>20, SMTT(30) DEF SetupDone
<1>21. ASSUME NEW c \in Callers, SetupNeeded(c) PROVE TypeInv'
  BY <1>21, SMTT(30) DEF SetupNeeded
<1>22. ASSUME NEW c \in Callers, ArmPing(c) PROVE TypeInv'
  BY <1>22, SMTT(30) DEF ArmPing
<1>23. ASSUME NEW c \in Callers, MarkSetup(c) PROVE TypeInv'
  BY <1>23, SMTT(30) DEF MarkSetup
<1>24. ASSUME NEW k \in Chains, PingStart(k) PROVE TypeInv'
  BY <1>24, SMTT(30) DEF PingStart, Registered
<1>25. ASSUME NEW k \in Chains, PingOne(k) PROVE TypeInv'
  BY <1>25, SMTT(30) DEF PingOne
<1>26. ASSUME NEW k \in Chains, PingDone(k) PROVE TypeInv'
  BY <1>26, SMTT(30) DEF PingDone
<1>27. ASSUME NEW i \in Interfaces, Drop(i) PROVE TypeInv'
  BY <1>27, SMTT(30) DEF Drop
<1>28. CASE UNCHANGED vars
  BY <1>28, SMTT(30)
<1>. QED
  BY <1>1, <1>2, <1>3, <1>4, <1>5, <1>6, <1>7, <1>8, <1>9, <1>10, <1>11,
     <1>12, <1>13, <1>14, <1>15, <1>16, <1>17, <1>18, <1>19, <1>20,
     <1>21, <1>22, <1>23, <1>24, <1>25, <1>26, <1>27, <1>28
  DEF Next, TokenStep, LookupStep, SetupStep, PingStep

\* Every reachable state is well typed, for any number of threads and sessions.
THEOREM TypeCorrect == Spec => []TypeOK
<1>1. TypeInv => TypeOK
  BY DEF TypeInv
<1>. QED
  BY <1>1, TypeInvInit, TypeInvStep, PTL DEF Spec
-----------------------------------------------------------------------------
\* DBMutex has one owner, the thread inside a critical section, and every exit
\* from CheckGetToken, checkConnection and ping gives it back.
LEMMA LockStep ==
  TypeInv /\ LockDiscipline /\ [Next]_vars => LockDiscipline'
<1> SUFFICES ASSUME TypeInv, LockDiscipline, [Next]_vars PROVE LockDiscipline'
  OBVIOUS
<1> USE ConstantsAssumption DEF TypeInv, TypeOK, LockDiscipline, Leave, Goto
<1>1. ASSUME NEW c \in Callers, CallInit(c) PROVE LockDiscipline'
  BY <1>1 DEF CallInit, Call
<1>2. ASSUME NEW c \in Callers, CallManager(c) PROVE LockDiscipline'
  BY <1>2 DEF CallManager, Call
<1>3. ASSUME NEW c \in Callers, CallPump(c) PROVE LockDiscipline'
  BY <1>3 DEF CallPump, Call
<1>4. ASSUME NEW c \in Callers, TokenFound(c) PROVE LockDiscipline'
  BY <1>4 DEF TokenFound
<1>5. ASSUME NEW c \in Callers, TokenMissing(c) PROVE LockDiscipline'
  BY <1>5 DEF TokenMissing
<1>6. ASSUME NEW c \in Callers, CreateMan(c) PROVE LockDiscipline'
  BY <1>6 DEF CreateMan
<1>7. ASSUME NEW c \in Callers, CreatePump(c) PROVE LockDiscipline'
  BY <1>7 DEF CreatePump
<1>8. ASSUME NEW c \in Callers, ConnectMan(c) PROVE LockDiscipline'
  BY <1>8 DEF ConnectMan, Connect
<1>9. ASSUME NEW c \in Callers, LoginMan(c) PROVE LockDiscipline'
  BY <1>9 DEF LoginMan, Login
<1>10. ASSUME NEW c \in Callers, ConnectPump(c) PROVE LockDiscipline'
  BY <1>10 DEF ConnectPump, Connect
<1>11. ASSUME NEW c \in Callers, LoginPump(c) PROVE LockDiscipline'
  BY <1>11 DEF LoginPump, Login
<1>12. ASSUME NEW c \in Callers, SwitchPump(c) PROVE LockDiscipline'
  BY <1>12 DEF SwitchPump, Insert
<1>13. ASSUME NEW c \in Callers, OpenFails(c) PROVE LockDiscipline'
  BY <1>13 DEF OpenFails
<1>14. ASSUME NEW c \in Callers, LookupMissing(c) PROVE LockDiscipline'
  BY <1>14 DEF LookupMissing
<1>15. ASSUME NEW c \in Callers, LookupConnected(c) PROVE LockDiscipline'
  BY <1>15 DEF LookupConnected, Wanted
<1>16. ASSUME NEW c \in Callers, LookupOffline(c) PROVE LockDiscipline'
  BY <1>16 DEF LookupOffline, Wanted
<1>17. ASSUME NEW c \in Callers, Reconnect(c) PROVE LockDiscipline'
  BY <1>17 DEF Reconnect, Connect
<1>18. ASSUME NEW c \in Callers, Relogin(c) PROVE LockDiscipline'
  BY <1>18 DEF Relogin, Login
<1>19. ASSUME NEW c \in Callers, ReconnectFails(c) PROVE LockDiscipline'
  BY <1>19 DEF ReconnectFails
<1>20. ASSUME NEW c \in Callers, SetupDone(c) PROVE LockDiscipline'
  BY <1>20 DEF SetupDone
<1>21. ASSUME NEW c \in Callers, SetupNeeded(c) PROVE LockDiscipline'
  BY <1>21 DEF SetupNeeded
<1>22. ASSUME NEW c \in Callers, ArmPing(c) PROVE LockDiscipline'
  BY <1>22 DEF ArmPing
<1>23. ASSUME NEW c \in Callers, MarkSetup(c) PROVE LockDiscipline'
  BY <1>23 DEF MarkSetup
<1>24. ASSUME NEW k \in Chains, PingStart(k) PROVE LockDiscipline'
  BY <1>24 DEF PingStart
<1>25. ASSUME NEW k \in Chains, PingOne(k) PROVE LockDiscipline'
  BY <1>25 DEF PingOne
<1>26. ASSUME NEW k \in Chains, PingDone(k) PROVE LockDiscipline'
  BY <1>26 DEF PingDone
<1>27. ASSUME NEW i \in Interfaces, Drop(i) PROVE LockDiscipline'
  BY <1>27 DEF Drop
<1>28. CASE UNCHANGED vars
  BY <1>28
<1>. QED
  BY <1>1, <1>2, <1>3, <1>4, <1>5, <1>6, <1>7, <1>8, <1>9, <1>10, <1>11,
     <1>12, <1>13, <1>14, <1>15, <1>16, <1>17, <1>18, <1>19, <1>20,
     <1>21, <1>22, <1>23, <1>24, <1>25, <1>26, <1>27, <1>28
  DEF Next, TokenStep, LookupStep, SetupStep, PingStep

\* Two threads are never inside CheckGetToken, checkConnection or ping at once,
\* and DBMutex is locked exactly while one is.
THEOREM MutualExclusion == Spec => []LockDiscipline
<1>1. Init => LockDiscipline
  BY ConstantsAssumption DEF Init, LockDiscipline
<1>. QED
  BY <1>1, TypeInvInit, TypeInvStep, LockStep, PTL DEF Spec

-----------------------------------------------------------------------------
(* The registry: what a thread has read of managerDB still holds when it acts *)
(* on it, and what it was answered stays true.                                *)

\* checkConnection works on the interface of the session that was looked up, in
\* the role that was asked for.
ReconnectsOwn ==
  \A c \in Callers :
    pc[c] \in Reconnecting => conn[c] = InRole(managerDB[args[c].login], args[c].role)

RegistryInv ==
  OpeningIsNew /\ TokenIsRegistered /\ AnswerIsOwn /\ ReconnectsOwn

\* Only the owner of DBMutex changes managerDB, so what another thread was
\* answered, or is about to insert, is untouched by it.
LEMMA RegistryStep ==
  TypeInv /\ LockDiscipline /\ RegistryInv /\ [Next]_vars => RegistryInv'
<1> SUFFICES ASSUME TypeInv, LockDiscipline, RegistryInv, [Next]_vars
             PROVE  RegistryInv'
  OBVIOUS
<1> USE ConstantsAssumption
    DEF TypeInv, TypeOK, LocalsOK, ManagerInformation, LockDiscipline, RegistryInv,
        OpeningIsNew, TokenIsRegistered, AnswerIsOwn, ReconnectsOwn, InRole,
        Leave, Goto
<1>1. ASSUME NEW c \in Callers, CallInit(c) PROVE RegistryInv'
  BY <1>1, SMTT(30) DEF CallInit, Call
<1>2. ASSUME NEW c \in Callers, CallManager(c) PROVE RegistryInv'
  BY <1>2, SMTT(30) DEF CallManager, Call
<1>3. ASSUME NEW c \in Callers, CallPump(c) PROVE RegistryInv'
  BY <1>3, SMTT(30) DEF CallPump, Call
<1>4. ASSUME NEW c \in Callers, TokenFound(c) PROVE RegistryInv'
  BY <1>4, SMTT(30) DEF TokenFound
<1>5. ASSUME NEW c \in Callers, TokenMissing(c) PROVE RegistryInv'
  BY <1>5, SMTT(30) DEF TokenMissing
<1>6. ASSUME NEW c \in Callers, CreateMan(c) PROVE RegistryInv'
  BY <1>6, SMTT(30) DEF CreateMan
<1>7. ASSUME NEW c \in Callers, CreatePump(c) PROVE RegistryInv'
  BY <1>7, SMTT(30) DEF CreatePump
<1>8. ASSUME NEW c \in Callers, ConnectMan(c) PROVE RegistryInv'
  BY <1>8, SMTT(30) DEF ConnectMan, Connect
<1>9. ASSUME NEW c \in Callers, LoginMan(c) PROVE RegistryInv'
  BY <1>9, SMTT(30) DEF LoginMan, Login
<1>10. ASSUME NEW c \in Callers, ConnectPump(c) PROVE RegistryInv'
  BY <1>10, SMTT(30) DEF ConnectPump, Connect
<1>11. ASSUME NEW c \in Callers, LoginPump(c) PROVE RegistryInv'
  BY <1>11, SMTT(30) DEF LoginPump, Login
<1>12. ASSUME NEW c \in Callers, SwitchPump(c) PROVE RegistryInv'
  BY <1>12, SMTT(30) DEF SwitchPump, Insert
<1>13. ASSUME NEW c \in Callers, OpenFails(c) PROVE RegistryInv'
  BY <1>13, SMTT(30) DEF OpenFails
<1>14. ASSUME NEW c \in Callers, LookupMissing(c) PROVE RegistryInv'
  BY <1>14, SMTT(30) DEF LookupMissing
<1>15. ASSUME NEW c \in Callers, LookupConnected(c) PROVE RegistryInv'
  BY <1>15, SMTT(30) DEF LookupConnected, Wanted
<1>16. ASSUME NEW c \in Callers, LookupOffline(c) PROVE RegistryInv'
  BY <1>16, SMTT(30) DEF LookupOffline, Wanted
<1>17. ASSUME NEW c \in Callers, Reconnect(c) PROVE RegistryInv'
  BY <1>17, SMTT(30) DEF Reconnect, Connect
<1>18. ASSUME NEW c \in Callers, Relogin(c) PROVE RegistryInv'
  BY <1>18, SMTT(30) DEF Relogin, Login
<1>19. ASSUME NEW c \in Callers, ReconnectFails(c) PROVE RegistryInv'
  BY <1>19, SMTT(30) DEF ReconnectFails
<1>20. ASSUME NEW c \in Callers, SetupDone(c) PROVE RegistryInv'
  BY <1>20, SMTT(30) DEF SetupDone
<1>21. ASSUME NEW c \in Callers, SetupNeeded(c) PROVE RegistryInv'
  BY <1>21, SMTT(30) DEF SetupNeeded
<1>22. ASSUME NEW c \in Callers, ArmPing(c) PROVE RegistryInv'
  BY <1>22, SMTT(30) DEF ArmPing
<1>23. ASSUME NEW c \in Callers, MarkSetup(c) PROVE RegistryInv'
  BY <1>23, SMTT(30) DEF MarkSetup
<1>24. ASSUME NEW k \in Chains, PingStart(k) PROVE RegistryInv'
  BY <1>24, SMTT(30) DEF PingStart
<1>25. ASSUME NEW k \in Chains, PingOne(k) PROVE RegistryInv'
  BY <1>25, SMTT(30) DEF PingOne
<1>26. ASSUME NEW k \in Chains, PingDone(k) PROVE RegistryInv'
  BY <1>26, SMTT(30) DEF PingDone
<1>27. ASSUME NEW i \in Interfaces, Drop(i) PROVE RegistryInv'
  BY <1>27, SMTT(30) DEF Drop
<1>28. CASE UNCHANGED vars
  BY <1>28, SMTT(30)
<1>. QED
  BY <1>1, <1>2, <1>3, <1>4, <1>5, <1>6, <1>7, <1>8, <1>9, <1>10, <1>11,
     <1>12, <1>13, <1>14, <1>15, <1>16, <1>17, <1>18, <1>19, <1>20,
     <1>21, <1>22, <1>23, <1>24, <1>25, <1>26, <1>27, <1>28
  DEF Next, TokenStep, LookupStep, SetupStep, PingStep

-----------------------------------------------------------------------------
(* The interfaces: an interface that Create returns is nobody else's, and a   *)
(* session keeps its two interfaces and its server.                           *)

\* Whatever a session or a local holds has been created, so Create, which only
\* returns interfaces that have not, never returns it again.
Created ==
  /\ \A t \in Logins :
       managerDB[t] # None =>
         link[managerDB[t].man] # "unmade" /\ link[managerDB[t].pump] # "unmade"
  /\ \A c \in Callers :
       /\ man[c] # None => link[man[c]] # "unmade"
       /\ pump[c] # None => link[pump[c]] # "unmade" /\ pump[c] # man[c]

\* InterfacesNotShared, one pair of interfaces at a time.
Exclusive ==
  /\ \A t \in Logins : managerDB[t] # None => managerDB[t].man # managerDB[t].pump
  /\ \A t, u \in Logins :
       t # u /\ managerDB[t] # None /\ managerDB[u] # None =>
         /\ managerDB[t].man # managerDB[u].man
         /\ managerDB[t].man # managerDB[u].pump
         /\ managerDB[t].pump # managerDB[u].pump
  /\ \A c \in Callers, t \in Logins :
       managerDB[t] # None =>
         /\ man[c] \notin {managerDB[t].man, managerDB[t].pump}
         /\ pump[c] \notin {managerDB[t].man, managerDB[t].pump}

SharingInv == Created /\ Exclusive

\* Pairwise exclusion is exclusion of the sets of registered interfaces.
LEMMA ExclusiveMeansNotShared == Exclusive => InterfacesNotShared
  BY DEF Exclusive, InterfacesNotShared, Registered

\* Create returns an interface nobody holds; nothing else hands one on except
\* the insert, whose thread gives its locals up in the same step.
LEMMA SharingStep ==
  TypeInv /\ LockDiscipline /\ SharingInv /\ [Next]_vars => SharingInv'
<1> SUFFICES ASSUME TypeInv, LockDiscipline, SharingInv, [Next]_vars
             PROVE  SharingInv'
  OBVIOUS
<1> USE ConstantsAssumption
    DEF TypeInv, TypeOK, LocalsOK, ManagerInformation, LockDiscipline, SharingInv,
        Created, Exclusive, Leave, Goto
<1>1. ASSUME NEW c \in Callers, CallInit(c) PROVE SharingInv'
  BY <1>1, SMTT(30) DEF CallInit, Call
<1>2. ASSUME NEW c \in Callers, CallManager(c) PROVE SharingInv'
  BY <1>2, SMTT(30) DEF CallManager, Call
<1>3. ASSUME NEW c \in Callers, CallPump(c) PROVE SharingInv'
  BY <1>3, SMTT(30) DEF CallPump, Call
<1>4. ASSUME NEW c \in Callers, TokenFound(c) PROVE SharingInv'
  BY <1>4, SMTT(30) DEF TokenFound
<1>5. ASSUME NEW c \in Callers, TokenMissing(c) PROVE SharingInv'
  BY <1>5, SMTT(30) DEF TokenMissing
<1>6. ASSUME NEW c \in Callers, CreateMan(c) PROVE SharingInv'
  BY <1>6, SMTT(30) DEF CreateMan
<1>7. ASSUME NEW c \in Callers, CreatePump(c) PROVE SharingInv'
  BY <1>7, SMTT(30) DEF CreatePump
<1>8. ASSUME NEW c \in Callers, ConnectMan(c) PROVE SharingInv'
  BY <1>8, SMTT(30) DEF ConnectMan, Connect
<1>9. ASSUME NEW c \in Callers, LoginMan(c) PROVE SharingInv'
  BY <1>9, SMTT(30) DEF LoginMan, Login
<1>10. ASSUME NEW c \in Callers, ConnectPump(c) PROVE SharingInv'
  BY <1>10, SMTT(30) DEF ConnectPump, Connect
<1>11. ASSUME NEW c \in Callers, LoginPump(c) PROVE SharingInv'
  BY <1>11, SMTT(30) DEF LoginPump, Login
<1>12. ASSUME NEW c \in Callers, SwitchPump(c) PROVE SharingInv'
  BY <1>12, SMTT(30) DEF SwitchPump, Insert
<1>13. ASSUME NEW c \in Callers, OpenFails(c) PROVE SharingInv'
  BY <1>13, SMTT(30) DEF OpenFails
<1>14. ASSUME NEW c \in Callers, LookupMissing(c) PROVE SharingInv'
  BY <1>14, SMTT(30) DEF LookupMissing
<1>15. ASSUME NEW c \in Callers, LookupConnected(c) PROVE SharingInv'
  BY <1>15, SMTT(30) DEF LookupConnected, Wanted
<1>16. ASSUME NEW c \in Callers, LookupOffline(c) PROVE SharingInv'
  BY <1>16, SMTT(30) DEF LookupOffline, Wanted
<1>17. ASSUME NEW c \in Callers, Reconnect(c) PROVE SharingInv'
  BY <1>17, SMTT(30) DEF Reconnect, Connect
<1>18. ASSUME NEW c \in Callers, Relogin(c) PROVE SharingInv'
  BY <1>18, SMTT(30) DEF Relogin, Login
<1>19. ASSUME NEW c \in Callers, ReconnectFails(c) PROVE SharingInv'
  BY <1>19, SMTT(30) DEF ReconnectFails
<1>20. ASSUME NEW c \in Callers, SetupDone(c) PROVE SharingInv'
  BY <1>20, SMTT(30) DEF SetupDone
<1>21. ASSUME NEW c \in Callers, SetupNeeded(c) PROVE SharingInv'
  BY <1>21, SMTT(30) DEF SetupNeeded
<1>22. ASSUME NEW c \in Callers, ArmPing(c) PROVE SharingInv'
  BY <1>22, SMTT(30) DEF ArmPing
<1>23. ASSUME NEW c \in Callers, MarkSetup(c) PROVE SharingInv'
  BY <1>23, SMTT(30) DEF MarkSetup
<1>24. ASSUME NEW k \in Chains, PingStart(k) PROVE SharingInv'
  BY <1>24, SMTT(30) DEF PingStart
<1>25. ASSUME NEW k \in Chains, PingOne(k) PROVE SharingInv'
  BY <1>25, SMTT(30) DEF PingOne
<1>26. ASSUME NEW k \in Chains, PingDone(k) PROVE SharingInv'
  BY <1>26, SMTT(30) DEF PingDone
<1>27. ASSUME NEW i \in Interfaces, Drop(i) PROVE SharingInv'
  BY <1>27, SMTT(30) DEF Drop
<1>28. CASE UNCHANGED vars
  BY <1>28, SMTT(30)
<1>. QED
  BY <1>1, <1>2, <1>3, <1>4, <1>5, <1>6, <1>7, <1>8, <1>9, <1>10, <1>11,
     <1>12, <1>13, <1>14, <1>15, <1>16, <1>17, <1>18, <1>19, <1>20,
     <1>21, <1>22, <1>23, <1>24, <1>25, <1>26, <1>27, <1>28
  DEF Next, TokenStep, LookupStep, SetupStep, PingStep

\* A session that is being opened is connected to the server Init was given.
OpeningOnItsServer ==
  \A c \in Callers :
    /\ pc[c] \in {"loginMan", "connectPump", "loginPump", "switchPump"} =>
         home[man[c]] = args[c].server
    /\ pc[c] \in {"loginPump", "switchPump"} => home[pump[c]] = args[c].server

ServerInv == OpeningOnItsServer /\ SessionOnItsServer

\* Only Connect moves an interface, an opening one to the server of the call,
\* a registered one to the server of its own session.
LEMMA ServerStep ==
  /\ TypeInv /\ LockDiscipline /\ RegistryInv /\ SharingInv
  /\ ServerInv /\ [Next]_vars
  => ServerInv'
<1> SUFFICES ASSUME TypeInv, LockDiscipline, RegistryInv, SharingInv, ServerInv,
                    [Next]_vars
             PROVE  ServerInv'
  OBVIOUS
<1> USE ConstantsAssumption
    DEF TypeInv, TypeOK, LocalsOK, ManagerInformation, LockDiscipline, RegistryInv,
        ReconnectsOwn, InRole, SharingInv, Created, Exclusive,
        ServerInv, OpeningOnItsServer, SessionOnItsServer, Leave, Goto
<1>1. ASSUME NEW c \in Callers, CallInit(c) PROVE ServerInv'
  BY <1>1, SMTT(30) DEF CallInit, Call
<1>2. ASSUME NEW c \in Callers, CallManager(c) PROVE ServerInv'
  BY <1>2, SMTT(30) DEF CallManager, Call
<1>3. ASSUME NEW c \in Callers, CallPump(c) PROVE ServerInv'
  BY <1>3, SMTT(30) DEF CallPump, Call
<1>4. ASSUME NEW c \in Callers, TokenFound(c) PROVE ServerInv'
  BY <1>4, SMTT(30) DEF TokenFound
<1>5. ASSUME NEW c \in Callers, TokenMissing(c) PROVE ServerInv'
  BY <1>5, SMTT(30) DEF TokenMissing
<1>6. ASSUME NEW c \in Callers, CreateMan(c) PROVE ServerInv'
  BY <1>6, SMTT(30) DEF CreateMan
<1>7. ASSUME NEW c \in Callers, CreatePump(c) PROVE ServerInv'
  BY <1>7, SMTT(30) DEF CreatePump
<1>8. ASSUME NEW c \in Callers, ConnectMan(c) PROVE ServerInv'
  BY <1>8, SMTT(30) DEF ConnectMan, Connect
<1>9. ASSUME NEW c \in Callers, LoginMan(c) PROVE ServerInv'
  BY <1>9, SMTT(30) DEF LoginMan, Login
<1>10. ASSUME NEW c \in Callers, ConnectPump(c) PROVE ServerInv'
  BY <1>10, SMTT(30) DEF ConnectPump, Connect
<1>11. ASSUME NEW c \in Callers, LoginPump(c) PROVE ServerInv'
  BY <1>11, SMTT(30) DEF LoginPump, Login
<1>12. ASSUME NEW c \in Callers, SwitchPump(c) PROVE ServerInv'
  BY <1>12, SMTT(30) DEF SwitchPump, Insert
<1>13. ASSUME NEW c \in Callers, OpenFails(c) PROVE ServerInv'
  BY <1>13, SMTT(30) DEF OpenFails
<1>14. ASSUME NEW c \in Callers, LookupMissing(c) PROVE ServerInv'
  BY <1>14, SMTT(30) DEF LookupMissing
<1>15. ASSUME NEW c \in Callers, LookupConnected(c) PROVE ServerInv'
  BY <1>15, SMTT(30) DEF LookupConnected, Wanted
<1>16. ASSUME NEW c \in Callers, LookupOffline(c) PROVE ServerInv'
  BY <1>16, SMTT(30) DEF LookupOffline, Wanted
<1>17. ASSUME NEW c \in Callers, Reconnect(c) PROVE ServerInv'
  BY <1>17, SMTT(30) DEF Reconnect, Connect
<1>18. ASSUME NEW c \in Callers, Relogin(c) PROVE ServerInv'
  BY <1>18, SMTT(30) DEF Relogin, Login
<1>19. ASSUME NEW c \in Callers, ReconnectFails(c) PROVE ServerInv'
  BY <1>19, SMTT(30) DEF ReconnectFails
<1>20. ASSUME NEW c \in Callers, SetupDone(c) PROVE ServerInv'
  BY <1>20, SMTT(30) DEF SetupDone
<1>21. ASSUME NEW c \in Callers, SetupNeeded(c) PROVE ServerInv'
  BY <1>21, SMTT(30) DEF SetupNeeded
<1>22. ASSUME NEW c \in Callers, ArmPing(c) PROVE ServerInv'
  BY <1>22, SMTT(30) DEF ArmPing
<1>23. ASSUME NEW c \in Callers, MarkSetup(c) PROVE ServerInv'
  BY <1>23, SMTT(30) DEF MarkSetup
<1>24. ASSUME NEW k \in Chains, PingStart(k) PROVE ServerInv'
  BY <1>24, SMTT(30) DEF PingStart
<1>25. ASSUME NEW k \in Chains, PingOne(k) PROVE ServerInv'
  BY <1>25, SMTT(30) DEF PingOne
<1>26. ASSUME NEW k \in Chains, PingDone(k) PROVE ServerInv'
  BY <1>26, SMTT(30) DEF PingDone
<1>27. ASSUME NEW i \in Interfaces, Drop(i) PROVE ServerInv'
  BY <1>27, SMTT(30) DEF Drop
<1>28. CASE UNCHANGED vars
  BY <1>28, SMTT(30)
<1>. QED
  BY <1>1, <1>2, <1>3, <1>4, <1>5, <1>6, <1>7, <1>8, <1>9, <1>10, <1>11,
     <1>12, <1>13, <1>14, <1>15, <1>16, <1>17, <1>18, <1>19, <1>20,
     <1>21, <1>22, <1>23, <1>24, <1>25, <1>26, <1>27, <1>28
  DEF Next, TokenStep, LookupStep, SetupStep, PingStep

-----------------------------------------------------------------------------
(* All of it together, and the registry that SessionManager implements.       *)

Inv == TypeInv /\ LockDiscipline /\ RegistryInv /\ SharingInv /\ ServerInv

\* The initial state: nobody in a call, nothing registered or created.
LEMMA InvInit == Init => Inv
<1> SUFFICES ASSUME Init PROVE Inv
  OBVIOUS
<1>1. TypeInv
  BY TypeInvInit
<1>2. LockDiscipline
  BY ConstantsAssumption DEF Init, LockDiscipline
<1>3. RegistryInv
  BY ConstantsAssumption
     DEF Init, RegistryInv, OpeningIsNew, TokenIsRegistered, AnswerIsOwn, ReconnectsOwn
<1>4. SharingInv
  BY ConstantsAssumption DEF Init, SharingInv, Created, Exclusive
<1>5. ServerInv
  BY ConstantsAssumption DEF Init, ServerInv, OpeningOnItsServer, SessionOnItsServer
<1>. QED
  BY <1>1, <1>2, <1>3, <1>4, <1>5 DEF Inv

\* The conjunction of all the invariants is inductive.
LEMMA InvStep == Inv /\ [Next]_vars => Inv'
  BY TypeInvStep, LockStep, RegistryStep, SharingStep, ServerStep DEF Inv

\* The find at the top of CheckGetToken is still true at the insert at
\* its end, every token handed out is a key of managerDB, and every look-up is
\* answered from the session it asked for.
THEOREM RegistryCorrect ==
  Spec => [](OpeningIsNew /\ TokenIsRegistered /\ AnswerIsOwn)
<1>1. Inv => OpeningIsNew /\ TokenIsRegistered /\ AnswerIsOwn
  BY DEF Inv, RegistryInv
<1>. QED
  BY <1>1, InvInit, InvStep, PTL DEF Spec

\* A session is opened for a login nobody registers meanwhile: the insert at the
\* end of CheckGetToken never meets an entry.
THEOREM OpeningsAreNew == Spec => []OpeningIsNew
<1>1. OpeningIsNew /\ TokenIsRegistered /\ AnswerIsOwn => OpeningIsNew
  OBVIOUS
<1>. QED
  BY <1>1, RegistryCorrect, PTL

\* CheckGetManager answers with the asked session's man, CheckGetPump with its pump.
THEOREM AnswersAreOwn == Spec => []AnswerIsOwn
<1>1. OpeningIsNew /\ TokenIsRegistered /\ AnswerIsOwn => AnswerIsOwn
  OBVIOUS
<1>. QED
  BY <1>1, RegistryCorrect, PTL

\* No manager interface is used by two sessions or for two purposes.
THEOREM InterfacesExclusive == Spec => []InterfacesNotShared
<1>1. Inv => InterfacesNotShared
  BY ExclusiveMeansNotShared DEF Inv, SharingInv
<1>. QED
  BY <1>1, InvInit, InvStep, PTL DEF Spec

\* Reconnecting never moves a session to another server.
THEOREM SessionsStayOnServer == Spec => []SessionOnItsServer
<1>1. Inv => SessionOnItsServer
  BY DEF Inv, ServerInv
<1>. QED
  BY <1>1, InvInit, InvStep, PTL DEF Spec

\* The stages of the abstract registry, by the place a thread is at.
LEMMA StageValues ==
  ASSUME NEW p
  PROVE  /\ p \in {"wantToken"} \cup Opening => StageOf(p) = "token"
         /\ p \in {"wantManager", "wantPump"} \cup Reconnecting => StageOf(p) = "lookup"
         /\ p \in {"idle"} \cup SettingUp => StageOf(p) = "none"
  BY DEF StageOf

\* An arriving call is an Ask.
LEMMA CallStage ==
  ASSUME TypeOK, NEW c \in Callers, NEW p, NEW a, Call(c, p, a)
  PROVE  /\ Stage[c] = "none"
         /\ Stage' = [Stage EXCEPT ![c] = StageOf(p)]
         /\ args' = [args EXCEPT ![c] = a]
         /\ answer' = [answer EXCEPT ![c] = None]
         /\ UNCHANGED managerDB
<1>1. StageOf("idle") = "none"
  BY StageValues
<1>. QED
  BY <1>1 DEF TypeOK, Stage, Call

\* Leaving the critical section ends the session call with its answer.
LEMMA LeaveStage ==
  ASSUME TypeOK, NEW c \in Callers, NEW p \in {"idle", "setupPing"}, NEW r,
         Leave(c, p, r)
  PROVE  /\ Stage' = [Stage EXCEPT ![c] = "none"]
         /\ answer' = [answer EXCEPT ![c] = r]
<1>1. StageOf(p) = "none"
  BY StageValues
<1>. QED
  BY <1>1 DEF TypeOK, Stage, Leave

\* A step inside a call is invisible to the abstract registry.
LEMMA GotoStage ==
  ASSUME TypeOK, NEW c \in Callers, NEW p, Goto(c, p), StageOf(pc[c]) = StageOf(p)
  PROVE  UNCHANGED <<Stage, args, answer>>
  BY DEF TypeOK, Stage, Goto

\* So is a step of another thread.
LEMMA StageSame ==
  ASSUME UNCHANGED pc
  PROVE  Stage' = Stage
  BY DEF Stage

\* Each step of the session manager is a step of the registry, or a stutter.
LEMMA StepRefines == Inv /\ [Next]_vars => [Registry!Next]_(Registry!vars)
<1> SUFFICES ASSUME Inv, [Next]_vars PROVE [Registry!Next]_(Registry!vars)
  OBVIOUS
<1> USE DEF Inv, TypeInv, Registry!vars
<1>1. ASSUME NEW c \in Callers, CallInit(c) PROVE [Registry!Next]_(Registry!vars)
  <2>1. PICK a \in Registry!Arguments : Call(c, "wantToken", a) /\ a.role = None
    BY <1>1 DEF CallInit, Registry!Arguments
  <2>2. StageOf("wantToken") = Registry!KindOf(a)
    BY <2>1, StageValues, ConstantsAssumption DEF Registry!KindOf, Registry!Roles
  <2>3. Registry!Ask(c)
    BY <2>1, <2>2, CallStage DEF Registry!Ask
  <2>. QED
    BY <2>3 DEF Registry!Next
<1>2. ASSUME NEW c \in Callers, CallManager(c) PROVE [Registry!Next]_(Registry!vars)
  <2>1. PICK a \in Registry!Arguments : Call(c, "wantManager", a) /\ a.role = "man"
    BY <1>2 DEF CallManager, Registry!Arguments, Registry!Roles
  <2>2. StageOf("wantManager") = Registry!KindOf(a)
    BY <2>1, StageValues DEF Registry!KindOf, Registry!Roles
  <2>3. Registry!Ask(c)
    BY <2>1, <2>2, CallStage DEF Registry!Ask
  <2>. QED
    BY <2>3 DEF Registry!Next
<1>3. ASSUME NEW c \in Callers, CallPump(c) PROVE [Registry!Next]_(Registry!vars)
  <2>1. PICK a \in Registry!Arguments : Call(c, "wantPump", a) /\ a.role = "pump"
    BY <1>3 DEF CallPump, Registry!Arguments, Registry!Roles
  <2>2. StageOf("wantPump") = Registry!KindOf(a)
    BY <2>1, StageValues DEF Registry!KindOf, Registry!Roles
  <2>3. Registry!Ask(c)
    BY <2>1, <2>2, CallStage DEF Registry!Ask
  <2>. QED
    BY <2>3 DEF Registry!Next
<1>4. ASSUME NEW c \in Callers, TokenFound(c) PROVE [Registry!Next]_(Registry!vars)
  <2>1. Leave(c, "setupPing", args[c].login) /\ UNCHANGED args
    BY <1>4 DEF TokenFound
  <2>2. Stage[c] = "token"
    BY <1>4, StageValues DEF TokenFound, TypeOK, Stage
  <2>3. Registry!KnownToken(c)
    BY <1>4, <2>1, <2>2, LeaveStage
       DEF TokenFound, Registry!KnownToken, Registry!Answer
  <2>. QED
    BY <2>3 DEF Registry!Next
<1>5. ASSUME NEW c \in Callers, TokenMissing(c) PROVE [Registry!Next]_(Registry!vars)
  <2>1. Goto(c, "create") /\ UNCHANGED managerDB
    BY <1>5 DEF TokenMissing
  <2>2. StageOf(pc[c]) = StageOf("create")
    BY <1>5, StageValues DEF TokenMissing
  <2>. QED
    BY <2>1, <2>2, GotoStage
<1>6. ASSUME NEW c \in Callers, CreateMan(c) PROVE [Registry!Next]_(Registry!vars)
  <2>1. Goto(c, "createPump") /\ UNCHANGED managerDB
    BY <1>6 DEF CreateMan
  <2>2. StageOf(pc[c]) = StageOf("createPump")
    BY <1>6, StageValues DEF CreateMan
  <2>. QED
    BY <2>1, <2>2, GotoStage
<1>7. ASSUME NEW c \in Callers, CreatePump(c) PROVE [Registry!Next]_(Registry!vars)
  <2>1. Goto(c, "connectMan") /\ UNCHANGED managerDB
    BY <1>7 DEF CreatePump
  <2>2. StageOf(pc[c]) = StageOf("connectMan")
    BY <1>7, StageValues DEF CreatePump
  <2>. QED
    BY <2>1, <2>2, GotoStage
<1>8. ASSUME NEW c \in Callers, ConnectMan(c) PROVE [Registry!Next]_(Registry!vars)
  <2>1. Goto(c, "loginMan") /\ UNCHANGED managerDB
    BY <1>8 DEF ConnectMan
  <2>2. StageOf(pc[c]) = StageOf("loginMan")
    BY <1>8, StageValues DEF ConnectMan
  <2>. QED
    BY <2>1, <2>2, GotoStage
<1>9. ASSUME NEW c \in Callers, LoginMan(c) PROVE [Registry!Next]_(Registry!vars)
  <2>1. Goto(c, "connectPump") /\ UNCHANGED managerDB
    BY <1>9 DEF LoginMan
  <2>2. StageOf(pc[c]) = StageOf("connectPump")
    BY <1>9, StageValues DEF LoginMan
  <2>. QED
    BY <2>1, <2>2, GotoStage
<1>10. ASSUME NEW c \in Callers, ConnectPump(c) PROVE [Registry!Next]_(Registry!vars)
  <2>1. Goto(c, "loginPump") /\ UNCHANGED managerDB
    BY <1>10 DEF ConnectPump
  <2>2. StageOf(pc[c]) = StageOf("loginPump")
    BY <1>10, StageValues DEF ConnectPump
  <2>. QED
    BY <2>1, <2>2, GotoStage
<1>11. ASSUME NEW c \in Callers, LoginPump(c) PROVE [Registry!Next]_(Registry!vars)
  <2>1. Goto(c, "switchPump") /\ UNCHANGED managerDB
    BY <1>11 DEF LoginPump
  <2>2. StageOf(pc[c]) = StageOf("switchPump")
    BY <1>11, StageValues DEF LoginPump
  <2>. QED
    BY <2>1, <2>2, GotoStage
<1>12. ASSUME NEW c \in Callers, SwitchPump(c) PROVE [Registry!Next]_(Registry!vars)
  <2>1. Leave(c, "setupPing", args[c].login) /\ UNCHANGED args
    BY <1>12 DEF SwitchPump
  <2>2. Stage[c] = "token"
    BY <1>12, StageValues DEF SwitchPump, TypeOK, Stage
  <2>3. managerDB[args[c].login] = None
    BY <1>12 DEF SwitchPump, RegistryInv, OpeningIsNew
  <2>4. /\ man[c] \in Interfaces \ Registry!InUse
          /\ pump[c] \in Interfaces \ Registry!InUse
          /\ man[c] # pump[c]
    BY <1>12, ConstantsAssumption
       DEF SwitchPump, TypeOK, LocalsOK, SharingInv, Created, Exclusive,
           Registry!InUse
  <2>5. Registry!Register(c)
    BY <1>12, <2>1, <2>2, LeaveStage, <2>3, <2>4
       DEF SwitchPump, Insert, Registry!Register, Registry!Answer
  <2>. QED
    BY <2>5 DEF Registry!Next
<1>13. ASSUME NEW c \in Callers, OpenFails(c) PROVE [Registry!Next]_(Registry!vars)
  <2>1. Leave(c, "idle", Thrown) /\ UNCHANGED args
    BY <1>13 DEF OpenFails
  <2>2. Stage[c] = "token"
    BY <1>13, StageValues DEF OpenFails, TypeOK, Stage
  <2>3. Registry!RefuseToken(c)
    BY <1>13, <2>1, <2>2, LeaveStage
       DEF OpenFails, RegistryInv, OpeningIsNew, Registry!RefuseToken, Registry!Answer
  <2>. QED
    BY <2>3 DEF Registry!Next
<1>14. ASSUME NEW c \in Callers, LookupMissing(c) PROVE [Registry!Next]_(Registry!vars)
  <2>1. Leave(c, "idle", None) /\ UNCHANGED args
    BY <1>14 DEF LookupMissing
  <2>2. Stage[c] = "lookup"
    BY <1>14, StageValues DEF LookupMissing, TypeOK, Stage
  <2>3. Registry!Unknown(c)
    BY <1>14, <2>1, <2>2, LeaveStage
       DEF LookupMissing, Registry!Unknown, Registry!Answer
  <2>. QED
    BY <2>3 DEF Registry!Next
<1>15. ASSUME NEW c \in Callers, LookupConnected(c) PROVE [Registry!Next]_(Registry!vars)
  <2>1. Leave(c, "idle", Wanted(c)) /\ UNCHANGED args
    BY <1>15 DEF LookupConnected
  <2>2. Stage[c] = "lookup"
    BY <1>15, StageValues DEF LookupConnected, TypeOK, Stage
  <2>3. Registry!Interface(c)
    BY <1>15, <2>1, <2>2, LeaveStage
       DEF LookupConnected, Wanted, LocalsOK, Registry!Interface, Registry!Answer
  <2>. QED
    BY <2>3 DEF Registry!Next
<1>16. ASSUME NEW c \in Callers, LookupOffline(c) PROVE [Registry!Next]_(Registry!vars)
  <2>1. Goto(c, "reconnect") /\ UNCHANGED managerDB
    BY <1>16 DEF LookupOffline
  <2>2. StageOf(pc[c]) = StageOf("reconnect")
    BY <1>16, StageValues DEF LookupOffline
  <2>. QED
    BY <2>1, <2>2, GotoStage
<1>17. ASSUME NEW c \in Callers, Reconnect(c) PROVE [Registry!Next]_(Registry!vars)
  <2>1. Goto(c, "relogin") /\ UNCHANGED managerDB
    BY <1>17 DEF Reconnect
  <2>2. StageOf(pc[c]) = StageOf("relogin")
    BY <1>17, StageValues DEF Reconnect
  <2>. QED
    BY <2>1, <2>2, GotoStage
<1>18. ASSUME NEW c \in Callers, Relogin(c) PROVE [Registry!Next]_(Registry!vars)
  <2>1. Leave(c, "idle", conn[c]) /\ UNCHANGED args
    BY <1>18 DEF Relogin
  <2>2. Stage[c] = "lookup"
    BY <1>18, StageValues DEF Relogin, TypeOK, Stage
  <2>3. Registry!Interface(c)
    BY <1>18, <2>1, <2>2, LeaveStage
       DEF Relogin, RegistryInv, ReconnectsOwn, InRole, LocalsOK, Registry!Interface,
           Registry!Answer
  <2>. QED
    BY <2>3 DEF Registry!Next
<1>19. ASSUME NEW c \in Callers, ReconnectFails(c) PROVE [Registry!Next]_(Registry!vars)
  <2>1. Leave(c, "idle", Thrown) /\ UNCHANGED args
    BY <1>19 DEF ReconnectFails
  <2>2. Stage[c] = "lookup"
    BY <1>19, StageValues DEF ReconnectFails, TypeOK, Stage
  <2>3. Registry!RefuseLookup(c)
    BY <1>19, <2>1, <2>2, LeaveStage
       DEF ReconnectFails, LocalsOK, Registry!RefuseLookup, Registry!Answer
  <2>. QED
    BY <2>3 DEF Registry!Next
<1>20. ASSUME NEW c \in Callers, SetupDone(c) PROVE [Registry!Next]_(Registry!vars)
  <2>1. Goto(c, "idle") /\ UNCHANGED managerDB
    BY <1>20 DEF SetupDone
  <2>2. StageOf(pc[c]) = StageOf("idle")
    BY <1>20, StageValues DEF SetupDone
  <2>. QED
    BY <2>1, <2>2, GotoStage
<1>21. ASSUME NEW c \in Callers, SetupNeeded(c) PROVE [Registry!Next]_(Registry!vars)
  <2>1. Goto(c, "armPing") /\ UNCHANGED managerDB
    BY <1>21 DEF SetupNeeded
  <2>2. StageOf(pc[c]) = StageOf("armPing")
    BY <1>21, StageValues DEF SetupNeeded
  <2>. QED
    BY <2>1, <2>2, GotoStage
<1>22. ASSUME NEW c \in Callers, ArmPing(c) PROVE [Registry!Next]_(Registry!vars)
  <2>1. Goto(c, "markSetup") /\ UNCHANGED managerDB
    BY <1>22 DEF ArmPing
  <2>2. StageOf(pc[c]) = StageOf("markSetup")
    BY <1>22, StageValues DEF ArmPing
  <2>. QED
    BY <2>1, <2>2, GotoStage
<1>23. ASSUME NEW c \in Callers, MarkSetup(c) PROVE [Registry!Next]_(Registry!vars)
  <2>1. Goto(c, "idle") /\ UNCHANGED managerDB
    BY <1>23 DEF MarkSetup
  <2>2. StageOf(pc[c]) = StageOf("idle")
    BY <1>23, StageValues DEF MarkSetup
  <2>. QED
    BY <2>1, <2>2, GotoStage
<1>24. ASSUME NEW k \in Chains, PingStart(k) PROVE [Registry!Next]_(Registry!vars)
  BY <1>24, StageSame DEF PingStart
<1>25. ASSUME NEW k \in Chains, PingOne(k) PROVE [Registry!Next]_(Registry!vars)
  BY <1>25, StageSame DEF PingOne
<1>26. ASSUME NEW k \in Chains, PingDone(k) PROVE [Registry!Next]_(Registry!vars)
  BY <1>26, StageSame DEF PingDone
<1>27. ASSUME NEW i \in Interfaces, Drop(i) PROVE [Registry!Next]_(Registry!vars)
  BY <1>27, StageSame DEF Drop
<1>28. CASE UNCHANGED vars
  BY <1>28, StageSame
<1>. QED
  BY <1>1, <1>2, <1>3, <1>4, <1>5, <1>6, <1>7, <1>8, <1>9, <1>10, <1>11,
     <1>12, <1>13, <1>14, <1>15, <1>16, <1>17, <1>18, <1>19, <1>20,
     <1>21, <1>22, <1>23, <1>24, <1>25, <1>26, <1>27, <1>28
  DEF Next, TokenStep, LookupStep, SetupStep, PingStep

\* Whatever the interleaving of its network calls, the session manager is a
\* registry whose operations take effect in one step.
THEOREM Refinement == Spec => ImplementsRegistry
<1>1. Init => Registry!Init
  <2>1. StageOf("idle") = "none"
    BY DEF StageOf
  <2>. QED
    BY <2>1 DEF Init, Registry!Init, Stage
<1>. QED
  BY <1>1, InvInit, InvStep, StepRefines, PTL DEF Spec, ImplementsRegistry, Registry!Spec
-----------------------------------------------------------------------------
(***************************************************************************)
(* One thread runs Init.  Until is_ping_setup is set no timer is armed,    *)
(* except by that thread on its way from ArmPing to MarkSetup; afterwards  *)
(* SetupPing does nothing.                                                 *)
(***************************************************************************)
OneInitThread == \A c, d \in InitCallers : c = d

PingInv ==
  /\ OnePingChain
  /\ \A c \in Callers :
       pc[c] \in {"wantToken"} \cup Opening \cup SettingUp => c \in InitCallers
  /\ \A c \in Callers : pc[c] \in {"armPing", "markSetup"} => ~is_ping_setup
  /\ \/ is_ping_setup
     \/ \E c \in Callers : pc[c] = "markSetup"
     \/ \A k \in Chains : chain[k] = "unarmed"

\* Only SetupPing and ping touch the timers; where nothing of this changes,
\* PingInv stays.
LEMMA PingFrame ==
  ASSUME PingInv, UNCHANGED <<is_ping_setup, chain>>,
         \A c \in Callers :
           /\ pc'[c] \in {"armPing", "markSetup"} <=> pc[c] \in {"armPing", "markSetup"}
           /\ pc'[c] = "markSetup" <=> pc[c] = "markSetup"
           /\ pc'[c] \in {"wantToken"} \cup Opening \cup SettingUp =>
                \/ pc[c] \in {"wantToken"} \cup Opening \cup SettingUp
                \/ c \in InitCallers
  PROVE  PingInv'
  BY DEF PingInv, OnePingChain

\* SetupPing arms a timer only when none is, for the thread that does it is the
\* only one that could have armed another.
LEMMA PingInvStep ==
  ASSUME OneInitThread, TypeInv, PingInv, [Next]_vars
  PROVE  PingInv'
<1> USE DEF TypeInv, TypeOK, Goto, Leave
<1>1. ASSUME NEW c \in Callers, CallInit(c) \/ CallManager(c) \/ CallPump(c)
      PROVE  PingInv'
  BY <1>1, PingFrame DEF CallInit, CallManager, CallPump, Call
<1>2. ASSUME NEW c \in Callers, TokenStep(c) PROVE PingInv'
  <2>1. UNCHANGED <<is_ping_setup, chain>>
    BY <1>2 DEF TokenStep, TokenFound, TokenMissing, CreateMan, CreatePump,
         ConnectMan, LoginMan, ConnectPump, LoginPump, SwitchPump, OpenFails
  <2>2. /\ pc[c] \in {"wantToken"} \cup Opening
        /\ \E p \in Opening \cup {"setupPing", "idle"} : pc' = [pc EXCEPT ![c] = p]
    BY <1>2 DEF TokenStep, TokenFound, TokenMissing, CreateMan, CreatePump,
         ConnectMan, LoginMan, ConnectPump, LoginPump, SwitchPump, OpenFails
  <2>. QED
    BY <2>1, <2>2, PingFrame
<1>3. ASSUME NEW c \in Callers, LookupStep(c) PROVE PingInv'
  <2>1. UNCHANGED <<is_ping_setup, chain>>
    BY <1>3 DEF LookupStep, LookupMissing, LookupConnected, LookupOffline,
         Reconnect, Relogin, ReconnectFails
  <2>2. /\ pc[c] \in {"wantManager", "wantPump"} \cup Reconnecting
        /\ \E p \in Reconnecting \cup {"idle"} : pc' = [pc EXCEPT ![c] = p]
    BY <1>3 DEF LookupStep, LookupMissing, LookupConnected, LookupOffline,
         Reconnect, Relogin, ReconnectFails
  <2>. QED
    BY <2>1, <2>2, PingFrame
<1>4. ASSUME NEW c \in Callers, SetupDone(c) PROVE PingInv'
  BY <1>4, PingFrame DEF SetupDone
<1>5. ASSUME NEW c \in Callers, SetupNeeded(c) PROVE PingInv'
  <2>1. \A d \in Callers : pc[d] \in SettingUp => d = c
    BY <1>5 DEF SetupNeeded, PingInv, OneInitThread
  <2>. QED
    BY <1>5, <2>1 DEF SetupNeeded, PingInv, OnePingChain
<1>6. ASSUME NEW c \in Callers, ArmPing(c) PROVE PingInv'
  <2>1. \A d \in Callers : pc[d] \in SettingUp => d = c
    BY <1>6 DEF ArmPing, PingInv, OneInitThread
  <2>2. \A k \in Chains : chain[k] = "unarmed"
    BY <1>6, <2>1 DEF ArmPing, PingInv
  <2>. QED
    BY <1>6, <2>1, <2>2 DEF ArmPing, PingInv, OnePingChain
<1>7. ASSUME NEW c \in Callers, MarkSetup(c) PROVE PingInv'
  <2>1. \A d \in Callers : pc[d] \in SettingUp => d = c
    BY <1>7 DEF MarkSetup, PingInv, OneInitThread
  <2>. QED
    BY <1>7, <2>1 DEF MarkSetup, PingInv, OnePingChain
<1>8. ASSUME NEW k \in Chains, PingStep(k) PROVE PingInv'
  <2>1. \A j \in Chains : chain'[j] = "unarmed" <=> chain[j] = "unarmed"
    BY <1>8 DEF PingStep, PingStart, PingOne, PingDone
  <2>2. UNCHANGED <<pc, is_ping_setup>>
    BY <1>8 DEF PingStep, PingStart, PingOne, PingDone
  <2>. QED
    BY <2>1, <2>2 DEF PingInv, OnePingChain
<1>9. ASSUME NEW i \in Interfaces, Drop(i) PROVE PingInv'
  BY <1>9, PingFrame DEF Drop
<1>10. CASE UNCHANGED vars
  BY <1>10, PingFrame
<1>. QED
  BY <1>1, <1>2, <1>3, <1>4, <1>5, <1>6, <1>7, <1>8, <1>9, <1>10
  DEF Next, SetupStep

\* However often Init is called, by one thread, there is one ping timer.
THEOREM OneTimer ==
  ASSUME OneInitThread
  PROVE  Spec => []OnePingChain
<1>1. Init => PingInv
  BY DEF Init, PingInv, OnePingChain
<1>2. TypeInv /\ PingInv /\ [Next]_vars => PingInv'
  BY PingInvStep, OneInitThread
<1>3. PingInv => OnePingChain
  BY DEF PingInv
<1>. QED
  BY <1>1, <1>2, <1>3, TypeInvInit, TypeInvStep, PTL DEF Spec
=============================================================================
