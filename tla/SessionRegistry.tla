-------------------------- MODULE SessionRegistry --------------------------
(***************************************************************************)
(* What SessionManager promises to the threads that call it: a map from    *)
(* logins to sessions, with operations that take effect in one step.       *)
(*                                                                         *)
(*   - CheckGetToken answers with the login when it has a session, and     *)
(*     otherwise registers a session with two fresh interfaces or throws   *)
(*     and registers nothing;                                              *)
(*   - a look-up answers None for a login without session; for a login     *)
(*     with one it answers with that session's interface for the role that *)
(*     was asked for, or throws;                                           *)
(*   - a session, once registered, is never changed or removed.            *)
(***************************************************************************)
CONSTANTS Callers, Logins, Servers, Periods, Interfaces, None, Thrown

VARIABLES
  registry,  \* login -> session, or None
  stage,     \* the kind of session call each caller is in, or "none"
  asked,     \* the arguments of each caller's last call
  reply      \* how its last session call ended

vars == <<registry, stage, asked, reply>>

InUse ==
  UNION { {registry[t].man, registry[t].pump} :
          t \in {u \in Logins : registry[u] # None} }

Init ==
  /\ registry = [t \in Logins |-> None]
  /\ stage = [c \in Callers |-> "none"]
  /\ asked = [c \in Callers |->
               [login |-> None, server |-> None, seconds |-> None, role |-> None]]
  /\ reply = [c \in Callers |-> None]

Roles == {"man", "pump"}

Arguments == [login: Logins, server: Servers \cup {None}, seconds: Periods \cup {None},
              role: Roles \cup {None}]

KindOf(a) == IF a.role \in Roles THEN "lookup" ELSE "token"

Ask(c) ==
  /\ stage[c] = "none"
  /\ \E a \in Arguments :
       /\ asked' = [asked EXCEPT ![c] = a]
       /\ stage' = [stage EXCEPT ![c] = KindOf(a)]
  /\ reply' = [reply EXCEPT ![c] = None]
  /\ UNCHANGED registry

Answer(c, kind, r) ==
  /\ stage[c] = kind
  /\ stage' = [stage EXCEPT ![c] = "none"]
  /\ reply' = [reply EXCEPT ![c] = r]
  /\ UNCHANGED asked

KnownToken(c) ==
  /\ Answer(c, "token", asked[c].login)
  /\ registry[asked[c].login] # None
  /\ UNCHANGED registry

Register(c) ==
  /\ Answer(c, "token", asked[c].login)
  /\ registry[asked[c].login] = None
  /\ \E m, p \in Interfaces \ InUse :
       /\ m # p
       /\ registry' = [registry EXCEPT ![asked[c].login] =
                         [server |-> asked[c].server, man |-> m, pump |-> p]]

RefuseToken(c) ==
  /\ Answer(c, "token", Thrown)
  /\ registry[asked[c].login] = None
  /\ UNCHANGED registry

Unknown(c) ==
  /\ Answer(c, "lookup", None)
  /\ registry[asked[c].login] = None
  /\ UNCHANGED registry

Interface(c) ==
  /\ stage[c] = "lookup"
  /\ registry[asked[c].login] # None
  /\ Answer(c, "lookup", IF asked[c].role = "man" THEN registry[asked[c].login].man
                                                 ELSE registry[asked[c].login].pump)
  /\ UNCHANGED registry

RefuseLookup(c) ==
  /\ Answer(c, "lookup", Thrown)
  /\ registry[asked[c].login] # None
  /\ UNCHANGED registry

Next ==
  \E c \in Callers :
    \/ Ask(c)
    \/ KnownToken(c) \/ Register(c) \/ RefuseToken(c)
    \/ Unknown(c) \/ Interface(c) \/ RefuseLookup(c)

Spec == Init /\ [][Next]_vars
=============================================================================
