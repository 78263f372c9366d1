---------------------------- MODULE MCPumpManager ----------------------------
(***************************************************************************)
(* Instances of PumpManager for TLC.  All orders belong to the account a:  *)
(* orders of different accounts share no set.                              *)
(***************************************************************************)
EXTENDS PumpManager, TLC

CONSTANT a

OneAccount == [o \in Orders |-> a]

OrderSymmetry == Permutations(Orders)

MCSetKeys == {"working", "closed"} \X Logins
MCStringKeys ==
  ({"order", "orderpl"} \X Orders) \cup ({"margin", "user"} \X Logins)
    \cup ({"symbol"} \X Symbols)

\* Texts of an earlier run: of the orders only, for no step reads one.
MCPastTexts ==
  {[k \in MCStringKeys |-> IF k[1] = "order" THEN past[k[2]] ELSE None] :
     past \in [Orders -> {None, "open", "closed"}]}

MCValues == TradeStates \cup {"record", "level", "summary", "profit"}
=============================================================================
