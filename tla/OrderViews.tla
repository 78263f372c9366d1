----------------------------- MODULE OrderViews -----------------------------
(***************************************************************************)
(* The texts Redis holds about one order, and what a reader makes of them. *)
(*                                                                         *)
(* "order:<n>" is the order as PUMP_UPDATE_TRADES reported it, by way of   *)
(* jTrade of src/src/types.hpp.  It is written when something is done to   *)
(* the order, not when a price moves its profit.  "orderpl:<n>" is the     *)
(* profit alone, written by the refresh of the tick handler in             *)
(* src/src/pump_manager.cpp for every order TradesGet lists, each time the *)
(* gate of TickGate opens; the line that would delete it on close is       *)
(* commented out (281).  A reader has to choose: orderpl while the text    *)
(* says that the order is open, the text's own profit once it is closed.   *)
(*                                                                         *)
(* Delivery to Redis is the subject of PumpManager and immediate here.     *)
(* Time passes a millisecond at a time, so that a reader may come between   *)
(* two ticks.                                                              *)
(***************************************************************************)
EXTENDS TickGate, Sequences

CONSTANTS
  Commands,    \* trade commands an order may be placed with
  Digits,      \* precisions of symbols
  Prices,      \* prices, in units of the last digit
  Volumes,     \* volumes, in hundredths of a lot
  Memory,      \* what a variable that was never set may hold
  None,        \* an order, a text or a number that is not there
  MaxChanges,  \* changes of the order on the server (a bound)
  MaxFeed      \* reports on their way (a bound)

ASSUME OrderAssumption ==
  /\ Commands \subseteq 0 .. 5
  /\ Digits \subseteq Nat /\ Prices \subseteq Int /\ Volumes \subseteq Nat
  /\ Memory \subseteq Int /\ Memory # {}
  /\ MaxChanges \in Nat /\ MaxFeed \in Nat

VARIABLES
  trade,    \* the order's TradeRecord on the server, which TradesGet returns
  feed,     \* copies of it, to be reported, oldest first
  order,    \* Redis: order:<n>
  orderpl,  \* Redis: orderpl:<n>
  version,  \* auxiliary: how often the record has changed
  made,     \* auxiliary: the version each of the two texts was made of
  waited,   \* milliseconds since the last tick
  lag,      \* auxiliary: milliseconds since a reader could see the current version
  escaped   \* an exception has left the tick handler

viewVars == <<trade, feed, order, orderpl, version, made, waited, lag, escaped>>
vars == <<gateVars, viewVars>>

OpenStates == {"normal", "restored"}  \* TS_OPEN_*
ClosedStates == {"closed", "deleted"} \* TS_CLOSED_*, TS_DELETED

\* The server's arithmetic, in money per unit of price: OP_BUY earns when the
\* price rises, OP_SELL when it falls, limit and stop orders nothing.
Earned(cmd, opened_at, closed_at) ==
  CASE cmd = 0 -> closed_at - opened_at
    [] cmd = 1 -> opened_at - closed_at
    [] OTHER -> 0

\* The part of a TradeRecord that jTrade computes with.
TradeRecord ==
  {t \in [cmd: 0 .. 5, digits: Digits, volume: Volumes,
          state: OpenStates \cup ClosedStates,
          open_price: Prices, close_price: Prices, profit: Int] :
     t.profit = Earned(t.cmd, t.open_price, t.close_price)}

-----------------------------------------------------------------------------
(* Mutants of definitions below; no specification uses them.                 *)

\* Symbols with three digits are forgotten.
ShownDigitsOfFive(t) == IF t.digits = 5 THEN 4 ELSE t.digits

\* The distinction between buying and selling is forgotten.
MoveUnsigned(t) == t.close_price - t.open_price

\* The profit is stored for new orders only.
RefreshProfitOnce ==
  IF trade # None /\ trade.state \in OpenStates /\ orderpl = None
    THEN orderpl' = trade.profit /\ made' = [made EXCEPT !.orderpl = version]
    ELSE UNCHANGED <<orderpl, made>>

-----------------------------------------------------------------------------
(* jTrade.                                                                   *)

ShownDigits(t) == IF t.digits \in {3, 5} THEN t.digits - 1 ELSE t.digits

\* Every order but OP_BUY is taken for one that sells.
Move(t) ==
  IF t.cmd = 0 THEN t.close_price - t.open_price ELSE t.open_price - t.close_price

\* In tenths of a pip: the move times 10^shown, a unit being 10^-digits.
Pips(t) == (IF ShownDigits(t) = t.digits THEN 10 ELSE 1) * Move(t)

Lots(t) == t.volume \div 10000

TypeString ==
  <<"buy", "sell", "buy limit", "sell limit", "buy stop", "sell stop",
    "balance", "credit">>

\* A mutant of jTrade: the pips are never set.
jTradeWithoutPips(t, junk) ==
  [type |-> t.cmd, type_str |-> TypeString[t.cmd + 1], state |-> t.state,
   digits |-> ShownDigits(t), open_price |-> t.open_price,
   close_price |-> t.close_price, profit |-> t.profit,
   volume |-> t.volume, lots |-> Lots(t), swap |-> junk]

\* FromTradeRecord and AsJSON; the swap is whatever is in memory.
jTrade(t, junk) ==
  [type |-> t.cmd, type_str |-> TypeString[t.cmd + 1], state |-> t.state,
   digits |-> ShownDigits(t), open_price |-> t.open_price,
   close_price |-> t.close_price, pips |-> Pips(t), profit |-> t.profit,
   volume |-> t.volume, lots |-> Lots(t), swap |-> junk]

-----------------------------------------------------------------------------
(* A reader of the two texts.                                                *)

TakesProfitOfRefresh ==
  order # None /\ order.state \in OpenStates /\ orderpl # None

ReadProfit == IF TakesProfitOfRefresh THEN orderpl ELSE order.profit

ReadVersion == IF TakesProfitOfRefresh THEN made.orderpl ELSE made.order

-----------------------------------------------------------------------------
\* The order is one that will be placed while the program runs; PumpManager is
\* about those that are there already.
Init ==
  /\ GateStart
  /\ trade = None
  /\ feed = <<>>
  /\ order = None
  /\ orderpl = None
  /\ version = 0
  /\ made = [order |-> 0, orderpl |-> 0]
  /\ waited = 0
  /\ lag = 0
  /\ escaped = FALSE

(* The server.  A price move is not reported; everything else is.            *)

Becomes(t) ==
  /\ version < MaxChanges
  /\ version' = version + 1
  /\ trade' = t
  /\ UNCHANGED <<gateVars, order, orderpl, made, waited, lag, escaped>>

Reported ==
  /\ Len(feed) < MaxFeed
  /\ feed' = Append(feed, [trade |-> trade', version |-> version'])

Place ==
  /\ trade = None
  /\ \E c \in Commands, d \in Digits, v \in Volumes, p, q \in Prices :
       /\ c < 2 => p = q
       /\ Becomes([cmd |-> c, digits |-> d, volume |-> v, state |-> "normal",
                   open_price |-> p, close_price |-> q, profit |-> 0])
  /\ Reported

Alive == trade # None /\ trade.state \in OpenStates

PriceMoves ==
  /\ Alive
  /\ \E p \in Prices :
       Becomes([trade EXCEPT !.close_price = p,
                             !.profit = Earned(trade.cmd, trade.open_price, p)])
  /\ UNCHANGED feed

Activate ==
  /\ Alive
  /\ trade.cmd > 1
  /\ Becomes([trade EXCEPT !.cmd = trade.cmd % 2, !.open_price = trade.close_price])
  /\ Reported

Close ==
  /\ Alive
  /\ Becomes([trade EXCEPT !.state = IF trade.cmd < 2 THEN "closed" ELSE "deleted"])
  /\ Reported

Restore ==
  /\ trade # None /\ trade.state = "closed"
  /\ Becomes([trade EXCEPT !.state = "restored"])
  /\ Reported

ServerStep == Place \/ PriceMoves \/ Activate \/ Close \/ Restore

(* Time, and the reader it is counted for.                                   *)

\* The reader is at the current version, or the count stays.
LookAt == lag' = IF order' = None \/ ReadVersion' = version THEN 0 ELSE lag

\* A millisecond without a tick; the count stops at the first that is too late.
TimePasses ==
  /\ ~escaped
  /\ waited < Gap
  /\ waited' = waited + 1
  /\ lag' = IF order = None \/ ReadVersion = version THEN 0
            ELSE IF lag > Limit + Gap THEN lag ELSE lag + 1
  /\ UNCHANGED <<gateVars, trade, feed, order, orderpl, version, made, escaped>>

(* PumpManager.                                                              *)

\* A mutant of StoreOrder: closed orders only leave the working set.
StoreOrderWhileOpen ==
  /\ ~escaped
  /\ feed # <<>>
  /\ IF Head(feed).trade.state \in OpenStates
       THEN /\ \E junk \in Memory : order' = jTrade(Head(feed).trade, junk)
            /\ made' = [made EXCEPT !.order = Head(feed).version]
       ELSE UNCHANGED <<order, made>>
  /\ feed' = Tail(feed)
  /\ UNCHANGED <<gateVars, trade, orderpl, version, waited, escaped>>
  /\ LookAt

\* A mutant of StoreOrder: the line that deletes orderpl on close (281, commented
\* out) is moved to where every report passes.
StoreOrderDropsProfit ==
  /\ ~escaped
  /\ feed # <<>>
  /\ \E junk \in Memory : order' = jTrade(Head(feed).trade, junk)
  /\ made' = [made EXCEPT !.order = Head(feed).version]
  /\ feed' = Tail(feed)
  /\ orderpl' = None
  /\ UNCHANGED <<gateVars, trade, version, waited, escaped>>
  /\ LookAt

\* PUMP_UPDATE_TRADES.
StoreOrder ==
  /\ ~escaped
  /\ feed # <<>>
  /\ \E junk \in Memory : order' = jTrade(Head(feed).trade, junk)
  /\ made' = [made EXCEPT !.order = Head(feed).version]
  /\ feed' = Tail(feed)
  /\ UNCHANGED <<gateVars, trade, orderpl, version, waited, escaped>>
  /\ LookAt

\* The loop over TradesGet.
RefreshProfit ==
  IF trade # None /\ trade.state \in OpenStates
    THEN orderpl' = trade.profit /\ made' = [made EXCEPT !.orderpl = version]
    ELSE UNCHANGED <<orderpl, made>>

\* PUMP_UPDATE_BIDASK, d milliseconds after the one before.
Tick(d) ==
  /\ ~escaped
  /\ waited = d
  /\ waited' = 0
  /\ \/ Pass(d) /\ RefreshProfit
     \/ Skip(d) /\ UNCHANGED <<orderpl, made>>
  /\ UNCHANGED <<trade, feed, order, version, escaped>>
  /\ LookAt

\* The gate is open, but UserRecordGet fails for one of the users: the exception
\* leaves PumpingFunc before prev_call is set and before the refresh.  What the
\* thread of the DLL makes of it is not known: it makes no further call here.
TickEscapes ==
  /\ ~escaped
  /\ waited \in 1 .. Gap
  /\ IsOpen(Wrap(call_time + waited))
  /\ escaped' = TRUE
  /\ UNCHANGED <<gateVars, trade, feed, order, orderpl, version, made, waited, lag>>

Next ==
  \/ ServerStep
  \/ TimePasses
  \/ StoreOrder
  \/ \E d \in 1 .. Gap : Tick(d)
  \/ TickEscapes

Spec == Init /\ [][Next]_vars

-----------------------------------------------------------------------------
OrderText ==
  [type: 0 .. 5, type_str: {TypeString[i] : i \in 1 .. 8},
   state: OpenStates \cup ClosedStates,
   digits: Nat, open_price: Prices, close_price: Prices, pips: Int, profit: Int,
   volume: Volumes, lots: Nat, swap: Memory]

ASSUME NoneAssumption == None \notin TradeRecord \cup OrderText \cup Int

\* Every variable keeps its type; a text of an order is complete.
TypeOK ==
  /\ trade \in TradeRecord \cup {None}
  /\ \A i \in 1 .. Len(feed) : feed[i].trade \in TradeRecord
  /\ order \in OrderText \cup {None}
  /\ orderpl \in Int \cup {None}
  /\ version \in Nat /\ made \in [order: Nat, orderpl: Nat]
  /\ waited \in 0 .. Gap /\ lag \in 0 .. Limit + Gap + 1 /\ escaped \in BOOLEAN

\* While an order is open, a reader sees a profit that was the server's at most
\* Limit + Gap milliseconds ago, wherever the tick count wraps and however
\* reports, ticks and the reader fall: Limit for the gate, and Gap more until the
\* tick that finds it open.  Not so once an exception has left the tick handler,
\* nor for an order that was restored: until the next refresh the reader is back
\* at what orderpl said before the close.
FreshProfit ==
  (opened /\ ~escaped /\ order # None /\ trade.state = "normal") =>
    lag <= Limit + Gap

\* Once an order is closed and everything was reported, a reader sees its final
\* profit, though the number under orderpl stays there and is older.
ClosedShowsFinal ==
  (trade # None /\ trade.state \in ClosedStates /\ feed = <<>>) =>
    order # None /\ ReadProfit = trade.profit

\* The order was restored and this is still to be reported, or the last report.
Restoring ==
  \E t \in {trade, order} \cup {feed[i].trade : i \in 1 .. Len(feed)} :
    t # None /\ t.state = "restored"

\* What a reader sees never goes back to an older version, although two writers
\* take turns whose sources differ in age; but around the restoring of an order,
\* when a report may be behind the number under orderpl.
ProfitNeverGoesBack ==
  [][(order # None /\ ~Restoring) => ReadVersion' >= ReadVersion]_vars

\* The same order quoted with one more digit, as brokers with fractional pips do.
Finer(t) ==
  [t EXCEPT !.digits = t.digits + 1,
            !.open_price = 10 * t.open_price, !.close_price = 10 * t.close_price]

\* A third or fifth digit changes neither the pips nor the digits that are shown.
PipsIgnoreExtraDigit ==
  (trade # None /\ trade.digits \in {2, 4}) =>
    /\ Pips(Finer(trade)) = Pips(trade)
    /\ ShownDigits(Finer(trade)) = ShownDigits(trade)

\* The text of a market order never shows pips gained and money lost, or the
\* other way round.
PipsAndProfitAgree ==
  (order # None /\ order.type < 2) =>
    /\ order.pips > 0 <=> order.profit > 0
    /\ order.pips < 0 <=> order.profit < 0
=============================================================================
