--------------------------- MODULE OrderViewsProofs ---------------------------
(***************************************************************************)
(* Proofs about OrderViews, for any prices, digits and memory contents, any *)
(* gate and any number of changes.                                         *)
(***************************************************************************)
EXTENDS OrderViews, QueueProofs

-----------------------------------------------------------------------------
(* The gates of the tick handler work across the wrap of GetTickCount, for   *)
(* any width of the count and any limit that, with the gap between ticks,    *)
(* stays below half a turn.                                                  *)

(***************************************************************************)
(* The two counts differ by the elapsed time, or by one turn less when the *)
(* count has wrapped in between.                                           *)
(***************************************************************************)
GateInv ==
  /\ call_time \in Ints
  /\ prev_call \in Ints
  /\ elapsed \in Nat
  /\ opened \in BOOLEAN
  /\ opened => /\ elapsed <= Limit
               /\ call_time - prev_call \in {elapsed, elapsed - 2 * Half}

\* The gate measures the elapsed time exactly as long as it is below half a
\* turn.
LEMMA Measured ==
  ASSUME GateInv, opened, NEW d \in 1 .. Gap
  PROVE  /\ Wrap(call_time + d) \in Ints
         /\ Wrap(call_time + d) - prev_call
              \in {elapsed + d, elapsed + d - 2 * Half}
         /\ Abs(Wrap(Wrap(call_time + d) - prev_call)) = elapsed + d
<1> USE GateAssumption
<1>1. Wrap(call_time + d) \in {call_time + d, call_time + d - 2 * Half}
  BY DEF GateInv, Ints, Wrap
<1>2. Wrap(call_time + d) \in Ints
  BY DEF GateInv, Ints, Wrap
<1>3. Wrap(call_time + d) - prev_call \in {elapsed + d, elapsed + d - 2 * Half}
  BY <1>1, <1>2 DEF GateInv, Ints
<1>4. elapsed \in Nat /\ d \in Nat /\ elapsed + d < Half
  BY DEF GateInv
<1>5. Wrap(Wrap(call_time + d) - prev_call) = elapsed + d
  <2>1. CASE Wrap(call_time + d) - prev_call = elapsed + d
    <3>1. Wrap(elapsed + d) = elapsed + d
      BY <1>4 DEF Wrap
    <3>. QED
      BY <2>1, <3>1
  <2>2. CASE Wrap(call_time + d) - prev_call = elapsed + d - 2 * Half
    <3>1. Wrap(elapsed + d - 2 * Half) = elapsed + d
      BY <1>4 DEF Wrap
    <3>. QED
      BY <2>2, <3>1
  <2>. QED
    BY <1>3, <2>1, <2>2
<1>. QED
  BY <1>2, <1>3, <1>4, <1>5 DEF Abs

\* The initial count and the initial 0 are ints; the gate has not opened.
LEMMA GateInit == GateStart => GateInv
<1> SUFFICES ASSUME GateStart PROVE GateInv
  OBVIOUS
<1> USE GateAssumption
<1>1. call_time \in Ints /\ prev_call \in Ints
  BY DEF GateStart, Ints
<1>2. elapsed \in Nat
  <2>1. call_time \in Int /\ call_time >= -Half
    BY DEF GateStart, Ints
  <2>2. CASE call_time >= 0
    BY <2>1, <2>2 DEF GateStart
  <2>3. CASE call_time < 0
    BY <2>1, <2>3 DEF GateStart
  <2>. QED
    BY <2>1, <2>2, <2>3
<1>. QED
  BY <1>1, <1>2 DEF GateStart, GateInv

\* An opening starts the count anew, a closed gate lets it grow no further than
\* the limit.
LEMMA GateStep == GateInv /\ [GateNext]_gateVars => GateInv'
<1> SUFFICES ASSUME GateInv, [GateNext]_gateVars PROVE GateInv'
  OBVIOUS
<1> USE GateAssumption
<1>1. ASSUME NEW d \in 1 .. Gap, Pass(d) PROVE GateInv'
  <2>1. Wrap(call_time + d) \in Ints
    BY DEF GateInv, Ints, Wrap
  <2>. QED
    BY <1>1, <2>1 DEF Pass, GateInv, Ints
<1>2. ASSUME NEW d \in 1 .. Gap, Skip(d), opened PROVE GateInv'
  BY <1>2, Measured DEF Skip, IsOpen, GateInv
<1>3. ASSUME NEW d \in 1 .. Gap, Skip(d), ~opened PROVE GateInv'
  <2>1. Wrap(call_time + d) \in Ints
    BY DEF GateInv, Ints, Wrap
  <2>. QED
    BY <1>3, <2>1 DEF Skip, GateInv
<1>4. CASE UNCHANGED gateVars
  BY <1>4 DEF gateVars, GateInv
<1>. QED
  BY <1>1, <1>2, <1>3, <1>4 DEF GateNext

\* A tick that comes more than Limit after the last opening finds the gate open.
THEOREM GatePrompt == GateSpec => []Prompt
<1>1. GateInv => Prompt
  BY DEF GateInv, Prompt
<1>. QED
  BY <1>1, GateInit, GateStep, PTL DEF GateSpec

\* One that comes earlier finds it closed.
THEOREM GateSpaced == GateSpec => Spaced
<1>1. GateInv /\ [GateNext]_gateVars
        => [\A d \in 1 .. Gap : (opened /\ Pass(d)) => elapsed + d > Limit]_gateVars
  BY Measured, GateAssumption DEF Pass, IsOpen
<1>. QED
  BY <1>1, GateInit, GateStep, PTL DEF GateSpec, Spaced

-----------------------------------------------------------------------------
(* The texts.                                                                *)

USE OrderAssumption, NoneAssumption

Reports == [trade: TradeRecord, version: Nat]

(***************************************************************************)
(* Every record the server makes has the profit of its prices, and every   *)
(* text was made of one.                                                   *)
(***************************************************************************)
RecordInv ==
  /\ trade \in TradeRecord \cup {None}
  /\ feed \in Seq(Reports)
  /\ order = None \/ \E t \in TradeRecord, junk \in Memory : order = jTrade(t, junk)
  /\ orderpl \in Int \cup {None}
  /\ version \in Nat
  /\ made \in [order: Nat, orderpl: Nat]
  /\ waited \in 0 .. Gap /\ lag \in 0 .. Limit + Gap + 1 /\ escaped \in BOOLEAN

\* jTrade makes a complete text of every record.
LEMMA TextIsText ==
  ASSUME NEW t \in TradeRecord, NEW junk \in Memory
  PROVE  /\ jTrade(t, junk) \in OrderText
         /\ jTrade(t, junk) # None
         /\ jTrade(t, junk).state = t.state
         /\ jTrade(t, junk).profit = t.profit
         /\ jTrade(t, junk).type = t.cmd
         /\ jTrade(t, junk).pips = Pips(t)
<1>1. /\ t.cmd \in 0 .. 5 /\ t.digits \in Nat /\ t.volume \in Volumes
      /\ t.state \in OpenStates \cup ClosedStates
      /\ t.open_price \in Prices /\ t.close_price \in Prices /\ t.profit \in Int
  BY DEF TradeRecord
<1>2. ShownDigits(t) \in Nat
  BY <1>1 DEF ShownDigits
<1>3. Move(t) \in Int
  <2>1. t.open_price \in Int /\ t.close_price \in Int
    BY <1>1
  <2>2. t.close_price - t.open_price \in Int /\ t.open_price - t.close_price \in Int
    BY <2>1
  <2>. QED
    BY <2>2 DEF Move
<1>4. Pips(t) \in Int
  BY <1>2, <1>3 DEF Pips
<1>5. Lots(t) \in Nat
  <2>1. t.volume \in Nat
    BY <1>1
  <2>. QED
    BY <2>1 DEF Lots
<1>6. TypeString[t.cmd + 1] \in {TypeString[i] : i \in 1 .. 8}
  BY <1>1
<1>7. jTrade(t, junk) \in OrderText
  BY <1>1, <1>2, <1>4, <1>5, <1>6 DEF jTrade, OrderText
<1>. QED
  BY <1>7 DEF jTrade

(***************************************************************************)
(* What a step of the server makes of the record, and of the feed.         *)
(***************************************************************************)
ServerChange(t) ==
  /\ t \in TradeRecord
  /\ Becomes(t)
  /\ \/ trade = None /\ t.state = "normal" /\ Reported
     \/ Alive /\ t.state = trade.state /\ (Reported \/ UNCHANGED feed)
     \/ Alive /\ t.state \in ClosedStates /\ Reported
     \/ trade # None /\ trade.state = "closed" /\ t.state = "restored" /\ Reported

\* A record is one of TradeRecord if its members are and its profit is earned.
LEMMA IsRecord ==
  ASSUME NEW t \in [cmd: 0 .. 5, digits: Digits, volume: Volumes,
                    state: OpenStates \cup ClosedStates,
                    open_price: Prices, close_price: Prices, profit: Int],
         t.profit = Earned(t.cmd, t.open_price, t.close_price)
  PROVE  t \in TradeRecord
  BY DEF TradeRecord

\* Whatever the server does to the order, the profit stays that of its prices.
LEMMA ServerSteps ==
  ASSUME RecordInv, ServerStep
  PROVE  \E t : ServerChange(t)
<1> USE DEF OpenStates, ClosedStates
<1>1. CASE Place
  <2>1. PICK c \in Commands, d \in Digits, v \in Volumes, p \in Prices, q \in Prices :
          /\ trade = None
          /\ c < 2 => p = q
          /\ Becomes([cmd |-> c, digits |-> d, volume |-> v, state |-> "normal",
                      open_price |-> p, close_price |-> q, profit |-> 0])
          /\ Reported
    BY <1>1 DEF Place
  <2> DEFINE t == [cmd |-> c, digits |-> d, volume |-> v, state |-> "normal",
                   open_price |-> p, close_price |-> q, profit |-> 0]
  <2>2. Earned(c, p, q) = 0
    BY <2>1 DEF Earned
  <2>3. t \in TradeRecord
    BY <2>2, IsRecord
  <2>. QED
    BY <2>1, <2>3 DEF ServerChange
<1>2. CASE PriceMoves
  <2>1. PICK p \in Prices :
          Becomes([trade EXCEPT !.close_price = p,
                                !.profit = Earned(trade.cmd, trade.open_price, p)])
    BY <1>2 DEF PriceMoves
  <2>2. Alive /\ UNCHANGED feed /\ trade \in TradeRecord
    BY <1>2 DEF PriceMoves, Alive, RecordInv
  <2> DEFINE t == [trade EXCEPT !.close_price = p,
                                !.profit = Earned(trade.cmd, trade.open_price, p)]
  <2>3. Earned(trade.cmd, trade.open_price, p) \in Int
    BY <2>2 DEF Earned, TradeRecord
  <2>4. t \in TradeRecord /\ t.state = trade.state
    BY <2>2, <2>3, IsRecord DEF TradeRecord
  <2>. QED
    BY <2>1, <2>2, <2>4 DEF ServerChange
<1>3. CASE Activate
  <2> DEFINE t == [trade EXCEPT !.cmd = trade.cmd % 2, !.open_price = trade.close_price]
  <2>1. Alive /\ Becomes(t) /\ Reported /\ trade.cmd > 1 /\ trade \in TradeRecord
    BY <1>3 DEF Activate, Alive, RecordInv
  <2>2. trade.profit = 0 /\ trade.cmd % 2 \in {0, 1}
    BY <2>1 DEF TradeRecord, Earned
  <2> DEFINE m == trade.cmd % 2
  <2> HIDE DEF m
  <2>3. m \in 0 .. 5
    BY <2>2 DEF m
  <2>4. Earned(trade.cmd % 2, trade.close_price, trade.close_price) = 0
    BY <2>1, <2>2 DEF TradeRecord, Earned
  <2>5. /\ t.cmd = trade.cmd % 2 /\ t.profit = 0 /\ t.state = trade.state
        /\ t.open_price = trade.close_price /\ t.close_price = trade.close_price
    BY <2>1, <2>2 DEF TradeRecord
  <2>6. t \in [cmd: 0 .. 5, digits: Digits, volume: Volumes,
               state: OpenStates \cup ClosedStates,
               open_price: Prices, close_price: Prices, profit: Int]
    <3>1. t = [trade EXCEPT !.cmd = m, !.open_price = trade.close_price]
      BY DEF m
    <3> HIDE DEF t
    <3>2. QED
      BY <2>1, <2>3, <3>1 DEF TradeRecord
  <2>7. t \in TradeRecord
    BY <2>4, <2>5, <2>6, IsRecord
  <2>. QED
    BY <2>1, <2>5, <2>7 DEF ServerChange
<1>4. CASE Close
  <2> DEFINE t == [trade EXCEPT !.state = IF trade.cmd < 2 THEN "closed" ELSE "deleted"]
  <2>1. Alive /\ Becomes(t) /\ Reported /\ trade \in TradeRecord
    BY <1>4 DEF Close, Alive, RecordInv
  <2>2. t.state \in ClosedStates
    BY <2>1 DEF TradeRecord
  <2>3. t \in TradeRecord
    BY <2>1, <2>2 DEF TradeRecord
  <2>. QED
    BY <2>1, <2>2, <2>3 DEF ServerChange
<1>5. CASE Restore
  <2> DEFINE t == [trade EXCEPT !.state = "restored"]
  <2>1. Becomes(t) /\ Reported /\ trade \in TradeRecord /\ trade # None
        /\ trade.state = "closed"
    BY <1>5 DEF Restore, RecordInv
  <2>2. t \in TradeRecord /\ t.state = "restored"
    BY <2>1, IsRecord DEF TradeRecord
  <2>. QED
    BY <2>1, <2>2 DEF ServerChange
<1>. QED
  BY <1>1, <1>2, <1>3, <1>4, <1>5 DEF ServerStep

-----------------------------------------------------------------------------
\* A report joins the end of the feed.
LEMMA ReportJoins ==
  ASSUME RecordInv, NEW t, ServerChange(t), Reported
  PROVE  /\ feed' \in Seq(Reports) /\ feed' # <<>>
         /\ Len(feed) \in Nat /\ Len(feed') = Len(feed) + 1
         /\ \A i \in 1 .. Len(feed) : feed'[i] = feed[i]
         /\ feed'[Len(feed')].trade = t /\ feed'[Len(feed')].version = version + 1
<1> DEFINE r == [trade |-> t, version |-> version + 1]
<1>1. r \in Reports /\ feed \in Seq(Reports)
  BY DEF ServerChange, RecordInv, Reports
<1>2. feed' = Append(feed, r)
  BY DEF Reported, ServerChange, Becomes
<1>. QED
  BY <1>1, <1>2, AppendFacts

\* The oldest one is made into the order's text.
LEMMA ReportStored ==
  ASSUME RecordInv, StoreOrder
  PROVE  /\ feed[1] \in Reports
         /\ feed' \in Seq(Reports)
         /\ Len(feed) \in Nat /\ Len(feed) >= 1 /\ Len(feed') = Len(feed) - 1
         /\ \A i \in 1 .. Len(feed') : feed'[i] = feed[i + 1]
         /\ feed' = <<>> <=> Len(feed) = 1
         /\ \E junk \in Memory : order' = jTrade(feed[1].trade, junk)
         /\ order' # None
         /\ made' = [made EXCEPT !.order = feed[1].version]
<1>1. feed \in Seq(Reports) /\ feed # <<>>
  BY DEF RecordInv, StoreOrder
<1>2. Head(feed) = feed[1] /\ feed[1] \in Reports
  BY <1>1, TailFacts
<1>3. PICK junk \in Memory : order' = jTrade(feed[1].trade, junk)
  BY <1>2 DEF StoreOrder
<1>4. order' # None
  BY <1>2, <1>3, TextIsText DEF Reports
<1>. QED
  BY <1>1, <1>2, <1>3, <1>4, TailFacts DEF StoreOrder

\* Nothing is stored before the order is placed.
LEMMA RecordInit == Init => RecordInv
<1> SUFFICES ASSUME Init PROVE RecordInv
  OBVIOUS
<1>1. <<>> \in Seq(Reports)
  BY EmptySeq
<1>2. 0 \in 0 .. Gap /\ 0 \in 0 .. Limit + Gap + 1
  BY GateAssumption
<1>. QED
  BY <1>1, <1>2 DEF Init, RecordInv

\* Texts are made of records only, and the records stay consistent.
LEMMA RecordStep == RecordInv /\ GateInv /\ [Next]_vars => RecordInv'
<1> SUFFICES ASSUME RecordInv, GateInv, [Next]_vars PROVE RecordInv'
  OBVIOUS
<1>1. CASE ServerStep
  <2>1. PICK t : ServerChange(t)
    BY <1>1, ServerSteps
  <2>2. feed' \in Seq(Reports)
    <3>1. CASE Reported
      BY <2>1, <3>1, ReportJoins
    <3>2. CASE UNCHANGED feed
      BY <3>2 DEF RecordInv
    <3>. QED
      BY <2>1, <3>1, <3>2 DEF ServerChange
  <2>3. version' \in Nat
    BY <2>1 DEF ServerChange, Becomes, RecordInv
  <2>. QED
    BY <2>1, <2>2, <2>3 DEF ServerChange, Becomes, RecordInv
<1>2. CASE StoreOrder
  <2>1. PICK junk \in Memory : order' = jTrade(feed[1].trade, junk)
    BY <1>2, ReportStored
  <2>2. feed[1].trade \in TradeRecord /\ feed[1].version \in Nat
    BY <1>2, ReportStored DEF Reports
  <2>3. made' \in [order: Nat, orderpl: Nat]
    BY <1>2, <2>2, ReportStored DEF RecordInv
  <2>4. lag' \in 0 .. Limit + Gap + 1
    BY <1>2, GateAssumption DEF StoreOrder, LookAt, RecordInv
  <2>. QED
    BY <1>2, <2>1, <2>2, <2>3, <2>4, ReportStored DEF RecordInv, StoreOrder
<1>3. ASSUME NEW d \in 1 .. Gap, Tick(d) PROVE RecordInv'
  <2>1. lag' \in 0 .. Limit + Gap + 1 /\ waited' \in 0 .. Gap
    BY <1>3, GateAssumption DEF Tick, LookAt, RecordInv
  <2>2. orderpl' \in Int \cup {None} /\ made' \in [order: Nat, orderpl: Nat]
    <3>1. CASE RefreshProfit
      BY <3>1 DEF RefreshProfit, RecordInv, TradeRecord
    <3>2. CASE UNCHANGED <<orderpl, made>>
      BY <3>2 DEF RecordInv
    <3>. QED
      BY <1>3, <3>1, <3>2 DEF Tick
  <2>. QED
    BY <1>3, <2>1, <2>2 DEF Tick, RecordInv
<1>4. CASE TimePasses
  <2>1. lag' \in 0 .. Limit + Gap + 1 /\ waited' \in 0 .. Gap
    BY <1>4, GateAssumption DEF TimePasses, RecordInv
  <2>. QED
    BY <1>4, <2>1 DEF TimePasses, RecordInv
<1>5. CASE TickEscapes
  BY <1>5 DEF TickEscapes, RecordInv
<1>6. CASE UNCHANGED vars
  BY <1>6 DEF vars, viewVars, RecordInv
<1>. QED
  BY <1>1, <1>2, <1>3, <1>4, <1>5, <1>6 DEF Next

\* The gate of the refresh goes on whatever happens to the order.
LEMMA GateGoesOn == Next => [GateNext]_gateVars
<1>1. ASSUME NEW t, ServerChange(t) PROVE UNCHANGED gateVars
  BY <1>1 DEF ServerChange, Becomes
<1>2. ServerStep => UNCHANGED gateVars
  BY DEF ServerStep, Place, PriceMoves, Activate, Close, Restore, Becomes
<1>3. StoreOrder => UNCHANGED gateVars
  BY DEF StoreOrder
<1>4. ASSUME NEW d \in 1 .. Gap, Tick(d) PROVE GateNext
  BY <1>4 DEF Tick, GateNext
<1>5. TimePasses \/ TickEscapes => UNCHANGED gateVars
  BY DEF TimePasses, TickEscapes
<1>. QED
  BY <1>2, <1>3, <1>4, <1>5 DEF Next

\* Only ticks move the gate.
LEMMA GateInvStep == GateInv /\ [Next]_vars => GateInv'
  BY GateGoesOn, GateStep DEF vars, gateVars

\* The gate of the refresh, among everything else a tick does, is the gate of
\* TickGate: the two theorems about that hold of it as well.
THEOREM RefreshIsGated == Spec => GateSpec /\ []Prompt /\ Spaced
<1>1. Init => GateStart
  BY DEF Init
<1>2. [Next]_vars => [GateNext]_gateVars
  BY GateGoesOn DEF vars, gateVars
<1>. QED
  BY <1>1, <1>2, GatePrompt, GateSpaced, PTL DEF Spec, GateSpec

\* Texts and records keep their types, for any prices.
THEOREM ViewsTyped == Spec => []TypeOK
<1>1. Init => GateInv
  BY GateInit DEF Init
<1>2. RecordInv => TypeOK
  <2> SUFFICES ASSUME RecordInv PROVE TypeOK
    OBVIOUS
  <2>1. \A i \in 1 .. Len(feed) : feed[i].trade \in TradeRecord
    <3>1. feed \in Seq(Reports)
      BY DEF RecordInv
    <3>2. \A i \in 1 .. Len(feed) : feed[i] \in Reports
      BY <3>1, ElementOfSeq
    <3>. QED
      BY <3>2 DEF Reports
  <2>2. order \in OrderText \cup {None}
    BY TextIsText DEF RecordInv
  <2>. QED
    BY <2>1, <2>2 DEF RecordInv, TypeOK
<1>. QED
  BY <1>1, <1>2, RecordInit, RecordStep, GateInvStep, PTL DEF Spec

\* A text made of a record shows pips of the profit's sign.
THEOREM SignsAgree == Spec => []PipsAndProfitAgree
<1>1. Init => GateInv
  BY GateInit DEF Init
<1>2. RecordInv => PipsAndProfitAgree
  <2> SUFFICES ASSUME RecordInv, order # None, order.type < 2
               PROVE  /\ order.pips > 0 <=> order.profit > 0
                      /\ order.pips < 0 <=> order.profit < 0
    BY DEF PipsAndProfitAgree
  <2>1. PICK t \in TradeRecord, junk \in Memory : order = jTrade(t, junk)
    BY DEF RecordInv
  <2>2. t.cmd \in {0, 1} /\ order.pips = Pips(t) /\ order.profit = t.profit
    BY <2>1, TextIsText DEF TradeRecord
  <2>3. Move(t) = t.profit /\ t.profit \in Int
    BY <2>2 DEF Move, Earned, TradeRecord
  <2>. QED
    BY <2>2, <2>3 DEF Pips
<1>. QED
  BY <1>1, <1>2, RecordInit, RecordStep, GateInvStep, PTL DEF Spec

\* The extra digit of a three or five digit symbol is shifted out again.
THEOREM ExtraDigitIgnored == Spec => []PipsIgnoreExtraDigit
<1>1. Init => GateInv
  BY GateInit DEF Init
<1>2. RecordInv => PipsIgnoreExtraDigit
  <2> SUFFICES ASSUME RecordInv, trade # None, trade.digits \in {2, 4}
               PROVE  /\ Pips(Finer(trade)) = Pips(trade)
                      /\ ShownDigits(Finer(trade)) = ShownDigits(trade)
    BY DEF PipsIgnoreExtraDigit
  <2>1. /\ trade.open_price \in Int /\ trade.close_price \in Int
        /\ trade \in [cmd: 0 .. 5, digits: Digits, volume: Volumes,
                      state: OpenStates \cup ClosedStates,
                      open_price: Prices, close_price: Prices, profit: Int]
    BY DEF RecordInv, TradeRecord
  <2>2. /\ Finer(trade).cmd = trade.cmd
        /\ Finer(trade).digits = trade.digits + 1
        /\ Finer(trade).open_price = 10 * trade.open_price
        /\ Finer(trade).close_price = 10 * trade.close_price
    BY <2>1 DEF Finer
  <2>3. ShownDigits(Finer(trade)) = trade.digits /\ ShownDigits(trade) = trade.digits
    BY <2>2 DEF ShownDigits
  <2>4. Finer(trade).digits # trade.digits
    BY <2>2
  <2>5. Move(Finer(trade)) = 10 * Move(trade) /\ Move(trade) \in Int
    BY <2>1, <2>2 DEF Move
  <2>. QED
    BY <2>3, <2>4, <2>5 DEF Pips
<1>. QED
  BY <1>1, <1>2, RecordInit, RecordStep, GateInvStep, PTL DEF Spec

-----------------------------------------------------------------------------
(***************************************************************************)
(* The last thing that was, or is still to be, stored of the order knows   *)
(* its state, and the profit it closed with; an order that was never       *)
(* closed has never been reported as anything but "normal".                *)
(***************************************************************************)
LastKnown == IF feed = <<>> THEN order ELSE feed[Len(feed)].trade

LastInv ==
  /\ trade = None => order = None /\ feed = <<>>
  /\ trade # None =>
       /\ LastKnown # None
       /\ LastKnown.state = trade.state
       /\ trade.state \in ClosedStates => LastKnown.profit = trade.profit
  /\ trade # None /\ trade.state = "normal" =>
       /\ \A i \in 1 .. Len(feed) : feed[i].trade.state = "normal"
       /\ order # None => order.state = "normal"

\* Every change but a price move is reported, and prices move open orders only.
LEMMA LastStep == LastInv /\ RecordInv /\ [Next]_vars => LastInv'
<1> SUFFICES ASSUME LastInv, RecordInv, [Next]_vars PROVE LastInv'
  OBVIOUS
<1>1. CASE ServerStep
  <2>1. PICK t : ServerChange(t)
    BY <1>1, ServerSteps
  <2>2. t # None /\ trade' = t /\ UNCHANGED order
    BY <2>1 DEF ServerChange, Becomes
  <2>3. CASE Reported
    <3>1. LastKnown' = t
      BY <2>1, <2>3, ReportJoins DEF LastKnown
    <3>2. ASSUME t.state = "normal"
          PROVE  /\ \A i \in 1 .. Len(feed') : feed'[i].trade.state = "normal"
                 /\ order # None => order.state = "normal"
      <4>1. trade # None => trade.state = "normal"
        BY <2>1, <3>2 DEF ServerChange, OpenStates, ClosedStates
      <4>2. /\ \A i \in 1 .. Len(feed) : feed[i].trade.state = "normal"
            /\ order # None => order.state = "normal"
        BY <4>1 DEF LastInv
      <4>. QED
        BY <2>1, <2>3, <3>2, <4>2, ReportJoins
    <3>. QED
      BY <2>2, <3>1, <3>2 DEF LastInv
  <2>4. CASE UNCHANGED feed
    <3>1. ASSUME ~Reported PROVE t.state = trade.state /\ Alive
      BY <2>1, <3>1 DEF ServerChange
    <3>2. CASE ~Reported
      BY <2>2, <2>4, <3>1, <3>2 DEF LastInv, LastKnown, Alive, OpenStates, ClosedStates
    <3>. QED
      BY <2>3, <3>2
  <2>. QED
    BY <2>1, <2>3, <2>4 DEF ServerChange
<1>2. CASE StoreOrder
  <2>1. feed # <<>> /\ UNCHANGED trade
    BY <1>2 DEF StoreOrder
  <2>2. PICK junk \in Memory : order' = jTrade(feed[1].trade, junk)
    BY <1>2, ReportStored
  <2>3. /\ order'.state = feed[1].trade.state /\ order'.profit = feed[1].trade.profit
        /\ order' # None
    BY <1>2, <2>2, ReportStored, TextIsText DEF Reports
  <2>4. CASE Len(feed) = 1
    <3>1. feed' = <<>> /\ LastKnown = feed[1].trade /\ LastKnown' = order'
      BY <1>2, <2>1, <2>4, ReportStored DEF LastKnown
    <3>2. Len(feed') = 0
      BY <1>2, <2>4, ReportStored
    <3>. QED
      BY <2>1, <2>3, <2>4, <3>1, <3>2 DEF LastInv
  <2>5. CASE Len(feed) # 1
    <3>1. feed' # <<>> /\ Len(feed') \in 1 .. Len(feed')
      BY <1>2, <2>5, ReportStored
    <3>2. feed'[Len(feed')] = feed[Len(feed)]
      BY <1>2, <3>1, ReportStored
    <3>3. LastKnown' = LastKnown
      BY <2>1, <3>1, <3>2 DEF LastKnown
    <3>4. \A i \in 1 .. Len(feed') : i + 1 \in 1 .. Len(feed) /\ feed'[i] = feed[i + 1]
      BY <1>2, ReportStored
    <3>5. 1 \in 1 .. Len(feed)
      BY <1>2, ReportStored
    <3>. QED
      BY <2>1, <2>3, <3>3, <3>4, <3>5 DEF LastInv
  <2>. QED
    BY <2>4, <2>5
<1>3. ASSUME NEW d \in 1 .. Gap, Tick(d) PROVE LastInv'
  BY <1>3 DEF Tick, LastInv, LastKnown
<1>4. CASE TimePasses \/ TickEscapes
  BY <1>4 DEF TimePasses, TickEscapes, LastInv, LastKnown
<1>5. CASE UNCHANGED vars
  BY <1>5 DEF vars, viewVars, LastInv, LastKnown
<1>. QED
  BY <1>1, <1>2, <1>3, <1>4, <1>5 DEF Next

\* No report is on its way at the start.
LEMMA LastInit == Init => LastInv
<1> SUFFICES ASSUME Init PROVE LastInv
  OBVIOUS
<1>. QED
  BY DEF Init, LastInv, LastKnown

\* After the last report a reader sees the profit the order closed with.
THEOREM FinalProfit == Spec => []ClosedShowsFinal
<1>1. Init => GateInv
  BY GateInit DEF Init
<1>2. LastInv => ClosedShowsFinal
  BY DEF LastInv, LastKnown, ClosedShowsFinal, ReadProfit, TakesProfitOfRefresh,
         OpenStates, ClosedStates
<1>. QED
  BY <1>1, <1>2, RecordInit, RecordStep, GateInvStep, LastInit, LastStep, PTL DEF Spec

-----------------------------------------------------------------------------
(***************************************************************************)
(* What a reader misses is no older than the last opening of the gate; and *)
(* from there to now it is the gate's time and that since the last tick.   *)
(***************************************************************************)
AgeInv ==
  /\ order = None => lag = 0
  /\ (opened /\ trade # None /\ trade.state = "normal") => lag <= elapsed + waited

\* An opening shows the reader the current version; a tick that finds the gate
\* closed leaves the sum of the two times, and time adds to both sides the same.
LEMMA AgeStep ==
  AgeInv /\ LastInv /\ RecordInv /\ GateInv /\ [Next]_vars => AgeInv'
<1> SUFFICES ASSUME AgeInv, LastInv, RecordInv, GateInv, [Next]_vars PROVE AgeInv'
  OBVIOUS
<1> DEFINE Times == lag \in Nat /\ elapsed \in Nat /\ waited \in Nat
<1>0. Times
  BY GateAssumption DEF RecordInv, GateInv
<1>1. CASE ServerStep
  <2>1. PICK t : ServerChange(t)
    BY <1>1, ServerSteps
  <2>2. UNCHANGED <<order, lag, waited, opened, elapsed>> /\ trade' = t
    BY <2>1 DEF ServerChange, Becomes, gateVars
  <2>3. t.state = "normal" => trade = None \/ trade.state = "normal"
    BY <2>1 DEF ServerChange, ClosedStates
  <2>4. trade = None => lag = 0
    BY DEF LastInv, AgeInv
  <2>. QED
    BY <1>0, <2>2, <2>3, <2>4 DEF AgeInv
<1>2. CASE StoreOrder
  <2>1. order' # None /\ UNCHANGED <<trade, waited, opened, elapsed>>
    BY <1>2, ReportStored DEF StoreOrder, gateVars
  <2>2. lag' \in {0, lag}
    BY <1>2 DEF StoreOrder, LookAt
  <2>. QED
    BY <1>0, <2>1, <2>2 DEF AgeInv
<1>3. ASSUME NEW d \in 1 .. Gap, Tick(d) PROVE AgeInv'
  <2>1. UNCHANGED <<trade, order>> /\ LookAt /\ waited = d /\ waited' = 0
    BY <1>3 DEF Tick
  <2>2. order' = None => lag' = 0
    BY <2>1 DEF LookAt
  <2>3. ASSUME Pass(d), RefreshProfit, trade # None, trade.state = "normal"
        PROVE  lag' <= elapsed' + waited'
    <3>1. orderpl' = trade.profit /\ made'.orderpl = version
      BY <2>3 DEF RefreshProfit, OpenStates, RecordInv
    <3>2. orderpl' # None
      BY <2>3, <3>1 DEF RecordInv, TradeRecord
    <3>3. order # None => ReadVersion' = version
      BY <2>1, <2>3, <3>1, <3>2 DEF ReadVersion, TakesProfitOfRefresh, LastInv, OpenStates
    <3>4. lag' = 0
      <4>1. UNCHANGED version
        BY <1>3 DEF Tick
      <4>. QED
        BY <2>1, <3>3, <4>1 DEF LookAt
    <3>. QED
      BY <2>1, <2>3, <3>4 DEF Pass
  <2>4. ASSUME Skip(d), opened, trade # None, trade.state = "normal"
        PROVE  lag' <= elapsed' + waited'
    <3>1. lag <= elapsed + waited /\ elapsed' = elapsed + d
      BY <2>4 DEF AgeInv, Skip
    <3>2. lag' \in {0, lag}
      BY <2>1 DEF LookAt
    <3>. QED
      BY <1>0, <2>1, <3>1, <3>2
  <2>. QED
    BY <1>3, <2>1, <2>2, <2>3, <2>4 DEF Tick, AgeInv, Skip
<1>4. CASE TimePasses
  <2>1. UNCHANGED <<trade, order, opened, elapsed>> /\ waited' = waited + 1
    BY <1>4 DEF TimePasses, gateVars
  <2>2. lag' \in {0, lag, lag + 1} /\ (order = None => lag' = 0)
    BY <1>4 DEF TimePasses
  <2>. QED
    BY <1>0, <2>1, <2>2 DEF AgeInv
<1>5. CASE TickEscapes
  BY <1>5 DEF TickEscapes, gateVars, AgeInv
<1>6. CASE UNCHANGED vars
  BY <1>6 DEF vars, viewVars, gateVars, AgeInv
<1>. QED
  BY <1>1, <1>2, <1>3, <1>4, <1>5, <1>6 DEF Next

\* The profit of an open order is never older than the limit of the gate and the
\* gap between two ticks, whenever the reader comes.
THEOREM ProfitIsFresh == Spec => []FreshProfit
<1>1. Init => GateInv
  BY GateInit DEF Init
<1>2. Init => AgeInv
  <2> SUFFICES ASSUME Init PROVE AgeInv
    OBVIOUS
  <2>. QED
    BY DEF Init, GateStart, AgeInv
<1>3. AgeInv /\ LastInv /\ RecordInv /\ GateInv => FreshProfit
  <2> SUFFICES ASSUME AgeInv, LastInv, RecordInv, GateInv,
                      opened, order # None, trade.state = "normal"
               PROVE  lag <= Limit + Gap
    BY DEF FreshProfit
  <2>1. trade # None /\ lag <= elapsed + waited /\ elapsed <= Limit /\ waited <= Gap
    BY GateAssumption DEF LastInv, AgeInv, GateInv, RecordInv
  <2>2. lag \in Nat /\ elapsed \in Nat /\ waited \in Nat
    BY GateAssumption DEF RecordInv, GateInv
  <2>. QED
    BY <2>1, <2>2, GateAssumption
<1>. QED
  BY <1>1, <1>2, <1>3, RecordInit, RecordStep, GateInvStep, LastInit, LastStep, AgeStep,
     PTL DEF Spec

-----------------------------------------------------------------------------
(***************************************************************************)
(* Versions grow from the text to the oldest report, and from there to the *)
(* newest.  After a close comes nothing but a restoring, and no refresh    *)
(* has stored a profit that is newer than the report of a close.           *)
(***************************************************************************)
OrderInv ==
  /\ made.order <= version /\ made.orderpl <= version
  /\ \A i \in 1 .. Len(feed) : made.order <= feed[i].version /\ feed[i].version <= version
  /\ \A i, j \in 1 .. Len(feed) : i <= j => feed[i].version <= feed[j].version

CloseInv ==
  /\ \A i \in 1 .. Len(feed) :
       (i + 1 \in 1 .. Len(feed) /\ feed[i].trade.state \in ClosedStates) =>
         feed[i + 1].trade.state = "restored"
  /\ (order # None /\ order.state \in ClosedStates /\ feed # <<>>) =>
       feed[1].trade.state = "restored"
  /\ (trade # None /\ trade.state \in ClosedStates /\ feed # <<>>) =>
       made.orderpl <= feed[Len(feed)].version

\* A report has the type that its writers gave it.
LEMMA FeedTyped ==
  ASSUME RecordInv
  PROVE  /\ Len(feed) \in Nat
         /\ feed # <<>> <=> Len(feed) # 0
         /\ \A i \in 1 .. Len(feed) :
              /\ feed[i].version \in Nat
              /\ feed[i].trade \in TradeRecord
<1>1. feed \in Seq(Reports)
  BY DEF RecordInv
<1>2. Len(feed) \in Nat /\ (feed # <<>> <=> Len(feed) # 0)
  BY <1>1, EmptySeq, LenProperties
<1>3. \A i \in 1 .. Len(feed) : feed[i] \in Reports
  BY <1>1, ElementOfSeq
<1>. QED
  BY <1>2, <1>3 DEF Reports

\* Reports carry the version they were made of, and are stored oldest first.
LEMMA OrderStep == OrderInv /\ RecordInv /\ [Next]_vars => OrderInv'
<1> SUFFICES ASSUME OrderInv, RecordInv, [Next]_vars PROVE OrderInv'
  OBVIOUS
<1> USE FeedTyped
<1>1. CASE ServerStep
  <2>1. PICK t : ServerChange(t)
    BY <1>1, ServerSteps
  <2>2. version' = version + 1 /\ UNCHANGED made /\ version \in Nat
        /\ made.order \in Nat /\ made.orderpl \in Nat
    BY <2>1 DEF ServerChange, Becomes, RecordInv
  <2>3. CASE Reported
    <3>1. /\ Len(feed') = Len(feed) + 1
          /\ \A i \in 1 .. Len(feed) : feed'[i] = feed[i]
          /\ feed'[Len(feed) + 1].version = version + 1
      BY <2>1, <2>3, ReportJoins
    <3>2. \A i \in 1 .. Len(feed') : i = Len(feed) + 1 \/ i \in 1 .. Len(feed)
      BY <3>1
    <3>3. \A i \in 1 .. Len(feed') :
            made.order <= feed'[i].version /\ feed'[i].version <= version + 1
      BY <2>2, <3>1, <3>2 DEF OrderInv
    <3>4. \A i, j \in 1 .. Len(feed') : i <= j => feed'[i].version <= feed'[j].version
      <4> TAKE i, j \in 1 .. Len(feed')
      <4>1. CASE j = Len(feed) + 1
        BY <4>1, <3>1, <3>3
      <4>2. CASE j \in 1 .. Len(feed) /\ i <= j
        <5>1. i \in 1 .. Len(feed)
          BY <4>2
        <5>. QED
          BY <5>1, <4>2, <3>1 DEF OrderInv
      <4>. QED
        BY <4>1, <4>2, <3>2
    <3>. QED
      BY <2>2, <3>3, <3>4 DEF OrderInv
  <2>4. CASE UNCHANGED feed
    BY <2>2, <2>4 DEF OrderInv
  <2>. QED
    BY <2>1, <2>3, <2>4 DEF ServerChange
<1>2. CASE StoreOrder
  <2>1. UNCHANGED version
    BY <1>2 DEF StoreOrder
  <2>2. /\ Len(feed') = Len(feed) - 1 /\ Len(feed) >= 1
        /\ \A i \in 1 .. Len(feed') : feed'[i] = feed[i + 1]
    BY <1>2, ReportStored
  <2>3. made'.order = feed[1].version /\ made'.orderpl = made.orderpl
    BY <1>2, ReportStored DEF RecordInv
  <2>4. \A i \in 1 .. Len(feed') : i + 1 \in 1 .. Len(feed)
    BY <2>2
  <2>5. 1 \in 1 .. Len(feed)
    BY <2>2
  <2>6. \A i \in 1 .. Len(feed') :
          made'.order <= feed'[i].version /\ feed'[i].version <= version
    <3> TAKE i \in 1 .. Len(feed')
    <3>1. feed'[i] = feed[i + 1] /\ i + 1 \in 1 .. Len(feed) /\ 1 <= i + 1
      BY <2>2, <2>4
    <3>2. feed[1].version <= feed[i + 1].version /\ feed[i + 1].version <= version
      BY <2>5, <3>1 DEF OrderInv
    <3>. QED
      BY <2>3, <3>1, <3>2
  <2>7. \A i, j \in 1 .. Len(feed') : i <= j => feed'[i].version <= feed'[j].version
    <3> TAKE i, j \in 1 .. Len(feed')
    <3> HAVE i <= j
    <3>1. feed'[i] = feed[i + 1] /\ feed'[j] = feed[j + 1]
      BY <2>2
    <3>2. i + 1 \in 1 .. Len(feed) /\ j + 1 \in 1 .. Len(feed) /\ i + 1 <= j + 1
      BY <2>4
    <3>. QED
      BY <3>1, <3>2 DEF OrderInv
  <2>. QED
    BY <2>1, <2>3, <2>5, <2>6, <2>7 DEF OrderInv
<1>3. ASSUME NEW d \in 1 .. Gap, Tick(d) PROVE OrderInv'
  <2>1. UNCHANGED <<feed, version>> /\ made'.order = made.order
        /\ made'.orderpl \in {made.orderpl, version} /\ version \in Nat
    BY <1>3 DEF Tick, RefreshProfit, RecordInv
  <2>. QED
    BY <2>1 DEF OrderInv
<1>4. CASE TimePasses \/ TickEscapes
  BY <1>4 DEF TimePasses, TickEscapes, OrderInv
<1>5. CASE UNCHANGED vars
  BY <1>5 DEF vars, viewVars, OrderInv
<1>. QED
  BY <1>1, <1>2, <1>3, <1>4, <1>5 DEF Next

\* A closed order takes no further change but to be restored, and the refresh
\* leaves its number alone.
LEMMA CloseStep ==
  CloseInv /\ OrderInv /\ LastInv /\ RecordInv /\ [Next]_vars => CloseInv'
<1> SUFFICES ASSUME CloseInv, OrderInv, LastInv, RecordInv, [Next]_vars PROVE CloseInv'
  OBVIOUS
<1> USE FeedTyped DEF OpenStates, ClosedStates
<1>1. CASE ServerStep
  <2>1. PICK t : ServerChange(t)
    BY <1>1, ServerSteps
  <2>2. UNCHANGED <<order, made>> /\ trade' = t /\ version \in Nat /\ made.orderpl \in Nat
    BY <2>1 DEF ServerChange, Becomes, RecordInv
  <2>3. CASE Reported
    <3>1. /\ Len(feed') = Len(feed) + 1 /\ feed' # <<>>
          /\ \A i \in 1 .. Len(feed) : feed'[i] = feed[i]
          /\ feed'[Len(feed) + 1].version = version + 1
          /\ feed'[Len(feed) + 1].trade = t
      BY <2>1, <2>3, ReportJoins
    <3>2. (trade # None /\ trade.state \in ClosedStates) => t.state = "restored"
      BY <2>1 DEF ServerChange, Alive
    <3>3. \A i \in 1 .. Len(feed') :
            (i + 1 \in 1 .. Len(feed') /\ feed'[i].trade.state \in ClosedStates) =>
              feed'[i + 1].trade.state = "restored"
      <4> TAKE i \in 1 .. Len(feed')
      <4> HAVE i + 1 \in 1 .. Len(feed') /\ feed'[i].trade.state \in ClosedStates
      <4>1. CASE i + 1 \in 1 .. Len(feed)
        BY <3>1, <4>1 DEF CloseInv
      <4>2. CASE i = Len(feed)
        <5>1. feed # <<>> /\ feed'[i] = feed[Len(feed)] /\ feed'[i + 1].trade = t
          BY <3>1, <4>2
        <5>2. trade # None /\ trade.state \in ClosedStates
          BY <5>1 DEF LastInv, LastKnown
        <5>. QED
          BY <3>2, <5>1, <5>2
      <4>. QED
        BY <3>1, <4>1, <4>2
    <3>4. (order # None /\ order.state \in ClosedStates) => feed'[1].trade.state = "restored"
      <4> HAVE order # None /\ order.state \in ClosedStates
      <4>1. CASE feed = <<>>
        <5>1. trade # None /\ trade.state \in ClosedStates
          BY <4>1 DEF LastInv, LastKnown
        <5>2. Len(feed) = 0
          BY <4>1
        <5>. QED
          BY <3>1, <3>2, <5>1, <5>2
      <4>2. CASE feed # <<>>
        BY <3>1, <4>2 DEF CloseInv
      <4>. QED
        BY <4>1, <4>2
    <3>5. made.orderpl <= feed'[Len(feed')].version
      BY <2>2, <3>1 DEF OrderInv
    <3>. QED
      BY <2>2, <3>3, <3>4, <3>5 DEF CloseInv
  <2>4. CASE UNCHANGED feed
    <3>1. ~Reported => Alive /\ t.state = trade.state
      BY <2>1 DEF ServerChange
    <3>2. CASE ~Reported
      BY <2>2, <2>4, <3>1, <3>2 DEF CloseInv, Alive
    <3>. QED
      BY <2>3, <3>2
  <2>. QED
    BY <2>1, <2>3, <2>4 DEF ServerChange
<1>2. CASE StoreOrder
  <2>1. UNCHANGED trade
    BY <1>2 DEF StoreOrder
  <2>2. /\ Len(feed') = Len(feed) - 1 /\ Len(feed) >= 1
        /\ \A i \in 1 .. Len(feed') : feed'[i] = feed[i + 1]
        /\ feed' # <<>> <=> Len(feed) # 1
    BY <1>2, ReportStored
  <2>3. made'.orderpl = made.orderpl
    BY <1>2, ReportStored DEF RecordInv
  <2>4. order'.state = feed[1].trade.state
    <3>1. PICK junk \in Memory : order' = jTrade(feed[1].trade, junk)
      BY <1>2, ReportStored
    <3>. QED
      BY <1>2, <3>1, ReportStored, TextIsText DEF Reports
  <2>5. \A i \in 1 .. Len(feed') : i + 1 \in 1 .. Len(feed)
    BY <2>2
  <2>6. feed' # <<>> => /\ 1 \in 1 .. Len(feed') /\ 1 \in 1 .. Len(feed)
                       /\ Len(feed') \in 1 .. Len(feed')
    BY <2>2
  <2>7. \A i \in 1 .. Len(feed') :
          (i + 1 \in 1 .. Len(feed') /\ feed'[i].trade.state \in ClosedStates) =>
            feed'[i + 1].trade.state = "restored"
    BY <2>2, <2>5 DEF CloseInv
  <2>8. (order'.state \in ClosedStates /\ feed' # <<>>) => feed'[1].trade.state = "restored"
    <3> HAVE order'.state \in ClosedStates /\ feed' # <<>>
    <3>1. feed'[1] = feed[1 + 1] /\ 1 + 1 \in 1 .. Len(feed)
      BY <2>2, <2>5, <2>6
    <3>. QED
      BY <2>4, <2>6, <3>1 DEF CloseInv
  <2>9. (trade # None /\ trade.state \in ClosedStates /\ feed' # <<>>) =>
          made.orderpl <= feed'[Len(feed')].version
    <3> HAVE trade # None /\ trade.state \in ClosedStates /\ feed' # <<>>
    <3>1. feed'[Len(feed')] = feed[Len(feed)]
      BY <2>2, <2>6
    <3>. QED
      BY <2>2, <3>1 DEF CloseInv
  <2>. QED
    BY <2>1, <2>3, <2>7, <2>8, <2>9 DEF CloseInv
<1>3. ASSUME NEW d \in 1 .. Gap, Tick(d) PROVE CloseInv'
  BY <1>3 DEF Tick, RefreshProfit, CloseInv
<1>4. CASE TimePasses \/ TickEscapes
  BY <1>4 DEF TimePasses, TickEscapes, CloseInv
<1>5. CASE UNCHANGED vars
  BY <1>5 DEF vars, viewVars, CloseInv
<1>. QED
  BY <1>1, <1>2, <1>3, <1>4, <1>5 DEF Next

\* Between a close and a restoring no writer takes the reader back.
LEMMA ReaderGoesOn ==
  ASSUME CloseInv, OrderInv, LastInv, RecordInv, Next, order # None, ~Restoring
  PROVE  ReadVersion' >= ReadVersion
<1> USE FeedTyped
<1>1. ReadVersion \in Nat
  BY DEF ReadVersion, RecordInv
<1>2. CASE ServerStep
  <2>1. PICK t : ServerChange(t)
    BY <1>2, ServerSteps
  <2>2. ReadVersion' = ReadVersion
    BY <2>1 DEF ServerChange, Becomes, ReadVersion, TakesProfitOfRefresh
  <2>. QED
    BY <1>1, <2>2
<1>3. CASE StoreOrder
  <2>1. /\ Len(feed) >= 1 /\ order' # None /\ UNCHANGED orderpl
        /\ made' = [made EXCEPT !.order = feed[1].version]
    BY <1>3, ReportStored DEF StoreOrder
  <2>2. order'.state = feed[1].trade.state
    <3>1. PICK junk \in Memory : order' = jTrade(feed[1].trade, junk)
      BY <1>3, ReportStored
    <3>. QED
      BY <1>3, <3>1, ReportStored, TextIsText DEF Reports
  <2>3. feed # <<>> /\ 1 \in 1 .. Len(feed) /\ Len(feed) \in 1 .. Len(feed)
    BY <2>1
  <2>4. \A i \in 1 .. Len(feed) : feed[i].trade.state # "restored"
    <3> TAKE i \in 1 .. Len(feed)
    <3>1. feed[i].trade \in {trade, order} \cup {feed[j].trade : j \in 1 .. Len(feed)}
      OBVIOUS
    <3>2. feed[i].trade # None
      BY FeedTyped, NoneAssumption
    <3>. QED
      BY <3>1, <3>2 DEF Restoring
  <2>5. made.order \in Nat /\ made.orderpl \in Nat /\ feed[1].version \in Nat
        /\ made.order <= feed[1].version
        /\ made'.order = feed[1].version /\ made'.orderpl = made.orderpl
    BY <2>1, <2>3 DEF RecordInv, OrderInv
  <2>6. order.state \notin ClosedStates
    BY <2>3, <2>4 DEF CloseInv
  <2>7. CASE feed[1].trade.state \in ClosedStates
    <3>1. Len(feed) = 1
      <4>1. Len(feed) \in Nat
        BY FeedTyped
      <4>2. ASSUME Len(feed) # 1 PROVE FALSE
        <5>1. 1 + 1 \in 1 .. Len(feed)
          BY <2>1, <4>1, <4>2, SecondExists
        <5>. QED
          BY <2>3, <2>4, <2>7, <5>1 DEF CloseInv
      <4>. QED
        BY <4>2
    <3>2. trade # None /\ trade.state \in ClosedStates
      BY <2>3, <2>7, <3>1 DEF LastInv, LastKnown
    <3>3. made.orderpl <= feed[1].version
      BY <2>3, <3>1, <3>2 DEF CloseInv
    <3>4. ReadVersion' = feed[1].version
      BY <2>2, <2>5, <2>7 DEF ReadVersion, TakesProfitOfRefresh, OpenStates, ClosedStates
    <3>. QED
      BY <2>5, <3>3, <3>4 DEF ReadVersion
  <2>8. CASE feed[1].trade.state \in OpenStates
    <3>1. order.state \in OpenStates
      <4>1. PICK t \in TradeRecord, junk \in Memory : order = jTrade(t, junk)
        BY DEF RecordInv
      <4>2. order.state = t.state /\ t.state \in OpenStates \cup ClosedStates
        BY <4>1, TextIsText DEF TradeRecord
      <4>. QED
        BY <2>6, <4>2
    <3>2. TakesProfitOfRefresh' <=> TakesProfitOfRefresh
      BY <2>1, <2>2, <2>8, <3>1 DEF TakesProfitOfRefresh
    <3>. QED
      BY <2>5, <3>2 DEF ReadVersion
  <2>9. feed[1].trade.state \in OpenStates \cup ClosedStates
    BY <2>3 DEF TradeRecord
  <2>. QED
    BY <2>7, <2>8, <2>9
<1>4. ASSUME NEW d \in 1 .. Gap, Tick(d) PROVE ReadVersion' >= ReadVersion
  <2>1. UNCHANGED order
    BY <1>4 DEF Tick
  <2>2. CASE UNCHANGED <<orderpl, made>>
    <3>1. ReadVersion' = ReadVersion
      BY <2>1, <2>2 DEF ReadVersion, TakesProfitOfRefresh
    <3>. QED
      BY <1>1, <3>1
  <2>3. CASE orderpl' = trade.profit /\ made' = [made EXCEPT !.orderpl = version]
             /\ trade # None
    <3>1. orderpl' # None
      BY <2>3, NoneAssumption DEF RecordInv, TradeRecord
    <3>2. made'.orderpl = version /\ made'.order = made.order
          /\ made.order <= version /\ made.orderpl <= version /\ version \in Nat
          /\ made.order \in Nat /\ made.orderpl \in Nat
      BY <2>3 DEF RecordInv, OrderInv
    <3>3. TakesProfitOfRefresh => TakesProfitOfRefresh'
      BY <2>1, <3>1 DEF TakesProfitOfRefresh
    <3>. QED
      BY <3>2, <3>3 DEF ReadVersion
  <2>. QED
    BY <1>4, <2>2, <2>3 DEF Tick, RefreshProfit
<1>5. CASE TimePasses \/ TickEscapes
  <2>1. ReadVersion' = ReadVersion
    BY <1>5 DEF TimePasses, TickEscapes, ReadVersion, TakesProfitOfRefresh
  <2>. QED
    BY <1>1, <2>1
<1>. QED
  BY <1>2, <1>3, <1>4, <1>5 DEF Next

\* What a reader sees of an order's profit only becomes newer.
THEOREM ReaderNeverGoesBack == Spec => ProfitNeverGoesBack
<1>1. Init => GateInv
  BY GateInit DEF Init
<1>2. Init => OrderInv /\ CloseInv
  <2> SUFFICES ASSUME Init PROVE OrderInv /\ CloseInv
    OBVIOUS
  <2>1. Len(feed) = 0
    BY EmptySeq DEF Init
  <2>. QED
    BY <2>1 DEF Init, OrderInv, CloseInv
<1>3. CloseInv /\ OrderInv /\ LastInv /\ RecordInv /\ [Next]_vars =>
        [(order # None /\ ~Restoring) => ReadVersion' >= ReadVersion]_vars
  BY ReaderGoesOn
<1>. QED
  BY <1>1, <1>2, <1>3, RecordInit, RecordStep, GateInvStep, LastInit, LastStep,
     OrderStep, CloseStep, PTL DEF Spec, ProfitNeverGoesBack
=============================================================================
