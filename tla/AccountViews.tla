---------------------------- MODULE AccountViews ----------------------------
(***************************************************************************)
(* The texts Redis holds about one account, and the code that writes them. *)
(*                                                                         *)
(* "margin:<login>" has two writers in PUMP_UPDATE_BIDASK of               *)
(* src/src/pump_manager.cpp: the loop over MarginsGet, by way of           *)
(* JMarginLevel of src/src/types.hpp, and the loop over UsersGet.          *)
(* "user:<login>" is written by PUMP_UPDATE_USERS, by way of JUser.        *)
(* Each text is put together from what two calls return, and between the   *)
(* calls the account may change.                                           *)
(*                                                                         *)
(* The account's past is kept: a copy of its records that the program      *)
(* holds is the moment at which it was made, a number, and "history" has   *)
(* the account of every moment.  Delivery to Redis is the subject of       *)
(* PumpManager and immediate here.                                         *)
(***************************************************************************)
EXTENDS Integers, Sequences

CONSTANTS
  Amounts,     \* sums of money
  Losses,      \* what the open orders of an account have lost so far
  None,        \* a text that is not there
  MaxMoments,  \* states the account goes through (a bound)
  MaxNews      \* UserRecords on their way (a bound)

ASSUME AccountAssumption ==
  /\ Amounts \subseteq Int /\ Amounts # {}
  /\ Losses \subseteq Int /\ 0 \in Losses
  /\ MaxMoments \in Nat /\ MaxNews \in Nat

VARIABLES
  history,  \* the account on the MT4 server; the last is how it is now
  news,     \* the UserRecords to be reported, oldest first
  stage,    \* where the tick handler is
  level,    \* the MarginLevel of the account in "margins"; 0: never set
  record,   \* the UserRecord in "user" of the second loop; 0: never set
  margin,   \* Redis: margin:<login>
  user,     \* Redis: user:<login>
  made      \* auxiliary: the moments the two texts were made of

vars == <<history, news, stage, level, record, margin, user, made>>

\* Between two calls of PumpingFunc; with the list of MarginsGet in hand; past
\* the first loop; with the account's record in hand, in the second; after an
\* exception that nothing in PumpingFunc catches.
Stages == {"idle", "margins", "users", "summary", "escaped"}

-----------------------------------------------------------------------------
(* MT4's records, as far as the texts show them.                             *)

\* UserRecord, and the loss that makes a MarginLevel of it.
Accounts ==
  [balance: Amounts, credit: Amounts, loss: Losses,
   prevbalance: Amounts, prevmonthbalance: Amounts]

\* MarginLevel::balance is "balance+credit"; the equity takes off the loss.
MarginLevel(a) ==
  [balance |-> a.balance + a.credit, equity |-> a.balance + a.credit - a.loss]

\* Deposits, credits, prices and trades, the end of a day and of a month.
Changes(a) ==
  {[a EXCEPT !.balance = x] : x \in Amounts}
    \cup {[a EXCEPT !.credit = x] : x \in Amounts}
    \cup {[a EXCEPT !.loss = x] : x \in Losses}
    \cup {[a EXCEPT !.prevbalance = a.balance],
          [a EXCEPT !.prevmonthbalance = a.balance]}

-----------------------------------------------------------------------------
(* The texts: JSON objects as records.                                       *)

\* A mutant: the balance of the text is taken from the record, its equity from
\* the level.
JMarginLevelMixed(l, a) ==
  [group |-> "named", balance |-> a.balance + a.credit, equity |-> l.equity,
   last_day_balance |-> a.prevbalance, last_month_balance |-> a.prevmonthbalance]

\* JMarginLevel::FromMarginLevel and AsJSON.
JMarginLevel(l, a) ==
  [group |-> "named", balance |-> l.balance, equity |-> l.equity,
   last_day_balance |-> a.prevbalance, last_month_balance |-> a.prevmonthbalance]

\* A JMarginLevel that was never filled.
NoMarginLevel ==
  [group |-> "", balance |-> 0, equity |-> 0,
   last_day_balance |-> 0, last_month_balance |-> 0]

\* A mutant: the former balances are left out.
SummaryWithoutHistory(jLevel, a) ==
  [equity |-> IF jLevel.equity # 0 THEN jLevel.equity ELSE a.balance,
   balance |-> a.balance]

\* The object the loop over UsersGet puts together.
Summary(jLevel, a) ==
  [equity |-> IF jLevel.equity # 0 THEN jLevel.equity ELSE a.balance,
   balance |-> a.balance,
   last_day_balance |-> a.prevbalance, last_month_balance |-> a.prevmonthbalance]

\* JUser::FromUserRecord and AsJSON, which leaves out balance and credit;
\* nothing fills its jLevel.
JUser(a) ==
  [last_day_balance |-> a.prevbalance, last_month_balance |-> a.prevmonthbalance,
   margin |-> NoMarginLevel]

-----------------------------------------------------------------------------
Now == Len(history)

\* The texts are those this run writes: "None" until it has written one.
Init ==
  /\ \E x \in Amounts :
       history = <<[balance |-> x, credit |-> x, loss |-> 0,
                    prevbalance |-> x, prevmonthbalance |-> x]>>
  /\ news = <<>>
  /\ stage = "idle"
  /\ level = 0 /\ record = 0
  /\ margin = None /\ user = None
  /\ made = [level |-> 0, record |-> 0, user |-> 0]

\* The server.  It reports an account when it likes to.
AccountChanges ==
  /\ Now < MaxMoments
  /\ \E a \in Changes(history[Now]) : history' = Append(history, a)
  /\ \/ Len(news) < MaxNews /\ news' = Append(news, Now + 1)
     \/ UNCHANGED news
  /\ UNCHANGED <<stage, level, record, margin, user, made>>

\* PUMP_UPDATE_USERS.
UpdateUser ==
  /\ stage = "idle"
  /\ news # <<>>
  /\ user' = JUser(history[Head(news)])
  /\ made' = [made EXCEPT !.user = Head(news)]
  /\ news' = Tail(news)
  /\ UNCHANGED <<history, stage, level, record, margin>>

(* PUMP_UPDATE_BIDASK, its first gate being open.                            *)

\* A mutant of MarginsGet: the list is fetched once, and kept for later ticks.
MarginsGetOnce ==
  /\ stage = "idle"
  /\ stage' = "margins"
  /\ level' = IF level = 0 THEN Now ELSE level
  /\ UNCHANGED <<history, news, record, margin, user, made>>

MarginsGet ==
  /\ stage = "idle"
  /\ stage' = "margins"
  /\ level' = Now
  /\ UNCHANGED <<history, news, record, margin, user, made>>

\* A round of the loop over MarginsGet: UserRecordGet, and the text.
SetMargin ==
  /\ stage = "margins"
  /\ stage' = "users"
  /\ margin' = JMarginLevel(MarginLevel(history[level]), history[Now])
  /\ made' = [made EXCEPT !.level = level, !.record = Now]
  /\ UNCHANGED <<history, news, level, record, user>>

\* The list has no such account, or UserRecordGet fails for it or for one before
\* it: the handler catches the exception and goes on.
MarginFails ==
  /\ stage = "margins"
  /\ stage' = "users"
  /\ UNCHANGED <<history, news, level, record, margin, user, made>>

\* The gate of the refresh is closed, or UsersGet returns nothing.
UsersNotDue ==
  /\ stage = "users"
  /\ stage' = "idle"
  /\ UNCHANGED <<history, news, level, record, margin, user, made>>

\* A round of the loop over UsersGet: UserRecordGet,
UserRecordGet ==
  /\ stage = "users"
  /\ stage' = "summary"
  /\ record' = Now
  /\ UNCHANGED <<history, news, level, margin, user, made>>

\* which may fail: nothing in PumpingFunc catches the exception;
SummaryFails ==
  /\ stage = "users"
  /\ stage' = "escaped"
  /\ UNCHANGED <<history, news, level, record, margin, user, made>>

\* then MarginLevelGet, which may find no level, and the text.
SetSummary ==
  /\ stage = "summary"
  /\ stage' = "idle"
  /\ \E jLevel \in {JMarginLevel(MarginLevel(history[Now]), history[record]),
                    NoMarginLevel} :
       margin' = Summary(jLevel, history[record])
  /\ made' = [made EXCEPT !.level = Now, !.record = record]
  /\ UNCHANGED <<history, news, level, record, user>>

Next ==
  \/ AccountChanges
  \/ UpdateUser
  \/ MarginsGet \/ SetMargin \/ MarginFails
  \/ UsersNotDue \/ UserRecordGet \/ SummaryFails \/ SetSummary

Spec == Init /\ [][Next]_vars

-----------------------------------------------------------------------------
LevelText ==
  [group: {"named"}, balance: Int, equity: Int,
   last_day_balance: Int, last_month_balance: Int]

SummaryText ==
  [equity: Int, balance: Int, last_day_balance: Int, last_month_balance: Int]

UserText ==
  [last_day_balance: Int, last_month_balance: Int, margin: {NoMarginLevel}]

\* Whatever was written last, margin:<login> is an object of one of the two
\* shapes: a reader finds balance, equity and the two former balances in it.
TypeOK ==
  /\ history \in Seq(Accounts) /\ history # <<>>
  /\ news \in Seq(1 .. Now)
  /\ stage \in Stages
  /\ level \in 0 .. Now /\ record \in 0 .. Now
  /\ margin \in LevelText \cup SummaryText \cup {None}
  /\ user \in UserText \cup {None}
  /\ made \in [level: 0 .. Now, record: 0 .. Now, user: 0 .. Now]

\* The shape says which loop has written the text.
IsSummary(text) == "group" \notin DOMAIN text

\* A reader of margin:<login> can rely on this much, although the account may
\* change between any two calls.  The former balances were true at one moment.
\* In the longer text balance and equity are of one moment too, no later than
\* that of the former balances, and the balance counts the credit in.  In the
\* shorter text the balance, without the credit, is of the moment of the former
\* balances; its equity is of that moment or a later one, or it repeats the
\* balance: no level was found, or the equity was zero.
MarginIsOfMoments ==
  margin # None =>
    LET l == MarginLevel(history[made.level])
        a == history[made.record]
    IN  /\ margin.last_day_balance = a.prevbalance
        /\ margin.last_month_balance = a.prevmonthbalance
        /\ ~IsSummary(margin) => /\ made.level <= made.record
                                 /\ margin.balance = l.balance
                                 /\ margin.equity = l.equity
        /\ IsSummary(margin) => /\ made.record <= made.level
                                /\ margin.balance = a.balance
                                /\ margin.equity \in {l.equity, a.balance}
                                /\ l.equity = 0 => margin.equity = a.balance

\* Two loops take turns in writing margin:<login>, the first with a level that
\* was fetched earlier than the record beside it: still no write takes balance,
\* equity or the former balances back to an older moment than they showed.
MarginNeverGoesBack ==
  [][made'.level >= made.level /\ made'.record >= made.record]_vars

\* The member "margin" of user:<login> shows balance and equity of the account,
\* as src/src/swagger.json describes it for a user.
UserShowsMargin ==
  user # None =>
    LET l == MarginLevel(history[made.user])
    IN  user.margin.balance = l.balance /\ user.margin.equity = l.equity
=============================================================================
