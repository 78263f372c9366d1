------------------------- MODULE AccountViewsProofs -------------------------
(***************************************************************************)
(* What AccountViews claims of the texts of an account, for any sums and   *)
(* any number of changes.                                                  *)
(***************************************************************************)
EXTENDS AccountViews, QueueProofs

USE AccountAssumption

(***************************************************************************)
(* The copies in hand are at least as new as what the text was made of,    *)
(* and the text is what the two moments make of it.                        *)
(***************************************************************************)
MomentInv ==
  /\ stage = "margins" => level >= 1 /\ made.level <= level
  /\ stage = "summary" => record >= 1 /\ made.record <= record
  /\ margin # None => made.level >= 1 /\ made.record >= 1

Inv == TypeOK /\ MomentInv /\ MarginIsOfMoments

-----------------------------------------------------------------------------
\* The sums of an account are integers.
LEMMA AccountSums ==
  ASSUME NEW a \in Accounts
  PROVE  /\ a.balance \in Int /\ a.credit \in Int /\ a.loss \in Int
         /\ a.prevbalance \in Int /\ a.prevmonthbalance \in Int
         /\ MarginLevel(a).balance \in Int /\ MarginLevel(a).equity \in Int
<1>1. /\ a.balance \in Int /\ a.credit \in Int /\ a.loss \in Int
      /\ a.prevbalance \in Int /\ a.prevmonthbalance \in Int
  BY DEF Accounts
<1>. QED
  BY <1>1 DEF MarginLevel

\* A change makes an account of an account.
LEMMA ChangesType ==
  ASSUME NEW a \in Accounts, NEW b \in Changes(a)
  PROVE  b \in Accounts
BY DEF Changes, Accounts

\* The history is not empty, and every moment has its account.
LEMMA HistoryTyped ==
  ASSUME TypeOK
  PROVE  /\ Now \in Nat /\ Now >= 1
         /\ \A i \in 1 .. Now : history[i] \in Accounts
<1>1. history \in Seq(Accounts) /\ history # <<>>
  BY DEF TypeOK
<1>. QED
  BY <1>1, EmptySeq, LenProperties, ElementOfSeq DEF Now

\* It only grows: what was true at a moment stays so.
LEMMA HistoryGrows ==
  ASSUME TypeOK, AccountChanges
  PROVE  /\ history' \in Seq(Accounts) /\ history' # <<>>
         /\ Now' = Now + 1
         /\ \A i \in 1 .. Now : history'[i] = history[i]
<1>1. PICK a \in Changes(history[Now]) : history' = Append(history, a)
  BY DEF AccountChanges
<1>2. a \in Accounts
  <2>1. Now \in 1 .. Now
    BY HistoryTyped
  <2>. QED
    BY <1>1, <2>1, HistoryTyped, ChangesType
<1>3. history \in Seq(Accounts)
  BY DEF TypeOK
<1>. QED
  BY <1>1, <1>2, <1>3, AppendFacts DEF Now

\* The loop over MarginsGet writes the longer shape.
LEMMA LevelTextType ==
  ASSUME NEW a \in Accounts, NEW b \in Accounts
  PROVE  /\ JMarginLevel(MarginLevel(a), b) \in LevelText
         /\ ~IsSummary(JMarginLevel(MarginLevel(a), b))
<1>1. JMarginLevel(MarginLevel(a), b) \in LevelText
  BY AccountSums DEF JMarginLevel, LevelText
<1>2. "group" \in DOMAIN JMarginLevel(MarginLevel(a), b)
  BY DEF JMarginLevel
<1>. QED
  BY <1>1, <1>2 DEF IsSummary

\* The loop over UsersGet writes the shorter one.
LEMMA SummaryTextType ==
  ASSUME NEW a \in Accounts, NEW l, l.equity \in Int
  PROVE  Summary(l, a) \in SummaryText /\ IsSummary(Summary(l, a))
<1>1. Summary(l, a) \in SummaryText
  BY AccountSums DEF Summary, SummaryText
<1>2. "group" \notin DOMAIN Summary(l, a)
  BY DEF Summary
<1>. QED
  BY <1>1, <1>2 DEF IsSummary

\* An account's own text.
LEMMA UserTextType ==
  ASSUME NEW a \in Accounts
  PROVE  JUser(a) \in UserText
BY AccountSums DEF JUser, UserText

\* A queue of moments stays one when there are more of them.
LEMMA NewsStays ==
  ASSUME NEW n \in Nat, NEW q \in Seq(1 .. n)
  PROVE  q \in Seq(1 .. n + 1)
<1>1. \A i \in 1 .. Len(q) : q[i] \in 1 .. n + 1
  BY ElementOfSeq
<1>. QED
  BY <1>1, LenProperties, IsASeq

\* What a text was made of stays a record of moments.
LEMMA MadeFacts ==
  ASSUME NEW S, NEW m \in [level: S, record: S, user: S], NEW i \in S, NEW j \in S
  PROVE  /\ [m EXCEPT !.level = i, !.record = j] \in [level: S, record: S, user: S]
         /\ [m EXCEPT !.level = i, !.record = j].level = i
         /\ [m EXCEPT !.level = i, !.record = j].record = j
         /\ [m EXCEPT !.user = i] \in [level: S, record: S, user: S]
         /\ [m EXCEPT !.user = i].level = m.level
         /\ [m EXCEPT !.user = i].record = m.record
  OBVIOUS

-----------------------------------------------------------------------------
\* The account is there, and no text of it.
LEMMA ViewsInit == Init => Inv
<1> SUFFICES ASSUME Init PROVE Inv
  OBVIOUS
<1>1. PICK x \in Amounts :
        history = <<[balance |-> x, credit |-> x, loss |-> 0,
                     prevbalance |-> x, prevmonthbalance |-> x]>>
  BY DEF Init
<1> DEFINE a == [balance |-> x, credit |-> x, loss |-> 0,
                 prevbalance |-> x, prevmonthbalance |-> x]
<1>2. a \in Accounts
  BY DEF Accounts
<1>3. history \in Seq(Accounts) /\ history # <<>> /\ Len(history) = 1
  <2> HIDE DEF a
  <2>1. history = <<a>>
    BY <1>1 DEF a
  <2>. QED
    BY <1>2, <2>1
<1>4. news \in Seq(1 .. Now)
  BY EmptySeq DEF Init
<1>5. TypeOK
  BY <1>3, <1>4 DEF Init, TypeOK, Now, Stages
<1>. QED
  BY <1>5 DEF Init, Inv, MomentInv, MarginIsOfMoments

\* One case per action: the account's changes leave the moments of the past
\* alone, and each loop writes what its two moments say.
LEMMA ViewsStep == Inv /\ [Next]_vars => Inv'
<1> SUFFICES ASSUME Inv, [Next]_vars PROVE Inv'
  OBVIOUS
<1> USE DEF Inv
<1>0. /\ Now \in Nat /\ Now >= 1
      /\ \A i \in 1 .. Now : history[i] \in Accounts
  BY HistoryTyped
<1>1. CASE AccountChanges
  <2>1. /\ history' \in Seq(Accounts) /\ history' # <<>>
        /\ Now' = Now + 1
        /\ \A i \in 1 .. Now : history'[i] = history[i]
    BY <1>1, HistoryGrows
  <2>2. news' \in Seq(1 .. Now')
    <3>1. news \in Seq(1 .. Now + 1)
      BY <1>0, NewsStays DEF TypeOK
    <3>2. CASE news' = Append(news, Now + 1)
      BY <1>0, <2>1, <3>1, <3>2, AppendFacts
    <3>. QED
      BY <1>1, <2>1, <3>1, <3>2 DEF AccountChanges
  <2>3. TypeOK'
    BY <1>0, <1>1, <2>1, <2>2 DEF AccountChanges, TypeOK
  <2>4. MomentInv'
    BY <1>1 DEF AccountChanges, MomentInv
  <2>5. MarginIsOfMoments'
    <3>1. margin # None => made.level \in 1 .. Now /\ made.record \in 1 .. Now
      BY <1>0 DEF TypeOK, MomentInv
    <3>2. UNCHANGED <<margin, made>>
      BY <1>1 DEF AccountChanges
    <3>. QED
      BY <2>1, <3>1, <3>2 DEF MarginIsOfMoments
  <2>. QED
    BY <2>3, <2>4, <2>5
<1>2. CASE UpdateUser
  <2>1. news \in Seq(1 .. Now) /\ news # <<>> /\ UNCHANGED <<history, margin>>
    BY <1>2 DEF UpdateUser, TypeOK
  <2>2. Head(news) \in 1 .. Now /\ Tail(news) \in Seq(1 .. Now)
    BY <2>1, TailFacts
  <2>3. user' \in UserText
    BY <1>0, <1>2, <2>2, UserTextType DEF UpdateUser
  <2>4. /\ made' \in [level: 0 .. Now, record: 0 .. Now, user: 0 .. Now]
        /\ made'.level = made.level /\ made'.record = made.record
    <3>1. Head(news) \in 0 .. Now
      BY <1>0, <2>2
    <3>. QED
      BY <1>2, <3>1, MadeFacts DEF UpdateUser, TypeOK
  <2>5. TypeOK'
    BY <1>2, <2>1, <2>2, <2>3, <2>4 DEF UpdateUser, TypeOK, Now
  <2>. QED
    BY <1>2, <2>4, <2>5 DEF UpdateUser, MomentInv, MarginIsOfMoments
<1>3. CASE MarginsGet
  <2>1. TypeOK'
    BY <1>0, <1>3 DEF MarginsGet, TypeOK, Now, Stages
  <2>2. MomentInv'
    BY <1>0, <1>3 DEF MarginsGet, TypeOK, MomentInv
  <2>. QED
    BY <1>3, <2>1, <2>2 DEF MarginsGet, MarginIsOfMoments
<1>4. CASE SetMargin
  <2> DEFINE a == history[level]  b == history[Now]
             text == JMarginLevel(MarginLevel(a), b)
  <2>1. level \in 1 .. Now /\ Now \in 1 .. Now /\ a \in Accounts /\ b \in Accounts
    BY <1>0, <1>4 DEF SetMargin, TypeOK, MomentInv
  <2>2. margin' = text /\ UNCHANGED history /\ stage' = "users"
    BY <1>4 DEF SetMargin
  <2>3. /\ made' \in [level: 0 .. Now, record: 0 .. Now, user: 0 .. Now]
        /\ made'.level = level /\ made'.record = Now
    <3>1. level \in 0 .. Now /\ Now \in 0 .. Now
      BY <1>0, <2>1
    <3>. QED
      BY <1>4, <3>1, MadeFacts DEF SetMargin, TypeOK
  <2>4. text \in LevelText /\ ~IsSummary(text)
    BY <2>1, LevelTextType
  <2>5. TypeOK'
    BY <1>4, <2>2, <2>3, <2>4 DEF SetMargin, TypeOK, Now, Stages
  <2>6. MomentInv'
    BY <2>1, <2>2, <2>3 DEF MomentInv
  <2>7. MarginIsOfMoments'
    <3>1. /\ text.last_day_balance = b.prevbalance
          /\ text.last_month_balance = b.prevmonthbalance
          /\ text.balance = MarginLevel(a).balance
          /\ text.equity = MarginLevel(a).equity
      BY DEF JMarginLevel
    <3>2. ~IsSummary(margin')
      BY <2>2, <2>4
    <3>. QED
      BY <2>1, <2>2, <2>3, <3>1, <3>2 DEF MarginIsOfMoments, IsSummary
  <2>. QED
    BY <2>5, <2>6, <2>7
<1>5. CASE MarginFails \/ UsersNotDue \/ SummaryFails
  <2>1. /\ UNCHANGED <<history, news, level, record, margin, user, made>>
        /\ stage' \in {"users", "idle", "escaped"}
    BY <1>5 DEF MarginFails, UsersNotDue, SummaryFails
  <2>2. TypeOK'
    BY <2>1 DEF TypeOK, Now, Stages
  <2>. QED
    BY <2>1, <2>2 DEF MomentInv, MarginIsOfMoments
<1>6. CASE UserRecordGet
  <2>1. TypeOK'
    BY <1>0, <1>6 DEF UserRecordGet, TypeOK, Now, Stages
  <2>2. MomentInv'
    BY <1>0, <1>6 DEF UserRecordGet, TypeOK, MomentInv
  <2>. QED
    BY <1>6, <2>1, <2>2 DEF UserRecordGet, MarginIsOfMoments
<1>7. CASE SetSummary
  <2> DEFINE a == history[record]  l == MarginLevel(history[Now])
  <2>1. record \in 1 .. Now /\ Now \in 1 .. Now /\ a \in Accounts
        /\ l.equity \in Int /\ made.record <= record
    BY <1>0, <1>7, AccountSums DEF SetSummary, TypeOK, MomentInv
  <2>2. PICK jLevel \in {JMarginLevel(l, a), NoMarginLevel} : margin' = Summary(jLevel, a)
    BY <1>7 DEF SetSummary
  <2>3. jLevel.equity \in {l.equity, 0}
    <3>1. JMarginLevel(l, a).equity = l.equity /\ NoMarginLevel.equity = 0
      BY DEF JMarginLevel, NoMarginLevel
    <3>. QED
      BY <2>2, <3>1
  <2>4. UNCHANGED history /\ stage' = "idle"
    BY <1>7 DEF SetSummary
  <2>5. /\ made' \in [level: 0 .. Now, record: 0 .. Now, user: 0 .. Now]
        /\ made'.level = Now /\ made'.record = record
    <3>1. record \in 0 .. Now /\ Now \in 0 .. Now
      BY <1>0, <2>1
    <3>. QED
      BY <1>7, <3>1, MadeFacts DEF SetSummary, TypeOK
  <2>6. margin' \in SummaryText /\ IsSummary(margin')
    BY <2>1, <2>2, <2>3, SummaryTextType
  <2>7. TypeOK'
    BY <1>7, <2>4, <2>5, <2>6 DEF SetSummary, TypeOK, Now, Stages
  <2>8. MomentInv'
    BY <2>1, <2>4, <2>5 DEF MomentInv
  <2>9. MarginIsOfMoments'
    <3>1. /\ margin'.last_day_balance = a.prevbalance
          /\ margin'.last_month_balance = a.prevmonthbalance
          /\ margin'.balance = a.balance
          /\ margin'.equity = IF jLevel.equity # 0 THEN jLevel.equity ELSE a.balance
      BY <2>2 DEF Summary
    <3>2. margin'.equity \in {l.equity, a.balance}
          /\ (l.equity = 0 => margin'.equity = a.balance)
      BY <2>3, <3>1
    <3>. QED
      BY <2>1, <2>4, <2>5, <2>6, <3>1, <3>2 DEF MarginIsOfMoments, IsSummary, Now
  <2>. QED
    BY <2>7, <2>8, <2>9
<1>8. CASE UNCHANGED vars
  BY <1>8 DEF vars, TypeOK, MomentInv, MarginIsOfMoments, IsSummary, Now
<1>. QED
  BY <1>1, <1>2, <1>3, <1>4, <1>5, <1>6, <1>7, <1>8 DEF Next

\* The invariant holds throughout.
LEMMA ViewsInvariant == Spec => []Inv
BY ViewsInit, ViewsStep, PTL DEF Spec

\* margin:<login> has one of the two shapes, and a reader finds the four
\* members the shapes share.
THEOREM TextShapes == Spec => []TypeOK
<1>1. Inv => TypeOK
  BY DEF Inv
<1>. QED
  BY <1>1, ViewsInvariant, PTL

\* Of which moments a reader of margin:<login> sees the sums, however the
\* account changes between the calls that the text is put together from.
THEOREM MarginOfMoments == Spec => []MarginIsOfMoments
<1>1. Inv => MarginIsOfMoments
  BY DEF Inv
<1>. QED
  BY <1>1, ViewsInvariant, PTL

\* The first loop's level is older than its record, the second loop's newer:
\* still neither ever takes the reader back.
THEOREM MarginGoesOn == Spec => MarginNeverGoesBack
<1>1. ASSUME Inv, [Next]_vars
      PROVE  [made'.level >= made.level /\ made'.record >= made.record]_vars
  <2>1. Now \in Nat /\ made.level \in 0 .. Now /\ made.record \in 0 .. Now
    BY <1>1, HistoryTyped DEF Inv, TypeOK
  <2>2. CASE SetMargin
    <3>1. made'.level = level /\ made'.record = Now /\ made.level <= level
      BY <1>1, <2>2 DEF SetMargin, Inv, TypeOK, MomentInv
    <3>. QED
      BY <2>1, <3>1
  <2>3. CASE SetSummary
    <3>1. made'.level = Now /\ made'.record = record /\ made.record <= record
      BY <1>1, <2>3 DEF SetSummary, Inv, TypeOK, MomentInv
    <3>. QED
      BY <2>1, <3>1
  <2>4. CASE UpdateUser
    <3>1. made'.level = made.level /\ made'.record = made.record
      BY <1>1, <2>4 DEF UpdateUser, Inv, TypeOK
    <3>. QED
      BY <2>1, <3>1
  <2>5. CASE \/ AccountChanges \/ MarginsGet \/ MarginFails \/ UsersNotDue
             \/ UserRecordGet \/ SummaryFails
    <3>1. made' = made
      BY <2>5 DEF AccountChanges, MarginsGet, MarginFails, UsersNotDue, UserRecordGet,
                  SummaryFails
    <3>. QED
      BY <2>1, <3>1
  <2>. QED
    BY <1>1, <2>2, <2>3, <2>4, <2>5 DEF Next
<1>. QED
  BY <1>1, ViewsInvariant, PTL DEF Spec, MarginNeverGoesBack
=============================================================================
