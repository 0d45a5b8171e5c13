-------------------------- MODULE TdSession_proofs --------------------------
(***************************************************************************)
(* Proofs about TdSession, for any orders, any number of pieces and any    *)
(* troubles: the types, and that the settlement of a day on which the      *)
(* account was confirmed is printed before it is confirmed, but for errors *)
(* and connections that broke while a callback was sleeping or waiting     *)
(* (ConfirmedAfterReading).                                                *)
(*                                                                         *)
(* The argument: without such trouble a connection has one request under   *)
(* way at a time, sleeping, on the wire or answered, and a broken one has  *)
(* none; so the settlement asked for is that of the day which the front    *)
(* has as the last confirmed one, and it has a text if it exists.          *)
(***************************************************************************)
EXTENDS TdSession, TLAPS

IsReport(cb) == cb.rsp \in {"error", "trade"}
NotLast(cb) == cb.rsp = "askSettlement" /\ ~cb.last

OnlyReports(q) == \A i \in 1..Len(q) : IsReport(q[i])
(* Of the answers waiting all but one are pieces before the last.          *)
OneAnswer(q) ==
  \A i, j \in 1..Len(q) :
    i < j /\ ~IsReport(q[i]) /\ ~IsReport(q[j]) => NotLast(q[i])
(* On day t, with the last confirmation on day c: the answers name c, and  *)
(* the pieces are of its settlement.                                       *)
About(cb, c, t) ==
  /\ cb.rsp = "askConfirm" => cb.day = c
  /\ cb.rsp = "askSettlement" => cb.day = c /\ (c \in 1..(t - 1) => cb.text)
AnswersOf(q, c, t) == \A i \in 1..Len(q) : About(q[i], c, t)
NoAnswers(q) == \A i \in 1..Len(q) : q[i] \notin Answers

(* One request at a time, none when nobody is connected.                   *)
OneRequest ==
  /\ ~link => spi = NoAsk /\ inbox = <<>> /\ wire = <<>>
  /\ spi # NoAsk => wire = <<>> /\ OnlyReports(inbox)
  /\ wire # <<>> => Len(wire) = 1 /\ OnlyReports(inbox)
  /\ OneAnswer(inbox)
(* What a request may be: the settlement of the last confirmation's day is *)
(* asked for, and printed before the confirmation that it needs is sent.   *)
Read == confirmed \in Settled => confirmed \in shown
Sound(ask) ==
  /\ ask.req = "askSettlement" => ask.day = confirmed
  /\ ask.req = "confirm" => Read
Authentic ==
  /\ AnswersOf(inbox, confirmed, today)
  /\ Sound(spi)
  /\ wire # <<>> => Sound(wire[1])
LoggedIn ==
  \/ login
  \/ /\ spi.req \in {"none", "login"}
     /\ wire # <<>> => wire[1].req = "login"
     /\ NoAnswers(inbox)
Clean == OneRequest /\ Authentic /\ LoggedIn /\ unseen \cap confirmedOn = {}

(* The front's days, and those of the histories.                           *)
Dated ==
  /\ confirmed <= today
  /\ \A d \in confirmedOn : d <= confirmed
  /\ unseen \subseteq Settled

Linked ==
  /\ login => link
  /\ wire # <<>> => link
  /\ (\E o \in Orders : order[o] = "sent") => link

SessionInv == TypeOK /\ Linked /\ Dated /\ (raced \/ Clean)

-----------------------------------------------------------------------------
(* Sequences of callbacks.                                                 *)
LEMMA TailElements ==
  ASSUME NEW S, NEW q \in Seq(S), q # <<>>
  PROVE  /\ Tail(q) \in Seq(S) /\ Head(q) \in S /\ Head(q) = q[1]
         /\ Len(Tail(q)) = Len(q) - 1 /\ Len(q) \in Nat \ {0}
         /\ \A i \in 1..Len(Tail(q)) : i + 1 \in 1..Len(q) /\ Tail(q)[i] = q[i + 1]
OBVIOUS

LEMMA ConcatElements ==
  ASSUME NEW S, NEW q \in Seq(S), NEW r \in Seq(S)
  PROVE  /\ q \o r \in Seq(S)
         /\ Len(q \o r) = Len(q) + Len(r) /\ Len(q) \in Nat /\ Len(r) \in Nat
         /\ \A i \in 1..Len(q) : (q \o r)[i] = q[i]
         /\ \A i \in 1..Len(r) : (q \o r)[Len(q) + i] = r[i]
         /\ \A i \in 1..Len(q \o r) :
              \/ i \in 1..Len(q) /\ (q \o r)[i] = q[i]
              \/ i - Len(q) \in 1..Len(r) /\ (q \o r)[i] = r[i - Len(q)]
OBVIOUS

LEMMA TailClean ==
  ASSUME NEW q \in Seq(Callbacks), q # <<>>, NEW c, NEW t
  PROVE  /\ OnlyReports(q) => OnlyReports(Tail(q))
         /\ OneAnswer(q) => OneAnswer(Tail(q))
         /\ AnswersOf(q, c, t) => AnswersOf(Tail(q), c, t)
         /\ NoAnswers(q) => NoAnswers(Tail(q))
         /\ OneAnswer(q) /\ ~IsReport(Head(q)) /\ ~NotLast(Head(q))
              => OnlyReports(Tail(q))
<1>1. /\ Len(Tail(q)) = Len(q) - 1 /\ Len(q) \in Nat \ {0} /\ Head(q) = q[1]
      /\ \A i \in 1..Len(Tail(q)) : i + 1 \in 1..Len(q) /\ Tail(q)[i] = q[i + 1]
  BY TailElements
<1>2. ASSUME OneAnswer(q) PROVE OneAnswer(Tail(q))
  <2> SUFFICES ASSUME NEW i \in 1..Len(Tail(q)), NEW j \in 1..Len(Tail(q)), i < j,
                      ~IsReport(Tail(q)[i]), ~IsReport(Tail(q)[j])
               PROVE  NotLast(Tail(q)[i])
    BY DEF OneAnswer
  <2>1. i + 1 \in 1..Len(q) /\ j + 1 \in 1..Len(q) /\ i + 1 < j + 1
    BY <1>1
  <2> QED
    BY <1>1, <1>2, <2>1 DEF OneAnswer
<1>3. ASSUME OneAnswer(q), ~IsReport(Head(q)), ~NotLast(Head(q))
      PROVE  OnlyReports(Tail(q))
  <2> SUFFICES ASSUME NEW i \in 1..Len(Tail(q)) PROVE IsReport(Tail(q)[i])
    BY DEF OnlyReports
  <2>1. 1 \in 1..Len(q) /\ i + 1 \in 1..Len(q) /\ 1 < i + 1
    BY <1>1
  <2> QED
    BY <1>1, <1>3, <2>1 DEF OneAnswer
<1> QED
  BY <1>1, <1>2, <1>3 DEF OnlyReports, AnswersOf, NoAnswers

(* A report that is appended disturbs nothing.                             *)
LEMMA ReportAppended ==
  ASSUME NEW q \in Seq(Callbacks), NEW cb \in Reports, NEW c, NEW t
  PROVE  /\ Append(q, cb) \in Seq(Callbacks)
         /\ OnlyReports(q) => OnlyReports(Append(q, cb))
         /\ OneAnswer(q) => OneAnswer(Append(q, cb))
         /\ AnswersOf(q, c, t) => AnswersOf(Append(q, cb), c, t)
         /\ NoAnswers(q) => NoAnswers(Append(q, cb))
<1> DEFINE n == Append(q, cb)
<1>1. cb \in Callbacks
  BY DEF Callbacks
<1>2. /\ n \in Seq(Callbacks) /\ Len(n) = Len(q) + 1 /\ Len(q) \in Nat
      /\ \A i \in 1..Len(n) : \/ i \in 1..Len(q) /\ n[i] = q[i]
                              \/ i = Len(q) + 1 /\ n[i] = cb
  BY <1>1
<1>3. IsReport(cb) /\ About(cb, c, t) /\ cb \notin Answers
  BY DEF Reports, IsReport, About, Answers, Requests
<1> HIDE DEF n
<1>4. ASSUME OneAnswer(q) PROVE OneAnswer(n)
  <2> SUFFICES ASSUME NEW i \in 1..Len(n), NEW j \in 1..Len(n), i < j,
                      ~IsReport(n[i]), ~IsReport(n[j])
               PROVE  NotLast(n[i])
    BY DEF OneAnswer
  <2>1. n[i] # cb /\ n[j] # cb
    BY <1>3
  <2>2. i \in 1..Len(q) /\ n[i] = q[i] /\ j \in 1..Len(q) /\ n[j] = q[j]
    BY <1>2, <2>1
  <2> QED
    BY <1>4, <2>2 DEF OneAnswer
<1>5. /\ OnlyReports(q) => OnlyReports(n)
      /\ AnswersOf(q, c, t) => AnswersOf(n, c, t)
      /\ NoAnswers(q) => NoAnswers(n)
  BY <1>2, <1>3 DEF OnlyReports, AnswersOf, NoAnswers
<1> QED
  BY <1>2, <1>4, <1>5 DEF n

(* An answer, in pieces or not, may follow reports.                        *)
LEMMA AnswerAppended ==
  ASSUME NEW q \in Seq(Callbacks), NEW r \in Seq(Callbacks), NEW c, NEW t,
         OnlyReports(q), OneAnswer(r), AnswersOf(r, c, t)
  PROVE  OneAnswer(q \o r) /\ AnswersOf(q \o r, c, t)
<1> DEFINE n == q \o r
<1>1. /\ Len(q) \in Nat /\ Len(r) \in Nat
      /\ \A i \in 1..Len(n) : \/ i \in 1..Len(q) /\ n[i] = q[i]
                              \/ i - Len(q) \in 1..Len(r) /\ n[i] = r[i - Len(q)]
  BY ConcatElements
<1> HIDE DEF n
<1>2. ASSUME NEW i \in 1..Len(n), ~IsReport(n[i])
      PROVE  i - Len(q) \in 1..Len(r) /\ n[i] = r[i - Len(q)]
  BY <1>1, <1>2 DEF OnlyReports
<1>3. OneAnswer(n)
  <2> SUFFICES ASSUME NEW i \in 1..Len(n), NEW j \in 1..Len(n), i < j,
                      ~IsReport(n[i]), ~IsReport(n[j])
               PROVE  NotLast(n[i])
    BY DEF OneAnswer
  <2>1. /\ i - Len(q) \in 1..Len(r) /\ n[i] = r[i - Len(q)]
        /\ j - Len(q) \in 1..Len(r) /\ n[j] = r[j - Len(q)]
    BY <1>2
  <2>2. i - Len(q) < j - Len(q)
    BY <1>1
  <2> QED
    BY <2>1, <2>2 DEF OneAnswer
<1>4. AnswersOf(n, c, t)
  <2> SUFFICES ASSUME NEW i \in 1..Len(n) PROVE About(n[i], c, t)
    BY DEF AnswersOf
  <2>1. CASE IsReport(n[i])
    BY <2>1 DEF About, IsReport
  <2> QED
    BY <1>2, <2>1 DEF AnswersOf
<1> QED
  BY <1>3, <1>4 DEF n

(* The callbacks that the api makes.                                       *)
LEMMA CallbackTypes ==
  /\ \A r \in Requests, d \in Day : Answer(r, d) \in Answers
  /\ \A r \in Requests : Refusal(r) \in Answers
  /\ \A d \in Day, last \in BOOLEAN : Piece(d, last) \in Answers
  /\ \A r \in {"error", "trade"}, o \in Orders : Report(r, o) \in Reports
  /\ Answers \subseteq Callbacks /\ Reports \subseteq Callbacks
  /\ Connected \in Callbacks
BY SessionAssumption
   DEF Answer, Answers, Refusal, Piece, Requests, Report, Reports, Connected,
       Callbacks, Day

LEMMA AnswerOf ==
  ASSUME NEW cb \in Callbacks, cb.rsp \in Requests
  PROVE  cb \in Answers /\ cb.day \in Day
BY DEF Callbacks, Requests, Answers, Reports, Connected

LEMMA ReportOf ==
  ASSUME NEW cb \in Callbacks, IsReport(cb)
  PROVE  cb \in Reports /\ cb.order \in Orders
BY DEF Callbacks, IsReport, Requests, Answers, Reports, Connected

-----------------------------------------------------------------------------
LEMMA EmptyClean ==
  ASSUME NEW c, NEW t
  PROVE  /\ OnlyReports(<<>>) /\ OneAnswer(<<>>) /\ AnswersOf(<<>>, c, t)
         /\ NoAnswers(<<>>)
BY DEF OnlyReports, OneAnswer, AnswersOf, NoAnswers

LEMMA SingleAnswer ==
  ASSUME NEW cb \in Callbacks, NEW c, NEW t
  PROVE  /\ <<cb>> \in Seq(Callbacks)
         /\ OneAnswer(<<cb>>)
         /\ About(cb, c, t) => AnswersOf(<<cb>>, c, t)
         /\ cb \notin Answers => NoAnswers(<<cb>>)
BY DEF OneAnswer, AnswersOf, NoAnswers

LEMMA SessionInit == Init => SessionInv
<1> SUFFICES ASSUME Init PROVE SessionInv
  OBVIOUS
<1>1. TypeOK
  <2>1. 0 \in Day /\ 1 \in Day /\ 0 \in 0..MaxTrouble
    BY SessionAssumption DEF Day
  <2>2. <<>> \in Seq(Callbacks) /\ <<>> \in Seq(Asks)
    OBVIOUS
  <2> QED
    BY <2>1, <2>2 DEF Init, TypeOK, Never
<1>2. Linked
  BY DEF Init, Linked
<1>3. Dated
  BY DEF Init, Dated, Never, Settled
<1>4. Clean
  BY EmptyClean
     DEF Init, Clean, OneRequest, Authentic, LoggedIn, Sound, Ask, NoAsk
<1> QED
  BY <1>1, <1>2, <1>3, <1>4 DEF SessionInv

(* A process that ends leaves nothing behind, a process that does not end  *)
(* disturbs nothing by a step of main().                                   *)
LEMMA EndsKeeps ==
  ASSUME SessionInv, ProcessEnds, trouble < MaxTrouble, trouble' = trouble + 1
  PROVE  SessionInv'
<1>1. TypeOK'
  <2>1. <<>> \in Seq(Callbacks) /\ <<>> \in Seq(Asks)
    OBVIOUS
  <2>2. trouble' \in 0..MaxTrouble
    BY SessionAssumption DEF SessionInv, TypeOK
  <2>3. order' \in [Orders -> {"none", "queued", "sent", "working", "reported",
                               "told", "lost"}]
    BY DEF SessionInv, TypeOK, ProcessEnds
  <2> QED
    BY <2>1, <2>2, <2>3 DEF SessionInv, TypeOK, ProcessEnds, frontVars
<1>2. Linked' /\ Dated'
  BY DEF SessionInv, TypeOK, Linked, Dated, Settled, ProcessEnds, frontVars
<1>3. Clean' \/ raced'
  BY EmptyClean
     DEF SessionInv, Clean, ProcessEnds, OneRequest, Authentic, LoggedIn, Sound,
         Ask, NoAsk
<1> QED
  BY <1>1, <1>2, <1>3 DEF SessionInv

LEMMA MainKeeps ==
  ASSUME SessionInv, main' \in {"holder", "connecting", "listening", "ended"},
         tradingDate' \in Day,
         UNCHANGED <<apiVars, frontVars, order, history>>
  PROVE  SessionInv'
<1>1. TypeOK'
  BY DEF SessionInv, TypeOK, apiVars, frontVars, history
<1>2. Linked' /\ Dated' /\ (raced' \/ Clean')
  BY DEF SessionInv, Linked, Dated, Settled, Clean, OneRequest, Authentic, Sound,
         Read, LoggedIn, apiVars, frontVars, history
<1> QED
  BY <1>1, <1>2 DEF SessionInv

LEMMA MainSteps ==
  ASSUME SessionInv,
         CreateHolder \/ Listen \/ OnException \/ ProcessStarts \/ HandleNull
  PROVE  SessionInv'
<1>1. tradingDate \in Day /\ 0 \in Day
  BY SessionAssumption DEF SessionInv, TypeOK, Day
<1>2. CASE CreateHolder
  BY <1>1, <1>2, EndsKeeps, MainKeeps DEF CreateHolder
<1>3. CASE Listen
  BY <1>1, <1>3, EndsKeeps, MainKeeps DEF Listen
<1>4. CASE OnException
  BY <1>4, EndsKeeps DEF OnException
<1>5. CASE ProcessStarts
  BY <1>1, <1>5, MainKeeps DEF ProcessStarts
<1>6. CASE HandleNull
  BY <1>6, EndsKeeps DEF HandleNull
<1> QED
  BY <1>2, <1>3, <1>4, <1>5, <1>6

-----------------------------------------------------------------------------
(* The callbacks and what they send.                                       *)
LEMMA AskTypes ==
  /\ \A r \in Requests : Ask(r) \in Asks
  /\ \A d \in Day : AskSettlement(d) \in Asks
  /\ Ask("none") = NoAsk
  /\ \A ask \in Asks : ask # NoAsk
BY SessionAssumption DEF Ask, Asks, AskSettlement, NoAsk, Requests, Day

LEMMA HandleKeeps ==
  ASSUME SessionInv, Handle
  PROVE  SessionInv'
<1> DEFINE cb == Head(inbox)
<1>1. inbox \in Seq(Callbacks) /\ inbox # <<>> /\ cb \in Callbacks
  BY TailElements DEF SessionInv, TypeOK, Handle
<1>2. Tail(inbox) \in Seq(Callbacks) /\ inbox' = Tail(inbox)
  BY <1>1, TailElements DEF Handle
<1>3. UNCHANGED <<main, link, login, wire, today, confirmed, confirmedOn, unseen,
                  raced, failed, trouble>>
  BY DEF Handle, frontVars
<1>4. /\ spi' \in Asks \cup {NoAsk}
      /\ tradingDate' \in Day /\ shown' \in SUBSET Day
      /\ order' \in [Orders -> {"none", "queued", "sent", "working", "reported",
                                "told", "lost"}]
      /\ \A o \in Orders : order'[o] = "sent" => order[o] = "sent"
  <2>1. CASE ReportOrder(cb)
    <3>1. cb.order \in Orders
      BY <1>1, <2>1, ReportOf DEF ReportOrder, IsReport
    <3> QED
      BY <2>1, <3>1, AskTypes DEF ReportOrder, Forward, Sleep, SessionInv, TypeOK
  <2>2. CASE OnFrontConnected(cb) /\ UNCHANGED order
    BY <2>2, AskTypes DEF OnFrontConnected, Sleep, Requests, SessionInv, TypeOK
  <2>3. CASE OnRspUserLogin(cb) /\ UNCHANGED order
    <3>1. cb.day \in Day
      BY <1>1, <2>3, AnswerOf DEF OnRspUserLogin, Requests
    <3> QED
      BY <2>3, <3>1, AskTypes DEF OnRspUserLogin, NewTradingDate, Sleep, Requests,
                                  SessionInv, TypeOK
  <2>4. CASE OnRspQrySettlementInfoConfirm(cb) /\ UNCHANGED order
    <3>1. cb.day \in Day
      BY <1>1, <2>4, AnswerOf DEF OnRspQrySettlementInfoConfirm, Requests
    <3>2. spi' \in Asks \cup {NoAsk}
      BY <2>4, <3>1, AskTypes
         DEF OnRspQrySettlementInfoConfirm, LastConfirmDate, Sleep, Requests
    <3> QED
      BY <2>4, <3>2 DEF OnRspQrySettlementInfoConfirm, SessionInv, TypeOK
  <2>5. CASE OnRspQrySettlementInfo(cb) /\ UNCHANGED order
    <3>1. cb.day \in Day
      BY <1>1, <2>5, AnswerOf DEF OnRspQrySettlementInfo, Requests
    <3>2. shown' \in SUBSET Day
      BY <2>5, <3>1 DEF OnRspQrySettlementInfo, SessionInv, TypeOK
    <3>3. spi' \in Asks \cup {NoAsk}
      BY <2>5, AskTypes DEF OnRspQrySettlementInfo, Sleep, Requests
    <3> QED
      BY <2>5, <3>2, <3>3 DEF OnRspQrySettlementInfo, SessionInv, TypeOK
  <2>6. CASE OnRspSettlementInfoConfirm(cb) /\ UNCHANGED order
    BY <2>6, AskTypes
       DEF OnRspSettlementInfoConfirm, Sleep, Requests, SessionInv, TypeOK
  <2>7. CASE OnRspQryTradingAccount(cb) /\ UNCHANGED order
    BY <2>7, AskTypes
       DEF OnRspQryTradingAccount, Sleep, Requests, SessionInv, TypeOK
  <2> QED
    BY <2>1, <2>2, <2>3, <2>4, <2>5, <2>6, <2>7 DEF Handle
<1>5. TypeOK'
  BY <1>2, <1>3, <1>4 DEF SessionInv, TypeOK
<1>6. Linked' /\ Dated'
  BY <1>3, <1>4 DEF SessionInv, Linked, Dated, Settled
<1>7. ASSUME Clean PROVE Clean'
  <2>1. /\ OneAnswer(inbox') /\ AnswersOf(inbox', confirmed', today')
        /\ NoAnswers(inbox) => NoAnswers(inbox')
        /\ OnlyReports(inbox) => OnlyReports(inbox')
    BY <1>1, <1>2, <1>3, <1>7, TailClean DEF Clean, OneRequest, Authentic
  <2>2. link
    BY <1>1, <1>7 DEF Clean, OneRequest
  <2>3. CASE ReportOrder(cb)
    <3>1. spi' = NoAsk /\ shown' = shown
      BY <2>3, AskTypes DEF ReportOrder, Sleep
    <3> QED
      BY <1>3, <1>7, <2>1, <2>2, <3>1
         DEF Clean, OneRequest, Authentic, Sound, Read, Settled, LoggedIn, NoAsk, Ask
  <2>4. CASE ~ReportOrder(cb)
    <3>1. ~IsReport(cb) /\ (cb = Connected \/ cb \in Answers)
      BY <1>1, <2>4, AnswerOf
         DEF Handle, IsReport, OnFrontConnected, OnRspUserLogin, Connected,
             OnRspQrySettlementInfoConfirm, OnRspQrySettlementInfo, Requests,
             OnRspSettlementInfoConfirm, OnRspQryTradingAccount
    <3>2. 1 \in 1..Len(inbox) /\ cb = inbox[1]
      BY <1>1, TailElements
    <3>3. wire = <<>>
      BY <1>7, <3>1, <3>2 DEF Clean, OneRequest, OnlyReports
    <3>4. spi' # NoAsk => OnlyReports(inbox')
      <4>1. NotLast(cb) => spi' = NoAsk
        BY <2>4, <3>1, AskTypes
           DEF NotLast, Handle, OnFrontConnected, OnRspUserLogin,
               OnRspQrySettlementInfoConfirm, OnRspQrySettlementInfo, Connected,
               OnRspSettlementInfoConfirm, OnRspQryTradingAccount, Sleep, Complete
      <4> QED
        BY <1>1, <1>2, <1>7, <3>1, <4>1, TailClean DEF Clean, OneRequest
    <3>5. About(cb, confirmed, today)
      BY <1>7, <3>2 DEF Clean, Authentic, AnswersOf
    <3>6. Sound(spi)'
      <4>1. CASE spi'.req = "askSettlement"
        <5>1. /\ cb.rsp = "askConfirm"
              /\ spi' = AskSettlement(cb.day)
          BY <2>4, <4>1
             DEF Handle, OnFrontConnected, OnRspUserLogin, OnRspQrySettlementInfo,
                 OnRspQrySettlementInfoConfirm, OnRspSettlementInfoConfirm,
                 OnRspQryTradingAccount, Sleep, Ask, LastConfirmDate
        <5> QED
          BY <1>3, <3>5, <4>1, <5>1 DEF About, Sound, AskSettlement
      <4>2. CASE spi'.req = "confirm"
        <5>1. OnRspQrySettlementInfo(cb) /\ cb.last
          BY <2>4, <4>2
             DEF Handle, OnFrontConnected, OnRspUserLogin, Complete,
                 OnRspQrySettlementInfoConfirm, OnRspQrySettlementInfo,
                 OnRspSettlementInfoConfirm, OnRspQryTradingAccount, Sleep, Ask,
                 AskSettlement
        <5>2. confirmed \in Settled => confirmed \in shown'
          BY <3>5, <5>1 DEF OnRspQrySettlementInfo, About, Settled
        <5> QED
          BY <1>3, <4>2, <5>2 DEF Sound, Read, Settled
      <4> QED
        BY <4>1, <4>2 DEF Sound
    <3>7. login \/ (spi'.req = "login" /\ NoAnswers(inbox'))
      <4> SUFFICES ASSUME ~login PROVE spi'.req = "login" /\ NoAnswers(inbox')
        OBVIOUS
      <4>1. NoAnswers(inbox)
        BY <1>7 DEF Clean, LoggedIn
      <4>2. cb = Connected
        BY <3>1, <3>2, <4>1 DEF NoAnswers
      <4>3. spi'.req = "login"
        BY <2>4, <4>2 DEF Connected, Handle, OnFrontConnected, OnRspUserLogin,
               OnRspQrySettlementInfoConfirm, OnRspQrySettlementInfo, Ask,
               OnRspSettlementInfoConfirm, OnRspQryTradingAccount, Sleep
      <4> QED
        BY <2>1, <4>1, <4>3
    <3> QED
      BY <1>3, <1>7, <2>1, <2>2, <3>3, <3>4, <3>6, <3>7
         DEF Clean, OneRequest, Authentic, LoggedIn
  <2> QED
    BY <2>3, <2>4
<1> QED
  BY <1>3, <1>5, <1>6, <1>7 DEF SessionInv

LEMMA WakeUpKeeps ==
  ASSUME SessionInv, WakeUp
  PROVE  SessionInv'
<1>1. /\ spi # NoAsk /\ spi \in Asks /\ spi' = NoAsk
      /\ wire' = IF link THEN Append(wire, spi) ELSE wire
      /\ UNCHANGED <<main, tradingDate, inbox, link, login, today, confirmed,
                     order, confirmedOn, shown, unseen, raced, failed, trouble>>
  BY DEF SessionInv, TypeOK, WakeUp, frontVars, history
<1>2. TypeOK'
  BY <1>1 DEF SessionInv, TypeOK
<1>3. Linked' /\ Dated'
  BY <1>1 DEF SessionInv, Linked, Dated, Settled
<1>4. ASSUME Clean PROVE Clean'
  <2>1. link /\ wire = <<>> /\ OnlyReports(inbox) /\ OneAnswer(inbox)
    BY <1>1, <1>4 DEF Clean, OneRequest
  <2>2. wire' = <<spi>> /\ Len(wire') = 1 /\ wire'[1] = spi
    BY <1>1, <2>1
  <2>3. Authentic'
    BY <1>1, <1>4, <2>2
       DEF Clean, Authentic, Sound, Read, Settled, NoAsk, Ask
  <2>4. LoggedIn'
    BY <1>1, <1>4, <2>2 DEF Clean, LoggedIn, NoAsk, Ask, Asks, Requests
  <2> QED
    BY <1>1, <1>4, <2>1, <2>2, <2>3, <2>4 DEF Clean, OneRequest
<1> QED
  BY <1>1, <1>2, <1>3, <1>4 DEF SessionInv

(* The orders that wait for the gateway or for the strategy.               *)
LEMMA OrderKeeps ==
  ASSUME SessionInv, NEW o \in Orders, OnMessage(o) \/ GiveOrder(o)
  PROVE  SessionInv'
<1>1. /\ order' \in [Orders -> {"none", "queued", "sent", "working", "reported",
                                "told", "lost"}]
      /\ (\E p \in Orders : order'[p] = "sent") => link
  BY DEF SessionInv, TypeOK, Linked, OnMessage, GiveOrder
<1>2. UNCHANGED <<main, tradingDate, spi, inbox, link, login, wire, today,
                  confirmed, confirmedOn, shown, unseen, raced, failed, trouble>>
  BY DEF OnMessage, GiveOrder, apiVars, frontVars, history
<1>3. TypeOK'
  BY <1>1, <1>2 DEF SessionInv, TypeOK
<1>4. Linked' /\ Dated'
  BY <1>1, <1>2 DEF SessionInv, Linked, Dated, Settled
<1>5. Clean' <=> Clean
  BY <1>2 DEF Clean, OneRequest, Authentic, Sound, Read, Settled, LoggedIn
<1> QED
  BY <1>2, <1>3, <1>4, <1>5 DEF SessionInv

-----------------------------------------------------------------------------
(* The connection and the front.                                           *)
LEMMA ConnectKeeps ==
  ASSUME SessionInv, Connect
  PROVE  SessionInv'
<1>1. /\ ~link /\ link' = TRUE /\ failed' = FALSE
      /\ inbox \in Seq(Callbacks) /\ inbox' = Append(inbox, Connected)
      /\ UNCHANGED <<main, tradingDate, spi, login, wire, today, confirmed,
                     order, confirmedOn, shown, unseen, raced, trouble>>
  BY DEF SessionInv, TypeOK, Connect, frontVars
<1>2. Connected \in Callbacks
  BY CallbackTypes
<1>3. TypeOK'
  <2>1. inbox' \in Seq(Callbacks)
    BY <1>1, <1>2
  <2> QED
    BY <1>1, <2>1 DEF SessionInv, TypeOK
<1>4. Linked' /\ Dated'
  BY <1>1 DEF SessionInv, Linked, Dated, Settled
<1>5. ASSUME Clean PROVE Clean'
  <2>1. spi = NoAsk /\ inbox = <<>> /\ wire = <<>>
    BY <1>1, <1>5 DEF Clean, OneRequest
  <2>2. inbox' = <<Connected>>
    BY <1>1, <2>1
  <2>3. Connected \notin Answers /\ About(Connected, confirmed, today)
    BY DEF Connected, Answers, Requests, About
  <2>4. /\ OneAnswer(inbox') /\ AnswersOf(inbox', confirmed, today)
        /\ NoAnswers(inbox')
    BY <1>2, <2>2, <2>3, SingleAnswer
  <2> QED
    BY <1>1, <1>5, <2>1, <2>4
       DEF Clean, OneRequest, Authentic, Sound, Read, Settled, LoggedIn, NoAsk, Ask
<1> QED
  BY <1>1, <1>3, <1>4, <1>5 DEF SessionInv

LEMMA BreakKeeps ==
  ASSUME SessionInv, Break
  PROVE  SessionInv'
<1>1. /\ link' = FALSE /\ login' = FALSE /\ wire' = <<>>
      /\ raced' = (raced \/ spi # NoAsk \/ inbox # <<>>)
      /\ UNCHANGED <<main, tradingDate, spi, inbox, today, confirmed, confirmedOn,
                     shown, unseen, failed>>
  BY DEF Break, frontVars
<1>2. /\ order' \in [Orders -> {"none", "queued", "sent", "working", "reported",
                                "told", "lost"}]
      /\ \A o \in Orders : order'[o] # "sent"
  BY DEF SessionInv, TypeOK, Break
<1>3. TypeOK'
  <2>1. <<>> \in Seq(Asks)
    OBVIOUS
  <2>2. trouble' \in 0..MaxTrouble
    BY SessionAssumption DEF SessionInv, TypeOK, Break
  <2> QED
    BY <1>1, <1>2, <2>1, <2>2 DEF SessionInv, TypeOK
<1>4. Linked' /\ Dated'
  BY <1>1, <1>2 DEF SessionInv, Linked, Dated, Settled
<1>5. ASSUME ~raced' PROVE Clean'
  <2>1. spi = NoAsk /\ inbox = <<>> /\ Clean
    BY <1>1, <1>5 DEF SessionInv
  <2> QED
    BY <1>1, <2>1, EmptyClean
       DEF Clean, OneRequest, Authentic, Sound, LoggedIn, NoAsk, Ask
<1> QED
  BY <1>3, <1>4, <1>5 DEF SessionInv

LEMMA NewDayKeeps ==
  ASSUME SessionInv, NewDay
  PROVE  SessionInv'
<1>1. /\ ~link /\ today' = today + 1 /\ today < MaxDay
      /\ UNCHANGED <<main, tradingDate, spi, inbox, link, login, wire, confirmed,
                     order, confirmedOn, shown, unseen, raced, failed, trouble>>
  BY DEF NewDay, apiVars, history
<1>2. TypeOK'
  <2>1. today' \in Day
    BY <1>1, SessionAssumption DEF SessionInv, TypeOK, Day
  <2> QED
    BY <1>1, <2>1 DEF SessionInv, TypeOK
<1>3. today \in Nat /\ confirmed \in Nat
  BY SessionAssumption DEF SessionInv, TypeOK, Day
<1>4. Linked' /\ Dated'
  BY <1>1, <1>3 DEF SessionInv, Linked, Dated, Settled
<1>5. ASSUME Clean PROVE Clean'
  <2>1. spi = NoAsk /\ inbox = <<>> /\ wire = <<>>
    BY <1>1, <1>5 DEF Clean, OneRequest
  <2> QED
    BY <1>1, <1>5, <2>1, EmptyClean
       DEF Clean, OneRequest, Authentic, Sound, LoggedIn, NoAsk, Ask
<1> QED
  BY <1>1, <1>2, <1>4, <1>5 DEF SessionInv

(* What the front answers to a request that is as it should be.            *)
LEMMA SettlementAnswers ==
  ASSUME SessionInv, NEW d \in Day
  PROVE  /\ Settlement(d) \in Seq(Callbacks) /\ OneAnswer(Settlement(d))
         /\ d = confirmed => AnswersOf(Settlement(d), confirmed, today)
<1> DEFINE piece(i) == Piece(d, i = Pieces)
           pieces == [i \in 1..Pieces |-> piece(i)]
<1>1. CASE d \in Settled
  <2>1. Pieces \in Nat \ {0}
    BY SessionAssumption
  <2>2. ASSUME NEW i \in 1..Pieces
        PROVE  /\ piece(i) \in Callbacks
               /\ piece(i).day = d /\ piece(i).text /\ ~piece(i).err
               /\ piece(i).rsp = "askSettlement" /\ piece(i).last = (i = Pieces)
    <3>1. piece(i) \in Answers
      BY CallbackTypes
    <3> QED
      BY <3>1, CallbackTypes DEF Piece
  <2> HIDE DEF piece
  <2>3. pieces \in Seq(Callbacks) /\ Len(pieces) = Pieces
    BY <2>1, <2>2
  <2>4. OneAnswer(pieces)
    <3> SUFFICES ASSUME NEW i \in 1..Pieces, NEW j \in 1..Pieces, i < j
                 PROVE  NotLast(pieces[i])
      BY <2>3 DEF OneAnswer
    <3>1. i # Pieces
      BY <2>1
    <3> QED
      BY <2>2, <3>1 DEF NotLast
  <2>5. d = confirmed => AnswersOf(pieces, confirmed, today)
    BY <2>2, <2>3 DEF AnswersOf, About
  <2> QED
    BY <1>1, <2>3, <2>4, <2>5 DEF Settlement, piece
<1>2. CASE d \notin Settled
  <2>1. Answer("askSettlement", d) \in Callbacks
    BY CallbackTypes DEF Requests
  <2>2. d = confirmed => About(Answer("askSettlement", d), confirmed, today)
    BY <1>2 DEF About, Answer, Settled
  <2> QED
    BY <1>2, <2>1, <2>2, SingleAnswer DEF Settlement
<1> QED
  BY <1>1, <1>2

LEMMA ServedAnswers ==
  ASSUME SessionInv, NEW ask \in Asks
  PROVE  LET reply ==
               CASE ask.req = "login"         -> <<Answer("login", today)>>
                 [] ask.req = "askConfirm"    -> <<Answer("askConfirm", confirmed)>>
                 [] ask.req = "askSettlement" -> Settlement(ask.day)
                 [] OTHER                     -> <<Answer(ask.req, 0)>>
         IN  /\ reply \in Seq(Callbacks) /\ OneAnswer(reply)
             /\ Sound(ask) => AnswersOf(reply, confirmed, today)
<1>1. today \in Day /\ confirmed \in Day /\ 0 \in Day
  BY SessionAssumption DEF SessionInv, TypeOK, Day
<1>2. ASSUME NEW r \in Requests, NEW d \in Day, r # "askSettlement",
             r = "askConfirm" => d = confirmed
      PROVE  /\ <<Answer(r, d)>> \in Seq(Callbacks) /\ OneAnswer(<<Answer(r, d)>>)
             /\ AnswersOf(<<Answer(r, d)>>, confirmed, today)
  <2>1. Answer(r, d) \in Callbacks
    BY CallbackTypes
  <2>2. About(Answer(r, d), confirmed, today)
    BY <1>2 DEF Answer, About
  <2> QED
    BY <2>1, <2>2, SingleAnswer
<1>3. ask.req \in Requests /\ ask.day \in Day
  BY DEF Asks
<1>4. CASE ask.req = "login"
  BY <1>1, <1>2, <1>3, <1>4
<1>5. CASE ask.req = "askConfirm"
  BY <1>1, <1>2, <1>3, <1>5
<1>6. CASE ask.req = "askSettlement"
  BY <1>3, <1>6, SettlementAnswers DEF Sound
<1>7. CASE ask.req \notin {"login", "askConfirm", "askSettlement"}
  BY <1>1, <1>2, <1>3, <1>7
<1> QED
  BY <1>4, <1>5, <1>6, <1>7

(* A confirmation that follows the printing confirms, of the days on which *)
(* the account was confirmed, only the last, and that one was printed.     *)
LEMMA ConfirmKeeps ==
  ASSUME SessionInv, Read, unseen \cap confirmedOn = {}
  PROVE  (unseen \cup (Pending \ shown)) \cap (confirmedOn \cup {today}) = {}
<1>1. today \in Nat /\ confirmed \in Nat
  BY SessionAssumption DEF SessionInv, TypeOK, Day
<1>2. today \notin unseen \cup Pending
  BY <1>1 DEF SessionInv, Dated, Settled, Pending
<1>3. ASSUME NEW d \in Pending, d \in confirmedOn PROVE d \in shown
  <2>1. d \in Nat /\ d \in Settled /\ d >= confirmed /\ d <= confirmed
    BY <1>1, <1>3 DEF SessionInv, Dated, Settled, Pending
  <2> QED
    BY <1>1, <2>1 DEF Read
<1> QED
  BY <1>2, <1>3

LEMMA FrontKeeps ==
  ASSUME SessionInv, FrontAnswers
  PROVE  SessionInv'
<1>1. PICK i \in DOMAIN wire :
        /\ wire' = RemoveAt(wire, i)
        /\ \/ /\ Refuse(wire[i]) \/ Serve(wire[i])
              /\ UNCHANGED <<raced, failed, trouble>>
           \/ Fail(wire[i])
        /\ UNCHANGED <<main, tradingDate, spi, link, today, order, shown>>
  BY DEF FrontAnswers
<1> DEFINE ask == wire[i]
<1>2. /\ inbox \in Seq(Callbacks) /\ wire \in Seq(Asks) /\ wire # <<>>
      /\ i \in 1..Len(wire) /\ Len(wire) \in Nat /\ ask \in Asks
      /\ ask.req \in Requests
  <2>1. inbox \in Seq(Callbacks) /\ wire \in Seq(Asks)
    BY DEF SessionInv, TypeOK
  <2>2. i \in 1..Len(wire) /\ Len(wire) \in Nat /\ wire # <<>>
    BY <1>1, <2>1
  <2>3. ask \in Asks
    BY <2>1, <2>2
  <2> QED
    BY <2>1, <2>2, <2>3 DEF Asks
<1>3. wire' \in Seq(Asks)
  <2>1. /\ SubSeq(wire, 1, i - 1) \in Seq(Asks)
        /\ SubSeq(wire, i + 1, Len(wire)) \in Seq(Asks)
    BY <1>2
  <2> QED
    BY <1>1, <2>1 DEF RemoveAt
<1>4. link
  BY <1>2 DEF SessionInv, Linked
<1>5. CASE Fail(ask)
  <2>1. Append(inbox, Refusal(ask.req)) \in Seq(Callbacks)
    BY <1>2, CallbackTypes
  <2>2. trouble' \in 0..MaxTrouble
    BY <1>5, SessionAssumption DEF SessionInv, TypeOK, Fail
  <2>3. TypeOK'
    BY <1>1, <1>3, <1>5, <2>1, <2>2 DEF SessionInv, TypeOK, Fail
  <2>4. Linked' /\ Dated'
    BY <1>1, <1>4, <1>5 DEF SessionInv, Linked, Dated, Settled, Fail
  <2> QED
    BY <1>5, <2>3, <2>4 DEF SessionInv, Fail
<1>6. CASE Refuse(ask) /\ UNCHANGED <<raced, failed, trouble>>
  <2>1. Append(inbox, Refusal(ask.req)) \in Seq(Callbacks)
    BY <1>2, CallbackTypes
  <2>2. TypeOK' /\ Linked' /\ Dated'
    BY <1>1, <1>3, <1>4, <1>6, <2>1
       DEF SessionInv, TypeOK, Linked, Dated, Settled, Refuse
  <2>3. ~Clean
    <3> SUFFICES ASSUME Clean PROVE FALSE
      OBVIOUS
    <3>1. Len(wire) = 1 /\ wire[1].req = "login"
      BY <1>2, <1>6 DEF Clean, OneRequest, LoggedIn, Refuse
    <3> QED
      BY <1>2, <1>6, <3>1 DEF Refuse
  <2> QED
    BY <1>6, <2>2, <2>3 DEF SessionInv
<1>7. CASE Serve(ask) /\ UNCHANGED <<raced, failed, trouble>>
  <2>1. PICK reply \in Seq(Callbacks) :
          /\ OneAnswer(reply)
          /\ Sound(ask) => AnswersOf(reply, confirmed, today)
          /\ inbox' = inbox \o reply
    BY <1>2, <1>7, ServedAnswers DEF Serve
  <2>2. login' = TRUE
    BY <1>7 DEF Serve
  <2>3. \/ /\ ask.req = "confirm"
           /\ confirmed' = today /\ confirmedOn' = confirmedOn \cup {today}
           /\ unseen' = unseen \cup (Pending \ shown)
        \/ /\ ask.req # "confirm"
           /\ UNCHANGED <<confirmed, confirmedOn, unseen>>
    BY <1>7 DEF Serve
  <2>4. inbox' \in Seq(Callbacks)
    BY <1>2, <2>1, ConcatElements
  <2>5. today \in Day /\ today \in Nat /\ confirmed \in Nat /\ Settled \subseteq Day
    BY SessionAssumption DEF SessionInv, TypeOK, Day, Settled
  <2>6. TypeOK'
    <3>1. confirmed' \in Day /\ {confirmedOn', shown', unseen'} \subseteq SUBSET Day
      BY <1>1, <2>3, <2>5 DEF SessionInv, TypeOK, Pending
    <3> QED
      BY <1>1, <1>3, <1>7, <2>2, <2>4, <3>1 DEF SessionInv, TypeOK
  <2>7. Linked' /\ Dated'
    <3>1. Linked'
      BY <1>1, <1>4 DEF SessionInv, Linked
    <3>2. confirmed <= today /\ unseen \subseteq Settled
      BY DEF SessionInv, Dated
    <3>3. \A d \in confirmedOn : d \in Nat /\ d <= confirmed
      BY SessionAssumption DEF SessionInv, TypeOK, Dated, Day
    <3>4. CASE ask.req = "confirm"
      <4>1. /\ confirmed' = today /\ confirmedOn' = confirmedOn \cup {today}
            /\ unseen' = unseen \cup (Pending \ shown) /\ today' = today
        BY <1>1, <2>3, <3>4
      <4>2. \A d \in confirmedOn' : d <= confirmed'
        BY <2>5, <3>3, <3>2, <4>1
      <4>3. unseen' \subseteq Settled'
        BY <3>2, <4>1 DEF Settled, Pending
      <4> QED
        BY <2>5, <3>1, <4>1, <4>2, <4>3 DEF Dated
    <3>5. CASE ask.req # "confirm"
      <4>1. UNCHANGED <<confirmed, confirmedOn, unseen, today>>
        BY <1>1, <2>3, <3>5
      <4> QED
        BY <3>1, <3>3, <3>2, <4>1 DEF Dated, Settled
    <3> QED
      BY <3>4, <3>5
  <2>8. ASSUME Clean PROVE Clean'
    <3>1. Len(wire) = 1 /\ OnlyReports(inbox) /\ spi = NoAsk /\ i = 1 /\ Sound(ask)
      BY <1>2, <2>8 DEF Clean, OneRequest, Authentic
    <3>2. wire' = <<>>
      BY <1>1, <1>2, <3>1 DEF RemoveAt
    <3>3. OneAnswer(inbox') /\ AnswersOf(inbox', confirmed', today')
      <4>1. CASE ask.req # "confirm"
        BY <1>1, <1>2, <2>1, <2>3, <3>1, <4>1, AnswerAppended
      <4>2. CASE ask.req = "confirm"
        <5>1. inbox' = inbox \o <<Answer("confirm", 0)>>
          BY <1>7, <4>2 DEF Serve
        <5>2. Answer("confirm", 0) \in Callbacks
          BY SessionAssumption, CallbackTypes DEF Requests, Day
        <5>3. About(Answer("confirm", 0), today, today)
          BY DEF About, Answer
        <5> QED
          BY <1>1, <1>2, <2>3, <3>1, <4>2, <5>1, <5>2, <5>3, SingleAnswer,
             AnswerAppended
      <4> QED
        BY <4>1, <4>2
    <3>4. unseen' \cap confirmedOn' = {}
      BY <2>3, <2>8, <3>1, ConfirmKeeps DEF Clean, Sound
    <3>5. Authentic' /\ LoggedIn'
      BY <1>1, <2>2, <3>1, <3>2, <3>3
         DEF Authentic, LoggedIn, Sound, NoAsk, Ask
    <3> QED
      BY <1>1, <1>4, <3>1, <3>2, <3>3, <3>4, <3>5 DEF Clean, OneRequest
  <2> QED
    BY <1>7, <2>6, <2>7, <2>8 DEF SessionInv
<1> QED
  BY <1>1, <1>5, <1>6, <1>7

(* What the front does with an order may add a report.                     *)
LEMMA ReportKeeps ==
  ASSUME SessionInv, NEW o \in Orders, FrontTakesOrder(o) \/ Trade(o)
  PROVE  SessionInv'
<1>1. UNCHANGED <<main, tradingDate, spi, link, login, wire, today, confirmed,
                  confirmedOn, shown, unseen, raced, failed, trouble>>
  BY DEF FrontTakesOrder, Trade, frontVars, history
<1>2. \/ UNCHANGED inbox
      \/ link /\ \E cb \in Reports : inbox' = Append(inbox, cb)
  BY CallbackTypes DEF SessionInv, Linked, FrontTakesOrder, Trade
<1>3. /\ order' \in [Orders -> {"none", "queued", "sent", "working", "reported",
                                "told", "lost"}]
      /\ \A p \in Orders : order'[p] = "sent" => order[p] = "sent"
  BY DEF SessionInv, TypeOK, FrontTakesOrder, Trade
<1>4. inbox' \in Seq(Callbacks)
  BY <1>2, ReportAppended DEF SessionInv, TypeOK
<1>5. TypeOK'
  BY <1>1, <1>3, <1>4 DEF SessionInv, TypeOK
<1>6. Linked' /\ Dated'
  BY <1>1, <1>3 DEF SessionInv, Linked, Dated, Settled
<1>7. ASSUME Clean PROVE Clean'
  <2>1. CASE UNCHANGED inbox
    BY <1>1, <1>7, <2>1 DEF Clean, OneRequest, Authentic, Sound, Read, Settled, LoggedIn
  <2>2. CASE link /\ \E cb \in Reports : inbox' = Append(inbox, cb)
    <3>1. inbox \in Seq(Callbacks)
      BY DEF SessionInv, TypeOK
    <3>2. /\ OnlyReports(inbox) => OnlyReports(inbox')
          /\ OneAnswer(inbox) => OneAnswer(inbox')
          /\ AnswersOf(inbox, confirmed, today)
               => AnswersOf(inbox', confirmed, today)
          /\ NoAnswers(inbox) => NoAnswers(inbox')
      BY <2>2, <3>1, ReportAppended
    <3> QED
      BY <1>1, <1>7, <2>2, <3>2 DEF Clean, OneRequest, Authentic, Sound, Read, Settled, LoggedIn
  <2> QED
    BY <1>2, <2>1, <2>2
<1> QED
  BY <1>1, <1>5, <1>6, <1>7 DEF SessionInv

-----------------------------------------------------------------------------
LEMMA SessionStep ==
  SessionInv /\ [Next]_vars => SessionInv'
<1> SUFFICES ASSUME SessionInv, [Next]_vars PROVE SessionInv'
  OBVIOUS
<1>1. CASE CreateHolder \/ Listen \/ OnException \/ ProcessStarts \/ HandleNull
  BY <1>1, MainSteps
<1>2. CASE Handle
  BY <1>2, HandleKeeps
<1>3. CASE WakeUp
  BY <1>3, WakeUpKeeps
<1>4. CASE Connect
  BY <1>4, ConnectKeeps
<1>5. CASE Break
  BY <1>5, BreakKeeps
<1>6. CASE NewDay
  BY <1>6, NewDayKeeps
<1>7. CASE FrontAnswers
  BY <1>7, FrontKeeps
<1>8. ASSUME NEW o \in Orders, OnMessage(o) \/ GiveOrder(o)
      PROVE  SessionInv'
  BY <1>8, OrderKeeps
<1>9. ASSUME NEW o \in Orders, FrontTakesOrder(o) \/ Trade(o)
      PROVE  SessionInv'
  BY <1>9, ReportKeeps
<1>10. CASE UNCHANGED vars
  <2>1. /\ main' \in {"holder", "connecting", "listening", "ended"}
        /\ tradingDate' \in Day
    BY <1>10 DEF vars, SessionInv, TypeOK
  <2> QED
    BY <1>10, <2>1, MainKeeps DEF vars
<1> QED
  BY <1>1, <1>2, <1>3, <1>4, <1>5, <1>6, <1>7, <1>8, <1>9, <1>10 DEF Next

(* The handlers and the api keep their types: TdHolder's trading day, the  *)
(* sleeping request, the callbacks and the orders.                         *)
THEOREM SessionTypeCorrect == Spec => []TypeOK
<1>1. SessionInv => TypeOK
  BY DEF SessionInv
<1> QED
  BY <1>1, SessionInit, SessionStep, PTL DEF Spec

(* MyTdSpi::OnRspQrySettlementInfoConfirm asks for the settlement of the   *)
(* last confirmation's day and OnRspQrySettlementInfo confirms after it    *)
(* was printed: the settlement of a day on which the account was confirmed *)
(* is printed before it is confirmed, unless the connection broke amid the *)
(* callbacks or an error came.  Those of other days are confirmed unread.  *)
THEOREM ReadBeforeConfirmed == Spec => []ConfirmedAfterReading
<1>1. SessionInv => ConfirmedAfterReading
  BY DEF SessionInv, Clean, ConfirmedAfterReading
<1> QED
  BY <1>1, SessionInit, SessionStep, PTL DEF Spec
=============================================================================
