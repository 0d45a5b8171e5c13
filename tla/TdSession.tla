------------------------------ MODULE TdSession ------------------------------
(***************************************************************************)
(* The trading session of the gateway: MyTdSpi logs in, asks when the      *)
(* account was confirmed last, and when that was not on this trading day   *)
(* reads the settlement of that other day, confirms and asks for the       *)
(* account; TdCommander passes orders on meanwhile; reports go to the      *)
(* strategy through GatewayManager.  Every callback sleeps five seconds    *)
(* before it sends its request, and the api calls them one by one: the     *)
(* connection may break and come back during any of these sleeps.          *)
(***************************************************************************)
EXTENDS Integers, Sequences, SequencesExt

CONSTANTS
  Orders,     \* the orders the strategy gives
  Pieces,     \* how many pieces the settlement information comes in
  MaxDay,     \* bound: trading days
  MaxTrouble, \* bound: broken connections, errors, ends of the process
  Env         \* the troubles admitted: "break", "error", "end"

ASSUME SessionAssumption ==
  /\ Pieces \in Nat \ {0}
  /\ MaxDay \in Nat \ {0}
  /\ MaxTrouble \in Nat
  /\ Env \subseteq {"break", "error", "end"}

VARIABLES
  main,        \* main(): which step it is at, "listening" or "ended"
  tradingDate, \* TdHolder: the trading day of the last login
  spi,         \* the request that the sleeping callback will send, or "none"
  inbox,       \* the callbacks that the api has still to make
  link,        \* the api is connected to the front
  login,       \* the front takes this connection as logged in
  wire,        \* the requests on their way to the front
  today,       \* the front: its trading day
  confirmed,   \* the front: the day of the last confirmation, or Never
  order,       \* what became of each order
  confirmedOn, \* history: the days of all confirmations
  shown,       \* history: the days whose settlements were printed
  unseen,      \* history: those of settlements confirmed but not printed
  raced,       \* history: the connection broke amid callbacks, or an error
  failed,      \* history: an answer of this connection was an error
  trouble      \* troubles so far

apiVars == <<spi, inbox, link, login, wire>>
frontVars == <<today, confirmed>>
history == <<confirmedOn, shown, unseen, raced, failed, trouble>>
vars == <<main, tradingDate, apiVars, frontVars, order, history>>

Requests == {"login", "askConfirm", "askSettlement", "confirm", "account"}
Day == 0..MaxDay
Never == 0  \* lastConfirmDate "19700101"
(* A request; the query of a settlement names its day.                     *)
Asks == [req : Requests, day : Day]
Ask(r) == [req |-> r, day |-> 0]
AskSettlement(d) == [req |-> "askSettlement", day |-> d]
NoAsk == Ask("none")
(* A callback: the answer to a request, with the day and the error flag    *)
(* where the handler reads them and whether a settlement's text comes with *)
(* it (pSettlementInfo # NULL), and a report on an order.                  *)
Answers == [rsp : Requests, day : Day, err : BOOLEAN, last : BOOLEAN,
            text : BOOLEAN]
Reports == [rsp : {"error", "trade"}, order : Orders]
Connected == [rsp |-> "connected"]
Callbacks == Answers \cup Reports \cup {Connected}

Answer(r, d) ==
  [rsp |-> r, day |-> d, err |-> FALSE, last |-> TRUE, text |-> FALSE]
Refusal(r) == [rsp |-> r, day |-> 0, err |-> TRUE, last |-> TRUE, text |-> FALSE]
Piece(d, last) ==
  [rsp |-> "askSettlement", day |-> d, err |-> FALSE, last |-> last, text |-> TRUE]
Report(r, o) == [rsp |-> r, order |-> o]

TypeOK ==
  /\ main \in {"holder", "connecting", "listening", "ended"}
  /\ tradingDate \in Day
  /\ spi \in Asks \cup {NoAsk}
  /\ inbox \in Seq(Callbacks)
  /\ link \in BOOLEAN /\ login \in BOOLEAN
  /\ wire \in Seq(Asks)
  /\ today \in Day /\ confirmed \in Day
  /\ order \in [Orders -> {"none", "queued", "sent", "working", "reported",
                           "told", "lost"}]
  /\ {confirmedOn, shown, unseen} \subseteq SUBSET Day
  /\ raced \in BOOLEAN /\ failed \in BOOLEAN
  /\ trouble \in 0..MaxTrouble

Init ==
  /\ main = "holder"
  /\ tradingDate = 0
  /\ spi = NoAsk /\ inbox = <<>> /\ wire = <<>>
  /\ link = FALSE /\ login = FALSE
  /\ today = 1 /\ confirmed \in {Never, 1}
  /\ order = [o \in Orders |-> "none"]
  /\ confirmedOn = {confirmed} \ {Never}
  /\ shown = {} /\ unseen = {}
  /\ raced = FALSE /\ failed = FALSE
  /\ trouble = 0

-----------------------------------------------------------------------------
(* main(): the holder and its api, the broker connection, the commander.   *)

(* Fail-stop: the process takes its callbacks, its connection and the      *)
(* requests with it.  What the front reported to it is lost.               *)
ProcessEnds ==
  /\ main' = "ended"
  /\ spi' = NoAsk /\ inbox' = <<>> /\ wire' = <<>>
  /\ link' = FALSE /\ login' = FALSE
  /\ order' = [o \in Orders |-> IF order[o] \in {"sent", "reported"}
                                THEN "lost" ELSE order[o]]
  /\ UNCHANGED <<tradingDate, frontVars, confirmedOn, shown, unseen, raced,
                 failed>>

(* TdHolder::getInstance creates the holder and its api and begins to      *)
(* connect.  The new holder's tdApi is not initialised: a value other than *)
(* null is released, which ends the process.                               *)
CreateHolder ==
  /\ main = "holder"
  /\ \/ main' = "connecting"
        /\ UNCHANGED <<tradingDate, apiVars, frontVars, order, history>>
     \/ "end" \in Env /\ trouble < MaxTrouble
        /\ ProcessEnds
        /\ trouble' = trouble + 1

(* GatewayManager::initConnection swallows the exception of a refused      *)
(* connection; registerListener then uses a session that is null.          *)
Listen ==
  /\ main = "connecting"
  /\ \/ main' = "listening"
        /\ UNCHANGED <<tradingDate, apiVars, frontVars, order, history>>
     \/ "end" \in Env /\ trouble < MaxTrouble
        /\ ProcessEnds
        /\ trouble' = trouble + 1

(* The broker connection fails (onException exits the process).            *)
OnException ==
  /\ "end" \in Env /\ trouble < MaxTrouble
  /\ main = "listening"
  /\ ProcessEnds
  /\ trouble' = trouble + 1

ProcessStarts ==
  /\ main = "ended"
  /\ main' = "holder"
  /\ tradingDate' = 0
  /\ UNCHANGED <<apiVars, frontVars, order, history>>

-----------------------------------------------------------------------------
(* The callbacks of MyTdSpi.  Each handler reads its arguments, sleeps     *)
(* with the request chosen (spi) and sends it after the sleep.             *)

Sleep(r) == spi' = Ask(r)

OnFrontConnected(cb) ==
  /\ cb = Connected
  /\ Sleep("login")
  /\ UNCHANGED <<tradingDate, shown>>

(* An error of the login is printed and not looked at otherwise.           *)
KeepFirstDate(cb) ==  \* mutant: the trading day is recorded only once
  IF tradingDate = 0 THEN cb.day ELSE tradingDate
NextDate(cb) == cb.day + 1  \* mutant: takes the login for a night session
NewTradingDate(cb) == cb.day

OnRspUserLogin(cb) ==
  /\ cb.rsp = "login"
  /\ tradingDate' = NewTradingDate(cb)
  /\ Sleep("askConfirm")
  /\ UNCHANGED shown

(* Without a confirmation in the answer lastConfirmDate stays "19700101".  *)
(* The query asks for the settlement of that day, which is that of the day *)
(* before only if the account was confirmed then.                          *)
AskToday(cb) == tradingDate  \* mutant: asks for the day that is not settled
LastConfirmDate(cb) == cb.day

OnRspQrySettlementInfoConfirm(cb) ==
  /\ cb.rsp = "askConfirm"
  /\ \/ cb.err /\ Sleep("none")
     \/ ~cb.err /\ cb.day = tradingDate /\ Sleep("account")
     \/ ~cb.err /\ cb.day # tradingDate /\ spi' = AskSettlement(LastConfirmDate(cb))
  /\ UNCHANGED <<tradingDate, shown>>

(* What has a text is printed, whatever pRspInfo says; the handler         *)
(* confirms after the last piece, whether anything was printed or not.     *)
Complete(cb) == cb.last

OnRspQrySettlementInfo(cb) ==
  /\ cb.rsp = "askSettlement"
  /\ shown' = IF cb.last /\ cb.text THEN shown \cup {cb.day} ELSE shown
  /\ Sleep(IF Complete(cb) THEN "confirm" ELSE "none")
  /\ UNCHANGED tradingDate

OnRspSettlementInfoConfirm(cb) ==
  /\ cb.rsp = "confirm"
  /\ Sleep("account")
  /\ UNCHANGED <<tradingDate, shown>>

OnRspQryTradingAccount(cb) ==
  /\ cb.rsp = "account"
  /\ Sleep("none")
  /\ UNCHANGED <<tradingDate, shown>>

(* sendErrOrder and OnRtnTrade publish the report.                         *)
ForwardNothing(cb) == order  \* mutant: the test of ErrorID inverted
Forward(cb) == [order EXCEPT ![cb.order] = "told"]

ReportOrder(cb) ==
  /\ cb.rsp \in {"error", "trade"}
  /\ main = "listening"
  /\ order' = Forward(cb)
  /\ Sleep("none")
  /\ UNCHANGED <<tradingDate, shown>>

Handle ==
  /\ main # "ended" /\ spi = NoAsk /\ inbox # <<>>
  /\ \/ /\ \/ OnFrontConnected(Head(inbox))
           \/ OnRspUserLogin(Head(inbox))
           \/ OnRspQrySettlementInfoConfirm(Head(inbox))
           \/ OnRspQrySettlementInfo(Head(inbox))
           \/ OnRspSettlementInfoConfirm(Head(inbox))
           \/ OnRspQryTradingAccount(Head(inbox))
        /\ UNCHANGED order
     \/ ReportOrder(Head(inbox))
  /\ inbox' = Tail(inbox)
  /\ UNCHANGED <<main, link, login, wire, frontVars, confirmedOn, unseen, raced,
                 failed, trouble>>

(* A refused request may be answered without a data field, which           *)
(* OnRspUserLogin and OnRspSettlementInfoConfirm print all the same; a     *)
(* report that comes while the session of GatewayManager is not yet there  *)
(* has no producer.  Both dereference null.                                *)
HandleNull ==
  /\ "end" \in Env /\ trouble < MaxTrouble
  /\ main # "ended" /\ spi = NoAsk /\ inbox # <<>>
  /\ LET cb == Head(inbox)
     IN \/ cb.rsp \in {"login", "confirm"} /\ cb.err
        \/ cb.rsp \in {"error", "trade"} /\ main = "connecting"
  /\ ProcessEnds
  /\ trouble' = trouble + 1

(* The request after the sleep.  Its result is ignored: on a broken        *)
(* connection it is not sent.                                              *)
WakeUp ==
  /\ spi # NoAsk
  /\ wire' = IF link THEN Append(wire, spi) ELSE wire
  /\ spi' = NoAsk
  /\ UNCHANGED <<main, tradingDate, inbox, link, login, frontVars, order,
                 history>>

(* TdCommander::onMessage does not wait for the session and ignores the    *)
(* result of ReqOrderInsert: an order is lost while the front is away.     *)
OnMessage(o) ==
  /\ main = "listening"
  /\ order[o] = "queued"
  /\ order' = [order EXCEPT ![o] = IF link THEN "sent" ELSE "lost"]
  /\ UNCHANGED <<main, tradingDate, apiVars, frontVars, history>>

-----------------------------------------------------------------------------
(* External: the strategy, the connection and the CTP front.               *)

GiveOrder(o) ==
  /\ order[o] = "none"
  /\ order' = [order EXCEPT ![o] = "queued"]
  /\ UNCHANGED <<main, tradingDate, apiVars, frontVars, history>>

Connect ==
  /\ main \in {"connecting", "listening"}
  /\ ~link
  /\ link' = TRUE
  /\ failed' = FALSE
  /\ inbox' = Append(inbox, Connected)
  /\ UNCHANGED <<main, tradingDate, spi, login, wire, frontVars, order,
                 confirmedOn, shown, unseen, raced, trouble>>

(* What was on the way is lost, callbacks that the api holds are made.     *)
Break ==
  /\ "break" \in Env /\ trouble < MaxTrouble
  /\ link
  /\ link' = FALSE /\ login' = FALSE /\ wire' = <<>>
  /\ order' = [o \in Orders |-> IF order[o] = "sent" THEN "lost" ELSE order[o]]
  /\ raced' = (raced \/ spi # NoAsk \/ inbox # <<>>)
  /\ trouble' = trouble + 1
  /\ UNCHANGED <<main, tradingDate, spi, inbox, frontVars, confirmedOn, shown,
                 unseen, failed>>

(* The front changes its trading day while nobody is connected.            *)
NewDay ==
  /\ ~link /\ today < MaxDay
  /\ today' = today + 1
  /\ UNCHANGED <<main, tradingDate, apiVars, confirmed, order, history>>

(* A settlement can be queried on the days after its own; a query without  *)
(* result is answered by one piece that has no text.  A confirmation is    *)
(* for every settlement since the last one.                                *)
Settled == 1..(today - 1)
Pending == {d \in Settled : d >= confirmed}
Settlement(d) ==
  IF d \in Settled THEN [i \in 1..Pieces |-> Piece(d, i = Pieces)]
                   ELSE <<Answer("askSettlement", d)>>

(* A connection that is not logged in is refused everything but the login. *)
Refuse(ask) ==
  /\ ask.req # "login" /\ ~login
  /\ inbox' = Append(inbox, Refusal(ask.req))
  /\ UNCHANGED <<login, confirmed, confirmedOn, unseen>>

Serve(ask) ==
  /\ ask.req = "login" \/ login
  /\ login' = TRUE
  /\ inbox' = inbox \o
       CASE ask.req = "login"         -> <<Answer("login", today)>>
         [] ask.req = "askConfirm"    -> <<Answer("askConfirm", confirmed)>>
         [] ask.req = "askSettlement" -> Settlement(ask.day)
         [] OTHER                     -> <<Answer(ask.req, 0)>>
  /\ \/ /\ ask.req = "confirm"
        /\ confirmed' = today /\ confirmedOn' = confirmedOn \cup {today}
        /\ unseen' = unseen \cup (Pending \ shown)
     \/ /\ ask.req # "confirm"
        /\ UNCHANGED <<confirmed, confirmedOn, unseen>>

Fail(ask) ==
  /\ "error" \in Env /\ trouble < MaxTrouble
  /\ inbox' = Append(inbox, Refusal(ask.req))
  /\ failed' = TRUE /\ raced' = TRUE
  /\ trouble' = trouble + 1
  /\ UNCHANGED <<login, confirmed, confirmedOn, unseen>>

(* Login, queries and confirmation travel in flows of their own: the front *)
(* may serve them in any order.                                            *)
FrontAnswers ==
  \E i \in DOMAIN wire :
    /\ wire' = RemoveAt(wire, i)
    /\ \/ /\ Refuse(wire[i]) \/ Serve(wire[i])
          /\ UNCHANGED <<raced, failed, trouble>>
       \/ Fail(wire[i])
    /\ UNCHANGED <<main, tradingDate, spi, link, today, order, shown>>

FrontTakesOrder(o) ==
  /\ order[o] = "sent"
  /\ IF login /\ confirmed = today
     THEN /\ order' = [order EXCEPT ![o] = "working"]
          /\ UNCHANGED inbox
     ELSE /\ order' = [order EXCEPT ![o] = "reported"]
          /\ inbox' = Append(inbox, Report("error", o))
  /\ UNCHANGED <<main, tradingDate, spi, link, login, wire, frontVars, history>>

(* The private flow is resumed THOST_TERT_QUICK: a trade made while nobody *)
(* is logged in is not reported later.                                     *)
Trade(o) ==
  /\ order[o] = "working"
  /\ IF login
     THEN /\ order' = [order EXCEPT ![o] = "reported"]
          /\ inbox' = Append(inbox, Report("trade", o))
     ELSE /\ order' = [order EXCEPT ![o] = "lost"]
          /\ UNCHANGED inbox
  /\ UNCHANGED <<main, tradingDate, spi, link, login, wire, frontVars, history>>

-----------------------------------------------------------------------------
Next ==
  \/ CreateHolder \/ Listen \/ OnException \/ ProcessStarts
  \/ Handle \/ HandleNull \/ WakeUp
  \/ Connect \/ Break \/ NewDay \/ FrontAnswers
  \/ \E o \in Orders : OnMessage(o) \/ GiveOrder(o) \/ FrontTakesOrder(o)
                         \/ Trade(o)

Spec == Init /\ [][Next]_vars

(* The process is restarted when it ends; the api calls back and connects  *)
(* again by itself; the front answers.                                     *)
Fairness ==
  /\ WF_vars(CreateHolder /\ main' = "connecting")
  /\ WF_vars(Listen /\ main' = "listening")
  /\ WF_vars(ProcessStarts) /\ WF_vars(Handle) /\ WF_vars(WakeUp)
  /\ WF_vars(Connect) /\ WF_vars(FrontAnswers)
  /\ \A o \in Orders : WF_vars(OnMessage(o)) /\ WF_vars(FrontTakesOrder(o))

FairSpec == Spec /\ Fairness

-----------------------------------------------------------------------------
(* MyTdSpi.cpp 66-108: the settlement of a day on which the account was    *)
(* confirmed is printed before it is confirmed itself, except after an     *)
(* error, or after the connection broke while a callback was sleeping or   *)
(* waiting.  It is not said of the settlements of other days: line 78 asks *)
(* for that of the last confirmation's day, so an account that was never   *)
(* confirmed, or not on the day before, confirms what it has not printed.  *)
ConfirmedAfterReading == raced \/ unseen \cap confirmedOn = {}

(* MyTdSpi.cpp 52-88: a connection that lasts, without error, ends with    *)
(* the settlement of its trading day confirmed, whatever callbacks were    *)
(* left over from the connection before.                                   *)
SessionReady ==
  <>[](link /\ ~failed) => <>[](login /\ confirmed = today)

(* MyTdSpi.cpp 140-171: an order that the front refused or filled is told  *)
(* to the strategy, unless the process ends first.                         *)
ReportsForwarded ==
  \A o \in Orders : order[o] = "reported" ~> order[o] \in {"told", "lost"}
=============================================================================
