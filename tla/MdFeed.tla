------------------------------- MODULE MdFeed -------------------------------
(***************************************************************************)
(* The market data subscriptions: FutureMonitor subscribes the contracts   *)
(* at startup and at its run times (8:57 and 20:57), MdCommander hands the *)
(* subscription to the CTP front and remembers it, MyMdSpi subscribes what *)
(* is remembered when the front comes back.  The front forgets every       *)
(* subscription when the connection breaks.                                *)
(***************************************************************************)
EXTENDS Integers, Sequences, FiniteSetsExt

CONSTANTS
  Symbols,   \* the commodities
  MaxGen,    \* bound: generations of main contracts
  MaxQueue,  \* bound: unread SUB commands
  Env        \* the behaviours admitted, see Faults

Faults == {
  "restart",    \* the gateway process may end (onException exits) and restart
  "earlysub",   \* a SUB may arrive before MdHolder knows its MyMdSpi
  "race",       \* the SPI thread runs between the assignments of onMessage
  "senderror"}  \* sending to the broker may throw

ASSUME FeedAssumption ==
  /\ Symbols # {} /\ IsFiniteSet(Symbols)
  /\ MaxGen \in Nat
  /\ MaxQueue \in Nat \ {0}
  /\ Env \subseteq Faults

VARIABLES
  main,     \* contractHolder: the generation of the active contract
  nm,       \* contractHolder: the commodities with a NEXT_MAIN contract
  batch,    \* FutureMonitor: the lists that its round has still to send
  queue,    \* the SUB commands on the queue of the gateway
  ready,    \* MdHolder.mdSpi is assigned
  cmd,      \* MdCommander::onMessage: its step and the list it handles
  last,     \* MyMdSpi: lastContractArray and lastCount
  conn,     \* "down", "front" once connected, "in" or "refused" by the login
  subs      \* the subscriptions at the front

javaVars == <<main, nm, batch>>
vars == <<javaVars, queue, ready, cmd, last, conn, subs>>

Contracts == [sym : Symbols, gen : 0..MaxGen]
Active == {[sym |-> s, gen |-> main[s]] : s \in Symbols}
NextMain == {[sym |-> s, gen |-> main[s] + 1] : s \in {x \in Symbols : nm[x]}}

NoneLast == [array |-> {}, count |-> 0]
NotReading == [step |-> "idle", list |-> {}]

TypeOK ==
  /\ main \in [Symbols -> 0..MaxGen]
  /\ nm \in [Symbols -> BOOLEAN]
  /\ batch \in Seq(SUBSET Contracts)
  /\ queue \in Seq(SUBSET Contracts)
  /\ ready \in BOOLEAN
  /\ cmd \in [step : {"idle", "array", "count"}, list : SUBSET Contracts]
  /\ last \in [array : SUBSET Contracts, count : Nat]
  /\ conn \in {"down", "front", "in", "refused"}
  /\ subs \subseteq Contracts

Init ==
  /\ main = [s \in Symbols |-> 0]
  /\ nm \in [Symbols -> BOOLEAN]
  /\ \A s \in Symbols : nm[s] => MaxGen > 0
  /\ batch = <<>>
  /\ queue = <<>>
  /\ ready = FALSE
  /\ cmd = NotReading
  /\ last = NoneLast
  /\ conn = "down"
  /\ subs = {}

-----------------------------------------------------------------------------
(* The strategy's side.                                                    *)

(* The lists of a round, the empty ones left out (FutureMonitor.run).      *)
ActiveOnly == <<Active>>  \* mutant: the next main contracts forgotten
Lists == IF NextMain = {} THEN <<Active>> ELSE <<Active, NextMain>>

(* In the evening the holder reads the lists again: a commodity may have   *)
(* got a next main contract, or have been switched to it.                  *)
StaysNext(scanned, switched) ==  \* mutant: a switched contract stays NEXT_MAIN
  [s \in Symbols |-> nm[s] \/ s \in scanned]
NowNext(scanned, switched) ==
  [s \in Symbols |-> (nm[s] \/ s \in scanned) /\ s \notin switched]

RefreshContracts(scanned, switched) ==
  /\ \A s \in scanned : ~nm[s] /\ main[s] < MaxGen
  /\ \A s \in switched : nm[s] \/ s \in scanned
  /\ main' = [s \in Symbols |-> IF s \in switched THEN main[s] + 1 ELSE main[s]]
  /\ nm' = NowNext(scanned, switched)
  /\ UNCHANGED <<batch, queue, ready, cmd, last, conn, subs>>

StartRound ==
  /\ batch = <<>>
  /\ Len(queue) + 2 <= MaxQueue
  /\ batch' = Lists
  /\ UNCHANGED <<main, nm, queue, ready, cmd, last, conn, subs>>

SendList ==
  /\ batch # <<>>
  /\ Len(queue) < MaxQueue
  /\ queue' = Append(queue, Head(batch))
  /\ batch' = Tail(batch)
  /\ UNCHANGED <<main, nm, ready, cmd, last, conn, subs>>

(* The exception skips the wait: the round starts from its beginning.      *)
SendFails ==
  /\ "senderror" \in Env
  /\ batch # <<>>
  /\ Len(queue) + 2 <= MaxQueue
  /\ batch' = Lists
  /\ UNCHANGED <<main, nm, queue, ready, cmd, last, conn, subs>>

-----------------------------------------------------------------------------
(* The gateway.                                                            *)

(* The process ends; a command in work was not acknowledged, the broker    *)
(* keeps it for the next consumer.                                         *)
GatewayEnds ==
  /\ ready' = FALSE
  /\ cmd' = NotReading
  /\ last' = NoneLast
  /\ conn' = "down"
  /\ subs' = {}
  /\ queue' = IF cmd.step = "idle" THEN queue ELSE <<cmd.list>> \o queue

GatewayRestarts ==
  /\ "restart" \in Env
  /\ Len(queue) < MaxQueue
  /\ GatewayEnds
  /\ UNCHANGED javaVars

(* MdHolder::initHolder assigns mdApi and mdSpi after mdapi->Init().       *)
HolderReady ==
  /\ ~ready
  /\ ready' = TRUE
  /\ UNCHANGED <<javaVars, queue, cmd, last, conn, subs>>

(* MdCommander::onMessage: the array, the count, the subscription.         *)
StoreArray ==
  /\ queue # <<>>
  /\ cmd.step = "idle"
  /\ ready
  /\ queue' = Tail(queue)
  /\ cmd' = [step |-> "array", list |-> Head(queue)]
  /\ last' = [last EXCEPT !.array = Head(queue)]
  /\ UNCHANGED <<javaVars, ready, conn, subs>>

(* ... through a null mdSpi, the process ends.                             *)
StoreTooEarly ==
  /\ "earlysub" \in Env
  /\ queue # <<>>
  /\ cmd.step = "idle"
  /\ ~ready
  /\ GatewayEnds
  /\ UNCHANGED javaVars

StoreCount ==
  /\ cmd.step = "array"
  /\ cmd' = [cmd EXCEPT !.step = "count"]
  /\ last' = [last EXCEPT !.count = Cardinality(cmd.list)]
  /\ UNCHANGED <<javaVars, queue, ready, conn, subs>>

(* SubscribeMarketData has an effect on a front that is logged in to.      *)
Subscribe ==
  /\ cmd.step = "count"
  /\ cmd' = NotReading
  /\ subs' = IF conn = "in" THEN subs \cup cmd.list ELSE subs
  /\ UNCHANGED <<javaVars, queue, ready, last, conn>>

OnFrontConnected ==
  /\ conn = "down"
  /\ conn' = "front"
  /\ UNCHANGED <<javaVars, queue, ready, cmd, last, subs>>

(* The SPI thread is kept out of onMessage, unless "race".                 *)
SpiMayRun == cmd.step = "idle" \/ "race" \in Env

NothingAgain == {{}}  \* mutant: the login does not subscribe again
(* The first lastCount entries of lastContractArray: which these are is    *)
(* left open.  A count beyond the array reads what follows it, the process *)
(* ends or the front ignores what it gets.                                 *)
Again ==
  IF last.count < Cardinality(last.array) THEN kSubset(last.count, last.array)
                                          ELSE {last.array}
Overrun == last.count > Cardinality(last.array)

OnRspUserLogin ==
  /\ conn = "front"
  /\ SpiMayRun
  /\ conn' = "in"
  /\ \E list \in Again : subs' = list
  /\ UNCHANGED <<javaVars, queue, ready, cmd, last>>

LoginOverruns ==
  /\ conn = "front"
  /\ SpiMayRun
  /\ Overrun
  /\ GatewayEnds
  /\ UNCHANGED javaVars

(* A refusal is not looked at: no second login before the next connection. *)
LoginRefused ==
  /\ conn = "front"
  /\ conn' = "refused"
  /\ UNCHANGED <<javaVars, queue, ready, cmd, last, subs>>

OnFrontDisconnected ==
  /\ conn # "down"
  /\ conn' = "down"
  /\ subs' = {}
  /\ UNCHANGED <<javaVars, queue, ready, cmd, last>>

-----------------------------------------------------------------------------
Next ==
  \/ \E scanned, switched \in SUBSET Symbols : RefreshContracts(scanned, switched)
  \/ StartRound \/ SendList \/ SendFails
  \/ GatewayRestarts \/ HolderReady
  \/ StoreArray \/ StoreTooEarly \/ StoreCount \/ Subscribe
  \/ OnFrontConnected \/ OnRspUserLogin \/ LoginOverruns \/ LoginRefused
  \/ OnFrontDisconnected

Spec == Init /\ [][Next]_vars

(* FutureMonitor's rounds come again every day, and neither of its sends   *)
(* fails each time; a consumer that is up works its queue off.  The        *)
(* connection is promised nothing.                                         *)
SendLastList == Len(batch) = 1 /\ SendList
FeedSpec ==
  /\ Spec
  /\ WF_vars(StartRound) /\ SF_vars(SendList) /\ SF_vars(SendLastList)
  /\ WF_vars(HolderReady)
  /\ WF_vars(StoreArray) /\ WF_vars(StoreCount) /\ WF_vars(Subscribe)

-----------------------------------------------------------------------------
(* Properties.                                                             *)

(* Whatever the SPI thread and onMessage do to each other, the list of the *)
(* last SUB command is subscribed whenever the front is logged in to and   *)
(* no command is being handled.                                            *)
LastListWatched == conn = "in" /\ cmd.step = "idle" => last.array \subseteq subs

(* Once the front stays logged in to, the rounds bring every active and    *)
(* every next main contract back, whatever was lost before.                *)
RoundsRestore == <>[](conn = "in") => <>[](Active \cup NextMain \subseteq subs)

=============================================================================
