# A verification project for ltiancheng/futures

The repository is an automatic futures trader: a Java strategy (`src/futures`,
package `com.ltc`) that runs the "tortoise" rules, and a C++ gateway
(`src/Project1`) between it and the CTP front of the broker. The two talk over
an ActiveMQ broker, the gateway through the activemq-cpp client in
`src/activemq-cpp-library-3.9.4`. That client is vendored; the part of it that
carries the gateway's commands is modelled all the same, because losing or
doubling an order is decided there. Everything else under `src/` (the rest of
activemq-cpp, the CTP headers and libraries, the web pages) is vendored or data.

Short paths below: `J` is `src/futures/src/main/java/com/ltc`, `P` is
`src/Project1/Project1`, `A` is
`src/activemq-cpp-library-3.9.4/src/main/activemq`.

## 1. Inventory

| part | state | operations | who talks to it |
|---|---|---|---|
| Positions, rule generation: `J/strategy/tortoise/manager/impl/StrategyImpl`, `.../utils/StrategyUtils`, `.../vo/PositionVO`, `PortfolioHolderImpl` | per commodity: contract, direction, units, hands per unit, status (ACTIVE, EXPIRE, REFRESH); cash | `onCommand`, `updatePosition`, `generateRulesOnContract` and its four generators, `onCommandFailed`, `clearOutstandingCommands`, `doMainSwitch`, `startForceSwitch` | called by every thread below, without locks |
| Trading loop: `RuleExecutor` | an iterator over the rule map, a local list of executed rules | the endless rounds of `run`: visit each list, execute what meets its condition, mark it triggered at the end of the round | `RuleHolderImpl` (the map), a thread pool that sends orders |
| Listeners: `CommandManagerImpl` | none of their own | trade messages to `onCommand`, error messages to `onCommandFailed` | topics of the gateway |
| `CommandCleaner` | none | sets triggered rules old after three minutes | the rule map |
| `MainSwitcher` | none | 15:20: finds new main contracts, switches flat positions, marks the others EXPIRE | contracts, portfolio, map |
| Orders in the gateway: `TdCommander`, `MyTdSpi`, `TdHolder` | the CTP session, request ids | order insert, trade and error reports, settlement handshake | queue in, topics out |
| Market data: `FutureMonitor`, `MdCommander`, `MyMdSpi`, `MdHolder` | last SUB list, its count, the CTP session | subscribe, subscribe again after a login, publish ticks | queue in, topics out |
| Broker connection: `GatewayManager` | a singleton, a map of producers | `createGateway`, `addProducer`, `sendTextMessage`, `onException` (ends the process) | all threads of the gateway |
| Message client: `A/core` (`ActiveMQConnection`, `ActiveMQSessionExecutor`, `ConnectionAudit`), `A/core/kernels` (session, consumer), `A/threads/DedicatedTaskRunner` | the session's queue and its task runner, each consumer's own queue and listener, the audit of duplicates | `createConsumer`, `setMessageListener`, `dispatch`, `redispatch`, `iterate`, acknowledgements | main thread, connection thread, task runner |
| Contracts and history: `ContractHolderImpl`, `ContractServiceImpl` | active and next main contracts, bar histories | refresh, load, add today's bar | strategy, monitor, switcher |
| Trading hours: `TimeManagerImpl` | none | pure functions of the clock and a list of holidays | executor, cleaner, monitor |
| Contract keys: `BaseUtils`, `ContractVO`, `CtpHelper` | none | CTP ids to keys and back | adapters, listeners |
| Persistence: `FuturePersistance`, the DAOs, `PortfolioServiceImpl` | the database | saves the portfolio every three minutes and in a main switch; loads it at the start | portfolio holder, `StrategyImpl`, `MainSwitcher` |
| Market adapters: `HexunAdapterImpl`, `MarketAdapterManagerImpl` | table of adapters | HTTP quotes | |
| Runners: `StrategyRunner`, `StrategyShortTermRunner` | none | daily equity, weekly ATR | strategy |

What makes it hard. Five Java threads share the rule map and the positions with
no lock. A report carries no order id: whether a trade opened, added to or
closed a position is inferred from the position's state, so the whole design
rests on there being at most one order per commodity under way, which is
guarded only by a `triggered` flag set some time after the order went out. The
exchange may refuse, lose, split or delay; the error report may be sent twice
and may be handled before the flag is set; the map's iterator throws when a
listener changes the map during a round. In the gateway two threads share an
array and its length without a lock, the listeners are registered one by one
while commands already arrive, and the front forgets its subscriptions whenever
the connection breaks. The portfolio is saved every three minutes, the rule map
and with it the knowledge of what is under way never. `PROJECT.json` lists each of these at its line
under "hazards".

What correctness means, per part:

- positions: units and direction go together; a switch goes EXPIRE, REFRESH,
  ACTIVE and never without a contract to go to; at most one add;
- loop: one order per commodity at a time; the portfolio agrees with the
  account when nothing is under way; the map holds what the positions ask for;
  an unanswered order is given up, a contract that fell out of the map returns;
- market data: the last list is subscribed after each login; a lasting login
  ends with every active and next main contract subscribed;
- trading session: the settlement of a day on which the account was confirmed
  is printed before it is confirmed; a lasting connection becomes ready for
  orders; what the front reports is told;
- money: equity is what the exchange paid and took; a stop bounds the loss and
  does not loosen, neither while nothing is traded nor when a unit is added;
- the day: in a session the executor is awake and its rules, lists and bars are
  not older than the last close; the runner runs once a working day;
- message client: a command is handled in order, once by one process, and kept
  by the broker until it is handled;
- restart: a main switch is never lost; what was settled and saved stays so;
- keys: a contract and a command come back as what went out.

## 2. Modules

    TortoisePosition <- RuleLoop <- Restart <- MCRestart
                                 <- MCRuleLoop
                                 <- RuleLoop_proofs
    Restart, RuleLoop_proofs     <- Restart_proofs
    Ledger           <- RuleLoop (INSTANCE, refinement LedgerKept)
    Delivery         <- MCDelivery, Delivery_proofs
    AtLeastOnce      <- Delivery (INSTANCE, refinement PromiseKept)
    MdFeed           <- MCMdFeed, MdFeed_proofs
    TdSession        <- MCTdSession, TdSession_proofs
    Account          <- MCAccount, Account_proofs
    TimeManager      <- DailyCycle <- MCDailyCycle, DailyCycle_proofs
    ContractKey      (operators with their theorems, no behaviour)

RuleLoop has the threads of one trading day and leaves out prices, money and
the clock; Account has the prices and the money of one position and no threads;
DailyCycle has the clock and neither. Restart puts the database under RuleLoop.
MdFeed and TdSession are the two halves of the gateway, Delivery the client
through which both get their commands. Ledger and AtLeastOnce are abstract: they
say what RuleLoop and Delivery promise, without threads and buffers.

### TortoisePosition: positions, pure

A contract key is a commodity and the generation of its main contract;
generation g + 1 is the NEXT_MAIN contract of g. A position is
`[gen, dir, units, hand, status]`. `UpdatePosition(p, t)` is
`StrategyImpl.updatePosition`, one operator per branch, and `GenerateRules(p,
full)` is `generateRulesOnContract`, one per generator. Prices are abstracted:
a rule says what it would order, not at which price, so that any of its
conditions may hold at any time. ATR and cash are reduced to the number of
hands per unit that they afford, a member of `HandSizes`.

### RuleLoop: the threads and the outside world

| action | code |
|---|---|
| `StartPass` | `RuleExecutor.run`, begin of a round: `getRuleMap`, which empties the map once after the evening, and `initRules` when it is empty |
| `VisitEmpty`, `VisitFire`, `VisitQuiet`, `VisitOld` | one entry of the iterator: regenerate an empty list, execute a rule whose condition holds, do nothing, drop a list with an old triggered rule |
| `PassFails` | the iterator's ConcurrentModificationException, caught outside the round: the executed rules are forgotten |
| `EndPass`, `MarkTriggered`, `MarkTime`, `EndMark` | `strategy.ruleTriggered` on every executed rule after the round, its two assignments apart |
| `OnTrade`, `ClearContractRule`, `AddRules` | `onCommand`: update the position, clear the list of the message's contract, add the new rules under the position's contract |
| `DropTrade`, `AddRulesFails` | exceptions before and after the position changed; the second is redelivered once |
| `OnCommandFailed` | untrigger all rules of a contract |
| `ClearOutstandingCommands` | the cleaner on one contract, its death included |
| `MainSwitcherRun` | the switcher's three calls |
| `Fill`, `FillUnseen`, `Reject`, `Vanish`, `Age`, `DayEnd` | external: exchange, gateway and clock |

Variables: `pos`, `nm` (portfolio and NEXT_MAIN contracts), `listed` and
`rules` (the keys and the lists of `ruleMap`), `pc`, `todo`, `dirty` (executor
and iterator), `lst` (listener), `cleaner` (the thread lives), `day`, and for
the outside `orders`, `hold`, `trades`, `errs`, `afford`.

Abstractions a reader should know. A visit is one step, so is the listener's
loop over the new rules. Assignments of one thread are seen by the others in
order (the code has no `volatile`; a stale read is not modelled). A list of
rules is a set of records: two equal untriggered rules cannot arise but as
duplicates, which merge. `DayEnd` waits for the messages to be read and ends
the orders that are good for the day. The external part refuses a close of more
than is held and an open beyond the margin (`MaxHold`).

`Env` chooses what the outside world may do (`Faults` in the module, one
comment each), so that each run asks one question. "slow" (an order at work for
more than three minutes) and "partial" refute the ledger properties, see the
disagreements in section 3; "partial" is in LoopFaults, "slow" in no run.

### Ledger: what the portfolio promises

An abstract book: a commodity has at most one command under way, its execution
changes the account, its report brings the book up to date, and nothing else
changes the book. RuleLoop's refinement mapping takes the commodities with an
order at work as `asked`, those with an unread or half-handled report as
`reported`, the hands at the exchange (`Owned`) as `account` and the portfolio's
(`Booked`) as `book`. `LedgerKept == Book!Spec` is a property of LoopDay: every
step of executor, listeners, cleaner and switcher is one of the book's or
leaves it as it is.

### Restart: the database under the loop

| action | code |
|---|---|
| `Save` | `FuturePersistance.run`, `saveCurrentStatus`; not while a transaction of `onCommand` holds the portfolio |
| `Handle`, `Commit` | `onCommand` as one transaction; the reports of a main switch save at once (`updatePosition`, `doMainSwitch`), the others wait for `Save` |
| `Evening` | `MainSwitcher`: `startForceSwitch` and the contracts' status are saved where they change |
| `RestartProgram` | end of the process and `StartupManager`: portfolio and contracts come from the database, the rule map is empty, unread reports are gone |
| `Unnoticed` | a trade that is published while nobody is subscribed |

The rest of RuleLoop's steps leave the database alone (`Elsewhere`). `saved` is
the stored portfolio and contracts; `unsaved` and `lost` are history variables:
what LedgerAfterRestart must except. A restart at 15:20 skips the switcher's run
of the day.

### Delivery: from the broker's queue to the listener

| action | code |
|---|---|
| `CreateConsumer`, `CreateFails`, `StartConsumer` | `GatewayManager::registerListener`, `ActiveMQSessionKernel::createConsumer`, the consumer's `start` |
| `StopConsumer`, `StopExecutor`, `Join`, `SetListener`, `StartSession` | `ActiveMQConsumerKernel::setMessageListener`: it stops the session, sets the listener, redispatches what was kept, starts the session |
| `OnCommand` | `ActiveMQConnection::onCommand`, `ActiveMQSessionExecutor::execute` |
| `IterateConsumer`, `IterateQueue`, `Rest` | `ActiveMQSessionExecutor::iterate` in the thread of `DedicatedTaskRunner` |
| `DispatchTo`, `Poison` | `ActiveMQConsumerKernel::dispatch`, `posionAck` |
| `OnMessage`, `Acknowledge` | the gateway's listener, `afterMessageIsConsumed` |
| `OnException`, `ProcessStarts` | `GatewayManager::onException` ends the process; it is started again |
| `Send`, `Break` | external: the strategy, the network |

A message is a queue and a number. Left out because the gateway does not use
them: transactions, selectors, expiry, topics, prefetch limits, failover,
listeners that throw (those of the gateway catch the CMS exceptions). The broker
keeps a message until it is acknowledged and dispatches in order what is not
`flight`, dispatched on the present connection.

### AtLeastOnce: what the client promises

One status per command: unsent, waiting, handled (and not yet acknowledged),
missed, gone, dead; and the queues that are listened to. A command is handled
only from waiting and acknowledged only when handled; it may be missed only
before its queue is listened to; a restart puts handled and missed ones back to
waiting. `PromiseKept` says that Delivery implements this under the mapping
`Status`, computed from store, log, audit and hand.

### ContractKey: names on the way to CTP and back

Pure operators: `ContractVO.getCtpKey` and `getKey`, `BaseUtils.ctpKey2Key` and
`getCurrentYearStr`, the direction and offset of `TdCommander::onMessage` and
`CtpHelper.parseInstruction`. A key is a record of a symbol and its digits, not
a string; CZCE's missing digit is the value None. There is no state, so the
module has theorems and no run.

### MdFeed: subscriptions

`StartRound`, `SendList`, `SendFails` are `FutureMonitor.run`; `StoreArray`,
`StoreCount`, `Subscribe` the three steps of `MdCommander::onMessage`;
`OnFrontConnected`, `OnRspUserLogin`, `LoginRefused`, `OnFrontDisconnected`
those of `MyMdSpi`; `HolderReady` the end of `MdHolder::initHolder`;
`StoreTooEarly`, `LoginOverruns`, `GatewayRestarts` the ways the process ends
and comes back (`GatewayEnds`). The array of contracts is a set, its length the
cardinality; `asked` is a history variable. External: the front forgets
subscriptions with the connection, and subscribing while not logged in to has
no effect. The strategy never sends DRP, so nothing is unsubscribed.

### TdSession: orders and settlement in the gateway

| action | code |
|---|---|
| `CreateHolder`, `Listen`, `OnException`, `ProcessStarts` | `main`, `TdHolder::getInstance`, `GatewayManager::initConnection` and `onException` |
| `Handle` | one callback of `MyTdSpi`: `OnFrontConnected`, `OnRspUserLogin`, `OnRspQrySettlementInfoConfirm`, `OnRspQrySettlementInfo`, `OnRspSettlementInfoConfirm`, `OnRspQryTradingAccount`, and `ReportOrder` for the error and trade reports |
| `WakeUp` | the request a callback sends after its sleep |
| `HandleNull` | a null data field or producer dereferenced: the process ends |
| `OnMessage` | `TdCommander::onMessage` |
| `GiveOrder`, `Connect`, `Break`, `NewDay`, `FrontAnswers`, `FrontTakesOrder`, `Trade` | external: strategy, connection, front |

The api makes the callbacks one after another, so a callback is two steps: it
reads its arguments and the state (`Handle`), then sleeps five seconds and
sends (`WakeUp`); between the two the connection may break and return. The
front may serve the requests that are on the way in any order. A request is a
record, because the query of a settlement names a day: that of the last
confirmation (`LastConfirmDate`, 0 for the code's "19700101"). The front has the
settlements of the days before (`Settled`) and answers the query of any other
day with one piece without text, as an error does; the handler prints what has a
text and confirms after the last piece in any case. A confirmation is for all
settlements since the last one (`Pending`); `unseen` keeps those of them that
were not printed. A settlement comes in `Pieces`; its text, the account and the
orders' fields are left out.

### Account: prices, stops and cash

One position through `Open`, `Add`, `Stop`, `StartForceSwitch`, `CloseOld`,
`OpenNew` (the branches of `updatePosition`, each with the rules generated
after it), `UpdateTopPrice`, and the evening's `NextDay`; the price moves by
`Move`. An order is given and traded in one step, RuleLoop has what may come
between. `Refresh` is the regeneration: the size of an empty position
(`HandPerUnit`), the close rule (`StopPrice` of the 2-ATR stop, the stop that
follows the best price, the extreme of ten days, the urge after twenty days) and
the open rules. Direction is 1 or -1, which merges the branches for LONG and
SHORT; prices are integers and a point is worth 1. `cost`, the average price
times the units, avoids fractions. The history variables `flows`, `closedAt` and
`drift` say what the exchange paid, which the code does not keep.

### TimeManager and DailyCycle: the clock

TimeManager is `TimeManagerImpl` in minutes, pure: when a waiting thread wakes
(`NextRound`, `NextMonday`, `NextRun`) and whether a refresh is due
(`NeedRefreshBeforeOpen`, `IsTimeInIntervals`). DailyCycle has a waking time for
each of four threads and what they fetch: the rules of `RuleHolderImpl`, the
lists and the histories of `ContractHolderImpl`. Of rules, lists and histories
only the age is kept. `InitRules` and `Round` are the executor, `SwitchFilled`
the listener, `RunStrategy`, `RunSwitcher` and `RunMonitor` the daily threads,
`Tick` the clock. `InitRules` may end by an exception at a history that does not
load or at the missing quote of a position under a main switch (`NoQuote`).
Left out: holidays' trading calendar, the removal of today's bar for contracts
without night session, that `HexunAdapterImpl` drops the first bar also before
15:00 of a weekend, when it is complete (`Loads`); a half-second round is a
minute.

## 3. Runs

| run | checks | world |
|---|---|---|
| LoopDay | TypeOK, OneOrderInFlight, LedgerMatchesExchange, PositionWellFormed, UnitsAtMostTwo, ClosesWhatIsHeld, LedgerKept (refinement) | 1 commodity, 3 generations, sizes 0 to 2, rejections, lost orders, changes in mid-round, main switch |
| LoopPair | OneOrderInFlight, RulesFitPosition | 2 commodities that share limit, margin and map, rejections; symmetric |
| LoopFaults | AtMostOneTriggered, SwitchWellFormed, RuleMarks | 1 commodity switched once, partial fills, changes in mid-round, failing generation with redelivery, duplicate errors |
| LoopWeek | OutstandingCleared, UnwatchedRestored (both liveness) | 2 commodities over the days, lost orders, the cleaner's race |
| Restart | StoreTypeOK, SwitchIsSaved, LedgerAfterRestart | 1 commodity switched once, the program ends between any two steps, lost trade reports |
| Delivery | TypeOK, InOrder, HeldOnce, PromiseKept (refinement), EventuallyTaken (liveness) | 2 queues registered one after the other, 3 commands, 2 broken connections |
| FeedRecovers | TypeOK, LastListWatched, RoundsRestore (liveness) | 2 commodities with a successor, restarts, early SUB, the array/count race, broker errors |
| Session | TypeOK, ConfirmedAfterReading, SessionReady (liveness), ReportsForwarded (liveness) | 3 trading days, 1 order, 2 troubles out of breaks, errors, ends of the process |
| Account | TypeOK, EquityMatchesExchange, StopBoundsLoss, UrgeComes, StopTightens, AddTightens | 4 days, 4 moves, prices 17 to 24, ATR 1 or 2, switches |
| Cycle | TypeOK, AwakeWhenOpen, RulesOfTheDay, ListsOfTheDay, RunnerEachDay | Friday to Tuesday, any start from Friday to Sunday, failing loads and quotes, one main switch |

Two runs end in a violation, each of a sentence of the repository; the
findings in `PROJECT.json` quote it.

| run | what it shows |
|---|---|
| DeliveryMissed | a command that came before its listener was set is redispatched through the audit of duplicates, taken for its own duplicate and moved to the dead letter queue (ActiveMQConsumerKernel:1627) |
| HistFrozen | histories loaded during a session are not refreshed in the evenings after |

Other disagreements met while modelling, which no run is kept for:

- an order answered after three minutes: its list was generated again, so a
  third unit is bought, where StrategyImpl:49 says that a position is added to
  once (RuleLoop with "slow" in `Env` violates UnitsAtMostTwo);
- a partial fill of a closing order moves a main switch from EXPIRE to REFRESH
  while the old contract has hands left, where PositionVO:27 says "command to
  close old contracts done" (StrategyImpl:522);
- `ruleTriggered` sets `triggered` before `triggerTime`: the cleaner that reads
  a rule in between dereferences null and its thread ends, and a rule fired
  again after an error still has the time of its first order, so that its
  second one may be given up at once (StrategyImpl:515);
- `ActiveMQSessionExecutor::start` wakes the task runner only for its own queue,
  and a consumer's wakeup comes before that queue runs: a command kept by a
  consumer while the other one's listener was set waits for the next command
  (`Parked` in EventuallyTaken);
- with the cash overdrawn the size of a unit is negative; the guard at
  StrategyImpl:434 is "not 0", so the order is given and the front refuses it;
- an order at work when the program ends is not known after the restart: its
  rule is generated and given again (`lost` in LedgerAfterRestart);
- a round that ends by the iterator's exception forgets the executed rules, so
  the strategy is not notified of them (RuleExecutor:98);
- `MyMdSpi` remembers the last SUB only: a reconnection leaves the active
  contracts out until FutureMonitor's next round;
- `waitTillNextMonday` sets `Calendar.HOUR`, the hour of the half day
  (TimeManagerImpl:90), so a strategy started on a weekend's afternoon sleeps
  until Monday noon, through a session in which the comment at line 60-62 lets
  it wait for half a second. The starts are in the run; the mornings are what
  `Oversleeps` excepts in AwakeWhenOpen and RulesOfTheDay, without it TLC finds
  both violated;
- the settlement that is asked for is that of the day of the last confirmation
  (MyTdSpi:78), where the comment at MyTdSpi:74 has the settlement read before
  the first order of the day: an account that was never confirmed confirms
  without anything printed, one that was not confirmed on the day before prints
  an older settlement and confirms the newer ones with it, with no break and no
  error. ConfirmedAfterReading is therefore only about the settlements of days
  on which the account was confirmed; about all settlements (`unseen = {}`) TLC
  finds it violated without any trouble (`Env` empty, the second day);
- a callback left over from before a reconnection, or an error answer, confirms
  a settlement that was not printed (MyTdSpi:99): the `raced` of
  ConfirmedAfterReading;
- `getTopStopLossPrice` takes the gap to the best price absolutely
  (StrategyImpl:412), so a best price that lags behind an added unit makes the
  stop tighter for a while: the "lagging" basis that StopTightens excepts;
- when a unit is added to an old position, its stop, which the days without a
  move had brought to the last entry, falls back behind the new entry, where
  StrategyImpl:51 says that the stop goes forward: AddTightens is about positions
  that are not old (`Urge` is 0), and about stops that follow the price, not
  the extreme of ten days;
- a main switch books the gap of the current bars, not that of its two deals
  (StrategyImpl:531): the `drift` of EquityMatchesExchange;
- a position is sized from the cash, the comment at StrategyImpl:53 says from
  the stop-loss equity (StrategyUtils:98). With one commodity the two are the
  same when a size is made, so Account says nothing of the difference;
- a first history that fails to load leaves a map that is neither empty nor
  dated: no history is read any more, and StrategyRunner ends of it.

Bounds. `MaxOrders = 2` lets a second order be given where the design allows
only one. `MaxUnits` is one above what the properties allow where they bound
units, so a third unit would be seen. `MaxGen = 2` gives a commodity two
successive switches. `MaxQueue` of 1 or 2 is enough for a message to wait while
another is handled; each message changes one commodity only, so longer queues
only repeat this. Two commodities are the least that share a limit; nothing in
the code looks at more than one other commodity at a time except the sum in
`IsFullPortfolio`, and `FullHands = 1` makes the portfolio full by one of them.
Not every fault is in every run: LoopFaults has two orders and partial fills,
which a report for a contract already left needs (`DropTrade`); the cleaner's
race, which multiplies its states, is in LoopWeek, lost reports in Restart. Of
the proofs of section 4 those about marks, switches and types are for every
`Env`, those about the book for every calm one. LoopWeek has no main switch
(`MaxGen = 0`): liveness over the days needs commodities that compete
(`FullHands = 1`), not generations. Restart has one commodity since the database
keeps each by itself.

Delivery: two queues are what main registers; the second one's registration
stops the first one's consumer while it has messages, which one queue would not
show. Three commands put two on one queue, so that order matters, and one on the
other. Two breaks give a process that starts amid the last one's leftovers and
breaks again.

Session: one order is enough, since orders do not see each other; a settlement
in two pieces has a first and a last; three days let a connection break on one
and come back on the next, or skip a day without a confirmation; two troubles
let an error follow a break. Account: four
days and four moves reach an add, a stop by each of the three prices, a switch
with two units and an entry whose ATR has changed since; `OpenBars` 2,
`CloseBars` 1 and `DaysToUrge` 2 stand for 20, 10 and 20. Cycle: a minute as
step would give thousands of instants, so `MCInstants` keeps one in each part of
the day and those of the timers; Friday to Tuesday has a weekend between two
sessions, a night session that ends on a Saturday, and two ordinary evenings.

Delivery, Session, Account and Cycle say CHECK_DEADLOCK FALSE: when the
commands, the days and the troubles are used up, nothing is left to happen.

Fairness. In `DaySpec` the executor's rounds, the error listener and the
cleaner are endless loops or broker threads (WF), and three minutes pass
(`Age`). The trade listener gets SF because runs without "midpass" admit it only
between rounds, a restriction of the model, not of the code. Nothing is assumed
of the exchange: OutstandingCleared is about commodities whose order was
answered or is gone. That the days go on is the hypothesis of UnwatchedRestored,
not an assumption. In Delivery's `FairSpec` main, the task runner and the
connection's thread run on (WF), a broken connection is noticed and the gateway
is started again; that the connection lasts in the end is the hypothesis of
EventuallyTaken. In `FeedSpec` the monitor's rounds come again each day and its
sends succeed infinitely often; of the connection nothing is assumed, RoundsRestore is about
the behaviours in which it lasts in the end. In TdSession's `FairSpec` the
process that ended is started again and gets through `main`, the api connects,
calls back and returns from its sleep, and the front answers and takes orders;
that the connection breaks no more is not assumed, it is the hypothesis of
SessionReady. Account and DailyCycle have no liveness.

## 4. Proofs

The theorems hold for all values of the constants under the named assumptions
(`PositionAssumption`, `DeliveryAssumption`, ...), which TLC evaluates for the
runs' values. They hold without fairness. They hold for every `Env`, but for
those of RuleLoop and Restart that are about the book, whose hypothesis `Calm`
is explained below; every other hypothesis is named where it is discussed.

| module | theorems | invariant |
|---|---|---|
| RuleLoop_proofs | TypeCorrect, SwitchCorrect, MarksCorrect, OneTriggered | `TypeInv`, `RuleMarks` |
| RuleLoop_proofs, under `Calm` | BookCorrect, OneOrder, LedgerCorrect, PositionsCorrect, UnitsCorrect, RulesCorrect, ClosesCorrect, LedgerHolds | `BookInv` |
| Restart_proofs | StoreTypeCorrect, SwitchNeverLost | `StoreInv` |
| Restart_proofs, under `Calm` | LedgerSurvives | `RestartInv` |
| Delivery_proofs | TypeCorrect, HeldCorrect, PromiseHolds, OrderKept | `IInv`, `OrderInv` |
| MdFeed_proofs | FeedTypeCorrect, LastListAlwaysWatched | `FeedInv` |
| TdSession_proofs | SessionTypeCorrect, ReadBeforeConfirmed | `SessionInv` |
| Account_proofs | AccountTypeCorrect, EquityCorrect, LossBounded, UrgeCorrect, StopOnlyTightens, AddNeverLoosens | `AccountInv`, `TrailOK` |
| DailyCycle_proofs | NextRunIsNext, AwakeCorrect, CycleTypeCorrect, RunnerCorrect, ListsCorrect, DayRulesCorrect | `AwakeInv`, `TypeInv`, `RunnerInv`, `SeenInv`, `RuleInv` |
| ContractKey | KeyRoundTrip, OtherDecadeIsLost, KeysDistinct, DecadeStays, InstructionRoundTrip | none |

**RuleLoop.** TypeOK and SwitchWellFormed need each other: a REFRESH position's
rules are for generation `gen + 1`, which is a key only if the commodity has a
next main contract below `MaxGen`. So the inductive invariant is `TypeInv ==
TypeOK /\ SwitchWellFormed`. AtMostOneTriggered is not inductive: a rule is
marked long after its list was visited, and a second rule of the list could be
marked in the same round. RuleMarks says that at most one rule of a list is
triggered *or waiting to be marked*, that outside a round nothing waits, and
that lists not yet visited have nothing waiting. It holds because a visit fires
only in a list without triggered rule, a list is visited once per round, and an
exception drops all marks. `NewRulesQuiet`, `ReplaceSound` and `ImageSound` are
about one list: new rules are unmarked, replacing one rule or mapping all rules
does not add a second pending one.

The book is what is asked of the exchange, what it executed and what the
portfolio says. OneOrderInFlight, LedgerMatchesExchange, PositionWellFormed,
UnitsAtMostTwo, RulesFitPosition, ClosesWhatIsHeld and LedgerKept are none of
them inductive and need each other: a close is for what is held only if the rule
fits the position and the position fits the account, and the position fits the
account only if no second order was executed meanwhile. `BookInv` says of each
commodity, whatever the others do:

- `OneToken`: its command is in one place: at work, executed with a report not
  read, being entered by the trade listener, or refused with an error not read;
- `Watched`: while it is in one of them, a rule of the commodity waits for the
  answer, so that by RuleMarks no other is fired. The cleaner takes the mark
  away only from a command that nobody will answer any more;
- `Asked`, `Reported`, `Agreed`: the order is one that the position asks for
  now; the report not yet read brings the position in line with the account;
  without one it is in line;
- `Lists`, `Marks`, `Stays`: the one list of the commodity has commands that the
  position asks for, also between the two halves of `onCommand`, when the
  executor may have put a list back under the listener; a rule marked old has no
  answer to come;
- `Shape`: units, direction and hands come and go together, two units at most;
- `Alone` and `RoundInv`: a round looks only at keys of the map as it is, a
  round with the map restructured under it has marked nothing yet, and after the
  close nothing is under way.

Each action is shown to keep the parts of its own commodity and to leave the
others `Untouched`. LedgerHolds goes action by action: `VisitFire` asks, `Fill`
executes, the first half of `onCommand` enters a report (which by `Reported`
brings the book to the account), a refusal or a lost order ends in nothing, and
all else, the evening's main switch included, is a stutter.

`Calm` is the hypothesis: an order is executed as a whole, refused once or lost,
its answer is read before the cleaner's three minutes are over, and the map is
restructured under a round only if there is one commodity ("midpass"). The
theorems of RuleLoop_proofs ask besides that no report is lost, LedgerSurvives
admits lost ones. It is what LoopDay, LoopPair and Restart have, for any number of commodities, contracts and
sizes. On top of a refusal each of the faults that it leaves out breaks a
property: TLC finds OneOrderInFlight violated with answers that come late
("slow"), with partial executions, with an error that comes twice ("duperr"),
with the cleaner between the two assignments of `ruleTriggered` ("race"), and
with "midpass" and two commodities, whose round stops before a rule is marked.
LedgerMatchesExchange is violated with a lost report ("losttrade", which
Restart's `lost` sets apart) and when rules cannot be generated ("genfail").
Under these faults AtMostOneTriggered and RuleMarks are what is left, and they
are proved for every `Env`.

**Restart.** SwitchIsSaved needs that what is saved is good to start from
(`SavedWellFormed`, or the restart would break TypeInv), that an open
transaction belongs to a report being handled (`SavingHandles`), and that the
evening finds nothing being handled (`NightIsQuiet`). The types of RuleLoop's
own steps are taken from RuleLoop_proofs.

LedgerAfterRestart is about what is in the database, so `RestartInv` adds
`SavedBook`: a commodity that has no unsaved trade and is not in the hands of
`onCommand` has a stored position with the book of the one in memory. It need
not be the same position, the size of an empty one comes and goes with the
cash. `CommodityInv` is kept for the commodities outside `lost` only; since it
is about one commodity at a time, the lemmas of RuleLoop_proofs serve for these
although the others may have lost a trade.

**Delivery.** HeldOnce is nearly inductive: with the numbering of the commands
(`Numbered`: a new one is none of those sent) and with a process that has ended
holding nothing (`NothingAtTheEnd`), it is. From it PromiseHolds follows action
by action: each action of Delivery is one of AtLeastOnce under `Status`, or
leaves statuses and listeners alone. Dispatching to a listener is a stutter,
`OnMessage` is `Handle`, an acknowledgement on a broken link is lost and is a
stutter, a message put into the audit without a listener is `Miss`, and the end
of the process is `Restart`. OrderKept needs an order among the buffers
(`OrderInv`): what listeners were given came before what the process holds, and
this before what the broker still has to dispatch; what a consumer keeps comes
before the session's queue, and a runner takes from the queue only when no
consumer keeps anything for it to hand out first.

**MdFeed.** LastListWatched needs that array and count fit together but for the
moment between their assignments, in which the commander holds the same list
(`LastIsKept`), and that a next main contract is a contract (`NextExists`).

**TdSession.** Without trouble a connection has one request under way at a time:
sleeping in a callback, on the wire, or answered and waiting (`OneRequest`), and
a broken one has none. So the day that is asked for is the one which the front
has as the last confirmed, the answer has a text if that settlement exists, and
it was printed when the confirmation is sent (`Authentic`, `Sound`, `Read`). The
days fit together (`Dated`): what is confirmed later is not settled yet, so the
only settlement of a confirmed day that a confirmation is for is the one just
printed. ConfirmedAfterReading holds until a connection breaks amid callbacks or
an error comes; `SessionInv` is `raced \/ Clean` with types and dates.

**Account.** The first four properties share `AccountInv`: numbers are integers
(`NumbersOK`), the bars are in the order of their days (`BarsOK`), a position's
fields fit each other, an empty one has the size of the cash (`PosOK`,
`SizedOK`), the standing rule is the one that these data give (`RuleOK`), and
cash less cost is what the exchange was paid (`BookOK`). RuleOK is what makes
LossBounded and UrgeCorrect inductive: they speak of a rule that was generated
some steps ago. The extremes over the bars are defined by what they are, not by
recursion, and that they exist is proved from the well-foundedness of `<` on the
naturals by a least counterexample (`LeastNatural`, `HighestExists`); the linear
arithmetic of the stop is in lemmas of its own, one per way the stop is made.

StopOnlyTightens compares a rule with the next one, so it needs where the
standing stop can have come from (`TrailOK`): it is not better than 2 ATR behind
the last entry, or than the last entry of an old position, or than what the best
price gives now. Each of the three only moves in the position's favour, and the
next stop is not worse than any: RuleOK bounds it by the first two, `BeatsTop`
by the third, for which `TopStopGrows` says that a better best price gives a
better stop. The hypothesis is that 0 is not a price: the code takes a best
price of 0 for none (`TopPrice`, `HasTopStop`), and with prices from 0 TLC finds
a short position whose best price is forgotten at 0 and whose stop then moves
away.

AddNeverLoosens compares the stop of one unit with that of two, from the same
`TrailOK`. The new entry is 1 ATR from the old one or more, so 2 ATR behind it
is 1 ATR better; what the best price gave is counted in whole 2 ATR and follows
by 1 ATR for each, so that the way to the new entry makes up for what the best
price is nearer to it (`GapCovers`, `AddedStop`), also when it is behind it.

**DailyCycle.** NextRunIsNext is about TimeManager alone: the wake-up of
StrategyRunner and MainSwitcher is at their time, on a working day, and no
working day is passed over. AwakeCorrect has two hypotheses that the runs'
constants satisfy: the night session opens in the afternoon, ends by the morning
and before the day session does (`SessionTimes`), and something happens on every
morning after the night session (`MorningInstant`, a condition on the bound
`Instants`). It holds for every start; the morning that a weekend's afternoon
makes it sleep through is in the property (`Oversleeps`). `AwakeInv` has two
cases. `Awake`: no session lies before the executor's next round, a round in a
weekend's break sleeps exactly until Monday 0:00, and the round due when a break
begins is made before noon, otherwise that round itself would sleep until
Monday noon. `Asleep`: the strategy was started on such an afternoon and the
first round is due at Monday noon exactly, from where `Awake` holds.

CycleTypeCorrect has the strengthening `TypeInv`: wake times are natural and not
more than a day behind, refresh times are in the past. RunnerCorrect rests on
NextRunIsNext and needs no hypothesis: `RunnerInv` says that between its last
run and its next one there is no time at which StrategyRunner should have run.
ListsCorrect and DayRulesCorrect rest on one round: by AwakeInv the executor is
due when the minute before the opening comes (`EveningComes`, 20:59), so that at
the opening it has read the lists again and emptied the map. `SeenInv` says that
a switch which the lists do not show is not older than the last opening,
`RuleInv` that rules are not older than the close before it. ListsCorrect has
the further hypothesis `SwitchBeforeOrAfter`: MainSwitcher, whose time is not
passed over either (`NotPassed`), does not run in that minute itself. With
SwitchRunTime at 20:59 TLC finds the switch after the executor's round and the
old lists in the night session. `CycleAssumption` asks for a time of
FutureMonitor: with an empty list `TimeManagerImpl` would wait in another way,
and the Spring context gives two.

**ContractKey.** The round trip holds for a database whose instrument ids are
its symbols in CTP's spelling (`SpelledAlike`) and, for CZCE, for contracts of
the decade the process has kept (`InDecade`). The other theorems show that the
second hypothesis is needed and that nothing but a new process changes the
decade.

Every invariant and every action property of the passing runs, and both
refinements, are theorems. Model-checked only, because the prover cannot: all
liveness (OutstandingCleared, UnwatchedRestored, RoundsRestore, SessionReady,
ReportsForwarded, EventuallyTaken). LatestBarFirst and MissedRedispatched are
the two properties that the code breaks.

## 5. Not modelled

- What Spring and Hibernate do: a transaction that is rolled back while the
  objects in memory keep its changes (StrategyImpl:536, after which initRules
  takes the old contract for untracked). Restart commits or rolls back the
  database in one step and never leaves memory and database apart so.
- New contracts of a new commodity in the database (`addPositions`): the set of
  commodities is a constant.
- The unguarded singleton of `GatewayManager` and its maps: what two threads do
  to a `std::map` at once is not described by the code.
- Which contract becomes the next main one (by volume), the trading calendar of
  holidays, the removal of today's bar for contracts without night session,
  `StrategyShortTermRunner`, reports and charts.
- Prices as floats: Account has integers, so rounding is not seen.
- HTTP quotes and their parsing, the DAOs' SQL, dates and text formats of the
  messages, logging, startup wiring, the web pages.
- Of activemq-cpp: transports, wire formats, transactions, topics, the
  `decaf` library of threads and collections, which the gateway does not reach
  or which Delivery takes as working. Of CTP there are only headers and
  binaries: its front and api are external, as the gateway uses them.
