------------------------------ MODULE RuleLoop ------------------------------
(***************************************************************************)
(* The trading loop: the threads that share the rule map and the           *)
(* portfolio, and the outside world (gateway, exchange, clock) they meet.  *)
(*                                                                         *)
(*   RuleExecutor      StartPass, Visit*, PassFails, EndPass, Mark*        *)
(*   trade listener    OnTrade, DropTrade, ClearContractRule, AddRules,    *)
(*                     AddRulesFails (CommandManagerImpl, onCommand)       *)
(*   error listener    OnCommandFailed                                     *)
(*   CommandCleaner    ClearOutstandingCommands                            *)
(*   MainSwitcher      MainSwitcherRun                                     *)
(*   outside           Fill, FillUnseen, Reject, Vanish, Age, DayEnd       *)
(***************************************************************************)
EXTENDS TortoisePosition, Sequences

CONSTANTS
  Env,        \* the behaviours of the outside world admitted, see Faults
  MaxOrders,  \* bound: orders at work at the same time
  MaxHold,    \* bound: the margin lets the account hold this many hands
  MaxUnits,   \* bound: trades are reported until the units reach this many
  MaxQueue,   \* bound: unread messages
  NoTrade     \* no message is being handled

Faults == {
  "reject",     \* an order may be refused with an error message
  "duperr",     \* ... with two: OnRspOrderInsert and OnErrRtnOrderInsert
  "vanish",     \* an order may end without a message (lost, cancelled)
  "slow",       \* an order may still be at work three minutes later
  "partial",    \* an order may be filled in several trades
  "losttrade",  \* the message of a trade may be lost
  "midpass",    \* the listener restructures the map while the executor iterates it
  "race",       \* the cleaner runs between the two assignments of ruleTriggered
  "genfail",    \* generating rules may throw (no bar history)
  "switch"}     \* commodities change their main contract

ASSUME LoopAssumption ==
  /\ Env \subseteq Faults
  /\ MaxOrders \in Nat \ {0}
  /\ MaxHold \in Nat
  /\ MaxUnits \in Nat
  /\ MaxQueue \in Nat

VARIABLES
  pos,      \* portfolioHolder: the position of each commodity
  nm,       \* the commodities that have a NEXT_MAIN contract
  afford,   \* the hands per unit that cash and ATR allow now
  listed,   \* the keys of ruleMap
  rules,    \* the rules in ruleMap's lists, {} where there is no list
  pc,       \* RuleExecutor: "idle", "pass" or "mark"
  todo,     \* the entries its iterator has still to return
  dirty,    \* ruleMap was restructured since the iterator was created
  lst,      \* trade listener: its step and the message it handles
  cleaner,  \* the CommandCleaner thread is alive
  day,      \* "open", "closed" at the end of the day, "switched" at 15:20
  orders,   \* the orders at work at the exchange
  hold,     \* the hands held at the exchange, by contract and side
  trades,   \* topic.tradedata, in order
  errs      \* topic.trade.err: the number of unread messages of each contract

executorVars == <<pc, todo, dirty>>
listenerVars == <<lst, cleaner>>
portfolioVars == <<pos, nm, afford>>
mapVars == <<listed, rules>>
worldVars == <<day, orders, hold, trades, errs>>
vars == <<portfolioVars, mapVars, executorVars, listenerVars, worldVars>>

-----------------------------------------------------------------------------
(* A rule is an order to give, RuleVO.triggered, RuleVO.old, how long ago  *)
(* RuleVO.triggerTime is, and whether the executor still has to call       *)
(* ruleTriggered on it: "hit" before, "half" between its two assignments.  *)
Rule == [cmd : Command, triggered : BOOLEAN, old : BOOLEAN,
         at : {"never", "now", "past"}, mark : {"no", "hit", "half"}]
NewRule(c) == [cmd |-> c, triggered |-> FALSE, old |-> FALSE,
               at |-> "never", mark |-> "no"]
NewRules(p, full) == {NewRule(c) : c \in GenerateRules(p, full)}

Trade == [key : Keys, op : {Open, Close}, dir : Dirs, vol : Nat, again : BOOLEAN]
WorkingOrder == [id : 1..MaxOrders, key : Keys, cmd : Command, left : Nat]
Idle == [step |-> "idle", msg |-> NoTrade]

TypeOK ==
  /\ pos \in [Symbols -> Position]
  /\ nm \in [Symbols -> BOOLEAN]
  /\ afford \in [Symbols -> HandSizes]
  /\ listed \subseteq Keys
  /\ rules \in [Keys -> SUBSET Rule]
  /\ pc \in {"idle", "pass", "mark"}
  /\ todo \subseteq Keys
  /\ dirty \in BOOLEAN
  /\ lst \in [step : {"clear", "add"}, msg : Trade] \cup {Idle}
  /\ cleaner \in BOOLEAN
  /\ day \in {"open", "closed", "switched"}
  /\ orders \subseteq WorkingOrder
  /\ hold \in [Keys -> [Dirs -> Nat]]
  /\ trades \in Seq(Trade)
  /\ errs \in [Keys -> Nat]

Init ==
  /\ pos = [s \in Symbols |-> NewPosition]
  /\ nm = [s \in Symbols |-> FALSE]
  /\ afford \in [Symbols -> HandSizes]
  /\ listed = {}
  /\ rules = [k \in Keys |-> {}]
  /\ pc = "idle" /\ todo = {} /\ dirty = FALSE
  /\ lst = Idle
  /\ cleaner = TRUE
  /\ day = "open"
  /\ orders = {}
  /\ hold = [k \in Keys |-> [d \in Dirs |-> 0]]
  /\ trades = <<>>
  /\ errs = [k \in Keys |-> 0]

NeverTriggered(k) == FALSE  \* mutant: nobody waits for an answer
HasTriggered(k) == \E r \in rules[k] : r.triggered
HasOld(k) == \E r \in rules[k] : r.old
Marked(k) == \E r \in rules[k] : r.mark # "no"

Sized(s) == UpdateHandPerUnit(pos[s], IsFullPortfolio(pos), afford[s])
Replace(k, r, new) == [rules EXCEPT ![k] = (@ \ {r}) \cup {new}]
(* What is left of the map's lists without the list of key.                *)
WithAll(key) == rules  \* mutant: the old rules stay
Without(key) == [rules EXCEPT ![key] = {}]

(* The command of a commodity on its way to the exchange and back.         *)
AtWork(s) == {o \in orders : o.key.sym = s}
Unread(s) == {i \in DOMAIN trades : trades[i].key.sym = s}
Handling(s) == lst.step # "idle" /\ lst.msg.key.sym = s
Settled(s) == AtWork(s) = {} /\ Unread(s) = {} /\ ~Handling(s)
Answered(s) == Settled(s) /\ \A k \in Keys : k.sym = s => errs[k] = 0

KeepMark(r) == r  \* mutant: the executor still marks after an exception
Unmark(r) == [r EXCEPT !.mark = "no"]

(* The map is restructured between the rounds only, unless "midpass".      *)
Undisturbed == pc = "pass" => "midpass" \in Env

-----------------------------------------------------------------------------
(* RuleExecutor.                                                           *)

(* strategy.initRules on an empty map: the positions in done get their     *)
(* rules; a failing generation leaves the rest of them without a list.     *)
InitRules(done) ==
  LET full == IsFullPortfolio(pos)
      sized == [s \in Symbols |-> IF s \in done THEN Sized(s) ELSE pos[s]]
      keyOf(s) == RuleKey(s, sized[s])
  IN /\ pos' = sized
     /\ listed' = {keyOf(s) : s \in done}
     /\ rules' = [k \in Keys |->
          IF \E s \in done : k = keyOf(s)
          THEN NewRules(sized[k.sym], full) ELSE {}]
     /\ UNCHANGED <<nm, afford>>

InitOnlyWhenEmpty == listed = {}  \* mutant: no refresh in the evening
NeedsInit == listed = {} \/ day = "switched"

(* A round begins.  In the first one after the evening getRuleMap empties  *)
(* the map.                                                                *)
StartPass ==
  /\ pc = "idle"
  /\ day # "closed"
  /\ IF NeedsInit
     THEN /\ \E done \in SUBSET Symbols :
               /\ "genfail" \notin Env => done = Symbols
               /\ InitRules(done)
          /\ UNCHANGED executorVars
     ELSE /\ pc' = "pass"
          /\ todo' = listed
          /\ dirty' = FALSE
          /\ UNCHANGED <<portfolioVars, mapVars>>
  /\ day' = "open"
  /\ UNCHANGED <<listenerVars, orders, hold, trades, errs>>

(* The iterator returns the entry of k, as long as the map is as it was.   *)
Visit(k) ==
  /\ pc = "pass"
  /\ k \in todo
  /\ ~dirty
  /\ todo' = todo \ {k}
  /\ UNCHANGED <<pc, dirty, listenerVars, listed, nm, afford, day, hold, trades, errs>>

(* An empty list is filled; generateRulesOnContract answers with an empty  *)
(* list when the contract has no position or an exception is thrown.       *)
VisitEmpty(k) ==
  /\ Visit(k)
  /\ rules[k] = {}
  /\ \/ /\ pos[k.sym].gen = k.gen
        /\ pos' = [pos EXCEPT ![k.sym] = Sized(k.sym)]
        /\ rules' = [rules EXCEPT ![k] =
             NewRules(Sized(k.sym), IsFullPortfolio(pos))]
     \/ /\ pos[k.sym].gen # k.gen \/ "genfail" \in Env
        /\ UNCHANGED <<pos, rules>>
  /\ UNCHANGED orders

FreeId == CHOOSE i \in 1..MaxOrders : \A o \in orders : o.id # i

(* The condition of a rule holds: its command goes to the thread pool and  *)
(* through the gateway to the exchange, the rule is kept for marking.      *)
VisitFire(k, r) ==
  /\ Visit(k)
  /\ r \in rules[k]
  /\ ~HasTriggered(k)
  /\ \E i \in 1..MaxOrders : \A o \in orders : o.id # i
  /\ orders' = orders \cup
       {[id |-> FreeId, key |-> k, cmd |-> r.cmd, left |-> r.cmd.vol]}
  /\ rules' = Replace(k, r, [r EXCEPT !.mark = "hit"])
  /\ UNCHANGED pos

(* No condition holds, or the list waits for the answer to its command.    *)
VisitQuiet(k) ==
  /\ Visit(k)
  /\ rules[k] # {}
  /\ HasTriggered(k) => ~HasOld(k)
  /\ UNCHANGED <<pos, rules, orders>>

VisitOld(k) ==
  /\ Visit(k)
  /\ HasTriggered(k)
  /\ HasOld(k)
  /\ rules' = Without(k)
  /\ UNCHANGED <<pos, orders>>

(* The map was restructured: the iterator throws, the round is given up    *)
(* and with it the list of the rules to mark.                              *)
PassFails ==
  /\ pc = "pass"
  /\ todo # {}
  /\ dirty
  /\ pc' = "idle"
  /\ todo' = {}
  /\ dirty' = FALSE
  /\ rules' = [k \in Keys |-> {Unmark(r) : r \in rules[k]}]
  /\ UNCHANGED <<portfolioVars, listed, listenerVars, worldVars>>

EndPass ==
  /\ pc = "pass"
  /\ todo = {}
  /\ pc' = "mark"
  /\ dirty' = FALSE
  /\ UNCHANGED <<todo, portfolioVars, mapVars, listenerVars, worldVars>>

(* strategy.ruleTriggered: triggered first, then triggerTime.              *)
MarkTriggered(k, r) ==
  /\ pc = "mark"
  /\ \A l \in Keys : \A x \in rules[l] : x.mark # "half"
  /\ r \in rules[k]
  /\ r.mark = "hit"
  /\ rules' = Replace(k, r,
       IF "race" \in Env
       THEN [r EXCEPT !.triggered = TRUE, !.mark = "half"]
       ELSE [r EXCEPT !.triggered = TRUE, !.at = "now", !.mark = "no"])
  /\ UNCHANGED <<executorVars, portfolioVars, listed, listenerVars, worldVars>>

MarkTime(k, r) ==
  /\ pc = "mark"
  /\ r \in rules[k]
  /\ r.mark = "half"
  /\ rules' = Replace(k, r, [r EXCEPT !.at = "now", !.mark = "no"])
  /\ UNCHANGED <<executorVars, portfolioVars, listed, listenerVars, worldVars>>

EndMark ==
  /\ pc = "mark"
  /\ \A k \in Keys : ~Marked(k)
  /\ pc' = "idle"
  /\ UNCHANGED <<todo, dirty, portfolioVars, mapVars, listenerVars, worldVars>>

Executor ==
  \/ StartPass
  \/ PassFails
  \/ EndPass
  \/ EndMark
  \/ \E k \in Keys :
       \/ VisitEmpty(k)
       \/ VisitQuiet(k)
       \/ VisitOld(k)
       \/ \E r \in rules[k] :
            VisitFire(k, r) \/ MarkTriggered(k, r) \/ MarkTime(k, r)

-----------------------------------------------------------------------------
(* The trade listener, StrategyImpl.onCommand.                             *)

(* The position a report is about: the one on its contract, or the one of  *)
(* its commodity when the contract is the next main one.                   *)
Resolves(t) ==
  LET p == pos[t.key.sym]
  IN t.key.gen = p.gen \/ (nm[t.key.sym] /\ t.key.gen = p.gen + 1)

(* doMainSwitch takes the contract from the next main ones.                *)
StaysNext(s, p) == nm[s]  \* mutant: the switched contract stays NEXT_MAIN
StillNext(s, p) == nm[s] /\ p.gen = pos[s].gen

OnTrade ==
  /\ trades # <<>>
  /\ lst.step = "idle"
  /\ LET t == Head(trades)
         s == t.key.sym
         p == UpdatePosition(pos[s], t)
     IN /\ Resolves(t)
        /\ p.units <= MaxUnits
        /\ pos' = [pos EXCEPT ![s] = p]
        /\ nm' = [nm EXCEPT ![s] = StillNext(s, p)]
        /\ IF Settles(pos[s], t) THEN afford' \in [Symbols -> HandSizes]
                                 ELSE UNCHANGED afford
        /\ lst' = [step |-> "clear", msg |-> t]
  /\ trades' = Tail(trades)
  /\ UNCHANGED <<mapVars, executorVars, cleaner, day, orders, hold, errs>>

(* No position: updatePosition throws before it changes anything.          *)
DropTrade ==
  /\ trades # <<>>
  /\ lst.step = "idle"
  /\ ~Resolves(Head(trades))
  /\ trades' = Tail(trades)
  /\ UNCHANGED <<portfolioVars, mapVars, executorVars, listenerVars,
                 day, orders, hold, errs>>

(* A change of ruleMap's keys, seen by an iterator at work.                *)
Restructure(keys) ==
  /\ listed' = keys
  /\ dirty' = (dirty \/ (pc = "pass" /\ keys # listed))

ClearContractRule ==
  /\ lst.step = "clear"
  /\ Undisturbed
  /\ Restructure(listed \ {lst.msg.key})
  /\ rules' = Without(lst.msg.key)
  /\ lst' = [lst EXCEPT !.step = "add"]
  /\ UNCHANGED <<portfolioVars, pc, todo, cleaner, worldVars>>

(* The position's new rules are added; a list that is not there is created *)
(* only for a rule to be put into it.                                      *)
AddRules ==
  /\ lst.step = "add"
  /\ Undisturbed
  /\ LET s == lst.msg.key.sym
         p == Sized(s)
         fresh == NewRules(p, IsFullPortfolio(pos))
         k == RuleKey(s, p)
     IN /\ pos' = [pos EXCEPT ![s] = p]
        /\ rules' = [rules EXCEPT ![k] = @ \cup fresh]
        /\ Restructure(IF fresh = {} THEN listed ELSE listed \cup {k})
  /\ lst' = Idle
  /\ UNCHANGED <<nm, afford, pc, todo, cleaner, worldVars>>

(* The exception leaves the listener, the broker delivers the message      *)
(* again (MaxRedeliveries = 1).                                            *)
AddRulesFails ==
  /\ "genfail" \in Env
  /\ lst.step = "add"
  /\ trades' = IF lst.msg.again THEN trades
               ELSE <<[lst.msg EXCEPT !.again = TRUE]>> \o trades
  /\ lst' = Idle
  /\ UNCHANGED <<portfolioVars, mapVars, executorVars, cleaner,
                 day, orders, hold, errs>>

Listener == OnTrade \/ DropTrade \/ ClearContractRule \/ AddRules \/ AddRulesFails

-----------------------------------------------------------------------------
(* The error listener, StrategyImpl.onCommandFailed.                       *)
Untriggered(l) == {[r EXCEPT !.triggered = FALSE] : r \in l}
AllUntriggered(k) ==  \* mutant: the rules of every contract
  [l \in Keys |-> Untriggered(rules[l])]
AfterFailure(k) == [rules EXCEPT ![k] = Untriggered(@)]

OnCommandFailed(k) ==
  /\ errs[k] > 0
  /\ errs' = [errs EXCEPT ![k] = @ - 1]
  /\ rules' = AfterFailure(k)
  /\ UNCHANGED <<portfolioVars, listed, executorVars, listenerVars,
                 day, orders, hold, trades>>

(* CommandCleaner, at its times of the trading day.  A triggered rule      *)
(* without a trigger time kills it.                                        *)
SetNothingOld(l) == l  \* mutant: no rule is ever set old
SetOld(l) == {[r EXCEPT !.old = @ \/ (r.triggered /\ r.at = "past")] : r \in l}

ClearOutstandingCommands(k) ==
  /\ cleaner
  /\ day = "open"
  /\ \E r \in rules[k] : r.triggered /\ r.at # "now" /\ ~r.old
  /\ cleaner' = ~(\E r \in rules[k] : r.triggered /\ r.at = "never")
  /\ rules' = [rules EXCEPT ![k] = SetOld(@)]
  /\ UNCHANGED <<portfolioVars, listed, executorVars, lst, worldVars>>

(* MainSwitcher, 15:20: doMainScan, doMainSwitch, startForceSwitch.  The   *)
(* last one knows the next main contracts of the last refresh only.        *)
OldAnyway(s) == pos[s].dir # Blank  \* mutant: no next contract needed
IsPositionOld(s) == nm[s] /\ pos[s].dir # Blank /\ pos[s].status = Active

MainSwitcherRun(scanned, aged) ==
  /\ day = "closed"
  /\ "switch" \notin Env => scanned = {} /\ aged = {}
  /\ \A s \in scanned : ~nm[s] /\ pos[s].gen < MaxGen
  /\ \A s \in aged : IsPositionOld(s)
  /\ LET flat == {s \in Symbols : (nm[s] \/ s \in scanned) /\ pos[s].dir = Blank}
     IN /\ nm' = [s \in Symbols |-> (nm[s] \/ s \in scanned) /\ s \notin flat]
        /\ pos' = [s \in Symbols |->
             CASE s \in flat -> [pos[s] EXCEPT !.gen = @ + 1]
               [] s \in aged -> [pos[s] EXCEPT !.status = Expire]
               [] OTHER      -> pos[s]]
  /\ LET gone == {Key(s, pos[s].gen) : s \in aged}
     IN /\ listed' = listed \ gone
        /\ rules' = [k \in Keys |-> IF k \in gone THEN {} ELSE rules[k]]
  /\ day' = "switched"
  /\ UNCHANGED <<afford, executorVars, listenerVars, orders, hold, trades, errs>>

-----------------------------------------------------------------------------
(* The outside world.                                                      *)

(* CTP accepts a close only of what is held, an open only within margin.   *)
HandsHeld == MapThenSumSet(LAMBDA k : hold[k][Long] + hold[k][Short], Keys)
Fillable(o, q) ==
  IF o.cmd.op = Open THEN HandsHeld + q <= MaxHold
                     ELSE hold[o.key][o.cmd.dir] >= q
Held(o, q) ==
  [hold EXCEPT ![o.key][o.cmd.dir] =
     IF o.cmd.op = Open THEN @ + q ELSE IF @ >= q THEN @ - q ELSE 0]
Executes(o, q) ==
  /\ q <= o.left
  /\ q < o.left => "partial" \in Env
  /\ Fillable(o, q)
  /\ hold' = Held(o, q)
  /\ orders' = (orders \ {o}) \cup
       (IF q = o.left THEN {} ELSE {[o EXCEPT !.left = @ - q]})

Fill(o, q) ==
  /\ Len(trades) < MaxQueue
  /\ Executes(o, q)
  /\ trades' = Append(trades, [key |-> o.key, op |-> o.cmd.op,
                               dir |-> o.cmd.dir, vol |-> q, again |-> FALSE])
  /\ UNCHANGED <<portfolioVars, mapVars, executorVars, listenerVars, day, errs>>

FillUnseen(o, q) ==
  /\ "losttrade" \in Env
  /\ Executes(o, q)
  /\ UNCHANGED <<portfolioVars, mapVars, executorVars, listenerVars,
                 day, trades, errs>>

Reject(o, n) ==
  /\ o.left = o.cmd.vol
  /\ "reject" \in Env \/ ~Fillable(o, o.left)
  /\ n = 2 => "duperr" \in Env
  /\ errs[o.key] + n <= MaxQueue
  /\ orders' = orders \ {o}
  /\ errs' = [errs EXCEPT ![o.key] = @ + n]
  /\ UNCHANGED <<portfolioVars, mapVars, executorVars, listenerVars,
                 day, hold, trades>>

Vanish(o) ==
  /\ "vanish" \in Env
  /\ orders' = orders \ {o}
  /\ UNCHANGED <<portfolioVars, mapVars, executorVars, listenerVars,
                 day, hold, trades, errs>>

Quiet == /\ trades = <<>> /\ lst.step = "idle"
         /\ \A k \in Keys : errs[k] = 0

(* Three minutes pass for a commodity.  Without "slow" what the exchange   *)
(* had to say to an order of it was said before.                           *)
Age(s) ==
  /\ day = "open"
  /\ \E k \in Keys : k.sym = s /\ \E r \in rules[k] : r.at = "now"
  /\ "slow" \in Env \/ Answered(s)
  /\ rules' = [k \in Keys |->
       {[r EXCEPT !.at = IF @ = "now" /\ k.sym = s THEN "past" ELSE @] :
          r \in rules[k]}]
  /\ UNCHANGED <<portfolioVars, listed, executorVars, listenerVars, worldVars>>

(* 15:00: orders are good for the day, the weekly ATR update may resize.   *)
DayEnd ==
  /\ day = "open"
  /\ pc = "idle"
  /\ Quiet
  /\ day' = "closed"
  /\ orders' = {}
  /\ afford' \in [Symbols -> HandSizes]
  /\ UNCHANGED <<pos, nm, mapVars, executorVars, listenerVars, hold, trades, errs>>

World ==
  \/ DayEnd
  \/ \E s \in Symbols : Age(s)
  \/ \E o \in orders :
       \/ Vanish(o)
       \/ \E n \in {1, 2} : Reject(o, n)
       \/ \E q \in 1..o.left : Fill(o, q) \/ FillUnseen(o, q)

-----------------------------------------------------------------------------
Next ==
  \/ Executor
  \/ Listener
  \/ \E k \in Keys : OnCommandFailed(k) \/ ClearOutstandingCommands(k)
  \/ \E scanned, aged \in SUBSET Symbols : MainSwitcherRun(scanned, aged)
  \/ World

Spec == Init /\ [][Next]_vars

(* The threads run for ever: the executor's rounds, the two listeners, the *)
(* cleaner at its times of the trading day, and the clock.  Nothing is     *)
(* asked of the exchange, which may leave an order at work.  SF for the    *)
(* listener: it never waits for the executor, without "midpass" the model  *)
(* only looks at the days on which it happens to act between the rounds.   *)
FairDay ==
  /\ WF_vars(Executor)
  /\ SF_vars(Listener)
  /\ \A s \in Symbols : WF_vars(Age(s))
  /\ \A k \in Keys : /\ WF_vars(OnCommandFailed(k))
                     /\ WF_vars(ClearOutstandingCommands(k))
DaySpec == Spec /\ FairDay

-----------------------------------------------------------------------------
(* Properties.                                                             *)

(* At most one rule of a contract waits for an answer: a list never has    *)
(* two triggered rules, whatever the outside world does, although marking  *)
(* happens long after sending and the list changes hands between threads.  *)
AtMostOneTriggered ==
  \A k \in Keys : \A r1, r2 \in rules[k] :
    r1.triggered /\ r2.triggered => r1 = r2

(* No second command is given for a commodity before the answer to the     *)
(* first has been worked into its position: the triggered mark does its    *)
(* work over the exchange, the two topics and the three threads.           *)
OneOrderInFlight ==
  \A s \in Symbols :
    Cardinality(AtWork(s)) + Cardinality(Unread(s))
      + (IF Handling(s) /\ lst.step = "clear" THEN 1 ELSE 0) <= 1

(* The hands of a commodity, as the portfolio and as the account has them. *)
BookOf(p) ==
  [k \in [gen : Gens, dir : Dirs] |->
     IF p.gen = k.gen /\ p.dir = k.dir /\ p.status # Refresh
     THEN Hands(p) ELSE 0]
Booked(s) == BookOf(pos[s])
Owned(s) == [k \in [gen : Gens, dir : Dirs] |-> hold[Key(s, k.gen)][k.dir]]

(* Whenever no command of a commodity is under way, the portfolio agrees   *)
(* with the account: the position's hands on its contract and side, none   *)
(* anywhere else, nothing at all between the halves of a main switch.      *)
LedgerMatchesExchange ==
  \A s \in Symbols : Settled(s) => Booked(s) = Owned(s)

(* The portfolio is a Ledger: every step of the threads and of the world   *)
(* asks, executes, enters one report or leaves book and account alone.     *)
(* The book has nothing between the halves of a main switch.               *)
Portfolio == INSTANCE Ledger WITH
  asked <- {s \in Symbols : AtWork(s) # {}},
  reported <- {s \in Symbols : Unread(s) # {}},
  account <- [s \in Symbols |-> Owned(s)],
  book <- [s \in Symbols |-> Booked(s)]
LedgerKept == Portfolio!Spec

(* The listener leaves no rule behind that the position no longer asks     *)
(* for: every rule in the map is one that would be generated now, in the   *)
(* list of the contract it is for (onCommand clears one list, fills one).  *)
(* The rules of the evening are refreshed before the next round.           *)
RulesFitPosition ==
  \A k \in Keys : \A r \in rules[k] : day = "open" /\ ~Handling(k.sym) =>
    /\ k = RuleKey(k.sym, pos[k.sym])
    /\ r.cmd \in GenerateRules(pos[k.sym], FALSE)

(* A position has units iff it has a direction, and a position being       *)
(* switched has both and a next main contract to go to.                    *)
PositionWellFormed ==
  \A s \in Symbols :
    /\ pos[s].units = 0 <=> pos[s].dir = Blank
    /\ pos[s].status # Active => pos[s].dir # Blank /\ nm[s]

(* A unit is added to a position at most once (StrategyImpl.java:49).      *)
UnitsAtMostTwo == \A s \in Symbols : pos[s].units <= 2

(* The invariant that keeps AtMostOneTriggered: a list has at most one     *)
(* rule that is triggered or about to be, and the executor keeps no rule   *)
(* to mark but between the visit of its list and the end of the round.     *)
Pending(r) == r.triggered \/ r.mark # "no"
RuleMarks ==
  /\ \A k \in Keys : \A r1, r2 \in rules[k] :
       Pending(r1) /\ Pending(r2) => r1 = r2
  /\ pc = "idle" => \A k \in Keys : \A r \in rules[k] : r.mark = "no"
  /\ pc = "pass" => \A k \in Keys : \A r \in rules[k] :
       r.mark # "half" /\ (k \in todo => r.mark = "no")

(* A position under a main switch has hands to move and a next main        *)
(* contract to move them to, and only a contract that has a successor does *)
(* (getNextMainContract is dereferenced without a test, StrategyImpl:218). *)
SwitchWellFormed ==
  \A s \in Symbols :
    /\ nm[s] => pos[s].gen < MaxGen
    /\ pos[s].status # Active => nm[s] /\ pos[s].dir # Blank

(* CommandCleaner.java:39: a command that got no answer does not block its *)
(* contract for the rest of the day; the cleaner sets the rule old, the    *)
(* executor clears the list and generates it again, as long as the cleaner *)
(* lives (with "race" it may meet a rule without trigger time and end).    *)
Outstanding(k) ==
  /\ day = "open"
  /\ cleaner
  /\ HasTriggered(k)
  /\ Answered(k.sym)
OutstandingCleared == \A k \in Keys : Outstanding(k) ~> ~Outstanding(k)

(* A contract whose list was not put back (no rule was generated when its  *)
(* last command was answered) is watched again after the evening refresh,  *)
(* if the days go on.                                                      *)
Unwatched(s) == RuleKey(s, pos[s]) \notin listed
UnwatchedRestored ==
  []<>(day = "switched") => \A s \in Symbols : Unwatched(s) ~> ~Unwatched(s)

(* A close command is for what the account holds, no more and no less.     *)
ClosesWhatIsHeld ==
  [][\A o \in orders' \ orders :
       o.cmd.op = Close => hold[o.key][o.cmd.dir] = o.cmd.vol]_vars

=============================================================================
