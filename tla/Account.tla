------------------------------- MODULE Account -------------------------------
(***************************************************************************)
(* The money of one position: the prices at which StrategyImpl enters,     *)
(* adds and stops, the size it takes, and the cash it books, over days of  *)
(* moving prices.  RuleLoop has the threads and leaves the prices out,     *)
(* here an order is given and traded in one step.                          *)
(*                                                                         *)
(* Prices are integers, the value of a point is 1.  A direction is 1 for   *)
(* LONG and -1 for SHORT, 0 for none: the branches of the code for LONG    *)
(* and SHORT mirror each other.                                            *)
(***************************************************************************)
EXTENDS Integers, Sequences, FiniteSetsExt

CONSTANTS
  Prices,     \* the prices the market may move to
  Start,      \* the first of them
  Atrs,       \* the values that a refresh may give the ATR
  Cash0,      \* the cash at the start
  OpenBars,   \* OPEN_BAR_SIZE, the bars of a break-out (20)
  CloseBars,  \* CLOSE_BAR_SIZE, the bars of a take-profit (10)
  DaysToUrge, \* days2Urge (20)
  RiskShare,  \* a unit is sized by one RiskShare-th of the cash (200)
  Slip,       \* how much worse than the price closing and switching deals are
  Gaps,       \* how far the next main contract is from the old
  MaxDays,    \* bound: days
  MaxMoves,   \* bound: moves of the price, entries and switches
  MaxStep,    \* bound: how far the price moves at once
  Env         \* "switch": the main contract changes; "atr": the ATR changes

ASSUME AccountAssumption ==
  /\ Prices \subseteq Nat /\ Start \in Prices
  /\ Atrs \subseteq Nat \ {0} /\ Atrs # {}
  /\ {Cash0, Slip, MaxDays, MaxMoves, MaxStep} \subseteq Nat
  /\ {OpenBars, CloseBars, DaysToUrge, RiskShare} \subseteq Nat \ {0}
  /\ CloseBars <= OpenBars /\ DaysToUrge <= OpenBars /\ Gaps \subseteq Int
  /\ Env \subseteq {"switch", "atr"}

VARIABLES
  price,    \* ContractVO.currentBar: the close price of the position's contract
  today,    \* highest and lowest price of the day
  bars,     \* ContractHolder.getBarHist: the past days, the latest first
  day, moves,
  atr,      \* ContractMetaVO.atr
  pos,      \* the PositionVO; cost is its average price times its units
  rule,     \* the prices of the rules in the map
  cash,     \* PortfolioVO.cash
  flows,    \* history: what the exchange paid and took
  closedAt, \* history: at what price a main switch closed the old contract
  drift     \* history: what main switches left out of the books

market == <<price, today, bars, day, moves, atr>>
vars == <<market, pos, rule, cash, flows, closedAt, drift>>

Abs(x) == IF x < 0 THEN -x ELSE x
(* The better of two stop prices: the higher for LONG.                     *)
Tighter(dir, x, y) == IF dir * x >= dir * y THEN x ELSE y

NoPosition == [dir |-> 0, units |-> 0, hand |-> 0, cost |-> 0, last |-> 0,
               lastIn |-> 0, top |-> 0, atr |-> 0, status |-> "A"]

TypeOK ==
  /\ today \in [high : Prices, low : Prices]
  /\ Len(bars) <= OpenBars
  /\ atr \in Atrs
  /\ pos.dir \in {-1, 0, 1} /\ pos.units \in 0..2 /\ pos.hand \in Int
  /\ pos.status \in {"A", "E", "R"}
  /\ pos.dir = 0 <=> pos.units = 0
  /\ pos.units = 0 => pos.cost = 0 /\ pos.top = 0 /\ pos.atr = 0
  /\ pos.top \in Prices \cup {0}

-----------------------------------------------------------------------------
(* StrategyUtils.                                                          *)

(* The ATR of the entry is kept while the position lasts.                  *)
MetaAtr(p, a) == a  \* mutant: the position follows every refresh
GetAtr(p, a) == IF p.atr > 0 THEN p.atr ELSE a

Highest(s) == Max({s[i].high : i \in DOMAIN s})
Lowest(s) == Min({s[i].low : i \in DOMAIN s})
First(s, n) == SubSeq(s, 1, IF n < Len(s) THEN n ELSE Len(s))
GetPricePoint(s) ==
  [openLong   |-> Highest(First(s, OpenBars)),
   openShort  |-> Lowest(First(s, OpenBars)),
   closeLong  |-> Lowest(First(s, CloseBars)),
   closeShort |-> Highest(First(s, CloseBars))]

(* The bars after the day of the last entry, not more than natural days.   *)
OldBars(s, lastIn) == {i \in DOMAIN s : s[i].day <= lastIn}
LastIndex(s, lastIn, days) ==  \* mutant: no older bar, the last index
  Min({days, IF OldBars(s, lastIn) = {} THEN Len(s) - 1
             ELSE Min(OldBars(s, lastIn)) - 1})
GetPassedBars(s, lastIn, days) ==
  Min({days, IF OldBars(s, lastIn) = {} THEN Len(s)
             ELSE Min(OldBars(s, lastIn)) - 1})

KeepTop(p) == [NoPosition EXCEPT !.hand = p.hand, !.top = p.top]  \* mutant
ResetPosition(p) == [NoPosition EXCEPT !.hand = p.hand]

(* Of the cash (the comment at StrategyImpl.java 53 names the stop-loss    *)
(* equity).                                                                *)
HandPerUnit(c, a) == c \div (RiskShare * 2 * a)

-----------------------------------------------------------------------------
(* StrategyImpl.generateRulesOnContract of position p in market m.         *)

(* generateCloseRules: 2 ATR from the last entry, none once the position   *)
(* is old; half the way of the best price after it; in profit by 2 ATR the *)
(* opposite extreme of CloseBars days instead.                             *)
Urge(p, m) ==
  IF GetPassedBars(m.bars, p.lastIn, m.day - 1 - p.lastIn) >= DaysToUrge
  THEN 2 * GetAtr(p, m.atr) ELSE 0
StopLoss(p, m) == p.last - p.dir * (2 * GetAtr(p, m.atr) - Urge(p, m))

EveryAtr(p, a) ==  \* mutant: follows the best price by 1 ATR of each
  Abs(p.top - p.last) \div GetAtr(p, a)
AdjustAtr(p, a) == Abs(p.top - p.last) \div (2 * GetAtr(p, a))
TopStopLossPrice(p, m) ==
  p.last - p.dir * (2 - AdjustAtr(p, m.atr)) * GetAtr(p, m.atr)
HasTopStop(p, m) == p.top > 0 /\ AdjustAtr(p, m.atr) >= 1

InProfit(p, m) == p.dir * (m.price - p.last) >= 2 * GetAtr(p, m.atr)
TakeProfit(p, m) ==
  IF p.dir = 1 THEN GetPricePoint(m.bars).closeLong
               ELSE GetPricePoint(m.bars).closeShort

StopPrice(p, m) ==
  CASE InProfit(p, m)   -> Tighter(p.dir, TakeProfit(p, m), StopLoss(p, m))
    [] ~InProfit(p, m) /\ HasTopStop(p, m)
                        -> Tighter(p.dir, StopLoss(p, m), TopStopLossPrice(p, m))
    [] OTHER            -> StopLoss(p, m)

(* History: what a stop price comes from.  The best price is "lagging"     *)
(* when it was not updated since a unit was added beyond it.               *)
StopBasis(p, m) ==
  CASE InProfit(p, m) -> "extreme"
    [] ~InProfit(p, m) /\ HasTopStop(p, m) /\ p.dir * p.top < p.dir * p.last
                      -> "lagging"
    [] OTHER          -> "trail"

(* The close rule, and the open rules of an empty position; those of a     *)
(* main switch have no price.  "none" fills what a rule does not have.     *)
NoRule == [kind |-> "none", stop |-> 0, basis |-> "none", long |-> 0, short |-> 0]
GenerateRules(p, m) ==
  CASE p.status # "A"  -> NoRule
    [] p.status = "A" /\ p.units = 0 ->
         [NoRule EXCEPT !.kind = "open",
                        !.long = GetPricePoint(m.bars).openLong,
                        !.short = GetPricePoint(m.bars).openShort]
    [] OTHER ->
         [NoRule EXCEPT !.kind = "close", !.stop = StopPrice(p, m),
                        !.basis = StopBasis(p, m)]

(* generateOpenRules sizes an empty position first.                        *)
UpdateHandPerUnit(p, c, a) ==
  IF p.status = "A" /\ p.units = 0
  THEN [p EXCEPT !.hand = HandPerUnit(c, a)] ELSE p

(* onCommand and initRules: position p with cash c, and its new rules.     *)
Refresh(p, c, m) ==
  LET q == UpdateHandPerUnit(p, c, m.atr)
  IN pos' = q /\ cash' = c /\ rule' = GenerateRules(q, m)

Market == [price |-> price, bars |-> bars, day |-> day, atr |-> atr]

-----------------------------------------------------------------------------
Init ==
  \E a \in Atrs :
    LET flat == [high |-> Start, low |-> Start]
        past == [i \in 1..OpenBars |-> [day |-> 1 - i, high |-> Start, low |-> Start]]
        m == [price |-> Start, bars |-> past, day |-> 1, atr |-> a]
        q == UpdateHandPerUnit(NoPosition, Cash0, a)
    IN /\ price = Start /\ today = flat /\ bars = past
       /\ day = 1 /\ moves = 0 /\ atr = a
       /\ pos = q /\ cash = Cash0 /\ rule = GenerateRules(q, m)
       /\ flows = 0 /\ closedAt = 0 /\ drift = 0

(* External: the price of the day.                                         *)
Move(p) ==
  /\ moves < MaxMoves
  /\ p # price /\ Abs(p - price) <= MaxStep
  /\ price' = p /\ moves' = moves + 1
  /\ today' = [high |-> Max({today.high, p}), low |-> Min({today.low, p})]
  /\ UNCHANGED <<bars, day, atr, pos, rule, cash, flows, closedAt, drift>>

(* The evening: the day's bar is in the history, a weekly run may have     *)
(* refreshed the ATR after the close, the rules are generated again.       *)
NextDay(a) ==
  /\ day < MaxDays
  /\ a = atr \/ "atr" \in Env
  /\ day' = day + 1 /\ atr' = a
  /\ bars' = First(<<[day |-> day, high |-> today.high, low |-> today.low]>>
                     \o bars, OpenBars)
  /\ today' = [high |-> price, low |-> price]
  /\ Refresh(pos, cash, [price |-> price, bars |-> bars', day |-> day', atr |-> a])
  /\ UNCHANGED <<price, moves, flows, closedAt, drift>>

(* updatePositionTopPrice: every minute, and at 15:10.                     *)
ClosePrice(p, x) == x  \* mutant: the latest price instead of the best
TopPrice(p, x) == IF p.top = 0 THEN x ELSE Tighter(p.dir, x, p.top)
UpdateTopPrice ==
  /\ pos.dir # 0
  /\ pos' = [pos EXCEPT !.top = TopPrice(pos, price)]
  /\ UNCHANGED <<market, rule, cash, flows, closedAt, drift>>

-----------------------------------------------------------------------------
(* Orders and their trades (updatePosition).                               *)
Meet(dir, trigger) == dir * price >= dir * trigger
Deal(dir) == price - dir * Slip  \* of leaving a position in direction dir

(* When the cash is overdrawn the size is negative; the order is given all *)
(* the same and the front refuses it.                                      *)
Open(dir) ==
  /\ moves < MaxMoves
  /\ pos.status = "A" /\ pos.units = 0 /\ pos.hand > 0
  /\ Meet(dir, IF dir = 1 THEN rule.long ELSE rule.short)
  /\ Refresh([pos EXCEPT !.dir = dir, !.units = 1, !.cost = price,
                         !.last = price, !.lastIn = day, !.atr = atr],
             cash, Market)
  /\ flows' = flows - dir * price * pos.hand
  /\ moves' = moves + 1
  /\ UNCHANGED <<price, today, bars, day, atr, closedAt, drift>>

AddTrigger(p, a) == p.last + p.dir * GetAtr(p, a)
Add ==
  /\ pos.status = "A" /\ pos.units = 1
  /\ Meet(pos.dir, AddTrigger(pos, atr))
  /\ Refresh([pos EXCEPT !.units = 2, !.cost = @ + price,
                         !.last = price, !.lastIn = day],
             cash, Market)
  /\ flows' = flows - pos.dir * price * pos.hand
  /\ UNCHANGED <<market, closedAt, drift>>

(* updateCashWhenEmpty.                                                    *)
CashAmount(p, deal) == p.dir * (deal * p.units - p.cost) * p.hand

Stop ==
  /\ pos.status = "A" /\ pos.units > 0
  /\ Meet(-pos.dir, rule.stop)
  /\ LET deal == Deal(pos.dir)
     IN /\ Refresh(ResetPosition(pos), cash + CashAmount(pos, deal), Market)
        /\ flows' = flows + pos.dir * deal * pos.units * pos.hand
  /\ UNCHANGED <<market, closedAt, drift>>

(* A main switch: EXPIRE, the old contract is closed (REFRESH), the new    *)
(* one opened, whose prices are gap away.  The deals are not booked, the   *)
(* entry prices move by the gap between the two current bars.              *)
StartForceSwitch ==
  /\ "switch" \in Env /\ moves < MaxMoves
  /\ pos.status = "A" /\ pos.dir # 0
  /\ pos' = [pos EXCEPT !.status = "E"]
  /\ rule' = NoRule
  /\ moves' = moves + 1
  /\ UNCHANGED <<price, today, bars, day, atr, cash, flows, closedAt, drift>>

CloseOld ==
  /\ pos.status = "E"
  /\ Refresh([pos EXCEPT !.status = "R"], cash, Market)
  /\ closedAt' = Deal(pos.dir)
  /\ flows' = flows + pos.dir * Deal(pos.dir) * pos.units * pos.hand
  /\ UNCHANGED <<market, drift>>

ShiftEntryOnly(p, gap) ==  \* mutant: the average stays
  [p EXCEPT !.status = "A", !.last = @ + gap, !.top = 0]
ShiftEntry(p, gap) ==
  [p EXCEPT !.status = "A", !.last = @ + gap, !.cost = @ + gap * p.units, !.top = 0]

Shifted(b, gap) == [b EXCEPT !.high = @ + gap, !.low = @ + gap]
OpenNew(gap) ==
  /\ pos.status = "R"
  /\ {price, today.high, today.low} \subseteq {x - gap : x \in Prices}
  /\ price' = price + gap
  /\ today' = Shifted(today, gap)
  /\ bars' = [i \in DOMAIN bars |-> Shifted(bars[i], gap)]
  /\ Refresh(ShiftEntry(pos, gap), cash,
             [price |-> price', bars |-> bars', day |-> day, atr |-> atr])
  /\ LET deal == price + gap + pos.dir * Slip
         hands == pos.dir * pos.units * pos.hand
     IN /\ flows' = flows - deal * hands
        /\ drift' = drift + hands * ((price - closedAt) + (deal - price'))
  /\ closedAt' = 0
  /\ UNCHANGED <<day, moves, atr>>

Next ==
  \/ \E p \in Prices : Move(p)
  \/ \E a \in Atrs : NextDay(a)
  \/ UpdateTopPrice
  \/ \E dir \in {1, -1} : Open(dir)
  \/ Add \/ Stop
  \/ StartForceSwitch \/ CloseOld
  \/ \E gap \in Gaps : OpenNew(gap)

Spec == Init /\ [][Next]_vars

-----------------------------------------------------------------------------
(* refreshCurrentEquity and refreshStopLossEquity.                         *)
CurrentEquity == cash + CashAmount(pos, price)
StopLossEquity ==
  IF rule.kind = "close" THEN cash + CashAmount(pos, rule.stop) ELSE cash

(* updateCashWhenEmpty, updatePosition, refreshCurrentEquity: the equity   *)
(* is what the exchange paid and what the hands held are worth; only a     *)
(* main switch is not booked, by what the old contract moved between its   *)
(* two deals and what these differ from the bars.                          *)
Unbooked ==
  IF pos.status = "R"
  THEN pos.dir * pos.units * pos.hand * (price - closedAt) ELSE 0
Held == IF pos.status = "R" THEN 0 ELSE pos.dir * pos.units * pos.hand
EquityMatchesExchange ==
  CurrentEquity = Cash0 + flows + Held * price + drift + Unbooked

(* StrategyImpl.java 51: 2 ATR for one unit, and the stop follows by 1 ATR *)
(* when a unit is added, so two units lose at most 3 ATR: at the standing  *)
(* stop, with the ATR of the entry, whatever the market ATR became since.  *)
StopBoundsLoss ==
  rule.kind = "close" =>
    cash - StopLossEquity <= (1 + pos.units) * pos.atr * pos.hand

(* days2Urge: a position that did not move for so many days is stopped at  *)
(* its last entry, though the history is not longer than OpenBars.         *)
UrgeComes ==
  rule.kind = "close" /\ day - pos.lastIn > DaysToUrge
    => pos.dir * (rule.stop - pos.last) >= 0

(* While nothing is traded the stop only moves in the position's favour,   *)
(* except into and out of the 2 ATR of profit, where the extreme of        *)
(* CloseBars days counts, and out of a stop made with a lagging best price.*)
StopTightens ==
  [][ rule.basis = "trail" /\ rule'.basis = "trail"
      /\ pos'.last = pos.last /\ pos'.units = pos.units
      => pos.dir * rule'.stop >= pos.dir * rule.stop ]_<<pos, rule>>

(* StrategyImpl.java 51: with a unit added the stop goes forward, whatever *)
(* the best price had secured for the first one, even if it lags behind    *)
(* the new entry from now on.  Only the stop of an old position is given   *)
(* up again, and that at an extreme.                                       *)
AddTightens ==
  [][ pos.units = 1 /\ pos'.units = 2
      /\ rule.basis = "trail" /\ Urge(pos, Market) = 0
      => pos.dir * rule'.stop >= pos.dir * rule.stop ]_<<pos, rule>>
=============================================================================
