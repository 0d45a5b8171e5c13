--------------------------- MODULE Account_proofs ---------------------------
(***************************************************************************)
(* Proofs about Account, for any prices, sizes, numbers of bars and        *)
(* bounds: cash and equity are what the exchange paid, a stop bounds the   *)
(* loss, an old position is stopped at its entry, and a trailing stop      *)
(* never moves against the position, nor when a unit is added.             *)
(***************************************************************************)
EXTENDS Account, WellFoundedInduction, TLAPS

-----------------------------------------------------------------------------
(* Extremes.  Induction over the number of bars: a smallest number with a  *)
(* sequence that has no highest element does not exist.                    *)
LEMMA LeastNatural ==
  ASSUME NEW T \in SUBSET Nat, T # {}
  PROVE  \E n \in T : \A m \in T : n <= m
<1>1. PICK n \in T : \A m \in T : ~(<<m, n>> \in OpToRel(<, Nat))
  BY NatLessThanWellFounded, WFMin
<1>2. ASSUME NEW m \in T PROVE ~(m < n)
  BY <1>1 DEF OpToRel
<1> QED
  BY <1>2

LEMMA HighestExists ==
  ASSUME NEW n \in Nat \ {0}, NEW f \in [1..n -> Int]
  PROVE  \E i \in 1..n : \A j \in 1..n : f[j] <= f[i]
<1> DEFINE HasHighest(k) == \A g \in [1..k -> Int] :
                              \E i \in 1..k : \A j \in 1..k : g[j] <= g[i]
           T == {k \in Nat \ {0} : ~HasHighest(k)}
<1> SUFFICES ASSUME T # {} PROVE FALSE
  OBVIOUS
<1> HIDE DEF HasHighest
<1>1. PICK k \in T : \A m \in T : k <= m
  BY LeastNatural
<1>0. k \in Nat \ {0} /\ ~HasHighest(k)
  BY <1>1
<1>2. PICK g \in [1..k -> Int] : ~\E i \in 1..k : \A j \in 1..k : g[j] <= g[i]
  BY <1>0 DEF HasHighest
<1>8. ASSUME NEW m \in Nat \ {0}, m < k PROVE HasHighest(m)
  BY <1>0, <1>1, <1>8
<1> HIDE DEF T
<1>3. CASE k = 1
  BY <1>2, <1>3
<1>4. CASE k > 1
  <2> DEFINE h == [i \in 1..(k - 1) |-> g[i]]
  <2>1. k - 1 \in Nat \ {0} /\ k - 1 < k
    BY <1>0, <1>4
  <2>2. h \in [1..(k - 1) -> Int]
    BY <1>0, <1>2
  <2>3. PICK i \in 1..(k - 1) : \A j \in 1..(k - 1) : g[j] <= g[i]
    <3>1. HasHighest(k - 1)
      BY <1>8, <2>1
    <3> HIDE DEF h
    <3>2. PICK i \in 1..(k - 1) : \A j \in 1..(k - 1) : h[j] <= h[i]
      BY <2>2, <3>1 DEF HasHighest
    <3> QED
      BY <3>2 DEF h
  <2> HIDE DEF h
  <2>4. CASE g[k] <= g[i]
    <3>1. ASSUME NEW j \in 1..k PROVE g[j] <= g[i]
      <4>1. j = k \/ j \in 1..(k - 1)
        BY <1>0
      <4> QED
        BY <2>3, <2>4, <4>1
    <3>2. i \in 1..k
      BY <1>0
    <3> QED
      BY <1>2, <3>1, <3>2
  <2>5. CASE ~(g[k] <= g[i])
    <3>1. g[k] \in Int /\ g[i] \in Int /\ g[i] < g[k]
      <4>1. k \in 1..k /\ i \in 1..k
        BY <1>0
      <4>2. g[k] \in Int /\ g[i] \in Int
        BY <1>2, <4>1
      <4> QED
        BY <2>5, <4>2
    <3>2. ASSUME NEW j \in 1..k PROVE g[j] <= g[k]
      <4>1. CASE j = k
        BY <3>1, <4>1
      <4>2. CASE j # k
        <5>1. j \in 1..(k - 1) /\ g[j] \in Int
          BY <1>0, <1>2, <4>2
        <5>2. g[j] <= g[i]
          BY <2>3, <5>1
        <5>3. \A x, y, z \in Int : x <= y /\ y < z => x <= z
          OBVIOUS
        <5> QED
          BY <3>1, <5>1, <5>2, <5>3
      <4> QED
        BY <4>1, <4>2
    <3>3. k \in 1..k
      BY <1>0
    <3> QED
      BY <1>2, <3>2, <3>3
  <2> QED
    BY <2>4, <2>5
<1> QED
  BY <1>0, <1>3, <1>4

LEMMA MaxExists ==
  ASSUME NEW n \in Nat \ {0}, NEW f \in [1..n -> Int]
  PROVE  Max({f[i] : i \in 1..n}) \in Int
<1> DEFINE S == {f[i] : i \in 1..n}
<1>1. PICK i \in 1..n : \A j \in 1..n : f[j] <= f[i]
  BY HighestExists
<1>2. f[i] \in S /\ \A y \in S : f[i] >= y
  BY <1>1
<1>3. Max(S) \in S
  BY <1>2 DEF Max
<1> QED
  BY <1>3

LEMMA MinExists ==
  ASSUME NEW n \in Nat \ {0}, NEW f \in [1..n -> Int]
  PROVE  Min({f[i] : i \in 1..n}) \in Int
<1> DEFINE S == {f[i] : i \in 1..n}
           g == [i \in 1..n |-> -f[i]]
<1>1. PICK i \in 1..n : \A j \in 1..n : g[j] <= g[i]
  <2>1. g \in [1..n -> Int]
    OBVIOUS
  <2> HIDE DEF g
  <2> QED
    BY <2>1, HighestExists
<1>2. f[i] \in S /\ \A y \in S : f[i] <= y
  BY <1>1
<1>3. Min(S) \in S
  BY <1>2 DEF Min
<1> QED
  BY <1>3

(* The least of a set of natural numbers.                                  *)
LEMMA MinNatural ==
  ASSUME NEW T \in SUBSET Nat, T # {}
  PROVE  Min(T) \in T
<1>1. PICK n \in T : \A m \in T : n <= m
  BY LeastNatural
<1> QED
  BY <1>1 DEF Min

LEMMA MinPair ==
  ASSUME NEW x \in Int, NEW y \in Int
  PROVE  Min({x, y}) \in {x, y} /\ Min({x, y}) <= x /\ Min({x, y}) <= y
<1>1. \E z \in {x, y} : \A w \in {x, y} : z <= w
  OBVIOUS
<1> QED
  BY <1>1 DEF Min

-----------------------------------------------------------------------------
(* Sizes.                                                                  *)
LEMMA QuotientFits ==
  ASSUME NEW c \in Int, NEW d \in Nat \ {0}
  PROVE  c \div d \in Int /\ (c \div d) * d <= c
OBVIOUS

LEMMA QuotientBounds ==
  ASSUME NEW x \in Int, NEW n \in Nat \ {0}
  PROVE  /\ x \div n \in Int
         /\ n * (x \div n) <= x /\ x < n * ((x \div n) + 1)
OBVIOUS

LEMMA HandFits ==
  ASSUME NEW c \in Int, NEW a \in Nat \ {0}
  PROVE  HandPerUnit(c, a) \in Int
<1>1. RiskShare \in Nat \ {0}
  BY AccountAssumption
<1>2. RiskShare * 2 * a \in Nat \ {0}
  BY <1>1
<1> QED
  BY <1>2, QuotientFits DEF HandPerUnit

-----------------------------------------------------------------------------
(* The inductive invariant, in parts: a bar of each of the last OpenBars   *)
(* days, ...                                                               *)
Bar == [day : Int, high : Int, low : Int]
BarsOK(s, d) ==
  /\ s \in Seq(Bar) /\ Len(s) = OpenBars
  /\ \A i \in 1..OpenBars : s[i].day = d - i

Positions == [dir : {-1, 0, 1}, units : 0..2, hand : Int, cost : Int, last : Int,
              lastIn : Int, top : Int, atr : Nat, status : {"A", "E", "R"}]

(* ... a position whose entries are an ATR apart, ...                      *)
PosOK(p) ==
  /\ p \in Positions
  /\ p.dir = 0 <=> p.units = 0
  /\ p.units = 0 => p.cost = 0 /\ p.top = 0 /\ p.atr = 0 /\ p.status = "A"
  /\ p.units > 0 => p.hand > 0 /\ p.atr > 0
  /\ p.units = 1 => p.cost = p.last
  /\ p.units = 2 => p.dir * (2 * p.last - p.cost) >= p.atr

(* ... the size of an empty position, ...                                  *)
SizedOK(p, c, a) == p.units = 0 => p.hand = HandPerUnit(c, a)

(* ... a stop not more than 2 ATR behind the last entry, ...               *)
RuleOK(r, p, d) ==
  r.kind = "close" =>
    /\ p.status = "A" /\ p.units > 0
    /\ r.stop \in Int
    /\ p.dir * (r.stop - p.last) >= -(2 * p.atr)
    /\ d - p.lastIn > DaysToUrge => p.dir * (r.stop - p.last) >= 0

(* ... and the cash without what the position has cost.                    *)
BookOK ==
  cash - pos.dir * pos.cost * pos.hand
       + (IF pos.status = "R" THEN pos.dir * pos.units * pos.hand * closedAt ELSE 0)
    = Cash0 + flows + drift

NumbersOK ==
  /\ price \in Prices /\ day \in Int /\ atr \in Atrs
  /\ today \in [high : Prices, low : Prices]
  /\ cash \in Int /\ flows \in Int /\ closedAt \in Int /\ drift \in Int
  /\ pos.top \in Prices \cup {0}

AccountInv ==
  /\ NumbersOK
  /\ BarsOK(bars, day)
  /\ PosOK(pos)
  /\ SizedOK(pos, cash, atr)
  /\ RuleOK(rule, pos, day)
  /\ BookOK

-----------------------------------------------------------------------------
(* The stop price.                                                         *)
LEMMA FirstBars ==
  ASSUME NEW s \in Seq(Bar), NEW n \in Nat \ {0}, s # <<>>
  PROVE  /\ First(s, n) \in Seq(Bar) /\ Len(First(s, n)) \in Nat \ {0}
         /\ Len(s) >= n => Len(First(s, n)) = n
         /\ \A i \in 1..Len(First(s, n)) : First(s, n)[i] = s[i]
<1> DEFINE k == IF n < Len(s) THEN n ELSE Len(s)
<1>1. Len(s) \in Nat \ {0} /\ k \in 1..Len(s) /\ (Len(s) >= n => k = n)
  OBVIOUS
<1> HIDE DEF k
<1>2. /\ SubSeq(s, 1, k) \in Seq(Bar) /\ Len(SubSeq(s, 1, k)) = k
      /\ \A i \in 1..k : SubSeq(s, 1, k)[i] = s[i]
  BY <1>1
<1>3. First(s, n) = SubSeq(s, 1, k)
  BY DEF First, k
<1> QED
  BY <1>1, <1>2, <1>3

LEMMA ExtremesAreInt ==
  ASSUME NEW s \in Seq(Bar), s # <<>>
  PROVE  Highest(s) \in Int /\ Lowest(s) \in Int
<1>1. Len(s) \in Nat \ {0} /\ DOMAIN s = 1..Len(s)
      /\ \A i \in 1..Len(s) : s[i].high \in Int /\ s[i].low \in Int
  <2>1. Len(s) \in Nat \ {0} /\ DOMAIN s = 1..Len(s)
    OBVIOUS
  <2>2. \A i \in 1..Len(s) : s[i] \in Bar
    OBVIOUS
  <2> QED
    BY <2>1, <2>2 DEF Bar
<1> DEFINE hs == [i \in 1..Len(s) |-> s[i].high]
           ls == [i \in 1..Len(s) |-> s[i].low]
<1>2. hs \in [1..Len(s) -> Int] /\ ls \in [1..Len(s) -> Int]
  BY <1>1
<1>3. Max({hs[i] : i \in 1..Len(s)}) \in Int /\ Min({ls[i] : i \in 1..Len(s)}) \in Int
  <2> HIDE DEF hs, ls
  <2> QED
    BY <1>1, <1>2, MaxExists, MinExists
<1>4. /\ {hs[i] : i \in 1..Len(s)} = {s[i].high : i \in DOMAIN s}
      /\ {ls[i] : i \in 1..Len(s)} = {s[i].low : i \in DOMAIN s}
  BY <1>1
<1> QED
  BY <1>3, <1>4 DEF Highest, Lowest

LEMMA TakeProfitIsInt ==
  ASSUME NEW p, NEW m, BarsOK(m.bars, m.day)
  PROVE  TakeProfit(p, m) \in Int
<1>1. CloseBars \in Nat \ {0} /\ OpenBars \in Nat \ {0}
  BY AccountAssumption
<1>2. m.bars \in Seq(Bar) /\ m.bars # <<>>
  BY <1>1 DEF BarsOK
<1>3. First(m.bars, CloseBars) \in Seq(Bar) /\ First(m.bars, CloseBars) # <<>>
  BY <1>1, <1>2, FirstBars
<1> QED
  BY <1>3, ExtremesAreInt DEF TakeProfit, GetPricePoint

(* A position old enough has enough bars after its last entry.             *)
LEMMA OldIsUrged ==
  ASSUME NEW s, NEW d \in Int, NEW l \in Int, BarsOK(s, d), d - l > DaysToUrge
  PROVE  GetPassedBars(s, l, d - 1 - l) >= DaysToUrge
<1>1. DaysToUrge \in Nat /\ OpenBars \in Nat /\ DaysToUrge <= OpenBars
  BY AccountAssumption
<1>2. DOMAIN s = 1..OpenBars /\ Len(s) = OpenBars
  BY DEF BarsOK
<1> DEFINE old == OldBars(s, l)
           n == IF old = {} THEN Len(s) ELSE Min(old) - 1
<1>3. n \in Int /\ n >= DaysToUrge
  <2>1. CASE old = {}
    BY <1>1, <1>2, <2>1
  <2>2. CASE old # {}
    <3>1. old \in SUBSET Nat
      BY <1>1, <1>2 DEF OldBars
    <3>2. Min(old) \in old
      BY <2>2, <3>1, MinNatural
    <3>3. PICK i \in 1..OpenBars : i = Min(old) /\ d - i <= l
      BY <1>2, <3>2 DEF OldBars, BarsOK
    <3> QED
      BY <1>1, <2>2, <3>3
  <2> QED
    BY <2>1, <2>2
<1>4. Min({d - 1 - l, n}) >= DaysToUrge
  <2> HIDE DEF n
  <2> QED
    BY <1>1, <1>3, MinPair
<1> QED
  BY <1>4 DEF GetPassedBars

LEMMA TighterBounds ==
  ASSUME NEW dir \in {-1, 1}, NEW x \in Int, NEW y \in Int
  PROVE  /\ Tighter(dir, x, y) \in {x, y}
         /\ dir * Tighter(dir, x, y) >= dir * x
         /\ dir * Tighter(dir, x, y) >= dir * y
BY DEF Tighter

LEMMA StopBound ==
  ASSUME NEW p \in Positions, p.dir # 0, p.atr > 0,
         NEW m, m.day \in Int, m.price \in Int, BarsOK(m.bars, m.day)
  PROVE  /\ StopPrice(p, m) \in Int
         /\ p.dir * (StopPrice(p, m) - p.last) >= -(2 * p.atr)
         /\ m.day - p.lastIn > DaysToUrge
              => p.dir * (StopPrice(p, m) - p.last) >= 0
<1> DEFINE a == p.atr
           sl == StopLoss(p, m)
           stop == StopPrice(p, m)
<1>1. /\ p.dir \in {-1, 1} /\ a \in Nat \ {0} /\ p.last \in Int
      /\ p.lastIn \in Int /\ p.top \in Int
      /\ GetAtr(p, m.atr) = a
  BY DEF Positions, GetAtr
<1>2. /\ sl \in Int /\ p.dir * (sl - p.last) >= -(2 * a)
      /\ m.day - p.lastIn > DaysToUrge => p.dir * (sl - p.last) >= 0
  <2>1. Urge(p, m) \in {0, 2 * a}
    BY <1>1 DEF Urge
  <2>2. m.day - p.lastIn > DaysToUrge => Urge(p, m) = 2 * a
    BY <1>1, OldIsUrged DEF Urge
  <2>3. sl = p.last - p.dir * (2 * a - Urge(p, m))
    BY <1>1 DEF StopLoss
  <2> HIDE DEF sl, a
  <2>4. CASE p.dir = 1
    BY <1>1, <2>1, <2>2, <2>3, <2>4
  <2>5. CASE p.dir = -1
    BY <1>1, <2>1, <2>2, <2>3, <2>5
  <2> QED
    BY <1>1, <2>4, <2>5
<1>3. ASSUME NEW x \in Int, NEW y \in Int, sl \in {x, y}, stop = Tighter(p.dir, x, y)
      PROVE  stop \in Int /\ p.dir * (stop - p.last) >= p.dir * (sl - p.last)
  <2> HIDE DEF sl, stop
  <2>1. stop \in Int /\ p.dir * stop >= p.dir * sl
    BY <1>1, <1>3, TighterBounds
  <2> QED
    BY <1>1, <1>2, <2>1
<1>4. stop \in Int /\ p.dir * (stop - p.last) >= p.dir * (sl - p.last)
  <2>1. CASE InProfit(p, m)
    <3>1. stop = Tighter(p.dir, TakeProfit(p, m), sl)
      BY <2>1 DEF StopPrice
    <3> HIDE DEF sl, stop
    <3> QED
      BY <1>2, <1>3, <3>1, TakeProfitIsInt
  <2>2. CASE ~InProfit(p, m) /\ HasTopStop(p, m)
    <3>1. stop = Tighter(p.dir, sl, TopStopLossPrice(p, m))
      BY <2>2 DEF StopPrice
    <3>2. TopStopLossPrice(p, m) \in Int
      <4>1. Abs(p.top - p.last) \in Int /\ 2 * a \in Nat \ {0}
        BY <1>1 DEF Abs
      <4>2. AdjustAtr(p, m.atr) \in Int
        BY <1>1, <4>1, QuotientFits DEF AdjustAtr
      <4> QED
        BY <1>1, <4>2 DEF TopStopLossPrice
    <3> HIDE DEF sl, stop
    <3> QED
      BY <1>2, <1>3, <3>1, <3>2
  <2>3. CASE ~InProfit(p, m) /\ ~HasTopStop(p, m)
    <3>1. stop = sl
      BY <2>3 DEF StopPrice
    <3> HIDE DEF sl, stop
    <3> QED
      BY <1>1, <1>2, <3>1
  <2> QED
    BY <2>1, <2>2, <2>3
<1> HIDE DEF sl, stop, a
<1>5. p.dir * (sl - p.last) \in Int /\ p.dir * (stop - p.last) \in Int
  BY <1>1, <1>2, <1>4
<1>6. /\ p.dir * (stop - p.last) >= -(2 * a)
      /\ m.day - p.lastIn > DaysToUrge => p.dir * (stop - p.last) >= 0
  BY <1>1, <1>2, <1>4, <1>5
<1> QED
  BY <1>4, <1>6 DEF stop, a

-----------------------------------------------------------------------------
(* Steps.                                                                  *)
LEMMA RefreshKeeps ==
  ASSUME NEW p, NEW c \in Int, NEW m,
         m.atr \in Atrs, m.day \in Int, m.price \in Int, BarsOK(m.bars, m.day),
         PosOK(p), Refresh(p, c, m)
  PROVE  /\ cash' = c
         /\ PosOK(pos') /\ SizedOK(pos', c, m.atr)
         /\ RuleOK(rule', pos', m.day)
         /\ p.units > 0 => pos' = p
         /\ p.units = 0 => pos' = [p EXCEPT !.hand = HandPerUnit(c, m.atr)]
<1>1. m.atr \in Nat \ {0}
  BY AccountAssumption
<1> DEFINE h == HandPerUnit(c, m.atr)
           q == UpdateHandPerUnit(p, c, m.atr)
<1>2. h \in Int
  BY <1>1, HandFits
<1> HIDE DEF h
<1>3. pos' = q /\ cash' = c /\ rule' = GenerateRules(q, m)
  BY DEF Refresh
<1>4. /\ p.units > 0 => q = p
      /\ p.units = 0 => q = [p EXCEPT !.hand = h]
  BY DEF UpdateHandPerUnit, PosOK, Positions, h
<1> HIDE DEF q
<1>5. PosOK(q) /\ SizedOK(q, c, m.atr)
  <2>1. CASE p.units > 0
    BY <1>4, <2>1 DEF PosOK, Positions, SizedOK
  <2>2. CASE p.units = 0
    <3>1. q = [p EXCEPT !.hand = h] /\ p \in Positions
      BY <1>4, <2>2 DEF PosOK
    <3>2. q \in Positions /\ q.hand = h
      BY <1>2, <3>1 DEF Positions
    <3>3. /\ q.dir = p.dir /\ q.units = 0 /\ q.cost = p.cost /\ q.top = p.top
          /\ q.atr = p.atr /\ q.status = p.status
      BY <2>2, <3>1 DEF Positions
    <3> QED
      BY <2>2, <3>2, <3>3 DEF PosOK, SizedOK, h
  <2>3. p.units > 0 \/ p.units = 0
    BY DEF PosOK, Positions
  <2> QED
    BY <2>1, <2>2, <2>3
<1>6. RuleOK(GenerateRules(q, m), q, m.day)
  <2>1. SUFFICES ASSUME GenerateRules(q, m).kind = "close"
                 PROVE  RuleOK(GenerateRules(q, m), q, m.day)
    BY DEF RuleOK
  <2>2. q \in Positions /\ q.status = "A" /\ q.units # 0
        /\ GenerateRules(q, m).stop = StopPrice(q, m)
    BY <1>5, <2>1 DEF GenerateRules, NoRule, PosOK
  <2>3. q.units > 0 /\ q.dir # 0 /\ q.atr > 0
    BY <1>5, <2>2 DEF PosOK, Positions
  <2>4. /\ StopPrice(q, m) \in Int
        /\ q.dir * (StopPrice(q, m) - q.last) >= -(2 * q.atr)
        /\ m.day - q.lastIn > DaysToUrge
             => q.dir * (StopPrice(q, m) - q.last) >= 0
    BY <2>2, <2>3, StopBound
  <2> QED
    BY <2>2, <2>3, <2>4 DEF RuleOK
<1> QED
  BY <1>3, <1>4, <1>5, <1>6 DEF h

(* The market as it is.                                                    *)
LEMMA MarketOK ==
  ASSUME NumbersOK, BarsOK(bars, day)
  PROVE  /\ Market.atr = atr /\ Market.day = day
         /\ Market.atr \in Atrs /\ Market.day \in Int /\ Market.price \in Int
         /\ BarsOK(Market.bars, Market.day)
<1>1. price \in Int
  BY AccountAssumption DEF NumbersOK
<1> QED
  BY <1>1 DEF Market, NumbersOK

LEMMA AccountInit == Init => AccountInv
<1> SUFFICES ASSUME Init PROVE AccountInv
  OBVIOUS
<1>1. /\ Start \in Prices /\ Prices \subseteq Nat /\ Cash0 \in Nat
      /\ OpenBars \in Nat \ {0}
  BY AccountAssumption
<1> DEFINE past == [i \in 1..OpenBars |-> [day |-> 1 - i, high |-> Start, low |-> Start]]
<1>2. PICK a \in Atrs :
        LET m == [price |-> Start, bars |-> past, day |-> 1, atr |-> a]
            q == UpdateHandPerUnit(NoPosition, Cash0, a)
        IN /\ price = Start /\ today = [high |-> Start, low |-> Start] /\ bars = past
           /\ day = 1 /\ moves = 0 /\ atr = a
           /\ pos = q /\ cash = Cash0 /\ rule = GenerateRules(q, m)
           /\ flows = 0 /\ closedAt = 0 /\ drift = 0
  BY DEF Init
<1>3. a \in Nat \ {0} /\ HandPerUnit(Cash0, a) \in Int
  <2>1. a \in Nat \ {0}
    BY AccountAssumption
  <2> QED
    BY <1>1, <2>1, HandFits
<1>4. pos = [NoPosition EXCEPT !.hand = HandPerUnit(Cash0, a)] /\ rule.kind = "open"
  BY <1>2 DEF UpdateHandPerUnit, GenerateRules, NoPosition, NoRule
<1>5. /\ pos \in Positions /\ pos.dir = 0 /\ pos.units = 0 /\ pos.cost = 0
      /\ pos.top = 0 /\ pos.atr = 0 /\ pos.status = "A"
      /\ pos.hand = HandPerUnit(Cash0, a)
  BY <1>3, <1>4 DEF NoPosition, Positions
<1>6. BarsOK(bars, day)
  <2>1. past \in Seq(Bar) /\ Len(past) = OpenBars
    BY <1>1 DEF Bar
  <2>2. \A i \in 1..OpenBars : past[i].day = 1 - i
    BY <1>1
  <2> QED
    BY <1>2, <2>1, <2>2 DEF BarsOK
<1>7. NumbersOK
  BY <1>1, <1>2, <1>5 DEF NumbersOK
<1>8. PosOK(pos) /\ SizedOK(pos, cash, atr) /\ RuleOK(rule, pos, day)
  BY <1>2, <1>4, <1>5 DEF PosOK, SizedOK, RuleOK
<1>9. BookOK
  <2>1. /\ cash = Cash0 /\ flows = 0 /\ drift = 0
        /\ pos.dir * pos.cost * pos.hand = 0
    BY <1>2, <1>3, <1>5
  <2> QED
    BY <1>1, <1>5, <2>1 DEF BookOK
<1> QED
  BY <1>6, <1>7, <1>8, <1>9 DEF AccountInv

LEMMA MoveKeeps ==
  ASSUME AccountInv, NEW p \in Prices, Move(p)
  PROVE  AccountInv'
<1>1. /\ today \in [high : Prices, low : Prices] /\ Prices \subseteq Int
  BY AccountAssumption DEF AccountInv, NumbersOK
<1>2. Max({today.high, p}) \in Prices /\ Min({today.low, p}) \in Prices
  <2>1. today.high \in Prices /\ today.low \in Prices
    BY <1>1
  <2>2. \E z \in {today.high, p} : \A w \in {today.high, p} : z >= w
    <3>1. \A x, y \in Int : \E z \in {x, y} : \A w \in {x, y} : z >= w
      OBVIOUS
    <3>2. today.high \in Int /\ p \in Int
      BY <1>1, <2>1
    <3> QED
      BY <3>1, <3>2
  <2>3. Max({today.high, p}) \in {today.high, p}
    BY <2>2 DEF Max
  <2>4. Min({today.low, p}) \in {today.low, p}
    <3>1. today.low \in Int /\ p \in Int
      BY <1>1, <2>1
    <3> QED
      BY <3>1, MinPair
  <2> QED
    BY <2>1, <2>3, <2>4
<1>3. today' \in [high : Prices, low : Prices] /\ price' \in Prices
  BY <1>2 DEF Move
<1>4. UNCHANGED <<bars, day, atr, pos, rule, cash, flows, closedAt, drift>>
  BY DEF Move
<1>5. NumbersOK' /\ BarsOK(bars, day)' /\ BookOK'
  BY <1>3, <1>4 DEF AccountInv, NumbersOK, BookOK
<1> QED
  BY <1>4, <1>5 DEF AccountInv

LEMMA TopKeeps ==
  ASSUME AccountInv, UpdateTopPrice
  PROVE  AccountInv'
<1> DEFINE t == TopPrice(pos, price)
<1>1. pos \in Positions /\ price \in Prices /\ pos.top \in Prices \cup {0}
      /\ Prices \subseteq Nat /\ pos.dir # 0
  BY AccountAssumption DEF AccountInv, NumbersOK, PosOK, UpdateTopPrice
<1>2. t \in Prices
  BY <1>1 DEF TopPrice, Tighter
<1> HIDE DEF t
<1>3. pos' = [pos EXCEPT !.top = t]
      /\ UNCHANGED <<price, today, bars, day, atr, rule, cash, flows, closedAt, drift>>
  BY DEF UpdateTopPrice, market, t
<1>4. /\ pos' \in Positions /\ pos'.top = t
      /\ pos'.dir = pos.dir /\ pos'.units = pos.units /\ pos'.hand = pos.hand
      /\ pos'.cost = pos.cost /\ pos'.last = pos.last /\ pos'.lastIn = pos.lastIn
      /\ pos'.atr = pos.atr /\ pos'.status = pos.status
  <2>1. t \in Int
    BY <1>1, <1>2
  <2> QED
    BY <1>1, <1>3, <2>1 DEF Positions
<1>5. NumbersOK' /\ BookOK'
  BY <1>2, <1>3, <1>4 DEF AccountInv, NumbersOK, BookOK
<1>6. PosOK(pos') /\ SizedOK(pos', cash', atr')
  <2>1. pos.units # 0
    BY <1>1 DEF AccountInv, PosOK
  <2> QED
    BY <1>3, <1>4, <2>1 DEF AccountInv, PosOK, SizedOK
<1>7. RuleOK(rule', pos', day')
  BY <1>3, <1>4 DEF AccountInv, RuleOK
<1>8. BarsOK(bars', day')
  BY <1>3 DEF AccountInv
<1> QED
  BY <1>5, <1>6, <1>7, <1>8 DEF AccountInv

LEMMA ForceSwitchKeeps ==
  ASSUME AccountInv, StartForceSwitch
  PROVE  AccountInv'
<1>1. pos' = [pos EXCEPT !.status = "E"] /\ rule' = NoRule
      /\ pos.status = "A" /\ pos.dir # 0
      /\ UNCHANGED <<price, today, bars, day, atr, cash, flows, closedAt, drift>>
  BY DEF StartForceSwitch
<1>2. /\ pos' \in Positions /\ pos'.status = "E" /\ pos'.top = pos.top
      /\ pos'.dir = pos.dir /\ pos'.units = pos.units /\ pos'.hand = pos.hand
      /\ pos'.cost = pos.cost /\ pos'.last = pos.last /\ pos'.lastIn = pos.lastIn
      /\ pos'.atr = pos.atr
  BY <1>1 DEF AccountInv, PosOK, Positions
<1>3. NumbersOK' /\ BookOK'
  BY <1>1, <1>2 DEF AccountInv, NumbersOK, BookOK
<1>4. PosOK(pos') /\ SizedOK(pos', cash', atr')
  <2>1. pos.units # 0
    BY <1>1 DEF AccountInv, PosOK
  <2> QED
    BY <1>1, <1>2, <2>1 DEF AccountInv, PosOK, SizedOK
<1>5. RuleOK(rule', pos', day')
  BY <1>1 DEF RuleOK, NoRule
<1>6. BarsOK(bars', day')
  BY <1>1 DEF AccountInv
<1> QED
  BY <1>3, <1>4, <1>5, <1>6 DEF AccountInv

LEMMA NextDayKeeps ==
  ASSUME AccountInv, NEW a \in Atrs, NextDay(a)
  PROVE  AccountInv'
<1> DEFINE b == [day |-> day, high |-> today.high, low |-> today.low]
           m == [price |-> price, bars |-> bars', day |-> day', atr |-> a]
<1>1. /\ day' = day + 1 /\ atr' = a
      /\ bars' = First(<<b>> \o bars, OpenBars)
      /\ today' = [high |-> price, low |-> price]
      /\ Refresh(pos, cash, m)
      /\ UNCHANGED <<price, flows, closedAt, drift>>
  BY DEF NextDay
<1>2. /\ price \in Prices /\ day \in Int /\ OpenBars \in Nat \ {0}
      /\ Prices \subseteq Nat /\ b \in Bar /\ b.day = day
  <2>1. /\ price \in Prices /\ day \in Int /\ OpenBars \in Nat \ {0}
        /\ Prices \subseteq Nat /\ today \in [high : Prices, low : Prices]
    BY AccountAssumption DEF AccountInv, NumbersOK
  <2>2. today.high \in Int /\ today.low \in Int
    <3>1. today.high \in Prices /\ today.low \in Prices
      BY <2>1
    <3>2. \A x \in Prices : x \in Int
      BY AccountAssumption
    <3> QED
      BY <3>1, <3>2
  <2> QED
    BY <2>1, <2>2 DEF Bar
<1> HIDE DEF b
<1>3. BarsOK(bars', day')
  <2> DEFINE s == <<b>> \o bars
  <2>1. /\ bars \in Seq(Bar) /\ Len(bars) = OpenBars
        /\ \A i \in 1..OpenBars : bars[i].day = day - i
    BY DEF AccountInv, BarsOK
  <2>2. /\ s \in Seq(Bar) /\ Len(s) = OpenBars + 1 /\ s # <<>>
        /\ s[1] = b /\ \A i \in 2..(OpenBars + 1) : s[i] = bars[i - 1]
    BY <1>2, <2>1
  <2> HIDE DEF s
  <2>3. /\ bars' \in Seq(Bar) /\ Len(bars') = OpenBars
        /\ \A i \in 1..OpenBars : bars'[i] = s[i]
    <3>1. bars' = First(s, OpenBars)
      BY <1>1 DEF s
    <3>2. Len(s) >= OpenBars
      BY <1>2, <2>2
    <3> QED
      BY <1>2, <2>2, <3>1, <3>2, FirstBars
  <2>4. ASSUME NEW i \in 1..OpenBars PROVE bars'[i].day = day' - i
    <3>1. CASE i = 1
      <4>1. bars'[i] = b
        BY <2>2, <2>3, <3>1
      <4> QED
        BY <1>1, <1>2, <3>1, <4>1
    <3>2. CASE i # 1
      <4>1. i \in 2..(OpenBars + 1) /\ i - 1 \in 1..OpenBars
        BY <1>2, <3>2
      <4>2. bars'[i] = bars[i - 1] /\ bars[i - 1].day = day - (i - 1)
        BY <2>1, <2>2, <2>3, <4>1
      <4> QED
        BY <1>1, <1>2, <4>2
    <3> QED
      BY <3>1, <3>2
  <2> QED
    BY <2>3, <2>4 DEF BarsOK
<1>4. /\ m.price = price /\ m.bars = bars' /\ m.day = day' /\ m.atr = a
      /\ m.price \in Int /\ m.day \in Int
  BY <1>1, <1>2
<1> HIDE DEF m
<1>5. PosOK(pos) /\ cash \in Int
  BY DEF AccountInv, NumbersOK
<1>6. /\ cash' = cash /\ PosOK(pos') /\ SizedOK(pos', cash, a)
      /\ RuleOK(rule', pos', day')
      /\ pos.units > 0 => pos' = pos
      /\ pos.units = 0 => pos' = [pos EXCEPT !.hand = HandPerUnit(cash, a)]
  BY <1>1, <1>3, <1>4, <1>5, RefreshKeeps
<1>7. pos.units \in 0..2 /\ pos \in Positions
  BY <1>5 DEF PosOK, Positions
<1>8. pos'.top = pos.top
  BY <1>6, <1>7 DEF Positions
<1>9. NumbersOK'
  BY <1>1, <1>2, <1>5, <1>6, <1>8 DEF AccountInv, NumbersOK
<1>10. BookOK'
  <2>1. CASE pos.units > 0
    BY <1>1, <1>6, <2>1 DEF AccountInv, BookOK
  <2>2. CASE pos.units = 0
    <3>1. /\ pos.cost = 0 /\ pos.dir = 0 /\ pos.status = "A"
          /\ pos.hand \in Int /\ pos'.hand \in Int
          /\ pos'.cost = 0 /\ pos'.dir = 0 /\ pos'.status = "A"
      BY <1>5, <1>6, <1>7, <2>2 DEF PosOK, Positions
    <3>2. pos.dir * pos.cost * pos.hand = 0 /\ pos'.dir * pos'.cost * pos'.hand = 0
      BY <3>1
    <3>3. cash - 0 + 0 = Cash0 + flows + drift
      BY <3>1, <3>2 DEF AccountInv, BookOK
    <3> QED
      BY <1>1, <1>6, <3>1, <3>2, <3>3 DEF BookOK
  <2> QED
    BY <1>7, <2>1, <2>2
<1> QED
  BY <1>1, <1>3, <1>6, <1>9, <1>10 DEF AccountInv

(* Trades: p is the position after one, c the cash; the market is as it    *)
(* was.                                                                    *)
LEMMA TradeKeeps ==
  ASSUME AccountInv, NEW p, NEW c \in Int, PosOK(p), p.top \in Prices \cup {0},
         Refresh(p, c, Market),
         UNCHANGED <<price, today, bars, day, atr, drift>>,
         flows' \in Int, closedAt' \in Int, BookOK'
  PROVE  AccountInv'
<1>1. /\ NumbersOK /\ BarsOK(bars, day)
      /\ Market.atr = atr /\ Market.day = day
      /\ Market.atr \in Atrs /\ Market.day \in Int /\ Market.price \in Int
      /\ BarsOK(Market.bars, Market.day)
  BY MarketOK DEF AccountInv
<1>2. /\ cash' = c /\ PosOK(pos') /\ SizedOK(pos', c, atr)
      /\ RuleOK(rule', pos', day)
      /\ p.units > 0 => pos' = p
      /\ p.units = 0 => pos' = [p EXCEPT !.hand = HandPerUnit(c, atr)]
  BY <1>1, RefreshKeeps
<1>3. pos'.top = p.top
  <2>1. p \in Positions /\ (p.units > 0 \/ p.units = 0)
    BY DEF PosOK, Positions
  <2> QED
    BY <1>2, <2>1 DEF Positions
<1>4. NumbersOK'
  BY <1>1, <1>2, <1>3 DEF NumbersOK
<1> QED
  BY <1>1, <1>2, <1>4 DEF AccountInv

(* Positions after a trade.                                                *)
LEMMA UpdatedInTwo ==
  ASSUME NEW q, NEW dir, NEW u, NEW x, NEW d, NEW a
  PROVE  [q EXCEPT !.dir = dir, !.units = u, !.cost = x, !.last = x,
                   !.lastIn = d, !.atr = a]
           = [[q EXCEPT !.dir = dir, !.units = u, !.cost = x]
                EXCEPT !.last = x, !.lastIn = d, !.atr = a]
BY SMTT(30)

LEMMA OpenedIsPosition ==
  ASSUME NEW q \in Positions, NEW dir \in {1, -1}, NEW u \in 0..2, NEW x \in Int,
         NEW d \in Int, NEW a \in Nat
  PROVE  [q EXCEPT !.dir = dir, !.units = u, !.cost = x, !.last = x,
                   !.lastIn = d, !.atr = a] \in Positions
<1> DEFINE r == [q EXCEPT !.dir = dir, !.units = u, !.cost = x]
<1>1. r \in Positions
  BY DEF Positions
<1>2. [r EXCEPT !.last = x, !.lastIn = d, !.atr = a] \in Positions
  <2> HIDE DEF r
  <2> QED
    BY <1>1 DEF Positions
<1>3. [q EXCEPT !.dir = dir, !.units = u, !.cost = x, !.last = x,
                !.lastIn = d, !.atr = a]
        = [r EXCEPT !.last = x, !.lastIn = d, !.atr = a]
  BY UpdatedInTwo
<1> HIDE DEF r
<1> QED
  BY <1>2, <1>3

LEMMA AddedIsPosition ==
  ASSUME NEW q \in Positions, NEW u \in 0..2, NEW x \in Int, NEW y \in Int,
         NEW d \in Int
  PROVE  [q EXCEPT !.units = u, !.cost = x, !.last = y, !.lastIn = d] \in Positions
<1> DEFINE r == [q EXCEPT !.units = u, !.cost = x]
<1>1. r \in Positions
  BY DEF Positions
<1>2. [q EXCEPT !.units = u, !.cost = x, !.last = y, !.lastIn = d]
        = [r EXCEPT !.last = y, !.lastIn = d]
  BY Zenon
<1> HIDE DEF r
<1>3. [r EXCEPT !.last = y, !.lastIn = d] \in Positions
  BY <1>1 DEF Positions
<1> QED
  BY <1>2, <1>3

LEMMA ShiftedIsPosition ==
  ASSUME NEW q \in Positions, NEW st \in {"A", "E", "R"}, NEW x \in Int, NEW y \in Int,
         NEW t \in Int
  PROVE  [q EXCEPT !.status = st, !.last = x, !.cost = y, !.top = t] \in Positions
<1> DEFINE r == [q EXCEPT !.status = st, !.last = x]
<1>1. r \in Positions
  BY DEF Positions
<1>2. [q EXCEPT !.status = st, !.last = x, !.cost = y, !.top = t]
        = [r EXCEPT !.cost = y, !.top = t]
  BY Zenon
<1> HIDE DEF r
<1>3. [r EXCEPT !.cost = y, !.top = t] \in Positions
  BY <1>1 DEF Positions
<1> QED
  BY <1>2, <1>3

(* What the parts of the invariant say of the numbers.                     *)
LEMMA Typed ==
  ASSUME AccountInv
  PROVE  /\ price \in Nat /\ price \in Prices /\ day \in Int /\ atr \in Nat \ {0}
         /\ cash \in Int /\ flows \in Int /\ closedAt \in Int /\ drift \in Int
         /\ Cash0 \in Int /\ Slip \in Int
         /\ pos \in Positions /\ pos.dir \in {-1, 0, 1} /\ pos.units \in 0..2
         /\ pos.hand \in Int /\ pos.cost \in Int /\ pos.last \in Int
         /\ pos.atr \in Nat /\ PosOK(pos) /\ pos.top \in Prices \cup {0}
<1>1. /\ price \in Prices /\ Prices \subseteq Nat /\ atr \in Atrs
      /\ Atrs \subseteq Nat \ {0} /\ Cash0 \in Nat /\ Slip \in Nat
  BY AccountAssumption DEF AccountInv, NumbersOK
<1> QED
  BY <1>1 DEF AccountInv, NumbersOK, PosOK, Positions

LEMMA OpenKeeps ==
  ASSUME AccountInv, NEW dir \in {1, -1}, Open(dir)
  PROVE  AccountInv'
<1> DEFINE p == [pos EXCEPT !.dir = dir, !.units = 1, !.cost = price,
                            !.last = price, !.lastIn = day, !.atr = atr]
<1>1. /\ pos.status = "A" /\ pos.units = 0 /\ pos.hand > 0
      /\ Refresh(p, cash, Market)
      /\ flows' = flows - dir * price * pos.hand
      /\ UNCHANGED <<price, today, bars, day, atr, closedAt, drift>>
  BY DEF Open
<1>2. /\ p \in Positions /\ p.dir = dir /\ p.units = 1 /\ p.cost = price
      /\ p.last = price /\ p.atr = atr /\ p.status = "A" /\ p.hand = pos.hand
      /\ p.top = pos.top
  <2>1. /\ pos \in Positions /\ price \in Int /\ day \in Int /\ atr \in Nat
    BY Typed
  <2>2. p \in Positions
    <3>1. 1 \in 0..2
      OBVIOUS
    <3> QED
      BY <2>1, <3>1, OpenedIsPosition
  <2> QED
    BY <1>1, <2>1, <2>2 DEF Positions
<1> HIDE DEF p
<1>4. PosOK(p)
  BY <1>1, <1>2, Typed DEF PosOK
<1>5. flows' \in Int /\ closedAt' \in Int
  BY <1>1, Typed
<1>6. pos' = p /\ cash' = cash
  <2>1. Market.atr \in Atrs /\ Market.day \in Int /\ Market.price \in Int
        /\ BarsOK(Market.bars, Market.day)
    BY MarketOK DEF AccountInv
  <2> QED
    BY <1>1, <1>2, <1>4, <2>1, Typed, RefreshKeeps
<1>7. BookOK'
  <2>1. pos.dir = 0 /\ pos.cost = 0
    BY <1>1 DEF AccountInv, PosOK
  <2>2. pos.dir * pos.cost * pos.hand = 0
    BY <2>1, Typed
  <2>3. cash = Cash0 + flows + drift
    BY <1>1, <2>2, Typed DEF AccountInv, BookOK
  <2>4. dir * price * pos.hand \in Int
    BY Typed
  <2>5. cash' - dir * price * pos.hand + 0 = Cash0 + flows' + drift'
    BY <1>1, <1>6, <2>3, <2>4, Typed
  <2> QED
    BY <1>1, <1>2, <1>6, <2>5 DEF BookOK
<1> QED
  BY <1>1, <1>2, <1>4, <1>5, <1>7, Typed, TradeKeeps

LEMMA AddKeeps ==
  ASSUME AccountInv, Add
  PROVE  AccountInv'
<1> DEFINE p == [pos EXCEPT !.units = 2, !.cost = @ + price,
                            !.last = price, !.lastIn = day]
<1>1. /\ pos.status = "A" /\ pos.units = 1
      /\ Meet(pos.dir, AddTrigger(pos, atr))
      /\ Refresh(p, cash, Market)
      /\ flows' = flows - pos.dir * price * pos.hand
      /\ UNCHANGED <<price, today, bars, day, atr, closedAt, drift>>
  BY DEF Add, market
<1>2. /\ p \in Positions /\ p.dir = pos.dir /\ p.units = 2
      /\ p.cost = pos.cost + price /\ p.last = price /\ p.atr = pos.atr
      /\ p.status = "A" /\ p.hand = pos.hand /\ p.top = pos.top
  <2>1. /\ pos \in Positions /\ price \in Int /\ day \in Int
        /\ pos.cost + price \in Int
    BY Typed
  <2>2. p \in Positions
    <3>1. 2 \in 0..2
      OBVIOUS
    <3> QED
      BY <2>1, <3>1, AddedIsPosition
  <2> QED
    BY <1>1, <2>1, <2>2 DEF Positions
<1> HIDE DEF p
<1>3. /\ pos.dir \in {-1, 1} /\ pos.hand > 0 /\ pos.atr > 0 /\ pos.cost = pos.last
  BY <1>1, Typed DEF PosOK
<1>4. pos.dir * (2 * price - (pos.cost + price)) >= pos.atr
  <2>1. pos.dir * price >= pos.dir * (pos.last + pos.dir * pos.atr)
    BY <1>1, <1>3, Typed DEF Meet, AddTrigger, GetAtr
  <2>2. CASE pos.dir = 1
    BY <1>3, <2>1, <2>2, Typed
  <2>3. CASE pos.dir = -1
    BY <1>3, <2>1, <2>3, Typed
  <2> QED
    BY <1>3, <2>2, <2>3
<1>5. PosOK(p)
  BY <1>2, <1>3, <1>4 DEF PosOK
<1>6. flows' \in Int /\ closedAt' \in Int
  BY <1>1, Typed
<1>7. pos' = p /\ cash' = cash
  <2>1. Market.atr \in Atrs /\ Market.day \in Int /\ Market.price \in Int
        /\ BarsOK(Market.bars, Market.day)
    BY MarketOK DEF AccountInv
  <2> QED
    BY <1>1, <1>2, <1>5, <2>1, Typed, RefreshKeeps
<1>8. BookOK'
  <2>1. cash - pos.dir * pos.cost * pos.hand + 0 = Cash0 + flows + drift
    BY <1>1 DEF AccountInv, BookOK
  <2>2. pos.dir * (pos.cost + price) * pos.hand
          = pos.dir * pos.cost * pos.hand + pos.dir * price * pos.hand
    <3>1. CASE pos.dir = 1
      BY <3>1, Typed
    <3>2. CASE pos.dir = -1
      BY <3>2, Typed
    <3> QED
      BY <1>3, <3>1, <3>2
  <2>3. pos.dir * pos.cost * pos.hand \in Int /\ pos.dir * price * pos.hand \in Int
    BY Typed
  <2> DEFINE X == pos.dir * pos.cost * pos.hand
             Y == pos.dir * price * pos.hand
  <2>4. cash - X + 0 = Cash0 + flows + drift => cash - (X + Y) + 0 = Cash0 + (flows - Y) + drift
    <3>1. \A x, y, c, f, b, d \in Int :
            c - x + 0 = b + f + d => c - (x + y) + 0 = b + (f - y) + d
      OBVIOUS
    <3>2. X \in Int /\ Y \in Int
      BY <2>3
    <3> HIDE DEF X, Y
    <3> QED
      BY <3>1, <3>2, Typed
  <2>5. /\ cash' = cash /\ drift' = drift
        /\ flows' = flows - pos.dir * price * pos.hand
    BY <1>1, <1>7
  <2>6. cash' - pos.dir * (pos.cost + price) * pos.hand + 0 = Cash0 + flows' + drift'
    BY <2>1, <2>2, <2>4, <2>5, Zenon
  <2> QED
    BY <1>2, <1>7, <2>6 DEF BookOK
<1> QED
  BY <1>1, <1>2, <1>5, <1>6, <1>8, Typed, TradeKeeps

LEMMA StopKeeps ==
  ASSUME AccountInv, Stop
  PROVE  AccountInv'
<1> DEFINE deal == Deal(pos.dir)
           p == ResetPosition(pos)
           c == cash + CashAmount(pos, deal)
<1>1. /\ pos.status = "A" /\ pos.units > 0
      /\ Refresh(p, c, Market)
      /\ flows' = flows + pos.dir * deal * pos.units * pos.hand
      /\ UNCHANGED <<price, today, bars, day, atr, closedAt, drift>>
  BY DEF Stop, market
<1>2. deal \in Int
  BY Typed DEF Deal
<1> HIDE DEF deal
<1>3. /\ p \in Positions /\ p.dir = 0 /\ p.units = 0 /\ p.cost = 0 /\ p.top = 0
      /\ p.atr = 0 /\ p.status = "A"
  BY Typed DEF ResetPosition, NoPosition, Positions
<1>4. c = cash + pos.dir * (deal * pos.units - pos.cost) * pos.hand /\ c \in Int
  BY <1>2, Typed DEF CashAmount
<1> HIDE DEF p, c
<1>5. PosOK(p)
  BY <1>3 DEF PosOK
<1>6. flows' \in Int /\ closedAt' \in Int
  BY <1>1, <1>2, Typed
<1>7. cash' = c /\ PosOK(pos') /\ pos' = [p EXCEPT !.hand = HandPerUnit(c, atr)]
  <2>1. /\ Market.atr = atr /\ Market.atr \in Atrs /\ Market.day \in Int
        /\ Market.price \in Int /\ BarsOK(Market.bars, Market.day)
    BY MarketOK DEF AccountInv
  <2> QED
    BY <1>1, <1>3, <1>4, <1>5, <2>1, RefreshKeeps
<1>8. BookOK'
  <2> DEFINE X == pos.dir * pos.cost * pos.hand
             Y == pos.dir * deal * pos.units * pos.hand
  <2>1. X \in Int /\ Y \in Int
    BY <1>2, Typed
  <2>2. pos.dir * (deal * pos.units - pos.cost) * pos.hand = Y - X
    BY <1>2, Typed
  <2>3. cash - X + 0 = Cash0 + flows + drift
    BY <1>1 DEF AccountInv, BookOK
  <2> HIDE DEF X, Y
  <2>4. c = Cash0 + (flows + Y) + drift
    BY <1>4, <2>1, <2>2, <2>3, Typed
  <2>5. /\ pos'.dir = 0 /\ pos'.cost = 0 /\ pos'.status = "A" /\ pos'.hand \in Int
    BY <1>3, <1>7 DEF PosOK, Positions
  <2>6. pos'.dir * pos'.cost * pos'.hand = 0
    BY <2>5
  <2>7. c - 0 + 0 = Cash0 + flows' + drift'
    BY <1>1, <1>4, <2>4 DEF Y
  <2> QED
    BY <1>7, <2>5, <2>6, <2>7 DEF BookOK
<1> QED
  BY <1>1, <1>3, <1>4, <1>5, <1>6, <1>8, TradeKeeps

LEMMA CloseOldKeeps ==
  ASSUME AccountInv, CloseOld
  PROVE  AccountInv'
<1> DEFINE deal == Deal(pos.dir)
           p == [pos EXCEPT !.status = "R"]
<1>1. /\ pos.status = "E"
      /\ Refresh(p, cash, Market)
      /\ closedAt' = deal
      /\ flows' = flows + pos.dir * deal * pos.units * pos.hand
      /\ UNCHANGED <<price, today, bars, day, atr, drift>>
  BY DEF CloseOld, market
<1>2. deal \in Int
  BY Typed DEF Deal
<1> HIDE DEF deal
<1>3. /\ p \in Positions /\ p.dir = pos.dir /\ p.units = pos.units
      /\ p.cost = pos.cost /\ p.last = pos.last /\ p.top = pos.top
      /\ p.atr = pos.atr /\ p.hand = pos.hand /\ p.status = "R"
  BY Typed DEF Positions
<1> HIDE DEF p
<1>4. pos.units > 0
  BY <1>1, Typed DEF PosOK
<1>5. PosOK(p)
  BY <1>3, <1>4, Typed DEF PosOK
<1>6. flows' \in Int /\ closedAt' \in Int
  BY <1>1, <1>2, Typed
<1>7. cash' = cash /\ pos' = p
  <2>1. /\ Market.atr \in Atrs /\ Market.day \in Int
        /\ Market.price \in Int /\ BarsOK(Market.bars, Market.day)
    BY MarketOK DEF AccountInv
  <2> QED
    BY <1>1, <1>3, <1>4, <1>5, <2>1, Typed, RefreshKeeps
<1>8. BookOK'
  <2> DEFINE X == pos.dir * pos.cost * pos.hand
             Y == pos.dir * deal * pos.units * pos.hand
  <2>1. X \in Int /\ Y \in Int
    BY <1>2, Typed
  <2>2. pos.dir * pos.units * pos.hand * deal = Y
    BY <1>2, Typed
  <2>3. cash - X + 0 = Cash0 + flows + drift
    BY <1>1 DEF AccountInv, BookOK
  <2> HIDE DEF X, Y
  <2>4. cash - X + Y = Cash0 + (flows + Y) + drift
    BY <2>1, <2>3, Typed
  <2>5. cash' - X + pos.dir * pos.units * pos.hand * deal = Cash0 + flows' + drift'
    BY <1>1, <1>7, <2>2, <2>4 DEF Y
  <2> QED
    BY <1>1, <1>3, <1>7, <2>5 DEF BookOK, X
<1> QED
  BY <1>1, <1>3, <1>5, <1>6, <1>8, Typed, TradeKeeps

(* A main switch: U hands, signed, that cost K, closed at z when the bar   *)
(* was at y, and reopened at x when the new one is at y + g.               *)
LEMMA ShiftedBooks ==
  ASSUME NEW U \in Int, NEW K \in Int, NEW g \in Int,
         NEW x \in Int, NEW y \in Int, NEW z \in Int,
         NEW c \in Int, NEW b \in Int, NEW f \in Int, NEW r \in Int,
         c - K + U * z = b + f + r
  PROVE  c - (K + g * U)
           = b + (f - x * U) + (r + U * ((y - z) + (x - (y + g))))
<1>1. U * ((y - z) + (x - (y + g))) = x * U - U * z - g * U
  OBVIOUS
<1>2. U * z \in Int /\ x * U \in Int /\ g * U \in Int
  OBVIOUS
<1> QED
  BY <1>1, <1>2

LEMMA OpenNewKeeps ==
  ASSUME AccountInv, NEW gap \in Gaps, OpenNew(gap)
  PROVE  AccountInv'
<1> DEFINE p == ShiftEntry(pos, gap)
           m == [price |-> price', bars |-> bars', day |-> day, atr |-> atr]
           hands == pos.dir * pos.units * pos.hand
           deal == price + gap + pos.dir * Slip
<1>1. /\ pos.status = "R"
      /\ {price, today.high, today.low} \subseteq {x - gap : x \in Prices}
      /\ price' = price + gap
      /\ today' = Shifted(today, gap)
      /\ bars' = [i \in DOMAIN bars |-> Shifted(bars[i], gap)]
      /\ Refresh(p, cash, m)
      /\ flows' = flows - deal * hands
      /\ drift' = drift + hands * ((price - closedAt) + (deal - price'))
      /\ closedAt' = 0
      /\ UNCHANGED <<day, moves, atr>>
  BY DEF OpenNew
<1>2. gap \in Int /\ OpenBars \in Nat /\ \A x \in Prices : x \in Int
  BY AccountAssumption
<1>3. price' \in Prices /\ today' \in [high : Prices, low : Prices]
  <2>1. /\ price + gap \in Prices /\ today.high + gap \in Prices
        /\ today.low + gap \in Prices
    <3>1. ASSUME NEW y, y \in {x - gap : x \in Prices} PROVE y + gap \in Prices
      <4>1. PICK x \in Prices : y = x - gap
        BY <3>1
      <4>2. x - gap + gap = x
        BY <1>2
      <4> QED
        BY <4>1, <4>2
    <3> QED
      BY <1>1, <3>1
  <2>2. today \in [high : Prices, low : Prices]
    BY DEF AccountInv, NumbersOK
  <2> QED
    BY <1>1, <2>1, <2>2 DEF Shifted
<1>4. BarsOK(bars', day)
  <2>1. /\ bars \in Seq(Bar) /\ Len(bars) = OpenBars /\ DOMAIN bars = 1..OpenBars
        /\ \A i \in 1..OpenBars : bars[i] \in Bar /\ bars[i].day = day - i
    <3>1. bars \in Seq(Bar) /\ Len(bars) = OpenBars
          /\ \A i \in 1..OpenBars : bars[i].day = day - i
      BY DEF AccountInv, BarsOK
    <3>2. DOMAIN bars = 1..OpenBars /\ \A i \in 1..OpenBars : bars[i] \in Bar
      BY <3>1
    <3> QED
      BY <3>1, <3>2
  <2>2. ASSUME NEW b \in Bar PROVE Shifted(b, gap) \in Bar /\ Shifted(b, gap).day = b.day
    <3>1. b.high + gap \in Int /\ b.low + gap \in Int
      BY <1>2 DEF Bar
    <3> QED
      BY <3>1 DEF Shifted, Bar
  <2>3. \A i \in 1..OpenBars : Shifted(bars[i], gap) \in Bar
                               /\ Shifted(bars[i], gap).day = day - i
    BY <2>1, <2>2
  <2>4. bars' = [i \in 1..OpenBars |-> Shifted(bars[i], gap)]
    BY <1>1, <2>1
  <2>5. bars' \in Seq(Bar) /\ Len(bars') = OpenBars
    BY <1>2, <2>3, <2>4
  <2>6. \A i \in 1..OpenBars : bars'[i].day = day - i
    BY <2>3, <2>4
  <2> QED
    BY <2>5, <2>6 DEF BarsOK
<1>5. /\ p \in Positions /\ p.dir = pos.dir /\ p.units = pos.units
      /\ p.cost = pos.cost + gap * pos.units /\ p.last = pos.last + gap
      /\ p.top = 0 /\ p.atr = pos.atr /\ p.hand = pos.hand /\ p.status = "A"
  <2>1. pos.last + gap \in Int /\ pos.cost + gap * pos.units \in Int /\ 0 \in Int
        /\ pos \in Positions /\ "A" \in {"A", "E", "R"}
    BY <1>2, Typed
  <2>2. p = [pos EXCEPT !.status = "A", !.last = pos.last + gap,
                        !.cost = pos.cost + gap * pos.units, !.top = 0]
    BY DEF ShiftEntry
  <2>3. p \in Positions
    <3> HIDE DEF p
    <3> QED
      BY <2>1, <2>2, ShiftedIsPosition
  <2> HIDE DEF p
  <2> QED
    BY <2>1, <2>2, <2>3 DEF Positions
<1> HIDE DEF p
<1>6. pos.dir \in {-1, 1} /\ pos.units > 0 /\ pos.hand > 0 /\ pos.atr > 0
  BY <1>1, Typed DEF PosOK
<1>7. PosOK(p)
  <2>1. pos.units = 1 => p.cost = p.last
    BY <1>2, <1>5, Typed DEF PosOK
  <2>2. pos.units = 2 => p.dir * (2 * p.last - p.cost) >= p.atr
    <3>1. \A l, k, g \in Int : 2 * (l + g) - (k + g * 2) = 2 * l - k
      OBVIOUS
    <3>2. pos.units = 2 => 2 * p.last - p.cost = 2 * pos.last - pos.cost
      BY <1>2, <1>5, <3>1, Typed
    <3>3. pos.units = 2 => pos.dir * (2 * pos.last - pos.cost) >= pos.atr
      BY Typed DEF PosOK
    <3> QED
      BY <1>5, <3>2, <3>3
  <2> QED
    BY <1>5, <1>6, <2>1, <2>2 DEF PosOK
<1>8. /\ m.price \in Int /\ m.bars = bars' /\ m.day = day /\ m.atr = atr
      /\ day \in Int /\ atr \in Atrs
  BY <1>2, <1>3 DEF AccountInv, NumbersOK
<1> HIDE DEF m
<1>9. cash' = cash /\ SizedOK(pos', cash, atr) /\ RuleOK(rule', pos', day) /\ pos' = p
  BY <1>1, <1>4, <1>5, <1>6, <1>7, <1>8, Typed, RefreshKeeps
<1>10. hands \in Int /\ deal \in Int /\ flows' \in Int /\ drift' \in Int /\ closedAt' \in Int
  <2>1. hands \in Int /\ deal \in Int
    BY <1>2, Typed
  <2> HIDE DEF hands, deal
  <2>2. price' \in Int
    BY <1>2, <1>3
  <2> QED
    BY <1>1, <2>1, <2>2, Typed
<1>11. NumbersOK'
  BY <1>1, <1>3, <1>5, <1>9, <1>10 DEF AccountInv, NumbersOK
<1>12. BookOK'
  <2>1. cash - pos.dir * pos.cost * pos.hand
          + pos.dir * pos.units * pos.hand * closedAt = Cash0 + flows + drift
    BY <1>1 DEF AccountInv, BookOK
  <2>2. cash - pos.dir * (pos.cost + gap * pos.units) * pos.hand
          = Cash0 + (flows - deal * hands)
              + (drift + hands * ((price - closedAt) + (deal - (price + gap))))
    <3> DEFINE K == pos.dir * pos.cost * pos.hand
    <3>1. pos.dir * (pos.cost + gap * pos.units) * pos.hand = K + gap * hands
      <4>1. CASE pos.dir = 1
        BY <1>2, <4>1, Typed
      <4>2. CASE pos.dir = -1
        BY <1>2, <4>2, Typed
      <4> QED
        BY <1>6, <4>1, <4>2
    <3>2. hands \in Int /\ deal \in Int /\ K \in Int
      BY <1>10, Typed
    <3>3. cash - K + hands * closedAt = Cash0 + flows + drift
      BY <2>1
    <3> HIDE DEF K, hands, deal
    <3>4. /\ gap \in Int /\ price \in Int /\ closedAt \in Int /\ cash \in Int
          /\ Cash0 \in Int /\ flows \in Int /\ drift \in Int
      BY <1>2, Typed
    <3>5. cash - (K + gap * hands)
            = Cash0 + (flows - deal * hands)
                + (drift + hands * ((price - closedAt) + (deal - (price + gap))))
      BY <3>2, <3>3, <3>4, ShiftedBooks
    <3> QED
      BY <3>1, <3>5
  <2>3. cash - pos.dir * (pos.cost + gap * pos.units) * pos.hand = Cash0 + flows' + drift'
    BY <1>1, <2>2
  <2>4. cash - pos.dir * (pos.cost + gap * pos.units) * pos.hand \in Int
    BY <1>2, Typed
  <2>5. cash - pos.dir * (pos.cost + gap * pos.units) * pos.hand + 0 = Cash0 + flows' + drift'
    BY <2>3, <2>4
  <2> QED
    BY <1>5, <1>9, <2>5 DEF BookOK
<1> QED
  BY <1>1, <1>4, <1>7, <1>9, <1>11, <1>12 DEF AccountInv

LEMMA AccountStep == AccountInv /\ [Next]_vars => AccountInv'
<1> SUFFICES ASSUME AccountInv, [Next]_vars PROVE AccountInv'
  OBVIOUS
<1>1. ASSUME NEW p \in Prices, Move(p) PROVE AccountInv'
  BY <1>1, MoveKeeps
<1>2. ASSUME NEW a \in Atrs, NextDay(a) PROVE AccountInv'
  BY <1>2, NextDayKeeps
<1>3. CASE UpdateTopPrice
  BY <1>3, TopKeeps
<1>4. ASSUME NEW dir \in {1, -1}, Open(dir) PROVE AccountInv'
  BY <1>4, OpenKeeps
<1>5. CASE Add
  BY <1>5, AddKeeps
<1>6. CASE Stop
  BY <1>6, StopKeeps
<1>7. CASE StartForceSwitch
  BY <1>7, ForceSwitchKeeps
<1>8. CASE CloseOld
  BY <1>8, CloseOldKeeps
<1>9. ASSUME NEW gap \in Gaps, OpenNew(gap) PROVE AccountInv'
  BY <1>9, OpenNewKeeps
<1>10. CASE UNCHANGED vars
  BY <1>10 DEF vars, market, AccountInv, NumbersOK, BookOK
<1> QED
  BY <1>1, <1>2, <1>3, <1>4, <1>5, <1>6, <1>7, <1>8, <1>9, <1>10 DEF Next

LEMMA AccountAlways == Spec => []AccountInv
<1>1. Init => AccountInv
  BY AccountInit
<1>2. AccountInv /\ [Next]_vars => AccountInv'
  BY AccountStep
<1> QED
  BY <1>1, <1>2, PTL DEF Spec

-----------------------------------------------------------------------------
(* What it gives.                                                          *)

(* The type invariant of Account: a position has a direction exactly when  *)
(* it has units, an empty one keeps neither cost, best price nor ATR, the  *)
(* best price is a price of the market (PositionVO, StrategyImpl).         *)
THEOREM AccountTypeCorrect == Spec => []TypeOK
<1>1. AccountInv => TypeOK
  <2> SUFFICES ASSUME AccountInv PROVE TypeOK
    OBVIOUS
  <2>1. Len(bars) <= OpenBars
    <3>1. Len(bars) = OpenBars /\ OpenBars \in Nat
      BY AccountAssumption DEF AccountInv, BarsOK
    <3> QED
      BY <3>1
  <2>2. /\ today \in [high : Prices, low : Prices] /\ atr \in Atrs
        /\ pos.top \in Prices \cup {0}
    BY DEF AccountInv, NumbersOK
  <2>3. pos.status \in {"A", "E", "R"}
    BY Typed DEF Positions
  <2> QED
    BY <2>1, <2>2, <2>3, Typed DEF TypeOK, PosOK
<1> QED
  BY <1>1, AccountAlways, PTL

(* Cash and what the hands are worth add up to what the exchange paid,     *)
(* over any trades, prices, days and main switches: updateCashWhenEmpty    *)
(* and updatePosition lose nothing but the switch's own two deals.         *)
THEOREM EquityCorrect == Spec => []EquityMatchesExchange
<1>1. AccountInv => EquityMatchesExchange
  <2> SUFFICES ASSUME AccountInv PROVE EquityMatchesExchange
    OBVIOUS
  <2> DEFINE X == pos.dir * pos.cost * pos.hand
             U == pos.dir * pos.units * pos.hand
  <2>1. X \in Int /\ U \in Int
    <3>1. /\ pos.dir \in Int /\ pos.units \in Int /\ pos.hand \in Int
          /\ pos.cost \in Int
      BY Typed
    <3> QED
      BY <3>1
  <2>2. pos.dir * (price * pos.units - pos.cost) * pos.hand = U * price - X
    BY Typed
  <2>3. CurrentEquity = cash + (U * price - X)
    BY <2>2 DEF CurrentEquity, CashAmount
  <2>4. cash - X + (IF pos.status = "R" THEN U * closedAt ELSE 0) = Cash0 + flows + drift
    BY DEF AccountInv, BookOK
  <2>5. /\ Unbooked = IF pos.status = "R" THEN U * (price - closedAt) ELSE 0
        /\ Held = IF pos.status = "R" THEN 0 ELSE U
    BY DEF Unbooked, Held
  <2> HIDE DEF X, U
  <2>6. CASE pos.status = "R"
    <3>1. U * (price - closedAt) = U * price - U * closedAt /\ 0 * price = 0
          /\ U * price \in Int /\ U * closedAt \in Int
      BY <2>1, Typed
    <3>2. Held * price = 0 /\ Unbooked = U * price - U * closedAt
      BY <2>5, <2>6, <3>1
    <3>3. cash - X + U * closedAt = Cash0 + flows + drift
      BY <2>4, <2>6
    <3>4. cash + (U * price - X) = Cash0 + flows + 0 + drift + (U * price - U * closedAt)
      BY <2>1, <3>1, <3>3, Typed
    <3> QED
      BY <2>3, <3>2, <3>4 DEF EquityMatchesExchange
  <2>7. CASE pos.status # "R"
    <3>1. U * price \in Int
      BY <2>1, Typed
    <3>2. Held * price = U * price /\ Unbooked = 0
      BY <2>5, <2>7
    <3>3. cash - X + 0 = Cash0 + flows + drift
      BY <2>4, <2>7
    <3>4. cash + (U * price - X) = Cash0 + flows + U * price + drift + 0
      BY <2>1, <3>1, <3>3, Typed
    <3> QED
      BY <2>3, <3>2, <3>4 DEF EquityMatchesExchange
  <2> QED
    BY <2>6, <2>7
<1> QED
  BY <1>1, AccountAlways, PTL

(* Two ATR for one unit, three for two: what a position loses at its       *)
(* standing stop (StrategyImpl 51, generateCloseRules), whatever the       *)
(* prices, the ATR of the day and the number of bars.                      *)
THEOREM LossBounded == Spec => []StopBoundsLoss
<1>1. AccountInv => StopBoundsLoss
  <2> SUFFICES ASSUME AccountInv, rule.kind = "close"
               PROVE  cash - StopLossEquity <= (1 + pos.units) * pos.atr * pos.hand
    BY DEF StopBoundsLoss
  <2> DEFINE loss == pos.dir * (pos.cost - rule.stop * pos.units)
             n == (1 + pos.units) * pos.atr
  <2>1. /\ pos.units \in {1, 2} /\ pos.dir \in {-1, 1} /\ pos.hand > 0
        /\ rule.stop \in Int /\ pos.dir * (rule.stop - pos.last) >= -(2 * pos.atr)
    BY Typed DEF AccountInv, RuleOK, PosOK
  <2>2. loss <= n
    <3>1. CASE pos.units = 1
      <4>1. pos.cost = pos.last
        BY <3>1, Typed DEF PosOK
      <4>2. CASE pos.dir = 1
        BY <2>1, <3>1, <4>1, <4>2, Typed
      <4>3. CASE pos.dir = -1
        BY <2>1, <3>1, <4>1, <4>3, Typed
      <4> QED
        BY <2>1, <4>2, <4>3
    <3>2. CASE pos.units = 2
      <4>1. pos.dir * (2 * pos.last - pos.cost) >= pos.atr
        BY <3>2, Typed DEF PosOK
      <4>2. CASE pos.dir = 1
        BY <2>1, <3>2, <4>1, <4>2, Typed
      <4>3. CASE pos.dir = -1
        BY <2>1, <3>2, <4>1, <4>3, Typed
      <4> QED
        BY <2>1, <4>2, <4>3
    <3> QED
      BY <2>1, <3>1, <3>2
  <2>3. cash - StopLossEquity = loss * pos.hand
    <3>1. StopLossEquity = cash + pos.dir * (rule.stop * pos.units - pos.cost) * pos.hand
      BY DEF StopLossEquity, CashAmount
    <3> QED
      BY <2>1, <3>1, Typed
  <2>4. loss \in Int /\ n \in Int
    BY <2>1, Typed
  <2> HIDE DEF loss, n
  <2>5. loss * pos.hand <= n * pos.hand
    <3>1. \A x, y, h \in Int : x <= y /\ h > 0 => x * h <= y * h
      OBVIOUS
    <3> QED
      BY <2>1, <2>2, <2>4, <3>1, Typed
  <2> QED
    BY <2>3, <2>5 DEF n
<1> QED
  BY <1>1, AccountAlways, PTL

(* A position older than days2Urge is stopped at its last entry, whatever  *)
(* bars it has (StrategyUtils.getPassedBars, StrategyImpl).                *)
THEOREM UrgeCorrect == Spec => []UrgeComes
<1>1. AccountInv => UrgeComes
  BY DEF AccountInv, RuleOK, UrgeComes
<1> QED
  BY <1>1, AccountAlways, PTL

-----------------------------------------------------------------------------
(* The trailing stop.  A stop price with basis "trail" is not better than  *)
(* one of the three it can be made of: 2 ATR behind the last entry, the    *)
(* last entry of an old position, or what the best price gives.  Each of   *)
(* these only moves in the position's favour while nothing is traded, and  *)
(* the next stop is not worse than any of them.                            *)
HasTop(p) == p.top > 0 /\ p.dir * (p.top - p.last) >= 2 * p.atr
TopStop(p) ==
  p.last - p.dir * (2 - ((p.dir * (p.top - p.last)) \div (2 * p.atr))) * p.atr
TrailOK(r, p, d) ==
  r.basis = "trail" =>
    /\ r.kind = "close"
    /\ \/ p.dir * (r.stop - p.last) <= -(2 * p.atr)
       \/ d - p.lastIn > DaysToUrge /\ p.dir * (r.stop - p.last) <= 0
       \/ HasTop(p) /\ p.dir * r.stop <= p.dir * TopStop(p)
BeatsTop(r, p) ==
  r.basis = "trail" /\ HasTop(p) => p.dir * r.stop >= p.dir * TopStop(p)

LEMMA QuotientGrows ==
  ASSUME NEW x \in Int, NEW y \in Int, NEW n \in Nat \ {0}, x <= y
  PROVE  x \div n <= y \div n
<1> DEFINE q == x \div n
           r == y \div n
<1>1. q \in Int /\ r \in Int /\ n * q <= x /\ y < n * (r + 1)
  OBVIOUS
<1> HIDE DEF q, r
<1>2. SUFFICES ASSUME r + 1 <= q PROVE FALSE
  BY <1>1 DEF q, r
<1>3. n * (r + 1) <= n * q
  BY <1>1, <1>2
<1> QED
  BY <1>1, <1>3

LEMMA QuotientPositive ==
  ASSUME NEW x \in Int, NEW n \in Nat \ {0}
  PROVE  x \div n >= 1 <=> x >= n
OBVIOUS

LEMMA TimesGrows ==
  ASSUME NEW x \in Int, NEW y \in Int, NEW n \in Nat, x <= y
  PROVE  x * n <= y * n
OBVIOUS

(* The quotient of the best price, and what it gives.                      *)
LEMMA TopStopValue ==
  ASSUME NEW p \in Positions, p.dir # 0, p.atr > 0
  PROVE  /\ (p.dir * (p.top - p.last)) \div (2 * p.atr) \in Int
         /\ TopStop(p) \in Int
         /\ p.dir * TopStop(p)
              = p.dir * p.last
                - (2 - ((p.dir * (p.top - p.last)) \div (2 * p.atr))) * p.atr
<1> DEFINE k == (p.dir * (p.top - p.last)) \div (2 * p.atr)
<1>1. p.dir \in {-1, 1} /\ p.atr \in Nat \ {0} /\ p.last \in Int /\ p.top \in Int
  BY DEF Positions
<1>2. k \in Int
  <2>1. p.dir * (p.top - p.last) \in Int /\ 2 * p.atr \in Nat \ {0}
    BY <1>1
  <2> QED
    BY <2>1, QuotientFits
<1>3. TopStop(p) = p.last - p.dir * (2 - k) * p.atr
  BY DEF TopStop
<1> HIDE DEF k
<1>4. CASE p.dir = 1
  BY <1>1, <1>2, <1>3, <1>4 DEF k
<1>5. CASE p.dir = -1
  BY <1>1, <1>2, <1>3, <1>5 DEF k
<1> QED
  BY <1>1, <1>4, <1>5

(* A better best price gives a better stop.                                *)
LEMMA TopStopGrows ==
  ASSUME NEW p \in Positions, NEW q \in Positions, p.dir # 0, p.atr > 0,
         q.dir = p.dir, q.atr = p.atr, q.last = p.last,
         p.dir * q.top >= p.dir * p.top
  PROVE  p.dir * TopStop(q) >= p.dir * TopStop(p)
<1> DEFINE x == p.dir * (p.top - p.last)
           y == p.dir * (q.top - p.last)
           n == 2 * p.atr
           a == p.atr
           l == p.dir * p.last
<1>1. p.dir \in {-1, 1} /\ a \in Nat \ {0} /\ p.last \in Int /\ p.top \in Int
      /\ q.top \in Int
  BY DEF Positions
<1>2. x \in Int /\ y \in Int /\ x <= y /\ n \in Nat \ {0} /\ l \in Int
  <2>1. CASE p.dir = 1
    BY <1>1, <2>1
  <2>2. CASE p.dir = -1
    BY <1>1, <2>2
  <2> QED
    BY <1>1, <2>1, <2>2
<1>3. /\ x \div n \in Int /\ y \div n \in Int
      /\ p.dir * TopStop(p) = l - (2 - (x \div n)) * a
      /\ p.dir * TopStop(q) = l - (2 - (y \div n)) * a
  BY TopStopValue
<1> HIDE DEF x, y, n, l, a
<1>4. x \div n <= y \div n
  BY <1>2, QuotientGrows
<1> DEFINE i == x \div n
           j == y \div n
<1>5. i \in Int /\ j \in Int /\ 2 - j <= 2 - i
      /\ p.dir * TopStop(p) = l - (2 - i) * a
      /\ p.dir * TopStop(q) = l - (2 - j) * a
  BY <1>3, <1>4
<1> HIDE DEF i, j
<1>6. (2 - j) * a <= (2 - i) * a
  BY <1>1, <1>5, TimesGrows
<1>7. (2 - j) * a \in Int /\ (2 - i) * a \in Int
  BY <1>1, <1>5
<1> QED
  BY <1>2, <1>5, <1>6, <1>7

(* A stop price that was just made.                                        *)
LEMMA FreshTrail ==
  ASSUME NEW p, PosOK(p),
         NEW m, m.day \in Int, m.price \in Int, BarsOK(m.bars, m.day)
  PROVE  /\ TrailOK(GenerateRules(p, m), p, m.day)
         /\ BeatsTop(GenerateRules(p, m), p)
<1> DEFINE r == GenerateRules(p, m)
<1> SUFFICES ASSUME r.basis = "trail"
             PROVE  TrailOK(r, p, m.day) /\ BeatsTop(r, p)
  BY DEF TrailOK, BeatsTop
<1>1. /\ p.status = "A" /\ p.units # 0
      /\ r.kind = "close" /\ r.stop = StopPrice(p, m) /\ StopBasis(p, m) = "trail"
  BY DEF GenerateRules, NoRule
<1> DEFINE a == p.atr
           top == p.dir * (p.top - p.last)
           sl == StopLoss(p, m)
           stop == r.stop
<1>2. /\ p \in Positions /\ p.dir \in {-1, 1} /\ p.dir # 0 /\ p.atr > 0
      /\ a \in Nat \ {0} /\ p.last \in Int
      /\ p.lastIn \in Int /\ p.top \in Int
      /\ GetAtr(p, m.atr) = a
  BY <1>1 DEF PosOK, Positions, GetAtr
<1>3. ~InProfit(p, m) /\ (HasTopStop(p, m) => p.dir * p.top >= p.dir * p.last)
  <2>1. ~InProfit(p, m) /\ ~(HasTopStop(p, m) /\ p.dir * p.top < p.dir * p.last)
    BY <1>1 DEF StopBasis
  <2> QED
    BY <1>2, <2>1
<1>4. /\ sl \in Int
      /\ \/ p.dir * (sl - p.last) <= -(2 * a)
         \/ m.day - p.lastIn > DaysToUrge /\ p.dir * (sl - p.last) <= 0
  <2>1. sl = p.last - p.dir * (2 * a - Urge(p, m))
    BY <1>2 DEF StopLoss
  <2> HIDE DEF sl, a
  <2>2. CASE GetPassedBars(m.bars, p.lastIn, m.day - 1 - p.lastIn) >= DaysToUrge
    <3>1. m.day - p.lastIn > DaysToUrge
      <4> DEFINE days == m.day - 1 - p.lastIn
                 old == OldBars(m.bars, p.lastIn)
                 n == IF old = {} THEN Len(m.bars) ELSE Min(old) - 1
      <4>1. days \in Int /\ DaysToUrge \in Nat
        BY <1>2, AccountAssumption
      <4>2. n \in Int
        <5>1. OpenBars \in Nat /\ DOMAIN m.bars = 1..OpenBars /\ Len(m.bars) = OpenBars
          BY AccountAssumption DEF BarsOK
        <5>2. CASE old = {}
          BY <5>1, <5>2
        <5>3. CASE old # {}
          <6>1. old \in SUBSET Nat
            BY <5>1 DEF OldBars
          <6>2. Min(old) \in Nat
            BY <5>3, <6>1, MinNatural
          <6> QED
            BY <5>3, <6>2
        <5> QED
          BY <5>2, <5>3
      <4>3. GetPassedBars(m.bars, p.lastIn, days) = Min({days, n})
        BY DEF GetPassedBars
      <4> HIDE DEF n, days
      <4>4. Min({days, n}) \in {days, n} /\ Min({days, n}) <= days
        BY <4>1, <4>2, MinPair
      <4>5. days >= DaysToUrge
        BY <2>2, <4>1, <4>2, <4>3, <4>4 DEF days
      <4> QED
        BY <1>2, <4>1, <4>5 DEF days
    <3>2. Urge(p, m) = 2 * a
      BY <1>2, <2>2 DEF Urge
    <3>3. p.dir * (sl - p.last) <= 0 /\ sl \in Int
      <4>1. sl = p.last
        BY <1>2, <2>1, <3>2
      <4> QED
        BY <1>2, <4>1
    <3> QED
      BY <3>1, <3>3
  <2>3. CASE ~(GetPassedBars(m.bars, p.lastIn, m.day - 1 - p.lastIn) >= DaysToUrge)
    <3>1. Urge(p, m) = 0
      BY <2>3 DEF Urge
    <3>2. CASE p.dir = 1
      BY <1>2, <2>1, <3>1, <3>2
    <3>3. CASE p.dir = -1
      BY <1>2, <2>1, <3>1, <3>3
    <3> QED
      BY <1>2, <3>2, <3>3
  <2> QED
    BY <2>2, <2>3
<1>5. ASSUME HasTop(p) PROVE HasTopStop(p, m) /\ Abs(p.top - p.last) = top
  <2>1. p.top > 0 /\ top >= 2 * a
    BY <1>5 DEF HasTop
  <2>2. Abs(p.top - p.last) = top
    <3>1. CASE p.dir = 1
      BY <1>2, <2>1, <3>1 DEF Abs
    <3>2. CASE p.dir = -1
      BY <1>2, <2>1, <3>2 DEF Abs
    <3> QED
      BY <1>2, <3>1, <3>2
  <2>3. top \in Int /\ 2 * a \in Nat \ {0}
    BY <1>2
  <2>4. AdjustAtr(p, m.atr) = top \div (2 * a)
    BY <1>2, <2>2 DEF AdjustAtr
  <2> HIDE DEF top, a
  <2>5. AdjustAtr(p, m.atr) >= 1
    BY <2>1, <2>3, <2>4, QuotientPositive
  <2> QED
    BY <2>1, <2>2, <2>5 DEF HasTopStop
<1>6. ASSUME HasTopStop(p, m)
      PROVE  HasTop(p) /\ TopStopLossPrice(p, m) = TopStop(p)
  <2>1. p.dir * p.top >= p.dir * p.last /\ p.top > 0 /\ AdjustAtr(p, m.atr) >= 1
    BY <1>3, <1>6 DEF HasTopStop
  <2>2. Abs(p.top - p.last) = top
    <3>1. CASE p.dir = 1
      BY <1>2, <2>1, <3>1 DEF Abs
    <3>2. CASE p.dir = -1
      BY <1>2, <2>1, <3>2 DEF Abs
    <3> QED
      BY <1>2, <3>1, <3>2
  <2>3. top \in Int /\ 2 * a \in Nat \ {0}
    BY <1>2
  <2>4. AdjustAtr(p, m.atr) = top \div (2 * a)
    BY <1>2, <2>2 DEF AdjustAtr
  <2>5. TopStopLossPrice(p, m) = TopStop(p)
    BY <1>2, <2>4 DEF TopStopLossPrice, TopStop
  <2> HIDE DEF top, a
  <2>6. top >= 2 * a
    BY <2>1, <2>3, <2>4, QuotientPositive
  <2> QED
    BY <2>1, <2>5, <2>6 DEF HasTop, top, a
<1>7. CASE HasTopStop(p, m)
  <2> DEFINE ts == TopStop(p)
  <2>1. HasTop(p) /\ ts \in Int
    BY <1>2, <1>6, <1>7, TopStopValue
  <2>2. stop = Tighter(p.dir, sl, ts)
    BY <1>1, <1>3, <1>6, <1>7 DEF StopPrice
  <2> HIDE DEF ts, sl, r
  <2>3. /\ stop \in {sl, ts} /\ p.dir * stop >= p.dir * ts
    BY <1>2, <1>4, <2>1, <2>2, TighterBounds
  <2>4. stop = ts => p.dir * stop <= p.dir * ts
    BY <1>2, <2>1
  <2> QED
    BY <1>1, <1>4, <2>1, <2>3, <2>4 DEF TrailOK, BeatsTop, ts
<1>8. CASE ~HasTopStop(p, m)
  <2>1. stop = sl /\ ~HasTop(p)
    BY <1>1, <1>3, <1>5, <1>8 DEF StopPrice
  <2> HIDE DEF sl, r
  <2> QED
    BY <1>1, <1>4, <2>1 DEF TrailOK, BeatsTop
<1> QED
  BY <1>7, <1>8

(* After onCommand or initRules the rule is the one of the new position.   *)
LEMMA RefreshTrails ==
  ASSUME AccountInv', NEW p, NEW c, NEW m, Refresh(p, c, m),
         m.day = day', m.bars = bars', m.price \in Int
  PROVE  TrailOK(rule', pos', day') /\ BeatsTop(rule', pos')
<1>1. pos' = UpdateHandPerUnit(p, c, m.atr) /\ rule' = GenerateRules(pos', m)
  BY DEF Refresh
<1>2. PosOK(pos') /\ BarsOK(m.bars, m.day) /\ m.day \in Int
  BY DEF AccountInv, NumbersOK
<1> QED
  BY <1>1, <1>2, FreshTrail

LEMMA TrailInit == Init => TrailOK(rule, pos, day)
<1> SUFFICES ASSUME Init PROVE rule.basis # "trail"
  BY DEF TrailOK
<1>1. PICK a \in Atrs :
        LET past == [i \in 1..OpenBars |-> [day |-> 1 - i, high |-> Start, low |-> Start]]
            m == [price |-> Start, bars |-> past, day |-> 1, atr |-> a]
            q == UpdateHandPerUnit(NoPosition, Cash0, a)
        IN pos = q /\ rule = GenerateRules(q, m)
  BY DEF Init
<1>2. pos.status = "A" /\ pos.units = 0
  BY <1>1 DEF UpdateHandPerUnit, NoPosition
<1> QED
  BY <1>1, <1>2 DEF GenerateRules, NoRule

(* The best price moves in the position's favour.                          *)
LEMMA TopTrails ==
  ASSUME AccountInv, TrailOK(rule, pos, day), UpdateTopPrice, 0 \notin Prices
  PROVE  TrailOK(rule', pos', day')
<1> DEFINE t == TopPrice(pos, price)
<1>1. /\ pos \in Positions /\ pos.dir \in {-1, 1} /\ pos.dir # 0
      /\ price \in Nat \ {0} /\ pos.top \in Nat
  <2>1. Prices \subseteq Nat
    BY AccountAssumption
  <2> QED
    BY <2>1, Typed DEF UpdateTopPrice
<1>2. pos.atr > 0 /\ pos.last \in Int /\ pos.atr \in Nat
  BY <1>1, Typed DEF PosOK
<1>3. t \in Nat \ {0} /\ (pos.top > 0 => pos.dir * t >= pos.dir * pos.top)
  BY <1>1, TighterBounds DEF TopPrice
<1> HIDE DEF t
<1>4. pos' = [pos EXCEPT !.top = t] /\ rule' = rule /\ day' = day
  BY DEF UpdateTopPrice, market, t
<1>5. /\ pos' \in Positions /\ pos'.top = t /\ pos'.dir = pos.dir
      /\ pos'.last = pos.last /\ pos'.lastIn = pos.lastIn /\ pos'.atr = pos.atr
  BY <1>1, <1>3, <1>4 DEF Positions
<1>6. ASSUME HasTop(pos), rule.stop \in Int, pos.dir * rule.stop <= pos.dir * TopStop(pos)
      PROVE  HasTop(pos') /\ pos'.dir * rule.stop <= pos'.dir * TopStop(pos')
  <2>1. pos.dir * t >= pos.dir * pos.top
    BY <1>3, <1>6 DEF HasTop
  <2>2. pos.dir * TopStop(pos') >= pos.dir * TopStop(pos)
    BY <1>1, <1>2, <1>5, <2>1, TopStopGrows
  <2>3. TopStop(pos) \in Int /\ TopStop(pos') \in Int
    BY <1>1, <1>2, <1>5, TopStopValue
  <2>4. HasTop(pos')
    <3>1. pos.dir * (pos.top - pos.last) >= 2 * pos.atr
      BY <1>6 DEF HasTop
    <3>2. pos.dir * (t - pos.last) >= 2 * pos.atr
      <4>1. CASE pos.dir = 1
        BY <1>1, <1>2, <1>3, <2>1, <3>1, <4>1
      <4>2. CASE pos.dir = -1
        BY <1>1, <1>2, <1>3, <2>1, <3>1, <4>2
      <4> QED
        BY <1>1, <4>1, <4>2
    <3> QED
      BY <1>3, <1>5, <3>2 DEF HasTop
  <2>5. \A x, y, z \in Int : x <= y /\ z >= y => x <= z
    OBVIOUS
  <2>6. /\ pos.dir * rule.stop \in Int /\ pos.dir * TopStop(pos) \in Int
        /\ pos.dir * TopStop(pos') \in Int
    BY <1>1, <1>6, <2>3
  <2>7. pos.dir * rule.stop <= pos.dir * TopStop(pos')
    BY <1>6, <2>2, <2>5, <2>6
  <2> QED
    BY <1>5, <2>4, <2>7
<1>7. rule.kind = "close" => rule.stop \in Int
  BY DEF AccountInv, RuleOK
<1> QED
  BY <1>4, <1>5, <1>6, <1>7 DEF TrailOK

LEMMA TrailStep ==
  AccountInv /\ TrailOK(rule, pos, day) /\ [Next]_vars /\ 0 \notin Prices
    => TrailOK(rule', pos', day')
<1> SUFFICES ASSUME AccountInv, TrailOK(rule, pos, day), [Next]_vars, 0 \notin Prices
             PROVE  TrailOK(rule', pos', day')
  OBVIOUS
<1>1. AccountInv' /\ price \in Int /\ price' \in Int
  <2>1. AccountInv'
    BY AccountStep
  <2>2. \A x \in Prices : x \in Int
    BY AccountAssumption
  <2> QED
    BY <2>1, <2>2 DEF AccountInv, NumbersOK
<1>2. Market.price = price /\ Market.bars = bars /\ Market.day = day
  BY DEF Market
<1>3. ASSUME NEW p \in Prices, Move(p) PROVE TrailOK(rule', pos', day')
  BY <1>3 DEF Move
<1>4. ASSUME NEW a \in Atrs, NextDay(a) PROVE TrailOK(rule', pos', day')
  BY <1>1, <1>4, RefreshTrails DEF NextDay
<1>5. CASE UpdateTopPrice
  BY <1>5, TopTrails
<1>6. ASSUME NEW dir \in {1, -1}, Open(dir) PROVE TrailOK(rule', pos', day')
  BY <1>1, <1>2, <1>6, RefreshTrails DEF Open
<1>7. CASE Add
  BY <1>1, <1>2, <1>7, RefreshTrails DEF Add, market
<1>8. CASE Stop
  BY <1>1, <1>2, <1>8, RefreshTrails DEF Stop, market
<1>9. CASE StartForceSwitch
  BY <1>9 DEF StartForceSwitch, TrailOK, NoRule
<1>10. CASE CloseOld
  BY <1>1, <1>2, <1>10, RefreshTrails DEF CloseOld, market
<1>11. ASSUME NEW gap \in Gaps, OpenNew(gap) PROVE TrailOK(rule', pos', day')
  BY <1>1, <1>11, RefreshTrails DEF OpenNew
<1>12. CASE UNCHANGED vars
  BY <1>12 DEF vars, market
<1> QED
  BY <1>3, <1>4, <1>5, <1>6, <1>7, <1>8, <1>9, <1>10, <1>11, <1>12 DEF Next

(* The stop over an evening.                                               *)
LEMMA EveningTightens ==
  ASSUME AccountInv, TrailOK(rule, pos, day), NEW a \in Atrs, NextDay(a),
         rule.basis = "trail", rule'.basis = "trail"
  PROVE  pos.dir * rule'.stop >= pos.dir * rule.stop
<1> DEFINE m == [price |-> price, bars |-> bars', day |-> day', atr |-> a]
<1>1. /\ day' = day + 1 /\ Refresh(pos, cash, m)
      /\ m.day = day' /\ m.bars = bars' /\ m.price = price
  BY DEF NextDay
<1>2. /\ pos.units > 0 /\ pos.status = "A" /\ rule.kind = "close" /\ rule.stop \in Int
  BY DEF AccountInv, RuleOK, TrailOK
<1>3. pos' = pos
  BY <1>1, <1>2, Typed DEF Refresh, UpdateHandPerUnit
<1>4. AccountInv' /\ price \in Int
  BY NextDayKeeps, Typed
<1>5. TrailOK(rule', pos, day') /\ BeatsTop(rule', pos)
  <2>1. TrailOK(rule', pos', day') /\ BeatsTop(rule', pos')
    <3> HIDE DEF m
    <3> QED
      BY <1>1, <1>4, RefreshTrails
  <2> QED
    BY <1>3, <2>1
<1>6. RuleOK(rule', pos, day')
  BY <1>3, <1>4 DEF AccountInv
<1>7. /\ rule'.stop \in Int
      /\ pos.dir * (rule'.stop - pos.last) >= -(2 * pos.atr)
      /\ day' - pos.lastIn > DaysToUrge => pos.dir * (rule'.stop - pos.last) >= 0
      /\ HasTop(pos) => pos.dir * rule'.stop >= pos.dir * TopStop(pos)
  BY <1>5, <1>6 DEF RuleOK, TrailOK, BeatsTop
<1>8. /\ pos \in Positions /\ pos.dir \in {-1, 1} /\ pos.dir # 0 /\ pos.atr > 0
      /\ pos.last \in Int /\ pos.lastIn \in Int /\ pos.atr \in Nat
      /\ day \in Int /\ DaysToUrge \in Int
  BY <1>2, Typed, AccountAssumption DEF PosOK, Positions
<1>9. CASE pos.dir * (rule.stop - pos.last) <= -(2 * pos.atr)
  <2>1. CASE pos.dir = 1
    BY <1>2, <1>7, <1>8, <1>9, <2>1
  <2>2. CASE pos.dir = -1
    BY <1>2, <1>7, <1>8, <1>9, <2>2
  <2> QED
    BY <1>8, <2>1, <2>2
<1>10. CASE day - pos.lastIn > DaysToUrge /\ pos.dir * (rule.stop - pos.last) <= 0
  <2>1. day' - pos.lastIn > DaysToUrge
    BY <1>1, <1>8, <1>10
  <2>2. CASE pos.dir = 1
    BY <1>2, <1>7, <1>8, <1>10, <2>1, <2>2
  <2>3. CASE pos.dir = -1
    BY <1>2, <1>7, <1>8, <1>10, <2>1, <2>3
  <2> QED
    BY <1>8, <2>2, <2>3
<1>11. CASE HasTop(pos) /\ pos.dir * rule.stop <= pos.dir * TopStop(pos)
  <2>1. TopStop(pos) \in Int
    BY <1>8, TopStopValue
  <2>2. pos.dir * rule'.stop >= pos.dir * TopStop(pos)
    BY <1>7, <1>11
  <2>3. \A x, y, z \in Int : x <= y /\ z >= y => z >= x
    OBVIOUS
  <2>4. /\ pos.dir * rule.stop \in Int /\ pos.dir * rule'.stop \in Int
        /\ pos.dir * TopStop(pos) \in Int
    BY <1>2, <1>7, <1>8, <2>1
  <2> QED
    BY <1>11, <2>2, <2>3, <2>4
<1> QED
  BY <1>9, <1>10, <1>11 DEF TrailOK

(* While nothing is traded the trailing stop never moves against the       *)
(* position (generateCloseRules): an evening's new bar, day, price or ATR  *)
(* gives no worse stop than the one that stands.  A best price of 0 is one *)
(* the code takes for none, so 0 must not be a price.                      *)
THEOREM StopOnlyTightens ==
  ASSUME 0 \notin Prices
  PROVE  Spec => StopTightens
<1>1. Init => AccountInv /\ TrailOK(rule, pos, day)
  BY AccountInit, TrailInit
<1>2. AccountInv /\ TrailOK(rule, pos, day) /\ [Next]_vars
        => (AccountInv /\ TrailOK(rule, pos, day))'
  BY AccountStep, TrailStep
<1>3. AccountInv /\ TrailOK(rule, pos, day) /\ [Next]_vars
        => [ rule.basis = "trail" /\ rule'.basis = "trail"
             /\ pos'.last = pos.last /\ pos'.units = pos.units
             => pos.dir * rule'.stop >= pos.dir * rule.stop ]_<<pos, rule>>
  <2> SUFFICES ASSUME AccountInv, TrailOK(rule, pos, day), [Next]_vars,
                      rule.basis = "trail", rule'.basis = "trail",
                      pos'.units = pos.units
               PROVE  \/ pos.dir * rule'.stop >= pos.dir * rule.stop
                      \/ UNCHANGED <<pos, rule>>
    OBVIOUS
  <2>1. /\ pos.units > 0 /\ pos.status = "A" /\ rule.stop \in Int
        /\ pos.dir \in Int
    BY Typed DEF AccountInv, RuleOK, TrailOK
  <2>2. rule' = rule => pos.dir * rule'.stop >= pos.dir * rule.stop
    BY <2>1
  <2>3. ASSUME NEW p \in Prices, Move(p) PROVE rule' = rule
    BY <2>3 DEF Move
  <2>4. ASSUME NEW a \in Atrs, NextDay(a)
        PROVE  pos.dir * rule'.stop >= pos.dir * rule.stop
    BY <2>4, EveningTightens
  <2>5. CASE UpdateTopPrice
    BY <2>2, <2>5 DEF UpdateTopPrice
  <2>6. ASSUME NEW dir \in {1, -1}, Open(dir) PROVE FALSE
    BY <2>1, <2>6 DEF Open
  <2>7. Add => FALSE
    <3> SUFFICES ASSUME Add PROVE FALSE
      OBVIOUS
    <3> DEFINE p == [pos EXCEPT !.units = 2, !.cost = @ + price,
                                !.last = price, !.lastIn = day]
    <3>1. pos.units = 1 /\ pos' = UpdateHandPerUnit(p, cash, Market.atr)
      BY DEF Add, Refresh
    <3>2. p.units = 2
      BY Typed DEF Positions
    <3> HIDE DEF p
    <3>3. pos'.units = 2
      BY <3>1, <3>2 DEF UpdateHandPerUnit
    <3> QED
      BY <3>1, <3>3
  <2>8. Stop => FALSE
    <3> SUFFICES ASSUME Stop PROVE FALSE
      OBVIOUS
    <3>1. rule'.basis = "none"
      BY DEF Stop, Refresh, ResetPosition, NoPosition, UpdateHandPerUnit, GenerateRules, NoRule
    <3> QED
      BY <3>1
  <2>9. StartForceSwitch => FALSE
    BY DEF StartForceSwitch, NoRule
  <2>10. CloseOld => FALSE
    BY <2>1 DEF CloseOld
  <2>11. ASSUME NEW gap \in Gaps, OpenNew(gap) PROVE FALSE
    BY <2>1, <2>11 DEF OpenNew
  <2>12. UNCHANGED vars => UNCHANGED <<pos, rule>>
    BY DEF vars, market
  <2> QED
    BY <2>2, <2>3, <2>4, <2>5, <2>6, <2>7, <2>8, <2>9, <2>10, <2>11, <2>12 DEF Next
<1> QED
  BY <1>1, <1>2, <1>3, PTL DEF Spec, StopTightens


(* A unit is added 1 ATR from the last entry or more, and half of the way  *)
(* of the best price, counted in 2 ATR, is not more than that.             *)
LEMMA GapCovers ==
  ASSUME NEW a \in Nat \ {0}, NEW d \in Int, NEW n \in Int,
         d >= a, d > 2 * a * (n - 1)
  PROVE  d >= n * a
<1>1. CASE n <= 1
  <2>1. n * a <= 1 * a
    BY <1>1, TimesGrows
  <2> QED
    BY <2>1
<1>2. CASE n >= 2
  <2>1. n * a <= (2 * (n - 1)) * a
    BY <1>2, TimesGrows
  <2>2. (2 * (n - 1)) * a = 2 * a * (n - 1)
    OBVIOUS
  <2> QED
    BY <2>1, <2>2
<1> QED
  BY <1>1, <1>2

LEMMA AddedStop ==
  ASSUME NEW a \in Nat \ {0}, NEW l \in Int, NEW x \in Int, NEW t \in Int,
         NEW s \in Int, NEW u \in Int,
         x - l >= a,
         s <= l - (2 - ((t - l) \div (2 * a))) * a,
         u >= x - 2 * a,
         t - x >= 2 * a => u >= x - (2 - ((t - x) \div (2 * a))) * a
  PROVE  u >= s
<1> DEFINE k == (t - l) \div (2 * a)
           j == (t - x) \div (2 * a)
<1>1. /\ k \in Int /\ 2 * a * k <= t - l
      /\ j \in Int /\ t - x < 2 * a * (j + 1)
  <2>1. t - l \in Int /\ t - x \in Int /\ 2 * a \in Nat \ {0}
    OBVIOUS
  <2>2. k \in Int /\ 2 * a * k <= t - l
    BY <2>1, QuotientBounds, Zenon
  <2>3. j \in Int /\ t - x < 2 * a * (j + 1)
    BY <2>1, QuotientBounds, Zenon
  <2> QED
    BY <2>2, <2>3
<1>2. s <= l - (2 - k) * a
  OBVIOUS
<1>3. t - x >= 2 * a => u >= x - (2 - j) * a
  OBVIOUS
<1> HIDE DEF k, j
<1>4. (2 - k) * a = 2 * a - k * a /\ (2 - j) * a = 2 * a - j * a
      /\ k * a \in Int /\ j * a \in Int
  BY <1>1
<1>5. CASE t - x >= 2 * a
  <2>1. x - l > 2 * a * (k - j - 1)
    <3>1. 2 * a * (k - j - 1) = 2 * a * k - 2 * a * (j + 1)
      BY <1>1
    <3>2. 2 * a * k \in Int /\ 2 * a * (j + 1) \in Int
      BY <1>1
    <3> QED
      BY <1>1, <3>1, <3>2
  <2>2. x - l >= (k - j) * a
    <3> DEFINE d == x - l
               n == k - j
    <3>1. d \in Int /\ n \in Int /\ d >= a /\ d > 2 * a * (n - 1)
      BY <1>1, <2>1
    <3> HIDE DEF d, n
    <3>2. d >= n * a
      BY <3>1, GapCovers
    <3> QED
      BY <3>2 DEF d, n
  <2>3. (k - j) * a = k * a - j * a
    BY <1>1
  <2> QED
    BY <1>2, <1>3, <1>4, <1>5, <2>2, <2>3
<1>6. CASE t - x < 2 * a
  <2>1. x - l > 2 * a * (k - 1)
    <3>1. 2 * a * (k - 1) = 2 * a * k - 2 * a /\ 2 * a * k \in Int
      BY <1>1
    <3> QED
      BY <1>1, <1>6, <3>1
  <2>2. x - l >= k * a
    BY <1>1, <2>1, GapCovers
  <2> QED
    BY <1>2, <1>4, <2>2
<1> QED
  BY <1>5, <1>6
LEMMA AddSecures ==
  ASSUME AccountInv, TrailOK(rule, pos, day), Add,
         rule.basis = "trail", Urge(pos, Market) = 0
  PROVE  pos.dir * rule'.stop >= pos.dir * rule.stop
<1> DEFINE p == [pos EXCEPT !.units = 2, !.cost = @ + price,
                            !.last = price, !.lastIn = day]
           a == pos.atr
<1>1. /\ pos.status = "A" /\ pos.units = 1
      /\ Meet(pos.dir, AddTrigger(pos, atr)) /\ Refresh(p, cash, Market)
      /\ UNCHANGED <<price, bars, day>>
  BY DEF Add, market
<1>2. /\ pos \in Positions /\ pos.dir \in {-1, 1} /\ a \in Nat \ {0}
      /\ pos.last \in Int /\ pos.lastIn \in Int /\ pos.top \in Int
      /\ price \in Int /\ day \in Int
  BY <1>1, Typed DEF PosOK, Positions
<1>3. /\ p.units = 2 /\ p.status = "A" /\ p.last = price /\ p.dir = pos.dir
      /\ p.atr = a /\ p.top = pos.top
  BY <1>1, <1>2 DEF Positions
<1> HIDE DEF p
<1>4. pos' = p /\ rule' = GenerateRules(p, Market)
  BY <1>1, <1>3 DEF Refresh, UpdateHandPerUnit
<1>5. AccountInv'
  BY AddKeeps
<1>6. /\ rule'.kind = "close" /\ rule'.basis = StopBasis(p, Market)
      /\ p \in Positions
  <2>1. p \in Positions
    BY <1>4, <1>5 DEF AccountInv, PosOK
  <2>2. GenerateRules(p, Market) = [NoRule EXCEPT !.kind = "close",
            !.stop = StopPrice(p, Market), !.basis = StopBasis(p, Market)]
    BY <1>3 DEF GenerateRules
  <2> QED
    BY <1>4, <2>1, <2>2 DEF NoRule
<1>7. rule'.stop \in Int /\ pos.dir * (rule'.stop - price) >= -(2 * a)
  BY <1>3, <1>4, <1>5, <1>6 DEF AccountInv, RuleOK
<1>8. Market.price = price /\ Market.bars = bars /\ Market.day = day
      /\ Market.atr = atr
  BY DEF Market
<1>9. BeatsTop(rule', p)
  BY <1>1, <1>2, <1>4, <1>5, <1>8, RefreshTrails
<1>10. HasTop(p) => rule'.basis = "trail"
  <2> SUFFICES ASSUME HasTop(p) PROVE StopBasis(p, Market) = "trail"
    BY <1>6
  <2>1. pos.dir * (pos.top - price) >= 2 * a
    BY <1>3 DEF HasTop
  <2>2. ~(pos.dir * pos.top < pos.dir * price)
    <3>1. CASE pos.dir = 1
      BY <1>2, <2>1, <3>1
    <3>2. CASE pos.dir = -1
      BY <1>2, <2>1, <3>2
    <3> QED
      BY <1>2, <3>1, <3>2
  <2>3. ~InProfit(p, Market)
    <3>1. GetAtr(p, atr) = a
      BY <1>2, <1>3 DEF GetAtr
    <3>2. pos.dir * (price - price) = 0
      BY <1>2
    <3> QED
      BY <1>2, <1>3, <1>8, <3>1, <3>2 DEF InProfit
  <2> QED
    BY <1>3, <2>2, <2>3 DEF StopBasis
<1>11. rule.stop \in Int /\ rule.kind = "close"
  BY DEF AccountInv, RuleOK, TrailOK
<1> DEFINE L == pos.dir * pos.last
           X == pos.dir * price
           T == pos.dir * pos.top
           S == pos.dir * rule.stop
           U == pos.dir * rule'.stop
<1>12. L \in Int /\ X \in Int /\ T \in Int /\ S \in Int /\ U \in Int
  BY <1>2, <1>7, <1>11
<1>13. X - L >= a
  <2>1. X >= pos.dir * (pos.last + pos.dir * a)
    BY <1>1, <1>2 DEF Meet, AddTrigger, GetAtr
  <2>2. CASE pos.dir = 1
    BY <1>2, <2>1, <2>2
  <2>3. CASE pos.dir = -1
    BY <1>2, <2>1, <2>3
  <2> QED
    BY <1>2, <2>2, <2>3
<1>14. U >= X - 2 * a
  <2>1. CASE pos.dir = 1
    BY <1>2, <1>7, <2>1
  <2>2. CASE pos.dir = -1
    BY <1>2, <1>7, <2>2
  <2> QED
    BY <1>2, <2>1, <2>2
<1>15. /\ pos.dir * (pos.top - pos.last) = T - L
       /\ pos.dir * (pos.top - price) = T - X
       /\ pos.dir * (rule.stop - pos.last) = S - L
  <2>1. CASE pos.dir = 1
    BY <1>2, <1>11, <2>1
  <2>2. CASE pos.dir = -1
    BY <1>2, <1>11, <2>2
  <2> QED
    BY <1>2, <2>1, <2>2
<1>16. CASE S - L <= -(2 * a)
  <2> HIDE DEF L, X, T, S, U, a
  <2> QED
    BY <1>2, <1>12, <1>13, <1>14, <1>16 DEF S, U
<1>17. ~(day - pos.lastIn > DaysToUrge)
  <2>1. GetAtr(pos, atr) = a /\ 2 * a # 0
    BY <1>2 DEF GetAtr
  <2>2. Urge(pos, Market) # 2 * a
    BY <2>1
  <2>3. ~(GetPassedBars(bars, pos.lastIn, day - 1 - pos.lastIn) >= DaysToUrge)
    BY <1>8, <2>1, <2>2 DEF Urge
  <2>4. BarsOK(bars, day)
    BY DEF AccountInv
  <2> QED
    BY <1>2, <2>3, <2>4, OldIsUrged
<1>18. CASE HasTop(pos) /\ pos.dir * rule.stop <= pos.dir * TopStop(pos)
  <2>1. pos.dir * TopStop(pos) = L - (2 - ((T - L) \div (2 * a))) * a
        /\ TopStop(pos) \in Int
    <3>1. pos.dir # 0 /\ pos.atr > 0
      BY <1>2
    <3> QED
      BY <1>2, <1>15, <3>1, TopStopValue
  <2>2. T - X >= 2 * a => U >= X - (2 - ((T - X) \div (2 * a))) * a
    <3> SUFFICES ASSUME T - X >= 2 * a
                 PROVE  U >= X - (2 - ((T - X) \div (2 * a))) * a
      OBVIOUS
    <3>1. HasTop(p)
      BY <1>3, <1>15, <1>18 DEF HasTop
    <3>2. pos.dir * TopStop(p) = X - (2 - ((T - X) \div (2 * a))) * a
      <4>1. p.dir # 0 /\ p.atr > 0
        BY <1>2, <1>3
      <4>2. p.dir * TopStop(p) = p.dir * p.last
              - (2 - ((p.dir * (p.top - p.last)) \div (2 * p.atr))) * p.atr
        BY <1>6, <4>1, TopStopValue
      <4> QED
        BY <1>3, <1>15, <4>2
    <3>3. pos.dir * rule'.stop >= pos.dir * TopStop(p)
      BY <1>3, <1>9, <1>10, <3>1 DEF BeatsTop
    <3> QED
      BY <3>2, <3>3
  <2>3. S <= L - (2 - ((T - L) \div (2 * a))) * a
    BY <1>18, <2>1
  <2> HIDE DEF L, X, T, S, U, a
  <2>4. U >= S
    BY <1>2, <1>12, <1>13, <1>14, <2>2, <2>3, AddedStop DEF a
  <2> QED
    BY <2>4 DEF S, U
<1> QED
  BY <1>15, <1>16, <1>17, <1>18 DEF TrailOK

(* A unit added never loosens the stop (StrategyImpl 51, generateAddRules  *)
(* and generateCloseRules), whatever the best price gave the stop of the   *)
(* first unit; only the stop of an old position may be given up again.     *)
THEOREM AddNeverLoosens ==
  ASSUME 0 \notin Prices
  PROVE  Spec => AddTightens
<1>1. Init => AccountInv /\ TrailOK(rule, pos, day)
  BY AccountInit, TrailInit
<1>2. AccountInv /\ TrailOK(rule, pos, day) /\ [Next]_vars
        => (AccountInv /\ TrailOK(rule, pos, day))'
  BY AccountStep, TrailStep
<1>3. AccountInv /\ TrailOK(rule, pos, day) /\ [Next]_vars
        => [ pos.units = 1 /\ pos'.units = 2
             /\ rule.basis = "trail" /\ Urge(pos, Market) = 0
             => pos.dir * rule'.stop >= pos.dir * rule.stop ]_<<pos, rule>>
  <2> SUFFICES ASSUME AccountInv, TrailOK(rule, pos, day), [Next]_vars,
                      pos.units = 1, pos'.units = 2,
                      rule.basis = "trail", Urge(pos, Market) = 0
               PROVE  pos.dir * rule'.stop >= pos.dir * rule.stop
    OBVIOUS
  <2>1. pos \in Positions /\ pos.status = "A"
    BY Typed DEF AccountInv, RuleOK, TrailOK
  <2>2. pos' # pos
    OBVIOUS
  <2>3. ASSUME NEW x \in Prices, Move(x) PROVE FALSE
    BY <2>2, <2>3 DEF Move
  <2>4. ASSUME NEW b \in Atrs, NextDay(b) PROVE FALSE
    BY <2>1, <2>2, <2>4 DEF NextDay, Refresh, UpdateHandPerUnit
  <2>5. UpdateTopPrice => FALSE
    BY <2>1 DEF UpdateTopPrice, Positions
  <2>6. ASSUME NEW dir \in {1, -1}, Open(dir) PROVE FALSE
    BY <2>6 DEF Open
  <2>7. CASE Add
    BY <2>7, AddSecures
  <2>8. Stop => FALSE
    <3> SUFFICES ASSUME Stop PROVE pos'.units = 0
      OBVIOUS
    <3>1. pos' = UpdateHandPerUnit(ResetPosition(pos),
                   cash + CashAmount(pos, Deal(pos.dir)), Market.atr)
      BY DEF Stop, Refresh
    <3> QED
      BY <3>1 DEF UpdateHandPerUnit, ResetPosition, NoPosition
  <2>9. StartForceSwitch => FALSE
    BY <2>1 DEF StartForceSwitch, Positions
  <2>10. CloseOld => FALSE
    BY <2>1 DEF CloseOld
  <2>11. ASSUME NEW gap \in Gaps, OpenNew(gap) PROVE FALSE
    BY <2>1, <2>11 DEF OpenNew
  <2>12. UNCHANGED vars => FALSE
    BY <2>2 DEF vars
  <2> QED
    BY <2>3, <2>4, <2>5, <2>6, <2>7, <2>8, <2>9, <2>10, <2>11, <2>12 DEF Next
<1> QED
  BY <1>1, <1>2, <1>3, PTL DEF Spec, AddTightens
=============================================================================
