--------------------------- MODULE RuleLoop_proofs ---------------------------
(***************************************************************************)
(* What the trading loop keeps true for every set of commodities and every *)
(* bound.  In every environment: the types, the shape of a position under  *)
(* a main switch, and that at most one rule of a contract waits for an     *)
(* answer.  In the environments that are Calm, see there: one command of a *)
(* commodity at a time, the book in line with the account, the rules in    *)
(* line with the position, the position in shape, and the portfolio as an  *)
(* implementation of Ledger.                                               *)
(***************************************************************************)
EXTENDS RuleLoop, FiniteSetTheorems, TLAPS

-----------------------------------------------------------------------------
(* The operators on positions.                                             *)

(* A trade report keeps a position a position.                             *)
LEMMA UpdatePositionType ==
  ASSUME NEW p \in Position, NEW t \in Trade
  PROVE  UpdatePosition(p, t) \in Position
<1>a. p.units + 1 \in Nat
  BY DEF Position
<1> USE DEF Position, Trade, Dirs, Active, Refresh, Expire, Blank, Keys
<1>1. StartForceOpen(p) \in Position
  BY DEF StartForceOpen
<1>2. FinishSwitch(p, t) \in Position
  BY DEF FinishSwitch
<1>3. FirstUnit(p, t) \in Position
  <2>1. CASE t.op = Open
    BY <1>a, <2>1 DEF FirstUnit
  <2>2. CASE t.op # Open
    BY <1>a, <2>2 DEF FirstUnit
  <2> QED
    BY <2>1, <2>2
<1>4. AddUnit(p, t) \in Position
  BY <1>a DEF AddUnit
<1>5. ResetPosition(p) \in Position
  BY DEF ResetPosition
<1> QED
  BY <1>1, <1>2, <1>3, <1>4, <1>5 DEF UpdatePosition

(* Sizing a position changes nothing but its hands per unit.               *)
LEMMA SizedType ==
  ASSUME TypeOK, NEW s \in Symbols
  PROVE  /\ Sized(s) \in Position
         /\ Sized(s).gen = pos[s].gen
         /\ Sized(s).dir = pos[s].dir
         /\ Sized(s).status = pos[s].status
BY PositionAssumption DEF TypeOK, Sized, UpdateHandPerUnit, Position

(* The rules generated for a position are rules.                           *)
LEMMA NewRulesType ==
  ASSUME NEW p \in Position, NEW full
  PROVE  NewRules(p, full) \in SUBSET Rule
<1>1. Hands(p) \in Nat /\ p.hand \in Nat
  BY DEF Hands, Position
<1>2. ASSUME NEW c \in GenerateRules(p, full) PROVE c \in Command
  BY <1>1 DEF GenerateRules, CloseOldPosition, OpenNewPosition, OpenRules,
              CloseRules, Order, Command, Dirs, Open, Close, Long, Short
<1>3. ASSUME NEW c \in Command PROVE NewRule(c) \in Rule
  BY DEF NewRule, Rule
<1> QED
  BY <1>2, <1>3 DEF NewRules

(* The rules of a position in a main switch are for a contract that exists. *)
LEMMA RuleKeyType ==
  ASSUME TypeOK, SwitchWellFormed, NEW s \in Symbols,
         NEW p \in Position, p.gen = pos[s].gen, p.status = pos[s].status
  PROVE  RuleKey(s, p) \in Keys
<1>1. CASE p.status = Refresh
  <2>1. pos[s].gen < MaxGen
    BY <1>1 DEF SwitchWellFormed, Refresh, Active
  <2>2. p.gen + 1 \in Gens
    BY <2>1, PositionAssumption DEF TypeOK, Position, Gens
  <2> QED
    BY <1>1, <2>2 DEF RuleKey, Key, Keys
<1>2. CASE p.status # Refresh
  BY <1>2 DEF RuleKey, Key, Keys, Position
<1> QED
  BY <1>1, <1>2

-----------------------------------------------------------------------------
(* Type correctness, together with the shape of a position under a main    *)
(* switch: it makes the next generation of a contract exist where the code *)
(* reads it.                                                               *)
TypeInv == TypeOK /\ SwitchWellFormed

LEMMA TypeInit == Init => TypeInv
<1> SUFFICES ASSUME Init PROVE TypeInv
  OBVIOUS
<1>1. NewPosition \in Position
  BY PositionAssumption DEF NewPosition, Position, Gens, Blank, Active
<1>2. Idle \in [step : {"clear", "add"}, msg : Trade] \cup {Idle}
  OBVIOUS
<1>3. hold \in [Keys -> [Dirs -> Nat]] /\ errs \in [Keys -> Nat]
  BY DEF Init
<1>4. /\ pos \in [Symbols -> Position] /\ nm \in [Symbols -> BOOLEAN]
      /\ rules \in [Keys -> SUBSET Rule] /\ trades \in Seq(Trade)
  BY <1>1 DEF Init
<1>5. TypeOK
  BY <1>2, <1>3, <1>4 DEF Init, TypeOK
<1>6. SwitchWellFormed
  BY DEF Init, SwitchWellFormed, NewPosition
<1> QED
  BY <1>5, <1>6 DEF TypeInv

(* Sizing positions disturbs neither their type nor a switch.              *)
LEMMA PositionsSized ==
  ASSUME TypeInv, NEW S \in SUBSET Symbols, nm' = nm,
         pos' = [s \in Symbols |-> IF s \in S THEN Sized(s) ELSE pos[s]]
  PROVE  pos' \in [Symbols -> Position] /\ SwitchWellFormed'
<1>1. ASSUME NEW s \in Symbols
      PROVE  /\ pos'[s] \in Position
             /\ pos'[s].gen = pos[s].gen
             /\ pos'[s].dir = pos[s].dir
             /\ pos'[s].status = pos[s].status
  BY SizedType DEF TypeInv, TypeOK
<1> QED
  BY <1>1 DEF TypeInv, SwitchWellFormed

LEMMA VisitType ==
  ASSUME TypeInv, NEW k \in Keys, Visit(k),
         pos' \in [Symbols -> Position], rules' \in [Keys -> SUBSET Rule],
         orders' \subseteq WorkingOrder
  PROVE  TypeOK'
BY DEF TypeInv, TypeOK, Visit, listenerVars

(* The executor's steps.                                                   *)
LEMMA ExecutorType == TypeInv /\ Executor => TypeInv'
<1> SUFFICES ASSUME TypeInv, Executor PROVE TypeInv'
  OBVIOUS
<1> USE DEF TypeInv
<1>0. /\ rules \in [Keys -> SUBSET Rule]
      /\ pos \in [Symbols -> Position]
      /\ orders \subseteq WorkingOrder
  BY DEF TypeOK
<1>1. CASE StartPass
  <2>1. CASE NeedsInit
    <3>1. PICK done \in SUBSET Symbols : InitRules(done)
      BY <1>1, <2>1 DEF StartPass
    <3>2. pos' = [s \in Symbols |-> IF s \in done THEN Sized(s) ELSE pos[s]]
      BY <3>1 DEF InitRules
    <3>3. nm' = nm /\ afford' = afford
      BY <3>1 DEF InitRules
    <3>4. pos' \in [Symbols -> Position] /\ SwitchWellFormed'
      BY <3>2, <3>3, PositionsSized
    <3>5. ASSUME NEW s \in done PROVE RuleKey(s, pos'[s]) \in Keys
      BY <3>2, <3>4, RuleKeyType, SizedType
    <3>6. listed' = {RuleKey(s, pos'[s]) : s \in done}
      BY <3>1, <3>2 DEF InitRules
    <3>7. rules' \in [Keys -> SUBSET Rule]
      <4>1. ASSUME NEW k \in Keys
            PROVE  NewRules(pos'[k.sym], IsFullPortfolio(pos)) \in SUBSET Rule
        BY <3>4, NewRulesType DEF Keys
      <4>2. rules' = [k \in Keys |->
               IF \E s \in done : k = RuleKey(s, pos'[s])
               THEN NewRules(pos'[k.sym], IsFullPortfolio(pos)) ELSE {}]
        BY <3>1, <3>2 DEF InitRules
      <4> QED
        BY <4>1, <4>2
    <3> QED
      BY <1>1, <2>1, <3>3, <3>4, <3>5, <3>6, <3>7
      DEF StartPass, TypeOK, executorVars, listenerVars
  <2>2. CASE ~NeedsInit
    BY <1>1, <2>2 DEF StartPass, TypeOK, SwitchWellFormed, portfolioVars,
                      mapVars, listenerVars
  <2> QED
    BY <2>1, <2>2
<1>2. CASE PassFails
  <2>1. rules' \in [Keys -> SUBSET Rule]
    <3>1. ASSUME NEW r \in Rule PROVE Unmark(r) \in Rule
      BY DEF Unmark, Rule
    <3> QED
      BY <1>2, <1>0, <3>1 DEF PassFails
  <2> QED
    BY <1>2, <2>1 DEF PassFails, TypeOK, SwitchWellFormed, portfolioVars,
                      listenerVars, worldVars
<1>3. CASE EndPass
  BY <1>3 DEF EndPass, TypeOK, SwitchWellFormed, portfolioVars, mapVars,
              listenerVars, worldVars
<1>4. CASE EndMark
  BY <1>4 DEF EndMark, TypeOK, SwitchWellFormed, portfolioVars, mapVars,
              listenerVars, worldVars
<1>5. ASSUME NEW k \in Keys, VisitEmpty(k) PROVE TypeInv'
  <2>s. k.sym \in Symbols
    BY DEF Keys
  <2>1. CASE pos' = [pos EXCEPT ![k.sym] = Sized(k.sym)] /\
             rules' = [rules EXCEPT ![k] =
               NewRules(Sized(k.sym), IsFullPortfolio(pos))]
    <3>1. pos' = [s \in Symbols |-> IF s \in {k.sym} THEN Sized(s) ELSE pos[s]]
      BY <2>1, <1>0
    <3>2. nm' = nm
      BY <1>5 DEF VisitEmpty, Visit
    <3>3. pos' \in [Symbols -> Position] /\ SwitchWellFormed'
      BY <2>s, <3>1, <3>2, PositionsSized
    <3>4. NewRules(Sized(k.sym), IsFullPortfolio(pos)) \in SUBSET Rule
      BY <2>s, SizedType, NewRulesType
    <3>5. rules' \in [Keys -> SUBSET Rule]
      BY <1>0, <2>1, <3>4
    <3> QED
      BY <1>0, <1>5, <3>3, <3>5, VisitType DEF VisitEmpty
  <2>2. CASE UNCHANGED <<pos, rules>>
    BY <1>0, <1>5, <2>2, VisitType DEF VisitEmpty, Visit, SwitchWellFormed
  <2> QED
    BY <1>5, <2>1, <2>2 DEF VisitEmpty
<1>6. ASSUME NEW k \in Keys, VisitQuiet(k) PROVE TypeInv'
  BY <1>0, <1>6, VisitType DEF VisitQuiet, Visit, SwitchWellFormed
<1>7. ASSUME NEW k \in Keys, VisitOld(k) PROVE TypeInv'
  BY <1>0, <1>7, VisitType DEF VisitOld, Without, Visit, SwitchWellFormed
<1>8. ASSUME NEW k \in Keys, NEW r \in rules[k], VisitFire(k, r) PROVE TypeInv'
  <2>1. r \in Rule
    BY <1>0
  <2>2. [r EXCEPT !.mark = "hit"] \in Rule
    BY <2>1 DEF Rule
  <2>3. rules' \in [Keys -> SUBSET Rule]
    BY <1>0, <1>8, <2>2 DEF VisitFire, Replace
  <2>4. FreeId \in 1..MaxOrders
    BY <1>8 DEF VisitFire, FreeId
  <2>5. r.cmd \in Command /\ r.cmd.vol \in Nat
    BY <2>1 DEF Rule, Command
  <2>6. orders' \subseteq WorkingOrder
    BY <1>0, <1>8, <2>4, <2>5 DEF VisitFire, WorkingOrder
  <2> QED
    BY <1>0, <1>8, <2>3, <2>6, VisitType DEF VisitFire, Visit, SwitchWellFormed
<1>9. ASSUME NEW k \in Keys, NEW r \in rules[k], MarkTriggered(k, r)
      PROVE  TypeInv'
  <2>1. r \in Rule
    BY <1>0
  <2>2. /\ [r EXCEPT !.triggered = TRUE, !.mark = "half"] \in Rule
        /\ [r EXCEPT !.triggered = TRUE, !.at = "now", !.mark = "no"] \in Rule
    BY <2>1 DEF Rule
  <2>3. rules' \in [Keys -> SUBSET Rule]
    BY <1>0, <1>9, <2>2 DEF MarkTriggered, Replace
  <2> QED
    BY <1>9, <2>3 DEF MarkTriggered, TypeOK, SwitchWellFormed, portfolioVars,
                      executorVars, listenerVars, worldVars
<1>10. ASSUME NEW k \in Keys, NEW r \in rules[k], MarkTime(k, r)
       PROVE  TypeInv'
  <2>1. r \in Rule
    BY <1>0
  <2>2. [r EXCEPT !.at = "now", !.mark = "no"] \in Rule
    BY <2>1 DEF Rule
  <2>3. rules' \in [Keys -> SUBSET Rule]
    BY <1>0, <1>10, <2>2 DEF MarkTime, Replace
  <2> QED
    BY <1>10, <2>3 DEF MarkTime, TypeOK, SwitchWellFormed, portfolioVars,
                       executorVars, listenerVars, worldVars
<1> QED
  BY <1>1, <1>2, <1>3, <1>4, <1>5, <1>6, <1>7, <1>8, <1>9, <1>10 DEF Executor

(* A trade report leaves a switched position with a successor to go to.    *)
LEMMA UpdateSwitch ==
  ASSUME TypeInv, NEW t \in Trade, NEW s \in Symbols
  PROVE  LET p == UpdatePosition(pos[s], t)
         IN  /\ StillNext(s, p) => p.gen < MaxGen
             /\ p.status # Active => StillNext(s, p) /\ p.dir # Blank
<1> DEFINE p == UpdatePosition(pos[s], t)
<1>0. pos[s] \in Position /\ nm[s] \in BOOLEAN
  BY DEF TypeInv, TypeOK
<1>1. /\ nm[s] => pos[s].gen < MaxGen
      /\ pos[s].status # Active => nm[s] /\ pos[s].dir # Blank
  BY DEF TypeInv, SwitchWellFormed
<1>2. CASE pos[s].status = Expire
  BY <1>0, <1>1, <1>2 DEF UpdatePosition, StartForceOpen, StillNext, Position,
                          Active, Expire, Refresh
<1>3. CASE pos[s].status = Refresh
  BY <1>0, <1>1, <1>3 DEF UpdatePosition, FinishSwitch, StillNext, Position,
                          Active, Expire, Refresh
<1>4. CASE pos[s].status = Active
  <2>1. p.status = Active /\ p.gen = pos[s].gen
    BY <1>0, <1>4 DEF UpdatePosition, FirstUnit, AddUnit, ResetPosition,
                      Position, Active, Expire, Refresh
  <2> QED
    BY <1>1, <2>1 DEF StillNext
<1> QED
  BY <1>0, <1>2, <1>3, <1>4 DEF Position

(* The listeners' steps.                                                   *)
LEMMA ListenerType == TypeInv /\ Listener => TypeInv'
<1> SUFFICES ASSUME TypeInv, Listener PROVE TypeInv'
  OBVIOUS
<1>0. /\ rules \in [Keys -> SUBSET Rule]
      /\ pos \in [Symbols -> Position]
      /\ nm \in [Symbols -> BOOLEAN]
      /\ trades \in Seq(Trade)
      /\ listed \subseteq Keys
  BY DEF TypeInv, TypeOK
<1>h. ASSUME trades # <<>>
      PROVE  /\ Head(trades) \in Trade /\ Tail(trades) \in Seq(Trade)
             /\ Head(trades).key.sym \in Symbols
  <2>1. Head(trades) \in Trade /\ Tail(trades) \in Seq(Trade)
    BY <1>0, <1>h
  <2> QED
    BY <2>1 DEF Trade, Keys
<1>m. ASSUME lst.step \in {"clear", "add"}
      PROVE  /\ lst \in [step : {"clear", "add"}, msg : Trade]
             /\ lst.msg \in Trade /\ lst.msg.key \in Keys
             /\ lst.msg.key.sym \in Symbols
  BY <1>m DEF TypeInv, TypeOK, Idle, Trade, Keys
<1>1. CASE OnTrade
  <2> DEFINE t == Head(trades)
             s == t.key.sym
             p == UpdatePosition(pos[s], t)
  <2>1. t \in Trade /\ s \in Symbols /\ Tail(trades) \in Seq(Trade)
    BY <1>1, <1>h DEF OnTrade
  <2>2. p \in Position
    BY <1>0, <2>1, UpdatePositionType
  <2>3. /\ StillNext(s, p) => p.gen < MaxGen
        /\ p.status # Active => StillNext(s, p) /\ p.dir # Blank
    BY <2>1, UpdateSwitch
  <2>4. /\ pos' = [pos EXCEPT ![s] = p]
        /\ nm' = [nm EXCEPT ![s] = StillNext(s, p)]
        /\ lst' = [step |-> "clear", msg |-> t]
    BY <1>1 DEF OnTrade
  <2>5. pos' \in [Symbols -> Position] /\ lst' \in [step : {"clear", "add"}, msg : Trade]
    BY <1>0, <2>1, <2>2, <2>4
  <2>6. StillNext(s, p) \in BOOLEAN
    BY <1>0, <2>1 DEF StillNext
  <2>7. nm' \in [Symbols -> BOOLEAN]
    BY <1>0, <2>1, <2>4, <2>6
  <2>8. afford' \in [Symbols -> HandSizes]
    BY <1>1 DEF OnTrade, TypeInv, TypeOK
  <2>9. SwitchWellFormed'
    BY <1>0, <2>1, <2>3, <2>4 DEF TypeInv, SwitchWellFormed
  <2> QED
    BY <1>1, <2>1, <2>5, <2>7, <2>8, <2>9
    DEF OnTrade, TypeInv, TypeOK, mapVars, executorVars
<1>2. CASE DropTrade
  BY <1>2, <1>h DEF DropTrade, TypeInv, TypeOK, SwitchWellFormed,
                    portfolioVars, mapVars, executorVars, listenerVars
<1>3. CASE ClearContractRule
  <2>1. lst \in [step : {"clear", "add"}, msg : Trade] /\ lst.msg.key \in Keys
    BY <1>3, <1>m DEF ClearContractRule
  <2>2. lst' \in [step : {"clear", "add"}, msg : Trade]
    BY <1>3, <2>1 DEF ClearContractRule
  <2>3. rules' \in [Keys -> SUBSET Rule]
    BY <1>0, <1>3, <2>1 DEF ClearContractRule, Without
  <2>4. listed' \subseteq Keys /\ dirty' \in BOOLEAN
    BY <1>0, <1>3 DEF ClearContractRule, Restructure, TypeInv, TypeOK
  <2> QED
    BY <1>3, <2>2, <2>3, <2>4 DEF ClearContractRule, TypeInv, TypeOK,
       SwitchWellFormed, portfolioVars, worldVars
<1>4. CASE AddRules
  <2> DEFINE s == lst.msg.key.sym
             p == Sized(s)
             fresh == NewRules(p, IsFullPortfolio(pos))
             k == RuleKey(s, p)
  <2>1. s \in Symbols
    BY <1>4, <1>m DEF AddRules
  <2>2. /\ pos' = [pos EXCEPT ![s] = p]
        /\ rules' = [rules EXCEPT ![k] = @ \cup fresh]
        /\ Restructure(IF fresh = {} THEN listed ELSE listed \cup {k})
        /\ lst' = Idle /\ nm' = nm
    BY <1>4 DEF AddRules
  <2>3. p \in Position /\ k \in Keys
    BY <2>1, SizedType, RuleKeyType DEF TypeInv
  <2>4. fresh \in SUBSET Rule
    BY <2>3, NewRulesType
  <2>5. pos' \in [Symbols -> Position] /\ SwitchWellFormed'
    <3>1. pos' = [x \in Symbols |-> IF x \in {s} THEN Sized(x) ELSE pos[x]]
      BY <1>0, <2>2
    <3> QED
      BY <2>1, <2>2, <3>1, PositionsSized
  <2>6. rules' \in [Keys -> SUBSET Rule]
    BY <1>0, <2>2, <2>3, <2>4
  <2>7. listed' \subseteq Keys /\ dirty' \in BOOLEAN
    BY <1>0, <2>2, <2>3 DEF Restructure, TypeInv, TypeOK
  <2> QED
    BY <1>4, <2>2, <2>5, <2>6, <2>7 DEF AddRules, TypeInv, TypeOK, worldVars
<1>5. CASE AddRulesFails
  <2>1. lst.msg \in Trade
    BY <1>5, <1>m DEF AddRulesFails
  <2>2. [lst.msg EXCEPT !.again = TRUE] \in Trade
    BY <2>1 DEF Trade
  <2>3. trades' \in Seq(Trade)
    BY <1>0, <1>5, <2>2 DEF AddRulesFails
  <2> QED
    BY <1>5, <2>3 DEF AddRulesFails, TypeInv, TypeOK, SwitchWellFormed,
       portfolioVars, mapVars, executorVars
<1> QED
  BY <1>1, <1>2, <1>3, <1>4, <1>5 DEF Listener

(* The error listener, the cleaner and the switcher.                       *)
LEMMA OnCommandFailedType ==
  ASSUME TypeInv, NEW k \in Keys, OnCommandFailed(k)
  PROVE  TypeInv'
<1>0. rules \in [Keys -> SUBSET Rule] /\ errs \in [Keys -> Nat]
  BY DEF TypeInv, TypeOK
<1>1. Untriggered(rules[k]) \in SUBSET Rule
  <2>1. ASSUME NEW r \in Rule PROVE [r EXCEPT !.triggered = FALSE] \in Rule
    BY DEF Rule
  <2> QED
    BY <1>0, <2>1 DEF Untriggered
<1>2. rules' \in [Keys -> SUBSET Rule]
  BY <1>0, <1>1 DEF OnCommandFailed, AfterFailure
<1>3. errs' \in [Keys -> Nat]
  BY <1>0 DEF OnCommandFailed
<1> QED
  BY <1>2, <1>3 DEF OnCommandFailed, TypeInv, TypeOK, SwitchWellFormed,
     portfolioVars, executorVars, listenerVars

LEMMA ClearOutstandingCommandsType ==
  ASSUME TypeInv, NEW k \in Keys, ClearOutstandingCommands(k)
  PROVE  TypeInv'
<1>0. rules \in [Keys -> SUBSET Rule]
  BY DEF TypeInv, TypeOK
<1>1. SetOld(rules[k]) \in SUBSET Rule
  <2>1. ASSUME NEW r \in Rule
        PROVE  [r EXCEPT !.old = @ \/ (r.triggered /\ r.at = "past")] \in Rule
    BY DEF Rule
  <2> QED
    BY <1>0, <2>1 DEF SetOld
<1>2. rules' \in [Keys -> SUBSET Rule]
  BY <1>0, <1>1 DEF ClearOutstandingCommands
<1>3. cleaner' \in BOOLEAN
  BY DEF ClearOutstandingCommands
<1> QED
  BY <1>2, <1>3 DEF ClearOutstandingCommands, TypeInv, TypeOK,
     SwitchWellFormed, portfolioVars, executorVars, worldVars

LEMMA MainSwitcherRunType ==
  ASSUME TypeInv, NEW scanned \in SUBSET Symbols, NEW aged \in SUBSET Symbols,
         MainSwitcherRun(scanned, aged)
  PROVE  TypeInv'
<1> DEFINE flat == {s \in Symbols : (nm[s] \/ s \in scanned) /\ pos[s].dir = Blank}
           gone == {Key(s, pos[s].gen) : s \in aged}
<1>0. /\ pos \in [Symbols -> Position]
      /\ nm \in [Symbols -> BOOLEAN]
      /\ rules \in [Keys -> SUBSET Rule]
      /\ listed \subseteq Keys
  BY DEF TypeInv, TypeOK
<1>1. /\ nm' = [s \in Symbols |-> (nm[s] \/ s \in scanned) /\ s \notin flat]
      /\ pos' = [s \in Symbols |->
           CASE s \in flat -> [pos[s] EXCEPT !.gen = @ + 1]
             [] s \in aged -> [pos[s] EXCEPT !.status = Expire]
             [] OTHER      -> pos[s]]
      /\ listed' = listed \ gone
      /\ rules' = [k \in Keys |-> IF k \in gone THEN {} ELSE rules[k]]
  BY DEF MainSwitcherRun
<1>p. ASSUME NEW s \in Symbols
      PROVE  pos'[s] = IF s \in flat THEN [pos[s] EXCEPT !.gen = @ + 1]
                       ELSE IF s \in aged THEN [pos[s] EXCEPT !.status = Expire]
                       ELSE pos[s]
  <2>1. ~(s \in flat /\ s \in aged)
    BY DEF MainSwitcherRun, IsPositionOld
  <2> HIDE DEF flat
  <2> QED
    BY <1>1, <2>1
<1>2. ASSUME NEW s \in Symbols
      PROVE  /\ pos'[s] \in Position
             /\ nm'[s] => pos'[s].gen < MaxGen
             /\ pos'[s].status # Active => nm'[s] /\ pos'[s].dir # Blank
  <2>0. pos[s] \in Position
    BY <1>0
  <2>1. /\ nm[s] => pos[s].gen < MaxGen
        /\ pos[s].status # Active => nm[s] /\ pos[s].dir # Blank
        /\ s \in scanned => pos[s].gen < MaxGen
        /\ s \in aged => nm[s] /\ pos[s].dir # Blank
    BY DEF TypeInv, SwitchWellFormed, MainSwitcherRun, IsPositionOld
  <2>2. CASE s \in flat
    <3>1. pos[s].gen + 1 \in Gens
      BY <2>0, <2>1, <2>2, PositionAssumption DEF Gens, Position
    <3>2. pos'[s] = [pos[s] EXCEPT !.gen = @ + 1] /\ ~nm'[s]
      <4> HIDE DEF flat
      <4>1. pos'[s] = [pos[s] EXCEPT !.gen = @ + 1]
        BY <1>p, <2>2
      <4>2. ~nm'[s]
        BY <1>1, <2>2
      <4> QED
        BY <4>1, <4>2
    <3>3. pos'[s] \in Position /\ pos'[s].status = pos[s].status
      BY <2>0, <3>1, <3>2 DEF Position
    <3> QED
      BY <2>1, <2>2, <3>2, <3>3
  <2>3. CASE s \notin flat /\ s \in aged
    <3>1. pos'[s] = [pos[s] EXCEPT !.status = Expire] /\ nm'[s]
      BY <1>1, <1>p, <2>1, <2>3
    <3>2. /\ pos'[s] \in Position
          /\ pos'[s].gen = pos[s].gen /\ pos'[s].dir = pos[s].dir
      BY <2>0, <3>1 DEF Position, Expire
    <3> QED
      BY <2>1, <2>3, <3>1, <3>2
  <2>4. CASE s \notin flat /\ s \notin aged
    <3>1. pos'[s] = pos[s] /\ (nm'[s] <=> nm[s] \/ s \in scanned)
      BY <1>1, <1>p, <2>4
    <3> QED
      BY <2>0, <2>1, <3>1
  <2> QED
    BY <2>2, <2>3, <2>4
<1>3. pos' \in [Symbols -> Position] /\ SwitchWellFormed'
  BY <1>1, <1>2 DEF SwitchWellFormed
<1>4. nm' \in [Symbols -> BOOLEAN]
  BY <1>0, <1>1
<1>5. rules' \in [Keys -> SUBSET Rule] /\ listed' \subseteq Keys
  BY <1>0, <1>1
<1> QED
  BY <1>3, <1>4, <1>5 DEF MainSwitcherRun, TypeInv, TypeOK, executorVars,
                          listenerVars

(* The outside world's steps.                                              *)
LEMMA ExecutesType ==
  ASSUME TypeInv, NEW o \in orders, NEW q \in 1..o.left, Executes(o, q)
  PROVE  hold' \in [Keys -> [Dirs -> Nat]] /\ orders' \subseteq WorkingOrder
<1>0. /\ o \in WorkingOrder /\ orders \subseteq WorkingOrder
      /\ hold \in [Keys -> [Dirs -> Nat]]
  BY DEF TypeInv, TypeOK
<1>1. /\ o.key \in Keys /\ o.cmd.dir \in Dirs /\ o.left \in Nat /\ q \in Nat
      /\ o.left - q \in Nat
  BY <1>0 DEF WorkingOrder, Command
<1>2. [o EXCEPT !.left = @ - q] \in WorkingOrder
  BY <1>0, <1>1 DEF WorkingOrder
<1>3. orders' \subseteq WorkingOrder
  BY <1>0, <1>2 DEF Executes
<1>4. hold[o.key] \in [Dirs -> Nat] /\ hold[o.key][o.cmd.dir] \in Nat
  BY <1>0, <1>1
<1> DEFINE n == hold[o.key][o.cmd.dir]
           m == IF o.cmd.op = Open THEN n + q ELSE IF n >= q THEN n - q ELSE 0
<1>5. m \in Nat
  BY <1>1, <1>4
<1>6. hold' = [hold EXCEPT ![o.key] = [@ EXCEPT ![o.cmd.dir] = m]]
  BY <1>0, <1>1 DEF Executes, Held
<1>7. [hold[o.key] EXCEPT ![o.cmd.dir] = m] \in [Dirs -> Nat]
  BY <1>4, <1>5
<1> QED
  BY <1>0, <1>3, <1>6, <1>7

LEMMA WorldType == TypeInv /\ World => TypeInv'
<1> SUFFICES ASSUME TypeInv, World PROVE TypeInv'
  OBVIOUS
<1>0. /\ rules \in [Keys -> SUBSET Rule]
      /\ orders \subseteq WorkingOrder
      /\ trades \in Seq(Trade)
      /\ errs \in [Keys -> Nat]
  BY DEF TypeInv, TypeOK
<1>1. ASSUME NEW s \in Symbols, Age(s) PROVE TypeInv'
  <2>1. ASSUME NEW r \in Rule, NEW k \in Keys
        PROVE  [r EXCEPT !.at = IF @ = "now" /\ k.sym = s THEN "past" ELSE @]
                 \in Rule
    BY DEF Rule
  <2>2. rules' \in [Keys -> SUBSET Rule]
    BY <1>0, <1>1, <2>1 DEF Age
  <2> QED
    BY <1>1, <2>2 DEF Age, TypeInv, TypeOK, SwitchWellFormed, portfolioVars,
                      executorVars, listenerVars, worldVars
<1>2. CASE DayEnd
  BY <1>2 DEF DayEnd, TypeInv, TypeOK, SwitchWellFormed, mapVars,
              executorVars, listenerVars
<1>3. ASSUME NEW o \in orders, Vanish(o) PROVE TypeInv'
  BY <1>0, <1>3 DEF Vanish, TypeInv, TypeOK, SwitchWellFormed, portfolioVars,
                    mapVars, executorVars, listenerVars
<1>4. ASSUME NEW o \in orders, NEW n \in {1, 2}, Reject(o, n) PROVE TypeInv'
  <2>1. o.key \in Keys
    BY <1>0 DEF WorkingOrder
  <2>2. errs' \in [Keys -> Nat]
    BY <1>0, <1>4, <2>1 DEF Reject
  <2> QED
    BY <1>0, <1>4, <2>2 DEF Reject, TypeInv, TypeOK, SwitchWellFormed,
       portfolioVars, mapVars, executorVars, listenerVars
<1>5. ASSUME NEW o \in orders, NEW q \in 1..o.left, Fill(o, q) PROVE TypeInv'
  <2>1. hold' \in [Keys -> [Dirs -> Nat]] /\ orders' \subseteq WorkingOrder
    BY <1>5, ExecutesType DEF Fill
  <2>2. o \in WorkingOrder
    BY <1>0
  <2>3. [key |-> o.key, op |-> o.cmd.op, dir |-> o.cmd.dir, vol |-> q,
         again |-> FALSE] \in Trade
    BY <2>2 DEF WorkingOrder, Command, Trade
  <2>4. trades' \in Seq(Trade)
    BY <1>0, <1>5, <2>3 DEF Fill
  <2> QED
    BY <1>5, <2>1, <2>4 DEF Fill, TypeInv, TypeOK, SwitchWellFormed,
       portfolioVars, mapVars, executorVars, listenerVars
<1>6. ASSUME NEW o \in orders, NEW q \in 1..o.left, FillUnseen(o, q)
      PROVE  TypeInv'
  <2>1. hold' \in [Keys -> [Dirs -> Nat]] /\ orders' \subseteq WorkingOrder
    BY <1>6, ExecutesType DEF FillUnseen
  <2> QED
    BY <1>6, <2>1 DEF FillUnseen, TypeInv, TypeOK, SwitchWellFormed,
       portfolioVars, mapVars, executorVars, listenerVars
<1> QED
  BY <1>1, <1>2, <1>3, <1>4, <1>5, <1>6 DEF World

LEMMA TypeStep == TypeInv /\ [Next]_vars => TypeInv'
<1> SUFFICES ASSUME TypeInv, [Next]_vars PROVE TypeInv'
  OBVIOUS
<1>1. CASE Executor
  BY <1>1, ExecutorType
<1>2. CASE Listener
  BY <1>2, ListenerType
<1>3. ASSUME NEW k \in Keys, OnCommandFailed(k) PROVE TypeInv'
  BY <1>3, OnCommandFailedType
<1>4. ASSUME NEW k \in Keys, ClearOutstandingCommands(k) PROVE TypeInv'
  BY <1>4, ClearOutstandingCommandsType
<1>5. ASSUME NEW scanned \in SUBSET Symbols, NEW aged \in SUBSET Symbols,
             MainSwitcherRun(scanned, aged)
      PROVE  TypeInv'
  BY <1>5, MainSwitcherRunType
<1>6. CASE World
  BY <1>6, WorldType
<1>7. CASE UNCHANGED vars
  BY <1>7 DEF vars, portfolioVars, mapVars, executorVars, listenerVars,
              worldVars, TypeInv, TypeOK, SwitchWellFormed
<1> QED
  BY <1>1, <1>2, <1>3, <1>4, <1>5, <1>6, <1>7 DEF Next

(* Every variable keeps its type, whatever the environment does.           *)
THEOREM TypeCorrect == Spec => []TypeOK
<1>1. Spec => []TypeInv
  BY TypeInit, TypeStep, PTL DEF Spec
<1>2. TypeInv => TypeOK
  BY DEF TypeInv
<1> QED
  BY <1>1, <1>2, PTL

(* A position under a main switch has hands to move and a next main        *)
(* contract to move them to (StrategyImpl dereferences it without a test). *)
THEOREM SwitchCorrect == Spec => []SwitchWellFormed
<1>1. Spec => []TypeInv
  BY TypeInit, TypeStep, PTL DEF Spec
<1>2. TypeInv => SwitchWellFormed
  BY DEF TypeInv
<1> QED
  BY <1>1, <1>2, PTL

-----------------------------------------------------------------------------
(* One waiting rule per contract.  A list is sound when at most one of its *)
(* rules waits for an answer or is about to; RuleMarks is this for every   *)
(* list, and where the executor's marks are in each phase of a round.      *)
SoundList(l) == \A r1, r2 \in l : Pending(r1) /\ Pending(r2) => r1 = r2
NoMark(l) == \A r \in l : r.mark = "no"

(* Fresh rules are not pending: adding them keeps a list sound.            *)
LEMMA NewRulesQuiet ==
  ASSUME NEW p, NEW full, NEW r \in NewRules(p, full)
  PROVE  ~Pending(r) /\ r.mark = "no"
BY DEF NewRules, NewRule, Pending

(* A rule for a rule: the list stays sound if the new one is pending only  *)
(* in place of a pending one, or if nothing in the list was pending.       *)
LEMMA ReplaceSound ==
  ASSUME NEW l, NEW r \in l, NEW new, SoundList(l),
         \/ Pending(r)
         \/ \A x \in l : ~Pending(x)
  PROVE  SoundList((l \ {r}) \cup {new})
BY DEF SoundList

(* Rewriting a list without making a rule pending keeps it sound.          *)
LEMMA ImageSound ==
  ASSUME NEW l, NEW f, l \subseteq DOMAIN f, SoundList(l),
         \A r \in l : Pending(f[r]) => Pending(r)
  PROVE  SoundList({f[r] : r \in l})
BY DEF SoundList

(* Steps that change no list and no phase of the executor.                 *)
LEMMA MarksUnchanged ==
  ASSUME RuleMarks, UNCHANGED rules, UNCHANGED <<pc, todo>>
  PROVE  RuleMarks'
BY DEF RuleMarks, Pending

(* Steps that keep the phase: enough that no list gets less sound and no   *)
(* rule gets a mark.                                                       *)
LEMMA MarksKept ==
  ASSUME RuleMarks, UNCHANGED <<pc, todo>>,
         \A k \in Keys : SoundList(rules'[k]),
         \A k \in Keys : \A r \in rules'[k] :
           r.mark = "no" \/ \E x \in rules[k] : x.mark = r.mark
  PROVE  RuleMarks'
BY DEF RuleMarks, SoundList, Pending

LEMMA MarksSound ==
  ASSUME RuleMarks, NEW k \in Keys
  PROVE  SoundList(rules[k])
BY DEF RuleMarks, SoundList

(* A visit: the list of k changes, or none, and k leaves todo.             *)
LEMMA VisitMarks ==
  ASSUME RuleMarks, NEW k \in Keys, Visit(k),
         \A l \in Keys : l # k => rules'[l] = rules[l],
         SoundList(rules'[k]),
         \A r \in rules'[k] : r.mark # "half"
  PROVE  RuleMarks'
<1>1. pc = "pass" /\ pc' = "pass" /\ todo' = todo \ {k}
  BY DEF Visit
<1>2. ASSUME NEW l \in Keys PROVE SoundList(rules'[l])
  BY MarksSound, <1>2
<1>3. ASSUME NEW l \in Keys, NEW r \in rules'[l]
      PROVE  r.mark # "half" /\ (l \in todo' => r.mark = "no")
  BY <1>1, <1>3 DEF RuleMarks
<1> QED
  BY <1>1, <1>2, <1>3 DEF RuleMarks, SoundList, Pending

(* The initial lists are empty.                                            *)
LEMMA MarksInit == Init => RuleMarks
BY DEF Init, RuleMarks

(* The executor's steps.                                                   *)
LEMMA ExecutorMarks == TypeInv /\ RuleMarks /\ Executor => RuleMarks'
<1> SUFFICES ASSUME TypeInv, RuleMarks, Executor PROVE RuleMarks'
  OBVIOUS
<1>0. rules \in [Keys -> SUBSET Rule]
  BY DEF TypeInv, TypeOK
<1>1. CASE StartPass
  <2>1. CASE NeedsInit
    <3>1. PICK done \in SUBSET Symbols : InitRules(done)
      BY <1>1, <2>1 DEF StartPass
    <3>2. pc = "idle" /\ pc' = "idle"
      BY <1>1, <2>1 DEF StartPass, executorVars
    <3>3. ASSUME NEW k \in Keys, NEW r \in rules'[k]
          PROVE  ~Pending(r) /\ r.mark = "no"
      <4>1. \E p, full : r \in NewRules(p, full)
        BY <3>1, <3>3 DEF InitRules
      <4> QED
        BY <4>1, NewRulesQuiet
    <3> QED
      BY <3>2, <3>3 DEF RuleMarks, Pending
  <2>2. CASE ~NeedsInit
    <3>1. pc = "idle" /\ pc' = "pass" /\ rules' = rules
      BY <1>1, <2>2 DEF StartPass, mapVars
    <3> QED
      BY <3>1 DEF RuleMarks, Pending
  <2> QED
    BY <2>1, <2>2
<1>2. CASE PassFails
  <2>1. pc' = "idle" /\ rules' = [k \in Keys |-> {Unmark(r) : r \in rules[k]}]
    BY <1>2 DEF PassFails
  <2>2. ASSUME NEW k \in Keys
        PROVE  SoundList(rules'[k]) /\ NoMark(rules'[k])
    <3> DEFINE f == [r \in rules[k] |-> Unmark(r)]
    <3>1. rules'[k] = {f[r] : r \in rules[k]}
      BY <2>1
    <3>2. ASSUME NEW r \in rules[k]
          PROVE  f[r].mark = "no" /\ (Pending(f[r]) => Pending(r))
      BY <1>0, <3>2 DEF Unmark, Pending, Rule
    <3>3. SoundList(rules[k])
      BY MarksSound
    <3>4. SoundList({f[r] : r \in rules[k]})
      <4> HIDE DEF f
      <4>1. rules[k] \subseteq DOMAIN f
        BY DEF f
      <4> QED
        BY <3>2, <3>3, <4>1, ImageSound
    <3> QED
      BY <3>1, <3>2, <3>4 DEF NoMark
  <2> QED
    BY <2>1, <2>2 DEF RuleMarks, SoundList, NoMark, Pending
<1>3. CASE EndPass
  BY <1>3 DEF EndPass, RuleMarks, mapVars, Pending
<1>4. CASE EndMark
  BY <1>4 DEF EndMark, RuleMarks, mapVars, Marked, Pending
<1>5. ASSUME NEW k \in Keys, VisitEmpty(k) PROVE RuleMarks'
  <2>1. CASE UNCHANGED rules
    BY <1>5, <2>1, VisitMarks, MarksSound DEF VisitEmpty
  <2>2. CASE rules' = [rules EXCEPT ![k] =
               NewRules(Sized(k.sym), IsFullPortfolio(pos))]
    <3>1. rules'[k] = NewRules(Sized(k.sym), IsFullPortfolio(pos))
      BY <1>0, <2>2
    <3>2. SoundList(rules'[k]) /\ \A r \in rules'[k] : r.mark # "half"
      BY <3>1, NewRulesQuiet DEF SoundList
    <3>3. \A l \in Keys : l # k => rules'[l] = rules[l]
      BY <1>0, <2>2
    <3> QED
      BY <1>5, <3>2, <3>3, VisitMarks DEF VisitEmpty
  <2> QED
    BY <1>5, <2>1, <2>2 DEF VisitEmpty
<1>6. ASSUME NEW k \in Keys, VisitQuiet(k) PROVE RuleMarks'
  <2>1. \A r \in rules[k] : r.mark # "half"
    BY <1>6 DEF VisitQuiet, Visit, RuleMarks
  <2> QED
    BY <1>6, <2>1, VisitMarks, MarksSound DEF VisitQuiet
<1>7. ASSUME NEW k \in Keys, VisitOld(k) PROVE RuleMarks'
  <2>1. /\ rules'[k] = {}
        /\ \A l \in Keys : l # k => rules'[l] = rules[l]
    BY <1>0, <1>7 DEF VisitOld, Without
  <2> QED
    BY <1>7, <2>1, VisitMarks DEF VisitOld, SoundList
<1>8. ASSUME NEW k \in Keys, NEW r \in rules[k], VisitFire(k, r)
      PROVE  RuleMarks'
  <2> DEFINE new == [r EXCEPT !.mark = "hit"]
  <2>1. /\ rules'[k] = (rules[k] \ {r}) \cup {new}
        /\ \A l \in Keys : l # k => rules'[l] = rules[l]
    BY <1>0, <1>8 DEF VisitFire, Replace
  <2>2. \A x \in rules[k] : ~Pending(x) /\ x.mark = "no"
    BY <1>8 DEF VisitFire, Visit, HasTriggered, RuleMarks, Pending
  <2>3. new.mark = "hit"
    BY <1>0 DEF Rule
  <2>4. SoundList(rules'[k])
    <3> HIDE DEF new
    <3>1. SoundList(rules[k])
      BY MarksSound
    <3>2. \A x \in rules[k] : ~Pending(x)
      BY <2>2
    <3>3. SoundList((rules[k] \ {r}) \cup {new})
      BY <3>1, <3>2, ReplaceSound
    <3> QED
      BY <2>1, <3>3
  <2>5. \A x \in rules'[k] : x.mark # "half"
    BY <2>1, <2>2, <2>3
  <2> QED
    BY <1>8, <2>1, <2>4, <2>5, VisitMarks DEF VisitFire
<1>9. ASSUME NEW k \in Keys, NEW r \in rules[k], NEW new,
             r.mark # "no", pc = "mark", pc' = pc, rules' = Replace(k, r, new)
      PROVE  RuleMarks'
  <2>1. /\ rules'[k] = (rules[k] \ {r}) \cup {new}
        /\ \A l \in Keys : l # k => rules'[l] = rules[l]
    BY <1>0, <1>9 DEF Replace
  <2>2. ASSUME NEW l \in Keys PROVE SoundList(rules'[l])
    BY <1>9, <2>1, ReplaceSound, MarksSound DEF Pending
  <2> QED
    BY <1>9, <2>2 DEF RuleMarks, SoundList, Pending
<1>10. ASSUME NEW k \in Keys, NEW r \in rules[k], MarkTriggered(k, r)
       PROVE  RuleMarks'
  BY <1>9, <1>10 DEF MarkTriggered, executorVars
<1>11. ASSUME NEW k \in Keys, NEW r \in rules[k], MarkTime(k, r)
       PROVE  RuleMarks'
  BY <1>9, <1>11 DEF MarkTime, executorVars
<1> QED
  BY <1>1, <1>2, <1>3, <1>4, <1>5, <1>6, <1>7, <1>8, <1>10, <1>11 DEF Executor

(* The listeners' steps: a list is emptied, or gets fresh rules.           *)
LEMMA ListenerMarks == TypeInv /\ RuleMarks /\ Listener => RuleMarks'
<1> SUFFICES ASSUME TypeInv, RuleMarks, Listener PROVE RuleMarks'
  OBVIOUS
<1>0. rules \in [Keys -> SUBSET Rule]
  BY DEF TypeInv, TypeOK
<1>1. CASE OnTrade
  BY <1>1, MarksUnchanged DEF OnTrade, mapVars, executorVars
<1>2. CASE DropTrade
  BY <1>2, MarksUnchanged DEF DropTrade, mapVars, executorVars
<1>3. CASE ClearContractRule
  <2>1. ASSUME NEW l \in Keys
        PROVE  rules'[l] = {} \/ rules'[l] = rules[l]
    BY <1>0, <1>3 DEF ClearContractRule, Without
  <2>2. ASSUME NEW l \in Keys PROVE SoundList(rules'[l])
    BY <2>1, MarksSound DEF SoundList
  <2> QED
    BY <1>3, <2>1, <2>2, MarksKept DEF ClearContractRule
<1>4. CASE AddRules
  <2> DEFINE s == lst.msg.key.sym
             p == Sized(s)
             fresh == NewRules(p, IsFullPortfolio(pos))
             k == RuleKey(s, p)
  <2>1. rules' = [rules EXCEPT ![k] = @ \cup fresh]
    BY <1>4 DEF AddRules
  <2>2. \A r \in fresh : ~Pending(r) /\ r.mark = "no"
    BY NewRulesQuiet
  <2>3. ASSUME NEW l \in Keys
        PROVE  rules'[l] = rules[l] \/ rules'[l] = rules[l] \cup fresh
    <3> HIDE DEF fresh, k
    <3> QED
      BY <1>0, <2>1
  <2>4. ASSUME NEW l \in Keys PROVE SoundList(rules'[l])
    <3> HIDE DEF fresh
    <3> QED
      BY <2>2, <2>3, MarksSound DEF SoundList
  <2>5. ASSUME NEW l \in Keys, NEW r \in rules'[l]
        PROVE  r.mark = "no" \/ \E x \in rules[l] : x.mark = r.mark
    <3> HIDE DEF fresh
    <3> QED
      BY <2>2, <2>3, <2>5
  <2> QED
    BY <1>4, <2>4, <2>5, MarksKept DEF AddRules
<1>5. CASE AddRulesFails
  BY <1>5, MarksUnchanged DEF AddRulesFails, mapVars, executorVars
<1> QED
  BY <1>1, <1>2, <1>3, <1>4, <1>5 DEF Listener

(* The error listener and the cleaner rewrite a list rule by rule.         *)
LEMMA OnCommandFailedMarks ==
  ASSUME TypeInv, RuleMarks, NEW k \in Keys, OnCommandFailed(k)
  PROVE  RuleMarks'
<1> DEFINE f == [r \in rules[k] |-> [r EXCEPT !.triggered = FALSE]]
<1>0. rules \in [Keys -> SUBSET Rule]
  BY DEF TypeInv, TypeOK
<1>1. ASSUME NEW r \in rules[k]
      PROVE  f[r].mark = r.mark /\ (Pending(f[r]) => Pending(r))
  BY <1>0, <1>1 DEF Pending, Rule
<1>2. /\ rules'[k] = {f[r] : r \in rules[k]}
      /\ \A l \in Keys : l # k => rules'[l] = rules[l]
  BY <1>0 DEF OnCommandFailed, AfterFailure, Untriggered
<1>3. rules[k] = DOMAIN f
  OBVIOUS
<1> HIDE DEF f
<1>4. SoundList({f[r] : r \in rules[k]})
  BY <1>1, <1>3, ImageSound, MarksSound
<1>5. \A l \in Keys : SoundList(rules'[l])
  BY <1>2, <1>4, MarksSound
<1>6. \A l \in Keys : \A r \in rules'[l] : \E x \in rules[l] : x.mark = r.mark
  BY <1>1, <1>2
<1> QED
  BY <1>5, <1>6, MarksKept DEF OnCommandFailed, executorVars

LEMMA ClearOutstandingCommandsMarks ==
  ASSUME TypeInv, RuleMarks, NEW k \in Keys, ClearOutstandingCommands(k)
  PROVE  RuleMarks'
<1> DEFINE f == [r \in rules[k] |->
                   [r EXCEPT !.old = @ \/ (r.triggered /\ r.at = "past")]]
<1>0. rules \in [Keys -> SUBSET Rule]
  BY DEF TypeInv, TypeOK
<1>1. ASSUME NEW r \in rules[k]
      PROVE  f[r].mark = r.mark /\ (Pending(f[r]) => Pending(r))
  BY <1>0, <1>1 DEF Pending, Rule
<1>2. /\ rules'[k] = {f[r] : r \in rules[k]}
      /\ \A l \in Keys : l # k => rules'[l] = rules[l]
  BY <1>0 DEF ClearOutstandingCommands, SetOld
<1>3. rules[k] = DOMAIN f
  OBVIOUS
<1> HIDE DEF f
<1>4. SoundList({f[r] : r \in rules[k]})
  BY <1>1, <1>3, ImageSound, MarksSound
<1>5. \A l \in Keys : SoundList(rules'[l])
  BY <1>2, <1>4, MarksSound
<1>6. \A l \in Keys : \A r \in rules'[l] : \E x \in rules[l] : x.mark = r.mark
  BY <1>1, <1>2
<1> QED
  BY <1>5, <1>6, MarksKept DEF ClearOutstandingCommands, executorVars

LEMMA MainSwitcherRunMarks ==
  ASSUME TypeInv, RuleMarks, NEW scanned, NEW aged, MainSwitcherRun(scanned, aged)
  PROVE  RuleMarks'
<1>1. ASSUME NEW l \in Keys PROVE rules'[l] = {} \/ rules'[l] = rules[l]
  BY DEF MainSwitcherRun
<1>2. \A l \in Keys : SoundList(rules'[l])
  BY <1>1, MarksSound DEF SoundList
<1> QED
  BY <1>1, <1>2, MarksKept DEF MainSwitcherRun, executorVars

(* Time passes for every triggered rule, nothing else touches a list.      *)
LEMMA WorldMarks == TypeInv /\ RuleMarks /\ World => RuleMarks'
<1> SUFFICES ASSUME TypeInv, RuleMarks, World PROVE RuleMarks'
  OBVIOUS
<1>0. rules \in [Keys -> SUBSET Rule]
  BY DEF TypeInv, TypeOK
<1>1. ASSUME NEW s \in Symbols, Age(s) PROVE RuleMarks'
  <2>1. ASSUME NEW l \in Keys
        PROVE  /\ SoundList(rules'[l])
               /\ \A r \in rules'[l] : \E x \in rules[l] : x.mark = r.mark
    <3> DEFINE f == [r \in rules[l] |->
                       [r EXCEPT !.at =
                          IF @ = "now" /\ l.sym = s THEN "past" ELSE @]]
    <3>1. ASSUME NEW r \in rules[l]
          PROVE  f[r].mark = r.mark /\ (Pending(f[r]) => Pending(r))
      BY <1>0, <3>1 DEF Pending, Rule
    <3>2. rules'[l] = {f[r] : r \in rules[l]}
      BY <1>1 DEF Age
    <3>3. rules[l] = DOMAIN f
      OBVIOUS
    <3> HIDE DEF f
    <3>4. SoundList({f[r] : r \in rules[l]})
      BY <3>1, <3>3, ImageSound, MarksSound
    <3> QED
      BY <3>1, <3>2, <3>4
  <2> QED
    BY <1>1, <2>1, MarksKept DEF Age, executorVars
<1>2. CASE DayEnd
  BY <1>2, MarksUnchanged DEF DayEnd, mapVars, executorVars
<1>3. ASSUME NEW o \in orders, Vanish(o) PROVE RuleMarks'
  BY <1>3, MarksUnchanged DEF Vanish, mapVars, executorVars
<1>4. ASSUME NEW o \in orders, NEW n \in {1, 2}, Reject(o, n) PROVE RuleMarks'
  BY <1>4, MarksUnchanged DEF Reject, mapVars, executorVars
<1>5. ASSUME NEW o \in orders, NEW q \in 1..o.left,
             Fill(o, q) \/ FillUnseen(o, q)
      PROVE  RuleMarks'
  BY <1>5, MarksUnchanged DEF Fill, FillUnseen, mapVars, executorVars
<1> QED
  BY <1>1, <1>2, <1>3, <1>4, <1>5 DEF World

LEMMA MarksStep == TypeInv /\ RuleMarks /\ [Next]_vars => RuleMarks'
<1> SUFFICES ASSUME TypeInv, RuleMarks, [Next]_vars PROVE RuleMarks'
  OBVIOUS
<1>1. CASE Executor
  BY <1>1, ExecutorMarks
<1>2. CASE Listener
  BY <1>2, ListenerMarks
<1>3. ASSUME NEW k \in Keys, OnCommandFailed(k) PROVE RuleMarks'
  BY <1>3, OnCommandFailedMarks
<1>4. ASSUME NEW k \in Keys, ClearOutstandingCommands(k) PROVE RuleMarks'
  BY <1>4, ClearOutstandingCommandsMarks
<1>5. ASSUME NEW scanned \in SUBSET Symbols, NEW aged \in SUBSET Symbols,
             MainSwitcherRun(scanned, aged)
      PROVE  RuleMarks'
  BY <1>5, MainSwitcherRunMarks
<1>6. CASE World
  BY <1>6, WorldMarks
<1>7. CASE UNCHANGED vars
  BY <1>7, MarksUnchanged DEF vars, mapVars, executorVars
<1> QED
  BY <1>1, <1>2, <1>3, <1>4, <1>5, <1>6, <1>7 DEF Next

(* A list has at most one rule that waits for its answer or is about to,   *)
(* and the executor's marks are where the phase of its round says.         *)
THEOREM MarksCorrect == Spec => []RuleMarks
<1>1. Init => TypeInv /\ RuleMarks
  BY TypeInit, MarksInit
<1>2. TypeInv /\ RuleMarks /\ [Next]_vars => (TypeInv /\ RuleMarks)'
  BY TypeStep, MarksStep
<1>3. Spec => [](TypeInv /\ RuleMarks)
  BY <1>1, <1>2, PTL DEF Spec
<1> QED
  BY <1>3, PTL

(* No contract ever has two triggered rules in its list: rejections, lost  *)
(* or late answers, a restructured map, a failing generation included.     *)
THEOREM OneTriggered == Spec => []AtMostOneTriggered
<1>1. RuleMarks => AtMostOneTriggered
  BY DEF RuleMarks, AtMostOneTriggered, Pending
<1> QED
  BY <1>1, MarksCorrect, PTL

-----------------------------------------------------------------------------
(***************************************************************************)
(* The book and the account.  What the rest of this module proves is about *)
(* the days on which the exchange answers in order: an order is filled as  *)
(* a whole, refused once or lost, its answer is there three minutes later, *)
(* and the listener restructures the map under an executor at work only if *)
(* there is one commodity.  Each of the other faults, on top of a refusal, *)
(* lets TLC break these properties.                                        *)
(***************************************************************************)
Calm ==
  /\ Env \subseteq {"reject", "vanish", "switch", "midpass", "losttrade"}
  /\ "midpass" \in Env => \A x, y \in Symbols : x = y

(* The invariant is one of each commodity.  A command of a commodity is in *)
(* one place at a time: at work, executed and not yet read, being entered, *)
(* or refused and not yet read.                                            *)
Clearing(s) == lst.step = "clear" /\ lst.msg.key.sym = s
Adding(s) == lst.step = "add" /\ lst.msg.key.sym = s
Failed(s) == {k \in Keys : k.sym = s /\ errs[k] > 0}
Busy(s) ==
  AtWork(s) # {} \/ Unread(s) # {} \/ Clearing(s) \/ Failed(s) # {}

OneToken(s) ==
  /\ \A o1, o2 \in AtWork(s) : o1 = o2
  /\ \A i, j \in Unread(s) : i = j
  /\ \A k1, k2 \in Failed(s) : k1 = k2 /\ errs[k1] = 1
  /\ AtWork(s) # {} => Unread(s) = {} /\ ~Clearing(s) /\ Failed(s) = {}
  /\ Unread(s) # {} => ~Clearing(s) /\ Failed(s) = {}
  /\ Clearing(s) => Failed(s) = {}

(* As long as it is, a rule in one of its lists waits for the answer.      *)
Waiting(s) == \E k \in listed : k.sym = s /\ \E r \in rules[k] : Pending(r)
Watched(s) == Busy(s) => Waiting(s)

(* The position: units and direction come and go together, a unit has      *)
(* hands, there are two at most.                                           *)
Shape(p) ==
  /\ p.units = 0 <=> p.dir = Blank
  /\ p.units # 0 => p.hand # 0
  /\ p.units <= 2
  /\ p.status # Active => p.dir # Blank

(* An order at work is one the position asks for; a report not yet read    *)
(* brings the position in line with the account; without one it is.        *)
Asked(s) ==
  \A o \in AtWork(s) : /\ o.key = RuleKey(s, pos[s])
                       /\ o.cmd \in GenerateRules(pos[s], FALSE)
                       /\ o.left = o.cmd.vol
Settling(p, t, account) ==
  Shape(UpdatePosition(p, t)) /\ BookOf(UpdatePosition(p, t)) = account
Reported(s) ==
  \A i \in Unread(s) : /\ trades[i].key = RuleKey(s, pos[s])
                       /\ Settling(pos[s], trades[i], Owned(s))
Agreed(s) == Unread(s) = {} => BookOf(pos[s]) = Owned(s)

(* The one list of the commodity and what is in it.                        *)
ListKey(s) == IF Clearing(s) THEN lst.msg.key ELSE RuleKey(s, pos[s])
Lists(s) ==
  day = "open" => \A k \in Keys : k.sym = s =>
    /\ k \in listed => k = ListKey(s)
    /\ rules[k] # {} => k \in listed
    /\ ~Clearing(s) => \A r \in rules[k] : r.cmd \in GenerateRules(pos[s], FALSE)
Marks(s) ==
  \A k \in Keys : \A r \in rules[k] : k.sym = s =>
    /\ r.mark # "half"
    /\ r.mark = "hit" => ~r.triggered
    /\ r.triggered /\ r.at # "now" => Answered(s)
    /\ r.old => r.triggered /\ r.at # "now"

(* Between the two halves of onCommand the executor may have put a list    *)
(* back: sizing the position again does nothing to it.                     *)
Stays(s) ==
  Adding(s) /\ (\E k \in listed : k.sym = s) => Sized(s) = pos[s]

(* A round over one list that may be restructured has marked nothing       *)
(* before it has visited the list.                                         *)
Alone(s) ==
  "midpass" \in Env /\ pc = "pass" =>
    \A k \in todo : todo = {k} /\ \A l \in Keys : NoMark(rules[l])

CommandInv(s) ==
  /\ Shape(pos[s]) /\ OneToken(s) /\ Watched(s)
  /\ Asked(s) /\ Reported(s) /\ Agreed(s)
ListInv(s) == Lists(s) /\ Marks(s) /\ Stays(s)
CommodityInv(s) == CommandInv(s) /\ ListInv(s) /\ Alone(s)

(* Nothing is under way when the day is over, and the executor's iterator  *)
(* returns keys of the map, as long as the map is as it was.               *)
RoundInv ==
  /\ day # "open" => pc = "idle" /\ orders = {} /\ Quiet
  /\ pc = "pass" /\ ~dirty => todo \subseteq listed
  /\ dirty => "midpass" \in Env

-----------------------------------------------------------------------------
(* The commands of the rules of a position, one kind after the other.      *)
LEMMA GeneratedCommands ==
  ASSUME NEW p \in Position, Shape(p), NEW c \in GenerateRules(p, FALSE)
  PROVE  /\ c.op \in {Open, Close} /\ c.dir \in Dirs /\ c.vol \in Nat \ {0}
         /\ \/ /\ p.status = Expire /\ c.op = Close /\ c.dir = p.dir
               /\ c.vol = Hands(p)
            \/ /\ p.status = Refresh /\ c.op = Open /\ c.dir = p.dir
               /\ c.vol = Hands(p)
            \/ /\ p.status = Active /\ p.units = 0 /\ c.op = Open
               /\ c.vol = p.hand
            \/ /\ p.status = Active /\ p.units = 1 /\ c.op = Open
               /\ c.dir = p.dir /\ c.vol = p.hand
            \/ /\ p.status = Active /\ p.units # 0 /\ c.op = Close
               /\ c.dir = p.dir /\ c.vol = Hands(p)
<1>0. PICK u \in Nat, h \in Nat : p.units = u /\ p.hand = h
  BY DEF Position
<1>1. u # 0 => Hands(p) \in Nat \ {0}
  <2>1. u <= 2 /\ (u # 0 => h # 0)
    BY <1>0 DEF Shape
  <2>2. CASE u = 1
    BY <1>0, <2>1, <2>2 DEF Hands
  <2>3. CASE u = 2
    BY <1>0, <2>1, <2>3 DEF Hands
  <2> QED
    BY <2>1, <2>2, <2>3
<1>2. p.dir # Blank <=> u # 0
  BY <1>0 DEF Shape
<1>3. p.dir # Blank => p.dir \in Dirs /\ (IF p.dir = Long THEN Long ELSE Short) = p.dir
  BY DEF Position, Dirs
<1>4. CASE p.status = Expire
  <2>1. c = Order(Close, p.dir, Hands(p)) /\ p.dir \in Dirs
    BY <1>3, <1>4 DEF GenerateRules, CloseOldPosition, Shape, Expire, Active, Refresh
  <2> QED
    BY <1>1, <1>2, <1>3, <1>4, <2>1 DEF Order, Shape, Expire, Active
<1>5. CASE p.status = Refresh
  <2>1. c = Order(Open, p.dir, Hands(p)) /\ p.dir \in Dirs
    BY <1>3, <1>5 DEF GenerateRules, OpenNewPosition, Shape, Expire, Active, Refresh
  <2> QED
    BY <1>1, <1>2, <1>3, <1>5, <2>1 DEF Order, Shape, Refresh, Active
<1>6. CASE p.status = Active
  <2>0. c \in OpenRules(p) \/ c \in CloseRules(p)
    BY <1>6 DEF GenerateRules, Active, Expire, Refresh
  <2>1. CASE c \in OpenRules(p) /\ u = 0
    <3>1. h # 0 /\ \E d \in Dirs : c = Order(Open, d, h)
      BY <1>0, <2>1 DEF OpenRules
    <3> QED
      BY <1>0, <1>6, <2>1, <3>1 DEF Order
  <2>2. CASE c \in OpenRules(p) /\ u = 1
    <3>1. p.dir \in Dirs /\ c = Order(Open, p.dir, h)
      BY <1>0, <2>2 DEF OpenRules
    <3> QED
      BY <1>0, <1>6, <2>2, <3>1 DEF Order, Shape
  <2>3. CASE c \in OpenRules(p) /\ u \notin {0, 1}
    BY <1>0, <2>3 DEF OpenRules
  <2>4. CASE c \in CloseRules(p)
    <3>1. u # 0 /\ p.dir \in Dirs /\ c = Order(Close, p.dir, Hands(p))
      BY <1>0, <2>4 DEF CloseRules
    <3> QED
      BY <1>0, <1>1, <1>6, <3>1 DEF Order
  <2> QED
    BY <2>0, <2>1, <2>2, <2>3, <2>4
<1> QED
  BY <1>4, <1>5, <1>6 DEF Position

(* What the exchange makes of the account when it executes a command.      *)
After(account, t) ==
  [account EXCEPT ![[gen |-> t.key.gen, dir |-> t.dir]] =
     IF t.op = Open THEN @ + t.vol ELSE @ - t.vol]

(* The report of a command that the position asked for keeps the book.     *)
LEMMA AnswerSettles ==
  ASSUME NEW p \in Position, Shape(p), NEW c \in GenerateRules(p, FALSE),
         NEW t \in Trade, t.key = RuleKey(t.key.sym, p),
         t.op = c.op, t.dir = c.dir, t.vol = c.vol
  PROVE  Settling(p, t, After(BookOf(p), t))
<1> DEFINE n == UpdatePosition(p, t)
           X == [gen : Gens, dir : Dirs]
           a == [gen |-> t.key.gen, dir |-> t.dir]
<1>0. PICK u \in Nat, h \in Nat : p.units = u /\ p.hand = h
  BY DEF Position
<1>a. t.key.gen \in Gens /\ p.gen \in Gens /\ t.dir \in Dirs /\ a \in X
      /\ p.dir \in Dirs \cup {Blank} /\ Gens \subseteq Int
  BY DEF Trade, Keys, Position, Gens
<1>b. t.key.gen = IF p.status = Refresh THEN p.gen + 1 ELSE p.gen
  BY DEF RuleKey, Key
<1>c. u <= 2 /\ (u # 0 => h # 0) /\ (u = 0 <=> p.dir = Blank)
  BY <1>0 DEF Shape
<1>d. /\ t.vol \in Nat \ {0}
      /\ p.status # Active => p.dir # Blank
  BY GeneratedCommands DEF Shape
<1>x. SUFFICES /\ Shape(n)
               /\ \A x \in X : BookOf(n)[x] = After(BookOf(p), t)[x]
  BY DEF Settling, BookOf, After
<1>y. \A x \in X : After(BookOf(p), t)[x] =
        IF x = a THEN IF t.op = Open THEN BookOf(p)[a] + t.vol ELSE BookOf(p)[a] - t.vol
                 ELSE BookOf(p)[x]
  BY <1>a DEF After, BookOf
<1>z. ASSUME NEW q \in Position, NEW x \in X
      PROVE  BookOf(q)[x] = IF q.gen = x.gen /\ q.dir = x.dir /\ q.status # Refresh
                            THEN Hands(q) ELSE 0
  BY DEF BookOf
<1>n. n \in Position
  BY UpdatePositionType
<1>k. Hands(p) \in Nat
  BY <1>0 DEF Hands
<1>1. CASE p.status = Expire /\ t.op = Close /\ t.dir = p.dir /\ t.vol = Hands(p)
  <2>1. n = [p EXCEPT !.status = Refresh]
    BY <1>1 DEF UpdatePosition, StartForceOpen, Expire, Refresh, Active
  <2>2. n.status = Refresh /\ n.units = p.units /\ n.hand = p.hand /\ n.dir = p.dir
    BY <2>1 DEF Position
  <2>3. Shape(n)
    BY <1>d, <1>1, <2>2 DEF Shape, Expire, Active
  <2>4. ASSUME NEW x \in X PROVE BookOf(n)[x] = After(BookOf(p), t)[x]
    <3>1. BookOf(n)[x] = 0
      BY <1>n, <1>z, <2>2
    <3>2. CASE x = a
      BY <1>a, <1>b, <1>y, <1>z, <1>k, <1>1, <3>1, <3>2 DEF Expire, Refresh, Open, Close
    <3>3. CASE x # a
      <4>1. ~(p.gen = x.gen /\ p.dir = x.dir)
        BY <1>b, <1>1, <3>3 DEF Expire, Refresh
      <4> QED
        BY <1>y, <1>z, <3>1, <3>3, <4>1
    <3> QED
      BY <3>2, <3>3
  <2> QED
    BY <2>3, <2>4
<1>2. CASE p.status = Refresh /\ t.op = Open /\ t.dir = p.dir /\ t.vol = Hands(p)
  <2>1. n = [p EXCEPT !.status = Active, !.gen = t.key.gen]
    BY <1>2 DEF UpdatePosition, FinishSwitch, Expire, Refresh, Active
  <2>2. n.status = Active /\ n.units = p.units /\ n.hand = p.hand /\ n.dir = p.dir
        /\ n.gen = t.key.gen /\ Hands(n) = Hands(p)
    BY <2>1 DEF Position, Hands
  <2>3. Shape(n)
    BY <1>d, <1>2, <2>2 DEF Shape
  <2>4. ASSUME NEW x \in X PROVE BookOf(n)[x] = After(BookOf(p), t)[x]
    <3>1. BookOf(p)[x] = 0 /\ BookOf(p)[a] = 0
      BY <1>a, <1>z, <1>2
    <3>2. CASE x = a
      BY <1>n, <1>y, <1>z, <1>k, <1>2, <2>2, <3>1, <3>2 DEF Active, Refresh
    <3>3. CASE x # a
      <4>1. ~(n.gen = x.gen /\ n.dir = x.dir)
        BY <1>2, <2>2, <3>3
      <4> QED
        BY <1>n, <1>y, <1>z, <3>1, <3>3, <4>1
    <3> QED
      BY <3>2, <3>3
  <2> QED
    BY <2>3, <2>4
<1>3. CASE p.status = Active /\ u = 0 /\ t.op = Open /\ t.vol = p.hand
  <2>1. n = [p EXCEPT !.dir = t.dir, !.units = @ + 1]
    BY <1>c, <1>3 DEF UpdatePosition, FirstUnit, Expire, Refresh, Active
  <2>2. n.status = Active /\ n.units = 1 /\ n.hand = h /\ n.dir = t.dir
        /\ n.gen = t.key.gen
    BY <1>0, <1>b, <1>3, <2>1 DEF Position, Active, Refresh
  <2>3. h # 0 /\ Hands(n) = h
    BY <1>0, <1>d, <1>3, <2>2 DEF Hands
  <2>4. Shape(n)
    <3>1. n.dir # Blank
      BY <1>a, <2>2 DEF Dirs, Long, Short, Blank
    <3> QED
      BY <2>2, <2>3, <3>1 DEF Shape
  <2>5. ASSUME NEW x \in X PROVE BookOf(n)[x] = After(BookOf(p), t)[x]
    <3>1. BookOf(p)[x] = 0 /\ BookOf(p)[a] = 0
      BY <1>a, <1>z, <1>c, <1>3 DEF Dirs, Long, Short, Blank
    <3>2. CASE x = a
      BY <1>0, <1>n, <1>y, <1>z, <1>3, <2>2, <2>3, <3>1, <3>2 DEF Active, Refresh
    <3>3. CASE x # a
      <4>1. ~(n.gen = x.gen /\ n.dir = x.dir)
        BY <2>2, <3>3
      <4> QED
        BY <1>n, <1>y, <1>z, <3>1, <3>3, <4>1
    <3> QED
      BY <3>2, <3>3
  <2> QED
    BY <2>4, <2>5
<1>4. CASE p.status = Active /\ u = 1 /\ t.op = Open /\ t.dir = p.dir /\ t.vol = p.hand
  <2>1. n = [p EXCEPT !.units = @ + 1]
    BY <1>c, <1>4 DEF UpdatePosition, AddUnit, Expire, Refresh, Active
  <2>2. n.status = Active /\ n.units = 2 /\ n.hand = h /\ n.dir = p.dir
        /\ n.gen = t.key.gen /\ p.gen = t.key.gen
    BY <1>0, <1>b, <1>4, <2>1 DEF Position, Active, Refresh
  <2>3. h # 0 /\ Hands(n) = h + h /\ Hands(p) = h
    BY <1>0, <1>c, <1>4, <2>2 DEF Hands
  <2>4. Shape(n)
    BY <1>c, <1>4, <2>2, <2>3 DEF Shape
  <2>5. ASSUME NEW x \in X PROVE BookOf(n)[x] = After(BookOf(p), t)[x]
    <3>2. CASE x = a
      BY <1>0, <1>n, <1>y, <1>z, <1>4, <2>2, <2>3, <3>2 DEF Active, Refresh
    <3>3. CASE x # a
      <4>1. ~(n.gen = x.gen /\ n.dir = x.dir) /\ ~(p.gen = x.gen /\ p.dir = x.dir)
        BY <1>4, <2>2, <3>3
      <4> QED
        BY <1>n, <1>y, <1>z, <3>3, <4>1
    <3> QED
      BY <3>2, <3>3
  <2> QED
    BY <2>4, <2>5
<1>5. CASE p.status = Active /\ u # 0 /\ t.op = Close /\ t.dir = p.dir /\ t.vol = Hands(p)
  <2>1. n = [p EXCEPT !.units = 0, !.dir = Blank]
    BY <1>c, <1>5 DEF UpdatePosition, ClosesAll, ResetPosition, Expire, Refresh, Active,
                      Open, Close
  <2>2. n.status = Active /\ n.units = 0 /\ n.dir = Blank /\ p.gen = t.key.gen
    BY <1>b, <1>5, <2>1 DEF Position, Active, Refresh
  <2>4. Shape(n)
    BY <2>2 DEF Shape
  <2>5. ASSUME NEW x \in X PROVE BookOf(n)[x] = After(BookOf(p), t)[x]
    <3>1. BookOf(n)[x] = 0
      BY <1>n, <1>z, <2>2 DEF Dirs, Long, Short, Blank
    <3>2. CASE x = a
      BY <1>y, <1>z, <1>k, <1>5, <2>2, <3>1, <3>2 DEF Active, Refresh, Open, Close
    <3>3. CASE x # a
      <4>1. ~(p.gen = x.gen /\ p.dir = x.dir)
        BY <1>5, <2>2, <3>3
      <4> QED
        BY <1>y, <1>z, <3>1, <3>3, <4>1
    <3> QED
      BY <3>2, <3>3
  <2> QED
    BY <2>4, <2>5
<1> QED
  BY <1>0, <1>1, <1>2, <1>3, <1>4, <1>5, GeneratedCommands

(* Sizing a position leaves its shape, its book and its contract alone,    *)
(* and doing it twice is doing it once.                                    *)
LEMMA SizingHarmless ==
  ASSUME NEW p \in Position, NEW full, NEW h \in Nat
  PROVE  LET q == UpdateHandPerUnit(p, full, h) IN
         /\ q \in Position
         /\ Shape(p) => Shape(q)
         /\ Hands(q) = Hands(p)
         /\ BookOf(q) = BookOf(p)
         /\ q.gen = p.gen /\ q.dir = p.dir /\ q.status = p.status
         /\ \A s : RuleKey(s, q) = RuleKey(s, p)
         /\ UpdateHandPerUnit(q, full, h) = q
<1> DEFINE q == UpdateHandPerUnit(p, full, h)
<1>1. CASE p.status = Active /\ ~full /\ p.units = 0
  <2>1. q = [p EXCEPT !.hand = h]
    BY <1>1 DEF UpdateHandPerUnit
  <2>2. /\ q \in Position /\ q.gen = p.gen /\ q.dir = p.dir /\ q.status = p.status
        /\ q.units = p.units /\ q.hand = h
    BY <2>1 DEF Position
  <2>3. Hands(q) = 0 /\ Hands(p) = 0
    <3>1. PICK n \in Nat : p.hand = n
      BY DEF Position
    <3> QED
      BY <1>1, <2>2, <3>1 DEF Hands
  <2>4. UpdateHandPerUnit(q, full, h) = [q EXCEPT !.hand = h]
    BY <1>1, <2>2 DEF UpdateHandPerUnit
  <2>5. [q EXCEPT !.hand = h] = q
    BY <2>1, <2>2 DEF Position
  <2>6. Shape(p) => Shape(q)
    BY <1>1, <2>2 DEF Shape
  <2>7. BookOf(q) = BookOf(p)
    BY <2>2, <2>3 DEF BookOf
  <2>8. \A s : RuleKey(s, q) = RuleKey(s, p)
    BY <2>2 DEF RuleKey
  <2> QED
    BY <2>2, <2>3, <2>4, <2>5, <2>6, <2>7, <2>8
<1>2. CASE ~(p.status = Active /\ ~full /\ p.units = 0)
  <2>1. q = p
    BY <1>2 DEF UpdateHandPerUnit
  <2> QED
    BY <2>1
<1> QED
  BY <1>1, <1>2

LEMMA SizedKeeps ==
  ASSUME TypeOK, NEW s \in Symbols
  PROVE  /\ Sized(s) \in Position
         /\ Shape(pos[s]) => Shape(Sized(s))
         /\ Hands(Sized(s)) = Hands(pos[s])
         /\ BookOf(Sized(s)) = BookOf(pos[s])
         /\ \A x : RuleKey(x, Sized(s)) = RuleKey(x, pos[s])
         /\ UpdateHandPerUnit(Sized(s), IsFullPortfolio(pos), afford[s]) = Sized(s)
<1>1. pos[s] \in Position /\ afford[s] \in Nat
  BY PositionAssumption DEF TypeOK
<1> QED
  BY <1>1, SizingHarmless DEF Sized

(* The portfolio stays as full as it was when no hands are bought or sold. *)
LEMMA FullKept ==
  ASSUME \A s \in Symbols : Hands(pos'[s]) = Hands(pos[s])
  PROVE  IsFullPortfolio(pos') = IsFullPortfolio(pos)
<1>1. [s \in Symbols |-> Hands(pos'[s])] = [s \in Symbols |-> Hands(pos[s])]
  OBVIOUS
<1> QED
  BY <1>1 DEF IsFullPortfolio

(* Fresh rules ask for what the position asks for, and wait for nothing.   *)
LEMMA NewRulesFit ==
  ASSUME NEW p, NEW full, NEW r \in NewRules(p, full)
  PROVE  /\ r.cmd \in GenerateRules(p, FALSE)
         /\ ~r.triggered /\ ~r.old /\ r.mark = "no"
<1>1. PICK c \in GenerateRules(p, full) : r = NewRule(c)
  BY DEF NewRules
<1>2. c \in GenerateRules(p, FALSE)
  BY <1>1 DEF GenerateRules
<1> QED
  BY <1>1, <1>2 DEF NewRule

(* The unread reports of a commodity are the same, shifted if the first of *)
(* them all was read.                                                      *)
SameReports(s) ==
  \E n \in {0, 1} :
    /\ \A i \in Unread(s)' : i + n \in Unread(s) /\ trades'[i] = trades[i + n]
    /\ \A j \in Unread(s) : j - n \in Unread(s)'

TokensKept(s) ==
  /\ AtWork(s)' = AtWork(s)
  /\ SameReports(s)
  /\ Clearing(s)' = Clearing(s)
  /\ \A k \in Keys : k.sym = s => errs'[k] = errs[k] /\ hold'[k] = hold[k]

LEMMA TokensFrame ==
  ASSUME TypeOK, TypeOK', NEW s \in Symbols, OneToken(s), TokensKept(s)
  PROVE  /\ OneToken(s)'
         /\ Busy(s)' = Busy(s)
         /\ (Unread(s)' = {}) = (Unread(s) = {})
         /\ Owned(s)' = Owned(s)
         /\ \A i \in Unread(s)' : \E j \in Unread(s) : trades'[i] = trades[j]
<1>1. PICK n \in {0, 1} :
        /\ \A i \in Unread(s)' : i + n \in Unread(s) /\ trades'[i] = trades[i + n]
        /\ \A j \in Unread(s) : j - n \in Unread(s)'
  BY DEF TokensKept, SameReports
<1>2. (Unread(s)' = {}) = (Unread(s) = {})
  BY <1>1
<1>3. Failed(s)' = Failed(s) /\ \A k \in Failed(s) : errs'[k] = errs[k]
  BY DEF TokensKept, Failed
<1>4. ASSUME NEW i \in Unread(s)', NEW j \in Unread(s)' PROVE i = j
  <2>1. i \in Nat /\ j \in Nat
    BY DEF TypeOK, Unread
  <2>2. i + n = j + n
    BY <1>1 DEF OneToken
  <2> QED
    BY <2>1, <2>2
<1>5. AtWork(s)' = AtWork(s) /\ Clearing(s)' = Clearing(s)
  BY DEF TokensKept
<1>6. OneToken(s)'
  <2>1. \A o1, o2 \in AtWork(s)' : o1 = o2
    BY <1>5 DEF OneToken
  <2>2. \A k1, k2 \in Failed(s)' : k1 = k2 /\ errs'[k1] = 1
    BY <1>3 DEF OneToken
  <2>3. AtWork(s)' # {} => Unread(s)' = {} /\ ~Clearing(s)' /\ Failed(s)' = {}
    BY <1>2, <1>3, <1>5 DEF OneToken
  <2>4. Unread(s)' # {} => ~Clearing(s)' /\ Failed(s)' = {}
    BY <1>2, <1>3, <1>5 DEF OneToken
  <2>5. Clearing(s)' => Failed(s)' = {}
    BY <1>3, <1>5 DEF OneToken
  <2> QED
    BY <1>4, <2>1, <2>2, <2>3, <2>4, <2>5 DEF OneToken
<1>7. Busy(s)' = Busy(s)
  BY <1>2, <1>3, <1>5 DEF Busy
<1>8. Owned(s)' = Owned(s)
  <2>1. ASSUME NEW g \in Gens PROVE hold'[Key(s, g)] = hold[Key(s, g)]
    BY DEF TokensKept, Key, Keys
  <2> QED
    BY <2>1 DEF Owned
<1> QED
  BY <1>1, <1>2, <1>6, <1>7, <1>8

(* Where the command of a commodity stays where it is, the half of the     *)
(* invariant that is about it is kept by a step that rebuilds nothing      *)
(* while it is under way.                                                  *)
LEMMA CommandKept ==
  ASSUME TypeOK, TypeOK', NEW s \in Symbols, CommandInv(s), TokensKept(s),
         Busy(s) => pos'[s] = pos[s] /\ Waiting(s)',
         Shape(pos'[s]), BookOf(pos'[s]) = BookOf(pos[s])
  PROVE  CommandInv(s)'
<1>1. /\ OneToken(s)'
      /\ Busy(s)' = Busy(s)
      /\ (Unread(s)' = {}) = (Unread(s) = {})
      /\ Owned(s)' = Owned(s)
      /\ \A i \in Unread(s)' : \E j \in Unread(s) : trades'[i] = trades[j]
  BY TokensFrame DEF CommandInv
<1>2. Watched(s)'
  BY <1>1 DEF Watched
<1>3. Asked(s)'
  BY DEF Asked, Busy, TokensKept, CommandInv
<1>4. Reported(s)'
  <2>1. ASSUME NEW i \in Unread(s)'
        PROVE  trades'[i].key = RuleKey(s, pos'[s]) /\ Settling(pos'[s], trades'[i], Owned(s)')
    BY <1>1 DEF Reported, Busy, CommandInv
  <2> QED
    BY <2>1 DEF Reported
<1>5. Agreed(s)'
  BY <1>1 DEF Agreed, CommandInv
<1> QED
  BY <1>1, <1>2, <1>3, <1>4, <1>5 DEF CommandInv

(* The commodity of nobody's step.                                         *)
ListsKept(s) ==
  \A k \in Keys : k.sym = s =>
    rules'[k] = rules[k] /\ (k \in listed' <=> k \in listed)
Untouched(s) ==
  /\ TokensKept(s)
  /\ ListsKept(s)
  /\ pos'[s] = pos[s] /\ day' = day
  /\ Clearing(s) => lst'.msg.key = lst.msg.key
  /\ Handling(s)' => Handling(s)
  /\ Adding(s)' => Adding(s) /\ Sized(s)' = Sized(s)

LEMMA AnsweredKept ==
  ASSUME TypeOK, TypeOK', NEW s \in Symbols, OneToken(s), TokensKept(s),
         Handling(s)' => Handling(s), Answered(s)
  PROVE  Answered(s)'
<1>1. Unread(s)' = {} /\ AtWork(s)' = {}
  BY TokensFrame DEF TokensKept, Answered, Settled
<1>2. \A k \in Keys : k.sym = s => errs'[k] = 0
  BY DEF TokensKept, Answered
<1> QED
  BY <1>1, <1>2 DEF Answered, Settled

LEMMA WaitingKept ==
  ASSUME TypeOK, TypeOK', NEW s \in Symbols, ListsKept(s)
  PROVE  Waiting(s)' = Waiting(s)
BY DEF ListsKept, Waiting, TypeOK

LEMMA UntouchedInv ==
  ASSUME TypeOK, TypeOK', NEW s \in Symbols, CommandInv(s), ListInv(s), Untouched(s)
  PROVE  CommandInv(s)' /\ ListInv(s)'
<1>0. Waiting(s)' = Waiting(s)
  BY WaitingKept DEF Untouched
<1>1. CommandInv(s)'
  <2>1. TokensKept(s) /\ pos'[s] = pos[s]
    BY DEF Untouched
  <2>2. Busy(s) => Waiting(s)'
    BY <1>0 DEF CommandInv, Watched
  <2>3. Shape(pos'[s]) /\ BookOf(pos'[s]) = BookOf(pos[s])
    BY <2>1 DEF CommandInv
  <2> QED
    BY <2>1, <2>2, <2>3, CommandKept
<1>2. ListKey(s)' = ListKey(s) /\ Clearing(s)' = Clearing(s)
  BY DEF Untouched, TokensKept, ListKey
<1>3. Lists(s)'
  <2> SUFFICES ASSUME day' = "open", NEW k \in Keys, k.sym = s
               PROVE  /\ k \in listed' => k = ListKey(s)'
                      /\ rules'[k] # {} => k \in listed'
                      /\ ~Clearing(s)' => \A r \in rules'[k] : r.cmd \in GenerateRules(pos'[s], FALSE)
    BY DEF Lists
  <2> QED
    BY <1>2 DEF Lists, ListInv, Untouched, ListsKept
<1>4. Answered(s) => Answered(s)'
  BY AnsweredKept DEF Untouched, CommandInv
<1>5. Marks(s)'
  BY <1>4 DEF Marks, ListInv, Untouched, ListsKept
<1>6. Stays(s)'
  <2> SUFFICES ASSUME Adding(s)', NEW k \in listed', k.sym = s
               PROVE  Sized(s)' = pos'[s]
    BY DEF Stays
  <2>1. k \in Keys
    BY DEF TypeOK
  <2>2. k \in listed /\ Adding(s) /\ Sized(s)' = Sized(s) /\ pos'[s] = pos[s]
    BY <2>1 DEF Untouched, ListsKept
  <2> QED
    BY <2>2 DEF Stays, ListInv
<1> QED
  BY <1>1, <1>3, <1>5, <1>6 DEF ListInv

-----------------------------------------------------------------------------
(* What every step below starts from, and the types it ends with.          *)
Before(s) ==
  /\ TypeInv /\ TypeOK' /\ RuleMarks /\ RoundInv
  /\ CommodityInv(s)

(* Commands are under way in the trading day only.                         *)
LEMMA BusyOpen ==
  ASSUME TypeOK, RoundInv, NEW s \in Symbols, Busy(s)
  PROVE  day = "open"
<1> SUFFICES ASSUME day # "open" PROVE FALSE
  OBVIOUS
<1>1. orders = {} /\ trades = <<>> /\ lst.step = "idle" /\ \A k \in Keys : errs[k] = 0
  BY DEF RoundInv, Quiet
<1> QED
  BY <1>1 DEF Busy, AtWork, Unread, Clearing, Failed

(* A list that waits for nothing: no command of its commodity is under     *)
(* way, because the command's rule would be in this list.                  *)
LEMMA IdleList ==
  ASSUME TypeOK, RoundInv, NEW s \in Symbols, CommodityInv(s),
         NEW k \in listed, k.sym = s, \A r \in rules[k] : ~Pending(r)
  PROVE  ~Busy(s)
<1> SUFFICES ASSUME Busy(s) PROVE FALSE
  OBVIOUS
<1>1. day = "open"
  BY BusyOpen
<1>2. PICK l \in listed : l.sym = s /\ \E r \in rules[l] : Pending(r)
  BY DEF CommodityInv, CommandInv, Watched, Waiting
<1>3. l = k
  BY <1>1, <1>2 DEF CommodityInv, ListInv, Lists, TypeOK
<1> QED
  BY <1>2, <1>3

(* A list is there for every rule.                                         *)
LEMMA RuleListed ==
  ASSUME TypeOK, NEW s \in Symbols, CommodityInv(s), day = "open", ~Busy(s),
         NEW k \in Keys, k.sym = s, rules[k] # {} \/ k \in listed
  PROVE  /\ k \in listed
         /\ k = RuleKey(s, pos[s])
         /\ \A r \in rules[k] : r.cmd \in GenerateRules(pos[s], FALSE)
BY DEF CommodityInv, ListInv, Lists, ListKey, Busy

(* Steps that leave the world and the listener alone.                      *)
LEMMA WorldKept ==
  ASSUME NEW s \in Symbols, UNCHANGED <<orders, trades, lst, errs, hold>>,
         TypeOK
  PROVE  /\ TokensKept(s)
         /\ Clearing(s) => lst'.msg.key = lst.msg.key
         /\ Handling(s)' = Handling(s)
         /\ Adding(s)' = Adding(s)
         /\ ListKey(s) = lst.msg.key \/ ListKey(s) = RuleKey(s, pos[s])
<1>1. SameReports(s)
  <2>1. Unread(s)' = Unread(s) /\ \A i \in Unread(s) : i \in Nat
    BY DEF Unread, TypeOK
  <2>2. /\ \A i \in Unread(s)' : i + 0 \in Unread(s) /\ trades'[i] = trades[i + 0]
        /\ \A j \in Unread(s) : j - 0 \in Unread(s)'
    BY <2>1
  <2> QED
    BY <2>2 DEF SameReports
<1> QED
  BY <1>1 DEF TokensKept, AtWork, Clearing, Handling, Adding, ListKey

LEMMA SizedSame ==
  ASSUME NEW s \in Symbols, \A x \in Symbols : Hands(pos'[x]) = Hands(pos[x]),
         pos'[s] = pos[s], afford'[s] = afford[s]
  PROVE  Sized(s)' = Sized(s)
<1>1. IsFullPortfolio(pos') = IsFullPortfolio(pos)
  BY FullKept
<1> QED
  BY <1>1 DEF Sized

LEMMA UntouchedWorld ==
  ASSUME TypeOK, NEW s \in Symbols, UNCHANGED <<orders, trades, lst, errs, hold, day>>,
         \A x \in Symbols : Hands(pos'[x]) = Hands(pos[x]),
         pos'[s] = pos[s], afford'[s] = afford[s], ListsKept(s)
  PROVE  Untouched(s)
BY WorldKept, SizedSame DEF Untouched

(* Rules rewritten one by one, their commands as they were.                *)
LEMMA ListsRewritten ==
  ASSUME TypeOK, NEW s \in Symbols, Lists(s), pos'[s] = pos[s],
         UNCHANGED <<lst, day, listed>>,
         \A k \in Keys : k.sym = s =>
           \A r \in rules'[k] : \E x \in rules[k] : r.cmd = x.cmd
  PROVE  Lists(s)'
<1>1. ListKey(s)' = ListKey(s) /\ Clearing(s)' = Clearing(s)
  BY DEF ListKey, Clearing
<1> SUFFICES ASSUME day' = "open", NEW k \in Keys, k.sym = s
             PROVE  /\ k \in listed' => k = ListKey(s)'
                    /\ rules'[k] # {} => k \in listed'
                    /\ ~Clearing(s)' => \A r \in rules'[k] : r.cmd \in GenerateRules(pos'[s], FALSE)
  BY DEF Lists
<1> QED
  BY <1>1 DEF Lists

(* What Stays asks for needs the position and its size to stay.            *)
LEMMA StaysKept ==
  ASSUME TypeOK, NEW s \in Symbols, Stays(s), UNCHANGED <<lst, listed, afford>>,
         \A x \in Symbols : Hands(pos'[x]) = Hands(pos[x]), pos'[s] = pos[s]
  PROVE  Stays(s)'
<1>1. Sized(s)' = Sized(s)
  BY SizedSame
<1> QED
  BY <1>1 DEF Stays, Adding

LEMMA AloneKept ==
  ASSUME NEW s \in Symbols, Alone(s),
         \/ pc' # "pass"
         \/ todo' = {}
         \/ /\ UNCHANGED <<pc, todo>>
            /\ \A l \in Keys : \A r \in rules'[l] :
                 r.mark = "no" \/ \E x \in rules[l] : x.mark = r.mark
  PROVE  Alone(s)'
BY DEF Alone, NoMark

(* The executor visits a list.                                             *)
LEMMA VisitFacts ==
  ASSUME NEW s \in Symbols, Before(s), NEW k \in Keys, Visit(k)
  PROVE  /\ k \in listed /\ day = "open"
         /\ \A r \in rules[k] : r.mark = "no"
         /\ Alone(s)'
         /\ \A r \in rules[k] : Pending(r) => r.triggered
         /\ UNCHANGED <<trades, lst, errs, hold, day, listed, nm, afford>>
<1>1. k \in listed /\ day = "open" /\ \A r \in rules[k] : r.mark = "no"
  BY DEF Before, Visit, RoundInv, RuleMarks
<1>2. Alone(s)'
  BY DEF Before, Visit, CommodityInv, Alone
<1> QED
  BY <1>1, <1>2 DEF Visit, listenerVars, Pending

LEMMA VisitQuietInv ==
  ASSUME NEW s \in Symbols, Before(s), NEW k \in Keys, VisitQuiet(k)
  PROVE  CommodityInv(s)'
<1>1. Visit(k) /\ UNCHANGED <<pos, rules, orders>>
  BY DEF VisitQuiet
<1>2. Alone(s)' /\ UNCHANGED <<trades, lst, errs, hold, day, listed, nm, afford>>
  BY <1>1, VisitFacts
<1>3. Untouched(s)
  BY <1>1, <1>2, UntouchedWorld DEF Before, TypeInv, TypeOK, ListsKept
<1> QED
  BY <1>2, <1>3, UntouchedInv DEF Before, TypeInv, CommodityInv

LEMMA VisitOldInv ==
  ASSUME NEW s \in Symbols, Before(s), NEW k \in Keys, VisitOld(k)
  PROVE  CommodityInv(s)'
<1>1. Visit(k) /\ UNCHANGED <<pos, orders>> /\ rules' = Without(k)
  BY DEF VisitOld
<1>2. Alone(s)' /\ UNCHANGED <<trades, lst, errs, hold, day, listed, nm, afford>>
  BY <1>1, VisitFacts
<1>3. \A l \in Keys : rules'[l] = IF l = k THEN {} ELSE rules[l]
  BY <1>1 DEF Without, Before, TypeInv, TypeOK
<1>t. TypeOK /\ TypeOK'
  BY DEF Before, TypeInv
<1>4. CASE s # k.sym
  <2>1. Untouched(s)
    BY <1>1, <1>2, <1>3, <1>4, <1>t, UntouchedWorld DEF TypeOK, ListsKept
  <2> QED
    BY <1>2, <2>1, <1>t, UntouchedInv DEF Before, CommodityInv
<1>5. CASE s = k.sym
  <2>1. Answered(s)
    BY <1>5 DEF Before, CommodityInv, ListInv, Marks, VisitOld, HasOld
  <2>2. ~Busy(s)
    BY <2>1 DEF Answered, Settled, Busy, Handling, Clearing, Failed
  <2>3. TokensKept(s)
    BY <1>1, <1>2, <1>t, WorldKept
  <2>4. CommandInv(s)'
    BY <1>1, <1>t, <2>2, <2>3, CommandKept DEF Before, CommodityInv, CommandInv
  <2>5. Lists(s)'
    BY <1>1, <1>2, <1>3, <1>t, ListsRewritten DEF Before, CommodityInv, ListInv
  <2>6. Answered(s)'
    BY <1>1, <1>2, <1>t, <2>1, <2>3, WorldKept, AnsweredKept DEF Before, CommodityInv, CommandInv
  <2>7. Marks(s)'
    BY <1>3, <2>6 DEF Before, CommodityInv, ListInv, Marks
  <2>8. Stays(s)'
    BY <1>1, <1>2, <1>t, StaysKept DEF Before, CommodityInv, ListInv
  <2> QED
    BY <1>2, <2>4, <2>5, <2>7, <2>8 DEF CommodityInv, ListInv
<1> QED
  BY <1>4, <1>5

LEMMA SizedTwice ==
  ASSUME TypeOK, NEW s \in Symbols, \A x \in Symbols : Hands(pos'[x]) = Hands(pos[x]),
         pos'[s] = Sized(s), afford' = afford
  PROVE  Sized(s)' = pos'[s]
<1>1. IsFullPortfolio(pos') = IsFullPortfolio(pos)
  BY FullKept
<1>2. UpdateHandPerUnit(Sized(s), IsFullPortfolio(pos), afford[s]) = Sized(s)
  BY SizedKeeps
<1>3. Sized(s)' = UpdateHandPerUnit(pos'[s], IsFullPortfolio(pos'), afford'[s])
  BY DEF Sized
<1> QED
  BY <1>1, <1>2, <1>3

(* A step that only rewrites the rules of a commodity one by one.          *)
LEMMA RewriteInv ==
  ASSUME NEW s \in Symbols, Before(s),
         UNCHANGED <<pos, afford, orders, trades, lst, errs, hold, day, listed>>,
         \A k \in Keys : k.sym = s =>
           \A r \in rules'[k] : \E x \in rules[k] : r.cmd = x.cmd,
         Waiting(s) => Waiting(s)', Marks(s)', Alone(s)'
  PROVE  CommodityInv(s)'
<1>t. TypeOK /\ TypeOK'
  BY DEF Before, TypeInv
<1>1. TokensKept(s)
  BY <1>t, WorldKept
<1>2. CommandInv(s)'
  BY <1>t, <1>1, CommandKept DEF Before, CommodityInv, CommandInv, Watched
<1>3. Lists(s)'
  BY <1>t, ListsRewritten DEF Before, CommodityInv, ListInv
<1>4. Stays(s)'
  BY <1>t, StaysKept DEF Before, CommodityInv, ListInv
<1> QED
  BY <1>2, <1>3, <1>4 DEF CommodityInv, ListInv

(* The command of a rule that fires is the only one of its commodity, and  *)
(* it is what the position asks for.                                       *)
LEMMA FireFacts ==
  ASSUME NEW k \in Keys, NEW r \in rules[k], Before(k.sym), VisitFire(k, r)
  PROVE  LET s == k.sym IN
         /\ s \in Symbols
         /\ ~Busy(s)
         /\ k \in listed
         /\ k = RuleKey(s, pos[s])
         /\ \A x \in rules[k] : x.cmd \in GenerateRules(pos[s], FALSE)
         /\ BookOf(pos[s]) = Owned(s)
         /\ \A l \in Keys : l.sym = s => (l # k => rules[l] = {})
         /\ \A x \in rules[k] : ~x.triggered /\ ~x.old
<1>s. k.sym \in Symbols /\ Visit(k) /\ ~HasTriggered(k)
  BY DEF Keys, VisitFire
<1>t. TypeOK /\ RoundInv /\ CommodityInv(k.sym)
  BY DEF Before, TypeInv
<1>1. k \in listed /\ day = "open" /\ \A x \in rules[k] : Pending(x) => x.triggered
  BY <1>s, VisitFacts
<1>2. \A x \in rules[k] : ~Pending(x)
  BY <1>s, <1>1 DEF HasTriggered
<1>3. ~Busy(k.sym)
  BY <1>s, <1>t, <1>1, <1>2, IdleList
<1>4. k = RuleKey(k.sym, pos[k.sym]) /\ \A x \in rules[k] : x.cmd \in GenerateRules(pos[k.sym], FALSE)
  BY <1>s, <1>t, <1>1, <1>3, RuleListed
<1>5. BookOf(pos[k.sym]) = Owned(k.sym)
  BY <1>t, <1>3 DEF CommodityInv, CommandInv, Agreed, Busy
<1>6. ASSUME NEW l \in Keys, l.sym = k.sym, rules[l] # {} PROVE l = k
  BY <1>s, <1>t, <1>1, <1>3, <1>4, <1>6, RuleListed
<1>7. \A x \in rules[k] : ~x.triggered /\ ~x.old
  BY <1>s, <1>t DEF HasTriggered, CommodityInv, ListInv, Marks
<1> QED
  BY <1>s, <1>1, <1>3, <1>4, <1>5, <1>6, <1>7

LEMMA VisitFireInv ==
  ASSUME NEW s \in Symbols, Before(s), NEW k \in Keys, NEW r \in rules[k], VisitFire(k, r)
  PROVE  CommodityInv(s)'
<1> DEFINE o == [id |-> FreeId, key |-> k, cmd |-> r.cmd, left |-> r.cmd.vol]
           new == [r EXCEPT !.mark = "hit"]
<1>t. TypeOK /\ TypeOK'
  BY DEF Before, TypeInv
<1>1. Visit(k) /\ orders' = orders \cup {o} /\ rules' = Replace(k, r, new) /\ pos' = pos
  BY DEF VisitFire
<1>2. Alone(s)' /\ UNCHANGED <<trades, lst, errs, hold, day, listed, nm, afford>>
  BY <1>1, VisitFacts
<1>3. \A l \in Keys : rules'[l] = IF l = k THEN (rules[k] \ {r}) \cup {new} ELSE rules[l]
  BY <1>1, <1>t DEF Replace, TypeOK
<1>n. r \in Rule /\ new.mark = "hit" /\ new.cmd = r.cmd /\ new.triggered = r.triggered
      /\ new.old = r.old
  BY <1>t DEF TypeOK, Rule
<1>4. CASE s # k.sym
  <2>1. AtWork(s)' = AtWork(s)
    BY <1>1, <1>4 DEF AtWork
  <2>2. ListsKept(s) /\ pos'[s] = pos[s]
    BY <1>1, <1>2, <1>3, <1>4 DEF ListsKept
  <2>3. SameReports(s)
    <3>1. Unread(s)' = Unread(s) /\ \A i \in Unread(s) : i \in Nat
      BY <1>2, <1>t DEF Unread, TypeOK
    <3>2. /\ \A i \in Unread(s)' : i + 0 \in Unread(s) /\ trades'[i] = trades[i + 0]
          /\ \A j \in Unread(s) : j - 0 \in Unread(s)'
      BY <1>2, <3>1
    <3> QED
      BY <3>2 DEF SameReports
  <2>4. Sized(s)' = Sized(s)
    BY <1>1, <1>2, SizedSame
  <2>5. Untouched(s)
    BY <1>2, <2>1, <2>2, <2>3, <2>4 DEF Untouched, TokensKept, Clearing, Handling, Adding
  <2> QED
    BY <1>2, <1>t, <2>5, UntouchedInv DEF Before, CommodityInv
<1>5. CASE s = k.sym
  <2>1. /\ ~Busy(s) /\ k \in listed /\ k = RuleKey(s, pos[s])
        /\ \A x \in rules[k] : x.cmd \in GenerateRules(pos[s], FALSE)
        /\ BookOf(pos[s]) = Owned(s)
        /\ \A l \in Keys : l.sym = s => (l # k => rules[l] = {})
        /\ \A x \in rules[k] : ~x.triggered /\ ~x.old
    BY <1>5, FireFacts
  <2>2. AtWork(s)' = {o} /\ Unread(s)' = {} /\ ~Clearing(s)' /\ Failed(s)' = {}
    BY <1>1, <1>2, <1>5, <2>1 DEF Busy, AtWork, Unread, Clearing, Failed
  <2>3. OneToken(s)'
    <3> HIDE DEF o
    <3> QED
      BY <2>2 DEF OneToken
  <2>4. Waiting(s)'
    <3>1. k \in listed' /\ new \in rules'[k] /\ Pending(new)
      BY <1>2, <1>3, <1>n, <2>1 DEF Pending
    <3> QED
      BY <1>5, <3>1 DEF Waiting
  <2>5. Asked(s)'
    <3>1. o.key = k /\ o.cmd = r.cmd /\ o.left = r.cmd.vol
      OBVIOUS
    <3> HIDE DEF o
    <3> QED
      BY <1>1, <2>1, <2>2, <3>1 DEF Asked
  <2>6. Reported(s)'
    BY <2>2 DEF Reported
  <2>7. Agreed(s)'
    <3>1. Owned(s)' = Owned(s)
      BY <1>2 DEF Owned
    <3> QED
      BY <1>1, <2>1, <3>1 DEF Agreed
  <2>8. CommandInv(s)'
    BY <1>1, <2>3, <2>4, <2>5, <2>6, <2>7 DEF CommandInv, Watched, Before, CommodityInv
  <2>9. Lists(s)'
    <3> HIDE DEF new
    <3>1. \A l \in Keys : \A x \in rules'[l] : \E y \in rules[l] : x.cmd = y.cmd
      BY <1>3, <1>n
    <3> QED
      BY <1>1, <1>2, <1>t, <3>1, ListsRewritten DEF Before, CommodityInv, ListInv
  <2>10. Marks(s)'
    <3> SUFFICES ASSUME NEW l \in Keys, NEW x \in rules'[l], l.sym = s
                 PROVE  x.mark # "half" /\ ~x.triggered /\ ~x.old
      BY DEF Marks
    <3>1. l = k
      BY <1>3, <2>1
    <3>2. \A y \in rules[k] : y.mark = "no"
      BY <1>1, VisitFacts
    <3> HIDE DEF new
    <3> QED
      BY <1>3, <1>n, <2>1, <3>1, <3>2
  <2>11. Stays(s)'
    BY <1>1, <1>2, <1>t, StaysKept DEF Before, CommodityInv, ListInv
  <2> QED
    BY <1>2, <2>8, <2>9, <2>10, <2>11 DEF CommodityInv, ListInv
<1> QED
  BY <1>4, <1>5

LEMMA VisitEmptyInv ==
  ASSUME NEW s \in Symbols, Before(s), NEW k \in Keys, VisitEmpty(k)
  PROVE  CommodityInv(s)'
<1> DEFINE x == k.sym
           fresh == NewRules(Sized(x), IsFullPortfolio(pos))
<1>t. TypeOK /\ TypeOK' /\ x \in Symbols
  BY DEF Before, TypeInv, Keys
<1>1. Visit(k) /\ orders' = orders /\ rules[k] = {}
  BY DEF VisitEmpty
<1>2. k \in listed /\ day = "open"
      /\ Alone(s)' /\ UNCHANGED <<trades, lst, errs, hold, day, listed, nm, afford>>
  BY <1>1, VisitFacts
<1>3. CASE UNCHANGED <<pos, rules>>
  <2>1. Untouched(s)
    BY <1>1, <1>2, <1>3, <1>t, UntouchedWorld DEF TypeOK, ListsKept
  <2> QED
    BY <1>2, <1>t, <2>1, UntouchedInv DEF Before, CommodityInv
<1>4. CASE pos' = [pos EXCEPT ![x] = Sized(x)] /\ rules' = [rules EXCEPT ![k] = fresh]
  <2>1. \A y \in Symbols : pos'[y] = IF y = x THEN Sized(x) ELSE pos[y]
    BY <1>4, <1>t DEF TypeOK
  <2>2. \A l \in Keys : rules'[l] = IF l = k THEN fresh ELSE rules[l]
    BY <1>4, <1>t DEF TypeOK
  <2>3. \A y \in Symbols : Hands(pos'[y]) = Hands(pos[y])
    BY <1>t, <2>1, SizedKeeps
  <2>4. CASE s # x
    <3>1. Untouched(s)
      BY <1>1, <1>2, <1>t, <2>1, <2>2, <2>3, <2>4, UntouchedWorld DEF TypeOK, ListsKept
    <3> QED
      BY <1>2, <1>t, <3>1, UntouchedInv DEF Before, CommodityInv
  <2>5. CASE s = x
    <3>1. ~Busy(s)
      BY <1>1, <1>2, <1>t, <2>5, IdleList DEF Before
    <3>2. TokensKept(s) /\ Clearing(s)' = Clearing(s) /\ ~Clearing(s)
      BY <1>1, <1>2, <1>t, <3>1, WorldKept DEF TokensKept, Busy
    <3>3. /\ Shape(pos'[s]) /\ BookOf(pos'[s]) = BookOf(pos[s])
          /\ RuleKey(s, pos'[s]) = RuleKey(s, pos[s])
      BY <1>t, <2>1, <2>5, SizedKeeps DEF Before, CommodityInv, CommandInv
    <3>4. CommandInv(s)'
      BY <1>t, <3>1, <3>2, <3>3, CommandKept DEF Before, CommodityInv
    <3>5. k = RuleKey(s, pos[s])
      BY <1>2, <1>t, <2>5, <3>1, RuleListed DEF Before
    <3>6. ASSUME NEW l \in Keys, l.sym = s
          PROVE  /\ l \in listed => l = k
                 /\ l # k => rules[l] = {}
      BY <1>2, <1>t, <3>1, <3>5, <3>6, RuleListed DEF Before
    <3>7. \A r \in fresh : /\ r.cmd \in GenerateRules(pos'[s], FALSE)
                           /\ ~r.triggered /\ ~r.old /\ r.mark = "no"
      BY <2>1, <2>5, NewRulesFit
    <3>8. Lists(s)'
      <4>1. ListKey(s)' = k
        BY <3>2, <3>3, <3>5 DEF ListKey
      <4> HIDE DEF fresh
      <4> QED
        BY <1>2, <2>2, <3>6, <3>7, <4>1 DEF Lists
    <3>9. Marks(s)'
      <4> HIDE DEF fresh
      <4> QED
        BY <2>2, <3>6, <3>7 DEF Marks
    <3>10. Stays(s)'
      <4>1. pos'[s] = Sized(s)
        BY <2>1, <2>5
      <4>2. Sized(s)' = pos'[s]
        BY <1>2, <1>t, <2>3, <4>1, SizedTwice
      <4> QED
        BY <4>2 DEF Stays
    <3> QED
      BY <1>2, <3>4, <3>8, <3>9, <3>10 DEF CommodityInv, ListInv
  <2> QED
    BY <2>4, <2>5
<1> QED
  BY <1>3, <1>4 DEF VisitEmpty

-----------------------------------------------------------------------------
(* A new round: over the map as it is, or the map is generated again.      *)
LEMMA StartPassInv ==
  ASSUME Calm, NEW s \in Symbols, Before(s), StartPass
  PROVE  CommodityInv(s)'
<1>t. TypeOK /\ TypeOK' /\ pc = "idle" /\ day \in {"open", "switched"} /\ day' = "open"
  BY DEF Before, TypeInv, TypeOK, StartPass
<1>1. CASE NeedsInit
  <2>1. InitRules(Symbols) /\ pc' = "idle"
    <3>1. "genfail" \notin Env
      BY DEF Calm
    <3> QED
      BY <1>1, <1>t, <3>1 DEF StartPass, executorVars
  <2>2. /\ UNCHANGED <<orders, trades, lst, errs, hold, afford>>
        /\ \A y \in Symbols : pos'[y] = Sized(y)
    BY <1>1, <2>1 DEF StartPass, listenerVars, InitRules
  <2>3. \A y \in Symbols : Hands(pos'[y]) = Hands(pos[y])
    BY <1>t, <2>2, SizedKeeps
  <2>4. ~Busy(s)
    BY <1>1, <1>t, BusyOpen DEF NeedsInit, Before, CommodityInv, CommandInv, Watched, Waiting
  <2>5. TokensKept(s) /\ Clearing(s)' = Clearing(s) /\ ~Clearing(s)
    BY <1>t, <2>2, <2>4, WorldKept DEF TokensKept, Busy
  <2>6. /\ Shape(pos'[s]) /\ BookOf(pos'[s]) = BookOf(pos[s])
    BY <1>t, <2>2, SizedKeeps DEF Before, CommodityInv, CommandInv
  <2>7. CommandInv(s)'
    BY <1>t, <2>4, <2>5, <2>6, CommandKept DEF Before, CommodityInv
  <2>8. ASSUME NEW l \in Keys, l.sym = s
        PROVE  /\ l \in listed' <=> l = RuleKey(s, pos'[s])
               /\ rules'[l] = IF l = RuleKey(s, pos'[s])
                              THEN NewRules(pos'[s], IsFullPortfolio(pos)) ELSE {}
    <3>1. \A y \in Symbols : l = RuleKey(y, pos'[y]) => y = s
      BY <2>8 DEF RuleKey, Key
    <3>2. listed' = {RuleKey(y, pos'[y]) : y \in Symbols}
      BY <2>1 DEF InitRules
    <3>3. rules'[l] = IF \E y \in Symbols : l = RuleKey(y, pos'[y])
                      THEN NewRules(pos'[l.sym], IsFullPortfolio(pos)) ELSE {}
      BY <2>1 DEF InitRules
    <3> QED
      BY <2>8, <3>1, <3>2, <3>3
  <2>9. ASSUME NEW l \in Keys, l.sym = s, NEW r \in rules'[l]
        PROVE  /\ r.cmd \in GenerateRules(pos'[s], FALSE)
               /\ ~r.triggered /\ ~r.old /\ r.mark = "no"
    BY <2>8, <2>9, NewRulesFit
  <2>10. Lists(s)'
    <3>1. ListKey(s)' = RuleKey(s, pos'[s])
      BY <2>5 DEF ListKey
    <3> QED
      BY <2>8, <2>9, <3>1 DEF Lists
  <2>11. Marks(s)'
    BY <2>9 DEF Marks
  <2>12. Stays(s)'
    <3>1. Sized(s)' = pos'[s]
      BY <1>t, <2>2, <2>3, SizedTwice
    <3> QED
      BY <3>1 DEF Stays
  <2>13. Alone(s)'
    BY <2>1 DEF Alone
  <2> QED
    BY <2>7, <2>10, <2>11, <2>12, <2>13 DEF CommodityInv, ListInv
<1>2. CASE ~NeedsInit
  <2>1. UNCHANGED <<portfolioVars, mapVars, listenerVars, orders, hold, trades, errs>>
        /\ todo' = listed
    BY <1>2 DEF StartPass
  <2>2. day = "open"
    BY <1>2, <1>t DEF NeedsInit
  <2>3. Untouched(s)
    BY <1>t, <2>1, <2>2, UntouchedWorld DEF TypeOK, ListsKept, portfolioVars, mapVars, listenerVars
  <2>4. Alone(s)'
    <3> SUFFICES ASSUME "midpass" \in Env, NEW k \in listed
                 PROVE  listed = {k} /\ \A l \in Keys : NoMark(rules'[l])
      BY <2>1 DEF Alone
    <3>1. ASSUME NEW l \in listed PROVE l = ListKey(s)
      <4>1. l \in Keys /\ l.sym = s
        BY <1>t DEF TypeOK, Calm, Keys
      <4> QED
        BY <2>2, <3>1, <4>1 DEF Before, CommodityInv, ListInv, Lists
    <3>2. \A l \in Keys : NoMark(rules[l])
      BY <1>t DEF Before, RuleMarks, NoMark
    <3> QED
      BY <2>1, <3>1, <3>2 DEF mapVars
  <2> QED
    BY <1>t, <2>3, <2>4, UntouchedInv DEF Before, CommodityInv
<1> QED
  BY <1>1, <1>2

(* The round is given up: with one commodity no rule had a mark.           *)
LEMMA PassFailsInv ==
  ASSUME NEW s \in Symbols, Before(s), PassFails
  PROVE  CommodityInv(s)'
<1>t. TypeOK /\ TypeOK'
  BY DEF Before, TypeInv
<1>1. \A l \in Keys : NoMark(rules[l])
  BY DEF PassFails, Before, RoundInv, CommodityInv, Alone
<1>2. ASSUME NEW l \in Keys PROVE rules'[l] = rules[l]
  <2>1. rules'[l] = {Unmark(r) : r \in rules[l]}
    BY DEF PassFails
  <2>2. ASSUME NEW r \in rules[l] PROVE Unmark(r) = r
    <3>1. r \in Rule /\ r.mark = "no"
      BY <1>1, <1>t DEF TypeOK, NoMark
    <3> QED
      BY <3>1 DEF Unmark, Rule
  <2> QED
    BY <2>1, <2>2
<1>3. UNCHANGED <<portfolioVars, listed, listenerVars, worldVars>> /\ pc' = "idle"
  BY DEF PassFails
<1>4. Untouched(s)
  BY <1>t, <1>2, <1>3, UntouchedWorld DEF TypeOK, ListsKept, portfolioVars, listenerVars, worldVars
<1>5. Alone(s)'
  BY <1>3 DEF Alone
<1> QED
  BY <1>t, <1>4, <1>5, UntouchedInv DEF Before, CommodityInv

LEMMA RoundEndsInv ==
  ASSUME NEW s \in Symbols, Before(s), EndPass \/ EndMark
  PROVE  CommodityInv(s)'
<1>t. TypeOK /\ TypeOK'
  BY DEF Before, TypeInv
<1>1. UNCHANGED <<portfolioVars, mapVars, listenerVars, worldVars>> /\ pc' # "pass"
  BY DEF EndPass, EndMark
<1>2. Untouched(s)
  BY <1>t, <1>1, UntouchedWorld DEF TypeOK, ListsKept, portfolioVars, mapVars, listenerVars, worldVars
<1>3. Alone(s)'
  BY <1>1 DEF Alone
<1> QED
  BY <1>t, <1>2, <1>3, UntouchedInv DEF Before, CommodityInv

LEMMA MarkTriggeredInv ==
  ASSUME Calm, NEW s \in Symbols, Before(s), NEW k \in Keys, NEW r \in rules[k],
         MarkTriggered(k, r)
  PROVE  CommodityInv(s)'
<1> DEFINE new == [r EXCEPT !.triggered = TRUE, !.at = "now", !.mark = "no"]
<1>t. TypeOK /\ TypeOK'
  BY DEF Before, TypeInv
<1>1. UNCHANGED <<executorVars, portfolioVars, listed, listenerVars, worldVars>>
      /\ pc = "mark" /\ r.mark = "hit"
  BY DEF MarkTriggered
<1>2. rules' = Replace(k, r, new)
  BY DEF MarkTriggered, Calm
<1>3. \A l \in Keys : rules'[l] = IF l = k THEN (rules[k] \ {r}) \cup {new} ELSE rules[l]
  BY <1>2, <1>t DEF Replace, TypeOK
<1>n. r \in Rule /\ new.mark = "no" /\ new.cmd = r.cmd /\ new.triggered = TRUE
      /\ new.at = "now" /\ new.old = r.old
  BY <1>t DEF TypeOK, Rule
<1>4. Alone(s)'
  BY <1>1 DEF Alone, executorVars
<1>5. CASE s # k.sym
  <2>1. Untouched(s)
    BY <1>t, <1>1, <1>3, <1>5, UntouchedWorld DEF TypeOK, ListsKept, portfolioVars, listenerVars, worldVars
  <2> QED
    BY <1>t, <1>4, <2>1, UntouchedInv DEF Before, CommodityInv
<1>6. CASE s = k.sym
  <2> HIDE DEF new
  <2>1. Waiting(s) => Waiting(s)'
    BY <1>1, <1>3, <1>n, <1>t DEF Waiting, Pending, TypeOK
  <2>2. Marks(s)'
    <3>1. TokensKept(s) /\ Handling(s)' = Handling(s)
      BY <1>1, <1>t, WorldKept DEF listenerVars, worldVars
    <3>2. Answered(s) => Answered(s)'
      BY <1>t, <3>1, AnsweredKept DEF Before, CommodityInv, CommandInv
    <3>3. ~r.triggered /\ ~r.old
      BY <1>1, <1>6 DEF Before, CommodityInv, ListInv, Marks
    <3>4. ~new.old
      BY <1>n, <3>3
    <3> SUFFICES ASSUME NEW l \in Keys, NEW x \in rules'[l], l.sym = s
                 PROVE  /\ x.mark # "half"
                        /\ x.mark = "hit" => ~x.triggered
                        /\ x.triggered /\ x.at # "now" => Answered(s)'
                        /\ x.old => x.triggered /\ x.at # "now"
      BY DEF Marks
    <3>5. CASE x \in rules[l]
      BY <3>2, <3>5 DEF Before, CommodityInv, ListInv, Marks
    <3>6. CASE x \notin rules[l]
      BY <1>3, <1>n, <3>4, <3>6
    <3> QED
      BY <3>5, <3>6
  <2>3. \A l \in Keys : \A x \in rules'[l] : \E y \in rules[l] : x.cmd = y.cmd
    BY <1>3, <1>n
  <2> QED
    BY <1>1, <1>4, <2>1, <2>2, <2>3, RewriteInv DEF portfolioVars, listenerVars, worldVars
<1> QED
  BY <1>5, <1>6

(* Without "race" no rule is between the two assignments.                  *)
LEMMA MarkTimeInv ==
  ASSUME NEW s \in Symbols, Before(s), NEW k \in Keys, NEW r \in rules[k],
         MarkTime(k, r)
  PROVE  CommodityInv(s)'
<1>t. TypeOK /\ TypeOK'
  BY DEF Before, TypeInv
<1>1. UNCHANGED <<executorVars, portfolioVars, listed, listenerVars, worldVars>>
      /\ r.mark = "half" /\ pc = "mark"
  BY DEF MarkTime
<1>2. s # k.sym
  BY <1>1 DEF Before, CommodityInv, ListInv, Marks
<1>3. \A l \in Keys : l # k => rules'[l] = rules[l]
  BY <1>t DEF MarkTime, Replace, TypeOK
<1>4. Untouched(s)
  BY <1>t, <1>1, <1>2, <1>3, UntouchedWorld DEF TypeOK, ListsKept, portfolioVars, listenerVars, worldVars
<1>5. Alone(s)'
  BY <1>1 DEF Alone, executorVars
<1> QED
  BY <1>t, <1>4, <1>5, UntouchedInv DEF Before, CommodityInv

LEMMA ExecutorInv ==
  ASSUME Calm, NEW s \in Symbols, Before(s), Executor
  PROVE  CommodityInv(s)'
<1>1. CASE StartPass
  BY <1>1, StartPassInv
<1>2. CASE PassFails
  BY <1>2, PassFailsInv
<1>3. CASE EndPass \/ EndMark
  BY <1>3, RoundEndsInv
<1>4. ASSUME NEW k \in Keys, VisitEmpty(k) PROVE CommodityInv(s)'
  BY <1>4, VisitEmptyInv
<1>5. ASSUME NEW k \in Keys, VisitQuiet(k) PROVE CommodityInv(s)'
  BY <1>5, VisitQuietInv
<1>6. ASSUME NEW k \in Keys, VisitOld(k) PROVE CommodityInv(s)'
  BY <1>6, VisitOldInv
<1>7. ASSUME NEW k \in Keys, NEW r \in rules[k], VisitFire(k, r) PROVE CommodityInv(s)'
  BY <1>7, VisitFireInv
<1>8. ASSUME NEW k \in Keys, NEW r \in rules[k], MarkTriggered(k, r) PROVE CommodityInv(s)'
  BY <1>8, MarkTriggeredInv
<1>9. ASSUME NEW k \in Keys, NEW r \in rules[k], MarkTime(k, r) PROVE CommodityInv(s)'
  BY <1>9, MarkTimeInv
<1> QED
  BY <1>1, <1>2, <1>3, <1>4, <1>5, <1>6, <1>7, <1>8, <1>9 DEF Executor

(* The lists as they are: only whether the last command is answered counts.*)
LEMMA ListsStand ==
  ASSUME TypeOK, NEW s \in Symbols, ListInv(s), Alone(s),
         UNCHANGED <<pos, afford, mapVars, lst, day, pc, todo>>,
         Answered(s) => Answered(s)'
  PROVE  ListInv(s)' /\ Alone(s)'
<1>1. ListKey(s)' = ListKey(s) /\ Clearing(s)' = Clearing(s)
  BY DEF ListKey, Clearing
<1>2. Lists(s)'
  BY <1>1 DEF Lists, ListInv, mapVars
<1>3. Marks(s)'
  BY DEF Marks, ListInv, mapVars
<1>4. Stays(s)'
  BY DEF Stays, ListInv, mapVars, Adding, Sized
<1>5. Alone(s)'
  BY DEF Alone, mapVars, NoMark
<1> QED
  BY <1>2, <1>3, <1>4, <1>5 DEF ListInv

LEMMA BusyNotAnswered ==
  ASSUME NEW s \in Symbols, Busy(s)
  PROVE  ~Answered(s)
BY DEF Busy, Answered, Settled, Handling, Clearing, Failed

LEMMA SameUnread ==
  ASSUME TypeOK, NEW s \in Symbols,
         Unread(s)' = Unread(s), \A i \in Unread(s) : trades'[i] = trades[i]
  PROVE  SameReports(s)
<1>1. \A i \in Unread(s) : i \in Nat
  BY DEF Unread, TypeOK
<1>2. /\ \A i \in Unread(s)' : i + 0 \in Unread(s) /\ trades'[i] = trades[i + 0]
      /\ \A j \in Unread(s) : j - 0 \in Unread(s)'
  BY <1>1
<1> QED
  BY <1>2 DEF SameReports

(* The error listener: the command was refused, its rule may fire again.   *)
LEMMA OnCommandFailedInv ==
  ASSUME NEW s \in Symbols, Before(s), NEW k \in Keys, OnCommandFailed(k)
  PROVE  CommodityInv(s)'
<1>t. TypeOK /\ TypeOK'
  BY DEF Before, TypeInv
<1>1. UNCHANGED <<portfolioVars, listed, executorVars, listenerVars, day, orders, hold, trades>>
  BY DEF OnCommandFailed
<1>2. \A l \in Keys : /\ errs'[l] = IF l = k THEN errs[k] - 1 ELSE errs[l]
                      /\ rules'[l] = IF l = k THEN Untriggered(rules[k]) ELSE rules[l]
  BY <1>t DEF OnCommandFailed, AfterFailure, TypeOK
<1>3. ASSUME NEW l \in Keys, NEW r \in rules'[l]
      PROVE  \E x \in rules[l] : /\ r.cmd = x.cmd /\ r.mark = x.mark /\ r.old = x.old
                                 /\ l = k => ~r.triggered
                                 /\ l # k => r = x
  <2>1. CASE l # k
    BY <1>2, <1>3, <2>1
  <2>2. CASE l = k
    <3>0. r \in Untriggered(rules[l])
      BY <1>2, <2>2
    <3>1. PICK x \in rules[l] : r = [x EXCEPT !.triggered = FALSE]
      BY <3>0 DEF Untriggered
    <3>2. x \in Rule
      BY <1>t DEF TypeOK
    <3>3. r.cmd = x.cmd /\ r.mark = x.mark /\ r.old = x.old /\ ~r.triggered
      BY <3>1, <3>2 DEF Rule
    <3> QED
      BY <2>2, <3>3
  <2> QED
    BY <2>1, <2>2
<1>4. Alone(s)'
  <2>1. UNCHANGED <<pc, todo>>
    BY <1>1 DEF executorVars
  <2> QED
    BY <1>3, <2>1, AloneKept DEF Before, CommodityInv
<1>5. CASE s # k.sym
  <2>1. SameReports(s)
    BY <1>1, <1>t, SameUnread DEF Unread
  <2>2. TokensKept(s)
    BY <1>1, <1>2, <1>5, <2>1 DEF TokensKept, AtWork, Clearing, listenerVars
  <2>3. Sized(s)' = Sized(s)
    BY <1>1 DEF Sized, portfolioVars
  <2>4. Untouched(s)
    BY <1>1, <1>2, <1>5, <2>2, <2>3
    DEF Untouched, ListsKept, Handling, Adding, portfolioVars, listenerVars
  <2> QED
    BY <1>t, <1>4, <2>4, UntouchedInv DEF Before, CommodityInv
<1>6. CASE s = k.sym
  <2>0. k \in Failed(s) /\ OneToken(s)
    BY <1>6 DEF OnCommandFailed, Failed, Before, CommodityInv, CommandInv
  <2>1. AtWork(s) = {} /\ Unread(s) = {} /\ ~Clearing(s)
        /\ \A l \in Failed(s) : l = k /\ errs[l] = 1
    BY <2>0 DEF OneToken
  <2>2. AtWork(s)' = {} /\ Unread(s)' = {} /\ ~Clearing(s)'
    BY <1>1, <2>1 DEF AtWork, Unread, Clearing, listenerVars
  <2>3. Failed(s)' = {}
    <3> SUFFICES ASSUME NEW l \in Failed(s)' PROVE FALSE
      OBVIOUS
    <3>1. l \in Keys /\ l.sym = s /\ errs'[l] > 0
      BY DEF Failed
    <3>2. CASE l = k
      BY <1>2, <2>0, <2>1, <3>1, <3>2
    <3>3. CASE l # k
      BY <1>2, <2>1, <3>1, <3>3 DEF Failed
    <3> QED
      BY <3>2, <3>3
  <2>4. OneToken(s)' /\ ~Busy(s)'
    BY <2>2, <2>3 DEF OneToken, Busy
  <2>5. Owned(s)' = Owned(s) /\ pos'[s] = pos[s]
    BY <1>1 DEF Owned, portfolioVars
  <2>6. CommandInv(s)'
    BY <2>1, <2>2, <2>4, <2>5
    DEF CommandInv, Watched, Asked, Reported, Agreed, Before, CommodityInv
  <2>7. Lists(s)'
    BY <1>1, <1>3, <1>t, <2>5, ListsRewritten
    DEF Before, CommodityInv, ListInv, listenerVars
  <2>8. Marks(s)'
    <3>1. ~Answered(s)
      BY <2>0, BusyNotAnswered DEF Busy
    <3>2. \A l \in Keys : \A x \in rules[l] : l.sym = s =>
            x.mark # "half" /\ ~x.old /\ (x.mark = "hit" => ~x.triggered)
            /\ (x.triggered => x.at = "now")
      BY <3>1 DEF Before, CommodityInv, ListInv, Marks
    <3> SUFFICES ASSUME NEW l \in Keys, NEW r \in rules'[l], l.sym = s
                 PROVE  /\ r.mark # "half"
                        /\ r.mark = "hit" => ~r.triggered
                        /\ r.triggered => r.at = "now"
                        /\ ~r.old
      BY DEF Marks
    <3> QED
      BY <1>3, <3>2
  <2>9. Stays(s)'
    BY <1>1, <1>t, StaysKept DEF Before, CommodityInv, ListInv, portfolioVars, listenerVars
  <2> QED
    BY <1>4, <2>6, <2>7, <2>8, <2>9 DEF CommodityInv, ListInv
<1> QED
  BY <1>5, <1>6

(* The cleaner: what is old was triggered, and answered if need be.        *)
LEMMA ClearOutstandingCommandsInv ==
  ASSUME NEW s \in Symbols, Before(s), NEW k \in Keys, ClearOutstandingCommands(k)
  PROVE  CommodityInv(s)'
<1>t. TypeOK /\ TypeOK'
  BY DEF Before, TypeInv
<1>1. UNCHANGED <<portfolioVars, listed, executorVars, lst, worldVars>>
  BY DEF ClearOutstandingCommands
<1>2. ASSUME NEW l \in Keys
      PROVE  rules'[l] = IF l = k THEN SetOld(rules[k]) ELSE rules[l]
  BY <1>t DEF ClearOutstandingCommands, TypeOK
<1>x. ASSUME NEW x \in Rule
      PROVE  LET n == [x EXCEPT !.old = @ \/ (x.triggered /\ x.at = "past")] IN
             /\ n.cmd = x.cmd /\ n.mark = x.mark /\ n.triggered = x.triggered
             /\ n.at = x.at
             /\ n.old => x.old \/ (x.triggered /\ x.at = "past")
  BY DEF Rule
<1>3. ASSUME NEW l \in Keys, NEW r \in rules'[l]
      PROVE  \E x \in rules[l] :
               /\ r.cmd = x.cmd /\ r.mark = x.mark /\ r.triggered = x.triggered
               /\ r.at = x.at
               /\ r.old => x.old \/ (x.triggered /\ x.at = "past")
  <2>1. CASE l # k
    BY <1>2, <1>3, <2>1
  <2>2. CASE l = k
    <3>0. r \in SetOld(rules[l])
      BY <1>2, <2>2
    <3>1. PICK x \in rules[l] : r = [x EXCEPT !.old = @ \/ (x.triggered /\ x.at = "past")]
      BY <3>0 DEF SetOld
    <3> QED
      BY <1>t, <1>x, <3>1 DEF TypeOK
  <2> QED
    BY <2>1, <2>2
<1>4. ASSUME NEW l \in Keys, NEW x \in rules[l]
      PROVE  \E r \in rules'[l] : r.mark = x.mark /\ r.triggered = x.triggered
  <2>1. CASE l # k
    BY <1>2, <2>1
  <2>2. CASE l = k
    <3>1. [x EXCEPT !.old = @ \/ (x.triggered /\ x.at = "past")] \in rules'[l]
      BY <1>2, <2>2 DEF SetOld
    <3> QED
      BY <1>t, <1>x, <3>1 DEF TypeOK
  <2> QED
    BY <2>1, <2>2
<1>5. Waiting(s) => Waiting(s)'
  <2> SUFFICES ASSUME NEW l \in listed, l.sym = s, NEW x \in rules[l], Pending(x)
               PROVE  Waiting(s)'
    BY DEF Waiting
  <2>1. l \in Keys /\ l \in listed'
    BY <1>1, <1>t DEF TypeOK
  <2>2. PICK r \in rules'[l] : r.mark = x.mark /\ r.triggered = x.triggered
    BY <1>4, <2>1
  <2>3. Pending(r)
    BY <2>2 DEF Pending
  <2> QED
    BY <2>1, <2>2, <2>3 DEF Waiting
<1>6. Alone(s)'
  <2>1. UNCHANGED <<pc, todo>>
    BY <1>1 DEF executorVars
  <2> QED
    BY <1>3, <2>1, AloneKept DEF Before, CommodityInv
<1>7. Marks(s)'
  <2>1. TokensKept(s) /\ Handling(s)' = Handling(s)
    BY <1>1, <1>t, WorldKept DEF worldVars
  <2>2. Answered(s) => Answered(s)'
    BY <1>t, <2>1, AnsweredKept DEF Before, CommodityInv, CommandInv
  <2> SUFFICES ASSUME NEW l \in Keys, NEW r \in rules'[l], l.sym = s
               PROVE  /\ r.mark # "half"
                      /\ r.mark = "hit" => ~r.triggered
                      /\ r.triggered /\ r.at # "now" => Answered(s)'
                      /\ r.old => r.triggered /\ r.at # "now"
    BY DEF Marks
  <2> QED
    BY <1>3, <2>2 DEF Before, CommodityInv, ListInv, Marks
<1> QED
  BY <1>1, <1>3, <1>5, <1>6, <1>7, RewriteInv DEF portfolioVars, worldVars

(* Three minutes: the command is answered by then.                         *)
LEMMA AgeInv ==
  ASSUME Calm, NEW s \in Symbols, Before(s), NEW a \in Symbols, Age(a)
  PROVE  CommodityInv(s)'
<1>t. TypeOK /\ TypeOK'
  BY DEF Before, TypeInv
<1>1. UNCHANGED <<portfolioVars, listed, executorVars, listenerVars, worldVars>>
      /\ Answered(a)
  BY DEF Age, Calm
<1> DEFINE older(l, x) == [x EXCEPT !.at = IF @ = "now" /\ l.sym = a THEN "past" ELSE @]
<1>2. \A l \in Keys : rules'[l] = {older(l, x) : x \in rules[l]}
  BY DEF Age
<1>x. ASSUME NEW x \in Rule, NEW l
      PROVE  LET n == older(l, x) IN
             /\ n.cmd = x.cmd /\ n.mark = x.mark /\ n.triggered = x.triggered
             /\ n.old = x.old
             /\ n.at = IF x.at = "now" /\ l.sym = a THEN "past" ELSE x.at
  BY DEF Rule
<1>y. \A l \in Keys : \A x \in rules[l] : x \in Rule
  BY <1>t DEF TypeOK
<1>3. ASSUME NEW l \in Keys, NEW r \in rules'[l]
      PROVE  \E x \in rules[l] :
               /\ r.cmd = x.cmd /\ r.mark = x.mark /\ r.triggered = x.triggered
               /\ r.old = x.old
               /\ r.at = IF x.at = "now" /\ l.sym = a THEN "past" ELSE x.at
  <2>1. PICK x \in rules[l] : r = older(l, x)
    BY <1>2
  <2> HIDE DEF older
  <2> QED
    BY <1>x, <1>y, <2>1
<1>4. ASSUME NEW l \in Keys, NEW x \in rules[l]
      PROVE  \E r \in rules'[l] : r.mark = x.mark /\ r.triggered = x.triggered
  <2>1. older(l, x) \in rules'[l]
    BY <1>2
  <2> HIDE DEF older
  <2> QED
    BY <1>x, <1>y, <2>1
<1>5. Waiting(s) => Waiting(s)'
  <2> SUFFICES ASSUME NEW l \in listed, l.sym = s, NEW x \in rules[l], Pending(x)
               PROVE  Waiting(s)'
    BY DEF Waiting
  <2>1. l \in Keys /\ l \in listed'
    BY <1>1, <1>t DEF TypeOK
  <2>2. PICK r \in rules'[l] : r.mark = x.mark /\ r.triggered = x.triggered
    BY <1>4, <2>1
  <2>3. Pending(r)
    BY <2>2 DEF Pending
  <2> QED
    BY <2>1, <2>2, <2>3 DEF Waiting
<1>6. Alone(s)'
  <2>1. UNCHANGED <<pc, todo>>
    BY <1>1 DEF executorVars
  <2> QED
    BY <1>3, <2>1, AloneKept DEF Before, CommodityInv
<1>7. Marks(s)'
  <2>1. TokensKept(s) /\ Handling(s)' = Handling(s)
    BY <1>1, <1>t, WorldKept DEF listenerVars, worldVars
  <2>2. Answered(s) => Answered(s)'
    BY <1>t, <2>1, AnsweredKept DEF Before, CommodityInv, CommandInv
  <2> SUFFICES ASSUME NEW l \in Keys, NEW r \in rules'[l], l.sym = s
               PROVE  /\ r.mark # "half"
                      /\ r.mark = "hit" => ~r.triggered
                      /\ r.triggered /\ r.at # "now" => Answered(s)'
                      /\ r.old => r.triggered /\ r.at # "now"
    BY DEF Marks
  <2>3. PICK x \in rules[l] :
               /\ r.cmd = x.cmd /\ r.mark = x.mark /\ r.triggered = x.triggered
               /\ r.old = x.old
               /\ r.at = IF x.at = "now" /\ l.sym = a THEN "past" ELSE x.at
    BY <1>3
  <2> HIDE DEF older
  <2>4. r.at # "now" => x.at # "now" \/ s = a
    BY <2>3
  <2>5. x.at # "now" => r.at # "now"
    BY <2>3
  <2> QED
    BY <1>1, <2>2, <2>3, <2>4, <2>5 DEF Before, CommodityInv, ListInv, Marks
<1> QED
  BY <1>1, <1>3, <1>5, <1>6, <1>7, RewriteInv DEF portfolioVars, listenerVars, worldVars

-----------------------------------------------------------------------------
(* The evening: nothing is under way, the book does not know of it.        *)
LEMMA EveningBook ==
  ASSUME TypeOK, NEW s \in Symbols, Shape(pos[s]), NEW scanned, NEW aged,
         MainSwitcherRun(scanned, aged)
  PROVE  Shape(pos'[s]) /\ BookOf(pos'[s]) = BookOf(pos[s])
<1> DEFINE flat == {x \in Symbols : (nm[x] \/ x \in scanned) /\ pos[x].dir = Blank}
<1>d. pos'[s] = CASE s \in flat -> [pos[s] EXCEPT !.gen = @ + 1]
                  [] s \in aged -> [pos[s] EXCEPT !.status = Expire]
                  [] OTHER      -> pos[s]
  BY DEF MainSwitcherRun
<1>0. pos[s] \in Position /\ Shape(pos[s])
  BY DEF TypeOK
<1>1. CASE s \in flat
  <2>0. pos[s].dir = Blank /\ s \notin aged
    BY <1>1 DEF MainSwitcherRun, IsPositionOld
  <2>1. pos'[s] = [pos[s] EXCEPT !.gen = @ + 1]
    <3> HIDE DEF flat
    <3> QED
      BY <1>d, <1>1, <2>0
  <2>2. /\ pos'[s].dir = Blank /\ pos'[s].units = pos[s].units
        /\ pos'[s].hand = pos[s].hand /\ pos'[s].status = pos[s].status
    BY <1>0, <2>0, <2>1 DEF Position
  <2>3. Blank \notin Dirs
    BY DEF Dirs, Long, Short, Blank
  <2> QED
    BY <1>0, <2>0, <2>2, <2>3 DEF Shape, BookOf
<1>2. CASE s \notin flat /\ s \in aged
  <2>1. pos'[s] = [pos[s] EXCEPT !.status = Expire] /\ IsPositionOld(s)
    BY <1>d, <1>2 DEF MainSwitcherRun
  <2>2. /\ pos'[s].dir = pos[s].dir /\ pos'[s].units = pos[s].units
        /\ pos'[s].hand = pos[s].hand /\ pos'[s].gen = pos[s].gen
        /\ pos'[s].status = Expire /\ pos[s].status = Active /\ pos[s].dir # Blank
    BY <1>0, <2>1 DEF Position, IsPositionOld
  <2>3. Expire # Refresh /\ Active # Refresh
    BY DEF Expire, Refresh, Active
  <2>4. Hands(pos'[s]) = Hands(pos[s])
    BY <2>2 DEF Hands
  <2> QED
    BY <1>0, <2>2, <2>3, <2>4 DEF Shape, BookOf
<1>3. CASE s \notin flat /\ s \notin aged
  BY <1>d, <1>0, <1>3
<1> QED
  BY <1>1, <1>2, <1>3

LEMMA MainSwitcherRunInv ==
  ASSUME NEW s \in Symbols, Before(s), NEW scanned \in SUBSET Symbols,
         NEW aged \in SUBSET Symbols, MainSwitcherRun(scanned, aged)
  PROVE  CommodityInv(s)'
<1>t. TypeOK /\ TypeOK'
  BY DEF Before, TypeInv
<1>1. UNCHANGED <<afford, executorVars, listenerVars, orders, hold, trades, errs>>
      /\ day = "closed" /\ day' = "switched" /\ pc = "idle" /\ lst.step = "idle"
  BY DEF MainSwitcherRun, Before, RoundInv, Quiet
<1>2. ~Busy(s)
  BY <1>1, <1>t, BusyOpen DEF Before
<1>3. TokensKept(s) /\ Handling(s)' = Handling(s)
  BY <1>1, <1>t, WorldKept DEF listenerVars
<1>5. Shape(pos'[s]) /\ BookOf(pos'[s]) = BookOf(pos[s])
  BY <1>t, EveningBook DEF Before, CommodityInv, CommandInv
<1>6. CommandInv(s)'
  BY <1>t, <1>2, <1>3, <1>5, CommandKept DEF Before, CommodityInv
<1>7. Lists(s)'
  BY <1>1 DEF Lists
<1>8. Marks(s)'
  <2>1. Answered(s) => Answered(s)'
    BY <1>t, <1>3, AnsweredKept DEF Before, CommodityInv, CommandInv
  <2>2. \A l \in Keys : rules'[l] = {} \/ rules'[l] = rules[l]
    BY DEF MainSwitcherRun
  <2> QED
    BY <2>1, <2>2 DEF Marks, Before, CommodityInv, ListInv
<1>9. Stays(s)' /\ Alone(s)'
  BY <1>1 DEF Stays, Adding, Alone, executorVars, listenerVars
<1> QED
  BY <1>6, <1>7, <1>8, <1>9 DEF CommodityInv, ListInv

LEMMA DayEndInv ==
  ASSUME NEW s \in Symbols, Before(s), DayEnd
  PROVE  CommodityInv(s)'
<1>t. TypeOK /\ TypeOK'
  BY DEF Before, TypeInv
<1>1. /\ UNCHANGED <<pos, nm, mapVars, executorVars, listenerVars, hold, trades, errs>>
      /\ day' = "closed" /\ pc = "idle" /\ lst.step = "idle" /\ trades = <<>>
      /\ orders' = {} /\ \A k \in Keys : errs[k] = 0
  BY DEF DayEnd, Quiet
<1>2. AtWork(s)' = {} /\ Unread(s)' = {} /\ ~Clearing(s)' /\ Failed(s)' = {} /\ Unread(s) = {}
      /\ ~Handling(s)'
  BY <1>1 DEF AtWork, Unread, Clearing, Failed, listenerVars, Handling
<1>3. Owned(s)' = Owned(s)
  BY <1>1 DEF Owned
<1>4. CommandInv(s)'
  BY <1>1, <1>2, <1>3
  DEF CommandInv, OneToken, Watched, Busy, Asked, Reported, Agreed, Before, CommodityInv
<1>5. Lists(s)'
  BY <1>1 DEF Lists
<1>6. Marks(s)'
  <2>1. Answered(s)'
    BY <1>1, <1>2 DEF Answered, Settled
  <2> QED
    BY <1>1, <2>1 DEF Marks, Before, CommodityInv, ListInv, mapVars
<1>7. Stays(s)' /\ Alone(s)'
  BY <1>1 DEF Stays, Adding, Alone, executorVars, listenerVars
<1> QED
  BY <1>4, <1>5, <1>6, <1>7 DEF CommodityInv, ListInv

(* The first report is read: what is left of a commodity's reports.        *)
LEMMA HeadRead ==
  ASSUME TypeOK, trades # <<>>, trades' = Tail(trades), NEW s \in Symbols
  PROVE  /\ Head(trades) \in Trade /\ Head(trades).key.sym \in Symbols
         /\ Head(trades).key.sym = s => 1 \in Unread(s) /\ trades[1] = Head(trades)
         /\ Head(trades).key.sym = s /\ (\A i \in Unread(s) : i = 1) => Unread(s)' = {}
         /\ Head(trades).key.sym # s => SameReports(s)
<1>1. trades \in Seq(Trade) /\ Len(trades) \in Nat /\ Len(trades) > 0
  BY DEF TypeOK
<1>2. Head(trades) = trades[1] /\ trades[1] \in Trade /\ 1 \in DOMAIN trades
  BY <1>1
<1>3. DOMAIN trades = 1..Len(trades) /\ DOMAIN trades' = 1..(Len(trades) - 1)
      /\ \A i \in 1..(Len(trades) - 1) : trades'[i] = trades[i + 1]
  BY <1>1
<1>4. /\ \A i \in Unread(s)' : i + 1 \in Unread(s) /\ trades'[i] = trades[i + 1]
  BY <1>1, <1>3 DEF Unread
<1>5. trades[1].key.sym # s => \A j \in Unread(s) : j - 1 \in Unread(s)'
  <2> SUFFICES ASSUME trades[1].key.sym # s, NEW j \in Unread(s)
               PROVE  j - 1 \in Unread(s)'
    OBVIOUS
  <2>1. j \in 1..Len(trades) /\ trades[j].key.sym = s /\ j # 1
    BY <1>3 DEF Unread
  <2>2. j - 1 \in 1..(Len(trades) - 1) /\ (j - 1) + 1 = j
    BY <1>1, <2>1
  <2>3. trades'[j - 1] = trades[j]
    BY <1>3, <2>2
  <2> QED
    BY <1>3, <2>1, <2>2, <2>3 DEF Unread
<1>6. (\A i \in Unread(s) : i = 1) => Unread(s)' = {}
  <2> SUFFICES ASSUME \A i \in Unread(s) : i = 1, NEW i \in Unread(s)' PROVE FALSE
    OBVIOUS
  <2>1. i + 1 = 1 /\ i \in 1..(Len(trades) - 1)
    BY <1>3, <1>4 DEF Unread
  <2> QED
    BY <1>1, <2>1
<1>7. trades[1].key.sym # s => SameReports(s)
  BY <1>4, <1>5 DEF SameReports
<1>8. Head(trades).key.sym \in Symbols
  BY <1>2 DEF Trade, Keys
<1>9. trades[1].key.sym = s => 1 \in Unread(s)
  BY <1>2 DEF Unread
<1> QED
  BY <1>2, <1>6, <1>7, <1>8, <1>9

(* The report is entered: the book agrees with the account from now on.    *)
LEMMA OnTradeInv ==
  ASSUME NEW s \in Symbols, Before(s), OnTrade
  PROVE  CommodityInv(s)'
<1> DEFINE t == Head(trades)
<1>t. TypeOK /\ TypeOK'
  BY DEF Before, TypeInv
<1>1. /\ trades # <<>> /\ trades' = Tail(trades) /\ lst.step = "idle"
      /\ pos' = [pos EXCEPT ![t.key.sym] = UpdatePosition(pos[t.key.sym], t)]
      /\ lst' = [step |-> "clear", msg |-> t]
      /\ UNCHANGED <<mapVars, executorVars, cleaner, day, orders, hold, errs>>
  BY DEF OnTrade
<1>2. /\ t \in Trade /\ t.key.sym \in Symbols
      /\ t.key.sym = s => 1 \in Unread(s) /\ trades[1] = t
      /\ t.key.sym = s /\ (\A i \in Unread(s) : i = 1) => Unread(s)' = {}
      /\ t.key.sym # s => SameReports(s)
  BY <1>1, <1>t, HeadRead
<1> HIDE DEF t
<1>3. Alone(s)'
  BY <1>1 DEF Alone, Before, CommodityInv, executorVars, mapVars, NoMark
<1>4. CASE s # t.key.sym
  <2>1. pos'[s] = pos[s]
    BY <1>1, <1>2, <1>4, <1>t DEF TypeOK
  <2>2. ~Clearing(s) /\ ~Clearing(s)' /\ ~Adding(s)' /\ ~Handling(s)'
    BY <1>1, <1>4 DEF Clearing, Adding, Handling
  <2>c. Clearing(s)' = Clearing(s)
    BY <2>2 DEF Clearing
  <2>3. TokensKept(s) /\ ListsKept(s)
    BY <1>1, <1>2, <1>4, <2>c DEF TokensKept, AtWork, ListsKept, mapVars
  <2>4. Untouched(s)
    BY <1>1, <2>1, <2>2, <2>3 DEF Untouched
  <2> QED
    BY <1>3, <1>t, <2>4, UntouchedInv DEF Before, CommodityInv
<1>5. CASE s = t.key.sym
  <2>1. /\ CommandInv(s) /\ Lists(s) /\ Marks(s)
        /\ 1 \in Unread(s) /\ trades[1] = t
    BY <1>2, <1>5 DEF Before, CommodityInv, ListInv
  <2>2. AtWork(s) = {} /\ Failed(s) = {} /\ \A i \in Unread(s) : i = 1
    BY <2>1 DEF CommandInv, OneToken
  <2>3. t.key = RuleKey(s, pos[s]) /\ Settling(pos[s], t, Owned(s))
    BY <2>1 DEF CommandInv, Reported
  <2>4. pos'[s] = UpdatePosition(pos[s], t)
    BY <1>1, <1>5, <1>t DEF TypeOK
  <2>5. Shape(pos'[s]) /\ BookOf(pos'[s]) = Owned(s)
    BY <2>3, <2>4 DEF Settling
  <2>6. Unread(s)' = {} /\ AtWork(s)' = {} /\ Failed(s)' = {} /\ Clearing(s)' /\ ~Adding(s)'
    BY <1>1, <1>2, <1>5, <2>2 DEF AtWork, Failed, Clearing, Adding
  <2>7. Owned(s)' = Owned(s) /\ Waiting(s)' = Waiting(s)
    BY <1>1 DEF Owned, Waiting, mapVars
  <2>8. Busy(s) /\ day = "open"
    BY <1>t, <2>1, BusyOpen DEF Busy, Before
  <2>9. CommandInv(s)'
    BY <2>1, <2>5, <2>6, <2>7, <2>8
    DEF CommandInv, OneToken, Watched, Asked, Reported, Agreed
  <2>10. Lists(s)'
    <3>1. ListKey(s)' = ListKey(s)
      BY <1>1, <2>3, <2>6 DEF ListKey, Clearing
    <3> QED
      BY <1>1, <2>1, <2>6, <2>8, <3>1 DEF Lists, mapVars
  <2>11. Marks(s)'
    <3>1. ~Answered(s)
      BY <2>8, BusyNotAnswered
    <3> QED
      BY <1>1, <2>1, <3>1 DEF Marks, mapVars
  <2> QED
    BY <1>3, <2>6, <2>9, <2>10, <2>11 DEF CommodityInv, ListInv, Stays
<1> QED
  BY <1>4, <1>5

(* Every report has a position it is about.                                *)
LEMMA NeverDropped ==
  ASSUME NEW s \in Symbols, Before(s), 1 \in Unread(s)
  PROVE  Resolves(trades[1])
<1>1. trades[1].key = RuleKey(s, pos[s]) /\ trades[1].key.sym = s
  BY DEF Before, CommodityInv, CommandInv, Reported, Unread
<1>2. trades[1].key.gen = IF pos[s].status = Refresh THEN pos[s].gen + 1 ELSE pos[s].gen
  BY <1>1 DEF RuleKey, Key
<1>3. pos[s].status = Refresh => nm[s]
  BY DEF Before, TypeInv, SwitchWellFormed, Refresh, Active
<1> QED
  BY <1>1, <1>2, <1>3 DEF Resolves

LEMMA DropTradeInv ==
  ASSUME NEW s \in Symbols, Before(s), DropTrade
  PROVE  CommodityInv(s)'
<1> DEFINE t == Head(trades)
<1>t. TypeOK /\ TypeOK'
  BY DEF Before, TypeInv
<1>1. /\ trades # <<>> /\ trades' = Tail(trades) /\ lst.step = "idle"
      /\ ~Resolves(t)
      /\ UNCHANGED <<portfolioVars, mapVars, executorVars, listenerVars, day, orders, hold, errs>>
  BY DEF DropTrade
<1>2. /\ t \in Trade /\ t.key.sym \in Symbols
      /\ t.key.sym = s => 1 \in Unread(s) /\ trades[1] = t
      /\ t.key.sym # s => SameReports(s)
  BY <1>1, <1>t, HeadRead
<1> HIDE DEF t
<1>3. s # t.key.sym
  BY <1>1, <1>2, NeverDropped
<1>4. Alone(s)'
  BY <1>1 DEF Alone, Before, CommodityInv, executorVars, mapVars, NoMark
<1>5. TokensKept(s) /\ ListsKept(s) /\ Sized(s)' = Sized(s)
  BY <1>1, <1>2, <1>3
  DEF TokensKept, AtWork, Clearing, ListsKept, mapVars, listenerVars, Sized, portfolioVars
<1>6. Untouched(s)
  BY <1>1, <1>5 DEF Untouched, Handling, Adding, listenerVars, portfolioVars
<1> QED
  BY <1>4, <1>t, <1>6, UntouchedInv DEF Before, CommodityInv

-----------------------------------------------------------------------------
(* The first half of onCommand: the one list of the commodity goes.        *)
LEMMA ClearContractRuleInv ==
  ASSUME NEW s \in Symbols, Before(s), ClearContractRule
  PROVE  CommodityInv(s)'
<1> DEFINE m == lst.msg.key
<1>t. TypeOK /\ TypeOK'
  BY DEF Before, TypeInv
<1>1. /\ lst.step = "clear" /\ lst' = [lst EXCEPT !.step = "add"]
      /\ listed' = listed \ {m} /\ rules' = [rules EXCEPT ![m] = {}]
      /\ UNCHANGED <<portfolioVars, pc, todo, cleaner, worldVars>>
  BY DEF ClearContractRule, Restructure, Without
<1>2. lst \in [step : {"clear", "add"}, msg : Trade] /\ m \in Keys
  BY <1>1, <1>t DEF TypeOK, Idle, Trade
<1>3. lst'.step = "add" /\ lst'.msg = lst.msg
  BY <1>1, <1>2
<1>4. \A l \in Keys : rules'[l] = IF l = m THEN {} ELSE rules[l]
  BY <1>1, <1>2, <1>t DEF TypeOK
<1> HIDE DEF m
<1>5. Alone(s)'
  BY <1>1, <1>4, AloneKept DEF Before, CommodityInv
<1>6. SameReports(s)
  BY <1>1, <1>t, SameUnread DEF worldVars, Unread
<1>7. CASE s # m.sym
  <2>1. Clearing(s)' = Clearing(s) /\ Handling(s)' = Handling(s) /\ ~Adding(s)'
        /\ ~Clearing(s)
    BY <1>3, <1>7 DEF Clearing, Handling, Adding, m
  <2>2. Untouched(s)
    BY <1>1, <1>3, <1>4, <1>6, <1>7, <2>1
    DEF Untouched, TokensKept, ListsKept, AtWork, worldVars, portfolioVars
  <2> QED
    BY <1>5, <1>t, <2>2, UntouchedInv DEF Before, CommodityInv
<1>8. CASE s = m.sym
  <2>1. Clearing(s) /\ ListKey(s) = m
    BY <1>1, <1>8 DEF Clearing, ListKey, m
  <2>2. AtWork(s) = {} /\ Unread(s) = {} /\ Failed(s) = {} /\ day = "open"
    BY <1>t, <2>1, BusyOpen DEF Before, CommodityInv, CommandInv, OneToken, Busy
  <2>3. AtWork(s)' = {} /\ Unread(s)' = {} /\ Failed(s)' = {} /\ ~Clearing(s)'
    BY <1>1, <1>3, <2>2 DEF AtWork, Unread, Failed, Clearing, worldVars
  <2>4. CommandInv(s)'
    <3>1. Owned(s)' = Owned(s) /\ pos' = pos
      BY <1>1 DEF Owned, worldVars, portfolioVars
    <3> QED
      BY <2>2, <2>3, <3>1
      DEF CommandInv, OneToken, Watched, Busy, Asked, Reported, Agreed, Before, CommodityInv
  <2>5. ASSUME NEW l \in Keys, l.sym = s
        PROVE  l \notin listed' /\ rules'[l] = {}
    BY <1>1, <1>4, <2>1, <2>2, <2>5 DEF Before, CommodityInv, ListInv, Lists
  <2>6. Lists(s)' /\ Marks(s)'
    BY <2>5 DEF Lists, Marks
  <2>7. Stays(s)'
    BY <1>t, <2>5 DEF Stays, TypeOK
  <2> QED
    BY <1>5, <2>4, <2>6, <2>7 DEF CommodityInv, ListInv
<1> QED
  BY <1>7, <1>8

(* The second half: the position as it is now gets its rules.              *)
LEMMA AddRulesInv ==
  ASSUME NEW s \in Symbols, Before(s), AddRules
  PROVE  CommodityInv(s)'
<1> DEFINE x == lst.msg.key.sym
           fresh == NewRules(Sized(x), IsFullPortfolio(pos))
           k == RuleKey(x, Sized(x))
<1>t. TypeOK /\ TypeOK'
  BY DEF Before, TypeInv
<1>1. /\ lst.step = "add" /\ lst' = Idle
      /\ pos' = [pos EXCEPT ![x] = Sized(x)]
      /\ rules' = [rules EXCEPT ![k] = @ \cup fresh]
      /\ listed' = IF fresh = {} THEN listed ELSE listed \cup {k}
      /\ UNCHANGED <<nm, afford, pc, todo, cleaner, worldVars>>
  BY DEF AddRules, Restructure
<1>2. lst \in [step : {"clear", "add"}, msg : Trade] /\ x \in Symbols
  BY <1>1, <1>t DEF TypeOK, Idle, Trade, Keys
<1>d. day = "open" /\ day' = day
  BY <1>1, <1>t DEF Before, RoundInv, Quiet, worldVars
<1>3. k.sym = x /\ k \in Keys /\ k = RuleKey(x, pos[x])
  <2>1. k \in Keys
    BY <1>2, <1>t, SizedType, RuleKeyType DEF Before, TypeInv
  <2>2. k = RuleKey(x, pos[x])
    BY <1>2, <1>t, SizedKeeps
  <2> QED
    BY <2>1, <2>2 DEF RuleKey, Key
<1>4. \A y \in Symbols : pos'[y] = IF y = x THEN Sized(x) ELSE pos[y]
  BY <1>1, <1>2, <1>t DEF TypeOK
<1>5. \A l \in Keys : rules'[l] = IF l = k THEN rules[l] \cup fresh ELSE rules[l]
  <2> HIDE DEF k, fresh
  <2> QED
    BY <1>1, <1>t DEF TypeOK
<1>6. \A r \in fresh : r.cmd \in GenerateRules(Sized(x), FALSE)
                       /\ ~r.triggered /\ ~r.old /\ r.mark = "no"
  BY NewRulesFit
<1> HIDE DEF fresh, k
<1>7. Alone(s)'
  <2>1. \A l \in Keys : \A r \in rules'[l] :
           r.mark = "no" \/ \E y \in rules[l] : y.mark = r.mark
    BY <1>5, <1>6
  <2> QED
    BY <1>1, <2>1, AloneKept DEF Before, CommodityInv
<1>8. SameReports(s)
  BY <1>1, <1>t, SameUnread DEF worldVars, Unread
<1>9. ~Clearing(s)' /\ ~Adding(s)' /\ ~Handling(s)' /\ ~Clearing(s)
      /\ Clearing(s)' = Clearing(s)
  BY <1>1 DEF Clearing, Adding, Handling, Idle
<1>10. TokensKept(s)
  BY <1>1, <1>8, <1>9 DEF TokensKept, AtWork, worldVars
<1>11. CASE s # x
  <2>1. pos'[s] = pos[s] /\ ListsKept(s)
    BY <1>1, <1>3, <1>4, <1>5, <1>11 DEF ListsKept
  <2>2. Untouched(s)
    BY <1>9, <1>10, <1>d, <2>1 DEF Untouched
  <2> QED
    BY <1>7, <1>t, <2>2, UntouchedInv DEF Before, CommodityInv
<1>12. CASE s = x
  <2>1. Adding(s) /\ CommandInv(s) /\ Lists(s) /\ Marks(s)
    BY <1>1, <1>12 DEF Adding, Before, CommodityInv, ListInv
  <2>2. ASSUME NEW l \in listed, l.sym = s PROVE pos'[s] = pos[s]
    BY <1>4, <1>12, <2>1, <2>2 DEF Before, CommodityInv, ListInv, Stays
  <2>3. Waiting(s) => Waiting(s)'
    <3> SUFFICES ASSUME NEW l \in listed, l.sym = s, NEW r \in rules[l], Pending(r)
                 PROVE  Waiting(s)'
      BY DEF Waiting
    <3>1. l \in listed' /\ l \in Keys
      BY <1>1, <1>t DEF TypeOK
    <3>2. r \in rules'[l]
      BY <1>5, <3>1
    <3> QED
      BY <3>1, <3>2 DEF Waiting
  <2>4. Busy(s) => pos'[s] = pos[s] /\ Waiting(s)'
    BY <2>1, <2>2, <2>3 DEF CommandInv, Watched, Waiting
  <2>5. /\ Shape(pos'[s]) /\ BookOf(pos'[s]) = BookOf(pos[s])
        /\ RuleKey(s, pos'[s]) = RuleKey(s, pos[s])
    BY <1>2, <1>4, <1>12, <1>t, <2>1, SizedKeeps DEF CommandInv
  <2>6. CommandInv(s)'
    BY <1>t, <1>10, <2>1, <2>4, <2>5, CommandKept
  <2>7. ListKey(s) = k /\ ListKey(s)' = k
    BY <1>3, <1>9, <1>12, <2>5 DEF ListKey
  <2>8. ASSUME NEW l \in Keys, l.sym = s
        PROVE  /\ l \in listed => l = k
               /\ rules[l] # {} => l \in listed
               /\ \A r \in rules[l] : r.cmd \in GenerateRules(pos[s], FALSE)
    BY <1>9, <1>d, <2>1, <2>7, <2>8 DEF Lists
  <2>9. ASSUME NEW l \in Keys, l.sym = s
        PROVE  /\ l \in listed' => l = k
               /\ rules'[l] # {} => l \in listed'
               /\ \A r \in rules'[l] : r.cmd \in GenerateRules(pos'[s], FALSE)
    <3>1. l \in listed' => l = k
      BY <1>1, <2>8, <2>9
    <3>2. rules'[l] # {} => l \in listed'
      BY <1>1, <1>5, <2>8, <2>9
    <3>3. ASSUME NEW r \in rules[l] PROVE r.cmd \in GenerateRules(pos'[s], FALSE)
      BY <2>2, <2>8, <2>9, <3>3
    <3>4. ASSUME NEW r \in fresh PROVE r.cmd \in GenerateRules(pos'[s], FALSE)
      BY <1>2, <1>4, <1>6, <1>12, <3>4
    <3> QED
      BY <1>5, <3>1, <3>2, <3>3, <3>4
  <2>10. Lists(s)'
    BY <2>7, <2>9 DEF Lists
  <2>11. Marks(s)'
    <3>1. Answered(s) => Answered(s)'
      BY <1>t, <1>9, <1>10, <2>1, AnsweredKept DEF CommandInv
    <3> SUFFICES ASSUME NEW l \in Keys, NEW r \in rules'[l], l.sym = s
                 PROVE  /\ r.mark # "half"
                        /\ r.mark = "hit" => ~r.triggered
                        /\ r.triggered /\ r.at # "now" => Answered(s)'
                        /\ r.old => r.triggered /\ r.at # "now"
      BY DEF Marks
    <3>2. CASE r \in rules[l]
      BY <2>1, <3>1, <3>2 DEF Marks
    <3>3. CASE r \in fresh
      BY <1>6, <3>3
    <3> QED
      BY <1>5, <3>2, <3>3
  <2>12. Stays(s)'
    BY <1>9 DEF Stays
  <2> QED
    BY <1>7, <2>6, <2>10, <2>11, <2>12 DEF CommodityInv, ListInv
<1> QED
  BY <1>11, <1>12

LEMMA ListenerInv ==
  ASSUME Calm, NEW s \in Symbols, Before(s), Listener
  PROVE  CommodityInv(s)'
<1>1. ~AddRulesFails
  BY DEF Calm, AddRulesFails
<1> QED
  BY <1>1, OnTradeInv, DropTradeInv, ClearContractRuleInv, AddRulesInv DEF Listener

(* The world.  An order of another commodity leaves this one alone.        *)
LEMMA OrderElsewhere ==
  ASSUME NEW s \in Symbols, Before(s), NEW o \in orders, s # o.key.sym,
         orders' = orders \ {o},
         \A k \in Keys : k.sym = s => errs'[k] = errs[k] /\ hold'[k] = hold[k],
         Unread(s)' = Unread(s), \A i \in Unread(s) : trades'[i] = trades[i],
         UNCHANGED <<portfolioVars, mapVars, executorVars, listenerVars, day>>
  PROVE  CommodityInv(s)'
<1>t. TypeOK /\ TypeOK'
  BY DEF Before, TypeInv
<1>1. SameReports(s)
  BY <1>t, SameUnread
<1>2. TokensKept(s)
  BY <1>1 DEF TokensKept, AtWork, Clearing, listenerVars
<1>3. Untouched(s)
  BY <1>2 DEF Untouched, ListsKept, mapVars, Handling, Adding, listenerVars, Sized, portfolioVars
<1>4. Alone(s)'
  BY DEF Alone, mapVars, executorVars, NoMark, Before, CommodityInv
<1> QED
  BY <1>3, <1>4, <1>t, UntouchedInv DEF Before, CommodityInv

(* An order's commodity has nothing else under way.                        *)
LEMMA OrderAlone ==
  ASSUME NEW o \in orders, NEW s \in Symbols, s = o.key.sym, Before(s),
         UNCHANGED <<portfolioVars, mapVars, executorVars, listenerVars, day>>
  PROVE  /\ AtWork(s) = {o} /\ Unread(s) = {} /\ Failed(s) = {}
         /\ ~Clearing(s) /\ ~Clearing(s)'
         /\ Waiting(s)' /\ pos'[s] = pos[s] /\ BookOf(pos[s]) = Owned(s)
         /\ o.key = RuleKey(s, pos[s]) /\ o.left = o.cmd.vol
         /\ o.cmd \in GenerateRules(pos[s], FALSE)
         /\ ListInv(s)' /\ Alone(s)'
<1>1. o \in AtWork(s)
  BY DEF AtWork
<1>2. AtWork(s) = {o} /\ Unread(s) = {} /\ Failed(s) = {} /\ ~Clearing(s)
  BY <1>1 DEF Before, CommodityInv, CommandInv, OneToken
<1>3. Busy(s) /\ ~Answered(s)
  BY <1>1, BusyNotAnswered DEF Busy
<1>4. ListInv(s)' /\ Alone(s)'
  BY <1>3, ListsStand
  DEF Before, TypeInv, CommodityInv, portfolioVars, executorVars, listenerVars
<1>5. Waiting(s)'
  BY <1>3 DEF Before, CommodityInv, CommandInv, Watched, Waiting, mapVars
<1> QED
  BY <1>1, <1>2, <1>4, <1>5
  DEF Before, CommodityInv, CommandInv, Asked, Agreed, Clearing, listenerVars, portfolioVars

LEMMA VanishInv ==
  ASSUME NEW s \in Symbols, Before(s), NEW o \in orders, Vanish(o)
  PROVE  CommodityInv(s)'
<1>1. /\ orders' = orders \ {o}
      /\ UNCHANGED <<portfolioVars, mapVars, executorVars, listenerVars, day, hold, trades, errs>>
  BY DEF Vanish
<1>2. CASE s # o.key.sym
  BY <1>1, <1>2, OrderElsewhere DEF Unread
<1>3. CASE s = o.key.sym
  <2>1. /\ AtWork(s) = {o} /\ Unread(s) = {} /\ Failed(s) = {} /\ ~Clearing(s)'
        /\ pos'[s] = pos[s] /\ BookOf(pos[s]) = Owned(s)
        /\ ListInv(s)' /\ Alone(s)'
    BY <1>1, <1>3, OrderAlone
  <2>2. AtWork(s)' = {} /\ Unread(s)' = {} /\ Failed(s)' = {} /\ Owned(s)' = Owned(s)
    BY <1>1, <2>1 DEF AtWork, Unread, Failed, Owned
  <2>3. CommandInv(s)'
    BY <2>1, <2>2
    DEF CommandInv, OneToken, Watched, Busy, Asked, Reported, Agreed, Before, CommodityInv
  <2> QED
    BY <2>1, <2>3 DEF CommodityInv
<1> QED
  BY <1>2, <1>3

LEMMA RejectInv ==
  ASSUME Calm, NEW s \in Symbols, Before(s), NEW o \in orders, NEW n \in {1, 2}, Reject(o, n)
  PROVE  CommodityInv(s)'
<1>t. TypeOK /\ o.key \in Keys
  BY DEF Before, TypeInv, TypeOK, WorkingOrder
<1>1. /\ orders' = orders \ {o}
      /\ errs' = [errs EXCEPT ![o.key] = @ + 1]
      /\ UNCHANGED <<portfolioVars, mapVars, executorVars, listenerVars, day, hold, trades>>
  <2>1. n = 1
    BY DEF Reject, Calm
  <2> QED
    BY <2>1 DEF Reject
<1>2. \A k \in Keys : errs'[k] = IF k = o.key THEN errs[k] + 1 ELSE errs[k]
  BY <1>1, <1>t DEF TypeOK
<1>3. CASE s # o.key.sym
  BY <1>1, <1>2, <1>3, OrderElsewhere DEF Unread
<1>4. CASE s = o.key.sym
  <2>1. /\ AtWork(s) = {o} /\ Unread(s) = {} /\ Failed(s) = {} /\ ~Clearing(s)'
        /\ pos'[s] = pos[s] /\ BookOf(pos[s]) = Owned(s) /\ Waiting(s)'
        /\ ListInv(s)' /\ Alone(s)'
    BY <1>1, <1>4, OrderAlone
  <2>2. AtWork(s)' = {} /\ Unread(s)' = {} /\ Owned(s)' = Owned(s)
    BY <1>1, <2>1 DEF AtWork, Unread, Owned
  <2>3. \A k \in Keys : k.sym = s => errs[k] = 0
    <3>1. ASSUME NEW k \in Keys, k.sym = s PROVE ~(errs[k] > 0) /\ errs[k] \in Nat
      BY <1>t, <2>1, <3>1 DEF Failed, TypeOK
    <3> QED
      BY <3>1
  <2>4. \A k \in Failed(s)' : k = o.key /\ errs'[k] = 1
    BY <1>2, <2>3 DEF Failed
  <2>5. OneToken(s)'
    BY <2>1, <2>2, <2>4 DEF OneToken
  <2>6. CommandInv(s)'
    BY <2>1, <2>2, <2>5
    DEF CommandInv, Watched, Asked, Reported, Agreed, Before, CommodityInv
  <2> QED
    BY <2>1, <2>6 DEF CommodityInv
<1> QED
  BY <1>3, <1>4

(* An order is filled as a whole.                                          *)
LEMMA ExecutesWhole ==
  ASSUME Calm, TypeOK, NEW o \in orders, NEW q \in 1..o.left, Executes(o, q)
  PROVE  /\ q = o.left /\ orders' = orders \ {o}
         /\ o.key \in Keys /\ o.cmd.dir \in Dirs /\ o.left \in Nat \ {0}
         /\ \A k \in Keys : k # o.key => hold'[k] = hold[k]
         /\ \A d \in Dirs : hold'[o.key][d] =
              IF d # o.cmd.dir THEN hold[o.key][d]
              ELSE IF o.cmd.op = Open THEN hold[o.key][d] + o.left
              ELSE hold[o.key][d] - o.left
         /\ o.cmd.op # Open => hold[o.key][o.cmd.dir] >= o.left
<1>1. o.key \in Keys /\ o.cmd.dir \in Dirs /\ o.left \in Nat
  BY DEF TypeOK, WorkingOrder, Command
<1>2. q = o.left
  <2>1. ~(q < o.left)
    BY DEF Executes, Calm
  <2> QED
    BY <1>1, <2>1
<1>3. o.cmd.op # Open => hold[o.key][o.cmd.dir] >= o.left
  BY <1>2 DEF Executes, Fillable
<1>4. hold[o.key] \in [Dirs -> Nat]
  BY <1>1 DEF TypeOK
<1>5. hold' = [hold EXCEPT ![o.key][o.cmd.dir] =
         IF o.cmd.op = Open THEN @ + q ELSE IF @ >= q THEN @ - q ELSE 0]
  BY DEF Executes, Held
<1>6. /\ \A k \in Keys : k # o.key => hold'[k] = hold[k]
      /\ hold'[o.key] = [hold[o.key] EXCEPT ![o.cmd.dir] =
            IF o.cmd.op = Open THEN @ + q ELSE IF @ >= q THEN @ - q ELSE 0]
  BY <1>1, <1>5 DEF TypeOK
<1>7. \A d \in Dirs : hold'[o.key][d] =
              IF d # o.cmd.dir THEN hold[o.key][d]
              ELSE IF o.cmd.op = Open THEN hold[o.key][d] + o.left
              ELSE hold[o.key][d] - o.left
  BY <1>1, <1>2, <1>3, <1>4, <1>6
<1>8. orders' = orders \ {o}
  BY <1>2 DEF Executes
<1> QED
  BY <1>1, <1>2, <1>3, <1>6, <1>7, <1>8

LEMMA ExecutedOwned ==
  ASSUME Calm, TypeOK, NEW o \in orders, NEW q \in 1..o.left, Executes(o, q),
         NEW t, t.key = o.key, t.op = o.cmd.op, t.dir = o.cmd.dir, t.vol = o.left
  PROVE  Owned(o.key.sym)' = After(Owned(o.key.sym), t)
<1> DEFINE s == o.key.sym
           X == [gen : Gens, dir : Dirs]
           a == [gen |-> t.key.gen, dir |-> t.dir]
<1>1. /\ o.key \in Keys /\ o.cmd.dir \in Dirs
      /\ \A k \in Keys : k # o.key => hold'[k] = hold[k]
      /\ \A d \in Dirs : hold'[o.key][d] =
           IF d # o.cmd.dir THEN hold[o.key][d]
           ELSE IF o.cmd.op = Open THEN hold[o.key][d] + o.left
           ELSE hold[o.key][d] - o.left
  BY ExecutesWhole
<1>2. a \in X /\ o.key = Key(s, o.key.gen) /\ s \in Symbols /\ o.key.gen \in Gens
  BY <1>1 DEF Keys, Key
<1>3. ASSUME NEW x \in X
      PROVE  hold'[Key(s, x.gen)][x.dir] =
               IF x = a THEN IF t.op = Open THEN hold[Key(s, x.gen)][x.dir] + t.vol
                                            ELSE hold[Key(s, x.gen)][x.dir] - t.vol
                        ELSE hold[Key(s, x.gen)][x.dir]
  <2>1. CASE x.gen = o.key.gen
    <3>1. Key(s, x.gen) = o.key /\ x.dir \in Dirs
      BY <1>2, <2>1
    <3>2. x = a <=> x.dir = o.cmd.dir
      BY <2>1
    <3> QED
      BY <1>1, <3>1, <3>2
  <2>2. CASE x.gen # o.key.gen
    <3>1. Key(s, x.gen) # o.key /\ Key(s, x.gen) \in Keys /\ x # a
      BY <1>2, <2>2 DEF Key, Keys
    <3> QED
      BY <1>1, <3>1
  <2> QED
    BY <2>1, <2>2
<1>4. Owned(s) = [x \in X |-> hold[Key(s, x.gen)][x.dir]]
      /\ Owned(s)' = [x \in X |-> hold'[Key(s, x.gen)][x.dir]]
  BY DEF Owned
<1>5. \A x \in X : Owned(s)'[x] = After(Owned(s), t)[x]
  <2> SUFFICES ASSUME NEW x \in X PROVE Owned(s)'[x] = After(Owned(s), t)[x]
    OBVIOUS
  <2>1. Owned(s)[x] = hold[Key(s, x.gen)][x.dir] /\ Owned(s)'[x] = hold'[Key(s, x.gen)][x.dir]
    BY <1>4
  <2>2. After(Owned(s), t)[x] =
          IF x = a THEN IF t.op = Open THEN Owned(s)[x] + t.vol ELSE Owned(s)[x] - t.vol
                   ELSE Owned(s)[x]
    BY <1>2, <1>4 DEF After
  <2> HIDE DEF a
  <2> QED
    BY <1>3, <2>1, <2>2
<1>6. After(Owned(s), t) = [x \in X |-> After(Owned(s), t)[x]]
  BY <1>4 DEF After
<1> HIDE DEF X, s
<1> QED
  BY <1>4, <1>5, <1>6 DEF s

LEMMA FillInv ==
  ASSUME Calm, NEW s \in Symbols, Before(s), NEW o \in orders, NEW q \in 1..o.left, Fill(o, q)
  PROVE  CommodityInv(s)'
<1> DEFINE t == [key |-> o.key, op |-> o.cmd.op, dir |-> o.cmd.dir, vol |-> q,
                 again |-> FALSE]
           n == Len(trades) + 1
<1>t. TypeOK /\ TypeOK'
  BY DEF Before, TypeInv
<1>1. /\ Executes(o, q) /\ trades' = Append(trades, t)
      /\ UNCHANGED <<portfolioVars, mapVars, executorVars, listenerVars, day, errs>>
  BY DEF Fill
<1>2. /\ q = o.left /\ orders' = orders \ {o} /\ o.key \in Keys
      /\ \A k \in Keys : k # o.key => hold'[k] = hold[k]
  BY <1>1, <1>t, ExecutesWhole
<1>3. /\ trades \in Seq(Trade) /\ Len(trades) \in Nat /\ DOMAIN trades = 1..Len(trades)
      /\ DOMAIN trades' = 1..n /\ trades'[n] = t
      /\ \A i \in 1..Len(trades) : trades'[i] = trades[i]
  BY <1>1, <1>t DEF TypeOK
<1>4. CASE s # o.key.sym
  <2>1. Unread(s)' = Unread(s)
    BY <1>3, <1>4 DEF Unread
  <2>2. \A i \in Unread(s) : trades'[i] = trades[i]
    BY <1>3 DEF Unread
  <2> QED
    BY <1>1, <1>2, <1>4, <2>1, <2>2, OrderElsewhere
<1>5. CASE s = o.key.sym
  <2>1. /\ AtWork(s) = {o} /\ Unread(s) = {} /\ Failed(s) = {} /\ ~Clearing(s)'
        /\ pos'[s] = pos[s] /\ BookOf(pos[s]) = Owned(s) /\ Waiting(s)'
        /\ o.key = RuleKey(s, pos[s]) /\ o.left = o.cmd.vol
        /\ o.cmd \in GenerateRules(pos[s], FALSE)
        /\ ListInv(s)' /\ Alone(s)'
    BY <1>1, <1>2, <1>5, OrderAlone
  <2>2. Unread(s)' = {n}
    <3>1. t.key.sym = s /\ n \in 1..n /\ \A i \in 1..n : i = n \/ i \in 1..Len(trades)
      BY <1>3, <1>5
    <3>2. \A i \in 1..Len(trades) : trades[i].key.sym # s /\ i # n
      BY <1>3, <2>1 DEF Unread
    <3> HIDE DEF n, t
    <3>3. n \in Unread(s)'
      BY <1>3, <3>1 DEF Unread
    <3>4. ASSUME NEW i \in Unread(s)' PROVE i = n
      BY <1>3, <3>1, <3>2 DEF Unread
    <3> QED
      BY <3>3, <3>4
  <2>3. AtWork(s)' = {} /\ Failed(s)' = {}
    BY <1>1, <1>2, <2>1 DEF AtWork, Failed
  <2>4. t \in Trade
    BY <1>2, <1>t DEF TypeOK, Trade, WorkingOrder, Command
  <2>5. Settling(pos[s], t, After(BookOf(pos[s]), t))
    <3>1. pos[s] \in Position /\ Shape(pos[s])
      BY <1>t DEF TypeOK, Before, CommodityInv, CommandInv
    <3>2. t.key = o.key /\ t.op = o.cmd.op /\ t.dir = o.cmd.dir /\ t.vol = o.cmd.vol
      BY <1>2, <2>1
    <3> HIDE DEF t
    <3> QED
      BY <1>5, <2>1, <2>4, <3>1, <3>2, AnswerSettles
  <2>6. Owned(s)' = After(Owned(s), t)
    <3>1. t.key = o.key /\ t.op = o.cmd.op /\ t.dir = o.cmd.dir /\ t.vol = o.left
      BY <1>2
    <3> HIDE DEF t
    <3> QED
      BY <1>1, <1>5, <1>t, <3>1, ExecutedOwned
  <2>7. Reported(s)'
    <3>1. t.key = o.key
      OBVIOUS
    <3> HIDE DEF t, n
    <3> QED
      BY <1>3, <2>1, <2>2, <2>5, <2>6, <3>1 DEF Reported
  <2>8. OneToken(s)'
    <3> HIDE DEF n
    <3> QED
      BY <2>1, <2>2, <2>3 DEF OneToken
  <2>9. CommandInv(s)'
    <3>1. Asked(s)' /\ Watched(s)' /\ Shape(pos'[s])
      BY <2>1, <2>3 DEF Asked, Watched, Before, CommodityInv, CommandInv
    <3>2. Agreed(s)'
      <4> HIDE DEF n
      <4> QED
        BY <2>2 DEF Agreed
    <3> QED
      BY <2>7, <2>8, <3>1, <3>2 DEF CommandInv
  <2> QED
    BY <2>1, <2>9 DEF CommodityInv
<1> QED
  BY <1>4, <1>5

(* An execution that is never reported spares the other commodities.       *)
LEMMA FillUnseenInv ==
  ASSUME Calm, NEW s \in Symbols, Before(s), NEW o \in orders, NEW q \in 1..o.left,
         FillUnseen(o, q), s # o.key.sym
  PROVE  CommodityInv(s)'
<1>1. /\ Executes(o, q)
      /\ UNCHANGED <<portfolioVars, mapVars, executorVars, listenerVars, day, trades, errs>>
  BY DEF FillUnseen
<1>2. /\ orders' = orders \ {o}
      /\ \A k \in Keys : k.sym = s => hold'[k] = hold[k]
  BY <1>1, ExecutesWhole DEF Before, TypeInv
<1> QED
  BY <1>1, <1>2, OrderElsewhere DEF Unread

LEMMA WorldInv ==
  ASSUME Calm, "losttrade" \notin Env, NEW s \in Symbols, Before(s), World
  PROVE  CommodityInv(s)'
<1>1. CASE DayEnd
  BY <1>1, DayEndInv
<1>2. ASSUME NEW a \in Symbols, Age(a) PROVE CommodityInv(s)'
  BY <1>2, AgeInv
<1>3. ASSUME NEW o \in orders, Vanish(o) PROVE CommodityInv(s)'
  BY <1>3, VanishInv
<1>4. ASSUME NEW o \in orders, NEW n \in {1, 2}, Reject(o, n) PROVE CommodityInv(s)'
  BY <1>4, RejectInv
<1>5. ASSUME NEW o \in orders, NEW q \in 1..o.left, Fill(o, q) PROVE CommodityInv(s)'
  BY <1>5, FillInv
<1> QED
  BY <1>1, <1>2, <1>3, <1>4, <1>5 DEF World, FillUnseen

(* What surrounds the commodities' invariants: nothing is under way when   *)
(* the day is over, and the iterator's keys are the map's.                 *)
LEMMA RoundInit == Init => RoundInv
BY DEF Init, RoundInv

LEMMA RoundStep ==
  ASSUME TypeInv, RoundInv, Next
  PROVE  RoundInv'
<1> USE DEF RoundInv, Quiet
<1>1. CASE Executor
  <2>1. CASE StartPass
    BY <1>1, <2>1 DEF StartPass, executorVars, mapVars
  <2>2. CASE PassFails \/ EndPass \/ EndMark
    BY <2>2 DEF PassFails, EndPass, EndMark, listenerVars, worldVars, mapVars
  <2>3. ASSUME NEW k \in Keys, Visit(k) PROVE RoundInv'
    BY <2>3 DEF Visit
  <2>4. ASSUME NEW k \in Keys, NEW r \in rules[k], MarkTriggered(k, r) \/ MarkTime(k, r)
        PROVE  RoundInv'
    BY <2>4 DEF MarkTriggered, MarkTime, executorVars, listenerVars, worldVars
  <2> QED
    BY <1>1, <2>1, <2>2, <2>3, <2>4 DEF Executor, VisitEmpty, VisitQuiet, VisitOld, VisitFire
<1>2. CASE Listener
  <2>1. day = "open" /\ day' = day
    BY <1>2 DEF Listener, OnTrade, DropTrade, ClearContractRule, AddRules, AddRulesFails, worldVars
  <2>2. CASE UNCHANGED <<executorVars, listed>>
    BY <2>1, <2>2 DEF executorVars
  <2>3. ASSUME NEW keys, Restructure(keys), Undisturbed, UNCHANGED <<pc, todo>>
        PROVE  RoundInv'
    BY <2>1, <2>3 DEF Restructure, Undisturbed
  <2> QED
    BY <1>2, <2>2, <2>3
    DEF Listener, OnTrade, DropTrade, ClearContractRule, AddRules, AddRulesFails, mapVars, executorVars
<1>3. ASSUME NEW k \in Keys, OnCommandFailed(k) PROVE RoundInv'
  <2>1. day = "open" /\ day' = day
    BY <1>3 DEF OnCommandFailed, TypeInv, TypeOK
  <2> QED
    BY <1>3, <2>1 DEF OnCommandFailed, executorVars
<1>4. ASSUME NEW k \in Keys, ClearOutstandingCommands(k) PROVE RoundInv'
  BY <1>4 DEF ClearOutstandingCommands, executorVars, worldVars
<1>5. ASSUME NEW scanned \in SUBSET Symbols, NEW aged \in SUBSET Symbols,
             MainSwitcherRun(scanned, aged)
      PROVE  RoundInv'
  BY <1>5 DEF MainSwitcherRun, executorVars, listenerVars
<1>6. CASE World
  <2>1. CASE DayEnd
    BY <2>1 DEF DayEnd, mapVars, executorVars, listenerVars
  <2>2. ASSUME NEW a \in Symbols, Age(a) PROVE RoundInv'
    BY <2>2 DEF Age, executorVars, listenerVars, worldVars
  <2>3. ASSUME NEW o \in orders, day' = day, UNCHANGED <<mapVars, executorVars>>
        PROVE  RoundInv'
    BY <2>3 DEF mapVars, executorVars
  <2> QED
    BY <1>6, <2>1, <2>2, <2>3 DEF World, Vanish, Reject, Fill, FillUnseen
<1> QED
  BY <1>1, <1>2, <1>3, <1>4, <1>5, <1>6 DEF Next

-----------------------------------------------------------------------------
(* Every step keeps the invariant of every commodity.                      *)
LEMMA StutterInv ==
  ASSUME NEW s \in Symbols, Before(s), UNCHANGED vars
  PROVE  CommodityInv(s)'
<1>1. UNCHANGED <<portfolioVars, mapVars, executorVars, listenerVars, worldVars>>
  BY DEF vars
<1>2. TypeOK /\ TypeOK'
  BY DEF Before, TypeInv
<1>3. Untouched(s)
  BY <1>1, <1>2, UntouchedWorld
  DEF TypeOK, ListsKept, portfolioVars, mapVars, listenerVars, worldVars
<1>4. Alone(s)'
  BY <1>1 DEF Alone, NoMark, mapVars, executorVars, Before, CommodityInv
<1> QED
  BY <1>2, <1>3, <1>4, UntouchedInv DEF Before, CommodityInv

LEMMA CommodityStep ==
  ASSUME Calm, "losttrade" \notin Env, NEW s \in Symbols, Before(s), [Next]_vars
  PROVE  CommodityInv(s)'
<1>1. ASSUME NEW k \in Keys, OnCommandFailed(k) \/ ClearOutstandingCommands(k)
      PROVE  CommodityInv(s)'
  BY <1>1, OnCommandFailedInv, ClearOutstandingCommandsInv
<1>2. ASSUME NEW scanned \in SUBSET Symbols, NEW aged \in SUBSET Symbols,
             MainSwitcherRun(scanned, aged)
      PROVE  CommodityInv(s)'
  BY <1>2, MainSwitcherRunInv
<1> QED
  BY <1>1, <1>2, ExecutorInv, ListenerInv, WorldInv, StutterInv DEF Next

BookInv ==
  /\ TypeInv /\ RuleMarks /\ RoundInv
  /\ \A s \in Symbols : CommodityInv(s)

LEMMA CommodityInit == Init => \A s \in Symbols : CommodityInv(s)
<1> SUFFICES ASSUME Init, NEW s \in Symbols PROVE CommodityInv(s)
  OBVIOUS
<1>1. pos[s] = NewPosition /\ lst.step = "idle" /\ orders = {} /\ trades = <<>>
      /\ listed = {} /\ pc = "idle"
      /\ \A k \in Keys : rules[k] = {} /\ errs[k] = 0
  BY DEF Init, Idle
<1>2. AtWork(s) = {} /\ Unread(s) = {} /\ Failed(s) = {} /\ ~Clearing(s) /\ ~Adding(s)
  BY <1>1 DEF AtWork, Unread, Failed, Clearing, Adding
<1>3. Shape(pos[s])
  BY <1>1 DEF NewPosition, Shape
<1>4. BookOf(pos[s]) = Owned(s)
  <2>1. ASSUME NEW x \in [gen : Gens, dir : Dirs]
        PROVE  hold[Key(s, x.gen)][x.dir] = 0
    BY DEF Init, Key, Keys
  <2>2. ASSUME NEW x \in [gen : Gens, dir : Dirs] PROVE NewPosition.dir # x.dir
    BY DEF NewPosition, Dirs, Long, Short, Blank
  <2> QED
    BY <1>1, <2>1, <2>2 DEF BookOf, Owned
<1>5. CommandInv(s)
  BY <1>2, <1>3, <1>4 DEF CommandInv, OneToken, Watched, Busy, Asked, Reported, Agreed
<1>6. ListInv(s) /\ Alone(s)
  BY <1>1, <1>2 DEF ListInv, Lists, Marks, Stays, Alone
<1> QED
  BY <1>5, <1>6 DEF CommodityInv

LEMMA BookInvInit == Init => BookInv
BY TypeInit, MarksInit, RoundInit, CommodityInit DEF BookInv

LEMMA RoundNext == TypeInv /\ RoundInv /\ [Next]_vars => RoundInv'
<1>1. CASE UNCHANGED vars
  BY <1>1 DEF vars, mapVars, executorVars, listenerVars, worldVars, RoundInv, Quiet
<1> QED
  BY <1>1, RoundStep

LEMMA BookInvStep ==
  ASSUME Calm, "losttrade" \notin Env
  PROVE  BookInv /\ [Next]_vars => BookInv'
<1> SUFFICES ASSUME BookInv, [Next]_vars PROVE BookInv'
  OBVIOUS
<1>1. TypeInv' /\ RuleMarks' /\ RoundInv'
  BY TypeStep, MarksStep, RoundNext DEF BookInv
<1>2. ASSUME NEW s \in Symbols PROVE CommodityInv(s)'
  <2>1. Before(s)
    BY <1>1 DEF Before, BookInv, TypeInv
  <2> QED
    BY <2>1, CommodityStep
<1> QED
  BY <1>1, <1>2 DEF BookInv

(* The invariant of the book, of every commodity on its own.               *)
THEOREM BookCorrect ==
  ASSUME Calm, "losttrade" \notin Env
  PROVE  Spec => []BookInv
<1>1. BookInv /\ [Next]_vars => BookInv'
  BY BookInvStep
<1> QED
  BY <1>1, BookInvInit, PTL DEF Spec

(* What a commodity's invariant says of the properties.                    *)
LEMMA AtMostOne ==
  ASSUME NEW S, \A a, b \in S : a = b
  PROVE  /\ IsFiniteSet(S) /\ Cardinality(S) \in {0, 1}
         /\ Cardinality(S) = 0 => S = {}
<1>1. CASE S = {}
  BY <1>1, FS_EmptySet
<1>2. CASE S # {}
  <2>1. PICK a : S = {a}
    BY <1>2
  <2> QED
    BY <2>1, FS_Singleton
<1> QED
  BY <1>1, <1>2

LEMMA OneTokenCounts ==
  ASSUME NEW s \in Symbols, CommodityInv(s)
  PROVE  Cardinality(AtWork(s)) + Cardinality(Unread(s))
           + (IF Handling(s) /\ lst.step = "clear" THEN 1 ELSE 0) <= 1
<1> DEFINE a == Cardinality(AtWork(s))
           u == Cardinality(Unread(s))
<1>1. OneToken(s)
  BY DEF CommodityInv, CommandInv
<1>2. a \in {0, 1} /\ (a = 0 => AtWork(s) = {})
  BY <1>1, AtMostOne DEF OneToken
<1>3. u \in {0, 1} /\ (u = 0 => Unread(s) = {})
  BY <1>1, AtMostOne DEF OneToken
<1>4. (Handling(s) /\ lst.step = "clear") <=> Clearing(s)
  BY DEF Handling, Clearing
<1>5. a = 1 => u = 0 /\ ~Clearing(s)
  <2>1. AtWork(s) = {} => a = 0
    BY FS_EmptySet
  <2>2. Unread(s) = {} => u = 0
    BY FS_EmptySet
  <2> HIDE DEF a, u
  <2> QED
    BY <1>1, <2>1, <2>2 DEF OneToken
<1>6. u = 1 => ~Clearing(s)
  <2>1. Unread(s) = {} => u = 0
    BY FS_EmptySet
  <2> HIDE DEF a, u
  <2> QED
    BY <1>1, <2>1 DEF OneToken
<1> HIDE DEF a, u
<1>7. a + u + (IF Handling(s) /\ lst.step = "clear" THEN 1 ELSE 0) <= 1
  BY <1>2, <1>3, <1>4, <1>5, <1>6
<1> QED
  BY <1>7 DEF a, u

(* No second command is given for a commodity before the answer to the     *)
(* first is in its position.                                               *)
THEOREM OneOrder ==
  ASSUME Calm, "losttrade" \notin Env
  PROVE  Spec => []OneOrderInFlight
<1>1. BookInv => OneOrderInFlight
  BY OneTokenCounts DEF BookInv, OneOrderInFlight
<1> QED
  BY <1>1, BookCorrect, PTL

(* When no command of a commodity is under way, portfolio and account      *)
(* agree on its hands, contract by contract and side by side.              *)
THEOREM LedgerCorrect ==
  ASSUME Calm, "losttrade" \notin Env
  PROVE  Spec => []LedgerMatchesExchange
<1>1. BookInv => LedgerMatchesExchange
  BY DEF BookInv, CommodityInv, CommandInv, Agreed, LedgerMatchesExchange, Settled, Booked
<1> QED
  BY <1>1, BookCorrect, PTL

(* Units and direction come and go together, and a position in a switch    *)
(* has both and a contract to go to.                                       *)
THEOREM PositionsCorrect ==
  ASSUME Calm, "losttrade" \notin Env
  PROVE  Spec => []PositionWellFormed
<1>1. BookInv => PositionWellFormed
  BY DEF BookInv, TypeInv, SwitchWellFormed, CommodityInv, CommandInv, Shape, PositionWellFormed
<1> QED
  BY <1>1, BookCorrect, PTL

(* A position is pyramided once (StrategyImpl 49), if an order is executed *)
(* whole, refused once or lost and answered before the cleaner comes; with *)
(* answers overtaken by the cleaner it is not.                             *)
THEOREM UnitsCorrect ==
  ASSUME Calm, "losttrade" \notin Env
  PROVE  Spec => []UnitsAtMostTwo
<1>1. BookInv => UnitsAtMostTwo
  BY DEF BookInv, CommodityInv, CommandInv, Shape, UnitsAtMostTwo
<1> QED
  BY <1>1, BookCorrect, PTL

(* Every rule of the map is one the position asks for, under its contract. *)
THEOREM RulesCorrect ==
  ASSUME Calm, "losttrade" \notin Env
  PROVE  Spec => []RulesFitPosition
<1>1. BookInv => RulesFitPosition
  <2> SUFFICES ASSUME BookInv, NEW k \in Keys, NEW r \in rules[k], day = "open",
                      ~Handling(k.sym)
               PROVE  /\ k = RuleKey(k.sym, pos[k.sym])
                      /\ r.cmd \in GenerateRules(pos[k.sym], FALSE)
    BY DEF RulesFitPosition
  <2>1. k.sym \in Symbols /\ ~Clearing(k.sym)
    BY DEF Keys, Handling, Clearing
  <2>2. Lists(k.sym)
    BY <2>1 DEF BookInv, CommodityInv, ListInv
  <2> QED
    BY <2>1, <2>2 DEF Lists, ListKey
<1> QED
  BY <1>1, BookCorrect, PTL

-----------------------------------------------------------------------------
(* Before a step of the loop, the invariant is there to be used.           *)
LEMMA BookBefore ==
  ASSUME BookInv, [Next]_vars
  PROVE  \A s \in Symbols : Before(s)
<1>1. TypeInv' /\ RuleMarks' /\ RoundInv'
  BY TypeStep, MarksStep, RoundNext DEF BookInv
<1> QED
  BY <1>1 DEF Before, BookInv, TypeInv

(* A close command is for the hands that the account holds on that side of *)
(* that contract, no more and no less: an order is given for a rule that   *)
(* the position asks for, when the book agrees with the account.           *)
LEMMA FireCloses ==
  ASSUME BookInv, NEW k \in Keys, NEW r \in rules[k], Before(k.sym), VisitFire(k, r),
         r.cmd.op = Close
  PROVE  hold[k][r.cmd.dir] = r.cmd.vol
<1> DEFINE s == k.sym
           p == pos[s]
           x == [gen |-> k.gen, dir |-> r.cmd.dir]
<1>1. /\ s \in Symbols /\ k = RuleKey(s, p) /\ BookOf(p) = Owned(s)
      /\ r.cmd \in GenerateRules(p, FALSE)
  BY FireFacts
<1>2. p \in Position /\ Shape(p)
  BY <1>1 DEF BookInv, TypeInv, TypeOK, CommodityInv, CommandInv
<1>3. /\ p.status # Refresh /\ r.cmd.dir = p.dir /\ r.cmd.vol = Hands(p)
      /\ r.cmd.dir \in Dirs
  <2> HIDE DEF p, s
  <2>1. Close # Open
    BY DEF Open, Close
  <2> QED
    BY <1>1, <1>2, <2>1, GeneratedCommands DEF Active, Expire, Refresh
<1>4. k.gen = p.gen /\ k = Key(s, k.gen) /\ x \in [gen : Gens, dir : Dirs]
  BY <1>1, <1>3 DEF RuleKey, Key, Keys
<1>5. BookOf(p)[x] = Hands(p) /\ Owned(s)[x] = hold[k][r.cmd.dir]
  <2> HIDE DEF p, s
  <2>1. x.gen = k.gen /\ x.dir = r.cmd.dir
    OBVIOUS
  <2> HIDE DEF x
  <2> QED
    BY <1>3, <1>4, <2>1 DEF BookOf, Owned
<1> QED
  BY <1>1, <1>3, <1>5

(* Only a rule that fires puts a new order to work: what is left of one    *)
(* that is filled in part would be the only other, and there is none.      *)
LEMMA NewOrders ==
  ASSUME Calm, BookInv, [Next]_vars, NEW o \in orders' \ orders
  PROVE  \E k \in Keys : \E r \in rules[k] :
           VisitFire(k, r) /\ o.key = k /\ o.cmd = r.cmd
<1>1. TypeOK
  BY DEF BookInv, TypeInv
<1>2. CASE orders' \subseteq orders
  BY <1>2
<1>3. ASSUME NEW k \in Keys, NEW r \in rules[k], VisitFire(k, r)
      PROVE  o.key = k /\ o.cmd = r.cmd
  BY <1>3 DEF VisitFire
<1>4. CASE Executor
  <2>1. \/ \E k \in Keys : \E r \in rules[k] : VisitFire(k, r)
        \/ UNCHANGED orders
    BY <1>4 DEF Executor, StartPass, PassFails, EndPass, EndMark, VisitEmpty, VisitQuiet,
                VisitOld, MarkTriggered, MarkTime, worldVars
  <2> QED
    BY <1>3, <2>1
<1>5. CASE Listener
  BY <1>5 DEF Listener, OnTrade, DropTrade, ClearContractRule, AddRules, AddRulesFails, worldVars
<1>6. ASSUME NEW k \in Keys, OnCommandFailed(k) \/ ClearOutstandingCommands(k)
      PROVE  FALSE
  BY <1>6 DEF OnCommandFailed, ClearOutstandingCommands, worldVars
<1>7. ASSUME NEW scanned, NEW aged, MainSwitcherRun(scanned, aged) PROVE FALSE
  BY <1>7 DEF MainSwitcherRun
<1>8. CASE World
  <2>1. CASE DayEnd
    BY <2>1 DEF DayEnd
  <2>2. ASSUME NEW s \in Symbols, Age(s) PROVE FALSE
    BY <2>2 DEF Age, worldVars
  <2>3. ASSUME NEW w \in orders, Vanish(w) \/ \E n \in {1, 2} : Reject(w, n) PROVE FALSE
    BY <2>3 DEF Vanish, Reject
  <2>4. ASSUME NEW w \in orders, NEW q \in 1..w.left, Fill(w, q) \/ FillUnseen(w, q)
        PROVE  FALSE
    <3>1. Executes(w, q)
      BY <2>4 DEF Fill, FillUnseen
    <3> QED
      BY <1>1, <3>1, ExecutesWhole
  <2> QED
    BY <1>8, <2>1, <2>2, <2>3, <2>4 DEF World
<1>9. CASE UNCHANGED vars
  BY <1>9 DEF vars, worldVars
<1> QED
  BY <1>4, <1>5, <1>6, <1>7, <1>8, <1>9 DEF Next

(* No close command is given for more or less than the account holds.      *)
THEOREM ClosesCorrect ==
  ASSUME Calm, "losttrade" \notin Env
  PROVE  Spec => ClosesWhatIsHeld
<1> DEFINE Exactly == \A o \in orders' \ orders :
                        o.cmd.op = Close => hold[o.key][o.cmd.dir] = o.cmd.vol
<1>1. BookInv /\ [Next]_vars => Exactly
  <2> SUFFICES ASSUME BookInv, [Next]_vars, NEW o \in orders' \ orders, o.cmd.op = Close
               PROVE  hold[o.key][o.cmd.dir] = o.cmd.vol
    OBVIOUS
  <2>0. PICK k \in Keys : \E r \in rules[k] : VisitFire(k, r) /\ o.key = k /\ o.cmd = r.cmd
    BY NewOrders
  <2>1. PICK r \in rules[k] : VisitFire(k, r) /\ o.key = k /\ o.cmd = r.cmd
    BY <2>0
  <2>3. Before(k.sym)
    BY BookBefore DEF Keys
  <2> QED
    BY <2>1, <2>3, FireCloses
<1>2. [Next]_vars /\ BookInv => [Exactly]_vars
  BY <1>1
<1> HIDE DEF Exactly
<1>3. Spec => [][Exactly]_vars
  BY <1>2, BookCorrect, PTL DEF Spec
<1> QED
  BY <1>3 DEF Exactly, ClosesWhatIsHeld

(* The portfolio is a Ledger.  What a step does not touch stays as it is.  *)
LEMMA LedgerStutters ==
  ASSUME UNCHANGED <<orders, trades, hold>>,
         \A s \in Symbols : BookOf(pos'[s]) = BookOf(pos[s])
  PROVE  UNCHANGED Portfolio!vars
<1>1. \A s \in Symbols : Owned(s)' = Owned(s) /\ AtWork(s)' = AtWork(s) /\ Unread(s)' = Unread(s)
  BY DEF Owned, AtWork, Unread
<1> QED
  BY <1>1 DEF Portfolio!vars, Booked

(* The executor and the listener's second half only size positions, and    *)
(* that changes no book, see SizingHarmless.                               *)
LEMMA SizedBooks ==
  ASSUME TypeOK, \A s \in Symbols : pos'[s] \in {pos[s], Sized(s)}
  PROVE  \A s \in Symbols : BookOf(pos'[s]) = BookOf(pos[s])
BY SizedKeeps

LEMMA ExecutorBooks ==
  ASSUME TypeOK, Executor
  PROVE  \A s \in Symbols : BookOf(pos'[s]) = BookOf(pos[s])
<1>1. CASE StartPass
  <2>1. CASE NeedsInit
    BY <1>1, <2>1, SizedBooks DEF StartPass, InitRules
  <2>2. CASE ~NeedsInit
    BY <1>1, <2>2, SizedBooks DEF StartPass, portfolioVars
  <2> QED
    BY <2>1, <2>2
<1>2. ASSUME NEW k \in Keys, VisitEmpty(k)
      PROVE  \A s \in Symbols : BookOf(pos'[s]) = BookOf(pos[s])
  <2>1. CASE pos' = [pos EXCEPT ![k.sym] = Sized(k.sym)]
    BY <2>1, SizedBooks DEF TypeOK, Keys
  <2>2. CASE UNCHANGED pos
    BY <2>2
  <2> QED
    BY <1>2, <2>1, <2>2 DEF VisitEmpty
<1>3. CASE UNCHANGED pos
  BY <1>3
<1> QED
  BY <1>1, <1>2, <1>3
  DEF Executor, PassFails, EndPass, EndMark, VisitQuiet, VisitOld, VisitFire,
      MarkTriggered, MarkTime, portfolioVars

LEMMA AddRulesBooks ==
  ASSUME TypeOK, AddRules
  PROVE  \A s \in Symbols : BookOf(pos'[s]) = BookOf(pos[s])
<1>1. pos' = [pos EXCEPT ![lst.msg.key.sym] = Sized(lst.msg.key.sym)]
  BY DEF AddRules
<1>2. lst.msg.key.sym \in Symbols
  BY DEF AddRules, TypeOK, Idle, Trade, Keys
<1> QED
  BY <1>1, <1>2, SizedBooks DEF TypeOK

(* A rule that fires, of a commodity of which nothing is under way.        *)
LEMMA FireAsks ==
  ASSUME NEW k \in Keys, NEW r \in rules[k], Before(k.sym), VisitFire(k, r)
  PROVE  Portfolio!Ask(k.sym)
<1> DEFINE s == k.sym
<1>1. s \in Symbols /\ ~Busy(s)
  BY FireFacts
<1>2. AtWork(s) = {} /\ Unread(s) = {}
  BY <1>1 DEF Busy
<1>3. PICK o : o.key = k /\ orders' = orders \cup {o}
  BY DEF VisitFire
<1>4. UNCHANGED <<pos, hold, trades>>
  BY DEF VisitFire, Visit
<1>5. ASSUME NEW x \in Symbols
      PROVE  /\ AtWork(x)' # {} <=> x = s \/ AtWork(x) # {}
             /\ Unread(x)' = Unread(x) /\ Owned(x)' = Owned(x) /\ Booked(x)' = Booked(x)
  BY <1>3, <1>4 DEF AtWork, Unread, Owned, Booked
<1> QED
  BY <1>1, <1>2, <1>5 DEF Portfolio!Ask

(* An execution moves the account, by the hands that were left.            *)
LEMMA FillExecutes ==
  ASSUME Calm, NEW o \in orders, Before(o.key.sym), o.key.sym \in Symbols,
         NEW q \in 1..o.left, Fill(o, q)
  PROVE  Portfolio!Execute(o.key.sym)
<1> DEFINE s == o.key.sym
           t == [key |-> o.key, op |-> o.cmd.op, dir |-> o.cmd.dir, vol |-> q, again |-> FALSE]
           a == [gen |-> o.key.gen, dir |-> o.cmd.dir]
<1>t. TypeOK
  BY DEF Before, TypeInv
<1>1. /\ Executes(o, q) /\ trades' = Append(trades, t)
      /\ UNCHANGED <<portfolioVars, mapVars, executorVars, listenerVars, day, errs>>
  BY DEF Fill
<1>2. /\ orders' = orders \ {o} /\ o.key \in Keys /\ o.cmd.dir \in Dirs
      /\ o.left \in Nat \ {0}
      /\ \A k \in Keys : k # o.key => hold'[k] = hold[k]
      /\ hold'[o.key][o.cmd.dir] = IF o.cmd.op = Open THEN hold[o.key][o.cmd.dir] + o.left
                                   ELSE hold[o.key][o.cmd.dir] - o.left
  BY <1>1, <1>t, ExecutesWhole
<1>3. AtWork(s) = {o} /\ Unread(s) = {}
  BY <1>1, OrderAlone
<1>4. /\ trades \in Seq(Trade) /\ Len(trades) \in Nat /\ DOMAIN trades = 1..Len(trades)
      /\ DOMAIN trades' = 1..(Len(trades) + 1) /\ trades'[Len(trades) + 1] = t
      /\ \A i \in 1..Len(trades) : trades'[i] = trades[i]
  BY <1>1, <1>t DEF TypeOK
<1>5. ASSUME NEW x \in Symbols
      PROVE  /\ AtWork(x)' # {} <=> x # s /\ AtWork(x) # {}
             /\ Booked(x)' = Booked(x)
  BY <1>1, <1>2, <1>3 DEF AtWork, Booked, portfolioVars
<1>6. ASSUME NEW x \in Symbols, x # s
      PROVE  Unread(x)' = Unread(x) /\ Owned(x)' = Owned(x)
  <2>1. t.key.sym = s
    OBVIOUS
  <2> HIDE DEF t, s
  <2>2. Unread(x)' = Unread(x)
    BY <1>4, <1>6, <2>1 DEF Unread
  <2>3. \A g \in Gens : hold'[Key(x, g)] = hold[Key(x, g)]
    BY <1>2, <1>6 DEF Key, Keys, s
  <2> QED
    BY <2>2, <2>3 DEF Owned
<1>7. Unread(s)' # {}
  <2>1. t.key.sym = s /\ Len(trades) + 1 \in 1..(Len(trades) + 1)
    BY <1>4
  <2> HIDE DEF t, s
  <2> QED
    BY <1>4, <2>1 DEF Unread
<1>8. Owned(s)' # Owned(s)
  <2>1. hold[o.key][o.cmd.dir] \in Nat
    BY <1>2, <1>t DEF TypeOK
  <2>2. hold'[o.key][o.cmd.dir] # hold[o.key][o.cmd.dir]
    BY <1>2, <2>1
  <2>3. o.key = Key(s, o.key.gen) /\ a \in [gen : Gens, dir : Dirs]
    BY <1>2 DEF Key, Keys
  <2>4. Owned(s)[a] = hold[o.key][o.cmd.dir] /\ Owned(s)'[a] = hold'[o.key][o.cmd.dir]
    <3>1. a.gen = o.key.gen /\ a.dir = o.cmd.dir
      OBVIOUS
    <3> HIDE DEF a, s
    <3> QED
      BY <2>3, <3>1 DEF Owned
  <2> QED
    BY <2>2, <2>4
<1> HIDE DEF s
<1>9. Portfolio!Execute(s)
  BY <1>3, <1>5, <1>6, <1>7, <1>8 DEF Portfolio!Execute, s
<1> QED
  BY <1>9 DEF s

(* An order that is refused or lost, and the orders of a day that ends.    *)
LEMMA ComesToNothing ==
  ASSUME NEW W \in SUBSET orders, orders' = orders \ W, UNCHANGED <<pos, hold, trades>>
  PROVE  [Portfolio!Next]_(Portfolio!vars)
<1> DEFINE S == {s \in Symbols : AtWork(s) # {} /\ AtWork(s)' = {}}
<1>1. ASSUME NEW x \in Symbols
      PROVE  /\ AtWork(x)' # {} <=> AtWork(x) # {} /\ x \notin S
             /\ Unread(x)' = Unread(x) /\ Owned(x)' = Owned(x) /\ Booked(x)' = Booked(x)
  BY DEF AtWork, Unread, Owned, Booked
<1>2. S \in SUBSET Symbols /\ S \subseteq {s \in Symbols : AtWork(s) # {}}
  OBVIOUS
<1> HIDE DEF S
<1>3. Portfolio!ComesToNothing(S)
  BY <1>1, <1>2 DEF Portfolio!ComesToNothing
<1> QED
  BY <1>2, <1>3 DEF Portfolio!Next

(* The report that is read next is about a commodity.                      *)
LEMMA HeadType ==
  ASSUME TypeOK, trades # <<>>
  PROVE  Head(trades) \in Trade /\ Head(trades).key.sym \in Symbols
<1>1. trades \in Seq(Trade)
  BY DEF TypeOK
<1>2. Head(trades) \in Trade
  BY <1>1
<1> QED
  BY <1>2 DEF Trade, Keys

(* The report that is read is the one that was outstanding.                *)
LEMMA TradeEnters ==
  ASSUME BookInv, OnTrade, \A s \in Symbols : Before(s)
  PROVE  [Portfolio!Next]_(Portfolio!vars)
<1> DEFINE t == Head(trades)
<1>t. TypeOK
  BY DEF BookInv, TypeInv
<1>s. PICK s \in Symbols : s = t.key.sym
  BY <1>t, HeadType DEF OnTrade
<1>1. /\ trades # <<>> /\ trades' = Tail(trades)
      /\ pos' = [pos EXCEPT ![s] = UpdatePosition(pos[s], t)]
      /\ UNCHANGED <<orders, hold>>
  BY <1>s DEF OnTrade
<1>2. 1 \in Unread(s) /\ trades[1] = t
  BY <1>s, <1>1, <1>t, HeadRead
<1>3. \A x \in Symbols \ {s} : SameReports(x)
  BY <1>s, <1>1, <1>t, HeadRead
<1>4. \A i \in Unread(s) : i = 1
  BY <1>2 DEF Before, CommodityInv, CommandInv, OneToken
<1>5. Unread(s)' = {}
  BY <1>s, <1>1, <1>4, <1>t, HeadRead
<1> HIDE DEF t
<1>6. BookOf(pos'[s]) = Owned(s)
  <2>1. Settling(pos[s], t, Owned(s))
    BY <1>2 DEF Before, CommodityInv, CommandInv, Reported
  <2>2. pos'[s] = UpdatePosition(pos[s], t)
    BY <1>1, <1>2, <1>t DEF TypeOK
  <2> QED
    BY <2>1, <2>2 DEF Settling
<1>7. ASSUME NEW x \in Symbols
      PROVE  /\ AtWork(x)' = AtWork(x) /\ Owned(x)' = Owned(x)
             /\ Booked(x)' = IF x = s THEN Owned(s) ELSE Booked(x)
             /\ Unread(x)' # {} <=> x # s /\ Unread(x) # {}
  <2>1. CASE x = s
    BY <1>1, <1>5, <1>6, <2>1 DEF AtWork, Owned, Booked
  <2>2. CASE x # s
    <3>1. Unread(x)' # {} <=> Unread(x) # {}
      BY <1>3, <2>2 DEF SameReports
    <3> QED
      BY <1>1, <1>2, <1>t, <2>2, <3>1 DEF AtWork, Owned, Booked, TypeOK
  <2> QED
    BY <2>1, <2>2
<1>8. Portfolio!Enter(s)
  BY <1>2, <1>7 DEF Portfolio!Enter
<1> QED
  BY <1>2, <1>8 DEF Portfolio!Next

LEMMA ExecutorLedger ==
  ASSUME BookInv, Executor, \A s \in Symbols : Before(s)
  PROVE  [Portfolio!Next]_(Portfolio!vars)
<1>1. ASSUME NEW k \in Keys, NEW r \in rules[k], VisitFire(k, r)
      PROVE  [Portfolio!Next]_(Portfolio!vars)
  <2>1. k.sym \in Symbols
    BY DEF Keys
  <2> QED
    BY <1>1, <2>1, FireAsks DEF Portfolio!Next
<1>2. CASE UNCHANGED <<orders, trades, hold>>
  BY <1>2, LedgerStutters, ExecutorBooks DEF BookInv, TypeInv
<1> QED
  BY <1>1, <1>2
  DEF Executor, StartPass, PassFails, EndPass, EndMark, Visit, VisitEmpty,
      VisitQuiet, VisitOld, MarkTriggered, MarkTime, worldVars

LEMMA ListenerLedger ==
  ASSUME Calm, BookInv, Listener, \A s \in Symbols : Before(s)
  PROVE  [Portfolio!Next]_(Portfolio!vars)
<1>t. TypeOK
  BY DEF BookInv, TypeInv
<1>1. CASE OnTrade
  BY <1>1, TradeEnters
<1>2. CASE DropTrade
  <2>1. trades # <<>> /\ trades' = Tail(trades) /\ ~Resolves(Head(trades))
    BY <1>2 DEF DropTrade
  <2>2. Head(trades).key.sym \in Symbols
    BY <1>t, <2>1, HeadType
  <2>3. 1 \in Unread(Head(trades).key.sym) /\ trades[1] = Head(trades)
    BY <1>t, <2>1, <2>2, HeadRead
  <2> QED
    BY <2>1, <2>2, <2>3, NeverDropped
<1>3. CASE ClearContractRule
  BY <1>3, LedgerStutters DEF ClearContractRule, portfolioVars, worldVars
<1>4. CASE AddRules
  <2>1. UNCHANGED <<orders, trades, hold>>
    BY <1>4 DEF AddRules, worldVars
  <2> QED
    BY <1>4, <1>t, <2>1, AddRulesBooks, LedgerStutters
<1>5. CASE AddRulesFails
  BY <1>5 DEF AddRulesFails, Calm
<1> QED
  BY <1>1, <1>2, <1>3, <1>4, <1>5 DEF Listener

LEMMA WorldLedger ==
  ASSUME Calm, "losttrade" \notin Env, BookInv, World, \A s \in Symbols : Before(s)
  PROVE  [Portfolio!Next]_(Portfolio!vars)
<1>t. TypeOK
  BY DEF BookInv, TypeInv
<1>1. CASE DayEnd
  <2>1. orders' = orders \ orders /\ UNCHANGED <<pos, hold, trades>>
    BY <1>1 DEF DayEnd
  <2> QED
    BY <2>1, ComesToNothing
<1>2. ASSUME NEW s \in Symbols, Age(s) PROVE UNCHANGED Portfolio!vars
  BY <1>2, LedgerStutters DEF Age, portfolioVars, worldVars
<1>3. ASSUME NEW o \in orders, Vanish(o) \/ \E n \in {1, 2} : Reject(o, n)
      PROVE  [Portfolio!Next]_(Portfolio!vars)
  <2>1. orders' = orders \ {o} /\ UNCHANGED <<pos, hold, trades>>
    BY <1>3 DEF Vanish, Reject, portfolioVars
  <2> QED
    BY <2>1, ComesToNothing
<1>4. ASSUME NEW o \in orders, NEW q \in 1..o.left, Fill(o, q)
      PROVE  [Portfolio!Next]_(Portfolio!vars)
  <2>1. o.key.sym \in Symbols
    BY <1>t DEF TypeOK, WorkingOrder, Keys
  <2> QED
    BY <1>4, <2>1, FillExecutes DEF Portfolio!Next
<1> QED
  BY <1>1, <1>2, <1>3, <1>4 DEF World, FillUnseen

(* The trading loop implements the Ledger: every step asks, executes,      *)
(* enters one report, ends in nothing, or is a stutter.                    *)
THEOREM LedgerHolds ==
  ASSUME Calm, "losttrade" \notin Env
  PROVE  Spec => LedgerKept
<1>1. Init => Portfolio!Init
  <2> SUFFICES ASSUME Init PROVE Portfolio!Init
    OBVIOUS
  <2>1. ASSUME NEW s \in Symbols
        PROVE  AtWork(s) = {} /\ Unread(s) = {} /\ Booked(s) = Owned(s)
    <3>1. AtWork(s) = {} /\ Unread(s) = {}
      BY DEF Init, AtWork, Unread
    <3>2. CommodityInv(s)
      BY CommodityInit
    <3> QED
      BY <3>1, <3>2 DEF CommodityInv, CommandInv, Agreed, Booked
  <2> QED
    BY <2>1 DEF Portfolio!Init
<1>2. BookInv /\ [Next]_vars => [Portfolio!Next]_(Portfolio!vars)
  <2> SUFFICES ASSUME BookInv, [Next]_vars PROVE [Portfolio!Next]_(Portfolio!vars)
    OBVIOUS
  <2>1. \A s \in Symbols : Before(s)
    BY BookBefore
  <2>2. CASE Executor
    BY <2>1, <2>2, ExecutorLedger
  <2>3. CASE Listener
    BY <2>1, <2>3, ListenerLedger
  <2>4. ASSUME NEW k \in Keys, OnCommandFailed(k) \/ ClearOutstandingCommands(k)
        PROVE  UNCHANGED Portfolio!vars
    BY <2>4, LedgerStutters
    DEF OnCommandFailed, ClearOutstandingCommands, portfolioVars, worldVars
  <2>5. ASSUME NEW scanned, NEW aged, MainSwitcherRun(scanned, aged)
        PROVE  UNCHANGED Portfolio!vars
    <3>1. \A s \in Symbols : BookOf(pos'[s]) = BookOf(pos[s])
      BY <2>5, EveningBook DEF BookInv, TypeInv, CommodityInv, CommandInv
    <3> QED
      BY <2>5, <3>1, LedgerStutters DEF MainSwitcherRun
  <2>6. CASE World
    BY <2>1, <2>6, WorldLedger
  <2>7. CASE UNCHANGED vars
    BY <2>7, LedgerStutters DEF vars, portfolioVars, worldVars
  <2> QED
    BY <2>2, <2>3, <2>4, <2>5, <2>6, <2>7 DEF Next
<1> QED
  BY <1>1, <1>2, BookCorrect, PTL DEF Spec, LedgerKept, Portfolio!Spec
=============================================================================
