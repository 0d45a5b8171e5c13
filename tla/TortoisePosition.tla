-------------------------- MODULE TortoisePosition --------------------------
(***************************************************************************)
(* The pure part of the tortoise strategy: what a position is, how a trade *)
(* report changes it (StrategyImpl.updatePosition) and which rules it asks *)
(* for (StrategyImpl.generateRulesOnContract and the four generators it    *)
(* calls).  Prices are abstracted away: a rule says what it would order,   *)
(* when its price condition holds is left open.                            *)
(***************************************************************************)
EXTENDS Integers, FiniteSetsExt

CONSTANTS
  Symbols,    \* the commodities traded (ContractMetaVO.symbol)
  MaxGen,     \* bound: main-contract generations 0..MaxGen of a commodity
  HandSizes,  \* the hands per unit that the cash may afford
  FullHands   \* the hands at which the portfolio counts as full

ASSUME PositionAssumption ==
  /\ MaxGen \in Nat
  /\ HandSizes \subseteq Nat
  /\ HandSizes # {}
  /\ FullHands \in Nat \ {0}

-----------------------------------------------------------------------------
(* A contract key is a commodity and the generation of its main contract:  *)
(* generation g + 1 is the "next main" contract of generation g.           *)
Gens == 0..MaxGen
Keys == [sym : Symbols, gen : Gens]
Key(s, g) == [sym |-> s, gen |-> g]

Long == "L"
Short == "S"
Blank == ""
Dirs == {Long, Short}
Opposite(d) == IF d = Long THEN Short ELSE Long

Active == "A"   \* PositionVO.ACTIVE
Expire == "E"   \* PositionVO.EXPIRE: the old contract is to be closed
Refresh == "R"  \* PositionVO.REFRESH: the new contract is to be opened

Position == [gen : Gens, dir : Dirs \cup {Blank}, units : Nat, hand : Nat,
             status : {Active, Expire, Refresh}]
NewPosition == [gen |-> 0, dir |-> Blank, units |-> 0, hand |-> 0,
                status |-> Active]

(* An instruction OL, OS, CL or CS: an operation on one side.              *)
Open == "O"
Close == "C"
Command == [op : {Open, Close}, dir : Dirs, vol : Nat]
Order(op, dir, vol) == [op |-> op, dir |-> dir, vol |-> vol]

Hands(p) == p.hand * p.units

(* The contract the rules of a position are about.                         *)
RuleKey(s, p) == Key(s, IF p.status = Refresh THEN p.gen + 1 ELSE p.gen)

-----------------------------------------------------------------------------
(* What a trade report [key, op, dir, vol] does to the position.           *)
StartForceOpen(p) == [p EXCEPT !.status = Refresh]
SkipsOne(p, t) ==  \* mutant: the contract after the one opened
  [p EXCEPT !.status = Active, !.gen = t.key.gen + 1]
StaysOld(p, t) == [p EXCEPT !.status = Active]  \* mutant: the old contract
FinishSwitch(p, t) == [p EXCEPT !.status = Active, !.gen = t.key.gen]
FirstUnit(p, t) ==
  [p EXCEPT !.dir = IF t.op = Open THEN t.dir ELSE @, !.units = @ + 1]
AddUnit(p, t) == IF p.hand = t.vol THEN [p EXCEPT !.units = @ + 1] ELSE p
ClosesUnit(p, t) == p.hand = t.vol  \* mutant: one unit's hands suffice
ClosesAll(p, t) == Hands(p) = t.vol
ResetUnitsOnly(p) == [p EXCEPT !.units = 0]  \* mutant: direction stays
ResetPosition(p) == [p EXCEPT !.units = 0, !.dir = Blank]

UpdatePosition(p, t) ==
  CASE p.status = Expire                -> StartForceOpen(p)
    [] p.status = Refresh               -> FinishSwitch(p, t)
    [] p.status = Active /\ p.dir = Blank -> FirstUnit(p, t)
    [] p.status = Active /\ p.dir # Blank /\ t.op = Open /\ t.dir = p.dir
                                        -> AddUnit(p, t)
    [] OTHER                            -> IF ClosesAll(p, t)
                                           THEN ResetPosition(p) ELSE p

(* The report empties the position, so the cash is settled.                *)
Settles(p, t) ==
  /\ p.status = Active
  /\ p.dir # Blank
  /\ ~(t.op = Open /\ t.dir = p.dir)
  /\ ClosesAll(p, t)

-----------------------------------------------------------------------------
(* The hands at risk in the whole portfolio, against the 10% limit.        *)
IsFullPortfolio(pos) ==
  SumFunction([s \in Symbols |-> Hands(pos[s])]) >= FullHands

(* Generating open rules for an empty position sizes it first.             *)
UpdateHandPerUnit(p, full, hand) ==
  IF p.status = Active /\ ~full /\ p.units = 0
  THEN [p EXCEPT !.hand = hand] ELSE p

(* The rules themselves; p is the position after UpdateHandPerUnit.        *)
OpenRulesAgain(p) ==  \* mutant: pyramids without end
  IF p.units = 0 THEN {Order(Open, d, p.hand) : d \in Dirs}
                 ELSE {Order(Open, d, p.hand) : d \in Dirs \cap {p.dir}}
OpenRules(p) ==
  CASE p.units = 0 /\ p.hand # 0 -> {Order(Open, d, p.hand) : d \in Dirs}
    [] p.units = 1               -> {Order(Open, d, p.hand) : d \in Dirs \cap {p.dir}}
    [] OTHER                     -> {}

CloseRulesOneUnit(p) ==  \* mutant: the hands of one unit
  IF p.units = 0 THEN {}
  ELSE {Order(Close, d, p.hand) : d \in Dirs \cap {p.dir}}
CloseRules(p) ==
  IF p.units = 0 THEN {}
  ELSE {Order(Close, d, Hands(p)) : d \in Dirs \cap {p.dir}}

CloseOldPosition(p) ==
  {Order(Close, IF p.dir = Long THEN Long ELSE Short, Hands(p))}
OpenNewPosition(p) ==
  {Order(Open, IF p.dir = Long THEN Long ELSE Short, Hands(p))}

GenerateRules(p, full) ==
  CASE p.status = Expire  -> CloseOldPosition(p)
    [] p.status = Refresh -> OpenNewPosition(p)
    [] OTHER              -> (IF full THEN {} ELSE OpenRules(p)) \cup CloseRules(p)

=============================================================================
