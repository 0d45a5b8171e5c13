---------------------------- MODULE ContractKey ----------------------------
(***************************************************************************)
(* The names of contracts and commands on their way to CTP and back, and   *)
(* what is proved about them: an order goes out under ContractVO.getCtpKey *)
(* with a direction and an offset flag, its reports come back under an     *)
(* InstrumentID that BaseUtils.ctpKey2Key and CtpHelper.parseInstruction   *)
(* read.  CZCE writes three digits for year and month, the program four.   *)
(***************************************************************************)
EXTENDS Integers, TLAPS

CONSTANTS
  Metas,         \* ContractMetaVO, as [symbol, ctpSymbol]
  Zhengzhou,     \* ContractConfig: the symbols of CZCE
  UpperCase(_),  \* String.toUpperCase on a commodity's letters
  None           \* a digit or a string that is not there

(* A contract's prid is the text yymm: the decade's digit and the rest.    *)
Digits == 0..9
Prid == [decade : Digits, rest : Digits \X (1..12)]
Contract == [meta : Metas, prid : Prid]

GetKey(c) == [sym |-> c.meta.symbol, prid |-> c.prid]

IsZhengzhou(c) == c.meta.symbol \in Zhengzhou
GetCtpKey(c) ==
  [sym |-> c.meta.ctpSymbol,
   digits |-> IF IsZhengzhou(c) THEN [c.prid EXCEPT !.decade = None] ELSE c.prid]

(* The third digit of the year, read once and kept for the process' life.  *)
Decade(year) == (year \div 10) % 10
GetCurrentYearStr(kept, year) == IF kept = None THEN Decade(year) ELSE kept

(* A letter four places before the end: only three digits follow.          *)
CtpKey2Key(id, decade) ==
  [sym |-> UpperCase(id.sym),
   prid |-> IF id.digits.decade = None
            THEN [id.digits EXCEPT !.decade = decade] ELSE id.digits]

-----------------------------------------------------------------------------
(* TdCommander.onMessage and CtpHelper.parseInstruction.                   *)
Instructions == {"OL", "OS", "CL", "CS"}
Direction(i) == IF i \in {"OL", "CS"} THEN "buy" ELSE "sell"
CombOffsetFlag(i) == IF i \in {"OL", "OS"} THEN "open" ELSE "close"
ParseInstruction(offset, direction) ==
  IF direction = "buy" THEN IF offset = "open" THEN "OL" ELSE "CS"
                       ELSE IF offset = "open" THEN "OS" ELSE "CL"

-----------------------------------------------------------------------------
(* The instrument ids of the database are the symbols in CTP's spelling.   *)
SpelledAlike(c) == UpperCase(c.meta.ctpSymbol) = c.meta.symbol
InDecade(c, decade) == IsZhengzhou(c) => c.prid.decade = decade

(* A contract of the decade the process keeps comes back as itself: the    *)
(* report of an order finds the position that gave it.                     *)
THEOREM KeyRoundTrip ==
  ASSUME NEW c \in Contract, NEW decade \in Digits, None \notin Digits,
         SpelledAlike(c), InDecade(c, decade)
  PROVE  CtpKey2Key(GetCtpKey(c), decade) = GetKey(c)
<1>1. c.prid \in Prid /\ c.prid.decade # None
  BY DEF Contract, Prid
<1>2. CASE IsZhengzhou(c)
  <2>1. c.prid.decade = decade
    BY <1>2 DEF InDecade
  <2>2. [[c.prid EXCEPT !.decade = None] EXCEPT !.decade = decade] = c.prid
    BY <1>1, <2>1 DEF Prid
  <2>3. [c.prid EXCEPT !.decade = None].decade = None
    BY <1>1 DEF Prid
  <2> QED
    BY <1>2, <2>2, <2>3 DEF CtpKey2Key, GetCtpKey, GetKey, SpelledAlike
<1>3. CASE ~IsZhengzhou(c)
  BY <1>1, <1>3 DEF CtpKey2Key, GetCtpKey, GetKey, SpelledAlike
<1> QED
  BY <1>2, <1>3

(* A CZCE contract of another decade never does: its reports name another  *)
(* contract, at best one that is unknown.                                  *)
THEOREM OtherDecadeIsLost ==
  ASSUME NEW c \in Contract, NEW decade \in Digits,
         IsZhengzhou(c), c.prid.decade # decade
  PROVE  CtpKey2Key(GetCtpKey(c), decade) # GetKey(c)
<1> DEFINE short == [c.prid EXCEPT !.decade = None]
<1>0. c.prid \in Prid
  BY DEF Contract
<1>1. short.decade = None /\ [short EXCEPT !.decade = decade].decade = decade
  BY <1>0 DEF Prid
<1>2. CtpKey2Key(GetCtpKey(c), decade).prid = [short EXCEPT !.decade = decade]
  BY <1>1 DEF CtpKey2Key, GetCtpKey
<1>3. CtpKey2Key(GetCtpKey(c), decade).prid.decade = decade
  BY <1>1, <1>2
<1>4. GetKey(c).prid.decade # decade
  BY DEF GetKey
<1> QED
  BY <1>3, <1>4

(* Two contracts of the decade that share an instrument id are one.        *)
THEOREM KeysDistinct ==
  ASSUME NEW c1 \in Contract, NEW c2 \in Contract, NEW decade \in Digits,
         None \notin Digits,
         SpelledAlike(c1), SpelledAlike(c2),
         InDecade(c1, decade), InDecade(c2, decade),
         GetCtpKey(c1) = GetCtpKey(c2)
  PROVE  GetKey(c1) = GetKey(c2)
BY KeyRoundTrip

(* The decade is the one in which the process first read a CZCE id: a      *)
(* contract of the next one is lost until the program is started again.    *)
THEOREM DecadeStays ==
  ASSUME NEW c \in Contract, NEW kept \in Digits, NEW year \in Nat,
         kept # None, IsZhengzhou(c), c.prid.decade # kept
  PROVE  CtpKey2Key(GetCtpKey(c), GetCurrentYearStr(kept, year)) # GetKey(c)
BY OtherDecadeIsLost DEF GetCurrentYearStr

(* A command comes back as the command that was given: opens as opens, on  *)
(* the side they were given for.                                           *)
THEOREM InstructionRoundTrip ==
  ASSUME NEW i \in Instructions
  PROVE  ParseInstruction(CombOffsetFlag(i), Direction(i)) = i
BY DEF Instructions, ParseInstruction, CombOffsetFlag, Direction
=============================================================================
