-------------------------- MODULE Restart_proofs --------------------------
(***************************************************************************)
(* Proofs about Restart: the types, that the database always has the       *)
(* status and the contract of every position (SwitchIsSaved), and that the *)
(* book survives a restart (LedgerAfterRestart).  What the loop's own      *)
(* steps keep is taken from RuleLoop_proofs.                               *)
(***************************************************************************)
EXTENDS Restart, RuleLoop_proofs

(* The database is good to start from, an open transaction belongs to a    *)
(* report being handled, and at night no report is being handled.          *)
SavedWellFormed ==
  \A s \in Symbols :
    /\ saved.nm[s] => saved.pos[s].gen < MaxGen
    /\ saved.pos[s].status # Active => saved.nm[s] /\ saved.pos[s].dir # Blank
SavingHandles == saving => lst.step # "idle"
NightIsQuiet == day # "open" =>
  orders = {} /\ trades = <<>> /\ lst.step = "idle" /\ pc = "idle"

StoreInv ==
  /\ TypeInv
  /\ StoreTypeOK
  /\ SavedWellFormed
  /\ SavingHandles
  /\ NightIsQuiet
  /\ SwitchIsSaved

(* Gen, status and the next main contracts, which a switch changes.        *)
SwitchKept ==
  /\ nm' = nm
  /\ \A s \in Symbols : /\ pos'[s].gen = pos[s].gen
                        /\ pos'[s].status = pos[s].status

-----------------------------------------------------------------------------
LEMMA StoreInit == RestartInit => StoreInv
<1> SUFFICES ASSUME RestartInit PROVE StoreInv
  OBVIOUS
<1>1. TypeInv
  BY TypeInit DEF RestartInit
<1>2. saved = [pos |-> pos, nm |-> nm] /\ saving = FALSE
  BY DEF RestartInit
<1>a. pos \in [Symbols -> Position] /\ nm \in [Symbols -> BOOLEAN]
  BY <1>1 DEF TypeInv, TypeOK
<1>3. StoreTypeOK
  <2>1. saved \in [pos : [Symbols -> Position], nm : [Symbols -> BOOLEAN]]
    BY <1>a, <1>2
  <2> QED
    BY <2>1, <1>2 DEF RestartInit, StoreTypeOK
<1>4. SavedWellFormed
  BY <1>1, <1>2 DEF SavedWellFormed, TypeInv, SwitchWellFormed
<1>5. SavingHandles /\ NightIsQuiet /\ SwitchIsSaved
  BY <1>2 DEF RestartInit, Init, SavingHandles, NightIsQuiet, SwitchIsSaved
<1> QED
  BY <1>1, <1>3, <1>4, <1>5 DEF StoreInv

(* Sizing a position for its rules changes its hands only.                 *)
LEMMA SizingKeeps ==
  ASSUME TypeInv, NEW S, nm' = nm,
         pos' = [s \in Symbols |-> IF s \in S THEN Sized(s) ELSE pos[s]]
  PROVE  SwitchKept
BY SizedType DEF TypeInv, SwitchKept

LEMMA OneSizingKeeps ==
  ASSUME TypeInv, NEW z \in Symbols, nm' = nm,
         pos' = [pos EXCEPT ![z] = Sized(z)]
  PROVE  SwitchKept
BY SizedType DEF TypeInv, TypeOK, SwitchKept

LEMMA SamePositions ==
  ASSUME UNCHANGED <<pos, nm>>
  PROVE  SwitchKept
BY DEF SwitchKept

(* Neither the executor nor the listener's last step takes part in a       *)
(* switch.                                                                 *)
LEMMA ExecutorKeeps == TypeInv /\ Executor => SwitchKept
<1> SUFFICES ASSUME TypeInv, Executor PROVE SwitchKept
  OBVIOUS
<1>1. CASE StartPass
  <2>1. CASE NeedsInit
    <3>1. PICK done \in SUBSET Symbols : InitRules(done)
      BY <1>1, <2>1 DEF StartPass
    <3> QED
      BY <3>1, SizingKeeps DEF InitRules
  <2>2. CASE ~NeedsInit
    BY <1>1, <2>2, SamePositions DEF StartPass, portfolioVars
  <2> QED
    BY <2>1, <2>2
<1>2. CASE PassFails \/ EndPass \/ EndMark
  BY <1>2, SamePositions DEF PassFails, EndPass, EndMark, portfolioVars
<1>3. ASSUME NEW k \in Keys, VisitEmpty(k) PROVE SwitchKept
  <2>1. k.sym \in Symbols /\ nm' = nm
    BY <1>3 DEF Keys, VisitEmpty, Visit
  <2>2. CASE pos' = [pos EXCEPT ![k.sym] = Sized(k.sym)]
    BY <2>1, <2>2, OneSizingKeeps
  <2>3. CASE UNCHANGED pos
    BY <2>1, <2>3, SamePositions
  <2> QED
    BY <1>3, <2>2, <2>3 DEF VisitEmpty
<1>4. ASSUME NEW k \in Keys, VisitQuiet(k) \/ VisitOld(k) PROVE SwitchKept
  BY <1>4, SamePositions DEF VisitQuiet, VisitOld, Visit
<1>5. ASSUME NEW k \in Keys, NEW r \in rules[k],
             VisitFire(k, r) \/ MarkTriggered(k, r) \/ MarkTime(k, r)
      PROVE  SwitchKept
  BY <1>5, SamePositions
     DEF VisitFire, Visit, MarkTriggered, MarkTime, portfolioVars
<1> QED
  BY <1>1, <1>2, <1>3, <1>4, <1>5 DEF Executor

LEMMA AddRulesKeeps == TypeInv /\ AddRules => SwitchKept
<1> SUFFICES ASSUME TypeInv, AddRules PROVE SwitchKept
  OBVIOUS
<1>1. lst.msg.key.sym \in Symbols
  BY DEF TypeInv, TypeOK, AddRules, Idle, Trade, Keys
<1> QED
  BY <1>1, OneSizingKeeps DEF AddRules

LEMMA ElsewhereKeeps == TypeInv /\ Elsewhere => SwitchKept
<1> SUFFICES ASSUME TypeInv, Elsewhere PROVE SwitchKept
  OBVIOUS
<1>1. CASE Executor
  BY <1>1, ExecutorKeeps
<1>2. CASE DropTrade \/ ClearContractRule \/ DayEnd
  BY <1>2, SamePositions DEF DropTrade, ClearContractRule, DayEnd, portfolioVars
<1>3. ASSUME NEW k \in Keys, OnCommandFailed(k) \/ ClearOutstandingCommands(k)
      PROVE  SwitchKept
  BY <1>3, SamePositions
     DEF OnCommandFailed, ClearOutstandingCommands, portfolioVars
<1>4. ASSUME NEW s \in Symbols, Age(s) PROVE SwitchKept
  BY <1>4, SamePositions DEF Age, portfolioVars
<1>5. ASSUME NEW o \in orders, NEW q \in 1..o.left, Fill(o, q) PROVE SwitchKept
  BY <1>5, SamePositions DEF Fill, portfolioVars
<1>6. ASSUME NEW o \in orders, NEW n \in {1, 2}, Vanish(o) \/ Reject(o, n)
      PROVE  SwitchKept
  BY <1>6, SamePositions DEF Vanish, Reject, portfolioVars
<1>7. ASSUME NEW o \in orders, Vanish(o) PROVE SwitchKept
  BY <1>7, SamePositions DEF Vanish, portfolioVars
<1> QED
  BY <1>1, <1>2, <1>3, <1>4, <1>5, <1>6, <1>7 DEF Elsewhere

(* A report on an active position is not part of a switch.                 *)
LEMMA ActiveKeeps ==
  ASSUME TypeInv, OnTrade, ~Switching(Head(trades).key.sym)
  PROVE  SwitchKept
<1> DEFINE t == Head(trades)
           z == t.key.sym
           p == UpdatePosition(pos[z], t)
<1>a. trades \in Seq(Trade) /\ trades # <<>>
  BY DEF TypeInv, TypeOK, OnTrade
<1>b. t \in Trade
  BY <1>a
<1>1. t \in Trade /\ z \in Symbols
  BY <1>b DEF Trade, Keys
<1>2. pos[z] \in Position /\ pos[z].status = Active
  BY <1>1 DEF TypeInv, TypeOK, Switching
<1>3. p.gen = pos[z].gen /\ p.status = pos[z].status
  BY <1>2 DEF UpdatePosition, FirstUnit, AddUnit, ResetPosition, Position,
              Active, Expire, Refresh
<1>4. pos' = [pos EXCEPT ![z] = p] /\ nm' = [nm EXCEPT ![z] = StillNext(z, p)]
  BY DEF OnTrade
<1>5. StillNext(z, p) = nm[z]
  BY <1>1, <1>3 DEF StillNext, TypeInv, TypeOK
<1>6. nm' = nm
  BY <1>1, <1>4, <1>5 DEF TypeInv, TypeOK
<1> QED
  BY <1>1, <1>3, <1>4, <1>6 DEF SwitchKept, TypeInv, TypeOK

-----------------------------------------------------------------------------
(* Every step but the restart is a step of the loop, or leaves it alone.   *)
LEMMA LoopStep ==
  ASSUME RestartNext, ~RestartProgram
  PROVE  [Next]_vars
<1>1. CASE Save
  BY <1>1 DEF Save
<1>2. CASE Handle \/ Commit
  BY <1>2 DEF Handle, Commit, Next, Listener
<1>3. CASE Elsewhere
  BY <1>3 DEF Elsewhere, Next, World, Listener
<1>4. ASSUME NEW scanned \in SUBSET Symbols, NEW aged \in SUBSET Symbols,
             Evening(scanned, aged)
      PROVE  Next
  BY <1>4 DEF Evening, Next
<1>5. ASSUME NEW o \in orders, NEW q \in 1..o.left, Unnoticed(o, q) PROVE Next
  BY <1>5 DEF Unnoticed, Next, World
<1> QED
  BY <1>1, <1>2, <1>3, <1>4, <1>5 DEF RestartNext

LEMMA RestartType == StoreInv /\ RestartProgram => TypeInv'
<1> SUFFICES ASSUME StoreInv, RestartProgram PROVE TypeInv'
  OBVIOUS
<1> USE DEF StoreInv
<1>1. pos' \in [Symbols -> Position] /\ nm' \in [Symbols -> BOOLEAN]
  BY DEF RestartProgram, StoreTypeOK
<1>2. /\ orders' \subseteq WorkingOrder /\ hold' \in [Keys -> [Dirs -> Nat]]
      /\ day' \in {"open", "closed", "switched"}
  BY DEF RestartProgram, TypeInv, TypeOK
<1>3. /\ trades' \in Seq(Trade) /\ errs' \in [Keys -> Nat]
      /\ rules' \in [Keys -> SUBSET Rule] /\ listed' \subseteq Keys
  BY DEF RestartProgram
<1>4. /\ afford' \in [Symbols -> HandSizes]
      /\ pc' \in {"idle", "pass", "mark"} /\ todo' \subseteq Keys
      /\ dirty' \in BOOLEAN /\ cleaner' \in BOOLEAN
      /\ lst' \in [step : {"clear", "add"}, msg : Trade] \cup {Idle}
  BY DEF RestartProgram
<1>5. TypeOK'
  BY <1>1, <1>2, <1>3, <1>4 DEF TypeOK
<1>6. SwitchWellFormed'
  BY DEF SavedWellFormed, SwitchWellFormed, RestartProgram
<1> QED
  BY <1>5, <1>6 DEF TypeInv

LEMMA TypeKept == StoreInv /\ RestartNext => TypeInv'
BY RestartType, LoopStep, TypeStep DEF StoreInv

(* What the database holds: it gets what the portfolio is, or it stays, or *)
(* it gets the contracts that were found.                                  *)
LEMMA StoredGood ==
  ASSUME TypeInv', Stored, saving' \in BOOLEAN, lost' \subseteq Symbols
  PROVE  StoreTypeOK' /\ SavedWellFormed' /\ SwitchIsSaved'
BY DEF Stored, TypeInv, TypeOK, SwitchWellFormed, StoreTypeOK, SavedWellFormed,
       SwitchIsSaved

LEMMA StoreUnchanged ==
  ASSUME StoreInv, saved' = saved, unsaved' \subseteq Symbols,
         saving' \in BOOLEAN, lost' \subseteq Symbols
  PROVE  StoreTypeOK' /\ SavedWellFormed'
BY DEF StoreInv, StoreTypeOK, SavedWellFormed

LEMMA SavedKept ==
  ASSUME SwitchIsSaved, SwitchKept, saved' = saved, saving' \/ ~saving
  PROVE  SwitchIsSaved'
BY DEF SwitchIsSaved, SwitchKept

(* One step, action by action.                                             *)
LEMMA SaveKeeps ==
  ASSUME StoreInv, TypeInv', Save
  PROVE  StoreInv'
<1>1. /\ saving' \in BOOLEAN /\ lost' \subseteq Symbols
  BY DEF Save, StoreInv, StoreTypeOK
<1>2. StoreTypeOK' /\ SavedWellFormed' /\ SwitchIsSaved'
  BY <1>1, StoredGood DEF Save
<1>3. SavingHandles' /\ NightIsQuiet'
  BY DEF Save, StoreInv, SavingHandles, NightIsQuiet, vars, worldVars,
         executorVars, listenerVars
<1> QED
  BY <1>2, <1>3 DEF StoreInv

LEMMA HandleKeeps ==
  ASSUME StoreInv, TypeInv', Handle
  PROVE  StoreInv'
<1>a. trades \in Seq(Trade) /\ trades # <<>>
  BY DEF StoreInv, TypeInv, TypeOK, Handle, OnTrade
<1>b. Head(trades) \in Trade
  BY <1>a
<1>1. /\ Head(trades).key.sym \in Symbols
      /\ saving' = Switching(Head(trades).key.sym)
  BY <1>b DEF Handle, Trade, Keys
<1>2. StoreTypeOK' /\ SavedWellFormed'
  <2>1. saving' \in BOOLEAN
    BY <1>1 DEF Switching
  <2>2. unsaved' \subseteq Symbols
    BY <1>1 DEF Handle, StoreInv, StoreTypeOK
  <2> QED
    BY <2>1, <2>2, StoreUnchanged DEF Handle, StoreInv, StoreTypeOK
<1>3. SavingHandles' /\ NightIsQuiet'
  BY <1>a DEF Handle, OnTrade, StoreInv, SavingHandles, NightIsQuiet
<1>4. ~saving
  BY DEF StoreInv, SavingHandles, Handle, OnTrade
<1>5. SwitchIsSaved'
  <2>1. CASE saving'
    BY <2>1 DEF SwitchIsSaved
  <2>2. CASE ~saving'
    <3>1. SwitchKept
      BY <1>1, <2>2, ActiveKeeps DEF StoreInv, Handle
    <3> QED
      BY <1>4, <3>1, SavedKept DEF StoreInv, Handle
  <2> QED
    BY <2>1, <2>2
<1> QED
  BY <1>2, <1>3, <1>5 DEF StoreInv

LEMMA CommitKeeps ==
  ASSUME StoreInv, TypeInv', Commit
  PROVE  StoreInv'
<1>1. StoreTypeOK' /\ SavedWellFormed' /\ SwitchIsSaved'
  <2>1. saving' = FALSE /\ lost' \subseteq Symbols
    BY DEF Commit, StoreInv, StoreTypeOK
  <2>2. CASE saving
    BY <2>1, <2>2, StoredGood DEF Commit, CommitStores
  <2>3. CASE ~saving
    <3>1. SwitchKept
      BY AddRulesKeeps DEF StoreInv, Commit
    <3>2. saved' = saved /\ unsaved' = unsaved
      BY <2>3 DEF Commit, CommitStores, NotStored
    <3>3. StoreTypeOK' /\ SavedWellFormed'
      BY <2>1, <3>2, StoreUnchanged DEF StoreInv, StoreTypeOK
    <3> QED
      BY <2>3, <3>1, <3>2, <3>3, SavedKept DEF StoreInv
  <2> QED
    BY <2>2, <2>3
<1>2. SavingHandles' /\ NightIsQuiet'
  BY DEF Commit, AddRules, StoreInv, SavingHandles, NightIsQuiet, worldVars
<1> QED
  BY <1>1, <1>2 DEF StoreInv

LEMMA RestartKeeps ==
  ASSUME StoreInv, TypeInv', RestartProgram
  PROVE  StoreInv'
<1>1. /\ saved' = saved /\ saving' = FALSE /\ unsaved' = {}
      /\ lost' \subseteq Symbols
  BY DEF RestartProgram, StoreInv, StoreTypeOK
<1>2. StoreTypeOK' /\ SavedWellFormed'
  BY <1>1, StoreUnchanged
<1>3. SwitchIsSaved'
  BY <1>1 DEF RestartProgram, SwitchIsSaved
<1>4. SavingHandles' /\ NightIsQuiet'
  BY <1>1 DEF RestartProgram, StoreInv, SavingHandles, NightIsQuiet, Idle
<1> QED
  BY <1>2, <1>3, <1>4 DEF StoreInv

LEMMA EveningKeeps ==
  ASSUME StoreInv, TypeInv', NEW scanned \in SUBSET Symbols,
         NEW aged \in SUBSET Symbols, Evening(scanned, aged)
  PROVE  StoreInv'
<1> DEFINE flat == {s \in Symbols : (nm[s] \/ s \in scanned) /\ pos[s].dir = Blank}
<1>1. SavingHandles' /\ NightIsQuiet'
  BY DEF Evening, MainSwitcherRun, StoreInv, SavingHandles, NightIsQuiet,
         listenerVars, executorVars
<1>2. ~saving /\ saving' = saving /\ lost' = lost
  BY DEF Evening, MainSwitcherRun, StoreInv, SavingHandles, NightIsQuiet
<1>3. CASE pos' = pos
  <2>1. saved' = [saved EXCEPT !.nm = nm'] /\ unsaved' = unsaved
    BY <1>3 DEF Evening, StoredEvening, ContractsStored
  <2>2. /\ saved.pos \in [Symbols -> Position]
        /\ saved' = [pos |-> saved.pos, nm |-> nm']
    BY <2>1 DEF StoreInv, StoreTypeOK
  <2>3. StoreTypeOK'
    BY <1>2, <2>1, <2>2 DEF StoreInv, StoreTypeOK, TypeInv, TypeOK
  <2>4. SwitchIsSaved'
    BY <1>2, <1>3, <2>2 DEF StoreInv, SwitchIsSaved
  <2>5. ASSUME NEW s \in Symbols
        PROVE  /\ saved'.nm[s] => saved'.pos[s].gen < MaxGen
               /\ saved'.pos[s].status # Active =>
                    saved'.nm[s] /\ saved'.pos[s].dir # Blank
    <3>1. /\ saved.pos[s].gen = pos[s].gen
          /\ saved.pos[s].status = pos[s].status
      BY <1>2 DEF StoreInv, SwitchIsSaved
    <3>2. saved'.nm[s] => saved'.pos[s].gen < MaxGen
      BY <1>3, <2>2, <3>1 DEF TypeInv, SwitchWellFormed
    <3>3. saved'.pos[s].status # Active => nm'[s]
      BY <1>3, <2>2, <3>1 DEF TypeInv, SwitchWellFormed
    <3>4. saved'.pos[s].status # Active => saved'.pos[s].dir # Blank
      BY <2>2 DEF StoreInv, SavedWellFormed
    <3> QED
      BY <2>2, <3>2, <3>3, <3>4
  <2> QED
    BY <1>1, <2>3, <2>4, <2>5 DEF StoreInv, SavedWellFormed
<1>4. CASE pos' # pos
  <2>1. Stored /\ saving' \in BOOLEAN /\ lost' \subseteq Symbols
    BY <1>2, <1>4 DEF Evening, StoredEvening, StoreInv, StoreTypeOK
  <2> QED
    BY <1>1, <2>1, StoredGood DEF StoreInv
<1> QED
  BY <1>3, <1>4

(* Steps of the loop that are not the listener's keep the night quiet.     *)
LEMMA ElsewhereNight ==
  ASSUME StoreInv, Elsewhere
  PROVE  SavingHandles' /\ NightIsQuiet'
<1> USE DEF StoreInv, SavingHandles, NightIsQuiet
<1>0. saving' = saving
  BY DEF Elsewhere, storeVars
<1>1. CASE Executor
  <2> USE DEF executorVars, listenerVars, worldVars, portfolioVars, mapVars
  <2>1. CASE StartPass
    BY <1>0, <2>1 DEF StartPass
  <2>2. CASE PassFails \/ EndPass \/ EndMark
    BY <1>0, <2>2 DEF PassFails, EndPass, EndMark
  <2>3. ASSUME NEW k \in Keys, Visit(k)
        PROVE  SavingHandles' /\ NightIsQuiet'
    BY <1>0, <2>3 DEF Visit
  <2>4. ASSUME NEW k \in Keys, NEW r \in rules[k],
               MarkTriggered(k, r) \/ MarkTime(k, r)
        PROVE  SavingHandles' /\ NightIsQuiet'
    BY <1>0, <2>4 DEF MarkTriggered, MarkTime
  <2> QED
    BY <1>1, <2>1, <2>2, <2>3, <2>4
       DEF Executor, VisitEmpty, VisitQuiet, VisitOld, VisitFire
<1>2. CASE DropTrade
  BY <1>0, <1>2 DEF DropTrade, listenerVars, executorVars
<1>8. CASE DayEnd
  BY <1>0, <1>8 DEF DayEnd, Quiet, listenerVars, executorVars
<1>9. CASE ClearContractRule
  <2>1. lst \in [step : {"clear", "add"}, msg : Trade]
    BY <1>9 DEF TypeInv, TypeOK, ClearContractRule, Idle
  <2>2. lst'.step = "add"
    BY <1>9, <2>1 DEF ClearContractRule
  <2> QED
    BY <1>0, <1>9, <2>2 DEF ClearContractRule, worldVars
<1>3. ASSUME NEW k \in Keys, OnCommandFailed(k) \/ ClearOutstandingCommands(k)
      PROVE  SavingHandles' /\ NightIsQuiet'
  BY <1>0, <1>3 DEF OnCommandFailed, ClearOutstandingCommands, listenerVars,
                    executorVars, worldVars
<1>4. ASSUME NEW s \in Symbols, Age(s) PROVE SavingHandles' /\ NightIsQuiet'
  BY <1>0, <1>4 DEF Age, listenerVars, executorVars, worldVars
<1>5. ASSUME NEW o \in orders, NEW q \in 1..o.left, Fill(o, q)
      PROVE  SavingHandles' /\ NightIsQuiet'
  BY <1>0, <1>5 DEF Fill, listenerVars, executorVars
<1>6. ASSUME NEW o \in orders, NEW n \in {1, 2}, Vanish(o) \/ Reject(o, n)
      PROVE  SavingHandles' /\ NightIsQuiet'
  BY <1>0, <1>6 DEF Vanish, Reject, listenerVars, executorVars
<1>7. ASSUME NEW o \in orders, Vanish(o)
      PROVE  SavingHandles' /\ NightIsQuiet'
  BY <1>0, <1>7 DEF Vanish, listenerVars, executorVars
<1> QED
  BY <1>1, <1>2, <1>3, <1>4, <1>5, <1>6, <1>7, <1>8, <1>9 DEF Elsewhere

LEMMA ElsewhereKeepsStore ==
  ASSUME StoreInv, TypeInv', Elsewhere
  PROVE  StoreInv'
<1>1. saved' = saved /\ saving' = saving /\ unsaved' = unsaved /\ lost' = lost
  BY DEF Elsewhere, storeVars
<1>2. StoreTypeOK' /\ SavedWellFormed'
  BY <1>1, StoreUnchanged DEF StoreInv, StoreTypeOK
<1>3. SwitchIsSaved'
  BY <1>1, ElsewhereKeeps, SavedKept DEF StoreInv
<1> QED
  BY <1>2, <1>3, ElsewhereNight DEF StoreInv

LEMMA UnnoticedKeeps ==
  ASSUME StoreInv, TypeInv', NEW o \in orders, NEW q, Unnoticed(o, q)
  PROVE  StoreInv'
<1>1. /\ saved' = saved /\ saving' = saving /\ unsaved' = unsaved
      /\ lost' = lost \cup {o.key.sym}
  BY DEF Unnoticed
<1>2. o.key.sym \in Symbols
  <2>1. o \in WorkingOrder
    BY DEF StoreInv, TypeInv, TypeOK
  <2>2. o.key \in Keys
    BY <2>1 DEF WorkingOrder
  <2> QED
    BY <2>2 DEF Keys
<1>3. StoreTypeOK' /\ SavedWellFormed'
  BY <1>1, <1>2, StoreUnchanged DEF StoreInv, StoreTypeOK
<1>4. SwitchIsSaved'
  BY <1>1, SamePositions, SavedKept DEF StoreInv, Unnoticed, FillUnseen, portfolioVars
<1>5. SavingHandles' /\ NightIsQuiet'
  BY <1>1 DEF StoreInv, SavingHandles, NightIsQuiet, Unnoticed, FillUnseen,
              listenerVars, executorVars
<1> QED
  BY <1>3, <1>4, <1>5 DEF StoreInv

LEMMA StoreStep == StoreInv /\ [RestartNext]_allVars => StoreInv'
<1> SUFFICES ASSUME StoreInv, [RestartNext]_allVars PROVE StoreInv'
  OBVIOUS
<1>1. CASE RestartNext
  <2>1. TypeInv'
    BY <1>1, TypeKept
  <2> QED
    BY <1>1, <2>1, SaveKeeps, HandleKeeps, CommitKeeps, RestartKeeps,
       EveningKeeps, ElsewhereKeepsStore, UnnoticedKeeps DEF RestartNext
<1>2. CASE UNCHANGED allVars
  <2>1. UNCHANGED vars
    BY <1>2 DEF allVars
  <2>2. TypeInv'
    BY <2>1, TypeStep DEF StoreInv
  <2>3. UNCHANGED <<pos, nm, day, orders, trades, lst, pc>> /\ UNCHANGED storeVars
    BY <1>2 DEF allVars, vars, portfolioVars, worldVars, listenerVars, executorVars
  <2> QED
    BY <2>2, <2>3 DEF StoreInv, StoreTypeOK, SavedWellFormed, SwitchIsSaved,
                      SavingHandles, NightIsQuiet, storeVars
<1> QED
  BY <1>1, <1>2

(* The portfolio in the database is a portfolio.                           *)
THEOREM StoreTypeCorrect == RestartSpec => []StoreTypeOK
<1>1. StoreInv => StoreTypeOK
  BY DEF StoreInv
<1> QED
  BY <1>1, StoreInit, StoreStep, PTL DEF RestartSpec

(* A main switch is never lost: outside the handling of one of its reports *)
(* (onCommand's transaction) the database has the status and the contract  *)
(* of every position and the contract that is next, for any commodities,   *)
(* any environment and any number of restarts.                             *)
THEOREM SwitchNeverLost == RestartSpec => []SwitchIsSaved
<1>1. StoreInv => SwitchIsSaved
  BY DEF StoreInv
<1> QED
  BY <1>1, StoreInit, StoreStep, PTL DEF RestartSpec

-----------------------------------------------------------------------------
(* The book in the database.  A commodity of which no trade is unsaved and *)
(* no switch in the hands of onCommand has a saved position that says what *)
(* the portfolio says; it need not be the same position, the hands per     *)
(* unit of an empty one come and go.                                       *)
SavedBook(s) ==
  s \notin unsaved /\ ~(saving /\ Handling(s)) =>
    Shape(saved.pos[s]) /\ BookOf(saved.pos[s]) = BookOf(pos[s])
RestartInv ==
  /\ StoreInv /\ RuleMarks /\ RoundInv
  /\ \A s \in Symbols \ lost : CommodityInv(s) /\ SavedBook(s)

LEMMA RestartInvInit == RestartInit => RestartInv
<1> SUFFICES ASSUME RestartInit PROVE RestartInv
  OBVIOUS
<1>1. StoreInv /\ RuleMarks /\ RoundInv
  BY StoreInit, MarksInit, RoundInit DEF RestartInit
<1>2. \A s \in Symbols : CommodityInv(s)
  BY CommodityInit DEF RestartInit
<1>3. \A s \in Symbols : SavedBook(s)
  BY <1>2 DEF SavedBook, RestartInit, CommodityInv, CommandInv
<1> QED
  BY <1>1, <1>2, <1>3 DEF RestartInv

(* What a restart leaves of a commodity of which nothing was under way.    *)
LEMMA RestartCommodity ==
  ASSUME RestartInv, RestartProgram, NEW s \in Symbols \ lost'
  PROVE  CommodityInv(s)' /\ SavedBook(s)'
<1>1. /\ s \notin lost /\ s \notin unsaved /\ ~(saving /\ Handling(s))
      /\ AtWork(s) = {} /\ Unread(s) = {}
  BY DEF RestartProgram
<1>2. Shape(saved.pos[s]) /\ BookOf(saved.pos[s]) = Owned(s)
  BY <1>1 DEF RestartInv, SavedBook, CommodityInv, CommandInv, Agreed
<1>3. /\ pos' = saved.pos /\ saved' = saved /\ orders' = orders /\ hold' = hold
      /\ trades' = <<>> /\ lst'.step = "idle" /\ listed' = {} /\ pc' = "idle"
      /\ \A k \in Keys : rules'[k] = {} /\ errs'[k] = 0
  BY DEF RestartProgram, Idle
<1>4. /\ AtWork(s)' = {} /\ Unread(s)' = {} /\ Failed(s)' = {}
      /\ ~Clearing(s)' /\ ~Adding(s)' /\ Owned(s)' = Owned(s)
  BY <1>1, <1>3 DEF AtWork, Unread, Failed, Clearing, Adding, Owned
<1>5. CommandInv(s)'
  BY <1>2, <1>3, <1>4
  DEF CommandInv, OneToken, Watched, Busy, Asked, Reported, Agreed
<1>6. ListInv(s)' /\ Alone(s)'
  BY <1>3, <1>4 DEF ListInv, Lists, Marks, Stays, Alone
<1>7. SavedBook(s)'
  BY <1>2, <1>3 DEF SavedBook
<1> QED
  BY <1>5, <1>6, <1>7 DEF CommodityInv

(* The steps of the loop, of which the lost trade spares the others.       *)
LEMMA LoopCommodity ==
  ASSUME Calm, RestartInv, RestartNext, ~RestartProgram, NEW s \in Symbols \ lost'
  PROVE  CommodityInv(s)'
<1>1. TypeInv'
  BY TypeKept DEF RestartInv
<1>2. s \in Symbols /\ s \notin lost
  BY DEF RestartNext, Save, Handle, Commit, Elsewhere, storeVars, Evening, Unnoticed
<1>3. Before(s)
  BY <1>1, <1>2 DEF Before, RestartInv, StoreInv, TypeInv
<1>4. CASE Save
  BY <1>2, <1>3, <1>4, StutterInv DEF Save
<1>5. CASE Handle \/ Commit
  BY <1>2, <1>3, <1>5, ListenerInv DEF Handle, Commit, Listener
<1>6. CASE Elsewhere
  <2>1. CASE Executor
    BY <1>2, <1>3, <2>1, ExecutorInv
  <2>2. CASE DropTrade \/ ClearContractRule \/ DayEnd
    BY <1>2, <1>3, <2>2, DropTradeInv, ClearContractRuleInv, DayEndInv
  <2>3. ASSUME NEW k \in Keys, OnCommandFailed(k) \/ ClearOutstandingCommands(k)
        PROVE  CommodityInv(s)'
    BY <1>2, <1>3, <2>3, OnCommandFailedInv, ClearOutstandingCommandsInv
  <2>4. ASSUME NEW a \in Symbols, Age(a) PROVE CommodityInv(s)'
    BY <1>2, <1>3, <2>4, AgeInv
  <2>5. ASSUME NEW o \in orders, Vanish(o) PROVE CommodityInv(s)'
    BY <1>2, <1>3, <2>5, VanishInv
  <2>6. ASSUME NEW o \in orders, NEW n \in {1, 2}, Reject(o, n) PROVE CommodityInv(s)'
    BY <1>2, <1>3, <2>6, RejectInv
  <2>7. ASSUME NEW o \in orders, NEW q \in 1..o.left, Fill(o, q) PROVE CommodityInv(s)'
    BY <1>2, <1>3, <2>7, FillInv
  <2> QED
    BY <1>6, <2>1, <2>2, <2>3, <2>4, <2>5, <2>6, <2>7 DEF Elsewhere
<1>7. ASSUME NEW scanned \in SUBSET Symbols, NEW aged \in SUBSET Symbols,
             Evening(scanned, aged)
      PROVE  CommodityInv(s)'
  BY <1>2, <1>3, <1>7, MainSwitcherRunInv DEF Evening
<1>8. ASSUME NEW o \in orders, NEW q \in 1..o.left, Unnoticed(o, q)
      PROVE  CommodityInv(s)'
  BY <1>2, <1>3, <1>8, FillUnseenInv DEF Unnoticed
<1> QED
  BY <1>4, <1>5, <1>6, <1>7, <1>8 DEF RestartNext

(* What is saved is in shape, what is not saved does not change the book.  *)
LEMMA BookStored ==
  ASSUME NEW s \in Symbols, Stored, CommodityInv(s)'
  PROVE  SavedBook(s)'
BY DEF Stored, SavedBook, CommodityInv, CommandInv

LEMMA BookNotStored ==
  ASSUME NEW s \in Symbols, SavedBook(s), saved'.pos = saved.pos,
         BookOf(pos'[s]) = BookOf(pos[s]), s \notin unsaved' => s \notin unsaved,
         ~(saving' /\ Handling(s)') => ~(saving /\ Handling(s))
  PROVE  SavedBook(s)'
BY DEF SavedBook

LEMMA ElsewhereBooks ==
  ASSUME TypeOK, Elsewhere, NEW s \in Symbols
  PROVE  BookOf(pos'[s]) = BookOf(pos[s]) /\ Handling(s)' = Handling(s)
<1>1. CASE Executor
  <2>1. lst' = lst
    BY <1>1
    DEF Executor, StartPass, PassFails, EndPass, EndMark, Visit, VisitEmpty, VisitFire,
        VisitQuiet, VisitOld, MarkTriggered, MarkTime, listenerVars
  <2> QED
    BY <1>1, <2>1, ExecutorBooks DEF Handling
<1>2. CASE ClearContractRule
  <2>1. lst \in [step : {"clear", "add"}, msg : Trade] /\ lst.step # "idle"
    BY <1>2 DEF TypeOK, ClearContractRule, Idle
  <2>2. lst'.step # "idle" /\ lst'.msg = lst.msg
    BY <1>2, <2>1 DEF ClearContractRule
  <2> QED
    BY <1>2, <2>1, <2>2 DEF ClearContractRule, portfolioVars, Handling
<1>3. CASE UNCHANGED <<pos, lst>>
  BY <1>3 DEF Handling
<1> QED
  BY <1>1, <1>2, <1>3
  DEF Elsewhere, DropTrade, DayEnd, OnCommandFailed, ClearOutstandingCommands, Age,
      Vanish, Reject, Fill, portfolioVars, listenerVars

(* The loop's steps again, with what they do to the database.              *)
LEMMA LoopSavedBook ==
  ASSUME Calm, RestartInv, RestartNext, ~RestartProgram, NEW s \in Symbols \ lost',
         CommodityInv(s)'
  PROVE  SavedBook(s)'
<1>1. s \in Symbols /\ s \notin lost
  BY DEF RestartNext, Save, Handle, Commit, Elsewhere, storeVars, Evening, Unnoticed
<1>2. TypeOK /\ SavedBook(s) /\ (saving => lst.step # "idle")
  BY <1>1 DEF RestartInv, StoreInv, TypeInv, SavingHandles
<1>3. CASE Save
  BY <1>1, <1>3, BookStored DEF Save
<1>4. CASE Handle
  <2>1. PICK z \in Symbols : z = Head(trades).key.sym
    BY <1>2, <1>4, HeadType DEF Handle, OnTrade
  <2>2. /\ ~saving /\ saved' = saved
        /\ saving' = Switching(z)
        /\ unsaved' = IF Switching(z) THEN unsaved ELSE unsaved \cup {z}
        /\ lst'.step # "idle" /\ lst'.msg.key.sym = z
    BY <1>2, <1>4, <2>1 DEF Handle, OnTrade
  <2>3. CASE s = z
    BY <2>2, <2>3 DEF SavedBook, Handling
  <2>4. CASE s # z
    <3>1. pos'[s] = pos[s]
      BY <1>2, <1>4, <2>1, <2>4 DEF Handle, OnTrade, TypeOK
    <3> QED
      BY <1>1, <1>2, <2>2, <2>4, <3>1, BookNotStored
  <2> QED
    BY <2>3, <2>4
<1>5. CASE Commit
  <2>1. CASE saving
    BY <1>1, <1>5, <2>1, BookStored DEF Commit, CommitStores
  <2>2. CASE ~saving
    BY <1>1, <1>2, <1>5, <2>2, AddRulesBooks, BookNotStored
    DEF Commit, CommitStores, NotStored
  <2> QED
    BY <2>1, <2>2
<1>6. CASE Elsewhere
  <2>1. UNCHANGED <<saved, saving, unsaved>>
    BY <1>6 DEF Elsewhere, storeVars
  <2> QED
    BY <1>1, <1>2, <1>6, <2>1, ElsewhereBooks, BookNotStored
<1>7. ASSUME NEW scanned \in SUBSET Symbols, NEW aged \in SUBSET Symbols,
             Evening(scanned, aged)
      PROVE  SavedBook(s)'
  <2>1. CASE pos' = pos
    <3>1. saved'.pos = saved.pos /\ unsaved' = unsaved
      BY <1>7, <2>1
      DEF Evening, StoredEvening, ContractsStored, RestartInv, StoreInv, StoreTypeOK
    <3>2. lst' = lst /\ saving' = saving
      BY <1>7 DEF Evening, MainSwitcherRun, listenerVars
    <3> QED
      BY <1>1, <1>2, <2>1, <3>1, <3>2, BookNotStored DEF Handling
  <2>2. CASE pos' # pos
    BY <1>1, <1>7, <2>2, BookStored DEF Evening, StoredEvening
  <2> QED
    BY <2>1, <2>2
<1>8. ASSUME NEW o \in orders, NEW q \in 1..o.left, Unnoticed(o, q)
      PROVE  SavedBook(s)'
  <2>1. UNCHANGED <<saved, saving, unsaved, pos, lst>>
    BY <1>8 DEF Unnoticed, FillUnseen, portfolioVars, listenerVars
  <2> QED
    BY <1>1, <1>2, <2>1, BookNotStored DEF Handling
<1> QED
  BY <1>3, <1>4, <1>5, <1>6, <1>7, <1>8 DEF RestartNext

LEMMA RestartRound ==
  ASSUME RestartInv, RestartProgram
  PROVE  RuleMarks' /\ RoundInv'
<1>1. \A k \in Keys : rules'[k] = {}
  BY DEF RestartProgram
<1>2. RuleMarks'
  BY <1>1 DEF RuleMarks
<1>3. RoundInv'
  BY DEF RestartProgram, RestartInv, RoundInv, Quiet, Idle
<1> QED
  BY <1>2, <1>3

LEMMA RestartInvStep == Calm /\ RestartInv /\ [RestartNext]_allVars => RestartInv'
<1> SUFFICES ASSUME Calm, RestartInv, [RestartNext]_allVars PROVE RestartInv'
  OBVIOUS
<1>1. StoreInv'
  BY StoreStep DEF RestartInv
<1>2. CASE RestartProgram
  BY <1>1, <1>2, RestartRound, RestartCommodity DEF RestartInv
<1>3. CASE RestartNext /\ ~RestartProgram
  <2>1. RuleMarks' /\ RoundInv'
    BY <1>3, LoopStep, MarksStep, RoundNext DEF RestartInv, StoreInv
  <2>2. \A s \in Symbols \ lost' : CommodityInv(s)' /\ SavedBook(s)'
    BY <1>3, LoopCommodity, LoopSavedBook
  <2> QED
    BY <1>1, <2>1, <2>2 DEF RestartInv
<1>4. CASE UNCHANGED allVars
  <2>1. UNCHANGED vars /\ UNCHANGED storeVars
    BY <1>4 DEF allVars
  <2>2. RuleMarks' /\ RoundInv'
    BY <2>1, MarksStep, RoundNext DEF RestartInv, StoreInv
  <2>3. ASSUME NEW s \in Symbols \ lost' PROVE CommodityInv(s)' /\ SavedBook(s)'
    <3>1. s \in Symbols /\ CommodityInv(s) /\ SavedBook(s)
      BY <2>1 DEF RestartInv, storeVars
    <3>2. Before(s)
      BY <1>1, <3>1 DEF Before, RestartInv, StoreInv, TypeInv
    <3>3. SavedBook(s)'
      BY <2>1, <3>1
      DEF SavedBook, Handling, storeVars, vars, portfolioVars, listenerVars
    <3> QED
      BY <2>1, <3>1, <3>2, <3>3, StutterInv
  <2> QED
    BY <1>1, <2>2, <2>3 DEF RestartInv
<1> QED
  BY <1>2, <1>3, <1>4

(* The book survives restarts: for any commodities and any number of       *)
(* restarts, lost reports and main switches, a commodity of which nothing  *)
(* was under way or unsaved when the program ended, and of which the topic *)
(* lost nothing, agrees with the account whenever it is settled.           *)
THEOREM LedgerSurvives ==
  ASSUME Calm
  PROVE  RestartSpec => []LedgerAfterRestart
<1>1. RestartInv => LedgerAfterRestart
  BY DEF RestartInv, CommodityInv, CommandInv, Agreed, LedgerAfterRestart, Settled, Booked
<1>2. RestartInv /\ [RestartNext]_allVars => RestartInv'
  BY RestartInvStep
<1> QED
  BY <1>1, <1>2, RestartInvInit, PTL DEF RestartSpec
=============================================================================
