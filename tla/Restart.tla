------------------------------ MODULE Restart ------------------------------
(***************************************************************************)
(* The trading loop with the database behind it: when the portfolio is     *)
(* saved, and what is left of it when the program ends and is started      *)
(* again.                                                                  *)
(*                                                                         *)
(*   FuturePersistance   Save, every three minutes                         *)
(*   trade listener      Handle and Commit: onCommand is one transaction,  *)
(*                       which saves the steps of a main switch            *)
(*   MainSwitcher        Evening: each switch is saved with its contract   *)
(*   the process         RestartProgram                                    *)
(*                                                                         *)
(* The other steps of RuleLoop touch neither the database nor the history  *)
(* variables.                                                              *)
(***************************************************************************)
EXTENDS RuleLoop

VARIABLES
  saved,    \* TORTOISE_POSITION and the status of the contracts
  saving,   \* onCommand's transaction holds the portfolio
  unsaved,  \* history: commodities with a trade booked since the last save
  lost      \* history: commodities of which a restart or the topic lost a trade

storeVars == <<saved, saving, unsaved, lost>>
allVars == <<vars, storeVars>>

StoreTypeOK ==
  /\ saved \in [pos : [Symbols -> Position], nm : [Symbols -> BOOLEAN]]
  /\ saving \in BOOLEAN
  /\ unsaved \subseteq Symbols
  /\ lost \subseteq Symbols

RestartInit ==
  /\ Init
  /\ saved = [pos |-> pos, nm |-> nm]
  /\ saving = FALSE
  /\ unsaved = {}
  /\ lost = {}

-----------------------------------------------------------------------------
(* portfolioHolder.saveCurrentStatus and contractDAO.mainSwitch: what is   *)
(* written when the transaction of the handler is committed.               *)
OldContracts ==  \* mutant: the positions without the contracts
  /\ saved' = [saved EXCEPT !.pos = pos']
  /\ unsaved' = {}
Stored ==
  /\ saved' = [pos |-> pos', nm |-> nm']
  /\ unsaved' = {}
NotStored == UNCHANGED <<saved, unsaved>>

(* The portfolio is in the session of one transaction at a time.           *)
Save ==
  /\ ~saving
  /\ UNCHANGED <<vars, saving, lost>>
  /\ Stored

Switching(s) == pos[s].status # Active

Handle ==
  /\ OnTrade
  /\ LET s == Head(trades).key.sym
     IN /\ saving' = Switching(s)
        /\ unsaved' = IF Switching(s) THEN unsaved ELSE unsaved \cup {s}
  /\ UNCHANGED <<saved, lost>>

NeverStores == NotStored  \* mutant: updatePosition does not save
CommitStores == IF saving THEN Stored ELSE NotStored

Commit ==
  /\ AddRules
  /\ CommitStores
  /\ saving' = FALSE
  /\ UNCHANGED lost

(* A NEXT_MAIN contract that is found is saved at once; the portfolio with *)
(* every flat position switched and every position marked EXPIRE.          *)
ContractsStored ==
  /\ saved' = [saved EXCEPT !.nm = nm']
  /\ UNCHANGED unsaved
StoredEvening == IF pos' = pos THEN ContractsStored ELSE Stored
Evening(scanned, aged) ==
  /\ MainSwitcherRun(scanned, aged)
  /\ StoredEvening
  /\ UNCHANGED <<saving, lost>>

(* The program ends and starts again: portfolio and contracts come from    *)
(* the database, an open transaction is rolled back, the rule map is empty *)
(* and what was unread in the topics is gone.  When it is away at 15:20    *)
(* the switcher does not run that day.                                     *)
RestartProgram ==
  /\ pos' = saved.pos
  /\ nm' = saved.nm
  /\ afford' \in [Symbols -> HandSizes]
  /\ listed' = {} /\ rules' = [k \in Keys |-> {}]
  /\ pc' = "idle" /\ todo' = {} /\ dirty' = FALSE
  /\ lst' = Idle /\ cleaner' = TRUE
  /\ trades' = <<>> /\ errs' = [k \in Keys |-> 0]
  /\ day' \in IF day = "closed" THEN {"closed", "switched"} ELSE {day}
  /\ saving' = FALSE
  /\ unsaved' = {}
  /\ lost' = lost \cup unsaved
       \cup {s \in Symbols : AtWork(s) # {} \/ Unread(s) # {}
                             \/ (saving /\ Handling(s))}
  /\ UNCHANGED <<saved, orders, hold>>

Unnoticed(o, q) ==
  /\ FillUnseen(o, q)
  /\ lost' = lost \cup {o.key.sym}
  /\ UNCHANGED <<saved, saving, unsaved>>

Elsewhere ==
  /\ \/ Executor
     \/ DropTrade
     \/ ClearContractRule
     \/ DayEnd
     \/ \E k \in Keys : OnCommandFailed(k) \/ ClearOutstandingCommands(k)
     \/ \E s \in Symbols : Age(s)
     \/ \E o \in orders :
          \/ Vanish(o)
          \/ \E n \in {1, 2} : Reject(o, n)
          \/ \E q \in 1..o.left : Fill(o, q)
  /\ UNCHANGED storeVars

RestartNext ==
  \/ Save
  \/ Handle
  \/ Commit
  \/ RestartProgram
  \/ Elsewhere
  \/ \E scanned, aged \in SUBSET Symbols : Evening(scanned, aged)
  \/ \E o \in orders : \E q \in 1..o.left : Unnoticed(o, q)

RestartSpec == RestartInit /\ [][RestartNext]_allVars

-----------------------------------------------------------------------------
(* Properties.                                                             *)

(* A main switch is never lost: the database has the status and the        *)
(* contract of every position, and the contract that is next, whatever was *)
(* saved last, as long as no report of the switch is being handled.        *)
SwitchIsSaved ==
  ~saving => \A s \in Symbols :
    /\ saved.nm[s] = nm[s]
    /\ saved.pos[s].gen = pos[s].gen
    /\ saved.pos[s].status = pos[s].status

(* The book survives a restart: a commodity of which nothing was under way *)
(* and no trade unsaved when the program ended agrees with the account for *)
(* ever after, through main switches and further restarts.                 *)
LedgerAfterRestart ==
  \A s \in Symbols \ lost : Settled(s) => Booked(s) = Owned(s)

=============================================================================
