---------------------------- MODULE MdFeed_proofs ----------------------------
(***************************************************************************)
(* Proofs about MdFeed, for any number of commodities, any length of the   *)
(* queue and every environment: the types, and that the list of the last   *)
(* SUB command is subscribed whenever the front is logged in to and no     *)
(* command is being handled.                                               *)
(***************************************************************************)
EXTENDS MdFeed, FiniteSetTheorems, TLAPS

(* Only a contract that has a successor has a next main contract.          *)
NextExists == \A s \in Symbols : nm[s] => main[s] < MaxGen

(* lastContractArray and lastCount fit together but for the moment between *)
(* their assignments, in which onMessage holds the same list.              *)
LastIsKept ==
  /\ cmd.step # "idle" => last.array = cmd.list
  /\ cmd.step # "array" => last.count = Cardinality(last.array)

FeedInv == TypeOK /\ NextExists /\ LastIsKept /\ LastListWatched

-----------------------------------------------------------------------------
LEMMA ContractsFinite == IsFiniteSet(Contracts)
<1> DEFINE Pairs == Symbols \X (0..MaxGen)
           f == [p \in Pairs |-> [sym |-> p[1], gen |-> p[2]]]
<1>1. IsFiniteSet(Pairs)
  <2>1. 0 \in Int /\ MaxGen \in Int
    BY FeedAssumption
  <2>2. IsFiniteSet(0..MaxGen)
    BY <2>1, FS_Interval
  <2> QED
    BY <2>2, FeedAssumption, FS_Product
<1>2. f \in Surjection(Pairs, Contracts)
  <2>1. f \in [Pairs -> Contracts]
    BY DEF Contracts
  <2>2. ASSUME NEW c \in Contracts PROVE \E p \in Pairs : f[p] = c
    <3>1. <<c.sym, c.gen>> \in Pairs /\ c = [sym |-> c.sym, gen |-> c.gen]
      BY DEF Contracts
    <3> QED
      BY <3>1
  <2> QED
    BY <2>1, <2>2 DEF Surjection
<1> HIDE DEF f
<1> QED
  BY <1>1, <1>2, FS_Surjection

LEMMA ListCount ==
  ASSUME NEW l \in SUBSET Contracts
  PROVE  Cardinality(l) \in Nat
BY ContractsFinite, FS_Subset, FS_CardinalityType

LEMMA ListsType ==
  ASSUME TypeOK, NextExists
  PROVE  Lists \in Seq(SUBSET Contracts)
<1>1. Active \in SUBSET Contracts
  BY DEF TypeOK, Active, Contracts
<1>2. NextMain \in SUBSET Contracts
  BY FeedAssumption DEF TypeOK, NextExists, NextMain, Contracts
<1> QED
  BY <1>1, <1>2 DEF Lists

(* The front's list after a login is part of the array.                    *)
LEMMA AgainPart ==
  ASSUME TypeOK, NEW list \in Again
  PROVE  /\ list \subseteq last.array
         /\ last.count = Cardinality(last.array) => list = last.array
<1>1. Cardinality(last.array) \in Nat
  BY ListCount DEF TypeOK
<1>2. CASE last.count < Cardinality(last.array)
  <2>1. list \in kSubset(last.count, last.array)
    BY <1>2 DEF Again
  <2>2. last.count # Cardinality(last.array)
    BY <1>1, <1>2
  <2> QED
    BY <2>1, <2>2 DEF kSubset
<1>3. CASE ~(last.count < Cardinality(last.array))
  BY <1>3 DEF Again
<1> QED
  BY <1>2, <1>3

-----------------------------------------------------------------------------
LEMMA FeedInit == Init => FeedInv
<1> SUFFICES ASSUME Init PROVE FeedInv
  OBVIOUS
<1>1. Cardinality({}) = 0
  BY FS_EmptySet
<1>a. NoneLast \in [array : SUBSET Contracts, count : Nat]
  BY DEF NoneLast
<1>b. NotReading \in [step : {"idle", "array", "count"}, list : SUBSET Contracts]
  BY DEF NotReading
<1>c. main \in [Symbols -> 0..MaxGen] /\ nm \in [Symbols -> BOOLEAN]
  BY FeedAssumption DEF Init
<1>d. batch \in Seq(SUBSET Contracts) /\ queue \in Seq(SUBSET Contracts)
  BY DEF Init
<1>2. TypeOK
  <2>1. cmd = NotReading /\ last = NoneLast
    BY DEF Init
  <2>2. ready \in BOOLEAN /\ conn \in {"down", "front", "in", "refused"}
        /\ subs \subseteq Contracts
    BY DEF Init
  <2> QED
    BY <1>a, <1>b, <1>c, <1>d, <2>1, <2>2 DEF TypeOK
<1>3. NextExists /\ LastListWatched
  BY FeedAssumption DEF Init, NextExists, LastListWatched
<1>4. LastIsKept
  BY <1>1 DEF Init, LastIsKept, NotReading, NoneLast
<1> QED
  BY <1>2, <1>3, <1>4 DEF FeedInv

(* The end of the gateway process.                                         *)
LEMMA EndKeeps ==
  ASSUME FeedInv, GatewayEnds, UNCHANGED javaVars
  PROVE  FeedInv'
<1>0. Cardinality({}) = 0
  BY FS_EmptySet
<1>1. queue' \in Seq(SUBSET Contracts)
  <2>1. queue \in Seq(SUBSET Contracts) /\ cmd.list \in SUBSET Contracts
    BY DEF FeedInv, TypeOK
  <2>2. <<cmd.list>> \o queue \in Seq(SUBSET Contracts)
    BY <2>1
  <2>3. queue' = queue \/ queue' = <<cmd.list>> \o queue
    BY DEF GatewayEnds
  <2> QED
    BY <2>1, <2>2, <2>3
<1>2. TypeOK'
  BY <1>1 DEF FeedInv, TypeOK, GatewayEnds, javaVars, NotReading, NoneLast
<1>3. NextExists' /\ LastListWatched'
  BY DEF FeedInv, NextExists, LastListWatched, GatewayEnds, javaVars
<1>4. LastIsKept'
  BY <1>0 DEF LastIsKept, GatewayEnds, NotReading, NoneLast
<1> QED
  BY <1>2, <1>3, <1>4 DEF FeedInv

(* The strategy's steps do not touch the gateway.                          *)
LEMMA GatewayUntouched ==
  ASSUME FeedInv, UNCHANGED <<ready, cmd, last, conn, subs>>,
         main' \in [Symbols -> 0..MaxGen], nm' \in [Symbols -> BOOLEAN],
         NextExists',
         batch' \in Seq(SUBSET Contracts), queue' \in Seq(SUBSET Contracts)
  PROVE  FeedInv'
BY DEF FeedInv, TypeOK, LastIsKept, LastListWatched

LEMMA StrategyKeeps ==
  ASSUME FeedInv,
         \/ \E scanned, switched \in SUBSET Symbols :
              RefreshContracts(scanned, switched)
         \/ StartRound \/ SendList \/ SendFails
  PROVE  FeedInv'
<1>0. /\ main \in [Symbols -> 0..MaxGen] /\ nm \in [Symbols -> BOOLEAN]
      /\ batch \in Seq(SUBSET Contracts) /\ queue \in Seq(SUBSET Contracts)
      /\ NextExists
  BY DEF FeedInv, TypeOK
<1>1. ASSUME NEW scanned \in SUBSET Symbols, NEW switched \in SUBSET Symbols,
             RefreshContracts(scanned, switched)
      PROVE  FeedInv'
  <2>1. nm' = [s \in Symbols |-> (nm[s] \/ s \in scanned) /\ s \notin switched]
    BY <1>1 DEF RefreshContracts, NowNext
  <2>2. main' = [s \in Symbols |-> IF s \in switched THEN main[s] + 1 ELSE main[s]]
    BY <1>1 DEF RefreshContracts
  <2>3. ASSUME NEW s \in Symbols, nm[s] \/ s \in scanned PROVE main[s] < MaxGen
    BY <1>0, <1>1, <2>3 DEF RefreshContracts, NextExists
  <2>4. main' \in [Symbols -> 0..MaxGen]
    BY <1>0, <1>1, <2>2, <2>3, FeedAssumption DEF RefreshContracts
  <2>5. nm' \in [Symbols -> BOOLEAN]
    BY <2>1
  <2>6. NextExists'
    BY <2>1, <2>2, <2>3 DEF NextExists
  <2> QED
    BY <1>0, <1>1, <2>4, <2>5, <2>6, GatewayUntouched DEF RefreshContracts
<1>2. CASE StartRound \/ SendFails
  <2>1. NextExists'
    BY <1>0, <1>2 DEF StartRound, SendFails, NextExists
  <2>2. batch' \in Seq(SUBSET Contracts)
    BY <1>2, ListsType DEF StartRound, SendFails, FeedInv
  <2> QED
    BY <1>0, <1>2, <2>1, <2>2, GatewayUntouched DEF StartRound, SendFails
<1>3. CASE SendList
  <2>1. NextExists'
    BY <1>0, <1>3 DEF SendList, NextExists
  <2>2. Head(batch) \in SUBSET Contracts /\ Tail(batch) \in Seq(SUBSET Contracts)
    BY <1>0, <1>3 DEF SendList
  <2>3. queue' \in Seq(SUBSET Contracts) /\ batch' \in Seq(SUBSET Contracts)
    BY <1>0, <1>3, <2>2 DEF SendList
  <2> QED
    BY <1>0, <1>3, <2>1, <2>3, GatewayUntouched DEF SendList
<1> QED
  BY <1>1, <1>2, <1>3

(* MdCommander::onMessage.                                                 *)
LEMMA CommanderKeeps ==
  ASSUME FeedInv, HolderReady \/ StoreArray \/ StoreCount \/ Subscribe
  PROVE  FeedInv'
<1> USE DEF FeedInv
<1>0. NextExists'
  BY DEF HolderReady, StoreArray, StoreCount, Subscribe, javaVars, NextExists
<1>1. CASE HolderReady
  BY <1>0, <1>1 DEF HolderReady, javaVars, TypeOK, LastIsKept, LastListWatched
<1>2. CASE StoreArray
  <2>1. queue \in Seq(SUBSET Contracts) /\ queue # <<>>
    BY <1>2 DEF StoreArray, TypeOK
  <2>2. Head(queue) \in SUBSET Contracts /\ Tail(queue) \in Seq(SUBSET Contracts)
    BY <2>1
  <2>3. last \in [array : SUBSET Contracts, count : Nat]
    BY DEF TypeOK
  <2>4. /\ last'.array = Head(queue)
        /\ last' \in [array : SUBSET Contracts, count : Nat]
        /\ cmd' = [step |-> "array", list |-> Head(queue)]
    BY <1>2, <2>2, <2>3 DEF StoreArray
  <2>5. TypeOK'
    BY <1>2, <2>2, <2>4 DEF StoreArray, TypeOK, javaVars
  <2> QED
    BY <1>0, <2>4, <2>5 DEF LastIsKept, LastListWatched
<1>3. CASE StoreCount
  <2>1. /\ last \in [array : SUBSET Contracts, count : Nat]
        /\ cmd \in [step : {"idle", "array", "count"}, list : SUBSET Contracts]
        /\ cmd.step = "array" /\ last.array = cmd.list
    BY <1>3 DEF TypeOK, StoreCount, LastIsKept
  <2>2. Cardinality(cmd.list) \in Nat
    BY <2>1, ListCount
  <2>3. /\ last' \in [array : SUBSET Contracts, count : Nat]
        /\ last'.array = cmd.list /\ last'.count = Cardinality(cmd.list)
    BY <1>3, <2>1, <2>2 DEF StoreCount
  <2>4. /\ cmd' \in [step : {"idle", "array", "count"}, list : SUBSET Contracts]
        /\ cmd'.step = "count" /\ cmd'.list = cmd.list
    BY <1>3, <2>1 DEF StoreCount
  <2>5. TypeOK'
    BY <1>3, <2>3, <2>4 DEF StoreCount, TypeOK, javaVars
  <2> QED
    BY <1>0, <2>3, <2>4, <2>5 DEF LastIsKept, LastListWatched
<1>4. CASE Subscribe
  <2>1. /\ cmd \in [step : {"idle", "array", "count"}, list : SUBSET Contracts]
        /\ subs \subseteq Contracts
        /\ last.array = cmd.list /\ last.count = Cardinality(last.array)
    BY <1>4 DEF Subscribe, TypeOK, LastIsKept
  <2>2. /\ cmd' = [step |-> "idle", list |-> {}]
        /\ last' = last /\ conn' = conn
        /\ subs' = IF conn = "in" THEN subs \cup cmd.list ELSE subs
    BY <1>4 DEF Subscribe, NotReading
  <2>3. TypeOK'
    BY <1>4, <2>1, <2>2 DEF Subscribe, TypeOK, javaVars
  <2> QED
    BY <1>0, <2>1, <2>2, <2>3 DEF LastIsKept, LastListWatched
<1> QED
  BY <1>1, <1>2, <1>3, <1>4

(* MyMdSpi and the front.                                                  *)
LEMMA FrontKeeps ==
  ASSUME FeedInv,
         \/ OnFrontConnected \/ OnRspUserLogin \/ LoginRefused
         \/ OnFrontDisconnected
  PROVE  FeedInv'
<1> USE DEF FeedInv
<1>0. NextExists'
  BY DEF OnFrontConnected, OnRspUserLogin, LoginRefused, OnFrontDisconnected,
         javaVars, NextExists
<1>1. CASE OnFrontConnected \/ LoginRefused \/ OnFrontDisconnected
  BY <1>0, <1>1 DEF OnFrontConnected, LoginRefused, OnFrontDisconnected,
                    javaVars, TypeOK, LastIsKept, LastListWatched
<1>2. CASE OnRspUserLogin
  <2>1. PICK list \in Again : subs' = list
    BY <1>2 DEF OnRspUserLogin
  <2>2. /\ list \subseteq last.array
        /\ last.count = Cardinality(last.array) => list = last.array
    BY AgainPart
  <2>3. last.array \subseteq Contracts
    BY DEF TypeOK
  <2>4. TypeOK'
    BY <1>2, <2>1, <2>2, <2>3 DEF OnRspUserLogin, TypeOK, javaVars
  <2>5. LastIsKept'
    BY <1>2 DEF OnRspUserLogin, LastIsKept
  <2>6. LastListWatched'
    BY <1>2, <2>1, <2>2 DEF OnRspUserLogin, LastIsKept, LastListWatched
  <2> QED
    BY <1>0, <2>4, <2>5, <2>6
<1> QED
  BY <1>1, <1>2

LEMMA FeedStep == FeedInv /\ [Next]_vars => FeedInv'
<1> SUFFICES ASSUME FeedInv, [Next]_vars PROVE FeedInv'
  OBVIOUS
<1>1. CASE UNCHANGED vars
  BY <1>1 DEF FeedInv, TypeOK, NextExists, LastIsKept, LastListWatched, vars,
              javaVars
<1>2. CASE GatewayRestarts \/ StoreTooEarly \/ LoginOverruns
  BY <1>2, EndKeeps DEF GatewayRestarts, StoreTooEarly, LoginOverruns
<1> QED
  BY <1>1, <1>2, StrategyKeeps, CommanderKeeps, FrontKeeps DEF Next

(* Contract lists stay lists of contracts, whatever is lost or restarted.  *)
THEOREM FeedTypeCorrect == Spec => []TypeOK
<1>1. FeedInv => TypeOK
  BY DEF FeedInv
<1> QED
  BY <1>1, FeedInit, FeedStep, PTL DEF Spec

(* The list of the last SUB command is subscribed after every login, also  *)
(* when the SPI thread runs between the assignments of onMessage.          *)
THEOREM LastListAlwaysWatched == Spec => []LastListWatched
<1>1. FeedInv => LastListWatched
  BY DEF FeedInv
<1> QED
  BY <1>1, FeedInit, FeedStep, PTL DEF Spec
=============================================================================
