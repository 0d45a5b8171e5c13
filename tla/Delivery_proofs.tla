--------------------------- MODULE Delivery_proofs ---------------------------
(***************************************************************************)
(* The client keeps the promise of AtLeastOnce for any number of queues,   *)
(* commands and broken connections: the step-by-step refinement, the       *)
(* invariant HeldOnce that it rests on, and the order of the commands.     *)
(***************************************************************************)
EXTENDS Delivery, FiniteSetTheorems, TLAPS

-----------------------------------------------------------------------------
(* The buffers as sequences.                                               *)

LEMMA AppendElements ==
  ASSUME NEW S, NEW s \in Seq(S), NEW x \in S
  PROVE  /\ Append(s, x) \in Seq(S)
         /\ Elements(Append(s, x)) = Elements(s) \cup {x}
         /\ Injective(s) /\ x \notin Elements(s) => Injective(Append(s, x))
<1>1. /\ Append(s, x) \in Seq(S)
      /\ DOMAIN Append(s, x) = 1..(Len(s) + 1)
      /\ DOMAIN s = 1..Len(s) /\ Len(s) \in Nat
      /\ \A i \in 1..Len(s) : Append(s, x)[i] = s[i]
      /\ Append(s, x)[Len(s) + 1] = x
  OBVIOUS
<1>2. \A i \in DOMAIN Append(s, x) : i \in DOMAIN s \/ i = Len(s) + 1
  BY <1>1
<1>3. DOMAIN s \subseteq DOMAIN Append(s, x) /\ Len(s) + 1 \in DOMAIN Append(s, x)
  BY <1>1
<1>4. Elements(Append(s, x)) = Elements(s) \cup {x}
  BY <1>1, <1>2, <1>3 DEF Elements
<1>5. ASSUME Injective(s), x \notin Elements(s) PROVE Injective(Append(s, x))
  BY <1>1, <1>2, <1>5 DEF Injective, Elements
<1> QED
  BY <1>1, <1>4, <1>5

LEMMA TailElements ==
  ASSUME NEW S, NEW s \in Seq(S), s # <<>>
  PROVE  /\ Head(s) \in S /\ Head(s) \in Elements(s)
         /\ Tail(s) \in Seq(S)
         /\ Injective(s) => /\ Elements(Tail(s)) = Elements(s) \ {Head(s)}
                            /\ Injective(Tail(s))
<1>1. /\ Head(s) = s[1] /\ 1 \in DOMAIN s /\ Head(s) \in S
      /\ Tail(s) \in Seq(S)
      /\ Len(s) \in Nat /\ DOMAIN s = 1..Len(s)
      /\ DOMAIN Tail(s) = 1..(Len(s) - 1)
      /\ \A i \in 1..(Len(s) - 1) : Tail(s)[i] = s[i + 1]
  OBVIOUS
<1>2. ASSUME Injective(s) PROVE Elements(Tail(s)) = Elements(s) \ {Head(s)}
  <2>1. ASSUME NEW i \in DOMAIN Tail(s)
        PROVE  Tail(s)[i] \in Elements(s) \ {Head(s)}
    BY <1>1, <1>2 DEF Elements, Injective
  <2>2. ASSUME NEW i \in DOMAIN s, s[i] # Head(s)
        PROVE  s[i] \in Elements(Tail(s))
    <3>1. i - 1 \in DOMAIN Tail(s) /\ Tail(s)[i - 1] = s[i]
      BY <1>1, <2>2
    <3> QED
      BY <3>1 DEF Elements
  <2> QED
    BY <2>1, <2>2 DEF Elements
<1>3. ASSUME Injective(s) PROVE Injective(Tail(s))
  BY <1>1, <1>3 DEF Injective
<1>4. Head(s) \in Elements(s)
  BY <1>1 DEF Elements
<1> QED
  BY <1>1, <1>2, <1>3, <1>4

LEMMA ConcatElements ==
  ASSUME NEW S, NEW s \in Seq(S), NEW t \in Seq(S)
  PROVE  /\ s \o t \in Seq(S)
         /\ Elements(s \o t) = Elements(s) \cup Elements(t)
         /\ Injective(s) /\ Injective(t) /\ Elements(s) \cap Elements(t) = {}
              => Injective(s \o t)
<1>1. /\ s \o t \in Seq(S)
      /\ Len(s) \in Nat /\ Len(t) \in Nat
      /\ DOMAIN s = 1..Len(s) /\ DOMAIN t = 1..Len(t)
      /\ DOMAIN (s \o t) = 1..(Len(s) + Len(t))
      /\ \A i \in 1..(Len(s) + Len(t)) :
           (s \o t)[i] = IF i <= Len(s) THEN s[i] ELSE t[i - Len(s)]
  OBVIOUS
<1>2. ASSUME NEW i \in DOMAIN (s \o t)
      PROVE  \/ i \in DOMAIN s /\ (s \o t)[i] = s[i]
             \/ i - Len(s) \in DOMAIN t /\ (s \o t)[i] = t[i - Len(s)]
  BY <1>1
<1>3. ASSUME NEW i \in DOMAIN s
      PROVE  i \in DOMAIN (s \o t) /\ (s \o t)[i] = s[i]
  BY <1>1
<1>4. ASSUME NEW i \in DOMAIN t
      PROVE  i + Len(s) \in DOMAIN (s \o t) /\ (s \o t)[i + Len(s)] = t[i]
  BY <1>1
<1>5. Elements(s \o t) = Elements(s) \cup Elements(t)
  <2>1. Elements(s \o t) \subseteq Elements(s) \cup Elements(t)
    BY <1>2 DEF Elements
  <2>2. Elements(s) \subseteq Elements(s \o t)
    BY <1>3 DEF Elements
  <2>3. Elements(t) \subseteq Elements(s \o t)
    BY <1>4 DEF Elements
  <2> QED
    BY <2>1, <2>2, <2>3
<1>6. ASSUME Injective(s), Injective(t), Elements(s) \cap Elements(t) = {}
      PROVE  Injective(s \o t)
  <2> SUFFICES ASSUME NEW i \in DOMAIN (s \o t), NEW j \in DOMAIN (s \o t),
                      (s \o t)[i] = (s \o t)[j]
               PROVE  i = j
    BY DEF Injective
  <2>1. i \in Int /\ j \in Int /\ Len(s) \in Int
    BY <1>1
  <2>2. CASE i \in DOMAIN s /\ (s \o t)[i] = s[i]
    <3>1. CASE j \in DOMAIN s /\ (s \o t)[j] = s[j]
      BY <1>6, <2>2, <3>1 DEF Injective
    <3>2. CASE j - Len(s) \in DOMAIN t /\ (s \o t)[j] = t[j - Len(s)]
      BY <1>6, <2>2, <3>2 DEF Elements
    <3> QED
      BY <1>2, <3>1, <3>2
  <2>3. CASE i - Len(s) \in DOMAIN t /\ (s \o t)[i] = t[i - Len(s)]
    <3>1. CASE j \in DOMAIN s /\ (s \o t)[j] = s[j]
      BY <1>6, <2>3, <3>1 DEF Elements
    <3>2. CASE j - Len(s) \in DOMAIN t /\ (s \o t)[j] = t[j - Len(s)]
      <4>1. t[i - Len(s)] = t[j - Len(s)]
        BY <2>3, <3>2
      <4>2. i - Len(s) = j - Len(s)
        BY <1>6, <2>3, <3>2, <4>1 DEF Injective
      <4> QED
        BY <2>1, <4>2
    <3> QED
      BY <1>2, <3>1, <3>2
  <2> QED
    BY <1>2, <2>2, <2>3
<1> QED
  BY <1>1, <1>5, <1>6

(* Buffers in the order of the numbers.                                    *)
Precedes(x, y) == x.to = y.to => x.id < y.id
Rising(s) == \A i, j \in DOMAIN s : i < j => Precedes(s[i], s[j])

LEMMA AppendRises ==
  ASSUME NEW S, NEW s \in Seq(S), NEW x \in S, Rising(s),
         \A y \in Elements(s) : Precedes(y, x)
  PROVE  Rising(Append(s, x))
<1>1. /\ DOMAIN Append(s, x) = 1..(Len(s) + 1)
      /\ DOMAIN s = 1..Len(s) /\ Len(s) \in Nat
      /\ \A i \in 1..Len(s) : Append(s, x)[i] = s[i]
      /\ Append(s, x)[Len(s) + 1] = x
  OBVIOUS
<1>2. ASSUME NEW i \in DOMAIN Append(s, x), NEW j \in DOMAIN Append(s, x), i < j
      PROVE  Precedes(Append(s, x)[i], Append(s, x)[j])
  <2>1. i \in DOMAIN s /\ Append(s, x)[i] = s[i]
    BY <1>1, <1>2
  <2>2. CASE j \in DOMAIN s
    BY <1>1, <1>2, <2>1, <2>2 DEF Rising
  <2>3. CASE j = Len(s) + 1
    BY <1>1, <2>1, <2>3 DEF Elements
  <2> QED
    BY <1>1, <2>2, <2>3
<1> QED
  BY <1>2 DEF Rising

LEMMA TailRises ==
  ASSUME NEW S, NEW s \in Seq(S), s # <<>>, Rising(s)
  PROVE  /\ Rising(Tail(s))
         /\ \A y \in Elements(Tail(s)) : Precedes(Head(s), y)
<1>1. /\ Head(s) = s[1] /\ 1 \in DOMAIN s
      /\ Len(s) \in Nat /\ DOMAIN s = 1..Len(s)
      /\ DOMAIN Tail(s) = 1..(Len(s) - 1)
      /\ \A i \in 1..(Len(s) - 1) : Tail(s)[i] = s[i + 1]
  OBVIOUS
<1>2. ASSUME NEW i \in DOMAIN Tail(s)
      PROVE  i \in Int /\ i + 1 \in DOMAIN s /\ Tail(s)[i] = s[i + 1] /\ 1 < i + 1
  BY <1>1
<1>3. Rising(Tail(s))
  <2> SUFFICES ASSUME NEW i \in DOMAIN Tail(s), NEW j \in DOMAIN Tail(s), i < j
               PROVE  Precedes(Tail(s)[i], Tail(s)[j])
    BY DEF Rising
  <2>1. i + 1 < j + 1
    BY <1>2
  <2> QED
    BY <1>2, <2>1 DEF Rising
<1>4. \A i \in DOMAIN Tail(s) : Precedes(Head(s), Tail(s)[i])
  BY <1>1, <1>2 DEF Rising
<1> QED
  BY <1>3, <1>4 DEF Elements

LEMMA ConcatRises ==
  ASSUME NEW S, NEW s \in Seq(S), NEW t \in Seq(S), Rising(s), Rising(t),
         \A x \in Elements(s), y \in Elements(t) : Precedes(x, y)
  PROVE  Rising(s \o t)
<1>1. /\ Len(s) \in Nat /\ Len(t) \in Nat
      /\ DOMAIN s = 1..Len(s) /\ DOMAIN t = 1..Len(t)
      /\ DOMAIN (s \o t) = 1..(Len(s) + Len(t))
      /\ \A i \in 1..(Len(s) + Len(t)) :
           (s \o t)[i] = IF i <= Len(s) THEN s[i] ELSE t[i - Len(s)]
  OBVIOUS
<1> SUFFICES ASSUME NEW i \in DOMAIN (s \o t), NEW j \in DOMAIN (s \o t), i < j
             PROVE  Precedes((s \o t)[i], (s \o t)[j])
  BY DEF Rising
<1>2. CASE j <= Len(s)
  <2>1. i \in DOMAIN s /\ j \in DOMAIN s /\ (s \o t)[i] = s[i] /\ (s \o t)[j] = s[j]
    BY <1>1, <1>2
  <2> QED
    BY <2>1 DEF Rising
<1>3. CASE i <= Len(s) /\ ~(j <= Len(s))
  <2>1. /\ i \in DOMAIN s /\ j - Len(s) \in DOMAIN t
        /\ (s \o t)[i] = s[i] /\ (s \o t)[j] = t[j - Len(s)]
    BY <1>1, <1>3
  <2> QED
    BY <2>1 DEF Elements
<1>4. CASE ~(i <= Len(s)) /\ ~(j <= Len(s))
  <2>1. /\ i - Len(s) \in DOMAIN t /\ j - Len(s) \in DOMAIN t
        /\ (s \o t)[i] = t[i - Len(s)] /\ (s \o t)[j] = t[j - Len(s)]
        /\ i - Len(s) < j - Len(s)
    BY <1>1, <1>4
  <2> QED
    BY <2>1 DEF Rising
<1> QED
  BY <1>1, <1>2, <1>3, <1>4

LEMMA NothingRises == Rising(<<>>) /\ Elements(<<>>) = {}
BY DEF Rising, Elements
-----------------------------------------------------------------------------
(* Types.                                                                  *)

LEMMA Places ==
  /\ \A i \in Steps : Order[i] \in Queues
  /\ Steps = 1..Len(Order) /\ 1 \in Steps
  /\ None \notin Messages
<1>1. Order \in Seq(STRING) /\ Order # <<>>
  BY DeliveryAssumption
<1>2. Steps = 1..Len(Order) /\ Len(Order) \in Nat /\ 1 \in Steps
  BY <1>1 DEF Steps
<1>3. \A i \in Steps : Order[i] \in STRING
  BY <1>1, <1>2
<1>4. Queues \subseteq STRING
  BY <1>3 DEF Queues
<1>5. Messages \subseteq [to : STRING, id : Nat]
  <2> SUFFICES ASSUME NEW m \in Messages PROVE m \in [to : STRING, id : Nat]
    OBVIOUS
  <2>1. m = [to |-> m.to, id |-> m.id] /\ m.to \in Queues /\ m.id \in 1..MaxSent
    BY DEF Messages
  <2>2. m.id \in Nat
    BY <2>1, DeliveryAssumption
  <2> QED
    BY <1>4, <2>1, <2>2
<1> QED
  BY <1>2, <1>5, DeliveryAssumption DEF Queues

LEMMA MainType == TypeOK /\ Main => TypeOK'
<1> SUFFICES ASSUME TypeOK, Main PROVE TypeOK'
  OBVIOUS
<1>0. This \in Queues
  BY Places DEF This, TypeOK
<1> USE DEF TypeOK, consumerVars, executorVars, handVars, brokerVars, mainVars
<1>1. CASE CreateConsumer
  BY <1>0, <1>1 DEF CreateConsumer
<1>2. ASSUME NextTurn PROVE main' \in {"listening", "create"} /\ turn' \in Steps
  BY <1>2, Places DEF NextTurn
<1>3. CASE CreateFails
  BY <1>2, <1>3 DEF CreateFails
<1>4. CASE StartConsumer
  BY <1>4 DEF StartConsumer, Woken
<1>5. CASE \E i \in Steps : StopConsumer(i)
  BY <1>5 DEF StopConsumer
<1>6. CASE StopExecutor
  BY <1>6 DEF StopExecutor
<1>7. CASE Join
  BY <1>7 DEF Join
<1>8. CASE SetListener
  <2>1. unconsumed[This] \in Seq(Messages)
    BY <1>0
  <2>2. queue' \in Seq(Messages)
    BY <1>8, <2>1 DEF SetListener, InFront
  <2>3. unconsumed' \in [Queues -> Seq(Messages)]
    <3>1. <<>> \in Seq(Messages)
      OBVIOUS
    <3> QED
      BY <1>8, <3>1 DEF SetListener, Emptied
  <2> QED
    BY <1>8, <2>2, <2>3 DEF SetListener
<1>9. CASE StartSession
  BY <1>2, <1>9 DEF StartSession, WokenForRest
<1> QED
  BY <1>1, <1>3, <1>4, <1>5, <1>6, <1>7, <1>8, <1>9 DEF Main

LEMMA DispatchType ==
  ASSUME TypeOK, NEW m \in store, NEW kept \in Seq(Messages),
         DispatchTo(m, kept),
         queue' \in Seq(Messages), task' = task, log' = log,
         UNCHANGED <<mainVars, running, listener, qRunning, link, sent, breaks>>
  PROVE  TypeOK'
<1> USE DEF TypeOK, handVars, mainVars
<1>0. m \in Messages /\ m.to \in Queues /\ Append(kept, m) \in Seq(Messages)
  <2>1. m \in Messages
    OBVIOUS
  <2> QED
    BY <2>1, AppendElements DEF Messages
<1>1. CASE IsDuplicate(m)
  <2>1. /\ store' \subseteq sent /\ flight' \subseteq store'
        /\ dead' \subseteq sent \ store'
    <3>1. CASE link
      BY <1>1, <3>1 DEF DispatchTo, Poison, Removed
    <3>2. CASE ~link
      BY <1>1, <3>2 DEF DispatchTo, Poison
    <3> QED
      BY <3>1, <3>2
  <2>2. unconsumed' \in [Queues -> Seq(Messages)]
    BY <1>0, <1>1 DEF DispatchTo
  <2>3. audit' = audit /\ hand' = hand /\ done' = done
    BY <1>1 DEF DispatchTo, Poison
  <2> QED
    BY <2>1, <2>2, <2>3
<1>2. CASE ~IsDuplicate(m)
  <2>1. unconsumed' \in [Queues -> Seq(Messages)]
    BY <1>0, <1>2 DEF DispatchTo
  <2>2. /\ audit' \subseteq Messages /\ hand' \in Messages \cup {None}
        /\ done' \in BOOLEAN
        /\ store' = store /\ flight' = flight /\ dead' = dead
    BY <1>0, <1>2 DEF DispatchTo
  <2> QED
    BY <2>1, <2>2
<1> QED
  BY <1>1, <1>2
-----------------------------------------------------------------------------
(* The invariant.  Commands are numbered as they are sent.                 *)
Numbered == IsFiniteSet(sent) /\ \A m \in sent : m.id <= Cardinality(sent)

(* A process that ended holds nothing.                                     *)
NothingAtTheEnd ==
  main = "ended" =>
    /\ ~link /\ task = "none" /\ hand = None /\ audit = {}
    /\ queue = <<>> /\ \A q \in Queues : unconsumed[q] = <<>>
    /\ log = <<>>

IInv == TypeOK /\ Numbered /\ HeldOnce /\ NothingAtTheEnd

(* What the listeners have had goes before what the process holds, this    *)
(* before what the broker has still to dispatch, and what a consumer keeps *)
(* before what is in the session's queue.                                  *)
Passed == Elements(log) \cup ({hand} \ {None})
OrderInv ==
  /\ Rising(log) /\ Rising(queue) /\ \A q \in Queues : Rising(unconsumed[q])
  /\ hand # None /\ ~done => \A x \in Elements(log) : Precedes(x, hand)
  /\ \A x \in Passed, y \in Messages : Held(y) => Precedes(x, y)
  /\ \A q \in Queues : \A x \in Elements(unconsumed[q]), y \in Elements(queue) :
       Precedes(x, y)
  /\ link => \A x \in Messages, y \in store \ flight :
       Held(x) \/ x \in Passed => Precedes(x, y)

(* A message leaves the buffer it was in and is dispatched.                *)
LEMMA DispatchHeld ==
  ASSUME TypeOK, TypeOK', HeldOnce, hand = None,
         NEW m \in Messages, Held(m),
         NEW kept \in Seq(Messages), Injective(kept), m \notin Elements(kept),
         Elements(kept) \subseteq Elements(unconsumed[m.to]),
         Injective(queue'), m \notin Elements(queue'),
         Elements(queue') \subseteq Elements(queue),
         DispatchTo(m, kept), UNCHANGED <<listener, link, sent, log>>
  PROVE  HeldOnce'
<1>1. /\ m.to \in Queues /\ m \in store /\ m \notin Elements(log)
      /\ None \notin Messages
  BY Places DEF HeldOnce, Messages
<1>2. \A q \in Queues \ {m.to} : unconsumed'[q] = unconsumed[q]
  BY <1>1 DEF DispatchTo, TypeOK
<1>3. \A q \in Queues \ {m.to} : m \notin Elements(unconsumed[q])
  BY DEF HeldOnce
<1>4. \A x \in Messages : x.to \in Queues
  BY DEF Messages
<1>5. \A q \in Queues : Elements(unconsumed[q]) \subseteq Messages
  BY DEF TypeOK, Elements
<1>6. ASSUME unconsumed'[m.to] = kept
      PROVE  /\ \A q \in Queues :
                  /\ Injective(unconsumed'[q])
                  /\ \A x \in Elements(unconsumed'[q]) :
                       x.to = q /\ x \notin Elements(queue')
             /\ \A x \in Messages : Held(x)' => Held(x) /\ x # m
  BY <1>1, <1>2, <1>3, <1>4, <1>6 DEF HeldOnce, Held
<1>7. CASE IsDuplicate(m)
  <2>1. unconsumed'[m.to] = kept
    BY <1>1, <1>7 DEF DispatchTo, TypeOK
  <2>2. hand' = hand /\ done' = done /\ audit' = audit
    BY <1>7 DEF DispatchTo, Poison, handVars
  <2>3. CASE link
    <3>1. store' = store \ {m} /\ flight' = flight \ {m}
      BY <1>7, <2>3 DEF DispatchTo, Poison, Removed
    <3> QED
      BY <1>1, <1>6, <2>1, <2>2, <2>3, <3>1 DEF HeldOnce, Held
  <2>4. CASE ~link
    <3>1. store' = store /\ flight' = flight
      BY <1>7, <2>4 DEF DispatchTo, Poison
    <3> QED
      BY <1>1, <1>6, <2>1, <2>2, <2>4, <3>1 DEF HeldOnce, Held
  <2> QED
    BY <2>3, <2>4
<1>8. CASE ~IsDuplicate(m) /\ listener[m.to] /\ running[m.to]
  <2>1. unconsumed'[m.to] = kept
    BY <1>1, <1>8 DEF DispatchTo, TypeOK
  <2>2. /\ hand' = m /\ done' = FALSE /\ audit' = audit \cup {m}
        /\ store' = store /\ flight' = flight
    BY <1>8 DEF DispatchTo
  <2> QED
    BY <1>1, <1>6, <1>8, <2>1, <2>2 DEF HeldOnce, TypeOK
<1>9. CASE ~IsDuplicate(m) /\ ~(listener[m.to] /\ running[m.to])
  <2>1. unconsumed'[m.to] = Append(kept, m)
    BY <1>1, <1>9 DEF DispatchTo, TypeOK
  <2>2. /\ hand' = hand /\ done' = done /\ audit' \in {audit, audit \cup {m}}
        /\ store' = store /\ flight' = flight
    BY <1>9 DEF DispatchTo, handVars
  <2>3. /\ Elements(unconsumed'[m.to]) = Elements(kept) \cup {m}
        /\ Injective(unconsumed'[m.to])
    BY <2>1, AppendElements
  <2>4. \A q \in Queues :
          /\ Injective(unconsumed'[q])
          /\ \A x \in Elements(unconsumed'[q]) :
               x.to = q /\ x \notin Elements(queue')
    BY <1>1, <1>2, <2>3 DEF HeldOnce
  <2>5. \A x \in Messages : Held(x)' => Held(x)
    BY <1>1, <1>2, <1>4, <2>3 DEF Held
  <2> QED
    BY <1>1, <2>2, <2>4, <2>5 DEF HeldOnce, TypeOK
<1> QED
  BY <1>7, <1>8, <1>9

LEMMA HeldUnchanged ==
  ASSUME HeldOnce,
         UNCHANGED <<queue, unconsumed, hand, done, audit, listener, log,
                     link, sent, store, flight>>
  PROVE  HeldOnce'
BY DEF HeldOnce, Held

LEMMA MainHeld == TypeOK /\ HeldOnce /\ Main => HeldOnce'
<1> SUFFICES ASSUME TypeOK, HeldOnce, Main PROVE HeldOnce'
  OBVIOUS
<1> USE DEF consumerVars, executorVars, handVars, brokerVars
<1>1. CASE SetListener
  <2>0. This \in Queues /\ queue \in Seq(Messages) /\ unconsumed[This] \in Seq(Messages)
    BY Places DEF This, TypeOK
  <2>1. /\ queue' = unconsumed[This] \o queue
        /\ unconsumed' = [unconsumed EXCEPT ![This] = <<>>]
        /\ listener' = [listener EXCEPT ![This] = TRUE]
        /\ UNCHANGED <<hand, done, audit, log, link, sent, store, flight>>
    BY <1>1 DEF SetListener, InFront, Emptied
  <2>2. Elements(unconsumed[This]) \cap Elements(queue) = {}
    BY <2>0 DEF HeldOnce
  <2>3. /\ Elements(queue') = Elements(unconsumed[This]) \cup Elements(queue)
        /\ Injective(queue')
    BY <2>0, <2>1, <2>2, ConcatElements DEF HeldOnce
  <2>4. \A q \in Queues :
          unconsumed'[q] = IF q = This THEN <<>> ELSE unconsumed[q]
    BY <2>0, <2>1 DEF TypeOK
  <2>5. Elements(<<>>) = {} /\ Injective(<<>>)
    BY DEF Elements, Injective
  <2>6. \A q \in Queues :
          /\ Injective(unconsumed'[q])
          /\ \A x \in Elements(unconsumed'[q]) :
               x.to = q /\ x \notin Elements(queue')
    <3> SUFFICES ASSUME NEW q \in Queues
                 PROVE  /\ Injective(unconsumed'[q])
                        /\ \A x \in Elements(unconsumed'[q]) :
                             x.to = q /\ x \notin Elements(queue')
      OBVIOUS
    <3>1. CASE q = This
      BY <2>4, <2>5, <3>1
    <3>2. CASE q # This
      <4>1. unconsumed'[q] = unconsumed[q]
        BY <2>4, <3>2
      <4>2. \A x \in Elements(unconsumed[q]) : x \notin Elements(unconsumed[This])
        BY <2>0, <3>2 DEF HeldOnce
      <4> QED
        BY <2>3, <4>1, <4>2 DEF HeldOnce
    <3> QED
      BY <3>1, <3>2
  <2>7. \A x \in Messages : Held(x)' => Held(x)
    <3> SUFFICES ASSUME NEW x \in Messages, Held(x)' PROVE Held(x)
      OBVIOUS
    <3>1. x.to \in Queues
      BY DEF Messages
    <3>2. CASE x \in Elements(queue')
      BY <2>0, <2>3, <3>2 DEF Held, HeldOnce
    <3>3. CASE x \in Elements(unconsumed'[x.to])
      BY <2>4, <2>5, <3>1, <3>3 DEF Held
    <3> QED
      BY <3>2, <3>3 DEF Held
  <2>8. \A x \in Messages : listener[x.to] => listener'[x.to]
    BY <2>0, <2>1 DEF TypeOK, Messages
  <2> QED
    BY <2>1, <2>3, <2>6, <2>7, <2>8 DEF HeldOnce
<1>2. CASE Main /\ ~SetListener
  BY <1>2, HeldUnchanged DEF Main, CreateConsumer, CreateFails, StartConsumer,
     StopConsumer, StopExecutor, Join, StartSession
<1> QED
  BY <1>1, <1>2
(* The message that an iteration of the task runner takes, and what is     *)
(* left of the buffers.                                                    *)
Takes(m, kept) ==
  /\ m \in store /\ Held(m) /\ hand = None
  /\ kept \in Seq(Messages) /\ Injective(kept) /\ m \notin Elements(kept)
  /\ Elements(kept) \subseteq Elements(unconsumed[m.to])
  /\ queue' \in Seq(Messages) /\ Injective(queue') /\ m \notin Elements(queue')
  /\ Elements(queue') \subseteq Elements(queue)
  /\ DispatchTo(m, kept)
  /\ UNCHANGED <<mainVars, running, listener, qRunning, task, link, sent,
                 breaks, log>>

(* A message that is taken goes before what is left of the session's queue *)
(* and of its consumer's when it is handed out, and after the latter when  *)
(* it is kept as well.                                                     *)
TakenInOrder(m, kept) ==
  /\ Rising(kept) /\ Rising(queue')
  /\ \A y \in Elements(queue') : Precedes(m, y)
  /\ IF listener[m.to] /\ running[m.to]
     THEN \A y \in Elements(kept) : Precedes(m, y)
     ELSE \A y \in Elements(kept) : Precedes(y, m)

LEMMA IterationTakes ==
  ASSUME TypeOK, HeldOnce, IterateQueue \/ \E i \in Steps : IterateConsumer(i)
  PROVE  \E m, kept : Takes(m, kept) /\ (OrderInv => TakenInOrder(m, kept))
<1>1. CASE IterateQueue
  <2> DEFINE m == Head(queue)
             kept == unconsumed[m.to]
  <2>1. /\ queue # <<>> /\ queue' = Tail(queue) /\ DispatchTo(m, kept)
        /\ hand = None /\ \A q \in Queues : ~Ready(q)
        /\ UNCHANGED <<mainVars, running, listener, qRunning, task, link, sent,
                       breaks, log>>
    BY <1>1 DEF IterateQueue, AtWork
  <2>2. /\ m \in Messages /\ m \in Elements(queue)
        /\ Tail(queue) \in Seq(Messages) /\ Injective(Tail(queue))
        /\ Elements(Tail(queue)) = Elements(queue) \ {m}
    BY <2>1, TailElements DEF TypeOK, HeldOnce
  <2>3. m \in store /\ Held(m)
    BY <2>2 DEF HeldOnce, Held
  <2>4. m.to \in Queues
    BY <2>2 DEF Messages
  <2>5. kept \in Seq(Messages) /\ Injective(kept) /\ m \notin Elements(kept)
    BY <2>2, <2>4 DEF TypeOK, HeldOnce
  <2>6. Takes(m, kept)
    BY <2>1, <2>2, <2>3, <2>5 DEF Takes
  <2>7. ASSUME OrderInv PROVE TakenInOrder(m, kept)
    <3>1. Rising(queue') /\ \A y \in Elements(queue') : Precedes(m, y)
      BY <2>1, <2>7, TailRises DEF OrderInv, TypeOK
    <3>2. Rising(kept) /\ \A y \in Elements(kept) : Precedes(y, m)
      BY <2>2, <2>4, <2>7 DEF OrderInv
    <3>3. listener[m.to] /\ running[m.to] => kept = <<>>
      BY <2>1, <2>4 DEF Ready
    <3> QED
      BY <3>1, <3>2, <3>3, NothingRises DEF TakenInOrder
  <2> QED
    BY <2>6, <2>7
<1>2. ASSUME NEW i \in Steps, IterateConsumer(i)
      PROVE  \E m, kept : Takes(m, kept) /\ (OrderInv => TakenInOrder(m, kept))
  <2> DEFINE q == Order[i]
             m == Head(unconsumed[q])
             kept == Tail(unconsumed[q])
  <2>1. /\ unconsumed[q] # <<>> /\ DispatchTo(m, kept) /\ hand = None
        /\ listener[q] /\ running[q] /\ queue' = queue
        /\ UNCHANGED <<mainVars, running, listener, qRunning, task, link, sent,
                       breaks, log>>
    BY <1>2 DEF IterateConsumer, AtWork, Ready, executorVars
  <2>2. q \in Queues
    BY Places
  <2>3. /\ m \in Messages /\ m \in Elements(unconsumed[q])
        /\ kept \in Seq(Messages) /\ Injective(kept)
        /\ Elements(kept) = Elements(unconsumed[q]) \ {m}
    BY <2>1, <2>2, TailElements DEF TypeOK, HeldOnce
  <2>4. m.to = q /\ m \notin Elements(queue)
    BY <2>2, <2>3 DEF HeldOnce
  <2>5. m \in store /\ Held(m)
    BY <2>3, <2>4 DEF HeldOnce, Held
  <2>6. queue' \in Seq(Messages) /\ Injective(queue')
    BY <2>1 DEF TypeOK, HeldOnce
  <2>7. Takes(m, kept)
    BY <2>1, <2>3, <2>4, <2>5, <2>6 DEF Takes
  <2>8. ASSUME OrderInv PROVE TakenInOrder(m, kept)
    <3>1. Rising(kept) /\ \A y \in Elements(kept) : Precedes(m, y)
      BY <2>1, <2>2, <2>8, TailRises DEF OrderInv, TypeOK
    <3>2. Rising(queue') /\ \A y \in Elements(queue') : Precedes(m, y)
      BY <2>1, <2>2, <2>3, <2>8 DEF OrderInv
    <3> QED
      BY <2>1, <2>4, <3>1, <3>2 DEF TakenInOrder
  <2> QED
    BY <2>7, <2>8
<1> QED
  BY <1>1, <1>2

LEMMA RunnerInv == TypeOK /\ HeldOnce /\ Runner => TypeOK' /\ HeldOnce'
<1> SUFFICES ASSUME TypeOK, HeldOnce, Runner PROVE TypeOK' /\ HeldOnce'
  OBVIOUS
<1> USE DEF mainVars, consumerVars, executorVars, handVars, brokerVars
<1>1. CASE IterateQueue \/ \E i \in Steps : IterateConsumer(i)
  <2>1. PICK m, kept : Takes(m, kept)
    BY <1>1, IterationTakes
  <2>2. m \in Messages
    BY <2>1 DEF TypeOK, Takes
  <2>3. TypeOK'
    BY <2>1, DispatchType DEF Takes
  <2>4. HeldOnce'
    BY <2>1, <2>2, <2>3, DispatchHeld DEF Takes
  <2> QED
    BY <2>3, <2>4
<1>2. CASE Rest
  <2>1. TypeOK'
    BY <1>2 DEF TypeOK, Rest
  <2>2. HeldOnce'
    BY <1>2, HeldUnchanged DEF Rest
  <2> QED
    BY <2>1, <2>2
<1>3. CASE OnMessage
  <2>1. /\ hand \in Messages /\ log' = Append(log, hand) /\ done' = TRUE
        /\ UNCHANGED <<queue, unconsumed, hand, audit, listener, link, sent,
                       store, flight>>
    BY <1>3 DEF OnMessage, TypeOK
  <2>2. log' \in Seq(Messages) /\ Elements(log') = Elements(log) \cup {hand}
    BY <2>1, AppendElements DEF TypeOK
  <2>3. TypeOK'
    BY <1>3, <2>2 DEF OnMessage, TypeOK
  <2>4. HeldOnce'
    BY <2>1, <2>2 DEF HeldOnce, Held
  <2> QED
    BY <2>3, <2>4
<1>4. CASE Acknowledge
  <2>1. /\ hand \in Messages /\ done /\ hand' = None /\ done' = FALSE
        /\ UNCHANGED <<queue, unconsumed, audit, listener, link, sent, log, dead>>
    BY <1>4 DEF Acknowledge, Handled, TypeOK
  <2>2. IF link THEN store' = store \ {hand} /\ flight' = flight \ {hand}
                ELSE store' = store /\ flight' = flight
    BY <1>4 DEF Acknowledge, Removed
  <2>3. TypeOK'
    <3>1. store' \subseteq sent /\ flight' \subseteq store' /\ dead \subseteq sent \ store'
      BY <2>2 DEF TypeOK
    <3> QED
      BY <1>4, <2>1, <3>1 DEF Acknowledge, TypeOK
  <2>4. ~Held(hand)
    BY <2>1 DEF HeldOnce
  <2>5. \A x \in Messages : Held(x)' = Held(x) /\ x # None
    BY <2>1, Places DEF Held
  <2>6. ASSUME NEW x \in Messages
        PROVE  /\ Held(x)' => x \in store' /\ x # hand' /\ x \notin Elements(log')
               /\ x \in store' /\ link' /\ (Held(x)' \/ x \in audit') => x \in flight'
    BY <2>1, <2>2, <2>4, <2>5 DEF HeldOnce
  <2>7. HeldOnce'
    BY <2>1, <2>5, <2>6 DEF HeldOnce
  <2> QED
    BY <2>3, <2>7
<1> QED
  BY <1>1, <1>2, <1>3, <1>4 DEF Runner

(* The broker's and the process's steps.                                   *)
LEMMA OnCommandInv ==
  ASSUME TypeOK, HeldOnce, NEW m \in store, OnCommand(m)
  PROVE  TypeOK' /\ HeldOnce'
<1> USE DEF mainVars, consumerVars, executorVars, handVars
<1>1. /\ m \in Messages /\ m \notin flight /\ link
      /\ flight' = flight \cup {m} /\ queue' = Append(queue, m)
      /\ UNCHANGED <<unconsumed, hand, done, audit, listener, link, sent, store, log>>
  BY DEF OnCommand, TypeOK
<1>2. /\ queue' \in Seq(Messages) /\ Elements(queue') = Elements(queue) \cup {m}
      /\ m \notin Elements(queue) /\ Injective(queue')
  <2>1. ~Held(m)
    BY <1>1 DEF HeldOnce
  <2>2. m \notin Elements(queue)
    BY <2>1 DEF Held
  <2> QED
    BY <1>1, <2>2, AppendElements DEF TypeOK, HeldOnce
<1>3. m \notin audit /\ ~Held(m)
  BY <1>1 DEF HeldOnce
<1>4. m # hand /\ m \notin Elements(log)
  BY <1>1, <1>3 DEF HeldOnce
<1>5. TypeOK'
  BY <1>1, <1>2 DEF OnCommand, TypeOK, Woken
<1>6. \A q \in Queues : m \notin Elements(unconsumed[q])
  BY <1>3 DEF HeldOnce, Held
<1>7. \A x \in Messages : Held(x)' => Held(x) \/ x = m
  BY <1>1, <1>2 DEF Held
<1>8. ASSUME NEW x \in Messages
      PROVE  /\ Held(x)' => x \in store' /\ x # hand' /\ x \notin Elements(log')
             /\ x \in store' /\ link' /\ (Held(x)' \/ x \in audit') => x \in flight'
  BY <1>1, <1>4, <1>7 DEF HeldOnce
<1>9. HeldOnce'
  BY <1>1, <1>2, <1>6, <1>8 DEF HeldOnce
<1> QED
  BY <1>5, <1>9
(* A command that is sent is a new one.                                    *)
LEMMA SendNew ==
  ASSUME TypeOK, Numbered, NEW q \in Queues, Send(q)
  PROVE  \E m \in Messages \ sent :
           /\ m.to = q
           /\ sent' = sent \cup {m} /\ store' = store \cup {m}
           /\ Numbered'
<1> DEFINE m == [to |-> q, id |-> Cardinality(sent) + 1]
<1>1. /\ m.id <= MaxSent /\ sent' = sent \cup {m} /\ store' = store \cup {m}
  BY DEF Send
<1>2. Cardinality(sent) \in Nat
  BY FS_CardinalityType DEF Numbered
<1>3. m \in Messages
  BY <1>1, <1>2, DeliveryAssumption DEF Messages
<1>4. m \notin sent
  BY <1>2 DEF Numbered
<1>5. IsFiniteSet(sent') /\ Cardinality(sent') = Cardinality(sent) + 1
  BY <1>1, <1>4, FS_AddElement DEF Numbered
<1>6. ASSUME NEW x \in sent' PROVE x.id <= Cardinality(sent')
  <2>1. CASE x = m
    BY <1>2, <1>5, <2>1
  <2>2. CASE x \in sent
    <3>1. x.id <= Cardinality(sent) /\ x.id \in Int
      BY <2>2, DeliveryAssumption DEF Numbered, TypeOK, Messages
    <3> QED
      BY <1>2, <1>5, <3>1
  <2> QED
    BY <1>1, <2>1, <2>2
<1>7. Numbered'
  BY <1>5, <1>6 DEF Numbered
<1> QED
  BY <1>1, <1>3, <1>4, <1>7

LEMMA OutsideInv ==
  ASSUME TypeOK, Numbered, HeldOnce, NothingAtTheEnd,
         (\E q \in Queues : Send(q)) \/ Break \/ OnException \/ ProcessStarts
  PROVE  TypeOK' /\ HeldOnce'
<1> USE DEF mainVars, consumerVars, executorVars, handVars, brokerVars
<1>0. /\ \A x \in Messages : x.to \in Queues
      /\ None \notin Messages /\ 1 \in Steps
      /\ Elements(<<>>) = {} /\ Injective(<<>>)
  BY Places DEF Messages, Elements, Injective
<1>1. ASSUME NEW q \in Queues, Send(q) PROVE TypeOK' /\ HeldOnce'
  <2>1. PICK m \in Messages \ sent :
          /\ m.to = q
          /\ sent' = sent \cup {m} /\ store' = store \cup {m}
          /\ Numbered'
    BY <1>1, SendNew
  <2>2. UNCHANGED <<queue, unconsumed, hand, done, audit, listener, link, flight,
                    log, dead>>
    BY <1>1 DEF Send
  <2>3. TypeOK'
    BY <1>1, <2>1 DEF Send, TypeOK
  <2>4. m \notin audit /\ ~Held(m)
    BY <2>1 DEF HeldOnce, TypeOK
  <2>5. \A x \in Messages : Held(x)' = Held(x)
    BY <2>2 DEF Held
  <2>6. HeldOnce'
    BY <2>1, <2>2, <2>4, <2>5 DEF HeldOnce
  <2> QED
    BY <2>3, <2>6
<1>2. CASE Break
  <2>1. breaks' \in 0..MaxBreaks
    BY <1>2, DeliveryAssumption DEF Break, TypeOK
  <2>2. TypeOK'
    BY <1>2, <2>1 DEF Break, TypeOK
  <2>3. \A x \in Messages : Held(x)' = Held(x)
    BY <1>2 DEF Break, Held
  <2>4. HeldOnce'
    BY <1>2, <2>3 DEF Break, HeldOnce
  <2> QED
    BY <2>2, <2>4
<1>3. CASE OnException
  <2>1. /\ queue' = <<>> /\ unconsumed' = [q \in Queues |-> <<>>]
        /\ hand' = None /\ done' = FALSE /\ audit' = {} /\ log' = <<>>
        /\ UNCHANGED <<link, sent, store, flight, dead, breaks>>
    BY <1>3 DEF OnException
  <2>2. <<>> \in Seq(Messages)
    OBVIOUS
  <2>3. TypeOK'
    BY <1>0, <1>3, <2>1, <2>2 DEF OnException, TypeOK
  <2>4. \A x \in Messages : ~Held(x)'
    BY <1>0, <2>1 DEF Held
  <2>5. HeldOnce'
    BY <1>0, <2>1, <2>4 DEF HeldOnce
  <2> QED
    BY <2>3, <2>5
<1>4. CASE ProcessStarts
  <2>1. TypeOK'
    BY <1>4 DEF ProcessStarts, TypeOK
  <2>2. audit = {} /\ \A x \in Messages : ~Held(x)
    BY <1>0, <1>4 DEF ProcessStarts, NothingAtTheEnd, Held
  <2>3. \A x \in Messages : Held(x)' = Held(x)
    BY <1>4 DEF ProcessStarts, Held
  <2>4. HeldOnce'
    BY <1>4, <2>2, <2>3 DEF ProcessStarts, HeldOnce
  <2> QED
    BY <2>1, <2>4
<1> QED
  BY <1>1, <1>2, <1>3, <1>4

LEMMA EndStep ==
  ASSUME TypeOK, HeldOnce, NothingAtTheEnd, Next
  PROVE  NothingAtTheEnd'
<1> USE DEF NothingAtTheEnd, mainVars, consumerVars, executorVars, handVars, brokerVars
<1>1. CASE Main
  BY <1>1 DEF Main, CreateConsumer, CreateFails, StartConsumer, StopConsumer,
     StopExecutor, Join, SetListener, StartSession, NextTurn
<1>2. CASE Runner
  <2>1. main # "ended"
    BY <1>2 DEF Runner, IterateConsumer, IterateQueue, Rest, OnMessage,
       Acknowledge, Handled, AtWork
  <2>2. main' = main
    BY <1>2 DEF Runner, IterateConsumer, IterateQueue, Rest, OnMessage, Acknowledge
  <2> QED
    BY <2>1, <2>2
<1>3. CASE \E m \in store : OnCommand(m)
  BY <1>3 DEF OnCommand
<1>4. CASE \E q \in Queues : Send(q)
  BY <1>4 DEF Send
<1>5. CASE Break
  BY <1>5 DEF Break
<1>6. CASE OnException
  BY <1>6 DEF OnException
<1>7. CASE ProcessStarts
  BY <1>7 DEF ProcessStarts
<1> QED
  BY <1>1, <1>2, <1>3, <1>4, <1>5, <1>6, <1>7 DEF Next

LEMMA InvInit == Init => IInv
<1> SUFFICES ASSUME Init PROVE IInv
  OBVIOUS
<1> USE DEF Init, FreshProcess
<1>1. 1 \in Steps /\ None \notin Messages /\ \A x \in Messages : x.to \in Queues
  BY Places DEF Messages
<1>2. <<>> \in Seq(Messages) /\ 0 \in 0..MaxBreaks
  BY DeliveryAssumption
<1>3. TypeOK
  BY <1>1, <1>2 DEF TypeOK
<1>4. Numbered
  BY FS_EmptySet DEF Numbered
<1>5. Elements(<<>>) = {} /\ Injective(<<>>)
  BY DEF Elements, Injective
<1>6. \A x \in Messages : ~Held(x)
  BY <1>1, <1>5 DEF Held
<1>7. HeldOnce
  BY <1>1, <1>5, <1>6 DEF HeldOnce
<1>8. NothingAtTheEnd
  BY DEF NothingAtTheEnd
<1> QED
  BY <1>3, <1>4, <1>7, <1>8 DEF IInv

LEMMA InvStep == IInv /\ [Next]_vars => IInv'
<1> SUFFICES ASSUME IInv, [Next]_vars PROVE IInv'
  OBVIOUS
<1> USE DEF mainVars, consumerVars, executorVars, handVars, brokerVars
<1>0. TypeOK /\ Numbered /\ HeldOnce /\ NothingAtTheEnd
  BY DEF IInv
<1>1. CASE UNCHANGED vars
  <2>1. TypeOK' /\ Numbered' /\ NothingAtTheEnd'
    BY <1>0, <1>1 DEF vars, TypeOK, Numbered, NothingAtTheEnd
  <2>2. HeldOnce'
    BY <1>0, <1>1, HeldUnchanged DEF vars
  <2> QED
    BY <2>1, <2>2 DEF IInv
<1>2. CASE Next
  <2>1. TypeOK' /\ HeldOnce'
    <3>1. CASE Main
      BY <1>0, <3>1, MainType, MainHeld
    <3>2. CASE Runner
      BY <1>0, <3>2, RunnerInv
    <3>3. CASE \E m \in store : OnCommand(m)
      BY <1>0, <3>3, OnCommandInv
    <3>4. CASE (\E q \in Queues : Send(q)) \/ Break \/ OnException \/ ProcessStarts
      BY <1>0, <3>4, OutsideInv
    <3> QED
      BY <1>2, <3>1, <3>2, <3>3, <3>4 DEF Next
  <2>2. Numbered'
    <3>1. CASE \E q \in Queues : Send(q)
      BY <1>0, <3>1, SendNew
    <3>2. CASE ~\E q \in Queues : Send(q)
      <4>1. sent' = sent
        BY <1>2, <3>2 DEF Next, Main, CreateConsumer, CreateFails, StartConsumer,
           StopConsumer, StopExecutor, Join, SetListener, StartSession, Runner,
           IterateConsumer, IterateQueue, Rest, OnMessage, Acknowledge, OnCommand,
           Break, OnException, ProcessStarts
      <4> QED
        BY <1>0, <4>1 DEF Numbered
    <3> QED
      BY <3>1, <3>2
  <2>3. NothingAtTheEnd'
    BY <1>0, <1>2, EndStep
  <2> QED
    BY <2>1, <2>2, <2>3 DEF IInv
<1> QED
  BY <1>1, <1>2

(* The types and the invariant of the two buffers hold in every state.     *)
THEOREM TypeCorrect == Spec => []TypeOK
<1>1. IInv => TypeOK
  BY DEF IInv
<1> QED
  BY <1>1, InvInit, InvStep, PTL DEF Spec

(* A command held by the process is in one buffer or in the listener's    *)
(* hands, not handled before, and on the way on this connection (dispatch, *)
(* redispatch and the queue of ActiveMQSessionExecutor).                   *)
THEOREM HeldCorrect == Spec => []HeldOnce
<1>1. IInv => HeldOnce
  BY DEF IInv
<1> QED
  BY <1>1, InvInit, InvStep, PTL DEF Spec
-----------------------------------------------------------------------------
(* The order of the commands.                                              *)
LEMMA OrderUnchanged ==
  ASSUME OrderInv,
         UNCHANGED <<queue, unconsumed, hand, done, log, link, store, flight>>
  PROVE  OrderInv'
BY DEF OrderInv, Held, Passed

(* Setting a listener joins what its consumer has kept to the queue.       *)
LEMMA MainOrder == IInv /\ OrderInv /\ Main => OrderInv'
<1> SUFFICES ASSUME IInv, OrderInv, Main PROVE OrderInv'
  OBVIOUS
<1> USE DEF consumerVars, executorVars, handVars, brokerVars
<1>0. TypeOK /\ HeldOnce
  BY DEF IInv
<1>1. CASE SetListener
  <2>0. This \in Queues /\ queue \in Seq(Messages) /\ unconsumed[This] \in Seq(Messages)
    BY <1>0, Places DEF This, TypeOK
  <2>1. /\ queue' = unconsumed[This] \o queue
        /\ unconsumed' = [unconsumed EXCEPT ![This] = <<>>]
        /\ UNCHANGED <<hand, done, log, link, store, flight>>
    BY <1>1 DEF SetListener, InFront, Emptied
  <2>2. Elements(queue') = Elements(unconsumed[This]) \cup Elements(queue)
    BY <2>0, <2>1, ConcatElements
  <2>3. \A q \in Queues :
          unconsumed'[q] = IF q = This THEN <<>> ELSE unconsumed[q]
    BY <1>0, <2>0, <2>1 DEF TypeOK
  <2>4. Rising(queue')
    BY <2>0, <2>1, ConcatRises DEF OrderInv
  <2>5. \A q \in Queues : Rising(unconsumed'[q])
    BY <2>3, NothingRises DEF OrderInv
  <2>6. \A x \in Messages : Held(x)' => Held(x)
    <3> SUFFICES ASSUME NEW x \in Messages, Held(x)' PROVE Held(x)
      OBVIOUS
    <3>1. x.to \in Queues
      BY DEF Messages
    <3>2. CASE x \in Elements(queue')
      BY <1>0, <2>0, <2>2, <3>2 DEF Held, HeldOnce
    <3>3. CASE x \in Elements(unconsumed'[x.to])
      BY <2>3, <3>1, <3>3, NothingRises DEF Held
    <3> QED
      BY <3>2, <3>3 DEF Held
  <2>7. ASSUME NEW q \in Queues, NEW x \in Elements(unconsumed'[q]),
               NEW y \in Elements(queue')
        PROVE  Precedes(x, y)
    <3>1. q # This /\ x \in Elements(unconsumed[q])
      BY <2>3, <2>7, NothingRises
    <3>2. CASE y \in Elements(queue)
      BY <3>1, <3>2 DEF OrderInv
    <3>3. CASE y \in Elements(unconsumed[This])
      BY <1>0, <2>0, <3>1, <3>3 DEF HeldOnce, Precedes
    <3> QED
      BY <2>2, <3>2, <3>3
  <2>8. Passed' = Passed
    BY <2>1 DEF Passed
  <2>9. /\ \A x \in Passed', y \in Messages : Held(y)' => Precedes(x, y)
        /\ link' => \A x \in Messages, y \in store' \ flight' :
             Held(x)' \/ x \in Passed' => Precedes(x, y)
    BY <2>1, <2>6, <2>8 DEF OrderInv
  <2>10. /\ Rising(log')
         /\ hand' # None /\ ~done' => \A x \in Elements(log') : Precedes(x, hand')
    BY <2>1 DEF OrderInv
  <2> QED
    BY <2>4, <2>5, <2>7, <2>9, <2>10 DEF OrderInv
<1>2. CASE Main /\ ~SetListener
  BY <1>2, OrderUnchanged DEF Main, CreateConsumer, CreateFails, StartConsumer,
     StopConsumer, StopExecutor, Join, StartSession
<1> QED
  BY <1>1, <1>2

LEMMA DispatchOrder ==
  ASSUME TypeOK, HeldOnce, OrderInv, NEW m, NEW kept,
         Takes(m, kept), TakenInOrder(m, kept)
  PROVE  OrderInv'
<1>0. /\ m \in Messages /\ m.to \in Queues /\ kept \in Seq(Messages)
      /\ Held(m) /\ m \in store /\ hand = None
      /\ Elements(kept) \subseteq Elements(unconsumed[m.to])
      /\ Elements(queue') \subseteq Elements(queue)
      /\ DispatchTo(m, kept)
      /\ UNCHANGED <<running, listener, link, sent, log>>
  BY DEF Takes, TypeOK, Messages
<1>1. \A q \in Queues \ {m.to} : unconsumed'[q] = unconsumed[q]
  BY <1>0 DEF DispatchTo, TypeOK
<1>2. \A q \in Queues : \A x \in Elements(unconsumed[q]) : x.to = q
  BY DEF HeldOnce
<1>3. /\ Rising(log) /\ Rising(queue') /\ Rising(kept)
      /\ \A y \in Elements(queue') : Precedes(m, y)
  BY DEF OrderInv, TakenInOrder
<1>4. ASSUME unconsumed'[m.to] = kept
      PROVE  /\ \A q \in Queues : /\ Rising(unconsumed'[q])
                                  /\ \A x \in Elements(unconsumed'[q]),
                                        y \in Elements(queue') : Precedes(x, y)
             /\ \A x \in Messages : Held(x)' =>
                  /\ Held(x)
                  /\ x.to = m.to => x \in Elements(kept) \cup Elements(queue')
  <2>1. ASSUME NEW q \in Queues
        PROVE  /\ Rising(unconsumed'[q])
               /\ Elements(unconsumed'[q]) \subseteq Elements(unconsumed[q])
    BY <1>0, <1>1, <1>3, <1>4 DEF OrderInv
  <2>2. \A q \in Queues : \A x \in Elements(unconsumed'[q]), y \in Elements(queue') :
          Precedes(x, y)
    BY <1>0, <2>1 DEF OrderInv
  <2>3. \A x \in Messages : Held(x)' =>
          /\ Held(x)
          /\ x.to = m.to => x \in Elements(kept) \cup Elements(queue')
    BY <1>0, <1>4, <2>1 DEF Held, Messages
  <2> QED
    BY <2>1, <2>2, <2>3
<1>5. CASE IsDuplicate(m)
  <2>1. unconsumed'[m.to] = kept
    BY <1>0, <1>5 DEF DispatchTo, TypeOK
  <2>2. hand' = hand /\ done' = done /\ Passed' = Passed
    BY <1>0, <1>5 DEF DispatchTo, Poison, handVars, Passed
  <2>3. store' \ flight' \subseteq store \ flight
    BY <1>0, <1>5 DEF DispatchTo, Poison, Removed
  <2> QED
    BY <1>0, <1>3, <1>4, <2>1, <2>2, <2>3 DEF OrderInv
<1>6. CASE ~IsDuplicate(m) /\ listener[m.to] /\ running[m.to]
  <2>1. unconsumed'[m.to] = kept
    BY <1>0, <1>6 DEF DispatchTo, TypeOK
  <2>2. /\ hand' = m /\ done' = FALSE /\ store' = store /\ flight' = flight
        /\ Passed' \subseteq Passed \cup {m}
    BY <1>0, <1>6 DEF DispatchTo, Passed
  <2>3. \A x \in Elements(log) : Precedes(x, m)
    BY <1>0 DEF OrderInv, Passed
  <2>4. ASSUME NEW y \in Messages, Held(y)', NEW x \in Passed' PROVE Precedes(x, y)
    <3>1. CASE x = m
      <4>1. CASE y.to = m.to
        BY <1>3, <1>4, <1>6, <2>1, <2>4, <3>1, <4>1 DEF TakenInOrder
      <4>2. CASE y.to # m.to
        BY <3>1, <4>2 DEF Precedes
      <4> QED
        BY <4>1, <4>2
    <3>2. CASE x \in Passed
      BY <1>4, <2>1, <2>4, <3>2 DEF OrderInv
    <3> QED
      BY <2>2, <2>4, <3>1, <3>2
  <2>5. ASSUME link', NEW x \in Messages, NEW y \in store' \ flight',
               Held(x)' \/ x \in Passed'
        PROVE  Precedes(x, y)
    BY <1>0, <1>4, <2>1, <2>2, <2>5 DEF OrderInv
  <2>6. hand' # None /\ ~done' => \A x \in Elements(log') : Precedes(x, hand')
    BY <1>0, <2>2, <2>3
  <2> QED
    BY <1>0, <1>3, <1>4, <2>1, <2>4, <2>5, <2>6 DEF OrderInv
<1>7. CASE ~IsDuplicate(m) /\ ~(listener[m.to] /\ running[m.to])
  <2>1. unconsumed'[m.to] = Append(kept, m)
    BY <1>0, <1>7 DEF DispatchTo, TypeOK
  <2>2. /\ hand' = hand /\ done' = done /\ store' = store /\ flight' = flight
        /\ Passed' = Passed
    BY <1>0, <1>7 DEF DispatchTo, handVars, Passed
  <2>3. \A y \in Elements(kept) : Precedes(y, m)
    BY <1>7 DEF TakenInOrder
  <2>4. /\ Elements(unconsumed'[m.to]) = Elements(kept) \cup {m}
        /\ Rising(unconsumed'[m.to])
    BY <1>0, <1>3, <2>1, <2>3, AppendElements, AppendRises
  <2>5. ASSUME NEW q \in Queues
        PROVE  /\ Rising(unconsumed'[q])
               /\ \A x \in Elements(unconsumed'[q]), y \in Elements(queue') :
                    Precedes(x, y)
    <3>1. CASE q = m.to
      BY <1>0, <1>3, <2>4, <3>1 DEF OrderInv
    <3>2. CASE q # m.to
      BY <1>0, <1>1, <3>2 DEF OrderInv
    <3> QED
      BY <3>1, <3>2
  <2>6. \A x \in Messages : Held(x)' => Held(x)
    <3> SUFFICES ASSUME NEW x \in Messages, Held(x)' PROVE Held(x)
      OBVIOUS
    <3>1. CASE x.to = m.to
      BY <1>0, <2>4, <3>1 DEF Held
    <3>2. CASE x.to # m.to
      BY <1>0, <1>1, <3>2 DEF Held, Messages
    <3> QED
      BY <3>1, <3>2
  <2> QED
    BY <1>0, <1>3, <2>2, <2>5, <2>6 DEF OrderInv
<1> QED
  BY <1>5, <1>6, <1>7

LEMMA RunnerOrder == IInv /\ OrderInv /\ Runner => OrderInv'
<1> SUFFICES ASSUME IInv, OrderInv, Runner PROVE OrderInv'
  OBVIOUS
<1> USE DEF mainVars, consumerVars, executorVars, handVars, brokerVars
<1>0. TypeOK /\ HeldOnce
  BY DEF IInv
<1>1. CASE IterateQueue \/ \E i \in Steps : IterateConsumer(i)
  BY <1>0, <1>1, IterationTakes, DispatchOrder
<1>2. CASE Rest
  BY <1>2, OrderUnchanged DEF Rest
<1>3. CASE OnMessage
  <2>1. /\ hand \in Messages /\ hand # None /\ ~done
        /\ log' = Append(log, hand) /\ done' = TRUE
        /\ UNCHANGED <<queue, unconsumed, hand, link, store, flight>>
    BY <1>0, <1>3 DEF OnMessage, TypeOK
  <2>2. Elements(log') = Elements(log) \cup {hand} /\ log \in Seq(Messages)
    BY <1>0, <2>1, AppendElements DEF TypeOK
  <2>3. Rising(log')
    BY <2>1, <2>2, AppendRises DEF OrderInv
  <2>4. Passed' = Passed
    BY <2>1, <2>2 DEF Passed
  <2>5. \A x \in Messages : Held(x)' = Held(x)
    BY <2>1 DEF Held
  <2> QED
    BY <2>1, <2>3, <2>4, <2>5 DEF OrderInv
<1>4. CASE Acknowledge
  <2>1. /\ hand' = None
        /\ UNCHANGED <<queue, unconsumed, link, log>>
        /\ store' \ flight' \subseteq store \ flight
    BY <1>4 DEF Acknowledge, Removed
  <2>2. Passed' \subseteq Passed
    BY <2>1 DEF Passed
  <2>3. \A x \in Messages : Held(x)' = Held(x)
    BY <2>1 DEF Held
  <2> QED
    BY <2>1, <2>2, <2>3 DEF OrderInv
<1> QED
  BY <1>1, <1>2, <1>3, <1>4 DEF Runner

(* The broker dispatches the first one first, a new one is the last.       *)
LEMMA OutsideOrder ==
  ASSUME IInv, OrderInv,
         \/ \E m \in store : OnCommand(m)
         \/ (\E q \in Queues : Send(q)) \/ Break \/ OnException \/ ProcessStarts
  PROVE  OrderInv'
<1> USE DEF mainVars, consumerVars, executorVars, handVars, brokerVars
<1>0. /\ TypeOK /\ HeldOnce /\ Numbered /\ NothingAtTheEnd
      /\ \A x \in Messages : x.to \in Queues /\ x.id \in Int
  BY DeliveryAssumption DEF IInv, Messages
<1>1. ASSUME NEW m \in store, OnCommand(m) PROVE OrderInv'
  <2>1. /\ m \in Messages /\ m \in store \ flight /\ link
        /\ \A x \in store \ flight : x.to = m.to => m.id <= x.id
        /\ flight' = flight \cup {m} /\ queue' = Append(queue, m)
        /\ UNCHANGED <<unconsumed, hand, done, link, store, log>>
    BY <1>0, <1>1 DEF OnCommand, TypeOK
  <2>2. Elements(queue') = Elements(queue) \cup {m} /\ queue \in Seq(Messages)
    BY <1>0, <2>1, AppendElements DEF TypeOK
  <2>3. \A x \in Messages : Held(x) \/ x \in Passed => Precedes(x, m)
    BY <2>1 DEF OrderInv
  <2>4. ASSUME NEW q \in Queues, NEW x \in Elements(unconsumed[q])
        PROVE  x \in Messages /\ Held(x)
    <3>1. x \in Messages
      BY <1>0, <2>4 DEF TypeOK, Elements
    <3>2. x.to = q
      BY <1>0, <2>4 DEF HeldOnce
    <3> QED
      BY <2>4, <3>1, <3>2 DEF Held
  <2>5. Elements(queue) \subseteq Messages /\ \A x \in Elements(queue) : Held(x)
    BY <1>0 DEF TypeOK, Elements, Held
  <2>6. Passed \subseteq Messages /\ Passed' = Passed
    BY <1>0, <2>1 DEF TypeOK, Elements, Passed
  <2>7. Rising(queue')
    BY <2>1, <2>2, <2>3, <2>5, AppendRises DEF OrderInv
  <2>8. \A x \in Messages : Held(x)' => Held(x) \/ x = m
    BY <2>1, <2>2 DEF Held
  <2>9. ASSUME NEW y \in store \ flight, y # m PROVE Precedes(m, y)
    <3>1. y \in Messages
      BY <1>0 DEF TypeOK
    <3>2. ASSUME y.to = m.to PROVE y.id # m.id
      BY <2>1, <2>9, <3>1, <3>2 DEF Messages
    <3> QED
      BY <1>0, <2>1, <3>1, <3>2 DEF Precedes
  <2>10. \A x \in Passed', y \in Messages : Held(y)' => Precedes(x, y)
    BY <2>3, <2>6, <2>8 DEF OrderInv
  <2>11. \A q \in Queues : \A x \in Elements(unconsumed'[q]), y \in Elements(queue') :
           Precedes(x, y)
    BY <2>1, <2>2, <2>3, <2>4 DEF OrderInv
  <2>12. \A x \in Messages, y \in store' \ flight' :
           Held(x)' \/ x \in Passed' => Precedes(x, y)
    BY <2>1, <2>6, <2>8, <2>9 DEF OrderInv
  <2> QED
    BY <2>1, <2>7, <2>10, <2>11, <2>12 DEF OrderInv
<1>2. ASSUME NEW q \in Queues, Send(q) PROVE OrderInv'
  <2> DEFINE m == [to |-> q, id |-> Cardinality(sent) + 1]
  <2>1. /\ store' = store \cup {m}
        /\ UNCHANGED <<queue, unconsumed, hand, done, log, link, flight>>
    BY <1>2 DEF Send
  <2>2. Cardinality(sent) \in Nat
    BY <1>0, FS_CardinalityType DEF Numbered
  <2>3. \A x \in Messages : Held(x) \/ x \in Passed => x \in sent
    BY <1>0, Places DEF HeldOnce, TypeOK, Passed
  <2>4. \A x \in Messages : Held(x) \/ x \in Passed => Precedes(x, m)
    BY <1>0, <2>2, <2>3 DEF Numbered, Precedes
  <2>5. (\A x \in Messages : Held(x)' = Held(x)) /\ Passed' = Passed
    BY <2>1 DEF Held, Passed
  <2> HIDE DEF m
  <2>6. link' => \A x \in Messages, y \in store' \ flight' :
          Held(x)' \/ x \in Passed' => Precedes(x, y)
    BY <2>1, <2>4, <2>5 DEF OrderInv
  <2> QED
    BY <2>1, <2>5, <2>6 DEF OrderInv
<1>3. CASE Break
  <2>1. (\A x \in Messages : Held(x)' = Held(x)) /\ Passed' = Passed
    BY <1>3 DEF Break, Held, Passed
  <2> QED
    BY <1>3, <2>1 DEF Break, OrderInv
<1>4. CASE OnException
  <2>1. /\ queue' = <<>> /\ unconsumed' = [q \in Queues |-> <<>>]
        /\ hand' = None /\ log' = <<>>
    BY <1>4 DEF OnException
  <2>2. \A x \in Messages : ~Held(x)'
    BY <1>0, <2>1, NothingRises DEF Held
  <2>3. Passed' = {}
    BY <2>1, NothingRises DEF Passed
  <2> QED
    BY <2>1, <2>2, <2>3, NothingRises DEF OrderInv
<1>5. CASE ProcessStarts
  <2>1. /\ queue' = <<>> /\ \A q \in Queues : unconsumed'[q] = <<>>
        /\ hand' = None /\ log' = <<>>
    BY <1>0, <1>5 DEF ProcessStarts, NothingAtTheEnd
  <2>2. \A x \in Messages : ~Held(x)'
    BY <1>0, <2>1, NothingRises DEF Held
  <2>3. Passed' = {}
    BY <2>1, NothingRises DEF Passed
  <2> QED
    BY <2>1, <2>2, <2>3, NothingRises DEF OrderInv
<1> QED
  BY <1>1, <1>2, <1>3, <1>4, <1>5

LEMMA OrderInit == Init => OrderInv
<1> SUFFICES ASSUME Init PROVE OrderInv
  OBVIOUS
<1>1. /\ queue = <<>> /\ \A q \in Queues : unconsumed[q] = <<>>
      /\ hand = None /\ log = <<>> /\ store = {}
  BY DEF Init, FreshProcess
<1>2. Passed = {}
  BY <1>1, NothingRises DEF Passed
<1> QED
  BY <1>1, <1>2, NothingRises DEF OrderInv

LEMMA OrderStep == IInv /\ OrderInv /\ [Next]_vars => OrderInv'
<1> SUFFICES ASSUME IInv, OrderInv, [Next]_vars PROVE OrderInv'
  OBVIOUS
<1>1. CASE UNCHANGED vars
  BY <1>1, OrderUnchanged DEF vars, consumerVars, executorVars, handVars, brokerVars
<1>2. CASE Next
  BY <1>2, MainOrder, RunnerOrder, OutsideOrder DEF Next
<1> QED
  BY <1>1, <1>2

(* A process handles the commands of a queue in the order in which they    *)
(* were sent and none twice, whichever buffers they went through while     *)
(* listeners were set (ActiveMQSessionKernel::redispatch, executeFirst).   *)
THEOREM OrderKept == Spec => []InOrder
<1>1. OrderInv => InOrder
  BY DEF OrderInv, Rising, Precedes, InOrder
<1> QED
  BY <1>1, InvInit, InvStep, OrderInit, OrderStep, PTL DEF Spec

-----------------------------------------------------------------------------
(* The refinement of AtLeastOnce.                                          *)

LEMMA StatusIs ==
  ASSUME TypeOK, NEW m \in Messages
  PROVE  /\ m \notin sent => Status[m] = "unsent"
         /\ m \in dead => Status[m] = "dead"
         /\ m \in sent /\ m \notin store /\ m \notin dead => Status[m] = "gone"
         /\ m \in store /\ m \in Elements(log) => Status[m] = "handled"
         /\ m \in store /\ m \notin Elements(log) /\ m \in audit /\ m # hand
              => Status[m] = "missed"
         /\ m \in store /\ m \notin Elements(log) /\ (m \notin audit \/ m = hand)
              => Status[m] = "waiting"
BY DEF TypeOK, Status

LEMMA StatusWillBe ==
  ASSUME TypeOK', NEW m \in Messages
  PROVE  /\ m \notin sent' => Status'[m] = "unsent"
         /\ m \in dead' => Status'[m] = "dead"
         /\ m \in sent' /\ m \notin store' /\ m \notin dead' => Status'[m] = "gone"
         /\ m \in store' /\ m \in Elements(log') => Status'[m] = "handled"
         /\ m \in store' /\ m \notin Elements(log') /\ m \in audit' /\ m # hand'
              => Status'[m] = "missed"
         /\ m \in store' /\ m \notin Elements(log') /\ (m \notin audit' \/ m = hand')
              => Status'[m] = "waiting"
BY DEF TypeOK, Status

(* One command's status changes, or none.                                  *)
LEMMA StatusChanges ==
  ASSUME NEW m \in Messages, NEW from, NEW to, UNCHANGED listener,
         Status[m] = from, Status'[m] = to,
         \A x \in Messages \ {m} : Status'[x] = Status[x]
  PROVE  Promise!Becomes(m, from, to)
<1>1. /\ Status = [x \in Messages |-> Status[x]]
      /\ Status' = [x \in Messages |-> Status'[x]]
  BY DEF Status
<1>2. Status' = [Status EXCEPT ![m] = to]
  BY <1>1
<1> QED
  BY <1>2 DEF Promise!Becomes

LEMMA StatusStays ==
  ASSUME \A x \in Messages : Status'[x] = Status[x]
  PROVE  Status' = Status
BY DEF Status

LEMMA TakesPromise ==
  ASSUME TypeOK, TypeOK', HeldOnce, NEW m, NEW kept, Takes(m, kept)
  PROVE  \/ Promise!Miss(m) \/ Promise!Bury(m)
         \/ UNCHANGED <<Status, listener>>
<1>1. /\ m \in store /\ m \in Messages /\ m.to \in Queues /\ None \notin Messages
      /\ hand = None /\ m \notin Elements(log)
      /\ UNCHANGED <<listener, sent, log>>
  BY Places DEF Takes, TypeOK, HeldOnce, Messages
<1>2. CASE IsDuplicate(m) /\ link
  <2>1. /\ store' = store \ {m} /\ dead' = dead \cup {m}
        /\ audit' = audit /\ hand' = hand /\ m \in audit
    BY <1>2 DEF Takes, DispatchTo, Poison, Removed, handVars, IsDuplicate
  <2>2. Status[m] = "missed" /\ Status'[m] = "dead"
    BY <1>1, <2>1, StatusIs, StatusWillBe
  <2>3. \A x \in Messages \ {m} : Status'[x] = Status[x]
    BY <1>1, <2>1 DEF Status
  <2>4. Promise!Bury(m)
    BY <1>1, <2>2, <2>3, StatusChanges DEF Promise!Bury
  <2> QED
    BY <2>4
<1>3. CASE IsDuplicate(m) /\ ~link
  <2>1. /\ store' = store /\ dead' = dead
        /\ audit' = audit /\ hand' = hand
    BY <1>3 DEF Takes, DispatchTo, Poison, handVars
  <2>2. Status' = Status
    BY <1>1, <2>1 DEF Status
  <2> QED
    BY <1>1, <2>2
<1>4. CASE ~IsDuplicate(m) /\ listener[m.to] /\ running[m.to]
  <2>1. /\ store' = store /\ dead' = dead /\ m \notin audit
        /\ audit' = audit \cup {m} /\ hand' = m
    BY <1>4 DEF Takes, DispatchTo, IsDuplicate
  <2>2. Status[m] = "waiting" /\ Status'[m] = "waiting"
    BY <1>1, <2>1, StatusIs, StatusWillBe
  <2>3. ASSUME NEW x \in Messages, x # m PROVE Status'[x] = Status[x]
    BY <1>1, <2>1, <2>3 DEF Status
  <2>4. Status' = Status
    BY <2>2, <2>3, StatusStays
  <2> QED
    BY <1>1, <2>4
<1>5. CASE ~IsDuplicate(m) /\ running[m.to] /\ ~listener[m.to]
  <2>1. /\ store' = store /\ dead' = dead /\ m \notin audit
        /\ audit' = audit \cup {m} /\ hand' = hand
    BY <1>5 DEF Takes, DispatchTo, IsDuplicate, handVars
  <2>2. Status[m] = "waiting" /\ Status'[m] = "missed"
    BY <1>1, <2>1, StatusIs, StatusWillBe
  <2>3. \A x \in Messages \ {m} : Status'[x] = Status[x]
    BY <1>1, <2>1 DEF Status
  <2>4. Promise!Miss(m)
    BY <1>1, <1>5, <2>2, <2>3, StatusChanges DEF Promise!Miss
  <2> QED
    BY <2>4
<1>6. CASE ~IsDuplicate(m) /\ ~running[m.to]
  <2>1. /\ store' = store /\ dead' = dead
        /\ audit' = audit /\ hand' = hand
    BY <1>6 DEF Takes, DispatchTo, handVars
  <2>2. Status' = Status
    BY <1>1, <2>1 DEF Status
  <2> QED
    BY <1>1, <2>2
<1> QED
  BY <1>2, <1>3, <1>4, <1>5, <1>6

LEMMA RunnerPromise ==
  ASSUME TypeOK, TypeOK', HeldOnce, Runner
  PROVE  [Promise!Next]_(Promise!vars)
<1> USE DEF mainVars, consumerVars, executorVars, handVars, brokerVars
<1>1. CASE IterateQueue \/ \E i \in Steps : IterateConsumer(i)
  <2>1. PICK m, kept : Takes(m, kept)
    BY <1>1, IterationTakes
  <2>2. m \in Messages
    BY <2>1 DEF Takes, TypeOK
  <2> QED
    BY <2>1, <2>2, TakesPromise DEF Promise!Next, Promise!vars
<1>2. CASE Rest
  BY <1>2 DEF Rest, Status, Promise!vars
<1>3. CASE OnMessage
  <2>1. /\ hand \in Messages /\ log' = Append(log, hand) /\ ~done
        /\ UNCHANGED <<hand, audit, listener, sent, store, dead>>
    BY <1>3 DEF OnMessage, TypeOK
  <2>2. Elements(log') = Elements(log) \cup {hand}
    BY <2>1, AppendElements DEF TypeOK
  <2>3. Status[hand] = "waiting" /\ Status'[hand] = "handled"
    BY <2>1, <2>2, StatusIs, StatusWillBe DEF HeldOnce
  <2>4. ASSUME NEW x \in Messages, x # hand PROVE Status'[x] = Status[x]
    <3>1. x \in Elements(log') <=> x \in Elements(log)
      BY <2>2, <2>4
    <3> QED
      BY <2>1, <3>1 DEF Status
  <2>5. listener[hand.to]
    BY <2>1 DEF HeldOnce
  <2>6. Promise!Handle(hand)
    BY <2>1, <2>3, <2>4, <2>5, StatusChanges DEF Promise!Handle
  <2> QED
    BY <2>1, <2>6 DEF Promise!Next
<1>4. CASE Acknowledge
  <2>1. /\ hand \in Messages /\ done /\ hand' = None
        /\ UNCHANGED <<audit, listener, sent, log, dead>>
    BY <1>4 DEF Acknowledge, Handled, TypeOK
  <2>2. hand \in store /\ hand \in Elements(log) /\ None \notin Messages
    BY <2>1, Places DEF HeldOnce
  <2>3. CASE link
    <3>1. store' = store \ {hand}
      BY <1>4, <2>3 DEF Acknowledge, Removed
    <3>2. Status[hand] = "handled" /\ Status'[hand] = "gone"
      BY <2>1, <2>2, <3>1, StatusIs, StatusWillBe DEF TypeOK
    <3>3. ASSUME NEW x \in Messages, x # hand PROVE Status'[x] = Status[x]
      BY <2>1, <2>2, <3>1, <3>3 DEF Status
    <3>4. Promise!Acknowledge(hand)
      BY <2>1, <3>2, <3>3, StatusChanges DEF Promise!Acknowledge
    <3> QED
      BY <2>1, <3>4 DEF Promise!Next
  <2>4. CASE ~link
    <3>1. store' = store
      BY <1>4, <2>4 DEF Acknowledge
    <3>2. ASSUME NEW x \in Messages PROVE Status'[x] = Status[x]
      <4>1. CASE x = hand
        BY <2>1, <2>2, <3>1, <4>1 DEF Status
      <4>2. CASE x # hand
        BY <2>1, <2>2, <3>1, <4>2 DEF Status
      <4> QED
        BY <4>1, <4>2
    <3>3. Status' = Status
      BY <3>2, StatusStays
    <3> QED
      BY <2>1, <3>3 DEF Promise!vars
  <2> QED
    BY <2>3, <2>4
<1> QED
  BY <1>1, <1>2, <1>3, <1>4 DEF Runner

LEMMA OtherPromise ==
  ASSUME IInv, TypeOK', Next, ~Runner
  PROVE  [Promise!Next]_(Promise!vars)
<1> USE DEF IInv, mainVars, consumerVars, executorVars, handVars, brokerVars
<1>1. CASE SetListener
  <2>1. This \in Queues
    BY Places DEF This, TypeOK
  <2>2. Promise!Listen(This)
    BY <1>1 DEF SetListener, Status, Promise!Listen
  <2> QED
    BY <2>1, <2>2 DEF Promise!Next
<1>2. CASE Main /\ ~SetListener
  BY <1>2 DEF Main, CreateConsumer, CreateFails, StartConsumer, StopConsumer,
     StopExecutor, Join, StartSession, Status, Promise!vars
<1>3. ASSUME NEW m \in store, OnCommand(m) PROVE UNCHANGED <<Status, listener>>
  BY <1>3 DEF OnCommand, Status
<1>4. ASSUME NEW q \in Queues, Send(q) PROVE Promise!Next
  <2>1. PICK m \in Messages \ sent :
          /\ m.to = q
          /\ sent' = sent \cup {m} /\ store' = store \cup {m}
          /\ Numbered'
    BY <1>4, SendNew
  <2>2. UNCHANGED <<hand, audit, listener, log, dead>>
    BY <1>4 DEF Send
  <2>3. m \notin audit /\ m \notin Elements(log)
    BY <2>1 DEF HeldOnce
  <2>4. Status[m] = "unsent" /\ Status'[m] = "waiting"
    BY <2>1, <2>2, <2>3, StatusIs, StatusWillBe DEF TypeOK
  <2>5. ASSUME NEW x \in Messages, x # m PROVE Status'[x] = Status[x]
    BY <2>1, <2>2, <2>5 DEF Status
  <2>6. Promise!Send(m)
    BY <2>1, <2>2, <2>4, <2>5, StatusChanges DEF Promise!Send
  <2> QED
    BY <2>1, <2>6 DEF Promise!Next
<1>5. CASE Break \/ ProcessStarts
  BY <1>5 DEF Break, ProcessStarts, Status, Promise!vars
<1>6. CASE OnException
  <2>1. /\ hand' = None /\ audit' = {} /\ log' = <<>>
        /\ listener' = [q \in Queues |-> FALSE]
        /\ UNCHANGED <<sent, store, dead>>
    BY <1>6 DEF OnException
  <2>2. Elements(log') = {}
    BY <2>1 DEF Elements
  <2>3. ASSUME NEW x \in Messages
        PROVE  Status'[x] = IF Status[x] \in {"handled", "missed"}
                            THEN "waiting" ELSE Status[x]
    <3>1. CASE x \in store
      BY <2>1, <2>2, <3>1, StatusIs, StatusWillBe
    <3>2. CASE x \notin store
      BY <2>1, <3>2, StatusIs, StatusWillBe
    <3> QED
      BY <3>1, <3>2
  <2>4. Promise!Restart
    <3>1. Status' = [x \in Messages |-> Status'[x]]
      BY DEF Status
    <3> QED
      BY <2>1, <2>3, <3>1 DEF Promise!Restart
  <2> QED
    BY <2>4 DEF Promise!Next
<1> QED
  BY <1>1, <1>2, <1>3, <1>4, <1>5, <1>6 DEF Next, Promise!vars

(* What the client promises, for any number of queues, commands and        *)
(* breaks: handled at most once by a process, kept until handled, missed   *)
(* only before its queue is listened to.                                   *)
THEOREM PromiseHolds == Spec => PromiseKept
<1>1. Init => Promise!Init
  BY DEF Init, FreshProcess, Status, Promise!Init
<1>2. IInv /\ [Next]_vars => [Promise!Next]_(Promise!vars)
  <2> SUFFICES ASSUME IInv, [Next]_vars PROVE [Promise!Next]_(Promise!vars)
    OBVIOUS
  <2>1. CASE UNCHANGED vars
    BY <2>1 DEF vars, mainVars, consumerVars, executorVars, handVars, brokerVars,
       Status, Promise!vars
  <2>2. TypeOK'
    BY InvStep DEF IInv
  <2>3. CASE Runner
    BY <2>2, <2>3, RunnerPromise DEF IInv
  <2>4. CASE Next /\ ~Runner
    BY <2>2, <2>4, OtherPromise
  <2> QED
    BY <2>1, <2>3, <2>4
<1> QED
  BY <1>1, <1>2, InvInit, InvStep, PTL DEF Spec, PromiseKept, Promise!Spec

=============================================================================
