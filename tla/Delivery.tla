------------------------------ MODULE Delivery ------------------------------
(***************************************************************************)
(* How a command of the strategy gets from its queue at the broker to the  *)
(* listener in the gateway, through the activemq-cpp client: main() makes  *)
(* a consumer for each queue and then gives it its listener, while the     *)
(* connection's thread puts what arrives into the session's queue and the  *)
(* session's task runner hands it to the consumers.                        *)
(*                                                                         *)
(*   main         CreateConsumer, StartConsumer, StopConsumer,             *)
(*                StopExecutor, Join, SetListener, StartSession            *)
(*   connection   OnCommand, OnException                                   *)
(*   task runner  IterateConsumer, IterateQueue, Rest, OnMessage,          *)
(*                Acknowledge                                              *)
(*   outside      Send, Break, ProcessStarts                               *)
(***************************************************************************)
EXTENDS Integers, Sequences, FiniteSets

CONSTANTS
  Order,     \* the queues, in the order in which main listens to them
  MaxSent,   \* bound: commands sent
  MaxBreaks, \* bound: broken connections
  None       \* the task runner has no message in its hands

ASSUME DeliveryAssumption ==
  /\ Order \in Seq(STRING)
  /\ Order # <<>>
  /\ MaxSent \in Nat
  /\ MaxBreaks \in Nat
  /\ None \notin [to : STRING, id : Nat]

Steps == DOMAIN Order
Queues == {Order[i] : i \in Steps}
Messages == [to : Queues, id : 1..MaxSent]

VARIABLES
  main,      \* main(): its step in the registration of a consumer
  turn,      \* ... and the consumer, as a place in Order
  created,   \* the consumers known to the session and the broker
  running,   \* unconsumedMessages of these consumers is running
  listener,  \* these consumers have their listener
  unconsumed,\* unconsumedMessages of each consumer
  queue,     \* messageQueue of the session's executor
  qRunning,  \* messageQueue is running
  task,      \* its task runner: "none", "awake", "asleep" or "ending"
  hand,      \* the message that the task runner has given to a listener
  done,      \* its listener has returned
  audit,     \* the ids the connection has seen (ConnectionAudit)
  link,      \* the connection to the broker
  sent,      \* the broker: the commands sent so far
  store,     \* ... kept, since they are not acknowledged
  flight,    \* ... dispatched on this connection
  dead,      \* ... in the dead letter queue
  breaks,    \* broken connections so far
  log        \* history: what this process handled, in order

mainVars == <<main, turn, created>>
consumerVars == <<running, listener, unconsumed>>
executorVars == <<queue, qRunning, task>>
handVars == <<hand, done>>
brokerVars == <<link, sent, store, flight, dead, breaks>>
vars == <<mainVars, consumerVars, executorVars, handVars, audit, brokerVars, log>>

Elements(s) == {s[i] : i \in DOMAIN s}

TypeOK ==
  /\ main \in {"create", "start", "stop", "join", "listen", "resume",
               "listening", "ended"}
  /\ turn \in Steps
  /\ created \subseteq Queues
  /\ running \in [Queues -> BOOLEAN]
  /\ listener \in [Queues -> BOOLEAN]
  /\ unconsumed \in [Queues -> Seq(Messages)]
  /\ queue \in Seq(Messages)
  /\ qRunning \in BOOLEAN
  /\ task \in {"none", "awake", "asleep", "ending"}
  /\ hand \in Messages \cup {None}
  /\ done \in BOOLEAN
  /\ audit \subseteq Messages
  /\ link \in BOOLEAN
  /\ sent \subseteq Messages
  /\ store \subseteq sent
  /\ flight \subseteq store
  /\ dead \subseteq sent \ store
  /\ breaks \in 0..MaxBreaks
  /\ log \in Seq(Messages)

(* GatewayManager::initConnection: the connection and its session, which   *)
(* is started with it; nobody has asked for messages yet.                  *)
FreshProcess ==
  /\ main = "create" /\ turn = 1 /\ created = {}
  /\ running = [q \in Queues |-> FALSE]
  /\ listener = [q \in Queues |-> FALSE]
  /\ unconsumed = [q \in Queues |-> <<>>]
  /\ queue = <<>> /\ qRunning = TRUE /\ task = "none"
  /\ hand = None /\ done = FALSE
  /\ audit = {} /\ log = <<>>

Init ==
  /\ FreshProcess
  /\ link = TRUE
  /\ sent = {} /\ store = {} /\ flight = {} /\ dead = {}
  /\ breaks = 0

-----------------------------------------------------------------------------
(* ActiveMQSessionExecutor::wakeup: the runner is made when it is missing  *)
(* and the queue is running.                                               *)
Woken == IF qRunning THEN "awake" ELSE task

This == Order[turn]

(* main(): createConsumer, which registers with the broker and starts.     *)
CreateConsumer ==
  /\ main = "create"
  /\ link
  /\ main' = "start"
  /\ created' = created \cup {This}
  /\ UNCHANGED <<turn, consumerVars, executorVars, handVars, audit, brokerVars, log>>

NextTurn ==
  IF turn = Len(Order) THEN main' = "listening" /\ UNCHANGED turn
                       ELSE main' = "create" /\ turn' = turn + 1

(* The request fails with the connection; registerSelf prints it.          *)
CreateFails ==
  /\ main = "create"
  /\ ~link
  /\ NextTurn
  /\ UNCHANGED <<created, consumerVars, executorVars, handVars, audit, brokerVars, log>>

StartConsumer ==
  /\ main = "start"
  /\ main' = "stop"
  /\ running' = [running EXCEPT ![This] = TRUE]
  /\ task' = Woken
  /\ UNCHANGED <<turn, created, listener, unconsumed, queue, qRunning,
                 handVars, audit, brokerVars, log>>

(* setMessageListener stops the session: the consumers one after another,  *)
(* each when no message of it is being handled, ...                        *)
StopConsumer(i) ==
  /\ main = "stop"
  /\ running[Order[i]]
  /\ \A j \in 1..(i - 1) : ~running[Order[j]]
  /\ hand # None => hand.to # Order[i]
  /\ running' = [running EXCEPT ![Order[i]] = FALSE]
  /\ UNCHANGED <<mainVars, listener, unconsumed, executorVars, handVars, audit,
                 brokerVars, log>>

(* ... then the executor, whose task runner is told to end, ...            *)
StopExecutor ==
  /\ main = "stop"
  /\ \A q \in Queues : ~running[q]
  /\ main' = "join"
  /\ qRunning' = FALSE
  /\ task' = IF task = "none" THEN "none" ELSE "ending"
  /\ UNCHANGED <<turn, created, consumerVars, queue, handVars, audit,
                 brokerVars, log>>

(* ... and is waited for.                                                  *)
Join ==
  /\ main = "join"
  /\ hand = None
  /\ main' = "listen"
  /\ task' = "none"
  /\ UNCHANGED <<turn, created, consumerVars, queue, qRunning, handVars, audit,
                 brokerVars, log>>

AtTheEnd(missed) == queue \o missed  \* mutant: redispatched behind the others
InFront(missed) == missed \o queue

StillKept(q) == unconsumed  \* mutant: redispatched and kept
Emptied(q) == [unconsumed EXCEPT ![q] = <<>>]

(* The listener is set; redispatch puts the messages that the consumer has *)
(* kept in front of the session's queue.                                   *)
SetListener ==
  /\ main = "listen"
  /\ main' = "resume"
  /\ listener' = [listener EXCEPT ![This] = TRUE]
  /\ queue' = InFront(unconsumed[This])
  /\ unconsumed' = Emptied(This)
  /\ UNCHANGED <<turn, created, running, qRunning, task, handVars, audit,
                 brokerVars, log>>

NotWoken == task  \* mutant: nobody wakes the runner after the stop
WokenForRest == IF queue # <<>> THEN "awake" ELSE task

(* session->start(): the consumers, whose wakeup comes too early since the *)
(* queue is not running, then the executor.                                *)
StartSession ==
  /\ main = "resume"
  /\ NextTurn
  /\ running' = [q \in Queues |-> q \in created]
  /\ qRunning' = TRUE
  /\ task' = WokenForRest
  /\ UNCHANGED <<created, listener, unconsumed, queue, handVars, audit,
                 brokerVars, log>>

Main ==
  \/ CreateConsumer \/ CreateFails \/ StartConsumer
  \/ \E i \in Steps : StopConsumer(i)
  \/ StopExecutor \/ Join \/ SetListener \/ StartSession

-----------------------------------------------------------------------------
(* The task runner.                                                        *)

StaysInFlight(m) ==  \* mutant: the prefetched one is not forgotten
  /\ store' = store \ {m}
  /\ UNCHANGED flight
Removed(m) == /\ store' = store \ {m}
              /\ flight' = flight \ {m}

(* posionAck: the broker moves the message to its dead letter queue.       *)
Poison(m) ==
  /\ IF link THEN Removed(m) /\ dead' = dead \cup {m}
             ELSE UNCHANGED <<store, flight, dead>>
  /\ UNCHANGED <<audit, handVars>>

IsDuplicate(m) == m \in audit

(* ActiveMQConsumerKernel::dispatch of m, taken from where it was kept;    *)
(* kept says what unconsumedMessages holds of its consumer.                *)
DispatchTo(m, kept) ==
  IF IsDuplicate(m)
  THEN /\ Poison(m)
       /\ unconsumed' = [unconsumed EXCEPT ![m.to] = kept]
  ELSE /\ UNCHANGED <<store, flight, dead>>
       /\ IF listener[m.to] /\ running[m.to]
          THEN /\ audit' = audit \cup {m}
               /\ hand' = m /\ done' = FALSE
               /\ unconsumed' = [unconsumed EXCEPT ![m.to] = kept]
          ELSE /\ audit' = IF running[m.to] THEN audit \cup {m} ELSE audit
               /\ UNCHANGED handVars
               /\ unconsumed' = [unconsumed EXCEPT ![m.to] = Append(kept, m)]

Ready(q) == listener[q] /\ running[q] /\ unconsumed[q] # <<>>
AtWork == task = "awake" /\ hand = None

IterateConsumer(i) ==
  /\ AtWork
  /\ Ready(Order[i])
  /\ \A j \in 1..(i - 1) : ~Ready(Order[j])
  /\ DispatchTo(Head(unconsumed[Order[i]]), Tail(unconsumed[Order[i]]))
  /\ UNCHANGED <<mainVars, running, listener, executorVars, link, sent, breaks, log>>

IterateQueue ==
  /\ AtWork
  /\ \A q \in Queues : ~Ready(q)
  /\ qRunning
  /\ queue # <<>>
  /\ queue' = Tail(queue)
  /\ DispatchTo(Head(queue), unconsumed[Head(queue).to])
  /\ UNCHANGED <<mainVars, running, listener, qRunning, task, link, sent, breaks, log>>

(* Nothing to do: the runner waits to be woken.                            *)
Rest ==
  /\ AtWork
  /\ \A q \in Queues : ~Ready(q)
  /\ queue = <<>> \/ ~qRunning
  /\ task' = "asleep"
  /\ UNCHANGED <<mainVars, consumerVars, queue, qRunning, handVars, audit,
                 brokerVars, log>>

(* MdCommander::onMessage, TdCommander::onMessage.                         *)
OnMessage ==
  /\ hand # None
  /\ ~done
  /\ log' = Append(log, hand)
  /\ done' = TRUE
  /\ UNCHANGED <<mainVars, consumerVars, executorVars, hand, audit, brokerVars>>

AckFirst == hand # None  \* mutant: acknowledged before it is handled
Handled == hand # None /\ done

(* afterMessageIsConsumed: the acknowledgement is lost with the connection. *)
Acknowledge ==
  /\ Handled
  /\ hand' = None /\ done' = FALSE
  /\ IF link THEN Removed(hand) ELSE UNCHANGED <<store, flight>>
  /\ UNCHANGED <<mainVars, consumerVars, executorVars, audit, link, sent, dead,
                 breaks, log>>

Runner ==
  \/ \E i \in Steps : IterateConsumer(i)
  \/ IterateQueue \/ Rest \/ OnMessage \/ Acknowledge

-----------------------------------------------------------------------------
(* The connection and the broker.                                          *)

(* ActiveMQConnection::onCommand: a message for a registered consumer is   *)
(* put into the session's queue.  The broker dispatches in order.          *)
OnCommand(m) ==
  /\ link
  /\ m.to \in created
  /\ m \in store \ flight
  /\ \A x \in store \ flight : x.to = m.to => m.id <= x.id
  /\ flight' = flight \cup {m}
  /\ queue' = Append(queue, m)
  /\ task' = Woken
  /\ UNCHANGED <<mainVars, consumerVars, qRunning, handVars, audit, link, sent,
                 store, dead, breaks, log>>

(* The strategy sends a command, JmsTemplate is persistent.                *)
Send(q) ==
  LET m == [to |-> q, id |-> Cardinality(sent) + 1]
  IN /\ m.id <= MaxSent
     /\ sent' = sent \cup {m}
     /\ store' = store \cup {m}
     /\ UNCHANGED <<mainVars, consumerVars, executorVars, handVars, audit, link,
                    flight, dead, breaks, log>>

(* What was dispatched on the connection waits for the next one.           *)
Break ==
  /\ link
  /\ breaks < MaxBreaks
  /\ link' = FALSE
  /\ flight' = {}
  /\ breaks' = breaks + 1
  /\ UNCHANGED <<mainVars, consumerVars, executorVars, handVars, audit, sent,
                 store, dead, log>>

(* GatewayManager::onException, called by a thread of the connection some  *)
(* time after the break, ends the process with all it holds ...            *)
OnException ==
  /\ ~link
  /\ main # "ended"
  /\ main' = "ended"
  /\ turn' = 1 /\ created' = {}
  /\ running' = [q \in Queues |-> FALSE]
  /\ listener' = [q \in Queues |-> FALSE]
  /\ unconsumed' = [q \in Queues |-> <<>>]
  /\ queue' = <<>> /\ qRunning' = FALSE /\ task' = "none"
  /\ hand' = None /\ done' = FALSE
  /\ audit' = {} /\ log' = <<>>
  /\ UNCHANGED brokerVars

(* ... and the gateway is started again.                                   *)
ProcessStarts ==
  /\ main = "ended"
  /\ main' = "create"
  /\ qRunning' = TRUE
  /\ link' = TRUE
  /\ UNCHANGED <<turn, created, consumerVars, queue, task, handVars, audit,
                 sent, store, flight, dead, breaks, log>>

Next ==
  \/ Main
  \/ Runner
  \/ \E m \in store : OnCommand(m)
  \/ \E q \in Queues : Send(q)
  \/ Break \/ OnException \/ ProcessStarts

Spec == Init /\ [][Next]_vars

(* The threads of the client run on, what the broker has sent arrives, a   *)
(* broken connection is noticed and the gateway is started again.  Nothing *)
(* is assumed of the strategy and of the breaks.                           *)
FairSpec ==
  /\ Spec
  /\ WF_vars(Main)
  /\ WF_vars(Runner)
  /\ WF_vars(\E m \in store : OnCommand(m))
  /\ WF_vars(OnException)
  /\ WF_vars(ProcessStarts)

-----------------------------------------------------------------------------
(* Properties.                                                             *)

(* A process handles the commands of a queue in the order in which they    *)
(* were sent, and none of them twice, whichever of the two buffers they    *)
(* went through while listeners were set and the session was stopped       *)
(* (FIFO of ActiveMQSessionKernel::redispatch and executeFirst).           *)
InOrder ==
  \A i, j \in DOMAIN log :
    i < j /\ log[i].to = log[j].to => log[i].id < log[j].id

(* The client keeps the promise of AtLeastOnce over both buffers, the      *)
(* audit of duplicates, broken connections and new processes.              *)
Status ==
  [m \in Messages |->
     CASE m \notin sent                            -> "unsent"
       [] m \in dead                               -> "dead"
       [] m \in sent \ (store \cup dead)           -> "gone"
       [] m \in store /\ m \in Elements(log)       -> "handled"
       [] m \in store /\ m \notin Elements(log)
            /\ m \in audit /\ m # hand             -> "missed"
       [] OTHER                                    -> "waiting"]

Promise == INSTANCE AtLeastOnce WITH status <- Status, heard <- listener
PromiseKept == Promise!Spec

(* What the promise rests on.  A command the process holds is in one place *)
(* of one buffer or in the listener's hands, is not yet handled when it is *)
(* in a buffer, and is on the way on this connection as long as that one   *)
(* lasts, so that the broker does not dispatch it again.                   *)
Injective(s) == \A i, j \in DOMAIN s : s[i] = s[j] => i = j
Held(m) == m \in Elements(queue) \/ m \in Elements(unconsumed[m.to])
HeldOnce ==
  /\ Injective(queue)
  /\ \A q \in Queues :
       /\ Injective(unconsumed[q])
       /\ \A m \in Elements(unconsumed[q]) : m.to = q /\ m \notin Elements(queue)
  /\ \A m \in Messages :
       /\ Held(m) => m \in store /\ m # hand /\ m \notin Elements(log)
       /\ m = hand => /\ m \in store /\ m \in audit /\ listener[m.to]
                      /\ done <=> m \in Elements(log)
       /\ m \in Elements(log) => m \in audit
       /\ m \in audit => m \in sent
       /\ m \in store /\ link /\ (Held(m) \/ m \in audit) => m \in flight

(* A command comes to an end if the connection lasts, but for one that a   *)
(* runner found its consumer stopped for while the listener of another     *)
(* queue was set: it stays with the consumer until the runner is woken by  *)
(* the next command.                                                       *)
Parked(m) ==
  /\ main = "listening"
  /\ m \in Elements(unconsumed[m.to])
  /\ task # "awake"
EventuallyTaken ==
  <>[]link => \A m \in Messages : m \in store ~> (m \notin store \/ Parked(m))

(* ActiveMQConsumerKernel.cpp:1180: "Now that we have a valid message      *)
(* listener, redispatch all the messages that it missed."  None of them    *)
(* is taken for a duplicate and given up unhandled.                        *)
MissedRedispatched == dead = {}

=============================================================================
