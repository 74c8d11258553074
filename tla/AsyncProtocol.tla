--------------------------- MODULE AsyncProtocol ---------------------------
(***************************************************************************)
(* One tnt::protocol::AsyncProtocol: the object behind every connection of *)
(* DROP.  Other threads send messages through a queue and get a future for *)
(* each; a tx thread writes them; an rx thread reads.  stop() is called by *)
(* the dispatcher of Application, for event::Quit, and by the destructor,  *)
(* which then destroys the members in the reverse order of their           *)
(* declaration: tx_dispatcher_, tx_thread_, messages_, rx_thread_, io_.    *)
(***************************************************************************)
EXTENDS Integers, Sequences

CONSTANTS
  Messages,   \* messages other threads send, each at most once
  StopMessage \* message::StopMessage, never given to send

ASSUME StopAssumption == StopMessage \notin Messages

VARIABLES
  running,    \* running_
  messages,   \* messages_, the queue of the tx thread
  promise,    \* promise[m]: what the future of m says
  sender,     \* sender[m]: program counter of the send() of m
  tx,         \* program counter of the tx thread
  node,       \* what the tx thread popped last
  rx,         \* program counter of the rx thread
  resets,     \* ConnectionReset events the rx thread raised
  socket,     \* "open" or "closed" by stop()
  lost,       \* the peer has gone
  written,    \* messages given to the socket, in order
  quit,       \* program counter of the stop() of event::Quit
  dtor        \* program counter of the destructor

ioVars  == <<socket, lost, written>>
txVars  == <<tx, node>>
rxVars  == <<rx, resets>>
vars == <<running, messages, promise, sender, txVars, rxVars, ioVars, quit, dtor>>

Init ==
  /\ running = FALSE
  /\ messages = <<>>
  /\ promise = [m \in Messages |-> "none"]
  /\ sender = [m \in Messages |-> "idle"]
  /\ tx = "none" /\ node = StopMessage
  /\ rx = "none" /\ resets = 0
  /\ socket = "open" /\ lost = FALSE /\ written = <<>>
  /\ quit = "none"
  /\ dtor = "none"

(* start(): the object is subscribed to Quit and both threads start.       *)
Start ==
  /\ tx = "none" /\ dtor = "none"
  /\ running' = TRUE
  /\ quit' = "subscribed"
  /\ tx' = "check" /\ rx' = "read"
  /\ UNCHANGED <<messages, promise, sender, node, resets, ioVars, dtor>>

-----------------------------------------------------------------------------
(* send(m), by a thread that holds a reference to the object.              *)

Answer(m, outcome) == promise' = [promise EXCEPT ![m] = outcome]

SendCheck(m) ==
  /\ sender[m] = "idle" /\ dtor = "none"
  /\ IF running
     THEN /\ sender' = [sender EXCEPT ![m] = "push"]
          /\ Answer(m, "pending")
     ELSE /\ sender' = [sender EXCEPT ![m] = "sent"]
          /\ Answer(m, "exception")
  /\ UNCHANGED <<running, messages, txVars, rxVars, ioVars, quit, dtor>>

(* The message is put in front of those that wait. *)
PushVariant(m) == messages' = <<m>> \o messages

Push(m) == messages' = Append(messages, m)

(* running_ may have changed since it was checked.                         *)
SendPush(m) ==
  /\ sender[m] = "push"
  /\ sender' = [sender EXCEPT ![m] = "sent"]
  /\ Push(m)
  /\ UNCHANGED <<running, promise, txVars, rxVars, ioVars, quit, dtor>>

-----------------------------------------------------------------------------
(* tx_loop                                                                 *)

TxCheck ==
  /\ tx = "check"
  /\ tx' = IF running THEN "pop" ELSE "ended"
  /\ UNCHANGED <<running, messages, promise, sender, node, rxVars, ioVars, quit,
                 dtor>>

TxPop ==
  /\ tx = "pop" /\ messages # <<>>
  /\ node' = Head(messages)
  /\ messages' = Tail(messages)
  /\ tx' = "popped"
  /\ UNCHANGED <<running, promise, sender, rxVars, ioVars, quit, dtor>>

(* The promise of a StopMessage has no future. *)
AnswerNode(outcome) ==
  IF node = StopMessage THEN UNCHANGED promise ELSE Answer(node, outcome)

TxRefuse ==
  /\ tx = "popped" /\ ~running
  /\ AnswerNode("exception")
  /\ tx' = "check"
  /\ UNCHANGED <<running, messages, sender, node, rxVars, ioVars, quit, dtor>>

TxInject ==
  /\ tx = "popped" /\ running
  /\ tx' = "inject"
  /\ UNCHANGED <<running, messages, promise, sender, node, rxVars, ioVars, quit,
                 dtor>>

(* The listener of the message: create_packet and AsyncProtocol::write,    *)
(* which only logs that it has nothing to write to after stop().           *)
TxSkipWrite ==
  /\ tx = "inject" /\ ~running
  /\ AnswerNode("value")
  /\ tx' = "check"
  /\ UNCHANGED <<running, messages, sender, node, rxVars, ioVars, quit, dtor>>

TxEnterWrite ==
  /\ tx = "inject" /\ running
  /\ tx' = "write"
  /\ UNCHANGED <<running, messages, promise, sender, node, rxVars, ioVars, quit,
                 dtor>>

(* The exception of a failed write is swallowed. *)
TxWriteResultVariant(m) ==
  /\ AnswerNode("value")
  /\ \/ socket = "open" /\ written' = Append(written, m)
     \/ (socket = "closed" \/ lost) /\ UNCHANGED written

(* io_->write: the data goes to the socket, or an exception comes back; a  *)
(* connection that the peer has left may do either.                        *)
TxWriteResult(m) ==
  \/ /\ socket = "open"
     /\ written' = Append(written, m)
     /\ AnswerNode("value")
  \/ /\ socket = "closed" \/ lost
     /\ AnswerNode("exception")
     /\ UNCHANGED written

TxWrite ==
  /\ tx = "write"
  /\ TxWriteResult(node)
  /\ tx' = "check"
  /\ UNCHANGED <<running, messages, sender, node, rxVars, socket, lost, quit, dtor>>

-----------------------------------------------------------------------------
(* rx_loop                                                                 *)

(* The reset is reported whoever caused it. *)
ReportsVariant == TRUE

(* After stop() the reset is the protocol's own doing. *)
Reports == running

(* io_->read throws IOReset: the socket is closed or the peer has gone.    *)
RxReset ==
  /\ rx = "read" /\ (socket = "closed" \/ lost)
  /\ rx' = IF Reports THEN "raise" ELSE "ended"
  /\ UNCHANGED <<running, messages, promise, sender, txVars, resets, ioVars, quit,
                 dtor>>

(* The loop goes on after it reported the reset. *)
RxRaiseVariant ==
  /\ rx = "raise"
  /\ resets' = resets + 1
  /\ rx' = "read"
  /\ UNCHANGED <<running, messages, promise, sender, txVars, ioVars, quit, dtor>>

RxRaise ==
  /\ rx = "raise"
  /\ resets' = resets + 1
  /\ rx' = "ended"
  /\ UNCHANGED <<running, messages, promise, sender, txVars, ioVars, quit, dtor>>

(* Data read after stop() ends the loop; before, it is parsed and raised,  *)
(* which changes nothing here.                                             *)
RxDrop ==
  /\ rx = "read" /\ ~running /\ socket = "open"
  /\ rx' = "ended"
  /\ UNCHANGED <<running, messages, promise, sender, txVars, resets, ioVars, quit,
                 dtor>>

PeerLoss ==
  /\ ~lost
  /\ lost' = TRUE
  /\ UNCHANGED <<running, messages, promise, sender, txVars, rxVars, socket,
                 written, quit, dtor>>

-----------------------------------------------------------------------------
(* stop(), by the dispatcher (quit) or by the destructor (dtor).           *)

(* The caller that ends its stop() goes on with what it was doing. *)
AfterStop(caller) == IF caller = "quit" THEN "done" ELSE "joinTx"

StopStep(caller, from, to) ==
  \/ caller = "quit" /\ quit = from /\ quit' = to /\ UNCHANGED dtor
  \/ caller = "dtor" /\ dtor = from /\ dtor' = to /\ UNCHANGED quit

(* The event Quit: the subscription outlives the object. *)
Quit ==
  /\ quit = "subscribed" /\ dtor # "destroyed"
  /\ quit' = "stop"
  /\ UNCHANGED <<running, messages, promise, sender, txVars, rxVars, ioVars, dtor>>

(* The last reference goes: nobody is in send().  The dispatcher may be in *)
(* stop(): it holds none.                                                  *)
Destroy ==
  /\ dtor = "none" /\ \A m \in Messages : sender[m] # "push"
  /\ dtor' = IF tx = "none" THEN "destroyed" ELSE "stop"
  /\ UNCHANGED <<running, messages, promise, sender, txVars, rxVars, ioVars, quit>>

StopFlag(caller) ==
  /\ StopStep(caller, "stop", "wake")
  /\ running' = FALSE
  /\ UNCHANGED <<messages, promise, sender, txVars, rxVars, ioVars>>

(* Only a queue that is not empty gets the StopMessage. *)
WakesVariant == messages # <<>>

Wakes == messages = <<>>

(* empty() and push() are two critical sections of the queue.              *)
StopSeeQueue(caller) ==
  /\ StopStep(caller, "wake", IF Wakes THEN "push" ELSE "reset")
  /\ UNCHANGED <<running, messages, promise, sender, txVars, rxVars, ioVars>>

StopPush(caller) ==
  /\ StopStep(caller, "push", "reset")
  /\ messages' = Append(messages, StopMessage)
  /\ UNCHANGED <<running, promise, sender, txVars, rxVars, ioVars>>

StopReset(caller) ==
  /\ StopStep(caller, "reset", AfterStop(caller))
  /\ socket' = "closed"
  /\ UNCHANGED <<running, messages, promise, sender, txVars, rxVars, lost, written>>

(* ~Thread joins; the promises of the messages left in the queue break.    *)
JoinTx ==
  /\ dtor = "joinTx" /\ tx = "ended"
  /\ dtor' = "messages"
  /\ UNCHANGED <<running, messages, promise, sender, txVars, rxVars, ioVars, quit>>

(* The queue is destroyed with its nodes, not their promises. *)
BreakVariant == UNCHANGED promise

Break == promise' = [m \in Messages |->
                       IF \E i \in 1 .. Len(messages) : messages[i] = m
                       THEN "broken" ELSE promise[m]]

DestroyMessages ==
  /\ dtor = "messages"
  /\ dtor' = "joinRx"
  /\ Break
  /\ messages' = <<>>
  /\ UNCHANGED <<running, sender, txVars, rxVars, ioVars, quit>>

JoinRx ==
  /\ dtor = "joinRx" /\ rx = "ended"
  /\ dtor' = "destroyed"
  /\ UNCHANGED <<running, messages, promise, sender, txVars, rxVars, ioVars, quit>>

-----------------------------------------------------------------------------
Send(m) == SendCheck(m) \/ SendPush(m)
Tx == TxCheck \/ TxPop \/ TxRefuse \/ TxInject \/ TxSkipWrite \/ TxEnterWrite
Rx == RxReset \/ RxRaise \/ RxDrop
Stop(caller) ==
  StopFlag(caller) \/ StopSeeQueue(caller) \/ StopPush(caller) \/ StopReset(caller)
Callers == {"quit", "dtor"}
Destruct == JoinTx \/ DestroyMessages \/ JoinRx

Next ==
  \/ Start \/ PeerLoss \/ Quit \/ Destroy
  \/ \E m \in Messages : Send(m)
  \/ \E caller \in Callers : Stop(caller)
  \/ Tx \/ TxWrite \/ Rx \/ Destruct

Spec == Init /\ [][Next]_vars

(* The threads run.  A write to an open socket whose peer does not read    *)
(* may block for ever; on a closed one it returns.                         *)
Fairness ==
  /\ WF_vars(Tx) /\ WF_vars(TxWrite /\ socket = "closed") /\ WF_vars(Rx)
  /\ WF_vars(Stop("quit")) /\ WF_vars(Stop("dtor"))
  /\ WF_vars(Destruct)

FairSpec == Spec /\ Fairness

-----------------------------------------------------------------------------
StopStates == {"stop", "wake", "push", "reset"}

TypeOK ==
  /\ running \in BOOLEAN
  /\ messages \in Seq(Messages \cup {StopMessage})
  /\ promise \in [Messages -> {"none", "pending", "value", "exception", "broken"}]
  /\ sender \in [Messages -> {"idle", "push", "sent"}]
  /\ tx \in {"none", "check", "pop", "popped", "inject", "write", "ended"}
  /\ node \in Messages \cup {StopMessage}
  /\ rx \in {"none", "read", "raise", "ended"}
  /\ resets \in 0 .. 1
  /\ socket \in {"open", "closed"} /\ lost \in BOOLEAN
  /\ written \in Seq(Messages)
  /\ quit \in {"none", "subscribed", "done"} \cup StopStates
  /\ dtor \in {"none", "joinTx", "messages", "joinRx", "destroyed"} \cup StopStates

Written(m) == \E i \in 1 .. Len(written) : written[i] = m

(* What a future says is true: a message whose future holds an exception   *)
(* was not written, and one whose future holds a value was, unless stop()  *)
(* came between the two looks at running_ of the tx thread.                *)
FuturesAreHonest ==
  \A m \in Messages :
    /\ promise[m] \in {"exception", "broken"} => ~Written(m)
    /\ promise[m] = "value" /\ running => Written(m)

(* Nobody waits on a future for ever once the protocol is destroyed.       *)
NoFutureLeftPending ==
  dtor = "destroyed" => \A m \in Messages : promise[m] # "pending"

(* The loss that stop() causes itself is never reported as ConnectionReset.*)
OwnStopIsNotALoss == resets > 0 => lost

(* However stop(), send(), the two loops and the destructor meet, futures  *)
(* tell the truth, none is forgotten, and a reset is one.                  *)
StopsHonestly == FuturesAreHonest /\ NoFutureLeftPending /\ OwnStopIsNotALoss

(* The destructor gets through its joins, whatever the order of stop(),    *)
(* send() and the two loops, and even if Quit stops the protocol too.      *)
DestructorEnds == dtor = "stop" ~> dtor = "destroyed"

(* What the tx thread still has to deal with; a StopMessage among it, which *)
(* fails like any message that comes after stop().                         *)
Handling == tx \in {"popped", "inject", "write"}

Backlog == (IF Handling THEN <<node>> ELSE <<>>) \o messages

Outbox == INSTANCE Outbox WITH
            Messages <- Messages \cup {StopMessage},
            pending <- Backlog, out <- written

(* The queue, the tx thread and stop() implement a lossy FIFO: what is     *)
(* written was sent, once, and in the order in which it was queued.        *)
ImplementsOutbox == Outbox!Spec

=============================================================================
