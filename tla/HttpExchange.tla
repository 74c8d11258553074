---------------------------- MODULE HttpExchange ----------------------------
(***************************************************************************)
(* One connection of the HTTP server: the client, HttpProtocol, which cuts *)
(* what it reads into messages and writes the answers, HttpConnection and  *)
(* the controllers.  A controller answers by calls of HttpConnection: most *)
(* requests get one, but GalController's DELETE falls through to default,  *)
(* its handlers of PUT, POST and DELETE leave an unknown method to a catch *)
(* that only logs, and JsonController::profile answers before index_start  *)
(* does.                                                                   *)
(***************************************************************************)
EXTENDS Integers, FiniteSets, SequencesExt

CONSTANTS
  Kinds,   \* kinds of requests, of those that AnswersTo knows
  Bodies,  \* lengths of bodies; 0 without Content-Length
  MaxAsked \* bound: requests on the connection

ASSUME ExchangeAssumption ==
  /\ Kinds \subseteq {"served", "invalid", "fails", "delete", "profile", "unknown"}
  /\ Bodies \subseteq Nat /\ MaxAsked \in Nat \ {0}

VARIABLES
  asked,    \* the requests the client has sent
  stream,   \* what it wrote and the server has not read: <<request, part>>
  raw,      \* raw_input
  events,   \* closures of HttpConnection: messages, or <<>> for ConnectionReset
  handled,  \* history: the messages it has begun to handle
  todo,     \* answers the controller has still to give
  waits,    \* it waits for the future of the last one
  running,  \* running_ of HttpConnection
  ended,    \* HttpConnection and its protocol are destroyed
  queue,    \* messages_ of the protocol
  wire,     \* answers written and not taken
  got,      \* answers the client has taken for its requests, in order
  client    \* "idle", "waiting" or "closed"

clientVars == <<asked, got, client>>
rxVars == <<stream, raw>>
connVars == <<handled, todo, waits, running, ended>>
vars == <<clientVars, rxVars, events, connVars, queue, wire>>

Init ==
  /\ asked = <<>> /\ got = <<>> /\ client = "idle"
  /\ stream = <<>> /\ raw = <<>> /\ events = <<>>
  /\ handled = <<>> /\ todo = <<>> /\ waits = FALSE /\ running = TRUE /\ ended = FALSE
  /\ queue = <<>> /\ wire = <<>>

-----------------------------------------------------------------------------
(* The client: a browser, or GalRest with "Connection: Close".  It asks    *)
(* again only when it has an answer, and takes the next one that comes for *)
(* that of the request it waits for.                                       *)

Text(i, body) == <<<<i, "headers">>, <<i, "end">>>> \o [k \in 1..body |-> <<i, "body">>]

Ask(kind, close, body) ==
  /\ client = "idle" /\ Len(asked) < MaxAsked
  /\ asked' = Append(asked, [kind |-> kind, close |-> close, body |-> body])
  /\ stream' = stream \o Text(Len(asked) + 1, body)
  /\ client' = "waiting"
  /\ UNCHANGED <<got, raw, events, connVars, queue, wire>>

TakeVariant ==
  /\ wire # <<>> /\ client # "closed"
  /\ wire' = Tail(wire) /\ got' = Append(got, Head(wire))
  /\ client' = IF Head(wire).close THEN "closed" ELSE "idle"
  /\ UNCHANGED <<asked, rxVars, events, connVars, queue>>

Take ==
  /\ wire # <<>> /\ client # "closed"
  /\ wire' = Tail(wire)
  /\ IF client = "waiting"
     THEN /\ got' = Append(got, Head(wire))
          /\ client' = IF Head(wire).close THEN "closed" ELSE "idle"
     ELSE client' = "closed" /\ UNCHANGED got
  /\ UNCHANGED <<asked, rxVars, events, connVars, queue>>

(* It leaves, or sees that the server has.                                 *)
ClientClose ==
  /\ client # "closed"
  /\ client' = "closed"
  /\ UNCHANGED <<asked, got, rxVars, events, connVars, queue, wire>>

-----------------------------------------------------------------------------
(* HttpProtocol::parse, after each read of rx_loop: a message is all that  *)
(* was read, once the headers are complete and the body has its length.    *)

HeadersEnd(text) == SelectInSeq(text, LAMBDA t : t[2] = "end")
ContentLength(text) == asked[text[1][1]].body

CompleteVariant(text) == HeadersEnd(text) > 0
CompleteLaterVariant(text) ==
  HeadersEnd(text) > 0 /\ Len(text) - HeadersEnd(text) > ContentLength(text)
Complete(text) ==
  /\ HeadersEnd(text) > 0
  /\ ContentLength(text) = 0 \/ Len(text) - HeadersEnd(text) = ContentLength(text)

Read(n) ==
  /\ ~ended /\ n \in 1..Len(stream)
  /\ stream' = SubSeq(stream, n + 1, Len(stream))
  /\ LET text == raw \o SubSeq(stream, 1, n)
     IN IF Complete(text)
        THEN raw' = <<>> /\ events' = Append(events, text)
        ELSE raw' = text /\ UNCHANGED events
  /\ UNCHANGED <<clientVars, connVars, queue, wire>>

(* The rx thread reads the end of the connection: ConnectionReset.  After  *)
(* stop() nobody would run its closure.                                    *)
Reset ==
  /\ ~ended /\ client = "closed" /\ stream = <<>>
  /\ running /\ \A i \in DOMAIN events : events[i] # <<>>
  /\ events' = Append(events, <<>>)
  /\ UNCHANGED <<clientVars, rxVars, connVars, queue, wire>>

-----------------------------------------------------------------------------
(* The calls of HttpConnection that a controller makes, and whether each   *)
(* ends the connection: internal_error does, the others as the request     *)
(* says.  An answer names the header it carries: bad_request, not_found    *)
(* and the like say Keep-Alive whatever follows.                           *)

Single(status, close) == <<[status |-> status, ends |-> close]>>

AnswersTo(kind, close) ==
  CASE kind = "served"  -> Single("ok", close)
    [] kind = "invalid" -> Single("bad_request", close)
    [] kind = "fails"   -> Single("internal_error", TRUE)
    [] kind = "delete"  -> Single("bad_request", close) \o Single("not_implemented", close)
    [] kind = "profile" -> Single("not_found", close) \o Single("ok", close)
    [] kind = "unknown" -> <<>>

Idle == running /\ ~ended /\ todo = <<>> /\ ~waits

(* handle_request: the message is taken for the request it begins with. *)
Handle ==
  /\ Idle /\ events # <<>> /\ Head(events) # <<>>
  /\ events' = Tail(events)
  /\ handled' = Append(handled, Head(events))
  /\ LET r == asked[Head(events)[1][1]] IN todo' = AnswersTo(r.kind, r.close)
  /\ UNCHANGED <<clientVars, rxVars, waits, running, ended, queue, wire>>

HandleReset ==
  /\ Idle /\ events # <<>> /\ Head(events) = <<>>
  /\ events' = Tail(events)
  /\ running' = FALSE
  /\ UNCHANGED <<clientVars, rxVars, handled, todo, waits, ended, queue, wire>>

Of == handled[Len(handled)][1][1]

Answer ==
  /\ todo # <<>> /\ ~waits /\ ~ended
  /\ queue' = Append(queue, [of |-> Of, close |-> Head(todo).status = "ok" /\ asked[Of].close])
  /\ todo' = Tail(todo)
  /\ waits' = Head(todo).ends
  /\ UNCHANGED <<clientVars, rxVars, events, handled, running, ended, wire>>

(* The tx thread; what it writes after the client has gone is lost. *)
Write ==
  /\ queue # <<>> /\ ~ended
  /\ queue' = Tail(queue)
  /\ wire' = IF client = "closed" THEN wire ELSE Append(wire, Head(queue))
  /\ UNCHANGED <<clientVars, rxVars, events, connVars>>

(* f.get() returns, then stop(). *)
WrittenVariant == TRUE
Written == queue = <<>>

Stop ==
  /\ waits /\ Written
  /\ waits' = FALSE /\ running' = FALSE
  /\ UNCHANGED <<clientVars, rxVars, events, handled, todo, ended, queue, wire>>

(* f.get() throws what the write to a broken connection threw.             *)
(* GalController logs it and the loop goes on; from the others it leaves   *)
(* the controller, internal_error and the activity.                        *)
Throw ==
  /\ waits /\ queue = <<>> /\ client = "closed"
  /\ waits' = FALSE /\ todo' = <<>> /\ running' \in {running, FALSE}
  /\ UNCHANGED <<clientVars, rxVars, events, handled, ended, queue, wire>>

(* The loop ends and the protocol is destroyed with what it still holds. *)
End ==
  /\ ~running /\ todo = <<>> /\ ~waits /\ ~ended
  /\ ended' = TRUE /\ queue' = <<>>
  /\ UNCHANGED <<clientVars, rxVars, events, handled, todo, waits, running, wire>>

Next ==
  \/ \E kind \in Kinds, close \in BOOLEAN, body \in Bodies : Ask(kind, close, body)
  \/ Take \/ ClientClose
  \/ \E n \in 1..Len(stream) : Read(n)
  \/ Reset \/ Handle \/ HandleReset \/ Answer \/ Write \/ Stop \/ Throw \/ End

Spec == Init /\ [][Next]_vars

(* The threads of the server run, and the client reads what arrives; when  *)
(* all has arrived it sees the end of the connection.                      *)
ServerSteps == \/ \E n \in 1..Len(stream) : Read(n)
               \/ Handle \/ HandleReset \/ Answer \/ Stop \/ End
Fairness == /\ WF_vars(ServerSteps) /\ WF_vars(Write) /\ WF_vars(Take)
            /\ WF_vars(ClientClose /\ ended /\ wire = <<>>)
FairSpec == Spec /\ Fairness

-----------------------------------------------------------------------------

Tokens == (1..MaxAsked) \X {"headers", "end", "body"}
Statuses == {"ok", "bad_request", "internal_error", "not_implemented", "not_found"}

TypeOK ==
  /\ asked \in Seq([kind : Kinds, close : BOOLEAN, body : Bodies]) /\ Len(asked) <= MaxAsked
  /\ stream \in Seq(Tokens) /\ raw \in Seq(Tokens)
  /\ events \in Seq(Seq(Tokens)) /\ handled \in Seq(Seq(Tokens))
  /\ todo \in Seq([status : Statuses, ends : BOOLEAN])
  /\ {waits, running, ended} \subseteq BOOLEAN
  /\ \A s \in {queue, wire, got} : s \in Seq([of : 1..MaxAsked, close : BOOLEAN])
  /\ client \in {"idle", "waiting", "closed"} /\ Len(got) <= Len(asked)

(* Requests that get no answer, or two. *)
Odd == {i \in DOMAIN asked : Len(AnswersTo(asked[i].kind, asked[i].close)) # 1}

(* The k-th answer the client takes is that of its k-th request, unless an *)
(* earlier one was answered twice or not at all.                           *)
AnswersMatch ==
  \A k \in DOMAIN got : got[k].of = k \/ \E i \in Odd : i < k

(* As long as the answers match, every message is one whole request,       *)
(* however the stream was cut into reads.  (When they do not, the client   *)
(* may ask again while the server still reads, and two requests merge.)    *)
MessageIsRequest ==
  (\A k \in DOMAIN got : got[k].of = k) =>
     \A k \in DOMAIN handled : handled[k] = Text(k, asked[k].body)

(* Requests and answers of a connection stay in step.                      *)
ExchangeInStep == AnswersMatch /\ MessageIsRequest

(* The server ends a connection only when every answer it has given is     *)
(* written, unless the client has left first.                              *)
NoAnswerDropped ==
  [][(~ended /\ ended' /\ client # "closed") => queue = <<>>]_vars

(* A client that waits gets its answer or sees the end of the connection,  *)
(* unless it or an earlier request was answered twice or not at all.       *)
Answered == client = "waiting" ~> (client # "waiting" \/ Odd # {})

(* What is answered is written, and every request is answered.             *)
AnswersArrive == NoAnswerDropped /\ Answered

=============================================================================
