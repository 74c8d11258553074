------------------------------- MODULE MCHttp -------------------------------
(* What goes over HTTP: HttpExchange, a connection of the web server,      *)
(* IndexPage, the page that polls it, and GalCalls, the calls that the     *)
(* control element makes of its elements.  They share no state; part says  *)
(* which of them a behaviour is about, and the others stay as they began.  *)
EXTENDS HttpExchange, IndexPage, GalCalls

VARIABLE part

inPage == part = "page"
inCalls == part = "calls"

PartsInit == part \in {"exchange", "page", "calls"} /\ Init /\ PageInit /\ CallsInit

PartsNext ==
  \/ part = "exchange" /\ Next /\ UNCHANGED <<part, pageVars, callsVars>>
  \/ inPage /\ PageNext /\ UNCHANGED <<part, vars, callsVars>>
  \/ inCalls /\ CallsNext /\ UNCHANGED <<part, vars, pageVars>>

(* The fairness of the three; that of HttpExchange asks nothing of its     *)
(* initial state.                                                          *)
PageFairness ==
  /\ WF_pageVars(inPage /\ Load) /\ WF_pageVars(inPage /\ Poll)
  /\ WF_pageVars(inPage /\ Sample)
  /\ SF_pageVars(inPage /\ ReadElements) /\ WF_pageVars(inPage /\ SomeEnds)
  /\ SF_pageVars(inPage /\ FreshRead) /\ SF_pageVars(inPage /\ FreshArrival)

CallsFairness ==
  /\ WF_callsVars(inCalls /\ ~crashed /\ Dispatch)
  /\ \A c \in Callers : WF_callsVars(inCalls /\ ~crashed /\ Caller(c))
  /\ \A i \in Ids : WF_callsVars(inCalls /\ ~crashed /\ ReadResponse(i))

PartsSpec == /\ PartsInit /\ [][PartsNext]_<<part, vars, pageVars, callsVars>>
             /\ Fairness /\ PageFairness /\ CallsFairness

-----------------------------------------------------------------------------
(* The type invariants of all three; and the promises of IndexPage and     *)
(* GalCalls that begin only with their part, stated there.                 *)

PartsTypeOK == TypeOK /\ PageTypeOK /\ CallsTypeOK
PartsPageConverges == inPage => PageConverges
PartsAnsweredReturns == inCalls => AnsweredReturns

=============================================================================
