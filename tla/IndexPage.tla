----------------------------- MODULE IndexPage -----------------------------
(***************************************************************************)
(* The first page of the web user interface (main.js, FE.js) and the       *)
(* answers of JsonController it lives on.  The page draws what the answer  *)
(* to /json/index_start holds, then asks for /json/index_update with a     *)
(* timer that does not wait for the answer before: the requests travel on  *)
(* connections of their own, each served by its own thread, and answers    *)
(* come in any order or not at all.  A callback runs to its end; an        *)
(* exception ends it where it is.                                          *)
(***************************************************************************)
EXTENDS Integers, SequencesExt, FiniteSetsExt

CONSTANTS
  Elements, \* service elements of the configuration
  History,  \* data.history.size of the control element
  Limit,    \* points of a chart before it shifts (100 in main.js)
  MaxTime,  \* bound: samples of the traffic
  MaxOpen   \* bound: requests without an answer

ASSUME PageAssumption ==
  /\ History \in Nat \ {0} /\ Limit \in Nat \ {0}
  /\ MaxTime \in Nat /\ MaxOpen \in Nat \ {0}

VARIABLES
  connected,  \* elements with a connection
  forwarding, \* elements that have introduced a Forwarding service
  now,        \* samples in device_traffic_, 1 the oldest
  page,       \* "loading", "ready"
  shown,      \* FElist
  awake,      \* elements drawn as connected
  series,     \* points of the series "Traffic"
  polls,      \* requests that the server has not begun to serve
  reading,    \* those that wait for the sensor: what they have read
  answers,    \* answers under way, in the order they read the sensor
  hadHistory, \* history: the page began with points
  overtaken   \* history: an answer came before an older one

server == <<connected, forwarding, now>>
requests == <<polls, reading, answers>>
drawing == <<page, shown, awake, series, hadHistory>>
pageVars == <<server, requests, drawing, overtaken>>

None == 0
Open == polls + Len(reading) + Len(answers)

PageInit ==
  /\ connected = {} /\ forwarding = {} /\ now = 0
  /\ page = "loading" /\ shown = {} /\ awake = {} /\ series = <<>>
  /\ polls = 0 /\ reading = <<>> /\ answers = <<>>
  /\ hadHistory = FALSE /\ overtaken = FALSE

-----------------------------------------------------------------------------
(* The control element.                                                    *)

Connect(e) ==
  /\ e \notin connected
  /\ connected' = connected \cup {e} /\ forwarding' = forwarding \cup {e}
  /\ UNCHANGED <<now, requests, drawing, overtaken>>

Disconnect(e) ==
  /\ e \in connected
  /\ connected' = connected \ {e}
  /\ UNCHANGED <<forwarding, now, requests, drawing, overtaken>>

(* read_device_traffic; without a measure there is no sample. *)
Sample ==
  /\ now < MaxTime
  /\ now' = now + 1
  /\ UNCHANGED <<connected, forwarding, requests, drawing, overtaken>>

(* index_update reads the elements, then waits for the sensor. *)
ReadElements ==
  /\ polls > 0
  /\ polls' = polls - 1 /\ reading' = Append(reading, connected)
  /\ UNCHANGED <<server, answers, drawing, overtaken>>

NewestVariant == Max({1, now - History + 1})
Newest == now

(* The back of the circular buffer; an empty array when the sensor fails.  *)
ReadTraffic(i, sample) ==
  /\ i \in 1..Len(reading) /\ sample \in {Newest, None}
  /\ reading' = RemoveAt(reading, i)
  /\ answers' = Append(answers, [connected |-> reading[i], sample |-> sample])
  /\ UNCHANGED <<server, polls, drawing, overtaken>>

-----------------------------------------------------------------------------
(* The page.                                                               *)

(* The answer to index_start: the elements of that moment and the samples  *)
(* in the circular buffer.                                                 *)
Load ==
  /\ page = "loading"
  /\ page' = "ready"
  /\ shown' = forwarding
  /\ awake' = forwarding \cap connected
  /\ series' = [i \in 1..Min({now, History}) |-> i + now - Min({now, History})]
  /\ hadHistory' = (now > 0)
  /\ UNCHANGED <<server, requests, overtaken>>

Poll ==
  /\ page = "ready" /\ Open < MaxOpen
  /\ polls' = polls + 1
  /\ UNCHANGED <<server, reading, answers, drawing, overtaken>>

(* series.data[len - 1] is a point and has no [0]: the test asks only      *)
(* whether there is a sample; without any point before it throws.          *)
ExtendsVariant(s, sample) == sample # None /\ Len(s) > 1
ExtendsAnyVariant(s, sample) == sample # None
Extends(s, sample) == Len(s) > 0 /\ sample # None

AddedVariant(s, sample) == Append(s, sample)
Added(s, sample) == Append(IF Len(s) > Limit THEN Tail(s) ELSE s, sample)

AwakeVariant(answer) == awake \cup (shown \cap answer.connected)
AwakeUnknownVariant(answer) == answer.connected
Awake(answer) == shown \cap answer.connected

Arrive(i) ==
  /\ i \in 1..Len(answers)
  /\ awake' = Awake(answers[i])
  /\ series' = IF Extends(series, answers[i].sample)
                 THEN Added(series, answers[i].sample) ELSE series
  /\ answers' = RemoveAt(answers, i)
  /\ overtaken' = (overtaken \/ i > 1)
  /\ UNCHANGED <<server, polls, reading, page, shown, hadHistory>>

(* No answer, or an error: the callback of getJSON is not called. *)
Fail ==
  /\ \/ polls > 0 /\ polls' = polls - 1 /\ UNCHANGED <<reading, answers>>
     \/ \E i \in 1..Len(reading) :
          reading' = RemoveAt(reading, i) /\ UNCHANGED <<polls, answers>>
     \/ \E i \in 1..Len(answers) :
          answers' = RemoveAt(answers, i) /\ UNCHANGED <<polls, reading>>
  /\ UNCHANGED <<server, drawing, overtaken>>

PageNext ==
  \/ \E e \in Elements : Connect(e) \/ Disconnect(e)
  \/ Sample \/ Load \/ Poll \/ ReadElements \/ Fail
  \/ \E i \in 1..MaxOpen : Arrive(i) \/ \E sample \in 0..MaxTime : ReadTraffic(i, sample)

PageSpec == PageInit /\ [][PageNext]_pageVars

(* The timer and the sampling go on and a request ends some time, be it    *)
(* with an error.  No request is sure of an answer, but the sensor and the *)
(* connection do not fail every one of them: an answer with the sample of  *)
(* that moment is given, and arrives, again and again.                     *)
FreshRead == \E i \in 1..MaxOpen : now > 0 /\ ReadTraffic(i, Newest)
FreshArrival == \E i \in 1..Len(answers) : answers[i].sample = now /\ Arrive(i)
SomeEnds == Fail \/ \E i \in 1..Len(answers) : Arrive(i)

FairPageSpec ==
  /\ PageSpec
  /\ WF_pageVars(Load) /\ WF_pageVars(Poll) /\ WF_pageVars(Sample)
  /\ SF_pageVars(ReadElements) /\ WF_pageVars(SomeEnds)
  /\ SF_pageVars(FreshRead) /\ SF_pageVars(FreshArrival)

-----------------------------------------------------------------------------

PageTypeOK ==
  /\ connected \subseteq forwarding /\ forwarding \subseteq Elements
  /\ now \in 0..MaxTime /\ page \in {"loading", "ready"}
  /\ awake \subseteq shown /\ shown \subseteq forwarding
  /\ series \in Seq(1..MaxTime)
  /\ polls \in Nat /\ reading \in Seq(SUBSET Elements)
  /\ answers \in Seq([connected : SUBSET Elements, sample : 0..MaxTime])
  /\ Open <= MaxOpen
  /\ hadHistory \in BOOLEAN /\ overtaken \in BOOLEAN

(* However long the page stays open, the chart holds no more points than   *)
(* the buffer it began with or Limit + 1 (the shift of Update).            *)
ChartBounded == Len(series) <= Max({History, Limit + 1})

(* The time axis runs forward unless an answer has overtaken an older one: *)
(* nothing but the order of the answers keeps the points in order, since   *)
(* the test of the last point in Update compares nothing.                  *)
ChartOrdered ==
  ~overtaken => \A i \in 1..Len(series) - 1 : series[i] <= series[i + 1]

(* A page opened before the first sample never draws any, as many as come: *)
(* Update throws at the missing last point.                                *)
EmptyChartStays == page = "ready" /\ ~hadHistory => series = <<>>

(* The chart is bounded, runs forward, and stays empty if it began so.     *)
ChartSound == ChartBounded /\ ChartOrdered /\ EmptyChartStays

(* A page that began with points shows the newest sample in the end, as    *)
(* late and as unordered as the answers to Update may be.                  *)
ChartKeepsUp == hadHistory ~> (series # <<>> /\ Last(series) = MaxTime)

(* An element that stays connected, or disconnected, is drawn so in the    *)
(* end, whatever the order of the answers was, if the page knows it.       *)
StatusConverges ==
  \A e \in Elements :
    /\ <>[](e \in connected /\ e \in shown) => <>[](e \in awake)
    /\ <>[](e \notin connected) => <>[](e \notin awake)

(* What the page shows becomes true, whatever overtook what.               *)
PageConverges == ChartKeepsUp /\ StatusConverges

=============================================================================
