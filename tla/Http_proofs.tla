---------------------------- MODULE Http_proofs ----------------------------
(***************************************************************************)
(* Proofs about what goes over HTTP: HttpExchange, IndexPage and GalCalls, *)
(* for any values of their constants.                                      *)
(***************************************************************************)
EXTENDS MCHttp, SequenceTheorems, WellFoundedInduction, TLAPS

-----------------------------------------------------------------------------
(* Numbers and sequences.                                                  *)

LEMMA LeastOf ==
  ASSUME NEW S, S \subseteq Nat, S # {}
  PROVE  Min(S) \in S /\ \A k \in S : Min(S) <= k
<1> DEFINE R == OpToRel(<, Nat)
<1>1. \A x, y \in Nat : x < y => <<x, y>> \in R
  BY DEF OpToRel
<1>2. IsWellFoundedOn(R, Nat)
  BY NatLessThanWellFounded
<1> HIDE DEF R
<1>3. PICK x \in S : \A y \in S : ~ (<<y, x>> \in R)
  BY <1>2, WFMin
<1>4. \A y \in S : x <= y
  <2> TAKE y \in S
  <2>1. x \in Nat /\ y \in Nat /\ ~(y < x)
    BY <1>1, <1>3
  <2> QED BY <2>1
<1> QED BY <1>3, <1>4 DEF Min

LEMMA AppendElements ==
  ASSUME NEW S, NEW s \in Seq(S), NEW e \in S
  PROVE  /\ Append(s, e) \in Seq(S)
         /\ Len(Append(s, e)) = Len(s) + 1
         /\ DOMAIN Append(s, e) = 1..Len(s) + 1
         /\ DOMAIN s = 1..Len(s) /\ Len(s) \in Nat
         /\ \A i \in 1..Len(s) : Append(s, e)[i] = s[i]
         /\ Append(s, e)[Len(s) + 1] = e
BY AppendProperties, LenProperties

LEMMA TailElements ==
  ASSUME NEW S, NEW s \in Seq(S), s # <<>>
  PROVE  /\ Tail(s) \in Seq(S) /\ Head(s) \in S /\ Head(s) = s[1]
         /\ Len(s) \in Nat /\ Len(s) > 0 /\ DOMAIN s = 1..Len(s)
         /\ Len(Tail(s)) = Len(s) - 1 /\ DOMAIN Tail(s) = 1..Len(s) - 1
         /\ \A i \in 1..Len(s) - 1 : Tail(s)[i] = s[i + 1]
<1>1. /\ Tail(s) \in Seq(S) /\ Head(s) \in S /\ Head(s) = s[1]
      /\ Len(Tail(s)) = Len(s) - 1
      /\ \A i \in 1..Len(Tail(s)) : Tail(s)[i] = s[i + 1]
  BY HeadTailProperties
<1>2. Len(s) \in Nat /\ DOMAIN s = 1..Len(s) /\ Len(s) # 0
  BY LenProperties, EmptySeq
<1>3. DOMAIN Tail(s) = 1..Len(Tail(s))
  BY <1>1, LenProperties
<1> QED BY <1>1, <1>2, <1>3

LEMMA RemoveElements ==
  ASSUME NEW S, NEW s \in Seq(S), NEW p \in 1..Len(s)
  PROVE  /\ RemoveAt(s, p) \in Seq(S)
         /\ Len(RemoveAt(s, p)) = Len(s) - 1
         /\ \A i \in 1..Len(s) - 1 :
              RemoveAt(s, p)[i] = IF i < p THEN s[i] ELSE s[i + 1]
<1> DEFINE l == SubSeq(s, 1, p - 1)
           r == SubSeq(s, p + 1, Len(s))
<1>0. Len(s) \in Nat /\ p \in Int /\ \A i \in 1..Len(s) : s[i] \in S
  BY LenProperties, ElementOfSeq
<1>1. /\ l \in Seq(S) /\ Len(l) = p - 1
      /\ \A i \in 1..p - 1 : l[i] = s[i]
  <2>1. p - 1 \in Int /\ 1 \in Int /\ \A i \in 1..p - 1 : s[i] \in S
    BY <1>0
  <2>2. /\ l \in Seq(S) /\ Len(l) = IF 1 <= p - 1 THEN p - 1 - 1 + 1 ELSE 0
        /\ \A i \in 1..p - 1 - 1 + 1 : l[i] = s[1 + i - 1]
    BY <2>1, SubSeqProperties
  <2> HIDE DEF l
  <2> QED BY <1>0, <2>2
<1>2. /\ r \in Seq(S) /\ Len(r) = Len(s) - p
      /\ \A i \in 1..Len(s) - p : r[i] = s[p + i]
  <2>1. p + 1 \in Int /\ Len(s) \in Int /\ \A i \in p + 1..Len(s) : s[i] \in S
    BY <1>0
  <2>2. /\ r \in Seq(S)
        /\ Len(r) = IF p + 1 <= Len(s) THEN Len(s) - (p + 1) + 1 ELSE 0
        /\ \A i \in 1..Len(s) - (p + 1) + 1 : r[i] = s[p + 1 + i - 1]
    BY <2>1, SubSeqProperties
  <2> HIDE DEF r
  <2> QED BY <1>0, <2>2
<1>3. RemoveAt(s, p) = l \o r
  BY DEF RemoveAt
<1> HIDE DEF l, r
<1>4. /\ l \o r \in Seq(S) /\ Len(l \o r) = Len(l) + Len(r)
      /\ \A i \in 1..Len(l) + Len(r) :
           (l \o r)[i] = IF i <= Len(l) THEN l[i] ELSE r[i - Len(l)]
  BY <1>1, <1>2, ConcatProperties
<1>5. ASSUME NEW i \in 1..Len(s) - 1
      PROVE  (l \o r)[i] = IF i < p THEN s[i] ELSE s[i + 1]
  <2>1. i \in 1..Len(l) + Len(r)
    BY <1>0, <1>1, <1>2
  <2>2. CASE i < p
    BY <1>0, <1>1, <1>4, <2>1, <2>2
  <2>3. CASE ~(i < p)
    <3>1. i - Len(l) \in 1..Len(s) - p /\ ~(i <= Len(l))
      BY <1>0, <1>1, <2>3
    <3>2. r[i - Len(l)] = s[p + (i - Len(l))]
      BY <1>2, <3>1
    <3>3. p + (i - Len(l)) = i + 1
      BY <1>0, <1>1
    <3> QED BY <1>4, <2>1, <2>3, <3>1, <3>2, <3>3
  <2> QED BY <2>2, <2>3
<1> QED BY <1>0, <1>1, <1>2, <1>3, <1>4, <1>5

Among(s, e) == \E k \in DOMAIN s : s[k] = e

LEMMA AmongAppend ==
  ASSUME NEW S, NEW s \in Seq(S), NEW e \in S
  PROVE  /\ \A x : Among(Append(s, e), x) <=> Among(s, x) \/ x = e
         /\ IsInjective(s) /\ ~Among(s, e) => IsInjective(Append(s, e))
<1> DEFINE t == Append(s, e)
<1>1. /\ DOMAIN t = 1..Len(s) + 1 /\ DOMAIN s = 1..Len(s) /\ Len(s) \in Nat
      /\ \A i \in 1..Len(s) : t[i] = s[i]
      /\ t[Len(s) + 1] = e
  BY AppendElements
<1> HIDE DEF t
<1>2. /\ \A i \in DOMAIN t : i \in DOMAIN s \/ i = Len(s) + 1
      /\ Len(s) + 1 \in DOMAIN t
      /\ \A i \in DOMAIN s : i \in DOMAIN t /\ t[i] = s[i]
  BY <1>1
<1>3. \A x : Among(t, x) <=> Among(s, x) \/ x = e
  BY <1>1, <1>2 DEF Among
<1>4. ASSUME IsInjective(s), ~Among(s, e) PROVE IsInjective(t)
  BY <1>1, <1>2, <1>4 DEF Among, IsInjective
<1> QED BY <1>3, <1>4 DEF t

LEMMA AmongTail ==
  ASSUME NEW S, NEW s \in Seq(S), s # <<>>
  PROVE  /\ \A x : Among(s, x) <=> Among(Tail(s), x) \/ x = Head(s)
         /\ IsInjective(s) => IsInjective(Tail(s)) /\ ~Among(Tail(s), Head(s))
<1> DEFINE t == Tail(s)
           h == Head(s)
<1>1. /\ h = s[1] /\ Len(s) \in Nat /\ Len(s) > 0 /\ DOMAIN s = 1..Len(s)
      /\ DOMAIN t = 1..Len(s) - 1
      /\ \A i \in 1..Len(s) - 1 : t[i] = s[i + 1]
  BY TailElements
<1> HIDE DEF t, h
<1>2. /\ \A i \in DOMAIN t : i + 1 \in DOMAIN s /\ i + 1 # 1 /\ i \in Int /\ t[i] = s[i + 1]
      /\ 1 \in DOMAIN s
      /\ \A i \in DOMAIN s : i = 1 \/ (i - 1 \in DOMAIN t /\ t[i - 1] = s[i])
  BY <1>1
<1>3. \A x : Among(s, x) <=> Among(t, x) \/ x = h
  BY <1>1, <1>2 DEF Among
<1>4. ASSUME IsInjective(s) PROVE IsInjective(t) /\ ~Among(t, h)
  <2>1. ASSUME NEW a \in DOMAIN t, NEW b \in DOMAIN t, t[a] = t[b] PROVE a = b
    <3>1. a + 1 = b + 1
      BY <1>2, <1>4, <2>1 DEF IsInjective
    <3> QED BY <1>2, <3>1
  <2>2. ASSUME NEW a \in DOMAIN t PROVE t[a] # h
    BY <1>1, <1>2, <1>4 DEF IsInjective
  <2> QED BY <2>1, <2>2 DEF IsInjective, Among
<1> QED BY <1>3, <1>4 DEF t, h

LEMMA AmongRest ==
  ASSUME NEW S, NEW s \in Seq(S), NEW p \in DOMAIN s, IsInjective(s)
  PROVE  /\ RemoveAt(s, p) \in Seq(S) /\ IsInjective(RemoveAt(s, p))
         /\ \A x : Among(RemoveAt(s, p), x) <=> Among(s, x) /\ x # s[p]
<1> DEFINE t == RemoveAt(s, p)
<1>1. DOMAIN s = 1..Len(s) /\ Len(s) \in Nat /\ p \in 1..Len(s)
  BY LenProperties
<1>2. /\ t \in Seq(S) /\ Len(t) = Len(s) - 1
      /\ \A i \in 1..Len(s) - 1 : t[i] = IF i < p THEN s[i] ELSE s[i + 1]
  BY <1>1, RemoveElements
<1>3. DOMAIN t = 1..Len(s) - 1
  BY <1>2, LenProperties
<1> HIDE DEF t
<1> DEFINE to == [i \in 1..Len(s) - 1 |-> IF i < p THEN i ELSE i + 1]
<1>4. \A i \in DOMAIN t : to[i] \in DOMAIN s /\ to[i] # p /\ t[i] = s[to[i]]
  BY <1>1, <1>2, <1>3
<1>5. \A i, j \in DOMAIN t : to[i] = to[j] => i = j
  BY <1>1, <1>3
<1> HIDE DEF to
<1>6. IsInjective(t)
  BY <1>4, <1>5 DEF IsInjective
<1>7. ASSUME NEW i \in DOMAIN t PROVE Among(s, t[i]) /\ t[i] # s[p]
  BY <1>4 DEF IsInjective, Among
<1>8. ASSUME NEW k \in DOMAIN s, k # p PROVE Among(t, s[k])
  <2>1. CASE k < p
    BY <1>1, <1>2, <1>3, <2>1 DEF Among
  <2>2. CASE ~(k < p)
    <3>1. k - 1 \in DOMAIN t /\ ~(k - 1 < p) /\ (k - 1) + 1 = k
      BY <1>1, <1>3, <1>8, <2>2
    <3>2. t[k - 1] = s[k]
      BY <1>2, <1>3, <3>1
    <3> QED BY <3>1, <3>2 DEF Among
  <2> QED BY <2>1, <2>2
<1>9. \A x : Among(t, x) <=> Among(s, x) /\ x # s[p]
  BY <1>7, <1>8 DEF Among
<1> QED BY <1>2, <1>6, <1>9 DEF t


-----------------------------------------------------------------------------
(* IndexPage: the invariant.                                               *)

(* While the page loads, it has asked nothing and drawn nothing. *)
LoadingInv ==
  page = "loading" => polls = 0 /\ reading = <<>> /\ answers = <<>> /\ series = <<>>

ShortInv == Len(series) <= History \/ Len(series) <= Limit + 1

SamplesPast == \A k \in DOMAIN answers : answers[k].sample <= now

Fresh(k) == k \in DOMAIN answers /\ answers[k].sample # None

(* As long as no answer has overtaken another, what is drawn is in order,  *)
(* what is under way is in order, and the one comes before the other.      *)
OrderInv ==
  ~overtaken =>
    /\ \A i, j \in DOMAIN series : i <= j => series[i] <= series[j]
    /\ \A i \in DOMAIN series : series[i] <= now
    /\ \A i, j : Fresh(i) /\ Fresh(j) /\ i <= j => answers[i].sample <= answers[j].sample
    /\ \A i \in DOMAIN series : \A j : Fresh(j) => series[i] <= answers[j].sample

PageInv ==
  PageTypeOK /\ LoadingInv /\ ShortInv /\ SamplesPast /\ OrderInv /\ EmptyChartStays

PageTypes ==
  /\ connected \subseteq forwarding /\ forwarding \subseteq Elements
  /\ now \in 0..MaxTime /\ page \in {"loading", "ready"}
  /\ awake \subseteq shown /\ shown \subseteq forwarding
  /\ hadHistory \in BOOLEAN /\ overtaken \in BOOLEAN

PageSeqs ==
  /\ series \in Seq(1..MaxTime)
  /\ reading \in Seq(SUBSET Elements)
  /\ answers \in Seq([connected : SUBSET Elements, sample : 0..MaxTime])

LEMMA PageTyped ==
  ASSUME PageInv
  PROVE  /\ PageTypes /\ PageSeqs
         /\ DOMAIN series = 1..Len(series) /\ Len(series) \in Nat
         /\ DOMAIN answers = 1..Len(answers) /\ Len(answers) \in Nat
         /\ DOMAIN reading = 1..Len(reading) /\ Len(reading) \in Nat
         /\ polls \in Nat /\ polls + Len(reading) + Len(answers) <= MaxOpen
         /\ \A i \in DOMAIN series : series[i] \in 1..MaxTime
         /\ \A i \in DOMAIN answers :
              answers[i] \in [connected : SUBSET Elements, sample : 0..MaxTime]
         /\ \A i \in DOMAIN reading : reading[i] \subseteq Elements
<1>1. PageTypes /\ PageSeqs /\ polls \in Nat /\ polls + Len(reading) + Len(answers) <= MaxOpen
  BY DEF PageInv, PageTypeOK, PageTypes, PageSeqs, Open
<1>2. /\ DOMAIN series = 1..Len(series) /\ Len(series) \in Nat
      /\ DOMAIN answers = 1..Len(answers) /\ Len(answers) \in Nat
      /\ DOMAIN reading = 1..Len(reading) /\ Len(reading) \in Nat
  BY <1>1, LenProperties DEF PageSeqs
<1>3. \A i \in DOMAIN series : series[i] \in 1..MaxTime
  BY <1>1, <1>2, ElementOfSeq DEF PageSeqs
<1>4. \A i \in DOMAIN answers :
        answers[i] \in [connected : SUBSET Elements, sample : 0..MaxTime]
  BY <1>1, <1>2, ElementOfSeq DEF PageSeqs
<1>5. \A i \in DOMAIN reading : reading[i] \in SUBSET Elements
  BY <1>1, <1>2, ElementOfSeq DEF PageSeqs
<1> QED BY <1>1, <1>2, <1>3, <1>4, <1>5

LEMMA PageTypeFrom ==
  ASSUME PageTypes, PageSeqs, polls \in Nat,
         polls + Len(reading) + Len(answers) <= MaxOpen
  PROVE  PageTypeOK
BY DEF PageTypes, PageSeqs, PageTypeOK, Open

(* The least of the length of the traffic and the history. *)
LEMMA LesserOf ==
  ASSUME NEW a \in Nat, NEW b \in Nat
  PROVE  Min({a, b}) = IF a <= b THEN a ELSE b
<1>1. Min({a, b}) \in {a, b} /\ \A k \in {a, b} : Min({a, b}) <= k
  BY LeastOf
<1> QED BY <1>1

LEMMA GreaterOf ==
  ASSUME NEW a \in Nat, NEW b \in Nat
  PROVE  Max({a, b}) \in Nat /\ Max({a, b}) >= a /\ Max({a, b}) >= b
<1>1. \E x \in {a, b} : \A y \in {a, b} : x >= y
  <2>1. CASE a >= b
    BY <2>1
  <2>2. CASE b >= a
    BY <2>2
  <2> QED BY <2>1, <2>2
<1>2. Max({a, b}) \in {a, b} /\ \A k \in {a, b} : Max({a, b}) >= k
  BY <1>1 DEF Max
<1> QED BY <1>2

(* Taking an answer away leaves the others in their order. *)
LEMMA RestInOrder ==
  ASSUME NEW S, NEW s \in Seq(S), NEW p \in 1..Len(s)
  PROVE  /\ RemoveAt(s, p) \in Seq(S) /\ Len(RemoveAt(s, p)) = Len(s) - 1
         /\ \E to \in [DOMAIN RemoveAt(s, p) -> DOMAIN s] :
              /\ \A i \in DOMAIN RemoveAt(s, p) : RemoveAt(s, p)[i] = s[to[i]]
              /\ \A i, j \in DOMAIN RemoveAt(s, p) : i <= j => to[i] <= to[j]
              /\ p = 1 => \A i \in DOMAIN RemoveAt(s, p) : to[i] > 1
<1> DEFINE t == RemoveAt(s, p)
<1>1. /\ t \in Seq(S) /\ Len(t) = Len(s) - 1
      /\ \A i \in 1..Len(s) - 1 : t[i] = IF i < p THEN s[i] ELSE s[i + 1]
  BY RemoveElements
<1>2. /\ DOMAIN t = 1..Len(s) - 1 /\ DOMAIN s = 1..Len(s)
      /\ Len(s) \in Nat /\ p \in Nat
  BY <1>1, LenProperties
<1> HIDE DEF t
<1> DEFINE to == [i \in DOMAIN t |-> IF i < p THEN i ELSE i + 1]
<1>3. to \in [DOMAIN t -> DOMAIN s]
  BY <1>2
<1>4. \A i \in DOMAIN t : t[i] = s[to[i]]
  BY <1>1, <1>2
<1>5. /\ \A i, j \in DOMAIN t : i <= j => to[i] <= to[j]
      /\ p = 1 => \A i \in DOMAIN t : to[i] > 1
  BY <1>2
<1> HIDE DEF to
<1>6. \E f \in [DOMAIN t -> DOMAIN s] :
         /\ \A i \in DOMAIN t : t[i] = s[f[i]]
         /\ \A i, j \in DOMAIN t : i <= j => f[i] <= f[j]
         /\ p = 1 => \A i \in DOMAIN t : f[i] > 1
  BY <1>3, <1>4, <1>5
<1> QED BY <1>1, <1>6 DEF t

-----------------------------------------------------------------------------
(* Every step keeps it.                                                    *)

(* Steps that leave the drawing alone and take answers away at most. *)
LEMMA ChartUntouched ==
  ASSUME PageInv, UNCHANGED <<page, series, hadHistory, overtaken>>,
         now' \in Nat, now' >= now,
         answers' = answers \/ \E p \in 1..Len(answers) : answers' = RemoveAt(answers, p)
  PROVE  /\ ShortInv' /\ SamplesPast' /\ OrderInv' /\ EmptyChartStays'
         /\ answers' \in Seq([connected : SUBSET Elements, sample : 0..MaxTime])
         /\ Len(answers') \in Nat /\ Len(answers') <= Len(answers)
         /\ answers = <<>> => answers' = <<>>
         /\ answers' # answers => Len(answers') = Len(answers) - 1
<1>t. /\ DOMAIN answers = 1..Len(answers) /\ Len(answers) \in Nat /\ now \in Nat
      /\ answers \in Seq([connected : SUBSET Elements, sample : 0..MaxTime])
      /\ \A i \in DOMAIN series : series[i] \in Nat
      /\ \A i \in DOMAIN answers : answers[i].sample \in Nat
  BY PageTyped DEF PageTypes, PageSeqs
<1>1. ShortInv' /\ EmptyChartStays'
  BY DEF PageInv, ShortInv, EmptyChartStays
<1>2. CASE answers' = answers
  <2>1. SamplesPast'
    BY <1>t, <1>2 DEF PageInv, SamplesPast
  <2>2. OrderInv'
    BY <1>t, <1>2 DEF PageInv, OrderInv, Fresh
  <2> QED BY <1>1, <1>2, <1>t, <2>1, <2>2
<1>3. CASE \E p \in 1..Len(answers) : answers' = RemoveAt(answers, p)
  <2>1. PICK p \in 1..Len(answers) : answers' = RemoveAt(answers, p)
    BY <1>3
  <2>2. /\ answers' \in Seq([connected : SUBSET Elements, sample : 0..MaxTime])
        /\ Len(answers') = Len(answers) - 1
    BY <1>t, <2>1, RestInOrder
  <2>3. PICK to \in [DOMAIN answers' -> DOMAIN answers] :
          /\ \A i \in DOMAIN answers' : answers'[i] = answers[to[i]]
          /\ \A i, j \in DOMAIN answers' : i <= j => to[i] <= to[j]
    <3>1. \E f \in [DOMAIN RemoveAt(answers, p) -> DOMAIN answers] :
             /\ \A i \in DOMAIN RemoveAt(answers, p) : RemoveAt(answers, p)[i] = answers[f[i]]
             /\ \A i, j \in DOMAIN RemoveAt(answers, p) : i <= j => f[i] <= f[j]
             /\ p = 1 => \A i \in DOMAIN RemoveAt(answers, p) : f[i] > 1
      BY <1>t, RestInOrder
    <3> QED BY <2>1, <3>1
  <2>4. \A k \in DOMAIN answers' : to[k] \in DOMAIN answers /\ answers'[k] = answers[to[k]]
    BY <2>3
  <2>5. SamplesPast'
    BY <1>t, <2>4 DEF PageInv, SamplesPast
  <2>6. OrderInv'
    <3> SUFFICES ASSUME ~overtaken PROVE OrderInv'
      BY DEF OrderInv
    <3>1. \A k : Fresh(k)' => /\ k \in DOMAIN answers' /\ Fresh(to[k])
                              /\ answers'[k].sample = answers[to[k]].sample
      BY <2>4 DEF Fresh
    <3>2. \A i, j : Fresh(i)' /\ Fresh(j)' /\ i <= j =>
                      answers'[i].sample <= answers'[j].sample
      <4>1. \A i, j : Fresh(i)' /\ Fresh(j)' /\ i <= j => to[i] <= to[j]
        BY <2>3, <3>1
      <4> QED BY <3>1, <4>1 DEF PageInv, OrderInv
    <3>3. \A i \in DOMAIN series : \A j : Fresh(j)' => series[i] <= answers'[j].sample
      BY <3>1 DEF PageInv, OrderInv
    <3>4. /\ \A i, j \in DOMAIN series : i <= j => series[i] <= series[j]
          /\ \A i \in DOMAIN series : series[i] <= now'
      BY <1>t DEF PageInv, OrderInv
    <3> QED BY <3>2, <3>3, <3>4 DEF OrderInv
  <2>7. answers = <<>> => answers' = <<>>
    BY <2>1, <1>t, EmptySeq
  <2> QED BY <1>1, <1>t, <2>2, <2>5, <2>6, <2>7
<1> QED BY <1>2, <1>3

LEMMA ServerStep ==
  ASSUME PageInv, Sample \/ \E e \in Elements : Connect(e) \/ Disconnect(e)
  PROVE  PageInv'
<1>t. PageTypes /\ PageSeqs /\ polls \in Nat /\ polls + Len(reading) + Len(answers) <= MaxOpen
  BY PageTyped
<1>1. UNCHANGED <<requests, drawing, overtaken>>
  BY DEF Sample, Connect, Disconnect
<1>2. /\ now' \in 0..MaxTime /\ now' >= now
      /\ connected' \subseteq forwarding' /\ forwarding' \subseteq Elements
      /\ forwarding \subseteq forwarding'
  <2>1. CASE Sample
    BY <1>t, <2>1, PageAssumption DEF Sample, PageTypes
  <2>2. ASSUME NEW e \in Elements, Connect(e) \/ Disconnect(e)
        PROVE  /\ now' \in 0..MaxTime /\ now' >= now
               /\ connected' \subseteq forwarding' /\ forwarding' \subseteq Elements
               /\ forwarding \subseteq forwarding'
    BY <1>t, <2>2 DEF Connect, Disconnect, PageTypes
  <2> QED BY <2>1, <2>2
<1>3. PageTypes' /\ PageSeqs'
  BY <1>t, <1>1, <1>2 DEF PageTypes, PageSeqs, requests, drawing
<1>4. PageTypeOK'
  BY <1>t, <1>1, <1>3 DEF PageTypeOK, PageTypes, PageSeqs, Open, requests
<1>5. LoadingInv'
  BY <1>1 DEF PageInv, LoadingInv, requests, drawing
<1>6. ShortInv' /\ SamplesPast' /\ OrderInv' /\ EmptyChartStays'
  BY <1>1, <1>2, ChartUntouched DEF requests, drawing
<1> QED BY <1>4, <1>5, <1>6 DEF PageInv

LEMMA PollStep ==
  ASSUME PageInv, Poll \/ ReadElements
  PROVE  PageInv'
<1>t. /\ PageTypes /\ PageSeqs /\ polls \in Nat
      /\ polls + Len(reading) + Len(answers) <= MaxOpen
      /\ Len(reading) \in Nat /\ Len(answers) \in Nat
  BY PageTyped
<1>1. UNCHANGED <<server, answers, drawing, overtaken>>
  BY DEF Poll, ReadElements
<1>2. /\ polls' \in Nat /\ reading' \in Seq(SUBSET Elements)
      /\ polls' + Len(reading') + Len(answers) <= MaxOpen
  <2>1. CASE Poll
    BY <1>t, <2>1, PageAssumption DEF Poll, Open, PageSeqs
  <2>2. CASE ReadElements
    <3>1. Append(reading, connected) \in Seq(SUBSET Elements)
          /\ Len(Append(reading, connected)) = Len(reading) + 1
      BY <1>t, AppendElements DEF PageSeqs, PageTypes
    <3> QED BY <1>t, <2>2, <3>1 DEF ReadElements
  <2> QED BY <2>1, <2>2
<1>3. page' = "ready"
  BY <1>t DEF Poll, ReadElements, drawing, PageInv, LoadingInv, PageTypes
<1>4. PageTypes' /\ PageSeqs'
  BY <1>t, <1>1, <1>2 DEF PageTypes, PageSeqs, server, drawing
<1>5. PageTypeOK'
  BY <1>1, <1>2, <1>4 DEF PageTypeOK, PageTypes, PageSeqs, Open
<1>6. ShortInv' /\ SamplesPast' /\ OrderInv' /\ EmptyChartStays'
  BY <1>1, <1>t, ChartUntouched DEF server, drawing, PageTypes
<1> QED BY <1>3, <1>5, <1>6 DEF PageInv, LoadingInv

LEMMA FailStep ==
  ASSUME PageInv, Fail
  PROVE  PageInv'
<1>t. /\ PageTypes /\ PageSeqs /\ polls \in Nat
      /\ polls + Len(reading) + Len(answers) <= MaxOpen
      /\ Len(reading) \in Nat /\ Len(answers) \in Nat
  BY PageTyped
<1>1. UNCHANGED <<server, drawing, overtaken>>
  BY DEF Fail
<1>2. answers' = answers \/ \E p \in 1..Len(answers) : answers' = RemoveAt(answers, p)
  BY DEF Fail
<1>3. /\ ShortInv' /\ SamplesPast' /\ OrderInv' /\ EmptyChartStays'
      /\ answers' \in Seq([connected : SUBSET Elements, sample : 0..MaxTime])
      /\ Len(answers') \in Nat /\ Len(answers') <= Len(answers)
      /\ answers = <<>> => answers' = <<>>
  BY <1>1, <1>2, <1>t, ChartUntouched DEF server, drawing, PageTypes
<1>4. /\ polls' \in Nat /\ polls' <= polls /\ (polls = 0 => polls' = 0)
      /\ reading' \in Seq(SUBSET Elements)
      /\ Len(reading') \in Nat /\ Len(reading') <= Len(reading)
      /\ reading = <<>> => reading' = <<>>
  <2>1. CASE UNCHANGED reading
    BY <1>t, <2>1 DEF Fail, PageSeqs
  <2>2. ASSUME NEW i \in 1..Len(reading),
               reading' = RemoveAt(reading, i), UNCHANGED polls
        PROVE  /\ reading' \in Seq(SUBSET Elements)
               /\ Len(reading') \in Nat /\ Len(reading') <= Len(reading)
               /\ reading # <<>>
    <3>1. RemoveAt(reading, i) \in Seq(SUBSET Elements)
          /\ Len(RemoveAt(reading, i)) = Len(reading) - 1
      BY <1>t, RestInOrder DEF PageSeqs
    <3> QED BY <1>t, <2>2, <3>1, EmptySeq
  <2> QED BY <1>t, <2>1, <2>2 DEF Fail
<1>5. PageTypes' /\ PageSeqs'
  BY <1>t, <1>1, <1>3, <1>4 DEF PageTypes, PageSeqs, server, drawing
<1>6. polls' + Len(reading') + Len(answers') <= MaxOpen
  BY <1>t, <1>3, <1>4, PageAssumption
<1>7. PageTypeOK'
  BY <1>4, <1>5, <1>6 DEF PageTypeOK, PageTypes, PageSeqs, Open
<1>8. LoadingInv'
  BY <1>1, <1>3, <1>4 DEF PageInv, LoadingInv, drawing
<1> QED BY <1>3, <1>7, <1>8 DEF PageInv

LEMMA LoadStep ==
  ASSUME PageInv, Load
  PROVE  PageInv'
<1> DEFINE m == Min({now, History})
<1>t. /\ PageTypes /\ PageSeqs /\ polls \in Nat
      /\ polls + Len(reading) + Len(answers) <= MaxOpen
      /\ now \in 0..MaxTime /\ now \in Nat /\ MaxTime \in Nat /\ History \in Nat
  BY PageTyped, PageAssumption DEF PageTypes
<1>1. m \in Nat /\ m <= now /\ m <= History /\ (now = 0 => m = 0)
  BY <1>t, LesserOf
<1> HIDE DEF m
<1>2. /\ page = "loading" /\ page' = "ready" /\ shown' = forwarding
      /\ awake' = forwarding \cap connected
      /\ series' = [i \in 1..m |-> i + now - m] /\ hadHistory' = (now > 0)
      /\ UNCHANGED <<server, requests, overtaken>>
  BY DEF Load, m
<1>3. \A i \in 1..m : series'[i] = i + now - m /\ series'[i] \in 1..MaxTime /\ i \in Nat
  BY <1>t, <1>1, <1>2
<1>4. series' \in Seq(1..MaxTime) /\ Len(series') = m /\ DOMAIN series' = 1..m
  <2>1. DOMAIN series' = 1..m /\ series' \in [1..m -> 1..MaxTime]
    BY <1>2, <1>3
  <2>2. series' \in Seq(1..MaxTime)
    BY <1>1, <2>1, SeqDef
  <2> QED BY <1>1, <2>1, <2>2, LenProperties
<1>5. answers = <<>> /\ DOMAIN answers = {}
  BY <1>2, EmptySeq DEF PageInv, LoadingInv
<1>6. PageTypes' /\ PageSeqs'
  BY <1>t, <1>2, <1>4 DEF PageTypes, PageSeqs, server, requests
<1>7. PageTypeOK'
  BY <1>t, <1>2, <1>6 DEF PageTypeOK, PageTypes, PageSeqs, Open, requests
<1>8. LoadingInv' /\ ShortInv' /\ SamplesPast'
  BY <1>1, <1>2, <1>4, <1>5 DEF LoadingInv, ShortInv, SamplesPast, requests
<1>9. OrderInv'
  BY <1>t, <1>1, <1>2, <1>3, <1>4, <1>5 DEF OrderInv, Fresh, requests, server
<1>10. EmptyChartStays'
  <2> SUFFICES ASSUME ~(now > 0) PROVE series' = <<>>
    BY <1>2 DEF EmptyChartStays
  <2>1. m = 0
    BY <1>t, <1>1
  <2> QED BY <1>4, <2>1, EmptySeq
<1> QED BY <1>7, <1>8, <1>9, <1>10 DEF PageInv

LEMMA ReadTrafficStep ==
  ASSUME PageInv, NEW i \in 1..MaxOpen, NEW sample \in 0..MaxTime, ReadTraffic(i, sample)
  PROVE  PageInv'
<1> DEFINE a == [connected |-> reading[i], sample |-> sample]
<1>t. /\ PageTypes /\ PageSeqs /\ polls \in Nat
      /\ polls + Len(reading) + Len(answers) <= MaxOpen
      /\ Len(reading) \in Nat /\ Len(answers) \in Nat
      /\ DOMAIN answers = 1..Len(answers)
      /\ now \in Nat
      /\ \A k \in DOMAIN answers : answers[k].sample \in Nat
      /\ \A k \in DOMAIN series : series[k] \in Nat
      /\ \A k \in 1..Len(reading) : reading[k] \subseteq Elements
  BY PageTyped DEF PageTypes
<1>1. /\ i \in 1..Len(reading) /\ sample \in {now, None}
      /\ reading' = RemoveAt(reading, i) /\ answers' = Append(answers, a)
      /\ UNCHANGED <<server, polls, drawing, overtaken>>
  BY DEF ReadTraffic, Newest
<1>2. a \in [connected : SUBSET Elements, sample : 0..MaxTime] /\ a.sample = sample
  BY <1>t, <1>1
<1> HIDE DEF a
<1>3. /\ reading' \in Seq(SUBSET Elements) /\ Len(reading') = Len(reading) - 1
  BY <1>t, <1>1, RestInOrder DEF PageSeqs
<1>4. /\ answers' \in Seq([connected : SUBSET Elements, sample : 0..MaxTime])
      /\ Len(answers') = Len(answers) + 1 /\ DOMAIN answers' = 1..Len(answers) + 1
      /\ \A k \in 1..Len(answers) : answers'[k] = answers[k]
      /\ answers'[Len(answers) + 1] = a
  BY <1>t, <1>1, <1>2, AppendElements DEF PageSeqs
<1>5. PageTypes' /\ PageSeqs'
  BY <1>t, <1>1, <1>3, <1>4 DEF PageTypes, PageSeqs, server, drawing
<1>6. PageTypeOK'
  <2>1. polls' + Len(reading') + Len(answers') <= MaxOpen
    BY <1>t, <1>1, <1>3, <1>4, PageAssumption
  <2> QED BY <1>t, <1>1, <1>5, <2>1 DEF PageTypeOK, PageTypes, PageSeqs, Open
<1>7. page = "ready"
  <2>1. reading # <<>>
    BY <1>t, <1>1, EmptySeq
  <2> QED BY <1>t, <2>1 DEF PageInv, LoadingInv, PageTypes
<1>8. LoadingInv' /\ ShortInv' /\ EmptyChartStays'
  BY <1>1, <1>7 DEF PageInv, LoadingInv, ShortInv, EmptyChartStays, drawing
<1>9. \A k \in DOMAIN answers' : \/ k \in DOMAIN answers /\ answers'[k] = answers[k]
                                 \/ k = Len(answers) + 1 /\ answers'[k] = a
  BY <1>t, <1>4
<1>10. SamplesPast'
  BY <1>t, <1>1, <1>2, <1>9 DEF PageInv, SamplesPast, None, server
<1>11. OrderInv'
  <2> SUFFICES ASSUME ~overtaken PROVE OrderInv'
    BY <1>1 DEF OrderInv
  <2>1. \A k : Fresh(k)' => \/ Fresh(k) /\ answers'[k] = answers[k] /\ k <= Len(answers)
                            \/ k = Len(answers) + 1 /\ answers'[k].sample = now
    BY <1>t, <1>1, <1>2, <1>9 DEF Fresh
  <2>2. \A k : Fresh(k) => answers[k].sample <= now /\ k \in Nat
    BY <1>t DEF PageInv, SamplesPast, Fresh
  <2>3. \A k, l : Fresh(k)' /\ Fresh(l)' /\ k <= l =>
                    answers'[k].sample <= answers'[l].sample
    <3> TAKE k, l
    <3> HAVE Fresh(k)' /\ Fresh(l)' /\ k <= l
    <3>1. CASE Fresh(l) /\ answers'[l] = answers[l] /\ l <= Len(answers)
      <4>1. Fresh(k) /\ answers'[k] = answers[k]
        BY <1>t, <2>1, <2>2, <3>1
      <4> QED BY <3>1, <4>1 DEF PageInv, OrderInv
    <3>2. CASE l = Len(answers) + 1 /\ answers'[l].sample = now
      BY <1>t, <2>1, <2>2, <3>2
    <3> QED BY <2>1, <3>1, <3>2
  <2>4. \A k \in DOMAIN series : \A l : Fresh(l)' => series[k] <= answers'[l].sample
    BY <2>1 DEF PageInv, OrderInv
  <2>5. /\ \A k, l \in DOMAIN series : k <= l => series[k] <= series[l]
        /\ \A k \in DOMAIN series : series[k] <= now
    BY DEF PageInv, OrderInv
  <2> QED BY <1>1, <2>3, <2>4, <2>5 DEF OrderInv, server, drawing
<1> QED BY <1>6, <1>8, <1>10, <1>11 DEF PageInv

(* What Update draws: the new point behind those that stay. *)
LEMMA DrawnPoints ==
  ASSUME PageInv, NEW x \in 1..MaxTime
  PROVE  /\ Added(series, x) \in Seq(1..MaxTime)
         /\ Len(Added(series, x)) <= History \/ Len(Added(series, x)) <= Limit + 1
         /\ \E shift \in {0, 1} :
              /\ DOMAIN Added(series, x) = 1..Len(series) - shift + 1
              /\ \A k \in 1..Len(series) - shift :
                   k + shift \in DOMAIN series /\ Added(series, x)[k] = series[k + shift]
              /\ Added(series, x)[Len(series) - shift + 1] = x
<1>t. /\ series \in Seq(1..MaxTime) /\ DOMAIN series = 1..Len(series) /\ Len(series) \in Nat
      /\ History \in Nat \ {0} /\ Limit \in Nat \ {0}
  BY PageTyped, PageAssumption DEF PageSeqs
<1>1. CASE Len(series) > Limit
  <2>1. series # <<>>
    BY <1>t, <1>1, EmptySeq
  <2> DEFINE t == Tail(series)
  <2>2. /\ t \in Seq(1..MaxTime) /\ Len(t) = Len(series) - 1
        /\ \A k \in 1..Len(series) - 1 : t[k] = series[k + 1]
    BY <1>t, <2>1, TailElements
  <2>3. Added(series, x) = Append(t, x)
    BY <1>1 DEF Added
  <2> HIDE DEF t
  <2>4. /\ Append(t, x) \in Seq(1..MaxTime) /\ Len(Append(t, x)) = Len(t) + 1
        /\ DOMAIN Append(t, x) = 1..Len(t) + 1
        /\ \A k \in 1..Len(t) : Append(t, x)[k] = t[k]
        /\ Append(t, x)[Len(t) + 1] = x
    BY <2>2, AppendElements
  <2> DEFINE new == Append(t, x)
  <2> HIDE DEF new
  <2>n. /\ Len(new) = Len(t) + 1 /\ DOMAIN new = 1..Len(t) + 1
        /\ \A k \in 1..Len(t) : new[k] = t[k]
        /\ new[Len(t) + 1] = x /\ new \in Seq(1..MaxTime)
    BY <2>4 DEF new
  <2>5. Len(new) <= History \/ Len(new) <= Limit + 1
    <3>1. Len(new) = Len(series)
      BY <1>t, <2>2, <2>n
    <3> QED BY <3>1 DEF PageInv, ShortInv
  <2>6. /\ DOMAIN new = 1..Len(series) - 1 + 1
        /\ \A k \in 1..Len(series) - 1 :
             k + 1 \in DOMAIN series /\ new[k] = series[k + 1]
        /\ new[Len(series) - 1 + 1] = x
    BY <1>t, <2>2, <2>n
  <2> QED BY <2>3, <2>n, <2>5, <2>6 DEF new
<1>2. CASE ~(Len(series) > Limit)
  <2>1. Added(series, x) = Append(series, x)
    BY <1>2 DEF Added
  <2>2. /\ Append(series, x) \in Seq(1..MaxTime) /\ Len(Append(series, x)) = Len(series) + 1
        /\ DOMAIN Append(series, x) = 1..Len(series) + 1
        /\ \A k \in 1..Len(series) : Append(series, x)[k] = series[k]
        /\ Append(series, x)[Len(series) + 1] = x
    BY <1>t, AppendElements
  <2>3. Len(Append(series, x)) <= Limit + 1
    BY <1>t, <1>2, <2>2
  <2>4. /\ DOMAIN Append(series, x) = 1..Len(series) - 0 + 1
        /\ \A k \in 1..Len(series) - 0 :
             k + 0 \in DOMAIN series /\ Append(series, x)[k] = series[k + 0]
        /\ Append(series, x)[Len(series) - 0 + 1] = x
    BY <1>t, <2>2
  <2> QED BY <2>1, <2>2, <2>3, <2>4
<1> QED BY <1>1, <1>2

LEMMA ArriveStep ==
  ASSUME PageInv, NEW p \in 1..MaxOpen, Arrive(p)
  PROVE  PageInv'
<1> DEFINE x == answers[p].sample
           rest == RemoveAt(answers, p)
<1>t. /\ PageTypes /\ PageSeqs /\ polls \in Nat
      /\ polls + Len(reading) + Len(answers) <= MaxOpen
      /\ Len(reading) \in Nat /\ Len(answers) \in Nat
      /\ DOMAIN answers = 1..Len(answers) /\ DOMAIN series = 1..Len(series)
      /\ Len(series) \in Nat /\ now \in Nat
      /\ \A k \in DOMAIN answers :
           answers[k] \in [connected : SUBSET Elements, sample : 0..MaxTime]
      /\ \A k \in DOMAIN answers : answers[k].sample \in Nat
      /\ \A k \in DOMAIN series : series[k] \in Nat
  BY PageTyped DEF PageTypes
<1>1. /\ p \in 1..Len(answers) /\ awake' = shown \cap answers[p].connected
      /\ series' = IF Extends(series, x) THEN Added(series, x) ELSE series
      /\ answers' = rest
      /\ overtaken' = (overtaken \/ p > 1)
      /\ UNCHANGED <<server, polls, reading, page, shown, hadHistory>>
  BY DEF Arrive, Awake
<1>2. /\ rest \in Seq([connected : SUBSET Elements, sample : 0..MaxTime])
      /\ Len(rest) = Len(answers) - 1
  BY <1>t, <1>1, RestInOrder DEF PageSeqs
<1>3. PICK to \in [DOMAIN rest -> DOMAIN answers] :
        /\ \A i \in DOMAIN rest : rest[i] = answers[to[i]]
        /\ \A i, j \in DOMAIN rest : i <= j => to[i] <= to[j]
        /\ p = 1 => \A i \in DOMAIN rest : to[i] > 1
  BY <1>t, <1>1, RestInOrder DEF PageSeqs
<1>4. x \in 0..MaxTime /\ x <= now
  BY <1>t, <1>1 DEF PageInv, SamplesPast
<1> HIDE DEF x, rest
<1>5. /\ Extends(series, x) => x \in 1..MaxTime
      /\ series = <<>> => series' = <<>>
  <2>1. Extends(series, x) => x # 0 /\ Len(series) > 0
    BY DEF Extends, None
  <2>2. series = <<>> => Len(series) = 0
    BY EmptySeq
  <2> QED BY <1>t, <1>1, <1>4, <2>1, <2>2
<1>6. series' \in Seq(1..MaxTime) /\ ShortInv'
  <2>1. CASE Extends(series, x)
    BY <1>1, <1>5, <2>1, DrawnPoints DEF ShortInv
  <2>2. CASE ~Extends(series, x)
    BY <1>t, <1>1, <2>2 DEF PageInv, ShortInv, PageSeqs
  <2> QED BY <2>1, <2>2
<1>7. PageTypes' /\ PageSeqs'
  <2>1. overtaken' \in BOOLEAN
    BY <1>1
  <2>2. PageTypes'
    BY <1>t, <1>1, <2>1 DEF PageTypes, server
  <2> QED BY <1>t, <1>1, <1>2, <1>6, <2>2 DEF PageSeqs
<1>8. PageTypeOK'
  <2>1. polls' + Len(reading') + Len(answers') <= MaxOpen
    BY <1>t, <1>1, <1>2, PageAssumption
  <2> QED BY <1>t, <1>1, <1>7, <2>1 DEF PageTypeOK, PageTypes, PageSeqs, Open
<1>9. page = "ready"
  <2>1. answers # <<>>
    BY <1>t, <1>1, EmptySeq
  <2> QED BY <1>t, <2>1 DEF PageInv, LoadingInv, PageTypes
<1>10. LoadingInv' /\ EmptyChartStays'
  BY <1>1, <1>5, <1>9 DEF PageInv, LoadingInv, EmptyChartStays
<1>11. SamplesPast'
  <2>1. \A k \in DOMAIN answers' : to[k] \in DOMAIN answers /\ answers'[k] = answers[to[k]]
    BY <1>1, <1>3
  <2> QED BY <1>1, <2>1 DEF PageInv, SamplesPast, server
<1>12. OrderInv'
  <2> SUFFICES ASSUME ~overtaken' PROVE OrderInv'
    BY DEF OrderInv
  <2>1. ~overtaken /\ p = 1
    <3>1. ~overtaken /\ ~(p > 1)
      BY <1>1, Zenon
    <3>2. p = 1
      BY <1>t, <3>1
    <3> QED BY <3>1, <3>2
  <2>2. \A k : Fresh(k)' => /\ k \in DOMAIN rest /\ Fresh(to[k]) /\ to[k] >= p
                            /\ answers'[k].sample = answers[to[k]].sample
    <3>1. \A k \in DOMAIN rest : to[k] \in DOMAIN answers /\ to[k] > 1
      BY <1>3, <2>1
    <3>2. \A k \in DOMAIN rest : to[k] >= p
      BY <1>t, <2>1, <3>1
    <3> QED BY <1>1, <1>3, <3>1, <3>2 DEF Fresh
  <2>3. \A i, j : Fresh(i)' /\ Fresh(j)' /\ i <= j =>
                    answers'[i].sample <= answers'[j].sample
    <3>1. \A i, j : Fresh(i)' /\ Fresh(j)' /\ i <= j => to[i] <= to[j]
      BY <1>3, <2>2
    <3> QED BY <2>1, <2>2, <3>1 DEF PageInv, OrderInv
  <2>4. /\ \A i, j \in DOMAIN series : i <= j => series[i] <= series[j]
        /\ \A i \in DOMAIN series : series[i] <= now
        /\ \A i \in DOMAIN series : \A j : Fresh(j)' => series[i] <= answers'[j].sample
    BY <2>1, <2>2 DEF PageInv, OrderInv
  <2>5. CASE ~Extends(series, x)
    BY <1>1, <2>3, <2>4, <2>5 DEF OrderInv, server
  <2>6. CASE Extends(series, x)
    <3>1. PICK shift \in {0, 1} :
            /\ DOMAIN series' = 1..Len(series) - shift + 1
            /\ \A k \in 1..Len(series) - shift :
                 k + shift \in DOMAIN series /\ series'[k] = series[k + shift]
            /\ series'[Len(series) - shift + 1] = x
      BY <1>1, <1>5, <2>6, DrawnPoints
    <3>2. Fresh(p) /\ answers[p].sample = x
      BY <1>t, <1>1, <2>6 DEF Fresh, Extends, x
    <3>3. /\ \A k \in DOMAIN series : series[k] <= x
          /\ \A k : Fresh(k)' => x <= answers'[k].sample
      BY <2>1, <2>2, <3>2 DEF PageInv, OrderInv
    <3>4. \A k \in DOMAIN series' :
            \/ k + shift \in DOMAIN series /\ series'[k] = series[k + shift]
               /\ k <= Len(series) - shift
            \/ k = Len(series) - shift + 1 /\ series'[k] = x
      <4> TAKE k \in DOMAIN series'
      <4>1. k \in 1..Len(series) - shift \/ k = Len(series) - shift + 1
        <5>1. shift \in Int /\ k \in 1..Len(series) - shift + 1
          BY <3>1
        <5> QED BY <1>t, <5>1
      <4> QED BY <3>1, <4>1
    <3>5. \A i, j \in DOMAIN series' : i <= j => series'[i] <= series'[j]
      <4> TAKE i, j \in DOMAIN series'
      <4> HAVE i <= j
      <4>0. i \in Int /\ j \in Int /\ shift \in Int
        BY <3>1
      <4>1. CASE j = Len(series) - shift + 1 /\ series'[j] = x
        BY <1>t, <1>4, <3>3, <3>4, <4>1
      <4>2. CASE /\ j + shift \in DOMAIN series /\ series'[j] = series[j + shift]
                 /\ j <= Len(series) - shift
        <5>1. i + shift \in DOMAIN series /\ series'[i] = series[i + shift]
          BY <1>t, <3>4, <4>0, <4>2
        <5>2. i + shift <= j + shift
          BY <4>0
        <5> QED BY <2>4, <4>2, <5>1, <5>2
      <4> QED BY <3>4, <4>1, <4>2
    <3>6. \A i \in DOMAIN series' : series'[i] <= now'
      BY <1>1, <1>4, <2>4, <3>4 DEF server
    <3>7. \A i \in DOMAIN series' : \A j : Fresh(j)' => series'[i] <= answers'[j].sample
      BY <2>4, <3>3, <3>4
    <3> QED BY <2>3, <3>5, <3>6, <3>7 DEF OrderInv
  <2> QED BY <2>5, <2>6
<1> QED BY <1>6, <1>8, <1>10, <1>11, <1>12 DEF PageInv

LEMMA PageInvInit == PageInit => PageInv
<1> SUFFICES ASSUME PageInit PROVE PageInv
  OBVIOUS
<1>1. /\ series = <<>> /\ reading = <<>> /\ answers = <<>> /\ polls = 0
      /\ DOMAIN series = {} /\ DOMAIN answers = {}
      /\ Len(series) = 0 /\ Len(reading) = 0 /\ Len(answers) = 0
  BY EmptySeq DEF PageInit
<1>2. PageSeqs
  BY <1>1, EmptySeq DEF PageSeqs
<1>3. PageTypes
  <2>1. now = 0 /\ 0 \in 0..MaxTime
    BY PageAssumption DEF PageInit
  <2> QED BY <2>1 DEF PageInit, PageTypes
<1>4. PageTypeOK
  BY <1>1, <1>2, <1>3, PageAssumption, PageTypeFrom
<1> QED BY <1>1, <1>4, PageAssumption DEF PageInv, LoadingInv, ShortInv, SamplesPast, OrderInv,
                                          Fresh, EmptyChartStays

LEMMA PageInvStep == PageInv /\ [PageNext]_pageVars => PageInv'
<1> SUFFICES ASSUME PageInv, [PageNext]_pageVars PROVE PageInv'
  OBVIOUS
<1>1. CASE UNCHANGED pageVars
  BY <1>1 DEF pageVars, server, requests, drawing, PageInv, PageTypeOK, Open, LoadingInv,
              ShortInv, SamplesPast, OrderInv, Fresh, EmptyChartStays
<1>2. CASE Sample \/ \E e \in Elements : Connect(e) \/ Disconnect(e)
  BY <1>2, ServerStep
<1>3. CASE Poll \/ ReadElements
  BY <1>3, PollStep
<1>4. CASE Load
  BY <1>4, LoadStep
<1>5. CASE Fail
  BY <1>5, FailStep
<1>6. ASSUME NEW i \in 1..MaxOpen, Arrive(i) PROVE PageInv'
  BY <1>6, ArriveStep
<1>7. ASSUME NEW i \in 1..MaxOpen, NEW sample \in 0..MaxTime, ReadTraffic(i, sample)
      PROVE PageInv'
  BY <1>7, ReadTrafficStep
<1> QED BY <1>1, <1>2, <1>3, <1>4, <1>5, <1>6, <1>7 DEF PageNext

LEMMA PageInvAlways == PageSpec => []PageInv
<1>1. PageInit => PageInv
  BY PageInvInit
<1>2. PageInv /\ [PageNext]_pageVars => PageInv'
  BY PageInvStep
<1> QED BY <1>1, <1>2, PTL DEF PageSpec

(* The variables of the page and of its requests keep their types, and the *)
(* page shows no element that it does not know.                            *)
THEOREM PageTypeCorrect == PageSpec => []PageTypeOK
<1>1. PageInv => PageTypeOK
  BY DEF PageInv
<1> QED BY <1>1, PageInvAlways, PTL

(* Whatever the size of the buffer and the limit of the chart: Update      *)
(* keeps the chart bounded, in order unless an answer has overtaken an     *)
(* older one, and empty if it began so.                                    *)
THEOREM ChartIsSound == PageSpec => []ChartSound
<1>1. PageInv => ChartSound
  <2> SUFFICES ASSUME PageInv PROVE ChartSound
    OBVIOUS
  <2>1. /\ DOMAIN series = 1..Len(series) /\ Len(series) \in Nat
        /\ History \in Nat /\ Limit + 1 \in Nat
    BY PageTyped, PageAssumption
  <2>2. ChartBounded
    <3>1. /\ Max({History, Limit + 1}) \in Nat
          /\ Max({History, Limit + 1}) >= History /\ Max({History, Limit + 1}) >= Limit + 1
      BY <2>1, GreaterOf
    <3> QED BY <2>1, <3>1 DEF PageInv, ShortInv, ChartBounded
  <2>3. ChartOrdered
    <3>1. \A i \in 1..Len(series) - 1 : i \in DOMAIN series /\ i + 1 \in DOMAIN series /\ i <= i + 1
      BY <2>1
    <3> QED BY <3>1 DEF PageInv, OrderInv, ChartOrdered
  <2> QED BY <2>2, <2>3 DEF ChartSound, PageInv
<1> QED BY <1>1, PageInvAlways, PTL

-----------------------------------------------------------------------------
(* GalCalls: the invariant.                                                *)

Made == 1..Len(calls)
Active(i) == cur[calls[i].by] = i

(* A caller is in the call it made last, subscribed until it has what it   *)
(* waited for.                                                             *)
CallerInv(c) ==
  /\ pc[c] = "idle" <=> cur[c] = 0
  /\ cur[c] # 0 =>
       /\ cur[c] \in Made /\ calls[cur[c]].by = c
       /\ pc[c] \in {"waiting", "returned"} => calls[cur[c]].kind = "ask"
       /\ pc[c] = "returned" \/ (pc[c] = "leaving" /\ calls[cur[c]].kind = "ask")
            => promises[cur[c]] # 0
       /\ pc[c] = "sending" => net[cur[c]] = "none"
       /\ dispatches /\ pc[c] # "leaving" /\ calls[cur[c]].kind = "ask"
            => Among(subs, cur[c])

(* Callers that are in calls at the same time have met.                    *)
MetInv ==
  \A c, d \in Callers : c # d /\ cur[c] # 0 /\ cur[d] # 0 => {cur[c], cur[d]} \in met

(* While Application runs, a call is subscribed only in its own frame.     *)
SubsInv ==
  \A i \in Ids : Among(subs, i) =>
    /\ i \in Made /\ calls[i].kind = "ask"
    /\ dispatches => Active(i) /\ pc[calls[i].by] # "leaving"

(* An answer is in the bus or dispatched only if it was read, and not      *)
(* both; an ask that has none is still in its frame.                       *)
AnswersInv ==
  /\ \A i \in Ids : i \notin Made => net[i] = "none" /\ promises[i] = 0
  /\ IsInjective(bus)
  /\ \A j \in Ids : Among(bus, j) => net[j] = "read" /\ \A i \in Ids : promises[i] # j
  /\ \A i \in Ids : promises[i] # 0 => net[promises[i]] = "read"
  /\ \A i \in Made : calls[i].kind = "ask" /\ promises[i] = 0 => Active(i)

CallsInv ==
  /\ CallsTypeOK /\ (\A c \in Callers : CallerInv(c)) /\ MetInv
  /\ SubsInv /\ AnswersInv /\ AnswersKnown

-----------------------------------------------------------------------------
(* The calls, and what a turn of the dispatcher calls.                     *)

LEMMA CallsTyped ==
  ASSUME CallsTypeOK
  PROVE  /\ MaxCalls \in Nat /\ Len(calls) \in Nat
         /\ Made \subseteq Ids /\ DOMAIN calls = Made
         /\ \A i \in Made : calls[i] \in [by : Callers, kind : {"ask", "tell"}]
         /\ \A i \in Ids : i # 0 /\ promises[i] \in Ids \cup {0}
<1>1. /\ calls \in Seq([by : Callers, kind : {"ask", "tell"}]) /\ Len(calls) <= MaxCalls
      /\ promises \in [Ids -> 0..MaxCalls] /\ MaxCalls \in Nat
  BY CallsAssumption DEF CallsTypeOK
<1>2. Len(calls) \in Nat /\ DOMAIN calls = Made
  BY <1>1, LenProperties DEF Made
<1>3. \A i \in Made : calls[i] \in [by : Callers, kind : {"ask", "tell"}]
  BY <1>1, ElementOfSeq DEF Made
<1>4. Made \subseteq Ids /\ \A i \in Ids : i # 0 /\ promises[i] \in Ids \cup {0}
  BY <1>1, <1>2 DEF Made, Ids
<1> QED BY <1>1, <1>2, <1>3, <1>4

LEMMA CalledAre ==
  ASSUME CallsTypeOK
  PROVE  /\ \A i \in Ids : Contains(Called, i) => Among(subs, i) /\ promises[i] = 0
         /\ FirstSet # 0 => \E i \in Ids : Among(subs, i) /\ promises[i] # 0
<1> DEFINE I == {k \in 1..Len(subs) : promises[subs[k]] # 0}
<1>0. /\ subs \in Seq(Ids) /\ Len(subs) \in Nat /\ DOMAIN subs = 1..Len(subs)
      /\ \A k \in 1..Len(subs) : subs[k] \in Ids
  BY LenProperties, ElementOfSeq DEF CallsTypeOK
<1>1. FirstSet = IF I # {} THEN Min(I) ELSE 0
  BY DEF FirstSet, SelectInSeq, Receivers
<1>2. I \subseteq Nat /\ \A k \in I : k \in 1..Len(subs) /\ promises[subs[k]] # 0
  OBVIOUS
<1>3. \A k \in 1..Len(subs) : promises[subs[k]] # 0 => k \in I
  OBVIOUS
<1> HIDE DEF I
<1>4. CASE I = {}
  <2>1. FirstSet = 0 /\ Called = subs
    BY <1>1, <1>4 DEF Called, Receivers
  <2>2. ASSUME NEW i \in Ids, Contains(subs, i) PROVE Among(subs, i) /\ promises[i] = 0
    BY <1>0, <1>3, <1>4, <2>2 DEF Contains, Among
  <2> QED BY <2>1, <2>2
<1>5. CASE I # {}
  <2> DEFINE f == Min(I)
  <2>1. f \in I /\ \A k \in I : f <= k
    BY <1>2, <1>5, LeastOf
  <2>2. FirstSet = f
    BY <1>1, <1>5
  <2> HIDE DEF f
  <2>3. f \in 1..Len(subs) /\ promises[subs[f]] # 0
    BY <1>2, <2>1
  <2>4. Called = SubSeq(subs, 1, f - 1)
    BY <1>0, <2>2, <2>3 DEF Called, Receivers
  <2>5. /\ Len(SubSeq(subs, 1, f - 1)) = f - 1
        /\ \A k \in 1..f - 1 : SubSeq(subs, 1, f - 1)[k] = subs[k]
    <3>1. \A k \in 1..f - 1 : subs[k] \in Ids
      BY <1>0, <2>3
    <3>2. /\ Len(SubSeq(subs, 1, f - 1)) = IF 1 <= f - 1 THEN f - 1 - 1 + 1 ELSE 0
          /\ \A k \in 1..f - 1 - 1 + 1 : SubSeq(subs, 1, f - 1)[k] = subs[1 + k - 1]
      <4>1. 1 \in Int /\ f - 1 \in Int
        BY <2>3
      <4> QED BY <3>1, <4>1, SubSeqProperties
    <3> QED BY <2>3, <3>2
  <2>6. ASSUME NEW i \in Ids, Contains(Called, i) PROVE Among(subs, i) /\ promises[i] = 0
    <3>1. PICK k \in 1..f - 1 : subs[k] = i
      BY <2>4, <2>5, <2>6 DEF Contains
    <3>2. k \in 1..Len(subs) /\ ~(f <= k)
      BY <1>0, <2>3
    <3> QED BY <1>0, <1>3, <2>1, <3>1, <3>2 DEF Among
  <2>7. subs[f] \in Ids /\ Among(subs, subs[f])
    BY <1>0, <2>3 DEF Among
  <2> QED BY <2>3, <2>6, <2>7
<1> QED BY <1>4, <1>5

(* The place of a call in subscribers_. *)
LEMMA PlaceIs ==
  ASSUME NEW i, Among(subs, i)
  PROVE  Place(i) \in DOMAIN subs /\ subs[Place(i)] = i
BY DEF Among, Place

-----------------------------------------------------------------------------
(* Every step keeps the invariant.                                         *)

(* A new call. *)
LEMMA BeginResult ==
  ASSUME CallsInv, NEW c \in Callers, NEW kind \in {"ask", "tell"}, Begin(c, kind)
  PROVE  LET n == Len(calls) + 1
         IN /\ n \in Ids /\ n \notin Made /\ n # 0 /\ Made' = Made \cup {n}
            /\ calls' \in Seq([by : Callers, kind : {"ask", "tell"}])
            /\ Len(calls') <= MaxCalls
            /\ calls'[n] = [by |-> c, kind |-> kind]
            /\ \A i \in Made : calls'[i] = calls[i] /\ calls[i].by \in Callers /\ i # 0
            /\ cur' = [cur EXCEPT ![c] = n] /\ cur[c] = 0
            /\ met \subseteq met' /\ met' \subseteq SUBSET Ids
            /\ \A d \in Callers \ {c} : cur[d] # 0 => {n, cur[d]} \in met'
<1> DEFINE n == Len(calls) + 1
<1>1. /\ calls \in Seq([by : Callers, kind : {"ask", "tell"}]) /\ Len(calls) <= MaxCalls
      /\ cur \in [Callers -> 0..MaxCalls] /\ met \subseteq SUBSET Ids
      /\ MaxCalls \in Nat
  BY CallsAssumption DEF CallsInv, CallsTypeOK
<1>2. pc[c] = "idle" /\ Len(calls) < MaxCalls
  BY DEF Begin
<1>3. calls' = Append(calls, [by |-> c, kind |-> kind])
  BY DEF Begin
<1>4. /\ calls' \in Seq([by : Callers, kind : {"ask", "tell"}])
      /\ Len(calls') = n /\ Len(calls) \in Nat
      /\ \A i \in 1..Len(calls) : calls'[i] = calls[i]
      /\ calls'[n] = [by |-> c, kind |-> kind]
  BY <1>1, <1>3, AppendElements
<1>5. n \in Ids /\ n \notin Made /\ n # 0 /\ Made' = Made \cup {n} /\ Len(calls') <= MaxCalls
  BY <1>1, <1>2, <1>4 DEF Ids, Made
<1>6. \A i \in Made : calls'[i] = calls[i] /\ calls[i].by \in Callers /\ i # 0
  <2>1. \A i \in Made : calls[i] \in [by : Callers, kind : {"ask", "tell"}] /\ i # 0
    BY CallsTyped DEF CallsInv
  <2> QED BY <1>4, <2>1 DEF Made
<1>7. cur' = [cur EXCEPT ![c] = n] /\ cur[c] = 0
  BY <1>2 DEF Begin, CallsInv, CallerInv
<1>8. met' = met \cup {{n, cur[d]} : d \in {d \in Callers : cur[d] # 0}}
  BY DEF Begin
<1> HIDE DEF n
<1>9. ASSUME NEW d \in Callers, cur[d] # 0 PROVE {n, cur[d]} \in SUBSET Ids
  <2>1. cur[d] \in Ids
    BY <1>1, <1>9 DEF Ids
  <2> QED BY <1>5, <2>1
<1>10. /\ met \subseteq met' /\ met' \subseteq SUBSET Ids
       /\ \A d \in Callers \ {c} : cur[d] # 0 => {n, cur[d]} \in met'
  BY <1>1, <1>8, <1>9
<1> QED BY <1>4, <1>5, <1>6, <1>7, <1>10 DEF n

LEMMA BeginStep ==
  ASSUME CallsInv, NEW c \in Callers, AskOne(c) \/ TellOne(c)
  PROVE  CallsInv'
<1> DEFINE n == Len(calls) + 1
<1>1. PICK kind \in {"ask", "tell"} :
        /\ Begin(c, kind)
        /\ pc' = [pc EXCEPT ![c] = "sending"]
        /\ subs' = IF kind = "ask" THEN Append(subs, n) ELSE subs
        /\ UNCHANGED <<net, promises, bus, dispatches, crashed>>
  <2>1. CASE AskOne(c)
    BY <2>1 DEF AskOne
  <2>2. CASE TellOne(c)
    BY <2>2 DEF TellOne
  <2> QED BY <2>1, <2>2
<1>2. /\ n \in Ids /\ n \notin Made /\ n # 0 /\ Made' = Made \cup {n}
      /\ calls' \in Seq([by : Callers, kind : {"ask", "tell"}])
      /\ Len(calls') <= MaxCalls
      /\ calls'[n] = [by |-> c, kind |-> kind]
      /\ \A i \in Made : calls'[i] = calls[i] /\ calls[i].by \in Callers /\ i # 0
      /\ cur' = [cur EXCEPT ![c] = n] /\ cur[c] = 0
      /\ met \subseteq met' /\ met' \subseteq SUBSET Ids
      /\ \A d \in Callers \ {c} : cur[d] # 0 => {n, cur[d]} \in met'
  BY <1>1, BeginResult
<1> HIDE DEF n
<1>t. /\ CallsTypeOK /\ Made \subseteq Ids /\ DOMAIN calls = Made
      /\ \A i \in Ids : i # 0 /\ promises[i] \in Ids \cup {0}
  BY CallsTyped DEF CallsInv
<1>3. \A i \in Ids : Among(subs, i) => i # n
  BY <1>2 DEF CallsInv, SubsInv
<1>4. /\ subs' \in Seq(Ids) /\ IsInjective(subs')
      /\ \A i : Among(subs', i) <=> Among(subs, i) \/ (i = n /\ kind = "ask")
  <2>1. subs \in Seq(Ids) /\ IsInjective(subs)
    BY <1>t DEF CallsTypeOK
  <2>2. Append(subs, n) \in Seq(Ids)
    BY <1>2, <2>1, AppendElements
  <2> QED BY <1>1, <1>2, <1>3, <2>1, <2>2, AmongAppend
<1>5. CallsTypeOK'
  <2>1. /\ cur' \in [Callers -> 0..MaxCalls]
        /\ pc' \in [Callers -> {"idle", "sending", "waiting", "returned", "leaving"}]
    BY <1>1, <1>2, <1>t, CallsAssumption DEF CallsTypeOK, Ids
  <2> QED BY <1>1, <1>2, <1>4, <1>t, <2>1 DEF CallsTypeOK
<1>6. /\ cur'[c] = n /\ pc'[c] = "sending"
      /\ \A d \in Callers \ {c} : cur'[d] = cur[d] /\ pc'[d] = pc[d]
      /\ \A i \in Made : calls[i].by # c \/ ~Active(i)
  BY <1>1, <1>2, <1>t DEF CallsTypeOK, Active
<1>7. \A d \in Callers : CallerInv(d)'
  <2> TAKE d \in Callers
  <2>1. CASE d = c
    <3>1. net'[n] = "none"
      BY <1>1, <1>2 DEF CallsInv, AnswersInv
    <3> QED BY <1>1, <1>2, <1>4, <1>6, <2>1, <3>1 DEF CallerInv
  <2>2. CASE d # c
    <3>1. CallerInv(d)
      BY DEF CallsInv
    <3> QED BY <1>1, <1>2, <1>4, <1>6, <2>2, <3>1 DEF CallerInv
  <2> QED BY <2>1, <2>2
<1>8. MetInv'
  BY <1>2, <1>6 DEF MetInv, CallsInv
<1>9. \A i \in Made : Active(i) => Active(i)' /\ pc'[calls'[i].by] = pc[calls[i].by]
  BY <1>2, <1>6 DEF Active
<1>10. SubsInv'
  <2> SUFFICES ASSUME NEW i \in Ids, Among(subs', i)
               PROVE  /\ i \in Made' /\ calls'[i].kind = "ask"
                      /\ dispatches' => Active(i)' /\ pc'[calls'[i].by] # "leaving"
    BY DEF SubsInv
  <2>1. CASE i = n /\ kind = "ask"
    BY <1>2, <1>6, <2>1 DEF Active
  <2>2. CASE Among(subs, i)
    BY <1>1, <1>2, <1>9, <2>2 DEF CallsInv, SubsInv
  <2> QED BY <1>4, <2>1, <2>2
<1>11. AnswersInv'
  <2>1. \A i \in Made' : calls'[i].kind = "ask" /\ promises'[i] = 0 => Active(i)'
    <3> TAKE i \in Made'
    <3>1. CASE i = n
      BY <1>2, <1>6, <3>1 DEF Active
    <3>2. CASE i \in Made
      BY <1>1, <1>2, <1>9, <3>2 DEF CallsInv, AnswersInv
    <3> QED BY <1>2, <3>1, <3>2
  <2> QED BY <1>1, <1>2, <2>1 DEF CallsInv, AnswersInv
<1>12. AloneGetsItsOwn'
  <2> SUFFICES ASSUME met' = {}, ~Told' PROVE ~crashed' /\ \A i \in Ids : promises'[i] \in {0, i}
    BY DEF AloneGetsItsOwn
  <2>1. met = {}
    BY <1>2
  <2>2. ~Told
    <3>1. DOMAIN calls' = Made'
      BY <1>2, LenProperties DEF Made
    <3> QED BY <1>2, <1>t, <3>1 DEF Told
  <2> QED BY <1>1, <2>1, <2>2 DEF CallsInv, AnswersKnown, AloneGetsItsOwn
<1>13. ForeignAnswers'
  <2> SUFFICES ASSUME NEW i \in Ids, promises'[i] \notin {0, i}
               PROVE  LET j == promises'[i]
                      IN calls'[j].kind = "tell" \/ {i, j} \in met' \/ promises'[j] \notin {0, j}
    BY DEF ForeignAnswers
  <2> DEFINE j == promises[i]
  <2>1. promises'[i] = j /\ j \notin {0, i}
    BY <1>1
  <2>2. calls[j].kind = "tell" \/ {i, j} \in met \/ promises[j] \notin {0, j}
    BY <2>1 DEF CallsInv, AnswersKnown, ForeignAnswers
  <2>3. j \in Made
    BY <1>t, <2>1 DEF CallsInv, AnswersInv
  <2> QED BY <1>1, <1>2, <2>1, <2>2, <2>3
<1> QED BY <1>5, <1>7, <1>8, <1>10, <1>11, <1>12, <1>13 DEF CallsInv, AnswersKnown

(* Two calls whose frames exist at the same time are of two callers.       *)
LEMMA ActiveApart ==
  ASSUME CallsInv, NEW i \in Made, NEW j \in Made, Active(i), Active(j), i # j
  PROVE  calls[i].by # calls[j].by /\ {i, j} \in met
<1>1. calls[i].by \in Callers /\ calls[j].by \in Callers /\ i # 0 /\ j # 0
  BY CallsTyped DEF CallsInv
<1>2. calls[i].by # calls[j].by
  BY DEF Active
<1> QED BY <1>1, <1>2 DEF CallsInv, MetInv, Active

(* The steps of a caller in its call change no promise and no call. *)
LEMMA CallerStep ==
  ASSUME CallsInv, NEW c \in Callers, Caller(c)
  PROVE  CallsInv'
<1> DEFINE i == cur[c]
<1>t. /\ CallsTypeOK /\ Made \subseteq Ids
      /\ \A k \in Made : calls[k] \in [by : Callers, kind : {"ask", "tell"}]
      /\ \A k \in Ids : k # 0 /\ promises[k] \in Ids \cup {0}
      /\ \A d \in Callers : CallerInv(d)
  BY CallsTyped DEF CallsInv
<1>1. /\ pc[c] \in {"sending", "waiting", "returned", "leaving"}
      /\ UNCHANGED <<calls, met, promises, bus, dispatches, crashed>>
  BY DEF Caller, Send, Return, Unsubscribe, Leave
<1>2. i \in Made /\ calls[i].by = c /\ i # 0 /\ i \in Ids
  <2>1. cur[c] # 0
    BY <1>1, <1>t DEF CallerInv
  <2> QED BY <1>t, <2>1 DEF CallerInv
<1>3. \A d \in Callers \ {c} : cur[d] # i \/ cur[d] = 0
  BY <1>2, <1>t DEF CallerInv
<1>4. AnswersKnown'
  BY <1>1 DEF CallsInv, AnswersKnown, AloneGetsItsOwn, ForeignAnswers, Told
<1> USE DEF Made, Active, Caller
<1>5. CASE Send(c)
  <2>1. /\ pc[c] = "sending" /\ net' = [net EXCEPT ![i] = "sent"]
        /\ pc' = [pc EXCEPT ![c] = IF calls[i].kind = "ask" THEN "waiting" ELSE "leaving"]
        /\ UNCHANGED <<cur, subs>>
    BY <1>5 DEF Send
  <2>2. net[i] = "none" /\ net'[i] = "sent"
    BY <1>2, <1>t, <2>1 DEF CallerInv, CallsTypeOK
  <2>3. pc'[c] = (IF calls[i].kind = "ask" THEN "waiting" ELSE "leaving")
        /\ \A d \in Callers \ {c} : pc'[d] = pc[d]
    BY <1>t, <2>1 DEF CallsTypeOK
  <2>4. \A k \in Ids \ {i} : net'[k] = net[k]
    BY <1>t, <2>1 DEF CallsTypeOK
  <2>5. CallsTypeOK'
    BY <1>1, <1>t, <2>1 DEF CallsTypeOK
  <2>6. \A d \in Callers : CallerInv(d)'
    <3> TAKE d \in Callers
    <3>1. CASE d = c
      BY <1>1, <1>2, <1>t, <2>1, <2>3, <3>1 DEF CallerInv
    <3>2. CASE d # c
      BY <1>1, <1>3, <1>t, <2>1, <2>3, <2>4, <3>2 DEF CallerInv
    <3> QED BY <3>1, <3>2
  <2>7. SubsInv'
    <3> SUFFICES ASSUME NEW k \in Ids, Among(subs', k)
                 PROVE  /\ k \in Made' /\ calls'[k].kind = "ask"
                        /\ dispatches' => Active(k)' /\ pc'[calls'[k].by] # "leaving"
      BY DEF SubsInv
    <3>1. /\ k \in Made /\ calls[k].kind = "ask"
          /\ dispatches => Active(k) /\ pc[calls[k].by] # "leaving"
      BY <2>1 DEF CallsInv, SubsInv
    <3> QED BY <1>1, <1>2, <1>t, <2>1, <2>3, <3>1
  <2>8. AnswersInv'
    <3>1. \A k \in Ids : promises[k] # i
      BY <1>2, <2>2 DEF CallsInv, AnswersInv
    <3>2. ~Among(bus, i)
      BY <1>2, <2>2 DEF CallsInv, AnswersInv
    <3> QED BY <1>1, <1>2, <1>t, <2>1, <2>4, <3>1, <3>2 DEF CallsInv, AnswersInv
  <2>9. MetInv'
    BY <1>1, <2>1 DEF CallsInv, MetInv
  <2> QED BY <1>4, <2>5, <2>6, <2>7, <2>8, <2>9 DEF CallsInv
<1>6. CASE Return(c)
  <2>1. /\ pc[c] = "waiting" /\ promises[i] # 0
        /\ pc' = [pc EXCEPT ![c] = "returned"]
        /\ UNCHANGED <<cur, subs, net>>
    BY <1>6 DEF Return
  <2>2. pc'[c] = "returned" /\ \A d \in Callers \ {c} : pc'[d] = pc[d]
    BY <1>t, <2>1 DEF CallsTypeOK
  <2>3. CallsTypeOK'
    BY <1>1, <1>t, <2>1 DEF CallsTypeOK
  <2>4. \A d \in Callers : CallerInv(d)'
    <3> TAKE d \in Callers
    <3>1. CASE d = c
      BY <1>1, <1>2, <1>t, <2>1, <2>2, <3>1 DEF CallerInv
    <3>2. CASE d # c
      BY <1>1, <1>t, <2>1, <2>2, <3>2 DEF CallerInv
    <3> QED BY <3>1, <3>2
  <2>5. SubsInv'
    BY <1>1, <1>t, <2>1, <2>2 DEF CallsInv, SubsInv
  <2>6. AnswersInv' /\ MetInv'
    BY <1>1, <2>1 DEF CallsInv, AnswersInv, MetInv
  <2> QED BY <1>4, <2>3, <2>4, <2>5, <2>6 DEF CallsInv
<1>7. CASE Unsubscribe(c)
  <2>1. /\ pc[c] = "returned" /\ subs' = Kept(i)
        /\ pc' = [pc EXCEPT ![c] = "leaving"]
        /\ UNCHANGED <<cur, net>>
    BY <1>7 DEF Unsubscribe
  <2>2. pc'[c] = "leaving" /\ \A d \in Callers \ {c} : pc'[d] = pc[d]
    BY <1>t, <2>1 DEF CallsTypeOK
  <2>3. /\ subs' \in Seq(Ids) /\ IsInjective(subs')
        /\ \A k : Among(subs', k) => Among(subs, k)
        /\ dispatches => ~Among(subs', i)
        /\ \A k : k # i /\ Among(subs, k) => Among(subs', k)
    <3>1. subs \in Seq(Ids) /\ IsInjective(subs)
      BY <1>t DEF CallsTypeOK
    <3>2. CASE dispatches
      <4>1. Among(subs, i)
        BY <1>2, <1>t, <2>1, <3>2 DEF CallerInv
      <4>2. Place(i) \in DOMAIN subs /\ subs[Place(i)] = i
        BY <4>1, PlaceIs
      <4>3. subs' = RemoveAt(subs, Place(i))
        BY <2>1, <3>2 DEF Kept
      <4> QED BY <3>1, <4>2, <4>3, AmongRest
    <3>3. CASE ~dispatches
      BY <2>1, <3>1, <3>3 DEF Kept
    <3> QED BY <3>2, <3>3
  <2>4. CallsTypeOK'
    BY <1>1, <1>t, <2>1, <2>3 DEF CallsTypeOK
  <2>5. \A d \in Callers : CallerInv(d)'
    <3> TAKE d \in Callers
    <3>1. CASE d = c
      BY <1>1, <1>2, <1>t, <2>1, <2>2, <3>1 DEF CallerInv
    <3>2. CASE d # c
      BY <1>1, <1>3, <1>t, <2>1, <2>2, <2>3, <3>2 DEF CallerInv
    <3> QED BY <3>1, <3>2
  <2>6. SubsInv'
    <3> SUFFICES ASSUME NEW k \in Ids, Among(subs', k)
                 PROVE  /\ k \in Made' /\ calls'[k].kind = "ask"
                        /\ dispatches' => Active(k)' /\ pc'[calls'[k].by] # "leaving"
      BY DEF SubsInv
    <3>1. /\ k \in Made /\ calls[k].kind = "ask"
          /\ dispatches => Active(k) /\ pc[calls[k].by] # "leaving" /\ k # i
      BY <2>3 DEF CallsInv, SubsInv
    <3> QED BY <1>1, <1>2, <1>t, <2>1, <2>2, <3>1
  <2>7. AnswersInv' /\ MetInv'
    BY <1>1, <2>1 DEF CallsInv, AnswersInv, MetInv
  <2> QED BY <1>4, <2>4, <2>5, <2>6, <2>7 DEF CallsInv
<1>8. CASE Leave(c)
  <2>1. /\ pc[c] = "leaving" /\ cur' = [cur EXCEPT ![c] = 0]
        /\ pc' = [pc EXCEPT ![c] = "idle"]
        /\ UNCHANGED <<subs, net>>
    BY <1>8 DEF Leave
  <2>2. /\ pc'[c] = "idle" /\ cur'[c] = 0
        /\ \A d \in Callers \ {c} : pc'[d] = pc[d] /\ cur'[d] = cur[d]
    BY <1>t, <2>1 DEF CallsTypeOK
  <2>3. CallsTypeOK'
    BY <1>1, <1>t, <2>1, CallsAssumption DEF CallsTypeOK
  <2>4. \A d \in Callers : CallerInv(d)'
    <3> TAKE d \in Callers
    <3>1. CASE d = c
      BY <2>2, <3>1 DEF CallerInv
    <3>2. CASE d # c
      BY <1>1, <1>t, <2>1, <2>2, <3>2 DEF CallerInv
    <3> QED BY <3>1, <3>2
  <2>5. SubsInv'
    <3> SUFFICES ASSUME NEW k \in Ids, Among(subs', k)
                 PROVE  /\ k \in Made' /\ calls'[k].kind = "ask"
                        /\ dispatches' => Active(k)' /\ pc'[calls'[k].by] # "leaving"
      BY DEF SubsInv
    <3>1. /\ k \in Made /\ calls[k].kind = "ask"
          /\ dispatches => Active(k) /\ pc[calls[k].by] # "leaving"
      BY <2>1 DEF CallsInv, SubsInv
    <3> QED BY <1>1, <1>2, <1>t, <2>1, <2>2, <3>1
  <2>6. AnswersInv'
    <3>1. \A k \in Made : calls[k].kind = "ask" /\ promises[k] = 0 => Active(k) /\ k # i
      BY <1>2, <1>t, <2>1 DEF CallsInv, AnswersInv, CallerInv
    <3>2. \A k \in Made' : calls'[k].kind = "ask" /\ promises'[k] = 0 => Active(k)'
      BY <1>1, <1>2, <1>t, <2>2, <3>1
    <3> QED BY <1>1, <2>1, <3>2 DEF CallsInv, AnswersInv
  <2>7. MetInv'
    BY <1>1, <2>2 DEF CallsInv, MetInv
  <2> QED BY <1>4, <2>3, <2>4, <2>5, <2>6, <2>7 DEF CallsInv
<1> QED BY <1>5, <1>6, <1>7, <1>8

(* The service element answers, the answer is read, Quit is raised. *)
LEMMA NetStep ==
  ASSUME CallsInv, RaiseQuit \/ \E i \in Ids : Respond(i) \/ ReadResponse(i)
  PROVE  CallsInv'
<1>t. /\ CallsTypeOK /\ Made \subseteq Ids /\ \A k \in Ids : k # 0
      /\ bus \in Seq(Ids \cup {Quit}) /\ IsInjective(bus)
  BY CallsTyped DEF CallsInv, CallsTypeOK, AnswersInv
<1>1. UNCHANGED <<calls, pc, cur, met, subs, promises, dispatches, crashed>>
  BY DEF Respond, ReadResponse, RaiseQuit, callerVars
<1>2. AnswersKnown' /\ SubsInv' /\ MetInv'
  BY <1>1 DEF CallsInv, AnswersKnown, AloneGetsItsOwn, ForeignAnswers, Told, SubsInv, MetInv,
              Made, Active
<1>3. ASSUME NEW i \in Ids, net[i] \in {"sent", "answered"},
             NEW v \in {"answered", "read"}, net' = [net EXCEPT ![i] = v]
      PROVE  /\ \A d \in Callers : CallerInv(d)'
             /\ net' \in [Ids -> {"none", "sent", "answered", "read"}]
             /\ ~Among(bus, i) /\ net'[i] = v
             /\ \A k \in Ids : net[k] \in {"none", "read"} => net'[k] = net[k]
             /\ \A k \in Ids : promises[k] # i
  <2>1. /\ net' \in [Ids -> {"none", "sent", "answered", "read"}]
        /\ net'[i] = v /\ \A k \in Ids : net[k] \in {"none", "read"} => net'[k] = net[k]
    BY <1>t, <1>3 DEF CallsTypeOK
  <2>2. ~Among(bus, i) /\ \A k \in Ids : promises[k] # i
    <3>1. net[i] # "read" /\ i # 0
      BY <1>t, <1>3
    <3> QED BY <3>1 DEF CallsInv, AnswersInv
  <2>3. ASSUME NEW d \in Callers PROVE CallerInv(d)'
    <3>1. CallerInv(d) /\ cur[d] # 0 => cur[d] \in Ids
      BY <1>t DEF CallsInv, CallerInv
    <3> QED BY <1>1, <2>1, <3>1 DEF CallsInv, CallerInv, Made
  <2> QED BY <2>1, <2>2, <2>3
<1>4. ASSUME NEW i \in Ids, Respond(i) PROVE CallsInv'
  <2>1. net[i] = "sent" /\ net' = [net EXCEPT ![i] = "answered"] /\ UNCHANGED bus
    BY <1>4 DEF Respond
  <2>2. /\ \A d \in Callers : CallerInv(d)'
        /\ net' \in [Ids -> {"none", "sent", "answered", "read"}] /\ net'[i] = "answered"
        /\ \A k \in Ids : net[k] \in {"none", "read"} => net'[k] = net[k]
    BY <1>3, <2>1
  <2>3. CallsTypeOK'
    BY <1>1, <1>t, <2>1, <2>2 DEF CallsTypeOK
  <2>4. i \in Made
    BY <2>1 DEF CallsInv, AnswersInv
  <2>5. \A k \in Ids : promises[k] # 0 => promises[k] \in Ids
    BY CallsTyped DEF CallsInv
  <2>6. AnswersInv'
    BY <1>1, <2>1, <2>2, <2>4, <2>5 DEF CallsInv, AnswersInv, Made, Active
  <2> QED BY <1>2, <2>2, <2>3, <2>6 DEF CallsInv
<1>5. ASSUME NEW i \in Ids, ReadResponse(i) PROVE CallsInv'
  <2>1. /\ net[i] = "answered" /\ net' = [net EXCEPT ![i] = "read"]
        /\ bus' = IF dispatches THEN Append(bus, i) ELSE bus
    BY <1>5 DEF ReadResponse
  <2>2. /\ \A d \in Callers : CallerInv(d)'
        /\ net' \in [Ids -> {"none", "sent", "answered", "read"}] /\ net'[i] = "read"
        /\ ~Among(bus, i) /\ \A k \in Ids : promises[k] # i
        /\ \A k \in Ids : net[k] \in {"none", "read"} => net'[k] = net[k]
    BY <1>3, <2>1
  <2>3. /\ bus' \in Seq(Ids \cup {Quit}) /\ IsInjective(bus')
        /\ \A k : Among(bus', k) => Among(bus, k) \/ k = i
    <3>1. Append(bus, i) \in Seq(Ids \cup {Quit})
      BY <1>t, AppendElements
    <3> QED BY <1>t, <2>1, <2>2, <3>1, AmongAppend
  <2>4. CallsTypeOK'
    BY <1>1, <1>t, <2>2, <2>3 DEF CallsTypeOK
  <2>5. i \in Made
    BY <2>1 DEF CallsInv, AnswersInv
  <2>6. \A k \in Ids : promises[k] # 0 => promises[k] \in Ids
    BY CallsTyped DEF CallsInv
  <2>7. AnswersInv'
    BY <1>1, <2>2, <2>3, <2>5, <2>6 DEF CallsInv, AnswersInv, Made, Active
  <2> QED BY <1>2, <2>2, <2>4, <2>7 DEF CallsInv
<1>6. CASE RaiseQuit
  <2>1. ~Among(bus, Quit) /\ bus' = Append(bus, Quit) /\ UNCHANGED net
    BY <1>6 DEF RaiseQuit, Among
  <2>2. /\ bus' \in Seq(Ids \cup {Quit}) /\ IsInjective(bus')
        /\ \A k : Among(bus', k) => Among(bus, k) \/ k = Quit
    <3>1. Append(bus, Quit) \in Seq(Ids \cup {Quit})
      BY <1>t, AppendElements
    <3> QED BY <1>t, <2>1, <3>1, AmongAppend
  <2>3. CallsTypeOK'
    BY <1>1, <1>t, <2>1, <2>2 DEF CallsTypeOK
  <2>4. AnswersInv'
    BY <1>1, <1>t, <2>1, <2>2 DEF CallsInv, AnswersInv, Made, Active, Quit
  <2>5. \A d \in Callers : CallerInv(d)'
    BY <1>1, <2>1 DEF CallsInv, CallerInv, Made
  <2> QED BY <1>2, <2>3, <2>4, <2>5 DEF CallsInv
<1> QED BY <1>4, <1>5, <1>6

(* An answer goes to every call that waits. *)
LEMMA DispatchStep ==
  ASSUME CallsInv, Dispatch
  PROVE  CallsInv'
<1> DEFINE j == Head(bus)
<1>t. /\ CallsTypeOK /\ Made \subseteq Ids
      /\ \A k \in Made : calls[k] \in [by : Callers, kind : {"ask", "tell"}]
      /\ \A k \in Ids : k # 0 /\ promises[k] \in Ids \cup {0}
      /\ bus \in Seq(Ids \cup {Quit}) /\ IsInjective(bus) /\ DOMAIN calls = Made
  BY CallsTyped DEF CallsInv, CallsTypeOK, AnswersInv
<1>1. /\ dispatches /\ bus # <<>> /\ bus' = Tail(bus)
      /\ UNCHANGED <<calls, pc, cur, met, net, subs>>
      /\ j = Quit => dispatches' = FALSE /\ UNCHANGED <<promises, crashed>>
      /\ j # Quit =>
           /\ promises' = [i \in Ids |-> IF Contains(Called, i) THEN j ELSE promises[i]]
           /\ crashed' = (FirstSet # 0) /\ UNCHANGED dispatches
  BY DEF Dispatch, callerVars
<1>2. /\ j \in Ids \cup {Quit} /\ Among(bus, j)
      /\ bus' \in Seq(Ids \cup {Quit}) /\ IsInjective(bus') /\ ~Among(bus', j)
      /\ \A k : Among(bus', k) => Among(bus, k)
  BY <1>1, <1>t, TailElements, AmongTail
<1> HIDE DEF j
<1>3. MetInv'
  BY <1>1 DEF CallsInv, MetInv
<1>4. CASE j = Quit
  <2>1. CallsTypeOK'
    BY <1>1, <1>2, <1>t, <1>4 DEF CallsTypeOK
  <2>2. \A d \in Callers : CallerInv(d)'
    BY <1>1, <1>4 DEF CallsInv, CallerInv, Made
  <2>3. SubsInv' /\ AnswersKnown'
    BY <1>1, <1>4 DEF CallsInv, SubsInv, AnswersKnown, AloneGetsItsOwn, ForeignAnswers, Told,
                      Made, Active
  <2>4. AnswersInv'
    BY <1>1, <1>2, <1>4 DEF CallsInv, AnswersInv, Made, Active
  <2> QED BY <1>3, <2>1, <2>2, <2>3, <2>4 DEF CallsInv
<1>5. CASE j # Quit
  <2>1. /\ j \in Ids /\ net[j] = "read" /\ j \in Made
        /\ \A i \in Ids : promises[i] # j
    BY <1>2, <1>5 DEF CallsInv, AnswersInv
  <2>2. \A i \in Ids : \/ promises'[i] = promises[i] /\ ~Contains(Called, i)
                       \/ promises'[i] = j /\ promises[i] = 0 /\ Among(subs, i)
    BY <1>1, <1>5, <1>t, CalledAre
  <2>3. \A i \in Ids : Among(subs, i) => i \in Made /\ Active(i)
    BY <1>1 DEF CallsInv, SubsInv
  <2>4. calls[j].kind = "ask" /\ promises[j] = 0 => Active(j)
    BY <2>1 DEF CallsInv, AnswersInv
  <2>5. CallsTypeOK'
    <3>1. promises' \in [Ids -> 0..MaxCalls]
      <4>1. j \in 0..MaxCalls
        BY <2>1, CallsAssumption DEF Ids
      <4>2. \A i \in Ids :
              (IF Contains(Called, i) THEN j ELSE promises[i]) \in 0..MaxCalls
        BY <1>t, <4>1 DEF CallsTypeOK
      <4> QED BY <1>1, <1>5, <4>2
    <3> QED BY <1>1, <1>2, <1>t, <1>5, <3>1 DEF CallsTypeOK
  <2>6. \A i \in Ids : promises[i] # 0 => promises'[i] # 0
    BY <2>2
  <2>7. \A d \in Callers : CallerInv(d)'
    <3> TAKE d \in Callers
    <3>1. CallerInv(d)
      BY DEF CallsInv
    <3>2. cur[d] # 0 => cur[d] \in Ids
      BY <1>t, <3>1 DEF CallerInv
    <3> QED BY <1>1, <1>5, <2>6, <3>1, <3>2 DEF CallerInv, Made
  <2>8. SubsInv'
    BY <1>1, <1>5 DEF CallsInv, SubsInv, Made, Active
  <2>9. AnswersInv'
    <3>1. \A i \in Ids : i \notin Made => net[i] = "none" /\ promises'[i] = 0
      BY <2>2, <2>3 DEF CallsInv, AnswersInv
    <3>2. \A k \in Ids : Among(bus', k) =>
            net[k] = "read" /\ \A i \in Ids : promises'[i] # k
      BY <1>2, <2>2 DEF CallsInv, AnswersInv
    <3>3. \A i \in Ids : promises'[i] # 0 => net[promises'[i]] = "read"
      BY <2>1, <2>2 DEF CallsInv, AnswersInv
    <3>4. \A i \in Made : calls[i].kind = "ask" /\ promises'[i] = 0 => Active(i)
      BY <1>t, <2>6 DEF CallsInv, AnswersInv
    <3> QED BY <1>1, <1>2, <3>1, <3>2, <3>3, <3>4 DEF AnswersInv, Made, Active
  <2>10. AloneGetsItsOwn'
    <3> SUFFICES ASSUME met' = {}, ~Told'
                 PROVE  ~crashed' /\ \A i \in Ids : promises'[i] \in {0, i}
      BY DEF AloneGetsItsOwn
    <3>1. met = {} /\ ~Told
      BY <1>1 DEF Told
    <3>2. \A i \in Ids : promises[i] \in {0, i}
      BY <3>1 DEF CallsInv, AnswersKnown, AloneGetsItsOwn
    <3>3. promises[j] = 0
      BY <2>1, <3>2
    <3>4. Active(j)
      BY <1>t, <2>1, <2>4, <3>1, <3>3 DEF Told
    <3>5. \A i \in Ids : Among(subs, i) => i = j
      BY <2>1, <2>3, <3>1, <3>4, ActiveApart
    <3>6. FirstSet = 0
      BY <1>t, <3>3, <3>5, CalledAre
    <3>7. \A i \in Ids : promises'[i] \in {0, i}
      BY <2>2, <3>2, <3>5
    <3> QED BY <1>1, <1>5, <3>6, <3>7
  <2>11. ForeignAnswers'
    <3> SUFFICES ASSUME NEW i \in Ids, promises'[i] \notin {0, i}
                 PROVE  \/ calls'[promises'[i]].kind = "tell"
                        \/ {i, promises'[i]} \in met'
                        \/ promises'[promises'[i]] \notin {0, promises'[i]}
      BY DEF ForeignAnswers
    <3>1. CASE promises'[i] = promises[i]
      <4>1. \/ calls[promises[i]].kind = "tell"
            \/ {i, promises[i]} \in met
            \/ promises[promises[i]] \notin {0, promises[i]}
        BY <3>1 DEF CallsInv, AnswersKnown, ForeignAnswers
      <4>2. promises[i] \in Ids
        BY <1>t, <3>1
      <4> QED BY <1>1, <2>2, <3>1, <4>1, <4>2
    <3>2. CASE promises'[i] = j /\ promises[i] = 0 /\ Among(subs, i)
      <4>1. CASE calls[j].kind = "tell"
        BY <1>1, <3>2, <4>1
      <4>2. CASE promises[j] # 0
        BY <2>1, <2>2, <3>2, <4>2
      <4>3. CASE calls[j].kind = "ask" /\ promises[j] = 0
        BY <1>1, <2>1, <2>3, <2>4, <3>2, <4>3, ActiveApart
      <4> QED BY <1>t, <2>1, <4>1, <4>2, <4>3
    <3> QED BY <2>2, <3>1, <3>2
  <2> QED BY <1>3, <2>5, <2>7, <2>8, <2>9, <2>10, <2>11 DEF CallsInv, AnswersKnown
<1> QED BY <1>4, <1>5

LEMMA CallsInvInit == CallsInit => CallsInv
<1> SUFFICES ASSUME CallsInit PROVE CallsInv
  OBVIOUS
<1>1. /\ MaxCalls \in Nat /\ \A i \in Ids : i # 0 /\ promises[i] = 0 /\ net[i] = "none"
      /\ \A c \in Callers : cur[c] = 0 /\ pc[c] = "idle"
      /\ calls = <<>> /\ subs = <<>> /\ bus = <<>> /\ met = {} /\ ~crashed
  BY CallsAssumption DEF CallsInit, Ids
<1>2. /\ Made = {} /\ \A x : ~Among(subs, x) /\ ~Among(bus, x)
      /\ IsInjective(subs) /\ IsInjective(bus)
  BY <1>1, EmptySeq DEF Made, Among, IsInjective
<1>3. CallsTypeOK
  <2>1. /\ subs \in Seq(Ids) /\ bus \in Seq(Ids \cup {Quit})
        /\ calls \in Seq([by : Callers, kind : {"ask", "tell"}]) /\ Len(calls) = 0
    BY <1>1, EmptySeq
  <2>2. /\ pc \in [Callers -> {"idle", "sending", "waiting", "returned", "leaving"}]
        /\ net \in [Ids -> {"none", "sent", "answered", "read"}]
    BY DEF CallsInit
  <2>3. cur \in [Callers -> 0..MaxCalls] /\ promises \in [Ids -> 0..MaxCalls]
    <3>1. 0 \in 0..MaxCalls
      BY <1>1
    <3> QED BY <3>1 DEF CallsInit
  <2>4. {dispatches, crashed} \subseteq BOOLEAN /\ met \subseteq SUBSET Ids
    BY DEF CallsInit
  <2> QED BY <1>1, <1>2, <2>1, <2>2, <2>3, <2>4 DEF CallsTypeOK
<1> QED BY <1>1, <1>2, <1>3 DEF CallsInv, CallerInv, MetInv, SubsInv, AnswersInv, AnswersKnown,
                                AloneGetsItsOwn, ForeignAnswers

LEMMA CallsInvStep == CallsInv /\ [CallsNext]_callsVars => CallsInv'
<1> SUFFICES ASSUME CallsInv, [CallsNext]_callsVars PROVE CallsInv'
  OBVIOUS
<1>1. CASE UNCHANGED callsVars
  BY <1>1 DEF callsVars, callerVars, CallsInv, CallsTypeOK, CallerInv, MetInv, SubsInv,
              AnswersInv, AnswersKnown, AloneGetsItsOwn, ForeignAnswers, Told, Made, Active
<1>2. ASSUME NEW c \in Callers, AskOne(c) \/ TellOne(c) PROVE CallsInv'
  BY <1>2, BeginStep
<1>3. ASSUME NEW c \in Callers, Caller(c) PROVE CallsInv'
  BY <1>3, CallerStep
<1>4. CASE RaiseQuit \/ \E i \in Ids : Respond(i) \/ ReadResponse(i)
  BY <1>4, NetStep
<1>5. CASE Dispatch
  BY <1>5, DispatchStep
<1> QED BY <1>1, <1>2, <1>3, <1>4, <1>5 DEF CallsNext

LEMMA CallsInvAlways == CallsSpec => []CallsInv
BY CallsInvInit, CallsInvStep, PTL DEF CallsSpec

(* Whatever order the callers, the dispatcher and the elements run in, the *)
(* calls of GalControlClient keep their types.                             *)
THEOREM CallsTypeCorrect == CallsSpec => []CallsTypeOK
<1>1. CallsInv => CallsTypeOK
  BY DEF CallsInv
<1> QED BY <1>1, CallsInvAlways, PTL

(* Calls of GalControlClient that neither overlap nor tell get each their  *)
(* own answer; any other answer an ask takes is that of a call which did   *)
(* not wait for it, overlapped it, or was given that of yet another call.  *)
THEOREM AnswersAreKnown == CallsSpec => []AnswersKnown
<1>1. CallsInv => AnswersKnown
  BY DEF CallsInv
<1> QED BY <1>1, CallsInvAlways, PTL

(* A callback of GalControlClient sets a promise only while the frame that *)
(* owns it lasts.                                                          *)
THEOREM CallbacksStayInFrame == CallsSpec => CallbackInItsFrame
<1>1. CallsInv /\ [CallsNext]_callsVars =>
        [Dispatch => \A k \in DOMAIN Receivers :
           Head(bus) # Quit => cur[calls[Receivers[k]].by] = Receivers[k]]_callsVars
  <2> SUFFICES ASSUME CallsInv, Dispatch, NEW k \in DOMAIN Receivers
               PROVE  cur[calls[Receivers[k]].by] = Receivers[k]
    OBVIOUS
  <2>1. subs[k] \in Ids /\ Among(subs, subs[k])
    <3>1. subs \in Seq(Ids) /\ k \in 1..Len(subs)
      BY LenProperties DEF CallsInv, CallsTypeOK, Receivers
    <3> QED BY <3>1, ElementOfSeq DEF Among, Receivers
  <2> QED BY <2>1 DEF CallsInv, SubsInv, Active, Dispatch, Receivers
<1> QED BY <1>1, CallsInvAlways, PTL DEF CallsSpec, CallbackInItsFrame


-----------------------------------------------------------------------------
(* HttpExchange: requests, messages and answers.                           *)

LEMMA ShortSeq ==
  ASSUME NEW S, NEW x \in S, NEW y \in S
  PROVE  /\ <<x, y>> \in Seq(S) /\ Len(<<x, y>>) = 2
         /\ <<x, y>>[1] = x /\ <<x, y>>[2] = y
         /\ <<x>> \in Seq(S) /\ Len(<<x>>) = 1 /\ <<x>>[1] = x /\ DOMAIN <<x>> = {1}
OBVIOUS

Parts == {"headers", "end", "body"}

(* The text of a request: its headers, their end, and its body. *)
LEMMA TextIs ==
  ASSUME NEW I, NEW i \in I, NEW b \in Nat
  PROVE  /\ Text(i, b) \in Seq(I \X Parts) /\ Len(Text(i, b)) = b + 2
         /\ Text(i, b)[1] = <<i, "headers">> /\ Text(i, b)[2] = <<i, "end">>
         /\ \A k \in 3..b + 2 : Text(i, b)[k] = <<i, "body">>
<1> DEFINE s == <<<<i, "headers">>, <<i, "end">>>>
           t == [k \in 1..b |-> <<i, "body">>]
           P == I \X Parts
<1>0. <<i, "headers">> \in P /\ <<i, "end">> \in P /\ <<i, "body">> \in P
  BY DEF Parts
<1> HIDE DEF P
<1>1. /\ s \in Seq(P) /\ Len(s) = 2
      /\ s[1] = <<i, "headers">> /\ s[2] = <<i, "end">>
  BY <1>0, ShortSeq
<1>2. /\ t \in Seq(P) /\ Len(t) = b /\ \A k \in 1..b : t[k] = <<i, "body">>
  <2>1. t \in [1..b -> P] /\ DOMAIN t = 1..b
    BY <1>0
  <2>2. t \in Seq(P)
    BY <2>1, SeqDef
  <2>3. Len(t) = b
    BY <2>1, <2>2, LenProperties
  <2> QED BY <2>2, <2>3
<1>3. Text(i, b) = s \o t
  BY DEF Text
<1> HIDE DEF s, t
<1>4. /\ s \o t \in Seq(P) /\ Len(s \o t) = Len(s) + Len(t)
      /\ \A k \in 1..Len(s) + Len(t) :
           (s \o t)[k] = IF k <= Len(s) THEN s[k] ELSE t[k - Len(s)]
  BY <1>1, <1>2, ConcatProperties
<1>5. \A k \in 3..b + 2 : k - 2 \in 1..b /\ k \in 1..2 + b /\ ~(k <= 2)
  OBVIOUS
<1>6. 1 \in 1..2 + b /\ 2 \in 1..2 + b
  OBVIOUS
<1>7. Len(s \o t) = b + 2 /\ (s \o t)[1] = s[1] /\ (s \o t)[2] = s[2]
  BY <1>1, <1>2, <1>4, <1>6
<1>8. \A k \in 3..b + 2 : (s \o t)[k] = <<i, "body">>
  BY <1>1, <1>2, <1>4, <1>5
<1> QED BY <1>1, <1>3, <1>4, <1>7, <1>8 DEF P

(* What is cut off a text is the whole text as soon as it is complete.     *)
LEMMA CompleteIsWhole ==
  ASSUME NEW I, NEW i \in I, NEW b \in Nat,
         NEW s \in Seq(I \X Parts), NEW t \in Seq(I \X Parts),
         s # <<>>, s \o t = Text(i, b), asked[i].body = b, Complete(s)
  PROVE  s = Text(i, b) /\ t = <<>>
<1> DEFINE T == Text(i, b)
           J == {k \in 1..Len(s) : s[k][2] = "end"}
<1>1. /\ T \in Seq(I \X Parts) /\ Len(T) = b + 2
      /\ T[1] = <<i, "headers">> /\ T[2] = <<i, "end">>
      /\ \A k \in 3..b + 2 : T[k] = <<i, "body">>
  BY TextIs
<1>2. /\ Len(s) \in Nat \ {0} /\ Len(t) \in Nat /\ Len(s) + Len(t) = b + 2
      /\ \A k \in 1..Len(s) : s[k] = T[k]
  <2>1. Len(s) \in Nat \ {0} /\ Len(t) \in Nat
    BY EmptySeq, LenProperties
  <2>2. /\ Len(s \o t) = Len(s) + Len(t)
        /\ \A k \in 1..Len(s) + Len(t) : (s \o t)[k] = IF k <= Len(s) THEN s[k] ELSE t[k - Len(s)]
    BY ConcatProperties
  <2> QED BY <1>1, <2>1, <2>2
<1>3. HeadersEnd(s) = IF J # {} THEN Min(J) ELSE 0
  BY DEF HeadersEnd, SelectInSeq
<1> HIDE DEF T
<1>4. \A k \in J : k = 2
  <2> TAKE k \in J
  <2>1. k \in 1..Len(s) /\ T[k][2] = "end"
    BY <1>2
  <2>2. k = 1 => T[k][2] = "headers"
    BY <1>1
  <2>3. k \in 3..b + 2 => T[k][2] = "body"
    BY <1>1
  <2> QED BY <1>2, <2>1, <2>2, <2>3
<1>5. J \subseteq Nat
  BY <1>4
<1> HIDE DEF J
<1>6. HeadersEnd(s) > 0 /\ (ContentLength(s) = 0 \/ Len(s) - HeadersEnd(s) = ContentLength(s))
  BY DEF Complete
<1>7. J # {} /\ HeadersEnd(s) = 2
  <2>1. J # {}
    BY <1>3, <1>6
  <2> QED BY <1>3, <1>4, <1>5, <2>1, LeastOf
<1>8. Len(s) >= 2
  <2>1. 2 \in {k \in 1..Len(s) : s[k][2] = "end"}
    BY <1>4, <1>7 DEF J
  <2> QED BY <1>2, <2>1
<1>9. ContentLength(s) = b
  <2>1. s[1] = T[1]
    BY <1>2
  <2> QED BY <1>1, <2>1 DEF ContentLength
<1>10. Len(t) = 0
  BY <1>2, <1>6, <1>7, <1>8, <1>9
<1>11. t = <<>>
  BY <1>10, EmptySeq
<1> QED BY <1>11, ConcatEmptySeq

(* What a controller answers: none, one, or two answers that end the       *)
(* connection alike.                                                       *)
LEMMA AnswersAre ==
  ASSUME NEW kind \in Kinds, NEW close \in BOOLEAN
  PROVE  LET a == AnswersTo(kind, close)
         IN /\ a \in Seq([status : Statuses, ends : BOOLEAN])
            /\ \A i, j \in DOMAIN a : a[i].ends = a[j].ends
<1> DEFINE R == [status : Statuses, ends : BOOLEAN]
<1> HIDE DEF R
<1>1. ASSUME NEW st \in Statuses, NEW e \in BOOLEAN
      PROVE  /\ Single(st, e) \in Seq(R) /\ Len(Single(st, e)) = 1
             /\ Single(st, e)[1].ends = e /\ DOMAIN Single(st, e) = {1}
  <2> DEFINE x == [status |-> st, ends |-> e]
  <2>1. x \in R /\ x.ends = e /\ Single(st, e) = <<x>>
    BY DEF Single, R
  <2> HIDE DEF x
  <2> QED BY <2>1, ShortSeq
<1>2. ASSUME NEW st \in Statuses, NEW e \in BOOLEAN
      PROVE  /\ Single(st, e) \in Seq(R)
             /\ \A i, j \in DOMAIN Single(st, e) : Single(st, e)[i].ends = Single(st, e)[j].ends
  BY <1>1
<1>3. ASSUME NEW st \in Statuses, NEW u \in Statuses, NEW e \in BOOLEAN
      PROVE  /\ Single(st, e) \o Single(u, e) \in Seq(R)
             /\ \A i, j \in DOMAIN (Single(st, e) \o Single(u, e)) :
                  (Single(st, e) \o Single(u, e))[i].ends = (Single(st, e) \o Single(u, e))[j].ends
  <2> DEFINE s == Single(st, e)
             t == Single(u, e)
  <2>1. /\ s \in Seq(R) /\ Len(s) = 1 /\ s[1].ends = e
        /\ t \in Seq(R) /\ Len(t) = 1 /\ t[1].ends = e
    BY <1>1
  <2> HIDE DEF s, t
  <2>2. /\ s \o t \in Seq(R) /\ Len(s \o t) = Len(s) + Len(t)
        /\ \A k \in 1..Len(s) + Len(t) :
             (s \o t)[k] = IF k <= Len(s) THEN s[k] ELSE t[k - Len(s)]
    BY <2>1, ConcatProperties
  <2>3. DOMAIN (s \o t) = 1..Len(s) + Len(t)
    BY <2>2, LenProperties
  <2>4. ASSUME NEW k \in DOMAIN (s \o t) PROVE (s \o t)[k].ends = e
    <3>1. k = 1 \/ k = 2
      BY <2>1, <2>3
    <3> QED BY <2>1, <2>2, <2>3, <3>1
  <2> QED BY <2>2, <2>4 DEF s, t
<1>s. /\ "ok" \in Statuses /\ "bad_request" \in Statuses /\ "internal_error" \in Statuses
      /\ "not_implemented" \in Statuses /\ "not_found" \in Statuses /\ TRUE \in BOOLEAN
  BY DEF Statuses
<1>4. <<>> \in Seq(R) /\ DOMAIN <<>> = {}
  BY EmptySeq
<1>5. kind \in {"served", "invalid", "fails", "delete", "profile", "unknown"}
  BY ExchangeAssumption
<1>6. CASE kind = "served"
  BY <1>s, <1>2, <1>6 DEF AnswersTo, R
<1>7. CASE kind = "invalid"
  BY <1>s, <1>2, <1>7 DEF AnswersTo, R
<1>8. CASE kind = "fails"
  BY <1>s, <1>2, <1>8 DEF AnswersTo, R
<1>9. CASE kind = "delete"
  <2>1. AnswersTo(kind, close) = Single("bad_request", close) \o Single("not_implemented", close)
    BY <1>9 DEF AnswersTo
  <2> DEFINE a == Single("bad_request", close) \o Single("not_implemented", close)
  <2>2. a \in Seq(R) /\ \A i, j \in DOMAIN a : a[i].ends = a[j].ends
    BY <1>s, <1>3
  <2> HIDE DEF a
  <2>3. AnswersTo(kind, close) = a
    BY <2>1 DEF a
  <2> QED BY <2>2, <2>3 DEF R
<1>10. CASE kind = "profile"
  <2>1. AnswersTo(kind, close) = Single("not_found", close) \o Single("ok", close)
    BY <1>10 DEF AnswersTo
  <2> DEFINE a == Single("not_found", close) \o Single("ok", close)
  <2>2. a \in Seq(R) /\ \A i, j \in DOMAIN a : a[i].ends = a[j].ends
    BY <1>s, <1>3
  <2> HIDE DEF a
  <2>3. AnswersTo(kind, close) = a
    BY <2>1 DEF a
  <2> QED BY <2>2, <2>3 DEF R
<1>11. CASE kind = "unknown"
  BY <1>s, <1>4, <1>11 DEF AnswersTo, R
<1> QED BY <1>5, <1>6, <1>7, <1>8, <1>9, <1>10, <1>11

-----------------------------------------------------------------------------
(* HttpExchange: the invariant.                                            *)

AskedTokens == (1..Len(asked)) \X Parts
Answers == [of : 1..MaxAsked, close : BOOLEAN]

ExchangeTypes ==
  /\ asked \in Seq([kind : Kinds, close : BOOLEAN, body : Bodies]) /\ Len(asked) <= MaxAsked
  /\ stream \in Seq(AskedTokens) /\ raw \in Seq(AskedTokens)
  /\ events \in Seq(Seq(AskedTokens)) /\ handled \in Seq(Seq(AskedTokens) \ {<<>>})
  /\ todo \in Seq([status : Statuses, ends : BOOLEAN])
  /\ waits \in BOOLEAN /\ running \in BOOLEAN /\ ended \in BOOLEAN
  /\ queue \in Seq(Answers) /\ wire \in Seq(Answers) /\ got \in Seq(Answers)
  /\ client \in {"idle", "waiting", "closed"}
  /\ todo # <<>> => handled # <<>>

(* The client asks again only when it has taken as many answers as it has  *)
(* asked.                                                                  *)
ClientInv ==
  /\ Len(got) <= Len(asked)
  /\ client = "waiting" => Len(got) + 1 = Len(asked)
  /\ client = "idle" => Len(got) = Len(asked)

Matching == \A k \in DOMAIN got : got[k].of = k
Message(k) == Text(k, asked[k].body)
Messages == {p \in DOMAIN events : events[p] # <<>>}

NonePending == Messages = {} /\ raw = <<>> /\ stream = <<>>
OneArriving == Messages = {} /\ raw \o stream = Message(Len(asked))
OneArrived ==
  /\ raw = <<>> /\ stream = <<>>
  /\ \E p \in DOMAIN events : events[p] = Message(Len(asked)) /\ Messages = {p}

(* While the answers match, the server has handled all requests but the    *)
(* last at least, each as a whole; the last one arrives in parts, or waits *)
(* for its turn as a whole, or has been handled too.                       *)
MessagesInv ==
  Matching =>
    /\ \A k \in DOMAIN handled : handled[k] = Message(k)
    /\ \/ Len(handled) = Len(asked) /\ NonePending
       \/ Len(handled) + 1 = Len(asked) /\ (OneArriving \/ OneArrived)

(* The answers between the controller and the client. *)
Flowing(x) == Among(queue, x) \/ Among(wire, x)

OfInv ==
  Matching => Len(got) <= Len(handled) /\ \A x : Flowing(x) => x.of <= Len(handled)

Even(n) == \A i \in 1..n : i \notin Odd

(* While besides every request but the last is answered exactly once, what *)
(* flows answers the last one, and nothing flows before it is handled; if  *)
(* that one is, too, there are no more answers than requests.              *)
StepInv ==
  Matching =>
    /\ Even(Len(asked) - 1) =>
         /\ \A x : Flowing(x) => x.of = Len(asked)
         /\ Len(handled) # Len(asked) => todo = <<>> /\ queue = <<>> /\ wire = <<>>
    /\ Even(Len(asked)) => Len(todo) + Len(queue) + Len(wire) + Len(got) <= Len(asked)

AllEnd == \A i \in DOMAIN todo : todo[i].ends

(* The connection stops only behind an answer that ends it, and waits for  *)
(* that one to be written.                                                 *)
DropInv ==
  /\ \A i, j \in DOMAIN todo : todo[i].ends = todo[j].ends
  /\ waits => AllEnd
  /\ client # "closed" => /\ \A p \in DOMAIN events : events[p] # <<>>
                          /\ ~running => AllEnd /\ (queue # <<>> => waits)

ExchangeInv ==
  /\ ExchangeTypes /\ ClientInv /\ AnswersMatch /\ MessagesInv
  /\ OfInv /\ StepInv /\ DropInv

-----------------------------------------------------------------------------
(* What the invariant says of each sequence.                               *)

LEMMA SeqFacts ==
  ASSUME NEW S, NEW s \in Seq(S)
  PROVE  /\ Len(s) \in Nat /\ DOMAIN s = 1..Len(s)
         /\ \A i \in DOMAIN s : s[i] \in S
         /\ s = <<>> <=> Len(s) = 0
BY LenProperties, ElementOfSeq, EmptySeq

LEMMA SeqGrows ==
  ASSUME NEW S, NEW T, S \subseteq T
  PROVE  Seq(S) \subseteq Seq(T)
BY SeqMonotonic

LEMMA ExchangeLengths ==
  ASSUME ExchangeTypes
  PROVE  /\ Len(asked) \in Nat /\ DOMAIN asked = 1..Len(asked)
         /\ Len(stream) \in Nat /\ Len(raw) \in Nat
         /\ Len(events) \in Nat /\ DOMAIN events = 1..Len(events)
         /\ Len(handled) \in Nat /\ DOMAIN handled = 1..Len(handled)
         /\ Len(todo) \in Nat /\ DOMAIN todo = 1..Len(todo)
         /\ Len(queue) \in Nat /\ Len(wire) \in Nat
         /\ Len(got) \in Nat /\ DOMAIN got = 1..Len(got)
         /\ (todo = <<>> <=> Len(todo) = 0) /\ (queue = <<>> <=> Len(queue) = 0)
         /\ (wire = <<>> <=> Len(wire) = 0) /\ (stream = <<>> <=> Len(stream) = 0)
<1>1. Len(asked) \in Nat /\ DOMAIN asked = 1..Len(asked)
  BY SeqFacts DEF ExchangeTypes
<1>2. /\ Len(stream) \in Nat /\ Len(raw) \in Nat /\ (stream = <<>> <=> Len(stream) = 0)
  BY SeqFacts DEF ExchangeTypes
<1>3. Len(events) \in Nat /\ DOMAIN events = 1..Len(events)
  BY SeqFacts DEF ExchangeTypes
<1>4. Len(handled) \in Nat /\ DOMAIN handled = 1..Len(handled)
  BY SeqFacts DEF ExchangeTypes
<1>5. Len(todo) \in Nat /\ DOMAIN todo = 1..Len(todo) /\ (todo = <<>> <=> Len(todo) = 0)
  BY SeqFacts DEF ExchangeTypes
<1>6. /\ Len(queue) \in Nat /\ Len(wire) \in Nat
      /\ (queue = <<>> <=> Len(queue) = 0) /\ (wire = <<>> <=> Len(wire) = 0)
  BY SeqFacts DEF ExchangeTypes
<1>7. Len(got) \in Nat /\ DOMAIN got = 1..Len(got)
  BY SeqFacts DEF ExchangeTypes
<1> QED BY <1>1, <1>2, <1>3, <1>4, <1>5, <1>6, <1>7

LEMMA RequestsAre ==
  ASSUME ExchangeTypes, NEW i \in 1..Len(asked)
  PROVE  /\ asked[i].kind \in Kinds /\ asked[i].close \in BOOLEAN
         /\ asked[i].body \in Nat /\ i \in 1..MaxAsked
         /\ Message(i) \in Seq(AskedTokens) /\ Message(i) # <<>>
         /\ Message(i)[1][1] = i
<1>1. /\ asked \in Seq([kind : Kinds, close : BOOLEAN, body : Bodies])
      /\ Len(asked) <= MaxAsked /\ Len(asked) \in Nat /\ MaxAsked \in Nat
  BY SeqFacts, ExchangeAssumption DEF ExchangeTypes
<1>2. asked[i] \in [kind : Kinds, close : BOOLEAN, body : Bodies]
  BY <1>1, ElementOfSeq
<1>3. asked[i].body \in Nat
  BY <1>2, ExchangeAssumption
<1>4. /\ Message(i) \in Seq(AskedTokens) /\ Len(Message(i)) = asked[i].body + 2
      /\ Message(i)[1] = <<i, "headers">>
  BY <1>3, TextIs DEF Message, AskedTokens
<1>5. Message(i) # <<>>
  <2>1. Len(Message(i)) # 0
    BY <1>3, <1>4
  <2> QED BY <2>1, EmptySeq
<1> QED BY <1>1, <1>2, <1>3, <1>4, <1>5

(* Steps that do not touch messages, or answers. *)
LEMMA MessagesKept ==
  ASSUME MessagesInv, UNCHANGED <<asked, handled, events, raw, stream>>, Matching' => Matching
  PROVE  MessagesInv'
BY DEF MessagesInv, Message, Messages, NonePending, OneArriving, OneArrived

LEMMA FlowKept ==
  ASSUME ExchangeInv, ExchangeTypes', UNCHANGED <<asked, handled, got>>,
         \A x : Flowing(x)' => Flowing(x),
         Len(todo') <= Len(todo), Len(queue') + Len(wire') <= Len(queue) + Len(wire)
  PROVE  OfInv' /\ StepInv'
<1>1. /\ Len(todo) \in Nat /\ Len(queue) \in Nat /\ Len(wire) \in Nat
      /\ Len(got) \in Nat /\ Len(asked) \in Nat
      /\ (todo = <<>> <=> Len(todo) = 0) /\ (queue = <<>> <=> Len(queue) = 0)
      /\ (wire = <<>> <=> Len(wire) = 0)
  BY ExchangeLengths DEF ExchangeInv
<1>2. /\ Len(todo)' \in Nat /\ Len(queue)' \in Nat /\ Len(wire)' \in Nat
      /\ (todo' = <<>> <=> Len(todo') = 0) /\ (queue' = <<>> <=> Len(queue') = 0)
      /\ (wire' = <<>> <=> Len(wire') = 0)
  <2>1. Len(todo)' \in Nat /\ (todo' = <<>> <=> Len(todo') = 0)
    BY SeqFacts DEF ExchangeTypes
  <2>2. Len(queue)' \in Nat /\ (queue' = <<>> <=> Len(queue') = 0)
    BY SeqFacts DEF ExchangeTypes
  <2>3. Len(wire)' \in Nat /\ (wire' = <<>> <=> Len(wire') = 0)
    BY SeqFacts DEF ExchangeTypes
  <2> QED BY <2>1, <2>2, <2>3
<1>3. /\ Matching' = Matching /\ Odd' = Odd
      /\ (Even(Len(asked) - 1))' = Even(Len(asked) - 1)
      /\ (Even(Len(asked)))' = Even(Len(asked))
  BY DEF Matching, Odd, Even
<1>4. OfInv'
  BY <1>3 DEF ExchangeInv, OfInv
<1>5. StepInv'
  <2> SUFFICES ASSUME Matching PROVE StepInv'
    BY <1>3 DEF StepInv
  <2>1. ASSUME Even(Len(asked) - 1)
        PROVE  /\ \A x : Flowing(x)' => x.of = Len(asked')
               /\ Len(handled') # Len(asked') => todo' = <<>> /\ queue' = <<>> /\ wire' = <<>>
    BY <1>1, <1>2, <2>1 DEF ExchangeInv, StepInv
  <2>2. ASSUME Even(Len(asked))
        PROVE  Len(todo') + Len(queue') + Len(wire') + Len(got') <= Len(asked')
    <3>1. Len(todo) + Len(queue) + Len(wire) + Len(got) <= Len(asked)
      BY <2>2 DEF ExchangeInv, StepInv
    <3> QED BY <1>1, <1>2, <3>1
  <2> QED BY <1>3, <2>1, <2>2 DEF StepInv
<1> QED BY <1>4, <1>5

LEMMA ClientKept ==
  ASSUME ExchangeInv, UNCHANGED <<asked, got>>, client' = client \/ client' = "closed"
  PROVE  ClientInv' /\ AnswersMatch' /\ Matching' = Matching
BY DEF ExchangeInv, ClientInv, AnswersMatch, Odd, Matching

-----------------------------------------------------------------------------
(* Every step keeps the invariant: the client.                             *)

LEMMA AskStep ==
  ASSUME ExchangeInv, NEW kind \in Kinds, NEW close \in BOOLEAN, NEW body \in Bodies,
         Ask(kind, close, body)
  PROVE  ExchangeInv'
<1> DEFINE n == Len(asked)
           r == [kind |-> kind, close |-> close, body |-> body]
           t == Text(n + 1, body)
<1>t. /\ ExchangeTypes /\ n \in Nat /\ DOMAIN asked = 1..n /\ MaxAsked \in Nat
      /\ Len(handled) \in Nat /\ DOMAIN handled = 1..Len(handled)
      /\ Len(got) \in Nat /\ DOMAIN got = 1..Len(got)
      /\ Len(todo) \in Nat /\ Len(queue) \in Nat /\ Len(wire) \in Nat
      /\ (todo = <<>> <=> Len(todo) = 0) /\ (queue = <<>> <=> Len(queue) = 0)
      /\ (wire = <<>> <=> Len(wire) = 0)
  BY ExchangeLengths, ExchangeAssumption DEF ExchangeInv
<1>1. /\ client = "idle" /\ n < MaxAsked /\ client' = "waiting"
      /\ asked' = Append(asked, r) /\ stream' = stream \o t
      /\ UNCHANGED <<got, raw, events, handled, todo, waits, running, ended, queue, wire>>
  BY DEF Ask, connVars
<1>2. /\ asked' \in Seq([kind : Kinds, close : BOOLEAN, body : Bodies])
      /\ Len(asked') = n + 1 /\ DOMAIN asked' = 1..n + 1
      /\ \A i \in 1..n : asked'[i] = asked[i]
      /\ asked'[n + 1] = r
  <2>1. /\ asked \in Seq([kind : Kinds, close : BOOLEAN, body : Bodies])
        /\ r \in [kind : Kinds, close : BOOLEAN, body : Bodies]
    BY <1>t DEF ExchangeTypes
  <2> HIDE DEF r
  <2> QED BY <1>1, <2>1, AppendElements
<1>3. r.body = body /\ body \in Nat
  BY ExchangeAssumption
<1> HIDE DEF r
<1>4. n \in 0..MaxAsked /\ n + 1 \in 1..n + 1 /\ 1..n \subseteq 1..n + 1
  BY <1>t, <1>1
<1>5. AskedTokens \subseteq AskedTokens' /\ t \in Seq(AskedTokens')
  <2>1. AskedTokens' = (1..n + 1) \X Parts
    BY <1>2 DEF AskedTokens
  <2>2. AskedTokens \subseteq (1..n + 1) \X Parts
    BY <1>4 DEF AskedTokens
  <2>3. t \in Seq((1..n + 1) \X Parts)
    BY <1>3, <1>4, TextIs
  <2> QED BY <2>1, <2>2, <2>3
<1> HIDE DEF t
<1>6. ExchangeTypes'
  <2>1. Seq(AskedTokens) \subseteq Seq(AskedTokens')
    BY <1>5, SeqGrows
  <2>2. Seq(Seq(AskedTokens)) \subseteq Seq(Seq(AskedTokens'))
    BY <2>1, SeqGrows
  <2>3. Seq(Seq(AskedTokens) \ {<<>>}) \subseteq Seq(Seq(AskedTokens') \ {<<>>})
    <3>1. Seq(AskedTokens) \ {<<>>} \subseteq Seq(AskedTokens') \ {<<>>}
      BY <2>1
    <3> QED BY <3>1, SeqGrows
  <2>4. stream' \in Seq(AskedTokens')
    <3>1. stream \in Seq(AskedTokens')
      BY <1>t, <2>1 DEF ExchangeTypes
    <3> HIDE DEF AskedTokens
    <3> QED BY <1>1, <1>5, <3>1, ConcatProperties
  <2>5. Len(asked') <= MaxAsked
    BY <1>t, <1>1, <1>2
  <2> QED BY <1>t, <1>1, <1>2, <2>1, <2>2, <2>3, <2>4, <2>5 DEF ExchangeTypes
<1>7. Len(got) = n /\ ClientInv'
  BY <1>t, <1>1, <1>2 DEF ExchangeInv, ClientInv
<1>8. \A i \in 1..n : i \in Odd' <=> i \in Odd
  BY <1>t, <1>2 DEF Odd
<1>9. AnswersMatch'
  <2>1. Odd \subseteq Odd'
    BY <1>t, <1>8 DEF Odd
  <2> QED BY <1>1, <2>1 DEF ExchangeInv, AnswersMatch
<1>10. Matching => Len(handled) = n /\ NonePending
  <2> SUFFICES ASSUME Matching PROVE Len(handled) = n /\ NonePending
    OBVIOUS
  <2>1. Len(got) <= Len(handled)
    BY DEF ExchangeInv, OfInv
  <2>2. (Len(handled) = n /\ NonePending) \/ Len(handled) + 1 = n
    BY DEF ExchangeInv, MessagesInv
  <2>3. Len(handled) + 1 # n
    <3>1. Len(got) = n
      BY <1>7
    <3>2. Len(handled) \in Nat /\ n \in Nat
      BY <1>t
    <3> QED BY <2>1, <3>1, <3>2
  <2> QED BY <2>2, <2>3
<1>11. MessagesInv'
  <2> SUFFICES ASSUME Matching PROVE MessagesInv'
    BY <1>1 DEF MessagesInv, Matching
  <2>1. \A k \in DOMAIN handled' : handled'[k] = Message(k)'
    <3>1. \A k \in DOMAIN handled : k \in 1..n /\ handled[k] = Message(k)
      BY <1>t, <1>10 DEF ExchangeInv, MessagesInv
    <3> QED BY <1>1, <1>2, <3>1 DEF Message
  <2>2. Message(Len(asked))' = t
    BY <1>2, <1>3 DEF Message, t
  <2>3. raw' \o stream' = t
    <3>1. raw' = <<>> /\ stream' = <<>> \o t
      BY <1>1, <1>10 DEF NonePending
    <3> QED BY <1>5, <3>1, ConcatEmptySeq
  <2>4. Messages' = {}
    <3>1. Messages' = Messages
      BY <1>1 DEF Messages
    <3> QED BY <1>10, <3>1 DEF NonePending
  <2>5. OneArriving'
    BY <2>2, <2>3, <2>4 DEF OneArriving
  <2>6. Len(handled') + 1 = Len(asked')
    BY <1>1, <1>2, <1>10
  <2> QED BY <2>1, <2>5, <2>6 DEF MessagesInv
<1>12. OfInv'
  BY <1>1 DEF ExchangeInv, OfInv, Matching, Flowing
<1>13. StepInv'
  <2> SUFFICES ASSUME Matching PROVE StepInv'
    BY <1>1 DEF StepInv, Matching
  <2>1. ASSUME (Even(Len(asked) - 1))'
        PROVE  todo = <<>> /\ queue = <<>> /\ wire = <<>>
    <3>1. Even(n)
      <4>1. Len(asked') - 1 = n
        BY <1>t, <1>2
      <4> QED BY <1>8, <2>1, <4>1 DEF Even
    <3>2. Len(todo) + Len(queue) + Len(wire) + Len(got) <= n
      BY <3>1 DEF ExchangeInv, StepInv
    <3> QED BY <1>t, <1>7, <3>2
  <2>2. ASSUME todo = <<>>, queue = <<>>, wire = <<>>
        PROVE  /\ \A x : ~Flowing(x)'
               /\ Len(todo') + Len(queue') + Len(wire') + Len(got') <= Len(asked')
    <3>1. DOMAIN queue' = {} /\ DOMAIN wire' = {}
      BY <1>1, <2>2, EmptySeq
    <3>2. \A x : ~Flowing(x)'
      BY <3>1 DEF Flowing, Among
    <3> QED BY <1>t, <1>1, <1>2, <1>7, <2>2, <3>2
  <2>3. (Even(Len(asked)))' => (Even(Len(asked) - 1))'
    BY <1>t, <1>2 DEF Even
  <2> QED BY <1>1, <2>1, <2>2, <2>3 DEF StepInv
<1>14. DropInv'
  BY <1>1 DEF ExchangeInv, DropInv, AllEnd
<1> QED BY <1>6, <1>7, <1>9, <1>11, <1>12, <1>13, <1>14 DEF ExchangeInv

(* The client takes the next answer for that of the request it waits for:  *)
(* it is, unless an earlier request was answered twice or not at all.      *)
LEMMA TakeStep ==
  ASSUME ExchangeInv, Take
  PROVE  ExchangeInv'
<1> DEFINE n == Len(asked)
           x == Head(wire)
<1>t. /\ ExchangeTypes /\ n \in Nat /\ DOMAIN asked = 1..n
      /\ Len(handled) \in Nat
      /\ Len(got) \in Nat /\ DOMAIN got = 1..Len(got)
      /\ Len(todo) \in Nat /\ Len(queue) \in Nat /\ Len(wire) \in Nat
      /\ got \in Seq(Answers) /\ wire \in Seq(Answers)
  BY ExchangeLengths DEF ExchangeInv, ExchangeTypes
<1>1. /\ wire # <<>> /\ client # "closed" /\ wire' = Tail(wire)
      /\ UNCHANGED <<asked, stream, raw, events, handled, todo, waits, running, ended, queue>>
  BY DEF Take, rxVars, connVars
<1>2. /\ x \in Answers /\ wire' \in Seq(Answers) /\ Len(wire') = Len(wire) - 1
      /\ Flowing(x) /\ \A y : Flowing(y)' => Flowing(y)
  <2>1. x \in Answers /\ wire' \in Seq(Answers) /\ Len(wire') = Len(wire) - 1
    BY <1>t, <1>1, TailElements
  <2>2. \A y : Among(wire, y) <=> Among(Tail(wire), y) \/ y = x
    BY <1>t, <1>1, AmongTail
  <2> QED BY <1>1, <2>1, <2>2 DEF Flowing
<1> HIDE DEF x
<1>3. CASE client = "waiting"
  <2>1. /\ got' = Append(got, x) /\ Len(got) + 1 = n
        /\ client' \in {"closed", "idle"}
    BY <1>3 DEF Take, x, ExchangeInv, ClientInv
  <2>2. /\ got' \in Seq(Answers) /\ Len(got') = n /\ DOMAIN got' = 1..n
        /\ \A k \in DOMAIN got : k \in DOMAIN got' /\ got'[k] = got[k]
        /\ n \in DOMAIN got' /\ got'[n] = x
        /\ \A k \in DOMAIN got' : k \in DOMAIN got \/ k = n
        /\ \A k \in DOMAIN got : k < n
    <3>1. /\ got' \in Seq(Answers) /\ Len(got') = Len(got) + 1
          /\ DOMAIN got' = 1..Len(got) + 1
          /\ \A k \in 1..Len(got) : got'[k] = got[k]
          /\ got'[Len(got) + 1] = x
      <4>1. got \in Seq(Answers) /\ x \in Answers /\ got' = Append(got, x)
        BY <1>t, <1>2, <2>1
      <4> QED BY <4>1, AppendElements
    <3> DEFINE g == Len(got)
    <3>2. /\ DOMAIN got = 1..g /\ g \in Nat /\ g + 1 = n
      BY <1>t, <2>1
    <3> HIDE DEF g
    <3>3. /\ \A k \in 1..g : k \in 1..g + 1 /\ k < g + 1
          /\ g + 1 \in 1..g + 1 /\ \A k \in 1..g + 1 : k \in 1..g \/ k = g + 1
      BY <3>2
    <3> QED BY <3>1, <3>2, <3>3 DEF g
  <2>3. ExchangeTypes'
    <3>1. AskedTokens' = AskedTokens
      BY <1>1 DEF AskedTokens
    <3>2. client' \in {"idle", "waiting", "closed"}
      BY <2>1
    <3>3. wire' \in Seq(Answers) /\ got' \in Seq(Answers)
      BY <1>2, <2>2
    <3> QED BY <1>t, <1>1, <3>1, <3>2, <3>3 DEF ExchangeTypes
  <2>4. ClientInv'
    <3>1. Len(got') = Len(asked') /\ Len(asked') \in Nat
      BY <1>t, <1>1, <2>2
    <3> QED BY <2>1, <3>1 DEF ClientInv
  <2>5. Matching' => Matching /\ x.of = n
    BY <2>2 DEF Matching
  <2>6. AnswersMatch'
    <3>1. Odd' = Odd
      BY <1>1 DEF Odd
    <3>2. \A k \in DOMAIN got : got[k].of = k \/ \E i \in Odd : i < k
      BY DEF ExchangeInv, AnswersMatch
    <3>3. x.of = n \/ \E i \in Odd : i < n
      <4>1. CASE Matching /\ Even(n - 1)
        BY <1>2, <4>1 DEF ExchangeInv, StepInv
      <4>2. CASE ~Even(n - 1)
        <5>1. PICK i \in 1..n - 1 : i \in Odd
          BY <4>2 DEF Even
        <5>2. i < n
          BY <1>t, <5>1
        <5> QED BY <5>1, <5>2
      <4>3. CASE ~Matching
        <5>1. PICK k \in DOMAIN got : got[k].of # k
          BY <4>3 DEF Matching
        <5>2. PICK i \in Odd : i < k
          BY <3>2, <5>1
        <5>3. i < n
          <6>1. i \in Nat /\ k \in Nat /\ k < n
            BY <1>t, <2>2 DEF Odd
          <6> QED BY <1>t, <5>2, <6>1
        <5> QED BY <5>3
      <4> QED BY <4>1, <4>2, <4>3
    <3> QED BY <2>2, <3>1, <3>2, <3>3 DEF AnswersMatch
  <2>7. MessagesInv'
    BY <1>1, <2>5, MessagesKept DEF ExchangeInv
  <2>8. OfInv'
    <3> SUFFICES ASSUME Matching'
                 PROVE  /\ Len(got') <= Len(handled')
                        /\ \A y : Flowing(y)' => y.of <= Len(handled')
      BY DEF OfInv
    <3>1. \A y : Flowing(y) => y.of <= Len(handled)
      BY <2>5 DEF ExchangeInv, OfInv
    <3> QED BY <1>1, <1>2, <2>2, <2>5, <3>1
  <2>9. StepInv'
    <3>0. SUFFICES ASSUME Matching' PROVE StepInv'
      BY DEF StepInv
    <3>1. /\ Matching /\ Odd' = Odd /\ asked' = asked
          /\ (Even(Len(asked) - 1))' = Even(Len(asked) - 1)
          /\ (Even(Len(asked)))' = Even(Len(asked))
      BY <1>1, <2>5, <3>0 DEF Odd, Even
    <3>2. ASSUME Even(n - 1)
          PROVE  /\ \A y : Flowing(y)' => y.of = Len(asked')
                 /\ Len(handled') = Len(asked')
      <4>1. Len(handled) = n
        BY <1>1, <3>1, <3>2 DEF ExchangeInv, StepInv
      <4> QED BY <1>1, <1>2, <3>1, <3>2, <4>1 DEF ExchangeInv, StepInv
    <3>3. ASSUME Even(n)
          PROVE  Len(todo') + Len(queue') + Len(wire') + Len(got') <= Len(asked')
      <4>1. Len(todo) + Len(queue) + Len(wire) + Len(got) <= n
        BY <3>1, <3>3 DEF ExchangeInv, StepInv
      <4>2. Len(wire') = Len(wire) - 1 /\ Len(got') = Len(got) + 1
        BY <1>2, <2>1, <2>2
      <4>3. Len(todo') = Len(todo) /\ Len(queue') = Len(queue) /\ Len(asked') = n
        BY <1>1
      <4> QED BY <1>t, <4>1, <4>2, <4>3
    <3> QED BY <3>1, <3>2, <3>3 DEF StepInv
  <2>10. DropInv'
    BY <1>1 DEF ExchangeInv, DropInv, AllEnd
  <2> QED BY <2>3, <2>4, <2>6, <2>7, <2>8, <2>9, <2>10 DEF ExchangeInv
<1>4. CASE client # "waiting"
  <2>1. client' = "closed" /\ UNCHANGED got
    BY <1>4 DEF Take
  <2>2. ExchangeTypes'
    BY <1>t, <1>1, <1>2, <2>1 DEF ExchangeTypes, AskedTokens
  <2>3. ClientInv' /\ AnswersMatch' /\ Matching' = Matching
    BY <1>1, <2>1, ClientKept
  <2>4. MessagesInv'
    BY <1>1, <2>3, MessagesKept DEF ExchangeInv
  <2>5. Len(queue') + Len(wire') <= Len(queue) + Len(wire) /\ Len(todo') <= Len(todo)
    BY <1>t, <1>1, <1>2
  <2>6. OfInv' /\ StepInv'
    BY <1>1, <1>2, <2>1, <2>2, <2>5, FlowKept
  <2>7. DropInv'
    BY <1>1, <2>1 DEF ExchangeInv, DropInv, AllEnd
  <2> QED BY <2>2, <2>3, <2>4, <2>6, <2>7 DEF ExchangeInv
<1> QED BY <1>3, <1>4

LEMMA CloseStep ==
  ASSUME ExchangeInv, ClientClose
  PROVE  ExchangeInv'
<1>1. /\ client' = "closed"
      /\ UNCHANGED <<asked, got, stream, raw, events, handled, todo, waits, running, ended,
                     queue, wire>>
  BY DEF ClientClose, rxVars, connVars
<1>2. ExchangeTypes'
  BY <1>1 DEF ExchangeInv, ExchangeTypes, AskedTokens
<1>3. ClientInv' /\ AnswersMatch' /\ Matching' = Matching
  BY <1>1, ClientKept
<1>4. MessagesInv'
  BY <1>1, <1>3, MessagesKept DEF ExchangeInv
<1>5. OfInv' /\ StepInv'
  BY <1>1, <1>3 DEF ExchangeInv, OfInv, StepInv, Flowing, Even, Odd
<1>6. DropInv'
  BY <1>1 DEF ExchangeInv, DropInv, AllEnd
<1> QED BY <1>2, <1>3, <1>4, <1>5, <1>6 DEF ExchangeInv

-----------------------------------------------------------------------------
(* The connection: what it reads and what it handles.                      *)

LEMMA Associates ==
  \A S : \A r, a, b \in Seq(S) : (r \o a) \o b = r \o (a \o b)
BY ConcatAssociative

(* What is left of a text once its beginning is read. *)
LEMMA CutInTwo ==
  ASSUME NEW S, NEW s \in Seq(S), NEW k \in 1..Len(s)
  PROVE  /\ SubSeq(s, 1, k) \in Seq(S) /\ SubSeq(s, k + 1, Len(s)) \in Seq(S)
         /\ SubSeq(s, 1, k) # <<>>
         /\ SubSeq(s, 1, k) \o SubSeq(s, k + 1, Len(s)) = s
<1> DEFINE a == SubSeq(s, 1, k)
           b == SubSeq(s, k + 1, Len(s))
<1>0. Len(s) \in Nat /\ k \in Int /\ \A i \in 1..Len(s) : s[i] \in S
  BY LenProperties, ElementOfSeq
<1>1. a \in Seq(S) /\ Len(a) = k
  <2>1. \A i \in 1..k : s[i] \in S
    BY <1>0
  <2>2. a \in Seq(S) /\ Len(a) = IF 1 <= k THEN k - 1 + 1 ELSE 0
    BY <1>0, <2>1, SubSeqProperties
  <2> QED BY <1>0, <2>2
<1>2. b \in Seq(S)
  <2>1. k + 1 \in Int /\ Len(s) \in Int /\ \A i \in k + 1..Len(s) : s[i] \in S
    BY <1>0
  <2> QED BY <2>1, SubSeqProperties
<1>3. a \o b = s
  <2>1. /\ 1 \in 1..Len(s) + 1 /\ k \in 1 - 1..Len(s) /\ Len(s) \in k..Len(s)
    BY <1>0
  <2>2. SubSeq(s, 1, k) \o SubSeq(s, k + 1, Len(s)) = SubSeq(s, 1, Len(s))
    BY <2>1, ConcatAdjacentSubSeq
  <2>3. SubSeq(s, 1, Len(s)) = s
    BY SubSeqFull
  <2> QED BY <2>2, <2>3
<1> HIDE DEF a, b
<1>5. a # <<>>
  <2>1. Len(a) # 0
    BY <1>1
  <2> QED BY <2>1, EmptySeq
<1> QED BY <1>1, <1>2, <1>3, <1>5 DEF a, b

(* Answers and their order stay as they are. *)
LEMMA AnswersUntouched ==
  ASSUME ExchangeInv, UNCHANGED <<asked, got, client, handled, todo, queue, wire>>
  PROVE  ClientInv' /\ AnswersMatch' /\ Matching' = Matching /\ OfInv' /\ StepInv'
<1>1. ClientInv' /\ AnswersMatch' /\ Matching' = Matching
  BY ClientKept
<1>2. OfInv' /\ StepInv'
  BY <1>1 DEF ExchangeInv, OfInv, StepInv, Flowing, Even, Odd
<1> QED BY <1>1, <1>2

LEMMA ReadStep ==
  ASSUME ExchangeInv, NEW k \in 1..Len(stream), Read(k)
  PROVE  ExchangeInv'
<1> DEFINE piece == SubSeq(stream, 1, k)
           text == raw \o piece
           rest == SubSeq(stream, k + 1, Len(stream))
<1>1. /\ stream' = rest
      /\ Complete(text) => raw' = <<>> /\ events' = Append(events, text)
      /\ ~Complete(text) => raw' = text /\ events' = events
      /\ UNCHANGED <<asked, got, client, handled, todo, waits, running, ended, queue, wire>>
  BY DEF Read, clientVars, connVars
<1>t. /\ ExchangeTypes /\ stream \in Seq(AskedTokens) /\ raw \in Seq(AskedTokens)
      /\ events \in Seq(Seq(AskedTokens))
      /\ Len(asked) \in Nat /\ Len(handled) \in Nat
      /\ Len(events) \in Nat /\ DOMAIN events = 1..Len(events)
  BY ExchangeLengths DEF ExchangeInv, ExchangeTypes
<1>2. /\ text \in Seq(AskedTokens) /\ rest \in Seq(AskedTokens) /\ text # <<>>
      /\ text \o rest = raw \o stream
  <2>0. raw \in Seq(AskedTokens)
    BY <1>t
  <2>a. \A a, b \in Seq(AskedTokens) : (raw \o a) \o b = raw \o (a \o b)
    BY <2>0, Associates
  <2>1. piece \in Seq(AskedTokens) /\ rest \in Seq(AskedTokens) /\ piece # <<>>
        /\ piece \o rest = stream /\ raw \in Seq(AskedTokens)
    BY <1>t, CutInTwo
  <2> HIDE DEF piece, rest
  <2>2. text \in Seq(AskedTokens) /\ text # <<>>
    BY <2>1, ConcatProperties, ConcatEqualIffEmpty
  <2>3. text \o rest = raw \o (piece \o rest)
    BY <2>1, <2>a
  <2> QED BY <2>1, <2>2, <2>3
<1> HIDE DEF text, rest, piece
<1>3. /\ ClientInv' /\ AnswersMatch' /\ Matching' = Matching /\ OfInv' /\ StepInv'
  BY <1>1, AnswersUntouched
<1>4. CASE ~Complete(text)
  <2>1. /\ raw' = text /\ stream' = rest /\ events' = events
        /\ UNCHANGED <<asked, got, client, handled, todo, waits, running, ended, queue, wire>>
    BY <1>1, <1>4
  <2>2. ExchangeTypes'
    BY <1>t, <1>2, <2>1 DEF ExchangeTypes, AskedTokens
  <2>3. DropInv'
    BY <2>1 DEF ExchangeInv, DropInv, AllEnd
  <2>4. MessagesInv'
    <3> SUFFICES ASSUME Matching PROVE MessagesInv'
      BY <1>3 DEF MessagesInv
    <3>1. stream # <<>>
      BY <1>t, EmptySeq
    <3>2. /\ Messages = {} /\ raw \o stream = Message(Len(asked))
          /\ Len(handled) + 1 = Len(asked)
          /\ \A i \in DOMAIN handled : handled[i] = Message(i)
      BY <3>1 DEF ExchangeInv, MessagesInv, NonePending, OneArriving, OneArrived
    <3>3. OneArriving'
      BY <1>2, <2>1, <3>2 DEF OneArriving, Messages, Message
    <3> QED BY <2>1, <3>2, <3>3 DEF MessagesInv, Message
  <2> QED BY <1>3, <2>2, <2>3, <2>4 DEF ExchangeInv
<1>5. CASE Complete(text)
  <2>1. /\ raw' = <<>> /\ stream' = rest /\ events' = Append(events, text)
        /\ UNCHANGED <<asked, got, client, handled, todo, waits, running, ended, queue, wire>>
    BY <1>1, <1>5
  <2>2. /\ events' \in Seq(Seq(AskedTokens)) /\ DOMAIN events' = 1..Len(events) + 1
        /\ \A p \in DOMAIN events : events'[p] = events[p]
        /\ events'[Len(events) + 1] = text
    BY <1>t, <1>2, <2>1, AppendElements
  <2>3. ExchangeTypes'
    <3>1. <<>> \in Seq(AskedTokens) /\ AskedTokens' = AskedTokens
      BY <2>1, EmptySeq DEF AskedTokens
    <3> QED BY <1>t, <1>2, <2>1, <2>2, <3>1 DEF ExchangeTypes
  <2>p. /\ \A p \in DOMAIN events' : p \in DOMAIN events \/ p = Len(events) + 1
        /\ Len(events) + 1 \in DOMAIN events' /\ Len(events) + 1 \notin DOMAIN events
        /\ \A p \in DOMAIN events : p \in DOMAIN events'
    BY <1>t, <2>2
  <2>4. DropInv'
    <3>1. client # "closed" => \A p \in DOMAIN events' : events'[p] # <<>>
      BY <1>2, <2>2, <2>p DEF ExchangeInv, DropInv
    <3> QED BY <2>1, <3>1 DEF ExchangeInv, DropInv, AllEnd
  <2>5. MessagesInv'
    <3> SUFFICES ASSUME Matching PROVE MessagesInv'
      BY <1>3 DEF MessagesInv
    <3>1. stream # <<>>
      BY <1>t, EmptySeq
    <3>2. /\ Messages = {} /\ raw \o stream = Message(Len(asked))
          /\ Len(handled) + 1 = Len(asked)
          /\ \A i \in DOMAIN handled : handled[i] = Message(i)
      BY <3>1 DEF ExchangeInv, MessagesInv, NonePending, OneArriving, OneArrived
    <3>3. text = Message(Len(asked)) /\ rest = <<>>
      <4>1. Len(asked) \in 1..Len(asked)
        BY <1>t, <3>2
      <4>2. asked[Len(asked)].body \in Nat
        BY <1>t, <4>1, RequestsAre
      <4>3. text \o rest = Text(Len(asked), asked[Len(asked)].body)
        BY <1>2, <3>2 DEF Message
      <4>4. /\ text \in Seq((1..Len(asked)) \X Parts) /\ rest \in Seq((1..Len(asked)) \X Parts)
        BY <1>2 DEF AskedTokens
      <4> QED BY <1>2, <1>5, <4>1, <4>2, <4>3, <4>4, CompleteIsWhole DEF Message
    <3>4. Messages' = {Len(events) + 1}
      <4>1. \A p \in DOMAIN events : events[p] = <<>>
        BY <3>2 DEF Messages
      <4>2. \A p \in DOMAIN events' : events'[p] # <<>> <=> p = Len(events) + 1
        BY <1>2, <2>2, <2>p, <4>1
      <4> QED BY <2>p, <4>2 DEF Messages
    <3>5. OneArrived'
      <4>1. Message(Len(asked))' = Message(Len(asked))
        BY <2>1 DEF Message
      <4> QED BY <2>1, <2>2, <2>p, <3>3, <3>4, <4>1 DEF OneArrived
    <3> QED BY <2>1, <3>2, <3>5 DEF MessagesInv, Message
  <2> QED BY <1>3, <2>3, <2>4, <2>5 DEF ExchangeInv
<1> QED BY <1>4, <1>5

LEMMA ResetStep ==
  ASSUME ExchangeInv, Reset
  PROVE  ExchangeInv'
<1>1. /\ client = "closed" /\ events' = Append(events, <<>>)
      /\ UNCHANGED <<asked, got, client, stream, raw, handled, todo, waits, running, ended,
                     queue, wire>>
  BY DEF Reset, clientVars, rxVars, connVars
<1>t. /\ ExchangeTypes /\ events \in Seq(Seq(AskedTokens)) /\ <<>> \in Seq(AskedTokens)
      /\ Len(events) \in Nat /\ DOMAIN events = 1..Len(events)
  BY ExchangeLengths, EmptySeq DEF ExchangeInv, ExchangeTypes
<1>2. /\ events' \in Seq(Seq(AskedTokens)) /\ DOMAIN events' = 1..Len(events) + 1
      /\ \A p \in DOMAIN events : events'[p] = events[p]
      /\ events'[Len(events) + 1] = <<>>
  BY <1>t, <1>1, AppendElements
<1>3. ExchangeTypes'
  BY <1>t, <1>1, <1>2 DEF ExchangeTypes, AskedTokens
<1>4. /\ ClientInv' /\ AnswersMatch' /\ Matching' = Matching /\ OfInv' /\ StepInv'
  BY <1>1, AnswersUntouched
<1>5. DropInv'
  BY <1>1 DEF ExchangeInv, DropInv, AllEnd
<1>6. MessagesInv'
  <2>1. /\ \A p \in DOMAIN events' : p \in DOMAIN events \/ p = Len(events) + 1
        /\ \A p \in DOMAIN events : p \in DOMAIN events'
    BY <1>t, <1>2
  <2>2. Messages' = Messages
    BY <1>2, <2>1 DEF Messages
  <2> QED BY <1>1, <1>2, <1>4, <2>1, <2>2 DEF ExchangeInv, MessagesInv, Message, NonePending,
                                             OneArriving, OneArrived
<1> QED BY <1>3, <1>4, <1>5, <1>6 DEF ExchangeInv

(* The first event, and those behind it. *)
LEMMA EventsMove ==
  ASSUME ExchangeTypes, events # <<>>
  PROVE  /\ Head(events) \in Seq(AskedTokens) /\ Head(events) = events[1]
         /\ Tail(events) \in Seq(Seq(AskedTokens))
         /\ 1 \in DOMAIN events /\ DOMAIN Tail(events) = 1..Len(events) - 1
         /\ \A p \in DOMAIN Tail(events) :
              /\ p + 1 \in DOMAIN events /\ p + 1 # 1 /\ p \in Int
              /\ Tail(events)[p] = events[p + 1]
         /\ \A p \in DOMAIN events : p = 1 \/ (p - 1 \in DOMAIN Tail(events) /\ p \in Int)
<1>1. events \in Seq(Seq(AskedTokens))
  BY DEF ExchangeTypes
<1>2. /\ Head(events) \in Seq(AskedTokens) /\ Head(events) = events[1]
      /\ Tail(events) \in Seq(Seq(AskedTokens))
      /\ Len(events) \in Nat /\ Len(events) > 0 /\ DOMAIN events = 1..Len(events)
      /\ DOMAIN Tail(events) = 1..Len(events) - 1
      /\ \A i \in 1..Len(events) - 1 : Tail(events)[i] = events[i + 1]
  BY <1>1, TailElements
<1>3. /\ \A p \in 1..Len(events) - 1 : p + 1 \in 1..Len(events) /\ p + 1 # 1 /\ p \in Int
      /\ \A p \in 1..Len(events) : p = 1 \/ (p - 1 \in 1..Len(events) - 1 /\ p \in Int)
      /\ 1 \in 1..Len(events)
  BY <1>2
<1> QED BY <1>2, <1>3

(* The message in front is, while the answers match, the last request.     *)
LEMMA HandleStep ==
  ASSUME ExchangeInv, Handle
  PROVE  ExchangeInv'
<1> DEFINE n == Len(asked)
           h == Len(handled)
           m == Head(events)
           i == m[1][1]
<1>1. /\ todo = <<>> /\ ~waits /\ running /\ events # <<>> /\ m # <<>>
      /\ events' = Tail(events) /\ handled' = Append(handled, m)
      /\ todo' = AnswersTo(asked[i].kind, asked[i].close)
      /\ UNCHANGED <<asked, got, client, stream, raw, waits, running, ended, queue, wire>>
  BY DEF Handle, Idle, clientVars, rxVars
<1>t. /\ ExchangeTypes /\ n \in Nat /\ h \in Nat /\ DOMAIN handled = 1..h
      /\ Len(got) \in Nat /\ Len(queue) \in Nat /\ Len(wire) \in Nat
      /\ handled \in Seq(Seq(AskedTokens) \ {<<>>})
      /\ (queue = <<>> <=> Len(queue) = 0) /\ (wire = <<>> <=> Len(wire) = 0)
  BY ExchangeLengths DEF ExchangeInv, ExchangeTypes
<1>2. /\ m \in Seq(AskedTokens) /\ m = events[1] /\ 1 \in DOMAIN events
      /\ events' \in Seq(Seq(AskedTokens))
      /\ \A p \in DOMAIN events' :
           p + 1 \in DOMAIN events /\ p + 1 # 1 /\ events'[p] = events[p + 1]
  BY <1>t, <1>1, EventsMove
<1>3. i \in 1..n
  <2>1. Len(m) \in Nat /\ Len(m) # 0
    BY <1>1, <1>2, SeqFacts
  <2>2. m[1] \in AskedTokens
    <3>1. 1 \in 1..Len(m)
      BY <2>1
    <3> QED BY <1>2, <3>1, ElementOfSeq
  <2> QED BY <2>2 DEF AskedTokens
<1>4. /\ todo' \in Seq([status : Statuses, ends : BOOLEAN])
      /\ \A p, q \in DOMAIN todo' : todo'[p].ends = todo'[q].ends
  <2>1. asked[i].kind \in Kinds /\ asked[i].close \in BOOLEAN
    BY <1>t, <1>3, RequestsAre
  <2> QED BY <1>1, <2>1, AnswersAre
<1>5. /\ handled' \in Seq(Seq(AskedTokens) \ {<<>>}) /\ Len(handled') = h + 1
      /\ DOMAIN handled' = 1..h + 1 /\ handled'[h + 1] = m
      /\ \A k \in 1..h : handled'[k] = handled[k]
  <2>1. m \in Seq(AskedTokens) \ {<<>>}
    BY <1>1, <1>2
  <2> QED BY <1>t, <1>1, <2>1, AppendElements
<1>6. ExchangeTypes'
  <2>1. handled' # <<>>
    BY <1>t, <1>5, EmptySeq
  <2>2. AskedTokens' = AskedTokens
    BY <1>1 DEF AskedTokens
  <2> QED BY <1>t, <1>1, <1>2, <1>4, <1>5, <2>1, <2>2 DEF ExchangeTypes
<1>7. ClientInv' /\ AnswersMatch' /\ Matching' = Matching
  BY <1>1, ClientKept
<1>8. ASSUME Matching
      PROVE  /\ h + 1 = n /\ m = Message(n) /\ i = n /\ Len(got) <= h
             /\ Messages = {1} /\ raw = <<>> /\ stream = <<>>
             /\ \A k \in DOMAIN handled : handled[k] = Message(k)
  <2>1. 1 \in Messages
    BY <1>1, <1>2 DEF Messages
  <2>2. OneArrived /\ h + 1 = n /\ \A k \in DOMAIN handled : handled[k] = Message(k)
    BY <1>8, <2>1 DEF ExchangeInv, MessagesInv, NonePending, OneArriving
  <2>3. m = Message(n) /\ Messages = {1} /\ raw = <<>> /\ stream = <<>>
    BY <1>2, <2>1, <2>2 DEF OneArrived
  <2>4. n \in 1..n
    BY <1>t, <2>2
  <2>5. i = n
    BY <1>t, <2>3, <2>4, RequestsAre
  <2>6. Len(got) <= h
    BY <1>8 DEF ExchangeInv, OfInv
  <2> QED BY <2>2, <2>3, <2>5, <2>6
<1> HIDE DEF m, i
<1>n. ASSUME Matching
      PROVE  h + 1 = n /\ h # n /\ n \in 1..n /\ Len(got) <= h
  <2>1. h + 1 = n /\ Len(got) <= h
    BY <1>8, <1>n
  <2>2. h \in Nat /\ n \in Nat
    BY <1>t
  <2> QED BY <2>1, <2>2
<1>9. MessagesInv'
  <2> SUFFICES ASSUME Matching PROVE MessagesInv'
    BY <1>7 DEF MessagesInv
  <2>1. Messages' = {}
    <3>1. \A p \in DOMAIN events' : p + 1 \notin Messages
      BY <1>2, <1>8
    <3> QED BY <1>2, <3>1 DEF Messages
  <2>2. NonePending'
    BY <1>1, <1>8, <2>1 DEF NonePending
  <2>3. Len(handled') = Len(asked')
    BY <1>1, <1>5, <1>8
  <2>4. \A k \in DOMAIN handled' : handled'[k] = Message(k)'
    <3>1. \A k \in DOMAIN handled' : k \in 1..h \/ k = h + 1
      BY <1>t, <1>5
    <3>2. \A k \in 1..h : handled'[k] = Message(k)
      BY <1>t, <1>5, <1>8
    <3>3. handled'[h + 1] = Message(h + 1)
      BY <1>5, <1>8
    <3>4. \A k : Message(k)' = Message(k)
      BY <1>1 DEF Message
    <3> QED BY <3>1, <3>2, <3>3, <3>4
  <2> QED BY <2>2, <2>3, <2>4 DEF MessagesInv
<1>10. OfInv'
  <2> SUFFICES ASSUME Matching
               PROVE  /\ Len(got') <= Len(handled')
                      /\ \A x : Flowing(x)' => x.of <= Len(handled')
    BY <1>7 DEF OfInv
  <2>0. Len(got') <= Len(handled')
    <3>1. Len(got') = Len(got) /\ Len(handled') = h + 1
      BY <1>1, <1>5
    <3>2. Len(got) \in Nat /\ h \in Nat /\ Len(got) <= h
      BY <1>t, <1>n
    <3> QED BY <3>1, <3>2
  <2>1. \A x : Flowing(x)' => Flowing(x)
    BY <1>1 DEF Flowing
  <2>2. CASE Even(n - 1)
    <3>1. queue = <<>> /\ wire = <<>>
      BY <1>n, <2>2 DEF ExchangeInv, StepInv
    <3>2. DOMAIN queue = {} /\ DOMAIN wire = {}
      BY <3>1, EmptySeq
    <3>3. \A x : ~Flowing(x)
      BY <3>2 DEF Flowing, Among
    <3> QED BY <2>0, <2>1, <3>3
  <2>3. CASE ~Even(n - 1)
    <3>1. \A x : Flowing(x) => x.of <= h
      BY DEF ExchangeInv, OfInv
    <3>2. \A x : Flowing(x) => x \in Answers
      BY <1>t, SeqFacts DEF Flowing, Among, ExchangeTypes
    <3>3. \A x \in Answers : x.of \in Nat
      BY DEF Answers
    <3>4. \A x : Flowing(x) => x.of <= h + 1
      BY <1>t, <3>1, <3>2, <3>3
    <3> QED BY <1>5, <2>0, <2>1, <3>4
  <2> QED BY <2>2, <2>3
<1>11. StepInv'
  <2> SUFFICES ASSUME Matching PROVE StepInv'
    BY <1>7 DEF StepInv
  <2>1. /\ Odd' = Odd /\ (Even(Len(asked) - 1))' = Even(n - 1)
        /\ (Even(Len(asked)))' = Even(n) /\ Len(handled') = Len(asked')
    BY <1>1, <1>5, <1>8 DEF Odd, Even
  <2>2. Even(n - 1) => \A x : Flowing(x)' => x.of = Len(asked')
    BY <1>1 DEF ExchangeInv, StepInv, Flowing
  <2>3. ASSUME Even(n)
        PROVE  Len(todo') + Len(queue') + Len(wire') + Len(got') <= Len(asked')
    <3>1. Even(n - 1)
      BY <1>t, <2>3 DEF Even
    <3>2. queue = <<>> /\ wire = <<>>
      BY <1>n, <3>1 DEF ExchangeInv, StepInv
    <3>3. n \in 1..n
      BY <1>n
    <3>4. Len(todo') = 1
      <4>1. n \notin Odd
        BY <2>3, <3>3 DEF Even
      <4>2. n \in DOMAIN asked
        BY <1>t, <3>3, ExchangeLengths
      <4> QED BY <1>1, <1>8, <4>1, <4>2 DEF Odd
    <3>5. Len(queue') = 0 /\ Len(wire') = 0 /\ Len(got') = Len(got) /\ Len(asked') = n
      BY <1>t, <1>1, <3>2
    <3>6. Len(got) \in Nat /\ Len(got) + 1 <= n
      <4>1. Len(got) \in Nat /\ h \in Nat
        BY <1>t
      <4> QED BY <1>n, <4>1
    <3> QED BY <3>4, <3>5, <3>6
  <2> QED BY <2>1, <2>2, <2>3 DEF StepInv
<1>12. DropInv'
  <2>1. client' # "closed" => \A p \in DOMAIN events' : events'[p] # <<>>
    BY <1>1, <1>2 DEF ExchangeInv, DropInv
  <2> QED BY <1>1, <1>4, <2>1 DEF DropInv
<1> QED BY <1>6, <1>7, <1>9, <1>10, <1>11, <1>12 DEF ExchangeInv

LEMMA HandleResetStep ==
  ASSUME ExchangeInv, HandleReset
  PROVE  ExchangeInv'
<1>1. /\ todo = <<>> /\ events # <<>> /\ Head(events) = <<>>
      /\ events' = Tail(events) /\ running' = FALSE
      /\ UNCHANGED <<asked, got, client, stream, raw, handled, todo, waits, ended, queue, wire>>
  BY DEF HandleReset, Idle, clientVars, rxVars
<1>t. ExchangeTypes
  BY DEF ExchangeInv
<1>2. /\ events[1] = <<>> /\ 1 \in DOMAIN events /\ events' \in Seq(Seq(AskedTokens))
      /\ \A p \in DOMAIN events' :
           p + 1 \in DOMAIN events /\ p \in Int /\ events'[p] = events[p + 1]
      /\ \A p \in DOMAIN events : p = 1 \/ (p - 1 \in DOMAIN events' /\ p \in Int)
  BY <1>t, <1>1, EventsMove
<1>3. ExchangeTypes'
  <2>1. AskedTokens' = AskedTokens
    BY <1>1 DEF AskedTokens
  <2> QED BY <1>t, <1>1, <1>2, <2>1 DEF ExchangeTypes
<1>4. ClientInv' /\ AnswersMatch' /\ Matching' = Matching /\ OfInv' /\ StepInv'
  BY <1>1, AnswersUntouched
<1>5. DropInv'
  <2>1. client = "closed"
    BY <1>2 DEF ExchangeInv, DropInv
  <2> QED BY <1>1, <2>1 DEF ExchangeInv, DropInv, AllEnd
<1>6. MessagesInv'
  <2> SUFFICES ASSUME Matching PROVE MessagesInv'
    BY <1>4 DEF MessagesInv
  <2>0. \A k : Message(k)' = Message(k)
    BY <1>1 DEF Message
  <2>1. Messages = {} => Messages' = {}
    <3> SUFFICES ASSUME Messages = {} PROVE Messages' = {}
      OBVIOUS
    <3>1. \A p \in DOMAIN events : events[p] = <<>>
      BY DEF Messages
    <3>2. \A p \in DOMAIN events' : events'[p] = <<>>
      BY <1>2, <3>1
    <3> QED BY <3>2 DEF Messages
  <2>2. NonePending => NonePending'
    BY <1>1, <2>1 DEF NonePending
  <2>3. OneArriving => OneArriving'
    BY <1>1, <2>0, <2>1 DEF OneArriving
  <2>4. OneArrived => OneArrived'
    <3> SUFFICES ASSUME OneArrived PROVE OneArrived'
      OBVIOUS
    <3>1. PICK p \in DOMAIN events : events[p] = Message(Len(asked)) /\ Messages = {p}
      BY DEF OneArrived
    <3>2. p # 1 /\ events[p] # <<>> /\ \A q \in DOMAIN events : q # p => events[q] = <<>>
      BY <1>2, <3>1 DEF Messages
    <3>3. p - 1 \in DOMAIN events' /\ p \in Int /\ (p - 1) + 1 = p
      BY <1>2, <3>2
    <3>4. events'[p - 1] = events[p]
      BY <1>2, <3>3
    <3>5. \A q \in DOMAIN events' : q # p - 1 => events'[q] = <<>>
      <4> TAKE q \in DOMAIN events'
      <4> HAVE q # p - 1
      <4>1. q \in Int /\ q + 1 # p
        BY <1>2, <3>3
      <4> QED BY <1>2, <3>2, <4>1
    <3>6. Messages' = {p - 1}
      BY <3>2, <3>3, <3>4, <3>5 DEF Messages
    <3>7. events'[p - 1] = Message(Len(asked))'
      BY <1>1, <2>0, <3>1, <3>4
    <3> QED BY <1>1, <3>3, <3>6, <3>7 DEF OneArrived
  <2>5. \A k \in DOMAIN handled' : handled'[k] = Message(k)'
    BY <1>1, <2>0 DEF ExchangeInv, MessagesInv
  <2> QED BY <1>1, <2>2, <2>3, <2>4, <2>5 DEF ExchangeInv, MessagesInv
<1> QED BY <1>3, <1>4, <1>5, <1>6 DEF ExchangeInv


-----------------------------------------------------------------------------
(* Answers on their way, and the end.                                      *)

(* A step that neither adds an answer nor touches a message. *)
LEMMA FlowStep ==
  ASSUME ExchangeInv, ExchangeTypes', DropInv',
         UNCHANGED <<asked, got, client, handled, events, raw, stream>>,
         \A x : Flowing(x)' => Flowing(x),
         Len(todo') <= Len(todo), Len(queue') + Len(wire') <= Len(queue) + Len(wire)
  PROVE  ExchangeInv'
<1>1. ClientInv' /\ AnswersMatch' /\ Matching' = Matching
  BY ClientKept
<1>2. OfInv' /\ StepInv'
  BY FlowKept
<1>3. MessagesInv'
  BY <1>1, MessagesKept DEF ExchangeInv
<1> QED BY <1>1, <1>2, <1>3 DEF ExchangeInv

LEMMA EmptyIsShort ==
  /\ Len(<<>>) = 0 /\ \A x : ~Among(<<>>, x)
  /\ \A S : <<>> \in Seq(S)
BY EmptySeq DEF Among

(* What the controller answers is of the message handled last.             *)
LEMMA AnswerStep ==
  ASSUME ExchangeInv, Answer
  PROVE  ExchangeInv'
<1> DEFINE n == Len(asked)
           h == Len(handled)
           x == [of |-> Of, close |-> Head(todo).status = "ok" /\ asked[Of].close]
<1>1. /\ todo # <<>> /\ queue' = Append(queue, x)
      /\ todo' = Tail(todo) /\ waits' = Head(todo).ends
      /\ UNCHANGED <<asked, got, client, stream, raw, events, handled, running, ended, wire>>
  BY DEF Answer, clientVars, rxVars
<1>t. /\ ExchangeTypes /\ n \in Nat /\ h \in Nat /\ DOMAIN handled = 1..h
      /\ Len(got) \in Nat /\ Len(queue) \in Nat /\ Len(wire) \in Nat /\ Len(todo) \in Nat
      /\ handled \in Seq(Seq(AskedTokens) \ {<<>>}) /\ queue \in Seq(Answers)
      /\ todo \in Seq([status : Statuses, ends : BOOLEAN])
      /\ handled # <<>> /\ n <= MaxAsked /\ MaxAsked \in Nat
  BY <1>1, ExchangeLengths, ExchangeAssumption DEF ExchangeInv, ExchangeTypes
<1>2. h \in 1..h
  <2>1. h # 0
    BY <1>t, EmptySeq
  <2> QED BY <1>t, <2>1
<1>3. Of \in 1..n
  <2>1. handled[h] \in Seq(AskedTokens) /\ handled[h] # <<>>
    BY <1>t, <1>2, SeqFacts
  <2>2. Len(handled[h]) \in Nat /\ Len(handled[h]) # 0
    BY <2>1, SeqFacts
  <2>3. 1 \in 1..Len(handled[h])
    BY <2>2
  <2>4. handled[h][1] \in AskedTokens
    BY <2>1, <2>3, ElementOfSeq
  <2> QED BY <2>4 DEF AskedTokens, Of
<1>4. x \in Answers
  <2>1. Of \in 1..MaxAsked
    BY <1>t, <1>3
  <2>2. asked[Of].close \in BOOLEAN
    BY <1>t, <1>3, RequestsAre
  <2> QED BY <2>1, <2>2 DEF Answers
<1>5. x.of = Of
  OBVIOUS
<1> HIDE DEF x
<1>6. /\ queue' \in Seq(Answers) /\ Len(queue') = Len(queue) + 1
      /\ \A y : Among(queue', y) <=> Among(queue, y) \/ y = x
  BY <1>t, <1>1, <1>4, AppendElements, AmongAppend
<1>7. /\ todo' \in Seq([status : Statuses, ends : BOOLEAN]) /\ Len(todo') = Len(todo) - 1
      /\ Head(todo) = todo[1] /\ 1 \in DOMAIN todo /\ Head(todo).ends \in BOOLEAN
      /\ \A p \in DOMAIN todo' : p + 1 \in DOMAIN todo /\ todo'[p] = todo[p + 1]
  <2>1. /\ todo' \in Seq([status : Statuses, ends : BOOLEAN]) /\ Len(todo') = Len(todo) - 1
        /\ Head(todo) = todo[1] /\ Head(todo) \in [status : Statuses, ends : BOOLEAN]
        /\ Len(todo) > 0 /\ DOMAIN todo = 1..Len(todo) /\ DOMAIN todo' = 1..Len(todo) - 1
        /\ \A i \in 1..Len(todo) - 1 : todo'[i] = todo[i + 1]
    BY <1>t, <1>1, TailElements
  <2>2. 1 \in 1..Len(todo) /\ \A p \in 1..Len(todo) - 1 : p + 1 \in 1..Len(todo)
    BY <1>t, <2>1
  <2>3. Head(todo).ends \in BOOLEAN
    BY <2>1
  <2> QED BY <2>1, <2>2, <2>3
<1>8. ExchangeTypes'
  <2>1. AskedTokens' = AskedTokens
    BY <1>1 DEF AskedTokens
  <2> QED BY <1>t, <1>1, <1>6, <1>7, <2>1 DEF ExchangeTypes
<1>9. ClientInv' /\ AnswersMatch' /\ Matching' = Matching
  BY <1>1, ClientKept
<1>10. MessagesInv'
  BY <1>1, <1>9, MessagesKept DEF ExchangeInv
<1>11. Matching => Of = h
  <2> SUFFICES ASSUME Matching PROVE Of = h
    OBVIOUS
  <2>1. handled[h] = Message(h) /\ (h = n \/ h + 1 = n)
    BY <1>t, <1>2 DEF ExchangeInv, MessagesInv
  <2>2. h \in 1..n
    <3>1. h = n \/ h + 1 = n
      BY <2>1
    <3> QED BY <1>t, <1>2, <3>1
  <2> QED BY <1>t, <2>1, <2>2, RequestsAre DEF Of
<1>12. \A y : Flowing(y)' => Flowing(y) \/ y = x
  BY <1>1, <1>6 DEF Flowing
<1>13. OfInv'
  <2>1. h <= h
    BY <1>t
  <2> QED BY <1>1, <1>5, <1>9, <1>11, <1>12, <2>1 DEF ExchangeInv, OfInv
<1>14. StepInv'
  <2> SUFFICES ASSUME Matching PROVE StepInv'
    BY <1>9 DEF StepInv
  <2>1. /\ Odd' = Odd /\ (Even(Len(asked) - 1))' = Even(n - 1)
        /\ (Even(Len(asked)))' = Even(n)
    BY <1>1 DEF Odd, Even
  <2>2. ASSUME Even(n - 1)
        PROVE  h = n /\ \A y : Flowing(y)' => y.of = n
    <3>1. h = n
      BY <1>1, <2>2 DEF ExchangeInv, StepInv
    <3>2. \A y : Flowing(y) => y.of = n
      BY <2>2 DEF ExchangeInv, StepInv
    <3> QED BY <1>5, <1>11, <1>12, <3>1, <3>2
  <2>3. ASSUME Even(n)
        PROVE  Len(todo') + Len(queue') + Len(wire') + Len(got') <= Len(asked')
    <3>1. Len(todo) + Len(queue) + Len(wire) + Len(got) <= n
      BY <2>3 DEF ExchangeInv, StepInv
    <3>2. Len(wire') = Len(wire) /\ Len(got') = Len(got) /\ Len(asked') = n
      BY <1>1
    <3> QED BY <1>t, <1>6, <1>7, <3>1, <3>2
  <2> QED BY <1>1, <2>1, <2>2, <2>3 DEF StepInv
<1>15. DropInv'
  <2>1. \A p, q \in DOMAIN todo : todo[p].ends = todo[q].ends
    BY DEF ExchangeInv, DropInv
  <2>2. \A p, q \in DOMAIN todo' : todo'[p].ends = todo'[q].ends
    BY <1>7, <2>1
  <2>3. waits' => AllEnd'
    BY <1>1, <1>7, <2>1 DEF AllEnd
  <2>4. AllEnd => AllEnd' /\ waits'
    BY <1>1, <1>7 DEF AllEnd
  <2> QED BY <1>1, <2>2, <2>3, <2>4 DEF ExchangeInv, DropInv
<1> QED BY <1>8, <1>9, <1>10, <1>13, <1>14, <1>15 DEF ExchangeInv

LEMMA WriteStep ==
  ASSUME ExchangeInv, Write
  PROVE  ExchangeInv'
<1> DEFINE x == Head(queue)
<1>1. /\ queue # <<>> /\ queue' = Tail(queue)
      /\ wire' = IF client = "closed" THEN wire ELSE Append(wire, x)
      /\ UNCHANGED <<asked, got, client, stream, raw, events, handled, todo, waits, running, ended>>
  BY DEF Write, clientVars, rxVars, connVars
<1>t. /\ ExchangeTypes /\ queue \in Seq(Answers) /\ wire \in Seq(Answers)
      /\ Len(queue) \in Nat /\ Len(wire) \in Nat /\ Len(todo) \in Nat
  BY ExchangeLengths DEF ExchangeInv, ExchangeTypes
<1>2. /\ queue' \in Seq(Answers) /\ Len(queue') = Len(queue) - 1 /\ x \in Answers
      /\ \A y : Among(queue, y) <=> Among(queue', y) \/ y = x
  BY <1>t, <1>1, TailElements, AmongTail
<1>3. /\ wire' \in Seq(Answers) /\ Len(wire') <= Len(wire) + 1 /\ Len(wire') \in Nat
      /\ \A y : Among(wire', y) => Among(wire, y) \/ y = x
  <2> HIDE DEF x
  <2>1. CASE client = "closed"
    BY <1>t, <1>1, <2>1
  <2>2. CASE client # "closed"
    <3>1. wire' = Append(wire, x)
      BY <1>1, <2>2
    <3>2. wire' \in Seq(Answers) /\ Len(wire') = Len(wire) + 1
      BY <1>t, <1>2, <3>1, AppendElements
    <3>3. \A y : Among(wire', y) <=> Among(wire, y) \/ y = x
      BY <1>t, <1>2, <3>1, AmongAppend
    <3> QED BY <1>t, <3>2, <3>3
  <2> QED BY <2>1, <2>2
<1>4. ExchangeTypes'
  BY <1>t, <1>1, <1>2, <1>3 DEF ExchangeTypes, AskedTokens
<1>5. DropInv'
  BY <1>1 DEF ExchangeInv, DropInv, AllEnd
<1>6. \A y : Flowing(y)' => Flowing(y)
  BY <1>2, <1>3 DEF Flowing
<1>7. Len(todo') <= Len(todo) /\ Len(queue') + Len(wire') <= Len(queue) + Len(wire)
  <2>1. Len(todo') = Len(todo)
    BY <1>1
  <2>2. Len(queue') + Len(wire') <= Len(queue) + Len(wire)
    BY <1>t, <1>2, <1>3
  <2> QED BY <1>t, <2>1, <2>2
<1> QED BY <1>1, <1>4, <1>5, <1>6, <1>7, FlowStep

LEMMA StopStep ==
  ASSUME ExchangeInv, Stop
  PROVE  ExchangeInv'
<1>1. /\ waits /\ queue = <<>> /\ waits' = FALSE /\ running' = FALSE
      /\ UNCHANGED <<asked, got, client, stream, raw, events, handled, todo, ended, queue, wire>>
  BY DEF Stop, Written, clientVars, rxVars
<1>t. ExchangeTypes /\ Len(queue) \in Nat /\ Len(wire) \in Nat /\ Len(todo) \in Nat
  BY ExchangeLengths DEF ExchangeInv
<1>2. ExchangeTypes'
  BY <1>t, <1>1 DEF ExchangeTypes, AskedTokens
<1>3. DropInv'
  BY <1>1 DEF ExchangeInv, DropInv, AllEnd
<1>4. \A y : Flowing(y)' => Flowing(y)
  BY <1>1 DEF Flowing
<1>5. Len(todo') <= Len(todo) /\ Len(queue') + Len(wire') <= Len(queue) + Len(wire)
  BY <1>t, <1>1
<1> QED BY <1>1, <1>2, <1>3, <1>4, <1>5, FlowStep

LEMMA ThrowStep ==
  ASSUME ExchangeInv, Throw
  PROVE  ExchangeInv'
<1>1. /\ client = "closed" /\ waits' = FALSE /\ todo' = <<>> /\ running' \in {running, FALSE}
      /\ UNCHANGED <<asked, got, client, stream, raw, events, handled, ended, queue, wire>>
  BY DEF Throw, clientVars, rxVars
<1>t. ExchangeTypes /\ Len(queue) \in Nat /\ Len(wire) \in Nat /\ Len(todo) \in Nat
  BY ExchangeLengths DEF ExchangeInv
<1>2. ExchangeTypes'
  <2>1. todo' \in Seq([status : Statuses, ends : BOOLEAN]) /\ running' \in BOOLEAN
    BY <1>t, <1>1, EmptyIsShort DEF ExchangeTypes
  <2> QED BY <1>t, <1>1, <2>1 DEF ExchangeTypes, AskedTokens
<1>3. DropInv'
  <2>1. DOMAIN todo' = {}
    BY <1>1, EmptySeq
  <2> QED BY <1>1, <2>1 DEF DropInv, AllEnd
<1>4. \A y : Flowing(y)' => Flowing(y)
  BY <1>1 DEF Flowing
<1>5. Len(todo') <= Len(todo) /\ Len(queue') + Len(wire') <= Len(queue) + Len(wire)
  <2>1. Len(todo') = 0 /\ queue' = queue /\ wire' = wire
    BY <1>1, EmptyIsShort
  <2> QED BY <1>t, <2>1
<1> QED BY <1>1, <1>2, <1>3, <1>4, <1>5, FlowStep

LEMMA EndStep ==
  ASSUME ExchangeInv, End
  PROVE  ExchangeInv'
<1>1. /\ ended' = TRUE /\ queue' = <<>>
      /\ UNCHANGED <<asked, got, client, stream, raw, events, handled, todo, waits, running, wire>>
  BY DEF End, clientVars, rxVars
<1>t. ExchangeTypes /\ Len(queue) \in Nat /\ Len(wire) \in Nat /\ Len(todo) \in Nat
  BY ExchangeLengths DEF ExchangeInv
<1>2. ExchangeTypes'
  BY <1>t, <1>1, EmptyIsShort DEF ExchangeTypes, AskedTokens
<1>3. DropInv'
  BY <1>1 DEF ExchangeInv, DropInv, AllEnd
<1>4. \A y : Flowing(y)' => Flowing(y)
  <2>1. \A y : ~Among(queue', y)
    BY <1>1, EmptyIsShort
  <2> QED BY <1>1, <2>1 DEF Flowing
<1>5. Len(todo') <= Len(todo) /\ Len(queue') + Len(wire') <= Len(queue) + Len(wire)
  <2>1. Len(queue') = 0 /\ todo' = todo /\ wire' = wire
    BY <1>1, EmptyIsShort
  <2> QED BY <1>t, <2>1
<1> QED BY <1>1, <1>2, <1>3, <1>4, <1>5, FlowStep

-----------------------------------------------------------------------------

LEMMA ExchangeInvInit ==
  ASSUME Init
  PROVE  ExchangeInv
<1>1. /\ asked = <<>> /\ got = <<>> /\ client = "idle" /\ stream = <<>> /\ raw = <<>>
      /\ events = <<>> /\ handled = <<>> /\ todo = <<>> /\ waits = FALSE /\ running = TRUE
      /\ ended = FALSE /\ queue = <<>> /\ wire = <<>>
  BY DEF Init
<1>2. Len(<<>>) = 0 /\ DOMAIN <<>> = {}
  BY EmptySeq
<1>3. ExchangeTypes
  <2>1. Len(asked) <= MaxAsked
    BY <1>1, <1>2, ExchangeAssumption
  <2> QED BY <1>1, <2>1, EmptyIsShort DEF ExchangeTypes
<1>4. ClientInv /\ AnswersMatch /\ DropInv
  BY <1>1, <1>2 DEF ClientInv, AnswersMatch, DropInv, AllEnd
<1>5. MessagesInv
  BY <1>1, <1>2 DEF MessagesInv, NonePending, Messages
<1>6. OfInv /\ StepInv
  <2>1. \A x : ~Flowing(x)
    BY <1>1, EmptyIsShort DEF Flowing
  <2> QED BY <1>1, <1>2, <2>1 DEF OfInv, StepInv
<1> QED BY <1>3, <1>4, <1>5, <1>6 DEF ExchangeInv

LEMMA ExchangeInvStep ==
  ASSUME ExchangeInv, [Next]_vars
  PROVE  ExchangeInv'
<1>1. CASE UNCHANGED vars
  <2>1. UNCHANGED <<asked, got, client, stream, raw, events, handled, todo, waits, running,
                    ended, queue, wire>>
    BY <1>1 DEF vars, clientVars, rxVars, connVars
  <2>2. ExchangeTypes' /\ DropInv'
    BY <2>1 DEF ExchangeInv, ExchangeTypes, AskedTokens, DropInv, AllEnd
  <2>3. \A y : Flowing(y)' => Flowing(y)
    BY <2>1 DEF Flowing
  <2>4. Len(todo) \in Nat /\ Len(queue) \in Nat /\ Len(wire) \in Nat
    BY ExchangeLengths DEF ExchangeInv
  <2>5. Len(todo') <= Len(todo) /\ Len(queue') + Len(wire') <= Len(queue) + Len(wire)
    BY <2>1, <2>4
  <2> QED BY <2>1, <2>2, <2>3, <2>5, FlowStep
<1>2. ASSUME NEW kind \in Kinds, NEW close \in BOOLEAN, NEW body \in Bodies,
             Ask(kind, close, body)
      PROVE  ExchangeInv'
  BY <1>2, AskStep
<1>3. ASSUME NEW k \in 1..Len(stream), Read(k)
      PROVE  ExchangeInv'
  BY <1>3, ReadStep
<1>4. CASE Take
  BY <1>4, TakeStep
<1>5. CASE ClientClose
  BY <1>5, CloseStep
<1>6. CASE Reset
  BY <1>6, ResetStep
<1>7. CASE Handle
  BY <1>7, HandleStep
<1>8. CASE HandleReset
  BY <1>8, HandleResetStep
<1>9. CASE Answer
  BY <1>9, AnswerStep
<1>10. CASE Write
  BY <1>10, WriteStep
<1>11. CASE Stop
  BY <1>11, StopStep
<1>12. CASE Throw
  BY <1>12, ThrowStep
<1>13. CASE End
  BY <1>13, EndStep
<1> QED BY <1>1, <1>2, <1>3, <1>4, <1>5, <1>6, <1>7, <1>8, <1>9, <1>10, <1>11, <1>12, <1>13
        DEF Next

LEMMA ExchangeInvAlways == Spec => []ExchangeInv
<1>1. Init => ExchangeInv
  BY ExchangeInvInit
<1>2. ExchangeInv /\ [Next]_vars => ExchangeInv'
  BY ExchangeInvStep
<1> QED BY <1>1, <1>2, PTL DEF Spec

(* HttpProtocol and HttpConnection keep every part of a connection in its  *)
(* type, and the client never takes more answers than it asked for.        *)
THEOREM ExchangeTypeCorrect == Spec => []TypeOK
<1>1. ExchangeInv => TypeOK
  <2> SUFFICES ASSUME ExchangeInv PROVE TypeOK
    OBVIOUS
  <2>1. Len(asked) \in Nat /\ Len(asked) <= MaxAsked /\ MaxAsked \in Nat
    BY ExchangeLengths, ExchangeAssumption DEF ExchangeInv, ExchangeTypes
  <2>2. AskedTokens \subseteq Tokens
    <3>1. 1..Len(asked) \subseteq 1..MaxAsked
      BY <2>1
    <3> QED BY <3>1 DEF AskedTokens, Tokens, Parts
  <2>3. Seq(AskedTokens) \subseteq Seq(Tokens)
    BY <2>2, SeqGrows
  <2>4. Seq(Seq(AskedTokens)) \subseteq Seq(Seq(Tokens))
    BY <2>3, SeqGrows
  <2>5. Seq(Seq(AskedTokens) \ {<<>>}) \subseteq Seq(Seq(Tokens))
    <3>1. Seq(AskedTokens) \ {<<>>} \subseteq Seq(Tokens)
      BY <2>3
    <3> QED BY <3>1, SeqGrows
  <2> QED BY <2>3, <2>4, <2>5 DEF ExchangeInv, ExchangeTypes, ClientInv, Answers, TypeOK
<1> QED BY <1>1, ExchangeInvAlways, PTL

(* The k-th answer a client takes is that of its k-th request, unless an   *)
(* earlier one was answered twice or not at all; and until then every      *)
(* message HttpConnection handles is one whole request, however parse cut  *)
(* the stream.                                                             *)
THEOREM ExchangeStaysInStep == Spec => []ExchangeInStep
<1>1. ExchangeInv => ExchangeInStep
  BY DEF ExchangeInv, ExchangeInStep, AnswersMatch, MessageIsRequest, MessagesInv, Matching,
         Message
<1> QED BY <1>1, ExchangeInvAlways, PTL

(* HttpConnection's protocol is destroyed with an answer still in its      *)
(* queue only after the client has left.                                   *)
THEOREM AnswersAreWritten == Spec => NoAnswerDropped
<1>1. ExchangeInv /\ [Next]_vars => [(~ended /\ ended' /\ client # "closed") => queue = <<>>]_vars
  <2> SUFFICES ASSUME ExchangeInv, Next, ~ended, ended', client # "closed"
               PROVE  queue = <<>>
    OBVIOUS
  <2>1. End
    BY DEF Next, Ask, Take, ClientClose, Read, Reset, Handle, HandleReset, Answer, Write, Stop,
           Throw, connVars
  <2>2. ~running /\ ~waits
    BY <2>1 DEF End
  <2> QED BY <2>2 DEF ExchangeInv, DropInv
<1> QED BY <1>1, ExchangeInvAlways, PTL DEF Spec, NoAnswerDropped

-----------------------------------------------------------------------------
(* The three beside each other, as the run checks them.                    *)

(* A behaviour of the three parts is one of each. *)
LEMMA PartsBehave == PartsSpec => Spec /\ PageSpec /\ CallsSpec
<1>1. PartsInit => Init /\ PageInit /\ CallsInit
  BY DEF PartsInit
<1>2. [PartsNext]_<<part, vars, pageVars, callsVars>>
        => [Next]_vars /\ [PageNext]_pageVars /\ [CallsNext]_callsVars
  BY DEF PartsNext
<1> QED BY <1>1, <1>2, PTL DEF PartsSpec, Spec, PageSpec, CallsSpec

(* The connection of the web server, the page and the calls of the control *)
(* element keep their types beside each other.                             *)
THEOREM HttpPartsTyped == PartsSpec => []PartsTypeOK
BY PartsBehave, ExchangeTypeCorrect, PageTypeCorrect, CallsTypeCorrect, PTL DEF PartsTypeOK

=============================================================================
