----------------------- MODULE UploadIsolationProofs -----------------------
(***************************************************************************)
(* The walk of isolate_rejected gives every row of a chunk of any length   *)
(* exactly one fate, stays within its budget of requests and quarantines   *)
(* only what may be quarantined.                                           *)
(***************************************************************************)
EXTENDS UploadIsolation, FiniteSetTheorems, SequenceTheorems, TLAPS

Pair == Nat \X Nat

\* The rows of the ranges of a stack.
Covered(s) == UNION {Span(s[i]) : i \in DOMAIN s}

\* The ranges are not empty and the lower rows are nearer to the top.
Stacked(s) ==
    /\ \A i \in DOMAIN s : s[i][1] < s[i][2]
    /\ \A i, j \in DOMAIN s : i < j => s[j][2] <= s[i][1]

\* Nothing on the stack lies below the row x.
Above(s, x) == \A i \in DOMAIN s : x <= s[i][1]

ShapeInv ==
    /\ Stacked(stack)
    /\ probing # NoRange =>
          /\ probing[1] + 1 < probing[2]
          /\ Above(stack, probing[2])
    /\ finished => stack = << >> /\ probing = NoRange

\* A probe was only started with a request to spare.
BudgetInv ==
    /\ WithinBudget
    /\ probing # NoRange => requests < Budget

\* A site that judges rows has only accepted good ones and refused bad ones.
JudgedInv == site # "any" => rejected \subseteq bad /\ accepted \cap bad = {}

IInv ==
    /\ RowsHaveOneFate
    /\ ShapeInv
    /\ BudgetInv
    /\ JudgedInv
    /\ QuarantineSound

-----------------------------------------------------------------------------
\* The budget is a number of requests.
LEMMA BudgetType == ASSUME NEW k \in Nat PROVE isolation_request_budget(k) \in Nat
<1>1. IsFiniteSet(0 .. k - 1)
    BY FS_Interval
<1>2. CeilLog2(k) \in Nat
    BY <1>1, FS_Subset, FS_CardinalityType DEF CeilLog2
<1> QED
    BY <1>2 DEF isolation_request_budget

\* A row is covered when it lies in one of the ranges.
LEMMA CoveredBy ==
    ASSUME NEW s, NEW x
    PROVE  x \in Covered(s) <=> \E i \in DOMAIN s : x \in Span(s[i])
BY DEF Covered

\* Popping a stack uncovers the rows of the top and no others.
LEMMA PopCovered ==
    ASSUME NEW s \in Seq(Pair), s # << >>, Stacked(s)
    PROVE  LET t == s[Len(s)]
               r == SubSeq(s, 1, Len(s) - 1)
           IN  /\ r \in Seq(Pair)
               /\ Stacked(r) /\ Above(r, t[2])
               /\ t \in Pair /\ t[1] < t[2]
               /\ Covered(s) = Covered(r) \cup Span(t)
               /\ Covered(r) \cap Span(t) = {}
<1> DEFINE t == s[Len(s)]
           r == SubSeq(s, 1, Len(s) - 1)
<1>1. /\ Len(s) \in Nat \ {0} /\ DOMAIN s = 1 .. Len(s)
      /\ r \in Seq(Pair) /\ Len(r) = Len(s) - 1 /\ DOMAIN r = 1 .. Len(s) - 1
      /\ \A i \in 1 .. Len(s) - 1 : r[i] = s[i]
  <2>1. Len(s) \in Nat \ {0} /\ DOMAIN s = 1 .. Len(s) /\ \A i \in 1 .. Len(s) : s[i] \in Pair
    BY EmptySeq, LenProperties
  <2>2. /\ r \in Seq(Pair) /\ Len(r) = Len(s) - 1
        /\ \A i \in 1 .. Len(s) - 1 : r[i] = s[i]
    BY <2>1, SubSeqProperties
  <2> QED
    BY <2>1, <2>2, LenProperties
<1>2. \A i \in DOMAIN s : s[i] \in Pair /\ s[i][1] \in Nat /\ s[i][2] \in Nat
    BY <1>1 DEF Pair
<1>3. Stacked(r) /\ Above(r, t[2]) /\ t \in Pair /\ t[1] < t[2]
    BY <1>1, <1>2 DEF Stacked, Above
<1> HIDE DEF r
<1>4. ASSUME NEW x
      PROVE  x \in Covered(s) <=> x \in Covered(r) \/ x \in Span(t)
  <2>1. \A i \in DOMAIN s : (i \in DOMAIN r /\ r[i] = s[i]) \/ i = Len(s)
    BY <1>1
  <2>2. \A i \in DOMAIN r : i \in DOMAIN s /\ r[i] = s[i]
    BY <1>1
  <2>3. Len(s) \in DOMAIN s
    BY <1>1
  <2> QED
    BY <2>1, <2>2, <2>3, CoveredBy
<1>5. ASSUME NEW x, x \in Covered(r), x \in Span(t)
      PROVE  FALSE
  <2>1. PICK i \in DOMAIN r : x \in Span(r[i])
    BY <1>5, CoveredBy, Zenon
  <2>2. t[2] <= r[i][1] /\ r[i][1] \in Nat /\ t[2] \in Nat
    BY <1>1, <1>2, <1>3 DEF Above, Pair
  <2> QED
    BY <1>5, <2>1, <2>2 DEF Span
<1> QED
    BY <1>1, <1>3, <1>4, <1>5 DEF r

\* Pushing a range that lies below the stack covers its rows as well.
LEMMA PushCovered ==
    ASSUME NEW s \in Seq(Pair), NEW t \in Pair, Stacked(s), t[1] < t[2], Above(s, t[2])
    PROVE  /\ s \o <<t>> \in Seq(Pair)
           /\ Stacked(s \o <<t>>) /\ Above(s \o <<t>>, t[1])
           /\ Covered(s \o <<t>>) = Covered(s) \cup Span(t)
<1> DEFINE r == s \o <<t>>
<1>1. /\ Len(s) \in Nat /\ DOMAIN s = 1 .. Len(s)
      /\ r \in Seq(Pair) /\ Len(r) = Len(s) + 1 /\ DOMAIN r = 1 .. Len(s) + 1
      /\ \A i \in 1 .. Len(s) : r[i] = s[i]
      /\ r[Len(s) + 1] = t
    OBVIOUS
<1>2. /\ \A i \in DOMAIN s : s[i] \in Pair /\ s[i][1] \in Nat /\ s[i][2] \in Nat
      /\ t[1] \in Nat /\ t[2] \in Nat
    BY <1>1 DEF Pair
<1> HIDE DEF r
<1>3. ASSUME NEW i \in DOMAIN r
      PROVE  \/ i \in DOMAIN s /\ r[i] = s[i]
             \/ i = Len(s) + 1 /\ r[i] = t
  <2>1. CASE i \in 1 .. Len(s)
    BY <1>1, <2>1
  <2>2. CASE i = Len(s) + 1
    BY <1>1, <2>2
  <2> QED
    BY <1>1, <2>1, <2>2
<1>4. Stacked(r)
    BY <1>1, <1>2, <1>3, SMTT(30) DEF Stacked, Above
<1>5. Above(r, t[1])
    BY <1>1, <1>2, <1>3 DEF Above
<1>6. \A x : x \in Covered(r) <=> x \in Covered(s) \/ x \in Span(t)
    BY <1>1, <1>3, CoveredBy
<1> QED
    BY <1>1, <1>4, <1>5, <1>6 DEF r

-----------------------------------------------------------------------------
\* What TypeOK says of the numbers of a state of the walk.
LEMMA WalkTypes ==
    ASSUME TypeOK
    PROVE  /\ n \in Nat /\ Budget \in Nat /\ requests \in Nat
           /\ stack \in Seq(Pair) /\ probing \in Pair
           /\ Waiting = Covered(stack) \cup Span(probing)
<1>1. n \in Nat
    BY IsolationAssumption DEF TypeOK
<1>2. Budget \in Nat
    BY <1>1, BudgetType DEF Budget
<1>3. (0 .. n) \X (0 .. n) \subseteq Pair
    BY <1>1 DEF Pair
<1>4. stack \in Seq(Pair)
    BY <1>3, SeqMonotonic DEF TypeOK
<1>5. probing \in Pair
    BY <1>3 DEF TypeOK
<1>6. Waiting = Covered(stack) \cup Span(probing)
    BY DEF Waiting, Covered
<1> QED
    BY <1>1, <1>2, <1>4, <1>5, <1>6 DEF TypeOK

\* The walk begins with the whole chunk waiting.
LEMMA InitIInv == Init => IInv
<1> SUFFICES ASSUME Init PROVE IInv
    OBVIOUS
<1> USE IsolationAssumption
<1>1. n \in Nat
    BY DEF Init
<1>2. stack \in Seq((0 .. n) \X (0 .. n))
  <2>1. CASE n = 0
    BY <2>1, EmptySeq DEF Init
  <2>2. CASE n # 0
    BY <1>1, <2>2 DEF Init
  <2> QED
    BY <2>1, <2>2
<1>3. TypeOK
  <2>1. bad \in SUBSET Rows
    BY DEF Init
  <2>2. probing \in (0 .. n) \X (0 .. n)
    BY <1>1 DEF Init, NoRange
  <2> QED
    BY <1>2, <2>1, <2>2 DEF Init, TypeOK
<1>4. Stacked(stack) /\ Covered(stack) = Rows /\ Span(probing) = {}
    BY <1>1 DEF Init, Stacked, Covered, Span, Rows, NoRange
<1>5. RowsHaveOneFate
    BY <1>3, <1>4, WalkTypes DEF RowsHaveOneFate, Init
<1>6. BudgetInv
    BY <1>1, <1>3, WalkTypes DEF BudgetInv, WithinBudget, Init, NoRange
<1> QED
    BY <1>4, <1>5, <1>6 DEF IInv, ShapeInv, JudgedInv, QuarantineSound, Init

-----------------------------------------------------------------------------
\* What there is to know of a range that is popped: it is a slice of the
\* chunk, and the rows left on the stack lie above it.
LEMMA PopFacts ==
    ASSUME IInv, Popping
    PROVE  /\ Rest \in Seq((0 .. n) \X (0 .. n))
           /\ Stacked(Rest) /\ Above(Rest, Top[2])
           /\ Top \in (0 .. n) \X (0 .. n) /\ Top[1] < Top[2]
           /\ Top[1] \in Nat /\ Top[2] \in Nat
           /\ Waiting = Covered(Rest) \cup Span(Top)
           /\ Covered(Rest) \cap Span(Top) = {}
           /\ Span(NoRange) = {}
<1>1. /\ stack \in Seq(Pair) /\ stack # << >> /\ Stacked(stack)
      /\ stack \in Seq((0 .. n) \X (0 .. n)) /\ n \in Nat
      /\ Waiting = Covered(stack) \cup Span(probing) /\ probing = NoRange
    BY WalkTypes DEF IInv, RowsHaveOneFate, ShapeInv, Popping, TypeOK
<1>2. /\ Stacked(Rest) /\ Above(Rest, Top[2]) /\ Top \in Pair /\ Top[1] < Top[2]
      /\ Covered(stack) = Covered(Rest) \cup Span(Top)
      /\ Covered(Rest) \cap Span(Top) = {}
    BY <1>1, PopCovered DEF Rest, Top
<1>3. Len(stack) \in Nat \ {0} /\ \A i \in 1 .. Len(stack) : stack[i] \in (0 .. n) \X (0 .. n)
    BY <1>1, EmptySeq, ElementOfSeq
<1>4. Rest \in Seq((0 .. n) \X (0 .. n))
    BY <1>3, SubSeqProperties DEF Rest
<1>5. Top \in (0 .. n) \X (0 .. n)
    BY <1>3 DEF Top
<1>6. Span(NoRange) = {}
    BY DEF Span, NoRange
<1> QED
    BY <1>1, <1>2, <1>4, <1>5, <1>6 DEF Pair

\* The rows waiting after a step, read off the stack and the probe.
LEMMA WaitingNext == Waiting' = Covered(stack') \cup Span(probing')
BY DEF Waiting, Covered

\* A popped range is deferred.
LEMMA PopDeferredIInv == IInv /\ PopDeferred => IInv'
<1> SUFFICES ASSUME IInv, PopDeferred PROVE IInv'
    OBVIOUS
<1>1. Popping /\ stack' = Rest /\ deferred' = deferred \cup Span(Top)
      /\ UNCHANGED <<n, site, bad, probing, accepted, rejected, requests, halt, stopped, finished>>
    BY DEF PopDeferred, chunk
<1>2. TypeOK'
    BY <1>1, PopFacts DEF IInv, RowsHaveOneFate, TypeOK, Rows, Span
<1>3. Waiting' = Covered(Rest) /\ probing = NoRange /\ ~finished
    BY <1>1, PopFacts, WaitingNext DEF Popping
<1>4. RowsHaveOneFate'
    BY <1>1, <1>2, <1>3, PopFacts DEF IInv, RowsHaveOneFate, Rows
<1>5. ShapeInv'
    BY <1>1, <1>3, PopFacts DEF ShapeInv
<1>6. BudgetInv' /\ JudgedInv' /\ QuarantineSound'
    BY <1>1, <1>3 DEF IInv, BudgetInv, WithinBudget, Budget, JudgedInv, QuarantineSound
<1> QED
    BY <1>4, <1>5, <1>6 DEF IInv

\* A request is sent only while the budget lasts.
LEMMA SendFacts ==
    ASSUME IInv, NEW a, Send(a)
    PROVE  /\ Popping /\ probing = NoRange /\ ~finished
           /\ a \in Answers(Span(Top))
           /\ UNCHANGED <<n, site, bad, finished>>
           /\ requests' = requests + 1 /\ requests' \in Nat /\ requests' <= Budget
           /\ Budget' = Budget /\ Budget \in Nat
<1>1. requests \in Nat /\ Budget \in Nat
    BY WalkTypes DEF IInv, RowsHaveOneFate
<1> QED
    BY <1>1 DEF Send, Popping, OutOfRequests, chunk, Budget

\* What an answer says of the rows of a request.
LEMMA AnswerSays ==
    ASSUME NEW s, NEW a \in Answers(s), site \in Sites, site # "any"
    PROVE  /\ a = "ok" => s \cap bad = {}
           /\ a \in Refusals => s \cap bad # {}
BY IsolationAssumption DEF Answers, Stops, Refusals

\* A batch the site takes settles its rows.
LEMMA SendAcceptedIInv == IInv /\ SendAccepted => IInv'
<1> SUFFICES ASSUME IInv, SendAccepted PROVE IInv'
    OBVIOUS
<1>1. /\ Send("ok") /\ stack' = Rest /\ accepted' = accepted \cup Span(Top)
      /\ UNCHANGED <<probing, rejected, deferred, halt, stopped>>
    BY DEF SendAccepted
<1>2. TypeOK'
    BY <1>1, SendFacts, PopFacts DEF IInv, RowsHaveOneFate, TypeOK, Rows, Span
<1>3. Waiting' = Covered(Rest)
    BY <1>1, SendFacts, PopFacts, WaitingNext
<1>4. RowsHaveOneFate'
    BY <1>1, <1>2, <1>3, SendFacts, PopFacts DEF IInv, RowsHaveOneFate, Rows
<1>5. ShapeInv'
    BY <1>1, SendFacts, PopFacts DEF ShapeInv
<1>6. BudgetInv'
    BY <1>1, SendFacts DEF BudgetInv, WithinBudget
<1>7. JudgedInv' /\ QuarantineSound'
    BY <1>1, SendFacts, AnswerSays DEF IInv, RowsHaveOneFate, TypeOK, JudgedInv, QuarantineSound
<1> QED
    BY <1>4, <1>5, <1>6, <1>7 DEF IInv

\* Two ranges pushed one after the other.
LEMMA TwoPushed == ASSUME NEW u, NEW l PROVE <<u>> \o <<l>> = <<u, l>>
<1>1. <<u>> \in Seq({u, l}) /\ <<l>> \in Seq({u, l}) /\ <<u, l>> \in Seq({u, l})
    OBVIOUS
<1>2. /\ Len(<<u>>) = 1 /\ Len(<<l>>) = 1 /\ Len(<<u, l>>) = 2
      /\ <<u>>[1] = u /\ <<l>>[1] = l /\ <<u, l>>[1] = u /\ <<u, l>>[2] = l
    OBVIOUS
<1>3. /\ <<u>> \o <<l>> \in Seq({u, l}) /\ Len(<<u>> \o <<l>>) = 2
      /\ (<<u>> \o <<l>>)[1] = u /\ (<<u>> \o <<l>>)[2] = l
    BY <1>1, <1>2, ConcatProperties
<1>4. \A i \in 1 .. 2 : (<<u>> \o <<l>>)[i] = <<u, l>>[i]
    BY <1>2, <1>3
<1> QED
    BY <1>1, <1>2, <1>3, <1>4, SeqEqual

\* A refused batch is split in two; no row is lost or doubled.
LEMMA SendSplitIInv == IInv /\ SendSplit => IInv'
<1> SUFFICES ASSUME IInv, SendSplit PROVE IInv'
    OBVIOUS
<1> DEFINE mid == Top[1] + Length(Top) \div 2
           upper == <<mid, Top[2]>>
           lower == <<Top[1], mid>>
           pushed == (Rest \o <<upper>>) \o <<lower>>
<1>1. /\ Send("named") /\ Length(Top) > 1 /\ stack' = Rest \o Halves(Top)
      /\ UNCHANGED <<probing, accepted, rejected, deferred, halt, stopped>>
    BY DEF SendSplit, answers
<1>2. mid \in Nat /\ Top[1] < mid /\ mid < Top[2] /\ mid \in 0 .. n
  <2>1. Top[1] \in Nat /\ Top[2] \in 0 .. n /\ n \in Nat /\ Top[2] - Top[1] > 1
    BY <1>1, SendFacts, PopFacts, WalkTypes DEF Length, IInv, RowsHaveOneFate
  <2>2. \A d \in Nat : d > 1 => d \div 2 \in Nat /\ 0 < d \div 2 /\ d \div 2 < d
    OBVIOUS
  <2>3. Top[2] - Top[1] \in Nat
    BY <2>1
  <2> HIDE DEF mid
  <2>4. mid = Top[1] + (Top[2] - Top[1]) \div 2
    BY DEF mid, Length
  <2> QED
    BY <2>1, <2>2, <2>3, <2>4
<1>3. upper \in (0 .. n) \X (0 .. n) /\ lower \in (0 .. n) \X (0 .. n)
    BY <1>2, SendFacts, PopFacts, <1>1
<1> HIDE DEF mid
<1>4. stack' = pushed
  <2> HIDE DEF upper, lower
  <2>1. <<upper>> \o <<lower>> = <<upper, lower>>
    BY TwoPushed
  <2>2. Halves(Top) = <<upper, lower>>
    BY DEF Halves, mid, upper, lower
  <2>3. Rest \in Seq((0 .. n) \X (0 .. n))
    BY <1>1, SendFacts, PopFacts
  <2>4. /\ <<upper>> \in Seq((0 .. n) \X (0 .. n)) /\ <<lower>> \in Seq((0 .. n) \X (0 .. n))
    BY <1>3
  <2>5. (Rest \o <<upper>>) \o <<lower>> = Rest \o (<<upper>> \o <<lower>>)
    BY <2>3, <2>4, ConcatAssociative
  <2> QED
    BY <1>1, <2>1, <2>2, <2>5
<1>5. pushed \in Seq((0 .. n) \X (0 .. n))
    BY <1>1, <1>3, SendFacts, PopFacts, ConcatProperties
<1>6. /\ Rest \in Seq(Pair) /\ upper \in Pair /\ lower \in Pair
      /\ Span(Top) = Span(upper) \cup Span(lower)
    BY <1>1, <1>2, SendFacts, PopFacts, WalkTypes, SeqMonotonic
    DEF Pair, Span
<1>7. /\ Rest \o <<upper>> \in Seq(Pair) /\ Stacked(Rest \o <<upper>>)
      /\ Above(Rest \o <<upper>>, mid)
      /\ Covered(Rest \o <<upper>>) = Covered(Rest) \cup Span(upper)
    BY <1>1, <1>2, <1>6, SendFacts, PopFacts, PushCovered
<1>8. Stacked(pushed) /\ Covered(pushed) = Covered(Rest) \cup Span(upper) \cup Span(lower)
    BY <1>2, <1>6, <1>7, PushCovered
<1>9. TypeOK'
    BY <1>1, <1>4, <1>5, SendFacts DEF IInv, RowsHaveOneFate, TypeOK, Rows
<1>10. Waiting' = Waiting
    BY <1>1, <1>4, <1>6, <1>8, SendFacts, PopFacts, WaitingNext
<1>11. RowsHaveOneFate'
    BY <1>1, <1>9, <1>10, SendFacts DEF IInv, RowsHaveOneFate, Rows
<1>12. ShapeInv'
    BY <1>1, <1>4, <1>8, SendFacts DEF ShapeInv
<1>13. BudgetInv' /\ JudgedInv' /\ QuarantineSound'
    BY <1>1, SendFacts DEF IInv, BudgetInv, WithinBudget, JudgedInv, QuarantineSound
<1> QED
    BY <1>11, <1>12, <1>13 DEF IInv

\* A plain refusal: the range waits for its probe, or for the next pass.
LEMMA SendPlainIInv == IInv /\ SendPlain => IInv'
<1> SUFFICES ASSUME IInv, SendPlain PROVE IInv'
    OBVIOUS
<1>1. /\ Send("plain") /\ Length(Top) > 1 /\ stack' = Rest
      /\ UNCHANGED <<accepted, rejected, halt, stopped>>
    BY DEF SendPlain
<1>2. CASE requests' >= Budget
  <2>1. deferred' = deferred \cup Span(Top) /\ UNCHANGED probing
    BY <1>2 DEF SendPlain
  <2>2. TypeOK'
    BY <1>1, <2>1, SendFacts, PopFacts DEF IInv, RowsHaveOneFate, TypeOK, Rows, Span
  <2>3. Waiting' = Covered(Rest)
    BY <1>1, <2>1, SendFacts, PopFacts, WaitingNext
  <2>4. RowsHaveOneFate'
    BY <1>1, <2>1, <2>2, <2>3, SendFacts, PopFacts DEF IInv, RowsHaveOneFate, Rows
  <2>5. ShapeInv'
    BY <1>1, <2>1, SendFacts, PopFacts DEF ShapeInv
  <2>6. BudgetInv' /\ JudgedInv' /\ QuarantineSound'
    BY <1>1, <2>1, SendFacts DEF IInv, BudgetInv, WithinBudget, JudgedInv, QuarantineSound
  <2> QED
    BY <2>4, <2>5, <2>6 DEF IInv
<1>3. CASE ~(requests' >= Budget)
  <2>1. probing' = Top /\ UNCHANGED deferred
    BY <1>3 DEF SendPlain
  <2>2. TypeOK'
    BY <1>1, <2>1, SendFacts, PopFacts DEF IInv, RowsHaveOneFate, TypeOK, Rows
  <2>3. Waiting' = Waiting
    BY <1>1, <2>1, SendFacts, PopFacts, WaitingNext
  <2>4. RowsHaveOneFate'
    BY <1>1, <2>1, <2>2, <2>3, SendFacts DEF IInv, RowsHaveOneFate, Rows
  <2>5. ShapeInv'
    BY <1>1, <2>1, SendFacts, PopFacts DEF ShapeInv, Length
  <2>6. BudgetInv'
    BY <1>1, <1>3, SendFacts DEF BudgetInv, WithinBudget
  <2>7. JudgedInv' /\ QuarantineSound'
    BY <1>1, <2>1, SendFacts DEF IInv, JudgedInv, QuarantineSound
  <2> QED
    BY <2>4, <2>5, <2>6, <2>7 DEF IInv
<1> QED
    BY <1>2, <1>3

\* A single row is refused: it is the whole range.
LEMMA SendBlamedIInv == IInv /\ SendBlamed => IInv'
<1> SUFFICES ASSUME IInv, SendBlamed PROVE IInv'
    OBVIOUS
<1>1. PICK a \in Refusals : Send(a)
    BY DEF SendBlamed
<1>2. /\ Length(Top) = 1 /\ stack' = Rest /\ rejected' = rejected \cup {Top[1]}
      /\ UNCHANGED <<probing, accepted, deferred, halt, stopped>>
    BY DEF SendBlamed
<1>3. Span(Top) = {Top[1]}
    BY <1>1, <1>2, SendFacts, PopFacts DEF Length, Span
<1>4. TypeOK'
  <2>1. Top[1] \in Rows
    BY <1>1, SendFacts, PopFacts, WalkTypes DEF IInv, RowsHaveOneFate, Rows
  <2> QED
    BY <1>1, <1>2, <2>1, SendFacts, PopFacts DEF IInv, RowsHaveOneFate, TypeOK, Rows
<1>5. Waiting' = Covered(Rest)
    BY <1>1, <1>2, SendFacts, PopFacts, WaitingNext
<1>6. RowsHaveOneFate'
    BY <1>1, <1>2, <1>3, <1>4, <1>5, SendFacts, PopFacts DEF IInv, RowsHaveOneFate, Rows
<1>7. ShapeInv'
    BY <1>1, <1>2, SendFacts, PopFacts DEF ShapeInv
<1>8. BudgetInv'
    BY <1>1, <1>2, SendFacts DEF BudgetInv, WithinBudget
<1>9. site # "any" => Top[1] \in bad
    BY <1>1, <1>3, SendFacts, AnswerSays DEF IInv, RowsHaveOneFate, TypeOK
<1>10. JudgedInv' /\ QuarantineSound'
    BY <1>1, <1>2, <1>9, SendFacts DEF IInv, JudgedInv, QuarantineSound
<1> QED
    BY <1>6, <1>7, <1>8, <1>10 DEF IInv

\* A pass that stops leaves the rest waiting.
LEMMA SendStoppedIInv == IInv /\ SendStopped => IInv'
<1> SUFFICES ASSUME IInv, SendStopped PROVE IInv'
    OBVIOUS
<1>1. PICK a \in Stops : Send(a) /\ stopped' = a
    BY DEF SendStopped
<1>2. /\ stack' = Rest /\ deferred' = deferred \cup Span(Top) /\ halt' = TRUE
      /\ UNCHANGED <<probing, accepted, rejected>>
    BY DEF SendStopped
<1>3. TypeOK'
    BY <1>1, <1>2, SendFacts, PopFacts DEF IInv, RowsHaveOneFate, TypeOK, Rows, Span, Stops
<1>4. Waiting' = Covered(Rest)
    BY <1>1, <1>2, SendFacts, PopFacts, WaitingNext
<1>5. RowsHaveOneFate'
    BY <1>1, <1>2, <1>3, <1>4, SendFacts, PopFacts DEF IInv, RowsHaveOneFate, Rows
<1>6. ShapeInv'
    BY <1>1, <1>2, SendFacts, PopFacts DEF ShapeInv
<1>7. BudgetInv' /\ JudgedInv' /\ QuarantineSound'
    BY <1>1, <1>2, SendFacts DEF IInv, BudgetInv, WithinBudget, JudgedInv, QuarantineSound
<1> QED
    BY <1>5, <1>6, <1>7 DEF IInv

-----------------------------------------------------------------------------
\* What there is to know of a probe: its first row leaves the waiting rows and
\* the others go back on the stack.
LEMMA ProbeFacts ==
    ASSUME IInv, NEW a, Probe(a)
    PROVE  /\ a \in Answers({probing[1]}) /\ ~finished
           /\ UNCHANGED <<n, site, bad, finished>> /\ probing' = NoRange
           /\ requests' \in Nat /\ requests' <= Budget /\ Budget' = Budget
           /\ probing[1] \in Rows /\ Span(probing) \subseteq Rows
           /\ probing[1] \in Span(probing)
           /\ Waiting = Covered(stack) \cup Span(probing)
           /\ Covered(stack) \cap Span(probing) = {}
           /\ stack \o AfterProbe(probing) \in Seq((0 .. n) \X (0 .. n))
           /\ Stacked(stack \o AfterProbe(probing))
           /\ Covered(stack \o AfterProbe(probing)) = Waiting \ {probing[1]}
           /\ Span(NoRange) = {} /\ NoRange \in (0 .. n) \X (0 .. n)
<1> DEFINE rest == <<probing[1] + 1, probing[2]>>
<1>1. /\ requests \in Nat /\ Budget \in Nat /\ n \in Nat
      /\ stack \in Seq(Pair) /\ probing \in Pair
      /\ Waiting = Covered(stack) \cup Span(probing)
      /\ stack \in Seq((0 .. n) \X (0 .. n)) /\ probing \in (0 .. n) \X (0 .. n)
    BY WalkTypes DEF IInv, RowsHaveOneFate, TypeOK
<1>2. probing[1] + 1 < probing[2] /\ Above(stack, probing[2]) /\ Stacked(stack)
    BY DEF Probe, IInv, ShapeInv
<1>3. probing[1] \in 0 .. n /\ probing[2] \in 0 .. n
    BY <1>1
<1>4. rest \in Pair /\ rest \in (0 .. n) \X (0 .. n) /\ AfterProbe(probing) = <<rest>>
    BY <1>1, <1>2, <1>3 DEF Pair, AfterProbe, Length
<1>5. probing[1] \in Rows /\ Span(probing) \subseteq Rows /\ probing[1] \in Span(probing)
    BY <1>1, <1>2, <1>3 DEF Rows, Span
<1>6. Span(rest) = Span(probing) \ {probing[1]}
    BY <1>1, <1>2, <1>3 DEF Span
<1>7. Covered(stack) \cap Span(probing) = {}
  <2> SUFFICES ASSUME NEW x \in Covered(stack), x \in Span(probing) PROVE FALSE
    OBVIOUS
  <2>1. PICK i \in DOMAIN stack : x \in Span(stack[i])
    BY CoveredBy
  <2>2. probing[2] <= stack[i][1] /\ stack[i][1] \in Nat
    BY <1>1, <1>2, LenProperties DEF Above, Pair
  <2> QED
    BY <1>3, <2>1, <2>2 DEF Span
<1>8. /\ Stacked(stack \o <<rest>>)
      /\ Covered(stack \o <<rest>>) = Covered(stack) \cup Span(rest)
    BY <1>1, <1>2, <1>3, <1>4, PushCovered
<1>9. stack \o <<rest>> \in Seq((0 .. n) \X (0 .. n))
    BY <1>1, <1>4, ConcatProperties
<1>10. requests' = requests + 1 /\ requests < Budget
    BY DEF Probe, IInv, BudgetInv
<1>11. /\ a \in Answers({probing[1]}) /\ ~finished
       /\ UNCHANGED <<n, site, bad, finished>> /\ probing' = NoRange
    BY DEF Probe, chunk
<1>12. Budget' = Budget /\ Span(NoRange) = {} /\ NoRange \in (0 .. n) \X (0 .. n)
    BY <1>1, <1>11 DEF Budget, Span, NoRange
<1> HIDE DEF rest
<1>13. requests' \in Nat /\ requests' <= Budget
    BY <1>1, <1>10
<1>14. Covered(stack \o AfterProbe(probing)) = Waiting \ {probing[1]}
  <2>1. probing[1] \notin Covered(stack)
    BY <1>5, <1>7
  <2> QED
    BY <1>1, <1>4, <1>6, <1>8, <2>1
<1>15. /\ stack \o AfterProbe(probing) \in Seq((0 .. n) \X (0 .. n))
       /\ Stacked(stack \o AfterProbe(probing))
    BY <1>4, <1>8, <1>9
<1> QED
    BY <1>1, <1>5, <1>7, <1>11, <1>12, <1>13, <1>14, <1>15

\* A probe the site refuses leaves the blame with the row sent.
LEMMA ProbeBlamedIInv == IInv /\ ProbeBlamed => IInv'
<1> SUFFICES ASSUME IInv, ProbeBlamed PROVE IInv'
    OBVIOUS
<1>1. PICK a \in Refusals : Probe(a)
    BY DEF ProbeBlamed
<1>2. /\ rejected' = rejected \cup {probing[1]} /\ stack' = stack \o AfterProbe(probing)
      /\ UNCHANGED <<accepted, deferred, halt, stopped>>
    BY DEF ProbeBlamed
<1>3. TypeOK'
    BY <1>1, <1>2, ProbeFacts DEF IInv, RowsHaveOneFate, TypeOK, Rows
<1>4. Waiting' = Waiting \ {probing[1]}
    BY <1>1, <1>2, ProbeFacts, WaitingNext
<1>5. RowsHaveOneFate'
    BY <1>1, <1>2, <1>3, <1>4, ProbeFacts DEF IInv, RowsHaveOneFate, Rows
<1>6. ShapeInv' /\ BudgetInv'
    BY <1>1, <1>2, ProbeFacts DEF ShapeInv, BudgetInv, WithinBudget
<1>7. site # "any" => probing[1] \in bad
    BY <1>1, ProbeFacts, AnswerSays DEF IInv, RowsHaveOneFate, TypeOK
<1>8. JudgedInv' /\ QuarantineSound'
    BY <1>1, <1>2, <1>7, ProbeFacts DEF IInv, JudgedInv, QuarantineSound
<1> QED
    BY <1>5, <1>6, <1>8 DEF IInv

\* A probe the site takes settles the row sent.
LEMMA ProbeAcceptedIInv == IInv /\ ProbeAccepted => IInv'
<1> SUFFICES ASSUME IInv, ProbeAccepted PROVE IInv'
    OBVIOUS
<1>1. /\ Probe("ok")
      /\ accepted' = accepted \cup {probing[1]} /\ stack' = stack \o AfterProbe(probing)
      /\ UNCHANGED <<rejected, deferred, halt, stopped>>
    BY DEF ProbeAccepted
<1>2. TypeOK'
    BY <1>1, ProbeFacts DEF IInv, RowsHaveOneFate, TypeOK, Rows
<1>3. Waiting' = Waiting \ {probing[1]}
    BY <1>1, ProbeFacts, WaitingNext
<1>4. RowsHaveOneFate'
    BY <1>1, <1>2, <1>3, ProbeFacts DEF IInv, RowsHaveOneFate, Rows
<1>5. ShapeInv' /\ BudgetInv'
    BY <1>1, ProbeFacts DEF ShapeInv, BudgetInv, WithinBudget
<1>6. site # "any" => probing[1] \notin bad
    BY <1>1, ProbeFacts, AnswerSays DEF IInv, RowsHaveOneFate, TypeOK
<1>7. JudgedInv' /\ QuarantineSound'
    BY <1>1, <1>6, ProbeFacts DEF IInv, JudgedInv, QuarantineSound
<1> QED
    BY <1>4, <1>5, <1>7 DEF IInv

\* A pass that stops while probing blames nobody.
LEMMA ProbeStoppedIInv == IInv /\ ProbeStopped => IInv'
<1> SUFFICES ASSUME IInv, ProbeStopped PROVE IInv'
    OBVIOUS
<1>1. PICK a \in Stops : Probe(a) /\ stopped' = a
    BY DEF ProbeStopped
<1>2. /\ deferred' = deferred \cup Span(probing) /\ halt' = TRUE
      /\ UNCHANGED <<stack, accepted, rejected>>
    BY DEF ProbeStopped
<1>3. TypeOK'
    BY <1>1, <1>2, ProbeFacts DEF IInv, RowsHaveOneFate, TypeOK, Rows, Stops
<1>4. Waiting' = Covered(stack)
    BY <1>1, <1>2, ProbeFacts, WaitingNext
<1>5. RowsHaveOneFate'
    BY <1>1, <1>2, <1>3, <1>4, ProbeFacts DEF IInv, RowsHaveOneFate, Rows
<1>6. ShapeInv' /\ BudgetInv'
    BY <1>1, <1>2, ProbeFacts DEF IInv, ShapeInv, BudgetInv, WithinBudget
<1>7. JudgedInv' /\ QuarantineSound'
    BY <1>1, <1>2, ProbeFacts DEF IInv, JudgedInv, QuarantineSound
<1> QED
    BY <1>5, <1>6, <1>7 DEF IInv

\* The end guard moves rows from one result to another.
LEMMA ReturnIInv == IInv /\ Return => IInv'
<1> SUFFICES ASSUME IInv, Return PROVE IInv'
    OBVIOUS
<1>1. /\ probing = NoRange /\ stack = << >> /\ finished'
      /\ UNCHANGED <<n, site, bad, stack, probing, accepted, requests, halt>>
    BY DEF Return, chunk
<1>2. Waiting' = Waiting /\ Waiting = {}
  <2>1. Covered(stack) = {} /\ Span(probing) = {}
    BY <1>1 DEF Covered, Span, NoRange
  <2> QED
    BY <1>1, <2>1, WalkTypes, WaitingNext DEF IInv, RowsHaveOneFate
<1>3. TypeOK'
    BY <1>1 DEF Return, IInv, RowsHaveOneFate, TypeOK, Rows
<1>4. RowsHaveOneFate'
  <2>1. CASE accepted = {} /\ rejected # {}
    BY <1>1, <1>2, <1>3, <2>1 DEF Return, IInv, RowsHaveOneFate, Rows
  <2>2. CASE ~(accepted = {} /\ rejected # {})
    BY <1>1, <1>2, <1>3, <2>2 DEF Return, IInv, RowsHaveOneFate, Rows
  <2> QED
    BY <2>1, <2>2
<1>5. ShapeInv' /\ BudgetInv'
    BY <1>1 DEF IInv, ShapeInv, BudgetInv, WithinBudget, Budget
<1>6. JudgedInv' /\ QuarantineSound'
    BY <1>1 DEF Return, IInv, JudgedInv, QuarantineSound
<1> QED
    BY <1>4, <1>5, <1>6 DEF IInv

-----------------------------------------------------------------------------
\* Every step keeps the invariant.
LEMMA NextIInv == IInv /\ [Next]_vars => IInv'
<1> SUFFICES ASSUME IInv, [Next]_vars PROVE IInv'
    OBVIOUS
<1>1. CASE Next
    BY <1>1, PopDeferredIInv, SendAcceptedIInv, SendSplitIInv, SendPlainIInv,
       SendBlamedIInv, SendStoppedIInv, ProbeBlamedIInv, ProbeAcceptedIInv,
       ProbeStoppedIInv, ReturnIInv DEF Next
<1>2. CASE UNCHANGED vars
    BY <1>2, SMTT(30) DEF vars, IInv, RowsHaveOneFate, TypeOK, Rows, Waiting, ShapeInv, BudgetInv,
       WithinBudget, Budget, JudgedInv, QuarantineSound
<1> QED
    BY <1>1, <1>2

\* Every row of a chunk of any length has exactly one fate at every step of
\* isolate_rejected, whatever the site answers.
THEOREM OneFate == Spec => []RowsHaveOneFate
<1>1. IInv => RowsHaveOneFate
    BY DEF IInv
<1> QED
    BY <1>1, InitIInv, NextIInv, PTL DEF Spec

\* The requests of a walk, its probes included, never pass
\* isolation_request_budget.
THEOREM BudgetKept == Spec => []WithinBudget
<1>1. IInv => WithinBudget
    BY DEF IInv, BudgetInv
<1> QED
    BY <1>1, InitIInv, NextIInv, PTL DEF Spec

\* Nothing is quarantined beside no accepted row, no good row is quarantined
\* and no bad one taken for uploaded by a site that judges row by row.
THEOREM QuarantineIsSound == Spec => []QuarantineSound
<1>1. IInv => QuarantineSound
    BY DEF IInv
<1> QED
    BY <1>1, InitIInv, NextIInv, PTL DEF Spec
=============================================================================
