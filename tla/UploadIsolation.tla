-------------------------- MODULE UploadIsolation --------------------------
(***************************************************************************)
(* isolate_rejected (stat-tracker/src/sync/mod.rs): how the tracker sends  *)
(* one chunk of games when the site refuses some of them.                  *)
(*                                                                         *)
(* Rows are indexes 0 .. n-1 and a range is a pair <<lo, hi>> that stands  *)
(* for lo .. hi-1, as in the code.  The walk keeps a stack of ranges still *)
(* to send.  A refusal that names a row splits the range, one that names   *)
(* none probes the first row of the range, any other error stops the walk. *)
(* The site is the environment.  It answers each request anyhow ("any"),   *)
(* or refuses exactly the requests that hold a row of `bad' and may fail   *)
(* otherwise ("judging"), or does so naming the row and never fails        *)
(* otherwise ("naming").                                                   *)
(***************************************************************************)
EXTENDS Integers, Sequences, FiniteSets

CONSTANTS
    MaxRows, \* bound: the longest chunk
    Sites    \* the kinds of site

ASSUME IsolationAssumption ==
    /\ MaxRows \in Nat
    /\ Sites \subseteq {"any", "judging", "naming"}

VARIABLES
    n,        \* rows.len()
    site,     \* the kind of site
    bad,      \* the rows a judging or naming site refuses
    stack,    \* ranges still to send; the last one is popped first
    probing,  \* the range whose first row is being sent alone, or <<0, 0>>
    accepted, rejected, deferred, \* the three results, as sets of indexes
    requests, \* upload calls so far
    halt,     \* an error other than 400/422 was answered
    stopped,  \* "none", a member of Stops, or "refusing" (the end guard)
    finished  \* the function has returned

vars == <<n, site, bad, stack, probing, accepted, rejected, deferred, requests,
          halt, stopped, finished>>

chunk == <<n, site, bad>>

answers == <<accepted, rejected, deferred>>

-----------------------------------------------------------------------------
Rows == 0 .. n - 1

Span(r) == r[1] .. r[2] - 1

Length(r) == r[2] - r[1]

NoRange == <<0, 0>>

\* ceil(log2(k)): how many bits k - 1 has.
CeilLog2(k) == Cardinality({b \in 0 .. k - 1 : 2^b < k})

\* Variant: one request for every two rows.
HalfBudget(k) == IF k <= 1 THEN k ELSE 2 * CeilLog2(k) + k \div 2

isolation_request_budget(k) == IF k <= 1 THEN k ELSE 2 * CeilLog2(k) + k

Budget == isolation_request_budget(n)

\* How the site words a 400/422: with the index of a row, or without.
Refusals == {"named", "plain"}

\* Every other error: 429, or anything else.
Stops == {"limited", "other"}

\* The site's possible answers to a request that carries the rows of s.
Answers(s) ==
    CASE site = "any" -> {"ok"} \cup Refusals \cup Stops
      [] site = "judging" ->
            Stops \cup (IF s \cap bad # {} THEN Refusals ELSE {"ok"})
      [] site = "naming" -> IF s \cap bad # {} THEN {"named"} ELSE {"ok"}

Init ==
    /\ n \in 0 .. MaxRows
    /\ site \in Sites
    /\ bad \in IF site = "any" THEN {{}} ELSE SUBSET Rows
    /\ stack = IF n = 0 THEN << >> ELSE << <<0, n>> >>
    /\ probing = NoRange
    /\ accepted = {} /\ rejected = {} /\ deferred = {}
    /\ requests = 0
    /\ halt = FALSE
    /\ stopped = "none"
    /\ finished = FALSE

-----------------------------------------------------------------------------
Top == stack[Len(stack)]

Rest == SubSeq(stack, 1, Len(stack) - 1)

Popping == ~finished /\ probing = NoRange /\ stack # << >>

\* Variant: the comparison is off by one.
OneRequestTooMany == requests > Budget

OutOfRequests == requests >= Budget

\* The head of the loop: after a stop, or with the budget spent, what is left
\* on the stack is deferred without a request.
PopDeferred ==
    /\ Popping
    /\ halt \/ OutOfRequests
    /\ stack' = Rest
    /\ deferred' = deferred \cup Span(Top)
    /\ UNCHANGED <<chunk, probing, accepted, rejected, requests, halt,
                   stopped, finished>>

\* Pops the top range, sends it whole and receives the answer.
Send(answer) ==
    /\ Popping
    /\ ~halt /\ ~OutOfRequests
    /\ answer \in Answers(Span(Top))
    /\ requests' = requests + 1
    /\ UNCHANGED <<chunk, finished>>

SendAccepted ==
    /\ Send("ok")
    /\ stack' = Rest
    /\ accepted' = accepted \cup Span(Top)
    /\ UNCHANGED <<probing, rejected, deferred, halt, stopped>>

Halves(r) ==
    LET mid == r[1] + Length(r) \div 2 IN << <<mid, r[2]>>, <<r[1], mid>> >>

\* A refusal that names a row: the left half is on top, so it goes next.
SendSplit ==
    /\ Send("named")
    /\ Length(Top) > 1
    /\ stack' = Rest \o Halves(Top)
    /\ UNCHANGED <<probing, answers, halt, stopped>>

\* A refusal of the request as a whole: the first row is sent alone next,
\* unless that send is beyond the budget.
SendPlain ==
    /\ Send("plain")
    /\ Length(Top) > 1
    /\ stack' = Rest
    /\ IF requests' >= Budget
       THEN deferred' = deferred \cup Span(Top) /\ UNCHANGED probing
       ELSE probing' = Top /\ UNCHANGED deferred
    /\ UNCHANGED <<accepted, rejected, halt, stopped>>

\* A single row was refused, however the refusal is worded.
SendBlamed ==
    /\ \E answer \in Refusals : Send(answer)
    /\ Length(Top) = 1
    /\ stack' = Rest
    /\ rejected' = rejected \cup {Top[1]}
    /\ UNCHANGED <<probing, accepted, deferred, halt, stopped>>

SendStopped ==
    /\ \E answer \in Stops :
          Send(answer) /\ stopped' = answer
    /\ stack' = Rest
    /\ deferred' = deferred \cup Span(Top)
    /\ halt' = TRUE
    /\ UNCHANGED <<probing, accepted, rejected>>

\* Sends the first row of `probing' alone.
Probe(answer) ==
    /\ ~finished /\ probing # NoRange
    /\ answer \in Answers({probing[1]})
    /\ requests' = requests + 1
    /\ probing' = NoRange
    /\ UNCHANGED <<chunk, finished>>

\* Variant: the probed row is pushed again with the rest.
AfterProbeWhole(r) == <<r>>

AfterProbe(r) == IF Length(r) > 1 THEN << <<r[1] + 1, r[2]>> >> ELSE << >>

ProbeBlamed ==
    /\ \E answer \in Refusals : Probe(answer)
    /\ rejected' = rejected \cup {probing[1]}
    /\ stack' = stack \o AfterProbe(probing)
    /\ UNCHANGED <<accepted, deferred, halt, stopped>>

ProbeAccepted ==
    /\ Probe("ok")
    /\ accepted' = accepted \cup {probing[1]}
    /\ stack' = stack \o AfterProbe(probing)
    /\ UNCHANGED <<rejected, deferred, halt, stopped>>

ProbeStopped ==
    /\ \E answer \in Stops :
          Probe(answer) /\ stopped' = answer
    /\ deferred' = deferred \cup Span(probing)
    /\ halt' = TRUE
    /\ UNCHANGED <<stack, accepted, rejected>>

\* Variant: no end guard.
ReturnAsIs ==
    /\ ~finished /\ probing = NoRange /\ stack = << >>
    /\ finished' = TRUE
    /\ UNCHANGED <<chunk, stack, probing, answers, requests, halt, stopped>>

\* The end guard: a walk that accepted nothing quarantines nothing.
Return ==
    /\ ~finished /\ probing = NoRange /\ stack = << >>
    /\ finished' = TRUE
    /\ IF accepted = {} /\ rejected # {}
       THEN /\ deferred' = deferred \cup rejected
            /\ rejected' = {}
            /\ stopped' = IF stopped \in {"none", "limited"} THEN "refusing"
                          ELSE stopped
       ELSE UNCHANGED <<rejected, deferred, stopped>>
    /\ UNCHANGED <<chunk, stack, probing, accepted, requests, halt>>

Next ==
    \/ PopDeferred
    \/ SendAccepted \/ SendSplit \/ SendPlain \/ SendBlamed \/ SendStopped
    \/ ProbeBlamed \/ ProbeAccepted \/ ProbeStopped
    \/ Return

Spec == Init /\ [][Next]_vars

-----------------------------------------------------------------------------
(* Properties. *)

\* The walk's own state has the shape isolate_rejected keeps: results are
\* indexes of the chunk and ranges on the stack are non-empty slices of it.
TypeOK ==
    /\ n \in 0 .. MaxRows
    /\ site \in Sites
    /\ bad \in SUBSET Rows
    /\ accepted \in SUBSET Rows
    /\ rejected \in SUBSET Rows
    /\ deferred \in SUBSET Rows
    /\ stack \in Seq((0 .. n) \X (0 .. n))
    /\ probing \in (0 .. n) \X (0 .. n)
    /\ requests \in Nat
    /\ halt \in BOOLEAN
    /\ stopped \in {"none", "limited", "other", "refusing"}
    /\ finished \in BOOLEAN

Waiting == (UNION {Span(stack[i]) : i \in DOMAIN stack}) \cup Span(probing)

\* Every row of the chunk has exactly one fate: still to be sent, accepted,
\* rejected or deferred.  upload_chunked marks accepted rows synced,
\* quarantines rejected ones and leaves deferred ones queued, so a row in two
\* results or in none would be lost, or sent and quarantined.
RowsHaveOneFate ==
    /\ TypeOK
    /\ Waiting \cup accepted \cup rejected \cup deferred = Rows
    /\ Waiting \cap (accepted \cup rejected \cup deferred) = {}
    /\ accepted \cap rejected = {}
    /\ accepted \cap deferred = {}
    /\ rejected \cap deferred = {}
    /\ finished => Waiting = {}

\* "Request count stays at or under isolation_request_budget", the probes
\* that a plain refusal adds included.
WithinBudget == requests <= Budget

\* What the walk returns can be acted on: a row is returned as rejected only
\* beside an accepted one, and a site that judges row by row never has a
\* good row quarantined nor a bad one taken for uploaded.
QuarantineSound ==
    finished =>
        /\ rejected # {} => accepted # {}
        /\ site # "any" => rejected \subseteq bad /\ accepted \cap bad = {}

\* The budget is enough for the case isolate_rejected is written for: when
\* the site names rows and at most a quarter of the chunk is bad, the walk
\* ends with exactly the bad rows rejected and every good row uploaded.
QuarterBadIsolated ==
    finished /\ site = "naming" /\ 4 * Cardinality(bad) <= n
    => accepted = Rows \ bad /\ rejected = bad

\* With up to half of the chunk bad the budget can run out, but never before
\* some row is uploaded: the pass is not taken for a server-wide refusal, so
\* its refused rows leave the queue and the next pass starts from fewer.
HalfBadProgress ==
    finished /\ site = "naming" /\ n > 0 /\ 2 * Cardinality(bad) <= n
    => accepted # {} /\ stopped = "none"

\* Few bad rows do not hold up a chunk.
FewBadIsolated == QuarterBadIsolated /\ HalfBadProgress

\* The comment above the end guard: "No accepted row means the 400/422s were
\* not single bad payloads among good ones.  A server-wide refusal [...]
\* refuses every subset."
RefusingMeansServerWide ==
    finished /\ site = "naming" /\ stopped = "refusing" => bad = Rows

=============================================================================
