----------------------------- MODULE Tournament -----------------------------
(***************************************************************************)
(* Playing a generated bracket: PATCH .../matches/:mid/report of           *)
(* site-server/src/routes/tournaments.rs, statement by statement.          *)
(*                                                                         *)
(* Officers report matches concurrently.  The result itself is written by  *)
(* a compare-and-swap, but what follows from it is not: a winner or a      *)
(* loser is advanced by reading the row of the next match and writing it   *)
(* back whole (set_match_participant), and the end of a round and of the   *)
(* tournament is decided on a list of matches read before.  Any statement  *)
(* can fail, which ends the request with what it has written so far.       *)
(***************************************************************************)
EXTENDS Bracket, Sequences

CONSTANTS
    Fields,    \* which tournaments: records of a format, the number of
               \*   participants and how many officers report
    Officers,  \* concurrent report requests
    MaxFaults  \* bound: statements that fail

ASSUME TournamentAssumption ==
    /\ \A f \in Fields :
          /\ f.format \in {"single_elim", "double_elim", "round_robin"}
          /\ f.n \in 2 .. 64
          /\ f.officers \subseteq Officers
    /\ MaxFaults \in Nat

VARIABLES
    field,      \* the tournament's format and size; never changes
    match,      \* table tournament_match
    rounds,     \* tournament_round: the completed ones
    status,     \* the tournament's status
    eliminated, \* tournament_participant: the eliminated ones
    report,     \* report requests in flight
    decided,    \* history: how often each match was decided
    raced,      \* history: matches whose row was overwritten with an older one
    early,      \* history: matches decided while a slot was empty
    stopped,    \* history: matches whose report failed half-way
    faults

vars == <<field, match, rounds, status, eliminated, report, decided, raced,
          early, stopped, faults>>

history == <<decided, raced, early, stopped, faults>>

Idle == [pc |-> "idle"]

\* The request's locals: `todo' is the advancements still to be made, each
\* a <<match, slot, participant>>, and `row' the row set_match_participant
\* has read.
At(o, pc) == report' = [report EXCEPT ![o].pc = pc]

InMatch(m, p) == p # NOBODY /\ p \in {match[m].a, match[m].b}

Done(m) == match[m].status \in {"completed", "bye"}

Init ==
    /\ field \in Fields
    /\ match = Generated(field.format, field.n)
    /\ rounds = {}
    /\ status = "in_progress"
    /\ eliminated = {}
    /\ report = [o \in Officers |-> Idle]
    /\ decided = [m \in DOMAIN match |-> 0]
    /\ raced = {}
    /\ early = {}
    /\ stopped = {}
    /\ faults = 0

-----------------------------------------------------------------------------
(* report_tournament_match *)

\* The checks before the write, on the row as it was read; a request they
\* refuse changes nothing.
Validate(o, m, w) ==
    /\ report[o].pc = "idle"
    /\ InMatch(m, w)
    /\ report' = [report EXCEPT ![o] = [pc |-> "cas", match |-> m, winner |-> w]]
    /\ UNCHANGED <<field, match, rounds, status, eliminated, history>>

Loser(m, w) == IF match[m].a = w THEN match[m].b ELSE match[m].a

\* Variant: the loser is not dropped into the losers bracket.
AdvanceWinnerOnly(m, w) ==
    LET next == next_match(field.format, field.n, m)
    IN  IF next = Nowhere THEN <<>> ELSE <<<<next[1], next[2], w>>>>

\* What the route has to advance: the winner, and in a double elimination the
\* loser.
Advancements(m, w) ==
    LET next == next_match(field.format, field.n, m)
        drop == loser_next_match(field.format, field.n, m)
    IN  (IF next = Nowhere THEN <<>> ELSE <<<<next[1], next[2], w>>>>)
        \o (IF drop = Nowhere \/ Loser(m, w) = NOBODY THEN <<>>
            ELSE <<<<drop[1], drop[2], Loser(m, w)>>>>)

\* single_elim marks the loser; the other formats have no eliminated.
OutOfCup(m, w) == IF field.format = "single_elim" THEN Loser(m, w) ELSE NOBODY

\* Variant: a match that was decided before is decided again.
CasAny(m) == match[m].status # "bye"

CasPending(m) == match[m].status = "pending"

Cas(o) ==
    LET m == report[o].match
        w == report[o].winner
    IN
    /\ report[o].pc = "cas"
    /\ \/ /\ CasPending(m)
          /\ match' = [match EXCEPT ![m].status = "completed", ![m].winner = w]
          /\ decided' = [decided EXCEPT ![m] = @ + 1]
          /\ early' = IF NOBODY \in {match[m].a, match[m].b} THEN early \cup {m} ELSE early
          /\ report' = [report EXCEPT ![o] =
                [pc |-> "advance", match |-> m, todo |-> Advancements(m, w),
                 out |-> OutOfCup(m, w)]]
       \/ /\ ~CasPending(m)
          /\ report' = [report EXCEPT ![o] = Idle]
          /\ UNCHANGED <<match, decided, early>>
    /\ UNCHANGED <<field, rounds, status, eliminated, raced, stopped, faults>>

-----------------------------------------------------------------------------
(* The rest of report_match. *)

\* set_match_participant reads the row...
SlotRead(o) ==
    /\ report[o].pc = "advance"
    /\ report[o].todo # <<>>
    /\ report' = [report EXCEPT ![o] =
            [pc |-> "write", match |-> @.match, todo |-> @.todo, out |-> @.out,
             row |-> match[Head(@.todo)[1]]]]
    /\ UNCHANGED <<field, match, rounds, status, eliminated, history>>

\* Variant: the first empty slot is filled, whoever feeds it.
FilledFirstEmpty(row, slot, p) ==
    IF row.a = NOBODY THEN [row EXCEPT !.a = p] ELSE [row EXCEPT !.b = p]

Filled(row, slot, p) ==
    IF slot = "a" THEN [row EXCEPT !.a = p] ELSE [row EXCEPT !.b = p]

\* ... and writes it back whole.
SlotWrite(o) ==
    LET to == Head(report[o].todo) IN
    /\ report[o].pc = "write"
    /\ match' = [match EXCEPT ![to[1]] = Filled(report[o].row, to[2], to[3])]
    /\ raced' = IF match[to[1]] = report[o].row THEN raced ELSE raced \cup {to[1]}
    /\ report' = [report EXCEPT ![o] =
            [pc |-> "advance", match |-> @.match, todo |-> Tail(@.todo), out |-> @.out]]
    /\ UNCHANGED <<field, rounds, status, eliminated, decided, early, stopped, faults>>

\* update_tournament_participant, whose error is ignored.
Eliminate(o) ==
    /\ report[o].pc = "advance"
    /\ report[o].todo = <<>>
    /\ \/ /\ eliminated' = eliminated \cup ({report[o].out} \ {NOBODY})
          /\ UNCHANGED <<stopped, faults>>
       \/ /\ report[o].out # NOBODY
          /\ faults < MaxFaults
          /\ faults' = faults + 1
          /\ stopped' = stopped \cup {report[o].match}
          /\ UNCHANGED eliminated
    /\ At(o, "list")
    /\ UNCHANGED <<field, match, rounds, status, decided, raced, early>>

RoundDone(m) == \A x \in DOMAIN match : RoundOf(x) = RoundOf(m) => Done(x)

\* list_tournament_matches, and what is decided on it.
ListMatches(o) ==
    /\ report[o].pc = "list"
    /\ report' = [report EXCEPT ![o] =
            [pc |-> "close", match |-> @.match, round |-> RoundDone(@.match),
             all |-> \A x \in DOMAIN match : Done(x)]]
    /\ UNCHANGED <<field, match, rounds, status, eliminated, history>>

\* update_round_status, whose error is ignored.
CloseRound(o) ==
    /\ report[o].pc = "close"
    /\ \/ /\ rounds' = IF report[o].round THEN rounds \cup {RoundOf(report[o].match)}
                       ELSE rounds
          /\ UNCHANGED <<stopped, faults>>
       \/ /\ report[o].round
          /\ faults < MaxFaults
          /\ faults' = faults + 1
          /\ stopped' = stopped \cup {report[o].match}
          /\ UNCHANGED rounds
    /\ At(o, "finish")
    /\ UNCHANGED <<field, match, status, eliminated, decided, raced, early>>

\* Variant: only the report of a final can complete the tournament.
FinishAtFinal(o) ==
    /\ report[o].pc = "finish"
    /\ status' = IF /\ report[o].all
                    /\ next_match(field.format, field.n, report[o].match) = Nowhere
                 THEN "completed" ELSE status
    /\ report' = [report EXCEPT ![o] = Idle]
    /\ UNCHANGED <<field, match, rounds, eliminated, history>>

\* update_tournament_status
Finish(o) ==
    /\ report[o].pc = "finish"
    /\ status' = IF report[o].all THEN "completed" ELSE status
    /\ report' = [report EXCEPT ![o] = Idle]
    /\ UNCHANGED <<field, match, rounds, eliminated, history>>

\* A statement fails, or the client goes away and the handler is dropped at an
\* await: the request ends.  Its match is decided and cannot be reported again.
Stop(o) ==
    /\ report[o].pc \notin {"idle", "cas"}
    /\ faults < MaxFaults
    /\ faults' = faults + 1
    /\ stopped' = stopped \cup {report[o].match}
    /\ report' = [report EXCEPT ![o] = Idle]
    /\ UNCHANGED <<field, match, rounds, status, eliminated, decided, raced, early>>

-----------------------------------------------------------------------------
ReportNext(o) ==
    \/ \E m \in DOMAIN match, w \in 1 .. field.n : Validate(o, m, w)
    \/ Cas(o)
    \/ SlotRead(o) \/ SlotWrite(o)
    \/ Eliminate(o)
    \/ ListMatches(o) \/ CloseRound(o) \/ Finish(o)
    \/ Stop(o)

Next == \E o \in field.officers : ReportNext(o)

Spec == Init /\ [][Next]_vars

-----------------------------------------------------------------------------
(* Properties *)

Ranks == 1 .. field.n

Slots == {NOBODY} \cup Ranks

\* Every row names a participant or nobody, every request is at one of its
\* statements, and the history only mentions matches of the bracket.
TypeOK ==
    LET Row == [a : Slots, b : Slots, winner : Slots,
                status : {"pending", "completed", "bye"}]
        Todo == Seq((DOMAIN match) \X {"a", "b"} \X Ranks)
    IN
    /\ field \in Fields
    /\ match \in [Matches(field.format, field.n) -> Row]
    /\ rounds \subseteq {RoundOf(m) : m \in DOMAIN match}
    /\ status \in {"in_progress", "completed"}
    /\ eliminated \subseteq Ranks
    /\ \A o \in Officers :
          LET r == report[o] IN
          CASE r.pc = "idle" -> r = Idle
            [] r.pc = "cas" -> r.match \in DOMAIN match /\ r.winner \in Ranks
            [] r.pc = "advance" -> r.todo \in Todo /\ r.out \in Slots
            [] r.pc = "write" -> r.todo \in Todo /\ r.todo # <<>> /\ r.row \in Row
            [] r.pc = "list" -> r.todo = <<>> /\ r.match \in DOMAIN match
            [] OTHER -> r.pc \in {"close", "finish"} /\ r.round \in BOOLEAN
    /\ decided \in [DOMAIN match -> Nat]
    /\ raced \cup early \cup stopped \subseteq DOMAIN match
    /\ faults \in 0 .. MaxFaults

Elimination == field.format # "round_robin"

Fresh == \A m \in DOMAIN match : decided[m] = 0

AtRest == \A o \in Officers : report[o] = Idle

Handled(m) ==
    /\ match[m].status = "completed"
    /\ m \notin stopped
    /\ \A o \in Officers : report[o] # Idle => report[o].match # m

Feeders(m, slot) ==
    {<<f, "winner">> : f \in {x \in DOMAIN match :
            next_match(field.format, field.n, x) = <<m, slot>>}}
    \cup {<<f, "loser">> : f \in {x \in DOMAIN match :
            loser_next_match(field.format, field.n, x) = <<m, slot>>}}

FirstRound(m) == m[1] \in {"main", "winners"} /\ m[2] = 0

\* The links of an elimination bracket: after the first round every slot is
\* fed by exactly one result, so no two results of the bracket ever compete
\* for a slot and none stays empty for want of a feeder.
EverySlotFedOnce ==
    Fresh /\ Elimination =>
        \A m \in DOMAIN match, slot \in {"a", "b"} :
            Cardinality(Feeders(m, slot)) = IF FirstRound(m) THEN 0 ELSE 1

\* Generation seeds everyone into exactly one match of the first round and
\* never pairs two byes, which would leave a slot of round two empty for good.
EveryoneSeeded ==
    Fresh /\ Elimination =>
        LET first == {m \in DOMAIN match : FirstRound(m)} IN
        /\ \A p \in Ranks : Cardinality({m \in first : InMatch(m, p)}) = 1
        /\ \A m \in first : {match[m].a, match[m].b} # {NOBODY}

\* The circle method: in every round everyone has one match, and any two
\* participants meet in exactly one match of the tournament.
PairsMeetOnce ==
    Fresh /\ ~Elimination =>
        /\ \A p \in Ranks, r \in {RoundOf(m) : m \in DOMAIN match} :
              Cardinality({m \in DOMAIN match : RoundOf(m) = r /\ InMatch(m, p)}) = 1
        /\ \A p, q \in Ranks : p # q =>
              Cardinality({m \in DOMAIN match : InMatch(m, p) /\ InMatch(m, q)}) = 1

\* What the generators write: a bracket through which everyone can play.
WellFormed == TypeOK /\ EverySlotFedOnce /\ EveryoneSeeded /\ PairsMeetOnce

\* A feeder of the match was written back from an older read: decided again,
\* it replaces a participant who may have played the match already.
Refed(m) ==
    \E f \in raced :
        \E link \in {next_match(field.format, field.n, f),
                     loser_next_match(field.format, field.n, f)} :
            link # Nowhere /\ link[1] = m

\* Once a report has been answered, its winner is in the slot the bracket
\* links to and, in a double elimination, its loser in the other one; nobody
\* who was advanced is displaced.  Only a row another request wrote back from
\* an older read is excepted: the row itself, the one advanced into and, for
\* the loser, the ones that feed the match.
WinnersAdvance ==
    \A m \in DOMAIN match : Handled(m) /\ m \notin raced =>
        LET next == next_match(field.format, field.n, m)
            drop == loser_next_match(field.format, field.n, m)
            loser == Loser(m, match[m].winner)
        IN
        /\ next = Nowhere \/ next[1] \in raced
              \/ match[next[1]][next[2]] = match[m].winner
        /\ drop = Nowhere \/ drop[1] \in raced \/ m \in early \/ Refed(m)
              \/ match[drop[1]][drop[2]] = loser

\* A match is decided once, however many officers report it at the same time,
\* as long as its row is not written back from an older read.
DecidedOnce == \A m \in DOMAIN match : decided[m] <= 1 \/ m \in raced

\* What report_match and report_tournament_match say: the compare-and-swap
\* alone makes a second report of a match a conflict.
ReportedOnce == \A m \in DOMAIN match : decided[m] <= 1

\* A round or a tournament is closed on a list read earlier; when it is, every
\* match of it is done and stays done, unless a row went back.
ClosedIsDone ==
    raced = {} =>
        /\ \A m \in DOMAIN match : RoundOf(m) \in rounds => Done(m)
        /\ status = "completed" => \A m \in DOMAIN match : Done(m)

\* When the last matches are reported at the same time, one of the reports
\* sees them all done: without a failure the tournament does not stay open
\* when all is played, and where no row went back no round does.  A round or
\* tournament whose matches are all byes needs no report.
LastReportCloses ==
    AtRest /\ faults = 0 /\ ~Fresh /\ (\A m \in DOMAIN match : Done(m)) =>
        /\ status = "completed"
        /\ raced = {} =>
              \A m \in DOMAIN match : match[m].status = "completed" => RoundOf(m) \in rounds

\* Rounds and tournaments are closed when they are done, and only then.
ClosedWhenDone == ClosedIsDone /\ LastReportCloses

\* Two byes next to each other in the winners bracket feed one losers match.
LoserlessMatch ==
    \E m \in DOMAIN match :
        /\ m[1] = "losers" /\ m[2] = 0
        /\ \A f \in Feeders(m, "a") \cup Feeders(m, "b") : match[f[1]].status = "bye"

\* A bracket can be played to its end: at rest, without failure or race, there
\* is a pending match with somebody in it as long as not all are done.  A
\* losers match fed by two byes is the exception: nobody can win it.
NeverStuck ==
    AtRest /\ faults = 0 /\ raced = {} /\ ~LoserlessMatch =>
        \/ \A m \in DOMAIN match : Done(m)
        \/ \E m \in DOMAIN match, p \in Ranks :
                match[m].status = "pending" /\ InMatch(m, p)

\* In a single elimination played with both sides present everyone but the
\* winner of the final is marked eliminated, and nobody still in a pending
\* match is.
SoleSurvivor ==
    field.format = "single_elim" /\ AtRest /\ faults = 0 /\ raced = {} /\ early = {} =>
        LET final == CHOOSE m \in DOMAIN match : m[2] + 1 = LogSize(field.n) IN
        /\ match[final].status = "completed" => eliminated = Ranks \ {match[final].winner}
        /\ \A m \in DOMAIN match, p \in eliminated :
              InMatch(m, p) => match[m].status # "pending"

\* Reports in any order play a bracket to its end and to one winner.
PlayedOut == NeverStuck /\ SoleSurvivor
=============================================================================
