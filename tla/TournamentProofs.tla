-------------------------- MODULE TournamentProofs --------------------------
(***************************************************************************)
(* What report_match keeps for any bracket and any number of officers: a   *)
(* match is decided once unless its row was written back from an older     *)
(* read, nothing is closed before it is done, what is done is closed, and  *)
(* winners and losers reach the slots the bracket links to.                *)
(*                                                                         *)
(* All but the last need no knowledge of the bracket.  A row keeps its     *)
(* shape, and a row that nobody wrote back from an older read never goes   *)
(* back from decided to pending; the rest follows the requests from their  *)
(* compare-and-swap to the end.  The last needs of the links that they     *)
(* lead to slots of the bracket and no two of them to the same, which is   *)
(* proved from the arithmetic of next_match and loser_next_match.          *)
(***************************************************************************)
EXTENDS Tournament, TLAPS

\* A row has the four columns of a tournament_match.
IsRow(r) ==
    /\ r = [a |-> r.a, b |-> r.b, status |-> r.status, winner |-> r.winner]
    /\ r.status \in {"pending", "completed", "bye"}

\* The locals of a request at each of its statements.
IsReport(r) ==
    \/ r = Idle
    \/ /\ r.pc = "cas"
       /\ r = [pc |-> r.pc, match |-> r.match, winner |-> r.winner]
    \/ /\ r.pc \in {"advance", "list"}
       /\ r = [pc |-> r.pc, match |-> r.match, todo |-> r.todo, out |-> r.out]
    \/ /\ r.pc = "write"
       /\ r = [pc |-> r.pc, match |-> r.match, todo |-> r.todo, out |-> r.out, row |-> r.row]
    \/ /\ r.pc \in {"close", "finish"}
       /\ r = [pc |-> r.pc, match |-> r.match, round |-> r.round, all |-> r.all]

\* The tables and the requests have their shape, and a row that was read is
\* a row.
ShapeInv ==
    /\ match = [m \in DOMAIN match |-> match[m]]
    /\ \A m \in DOMAIN match : IsRow(match[m])
    /\ report = [o \in Officers |-> report[o]]
    /\ \A o \in Officers :
          /\ IsReport(report[o])
          /\ report[o] # Idle => report[o].match \in DOMAIN match
          /\ report[o].pc = "write" /\ Head(report[o].todo)[1] \in DOMAIN match
                => IsRow(report[o].row)
    /\ decided \in [DOMAIN match -> Nat]
    /\ faults \in Nat
    /\ field \in Fields /\ field.officers \subseteq Officers

\* A pending row that nobody wrote back has not been decided, and a decided
\* one once.
DecidedInv ==
    \A m \in DOMAIN match : m \notin raced =>
        /\ decided[m] <= 1
        /\ match[m].status = "pending" => decided[m] = 0

\* Where no row went back, what a request has seen done is done.
SeenDone(o) ==
    /\ report[o].pc = "close" /\ report[o].round => RoundDone(report[o].match)
    /\ report[o].pc \in {"close", "finish"} /\ report[o].all
          => \A m \in DOMAIN match : Done(m)

SeenInv == raced = {} => \A o \in Officers : SeenDone(o)

\* A request that has yet to look, or has looked and will close.
WillFinish(o) ==
    \/ report[o].pc \in {"advance", "write", "list"}
    \/ report[o].pc \in {"close", "finish"} /\ report[o].all

WillClose(o, m) ==
    /\ report[o] # Idle /\ RoundOf(report[o].match) = RoundOf(m)
    /\ \/ report[o].pc \in {"advance", "write", "list"}
       \/ report[o].pc = "close" /\ report[o].round

\* Without a failure: when everything is done, the tournament is completed or
\* a request is under way that will complete it ...
FinishInv ==
    faults = 0 /\ ~Fresh /\ (\A m \in DOMAIN match : Done(m)) =>
        status = "completed" \/ \E o \in Officers : WillFinish(o)

\* ... and so with a round in which something was decided.
CloseInv ==
    faults = 0 /\ raced = {} =>
        \A m \in DOMAIN match :
            match[m].status = "completed" /\ RoundDone(m) =>
                RoundOf(m) \in rounds \/ \E o \in Officers : WillClose(o, m)

IInv == ShapeInv /\ DecidedInv /\ SeenInv /\ ClosedIsDone /\ FinishInv /\ CloseInv

-----------------------------------------------------------------------------
(* Single steps. *)

\* A request that moves leaves the others where they are.
LEMMA Moved ==
    ASSUME ShapeInv, NEW o \in Officers, NEW rec,
           report' = [report EXCEPT ![o] = rec]
    PROVE  /\ report'[o] = rec
           /\ \A p \in Officers : p # o => report'[p] = report[p]
           /\ report' = [p \in Officers |-> report'[p]]
BY DEF ShapeInv

\* What each statement of a request needs and leaves, the tables apart.
LEMMA ReportSteps ==
    ASSUME ShapeInv, NEW o \in Officers
    PROVE  /\ report[o].pc = "cas" =>
                report[o] = [pc |-> "cas", match |-> report[o].match,
                             winner |-> report[o].winner]
           /\ report[o].pc \in {"advance", "list"} =>
                report[o] = [pc |-> report[o].pc, match |-> report[o].match,
                             todo |-> report[o].todo, out |-> report[o].out]
           /\ report[o].pc = "write" =>
                report[o] = [pc |-> "write", match |-> report[o].match,
                             todo |-> report[o].todo, out |-> report[o].out,
                             row |-> report[o].row]
           /\ report[o].pc \in {"close", "finish"} =>
                report[o] = [pc |-> report[o].pc, match |-> report[o].match,
                             round |-> report[o].round, all |-> report[o].all]
           /\ report[o].pc # "idle" => report[o].match \in DOMAIN match
BY DEF ShapeInv, IsReport, Idle

\* A step of a request that touches no match: it keeps every row and what was
\* decided, and the other requests.
Aside(o) ==
    /\ UNCHANGED <<field, match, decided, raced>>
    /\ \A p \in Officers : p # o => report'[p] = report[p]
    /\ report' = [p \in Officers |-> report'[p]]
    /\ IsReport(report'[o])
    /\ report'[o] # Idle => report'[o].match \in DOMAIN match
    /\ report'[o].pc = "write" /\ Head(report'[o].todo)[1] \in DOMAIN match
           => IsRow(report'[o].row)
    /\ faults' \in Nat /\ (faults' = 0 => faults = 0)

\* Such a step keeps the shape and the single decisions.
LEMMA AsideKeeps ==
    ASSUME ShapeInv, DecidedInv, NEW o \in Officers, Aside(o)
    PROVE  ShapeInv' /\ DecidedInv'
<1>1. ASSUME NEW p \in Officers
      PROVE  /\ IsReport(report'[p])
             /\ report'[p] # Idle => report'[p].match \in DOMAIN match
             /\ report'[p].pc = "write" /\ Head(report'[p].todo)[1] \in DOMAIN match
                    => IsRow(report'[p].row)
    BY DEF Aside, ShapeInv
<1>2. ShapeInv'
    BY <1>1 DEF Aside, ShapeInv
<1>3. DecidedInv'
    BY DEF Aside, DecidedInv
<1> QED
    BY <1>2, <1>3

\* Such a step keeps the whole invariant when what it closes is done, and
\* when it does not give up a closing it owes.
LEMMA AsideIInv ==
    ASSUME IInv, NEW o \in Officers, Aside(o),
           raced = {} => SeenDone(o)',
           rounds \subseteq rounds',
           raced = {} => \A m \in DOMAIN match : RoundOf(m) \in rounds' \ rounds => Done(m),
           \/ status' = status
           \/ /\ status' = "completed"
              /\ raced = {} => \A m \in DOMAIN match : Done(m),
           faults' = 0 /\ WillFinish(o) /\ (\A m \in DOMAIN match : Done(m))
                => WillFinish(o)' \/ status' = "completed",
           \A m \in DOMAIN match :
               faults' = 0 /\ raced = {} /\ RoundDone(m) /\ WillClose(o, m)
                   => RoundOf(m) \in rounds' \/ WillClose(o, m)'
    PROVE  IInv'
<1>1. ShapeInv' /\ DecidedInv'
    BY AsideKeeps DEF IInv
<1>2. /\ match' = match /\ decided' = decided /\ raced' = raced
      /\ \A p \in Officers : p # o => report'[p] = report[p]
      /\ faults' = 0 => faults = 0
    BY DEF Aside
<1>3. SeenInv'
  <2> SUFFICES ASSUME raced = {}, NEW p \in Officers PROVE SeenDone(p)'
    BY <1>2 DEF SeenInv
  <2>1. CASE p = o
    BY <2>1
  <2>2. CASE p # o
    BY <1>2, <2>2 DEF IInv, SeenInv, SeenDone, RoundDone, Done
  <2> QED
    BY <2>1, <2>2
<1>4. ClosedIsDone'
    BY <1>2 DEF IInv, ClosedIsDone, Done
<1>5. FinishInv'
  <2> SUFFICES ASSUME faults' = 0, ~Fresh, \A m \in DOMAIN match : Done(m)
               PROVE  status' = "completed" \/ \E p \in Officers : WillFinish(p)'
    BY <1>2 DEF FinishInv, Fresh, Done
  <2>1. CASE status = "completed"
    BY <2>1
  <2>2. CASE status # "completed"
    <3>1. PICK p \in Officers : WillFinish(p)
      BY <1>2, <2>2 DEF IInv, FinishInv
    <3>2. CASE p = o
      BY <3>1, <3>2
    <3>3. CASE p # o
      BY <1>2, <3>1, <3>3 DEF WillFinish
    <3> QED
      BY <3>2, <3>3
  <2> QED
    BY <2>1, <2>2
<1>6. CloseInv'
  <2> SUFFICES ASSUME faults' = 0, raced = {}, NEW m \in DOMAIN match,
                      match[m].status = "completed", RoundDone(m)
               PROVE  RoundOf(m) \in rounds' \/ \E p \in Officers : WillClose(p, m)'
    BY <1>2 DEF CloseInv, RoundDone, Done
  <2>1. CASE RoundOf(m) \in rounds
    BY <2>1
  <2>2. CASE RoundOf(m) \notin rounds
    <3>1. PICK p \in Officers : WillClose(p, m)
      BY <1>2, <2>2 DEF IInv, CloseInv
    <3>2. CASE p = o
      BY <3>1, <3>2
    <3>3. CASE p # o
      BY <1>2, <3>1, <3>3 DEF WillClose
    <3> QED
      BY <3>2, <3>3
  <2> QED
    BY <2>1, <2>2
<1> QED
    BY <1>1, <1>3, <1>4, <1>5, <1>6 DEF IInv

-----------------------------------------------------------------------------
(* The statements that touch no match. *)

\* Reading and validating the match writes nothing.
LEMMA ValidateIInv ==
    ASSUME IInv, NEW o \in Officers, NEW m \in DOMAIN match, NEW w, Validate(o, m, w)
    PROVE  IInv'
<1>1. /\ report[o].pc = "idle"
      /\ report' = [report EXCEPT ![o] = [pc |-> "cas", match |-> m, winner |-> w]]
      /\ UNCHANGED <<field, match, rounds, status, decided, raced, faults>>
    BY DEF Validate, history
<1>2. /\ report'[o] = [pc |-> "cas", match |-> m, winner |-> w]
      /\ \A p \in Officers : p # o => report'[p] = report[p]
      /\ report' = [p \in Officers |-> report'[p]]
    BY <1>1, Moved DEF IInv
<1>3. Aside(o)
    BY <1>1, <1>2 DEF Aside, IsReport, IInv, ShapeInv
<1>4. SeenDone(o)' /\ ~WillFinish(o) /\ \A x : ~WillClose(o, x)
    BY <1>1, <1>2 DEF SeenDone, WillFinish, WillClose
<1> QED
    BY <1>1, <1>3, <1>4, AsideIInv

\* Filling the next slot of the bracket decides nothing.
LEMMA SlotReadIInv ==
    ASSUME IInv, NEW o \in Officers, SlotRead(o)
    PROVE  IInv'
<1>1. /\ report[o].pc = "advance"
      /\ report' = [report EXCEPT ![o] =
            [pc |-> "write", match |-> report[o].match, todo |-> report[o].todo,
             out |-> report[o].out, row |-> match[Head(report[o].todo)[1]]]]
      /\ UNCHANGED <<field, match, rounds, status, decided, raced, faults>>
    BY DEF SlotRead, history, IInv, ShapeInv
<1>2. /\ report'[o] = [pc |-> "write", match |-> report[o].match, todo |-> report[o].todo,
                       out |-> report[o].out, row |-> match[Head(report[o].todo)[1]]]
      /\ \A p \in Officers : p # o => report'[p] = report[p]
      /\ report' = [p \in Officers |-> report'[p]]
    BY <1>1, Moved DEF IInv
<1>3. report[o].match \in DOMAIN match
    BY <1>1, ReportSteps DEF IInv
<1>4. Aside(o)
    BY <1>1, <1>2, <1>3 DEF Aside, IsReport, IInv, ShapeInv
<1>5. SeenDone(o)' /\ WillFinish(o)'
    BY <1>2 DEF SeenDone, WillFinish
<1>6. \A x : WillClose(o, x) => WillClose(o, x)'
    BY <1>1, <1>2 DEF WillClose, Idle
<1> QED
    BY <1>1, <1>4, <1>5, <1>6, AsideIInv

\* Marking the loser eliminated decides nothing.
LEMMA EliminateIInv ==
    ASSUME IInv, NEW o \in Officers, Eliminate(o)
    PROVE  IInv'
<1>1. /\ report[o].pc = "advance"
      /\ report' = [report EXCEPT ![o] = [report[o] EXCEPT !.pc = "list"]]
      /\ UNCHANGED <<field, match, rounds, status, decided, raced>>
      /\ faults' = faults \/ faults' = faults + 1
    BY DEF Eliminate, At, IInv, ShapeInv
<1>2. /\ report'[o] = [report[o] EXCEPT !.pc = "list"]
      /\ \A p \in Officers : p # o => report'[p] = report[p]
      /\ report' = [p \in Officers |-> report'[p]]
    BY <1>1, Moved DEF IInv
<1>3. /\ report[o].match \in DOMAIN match
      /\ report[o] = [pc |-> "advance", match |-> report[o].match,
                      todo |-> report[o].todo, out |-> report[o].out]
    BY <1>1, ReportSteps DEF IInv
<1>4. report'[o] = [pc |-> "list", match |-> report[o].match,
                    todo |-> report[o].todo, out |-> report[o].out]
    BY <1>2, <1>3
<1>5. faults' \in Nat /\ (faults' = 0 => faults = 0)
    BY <1>1 DEF IInv, ShapeInv
<1>6. Aside(o)
    BY <1>1, <1>2, <1>3, <1>4, <1>5 DEF Aside, IsReport
<1>7. SeenDone(o)' /\ WillFinish(o)'
    BY <1>4 DEF SeenDone, WillFinish
<1>8. \A x : WillClose(o, x) => WillClose(o, x)'
    BY <1>1, <1>4 DEF WillClose, Idle
<1> QED
    BY <1>1, <1>6, <1>7, <1>8, AsideIInv

\* The request looks: what it sees done is done.
LEMMA ListMatchesIInv ==
    ASSUME IInv, NEW o \in Officers, ListMatches(o)
    PROVE  IInv'
<1> DEFINE r == RoundDone(report[o].match)
           a == \A x \in DOMAIN match : Done(x)
<1>1. /\ report[o].pc = "list"
      /\ report' = [report EXCEPT ![o] =
            [pc |-> "close", match |-> report[o].match, round |-> r, all |-> a]]
      /\ UNCHANGED <<field, match, rounds, status, decided, raced, faults>>
    BY DEF ListMatches, history, IInv, ShapeInv
<1>2. /\ report'[o] = [pc |-> "close", match |-> report[o].match, round |-> r, all |-> a]
      /\ \A p \in Officers : p # o => report'[p] = report[p]
      /\ report' = [p \in Officers |-> report'[p]]
    BY <1>1, Moved DEF IInv
<1>3. report[o].match \in DOMAIN match
    BY <1>1, ReportSteps DEF IInv
<1>4. /\ report'[o].pc = "close" /\ report'[o].match = report[o].match
      /\ report'[o].round = r /\ report'[o].all = a
    BY <1>2
<1>5. Aside(o)
    BY <1>1, <1>2, <1>3, <1>4 DEF Aside, IsReport, IInv, ShapeInv
<1>6. SeenDone(o)'
    BY <1>1, <1>4 DEF SeenDone, RoundDone, Done
<1>7. a => WillFinish(o)'
    BY <1>4 DEF WillFinish
<1>8. \A x : RoundDone(x) /\ WillClose(o, x) => WillClose(o, x)'
    BY <1>1, <1>4 DEF WillClose, Idle, RoundDone
<1> HIDE DEF r, a
<1> QED
    BY <1>1, <1>5, <1>6, <1>7, <1>8, AsideIInv DEF a

\* The round it has seen done is closed.
LEMMA CloseRoundIInv ==
    ASSUME IInv, NEW o \in Officers, CloseRound(o)
    PROVE  IInv'
<1>1. /\ report[o].pc = "close"
      /\ report' = [report EXCEPT ![o] = [report[o] EXCEPT !.pc = "finish"]]
      /\ UNCHANGED <<field, match, status, decided, raced>>
      /\ \/ /\ faults' = faults
            /\ rounds' = IF report[o].round THEN rounds \cup {RoundOf(report[o].match)}
                         ELSE rounds
         \/ faults' = faults + 1 /\ rounds' = rounds
    BY DEF CloseRound, At, IInv, ShapeInv
<1>2. /\ report'[o] = [report[o] EXCEPT !.pc = "finish"]
      /\ \A p \in Officers : p # o => report'[p] = report[p]
      /\ report' = [p \in Officers |-> report'[p]]
    BY <1>1, Moved DEF IInv
<1>3. /\ report[o].match \in DOMAIN match
      /\ report[o] = [pc |-> "close", match |-> report[o].match,
                      round |-> report[o].round, all |-> report[o].all]
    BY <1>1, ReportSteps DEF IInv
<1>4. report'[o] = [pc |-> "finish", match |-> report[o].match,
                    round |-> report[o].round, all |-> report[o].all]
    BY <1>2, <1>3
<1>5. faults \in Nat /\ faults' \in Nat /\ (faults' = 0 => faults = 0 /\ faults' = faults)
    BY <1>1 DEF IInv, ShapeInv
<1>6. Aside(o)
    BY <1>1, <1>2, <1>3, <1>4, <1>5 DEF Aside, IsReport
<1>7. raced = {} => SeenDone(o)
    BY DEF IInv, SeenInv
<1>8. raced = {} => SeenDone(o)'
    BY <1>1, <1>4, <1>7 DEF SeenDone, Done
<1>9. raced = {} => \A m \in DOMAIN match : RoundOf(m) \in rounds' \ rounds => Done(m)
    BY <1>1, <1>7 DEF SeenDone, RoundDone
<1>10. WillFinish(o) => WillFinish(o)'
    BY <1>1, <1>4 DEF WillFinish
<1>11. \A m : faults' = 0 /\ WillClose(o, m) => RoundOf(m) \in rounds'
  <2> SUFFICES ASSUME NEW m, faults' = 0, WillClose(o, m) PROVE RoundOf(m) \in rounds'
    OBVIOUS
  <2>1. report[o].round /\ RoundOf(report[o].match) = RoundOf(m)
    BY <1>1 DEF WillClose
  <2>2. rounds' = rounds \cup {RoundOf(report[o].match)}
    BY <1>1, <1>5, <2>1
  <2> QED
    BY <2>1, <2>2
<1>12. rounds \subseteq rounds' /\ status' = status
    BY <1>1
<1> QED
    BY <1>6, <1>8, <1>9, <1>10, <1>11, <1>12, AsideIInv

\* The tournament it has seen done is completed.
LEMMA FinishIInv ==
    ASSUME IInv, NEW o \in Officers, Finish(o)
    PROVE  IInv'
<1>1. /\ report[o].pc = "finish"
      /\ report' = [report EXCEPT ![o] = Idle]
      /\ UNCHANGED <<field, match, rounds, decided, raced, faults>>
      /\ status' = IF report[o].all THEN "completed" ELSE status
    BY DEF Finish, history
<1>2. /\ report'[o] = Idle
      /\ \A p \in Officers : p # o => report'[p] = report[p]
      /\ report' = [p \in Officers |-> report'[p]]
    BY <1>1, Moved DEF IInv
<1>3. Aside(o)
    BY <1>1, <1>2 DEF Aside, IsReport, IInv, ShapeInv, Idle
<1>4. SeenDone(o)' /\ \A x : ~WillClose(o, x)
    BY <1>1, <1>2 DEF SeenDone, WillClose, Idle
<1>5. raced = {} => SeenDone(o)
    BY DEF IInv, SeenInv
<1>6. WillFinish(o) => status' = "completed"
    BY <1>1 DEF WillFinish
<1>7. \/ status' = status
      \/ /\ status' = "completed"
         /\ raced = {} => \A m \in DOMAIN match : Done(m)
    BY <1>1, <1>5 DEF SeenDone
<1> QED
    BY <1>1, <1>3, <1>4, <1>6, <1>7, AsideIInv

\* A request that fails gives up what it owed, and is counted.
LEMMA StopIInv ==
    ASSUME IInv, NEW o \in Officers, Stop(o)
    PROVE  IInv'
<1>1. /\ report' = [report EXCEPT ![o] = Idle]
      /\ UNCHANGED <<field, match, rounds, status, decided, raced>>
      /\ faults' = faults + 1
    BY DEF Stop
<1>2. /\ report'[o] = Idle
      /\ \A p \in Officers : p # o => report'[p] = report[p]
      /\ report' = [p \in Officers |-> report'[p]]
    BY <1>1, Moved DEF IInv
<1>3. faults' \in Nat /\ faults' # 0
    BY <1>1 DEF IInv, ShapeInv
<1>4. Aside(o)
    BY <1>1, <1>2, <1>3 DEF Aside, IsReport, Idle
<1>5. SeenDone(o)'
    BY <1>2 DEF SeenDone, Idle
<1> QED
    BY <1>1, <1>3, <1>4, <1>5, AsideIInv

-----------------------------------------------------------------------------
(* The statements that write a match. *)

\* The compare-and-swap decides a pending row, and its request has yet to
\* look.
LEMMA CasDecidesIInv ==
    ASSUME IInv, NEW o \in Officers, Cas(o), CasPending(report[o].match)
    PROVE  IInv'
<1> DEFINE m == report[o].match
           w == report[o].winner
<1>1. /\ report[o].pc = "cas"
      /\ match' = [match EXCEPT ![m].status = "completed", ![m].winner = w]
      /\ decided' = [decided EXCEPT ![m] = @ + 1]
      /\ report' = [report EXCEPT ![o] =
             [pc |-> "advance", match |-> m, todo |-> Advancements(m, w),
              out |-> OutOfCup(m, w)]]
      /\ UNCHANGED <<field, rounds, status, raced, faults>>
    BY DEF Cas
<1>2. /\ report'[o] = [pc |-> "advance", match |-> m, todo |-> Advancements(m, w),
                       out |-> OutOfCup(m, w)]
      /\ \A p \in Officers : p # o => report'[p] = report[p]
      /\ report' = [p \in Officers |-> report'[p]]
    BY <1>1, Moved DEF IInv
<1>3. m \in DOMAIN match
    BY <1>1, ReportSteps DEF IInv
<1>4. IsRow(match[m]) /\ match[m].status = "pending"
    BY <1>3 DEF IInv, ShapeInv, CasPending
<1>5. /\ DOMAIN match' = DOMAIN match
      /\ match' = [x \in DOMAIN match |-> match'[x]]
      /\ \A x \in DOMAIN match : x # m => match'[x] = match[x]
    BY <1>1, <1>3 DEF IInv, ShapeInv
<1>6. match'[m] = [a |-> match[m].a, b |-> match[m].b, status |-> "completed", winner |-> w]
    BY <1>1, <1>3, <1>4 DEF IInv, ShapeInv, IsRow
<1>7. IsRow(match'[m]) /\ match'[m].status = "completed"
    BY <1>6 DEF IsRow
<1>8. ShapeInv'
  <2>1. \A x \in DOMAIN match : IsRow(match'[x])
    BY <1>5, <1>7 DEF IInv, ShapeInv
  <2>2. decided' \in [DOMAIN match -> Nat]
    BY <1>1, <1>3 DEF IInv, ShapeInv
  <2>3. ASSUME NEW p \in Officers
        PROVE  /\ IsReport(report'[p])
               /\ report'[p] # Idle => report'[p].match \in DOMAIN match
               /\ report'[p].pc = "write" /\ Head(report'[p].todo)[1] \in DOMAIN match
                    => IsRow(report'[p].row)
    <3>1. CASE p = o
      BY <1>2, <1>3, <3>1 DEF IsReport
    <3>2. CASE p # o
      BY <1>2, <3>2 DEF IInv, ShapeInv
    <3> QED
      BY <3>1, <3>2
  <2> QED
    BY <1>1, <1>2, <1>5, <2>1, <2>2, <2>3 DEF IInv, ShapeInv
<1>9. DecidedInv'
  <2> SUFFICES ASSUME NEW x \in DOMAIN match, x \notin raced
               PROVE  decided'[x] <= 1 /\ (match'[x].status = "pending" => decided'[x] = 0)
    BY <1>1, <1>5 DEF DecidedInv
  <2>1. CASE x = m
    BY <1>1, <1>3, <1>4, <1>7, <2>1 DEF IInv, ShapeInv, DecidedInv
  <2>2. CASE x # m
    BY <1>1, <1>5, <2>2 DEF IInv, ShapeInv, DecidedInv
  <2> QED
    BY <2>1, <2>2
<1> HIDE DEF m, w
<1>10. \A x \in DOMAIN match : Done(x) => Done(x)'
    BY <1>5, <1>7 DEF Done
<1>11. ASSUME raced = {}, NEW p \in Officers PROVE SeenDone(p)'
  <2>1. CASE p = o
    BY <1>2, <2>1 DEF SeenDone
  <2>2. CASE p # o
    <3>1. SeenDone(p) /\ report'[p] = report[p]
      BY <1>2, <1>11, <2>2 DEF IInv, SeenInv
    <3> QED
      BY <1>5, <1>10, <3>1 DEF SeenDone, RoundDone
  <2> QED
    BY <2>1, <2>2
<1>12. SeenInv'
    BY <1>1, <1>11 DEF SeenInv
<1>13. ClosedIsDone'
    BY <1>1, <1>5, <1>10 DEF IInv, ClosedIsDone
<1>14. WillFinish(o)'
    BY <1>2 DEF WillFinish
<1>15. FinishInv'
    BY <1>14 DEF FinishInv
<1>16. CloseInv'
  <2> SUFFICES ASSUME faults = 0, raced = {}, NEW x \in DOMAIN match,
                      match'[x].status = "completed", RoundDone(x)'
               PROVE  RoundOf(x) \in rounds \/ \E p \in Officers : WillClose(p, x)'
    BY <1>1, <1>5 DEF CloseInv
  <2>1. CASE RoundOf(x) = RoundOf(m)
    BY <1>2, <2>1 DEF WillClose, Idle
  <2>2. CASE RoundOf(x) # RoundOf(m)
    <3>1. x # m /\ \A y \in DOMAIN match : RoundOf(y) = RoundOf(x) => match'[y] = match[y]
      BY <1>5, <2>2
    <3>2. match[x].status = "completed" /\ RoundDone(x)
      BY <1>5, <3>1 DEF RoundDone, Done
    <3>3. ASSUME NEW p \in Officers, WillClose(p, x) PROVE WillClose(p, x)'
      <4>1. p # o
        BY <1>1, <3>3 DEF WillClose
      <4> QED
        BY <1>2, <3>3, <4>1 DEF WillClose
    <3> QED
      BY <3>2, <3>3 DEF IInv, CloseInv
  <2> QED
    BY <2>1, <2>2
<1> QED
    BY <1>8, <1>9, <1>12, <1>13, <1>15, <1>16 DEF IInv

\* A second report of a match is answered with a conflict.
LEMMA CasConflictIInv ==
    ASSUME IInv, NEW o \in Officers, Cas(o), ~CasPending(report[o].match)
    PROVE  IInv'
<1>1. /\ report[o].pc = "cas"
      /\ report' = [report EXCEPT ![o] = Idle]
      /\ UNCHANGED <<field, match, rounds, status, decided, raced, faults>>
    BY DEF Cas
<1>2. /\ report'[o] = Idle
      /\ \A p \in Officers : p # o => report'[p] = report[p]
      /\ report' = [p \in Officers |-> report'[p]]
    BY <1>1, Moved DEF IInv
<1>3. Aside(o)
    BY <1>1, <1>2 DEF Aside, IsReport, IInv, ShapeInv, Idle
<1>4. SeenDone(o)' /\ ~WillFinish(o) /\ \A x : ~WillClose(o, x)
    BY <1>1, <1>2 DEF SeenDone, WillFinish, WillClose, Idle
<1> QED
    BY <1>1, <1>3, <1>4, AsideIInv

\* The row written back is the one in the table but for the slot, or the
\* match goes among the raced ones.
LEMMA SlotWriteIInv ==
    ASSUME IInv, NEW o \in Officers, SlotWrite(o)
    PROVE  IInv'
<1> DEFINE to == Head(report[o].todo)
           x == to[1]
           row == report[o].row
<1>1. /\ report[o].pc = "write"
      /\ match' = [match EXCEPT ![x] = Filled(row, to[2], to[3])]
      /\ raced' = IF match[x] = row THEN raced ELSE raced \cup {x}
      /\ report' = [report EXCEPT ![o] =
             [pc |-> "advance", match |-> report[o].match, todo |-> Tail(report[o].todo),
              out |-> report[o].out]]
      /\ UNCHANGED <<field, rounds, status, decided, faults>>
    BY DEF SlotWrite, IInv, ShapeInv
<1>2. /\ report'[o] = [pc |-> "advance", match |-> report[o].match,
                       todo |-> Tail(report[o].todo), out |-> report[o].out]
      /\ \A p \in Officers : p # o => report'[p] = report[p]
      /\ report' = [p \in Officers |-> report'[p]]
    BY <1>1, Moved DEF IInv
<1>3. report[o].match \in DOMAIN match
    BY <1>1, ReportSteps DEF IInv
<1>4. x \in DOMAIN match => IsRow(row)
    BY <1>1 DEF IInv, ShapeInv
<1>5. /\ DOMAIN match' = DOMAIN match
      /\ match' = [y \in DOMAIN match |-> match'[y]]
      /\ \A y \in DOMAIN match : y # x => match'[y] = match[y]
      /\ x \in DOMAIN match => match'[x] = Filled(row, to[2], to[3])
    BY <1>1 DEF IInv, ShapeInv
<1>6. IsRow(row) => IsRow(Filled(row, to[2], to[3]))
                      /\ Filled(row, to[2], to[3]).status = row.status
  <2> SUFFICES ASSUME IsRow(row) PROVE IsRow(Filled(row, to[2], to[3]))
                      /\ Filled(row, to[2], to[3]).status = row.status
    OBVIOUS
  <2> HIDE DEF to, row
  <2>1. CASE to[2] = "a"
    BY <2>1 DEF IsRow, Filled
  <2>2. CASE to[2] # "a"
    BY <2>2 DEF IsRow, Filled
  <2> QED
    BY <2>1, <2>2
<1>7. raced \subseteq raced'
    BY <1>1
<1>8. \A y \in DOMAIN match : y \notin raced' => match'[y].status = match[y].status
    BY <1>1, <1>4, <1>5, <1>6
<1> HIDE DEF to, x, row
<1>9. ShapeInv'
  <2>1. \A y \in DOMAIN match : IsRow(match'[y])
    BY <1>4, <1>5, <1>6 DEF IInv, ShapeInv
  <2>2. ASSUME NEW p \in Officers
        PROVE  /\ IsReport(report'[p])
               /\ report'[p] # Idle => report'[p].match \in DOMAIN match
               /\ report'[p].pc = "write" /\ Head(report'[p].todo)[1] \in DOMAIN match
                    => IsRow(report'[p].row)
    <3>1. CASE p = o
      BY <1>2, <1>3, <3>1 DEF IsReport
    <3>2. CASE p # o
      BY <1>2, <3>2 DEF IInv, ShapeInv
    <3> QED
      BY <3>1, <3>2
  <2> QED
    BY <1>1, <1>2, <1>5, <2>1, <2>2 DEF IInv, ShapeInv
<1>10. DecidedInv'
    BY <1>1, <1>5, <1>7, <1>8 DEF IInv, DecidedInv
<1>11. raced' = {} => raced = {} /\ \A y \in DOMAIN match : match'[y].status = match[y].status
    BY <1>7, <1>8
<1>12. ASSUME raced' = {}, NEW p \in Officers PROVE SeenDone(p)'
  <2>1. CASE p = o
    BY <1>2, <2>1 DEF SeenDone
  <2>2. CASE p # o
    <3>1. SeenDone(p) /\ report'[p] = report[p]
      BY <1>2, <1>11, <1>12, <2>2 DEF IInv, SeenInv
    <3> QED
      BY <1>5, <1>11, <1>12, <3>1 DEF SeenDone, RoundDone, Done
  <2> QED
    BY <2>1, <2>2
<1>13. SeenInv'
    BY <1>12 DEF SeenInv
<1>14. ClosedIsDone'
    BY <1>1, <1>5, <1>11 DEF IInv, ClosedIsDone, Done
<1>15. FinishInv'
  <2>1. WillFinish(o)'
    BY <1>2 DEF WillFinish
  <2> QED
    BY <2>1 DEF FinishInv
<1>16. CloseInv'
  <2> SUFFICES ASSUME faults = 0, raced' = {}, NEW y \in DOMAIN match,
                      match'[y].status = "completed", RoundDone(y)'
               PROVE  RoundOf(y) \in rounds \/ \E p \in Officers : WillClose(p, y)'
    BY <1>1, <1>5 DEF CloseInv
  <2>1. match[y].status = "completed" /\ RoundDone(y) /\ raced = {}
    BY <1>5, <1>11 DEF RoundDone, Done
  <2>2. ASSUME NEW p \in Officers, WillClose(p, y) PROVE WillClose(p, y)'
    <3>1. CASE p = o
      BY <1>1, <1>2, <2>2, <3>1 DEF WillClose, Idle
    <3>2. CASE p # o
      BY <1>2, <2>2, <3>2 DEF WillClose
    <3> QED
      BY <3>1, <3>2
  <2> QED
    BY <2>1, <2>2 DEF IInv, CloseInv
<1> QED
    BY <1>9, <1>10, <1>13, <1>14, <1>15, <1>16 DEF IInv

-----------------------------------------------------------------------------
(* The invariant, and what follows from it. *)

\* A bracket that was just drawn is in order.
LEMMA InitIInv == Init => IInv
<1> SUFFICES ASSUME Init PROVE IInv
    OBVIOUS
<1>1. /\ field \in Fields /\ match = Generated(field.format, field.n)
      /\ rounds = {} /\ status = "in_progress" /\ faults = 0 /\ raced = {}
      /\ report = [o \in Officers |-> Idle] /\ decided = [m \in DOMAIN match |-> 0]
    BY DEF Init
<1>2. /\ match = [m \in DOMAIN match |-> match[m]]
      /\ \A m \in DOMAIN match : IsRow(match[m]) /\ match[m].status # "completed"
    BY <1>1 DEF Generated, IsRow
<1>3. ShapeInv
    BY <1>1, <1>2, TournamentAssumption DEF ShapeInv, IsReport, Idle
<1>4. DecidedInv /\ FinishInv
    BY <1>1 DEF DecidedInv, FinishInv, Fresh
<1>5. SeenInv /\ ClosedIsDone /\ CloseInv
    BY <1>1, <1>2 DEF SeenInv, SeenDone, ClosedIsDone, CloseInv, Idle
<1> QED
    BY <1>3, <1>4, <1>5 DEF IInv

\* Every step keeps the invariant.
LEMMA NextIInv == IInv /\ [Next]_vars => IInv'
<1> SUFFICES ASSUME IInv, [Next]_vars PROVE IInv'
    OBVIOUS
<1>1. CASE Next
  <2>1. PICK o \in Officers : ReportNext(o)
    BY <1>1 DEF Next, IInv, ShapeInv
  <2> QED
    BY <2>1, ValidateIInv, CasDecidesIInv, CasConflictIInv, SlotReadIInv, SlotWriteIInv,
       EliminateIInv, ListMatchesIInv, CloseRoundIInv, FinishIInv, StopIInv DEF ReportNext
<1>2. CASE UNCHANGED vars
    BY <1>2 DEF vars, IInv, ShapeInv, DecidedInv, SeenInv, SeenDone, RoundDone, Done,
       ClosedIsDone, FinishInv, Fresh, WillFinish, CloseInv, WillClose
<1> QED
    BY <1>1, <1>2

\* However many officers report a match of whatever bracket at the same time,
\* the compare-and-swap of report_match decides it once, unless its row was
\* written back from an older read.
THEOREM DecidesOnce == Spec => []DecidedOnce
<1>1. IInv => DecidedOnce
    BY DEF IInv, DecidedInv, DecidedOnce
<1> QED
    BY <1>1, InitIInv, NextIInv, PTL DEF Spec

\* A round and a tournament are completed on a list read before, but only
\* when they are done; and when the last reports cross, one of them sees
\* everything done and completes what the others left open.
THEOREM ClosesWhenDone == Spec => []ClosedWhenDone
<1>1. ASSUME IInv PROVE LastReportCloses
  <2> SUFFICES ASSUME AtRest, faults = 0, ~Fresh, \A m \in DOMAIN match : Done(m)
               PROVE  /\ status = "completed"
                      /\ raced = {} => \A m \in DOMAIN match :
                            match[m].status = "completed" => RoundOf(m) \in rounds
    BY DEF LastReportCloses
  <2>1. \A o \in Officers : ~WillFinish(o) /\ \A m : ~WillClose(o, m)
    BY DEF AtRest, WillFinish, WillClose, Idle
  <2>2. status = "completed"
    BY <1>1, <2>1 DEF IInv, FinishInv
  <2>3. \A m \in DOMAIN match : RoundDone(m)
    BY DEF RoundDone
  <2>4. raced = {} => \A m \in DOMAIN match :
            match[m].status = "completed" => RoundOf(m) \in rounds
    BY <1>1, <2>1, <2>3 DEF IInv, CloseInv
  <2> QED
    BY <2>2, <2>4
<1>2. IInv => ClosedWhenDone
    BY <1>1 DEF IInv, ClosedWhenDone
<1> QED
    BY <1>2, InitIInv, NextIInv, PTL DEF Spec

-----------------------------------------------------------------------------
(* The links of the brackets. *)

\* Fields have 2 to 64 participants, their trees 1 to 6 rounds.
LEMMA LogSizeBounds ==
    ASSUME NEW n \in 2 .. 64
    PROVE  LogSize(n) \in 1 .. 6
<1> DEFINE P(k) == 2^k >= n /\ (k = 0 \/ 2^(k - 1) < n)
<1>1. 2^0 = 1 /\ 2^1 = 2 /\ 2^2 = 4 /\ 2^3 = 8 /\ 2^4 = 16 /\ 2^5 = 32
      /\ 2^6 = 64
    BY Z3
<1>2. \E k \in 0 .. 6 : P(k)
  <2>1. CASE n <= 2
    BY <1>1, <2>1, P(1), 1 - 1 = 0
  <2>2. CASE n > 2 /\ n <= 4
    BY <1>1, <2>2, P(2), 2 - 1 = 1
  <2>3. CASE n > 4 /\ n <= 8
    BY <1>1, <2>3, P(3), 3 - 1 = 2
  <2>4. CASE n > 8 /\ n <= 16
    BY <1>1, <2>4, P(4), 4 - 1 = 3
  <2>5. CASE n > 16 /\ n <= 32
    BY <1>1, <2>5, P(5), 5 - 1 = 4
  <2>6. CASE n > 32
    BY <1>1, <2>6, P(6), 6 - 1 = 5
  <2> QED
    BY <2>1, <2>2, <2>3, <2>4, <2>5, <2>6
<1>3. LogSize(n) \in 0 .. 6 /\ P(LogSize(n))
    BY <1>2 DEF LogSize
<1>4. ~P(0)
    BY <1>1
<1> HIDE DEF P
<1> QED
    BY <1>3, <1>4

\* How many matches the losers rounds of these trees have.
LoserTable(k, q) ==
    LET d == k - q \div 2
    IN  IF d = 6 THEN 16 ELSE IF d = 5 THEN 8 ELSE IF d = 4 THEN 4
        ELSE IF d = 3 THEN 2 ELSE 1

LEMMA LoserCounts ==
    ASSUME NEW k \in 2 .. 6, NEW r \in 0 .. LoserRounds(k) - 1
    PROVE  LoserCount(k, r) = LoserTable(k, r)
<1> DEFINE Eq(count) == count = [q \in 0 .. r |->
                IF q = 0 THEN IF k > 2 THEN 2^(k - 2) ELSE 1
                ELSE IF (q - 1) % 2 = 1 THEN (count[q - 1] + 1) \div 2 ELSE count[q - 1]]
           table == [q \in 0 .. r |-> LoserTable(k, q)]
           count == CHOOSE c : Eq(c)
<1>1. LoserCount(k, r) = count[r]
    BY DEF LoserCount
<1>2. (IF k > 2 THEN 2^(k - 2) ELSE 1) = LoserTable(k, 0)
  <2>1. 2^1 = 2 /\ 2^2 = 4 /\ 2^3 = 8 /\ 2^4 = 16
    BY Z3
  <2>2. CASE k = 2
    BY <2>2 DEF LoserTable
  <2>3. CASE k = 3
    BY <2>1, <2>3, k - 2 = 1 DEF LoserTable
  <2>4. CASE k = 4
    BY <2>1, <2>4, k - 2 = 2 DEF LoserTable
  <2>5. CASE k = 5
    BY <2>1, <2>5, k - 2 = 3 DEF LoserTable
  <2>6. CASE k = 6
    BY <2>1, <2>6, k - 2 = 4 DEF LoserTable
  <2> QED
    BY <2>2, <2>3, <2>4, <2>5, <2>6
<1>3. r \in 0 .. 9
    BY DEF LoserRounds
<1>4. Eq(table)
  <2>1. ASSUME NEW q \in 0 .. r
        PROVE  LoserTable(k, q) =
                 IF q = 0 THEN IF k > 2 THEN 2^(k - 2) ELSE 1
                 ELSE IF (q - 1) % 2 = 1 THEN (table[q - 1] + 1) \div 2 ELSE table[q - 1]
    <3>1. CASE q = 0
      BY <1>2, <3>1
    <3>2. CASE q # 0
      <4>1. table[q - 1] = LoserTable(k, q - 1)
        BY <1>3, <3>2
      <4>2. q \in {1, 2, 3, 4, 5, 6, 7, 8, 9}
        BY <1>3, <3>2
      <4> HIDE DEF table
      <4> QED
        BY <3>2, <4>1, <4>2 DEF LoserTable
    <3> QED
      BY <3>1, <3>2
  <2> QED
    BY <2>1
<1>5. Eq(count)
    BY <1>4
<1> HIDE DEF count
<1>6. ASSUME NEW q \in 0 .. r
      PROVE  count[q] = IF q = 0 THEN IF k > 2 THEN 2^(k - 2) ELSE 1
                ELSE IF (q - 1) % 2 = 1 THEN (count[q - 1] + 1) \div 2 ELSE count[q - 1]
    BY <1>5
<1> HIDE DEF Eq
<1>7. count[0] = LoserTable(k, 0)
    BY <1>2, <1>3, <1>6
<1>8. r >= 1 => count[1] = LoserTable(k, 1)
    BY <1>3, <1>6, <1>7 DEF LoserTable
<1>9. r >= 2 => count[2] = LoserTable(k, 2)
    BY <1>3, <1>6, <1>8 DEF LoserTable
<1>10. r >= 3 => count[3] = LoserTable(k, 3)
    BY <1>3, <1>6, <1>9 DEF LoserTable
<1>11. r >= 4 => count[4] = LoserTable(k, 4)
    BY <1>3, <1>6, <1>10 DEF LoserTable
<1>12. r >= 5 => count[5] = LoserTable(k, 5)
    BY <1>3, <1>6, <1>11 DEF LoserTable
<1>13. r >= 6 => count[6] = LoserTable(k, 6)
    BY <1>3, <1>6, <1>12 DEF LoserTable
<1>14. r >= 7 => count[7] = LoserTable(k, 7)
    BY <1>3, <1>6, <1>13 DEF LoserTable
<1>15. r >= 8 => count[8] = LoserTable(k, 8)
    BY <1>3, <1>6, <1>14 DEF LoserTable
<1>16. r >= 9 => count[9] = LoserTable(k, 9)
    BY <1>3, <1>6, <1>15 DEF LoserTable
<1> QED
    BY <1>1, <1>3, <1>7, <1>8, <1>9, <1>10, <1>11, <1>12, <1>13, <1>14, <1>15, <1>16

\* The sizes of the rounds of a tree.
LEMMA Powers == 2^0 = 1 /\ 2^1 = 2 /\ 2^2 = 4 /\ 2^3 = 8 /\ 2^4 = 16 /\ 2^5 = 32
BY Z3

\* A position of a round and its half, a position of the next round.
LEMMA Halves ==
    ASSUME NEW d \in 0 .. 5, NEW i \in 0 .. 2^d - 1
    PROVE  /\ i \in Nat
           /\ d = 0 => i = 0
           /\ d # 0 => i \div 2 \in 0 .. 2^(d - 1) - 1
<1>1. CASE d = 0
    BY <1>1, Powers
<1>2. CASE d = 1
    BY <1>2, Powers, d - 1 = 0
<1>3. CASE d = 2
    BY <1>3, Powers, d - 1 = 1
<1>4. CASE d = 3
    BY <1>4, Powers, d - 1 = 2
<1>5. CASE d = 4
    BY <1>5, Powers, d - 1 = 3
<1>6. CASE d = 5
    BY <1>6, Powers, d - 1 = 4
<1> QED
    BY <1>1, <1>2, <1>3, <1>4, <1>5, <1>6

\* Half and side name the position.
LEMMA SidesApart ==
    ASSUME NEW i \in Nat, NEW j \in Nat, i \div 2 = j \div 2, Side(i) = Side(j)
    PROVE  i = j
<1>1. i % 2 \in {0, 1} /\ j % 2 \in {0, 1}
    OBVIOUS
<1>2. i % 2 = j % 2
    BY <1>1 DEF Side
<1> QED
    BY <1>2

\* The matches of a tree and of the losers rounds, one by one.
InTree(stage, k, f) ==
    /\ f = <<stage, f[2], f[3]>>
    /\ f[2] \in 0 .. k - 1
    /\ f[3] \in 0 .. 2^(k - 1 - f[2]) - 1

InLosers(k, f) ==
    /\ k \in 2 .. 6
    /\ f = <<"losers", f[2], f[3]>>
    /\ f[2] \in 0 .. LoserRounds(k) - 1
    /\ f[3] \in 0 .. LoserTable(k, f[2]) - 1

LEMMA TreeNames ==
    ASSUME NEW stage, NEW k \in 1 .. 6, NEW f
    PROVE  f \in TreeMatches(stage, k) <=> InTree(stage, k, f)
<1>1. ASSUME f \in TreeMatches(stage, k) PROVE InTree(stage, k, f)
  <2>1. PICK r \in 0 .. k - 1 : f \in Positions(stage, r, 2^(k - 1 - r))
    BY <1>1 DEF TreeMatches
  <2>2. PICK i \in 0 .. 2^(k - 1 - r) - 1 : f = <<stage, r, i>>
    BY <2>1 DEF Positions
  <2> QED
    BY <2>2 DEF InTree
<1>2. ASSUME InTree(stage, k, f) PROVE f \in TreeMatches(stage, k)
  <2>1. f \in Positions(stage, f[2], 2^(k - 1 - f[2]))
    BY <1>2 DEF InTree, Positions
  <2> QED
    BY <1>2, <2>1 DEF InTree, TreeMatches
<1> QED
    BY <1>1, <1>2

LEMMA LosersNames ==
    ASSUME NEW k \in 1 .. 6, NEW f
    PROVE  f \in UNION {Positions("losers", r, LoserCount(k, r)) : r \in 0 .. LoserRounds(k) - 1}
                <=> InLosers(k, f)
<1> DEFINE All == UNION {Positions("losers", r, LoserCount(k, r)) : r \in 0 .. LoserRounds(k) - 1}
<1>0. ASSUME NEW r \in 0 .. LoserRounds(k) - 1
      PROVE  k \in 2 .. 6 /\ LoserCount(k, r) = LoserTable(k, r)
  <2>1. k \in 2 .. 6
    BY <1>0 DEF LoserRounds
  <2> QED
    BY <2>1, LoserCounts
<1>1. ASSUME f \in All PROVE InLosers(k, f)
  <2>1. PICK r \in 0 .. LoserRounds(k) - 1 : f \in Positions("losers", r, LoserCount(k, r))
    BY <1>1
  <2>2. PICK i \in 0 .. LoserCount(k, r) - 1 : f = <<"losers", r, i>>
    BY <2>1 DEF Positions
  <2> QED
    BY <1>0, <2>2 DEF InLosers
<1>2. ASSUME InLosers(k, f) PROVE f \in All
  <2>1. f[2] \in 0 .. LoserRounds(k) - 1
    BY <1>2 DEF InLosers
  <2>2. f \in Positions("losers", f[2], LoserCount(k, f[2]))
    BY <1>0, <1>2, <2>1 DEF InLosers, Positions
  <2> QED
    BY <2>1, <2>2
<1> QED
    BY <1>1, <1>2

\* A slot of a match after the first round.
SlotOf(format, n, link) ==
    \E x \in Matches(format, n), s \in {"a", "b"} : link = <<x, s>> /\ ~FirstRound(x)

GrandFinal == <<"grand_final", 0, 0>>

\* Where the winners of a double elimination go, by the place of the match.
WinnerForm(k, f, link) ==
    \/ f[1] = "winners" /\ f[2] + 1 < k
          /\ link = <<<<"winners", f[2] + 1, f[3] \div 2>>, Side(f[3])>>
    \/ f[1] = "winners" /\ f[2] = k - 1 /\ f[3] = 0 /\ link = <<GrandFinal, "a">>
    \/ f[1] = "losers" /\ f[2] + 1 = LoserRounds(k) /\ f[3] = 0 /\ link = <<GrandFinal, "b">>
    \/ f[1] = "losers" /\ f[2] + 1 < LoserRounds(k) /\ f[2] % 2 = 0
          /\ link = <<<<"losers", f[2] + 1, f[3]>>, "b">>
    \/ f[1] = "losers" /\ f[2] + 1 < LoserRounds(k) /\ f[2] % 2 = 1
          /\ link = <<<<"losers", f[2] + 1, f[3] \div 2>>, Side(f[3])>>
    \/ link = Nowhere

\* ... and its losers.
LoserForm(k, f, link) ==
    \/ k = 1 /\ f[1] = "winners" /\ f[2] = 0 /\ f[3] = 0 /\ link = <<GrandFinal, "b">>
    \/ k > 1 /\ f[1] = "winners" /\ f[2] = 0
          /\ link = <<<<"losers", 0, f[3] \div 2>>, Side(f[3])>>
    \/ k > 1 /\ f[1] = "winners" /\ f[2] # 0
          /\ link = <<<<"losers", 2 * f[2] - 1, f[3]>>, "a">>
    \/ link = Nowhere

LEMMA DoubleNames ==
    ASSUME NEW n \in 2 .. 64, NEW f
    PROVE  f \in Matches("double_elim", n) <=>
             \/ InTree("winners", LogSize(n), f)
             \/ InLosers(LogSize(n), f)
             \/ f = GrandFinal
<1>1. PICK k \in 1 .. 6 : k = LogSize(n)
    BY LogSizeBounds
<1>2. Matches("double_elim", n) = TreeMatches("winners", k) \cup {GrandFinal}
            \cup UNION {Positions("losers", r, LoserCount(k, r)) : r \in 0 .. LoserRounds(k) - 1}
    BY <1>1 DEF Matches, GrandFinal
<1> QED
    BY <1>1, <1>2, TreeNames, LosersNames

LEMMA SingleNames ==
    ASSUME NEW n \in 2 .. 64, NEW f
    PROVE  f \in Matches("single_elim", n) <=> InTree("main", LogSize(n), f)
<1>1. LogSize(n) \in 1 .. 6
    BY LogSizeBounds
<1> QED
    BY <1>1, TreeNames DEF Matches

\* A position in a tree: the final has one, and each half is one of the next.
LEMMA TreeSteps ==
    ASSUME NEW k \in 1 .. 6, NEW stage, NEW f, InTree(stage, k, f)
    PROVE  /\ f[1] = stage /\ f[2] \in 0 .. k - 1 /\ f[3] \in Nat
           /\ f[2] = k - 1 => f[3] = 0
           /\ f[2] + 1 < k => InTree(stage, k, <<stage, f[2] + 1, f[3] \div 2>>)
<1>0. PICK r \in 0 .. k - 1 : r = f[2]
    BY DEF InTree
<1>1. PICK i \in 0 .. 2^(k - 1 - r) - 1 : f = <<stage, r, i>>
    BY <1>0 DEF InTree
<1>2. k - 1 - r \in 0 .. 5 /\ (k - 1 - r) - 1 = k - 1 - (r + 1)
    OBVIOUS
<1>3. i \in Nat /\ (k - 1 - r = 0 => i = 0)
       /\ (k - 1 - r # 0 => i \div 2 \in 0 .. 2^(k - 1 - (r + 1)) - 1)
    BY <1>2, Halves
<1>4. r + 1 < k => InTree(stage, k, <<stage, r + 1, i \div 2>>)
  <2> SUFFICES ASSUME r + 1 < k PROVE InTree(stage, k, <<stage, r + 1, i \div 2>>)
    OBVIOUS
  <2>1. r + 1 \in 0 .. k - 1 /\ i \div 2 \in 0 .. 2^(k - 1 - (r + 1)) - 1
    BY <1>3
  <2> QED
    BY <2>1 DEF InTree
<1> QED
    BY <1>1, <1>3, <1>4

LEMMA DoubleForms ==
    ASSUME NEW n \in 2 .. 64, NEW f \in Matches("double_elim", n)
    PROVE  /\ WinnerForm(LogSize(n), f, next_match("double_elim", n, f))
           /\ LoserForm(LogSize(n), f, loser_next_match("double_elim", n, f))
<1>1. PICK k \in 1 .. 6 : k = LogSize(n)
    BY LogSizeBounds
<1>2. CASE InTree("winners", k, f)
  <2>1. /\ f[1] = "winners" /\ f[2] \in 0 .. k - 1 /\ f[3] \in Nat
        /\ f[2] = k - 1 => f[3] = 0
        /\ f[2] + 1 < k => InTree("winners", k, <<"winners", f[2] + 1, f[3] \div 2>>)
    BY <1>2, TreeSteps
  <2>2. next_match("double_elim", n, f) =
            IF f[2] + 1 < k THEN <<<<"winners", f[2] + 1, f[3] \div 2>>, Side(f[3])>>
            ELSE <<GrandFinal, "a">>
    BY <1>1, <2>1 DEF next_match, NextInTree, GrandFinal
  <2>3. WinnerForm(k, f, next_match("double_elim", n, f))
    BY <2>1, <2>2 DEF WinnerForm
  <2>4. CASE k = 1
    <3>1. loser_next_match("double_elim", n, f) = <<GrandFinal, "b">>
      BY <1>1, <2>1, <2>4 DEF loser_next_match, GrandFinal
    <3> QED
      BY <1>1, <2>1, <2>3, <2>4, <3>1 DEF LoserForm
  <2>5. CASE k > 1 /\ f[2] = 0
    <3>1. loser_next_match("double_elim", n, f) = <<<<"losers", 0, f[3] \div 2>>, Side(f[3])>>
      BY <1>1, <2>1, <2>5 DEF loser_next_match
    <3> QED
      BY <1>1, <2>1, <2>3, <2>5, <3>1 DEF LoserForm
  <2>6. CASE k > 1 /\ f[2] # 0
    <3>1. loser_next_match("double_elim", n, f) = <<<<"losers", 2 * f[2] - 1, f[3]>>, "a">>
      BY <1>1, <2>1, <2>6 DEF loser_next_match, LoserRounds
    <3> QED
      BY <1>1, <2>1, <2>3, <2>6, <3>1 DEF LoserForm
  <2> QED
    BY <2>4, <2>5, <2>6
<1>3. CASE InLosers(k, f)
  <2>1. /\ k \in 2 .. 6 /\ f[1] = "losers" /\ f[2] \in 0 .. LoserRounds(k) - 1
        /\ f[3] \in 0 .. LoserTable(k, f[2]) - 1
    BY <1>3 DEF InLosers
  <2>2. LoserRounds(k) = 2 * (k - 1)
    BY <2>1 DEF LoserRounds
  <2>3. f[2] + 1 = LoserRounds(k) => f[3] = 0
    BY <2>1, <2>2 DEF LoserTable
  <2>4. next_match("double_elim", n, f) =
            IF f[2] + 1 = LoserRounds(k) THEN <<GrandFinal, "b">>
            ELSE IF f[2] % 2 = 0 THEN <<<<"losers", f[2] + 1, f[3]>>, "b">>
            ELSE <<<<"losers", f[2] + 1, f[3] \div 2>>, Side(f[3])>>
    BY <1>1, <2>1 DEF next_match, GrandFinal
  <2>5. f[2] % 2 \in {0, 1}
    BY <2>1, <2>2
  <2>6. WinnerForm(k, f, next_match("double_elim", n, f))
    BY <2>1, <2>2, <2>3, <2>4, <2>5 DEF WinnerForm
  <2>7. loser_next_match("double_elim", n, f) = Nowhere
    BY <2>1 DEF loser_next_match
  <2> QED
    BY <1>1, <2>6, <2>7 DEF LoserForm
<1>4. CASE f = GrandFinal
  <2>1. f[1] = "grand_final"
    BY <1>4 DEF GrandFinal
  <2>2. next_match("double_elim", n, f) = Nowhere /\ loser_next_match("double_elim", n, f) = Nowhere
    BY <2>1 DEF next_match, loser_next_match
  <2> QED
    BY <2>2 DEF WinnerForm, LoserForm
<1> QED
    BY <1>1, <1>2, <1>3, <1>4, DoubleNames

\* A winner and a loser of an elimination are advanced to a slot of a later
\* match of the bracket.
LEMMA DoubleSlots ==
    ASSUME NEW n \in 2 .. 64, NEW f \in Matches("double_elim", n),
           NEW link \in {next_match("double_elim", n, f), loser_next_match("double_elim", n, f)}
    PROVE  link = Nowhere \/ SlotOf("double_elim", n, link)
<1>1. PICK k \in 1 .. 6 : k = LogSize(n)
    BY LogSizeBounds
<1>2. WinnerForm(k, f, link) \/ LoserForm(k, f, link)
    BY <1>1, DoubleForms
<1>3. \A i : Side(i) \in {"a", "b"}
    BY DEF Side
<1>4. GrandFinal \in Matches("double_elim", n) /\ ~FirstRound(GrandFinal)
    BY DoubleNames DEF GrandFinal, FirstRound
<1>5. ASSUME NEW r, NEW i, InLosers(k, <<"losers", r, i>>)
      PROVE  <<"losers", r, i>> \in Matches("double_elim", n) /\ ~FirstRound(<<"losers", r, i>>)
    BY <1>1, <1>5, DoubleNames DEF FirstRound
<1>6. CASE InTree("winners", k, f)
  <2>1. /\ f[1] = "winners" /\ f[2] \in 0 .. k - 1 /\ f[3] \in Nat
        /\ f[2] + 1 < k => InTree("winners", k, <<"winners", f[2] + 1, f[3] \div 2>>)
    BY <1>6, TreeSteps
  <2>2. f[3] \in 0 .. 2^(k - 1 - f[2]) - 1
    BY <1>6 DEF InTree
  <2>3. CASE f[2] + 1 < k /\ link = <<<<"winners", f[2] + 1, f[3] \div 2>>, Side(f[3])>>
    <3>1. <<"winners", f[2] + 1, f[3] \div 2>> \in Matches("double_elim", n)
      BY <1>1, <2>1, <2>3, DoubleNames
    <3>2. ~FirstRound(<<"winners", f[2] + 1, f[3] \div 2>>)
      BY <2>1 DEF FirstRound
    <3> QED
      BY <1>3, <2>3, <3>1, <3>2 DEF SlotOf
  <2>4. CASE k > 1 /\ f[2] = 0 /\ link = <<<<"losers", 0, f[3] \div 2>>, Side(f[3])>>
    <3>1. f[3] \div 2 \in 0 .. LoserTable(k, 0) - 1
      <4>1. k = 2 => f[3] \in 0 .. 1
        BY <2>2, <2>4, Powers, k = 2 => k - 1 - f[2] = 1
      <4>2. k = 3 => f[3] \in 0 .. 3
        BY <2>2, <2>4, Powers, k = 3 => k - 1 - f[2] = 2
      <4>3. k = 4 => f[3] \in 0 .. 7
        BY <2>2, <2>4, Powers, k = 4 => k - 1 - f[2] = 3
      <4>4. k = 5 => f[3] \in 0 .. 15
        BY <2>2, <2>4, Powers, k = 5 => k - 1 - f[2] = 4
      <4>5. k = 6 => f[3] \in 0 .. 31
        BY <2>2, <2>4, Powers, k = 6 => k - 1 - f[2] = 5
      <4> QED
        BY <2>1, <2>4, <4>1, <4>2, <4>3, <4>4, <4>5 DEF LoserTable
    <3>2. InLosers(k, <<"losers", 0, f[3] \div 2>>)
      BY <2>4, <3>1 DEF InLosers, LoserRounds
    <3> QED
      BY <1>3, <1>5, <2>4, <3>2 DEF SlotOf
  <2>5. CASE k > 1 /\ f[2] # 0 /\ link = <<<<"losers", 2 * f[2] - 1, f[3]>>, "a">>
    <3>1. f[3] \in 0 .. LoserTable(k, 2 * f[2] - 1) - 1
      <4>1. PICK d \in 0 .. 5 : d = k - 1 - f[2]
        BY <2>1
      <4>2. f[3] \in 0 .. 2^d - 1
        BY <2>2, <4>1
      <4>3. /\ d = 0 => f[3] = 0
            /\ d = 1 => f[3] \in 0 .. 1
            /\ d = 2 => f[3] \in 0 .. 3
            /\ d = 3 => f[3] \in 0 .. 7
            /\ d = 4 => f[3] \in 0 .. 15
        <5>1. d = 0 => f[3] = 0
          BY <4>2, Powers
        <5>2. d = 1 => f[3] \in 0 .. 1
          BY <4>2, Powers
        <5>3. d = 2 => f[3] \in 0 .. 3
          BY <4>2, Powers
        <5>4. d = 3 => f[3] \in 0 .. 7
          BY <4>2, Powers
        <5>5. d = 4 => f[3] \in 0 .. 15
          BY <4>2, Powers
        <5> QED
          BY <5>1, <5>2, <5>3, <5>4, <5>5
      <4>4. (2 * f[2] - 1) \div 2 = f[2] - 1
        BY <2>1, <2>5
      <4>5. k - (2 * f[2] - 1) \div 2 = d + 2
        BY <2>1, <4>1, <4>4
      <4>6. d \in 0 .. 4
        BY <2>1, <2>5, <4>1
      <4> QED
        BY <4>3, <4>5, <4>6 DEF LoserTable
    <3>2. InLosers(k, <<"losers", 2 * f[2] - 1, f[3]>>)
      BY <2>1, <2>5, <3>1 DEF InLosers, LoserRounds
    <3> QED
      BY <1>5, <2>5, <3>2 DEF SlotOf
  <2>6. CASE link \in {<<GrandFinal, "a">>, <<GrandFinal, "b">>}
    BY <1>4, <2>6 DEF SlotOf
  <2>7. \/ f[2] + 1 < k /\ link = <<<<"winners", f[2] + 1, f[3] \div 2>>, Side(f[3])>>
        \/ k > 1 /\ f[2] = 0 /\ link = <<<<"losers", 0, f[3] \div 2>>, Side(f[3])>>
        \/ k > 1 /\ f[2] # 0 /\ link = <<<<"losers", 2 * f[2] - 1, f[3]>>, "a">>
        \/ link \in {<<GrandFinal, "a">>, <<GrandFinal, "b">>}
        \/ link = Nowhere
    BY <1>2, <2>1 DEF WinnerForm, LoserForm
  <2> QED
    BY <2>3, <2>4, <2>5, <2>6, <2>7
<1>7. CASE InLosers(k, f)
  <2>1. /\ k \in 2 .. 6 /\ f[1] = "losers" /\ f[2] \in 0 .. LoserRounds(k) - 1
        /\ f[3] \in 0 .. LoserTable(k, f[2]) - 1
    BY <1>7 DEF InLosers
  <2>2. LoserRounds(k) = 2 * (k - 1)
    BY <2>1 DEF LoserRounds
  <2>3. CASE /\ f[2] + 1 < LoserRounds(k) /\ f[2] % 2 = 0
             /\ link = <<<<"losers", f[2] + 1, f[3]>>, "b">>
    <3>1. f[3] \in 0 .. LoserTable(k, f[2] + 1) - 1
      BY <2>1, <2>2, <2>3 DEF LoserTable
    <3>2. InLosers(k, <<"losers", f[2] + 1, f[3]>>)
      BY <2>1, <2>2, <2>3, <3>1 DEF InLosers
    <3> QED
      BY <1>5, <2>3, <3>2 DEF SlotOf
  <2>4. CASE /\ f[2] + 1 < LoserRounds(k) /\ f[2] % 2 = 1
             /\ link = <<<<"losers", f[2] + 1, f[3] \div 2>>, Side(f[3])>>
    <3>1. f[3] \div 2 \in 0 .. LoserTable(k, f[2] + 1) - 1
      <4>1. PICK h : h = f[2] \div 2
        OBVIOUS
      <4>2. f[2] = 2 * h + 1 /\ h \in 0 .. k - 3 /\ (f[2] + 1) \div 2 = h + 1
        BY <2>1, <2>2, <2>4, <4>1
      <4>3. PICK d : d = k - f[2] \div 2
        OBVIOUS
      <4>4. d = k - h /\ k - (f[2] + 1) \div 2 = k - (h + 1)
        BY <4>1, <4>3, <4>2
      <4>5. d \in 3 .. 6 /\ k - (f[2] + 1) \div 2 = d - 1
        BY <2>1, <4>4, <4>2
      <4>6. f[3] \in 0 .. LoserTable(k, f[2]) - 1
        BY <2>1
      <4> QED
        BY <4>3, <4>5, <4>6 DEF LoserTable
    <3>2. InLosers(k, <<"losers", f[2] + 1, f[3] \div 2>>)
      BY <2>1, <2>2, <2>4, <3>1 DEF InLosers
    <3> QED
      BY <1>3, <1>5, <2>4, <3>2 DEF SlotOf
  <2>5. CASE link = <<GrandFinal, "b">>
    BY <1>4, <2>5 DEF SlotOf
  <2>6. CASE link = Nowhere
    BY <2>6
  <2> QED
    BY <1>2, <2>1, <2>3, <2>4, <2>5, <2>6 DEF WinnerForm, LoserForm
<1>8. CASE f = GrandFinal
    BY <1>2, <1>8 DEF WinnerForm, LoserForm, GrandFinal
<1> QED
    BY <1>1, <1>6, <1>7, <1>8, DoubleNames

\* No two results of a double elimination are advanced to the same slot.
LEMMA DoubleApart ==
    ASSUME NEW n \in 2 .. 64, NEW f \in Matches("double_elim", n),
           NEW g \in Matches("double_elim", n)
    PROVE  /\ /\ next_match("double_elim", n, f) = next_match("double_elim", n, g)
              /\ next_match("double_elim", n, f) # Nowhere
              => f = g
           /\ /\ loser_next_match("double_elim", n, f) = loser_next_match("double_elim", n, g)
              /\ loser_next_match("double_elim", n, f) # Nowhere
              => f = g
           /\ next_match("double_elim", n, f) = loser_next_match("double_elim", n, g)
              => next_match("double_elim", n, f) = Nowhere
<1>1. PICK k \in 1 .. 6 : k = LogSize(n)
    BY LogSizeBounds
<1>2. PICK wf : wf = next_match("double_elim", n, f)
    OBVIOUS
<1>3. PICK wg : wg = next_match("double_elim", n, g)
    OBVIOUS
<1>4. PICK lf : lf = loser_next_match("double_elim", n, f)
    OBVIOUS
<1>5. PICK lg : lg = loser_next_match("double_elim", n, g)
    OBVIOUS
<1>6. /\ WinnerForm(k, f, wf) /\ WinnerForm(k, g, wg)
      /\ LoserForm(k, f, lf) /\ LoserForm(k, g, lg)
    BY <1>1, <1>2, <1>3, <1>4, <1>5, DoubleForms
<1>7. ASSUME NEW h \in Matches("double_elim", n)
      PROVE  h = <<h[1], h[2], h[3]>> /\ h[2] \in Nat /\ h[3] \in Nat
  <2>1. CASE InTree("winners", k, h)
    BY <2>1, TreeSteps DEF InTree
  <2>2. CASE InLosers(k, h)
    BY <2>2 DEF InLosers, LoserTable, LoserRounds
  <2>3. CASE h = GrandFinal
    BY <2>3 DEF GrandFinal
  <2> QED
    BY <1>1, <2>1, <2>2, <2>3, DoubleNames
<1>8. LoserRounds(k) \in Nat /\ LoserRounds(k) % 2 = 0
    BY DEF LoserRounds
<1>9. /\ f = <<f[1], f[2], f[3]>> /\ f[2] \in Nat /\ f[3] \in Nat
      /\ g = <<g[1], g[2], g[3]>> /\ g[2] \in Nat /\ g[3] \in Nat
    BY <1>7
<1>10. f[3] \div 2 = g[3] \div 2 /\ Side(f[3]) = Side(g[3]) => f[3] = g[3]
    BY <1>9, SidesApart
<1>11. ASSUME wf = wg, wf # Nowhere PROVE f = g
    BY <1>6, <1>8, <1>9, <1>10, <1>11 DEF WinnerForm, GrandFinal
<1>12. ASSUME lf = lg, lf # Nowhere PROVE f = g
    BY <1>6, <1>9, <1>10, <1>12 DEF LoserForm, GrandFinal
<1>13. ASSUME wf = lg, wf # Nowhere PROVE FALSE
  <2>1. CASE k = 1 /\ lg = <<GrandFinal, "b">>
    <3>1. LoserRounds(k) = 0
      BY <2>1 DEF LoserRounds
    <3> QED
      BY <1>6, <1>9, <1>13, <2>1, <3>1 DEF WinnerForm, GrandFinal
  <2>2. CASE lg = <<<<"losers", 0, g[3] \div 2>>, Side(g[3])>>
    BY <1>6, <1>9, <1>13, <2>2 DEF WinnerForm, GrandFinal
  <2>3. CASE g[2] # 0 /\ lg = <<<<"losers", 2 * g[2] - 1, g[3]>>, "a">>
    <3>1. f[2] % 2 = 1 => f[2] + 1 # 2 * g[2] - 1
      BY <1>9
    <3> QED
      BY <1>6, <1>9, <1>13, <2>3, <3>1 DEF WinnerForm, GrandFinal
  <2> QED
    BY <1>6, <1>13, <2>1, <2>2, <2>3 DEF LoserForm
<1> QED
    BY <1>2, <1>3, <1>4, <1>5, <1>11, <1>12, <1>13

Formats == {"single_elim", "double_elim", "round_robin"}

\* A single elimination is one tree, and a round robin has no links.
LEMMA SingleForms ==
    ASSUME NEW n \in 2 .. 64, NEW f \in Matches("single_elim", n)
    PROVE  /\ f = <<"main", f[2], f[3]>> /\ f[2] \in Nat /\ f[3] \in Nat
           /\ loser_next_match("single_elim", n, f) = Nowhere
           /\ \/ next_match("single_elim", n, f) = Nowhere
              \/ /\ next_match("single_elim", n, f) =
                        <<<<"main", f[2] + 1, f[3] \div 2>>, Side(f[3])>>
                 /\ <<"main", f[2] + 1, f[3] \div 2>> \in Matches("single_elim", n)
<1>1. PICK k \in 1 .. 6 : k = LogSize(n)
    BY LogSizeBounds
<1>2. InTree("main", k, f)
    BY <1>1, SingleNames
<1>3. /\ f[1] = "main" /\ f[2] \in 0 .. k - 1 /\ f[3] \in Nat
      /\ f[2] = k - 1 => f[3] = 0
      /\ f[2] + 1 < k => InTree("main", k, <<"main", f[2] + 1, f[3] \div 2>>)
    BY <1>2, TreeSteps
<1>4. next_match("single_elim", n, f) =
        IF f[2] + 1 < k THEN <<<<"main", f[2] + 1, f[3] \div 2>>, Side(f[3])>> ELSE Nowhere
    BY <1>1, <1>3 DEF next_match, NextInTree
<1>5. loser_next_match("single_elim", n, f) = Nowhere
    BY DEF loser_next_match
<1>6. f[2] + 1 < k => <<"main", f[2] + 1, f[3] \div 2>> \in Matches("single_elim", n)
    BY <1>1, <1>3, SingleNames
<1>7. f = <<"main", f[2], f[3]>> /\ f[2] \in Nat
    BY <1>2, <1>3 DEF InTree
<1> QED
    BY <1>3, <1>4, <1>5, <1>6, <1>7

LEMMA RobinLinks ==
    ASSUME NEW n, NEW f
    PROVE  /\ next_match("round_robin", n, f) = Nowhere
           /\ loser_next_match("round_robin", n, f) = Nowhere
BY DEF next_match, loser_next_match

\* Whoever is advanced goes to a slot of a later match of the bracket.
LEMMA LinkSlots ==
    ASSUME NEW format \in Formats, NEW n \in 2 .. 64, NEW f \in Matches(format, n),
           NEW link \in {next_match(format, n, f), loser_next_match(format, n, f)}
    PROVE  link = Nowhere \/ SlotOf(format, n, link)
<1>1. CASE format = "double_elim"
    BY <1>1, DoubleSlots
<1>2. CASE format = "round_robin"
    BY <1>2, RobinLinks
<1>3. CASE format = "single_elim"
  <2>1. /\ f[2] \in Nat /\ f[3] \in Nat
        /\ loser_next_match("single_elim", n, f) = Nowhere
        /\ \/ next_match("single_elim", n, f) = Nowhere
           \/ /\ next_match("single_elim", n, f) =
                        <<<<"main", f[2] + 1, f[3] \div 2>>, Side(f[3])>>
              /\ <<"main", f[2] + 1, f[3] \div 2>> \in Matches("single_elim", n)
    BY <1>3, SingleForms
  <2>2. ~FirstRound(<<"main", f[2] + 1, f[3] \div 2>>) /\ Side(f[3]) \in {"a", "b"}
    BY <2>1 DEF FirstRound, Side
  <2> QED
    BY <1>3, <2>1, <2>2 DEF SlotOf
<1> QED
    BY <1>1, <1>2, <1>3 DEF Formats

\* No two results are advanced to the same slot.
LEMMA LinksApart ==
    ASSUME NEW format \in Formats, NEW n \in 2 .. 64,
           NEW f \in Matches(format, n), NEW g \in Matches(format, n)
    PROVE  /\ /\ next_match(format, n, f) = next_match(format, n, g)
              /\ next_match(format, n, f) # Nowhere
              => f = g
           /\ /\ loser_next_match(format, n, f) = loser_next_match(format, n, g)
              /\ loser_next_match(format, n, f) # Nowhere
              => f = g
           /\ next_match(format, n, f) = loser_next_match(format, n, g)
              => next_match(format, n, f) = Nowhere
<1>1. CASE format = "double_elim"
    BY <1>1, DoubleApart
<1>2. CASE format = "round_robin"
    BY <1>2, RobinLinks
<1>3. CASE format = "single_elim"
  <2>1. /\ loser_next_match("single_elim", n, f) = Nowhere
        /\ loser_next_match("single_elim", n, g) = Nowhere
    BY <1>3, SingleForms
  <2>2. ASSUME next_match("single_elim", n, f) = next_match("single_elim", n, g),
               next_match("single_elim", n, f) # Nowhere
        PROVE  f = g
    <3>1. /\ f = <<"main", f[2], f[3]>> /\ f[2] \in Nat /\ f[3] \in Nat
          /\ g = <<"main", g[2], g[3]>> /\ g[2] \in Nat /\ g[3] \in Nat
      BY <1>3, SingleForms
    <3>2. next_match("single_elim", n, f) = <<<<"main", f[2] + 1, f[3] \div 2>>, Side(f[3])>>
      BY <1>3, <2>2, SingleForms
    <3>3. next_match("single_elim", n, g) = <<<<"main", g[2] + 1, g[3] \div 2>>, Side(g[3])>>
      BY <1>3, <2>2, SingleForms
    <3>4. <<<<"main", f[2] + 1, f[3] \div 2>>, Side(f[3])>>
            = <<<<"main", g[2] + 1, g[3] \div 2>>, Side(g[3])>>
      BY <2>2, <3>2, <3>3
    <3>5. f[2] = g[2] /\ f[3] \div 2 = g[3] \div 2 /\ Side(f[3]) = Side(g[3])
      BY <3>1, <3>4
    <3> QED
      BY <3>1, <3>5, SidesApart
  <2> QED
    BY <1>3, <2>1, <2>2
<1> QED
    BY <1>1, <1>2, <1>3 DEF Formats

-----------------------------------------------------------------------------
(* Winners and losers reach their slots. *)

\* The winner or the loser of f goes to slot s of x.
Goes(f, x, s) ==
    <<x, s>> \in {next_match(field.format, field.n, f),
                  loser_next_match(field.format, field.n, f)}

Advancing(o) == report[o].pc \in {"advance", "write"}

Owes(todo, e) == \E i \in 1 .. Len(todo) : todo[i] = e

\* A request has at most the winner and the loser to advance, to two slots.
Short(todo) == \E d, e : todo \in {<<>>, <<d>>, <<d, e>>}

Apart(todo) ==
    \A i, j \in 1 .. Len(todo) :
        todo[i][1] = todo[j][1] /\ todo[i][2] = todo[j][2] => i = j

IsEntry(m, e) == e = <<e[1], e[2], e[3]>> /\ e[3] # NOBODY /\ Goes(m, e[1], e[2])

\* The request that decided m has yet to fill slot s of x, or to fill the slot
\* with p.
Fills(o, m, x, s) ==
    /\ Advancing(o) /\ report[o].match = m
    /\ \E i \in 1 .. Len(report[o].todo) :
          report[o].todo[i][1] = x /\ report[o].todo[i][2] = s

Due(o, m, link, p) ==
    Advancing(o) /\ report[o].match = m /\ Owes(report[o].todo, <<link[1], link[2], p>>)

TodoOK(o) ==
    /\ report[o].pc = "cas" => report[o].winner # NOBODY
    /\ report[o].pc = "write" => report[o].todo # <<>>
    /\ Advancing(o) =>
          /\ Short(report[o].todo) /\ Apart(report[o].todo)
          /\ \A i \in 1 .. Len(report[o].todo) : IsEntry(report[o].match, report[o].todo[i])
          /\ report[o].match \notin raced => match[report[o].match].status = "completed"

\* One request at a time advances from a match whose row did not go back.
OneRequest ==
    \A o, p \in Officers :
        /\ Advancing(o) /\ Advancing(p)
        /\ report[o].match = report[p].match /\ report[o].match \notin raced
        => o = p

\* A slot that is taken is not filled again, and what feeds it was decided or
\* is a bye.
SlotsInv ==
    \A f, x \in DOMAIN match, s \in {"a", "b"} :
        Goes(f, x, s) /\ f \notin raced /\ x \notin raced /\ match[x][s] # NOBODY =>
            /\ match[f].status # "pending"
            /\ \A o \in Officers : ~Fills(o, f, x, s)

\* A decided match has a winner and, unless it was decided early, two sides.
SidesInv ==
    \A m \in DOMAIN match : match[m].status = "completed" /\ m \notin raced =>
        /\ match[m].winner # NOBODY
        /\ m \notin early => match[m].a # NOBODY /\ match[m].b # NOBODY

\* p is where the link leads, or a request will put p there.
Settled(m, link, p) ==
    \/ link = Nowhere \/ link[1] \in raced
    \/ match[link[1]][link[2]] = p
    \/ \E o \in Officers : Due(o, m, link, p)

SettledInv ==
    \A m \in DOMAIN match :
        match[m].status = "completed" /\ m \notin raced /\ m \notin stopped =>
            /\ Settled(m, next_match(field.format, field.n, m), match[m].winner)
            /\ m \notin early /\ ~Refed(m) =>
                  Settled(m, loser_next_match(field.format, field.n, m),
                          Loser(m, match[m].winner))

AdvanceInv ==
    /\ DOMAIN match = Matches(field.format, field.n)
    /\ \A o \in Officers : TodoOK(o)
    /\ OneRequest /\ SlotsInv /\ SidesInv /\ SettledInv

\* Taking the first entry of a todo.
LEMMA Taken ==
    ASSUME NEW todo, Short(todo), Apart(todo), todo # <<>>
    PROVE  /\ Short(Tail(todo)) /\ Apart(Tail(todo))
           /\ Owes(todo, Head(todo))
           /\ \A i \in 1 .. Len(Tail(todo)) :
                /\ Owes(todo, Tail(todo)[i])
                /\ ~(/\ Tail(todo)[i][1] = Head(todo)[1]
                     /\ Tail(todo)[i][2] = Head(todo)[2])
           /\ \A e : Owes(todo, e) => e = Head(todo) \/ Owes(Tail(todo), e)
<1>1. PICK d, e : todo \in {<<d>>, <<d, e>>}
    BY DEF Short
<1>2. CASE todo = <<d>>
  <2>1. Head(todo) = d /\ Tail(todo) = <<>> /\ Len(todo) = 1 /\ todo[1] = d /\ Len(<<>>) = 0
    BY <1>2
  <2>2. Short(<<>>) /\ Apart(<<>>)
    BY DEF Short, Apart
  <2>3. \A i \in 1 .. Len(todo) : i = 1
    BY <2>1
  <2>4. 1 \in 1 .. Len(todo) /\ \A i : i \notin 1 .. Len(Tail(todo))
    BY <2>1
  <2>5. Owes(todo, Head(todo)) /\ \A x : Owes(todo, x) => x = Head(todo)
    BY <2>1, <2>3, <2>4 DEF Owes
  <2>6. \A i \in 1 .. Len(Tail(todo)) : FALSE
    BY <2>4
  <2> QED
    BY <2>1, <2>2, <2>5, <2>6
<1>3. CASE todo = <<d, e>>
  <2>1. /\ Head(todo) = d /\ Tail(todo) = <<e>> /\ Len(todo) = 2 /\ todo[1] = d /\ todo[2] = e
        /\ Len(<<e>>) = 1 /\ <<e>>[1] = e
    BY <1>3
  <2>2. Short(<<e>>)
    BY DEF Short
  <2>3. Apart(<<e>>)
    BY <2>1 DEF Apart
  <2>4. ~(e[1] = d[1] /\ e[2] = d[2])
    BY <2>1 DEF Apart
  <2>5. \A i \in 1 .. Len(<<e>>) : i = 1
    BY <2>1
  <2>6. \A i \in 1 .. Len(todo) : i = 1 \/ i = 2
    BY <2>1
  <2>7. 1 \in 1 .. Len(todo) /\ 2 \in 1 .. Len(todo) /\ 1 \in 1 .. Len(<<e>>)
    BY <2>1
  <2> QED
    BY <2>1, <2>2, <2>3, <2>4, <2>5, <2>6, <2>7 DEF Owes
<1> QED
    BY <1>1, <1>2, <1>3

\* The links of the tournament in the table: where a result goes is a slot of
\* the table, and no other result goes there.
LEMMA Links ==
    ASSUME ShapeInv, AdvanceInv, NEW f \in DOMAIN match
    PROVE  /\ \A x, s : Goes(f, x, s) =>
                x \in DOMAIN match /\ s \in {"a", "b"} /\ ~FirstRound(x)
           /\ \A g \in DOMAIN match : \A x, s : Goes(f, x, s) /\ Goes(g, x, s) => f = g
           /\ \A link \in {next_match(field.format, field.n, f),
                           loser_next_match(field.format, field.n, f)} :
                \/ link = Nowhere
                \/ link = <<link[1], link[2]>> /\ Goes(f, link[1], link[2])
           /\ next_match(field.format, field.n, f) = loser_next_match(field.format, field.n, f)
                => next_match(field.format, field.n, f) = Nowhere
<1>1. field.format \in Formats /\ field.n \in 2 .. 64
    BY TournamentAssumption DEF ShapeInv, Formats
<1>2. PICK format \in Formats, n \in 2 .. 64 : format = field.format /\ n = field.n
    BY <1>1
<1>3. DOMAIN match = Matches(format, n)
    BY <1>2 DEF AdvanceInv
<1>4. ASSUME NEW h \in Matches(format, n),
             NEW link \in {next_match(format, n, h), loser_next_match(format, n, h)}
      PROVE  link = Nowhere \/ SlotOf(format, n, link)
    BY <1>4, LinkSlots
<1>5. ASSUME NEW x, NEW s, Goes(f, x, s)
      PROVE  x \in DOMAIN match /\ s \in {"a", "b"} /\ ~FirstRound(x)
  <2>1. PICK link \in {next_match(format, n, f), loser_next_match(format, n, f)} : link = <<x, s>>
    BY <1>2, <1>5 DEF Goes
  <2>2. link # Nowhere
    BY <2>1 DEF Nowhere
  <2>3. PICK y \in Matches(format, n), t \in {"a", "b"} : link = <<y, t>> /\ ~FirstRound(y)
    BY <1>3, <1>4, <2>2 DEF SlotOf
  <2> QED
    BY <1>3, <2>1, <2>3
<1>6. ASSUME NEW g \in DOMAIN match, NEW x, NEW s, Goes(f, x, s), Goes(g, x, s)
      PROVE  f = g
  <2>1. <<x, s>> # Nowhere
    BY DEF Nowhere
  <2>2. /\ <<x, s>> \in {next_match(format, n, f), loser_next_match(format, n, f)}
        /\ <<x, s>> \in {next_match(format, n, g), loser_next_match(format, n, g)}
    BY <1>2, <1>6 DEF Goes
  <2> QED
    BY <1>3, <2>1, <2>2, LinksApart
<1>7. ASSUME NEW link \in {next_match(format, n, f), loser_next_match(format, n, f)},
             link # Nowhere
      PROVE  link = <<link[1], link[2]>> /\ Goes(f, link[1], link[2])
  <2>1. PICK y \in Matches(format, n), t \in {"a", "b"} : link = <<y, t>>
    BY <1>3, <1>4, <1>7 DEF SlotOf
  <2>2. link[1] = y /\ link[2] = t
    BY <2>1
  <2> QED
    BY <1>2, <2>1, <2>2 DEF Goes
<1>8. next_match(format, n, f) = loser_next_match(format, n, f)
        => next_match(format, n, f) = Nowhere
    BY <1>3, LinksApart
<1> QED
    BY <1>2, <1>5, <1>6, <1>7, <1>8

\* A step of a request that writes no match and forgets no entry of its todo
\* unless it is stopped keeps all this.
LEMMA AsideAdvance ==
    ASSUME ShapeInv, AdvanceInv, NEW o \in Officers,
           UNCHANGED <<field, match, raced, early>>, stopped \subseteq stopped',
           \A p \in Officers : p # o => report'[p] = report[p],
           report'[o].pc = "cas" => report'[o].winner # NOBODY,
           \/ /\ report'[o].pc \notin {"advance", "write"}
              /\ Advancing(o) => report[o].todo = <<>> \/ report[o].match \in stopped'
           \/ /\ Advancing(o) /\ report'[o].pc \in {"advance", "write"}
              /\ report'[o].match = report[o].match /\ report'[o].todo = report[o].todo
              /\ report'[o].pc = "write" => report[o].todo # <<>>
    PROVE  AdvanceInv'
<1>1. ASSUME NEW p \in Officers, report'[p].pc \in {"advance", "write"}
      PROVE  /\ Advancing(p) /\ report'[p].match = report[p].match
             /\ report'[p].todo = report[p].todo
             /\ report'[p].pc = "write" => report[p].todo # <<>>
    BY <1>1 DEF Advancing, AdvanceInv, TodoOK
<1>2. ASSUME NEW p \in Officers, Advancing(p), report[p].todo # <<>>,
             report[p].match \notin stopped'
      PROVE  /\ report'[p].pc \in {"advance", "write"} /\ report'[p].match = report[p].match
             /\ report'[p].todo = report[p].todo
    BY <1>2 DEF Advancing
<1>3. \A f, x, s : Goes(f, x, s)' <=> Goes(f, x, s)
    BY DEF Goes
<1>4. ASSUME NEW p \in Officers PROVE TodoOK(p)'
  <2>1. report'[p].pc = "cas" => report'[p].winner # NOBODY
    BY DEF AdvanceInv, TodoOK
  <2>2. CASE report'[p].pc \in {"advance", "write"}
    <3>1. TodoOK(p)
      BY DEF AdvanceInv
    <3>2. /\ Advancing(p) /\ report'[p].match = report[p].match
          /\ report'[p].todo = report[p].todo
          /\ report'[p].pc = "write" => report[p].todo # <<>>
      BY <1>1, <2>2
    <3>3. \A m, e : IsEntry(m, e)' <=> IsEntry(m, e)
      BY <1>3 DEF IsEntry
    <3> QED
      BY <2>1, <3>1, <3>2, <3>3 DEF TodoOK
  <2>3. CASE report'[p].pc \notin {"advance", "write"}
    BY <2>1, <2>3 DEF TodoOK, Advancing
  <2> QED
    BY <2>2, <2>3
<1>5. OneRequest'
    BY <1>1 DEF OneRequest, Advancing, AdvanceInv
<1>6. ASSUME NEW p \in Officers, NEW m, NEW x, NEW s, Fills(p, m, x, s)'
      PROVE  Fills(p, m, x, s)
    BY <1>1, <1>6 DEF Fills, Advancing
<1>7. SlotsInv'
    BY <1>3, <1>6 DEF SlotsInv, AdvanceInv
<1>8. SidesInv'
    BY DEF SidesInv, AdvanceInv
<1>9. ASSUME NEW m, NEW link, NEW v, m \notin stopped', Settled(m, link, v)
      PROVE  Settled(m, link, v)'
  <2>1. ASSUME NEW p \in Officers, Due(p, m, link, v)
        PROVE  Due(p, m, link, v)'
    <3>1. Advancing(p) /\ report[p].match = m /\ Owes(report[p].todo, <<link[1], link[2], v>>)
      BY <2>1 DEF Due
    <3>2. report[p].todo # <<>>
      <4>1. Len(<<>>) = 0
        OBVIOUS
      <4> QED
        BY <3>1, <4>1 DEF Owes
    <3> QED
      BY <1>2, <1>9, <3>1, <3>2 DEF Due, Advancing
  <2> QED
    BY <1>9, <2>1 DEF Settled
<1>10. SettledInv'
  <2>1. \A m : Refed(m)' <=> Refed(m)
    BY DEF Refed
  <2>2. \A m, v : Loser(m, v)' = Loser(m, v)
    BY DEF Loser
  <2> SUFFICES ASSUME NEW m \in DOMAIN match, match[m].status = "completed", m \notin raced,
                      m \notin stopped'
               PROVE  /\ Settled(m, next_match(field.format, field.n, m), match[m].winner)'
                      /\ m \notin early /\ ~Refed(m) =>
                            Settled(m, loser_next_match(field.format, field.n, m),
                                    Loser(m, match[m].winner))'
    BY <2>1, <2>2 DEF SettledInv
  <2>3. /\ Settled(m, next_match(field.format, field.n, m), match[m].winner)
        /\ m \notin early /\ ~Refed(m) =>
              Settled(m, loser_next_match(field.format, field.n, m),
                      Loser(m, match[m].winner))
    BY DEF AdvanceInv, SettledInv
  <2>4. PICK nx, lx, w, l : /\ nx = next_match(field.format, field.n, m)
                            /\ lx = loser_next_match(field.format, field.n, m)
                            /\ w = match[m].winner /\ l = Loser(m, match[m].winner)
    OBVIOUS
  <2>5. /\ Settled(m, nx, w)'
        /\ m \notin early /\ ~Refed(m) => Settled(m, lx, l)'
    BY <1>9, <2>3, <2>4
  <2> QED
    BY <2>2, <2>4, <2>5 DEF Settled, Due
<1> QED
    BY <1>4, <1>5, <1>7, <1>8, <1>10 DEF AdvanceInv

LEMMA AsidesAdvance ==
    ASSUME ShapeInv, AdvanceInv, NEW o \in Officers,
           \/ \E m \in DOMAIN match, w \in 1 .. field.n : Validate(o, m, w)
           \/ SlotRead(o) \/ Eliminate(o) \/ ListMatches(o) \/ CloseRound(o)
           \/ Finish(o) \/ Stop(o)
           \/ Cas(o) /\ ~CasPending(report[o].match)
    PROVE  AdvanceInv'
<1>1. CASE \E m \in DOMAIN match, w \in 1 .. field.n : Validate(o, m, w)
  <2>1. PICK m \in DOMAIN match, w \in 1 .. field.n : Validate(o, m, w)
    BY <1>1
  <2>2. /\ report[o].pc = "idle" /\ w # NOBODY
        /\ report' = [report EXCEPT ![o] = [pc |-> "cas", match |-> m, winner |-> w]]
        /\ UNCHANGED <<field, match, raced, early>> /\ stopped' = stopped
    BY <2>1 DEF Validate, InMatch, history
  <2>3. report'[o] = [pc |-> "cas", match |-> m, winner |-> w]
        /\ \A p \in Officers : p # o => report'[p] = report[p]
    BY <2>2, Moved
  <2> QED
    BY <2>2, <2>3, AsideAdvance DEF Advancing
<1>2. CASE SlotRead(o)
  <2>1. /\ report[o].pc = "advance" /\ report[o].todo # <<>>
        /\ report' = [report EXCEPT ![o] =
              [pc |-> "write", match |-> report[o].match, todo |-> report[o].todo,
               out |-> report[o].out, row |-> match[Head(report[o].todo)[1]]]]
        /\ UNCHANGED <<field, match, raced, early>> /\ stopped' = stopped
    BY <1>2 DEF SlotRead, history, ShapeInv
  <2>2. report'[o] = [pc |-> "write", match |-> report[o].match, todo |-> report[o].todo,
                      out |-> report[o].out, row |-> match[Head(report[o].todo)[1]]]
        /\ \A p \in Officers : p # o => report'[p] = report[p]
    BY <2>1, Moved
  <2>3. report'[o].pc = "write" /\ report'[o].match = report[o].match
        /\ report'[o].todo = report[o].todo
    BY <2>2
  <2> QED
    BY <2>1, <2>2, <2>3, AsideAdvance DEF Advancing
<1>3. CASE Eliminate(o) \/ CloseRound(o)
  <2>1. PICK pc \in {"list", "finish"} :
           /\ report[o].pc = "close" \/ (report[o].pc = "advance" /\ report[o].todo = <<>>)
           /\ report' = [report EXCEPT ![o] = [report[o] EXCEPT !.pc = pc]]
           /\ UNCHANGED <<field, match, raced, early>> /\ stopped \subseteq stopped'
    BY <1>3 DEF Eliminate, CloseRound, At, ShapeInv
  <2>2. report'[o] = [report[o] EXCEPT !.pc = pc]
        /\ \A p \in Officers : p # o => report'[p] = report[p]
    BY <2>1, Moved
  <2>3. report'[o].pc = pc
    <3>1. CASE report[o].pc = "close"
      <4>1. report[o] = [pc |-> report[o].pc, match |-> report[o].match,
                         round |-> report[o].round, all |-> report[o].all]
        BY <3>1, ReportSteps
      <4> QED
        BY <2>2, <4>1
    <3>2. CASE report[o].pc = "advance"
      <4>1. report[o] = [pc |-> report[o].pc, match |-> report[o].match,
                         todo |-> report[o].todo, out |-> report[o].out]
        BY <3>2, ReportSteps
      <4> QED
        BY <2>2, <4>1
    <3> QED
      BY <2>1, <3>1, <3>2
  <2> QED
    BY <2>1, <2>2, <2>3, AsideAdvance DEF Advancing
<1>4. CASE ListMatches(o)
  <2> DEFINE rec == [pc |-> "close", match |-> report[o].match,
                     round |-> RoundDone(report[o].match),
                     all |-> \A x \in DOMAIN match : Done(x)]
  <2>1. /\ report[o].pc = "list"
        /\ report' = [report EXCEPT ![o] = rec]
        /\ UNCHANGED <<field, match, raced, early>> /\ stopped' = stopped
    BY <1>4 DEF ListMatches, history, ShapeInv
  <2>2. rec.pc = "close"
    OBVIOUS
  <2> HIDE DEF rec
  <2>3. report'[o] = rec /\ \A p \in Officers : p # o => report'[p] = report[p]
    BY <2>1, Moved
  <2> QED
    BY <2>1, <2>2, <2>3, AsideAdvance DEF Advancing
<1>5. CASE Finish(o) \/ Stop(o) \/ (Cas(o) /\ ~CasPending(report[o].match))
  <2>1. /\ report[o].pc \notin {"advance", "write"} \/ report[o].match \in stopped'
        /\ report' = [report EXCEPT ![o] = Idle]
        /\ UNCHANGED <<field, match, raced, early>> /\ stopped \subseteq stopped'
    BY <1>5 DEF Finish, Stop, Cas, history
  <2>2. report'[o] = Idle /\ \A p \in Officers : p # o => report'[p] = report[p]
    BY <2>1, Moved
  <2>3. report'[o].pc = "idle"
    BY <2>2 DEF Idle
  <2> QED
    BY <2>1, <2>2, <2>3, AsideAdvance DEF Advancing
<1> QED
    BY <1>1, <1>2, <1>3, <1>4, <1>5

\* Two sequences of one entry make one of two.
LEMMA OneAndOne ==
    ASSUME NEW d, NEW e
    PROVE  <<d>> \o <<e>> = <<d, e>> /\ <<d>> \o <<>> = <<d>>
<1>1. <<d>> \in Seq({d, e}) /\ <<e>> \in Seq({d, e})
    OBVIOUS
<1>2. PICK t : t = <<d>> \o <<e>>
    OBVIOUS
<1>3. t \in Seq({d, e}) /\ Len(t) = 2
    BY <1>1, <1>2
<1>4. t[1] = d
    BY <1>1, <1>2
<1>5. t[2] = e
    BY <1>1, <1>2
<1>6. t = <<d, e>>
    BY <1>3, <1>4, <1>5
<1>7. <<d>> \o <<>> = <<d>>
    OBVIOUS
<1> QED
    BY <1>2, <1>6, <1>7

\* What a request has to advance when it has decided its match.
LEMMA AdvancementsShape ==
    ASSUME ShapeInv, AdvanceInv, NEW m \in DOMAIN match, NEW w, w # NOBODY
    PROVE  /\ Short(Advancements(m, w)) /\ Apart(Advancements(m, w))
           /\ \A i \in 1 .. Len(Advancements(m, w)) : IsEntry(m, Advancements(m, w)[i])
           /\ LET next == next_match(field.format, field.n, m)
              IN  next # Nowhere => Owes(Advancements(m, w), <<next[1], next[2], w>>)
           /\ LET drop == loser_next_match(field.format, field.n, m)
              IN  drop # Nowhere /\ Loser(m, w) # NOBODY
                     => Owes(Advancements(m, w), <<drop[1], drop[2], Loser(m, w)>>)
<1>1. PICK next, drop, l : /\ next = next_match(field.format, field.n, m)
                           /\ drop = loser_next_match(field.format, field.n, m)
                           /\ l = Loser(m, w)
    OBVIOUS
<1>2. PICK d : d = <<next[1], next[2], w>>
    OBVIOUS
<1>3. PICK e : e = <<drop[1], drop[2], l>>
    OBVIOUS
<1>4. Advancements(m, w) = (IF next = Nowhere THEN <<>> ELSE <<d>>)
                           \o (IF drop = Nowhere \/ l = NOBODY THEN <<>> ELSE <<e>>)
    BY <1>1, <1>2, <1>3 DEF Advancements
<1>5. next # Nowhere => IsEntry(m, d) /\ d[1] = next[1] /\ d[2] = next[2]
  <2>1. next # Nowhere => Goes(m, next[1], next[2])
    BY <1>1, Links
  <2> QED
    BY <1>2, <2>1 DEF IsEntry
<1>6. drop # Nowhere /\ l # NOBODY => IsEntry(m, e) /\ e[1] = drop[1] /\ e[2] = drop[2]
  <2>1. drop # Nowhere => Goes(m, drop[1], drop[2])
    BY <1>1, Links
  <2> QED
    BY <1>3, <2>1 DEF IsEntry
<1>7. next # Nowhere /\ drop # Nowhere => ~(next[1] = drop[1] /\ next[2] = drop[2])
    BY <1>1, Links
<1>8. \A t : Len(<<>>) = 0 /\ Len(<<t>>) = 1 /\ <<t>>[1] = t
    OBVIOUS
<1>9. CASE next = Nowhere /\ (drop = Nowhere \/ l = NOBODY)
  <2>1. Advancements(m, w) = <<>>
    BY <1>4, <1>9
  <2>2. Short(<<>>) /\ Apart(<<>>) /\ \A i \in 1 .. Len(<<>>) : FALSE
    BY <1>8 DEF Short, Apart
  <2> QED
    BY <1>1, <1>9, <2>1, <2>2
<1>10. CASE next # Nowhere /\ (drop = Nowhere \/ l = NOBODY)
  <2>1. Advancements(m, w) = <<d>>
    BY <1>4, <1>10, OneAndOne
  <2>2. Short(<<d>>) /\ Apart(<<d>>) /\ Owes(<<d>>, d) /\ \A i \in 1 .. Len(<<d>>) : i = 1
    BY <1>8 DEF Short, Apart, Owes
  <2> QED
    BY <1>1, <1>2, <1>5, <1>8, <1>10, <2>1, <2>2
<1>11. CASE next = Nowhere /\ ~(drop = Nowhere \/ l = NOBODY)
  <2>1. Advancements(m, w) = <<e>>
    BY <1>4, <1>11
  <2>2. Short(<<e>>) /\ Apart(<<e>>) /\ Owes(<<e>>, e) /\ \A i \in 1 .. Len(<<e>>) : i = 1
    BY <1>8 DEF Short, Apart, Owes
  <2> QED
    BY <1>1, <1>3, <1>6, <1>8, <1>11, <2>1, <2>2
<1>12. CASE next # Nowhere /\ ~(drop = Nowhere \/ l = NOBODY)
  <2>1. Advancements(m, w) = <<d, e>>
    BY <1>4, <1>12, OneAndOne
  <2>2. PICK t : t = <<d, e>>
    OBVIOUS
  <2>3. Len(t) = 2 /\ t[1] = d /\ t[2] = e /\ \A i \in 1 .. Len(t) : i = 1 \/ i = 2
    BY <2>2
  <2>4. 1 \in 1 .. Len(t) /\ 2 \in 1 .. Len(t)
    BY <2>3
  <2>5. Short(t) /\ Owes(t, d) /\ Owes(t, e)
    BY <2>2, <2>3, <2>4 DEF Short, Owes
  <2>6. Apart(t)
    BY <1>5, <1>6, <1>7, <1>12, <2>3 DEF Apart
  <2>7. \A i \in 1 .. Len(t) : IsEntry(m, t[i])
    BY <1>5, <1>6, <1>12, <2>3
  <2> QED
    BY <1>1, <1>2, <1>3, <2>1, <2>2, <2>5, <2>6, <2>7
<1> QED
    BY <1>9, <1>10, <1>11, <1>12

\* The compare-and-swap: the match has a winner, and its request owes both
\* advancements.
LEMMA CasAdvance ==
    ASSUME ShapeInv, AdvanceInv, NEW o \in Officers, Cas(o), CasPending(report[o].match)
    PROVE  AdvanceInv'
<1>1. PICK m, w : m = report[o].match /\ w = report[o].winner
    OBVIOUS
<1>2. PICK todo : todo = Advancements(m, w)
    OBVIOUS
<1>3. /\ report[o].pc = "cas"
      /\ match' = [match EXCEPT ![m].status = "completed", ![m].winner = w]
      /\ report' = [report EXCEPT ![o] =
             [pc |-> "advance", match |-> m, todo |-> todo, out |-> OutOfCup(m, w)]]
      /\ early' = IF NOBODY \in {match[m].a, match[m].b} THEN early \cup {m} ELSE early
      /\ UNCHANGED <<field, raced, stopped>>
    BY <1>1, <1>2 DEF Cas
<1>4. /\ report'[o] = [pc |-> "advance", match |-> m, todo |-> todo, out |-> OutOfCup(m, w)]
      /\ \A p \in Officers : p # o => report'[p] = report[p]
    BY <1>3, Moved
<1>5. report'[o].pc = "advance" /\ report'[o].match = m /\ report'[o].todo = todo
    BY <1>4
<1>6. m \in DOMAIN match /\ w # NOBODY
    BY <1>1, <1>3, ReportSteps DEF AdvanceInv, TodoOK
<1>7. IsRow(match[m]) /\ match[m].status = "pending"
    BY <1>1, <1>6 DEF ShapeInv, CasPending
<1>8. /\ DOMAIN match' = DOMAIN match
      /\ \A x \in DOMAIN match : x # m => match'[x] = match[x]
      /\ match'[m] = [a |-> match[m].a, b |-> match[m].b, status |-> "completed", winner |-> w]
    BY <1>3, <1>6, <1>7 DEF ShapeInv, IsRow
<1>9. /\ match'[m].a = match[m].a /\ match'[m].b = match[m].b
      /\ match'[m].status = "completed" /\ match'[m].winner = w
    BY <1>8
<1>10. \A x \in DOMAIN match, s \in {"a", "b"} : match'[x][s] = match[x][s]
    BY <1>8, <1>9
<1>11. \A f, x, s : Goes(f, x, s)' <=> Goes(f, x, s)
    BY <1>3 DEF Goes
<1>12. /\ Short(todo) /\ Apart(todo) /\ \A i \in 1 .. Len(todo) : IsEntry(m, todo[i])
    BY <1>2, <1>6, AdvancementsShape
<1>13. \A p \in Officers : Advancing(p) /\ report[p].match \notin raced => report[p].match # m
    BY <1>7 DEF AdvanceInv, TodoOK
<1>14. ~Advancing(o)
    BY <1>3 DEF Advancing
<1>15. ASSUME NEW p \in Officers PROVE TodoOK(p)'
  <2>1. \A x, e : IsEntry(x, e)' <=> IsEntry(x, e)
    BY <1>11 DEF IsEntry
  <2>2. CASE p = o
    BY <1>3, <1>5, <1>9, <1>12, <2>1, <2>2 DEF TodoOK
  <2>3. CASE p # o
    <3>1. TodoOK(p) /\ report'[p] = report[p]
      BY <1>4, <2>3 DEF AdvanceInv
    <3>2. /\ report[p].pc # "idle" => report[p].match \in DOMAIN match
      BY ReportSteps
    <3>3. Advancing(p) /\ report[p].match \notin raced
            => match'[report[p].match].status = "completed"
      BY <1>8, <1>9, <3>1, <3>2 DEF TodoOK, Advancing
    <3> QED
      BY <1>3, <2>1, <3>1, <3>3 DEF TodoOK, Advancing
  <2> QED
    BY <2>2, <2>3
<1>16. OneRequest'
  <2> SUFFICES ASSUME NEW p \in Officers, NEW q \in Officers,
                      report'[p].pc \in {"advance", "write"},
                      report'[q].pc \in {"advance", "write"},
                      report'[p].match = report'[q].match, report'[p].match \notin raced
               PROVE  p = q
    BY <1>3 DEF OneRequest, Advancing
  <2>1. CASE p # o /\ q # o
    BY <1>4, <2>1 DEF AdvanceInv, OneRequest, Advancing
  <2>2. CASE p = o /\ q # o
    BY <1>4, <1>5, <1>13, <2>2 DEF Advancing
  <2>3. CASE p # o /\ q = o
    BY <1>4, <1>5, <1>13, <2>3 DEF Advancing
  <2> QED
    BY <2>1, <2>2, <2>3
<1>17. SlotsInv'
  <2>3. raced' = raced /\ DOMAIN match' = DOMAIN match
    BY <1>3, <1>8
  <2> SUFFICES ASSUME NEW f \in DOMAIN match, NEW x \in DOMAIN match, NEW s \in {"a", "b"},
                      Goes(f, x, s)', f \notin raced, x \notin raced, match'[x][s] # NOBODY
               PROVE  /\ match'[f].status # "pending"
                      /\ \A p \in Officers : ~Fills(p, f, x, s)'
    BY <2>3, Zenon DEF SlotsInv
  <2>0. Goes(f, x, s) /\ match[x][s] # NOBODY
    BY <1>10, <1>11
  <2>1. match[f].status # "pending" /\ \A p \in Officers : ~Fills(p, f, x, s)
    BY <2>0 DEF AdvanceInv, SlotsInv
  <2>2. f # m
    BY <1>7, <2>1
  <2>4. \A p \in Officers : ~Fills(p, f, x, s)'
    BY <1>4, <1>5, <2>1, <2>2 DEF Fills, Advancing
  <2> QED
    BY <1>8, <2>1, <2>2, <2>4
<1>18. SidesInv'
  <2> SUFFICES ASSUME NEW x \in DOMAIN match, match'[x].status = "completed", x \notin raced
               PROVE  /\ match'[x].winner # NOBODY
                      /\ x \notin early' => match'[x].a # NOBODY /\ match'[x].b # NOBODY
    BY <1>3, <1>8 DEF SidesInv
  <2>1. CASE x = m
    BY <1>3, <1>6, <1>9, <2>1
  <2>2. CASE x # m
    BY <1>3, <1>8, <2>2 DEF AdvanceInv, SidesInv
  <2> QED
    BY <2>1, <2>2
<1>19. ASSUME NEW x \in DOMAIN match, NEW p,
              NEW link \in {next_match(field.format, field.n, x),
                            loser_next_match(field.format, field.n, x)},
              Settled(x, link, p)
       PROVE  Settled(x, link, p)'
  <2>1. link # Nowhere => link[1] \in DOMAIN match /\ link[2] \in {"a", "b"}
    BY Links
  <2>2. ASSUME NEW q \in Officers, Due(q, x, link, p) PROVE Due(q, x, link, p)'
    BY <1>4, <1>14, <2>2 DEF Due, Advancing
  <2> QED
    BY <1>3, <1>10, <1>19, <2>1, <2>2 DEF Settled
<1>20. SettledInv'
  <2>1. \A x : Refed(x)' <=> Refed(x)
    BY <1>3 DEF Refed
  <2>2. \A x \in DOMAIN match : \A v : Loser(x, v)' = Loser(x, v)
    BY <1>8, <1>9 DEF Loser
  <2> SUFFICES ASSUME NEW x \in DOMAIN match, match'[x].status = "completed", x \notin raced,
                      x \notin stopped
               PROVE  /\ Settled(x, next_match(field.format, field.n, x), match[x].winner)'
                      /\ x \notin early' /\ ~Refed(x) =>
                            Settled(x, loser_next_match(field.format, field.n, x),
                                    Loser(x, match[x].winner))'
    BY <1>3, <1>8, <2>1 DEF SettledInv
  <2>3. PICK nx, lx : /\ nx = next_match(field.format, field.n, x)
                      /\ lx = loser_next_match(field.format, field.n, x)
    OBVIOUS
  <2>4. PICK v, l : v = match'[x].winner /\ l = Loser(x, v)
    OBVIOUS
  <2>5. CASE x = m
    <3>1. v = w /\ l = Loser(m, w)
      BY <1>9, <2>4, <2>5
    <3>2. nx # Nowhere => Due(o, x, nx, v)'
      BY <1>2, <1>5, <1>6, <2>3, <2>5, <3>1, AdvancementsShape DEF Due, Advancing
    <3>3. m \notin early' => l # NOBODY
      BY <1>3, <3>1 DEF Loser
    <3>4. lx # Nowhere /\ l # NOBODY => Due(o, x, lx, l)'
      BY <1>2, <1>5, <1>6, <2>3, <2>5, <3>1, AdvancementsShape DEF Due, Advancing
    <3>5. Settled(x, nx, v)' /\ (x \notin early' => Settled(x, lx, l)')
      BY <2>5, <3>2, <3>3, <3>4 DEF Settled
    <3> QED
      BY <1>3, <2>2, <2>3, <2>4, <3>5 DEF Settled, Due
  <2>6. CASE x # m
    <3>1. match'[x] = match[x] /\ (x \notin early' => x \notin early)
      BY <1>3, <1>8, <2>6
    <3>2. Settled(x, nx, v) /\ (x \notin early /\ ~Refed(x) => Settled(x, lx, l))
      BY <2>3, <2>4, <3>1 DEF AdvanceInv, SettledInv
    <3>3. Settled(x, nx, v)' /\ (x \notin early' /\ ~Refed(x) => Settled(x, lx, l)')
      BY <1>19, <2>3, <3>1, <3>2
    <3> QED
      BY <1>3, <2>2, <2>3, <2>4, <3>3 DEF Settled, Due
  <2> QED
    BY <2>5, <2>6
<1> QED
    BY <1>3, <1>8, <1>15, <1>16, <1>17, <1>18, <1>20 DEF AdvanceInv

\* The write fills the slot of the first entry: no other request fills it, and
\* a slot of a match that was played with both sides is not written again.
LEMMA SlotWriteAdvance ==
    ASSUME ShapeInv, AdvanceInv, NEW o \in Officers, SlotWrite(o)
    PROVE  AdvanceInv'
<1>1. PICK m, todo, row : m = report[o].match /\ todo = report[o].todo /\ row = report[o].row
    OBVIOUS
<1>2. PICK e : e = Head(todo)
    OBVIOUS
<1>3. PICK y, t, p : y = e[1] /\ t = e[2] /\ p = e[3]
    OBVIOUS
<1>4. /\ report[o].pc = "write"
      /\ match' = [match EXCEPT ![y] = Filled(row, t, p)]
      /\ raced' = IF match[y] = row THEN raced ELSE raced \cup {y}
      /\ report' = [report EXCEPT ![o] =
             [pc |-> "advance", match |-> m, todo |-> Tail(todo), out |-> report[o].out]]
      /\ UNCHANGED <<field, early, stopped>>
    BY <1>1, <1>2, <1>3 DEF SlotWrite, ShapeInv
<1>5. /\ report'[o] = [pc |-> "advance", match |-> m, todo |-> Tail(todo), out |-> report[o].out]
      /\ \A q \in Officers : q # o => report'[q] = report[q]
    BY <1>4, Moved
<1>6. report'[o].pc = "advance" /\ report'[o].match = m /\ report'[o].todo = Tail(todo)
    BY <1>5
<1>7. /\ m \in DOMAIN match /\ Advancing(o) /\ todo # <<>> /\ Short(todo) /\ Apart(todo)
      /\ \A i \in 1 .. Len(todo) : IsEntry(m, todo[i])
      /\ m \notin raced => match[m].status = "completed"
    BY <1>1, <1>4, ReportSteps DEF AdvanceInv, TodoOK, Advancing
<1>8. /\ Short(Tail(todo)) /\ Apart(Tail(todo)) /\ Owes(todo, e)
      /\ \A i \in 1 .. Len(Tail(todo)) :
            Owes(todo, Tail(todo)[i]) /\ ~(Tail(todo)[i][1] = y /\ Tail(todo)[i][2] = t)
      /\ \A d : Owes(todo, d) => d = e \/ Owes(Tail(todo), d)
    BY <1>2, <1>3, <1>7, Taken
<1>9. \A d : Owes(todo, d) => IsEntry(m, d)
    BY <1>7 DEF Owes
<1>10. e = <<y, t, p>> /\ p # NOBODY /\ Goes(m, y, t)
    BY <1>3, <1>8, <1>9 DEF IsEntry
<1>11. y \in DOMAIN match /\ t \in {"a", "b"} /\ ~FirstRound(y)
    BY <1>7, <1>10, Links
<1>12. Fills(o, m, y, t)
    BY <1>1, <1>3, <1>7, <1>8 DEF Fills, Owes
<1>13. IsRow(row)
    BY <1>1, <1>2, <1>3, <1>4, <1>11 DEF ShapeInv
<1>14. /\ DOMAIN match' = DOMAIN match
       /\ \A x \in DOMAIN match : x # y => match'[x] = match[x]
       /\ match'[y] = Filled(row, t, p)
    BY <1>4, <1>11 DEF ShapeInv
<1>15. /\ raced \subseteq raced'
       /\ y \notin raced' => row = match[y]
    BY <1>4
<1>16. y \notin raced' =>
            /\ match'[y].status = match[y].status /\ match'[y].winner = match[y].winner
            /\ match'[y][t] = p
            /\ \A s \in {"a", "b"} : s # t => match'[y][s] = match[y][s]
  <2> SUFFICES ASSUME y \notin raced'
               PROVE  /\ match'[y].status = match[y].status /\ match'[y].winner = match[y].winner
                      /\ match'[y][t] = p
                      /\ \A s \in {"a", "b"} : s # t => match'[y][s] = match[y][s]
    OBVIOUS
  <2>1. row = match[y] /\ match'[y] = Filled(row, t, p)
    BY <1>14, <1>15
  <2>2. CASE t = "a"
    <3>1. match'[y] = [a |-> p, b |-> row.b, status |-> row.status, winner |-> row.winner]
      BY <1>13, <2>1, <2>2 DEF Filled, IsRow
    <3> QED
      BY <2>1, <2>2, <3>1
  <2>3. CASE t = "b"
    <3>1. match'[y] = [a |-> row.a, b |-> p, status |-> row.status, winner |-> row.winner]
      BY <1>13, <2>1, <2>3 DEF Filled, IsRow
    <3> QED
      BY <2>1, <2>3, <3>1
  <2> QED
    BY <1>11, <2>2, <2>3
<1>17. \A x \in DOMAIN match : x \notin raced' =>
            match'[x].status = match[x].status /\ match'[x].winner = match[x].winner
    BY <1>14, <1>16
<1>18. \A x \in DOMAIN match, s \in {"a", "b"} : x \notin raced' /\ ~(x = y /\ s = t) =>
            match'[x][s] = match[x][s]
    BY <1>14, <1>16
<1>19. \A f, x, s : Goes(f, x, s)' <=> Goes(f, x, s)
    BY <1>4 DEF Goes
<1>20. ASSUME NEW q \in Officers PROVE TodoOK(q)'
  <2>1. \A x, d : IsEntry(x, d)' <=> IsEntry(x, d)
    BY <1>19 DEF IsEntry
  <2>2. CASE q = o
    <3>1. \A i \in 1 .. Len(Tail(todo)) : IsEntry(m, Tail(todo)[i])
      BY <1>8, <1>9
    <3>2. m \notin raced' => match'[m].status = "completed"
      BY <1>7, <1>15, <1>17
    <3> QED
      BY <1>6, <1>8, <2>1, <2>2, <3>1, <3>2 DEF TodoOK
  <2>3. CASE q # o
    <3>1. TodoOK(q) /\ report'[q] = report[q]
      BY <1>5, <2>3 DEF AdvanceInv
    <3>2. /\ report[q].pc # "idle" => report[q].match \in DOMAIN match
      BY ReportSteps
    <3>3. Advancing(q) /\ report[q].match \notin raced'
            => match'[report[q].match].status = "completed"
      BY <1>15, <1>17, <3>1, <3>2 DEF TodoOK, Advancing
    <3> QED
      BY <2>1, <3>1, <3>3 DEF TodoOK, Advancing
  <2> QED
    BY <2>2, <2>3
<1>21. ASSUME NEW q \in Officers
       PROVE  /\ Advancing(q)' <=> Advancing(q)
              /\ Advancing(q) => report'[q].match = report[q].match
    BY <1>1, <1>5, <1>6, <1>7 DEF Advancing
<1>22. OneRequest'
    BY <1>15, <1>21 DEF OneRequest, AdvanceInv
<1>23. ASSUME NEW q \in Officers, NEW f, NEW x, NEW s, Fills(q, f, x, s)'
       PROVE  Fills(q, f, x, s) /\ (q = o => ~(x = y /\ s = t))
  <2>1. CASE q = o
    <3>1. PICK i \in 1 .. Len(Tail(todo)) : Tail(todo)[i][1] = x /\ Tail(todo)[i][2] = s
      BY <1>6, <1>23, <2>1 DEF Fills
    <3>2. PICK j \in 1 .. Len(todo) : todo[j] = Tail(todo)[i]
      BY <1>8 DEF Owes
    <3>3. f = m
      BY <1>6, <1>23, <2>1 DEF Fills
    <3> QED
      BY <1>1, <1>7, <1>8, <2>1, <3>1, <3>2, <3>3 DEF Fills
  <2>2. CASE q # o
    BY <1>5, <1>23, <2>2 DEF Fills, Advancing
  <2> QED
    BY <2>1, <2>2
<1>24. SlotsInv'
  <2>1. DOMAIN match' = DOMAIN match
    BY <1>14
  <2> SUFFICES ASSUME NEW f \in DOMAIN match, NEW x \in DOMAIN match, NEW s \in {"a", "b"},
                      Goes(f, x, s)', f \notin raced', x \notin raced', match'[x][s] # NOBODY
               PROVE  /\ match'[f].status # "pending"
                      /\ \A q \in Officers : ~Fills(q, f, x, s)'
    BY <2>1, Zenon DEF SlotsInv
  <2>2. Goes(f, x, s) /\ f \notin raced /\ x \notin raced
    BY <1>15, <1>19
  <2>3. CASE x = y /\ s = t
    <3>1. f = m
      BY <1>7, <1>10, <2>2, <2>3, Links
    <3>2. match'[f].status = "completed"
      BY <1>7, <1>17, <2>2, <3>1
    <3>3. ASSUME NEW q \in Officers, Fills(q, f, x, s)' PROVE FALSE
      <4>1. Fills(q, f, x, s) /\ q # o
        BY <1>23, <2>3, <3>3
      <4>2. Advancing(q) /\ report[q].match = m
        BY <3>1, <4>1 DEF Fills
      <4> QED
        BY <1>1, <1>7, <2>2, <3>1, <4>1, <4>2 DEF AdvanceInv, OneRequest
    <3> QED
      BY <3>2, <3>3
  <2>4. CASE ~(x = y /\ s = t)
    <3>1. match[x][s] # NOBODY
      BY <1>18, <2>4
    <3>2. match[f].status # "pending" /\ \A q \in Officers : ~Fills(q, f, x, s)
      BY <2>2, <3>1 DEF AdvanceInv, SlotsInv
    <3> QED
      BY <1>17, <1>23, <3>2
  <2> QED
    BY <2>3, <2>4
<1>25. SidesInv'
  <2> SUFFICES ASSUME NEW x \in DOMAIN match, match'[x].status = "completed", x \notin raced'
               PROVE  /\ match'[x].winner # NOBODY
                      /\ x \notin early => match'[x].a # NOBODY /\ match'[x].b # NOBODY
    BY <1>4, <1>14 DEF SidesInv
  <2>1. /\ match[x].winner # NOBODY
        /\ x \notin early => match[x].a # NOBODY /\ match[x].b # NOBODY
    BY <1>15, <1>17 DEF AdvanceInv, SidesInv
  <2>2. match'[x].winner # NOBODY
    BY <1>17, <2>1
  <2>3. ASSUME NEW s \in {"a", "b"}, x \notin early PROVE match'[x][s] # NOBODY
    <3>1. CASE x = y /\ s = t
      BY <1>10, <1>16, <3>1
    <3>2. CASE ~(x = y /\ s = t)
      <4>1. match[x][s] # NOBODY
        BY <2>1, <2>3
      <4> QED
        BY <1>18, <3>2, <4>1
    <3> QED
      BY <3>1, <3>2
  <2> QED
    BY <2>2, <2>3
<1>26. ASSUME NEW x \in DOMAIN match, NEW v, v # NOBODY, x \notin raced',
              NEW link \in {next_match(field.format, field.n, x),
                            loser_next_match(field.format, field.n, x)},
              Settled(x, link, v)
       PROVE  Settled(x, link, v)'
  <2>1. CASE link = Nowhere \/ link[1] \in raced'
    BY <2>1 DEF Settled
  <2>2. CASE link # Nowhere /\ link[1] \notin raced'
    <3>1. PICK z, s : z = link[1] /\ s = link[2]
      OBVIOUS
    <3>2. /\ Goes(x, z, s) /\ z \in DOMAIN match /\ s \in {"a", "b"}
          /\ z \notin raced /\ x \notin raced /\ z \notin raced'
      BY <1>15, <1>26, <2>2, <3>1, Links
    <3>3. CASE match[z][s] = v
      <4>1. \A q \in Officers : ~Fills(q, x, z, s)
        BY <1>26, <3>2, <3>3 DEF AdvanceInv, SlotsInv
      <4>2. ~(z = y /\ s = t)
        <5>1. z = y /\ s = t => x = m
          BY <1>7, <1>10, <3>2, Links
        <5> QED
          BY <1>12, <4>1, <5>1
      <4>3. match'[z][s] = v
        BY <1>18, <3>2, <3>3, <4>2
      <4> QED
        BY <3>1, <4>3 DEF Settled
    <3>4. ASSUME NEW q \in Officers, Due(q, x, link, v) PROVE Settled(x, link, v)'
      <4>1. Advancing(q) /\ report[q].match = x /\ Owes(report[q].todo, <<z, s, v>>)
        BY <3>1, <3>4 DEF Due
      <4>2. CASE q # o
        <5>1. Due(q, x, link, v)'
          BY <1>5, <3>1, <4>1, <4>2 DEF Due, Advancing
        <5> QED
          BY <5>1 DEF Settled
      <4>3. CASE q = o
        <5>1. <<z, s, v>> = e \/ Owes(Tail(todo), <<z, s, v>>)
          BY <1>1, <1>8, <4>1, <4>3
        <5>2. CASE <<z, s, v>> = e
          <6>1. z = y /\ s = t /\ v = p
            BY <1>10, <5>2
          <6>2. match'[z][s] = v
            BY <1>16, <3>2, <6>1
          <6> QED
            BY <3>1, <6>2 DEF Settled
        <5>3. CASE Owes(Tail(todo), <<z, s, v>>)
          <6>1. Due(q, x, link, v)'
            BY <1>1, <1>6, <3>1, <4>1, <4>3, <5>3 DEF Due, Advancing
          <6> QED
            BY <6>1 DEF Settled
        <5> QED
          BY <5>1, <5>2, <5>3
      <4> QED
        BY <4>2, <4>3
    <3> QED
      BY <1>26, <2>2, <3>1, <3>2, <3>3, <3>4 DEF Settled
  <2> QED
    BY <2>1, <2>2
<1>27. ASSUME NEW x \in DOMAIN match, match[x].status = "completed", x \notin raced',
              x \notin early, ~Refed(x)'
       PROVE  match'[x].a = match[x].a /\ match'[x].b = match[x].b
  <2>1. x \notin raced /\ match[x].a # NOBODY /\ match[x].b # NOBODY
    BY <1>15, <1>27 DEF AdvanceInv, SidesInv
  <2>2. x # y
    <3> SUFFICES ASSUME x = y PROVE FALSE
      OBVIOUS
    <3>1. m \notin raced'
      <4>1. PICK link \in {next_match(field.format, field.n, m),
                           loser_next_match(field.format, field.n, m)} : link = <<y, t>>
        BY <1>10 DEF Goes
      <4>2. link # Nowhere /\ link[1] = x
        BY <4>1 DEF Nowhere
      <4> QED
        BY <1>4, <1>27, <4>1, <4>2 DEF Refed
    <3>2. m \notin raced /\ match[y][t] # NOBODY
      BY <1>11, <1>15, <2>1, <3>1
    <3>3. ~Fills(o, m, y, t)
      BY <1>7, <1>10, <1>11, <2>1, <3>2 DEF AdvanceInv, SlotsInv
    <3> QED
      BY <1>12, <3>3
  <2> QED
    BY <1>14, <2>2
<1>28. SettledInv'
  <2>1. \A x : Refed(x) => Refed(x)'
    BY <1>4, <1>15 DEF Refed
  <2> SUFFICES ASSUME NEW x \in DOMAIN match, match'[x].status = "completed", x \notin raced',
                      x \notin stopped
               PROVE  /\ Settled(x, next_match(field.format, field.n, x), match[x].winner)'
                      /\ x \notin early /\ ~Refed(x)' =>
                            Settled(x, loser_next_match(field.format, field.n, x),
                                    Loser(x, match[x].winner))'
    BY <1>4, <1>14 DEF SettledInv
  <2>2. PICK nx, lx : /\ nx = next_match(field.format, field.n, x)
                      /\ lx = loser_next_match(field.format, field.n, x)
    OBVIOUS
  <2>3. PICK v, l : v = match[x].winner /\ l = Loser(x, v)
    OBVIOUS
  <2>4. /\ match[x].status = "completed" /\ x \notin raced /\ match'[x].winner = v
        /\ v # NOBODY
        /\ x \notin early => l # NOBODY
    BY <1>15, <1>17, <2>3 DEF AdvanceInv, SidesInv, Loser
  <2>5. Settled(x, nx, v) /\ (x \notin early /\ ~Refed(x) => Settled(x, lx, l))
    BY <2>2, <2>3, <2>4 DEF AdvanceInv, SettledInv
  <2>6. Settled(x, nx, v)'
    BY <1>26, <2>2, <2>4, <2>5
  <2>7. ASSUME x \notin early, ~Refed(x)' PROVE Settled(x, lx, l)' /\ Loser(x, v)' = l
    <3>1. Settled(x, lx, l)'
      BY <1>26, <2>1, <2>2, <2>4, <2>5, <2>7
    <3>2. match'[x].a = match[x].a /\ match'[x].b = match[x].b
      BY <1>27, <2>4, <2>7
    <3>3. Loser(x, v)' = l
      BY <2>3, <3>2 DEF Loser
    <3> QED
      BY <3>1, <3>3
  <2> QED
    BY <1>4, <2>2, <2>4, <2>6, <2>7 DEF Settled, Due
<1> QED
    BY <1>4, <1>14, <1>20, <1>22, <1>24, <1>25, <1>28 DEF AdvanceInv

\* In a bracket that was just drawn a slot after the first round is taken only
\* by the winner of a bye.
LEMMA InitAdvance == Init => AdvanceInv
<1> SUFFICES ASSUME Init PROVE AdvanceInv
    OBVIOUS
<1>1. ShapeInv
    BY InitIInv DEF IInv
<1>2. PICK format \in Formats, n \in 2 .. 64 : format = field.format /\ n = field.n
    BY <1>1, TournamentAssumption DEF ShapeInv, Formats
<1>3. /\ match = Generated(format, n)
      /\ report = [o \in Officers |-> Idle]
      /\ raced = {} /\ early = {} /\ stopped = {}
    BY <1>2 DEF Init
<1>4. DOMAIN match = Matches(format, n)
    BY <1>3 DEF Generated
<1>5. \A o \in Officers : report[o].pc = "idle"
    BY <1>3 DEF Idle
<1>6. (\A o \in Officers : TodoOK(o)) /\ OneRequest
    BY <1>5 DEF TodoOK, OneRequest, Advancing
<1>7. ASSUME NEW x \in Matches(format, n)
      PROVE  /\ match[x] = [a |-> Advanced(format, n, x, "a"), b |-> Advanced(format, n, x, "b"),
                            status |-> IF IsBye(format, n, x) THEN "bye" ELSE "pending",
                            winner |-> NOBODY]
             /\ match[x].status = IF IsBye(format, n, x) THEN "bye" ELSE "pending"
             /\ \A s \in {"a", "b"} : match[x][s] = Advanced(format, n, x, s)
    BY <1>3 DEF Generated
<1>8. SidesInv /\ SettledInv
    BY <1>4, <1>7 DEF SidesInv, SettledInv
<1>9. SlotsInv
  <2> SUFFICES ASSUME NEW f \in Matches(format, n), NEW x \in Matches(format, n),
                      NEW s \in {"a", "b"}, Goes(f, x, s), match[x][s] # NOBODY
               PROVE  /\ match[f].status # "pending"
                      /\ \A o \in Officers : ~Fills(o, f, x, s)
    BY <1>4, Zenon DEF SlotsInv
  <2>1. \A o \in Officers : ~Fills(o, f, x, s)
    BY <1>5 DEF Fills, Advancing
  <2>2. PICK link \in {next_match(format, n, f), loser_next_match(format, n, f)} : link = <<x, s>>
    BY <1>2 DEF Goes
  <2>3. link # Nowhere
    BY <2>2 DEF Nowhere
  <2>4. SlotOf(format, n, link)
    BY <2>3, LinkSlots
  <2>5. ~FirstRound(x)
    BY <2>2, <2>4 DEF SlotOf
  <2>6. format # "round_robin"
    BY <2>3, RobinLinks
  <2>7. Pairing(format, n, x)[s] = NOBODY
    BY <2>5, <2>6 DEF Pairing, FirstRound
  <2>8. PICK byes : byes = {g \in Matches(format, n) :
                              /\ IsBye(format, n, g)
                              /\ next_match(format, n, g) = <<x, s>>}
    OBVIOUS
  <2>9. byes # {}
    BY <1>7, <2>7, <2>8 DEF Advanced
  <2>10. PICK g \in Matches(format, n) : IsBye(format, n, g) /\ next_match(format, n, g) = <<x, s>>
    BY <2>8, <2>9
  <2>11. f = g
    <3>1. next_match(format, n, g) # Nowhere
      BY <2>2, <2>3, <2>10
    <3>2. link = next_match(format, n, g)
      BY <2>2, <2>10
    <3>3. CASE link = next_match(format, n, f)
      BY <3>1, <3>2, <3>3, LinksApart
    <3>4. CASE link = loser_next_match(format, n, f)
      BY <3>1, <3>2, <3>4, LinksApart
    <3> QED
      BY <3>3, <3>4
  <2> QED
    BY <1>7, <2>1, <2>10, <2>11
<1> QED
    BY <1>2, <1>4, <1>6, <1>8, <1>9 DEF AdvanceInv

\* Every step keeps it.
LEMMA NextAdvance == ShapeInv /\ AdvanceInv /\ [Next]_vars => AdvanceInv'
<1> SUFFICES ASSUME ShapeInv, AdvanceInv, [Next]_vars PROVE AdvanceInv'
    OBVIOUS
<1>1. CASE Next
  <2>1. PICK o \in Officers : ReportNext(o)
    BY <1>1 DEF Next, ShapeInv
  <2> QED
    BY <2>1, AsidesAdvance, CasAdvance, SlotWriteAdvance DEF ReportNext
<1>2. CASE UNCHANGED vars
    BY <1>2, SMTT(30) DEF vars, AdvanceInv, TodoOK, Advancing, IsEntry, Goes, OneRequest, SlotsInv, Fills,
       SidesInv, SettledInv, Settled, Due, Refed, Loser
<1> QED
    BY <1>1, <1>2

\* Whoever wins a match of any bracket that the generators draw is in the slot
\* the bracket links to once the report is answered, and in a double
\* elimination so is the loser; no report of another match displaces them.
\* The whole-row writes of set_match_participant can undo this only for a
\* match whose own row, target or feeder was overwritten with an older one.
THEOREM AdvancesWinners == Spec => []WinnersAdvance
<1>1. ASSUME ShapeInv, AdvanceInv PROVE WinnersAdvance
  <2> SUFFICES ASSUME NEW m \in DOMAIN match, Handled(m), m \notin raced
               PROVE  /\ Settled(m, next_match(field.format, field.n, m), match[m].winner)
                      /\ m \notin early /\ ~Refed(m) =>
                            Settled(m, loser_next_match(field.format, field.n, m),
                                    Loser(m, match[m].winner))
                      /\ \A o \in Officers : \A link, p : ~Due(o, m, link, p)
    BY DEF WinnersAdvance, Settled
  <2>1. \A o \in Officers : \A link, p : ~Due(o, m, link, p)
    BY DEF Handled, Due, Advancing, Idle
  <2> QED
    BY <1>1, <2>1 DEF AdvanceInv, SettledInv, Handled
<1>2. IInv => ShapeInv
    BY DEF IInv
<1>3. ShapeInv /\ AdvanceInv => WinnersAdvance
    BY <1>1
<1> QED
    BY <1>2, <1>3, InitIInv, NextIInv, InitAdvance, NextAdvance, PTL DEF Spec
=============================================================================
