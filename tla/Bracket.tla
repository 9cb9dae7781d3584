------------------------------ MODULE Bracket ------------------------------
(***************************************************************************)
(* The brackets that db/queries/tournaments.rs generates: single and       *)
(* double elimination padded with byes, and the circle method of round     *)
(* robin.  A participant is its rank in the list ordered by seed, 1 .. n,  *)
(* and NOBODY an empty slot.  A match is named <<stage, round, position>>, *)
(* rounds and positions from 0 as the loops of the code count them.        *)
(***************************************************************************)
EXTENDS Integers, FiniteSets

NOBODY == 0

\* n.next_power_of_two() is 2^LogSize(n); no field is larger than 2^6.
LogSize(n) == CHOOSE k \in 0 .. 6 : 2^k >= n /\ (k = 0 \/ 2^(k - 1) < n)

\* The order for 2^k slots: each doubling puts the mirror image of a position
\* behind it.
SeedOrder[k \in 0 .. 6] ==
    [i \in 0 .. 2^k - 1 |->
        IF k = 0 THEN 0
        ELSE IF i % 2 = 0 THEN SeedOrder[k - 1][i \div 2]
        ELSE 2^k - 1 - SeedOrder[k - 1][i \div 2]]

standard_seed_order(k) == SeedOrder[k]

\* ordered[seed_order[i]] = seeded[i], and byes for the ranks past n.
seeded_slots(n) ==
    LET order == standard_seed_order(LogSize(n))
    IN  [pos \in DOMAIN order |->
            LET i == CHOOSE j \in DOMAIN order : order[j] = pos
            IN  IF i < n THEN i + 1 ELSE NOBODY]

-----------------------------------------------------------------------------
(* Which matches there are. *)

Positions(stage, round, count) == {<<stage, round, i>> : i \in 0 .. count - 1}

\* The rounds of an elimination tree with 2^k slots.
TreeMatches(stage, k) ==
    UNION {Positions(stage, r, 2^(k - 1 - r)) : r \in 0 .. k - 1}

\* double_elim_shape: how many losers rounds there are.
LoserRounds(k) == IF k <= 1 THEN 0 ELSE 2 * (k - 1)

\* Matches of a losers round: halved, rounding up, after each odd one.
LoserCount(k, r) ==
    LET count[q \in 0 .. r] ==
            IF q = 0 THEN IF k > 2 THEN 2^(k - 2) ELSE 1
            ELSE IF (q - 1) % 2 = 1 THEN (count[q - 1] + 1) \div 2 ELSE count[q - 1]
    IN  count[r]

EvenSize(n) == IF n % 2 = 0 THEN n ELSE n + 1

Matches(format, n) ==
    LET k == LogSize(n) IN
    CASE format = "single_elim" -> TreeMatches("main", k)
      [] format = "double_elim" ->
            TreeMatches("winners", k) \cup {<<"grand_final", 0, 0>>}
            \cup UNION {Positions("losers", r, LoserCount(k, r)) :
                            r \in 0 .. LoserRounds(k) - 1}
      [] format = "round_robin" ->
            UNION {Positions("main", r, EvenSize(n) \div 2) : r \in 0 .. EvenSize(n) - 2}

RoundOf(id) == <<id[1], id[2]>>

Side(i) == IF i % 2 = 0 THEN "a" ELSE "b"

-----------------------------------------------------------------------------
(* Where winners and losers go: <<match, slot>>, or <<>> for nowhere. *)

Nowhere == <<>>

NextInTree(id, k, after) ==
    IF id[2] + 1 < k THEN <<<<id[1], id[2] + 1, id[3] \div 2>>, Side(id[3])>>
    ELSE after

next_match(format, n, id) ==
    LET k == LogSize(n)
        final == <<"grand_final", 0, 0>>
    IN
    CASE format = "single_elim" -> NextInTree(id, k, Nowhere)
      [] format = "double_elim" /\ id[1] = "winners" -> NextInTree(id, k, <<final, "a">>)
      [] format = "double_elim" /\ id[1] = "losers" ->
            IF id[2] + 1 = LoserRounds(k) THEN <<final, "b">>
            ELSE IF id[2] % 2 = 0 THEN <<<<"losers", id[2] + 1, id[3]>>, "b">>
            ELSE <<<<"losers", id[2] + 1, id[3] \div 2>>, Side(id[3])>>
      [] OTHER -> Nowhere

\* Variant: every later winners round drops into the same losers round.
drop_into_round_one(format, n, id) ==
    LET k == LogSize(n) IN
    IF format # "double_elim" \/ id[1] # "winners" THEN Nowhere ELSE
    CASE k = 1 -> <<<<"grand_final", 0, 0>>, "b">>
      [] k > 1 /\ id[2] = 0 -> <<<<"losers", 0, id[3] \div 2>>, Side(id[3])>>
      [] OTHER -> <<<<"losers", 1, id[3]>>, "a">>

\* The first winners round pairs its losers, a later one drops them into the
\* odd losers round, the winners final into the last.
loser_next_match(format, n, id) ==
    LET k == LogSize(n) IN
    IF format # "double_elim" \/ id[1] # "winners" THEN Nowhere ELSE
    CASE k = 1 -> <<<<"grand_final", 0, 0>>, "b">>
      [] k > 1 /\ id[2] = 0 -> <<<<"losers", 0, id[3] \div 2>>, Side(id[3])>>
      [] k > 1 /\ id[2] = k - 1 -> <<<<"losers", LoserRounds(k) - 1, 0>>, "a">>
      [] OTHER -> <<<<"losers", 2 * id[2] - 1, id[3]>>, "a">>

-----------------------------------------------------------------------------
(* Who is in a match when the bracket has been generated. *)

\* slots.pop() goes back in at index 1.
Rotate(n, prev) ==
    LET last == EvenSize(n) - 1
    IN  [i \in 0 .. last |->
            CASE i = 0 -> prev[0] [] i = 1 -> prev[last] [] OTHER -> prev[i - 1]]

Circle(n, r) ==
    LET start == [i \in 0 .. EvenSize(n) - 1 |-> IF i < n THEN i + 1 ELSE NOBODY]
        slots[q \in 0 .. r] == IF q = 0 THEN start ELSE Rotate(n, slots[q - 1])
    IN  slots[r]

\* The pair a match is created with.
Pairing(format, n, id) ==
    IF format = "round_robin"
    THEN LET slots == Circle(n, id[2])
         IN  [a |-> slots[id[3]], b |-> slots[EvenSize(n) - 1 - id[3]]]
    ELSE IF id[1] \in {"main", "winners"} /\ id[2] = 0
    THEN LET slots == seeded_slots(n)
         IN  [a |-> slots[2 * id[3]], b |-> slots[2 * id[3] + 1]]
    ELSE [a |-> NOBODY, b |-> NOBODY]

IsBye(format, n, id) ==
    /\ format = "round_robin" \/ (id[1] \in {"main", "winners"} /\ id[2] = 0)
    /\ NOBODY \in {Pairing(format, n, id).a, Pairing(format, n, id).b}

ByeWinner(pair) == IF pair.a # NOBODY THEN pair.a ELSE pair.b

\* Byes of an elimination's first round have been advanced into this slot.
Advanced(format, n, id, slot) ==
    LET byes == {f \in Matches(format, n) :
                    /\ IsBye(format, n, f)
                    /\ next_match(format, n, f) = <<id, slot>>}
    IN  IF byes = {} THEN Pairing(format, n, id)[slot]
        ELSE ByeWinner(Pairing(format, n, CHOOSE f \in byes : TRUE))

Generated(format, n) ==
    [id \in Matches(format, n) |->
        [a |-> Advanced(format, n, id, "a"), b |-> Advanced(format, n, id, "b"),
         status |-> IF IsBye(format, n, id) THEN "bye" ELSE "pending",
         winner |-> NOBODY]]
=============================================================================
