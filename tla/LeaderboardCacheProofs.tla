----------------------- MODULE LeaderboardCacheProofs -----------------------
(***************************************************************************)
(* The leaderboard cache for any number of keys, requests and scan slots   *)
(* and any capacity: a flight has one owner, no scan slot is lost, the     *)
(* map, its order and the queue agree, and no board past the limit is      *)
(* given away without a scan that failed.                                  *)
(***************************************************************************)
EXTENDS LeaderboardCache, FiniteSetTheorems, SequenceTheorems, TLAPS

-----------------------------------------------------------------------------
(* The inductive invariant. *)

\* The request, or the task of the slot, has the sender of the key's flight.
Leads(r, k) ==
    req[r].pc \in {"refresh", "queue", "acquire", "granted", "load"} /\ req[r].key = k

Flies(s, k) == slot[s].pc \in {"granted", "load"} /\ slot[s].key = k

\* One owner for each live flight, and none for another.
OwnInv ==
    /\ \A r \in Requests, k \in Keys : Leads(r, k) => inflight[k] = "live"
    /\ \A s \in Slots, k \in Keys : Flies(s, k) => inflight[k] = "live"
    /\ \A r, q \in Requests, k \in Keys : Leads(r, k) /\ Leads(q, k) => r = q
    /\ \A s, t \in Slots, k \in Keys : Flies(s, k) /\ Flies(t, k) => s = t
    /\ \A r \in Requests, s \in Slots, k \in Keys : ~(Leads(r, k) /\ Flies(s, k))
    /\ \A k \in Keys : inflight[k] = "live" =>
          (\E r \in Requests : Leads(r, k)) \/ (\E s \in Slots : Flies(s, k))
    /\ \A r \in Requests : req[r].pc = "wait" => inflight[req[r].key] = "live"

\* No element comes twice.
Distinct(s) == \A i, j \in DOMAIN s : s[i] = s[j] => i = j

PermitInv ==
    /\ permits + Cardinality(Holding) + Cardinality(Busy) = MaxScans
    /\ waiters # <<>> => permits = 0
    /\ Range(waiters) = {r \in Requests : req[r].pc = "acquire"}
    /\ Distinct(waiters)

OrderInv ==
    /\ Range(order) = {k \in Keys : HasEntry(k)}
    /\ Distinct(order)
    /\ Len(order) <= max_entries

QueueInv == IsFiniteSet(refresh_wait) /\ QueueBounded

\* A scan under way is of a board at least as new as the stored one, and
\* neither the stored board nor the one being scanned is too old for a
\* follower that has decided to serve it.
Scans(k) ==
    {req[r].started : r \in {x \in Requests : req[x].pc = "load" /\ req[x].key = k}}
    \cup {slot[s].started : s \in {x \in Slots : slot[x].pc = "load" /\ slot[x].key = k}}

StaleInv ==
    /\ \A k \in Keys : HasEntry(k) => \A x \in Scans(k) : entries[k].at <= x
    /\ \A r \in Requests : req[r].pc = "stale" =>
          /\ MaxStale > 0
          /\ HasEntry(req[r].key) => req[r].seen - entries[req[r].key].at < MaxStale
          /\ \A x \in Scans(req[r].key) : req[r].seen - x < MaxStale
          /\ Cardinality(Keys) <= max_entries => HasEntry(req[r].key)
    /\ ServedRight

IInv == TypeOK /\ OwnInv /\ PermitInv /\ OrderInv /\ QueueInv /\ StaleInv

-----------------------------------------------------------------------------
(* Sequences without repetition. *)

\* The elements of a sequence, by position.
LEMMA InRange ==
    ASSUME NEW S, NEW s \in Seq(S), NEW x
    PROVE  x \in Range(s) <=> \E i \in 1 .. Len(s) : s[i] = x
BY LenProperties DEF Range

\* Such a sequence is as long as it has elements.
LEMMA DistinctCount ==
    ASSUME NEW S, NEW s \in Seq(S), Distinct(s)
    PROVE  IsFiniteSet(Range(s)) /\ Cardinality(Range(s)) = Len(s)
<1>1. Len(s) \in Nat /\ DOMAIN s = 1 .. Len(s) /\ s \in [1 .. Len(s) -> S]
    BY LenProperties
<1>2. s \in [1 .. Len(s) -> Range(s)]
    BY <1>1 DEF Range
<1>3. s \in Bijection(1 .. Len(s), Range(s))
    BY <1>1, <1>2 DEF Range, Distinct, Bijection, Injection, Surjection, IsInjective
<1>4. ExistsBijection(1 .. Len(s), Range(s))
    BY <1>3 DEF ExistsBijection
<1>5. IsFiniteSet(1 .. Len(s)) /\ Cardinality(1 .. Len(s)) = Len(s)
    BY <1>1, FS_Interval
<1> QED
    BY <1>4, <1>5, FS_Bijection

\* Taking the head off a list without repeats.
LEMMA TailFacts ==
    ASSUME NEW S, NEW s \in Seq(S), s # <<>>, Distinct(s)
    PROVE  /\ Head(s) \in S /\ Head(s) \in Range(s)
           /\ Tail(s) \in Seq(S) /\ Distinct(Tail(s)) /\ Len(Tail(s)) = Len(s) - 1
           /\ Range(Tail(s)) = Range(s) \ {Head(s)}
<1>1. Len(s) \in Nat \ {0} /\ DOMAIN s = 1 .. Len(s)
    BY EmptySeq, LenProperties
<1>2. /\ Head(s) \in S /\ Tail(s) \in Seq(S) /\ Len(Tail(s)) = Len(s) - 1
      /\ \A i \in 1 .. Len(Tail(s)) : Tail(s)[i] = s[i + 1]
    BY HeadTailProperties
<1>3. Head(s) = s[1]
    OBVIOUS
<1>4. DOMAIN Tail(s) = 1 .. Len(s) - 1
    BY <1>2, LenProperties
<1>5. Distinct(Tail(s))
    BY <1>1, <1>2, <1>4 DEF Distinct
<1>6. ASSUME NEW x PROVE x \in Range(Tail(s)) <=> x \in Range(s) \ {Head(s)}
  <2>1. ASSUME x \in Range(Tail(s)) PROVE x \in Range(s) /\ x # Head(s)
    <3>1. PICK i \in 1 .. Len(s) - 1 : Tail(s)[i] = x
      BY <1>2, <2>1, InRange
    <3>2. i + 1 \in 1 .. Len(s) /\ s[i + 1] = x /\ i + 1 # 1
      BY <1>1, <1>2, <3>1
    <3> QED
      BY <1>1, <1>3, <3>2, InRange DEF Distinct
  <2>2. ASSUME x \in Range(s), x # Head(s) PROVE x \in Range(Tail(s))
    <3>1. PICK i \in 1 .. Len(s) : s[i] = x
      BY <2>2, InRange
    <3>2. i - 1 \in 1 .. Len(Tail(s)) /\ (i - 1) + 1 = i
      BY <1>1, <1>2, <1>3, <2>2, <3>1
    <3>3. Tail(s)[i - 1] = x
      BY <1>2, <3>1, <3>2
    <3> QED
      BY <1>2, <3>2, <3>3, InRange
  <2> QED
    BY <2>1, <2>2
<1>7. Head(s) \in Range(s)
    BY <1>1, <1>3, InRange
<1> QED
    BY <1>2, <1>5, <1>6, <1>7

\* Adding something new to a list without repeats.
LEMMA AppendFacts ==
    ASSUME NEW S, NEW s \in Seq(S), NEW x \in S, x \notin Range(s), Distinct(s)
    PROVE  /\ Append(s, x) \in Seq(S) /\ Distinct(Append(s, x)) /\ Append(s, x) # <<>>
           /\ Len(Append(s, x)) = Len(s) + 1 /\ Range(Append(s, x)) = Range(s) \cup {x}
<1>1. Len(s) \in Nat /\ DOMAIN s = 1 .. Len(s)
    BY LenProperties
<1>2. /\ Append(s, x) \in Seq(S) /\ Append(s, x) # <<>> /\ Len(Append(s, x)) = Len(s) + 1
      /\ \A i \in 1 .. Len(s) : Append(s, x)[i] = s[i]
      /\ Append(s, x)[Len(s) + 1] = x
    BY AppendProperties
<1>3. DOMAIN Append(s, x) = 1 .. Len(s) + 1
    BY <1>2, LenProperties
<1>4. \A i \in 1 .. Len(s) + 1 : i \in 1 .. Len(s) \/ i = Len(s) + 1
    BY <1>1
<1>5. \A i \in 1 .. Len(s) : s[i] # x
    BY InRange
<1>6. Distinct(Append(s, x))
    BY <1>1, <1>2, <1>3, <1>4, <1>5 DEF Distinct
<1>7. ASSUME NEW y PROVE y \in Range(Append(s, x)) <=> y \in Range(s) \cup {x}
  <2> DEFINE t == Append(s, x)
  <2>0. t \in Seq(S) /\ Len(t) = Len(s) + 1
    BY <1>2
  <2> HIDE DEF t
  <2>1. y \in Range(t) <=> \E i \in 1 .. Len(s) + 1 : t[i] = y
    BY <2>0, InRange
  <2>2. y \in Range(s) <=> \E i \in 1 .. Len(s) : s[i] = y
    BY InRange
  <2>3. Len(s) + 1 \in 1 .. Len(s) + 1 /\ 1 .. Len(s) \subseteq 1 .. Len(s) + 1
    BY <1>1
  <2> QED
    BY <1>2, <1>4, <2>1, <2>2, <2>3 DEF t
<1> QED
    BY <1>2, <1>6, <1>7

\* Without takes one element out of a list without repeats (touch).
LEMMA WithoutFacts ==
    ASSUME NEW S, NEW s \in Seq(S), NEW x \in Range(s), Distinct(s)
    PROVE  /\ Without(s, x) \in Seq(S) /\ Distinct(Without(s, x))
           /\ Len(Without(s, x)) = Len(s) - 1 /\ Range(Without(s, x)) = Range(s) \ {x}
<1>1. Len(s) \in Nat /\ DOMAIN s = 1 .. Len(s)
    BY LenProperties
<1> DEFINE i == CHOOSE j \in DOMAIN s : s[j] = x
           left == SubSeq(s, 1, i - 1)
           right == SubSeq(s, i + 1, Len(s))
           w == left \o right
<1>2. i \in 1 .. Len(s) /\ s[i] = x
    BY <1>1, InRange
<1>3. Without(s, x) = w
    BY DEF Without, RemoveAt
<1> HIDE DEF i
<1>4. /\ left \in Seq(S) /\ Len(left) = i - 1
      /\ \A j \in 1 .. i - 1 : left[j] = s[j]
  <2>1. \A j \in 1 .. i - 1 : s[j] \in S
    BY <1>1, <1>2, ElementOfSeq
  <2>2. 1 \in Int /\ i - 1 \in Int
    BY <1>1, <1>2
  <2>3. /\ left \in Seq(S) /\ Len(left) = IF 1 <= i - 1 THEN (i - 1) - 1 + 1 ELSE 0
        /\ \A j \in 1 .. (i - 1) - 1 + 1 : left[j] = s[1 + j - 1]
    BY <2>1, <2>2, SubSeqProperties
  <2> HIDE DEF left
  <2> QED
    BY <1>1, <1>2, <2>3
<1>5. /\ right \in Seq(S) /\ Len(right) = Len(s) - i
      /\ \A j \in 1 .. Len(s) - i : right[j] = s[i + j]
  <2>1. \A j \in i + 1 .. Len(s) : s[j] \in S
    BY <1>1, <1>2, ElementOfSeq
  <2>2. i + 1 \in Int /\ Len(s) \in Int
    BY <1>1, <1>2
  <2>3. /\ right \in Seq(S) /\ Len(right) = IF i + 1 <= Len(s) THEN Len(s) - (i + 1) + 1 ELSE 0
        /\ \A j \in 1 .. Len(s) - (i + 1) + 1 : right[j] = s[(i + 1) + j - 1]
    BY <2>1, <2>2, SubSeqProperties
  <2> HIDE DEF right
  <2>4. Len(right) = Len(s) - i
    <3>1. i \in Int /\ Len(s) \in Int /\ i <= Len(s)
      BY <1>1, <1>2
    <3>2. Len(right) = IF i + 1 <= Len(s) THEN Len(s) - (i + 1) + 1 ELSE 0
      BY <2>3
    <3>3. CASE i + 1 <= Len(s)
      BY <3>1, <3>2, <3>3
    <3>4. CASE ~(i + 1 <= Len(s))
      BY <3>1, <3>2, <3>4
    <3> QED
      BY <3>3, <3>4
  <2>5. ASSUME NEW j \in 1 .. Len(s) - i PROVE right[j] = s[i + j]
    <3>1. j \in 1 .. Len(s) - (i + 1) + 1 /\ (i + 1) + j - 1 = i + j
      BY <1>1, <1>2
    <3> QED
      BY <2>3, <3>1
  <2> QED
    BY <2>3, <2>4, <2>5
<1> HIDE DEF left, right
<1>6. /\ w \in Seq(S) /\ Len(w) = Len(s) - 1
      /\ \A j \in 1 .. Len(s) - 1 : w[j] = IF j < i THEN s[j] ELSE s[j + 1]
  <2>1. /\ w \in Seq(S) /\ Len(w) = Len(left) + Len(right)
        /\ \A j \in 1 .. Len(left) + Len(right) :
              w[j] = IF j <= Len(left) THEN left[j] ELSE right[j - Len(left)]
    BY <1>4, <1>5, ConcatProperties
  <2>2. Len(w) = Len(s) - 1
    BY <1>1, <1>2, <1>4, <1>5, <2>1
  <2>3. ASSUME NEW j \in 1 .. Len(s) - 1 PROVE w[j] = IF j < i THEN s[j] ELSE s[j + 1]
    <3> HIDE DEF w
    <3>1. w[j] = IF j <= i - 1 THEN left[j] ELSE right[j - (i - 1)]
      BY <1>1, <1>2, <1>4, <1>5, <2>1
    <3>2. CASE j < i
      BY <1>1, <1>2, <1>4, <3>1, <3>2
    <3>3. CASE ~(j < i)
      <4>1. j - (i - 1) \in 1 .. Len(s) - i /\ i + (j - (i - 1)) = j + 1 /\ ~(j <= i - 1)
        BY <1>1, <1>2, <3>3
      <4> QED
        BY <1>5, <3>1, <3>3, <4>1
    <3> QED
      BY <3>2, <3>3
  <2> QED
    BY <2>1, <2>2, <2>3
<1> HIDE DEF w
<1>7. DOMAIN w = 1 .. Len(s) - 1
    BY <1>6, LenProperties
<1>8. \A j \in 1 .. Len(s) - 1 : \E h \in 1 .. Len(s) : h = (IF j < i THEN j ELSE j + 1) /\ w[j] = s[h] /\ h # i
    BY <1>1, <1>2, <1>6
<1>9. Distinct(w)
  <2> SUFFICES ASSUME NEW j \in 1 .. Len(s) - 1, NEW k \in 1 .. Len(s) - 1, w[j] = w[k]
               PROVE  j = k
    BY <1>7 DEF Distinct
  <2>1. (IF j < i THEN j ELSE j + 1) = (IF k < i THEN k ELSE k + 1)
    BY <1>1, <1>8 DEF Distinct
  <2> QED
    BY <1>1, <1>2, <2>1
<1>10. ASSUME NEW y PROVE y \in Range(w) <=> y \in Range(s) \ {x}
  <2>1. ASSUME y \in Range(w) PROVE y \in Range(s) /\ y # x
    <3>1. PICK j \in 1 .. Len(s) - 1 : w[j] = y
      BY <1>6, <2>1, InRange
    <3>2. PICK h \in 1 .. Len(s) : s[h] = y /\ h # i
      BY <1>8, <3>1
    <3> QED
      BY <1>1, <1>2, <3>2, InRange DEF Distinct
  <2>2. ASSUME y \in Range(s), y # x PROVE y \in Range(w)
    <3>1. PICK h \in 1 .. Len(s) : s[h] = y
      BY <2>2, InRange
    <3>2. PICK j \in 1 .. Len(s) - 1 : h = IF j < i THEN j ELSE j + 1
      <4>1. CASE h < i
        BY <1>1, <1>2, <4>1
      <4>2. CASE h > i
        <5>1. h - 1 \in 1 .. Len(s) - 1 /\ ~(h - 1 < i) /\ h = (h - 1) + 1
          BY <1>1, <1>2, <4>2
        <5> QED
          BY <5>1
      <4>3. h # i
        BY <1>2, <2>2, <3>1
      <4> QED
        BY <1>1, <1>2, <4>1, <4>2, <4>3
    <3>3. w[j] = y
      BY <1>6, <3>1, <3>2
    <3> QED
      BY <1>6, <3>3, InRange
  <2> QED
    BY <2>1, <2>2
<1> QED
    BY <1>3, <1>6, <1>9, <1>10

-----------------------------------------------------------------------------
(* The least recently used order. *)

\* touch moves a key and loses none.
LEMMA TouchFacts ==
    ASSUME NEW k \in Keys, order \in Seq(Keys), Distinct(order)
    PROVE  /\ touch(k) \in Seq(Keys) /\ Distinct(touch(k))
           /\ Len(touch(k)) = Len(order) /\ Range(touch(k)) = Range(order)
<1>0. Len(order) \in Nat
    BY LenProperties
<1>1. CASE k \in Range(order)
  <2> DEFINE w == Without(order, k)
  <2>1. /\ w \in Seq(Keys) /\ Distinct(w) /\ Len(w) = Len(order) - 1
        /\ Range(w) = Range(order) \ {k}
    BY <1>1, WithoutFacts
  <2> HIDE DEF w
  <2>2. /\ Append(w, k) \in Seq(Keys) /\ Distinct(Append(w, k))
        /\ Len(Append(w, k)) = Len(w) + 1 /\ Range(Append(w, k)) = Range(w) \cup {k}
    BY <2>1, AppendFacts
  <2>3. touch(k) = Append(w, k)
    BY <1>1 DEF touch, w
  <2> QED
    <3>1. Len(w) + 1 = Len(order) /\ Range(w) \cup {k} = Range(order)
      BY <1>0, <1>1, <2>1
    <3> QED
      BY <2>2, <2>3, <3>1
<1>2. CASE k \notin Range(order)
    BY <1>2 DEF touch
<1> QED
    BY <1>1, <1>2

\* store keeps the order in step with the map, evicts at most the oldest key
\* for a new one, and none where all keys fit.
LEMMA StoreFacts ==
    ASSUME TypeOK, OrderInv, NEW k \in Keys, NEW entry \in Entry, store(k, entry)
    PROVE  /\ entries' \in [Keys -> Entry \cup {NoEntry}] /\ entries'[k] = entry
           /\ \A x \in Keys : x # k => entries'[x] \in {entries[x], NoEntry}
           /\ Cardinality(Keys) <= max_entries =>
                  \A x \in Keys : x # k => entries'[x] = entries[x]
           /\ order' \in Seq(Keys) /\ Distinct(order') /\ Len(order') <= max_entries
           /\ Range(order') = {x \in Keys : entries'[x] # NoEntry}
<1> DEFINE over == Len(order) + 1 - max_entries
           gone == IF HasEntry(k) \/ over <= 0 THEN {} ELSE Range(SubSeq(order, 1, over))
<1>1. /\ order \in Seq(Keys) /\ Len(order) \in Nat /\ max_entries \in Nat \ {0}
      /\ entries \in [Keys -> Entry \cup {NoEntry}]
    BY LenProperties, CacheAssumption DEF TypeOK
<1>2. /\ Range(order) = {x \in Keys : entries[x] # NoEntry} /\ Distinct(order)
      /\ Len(order) <= max_entries
    BY DEF OrderInv, HasEntry
<1>3. /\ entries' = [x \in Keys |-> IF x = k THEN entry
                                     ELSE IF x \in gone THEN NoEntry ELSE entries[x]]
      /\ order' = IF HasEntry(k) THEN touch(k)
                  ELSE Append(SubSeq(order, Cardinality(gone) + 1, Len(order)), k)
    BY DEF store
<1>4. entry # NoEntry
    BY <1>1 DEF Entry, NoEntry, Stamp, TypeOK
<1>5. CASE HasEntry(k)
  <2>1. gone = {}
    BY <1>5
  <2>2. order' = touch(k) /\ entries' = [entries EXCEPT ![k] = entry]
    BY <1>1, <1>3, <1>5, <2>1
  <2>3. {x \in Keys : entries'[x] # NoEntry} = {x \in Keys : entries[x] # NoEntry}
    BY <1>1, <1>4, <1>5, <2>2 DEF HasEntry
  <2> QED
    BY <1>1, <1>2, <2>2, <2>3, TouchFacts
<1>6. CASE ~HasEntry(k) /\ over <= 0
  <2>1. gone = {} /\ Cardinality(gone) = 0 /\ Len(order) + 1 <= max_entries
    BY <1>1, <1>6, FS_EmptySet
  <2>2. SubSeq(order, 1, Len(order)) = order
    BY <1>1
  <2>3. order' = Append(order, k) /\ entries' = [entries EXCEPT ![k] = entry]
    <3> HIDE DEF gone, over
    <3>1. Cardinality(gone) + 1 = 1
      BY <2>1
    <3>2. order' = Append(order, k)
      BY <1>3, <1>6, <2>2, <3>1
    <3>3. entries' = [entries EXCEPT ![k] = entry]
      BY <1>1, <1>3, <2>1
    <3> QED
      BY <3>2, <3>3
  <2>4. k \notin Range(order)
    BY <1>2, <1>6 DEF HasEntry
  <2>5. /\ order' \in Seq(Keys) /\ Distinct(order') /\ Len(order') = Len(order) + 1
        /\ Range(order') = Range(order) \cup {k}
    BY <1>1, <1>2, <2>3, <2>4, AppendFacts
  <2>6. {x \in Keys : entries'[x] # NoEntry} = {x \in Keys : entries[x] # NoEntry} \cup {k}
    BY <1>1, <1>4, <2>3
  <2> QED
    BY <1>1, <1>2, <2>1, <2>3, <2>5, <2>6
<1>7. CASE ~HasEntry(k) /\ ~(over <= 0)
  <2>1. over = 1 /\ Len(order) = max_entries
    BY <1>1, <1>2, <1>7
  <2>2. order # <<>>
    BY <1>1, <2>1, EmptySeq
  <2>3. SubSeq(order, 2, Len(order)) = Tail(order) /\ Head(order) = order[1]
    BY <1>1, <2>2, TailIsSubSeq
  <2>4. gone = {Head(order)}
    <3> DEFINE t == SubSeq(order, 1, 1)
    <3>1. \A i \in 1 .. 1 : order[i] \in Keys
      BY <1>1, <2>1, ElementOfSeq
    <3>2. t \in Seq(Keys) /\ Len(t) = 1 /\ t[1] = order[1]
      <4>1. /\ t \in Seq(Keys) /\ Len(t) = IF 1 <= 1 THEN 1 - 1 + 1 ELSE 0
            /\ \A i \in 1 .. 1 - 1 + 1 : t[i] = order[1 + i - 1]
        BY <3>1, SubSeqProperties
      <4> HIDE DEF t
      <4> QED
        BY <4>1
    <3>3. gone = Range(t)
      BY <1>7, <2>1
    <3> HIDE DEF t, gone
    <3>4. \A x : x \in Range(t) <=> x = order[1]
      BY <3>2, InRange
    <3> QED
      BY <2>3, <3>3, <3>4
  <2> HIDE DEF gone, over
  <2>5. Cardinality(gone) + 1 = 2
    <3>1. Cardinality(gone) = 1
      BY <2>4, FS_Singleton
    <3> QED
      BY <3>1
  <2>6. /\ order' = Append(Tail(order), k)
        /\ entries' = [x \in Keys |-> IF x = k THEN entry
                                      ELSE IF x = Head(order) THEN NoEntry ELSE entries[x]]
    BY <1>3, <1>7, <2>3, <2>4, <2>5
  <2>7. /\ Head(order) \in Keys /\ Tail(order) \in Seq(Keys) /\ Distinct(Tail(order))
        /\ Len(Tail(order)) = Len(order) - 1 /\ Range(Tail(order)) = Range(order) \ {Head(order)}
        /\ Head(order) \in Range(order)
    BY <1>1, <1>2, <2>2, TailFacts
  <2>8. k \notin Range(order)
    BY <1>2, <1>7 DEF HasEntry
  <2>9. /\ order' \in Seq(Keys) /\ Distinct(order') /\ Len(order') = Len(order) - 1 + 1
        /\ Range(order') = (Range(order) \ {Head(order)}) \cup {k}
    <3> DEFINE t == Tail(order)
    <3>1. /\ t \in Seq(Keys) /\ Distinct(t) /\ k \notin Range(t) /\ Len(t) = Len(order) - 1
          /\ Range(t) = Range(order) \ {Head(order)} /\ order' = Append(t, k)
      BY <2>6, <2>7, <2>8
    <3> HIDE DEF t
    <3>2. /\ Append(t, k) \in Seq(Keys) /\ Distinct(Append(t, k))
          /\ Len(Append(t, k)) = Len(t) + 1 /\ Range(Append(t, k)) = Range(t) \cup {k}
      BY <3>1, AppendFacts
    <3> QED
      BY <3>1, <3>2
  <2>10. {x \in Keys : entries'[x] # NoEntry} = Range(order')
    BY <1>1, <1>2, <1>4, <2>6, <2>7, <2>8, <2>9
  <2>11. ~(Cardinality(Keys) <= max_entries)
    <3>1. IsFiniteSet(Range(order)) /\ Cardinality(Range(order)) = max_entries
      BY <1>1, <1>2, <2>1, DistinctCount
    <3>2. Cardinality(Range(order) \cup {k}) = max_entries + 1
      BY <2>8, <3>1, FS_AddElement
    <3>3. Range(order) \cup {k} \in SUBSET Keys
      BY <1>2
    <3>4. IsFiniteSet(Keys) /\ Cardinality(Keys) \in Nat
      BY CacheAssumption, FS_CardinalityType
    <3> QED
      BY <1>1, <3>2, <3>3, <3>4, FS_Subset
  <2>12. entries' \in [Keys -> Entry \cup {NoEntry}]
    BY <1>1, <2>6
  <2>13. \A x \in Keys : x # k => entries'[x] \in {entries[x], NoEntry}
    BY <2>6
  <2>14. entries'[k] = entry /\ Len(order') <= max_entries
    BY <1>1, <2>1, <2>6, <2>9
  <2> QED
    BY <2>9, <2>10, <2>11, <2>12, <2>13, <2>14
<1> QED
    BY <1>5, <1>6, <1>7

-----------------------------------------------------------------------------
(* The refresh queue. *)

\* Fewer keys come before an earlier one.
LEMMA RankGrows ==
    ASSUME NEW all \in SUBSET (Nat \X Nat), IsFiniteSet(all),
           NEW x \in all, NEW y \in all, Before(x, y)
    PROVE  Cardinality({z \in all : Before(z, x)}) < Cardinality({z \in all : Before(z, y)})
<1> DEFINE A == {z \in all : Before(z, x)}
           B == {z \in all : Before(z, y)}
<1>0. x[1] \in Nat /\ x[2] \in Nat /\ y[1] \in Nat /\ y[2] \in Nat
    OBVIOUS
<1>1. ASSUME NEW z \in all, Before(z, x) PROVE Before(z, y)
  <2>1. z[1] \in Nat /\ z[2] \in Nat
    OBVIOUS
  <2> QED
    BY <1>0, <1>1, <2>1 DEF Before
<1>2. x \notin A /\ A \cup {x} \in SUBSET B
    BY <1>0, <1>1 DEF Before
<1>3. IsFiniteSet(A) /\ IsFiniteSet(B)
    BY FS_Subset
<1> HIDE DEF A, B
<1>4. Cardinality(A \cup {x}) = Cardinality(A) + 1
    BY <1>2, <1>3, FS_AddElement
<1>5. Cardinality(A \cup {x}) <= Cardinality(B) /\ Cardinality(A) \in Nat /\ Cardinality(B) \in Nat
    BY <1>2, <1>3, FS_Subset, FS_CardinalityType
<1>6. Cardinality(A) < Cardinality(B)
    BY <1>4, <1>5
<1> QED
    BY <1>6 DEF A, B

\* A queue that takes one more keeps its bound, and a key once.
LEMMA QueuedFacts ==
    ASSUME TypeOK, QueueInv, NEW x \in Stamp \X Keys
    PROVE  LET q == Queued(refresh_wait, x) IN
           /\ q \subseteq Stamp \X Keys /\ IsFiniteSet(q) /\ Cardinality(q) <= max_entries
           /\ \A y, z \in q : y[2] = z[2] => y = z
<1> DEFINE others == {y \in refresh_wait : y[2] # x[2]}
           all == others \cup {x}
           rank(y) == Cardinality({z \in all : Before(z, y)})
           kept == {y \in all : rank(y) < max_entries}
<1>1. /\ refresh_wait \subseteq Stamp \X Keys /\ IsFiniteSet(refresh_wait)
      /\ max_entries \in Nat \ {0}
      /\ \A y, z \in refresh_wait : y[2] = z[2] => y = z
    BY CacheAssumption DEF TypeOK, QueueInv, QueueBounded
<1>2. IsFiniteSet(others) /\ Cardinality(others) \in Nat
    BY <1>1, FS_Subset, FS_CardinalityType
<1>3. IsFiniteSet(all) /\ all \subseteq Stamp \X Keys
    BY <1>1, <1>2, FS_AddElement
<1>4. \A y, z \in all : y[2] = z[2] => y = z
    BY <1>1
<1>5. CASE Cardinality(others) < max_entries
  <2>1. Queued(refresh_wait, x) = all
    BY <1>5 DEF Queued
  <2>2. Cardinality(all) <= max_entries
    <3> HIDE DEF others
    <3>1. Cardinality(others \cup {x}) <= Cardinality(others) + 1
      BY <1>2, FS_AddElement
    <3>2. Cardinality(others \cup {x}) \in Nat
      BY <1>3, FS_CardinalityType
    <3> QED
      BY <1>1, <1>2, <1>5, <3>1, <3>2
  <2> QED
    BY <1>3, <1>4, <2>1, <2>2
<1>6. CASE ~(Cardinality(others) < max_entries)
  <2>1. Queued(refresh_wait, x) = kept
    BY <1>6 DEF Queued
  <2>2. all \in SUBSET (Nat \X Nat)
    <3>1. Stamp \subseteq Nat /\ Keys \subseteq Nat
      BY CacheAssumption DEF Stamp, TypeOK
    <3> HIDE DEF others
    <3> QED
      BY <1>3, <3>1
  <2>3. ASSUME NEW y \in kept, NEW z \in kept, rank(y) = rank(z) PROVE y = z
    <3>1. y \in Nat \X Nat /\ z \in Nat \X Nat /\ y \in all /\ z \in all
      BY <2>2
    <3>2. rank(y) \in Nat /\ rank(z) \in Nat
      BY <1>3, FS_Subset, FS_CardinalityType
    <3> HIDE DEF others
    <3>3. ~Before(y, z) /\ ~Before(z, y)
      BY <1>3, <2>2, <2>3, <3>1, <3>2, RankGrows
    <3>4. y[2] = z[2]
      BY <3>1, <3>3 DEF Before
    <3> QED
      BY <1>4, <3>1, <3>4
  <2>4. \A y \in kept : rank(y) \in 0 .. max_entries - 1
    <3> SUFFICES ASSUME NEW y \in kept PROVE rank(y) \in 0 .. max_entries - 1
      OBVIOUS
    <3>1. rank(y) \in Nat
      BY <1>3, FS_Subset, FS_CardinalityType
    <3> QED
      BY <1>1, <3>1
  <2> DEFINE f == [y \in kept |-> rank(y)]
  <2>5. f \in Injection(kept, 0 .. max_entries - 1)
    <3> HIDE DEF kept, rank
    <3>1. f \in [kept -> 0 .. max_entries - 1]
      BY <2>4
    <3>2. \A y, z \in kept : f[y] = f[z] => y = z
      BY <2>3
    <3> QED
      BY <3>1, <3>2 DEF Injection, IsInjective
  <2>6. IsFiniteSet(0 .. max_entries - 1) /\ Cardinality(0 .. max_entries - 1) = max_entries
    BY <1>1, FS_Interval
  <2>7. IsFiniteSet(kept) /\ Cardinality(kept) <= max_entries
    <3> HIDE DEF kept, rank, f
    <3> QED
      BY <2>5, <2>6, FS_Injection
  <2> QED
    BY <1>3, <1>4, <2>1, <2>7
<1> QED
    BY <1>5, <1>6

-----------------------------------------------------------------------------
(* Requests and tasks, by where they are. *)

\* The clock is one of the stamps, and they are numbers.
LEMMA Stamps == TypeOK => clock \in Nat /\ Stamp \subseteq Nat /\ clock \in Stamp
BY CacheAssumption DEF TypeOK, Stamp

\* A board is not the absence of one.
LEMMA EntryIsOne == TypeOK => NoEntry \notin Entry
<1> SUFFICES ASSUME TypeOK, NoEntry \in Entry PROVE FALSE
    OBVIOUS
<1>1. NoEntry.at \in Nat
    BY Stamps DEF Entry
<1> QED
    BY <1>1 DEF NoEntry

\* What the type of a request says of its locals where it stands.
LEMMA RequestAt ==
    ASSUME TypeOK, NEW r \in Requests
    PROVE  /\ req[r] \in Request
           /\ req[r].pc \in {"refresh", "wait", "acquire", "granted", "retry"} =>
                 req[r].key \in Keys /\ req[r] = [pc |-> req[r].pc, key |-> req[r].key]
           /\ req[r].pc = "queue" => req[r].key \in Keys /\ req[r].at \in Stamp
           /\ req[r].pc = "load" => req[r].key \in Keys /\ req[r].started \in Stamp
           /\ req[r].pc = "told" => req[r].key \in Keys
                 /\ req[r].state \in Outcomes \cup {"skipped", "gone"}
           /\ req[r].pc = "stale" => req[r].key \in Keys /\ req[r].seen \in Stamp
                 /\ req[r].state \in {"skipped", "gone"}
           /\ req[r].pc = "idle" => req[r] = Idle
           /\ req[r].pc = "release" => req[r] = [pc |-> "release"]
           /\ req[r].pc = "offer" => req[r] = [pc |-> "offer"]
<1>1. req[r] \in Request
    BY DEF TypeOK
<1> QED
    BY <1>1, SMTT(30) DEF Request, Idle

\* What the type of a refresh task says of its locals where it stands.
LEMMA TaskAt ==
    ASSUME TypeOK, NEW s \in Slots
    PROVE  /\ slot[s] \in Task
           /\ slot[s].pc = "granted" => slot[s].key \in Keys
           /\ slot[s].pc = "load" => slot[s].key \in Keys /\ slot[s].started \in Stamp
           /\ slot[s].pc = "idle" => slot[s] = Idle
           /\ slot[s].pc = "handoff" => slot[s] = [pc |-> "handoff"]
<1>1. slot[s] \in Task
    BY DEF TypeOK
<1> QED
    BY <1>1, SMTT(30) DEF Task, Idle

\* The records the statements leave are of the type.
LEMMA Records ==
    ASSUME NEW k \in Keys
    PROVE  /\ Idle \in Request /\ [pc |-> "release"] \in Request /\ [pc |-> "offer"] \in Request
           /\ \A pc \in {"refresh", "wait", "acquire", "granted", "retry"} :
                 [pc |-> pc, key |-> k] \in Request
           /\ \A x \in Stamp : /\ [pc |-> "queue", key |-> k, at |-> x] \in Request
                               /\ [pc |-> "load", key |-> k, started |-> x] \in Request
                               /\ [pc |-> "load", key |-> k, started |-> x] \in Task
           /\ \A x \in Outcomes \cup {"skipped", "gone"} :
                 [pc |-> "told", key |-> k, state |-> x] \in Request
           /\ \A x \in Stamp, y \in {"skipped", "gone"} :
                 [pc |-> "stale", key |-> k, state |-> y, seen |-> x] \in Request
           /\ Idle \in Task /\ [pc |-> "handoff"] \in Task
           /\ [pc |-> "granted", key |-> k] \in Task
BY DEF Request, Task

\* What a flight leaves behind changes the waiting requests only.
LEMMA TellFacts ==
    ASSUME NEW reqs \in [Requests -> Request], NEW k \in Keys,
           NEW state \in Outcomes \cup {"skipped", "gone"}
    PROVE  /\ Tell(reqs, k, state) \in [Requests -> Request]
           /\ \A r \in Requests :
                 Tell(reqs, k, state)[r] =
                     IF reqs[r].pc = "wait" /\ reqs[r].key = k
                     THEN [pc |-> "told", key |-> k, state |-> state] ELSE reqs[r]
BY Records DEF Tell

\* A permit that comes back goes to the first in line, who goes on.
LEMMA ReleaseFacts ==
    ASSUME NEW reqs \in [Requests -> Request], ReleasePermit(reqs),
           waiters \in Seq(Requests), Distinct(waiters),
           \A r \in Range(waiters) : reqs[r].pc = "acquire"
    PROVE  \/ /\ waiters = <<>> /\ waiters' = waiters
              /\ permits' = permits + 1 /\ req' = reqs
           \/ /\ waiters # <<>> /\ waiters' = Tail(waiters) /\ permits' = permits
              /\ Head(waiters) \in Requests /\ reqs[Head(waiters)].pc = "acquire"
              /\ req' = [reqs EXCEPT ![Head(waiters)] =
                            [pc |-> "granted", key |-> reqs[Head(waiters)].key]]
              /\ req' \in [Requests -> Request]
<1>1. CASE waiters = <<>>
    BY <1>1 DEF ReleasePermit
<1>2. CASE waiters # <<>>
  <2> DEFINE h == Head(waiters)
  <2>1. h \in Requests /\ reqs[h].pc = "acquire"
    BY <1>2, TailFacts
  <2>2. /\ waiters' = Tail(waiters) /\ permits' = permits
        /\ req' = [reqs EXCEPT ![h].pc = "granted"]
    BY <1>2 DEF ReleasePermit, Granted
  <2>3. reqs[h] = [pc |-> "acquire", key |-> reqs[h].key] /\ reqs[h].key \in Keys
    <3>1. reqs[h] \in Request
      BY <2>1
    <3> QED
      BY <2>1, <3>1, SMTT(30) DEF Request, Idle
  <2> HIDE DEF h
  <2>4. req' = [reqs EXCEPT ![h] = [pc |-> "granted", key |-> reqs[h].key]]
    <3>1. PICK k \in Keys : k = reqs[h].key /\ reqs[h] = [pc |-> "acquire", key |-> k]
      BY <2>3
    <3>2. [reqs[h] EXCEPT !.pc = "granted"] = [pc |-> "granted", key |-> k]
      BY <3>1
    <3>3. req' = [reqs EXCEPT ![h] = [reqs[h] EXCEPT !.pc = "granted"]]
      BY <2>2
    <3> QED
      BY <3>1, <3>2, <3>3
  <2>5. [pc |-> "granted", key |-> reqs[h].key] \in Request
    BY <2>3, Records
  <2>6. req' \in [Requests -> Request]
    BY <2>4, <2>5
  <2> QED
    BY <1>2, <2>1, <2>2, <2>4, <2>6 DEF h
<1> QED
    BY <1>1, <1>2

-----------------------------------------------------------------------------
(* What a step keeps when it leaves certain things alone. *)

Live(k) == inflight[k] = "live"

\* The same owners, and nobody waits for a flight that is not there.
LEMMA OwnersSame ==
    ASSUME OwnInv,
           \A k \in Keys : Live(k)' <=> Live(k),
           \A r \in Requests, k \in Keys : Leads(r, k)' <=> Leads(r, k),
           \A s \in Slots, k \in Keys : Flies(s, k)' <=> Flies(s, k),
           \A r \in Requests : req'[r].pc = "wait" =>
               inflight'[req'[r].key] = "live"
    PROVE  OwnInv'
BY DEF OwnInv, Live

\* A request takes off with a key that nobody flies.
LEMMA OwnerEnters ==
    ASSUME OwnInv, NEW q \in Requests, NEW c \in Keys, ~Live(c),
           \A k \in Keys : Live(k)' <=> Live(k) \/ k = c,
           \A r \in Requests, k \in Keys :
               Leads(r, k)' <=> Leads(r, k) \/ (r = q /\ k = c),
           \A s \in Slots, k \in Keys : Flies(s, k)' <=> Flies(s, k),
           \A r \in Requests : req'[r].pc = "wait" =>
               inflight'[req'[r].key] = "live"
    PROVE  OwnInv'
BY DEF OwnInv, Live

\* So with a slot.
LEMMA TaskEnters ==
    ASSUME OwnInv, NEW q \in Slots, NEW c \in Keys, ~Live(c),
           \A k \in Keys : Live(k)' <=> Live(k) \/ k = c,
           \A r \in Requests, k \in Keys : Leads(r, k)' <=> Leads(r, k),
           \A s \in Slots, k \in Keys :
               Flies(s, k)' <=> Flies(s, k) \/ (s = q /\ k = c),
           \A r \in Requests : req'[r].pc = "wait" =>
               inflight'[req'[r].key] = "live"
    PROVE  OwnInv'
BY DEF OwnInv, Live

\* A request hands the flight to a task.
LEMMA OwnerSpawns ==
    ASSUME OwnInv, NEW q \in Requests, NEW t \in Slots, NEW c \in Keys, Leads(q, c),
           \A k \in Keys : Live(k)' <=> Live(k),
           \A r \in Requests, k \in Keys :
               Leads(r, k)' <=> Leads(r, k) /\ ~(r = q /\ k = c),
           \A s \in Slots, k \in Keys :
               Flies(s, k)' <=> Flies(s, k) \/ (s = t /\ k = c),
           \A r \in Requests : req'[r].pc = "wait" =>
               inflight'[req'[r].key] = "live"
    PROVE  OwnInv'
BY DEF OwnInv, Live

\* The owner ends the flight.
LEMMA OwnerEnds ==
    ASSUME OwnInv, NEW c \in Keys,
           \A k \in Keys : Live(k)' <=> Live(k) /\ k # c,
           \A r \in Requests, k \in Keys : Leads(r, k)' <=> Leads(r, k) /\ k # c,
           \A s \in Slots, k \in Keys : Flies(s, k)' <=> Flies(s, k) /\ k # c,
           \A r \in Requests : req'[r].pc = "wait" =>
               inflight'[req'[r].key] = "live"
    PROVE  OwnInv'
BY DEF OwnInv, Live

\* The requests and tasks that hold a permit are finitely many.
LEMMA Finite == TypeOK => /\ IsFiniteSet(Requests) /\ IsFiniteSet(Slots)
                          /\ IsFiniteSet(Holding) /\ Cardinality(Holding) \in Nat
                          /\ IsFiniteSet(Busy) /\ Cardinality(Busy) \in Nat
<1>1. IsFiniteSet(Requests)
    BY CacheAssumption
<1>2. IsFiniteSet(Slots)
    BY CacheAssumption, FS_Interval DEF Slots, refresh_slots
<1>3. Holding \in SUBSET Requests /\ Busy \in SUBSET Slots
    BY DEF Holding, Busy
<1> QED
    BY <1>1, <1>2, <1>3, FS_Subset, FS_CardinalityType

\* The permits, where nobody takes or returns one and nobody leaves the line.
LEMMA PermitsSame ==
    ASSUME PermitInv, UNCHANGED <<permits, waiters>>,
           Holding' = Holding, Busy' = Busy,
           \A r \in Requests : req'[r].pc = "acquire" <=> req[r].pc = "acquire"
    PROVE  PermitInv'
<1>1. {r \in Requests : req'[r].pc = "acquire"} = {r \in Requests : req[r].pc = "acquire"}
    OBVIOUS
<1> QED
    BY <1>1 DEF PermitInv

\* The order and the queue, untouched.
LEMMA OrderSame ==
    ASSUME OrderInv, UNCHANGED <<order, entries, max_entries>>
    PROVE  OrderInv'
BY DEF OrderInv, HasEntry

\* The refresh queue is in order as long as nobody touches it.
LEMMA QueueSame ==
    ASSUME QueueInv, UNCHANGED <<refresh_wait, max_entries>>
    PROVE  QueueInv'
BY DEF QueueInv, QueueBounded

\* The boards, where none is stored and a scan that starts is of now.
LEMMA BoardsSame ==
    ASSUME TypeOK, StaleInv, max_entries' = max_entries, ServedRight',
           \A k \in Keys : HasEntry(k)' <=> HasEntry(k),
           \A k \in Keys : HasEntry(k) => entries'[k].at = entries[k].at,
           \A k \in Keys : Scans(k)' \subseteq Scans(k) \cup {clock},
           \A r \in Requests : req'[r].pc = "stale" => req'[r] = req[r]
    PROVE  StaleInv'
<1>1. \A k \in Keys : HasEntry(k) => entries[k].at \in Nat /\ entries[k].at <= clock
  <2> SUFFICES ASSUME NEW k \in Keys, HasEntry(k)
               PROVE  entries[k].at \in Nat /\ entries[k].at <= clock
    OBVIOUS
  <2>1. entries[k] \in Entry
    BY DEF TypeOK, HasEntry
  <2> QED
    BY <2>1, Stamps DEF Entry, Stamp
<1>2. \A k \in Keys : HasEntry(k)' => \A x \in Scans(k)' : entries'[k].at <= x
  <2> SUFFICES ASSUME NEW k \in Keys, HasEntry(k), NEW x \in Scans(k)'
               PROVE  entries[k].at <= x
    OBVIOUS
  <2> QED
    BY <1>1 DEF StaleInv
<1>3. ASSUME NEW r \in Requests, req'[r].pc = "stale"
      PROVE  /\ MaxStale > 0
             /\ HasEntry(req[r].key)' => req'[r].seen - entries'[req'[r].key].at < MaxStale
             /\ \A x \in Scans(req[r].key)' : req'[r].seen - x < MaxStale
             /\ Cardinality(Keys) <= max_entries => HasEntry(req[r].key)'
  <2>1. req'[r] = req[r] /\ req[r].pc = "stale"
    BY <1>3
  <2>2. PICK k \in Keys : k = req[r].key
    BY <2>1, RequestAt
  <2>3. req[r].seen \in Nat /\ req[r].seen <= clock /\ clock \in Nat
    <3>1. req[r].seen \in Stamp
      BY <2>1, RequestAt
    <3> QED
      BY <3>1, Stamps DEF Stamp
  <2>4. /\ MaxStale > 0
        /\ HasEntry(k) => req[r].seen - entries[k].at < MaxStale
        /\ \A x \in Scans(k) : req[r].seen - x < MaxStale
        /\ Cardinality(Keys) <= max_entries => HasEntry(k)
    BY <2>1, <2>2 DEF StaleInv
  <2>5. req[r].seen - clock < MaxStale
    BY <2>3, <2>4, CacheAssumption
  <2>6. \A x \in Scans(k)' : req[r].seen - x < MaxStale
    BY <2>4, <2>5
  <2> QED
    <3>1. HasEntry(req[r].key)' <=> HasEntry(k)
      BY <2>1, <2>2 DEF HasEntry
    <3>2. Scans(req[r].key)' = Scans(k)'
      BY <2>1, <2>2 DEF Scans
    <3> QED
      BY <2>1, <2>2, <2>4, <2>6, <3>1, <3>2
<1> QED
    BY <1>2, <1>3 DEF StaleInv

\* Where nobody is served a doubtful answer, none has been.
LEMMA ServedSame ==
    ASSUME StaleInv, UNCHANGED <<max_entries, served>>
    PROVE  ServedRight'
BY DEF StaleInv, ServedRight, NeverTooOld, ErrorsFromScans

\* The two together.
LEMMA StaleSame ==
    ASSUME TypeOK, StaleInv, UNCHANGED <<max_entries, served>>,
           \A k \in Keys : HasEntry(k)' <=> HasEntry(k),
           \A k \in Keys : HasEntry(k) => entries'[k].at = entries[k].at,
           \A k \in Keys : Scans(k)' \subseteq Scans(k) \cup {clock},
           \A r \in Requests : req'[r].pc = "stale" => req'[r] = req[r]
    PROVE  StaleInv'
BY BoardsSame, ServedSame

\* The scans a step leaves, when the ones that start are of now.
LEMMA ScansStep ==
    ASSUME \A r \in Requests : req'[r].pc = "load" =>
               req'[r] = req[r] \/ req'[r].started = clock,
           \A s \in Slots : slot'[s].pc = "load" =>
               slot'[s] = slot[s] \/ slot'[s].started = clock
    PROVE  \A k \in Keys : Scans(k)' \subseteq Scans(k) \cup {clock}
BY DEF Scans

\* The types depend on the clock alone.
LEMMA TypesSame ==
    ASSUME clock' = clock
    PROVE  Stamp' = Stamp /\ Request' = Request /\ Task' = Task /\ Entry' = Entry
BY DEF Stamp, Request, Task, Entry

\* To moves one request and leaves the others alone.
LEMMA ToFacts ==
    ASSUME TypeOK, NEW r \in Requests, NEW rec \in Request, To(r, rec)
    PROVE  /\ req' \in [Requests -> Request] /\ req'[r] = rec
           /\ \A q \in Requests : q # r => req'[q] = req[q]
BY DEF TypeOK, To

\* A request that neither leads nor holds a permit, before or after.
Apart(x) == x.pc \in {"idle", "wait", "told", "retry", "offer"}

\* A request that holds neither a permit nor a flight goes on to another
\* such place.
LEMMA ApartStep ==
    ASSUME IInv, NEW r \in Requests, NEW rec \in Request, To(r, rec),
           Apart(req[r]) \/ req[r].pc = "stale", Apart(rec),
           rec.pc = "wait" => inflight'[rec.key] = "live",
           inflight' \in [Keys -> {"none", "live", "dead"}],
           \A k \in Keys : Live(k)' <=> Live(k),
           order' \in Seq(Keys), OrderInv',
           drops' \in 0 .. MaxDrops,
           served' \subseteq {"too_old", "no_scan_failed"}, ServedRight',
           UNCHANGED <<clock, max_entries, entries, refresh_wait, permits, waiters, slot>>
    PROVE  IInv'
<1>1. /\ req' \in [Requests -> Request] /\ req'[r] = rec
      /\ \A q \in Requests : q # r => req'[q] = req[q]
    BY ToFacts DEF IInv
<1>2. TypeOK'
    BY <1>1, TypesSame DEF IInv, TypeOK
<1>3. OwnInv'
  <2>1. \A q \in Requests, k \in Keys : Leads(q, k)' <=> Leads(q, k)
    BY <1>1 DEF Leads, Apart
  <2>2. \A t \in Slots, k \in Keys : Flies(t, k)' <=> Flies(t, k)
    BY DEF Flies
  <2>3. \A q \in Requests : req'[q].pc = "wait" => inflight'[req'[q].key] = "live"
    <3> SUFFICES ASSUME NEW q \in Requests, req'[q].pc = "wait"
                 PROVE  inflight'[req'[q].key] = "live"
      OBVIOUS
    <3>1. CASE q = r
      BY <1>1, <3>1
    <3>2. CASE q # r
      <4>1. req[q].pc = "wait" /\ req'[q] = req[q] /\ req[q].key \in Keys
        BY <1>1, <3>2, RequestAt DEF IInv
      <4> QED
        BY <4>1 DEF IInv, OwnInv, Live
    <3> QED
      BY <3>1, <3>2
  <2> QED
    BY <2>1, <2>2, <2>3, OwnersSame DEF IInv
<1>4. PermitInv'
  <2>1. Holding' = Holding
    BY <1>1 DEF Holding, Apart
  <2>2. Busy' = Busy
    BY DEF Busy
  <2>3. \A q \in Requests : req'[q].pc = "acquire" <=> req[q].pc = "acquire"
    BY <1>1 DEF Apart
  <2> QED
    BY <2>1, <2>2, <2>3, PermitsSame DEF IInv
<1>5. QueueInv'
    BY QueueSame DEF IInv
<1>6. StaleInv'
  <2>1. \A k \in Keys : Scans(k)' \subseteq Scans(k) \cup {clock}
    BY <1>1, ScansStep DEF Apart
  <2>2. \A q \in Requests : req'[q].pc = "stale" => req'[q] = req[q]
    BY <1>1 DEF Apart
  <2> QED
    BY <2>1, <2>2, BoardsSame DEF IInv, HasEntry
<1> QED
    BY <1>2, <1>3, <1>4, <1>5, <1>6 DEF IInv

-----------------------------------------------------------------------------
(* get_or_load *)

\* Discarding a dead flight leaves the live ones.
LEMMA DiscardFacts ==
    ASSUME TypeOK, NEW k \in Keys
    PROVE  /\ DiscardDead(k) \in [Keys -> {"none", "live", "dead"}]
           /\ \A x \in Keys : DiscardDead(k)[x] = "live" <=> Live(x)
           /\ DiscardDead(k)[k] # "none" => Live(k)
           /\ DiscardDead(k)[k] = "none" =>
                 /\ ~Live(k)
                 /\ Fly(DiscardDead(k), k) \in [Keys -> {"none", "live", "dead"}]
                 /\ \A x \in Keys : Fly(DiscardDead(k), k)[x] = "live" <=> Live(x) \/ x = k
<1>1. inflight \in [Keys -> {"none", "live", "dead"}]
    BY DEF TypeOK
<1>2. CASE inflight[k] = "dead"
    BY <1>1, <1>2 DEF DiscardDead, Fly, Live
<1>3. CASE inflight[k] # "dead"
    BY <1>1, <1>3 DEF DiscardDead, Fly, Live
<1> QED
    BY <1>2, <1>3

\* The order after a touch is in order.
LEMMA TouchKeeps ==
    ASSUME IInv, NEW k \in Keys, order' \in {order, touch(k)},
           UNCHANGED <<entries, max_entries>>
    PROVE  order' \in Seq(Keys) /\ OrderInv'
<1>1. order \in Seq(Keys) /\ Distinct(order) /\ Range(order) = {x \in Keys : HasEntry(x)}
      /\ Len(order) <= max_entries
    BY DEF IInv, TypeOK, OrderInv
<1>2. /\ order' \in Seq(Keys) /\ Distinct(order') /\ Len(order') = Len(order)
      /\ Range(order') = Range(order)
    BY <1>1, TouchFacts
<1>3. \A x : HasEntry(x)' <=> HasEntry(x)
    BY DEF HasEntry
<1> QED
    BY <1>1, <1>2, <1>3 DEF OrderInv

\* A caller that is served, or joins the scan in flight.
LEMMA ServedIInv ==
    ASSUME IInv, NEW r \in Requests, NEW k \in Keys, req[r].pc \in {"idle", "retry"},
           Hit(r, k) \/ ServeStale(r, k) \/ Join(r, k),
           UNCHANGED <<clock, max_entries, entries, refresh_wait, slot, drops>>
    PROVE  IInv'
<1>1. /\ inflight' = DiscardDead(k) /\ UNCHANGED <<waiters, permits, served>>
      /\ order' \in {order, touch(k)}
      /\ \/ To(r, Idle)
         \/ To(r, [pc |-> "wait", key |-> k]) /\ DiscardDead(k)[k] # "none"
    BY DEF Hit, ServeStale, Join
<1>2. /\ inflight' \in [Keys -> {"none", "live", "dead"}]
      /\ \A x \in Keys : Live(x)' <=> Live(x)
      /\ DiscardDead(k)[k] # "none" => inflight'[k] = "live"
  <2>1. TypeOK
    BY DEF IInv
  <2> QED
    BY <1>1, <2>1, DiscardFacts DEF Live
<1>3. order' \in Seq(Keys) /\ OrderInv'
    BY <1>1, TouchKeeps
<1>4. Apart(req[r]) /\ Apart(Idle) /\ Idle.pc # "wait" /\ drops' \in 0 .. MaxDrops
    BY DEF Apart, Idle, IInv, TypeOK
<1>7. served' \subseteq {"too_old", "no_scan_failed"} /\ ServedRight'
    BY <1>1, ServedSame DEF IInv, TypeOK
<1>5. CASE To(r, Idle)
    BY <1>1, <1>2, <1>3, <1>4, <1>5, <1>7, Records, ApartStep
<1>6. CASE To(r, [pc |-> "wait", key |-> k]) /\ DiscardDead(k)[k] # "none"
  <2> DEFINE rec == [pc |-> "wait", key |-> k]
  <2>1. rec \in Request /\ Apart(rec) /\ rec.key = k /\ To(r, rec)
    BY <1>6, Records DEF Apart
  <2> HIDE DEF rec
  <2> QED
    BY <1>1, <1>2, <1>3, <1>4, <1>6, <1>7, <2>1, ApartStep
<1> QED
    BY <1>1, <1>5, <1>6

\* A caller that takes off with a key nobody flies, whatever it does about
\* its permit.
LEMMA TakeOff ==
    ASSUME IInv, NEW r \in Requests, NEW k \in Keys, req[r].pc \in {"idle", "retry"},
           DiscardDead(k)[k] = "none", inflight' = Fly(DiscardDead(k), k),
           order' \in {order, touch(k)},
           NEW pc \in {"refresh", "granted", "acquire"}, To(r, [pc |-> pc, key |-> k]),
           permits' \in 0 .. MaxScans, waiters' \in Seq(Requests), PermitInv',
           UNCHANGED <<clock, max_entries, entries, refresh_wait, slot, served, drops>>
    PROVE  IInv'
<1> DEFINE rec == [pc |-> pc, key |-> k]
<1>1. rec \in Request /\ rec.pc = pc /\ rec.key = k
    BY Records
<1>2. /\ req' \in [Requests -> Request] /\ req'[r] = rec
      /\ \A q \in Requests : q # r => req'[q] = req[q]
    BY <1>1, ToFacts DEF IInv
<1> HIDE DEF rec
<1>3. /\ inflight' \in [Keys -> {"none", "live", "dead"}] /\ ~Live(k)
      /\ \A x \in Keys : Live(x)' <=> Live(x) \/ x = k
  <2>1. TypeOK
    BY DEF IInv
  <2> QED
    BY <2>1, DiscardFacts DEF Live
<1>4. order' \in Seq(Keys) /\ OrderInv'
    BY TouchKeeps
<1>5. TypeOK'
    BY <1>2, <1>3, <1>4, TypesSame DEF IInv, TypeOK
<1>6. OwnInv'
  <2>1. \A q \in Requests, x \in Keys : Leads(q, x)' <=> Leads(q, x) \/ (q = r /\ x = k)
    BY <1>1, <1>2 DEF Leads
  <2>2. \A t \in Slots, x \in Keys : Flies(t, x)' <=> Flies(t, x)
    BY DEF Flies
  <2>3. \A q \in Requests : req'[q].pc = "wait" => inflight'[req'[q].key] = "live"
    <3> SUFFICES ASSUME NEW q \in Requests, req'[q].pc = "wait"
                 PROVE  inflight'[req'[q].key] = "live"
      OBVIOUS
    <3>1. q # r /\ req'[q] = req[q] /\ req[q].key \in Keys
      BY <1>1, <1>2, RequestAt DEF IInv
    <3> QED
      BY <1>3, <3>1 DEF IInv, OwnInv, Live
  <2> QED
    BY <1>3, <2>1, <2>2, <2>3, OwnerEnters DEF IInv
<1>7. QueueInv'
    BY QueueSame DEF IInv
<1>8. StaleInv'
  <2>1. \A x \in Keys : Scans(x)' \subseteq Scans(x) \cup {clock}
    BY <1>1, <1>2, ScansStep
  <2>2. \A q \in Requests : req'[q].pc = "stale" => req'[q] = req[q]
    BY <1>1, <1>2
  <2> QED
    BY <2>1, <2>2, StaleSame DEF IInv, HasEntry
<1> QED
    BY <1>4, <1>5, <1>6, <1>7, <1>8 DEF IInv

\* Serving what is cached and queueing a refresh (get_or_load) keeps the
\* invariant.
LEMMA ServeAndRefreshIInv ==
    ASSUME IInv, NEW r \in Requests, NEW k \in Keys, req[r].pc \in {"idle", "retry"},
           ServeAndRefresh(r, k),
           UNCHANGED <<clock, max_entries, entries, refresh_wait, slot, drops>>
    PROVE  IInv'
<1>1. /\ DiscardDead(k)[k] = "none" /\ inflight' = Fly(DiscardDead(k), k)
      /\ order' = touch(k) /\ To(r, [pc |-> "refresh", key |-> k])
      /\ UNCHANGED <<waiters, permits, served>>
    BY DEF ServeAndRefresh
<1>2. /\ req'[r] = [pc |-> "refresh", key |-> k]
      /\ \A q \in Requests : q # r => req'[q] = req[q]
    BY <1>1, Records, ToFacts DEF IInv
<1>3. PermitInv'
  <2>1. Holding' = Holding /\ Busy' = Busy
    BY <1>2 DEF Holding, Busy
  <2>2. \A q \in Requests : req'[q].pc = "acquire" <=> req[q].pc = "acquire"
    BY <1>2
  <2> QED
    BY <1>1, <2>1, <2>2, PermitsSame DEF IInv
<1>4. permits' \in 0 .. MaxScans /\ waiters' \in Seq(Requests)
    BY <1>1 DEF IInv, TypeOK
<1> QED
    BY <1>1, <1>3, <1>4, TakeOff

\* acquire_blocking takes a permit, or a place in line.
LEMMA BeginLeadIInv ==
    ASSUME IInv, NEW r \in Requests, NEW k \in Keys, req[r].pc \in {"idle", "retry"},
           BeginLead(r, k),
           UNCHANGED <<clock, max_entries, entries, refresh_wait, slot, drops>>
    PROVE  IInv'
<1>1. /\ DiscardDead(k)[k] = "none" /\ inflight' = Fly(DiscardDead(k), k)
      /\ order' \in {order, touch(k)} /\ served' = served
    BY DEF BeginLead
<1>2. /\ permits \in 0 .. MaxScans /\ waiters \in Seq(Requests) /\ MaxScans \in Nat
      /\ Cardinality(Holding) \in Nat /\ Cardinality(Busy) \in Nat /\ IsFiniteSet(Holding)
      /\ permits + Cardinality(Holding) + Cardinality(Busy) = MaxScans
      /\ waiters # <<>> => permits = 0
      /\ Range(waiters) = {q \in Requests : req[q].pc = "acquire"} /\ Distinct(waiters)
    BY Finite, CacheAssumption DEF IInv, TypeOK, PermitInv
<1>3. Busy' = Busy
    BY DEF Busy
<1>4. CASE permits > 0
  <2>1. permits' = permits - 1 /\ To(r, [pc |-> "granted", key |-> k]) /\ waiters' = waiters
    BY <1>4 DEF BeginLead
  <2>2. /\ req'[r] = [pc |-> "granted", key |-> k]
        /\ \A q \in Requests : q # r => req'[q] = req[q]
    BY <2>1, Records, ToFacts DEF IInv
  <2>3. Holding' = Holding \cup {r} /\ r \notin Holding
    BY <2>2 DEF Holding
  <2>4. Cardinality(Holding') = Cardinality(Holding) + 1
    BY <1>2, <2>3, FS_AddElement
  <2>5. {q \in Requests : req'[q].pc = "acquire"} = {q \in Requests : req[q].pc = "acquire"}
    BY <2>2
  <2>6. permits' + Cardinality(Holding') + Cardinality(Busy') = MaxScans
    BY <1>2, <1>3, <2>1, <2>4
  <2>7. waiters' = <<>>
    BY <1>2, <1>4, <2>1
  <2>8. PermitInv'
    BY <1>2, <2>1, <2>5, <2>6, <2>7 DEF PermitInv
  <2>9. permits' \in 0 .. MaxScans /\ waiters' \in Seq(Requests)
    BY <1>2, <1>4, <2>1
  <2> QED
    BY <1>1, <2>1, <2>8, <2>9, TakeOff
<1>5. CASE ~(permits > 0)
  <2>1. /\ waiters' = Append(waiters, r) /\ To(r, [pc |-> "acquire", key |-> k])
        /\ permits' = permits
    BY <1>5 DEF BeginLead
  <2>2. /\ req'[r] = [pc |-> "acquire", key |-> k]
        /\ \A q \in Requests : q # r => req'[q] = req[q]
    BY <2>1, Records, ToFacts DEF IInv
  <2>3. Holding' = Holding
    BY <2>2 DEF Holding
  <2>4. {q \in Requests : req'[q].pc = "acquire"} = {q \in Requests : req[q].pc = "acquire"} \cup {r}
    BY <2>2
  <2>5. r \notin Range(waiters)
    BY <1>2
  <2>6. /\ waiters' \in Seq(Requests) /\ Distinct(waiters') /\ Range(waiters') = Range(waiters) \cup {r}
    BY <1>2, <2>1, <2>5, AppendFacts
  <2>7. permits' = 0
    BY <1>2, <1>5, <2>1
  <2>8. PermitInv'
    BY <1>2, <1>3, <2>1, <2>3, <2>4, <2>6, <2>7 DEF PermitInv
  <2>9. permits' \in 0 .. MaxScans
    BY <1>2, <2>1
  <2> QED
    BY <1>1, <2>1, <2>6, <2>8, <2>9, TakeOff
<1> QED
    BY <1>4, <1>5

\* A call, or another round of its loop.
LEMMA BeginIInv ==
    ASSUME IInv, NEW r \in Requests, NEW k \in Keys, req[r].pc \in {"idle", "retry"},
           begin(r, k)
    PROVE  IInv'
BY ServedIInv, ServeAndRefreshIInv, BeginLeadIInv DEF begin

\* A call, and its second try, keep the invariant.
LEMMA CallIInv ==
    ASSUME IInv, NEW r \in Requests, Call(r) \/ Again(r)
    PROVE  IInv'
<1>1. CASE Call(r)
    BY <1>1, BeginIInv DEF Call, Idle
<1>2. CASE Again(r)
  <2>1. req[r].key \in Keys
    BY <1>2, RequestAt DEF Again, IInv
  <2> QED
    BY <1>2, <2>1, BeginIInv DEF Again
<1> QED
    BY <1>1, <1>2

-----------------------------------------------------------------------------
(* Flights that end. *)

\* The request that leads a flight ends it, and its followers are told.
LEMMA RequestEnds ==
    ASSUME TypeOK, OwnInv, NEW r \in Requests, NEW c \in Keys, Leads(r, c),
           NEW x \in {"none", "dead"}, inflight' = [inflight EXCEPT ![c] = x],
           \A k \in Keys : ~Leads(r, k)',
           \A q \in Requests, k \in Keys : q # r => (Leads(q, k)' <=> Leads(q, k)),
           \A s \in Slots, k \in Keys : Flies(s, k)' <=> Flies(s, k),
           \A q \in Requests : req'[q].pc = "wait" =>
               req[q].pc = "wait" /\ req'[q].key = req[q].key /\ req[q].key # c
    PROVE  OwnInv' /\ inflight' \in [Keys -> {"none", "live", "dead"}]
<1>1. inflight \in [Keys -> {"none", "live", "dead"}]
    BY DEF TypeOK
<1>2. inflight' \in [Keys -> {"none", "live", "dead"}]
      /\ \A k \in Keys : Live(k)' <=> Live(k) /\ k # c
    BY <1>1 DEF Live
<1>3. \A q \in Requests, k \in Keys : Leads(q, k)' <=> Leads(q, k) /\ k # c
  <2>1. \A k \in Keys : Leads(r, k) => k = c
    BY DEF Leads
  <2> QED
    BY <2>1 DEF OwnInv
<1>4. \A s \in Slots, k \in Keys : Flies(s, k)' <=> Flies(s, k) /\ k # c
    BY DEF OwnInv
<1>5. \A q \in Requests : req'[q].pc = "wait" => inflight'[req'[q].key] = "live"
  <2> SUFFICES ASSUME NEW q \in Requests, req'[q].pc = "wait"
               PROVE  inflight'[req'[q].key] = "live"
    OBVIOUS
  <2>1. req[q].key \in Keys /\ req[q].pc = "wait" /\ req'[q].key = req[q].key /\ req[q].key # c
    BY RequestAt
  <2>2. inflight[req[q].key] = "live"
    BY <2>1 DEF OwnInv
  <2> QED
    BY <1>1, <2>1, <2>2
<1> QED
    BY <1>2, <1>3, <1>4, <1>5, OwnerEnds

\* So with the task of a slot.
LEMMA TaskEnds ==
    ASSUME TypeOK, OwnInv, NEW s \in Slots, NEW c \in Keys, Flies(s, c),
           inflight' = [inflight EXCEPT ![c] = "none"],
           \A k \in Keys : ~Flies(s, k)',
           \A t \in Slots, k \in Keys : t # s => (Flies(t, k)' <=> Flies(t, k)),
           \A q \in Requests, k \in Keys : Leads(q, k)' <=> Leads(q, k),
           \A q \in Requests : req'[q].pc = "wait" =>
               req[q].pc = "wait" /\ req'[q].key = req[q].key /\ req[q].key # c
    PROVE  OwnInv' /\ inflight' \in [Keys -> {"none", "live", "dead"}]
<1>1. inflight \in [Keys -> {"none", "live", "dead"}]
    BY DEF TypeOK
<1>2. inflight' \in [Keys -> {"none", "live", "dead"}]
      /\ \A k \in Keys : Live(k)' <=> Live(k) /\ k # c
    BY <1>1 DEF Live
<1>3. \A t \in Slots, k \in Keys : Flies(t, k)' <=> Flies(t, k) /\ k # c
  <2>1. \A k \in Keys : Flies(s, k) => k = c
    BY DEF Flies
  <2> QED
    BY <2>1 DEF OwnInv
<1>4. \A q \in Requests, k \in Keys : Leads(q, k)' <=> Leads(q, k) /\ k # c
    BY DEF OwnInv
<1>5. \A q \in Requests : req'[q].pc = "wait" => inflight'[req'[q].key] = "live"
  <2> SUFFICES ASSUME NEW q \in Requests, req'[q].pc = "wait"
               PROVE  inflight'[req'[q].key] = "live"
    OBVIOUS
  <2>1. req[q].key \in Keys /\ req[q].pc = "wait" /\ req'[q].key = req[q].key /\ req[q].key # c
    BY RequestAt
  <2>2. inflight[req[q].key] = "live"
    BY <2>1 DEF OwnInv
  <2> QED
    BY <1>1, <2>1, <2>2
<1> QED
    BY <1>2, <1>3, <1>4, <1>5, OwnerEnds

\* The requests in f are those in req, except that followers of the key have
\* been told.
Told(f, q, c) ==
    \/ f[q] = req[q] /\ ~(req[q].pc = "wait" /\ req[q].key = c)
    \/ req[q].pc = "wait" /\ req[q].key = c /\ f[q].pc = "told"

\* A request leaves its flight for `rec' and its followers are told: what
\* that does to the others.
LEMMA LeaveAndTell ==
    ASSUME TypeOK, NEW r \in Requests, NEW c \in Keys, NEW reqs \in [Requests -> Request],
           reqs[r].pc \in {"idle", "release"}, \A q \in Requests : q # r => reqs[q] = req[q],
           NEW state \in Outcomes \cup {"skipped", "gone"}
    PROVE  /\ Tell(reqs, c, state) \in [Requests -> Request]
           /\ Tell(reqs, c, state)[r] = reqs[r]
           /\ \A q \in Requests : q # r => Told(Tell(reqs, c, state), q, c)
<1> DEFINE f == Tell(reqs, c, state)
<1>1. /\ f \in [Requests -> Request]
      /\ \A q \in Requests :
            f[q] = IF reqs[q].pc = "wait" /\ reqs[q].key = c
                   THEN [pc |-> "told", key |-> c, state |-> state] ELSE reqs[q]
    BY TellFacts
<1> HIDE DEF f
<1>2. f[r] = reqs[r]
    BY <1>1
<1>3. ASSUME NEW q \in Requests, q # r PROVE Told(f, q, c)
  <2>1. f[q] = IF req[q].pc = "wait" /\ req[q].key = c
               THEN [pc |-> "told", key |-> c, state |-> state] ELSE req[q]
    BY <1>1, <1>3
  <2>2. CASE req[q].pc = "wait" /\ req[q].key = c
    BY <2>1, <2>2 DEF Told
  <2>3. CASE ~(req[q].pc = "wait" /\ req[q].key = c)
    BY <2>1, <2>3 DEF Told
  <2> QED
    BY <2>2, <2>3
<1> QED
    BY <1>1, <1>2, <1>3 DEF f

\* The same when a task tells them.
LEMMA OnlyTell ==
    ASSUME TypeOK, NEW c \in Keys, NEW state \in Outcomes \cup {"skipped", "gone"},
           req' = Tell(req, c, state)
    PROVE  /\ req' \in [Requests -> Request]
           /\ \A q \in Requests : Told(req', q, c)
<1>1. req \in [Requests -> Request]
    BY DEF TypeOK
<1>2. /\ req' \in [Requests -> Request]
      /\ \A q \in Requests : req'[q] = IF req[q].pc = "wait" /\ req[q].key = c
               THEN [pc |-> "told", key |-> c, state |-> state] ELSE req[q]
    BY <1>1, TellFacts
<1>3. ASSUME NEW q \in Requests PROVE Told(req', q, c)
  <2>1. CASE req[q].pc = "wait" /\ req[q].key = c
    BY <1>2, <2>1 DEF Told
  <2>2. CASE ~(req[q].pc = "wait" /\ req[q].key = c)
    BY <1>2, <2>2 DEF Told
  <2> QED
    BY <2>1, <2>2
<1> QED
    BY <1>2, <1>3

\* Queueing the key ends its flight.
LEMMA EnqueueIInv ==
    ASSUME IInv, NEW r \in Requests, enqueue_refresh(r)
    PROVE  IInv'
<1> DEFINE k == req[r].key
<1>0. TypeOK /\ OwnInv
    BY DEF IInv
<1>1. /\ req[r].pc = "queue" /\ inflight' = [inflight EXCEPT ![k] = "none"]
      /\ refresh_wait' = Queued(refresh_wait, <<req[r].at, k>>)
      /\ req' = Tell([req EXCEPT ![r] = Idle], k, "skipped")
      /\ \E b \in Backoff :
            entries' = IF HasEntry(k) THEN [entries EXCEPT ![k].next = clock + b] ELSE entries
      /\ UNCHANGED <<clock, max_entries, order, permits, waiters, slot, served, drops>>
    BY DEF enqueue_refresh
<1>2. k \in Keys /\ req[r].at \in Stamp
    BY <1>0, <1>1, RequestAt
<1>3. Leads(r, k)
    BY <1>1 DEF Leads
<1> HIDE DEF k
<1>4. /\ req' \in [Requests -> Request] /\ req'[r] = Idle
      /\ \A q \in Requests : q # r => Told(req', q, k)
  <2> DEFINE reqs == [req EXCEPT ![r] = Idle]
  <2>1. /\ reqs \in [Requests -> Request] /\ reqs[r] = Idle
        /\ \A q \in Requests : q # r => reqs[q] = req[q]
    BY <1>0, <1>2, Records DEF TypeOK
  <2>2. req' = Tell(reqs, k, "skipped") /\ Idle.pc \in {"idle", "release"}
    BY <1>1 DEF Idle
  <2> HIDE DEF reqs
  <2> QED
    BY <1>0, <1>2, <2>1, <2>2, LeaveAndTell
<1>5. OwnInv' /\ inflight' \in [Keys -> {"none", "live", "dead"}]
  <2>1. \A x \in Keys : ~Leads(r, x)'
    BY <1>4 DEF Leads, Idle
  <2>2. \A q \in Requests, x \in Keys : q # r => (Leads(q, x)' <=> Leads(q, x))
    BY <1>4 DEF Leads, Told
  <2>3. \A s \in Slots, x \in Keys : Flies(s, x)' <=> Flies(s, x)
    BY <1>1 DEF Flies
  <2>4. \A q \in Requests : req'[q].pc = "wait" =>
            req[q].pc = "wait" /\ req'[q].key = req[q].key /\ req[q].key # k
    BY <1>4 DEF Idle, Told
  <2> QED
    BY <1>0, <1>1, <1>2, <1>3, <2>1, <2>2, <2>3, <2>4, RequestEnds
<1>6. /\ refresh_wait' \subseteq Stamp \X Keys /\ IsFiniteSet(refresh_wait')
      /\ Cardinality(refresh_wait') <= max_entries
      /\ \A y, z \in refresh_wait' : y[2] = z[2] => y = z
  <2>1. <<req[r].at, k>> \in Stamp \X Keys /\ QueueInv
    BY <1>2 DEF IInv
  <2> QED
    BY <1>0, <1>1, <2>1, QueuedFacts
<1>7. /\ entries' \in [Keys -> Entry \cup {NoEntry}]
      /\ \A x \in Keys : HasEntry(x)' <=> HasEntry(x)
      /\ \A x \in Keys : HasEntry(x) => entries'[x].at = entries[x].at
  <2>1. PICK b \in Backoff :
            entries' = IF HasEntry(k) THEN [entries EXCEPT ![k].next = clock + b] ELSE entries
    BY <1>1
  <2>2. CASE HasEntry(k)
    <3>1. entries \in [Keys -> Entry \cup {NoEntry}] /\ entries[k] \in Entry
      BY <1>0, <1>2, <2>2 DEF TypeOK, HasEntry
    <3>2. clock + b \in Nat
      BY <1>0, Stamps, CacheAssumption
    <3> DEFINE e == [entries[k] EXCEPT !.next = clock + b]
    <3>3. e \in Entry /\ e.at = entries[k].at
      BY <3>1, <3>2 DEF Entry
    <3>5. entries' = [entries EXCEPT ![k] = e]
      BY <2>1, <2>2
    <3> HIDE DEF e
    <3>4. e # NoEntry
      BY <1>0, <3>3, EntryIsOne
    <3> QED
      BY <1>2, <2>2, <3>1, <3>3, <3>4, <3>5 DEF HasEntry
  <2>3. CASE ~HasEntry(k)
    BY <1>0, <2>1, <2>3 DEF HasEntry, TypeOK
  <2> QED
    BY <2>2, <2>3
<1>8. TypeOK'
    BY <1>0, <1>1, <1>4, <1>5, <1>6, <1>7, TypesSame DEF TypeOK
<1>9. PermitInv'
  <2>1. Holding' = Holding
    <3>1. ASSUME NEW q \in Requests PROVE q \in Holding' <=> q \in Holding
      <4>1. CASE q = r
        BY <1>1, <1>4, <4>1 DEF Holding, Idle
      <4>2. CASE q # r
        BY <1>4, <4>2 DEF Holding, Told
      <4> QED
        BY <4>1, <4>2
    <3> QED
      BY <3>1 DEF Holding
  <2>2. Busy' = Busy
    BY <1>1 DEF Busy
  <2>3. \A q \in Requests : req'[q].pc = "acquire" <=> req[q].pc = "acquire"
    <3> SUFFICES ASSUME NEW q \in Requests
                 PROVE  req'[q].pc = "acquire" <=> req[q].pc = "acquire"
      OBVIOUS
    <3>1. CASE q = r
      BY <1>1, <1>4, <3>1 DEF Idle
    <3>2. CASE q # r
      BY <1>4, <3>2 DEF Told
    <3> QED
      BY <3>1, <3>2
  <2> QED
    BY <1>1, <2>1, <2>2, <2>3, PermitsSame DEF IInv
<1>10. OrderInv'
    BY <1>1, <1>7 DEF IInv, OrderInv
<1>11. QueueInv'
    BY <1>1, <1>6 DEF QueueInv, QueueBounded
<1>12. StaleInv'
  <2>1. \A q \in Requests : req'[q].pc = "load" => req'[q] = req[q]
    BY <1>4 DEF Idle, Told
  <2>2. \A x \in Keys : Scans(x)' \subseteq Scans(x) \cup {clock}
    BY <1>1, <2>1, ScansStep
  <2>3. \A q \in Requests : req'[q].pc = "stale" => req'[q] = req[q]
    BY <1>4 DEF Idle, Told
  <2> QED
    BY <1>0, <1>1, <1>7, <2>2, <2>3, StaleSame DEF IInv
<1> QED
    BY <1>5, <1>8, <1>9, <1>10, <1>11, <1>12 DEF IInv

-----------------------------------------------------------------------------
(* finish_follower *)

\* A follower that ends, goes round the loop or is dropped.
LEMMA FollowerStep ==
    ASSUME IInv, NEW r \in Requests, NEW rec \in Request, To(r, rec),
           req[r].pc \in {"wait", "told", "stale"}, rec.pc \in {"idle", "retry"},
           served' \subseteq {"too_old", "no_scan_failed"}, ServedRight',
           drops' \in 0 .. MaxDrops,
           UNCHANGED <<clock, max_entries, entries, order, inflight, refresh_wait, permits,
                       waiters, slot>>
    PROVE  IInv'
<1>1. Apart(rec) /\ rec.pc # "wait" /\ (Apart(req[r]) \/ req[r].pc = "stale")
    BY DEF Apart
<1>2. inflight' \in [Keys -> {"none", "live", "dead"}] /\ order' \in Seq(Keys)
    BY DEF IInv, TypeOK
<1>3. \A k \in Keys : Live(k)' <=> Live(k)
    BY DEF Live
<1>4. OrderInv'
    BY OrderSame DEF IInv
<1> QED
    BY <1>1, <1>2, <1>3, <1>4, ApartStep

\* The answers of a step that serves nothing doubtful.
LEMMA Unserved ==
    ASSUME IInv, UNCHANGED <<max_entries, served>>
    PROVE  served' \subseteq {"too_old", "no_scan_failed"} /\ ServedRight'
BY ServedSame DEF IInv, TypeOK

\* A scan or its failure ends the call.
LEMMA FollowEndIInv ==
    ASSUME IInv, NEW r \in Requests, FollowEnd(r)
    PROVE  IInv'
<1>1. Idle \in Request /\ Idle.pc = "idle"
    BY DEF Request, Idle
<1>2. /\ req[r].pc = "told" /\ To(r, Idle) /\ drops' \in 0 .. MaxDrops
      /\ UNCHANGED <<clock, max_entries, entries, order, inflight, refresh_wait, permits,
                     waiters, slot, served>>
    BY DEF FollowEnd, IInv, TypeOK
<1> HIDE DEF Idle
<1> QED
    BY <1>1, <1>2, Unserved, FollowerStep

\* A board that may still be served is one no follower would refuse.
LEMMA FollowCheckIInv ==
    ASSUME IInv, NEW r \in Requests, FollowCheck(r)
    PROVE  IInv'
<1> DEFINE k == req[r].key
<1>0. TypeOK
    BY DEF IInv
<1>1. /\ req[r].pc = "told" /\ req[r].state \in {"skipped", "gone"}
      /\ \/ must_block(k) /\ To(r, [pc |-> "retry", key |-> k])
         \/ ~must_block(k) /\ To(r, [pc |-> "stale", key |-> k, state |-> req[r].state,
                                     seen |-> clock])
      /\ UNCHANGED <<clock, max_entries, entries, order, inflight, refresh_wait, permits,
                     waiters, slot, served, drops>>
    BY DEF FollowCheck
<1>2. k \in Keys
    BY <1>0, <1>1, RequestAt
<1> HIDE DEF k
<1>3. CASE To(r, [pc |-> "retry", key |-> k])
  <2> DEFINE rec == [pc |-> "retry", key |-> k]
  <2>1. rec \in Request /\ rec.pc = "retry" /\ To(r, rec)
    BY <1>2, <1>3, Records
  <2>2. drops' \in 0 .. MaxDrops
    BY <1>0, <1>1 DEF TypeOK
  <2> HIDE DEF rec
  <2> QED
    BY <1>1, <2>1, <2>2, Unserved, FollowerStep
<1>4. CASE ~must_block(k) /\ To(r, [pc |-> "stale", key |-> k, state |-> req[r].state,
                                    seen |-> clock])
  <2> DEFINE rec == [pc |-> "stale", key |-> k, state |-> req[r].state, seen |-> clock]
  <2>1. rec \in Request /\ rec.pc = "stale" /\ rec.key = k /\ rec.seen = clock
    BY <1>0, <1>1, <1>2, Records, Stamps
  <2> HIDE DEF rec
  <2>2. /\ req' \in [Requests -> Request] /\ req'[r] = rec
        /\ \A q \in Requests : q # r => req'[q] = req[q]
    <3>1. To(r, rec)
      BY <1>4 DEF rec
    <3> QED
      BY <1>0, <2>1, <3>1, ToFacts
  <2>3. TypeOK'
    BY <1>0, <1>1, <2>2, TypesSame DEF TypeOK
  <2>4. OwnInv'
    <3>1. \A q \in Requests, x \in Keys : Leads(q, x)' <=> Leads(q, x)
      BY <1>1, <2>1, <2>2 DEF Leads
    <3>2. \A t \in Slots, x \in Keys : Flies(t, x)' <=> Flies(t, x)
      BY <1>1 DEF Flies
    <3>3. \A q \in Requests : req'[q].pc = "wait" => inflight'[req'[q].key] = "live"
      BY <1>1, <2>1, <2>2 DEF IInv, OwnInv
    <3>4. \A x \in Keys : Live(x)' <=> Live(x)
      BY <1>1 DEF Live
    <3> QED
      BY <3>1, <3>2, <3>3, <3>4, OwnersSame DEF IInv
  <2>5. PermitInv'
    <3>1. Holding' = Holding
      BY <1>1, <2>1, <2>2 DEF Holding
    <3>2. Busy' = Busy
      BY <1>1 DEF Busy
    <3>3. \A q \in Requests : req'[q].pc = "acquire" <=> req[q].pc = "acquire"
      BY <1>1, <2>1, <2>2
    <3> QED
      BY <1>1, <3>1, <3>2, <3>3, PermitsSame DEF IInv
  <2>6. OrderInv' /\ QueueInv'
    BY <1>1, OrderSame, QueueSame DEF IInv
  <2>7. StaleInv'
    <3>1. \A x \in Keys : (HasEntry(x)' <=> HasEntry(x)) /\ Scans(x)' = Scans(x)
      BY <1>1, <2>1, <2>2 DEF HasEntry, Scans
    <3>2. HasEntry(k) /\ clock - entries[k].at < MaxStale
      <4>1. HasEntry(k) /\ ~(clock - entries[k].at >= MaxStale)
        BY <1>4 DEF must_block, TooStale, Age
      <4>2. entries[k] \in Entry
        BY <1>0, <1>2, <4>1 DEF TypeOK, HasEntry
      <4>3. entries[k].at \in Nat /\ clock \in Nat /\ MaxStale \in Nat
        BY <1>0, <4>2, Stamps, CacheAssumption DEF Entry
      <4> QED
        BY <4>1, <4>3
    <3>3. entries[k].at \in Nat /\ entries[k].at <= clock /\ clock \in Nat /\ MaxStale \in Nat
      <4>1. entries[k] \in Entry
        BY <1>0, <1>2, <3>2 DEF TypeOK, HasEntry
      <4> QED
        BY <1>0, <4>1, Stamps, CacheAssumption DEF Entry, Stamp
    <3>4. MaxStale > 0
      BY <3>2, <3>3
    <3>5. ASSUME NEW x \in Scans(k) PROVE clock - x < MaxStale
      <4>1. entries[k].at <= x
        BY <1>2, <3>2 DEF IInv, StaleInv
      <4>2. x \in Nat
        <5>1. x \in Stamp
          BY <1>0, RequestAt, TaskAt DEF Scans
        <5> QED
          BY <1>0, <5>1, Stamps
      <4> QED
        BY <3>2, <3>3, <4>1, <4>2
    <3>6. ASSUME NEW q \in Requests, req'[q].pc = "stale"
          PROVE  /\ MaxStale > 0
                 /\ HasEntry(req[q].key)' => req'[q].seen - entries'[req'[q].key].at < MaxStale
                 /\ \A x \in Scans(req[q].key)' : req'[q].seen - x < MaxStale
                 /\ Cardinality(Keys) <= max_entries' => HasEntry(req[q].key)'
      <4>1. CASE q = r
        <5>0. PICK c \in Keys : c = k
          BY <1>2
        <5>1. (HasEntry(req[q].key)' <=> HasEntry(c)) /\ Scans(req[q].key)' = Scans(c)'
          BY <1>1, <2>1, <2>2, <4>1, <5>0 DEF HasEntry, Scans
        <5>2. Scans(c)' = Scans(c)
          BY <5>0, <3>1
        <5> QED
          BY <1>1, <2>1, <2>2, <3>2, <3>4, <3>5, <4>1, <5>0, <5>1, <5>2
      <4>2. CASE q # r
        <5>1. req'[q] = req[q] /\ req[q].pc = "stale"
          BY <2>2, <3>6, <4>2
        <5>2. PICK c \in Keys : c = req[q].key
          BY <1>0, <5>1, RequestAt
        <5>3. (HasEntry(req[q].key)' <=> HasEntry(c)) /\ Scans(req[q].key)' = Scans(c)'
          BY <1>1, <5>1, <5>2 DEF HasEntry, Scans
        <5>4. Scans(c)' = Scans(c)
          BY <5>2, <3>1
        <5>5. /\ MaxStale > 0
              /\ HasEntry(c) => req[q].seen - entries[c].at < MaxStale
              /\ \A x \in Scans(c) : req[q].seen - x < MaxStale
              /\ Cardinality(Keys) <= max_entries => HasEntry(c)
          BY <5>1, <5>2 DEF IInv, StaleInv
        <5> QED
          BY <1>1, <5>1, <5>2, <5>3, <5>4, <5>5
      <4> QED
        BY <4>1, <4>2
    <3>7. \A x \in Keys : HasEntry(x)' => \A y \in Scans(x)' : entries'[x].at <= y
      BY <1>1, <3>1 DEF IInv, StaleInv
    <3>8. ServedRight'
      BY <1>1, Unserved
    <3> QED
      BY <3>6, <3>7, <3>8 DEF StaleInv
  <2> QED
    BY <2>3, <2>4, <2>5, <2>6, <2>7 DEF IInv
<1> QED
  BY <1>1, <1>3, <1>4

\* The second look finds the board the first one allowed, or none.
LEMMA FollowStaleIInv ==
    ASSUME IInv, NEW r \in Requests, FollowStale(r)
    PROVE  IInv'
<1> DEFINE k == req[r].key
           old == HasEntry(k) /\ req[r].seen - entries[k].at >= MaxStale
           err == ~HasEntry(k) /\ req[r].state = "gone"
<1>0. TypeOK
    BY DEF IInv
<1>1. /\ req[r].pc = "stale"
      /\ To(r, Idle) \/ To(r, [pc |-> "retry", key |-> k])
      /\ served' = served \cup (IF old THEN {"too_old"} ELSE {})
                          \cup (IF err THEN {"no_scan_failed"} ELSE {})
      /\ UNCHANGED <<clock, max_entries, entries, order, inflight, refresh_wait, permits,
                     waiters, slot, drops>>
    BY DEF FollowStale
<1>2. k \in Keys /\ req[r].seen \in Nat /\ MaxStale \in Nat
    BY <1>0, <1>1, RequestAt, Stamps, CacheAssumption
<1>3. ~old /\ (Cardinality(Keys) <= max_entries => ~err)
  <2>1. /\ HasEntry(k) => req[r].seen - entries[k].at < MaxStale
        /\ Cardinality(Keys) <= max_entries => HasEntry(k)
    BY <1>1 DEF IInv, StaleInv
  <2>2. HasEntry(k) => entries[k].at \in Nat
    <3>1. HasEntry(k) => entries[k] \in Entry
      BY <1>0, <1>2 DEF TypeOK, HasEntry
    <3> QED
      BY <1>0, <3>1, Stamps DEF Entry
  <2> QED
    BY <1>2, <2>1, <2>2
<1> HIDE DEF k, old, err
<1>4. served' \subseteq {"too_old", "no_scan_failed"} /\ ServedRight'
  <2>1. served \subseteq {"too_old", "no_scan_failed"} /\ ServedRight
    BY DEF IInv, TypeOK, StaleInv
  <2>2. served' \subseteq {"too_old", "no_scan_failed"}
    BY <1>1, <2>1
  <2>3. "too_old" \notin served'
    BY <1>1, <1>3, <2>1 DEF ServedRight, NeverTooOld
  <2>4. Cardinality(Keys) <= max_entries' => "no_scan_failed" \notin served'
    BY <1>1, <1>3, <2>1 DEF ServedRight, ErrorsFromScans
  <2> QED
    BY <2>2, <2>3, <2>4 DEF ServedRight, NeverTooOld, ErrorsFromScans
<1>5. PICK rec \in Request : rec.pc \in {"idle", "retry"} /\ To(r, rec)
  <2>1. Idle \in Request /\ [pc |-> "retry", key |-> k] \in Request
    BY <1>2, Records
  <2> QED
    BY <1>1, <2>1 DEF Idle
<1>6. drops' \in 0 .. MaxDrops
    BY <1>0, <1>1 DEF TypeOK
<1> QED
    BY <1>1, <1>4, <1>5, <1>6, FollowerStep

-----------------------------------------------------------------------------
(* The scan semaphore and the refresh slots. *)

\* A refresh slot is taken together with a permit.
LEMMA TakeSlotFacts ==
    ASSUME IInv, CanRefresh, NEW task \in Task, task # Idle, TakeSlot(task)
    PROVE  /\ \E t \in Slots : /\ slot[t] = Idle /\ slot'[t] = task
                               /\ \A s \in Slots : s # t => slot'[s] = slot[s]
           /\ slot' \in [Slots -> Task]
           /\ permits' = permits - 1 /\ permits' \in 0 .. MaxScans /\ waiters = <<>>
           /\ Cardinality(Busy') = Cardinality(Busy) + 1
<1> DEFINE t == CHOOSE s \in FreeSlots : TRUE
<1>1. t \in Slots /\ slot[t] = Idle
    BY DEF CanRefresh, FreeSlots
<1>2. slot \in [Slots -> Task] /\ permits \in 0 .. MaxScans /\ permits > 0
    BY DEF IInv, TypeOK, CanRefresh
<1>3. slot' = [slot EXCEPT ![t] = task] /\ permits' = permits - 1
    BY DEF TakeSlot
<1> HIDE DEF t
<1>4. /\ slot' \in [Slots -> Task] /\ slot'[t] = task
      /\ \A s \in Slots : s # t => slot'[s] = slot[s]
    BY <1>1, <1>2, <1>3
<1>5. Busy' = Busy \cup {t} /\ t \notin Busy
    BY <1>1, <1>4 DEF Busy
<1>6. IsFiniteSet(Busy)
    BY Finite DEF IInv
<1>7. Cardinality(Busy') = Cardinality(Busy) + 1
    BY <1>5, <1>6, FS_AddElement
<1>8. permits' \in 0 .. MaxScans
    BY <1>2, <1>3, CacheAssumption
<1>9. waiters = <<>>
    BY <1>2 DEF IInv, PermitInv
<1> QED
    BY <1>1, <1>3, <1>4, <1>7, <1>8, <1>9

\* The permits after that.
LEMMA SlotTaken ==
    ASSUME IInv, permits' = permits - 1, Cardinality(Busy') = Cardinality(Busy) + 1,
           waiters = <<>>, waiters' = waiters, Holding' = Holding,
           \A r \in Requests : req'[r].pc = "acquire" <=> req[r].pc = "acquire"
    PROVE  PermitInv'
<1>1. /\ permits \in Int /\ Cardinality(Holding) \in Nat /\ Cardinality(Busy) \in Nat
      /\ permits + Cardinality(Holding) + Cardinality(Busy) = MaxScans /\ MaxScans \in Nat
      /\ Range(waiters) = {r \in Requests : req[r].pc = "acquire"} /\ Distinct(waiters)
    BY Finite, CacheAssumption DEF IInv, TypeOK, PermitInv
<1>2. {r \in Requests : req'[r].pc = "acquire"} = {r \in Requests : req[r].pc = "acquire"}
    OBVIOUS
<1>3. permits' + Cardinality(Holding') + Cardinality(Busy') = MaxScans
    BY <1>1
<1> QED
    BY <1>1, <1>2, <1>3 DEF PermitInv

\* The caller of a refresh hands its flight to a task, or goes to the queue.
LEMMA StartRefreshIInv ==
    ASSUME IInv, NEW r \in Requests, StartRefresh(r)
    PROVE  IInv'
<1>0. TypeOK
    BY DEF IInv
<1>1. PICK k \in Keys : k = req[r].key
    BY <1>0, RequestAt DEF StartRefresh
<1>2. /\ req[r].pc = "refresh"
      /\ UNCHANGED <<clock, max_entries, entries, order, inflight, refresh_wait,
                     waiters, served, drops>>
      /\ \/ /\ CanRefresh
            /\ TakeSlot([pc |-> "granted", key |-> k])
            /\ To(r, Idle)
         \/ /\ ~CanRefresh
            /\ To(r, [pc |-> "queue", key |-> k, at |-> stored_at(k)])
            /\ UNCHANGED <<permits, slot>>
    BY <1>1 DEF StartRefresh
<1>3. OrderInv' /\ QueueInv'
    BY <1>2, OrderSame, QueueSame DEF IInv
<1>4. \A x \in Keys : Live(x)' <=> Live(x)
    BY <1>2 DEF Live
<1>5. CASE /\ CanRefresh
           /\ TakeSlot([pc |-> "granted", key |-> k])
           /\ To(r, Idle)
  <2> DEFINE task == [pc |-> "granted", key |-> k]
  <2>1. task \in Task /\ task # Idle /\ task.pc = "granted" /\ task.key = k
    BY Records DEF Idle
  <2>2. TakeSlot(task)
    BY <1>5
  <2> HIDE DEF task
  <2>3. /\ \E t \in Slots : /\ slot[t] = Idle /\ slot'[t] = task
                            /\ \A s \in Slots : s # t => slot'[s] = slot[s]
        /\ slot' \in [Slots -> Task]
        /\ permits' = permits - 1 /\ permits' \in 0 .. MaxScans /\ waiters = <<>>
        /\ Cardinality(Busy') = Cardinality(Busy) + 1
    BY <1>5, <2>1, <2>2, TakeSlotFacts
  <2>4. PICK t \in Slots : /\ slot[t] = Idle /\ slot'[t] = task
                           /\ \A s \in Slots : s # t => slot'[s] = slot[s]
    BY <2>3
  <2>5. Idle \in Request /\ Idle.pc = "idle"
    BY Records DEF Idle
  <2>6. /\ req' \in [Requests -> Request] /\ req'[r] = Idle
        /\ \A q \in Requests : q # r => req'[q] = req[q]
    BY <1>0, <1>5, <2>5, ToFacts
  <2>7. TypeOK'
    BY <1>0, <1>2, <2>3, <2>6, TypesSame DEF TypeOK
  <2>8. OwnInv'
    <3>1. Leads(r, k)
      BY <1>1, <1>2 DEF Leads
    <3>2. \A q \in Requests, x \in Keys : Leads(q, x)' <=> Leads(q, x) /\ ~(q = r /\ x = k)
      BY <1>1, <2>5, <2>6 DEF Leads
    <3>3. \A s \in Slots, x \in Keys : Flies(s, x)' <=> Flies(s, x) \/ (s = t /\ x = k)
      BY <2>1, <2>4, <2>5 DEF Flies
    <3>4. \A q \in Requests : req'[q].pc = "wait" => inflight'[req'[q].key] = "live"
      BY <1>2, <2>5, <2>6 DEF IInv, OwnInv
    <3> QED
      BY <1>4, <3>1, <3>2, <3>3, <3>4, OwnerSpawns DEF IInv
  <2>9. PermitInv'
    <3>1. Holding' = Holding
      BY <1>2, <2>5, <2>6 DEF Holding
    <3>2. \A q \in Requests : req'[q].pc = "acquire" <=> req[q].pc = "acquire"
      BY <1>2, <2>5, <2>6
    <3> QED
      BY <1>2, <2>3, <3>1, <3>2, SlotTaken
  <2>10. StaleInv'
    <3>1. \A q \in Requests : req'[q].pc = "load" => req'[q] = req[q]
      BY <2>5, <2>6
    <3>2. \A s \in Slots : slot'[s].pc = "load" => slot'[s] = slot[s]
      BY <2>1, <2>4
    <3>3. \A x \in Keys : Scans(x)' \subseteq Scans(x) \cup {clock}
      BY <3>1, <3>2, ScansStep
    <3>4. \A q \in Requests : req'[q].pc = "stale" => req'[q] = req[q]
      BY <2>5, <2>6
    <3> QED
      BY <1>2, <3>3, <3>4, StaleSame DEF IInv, HasEntry
  <2> QED
    BY <1>3, <2>7, <2>8, <2>9, <2>10 DEF IInv
<1>6. CASE /\ To(r, [pc |-> "queue", key |-> k, at |-> stored_at(k)])
           /\ UNCHANGED <<permits, slot>>
  <2> DEFINE rec == [pc |-> "queue", key |-> k, at |-> stored_at(k)]
  <2>1. stored_at(k) \in Stamp
    <3>1. CASE HasEntry(k)
      <4>1. entries[k] \in Entry
        BY <1>0, <3>1 DEF TypeOK, HasEntry
      <4> QED
        BY <3>1, <4>1 DEF Entry, stored_at
    <3>2. CASE ~HasEntry(k)
      BY <1>0, <3>2, Stamps DEF stored_at, Stamp
    <3> QED
      BY <3>1, <3>2
  <2>2. rec \in Request /\ rec.pc = "queue" /\ rec.key = k
    BY <2>1, Records
  <2>3. To(r, rec)
    BY <1>6
  <2> HIDE DEF rec
  <2>4. /\ req' \in [Requests -> Request] /\ req'[r] = rec
        /\ \A q \in Requests : q # r => req'[q] = req[q]
    BY <1>0, <2>2, <2>3, ToFacts
  <2>5. TypeOK'
    BY <1>0, <1>2, <1>6, <2>4, TypesSame DEF TypeOK
  <2>6. OwnInv'
    <3>1. \A q \in Requests, x \in Keys : Leads(q, x)' <=> Leads(q, x)
      BY <1>1, <1>2, <2>2, <2>4 DEF Leads
    <3>2. \A s \in Slots, x \in Keys : Flies(s, x)' <=> Flies(s, x)
      BY <1>6 DEF Flies
    <3>3. \A q \in Requests : req'[q].pc = "wait" => inflight'[req'[q].key] = "live"
      BY <1>2, <2>2, <2>4 DEF IInv, OwnInv
    <3> QED
      BY <1>4, <3>1, <3>2, <3>3, OwnersSame DEF IInv
  <2>7. PermitInv'
    <3>1. Holding' = Holding /\ Busy' = Busy
      BY <1>2, <1>6, <2>2, <2>4 DEF Holding, Busy
    <3>2. \A q \in Requests : req'[q].pc = "acquire" <=> req[q].pc = "acquire"
      BY <1>2, <2>2, <2>4
    <3> QED
      BY <1>2, <1>6, <3>1, <3>2, PermitsSame DEF IInv
  <2>8. StaleInv'
    <3>1. \A q \in Requests : req'[q].pc = "load" => req'[q] = req[q]
      BY <2>2, <2>4
    <3>2. \A x \in Keys : Scans(x)' \subseteq Scans(x) \cup {clock}
      BY <1>6, <3>1, ScansStep
    <3>3. \A q \in Requests : req'[q].pc = "stale" => req'[q] = req[q]
      BY <2>2, <2>4
    <3> QED
      BY <1>2, <3>2, <3>3, StaleSame DEF IInv, HasEntry
  <2> QED
    BY <1>3, <2>5, <2>6, <2>7, <2>8 DEF IInv
<1> QED
    BY <1>2, <1>5, <1>6

\* The board is stamped when its scan starts.
LEMMA StartScanIInv ==
    ASSUME IInv, NEW r \in Requests, StartScan(r)
    PROVE  IInv'
<1>0. TypeOK
    BY DEF IInv
<1>1. PICK k \in Keys : k = req[r].key
    BY <1>0, RequestAt DEF StartScan
<1> DEFINE rec == [pc |-> "load", key |-> k, started |-> clock]
<1>2. /\ req[r].pc = "granted" /\ To(r, rec)
      /\ UNCHANGED <<clock, max_entries, entries, order, inflight, refresh_wait, permits,
                     waiters, slot, served, drops>>
    BY <1>1 DEF StartScan
<1>3. rec \in Request /\ rec.pc = "load" /\ rec.key = k /\ rec.started = clock
    BY <1>0, Records, Stamps
<1> HIDE DEF rec
<1>4. /\ req' \in [Requests -> Request] /\ req'[r] = rec
      /\ \A q \in Requests : q # r => req'[q] = req[q]
    BY <1>0, <1>2, <1>3, ToFacts
<1>5. TypeOK'
    BY <1>0, <1>2, <1>4, TypesSame DEF TypeOK
<1>6. OwnInv'
  <2>1. \A q \in Requests, x \in Keys : Leads(q, x)' <=> Leads(q, x)
    BY <1>1, <1>2, <1>3, <1>4 DEF Leads
  <2>2. \A s \in Slots, x \in Keys : Flies(s, x)' <=> Flies(s, x)
    BY <1>2 DEF Flies
  <2>3. \A q \in Requests : req'[q].pc = "wait" => inflight'[req'[q].key] = "live"
    BY <1>2, <1>3, <1>4 DEF IInv, OwnInv
  <2>4. \A x \in Keys : Live(x)' <=> Live(x)
    BY <1>2 DEF Live
  <2> QED
    BY <2>1, <2>2, <2>3, <2>4, OwnersSame DEF IInv
<1>7. PermitInv'
  <2>1. Holding' = Holding /\ Busy' = Busy
    BY <1>2, <1>3, <1>4 DEF Holding, Busy
  <2>2. \A q \in Requests : req'[q].pc = "acquire" <=> req[q].pc = "acquire"
    BY <1>2, <1>3, <1>4
  <2> QED
    BY <1>2, <2>1, <2>2, PermitsSame DEF IInv
<1>8. StaleInv'
  <2>1. \A q \in Requests : req'[q].pc = "load" => req'[q] = req[q] \/ req'[q].started = clock
    BY <1>3, <1>4
  <2>2. \A x \in Keys : Scans(x)' \subseteq Scans(x) \cup {clock}
    BY <1>2, <2>1, ScansStep
  <2>3. \A q \in Requests : req'[q].pc = "stale" => req'[q] = req[q]
    BY <1>3, <1>4
  <2> QED
    BY <1>2, <2>2, <2>3, StaleSame DEF IInv, HasEntry
<1> QED
    BY <1>2, <1>5, <1>6, <1>7, <1>8, OrderSame, QueueSame DEF IInv

\* So with the scan of a task.
LEMMA StartTaskIInv ==
    ASSUME IInv, NEW s \in Slots, StartTask(s)
    PROVE  IInv'
<1>0. TypeOK
    BY DEF IInv
<1>1. PICK k \in Keys : k = slot[s].key
    BY <1>0, TaskAt DEF StartTask
<1> DEFINE task == [pc |-> "load", key |-> k, started |-> clock]
<1>2. /\ slot[s].pc = "granted" /\ slot' = [slot EXCEPT ![s] = task]
      /\ UNCHANGED <<clock, max_entries, entries, order, inflight, refresh_wait, permits,
                     waiters, req, served, drops>>
    BY <1>1 DEF StartTask
<1>3. task \in Task /\ task.pc = "load" /\ task.key = k /\ task.started = clock
    BY <1>0, Records, Stamps
<1> HIDE DEF task
<1>4. /\ slot' \in [Slots -> Task] /\ slot'[s] = task
      /\ \A t \in Slots : t # s => slot'[t] = slot[t]
    BY <1>0, <1>2, <1>3 DEF TypeOK
<1>5. TypeOK'
    BY <1>0, <1>2, <1>4, TypesSame DEF TypeOK
<1>6. OwnInv'
  <2>1. \A q \in Requests, x \in Keys : Leads(q, x)' <=> Leads(q, x)
    BY <1>2 DEF Leads
  <2>2. \A t \in Slots, x \in Keys : Flies(t, x)' <=> Flies(t, x)
    BY <1>1, <1>2, <1>3, <1>4 DEF Flies
  <2>3. \A q \in Requests : req'[q].pc = "wait" => inflight'[req'[q].key] = "live"
    BY <1>2 DEF IInv, OwnInv
  <2>4. \A x \in Keys : Live(x)' <=> Live(x)
    BY <1>2 DEF Live
  <2> QED
    BY <2>1, <2>2, <2>3, <2>4, OwnersSame DEF IInv
<1>7. PermitInv'
  <2>1. Holding' = Holding
    BY <1>2 DEF Holding
  <2>2. Busy' = Busy
    BY <1>2, <1>3, <1>4 DEF Busy, Idle
  <2> QED
    BY <1>2, <2>1, <2>2, PermitsSame DEF IInv
<1>8. StaleInv'
  <2>1. \A t \in Slots : slot'[t].pc = "load" => slot'[t] = slot[t] \/ slot'[t].started = clock
    BY <1>3, <1>4
  <2>2. \A x \in Keys : Scans(x)' \subseteq Scans(x) \cup {clock}
    BY <1>2, <2>1, ScansStep
  <2> QED
    BY <1>2, <2>2, StaleSame DEF IInv, HasEntry
<1> QED
    BY <1>2, <1>5, <1>6, <1>7, <1>8, OrderSame, QueueSame DEF IInv

\* A slot without a key is nobody's flight.
LEMMA OfferIInv ==
    ASSUME IInv, NEW r \in Requests, Offer(r)
    PROVE  IInv'
<1>0. TypeOK
    BY DEF IInv
<1>1. /\ req[r].pc = "offer" /\ To(r, Idle)
      /\ UNCHANGED <<clock, max_entries, entries, order, inflight, refresh_wait, waiters,
                     served, drops>>
      /\ \/ CanRefresh /\ TakeSlot([pc |-> "handoff"])
         \/ UNCHANGED <<permits, slot>>
    BY DEF Offer
<1>2. Idle \in Request /\ Idle.pc = "idle"
    BY DEF Request, Idle
<1>3. /\ req' \in [Requests -> Request] /\ req'[r] = Idle
      /\ \A q \in Requests : q # r => req'[q] = req[q]
    BY <1>0, <1>1, <1>2, ToFacts
<1>4. Holding' = Holding
    BY <1>1, <1>2, <1>3 DEF Holding
<1>5. \A q \in Requests : req'[q].pc = "acquire" <=> req[q].pc = "acquire"
    BY <1>1, <1>2, <1>3
<1>6. /\ slot' \in [Slots -> Task] /\ permits' \in 0 .. MaxScans /\ PermitInv'
      /\ \A s \in Slots : slot'[s] = slot[s] \/ (slot[s].pc = "idle" /\ slot'[s].pc = "handoff")
  <2>1. CASE CanRefresh /\ TakeSlot([pc |-> "handoff"])
    <3> DEFINE task == [pc |-> "handoff"]
    <3>1. task \in Task /\ task # Idle /\ task.pc = "handoff" /\ TakeSlot(task)
      BY <2>1 DEF Idle, Task
    <3> HIDE DEF task
    <3>2. /\ \E t \in Slots : /\ slot[t] = Idle /\ slot'[t] = task
                              /\ \A s \in Slots : s # t => slot'[s] = slot[s]
          /\ slot' \in [Slots -> Task]
          /\ permits' = permits - 1 /\ permits' \in 0 .. MaxScans /\ waiters = <<>>
          /\ Cardinality(Busy') = Cardinality(Busy) + 1
      BY <2>1, <3>1, TakeSlotFacts
    <3>3. PermitInv'
      BY <1>1, <1>4, <1>5, <3>2, SlotTaken
    <3> QED
      BY <1>2, <3>1, <3>2, <3>3
  <2>2. CASE UNCHANGED <<permits, slot>>
    <3>1. Busy' = Busy
      BY <2>2 DEF Busy
    <3>2. PermitInv'
      BY <1>1, <1>4, <1>5, <2>2, <3>1, PermitsSame DEF IInv
    <3> QED
      BY <1>0, <2>2, <3>2 DEF TypeOK
  <2> QED
    BY <1>1, <2>1, <2>2
<1>7. TypeOK'
    BY <1>0, <1>1, <1>3, <1>6, TypesSame DEF TypeOK
<1>8. OwnInv'
  <2>1. \A q \in Requests, x \in Keys : Leads(q, x)' <=> Leads(q, x)
    BY <1>1, <1>2, <1>3 DEF Leads
  <2>2. \A s \in Slots, x \in Keys : Flies(s, x)' <=> Flies(s, x)
    BY <1>6 DEF Flies
  <2>3. \A q \in Requests : req'[q].pc = "wait" => inflight'[req'[q].key] = "live"
    BY <1>1, <1>2, <1>3 DEF IInv, OwnInv
  <2>4. \A x \in Keys : Live(x)' <=> Live(x)
    BY <1>1 DEF Live
  <2> QED
    BY <2>1, <2>2, <2>3, <2>4, OwnersSame DEF IInv
<1>9. StaleInv'
  <2>1. \A q \in Requests : req'[q].pc = "load" => req'[q] = req[q]
    BY <1>2, <1>3
  <2>2. \A s \in Slots : slot'[s].pc = "load" => slot'[s] = slot[s]
    BY <1>6
  <2>3. \A x \in Keys : Scans(x)' \subseteq Scans(x) \cup {clock}
    BY <2>1, <2>2, ScansStep
  <2>4. \A q \in Requests : req'[q].pc = "stale" => req'[q] = req[q]
    BY <1>2, <1>3
  <2> QED
    BY <1>1, <2>3, <2>4, StaleSame DEF IInv, HasEntry
<1> QED
    BY <1>1, <1>6, <1>7, <1>8, <1>9, OrderSame, QueueSame DEF IInv

\* A request is as in f, or was in line there and has been given the permit.
Passed(f, q) ==
    \/ req'[q] = f[q]
    \/ f[q].pc = "acquire" /\ req'[q].pc = "granted" /\ req'[q].key = f[q].key

HoldingIn(f) == {r \in Requests : f[r].pc \in {"granted", "load", "release"}}

\* A permit that comes back is free, or the first in line has it.
LEMMA PermitReturned ==
    ASSUME IInv, NEW reqs \in [Requests -> Request], ReleasePermit(reqs),
           \A r \in Requests : reqs[r].pc = "acquire" <=> req[r].pc = "acquire",
           Cardinality(Busy') \in Nat,
           Cardinality(HoldingIn(reqs)) + Cardinality(Busy') =
               Cardinality(Holding) + Cardinality(Busy) - 1
    PROVE  /\ PermitInv' /\ permits' \in 0 .. MaxScans /\ waiters' \in Seq(Requests)
           /\ req' \in [Requests -> Request]
           /\ \A q \in Requests : Passed(reqs, q)
<1>1. /\ permits \in 0 .. MaxScans /\ waiters \in Seq(Requests) /\ MaxScans \in Nat
      /\ Cardinality(Holding) \in Nat /\ Cardinality(Busy) \in Nat
      /\ permits + Cardinality(Holding) + Cardinality(Busy) = MaxScans
      /\ waiters # <<>> => permits = 0
      /\ Range(waiters) = {q \in Requests : req[q].pc = "acquire"} /\ Distinct(waiters)
    BY Finite, CacheAssumption DEF IInv, TypeOK, PermitInv
<1>2. \A q \in Range(waiters) : reqs[q].pc = "acquire"
    BY <1>1
<1>3. IsFiniteSet(HoldingIn(reqs)) /\ Cardinality(HoldingIn(reqs)) \in Nat
  <2>1. HoldingIn(reqs) \in SUBSET Requests
    BY DEF HoldingIn
  <2> QED
    BY <2>1, CacheAssumption, FS_Subset, FS_CardinalityType
<1> DEFINE h0 == Cardinality(Holding)
           b0 == Cardinality(Busy)
           h1 == Cardinality(HoldingIn(reqs))
           b1 == Cardinality(Busy')
<1>6. /\ h0 \in Nat /\ b0 \in Nat /\ h1 \in Nat /\ b1 \in Nat
      /\ h1 + b1 = h0 + b0 - 1 /\ permits + h0 + b0 = MaxScans
    BY <1>1, <1>3
<1> HIDE DEF h0, b0, h1, b1
<1>7. /\ permits + 1 + h1 + b1 = MaxScans /\ permits + (h1 + 1) + b1 = MaxScans
      /\ permits + 1 <= MaxScans
  <2>1. permits \in Nat /\ MaxScans \in Nat
    BY <1>1
  <2>2. permits + 1 + h1 + b1 = MaxScans
    BY <1>6, <2>1
  <2> QED
    BY <1>6, <2>1, <2>2
<1>4. CASE waiters = <<>>
  <2>1. waiters' = waiters /\ permits' = permits + 1 /\ req' = reqs
    BY <1>4 DEF ReleasePermit
  <2>2. Holding' = HoldingIn(reqs)
    BY <2>1 DEF Holding, HoldingIn
  <2>3. permits' + Cardinality(Holding') + Cardinality(Busy') = MaxScans
    BY <1>7, <2>1, <2>2 DEF h1, b1
  <2>4. permits' \in 0 .. MaxScans
    BY <1>1, <1>7, <2>1
  <2>5. {q \in Requests : req'[q].pc = "acquire"} = {q \in Requests : req[q].pc = "acquire"}
    BY <2>1
  <2>6. PermitInv'
    BY <1>1, <1>4, <2>1, <2>3, <2>5 DEF PermitInv
  <2> QED
    BY <1>1, <2>1, <2>4, <2>6 DEF Passed
<1>5. CASE waiters # <<>>
  <2> DEFINE h == Head(waiters)
  <2>1. /\ waiters' = Tail(waiters) /\ permits' = permits
        /\ h \in Requests /\ reqs[h].pc = "acquire"
        /\ req' = [reqs EXCEPT ![h] = [pc |-> "granted", key |-> reqs[h].key]]
        /\ req' \in [Requests -> Request]
    BY <1>1, <1>2, <1>5, ReleaseFacts
  <2>2. /\ Tail(waiters) \in Seq(Requests) /\ Distinct(Tail(waiters))
        /\ Range(Tail(waiters)) = Range(waiters) \ {h}
    BY <1>1, <1>5, TailFacts
  <2> HIDE DEF h
  <2>3. /\ req'[h].pc = "granted" /\ req'[h].key = reqs[h].key
        /\ \A q \in Requests : q # h => req'[q] = reqs[q]
    BY <2>1
  <2>4. Holding' = HoldingIn(reqs) \cup {h} /\ h \notin HoldingIn(reqs)
    BY <2>1, <2>3 DEF Holding, HoldingIn
  <2>5. Cardinality(Holding') = Cardinality(HoldingIn(reqs)) + 1
    BY <1>3, <2>4, FS_AddElement
  <2>6. permits' + Cardinality(Holding') + Cardinality(Busy') = MaxScans
    BY <1>7, <2>1, <2>5 DEF h1, b1
  <2>7. {q \in Requests : req'[q].pc = "acquire"} = {q \in Requests : req[q].pc = "acquire"} \ {h}
    BY <2>1, <2>3
  <2>8. PermitInv'
    BY <1>1, <1>5, <2>1, <2>2, <2>6, <2>7 DEF PermitInv
  <2> QED
    BY <1>1, <2>1, <2>2, <2>3, <2>8 DEF Passed
<1> QED
    BY <1>4, <1>5

\* One fewer where one leaves.
LEMMA OneFewer ==
    ASSUME NEW S, IsFiniteSet(S), NEW x \in S
    PROVE  Cardinality(S \ {x}) \in Nat /\ Cardinality(S \ {x}) = Cardinality(S) - 1
<1>1. Cardinality(S \ {x}) = Cardinality(S) - 1
    BY FS_RemoveElement
<1>2. IsFiniteSet(S \ {x})
    BY FS_RemoveElement
<1> QED
    BY <1>1, <1>2, FS_CardinalityType

\* The permit of a scan that is over.
LEMMA ReleaseIInv ==
    ASSUME IInv, NEW r \in Requests, Release(r)
    PROVE  IInv'
<1>0. TypeOK
    BY DEF IInv
<1> DEFINE rec == [pc |-> "offer"]
           reqs == [req EXCEPT ![r] = rec]
<1>1. /\ req[r].pc = "release" /\ ReleasePermit(reqs)
      /\ UNCHANGED <<clock, max_entries, entries, order, inflight, refresh_wait, slot,
                     served, drops>>
    BY DEF Release
<1>2. rec \in Request /\ rec.pc = "offer"
    BY DEF Request
<1> HIDE DEF rec
<1>3. /\ reqs \in [Requests -> Request] /\ reqs[r] = rec
      /\ \A q \in Requests : q # r => reqs[q] = req[q]
    BY <1>0, <1>2 DEF TypeOK
<1> HIDE DEF reqs
<1>4. \A q \in Requests : reqs[q].pc = "acquire" <=> req[q].pc = "acquire"
    BY <1>1, <1>2, <1>3
<1>5. Busy' = Busy
    BY <1>1 DEF Busy
<1>6. HoldingIn(reqs) = Holding \ {r} /\ r \in Holding
    BY <1>1, <1>2, <1>3 DEF HoldingIn, Holding
<1>7. /\ Cardinality(Busy') \in Nat
      /\ Cardinality(HoldingIn(reqs)) + Cardinality(Busy') =
             Cardinality(Holding) + Cardinality(Busy) - 1
  <2>1. IsFiniteSet(Holding) /\ Cardinality(Holding) \in Nat /\ Cardinality(Busy) \in Nat
    BY <1>0, Finite
  <2>2. Cardinality(HoldingIn(reqs)) = Cardinality(Holding) - 1
    BY <1>6, <2>1, OneFewer
  <2> QED
    BY <1>5, <2>1, <2>2
<1>8. /\ PermitInv' /\ permits' \in 0 .. MaxScans /\ waiters' \in Seq(Requests)
      /\ req' \in [Requests -> Request]
      /\ \A q \in Requests : Passed(reqs, q)
    BY <1>1, <1>3, <1>4, <1>7, PermitReturned
<1>9. TypeOK'
    BY <1>0, <1>1, <1>8, TypesSame DEF TypeOK
<1>10. req'[r] = rec
    BY <1>2, <1>3, <1>8 DEF Passed
<1>11. \A q \in Requests : q # r =>
          \/ req'[q] = req[q]
          \/ req[q].pc = "acquire" /\ req'[q].pc = "granted" /\ req'[q].key = req[q].key
    BY <1>3, <1>8 DEF Passed
<1>12. OwnInv'
  <2>1. \A q \in Requests, x \in Keys : Leads(q, x)' <=> Leads(q, x)
    BY <1>1, <1>2, <1>10, <1>11 DEF Leads
  <2>2. \A s \in Slots, x \in Keys : Flies(s, x)' <=> Flies(s, x)
    BY <1>1 DEF Flies
  <2>3. \A q \in Requests : req'[q].pc = "wait" => inflight'[req'[q].key] = "live"
    BY <1>1, <1>2, <1>10, <1>11 DEF IInv, OwnInv
  <2>4. \A x \in Keys : Live(x)' <=> Live(x)
    BY <1>1 DEF Live
  <2> QED
    BY <2>1, <2>2, <2>3, <2>4, OwnersSame DEF IInv
<1>13. StaleInv'
  <2>1. \A q \in Requests : req'[q].pc = "load" => req'[q] = req[q]
    BY <1>2, <1>10, <1>11
  <2>2. \A x \in Keys : Scans(x)' \subseteq Scans(x) \cup {clock}
    BY <1>1, <2>1, ScansStep
  <2>3. \A q \in Requests : req'[q].pc = "stale" => req'[q] = req[q]
    BY <1>2, <1>10, <1>11
  <2> QED
    BY <1>1, <2>2, <2>3, StaleSame DEF IInv, HasEntry
<1> QED
    BY <1>1, <1>8, <1>9, <1>12, <1>13, OrderSame, QueueSame DEF IInv

-----------------------------------------------------------------------------
(* handoff *)

\* A set of numbers has a least one.
LEMMA LeastNatural ==
    ASSUME NEW T \in SUBSET Nat, T # {}
    PROVE  \E x \in T : \A y \in T : x <= y
<1> DEFINE R == OpToRel(<, Nat)
<1>1. IsWellFoundedOn(R, Nat)
    BY NatLessThanWellFounded
<1>2. \A x, y \in Nat : <<y, x>> \in R <=> y < x
    BY DEF OpToRel
<1> HIDE DEF R
<1>3. PICK x \in T : \A y \in T : ~(<<y, x>> \in R)
    BY <1>1, WFMin
<1>4. \A y \in T : ~(y < x)
    BY <1>2, <1>3
<1>5. \A y \in T : x <= y
    BY <1>4
<1> QED
    BY <1>5

\* A queue that is not empty has a first key.
LEMMA FirstExists ==
    ASSUME NEW due \in SUBSET (Nat \X Nat), IsFiniteSet(due), due # {},
           \A x, y \in due : x[2] = y[2] => x = y
    PROVE  \E x \in due : \A y \in due \ {x} : Before(x, y)
<1> DEFINE rank(y) == Cardinality({z \in due : Before(z, y)})
           T == {rank(y) : y \in due}
<1>1. \A y \in due : rank(y) \in Nat
    BY FS_Subset, FS_CardinalityType
<1>2. \A x, y \in due : Before(y, x) => rank(y) < rank(x)
    BY RankGrows
<1> HIDE DEF rank
<1>3. PICK n \in T : \A m \in T : n <= m
  <2>1. T \in SUBSET Nat /\ T # {}
    BY <1>1
  <2> HIDE DEF T
  <2> QED
    BY <2>1, LeastNatural
<1>4. PICK x \in due : n = rank(x)
    BY <1>3
<1>5. ASSUME NEW y \in due, y # x PROVE Before(x, y)
  <2>1. rank(x) <= rank(y) /\ rank(x) \in Nat /\ rank(y) \in Nat
    BY <1>1, <1>3, <1>4
  <2>2. ~Before(y, x)
    BY <1>2, <2>1
  <2>3. /\ x[1] \in Nat /\ x[2] \in Nat /\ y[1] \in Nat /\ y[2] \in Nat /\ x[2] # y[2]
    BY <1>5
  <2> QED
    BY <2>2, <2>3 DEF Before
<1> QED
    BY <1>5

\* The queue may lose keys.
LEMMA QueueShrinks ==
    ASSUME QueueInv, TypeOK, refresh_wait' \subseteq refresh_wait, max_entries' = max_entries
    PROVE  QueueInv'
<1>1. /\ IsFiniteSet(refresh_wait) /\ Cardinality(refresh_wait) <= max_entries
      /\ \A x, y \in refresh_wait : x[2] = y[2] => x = y /\ max_entries \in Nat
    BY CacheAssumption DEF QueueInv, QueueBounded, TypeOK
<1>2. refresh_wait' \in SUBSET refresh_wait
    OBVIOUS
<1>3. /\ IsFiniteSet(refresh_wait') /\ Cardinality(refresh_wait') <= Cardinality(refresh_wait)
    BY <1>1, <1>2, FS_Subset
<1>4. Cardinality(refresh_wait') \in Nat /\ Cardinality(refresh_wait) \in Nat /\ max_entries \in Nat
    BY <1>1, <1>3, FS_CardinalityType, CacheAssumption DEF TypeOK
<1>5. Cardinality(refresh_wait') <= max_entries'
    BY <1>1, <1>3, <1>4
<1> QED
    BY <1>1, <1>3, <1>5 DEF QueueInv, QueueBounded

\* The slot goes to a key that nobody flies, or back.
LEMMA HandoffIInv ==
    ASSUME IInv, NEW s \in Slots, handoff(s)
    PROVE  IInv'
<1>0. TypeOK
    BY DEF IInv
<1> DEFINE due == {x \in refresh_wait : Launchable(x)}
           first == CHOOSE x \in due : \A y \in due \ {x} : Before(x, y)
<1>1. /\ slot[s].pc = "handoff"
      /\ \/ /\ due # {}
            /\ refresh_wait' = {x \in refresh_wait : Before(first, x)}
            /\ inflight' = Fly(inflight, first[2])
            /\ slot' = [slot EXCEPT ![s] = [pc |-> "granted", key |-> first[2]]]
            /\ UNCHANGED <<permits, waiters, req>>
         \/ /\ due = {}
            /\ refresh_wait' = {}
            /\ slot' = [slot EXCEPT ![s] = Idle]
            /\ ReleasePermit(req)
            /\ UNCHANGED inflight
      /\ UNCHANGED <<clock, max_entries, entries, order, served, drops>>
    BY DEF handoff
<1>2. slot \in [Slots -> Task] /\ refresh_wait \subseteq Stamp \X Keys
      /\ inflight \in [Keys -> {"none", "live", "dead"}] /\ req \in [Requests -> Request]
    BY <1>0 DEF TypeOK
<1>3. OrderInv'
    BY <1>1, OrderSame DEF IInv
<1>4. CASE /\ due # {}
           /\ refresh_wait' = {x \in refresh_wait : Before(first, x)}
           /\ inflight' = Fly(inflight, first[2])
           /\ slot' = [slot EXCEPT ![s] = [pc |-> "granted", key |-> first[2]]]
           /\ UNCHANGED <<permits, waiters, req>>
  <2>1. first \in due
    <3>1. Stamp \subseteq Nat /\ Keys \subseteq Nat
      BY <1>0, Stamps, CacheAssumption
    <3>2. due \in SUBSET (Nat \X Nat)
      BY <1>2, <3>1
    <3>3. IsFiniteSet(due) /\ \A x, y \in due : x[2] = y[2] => x = y
      BY FS_Subset DEF IInv, QueueInv, QueueBounded
    <3> HIDE DEF due
    <3>4. \E x \in due : \A y \in due \ {x} : Before(x, y)
      BY <1>4, <3>2, <3>3, FirstExists
    <3> QED
      BY <3>4
  <2>2. PICK c \in Keys : c = first[2] /\ inflight[c] = "none"
    BY <1>2, <2>1 DEF Launchable
  <2> DEFINE task == [pc |-> "granted", key |-> c]
  <2>3. task \in Task /\ task.pc = "granted" /\ task.key = c
    BY Records
  <2>4. slot' = [slot EXCEPT ![s] = task] /\ inflight' = Fly(inflight, c)
        /\ refresh_wait' \subseteq refresh_wait
    BY <1>4, <2>2
  <2> HIDE DEF task, first, due
  <2>5. /\ slot' \in [Slots -> Task] /\ slot'[s] = task
        /\ \A t \in Slots : t # s => slot'[t] = slot[t]
    BY <1>2, <2>3, <2>4
  <2>6. /\ inflight' \in [Keys -> {"none", "live", "dead"}] /\ ~Live(c)
        /\ \A x \in Keys : Live(x)' <=> Live(x) \/ x = c
    BY <1>2, <2>2, <2>4 DEF Fly, Live
  <2>7. TypeOK'
    <3>1. refresh_wait' \subseteq Stamp \X Keys
      BY <1>2, <2>4
    <3> QED
      BY <1>0, <1>1, <1>4, <2>5, <2>6, <3>1, TypesSame DEF TypeOK
  <2>8. OwnInv'
    <3>1. \A q \in Requests, x \in Keys : Leads(q, x)' <=> Leads(q, x)
      BY <1>4 DEF Leads
    <3>2. \A t \in Slots, x \in Keys : Flies(t, x)' <=> Flies(t, x) \/ (t = s /\ x = c)
      BY <1>1, <2>3, <2>5 DEF Flies
    <3>3. \A q \in Requests : req'[q].pc = "wait" => inflight'[req'[q].key] = "live"
      <4> SUFFICES ASSUME NEW q \in Requests, req[q].pc = "wait"
                   PROVE  inflight'[req[q].key] = "live"
        BY <1>4
      <4>1. req[q].key \in Keys /\ inflight[req[q].key] = "live"
        BY <1>0, RequestAt DEF IInv, OwnInv
      <4> QED
        BY <2>6, <4>1 DEF Live
    <3> QED
      BY <2>6, <3>1, <3>2, <3>3, TaskEnters DEF IInv
  <2>9. PermitInv'
    <3>1. Holding' = Holding
      BY <1>4 DEF Holding
    <3>2. Busy' = Busy
      BY <1>1, <2>3, <2>5 DEF Busy, Idle
    <3> QED
      BY <1>4, <3>1, <3>2, PermitsSame DEF IInv
  <2>10. QueueInv'
    BY <1>0, <1>1, <2>4, QueueShrinks DEF IInv
  <2>11. StaleInv'
    <3>1. \A t \in Slots : slot'[t].pc = "load" => slot'[t] = slot[t]
      BY <2>3, <2>5
    <3>2. \A x \in Keys : Scans(x)' \subseteq Scans(x) \cup {clock}
      BY <1>4, <3>1, ScansStep
    <3> QED
      BY <1>1, <1>4, <3>2, StaleSame DEF IInv, HasEntry
  <2> QED
    BY <1>3, <2>7, <2>8, <2>9, <2>10, <2>11 DEF IInv
<1>5. CASE /\ refresh_wait' = {}
           /\ slot' = [slot EXCEPT ![s] = Idle]
           /\ ReleasePermit(req)
           /\ UNCHANGED inflight
  <2>1. Idle \in Task /\ Idle.pc = "idle"
    BY DEF Task, Idle
  <2>2. /\ slot' \in [Slots -> Task] /\ slot'[s] = Idle
        /\ \A t \in Slots : t # s => slot'[t] = slot[t]
    BY <1>2, <1>5, <2>1
  <2>3. Busy' = Busy \ {s} /\ s \in Busy
    BY <1>1, <2>1, <2>2 DEF Busy
  <2>4. HoldingIn(req) = Holding
    BY DEF HoldingIn, Holding
  <2>5. /\ Cardinality(Busy') \in Nat
        /\ Cardinality(HoldingIn(req)) + Cardinality(Busy') =
               Cardinality(Holding) + Cardinality(Busy) - 1
    <3>1. IsFiniteSet(Busy) /\ Cardinality(Holding) \in Nat /\ Cardinality(Busy) \in Nat
      BY <1>0, Finite
    <3>2. Cardinality(Busy') = Cardinality(Busy) - 1 /\ Cardinality(Busy') \in Nat
      BY <2>3, <3>1, OneFewer
    <3> QED
      BY <2>4, <3>1, <3>2
  <2>6. /\ PermitInv' /\ permits' \in 0 .. MaxScans /\ waiters' \in Seq(Requests)
        /\ req' \in [Requests -> Request]
        /\ \A q \in Requests : Passed(req, q)
    BY <1>2, <1>5, <2>5, PermitReturned
  <2>7. TypeOK'
    BY <1>0, <1>1, <1>5, <2>2, <2>6, TypesSame DEF TypeOK
  <2>8. OwnInv'
    <3>1. \A q \in Requests, x \in Keys : Leads(q, x)' <=> Leads(q, x)
      BY <2>6 DEF Leads, Passed
    <3>2. \A t \in Slots, x \in Keys : Flies(t, x)' <=> Flies(t, x)
      BY <1>1, <2>1, <2>2 DEF Flies
    <3>3. \A q \in Requests : req'[q].pc = "wait" => inflight'[req'[q].key] = "live"
      BY <1>5, <2>6 DEF IInv, OwnInv, Passed
    <3>4. \A x \in Keys : Live(x)' <=> Live(x)
      BY <1>5 DEF Live
    <3> QED
      BY <3>1, <3>2, <3>3, <3>4, OwnersSame DEF IInv
  <2>9. QueueInv'
    BY <1>0, <1>1, <1>5, QueueShrinks DEF IInv
  <2>10. StaleInv'
    <3>1. \A q \in Requests : req'[q].pc = "load" => req'[q] = req[q]
      BY <2>6 DEF Passed
    <3>2. \A t \in Slots : slot'[t].pc = "load" => slot'[t] = slot[t]
      BY <2>1, <2>2
    <3>3. \A x \in Keys : Scans(x)' \subseteq Scans(x) \cup {clock}
      BY <3>1, <3>2, ScansStep
    <3>4. \A q \in Requests : req'[q].pc = "stale" => req'[q] = req[q]
      BY <2>6 DEF Passed
    <3> QED
      BY <1>1, <3>3, <3>4, StaleSame DEF IInv, HasEntry
  <2> QED
    BY <1>3, <2>6, <2>7, <2>8, <2>9, <2>10 DEF IInv
<1> QED
    BY <1>1, <1>4, <1>5

-----------------------------------------------------------------------------
(* Scans that end. *)

\* The board a scan brings is newer than the stored one, and not too old for
\* anyone who is about to serve it; nothing is evicted where all keys fit.
LEMMA LoadedBoards ==
    ASSUME IInv, NEW k \in Keys, NEW st \in Stamp, st \in Scans(k), NEW outcome,
           Loaded(k, st, outcome), UNCHANGED <<clock, max_entries, served>>,
           Scans(k)' = {}, \A x \in Keys : Scans(x)' \subseteq Scans(x),
           \A r \in Requests : req'[r].pc = "stale" => req'[r] = req[r]
    PROVE  /\ entries' \in [Keys -> Entry \cup {NoEntry}] /\ order' \in Seq(Keys)
           /\ OrderInv' /\ StaleInv'
<1>0. TypeOK
    BY DEF IInv
<1>1. CASE outcome # "ready"
  <2>1. UNCHANGED <<entries, order>>
    BY <1>1 DEF Loaded
  <2>2. OrderInv'
    BY <2>1, OrderSame DEF IInv
  <2>3. \A x \in Keys : Scans(x)' \subseteq Scans(x) \cup {clock}
    OBVIOUS
  <2>4. StaleInv'
    BY <2>1, <2>3, StaleSame DEF IInv, HasEntry
  <2> QED
    BY <1>0, <2>1, <2>2, <2>4 DEF TypeOK
<1>2. CASE outcome = "ready"
  <2>1. PICK f \in FreshFor : store(k, [at |-> st, fresh |-> f, next |-> 0])
    BY <1>2 DEF Loaded
  <2> DEFINE e == [at |-> st, fresh |-> f, next |-> 0]
  <2>2. e \in Entry /\ e.at = st /\ store(k, e)
    BY <2>1 DEF Entry
  <2> HIDE DEF e
  <2>3. e # NoEntry
    BY <1>0, <2>2, EntryIsOne
  <2>4. OrderInv
    BY DEF IInv
  <2>5. /\ entries' \in [Keys -> Entry \cup {NoEntry}] /\ entries'[k] = e
        /\ \A x \in Keys : x # k => entries'[x] \in {entries[x], NoEntry}
        /\ Cardinality(Keys) <= max_entries =>
               \A x \in Keys : x # k => entries'[x] = entries[x]
        /\ order' \in Seq(Keys) /\ Distinct(order') /\ Len(order') <= max_entries
        /\ Range(order') = {x \in Keys : entries'[x] # NoEntry}
    BY <1>0, <2>2, <2>4, StoreFacts
  <2>6. OrderInv'
    BY <2>5 DEF OrderInv, HasEntry
  <2>7. \A x \in Keys : HasEntry(x)' /\ x # k => HasEntry(x) /\ entries'[x] = entries[x]
    BY <2>5 DEF HasEntry
  <2>8. \A x \in Keys : HasEntry(x)' => \A y \in Scans(x)' : entries'[x].at <= y
    BY <2>7 DEF IInv, StaleInv
  <2>9. ASSUME NEW r \in Requests, req'[r].pc = "stale"
        PROVE  /\ MaxStale > 0
               /\ HasEntry(req[r].key)' => req'[r].seen - entries'[req'[r].key].at < MaxStale
               /\ \A x \in Scans(req[r].key)' : req'[r].seen - x < MaxStale
               /\ Cardinality(Keys) <= max_entries' => HasEntry(req[r].key)'
    <3>1. req'[r] = req[r] /\ req[r].pc = "stale"
      BY <2>9
    <3>2. PICK c \in Keys : c = req[r].key
      BY <1>0, <3>1, RequestAt
    <3>3. /\ MaxStale > 0
          /\ HasEntry(c) => req[r].seen - entries[c].at < MaxStale
          /\ \A x \in Scans(c) : req[r].seen - x < MaxStale
          /\ Cardinality(Keys) <= max_entries => HasEntry(c)
      BY <3>1, <3>2 DEF IInv, StaleInv
    <3>4. (HasEntry(req[r].key)' <=> HasEntry(c)') /\ Scans(req[r].key)' = Scans(c)'
      BY <3>1, <3>2 DEF HasEntry, Scans
    <3>5. \A x \in Scans(c)' : req'[r].seen - x < MaxStale
      BY <3>1, <3>3
    <3>6. CASE c = k
      <4>1. HasEntry(c)' /\ entries'[c].at = st
        BY <2>2, <2>3, <2>5, <3>6 DEF HasEntry
      <4>2. req[r].seen - st < MaxStale
        BY <3>3, <3>6
      <4> QED
        BY <3>1, <3>2, <3>3, <3>4, <3>5, <4>1, <4>2
    <3>7. CASE c # k
      <4>1. HasEntry(c)' => HasEntry(c) /\ entries'[c] = entries[c]
        BY <2>7, <3>7
      <4>2. Cardinality(Keys) <= max_entries => HasEntry(c)'
        BY <2>5, <3>3, <3>7 DEF HasEntry
      <4> QED
        BY <3>1, <3>2, <3>3, <3>4, <3>5, <4>1, <4>2
    <3> QED
      BY <3>6, <3>7
  <2>10. ServedRight'
    BY ServedSame DEF IInv
  <2>11. StaleInv'
    BY <2>8, <2>9, <2>10 DEF StaleInv
  <2> QED
    BY <2>5, <2>6, <2>11
<1> QED
    BY <1>1, <1>2

\* A request's scan ends: the flight with it.
LEMMA FinishScanIInv ==
    ASSUME IInv, NEW r \in Requests, FinishScan(r)
    PROVE  IInv'
<1>0. TypeOK /\ OwnInv
    BY DEF IInv
<1>1. PICK k \in Keys : k = req[r].key
    BY <1>0, RequestAt DEF FinishScan
<1>2. /\ req[r].pc = "load"
      /\ UNCHANGED <<clock, max_entries, refresh_wait, permits, waiters, slot, served, drops>>
    BY DEF FinishScan
<1>3. PICK st \in Stamp : st = req[r].started
    BY <1>0, <1>2, RequestAt
<1>4. PICK outcome \in Outcomes :
          /\ Loaded(k, st, outcome)
          /\ req' = Tell([req EXCEPT ![r] = [pc |-> "release"]], k, outcome)
    BY <1>1, <1>3 DEF FinishScan
<1> DEFINE rec == [pc |-> "release"]
           reqs == [req EXCEPT ![r] = rec]
<1>5. rec \in Request /\ rec.pc = "release"
    BY DEF Request
<1>6. req' = Tell(reqs, k, outcome)
    BY <1>4
<1> HIDE DEF rec
<1>7. /\ reqs \in [Requests -> Request] /\ reqs[r] = rec
      /\ \A q \in Requests : q # r => reqs[q] = req[q]
    BY <1>0, <1>5 DEF TypeOK
<1> HIDE DEF reqs
<1>8. /\ req' \in [Requests -> Request] /\ req'[r] = rec
      /\ \A q \in Requests : q # r => Told(req', q, k)
  <2>1. reqs[r].pc \in {"idle", "release"} /\ outcome \in Outcomes \cup {"skipped", "gone"}
    BY <1>5, <1>7
  <2> QED
    BY <1>0, <1>6, <1>7, <2>1, LeaveAndTell
<1>9. \A q \in Requests : req'[q].pc = "load" => req'[q] = req[q] /\ q # r
    BY <1>5, <1>8 DEF Told
<1>10. \A q \in Requests : req'[q].pc = "stale" => req'[q] = req[q]
    BY <1>5, <1>8 DEF Told
<1>11. Leads(r, k) /\ st \in Scans(k)
    BY <1>1, <1>2, <1>3 DEF Leads, Scans
<1>12. Scans(k)' = {}
  <2> SUFFICES ASSUME NEW x \in Scans(k)' PROVE FALSE
    OBVIOUS
  <2>1. CASE \E q \in Requests : req'[q].pc = "load" /\ req'[q].key = k
    <3>1. PICK q \in Requests : req'[q].pc = "load" /\ req'[q].key = k
      BY <2>1
    <3>2. Leads(q, k) /\ q # r
      BY <1>9, <3>1 DEF Leads
    <3> QED
      BY <1>0, <1>11, <3>2 DEF OwnInv
  <2>2. CASE \E s \in Slots : slot[s].pc = "load" /\ slot[s].key = k
    <3>1. PICK s \in Slots : slot[s].pc = "load" /\ slot[s].key = k
      BY <2>2
    <3>2. Flies(s, k)
      BY <3>1 DEF Flies
    <3> QED
      BY <1>0, <1>11, <3>2 DEF OwnInv
  <2> QED
    BY <1>2, <2>1, <2>2 DEF Scans
<1>13. \A x \in Keys : Scans(x)' \subseteq Scans(x)
    BY <1>2, <1>9 DEF Scans
<1>14. /\ entries' \in [Keys -> Entry \cup {NoEntry}] /\ order' \in Seq(Keys)
       /\ OrderInv' /\ StaleInv'
    BY <1>2, <1>4, <1>10, <1>11, <1>12, <1>13, LoadedBoards
<1>15. OwnInv' /\ inflight' \in [Keys -> {"none", "live", "dead"}]
  <2>1. \A x \in Keys : ~Leads(r, x)'
    BY <1>5, <1>8 DEF Leads
  <2>2. \A q \in Requests, x \in Keys : q # r => (Leads(q, x)' <=> Leads(q, x))
    BY <1>8 DEF Leads, Told
  <2>3. \A s \in Slots, x \in Keys : Flies(s, x)' <=> Flies(s, x)
    BY <1>2 DEF Flies
  <2>4. \A q \in Requests : req'[q].pc = "wait" =>
            req[q].pc = "wait" /\ req'[q].key = req[q].key /\ req[q].key # k
    BY <1>5, <1>8 DEF Told
  <2>5. inflight' = [inflight EXCEPT ![k] = "none"]
    BY <1>4 DEF Loaded
  <2> QED
    BY <1>0, <1>11, <2>1, <2>2, <2>3, <2>4, <2>5, RequestEnds
<1>16. TypeOK'
    BY <1>0, <1>2, <1>8, <1>14, <1>15, TypesSame DEF TypeOK
<1>17. PermitInv'
  <2>1. ASSUME NEW q \in Requests
        PROVE  (q \in Holding' <=> q \in Holding) /\ (req'[q].pc = "acquire" <=> req[q].pc = "acquire")
    <3>1. CASE q = r
      BY <1>2, <1>5, <1>8, <3>1 DEF Holding
    <3>2. CASE q # r
      BY <1>8, <3>2 DEF Holding, Told
    <3> QED
      BY <3>1, <3>2
  <2>2. Holding' = Holding
    BY <2>1 DEF Holding
  <2>3. Busy' = Busy
    BY <1>2 DEF Busy
  <2> QED
    BY <1>2, <2>1, <2>2, <2>3, PermitsSame DEF IInv
<1> QED
    BY <1>2, <1>14, <1>15, <1>16, <1>17, QueueSame DEF IInv

\* So with a task's.
LEMMA FinishTaskIInv ==
    ASSUME IInv, NEW s \in Slots, FinishTask(s)
    PROVE  IInv'
<1>0. TypeOK /\ OwnInv
    BY DEF IInv
<1>1. PICK k \in Keys : k = slot[s].key
    BY <1>0, TaskAt DEF FinishTask
<1>2. /\ slot[s].pc = "load"
      /\ UNCHANGED <<clock, max_entries, refresh_wait, permits, waiters, served, drops>>
    BY DEF FinishTask
<1>3. PICK st \in Stamp : st = slot[s].started
    BY <1>0, <1>2, TaskAt
<1>4. PICK outcome \in Outcomes : Loaded(k, st, outcome) /\ req' = Tell(req, k, outcome)
    BY <1>1, <1>3 DEF FinishTask
<1> DEFINE task == [pc |-> "handoff"]
<1>5. task \in Task /\ task.pc = "handoff" /\ slot' = [slot EXCEPT ![s] = task]
    BY DEF Task, FinishTask
<1> HIDE DEF task
<1>6. /\ slot' \in [Slots -> Task] /\ slot'[s] = task
      /\ \A t \in Slots : t # s => slot'[t] = slot[t]
    BY <1>0, <1>5 DEF TypeOK
<1>8. /\ req' \in [Requests -> Request] /\ \A q \in Requests : Told(req', q, k)
  <2>1. outcome \in Outcomes \cup {"skipped", "gone"}
    OBVIOUS
  <2> QED
    BY <1>0, <1>4, <2>1, OnlyTell
<1>9. \A q \in Requests : req'[q].pc = "load" => req'[q] = req[q]
    BY <1>8 DEF Told
<1>10. \A q \in Requests : req'[q].pc = "stale" => req'[q] = req[q]
    BY <1>8 DEF Told
<1>11. Flies(s, k) /\ st \in Scans(k)
    BY <1>1, <1>2, <1>3 DEF Flies, Scans
<1>12. Scans(k)' = {}
  <2> SUFFICES ASSUME NEW x \in Scans(k)' PROVE FALSE
    OBVIOUS
  <2>1. CASE \E q \in Requests : req'[q].pc = "load" /\ req'[q].key = k
    <3>1. PICK q \in Requests : req'[q].pc = "load" /\ req'[q].key = k
      BY <2>1
    <3>2. Leads(q, k)
      BY <1>9, <3>1 DEF Leads
    <3> QED
      BY <1>0, <1>11, <3>2 DEF OwnInv
  <2>2. CASE \E t \in Slots : slot'[t].pc = "load" /\ slot'[t].key = k
    <3>1. PICK t \in Slots : slot'[t].pc = "load" /\ slot'[t].key = k
      BY <2>2
    <3>2. Flies(t, k) /\ t # s
      BY <1>5, <1>6, <3>1 DEF Flies
    <3> QED
      BY <1>0, <1>11, <3>2 DEF OwnInv
  <2> QED
    BY <2>1, <2>2 DEF Scans
<1>13. \A x \in Keys : Scans(x)' \subseteq Scans(x)
  <2>1. \A t \in Slots : slot'[t].pc = "load" => slot'[t] = slot[t]
    BY <1>5, <1>6
  <2> QED
    BY <1>9, <2>1 DEF Scans
<1>14. /\ entries' \in [Keys -> Entry \cup {NoEntry}] /\ order' \in Seq(Keys)
       /\ OrderInv' /\ StaleInv'
    BY <1>2, <1>4, <1>10, <1>11, <1>12, <1>13, LoadedBoards
<1>15. OwnInv' /\ inflight' \in [Keys -> {"none", "live", "dead"}]
  <2>1. \A x \in Keys : ~Flies(s, x)'
    BY <1>5, <1>6 DEF Flies
  <2>2. \A t \in Slots, x \in Keys : t # s => (Flies(t, x)' <=> Flies(t, x))
    BY <1>6 DEF Flies
  <2>3. \A q \in Requests, x \in Keys : Leads(q, x)' <=> Leads(q, x)
    BY <1>8 DEF Leads, Told
  <2>4. \A q \in Requests : req'[q].pc = "wait" =>
            req[q].pc = "wait" /\ req'[q].key = req[q].key /\ req[q].key # k
    BY <1>8 DEF Told
  <2>5. inflight' = [inflight EXCEPT ![k] = "none"]
    BY <1>4 DEF Loaded
  <2> QED
    BY <1>0, <1>11, <2>1, <2>2, <2>3, <2>4, <2>5, TaskEnds
<1>16. TypeOK'
    BY <1>0, <1>2, <1>6, <1>8, <1>14, <1>15, TypesSame DEF TypeOK
<1>17. PermitInv'
  <2>1. Holding' = Holding
    BY <1>8 DEF Holding, Told
  <2>2. Busy' = Busy
    BY <1>2, <1>5, <1>6 DEF Busy, Idle
  <2>3. \A q \in Requests : req'[q].pc = "acquire" <=> req[q].pc = "acquire"
    BY <1>8 DEF Told
  <2> QED
    BY <1>2, <2>1, <2>2, <2>3, PermitsSame DEF IInv
<1> QED
    BY <1>2, <1>14, <1>15, <1>16, <1>17, QueueSame DEF IInv

-----------------------------------------------------------------------------
(* Requests that are dropped. *)

\* A leader that is dropped, whether it holds a permit or stands in line,
\* leaves a dead flight and followers that know.
LEMMA DropOwner ==
    ASSUME IInv, NEW r \in Requests, NEW k \in Keys, Leads(r, k),
           inflight' = [inflight EXCEPT ![k] = "dead"],
           NEW f \in [Requests -> Request], f[r] = Idle,
           \A q \in Requests : q # r => Told(f, q, k),
           req' \in [Requests -> Request], \A q \in Requests : Passed(f, q),
           permits' \in 0 .. MaxScans, waiters' \in Seq(Requests), PermitInv',
           drops' \in 0 .. MaxDrops,
           UNCHANGED <<clock, max_entries, entries, order, refresh_wait, slot, served>>
    PROVE  IInv'
<1>0. TypeOK /\ OwnInv
    BY DEF IInv
<1>1. Idle.pc = "idle"
    BY DEF Idle
<1>2. req'[r].pc = "idle"
    BY <1>1 DEF Passed
<1>3. ASSUME NEW q \in Requests, q # r
      PROVE  /\ \A x \in Keys : Leads(q, x)' <=> Leads(q, x)
             /\ req'[q].pc = "wait" =>
                   req[q].pc = "wait" /\ req'[q].key = req[q].key /\ req[q].key # k
             /\ req'[q].pc \in {"load", "stale"} => req'[q] = req[q]
  <2>1. Told(f, q, k) /\ Passed(f, q)
    BY <1>3
  <2>2. CASE f[q] = req[q] /\ ~(req[q].pc = "wait" /\ req[q].key = k)
    BY <2>1, <2>2 DEF Passed, Leads
  <2>3. CASE req[q].pc = "wait" /\ req[q].key = k /\ f[q].pc = "told"
    BY <2>1, <2>3 DEF Passed, Leads
  <2> QED
    BY <2>1, <2>2, <2>3 DEF Told
<1>4. OwnInv' /\ inflight' \in [Keys -> {"none", "live", "dead"}]
  <2>1. \A x \in Keys : ~Leads(r, x)'
    BY <1>2 DEF Leads
  <2>2. \A s \in Slots, x \in Keys : Flies(s, x)' <=> Flies(s, x)
    BY DEF Flies
  <2>3. \A q \in Requests : req'[q].pc = "wait" =>
            req[q].pc = "wait" /\ req'[q].key = req[q].key /\ req[q].key # k
    BY <1>2, <1>3
  <2> QED
    BY <1>0, <1>3, <2>1, <2>2, <2>3, RequestEnds
<1>5. TypeOK'
    BY <1>0, <1>4, TypesSame DEF TypeOK
<1>6. StaleInv'
  <2>1. \A q \in Requests : req'[q].pc \in {"load", "stale"} => req'[q] = req[q]
    BY <1>2, <1>3
  <2>2. \A x \in Keys : Scans(x)' \subseteq Scans(x) \cup {clock}
    BY <2>1, ScansStep
  <2> QED
    BY <2>1, <2>2, StaleSame DEF IInv, HasEntry
<1> QED
    BY <1>4, <1>5, <1>6, OrderSame, QueueSame DEF IInv

\* What a dropped leader leaves behind.
LEMMA DropTell ==
    ASSUME IInv, NEW r \in Requests, NEW k \in Keys, req[r].pc \in {"acquire", "granted", "load"},
           NEW f, f = Tell([req EXCEPT ![r] = Idle], k, "gone")
    PROVE  /\ f \in [Requests -> Request] /\ f[r] = Idle
           /\ \A q \in Requests : q # r => Told(f, q, k)
           /\ \A q \in Requests : q # r => (f[q].pc = "acquire" <=> req[q].pc = "acquire")
           /\ HoldingIn(f) = Holding \ {r}
<1> DEFINE reqs == [req EXCEPT ![r] = Idle]
<1>1. Idle \in Request /\ Idle.pc = "idle"
    BY DEF Request, Idle
<1>2. /\ reqs \in [Requests -> Request] /\ reqs[r] = Idle
      /\ \A q \in Requests : q # r => reqs[q] = req[q]
    BY <1>1 DEF IInv, TypeOK
<1>3. f = Tell(reqs, k, "gone") /\ reqs[r].pc \in {"idle", "release"}
    BY <1>1, <1>2
<1> HIDE DEF reqs
<1>4. /\ f \in [Requests -> Request] /\ f[r] = Idle
      /\ \A q \in Requests : q # r => Told(f, q, k)
  <2> DEFINE g == Tell(reqs, k, "gone")
  <2>1. TypeOK /\ "gone" \in Outcomes \cup {"skipped", "gone"}
    BY DEF IInv
  <2>2. /\ g \in [Requests -> Request] /\ g[r] = reqs[r]
        /\ \A q \in Requests : q # r => Told(g, q, k)
    BY <1>2, <1>3, <2>1, LeaveAndTell
  <2> QED
    BY <1>2, <1>3, <2>2
<1>5. ASSUME NEW q \in Requests
      PROVE  /\ q # r => (f[q].pc = "acquire" <=> req[q].pc = "acquire")
             /\ q \in HoldingIn(f) <=> q \in Holding \ {r}
  <2>1. CASE q = r
    BY <1>1, <1>4, <2>1 DEF HoldingIn
  <2>2. CASE q # r
    BY <1>4, <2>2 DEF HoldingIn, Holding, Told
  <2> QED
    BY <2>1, <2>2
<1>6. HoldingIn(f) = Holding \ {r}
    BY <1>5 DEF HoldingIn, Holding
<1> QED
    BY <1>4, <1>5, <1>6

\* A caller may go away at any await.
LEMMA DropIInv ==
    ASSUME IInv, NEW r \in Requests, Drop(r)
    PROVE  IInv'
<1>0. TypeOK
    BY DEF IInv
<1>1. /\ drops' \in 0 .. MaxDrops
      /\ UNCHANGED <<clock, max_entries, entries, order, refresh_wait, slot, served>>
    BY <1>0, CacheAssumption DEF Drop, TypeOK
<1>2. CASE DropFollower(r)
  <2>1. Idle \in Request /\ Idle.pc = "idle"
    BY DEF Request, Idle
  <2>2. req[r].pc \in {"wait", "told"} /\ To(r, Idle) /\ UNCHANGED <<inflight, permits, waiters>>
    BY <1>2 DEF DropFollower
  <2> HIDE DEF Idle
  <2> QED
    BY <1>1, <2>1, <2>2, Unserved, FollowerStep
<1>3. CASE DropLeader(r)
  <2>1. PICK k \in Keys : k = req[r].key
    BY <1>0, <1>3, RequestAt DEF DropLeader
  <2> DEFINE f == Tell([req EXCEPT ![r] = Idle], k, "gone")
  <2>2. /\ req[r].pc \in {"granted", "load"} /\ inflight' = [inflight EXCEPT ![k] = "dead"]
        /\ ReleasePermit(f)
    BY <1>3, <2>1 DEF DropLeader
  <2>3. /\ f \in [Requests -> Request] /\ f[r] = Idle
        /\ \A q \in Requests : q # r => Told(f, q, k)
        /\ \A q \in Requests : q # r => (f[q].pc = "acquire" <=> req[q].pc = "acquire")
        /\ HoldingIn(f) = Holding \ {r}
    BY <2>2, DropTell
  <2> HIDE DEF f
  <2>4. Leads(r, k) /\ r \in Holding
    BY <2>1, <2>2 DEF Leads, Holding
  <2>5. \A q \in Requests : f[q].pc = "acquire" <=> req[q].pc = "acquire"
    BY <2>2, <2>3 DEF Idle
  <2>6. Busy' = Busy
    BY <1>1 DEF Busy
  <2>7. /\ Cardinality(Busy') \in Nat
        /\ Cardinality(HoldingIn(f)) + Cardinality(Busy') =
               Cardinality(Holding) + Cardinality(Busy) - 1
    <3>1. IsFiniteSet(Holding) /\ Cardinality(Holding) \in Nat /\ Cardinality(Busy) \in Nat
      BY <1>0, Finite
    <3>2. Cardinality(HoldingIn(f)) = Cardinality(Holding) - 1
      BY <2>3, <2>4, <3>1, OneFewer
    <3> QED
      BY <2>6, <3>1, <3>2
  <2>8. /\ PermitInv' /\ permits' \in 0 .. MaxScans /\ waiters' \in Seq(Requests)
        /\ req' \in [Requests -> Request]
        /\ \A q \in Requests : Passed(f, q)
    BY <2>2, <2>3, <2>5, <2>7, PermitReturned
  <2> QED
    BY <1>1, <2>2, <2>3, <2>4, <2>8, DropOwner
<1>4. CASE DropInLine(r)
  <2>1. PICK k \in Keys : k = req[r].key
    BY <1>0, <1>4, RequestAt DEF DropInLine
  <2> DEFINE f == Tell([req EXCEPT ![r] = Idle], k, "gone")
  <2>2. /\ req[r].pc = "acquire" /\ inflight' = [inflight EXCEPT ![k] = "dead"]
        /\ waiters' = Without(waiters, r) /\ req' = f /\ permits' = permits
    BY <1>4, <2>1 DEF DropInLine
  <2>3. /\ f \in [Requests -> Request] /\ f[r] = Idle
        /\ \A q \in Requests : q # r => Told(f, q, k)
        /\ \A q \in Requests : q # r => (f[q].pc = "acquire" <=> req[q].pc = "acquire")
        /\ HoldingIn(f) = Holding \ {r}
    BY <2>2, DropTell
  <2> HIDE DEF f
  <2>4. Leads(r, k) /\ Holding' = Holding /\ Busy' = Busy
    BY <1>1, <2>1, <2>2, <2>3 DEF Leads, Holding, HoldingIn, Busy
  <2>5. /\ permits \in 0 .. MaxScans /\ waiters \in Seq(Requests)
        /\ permits + Cardinality(Holding) + Cardinality(Busy) = MaxScans
        /\ waiters # <<>> => permits = 0
        /\ Range(waiters) = {q \in Requests : req[q].pc = "acquire"} /\ Distinct(waiters)
    BY DEF IInv, TypeOK, PermitInv
  <2>6. r \in Range(waiters)
    BY <2>2, <2>5
  <2>7. waiters # <<>>
    BY <2>6 DEF Range
  <2>8. /\ waiters' \in Seq(Requests) /\ Distinct(waiters')
        /\ Range(waiters') = Range(waiters) \ {r}
    BY <2>2, <2>5, <2>6, WithoutFacts
  <2>9. {q \in Requests : req'[q].pc = "acquire"} = {q \in Requests : req[q].pc = "acquire"} \ {r}
    BY <2>2, <2>3 DEF Idle
  <2>10. PermitInv'
    BY <2>2, <2>4, <2>5, <2>7, <2>8, <2>9 DEF PermitInv
  <2>11. \A q \in Requests : Passed(f, q)
    BY <2>2 DEF Passed
  <2> QED
    BY <1>1, <2>2, <2>3, <2>4, <2>5, <2>8, <2>10, <2>11, DropOwner
<1> QED
    BY <1>2, <1>3, <1>4 DEF Drop

-----------------------------------------------------------------------------
(* The whole. *)

\* Time passes for nobody in particular.
LEMMA TickIInv == IInv /\ Tick => IInv'
<1> SUFFICES ASSUME IInv, Tick PROVE IInv'
    OBVIOUS
<1>0. TypeOK /\ clock \in Nat
    BY Stamps DEF IInv
<1>1. /\ clock' = clock + 1 /\ clock < MaxTime
      /\ UNCHANGED <<max_entries, entries, order, inflight, refresh_wait, permits,
                     waiters, req, slot, served, drops>>
    BY DEF Tick
<1>2. clock' \in 0 .. MaxTime /\ Stamp \subseteq Stamp'
    BY <1>0, <1>1, CacheAssumption DEF Stamp
<1>3. Request \subseteq Request'
    BY <1>2, SMTT(30) DEF Request
<1>4. Task \subseteq Task'
    BY <1>2, SMTT(30) DEF Task
<1>5. Entry \subseteq Entry'
    BY <1>2 DEF Entry
<1>6. TypeOK'
  <2>1. req' \in [Requests -> Request'] /\ slot' \in [Slots -> Task']
    BY <1>0, <1>1, <1>3, <1>4 DEF TypeOK
  <2>2. entries' \in [Keys -> Entry' \cup {NoEntry}]
    BY <1>0, <1>1, <1>5 DEF TypeOK
  <2>3. refresh_wait' \subseteq Stamp' \X Keys
    BY <1>0, <1>1, <1>2 DEF TypeOK
  <2> QED
    BY <1>0, <1>1, <1>2, <2>1, <2>2, <2>3 DEF TypeOK
<1>7. OwnInv'
    BY <1>1 DEF IInv, OwnInv, Leads, Flies
<1>8. PermitInv'
    BY <1>1 DEF IInv, PermitInv, Holding, Busy
<1>9. StaleInv'
    BY <1>1 DEF IInv, StaleInv, Scans, HasEntry, ServedRight, NeverTooOld, ErrorsFromScans
<1> QED
    BY <1>1, <1>6, <1>7, <1>8, <1>9, OrderSame, QueueSame DEF IInv

\* An empty cache with all its permits.
LEMMA InitIInv == Init => IInv
<1> SUFFICES ASSUME Init PROVE IInv
    OBVIOUS
<1>1. /\ clock = 0 /\ max_entries \in Caps /\ entries = [k \in Keys |-> NoEntry]
      /\ order = <<>> /\ inflight = [k \in Keys |-> "none"] /\ refresh_wait = {}
      /\ permits = MaxScans /\ waiters = <<>> /\ served = {} /\ drops = 0
      /\ req = [r \in Requests |-> Idle] /\ slot = [s \in Slots |-> Idle]
    BY DEF Init
<1>2. Idle.pc = "idle" /\ Idle \in Request /\ Idle \in Task
    BY DEF Idle, Request, Task
<1>3. /\ \A r \in Requests : req[r] = Idle
      /\ \A s \in Slots : slot[s] = Idle
      /\ \A k \in Keys : entries[k] = NoEntry /\ inflight[k] = "none"
    BY <1>1
<1>4. TypeOK
  <2>1. req \in [Requests -> Request] /\ slot \in [Slots -> Task]
    BY <1>1, <1>2
  <2> QED
    BY <1>1, <2>1, CacheAssumption DEF TypeOK
<1>5. OwnInv
    BY <1>2, <1>3 DEF OwnInv, Leads, Flies
<1>6. Range(<<>>) = {} /\ Distinct(<<>>) /\ Len(<<>>) = 0
    BY DEF Range, Distinct
<1>7. PermitInv
  <2>1. Holding = {} /\ Busy = {}
    BY <1>2, <1>3 DEF Holding, Busy
  <2>2. Cardinality(Holding) = 0 /\ Cardinality(Busy) = 0
    BY <2>1, FS_EmptySet
  <2>3. {r \in Requests : req[r].pc = "acquire"} = {}
    BY <1>2, <1>3
  <2>4. permits + Cardinality(Holding) + Cardinality(Busy) = MaxScans
    BY <1>1, <2>2, CacheAssumption
  <2> QED
    BY <1>1, <1>6, <2>3, <2>4 DEF PermitInv
<1>8. OrderInv
  <2>1. {k \in Keys : HasEntry(k)} = {}
    BY <1>3 DEF HasEntry
  <2>2. Len(order) <= max_entries
    BY <1>1, <1>6, CacheAssumption
  <2> QED
    BY <1>1, <1>6, <2>1, <2>2 DEF OrderInv
<1>9. QueueInv
  <2>1. IsFiniteSet(refresh_wait) /\ Cardinality(refresh_wait) = 0
    BY <1>1, FS_EmptySet
  <2> QED
    BY <1>1, <2>1, CacheAssumption DEF QueueInv, QueueBounded
<1>10. StaleInv
  <2>1. ServedRight
    BY <1>1 DEF ServedRight, NeverTooOld, ErrorsFromScans
  <2> QED
    BY <1>2, <1>3, <2>1 DEF StaleInv, HasEntry
<1> QED
    BY <1>4, <1>5, <1>7, <1>8, <1>9, <1>10 DEF IInv

\* Every step of every request, task and of the clock keeps the invariant.
LEMMA NextIInv == IInv /\ [Next]_vars => IInv'
<1> SUFFICES ASSUME IInv, [Next]_vars PROVE IInv'
    OBVIOUS
<1>1. CASE Tick
    BY <1>1, TickIInv
<1>2. ASSUME NEW r \in Requests, Call(r) \/ Proceed(r) \/ Drop(r) PROVE IInv'
    BY <1>2, CallIInv, StartRefreshIInv, EnqueueIInv, StartScanIInv, FinishScanIInv,
       ReleaseIInv, OfferIInv, FollowEndIInv, FollowCheckIInv, FollowStaleIInv, DropIInv
       DEF Proceed
<1>3. ASSUME NEW s \in Slots, Work(s) PROVE IInv'
    BY <1>3, StartTaskIInv, FinishTaskIInv, HandoffIInv DEF Work
<1>4. CASE UNCHANGED vars
  <2>1. TypeOK' /\ OwnInv'
    BY <1>4, TypesSame DEF vars, IInv, TypeOK, OwnInv, Leads, Flies
  <2>2. PermitInv'
    BY <1>4 DEF vars, IInv, PermitInv, Holding, Busy
  <2>3. OrderInv' /\ QueueInv'
    BY <1>4, OrderSame, QueueSame DEF vars, IInv
  <2>4. StaleInv'
    BY <1>4 DEF vars, IInv, StaleInv, Scans, HasEntry, ServedRight, NeverTooOld, ErrorsFromScans
  <2> QED
    BY <2>1, <2>2, <2>3, <2>4 DEF IInv
<1> QED
    BY <1>1, <1>2, <1>3, <1>4 DEF Next

\* The inductive invariant holds throughout.
LEMMA Invariance == Spec => []IInv
BY InitIInv, NextIInv, PTL DEF Spec

\* The board map, the list of recent use and the refresh queue agree and keep
\* their bounds after any sequence of calls, scans, evictions and drops.
THEOREM StaysInOrder == Spec => []InOrder
<1>1. IInv => InOrder
  <2> SUFFICES ASSUME IInv PROVE InOrder
    OBVIOUS
  <2>1. order \in Seq(Keys) /\ Distinct(order)
    BY DEF IInv, TypeOK, OrderInv
  <2>2. Len(order) = Cardinality(Range(order))
    BY <2>1, DistinctCount
  <2> QED
    BY <2>2 DEF IInv, InOrder, OrderInv, OrderMatches, QueueInv
<1> QED
    BY <1>1, Invariance, PTL

\* A live flight has exactly one owner and every follower waits for a live
\* one, whoever leads, hands over or is dropped.
THEOREM FlightsOwned == Spec => []FlightOwned
<1>1. IInv => FlightOwned
  <2> SUFFICES ASSUME IInv PROVE FlightOwned
    OBVIOUS
  <2>0. OwnInv
    BY DEF IInv
  <2>1. ASSUME NEW k \in Keys
        PROVE  Cardinality(Owners(k)) = IF inflight[k] = "live" THEN 1 ELSE 0
    <3>1. \A x : x \in Owners(k) <=>
              \/ \E r \in Requests : Leads(r, k) /\ x = <<"request", r>>
              \/ \E s \in Slots : Flies(s, k) /\ x = <<"task", s>>
      BY DEF Owners, Leads, Flies
    <3>2. CASE inflight[k] = "live"
      <4>1. PICK x : x \in Owners(k)
        <5>1. (\E r \in Requests : Leads(r, k)) \/ (\E s \in Slots : Flies(s, k))
          BY <2>0, <3>2 DEF OwnInv
        <5>2. CASE \E r \in Requests : Leads(r, k)
          <6>1. PICK r \in Requests : Leads(r, k)
            BY <5>2
          <6>2. <<"request", r>> \in Owners(k)
            BY <3>1, <6>1
          <6> QED
            BY <6>2
        <5>3. CASE \E s \in Slots : Flies(s, k)
          <6>1. PICK s \in Slots : Flies(s, k)
            BY <5>3
          <6>2. <<"task", s>> \in Owners(k)
            BY <3>1, <6>1
          <6> QED
            BY <6>2
        <5> QED
          BY <5>1, <5>2, <5>3
      <4>2. \A y \in Owners(k) : y = x
        BY <2>0, <3>1, <4>1 DEF OwnInv
      <4>3. Owners(k) = {x}
        BY <4>1, <4>2
      <4> QED
        BY <3>2, <4>3, FS_Singleton
    <3>3. CASE inflight[k] # "live"
      <4>1. Owners(k) = {}
        BY <2>0, <3>1, <3>3 DEF OwnInv
      <4> QED
        BY <3>3, <4>1, FS_EmptySet
    <3> QED
      BY <3>2, <3>3
  <2>2. \A r \in Requests : req[r].pc = "wait" => inflight[req[r].key] = "live"
    BY <2>0 DEF OwnInv
  <2> QED
    BY <2>1, <2>2 DEF FlightOwned
<1> QED
    BY <1>1, Invariance, PTL

\* No permit is lost or made, nobody is in line while one is free, and with
\* two scans or more a reader in line is behind another reader.
THEOREM PermitsShared == Spec => []SlotsShared
<1>1. IInv => SlotsShared
  <2> SUFFICES ASSUME IInv PROVE SlotsShared
    OBVIOUS
  <2>1. /\ permits + Cardinality(Holding) + Cardinality(Busy) = MaxScans
        /\ waiters # <<>> => permits = 0
        /\ Range(waiters) = {r \in Requests : req[r].pc = "acquire"}
        /\ waiters \in Seq(Requests) /\ Distinct(waiters)
    BY DEF IInv, TypeOK, PermitInv
  <2>2. PermitsConserved
    BY <2>1, DistinctCount DEF PermitsConserved
  <2>3. ASSUME MaxScans > 1, waiters # <<>>, Holding = {} PROVE FALSE
    <3>1. Cardinality(Holding) = 0 /\ permits = 0
      BY <2>1, <2>3, FS_EmptySet
    <3>2. refresh_slots(MaxScans) \in Nat /\ refresh_slots(MaxScans) < MaxScans /\ MaxScans \in Nat
      BY <2>3, CacheAssumption DEF refresh_slots
    <3>3. IsFiniteSet(Slots) /\ Cardinality(Slots) = refresh_slots(MaxScans)
      BY <3>2, FS_Interval DEF Slots
    <3>4. Busy \in SUBSET Slots
      BY DEF Busy
    <3>5. Cardinality(Busy) <= Cardinality(Slots) /\ Cardinality(Busy) \in Nat
      BY <3>3, <3>4, Finite, FS_Subset DEF IInv
    <3> QED
      BY <2>1, <3>1, <3>2, <3>3, <3>5
  <2> QED
    BY <2>2, <2>3 DEF SlotsShared, RefreshesYield
<1> QED
    BY <1>1, Invariance, PTL

\* A board past the limit is never served to a follower whose first look
\* allowed it, and where no key is evicted an error always comes from a scan.
THEOREM ServesRight == Spec => []ServedRight
<1>1. IInv => ServedRight
    BY DEF IInv, StaleInv
<1> QED
    BY <1>1, Invariance, PTL
=============================================================================
