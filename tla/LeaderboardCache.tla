-------------------------- MODULE LeaderboardCache --------------------------
(***************************************************************************)
(* The in-process cache in front of the public leaderboard                 *)
(* (site-server/src/leaderboard_cache.rs).                                 *)
(*                                                                         *)
(* A request for a key finds a fresh board, or is given the old one while  *)
(* a refresh runs in the background, or has to wait: as the leader of a    *)
(* scan or as a follower of the one in flight.  Scans are bounded by a     *)
(* fair semaphore; refreshes have a budget of one less and hand their slot *)
(* to the next key in a queue.  A request that waits can be dropped with   *)
(* its connection; a refresh runs in a task of its own and is not.         *)
(*                                                                         *)
(* A step is what one thread does under the lock or between two awaits.    *)
(* A watch channel is not modelled as an object: at most one flight of a   *)
(* key is live, its followers are the requests waiting for the key, and    *)
(* what the sender sends is written into them at once (they read it in a   *)
(* later step).                                                            *)
(***************************************************************************)
EXTENDS Integers, Sequences, FiniteSets, SequencesExt

CONSTANTS
    Keys,        \* seasons, as numbers: the order of the refresh queue
    Requests,    \* callers of get_or_load
    Caps,        \* values of max_entries to try (64 in the server)
    MaxScans,    \* LEADERBOARD_CACHE_MAX_SCANS
    FreshFor,    \* the values TTL * jitter can take
    Backoff,     \* the values refresh_backoff_ms can take
    MaxStale,    \* TTL * MAX_STALE_FACTOR
    MaxTime,     \* bound: the clock stops
    MaxDrops     \* bound: dropped requests

ASSUME CacheAssumption ==
    /\ Keys \subseteq Nat /\ IsFiniteSet(Keys)
    /\ IsFiniteSet(Requests)
    /\ Caps \subseteq Nat \ {0}
    /\ MaxScans \in Nat \ {0}
    /\ FreshFor \subseteq 1 .. MaxStale
    /\ Backoff \subseteq Nat \ {0}
    /\ MaxStale \in Nat
    /\ MaxTime \in Nat
    /\ MaxDrops \in Nat

\* Variant: nothing is kept back for blocking reads.
all_slots(max_scans) == max_scans

refresh_slots(max_scans) == IF max_scans <= 2 THEN 1 ELSE max_scans - 1

\* The permits of refresh_scans; a slot in use also holds one of scans.
Slots == 1 .. refresh_slots(MaxScans)

VARIABLES
    clock,
    max_entries,  \* never changes
    entries,      \* Inner::entries: when stored, how long fresh, next refresh
    order,        \* Inner::order, least recently used first
    inflight,     \* Inner::inflight: no flight, a live one, or one whose
                  \*   sender is gone
    refresh_wait, \* Inner::refresh_wait: <<stored_at, key>>
    permits,      \* free permits of `scans'
    waiters,      \* requests in line for one
    req,          \* the requests
    slot,         \* the refresh permits in use, with the task that holds each
    served,       \* history: kinds of doubtful answers given so far
    drops

vars == <<clock, max_entries, entries, order, inflight, refresh_wait, permits,
          waiters, req, slot, served, drops>>

NoEntry == [at |-> -1, fresh |-> 0, next |-> 0]

HasEntry(k) == entries[k] # NoEntry

Age(k) == clock - entries[k].at

TooStale(k) == Age(k) >= MaxStale

Idle == [pc |-> "idle"]

Init ==
    /\ clock = 0
    /\ max_entries \in Caps
    /\ entries = [k \in Keys |-> NoEntry]
    /\ order = <<>>
    /\ inflight = [k \in Keys |-> "none"]
    /\ refresh_wait = {}
    /\ permits = MaxScans
    /\ waiters = <<>>
    /\ req = [r \in Requests |-> Idle]
    /\ slot = [s \in Slots |-> Idle]
    /\ served = {}
    /\ drops = 0

Tick ==
    /\ clock < MaxTime
    /\ clock' = clock + 1
    /\ UNCHANGED <<max_entries, entries, order, inflight, refresh_wait, permits,
                   waiters, req, slot, served, drops>>

-----------------------------------------------------------------------------
(* The scan semaphore: a released permit goes to the first in line. *)

Granted(reqs, r) == [reqs EXCEPT ![r].pc = "granted"]

\* Requests and permits after one permit has been returned.
ReleasePermit(reqs) ==
    IF waiters = <<>>
    THEN permits' = permits + 1 /\ req' = reqs /\ UNCHANGED waiters
    ELSE /\ req' = Granted(reqs, Head(waiters))
         /\ waiters' = Tail(waiters)
         /\ UNCHANGED permits

\* try_refresh_permit.  Its two try_acquire are one step: a caller between
\* them only makes another one queue its key.
FreeSlots == {s \in Slots : slot[s] = Idle}

CanRefresh == permits > 0 /\ FreeSlots # {}

TakeSlot(task) ==
    /\ permits' = permits - 1
    /\ slot' = [slot EXCEPT ![CHOOSE s \in FreeSlots : TRUE] = task]

-----------------------------------------------------------------------------
(* The least recently used order. *)

\* The sequence without its first x.
Without(s, x) == RemoveAt(s, CHOOSE i \in DOMAIN s : s[i] = x)

touch(k) ==
    IF k \in Range(order) THEN Append(Without(order, k), k) ELSE order

\* Variant: an entry that is replaced is appended to the order again.
store_append(k, entry) ==
    LET over == Len(order) + 1 - max_entries
        gone == IF HasEntry(k) \/ over <= 0 THEN {} ELSE Range(SubSeq(order, 1, over))
    IN  /\ entries' = [x \in Keys |-> IF x = k THEN entry
                                      ELSE IF x \in gone THEN NoEntry ELSE entries[x]]
        /\ order' = Append(SubSeq(order, Cardinality(gone) + 1, Len(order)), k)

store(k, entry) ==
    LET over == Len(order) + 1 - max_entries
        gone == IF HasEntry(k) \/ over <= 0 THEN {} ELSE Range(SubSeq(order, 1, over))
    IN  /\ entries' = [x \in Keys |-> IF x = k THEN entry
                                      ELSE IF x \in gone THEN NoEntry ELSE entries[x]]
        /\ order' = IF HasEntry(k) THEN touch(k)
                    ELSE Append(SubSeq(order, Cardinality(gone) + 1, Len(order)), k)

-----------------------------------------------------------------------------
(* get_or_load *)

\* Variant: a flight whose sender is gone is joined like any other.
JoinDead(k) == inflight

\* begin discards a flight whose sender is gone.
DiscardDead(k) == IF inflight[k] = "dead" THEN [inflight EXCEPT ![k] = "none"] ELSE inflight

Fly(flights, k) == [flights EXCEPT ![k] = "live"]

To(r, rec) == req' = [req EXCEPT ![r] = rec]

\* A board still in its window.
Hit(r, k) ==
    /\ HasEntry(k) /\ Age(k) < entries[k].fresh
    /\ order' = touch(k)
    /\ inflight' = DiscardDead(k)
    /\ To(r, Idle)
    /\ UNCHANGED <<waiters, permits, served>>

\* An older board, while someone refreshes it or before the backoff ends.
ServeStale(r, k) ==
    /\ HasEntry(k) /\ Age(k) >= entries[k].fresh /\ ~TooStale(k)
    /\ DiscardDead(k)[k] # "none" \/ clock < entries[k].next
    /\ inflight' = DiscardDead(k)
    /\ To(r, Idle)
    /\ UNCHANGED <<order, waiters, permits, served>>

\* An older board, and this caller starts the refresh.
ServeAndRefresh(r, k) ==
    /\ HasEntry(k) /\ Age(k) >= entries[k].fresh /\ ~TooStale(k)
    /\ DiscardDead(k)[k] = "none" /\ clock >= entries[k].next
    /\ order' = touch(k)
    /\ inflight' = Fly(DiscardDead(k), k)
    /\ To(r, [pc |-> "refresh", key |-> k])
    /\ UNCHANGED <<waiters, permits, served>>

\* No board, or one too old, and a scan in flight.
Join(r, k) ==
    /\ HasEntry(k) => Age(k) >= entries[k].fresh /\ TooStale(k)
    /\ DiscardDead(k)[k] # "none"
    /\ inflight' = DiscardDead(k)
    /\ To(r, [pc |-> "wait", key |-> k])
    /\ UNCHANGED <<order, waiters, permits, served>>

\* No board, or one too old, and nobody scanning: acquire_blocking.
BeginLead(r, k) ==
    /\ HasEntry(k) => Age(k) >= entries[k].fresh /\ TooStale(k)
    /\ DiscardDead(k)[k] = "none"
    /\ inflight' = Fly(DiscardDead(k), k)
    /\ order' = IF HasEntry(k) THEN touch(k) ELSE order
    /\ IF permits > 0
       THEN /\ permits' = permits - 1
            /\ To(r, [pc |-> "granted", key |-> k])
            /\ UNCHANGED waiters
       ELSE /\ waiters' = Append(waiters, r)
            /\ To(r, [pc |-> "acquire", key |-> k])
            /\ UNCHANGED permits
    /\ UNCHANGED served

begin(r, k) ==
    /\ \/ Hit(r, k)
       \/ ServeStale(r, k)
       \/ ServeAndRefresh(r, k)
       \/ Join(r, k)
       \/ BeginLead(r, k)
    /\ UNCHANGED <<clock, max_entries, entries, refresh_wait, slot, drops>>

\* A call begins, or a follower comes round the loop.
Call(r) == req[r] = Idle /\ \E k \in Keys : begin(r, k)

Again(r) == req[r].pc = "retry" /\ begin(r, req[r].key)

stored_at(k) == IF HasEntry(k) THEN entries[k].at ELSE 0

\* The caller of ServeAndRefresh gets a slot and spawns the task, or goes on
\* to queue the key.
StartRefresh(r) ==
    LET k == req[r].key IN
    /\ req[r].pc = "refresh"
    /\ \/ /\ CanRefresh
          /\ TakeSlot([pc |-> "granted", key |-> k])
          /\ To(r, Idle)
       \/ /\ ~CanRefresh
          /\ To(r, [pc |-> "queue", key |-> k, at |-> stored_at(k)])
          /\ UNCHANGED <<permits, slot>>
    /\ UNCHANGED <<clock, max_entries, entries, order, inflight, refresh_wait,
                   waiters, served, drops>>

Before(x, y) == x[1] < y[1] \/ (x[1] = y[1] /\ x[2] < y[2])

\* The queue has room for max_entries keys and keeps the oldest boards; a key
\* is in it once.
Queued(wait, x) ==
    LET others == {y \in wait : y[2] # x[2]}
        all == others \cup {x}
    IN  IF Cardinality(others) < max_entries THEN all
        ELSE {y \in all : Cardinality({z \in all : Before(z, y)}) < max_entries}

\* What a flight leaves behind for its followers.
Tell(reqs, k, state) ==
    [r \in Requests |->
        IF reqs[r].pc = "wait" /\ reqs[r].key = k
        THEN [pc |-> "told", key |-> k, state |-> state]
        ELSE reqs[r]]

enqueue_refresh(r) ==
    LET k == req[r].key IN
    /\ req[r].pc = "queue"
    /\ \E b \in Backoff :
          entries' = IF HasEntry(k) THEN [entries EXCEPT ![k].next = clock + b] ELSE entries
    /\ inflight' = [inflight EXCEPT ![k] = "none"]
    /\ refresh_wait' = Queued(refresh_wait, <<req[r].at, k>>)
    /\ req' = Tell([req EXCEPT ![r] = Idle], k, "skipped")
    /\ UNCHANGED <<clock, max_entries, order, permits, waiters, slot, served, drops>>

-----------------------------------------------------------------------------
(* lead: by a request with a permit, or by the task of a slot. *)

\* The board is stamped when the query starts.
StartScan(r) ==
    /\ req[r].pc = "granted"
    /\ To(r, [pc |-> "load", key |-> req[r].key, started |-> clock])
    /\ UNCHANGED <<clock, max_entries, entries, order, inflight, refresh_wait, permits,
                   waiters, slot, served, drops>>

StartTask(s) ==
    /\ slot[s].pc = "granted"
    /\ slot' = [slot EXCEPT ![s] = [pc |-> "load", key |-> @.key, started |-> clock]]
    /\ UNCHANGED <<clock, max_entries, entries, order, inflight, refresh_wait, permits,
                   waiters, req, served, drops>>

\* Unavailable and Rejected differ in the answer, not in what the cache does.
Outcomes == {"ready", "failed"}

\* The end of a load, under the lock.
Loaded(k, started, outcome) ==
    /\ inflight' = [inflight EXCEPT ![k] = "none"]
    /\ IF outcome = "ready"
       THEN \E f \in FreshFor : store(k, [at |-> started, fresh |-> f, next |-> 0])
       ELSE UNCHANGED <<entries, order>>

FinishScan(r) ==
    /\ req[r].pc = "load"
    /\ \E outcome \in Outcomes :
          /\ Loaded(req[r].key, req[r].started, outcome)
          /\ req' = Tell([req EXCEPT ![r] = [pc |-> "release"]], req[r].key, outcome)
    /\ UNCHANGED <<clock, max_entries, refresh_wait, permits, waiters, slot, served, drops>>

FinishTask(s) ==
    /\ slot[s].pc = "load"
    /\ \E outcome \in Outcomes :
          /\ Loaded(slot[s].key, slot[s].started, outcome)
          /\ req' = Tell(req, slot[s].key, outcome)
    /\ slot' = [slot EXCEPT ![s] = [pc |-> "handoff"]]
    /\ UNCHANGED <<clock, max_entries, refresh_wait, permits, waiters, served, drops>>

\* release_scan of a blocking scan: the permit is dropped first ...
Release(r) ==
    /\ req[r].pc = "release"
    /\ ReleasePermit([req EXCEPT ![r] = [pc |-> "offer"]])
    /\ UNCHANGED <<clock, max_entries, entries, order, inflight, refresh_wait, slot,
                   served, drops>>

\* ... and a refresh slot, if there is one, is offered to the queue.
Offer(r) ==
    /\ req[r].pc = "offer"
    /\ IF CanRefresh THEN TakeSlot([pc |-> "handoff"]) ELSE UNCHANGED <<permits, slot>>
    /\ To(r, Idle)
    /\ UNCHANGED <<clock, max_entries, entries, order, inflight, refresh_wait, waiters,
                   served, drops>>

\* Variant: the queue is not compared with the flights.
LaunchableAnyway(x) == HasEntry(x[2]) => Age(x[2]) >= entries[x[2]].fresh

\* A queued key is refreshed if nobody does it already and it is still due.
Launchable(x) ==
    /\ inflight[x[2]] = "none"
    /\ HasEntry(x[2]) => Age(x[2]) >= entries[x[2]].fresh

\* The slot goes to the oldest such key; the ones before it leave the queue.
handoff(s) ==
    LET due == {x \in refresh_wait : Launchable(x)}
        first == CHOOSE x \in due : \A y \in due \ {x} : Before(x, y)
    IN
    /\ slot[s].pc = "handoff"
    /\ \/ /\ due # {}
          /\ refresh_wait' = {x \in refresh_wait : Before(first, x)}
          /\ inflight' = Fly(inflight, first[2])
          /\ slot' = [slot EXCEPT ![s] = [pc |-> "granted", key |-> first[2]]]
          /\ UNCHANGED <<permits, waiters, req>>
       \/ /\ due = {}
          /\ refresh_wait' = {}
          /\ slot' = [slot EXCEPT ![s] = Idle]
          /\ ReleasePermit(req)
          /\ UNCHANGED inflight
    /\ UNCHANGED <<clock, max_entries, entries, order, served, drops>>

-----------------------------------------------------------------------------
(* finish_follower *)

\* Another board, or the failure of the scan, ends the call.
FollowEnd(r) ==
    /\ req[r].pc = "told"
    /\ req[r].state \in Outcomes
    /\ To(r, Idle)
    /\ UNCHANGED <<clock, max_entries, entries, order, inflight, refresh_wait, permits,
                   waiters, slot, served, drops>>

\* Variant: nobody has to wait for a scan again.
must_not_block(k) == FALSE

must_block(k) == HasEntry(k) => TooStale(k)

\* No scan ran: a caller that still has to wait tries to lead.
FollowCheck(r) ==
    LET k == req[r].key IN
    /\ req[r].pc = "told"
    /\ req[r].state \in {"skipped", "gone"}
    /\ \/ must_block(k) /\ To(r, [pc |-> "retry", key |-> k])
       \/ ~must_block(k) /\ To(r, [pc |-> "stale", key |-> k, state |-> req[r].state,
                                   seen |-> clock])
    /\ UNCHANGED <<clock, max_entries, entries, order, inflight, refresh_wait, permits,
                   waiters, slot, served, drops>>

\* stale(key), in a second look: the board may have been evicted since.
FollowStale(r) ==
    LET k == req[r].key
        old == HasEntry(k) /\ req[r].seen - entries[k].at >= MaxStale
        err == ~HasEntry(k) /\ req[r].state = "gone"
    IN
    /\ req[r].pc = "stale"
    /\ IF ~HasEntry(k) /\ req[r].state = "skipped"
       THEN To(r, [pc |-> "retry", key |-> k])
       ELSE To(r, Idle)
    /\ served' = served \cup (IF old THEN {"too_old"} ELSE {})
                        \cup (IF err THEN {"no_scan_failed"} ELSE {})
    /\ UNCHANGED <<clock, max_entries, entries, order, inflight, refresh_wait, permits,
                   waiters, slot, drops>>

-----------------------------------------------------------------------------
(* A request whose client is gone is dropped at an await. *)

DropFollower(r) ==
    /\ req[r].pc \in {"wait", "told"}
    /\ To(r, Idle)
    /\ UNCHANGED <<inflight, permits, waiters>>

\* A leader's sender and permit go with it; its flight stays in the map.
DropLeader(r) ==
    /\ req[r].pc \in {"granted", "load"}
    /\ inflight' = [inflight EXCEPT ![req[r].key] = "dead"]
    /\ ReleasePermit(Tell([req EXCEPT ![r] = Idle], req[r].key, "gone"))

DropInLine(r) ==
    /\ req[r].pc = "acquire"
    /\ inflight' = [inflight EXCEPT ![req[r].key] = "dead"]
    /\ waiters' = Without(waiters, r)
    /\ req' = Tell([req EXCEPT ![r] = Idle], req[r].key, "gone")
    /\ UNCHANGED permits

Drop(r) ==
    /\ drops < MaxDrops
    /\ drops' = drops + 1
    /\ DropFollower(r) \/ DropLeader(r) \/ DropInLine(r)
    /\ UNCHANGED <<clock, max_entries, entries, order, refresh_wait, slot, served>>

-----------------------------------------------------------------------------
\* What a request does by itself once it has been called.
Proceed(r) ==
    \/ Again(r)
    \/ StartRefresh(r) \/ enqueue_refresh(r)
    \/ StartScan(r) \/ FinishScan(r) \/ Release(r) \/ Offer(r)
    \/ FollowEnd(r) \/ FollowCheck(r) \/ FollowStale(r)

Work(s) == StartTask(s) \/ FinishTask(s) \/ handoff(s)

Next ==
    \/ Tick
    \/ \E r \in Requests : Call(r) \/ Proceed(r) \/ Drop(r)
    \/ \E s \in Slots : Work(s)

Spec == Init /\ [][Next]_vars

\* The runtime polls every task that can go on, and a load ends: its query has
\* a timeout.
FairSpec ==
    /\ Spec
    /\ \A r \in Requests : WF_vars(Proceed(r))
    /\ \A s \in Slots : WF_vars(Work(s))

-----------------------------------------------------------------------------
(* Properties *)

Holding == {r \in Requests : req[r].pc \in {"granted", "load", "release"}}

Busy == {s \in Slots : slot[s] # Idle}

\* Who has the sender of the key's flight.
Owners(k) ==
    {<<"request", r>> : r \in {x \in Requests :
        req[x].pc \in {"refresh", "queue", "acquire", "granted", "load"} /\ req[x].key = k}}
    \cup {<<"task", s>> : s \in {x \in Slots :
        slot[x].pc \in {"granted", "load"} /\ slot[x].key = k}}

Stamp == 0 .. clock

Entry == [at : Stamp, fresh : FreshFor, next : Nat]

Task ==
    {Idle, [pc |-> "handoff"]} \cup [pc : {"granted"}, key : Keys]
    \cup [pc : {"load"}, key : Keys, started : Stamp]

Request ==
    {Idle, [pc |-> "release"], [pc |-> "offer"]}
    \cup [pc : {"refresh", "wait", "acquire", "granted", "retry"}, key : Keys]
    \cup [pc : {"queue"}, key : Keys, at : Stamp]
    \cup [pc : {"load"}, key : Keys, started : Stamp]
    \cup [pc : {"told"}, key : Keys, state : Outcomes \cup {"skipped", "gone"}]
    \cup [pc : {"stale"}, key : Keys, state : {"skipped", "gone"}, seen : Stamp]

\* The maps, the queue and the requests hold what their types say; boards are
\* never from the future.
TypeOK ==
    /\ clock \in 0 .. MaxTime
    /\ max_entries \in Caps
    /\ entries \in [Keys -> Entry \cup {NoEntry}]
    /\ order \in Seq(Keys)
    /\ inflight \in [Keys -> {"none", "live", "dead"}]
    /\ refresh_wait \subseteq Stamp \X Keys
    /\ permits \in 0 .. MaxScans
    /\ waiters \in Seq(Requests)
    /\ req \in [Requests -> Request]
    /\ slot \in [Slots -> Task]
    /\ served \subseteq {"too_old", "no_scan_failed"}
    /\ drops \in 0 .. MaxDrops

\* A flight in the map has exactly one owner who will end it, and one without
\* an owner is marked dead: two callers never scan for the same key, and no
\* follower waits for a flight nobody flies.
FlightOwned ==
    /\ \A k \in Keys : Cardinality(Owners(k)) = IF inflight[k] = "live" THEN 1 ELSE 0
    /\ \A r \in Requests : req[r].pc = "wait" => inflight[req[r].key] = "live"

\* Every permit is free or held by one scan, through drops, hand-overs and
\* failures, and nobody is in line while one is free.
PermitsConserved ==
    /\ permits + Cardinality(Holding) + Cardinality(Busy) = MaxScans
    /\ waiters # <<>> => permits = 0
    /\ Range(waiters) = {r \in Requests : req[r].pc = "acquire"}
    /\ Len(waiters) = Cardinality(Range(waiters))

\* Refreshes never make a blocking read wait: with two scans or more, whoever
\* is in line is behind another blocking read.
RefreshesYield == MaxScans > 1 /\ waiters # <<>> => Holding # {}

\* Scan slots are never lost, and one is always left to readers.
SlotsShared == PermitsConserved /\ RefreshesYield

\* The order lists each stored key once and there are at most max_entries,
\* so that eviction always finds its victim.
OrderMatches ==
    /\ Range(order) = {k \in Keys : HasEntry(k)}
    /\ Len(order) = Cardinality(Range(order))
    /\ Len(order) <= max_entries

\* The queue holds a key at most once and no more than max_entries of them.
QueueBounded ==
    /\ \A x, y \in refresh_wait : x[2] = y[2] => x = y
    /\ Cardinality(refresh_wait) <= max_entries

\* The cache is in order: its map, its list and its queue agree with one
\* another and keep their bounds.
InOrder == TypeOK /\ OrderMatches /\ QueueBounded

\* A board past the limit is only ever served after a scan that failed.
NeverTooOld == "too_old" \notin served

\* A caller is told of a failure only when a scan of its key failed; where
\* nothing is evicted there is no exception.
ErrorsFromScans == Cardinality(Keys) <= max_entries => "no_scan_failed" \notin served

\* What a caller is given is what it may be given.
ServedRight == NeverTooOld /\ ErrorsFromScans

\* Every call is answered, or dropped by its own client: no follower is left
\* behind by a leader that was dropped, skipped or failed.
Answered == \A r \in Requests : req[r] # Idle ~> req[r] = Idle
=============================================================================
