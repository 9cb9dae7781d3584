----------------------------- MODULE CollabRoom -----------------------------
(***************************************************************************)
(* The strategy rooms of the WebSocket server: RoomManager                 *)
(* (server/src/collab/room.rs) and the socket task that drives it          *)
(* (server/src/routes/ws.rs).                                              *)
(*                                                                         *)
(* Socket tasks and persist tasks run on several threads.  What one of     *)
(* them does under one lock, or with one atomic instruction, is a step:    *)
(* the joined-connection count is an atomic that no lock covers, a room is *)
(* held by the DashMap guard of its entry, and a strategy's content by the *)
(* mutex that strategy_locks hands out.                                    *)
(*                                                                         *)
(* A message is a place taken in the receiver's channel.  A connection id  *)
(* names a socket while it is open and is free again afterwards.           *)
(***************************************************************************)
EXTENDS Integers, FiniteSets

CONSTANTS
    Connections, \* connection ids
    Strategies,
    UserOf,      \* the user of each connection, or NONE when not signed in
    Kept,        \* connections that stay in a room and read at once, each
                 \*   with the room it is in from the start
    Editors,     \* connections that pass ws_edit_guard
    Tasks,       \* persist permits (MAX_CONCURRENT_PERSISTS)
    Locks,       \* mutexes of strategy_locks, free to be used again
    MaxGlobal,   \* WS_MAX_CONNECTIONS, the admission cap and max_global
    MaxRoom,     \* MAX_ROOM_CONNECTIONS
    Capacity,    \* of a connection's channel
    MaxElements, \* MAX_STRATEGY_ELEMENTS
    MayStall,    \* connections whose peer may stop reading
    NONE

Steady == DOMAIN Kept

ASSUME RoomAssumption ==
    /\ IsFiniteSet(Connections) /\ IsFiniteSet(Strategies)
    /\ IsFiniteSet(Tasks) /\ IsFiniteSet(Locks)
    /\ Cardinality(Locks) >= Cardinality(Tasks) + Cardinality(Strategies) - 1
    /\ Steady \subseteq Connections /\ Editors \subseteq Connections
    /\ Kept \in [Steady -> Strategies]
    /\ MayStall \subseteq Connections \ Steady
    /\ MaxGlobal \in Nat \ {0} /\ MaxRoom \in Nat \ {0}
    /\ Cardinality(Steady) <= MaxGlobal
    /\ \A s \in Strategies :
          Cardinality({c \in Steady : Kept[c] = s}) <= MaxRoom
    /\ Capacity \in Nat \ {0} /\ MaxElements \in Nat
    /\ NONE \notin Connections \cup Strategies \cup Tasks \cup Locks

VARIABLES
    rooms,    \* RoomManager::rooms: the keys
    members,  \* their connections, as pairs <<strategy, connection>>
    slots,    \* global_connections
    task,     \* the socket task of each connection
    channel,  \* messages waiting in each connection's channel
    sink,     \* the sending half: "reads", "stalled" or "gone"
    evict,    \* the connection's Notify holds a permit
    locks,    \* strategy_locks
    persist,  \* the spawned persist tasks
    elements, \* elements stored for each strategy
    lost      \* history: room entries thrown away with their room

vars == <<rooms, members, slots, task, channel, sink, evict, locks, persist,
          elements, lost>>

content == <<locks, persist, elements>>
wire == <<channel, sink, evict>>

-----------------------------------------------------------------------------
(* Socket tasks.  `current' is current_room; `room' the strategy an         *)
(* operation under way is about; `next' what follows a leave_room: a        *)
(* strategy to join, "answer" or "closed".                                  *)

Closed == [pc |-> "closed", current |-> NONE, room |-> NONE, next |-> NONE,
           todo |-> 0, owed |-> {}, own |-> FALSE, empty |-> FALSE,
           adds |-> FALSE]

\* The task holds the guard of its room's entry.
Holding(c) == task[c].pc \in {"joining", "leaving", "casting"}

RoomFree(s) == \A c \in Connections : ~(Holding(c) /\ task[c].room = s)

In(s) == {c \in Connections : <<s, c>> \in members}

Alone(c, s) == \A d \in In(s) : d # c => UserOf[d] # UserOf[c]

Goto(c, pc) == task' = [task EXCEPT ![c].pc = pc]

PersistIdle == [pc |-> "idle", strategy |-> NONE, lock |-> NONE,
                adds |-> FALSE, seen |-> 0]

Init ==
    /\ rooms = {Kept[c] : c \in Steady}
    /\ members = {<<Kept[c], c>> : c \in Steady}
    /\ slots = Cardinality(Steady)
    /\ lost = 0
    /\ task = [c \in Connections |->
                  IF c \in Steady
                  THEN [Closed EXCEPT !.pc = "select", !.current = Kept[c]]
                  ELSE Closed]
    /\ channel = [c \in Connections |-> 0]
    /\ sink = [c \in Connections |-> "reads"]
    /\ evict = [c \in Connections |-> FALSE]
    /\ locks = [s \in Strategies |-> NONE]
    /\ persist = [t \in Tasks |-> PersistIdle]
    /\ elements = [s \in Strategies |-> 0]

Sockets == {c \in Connections : task[c].pc # "closed"}

\* websocket_handler: a permit of the admission semaphore, then a socket with
\* an empty channel and a fresh Notify.  The per-address cap only refuses
\* more.
Connect(c) ==
    /\ task[c].pc = "closed"
    /\ Cardinality(Sockets) < MaxGlobal
    /\ Goto(c, "select")
    /\ channel' = [channel EXCEPT ![c] = 0]
    /\ sink' = [sink EXCEPT ![c] = "reads"]
    /\ evict' = [evict EXCEPT ![c] = FALSE]
    /\ UNCHANGED <<rooms, members, slots, lost, content>>

-----------------------------------------------------------------------------
(* The loop of handle_socket.  The select is biased: a Notify permit goes   *)
(* first, so a message is taken only without one.                           *)

Received(c) == task[c].pc = "select" /\ ~evict[c]

LeaveThen(c, next) ==
    task' = [task EXCEPT ![c].pc = "leave", ![c].room = task[c].current,
                         ![c].current = NONE, ![c].next = next]

\* JoinRoom: refused by the access check, or the old room is left first.
JoinRoom(c, s) ==
    /\ Received(c)
    /\ c \notin Steady
    /\ \/ Goto(c, "answer")
       \/ task[c].current # NONE /\ LeaveThen(c, s)
       \/ /\ task[c].current = NONE
          /\ task' = [task EXCEPT ![c].pc = "reserve", ![c].room = s]
    /\ UNCHANGED <<rooms, members, slots, lost, wire, content>>

LeaveRoom(c) ==
    /\ Received(c)
    /\ c \notin Steady
    /\ task[c].current # NONE
    /\ LeaveThen(c, "select")
    /\ UNCHANGED <<rooms, members, slots, lost, wire, content>>

\* Variant: the loop goes on after the eviction.
EndSocketStays(c) ==
    /\ task[c].pc = "select"
    /\ c \notin Steady
    /\ IF task[c].current # NONE THEN LeaveThen(c, "select")
       ELSE task' = [task EXCEPT ![c] = IF evict[c] THEN @ ELSE Closed]
    /\ UNCHANGED <<rooms, members, slots, lost, wire, content>>

\* The loop ends: the eviction, a close frame, an error, the join deadline or
\* the idle timeout.
EndSocket(c) ==
    /\ task[c].pc = "select"
    /\ c \notin Steady
    /\ IF task[c].current # NONE THEN LeaveThen(c, "closed")
       ELSE task' = [task EXCEPT ![c] = Closed]
    /\ UNCHANGED <<rooms, members, slots, lost, wire, content>>

\* A message that is only answered: Ping, or an edit outside a room.
Ping(c) ==
    /\ Received(c)
    /\ Goto(c, "answer")
    /\ UNCHANGED <<rooms, members, slots, lost, wire, content>>

\* tx.send(response).await: waits for a place in the channel; the error of a
\* closed channel is ignored.
Answer(c) ==
    /\ task[c].pc = "answer"
    /\ channel[c] < Capacity \/ sink[c] = "gone"
    /\ channel' = IF sink[c] = "gone" \/ c \in Steady THEN channel
                  ELSE [channel EXCEPT ![c] = @ + 1]
    /\ Goto(c, "select")
    /\ UNCHANGED <<rooms, members, slots, lost, sink, evict, content>>

\* The send task forwards one message.
Forward(c) ==
    /\ channel[c] > 0
    /\ sink[c] = "reads"
    /\ channel' = [channel EXCEPT ![c] = @ - 1]
    /\ UNCHANGED <<rooms, members, slots, lost, task, sink, evict, content>>

\* The peer stops reading, or its connection breaks and the send task ends.
PeerChanges(c) ==
    /\ c \in Sockets \ Steady
    /\ \/ c \in MayStall /\ sink[c] = "reads"
          /\ sink' = [sink EXCEPT ![c] = "stalled"] /\ UNCHANGED channel
       \/ sink[c] # "gone" /\ sink' = [sink EXCEPT ![c] = "gone"]
          /\ channel' = [channel EXCEPT ![c] = 0]
    /\ UNCHANGED <<rooms, members, slots, lost, task, evict, content>>

-----------------------------------------------------------------------------
(* RoomManager::deliver, run by a task that holds the room. *)

Full(d) == sink[d] = "gone" \/ (d \notin Steady /\ channel[d] = Capacity)

\* Variant: the dropped connections are not told.
NotifyNobody(dead) == evict

Notify(dead) == [d \in Connections |-> evict[d] \/ d \in dead]

\* Room::broadcast to the targets: the ones whose channel is full or closed
\* leave the room and are told through their Notify.  deliver then queues a
\* UserLeft for each of them whose user has no connection left.
Broadcast(c, pc, todo, targets) ==
    LET s == task[c].room
        dead == {d \in targets : Full(d)}
        left == In(s) \ dead
        userGone == {d \in dead : \A e \in left : UserOf[e] # UserOf[d]}
    IN  /\ members' = members \ ({s} \X dead)
        /\ evict' = Notify(dead)
        /\ channel' = [d \in Connections |->
                          IF d \in targets \ (dead \cup Steady)
                          THEN channel[d] + 1 ELSE channel[d]]
        /\ task' = [task EXCEPT
                       ![c].pc = pc,
                       ![c].todo = todo + Cardinality(userGone),
                       ![c].owed = dead]
        /\ UNCHANGED <<rooms, slots, lost, sink, content>>

Deliver(c) ==
    /\ Holding(c)
    /\ task[c].todo > 0 /\ task[c].owed = {}
    /\ Broadcast(c, task[c].pc, task[c].todo - 1, In(task[c].room))

\* Variant: the count is not touched.
SettleNothing(c) ==
    /\ task[c].owed # {}
    /\ task' = [task EXCEPT ![c].owed = {}]
    /\ UNCHANGED <<rooms, members, slots, lost, wire, content>>

\* The count goes down by the number of dropped connections.
Settle(c) ==
    /\ task[c].owed # {}
    /\ slots' = slots - Cardinality(task[c].owed)
    /\ task' = [task EXCEPT ![c].owed = {}]
    /\ UNCHANGED <<rooms, members, lost, wire, content>>

Delivered(c, pc) == task[c].pc = pc /\ task[c].todo = 0 /\ task[c].owed = {}

-----------------------------------------------------------------------------
(* join_room. *)

\* The optimistic reserve.  A caller that is not signed in joins no room.
Reserve(c) ==
    /\ task[c].pc = "reserve"
    /\ IF UserOf[c] = NONE
       THEN /\ task' = [task EXCEPT ![c].pc = "answer", ![c].room = NONE,
                                    ![c].current = task[c].room]
            /\ UNCHANGED slots
       ELSE /\ slots' = slots + 1
            /\ Goto(c, IF slots >= MaxGlobal THEN "overlimit" ELSE "enter")
    /\ UNCHANGED <<rooms, members, lost, wire, content>>

\* Variant: the room cap is off by one.
EnterPastCap(c) ==
    LET s == task[c].room IN
    /\ task[c].pc = "enter"
    /\ RoomFree(s)
    /\ rooms' = rooms \cup {s}
    /\ IF Cardinality(In(s)) > MaxRoom THEN Goto(c, "refund")
       ELSE task' = [task EXCEPT ![c].pc = "joining",
                                 ![c].todo = IF Alone(c, s) THEN 1 ELSE 0]
    /\ UNCHANGED <<members, slots, lost, wire, content>>

\* The entry's guard is taken.  UserJoined goes out only for the user's first
\* connection in the room.
Enter(c) ==
    LET s == task[c].room IN
    /\ task[c].pc = "enter"
    /\ RoomFree(s)
    /\ rooms' = rooms \cup {s}
    /\ IF Cardinality(In(s)) >= MaxRoom THEN Goto(c, "refund")
       ELSE task' = [task EXCEPT ![c].pc = "joining",
                                 ![c].todo = IF Alone(c, s) THEN 1 ELSE 0]
    /\ UNCHANGED <<members, slots, lost, wire, content>>

\* JoinError: the reservation is rolled back.
Refund(c) ==
    /\ task[c].pc \in {"overlimit", "refund"}
    /\ slots' = slots - 1
    /\ task' = [task EXCEPT ![c].pc = "answer", ![c].room = NONE]
    /\ UNCHANGED <<rooms, members, lost, wire, content>>

\* add_connection; the guard is dropped and current_room set.
AddConnection(c) ==
    /\ Delivered(c, "joining")
    /\ members' = members \cup {<<task[c].room, c>>}
    /\ task' = [task EXCEPT ![c].pc = "answer", ![c].room = NONE,
                            ![c].current = task[c].room]
    /\ UNCHANGED <<rooms, slots, lost, wire, content>>

-----------------------------------------------------------------------------
(* leave_room. *)

\* Under the guard: the connection goes, and UserLeft is sent for a user with
\* no other connection.  A broadcast may have removed it already.
Leave(c) ==
    LET s == task[c].room
        mine == <<s, c>> \in members
    IN  /\ task[c].pc = "leave"
        /\ s \in rooms
        /\ RoomFree(s)
        /\ members' = members \ {<<s, c>>}
        /\ task' = [task EXCEPT ![c].pc = "leaving", ![c].own = mine,
                       ![c].todo = IF mine /\ Alone(c, s) THEN 1 ELSE 0]
        /\ UNCHANGED <<rooms, slots, lost, wire, content>>

\* is_empty is read and the guard dropped.
Release(c) ==
    /\ Delivered(c, "leaving")
    /\ task' = [task EXCEPT ![c].pc = "left",
                            ![c].empty = In(task[c].room) = {}]
    /\ UNCHANGED <<rooms, members, slots, lost, wire, content>>

\* Variant: the slot is returned whether or not the connection was there.
ReturnSlotAlways(c) ==
    /\ task[c].pc = "left"
    /\ slots' = slots - 1
    /\ task' = [task EXCEPT ![c].pc = "freed", ![c].own = FALSE]
    /\ UNCHANGED <<rooms, members, lost, wire, content>>

ReturnSlot(c) ==
    /\ task[c].pc = "left"
    /\ slots' = IF task[c].own THEN slots - 1 ELSE slots
    /\ task' = [task EXCEPT ![c].pc = "freed", ![c].own = FALSE]
    /\ UNCHANGED <<rooms, members, lost, wire, content>>

\* rooms.remove: whatever the room holds by now goes with it.
RemoveRoom(c) ==
    LET s == task[c].room IN
    /\ task[c].pc = "freed" /\ task[c].empty
    /\ RoomFree(s)
    /\ rooms' = rooms \ {s}
    /\ lost' = lost + Cardinality(In(s))
    /\ members' = members \ ({s} \X In(s))
    /\ Goto(c, "unroomed")
    /\ UNCHANGED <<slots, wire, content>>

\* What the socket task does after leave_room.
AfterLeave(c) ==
    task' = [task EXCEPT ![c] =
                IF task[c].next = "closed" THEN Closed
                ELSE IF task[c].next \in Strategies
                THEN [Closed EXCEPT !.pc = "reserve", !.room = task[c].next]
                ELSE [Closed EXCEPT !.pc = "select"]]

RemoveLock(c) ==
    /\ task[c].pc = "unroomed"
    /\ locks' = [locks EXCEPT ![task[c].room] = NONE]
    /\ AfterLeave(c)
    /\ UNCHANGED <<rooms, members, slots, lost, wire, persist, elements>>

\* The room is not there, or it is kept.
LeaveDone(c) ==
    /\ \/ task[c].pc = "leave" /\ task[c].room \notin rooms
       \/ task[c].pc = "freed" /\ ~task[c].empty
    /\ AfterLeave(c)
    /\ UNCHANGED <<rooms, members, slots, lost, wire, content>>

-----------------------------------------------------------------------------
(* Edits. *)

\* ElementAdd or ElementDelete: the guard, and the first look at the cap.
Edit(c, add) ==
    /\ Received(c)
    /\ task[c].current # NONE
    /\ IF c \in Editors /\ (add => elements[task[c].current] < MaxElements)
       THEN task' = [task EXCEPT ![c].pc = "spawn", ![c].adds = add,
                                 ![c].room = task[c].current]
       ELSE Goto(c, "answer")
    /\ UNCHANGED <<rooms, members, slots, lost, wire, content>>

Unused == {l \in Locks : /\ \A s \in Strategies : locks[s] # l
                         /\ \A t \in Tasks : persist[t].lock # l}

\* Variant: every persist gets a mutex of its own.
FreshLock(s, l) == l \in Unused

strategy_lock(s, l) ==
    IF locks[s] = NONE THEN l \in Unused ELSE l = locks[s]

\* try_spawn_persist, with or without a permit.
Spawn(c) ==
    LET s == task[c].room
        free == {t \in Tasks : persist[t].pc = "idle"}
    IN  /\ task[c].pc = "spawn"
        /\ \/ /\ free = {}
              /\ task' = [task EXCEPT ![c].pc = "answer", ![c].room = NONE]
              /\ UNCHANGED <<locks, persist>>
           \/ \E t \in free, l \in Locks :
                 /\ strategy_lock(s, l)
                 /\ locks' = [locks EXCEPT ![s] = l]
                 /\ persist' = [persist EXCEPT ![t] =
                        [pc |-> "wait", strategy |-> s, lock |-> l,
                         adds |-> task[c].adds, seen |-> 0]]
                 /\ Goto(c, "cast")
        /\ UNCHANGED <<rooms, members, slots, lost, wire, elements>>

\* CursorMove: a broadcast and nothing else.
CursorMove(c) ==
    /\ Received(c)
    /\ task[c].current # NONE /\ UserOf[c] # NONE
    /\ task' = [task EXCEPT ![c].pc = "cast", ![c].room = task[c].current]
    /\ UNCHANGED <<rooms, members, slots, lost, wire, content>>

\* RoomManager::broadcast: everybody but the sender, if the room is there.
Cast(c) ==
    LET s == task[c].room IN
    /\ task[c].pc = "cast"
    /\ s \in rooms
    /\ RoomFree(s)
    /\ Broadcast(c, "casting", 0, In(s) \ {c})

CastNowhere(c) ==
    /\ task[c].pc = "cast"
    /\ task[c].room \notin rooms
    /\ task' = [task EXCEPT ![c].pc = "select", ![c].room = NONE]
    /\ UNCHANGED <<rooms, members, slots, lost, wire, content>>

CastDone(c) ==
    /\ Delivered(c, "casting")
    /\ task' = [task EXCEPT ![c].pc = "select", ![c].room = NONE]
    /\ UNCHANGED <<rooms, members, slots, lost, wire, content>>

-----------------------------------------------------------------------------
(* Persist tasks: the lock, the second look at the cap, then the load and   *)
(* the store of add_strategy_element or delete_strategy_element.            *)

Inside(t) == persist[t].pc \in {"check", "load", "store"}

Step(t, pc) == persist' = [persist EXCEPT ![t].pc = pc]

Stored(t) == elements[persist[t].strategy]

PersistLock(t) ==
    /\ persist[t].pc = "wait"
    /\ \A u \in Tasks : Inside(u) => persist[u].lock # persist[t].lock
    /\ Step(t, IF persist[t].adds THEN "check" ELSE "load")
    /\ UNCHANGED <<rooms, members, slots, lost, task, wire, locks, elements>>

PersistCheck(t) ==
    /\ persist[t].pc = "check"
    /\ IF Stored(t) < MaxElements THEN Step(t, "load")
       ELSE persist' = [persist EXCEPT ![t] = PersistIdle]
    /\ UNCHANGED <<rooms, members, slots, lost, task, wire, locks, elements>>

PersistLoad(t) ==
    /\ persist[t].pc = "load"
    /\ persist' = [persist EXCEPT ![t].pc = "store", ![t].seen = Stored(t)]
    /\ UNCHANGED <<rooms, members, slots, lost, task, wire, locks, elements>>

\* The write replaces the list that was loaded; a delete may find nothing.
PersistStore(t) ==
    LET p == persist[t] IN
    /\ p.pc = "store"
    /\ \E n \in IF p.adds THEN {p.seen + 1} ELSE {p.seen, p.seen - 1} \cap Nat :
          elements' = [elements EXCEPT ![p.strategy] = n]
    /\ persist' = [persist EXCEPT ![t] = PersistIdle]
    /\ UNCHANGED <<rooms, members, slots, lost, task, wire, locks>>

\* A statement fails or times out: the change is logged and dropped.
PersistFailed(t) ==
    /\ Inside(t)
    /\ persist' = [persist EXCEPT ![t] = PersistIdle]
    /\ UNCHANGED <<rooms, members, slots, lost, task, wire, locks, elements>>

-----------------------------------------------------------------------------
Acquire(c) == Enter(c) \/ Leave(c) \/ RemoveRoom(c) \/ Cast(c) \/ Answer(c)

Proceed(c) ==
    \/ Deliver(c) \/ Settle(c)
    \/ Reserve(c) \/ Refund(c) \/ AddConnection(c)
    \/ Release(c) \/ ReturnSlot(c) \/ RemoveLock(c) \/ LeaveDone(c)
    \/ Spawn(c) \/ CastNowhere(c) \/ CastDone(c)

Message(c) ==
    \/ \E s \in Strategies : JoinRoom(c, s)
    \/ LeaveRoom(c)
    \/ Ping(c)
    \/ \E add \in BOOLEAN : Edit(c, add)
    \/ CursorMove(c)

Persist(t) ==
    \/ PersistLock(t) \/ PersistCheck(t) \/ PersistLoad(t)
    \/ PersistStore(t) \/ PersistFailed(t)

Next ==
    \/ \E c \in Connections :
          \/ Connect(c) \/ Message(c) \/ EndSocket(c)
          \/ Acquire(c) \/ Proceed(c)
          \/ Forward(c) \/ PeerChanges(c)
    \/ \E t \in Tasks : Persist(t)

Spec == Init /\ [][Next]_vars

\* The runtime polls every task that can go on.  A room guard is held for one
\* delivery and the channel's places are given out in order, so a task that
\* waits for either is let through in the end.  The peer that reads goes on
\* reading.
FairSpec ==
    /\ Spec
    /\ \A c \in Connections :
          /\ WF_vars(Proceed(c))
          /\ SF_vars(Acquire(c))
          /\ WF_vars(Forward(c))
          /\ WF_vars(evict[c] /\ EndSocket(c))

-----------------------------------------------------------------------------
(* Properties. *)

TaskType ==
    [pc: {"closed", "select", "answer", "reserve", "enter", "joining",
          "overlimit", "refund", "leave", "leaving", "left", "freed",
          "unroomed", "spawn", "cast", "casting"},
     current: Strategies \cup {NONE}, room: Strategies \cup {NONE},
     next: Strategies \cup {"select", "closed", NONE},
     todo: Nat, owed: SUBSET Connections, own: BOOLEAN,
     empty: BOOLEAN, adds: BOOLEAN]

PersistType ==
    [pc: {"idle", "wait", "check", "load", "store"},
     strategy: Strategies \cup {NONE}, lock: Locks \cup {NONE},
     adds: BOOLEAN, seen: Nat]

\* The counters never go below zero, and a channel never holds more than its
\* capacity.
TypeOK ==
    /\ rooms \subseteq Strategies
    /\ members \subseteq Strategies \X Connections
    /\ slots \in Nat
    /\ lost \in Nat
    /\ task \in [Connections -> TaskType]
    /\ channel \in [Connections -> 0 .. Capacity]
    /\ sink \in [Connections -> {"reads", "stalled", "gone"}]
    /\ evict \in [Connections -> BOOLEAN]
    /\ locks \in [Strategies -> Locks \cup {NONE}]
    /\ persist \in [Tasks -> PersistType]
    /\ elements \in [Strategies -> Nat]

Reserved == {c \in Connections :
                task[c].pc \in {"enter", "joining", "overlimit", "refund"}}

Returning == {c \in Connections : task[c].own}

Owed == {x \in Connections \X Connections : x[2] \in task[x[1]].owed}

\* The joined-connection count is exact: one slot for each connection in a
\* room, each join under way and each slot about to be returned, plus the
\* entries thrown away with their room.  A slot is never returned twice, a
\* broadcast that drops a connection races its own leave_room included.
SlotsConserved ==
    slots = Cardinality(members) + Cardinality(Reserved)
                + Cardinality(Returning) + Cardinality(Owed) + lost

\* No more connections are joined than the caps allow, however many joins
\* race for the last slot of the server or of a room.
WithinCaps ==
    /\ TypeOK
    /\ Cardinality(members) <= MaxGlobal
    /\ \A s \in Strategies : Cardinality(In(s)) <= MaxRoom

\* "a socket that already holds an admission permit is not rejected" by the
\* joined-connection cap (RoomManager::with_global_limit).
AdmittedMayJoin == \A c \in Connections : task[c].pc # "overlimit"

\* A signed-in connection that believes itself in a room is in it, or was
\* told to close, "instead of silently missing updates" (RoomUser::evict).
NoSilentDrop ==
    \A c \in Connections :
        task[c].current # NONE /\ UserOf[c] # NONE
        => <<task[c].current, c>> \in members \/ evict[c]

\* "persists for one strategy run one at a time under its lock, so the stored
\* count cannot pass the cap" (ElementAdd).
ElementCap == \A s \in Strategies : elements[s] <= MaxElements

\* No two persists of one strategy are between their load and their store:
\* the later store would undo the earlier one.
PersistsSerial ==
    \A t, u \in Tasks :
        t # u /\ Inside(t) /\ Inside(u)
        => persist[t].strategy # persist[u].strategy

\* Concurrent edits of a strategy neither undo one another nor pass its cap.
PersistsSafe == PersistsSerial /\ ElementCap

\* "The socket task then closes the socket": a connection dropped by a
\* broadcast gets its socket closed.
EvictedCloses ==
    \A c \in Connections : evict[c] ~> task[c].pc = "closed"

=============================================================================
