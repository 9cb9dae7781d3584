--------------------------- MODULE CollabRoomProofs ---------------------------
(***************************************************************************)
(* Proofs about the strategy rooms.  For any connections, strategies and   *)
(* caps the joined-connection count is exact and the caps hold; where      *)
(* every room keeps a member, edits are not lost or over the cap, an       *)
(* admitted socket is never refused, and nobody is dropped in silence.     *)
(***************************************************************************)
EXTENDS CollabRoom, FunctionTheorems, FiniteSetTheorems, TLAPS

\* The rooms that always have somebody in them.
KeptRooms == {Kept[c] : c \in Steady}

\* Somebody stays in every room, so none is ever found empty.
EveryRoomKept == Strategies \subseteq KeptRooms

\* The connection believes itself in room s: current_room, or the room that
\* its leave_room has not reached yet.
At(c, s) == \/ task[c].current = s
            \/ task[c].pc = "leave" /\ task[c].room = s

-----------------------------------------------------------------------------
(* The inductive invariant, in parts. *)

InRoom == {"spawn", "cast", "casting"}

Moving == {"reserve", "enter", "joining", "overlimit", "refund", "leave",
           "leaving", "left", "freed", "unroomed"}

\* What the fields of a socket task may be where it stands.
Local(c) ==
    /\ task[c].current # NONE
       => task[c].pc \in {"select", "answer"} \cup InRoom
    /\ task[c].pc \in InRoom
       => task[c].room = task[c].current /\ task[c].room \in Strategies
    /\ task[c].pc \in Moving => task[c].room \in Strategies
    /\ task[c].owed # {} \/ task[c].todo # 0 => Holding(c)
    /\ task[c].own => task[c].pc \in {"leaving", "left"}
    /\ task[c].empty => task[c].pc \in {"left", "freed", "unroomed"}
    /\ task[c].pc = "unroomed" => task[c].empty

TaskInv == \A c \in Connections : Local(c)

\* A member's room is there, and the member believes itself in it.
MemberInv ==
    \A s \in Strategies, c \in Connections :
        <<s, c>> \in members => s \in rooms /\ At(c, s)

\* A room is held by one task, and only while it is there.
HoldInv ==
    \A c \in Connections :
        Holding(c) =>
            /\ task[c].room \in rooms
            /\ \A d \in Connections :
                  Holding(d) /\ task[d].room = task[c].room => d = c

\* The connections whose slots a delivery has still to return are members no
\* longer, and cannot leave before the delivery is over.
OwedInv ==
    \A c, d \in Connections, s \in Strategies :
        d \in task[c].owed /\ task[c].room = s
        => At(d, s) /\ <<s, d>> \notin members

\* A room has a place for the join that holds it.
CapInv ==
    /\ \A s \in Strategies : Cardinality(In(s)) <= MaxRoom
    /\ \A c \in Connections, s \in Strategies :
          task[c].pc = "joining" /\ task[c].room = s
          => Cardinality(In(s)) < MaxRoom

\* The admission semaphore.
SocketInv == Cardinality(Sockets) <= MaxGlobal

\* The members that stay, stay; so their room is never found empty.
KeepInv ==
    /\ \A c \in Steady : /\ task[c].current = Kept[c]
                         /\ <<Kept[c], c>> \in members
                         /\ sink[c] = "reads"
    /\ \A c \in Connections :
          task[c].empty => task[c].room \notin KeptRooms

\* Nobody is dropped in silence from a room that stays, and while all rooms
\* stay no entry is lost and no admitted socket is refused.
DropInv ==
    /\ \A c \in Connections :
          task[c].current \in KeptRooms /\ UserOf[c] # NONE
          => <<task[c].current, c>> \in members \/ evict[c]
    /\ EveryRoomKept => lost = 0 /\ AdmittedMayJoin

\* Two strategies have two mutexes, a persist of a room that stays waits for
\* or holds the mutex of that room, and a mutex is held once.
LockInv ==
    /\ \A s, r \in Strategies : locks[s] = locks[r] /\ locks[s] # NONE => s = r
    /\ \A t \in Tasks :
          persist[t].pc # "idle" =>
              /\ persist[t].strategy \in Strategies
              /\ persist[t].lock \in Locks
              /\ persist[t].strategy \in KeptRooms
                 => persist[t].lock = locks[persist[t].strategy]
    /\ \A t, u \in Tasks :
          t # u /\ Inside(t) /\ Inside(u) => persist[t].lock # persist[u].lock

\* What a persist of a room that stays has seen is still so.
CountInv ==
    /\ \A s \in KeptRooms : elements[s] <= MaxElements
    /\ \A t \in Tasks :
          persist[t].strategy \in KeptRooms =>
              /\ persist[t].pc = "load" /\ persist[t].adds
                 => elements[persist[t].strategy] < MaxElements
              /\ persist[t].pc = "store"
                 => /\ persist[t].seen = elements[persist[t].strategy]
                    /\ persist[t].adds => persist[t].seen < MaxElements

IInv == /\ TypeOK /\ TaskInv /\ MemberInv /\ HoldInv /\ OwedInv
        /\ CapInv /\ SocketInv /\ SlotsConserved /\ KeepInv /\ DropInv
        /\ LockInv /\ CountInv

-----------------------------------------------------------------------------
(* The steps of a socket task. *)

Socket(c) ==
    \/ Connect(c) \/ Message(c) \/ EndSocket(c)
    \/ Acquire(c) \/ Proceed(c)
    \/ Forward(c) \/ PeerChanges(c)

\* The types but that of the count, which follows from its value.
TypeRest ==
    /\ rooms \subseteq Strategies
    /\ members \subseteq Strategies \X Connections
    /\ lost \in Nat
    /\ task \in [Connections -> TaskType]
    /\ channel \in [Connections -> 0 .. Capacity]
    /\ sink \in [Connections -> {"reads", "stalled", "gone"}]
    /\ evict \in [Connections -> BOOLEAN]
    /\ locks \in [Strategies -> Locks \cup {NONE}]
    /\ persist \in [Tasks -> PersistType]
    /\ elements \in [Strategies -> Nat]

\* The connections of a room are finitely many.
LEMMA InFinite ==
    ASSUME TypeOK, NEW s
    PROVE  /\ In(s) \subseteq Connections /\ IsFiniteSet(In(s))
           /\ Cardinality(In(s)) \in Nat
BY RoomAssumption, FS_Subset, FS_CardinalityType DEF In

-----------------------------------------------------------------------------
(* A step of one socket task: what it does to the record of that task. *)

Tasked == task \in [Connections -> TaskType]

\* The tasks of the other connections stay as they are.
Others(c) == \A d \in Connections \ {c} : task'[d] = task[d]

\* The update replaces the record of c by one of the type.
Put(c) == Tasked' /\ Others(c)

\* What matters of the record after the step.
Now(c, pc, current, room) ==
    task'[c].pc = pc /\ task'[c].current = current /\ task'[c].room = room

Rest(c, todo, owed, own, empty) ==
    /\ task'[c].todo = todo /\ task'[c].owed = owed
    /\ task'[c].own = own /\ task'[c].empty = empty

Same(c) == Rest(c, task[c].todo, task[c].owed, task[c].own, task[c].empty)

Pcs == {"closed", "select", "answer", "reserve", "enter", "joining",
        "overlimit", "refund", "leave", "leaving", "left", "freed",
        "unroomed", "spawn", "cast", "casting"}

\* A function updated at c with a record of the type.
LEMMA PutRecord ==
    ASSUME Tasked, NEW c \in Connections, NEW v \in TaskType,
           task' = [task EXCEPT ![c] = v]
    PROVE  Put(c) /\ task'[c] = v
BY DEF Tasked, Put, Others

\* Goto.
LEMMA PutPc ==
    ASSUME Tasked, NEW c \in Connections, NEW pc \in Pcs,
           task' = [task EXCEPT ![c].pc = pc]
    PROVE  Put(c) /\ Now(c, pc, task[c].current, task[c].room) /\ Same(c)
<1>0. PICK r \in TaskType : r = task[c]
  BY DEF Tasked
<1> DEFINE v == [r EXCEPT !.pc = pc]
<1>1. v \in TaskType
  BY DEF TaskType, Pcs
<1>2. task' = [task EXCEPT ![c] = v]
  BY <1>0, Zenon
<1>3. Put(c) /\ task'[c] = v
  <2> HIDE DEF v
  <2> QED BY <1>1, <1>2, PutRecord
<1>4. /\ v.pc = pc /\ v.current = r.current /\ v.room = r.room
      /\ v.todo = r.todo /\ v.owed = r.owed
      /\ v.own = r.own /\ v.empty = r.empty
  BY DEF TaskType
<1> HIDE DEF v
<1> QED BY <1>0, <1>3, <1>4 DEF Now, Same, Rest

\* The place and the room.
LEMMA PutRoom ==
    ASSUME Tasked, NEW c \in Connections, NEW pc \in Pcs,
           NEW room \in Strategies \cup {NONE},
           task' = [task EXCEPT ![c].pc = pc, ![c].room = room]
    PROVE  /\ Put(c) /\ Now(c, pc, task[c].current, room)
           /\ Same(c)
<1>0. PICK r \in TaskType : r = task[c]
  BY DEF Tasked
<1> DEFINE v == [r EXCEPT !.pc = pc, !.room = room]
<1>1. v \in TaskType
  BY DEF TaskType, Pcs
<1>2. task' = [task EXCEPT ![c] = v]
  BY <1>0, Zenon
<1>3. Put(c) /\ task'[c] = v
  <2> HIDE DEF v
  <2> QED BY <1>1, <1>2, PutRecord
<1>4. /\ v.pc = pc /\ v.current = r.current /\ v.room = room
      /\ v.todo = r.todo /\ v.owed = r.owed
      /\ v.own = r.own /\ v.empty = r.empty
  BY DEF TaskType
<1> HIDE DEF v
<1> QED BY <1>0, <1>3, <1>4 DEF Now, Same, Rest

\* The place, and the room becomes the current one.
LEMMA PutJoined ==
    ASSUME Tasked, NEW c \in Connections, NEW pc \in Pcs,
           NEW room \in Strategies \cup {NONE},
           NEW current \in Strategies \cup {NONE},
           task' = [task EXCEPT ![c].pc = pc, ![c].room = room,
                                ![c].current = current]
    PROVE  /\ Put(c) /\ Now(c, pc, current, room)
           /\ Same(c)
<1>0. PICK r \in TaskType : r = task[c]
  BY DEF Tasked
<1> DEFINE v == [r EXCEPT !.pc = pc, !.room = room,
                          !.current = current]
<1>1. v \in TaskType
  BY DEF TaskType, Pcs
<1>2. task' = [task EXCEPT ![c] = v]
  BY <1>0, Zenon
<1>3. Put(c) /\ task'[c] = v
  <2> HIDE DEF v
  <2> QED BY <1>1, <1>2, PutRecord
<1>4. /\ v.pc = pc /\ v.current = current /\ v.room = room
      /\ v.todo = r.todo /\ v.owed = r.owed
      /\ v.own = r.own /\ v.empty = r.empty
  BY DEF TaskType
<1> HIDE DEF v
<1> QED BY <1>0, <1>3, <1>4 DEF Now, Same, Rest

\* LeaveThen.
LEMMA PutLeave ==
    ASSUME Tasked, NEW c \in Connections, NEW pc \in Pcs,
           NEW room \in Strategies \cup {NONE},
           NEW current \in Strategies \cup {NONE},
           NEW next \in Strategies \cup {"select", "closed", NONE},
           task' = [task EXCEPT ![c].pc = pc, ![c].room = room,
                                ![c].current = current, ![c].next = next]
    PROVE  /\ Put(c) /\ Now(c, pc, current, room)
           /\ Same(c)
<1>0. PICK r \in TaskType : r = task[c]
  BY DEF Tasked
<1> DEFINE v == [r EXCEPT !.pc = pc, !.room = room,
                          !.current = current, !.next = next]
<1>1. v \in TaskType
  BY ZenonT(60) DEF TaskType, Pcs
<1>2. task' = [task EXCEPT ![c] = v]
  BY <1>0, Zenon
<1>3. Put(c) /\ task'[c] = v
  <2> HIDE DEF v
  <2> QED BY <1>1, <1>2, PutRecord
<1>4. /\ v.pc = pc /\ v.current = current /\ v.room = room
      /\ v.todo = r.todo /\ v.owed = r.owed
      /\ v.own = r.own /\ v.empty = r.empty
  BY DEF TaskType
<1> HIDE DEF v
<1> QED BY <1>0, <1>3, <1>4 DEF Now, Same, Rest

\* Settle.
LEMMA PutOwed ==
    ASSUME Tasked, NEW c \in Connections, NEW owed \in SUBSET Connections,
           task' = [task EXCEPT ![c].owed = owed]
    PROVE  /\ Put(c) /\ Now(c, task[c].pc, task[c].current, task[c].room)
           /\ Rest(c, task[c].todo, owed, task[c].own, task[c].empty)
<1>0. PICK r \in TaskType : r = task[c]
  BY DEF Tasked
<1> DEFINE v == [r EXCEPT !.owed = owed]
<1>1. v \in TaskType
  BY DEF TaskType, Pcs
<1>2. task' = [task EXCEPT ![c] = v]
  BY <1>0, Zenon
<1>3. Put(c) /\ task'[c] = v
  <2> HIDE DEF v
  <2> QED BY <1>1, <1>2, PutRecord
<1>4. /\ v.pc = r.pc /\ v.current = r.current /\ v.room = r.room
      /\ v.todo = r.todo /\ v.owed = owed
      /\ v.own = r.own /\ v.empty = r.empty
  BY DEF TaskType
<1> HIDE DEF v
<1> QED BY <1>0, <1>3, <1>4 DEF Now, Same, Rest

\* Enter.
LEMMA PutTodo ==
    ASSUME Tasked, NEW c \in Connections, NEW pc \in Pcs, NEW todo \in Nat,
           task' = [task EXCEPT ![c].pc = pc, ![c].todo = todo]
    PROVE  /\ Put(c) /\ Now(c, pc, task[c].current, task[c].room)
           /\ Rest(c, todo, task[c].owed, task[c].own, task[c].empty)
<1>0. PICK r \in TaskType : r = task[c]
  BY DEF Tasked
<1> DEFINE v == [r EXCEPT !.pc = pc, !.todo = todo]
<1>1. v \in TaskType
  BY DEF TaskType, Pcs
<1>2. task' = [task EXCEPT ![c] = v]
  BY <1>0, Zenon
<1>3. Put(c) /\ task'[c] = v
  <2> HIDE DEF v
  <2> QED BY <1>1, <1>2, PutRecord
<1>4. /\ v.pc = pc /\ v.current = r.current /\ v.room = r.room
      /\ v.todo = todo /\ v.owed = r.owed
      /\ v.own = r.own /\ v.empty = r.empty
  BY DEF TaskType
<1> HIDE DEF v
<1> QED BY <1>0, <1>3, <1>4 DEF Now, Same, Rest

\* Leave.
LEMMA PutOwn ==
    ASSUME Tasked, NEW c \in Connections, NEW pc \in Pcs,
           NEW own \in BOOLEAN, NEW todo \in Nat,
           task' = [task EXCEPT ![c].pc = pc, ![c].own = own,
                                ![c].todo = todo]
    PROVE  /\ Put(c) /\ Now(c, pc, task[c].current, task[c].room)
           /\ Rest(c, todo, task[c].owed, own, task[c].empty)
<1>0. PICK r \in TaskType : r = task[c]
  BY DEF Tasked
<1> DEFINE v == [r EXCEPT !.pc = pc, !.own = own, !.todo = todo]
<1>1. v \in TaskType
  BY DEF TaskType, Pcs
<1>2. task' = [task EXCEPT ![c] = v]
  BY <1>0, Zenon
<1>3. Put(c) /\ task'[c] = v
  <2> HIDE DEF v
  <2> QED BY <1>1, <1>2, PutRecord
<1>4. /\ v.pc = pc /\ v.current = r.current /\ v.room = r.room
      /\ v.todo = todo /\ v.owed = r.owed
      /\ v.own = own /\ v.empty = r.empty
  BY DEF TaskType
<1> HIDE DEF v
<1> QED BY <1>0, <1>3, <1>4 DEF Now, Same, Rest

\* Release.
LEMMA PutEmpty ==
    ASSUME Tasked, NEW c \in Connections, NEW pc \in Pcs,
           NEW empty \in BOOLEAN,
           task' = [task EXCEPT ![c].pc = pc, ![c].empty = empty]
    PROVE  /\ Put(c) /\ Now(c, pc, task[c].current, task[c].room)
           /\ Rest(c, task[c].todo, task[c].owed, task[c].own, empty)
<1>0. PICK r \in TaskType : r = task[c]
  BY DEF Tasked
<1> DEFINE v == [r EXCEPT !.pc = pc, !.empty = empty]
<1>1. v \in TaskType
  BY DEF TaskType, Pcs
<1>2. task' = [task EXCEPT ![c] = v]
  BY <1>0, Zenon
<1>3. Put(c) /\ task'[c] = v
  <2> HIDE DEF v
  <2> QED BY <1>1, <1>2, PutRecord
<1>4. /\ v.pc = pc /\ v.current = r.current /\ v.room = r.room
      /\ v.todo = r.todo /\ v.owed = r.owed
      /\ v.own = r.own /\ v.empty = empty
  BY DEF TaskType
<1> HIDE DEF v
<1> QED BY <1>0, <1>3, <1>4 DEF Now, Same, Rest

\* ReturnSlot.
LEMMA PutReturned ==
    ASSUME Tasked, NEW c \in Connections, NEW pc \in Pcs,
           NEW own \in BOOLEAN,
           task' = [task EXCEPT ![c].pc = pc, ![c].own = own]
    PROVE  /\ Put(c) /\ Now(c, pc, task[c].current, task[c].room)
           /\ Rest(c, task[c].todo, task[c].owed, own, task[c].empty)
<1>0. PICK r \in TaskType : r = task[c]
  BY DEF Tasked
<1> DEFINE v == [r EXCEPT !.pc = pc, !.own = own]
<1>1. v \in TaskType
  BY DEF TaskType, Pcs
<1>2. task' = [task EXCEPT ![c] = v]
  BY <1>0, Zenon
<1>3. Put(c) /\ task'[c] = v
  <2> HIDE DEF v
  <2> QED BY <1>1, <1>2, PutRecord
<1>4. /\ v.pc = pc /\ v.current = r.current /\ v.room = r.room
      /\ v.todo = r.todo /\ v.owed = r.owed
      /\ v.own = own /\ v.empty = r.empty
  BY DEF TaskType
<1> HIDE DEF v
<1> QED BY <1>0, <1>3, <1>4 DEF Now, Same, Rest

\* Edit.
LEMMA PutEdit ==
    ASSUME Tasked, NEW c \in Connections, NEW pc \in Pcs,
           NEW adds \in BOOLEAN, NEW room \in Strategies \cup {NONE},
           task' = [task EXCEPT ![c].pc = pc, ![c].adds = adds,
                                ![c].room = room]
    PROVE  /\ Put(c) /\ Now(c, pc, task[c].current, room)
           /\ Same(c)
<1>0. PICK r \in TaskType : r = task[c]
  BY DEF Tasked
<1> DEFINE v == [r EXCEPT !.pc = pc, !.adds = adds, !.room = room]
<1>1. v \in TaskType
  BY DEF TaskType, Pcs
<1>2. task' = [task EXCEPT ![c] = v]
  BY <1>0, Zenon
<1>3. Put(c) /\ task'[c] = v
  <2> HIDE DEF v
  <2> QED BY <1>1, <1>2, PutRecord
<1>4. /\ v.pc = pc /\ v.current = r.current /\ v.room = room
      /\ v.todo = r.todo /\ v.owed = r.owed
      /\ v.own = r.own /\ v.empty = r.empty
  BY DEF TaskType
<1> HIDE DEF v
<1> QED BY <1>0, <1>3, <1>4 DEF Now, Same, Rest

\* A broadcast.
LEMMA PutCast ==
    ASSUME Tasked, NEW c \in Connections, NEW pc \in Pcs, NEW todo \in Nat,
           NEW owed \in SUBSET Connections,
           task' = [task EXCEPT ![c].pc = pc, ![c].todo = todo,
                                ![c].owed = owed]
    PROVE  /\ Put(c) /\ Now(c, pc, task[c].current, task[c].room)
           /\ Rest(c, todo, owed, task[c].own, task[c].empty)
<1>0. PICK r \in TaskType : r = task[c]
  BY DEF Tasked
<1> DEFINE v == [r EXCEPT !.pc = pc, !.todo = todo, !.owed = owed]
<1>1. v \in TaskType
  BY DEF TaskType, Pcs
<1>2. task' = [task EXCEPT ![c] = v]
  BY <1>0, Zenon
<1>3. Put(c) /\ task'[c] = v
  <2> HIDE DEF v
  <2> QED BY <1>1, <1>2, PutRecord
<1>4. /\ v.pc = pc /\ v.current = r.current /\ v.room = r.room
      /\ v.todo = todo /\ v.owed = owed
      /\ v.own = r.own /\ v.empty = r.empty
  BY DEF TaskType
<1> HIDE DEF v
<1> QED BY <1>0, <1>3, <1>4 DEF Now, Same, Rest

\* A closed task is of the type.
LEMMA ClosedType ==
    /\ Closed \in TaskType
    /\ Closed.pc = "closed" /\ Closed.current = NONE /\ Closed.room = NONE
    /\ Closed.todo = 0 /\ Closed.owed = {}
    /\ Closed.own = FALSE /\ Closed.empty = FALSE
BY DEF Closed, TaskType

\* The task goes back to its loop, to a reservation, or ends.
LEMMA PutFresh ==
    ASSUME Tasked, NEW c \in Connections, NEW pc \in Pcs,
           NEW room \in Strategies \cup {NONE},
           task' = [task EXCEPT ![c] = [Closed EXCEPT !.pc = pc, !.room = room]]
    PROVE  Put(c) /\ Now(c, pc, NONE, room) /\ Rest(c, 0, {}, FALSE, FALSE)
<1>0. PICK r \in TaskType : r = Closed
  BY ClosedType
<1> DEFINE v == [r EXCEPT !.pc = pc, !.room = room]
<1>1. v \in TaskType
  BY DEF TaskType, Pcs
<1>2. task' = [task EXCEPT ![c] = v]
  BY <1>0, Zenon
<1>3. Put(c) /\ task'[c] = v
  <2> HIDE DEF v
  <2> QED BY <1>1, <1>2, PutRecord
<1>4. /\ v.pc = pc /\ v.current = r.current /\ v.room = room
      /\ v.todo = r.todo /\ v.owed = r.owed
      /\ v.own = r.own /\ v.empty = r.empty
  BY DEF TaskType
<1> HIDE DEF v
<1> QED BY <1>0, <1>3, <1>4, ClosedType DEF Now, Rest

\* The task ends.
LEMMA PutClosed ==
    ASSUME Tasked, NEW c \in Connections, task' = [task EXCEPT ![c] = Closed]
    PROVE  /\ Put(c) /\ Now(c, "closed", NONE, NONE)
           /\ Rest(c, 0, {}, FALSE, FALSE)
BY ClosedType, PutRecord DEF Now, Rest

\* What the socket task does after leave_room.
LEMMA AfterLeaveFacts ==
    ASSUME Tasked, NEW c \in Connections, AfterLeave(c)
    PROVE  /\ Put(c) /\ Rest(c, 0, {}, FALSE, FALSE)
           /\ \/ \E pc \in {"closed", "select"} : Now(c, pc, NONE, NONE)
              \/ \E s \in Strategies : Now(c, "reserve", NONE, s)
<1>0. PICK r \in TaskType : r = Closed
  BY ClosedType
<1>1. CASE task[c].next = "closed"
  BY <1>1, PutClosed DEF AfterLeave
<1>2. CASE task[c].next # "closed" /\ task[c].next \in Strategies
  <2>1. PICK s \in Strategies : s = task[c].next
    BY <1>2
  <2>2. task' = [task EXCEPT ![c] =
                    [Closed EXCEPT !.pc = "reserve", !.room = s]]
    BY <1>2, <2>1, Zenon DEF AfterLeave
  <2> QED BY <2>2, PutFresh DEF Pcs
<1>3. CASE task[c].next # "closed" /\ task[c].next \notin Strategies
  <2> DEFINE v == [r EXCEPT !.pc = "select"]
  <2>1. v \in TaskType
    BY DEF TaskType
  <2>2. task' = [task EXCEPT ![c] = v]
    BY <1>0, <1>3, Zenon DEF AfterLeave
  <2>3. Put(c) /\ task'[c] = v
    <3> HIDE DEF v
    <3> QED BY <2>1, <2>2, PutRecord
  <2> QED BY <1>0, <2>3, ClosedType DEF TaskType, Now, Rest
<1> QED BY <1>1, <1>2, <1>3

-----------------------------------------------------------------------------
(* What a step of one socket task must do for each part to hold after it. *)

\* The tasks stay in order if the one that moved does.
LEMMA TaskKept ==
    ASSUME TaskInv, NEW c \in Connections, Others(c), Local(c)'
    PROVE  TaskInv'
<1> SUFFICES ASSUME NEW d \in Connections, d # c PROVE Local(d)'
  BY DEF TaskInv
<1>1. task'[d] = task[d] /\ Local(d)
  BY DEF TaskInv, Others
<1> QED BY <1>1 DEF Local, Holding

\* Where the others believe themselves, and what they hold, stays.
LEMMA OthersFacts ==
    ASSUME NEW c \in Connections, Others(c), NEW d \in Connections, d # c
    PROVE  /\ task'[d] = task[d]
           /\ Holding(d)' <=> Holding(d)
           /\ \A s : At(d, s)' <=> At(d, s)
BY DEF Others, Holding, At

\* A membership needs its room and its connection to agree with it.
LEMMA MemberKept ==
    ASSUME MemberInv, NEW c \in Connections, Others(c),
           \A s \in Strategies, d \in Connections :
               <<s, d>> \in members' =>
                   /\ s \in rooms'
                   /\ d # c => <<s, d>> \in members,
           \A s \in Strategies : <<s, c>> \in members' => At(c, s)'
    PROVE  MemberInv'
<1> SUFFICES ASSUME NEW s \in Strategies, NEW d \in Connections,
                    <<s, d>> \in members'
             PROVE  s \in rooms' /\ At(d, s)'
  BY DEF MemberInv
<1>1. CASE d = c
  BY <1>1
<1>2. CASE d # c
  BY <1>2, OthersFacts DEF MemberInv
<1> QED BY <1>1, <1>2

\* Rooms stay held by one task each.
LEMMA HoldKept ==
    ASSUME HoldInv, NEW c \in Connections, Others(c),
           \A d \in Connections \ {c} : Holding(d) => task[d].room \in rooms',
           Holding(c)' => /\ task'[c].room \in rooms'
                          /\ \A d \in Connections \ {c} :
                                Holding(d) => task[d].room # task'[c].room
    PROVE  HoldInv'
<1> SUFFICES ASSUME NEW d \in Connections, Holding(d)'
             PROVE  /\ task'[d].room \in rooms'
                    /\ \A e \in Connections :
                          Holding(e)' /\ task'[e].room = task'[d].room
                          => e = d
  BY DEF HoldInv
<1>1. \A e \in Connections \ {c} :
          task'[e] = task[e] /\ (Holding(e)' <=> Holding(e))
  BY OthersFacts
<1> QED BY <1>1 DEF HoldInv

\* What deliveries have still to settle stays out of the rooms.
LEMMA OwedKept ==
    ASSUME OwedInv, TaskInv, Tasked, NEW c \in Connections, Others(c),
           \A d \in Connections \ {c}, e \in Connections :
               e \in task[d].owed => <<task[d].room, e>> \notin members',
           \A d \in Connections \ {c}, s \in Strategies :
               Holding(d) /\ task[d].room = s /\ At(c, s) => At(c, s)',
           \A e \in Connections, s \in Strategies :
               e \in task'[c].owed /\ task'[c].room = s
               => At(e, s)' /\ <<s, e>> \notin members'
    PROVE  OwedInv'
<1> SUFFICES ASSUME NEW d \in Connections, NEW e \in Connections,
                    NEW s \in Strategies,
                    e \in task'[d].owed, task'[d].room = s, d # c
             PROVE  At(e, s)' /\ <<s, e>> \notin members'
  BY DEF OwedInv
<1>1. task'[d] = task[d]
  BY OthersFacts
<1>2. At(e, s) /\ <<s, e>> \notin members'
  BY <1>1 DEF OwedInv
<1>3. Holding(d)
  BY <1>1 DEF TaskInv, Local
<1>4. At(e, s)'
  BY <1>1, <1>2, <1>3, OthersFacts
<1> QED BY <1>2, <1>4

\* The connections of a room, when none enters.
LEMMA InShrinks ==
    ASSUME TypeOK, members' \subseteq members, NEW s
    PROVE  /\ IsFiniteSet(In(s)') /\ Cardinality(In(s)') \in Nat
           /\ Cardinality(In(s)') <= Cardinality(In(s))
<1>1. In(s)' \subseteq In(s)
  BY DEF In
<1> QED BY <1>1, InFinite, FS_Subset, FS_CardinalityType

\* A room without a new connection stays within its cap.
LEMMA CapKept ==
    ASSUME TypeOK, CapInv, NEW c \in Connections, Others(c),
           members' \subseteq members,
           \A s \in Strategies :
               task'[c].pc = "joining" /\ task'[c].room = s
               => Cardinality(In(s)) < MaxRoom
    PROVE  CapInv'
<1>1. \A s \in Strategies : Cardinality(In(s)') <= MaxRoom
  <2> TAKE s \in Strategies
  <2>1. Cardinality(In(s)) <= MaxRoom
    BY DEF CapInv
  <2> QED BY <2>1, InShrinks, InFinite, RoomAssumption
<1>2. ASSUME NEW d \in Connections, NEW s \in Strategies,
             task'[d].pc = "joining", task'[d].room = s
      PROVE  Cardinality(In(s)') < MaxRoom
  <2>1. Cardinality(In(s)) < MaxRoom
    BY <1>2, OthersFacts DEF CapInv
  <2> QED BY <2>1, InShrinks, InFinite, RoomAssumption
<1> QED BY <1>1, <1>2 DEF CapInv

\* Who stays, stays, unless the step takes it out.
LEMMA KeepKept ==
    ASSUME KeepInv, NEW c \in Connections, Others(c),
           c \in Steady => task'[c].current = task[c].current,
           \A d \in Steady : <<Kept[d], d>> \in members' /\ sink'[d] = "reads",
           task'[c].empty => task'[c].room \notin KeptRooms
    PROVE  KeepInv'
<1>1. \A d \in Connections \ {c} : task'[d] = task[d]
  BY DEF Others
<1>2. Steady \subseteq Connections
  BY RoomAssumption
<1> QED BY <1>1, <1>2 DEF KeepInv

\* Who goes is told.
LEMMA DropKept ==
    ASSUME DropInv, NEW c \in Connections, Others(c),
           \A d \in Connections \ {c} : evict[d] => evict'[d],
           \A d \in Connections \ {c}, s \in KeptRooms :
               <<s, d>> \in members => <<s, d>> \in members' \/ evict'[d],
           task'[c].current \in KeptRooms /\ UserOf[c] # NONE
               => <<task'[c].current, c>> \in members' \/ evict'[c],
           EveryRoomKept => lost' = 0 /\ task'[c].pc # "overlimit"
    PROVE  DropInv'
<1>1. \A d \in Connections \ {c} : task'[d] = task[d]
  BY DEF Others
<1>2. ASSUME NEW d \in Connections,
             task'[d].current \in KeptRooms, UserOf[d] # NONE
      PROVE  <<task'[d].current, d>> \in members' \/ evict'[d]
  BY <1>1, <1>2 DEF DropInv
<1>3. EveryRoomKept => lost' = 0 /\ AdmittedMayJoin'
  BY <1>1 DEF DropInv, AdmittedMayJoin
<1> QED BY <1>2, <1>3 DEF DropInv, EveryRoomKept, KeptRooms

-----------------------------------------------------------------------------
(* The terms of the joined-connection count. *)

\* Taking a part away from a finite set.
LEMMA Minus ==
    ASSUME NEW S, IsFiniteSet(S), NEW D \in SUBSET S
    PROVE  /\ IsFiniteSet(S \ D) /\ IsFiniteSet(D)
           /\ Cardinality(S) \in Nat /\ Cardinality(D) \in Nat
           /\ Cardinality(S \ D) \in Nat
           /\ Cardinality(S) = Cardinality(S \ D) + Cardinality(D)
<1>1. S \cap D = D
  OBVIOUS
<1>2. IsFiniteSet(D) /\ IsFiniteSet(S \ D)
  BY FS_Subset, FS_Difference
<1>3. Cardinality(S \ D) = Cardinality(S) - Cardinality(D)
  BY <1>1, FS_Difference
<1> QED BY <1>2, <1>3, FS_CardinalityType

\* One pair for each connection.
LEMMA PairsWith ==
    ASSUME NEW x, NEW D, IsFiniteSet(D)
    PROVE  IsFiniteSet({x} \X D) /\ Cardinality({x} \X D) = Cardinality(D)
<1>1. IsFiniteSet({x}) /\ Cardinality({x}) = 1 /\ Cardinality(D) \in Nat
  BY FS_Singleton, FS_CardinalityType
<1> HIDE DEF Cardinality, IsFiniteSet
<1>2. IsFiniteSet({x} \X D)
      /\ Cardinality({x} \X D) = Cardinality({x}) * Cardinality(D)
  BY <1>1, FS_Product, Zenon
<1> QED BY <1>1, <1>2

\* The four sets are finite.
LEMMA SlotsFinite ==
    ASSUME members \subseteq Strategies \X Connections
    PROVE  /\ IsFiniteSet(members) /\ IsFiniteSet(Reserved)
           /\ IsFiniteSet(Returning) /\ IsFiniteSet(Owed)
           /\ Cardinality(members) \in Nat /\ Cardinality(Reserved) \in Nat
           /\ Cardinality(Returning) \in Nat /\ Cardinality(Owed) \in Nat
<1>1. /\ IsFiniteSet(Strategies \X Connections)
      /\ IsFiniteSet(Connections \X Connections)
  BY RoomAssumption, FS_Product
<1>2. /\ Reserved \subseteq Connections /\ Returning \subseteq Connections
      /\ Owed \subseteq Connections \X Connections
  BY DEF Reserved, Returning, Owed
<1>3. /\ IsFiniteSet(members) /\ IsFiniteSet(Reserved)
      /\ IsFiniteSet(Returning) /\ IsFiniteSet(Owed)
  BY <1>1, <1>2, RoomAssumption, FS_Subset
<1> QED BY <1>3, FS_CardinalityType

Reserving == {"enter", "joining", "overlimit", "refund"}

\* The joins under way.
LEMMA ReservedStep ==
    ASSUME TypeOK, NEW c \in Connections, Others(c)
    PROVE  /\ (task'[c].pc \in Reserving <=> task[c].pc \in Reserving)
              => Reserved' = Reserved
           /\ task'[c].pc \in Reserving /\ task[c].pc \notin Reserving
              => Cardinality(Reserved') = Cardinality(Reserved) + 1
           /\ task'[c].pc \notin Reserving /\ task[c].pc \in Reserving
              => Cardinality(Reserved') = Cardinality(Reserved) - 1
<1> USE DEF Reserving
<1>1. \A d \in Connections \ {c} : d \in Reserved' <=> d \in Reserved
  BY DEF Others, Reserved
<1>2. /\ c \in Reserved' <=> task'[c].pc \in Reserving
      /\ c \in Reserved <=> task[c].pc \in Reserving
      /\ Reserved' \subseteq Connections /\ Reserved \subseteq Connections
  BY DEF Reserved
<1> HIDE DEF Reserving
<1>3. task'[c].pc \in Reserving /\ task[c].pc \notin Reserving
      => Reserved' = Reserved \cup {c} /\ c \notin Reserved
  BY <1>1, <1>2
<1>4. task'[c].pc \notin Reserving /\ task[c].pc \in Reserving
      => Reserved' = Reserved \ {c} /\ c \in Reserved
  BY <1>1, <1>2
<1>5. IsFiniteSet(Reserved)
  BY SlotsFinite DEF TypeOK
<1>6. (task'[c].pc \in Reserving <=> task[c].pc \in Reserving)
      => Reserved' = Reserved
  BY <1>1, <1>2
<1> QED BY <1>3, <1>4, <1>5, <1>6, FS_AddElement, FS_RemoveElement

\* The slots about to be returned by leave_room.
LEMMA ReturningStep ==
    ASSUME TypeOK, NEW c \in Connections, Put(c)
    PROVE  /\ task'[c].own = task[c].own => Returning' = Returning
           /\ task'[c].own /\ ~task[c].own
              => Cardinality(Returning') = Cardinality(Returning) + 1
           /\ ~task'[c].own /\ task[c].own
              => Cardinality(Returning') = Cardinality(Returning) - 1
<1>1. \A d \in Connections \ {c} : d \in Returning' <=> d \in Returning
  BY DEF Put, Others, Returning
<1>2. /\ c \in Returning' <=> task'[c].own
      /\ c \in Returning <=> task[c].own
      /\ Returning' \subseteq Connections /\ Returning \subseteq Connections
  BY DEF Returning
<1>3. task'[c].own /\ ~task[c].own
      => Returning' = Returning \cup {c} /\ c \notin Returning
  BY <1>1, <1>2
<1>4. ~task'[c].own /\ task[c].own
      => Returning' = Returning \ {c} /\ c \in Returning
  BY <1>1, <1>2
<1>5. IsFiniteSet(Returning)
  BY SlotsFinite DEF TypeOK
<1>6. task'[c].own = task[c].own => Returning' = Returning
  BY <1>1, <1>2
<1> QED BY <1>3, <1>4, <1>5, <1>6, FS_AddElement, FS_RemoveElement

\* The slots a delivery has still to return.
LEMMA OwedStep ==
    ASSUME TypeOK, NEW c \in Connections, Put(c)
    PROVE  /\ task'[c].owed = task[c].owed => Owed' = Owed
           /\ task[c].owed = {}
              => Cardinality(Owed') = Cardinality(Owed)
                                        + Cardinality(task'[c].owed)
           /\ task'[c].owed = {}
              => Cardinality(Owed') = Cardinality(Owed)
                                        - Cardinality(task[c].owed)
<1>1. PICK new, old : new = task'[c].owed /\ old = task[c].owed
  OBVIOUS
<1>2. new \subseteq Connections /\ old \subseteq Connections
  BY <1>1 DEF Put, Tasked, TypeOK, TaskType
<1>3. IsFiniteSet(new) /\ IsFiniteSet(old)
  BY <1>2, RoomAssumption, FS_Subset
<1>4. \A d, e \in Connections :
          /\ <<d, e>> \in Owed' <=> e \in task'[d].owed
          /\ <<d, e>> \in Owed <=> e \in task[d].owed
  BY DEF Owed
<1>5. \A d, e \in Connections :
          d # c => (<<d, e>> \in Owed' <=> <<d, e>> \in Owed)
  BY <1>4 DEF Put, Others
<1>6. /\ Owed' \subseteq Connections \X Connections
      /\ Owed \subseteq Connections \X Connections
  BY DEF Owed
<1>7. /\ \A e \in Connections : <<c, e>> \in Owed' <=> e \in new
      /\ \A e \in Connections : <<c, e>> \in Owed <=> e \in old
  BY <1>1, <1>4
<1>8. IsFiniteSet(Owed) /\ IsFiniteSet(Owed')
  <2>1. IsFiniteSet(Connections \X Connections)
    BY RoomAssumption, FS_Product
  <2> QED BY <1>6, <2>1, FS_Subset
<1>9. new = old => Owed' = Owed
  BY <1>5, <1>6, <1>7
<1>10. old = {} => {c} \X new \subseteq Owed' /\ Owed = Owed' \ ({c} \X new)
  BY <1>2, <1>5, <1>6, <1>7
<1>11. new = {} => {c} \X old \subseteq Owed /\ Owed' = Owed \ ({c} \X old)
  BY <1>2, <1>5, <1>6, <1>7
<1>12. old = {} => Cardinality(Owed') = Cardinality(Owed) + Cardinality(new)
  <2> HAVE old = {}
  <2>1. {c} \X new \subseteq Owed'
    BY <1>10
  <2>0. PICK P : P = {c} \X new
    OBVIOUS
  <2>2. P \in SUBSET Owed' /\ Cardinality(P) = Cardinality(new)
    BY <1>3, <2>0, <2>1, PairsWith
  <2>4. /\ Cardinality(Owed' \ P) \in Nat /\ Cardinality(P) \in Nat
        /\ Cardinality(Owed') = Cardinality(Owed' \ P) + Cardinality(P)
    BY <1>8, <2>2, Minus
  <2>3. Owed = Owed' \ ({c} \X new)
    BY <1>10
  <2> QED BY <2>0, <2>2, <2>3, <2>4
<1>13. new = {} => Cardinality(Owed') = Cardinality(Owed) - Cardinality(old)
  <2> HAVE new = {}
  <2>1. {c} \X old \subseteq Owed
    BY <1>11
  <2>0. PICK P : P = {c} \X old
    OBVIOUS
  <2>2. P \in SUBSET Owed /\ Cardinality(P) = Cardinality(old)
    BY <1>3, <2>0, <2>1, PairsWith
  <2>4. /\ Cardinality(Owed \ P) \in Nat /\ Cardinality(P) \in Nat
        /\ Cardinality(Owed) = Cardinality(Owed \ P) + Cardinality(P)
    BY <1>8, <2>2, Minus
  <2>3. Owed' = Owed \ ({c} \X old)
    BY <1>11
  <2> QED BY <2>0, <2>2, <2>3, <2>4
<1> QED BY <1>1, <1>9, <1>12, <1>13

\* Some connections of a room go.
LEMMA MembersWithout ==
    ASSUME TypeOK, NEW s \in Strategies, NEW D \in SUBSET In(s),
           members' = members \ ({s} \X D)
    PROVE  /\ Cardinality(members') = Cardinality(members) - Cardinality(D)
           /\ Cardinality(D) \in Nat /\ IsFiniteSet(D)
<1>0. PICK P : P = {s} \X D
  OBVIOUS
<1>1. P \subseteq members
  BY <1>0 DEF In
<1>2. IsFiniteSet(D) /\ IsFiniteSet(members)
  BY InFinite, SlotsFinite, FS_Subset DEF TypeOK
<1>3. P \in SUBSET members /\ Cardinality(P) = Cardinality(D)
  BY <1>0, <1>1, <1>2, PairsWith
<1>4. /\ Cardinality(members \ P) \in Nat /\ Cardinality(P) \in Nat
      /\ Cardinality(members) = Cardinality(members \ P) + Cardinality(P)
  BY <1>2, <1>3, Minus
<1> QED BY <1>0, <1>2, <1>3, <1>4

-----------------------------------------------------------------------------
(* A step of one socket task that leaves the members alone. *)

\* The count is a natural number because of what it counts.
LEMMA SlotsNat ==
    ASSUME TypeRest', SlotsConserved'
    PROVE  TypeOK'
<1>1. /\ IsFiniteSet(Strategies \X Connections)
      /\ IsFiniteSet(Connections \X Connections)
  BY RoomAssumption, FS_Product
<1>2. /\ Reserved' \subseteq Connections /\ Returning' \subseteq Connections
      /\ Owed' \subseteq Connections \X Connections
  BY DEF Reserved, Returning, Owed
<1>3. /\ IsFiniteSet(members') /\ IsFiniteSet(Reserved')
      /\ IsFiniteSet(Returning') /\ IsFiniteSet(Owed')
  BY <1>1, <1>2, RoomAssumption, FS_Subset DEF TypeRest
<1>4. /\ Cardinality(members') \in Nat /\ Cardinality(Reserved') \in Nat
      /\ Cardinality(Returning') \in Nat /\ Cardinality(Owed') \in Nat
  BY <1>3, FS_CardinalityType
<1>5. slots' \in Nat
  BY <1>4 DEF SlotsConserved, TypeRest
<1> QED BY <1>5 DEF TypeRest, TypeOK

\* A task that takes, drops and returns nothing leaves the count right.
LEMMA QuietSlots ==
    ASSUME TypeOK, SlotsConserved, NEW c \in Connections, Put(c),
           UNCHANGED <<members, slots, lost>>,
           task'[c].pc \in Reserving <=> task[c].pc \in Reserving,
           task'[c].own = task[c].own, task'[c].owed = task[c].owed
    PROVE  SlotsConserved'
<1>1. Reserved' = Reserved /\ Returning' = Returning /\ Owed' = Owed
  BY ReservedStep, ReturningStep, OwedStep DEF Put
<1> QED BY <1>1 DEF SlotsConserved

\* No socket opens.
LEMMA SocketsKept ==
    ASSUME SocketInv, NEW c \in Connections, Others(c),
           task[c].pc = "closed" => task'[c].pc = "closed"
    PROVE  SocketInv'
<1>1. Sockets' \subseteq Sockets /\ Sockets \subseteq Connections
  BY DEF Sockets, Others
<1>2. IsFiniteSet(Sockets)
  BY <1>1, RoomAssumption, FS_Subset
<1>3. /\ Cardinality(Sockets') <= Cardinality(Sockets)
      /\ Cardinality(Sockets') \in Nat /\ Cardinality(Sockets) \in Nat
  BY <1>1, <1>2, FS_Subset, FS_CardinalityType
<1> QED BY <1>3, RoomAssumption DEF SocketInv

\* Nothing that concerns edits changes.
LEMMA ContentKept ==
    ASSUME LockInv, CountInv, UNCHANGED content
    PROVE  LockInv' /\ CountInv'
<1>1. locks' = locks /\ persist' = persist /\ elements' = elements
  BY DEF content
<1>2. LockInv'
  BY <1>1 DEF LockInv, Inside
<1>3. CountInv'
  BY <1>1 DEF CountInv
<1> QED BY <1>2, <1>3

\* A step of one task that changes no membership keeps the invariant if the
\* task keeps off rooms that others hold, and believes itself where it was.
LEMMA StepInv ==
    ASSUME IInv, NEW c \in Connections, Put(c), TypeRest', Local(c)',
           members' = members, lost' = lost, rooms \subseteq rooms',
           SlotsConserved', SocketInv', LockInv', CountInv',
           task'[c].owed # {} => /\ task'[c].owed = task[c].owed
                                 /\ task'[c].room = task[c].room,
           \A s \in rooms : At(c, s) => At(c, s)',
           Holding(c)' => /\ task'[c].room \in rooms'
                          /\ \A d \in Connections \ {c} :
                                Holding(d) => task[d].room # task'[c].room,
           \A s \in Strategies : task'[c].pc = "joining" /\ task'[c].room = s
                                 => Cardinality(In(s)) < MaxRoom,
           c \in Steady => task'[c].current = task[c].current,
           \A d \in Steady : sink'[d] = sink[d],
           \A d \in Connections \ {c} : evict'[d] = evict[d],
           task'[c].current # NONE /\ UserOf[c] # NONE
               => task'[c].current = task[c].current /\ evict'[c] = evict[c],
           task'[c].empty => task'[c].room \notin KeptRooms,
           EveryRoomKept => task'[c].pc # "overlimit"
    PROVE  IInv'
<1> USE DEF Put
<1>1. TypeOK'
  BY SlotsNat
<1>2. TaskInv'
  BY TaskKept DEF IInv
<1>3. MemberInv'
  <2>1. \A s \in Strategies, d \in Connections :
            <<s, d>> \in members' =>
                s \in rooms' /\ (d # c => <<s, d>> \in members)
    BY DEF IInv, MemberInv
  <2>2. \A s \in Strategies : <<s, c>> \in members' => At(c, s)'
    BY DEF IInv, MemberInv
  <2> QED BY <2>1, <2>2, MemberKept DEF IInv
<1>4. HoldInv'
  <2>1. \A d \in Connections \ {c} : Holding(d) => task[d].room \in rooms'
    BY DEF IInv, HoldInv
  <2> QED BY <2>1, HoldKept DEF IInv
<1>5. OwedInv'
  <2>1. \A d \in Connections \ {c}, e \in Connections :
            e \in task[d].owed => <<task[d].room, e>> \notin members'
    <3> SUFFICES ASSUME NEW d \in Connections, NEW e \in Connections,
                        e \in task[d].owed
                 PROVE  <<task[d].room, e>> \notin members
      OBVIOUS
    <3>1. task[d].room \in Strategies
      BY DEF IInv, TaskInv, Local, Holding, Moving, InRoom
    <3> QED BY <3>1 DEF IInv, OwedInv
  <2>2. \A d \in Connections \ {c}, s \in Strategies :
            Holding(d) /\ task[d].room = s /\ At(c, s) => At(c, s)'
    BY DEF IInv, HoldInv
  <2>3. ASSUME NEW e \in Connections, NEW s \in Strategies,
               e \in task'[c].owed, task'[c].room = s
        PROVE  At(e, s)' /\ <<s, e>> \notin members'
    <3>1. e \in task[c].owed /\ task[c].room = s
      BY <2>3
    <3>2. At(e, s) /\ <<s, e>> \notin members /\ s \in rooms
      BY <3>1 DEF IInv, OwedInv, HoldInv, TaskInv, Local
    <3> QED BY <3>2, OthersFacts
  <2> QED BY <2>1, <2>2, <2>3, OwedKept DEF IInv, TypeOK, Tasked
<1>6. CapInv'
  BY CapKept DEF IInv
<1>7. KeepInv'
  <2>1. \A d \in Steady : <<Kept[d], d>> \in members' /\ sink'[d] = "reads"
    BY DEF IInv, KeepInv
  <2> QED BY <2>1, KeepKept DEF IInv
<1>8. DropInv'
  <2>1. \A d \in Connections \ {c}, s \in KeptRooms :
            <<s, d>> \in members => <<s, d>> \in members' \/ evict'[d]
    OBVIOUS
  <2>2. task'[c].current \in KeptRooms /\ UserOf[c] # NONE
           => <<task'[c].current, c>> \in members' \/ evict'[c]
    <3>1. NONE \notin KeptRooms
      BY RoomAssumption DEF KeptRooms
    <3> QED BY <3>1 DEF IInv, DropInv
  <2>3. \A d \in Connections \ {c} : evict[d] => evict'[d]
    OBVIOUS
  <2>4. EveryRoomKept => lost' = 0 /\ task'[c].pc # "overlimit"
    BY DEF IInv, DropInv
  <2> QED BY <2>1, <2>2, <2>3, <2>4, DropKept DEF IInv
<1> QED BY <1>1, <1>2, <1>3, <1>4, <1>5, <1>6, <1>7, <1>8 DEF IInv

Wired == /\ channel \in [Connections -> 0 .. Capacity]
         /\ sink \in [Connections -> {"reads", "stalled", "gone"}]
         /\ evict \in [Connections -> BOOLEAN]

\* The part of the invariant about edits.
Contented == /\ locks \in [Strategies -> Locks \cup {NONE}]
             /\ persist \in [Tasks -> PersistType]
             /\ elements \in [Strategies -> Nat]
             /\ LockInv /\ CountInv

\* The same, with the types.
LEMMA ContentedKept ==
    ASSUME IInv, UNCHANGED content
    PROVE  Contented'
BY ContentKept DEF IInv, TypeOK, Contented, content

\* Where the task stands for the rooms stays.
Stays(c) ==
    /\ task[c].pc = "closed" => task'[c].pc = "closed"
    /\ task'[c].pc \in Reserving <=> task[c].pc \in Reserving
    /\ task'[c].own = task[c].own /\ task'[c].owed = task[c].owed
    /\ task'[c].owed # {} => task'[c].room = task[c].room
    /\ Holding(c)' => Holding(c) /\ task'[c].room = task[c].room
    /\ task'[c].pc = "joining" => task[c].pc = "joining"
    /\ task'[c].pc = "overlimit" => task[c].pc = "overlimit"
    /\ task'[c].empty => task'[c].room \notin KeptRooms

\* The same for a step that takes, drops and returns no slot.
LEMMA QuietStep ==
    ASSUME IInv, NEW c \in Connections, Put(c), Local(c)', Wired', Contented',
           UNCHANGED <<rooms, members, slots, lost>>, Stays(c),
           \A s \in rooms : At(c, s) => At(c, s)',
           c \in Steady => task'[c].current = task[c].current,
           \A d \in Steady : sink'[d] = sink[d],
           \A d \in Connections \ {c} : evict'[d] = evict[d],
           task'[c].current # NONE /\ UserOf[c] # NONE
               => task'[c].current = task[c].current /\ evict'[c] = evict[c]
    PROVE  IInv'
<1> USE DEF Stays
<1>1. TypeRest'
  BY DEF IInv, TypeOK, TypeRest, Wired, Contented, Put, Tasked
<1>2. SlotsConserved'
  BY QuietSlots DEF IInv
<1>3. SocketInv'
  BY SocketsKept DEF IInv, Put
<1>4. Holding(c)' => /\ task'[c].room \in rooms'
                     /\ \A d \in Connections \ {c} :
                           Holding(d) => task[d].room # task'[c].room
  BY DEF IInv, HoldInv
<1>5. \A s \in Strategies : task'[c].pc = "joining" /\ task'[c].room = s
                            => Cardinality(In(s)) < MaxRoom
  BY DEF IInv, CapInv, Holding
<1>6. EveryRoomKept => task'[c].pc # "overlimit"
  BY DEF IInv, DropInv, AdmittedMayJoin
<1> QED BY <1>1, <1>2, <1>3, <1>4, <1>5, <1>6, StepInv DEF Contented

-----------------------------------------------------------------------------
(* The steps of the loop. *)

\* What the invariant says of one task.
LEMMA Typed ==
    ASSUME IInv, NEW c \in Connections
    PROVE  /\ TypeOK /\ Tasked /\ Wired /\ Local(c)
           /\ task[c] \in TaskType
           /\ c \in Steady => task[c].current \in Strategies
           /\ c \in Steady => task[c].current # NONE
           /\ task[c].empty => task[c].room \notin KeptRooms
           /\ task[c].pc \in Pcs
           /\ task[c].room \in Strategies \cup {NONE}
           /\ task[c].current \in Strategies \cup {NONE}
           /\ task[c].todo \in Nat /\ task[c].owed \in SUBSET Connections
           /\ task[c].own \in BOOLEAN /\ task[c].empty \in BOOLEAN
<1>1. TypeOK /\ Tasked /\ Wired /\ Local(c) /\ task[c] \in TaskType
  BY DEF IInv, TypeOK, Tasked, Wired, TaskInv
<1>2. /\ task[c].pc \in Pcs
      /\ task[c].room \in Strategies \cup {NONE}
      /\ task[c].current \in Strategies \cup {NONE}
      /\ task[c].todo \in Nat /\ task[c].owed \in SUBSET Connections
      /\ task[c].own \in BOOLEAN /\ task[c].empty \in BOOLEAN
  BY <1>1 DEF TaskType, Pcs
<1>3. /\ c \in Steady => task[c].current \in Strategies
      /\ c \in Steady => task[c].current # NONE
      /\ task[c].empty => task[c].room \notin KeptRooms
  BY RoomAssumption DEF IInv, KeepInv
<1> QED BY <1>1, <1>2, <1>3

\* The record of a task that begins to leave.
LEMMA LeaveThenFacts ==
    ASSUME IInv, NEW c \in Connections, task[c].current # NONE,
           NEW next \in Strategies \cup {"select", "closed"},
           task[c].pc = "select", LeaveThen(c, next)
    PROVE  /\ Put(c) /\ Now(c, "leave", NONE, task[c].current) /\ Same(c)
<1>1. PICK r \in Strategies \cup {NONE} : r = task[c].current
  BY Typed
<1>2. task' = [task EXCEPT ![c].pc = "leave", ![c].room = r,
                           ![c].current = NONE, ![c].next = next]
  BY <1>1 DEF LeaveThen
<1>3. Put(c) /\ Now(c, "leave", NONE, r) /\ Same(c)
  BY <1>2, PutLeave, Typed DEF Pcs
<1> QED BY <1>1, <1>3

\* A leave_room begins, of a connection that may leave.
LEMMA LeaveStep ==
    ASSUME IInv, NEW c \in Connections \ Steady, task[c].current # NONE,
           NEW next \in Strategies \cup {"select", "closed"},
           task[c].pc = "select", LeaveThen(c, next),
           UNCHANGED <<rooms, members, slots, lost, wire, content>>
    PROVE  IInv'
<1>1. /\ Put(c) /\ Now(c, "leave", NONE, task[c].current) /\ Same(c)
      /\ Local(c) /\ Wired /\ task[c].current \in Strategies
  BY LeaveThenFacts, Typed
<1>2. Local(c)' /\ Stays(c)
  BY <1>1 DEF Now, Same, Rest, Local, Stays, Holding, Moving, InRoom, Reserving
<1>3. \A s \in rooms : At(c, s) => At(c, s)'
  BY <1>1 DEF At, Now
<1>4. Wired' /\ Contented'
  BY <1>1, ContentedKept DEF Wired, wire
<1> QED BY <1>1, <1>2, <1>3, <1>4, QuietStep DEF Now, wire

\* The task moves on in its loop, in the room it is in.
LEMMA LoopStep ==
    ASSUME IInv, NEW c \in Connections,
           NEW pc \in {"select", "answer", "spawn", "cast"}, NEW room,
           Put(c), Now(c, pc, task[c].current, room), Same(c),
           task[c].pc \in {"select", "answer"} \cup InRoom,
           pc \in InRoom => room = task[c].current /\ room \in Strategies,
           task[c].pc = "casting" => Delivered(c, "casting"),
           UNCHANGED <<rooms, members, slots, lost, sink, evict>>,
           Wired', Contented'
    PROVE  IInv'
<1>1. Local(c) /\ task[c].owed \in SUBSET Connections
  BY Typed
<1>2. Local(c)' /\ Stays(c)
  BY <1>1 DEF Now, Same, Rest, Local, Stays, Holding, Moving, InRoom,
              Reserving, Delivered
<1>3. \A s \in rooms : At(c, s) => At(c, s)'
  BY DEF At, Now, InRoom
<1> QED BY <1>2, <1>3, QuietStep DEF Now

\* An admitted socket finds the semaphore within its bound.
LEMMA ConnectInv ==
    ASSUME IInv, NEW c \in Connections, Connect(c)
    PROVE  IInv'
<1>1. Tasked /\ Local(c) /\ Wired /\ task[c].pc = "closed"
  BY Typed DEF Connect
<1>2. /\ Put(c) /\ Now(c, "select", task[c].current, task[c].room)
      /\ Same(c)
  BY <1>1, PutPc DEF Connect, Goto, Pcs
<1>3. task[c].current = NONE /\ c \notin Steady
  BY <1>1, Typed DEF Local, InRoom
<1>4. Local(c)'
  BY <1>1, <1>2 DEF Now, Same, Rest, Local, Holding, Moving, InRoom
<1>5. TypeRest'
  <2>1. Wired'
    BY <1>1, RoomAssumption DEF Connect, Wired
  <2>2. Contented' /\ UNCHANGED <<rooms, members, lost>>
    BY ContentedKept DEF Connect
  <2> QED BY <1>2, <2>1, <2>2, Typed
          DEF TypeOK, TypeRest, Put, Tasked, Wired, Contented
<1>6. SlotsConserved'
  <2>1. UNCHANGED <<members, slots, lost>>
    BY DEF Connect
  <2> QED BY <1>1, <1>2, <2>1, QuietSlots, Typed
          DEF Now, Same, Rest, Reserving, IInv
<1>7. SocketInv'
  <2>1. Sockets' = Sockets \cup {c} /\ c \notin Sockets
    BY <1>1, <1>2 DEF Sockets, Now, Put, Others
  <2>2. IsFiniteSet(Sockets) /\ Cardinality(Sockets) \in Nat
    <3>1. Sockets \subseteq Connections
      BY DEF Sockets
    <3> QED BY <3>1, RoomAssumption, FS_Subset, FS_CardinalityType
  <2>3. Cardinality(Sockets') = Cardinality(Sockets) + 1
    BY <2>1, <2>2, FS_AddElement
  <2> QED BY <2>2, <2>3, RoomAssumption DEF SocketInv, Connect
<1>8. /\ UNCHANGED <<members, rooms, lost>> /\ LockInv' /\ CountInv'
      /\ \A d \in Connections \ {c} : sink'[d] = sink[d] /\ evict'[d] = evict[d]
  BY <1>1, ContentedKept DEF Connect, Contented, Wired
<1>9. /\ task'[c].owed = task[c].owed /\ task'[c].room = task[c].room
      /\ ~Holding(c)' /\ task'[c].pc # "joining" /\ task'[c].pc # "overlimit"
      /\ task'[c].current = NONE /\ ~task'[c].empty
  BY <1>1, <1>2, <1>3 DEF Now, Same, Rest, Holding, Local
<1>10. \A s \in rooms : ~At(c, s)
  BY <1>1, <1>3, RoomAssumption, Typed DEF At, TypeOK
<1>11. \A d \in Steady : sink'[d] = sink[d]
  BY <1>3, <1>8, RoomAssumption
<1> QED BY <1>2, <1>3, <1>4, <1>5, <1>6, <1>7, <1>8, <1>9, <1>10, <1>11, StepInv

\* A JoinRoom message.
LEMMA JoinRoomInv ==
    ASSUME IInv, NEW c \in Connections, NEW s \in Strategies, JoinRoom(c, s)
    PROVE  IInv'
<1>1. /\ task[c].pc = "select" /\ c \notin Steady /\ Local(c) /\ Wired /\ Tasked
      /\ UNCHANGED <<rooms, members, slots, lost, channel, sink, evict>>
      /\ UNCHANGED content
  BY Typed DEF JoinRoom, Received, wire
<1>2. Wired' /\ Contented'
  BY <1>1, ContentedKept DEF Wired
<1>3. CASE Goto(c, "answer")
  <2>1. /\ Put(c) /\ Now(c, "answer", task[c].current, task[c].room)
        /\ Same(c)
    BY <1>1, <1>3, PutPc DEF Goto, Pcs
  <2> QED BY <1>1, <1>2, <2>1, LoopStep DEF InRoom
<1>4. CASE task[c].current # NONE /\ LeaveThen(c, s)
  BY <1>1, <1>4, LeaveStep DEF wire
<1>5. CASE /\ task[c].current = NONE
           /\ task' = [task EXCEPT ![c].pc = "reserve", ![c].room = s]
  <2>1. /\ Put(c) /\ Now(c, "reserve", task[c].current, s)
        /\ Same(c)
    BY <1>1, <1>5, PutRoom DEF Pcs
  <2>2. Local(c)' /\ Stays(c)
    BY <1>1, <1>5, <2>1 DEF Now, Same, Rest, Local, Stays, Holding, Moving,
                            InRoom, Reserving
  <2>3. \A r \in rooms : ~At(c, r)
    BY <1>1, <1>5, RoomAssumption, Typed DEF At, TypeOK
  <2> QED BY <1>1, <1>2, <1>5, <2>1, <2>2, <2>3, QuietStep DEF Now
<1> QED BY <1>3, <1>4, <1>5 DEF JoinRoom

\* A LeaveRoom message.
LEMMA LeaveRoomInv ==
    ASSUME IInv, NEW c \in Connections, LeaveRoom(c)
    PROVE  IInv'
BY LeaveStep DEF LeaveRoom, Received

\* The end of the loop, from inside or outside a room.
LEMMA EndSocketInv ==
    ASSUME IInv, NEW c \in Connections, EndSocket(c)
    PROVE  IInv'
<1>1. /\ task[c].pc = "select" /\ c \notin Steady /\ Local(c) /\ Wired /\ Tasked
      /\ UNCHANGED <<rooms, members, slots, lost, channel, sink, evict>>
      /\ UNCHANGED content
  BY Typed DEF EndSocket, wire
<1>2. Wired' /\ Contented'
  BY <1>1, ContentedKept DEF Wired
<1>3. CASE task[c].current # NONE
  BY <1>1, <1>3, LeaveStep DEF EndSocket
<1>4. CASE task[c].current = NONE
  <2>1. /\ Put(c) /\ Now(c, "closed", NONE, NONE)
        /\ Rest(c, 0, {}, FALSE, FALSE)
    BY <1>1, <1>4, PutClosed DEF EndSocket
  <2>2. Local(c)' /\ Stays(c)
    BY <1>1, <1>4, <2>1, Typed
       DEF Now, Rest, Local, Stays, Holding, Moving, InRoom, Reserving
  <2>3. \A r \in rooms : ~At(c, r)
    BY <1>1, <1>4, RoomAssumption, Typed DEF At, TypeOK
  <2> QED BY <1>1, <1>2, <1>4, <2>1, <2>2, <2>3, QuietStep DEF Now
<1> QED BY <1>3, <1>4

\* A message that is only answered.
LEMMA PingInv ==
    ASSUME IInv, NEW c \in Connections, Ping(c)
    PROVE  IInv'
<1>1. /\ Put(c) /\ Now(c, "answer", task[c].current, task[c].room)
      /\ Same(c)
  BY PutPc, Typed DEF Ping, Goto, Pcs
<1>2. Wired' /\ Contented'
  BY ContentedKept, Typed DEF Ping, Wired, wire
<1> QED BY <1>1, <1>2, LoopStep DEF Ping, Received, InRoom, wire

\* The answer finds a place in the channel.
LEMMA AnswerInv ==
    ASSUME IInv, NEW c \in Connections, Answer(c)
    PROVE  IInv'
<1>1. /\ Put(c) /\ Now(c, "select", task[c].current, task[c].room)
      /\ Same(c)
  BY PutPc, Typed DEF Answer, Goto, Pcs
<1>2. Wired' /\ Contented'
  BY ContentedKept, RoomAssumption, Typed DEF Answer, Wired
<1> QED BY <1>1, <1>2, LoopStep DEF Answer, InRoom

\* A cursor that moves.
LEMMA CursorMoveInv ==
    ASSUME IInv, NEW c \in Connections, CursorMove(c)
    PROVE  IInv'
<1>1. PICK s \in Strategies : s = task[c].current
  BY Typed DEF CursorMove
<1>2. task' = [task EXCEPT ![c].pc = "cast", ![c].room = s]
  BY <1>1 DEF CursorMove
<1>3. Put(c) /\ Now(c, "cast", task[c].current, s) /\ Same(c)
  BY <1>2, PutRoom, Typed DEF Pcs
<1>4. Wired' /\ Contented'
  BY ContentedKept, Typed DEF CursorMove, Wired, wire
<1> QED BY <1>1, <1>3, <1>4, LoopStep DEF CursorMove, Received, wire, InRoom

\* An edit, let through or refused.
LEMMA EditInv ==
    ASSUME IInv, NEW c \in Connections, NEW add \in BOOLEAN, Edit(c, add)
    PROVE  IInv'
<1>1. PICK s \in Strategies : s = task[c].current
  BY Typed DEF Edit
<1>2. /\ task[c].pc = "select"
      /\ UNCHANGED <<rooms, members, slots, lost, sink, evict>>
  BY DEF Edit, Received, wire
<1>3. Wired' /\ Contented'
  BY ContentedKept, Typed DEF Edit, Wired, wire
<1>4. CASE task' = [task EXCEPT ![c].pc = "spawn", ![c].adds = add,
                                ![c].room = task[c].current]
  <2>1. task' = [task EXCEPT ![c].pc = "spawn", ![c].adds = add, ![c].room = s]
    BY <1>1, <1>4
  <2>2. Put(c) /\ Now(c, "spawn", task[c].current, s) /\ Same(c)
    BY <2>1, PutEdit, Typed DEF Pcs
  <2> QED BY <1>1, <1>2, <1>3, <2>2, LoopStep DEF InRoom
<1>5. CASE Goto(c, "answer")
  <2>1. /\ Put(c) /\ Now(c, "answer", task[c].current, task[c].room)
        /\ Same(c)
    BY <1>5, PutPc, Typed DEF Goto, Pcs
  <2> QED BY <1>2, <1>3, <2>1, LoopStep DEF InRoom
<1> QED BY <1>4, <1>5 DEF Edit

\* The end of a broadcast.
LEMMA CastEndInv ==
    ASSUME IInv, NEW c \in Connections, CastNowhere(c) \/ CastDone(c)
    PROVE  IInv'
<1>1. task' = [task EXCEPT ![c].pc = "select", ![c].room = NONE]
  BY DEF CastNowhere, CastDone
<1>2. Put(c) /\ Now(c, "select", task[c].current, NONE) /\ Same(c)
  BY <1>1, PutRoom, Typed DEF Pcs
<1>3. Wired' /\ Contented'
  BY ContentedKept, Typed DEF CastNowhere, CastDone, Wired, wire
<1>4. /\ task[c].pc \in InRoom
      /\ task[c].pc = "casting" => Delivered(c, "casting")
      /\ UNCHANGED <<rooms, members, slots, lost, sink, evict>>
  BY DEF CastNowhere, CastDone, Delivered, InRoom, wire
<1> QED BY <1>2, <1>3, <1>4, LoopStep DEF InRoom

\* The wire alone.
LEMMA WireInv ==
    ASSUME IInv, NEW c \in Connections, Forward(c) \/ PeerChanges(c)
    PROVE  IInv'
<1>1. Wired /\ Tasked
  BY Typed
<1>2. /\ UNCHANGED <<rooms, members, slots, lost, task, evict>>
      /\ UNCHANGED content
      /\ \A d \in Steady : sink'[d] = sink[d]
  BY <1>1, RoomAssumption DEF Forward, PeerChanges, Wired
<1>3. Wired' /\ Contented'
  <2>1. Wired'
    BY <1>1, <1>2, RoomAssumption DEF Forward, PeerChanges, Wired
  <2> QED BY <1>2, <2>1, ContentedKept
<1>4. Put(c) /\ Local(c)' /\ Stays(c)
  BY <1>1, <1>2, Typed DEF Put, Others, Tasked, Local, Stays, Holding, Reserving
<1>5. \A s \in rooms : At(c, s) => At(c, s)'
  BY <1>2 DEF At
<1> QED BY <1>2, <1>3, <1>4, <1>5, QuietStep

-----------------------------------------------------------------------------
(* The steps that neither take nor return a slot. *)

\* A room found empty is no room that somebody stays in.
LEMMA ReleaseInv ==
    ASSUME IInv, NEW c \in Connections, Release(c)
    PROVE  IInv'
<1>1. PICK e \in BOOLEAN : e = (In(task[c].room) = {})
  OBVIOUS
<1>2. task' = [task EXCEPT ![c].pc = "left", ![c].empty = e]
  BY <1>1 DEF Release
<1>3. /\ Put(c) /\ Now(c, "left", task[c].current, task[c].room)
      /\ Rest(c, task[c].todo, task[c].owed, task[c].own, e)
  BY <1>2, PutEmpty, Typed DEF Pcs
<1>4. Wired' /\ Contented'
  BY ContentedKept, Typed DEF Release, Wired, wire
<1>5. e => task[c].room \notin KeptRooms
  <2> SUFFICES ASSUME NEW k \in Steady, task[c].room = Kept[k],
                      In(task[c].room) = {}
               PROVE  FALSE
    BY <1>1 DEF KeptRooms
  <2>1. <<Kept[k], k>> \in members /\ k \in Connections
    BY RoomAssumption DEF IInv, KeepInv
  <2> QED BY <2>1 DEF In
<1>6. Local(c) /\ Delivered(c, "leaving")
  BY Typed DEF Release
<1>7. Local(c)' /\ Stays(c)
  BY <1>3, <1>5, <1>6 DEF Now, Rest, Local, Stays, Holding, Moving, InRoom,
                          Reserving, Delivered
<1>8. \A s \in rooms : ~At(c, s)
  <2>1. task[c].current = NONE
    BY <1>6 DEF Local, Delivered, InRoom
  <2> QED BY <1>6, <2>1, RoomAssumption, Typed DEF At, TypeOK, Delivered
<1>9. c \notin Steady /\ task'[c].current = task[c].current
  BY <1>3, <1>6, Typed DEF Local, Delivered, InRoom, Now
<1> QED BY <1>3, <1>4, <1>7, <1>8, <1>9, QuietStep DEF Release, wire

\* leave_room is over, and nothing but the mutex of the room may have gone.
LEMMA AfterLeaveInv ==
    ASSUME IInv, NEW c \in Connections, AfterLeave(c), Contented',
           UNCHANGED <<rooms, members, slots, lost, wire>>,
           \/ task[c].pc = "leave" /\ task[c].room \notin rooms
           \/ task[c].pc \in {"freed", "unroomed"}
    PROVE  IInv'
<1>1. Tasked /\ Local(c) /\ Wired'
  BY Typed DEF wire, Wired
<1>2. /\ Put(c) /\ Rest(c, 0, {}, FALSE, FALSE)
      /\ \/ \E pc \in {"closed", "select"} : Now(c, pc, NONE, NONE)
         \/ \E s \in Strategies : Now(c, "reserve", NONE, s)
  BY <1>1, AfterLeaveFacts
<1>3. /\ task[c].current = NONE /\ task[c].own = FALSE /\ task[c].owed = {}
      /\ c \notin Steady
  BY <1>1, Typed DEF Local, Holding, InRoom
<1>4. Local(c)' /\ Stays(c)
  BY <1>1, <1>2, <1>3 DEF Now, Rest, Local, Stays, Holding, Moving, InRoom,
                          Reserving
<1>5. \A s \in rooms : ~At(c, s)
  BY <1>3, RoomAssumption, Typed DEF At, TypeOK
<1>6. task'[c].current = NONE
  BY <1>2 DEF Now
<1> QED BY <1>1, <1>2, <1>3, <1>4, <1>5, <1>6, QuietStep DEF wire

\* leave_room that removes no room.
LEMMA LeaveDoneInv ==
    ASSUME IInv, NEW c \in Connections, LeaveDone(c)
    PROVE  IInv'
BY AfterLeaveInv, ContentedKept DEF LeaveDone

\* The mutex of a removed room goes; no persist of a kept room uses it.
LEMMA RemoveLockInv ==
    ASSUME IInv, NEW c \in Connections, RemoveLock(c)
    PROVE  IInv'
<1>1. PICK s \in Strategies : s = task[c].room
  BY Typed DEF RemoveLock, Local, Moving
<1>2. s \notin KeptRooms
  BY <1>1, Typed DEF RemoveLock, Local
<1>3. /\ locks' = [locks EXCEPT ![s] = NONE] /\ UNCHANGED <<persist, elements>>
      /\ locks \in [Strategies -> Locks \cup {NONE}]
  BY <1>1 DEF RemoveLock, IInv, TypeOK
<1>4. LockInv'
  <2>1. \A r, q \in Strategies :
            locks'[r] = locks'[q] /\ locks'[r] # NONE => r = q
    BY <1>3 DEF IInv, LockInv
  <2>2. ASSUME NEW t \in Tasks, persist'[t].pc # "idle"
        PROVE  /\ persist'[t].strategy \in Strategies
               /\ persist'[t].lock \in Locks
               /\ persist'[t].strategy \in KeptRooms
                  => persist'[t].lock = locks'[persist'[t].strategy]
    BY <1>2, <1>3, <2>2 DEF IInv, LockInv
  <2>3. \A t, u \in Tasks :
            t # u /\ Inside(t)' /\ Inside(u)'
            => persist'[t].lock # persist'[u].lock
    BY <1>3 DEF IInv, LockInv, Inside
  <2> QED BY <2>1, <2>2, <2>3 DEF LockInv
<1>5. CountInv'
  BY <1>3 DEF IInv, CountInv
<1>6. Contented'
  BY <1>3, <1>4, <1>5 DEF IInv, TypeOK, Contented
<1> QED BY <1>6, AfterLeaveInv DEF RemoveLock

\* A persist task starts with the mutex of its strategy.
LEMMA SpawnContent ==
    ASSUME IInv, NEW s \in Strategies, NEW t \in Tasks, NEW l \in Locks,
           NEW adds \in BOOLEAN,
           persist[t].pc = "idle", strategy_lock(s, l),
           locks' = [locks EXCEPT ![s] = l],
           persist' = [persist EXCEPT ![t] =
                          [pc |-> "wait", strategy |-> s, lock |-> l,
                           adds |-> adds, seen |-> 0]],
           elements' = elements
    PROVE  Contented'
<1>1. /\ locks \in [Strategies -> Locks \cup {NONE}]
      /\ persist \in [Tasks -> PersistType]
      /\ elements \in [Strategies -> Nat]
  BY DEF IInv, TypeOK
<1>2. /\ locks' \in [Strategies -> Locks \cup {NONE}]
      /\ locks'[s] = l /\ \A r \in Strategies \ {s} : locks'[r] = locks[r]
  BY <1>1
<1>3. PICK p : p = [pc |-> "wait", strategy |-> s, lock |-> l,
                    adds |-> adds, seen |-> 0]
  OBVIOUS
<1>4. p \in PersistType /\ p.pc = "wait" /\ p.strategy = s /\ p.lock = l
  BY <1>3 DEF PersistType
<1>5. /\ persist' \in [Tasks -> PersistType]
      /\ persist'[t] = p /\ \A u \in Tasks \ {t} : persist'[u] = persist[u]
  BY <1>1, <1>3, <1>4
<1>6. NONE \notin Locks
  BY RoomAssumption
<1>7. \A r \in Strategies \ {s} : locks[r] # l
  BY DEF strategy_lock, Unused, IInv, LockInv
<1>8. \A r, q \in Strategies :
          locks'[r] = locks'[q] /\ locks'[r] # NONE => r = q
  BY <1>2, <1>7 DEF IInv, LockInv
<1>9. ASSUME NEW u \in Tasks, persist'[u].pc # "idle"
      PROVE  /\ persist'[u].strategy \in Strategies
             /\ persist'[u].lock \in Locks
             /\ persist'[u].strategy \in KeptRooms
                => persist'[u].lock = locks'[persist'[u].strategy]
  <2>1. CASE u = t
    BY <1>2, <1>4, <1>5, <2>1
  <2>2. CASE u # t
    <3>1. persist'[u] = persist[u] /\ persist[u].pc # "idle"
      BY <1>5, <1>9, <2>2
    <3>2. PICK r \in Strategies : r = persist[u].strategy
      BY <3>1 DEF IInv, LockInv
    <3>3. persist[u].lock \in Locks /\ (r \in KeptRooms => persist[u].lock = locks[r])
      BY <3>1, <3>2 DEF IInv, LockInv
    <3>4. r = s /\ r \in KeptRooms => persist[u].lock = l
      BY <1>6, <3>3 DEF strategy_lock
    <3> QED BY <1>2, <3>1, <3>2, <3>3, <3>4
  <2> QED BY <2>1, <2>2
<1>10. \A u, v \in Tasks :
           u # v /\ Inside(u)' /\ Inside(v)'
           => persist'[u].lock # persist'[v].lock
  <2>1. ~Inside(t)'
    BY <1>4, <1>5 DEF Inside
  <2>2. \A u \in Tasks \ {t} : Inside(u)' <=> Inside(u)
    BY <1>5 DEF Inside
  <2> QED BY <1>5, <2>1, <2>2 DEF IInv, LockInv
<1>11. CountInv'
  <2>1. \A r \in KeptRooms : elements'[r] <= MaxElements
    BY DEF IInv, CountInv
  <2>2. ASSUME NEW u \in Tasks, persist'[u].strategy \in KeptRooms
        PROVE  /\ persist'[u].pc = "load" /\ persist'[u].adds
                  => elements'[persist'[u].strategy] < MaxElements
               /\ persist'[u].pc = "store"
                  => /\ persist'[u].seen = elements'[persist'[u].strategy]
                     /\ persist'[u].adds => persist'[u].seen < MaxElements
    <3>1. CASE u = t
      BY <1>4, <1>5, <3>1
    <3>2. CASE u # t
      <4>1. persist'[u] = persist[u]
        BY <1>5, <3>2
      <4> QED BY <2>2, <4>1 DEF IInv, CountInv
    <3> QED BY <3>1, <3>2
  <2> QED BY <2>1, <2>2 DEF CountInv
<1>12. LockInv'
  BY <1>8, <1>9, <1>10 DEF LockInv
<1> QED BY <1>1, <1>2, <1>5, <1>11, <1>12 DEF Contented

\* The persist is spawned, or the edit is refused for want of a permit.
LEMMA SpawnInv ==
    ASSUME IInv, NEW c \in Connections, Spawn(c)
    PROVE  IInv'
<1>1. /\ task[c].pc = "spawn" /\ Local(c) /\ Tasked /\ Wired
      /\ UNCHANGED <<rooms, members, slots, lost, sink, evict, elements>>
      /\ UNCHANGED channel
  BY Typed DEF Spawn, wire
<1>2. task[c].room = task[c].current /\ task[c].room \in Strategies
  BY <1>1 DEF Local, InRoom
<1>3. Wired'
  BY <1>1 DEF Wired
<1>4. CASE /\ task' = [task EXCEPT ![c].pc = "answer", ![c].room = NONE]
           /\ UNCHANGED <<locks, persist>>
  <2>1. Put(c) /\ Now(c, "answer", task[c].current, NONE) /\ Same(c)
    BY <1>1, <1>4, PutRoom DEF Pcs
  <2>2. Contented'
    BY <1>1, <1>4, ContentedKept DEF content
  <2> QED BY <1>1, <1>3, <2>1, <2>2, LoopStep DEF InRoom
<1>5. CASE \E t \in Tasks, l \in Locks :
              /\ persist[t].pc = "idle"
              /\ strategy_lock(task[c].room, l)
              /\ locks' = [locks EXCEPT ![task[c].room] = l]
              /\ persist' = [persist EXCEPT ![t] =
                     [pc |-> "wait", strategy |-> task[c].room, lock |-> l,
                      adds |-> task[c].adds, seen |-> 0]]
              /\ Goto(c, "cast")
  <2>1. PICK s \in Strategies : s = task[c].room
    BY <1>2
  <2>2. PICK a \in BOOLEAN : a = task[c].adds
    BY <1>1 DEF Tasked, TaskType
  <2>3. PICK t \in Tasks, l \in Locks :
              /\ persist[t].pc = "idle"
              /\ strategy_lock(s, l)
              /\ locks' = [locks EXCEPT ![s] = l]
              /\ persist' = [persist EXCEPT ![t] =
                     [pc |-> "wait", strategy |-> s, lock |-> l,
                      adds |-> a, seen |-> 0]]
              /\ Goto(c, "cast")
    BY <1>5, <2>1, <2>2
  <2>4. Contented'
    BY <1>1, <2>3, SpawnContent
  <2>5. Put(c) /\ Now(c, "cast", task[c].current, task[c].room) /\ Same(c)
    BY <1>1, <2>3, PutPc DEF Goto, Pcs
  <2> QED BY <1>1, <1>2, <1>3, <2>4, <2>5, LoopStep DEF InRoom
<1> QED BY <1>4, <1>5 DEF Spawn

-----------------------------------------------------------------------------
(* Every slot belongs to an open socket of its own, as long as no room is   *)
(* removed: so an admitted socket finds a slot.                             *)

\* A connection is at one room.
LEMMA AtOne ==
    ASSUME IInv, NEW c \in Connections, NEW s \in Strategies,
           NEW r \in Strategies, At(c, s), At(c, r)
    PROVE  /\ s = r
           /\ task[c].pc \in {"select", "answer", "leave"} \cup InRoom
<1>1. Local(c) /\ NONE \notin Strategies
  BY Typed, RoomAssumption
<1> QED BY <1>1 DEF At, Local, InRoom

Joined == {d \in Connections : \E s \in Strategies : <<s, d>> \in members}

Dropped == {d \in Connections : \E e \in Connections : d \in task[e].owed}

\* As many connections as memberships.
LEMMA JoinedCount ==
    ASSUME IInv
    PROVE  /\ IsFiniteSet(Joined)
           /\ Cardinality(members) <= Cardinality(Joined)
<1>1. IsFiniteSet(Joined)
  BY RoomAssumption, FS_Subset DEF Joined
<1> DEFINE f == [m \in members |-> m[2]]
<1>2. members \subseteq Strategies \X Connections
  BY DEF IInv, TypeOK
<1>3. f \in [members -> Joined]
  BY <1>2 DEF Joined
<1>4. ASSUME NEW m \in members, NEW n \in members, f[m] = f[n]
      PROVE  m = n
  <2>1. PICK s \in Strategies, c \in Connections : m = <<s, c>>
    BY <1>2
  <2>2. PICK r \in Strategies, d \in Connections : n = <<r, d>>
    BY <1>2
  <2>3. c = d
    BY <1>4, <2>1, <2>2
  <2>4. At(c, s) /\ At(c, r)
    BY <2>1, <2>2, <2>3 DEF IInv, MemberInv
  <2> QED BY <2>1, <2>2, <2>3, <2>4, AtOne
<1>5. f \in Injection(members, Joined)
  BY <1>3, <1>4 DEF Injection, IsInjective
<1> QED BY <1>1, <1>5, FS_Injection

\* Who has still to be settled for is at the room of the delivery.
LEMMA DroppedAt ==
    ASSUME IInv, NEW e \in Connections, NEW d \in Connections,
           d \in task[e].owed
    PROVE  /\ task[e].room \in Strategies /\ At(d, task[e].room)
           /\ <<task[e].room, d>> \notin members
           /\ Holding(e)
<1>1. Holding(e) /\ task[e].room \in Strategies
  BY Typed DEF Local, Holding, Moving, InRoom
<1> QED BY <1>1 DEF IInv, OwedInv

\* As many connections as slots still to be settled: none is dropped twice.
LEMMA DroppedCount ==
    ASSUME IInv
    PROVE  IsFiniteSet(Dropped) /\ Cardinality(Owed) <= Cardinality(Dropped)
<1>1. IsFiniteSet(Dropped)
  BY RoomAssumption, FS_Subset DEF Dropped
<1> DEFINE f == [x \in Owed |-> x[2]]
<1>2. \A x \in Owed : /\ x = <<x[1], x[2]>> /\ x[2] \in task[x[1]].owed
                      /\ x[1] \in Connections /\ x[2] \in Connections
  BY DEF Owed
<1>3. f \in [Owed -> Dropped]
  BY <1>2 DEF Dropped
<1>4. ASSUME NEW x \in Owed, NEW y \in Owed, f[x] = f[y]
      PROVE  x = y
  <2>1. PICK e \in Connections, d \in Connections :
            x = <<e, d>> /\ d \in task[e].owed
    BY <1>2
  <2>2. PICK g \in Connections, h \in Connections :
            y = <<g, h>> /\ h \in task[g].owed
    BY <1>2
  <2>3. d = h
    BY <1>4, <2>1, <2>2
  <2>4. /\ task[e].room \in Strategies /\ At(d, task[e].room) /\ Holding(e)
        /\ task[g].room \in Strategies /\ At(d, task[g].room) /\ Holding(g)
    BY <2>1, <2>2, <2>3, DroppedAt
  <2>5. task[e].room = task[g].room
    BY <2>4, AtOne
  <2>6. e = g
    BY <2>4, <2>5 DEF IInv, HoldInv
  <2> QED BY <2>1, <2>2, <2>3, <2>6
<1>5. f \in Injection(Owed, Dropped)
  BY <1>3, <1>4 DEF Injection, IsInjective
<1> QED BY <1>1, <1>5, FS_Injection

\* The sizes of sets with nothing in common add up.
LEMMA Apart ==
    ASSUME NEW S, NEW T, IsFiniteSet(S), IsFiniteSet(T), S \cap T = {}
    PROVE  /\ IsFiniteSet(S \cup T)
           /\ Cardinality(S \cup T) = Cardinality(S) + Cardinality(T)
           /\ Cardinality(S) \in Nat /\ Cardinality(T) \in Nat
BY FS_Union, FS_EmptySet, FS_CardinalityType, SMTT(30)

\* The open sockets are finitely many.
LEMMA SocketsFinite ==
    /\ Sockets \subseteq Connections /\ IsFiniteSet(Sockets)
    /\ Cardinality(Sockets) \in Nat
<1>1. Sockets \subseteq Connections
  BY DEF Sockets
<1> QED BY <1>1, RoomAssumption, FS_Subset, FS_CardinalityType

\* A socket about to reserve finds fewer slots taken than there are sockets.
LEMMA AdmittedFree ==
    ASSUME IInv, EveryRoomKept, NEW c \in Connections, task[c].pc = "reserve"
    PROVE  slots < MaxGlobal
<1> DEFINE AtPcs == {"select", "answer", "leave"} \cup InRoom
<1>1. \A d \in Joined : task[d].pc \in AtPcs /\ d \in Connections
  BY AtOne DEF Joined, IInv, MemberInv
<1>2. \A d \in Dropped : task[d].pc \in AtPcs /\ d \in Connections
  BY AtOne, DroppedAt DEF Dropped
<1>3. Joined \cap Dropped = {}
  <2> SUFFICES ASSUME NEW d \in Connections, NEW s \in Strategies,
                      <<s, d>> \in members,
                      NEW e \in Connections, d \in task[e].owed
               PROVE  FALSE
    BY DEF Joined, Dropped
  <2>1. At(d, s)
    BY DEF IInv, MemberInv
  <2>2. /\ task[e].room \in Strategies /\ At(d, task[e].room)
        /\ <<task[e].room, d>> \notin members
    BY DroppedAt
  <2> QED BY <2>1, <2>2, AtOne
<1>4. \A d \in Reserved : task[d].pc \in Reserving /\ d \in Connections
  BY DEF Reserved, Reserving
<1>5. \A d \in Returning : task[d].pc \in {"leaving", "left"} /\ d \in Connections
  BY Typed DEF Returning, Local
<1>6. AtPcs \cap Reserving = {} /\ AtPcs \cap {"leaving", "left"} = {}
      /\ Reserving \cap {"leaving", "left"} = {}
      /\ "closed" \notin AtPcs \cup Reserving /\ "reserve" \notin AtPcs \cup Reserving
  BY DEF InRoom, Reserving
<1> DEFINE A == Joined \cup Dropped
           B == Reserved \cup Returning
<1>7. /\ IsFiniteSet(A) /\ IsFiniteSet(Joined) /\ IsFiniteSet(Dropped)
      /\ Cardinality(A) = Cardinality(Joined) + Cardinality(Dropped)
      /\ Cardinality(Joined) \in Nat /\ Cardinality(Dropped) \in Nat
  BY <1>3, JoinedCount, DroppedCount, Apart
<1>8. /\ IsFiniteSet(B)
      /\ Cardinality(B) = Cardinality(Reserved) + Cardinality(Returning)
      /\ Cardinality(Reserved) \in Nat /\ Cardinality(Returning) \in Nat
  <2>1. Reserved \cap Returning = {}
    BY <1>4, <1>5, <1>6
  <2>2. IsFiniteSet(Reserved) /\ IsFiniteSet(Returning)
    BY SlotsFinite DEF IInv, TypeOK
  <2> QED BY <2>1, <2>2, Apart
<1>9. A \cap B = {}
  <2> HIDE DEF AtPcs
  <2> QED BY <1>1, <1>2, <1>4, <1>5, <1>6
<1>10. A \cup B \subseteq Sockets \ {c}
  <2> HIDE DEF AtPcs
  <2>1. \A d \in A \cup B : task[d].pc # "closed" /\ task[d].pc # "reserve"
    BY <1>1, <1>2, <1>4, <1>5, <1>6
  <2>2. A \cup B \subseteq Connections
    BY <1>1, <1>2, <1>4, <1>5
  <2> QED BY <2>1, <2>2 DEF Sockets
<1> HIDE DEF A, B
<1>11. /\ Cardinality(A \cup B) = Cardinality(A) + Cardinality(B)
       /\ Cardinality(A) \in Nat /\ Cardinality(B) \in Nat
  BY <1>7, <1>8, <1>9, Apart
<1>12. /\ IsFiniteSet(Sockets \ {c})
       /\ Cardinality(Sockets \ {c}) = Cardinality(Sockets) - 1
  <2>1. c \in Sockets
    BY DEF Sockets
  <2> QED BY <2>1, SocketsFinite, FS_RemoveElement
<1>13. Cardinality(A \cup B) <= Cardinality(Sockets \ {c})
  BY <1>10, <1>12, FS_Subset
<1>14. /\ Cardinality(members) <= Cardinality(Joined)
       /\ Cardinality(Owed) <= Cardinality(Dropped)
       /\ Cardinality(members) \in Nat /\ Cardinality(Owed) \in Nat
  BY JoinedCount, DroppedCount, SlotsFinite DEF IInv, TypeOK
<1>15. /\ slots = Cardinality(members) + Cardinality(Reserved)
                    + Cardinality(Returning) + Cardinality(Owed) + lost
       /\ lost = 0 /\ Cardinality(Sockets) <= MaxGlobal
  BY DEF IInv, SlotsConserved, DropInv, SocketInv
<1> QED BY <1>7, <1>8, <1>11, <1>12, <1>13, <1>14, <1>15, SocketsFinite,
           RoomAssumption

-----------------------------------------------------------------------------
(* The steps that take or return a slot. *)

\* The types after a step that changes the task, the rooms and the count.
LEMMA StepTypes ==
    ASSUME IInv, NEW c \in Connections, Put(c), UNCHANGED <<members, lost, wire>>,
           UNCHANGED content, rooms' \subseteq Strategies
    PROVE  TypeRest' /\ LockInv' /\ CountInv'
<1>1. Contented'
  BY ContentedKept
<1> QED BY <1>1 DEF IInv, TypeOK, TypeRest, Put, Tasked, Contented, wire

\* A task that is in no room, and does not believe itself in one.
LEMMA Outside ==
    ASSUME IInv, NEW c \in Connections, task[c].pc \in Moving \ {"leave"}
    PROVE  /\ task[c].current = NONE /\ c \notin Steady
           /\ \A s \in Strategies : ~At(c, s)
<1>1. task[c].current = NONE
  BY Typed DEF Local, Moving, InRoom
<1> QED BY <1>1, Typed, RoomAssumption DEF At

\* A delivery returns the slots of whom it dropped.
LEMMA SettleInv ==
    ASSUME IInv, NEW c \in Connections, Settle(c)
    PROVE  IInv'
<1>1. /\ Put(c) /\ Now(c, task[c].pc, task[c].current, task[c].room)
      /\ Rest(c, task[c].todo, {}, task[c].own, task[c].empty)
  BY PutOwed, Typed DEF Settle
<1>2. /\ UNCHANGED <<rooms, members, lost, wire>> /\ UNCHANGED content
      /\ Holding(c)
  BY Typed DEF Settle, Local
<1>3. Local(c)'
  BY <1>1, <1>2, Typed DEF Now, Rest, Local, Holding
<1>4. SlotsConserved'
  <2>1. Reserved' = Reserved /\ Returning' = Returning
    BY <1>1, ReservedStep, ReturningStep, Typed DEF Put, Now, Rest
  <2>2. Cardinality(Owed') = Cardinality(Owed) - Cardinality(task[c].owed)
    BY <1>1, OwedStep, Typed DEF Rest
  <2>3. /\ Cardinality(Owed) \in Nat /\ Cardinality(task[c].owed) \in Nat
        /\ Cardinality(members) \in Nat /\ Cardinality(Reserved) \in Nat
        /\ Cardinality(Returning) \in Nat /\ lost \in Nat
    <3>1. task[c].owed \subseteq Connections
      BY Typed
    <3> QED BY <3>1, SlotsFinite, RoomAssumption, FS_Subset, FS_CardinalityType
            DEF IInv, TypeOK
  <2> QED BY <1>2, <2>1, <2>2, <2>3 DEF IInv, SlotsConserved, Settle
<1>5. SocketInv'
  BY <1>1, SocketsKept DEF IInv, Now, Put
<1>6. TypeRest' /\ LockInv' /\ CountInv'
  BY <1>1, <1>2, StepTypes DEF IInv, TypeOK
<1>7. /\ task'[c].room \in rooms'
      /\ \A d \in Connections \ {c} : Holding(d) => task[d].room # task'[c].room
  BY <1>1, <1>2 DEF IInv, HoldInv, Now
<1>8. \A s \in Strategies : task'[c].pc = "joining" /\ task'[c].room = s
                            => Cardinality(In(s)) < MaxRoom
  BY <1>1 DEF IInv, CapInv, Now
<1>9. \A s \in rooms : At(c, s) => At(c, s)'
  BY <1>1 DEF At, Now
<1>10. /\ task'[c].owed = {} /\ task'[c].current = task[c].current
       /\ task'[c].pc # "overlimit"
       /\ task'[c].empty => task'[c].room \notin KeptRooms
  BY <1>1, <1>2, Typed DEF Now, Rest, Holding
<1> QED BY <1>1, <1>2, <1>3, <1>4, <1>5, <1>6, <1>7, <1>8, <1>9, <1>10, StepInv
        DEF wire

\* The optimistic reserve.
LEMMA ReserveInv ==
    ASSUME IInv, NEW c \in Connections, Reserve(c)
    PROVE  IInv'
<1>1. /\ task[c].pc = "reserve" /\ Tasked /\ Local(c) /\ Wired
      /\ UNCHANGED <<rooms, members, lost, wire>> /\ UNCHANGED content
  BY Typed DEF Reserve
<1>2. PICK s \in Strategies : s = task[c].room
  BY <1>1 DEF Local, Moving
<1>3. /\ task[c].current = NONE /\ c \notin Steady
      /\ \A r \in rooms : ~At(c, r)
  BY <1>1, Outside, Typed DEF Moving, TypeOK
<1>4. CASE UserOf[c] = NONE
  <2>1. /\ task' = [task EXCEPT ![c].pc = "answer", ![c].room = NONE,
                                ![c].current = s]
        /\ slots' = slots
    BY <1>2, <1>4 DEF Reserve
  <2>2. Put(c) /\ Now(c, "answer", s, NONE) /\ Same(c)
    BY <1>1, <2>1, PutJoined DEF Pcs
  <2>3. Local(c)' /\ Stays(c)
    BY <1>1, <2>2 DEF Now, Same, Rest, Local, Stays, Holding, Moving, InRoom,
                      Reserving
  <2>4. Wired' /\ Contented'
    BY <1>1, ContentedKept DEF Wired, wire
  <2> QED BY <1>1, <1>3, <1>4, <2>1, <2>2, <2>3, <2>4, QuietStep DEF wire
<1>5. CASE UserOf[c] # NONE
  <2>1. PICK pc \in {"overlimit", "enter"} :
            pc = IF slots >= MaxGlobal THEN "overlimit" ELSE "enter"
    OBVIOUS
  <2>2. task' = [task EXCEPT ![c].pc = pc] /\ slots' = slots + 1
    BY <1>5, <2>1 DEF Reserve, Goto
  <2>3. Put(c) /\ Now(c, pc, NONE, s) /\ Same(c)
    BY <1>1, <1>2, <1>3, <2>2, PutPc DEF Pcs
  <2>4. Local(c)'
    BY <1>1, <2>3 DEF Now, Same, Rest, Local, Holding, Moving, InRoom
  <2>5. SlotsConserved'
    <3>1. Returning' = Returning /\ Owed' = Owed
      BY <2>3, ReturningStep, OwedStep, Typed DEF Same, Rest
    <3>2. Cardinality(Reserved') = Cardinality(Reserved) + 1
      BY <1>1, <2>3, ReservedStep, Typed DEF Put, Now, Reserving
    <3>3. /\ Cardinality(Owed) \in Nat /\ Cardinality(Returning) \in Nat
          /\ Cardinality(members) \in Nat /\ Cardinality(Reserved) \in Nat
          /\ lost \in Nat
      BY SlotsFinite DEF IInv, TypeOK
    <3> QED BY <1>1, <2>2, <3>1, <3>2, <3>3 DEF IInv, SlotsConserved
  <2>6. SocketInv'
    BY <1>1, <2>3, SocketsKept DEF IInv, Put
  <2>7. TypeRest' /\ LockInv' /\ CountInv'
    BY <1>1, <2>3, StepTypes DEF IInv, TypeOK
  <2>8. EveryRoomKept => pc # "overlimit"
    <3> HAVE EveryRoomKept
    <3>1. slots < MaxGlobal
      BY <1>1, AdmittedFree
    <3> QED BY <2>1, <3>1, RoomAssumption DEF IInv, TypeOK
  <2>9. /\ task'[c].owed = {} /\ ~Holding(c)' /\ task'[c].pc # "joining"
        /\ task'[c].current = NONE /\ ~task'[c].empty
        /\ EveryRoomKept => task'[c].pc # "overlimit"
    BY <1>1, <2>3, <2>8 DEF Now, Same, Rest, Holding, Local
  <2> QED BY <1>1, <1>3, <2>3, <2>4, <2>5, <2>6, <2>7, <2>9, StepInv DEF wire
<1> QED BY <1>4, <1>5

\* The reservation is rolled back.
LEMMA RefundInv ==
    ASSUME IInv, NEW c \in Connections, Refund(c)
    PROVE  IInv'
<1>1. /\ task[c].pc \in {"overlimit", "refund"} /\ Tasked /\ Local(c)
      /\ UNCHANGED <<rooms, members, lost, wire>> /\ UNCHANGED content
      /\ task' = [task EXCEPT ![c].pc = "answer", ![c].room = NONE]
  BY Typed DEF Refund
<1>2. /\ task[c].current = NONE /\ c \notin Steady
      /\ \A r \in rooms : ~At(c, r)
  BY <1>1, Outside, Typed DEF Moving, TypeOK
<1>3. Put(c) /\ Now(c, "answer", NONE, NONE) /\ Same(c)
  BY <1>1, <1>2, PutRoom DEF Pcs
<1>4. Local(c)'
  BY <1>1, <1>3 DEF Now, Same, Rest, Local, Holding, Moving, InRoom
<1>5. SlotsConserved'
  <2>1. Returning' = Returning /\ Owed' = Owed
    BY <1>3, ReturningStep, OwedStep, Typed DEF Same, Rest
  <2>2. Cardinality(Reserved') = Cardinality(Reserved) - 1
    BY <1>1, <1>3, ReservedStep, Typed DEF Put, Now, Reserving
  <2>3. /\ Cardinality(Owed) \in Nat /\ Cardinality(Returning) \in Nat
        /\ Cardinality(members) \in Nat /\ Cardinality(Reserved) \in Nat
        /\ lost \in Nat
    BY SlotsFinite DEF IInv, TypeOK
  <2> QED BY <1>1, <2>1, <2>2, <2>3 DEF IInv, SlotsConserved, Refund
<1>6. SocketInv'
  BY <1>1, <1>3, SocketsKept DEF IInv, Put
<1>7. TypeRest' /\ LockInv' /\ CountInv'
  BY <1>1, <1>3, StepTypes DEF IInv, TypeOK
<1>8. /\ task'[c].owed = {} /\ ~Holding(c)' /\ task'[c].pc # "joining"
      /\ task'[c].current = NONE /\ ~task'[c].empty
      /\ task'[c].pc # "overlimit"
  BY <1>1, <1>3 DEF Now, Same, Rest, Holding, Local
<1> QED BY <1>1, <1>2, <1>3, <1>4, <1>5, <1>6, <1>7, <1>8, StepInv DEF wire

\* leave_room returns the slot of a connection that was still there.
LEMMA ReturnSlotInv ==
    ASSUME IInv, NEW c \in Connections, ReturnSlot(c)
    PROVE  IInv'
<1>1. /\ task[c].pc = "left" /\ Tasked /\ Local(c)
      /\ UNCHANGED <<rooms, members, lost, wire>> /\ UNCHANGED content
      /\ task' = [task EXCEPT ![c].pc = "freed", ![c].own = FALSE]
  BY Typed DEF ReturnSlot
<1>2. /\ task[c].current = NONE /\ c \notin Steady
      /\ \A r \in rooms : ~At(c, r)
  BY <1>1, Outside, Typed DEF Moving, TypeOK
<1>3. /\ Put(c) /\ Now(c, "freed", NONE, task[c].room)
      /\ Rest(c, task[c].todo, task[c].owed, FALSE, task[c].empty)
  BY <1>1, <1>2, PutReturned DEF Pcs
<1>4. Local(c)'
  BY <1>1, <1>3 DEF Now, Rest, Local, Holding, Moving, InRoom
<1>5. SlotsConserved'
  <2>1. Reserved' = Reserved /\ Owed' = Owed
    BY <1>1, <1>3, ReservedStep, OwedStep, Typed DEF Put, Now, Rest, Reserving
  <2>2. Cardinality(Returning') = IF task[c].own THEN Cardinality(Returning) - 1
                                  ELSE Cardinality(Returning)
    BY <1>1, <1>3, ReturningStep, Typed DEF Rest
  <2>3. /\ Cardinality(Owed) \in Nat /\ Cardinality(Returning) \in Nat
        /\ Cardinality(members) \in Nat /\ Cardinality(Reserved) \in Nat
        /\ lost \in Nat
    BY SlotsFinite DEF IInv, TypeOK
  <2> QED BY <1>1, <2>1, <2>2, <2>3 DEF IInv, SlotsConserved, ReturnSlot
<1>6. SocketInv'
  BY <1>1, <1>3, SocketsKept DEF IInv, Put
<1>7. TypeRest' /\ LockInv' /\ CountInv'
  BY <1>1, <1>3, StepTypes DEF IInv, TypeOK
<1>8. /\ task'[c].owed = {} /\ ~Holding(c)' /\ task'[c].pc # "joining"
      /\ task'[c].current = NONE /\ task'[c].pc # "overlimit"
      /\ task'[c].empty => task'[c].room \notin KeptRooms
  BY <1>1, <1>3, Typed DEF Now, Rest, Holding, Local
<1> QED BY <1>1, <1>2, <1>3, <1>4, <1>5, <1>6, <1>7, <1>8, StepInv DEF wire

\* The room's guard is taken with a place left, or the join is refused.
LEMMA EnterInv ==
    ASSUME IInv, NEW c \in Connections, Enter(c)
    PROVE  IInv'
<1>1. /\ task[c].pc = "enter" /\ Tasked /\ Local(c)
      /\ UNCHANGED <<members, lost, slots, wire>> /\ UNCHANGED content
  BY Typed DEF Enter
<1>2. PICK s \in Strategies : s = task[c].room
  BY <1>1 DEF Local, Moving
<1>3. /\ task[c].current = NONE /\ c \notin Steady
      /\ \A r \in rooms : ~At(c, r)
  BY <1>1, Outside, Typed DEF Moving, TypeOK
<1>4. rooms' = rooms \cup {s} /\ RoomFree(s)
  BY <1>2 DEF Enter
<1>5. PICK pc \in {"refund", "joining"}, todo \in Nat :
          /\ Put(c) /\ Now(c, pc, NONE, s)
          /\ Rest(c, todo, task[c].owed, task[c].own, task[c].empty)
          /\ pc = "refund" => todo = task[c].todo
          /\ pc = "joining" => Cardinality(In(s)) < MaxRoom
  <2>1. CASE Cardinality(In(s)) >= MaxRoom
    <3>1. task' = [task EXCEPT ![c].pc = "refund"]
      BY <1>2, <2>1 DEF Enter, Goto
    <3>2. Put(c) /\ Now(c, "refund", NONE, s) /\ Same(c)
      BY <1>1, <1>2, <1>3, <3>1, PutPc DEF Pcs
    <3> QED BY <3>2, Typed DEF Same
  <2>2. CASE ~(Cardinality(In(s)) >= MaxRoom)
    <3>1. PICK n \in Nat : n = IF Alone(c, s) THEN 1 ELSE 0
      OBVIOUS
    <3>2. task' = [task EXCEPT ![c].pc = "joining", ![c].todo = n]
      BY <1>2, <2>2, <3>1 DEF Enter
    <3>3. /\ Put(c) /\ Now(c, "joining", NONE, s)
          /\ Rest(c, n, task[c].owed, task[c].own, task[c].empty)
      BY <1>1, <1>2, <1>3, <3>2, PutTodo DEF Pcs
    <3>4. Cardinality(In(s)) < MaxRoom
      BY <2>2, InFinite, RoomAssumption, Typed
    <3> QED BY <3>3, <3>4
  <2> QED BY <2>1, <2>2
<1>6. Local(c)'
  BY <1>1, <1>5 DEF Now, Rest, Local, Holding, Moving, InRoom
<1>7. SlotsConserved'
  BY <1>1, <1>5, QuietSlots DEF IInv, Now, Rest, Reserving
<1>8. SocketInv'
  BY <1>1, <1>5, SocketsKept DEF IInv, Put
<1>9. TypeRest' /\ LockInv' /\ CountInv'
  BY <1>1, <1>4, <1>5, StepTypes DEF IInv, TypeOK
<1>10. /\ task'[c].owed = {} /\ task'[c].room = s
       /\ task'[c].current = NONE /\ task'[c].pc # "overlimit"
       /\ ~task'[c].empty
       /\ task'[c].pc = "joining" => Cardinality(In(s)) < MaxRoom
  BY <1>1, <1>5 DEF Now, Rest, Holding, Local
<1>11. \A d \in Connections \ {c} : Holding(d) => task[d].room # s
  BY <1>4 DEF RoomFree
<1> QED BY <1>1, <1>3, <1>4, <1>5, <1>6, <1>7, <1>8, <1>9, <1>10, <1>11, StepInv
        DEF wire

-----------------------------------------------------------------------------
(* The steps that change who is in a room. *)

\* The place seen under the guard is still there.
LEMMA AddConnectionInv ==
    ASSUME IInv, NEW c \in Connections, AddConnection(c)
    PROVE  IInv'
<1>1. /\ task[c].pc = "joining" /\ task[c].owed = {} /\ task[c].todo = 0
      /\ Tasked /\ Local(c) /\ TypeOK /\ Holding(c)
      /\ UNCHANGED <<rooms, slots, lost, wire>> /\ UNCHANGED content
  BY Typed DEF AddConnection, Delivered, Holding
<1>2. PICK s \in Strategies : s = task[c].room
  BY <1>1 DEF Local, Moving
<1>3. /\ task[c].current = NONE /\ c \notin Steady
      /\ \A r \in Strategies : ~At(c, r)
  BY <1>1, Outside DEF Moving
<1>4. /\ task' = [task EXCEPT ![c].pc = "answer", ![c].room = NONE,
                              ![c].current = s]
      /\ members' = members \cup {<<s, c>>}
  BY <1>2 DEF AddConnection
<1>5. Put(c) /\ Now(c, "answer", s, NONE) /\ Same(c)
  BY <1>1, <1>4, PutJoined DEF Pcs
<1>6. <<s, c>> \notin members /\ s \in rooms
  BY <1>1, <1>2, <1>3 DEF IInv, MemberInv, HoldInv
<1>7. TypeRest' /\ LockInv' /\ CountInv'
  <2>1. Contented'
    BY <1>1, ContentedKept
  <2> QED BY <1>1, <1>4, <1>5, <2>1 DEF TypeOK, TypeRest, Put, Tasked, Contented,
                                        wire
<1>8. SlotsConserved'
  <2>1. Returning' = Returning /\ Owed' = Owed
    BY <1>5, ReturningStep, OwedStep, Typed DEF Same, Rest
  <2>2. Cardinality(Reserved') = Cardinality(Reserved) - 1
    BY <1>1, <1>5, ReservedStep DEF Put, Now, Reserving
  <2>3. /\ Cardinality(Owed) \in Nat /\ Cardinality(Returning) \in Nat
        /\ Cardinality(members) \in Nat /\ Cardinality(Reserved) \in Nat
        /\ lost \in Nat /\ IsFiniteSet(members)
    BY SlotsFinite DEF IInv, TypeOK
  <2>4. Cardinality(members') = Cardinality(members) + 1
    BY <1>4, <1>6, <2>3, FS_AddElement
  <2> QED BY <1>1, <2>1, <2>2, <2>3, <2>4 DEF IInv, SlotsConserved
<1>9. Local(c)' /\ Others(c)
  BY <1>1, <1>5 DEF Now, Same, Rest, Local, Holding, Moving, InRoom, Put
<1>10. SocketInv'
  BY <1>1, <1>5, <1>9, SocketsKept DEF IInv
<1>11. TypeOK'
  BY <1>7, <1>8, SlotsNat
<1>12. TaskInv'
  BY <1>9, TaskKept DEF IInv
<1>13. MemberInv'
  <2>1. \A r \in Strategies, d \in Connections :
            <<r, d>> \in members' =>
                r \in rooms' /\ (d # c => <<r, d>> \in members)
    BY <1>1, <1>4, <1>6 DEF IInv, MemberInv
  <2>2. \A r \in Strategies : <<r, c>> \in members' => At(c, r)'
    BY <1>3, <1>4, <1>5 DEF IInv, MemberInv, At, Now
  <2> QED BY <1>9, <2>1, <2>2, MemberKept DEF IInv
<1>14. HoldInv'
  <2>1. ~Holding(c)' /\ \A d \in Connections \ {c} : Holding(d) => task[d].room \in rooms'
    BY <1>1, <1>5 DEF IInv, HoldInv, Now, Holding
  <2> QED BY <1>9, <2>1, HoldKept DEF IInv
<1>15. OwedInv'
  <2>1. ASSUME NEW d \in Connections \ {c}, NEW e \in Connections,
               e \in task[d].owed
        PROVE  <<task[d].room, e>> \notin members'
    BY <1>3, <1>4, <2>1, DroppedAt
  <2>2. task'[c].owed = {}
    BY <1>1, <1>5 DEF Same, Rest
  <2> QED BY <1>1, <1>3, <1>9, <2>1, <2>2, OwedKept DEF IInv
<1>16. CapInv'
  <2>1. In(s)' = In(s) \cup {c} /\ \A r \in Strategies \ {s} : In(r)' = In(r)
    BY <1>4 DEF In
  <2>2. Cardinality(In(s)) < MaxRoom
    BY <1>1, <1>2 DEF IInv, CapInv
  <2>3. Cardinality(In(s)') <= MaxRoom
    <3>1. Cardinality(In(s)') \in {Cardinality(In(s)), Cardinality(In(s)) + 1}
      BY <1>1, <2>1, InFinite, FS_AddElement, ZenonT(60)
    <3> QED BY <1>1, <2>2, <3>1, InFinite, RoomAssumption
  <2>4. \A r \in Strategies : Cardinality(In(r)') <= MaxRoom
    BY <2>1, <2>3 DEF IInv, CapInv
  <2>5. ASSUME NEW d \in Connections, NEW r \in Strategies,
               task'[d].pc = "joining", task'[d].room = r
        PROVE  Cardinality(In(r)') < MaxRoom
    <3>1. d # c /\ task'[d] = task[d]
      BY <1>5, <1>9, <2>5 DEF Now, Others
    <3>2. r # s
      BY <1>1, <1>2, <2>5, <3>1 DEF IInv, HoldInv, Holding
    <3> QED BY <2>1, <2>5, <3>1, <3>2 DEF IInv, CapInv
  <2> QED BY <2>4, <2>5 DEF CapInv
<1>17. KeepInv'
  <2>1. \A d \in Steady : <<Kept[d], d>> \in members' /\ sink'[d] = "reads"
    BY <1>1, <1>4 DEF IInv, KeepInv, wire
  <2>2. ~task'[c].empty
    BY <1>1, <1>5 DEF Same, Rest, Local
  <2> QED BY <1>3, <1>9, <2>1, <2>2, KeepKept DEF IInv
<1>18. DropInv'
  <2>1. /\ \A d \in Connections : evict[d] => evict'[d]
        /\ members \subseteq members'
        /\ task'[c].current = s /\ <<s, c>> \in members'
        /\ EveryRoomKept => lost' = 0
        /\ task'[c].pc # "overlimit"
    BY <1>1, <1>4, <1>5 DEF Now, wire, IInv, DropInv
  <2> QED BY <1>9, <2>1, DropKept DEF IInv
<1> QED BY <1>7, <1>8, <1>10, <1>11, <1>12, <1>13, <1>14, <1>15, <1>16, <1>17,
           <1>18 DEF IInv

\* leave_room takes the connection out unless a broadcast did.
LEMMA LeaveInv ==
    ASSUME IInv, NEW c \in Connections, Leave(c)
    PROVE  IInv'
<1>1. /\ task[c].pc = "leave" /\ Tasked /\ Local(c) /\ TypeOK
      /\ UNCHANGED <<rooms, slots, lost, wire>> /\ UNCHANGED content
  BY Typed DEF Leave
<1>2. PICK s \in Strategies : s = task[c].room
  BY <1>1 DEF Local, Moving
<1>3. PICK mine \in BOOLEAN : mine = (<<s, c>> \in members)
  <2>1. CASE <<s, c>> \in members
    <3>1. (<<s, c>> \in members) = TRUE
      BY <2>1
    <3> QED BY <3>1, Zenon
  <2>2. CASE <<s, c>> \notin members
    <3>1. (<<s, c>> \in members) = FALSE
      BY <2>2
    <3> QED BY <3>1, Zenon
  <2> QED BY <2>1, <2>2
<1>4. PICK n \in Nat : n = IF mine /\ Alone(c, s) THEN 1 ELSE 0
  OBVIOUS
<1>5. /\ task' = [task EXCEPT ![c].pc = "leaving", ![c].own = mine,
                              ![c].todo = n]
      /\ members' = members \ {<<s, c>>}
      /\ s \in rooms /\ RoomFree(s)
  BY <1>2, <1>3, <1>4 DEF Leave
<1>6. /\ task[c].current = NONE /\ c \notin Steady
      /\ task[c].owed = {} /\ ~task[c].own /\ task[c].empty = FALSE
      /\ \A r \in Strategies : At(c, r) => r = s
  BY <1>1, <1>2, Typed, RoomAssumption DEF Local, Holding, InRoom, At
<1>7. /\ Put(c) /\ Now(c, "leaving", NONE, s)
      /\ Rest(c, n, {}, mine, FALSE)
  BY <1>1, <1>2, <1>5, <1>6, PutOwn, Typed, ZenonT(60) DEF Pcs
<1>8. TypeRest' /\ LockInv' /\ CountInv'
  <2>1. Contented'
    BY <1>1, ContentedKept
  <2> QED BY <1>1, <1>5, <1>7, <2>1 DEF TypeOK, TypeRest, Put, Tasked, Contented,
                                        wire
<1>9. SlotsConserved'
  <2>1. Reserved' = Reserved /\ Owed' = Owed
    BY <1>1, <1>6, <1>7, ReservedStep, OwedStep DEF Put, Now, Rest, Reserving
  <2>2. Cardinality(Returning') = IF mine THEN Cardinality(Returning) + 1
                                  ELSE Cardinality(Returning)
    BY <1>1, <1>6, <1>7, ReturningStep, Typed DEF Rest
  <2>3. /\ Cardinality(Owed) \in Nat /\ Cardinality(Returning) \in Nat
        /\ Cardinality(members) \in Nat /\ Cardinality(Reserved) \in Nat
        /\ lost \in Nat /\ IsFiniteSet(members)
    BY SlotsFinite DEF IInv, TypeOK
  <2>4. Cardinality(members') = IF mine THEN Cardinality(members) - 1
                                ELSE Cardinality(members)
    BY <1>3, <1>5, <2>3, FS_RemoveElement
  <2> QED BY <1>1, <2>1, <2>2, <2>3, <2>4 DEF IInv, SlotsConserved
<1>10. Local(c)' /\ Others(c)
  BY <1>1, <1>7 DEF Now, Rest, Local, Holding, Moving, InRoom, Put
<1>11. SocketInv'
  BY <1>1, <1>10, SocketsKept DEF IInv
<1>12. TypeOK'
  BY <1>8, <1>9, SlotsNat
<1>13. TaskInv'
  BY <1>10, TaskKept DEF IInv
<1>14. MemberInv'
  <2>1. \A r \in Strategies, d \in Connections :
            <<r, d>> \in members' =>
                r \in rooms' /\ (d # c => <<r, d>> \in members)
    BY <1>1, <1>5 DEF IInv, MemberInv
  <2>2. \A r \in Strategies : <<r, c>> \notin members'
    BY <1>5, <1>6 DEF IInv, MemberInv
  <2> QED BY <1>10, <2>1, <2>2, MemberKept DEF IInv
<1>15. HoldInv'
  <2>1. /\ task'[c].room \in rooms'
        /\ \A d \in Connections \ {c} :
              Holding(d) => task[d].room \in rooms' /\ task[d].room # task'[c].room
    BY <1>1, <1>5, <1>7 DEF IInv, HoldInv, Now, RoomFree
  <2> QED BY <1>10, <2>1, HoldKept DEF IInv
<1>16. OwedInv'
  <2>1. ASSUME NEW d \in Connections \ {c}, NEW e \in Connections,
               e \in task[d].owed
        PROVE  <<task[d].room, e>> \notin members'
    BY <1>5, <2>1, DroppedAt
  <2>2. \A d \in Connections \ {c}, r \in Strategies :
            ~(Holding(d) /\ task[d].room = r /\ At(c, r))
    BY <1>5, <1>6 DEF RoomFree
  <2>3. task'[c].owed = {}
    BY <1>7 DEF Rest
  <2> QED BY <1>1, <1>10, <2>1, <2>2, <2>3, OwedKept DEF IInv
<1>17. CapInv'
  BY <1>1, <1>5, <1>7, <1>10, CapKept DEF IInv, Now
<1>18. KeepInv'
  <2>1. \A d \in Steady : <<Kept[d], d>> \in members' /\ sink'[d] = "reads"
    BY <1>1, <1>5, <1>6 DEF IInv, KeepInv, wire
  <2>2. ~task'[c].empty
    BY <1>7 DEF Rest
  <2> QED BY <1>6, <1>10, <2>1, <2>2, KeepKept DEF IInv
<1>19. DropInv'
  <2>1. /\ \A d \in Connections : evict[d] => evict'[d]
        /\ task'[c].current = NONE /\ task'[c].pc # "overlimit"
        /\ EveryRoomKept => lost' = 0
        /\ NONE \notin KeptRooms
        /\ \A d \in Connections \ {c}, r \in KeptRooms :
              <<r, d>> \in members => <<r, d>> \in members'
    BY <1>1, <1>5, <1>7, RoomAssumption DEF Now, wire, IInv, DropInv, KeptRooms
  <2> QED BY <1>10, <2>1, DropKept DEF IInv
<1> QED BY <1>8, <1>9, <1>11, <1>12, <1>13, <1>14, <1>15, <1>16, <1>17, <1>18,
           <1>19 DEF IInv

\* Only a room that nobody stays in is removed.
LEMMA RemoveRoomInv ==
    ASSUME IInv, NEW c \in Connections, RemoveRoom(c)
    PROVE  IInv'
<1>1. /\ task[c].pc = "freed" /\ task[c].empty /\ Tasked /\ Local(c) /\ TypeOK
      /\ UNCHANGED <<slots, wire>> /\ UNCHANGED content
  BY Typed DEF RemoveRoom
<1>2. PICK s \in Strategies : s = task[c].room
  BY <1>1 DEF Local, Moving
<1>3. /\ task' = [task EXCEPT ![c].pc = "unroomed"]
      /\ members' = members \ ({s} \X In(s))
      /\ lost' = lost + Cardinality(In(s))
      /\ rooms' = rooms \ {s} /\ RoomFree(s)
  BY <1>2 DEF RemoveRoom, Goto
<1>4. /\ task[c].current = NONE /\ c \notin Steady
      /\ \A r \in Strategies : ~At(c, r)
  BY <1>1, Outside DEF Moving
<1>5. Put(c) /\ Now(c, "unroomed", NONE, s) /\ Same(c)
  BY <1>1, <1>2, <1>3, <1>4, PutPc DEF Pcs
<1>6. s \notin KeptRooms
  BY <1>1, <1>2, Typed
<1>7. \A r \in Strategies, d \in Connections :
          <<r, d>> \in members' <=> <<r, d>> \in members /\ r # s
  BY <1>3 DEF In
<1>8. IsFiniteSet(In(s)) /\ Cardinality(In(s)) \in Nat
  BY <1>1, InFinite
<1>9. TypeRest' /\ LockInv' /\ CountInv'
  <2>1. Contented'
    BY <1>1, ContentedKept
  <2> QED BY <1>1, <1>3, <1>5, <1>8, <2>1
          DEF TypeOK, TypeRest, Put, Tasked, Contented, wire
<1>10. SlotsConserved'
  <2>1. Reserved' = Reserved /\ Owed' = Owed /\ Returning' = Returning
    BY <1>1, <1>5, ReservedStep, OwedStep, ReturningStep
       DEF Put, Now, Same, Rest, Reserving
  <2>2. Cardinality(members') = Cardinality(members) - Cardinality(In(s))
    BY <1>1, <1>3, MembersWithout
  <2>3. /\ Cardinality(Owed) \in Nat /\ Cardinality(Returning) \in Nat
        /\ Cardinality(members) \in Nat /\ Cardinality(Reserved) \in Nat
        /\ lost \in Nat
    BY SlotsFinite DEF IInv, TypeOK
  <2> QED BY <1>1, <1>3, <1>8, <2>1, <2>2, <2>3 DEF IInv, SlotsConserved
<1>11. Local(c)' /\ Others(c)
  BY <1>1, <1>5 DEF Now, Same, Rest, Local, Holding, Moving, InRoom, Put
<1>12. SocketInv'
  BY <1>1, <1>11, SocketsKept DEF IInv
<1>13. TypeOK'
  BY <1>9, <1>10, SlotsNat
<1>14. TaskInv'
  BY <1>11, TaskKept DEF IInv
<1>15. MemberInv'
  <2>1. \A r \in Strategies, d \in Connections :
            <<r, d>> \in members' =>
                r \in rooms' /\ (d # c => <<r, d>> \in members)
    BY <1>3, <1>7 DEF IInv, MemberInv
  <2>2. \A r \in Strategies : <<r, c>> \notin members'
    BY <1>4, <1>7 DEF IInv, MemberInv
  <2> QED BY <1>11, <2>1, <2>2, MemberKept DEF IInv
<1>16. HoldInv'
  <2>1. /\ ~Holding(c)'
        /\ \A d \in Connections \ {c} : Holding(d) => task[d].room \in rooms'
    BY <1>3, <1>5 DEF IInv, HoldInv, Now, RoomFree, Holding
  <2> QED BY <1>11, <2>1, HoldKept DEF IInv
<1>17. OwedInv'
  <2>1. ASSUME NEW d \in Connections \ {c}, NEW e \in Connections,
               e \in task[d].owed
        PROVE  <<task[d].room, e>> \notin members'
    BY <1>3, <2>1, DroppedAt
  <2>2. task'[c].owed = {}
    BY <1>1, <1>5 DEF Same, Rest, Local, Holding
  <2> QED BY <1>1, <1>4, <1>11, <2>1, <2>2, OwedKept DEF IInv
<1>18. CapInv'
  <2>1. members' \subseteq members
    BY <1>3
  <2> QED BY <1>1, <1>5, <1>11, <2>1, CapKept DEF IInv, Now
<1>19. KeepInv'
  <2>1. \A d \in Steady : <<Kept[d], d>> \in members' /\ sink'[d] = "reads"
    BY <1>1, <1>6, <1>7, RoomAssumption DEF IInv, KeepInv, wire, KeptRooms
  <2>2. task'[c].room \notin KeptRooms
    BY <1>5, <1>6 DEF Now
  <2> QED BY <1>4, <1>11, <2>1, <2>2, KeepKept DEF IInv
<1>20. DropInv'
  <2>1. /\ \A d \in Connections : evict[d] => evict'[d]
        /\ task'[c].current = NONE /\ task'[c].pc # "overlimit"
        /\ NONE \notin KeptRooms /\ KeptRooms \subseteq Strategies
    BY <1>1, <1>5, RoomAssumption DEF Now, wire, KeptRooms
  <2>2. \A d \in Connections \ {c}, r \in KeptRooms :
            <<r, d>> \in members => <<r, d>> \in members'
    BY <1>6, <1>7, <2>1
  <2>3. ~EveryRoomKept
    BY <1>6 DEF EveryRoomKept
  <2> QED BY <1>11, <2>1, <2>2, <2>3, DropKept DEF IInv
<1> QED BY <1>9, <1>10, <1>12, <1>13, <1>14, <1>15, <1>16, <1>17, <1>18, <1>19,
           <1>20 DEF IInv

\* What a broadcast does to the room of the task that holds it.
LEMMA BroadcastFacts ==
    ASSUME IInv, NEW c \in Connections, NEW s \in Strategies, s = task[c].room,
           NEW pc \in Pcs, NEW todo \in Nat, NEW targets \in SUBSET In(s),
           Broadcast(c, pc, todo, targets)
    PROVE  \E dead \in SUBSET (targets \ Steady), n \in Nat :
               /\ Put(c) /\ Now(c, pc, task[c].current, s)
               /\ Rest(c, n, dead, task[c].own, task[c].empty)
               /\ members' = members \ ({s} \X dead)
               /\ \A d \in Connections : evict'[d] <=> evict[d] \/ d \in dead
               /\ Wired' /\ UNCHANGED <<rooms, slots, lost, sink>>
               /\ UNCHANGED content
<1> DEFINE dead == {d \in targets : Full(d)}
           left == In(s) \ dead
           userGone == {d \in dead : \A e \in left : UserOf[e] # UserOf[d]}
<1>0. targets \subseteq Connections
  BY DEF In
<1>1. Cardinality(userGone) \in Nat /\ dead \subseteq Connections
  <2>1. userGone \subseteq Connections
    BY <1>0
  <2> QED BY <1>0, <2>1, RoomAssumption, FS_Subset, FS_CardinalityType
<1>2. /\ members' = members \ ({s} \X dead)
      /\ evict' = [d \in Connections |-> evict[d] \/ d \in dead]
      /\ channel' = [d \in Connections |->
                          IF d \in targets \ (dead \cup Steady)
                          THEN channel[d] + 1 ELSE channel[d]]
      /\ task' = [task EXCEPT ![c].pc = pc,
                              ![c].todo = todo + Cardinality(userGone),
                              ![c].owed = dead]
      /\ UNCHANGED <<rooms, slots, lost, sink>>
      /\ UNCHANGED content
  BY DEF Broadcast, Notify
<1>3. dead \cap Steady = {} /\ dead \subseteq targets
  BY <1>0 DEF IInv, KeepInv, Full
<1>4. \A d \in targets \ (dead \cup Steady) : channel[d] # Capacity
  BY DEF Full
<1> HIDE DEF dead, userGone
<1>5. PICK n \in Nat : n = todo + Cardinality(userGone)
  BY <1>1
<1>6. /\ Put(c) /\ Now(c, pc, task[c].current, s)
      /\ Rest(c, n, dead, task[c].own, task[c].empty)
  <2>1. task' = [task EXCEPT ![c].pc = pc, ![c].todo = n, ![c].owed = dead]
    BY <1>2, <1>5
  <2> QED BY <1>1, <2>1, PutCast, Typed
<1>7. Wired'
  <2>1. channel' \in [Connections -> 0 .. Capacity]
    <3>1. Capacity \in Nat /\ channel \in [Connections -> 0 .. Capacity]
      BY RoomAssumption, Typed DEF Wired
    <3>2. PICK more : more = targets \ (dead \cup Steady)
      OBVIOUS
    <3>3. /\ \A d \in more : channel[d] # Capacity
          /\ channel' = [d \in Connections |->
                            IF d \in more THEN channel[d] + 1 ELSE channel[d]]
      BY <1>2, <1>4, <3>2
    <3> QED BY <3>1, <3>3
  <2>2. evict' \in [Connections -> BOOLEAN]
    BY <1>2, Zenon
  <2> QED BY <1>2, <2>1, <2>2, Typed DEF Wired
<1>8. \A d \in Connections : evict'[d] <=> evict[d] \/ d \in dead
  BY <1>2, Zenon
<1> QED BY <1>2, <1>3, <1>6, <1>7, <1>8

\* The task has the room to itself before and after the broadcast.
LEMMA BroadcastInv ==
    ASSUME IInv, NEW c \in Connections, NEW s \in Strategies, s = task[c].room,
           s \in rooms, NEW pc \in {"joining", "leaving", "casting"},
           NEW todo \in Nat, NEW targets \in SUBSET In(s),
           pc = task[c].pc \/ (pc = "casting" /\ task[c].pc = "cast"),
           task[c].owed = {},
           \A d \in Connections \ {c} : Holding(d) => task[d].room # s,
           Broadcast(c, pc, todo, targets)
    PROVE  IInv'
<1>1. PICK dead \in SUBSET (targets \ Steady), n \in Nat :
          /\ Put(c) /\ Now(c, pc, task[c].current, s)
          /\ Rest(c, n, dead, task[c].own, task[c].empty)
          /\ members' = members \ ({s} \X dead)
          /\ \A d \in Connections : evict'[d] <=> evict[d] \/ d \in dead
          /\ Wired' /\ UNCHANGED <<rooms, slots, lost, sink>>
          /\ UNCHANGED content
  BY BroadcastFacts DEF Pcs
<1>2. Tasked /\ Local(c) /\ TypeOK
  BY Typed
<1>3. \A r \in Strategies, d \in Connections :
          <<r, d>> \in members' <=> <<r, d>> \in members /\ ~(r = s /\ d \in dead)
  BY <1>1
<1>4. dead \subseteq In(s) /\ dead \cap Steady = {} /\ members' \subseteq members
  BY <1>1
<1>5. TypeRest' /\ LockInv' /\ CountInv'
  <2>1. Contented'
    BY <1>1, ContentedKept
  <2> QED BY <1>1, <1>2, <2>1 DEF TypeOK, TypeRest, Put, Tasked, Contented, Wired
<1>6. SlotsConserved'
  <2>1. Reserved' = Reserved /\ Returning' = Returning
    BY <1>1, <1>2, ReservedStep, ReturningStep DEF Put, Now, Rest, Reserving
  <2>2. Cardinality(Owed') = Cardinality(Owed) + Cardinality(dead)
    BY <1>1, <1>2, OwedStep DEF Rest
  <2>3. /\ Cardinality(members') = Cardinality(members) - Cardinality(dead)
        /\ Cardinality(dead) \in Nat
    BY <1>1, <1>2, <1>4, MembersWithout
  <2>4. /\ Cardinality(Owed) \in Nat /\ Cardinality(Returning) \in Nat
        /\ Cardinality(members) \in Nat /\ Cardinality(Reserved) \in Nat
        /\ lost \in Nat
    BY SlotsFinite DEF IInv, TypeOK
  <2> QED BY <1>1, <2>1, <2>2, <2>3, <2>4 DEF IInv, SlotsConserved
<1>7. Local(c)' /\ Others(c)
  BY <1>1, <1>2 DEF Now, Rest, Local, Holding, Moving, InRoom, Put
<1>8. SocketInv'
  BY <1>1, <1>7, SocketsKept DEF IInv, Now
<1>9. TypeOK'
  BY <1>5, <1>6, SlotsNat
<1>10. TaskInv'
  BY <1>7, TaskKept DEF IInv
<1>11. \A r \in Strategies : At(c, r) => At(c, r)'
  BY <1>1 DEF At, Now
<1>12. MemberInv'
  <2>1. \A r \in Strategies, d \in Connections :
            <<r, d>> \in members' =>
                r \in rooms' /\ (d # c => <<r, d>> \in members)
    BY <1>1, <1>3 DEF IInv, MemberInv
  <2>2. \A r \in Strategies : <<r, c>> \in members' => At(c, r)'
    BY <1>3, <1>11 DEF IInv, MemberInv
  <2> QED BY <1>7, <2>1, <2>2, MemberKept DEF IInv
<1>13. HoldInv'
  <2>1. /\ task'[c].room = s /\ s \in rooms'
        /\ \A d \in Connections \ {c} : Holding(d) => task[d].room \in rooms'
    BY <1>1 DEF IInv, HoldInv, Now
  <2> QED BY <1>7, <2>1, HoldKept DEF IInv
<1>14. OwedInv'
  <2>1. ASSUME NEW d \in Connections \ {c}, NEW e \in Connections,
               e \in task[d].owed
        PROVE  <<task[d].room, e>> \notin members'
    BY <1>4, <2>1, DroppedAt
  <2>2. ASSUME NEW e \in Connections, NEW r \in Strategies,
               e \in task'[c].owed, task'[c].room = r
        PROVE  At(e, r)' /\ <<r, e>> \notin members'
    <3>1. e \in dead /\ r = s
      BY <1>1, <2>2 DEF Now, Rest
    <3>2. <<s, e>> \in members
      BY <1>4, <3>1 DEF In
    <3>3. At(e, s)
      BY <3>2 DEF IInv, MemberInv
    <3>4. At(e, s)'
      BY <1>7, <1>11, <3>3, OthersFacts
    <3> QED BY <1>3, <3>1, <3>4
  <2> QED BY <1>2, <1>7, <1>11, <2>1, <2>2, OwedKept DEF IInv
<1>15. CapInv'
  <2>1. \A r \in Strategies : task'[c].pc = "joining" /\ task'[c].room = r
                              => Cardinality(In(r)) < MaxRoom
    BY <1>1 DEF IInv, CapInv, Now
  <2> QED BY <1>2, <1>4, <1>7, <2>1, CapKept DEF IInv
<1>16. KeepInv'
  <2>1. \A d \in Steady : <<Kept[d], d>> \in members' /\ sink'[d] = "reads"
    BY <1>1, <1>3, <1>4, RoomAssumption DEF IInv, KeepInv
  <2>2. /\ task'[c].current = task[c].current
        /\ task'[c].empty => task'[c].room \notin KeptRooms
    BY <1>1, Typed DEF Now, Rest
  <2> QED BY <1>7, <2>1, <2>2, KeepKept DEF IInv
<1>17. DropInv'
  <2>1. /\ task'[c].current = task[c].current /\ task'[c].pc # "overlimit"
        /\ EveryRoomKept => lost' = 0
        /\ KeptRooms \subseteq Strategies
    BY <1>1, RoomAssumption DEF Now, IInv, DropInv, KeptRooms
  <2>2. \A d \in Connections, r \in KeptRooms :
            <<r, d>> \in members => <<r, d>> \in members' \/ evict'[d]
    BY <1>1, <1>3, <2>1
  <2>3. task'[c].current \in KeptRooms /\ UserOf[c] # NONE
           => <<task'[c].current, c>> \in members' \/ evict'[c]
    BY <1>1, <2>1, <2>2 DEF IInv, DropInv
  <2>4. \A d \in Connections \ {c} : evict[d] => evict'[d]
    BY <1>1
  <2> QED BY <1>7, <2>1, <2>2, <2>3, <2>4, DropKept DEF IInv
<1> QED BY <1>5, <1>6, <1>8, <1>9, <1>10, <1>12, <1>13, <1>14, <1>15, <1>16,
           <1>17 DEF IInv

\* deliver goes on with the next message.
LEMMA DeliverInv ==
    ASSUME IInv, NEW c \in Connections, Deliver(c)
    PROVE  IInv'
<1>1. /\ Holding(c) /\ task[c].owed = {} /\ Local(c)
      /\ task[c].todo \in Nat /\ task[c].todo > 0
  BY Typed DEF Deliver
<1>2. PICK s \in Strategies : s = task[c].room
  BY <1>1 DEF Holding, Local, Moving, InRoom
<1>3. PICK pc \in {"joining", "leaving", "casting"} : pc = task[c].pc
  BY <1>1 DEF Holding
<1>4. PICK n \in Nat : n = task[c].todo - 1
  BY <1>1
<1>5. Broadcast(c, pc, n, In(s))
  BY <1>2, <1>3, <1>4 DEF Deliver
<1>6. /\ s \in rooms
      /\ \A d \in Connections \ {c} : Holding(d) => task[d].room # s
  BY <1>1, <1>2 DEF IInv, HoldInv
<1>7. In(s) \in SUBSET In(s)
  OBVIOUS
<1> QED BY <1>1, <1>2, <1>3, <1>5, <1>6, <1>7, BroadcastInv

\* A broadcast begins.
LEMMA CastInv ==
    ASSUME IInv, NEW c \in Connections, Cast(c)
    PROVE  IInv'
<1>1. task[c].pc = "cast" /\ Local(c)
  BY Typed DEF Cast
<1>2. PICK s \in Strategies : s = task[c].room
  BY <1>1 DEF Local, InRoom
<1>3. task[c].owed = {}
  BY <1>1 DEF Local, Holding
<1>4. /\ Broadcast(c, "casting", 0, In(s) \ {c}) /\ s \in rooms
      /\ \A d \in Connections \ {c} : Holding(d) => task[d].room # s
  BY <1>2 DEF Cast, RoomFree
<1>5. In(s) \ {c} \in SUBSET In(s)
  OBVIOUS
<1> QED BY <1>1, <1>2, <1>3, <1>4, <1>5, BroadcastInv

-----------------------------------------------------------------------------
(* The persist tasks. *)

\* A persist task touches nothing of the rooms.
LEMMA PersistFrame ==
    ASSUME IInv, Contented', UNCHANGED <<rooms, members, slots, lost, task, wire>>
    PROVE  IInv'
<1>1. /\ rooms' = rooms /\ members' = members /\ slots' = slots /\ lost' = lost
      /\ task' = task /\ channel' = channel /\ sink' = sink /\ evict' = evict
  BY DEF wire
<1>2. TypeOK'
  BY <1>1 DEF IInv, TypeOK, Contented
<1>3. TaskInv' /\ MemberInv' /\ HoldInv' /\ OwedInv'
  BY <1>1 DEF IInv, TaskInv, Local, MemberInv, HoldInv, OwedInv, At, Holding
<1>4. CapInv' /\ SocketInv' /\ KeepInv'
  BY <1>1 DEF IInv, CapInv, In, SocketInv, Sockets, KeepInv
<1>5. SlotsConserved'
  <2>1. Reserved' = Reserved /\ Returning' = Returning /\ Owed' = Owed
    BY <1>1 DEF Reserved, Returning, Owed
  <2> QED BY <1>1, <2>1 DEF IInv, SlotsConserved
<1>6. DropInv'
  BY <1>1 DEF IInv, DropInv, AdmittedMayJoin
<1> QED BY <1>2, <1>3, <1>4, <1>5, <1>6 DEF IInv, Contented

\* One persist task goes on to q, of the same strategy under the same mutex
\* unless it ends, and the elements of other strategies stay.
LEMMA PersistStep ==
    ASSUME IInv, NEW t \in Tasks, NEW q \in PersistType,
           persist[t].pc # "idle",
           persist' = [persist EXCEPT ![t] = q], locks' = locks,
           elements' \in [Strategies -> Nat],
           \A s \in Strategies \ {persist[t].strategy} : elements'[s] = elements[s],
           q.pc # "idle" => /\ q.strategy = persist[t].strategy
                            /\ q.lock = persist[t].lock
                            /\ elements' = elements,
           elements' # elements => Inside(t),
           q.pc \in {"check", "load", "store"} /\ ~Inside(t)
               => \A u \in Tasks : Inside(u) => persist[u].lock # persist[t].lock,
           persist[t].strategy \in KeptRooms =>
               /\ elements'[persist[t].strategy] <= MaxElements
               /\ q.pc = "load" /\ q.adds
                  => elements[persist[t].strategy] < MaxElements
               /\ q.pc = "store"
                  => /\ q.seen = elements[persist[t].strategy]
                     /\ q.adds => q.seen < MaxElements,
           q.pc = "idle" => q = PersistIdle,
           UNCHANGED <<rooms, members, slots, lost, task, wire>>
    PROVE  IInv'
<1>1. /\ persist \in [Tasks -> PersistType]
      /\ locks \in [Strategies -> Locks \cup {NONE}]
      /\ elements \in [Strategies -> Nat] /\ LockInv /\ CountInv
  BY DEF IInv, TypeOK
<1>2. /\ persist' \in [Tasks -> PersistType] /\ persist'[t] = q
      /\ \A u \in Tasks \ {t} : persist'[u] = persist[u]
  BY <1>1
<1>3. PICK s \in Strategies : s = persist[t].strategy
  BY <1>1 DEF LockInv
<1>4. KeptRooms \subseteq Strategies /\ NONE \notin KeptRooms
  BY RoomAssumption DEF KeptRooms
<1>5. LockInv'
  <2>1. \A u \in Tasks :
            persist'[u].pc # "idle" =>
                /\ persist'[u].strategy \in Strategies
                /\ persist'[u].lock \in Locks
                /\ persist'[u].strategy \in KeptRooms
                   => persist'[u].lock = locks'[persist'[u].strategy]
    BY <1>1, <1>2 DEF LockInv
  <2>2. ASSUME NEW u \in Tasks \ {t}, Inside(u)', Inside(t)'
        PROVE  persist'[u].lock # persist'[t].lock
    <3>1. Inside(u) /\ persist'[u] = persist[u]
      BY <1>2, <2>2 DEF Inside
    <3>2. q.pc \in {"check", "load", "store"} /\ q.lock = persist[t].lock
      BY <1>2, <2>2 DEF Inside
    <3> QED BY <1>1, <1>2, <3>1, <3>2 DEF LockInv
  <2>3. \A u, v \in Tasks :
            u # v /\ Inside(u)' /\ Inside(v)'
            => persist'[u].lock # persist'[v].lock
    <3>1. \A u \in Tasks \ {t} : Inside(u)' <=> Inside(u)
      BY <1>2 DEF Inside
    <3> QED BY <1>1, <1>2, <2>2, <3>1 DEF LockInv
  <2>4. \A r, p \in Strategies :
            locks'[r] = locks'[p] /\ locks'[r] # NONE => r = p
    BY <1>1 DEF LockInv
  <2> QED BY <2>1, <2>3, <2>4 DEF LockInv
<1>6. CountInv'
  <2>1. \A r \in KeptRooms : elements'[r] <= MaxElements
    BY <1>1, <1>3, <1>4 DEF CountInv
  <2>2. ASSUME NEW u \in Tasks, NEW r \in KeptRooms, persist'[u].strategy = r
        PROVE  /\ persist'[u].pc = "load" /\ persist'[u].adds
                  => elements'[r] < MaxElements
               /\ persist'[u].pc = "store"
                  => /\ persist'[u].seen = elements'[r]
                     /\ persist'[u].adds => persist'[u].seen < MaxElements
    <3>1. CASE u = t /\ q.pc = "idle"
      BY <1>2, <3>1
    <3>2. CASE u = t /\ q.pc # "idle"
      BY <1>2, <1>3, <2>2, <3>2
    <3>3. CASE u # t
      <4>1. persist'[u] = persist[u]
        BY <1>2, <3>3
      <4>2. elements' # elements /\ Inside(u) => r # s
        <5>1. Inside(u) => persist[u].pc # "idle"
          BY DEF Inside
        <5> QED BY <1>1, <1>3, <2>2, <3>3, <4>1, <5>1 DEF LockInv
      <4>3. Inside(u) => elements'[r] = elements[r]
        BY <1>3, <1>4, <4>2
      <4>4. persist[u].pc \in {"load", "store"} => Inside(u)
        BY DEF Inside
      <4> QED BY <1>1, <2>2, <4>1, <4>3, <4>4 DEF CountInv
    <3> QED BY <3>1, <3>2, <3>3
  <2> QED BY <2>1, <2>2 DEF CountInv
<1>7. Contented'
  BY <1>1, <1>2, <1>5, <1>6 DEF Contented
<1> QED BY <1>7, PersistFrame

\* What is known of a running persist task.
LEMMA Running ==
    ASSUME IInv, NEW t \in Tasks, persist[t].pc # "idle"
    PROVE  /\ persist[t] \in PersistType /\ persist[t].strategy \in Strategies
           /\ persist[t].lock \in Locks /\ persist[t].adds \in BOOLEAN
           /\ elements \in [Strategies -> Nat]
           /\ persist \in [Tasks -> PersistType]
           /\ persist[t].strategy \in KeptRooms
              => elements[persist[t].strategy] <= MaxElements
           /\ PersistIdle \in PersistType /\ PersistIdle.pc = "idle"
<1>1. /\ persist[t] \in PersistType /\ persist \in [Tasks -> PersistType]
      /\ elements \in [Strategies -> Nat]
  BY DEF IInv, TypeOK
<1>2. persist[t].adds \in BOOLEAN
  BY <1>1 DEF PersistType
<1>3. PersistIdle \in PersistType /\ PersistIdle.pc = "idle"
  BY DEF PersistIdle, PersistType
<1>4. /\ persist[t].strategy \in Strategies /\ persist[t].lock \in Locks
      /\ persist[t].strategy \in KeptRooms
         => elements[persist[t].strategy] <= MaxElements
  BY DEF IInv, LockInv, CountInv
<1> QED BY <1>1, <1>2, <1>3, <1>4

\* Only the place of a persist task changes.
LEMMA StepFacts ==
    ASSUME NEW p \in PersistType, NEW pc \in {"check", "load"}
    PROVE  /\ [p EXCEPT !.pc = pc] \in PersistType
           /\ [p EXCEPT !.pc = pc].pc = pc
           /\ [p EXCEPT !.pc = pc].strategy = p.strategy
           /\ [p EXCEPT !.pc = pc].lock = p.lock
           /\ [p EXCEPT !.pc = pc].adds = p.adds
BY DEF PersistType

\* The mutex is free of other persists.
LEMMA PersistLockInv ==
    ASSUME IInv, NEW t \in Tasks, PersistLock(t)
    PROVE  IInv'
<1>1. persist[t].pc = "wait"
  BY DEF PersistLock
<1>2. PICK p \in PersistType : p = persist[t]
  BY <1>1, Running
<1>3. PICK pc \in {"check", "load"} : pc = IF p.adds THEN "check" ELSE "load"
  OBVIOUS
<1>4. PICK q : q = [p EXCEPT !.pc = pc]
  OBVIOUS
<1>5. persist' = [persist EXCEPT ![t] = q]
  BY <1>2, <1>3, <1>4, Zenon DEF PersistLock, Step
<1>6. /\ q \in PersistType /\ q.pc = pc /\ q.strategy = p.strategy
      /\ q.lock = p.lock /\ q.adds = p.adds
  BY <1>4, StepFacts
<1>7. q.pc = "load" => ~q.adds
  BY <1>3, <1>6
<1>8. /\ locks' = locks /\ elements' = elements
      /\ UNCHANGED <<rooms, members, slots, lost, task, wire>>
      /\ \A u \in Tasks : Inside(u) => persist[u].lock # persist[t].lock
  BY DEF PersistLock
<1> QED BY <1>1, <1>2, <1>5, <1>6, <1>7, <1>8, PersistStep, Running

\* A persist ends without a store.
LEMMA PersistEndInv ==
    ASSUME IInv, NEW t \in Tasks, Inside(t),
           persist' = [persist EXCEPT ![t] = PersistIdle],
           UNCHANGED <<rooms, members, slots, lost, task, wire, locks, elements>>
    PROVE  IInv'
<1>1. persist[t].pc # "idle"
  BY DEF Inside
<1>2. PICK q \in PersistType : q = PersistIdle
  BY <1>1, Running
<1>3. q.pc = "idle" /\ persist' = [persist EXCEPT ![t] = q]
  BY <1>1, <1>2, Running
<1> QED BY <1>1, <1>2, <1>3, PersistStep, Running

\* The second look at the cap.
LEMMA PersistCheckInv ==
    ASSUME IInv, NEW t \in Tasks, PersistCheck(t)
    PROVE  IInv'
<1>1. persist[t].pc = "check" /\ Inside(t)
  BY DEF PersistCheck, Inside
<1>2. CASE Stored(t) < MaxElements
  <2>1. PICK p \in PersistType : p = persist[t]
    BY <1>1, Running
  <2>2. PICK q : q = [p EXCEPT !.pc = "load"]
    OBVIOUS
  <2>3. persist' = [persist EXCEPT ![t] = q]
    BY <1>2, <2>1, <2>2, Zenon DEF PersistCheck, Step
  <2>4. /\ q \in PersistType /\ q.pc = "load" /\ q.strategy = p.strategy
        /\ q.lock = p.lock /\ q.adds = p.adds
    BY <2>2, StepFacts
  <2>5. /\ locks' = locks /\ elements' = elements
        /\ UNCHANGED <<rooms, members, slots, lost, task, wire>>
        /\ elements[persist[t].strategy] < MaxElements
    BY <1>2 DEF PersistCheck, Stored
  <2> QED BY <1>1, <2>1, <2>3, <2>4, <2>5, PersistStep, Running
<1>3. CASE ~(Stored(t) < MaxElements)
  BY <1>1, <1>3, PersistEndInv DEF PersistCheck
<1> QED BY <1>2, <1>3

\* The load sees what is stored.
LEMMA PersistLoadInv ==
    ASSUME IInv, NEW t \in Tasks, PersistLoad(t)
    PROVE  IInv'
<1>1. persist[t].pc = "load" /\ Inside(t)
  BY DEF PersistLoad, Inside
<1>2. PICK p \in PersistType : p = persist[t]
  BY <1>1, Running
<1>3. PICK n \in Nat : n = elements[p.strategy]
  BY <1>1, <1>2, Running
<1>4. PICK q : q = [p EXCEPT !.pc = "store", !.seen = n]
  OBVIOUS
<1>5. persist' = [persist EXCEPT ![t] = q]
  BY <1>2, <1>3, <1>4, Zenon DEF PersistLoad, Stored
<1>6. /\ q \in PersistType /\ q.pc = "store" /\ q.strategy = p.strategy
      /\ q.lock = p.lock /\ q.adds = p.adds /\ q.seen = n
  BY <1>4 DEF PersistType
<1>7. /\ locks' = locks /\ elements' = elements
      /\ UNCHANGED <<rooms, members, slots, lost, task, wire>>
  BY DEF PersistLoad
<1>8. p.strategy \in KeptRooms /\ p.adds => n < MaxElements
  BY <1>1, <1>2, <1>3 DEF IInv, CountInv
<1> QED BY <1>1, <1>2, <1>3, <1>5, <1>6, <1>7, <1>8, PersistStep, Running

\* The store replaces what was loaded, which nobody changed since.
LEMMA PersistStoreInv ==
    ASSUME IInv, NEW t \in Tasks, PersistStore(t)
    PROVE  IInv'
<1>1. persist[t].pc = "store" /\ Inside(t)
  BY DEF PersistStore, Inside
<1>2. PICK s \in Strategies : s = persist[t].strategy
  BY <1>1, Running
<1>3. persist[t].seen \in Nat
  BY <1>1, Running DEF PersistType
<1>4. PICK n \in IF persist[t].adds THEN {persist[t].seen + 1}
                 ELSE {persist[t].seen, persist[t].seen - 1} \cap Nat :
          elements' = [elements EXCEPT ![s] = n]
  BY <1>2 DEF PersistStore
<1>5. n \in Nat
  BY <1>3, <1>4
<1>6. /\ elements' \in [Strategies -> Nat] /\ elements'[s] = n
      /\ \A r \in Strategies \ {s} : elements'[r] = elements[r]
  BY <1>1, <1>4, <1>5, Running
<1>7. s \in KeptRooms => n <= MaxElements
  <2> HAVE s \in KeptRooms
  <2>1. /\ persist[t].seen = elements[s] /\ elements[s] <= MaxElements
        /\ persist[t].adds => persist[t].seen < MaxElements
    BY <1>1, <1>2 DEF IInv, CountInv
  <2>2. MaxElements \in Nat
    BY RoomAssumption
  <2> QED BY <1>3, <1>4, <2>1, <2>2
<1>8. PICK q \in PersistType : q = PersistIdle
  BY <1>1, Running
<1>9. q.pc = "idle" /\ persist' = [persist EXCEPT ![t] = q]
  BY <1>1, <1>8, Running DEF PersistStore
<1>10. /\ locks' = locks
       /\ UNCHANGED <<rooms, members, slots, lost, task, wire>>
  BY DEF PersistStore
<1> QED BY <1>1, <1>2, <1>6, <1>7, <1>8, <1>9, <1>10, PersistStep

-----------------------------------------------------------------------------
(* The invariant holds at first and is kept. *)

\* The task of a connection at the start.
LEMMA InitTask ==
    ASSUME Init, NEW c \in Connections
    PROVE  /\ task[c] \in TaskType
           /\ task[c].pc = IF c \in Steady THEN "select" ELSE "closed"
           /\ task[c].current = IF c \in Steady THEN Kept[c] ELSE NONE
           /\ task[c].room = NONE /\ task[c].todo = 0 /\ task[c].owed = {}
           /\ task[c].own = FALSE /\ task[c].empty = FALSE
<1>1. PICK r \in TaskType : r = Closed
  BY ClosedType
<1>2. CASE c \in Steady
  <2>1. PICK k \in Strategies : k = Kept[c]
    BY <1>2, RoomAssumption
  <2>2. PICK v : v = [r EXCEPT !.pc = "select", !.current = k]
    OBVIOUS
  <2>3. task[c] = v
    BY <1>1, <1>2, <2>1, <2>2, Zenon DEF Init
  <2>4. /\ v \in TaskType /\ v.pc = "select" /\ v.current = k
        /\ v.room = r.room /\ v.todo = r.todo /\ v.owed = r.owed
        /\ v.own = r.own /\ v.empty = r.empty
    BY <2>2 DEF TaskType
  <2> QED BY <1>1, <1>2, <2>1, <2>3, <2>4, ClosedType
<1>3. CASE c \notin Steady
  BY <1>3, ClosedType DEF Init
<1> QED BY <1>2, <1>3

\* The invariant holds at first.
LEMMA InitInv == Init => IInv
<1> SUFFICES ASSUME Init PROVE IInv
  OBVIOUS
<1>1. /\ Steady \subseteq Connections /\ IsFiniteSet(Steady)
      /\ Cardinality(Steady) \in Nat /\ KeptRooms \subseteq Strategies
      /\ NONE \notin Strategies
  <2>1. Steady \subseteq Connections /\ IsFiniteSet(Steady)
    BY RoomAssumption, FS_Subset
  <2> QED BY <2>1, RoomAssumption, FS_CardinalityType DEF KeptRooms
<1>2. /\ rooms = KeptRooms /\ slots = Cardinality(Steady) /\ lost = 0
      /\ members = {<<Kept[c], c>> : c \in Steady}
  BY DEF Init, KeptRooms
<1>3. \A s, c : <<s, c>> \in members <=> c \in Steady /\ s = Kept[c]
  BY <1>2
<1>4. task \in [Connections -> TaskType]
  <2>1. task = [c \in Connections |-> task[c]]
    BY DEF Init
  <2> QED BY <2>1, InitTask
<1>5. TypeOK
  <2>1. members \subseteq Strategies \X Connections
    BY <1>1, <1>2, RoomAssumption
  <2>2. persist \in [Tasks -> PersistType]
    BY DEF Init, PersistIdle, PersistType
  <2>0. channel \in [Connections -> 0 .. Capacity]
    <3>1. 0 \in 0 .. Capacity
      BY RoomAssumption
    <3> QED BY <3>1 DEF Init
  <2>3. /\ locks \in [Strategies -> Locks \cup {NONE}]
        /\ elements \in [Strategies -> Nat]
        /\ sink \in [Connections -> {"reads", "stalled", "gone"}]
    BY DEF Init
  <2>4. evict \in [Connections -> BOOLEAN]
    BY DEF Init
  <2> QED BY <1>1, <1>2, <1>4, <2>0, <2>1, <2>2, <2>3, <2>4 DEF TypeOK
<1>6. TaskInv
  BY InitTask DEF TaskInv, Local, InRoom, Moving, Holding
<1>7. MemberInv
  <2> SUFFICES ASSUME NEW s \in Strategies, NEW c \in Connections,
                      <<s, c>> \in members
               PROVE  s \in rooms /\ At(c, s)
    BY DEF MemberInv
  <2>1. c \in Steady /\ s = Kept[c]
    BY <1>3
  <2>2. task[c].current = s
    BY <2>1, InitTask
  <2> QED BY <1>2, <2>1, <2>2 DEF At, KeptRooms
<1>8. HoldInv /\ OwedInv
  BY InitTask DEF HoldInv, Holding, OwedInv
<1>9. CapInv
  <2>1. \A s \in Strategies : In(s) = {c \in Steady : Kept[c] = s}
    BY <1>1, <1>3 DEF In
  <2>2. \A s \in Strategies : Cardinality(In(s)) <= MaxRoom
    BY <2>1, RoomAssumption
  <2> QED BY <2>2, InitTask DEF CapInv
<1>10. SocketInv
  <2>1. Sockets = Steady
    BY <1>1, InitTask DEF Sockets
  <2> QED BY <2>1, RoomAssumption DEF SocketInv
<1>11. SlotsConserved
  <2>1. Reserved = {} /\ Returning = {}
    BY InitTask DEF Reserved, Returning
  <2>2. Owed = {}
    BY InitTask DEF Owed
  <2>3. Cardinality(members) = Cardinality(Steady)
    <3> DEFINE f == [c \in Steady |-> <<Kept[c], c>>]
    <3>1. f \in [Steady -> members] /\ \A m \in members : \E c \in Steady : f[c] = m
      BY <1>2
    <3>2. \A c, d \in Steady : f[c] = f[d] => c = d
      OBVIOUS
    <3>3. f \in Bijection(Steady, members)
      <4> HIDE DEF f
      <4> QED BY <3>1, <3>2 DEF Bijection, Injection, Surjection, IsInjective
    <3>4. ExistsBijection(Steady, members)
      BY <3>3 DEF ExistsBijection
    <3> QED BY <1>1, <3>3, <3>4, FS_Bijection
  <2>4. Cardinality({}) = 0
    BY FS_EmptySet
  <2> QED BY <1>1, <1>2, <2>1, <2>2, <2>3, <2>4 DEF SlotsConserved
<1>12. KeepInv
  BY <1>1, <1>3, InitTask DEF KeepInv, Init
<1>13. DropInv
  <2>1. AdmittedMayJoin
    BY InitTask DEF AdmittedMayJoin
  <2>2. ASSUME NEW c \in Connections, task[c].current \in KeptRooms
        PROVE  <<task[c].current, c>> \in members
    <3>1. c \in Steady /\ task[c].current = Kept[c]
      BY <1>1, <2>2, InitTask
    <3> QED BY <1>3, <3>1
  <2> QED BY <1>2, <2>1, <2>2 DEF DropInv
<1>14. LockInv /\ CountInv
  <2>1. \A t \in Tasks : persist[t].pc = "idle"
    BY DEF Init, PersistIdle
  <2>2. /\ \A s \in Strategies : locks[s] = NONE
        /\ \A s \in KeptRooms : elements[s] = 0
    BY <1>1 DEF Init
  <2> QED BY <2>1, <2>2, RoomAssumption DEF LockInv, CountInv, Inside
<1> QED BY <1>5, <1>6, <1>7, <1>8, <1>9, <1>10, <1>11, <1>12, <1>13, <1>14
        DEF IInv

\* Every step keeps the invariant.
LEMMA NextInv ==
    ASSUME IInv, [Next]_vars
    PROVE  IInv'
<1>1. ASSUME NEW c \in Connections, Socket(c) PROVE IInv'
  <2>1. CASE Connect(c) BY <2>1, ConnectInv
  <2>2. CASE Message(c)
    BY <2>2, JoinRoomInv, LeaveRoomInv, PingInv, EditInv, CursorMoveInv
       DEF Message
  <2>3. CASE EndSocket(c) BY <2>3, EndSocketInv
  <2>4. CASE Acquire(c)
    BY <2>4, EnterInv, LeaveInv, RemoveRoomInv, CastInv, AnswerInv DEF Acquire
  <2>5. CASE Proceed(c)
    BY <2>5, DeliverInv, SettleInv, ReserveInv, RefundInv, AddConnectionInv,
       ReleaseInv, ReturnSlotInv, RemoveLockInv, LeaveDoneInv, SpawnInv,
       CastEndInv DEF Proceed
  <2>6. CASE Forward(c) \/ PeerChanges(c) BY <2>6, WireInv
  <2> QED BY <1>1, <2>1, <2>2, <2>3, <2>4, <2>5, <2>6 DEF Socket
<1>2. ASSUME NEW t \in Tasks, Persist(t) PROVE IInv'
  <2>1. CASE PersistFailed(t) BY <2>1, PersistEndInv DEF PersistFailed
  <2> QED BY <1>2, <2>1, PersistLockInv, PersistCheckInv, PersistLoadInv,
             PersistStoreInv DEF Persist
<1>3. CASE UNCHANGED vars
  <2>1. UNCHANGED <<rooms, members, slots, lost, task, wire>> /\ UNCHANGED content
    BY <1>3 DEF vars, wire, content
  <2> QED BY <2>1, ContentedKept, PersistFrame
<1> QED BY <1>1, <1>2, <1>3 DEF Next, Socket

\* The invariant holds in every reachable state.
LEMMA Invariant == Spec => []IInv
BY InitInv, NextInv, PTL DEF Spec

-----------------------------------------------------------------------------
(* The theorems. *)

\* Whatever connections join, leave, are dropped or time out in whatever
\* order, the joined-connection count of RoomManager is exact.
THEOREM SlotsExact == Spec => []SlotsConserved
<1>1. IInv => SlotsConserved
  BY DEF IInv
<1> QED BY <1>1, Invariant, PTL

\* However many joins race for the last slot, neither the server nor a room
\* takes more connections than its cap (join_room, websocket_handler).
THEOREM CapsHold == Spec => []WithinCaps
<1>1. ASSUME IInv PROVE WithinCaps
  <2>1. Joined \subseteq Sockets
    BY <1>1, AtOne DEF Joined, Sockets, IInv, MemberInv, InRoom
  <2>2. Cardinality(Joined) <= Cardinality(Sockets) /\ Cardinality(Joined) \in Nat
    BY <1>1, <2>1, SocketsFinite, FS_Subset, FS_CardinalityType, JoinedCount
  <2>3. Cardinality(members) \in Nat /\ Cardinality(Sockets) <= MaxGlobal
    BY <1>1, SlotsFinite DEF IInv, TypeOK, SocketInv
  <2>4. Cardinality(members) <= MaxGlobal
    BY <1>1, <2>2, <2>3, JoinedCount, SocketsFinite, RoomAssumption
  <2> QED BY <1>1, <2>4 DEF WithinCaps, IInv, CapInv
<1> QED BY <1>1, Invariant, PTL

\* Edits of strategies whose room keeps somebody never interleave between
\* load and store, and never pass the element cap (ElementAdd, strategy_lock).
THEOREM EditsSafe == Spec => [](EveryRoomKept => PersistsSafe)
<1>1. ASSUME IInv, EveryRoomKept PROVE PersistsSafe
  <2>1. ASSUME NEW t \in Tasks, NEW u \in Tasks, t # u, Inside(t), Inside(u)
        PROVE  persist[t].strategy # persist[u].strategy
    <3>1. persist[t].pc # "idle" /\ persist[u].pc # "idle"
      BY <2>1 DEF Inside
    <3> QED BY <1>1, <2>1, <3>1 DEF IInv, LockInv, EveryRoomKept
  <2>2. ElementCap
    BY <1>1 DEF IInv, CountInv, ElementCap, EveryRoomKept
  <2> QED BY <2>1, <2>2 DEF PersistsSafe, PersistsSerial
<1>2. IInv => (EveryRoomKept => PersistsSafe)
  BY <1>1
<1> QED BY <1>2, Invariant, PTL

\* While every room keeps somebody, a socket with an admission permit is
\* never refused by the joined-connection cap (with_global_limit).
THEOREM AdmittedJoins == Spec => [](EveryRoomKept => AdmittedMayJoin)
<1>1. IInv => (EveryRoomKept => AdmittedMayJoin)
  BY DEF IInv, DropInv
<1> QED BY <1>1, Invariant, PTL

\* While every room keeps somebody, whoever believes itself in a room is in
\* it or has been told to close (RoomUser::evict).
THEOREM DropsAreTold == Spec => [](EveryRoomKept => NoSilentDrop)
<1>1. ASSUME IInv, EveryRoomKept PROVE NoSilentDrop
  <2>1. \A c \in Connections : task[c].current # NONE => task[c].current \in KeptRooms
    BY <1>1, Typed DEF EveryRoomKept
  <2> QED BY <1>1, <2>1 DEF IInv, DropInv, NoSilentDrop
<1>2. IInv => (EveryRoomKept => NoSilentDrop)
  BY <1>1
<1> QED BY <1>2, Invariant, PTL

=============================================================================
