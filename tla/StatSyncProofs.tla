--------------------------- MODULE StatSyncProofs ---------------------------
(***************************************************************************)
(* Proofs about the tracker's store and its upload pass, for any sessions, *)
(* snapshots, edits and faults.  A mark lands only on what the site        *)
(* accepted, and a delete is not undone by a capture in flight; where      *)
(* commands do not overlap inserts and deletes do not overlap a collecting *)
(* pass, the site's copy of a deleted game always has its server delete    *)
(* queued; and where besides no statement queues an older snapshot by      *)
(* itself, the site shows the newest snapshot of every game at rest.       *)
(***************************************************************************)
EXTENDS StatSync, WellFoundedInduction, TLAPS

-----------------------------------------------------------------------------
(* The inductive invariant, in parts. *)

\* What the fields of the two other tasks may be where they stand.
TaskInv ==
    /\ capture.pc = "idle" <=> capture.s = NONE
    /\ capture.pc # "idle" =>
          /\ capture.i \in Snaps
          /\ capture.map \in Maps
          /\ <<capture.s, capture.i>> \in taken
    /\ cmd.pc = "idle" <=> cmd.s = NONE
    /\ cmd.pc # "edit" => cmd.map = NONE
    /\ cmd.pc = "edit" => cmd.map # "blank"
    /\ cmd.newly => cmd.pc = "delete"

\* The snapshot was announced and is not in the table yet.
Creating(s, i) == capture.pc = "create" /\ capture.s = s /\ capture.i = i

\* A snapshot is inserted once.
RowInv ==
    \A s \in Sessions, i \in Snaps :
        /\ rows[s][i] # NONE => <<s, i>> \in taken
        /\ Creating(s, i) => rows[s][i] = NONE

\* The snapshot was in the table and never comes back.
Lost(s, j) == <<s, j>> \in taken /\ rows[s][j] = NONE /\ ~Creating(s, j)

\* A later snapshot decides what the site shows of the game.
Covered(s, i) ==
    \E j \in Snaps :
        /\ j > i
        /\ \/ Lost(s, j)
           \/ rows[s][j] # NONE /\ rows[s][j].decided

\* The claim was read from the table: the row can only have moved on since.
Old(c) ==
    /\ <<c.s, c.i>> \in taken
    /\ ~Creating(c.s, c.i)
    /\ rows[c.s][c.i] # NONE => c.sync_rev <= rows[c.s][c.i].sync_rev

\* As long as the row is still the claimed one, it may be marked synced.
Fine(c) ==
    CasHit(c) =>
        \/ ~rows[c.s][c.i].decided
        \/ row_is_local_only(rows[c.s][c.i])
        \/ Covered(c.s, c.i)
        \/ c \in sent

\* Every mark in the table is on a row that may have one.
SyncedInv ==
    \A c \in Claims : CasHit(c) /\ rows[c.s][c.i].synced => Fine(c)

\* The site has answered this pass.
Answered == {"ack", "mark", "clear"}

\* What the pass has claimed, and may mark, where it stands.
ClaimsOK(p) ==
    /\ \A c \in p.local \cup p.send \cup p.upload
                    \cup p.todo \cup p.marked : Old(c)
    /\ \A c \in p.local \cup p.todo \cup p.marked : Fine(c)
    /\ \A c \in p.send, u \in p.upload : c.s = u.s => c = u \/ Fine(c)
    /\ p.acc \subseteq p.upload
    /\ p.acc # {} => p.pc \in Answered

\* The site accepted what the pass takes for accepted.
ClaimInv ==
    /\ ClaimsOK(pass)
    /\ pass.acc \subseteq sent

\* After a delete only the insert that was in flight can be in the table,
\* until it looks at deleted_here again.
DeletedInv ==
    \A s \in gone \cap deletedHere, i \in Snaps :
        rows[s][i] # NONE =>
            \/ cmd.s = s /\ cmd.newly
            \/ capture.pc = "recheck" /\ capture.s = s /\ capture.i = i

Rows == [Sessions -> [Snaps -> PersonalMatch \cup {NONE}]]

\* The row would upload what it would have uploaded before, and has no new
\* mark.
Stay(a, b) ==
    /\ b.sync_rev = a.sync_rev
    /\ b.decided = a.decided
    /\ b.map_name = a.map_name
    /\ b.game_mode = a.game_mode
    /\ b.corrected_map_name = a.corrected_map_name
    /\ b.synced => a.synced

\* The row was written and is queued again.
Bump(a, b) == b.sync_rev > a.sync_rev /\ ~b.synced

\* The inductive invariant.
IInv == TypeOK /\ TaskInv /\ RowInv /\ SyncedInv /\ ClaimInv /\ DeletedInv

\* Without overlap a deleted game has no row and nobody works on it.
GoneInv ==
    /\ capture.pc = "idle" \/ cmd.pc = "idle"
    /\ capture.s \notin gone
    /\ cmd.s \notin gone
    /\ \A s \in gone, i \in Snaps : rows[s][i] = NONE

\* The tombstones of deleted games against the pass's uploads and deletes.
TombInv ==
    /\ Collecting => \A c \in pass.upload : c.s \notin gone
    /\ pass.pc = "upload" =>
          \A c \in pass.upload : c.s \in gone => c.s \in tombs
    /\ pass.pc \in Answered \cup {"upload"} =>
          \A c \in pass.upload : c.s \notin pass.deletes
    /\ pass.pc \in Answered => \A s \in pass.deletes : site[s] = NONE

\* What holds where no command overlaps an insert and no delete a collecting
\* pass.
ApartInv == GoneInv /\ TombInv /\ DeletedIsTombstoned

-----------------------------------------------------------------------------
(* The operators the model is built from. *)

\* A non-empty set of snapshot numbers has a least and a greatest member, the
\* ones Min and Max choose.
LEMMA SnapsBounds ==
    ASSUME NEW S, S \subseteq Snaps, S # {}
    PROVE  /\ Max(S) \in S /\ \A j \in S : j <= Max(S)
           /\ Min(S) \in S /\ \A j \in S : Min(S) <= j
<1> DEFINE Less == OpToRel(<, Nat)
           T == {MaxSnaps - j : j \in S}
<1>1. IsWellFoundedOn(Less, Nat)
  BY NatLessThanWellFounded
<1>2. T \subseteq Nat /\ T # {} /\ S \subseteq Nat
  <2>1. \A j \in S : j \in Nat /\ MaxSnaps - j \in Nat
    BY StatSyncAssumption DEF Snaps
  <2> QED BY <2>1
<1>3. \A x, y \in Nat : x < y => <<x, y>> \in Less
  BY DEF OpToRel
<1> HIDE DEF Less
<1>4. /\ \E x \in T : \A y \in T : ~(<<y, x>> \in Less)
      /\ \E x \in S : \A y \in S : ~(<<y, x>> \in Less)
  <2> HIDE DEF T
  <2> QED BY <1>1, <1>2, WFMin
<1>5. PICK x \in T : \A y \in T : ~(y < x)
  BY <1>4, <1>3, <1>2
<1>6. PICK m \in S : x = MaxSnaps - m
  OBVIOUS
<1>7. \A j \in S : m >= j
  BY <1>5, <1>6, StatSyncAssumption DEF Snaps
<1>8. PICK n \in S : \A y \in S : ~(y < n)
  BY <1>4, <1>3, <1>2
<1>9. \A j \in S : n <= j
  <2>1. \A j \in S : j \in Nat
    BY <1>2
  <2> QED BY <1>8, <2>1
<1>10. Max(S) \in S /\ \A j \in S : j <= Max(S)
  BY <1>7, <1>2 DEF Max
<1>11. Min(S) \in S /\ \A j \in S : Min(S) <= j
  BY <1>9, <1>2 DEF Min
<1> QED BY <1>10, <1>11

\* A session, a map and NONE are told apart.
LEMMA NoneApart ==
    NONE \notin Sessions /\ NONE \notin Maps
BY StatSyncAssumption DEF Maps

\* What the statements that re-queue a row, or set a flag of it, make of it.
LEMMA RowOps ==
    ASSUME NEW r \in PersonalMatch
    PROVE  /\ Requeue(r) \in PersonalMatch
           /\ Requeue(r).sync_rev = r.sync_rev + 1
           /\ Requeue(r).synced = FALSE
           /\ Requeue(r).decided = r.decided
           /\ Requeue(r).sync_rev > r.sync_rev
<1>1. r.sync_rev \in Nat
  BY DEF PersonalMatch
<1>2. Requeue(r) \in PersonalMatch
  <2>1. PICK n \in Nat : n = r.sync_rev + 1
    BY <1>1
  <2>2. [r EXCEPT !.synced = FALSE, !.upload_reject = FALSE, !.sync_rev = n]
           \in PersonalMatch
    BY DEF PersonalMatch
  <2> QED BY <2>1, <2>2 DEF Requeue
<1>3. /\ Requeue(r).sync_rev = r.sync_rev + 1
      /\ Requeue(r).synced = FALSE
      /\ Requeue(r).decided = r.decided
  BY DEF Requeue, PersonalMatch
<1> QED BY <1>1, <1>2, <1>3

\* A stored row is a row.
LEMMA RowAt ==
    ASSUME TypeOK, NEW s \in Sessions, NEW i \in Snaps
    PROVE  rows[s][i] \in PersonalMatch \cup {NONE}
BY DEF TypeOK

\* What "UPDATE personal_match ... WHERE session_id = s" leaves in the table.
LEMMA SessionWritten ==
    ASSUME TypeOK, NEW s \in Sessions,
           NEW g \in [Snaps -> PersonalMatch \cup {NONE}],
           rows' = [rows EXCEPT ![s] = g]
    PROVE  /\ rows' \in Rows
           /\ \A t \in Sessions, i \in Snaps :
                 rows'[t][i] = IF t = s THEN g[i] ELSE rows[t][i]
BY DEF TypeOK, Rows

\* What a statement on one row leaves in the table.
LEMMA CellWritten ==
    ASSUME TypeOK, NEW s \in Sessions, NEW i \in Snaps,
           NEW v \in PersonalMatch \cup {NONE},
           rows' = [rows EXCEPT ![s][i] = v]
    PROVE  /\ rows' \in Rows
           /\ \A t \in Sessions, j \in Snaps :
                 rows'[t][j] = IF t = s /\ j = i THEN v ELSE rows[t][j]
BY DEF TypeOK, Rows

-----------------------------------------------------------------------------
(* What each statement does to the rows. *)

\* A result back-filled or taken back: every row of the session is queued again.
LEMMA OutcomeRows ==
    ASSUME TypeOK, NEW s \in Sessions, NEW decided \in BOOLEAN,
           set_session_outcome(s, decided)
    PROVE  /\ rows' \in Rows
           /\ \A t \in Sessions, i \in Snaps :
                 IF t = s /\ rows[t][i] # NONE
                 THEN rows'[t][i] # NONE /\ Bump(rows[t][i], rows'[t][i])
                 ELSE rows'[t][i] = rows[t][i]
<1>1. PICK g : g = [i \in Snaps |-> IF rows[s][i] = NONE THEN NONE
                        ELSE [Requeue(rows[s][i]) EXCEPT !.decided = decided]]
  OBVIOUS
<1>2. rows' = [rows EXCEPT ![s] = g]
  BY <1>1 DEF set_session_outcome, UpdateRows
<1>3. \A i \in Snaps :
          IF rows[s][i] # NONE
          THEN g[i] \in PersonalMatch /\ Bump(rows[s][i], g[i])
          ELSE g[i] = NONE
  <2> SUFFICES ASSUME NEW i \in Snaps, rows[s][i] # NONE
               PROVE  g[i] \in PersonalMatch /\ Bump(rows[s][i], g[i])
    BY <1>1
  <2>1. PICK r \in PersonalMatch : r = rows[s][i]
    BY RowAt
  <2>2. PICK q \in PersonalMatch : q = Requeue(r)
    BY RowOps
  <2>3. q.sync_rev > r.sync_rev /\ q.synced = FALSE
    BY <2>2, RowOps
  <2>4. g[i] = [q EXCEPT !.decided = decided]
    BY <1>1, <2>1, <2>2
  <2>5. [q EXCEPT !.decided = decided] \in PersonalMatch
    BY DEF PersonalMatch
  <2>6. /\ [q EXCEPT !.decided = decided].sync_rev = q.sync_rev
        /\ [q EXCEPT !.decided = decided].synced = q.synced
    BY DEF PersonalMatch
  <2> QED BY <2>1, <2>3, <2>4, <2>5, <2>6 DEF Bump
<1>4. g \in [Snaps -> PersonalMatch \cup {NONE}]
  BY <1>1, <1>3
<1>5. /\ rows' \in Rows
      /\ \A t \in Sessions, i \in Snaps :
            rows'[t][i] = IF t = s THEN g[i] ELSE rows[t][i]
  BY <1>2, <1>4, SessionWritten
<1> QED BY <1>3, <1>5, NoneAssumption

\* A map back-filled: the rows that disagree are queued again.
LEMMA MapRows ==
    ASSUME TypeOK, NEW s \in Sessions, NEW map \in Maps,
           set_session_map(s, map)
    PROVE  /\ rows' \in Rows
           /\ \A t \in Sessions, i \in Snaps :
                 \/ rows'[t][i] = rows[t][i]
                 \/ /\ rows[t][i] # NONE /\ rows'[t][i] # NONE
                    /\ Bump(rows[t][i], rows'[t][i])
                    /\ rows'[t][i].decided = rows[t][i].decided
<1>1. PICK g : g = [i \in Snaps |->
           IF rows[s][i] = NONE THEN NONE
           ELSE IF rows[s][i].map_name = map /\ rows[s][i].game_mode = map
           THEN rows[s][i]
           ELSE [Requeue(rows[s][i]) EXCEPT !.map_name = map, !.game_mode = map]]
  OBVIOUS
<1>2. rows' = [rows EXCEPT ![s] = g]
  BY <1>1 DEF set_session_map, UpdateRows
<1>3. \A i \in Snaps :
          \/ g[i] = rows[s][i]
          \/ /\ rows[s][i] # NONE
             /\ g[i] \in PersonalMatch /\ Bump(rows[s][i], g[i])
             /\ g[i].decided = rows[s][i].decided
  <2> SUFFICES ASSUME NEW i \in Snaps, rows[s][i] # NONE,
                      ~(rows[s][i].map_name = map /\ rows[s][i].game_mode = map)
               PROVE  /\ g[i] \in PersonalMatch /\ Bump(rows[s][i], g[i])
                      /\ g[i].decided = rows[s][i].decided
    BY <1>1
  <2>1. PICK r \in PersonalMatch : r = rows[s][i]
    BY RowAt
  <2>2. PICK q \in PersonalMatch : q = Requeue(r)
    BY RowOps
  <2>3. q.sync_rev > r.sync_rev /\ q.synced = FALSE /\ q.decided = r.decided
    BY <2>2, RowOps
  <2>4. g[i] = [q EXCEPT !.map_name = map, !.game_mode = map]
    BY <1>1, <2>1, <2>2
  <2>5. [q EXCEPT !.map_name = map, !.game_mode = map] \in PersonalMatch
    BY DEF PersonalMatch
  <2>6. /\ [q EXCEPT !.map_name = map, !.game_mode = map].sync_rev = q.sync_rev
        /\ [q EXCEPT !.map_name = map, !.game_mode = map].synced = q.synced
        /\ [q EXCEPT !.map_name = map, !.game_mode = map].decided = q.decided
    BY DEF PersonalMatch
  <2> QED BY <2>1, <2>3, <2>4, <2>5, <2>6 DEF Bump
<1>4. g \in [Snaps -> PersonalMatch \cup {NONE}]
  BY <1>1, <1>3, RowAt
<1>5. /\ rows' \in Rows
      /\ \A t \in Sessions, i \in Snaps :
            rows'[t][i] = IF t = s THEN g[i] ELSE rows[t][i]
  BY <1>2, <1>4, SessionWritten
<1> QED BY <1>3, <1>5, NoneAssumption

\* A retry: no row is queued under another revision.
LEMMA ClearRows ==
    ASSUME TypeOK, NEW s \in Sessions, clear_upload_reject(s)
    PROVE  /\ rows' \in Rows
           /\ \A t \in Sessions, i \in Snaps :
                 \/ rows'[t][i] = rows[t][i]
                 \/ /\ rows[t][i] # NONE /\ rows'[t][i] # NONE
                    /\ Stay(rows[t][i], rows'[t][i])
<1>1. PICK g : g = [i \in Snaps |-> IF rows[s][i] = NONE THEN NONE
                        ELSE [rows[s][i] EXCEPT !.upload_reject = FALSE]]
  OBVIOUS
<1>2. rows' = [rows EXCEPT ![s] = g]
  BY <1>1 DEF clear_upload_reject, UpdateRows
<1>3. \A i \in Snaps :
          \/ g[i] = rows[s][i]
          \/ /\ rows[s][i] # NONE
             /\ g[i] \in PersonalMatch /\ Stay(rows[s][i], g[i])
  <2> SUFFICES ASSUME NEW i \in Snaps, rows[s][i] # NONE
               PROVE  g[i] \in PersonalMatch /\ Stay(rows[s][i], g[i])
    BY <1>1
  <2>1. PICK r \in PersonalMatch : r = rows[s][i]
    BY RowAt
  <2>2. g[i] = [r EXCEPT !.upload_reject = FALSE]
    BY <1>1, <2>1
  <2>3. [r EXCEPT !.upload_reject = FALSE] \in PersonalMatch
    BY DEF PersonalMatch
  <2>4. Stay(r, [r EXCEPT !.upload_reject = FALSE])
    BY DEF PersonalMatch, Stay
  <2> QED BY <2>1, <2>2, <2>3, <2>4
<1>4. g \in [Snaps -> PersonalMatch \cup {NONE}]
  BY <1>1, <1>3, RowAt
<1>5. /\ rows' \in Rows
      /\ \A t \in Sessions, i \in Snaps :
            rows'[t][i] = IF t = s THEN g[i] ELSE rows[t][i]
  BY <1>2, <1>4, SessionWritten
<1> QED BY <1>3, <1>5, NoneAssumption

\* A member's edit of one row.
LEMMA EditedRow ==
    ASSUME NEW r \in PersonalMatch,
           NEW map \in Maps \cup {NONE}
    PROVE  /\ apply_match_edit(r, map) \in PersonalMatch
           /\ Bump(r, apply_match_edit(r, map))
           /\ apply_match_edit(r, map).decided = r.decided
<1>1. PICK q \in PersonalMatch : q = Requeue(r)
  BY RowOps
<1>2. q.sync_rev > r.sync_rev /\ q.synced = FALSE /\ q.decided = r.decided
  BY <1>1, RowOps
<1>3. CASE map = NONE
  BY <1>1, <1>2, <1>3 DEF apply_match_edit, Bump
<1>4. CASE map # NONE
  <2>1. apply_match_edit(r, map)
          = [q EXCEPT !.corrected_map_name = map, !.game_mode = map]
    BY <1>1, <1>4 DEF apply_match_edit
  <2>2. [q EXCEPT !.corrected_map_name = map, !.game_mode = map]
          \in PersonalMatch
    BY <1>4 DEF PersonalMatch
  <2>3. LET e == [q EXCEPT !.corrected_map_name = map, !.game_mode = map]
        IN  e.sync_rev = q.sync_rev /\ e.synced = q.synced
              /\ e.decided = q.decided
    BY DEF PersonalMatch
  <2> QED BY <1>2, <2>1, <2>2, <2>3 DEF Bump
<1> QED BY <1>3, <1>4

\* One row of a member's edit: written and queued again, if it is there.
LEMMA EditRows ==
    ASSUME TypeOK, TaskInv, EditRow
    PROVE  /\ rows' \in Rows
           /\ \A t \in Sessions, i \in Snaps :
                 IF t = cmd.s /\ i = Min(cmd.todo) /\ rows[t][i] # NONE
                 THEN /\ rows'[t][i] # NONE
                      /\ Bump(rows[t][i], rows'[t][i])
                      /\ rows'[t][i].decided = rows[t][i].decided
                 ELSE rows'[t][i] = rows[t][i]
<1>1. cmd.s \in Sessions /\ cmd.map \in Maps \cup {NONE}
  BY DEF EditRow, TaskInv, TypeOK, CmdType
<1>2. PICK s \in Sessions : s = cmd.s
  BY <1>1
<1>3. PICK map \in Maps \cup {NONE} : map = cmd.map
  BY <1>1
<1>4. PICK i \in Snaps : i = Min(cmd.todo)
  BY SnapsBounds DEF EditRow, TypeOK, CmdType
<1>5. PICK v : v = IF rows[s][i] = NONE THEN NONE
                   ELSE apply_match_edit(rows[s][i], map)
  OBVIOUS
<1>6. rows' = [rows EXCEPT ![s][i] = v]
  BY <1>2, <1>3, <1>4, <1>5, Zenon DEF EditRow
<1>7. \/ v = NONE /\ rows[s][i] = NONE
      \/ /\ rows[s][i] # NONE
         /\ v \in PersonalMatch
         /\ Bump(rows[s][i], v)
         /\ v.decided = rows[s][i].decided
  BY <1>5, RowAt, EditedRow
<1>8. /\ rows' \in Rows
      /\ \A t \in Sessions, j \in Snaps :
            rows'[t][j] = IF t = s /\ j = i THEN v ELSE rows[t][j]
  <2>1. v \in PersonalMatch \cup {NONE}
    BY <1>7
  <2> QED BY ZenonT(60), <1>6, <2>1, CellWritten
<1> QED BY <1>2, <1>4, <1>7, <1>8, NoneAssumption

\* The CREATE of a snapshot.
LEMMA CreatedRows ==
    ASSUME TypeOK, TaskInv, InsertCreate
    PROVE  /\ rows' \in Rows
           /\ \A t \in Sessions, i \in Snaps :
                 IF Creating(t, i)
                 THEN rows'[t][i] # NONE /\ rows'[t][i].synced = FALSE
                 ELSE rows'[t][i] = rows[t][i]
<1>1. /\ capture.s \in Sessions /\ capture.i \in Snaps
      /\ capture.map \in Maps /\ capture.decided \in BOOLEAN
  BY DEF InsertCreate, TaskInv, TypeOK, CaptureType
<1>2. PICK s \in Sessions, i \in Snaps : s = capture.s /\ i = capture.i
  BY <1>1
<1>3. PICK v : v = [sync_rev |-> 0, synced |-> FALSE, upload_reject |-> FALSE,
                    decided |-> capture.decided, map_name |-> capture.map,
                    game_mode |-> capture.map, corrected_map_name |-> NONE]
  OBVIOUS
<1>4. v \in PersonalMatch /\ v.synced = FALSE
  BY <1>1, <1>3 DEF PersonalMatch
<1>5. rows' = [rows EXCEPT ![s][i] = v]
  BY <1>2, <1>3, Zenon DEF InsertCreate
<1>6. /\ rows' \in Rows
      /\ \A t \in Sessions, j \in Snaps :
            rows'[t][j] = IF t = s /\ j = i THEN v ELSE rows[t][j]
  <2>1. v \in PersonalMatch \cup {NONE}
    BY <1>4
  <2> QED BY ZenonT(60), <1>5, <2>1, CellWritten
<1>7. capture.pc = "create"
  BY DEF InsertCreate
<1> QED BY <1>2, <1>4, <1>6, <1>7, NoneAssumption DEF Creating

\* The second look: the inserted row goes, or nothing changes.
LEMMA RecheckedRows ==
    ASSUME TypeOK, TaskInv, drop_if_deleted_meanwhile
    PROVE  /\ rows' \in Rows
           /\ \A t \in Sessions, i \in Snaps :
                 IF capture.s \in deletedHere /\ t = capture.s /\ i = capture.i
                 THEN rows'[t][i] = NONE
                 ELSE rows'[t][i] = rows[t][i]
<1>1. capture.s \in Sessions /\ capture.i \in Snaps
  BY DEF drop_if_deleted_meanwhile, TaskInv, TypeOK, CaptureType
<1>2. PICK s \in Sessions, i \in Snaps : s = capture.s /\ i = capture.i
  BY <1>1
<1>3. CASE s \in deletedHere
  <2>1. rows' = [rows EXCEPT ![s][i] = NONE]
    BY <1>2, <1>3, Zenon DEF drop_if_deleted_meanwhile
  <2>2. PICK v \in PersonalMatch \cup {NONE} : v = NONE
    OBVIOUS
  <2>3. /\ rows' \in Rows
        /\ \A t \in Sessions, j \in Snaps :
              rows'[t][j] = IF t = s /\ j = i THEN v ELSE rows[t][j]
    BY ZenonT(60), <2>1, <2>2, CellWritten
  <2> QED BY <1>2, <1>3, <2>2, <2>3
<1>4. CASE s \notin deletedHere
  BY <1>2, <1>4 DEF drop_if_deleted_meanwhile, TypeOK, Rows
<1> QED BY <1>3, <1>4

\* The delete's transaction.
LEMMA DeletedRows ==
    ASSUME TypeOK, TaskInv, DeleteCommit
    PROVE  /\ rows' \in Rows
           /\ cmd.s \in Sessions
           /\ \A t \in Sessions, i \in Snaps :
                 rows'[t][i] = IF t = cmd.s THEN NONE ELSE rows[t][i]
<1>1. PICK s \in Sessions : s = cmd.s
  BY DEF DeleteCommit, TaskInv, TypeOK, CmdType
<1>2. PICK g : g = [i \in Snaps |-> NONE]
  OBVIOUS
<1>3. g \in [Snaps -> PersonalMatch \cup {NONE}]
  BY <1>2
<1>4. rows' = [rows EXCEPT ![s] = g]
  BY <1>1, <1>2 DEF DeleteCommit
<1>5. /\ rows' \in Rows
      /\ \A t \in Sessions, i \in Snaps :
            rows'[t][i] = IF t = s THEN g[i] ELSE rows[t][i]
  BY <1>3, <1>4, SessionWritten
<1> QED BY <1>1, <1>2, <1>5

\* The compare and swap of a mark.
LEMMA CasRows ==
    ASSUME TypeOK, NEW c \in Claims, NEW mark \in BOOLEAN,
           cas_set_synced(c, mark)
    PROVE  /\ rows' \in Rows
           /\ \A t \in Sessions, i \in Snaps :
                 \/ rows'[t][i] = rows[t][i]
                 \/ /\ rows[t][i] # NONE /\ rows'[t][i] # NONE
                    /\ \/ Stay(rows[t][i], rows'[t][i])
                       \/ /\ mark
                          /\ CasHit(c) /\ c = Claim(t, i, rows[t][i].sync_rev)
                          /\ Stay([rows[t][i] EXCEPT !.synced = TRUE],
                                  rows'[t][i])
<1>1. c.s \in Sessions /\ c.i \in Snaps /\ c.sync_rev \in Nat
        /\ c = Claim(c.s, c.i, c.sync_rev)
  BY DEF Claims, Claim
<1>2. CASE ~CasHit(c)
  BY <1>2 DEF cas_set_synced, TypeOK, Rows
<1>3. CASE CasHit(c)
  <2>1. PICK s \in Sessions, i \in Snaps : s = c.s /\ i = c.i
    BY <1>1
  <2>2. PICK r \in PersonalMatch : r = rows[s][i]
    BY <1>3, <2>1, RowAt DEF CasHit
  <2>3. PICK v : v = [r EXCEPT !.synced = mark]
    OBVIOUS
  <2>4. v \in PersonalMatch
    BY <2>3 DEF PersonalMatch
  <2>5. rows' = [rows EXCEPT ![s][i] = v]
    BY <1>3, <2>1, <2>2, <2>3, Zenon DEF cas_set_synced
  <2>6. /\ rows' \in Rows
        /\ \A t \in Sessions, j \in Snaps :
              rows'[t][j] = IF t = s /\ j = i THEN v ELSE rows[t][j]
    <3>1. v \in PersonalMatch \cup {NONE}
      BY <2>4
    <3> QED BY ZenonT(60), <2>5, <3>1, CellWritten
  <2>7. CASE mark = TRUE
    <3>1. Stay([r EXCEPT !.synced = TRUE], v)
      BY <2>3, <2>7 DEF PersonalMatch, Stay
    <3>2. c = Claim(s, i, r.sync_rev)
      BY <1>1, <1>3, <2>1, <2>2 DEF CasHit
    <3> QED BY <1>3, <2>2, <2>4, <2>6, <2>7, <3>1, <3>2, NoneAssumption
  <2>8. CASE mark = FALSE
    <3>1. Stay(r, v)
      BY <2>3, <2>8 DEF PersonalMatch, Stay
    <3> QED BY <2>2, <2>4, <2>6, <3>1, NoneAssumption
  <2> QED BY <2>7, <2>8
<1> QED BY <1>2, <1>3

\* The quarantine marks no row and queues none again.
LEMMA QuarantinedRows ==
    ASSUME TypeOK, quarantine_upload
    PROVE  /\ rows' \in Rows
           /\ \A t \in Sessions, i \in Snaps :
                 \/ rows'[t][i] = rows[t][i]
                 \/ /\ rows[t][i] # NONE /\ rows'[t][i] # NONE
                    /\ Stay(rows[t][i], rows'[t][i])
<1>1. \A t \in Sessions, i \in Snaps :
          rows[t][i] # NONE =>
             /\ [rows[t][i] EXCEPT !.upload_reject = TRUE] \in PersonalMatch
             /\ Stay(rows[t][i], [rows[t][i] EXCEPT !.upload_reject = TRUE])
  <2> SUFFICES ASSUME NEW t \in Sessions, NEW i \in Snaps, rows[t][i] # NONE
               PROVE  /\ [rows[t][i] EXCEPT !.upload_reject = TRUE]
                             \in PersonalMatch
                      /\ Stay(rows[t][i],
                              [rows[t][i] EXCEPT !.upload_reject = TRUE])
    OBVIOUS
  <2>1. PICK r \in PersonalMatch : r = rows[t][i]
    BY RowAt
  <2>2. [r EXCEPT !.upload_reject = TRUE] \in PersonalMatch
    BY DEF PersonalMatch
  <2>3. Stay(r, [r EXCEPT !.upload_reject = TRUE])
    BY DEF PersonalMatch, Stay
  <2> QED BY <2>1, <2>2, <2>3
<1>2. PICK Hit :
          /\ rows' = [s \in Sessions |-> [i \in Snaps |->
                IF <<s, i>> \in Hit
                THEN [rows[s][i] EXCEPT !.upload_reject = TRUE]
                ELSE rows[s][i]]]
          /\ \A s \in Sessions, i \in Snaps :
                <<s, i>> \in Hit => rows[s][i] # NONE
  <2>1. PICK Hit : Hit = {x \in Sessions \X Snaps :
              /\ rows[x[1]][x[2]] # NONE
              /\ ~rows[x[1]][x[2]].synced
              /\ \E c \in claims_covering(pass.rej) :
                    c.s = x[1] /\ c.i = x[2] /\ CasHit(c)}
    OBVIOUS
  <2>2. \A s \in Sessions, i \in Snaps :
            <<s, i>> \in Hit
            <=> /\ rows[s][i] # NONE
                /\ ~rows[s][i].synced
                /\ \E c \in claims_covering(pass.rej) :
                      c.s = s /\ c.i = i /\ CasHit(c)
    BY <2>1
  <2> HIDE DEF claims_covering, CasHit
  <2>3. rows' = [s \in Sessions |-> [i \in Snaps |->
                IF <<s, i>> \in Hit
                THEN [rows[s][i] EXCEPT !.upload_reject = TRUE]
                ELSE rows[s][i]]]
    BY <2>2 DEF quarantine_upload
  <2>4. \A s \in Sessions, i \in Snaps : <<s, i>> \in Hit => rows[s][i] # NONE
    BY <2>2
  <2> QED BY <2>3, <2>4, Zenon
<1>3. \A t \in Sessions, i \in Snaps :
          rows'[t][i] = IF <<t, i>> \in Hit
                        THEN [rows[t][i] EXCEPT !.upload_reject = TRUE]
                        ELSE rows[t][i]
  BY <1>2
<1>4. \A t \in Sessions, i \in Snaps :
          rows'[t][i] \in PersonalMatch \cup {NONE}
  BY <1>1, <1>2, <1>3, RowAt
<1>5. rows' \in Rows
  BY <1>2, <1>3, <1>4 DEF Rows
<1> QED BY <1>1, <1>2, <1>3, <1>5, NoneAssumption

-----------------------------------------------------------------------------
(* How a step moves the table on, and what of the claims it keeps. *)

\* The row was created, kept, queued again or removed.
RowStep(s, i) ==
    \/ rows'[s][i] = NONE
    \/ /\ rows[s][i] = NONE
       /\ Creating(s, i)
       /\ capture'.pc # "create"
       /\ ~rows'[s][i].synced
    \/ /\ rows[s][i] # NONE
       /\ \/ Bump(rows[s][i], rows'[s][i])
          \/ Stay(rows[s][i], rows'[s][i])
          \/ /\ Stay([rows[s][i] EXCEPT !.synced = TRUE], rows'[s][i])
             /\ Fine(Claim(s, i, rows[s][i].sync_rev))

\* A result is taken back from all the rows of a session or from none.
UndecideStep(s) ==
    \/ \A i \in Snaps :
          rows[s][i] # NONE /\ rows'[s][i] # NONE
          => (rows[s][i].decided => rows'[s][i].decided)
    \/ \A i \in Snaps :
          rows[s][i] # NONE /\ rows'[s][i] # NONE
          => Bump(rows[s][i], rows'[s][i])

\* A step of the store.
StoreStep ==
    /\ taken \subseteq taken'
    /\ sent \subseteq sent'
    /\ \A s \in Sessions, i \in Snaps :
          /\ Creating(s, i)' => Creating(s, i) \/ <<s, i>> \notin taken
          /\ RowStep(s, i)
    /\ \A s \in Sessions : UndecideStep(s)

\* Where the row still has its revision, it has its payload.
LEMMA SameRow ==
    ASSUME TypeOK, rows' \in Rows, StoreStep,
           NEW s \in Sessions, NEW i \in Snaps,
           rows[s][i] # NONE, rows'[s][i] # NONE,
           NEW rev \in Nat,
           rows'[s][i].sync_rev = rev, rev <= rows[s][i].sync_rev
    PROVE  /\ rows[s][i].sync_rev = rev
           /\ rows'[s][i].decided = rows[s][i].decided
           /\ row_is_local_only(rows'[s][i]) <=> row_is_local_only(rows[s][i])
           /\ ~Bump(rows[s][i], rows'[s][i])
<1>1. PICK r \in PersonalMatch : r = rows[s][i]
  BY RowAt
<1>2. PICK q \in PersonalMatch : q = rows'[s][i]
  BY DEF Rows
<1>3. r.sync_rev \in Nat /\ q.sync_rev = rev /\ rev <= r.sync_rev
  BY <1>1, <1>2 DEF PersonalMatch
<1>4. ~Bump(r, q)
  BY <1>3 DEF Bump
<1>5. Stay(r, q) \/ Stay([r EXCEPT !.synced = TRUE], q)
  BY <1>1, <1>2, <1>4, Zenon DEF StoreStep, RowStep
<1>6. /\ q.sync_rev = r.sync_rev
      /\ q.decided = r.decided
      /\ q.map_name = r.map_name
      /\ q.game_mode = r.game_mode
      /\ q.corrected_map_name = r.corrected_map_name
  BY <1>5 DEF Stay, PersonalMatch
<1>7. row_is_local_only(q) <=> row_is_local_only(r)
  BY <1>6 DEF row_is_local_only, stats_row_is_tracked, display_map_name
<1> QED BY <1>1, <1>2, <1>3, <1>4, <1>6, <1>7

\* A snapshot that was in the table and is gone stays gone.
LEMMA LostStays ==
    ASSUME StoreStep, NEW s \in Sessions, NEW j \in Snaps, Lost(s, j)
    PROVE  Lost(s, j)'
<1>1. rows'[s][j] = NONE
  BY DEF Lost, StoreStep, RowStep
<1>2. <<s, j>> \in taken' /\ ~Creating(s, j)'
  BY DEF Lost, StoreStep
<1> QED BY <1>1, <1>2 DEF Lost

\* A snapshot that leaves the table is lost.
LEMMA RemovedIsLost ==
    ASSUME StoreStep, RowInv, NEW s \in Sessions, NEW j \in Snaps,
           rows[s][j] # NONE, rows'[s][j] = NONE
    PROVE  Lost(s, j)'
<1>1. <<s, j>> \in taken /\ ~Creating(s, j)
  BY DEF RowInv
<1>2. <<s, j>> \in taken' /\ ~Creating(s, j)'
  BY <1>1 DEF StoreStep
<1> QED BY <1>2 DEF Lost

\* A later snapshot goes on deciding what the site shows, as long as the row
\* has its revision.
LEMMA CoverStays ==
    ASSUME TypeOK, rows' \in Rows, StoreStep, RowInv,
           NEW s \in Sessions, NEW i \in Snaps,
           rows[s][i] # NONE, rows'[s][i] # NONE,
           ~Bump(rows[s][i], rows'[s][i]),
           Covered(s, i)
    PROVE  Covered(s, i)'
<1>1. PICK j \in Snaps : /\ j > i
                         /\ \/ Lost(s, j)
                            \/ rows[s][j] # NONE /\ rows[s][j].decided
  BY DEF Covered
<1>2. CASE Lost(s, j)
  BY <1>1, <1>2, LostStays DEF Covered
<1>3. CASE rows[s][j] # NONE /\ rows[s][j].decided /\ rows'[s][j] = NONE
  BY <1>1, <1>3, RemovedIsLost DEF Covered
<1>4. CASE rows[s][j] # NONE /\ rows[s][j].decided /\ rows'[s][j] # NONE
  <2>1. UndecideStep(s)
    BY DEF StoreStep
  <2>2. rows'[s][j].decided
    BY <1>4, <2>1 DEF UndecideStep
  <2> QED BY <1>1, <1>4, <2>2 DEF Covered
<1> QED BY <1>1, <1>2, <1>3, <1>4

\* A claim stays a claim on the past, and one that may be marked stays one.
LEMMA ClaimStays ==
    ASSUME TypeOK, rows' \in Rows, StoreStep, RowInv,
           NEW c \in Claims, Old(c)
    PROVE  Old(c)' /\ (Fine(c) => Fine(c)')
<1>1. PICK s \in Sessions, i \in Snaps, rev \in Nat :
          s = c.s /\ i = c.i /\ rev = c.sync_rev
  BY DEF Claims
<1>2. <<s, i>> \in taken /\ ~Creating(s, i)
  BY <1>1 DEF Old
<1>3. <<s, i>> \in taken' /\ ~Creating(s, i)'
  BY <1>2 DEF StoreStep
<1>4. ASSUME rows'[s][i] # NONE
      PROVE  /\ rows[s][i] # NONE
             /\ rev <= rows[s][i].sync_rev
             /\ rev <= rows'[s][i].sync_rev
  <2>1. RowStep(s, i)
    BY DEF StoreStep
  <2>2. rows[s][i] # NONE
    BY <1>2, <1>4, <2>1 DEF RowStep
  <2>3. rev <= rows[s][i].sync_rev
    BY <1>1, <2>2 DEF Old
  <2>4. PICK r \in PersonalMatch : r = rows[s][i]
    BY <2>2, RowAt
  <2>5. PICK q \in PersonalMatch : q = rows'[s][i]
    BY <1>4 DEF Rows
  <2>6. Bump(r, q) \/ Stay(r, q) \/ Stay([r EXCEPT !.synced = TRUE], q)
    BY <1>4, <2>1, <2>2, <2>4, <2>5, Zenon DEF RowStep
  <2>7. q.sync_rev >= r.sync_rev
    BY <2>6 DEF Bump, Stay, PersonalMatch
  <2>8. r.sync_rev \in Nat /\ q.sync_rev \in Nat
    BY DEF PersonalMatch
  <2> QED BY <2>2, <2>3, <2>4, <2>5, <2>7, <2>8
<1>5. Old(c)'
  BY <1>1, <1>3, <1>4 DEF Old
<1>6. ASSUME Fine(c), CasHit(c)'
      PROVE  \/ ~rows'[s][i].decided
             \/ row_is_local_only(rows'[s][i])
             \/ Covered(s, i)'
             \/ c \in sent'
  <2>1. rows'[s][i] # NONE /\ rows'[s][i].sync_rev = rev
    BY <1>1, <1>6 DEF CasHit
  <2>2. rows[s][i] # NONE /\ rev <= rows[s][i].sync_rev
    BY <1>4, <2>1
  <2>3. /\ rows[s][i].sync_rev = rev
        /\ rows'[s][i].decided = rows[s][i].decided
        /\ row_is_local_only(rows'[s][i]) <=> row_is_local_only(rows[s][i])
        /\ ~Bump(rows[s][i], rows'[s][i])
    BY <2>1, <2>2, SameRow
  <2>4. CasHit(c)
    BY <1>1, <2>2, <2>3 DEF CasHit
  <2>5. \/ ~rows[s][i].decided
        \/ row_is_local_only(rows[s][i])
        \/ Covered(s, i)
        \/ c \in sent
    BY <1>1, <1>6, <2>4 DEF Fine
  <2>6. Covered(s, i) => Covered(s, i)'
    BY <2>1, <2>2, <2>3, CoverStays
  <2> QED BY <2>3, <2>5, <2>6 DEF StoreStep
<1>7. Fine(c) => Fine(c)'
  BY <1>1, <1>6 DEF Fine
<1> QED BY <1>5, <1>7

\* A snapshot is still inserted once.
LEMMA RowInvStep ==
    ASSUME TaskInv, RowInv, StoreStep
    PROVE  RowInv'
<1> SUFFICES ASSUME NEW s \in Sessions, NEW i \in Snaps
             PROVE  /\ rows'[s][i] # NONE => <<s, i>> \in taken'
                    /\ Creating(s, i)' => rows'[s][i] = NONE
  BY DEF RowInv
<1>1. RowStep(s, i) /\ taken \subseteq taken'
        /\ (Creating(s, i)' => Creating(s, i) \/ <<s, i>> \notin taken)
  BY DEF StoreStep
<1>2. Creating(s, i) => <<s, i>> \in taken
  BY DEF TaskInv, Creating
<1>3. /\ rows[s][i] # NONE => <<s, i>> \in taken
      /\ Creating(s, i) => rows[s][i] = NONE
  BY DEF RowInv
<1>4. rows'[s][i] # NONE => <<s, i>> \in taken'
  BY <1>1, <1>2, <1>3 DEF RowStep
<1>5. Creating(s, i)' => capture'.pc = "create"
  BY DEF Creating
<1>6. Creating(s, i)' => rows'[s][i] = NONE
  BY <1>1, <1>2, <1>3, <1>5 DEF RowStep
<1> QED BY <1>4, <1>6

\* Every mark is still on a row that may have one.
LEMMA SyncedStep ==
    ASSUME TypeOK, rows' \in Rows, RowInv, StoreStep, SyncedInv
    PROVE  SyncedInv'
<1> SUFFICES ASSUME NEW c \in Claims, CasHit(c)', rows'[c.s][c.i].synced
             PROVE  Fine(c)'
  BY DEF SyncedInv
<1>1. PICK s \in Sessions, i \in Snaps, rev \in Nat :
          s = c.s /\ i = c.i /\ rev = c.sync_rev
  BY DEF Claims
<1>2. rows'[s][i] # NONE /\ rows'[s][i].sync_rev = rev /\ rows'[s][i].synced
  BY <1>1 DEF CasHit
<1>3. RowStep(s, i)
  BY DEF StoreStep
<1>4. rows[s][i] # NONE
  BY <1>2, <1>3 DEF RowStep
<1>5. PICK r \in PersonalMatch : r = rows[s][i]
  BY <1>4, RowAt
<1>6. PICK q \in PersonalMatch : q = rows'[s][i]
  BY <1>2 DEF Rows
<1>7. \/ Stay(r, q)
      \/ /\ Stay([r EXCEPT !.synced = TRUE], q)
         /\ Fine(Claim(s, i, r.sync_rev))
  BY <1>2, <1>3, <1>4, <1>5, <1>6 DEF RowStep, Bump
<1>8. q.sync_rev = r.sync_rev
  BY <1>7 DEF Stay, PersonalMatch
<1>9. CasHit(c)
  BY <1>1, <1>2, <1>4, <1>5, <1>6, <1>8 DEF CasHit
<1>10. c = Claim(s, i, r.sync_rev)
  BY <1>1, <1>2, <1>6, <1>8 DEF Claim, Claims
<1>11. Fine(c)
  <2>1. CASE Stay(r, q)
    <3>1. r.synced
      BY <1>2, <1>6, <2>1 DEF Stay
    <3> QED BY <1>1, <1>5, <1>9, <3>1 DEF SyncedInv
  <2> QED BY <1>7, <1>10, <2>1
<1>12. Old(c)
  <2>1. <<s, i>> \in taken /\ ~Creating(s, i)
    BY <1>4 DEF RowInv
  <2>2. rev <= r.sync_rev
    BY <1>2, <1>6, <1>8 DEF PersonalMatch
  <2> QED BY <1>1, <1>5, <2>1, <2>2 DEF Old
<1> QED BY <1>11, <1>12, ClaimStays

\* The pass's claims are still good after a step, if those it goes on with
\* were good before it.
LEMMA ClaimInvStep ==
    ASSUME TypeOK, rows' \in Rows, RowInv, StoreStep,
           NEW p \in PassType, pass' = p, ClaimsOK(p), p.acc \subseteq sent'
    PROVE  ClaimInv'
<1>1. /\ p.local \subseteq Claims /\ p.send \subseteq Claims
      /\ p.upload \subseteq Claims /\ p.todo \subseteq Claims
      /\ p.marked \subseteq Claims
  BY DEF PassType
<1>2. \A c \in Claims : Old(c) => Old(c)' /\ (Fine(c) => Fine(c)')
  BY ClaimStays
<1>3. \A c \in p.local \cup p.send \cup p.upload \cup p.todo \cup p.marked :
          c \in Claims /\ Old(c)
  BY <1>1 DEF ClaimsOK
<1>4. \A c \in p.local \cup p.todo \cup p.marked : Fine(c)
  BY DEF ClaimsOK
<1>5. \A c \in p.send, u \in p.upload : c.s = u.s => c = u \/ Fine(c)
  BY DEF ClaimsOK
<1>6. /\ \A c \in p.local \cup p.send \cup p.upload
                    \cup p.todo \cup p.marked : Old(c)'
      /\ \A c \in p.local \cup p.todo \cup p.marked : Fine(c)'
      /\ \A c \in p.send, u \in p.upload : c.s = u.s => c = u \/ Fine(c)'
  BY <1>2, <1>3, <1>4, <1>5
<1>7. p.acc \subseteq p.upload /\ (p.acc # {} => p.pc \in Answered)
  BY DEF ClaimsOK
<1> QED BY <1>6, <1>7 DEF ClaimInv, ClaimsOK

-----------------------------------------------------------------------------
(* One lemma per kind of step. *)

\* A step that writes rows without creating or removing one, and takes no
\* result back.
LEMMA RowsOnly ==
    ASSUME TypeOK, rows' \in Rows, taken \subseteq taken', sent \subseteq sent',
           \A s \in Sessions, i \in Snaps :
              Creating(s, i)' => Creating(s, i) \/ <<s, i>> \notin taken,
           \A s \in Sessions, i \in Snaps :
              \/ rows'[s][i] = rows[s][i]
              \/ /\ rows[s][i] # NONE
                 /\ \/ Stay(rows[s][i], rows'[s][i])
                    \/ /\ Bump(rows[s][i], rows'[s][i])
                       /\ rows'[s][i].decided = rows[s][i].decided
                    \/ /\ Stay([rows[s][i] EXCEPT !.synced = TRUE], rows'[s][i])
                       /\ Fine(Claim(s, i, rows[s][i].sync_rev))
    PROVE  StoreStep
<1>1. ASSUME NEW s \in Sessions, NEW i \in Snaps
      PROVE  /\ RowStep(s, i)
             /\ rows[s][i] # NONE /\ rows'[s][i] # NONE
                => rows'[s][i].decided = rows[s][i].decided
  <2>1. CASE rows'[s][i] = rows[s][i]
    BY <2>1 DEF RowStep, Stay
  <2>2. CASE rows'[s][i] # rows[s][i]
    <3>1. rows[s][i] # NONE
      BY <2>2
    <3>2. PICK r \in PersonalMatch : r = rows[s][i]
      BY <3>1, RowAt
    <3>3. [r EXCEPT !.synced = TRUE].decided = r.decided
      BY DEF PersonalMatch
    <3>4. \/ Stay(r, rows'[s][i])
          \/ /\ Bump(r, rows'[s][i])
             /\ rows'[s][i].decided = r.decided
          \/ /\ Stay([r EXCEPT !.synced = TRUE], rows'[s][i])
             /\ Fine(Claim(s, i, r.sync_rev))
      BY <2>2, <3>2
    <3>5. rows'[s][i].decided = r.decided
      BY <3>3, <3>4 DEF Stay
    <3>6. RowStep(s, i)
      BY <3>1, <3>2, <3>4 DEF RowStep
    <3> QED BY <3>2, <3>5, <3>6
  <2> QED BY <2>1, <2>2
<1>2. \A s \in Sessions : UndecideStep(s)
  BY <1>1 DEF UndecideStep
<1> QED BY <1>1, <1>2 DEF StoreStep

\* A step that leaves the rows alone.
LEMMA RowsAlone ==
    ASSUME TypeOK, rows' = rows, taken \subseteq taken', sent \subseteq sent',
           \A s \in Sessions, i \in Snaps :
              Creating(s, i)' => Creating(s, i) \/ <<s, i>> \notin taken
    PROVE  rows' \in Rows /\ StoreStep
<1>1. rows' \in Rows
  BY DEF TypeOK, Rows
<1> QED BY <1>1, RowsOnly

\* A step of the other tasks leaves the pass and its claims alone.
LEMMA PassAlone ==
    ASSUME TypeOK, rows' \in Rows, RowInv, StoreStep, ClaimInv, pass' = pass
    PROVE  ClaimInv'
<1>1. PICK p \in PassType : p = pass
  BY DEF TypeOK
<1>2. ClaimsOK(p) /\ p.acc \subseteq sent'
  BY <1>1 DEF ClaimInv, StoreStep
<1> QED BY <1>1, <1>2, ClaimInvStep

\* Nothing announces or inserts a snapshot.
LEMMA CaptureAlone ==
    ASSUME capture' = capture
    PROVE  \A s \in Sessions, i \in Snaps :
              Creating(s, i)' => Creating(s, i) \/ <<s, i>> \notin taken
BY DEF Creating

\* A step that puts no row of a deleted game into the table.
LEMMA DeletedAlone ==
    ASSUME DeletedInv, deletedHere' \subseteq deletedHere, gone' = gone,
           capture' = capture,
           \A s \in gone' \cap deletedHere' :
              cmd.s = s /\ cmd.newly => cmd'.s = s /\ cmd'.newly,
           \A s \in Sessions, i \in Snaps :
              rows'[s][i] # NONE => rows[s][i] # NONE,
           gone \subseteq Sessions
    PROVE  DeletedInv'
BY DEF DeletedInv

\* What the steps have to show, put together.
LEMMA Together ==
    ASSUME IInv, TypeOK', TaskInv', StoreStep, ClaimInv', DeletedInv'
    PROVE  IInv'
<1>1. rows' \in Rows
  BY DEF TypeOK, Rows
<1>2. RowInv'
  BY RowInvStep DEF IInv
<1>3. SyncedInv'
  BY <1>1, SyncedStep DEF IInv
<1> QED BY <1>2, <1>3 DEF IInv

-----------------------------------------------------------------------------
(* The capture task. *)

\* insert_match reads deleted_here and the outcome.
LEMMA InsertCheckStep ==
    ASSUME IInv, NEW s \in Sessions, NEW i \in Snaps, NEW map \in CapturedMaps,
           InsertCheck(s, i, map)
    PROVE  IInv'
<1> USE DEF IInv
<1>1. /\ rows' = rows /\ final' = final /\ tombs' = tombs
      /\ deletedHere' = deletedHere /\ cmd' = cmd /\ pass' = pass
      /\ site' = site /\ gone' = gone /\ sent' = sent
      /\ edits' = edits /\ faults' = faults
      /\ taken' = taken \cup {<<s, i>>} /\ <<s, i>> \notin taken
      /\ capture.pc = "idle"
      /\ capture' = [pc |-> "create", s |-> s, i |-> i, decided |-> final[s],
                     map |-> map]
  BY DEF InsertCheck, store, bounds
<1>2. map \in Maps
  BY StatSyncAssumption DEF Maps
<1>3. capture' \in CaptureType
  BY <1>1, <1>2 DEF CaptureType, TypeOK
<1>4. TypeOK'
  BY <1>1, <1>3 DEF TypeOK
<1>5. TaskInv'
  BY <1>1, <1>2, NoneApart DEF TaskInv
<1>6. StoreStep
  <2>1. \A t \in Sessions, j \in Snaps :
            Creating(t, j)' => Creating(t, j) \/ <<t, j>> \notin taken
    BY <1>1 DEF Creating
  <2> QED BY <1>1, <2>1, RowsAlone
<1>7. ClaimInv'
  BY <1>1, <1>6, PassAlone DEF TypeOK, Rows
<1>8. DeletedInv'
  BY <1>1 DEF DeletedInv
<1> QED BY <1>4, <1>5, <1>6, <1>7, <1>8, Together

\* The CREATE of insert_match.
LEMMA InsertCreateStep ==
    ASSUME IInv, InsertCreate
    PROVE  IInv'
<1> USE DEF IInv
<1>1. /\ final' = final /\ tombs' = tombs
      /\ deletedHere' = deletedHere /\ cmd' = cmd /\ pass' = pass
      /\ site' = site /\ taken' = taken /\ gone' = gone /\ sent' = sent
      /\ edits' = edits /\ faults' = faults
      /\ capture.pc = "create"
      /\ capture' = [capture EXCEPT !.pc = "recheck"]
  BY DEF InsertCreate, history, bounds
<1>2. /\ rows' \in Rows
      /\ \A t \in Sessions, j \in Snaps :
            IF Creating(t, j)
            THEN rows'[t][j] # NONE /\ rows'[t][j].synced = FALSE
            ELSE rows'[t][j] = rows[t][j]
  BY CreatedRows
<1>3. /\ capture' \in CaptureType /\ capture'.pc = "recheck"
      /\ capture'.s = capture.s /\ capture'.i = capture.i
      /\ capture'.map = capture.map
  BY <1>1 DEF CaptureType, TypeOK
<1>4. TypeOK'
  BY <1>1, <1>2, <1>3 DEF TypeOK, Rows
<1>5. TaskInv'
  BY <1>1, <1>3 DEF TaskInv
<1>6. StoreStep
  <2>1. ASSUME NEW t \in Sessions, NEW j \in Snaps
        PROVE  /\ RowStep(t, j)
               /\ rows[t][j] # NONE => rows'[t][j] = rows[t][j]
               /\ ~Creating(t, j)'
    <3>1. ~Creating(t, j)'
      BY <1>3 DEF Creating
    <3>2. CASE Creating(t, j)
      <4>1. rows[t][j] = NONE
        BY <3>2 DEF RowInv
      <4> QED BY <1>2, <1>3, <3>1, <3>2, <4>1 DEF RowStep
    <3>3. CASE ~Creating(t, j)
      BY <1>2, <3>1, <3>3 DEF RowStep, Stay
    <3> QED BY <3>2, <3>3
  <2>2. \A t \in Sessions : UndecideStep(t)
    BY <2>1 DEF UndecideStep
  <2> QED BY <1>1, <2>1, <2>2 DEF StoreStep
<1>7. ClaimInv'
  BY <1>1, <1>2, <1>6, PassAlone
<1>8. DeletedInv'
  <2> SUFFICES ASSUME NEW t \in gone \cap deletedHere, NEW j \in Snaps,
                      rows'[t][j] # NONE
               PROVE  \/ cmd'.s = t /\ cmd'.newly
                      \/ capture'.pc = "recheck" /\ capture'.s = t
                            /\ capture'.i = j
    BY <1>1 DEF DeletedInv
  <2>1. t \in Sessions
    BY DEF TypeOK
  <2>2. CASE Creating(t, j)
    BY <1>3, <2>2 DEF Creating
  <2>3. CASE ~Creating(t, j)
    BY <1>1, <1>2, <2>1, <2>3 DEF DeletedInv
  <2> QED BY <2>2, <2>3
<1> QED BY <1>4, <1>5, <1>6, <1>7, <1>8, Together

\* The second look of insert_match at deleted_here.
LEMMA RecheckStep ==
    ASSUME IInv, drop_if_deleted_meanwhile
    PROVE  IInv'
<1> USE DEF IInv
<1>1. /\ final' = final /\ tombs' = tombs
      /\ deletedHere' = deletedHere /\ cmd' = cmd /\ pass' = pass
      /\ site' = site /\ taken' = taken /\ gone' = gone /\ sent' = sent
      /\ edits' = edits /\ faults' = faults
      /\ capture.pc = "recheck"
      /\ capture' = CaptureIdle
  BY DEF drop_if_deleted_meanwhile, history, bounds
<1>2. /\ rows' \in Rows
      /\ \A t \in Sessions, j \in Snaps :
            IF capture.s \in deletedHere /\ t = capture.s /\ j = capture.i
            THEN rows'[t][j] = NONE
            ELSE rows'[t][j] = rows[t][j]
  BY RecheckedRows
<1>3. /\ capture' \in CaptureType /\ capture'.pc = "idle"
      /\ capture'.s = NONE
  BY <1>1 DEF CaptureType, CaptureIdle
<1>4. TypeOK'
  BY <1>1, <1>2, <1>3 DEF TypeOK, Rows
<1>5. TaskInv'
  BY <1>1, <1>3 DEF TaskInv
<1>6. StoreStep
  <2>1. ASSUME NEW t \in Sessions, NEW j \in Snaps
        PROVE  /\ RowStep(t, j)
               /\ rows'[t][j] # NONE => rows'[t][j] = rows[t][j]
               /\ ~Creating(t, j)'
    BY <1>2, <1>3 DEF RowStep, Stay, Creating
  <2>2. \A t \in Sessions : UndecideStep(t)
    BY <2>1 DEF UndecideStep
  <2> QED BY <1>1, <2>1, <2>2 DEF StoreStep
<1>7. ClaimInv'
  BY <1>1, <1>2, <1>6, PassAlone
<1>8. DeletedInv'
  <2>1. gone \subseteq Sessions
    BY DEF TypeOK
  <2> QED BY <1>1, <1>2, <1>3, <2>1 DEF DeletedInv
<1> QED BY <1>4, <1>5, <1>6, <1>7, <1>8, Together

-----------------------------------------------------------------------------
(* The main loop. *)

\* A result back-filled or taken back.
LEMMA OutcomeStep ==
    ASSUME IInv, NEW s \in Sessions, NEW decided \in BOOLEAN,
           set_session_outcome(s, decided)
    PROVE  IInv'
<1> USE DEF IInv
<1>1. /\ final' = [final EXCEPT ![s] = decided] /\ tombs' = tombs
      /\ deletedHere' = deletedHere /\ capture' = capture /\ cmd' = cmd
      /\ pass' = pass /\ site' = site /\ taken' = taken /\ gone' = gone
      /\ sent' = sent /\ faults' = faults
      /\ edits < MaxEdits /\ edits' = edits + 1
  BY DEF set_session_outcome, Backfill, history
<1>2. /\ rows' \in Rows
      /\ \A t \in Sessions, i \in Snaps :
            IF t = s /\ rows[t][i] # NONE
            THEN rows'[t][i] # NONE /\ Bump(rows[t][i], rows'[t][i])
            ELSE rows'[t][i] = rows[t][i]
  BY OutcomeRows
<1>3. TypeOK'
  <2>1. edits' \in 0 .. MaxEdits
    BY <1>1, StatSyncAssumption DEF TypeOK
  <2>2. final' \in [Sessions -> BOOLEAN]
    BY <1>1 DEF TypeOK
  <2> QED BY <1>1, <1>2, <2>1, <2>2 DEF TypeOK, Rows
<1>4. TaskInv'
  BY <1>1 DEF TaskInv
<1>5. StoreStep
  <2>1. ASSUME NEW t \in Sessions, NEW i \in Snaps
        PROVE  /\ RowStep(t, i)
               /\ t = s /\ rows[t][i] # NONE => Bump(rows[t][i], rows'[t][i])
               /\ t # s => rows'[t][i] = rows[t][i]
               /\ Creating(t, i)' => Creating(t, i)
    BY <1>1, <1>2 DEF RowStep, Stay, Creating
  <2>2. \A t \in Sessions : UndecideStep(t)
    BY <2>1 DEF UndecideStep
  <2> QED BY <1>1, <2>1, <2>2 DEF StoreStep
<1>6. ClaimInv'
  BY <1>1, <1>2, <1>5, PassAlone
<1>7. DeletedInv'
  <2>1. gone \subseteq Sessions
    BY DEF TypeOK
  <2> QED BY <1>1, <1>2, <2>1, DeletedAlone
<1> QED BY <1>3, <1>4, <1>5, <1>6, <1>7, Together

\* A step of the main loop that writes rows, takes no result back, and leaves
\* the deletes alone.
LEMMA WriteStep ==
    ASSUME IInv, rows' \in Rows,
           \A t \in Sessions, i \in Snaps :
              \/ rows'[t][i] = rows[t][i]
              \/ /\ rows[t][i] # NONE /\ rows'[t][i] # NONE
                 /\ \/ Stay(rows[t][i], rows'[t][i])
                    \/ /\ Bump(rows[t][i], rows'[t][i])
                       /\ rows'[t][i].decided = rows[t][i].decided,
           final' = final, tombs' = tombs, deletedHere' = deletedHere,
           capture' = capture, pass' = pass, site' = site, taken' = taken,
           gone' = gone, sent' = sent,
           edits' \in 0 .. MaxEdits, faults' = faults,
           cmd' \in CmdType, TaskInv',
           cmd.newly => cmd' = cmd
    PROVE  IInv'
<1> USE DEF IInv
<1>1. TypeOK'
  BY DEF TypeOK, Rows
<1>2. StoreStep
  <2>1. \A s \in Sessions, i \in Snaps :
            Creating(s, i)' => Creating(s, i) \/ <<s, i>> \notin taken
    BY CaptureAlone
  <2>2. taken \subseteq taken' /\ sent \subseteq sent'
    OBVIOUS
  <2>3. \A t \in Sessions, i \in Snaps :
              \/ rows'[t][i] = rows[t][i]
              \/ /\ rows[t][i] # NONE
                 /\ \/ Stay(rows[t][i], rows'[t][i])
                    \/ /\ Bump(rows[t][i], rows'[t][i])
                       /\ rows'[t][i].decided = rows[t][i].decided
                    \/ /\ Stay([rows[t][i] EXCEPT !.synced = TRUE], rows'[t][i])
                       /\ Fine(Claim(t, i, rows[t][i].sync_rev))
    OBVIOUS
  <2> QED BY <2>1, <2>2, <2>3, RowsOnly
<1>3. ClaimInv'
  BY <1>2, PassAlone
<1>4. DeletedInv'
  <2>1. gone \subseteq Sessions
    BY DEF TypeOK
  <2> QED BY <2>1, DeletedAlone
<1> QED BY <1>1, <1>2, <1>3, <1>4, Together

\* A map back-filled.
LEMMA MapStep ==
    ASSUME IInv, NEW s \in Sessions, NEW map \in Maps, set_session_map(s, map)
    PROVE  IInv'
<1> USE DEF IInv
<1>1. /\ final' = final /\ tombs' = tombs
      /\ deletedHere' = deletedHere /\ capture' = capture /\ cmd' = cmd
      /\ pass' = pass /\ site' = site /\ taken' = taken /\ gone' = gone
      /\ sent' = sent /\ faults' = faults
      /\ edits < MaxEdits /\ edits' = edits + 1
  BY DEF set_session_map, Backfill, history
<1>2. edits' \in 0 .. MaxEdits /\ cmd' \in CmdType
  BY <1>1, StatSyncAssumption DEF TypeOK
<1>3. TaskInv'
  BY <1>1 DEF TaskInv
<1>4. /\ rows' \in Rows
      /\ \A t \in Sessions, i \in Snaps :
            \/ rows'[t][i] = rows[t][i]
            \/ /\ rows[t][i] # NONE /\ rows'[t][i] # NONE
               /\ Bump(rows[t][i], rows'[t][i])
               /\ rows'[t][i].decided = rows[t][i].decided
  BY MapRows
<1> QED BY <1>1, <1>2, <1>3, <1>4, WriteStep

\* A retry of a quarantined session.
LEMMA ClearStep ==
    ASSUME IInv, NEW s \in Sessions, clear_upload_reject(s)
    PROVE  IInv'
<1> USE DEF IInv
<1>1. /\ final' = final /\ tombs' = tombs
      /\ deletedHere' = deletedHere /\ capture' = capture /\ cmd' = cmd
      /\ pass' = pass /\ site' = site /\ taken' = taken /\ gone' = gone
      /\ sent' = sent /\ faults' = faults /\ edits' = edits
  BY DEF clear_upload_reject, history, bounds
<1>2. edits' \in 0 .. MaxEdits /\ cmd' \in CmdType
  BY <1>1 DEF TypeOK
<1>3. TaskInv'
  BY <1>1 DEF TaskInv
<1>4. /\ rows' \in Rows
      /\ \A t \in Sessions, i \in Snaps :
            \/ rows'[t][i] = rows[t][i]
            \/ /\ rows[t][i] # NONE /\ rows'[t][i] # NONE
               /\ Stay(rows[t][i], rows'[t][i])
  BY ClearRows
<1> QED BY <1>1, <1>2, <1>3, <1>4, WriteStep

\* edit_match reads the snapshots.
LEMMA EditStartStep ==
    ASSUME IInv, NEW s \in Sessions, NEW map \in (Maps \ {"blank"}) \cup {NONE},
           EditStart(s, map)
    PROVE  IInv'
<1> USE DEF IInv
<1>1. /\ rows' = rows /\ final' = final /\ tombs' = tombs
      /\ deletedHere' = deletedHere /\ capture' = capture
      /\ pass' = pass /\ site' = site /\ taken' = taken /\ gone' = gone
      /\ sent' = sent /\ faults' = faults
      /\ edits < MaxEdits /\ edits' = edits + 1
      /\ cmd.pc = "idle"
      /\ cmd' = [cmd EXCEPT !.pc = "edit", !.s = s, !.map = map,
                            !.todo = Present(s)]
  BY DEF EditStart, history, store
<1>2. Present(s) \subseteq Snaps
  BY DEF Present
<1>3. /\ cmd' \in CmdType /\ cmd'.pc = "edit" /\ cmd'.s = s /\ cmd'.map = map
      /\ cmd'.newly = cmd.newly
  BY <1>1, <1>2 DEF TypeOK, CmdType
<1>4. ~cmd.newly
  BY <1>1 DEF TaskInv
<1>5. edits' \in 0 .. MaxEdits
  BY <1>1, StatSyncAssumption DEF TypeOK
<1>6. TaskInv'
  <2>1. map # "blank"
    BY StatSyncAssumption
  <2> QED BY <1>1, <1>3, <1>4, <2>1, NoneApart DEF TaskInv
<1>7. rows' \in Rows
  BY <1>1 DEF TypeOK, Rows
<1> QED BY <1>1, <1>3, <1>4, <1>5, <1>6, <1>7, WriteStep

\* edit_match writes a snapshot.
LEMMA EditRowStep ==
    ASSUME IInv, EditRow
    PROVE  IInv'
<1> USE DEF IInv
<1>1. /\ final' = final /\ tombs' = tombs
      /\ deletedHere' = deletedHere /\ capture' = capture
      /\ pass' = pass /\ site' = site /\ taken' = taken /\ gone' = gone
      /\ sent' = sent /\ faults' = faults /\ edits' = edits
      /\ cmd.pc = "edit"
  BY DEF EditRow, history, bounds
<1>2. ~cmd.newly
  BY <1>1 DEF TaskInv
<1>3. PICK i : i = Min(cmd.todo)
  OBVIOUS
<1>4. cmd' = IF cmd.todo = {i} THEN CmdIdle
             ELSE [cmd EXCEPT !.todo = cmd.todo \ {i}]
  BY <1>3 DEF EditRow
<1>5. CASE cmd' = CmdIdle
  <2>1. cmd' \in CmdType /\ cmd'.pc = "idle" /\ cmd'.s = NONE
           /\ cmd'.map = NONE /\ cmd'.newly = FALSE
    BY <1>5 DEF CmdIdle, CmdType
  <2>2. TaskInv'
    BY <1>1, <2>1 DEF TaskInv
  <2> QED BY <1>1, <1>2, <2>1, <2>2, EditRows, WriteStep DEF TypeOK
<1>6. CASE cmd' = [cmd EXCEPT !.todo = cmd.todo \ {i}]
  <2>1. cmd' \in CmdType /\ cmd'.pc = cmd.pc /\ cmd'.s = cmd.s
           /\ cmd'.map = cmd.map /\ cmd'.newly = cmd.newly
    BY <1>6 DEF TypeOK, CmdType
  <2>2. TaskInv'
    BY <1>1, <1>2, <2>1 DEF TaskInv
  <2> QED BY <1>1, <1>2, <2>1, <2>2, EditRows, WriteStep DEF TypeOK
<1> QED BY <1>4, <1>5, <1>6

\* A delete is marked in memory.
LEMMA DeleteMarkStep ==
    ASSUME IInv, NEW s \in Sessions, DeleteMark(s)
    PROVE  IInv'
<1> USE DEF IInv
<1>1. /\ rows' = rows /\ final' = final /\ tombs' = tombs
      /\ deletedHere' = deletedHere \cup {s} /\ capture' = capture
      /\ pass' = pass /\ site' = site /\ taken' = taken /\ gone' = gone
      /\ sent' = sent /\ faults' = faults /\ edits' = edits
      /\ cmd.pc = "idle"
      /\ cmd' = [cmd EXCEPT !.pc = "delete", !.s = s,
                            !.newly = s \notin deletedHere]
  BY DEF DeleteMark, history, store, bounds
<1>2. PICK n \in BOOLEAN : n = (s \notin deletedHere)
  OBVIOUS
<1>3. /\ cmd' \in CmdType /\ cmd'.pc = "delete" /\ cmd'.s = s
      /\ cmd'.map = cmd.map /\ cmd'.newly = n
  BY <1>1, <1>2 DEF TypeOK, CmdType
<1>4. ~cmd.newly /\ cmd.map = NONE
  BY <1>1 DEF TaskInv
<1>5. TypeOK'
  BY <1>1, <1>3 DEF TypeOK
<1>6. TaskInv'
  BY <1>1, <1>3, <1>4, NoneApart DEF TaskInv
<1>7. rows' \in Rows /\ StoreStep
  BY <1>1, CaptureAlone, RowsAlone
<1>8. ClaimInv'
  BY <1>1, <1>7, PassAlone
<1>9. DeletedInv'
  <2> SUFFICES ASSUME NEW t \in gone \cap (deletedHere \cup {s}),
                      NEW i \in Snaps, rows[t][i] # NONE
               PROVE  \/ cmd'.s = t /\ cmd'.newly
                      \/ capture.pc = "recheck" /\ capture.s = t
                            /\ capture.i = i
    BY <1>1 DEF DeletedInv
  <2>1. CASE t \in deletedHere
    BY <1>4, <2>1 DEF DeletedInv
  <2>2. CASE t \notin deletedHere
    BY <1>2, <1>3, <2>2
  <2> QED BY <2>1, <2>2
<1> QED BY <1>5, <1>6, <1>7, <1>8, <1>9, Together

\* The delete's transaction commits.
LEMMA DeleteCommitStep ==
    ASSUME IInv, DeleteCommit
    PROVE  IInv'
<1> USE DEF IInv
<1>1. /\ deletedHere' = deletedHere /\ capture' = capture
      /\ pass' = pass /\ site' = site /\ taken' = taken
      /\ sent' = sent /\ faults' = faults /\ edits' = edits
      /\ final' = [final EXCEPT ![cmd.s] = FALSE]
      /\ tombs' = tombs \cup {cmd.s}
      /\ gone' = gone \cup {cmd.s}
      /\ cmd' = CmdIdle
  BY DEF DeleteCommit, bounds
<1>2. /\ rows' \in Rows
      /\ cmd.s \in Sessions
      /\ \A t \in Sessions, i \in Snaps :
            rows'[t][i] = IF t = cmd.s THEN NONE ELSE rows[t][i]
  BY DeletedRows
<1>3. /\ cmd' \in CmdType /\ cmd'.pc = "idle" /\ cmd'.s = NONE
      /\ cmd'.map = NONE /\ cmd'.newly = FALSE
  BY <1>1 DEF CmdIdle, CmdType
<1>4. TypeOK'
  BY <1>1, <1>2, <1>3 DEF TypeOK, Rows
<1>5. TaskInv'
  BY <1>1, <1>3 DEF TaskInv
<1>6. StoreStep
  <2>1. ASSUME NEW t \in Sessions, NEW i \in Snaps
        PROVE  /\ RowStep(t, i)
               /\ rows'[t][i] # NONE => rows'[t][i] = rows[t][i]
               /\ Creating(t, i)' => Creating(t, i)
    BY <1>1, <1>2 DEF RowStep, Stay, Creating
  <2>2. \A t \in Sessions : UndecideStep(t)
    BY <2>1 DEF UndecideStep
  <2> QED BY <1>1, <2>1, <2>2 DEF StoreStep
<1>7. ClaimInv'
  BY <1>1, <1>2, <1>6, PassAlone
<1>8. DeletedInv'
  <2>1. gone \subseteq Sessions
    BY DEF TypeOK
  <2> SUFFICES ASSUME NEW t \in (gone \cup {cmd.s}) \cap deletedHere,
                      NEW i \in Snaps, rows'[t][i] # NONE
               PROVE  capture.pc = "recheck" /\ capture.s = t /\ capture.i = i
    BY <1>1 DEF DeletedInv
  <2>2. t # cmd.s /\ t \in gone /\ rows[t][i] # NONE
    BY <1>2, <2>1
  <2> QED BY <2>2 DEF DeletedInv
<1> QED BY <1>4, <1>5, <1>6, <1>7, <1>8, Together

\* The delete's transaction fails.
LEMMA DeleteFailedStep ==
    ASSUME IInv, DeleteFailed
    PROVE  IInv'
<1> USE DEF IInv
<1>1. /\ rows' = rows /\ final' = final /\ tombs' = tombs /\ capture' = capture
      /\ pass' = pass /\ site' = site /\ taken' = taken /\ gone' = gone
      /\ sent' = sent /\ edits' = edits
      /\ faults < MaxFaults /\ faults' = faults + 1
      /\ deletedHere' = IF cmd.newly THEN deletedHere \ {cmd.s} ELSE deletedHere
      /\ cmd' = CmdIdle
  BY DEF DeleteFailed, store, history
<1>2. /\ cmd' \in CmdType /\ cmd'.pc = "idle" /\ cmd'.s = NONE
      /\ cmd'.map = NONE /\ cmd'.newly = FALSE
  BY <1>1 DEF CmdIdle, CmdType
<1>3. TypeOK'
  <2>1. faults' \in 0 .. MaxFaults
    BY <1>1, StatSyncAssumption DEF TypeOK
  <2>2. deletedHere' \subseteq Sessions
    BY <1>1 DEF TypeOK
  <2> QED BY <1>1, <1>2, <2>1, <2>2 DEF TypeOK
<1>4. TaskInv'
  BY <1>1, <1>2 DEF TaskInv
<1>5. rows' \in Rows /\ StoreStep
  BY <1>1, CaptureAlone, RowsAlone
<1>6. ClaimInv'
  BY <1>1, <1>5, PassAlone
<1>7. DeletedInv'
  BY <1>1 DEF DeletedInv
<1> QED BY <1>3, <1>4, <1>5, <1>6, <1>7, Together

-----------------------------------------------------------------------------
(* The sync task. *)

\* A step of the sync task: it leaves the other tasks alone, and goes on with
\* claims that are good.
LEMMA PassMove ==
    ASSUME IInv, PassOnly, NEW p \in PassType, pass' = p, ClaimsOK(p),
           p.acc \subseteq sent',
           rows' \in Rows,
           \A s \in Sessions, i \in Snaps :
              \/ rows'[s][i] = rows[s][i]
              \/ /\ rows[s][i] # NONE /\ rows'[s][i] # NONE
                 /\ \/ Stay(rows[s][i], rows'[s][i])
                    \/ /\ Stay([rows[s][i] EXCEPT !.synced = TRUE], rows'[s][i])
                       /\ Fine(Claim(s, i, rows[s][i].sync_rev)),
           final' = final, tombs' \subseteq Sessions,
           site' \in [Sessions -> [snap: Snaps, sync_rev: Nat] \cup {NONE}],
           sent \subseteq sent', sent' \subseteq Claims,
           faults' \in 0 .. MaxFaults
    PROVE  IInv'
<1> USE DEF IInv
<1>1. /\ deletedHere' = deletedHere /\ capture' = capture /\ cmd' = cmd
      /\ taken' = taken /\ gone' = gone /\ edits' = edits
  BY DEF PassOnly
<1>2. TypeOK'
  BY <1>1 DEF TypeOK, Rows
<1>3. TaskInv'
  BY <1>1 DEF TaskInv
<1>4. StoreStep
  <2>1. \A s \in Sessions, i \in Snaps :
            Creating(s, i)' => Creating(s, i) \/ <<s, i>> \notin taken
    BY <1>1, CaptureAlone
  <2>2. taken \subseteq taken'
    BY <1>1
  <2>3. \A t \in Sessions, i \in Snaps :
              \/ rows'[t][i] = rows[t][i]
              \/ /\ rows[t][i] # NONE
                 /\ \/ Stay(rows[t][i], rows'[t][i])
                    \/ /\ Bump(rows[t][i], rows'[t][i])
                       /\ rows'[t][i].decided = rows[t][i].decided
                    \/ /\ Stay([rows[t][i] EXCEPT !.synced = TRUE], rows'[t][i])
                       /\ Fine(Claim(t, i, rows[t][i].sync_rev))
    OBVIOUS
  <2> QED BY <2>1, <2>2, <2>3, RowsOnly
<1>5. ClaimInv'
  BY <1>4, ClaimInvStep
<1>6. DeletedInv'
  <2>1. gone \subseteq Sessions
    BY DEF TypeOK
  <2> QED BY <1>1, <2>1, DeletedAlone
<1> QED BY <1>2, <1>3, <1>4, <1>5, <1>6, Together

\* A step of the sync task that writes nothing but the tombstones.
LEMMA PassQuiet ==
    ASSUME IInv, PassOnly, NEW p \in PassType, pass' = p, ClaimsOK(p),
           p.acc \subseteq sent, rows' = rows, final' = final,
           tombs' \subseteq Sessions, site' = site, sent' = sent,
           faults' \in 0 .. MaxFaults
    PROVE  IInv'
<1>1. /\ rows' \in Rows
      /\ site' \in [Sessions -> [snap: Snaps, sync_rev: Nat] \cup {NONE}]
      /\ sent' \subseteq Claims
  BY DEF IInv, TypeOK, Rows
<1> QED BY <1>1, PassMove

\* A pass with fewer claims, or with some moved from the local ones to the
\* ones being marked.
LEMMA ClaimsFrom ==
    ASSUME NEW p, NEW q, ClaimsOK(p),
           q.local \subseteq p.local, q.send \subseteq p.send,
           q.upload \subseteq p.upload,
           q.todo \subseteq p.local \cup p.todo \cup p.marked,
           q.marked \subseteq p.local \cup p.todo \cup p.marked,
           q.acc \subseteq q.upload, q.acc # {} => q.pc \in Answered
    PROVE  ClaimsOK(q)
<1>1. \A c \in q.local \cup q.todo \cup q.marked : Old(c) /\ Fine(c)
  BY DEF ClaimsOK
<1>2. \A c \in q.send \cup q.upload : Old(c)
  BY DEF ClaimsOK
<1>3. \A c \in q.send, u \in q.upload : c.s = u.s => c = u \/ Fine(c)
  BY DEF ClaimsOK
<1> QED BY <1>1, <1>2, <1>3 DEF ClaimsOK

\* A pass that begins or is over has no claims.
LEMMA IdlePass ==
    ASSUME NEW p, p = PassIdle \/ p = [PassIdle EXCEPT !.pc = "read"]
    PROVE  p \in PassType /\ ClaimsOK(p) /\ p.acc = {}
<1>1. p \in PassType
  <2>1. PassIdle \in PassType
    BY DEF PassIdle, PassType
  <2>2. [PassIdle EXCEPT !.pc = "read"] \in PassType
    BY <2>1 DEF PassType
  <2> QED BY <2>1, <2>2
<1>2. /\ p.local = {} /\ p.send = {} /\ p.upload = {} /\ p.todo = {}
      /\ p.marked = {} /\ p.acc = {}
  BY DEF PassIdle
<1> QED BY <1>1, <1>2 DEF ClaimsOK

\* A pass begins.
LEMMA PassStartStep ==
    ASSUME IInv, PassStart
    PROVE  IInv'
<1>1. PICK p : p = [PassIdle EXCEPT !.pc = "read"]
  OBVIOUS
<1>2. p \in PassType /\ ClaimsOK(p) /\ p.acc = {}
  BY <1>1, IdlePass
<1>3. /\ PassOnly /\ pass' = p /\ rows' = rows /\ final' = final
      /\ tombs' = tombs /\ site' = site /\ sent' = sent /\ faults' = faults
  BY <1>1 DEF PassStart, store
<1> QED BY <1>2, <1>3, PassQuiet DEF IInv, TypeOK

\* A row read from the table is a claim on the past.
LEMMA ClaimOfRow ==
    ASSUME IInv, NEW s \in Sessions, NEW i \in Snaps, rows[s][i] # NONE,
           NEW c, c = Claim(s, i, rows[s][i].sync_rev)
    PROVE  /\ c \in Claims /\ c.s = s /\ c.i = i
           /\ c.sync_rev = rows[s][i].sync_rev /\ Old(c)
<1>1. PICK r \in PersonalMatch : r = rows[s][i]
  BY RowAt DEF IInv
<1>2. r.sync_rev \in Nat
  BY DEF PersonalMatch
<1>3. c \in Claims /\ c.s = s /\ c.i = i /\ c.sync_rev = r.sync_rev
  BY <1>1, <1>2 DEF Claim, Claims
<1>4. <<s, i>> \in taken /\ ~Creating(s, i)
  BY DEF IInv, RowInv
<1>5. Old(c)
  BY <1>1, <1>2, <1>3, <1>4 DEF Old
<1> QED BY <1>1, <1>3, <1>5

\* What marking starts with.
LEMMA MarkThenOK ==
    ASSUME IInv, NEW pc \in {"mark", "marklocal", "marksettle"},
           pc = "mark" \/ pass.pc \notin Answered,
           NEW claims \in SUBSET Claims, NEW p, p = MarkThen(pc, claims),
           \A c \in claims : Old(c) /\ Fine(c)
    PROVE  p \in PassType /\ ClaimsOK(p) /\ p.acc \subseteq sent
<1>1. PICK q \in PassType : q = pass
  BY DEF IInv, TypeOK
<1>2. p = [q EXCEPT !.pc = pc, !.todo = claims, !.group = NONE, !.marked = {},
                    !.miss = FALSE]
  BY <1>1 DEF MarkThen
<1>3. p \in PassType
  BY ZenonT(60), <1>2 DEF PassType
<1>4. /\ p.local = q.local /\ p.send = q.send /\ p.upload = q.upload
      /\ p.acc = q.acc /\ p.todo = claims /\ p.marked = {} /\ p.pc = pc
  BY <1>2 DEF PassType
<1>5. ClaimsOK(q) /\ q.acc \subseteq sent
  BY <1>1 DEF IInv, ClaimInv
<1>6. ClaimsOK(p)
  <2>1. q.acc \subseteq q.upload /\ (q.acc # {} => q.pc \in Answered)
    BY <1>5 DEF ClaimsOK
  <2>2. p.acc # {} => p.pc \in Answered
    BY <1>1, <1>4, <2>1 DEF Answered
  <2> QED BY <1>4, <1>5, <2>1, <2>2 DEF ClaimsOK
<1> QED BY <1>3, <1>4, <1>5, <1>6

\* The unknown rows of a closed session are claimed.
LEMMA SettleStartStep ==
    ASSUME IInv, NEW s \in Sessions, SettleStart(s)
    PROVE  IInv'
<1>1. PICK C : C = {Claim(s, i, rows[s][i].sync_rev) :
                       i \in {j \in Present(s) :
                                 ~rows[s][j].synced /\ ~rows[s][j].decided}}
  OBVIOUS
<1>2. PICK p : p = MarkThen("marksettle", C)
  OBVIOUS
<1>3. ASSUME NEW c \in C
      PROVE  c \in Claims /\ Old(c) /\ Fine(c)
  <2>1. PICK i \in Snaps : /\ rows[s][i] # NONE /\ ~rows[s][i].decided
                           /\ c = Claim(s, i, rows[s][i].sync_rev)
    BY <1>1 DEF Present
  <2>2. /\ c \in Claims /\ c.s = s /\ c.i = i /\ Old(c)
    BY <2>1, ClaimOfRow
  <2> QED BY <2>1, <2>2 DEF Fine
<1>4. p \in PassType /\ ClaimsOK(p) /\ p.acc \subseteq sent
  <2>1. C \in SUBSET Claims
    BY <1>3
  <2>2. pass.pc \notin Answered
    BY DEF SettleStart, Answered
  <2> QED BY <1>2, <1>3, <2>1, <2>2, MarkThenOK
<1>5. /\ PassOnly /\ pass' = p /\ rows' = rows /\ final' = final
      /\ tombs' = tombs /\ site' = site /\ sent' = sent /\ faults' = faults
  BY <1>1, <1>2 DEF SettleStart, store
<1> QED BY <1>4, <1>5, PassQuiet DEF IInv, TypeOK

\* A claim being marked.
LEMMA ClaimAt ==
    ASSUME IInv, NEW c \in pass.todo \cup pass.marked
    PROVE  c \in Claims /\ c.s \in Sessions /\ Old(c) /\ Fine(c)
BY DEF IInv, TypeOK, PassType, ClaimInv, ClaimsOK, Claims

\* A mark.
LEMMA MarkCasStep ==
    ASSUME IInv, MarkCas
    PROVE  IInv'
<1>1. PICK c \in pass.todo :
          /\ cas_set_synced(c, TRUE)
          /\ pass' = [pass EXCEPT
               !.todo = @ \ {c},
               !.group = c.s,
               !.marked = IF CasHit(c) THEN @ \cup {c} ELSE @,
               !.miss = @ \/ ~CasHit(c)]
          /\ final' = final /\ tombs' = tombs /\ site' = site /\ sent' = sent
          /\ faults' = faults
          /\ PassOnly
  BY DEF MarkCas
<1>2. c \in Claims /\ c.s \in Sessions /\ Old(c) /\ Fine(c)
  BY ClaimAt
<1>3. /\ rows' \in Rows
      /\ \A t \in Sessions, i \in Snaps :
            \/ rows'[t][i] = rows[t][i]
            \/ /\ rows[t][i] # NONE /\ rows'[t][i] # NONE
               /\ \/ Stay(rows[t][i], rows'[t][i])
                  \/ /\ c = Claim(t, i, rows[t][i].sync_rev)
                     /\ Stay([rows[t][i] EXCEPT !.synced = TRUE], rows'[t][i])
  BY <1>1, <1>2, CasRows DEF IInv
<1>4. PICK q \in PassType : q = pass
  BY DEF IInv, TypeOK
<1>5. PICK m \in SUBSET Claims :
          /\ m = IF CasHit(c) THEN q.marked \cup {c} ELSE q.marked
          /\ m \subseteq q.marked \cup q.todo
  <2>1. c \in q.todo /\ q.marked \subseteq Claims
    BY <1>4 DEF PassType
  <2>2. CASE CasHit(c)
    BY <1>2, <2>1, <2>2
  <2>3. CASE ~CasHit(c)
    BY <2>1, <2>3
  <2> QED BY <2>2, <2>3
<1>6. PICK b \in BOOLEAN : b = (q.miss \/ ~CasHit(c))
  OBVIOUS
<1>7. PICK p : p = [q EXCEPT !.todo = q.todo \ {c}, !.group = c.s,
                             !.marked = m, !.miss = b]
  OBVIOUS
<1>8. pass' = p
  BY <1>1, <1>4, <1>5, <1>6, <1>7
<1>9. p \in PassType
  BY <1>2, <1>7 DEF PassType
<1>10. /\ p.local = q.local /\ p.send = q.send /\ p.upload = q.upload
       /\ p.acc = q.acc /\ p.todo = q.todo \ {c} /\ p.marked = m
       /\ p.pc = q.pc
  BY <1>7 DEF PassType
<1>11. ClaimsOK(q) /\ q.acc \subseteq sent
  BY <1>4 DEF IInv, ClaimInv
<1>12. ClaimsOK(p)
  <2>1. q.acc \subseteq q.upload /\ (q.acc # {} => q.pc \in Answered)
    BY <1>11 DEF ClaimsOK
  <2> QED BY <1>5, <1>10, <1>11, <2>1, ClaimsFrom
<1>13. /\ tombs' \subseteq Sessions
       /\ site' \in [Sessions -> [snap: Snaps, sync_rev: Nat] \cup {NONE}]
       /\ sent' \subseteq Claims /\ faults' \in 0 .. MaxFaults
  BY <1>1 DEF IInv, TypeOK
<1> QED BY <1>1, <1>2, <1>3, <1>8, <1>9, <1>10, <1>11, <1>12, <1>13, PassMove

\* A mark taken back.
LEMMA MarkUndoStep ==
    ASSUME IInv, MarkUndo
    PROVE  IInv'
<1>1. PICK c \in pass.marked :
          /\ cas_set_synced(c, FALSE)
          /\ pass' = [pass EXCEPT !.marked = @ \ {c}]
          /\ final' = final /\ tombs' = tombs /\ site' = site /\ sent' = sent
          /\ faults' = faults
          /\ PassOnly
  BY DEF MarkUndo
<1>2. c \in Claims
  BY ClaimAt
<1>3. /\ rows' \in Rows
      /\ \A t \in Sessions, i \in Snaps :
            \/ rows'[t][i] = rows[t][i]
            \/ /\ rows[t][i] # NONE /\ rows'[t][i] # NONE
               /\ Stay(rows[t][i], rows'[t][i])
  BY <1>1, <1>2, CasRows DEF IInv
<1>4. PICK q \in PassType : q = pass
  BY DEF IInv, TypeOK
<1>5. PICK p : p = [q EXCEPT !.marked = q.marked \ {c}]
  OBVIOUS
<1>6. pass' = p
  BY <1>1, <1>4, <1>5
<1>7. p \in PassType
  BY <1>5 DEF PassType
<1>8. /\ p.local = q.local /\ p.send = q.send /\ p.upload = q.upload
      /\ p.acc = q.acc /\ p.todo = q.todo /\ p.marked = q.marked \ {c}
      /\ p.pc = q.pc
  BY <1>5 DEF PassType
<1>9. ClaimsOK(q) /\ q.acc \subseteq sent
  BY <1>4 DEF IInv, ClaimInv
<1>10. ClaimsOK(p)
  <2>1. q.acc \subseteq q.upload /\ (q.acc # {} => q.pc \in Answered)
    BY <1>9 DEF ClaimsOK
  <2> QED BY <1>8, <1>9, <2>1, ClaimsFrom
<1>11. /\ tombs' \subseteq Sessions
       /\ site' \in [Sessions -> [snap: Snaps, sync_rev: Nat] \cup {NONE}]
       /\ sent' \subseteq Claims /\ faults' \in 0 .. MaxFaults
  BY <1>1 DEF IInv, TypeOK
<1> QED BY <1>1, <1>3, <1>6, <1>7, <1>8, <1>9, <1>10, <1>11, PassMove

\* A step of the pass that only changes where it stands, its tombstones and
\* its deletes.
LEMMA PassGoesOn ==
    ASSUME IInv, PassOnly, NEW p \in PassType, pass' = p,
           p.local = pass.local, p.send = pass.send, p.upload = pass.upload,
           p.acc = pass.acc, p.todo = pass.todo, p.marked \subseteq pass.marked,
           pass.pc \in Answered => p.pc \in Answered,
           rows' = rows, final' = final, tombs' \subseteq Sessions,
           site' = site, sent' = sent, faults' = faults
    PROVE  IInv'
<1>1. ClaimsOK(pass) /\ pass.acc \subseteq sent /\ faults' \in 0 .. MaxFaults
  BY DEF IInv, ClaimInv, TypeOK
<1>2. PICK q : q = pass
  OBVIOUS
<1>3. ClaimsOK(p)
  <2>1. q.acc \subseteq q.upload /\ (q.acc # {} => q.pc \in Answered)
    BY <1>1, <1>2 DEF ClaimsOK
  <2> QED BY <1>1, <1>2, <2>1, ClaimsFrom
<1> QED BY <1>1, <1>3, PassQuiet

\* A group is marked, or its marks are taken back.
LEMMA GroupDoneStep ==
    ASSUME IInv, GroupDone
    PROVE  IInv'
<1>1. PICK q \in PassType : q = pass
  BY DEF IInv, TypeOK
<1>2. PICK p : p = [q EXCEPT !.group = NONE, !.marked = {}, !.miss = FALSE]
  OBVIOUS
<1>3. p \in PassType
  BY <1>2 DEF PassType
<1>4. /\ p.local = q.local /\ p.send = q.send /\ p.upload = q.upload
      /\ p.acc = q.acc /\ p.todo = q.todo /\ p.marked = {} /\ p.pc = q.pc
  BY <1>2 DEF PassType
<1>5. /\ PassOnly /\ pass' = p /\ rows' = rows /\ final' = final
      /\ tombs' = tombs /\ site' = site /\ sent' = sent /\ faults' = faults
  BY <1>1, <1>2 DEF GroupDone, store
<1>6. tombs' \subseteq Sessions
  BY <1>5 DEF IInv, TypeOK
<1> QED BY <1>1, <1>3, <1>4, <1>5, <1>6, PassGoesOn

\* The marking is over.
LEMMA MarkDoneStep ==
    ASSUME IInv, MarkDone
    PROVE  IInv'
<1>1. PICK q \in PassType : q = pass
  BY DEF IInv, TypeOK
<1>2. PICK pc \in {"read", "tombs", "clear"} :
          pass' = [q EXCEPT !.pc = pc] /\ (q.pc \in Answered => pc \in Answered)
  BY <1>1 DEF MarkDone, Marking, Answered
<1>3. PICK p : p = [q EXCEPT !.pc = pc]
  OBVIOUS
<1>4. p \in PassType
  BY <1>3 DEF PassType
<1>5. /\ p.local = q.local /\ p.send = q.send /\ p.upload = q.upload
      /\ p.acc = q.acc /\ p.todo = q.todo /\ p.marked = q.marked
      /\ p.pc = pc
  BY <1>3 DEF PassType
<1>6. /\ PassOnly /\ rows' = rows /\ final' = final
      /\ tombs' = tombs /\ site' = site /\ sent' = sent /\ faults' = faults
  BY DEF MarkDone, store
<1>7. tombs' \subseteq Sessions
  BY <1>6 DEF IInv, TypeOK
<1> QED BY <1>1, <1>2, <1>3, <1>4, <1>5, <1>6, <1>7, PassGoesOn

\* The claims a pass makes when it reads the table: the local ones may be
\* marked at once, and of the ones to send only the newest has to be accepted.
LEMMA ReadClaims ==
    ASSUME IInv, NEW s \in Sessions
    PROVE  /\ Batch(s) \subseteq Snaps
           /\ \A i \in Batch(s) : rows[s][i] # NONE /\ rows[s][i].decided
           /\ KeptLocal(s) \subseteq Batch(s)
           /\ \A i \in KeptLocal(s) :
                 row_is_local_only(rows[s][i]) \/ Covered(s, i)
<1>1. /\ Batch(s) \subseteq Snaps
      /\ \A i \in Batch(s) : rows[s][i] # NONE /\ rows[s][i].decided
  BY DEF Batch, Present, Queued
<1>2. KeptLocal(s) \subseteq Batch(s)
  BY DEF KeptLocal
<1>3. ASSUME NEW i \in KeptLocal(s), ~row_is_local_only(rows[s][i])
      PROVE  Covered(s, i)
  <2>1. i \in Batch(s) /\ Retired(s)
    BY <1>3 DEF KeptLocal
  <2>2. PICK m : m = Max(Batch(s))
    OBVIOUS
  <2>3. m \in Batch(s) /\ i <= m
    BY <1>1, <2>1, <2>2, SnapsBounds
  <2>4. row_is_local_only(rows[s][m])
    BY <2>1, <2>2 DEF Retired, Newest
  <2>5. m # i
    BY <1>3, <2>4
  <2>6. m \in Snaps /\ i \in Snaps /\ m > i
    BY <1>1, <2>1, <2>3, <2>5 DEF Snaps
  <2> QED BY <1>1, <2>3, <2>6 DEF Covered
<1> QED BY <1>1, <1>2, <1>3

\* get_unsynced and the split into local, sent and uploaded rows.
LEMMA GetUnsyncedStep ==
    ASSUME IInv, GetUnsynced
    PROVE  IInv'
<1>1. PICK L : L = ClaimsOf(KeptLocal)
  OBVIOUS
<1>2. PICK S : S = UNION {{Claim(s, i, rows[s][i].sync_rev) :
                              i \in Batch(s) \ KeptLocal(s)} : s \in Sessions}
  OBVIOUS
<1>3. PICK U : U = UNION {{Claim(s, i, rows[s][i].sync_rev) :
                              i \in {j \in Batch(s) \ KeptLocal(s) :
                                     /\ j = Newest(Batch(s) \ KeptLocal(s))
                                     /\ ~row_needs_review(rows[s][j])}} :
                           s \in Sessions}
  OBVIOUS
<1>4. PICK R : R = {s \in Sessions : Retired(s)}
  OBVIOUS
<1>5. pass' = [pass EXCEPT !.pc = "split", !.local = L, !.retire = R,
                           !.send = S, !.upload = U]
  BY <1>1, <1>2, <1>3, <1>4 DEF GetUnsynced, ClaimsOf
<1>6. ASSUME NEW c \in L
      PROVE  \E s \in Sessions : \E i \in KeptLocal(s) :
                c = Claim(s, i, rows[s][i].sync_rev)
  <2>1. PICK s \in Sessions :
            c \in {Claim(s, i, rows[s][i].sync_rev) : i \in KeptLocal(s)}
    BY <1>1, Zenon DEF ClaimsOf
  <2> QED BY <2>1, Zenon
<1>7. ASSUME NEW c \in S
      PROVE  \E s \in Sessions : \E i \in Batch(s) \ KeptLocal(s) :
                c = Claim(s, i, rows[s][i].sync_rev)
  <2>1. PICK s \in Sessions :
            c \in {Claim(s, i, rows[s][i].sync_rev) :
                      i \in Batch(s) \ KeptLocal(s)}
    BY <1>2, Zenon
  <2> QED BY <2>1, Zenon
<1>8. ASSUME NEW c \in U
      PROVE  \E s \in Sessions : \E i \in Batch(s) \ KeptLocal(s) :
                /\ c = Claim(s, i, rows[s][i].sync_rev)
                /\ i = Max(Batch(s) \ KeptLocal(s))
  <2>1. PICK s \in Sessions :
            c \in {Claim(s, i, rows[s][i].sync_rev) :
                      i \in {j \in Batch(s) \ KeptLocal(s) :
                                /\ j = Newest(Batch(s) \ KeptLocal(s))
                                /\ ~row_needs_review(rows[s][j])}}
    BY <1>3, Zenon
  <2>2. PICK i \in Batch(s) \ KeptLocal(s) :
            /\ c = Claim(s, i, rows[s][i].sync_rev)
            /\ i = Newest(Batch(s) \ KeptLocal(s))
    BY <2>1, Zenon
  <2>3. i = Max(Batch(s) \ KeptLocal(s))
    BY <2>2 DEF Newest
  <2> QED BY <2>2, <2>3
<1>9. ASSUME NEW c \in L
      PROVE  c \in Claims /\ Old(c) /\ Fine(c)
  <2>1. PICK s \in Sessions : \E i \in KeptLocal(s) :
            c = Claim(s, i, rows[s][i].sync_rev)
    BY <1>6
  <2>2. PICK i \in KeptLocal(s) : c = Claim(s, i, rows[s][i].sync_rev)
    BY <2>1
  <2>3. /\ i \in Snaps /\ rows[s][i] # NONE
        /\ row_is_local_only(rows[s][i]) \/ Covered(s, i)
    BY ReadClaims
  <2>4. c \in Claims /\ c.s = s /\ c.i = i /\ Old(c)
    BY <2>2, <2>3, ClaimOfRow
  <2> QED BY <2>3, <2>4 DEF Fine
<1>10. ASSUME NEW c \in S \cup U
      PROVE  c \in Claims /\ Old(c)
  <2>1. PICK s \in Sessions : \E i \in Batch(s) :
            c = Claim(s, i, rows[s][i].sync_rev)
    <3>1. CASE c \in S
      BY <1>7, <3>1
    <3>2. CASE c \in U
      BY <1>8, <3>2
    <3> QED BY <3>1, <3>2
  <2>2. PICK i \in Batch(s) : c = Claim(s, i, rows[s][i].sync_rev)
    BY <2>1
  <2>3. i \in Snaps /\ rows[s][i] # NONE
    BY ReadClaims
  <2> QED BY <2>2, <2>3, ClaimOfRow
<1>11. ASSUME NEW c \in S, NEW u \in U, c.s = u.s, c # u
      PROVE  Fine(c)
  <2>1. PICK s \in Sessions : \E i \in Batch(s) \ KeptLocal(s) :
            c = Claim(s, i, rows[s][i].sync_rev)
    BY <1>7
  <2>2. PICK i \in Batch(s) \ KeptLocal(s) :
            c = Claim(s, i, rows[s][i].sync_rev)
    BY <2>1
  <2>3. PICK t \in Sessions : \E j \in Batch(t) \ KeptLocal(t) :
            /\ u = Claim(t, j, rows[t][j].sync_rev)
            /\ j = Max(Batch(t) \ KeptLocal(t))
    BY <1>8
  <2>4. PICK j \in Batch(t) \ KeptLocal(t) :
            /\ u = Claim(t, j, rows[t][j].sync_rev)
            /\ j = Max(Batch(t) \ KeptLocal(t))
    BY <2>3
  <2>5. /\ i \in Snaps /\ rows[s][i] # NONE
        /\ j \in Snaps /\ rows[t][j] # NONE /\ rows[t][j].decided
    BY ReadClaims
  <2>6. c.s = s /\ c.i = i /\ u.s = t
    BY <2>2, <2>4, <2>5, ClaimOfRow
  <2>7. s = t /\ i # j
    BY <1>11, <2>2, <2>4, <2>6
  <2>8. i <= j
    <3>1. PICK B : B = Batch(s) \ KeptLocal(s)
      OBVIOUS
    <3>2. B \subseteq Snaps /\ i \in B /\ j = Max(B)
      BY <2>2, <2>4, <2>7, <3>1, ReadClaims
    <3> QED BY <3>2, SnapsBounds
  <2>9. j > i
    BY <2>5, <2>7, <2>8 DEF Snaps
  <2>10. Covered(s, i)
    BY <2>5, <2>7, <2>9 DEF Covered
  <2> QED BY <2>6, <2>10 DEF Fine
<1>12. PICK q \in PassType : q = pass
  BY DEF IInv, TypeOK
<1>13. PICK p : p = [q EXCEPT !.pc = "split", !.local = L, !.retire = R,
                             !.send = S, !.upload = U]
  OBVIOUS
<1>14. pass' = p
  BY <1>5, <1>12, <1>13
<1>15. L \subseteq Claims /\ S \subseteq Claims /\ U \subseteq Claims
  BY <1>9, <1>10
<1>16. p \in PassType
  BY <1>4, <1>13, <1>15 DEF PassType
<1>17. /\ p.local = L /\ p.send = S /\ p.upload = U
       /\ p.acc = q.acc /\ p.todo = q.todo /\ p.marked = q.marked
  BY <1>13 DEF PassType
<1>18. ClaimsOK(q) /\ q.acc \subseteq sent
  BY <1>12 DEF IInv, ClaimInv
<1>19. ClaimsOK(p)
  <2>1. \A c \in q.todo \cup q.marked : Old(c) /\ Fine(c)
    BY <1>18 DEF ClaimsOK
  <2>2. q.acc = {}
    <3>1. q.pc \notin Answered
      BY <1>12 DEF GetUnsynced, Answered
    <3> QED BY <1>18, <3>1 DEF ClaimsOK
  <2> QED BY <1>9, <1>10, <1>11, <1>17, <2>1, <2>2 DEF ClaimsOK
<1>20. /\ PassOnly /\ rows' = rows /\ final' = final
       /\ tombs' = tombs /\ site' = site /\ sent' = sent /\ faults' = faults
  BY DEF GetUnsynced, store
<1>21. tombs' \subseteq Sessions /\ faults' \in 0 .. MaxFaults
  BY <1>20 DEF IInv, TypeOK
<1> QED BY <1>14, <1>16, <1>17, <1>18, <1>19, <1>20, <1>21, PassQuiet

\* The sessions to delete on the site are looked up.
LEMMA RetireCheckStep ==
    ASSUME IInv, RetireCheck
    PROVE  IInv'
<1>0. pass.pc \notin Answered
  BY DEF RetireCheck, Answered
<1>1. PICK q \in PassType : q = pass
  BY DEF IInv, TypeOK
<1>2. PICK R \in SUBSET q.retire :
          pass' = [q EXCEPT !.pc = IF q.local = {} THEN "tombs" ELSE "queue",
                            !.retire = R]
  <2>1. PICK R : R = {s \in q.retire : session_may_be_on_site(s)}
    OBVIOUS
  <2>2. R \in SUBSET q.retire
    BY <2>1
  <2> QED BY <1>1, <2>1, <2>2 DEF RetireCheck
<1>3. PICK pc \in {"tombs", "queue"} :
          pc = IF q.local = {} THEN "tombs" ELSE "queue"
  OBVIOUS
<1>4. PICK p : p = [q EXCEPT !.pc = pc, !.retire = R]
  OBVIOUS
<1>5. pass' = p
  BY <1>2, <1>3, <1>4
<1>6. p \in PassType
  BY <1>4 DEF PassType
<1>7. /\ p.local = q.local /\ p.send = q.send /\ p.upload = q.upload
      /\ p.acc = q.acc /\ p.todo = q.todo /\ p.marked = q.marked
  BY <1>4 DEF PassType
<1>8. /\ PassOnly /\ rows' = rows /\ final' = final
      /\ tombs' = tombs /\ site' = site /\ sent' = sent /\ faults' = faults
  BY DEF RetireCheck, store
<1>9. tombs' \subseteq Sessions
  BY <1>8 DEF IInv, TypeOK
<1> QED BY <1>0, <1>1, <1>5, <1>6, <1>7, <1>8, <1>9, PassGoesOn

\* The local-only sessions get their tombstones, then their marks.
LEMMA QueueStep ==
    ASSUME IInv, queue_tombstones
    PROVE  IInv'
<1>1. PICK C \in SUBSET Claims : C = pass.local
  BY DEF IInv, TypeOK, PassType
<1>2. PICK p : p = MarkThen("marklocal", C)
  OBVIOUS
<1>3. \A c \in C : Old(c) /\ Fine(c)
  BY <1>1 DEF IInv, ClaimInv, ClaimsOK
<1>4. p \in PassType /\ ClaimsOK(p) /\ p.acc \subseteq sent
  <2>1. pass.pc \notin Answered
    BY DEF queue_tombstones, Answered
  <2> QED BY <1>2, <1>3, <2>1, MarkThenOK
<1>5. /\ PassOnly /\ pass' = p /\ rows' = rows /\ final' = final
      /\ tombs' = tombs \cup pass.retire
      /\ site' = site /\ sent' = sent /\ faults' = faults
  BY <1>1, <1>2 DEF queue_tombstones
<1>6. tombs' \subseteq Sessions /\ faults' \in 0 .. MaxFaults
  BY <1>5 DEF IInv, TypeOK, PassType
<1> QED BY <1>4, <1>5, <1>6, PassQuiet

\* A pass that is over.
LEMMA PassEnds ==
    ASSUME IInv, PassOnly, pass' = PassIdle, rows' = rows, final' = final,
           tombs' \subseteq Sessions, site' = site, sent' = sent,
           faults' \in 0 .. MaxFaults
    PROVE  IInv'
<1>1. PICK p : p = PassIdle
  OBVIOUS
<1>2. p \in PassType /\ ClaimsOK(p) /\ p.acc = {}
  BY <1>1, IdlePass
<1> QED BY <1>1, <1>2, PassQuiet

\* The tombstones to send are read.
LEMMA PendingStep ==
    ASSUME IInv, get_pending_tombstones
    PROVE  IInv'
<1>0. pass.pc \notin Answered
  BY DEF get_pending_tombstones, Answered
<1>1. PICK q \in PassType : q = pass
  BY DEF IInv, TypeOK
<1>2. PICK D \in SUBSET Sessions : D = tombs
  BY DEF IInv, TypeOK
<1>3. PICK p : p = [q EXCEPT !.pc = "supersede", !.deletes = D]
  OBVIOUS
<1>4. pass' = PassIdle \/ pass' = p
  BY <1>1, <1>2, <1>3 DEF get_pending_tombstones
<1>5. p \in PassType
  BY <1>3 DEF PassType
<1>6. /\ p.local = q.local /\ p.send = q.send /\ p.upload = q.upload
      /\ p.acc = q.acc /\ p.todo = q.todo /\ p.marked = q.marked
  BY <1>3 DEF PassType
<1>7. /\ PassOnly /\ rows' = rows /\ final' = final
      /\ tombs' = tombs /\ site' = site /\ sent' = sent /\ faults' = faults
  BY DEF get_pending_tombstones, store
<1>8. tombs' \subseteq Sessions /\ faults' \in 0 .. MaxFaults
  BY <1>7 DEF IInv, TypeOK
<1>9. CASE pass' = PassIdle
  BY <1>7, <1>8, <1>9, PassEnds
<1>10. CASE pass' = p
  BY <1>0, <1>1, <1>5, <1>6, <1>7, <1>8, <1>10, PassGoesOn
<1> QED BY <1>4, <1>9, <1>10

\* Out-of-date tombstones are dropped.
LEMMA SupersedeStep ==
    ASSUME IInv, split_superseded_tombstones
    PROVE  IInv'
<1>0. pass.pc \notin Answered
  BY DEF split_superseded_tombstones, Answered
<1>1. PICK q \in PassType : q = pass
  BY DEF IInv, TypeOK
<1>2. PICK D \in SUBSET Sessions : D = q.deletes \ Uploading
  BY DEF PassType
<1>3. PICK p : p = [q EXCEPT !.pc = "upload", !.deletes = D]
  OBVIOUS
<1>4. pass' = PassIdle \/ pass' = p
  BY <1>1, <1>2, <1>3 DEF split_superseded_tombstones
<1>5. p \in PassType
  BY <1>3 DEF PassType
<1>6. /\ p.local = q.local /\ p.send = q.send /\ p.upload = q.upload
      /\ p.acc = q.acc /\ p.todo = q.todo /\ p.marked = q.marked
  BY <1>3 DEF PassType
<1>7. /\ PassOnly /\ rows' = rows /\ final' = final
      /\ tombs' = tombs \ (pass.deletes \cap Uploading)
      /\ site' = site /\ sent' = sent /\ faults' = faults
  BY DEF split_superseded_tombstones
<1>8. tombs' \subseteq Sessions /\ faults' \in 0 .. MaxFaults
  BY <1>7 DEF IInv, TypeOK
<1>9. CASE pass' = PassIdle
  BY <1>7, <1>8, <1>9, PassEnds
<1>10. CASE pass' = p
  BY <1>0, <1>1, <1>5, <1>6, <1>7, <1>8, <1>10, PassGoesOn
<1> QED BY <1>4, <1>9, <1>10

\* What the site stores.
LEMMA SiteTyped ==
    ASSUME IInv, NEW A \in SUBSET pass.upload, SiteApplies(A)
    PROVE  /\ site' \in [Sessions -> [snap: Snaps, sync_rev: Nat] \cup {NONE}]
           /\ sent \subseteq sent' /\ sent' \subseteq Claims
           /\ A \subseteq sent'
           /\ \A s \in Sessions :
                 /\ s \in pass.deletes => site'[s] = NONE
                 /\ s \notin pass.deletes /\ (\A c \in A : c.s # s)
                    => site'[s] = site[s]
<1>1. A \subseteq Claims /\ sent \subseteq Claims
  BY DEF IInv, TypeOK, PassType
<1>2. sent' = sent \cup A
  BY DEF SiteApplies
<1>3. PICK f : f = [s \in Sessions |->
           IF s \in pass.deletes THEN NONE
           ELSE IF \E c \in A : c.s = s
           THEN [snap |-> (CHOOSE c \in A : c.s = s).i,
                 sync_rev |-> (CHOOSE c \in A : c.s = s).sync_rev]
           ELSE site[s]]
  OBVIOUS
<1>4. site' = f
  BY <1>3 DEF SiteApplies
<1>5. ASSUME NEW s \in Sessions
      PROVE  /\ f[s] \in [snap: Snaps, sync_rev: Nat] \cup {NONE}
             /\ s \in pass.deletes => f[s] = NONE
             /\ s \notin pass.deletes /\ (\A c \in A : c.s # s)
                => f[s] = site[s]
  <2>1. CASE s \in pass.deletes
    BY <1>3, <2>1
  <2>2. CASE s \notin pass.deletes /\ \E c \in A : c.s = s
    <3>1. PICK c : c = CHOOSE d \in A : d.s = s
      OBVIOUS
    <3>2. c \in A
      BY <2>2, <3>1
    <3>3. c.i \in Snaps /\ c.sync_rev \in Nat
      BY <1>1, <3>2 DEF Claims
    <3>4. f[s] = [snap |-> c.i, sync_rev |-> c.sync_rev]
      BY <1>3, <2>2, <3>1
    <3> QED BY <2>2, <3>3, <3>4
  <2>3. CASE s \notin pass.deletes /\ ~\E c \in A : c.s = s
    BY <1>3, <2>3 DEF IInv, TypeOK
  <2> QED BY <2>1, <2>2, <2>3
<1>6. f \in [Sessions -> [snap: Snaps, sync_rev: Nat] \cup {NONE}]
  BY <1>3, <1>5
<1> QED BY <1>1, <1>2, <1>4, <1>5, <1>6

\* The site answered: it accepted A, and refused and blamed R.
LEMMA AnsweredStep ==
    ASSUME IInv, PassOnly, NEW A \in SUBSET pass.upload,
           NEW R \in SUBSET Claims, SiteApplies(A),
           pass' = [pass EXCEPT !.pc = "ack", !.acc = A, !.rej = R],
           rows' = rows, final' = final, tombs' = tombs,
           faults' \in 0 .. MaxFaults
    PROVE  IInv'
<1>1. PICK q \in PassType : q = pass
  BY DEF IInv, TypeOK
<1>2. PICK p : p = [q EXCEPT !.pc = "ack", !.acc = A, !.rej = R]
  OBVIOUS
<1>3. A \subseteq Claims
  BY <1>1 DEF PassType
<1>4. p \in PassType
  BY <1>2, <1>3 DEF PassType
<1>5. /\ p.local = q.local /\ p.send = q.send /\ p.upload = q.upload
      /\ p.acc = A /\ p.todo = q.todo /\ p.marked = q.marked /\ p.pc = "ack"
  BY <1>2 DEF PassType
<1>6. ClaimsOK(q)
  BY <1>1 DEF IInv, ClaimInv
<1>7. ClaimsOK(p)
  BY <1>1, <1>5, <1>6, ClaimsFrom DEF Answered
<1>8. /\ site' \in [Sessions -> [snap: Snaps, sync_rev: Nat] \cup {NONE}]
      /\ sent \subseteq sent' /\ sent' \subseteq Claims
      /\ A \subseteq sent'
  BY SiteTyped
<1>9. rows' \in Rows /\ tombs' \subseteq Sessions
  BY DEF IInv, TypeOK, Rows
<1>10. pass' = p
  BY <1>1, <1>2
<1> QED BY <1>4, <1>5, <1>7, <1>8, <1>9, <1>10, PassMove

\* Everything was accepted.
LEMMA AcceptedStep ==
    ASSUME IInv, UploadAccepted
    PROVE  IInv'
<1>1. PICK q \in PassType : q = pass
  BY DEF IInv, TypeOK
<1>2. PICK R \in SUBSET Claims : R = q.rej
  BY DEF PassType
<1>3. pass' = [q EXCEPT !.pc = "ack", !.acc = q.upload]
  BY <1>1 DEF UploadAccepted
<1>4. [q EXCEPT !.pc = "ack", !.acc = q.upload]
        = [q EXCEPT !.pc = "ack", !.acc = q.upload, !.rej = R]
  BY <1>2 DEF PassType
<1>5. PICK A \in SUBSET pass.upload : A = pass.upload
  OBVIOUS
<1>6. pass' = [pass EXCEPT !.pc = "ack", !.acc = A, !.rej = R]
  BY <1>1, <1>3, <1>4, <1>5
<1>7. /\ PassOnly /\ SiteApplies(A) /\ rows' = rows /\ final' = final
      /\ tombs' = tombs /\ faults' = faults
  BY <1>5 DEF UploadAccepted, store
<1>8. faults' \in 0 .. MaxFaults
  BY <1>7 DEF IInv, TypeOK
<1> QED BY <1>6, <1>7, <1>8, AnsweredStep

\* Some rows were accepted, some refused.
LEMMA PartlyStep ==
    ASSUME IInv, NEW A \in SUBSET pass.upload, NEW R \in SUBSET pass.upload,
           UploadPartly(A, R)
    PROVE  IInv'
<1>1. R \in SUBSET Claims
  BY DEF IInv, TypeOK, PassType
<1>2. /\ PassOnly /\ SiteApplies(A) /\ rows' = rows /\ final' = final
      /\ tombs' = tombs /\ faults < MaxFaults /\ faults' = faults + 1
      /\ pass' = [pass EXCEPT !.pc = "ack", !.acc = A, !.rej = R]
  BY DEF UploadPartly, store
<1>3. faults' \in 0 .. MaxFaults
  BY <1>2, StatSyncAssumption DEF IInv, TypeOK
<1> QED BY <1>1, <1>2, <1>3, AnsweredStep

\* The request failed.
LEMMA FailedStep ==
    ASSUME IInv, UploadFailed
    PROVE  IInv'
<1>1. /\ PassOnly /\ pass' = PassIdle /\ rows' = rows /\ final' = final
      /\ tombs' = tombs /\ site' = site /\ sent' = sent
      /\ faults < MaxFaults /\ faults' = faults + 1
  BY DEF UploadFailed, store
<1>2. tombs' \subseteq Sessions /\ faults' \in 0 .. MaxFaults
  BY <1>1, StatSyncAssumption DEF IInv, TypeOK
<1> QED BY <1>1, <1>2, PassEnds

\* The answer was lost.
LEMMA AnswerLostStep ==
    ASSUME IInv, UploadAnswerLost
    PROVE  IInv'
<1>1. PICK A \in SUBSET pass.upload : A = pass.upload
  OBVIOUS
<1>2. /\ PassOnly /\ pass' = PassIdle /\ rows' = rows /\ final' = final
      /\ tombs' = tombs /\ SiteApplies(A)
      /\ faults < MaxFaults /\ faults' = faults + 1
  BY <1>1 DEF UploadAnswerLost, store
<1>3. /\ site' \in [Sessions -> [snap: Snaps, sync_rev: Nat] \cup {NONE}]
      /\ sent \subseteq sent' /\ sent' \subseteq Claims
  BY <1>2, SiteTyped
<1>4. tombs' \subseteq Sessions /\ faults' \in 0 .. MaxFaults
  BY <1>2, StatSyncAssumption DEF IInv, TypeOK
<1>5. rows' \in Rows
  BY <1>2 DEF IInv, TypeOK, Rows
<1>6. PICK p : p = PassIdle
  OBVIOUS
<1>7. p \in PassType /\ ClaimsOK(p) /\ p.acc = {}
  BY <1>6, IdlePass
<1> QED BY <1>2, <1>3, <1>4, <1>5, <1>6, <1>7, PassMove

\* The refused rows are quarantined, and the accepted sessions' claims are to
\* be marked: the accepted row itself, and the rows it covers.
LEMMA QuarantineStep ==
    ASSUME IInv, quarantine_upload
    PROVE  IInv'
<1>1. PICK q \in PassType : q = pass
  BY DEF IInv, TypeOK
<1>2. PICK C : C = claims_covering(q.acc)
  OBVIOUS
<1>3. C \in SUBSET Claims
  BY <1>1, <1>2 DEF claims_covering, PassType
<1>4. ASSUME NEW c \in C
      PROVE  Old(c) /\ Fine(c)
  <2>1. PICK u \in q.acc : c \in q.send /\ u.s = c.s
    BY <1>1, <1>2 DEF claims_covering
  <2>2. u \in sent /\ u \in q.upload
    BY <1>1, <2>1 DEF IInv, ClaimInv, ClaimsOK
  <2>3. Old(c) /\ (c = u \/ Fine(c))
    BY <1>1, <2>1, <2>2 DEF IInv, ClaimInv, ClaimsOK
  <2> QED BY <2>2, <2>3 DEF Fine
<1>5. PICK p : p = MarkThen("mark", C)
  OBVIOUS
<1>6. p \in PassType /\ ClaimsOK(p) /\ p.acc \subseteq sent
  BY <1>3, <1>4, <1>5, MarkThenOK
<1>7. /\ PassOnly /\ pass' = p /\ final' = final
      /\ tombs' = tombs /\ site' = site /\ sent' = sent /\ faults' = faults
  BY <1>1, <1>2, <1>5 DEF quarantine_upload
<1>8. /\ rows' \in Rows
      /\ \A t \in Sessions, i \in Snaps :
            \/ rows'[t][i] = rows[t][i]
            \/ /\ rows[t][i] # NONE /\ rows'[t][i] # NONE
               /\ Stay(rows[t][i], rows'[t][i])
  BY QuarantinedRows DEF IInv
<1>9. /\ tombs' \subseteq Sessions
      /\ site' \in [Sessions -> [snap: Snaps, sync_rev: Nat] \cup {NONE}]
      /\ sent' \subseteq Claims /\ faults' \in 0 .. MaxFaults
  BY <1>7 DEF IInv, TypeOK
<1> QED BY <1>6, <1>7, <1>8, <1>9, PassMove

\* The acknowledged tombstones are cleared.
LEMMA ClearTombsStep ==
    ASSUME IInv, clear_acknowledged_tombstones
    PROVE  IInv'
<1>1. /\ PassOnly /\ pass' = PassIdle /\ rows' = rows /\ final' = final
      /\ tombs' = tombs \ pass.deletes
      /\ site' = site /\ sent' = sent /\ faults' = faults
  BY DEF clear_acknowledged_tombstones
<1>2. tombs' \subseteq Sessions /\ faults' \in 0 .. MaxFaults
  BY <1>1 DEF IInv, TypeOK
<1> QED BY <1>1, <1>2, PassEnds

\* The daemon stops and starts again.
LEMMA CrashStep ==
    ASSUME IInv, Crash
    PROVE  IInv'
<1> USE DEF IInv
<1>1. /\ rows' = rows /\ final' = final /\ tombs' = tombs
      /\ deletedHere' = {} /\ capture' = CaptureIdle /\ pass' = PassIdle
      /\ site' = site /\ taken' = taken /\ gone' = gone /\ sent' = sent
      /\ edits' = edits /\ faults < MaxFaults /\ faults' = faults + 1
      /\ cmd' = IF cmd.pc = "edit" THEN [cmd EXCEPT !.todo = Present(cmd.s)]
                ELSE CmdIdle
  BY DEF Crash, store, history
<1>2. /\ capture' \in CaptureType /\ capture'.pc = "idle"
      /\ capture'.s = NONE
  BY <1>1 DEF CaptureType, CaptureIdle
<1>3. cmd' \in CmdType
  <2>1. CmdIdle \in CmdType
    BY DEF CmdIdle, CmdType
  <2>2. Present(cmd.s) \subseteq Snaps
    BY DEF Present
  <2>3. [cmd EXCEPT !.todo = Present(cmd.s)] \in CmdType
    BY <2>2 DEF TypeOK, CmdType
  <2> QED BY <1>1, <2>1, <2>3
<1>4. /\ cmd'.pc = "idle" <=> cmd'.s = NONE
      /\ cmd'.pc # "edit" => cmd'.map = NONE
      /\ cmd'.pc = "edit" => cmd'.map # "blank"
      /\ cmd'.newly => cmd'.pc = "delete"
  <2>1. CASE cmd.pc = "edit"
    <3>1. /\ cmd'.pc = cmd.pc /\ cmd'.s = cmd.s /\ cmd'.map = cmd.map
          /\ cmd'.newly = cmd.newly
      BY <1>1, <2>1 DEF TypeOK, CmdType
    <3> QED BY <3>1 DEF TaskInv
  <2>2. CASE cmd.pc # "edit"
    BY <1>1, <2>2 DEF CmdIdle
  <2> QED BY <2>1, <2>2
<1>5. PICK p : p = PassIdle
  OBVIOUS
<1>6. p \in PassType /\ ClaimsOK(p) /\ p.acc = {}
  BY <1>5, IdlePass
<1>7. TypeOK'
  <2>1. faults' \in 0 .. MaxFaults
    BY <1>1, StatSyncAssumption DEF TypeOK
  <2> QED BY <1>1, <1>2, <1>3, <1>5, <1>6, <2>1 DEF TypeOK
<1>8. TaskInv'
  BY <1>2, <1>4 DEF TaskInv
<1>9. rows' \in Rows /\ StoreStep
  <2>1. \A t \in Sessions, j \in Snaps :
            Creating(t, j)' => Creating(t, j) \/ <<t, j>> \notin taken
    BY <1>2 DEF Creating
  <2> QED BY <1>1, <2>1, RowsAlone
<1>10. ClaimInv'
  BY <1>1, <1>5, <1>6, <1>9, ClaimInvStep
<1>11. DeletedInv'
  BY <1>1 DEF DeletedInv
<1> QED BY <1>7, <1>8, <1>9, <1>10, <1>11, Together

-----------------------------------------------------------------------------
(* The invariant is inductive. *)

\* At start nothing is stored and nobody is at work.
LEMMA InitInv == Init => IInv
<1> SUFFICES ASSUME Init PROVE IInv
  OBVIOUS
<1>1. TypeOK
  <2>1. capture \in CaptureType
    BY DEF Init, CaptureIdle, CaptureType
  <2>2. cmd \in CmdType
    BY DEF Init, CmdIdle, CmdType
  <2>3. pass \in PassType
    BY IdlePass DEF Init
  <2>4. edits \in 0 .. MaxEdits /\ faults \in 0 .. MaxFaults
    BY StatSyncAssumption DEF Init
  <2> QED BY <2>1, <2>2, <2>3, <2>4 DEF Init, TypeOK
<1>2. TaskInv
  BY DEF Init, TaskInv, CaptureIdle, CmdIdle
<1>3. RowInv
  BY DEF Init, RowInv
<1>4. SyncedInv
  BY DEF Init, SyncedInv, CasHit, Claims
<1>5. ClaimInv
  BY IdlePass DEF Init, ClaimInv
<1>6. DeletedInv
  BY DEF Init, DeletedInv
<1> QED BY <1>1, <1>2, <1>3, <1>4, <1>5, <1>6 DEF IInv

\* Every step of the three tasks keeps the invariant.
LEMMA NextInv == IInv /\ [Next]_vars => IInv'
<1> SUFFICES ASSUME IInv, [Next]_vars PROVE IInv'
  OBVIOUS
<1>1. CASE CaptureNext
  BY <1>1, InsertCheckStep, InsertCreateStep, RecheckStep DEF CaptureNext
<1>2. CASE MainLoopNext
  <2>1. CASE \E s \in Sessions, decided \in BOOLEAN :
                set_session_outcome(s, decided)
    BY <2>1, OutcomeStep
  <2>2. CASE \E s \in Sessions, map \in Maps : set_session_map(s, map)
    BY <2>2, MapStep
  <2>3. CASE \E s \in Sessions, map \in (Maps \ {"blank"}) \cup {NONE} :
                EditStart(s, map)
    BY <2>3, EditStartStep
  <2>4. CASE \E s \in Sessions : clear_upload_reject(s)
    BY <2>4, ClearStep
  <2>5. CASE \E s \in Sessions : DeleteMark(s)
    BY <2>5, DeleteMarkStep
  <2>6. CASE EditRow \/ DeleteCommit \/ DeleteFailed
    BY <2>6, EditRowStep, DeleteCommitStep, DeleteFailedStep
  <2> QED BY <1>2, <2>1, <2>2, <2>3, <2>4, <2>5, <2>6 DEF MainLoopNext
<1>3. CASE PassNext
  <2>1. CASE PassStart
    BY <2>1, PassStartStep
  <2>2. CASE \E s \in Sessions : SettleStart(s)
    BY <2>2, SettleStartStep
  <2>3. CASE PassStep
    BY <2>3, MarkCasStep, MarkUndoStep, GroupDoneStep, MarkDoneStep,
       GetUnsyncedStep, RetireCheckStep, QueueStep, PendingStep, SupersedeStep,
       QuarantineStep, ClearTombsStep DEF PassStep
  <2>4. CASE UploadAccepted
    BY <2>4, AcceptedStep
  <2>5. CASE UploadFault
    BY <2>5, PartlyStep, FailedStep, AnswerLostStep DEF UploadFault
  <2> QED BY <1>3, <2>1, <2>2, <2>3, <2>4, <2>5 DEF PassNext
<1>4. CASE Crash
  BY <1>4, CrashStep
<1>5. CASE UNCHANGED vars
  <2>1. /\ rows' = rows /\ final' = final /\ tombs' = tombs
        /\ deletedHere' = deletedHere /\ capture' = capture /\ cmd' = cmd
        /\ pass' = pass /\ site' = site /\ taken' = taken /\ gone' = gone
        /\ sent' = sent /\ edits' = edits /\ faults' = faults
    BY <1>5 DEF vars
  <2>2. TypeOK' /\ TaskInv' /\ DeletedInv'
    BY <2>1 DEF IInv, TypeOK, TaskInv, DeletedInv
  <2>3. rows' \in Rows /\ StoreStep
    BY <2>1, CaptureAlone, RowsAlone DEF IInv
  <2>4. ClaimInv'
    BY <2>1, <2>3, PassAlone DEF IInv
  <2> QED BY <2>2, <2>3, <2>4, Together
<1> QED BY <1>1, <1>2, <1>3, <1>4, <1>5 DEF Next

-----------------------------------------------------------------------------
(* Where no command overlaps an insert and no delete a collecting pass. *)

\* A step that puts no row into the table and gives nobody new work.
LEMMA GoneAlone ==
    ASSUME IInv, GoneInv, gone' = gone, capture' = capture,
           cmd'.pc = cmd.pc \/ cmd'.pc = "idle",
           cmd'.s = cmd.s \/ cmd'.s = NONE,
           \A s \in Sessions, i \in Snaps :
              rows'[s][i] # NONE => rows[s][i] # NONE
    PROVE  GoneInv'
<1>1. gone \subseteq Sessions /\ NONE \notin gone
  BY NoneApart DEF IInv, TypeOK
<1> QED BY <1>1 DEF GoneInv

\* A step of the other tasks, except a delete that commits.
LEMMA TombsAlone ==
    ASSUME TombInv, DeletedIsTombstoned, gone' = gone, pass' = pass,
           tombs' = tombs, site' = site
    PROVE  TombInv' /\ DeletedIsTombstoned'
BY DEF TombInv, DeletedIsTombstoned, Collecting

\* The capture task never touches a deleted game.
LEMMA CaptureApart ==
    ASSUME IInv, ApartInv, ~Overlap, CaptureNext
    PROVE  ApartInv'
<1>1. gone \subseteq Sessions /\ NONE \notin gone
  BY NoneApart DEF IInv, TypeOK
<1>2. ASSUME NEW s \in Sessions, NEW i \in Snaps, NEW map \in CapturedMaps,
             InsertCheck(s, i, map)
      PROVE  ApartInv'
  <2>1. /\ rows' = rows /\ cmd' = cmd /\ gone' = gone /\ pass' = pass
        /\ tombs' = tombs /\ site' = site
        /\ cmd.pc = "idle" /\ s \notin gone /\ capture'.s = s
    BY <1>2 DEF InsertCheck, store
  <2>2. GoneInv'
    BY <2>1 DEF ApartInv, GoneInv
  <2> QED BY <2>1, <2>2, TombsAlone DEF ApartInv
<1>3. CASE InsertCreate
  <2>1. /\ cmd' = cmd /\ gone' = gone /\ pass' = pass
        /\ tombs' = tombs /\ site' = site
        /\ capture.pc = "create" /\ capture' = [capture EXCEPT !.pc = "recheck"]
    BY <1>3 DEF InsertCreate, history
  <2>2. capture'.s = capture.s
    BY <2>1 DEF IInv, TypeOK, CaptureType
  <2>3. \A t \in Sessions, i \in Snaps :
            Creating(t, i) \/ rows'[t][i] = rows[t][i]
    BY <1>3, CreatedRows DEF IInv
  <2>4. GoneInv'
    BY <1>1, <2>1, <2>2, <2>3 DEF ApartInv, GoneInv, Creating
  <2> QED BY <2>1, <2>4, TombsAlone DEF ApartInv
<1>4. CASE drop_if_deleted_meanwhile
  <2>1. /\ cmd' = cmd /\ gone' = gone /\ pass' = pass
        /\ tombs' = tombs /\ site' = site /\ capture' = CaptureIdle
    BY <1>4 DEF drop_if_deleted_meanwhile, history
  <2>2. capture'.s = NONE /\ capture'.pc = "idle"
    BY <2>1 DEF CaptureIdle
  <2>3. \A t \in Sessions, i \in Snaps :
            rows'[t][i] = NONE \/ rows'[t][i] = rows[t][i]
    BY <1>4, RecheckedRows DEF IInv
  <2>4. GoneInv'
    BY <1>1, <2>1, <2>2, <2>3 DEF ApartInv, GoneInv
  <2> QED BY <2>1, <2>4, TombsAlone DEF ApartInv
<1> QED BY <1>2, <1>3, <1>4 DEF CaptureNext

\* The main loop queues the server delete of every game it deletes.
LEMMA MainLoopApart ==
    ASSUME IInv, ApartInv, ~Overlap, MainLoopNext
    PROVE  ApartInv'
<1> USE DEF ApartInv
<1>1. gone \subseteq Sessions /\ NONE \notin gone
  BY NoneApart DEF IInv, TypeOK
<1>2. ASSUME NEW s \in Sessions, NEW decided \in BOOLEAN,
             set_session_outcome(s, decided)
      PROVE  ApartInv'
  <2>1. /\ capture' = capture /\ cmd' = cmd /\ gone' = gone /\ pass' = pass
        /\ tombs' = tombs /\ site' = site
    BY <1>2 DEF set_session_outcome, Backfill, history
  <2>2. \A t \in Sessions, i \in Snaps :
            rows'[t][i] # NONE => rows[t][i] # NONE
    BY <1>2, OutcomeRows DEF IInv
  <2> QED BY <2>1, <2>2, GoneAlone, TombsAlone
<1>3. ASSUME NEW s \in Sessions, NEW map \in Maps, set_session_map(s, map)
      PROVE  ApartInv'
  <2>1. /\ capture' = capture /\ cmd' = cmd /\ gone' = gone /\ pass' = pass
        /\ tombs' = tombs /\ site' = site
    BY <1>3 DEF set_session_map, Backfill, history
  <2>2. \A t \in Sessions, i \in Snaps :
            rows'[t][i] # NONE => rows[t][i] # NONE
    BY <1>3, MapRows DEF IInv
  <2> QED BY <2>1, <2>2, GoneAlone, TombsAlone
<1>4. ASSUME NEW s \in Sessions, clear_upload_reject(s)
      PROVE  ApartInv'
  <2>1. /\ capture' = capture /\ cmd' = cmd /\ gone' = gone /\ pass' = pass
        /\ tombs' = tombs /\ site' = site
    BY <1>4 DEF clear_upload_reject, history
  <2>2. \A t \in Sessions, i \in Snaps :
            rows'[t][i] # NONE => rows[t][i] # NONE
    BY <1>4, ClearRows DEF IInv
  <2> QED BY <2>1, <2>2, GoneAlone, TombsAlone
<1>5. ASSUME NEW s \in Sessions, NEW map \in (Maps \ {"blank"}) \cup {NONE},
             EditStart(s, map)
      PROVE  ApartInv'
  <2>1. /\ rows' = rows /\ capture' = capture /\ gone' = gone /\ pass' = pass
        /\ tombs' = tombs /\ site' = site
        /\ capture.pc = "idle" /\ s \notin gone
        /\ cmd' = [cmd EXCEPT !.pc = "edit", !.s = s, !.map = map,
                              !.todo = Present(s)]
    BY <1>5 DEF EditStart, history, store
  <2>2. cmd'.s = s
    BY <2>1 DEF IInv, TypeOK, CmdType
  <2>3. GoneInv'
    BY <2>1, <2>2 DEF GoneInv
  <2> QED BY <2>1, <2>3, TombsAlone
<1>6. ASSUME NEW s \in Sessions, DeleteMark(s)
      PROVE  ApartInv'
  <2>1. /\ rows' = rows /\ capture' = capture /\ gone' = gone /\ pass' = pass
        /\ tombs' = tombs /\ site' = site
        /\ capture.pc = "idle" /\ Present(s) # {}
        /\ cmd' = [cmd EXCEPT !.pc = "delete", !.s = s,
                              !.newly = s \notin deletedHere]
    BY <1>6 DEF DeleteMark, history, store
  <2>2. cmd'.s = s
    BY <2>1 DEF IInv, TypeOK, CmdType
  <2>3. s \notin gone
    BY <2>1 DEF GoneInv, Present
  <2>4. GoneInv'
    BY <2>1, <2>2, <2>3 DEF GoneInv
  <2> QED BY <2>1, <2>4, TombsAlone
<1>7. CASE EditRow
  <2>1. /\ capture' = capture /\ gone' = gone /\ pass' = pass
        /\ tombs' = tombs /\ site' = site
    BY <1>7 DEF EditRow, history
  <2>2. \A t \in Sessions, i \in Snaps :
            rows'[t][i] # NONE => rows[t][i] # NONE
    BY <1>7, EditRows DEF IInv
  <2>3. \/ cmd'.pc = cmd.pc /\ cmd'.s = cmd.s
        \/ cmd'.pc = "idle" /\ cmd'.s = NONE
    <3>1. PICK T : \/ cmd' = CmdIdle
                   \/ cmd' = [cmd EXCEPT !.todo = T]
      BY <1>7, Zenon DEF EditRow
    <3> QED BY <3>1 DEF CmdIdle, IInv, TypeOK, CmdType
  <2> QED BY <2>1, <2>2, <2>3, GoneAlone, TombsAlone
<1>8. CASE DeleteCommit
  <2>1. /\ capture' = capture /\ pass' = pass /\ site' = site
        /\ tombs' = tombs \cup {cmd.s} /\ gone' = gone \cup {cmd.s}
        /\ cmd.pc = "delete" /\ cmd' = CmdIdle /\ ~Collecting
    BY <1>8 DEF DeleteCommit
  <2>2. cmd'.pc = "idle" /\ cmd'.s = NONE
    BY <2>1 DEF CmdIdle
  <2>3. /\ cmd.s \in Sessions
        /\ \A t \in Sessions, i \in Snaps :
              rows'[t][i] = IF t = cmd.s THEN NONE ELSE rows[t][i]
    BY <1>8, DeletedRows DEF IInv
  <2>4. capture.s = NONE
    BY <2>1 DEF GoneInv, IInv, TaskInv
  <2>5. GoneInv'
    BY <1>1, <2>1, <2>2, <2>3, <2>4, NoneApart DEF GoneInv
  <2>6. TombInv'
    BY <2>1 DEF TombInv, Collecting
  <2>7. DeletedIsTombstoned'
    BY <2>1 DEF DeletedIsTombstoned
  <2> QED BY <2>5, <2>6, <2>7
<1>9. CASE DeleteFailed
  <2>1. /\ rows' = rows /\ capture' = capture /\ gone' = gone /\ pass' = pass
        /\ tombs' = tombs /\ site' = site /\ cmd' = CmdIdle
    BY <1>9 DEF DeleteFailed, history, store
  <2>2. cmd'.pc = "idle" /\ cmd'.s = NONE
    BY <2>1 DEF CmdIdle
  <2> QED BY <2>1, <2>2, GoneAlone, TombsAlone
<1> QED BY <1>2, <1>3, <1>4, <1>5, <1>6, <1>7, <1>8, <1>9 DEF MainLoopNext

\* A step of the pass that sends nothing and clears no tombstone.
LEMMA TombsKept ==
    ASSUME TombInv, DeletedIsTombstoned, gone' = gone, site' = site,
           tombs \subseteq tombs', NEW p, pass' = p,
           p.upload = pass.upload, p.deletes = pass.deletes,
           \/ p.pc = pass.pc
           \/ pass.pc \in {"split", "queue", "marklocal"}
                /\ p.pc \in {"queue", "marklocal", "tombs"}
           \/ pass.pc \in Answered /\ p.pc \in Answered
           \/ p.pc \in {"read", "marksettle"}
    PROVE  TombInv' /\ DeletedIsTombstoned'
<1>1. DeletedIsTombstoned'
  BY DEF DeletedIsTombstoned
<1>2. CASE p.pc = pass.pc
  BY <1>1, <1>2 DEF TombInv, Collecting
<1>3. CASE pass.pc \in {"split", "queue", "marklocal"}
             /\ p.pc \in {"queue", "marklocal", "tombs"}
  BY <1>1, <1>3 DEF TombInv, Collecting, Answered
<1>4. CASE pass.pc \in Answered /\ p.pc \in Answered
  BY <1>1, <1>4 DEF TombInv, Collecting, Answered
<1>5. CASE p.pc \in {"read", "marksettle"}
  BY <1>1, <1>5 DEF TombInv, Collecting, Answered
<1> QED BY <1>1, <1>2, <1>3, <1>4, <1>5

\* A pass that is over, or begins.
LEMMA TombsIdle ==
    ASSUME pass'.pc \in {"idle", "read"}
    PROVE  TombInv'
BY DEF TombInv, Collecting, Answered

\* The site's answer: what it stored of a deleted game has a tombstone, and
\* what it was told to delete is gone.
LEMMA TombsAnswered ==
    ASSUME IInv, TombInv, DeletedIsTombstoned, pass.pc = "upload",
           NEW A \in SUBSET pass.upload, SiteApplies(A), gone' = gone,
           tombs' = tombs, NEW p, pass' = p,
           p.pc = "idle" \/ (/\ p.pc = "ack"
                             /\ p.upload = pass.upload
                             /\ p.deletes = pass.deletes)
    PROVE  TombInv' /\ DeletedIsTombstoned'
<1>1. gone \subseteq Sessions /\ pass.deletes \subseteq Sessions
  BY DEF IInv, TypeOK, PassType
<1>2. \A s \in Sessions :
          /\ s \in pass.deletes => site'[s] = NONE
          /\ s \notin pass.deletes /\ (\A c \in A : c.s # s)
             => site'[s] = site[s]
  BY SiteTyped
<1>3. DeletedIsTombstoned'
  <2> SUFFICES ASSUME NEW s \in gone, site'[s] # NONE, s \notin tombs
               PROVE  FALSE
    BY DEF DeletedIsTombstoned
  <2>1. s \notin pass.deletes
    BY <1>1, <1>2
  <2>2. \A c \in A : c.s # s
    BY DEF TombInv
  <2>3. site[s] # NONE
    BY <1>1, <1>2, <2>1, <2>2
  <2> QED BY <2>3 DEF DeletedIsTombstoned
<1>4. CASE p.pc = "idle"
  BY <1>3, <1>4, TombsIdle
<1>5. CASE /\ p.pc = "ack"
           /\ p.upload = pass.upload
           /\ p.deletes = pass.deletes
  BY <1>1, <1>2, <1>3, <1>5 DEF TombInv, Collecting, Answered
<1> QED BY <1>4, <1>5

\* The pass neither brings back a deleted game nor drops its tombstone.
LEMMA PassApart ==
    ASSUME IInv, ApartInv, PassNext
    PROVE  ApartInv'
<1> USE DEF ApartInv
<1>1. PICK q \in PassType : q = pass
  BY DEF IInv, TypeOK
<1>2. PassOnly
  BY DEF PassNext, PassStep, UploadFault, PassStart, SettleStart, MarkCas,
     MarkUndo, GroupDone, MarkDone, GetUnsynced, RetireCheck, queue_tombstones,
     get_pending_tombstones, split_superseded_tombstones, quarantine_upload,
     clear_acknowledged_tombstones, UploadAccepted, UploadPartly, UploadFailed,
     UploadAnswerLost
<1>3. gone' = gone /\ cmd' = cmd /\ capture' = capture
  BY <1>2 DEF PassOnly
<1>4. (\A s \in Sessions, i \in Snaps : rows'[s][i] # NONE => rows[s][i] # NONE)
      => GoneInv'
  BY <1>3, GoneAlone
<1>5. rows' = rows => GoneInv'
  BY <1>4
<1>6. PassIdle.pc = "idle" /\ [PassIdle EXCEPT !.pc = "read"].pc = "read"
  BY DEF PassIdle
<1>7. CASE PassStart
  <2>1. /\ rows' = rows /\ tombs' = tombs /\ site' = site
        /\ pass' = [PassIdle EXCEPT !.pc = "read"]
    BY <1>7 DEF PassStart, store
  <2>2. TombInv'
    BY <1>6, <2>1, TombsIdle
  <2>3. DeletedIsTombstoned'
    BY <1>3, <2>1 DEF DeletedIsTombstoned
  <2> QED BY <1>5, <2>1, <2>2, <2>3
<1>8. ASSUME NEW s \in Sessions, SettleStart(s)
      PROVE  ApartInv'
  <2>1. PICK C : /\ rows' = rows /\ tombs' = tombs /\ site' = site
                 /\ pass' = MarkThen("marksettle", C)
    BY <1>8 DEF SettleStart, store
  <2>2. PICK p : p = [q EXCEPT !.pc = "marksettle", !.todo = C, !.group = NONE,
                               !.marked = {}, !.miss = FALSE]
    OBVIOUS
  <2>3. pass' = p
    BY <1>1, <2>1, <2>2 DEF MarkThen
  <2>4. p.pc = "marksettle" /\ p.upload = q.upload /\ p.deletes = q.deletes
    BY <2>2 DEF PassType
  <2> QED BY <1>1, <1>3, <1>5, <2>1, <2>3, <2>4, TombsKept
<1>9. ASSUME \A s \in Sessions, i \in Snaps :
                rows'[s][i] # NONE => rows[s][i] # NONE,
             NEW T, NEW g, NEW M, NEW b,
             pass' = [pass EXCEPT !.todo = T, !.group = g, !.marked = M,
                                  !.miss = b],
             tombs' = tombs, site' = site
      PROVE  ApartInv'
  <2>1. PICK p : p = [q EXCEPT !.todo = T, !.group = g, !.marked = M,
                               !.miss = b]
    OBVIOUS
  <2>2. pass' = p
    BY <1>1, <1>9, <2>1
  <2>3. p.pc = q.pc /\ p.upload = q.upload /\ p.deletes = q.deletes
    BY <2>1 DEF PassType
  <2> QED BY <1>1, <1>3, <1>4, <1>9, <2>2, <2>3, TombsKept
<1>10. CASE MarkCas
  <2>1. PICK c \in pass.todo :
            /\ cas_set_synced(c, TRUE)
            /\ pass' = [pass EXCEPT !.todo = @ \ {c}, !.group = c.s,
                   !.marked = IF CasHit(c) THEN @ \cup {c} ELSE @,
                   !.miss = @ \/ ~CasHit(c)]
            /\ tombs' = tombs /\ site' = site
    BY <1>10 DEF MarkCas
  <2>2. c \in Claims
    BY ClaimAt
  <2>3. PICK T, g, M, b :
            pass' = [pass EXCEPT !.todo = T, !.group = g, !.marked = M,
                                 !.miss = b]
    BY <2>1
  <2>4. \A t \in Sessions, i \in Snaps :
            rows'[t][i] # NONE => rows[t][i] # NONE
    BY <2>1, <2>2, CasRows DEF IInv
  <2>5. tombs' = tombs /\ site' = site
    BY <2>1
  <2> QED BY <1>9, <2>3, <2>4, <2>5, Zenon
<1>11. CASE MarkUndo
  <2>1. PICK c \in pass.marked :
            /\ cas_set_synced(c, FALSE)
            /\ pass' = [pass EXCEPT !.marked = @ \ {c}]
            /\ tombs' = tombs /\ site' = site
    BY <1>11 DEF MarkUndo
  <2>2. c \in Claims
    BY ClaimAt
  <2>3. PICK T, g, M, b :
            pass' = [pass EXCEPT !.todo = T, !.group = g, !.marked = M,
                                 !.miss = b]
    <3>1. pass' = [pass EXCEPT !.todo = q.todo, !.group = q.group,
                               !.marked = q.marked \ {c}, !.miss = q.miss]
      BY <1>1, <2>1 DEF PassType
    <3> QED BY <3>1, Zenon
  <2>4. \A t \in Sessions, i \in Snaps :
            rows'[t][i] # NONE => rows[t][i] # NONE
    BY <2>1, <2>2, CasRows DEF IInv
  <2>5. tombs' = tombs /\ site' = site
    BY <2>1
  <2> QED BY <1>9, <2>3, <2>4, <2>5, Zenon
<1>12. CASE GroupDone
  <2>1. /\ rows' = rows /\ tombs' = tombs /\ site' = site
        /\ pass' = [q EXCEPT !.group = NONE, !.marked = {}, !.miss = FALSE]
    BY <1>1, <1>12 DEF GroupDone, store
  <2>2. PICK p : p = [q EXCEPT !.group = NONE, !.marked = {}, !.miss = FALSE]
    OBVIOUS
  <2>3. p.pc = q.pc /\ p.upload = q.upload /\ p.deletes = q.deletes
    BY <2>2 DEF PassType
  <2> QED BY <1>1, <1>3, <1>5, <2>1, <2>2, <2>3, TombsKept
<1>13. CASE MarkDone
  <2>1. PICK pc : /\ pass' = [q EXCEPT !.pc = pc]
                  /\ \/ pc = "read"
                     \/ q.pc = "marklocal" /\ pc = "tombs"
                     \/ q.pc = "mark" /\ pc = "clear"
    BY <1>1, <1>13 DEF MarkDone, Marking
  <2>2. PICK p : p = [q EXCEPT !.pc = pc]
    OBVIOUS
  <2>3. p.pc = pc /\ p.upload = q.upload /\ p.deletes = q.deletes
    BY <2>2 DEF PassType
  <2>4. rows' = rows /\ tombs' = tombs /\ site' = site
    BY <1>13 DEF MarkDone, store
  <2> QED BY <1>1, <1>3, <1>5, <2>1, <2>2, <2>3, <2>4, TombsKept DEF Answered
<1>14. CASE GetUnsynced
  <2>1. PICK L, S, R, U :
            /\ pass' = [q EXCEPT !.pc = "split", !.local = L, !.retire = R,
                                 !.send = S, !.upload = U]
            /\ U = UNION {{Claim(s, i, rows[s][i].sync_rev) :
                              i \in {j \in Batch(s) \ KeptLocal(s) :
                                     /\ j = Newest(Batch(s) \ KeptLocal(s))
                                     /\ ~row_needs_review(rows[s][j])}} :
                           s \in Sessions}
    BY <1>1, <1>14 DEF GetUnsynced, ClaimsOf
  <2>2. ASSUME NEW c \in U
        PROVE  c.s \notin gone
    <3>1. PICK s \in Sessions :
              c \in {Claim(s, i, rows[s][i].sync_rev) :
                        i \in {j \in Batch(s) \ KeptLocal(s) :
                                  /\ j = Newest(Batch(s) \ KeptLocal(s))
                                  /\ ~row_needs_review(rows[s][j])}}
      BY <2>1, <2>2, Zenon
    <3>2. PICK i \in Batch(s) : c = Claim(s, i, rows[s][i].sync_rev)
      BY <3>1, Zenon
    <3>3. i \in Snaps /\ rows[s][i] # NONE
      BY ReadClaims
    <3>4. c.s = s
      BY <3>2, <3>3, ClaimOfRow
    <3> QED BY <3>3, <3>4 DEF GoneInv
  <2>3. PICK p : p = [q EXCEPT !.pc = "split", !.local = L, !.retire = R,
                               !.send = S, !.upload = U]
    OBVIOUS
  <2>4. p.pc = "split" /\ p.upload = U
    BY <2>3 DEF PassType
  <2>5. pass' = p
    BY <2>1, <2>3
  <2>6. rows' = rows /\ tombs' = tombs /\ site' = site
    BY <1>14 DEF GetUnsynced, store
  <2>7. TombInv'
    BY <1>3, <2>2, <2>4, <2>5 DEF TombInv, Answered
  <2>8. DeletedIsTombstoned'
    BY <1>3, <2>6 DEF DeletedIsTombstoned
  <2> QED BY <1>5, <2>6, <2>7, <2>8
<1>15. CASE RetireCheck
  <2>1. PICK R, pc :
            /\ pass' = [q EXCEPT !.pc = pc, !.retire = R]
            /\ pc \in {"tombs", "queue"} /\ q.pc = "split"
    BY <1>1, <1>15 DEF RetireCheck
  <2>2. PICK p : p = [q EXCEPT !.pc = pc, !.retire = R]
    OBVIOUS
  <2>3. p.pc = pc /\ p.upload = q.upload /\ p.deletes = q.deletes
    BY <2>2 DEF PassType
  <2>4. rows' = rows /\ tombs' = tombs /\ site' = site
    BY <1>15 DEF RetireCheck, store
  <2> QED BY <1>1, <1>3, <1>5, <2>1, <2>2, <2>3, <2>4, TombsKept
<1>16. CASE queue_tombstones
  <2>1. /\ pass' = MarkThen("marklocal", q.local) /\ q.pc = "queue"
        /\ rows' = rows /\ site' = site /\ tombs \subseteq tombs'
    BY <1>1, <1>16 DEF queue_tombstones
  <2>2. PICK p : p = [q EXCEPT !.pc = "marklocal", !.todo = q.local,
                               !.group = NONE, !.marked = {}, !.miss = FALSE]
    OBVIOUS
  <2>3. pass' = p
    BY <1>1, <2>1, <2>2 DEF MarkThen
  <2>4. p.pc = "marklocal" /\ p.upload = q.upload /\ p.deletes = q.deletes
    BY <2>2 DEF PassType
  <2> QED BY <1>1, <1>3, <1>5, <2>1, <2>3, <2>4, TombsKept
<1>17. CASE get_pending_tombstones
  <2>1. /\ q.pc = "tombs" /\ rows' = rows /\ site' = site /\ tombs' = tombs
        /\ \/ pass' = PassIdle
           \/ pass' = [q EXCEPT !.pc = "supersede", !.deletes = tombs]
    BY <1>1, <1>17 DEF get_pending_tombstones, store
  <2>2. DeletedIsTombstoned'
    BY <1>3, <2>1 DEF DeletedIsTombstoned
  <2>3. CASE pass' = PassIdle
    BY <1>5, <1>6, <2>1, <2>2, <2>3, TombsIdle
  <2>4. CASE pass' = [q EXCEPT !.pc = "supersede", !.deletes = tombs]
    <3>1. pass'.pc = "supersede" /\ pass'.upload = q.upload
      BY <2>4 DEF PassType
    <3>2. TombInv'
      BY <1>1, <1>3, <2>1, <3>1 DEF TombInv, Collecting, Answered
    <3> QED BY <1>5, <2>1, <2>2, <3>2
  <2> QED BY <2>1, <2>3, <2>4
<1>18. CASE split_superseded_tombstones
  <2>1. PICK D :
           /\ q.pc = "supersede" /\ rows' = rows /\ site' = site
           /\ tombs' = tombs \ (q.deletes \cap Uploading)
           /\ D = q.deletes \ Uploading
           /\ \/ pass' = PassIdle
              \/ pass' = [q EXCEPT !.pc = "upload", !.deletes = D]
    BY <1>1, <1>18 DEF split_superseded_tombstones
  <2>2. \A c \in q.upload : c.s \notin gone /\ c.s \in Uploading
    BY <1>1, <2>1 DEF TombInv, Collecting, Uploading
  <2>3. \A s \in Uploading : s \notin gone
    BY <1>1, <2>2 DEF Uploading
  <2>4. DeletedIsTombstoned'
    BY <1>3, <2>1, <2>3 DEF DeletedIsTombstoned
  <2>5. CASE pass' = PassIdle
    BY <1>5, <1>6, <2>1, <2>4, <2>5, TombsIdle
  <2>6. CASE pass' = [q EXCEPT !.pc = "upload", !.deletes = D]
    <3>1. pass'.pc = "upload" /\ pass'.upload = q.upload /\ pass'.deletes = D
      BY <2>6 DEF PassType
    <3>2. TombInv'
      BY <1>3, <2>1, <2>2, <3>1 DEF TombInv, Collecting, Answered
    <3> QED BY <1>5, <2>1, <2>4, <3>2
  <2> QED BY <2>1, <2>5, <2>6
<1>19. CASE quarantine_upload
  <2>1. /\ pass' = MarkThen("mark", claims_covering(q.acc)) /\ q.pc = "ack"
        /\ site' = site /\ tombs' = tombs
    BY <1>1, <1>19 DEF quarantine_upload
  <2>2. PICK p : p = [q EXCEPT !.pc = "mark", !.todo = claims_covering(q.acc),
                               !.group = NONE, !.marked = {}, !.miss = FALSE]
    OBVIOUS
  <2>3. pass' = p
    BY <1>1, <2>1, <2>2 DEF MarkThen
  <2>4. p.pc = "mark" /\ p.upload = q.upload /\ p.deletes = q.deletes
    BY <2>2 DEF PassType
  <2>5. GoneInv'
    BY <1>4, <1>19, QuarantinedRows DEF IInv
  <2>6. q.pc \in Answered /\ p.pc \in Answered
    BY <2>1, <2>4 DEF Answered
  <2> QED BY <1>1, <1>3, <2>1, <2>3, <2>4, <2>5, <2>6, TombsKept
<1>20. CASE clear_acknowledged_tombstones
  <2>1. /\ pass.pc = "clear" /\ pass' = PassIdle /\ tombs' = tombs \ pass.deletes
        /\ rows' = rows /\ site' = site
    BY <1>20 DEF clear_acknowledged_tombstones
  <2>2. \A s \in pass.deletes : site[s] = NONE
    BY <2>1 DEF TombInv, Answered
  <2>3. DeletedIsTombstoned'
    BY <1>3, <2>1, <2>2 DEF DeletedIsTombstoned
  <2> QED BY <1>5, <1>6, <2>1, <2>3, TombsIdle
<1>21. CASE UploadAccepted
  <2>1. /\ pass.pc = "upload" /\ SiteApplies(pass.upload) /\ rows' = rows
        /\ tombs' = tombs /\ pass' = [q EXCEPT !.pc = "ack", !.acc = q.upload]
    BY <1>1, <1>21 DEF UploadAccepted, store
  <2>2. PICK p : p = [q EXCEPT !.pc = "ack", !.acc = q.upload]
    OBVIOUS
  <2>3. p.pc = "ack" /\ p.upload = q.upload /\ p.deletes = q.deletes
    BY <2>2 DEF PassType
  <2>4. PICK A \in SUBSET pass.upload : A = pass.upload
    OBVIOUS
  <2>5. TombInv' /\ DeletedIsTombstoned'
    BY <1>1, <1>3, <2>1, <2>2, <2>3, <2>4, TombsAnswered
  <2> QED BY <1>5, <2>1, <2>5
<1>22. ASSUME NEW A \in SUBSET pass.upload, NEW B \in SUBSET pass.upload,
              UploadPartly(A, B)
       PROVE  ApartInv'
  <2>1. /\ pass.pc = "upload" /\ SiteApplies(A) /\ rows' = rows
        /\ tombs' = tombs
        /\ pass' = [q EXCEPT !.pc = "ack", !.acc = A, !.rej = B]
    BY <1>1, <1>22 DEF UploadPartly, store
  <2>2. PICK p : p = [q EXCEPT !.pc = "ack", !.acc = A, !.rej = B]
    OBVIOUS
  <2>3. p.pc = "ack" /\ p.upload = q.upload /\ p.deletes = q.deletes
    BY <2>2 DEF PassType
  <2>4. TombInv' /\ DeletedIsTombstoned'
    BY <1>1, <1>3, <2>1, <2>2, <2>3, TombsAnswered
  <2> QED BY <1>5, <2>1, <2>4
<1>23. CASE UploadFailed
  <2>1. /\ pass' = PassIdle /\ tombs' = tombs /\ rows' = rows /\ site' = site
    BY <1>23 DEF UploadFailed, store
  <2>2. DeletedIsTombstoned'
    BY <1>3, <2>1 DEF DeletedIsTombstoned
  <2> QED BY <1>5, <1>6, <2>1, <2>2, TombsIdle
<1>24. CASE UploadAnswerLost
  <2>1. /\ pass.pc = "upload" /\ SiteApplies(pass.upload) /\ rows' = rows
        /\ tombs' = tombs /\ pass' = PassIdle
    BY <1>24 DEF UploadAnswerLost, store
  <2>2. PICK A \in SUBSET pass.upload : A = pass.upload
    OBVIOUS
  <2>3. PICK p : p = PassIdle
    OBVIOUS
  <2>4. TombInv' /\ DeletedIsTombstoned'
    BY <1>3, <1>6, <2>1, <2>2, <2>3, TombsAnswered
  <2> QED BY <1>5, <2>1, <2>4
<1>25. CASE PassStep
  BY <1>10, <1>11, <1>12, <1>13, <1>14, <1>15, <1>16, <1>17, <1>18, <1>19,
     <1>20, <1>25 DEF PassStep
<1>26. CASE UploadFault
  BY <1>22, <1>23, <1>24, <1>26 DEF UploadFault
<1> QED BY <1>7, <1>8, <1>21, <1>25, <1>26 DEF PassNext

\* A restart: an edit that is applied again is not of a deleted game.
LEMMA CrashApart ==
    ASSUME IInv, ApartInv, Crash
    PROVE  ApartInv'
<1> USE DEF ApartInv
<1>1. /\ rows' = rows /\ tombs' = tombs /\ capture' = CaptureIdle
      /\ pass' = PassIdle /\ site' = site /\ gone' = gone
      /\ cmd' = IF cmd.pc = "edit" THEN [cmd EXCEPT !.todo = Present(cmd.s)]
                ELSE CmdIdle
  BY DEF Crash, store, history
<1>2. gone \subseteq Sessions /\ NONE \notin gone
  BY NoneApart DEF IInv, TypeOK
<1>3. capture'.pc = "idle" /\ capture'.s = NONE /\ pass'.pc = "idle"
  BY <1>1 DEF CaptureIdle, PassIdle
<1>4. cmd'.s = cmd.s \/ cmd'.s = NONE
  BY <1>1 DEF CmdIdle, IInv, TypeOK, CmdType
<1>5. GoneInv'
  BY <1>1, <1>2, <1>3, <1>4 DEF GoneInv
<1>6. TombInv'
  BY <1>3, TombsIdle
<1>7. DeletedIsTombstoned'
  BY <1>1 DEF DeletedIsTombstoned
<1> QED BY <1>5, <1>6, <1>7

\* Without overlap, the tombstones of deleted games are kept by every step.
LEMMA NextApart ==
    ASSUME ~Overlap
    PROVE  IInv /\ ApartInv /\ [Next]_vars => ApartInv'
<1> SUFFICES ASSUME IInv, ApartInv, [Next]_vars PROVE ApartInv'
  OBVIOUS
<1>1. CASE CaptureNext
  BY <1>1, CaptureApart
<1>2. CASE MainLoopNext
  BY <1>2, MainLoopApart
<1>3. CASE PassNext
  BY <1>3, PassApart
<1>4. CASE Crash
  BY <1>4, CrashApart
<1>5. CASE UNCHANGED vars
  <2>1. /\ rows' = rows /\ tombs' = tombs /\ capture' = capture /\ cmd' = cmd
        /\ pass' = pass /\ site' = site /\ gone' = gone
    BY <1>5 DEF vars
  <2> QED BY <2>1, GoneAlone, TombsAlone DEF ApartInv
<1> QED BY <1>1, <1>2, <1>3, <1>4, <1>5 DEF Next

-----------------------------------------------------------------------------
(* The theorems. *)

\* The store of the tracker and its three tasks keep their types, whatever
\* they interleave and whatever fails.
THEOREM StoreTyped == Spec => []TypeOK
<1>1. IInv => TypeOK
  BY DEF IInv
<1> QED BY <1>1, InitInv, NextInv, PTL DEF Spec

\* mark_synced never loses an edit: the final snapshot of a game the site
\* stores is marked only for the payload the site accepted.  The marks rest on
\* the compare and swap on sync_rev; a row that is marked without having been
\* sent is undecided, local-only, or covered by a later snapshot.
THEOREM EditsKept == Spec => []NoEditLost
<1>1. IInv => NoEditLost
  <2> SUFFICES ASSUME IInv, NEW s \in Sessions, NEW i, i = Max(DecidedRows(s)),
                      DecidedRows(s) # {},
                      rows[s][i].synced, ~row_is_local_only(rows[s][i]),
                      \A j \in Snaps : j > i /\ <<s, j>> \in taken
                                          => j \in Present(s)
               PROVE  Claim(s, i, rows[s][i].sync_rev) \in sent
    BY DEF NoEditLost
  <2>1. DecidedRows(s) \subseteq Snaps
    BY DEF DecidedRows, Present
  <2>2. i \in DecidedRows(s) /\ \A j \in DecidedRows(s) : j <= i
    BY <2>1, SnapsBounds
  <2>3. i \in Snaps /\ rows[s][i] # NONE /\ rows[s][i].decided
    BY <2>2 DEF DecidedRows, Present
  <2>4. PICK c : c = Claim(s, i, rows[s][i].sync_rev)
    OBVIOUS
  <2>5. /\ c \in Claims /\ c.s = s /\ c.i = i
        /\ c.sync_rev = rows[s][i].sync_rev
    BY <2>3, <2>4, ClaimOfRow
  <2>6. CasHit(c)
    BY <2>3, <2>5 DEF CasHit
  <2>7. Fine(c)
    BY <2>5, <2>6 DEF IInv, SyncedInv
  <2>8. ~Covered(s, i)
    <3> SUFFICES ASSUME NEW j \in Snaps, j > i,
                        Lost(s, j) \/ (rows[s][j] # NONE /\ rows[s][j].decided)
                 PROVE  FALSE
      BY DEF Covered
    <3>1. CASE Lost(s, j)
      BY <3>1 DEF Lost, Present
    <3>2. CASE rows[s][j] # NONE /\ rows[s][j].decided
      <4>1. j \in DecidedRows(s)
        BY <3>2 DEF DecidedRows, Present
      <4> QED BY <2>2, <2>3, <4>1 DEF Snaps
    <3> QED BY <3>1, <3>2
  <2> QED BY <2>3, <2>4, <2>5, <2>6, <2>7, <2>8 DEF Fine
<1> QED BY <1>1, InitInv, NextInv, PTL DEF Spec

\* A capture that was in flight at a delete does not bring the game back while
\* the process that deleted it runs: insert_match looks at deleted_here again
\* after its CREATE.
THEOREM StaysDeleted == Spec => []DeletedStaysDeleted
<1>1. IInv => DeletedStaysDeleted
  BY DEF IInv, DeletedInv, DeletedStaysDeleted, Present
<1> QED BY <1>1, InitInv, NextInv, PTL DEF Spec

\* Where no command overlaps an insert and no delete overlaps a pass that
\* collects, a deleted game that is on the site always has its server delete
\* queued, through lost answers, refusals and restarts.  The code lets them
\* overlap: these overlaps are the only way to lose the server delete.
THEOREM DeletesReachSite ==
    ASSUME ~Overlap
    PROVE  Spec => []DeletedIsTombstoned
<1>1. Init => ApartInv
  BY DEF Init, ApartInv, GoneInv, TombInv, DeletedIsTombstoned, CaptureIdle,
     CmdIdle, PassIdle, Collecting, Answered
<1>2. IInv /\ ApartInv /\ [Next]_vars => ApartInv'
  BY NextApart
<1>3. ApartInv => DeletedIsTombstoned
  BY DEF ApartInv
<1> QED BY <1>1, <1>2, <1>3, InitInv, NextInv, PTL DEF Spec

-----------------------------------------------------------------------------
(* What the site shows of a game that is at rest. *)

\* The last snapshot with a result.
Top(s, i) ==
    /\ rows[s][i] # NONE /\ rows[s][i].decided
    /\ \A j \in Snaps : j > i => rows[s][j] = NONE \/ ~rows[s][j].decided

\* The member's edit has yet to write the row.
InEdit(s, i) == cmd.pc = "edit" /\ cmd.s = s /\ i \in cmd.todo

\* The snapshot is the one the site should show, and counts as sent.
Rested(s, i) ==
    /\ Top(s, i)
    /\ rows[s][i].synced
    /\ ~row_is_local_only(rows[s][i])
    /\ ~InEdit(s, i)

\* The row will not be sent as it is.
Past(s, j) ==
    \/ rows[s][j] = NONE
    \/ ~rows[s][j].decided
    \/ rows[s][j].synced
    \/ rows[s][j].upload_reject

Batched(p) == p.local \cup p.send

\* The claims the pass has yet to mark.
Pend(p) ==
    CASE p.pc \in {"split", "queue"} -> p.local \cup p.send
      [] p.pc = "marklocal" -> p.todo \cup p.send
      [] p.pc = "mark" -> p.todo
      [] OTHER -> p.send

\* What the pass sends, or what the site accepted of it.
Judged(p) == IF p.pc = "mark" THEN p.acc ELSE p.upload

\* How the claims of a pass belong together, whatever happens to the rows.
BatchOK(p) ==
    /\ p.pc \in {"idle", "marksettle", "read"} =>
          p.local = {} /\ p.send = {} /\ p.upload = {} /\ p.deletes = {}
    /\ p.upload \subseteq p.send
    /\ \A u \in p.upload, d \in Batched(p) :
          d.s = u.s => d.i <= u.i /\ (d.i = u.i => d = u)
    /\ p.pc \in {"split", "queue"} =>
          \A s \in p.retire : \E c \in p.local : c.s = s
    /\ p.pc = "marklocal" => p.todo \cup p.marked \subseteq p.local
    /\ p.pc = "mark" =>
          \A c \in p.todo \cup p.marked :
             c \in p.send /\ \E u \in p.acc : u.s = c.s
    /\ \A c \in p.marked : c.s = p.group

\* While a claim still hits, the rows claimed with it are there with their
\* results, and one that was written since is of an edit that has yet to come
\* to this one.
RowsOK(p) ==
    \A c, d \in Batched(p) : c.s = d.s /\ CasHit(c) =>
        /\ rows[d.s][d.i] # NONE /\ rows[d.s][d.i].decided
        /\ d.i < c.i /\ ~CasHit(d) => InEdit(c.s, c.i)

\* What is marked without being sent is not the one to show.
LocalOK(p) ==
    /\ \A c \in p.local : CasHit(c) =>
          \/ row_is_local_only(rows[c.s][c.i])
          \/ \E d \in Batched(p) : d.s = c.s /\ d.i > c.i
    /\ p.pc = "marksettle" =>
          \A c \in p.todo \cup p.marked : CasHit(c) => ~rows[c.s][c.i].decided

\* Marks are taken back because a row of the group was written.
MissOK(p) ==
    p.pc \in {"marklocal", "mark"} /\ p.miss =>
        \E d \in Batched(p) : d.s = p.group /\ ~CasHit(d)

\* No older snapshot is left to be sent after the one uploaded.
OlderOK(p) ==
    p.pc # "clear" =>
        \A u \in Judged(p) : CasHit(u) /\ ~InEdit(u.s, u.i) =>
            \A j \in Snaps : j < u.i =>
                \/ Past(u.s, j)
                \/ \E d \in Pend(p) : d.s = u.s /\ d.i = j /\ CasHit(d)

HeldOK(p) == RowsOK(p) /\ LocalOK(p) /\ MissOK(p) /\ OlderOK(p)

\* The site has what it accepted, and no delete is on its way to it.
SiteOK(p) ==
    /\ p.pc \in {"ack", "mark"} =>
          \A u \in p.acc : site[u.s] = [snap |-> u.i, sync_rev |-> u.sync_rev]
    /\ p.pc = "supersede" => \A s \in tombs : s \in p.deletes \/ s \in gone
    /\ p.pc \in {"upload", "ack", "mark", "clear"} =>
          \A u \in p.upload : u.s \notin p.deletes /\ (u.s \in tombs => u.s \in gone)

\* The game the site should show is shown, nothing deletes it, and neither the
\* pass nor a later one sends an older snapshot of it.
ShowOK(p) ==
    \A s \in Sessions, i \in Snaps : Rested(s, i) =>
        /\ site[s] = [snap |-> i, sync_rev |-> rows[s][i].sync_rev]
        /\ s \notin tombs /\ s \notin p.deletes
        /\ \A j \in Snaps : j < i => Past(s, j)
        /\ \/ p.pc = "clear"
           \/ \A d \in Batched(p) : d.s # s
           \/ p.pc = "mark" /\ Claim(s, i, rows[s][i].sync_rev) \in p.acc

\* An edit goes up the snapshots, and no snapshot comes between.
EditInv ==
    cmd.pc = "edit" =>
        \A i \in cmd.todo, j \in Snaps :
            j > i /\ rows[cmd.s][j] # NONE => j \in cmd.todo

\* Snapshots are inserted in their order, and not into a game being deleted.
OrderInv ==
    /\ \A s \in Sessions, j, k \in Snaps :
          Creating(s, j) /\ <<s, k>> \in taken => k <= j
    /\ capture.pc # "idle" => capture.s \notin deletedHere

ShowInv ==
    /\ BatchOK(pass) /\ HeldOK(pass) /\ SiteOK(pass) /\ ShowOK(pass)
    /\ EditInv /\ OrderInv

\* What the pass holds are claims on the past.
LEMMA BatchClaims ==
    ASSUME IInv, BatchOK(pass)
    PROVE  \A c \in Batched(pass) \cup pass.upload \cup pass.acc
                      \cup pass.todo \cup pass.marked :
              c \in Claims /\ c.s \in Sessions /\ c.i \in Snaps
                 /\ c.sync_rev \in Nat /\ Old(c)
<1>1. PICK q \in PassType : q = pass
  BY DEF IInv, TypeOK
<1>2. \A c \in q.local \cup q.send \cup q.upload \cup q.todo \cup q.marked :
          c \in Claims /\ Old(c)
  BY <1>1 DEF PassType, IInv, ClaimInv, ClaimsOK
<1>3. q.acc \subseteq q.upload
  BY <1>1 DEF IInv, ClaimInv, ClaimsOK
<1>4. \A c \in Claims : c.s \in Sessions /\ c.i \in Snaps /\ c.sync_rev \in Nat
  BY DEF Claims
<1> QED BY <1>1, <1>2, <1>3, <1>4 DEF Batched

\* What the pass judges it sends, and what it sends is in the batch.
LEMMA JudgedSent ==
    ASSUME IInv, BatchOK(pass)
    PROVE  /\ Judged(pass) \subseteq pass.upload
           /\ pass.acc \subseteq pass.upload
           /\ pass.upload \subseteq Batched(pass)
           /\ Pend(pass) \subseteq Batched(pass)
<1>1. pass.acc \subseteq pass.upload
  BY DEF IInv, ClaimInv, ClaimsOK
<1>2. pass.upload \subseteq Batched(pass)
  BY DEF BatchOK, Batched
<1>3. Pend(pass) \subseteq Batched(pass)
  BY DEF Pend, BatchOK, Batched
<1> QED BY <1>1, <1>2, <1>3 DEF Judged

-----------------------------------------------------------------------------
(* Steps of the capture task and of the main loop. *)

\* What such a step does to the rows of a session: it queues or removes all
\* of them, or it leaves them alone, but for a row that the edit comes to
\* before all later ones, and for the announced one.
MemberStep(s) ==
    \/ \A i \in Snaps :
          /\ rows[s][i] = NONE => rows'[s][i] = NONE
          /\ rows[s][i] # NONE =>
                rows'[s][i] = NONE \/ Bump(rows[s][i], rows'[s][i])
    \/ \A i \in Snaps :
          \/ rows[s][i] = NONE /\ rows'[s][i] = NONE
          \/ /\ rows[s][i] # NONE /\ rows'[s][i] = rows[s][i]
             /\ InEdit(s, i) => InEdit(s, i)'
          \/ /\ rows[s][i] # NONE /\ rows'[s][i] # NONE
             /\ Bump(rows[s][i], rows'[s][i])
             /\ rows'[s][i].decided = rows[s][i].decided
             /\ \A k \in Snaps : k > i /\ rows[s][k] # NONE => InEdit(s, k)'
          \/ rows[s][i] = NONE /\ Creating(s, i) /\ ~rows'[s][i].synced

\* Where a claim still hits, its row is as it was and its session's rows were
\* not all queued.
LEMMA HitKept ==
    ASSUME TypeOK, rows' \in Rows, NEW c \in Claims, Old(c), CasHit(c)',
           MemberStep(c.s)
    PROVE  /\ CasHit(c) /\ rows'[c.s][c.i] = rows[c.s][c.i]
           /\ InEdit(c.s, c.i) => InEdit(c.s, c.i)'
           /\ \A i \in Snaps :
                 \/ rows[c.s][i] = NONE /\ rows'[c.s][i] = NONE
                 \/ /\ rows[c.s][i] # NONE /\ rows'[c.s][i] = rows[c.s][i]
                 \/ /\ rows[c.s][i] # NONE /\ rows'[c.s][i] # NONE
                    /\ rows'[c.s][i].decided = rows[c.s][i].decided
                    /\ i < c.i => InEdit(c.s, c.i)'
                 \/ rows[c.s][i] = NONE /\ Creating(c.s, i)
<1>1. PICK s \in Sessions, i \in Snaps, rev \in Nat :
          s = c.s /\ i = c.i /\ rev = c.sync_rev
  BY DEF Claims
<1>2. /\ <<s, i>> \in taken /\ ~Creating(s, i)
      /\ rows[s][i] # NONE => rev <= rows[s][i].sync_rev
      /\ rows'[s][i] # NONE /\ rows'[s][i].sync_rev = rev
  BY <1>1 DEF Old, CasHit
<1>3. rows[s][i] # NONE
  BY <1>1, <1>2 DEF MemberStep
<1>4. rows[s][i].sync_rev \in Nat
  BY <1>3, RowAt DEF PersonalMatch
<1>5. ~Bump(rows[s][i], rows'[s][i])
  BY <1>2, <1>3, <1>4 DEF Bump
<1>6. \A k \in Snaps :
          \/ rows[s][k] = NONE /\ rows'[s][k] = NONE
          \/ /\ rows[s][k] # NONE /\ rows'[s][k] = rows[s][k]
             /\ InEdit(s, k) => InEdit(s, k)'
          \/ /\ rows[s][k] # NONE /\ rows'[s][k] # NONE
             /\ Bump(rows[s][k], rows'[s][k])
             /\ rows'[s][k].decided = rows[s][k].decided
             /\ \A l \in Snaps : l > k /\ rows[s][l] # NONE => InEdit(s, l)'
          \/ rows[s][k] = NONE /\ Creating(s, k) /\ ~rows'[s][k].synced
  BY <1>1, <1>2, <1>3, <1>5 DEF MemberStep
<1>7. rows'[s][i] = rows[s][i] /\ (InEdit(s, i) => InEdit(s, i)')
  BY <1>3, <1>5, <1>6
<1>8. CasHit(c)
  BY <1>1, <1>2, <1>7 DEF CasHit
<1>9. ASSUME NEW k \in Snaps
      PROVE  \/ rows[s][k] = NONE /\ rows'[s][k] = NONE
             \/ /\ rows[s][k] # NONE /\ rows'[s][k] = rows[s][k]
             \/ /\ rows[s][k] # NONE /\ rows'[s][k] # NONE
                /\ rows'[s][k].decided = rows[s][k].decided
                /\ k < i => InEdit(s, i)'
             \/ rows[s][k] = NONE /\ Creating(s, k)
  <2>1. k < i => i > k
    BY DEF Snaps
  <2> QED BY <1>3, <1>6, <2>1
<1> QED BY <1>1, <1>7, <1>8, <1>9

\* What the pass holds stays in order.
LEMMA MemberHeld ==
    ASSUME IInv, rows' \in Rows, OrderInv, BatchOK(pass), HeldOK(pass),
           \A s \in Sessions : MemberStep(s),
           NEW p, p = pass
    PROVE  HeldOK(p)'
<1>1. ASSUME NEW c \in Batched(p) \cup p.upload \cup p.acc
                          \cup p.todo \cup p.marked
      PROVE  /\ c \in Claims /\ c.s \in Sessions /\ c.i \in Snaps
             /\ <<c.s, c.i>> \in taken
             /\ CasHit(c)' =>
                   /\ CasHit(c) /\ rows'[c.s][c.i] = rows[c.s][c.i]
                   /\ InEdit(c.s, c.i) => InEdit(c.s, c.i)'
                   /\ \A i \in Snaps :
                         \/ rows[c.s][i] = NONE /\ rows'[c.s][i] = NONE
                         \/ /\ rows[c.s][i] # NONE /\ rows'[c.s][i] = rows[c.s][i]
                         \/ /\ rows[c.s][i] # NONE /\ rows'[c.s][i] # NONE
                            /\ rows'[c.s][i].decided = rows[c.s][i].decided
                            /\ i < c.i => InEdit(c.s, c.i)'
                         \/ rows[c.s][i] = NONE /\ Creating(c.s, i)
  <2>1. c \in Claims /\ c.s \in Sessions /\ c.i \in Snaps /\ Old(c)
    BY BatchClaims
  <2>2. <<c.s, c.i>> \in taken /\ TypeOK
    BY <2>1 DEF Old, IInv
  <2> QED BY <2>1, <2>2, HitKept
<1>2. RowsOK(p)'
  <2> SUFFICES ASSUME NEW c \in Batched(p), NEW d \in Batched(p), c.s = d.s,
                      CasHit(c)'
               PROVE  /\ rows'[d.s][d.i] # NONE /\ rows'[d.s][d.i].decided
                      /\ d.i < c.i /\ ~CasHit(d)' => InEdit(c.s, c.i)'
    BY DEF RowsOK, Batched
  <2>1. /\ rows[d.s][d.i] # NONE /\ rows[d.s][d.i].decided
        /\ d.i < c.i /\ ~CasHit(d) => InEdit(c.s, c.i)
    BY <1>1 DEF HeldOK, RowsOK
  <2>2. d.i \in Snaps
    BY <1>1
  <2>3. \/ rows'[d.s][d.i] = rows[d.s][d.i]
        \/ /\ rows'[d.s][d.i] # NONE
           /\ rows'[d.s][d.i].decided = rows[d.s][d.i].decided
           /\ d.i < c.i => InEdit(c.s, c.i)'
    <3>1. PICK i \in Snaps : i = d.i
      BY <2>2
    <3>2. \A k \in Snaps :
              \/ rows[c.s][k] = NONE
              \/ rows'[c.s][k] = rows[c.s][k]
              \/ /\ rows'[c.s][k] # NONE
                 /\ rows'[c.s][k].decided = rows[c.s][k].decided
                 /\ k < c.i => InEdit(c.s, c.i)'
      BY <1>1
    <3>3. rows[c.s][i] # NONE
      BY <2>1, <3>1
    <3> QED BY <3>1, <3>2, <3>3
  <2>4. InEdit(c.s, c.i) => InEdit(c.s, c.i)'
    BY <1>1
  <2>5. rows'[d.s][d.i] = rows[d.s][d.i] => (CasHit(d)' <=> CasHit(d))
    BY DEF CasHit
  <2> QED BY <2>1, <2>3, <2>4, <2>5
<1>3. LocalOK(p)'
  <2>1. \A c \in p.local : CasHit(c) =>
            \/ row_is_local_only(rows[c.s][c.i])
            \/ \E d \in Batched(p) : d.s = c.s /\ d.i > c.i
    BY DEF HeldOK, LocalOK
  <2>2. ASSUME NEW c \in p.local, CasHit(c)'
        PROVE  \/ row_is_local_only(rows'[c.s][c.i])
               \/ \E d \in Batched(p) : d.s = c.s /\ d.i > c.i
    BY <1>1, <2>1, <2>2 DEF Batched
  <2>3. ASSUME NEW c \in p.todo \cup p.marked, CasHit(c)', p.pc = "marksettle"
        PROVE  ~rows'[c.s][c.i].decided
    BY <1>1, <2>3 DEF HeldOK, LocalOK
  <2> QED BY <2>2, <2>3 DEF LocalOK, Batched
<1>4. MissOK(p)'
  <2> SUFFICES ASSUME p.pc \in {"marklocal", "mark"}, p.miss
               PROVE  \E d \in Batched(p) : d.s = p.group /\ ~CasHit(d)'
    BY DEF MissOK, Batched
  <2>1. PICK d \in Batched(p) : d.s = p.group /\ ~CasHit(d)
    BY DEF HeldOK, MissOK
  <2>2. CasHit(d)' => CasHit(d)
    BY <1>1
  <2> QED BY <2>1, <2>2
<1>5. OlderOK(p)'
  <2> SUFFICES ASSUME p.pc # "clear", NEW u \in Judged(p), CasHit(u)',
                      ~InEdit(u.s, u.i)', NEW j \in Snaps, j < u.i
               PROVE  \/ Past(u.s, j)'
                      \/ \E d \in Pend(p) : d.s = u.s /\ d.i = j /\ CasHit(d)'
    BY DEF OlderOK, Judged, Pend
  <2>1. u \in p.upload
    BY JudgedSent
  <2>2. \/ rows[u.s][j] = NONE /\ rows'[u.s][j] = NONE
        \/ rows[u.s][j] # NONE /\ rows'[u.s][j] = rows[u.s][j]
        \/ rows[u.s][j] = NONE /\ Creating(u.s, j)
    BY <1>1, <2>1
  <2>3. ~Creating(u.s, j)
    <3>1. <<u.s, u.i>> \in taken /\ u.s \in Sessions /\ u.i \in Snaps
      BY <1>1, <2>1
    <3>2. ~(u.i <= j)
      BY <3>1 DEF Snaps
    <3> QED BY <3>1, <3>2 DEF OrderInv
  <2>4. rows'[u.s][j] = rows[u.s][j]
    BY <2>2, <2>3
  <2>5. \/ Past(u.s, j)
        \/ \E d \in Pend(p) : d.s = u.s /\ d.i = j /\ CasHit(d)
    <3>1. CasHit(u) /\ ~InEdit(u.s, u.i)
      BY <1>1, <2>1
    <3>2. OlderOK(p)
      BY DEF HeldOK
    <3> QED BY <3>1, <3>2 DEF OlderOK
  <2>6. CASE Past(u.s, j)
    BY <2>4, <2>6 DEF Past
  <2>7. ASSUME NEW d \in Pend(p), d.s = u.s, d.i = j, CasHit(d)
        PROVE  CasHit(d)'
    BY <2>4, <2>7 DEF CasHit
  <2> QED BY <2>5, <2>6, <2>7
<1> QED BY <1>2, <1>3, <1>4, <1>5 DEF HeldOK

\* What is shown stays shown.
LEMMA MemberShown ==
    ASSUME IInv, rows' \in Rows, OrderInv, ShowOK(pass), site' = site,
           \A s \in Sessions : MemberStep(s),
           \A s \in Sessions : s \in tombs' =>
              s \in tombs \/ \A i \in Snaps : rows'[s][i] = NONE,
           NEW p, p = pass \/ p = PassIdle
    PROVE  ShowOK(p)'
<1> SUFFICES ASSUME NEW s \in Sessions, NEW i \in Snaps, Rested(s, i)'
             PROVE  /\ site'[s] = [snap |-> i, sync_rev |-> rows'[s][i].sync_rev]
                    /\ s \notin tombs' /\ s \notin p.deletes
                    /\ \A j \in Snaps : j < i => Past(s, j)'
                    /\ \/ p.pc = "clear"
                       \/ \A d \in Batched(p) : d.s # s
                       \/ /\ p.pc = "mark"
                          /\ Claim(s, i, rows'[s][i].sync_rev) \in p.acc
  BY DEF ShowOK, Batched
<1>1. /\ rows'[s][i] # NONE /\ rows'[s][i].decided /\ rows'[s][i].synced
      /\ \A j \in Snaps : j > i => rows'[s][j] = NONE \/ ~rows'[s][j].decided
      /\ ~InEdit(s, i)' /\ ~row_is_local_only(rows'[s][i])
  BY DEF Rested, Top
<1>2. \A k \in Snaps :
          \/ rows[s][k] = NONE /\ rows'[s][k] = NONE
          \/ /\ rows[s][k] # NONE /\ rows'[s][k] = rows[s][k]
             /\ InEdit(s, k) => InEdit(s, k)'
          \/ /\ rows[s][k] # NONE /\ rows'[s][k] # NONE
             /\ Bump(rows[s][k], rows'[s][k])
             /\ rows'[s][k].decided = rows[s][k].decided
             /\ \A l \in Snaps : l > k /\ rows[s][l] # NONE => InEdit(s, l)'
          \/ rows[s][k] = NONE /\ Creating(s, k) /\ ~rows'[s][k].synced
  BY <1>1 DEF MemberStep, Bump
<1>3. rows[s][i] # NONE /\ rows'[s][i] = rows[s][i] /\ ~InEdit(s, i)
  BY <1>1, <1>2 DEF Bump
<1>4. ASSUME NEW j \in Snaps, j > i
      PROVE  rows[s][j] = NONE \/ ~rows[s][j].decided
  BY <1>1, <1>2, <1>4
<1>5. Rested(s, i)
  BY <1>1, <1>3, <1>4 DEF Rested, Top
<1>6. /\ site[s] = [snap |-> i, sync_rev |-> rows[s][i].sync_rev]
      /\ s \notin tombs /\ s \notin pass.deletes
      /\ \A j \in Snaps : j < i => Past(s, j)
      /\ \/ pass.pc = "clear"
         \/ \A d \in Batched(pass) : d.s # s
         \/ /\ pass.pc = "mark"
            /\ Claim(s, i, rows[s][i].sync_rev) \in pass.acc
  BY <1>5 DEF ShowOK
<1>7. ASSUME NEW j \in Snaps, j < i
      PROVE  Past(s, j)'
  <2>1. Past(s, j)
    BY <1>6, <1>7
  <2>2. ~Creating(s, j)
    <3>1. <<s, i>> \in taken
      BY <1>3 DEF IInv, RowInv
    <3>2. ~(i <= j)
      BY <1>7 DEF Snaps
    <3> QED BY <3>1, <3>2 DEF OrderInv
  <2>3. i > j
    BY <1>7 DEF Snaps
  <2>4. rows'[s][j] = rows[s][j]
    BY <1>1, <1>2, <1>3, <2>2, <2>3
  <2> QED BY <2>1, <2>4 DEF Past
<1>8. s \notin tombs'
  BY <1>1, <1>6
<1>9. CASE p = pass
  BY <1>3, <1>6, <1>7, <1>8, <1>9
<1>10. CASE p = PassIdle
  BY <1>3, <1>6, <1>7, <1>8, <1>10 DEF PassIdle, Batched
<1> QED BY <1>9, <1>10

\* A pass that is over, or begins.
LEMMA IdleHeld ==
    ASSUME NEW p, p = PassIdle \/ p = [PassIdle EXCEPT !.pc = "read"]
    PROVE  BatchOK(p) /\ HeldOK(p)' /\ SiteOK(p)'
<1>1. /\ p.pc \in {"idle", "read"}
      /\ p.local = {} /\ p.send = {} /\ p.upload = {} /\ p.deletes = {}
      /\ p.todo = {} /\ p.marked = {} /\ p.acc = {} /\ p.retire = {}
  BY DEF PassIdle
<1>2. BatchOK(p)
  BY <1>1 DEF BatchOK, Batched
<1>3. HeldOK(p)'
  BY <1>1 DEF HeldOK, RowsOK, LocalOK, MissOK, OlderOK, Judged, Batched
<1>4. SiteOK(p)'
  BY <1>1 DEF SiteOK
<1> QED BY <1>2, <1>3, <1>4

\* A step of the capture task or of the main loop.
LEMMA MemberKeeps ==
    ASSUME IInv, rows' \in Rows, ShowInv, EditInv', OrderInv', site' = site,
           gone \subseteq gone',
           \A s \in Sessions : MemberStep(s),
           \A s \in tombs' : s \in tombs \/
              /\ s \in gone'
              /\ \A i \in Snaps : rows'[s][i] = NONE,
           NEW p, pass' = p, p = pass \/ p = PassIdle
    PROVE  ShowInv'
<1>1. ShowOK(p)'
  BY MemberShown DEF ShowInv
<1>2. CASE p = pass
  <2>1. BatchOK(p) /\ HeldOK(p)'
    BY <1>2, MemberHeld DEF ShowInv
  <2>2. SiteOK(p)'
    BY <1>2 DEF ShowInv, SiteOK
  <2> QED BY <1>1, <2>1, <2>2 DEF ShowInv, BatchOK, Batched
<1>3. CASE p = PassIdle
  BY <1>1, <1>3, IdleHeld DEF ShowInv, BatchOK, Batched
<1> QED BY <1>2, <1>3

\* The capture task: a new snapshot is not marked and comes last.
LEMMA CaptureShows ==
    ASSUME IInv, IInv', ApartInv, ShowInv, "held" \notin Ops, CaptureNext
    PROVE  ShowInv'
<1>1. rows' \in Rows
  BY DEF IInv, TypeOK, Rows
<1>2. OrderInv /\ EditInv
  BY DEF ShowInv
<1>3. PICK p : p = pass
  OBVIOUS
<1>4. ASSUME NEW s \in Sessions, NEW i \in Snaps, NEW map \in CapturedMaps,
             InsertCheck(s, i, map)
      PROVE  ShowInv'
  <2>1. /\ rows' = rows /\ cmd' = cmd /\ gone' = gone /\ pass' = pass
        /\ tombs' = tombs /\ site' = site /\ deletedHere' = deletedHere
        /\ s \notin deletedHere /\ taken' = taken \cup {<<s, i>>}
        /\ \A j \in Snaps : <<s, j>> \in taken => j < i
        /\ capture'.pc = "create" /\ capture'.s = s /\ capture'.i = i
    BY <1>4 DEF InsertCheck, store
  <2>2. \A t \in Sessions : MemberStep(t)
    BY <2>1 DEF MemberStep, InEdit
  <2>3. EditInv'
    BY <1>2, <2>1 DEF EditInv
  <2>4. OrderInv'
    <3>1. ASSUME NEW t \in Sessions, NEW j \in Snaps, NEW k \in Snaps,
                 Creating(t, j)', <<t, k>> \in taken'
          PROVE  k <= j
      <4>1. t = s /\ j = i
        BY <2>1, <3>1 DEF Creating
      <4>2. k = i \/ k < i
        BY <2>1, <3>1, <4>1
      <4> QED BY <4>1, <4>2 DEF Snaps
    <3> QED BY <2>1, <3>1 DEF OrderInv
  <2> QED BY <1>1, <1>2, <1>3, <2>1, <2>2, <2>3, <2>4, MemberKeeps
<1>5. CASE InsertCreate
  <2>1. /\ cmd' = cmd /\ gone' = gone /\ pass' = pass /\ tombs' = tombs
        /\ site' = site /\ deletedHere' = deletedHere
        /\ capture.pc = "create" /\ capture' = [capture EXCEPT !.pc = "recheck"]
    BY <1>5 DEF InsertCreate, history
  <2>2. capture'.pc = "recheck" /\ capture'.s = capture.s
    BY <2>1 DEF IInv, TypeOK, CaptureType
  <2>3. \A t \in Sessions, i \in Snaps :
            IF Creating(t, i)
            THEN rows'[t][i] # NONE /\ rows'[t][i].synced = FALSE
            ELSE rows'[t][i] = rows[t][i]
    BY <1>5, CreatedRows DEF IInv
  <2>4. \A t \in Sessions, i \in Snaps : Creating(t, i) => rows[t][i] = NONE
    BY DEF IInv, RowInv
  <2>5. \A t \in Sessions, i \in Snaps : InEdit(t, i)' <=> InEdit(t, i)
    BY <2>1 DEF InEdit
  <2>6. \A t \in Sessions : MemberStep(t)
    BY <2>3, <2>4, <2>5 DEF MemberStep
  <2>7. EditInv'
    BY <2>1 DEF EditInv, ApartInv, GoneInv
  <2>8. OrderInv'
    BY <1>2, <2>1, <2>2 DEF OrderInv, Creating
  <2> QED BY <1>1, <1>2, <1>3, <2>1, <2>6, <2>7, <2>8, MemberKeeps
<1>6. CASE drop_if_deleted_meanwhile
  <2>1. /\ cmd' = cmd /\ gone' = gone /\ pass' = pass /\ tombs' = tombs
        /\ site' = site /\ deletedHere' = deletedHere
        /\ capture.pc = "recheck" /\ capture' = CaptureIdle
    BY <1>6 DEF drop_if_deleted_meanwhile, history
  <2>2. capture'.pc = "idle" /\ capture.s \notin deletedHere
    BY <1>2, <2>1 DEF CaptureIdle, OrderInv
  <2>3. rows' = rows
    BY <1>6, <2>2 DEF drop_if_deleted_meanwhile
  <2>4. \A t \in Sessions : MemberStep(t)
    BY <2>1, <2>3 DEF MemberStep, InEdit
  <2>5. EditInv'
    BY <1>2, <2>1, <2>3 DEF EditInv
  <2>6. OrderInv'
    BY <2>2 DEF OrderInv, Creating
  <2> QED BY <1>1, <1>2, <1>3, <2>1, <2>4, <2>5, <2>6, MemberKeeps
<1> QED BY <1>4, <1>5, <1>6 DEF CaptureNext

\* The main loop: a result or an edit queues what is shown again.
LEMMA MainLoopShows ==
    ASSUME IInv, IInv', ApartInv, ShowInv, ~Overlap,
           "auto_map" \notin Ops, "retry" \notin Ops, MainLoopNext
    PROVE  ShowInv'
<1>1. rows' \in Rows
  BY DEF IInv, TypeOK, Rows
<1>2. OrderInv /\ EditInv
  BY DEF ShowInv
<1>3. PICK p : p = pass
  OBVIOUS
<1>4. ASSUME capture' = capture, taken' = taken, deletedHere' \subseteq deletedHere
      PROVE  OrderInv'
  BY <1>2, <1>4 DEF OrderInv, Creating
<1>5. ASSUME NEW s \in Sessions, NEW decided \in BOOLEAN,
             set_session_outcome(s, decided)
      PROVE  ShowInv'
  <2>1. /\ capture' = capture /\ cmd' = cmd /\ gone' = gone /\ pass' = pass
        /\ tombs' = tombs /\ site' = site /\ deletedHere' = deletedHere
        /\ taken' = taken /\ cmd.pc = "idle"
    BY <1>5 DEF set_session_outcome, Backfill, history
  <2>2. \A t \in Sessions, i \in Snaps :
            IF t = s /\ rows[t][i] # NONE
            THEN rows'[t][i] # NONE /\ Bump(rows[t][i], rows'[t][i])
            ELSE rows'[t][i] = rows[t][i]
    BY <1>5, OutcomeRows DEF IInv
  <2>3. \A t \in Sessions : MemberStep(t)
    <3>1. MemberStep(s)
      BY <2>2 DEF MemberStep
    <3>2. ASSUME NEW t \in Sessions, t # s
          PROVE  MemberStep(t)
      BY <2>1, <2>2, <3>2 DEF MemberStep, InEdit
    <3> QED BY <3>1, <3>2
  <2>4. EditInv' /\ OrderInv'
    BY <1>4, <2>1 DEF EditInv
  <2> QED BY <1>1, <1>2, <1>3, <2>1, <2>3, <2>4, MemberKeeps
<1>6. ASSUME NEW s \in Sessions, NEW map \in (Maps \ {"blank"}) \cup {NONE},
             EditStart(s, map)
      PROVE  ShowInv'
  <2>1. /\ rows' = rows /\ capture' = capture /\ gone' = gone /\ pass' = pass
        /\ tombs' = tombs /\ site' = site /\ deletedHere' = deletedHere
        /\ taken' = taken /\ cmd.pc = "idle"
        /\ cmd' = [cmd EXCEPT !.pc = "edit", !.s = s, !.map = map,
                              !.todo = Present(s)]
    BY <1>6 DEF EditStart, history, store
  <2>2. cmd'.s = s /\ cmd'.todo = Present(s)
    BY <2>1 DEF IInv, TypeOK, CmdType
  <2>3. \A t \in Sessions : MemberStep(t)
    BY <2>1 DEF MemberStep, InEdit
  <2>4. EditInv' /\ OrderInv'
    BY <1>4, <2>1, <2>2 DEF EditInv, Present
  <2> QED BY <1>1, <1>2, <1>3, <2>1, <2>3, <2>4, MemberKeeps
<1>7. ASSUME NEW s \in Sessions, DeleteMark(s)
      PROVE  ShowInv'
  <2>1. /\ rows' = rows /\ capture' = capture /\ gone' = gone /\ pass' = pass
        /\ tombs' = tombs /\ site' = site /\ taken' = taken
        /\ cmd.pc = "idle" /\ capture.pc = "idle"
        /\ cmd' = [cmd EXCEPT !.pc = "delete", !.s = s,
                              !.newly = s \notin deletedHere]
    BY <1>7 DEF DeleteMark, history, store
  <2>2. cmd'.pc = "delete"
    BY <2>1 DEF IInv, TypeOK, CmdType
  <2>3. \A t \in Sessions : MemberStep(t)
    BY <2>1 DEF MemberStep, InEdit
  <2>4. EditInv' /\ OrderInv'
    BY <2>1, <2>2 DEF EditInv, OrderInv, Creating
  <2> QED BY <1>1, <1>2, <1>3, <2>1, <2>3, <2>4, MemberKeeps
<1>8. CASE EditRow
  <2>1. /\ capture' = capture /\ gone' = gone /\ pass' = pass
        /\ tombs' = tombs /\ site' = site /\ deletedHere' = deletedHere
        /\ taken' = taken /\ cmd.pc = "edit" /\ cmd.todo # {}
    BY <1>8 DEF EditRow, history
  <2>2. PICK m : m = Min(cmd.todo)
    OBVIOUS
  <2>3. m \in cmd.todo /\ cmd.todo \subseteq Snaps /\ \A k \in cmd.todo : m <= k
    BY <2>1, <2>2, SnapsBounds DEF IInv, TypeOK, CmdType
  <2>4. \/ cmd.todo = {m} /\ cmd'.pc = "idle"
        \/ cmd'.pc = "edit" /\ cmd'.s = cmd.s /\ cmd'.todo = cmd.todo \ {m}
    <3>1. CASE cmd.todo = {m}
      BY <1>8, <2>2, <3>1 DEF EditRow, CmdIdle
    <3>2. CASE cmd.todo # {m}
      <4>1. cmd' = [cmd EXCEPT !.todo = cmd.todo \ {m}]
        BY <1>8, <2>2, <3>2 DEF EditRow
      <4> QED BY <2>1, <4>1 DEF IInv, TypeOK, CmdType
    <3> QED BY <3>1, <3>2
  <2>5. \A t \in Sessions, i \in Snaps :
            IF t = cmd.s /\ i = m /\ rows[t][i] # NONE
            THEN /\ rows'[t][i] # NONE
                 /\ Bump(rows[t][i], rows'[t][i])
                 /\ rows'[t][i].decided = rows[t][i].decided
            ELSE rows'[t][i] = rows[t][i]
    BY <1>8, <2>2, EditRows DEF IInv
  <2>6. ASSUME NEW t, t = cmd.s, NEW k \in Snaps, k > m, rows[t][k] # NONE
        PROVE  InEdit(t, k)'
    <3>1. k \in cmd.todo /\ k # m
      BY <1>2, <2>1, <2>3, <2>6 DEF EditInv, Snaps
    <3> QED BY <2>4, <2>6, <3>1 DEF InEdit
  <2>7. \A t \in Sessions : MemberStep(t)
    <3> SUFFICES ASSUME NEW t \in Sessions, NEW i \in Snaps
                 PROVE  \/ rows[t][i] = NONE /\ rows'[t][i] = NONE
                        \/ /\ rows[t][i] # NONE /\ rows'[t][i] = rows[t][i]
                           /\ InEdit(t, i) => InEdit(t, i)'
                        \/ /\ rows[t][i] # NONE /\ rows'[t][i] # NONE
                           /\ Bump(rows[t][i], rows'[t][i])
                           /\ rows'[t][i].decided = rows[t][i].decided
                           /\ \A k \in Snaps : k > i /\ rows[t][k] # NONE
                                                  => InEdit(t, k)'
      BY DEF MemberStep
    <3>1. CASE t = cmd.s /\ i = m /\ rows[t][i] # NONE
      <4>1. \A k \in Snaps : k > i /\ rows[t][k] # NONE => InEdit(t, k)'
        BY <2>6, <3>1
      <4>2. /\ rows'[t][i] # NONE
            /\ Bump(rows[t][i], rows'[t][i])
            /\ rows'[t][i].decided = rows[t][i].decided
        BY <2>5, <3>1
      <4> QED BY <3>1, <4>1, <4>2
    <3>2. CASE ~(t = cmd.s /\ i = m)
      <4>1. rows'[t][i] = rows[t][i]
        BY <2>5, <3>2
      <4>2. InEdit(t, i) => InEdit(t, i)'
        BY <2>4, <3>2 DEF InEdit
      <4> QED BY <4>1, <4>2
    <3>3. CASE rows[t][i] = NONE
      BY <2>5, <3>3
    <3> QED BY <3>1, <3>2, <3>3
  <2>8. EditInv'
    <3> SUFFICES ASSUME cmd'.pc = "edit", NEW i \in cmd'.todo, NEW j \in Snaps,
                        j > i, rows'[cmd'.s][j] # NONE
                 PROVE  j \in cmd'.todo
      BY DEF EditInv
    <3>1. cmd'.s = cmd.s /\ cmd'.todo = cmd.todo \ {m} /\ cmd.s \in Sessions
      BY <2>1, <2>4, NoneApart DEF IInv, TaskInv, TypeOK, CmdType
    <3>2. rows[cmd.s][j] # NONE
      BY <2>5, <3>1
    <3>3. i \in cmd.todo /\ i \in Snaps /\ m <= i /\ m \in Snaps
      BY <2>3, <3>1
    <3>4. j \in cmd.todo
      BY <1>2, <2>1, <3>2, <3>3 DEF EditInv
    <3>5. j # m
      BY <3>3 DEF Snaps
    <3> QED BY <3>1, <3>4, <3>5
  <2>9. OrderInv'
    BY <1>4, <2>1
  <2> QED BY <1>1, <1>2, <1>3, <2>1, <2>7, <2>8, <2>9, MemberKeeps
<1>9. CASE DeleteCommit
  <2>1. /\ capture' = capture /\ pass' = pass /\ site' = site
        /\ deletedHere' = deletedHere /\ taken' = taken
        /\ tombs' = tombs \cup {cmd.s} /\ gone' = gone \cup {cmd.s}
        /\ cmd.pc = "delete" /\ cmd'.pc = "idle"
    BY <1>9 DEF DeleteCommit, CmdIdle
  <2>2. /\ cmd.s \in Sessions
        /\ \A t \in Sessions, i \in Snaps :
              rows'[t][i] = IF t = cmd.s THEN NONE ELSE rows[t][i]
    BY <1>9, DeletedRows DEF IInv
  <2>3. \A t \in Sessions : MemberStep(t)
    <3>1. MemberStep(cmd.s)
      BY <2>2 DEF MemberStep
    <3>2. ASSUME NEW t \in Sessions, t # cmd.s
          PROVE  MemberStep(t)
      BY <2>1, <2>2, <3>2 DEF MemberStep, InEdit
    <3> QED BY <3>1, <3>2
  <2>4. EditInv' /\ OrderInv'
    BY <1>4, <2>1 DEF EditInv
  <2> QED BY <1>1, <1>2, <1>3, <2>1, <2>2, <2>3, <2>4, MemberKeeps
<1>10. CASE DeleteFailed
  <2>1. /\ rows' = rows /\ capture' = capture /\ gone' = gone /\ pass' = pass
        /\ tombs' = tombs /\ site' = site /\ taken' = taken
        /\ deletedHere' \subseteq deletedHere
        /\ cmd.pc = "delete" /\ cmd'.pc = "idle"
    BY <1>10 DEF DeleteFailed, history, store, CmdIdle
  <2>2. \A t \in Sessions : MemberStep(t)
    BY <2>1 DEF MemberStep, InEdit
  <2>3. EditInv' /\ OrderInv'
    BY <1>4, <2>1 DEF EditInv
  <2> QED BY <1>1, <1>2, <1>3, <2>1, <2>2, <2>3, MemberKeeps
<1> QED BY <1>5, <1>6, <1>7, <1>8, <1>9, <1>10
      DEF MainLoopNext, set_session_map, clear_upload_reject

\* A restart: the pass is forgotten, and the edit begins again.
LEMMA CrashShows ==
    ASSUME IInv, IInv', ShowInv, Crash
    PROVE  ShowInv'
<1>1. /\ rows' = rows /\ tombs' = tombs /\ capture' = CaptureIdle
      /\ pass' = PassIdle /\ site' = site /\ gone' = gone
      /\ cmd' = IF cmd.pc = "edit" THEN [cmd EXCEPT !.todo = Present(cmd.s)]
                ELSE CmdIdle
  BY DEF Crash, store, history
<1>2. PICK p : p = PassIdle
  OBVIOUS
<1>3. \/ cmd.pc # "edit" /\ cmd'.pc = "idle"
      \/ /\ cmd.pc = "edit" /\ cmd'.pc = "edit"
         /\ cmd'.s = cmd.s /\ cmd'.todo = Present(cmd.s)
  BY <1>1 DEF CmdIdle, IInv, TypeOK, CmdType
<1>4. \A t \in Sessions, i \in Snaps :
          rows[t][i] # NONE /\ InEdit(t, i) => InEdit(t, i)'
  BY <1>3 DEF InEdit, Present
<1>5. \A t \in Sessions : MemberStep(t)
  BY <1>1, <1>4 DEF MemberStep
<1>6. EditInv' /\ OrderInv'
  BY <1>1, <1>3 DEF EditInv, OrderInv, Creating, CaptureIdle, Present
<1>7. rows' \in Rows
  BY DEF IInv, TypeOK, Rows
<1>8. OrderInv
  BY DEF ShowInv
<1> QED BY <1>1, <1>2, <1>5, <1>6, <1>7, <1>8, MemberKeeps

-----------------------------------------------------------------------------
(* Steps of the pass. *)

\* No row comes, goes or would upload something else.
SameData ==
    \A s \in Sessions, i \in Snaps :
        /\ rows'[s][i] = NONE <=> rows[s][i] = NONE
        /\ rows[s][i] # NONE =>
              /\ rows'[s][i].sync_rev = rows[s][i].sync_rev
              /\ rows'[s][i].decided <=> rows[s][i].decided
              /\ row_is_local_only(rows'[s][i]) <=> row_is_local_only(rows[s][i])

\* The claims of a pass are claims.
LEMMA PassTyped ==
    ASSUME NEW p \in PassType
    PROVE  /\ \A c \in Batched(p) \cup p.upload \cup p.acc \cup p.todo \cup p.marked :
                 c \in Claims /\ c.s \in Sessions /\ c.i \in Snaps
           /\ Batched(p) = p.local \cup p.send
<1>1. p.local \cup p.send \cup p.upload \cup p.acc \cup p.todo \cup p.marked
         \subseteq Claims
  BY DEF PassType
<1>2. \A c \in Claims : c.s \in Sessions /\ c.i \in Snaps
  BY DEF Claims
<1> QED BY <1>1, <1>2 DEF Batched

\* Where no row changes what it would upload, claims go on hitting or missing.
LEMMA SameHits ==
    ASSUME SameData, cmd' = cmd
    PROVE  /\ \A c \in Claims : CasHit(c)' <=> CasHit(c)
           /\ \A s, i : InEdit(s, i)' <=> InEdit(s, i)
           /\ \A s \in Sessions, i \in Snaps : Top(s, i)' <=> Top(s, i)
<1>1. ASSUME NEW c \in Claims
      PROVE  CasHit(c)' <=> CasHit(c)
  <2>1. c.s \in Sessions /\ c.i \in Snaps
    BY DEF Claims
  <2> QED BY <2>1 DEF SameData, CasHit
<1>2. \A s, i : InEdit(s, i)' <=> InEdit(s, i)
  BY DEF InEdit
<1>3. ASSUME NEW s \in Sessions, NEW i \in Snaps
      PROVE  Top(s, i)' <=> Top(s, i)
  BY DEF SameData, Top
<1> QED BY <1>1, <1>2, <1>3

\* The claims held in order are so after such a step.
LEMMA SameHeld ==
    ASSUME SameData, cmd' = cmd, NEW p \in PassType,
           RowsOK(p), LocalOK(p), MissOK(p)
    PROVE  RowsOK(p)' /\ LocalOK(p)' /\ MissOK(p)'
<1>1. \A c \in Batched(p) \cup p.todo \cup p.marked :
          /\ c.s \in Sessions /\ c.i \in Snaps
          /\ CasHit(c)' <=> CasHit(c)
          /\ InEdit(c.s, c.i)' <=> InEdit(c.s, c.i)
          /\ rows'[c.s][c.i] = NONE <=> rows[c.s][c.i] = NONE
          /\ rows[c.s][c.i] # NONE =>
                /\ rows'[c.s][c.i].decided <=> rows[c.s][c.i].decided
                /\ row_is_local_only(rows'[c.s][c.i])
                      <=> row_is_local_only(rows[c.s][c.i])
  BY PassTyped, SameHits DEF SameData
<1>2. \A c : CasHit(c) => rows[c.s][c.i] # NONE
  BY DEF CasHit
<1>3. RowsOK(p)'
  <2> SUFFICES ASSUME NEW c \in Batched(p), NEW d \in Batched(p), c.s = d.s,
                      CasHit(c)'
               PROVE  /\ rows'[d.s][d.i] # NONE /\ rows'[d.s][d.i].decided
                      /\ d.i < c.i /\ ~CasHit(d)' => InEdit(c.s, c.i)'
    BY DEF RowsOK, Batched
  <2>1. /\ rows[d.s][d.i] # NONE /\ rows[d.s][d.i].decided
        /\ d.i < c.i /\ ~CasHit(d) => InEdit(c.s, c.i)
    BY <1>1 DEF RowsOK
  <2> QED BY <1>1, <2>1
<1>4. LocalOK(p)'
  <2>1. ASSUME NEW c \in p.local, CasHit(c)'
        PROVE  \/ row_is_local_only(rows'[c.s][c.i])
               \/ \E d \in Batched(p) : d.s = c.s /\ d.i > c.i
    <3>1. c \in Batched(p)
      BY DEF Batched
    <3>2. CasHit(c) /\ rows[c.s][c.i] # NONE
      BY <1>1, <1>2, <2>1, <3>1
    <3>3. \/ row_is_local_only(rows[c.s][c.i])
          \/ \E d \in Batched(p) : d.s = c.s /\ d.i > c.i
      BY <3>2 DEF LocalOK
    <3> QED BY <1>1, <3>1, <3>2, <3>3
  <2>2. ASSUME NEW c \in p.todo \cup p.marked, CasHit(c)', p.pc = "marksettle"
        PROVE  ~rows'[c.s][c.i].decided
    <3>1. CasHit(c) /\ rows[c.s][c.i] # NONE
      BY <1>1, <1>2, <2>2
    <3>2. ~rows[c.s][c.i].decided
      BY <2>2, <3>1 DEF LocalOK
    <3> QED BY <1>1, <3>1, <3>2
  <2> QED BY <2>1, <2>2 DEF LocalOK, Batched
<1>5. MissOK(p)'
  <2> SUFFICES ASSUME p.pc \in {"marklocal", "mark"}, p.miss
               PROVE  \E d \in Batched(p) : d.s = p.group /\ ~CasHit(d)'
    BY DEF MissOK, Batched
  <2>1. PICK d \in Batched(p) : d.s = p.group /\ ~CasHit(d)
    BY DEF MissOK
  <2> QED BY <1>1, <2>1
<1> QED BY <1>3, <1>4, <1>5

\* What every step of the pass comes down to.
LEMMA PassTurn ==
    ASSUME IInv', ShowInv, PassOnly, SameData, NEW p, pass' = p,
           BatchOK(p), RowsOK(p), LocalOK(p), MissOK(p), OlderOK(p)',
           SiteOK(p)', ShowOK(p)'
    PROVE  ShowInv'
<1>1. p \in PassType
  BY DEF IInv, TypeOK
<1>2. /\ capture' = capture /\ cmd' = cmd /\ taken' = taken
      /\ deletedHere' = deletedHere
  BY DEF PassOnly
<1>3. RowsOK(p)' /\ LocalOK(p)' /\ MissOK(p)'
  BY <1>1, <1>2, SameHeld
<1>4. EditInv'
  <2>1. cmd'.pc = "edit" => cmd'.s \in Sessions /\ cmd'.todo \subseteq Snaps
    BY DEF IInv, TaskInv, TypeOK, CmdType
  <2> QED BY <1>2, <2>1 DEF ShowInv, EditInv, SameData
<1>5. OrderInv'
  BY <1>2 DEF ShowInv, OrderInv, Creating
<1>6. HeldOK(p)'
  BY <1>3 DEF HeldOK
<1> QED BY <1>4, <1>5, <1>6 DEF ShowInv, BatchOK, Batched

\* Where the table stands still, what held of the claims holds.
LEMMA StillTurn ==
    ASSUME IInv', ShowInv, PassOnly, rows' = rows, NEW p, pass' = p,
           BatchOK(p), HeldOK(p), SiteOK(p)', ShowOK(p)'
    PROVE  ShowInv'
<1>1. SameData
  BY DEF SameData
<1>2. cmd' = cmd
  BY DEF PassOnly
<1>3. OlderOK(p)'
  BY <1>2 DEF HeldOK, OlderOK, CasHit, InEdit, Past, Judged, Pend
<1> QED BY <1>1, <1>3, PassTurn DEF HeldOK

\* Where nothing but the pass changes.
LEMMA QuietTurn ==
    ASSUME IInv', ShowInv, PassOnly, rows' = rows, site' = site, tombs' = tombs,
           NEW p, pass' = p, BatchOK(p), HeldOK(p), SiteOK(p), ShowOK(p)
    PROVE  ShowInv'
<1>1. cmd' = cmd /\ gone' = gone
  BY DEF PassOnly
<1>2. SiteOK(p)'
  BY <1>1 DEF SiteOK
<1>3. ShowOK(p)'
  BY <1>1 DEF ShowOK, Rested, Top, InEdit, Past, Batched
<1> QED BY <1>2, <1>3, StillTurn

\* The claims are in order as long as the pass gives none of them up.
LEMMA HeldMoves ==
    ASSUME NEW q, NEW p, HeldOK(q), p.local = q.local, p.send = q.send,
           Judged(p) \subseteq Judged(q), Pend(q) \subseteq Pend(p),
           q.pc = "clear" => p.pc = "clear",
           p.pc = "marksettle" =>
              /\ q.pc = "marksettle"
              /\ p.todo \cup p.marked \subseteq q.todo \cup q.marked,
           \/ p.miss = FALSE
           \/ p.pc \notin {"marklocal", "mark"}
           \/ q.pc = p.pc /\ q.miss /\ p.group = q.group
    PROVE  HeldOK(p)
<1>1. Batched(p) = Batched(q)
  BY DEF Batched
<1>2. RowsOK(p)
  BY <1>1 DEF HeldOK, RowsOK
<1>3. LocalOK(p)
  BY <1>1 DEF HeldOK, LocalOK
<1>4. MissOK(p)
  BY <1>1 DEF HeldOK, MissOK
<1>5. OlderOK(p)
  <2> SUFFICES ASSUME p.pc # "clear", NEW u \in Judged(p), CasHit(u),
                      ~InEdit(u.s, u.i), NEW j \in Snaps, j < u.i,
                      ~Past(u.s, j)
               PROVE  \E d \in Pend(p) : d.s = u.s /\ d.i = j /\ CasHit(d)
    BY DEF OlderOK
  <2>1. \E d \in Pend(q) : d.s = u.s /\ d.i = j /\ CasHit(d)
    BY DEF HeldOK, OlderOK
  <2> QED BY <2>1
<1> QED BY <1>2, <1>3, <1>4, <1>5 DEF HeldOK

\* A pass that is over, or begins.
LEMMA EndShows ==
    ASSUME IInv', ShowInv, PassOnly, rows' = rows, tombs' \subseteq tombs,
           \A s \in Sessions, i \in Snaps : Rested(s, i) => site'[s] = site[s],
           NEW p, pass' = p,
           p = PassIdle \/ p = [PassIdle EXCEPT !.pc = "read"]
    PROVE  ShowInv'
<1>1. BatchOK(p) /\ HeldOK(p)' /\ SiteOK(p)'
  BY IdleHeld
<1>2. p.deletes = {} /\ Batched(p) = {}
  BY DEF PassIdle, Batched
<1>3. cmd' = cmd
  BY DEF PassOnly
<1>4. ASSUME NEW s \in Sessions, NEW i \in Snaps, Rested(s, i)'
      PROVE  /\ site'[s] = [snap |-> i, sync_rev |-> rows'[s][i].sync_rev]
             /\ s \notin tombs'
             /\ \A j \in Snaps : j < i => Past(s, j)'
  <2>1. Rested(s, i)
    BY <1>3, <1>4 DEF Rested, Top, InEdit
  <2>2. /\ site[s] = [snap |-> i, sync_rev |-> rows[s][i].sync_rev]
        /\ s \notin tombs
        /\ \A j \in Snaps : j < i => Past(s, j)
    BY <2>1 DEF ShowInv, ShowOK
  <2> QED BY <2>1, <2>2 DEF Past
<1>5. ShowOK(p)'
  BY <1>2, <1>4 DEF ShowOK, Batched
<1>6. HeldOK(p)
  <2>1. /\ p.pc \in {"idle", "read"}
        /\ p.local = {} /\ p.send = {} /\ p.upload = {}
        /\ p.todo = {} /\ p.marked = {}
    BY DEF PassIdle
  <2> QED BY <2>1 DEF HeldOK, RowsOK, LocalOK, MissOK, OlderOK, Judged, Batched
<1> QED BY <1>1, <1>5, <1>6, StillTurn

\* A pass begins, or claims the rows of a session that closed without a result.
LEMMA StartShows ==
    ASSUME IInv, IInv', ShowInv,
           PassStart \/ \E s \in Sessions : SettleStart(s)
    PROVE  ShowInv'
<1>1. CASE PassStart
  <2>1. /\ PassOnly /\ rows' = rows /\ tombs' = tombs /\ site' = site
        /\ pass' = [PassIdle EXCEPT !.pc = "read"]
    BY <1>1 DEF PassStart, store
  <2>2. PICK p : p = [PassIdle EXCEPT !.pc = "read"]
    OBVIOUS
  <2> QED BY <2>1, <2>2, EndShows
<1>2. ASSUME NEW s \in Sessions, SettleStart(s)
      PROVE  ShowInv'
  <2>1. PICK q \in PassType : q = pass
    BY DEF IInv, TypeOK
  <2>2. PICK C : C = {Claim(s, i, rows[s][i].sync_rev) :
                         i \in {j \in Present(s) :
                                   ~rows[s][j].synced /\ ~rows[s][j].decided}}
    OBVIOUS
  <2>3. PICK p : p = [q EXCEPT !.pc = "marksettle", !.todo = C, !.group = NONE,
                               !.marked = {}, !.miss = FALSE]
    OBVIOUS
  <2>4. /\ PassOnly /\ rows' = rows /\ tombs' = tombs /\ site' = site
        /\ pass' = p /\ q.pc = "idle"
    BY <1>2, <2>1, <2>2, <2>3 DEF SettleStart, store, MarkThen
  <2>5. /\ p.pc = "marksettle" /\ p.local = q.local /\ p.send = q.send
        /\ p.upload = q.upload /\ p.deletes = q.deletes
        /\ p.todo = C /\ p.marked = {}
    BY <2>3 DEF PassType
  <2>6. p.local = {} /\ p.send = {} /\ p.upload = {} /\ p.deletes = {}
    BY <2>1, <2>4, <2>5 DEF ShowInv, BatchOK
  <2>7. Batched(p) = {}
    BY <2>6 DEF Batched
  <2>8. ASSUME NEW c \in C
        PROVE  ~rows[c.s][c.i].decided
    <3>1. PICK i \in Snaps : /\ rows[s][i] # NONE /\ ~rows[s][i].decided
                             /\ c = Claim(s, i, rows[s][i].sync_rev)
      BY <2>2 DEF Present
    <3> QED BY <3>1 DEF Claim
  <2>9. BatchOK(p)
    BY <2>5, <2>6, <2>7 DEF BatchOK
  <2>10. HeldOK(p)
    BY <2>5, <2>6, <2>7, <2>8
       DEF HeldOK, RowsOK, LocalOK, MissOK, OlderOK, Judged
  <2>11. SiteOK(p)
    BY <2>5, <2>6 DEF SiteOK
  <2>12. ShowOK(p)
    BY <2>6, <2>7 DEF ShowInv, ShowOK
  <2> QED BY <2>4, <2>9, <2>10, <2>11, <2>12, QuietTurn
<1> QED BY <1>1, <1>2

\* A group is marked, or the marking is over.
LEMMA GroupShows ==
    ASSUME IInv, IInv', ShowInv, GroupDone \/ MarkDone
    PROVE  ShowInv'
<1>1. PICK q \in PassType : q = pass
  BY DEF IInv, TypeOK
<1>2. /\ PassOnly /\ rows' = rows /\ tombs' = tombs /\ site' = site
      /\ q.pc \in {"marksettle", "marklocal", "mark"}
  BY <1>1 DEF GroupDone, MarkDone, store, Marking
<1>3. BatchOK(q) /\ HeldOK(q) /\ SiteOK(q) /\ ShowOK(q)
  BY <1>1 DEF ShowInv
<1>4. CASE GroupDone
  <2>1. PICK p : p = [q EXCEPT !.group = NONE, !.marked = {}, !.miss = FALSE]
    OBVIOUS
  <2>2. pass' = p
    BY <1>1, <1>4, <2>1 DEF GroupDone
  <2>3. /\ p.pc = q.pc /\ p.local = q.local /\ p.send = q.send
        /\ p.upload = q.upload /\ p.deletes = q.deletes /\ p.acc = q.acc
        /\ p.todo = q.todo /\ p.marked = {} /\ p.miss = FALSE
        /\ p.retire = q.retire
    BY <2>1 DEF PassType
  <2>4. BatchOK(p)
    BY <1>3, <2>3 DEF BatchOK, Batched
  <2>5. HeldOK(p)
    <3>1. Judged(p) = Judged(q) /\ Pend(p) = Pend(q)
      BY <2>3 DEF Judged, Pend
    <3> QED BY <1>3, <2>3, <3>1, HeldMoves
  <2>6. SiteOK(p) /\ ShowOK(p)
    BY <1>3, <2>3 DEF SiteOK, ShowOK, Batched
  <2> QED BY <1>2, <2>2, <2>4, <2>5, <2>6, QuietTurn
<1>5. CASE MarkDone
  <2>1. PICK pc : /\ pass' = [q EXCEPT !.pc = pc]
                  /\ \/ q.pc = "marksettle" /\ pc = "read"
                     \/ q.pc = "marklocal" /\ pc = "tombs"
                     \/ q.pc = "mark" /\ pc = "clear"
    BY <1>1, <1>5 DEF MarkDone, Marking
  <2>2. PICK p : p = [q EXCEPT !.pc = pc]
    OBVIOUS
  <2>3. /\ p.pc = pc /\ p.local = q.local /\ p.send = q.send
        /\ p.upload = q.upload /\ p.deletes = q.deletes /\ p.acc = q.acc
        /\ p.todo = q.todo /\ p.marked = q.marked /\ p.miss = q.miss
        /\ p.group = q.group
    BY <2>2 DEF PassType
  <2>4. q.todo = {}
    BY <1>1, <1>5 DEF MarkDone
  <2>5. BatchOK(p)
    BY <1>3, <2>1, <2>3 DEF BatchOK, Batched
  <2>6. HeldOK(p)
    <3>1. pc = "clear" \/ (Judged(p) = Judged(q) /\ Pend(p) = Pend(q))
      BY <2>1, <2>3, <2>4 DEF Judged, Pend
    <3>2. CASE pc # "clear"
      BY <1>3, <2>1, <2>3, <3>1, <3>2, HeldMoves
    <3>3. CASE pc = "clear"
      BY <1>3, <2>3, <3>3
         DEF HeldOK, RowsOK, LocalOK, MissOK, OlderOK, Batched
    <3> QED BY <3>2, <3>3
  <2>7. SiteOK(p)
    BY <1>3, <2>1, <2>3 DEF SiteOK
  <2>8. ShowOK(p)
    BY <1>3, <2>1, <2>3 DEF ShowOK, Batched
  <2> QED BY <1>2, <2>1, <2>2, <2>5, <2>6, <2>7, <2>8, QuietTurn
<1> QED BY <1>4, <1>5

\* The tombstones of local-only games: none of a game that is shown.
LEMMA RetireShows ==
    ASSUME IInv, IInv', ShowInv, RetireCheck \/ queue_tombstones
    PROVE  ShowInv'
<1>1. PICK q \in PassType : q = pass
  BY DEF IInv, TypeOK
<1>2. PassOnly /\ rows' = rows /\ site' = site
  BY DEF RetireCheck, queue_tombstones, store
<1>3. BatchOK(q) /\ HeldOK(q) /\ SiteOK(q) /\ ShowOK(q)
  BY <1>1 DEF ShowInv
<1>4. CASE RetireCheck
  <2>1. PICK R \in SUBSET q.retire :
            pass' = [q EXCEPT !.pc = IF q.local = {} THEN "tombs" ELSE "queue",
                              !.retire = R]
    <3>1. PICK R : R = {s \in q.retire : session_may_be_on_site(s)}
      OBVIOUS
    <3>2. R \in SUBSET q.retire
      BY <3>1
    <3> QED BY <1>1, <1>4, <3>1, <3>2 DEF RetireCheck
  <2>2. PICK pc \in {"tombs", "queue"} :
            pc = IF q.local = {} THEN "tombs" ELSE "queue"
    OBVIOUS
  <2>3. PICK p : p = [q EXCEPT !.pc = pc, !.retire = R]
    OBVIOUS
  <2>4. pass' = p /\ q.pc = "split" /\ tombs' = tombs
    BY <1>1, <1>4, <2>1, <2>2, <2>3 DEF RetireCheck, store
  <2>5. /\ p.pc = pc /\ p.local = q.local /\ p.send = q.send
        /\ p.upload = q.upload /\ p.deletes = q.deletes /\ p.acc = q.acc
        /\ p.todo = q.todo /\ p.marked = q.marked /\ p.retire = R
        /\ p.group = q.group
    BY <2>3 DEF PassType
  <2>6. BatchOK(p)
    BY <1>3, <2>2, <2>4, <2>5 DEF BatchOK, Batched
  <2>7. HeldOK(p)
    <3>1. Judged(p) = Judged(q) /\ Pend(p) = Pend(q)
      BY <2>2, <2>4, <2>5 DEF Judged, Pend
    <3> QED BY <1>3, <2>2, <2>4, <2>5, <3>1, HeldMoves
  <2>8. SiteOK(p)
    BY <2>2, <2>5 DEF SiteOK
  <2>9. ShowOK(p)
    BY <1>3, <2>4, <2>5 DEF ShowOK, Batched
  <2> QED BY <1>2, <2>4, <2>6, <2>7, <2>8, <2>9, QuietTurn
<1>5. CASE queue_tombstones
  <2>1. PICK p : p = [q EXCEPT !.pc = "marklocal", !.todo = q.local,
                               !.group = NONE, !.marked = {}, !.miss = FALSE]
    OBVIOUS
  <2>2. pass' = p /\ q.pc = "queue" /\ tombs' = tombs \cup q.retire
    BY <1>1, <1>5, <2>1 DEF queue_tombstones, MarkThen
  <2>3. /\ p.pc = "marklocal" /\ p.local = q.local /\ p.send = q.send
        /\ p.upload = q.upload /\ p.deletes = q.deletes /\ p.acc = q.acc
        /\ p.todo = q.local /\ p.marked = {} /\ p.miss = FALSE
    BY <2>1 DEF PassType
  <2>4. BatchOK(p)
    BY <1>3, <2>3 DEF BatchOK, Batched
  <2>5. HeldOK(p)
    <3>1. Judged(p) = Judged(q) /\ Pend(p) = Pend(q)
      BY <2>2, <2>3 DEF Judged, Pend
    <3> QED BY <1>3, <2>2, <2>3, <3>1, HeldMoves
  <2>6. SiteOK(p)'
    BY <2>3 DEF SiteOK
  <2>7. \A s \in q.retire : \E d \in Batched(q) : d.s = s
    BY <1>3, <2>2 DEF BatchOK, Batched
  <2>8. ASSUME NEW s \in Sessions, NEW i \in Snaps, Rested(s, i)
        PROVE  s \notin q.retire /\ \A d \in Batched(q) : d.s # s
    <3>1. \A d \in Batched(q) : d.s # s
      BY <1>3, <2>2, <2>8 DEF ShowOK
    <3> QED BY <2>7, <3>1
  <2>9. ShowOK(p)'
    <3>1. cmd' = cmd
      BY <1>2 DEF PassOnly
    <3>2. \A s \in Sessions, i \in Snaps : Rested(s, i)' => Rested(s, i)
      BY <1>2, <3>1 DEF Rested, Top, InEdit
    <3>3. \A s \in Sessions, i \in Snaps : Rested(s, i) =>
              /\ site'[s] = [snap |-> i, sync_rev |-> rows'[s][i].sync_rev]
              /\ s \notin tombs' /\ s \notin p.deletes
              /\ \A j \in Snaps : j < i => Past(s, j)'
              /\ \A d \in Batched(p) : d.s # s
      BY <1>2, <1>3, <2>2, <2>3, <2>8 DEF ShowOK, Past, Batched
    <3> QED BY <3>2, <3>3 DEF ShowOK, Batched
  <2> QED BY <1>2, <2>2, <2>4, <2>5, <2>6, <2>9, StillTurn
<1> QED BY <1>4, <1>5

\* The tombstones to send are read, the out-of-date ones are dropped: none of
\* a game that this pass uploads is sent.
LEMMA TombsShow ==
    ASSUME IInv, IInv', ShowInv,
           get_pending_tombstones \/ split_superseded_tombstones
    PROVE  ShowInv'
<1>1. PICK q \in PassType : q = pass
  BY DEF IInv, TypeOK
<1>2. PassOnly /\ rows' = rows /\ site' = site
  BY DEF get_pending_tombstones, split_superseded_tombstones, store
<1>3. BatchOK(q) /\ HeldOK(q) /\ SiteOK(q) /\ ShowOK(q)
  BY <1>1 DEF ShowInv
<1>4. tombs' \subseteq tombs
  BY DEF get_pending_tombstones, split_superseded_tombstones, store
<1>5. CASE pass' = PassIdle
  <2>1. PICK p : p = PassIdle
    OBVIOUS
  <2> QED BY <1>2, <1>4, <1>5, <2>1, EndShows
<1>6. CASE get_pending_tombstones /\ pass' # PassIdle
  <2>1. PICK D : D = tombs
    OBVIOUS
  <2>2. PICK p : p = [q EXCEPT !.pc = "supersede", !.deletes = D]
    OBVIOUS
  <2>3. pass' = p /\ q.pc = "tombs" /\ tombs' = tombs
    BY <1>1, <1>6, <2>1, <2>2 DEF get_pending_tombstones, store
  <2>4. /\ p.pc = "supersede" /\ p.local = q.local /\ p.send = q.send
        /\ p.upload = q.upload /\ p.deletes = D /\ p.acc = q.acc
        /\ p.todo = q.todo /\ p.marked = q.marked /\ p.group = q.group
    BY <2>2 DEF PassType
  <2>5. BatchOK(p)
    BY <1>3, <2>3, <2>4 DEF BatchOK, Batched
  <2>6. HeldOK(p)
    <3>1. Judged(p) = Judged(q) /\ Pend(p) = Pend(q)
      BY <2>3, <2>4 DEF Judged, Pend
    <3> QED BY <1>3, <2>3, <2>4, <3>1, HeldMoves
  <2>7. SiteOK(p)
    BY <2>1, <2>4 DEF SiteOK
  <2>8. ShowOK(p)
    BY <1>3, <2>1, <2>3, <2>4 DEF ShowOK, Batched
  <2> QED BY <1>2, <2>3, <2>5, <2>6, <2>7, <2>8, QuietTurn
<1>7. CASE split_superseded_tombstones /\ pass' # PassIdle
  <2>1. PICK U : U = Uploading
    OBVIOUS
  <2>2. PICK D : D = q.deletes \ U
    OBVIOUS
  <2>3. PICK p : p = [q EXCEPT !.pc = "upload", !.deletes = D]
    OBVIOUS
  <2>4. /\ pass' = p /\ q.pc = "supersede"
        /\ tombs' = tombs \ (q.deletes \cap U)
    BY <1>1, <1>7, <2>1, <2>2, <2>3 DEF split_superseded_tombstones
  <2>5. /\ p.pc = "upload" /\ p.local = q.local /\ p.send = q.send
        /\ p.upload = q.upload /\ p.deletes = D /\ p.acc = q.acc
        /\ p.todo = q.todo /\ p.marked = q.marked /\ p.group = q.group
    BY <2>3 DEF PassType
  <2>6. BatchOK(p)
    BY <1>3, <2>4, <2>5 DEF BatchOK, Batched
  <2>7. HeldOK(p)
    <3>1. Judged(p) = Judged(q) /\ Pend(p) = Pend(q)
      BY <2>4, <2>5 DEF Judged, Pend
    <3> QED BY <1>3, <2>4, <2>5, <3>1, HeldMoves
  <2>8. \A u \in q.upload : u.s \in U
    BY <1>1, <2>1 DEF Uploading
  <2>9. SiteOK(p)'
    <3>1. gone' = gone
      BY <1>2 DEF PassOnly
    <3>2. \A s \in tombs : s \in q.deletes \/ s \in gone
      BY <1>3, <2>4 DEF SiteOK
    <3> QED BY <2>2, <2>4, <2>5, <2>8, <3>1, <3>2 DEF SiteOK
  <2>10. ShowOK(p)'
    <3>1. cmd' = cmd
      BY <1>2 DEF PassOnly
    <3>2. \A s \in Sessions, i \in Snaps : Rested(s, i)' => Rested(s, i)
      BY <1>2, <3>1 DEF Rested, Top, InEdit
    <3>3. \A s \in Sessions, i \in Snaps : Rested(s, i) =>
              /\ site'[s] = [snap |-> i, sync_rev |-> rows'[s][i].sync_rev]
              /\ s \notin tombs' /\ s \notin p.deletes
              /\ \A j \in Snaps : j < i => Past(s, j)'
              /\ \A d \in Batched(p) : d.s # s
      BY <1>2, <1>3, <1>4, <2>2, <2>4, <2>5 DEF ShowOK, Past, Batched
    <3> QED BY <3>2, <3>3 DEF ShowOK, Batched
  <2> QED BY <1>2, <2>4, <2>6, <2>7, <2>9, <2>10, StillTurn
<1> QED BY <1>5, <1>6, <1>7

\* The site's answer to the pass: what it accepted is there, and the games it
\* shows are not touched.
LEMMA SiteAnswers ==
    ASSUME IInv, ShowInv, pass.pc = "upload",
           NEW A \in SUBSET pass.upload, SiteApplies(A)
    PROVE  /\ \A u \in A :
                 site'[u.s] = [snap |-> u.i, sync_rev |-> u.sync_rev]
           /\ \A s \in Sessions, i \in Snaps :
                 Rested(s, i) => site'[s] = site[s]
<1>1. /\ BatchOK(pass) /\ SiteOK(pass) /\ ShowOK(pass)
      /\ pass.upload \subseteq Batched(pass)
  BY DEF ShowInv, BatchOK, Batched
<1>2. \A s \in Sessions :
          site'[s] = IF s \in pass.deletes THEN NONE
                     ELSE IF \E c \in A : c.s = s
                     THEN LET c == CHOOSE c \in A : c.s = s
                          IN  [snap |-> c.i, sync_rev |-> c.sync_rev]
                     ELSE site[s]
  BY DEF SiteApplies
<1>3. \A c \in A : c.s \in Sessions /\ c.i \in Snaps
  BY <1>1, BatchClaims
<1>4. ASSUME NEW u \in A
      PROVE  site'[u.s] = [snap |-> u.i, sync_rev |-> u.sync_rev]
  <2>1. u.s \in Sessions /\ u.s \notin pass.deletes
    BY <1>1, <1>3 DEF SiteOK
  <2>2. PICK d : d = CHOOSE c \in A : c.s = u.s
    OBVIOUS
  <2>3. d \in A /\ d.s = u.s
    BY <2>2
  <2>4. d.i <= u.i /\ u.i <= d.i /\ (d.i = u.i => d = u)
    BY <1>1, <2>3 DEF BatchOK
  <2>5. d = u
    BY <1>3, <2>3, <2>4 DEF Snaps
  <2>6. site'[u.s] = [snap |-> d.i, sync_rev |-> d.sync_rev]
    BY <1>2, <2>1, <2>2, <2>3
  <2> QED BY <2>5, <2>6
<1>5. ASSUME NEW s \in Sessions, NEW i \in Snaps, Rested(s, i)
      PROVE  site'[s] = site[s]
  <2>1. s \notin pass.deletes /\ \A d \in Batched(pass) : d.s # s
    BY <1>1, <1>5 DEF ShowOK
  <2>2. ~\E c \in A : c.s = s
    BY <1>1, <2>1
  <2> QED BY <1>2, <2>1, <2>2
<1> QED BY <1>4, <1>5

\* The site accepts some of what it was sent, and the pass hears of it.
LEMMA AckShows ==
    ASSUME IInv, IInv', ShowInv, PassOnly, pass.pc = "upload",
           NEW A \in SUBSET pass.upload, SiteApplies(A),
           rows' = rows, tombs' = tombs, NEW p, pass' = p,
           p.pc = "ack", p.local = pass.local, p.send = pass.send,
           p.upload = pass.upload, p.deletes = pass.deletes, p.acc = A,
           p.marked = pass.marked, p.group = pass.group
    PROVE  ShowInv'
<1>1. PICK q : q = pass
  OBVIOUS
<1>2. BatchOK(q) /\ HeldOK(q) /\ SiteOK(q) /\ ShowOK(q) /\ q.pc = "upload"
  BY <1>1 DEF ShowInv
<1>3. BatchOK(p)
  BY <1>1, <1>2 DEF BatchOK, Batched
<1>4. HeldOK(p)
  <2>1. Judged(p) = Judged(q) /\ Pend(p) = Pend(q)
    BY <1>1, <1>2 DEF Judged, Pend
  <2> QED BY <1>1, <1>2, <2>1, HeldMoves
<1>5. gone' = gone /\ cmd' = cmd
  BY DEF PassOnly
<1>6. SiteOK(p)'
  BY <1>1, <1>2, <1>5, SiteAnswers DEF SiteOK
<1>7. ShowOK(p)'
  <2>1. \A s \in Sessions, i \in Snaps : Rested(s, i)' => Rested(s, i)
    BY <1>5 DEF Rested, Top, InEdit
  <2>2. \A s \in Sessions, i \in Snaps : Rested(s, i) =>
            /\ site'[s] = [snap |-> i, sync_rev |-> rows'[s][i].sync_rev]
            /\ s \notin tombs' /\ s \notin p.deletes
            /\ \A j \in Snaps : j < i => Past(s, j)'
            /\ \A d \in Batched(p) : d.s # s
    BY <1>1, <1>2, SiteAnswers DEF ShowOK, Past, Batched
  <2> QED BY <2>1, <2>2 DEF ShowOK, Batched
<1> QED BY <1>3, <1>4, <1>6, <1>7, StillTurn

\* The upload, answered, refused in part, failed or unanswered.
LEMMA UploadShows ==
    ASSUME IInv, IInv', ShowInv, UploadAccepted \/ UploadFault
    PROVE  ShowInv'
<1>1. PICK q \in PassType : q = pass
  BY DEF IInv, TypeOK
<1>2. CASE UploadAccepted
  <2>1. /\ PassOnly /\ pass.pc = "upload" /\ SiteApplies(pass.upload)
        /\ rows' = rows /\ tombs' = tombs
        /\ pass' = [q EXCEPT !.pc = "ack", !.acc = q.upload]
    BY <1>1, <1>2 DEF UploadAccepted, store
  <2>2. PICK p : p = [q EXCEPT !.pc = "ack", !.acc = q.upload]
    OBVIOUS
  <2>3. /\ p.pc = "ack" /\ p.local = q.local /\ p.send = q.send
        /\ p.upload = q.upload /\ p.deletes = q.deletes /\ p.acc = q.upload
        /\ p.marked = q.marked /\ p.group = q.group
    BY <2>2 DEF PassType
  <2>4. PICK A \in SUBSET pass.upload : A = pass.upload
    OBVIOUS
  <2> QED BY ZenonT(60), <1>1, <2>1, <2>2, <2>3, <2>4, AckShows
<1>3. ASSUME NEW A \in SUBSET pass.upload, NEW B \in SUBSET pass.upload,
             UploadPartly(A, B)
      PROVE  ShowInv'
  <2>1. /\ PassOnly /\ pass.pc = "upload" /\ SiteApplies(A)
        /\ rows' = rows /\ tombs' = tombs
        /\ pass' = [q EXCEPT !.pc = "ack", !.acc = A, !.rej = B]
    BY <1>1, <1>3 DEF UploadPartly, store
  <2>2. PICK p : p = [q EXCEPT !.pc = "ack", !.acc = A, !.rej = B]
    OBVIOUS
  <2>3. /\ p.pc = "ack" /\ p.local = q.local /\ p.send = q.send
        /\ p.upload = q.upload /\ p.deletes = q.deletes /\ p.acc = A
        /\ p.marked = q.marked /\ p.group = q.group
    BY <2>2 DEF PassType
  <2> QED BY <1>1, <2>1, <2>2, <2>3, AckShows
<1>4. PICK p : p = PassIdle
  OBVIOUS
<1>5. CASE UploadFailed
  <2>1. /\ PassOnly /\ rows' = rows /\ tombs' = tombs /\ site' = site
        /\ pass' = PassIdle
    BY <1>5 DEF UploadFailed, store
  <2> QED BY <1>4, <2>1, EndShows
<1>6. CASE UploadAnswerLost
  <2>1. /\ PassOnly /\ pass.pc = "upload" /\ SiteApplies(pass.upload)
        /\ rows' = rows /\ tombs' = tombs /\ pass' = PassIdle
    BY <1>6 DEF UploadAnswerLost, store
  <2>2. PICK A \in SUBSET pass.upload : A = pass.upload
    OBVIOUS
  <2>3. \A s \in Sessions, i \in Snaps : Rested(s, i) => site'[s] = site[s]
    BY <2>1, <2>2, SiteAnswers
  <2> QED BY <1>4, <2>1, <2>3, EndShows
<1> QED BY <1>2, <1>3, <1>5, <1>6 DEF UploadFault

\* The quarantine sets one flag of rows that are not marked.
LEMMA QuarantineFlags ==
    ASSUME IInv, quarantine_upload
    PROVE  \A s \in Sessions, i \in Snaps :
              \/ rows'[s][i] = rows[s][i]
              \/ /\ rows[s][i] # NONE /\ rows'[s][i] # NONE
                 /\ Stay(rows[s][i], rows'[s][i])
                 /\ rows'[s][i].synced = rows[s][i].synced
                 /\ rows'[s][i].upload_reject
<1> SUFFICES ASSUME NEW s \in Sessions, NEW i \in Snaps,
                    rows'[s][i] # rows[s][i]
             PROVE  /\ rows[s][i] # NONE /\ rows'[s][i] # NONE
                    /\ Stay(rows[s][i], rows'[s][i])
                    /\ rows'[s][i].synced = rows[s][i].synced
                    /\ rows'[s][i].upload_reject
  OBVIOUS
<1>1. /\ rows[s][i] # NONE /\ rows'[s][i] # NONE
      /\ Stay(rows[s][i], rows'[s][i])
  BY QuarantinedRows DEF IInv
<1>2. PICK r \in PersonalMatch : r = rows[s][i]
  BY <1>1, RowAt DEF IInv
<1>3. \/ rows'[s][i] = [rows[s][i] EXCEPT !.upload_reject = TRUE]
      \/ rows'[s][i] = rows[s][i]
  <2> HIDE DEF claims_covering, CasHit
  <2> QED BY DEF quarantine_upload
<1>4. rows'[s][i] = [r EXCEPT !.upload_reject = TRUE]
  BY <1>2, <1>3
<1>5. [r EXCEPT !.upload_reject = TRUE].synced = r.synced
         /\ [r EXCEPT !.upload_reject = TRUE].upload_reject = TRUE
  BY DEF PersonalMatch
<1> QED BY <1>1, <1>2, <1>4, <1>5

\* A row that would upload the same is as local-only as before.
LEMMA StayLocal ==
    ASSUME NEW a, NEW b, Stay(a, b)
    PROVE  row_is_local_only(b) <=> row_is_local_only(a)
BY DEF Stay, row_is_local_only, stats_row_is_tracked, display_map_name

\* The refused rows are set aside, and the accepted games' claims are marked
\* next.
LEMMA QuarantineShows ==
    ASSUME IInv, IInv', ShowInv, quarantine_upload
    PROVE  ShowInv'
<1>1. PICK q \in PassType : q = pass
  BY DEF IInv, TypeOK
<1>2. BatchOK(q) /\ HeldOK(q) /\ SiteOK(q) /\ ShowOK(q) /\ q.pc = "ack"
  BY <1>1 DEF ShowInv, quarantine_upload
<1>3. PICK C : C = {c \in q.send : \E u \in q.acc : u.s = c.s}
  OBVIOUS
<1>4. PICK p : p = [q EXCEPT !.pc = "mark", !.todo = C, !.group = NONE,
                             !.marked = {}, !.miss = FALSE]
  OBVIOUS
<1>5. /\ PassOnly /\ pass' = p /\ tombs' = tombs /\ site' = site
  BY <1>1, <1>3, <1>4 DEF quarantine_upload, MarkThen, claims_covering
<1>6. cmd' = cmd /\ gone' = gone
  BY <1>5 DEF PassOnly
<1>7. /\ p.pc = "mark" /\ p.local = q.local /\ p.send = q.send
      /\ p.upload = q.upload /\ p.deletes = q.deletes /\ p.acc = q.acc
      /\ p.todo = C /\ p.marked = {} /\ p.miss = FALSE /\ p.group = NONE
  BY <1>4 DEF PassType
<1>8. SameData
  BY QuarantineFlags, StayLocal DEF SameData, Stay
<1>9. \A s \in Sessions, j \in Snaps : Past(s, j) => Past(s, j)'
  BY QuarantineFlags DEF Past, Stay
<1>10. q.acc \subseteq q.upload /\ q.upload \subseteq q.send
  BY <1>1, <1>2, JudgedSent DEF BatchOK
<1>11. BatchOK(p)
  BY <1>2, <1>3, <1>7 DEF BatchOK, Batched
<1>12. RowsOK(p) /\ LocalOK(p) /\ MissOK(p)
  BY <1>2, <1>7 DEF HeldOK, RowsOK, LocalOK, MissOK, Batched
<1>13. \A c \in q.send \cup q.acc :
           c \in Claims /\ c.s \in Sessions /\ (CasHit(c)' <=> CasHit(c))
  BY <1>6, <1>8, <1>10, PassTyped, SameHits
<1>14. OlderOK(p)'
  <2> SUFFICES ASSUME NEW u \in q.acc, CasHit(u)', ~InEdit(u.s, u.i)',
                      NEW j \in Snaps, j < u.i, ~Past(u.s, j)'
               PROVE  \E d \in C : d.s = u.s /\ d.i = j /\ CasHit(d)'
    BY <1>7 DEF OlderOK, Judged, Pend
  <2>1. CasHit(u) /\ ~InEdit(u.s, u.i) /\ ~Past(u.s, j)
    BY <1>6, <1>9, <1>13 DEF InEdit
  <2>2. u \in Judged(q)
    BY <1>2, <1>10 DEF Judged
  <2>3. PICK d \in Pend(q) : d.s = u.s /\ d.i = j /\ CasHit(d)
    BY <1>2, <2>1, <2>2 DEF HeldOK, OlderOK
  <2>4. d \in q.send
    BY <1>2, <2>3 DEF Pend
  <2> QED BY <1>3, <1>13, <2>3, <2>4
<1>15. SiteOK(p)'
  BY <1>2, <1>5, <1>6, <1>7 DEF SiteOK
<1>16. ShowOK(p)'
  <2>1. ASSUME NEW s \in Sessions, NEW i \in Snaps, Rested(s, i)'
        PROVE  /\ Rested(s, i)
               /\ rows'[s][i].sync_rev = rows[s][i].sync_rev
    <3>1. Top(s, i) /\ ~InEdit(s, i)
      BY <1>6, <1>8, <2>1, SameHits DEF Rested
    <3>2. rows[s][i] # NONE
      BY <3>1 DEF Top
    <3>3. rows[s][i].synced /\ ~row_is_local_only(rows[s][i])
      BY <1>8, <2>1, <3>2, QuarantineFlags DEF SameData, Rested
    <3> QED BY <1>8, <3>1, <3>2, <3>3 DEF SameData, Rested
  <2>2. \A s \in Sessions, i \in Snaps : Rested(s, i) =>
            /\ site'[s] = [snap |-> i, sync_rev |-> rows[s][i].sync_rev]
            /\ s \notin tombs' /\ s \notin p.deletes
            /\ \A j \in Snaps : j < i => Past(s, j)'
            /\ \A d \in Batched(p) : d.s # s
    BY <1>2, <1>5, <1>7, <1>9 DEF ShowOK, Batched
  <2> QED BY <2>1, <2>2 DEF ShowOK, Batched
<1> QED BY <1>5, <1>8, <1>11, <1>12, <1>14, <1>15, <1>16, PassTurn

\* The acknowledged tombstones are cleared.
LEMMA ClearShows ==
    ASSUME IInv, IInv', ShowInv, clear_acknowledged_tombstones
    PROVE  ShowInv'
<1>1. /\ PassOnly /\ rows' = rows /\ tombs' \subseteq tombs /\ site' = site
      /\ pass' = PassIdle
  BY DEF clear_acknowledged_tombstones
<1>2. PICK p : p = PassIdle
  OBVIOUS
<1> QED BY <1>1, <1>2, EndShows

\* What a mark does to the table: the claimed row alone, while it is the
\* claimed one, and of that row one flag.
LEMMA CasFlags ==
    ASSUME IInv, NEW c \in Claims, NEW mark \in BOOLEAN,
           cas_set_synced(c, mark)
    PROVE  \A s \in Sessions, i \in Snaps :
              \/ /\ rows'[s][i] = rows[s][i]
                 /\ ~(CasHit(c) /\ s = c.s /\ i = c.i)
              \/ /\ CasHit(c) /\ s = c.s /\ i = c.i
                 /\ rows[s][i] # NONE /\ rows'[s][i] # NONE
                 /\ rows'[s][i].sync_rev = rows[s][i].sync_rev
                 /\ rows'[s][i].decided = rows[s][i].decided
                 /\ row_is_local_only(rows'[s][i])
                       <=> row_is_local_only(rows[s][i])
                 /\ rows'[s][i].upload_reject = rows[s][i].upload_reject
                 /\ rows'[s][i].synced = mark
<1>1. PICK t \in Sessions, j \in Snaps : t = c.s /\ j = c.i
  BY DEF Claims
<1>2. CASE ~CasHit(c)
  BY <1>2 DEF cas_set_synced
<1>3. CASE CasHit(c)
  <2>1. PICK r \in PersonalMatch : r = rows[t][j]
    BY <1>1, <1>3, RowAt DEF CasHit, IInv
  <2>2. PICK v : v = [r EXCEPT !.synced = mark]
    OBVIOUS
  <2>3. /\ v \in PersonalMatch
        /\ v.sync_rev = r.sync_rev /\ v.decided = r.decided
        /\ v.upload_reject = r.upload_reject /\ v.synced = mark
        /\ v.map_name = r.map_name /\ v.game_mode = r.game_mode
        /\ v.corrected_map_name = r.corrected_map_name
    BY <2>2 DEF PersonalMatch
  <2>4. row_is_local_only(v) <=> row_is_local_only(r)
    BY <2>3 DEF row_is_local_only, stats_row_is_tracked, display_map_name
  <2>5. rows' = [rows EXCEPT ![t][j] = v]
    BY <1>1, <1>3, <2>1, <2>2, Zenon DEF cas_set_synced
  <2>6. \A s \in Sessions, i \in Snaps :
            rows'[s][i] = IF s = t /\ i = j THEN v ELSE rows[s][i]
    <3>1. v \in PersonalMatch \cup {NONE}
      BY <2>3
    <3> QED BY ZenonT(60), <2>5, <3>1, CellWritten DEF IInv
  <2> QED BY <1>1, <1>3, <2>1, <2>3, <2>4, <2>6, NoneAssumption
<1> QED BY <1>2, <1>3

\* A mark, of the next claim of a group.  What it may make the one to show was
\* accepted, and everything older of that game is past.
LEMMA MarkShows ==
    ASSUME IInv, IInv', GoneInv, ShowInv, MarkCas
    PROVE  ShowInv'
<1>1. PICK q \in PassType : q = pass
  BY DEF IInv, TypeOK
<1>2. PICK c \in q.todo :
          /\ q.group \in {NONE, c.s}
          /\ \A d \in q.todo : d.s = c.s => c.i <= d.i
          /\ cas_set_synced(c, TRUE)
          /\ pass' = [pass EXCEPT
               !.todo = @ \ {c},
               !.group = c.s,
               !.marked = IF CasHit(c) THEN @ \cup {c} ELSE @,
               !.miss = @ \/ ~CasHit(c)]
  BY <1>1 DEF MarkCas
<1>3. /\ PassOnly /\ tombs' = tombs /\ site' = site
      /\ q.pc \in {"marksettle", "marklocal", "mark"}
  BY <1>1 DEF MarkCas, Marking
<1>4. PICK M : M = IF CasHit(c) THEN q.marked \cup {c} ELSE q.marked
  OBVIOUS
<1>5. PICK b \in BOOLEAN : b = (q.miss \/ ~CasHit(c))
  OBVIOUS
<1>6. PICK p : p = [q EXCEPT !.todo = q.todo \ {c}, !.group = c.s,
                             !.marked = M, !.miss = b]
  OBVIOUS
<1>7. pass' = p
  BY <1>1, <1>2, <1>4, <1>5, <1>6
<1>8. /\ p.pc = q.pc /\ p.local = q.local /\ p.send = q.send
      /\ p.upload = q.upload /\ p.deletes = q.deletes /\ p.acc = q.acc
      /\ p.todo = q.todo \ {c} /\ p.marked = M /\ p.miss = b
      /\ p.group = c.s /\ p.retire = q.retire
  BY <1>6 DEF PassType
<1>9. BatchOK(q) /\ HeldOK(q) /\ SiteOK(q) /\ ShowOK(q)
  BY <1>1 DEF ShowInv
<1>10. cmd' = cmd /\ gone' = gone
  BY <1>3 DEF PassOnly
<1>11. \A d \in Batched(q) \cup q.upload \cup q.acc \cup q.todo \cup q.marked :
           d \in Claims /\ d.s \in Sessions /\ d.i \in Snaps
  BY PassTyped
<1>12. M \subseteq q.todo \cup q.marked
  BY <1>4
<1>13. \A s \in Sessions, i \in Snaps :
           \/ /\ rows'[s][i] = rows[s][i]
              /\ ~(CasHit(c) /\ s = c.s /\ i = c.i)
           \/ /\ CasHit(c) /\ s = c.s /\ i = c.i
              /\ rows[s][i] # NONE /\ rows'[s][i] # NONE
              /\ rows'[s][i].sync_rev = rows[s][i].sync_rev
              /\ rows'[s][i].decided = rows[s][i].decided
              /\ row_is_local_only(rows'[s][i]) <=> row_is_local_only(rows[s][i])
              /\ rows'[s][i].upload_reject = rows[s][i].upload_reject
              /\ rows'[s][i].synced = TRUE
  BY <1>2, <1>11, CasFlags
<1>14. SameData
  BY <1>13 DEF SameData
<1>15. \A d \in Claims : CasHit(d)' <=> CasHit(d)
  BY <1>10, <1>14, SameHits
<1>16. \A s \in Sessions, j \in Snaps : Past(s, j) => Past(s, j)'
  BY <1>13 DEF Past
<1>17. q.pc \in {"marklocal", "mark"} => c \in Batched(q)
  BY <1>2, <1>9 DEF BatchOK, Batched
<1>18. BatchOK(p)
  <2>1. \A e \in q.marked : e.s = c.s
    <3>1. \A e \in q.marked : e.s = q.group /\ e.s \in Sessions
      BY <1>9, <1>11 DEF BatchOK
    <3> QED BY <1>2, <3>1, NoneApart
  <2>2. \A e \in M : e.s = c.s
    BY <1>4, <2>1
  <2>3. (q.todo \ {c}) \cup M \subseteq q.todo \cup q.marked
    BY <1>12
  <2> QED BY <1>9, <1>3, <1>8, <2>2, <2>3 DEF BatchOK, Batched
<1>19. RowsOK(p) /\ LocalOK(p)
  <2>1. Batched(p) = Batched(q)
    BY <1>8 DEF Batched
  <2> QED BY <1>8, <1>9, <1>12, <2>1 DEF HeldOK, RowsOK, LocalOK
<1>20. MissOK(p)
  <2> SUFFICES ASSUME q.pc \in {"marklocal", "mark"}, b
               PROVE  \E d \in Batched(q) : d.s = c.s /\ ~CasHit(d)
    BY <1>8 DEF MissOK, Batched
  <2>1. CASE ~CasHit(c)
    BY <1>17, <2>1
  <2>2. CASE q.miss
    <3>1. PICK d \in Batched(q) : d.s = q.group /\ ~CasHit(d)
      BY <1>9, <2>2 DEF HeldOK, MissOK
    <3>2. d.s # NONE
      BY <1>11, NoneApart
    <3> QED BY <1>2, <3>1, <3>2
  <2> QED BY <1>5, <2>1, <2>2
<1>21. OlderOK(p)'
  <2>1. Judged(p) = Judged(q) /\ Judged(q) \subseteq q.upload
    <3>1. Judged(pass) \subseteq pass.upload
      BY <1>1, <1>9, JudgedSent
    <3> QED BY <1>1, <1>8, <3>1 DEF Judged
  <2> SUFFICES ASSUME NEW u \in Judged(q), CasHit(u)', ~InEdit(u.s, u.i)',
                      NEW j \in Snaps, j < u.i, ~Past(u.s, j)'
               PROVE  \E d \in Pend(p) : d.s = u.s /\ d.i = j /\ CasHit(d)'
    BY <2>1 DEF OlderOK, Judged, Pend
  <2>2. u \in Claims /\ u.s \in Sessions
    BY <1>11, <2>1
  <2>3. CasHit(u) /\ ~InEdit(u.s, u.i) /\ ~Past(u.s, j)
    BY <1>10, <1>15, <1>16, <2>2 DEF InEdit
  <2>4. PICK d \in Pend(q) : d.s = u.s /\ d.i = j /\ CasHit(d)
    BY <1>3, <1>9, <2>3 DEF HeldOK, OlderOK
  <2>5. d \in Batched(q)
    BY <1>1, <1>9, JudgedSent
  <2>6. CasHit(d)'
    BY <1>11, <1>15, <2>4, <2>5
  <2>7. ASSUME d = c
        PROVE  FALSE
    <3>1. rows'[u.s][j].synced
      BY <1>13, <2>2, <2>4, <2>7
    <3> QED BY <3>1 DEF Past
  <2>8. d \in Pend(p)
    BY <1>3, <1>8, <2>4, <2>7 DEF Pend
  <2> QED BY <2>4, <2>6, <2>8
<1>22. SiteOK(p)'
  BY <1>3, <1>8, <1>9, <1>10 DEF SiteOK
<1>23. ShowOK(p)'
  <2> SUFFICES ASSUME NEW s \in Sessions, NEW i \in Snaps, Rested(s, i)'
               PROVE  /\ site[s] = [snap |-> i, sync_rev |-> rows'[s][i].sync_rev]
                      /\ s \notin tombs /\ s \notin q.deletes
                      /\ \A j \in Snaps : j < i => Past(s, j)'
                      /\ \/ q.pc = "clear"
                         \/ \A d \in Batched(q) : d.s # s
                         \/ /\ q.pc = "mark"
                            /\ Claim(s, i, rows'[s][i].sync_rev) \in q.acc
    BY <1>3, <1>8 DEF ShowOK, Batched
  <2>1. Top(s, i) /\ ~InEdit(s, i)
    BY <1>10, <1>14, SameHits DEF Rested
  <2>2. rows[s][i] # NONE /\ rows[s][i].decided
    BY <2>1 DEF Top
  <2>3. ~row_is_local_only(rows[s][i])
    BY <1>14, <2>2 DEF Rested, SameData
  <2>4. CASE ~(CasHit(c) /\ s = c.s /\ i = c.i)
    <3>1. rows'[s][i] = rows[s][i]
      BY <1>13, <2>4
    <3>2. Rested(s, i)
      BY <2>1, <2>3, <3>1 DEF Rested
    <3>3. /\ site[s] = [snap |-> i, sync_rev |-> rows[s][i].sync_rev]
          /\ s \notin tombs /\ s \notin q.deletes
          /\ \A j \in Snaps : j < i => Past(s, j)
          /\ \/ q.pc = "clear"
             \/ \A d \in Batched(q) : d.s # s
             \/ /\ q.pc = "mark"
                /\ Claim(s, i, rows[s][i].sync_rev) \in q.acc
      BY <1>9, <3>2 DEF ShowOK
    <3>4. \A j \in Snaps : j < i => Past(s, j)'
      BY <1>16, <3>3
    <3> QED BY <3>1, <3>3, <3>4
  <2>5. CASE CasHit(c) /\ s = c.s /\ i = c.i
    <3>1. q.pc # "marksettle"
      BY <1>9, <2>2, <2>5 DEF HeldOK, LocalOK
    <3>2. c \in Batched(q)
      BY <1>3, <1>17, <3>1
    <3>3. ASSUME NEW d \in Batched(q), d.s = s, d.i > i
          PROVE  FALSE
      <4>1. rows[d.s][d.i] # NONE /\ rows[d.s][d.i].decided
        BY <1>9, <2>5, <3>2, <3>3 DEF HeldOK, RowsOK
      <4>2. d.i \in Snaps
        BY <1>11
      <4> QED BY <2>1, <3>3, <4>1, <4>2 DEF Top
    <3>4. q.pc = "mark"
      <4>1. ASSUME q.pc = "marklocal"
            PROVE  FALSE
        <5>1. c \in q.local
          BY <1>9, <4>1 DEF BatchOK
        <5>2. \E d \in Batched(q) : d.s = c.s /\ d.i > c.i
          BY <1>9, <2>3, <2>5, <5>1 DEF HeldOK, LocalOK
        <5> QED BY <2>5, <3>3, <5>2
      <4> QED BY <1>3, <3>1, <4>1
    <3>5. PICK u \in q.acc : u.s = c.s
      BY <1>9, <3>4 DEF BatchOK
    <3>6. u \in q.upload /\ u \in Batched(q) /\ u.i \in Snaps /\ i \in Snaps
      BY <1>1, <1>9, <1>11, JudgedSent
    <3>7. c.i <= u.i /\ (c.i = u.i => c = u)
      BY <1>9, <3>2, <3>5, <3>6 DEF BatchOK
    <3>8. ~(u.i > i)
      BY <2>5, <3>3, <3>5, <3>6
    <3>9. c = u
      BY <2>5, <3>6, <3>7, <3>8 DEF Snaps
    <3>10. site[s] = [snap |-> i, sync_rev |-> c.sync_rev]
      BY <1>9, <2>5, <3>4, <3>9 DEF SiteOK
    <3>11. c.sync_rev = rows[s][i].sync_rev /\ rows'[s][i].sync_rev = c.sync_rev
      BY <1>13, <2>5 DEF CasHit
    <3>12. s \notin q.deletes /\ (s \in tombs => s \in gone)
      BY <1>9, <2>5, <3>4, <3>6, <3>9 DEF SiteOK
    <3>13. s \notin gone
      BY <2>2 DEF GoneInv
    <3>14. ASSUME NEW j \in Snaps, j < i
           PROVE  Past(s, j)'
      <4>1. c \in Judged(q)
        BY <3>4, <3>9 DEF Judged
      <4>2. \/ Past(s, j)
            \/ \E d \in Pend(q) : d.s = s /\ d.i = j /\ CasHit(d)
        BY <1>9, <2>1, <2>5, <3>4, <3>14, <4>1 DEF HeldOK, OlderOK
      <4>3. ASSUME NEW d \in Pend(q), d.s = s, d.i = j
            PROVE  FALSE
        <5>1. d \in q.todo
          BY <3>4, <4>3 DEF Pend
        <5>2. i <= j
          BY <1>2, <2>5, <4>3, <5>1
        <5> QED BY <3>14, <5>2 DEF Snaps
      <4> QED BY <1>16, <4>2, <4>3
    <3>15. c = Claim(s, i, c.sync_rev)
      BY <1>11, <2>5 DEF Claims, Claim
    <3>16. Claim(s, i, rows'[s][i].sync_rev) \in q.acc
      BY <3>5, <3>9, <3>11, <3>15
    <3> QED BY <3>4, <3>10, <3>11, <3>12, <3>13, <3>14, <3>16
  <2> QED BY <2>4, <2>5
<1> QED BY <1>3, <1>7, <1>14, <1>18, <1>19, <1>20, <1>21, <1>22, <1>23, PassTurn

\* A mark taken back, because a row of its group was written: then the newest
\* of the group was written, or is about to be, and nothing of it is shown.
LEMMA UndoShows ==
    ASSUME IInv, IInv', ShowInv, MarkUndo
    PROVE  ShowInv'
<1>1. PICK q \in PassType : q = pass
  BY DEF IInv, TypeOK
<1>2. PICK c \in q.marked :
          cas_set_synced(c, FALSE) /\ pass' = [q EXCEPT !.marked = q.marked \ {c}]
  BY <1>1 DEF MarkUndo
<1>3. /\ PassOnly /\ tombs' = tombs /\ site' = site /\ q.miss
      /\ q.pc \in {"marksettle", "marklocal", "mark"}
  BY <1>1 DEF MarkUndo, Marking
<1>4. PICK p : p = [q EXCEPT !.marked = q.marked \ {c}]
  OBVIOUS
<1>5. /\ p.pc = q.pc /\ p.local = q.local /\ p.send = q.send
      /\ p.upload = q.upload /\ p.deletes = q.deletes /\ p.acc = q.acc
      /\ p.todo = q.todo /\ p.marked = q.marked \ {c} /\ p.miss = q.miss
      /\ p.group = q.group /\ p.retire = q.retire
  BY <1>4 DEF PassType
<1>6. BatchOK(q) /\ HeldOK(q) /\ SiteOK(q) /\ ShowOK(q)
  BY <1>1 DEF ShowInv
<1>7. cmd' = cmd /\ gone' = gone
  BY <1>3 DEF PassOnly
<1>8. \A d \in Batched(q) \cup q.upload \cup q.acc \cup q.todo \cup q.marked :
          d \in Claims /\ d.s \in Sessions /\ d.i \in Snaps
  BY PassTyped
<1>9. \A s \in Sessions, i \in Snaps :
          \/ /\ rows'[s][i] = rows[s][i]
             /\ ~(CasHit(c) /\ s = c.s /\ i = c.i)
          \/ /\ CasHit(c) /\ s = c.s /\ i = c.i
             /\ rows[s][i] # NONE /\ rows'[s][i] # NONE
             /\ rows'[s][i].sync_rev = rows[s][i].sync_rev
             /\ rows'[s][i].decided = rows[s][i].decided
             /\ row_is_local_only(rows'[s][i]) <=> row_is_local_only(rows[s][i])
             /\ rows'[s][i].upload_reject = rows[s][i].upload_reject
             /\ rows'[s][i].synced = FALSE
  BY <1>2, <1>8, CasFlags
<1>10. SameData
  BY <1>9 DEF SameData
<1>11. \A d \in Claims : CasHit(d)' <=> CasHit(d)
  BY <1>7, <1>10, SameHits
<1>12. c.s = q.group
  BY <1>6 DEF BatchOK
<1>13. ASSUME NEW u \in q.upload, u.s = c.s, CasHit(u), ~InEdit(u.s, u.i)
       PROVE  FALSE
  <2>1. q.pc \in {"marklocal", "mark"}
    BY <1>3, <1>6, <1>13 DEF BatchOK
  <2>2. PICK d \in Batched(q) : d.s = c.s /\ ~CasHit(d)
    BY <1>3, <1>6, <1>12, <2>1 DEF HeldOK, MissOK
  <2>3. u \in Batched(q)
    BY <1>6 DEF BatchOK, Batched
  <2>4. d.i <= u.i /\ (d.i = u.i => d = u)
    BY <1>6, <1>13, <2>2 DEF BatchOK
  <2>5. ~(d.i < u.i)
    BY <1>6, <1>13, <2>2, <2>3 DEF HeldOK, RowsOK
  <2>6. d.i \in Snaps /\ u.i \in Snaps
    BY <1>8
  <2>7. d = u
    BY <2>4, <2>5, <2>6 DEF Snaps
  <2> QED BY <1>13, <2>2, <2>7
<1>14. Judged(q) \subseteq q.upload /\ q.acc \subseteq q.upload
  <2>1. Judged(pass) \subseteq pass.upload /\ pass.acc \subseteq pass.upload
    BY <1>1, <1>6, JudgedSent
  <2> QED BY <1>1, <2>1
<1>15. BatchOK(p)
  BY <1>5, <1>6 DEF BatchOK, Batched
<1>16. RowsOK(p) /\ LocalOK(p) /\ MissOK(p)
  BY <1>5, <1>6 DEF HeldOK, RowsOK, LocalOK, MissOK, Batched
<1>17. OlderOK(p)'
  <2>1. Judged(p) = Judged(q) /\ Pend(p) = Pend(q)
    BY <1>5 DEF Judged, Pend
  <2> SUFFICES ASSUME NEW u \in Judged(q), CasHit(u)', ~InEdit(u.s, u.i)',
                      NEW j \in Snaps, j < u.i, ~Past(u.s, j)'
               PROVE  \E d \in Pend(q) : d.s = u.s /\ d.i = j /\ CasHit(d)'
    BY <2>1 DEF OlderOK, Judged, Pend
  <2>2. u \in q.upload /\ u \in Claims /\ u.s \in Sessions
    BY <1>8, <1>14
  <2>3. CasHit(u) /\ ~InEdit(u.s, u.i)
    BY <1>7, <1>11, <2>2 DEF InEdit
  <2>4. u.s # c.s
    BY <1>13, <2>2, <2>3
  <2>5. rows'[u.s][j] = rows[u.s][j]
    BY <1>9, <2>2, <2>4
  <2>6. ~Past(u.s, j)
    BY <2>5 DEF Past
  <2>7. PICK d \in Pend(q) : d.s = u.s /\ d.i = j /\ CasHit(d)
    BY <1>3, <1>6, <2>3, <2>6 DEF HeldOK, OlderOK
  <2>8. d \in Batched(q)
    BY <1>1, <1>6, JudgedSent
  <2> QED BY <1>8, <1>11, <2>7, <2>8
<1>18. SiteOK(p)'
  BY <1>3, <1>5, <1>6, <1>7 DEF SiteOK
<1>19. ShowOK(p)'
  <2> SUFFICES ASSUME NEW s \in Sessions, NEW i \in Snaps, Rested(s, i)'
               PROVE  /\ site[s] = [snap |-> i, sync_rev |-> rows'[s][i].sync_rev]
                      /\ s \notin tombs /\ s \notin q.deletes
                      /\ \A j \in Snaps : j < i => Past(s, j)'
                      /\ \/ q.pc = "clear"
                         \/ \A d \in Batched(q) : d.s # s
                         \/ /\ q.pc = "mark"
                            /\ Claim(s, i, rows'[s][i].sync_rev) \in q.acc
    BY <1>3, <1>5 DEF ShowOK, Batched
  <2>1. Top(s, i) /\ ~InEdit(s, i)
    BY <1>7, <1>10, SameHits DEF Rested
  <2>2. rows'[s][i] = rows[s][i]
    BY <1>9 DEF Rested
  <2>3. Rested(s, i)
    BY <2>1, <2>2 DEF Rested
  <2>4. /\ site[s] = [snap |-> i, sync_rev |-> rows[s][i].sync_rev]
        /\ s \notin tombs /\ s \notin q.deletes
        /\ \A j \in Snaps : j < i => Past(s, j)
        /\ \/ q.pc = "clear"
           \/ \A d \in Batched(q) : d.s # s
           \/ /\ q.pc = "mark"
              /\ Claim(s, i, rows[s][i].sync_rev) \in q.acc
    BY <1>6, <2>3 DEF ShowOK
  <2>5. ASSUME NEW j \in Snaps, j < i
        PROVE  Past(s, j)'
    <3>1. Past(s, j)
      BY <2>4, <2>5
    <3>2. CASE ~(CasHit(c) /\ s = c.s /\ j = c.i)
      <4>1. rows'[s][j] = rows[s][j]
        BY <1>9, <3>2
      <4> QED BY <3>1, <4>1 DEF Past
    <3>3. CASE CasHit(c) /\ s = c.s /\ j = c.i
      <4>1. CASE q.pc = "marksettle"
        <5>1. ~rows[s][j].decided
          BY <1>6, <3>3, <4>1 DEF HeldOK, LocalOK
        <5>2. rows'[s][j].decided = rows[s][j].decided
          BY <1>9, <3>3
        <5> QED BY <5>1, <5>2 DEF Past
      <4>2. CASE q.pc \in {"marklocal", "mark"}
        <5>1. c \in Batched(q)
          BY <1>6, <4>2 DEF BatchOK, Batched
        <5>2. PICK u \in q.acc : u = Claim(s, i, rows[s][i].sync_rev)
          BY <2>4, <3>3, <4>2, <5>1
        <5>3. u \in q.upload /\ u.s = s /\ u.i = i
                 /\ u.sync_rev = rows[s][i].sync_rev
          BY <1>14, <5>2 DEF Claim
        <5>4. CasHit(u)
          BY <2>1, <5>3 DEF CasHit, Top
        <5> QED BY <1>13, <2>1, <3>3, <5>3, <5>4
      <4> QED BY <1>3, <4>1, <4>2
    <3> QED BY <3>2, <3>3
  <2> QED BY <2>2, <2>4, <2>5
<1> QED BY <1>2, <1>3, <1>4, <1>10, <1>15, <1>16, <1>17, <1>18, <1>19, PassTurn

\* What a pass reads: all the rows of a game that are queued.  If any is sent,
\* the newest of them is.
LEMMA ReadBatch ==
    ASSUME IInv, NEW s \in Sessions
    PROVE  /\ \A i \in Batch(s) : i \in Snaps /\ rows[s][i] # NONE
                 /\ rows[s][i].decided /\ ~Past(s, i)
           /\ \A i \in Snaps : ~Past(s, i) => i \in Batch(s)
           /\ \A i \in KeptLocal(s) :
                 \/ row_is_local_only(rows[s][i])
                 \/ \E k \in KeptLocal(s) : k > i
           /\ Retired(s) => KeptLocal(s) # {}
           /\ \A u \in Batch(s) \ KeptLocal(s) :
                 u = Max(Batch(s) \ KeptLocal(s)) => \A k \in Batch(s) : k <= u
<1>1. \A i \in Batch(s) : /\ i \in Snaps /\ rows[s][i] # NONE
                          /\ rows[s][i].decided /\ ~Past(s, i)
  BY DEF Batch, Present, Queued, Past
<1>2. \A i \in Snaps : ~Past(s, i) => i \in Batch(s)
  BY DEF Batch, Present, Queued, Past
<1>3. PICK B : B = Batch(s)
  OBVIOUS
<1>4. PICK m : m = Max(B)
  OBVIOUS
<1>5. B # {} => m \in B /\ \A k \in B : k <= m
  <2>1. B \subseteq Snaps
    BY <1>1, <1>3
  <2> QED BY <1>4, <2>1, SnapsBounds
<1>6. Retired(s) <=> B # {} /\ row_is_local_only(rows[s][m])
  BY <1>3, <1>4 DEF Retired, Newest
<1>7. \A i : i \in KeptLocal(s) <=>
          i \in B /\ (Retired(s) \/ row_is_local_only(rows[s][i]))
  BY <1>3 DEF KeptLocal
<1>8. ASSUME NEW i \in KeptLocal(s), ~row_is_local_only(rows[s][i])
      PROVE  \E k \in KeptLocal(s) : k > i
  <2>1. i \in B /\ Retired(s)
    BY <1>7, <1>8
  <2>2. m \in B /\ i <= m /\ row_is_local_only(rows[s][m])
    BY <1>5, <1>6, <2>1
  <2>3. m # i /\ m \in Snaps /\ i \in Snaps
    BY <1>1, <1>3, <1>8, <2>1, <2>2
  <2>4. m > i
    BY <2>2, <2>3 DEF Snaps
  <2> QED BY <1>7, <2>1, <2>2, <2>4
<1>9. Retired(s) => KeptLocal(s) # {}
  BY <1>5, <1>6, <1>7
<1>10. ASSUME NEW u \in Batch(s) \ KeptLocal(s),
              u = Max(Batch(s) \ KeptLocal(s))
       PROVE  \A k \in Batch(s) : k <= u
  <2>1. u \in B /\ ~Retired(s)
    BY <1>3, <1>7, <1>10
  <2>2. m \in B /\ m \notin KeptLocal(s)
    BY <1>5, <1>6, <1>7, <2>1
  <2>3. PICK S : S = Batch(s) \ KeptLocal(s)
    OBVIOUS
  <2>4. S \subseteq Snaps /\ m \in S /\ u = Max(S)
    BY <1>1, <1>3, <1>10, <2>2, <2>3
  <2>5. m <= u
    BY <2>4, SnapsBounds
  <2>6. ASSUME NEW k \in B
        PROVE  k <= u
    <3>1. k <= m /\ k \in Snaps /\ m \in Snaps /\ u \in Snaps
      BY <1>1, <1>3, <1>5, <2>1, <2>4
    <3> QED BY <2>5, <3>1 DEF Snaps
  <2> QED BY <1>3, <2>6
<1> QED BY <1>1, <1>2, <1>8, <1>9, <1>10

\* The pass reads the table.
LEMMA ReadShows ==
    ASSUME IInv, IInv', ShowInv, GetUnsynced
    PROVE  ShowInv'
<1>1. PICK q \in PassType : q = pass
  BY DEF IInv, TypeOK
<1>2. PICK L : L = UNION {{Claim(s, i, rows[s][i].sync_rev) :
                              i \in KeptLocal(s)} : s \in Sessions}
  OBVIOUS
<1>3. PICK S : S = UNION {{Claim(s, i, rows[s][i].sync_rev) :
                              i \in Batch(s) \ KeptLocal(s)} : s \in Sessions}
  OBVIOUS
<1>4. PICK U : U = UNION {{Claim(s, i, rows[s][i].sync_rev) :
                              i \in {j \in Batch(s) \ KeptLocal(s) :
                                     /\ j = Newest(Batch(s) \ KeptLocal(s))
                                     /\ ~row_needs_review(rows[s][j])}} :
                           s \in Sessions}
  OBVIOUS
<1>5. PICK R : R = {s \in Sessions : Retired(s)}
  OBVIOUS
<1>6. PICK p : p = [q EXCEPT !.pc = "split", !.local = L, !.retire = R,
                             !.send = S, !.upload = U]
  OBVIOUS
<1>7. pass' = p
  BY <1>1, <1>2, <1>3, <1>4, <1>5, <1>6 DEF GetUnsynced, ClaimsOf
<1>8. /\ PassOnly /\ rows' = rows /\ tombs' = tombs /\ site' = site
      /\ q.pc = "read"
  BY <1>1 DEF GetUnsynced, store
<1>9. /\ p.pc = "split" /\ p.local = L /\ p.retire = R /\ p.send = S
      /\ p.upload = U /\ p.deletes = q.deletes /\ p.marked = q.marked
      /\ p.group = q.group
  BY <1>6 DEF PassType
<1>10. BatchOK(q) /\ ShowOK(q)
  BY <1>1 DEF ShowInv
<1>11. \A c : c \in L <=> \E s \in Sessions : \E i \in KeptLocal(s) :
                             c = Claim(s, i, rows[s][i].sync_rev)
  <2>1. \A c : c \in L <=> \E s \in Sessions :
            c \in {Claim(s, i, rows[s][i].sync_rev) : i \in KeptLocal(s)}
    BY <1>2, Zenon
  <2>2. \A s, c : c \in {Claim(s, i, rows[s][i].sync_rev) : i \in KeptLocal(s)}
                   <=> \E i \in KeptLocal(s) : c = Claim(s, i, rows[s][i].sync_rev)
    BY Zenon
  <2>3. ASSUME NEW c \in L
        PROVE  \E s \in Sessions : \E i \in KeptLocal(s) :
                  c = Claim(s, i, rows[s][i].sync_rev)
    <3>1. PICK s \in Sessions :
              c \in {Claim(s, i, rows[s][i].sync_rev) : i \in KeptLocal(s)}
      BY <2>1, <2>3, Zenon
    <3> QED BY <2>2, <3>1, Zenon
  <2>4. ASSUME NEW s \in Sessions, NEW i \in KeptLocal(s),
               NEW c, c = Claim(s, i, rows[s][i].sync_rev)
        PROVE  c \in L
    <3>1. c \in {Claim(s, k, rows[s][k].sync_rev) : k \in KeptLocal(s)}
      BY <2>4, Zenon
    <3> QED BY <2>1, <3>1, Zenon
  <2> QED BY <2>3, <2>4, Zenon
<1>12. \A c : c \in S <=> \E s \in Sessions : \E i \in Batch(s) \ KeptLocal(s) :
                             c = Claim(s, i, rows[s][i].sync_rev)
  <2>1. \A c : c \in S <=> \E s \in Sessions :
            c \in {Claim(s, i, rows[s][i].sync_rev) : i \in Batch(s) \ KeptLocal(s)}
    BY <1>3, Zenon
  <2>2. \A s, c : c \in {Claim(s, i, rows[s][i].sync_rev) : i \in Batch(s) \ KeptLocal(s)}
                   <=> \E i \in Batch(s) \ KeptLocal(s) : c = Claim(s, i, rows[s][i].sync_rev)
    BY Zenon
  <2>3. ASSUME NEW c \in S
        PROVE  \E s \in Sessions : \E i \in Batch(s) \ KeptLocal(s) :
                  c = Claim(s, i, rows[s][i].sync_rev)
    <3>1. PICK s \in Sessions :
              c \in {Claim(s, i, rows[s][i].sync_rev) : i \in Batch(s) \ KeptLocal(s)}
      BY <2>1, <2>3, Zenon
    <3> QED BY <2>2, <3>1, Zenon
  <2>4. ASSUME NEW s \in Sessions, NEW i \in Batch(s) \ KeptLocal(s),
               NEW c, c = Claim(s, i, rows[s][i].sync_rev)
        PROVE  c \in S
    <3>1. c \in {Claim(s, k, rows[s][k].sync_rev) : k \in Batch(s) \ KeptLocal(s)}
      BY <2>4, Zenon
    <3> QED BY <2>1, <3>1, Zenon
  <2> QED BY <2>3, <2>4, Zenon
<1>13. ASSUME NEW c \in U
       PROVE  \E s \in Sessions : \E i \in Batch(s) \ KeptLocal(s) :
                 /\ c = Claim(s, i, rows[s][i].sync_rev)
                 /\ i = Max(Batch(s) \ KeptLocal(s))
  <2>1. PICK s \in Sessions :
            c \in {Claim(s, i, rows[s][i].sync_rev) :
                      i \in {j \in Batch(s) \ KeptLocal(s) :
                                /\ j = Newest(Batch(s) \ KeptLocal(s))
                                /\ ~row_needs_review(rows[s][j])}}
    BY <1>4, Zenon
  <2>2. PICK i \in Batch(s) \ KeptLocal(s) :
            /\ c = Claim(s, i, rows[s][i].sync_rev)
            /\ i = Newest(Batch(s) \ KeptLocal(s))
    BY <2>1, Zenon
  <2> QED BY <2>2 DEF Newest
<1>14. \A s \in Sessions : KeptLocal(s) \subseteq Batch(s)
  BY DEF KeptLocal
<1>15. Batched(p) = L \cup S
  BY <1>9 DEF Batched
<1>16. \A s \in Sessions, i \in Snaps : rows[s][i] # NONE =>
           LET c == Claim(s, i, rows[s][i].sync_rev)
           IN  c.s = s /\ c.i = i /\ CasHit(c)
  BY DEF Claim, CasHit
<1>17. ASSUME NEW s \in Sessions, NEW i \in Batch(s)
       PROVE  Claim(s, i, rows[s][i].sync_rev) \in Batched(p)
  BY <1>11, <1>12, <1>15, <1>17
<1>18. ASSUME NEW c \in Batched(p)
       PROVE  \E s \in Sessions : \E i \in Batch(s) :
                 c = Claim(s, i, rows[s][i].sync_rev)
  BY <1>11, <1>12, <1>14, <1>15, <1>18
<1>19. ASSUME NEW c \in Batched(p)
       PROVE  /\ c.s \in Sessions /\ c.i \in Batch(c.s) /\ CasHit(c)
              /\ c = Claim(c.s, c.i, rows[c.s][c.i].sync_rev)
              /\ rows[c.s][c.i] # NONE /\ rows[c.s][c.i].decided
              /\ ~Past(c.s, c.i) /\ c.i \in Snaps
  <2>1. PICK s \in Sessions : \E i \in Batch(s) :
            c = Claim(s, i, rows[s][i].sync_rev)
    BY <1>18, <1>19
  <2>2. PICK i \in Batch(s) : c = Claim(s, i, rows[s][i].sync_rev)
    BY <2>1
  <2>3. i \in Snaps /\ rows[s][i] # NONE /\ rows[s][i].decided /\ ~Past(s, i)
    BY ReadBatch
  <2>4. c.s = s /\ c.i = i /\ CasHit(c)
    BY <1>16, <2>2, <2>3
  <2> QED BY <2>2, <2>3, <2>4
<1>20. ASSUME NEW c \in L
       PROVE  c.i \in KeptLocal(c.s)
  <2>1. PICK s \in Sessions : \E i \in KeptLocal(s) :
            c = Claim(s, i, rows[s][i].sync_rev)
    BY <1>11, <1>20
  <2>2. PICK i \in KeptLocal(s) : c = Claim(s, i, rows[s][i].sync_rev)
    BY <2>1
  <2> QED BY <2>2 DEF Claim
<1>21. ASSUME NEW u \in U
       PROVE  u \in S /\ \A k \in Batch(u.s) : k <= u.i
  <2>1. PICK s \in Sessions : \E i \in Batch(s) \ KeptLocal(s) :
            /\ u = Claim(s, i, rows[s][i].sync_rev)
            /\ i = Max(Batch(s) \ KeptLocal(s))
    BY <1>13, <1>21
  <2>2. PICK i \in Batch(s) \ KeptLocal(s) :
            /\ u = Claim(s, i, rows[s][i].sync_rev)
            /\ i = Max(Batch(s) \ KeptLocal(s))
    BY <2>1
  <2>3. \A k \in Batch(s) : k <= i
    BY <2>2, ReadBatch
  <2>4. u.s = s /\ u.i = i
    BY <2>2 DEF Claim
  <2> QED BY <1>12, <2>2, <2>3, <2>4
<1>22. BatchOK(p)
  <2>1. U \subseteq S
    BY <1>21
  <2>2. ASSUME NEW u \in U, NEW d \in Batched(p), d.s = u.s
        PROVE  d.i <= u.i /\ (d.i = u.i => d = u)
    <3>1. d.i <= u.i
      BY <1>19, <1>21, <2>2
    <3>2. u \in Batched(p)
      BY <1>15, <2>1
    <3>3. /\ d = Claim(d.s, d.i, rows[d.s][d.i].sync_rev)
          /\ u = Claim(u.s, u.i, rows[u.s][u.i].sync_rev)
      BY <1>19, <3>2
    <3> QED BY <2>2, <3>1, <3>3
  <2>3. ASSUME NEW s \in R
        PROVE  \E c \in L : c.s = s
    <3>1. s \in Sessions /\ KeptLocal(s) # {}
      BY <1>5, ReadBatch
    <3>2. PICK i \in KeptLocal(s) : TRUE
      BY <3>1
    <3>3. Claim(s, i, rows[s][i].sync_rev) \in L
      BY <1>11, <3>1, <3>2
    <3> QED BY <3>3 DEF Claim
  <2>4. \A c \in p.marked : c.s = p.group
    BY <1>9, <1>10 DEF BatchOK
  <2> QED BY <1>9, <2>1, <2>2, <2>3, <2>4 DEF BatchOK
<1>23. RowsOK(p)
  BY <1>19 DEF RowsOK
<1>24. LocalOK(p)
  <2> SUFFICES ASSUME NEW c \in L, ~row_is_local_only(rows[c.s][c.i])
               PROVE  \E d \in Batched(p) : d.s = c.s /\ d.i > c.i
    BY <1>9 DEF LocalOK
  <2>1. c.i \in KeptLocal(c.s) /\ c.s \in Sessions
    BY <1>15, <1>19, <1>20
  <2>2. PICK k \in KeptLocal(c.s) : k > c.i
    BY <2>1, ReadBatch
  <2>3. PICK d : d = Claim(c.s, k, rows[c.s][k].sync_rev)
    OBVIOUS
  <2>4. d \in L /\ d.s = c.s /\ d.i = k
    BY <1>11, <2>1, <2>3 DEF Claim
  <2> QED BY <1>15, <2>2, <2>4
<1>25. MissOK(p)
  BY <1>9 DEF MissOK
<1>26. OlderOK(p)
  <2> SUFFICES ASSUME NEW u \in U, NEW j \in Snaps, ~Past(u.s, j)
               PROVE  \E d \in Batched(p) : d.s = u.s /\ d.i = j /\ CasHit(d)
    BY <1>9 DEF OlderOK, Judged, Pend, Batched
  <2>1. u.s \in Sessions
    BY <1>15, <1>19, <1>21
  <2>2. j \in Batch(u.s)
    BY <2>1, ReadBatch
  <2>3. Claim(u.s, j, rows[u.s][j].sync_rev) \in Batched(p)
    BY <1>17, <2>1, <2>2
  <2>4. rows[u.s][j] # NONE
    BY <2>1, <2>2, ReadBatch
  <2> QED BY <1>16, <2>1, <2>3, <2>4
<1>27. SiteOK(p)
  BY <1>9 DEF SiteOK
<1>28. ShowOK(p)
  <2> SUFFICES ASSUME NEW s \in Sessions, NEW i \in Snaps, Rested(s, i)
               PROVE  /\ site[s] = [snap |-> i, sync_rev |-> rows[s][i].sync_rev]
                      /\ s \notin tombs /\ s \notin q.deletes
                      /\ \A j \in Snaps : j < i => Past(s, j)
                      /\ \A d \in Batched(p) : d.s # s
    BY <1>9 DEF ShowOK
  <2>1. /\ site[s] = [snap |-> i, sync_rev |-> rows[s][i].sync_rev]
        /\ s \notin tombs /\ s \notin q.deletes
        /\ \A j \in Snaps : j < i => Past(s, j)
    BY <1>10 DEF ShowOK
  <2>2. ASSUME NEW d \in Batched(p), d.s = s
        PROVE  FALSE
    <3>1. /\ d.i \in Snaps /\ rows[s][d.i] # NONE /\ rows[s][d.i].decided
          /\ ~Past(s, d.i)
      BY <1>19, <2>2
    <3>2. ~(d.i < i)
      BY <2>1, <3>1
    <3>3. ~(d.i > i)
      BY <3>1 DEF Rested, Top
    <3>4. d.i # i
      BY <3>1 DEF Rested, Past
    <3> QED BY <3>1, <3>2, <3>3, <3>4 DEF Snaps
  <2> QED BY <2>1, <2>2
<1>29. HeldOK(p)
  BY <1>23, <1>24, <1>25, <1>26 DEF HeldOK
<1> QED BY <1>7, <1>8, <1>22, <1>27, <1>28, <1>29, QuietTurn

-----------------------------------------------------------------------------
(* The site shows the newest. *)

\* At the start nothing is shown.
LEMMA InitShows == Init => ShowInv
<1> SUFFICES ASSUME Init PROVE ShowInv
  OBVIOUS
<1>1. PICK p : p = PassIdle
  OBVIOUS
<1>2. /\ p.pc = "idle" /\ p.local = {} /\ p.send = {} /\ p.upload = {}
      /\ p.deletes = {} /\ p.todo = {} /\ p.marked = {} /\ p.acc = {}
  BY <1>1 DEF PassIdle
<1>3. BatchOK(p)
  BY <1>2 DEF BatchOK, Batched
<1>4. HeldOK(p)
  BY <1>2 DEF HeldOK, RowsOK, LocalOK, MissOK, OlderOK, Judged, Batched
<1>5. SiteOK(p)
  BY <1>2 DEF SiteOK
<1>6. \A s \in Sessions, i \in Snaps : rows[s][i] = NONE
  BY DEF Init
<1>7. ShowOK(p)
  BY <1>6 DEF ShowOK, Rested, Top
<1>8. EditInv /\ OrderInv
  BY DEF Init, CmdIdle, CaptureIdle, EditInv, OrderInv, Creating
<1>9. pass = p
  BY <1>1 DEF Init
<1> QED BY <1>3, <1>4, <1>5, <1>7, <1>8, <1>9 DEF ShowInv

\* Every step keeps the site's copy of the games at rest.
LEMMA NextShows ==
    ASSUME ~Overlap, "held" \notin Ops, "auto_map" \notin Ops, "retry" \notin Ops
    PROVE  IInv /\ IInv' /\ ApartInv /\ ShowInv /\ [Next]_vars => ShowInv'
<1> SUFFICES ASSUME IInv, IInv', ApartInv, ShowInv, [Next]_vars PROVE ShowInv'
  OBVIOUS
<1>1. CASE CaptureNext
  BY <1>1, CaptureShows
<1>2. CASE MainLoopNext
  BY <1>2, MainLoopShows
<1>3. CASE PassNext
  <2>1. CASE PassStart \/ \E s \in Sessions : SettleStart(s)
    BY <2>1, StartShows
  <2>2. CASE PassStep
    <3>1. CASE MarkCas
      BY <3>1, MarkShows DEF ApartInv
    <3>2. CASE MarkUndo
      BY <3>2, UndoShows
    <3>3. CASE GroupDone \/ MarkDone
      BY <3>3, GroupShows
    <3>4. CASE GetUnsynced
      BY <3>4, ReadShows
    <3>5. CASE RetireCheck \/ queue_tombstones
      BY <3>5, RetireShows
    <3>6. CASE get_pending_tombstones \/ split_superseded_tombstones
      BY <3>6, TombsShow
    <3>7. CASE quarantine_upload
      BY <3>7, QuarantineShows
    <3>8. CASE clear_acknowledged_tombstones
      BY <3>8, ClearShows
    <3> QED BY <2>2, <3>1, <3>2, <3>3, <3>4, <3>5, <3>6, <3>7, <3>8
            DEF PassStep
  <2>3. CASE UploadAccepted \/ UploadFault
    BY <2>3, UploadShows
  <2> QED BY <1>3, <2>1, <2>2, <2>3 DEF PassNext
<1>4. CASE Crash
  BY <1>4, CrashShows
<1>5. CASE UNCHANGED vars
  <2>1. /\ rows' = rows /\ tombs' = tombs /\ site' = site /\ pass' = pass
        /\ PassOnly
    BY <1>5 DEF vars, PassOnly
  <2>2. PICK p : p = pass
    OBVIOUS
  <2> QED BY <2>1, <2>2, QuietTurn DEF ShowInv
<1> QED BY <1>1, <1>2, <1>3, <1>4, <1>5 DEF Next

\* What is at rest is what the property speaks of.
LEMMA ShowsNewest ==
    ASSUME IInv, ShowInv
    PROVE  NewestOnSite
<1> SUFFICES ASSUME Quiet, NEW s \in Sessions, NEW i, i = Max(DecidedRows(s)),
                    DecidedRows(s) # {}, ~row_is_local_only(rows[s][i]),
                    rows[s][i].synced
             PROVE  site[s] = [snap |-> i, sync_rev |-> rows[s][i].sync_rev]
  BY DEF NewestOnSite
<1>1. PICK D : D = DecidedRows(s)
  OBVIOUS
<1>2. D \subseteq Snaps /\ D # {} /\ i = Max(D)
  BY <1>1 DEF DecidedRows, Present
<1>3. i \in D /\ \A j \in D : j <= i
  BY <1>2, SnapsBounds
<1>4. i \in Snaps /\ rows[s][i] # NONE /\ rows[s][i].decided
  BY <1>1, <1>3 DEF DecidedRows, Present
<1>5. ASSUME NEW j \in Snaps, j > i
      PROVE  rows[s][j] = NONE \/ ~rows[s][j].decided
  <2>1. j \notin D
    BY <1>3, <1>4, <1>5 DEF Snaps
  <2> QED BY <1>1, <2>1 DEF DecidedRows, Present
<1>6. ~InEdit(s, i)
  BY DEF Quiet, InEdit
<1>7. Rested(s, i)
  BY <1>4, <1>5, <1>6 DEF Rested, Top
<1> QED BY <1>4, <1>7 DEF ShowInv, ShowOK

\* When nothing is left to send, the site shows the final snapshot of each
\* uploaded game with its last edit, where no older board comes late, no map
\* is back-filled, no retry puts a quarantined row back on the queue, and no
\* command overlaps an insert.
THEOREM NewestShown ==
    ASSUME ~Overlap, "held" \notin Ops, "auto_map" \notin Ops, "retry" \notin Ops
    PROVE  Spec => []NewestOnSite
<1>1. Init => IInv /\ ApartInv /\ ShowInv
  <2>1. Init => ApartInv
    BY DEF Init, ApartInv, GoneInv, TombInv, DeletedIsTombstoned, CaptureIdle,
       CmdIdle, PassIdle, Collecting, Answered
  <2> QED BY <2>1, InitInv, InitShows
<1>2. IInv /\ ApartInv /\ ShowInv /\ [Next]_vars
        => IInv' /\ ApartInv' /\ ShowInv'
  BY NextInv, NextApart, NextShows
<1>3. IInv /\ ShowInv => NewestOnSite
  BY ShowsNewest
<1> QED BY <1>1, <1>2, <1>3, PTL DEF Spec

=============================================================================
