------------------------------ MODULE StatSync ------------------------------
(***************************************************************************)
(* The tracker's local store and its upload pass.                          *)
(*                                                                         *)
(* Three tasks of the daemon share the store: the capture task inserts     *)
(* snapshots, the main loop applies member commands and back-fills, and    *)
(* the sync task runs one upload pass at a time.  Every store statement    *)
(* is an action, so the tasks interleave between any two of them.          *)
(*                                                                         *)
(* A game is a session; its snapshots are numbered in played_at order.     *)
(* Every statement that changes what a snapshot would upload bumps its     *)
(* sync_rev, so <<snapshot, sync_rev>> names the uploaded payload and the  *)
(* site's one row per session is such a pair.  Maps are told apart by what *)
(* the upload does with them: "ranked" is sent, "local" (Deathmatch and    *)
(* the other untracked modes) is not, "blank" waits for a review.          *)
(***************************************************************************)
EXTENDS Integers, FiniteSets, FiniteSetsExt

CONSTANTS
    Sessions,      \* session ids
    MaxSnaps,      \* bound: snapshots of a session
    MaxTaken,      \* bound: snapshots of all sessions
    MaxEdits,      \* bound: writes that re-queue rows
    MaxFaults,     \* bound: crashes, lost answers, refusals, failed deletes
    Ops,           \* which operations the environment performs
    CapturedMaps,  \* what captures read as the map
    Overlap,       \* FALSE: a member command that takes several statements
                   \*   waits for an insert and for a pass that collects
    NONE

AllOps == {"held", "retract", "edit", "edit_map", "auto_map", "delete",
           "retry", "settle", "crash"}

ASSUME StatSyncAssumption ==
    /\ MaxSnaps \in Nat \ {0}
    /\ MaxTaken \in Nat \ {0}
    /\ MaxEdits \in Nat
    /\ MaxFaults \in Nat
    /\ Ops \subseteq AllOps
    /\ CapturedMaps \subseteq {"ranked", "local", "blank"}
    /\ Overlap \in BOOLEAN
    /\ NONE \notin Sessions \cup {"ranked", "local", "blank"}

VARIABLES
    rows,        \* table personal_match
    final,       \* match_session.final_outcome is decided
    tombs,       \* table deleted_session
    deletedHere, \* LocalStore::deleted_here, lost when the process stops
    capture,     \* the capture task's insert_match
    cmd,         \* the main loop's multi-statement command
    pass,        \* the sync task
    site,        \* the site's row of each session
    taken,       \* history: snapshots ever inserted, as <<session, number>>
    gone,        \* history: sessions the member deleted
    sent,        \* history: payloads the site accepted
    edits,       \* re-queueing writes so far
    faults       \* faults so far

vars == <<rows, final, tombs, deletedHere, capture, cmd, pass, site, taken,
          gone, sent, edits, faults>>

store == <<rows, final, tombs>>
history == <<taken, gone, sent>>
bounds == <<edits, faults>>

-----------------------------------------------------------------------------
(* Rows. *)

Snaps == 1 .. MaxSnaps
Maps == {"ranked", "local", "blank"}

PersonalMatch == [sync_rev: Nat, synced: BOOLEAN, upload_reject: BOOLEAN,
                  decided: BOOLEAN, map_name: Maps, game_mode: Maps,
                  corrected_map_name: Maps \cup {NONE}]

ASSUME NoneAssumption == NONE \notin PersonalMatch

Present(s) == {i \in Snaps : rows[s][i] # NONE}

\* Variant: the first snapshot of a session is taken for its final one.
Oldest(S) == Min(S)

Newest(S) == Max(S)

display_map_name(r) ==
    IF r.corrected_map_name = NONE THEN r.map_name ELSE r.corrected_map_name

\* Neither the map nor the mode is in UNTRACKED_MODES.
stats_row_is_tracked(map, mode) == map # "local" /\ mode # "local"

\* A known map gives the sent mode, so only the stored mode can disagree.
row_is_local_only(r) == ~stats_row_is_tracked(display_map_name(r), r.game_mode)

row_needs_review(r) == display_map_name(r) = "blank"

session_may_be_on_site(s) ==
    \E i \in Present(s) :
        \/ ~row_is_local_only(rows[s][i])
        \/ stats_row_is_tracked(rows[s][i].map_name, rows[s][i].game_mode)

Queued(r) == ~r.synced /\ r.decided /\ ~r.upload_reject

\* What every re-queueing statement does to the row besides its own columns.
Requeue(r) ==
    [r EXCEPT !.synced = FALSE, !.upload_reject = FALSE,
              !.sync_rev = r.sync_rev + 1]

\* "UPDATE personal_match ... WHERE session_id = s", one statement.
UpdateRows(s, Op(_)) ==
    [rows EXCEPT ![s] = [i \in Snaps |->
        IF rows[s][i] = NONE THEN NONE ELSE Op(rows[s][i])]]

Claim(s, i, rev) == [s |-> s, i |-> i, sync_rev |-> rev]
Claims == [s: Sessions, i: Snaps, sync_rev: Nat]

-----------------------------------------------------------------------------
CaptureIdle == [pc |-> "idle", s |-> NONE, i |-> 0, decided |-> FALSE,
                map |-> NONE]
CmdIdle == [pc |-> "idle", s |-> NONE, todo |-> {}, map |-> NONE,
            newly |-> FALSE]
PassIdle == [pc |-> "idle", local |-> {}, retire |-> {},
             send |-> {}, upload |-> {}, deletes |-> {}, acc |-> {},
             rej |-> {}, todo |-> {}, group |-> NONE, marked |-> {},
             miss |-> FALSE]

Init ==
    /\ rows = [s \in Sessions |-> [i \in Snaps |-> NONE]]
    /\ final = [s \in Sessions |-> FALSE]
    /\ tombs = {}
    /\ deletedHere = {}
    /\ capture = CaptureIdle
    /\ cmd = CmdIdle
    /\ pass = PassIdle
    /\ site = [s \in Sessions |-> NONE]
    /\ taken = {}
    /\ gone = {}
    /\ sent = {}
    /\ edits = 0
    /\ faults = 0

-----------------------------------------------------------------------------
(* The capture task: insert_match. *)

\* Reads deleted_here and the session's outcome.  A held board ("held") is
\* stored with its own, earlier played_at, after a newer snapshot.
InsertCheck(s, i, map) ==
    /\ capture.pc = "idle"
    /\ Overlap \/ cmd.pc = "idle"
    /\ s \notin gone /\ s \notin deletedHere
    /\ <<s, i>> \notin taken
    /\ Cardinality(taken) < MaxTaken
    /\ \/ \A j \in Snaps : <<s, j>> \in taken => j < i
       \/ "held" \in Ops
    /\ capture' = [pc |-> "create", s |-> s, i |-> i, decided |-> final[s],
                   map |-> map]
    /\ taken' = taken \cup {<<s, i>>}
    /\ UNCHANGED <<store, deletedHere, cmd, pass, site, gone, sent, bounds>>

InsertCreate ==
    LET c == capture IN
    /\ c.pc = "create"
    /\ rows' = [rows EXCEPT ![c.s][c.i] =
            [sync_rev |-> 0, synced |-> FALSE, upload_reject |-> FALSE,
             decided |-> c.decided, map_name |-> c.map, game_mode |-> c.map,
             corrected_map_name |-> NONE]]
    /\ capture' = [c EXCEPT !.pc = "recheck"]
    /\ UNCHANGED <<final, tombs, deletedHere, cmd, pass, site, history, bounds>>

\* Variant: no second look at deleted_here after the CREATE.
KeepInserted ==
    /\ capture.pc = "recheck"
    /\ capture' = CaptureIdle
    /\ UNCHANGED <<store, deletedHere, cmd, pass, site, history, bounds>>

drop_if_deleted_meanwhile ==
    LET c == capture IN
    /\ c.pc = "recheck"
    /\ rows' = IF c.s \in deletedHere
               THEN [rows EXCEPT ![c.s][c.i] = NONE] ELSE rows
    /\ capture' = CaptureIdle
    /\ UNCHANGED <<final, tombs, deletedHere, cmd, pass, site, history, bounds>>

-----------------------------------------------------------------------------
(* The main loop: back-fills and member commands, one at a time. *)

Backfill(s) ==
    /\ cmd.pc = "idle"
    /\ s \notin gone
    /\ edits < MaxEdits
    /\ edits' = edits + 1
    /\ UNCHANGED <<tombs, deletedHere, capture, cmd, pass, site, history, faults>>

set_session_outcome(s, decided) ==
    LET Decide(r) == [Requeue(r) EXCEPT !.decided = decided] IN
    /\ Backfill(s)
    /\ Present(s) # {}
    /\ decided \/ "retract" \in Ops
    /\ final' = [final EXCEPT ![s] = decided]
    /\ rows' = UpdateRows(s, Decide)

\* Only the rows that disagree are written and re-queued.
set_session_map(s, map) ==
    LET Rename(r) ==
            IF r.map_name = map /\ r.game_mode = map THEN r
            ELSE [Requeue(r) EXCEPT !.map_name = map, !.game_mode = map]
    IN
    /\ "auto_map" \in Ops
    /\ Backfill(s)
    /\ Present(s) # {}
    /\ map # "blank"
    /\ rows' = UpdateRows(s, Rename)
    /\ UNCHANGED final

\* Puts a quarantined session back on the queue.  sync_rev stays.
clear_upload_reject(s) ==
    LET Clear(r) == [r EXCEPT !.upload_reject = FALSE] IN
    /\ "retry" \in Ops
    /\ cmd.pc = "idle"
    /\ \E i \in Present(s) : rows[s][i].upload_reject
    /\ rows' = UpdateRows(s, Clear)
    /\ UNCHANGED <<final, tombs, deletedHere, capture, cmd, pass, site,
                   history, bounds>>

\* edit_match reads the snapshots and then writes them one by one.  The
\* command file stays until the last write, so a restart applies it again.
EditStart(s, map) ==
    /\ \/ map = NONE /\ "edit" \in Ops
       \/ map # NONE /\ "edit_map" \in Ops
    /\ cmd.pc = "idle"
    /\ Overlap \/ capture.pc = "idle"
    /\ s \notin gone
    /\ Present(s) # {}
    /\ edits < MaxEdits
    /\ edits' = edits + 1
    /\ cmd' = [cmd EXCEPT !.pc = "edit", !.s = s, !.map = map,
                          !.todo = Present(s)]
    /\ UNCHANGED <<store, deletedHere, capture, pass, site, history, faults>>

\* Variant: an edit without a map clears the mode.
EditClearsMode(r, map) ==
    [Requeue(r) EXCEPT !.corrected_map_name = map, !.game_mode = map]

apply_match_edit(r, map) ==
    IF map = NONE THEN Requeue(r)
    ELSE [Requeue(r) EXCEPT !.corrected_map_name = map, !.game_mode = map]

EditRow ==
    LET i == Min(cmd.todo) IN
    /\ cmd.pc = "edit" /\ cmd.todo # {}
    /\ rows' = [rows EXCEPT ![cmd.s][i] =
                    IF @ = NONE THEN NONE ELSE apply_match_edit(@, cmd.map)]
    /\ cmd' = IF cmd.todo = {i} THEN CmdIdle
              ELSE [cmd EXCEPT !.todo = @ \ {i}]
    /\ UNCHANGED <<final, tombs, deletedHere, capture, pass, site, history,
                   bounds>>

\* From reading the unsynced rows until out-of-date tombstones are dropped.
Collecting == pass.pc \in {"split", "queue", "marklocal", "tombs", "supersede"}

\* The delete is marked in memory before its transaction runs.
DeleteMark(s) ==
    /\ "delete" \in Ops
    /\ cmd.pc = "idle"
    /\ Overlap \/ capture.pc = "idle"
    /\ Present(s) # {}
    /\ deletedHere' = deletedHere \cup {s}
    /\ cmd' = [cmd EXCEPT !.pc = "delete", !.s = s,
                          !.newly = s \notin deletedHere]
    /\ UNCHANGED <<store, capture, pass, site, history, bounds>>

DeleteCommit ==
    LET s == cmd.s IN
    /\ cmd.pc = "delete"
    /\ Overlap \/ ~Collecting
    /\ rows' = [rows EXCEPT ![s] = [i \in Snaps |-> NONE]]
    /\ final' = [final EXCEPT ![s] = FALSE]
    /\ tombs' = tombs \cup {s}
    /\ gone' = gone \cup {s}
    /\ cmd' = CmdIdle
    /\ UNCHANGED <<deletedHere, capture, pass, site, taken, sent, bounds>>

DeleteFailed ==
    /\ cmd.pc = "delete"
    /\ faults < MaxFaults
    /\ faults' = faults + 1
    /\ deletedHere' = IF cmd.newly THEN deletedHere \ {cmd.s} ELSE deletedHere
    /\ cmd' = CmdIdle
    /\ UNCHANGED <<store, capture, pass, site, history, edits>>

-----------------------------------------------------------------------------
(* The sync task: try_sync_with_caps and upload_chunked, for a batch that   *)
(* fits one chunk.                                                          *)

PassOnly == UNCHANGED <<deletedHere, capture, cmd, taken, gone, edits>>

has_pending ==
    \/ tombs # {}
    \/ \E s \in Sessions : \E i \in Present(s) : Queued(rows[s][i])

PassStart ==
    /\ pass.pc = "idle"
    /\ has_pending
    /\ pass' = [PassIdle EXCEPT !.pc = "read"]
    /\ UNCHANGED <<store, site, sent, faults>>
    /\ PassOnly

\* mark_synced is run for `todo', then the pass goes on at `pc'.
MarkThen(pc, claims) ==
    [pass EXCEPT !.pc = pc, !.todo = claims, !.group = NONE, !.marked = {},
                 !.miss = FALSE]

\* A pass for a session that closed without a result: its unknown rows are
\* claimed, to be marked synced and never sent.
SettleStart(s) ==
    LET unknown == {i \in Present(s) :
                        ~rows[s][i].synced /\ ~rows[s][i].decided}
    IN
    /\ "settle" \in Ops
    /\ pass.pc = "idle"
    /\ unknown # {}
    /\ pass' = MarkThen("marksettle",
                   {Claim(s, i, rows[s][i].sync_rev) : i \in unknown})
    /\ UNCHANGED <<store, site, sent, faults>>
    /\ PassOnly

\* Variant: the mark does not compare sync_rev.
CasHitAnyRev(c) == rows[c.s][c.i] # NONE

CasHit(c) == rows[c.s][c.i] # NONE /\ rows[c.s][c.i].sync_rev = c.sync_rev

\* The mark lands only on the revision that was claimed.
cas_set_synced(c, synced) ==
    rows' = IF CasHit(c)
            THEN [rows EXCEPT ![c.s][c.i].synced = synced] ELSE rows

Marking == pass.pc \in {"marksettle", "marklocal", "mark"}

MarkCas ==
    \E c \in pass.todo :
        /\ Marking
        /\ pass.group \in {NONE, c.s}
        /\ \A d \in pass.todo : d.s = c.s => c.i <= d.i
        /\ cas_set_synced(c, TRUE)
        /\ pass' = [pass EXCEPT
               !.todo = @ \ {c},
               !.group = c.s,
               !.marked = IF CasHit(c) THEN @ \cup {c} ELSE @,
               !.miss = @ \/ ~CasHit(c)]
        /\ UNCHANGED <<final, tombs, site, sent, faults>>
        /\ PassOnly

GroupMarked == \A c \in pass.todo : c.s # pass.group

\* A miss in the group: the marks already made are taken back one by one.
MarkUndo ==
    /\ Marking /\ pass.group # NONE /\ GroupMarked
    /\ pass.miss /\ pass.marked # {}
    /\ \E c \in pass.marked :
           /\ cas_set_synced(c, FALSE)
           /\ pass' = [pass EXCEPT !.marked = @ \ {c}]
    /\ UNCHANGED <<final, tombs, site, sent, faults>>
    /\ PassOnly

GroupDone ==
    /\ Marking /\ pass.group # NONE /\ GroupMarked
    /\ ~pass.miss \/ pass.marked = {}
    /\ pass' = [pass EXCEPT !.group = NONE, !.marked = {}, !.miss = FALSE]
    /\ UNCHANGED <<store, site, sent, faults>>
    /\ PassOnly

MarkDone ==
    /\ Marking /\ pass.todo = {} /\ pass.group = NONE
    /\ pass' = [pass EXCEPT !.pc =
           CASE pass.pc = "marksettle" -> "read"
             [] pass.pc = "marklocal"  -> "tombs"
             [] pass.pc = "mark"       -> "clear"]
    /\ UNCHANGED <<store, site, sent, faults>>
    /\ PassOnly

\* get_unsynced, split_local_only and latest_per_game: the newest queued row
\* of a session decides whether the session stays local, and the newest of
\* the rows to send is the one uploaded, unless it needs a review.
Batch(s) == {i \in Present(s) : Queued(rows[s][i])}

Retired(s) == Batch(s) # {} /\ row_is_local_only(rows[s][Newest(Batch(s))])

KeptLocal(s) ==
    {i \in Batch(s) : Retired(s) \/ row_is_local_only(rows[s][i])}

ClaimsOf(Pick(_)) ==
    UNION {{Claim(s, i, rows[s][i].sync_rev) : i \in Pick(s)} : s \in Sessions}

GetUnsynced ==
    LET Send(s) == Batch(s) \ KeptLocal(s)
        Latest(s) == {i \in Send(s) : i = Newest(Send(s))
                                        /\ ~row_needs_review(rows[s][i])}
    IN
    /\ pass.pc = "read"
    /\ pass' = [pass EXCEPT !.pc = "split",
                            !.local = ClaimsOf(KeptLocal),
                            !.retire = {s \in Sessions : Retired(s)},
                            !.send = ClaimsOf(Send),
                            !.upload = ClaimsOf(Latest)]
    /\ UNCHANGED <<store, site, sent, faults>>
    /\ PassOnly

\* A local-only session is deleted on the site if it may ever have reached it.
RetireCheck ==
    /\ pass.pc = "split"
    /\ pass' = [pass EXCEPT
           !.pc = IF pass.local = {} THEN "tombs" ELSE "queue",
           !.retire = {s \in @ : session_may_be_on_site(s)}]
    /\ UNCHANGED <<store, site, sent, faults>>
    /\ PassOnly

\* The tombstones are stored before the rows are marked synced.
queue_tombstones ==
    /\ pass.pc = "queue"
    /\ tombs' = tombs \cup pass.retire
    /\ pass' = MarkThen("marklocal", pass.local)
    /\ UNCHANGED <<rows, final, site, sent, faults>>
    /\ PassOnly

Uploading == {c.s : c \in pass.upload}

get_pending_tombstones ==
    /\ pass.pc = "tombs"
    /\ pass' = IF pass.send = {} /\ tombs = {} THEN PassIdle
               ELSE [pass EXCEPT !.pc = "supersede", !.deletes = tombs]
    /\ UNCHANGED <<store, site, sent, faults>>
    /\ PassOnly

\* A tombstone of a session this pass uploads is taken for out of date.
split_superseded_tombstones ==
    /\ pass.pc = "supersede"
    /\ tombs' = tombs \ (pass.deletes \cap Uploading)
    /\ pass' = IF pass.upload = {} /\ pass.deletes \subseteq Uploading
               THEN PassIdle
               ELSE [pass EXCEPT !.pc = "upload", !.deletes = @ \ Uploading]
    /\ UNCHANGED <<rows, final, site, sent, faults>>
    /\ PassOnly

\* The site stores the accepted rows, then applies the deletes.
SiteApplies(accepted) ==
    /\ site' = [s \in Sessions |->
           IF s \in pass.deletes THEN NONE
           ELSE IF \E c \in accepted : c.s = s
           THEN LET c == CHOOSE c \in accepted : c.s = s
                IN  [snap |-> c.i, sync_rev |-> c.sync_rev]
           ELSE site[s]]
    /\ sent' = sent \cup accepted

UploadAccepted ==
    /\ pass.pc = "upload"
    /\ SiteApplies(pass.upload)
    /\ pass' = [pass EXCEPT !.pc = "ack", !.acc = pass.upload]
    /\ UNCHANGED <<store, faults>>
    /\ PassOnly

\* Some rows refused and blamed, some accepted, the others left queued.
UploadPartly(accepted, rejected) ==
    /\ pass.pc = "upload"
    /\ faults < MaxFaults
    /\ faults' = faults + 1
    /\ accepted # {} /\ accepted # pass.upload
    /\ accepted \cap rejected = {}
    /\ SiteApplies(accepted)
    /\ pass' = [pass EXCEPT !.pc = "ack", !.acc = accepted, !.rej = rejected]
    /\ UNCHANGED store
    /\ PassOnly

\* Nothing accepted, or the request never arrived: the pass stops.
UploadFailed ==
    /\ pass.pc = "upload"
    /\ faults < MaxFaults
    /\ faults' = faults + 1
    /\ pass' = PassIdle
    /\ UNCHANGED <<store, site, sent>>
    /\ PassOnly

\* The site applied the request and the answer was lost.
UploadAnswerLost ==
    /\ pass.pc = "upload"
    /\ faults < MaxFaults
    /\ faults' = faults + 1
    /\ SiteApplies(pass.upload)
    /\ pass' = PassIdle
    /\ UNCHANGED store
    /\ PassOnly

claims_covering(uploaded) == {c \in pass.send : \E u \in uploaded : u.s = c.s}

\* quarantine_upload, then mark_synced for the accepted sessions' claims.
quarantine_upload ==
    /\ pass.pc = "ack"
    /\ rows' = [s \in Sessions |-> [i \in Snaps |->
           IF /\ rows[s][i] # NONE
              /\ ~rows[s][i].synced
              /\ \E c \in claims_covering(pass.rej) :
                    c.s = s /\ c.i = i /\ CasHit(c)
           THEN [rows[s][i] EXCEPT !.upload_reject = TRUE]
           ELSE rows[s][i]]]
    /\ pass' = MarkThen("mark", claims_covering(pass.acc))
    /\ UNCHANGED <<final, tombs, site, sent, faults>>
    /\ PassOnly

\* Variant: the answer clears every tombstone, the ones not sent as well.
ClearAllTombstones ==
    /\ pass.pc = "clear"
    /\ tombs' = {}
    /\ pass' = PassIdle
    /\ UNCHANGED <<rows, final, site, sent, faults>>
    /\ PassOnly

\* Variant: acknowledged deletes stay queued.
KeepTombstones ==
    /\ pass.pc = "clear"
    /\ pass' = PassIdle
    /\ UNCHANGED <<store, site, sent, faults>>
    /\ PassOnly

clear_acknowledged_tombstones ==
    /\ pass.pc = "clear"
    /\ tombs' = tombs \ pass.deletes
    /\ pass' = PassIdle
    /\ UNCHANGED <<rows, final, site, sent, faults>>
    /\ PassOnly

\* The daemon stops and starts again.  An edit whose command file is still
\* there is applied from the start; a delete not committed is given again.
Crash ==
    /\ "crash" \in Ops
    /\ faults < MaxFaults
    /\ faults' = faults + 1
    /\ deletedHere' = {}
    /\ capture' = CaptureIdle
    /\ cmd' = IF cmd.pc = "edit" THEN [cmd EXCEPT !.todo = Present(cmd.s)]
              ELSE CmdIdle
    /\ pass' = PassIdle
    /\ UNCHANGED <<store, site, history, edits>>

-----------------------------------------------------------------------------
CaptureNext ==
    \/ \E s \in Sessions, i \in Snaps, map \in CapturedMaps : InsertCheck(s, i, map)
    \/ InsertCreate
    \/ drop_if_deleted_meanwhile

MainLoopNext ==
    \/ \E s \in Sessions :
          \/ \E decided \in BOOLEAN : set_session_outcome(s, decided)
          \/ \E map \in Maps : set_session_map(s, map)
          \/ \E map \in (Maps \ {"blank"}) \cup {NONE} : EditStart(s, map)
          \/ clear_upload_reject(s)
          \/ DeleteMark(s)
    \/ EditRow
    \/ DeleteCommit
    \/ DeleteFailed

PassStep ==
    \/ MarkCas \/ MarkUndo \/ GroupDone \/ MarkDone
    \/ GetUnsynced \/ RetireCheck \/ queue_tombstones
    \/ get_pending_tombstones \/ split_superseded_tombstones
    \/ quarantine_upload \/ clear_acknowledged_tombstones

UploadFault ==
    \/ \E accepted, rejected \in SUBSET pass.upload :
          UploadPartly(accepted, rejected)
    \/ UploadFailed
    \/ UploadAnswerLost

PassNext ==
    \/ PassStart
    \/ \E s \in Sessions : SettleStart(s)
    \/ PassStep
    \/ UploadAccepted
    \/ UploadFault

Next == CaptureNext \/ MainLoopNext \/ PassNext \/ Crash

Spec == Init /\ [][Next]_vars

\* The three tasks keep running, the idle tick starts a pass while anything
\* is pending, and after the last fault the site answers.
FairSpec ==
    /\ Spec
    /\ WF_vars(InsertCreate \/ drop_if_deleted_meanwhile)
    /\ WF_vars(EditRow \/ DeleteCommit)
    /\ WF_vars(PassStart)
    /\ WF_vars(PassStep)
    /\ WF_vars(UploadAccepted)

-----------------------------------------------------------------------------
(* Properties. *)

PassType == [pc: {"idle", "read", "split", "queue", "tombs", "supersede",
                  "upload", "ack", "mark", "marklocal", "marksettle", "clear"},
             local: SUBSET Claims, retire: SUBSET Sessions,
             send: SUBSET Claims, upload: SUBSET Claims,
             deletes: SUBSET Sessions, acc: SUBSET Claims, rej: SUBSET Claims,
             todo: SUBSET Claims, group: Sessions \cup {NONE},
             marked: SUBSET Claims, miss: BOOLEAN]

CaptureType == [pc: {"idle", "create", "recheck"}, s: Sessions \cup {NONE},
                i: Snaps \cup {0}, decided: BOOLEAN, map: Maps \cup {NONE}]

CmdType == [pc: {"idle", "edit", "delete"}, s: Sessions \cup {NONE},
            todo: SUBSET Snaps, map: Maps \cup {NONE}, newly: BOOLEAN]

\* The tables and the state of the three tasks keep their types; a stored
\* row always has a map and a mode the upload can judge.
TypeOK ==
    /\ rows \in [Sessions -> [Snaps -> PersonalMatch \cup {NONE}]]
    /\ final \in [Sessions -> BOOLEAN]
    /\ tombs \subseteq Sessions
    /\ deletedHere \subseteq Sessions
    /\ capture \in CaptureType
    /\ cmd \in CmdType
    /\ pass \in PassType
    /\ site \in [Sessions -> [snap: Snaps, sync_rev: Nat] \cup {NONE}]
    /\ taken \subseteq Sessions \X Snaps
    /\ gone \subseteq Sessions
    /\ sent \subseteq Claims
    /\ edits \in 0 .. MaxEdits
    /\ faults \in 0 .. MaxFaults

DecidedRows(s) == {i \in Present(s) : rows[s][i].decided}

\* The final snapshot of a game the site stores is marked synced only for the
\* payload the site accepted: an edit, a result or a map that arrived during
\* the upload stays queued (mark_synced compares sync_rev).  A game whose
\* last snapshot a delete took away is left out.
NoEditLost ==
    \A s \in Sessions :
        LET i == Max(DecidedRows(s)) IN
        /\ DecidedRows(s) # {}
        /\ rows[s][i].synced /\ ~row_is_local_only(rows[s][i])
        /\ \A j \in Snaps : j > i /\ <<s, j>> \in taken => j \in Present(s)
        => Claim(s, i, rows[s][i].sync_rev) \in sent

\* While the process that deleted a game runs, a capture that was in flight
\* at the delete cannot bring the game back into the local store.
DeletedStaysDeleted ==
    \A s \in gone \cap deletedHere :
        capture.s # s /\ cmd.s # s => Present(s) = {}

\* A deleted game that is on the site has its server delete queued: nothing
\* else would ever remove it there.
DeletedIsTombstoned ==
    \A s \in gone : site[s] # NONE => s \in tombs

Quiet == pass.pc = "idle" /\ cmd.pc = "idle" /\ capture.pc = "idle"
            /\ ~has_pending

\* When nothing is left to send, the site shows the final snapshot of each
\* uploaded game with its last edit, not an older snapshot of it.
NewestOnSite ==
    Quiet =>
        \A s \in Sessions :
            LET i == Max(DecidedRows(s)) IN
            DecidedRows(s) # {} /\ ~row_is_local_only(rows[s][i])
                /\ rows[s][i].synced
            => site[s] = [snap |-> i, sync_rev |-> rows[s][i].sync_rev]

\* When nothing is left to send, a game that is now local-only is not on the
\* site: split_local_only queues its server delete "because an earlier
\* snapshot may already be on the site".
LocalOnlyOffSite ==
    Quiet =>
        \A s \in Sessions :
            DecidedRows(s) # {}
                /\ row_is_local_only(rows[s][Max(DecidedRows(s))])
            => site[s] = NONE

\* Once the member and the captures stop, everything pending is sent: the
\* passes do not run for ever on the same work.
EventuallyQuiet == <>[]Quiet

=============================================================================
