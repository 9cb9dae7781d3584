# Scuffed Crew: TLA+ models and proofs

This directory holds TLA+ models of the protocols in the scuffed-crew
repository that tests hardly reach: sequences of database statements that
several requests run at once, a background upload around a local store that
keeps changing, rooms whose members come and go while messages are delivered,
a cache that many callers wait on. TLC checks the models on small instances.
TLAPS proves the most important properties of the device link, and that it
implements its abstract specification, for every instance.

All paths below are relative to the repository root; `PROJECT.json` maps every
definition to its lines of source.

## 1. Inventory

The repository is one Rust workspace. Sizes are lines of Rust.

| crate | lines | state it keeps | what it does |
|---|---|---|---|
| `crates/db` | 22 k | the SurrealDB tables | one async method per query; a method is one or several statements, each atomic by itself, without a transaction around them in most cases |
| `crates/site-server` | 54 k | in-memory maps: lockouts, limits, challenges, leaderboard cache | the HTTP API: sign-in, members, moderation, applications, tournaments, stats upload, device link, content |
| `crates/server` | 8 k | `RoomManager`: rooms, joined count, strategy mutexes | the strategy editor's WebSocket rooms |
| `crates/stat-tracker` | 152 k | a local SurrealDB store, capture state | the desktop daemon: captures scoreboards, reads them, stores snapshots, uploads them |
| `crates/stat-tracker-ui` | 34 k | single-instance lock, settings | the daemon's window; writes edits and deletes to the same store |
| `crates/relay-policy` | 6 k | per-connection session, per-address counts | the read gate and the write policy in front of a Nostr relay |
| `crates/chat` | 3 k | relay connections | community channels and direct messages over Nostr |
| `crates/auth` | 2 k | none | passwords, cookies, keys |
| `crates/app` | 66 k | browser state | the web front end |
| `crates/types`, `crates/api-client` | small | none | shared types and requests |
| `crates/map-pipeline`, `crates/map-renderer` | small | none | offline map processing and drawing |

### Components, interactions and what is hard about them

**Device link** (`db/src/queries/device_link.rs`, `daemon_tokens.rs`,
`site-server/src/routes/link.rs`, `link_cleanup.rs`). A tracker starts a code;
a signed-in member approves or denies it in the browser; the tracker polls and
receives a daemon token once; a timer revokes what nobody collected. State: a
`device_link` row per code and a `daemon_token` row per token. Every handler is
a chain of single statements, so two members, a deny, two polls and the
cleanup interleave freely. Correct means: the secret leaves once, never for a
denied code, never twice; no active token is left that nothing will revoke; a
live code is not reported expired; polls stay an interval apart.

**Tracker store and upload pass** (`stat-tracker/src/storage/mod.rs`, the sync
part of `stat-tracker/src/main.rs`). The capture task inserts snapshots of a
game; the main loop applies the member's edits, results and deletes; the sync
task reads unsynced rows, sends the newest of each game, and marks the rows it
sent. Each row has a revision that every change bumps, and a mark is a compare
and swap on it. Deleted games leave a tombstone for the site. Correct means:
a change made during an upload is sent later; a deleted game stays deleted,
here and on the site; the site ends with the newest snapshot; the passes end.

**Upload isolation** (`stat-tracker/src/sync/mod.rs`). When the site refuses a
chunk, `isolate_rejected` splits and probes it to find the rows at fault under
a budget of requests. Correct means: every row has one fate, the budget holds,
nothing good is quarantined, and one bad row does not stop the rest.

**Strategy rooms** (`server/src/collab/room.rs`, `server/src/routes/ws.rs`,
`db/src/queries/strategies.rs`). A socket joins the room of a strategy, edits
its elements and hears of the others' edits. Rooms live in a concurrent map
with a guard per entry; a broadcast drops connections whose channel is full;
edits are stored by spawned tasks under a mutex per strategy. Correct means:
the joined count is exact and the caps hold, no connection misses updates
without being told to close, and the stores do not overlap.

**Tournaments** (`db/src/queries/tournaments.rs`,
`site-server/src/routes/tournaments.rs`). Three generators write a bracket of
matches that link to the next match of their winner and loser; officers report
results, and a report advances the two, closes the round and in the end the
tournament. The result is one compare and swap; all that follows from it is
separate statements, and the advancement reads a row and writes it back whole.
Correct means: every slot has one source, winners reach it, a match is decided
once, and what is played to the end is closed.

**Leaderboard cache** (`site-server/src/leaderboard_cache.rs`). One caller scans
for a board and the others wait for it; an old board is served while a refresh
runs in the background; scans share a semaphore, refreshes have a smaller
budget and a queue; callers are dropped with their connections. Correct means:
one scan per board at a time, no slot is lost, refreshes do not hold up
readers, nobody gets a board past the limit, everybody is answered.

**Members, applications, first boot** (`site-server/src/routes/members.rs`,
`moderation.rs`, `applications.rs`, the set-up in `auth.rs`,
`membership_policy.rs`, and their queries). All of them read and write the
member table one statement at a time. Removing an admin counts the admins who
can still act, before and after the write, and takes the write back; reviewing
an application provisions a member around a compare and swap of the status;
set-up makes the first admin under a lock row. Correct means: an admin who can
act remains, bans hold, acceptance and membership agree, set-up makes one admin
and a failed one can be repeated.

**Not modelled yet, worth modelling** (see the plan): polls (a vote is a
delete and a create), lockout with eviction at a cap, the read gate of the
relay, the Tab press queue and the stream holds of the capture, and the
single-instance lock of the window.

**Not modelled, and why.** Content pages (announcements, articles, forum,
wiki, scrims, games) write independent rows one statement at a time. The
readers of the tracker (OCR, names, heroes, results) are image heuristics.
`auth` is cryptography. `app`, `types`, `api-client`, the map crates and the
start-up wiring keep no state that others depend on. Migrations run once, in
one process. `PROJECT.json` lists them all.

The full list of hazards, each at its line and with the property that would
catch it, is in `PROJECT.json`.

## 2. Modules

| module | models | proofs |
|---|---|---|
| `LinkGrant` | what device link promises, without statements and clocks | |
| `DeviceLink` | device link; implements `LinkGrant` | `DeviceLinkProofs`, `LinkGrantProofs` |
| `StatSync` | tracker store, upload pass, the site's row per game | `StatSyncProofs` |
| `UploadIsolation` | `isolate_rejected` against three kinds of site | `UploadIsolationProofs` |
| `CollabRoom` | rooms, sockets, channels, persist tasks | `CollabRoomProofs` |
| `Bracket` | the generators: seeding, links between matches, byes | TLC only |
| `Tournament` | reports on a generated bracket | `TournamentProofs` |
| `LeaderboardCache` | callers, flights, scan slots, refresh queue, store | `LeaderboardCacheProofs` |
| `MemberTable` | the member table, its queries and single-row writes | |
| `Moderation` | suspend, ban, deactivate, change role, lift | through `Membership` |
| `Applications` | submit, withdraw, review | through `Membership` |
| `FirstBoot` | the set-up request and its clean-up | through `Membership` |
| `Membership` | the last three side by side on one member table | `MembershipProofs` |

A module `MCx` instantiates `x`; each `.cfg` is one run. A definition whose comment starts
with "Variant:" is a plausible bug in the definition after it; put in its
place, it makes the property that `PROJECT.json` names fail. Nothing else uses
these.

### DeviceLink

One row per code in `link`; tokens are in `minted`, `active` and `owner`;
`approve`, `deny`, `poll` hold the program counter and the locals of each
concurrent request and `sweep` those of the cleanup. One action is one database
statement: `ApproveLookup`, `create_daemon_token`, `approve_device_link` (the
compare and swap), `ApproveRevoke` (what the loser does); `DenySelect`,
`DenyRevoke`, `DenyWrite`; `PollStart` reads the clock, `PollLoad` the row,
`touch_poll` and `consume_approved` are the two guarded writes, `PollLost` is
the second round of the loop; `SweepSelect`, `SweepRevoke` (one token),
`SweepClear` and `SweepDelete`. The `…Abort` actions are a handler that stops
between two statements (an error, a dropped connection, a restart) and
`ConsumeAnswerLost` is a claim that commits while its answer is lost. A poll
uses the clock it read at its start, which may be behind the rows it finds.

`ImplementsLinkGrant` says that all this is `LinkGrant`, in which a code is
asked for, granted by one member with one token or refused, collected at most
once, and forgotten. The refinement mapping reads the phase off the row's
status, the grant off its token, and the answers off the history of answers.

Left out: how codes look and are compared, origin checks, audit rows, the
per-address limits, and the expiry of the token itself after 180 days.

### StatSync

`rows[s]` are the snapshots of a game in `played_at` order, with the revision,
the synced flag, the raw and the corrected map, and whether the result is
decided. A payload is named by snapshot and revision, which is enough to say
which version the site has. Maps are "ranked" (sent), "local" (untracked
modes, kept local) and "blank" (held for the member's review). `capture`,
`cmd` and `pass` are the three tasks; every statement on the store is one
action. The pass is `PassStart`, `SettleStart`, `GetUnsynced`, `RetireCheck`,
`queue_tombstones`, `get_pending_tombstones`, `split_superseded_tombstones`,
the upload (`UploadAccepted`, `UploadPartly`, `UploadFailed`; the site applies
the rows and then the deletes), `quarantine_upload`, `MarkCas` per row with
`MarkUndo` when a sibling was missed, and `clear_acknowledged_tombstones`.
`Crash` stops all three tasks and forgets `deletedHere`.

`Overlap = FALSE` makes a command that takes several statements (a delete, an
edit of all snapshots) wait for an insert in progress and for a pass between
its two reads. The code has no such wait: it is how the passing liveness run
separates what holds from the one race that `sync_delete_race` shows.

Left out: the chunk and batch caps and their 413 negotiation, back-off and the
pause when sign-in is needed, the `matches.jsonl` log, the refresh of the hero
timeline, rows from before sessions existed, carried-over names; the
quarantine of a row is one step.

### UploadIsolation

A chunk of `n` rows, the stack of ranges still to send, the requests used, and
the rows accepted, rejected and deferred. `site` is "any" (answers without
rule), "judging" (refuses exactly the batches that hold a bad row, with or
without naming a row, and may fail otherwise at any time) or "naming" (always
names a row when it refuses, and never fails otherwise). `Send…` and `Probe…` are the arms of the loop and
of the single-row probe; `Return` is the end guard that takes a chunk without
any accepted row for a server-wide refusal.

### CollabRoom

`rooms` and `members` are the map and its entries, `slots` is
`global_connections`, `lost` counts entries thrown away with their room.
`task[c]` is the handler of a socket: its program counter, `current_room`, and
the slots it still has to return. `channel[c]` counts the messages in its
channel, `sink[c]` says whether its peer reads, has stalled or is gone, and
`evict[c]` is the signal that it was dropped. An entry guard is held from
`Enter`, `Leave` or `Cast` to the end of the delivery; between `Release` and
`RemoveRoom` it is not, as in the code. Persist tasks take the mutex that
`strategy_lock` gave them, check the cap, load, and store.

`Kept` names connections that stay in their room, which is how the passing
runs separate a room that never empties from the two races that need an empty
one (below). `MayStall` names the peers that may stop reading.

Left out: what messages say, the roster sent on join, the cap per address, and
phases, which are stored as elements are. Database errors are `PersistFailed`.

### Bracket and Tournament

`Bracket` computes what the generators write: `seeded_slots`, `Matches`,
`next_match`, `loser_next_match`, `Circle` and the byes that are won at once
(`Advanced`). A match is named by its half, round and place. `Tournament`
plays it: `Validate`, `Cas` (`report_tournament_match`), then one action per
statement: `SlotRead` and `SlotWrite` for each advancement, `Eliminate`,
`ListMatches`, `CloseRound`, `Finish`. `Stop` is a statement that fails. The
history variables `raced`, `early` and `stopped` name the matches whose row was
overwritten with an older one, that were decided with a slot empty, and whose
report was cut off: what the properties except.

Left out: Swiss rounds, registration, hand-made seeds, scores. `report_match`
does not look at the tournament's status, and neither does the model.

### LeaderboardCache

`entries` and `order` are the store, `inflight` the flights, `refresh_wait` the
bounded queue, `permits` and `waiters` the semaphore, `slot` the background
tasks, `req` the callers. `begin` is the one decision under the lock; what
follows in `get_or_load` is one action per stretch between two awaits.
`Drop…` is a caller that goes away at an await. The watch channel is what the
sender writes into its followers.

Left out: what a board holds and the statistics of the cache. The age limit,
the freshness and the back-off are small numbers; jitter is a choice.

### Membership

`MemberTable` has the rows (a role and a flag per person), the actions in
force, and the requests in flight. `jobs` says what each request may be sent
for, `past` is history for the exceptions that the properties name.
`Moderation` is one chain for the three handlers, which are alike:
`Authenticate`, `LoadTarget`, `CountAdmins`, `Decide`, one of `WriteAction`,
`WriteActive`, `WriteRole`, then `CheckAgain` and `Undo`. `Applications` has
`Submit…`, then `Enter` for the two orders of a transition (`Ensure…` then
`SwapStatus`, or `SwapStatus` then `FindRecruit` and `DropRecruit`).
`FirstBoot` is `SetupLooks`, `SetupClaims`, `SetupCreatesUser`,
`SetupCreatesAdmin` and the clean-up behind a failure. A fault is a statement
that fails or a request that is dropped; in set-up also one that commits while
its answer is lost, which the clean-up is written for.

Left out: the recruitment switch, sessions, audit rows, display names,
warnings and notes. A suspension that runs out is a lift. `apps` is the set of
rows of the table; the id of a row is that of the request that created it, and
its `created_at` is later than any in the table. A starting table is one of a
site at rest (`AtRest`): what the handlers leave when none is at work and
nothing went wrong.

## 3. Runs

Passing runs:

| run | instance | checks |
|---|---|---|
| `device_link` | one code, one approval, one deny, two polls, the cleanup, one stop, `TTL = 2`, fair clock and cleanup; 338 k states | `TypeOK`, `NoOrphanToken`, `DeniedNeverHanded`, `HandedOnce`, `ExpiredIsTrue`, `PollSpacing`, `UncollectedRevoked`, `ImplementsLinkGrant` |
| `isolate_walk` | every chunk up to nine rows, every set of bad rows, three sites | `RowsHaveOneFate`, `WithinBudget`, `QuarantineSound`, `FewBadIsolated` |
| `sync_everything` | two games, two snapshots in all, two edits, one fault, all operations, answers in part; 3.0 M states | `TypeOK`, `NoEditLost`, `DeletedStaysDeleted` |
| `sync_drains` | one game, two snapshots, three edits, one fault, fair tasks | `DeletedIsTombstoned`, `NewestOnSite`, `EventuallyQuiet` |
| `rooms_any` | a keeper and two tabs of one user, two strategies, rooms that empty; 1.4 M states | `SlotsConserved`, `WithinCaps` |
| `rooms_kept` | a keeper who edits and a second user, two persist tasks, fair tasks; 199 k states | `PersistsSafe`, `AdmittedMayJoin`, `NoSilentDrop`, `EvictedCloses` |
| `tournament` | every elimination bracket up to 16 and round robin up to 11 generated; single elimination of 3 and 4, double of 2, round robin of 2 and 3 played by two officers, 5 and double 3, 4 by one; one fault; 635 k states | `WellFormed`, `WinnersAdvance`, `DecidedOnce`, `ClosedWhenDone`, `PlayedOut` |
| `leaderboard` | two callers, two boards, room for one or two, two scan slots, one dropped caller, fair tasks; 364 k states | `InOrder`, `FlightOwned`, `SlotsShared`, `ServedRight`, `Answered` |
| `membership` | three people, three requests, one fault, nine starting tables; 500 k states | `TablesSound`, `LastAdminKept`, `BanHolds`, `AcceptedIsActive`, `RecruitsHaveCause`, `BootSound` |

Some of these are conjunctions whose parts are named in the modules:
`FewBadIsolated` is `QuarterBadIsolated` and `HalfBadProgress`; `PersistsSafe`
is `PersistsSerial` and `ElementCap`; `WellFormed` is `TypeOK`,
`EverySlotFedOnce`, `EveryoneSeeded` and `PairsMeetOnce`; `ClosedWhenDone` is
`ClosedIsDone` and `LastReportCloses`; `PlayedOut` is `NeverStuck` and
`SoleSurvivor`; `InOrder` is `TypeOK`, `OrderMatches` and `QueueBounded`;
`SlotsShared` is `PermitsConserved` and `RefreshesYield`; `ServedRight` is
`NeverTooOld` and `ErrorsFromScans`; `TablesSound` is `TypeOK` and
`OneOpenApplication`; `BootSound` is `BootedOnce` and `BootRetryable`.

Runs that show a disagreement between the code and what the repository says of
it:

| run | property | what happens |
|---|---|---|
| `sync_delete_race` | `DeletedIsTombstoned` | a delete commits between the pass's read of the rows and its read of the tombstones; the tombstone is dropped as out of date and the deleted game is uploaded, for good |
| `tournament_twice` | `ReportedOnce` | a semi-final's report has read the final's row and writes it back after the final was reported against an empty slot; the final is pending again and can be reported again |
| `membership_last_admin` | `AdminRemains` | two admins suspend each other while one of them is deactivated too; the deactivation found its target suspended and so does not look again, the suspension is taken back, and nobody is left |

### Why the bounds are enough

*DeviceLink.* The handlers interact through one row and one token at a time,
so one code suffices for the races; two polls are needed for the single
hand-over and for clocks out of order, one stop for every half-way point. A
second member matters for a lost compare and swap and a foreign deny, which
the proofs cover for any number. `TTL = 2` with time up
to 2 reaches a code that is live, a poll that started before the expiry and
writes after it, and a cleanup at the exact cutoff. The invariants are proved
without these bounds.

*StatSync.* Two snapshots are the least for "an older one is sent by itself",
two edits put one during the upload and one after it, one fault is a crash, a
lost answer or a failed delete at any step. Two games are needed only for a
request that is accepted in part. Blank maps are not in `sync_drains` because
such a game waits for a review that nobody is obliged to do.

*UploadIsolation.* Nine rows give every shape of split at three levels with
odd halves, and a budget that runs out in the middle.

*CollabRoom.* A channel of one place is full after one message, which is what
matters for eviction; three connections give a join, a leave and a broadcast
at once; caps of two and three put the last slot in reach.

*Tournament.* Sizes to 16 reach every shape of the losers' bracket, with and
without byes, up to four winners rounds. Two reports at once suffice for the
row written back whole, which has one reader and one writer too many; four
participants give two matches that feed the same one. `AdvancesWinners` proves
the links for up to 64 participants.

*LeaderboardCache.* Two boards with room for one force evictions, two slots
are the least that keep one for readers, two callers are a leader and a
follower or two readers in line behind a refresh. Time up to 2 reaches fresh,
old and too old.

*Membership.* Three requests are two that cross and one that comes between.
The starting tables have two admins, one of them inactive or suspended, and an
applicant without a row, in trial, rejected before, and banned.

### Fairness

*DeviceLink.* `WF(Tick)` and `WF(SweepPass)`: time passes and
`spawn_device_link_cleanup` loops on a timer for the life of the process; a
pass that stops starts over on the next tick. Nothing is assumed of handlers.

*StatSync.* The three tasks go on with a statement they can run, the idle tick
starts a pass while something is queued, and a request is answered once the
bounded faults are used up. Edits, deletes and crashes are never fair.

*CollabRoom.* The runtime polls every task that can go on (`WF(Proceed)`), a
task that waits for an entry guard or for a place in a channel is let through
in the end (`SF(Acquire)`: a guard is held for one delivery and places are
given in order), and a peer that reads goes on reading (`WF(Forward)`). No
peer has to send anything or to close.

*LeaderboardCache.* The runtime polls every caller and task that can go on, and
a scan ends because its query has a time limit (`with_timeout`). The semaphore
is first come first served, as tokio's is. Callers need not come, and the clock
need not run.

*Tournament* and *Membership* are checked for safety only: nobody has to report
a match or to send a request.

Runs with `CHECK_DEADLOCK FALSE` model something that really stops: the
tracker with nothing left to send and the bounded edits used up, a walk that
has returned, a tournament that is over, and requests that have been answered.

## 4. Proofs

`DeviceLinkProofs` proves, for any sets of codes, members, tokens and request
slots and any `TTL` and `Interval`:

- `TypeCorrect`: `Spec => []TypeOK`;
- `SecretHandedOnce`: `Spec => []HandedOnce`;
- `NoTokenOrphaned`: `Spec => []NoOrphanToken`;
- `DeniedNotHanded`: `Spec => []DeniedNeverHanded`;
- `ExpiredAnswersTrue`: `Spec => []ExpiredIsTrue`;
- `PollsSpaced`: `Spec => PollSpacing`.

Assumed is only what `DeviceLink` assumes of its constants: natural numbers
for the times, and a `NONE` outside the sets.

None of these is inductive by itself. "The secret leaves once" needs that a
token is on at most one row and held by at most one handler, that a row with
the status "consumed" is never approved again, and that the guarded write of a
poll succeeds only on an approved row. The inductive invariant `IInv` is the
conjunction of:

- `RowInv`: what each status says of the member, the token and the secret on
  a row; a row that has lost its secret while approved has no active token;
- `ApproveInv`: a minted token is in the hands of one approve handler only
  and on no row yet;
- `DenyInv`: a deny under way has a code and a member;
- `TokenInv`: two rows never share a token, a token on an approved or denied
  row has not been handed over, and none has been handed over twice;
- `PollInv`: what a poll may still rely on of the row it read. A poll that
  read an approved row finds it approved and matching, or past that status; a
  poll in its second round that finds the row pending finds it polled too
  recently and says so, which is why two rounds suffice;
- `SweepInv`: everything uncollected and expired at the cutoff of the pass in
  progress is on its list or revoked, so the delete at its end takes no row
  whose token is active;
- `AnswerInv`: "expired" is never answered for a code that was not issued;
- and the properties `NoOrphanToken` and `ExpiredIsTrue` themselves.

There is one lemma per action, `NextIInv` combines them, and the theorems
follow from `InitIInv` and `NextIInv` by temporal logic.

`LinkGrantProofs` proves `LinkImplementsGrant`: `Spec => ImplementsLinkGrant`,
under the same assumptions. `Stutter` says when a statement is nothing to
`LinkGrant` (no status, grant or answer changes); the other lemmas show for
each statement that changes one which step it is: `InsertAsks`,
`ApproveGrants`, `DenyRefuses`, `ConsumeCollects`, `AnswerLostLoses`,
`SweepForgets`. Their guards (a granted token was on no other row and in no
answer before) are conjuncts of `IInv`, so the refinement rests on the
invariant above and would not hold step by step without it.

`UploadIsolationProofs` proves, for chunks of any size, any budget and any
site: `OneFate` (`RowsHaveOneFate`), `BudgetKept` (`WithinBudget`) and
`QuarantineIsSound` (`QuarantineSound`). The inductive invariant adds `ShapeInv`
(the ranges on the stack are not empty and lie one above the other, and the
range being probed lies below them), `BudgetInv` (a walk that is about to probe
has a request left for it) and `JudgedInv` (on a site that judges row by row,
what is rejected so far is bad and what is accepted is good). Why a row is
never in two places is the first of these: what waits is a union of disjoint
ranges, and each arm takes one off the stack and puts back its parts.

`TournamentProofs` proves, for every bracket the generators write, any number of
officers and of failing statements: `DecidesOnce` (`DecidedOnce`) and
`ClosesWhenDone` (`ClosedWhenDone`). The invariant: rows and reports are well
formed (`ShapeInv`); a pending match whose row never went back was not decided
(`DecidedInv`); what a report has seen done is done, if no row went back
(`SeenInv`); and when everything in a round or in the tournament is done, it is
closed or some report is under way that has yet to look or will close it
(`CloseInv`, `FinishInv`), which is the argument that the last of several reports
at once sees them all. The proof found an exception that the first version
of `LastReportCloses` did not make (section 5). Of `Bracket` these two use only
that the generators write rows none of which is completed, not what they compute.

`AdvancesWinners` (`WinnersAdvance`) is about the links. `LinksApart`, `LinkSlots`: in a
bracket of 2 to 64 participants no slot is the target of two matches, nor of both
the winner and the loser of one, and every target is a match of the bracket. It
follows from the arithmetic of rounds and positions (`SingleForms`,
`DoubleForms`, `DoubleSlots`), with `LogSizeBounds` for the number of rounds, and
needs nothing of how the rows are filled. `AdvanceInv` adds to `ShapeInv`:
- `TodoOK`, `OneRequest`: what a report still has to write are the entries of its
  own match, and between the swap that decides a match and its answer one report
  has it;
- `SlotsInv`, `SidesInv`: a slot that is taken was filled by a match that is
  decided, and no report is about to fill it again; a decided match has its two
  sides, so who lost it does not change;
- `SettledInv`: the winner (and the loser) of a decided match is in the slot the
  link leads to, or a report is about to write it there.
Two exceptions came from this proof: a feeder whose row went back and is decided
again replaces a participant of a match that may have been played (`Refed`),
which can change who that match's loser is; and the cases of
`loser_next_match` had to be told apart by bracket before anything could be
shown of them.

`LeaderboardCacheProofs` proves, for any finite sets of boards and callers, any
number of slots, capacity and limits: `StaysInOrder` (`InOrder`),
`FlightsOwned` (`FlightOwned`), `PermitsShared` (`SlotsShared`) and `ServesRight`
(`ServedRight`). The invariant is `TypeOK` with
- `OwnInv`: a live flight has exactly one owner among callers and tasks, and
  whoever waits waits for a live one;
- `PermitInv`: free permits and permits held are the slots, none is free while
  somebody waits in line, and the line is the callers who wait, each once;
- `OrderInv`: the recency list has each cached board once and fits;
- `QueueInv`: the set of queued refreshes is finite and within its bound;
- `StaleInv`: the age of what a caller goes on to serve, and of every scan that
  may still replace it.

Counting permits and owners uses the library's theorems on finite sets. That a
queue of requests has a first one is the least-element theorem on the naturals.

`MembershipProofs` proves, for any people, any number of requests at the same
time and any number of faults, from any site at rest: `AdminKept`
(`LastAdminKept`), `BansHold` (`BanHolds`), `AcceptedStays` (`AcceptedIsActive`),
`BootIsSound` (`BootSound`) and `TablesInOrder` (`TablesSound`). Assumed is
`MembershipAssumption`: the starting tables are at rest, jobs are jobs. The
properties speak of moments when no request is at work; the invariant has to
say what holds in between:
- `BaseInv`: the locals of a request have what its next statement reads,
  whoever works on a row has found one, and only one set-up holds the lock,
  while there is no member;
- `ActionInv`, `AppInv`: rows are about members, and written once by the
  request whose id they have;
- `OpenInv`: of two open applications of a person, one is still to be counted
  or taken back by the request that made it;
- `BanInv`: a ban is in force only on a member who is out or was let in openly,
  and so is every ban about to be written;
- `AdminInv`: somebody is `Restorable`: has the flag, the role and no action
  against them, or each of these that is missing was taken by a request that
  is about to look again. A second look that finds no actionable admin gives
  back what it took; one that finds an admin may rely on it, as that admin is
  `Restorable` too. This is the argument for the second look, and the three
  events in `Lost` are exactly where it breaks;
- `BootInv`: whoever set-up has made has the row and the account, and while
  there is no member the only account is that of the request with the lock;
- `AcceptInv`: an accepted applicant is active, or was deactivated openly, or
  has a later application that came to an end; a review that is about to
  swap the status has made the member active since, or its swap will fail.
`RecruitsCaused` (`RecruitsHaveCause`) has the hypothesis `RecruitsAtRest`: at the
start an active recruit who applied is on trial or accepted, and no admin asks
for `ChangeRole("recruit")`, which is allowed on any active member and says
nothing of applications. `RecruitInv` adds that an active recruit has an
application in trial or accepted, or never applied and nobody is applying for
them, or a request answers for them: the review that let them in and
has its swap before it, or the one that ended the application and has its
deactivation before it. `KeepsCause` says what a step must not do to a person.
Both invariants are checked by TLC on the run's instance as well.

`CollabRoomProofs` proves, for any finite sets of connections, strategies and
persist tasks and any caps: `SlotsExact` (`SlotsConserved`) and `CapsHold`
(`WithinCaps`); and, where every strategy has a connection that stays in its room
(`EveryRoomKept`, a condition on the constants): `EditsSafe` (`PersistsSafe`),
`AdmittedJoins` (`AdmittedMayJoin`) and `DropsAreTold` (`NoSilentDrop`). Without that
condition the last three do not hold (section 5). Assumed is `RoomAssumption`; in
particular the connections that stay fit in the caps. The invariant:
- `TaskInv`: the fields of a socket task where it stands;
- `MemberInv`: a member's room is there, and the member believes itself in it, or
  its `leave_room` has not reached the room yet;
- `HoldInv`: a room is held by one task, and only while it is there;
- `OwedInv`: the connections that a delivery has dropped but not yet settled are
  members no longer and cannot leave before it is over. This is why a broadcast
  that drops a connection and the connection's own `leave_room` do not both
  return its slot;
- `CapInv`: a join that holds a room has a place in it; `SocketInv`: the admission
  semaphore;
- `KeepInv`, `DropInv`: a room that somebody stays in is not found empty, so it is
  not removed, and nobody is lost with it;
- `LockInv`, `CountInv`: a persist of such a room waits for or holds the mutex of
  that room, a mutex is held once, and what was read under it is still so.
For `AdmittedJoins` the members, the joins under way, the slots about to be
returned and the slots to be settled for are shown to be disjoint sets of open
sockets, none of them the one that is about to reserve. Nothing is proved about
peers and channels beyond their types; `EvictedCloses` is liveness.

`StatSyncProofs` proves, for any sessions, snapshots, edits and faults and any
choice of operations: `StoreTyped` (`TypeOK`), `EditsKept` (`NoEditLost`) and
`StaysDeleted` (`DeletedStaysDeleted`); and, for `Overlap = FALSE`,
`DeletesReachSite` (`DeletedIsTombstoned`). The code does not give the last one
unconditionally, as `sync_delete_race` shows: the theorem says that the overlap of
a command of several statements with an insert, or of a delete with a collecting
pass, is the only way to lose a server delete, whatever answers are lost and
whenever the daemon stops. Assumed
are `StatSyncAssumption` and `NoneAssumption`: `NONE` is no session, no map and no
row. The invariant:
- `RowInv`: a snapshot is inserted once, so a row that has left the table never
  comes back, and snapshot and revision name one payload for ever;
- `ClaimInv`: a claim of the pass is on the past (`Old`: the row can only have
  moved on), and as long as the row still has the claimed revision it may be marked
  (`Fine`): it is undecided, local-only, covered by a later decided snapshot, or
  accepted by the site. A claim to send need not be `Fine` before the answer;
  `quarantine_upload` picks those whose session has an accepted row, and these
  are that row or covered by it;
- `SyncedInv`: every mark in the table is on a row that is `Fine`;
- `DeletedInv`: a row of a deleted game is the one the insert in flight is about
  to look at again, or the game is being deleted a second time.
`StoreStep` says how any step may move the table on: a row is created by the
announced insert, kept, queued again under a higher revision, or removed, and a
result is taken back from all rows of a session at once. `ClaimStays` proves from
it that `Old` and `Fine` survive, which is where the compare and swap on the
revision is needed; every action is then shown to be a `StoreStep`. `ApartInv`
adds for `DeletesReachSite` that a deleted game has no rows and nobody at work on
it, and that what the pass still uploads of it has a tombstone that this pass
does not clear. The parts of both invariants are checked by TLC on the instances
of `sync_everything` and `sync_drains` as well.

`NewestShown` (`NewestOnSite`) has the hypotheses `Overlap = FALSE` and that `Ops`
has none of `held`, `auto_map` and `retry`; results, retractions, edits, edits of
the map, settled sessions, deletes, refusals, lost answers and stops may all
happen. The hypotheses say what the property rests on: that no statement queues
an older snapshot while the newest is marked. Each is needed, as TLC shows for
each alone (section 5). `ShowInv` adds to `ApartInv`:
- `ShowOK`: a game is at rest (`Rested`) when its last decided snapshot is marked,
  is not local-only, and no edit is still to write it. The site shows that
  snapshot, no tombstone or delete of the pass is about to remove it, no older
  snapshot will be sent as it is (`Past`), and the pass holds no claim on the game
  unless the snapshot is one it has just had accepted;
- `BatchOK`: of a game the pass uploads one claim, the newest it holds, and what
  it retires it also marks;
- `RowsOK`: as long as one claim of a game still hits, the other rows claimed
  with it are there and decided, and an older one that was written since is of
  an edit that has yet to come to this one. Edits go up the snapshots, which is
  where the order of `edit_match` matters;
- `OlderOK`: every older snapshot of what was accepted is past or still to be
  marked; `LocalOK`: what is marked without being sent is not the one to show;
- `MissOK`: marks are taken back only when a claim of the group was missed; by
  `RowsOK` the newest was then written too or is about to be, so taking them back
  does not queue older snapshots of a game at rest;
- `SiteOK`: between the answer and the end of the pass the site has what it
  accepted; `EditInv`, `OrderInv`: no row appears above the one an edit has come
  to, and snapshots are inserted in their order.
`MemberKeeps` shows once that what the capture task and the main loop do to a
session (`MemberStep`) keeps all of it; for the pass there is a lemma for
each of its steps. TLC checks `ShowInv` on one game of two snapshots and three edits and of
three snapshots and two edits.

Only model-checked: the liveness properties (`UncollectedRevoked`,
`EventuallyQuiet`, `EvictedCloses`, `Answered`), which TLAPS does not reach;
`FewBadIsolated`, which counts requests down a recursive split, and
`WellFormed` and `PlayedOut`, which depend on what the recursive
generators of `Bracket` compute (the library's induction theorems take an
operator as a parameter, which the provers cannot instantiate; its set form of
well-foundedness can be used, and is, for least elements).

## 5. What else the models show

These hold in the code's favour or against it in cases the passing runs leave
out on purpose. Each is reproduced by the named constants.

- `DenyRevokesFirst` (`DeviceLink`, one slot of each kind, no stop): an
  approval by the same member between the two statements of a deny leaves a
  denied row with an active token, although `link.rs` says "A deny revokes the
  daemon token before it writes `denied`." The device never gets the token and
  the cleanup revokes it.
- `SweepKeepsHanded` (`DeviceLink`, one slot of each kind, `TTL = 2`,
  `Interval = 1`, `MaxTime = 3`, `MaxAborts = 0`): a poll that read its clock
  before the expiry collects a token that the cleanup has already selected.
- `NewestOnSite` with `Ops = {"auto_map"}`, two snapshots, three edits, maps
  ranked and blank: a map filled in afterwards queues only the snapshots that
  lacked it, and the older of them replaces the newest on the site.
- `NewestOnSite` with `Ops = {"retry"}`, two games, two snapshots, one fault:
  the retry of a refused older snapshot does the same.
- `NewestOnSite` with `Ops = {"held"}`, one game, two snapshots, three edits: a
  held board is stored, with its earlier `played_at`, after a newer snapshot was
  uploaded, and replaces it on the site.
- `NewestOnSite` with `Overlap = TRUE` and `Ops = {"delete", "crash"}`, one game, two
  snapshots, one edit, one fault: a pass sends a newer snapshot whose insert then
  finds the delete's mark and drops it; the older one is marked with it, the
  daemon stops before the pass finds the miss and before the delete commits, and
  the site keeps a snapshot that the store no longer has.
- `RefusingMeansServerWide` (`UploadIsolation`, `Sites = {"naming"}`,
  `MaxRows = 8`): the budget can run out on bad rows before a good one is
  tried, and the chunk is taken for a server-wide refusal.
- `ElementCap` and `PersistsSerial` without a keeper (`Connections = {a}`,
  two tasks): `leave_room` forgets the strategy's mutex while a persist holds
  it, and the next edit gets a second one.
- `AdmittedMayJoin` without a keeper (two connections, `MaxGlobal = 2`): the
  slot lost with a removed room is missing for ever after.
- `EvictedCloses` with `MayStall = {b}`: a handler that waits for a place in
  its own channel does not look at the evict signal, and a peer that has
  stopped reading keeps it waiting.

- `LocalOnlyOffSite` (`StatSync`, `Ops = {"edit_map"}`, one game, one snapshot,
  `MaxEdits = 2`, `MaxFaults = 0`, captured maps ranked): an edit to an untracked map also rewrites
  `game_mode`, from which `session_may_be_on_site` concludes that the game never
  reached the site; its copy there is not deleted, although `split_local_only`
  queues the delete "because an earlier snapshot may already be on the site".
- `NoSilentDrop` without a keeper (two connections, one strategy,
  `Kept <- Nobody`, `MaxGlobal = 2`, `MaxRoom = 3`): a join
  between `is_empty` and `rooms.remove` of a `leave_room` is thrown away with
  the room; the connection hears nothing and is not closed.

Tournaments, without a run of their own:

- Two semi-finals that advance at once can lose a finalist, since each writes
  the final's row as it read it (`raced`).
- `standard_seed_order` gives pairs that differ from the test's comment "1 vs
  4, 2 vs 3": four play 1-3 and 4-2, and of five the first seed plays in round
  one while seeds two to four have a bye. `EveryoneSeeded` claims no order.
- A double elimination of five has a losers match fed by two byes
  (`LoserlessMatch`): nobody can win it and the tournament is never closed.

- After a match was re-opened by a stale row and decided again, a stale row
  written to the final leaves the final's round open though the tournament is
  completed. `LastReportCloses` therefore speaks of the rounds only as long as
  no row was overwritten (`raced`).

Leaderboard cache:

- A refresh that waits in the queue is dropped silently when its flight has
  died meanwhile; the next reader starts another.
- A follower can be told of an error though no scan failed, when the board is
  evicted between `must_block` and the second look (more boards than
  `max_entries`).

Membership, the exceptions its properties name:

- A removal looks again only if its target was an actionable admin when read.
  A promotion or reactivation after the read, a ban's row written after a
  reactivation, and an undo still to come are not seen
  (`membership_last_admin`).
- The undo of a demotion is lost when the role was changed again.
- The undo of a deactivation sets the flag blindly and can leave an active
  banned member, although the comment in `moderation.rs` says "so we never
  return success with an active banned member".
- Two submissions at once can both be taken back ("Keep one open app").
- An acceptance that loses its swap to a withdrawal leaves an active recruit;
  the deactivation after a withdrawal can hit a member whom a later application
  has brought back; a ban between the acceptance's look and its reactivation is
  undone; its role write demotes a member who was promoted meanwhile; and a
  submission rolled back after it was put on trial leaves its member.

## 6. Plan

1. Proofs: what the generators of `Bracket` compute, for a fixed number of
   participants at a time.
2. Polls; lockout tiers and eviction at the cap; one-time challenges.
3. `StatSync`: the request caps and the back-off around the pass.
4. The read gate's session, the Tab press queue with the stream holds, and the
   single-instance lock.
