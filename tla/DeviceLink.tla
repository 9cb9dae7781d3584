----------------------------- MODULE DeviceLink -----------------------------
(***************************************************************************)
(* Device-code sign-in for the stat tracker: the server's half.            *)
(*                                                                         *)
(* A device asks for a code, a signed-in member approves or denies it on   *)
(* the site, and the device polls until it collects a daemon token, once.  *)
(* The handlers (routes/link.rs) run concurrently and are sequences of     *)
(* separate database statements (queries/device_link.rs and                *)
(* queries/daemon_tokens.rs), so each statement is an action of its own    *)
(* and everything a handler keeps between two statements is in its slot.   *)
(*                                                                         *)
(* A handler can stop between two statements: a database error, the query  *)
(* timeout, a dropped connection and a crash all leave the statements      *)
(* already executed and nothing else.  The Abort actions are those stops.  *)
(***************************************************************************)
EXTENDS Integers, FiniteSets

CONSTANTS
    Codes,        \* device codes; each stands for its user code as well
    Members,      \* signed-in org members
    Tokens,       \* daemon tokens, named apart by the secret they carry
    ApproveSlots, \* concurrent POST /api/link/approve requests
    DenySlots,    \* concurrent POST /api/link/deny requests
    PollSlots,    \* concurrent POST /api/link/poll requests
    TTL,          \* DEVICE_LINK_TTL_SECS, in ticks
    Interval,     \* DEVICE_LINK_INTERVAL_SECS, in ticks
    MaxTime,      \* bound: the clock stops here
    MaxAborts,    \* bound: how many handlers and sweeps may stop half-way
    NONE          \* SurrealDB's NONE

ASSUME LinkAssumption ==
    /\ TTL \in Nat \ {0}
    /\ Interval \in Nat \ {0}
    /\ MaxTime \in Nat
    /\ MaxAborts \in Nat
    /\ NONE \notin Codes \cup Members \cup Tokens \cup Nat

VARIABLES
    now,       \* wall clock
    link,      \* table device_link, one row per code
    minted,    \* table daemon_token: the rows that exist,
    owner,     \*   their member_id,
    active,    \*   and the ones with is_active = true
    approve,   \* approve handlers in flight
    deny,      \* deny handlers in flight
    poll,      \* poll handlers in flight
    sweep,     \* the cleanup task of link_cleanup.rs
    handed,    \* history: how many poll answers carried each token
    toldExpired, \* history: codes some poll answered "expired" for
    abandoned, \* history: tokens of an approve that stopped half-way, or
               \*   of a poll whose answer was lost
    aborts     \* how many handlers and sweeps stopped half-way

vars == <<now, link, minted, owner, active, approve, deny, poll, sweep,
          handed, toldExpired, abandoned, aborts>>

tokenVars == <<minted, owner, active>>
history == <<handed, toldExpired, abandoned>>

-----------------------------------------------------------------------------
(* Rows and handler slots. *)

Status == {"unissued", "pending", "approved", "denied", "consumed", "deleted"}

\* A row of device_link.  "unissued" and "deleted" are codes without a row.
DbDeviceLink == [status: Status,
                 member_id: Members \cup {NONE},
                 daemon_token_id: Tokens \cup {NONE},
                 handover_token: Tokens \cup {NONE},
                 expires_at: Nat,
                 last_poll_at: Nat \cup {NONE}]

NoRow(status) == [status |-> status, member_id |-> NONE,
                  daemon_token_id |-> NONE, handover_token |-> NONE,
                  expires_at |-> 0, last_poll_at |-> NONE]

HasRow(c) == link[c].status \in {"pending", "approved", "denied", "consumed"}

ApproveIdle == [pc |-> "idle", code |-> NONE, member |-> NONE, token |-> NONE]
DenyIdle == ApproveIdle
PollIdle == [pc |-> "idle", code |-> NONE, now |-> 0, round |-> 0]
SweepIdle == [pc |-> "idle", cutoff |-> 0, todo |-> {}]

Init ==
    /\ now = 0
    /\ link = [c \in Codes |-> NoRow("unissued")]
    /\ minted = {}
    /\ owner = [t \in Tokens |-> NONE]
    /\ active = {}
    /\ approve = [a \in ApproveSlots |-> ApproveIdle]
    /\ deny = [d \in DenySlots |-> DenyIdle]
    /\ poll = [p \in PollSlots |-> PollIdle]
    /\ sweep = SweepIdle
    /\ handed = [t \in Tokens |-> 0]
    /\ toldExpired = {}
    /\ abandoned = {}
    /\ aborts = 0

-----------------------------------------------------------------------------
(* The clock, and POST /api/link/start. *)

Tick ==
    /\ now < MaxTime
    /\ now' = now + 1
    /\ UNCHANGED <<link, tokenVars, approve, deny, poll, sweep, history, aborts>>

\* A fresh pair of random codes; the unique indexes rule out a second row.
\* A code is issued only while the clock can still reach its expiry.
insert_device_link(c) ==
    /\ link[c].status = "unissued"
    /\ now + TTL <= MaxTime
    /\ link' = [link EXCEPT ![c] = [NoRow("pending") EXCEPT !.expires_at = now + TTL]]
    /\ UNCHANGED <<now, tokenVars, approve, deny, poll, sweep, history, aborts>>

-----------------------------------------------------------------------------
(* POST /api/link/approve *)

LivePending(c) == link[c].status = "pending" /\ link[c].expires_at > now

\* lookup_device_link: a code that is not live and pending is "invalid code"
\* and the handler ends without a write.
ApproveLookup(a, c, m) ==
    /\ approve[a].pc = "idle"
    /\ LivePending(c)
    /\ approve' = [approve EXCEPT ![a] =
            [pc |-> "mint", code |-> c, member |-> m, token |-> NONE]]
    /\ UNCHANGED <<now, link, tokenVars, deny, poll, sweep, history, aborts>>

create_daemon_token(a, t) ==
    /\ approve[a].pc = "mint"
    /\ t \notin minted
    /\ minted' = minted \cup {t}
    /\ active' = active \cup {t}
    /\ owner' = [owner EXCEPT ![t] = approve[a].member]
    /\ approve' = [approve EXCEPT ![a].pc = "cas", ![a].token = t]
    /\ UNCHANGED <<now, link, deny, poll, sweep, history, aborts>>

\* The compare-and-swap from pending to approved.
approve_device_link(a) ==
    LET c == approve[a].code IN
    /\ approve[a].pc = "cas"
    /\ \/ /\ LivePending(c)
          /\ link' = [link EXCEPT
                ![c].status = "approved",
                ![c].member_id = approve[a].member,
                ![c].daemon_token_id = approve[a].token,
                ![c].handover_token = approve[a].token]
          /\ approve' = [approve EXCEPT ![a] = ApproveIdle]
       \/ /\ ~LivePending(c)
          /\ approve' = [approve EXCEPT ![a].pc = "revoke"]
          /\ UNCHANGED link
    /\ UNCHANGED <<now, tokenVars, deny, poll, sweep, history, aborts>>

\* UPDATE daemon_token SET is_active = false WHERE id = t AND member_id = m
revoke_daemon_token(t, m) ==
    active' = IF owner[t] = m THEN active \ {t} ELSE active

ApproveRevoke(a) ==
    /\ approve[a].pc = "revoke"
    /\ revoke_daemon_token(approve[a].token, approve[a].member)
    /\ approve' = [approve EXCEPT ![a] = ApproveIdle]
    /\ UNCHANGED <<now, link, minted, owner, deny, poll, sweep, history, aborts>>

\* An error or a stop after the mint leaves the token as it is: the error
\* branch of the handler does not revoke.
ApproveAbort(a) ==
    /\ approve[a].pc # "idle"
    /\ aborts < MaxAborts
    /\ aborts' = aborts + 1
    /\ abandoned' = abandoned \cup ({approve[a].token} \ {NONE})
    /\ approve' = [approve EXCEPT ![a] = ApproveIdle]
    /\ UNCHANGED <<now, link, tokenVars, deny, poll, sweep, handed, toldExpired>>

-----------------------------------------------------------------------------
(* POST /api/link/deny *)

Deniable(c, m) ==
    /\ link[c].expires_at > now
    /\ \/ link[c].status = "pending"
       \/ link[c].status = "approved" /\ link[c].member_id = m

\* The SELECT of deny_device_link; with a token on the row it revokes first.
DenySelect(d, c, m) ==
    LET row == link[c] IN
    /\ deny[d].pc = "idle"
    /\ Deniable(c, m)
    /\ deny' = [deny EXCEPT ![d] =
            [pc |-> IF row.daemon_token_id # NONE /\ row.member_id # NONE
                      THEN "revoke" ELSE "write",
             code |-> c, member |-> m, token |-> row.daemon_token_id]]
    /\ UNCHANGED <<now, link, tokenVars, approve, poll, sweep, history, aborts>>

DenyRevoke(d) ==
    /\ deny[d].pc = "revoke"
    /\ revoke_daemon_token(deny[d].token, deny[d].member)
    /\ deny' = [deny EXCEPT ![d].pc = "write"]
    /\ UNCHANGED <<now, link, minted, owner, approve, poll, sweep, history, aborts>>

\* Variant for sensitivity: the status write does not check the row again.
DenyWriteBlind(d) ==
    /\ deny[d].pc = "write"
    /\ link' = [link EXCEPT ![deny[d].code].status = "denied",
                            ![deny[d].code].handover_token = NONE]
    /\ deny' = [deny EXCEPT ![d] = DenyIdle]
    /\ UNCHANGED <<now, tokenVars, approve, poll, sweep, history, aborts>>

DenyWrite(d) ==
    LET c == deny[d].code IN
    /\ deny[d].pc = "write"
    /\ \/ /\ Deniable(c, deny[d].member)
          /\ link' = [link EXCEPT ![c].status = "denied", ![c].handover_token = NONE]
       \/ /\ ~Deniable(c, deny[d].member)
          /\ UNCHANGED link
    /\ deny' = [deny EXCEPT ![d] = DenyIdle]
    /\ UNCHANGED <<now, tokenVars, approve, poll, sweep, history, aborts>>

DenyAbort(d) ==
    /\ deny[d].pc # "idle"
    /\ aborts < MaxAborts
    /\ aborts' = aborts + 1
    /\ deny' = [deny EXCEPT ![d] = DenyIdle]
    /\ UNCHANGED <<now, link, tokenVars, approve, poll, sweep, history>>

-----------------------------------------------------------------------------
(* POST /api/link/poll.  The clock is read once, when the request starts. *)

is_expired(row, t) == row.expires_at <= t

polled_too_fast(row, t) == row.last_poll_at # NONE /\ t - row.last_poll_at < Interval

PollStart(p, c) ==
    /\ poll[p].pc = "idle"
    /\ link[c].status # "unissued"
    /\ poll' = [poll EXCEPT ![p] =
            [pc |-> "load", code |-> c, now |-> now, round |-> 1]]
    /\ UNCHANGED <<now, link, tokenVars, approve, deny, sweep, history, aborts>>

\* The answer leaves; "expired" is remembered.
Answer(p, status) ==
    /\ poll' = [poll EXCEPT ![p] = PollIdle]
    /\ toldExpired' = IF status = "expired"
                        THEN toldExpired \cup {poll[p].code} ELSE toldExpired

\* load_by_device_hash and the decision taken on the row it returned.
PollLoad(p) ==
    LET row == link[poll[p].code]
        t == poll[p].now
    IN
    /\ poll[p].pc = "load"
    /\ \/ /\ ~HasRow(poll[p].code) \/ is_expired(row, t) \/ row.status = "consumed"
          /\ Answer(p, "expired")
       \/ /\ HasRow(poll[p].code) /\ ~is_expired(row, t) /\ row.status # "consumed"
          /\ polled_too_fast(row, t)
          /\ Answer(p, "slow_down")
       \/ /\ HasRow(poll[p].code) /\ ~is_expired(row, t) /\ row.status # "consumed"
          /\ ~polled_too_fast(row, t)
          /\ poll' = [poll EXCEPT ![p].pc = row.status]
          /\ UNCHANGED toldExpired
    /\ UNCHANGED <<now, link, tokenVars, approve, deny, sweep, handed, abandoned, aborts>>

\* Variant for sensitivity: the UPDATE leaves the interval to the earlier read.
PollMatchesNoInterval(p, status) ==
    link[poll[p].code].status = status /\ link[poll[p].code].expires_at > poll[p].now

\* The predicate the poll's two UPDATE statements share.
PollMatches(p, status) ==
    LET row == link[poll[p].code] IN
    /\ row.status = status
    /\ row.expires_at > poll[p].now
    /\ row.last_poll_at # NONE => row.last_poll_at <= poll[p].now - Interval

\* Variants for sensitivity: no second look; a loop without its bound.
PollLostAtOnce(p) == Answer(p, "expired")

PollLostForever(p) ==
    /\ poll' = [poll EXCEPT ![p].pc = "load", ![p].round = @ + 1]
    /\ UNCHANGED toldExpired

\* A lost compare-and-swap: once more round the loop, then "expired".
PollLost(p) ==
    \/ /\ poll[p].round = 1
       /\ poll' = [poll EXCEPT ![p].pc = "load", ![p].round = 2]
       /\ UNCHANGED toldExpired
    \/ poll[p].round = 2 /\ Answer(p, "expired")

\* touch_poll on the status that was read, pending or denied.  A denied code
\* is answered "denied" whether or not the row was touched.
touch_poll(p) ==
    LET c == poll[p].code
        status == poll[p].pc
    IN
    /\ status \in {"pending", "denied"}
    /\ \/ /\ PollMatches(p, status)
          /\ link' = [link EXCEPT ![c].last_poll_at = poll[p].now]
          /\ Answer(p, status)
       \/ /\ ~PollMatches(p, status)
          /\ UNCHANGED link
          /\ IF status = "denied" THEN Answer(p, "denied") ELSE PollLost(p)
    /\ UNCHANGED <<now, tokenVars, approve, deny, sweep, handed, abandoned, aborts>>

\* Variant for sensitivity: the secret is read, the row is not claimed.
ConsumeWithoutClaim(p) ==
    LET c == poll[p].code IN
    /\ poll[p].pc = "approved"
    /\ PollMatches(p, "approved") /\ link[c].handover_token # NONE
    /\ link' = [link EXCEPT ![c].last_poll_at = poll[p].now]
    /\ handed' = [handed EXCEPT ![link[c].handover_token] = @ + 1]
    /\ Answer(p, "approved")
    /\ UNCHANGED <<now, tokenVars, approve, deny, sweep, abandoned, aborts>>

\* One statement claims the secret: RETURN BEFORE yields the old handover_token.
consume_approved(p) ==
    LET c == poll[p].code
        secret == link[c].handover_token
    IN
    /\ poll[p].pc = "approved"
    /\ \/ /\ PollMatches(p, "approved")
          /\ link' = [link EXCEPT ![c].status = "consumed",
                                  ![c].handover_token = NONE,
                                  ![c].last_poll_at = poll[p].now]
          /\ \/ /\ secret # NONE
                /\ handed' = [handed EXCEPT ![secret] = @ + 1]
                /\ Answer(p, "approved")
             \/ /\ secret = NONE
                /\ Answer(p, "expired")
                /\ UNCHANGED handed
       \/ /\ ~PollMatches(p, "approved")
          /\ PollLost(p)
          /\ UNCHANGED <<link, handed>>
    /\ UNCHANGED <<now, tokenVars, approve, deny, sweep, abandoned, aborts>>

\* The claim commits and its answer is lost: the query timeout or a crash
\* after the statement, or a connection gone before the response.
ConsumeAnswerLost(p) ==
    LET c == poll[p].code IN
    /\ poll[p].pc = "approved"
    /\ PollMatches(p, "approved")
    /\ aborts < MaxAborts
    /\ aborts' = aborts + 1
    /\ abandoned' = abandoned \cup ({link[c].handover_token} \ {NONE})
    /\ link' = [link EXCEPT ![c].status = "consumed",
                            ![c].handover_token = NONE,
                            ![c].last_poll_at = poll[p].now]
    /\ poll' = [poll EXCEPT ![p] = PollIdle]
    /\ UNCHANGED <<now, tokenVars, approve, deny, sweep, handed, toldExpired>>

PollAbort(p) ==
    /\ poll[p].pc # "idle"
    /\ aborts < MaxAborts
    /\ aborts' = aborts + 1
    /\ poll' = [poll EXCEPT ![p] = PollIdle]
    /\ UNCHANGED <<now, link, tokenVars, approve, deny, sweep, history>>

-----------------------------------------------------------------------------
(* DELETE /api/stats/tokens/:id, by the token's owner. *)

MemberRevoke(t, m) ==
    /\ t \in active
    /\ owner[t] = m
    /\ revoke_daemon_token(t, m)
    /\ UNCHANGED <<now, link, minted, owner, approve, deny, poll, sweep, history, aborts>>

-----------------------------------------------------------------------------
(* The cleanup task: one pass after another, one pass at a time. *)

Expired(c, cutoff) == HasRow(c) /\ link[c].expires_at <= cutoff

\* Variant for sensitivity: denied rows are taken to have no live token.
UncollectedApprovedOnly(cutoff) ==
    {c \in Codes : Expired(c, cutoff) /\ link[c].status = "approved"}

\* Rows whose token the pass has to revoke before it deletes them.
Uncollected(cutoff) ==
    {c \in Codes : /\ Expired(c, cutoff)
                   /\ link[c].status \in {"approved", "denied"}
                   /\ link[c].member_id # NONE
                   /\ link[c].daemon_token_id # NONE}

SweepSelect ==
    /\ sweep.pc = "idle"
    /\ sweep' = [pc |-> "revoke", cutoff |-> now,
                 todo |-> {<<link[c].member_id, link[c].daemon_token_id>> :
                              c \in Uncollected(now)}]
    /\ UNCHANGED <<now, link, tokenVars, approve, deny, poll, history, aborts>>

SweepRevoke ==
    /\ sweep.pc = "revoke"
    /\ \E row \in sweep.todo :
        /\ revoke_daemon_token(row[2], row[1])
        /\ sweep' = [sweep EXCEPT !.todo = @ \ {row}]
    /\ UNCHANGED <<now, link, minted, owner, approve, deny, poll, history, aborts>>

SweepClear ==
    /\ sweep.pc = "revoke"
    /\ sweep.todo = {}
    /\ link' = [c \in Codes |-> IF Expired(c, sweep.cutoff)
                                  THEN [link[c] EXCEPT !.handover_token = NONE]
                                  ELSE link[c]]
    /\ sweep' = [sweep EXCEPT !.pc = "delete"]
    /\ UNCHANGED <<now, tokenVars, approve, deny, poll, history, aborts>>

\* Variant for sensitivity: the DELETE reads the clock again.
SweepDeleteByClock ==
    /\ sweep.pc = "delete"
    /\ link' = [c \in Codes |-> IF Expired(c, now) THEN NoRow("deleted") ELSE link[c]]
    /\ sweep' = SweepIdle
    /\ UNCHANGED <<now, tokenVars, approve, deny, poll, history, aborts>>

SweepDelete ==
    /\ sweep.pc = "delete"
    /\ link' = [c \in Codes |-> IF Expired(c, sweep.cutoff)
                                  THEN NoRow("deleted") ELSE link[c]]
    /\ sweep' = SweepIdle
    /\ UNCHANGED <<now, tokenVars, approve, deny, poll, history, aborts>>

SweepAbort ==
    /\ sweep.pc # "idle"
    /\ aborts < MaxAborts
    /\ aborts' = aborts + 1
    /\ sweep' = SweepIdle
    /\ UNCHANGED <<now, link, tokenVars, approve, deny, poll, history>>

-----------------------------------------------------------------------------
(* Specification *)

ApproveNext(a) ==
    \/ \E c \in Codes, m \in Members : ApproveLookup(a, c, m)
    \/ \E t \in Tokens : create_daemon_token(a, t)
    \/ approve_device_link(a)
    \/ ApproveRevoke(a)
    \/ ApproveAbort(a)

DenyNext(d) ==
    \/ \E c \in Codes, m \in Members : DenySelect(d, c, m)
    \/ DenyRevoke(d)
    \/ DenyWrite(d)
    \/ DenyAbort(d)

PollNext(p) ==
    \/ \E c \in Codes : PollStart(p, c)
    \/ PollLoad(p)
    \/ touch_poll(p)
    \/ consume_approved(p)
    \/ ConsumeAnswerLost(p)
    \/ PollAbort(p)

SweepPass == SweepSelect \/ SweepRevoke \/ SweepClear \/ SweepDelete

Next ==
    \/ Tick
    \/ \E c \in Codes : insert_device_link(c)
    \/ \E a \in ApproveSlots : ApproveNext(a)
    \/ \E d \in DenySlots : DenyNext(d)
    \/ \E p \in PollSlots : PollNext(p)
    \/ \E t \in Tokens, m \in Members : MemberRevoke(t, m)
    \/ SweepPass
    \/ SweepAbort

Spec == Init /\ [][Next]_vars

\* The sweep is a loop on a timer, and time passes.
FairSpec == Spec /\ WF_vars(Tick) /\ WF_vars(SweepPass)
-----------------------------------------------------------------------------
(* Properties *)

ApproveState == [pc: {"idle", "mint", "cas", "revoke"},
                 code: Codes \cup {NONE}, member: Members \cup {NONE},
                 token: Tokens \cup {NONE}]
DenyState == [pc: {"idle", "revoke", "write"},
              code: Codes \cup {NONE}, member: Members \cup {NONE},
              token: Tokens \cup {NONE}]
PollState == [pc: {"idle", "load", "pending", "denied", "approved"},
              code: Codes \cup {NONE}, now: Nat, round: 0..2]
SweepState == [pc: {"idle", "revoke", "delete"}, cutoff: Nat,
               todo: SUBSET (Members \X Tokens)]

\* Every row, token and handler slot has the shape its type in the code gives it.
TypeOK ==
    /\ now \in Nat
    /\ link \in [Codes -> DbDeviceLink]
    /\ minted \in SUBSET Tokens
    /\ owner \in [Tokens -> Members \cup {NONE}]
    /\ active \in SUBSET minted
    /\ approve \in [ApproveSlots -> ApproveState]
    /\ deny \in [DenySlots -> DenyState]
    /\ poll \in [PollSlots -> PollState]
    /\ sweep \in SweepState
    /\ handed \in [Tokens -> Nat]
    /\ toldExpired \in SUBSET Codes
    /\ abandoned \in SUBSET Tokens
    /\ aborts \in Nat

\* "The secret is returned at most once" (poll_device_link): over every
\* interleaving of polls, approvals and sweeps no token leaves in two answers.
HandedOnce == \A t \in Tokens : handed[t] <= 1

Approving(t) == \E a \in ApproveSlots :
                    approve[a].pc \in {"cas", "revoke"} /\ approve[a].token = t

Revocable(t) == \E c \in Codes : /\ link[c].status \in {"approved", "denied"}
                                 /\ link[c].daemon_token_id = t

\* No sign-in leaves an active token behind that nothing will revoke: an
\* active token was handed to a device, or its approve handler is still
\* running, or its row is still there for the sweep to find.  The exceptions
\* are the two stops no code makes up for: an approve handler that stopped
\* between the mint and the compare-and-swap, and a poll whose claim committed
\* and whose answer was lost.  (The one cutoff of cleanup_expired_device_links_before,
\* and its revoke of denied rows, are there for this.)
NoOrphanToken ==
    \A t \in active : handed[t] = 1 \/ Approving(t) \/ Revocable(t) \/ t \in abandoned

\* A device is told "expired" only for a code that can no longer be approved:
\* a poll that raced with the approval has to look again (the loop of
\* poll_device_link) instead of giving the device up.
ExpiredIsTrue ==
    \A c \in toldExpired :
        link[c].status \in {"pending", "approved"} => link[c].expires_at <= now

\* A denied code's token never reaches the device, neither before nor after
\* the deny, whichever of deny_device_link and poll_device_link writes first.
DeniedNeverHanded ==
    \A c \in Codes : link[c].status = "denied" /\ link[c].daemon_token_id # NONE
                        => handed[link[c].daemon_token_id] = 0

\* Accepted polls of one code are at least Interval apart, even when polls
\* that read the clock in one order reach the database in the other.
PollSpacing ==
    [][\A c \in Codes :
        LET old == link[c].last_poll_at
            new == link'[c].last_poll_at
        IN  old # NONE /\ new # NONE /\ new # old => new >= old + Interval]_vars

\* An uncollected token is eventually revoked: the sweep gets to every
\* approved or denied code, passes that stop half-way notwithstanding.  Only a
\* claim whose answer was lost takes a token out of its reach.
UncollectedRevoked ==
    \A t \in Tokens :
        (t \in active /\ Revocable(t))
            ~> (t \notin active \/ handed[t] = 1 \/ t \in abandoned)

\* routes/link.rs: "A deny revokes the daemon token before it writes `denied`."
DenyRevokesFirst ==
    \A c \in Codes : link[c].status = "denied" /\ link[c].daemon_token_id # NONE
                        => link[c].daemon_token_id \notin active

\* cleanup_expired_device_links: "A token that was already handed over stays
\* active." - as far as the sweep goes.
SweepKeepsHanded ==
    [][sweep' # sweep =>
        \A t \in active : handed[t] > 0 => t \in active']_vars
-----------------------------------------------------------------------------
(* DeviceLink implements LinkGrant: the phase of a code is its status, and   *)
(* the grant the token on its row.                                          *)

PhaseOf(status) ==
    CASE status = "unissued" -> "new"
      [] status = "pending" -> "open"
      [] status = "approved" -> "granted"
      [] status = "denied" -> "refused"
      [] status = "consumed" -> "spent"
      [] OTHER -> "gone"

Abstract == INSTANCE LinkGrant WITH
    phase   <- [c \in Codes |-> PhaseOf(link[c].status)],
    grantor <- [c \in Codes |-> IF link[c].daemon_token_id = NONE
                                  THEN NONE ELSE link[c].member_id],
    grant   <- [c \in Codes |-> link[c].daemon_token_id],
    answers <- handed

\* Whatever the statements of approve, deny, poll and the cleanup interleave
\* to, and wherever they stop, a code goes through the phases of LinkGrant:
\* a grant is collected at most once, never after it was refused, and a code
\* that is refused, spent or gone stays so.
ImplementsLinkGrant == Abstract!Spec
=============================================================================
