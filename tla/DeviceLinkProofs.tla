-------------------------- MODULE DeviceLinkProofs --------------------------
(***************************************************************************)
(* The safety properties of DeviceLink, for any number of codes, members,  *)
(* tokens and concurrent requests.  They follow from one inductive         *)
(* invariant, whose parts say what each kind of state may hold.            *)
(***************************************************************************)
EXTENDS DeviceLink, TLAPS

\* What a row may hold in each status.
RowInv == \A c \in Codes :
    /\ link[c].status \in {"unissued", "deleted", "pending"} =>
            link[c].daemon_token_id = NONE /\ link[c].handover_token = NONE
    /\ link[c].daemon_token_id # NONE =>
            /\ link[c].daemon_token_id \in minted
            /\ link[c].member_id # NONE
            /\ owner[link[c].daemon_token_id] = link[c].member_id
    /\ link[c].handover_token # NONE =>
            /\ link[c].status = "approved"
            /\ link[c].handover_token = link[c].daemon_token_id
    /\ link[c].status = "approved" =>
            /\ link[c].daemon_token_id # NONE
            /\ link[c].handover_token = NONE => link[c].daemon_token_id \notin active

\* An approve handler holds its own fresh token until the compare-and-swap.
ApproveInv == \A a \in ApproveSlots :
    /\ approve[a].pc # "idle" => approve[a].code \in Codes /\ approve[a].member \in Members
    /\ approve[a].token # NONE <=> approve[a].pc \in {"cas", "revoke"}
    /\ approve[a].token # NONE =>
            /\ approve[a].token \in minted
            /\ owner[approve[a].token] = approve[a].member
            /\ handed[approve[a].token] = 0
            /\ \A c \in Codes : link[c].daemon_token_id # approve[a].token
            /\ \A b \in ApproveSlots : b # a => approve[b].token # approve[a].token

DenyInv == \A d \in DenySlots :
    deny[d].pc # "idle" => deny[d].code \in Codes /\ deny[d].member \in Members

\* A token has one row, and leaves it only through the row's consumption.
TokenInv ==
    /\ \A c1, c2 \in Codes : c1 # c2 /\ link[c1].daemon_token_id # NONE
            => link[c1].daemon_token_id # link[c2].daemon_token_id
    /\ \A c \in Codes :
            link[c].daemon_token_id # NONE /\ link[c].status \in {"approved", "denied"}
                => handed[link[c].daemon_token_id] = 0
    /\ \A t \in Tokens : handed[t] <= 1 /\ (t \notin minted => handed[t] = 0)

\* What a poll handler may still rely on of the row it read.
PollInv == \A p \in PollSlots : poll[p].pc # "idle" =>
    LET row == link[poll[p].code] IN
    /\ poll[p].code \in Codes
    /\ poll[p].now <= now
    /\ poll[p].round \in {1, 2}
    /\ row.status # "unissued"
    /\ poll[p].pc = "approved" =>
            /\ row.status # "pending"
            /\ row.status = "approved" => PollMatches(p, "approved")
    /\ poll[p].pc = "pending" =>
            /\ poll[p].round = 1
            /\ row.status = "pending" => row.expires_at > poll[p].now
    /\ poll[p].round = 2 /\ row.status = "pending" =>
            /\ row.last_poll_at # NONE
            /\ row.last_poll_at > poll[p].now - Interval

\* What the pass has established for the rows it is about to delete.
SweepInv ==
    /\ sweep.pc # "idle" => sweep.cutoff <= now
    /\ sweep.pc = "revoke" => \A c \in Uncollected(sweep.cutoff) :
            \/ link[c].daemon_token_id \notin active
            \/ <<link[c].member_id, link[c].daemon_token_id>> \in sweep.todo
    /\ sweep.pc = "delete" => \A c \in Uncollected(sweep.cutoff) :
            link[c].daemon_token_id \notin active

\* A poll never answers for a code that was not issued.
AnswerInv == \A c \in toldExpired : link[c].status # "unissued"

IInv ==
    /\ TypeOK
    /\ RowInv
    /\ ApproveInv
    /\ DenyInv
    /\ TokenInv
    /\ PollInv
    /\ SweepInv
    /\ NoOrphanToken
    /\ AnswerInv
    /\ ExpiredIsTrue

-----------------------------------------------------------------------------
(* Initially *)

\* Empty tables, idle handlers and an idle sweep satisfy the invariant.
LEMMA InitIInv == Init => IInv
<1> SUFFICES ASSUME Init PROVE IInv
    OBVIOUS
<1> USE LinkAssumption DEF Init, NoRow, ApproveIdle, DenyIdle, PollIdle, SweepIdle
<1>1. TypeOK
    BY DEF TypeOK, DbDeviceLink, Status, ApproveState, DenyState, PollState, SweepState
<1>2. RowInv
    BY DEF RowInv
<1>3. ApproveInv
    BY DEF ApproveInv
<1>4. DenyInv /\ TokenInv
    BY DEF DenyInv, TokenInv
<1>5. PollInv /\ SweepInv
    BY DEF PollInv, SweepInv
<1>6. NoOrphanToken /\ AnswerInv /\ ExpiredIsTrue
    BY DEF NoOrphanToken, AnswerInv, ExpiredIsTrue
<1> QED
    BY <1>1, <1>2, <1>3, <1>4, <1>5, <1>6 DEF IInv

-----------------------------------------------------------------------------
(* One lemma per action. *)

\* Time passes: bounds against the clock only weaken.
LEMMA TickIInv ==
    ASSUME IInv, Tick
    PROVE  IInv'
<1> USE LinkAssumption DEF IInv, tokenVars, history
<1>0. /\ now \in Nat /\ now' = now + 1
      /\ UNCHANGED <<link, tokenVars, approve, deny, poll, sweep, history, aborts>>
    BY DEF Tick, TypeOK
<1>1. PollInv'
    BY <1>0 DEF PollInv, PollMatches, TypeOK, PollState
<1>2. SweepInv'
    BY <1>0 DEF SweepInv, Uncollected, Expired, HasRow, TypeOK, SweepState
<1>3. ExpiredIsTrue'
    BY <1>0 DEF ExpiredIsTrue, TypeOK, DbDeviceLink
<1>4. TypeOK' /\ RowInv' /\ ApproveInv' /\ DenyInv'
    BY <1>0 DEF TypeOK, RowInv, ApproveInv, DenyInv
<1>5. TokenInv' /\ NoOrphanToken' /\ AnswerInv'
    BY <1>0 DEF TokenInv, NoOrphanToken, Approving, Revocable, AnswerInv
<1> QED
    BY <1>1, <1>2, <1>3, <1>4, <1>5 DEF IInv

\* A new row takes the place of a code no poll has heard of.
LEMMA InsertIInv ==
    ASSUME IInv, NEW c \in Codes, insert_device_link(c)
    PROVE  IInv'
<1> USE LinkAssumption DEF IInv, tokenVars, history
<1>0. /\ link[c].status = "unissued"
      /\ link'[c] = [status |-> "pending", member_id |-> NONE,
                     daemon_token_id |-> NONE, handover_token |-> NONE,
                     expires_at |-> now + TTL, last_poll_at |-> NONE]
      /\ \A x \in Codes : x # c => link'[x] = link[x]
      /\ UNCHANGED <<now, tokenVars, approve, deny, poll, sweep, history, aborts>>
    BY DEF insert_device_link, NoRow, TypeOK
<1>1. TypeOK'
    BY <1>0 DEF TypeOK, DbDeviceLink, Status, insert_device_link, NoRow
<1>2. SweepInv'
    BY <1>0 DEF SweepInv, Uncollected, Expired, HasRow, TypeOK, SweepState
<1>3. AnswerInv'
    BY <1>0 DEF AnswerInv, TypeOK
<1>4. ExpiredIsTrue'
    BY <1>0 DEF ExpiredIsTrue, AnswerInv, TypeOK, DbDeviceLink
<1>5. RowInv' /\ ApproveInv' /\ DenyInv' /\ TokenInv'
    BY <1>0 DEF RowInv, ApproveInv, DenyInv, TokenInv
<1>6. PollInv' /\ NoOrphanToken'
    BY <1>0 DEF PollInv, PollMatches, NoOrphanToken, Approving, Revocable
<1> QED
    BY <1>1, <1>2, <1>3, <1>4, <1>5, <1>6 DEF IInv

\* The lookup only fills the slot.
LEMMA ApproveLookupIInv ==
    ASSUME IInv, NEW a \in ApproveSlots, NEW c \in Codes, NEW m \in Members,
           ApproveLookup(a, c, m)
    PROVE  IInv'
<1> USE LinkAssumption DEF IInv, tokenVars, history
<1>0. /\ approve[a].pc = "idle"
      /\ approve'[a] = [pc |-> "mint", code |-> c, member |-> m, token |-> NONE]
      /\ \A b \in ApproveSlots : b # a => approve'[b] = approve[b]
      /\ UNCHANGED <<now, link, tokenVars, deny, poll, sweep, history, aborts>>
    BY DEF ApproveLookup, TypeOK
<1>1. TypeOK'
    BY <1>0 DEF TypeOK, ApproveState, ApproveLookup
<1>2. RowInv' /\ ApproveInv' /\ DenyInv' /\ TokenInv'
    BY <1>0 DEF RowInv, ApproveInv, DenyInv, TokenInv
<1>3. PollInv' /\ SweepInv' /\ NoOrphanToken' /\ AnswerInv'
    BY <1>0 DEF PollInv, PollMatches, SweepInv, Uncollected, Expired, HasRow,
        NoOrphanToken, Approving, Revocable, AnswerInv
<1>4. ExpiredIsTrue'
    BY <1>0 DEF ExpiredIsTrue
<1> QED
    BY <1>1, <1>2, <1>3, <1>4 DEF IInv

\* A minted token is new, so no row and no other handler holds it.
LEMMA MintIInv ==
    ASSUME IInv, NEW a \in ApproveSlots, NEW t \in Tokens, create_daemon_token(a, t)
    PROVE  IInv'
<1> USE LinkAssumption DEF IInv, tokenVars, history
<1>0. /\ approve[a].pc = "mint"
      /\ t \notin minted
      /\ minted' = minted \cup {t} /\ active' = active \cup {t}
      /\ owner'[t] = approve[a].member
      /\ \A x \in Tokens : x # t => owner'[x] = owner[x]
      /\ approve'[a].pc = "cas" /\ approve'[a].code = approve[a].code
      /\ approve'[a].member = approve[a].member /\ approve'[a].token = t
      /\ \A b \in ApproveSlots : b # a => approve'[b] = approve[b]
      /\ UNCHANGED <<now, link, deny, poll, sweep, history, aborts>>
    BY DEF create_daemon_token, TypeOK, ApproveState
<1>1. TypeOK'
    BY <1>0 DEF TypeOK, ApproveState, ApproveInv, create_daemon_token
<1>2. RowInv'
    BY <1>0 DEF RowInv, TypeOK, DbDeviceLink
<1>3. ApproveInv'
    BY <1>0 DEF ApproveInv, RowInv, TokenInv, TypeOK, ApproveState, DbDeviceLink
<1>4. SweepInv'
    BY <1>0 DEF SweepInv, Uncollected, Expired, HasRow, RowInv
<1>5. NoOrphanToken'
    BY <1>0 DEF NoOrphanToken, Approving, Revocable, TypeOK
<1>6. DenyInv' /\ TokenInv' /\ PollInv' /\ AnswerInv'
    BY <1>0 DEF DenyInv, TokenInv, PollInv, PollMatches, AnswerInv
<1>7. ExpiredIsTrue'
    BY <1>0 DEF ExpiredIsTrue
<1> QED
    BY <1>1, <1>2, <1>3, <1>4, <1>5, <1>6, <1>7 DEF IInv

\* The loser of the compare-and-swap revokes the token only it holds.
LEMMA RevokeLoserIInv ==
    ASSUME IInv, NEW a \in ApproveSlots, ApproveRevoke(a)
    PROVE  IInv'
<1> USE LinkAssumption DEF IInv, tokenVars, history
<1>0. /\ approve[a].pc = "revoke"
      /\ active' = active \ {approve[a].token}
      /\ approve'[a] = ApproveIdle
      /\ \A b \in ApproveSlots : b # a => approve'[b] = approve[b]
      /\ UNCHANGED <<now, link, minted, owner, deny, poll, sweep, history, aborts>>
    BY DEF ApproveRevoke, revoke_daemon_token, TypeOK, ApproveState, ApproveInv
<1>1. TypeOK'
    BY <1>0 DEF TypeOK, ApproveState, ApproveRevoke, ApproveIdle,
        revoke_daemon_token
<1>2. ApproveInv'
    BY <1>0 DEF ApproveInv, ApproveIdle
<1>3. NoOrphanToken'
    BY <1>0 DEF NoOrphanToken, Approving, Revocable, ApproveIdle
<1>4. RowInv' /\ DenyInv' /\ TokenInv' /\ PollInv'
    BY <1>0 DEF RowInv, DenyInv, TokenInv, PollInv, PollMatches
<1>5. SweepInv' /\ AnswerInv' /\ ExpiredIsTrue'
    BY <1>0 DEF SweepInv, Uncollected, Expired, HasRow, AnswerInv, ExpiredIsTrue
<1> QED
    BY <1>1, <1>2, <1>3, <1>4, <1>5 DEF IInv

\* A token whose handler stops is counted as abandoned.
LEMMA ApproveAbortIInv ==
    ASSUME IInv, NEW a \in ApproveSlots, ApproveAbort(a)
    PROVE  IInv'
<1> USE LinkAssumption DEF IInv, tokenVars, history
<1>0. /\ abandoned' = abandoned \cup ({approve[a].token} \ {NONE})
      /\ approve'[a] = ApproveIdle
      /\ \A b \in ApproveSlots : b # a => approve'[b] = approve[b]
      /\ UNCHANGED <<now, link, tokenVars, deny, poll, sweep, handed, toldExpired>>
    BY DEF ApproveAbort, TypeOK
<1>1. TypeOK'
    BY <1>0 DEF TypeOK, ApproveState, ApproveAbort, ApproveIdle
<1>2. ApproveInv'
    BY <1>0 DEF ApproveInv, ApproveIdle
<1>3. NoOrphanToken'
    BY <1>0 DEF NoOrphanToken, Approving, Revocable, ApproveIdle, ApproveInv, TypeOK
<1>4. RowInv' /\ DenyInv' /\ TokenInv' /\ PollInv'
    BY <1>0 DEF RowInv, DenyInv, TokenInv, PollInv, PollMatches
<1>5. SweepInv' /\ AnswerInv' /\ ExpiredIsTrue'
    BY <1>0 DEF SweepInv, Uncollected, Expired, HasRow, AnswerInv, ExpiredIsTrue
<1> QED
    BY <1>1, <1>2, <1>3, <1>4, <1>5 DEF IInv

\* The SELECT of a deny only fills the slot.
LEMMA DenySelectIInv ==
    ASSUME IInv, NEW d \in DenySlots, NEW c \in Codes, NEW m \in Members, DenySelect(d, c, m)
    PROVE  IInv'
<1> USE LinkAssumption DEF IInv, tokenVars, history
<1>0. /\ deny'[d].pc \in {"revoke", "write"}
      /\ deny'[d].code = c /\ deny'[d].member = m
      /\ deny'[d].token = link[c].daemon_token_id
      /\ \A e \in DenySlots : e # d => deny'[e] = deny[e]
      /\ UNCHANGED <<now, link, tokenVars, approve, poll, sweep, history, aborts>>
    BY DEF DenySelect, TypeOK, DenyState
<1>1. TypeOK'
    BY <1>0 DEF TypeOK, DenyState, DbDeviceLink, DenySelect
<1>2. RowInv' /\ ApproveInv' /\ DenyInv' /\ TokenInv'
    BY <1>0 DEF RowInv, ApproveInv, DenyInv, TokenInv
<1>3. PollInv' /\ SweepInv' /\ NoOrphanToken' /\ AnswerInv'
    BY <1>0 DEF PollInv, PollMatches, SweepInv, Uncollected, Expired, HasRow,
        NoOrphanToken, Approving, Revocable, AnswerInv
<1>4. ExpiredIsTrue'
    BY <1>0 DEF ExpiredIsTrue
<1> QED
    BY <1>1, <1>2, <1>3, <1>4 DEF IInv

\* Revoking takes nothing the invariant needs.
LEMMA DenyRevokeIInv ==
    ASSUME IInv, NEW d \in DenySlots, DenyRevoke(d)
    PROVE  IInv'
<1> USE LinkAssumption DEF IInv, tokenVars, history
<1>0. /\ active' \subseteq active
      /\ deny[d].pc = "revoke"
      /\ deny'[d].pc = "write"
      /\ deny'[d].code = deny[d].code /\ deny'[d].member = deny[d].member
      /\ \A e \in DenySlots : e # d => deny'[e] = deny[e]
      /\ UNCHANGED <<now, link, minted, owner, approve, poll, sweep, history, aborts>>
    BY DEF DenyRevoke, revoke_daemon_token, TypeOK, DenyState
<1>1. TypeOK'
    BY <1>0 DEF TypeOK, DenyState, DenyRevoke
<1>2. RowInv' /\ ApproveInv' /\ DenyInv' /\ TokenInv'
    BY <1>0 DEF RowInv, ApproveInv, DenyInv, TokenInv
<1>3. PollInv' /\ SweepInv' /\ NoOrphanToken' /\ AnswerInv'
    BY <1>0 DEF PollInv, PollMatches, SweepInv, Uncollected, Expired, HasRow,
        NoOrphanToken, Approving, Revocable, AnswerInv
<1>4. ExpiredIsTrue'
    BY <1>0 DEF ExpiredIsTrue
<1> QED
    BY <1>1, <1>2, <1>3, <1>4 DEF IInv

\* A deny that stops leaves its statements and nothing else.
LEMMA DenyAbortIInv ==
    ASSUME IInv, NEW d \in DenySlots, DenyAbort(d)
    PROVE  IInv'
<1> USE LinkAssumption DEF IInv, tokenVars, history
<1>0. /\ deny'[d] = DenyIdle
      /\ \A e \in DenySlots : e # d => deny'[e] = deny[e]
      /\ UNCHANGED <<now, link, tokenVars, approve, poll, sweep, history>>
    BY DEF DenyAbort, TypeOK
<1>1. TypeOK'
    BY <1>0 DEF TypeOK, DenyState, DenyAbort, DenyIdle, ApproveIdle
<1>2. DenyInv'
    BY <1>0 DEF DenyInv, DenyIdle, ApproveIdle
<1>3. RowInv' /\ ApproveInv' /\ TokenInv' /\ PollInv'
    BY <1>0 DEF RowInv, ApproveInv, TokenInv, PollInv, PollMatches
<1>4. SweepInv' /\ NoOrphanToken' /\ AnswerInv' /\ ExpiredIsTrue'
    BY <1>0 DEF SweepInv, Uncollected, Expired, HasRow, NoOrphanToken, Approving,
        Revocable, AnswerInv, ExpiredIsTrue
<1> QED
    BY <1>1, <1>2, <1>3, <1>4 DEF IInv

\* A member may revoke a token at any time.
LEMMA MemberRevokeIInv ==
    ASSUME IInv, NEW t \in Tokens, NEW m \in Members, MemberRevoke(t, m)
    PROVE  IInv'
<1> USE LinkAssumption DEF IInv, tokenVars, history
<1>0. /\ active' \subseteq active
      /\ UNCHANGED <<now, link, minted, owner, approve, deny, poll, sweep, history, aborts>>
    BY DEF MemberRevoke, revoke_daemon_token
<1>1. TypeOK' /\ RowInv' /\ ApproveInv' /\ DenyInv'
    BY <1>0 DEF TypeOK, RowInv, ApproveInv, DenyInv
<1>2. TokenInv' /\ PollInv' /\ SweepInv' /\ NoOrphanToken'
    BY <1>0 DEF TokenInv, PollInv, PollMatches, SweepInv, Uncollected, Expired,
        HasRow, NoOrphanToken, Approving, Revocable
<1>3. AnswerInv' /\ ExpiredIsTrue'
    BY <1>0 DEF AnswerInv, ExpiredIsTrue
<1> QED
    BY <1>1, <1>2, <1>3 DEF IInv

\* A poll starts with the clock it read and no decision.
LEMMA PollStartIInv ==
    ASSUME IInv, NEW p \in PollSlots, NEW c \in Codes, PollStart(p, c)
    PROVE  IInv'
<1> USE LinkAssumption DEF IInv, tokenVars, history
<1>0. /\ link[c].status # "unissued"
      /\ poll'[p] = [pc |-> "load", code |-> c, now |-> now, round |-> 1]
      /\ \A q \in PollSlots : q # p => poll'[q] = poll[q]
      /\ UNCHANGED <<now, link, tokenVars, approve, deny, sweep, history, aborts>>
    BY DEF PollStart, TypeOK
<1>1. TypeOK'
    BY <1>0 DEF TypeOK, PollState, PollStart
<1>2. PollInv'
    BY <1>0 DEF PollInv, PollMatches, TypeOK
<1>3. RowInv' /\ ApproveInv' /\ DenyInv' /\ TokenInv'
    BY <1>0 DEF RowInv, ApproveInv, DenyInv, TokenInv
<1>4. SweepInv' /\ NoOrphanToken' /\ AnswerInv' /\ ExpiredIsTrue'
    BY <1>0 DEF SweepInv, Uncollected, Expired, HasRow, NoOrphanToken, Approving,
        Revocable, AnswerInv, ExpiredIsTrue
<1> QED
    BY <1>1, <1>2, <1>3, <1>4 DEF IInv

\* A poll that stops leaves its statements and nothing else.
LEMMA PollAbortIInv ==
    ASSUME IInv, NEW p \in PollSlots, PollAbort(p)
    PROVE  IInv'
<1> USE LinkAssumption DEF IInv, tokenVars, history
<1>0. /\ poll'[p] = PollIdle
      /\ \A q \in PollSlots : q # p => poll'[q] = poll[q]
      /\ UNCHANGED <<now, link, tokenVars, approve, deny, sweep, history>>
    BY DEF PollAbort, TypeOK
<1>1. TypeOK'
    BY <1>0 DEF TypeOK, PollState, PollAbort, PollIdle
<1>2. PollInv'
    BY <1>0 DEF PollInv, PollMatches, PollIdle
<1>3. RowInv' /\ ApproveInv' /\ DenyInv' /\ TokenInv'
    BY <1>0 DEF RowInv, ApproveInv, DenyInv, TokenInv
<1>4. SweepInv' /\ NoOrphanToken' /\ AnswerInv' /\ ExpiredIsTrue'
    BY <1>0 DEF SweepInv, Uncollected, Expired, HasRow, NoOrphanToken, Approving,
        Revocable, AnswerInv, ExpiredIsTrue
<1> QED
    BY <1>1, <1>2, <1>3, <1>4 DEF IInv

\* A pass starts with every uncollected row in its list.
LEMMA SweepSelectIInv ==
    ASSUME IInv, SweepSelect
    PROVE  IInv'
<1> USE LinkAssumption DEF IInv, tokenVars, history
<1>0. /\ sweep' = [pc |-> "revoke", cutoff |-> now,
                    todo |-> {<<link[c].member_id, link[c].daemon_token_id>> :
                                 c \in Uncollected(now)}]
      /\ UNCHANGED <<now, link, tokenVars, approve, deny, poll, history, aborts>>
    BY DEF SweepSelect
<1>1. TypeOK'
    BY <1>0 DEF TypeOK, SweepState, DbDeviceLink, Uncollected
<1>2. SweepInv'
    BY <1>0 DEF SweepInv, Uncollected, Expired, HasRow, TypeOK
<1>3. RowInv' /\ ApproveInv' /\ DenyInv' /\ TokenInv'
    BY <1>0 DEF RowInv, ApproveInv, DenyInv, TokenInv
<1>4. PollInv' /\ NoOrphanToken' /\ AnswerInv' /\ ExpiredIsTrue'
    BY <1>0 DEF PollInv, PollMatches, NoOrphanToken, Approving, Revocable,
        AnswerInv, ExpiredIsTrue
<1> QED
    BY <1>1, <1>2, <1>3, <1>4 DEF IInv

\* A row leaves the list with its token revoked: the row names the owner.
LEMMA SweepRevokeIInv ==
    ASSUME IInv, SweepRevoke
    PROVE  IInv'
<1> USE LinkAssumption DEF IInv, tokenVars, history
<1>0. /\ sweep.pc = "revoke"
      /\ \E row \in sweep.todo :
            /\ active' = IF owner[row[2]] = row[1] THEN active \ {row[2]} ELSE active
            /\ sweep' = [sweep EXCEPT !.todo = @ \ {row}]
      /\ UNCHANGED <<now, link, minted, owner, approve, deny, poll, history, aborts>>
    BY DEF SweepRevoke, revoke_daemon_token
<1>1. TypeOK'
    BY <1>0 DEF TypeOK, SweepState
<1>2. SweepInv'
    BY <1>0 DEF SweepInv, Uncollected, Expired, HasRow, TypeOK, SweepState, RowInv
<1>3. RowInv' /\ ApproveInv' /\ DenyInv' /\ TokenInv'
    BY <1>0 DEF RowInv, ApproveInv, DenyInv, TokenInv
<1>4. PollInv' /\ NoOrphanToken' /\ AnswerInv' /\ ExpiredIsTrue'
    BY <1>0 DEF PollInv, PollMatches, NoOrphanToken, Approving, Revocable,
        AnswerInv, ExpiredIsTrue
<1> QED
    BY <1>1, <1>2, <1>3, <1>4 DEF IInv

\* A pass that stops starts over.
LEMMA SweepAbortIInv ==
    ASSUME IInv, SweepAbort
    PROVE  IInv'
<1> USE LinkAssumption DEF IInv, tokenVars, history
<1>0. /\ sweep' = SweepIdle
      /\ UNCHANGED <<now, link, tokenVars, approve, deny, poll, history>>
    BY DEF SweepAbort
<1>1. TypeOK'
    BY <1>0 DEF TypeOK, SweepState, SweepIdle, SweepAbort
<1>2. SweepInv'
    BY <1>0 DEF SweepInv, Uncollected, Expired, HasRow, SweepIdle
<1>3. RowInv' /\ ApproveInv' /\ DenyInv' /\ TokenInv'
    BY <1>0 DEF RowInv, ApproveInv, DenyInv, TokenInv
<1>4. PollInv' /\ NoOrphanToken' /\ AnswerInv' /\ ExpiredIsTrue'
    BY <1>0 DEF PollInv, PollMatches, NoOrphanToken, Approving, Revocable,
        AnswerInv, ExpiredIsTrue
<1> QED
    BY <1>1, <1>2, <1>3, <1>4 DEF IInv

\* The compare-and-swap wins: the row was pending, so no poll has read it as
\* approved, and it expires after the cutoff of any pass in progress.
LEMMA ApproveWonIInv ==
    ASSUME IInv, NEW a \in ApproveSlots, NEW c \in Codes, c = approve[a].code,
           approve_device_link(a), LivePending(c)
    PROVE  IInv'
<1> USE LinkAssumption DEF IInv, tokenVars, history
<1>0. /\ approve[a].pc = "cas" /\ approve[a].token # NONE
      /\ link[c].status = "pending" /\ link[c].expires_at > now
      /\ link'[c].status = "approved" /\ link'[c].member_id = approve[a].member
      /\ link'[c].daemon_token_id = approve[a].token
      /\ link'[c].handover_token = approve[a].token
      /\ link'[c].expires_at = link[c].expires_at
      /\ link'[c].last_poll_at = link[c].last_poll_at
      /\ \A x \in Codes : x # c => link'[x] = link[x]
      /\ approve'[a] = ApproveIdle
      /\ \A b \in ApproveSlots : b # a => approve'[b] = approve[b]
      /\ UNCHANGED <<now, tokenVars, deny, poll, sweep, history, aborts>>
    BY DEF approve_device_link, LivePending, ApproveInv, TypeOK, DbDeviceLink, ApproveIdle
<1>1. TypeOK'
  <2>1. link' \in [Codes -> DbDeviceLink]
    BY <1>0 DEF TypeOK, DbDeviceLink, Status, ApproveInv, ApproveState, approve_device_link
  <2>2. approve' \in [ApproveSlots -> ApproveState]
    BY <1>0 DEF TypeOK, ApproveState, ApproveIdle, approve_device_link
  <2> QED
    BY <1>0, <2>1, <2>2 DEF TypeOK
<1>2. RowInv'
    BY <1>0 DEF RowInv, ApproveInv, TypeOK, DbDeviceLink
<1>3. ApproveInv'
    BY <1>0 DEF ApproveInv, ApproveIdle, TypeOK, ApproveState
<1>4. TokenInv'
    BY <1>0 DEF TokenInv, ApproveInv, TypeOK, DbDeviceLink
<1>5. SweepInv'
    BY <1>0 DEF SweepInv, Uncollected, Expired, HasRow, TypeOK, SweepState,
        DbDeviceLink
<1>6. NoOrphanToken'
    BY <1>0 DEF NoOrphanToken, Approving, Revocable, ApproveIdle, TypeOK, RowInv
<1>7. AnswerInv'
    BY <1>0 DEF AnswerInv, TypeOK
<1>8. ExpiredIsTrue'
    BY <1>0 DEF ExpiredIsTrue, TypeOK, DbDeviceLink
<1>9. DenyInv' /\ PollInv'
  <2>1. DenyInv'
    BY <1>0 DEF DenyInv
  <2>2. PollInv'
    BY <1>0, SMTT(30) DEF PollInv, PollMatches
  <2> QED
    BY <2>1, <2>2
<1> QED
    BY <1>1, <1>2, <1>3, <1>4, <1>5, <1>6, <1>7, <1>8, <1>9 DEF IInv

\* The compare-and-swap loses: the handler keeps its token to revoke it.
LEMMA ApproveLostIInv ==
    ASSUME IInv, NEW a \in ApproveSlots, approve_device_link(a), ~LivePending(approve[a].code)
    PROVE  IInv'
<1> USE LinkAssumption DEF IInv, tokenVars, history
<1>0. /\ approve[a].pc = "cas"
      /\ approve'[a].pc = "revoke" /\ approve'[a].code = approve[a].code
      /\ approve'[a].member = approve[a].member /\ approve'[a].token = approve[a].token
      /\ \A b \in ApproveSlots : b # a => approve'[b] = approve[b]
      /\ UNCHANGED <<now, link, tokenVars, deny, poll, sweep, history, aborts>>
    BY DEF approve_device_link, TypeOK, ApproveState
<1>1. TypeOK'
  <2>1. approve[a] \in ApproveState /\ approve' = [approve EXCEPT ![a].pc = "revoke"]
    BY DEF TypeOK, approve_device_link
  <2>2. [approve[a] EXCEPT !.pc = "revoke"] \in ApproveState
    BY <2>1 DEF ApproveState
  <2>3. approve' \in [ApproveSlots -> ApproveState]
    BY <2>1, <2>2 DEF TypeOK
  <2> QED
    BY <1>0, <2>3 DEF TypeOK
<1>2. RowInv' /\ ApproveInv' /\ DenyInv' /\ TokenInv'
    BY <1>0 DEF RowInv, ApproveInv, DenyInv, TokenInv
<1>3. PollInv' /\ SweepInv' /\ NoOrphanToken' /\ AnswerInv'
    BY <1>0 DEF PollInv, PollMatches, SweepInv, Uncollected, Expired, HasRow,
        NoOrphanToken, Approving, Revocable, AnswerInv
<1>4. ExpiredIsTrue'
    BY <1>0 DEF ExpiredIsTrue
<1> QED
    BY <1>1, <1>2, <1>3, <1>4 DEF IInv

\* Either way the compare-and-swap keeps the invariant.
LEMMA ApproveIInv ==
    ASSUME IInv, NEW a \in ApproveSlots, approve_device_link(a)
    PROVE  IInv'
<1>1. approve[a].code \in Codes
    BY DEF IInv, ApproveInv, approve_device_link
<1>2. CASE LivePending(approve[a].code)
    BY <1>1, <1>2, ApproveWonIInv
<1>3. CASE ~LivePending(approve[a].code)
    BY <1>3, ApproveLostIInv
<1> QED
    BY <1>2, <1>3

\* The deny finds the row still deniable: it is live, so no pass counts on it,
\* and its token has not been handed over.
LEMMA DenyWonIInv ==
    ASSUME IInv, NEW d \in DenySlots, NEW c \in Codes, c = deny[d].code,
           DenyWrite(d), Deniable(c, deny[d].member)
    PROVE  IInv'
<1> USE LinkAssumption DEF IInv, tokenVars, history
<1>0. /\ link[c].status \in {"pending", "approved"} /\ link[c].expires_at > now
      /\ link'[c].status = "denied" /\ link'[c].handover_token = NONE
      /\ link'[c].member_id = link[c].member_id
      /\ link'[c].daemon_token_id = link[c].daemon_token_id
      /\ link'[c].expires_at = link[c].expires_at
      /\ link'[c].last_poll_at = link[c].last_poll_at
      /\ \A x \in Codes : x # c => link'[x] = link[x]
      /\ deny'[d] = DenyIdle
      /\ \A e \in DenySlots : e # d => deny'[e] = deny[e]
      /\ UNCHANGED <<now, tokenVars, approve, poll, sweep, history, aborts>>
    BY DEF DenyWrite, Deniable, TypeOK, DbDeviceLink
<1>1. TypeOK'
  <2>1. link' \in [Codes -> DbDeviceLink]
    BY <1>0 DEF TypeOK, DbDeviceLink, Status, DenyWrite
  <2>2. deny' \in [DenySlots -> DenyState]
    BY <1>0 DEF TypeOK, DenyState, DenyIdle, ApproveIdle, DenyWrite
  <2> QED
    BY <1>0, <2>1, <2>2 DEF TypeOK
<1>2. DenyInv'
    BY <1>0 DEF DenyInv, DenyIdle, ApproveIdle
<1>3. TokenInv'
    BY <1>0 DEF TokenInv, RowInv
<1>4. SweepInv'
    BY <1>0 DEF SweepInv, Uncollected, Expired, HasRow, TypeOK, SweepState,
        DbDeviceLink
<1>5. NoOrphanToken'
    BY <1>0 DEF NoOrphanToken, Approving, Revocable, TypeOK, RowInv
<1>6. AnswerInv'
    BY <1>0 DEF AnswerInv, TypeOK
<1>7. ExpiredIsTrue'
    BY <1>0 DEF ExpiredIsTrue, TypeOK, DbDeviceLink
<1>8. RowInv' /\ ApproveInv' /\ PollInv'
  <2>1. RowInv'
    BY <1>0 DEF RowInv
  <2>2. ApproveInv'
    BY <1>0 DEF ApproveInv
  <2>3. PollInv'
    BY <1>0, SMTT(30) DEF PollInv, PollMatches
  <2> QED
    BY <2>1, <2>2, <2>3
<1> QED
    BY <1>1, <1>2, <1>3, <1>4, <1>5, <1>6, <1>7, <1>8 DEF IInv

\* The deny finds nothing left to deny.
LEMMA DenyLostIInv ==
    ASSUME IInv, NEW d \in DenySlots, DenyWrite(d), ~Deniable(deny[d].code, deny[d].member)
    PROVE  IInv'
<1> USE LinkAssumption DEF IInv, tokenVars, history
<1>0. /\ deny'[d] = DenyIdle
      /\ \A e \in DenySlots : e # d => deny'[e] = deny[e]
      /\ UNCHANGED <<now, link, tokenVars, approve, poll, sweep, history, aborts>>
    BY DEF DenyWrite, TypeOK
<1>1. TypeOK'
    BY <1>0 DEF TypeOK, DenyState, DenyWrite, DenyIdle, ApproveIdle
<1>2. DenyInv'
    BY <1>0 DEF DenyInv, DenyIdle, ApproveIdle
<1>3. RowInv' /\ ApproveInv' /\ TokenInv' /\ PollInv'
    BY <1>0 DEF RowInv, ApproveInv, TokenInv, PollInv, PollMatches
<1>4. SweepInv' /\ NoOrphanToken' /\ AnswerInv' /\ ExpiredIsTrue'
    BY <1>0 DEF SweepInv, Uncollected, Expired, HasRow, NoOrphanToken, Approving,
        Revocable, AnswerInv, ExpiredIsTrue
<1> QED
    BY <1>1, <1>2, <1>3, <1>4 DEF IInv

\* Either way the write of a deny keeps the invariant.
LEMMA DenyWriteIInv ==
    ASSUME IInv, NEW d \in DenySlots, DenyWrite(d)
    PROVE  IInv'
<1>1. deny[d].code \in Codes
    BY DEF IInv, DenyInv, DenyWrite
<1>2. CASE Deniable(deny[d].code, deny[d].member)
    BY <1>1, <1>2, DenyWonIInv
<1>3. CASE ~Deniable(deny[d].code, deny[d].member)
    BY <1>3, DenyLostIInv
<1> QED
    BY <1>2, <1>3

\* The secrets of the rows the pass has dealt with are cleared: their tokens
\* are revoked, so a poll that finds no secret loses nothing.
LEMMA SweepClearIInv ==
    ASSUME IInv, SweepClear
    PROVE  IInv'
<1> USE LinkAssumption DEF IInv, tokenVars, history
<1>0. /\ sweep.pc = "revoke" /\ sweep.todo = {}
      /\ sweep' = [sweep EXCEPT !.pc = "delete"]
      /\ \A c \in Codes :
            /\ link'[c].status = link[c].status /\ link'[c].member_id = link[c].member_id
            /\ link'[c].daemon_token_id = link[c].daemon_token_id
            /\ link'[c].expires_at = link[c].expires_at
            /\ link'[c].last_poll_at = link[c].last_poll_at
            /\ \/ link'[c].handover_token = link[c].handover_token
               \/ link'[c].handover_token = NONE /\ Expired(c, sweep.cutoff)
      /\ UNCHANGED <<now, tokenVars, approve, deny, poll, history, aborts>>
    BY DEF SweepClear, TypeOK, DbDeviceLink
<1>1. TypeOK'
    BY <1>0, SMTT(30) DEF TypeOK, SweepState, DbDeviceLink, SweepClear
<1>2. RowInv'
    BY <1>0 DEF RowInv, SweepInv, Uncollected
<1>3. SweepInv'
    BY <1>0 DEF SweepInv, Uncollected, Expired, HasRow, TypeOK, SweepState
<1>4. AnswerInv'
    BY <1>0 DEF AnswerInv, TypeOK
<1>5. ExpiredIsTrue'
    BY <1>0 DEF ExpiredIsTrue, TypeOK
<1>6. ApproveInv' /\ DenyInv' /\ TokenInv' /\ PollInv'
    BY <1>0 DEF ApproveInv, DenyInv, TokenInv, PollInv, PollMatches
<1>7. NoOrphanToken'
    BY <1>0 DEF NoOrphanToken, Approving, Revocable
<1> QED
    BY <1>1, <1>2, <1>3, <1>4, <1>5, <1>6, <1>7 DEF IInv

\* Only rows whose token is no longer active, or was collected, are deleted.
LEMMA SweepDeleteIInv ==
    ASSUME IInv, SweepDelete
    PROVE  IInv'
<1> USE LinkAssumption DEF IInv, tokenVars, history
<1>0. /\ sweep.pc = "delete"
      /\ sweep' = SweepIdle
      /\ \A c \in Codes : link'[c] = IF Expired(c, sweep.cutoff)
                                       THEN NoRow("deleted") ELSE link[c]
      /\ UNCHANGED <<now, tokenVars, approve, deny, poll, history, aborts>>
    BY DEF SweepDelete
<1>1. TypeOK'
    BY <1>0 DEF TypeOK, SweepState, DbDeviceLink, Status, SweepDelete, NoRow,
        SweepIdle
<1>2. RowInv'
    BY <1>0 DEF RowInv, NoRow
<1>3. ApproveInv'
    BY <1>0 DEF ApproveInv, NoRow, TypeOK, ApproveState
<1>4. TokenInv'
    BY <1>0 DEF TokenInv, NoRow
<1>5. PollInv'
    BY <1>0 DEF PollInv, PollMatches, NoRow
<1>6. SweepInv'
    BY <1>0 DEF SweepInv, Uncollected, Expired, HasRow, SweepIdle
<1>7. NoOrphanToken'
    BY <1>0 DEF NoOrphanToken, Approving, Revocable, NoRow, SweepInv, Uncollected,
        RowInv, TypeOK
<1>8. AnswerInv'
    BY <1>0 DEF AnswerInv, TypeOK, NoRow
<1>9. ExpiredIsTrue'
    BY <1>0 DEF ExpiredIsTrue, TypeOK, NoRow
<1>10. DenyInv'
    BY <1>0 DEF DenyInv
<1> QED
    BY <1>1, <1>2, <1>3, <1>4, <1>5, <1>6, <1>7, <1>8, <1>9, <1>10 DEF IInv

\* A poll that answers without a write may say "expired" only for a code that
\* can no longer be approved.
LEMMA PollAnsweredIInv ==
    ASSUME IInv, NEW p \in PollSlots, poll[p].pc # "idle",
           poll' = [poll EXCEPT ![p] = PollIdle],
           \/ toldExpired' = toldExpired
           \/ /\ toldExpired' = toldExpired \cup {poll[p].code}
              /\ \/ link[poll[p].code].status \notin {"pending", "approved"}
                 \/ link[poll[p].code].expires_at <= now,
           UNCHANGED <<now, link, tokenVars, approve, deny, sweep, handed, abandoned, aborts>>
    PROVE  IInv'
<1> USE LinkAssumption DEF IInv, tokenVars, history
<1>0. /\ poll'[p] = PollIdle
      /\ poll[p].code \in Codes /\ link[poll[p].code].status # "unissued"
      /\ \A q \in PollSlots : q # p => poll'[q] = poll[q]
      /\ UNCHANGED <<now, link, tokenVars, approve, deny, sweep, handed, abandoned, aborts>>
    BY DEF TypeOK, PollInv
<1>1. TypeOK'
    BY <1>0 DEF TypeOK, PollState, PollIdle
<1>2. PollInv'
    BY <1>0 DEF PollInv, PollMatches, PollIdle
<1>3. RowInv' /\ ApproveInv' /\ DenyInv' /\ TokenInv'
    BY <1>0 DEF RowInv, ApproveInv, DenyInv, TokenInv
<1>4. SweepInv' /\ NoOrphanToken' /\ AnswerInv' /\ ExpiredIsTrue'
    BY <1>0 DEF SweepInv, Uncollected, Expired, HasRow, NoOrphanToken, Approving,
        Revocable, AnswerInv, ExpiredIsTrue
<1> QED
    BY <1>1, <1>2, <1>3, <1>4 DEF IInv

\* A poll that goes on to a write relies on what it read: an approved row
\* keeps matching until somebody claims it, and the second round cannot find the
\* row pending and due.
LEMMA PollReadsIInv ==
    ASSUME IInv, NEW p \in PollSlots, poll[p].pc = "load",
           HasRow(poll[p].code),
           ~is_expired(link[poll[p].code], poll[p].now),
           link[poll[p].code].status # "consumed",
           ~polled_too_fast(link[poll[p].code], poll[p].now),
           poll' = [poll EXCEPT ![p].pc = link[poll[p].code].status],
           toldExpired' = toldExpired,
           UNCHANGED <<now, link, tokenVars, approve, deny, sweep, handed, abandoned, aborts>>
    PROVE  IInv'
<1> USE LinkAssumption DEF IInv, tokenVars, history
<1>0. /\ poll'[p].pc = link[poll[p].code].status
      /\ link[poll[p].code].status \in {"pending", "approved", "denied"}
      /\ poll'[p].code = poll[p].code /\ poll'[p].now = poll[p].now
      /\ poll'[p].round = poll[p].round /\ poll[p].pc = "load"
      /\ link[poll[p].code].expires_at > poll[p].now
      /\ link[poll[p].code].last_poll_at # NONE =>
            link[poll[p].code].last_poll_at <= poll[p].now - Interval
      /\ \A q \in PollSlots : q # p => poll'[q] = poll[q]
      /\ UNCHANGED <<now, link, tokenVars, approve, deny, sweep, history, aborts>>
    BY DEF TypeOK, PollState, PollInv, DbDeviceLink, HasRow, is_expired, polled_too_fast
<1>1. TypeOK'
    BY <1>0 DEF TypeOK, PollState
<1>2. PollInv'
    BY <1>0, SMTT(30) DEF PollInv, PollMatches, TypeOK, PollState, DbDeviceLink
<1>3. RowInv' /\ ApproveInv' /\ DenyInv' /\ TokenInv'
    BY <1>0 DEF RowInv, ApproveInv, DenyInv, TokenInv
<1>4. SweepInv' /\ NoOrphanToken' /\ AnswerInv' /\ ExpiredIsTrue'
    BY <1>0 DEF SweepInv, Uncollected, Expired, HasRow, NoOrphanToken, Approving,
        Revocable, AnswerInv, ExpiredIsTrue
<1> QED
    BY <1>1, <1>2, <1>3, <1>4 DEF IInv

\* The load of a poll, by the branch it takes.
LEMMA PollLoadIInv ==
    ASSUME IInv, NEW p \in PollSlots, PollLoad(p)
    PROVE  IInv'
<1> DEFINE c == poll[p].code
           row == link[c]
           t == poll[p].now
<1>0. /\ poll[p].pc = "load" /\ c \in Codes /\ t <= now
      /\ t \in Nat /\ now \in Nat /\ row.expires_at \in Nat
      /\ UNCHANGED <<now, link, tokenVars, approve, deny, sweep, handed, abandoned, aborts>>
    BY DEF PollLoad, IInv, PollInv, TypeOK, PollState, DbDeviceLink
<1>1. CASE ~HasRow(c) \/ is_expired(row, t) \/ row.status = "consumed"
  <2>1. \/ row.status \notin {"pending", "approved"}
        \/ row.expires_at <= now
    BY <1>0, <1>1 DEF HasRow, is_expired
  <2>2. /\ poll' = [poll EXCEPT ![p] = PollIdle]
        /\ toldExpired' = toldExpired \cup {c}
    BY <1>1 DEF PollLoad, Answer
  <2> QED
    BY <1>0, <2>1, <2>2, PollAnsweredIInv
<1>2. CASE /\ HasRow(c) /\ ~is_expired(row, t) /\ row.status # "consumed"
           /\ polled_too_fast(row, t)
  <2>1. /\ poll' = [poll EXCEPT ![p] = PollIdle]
        /\ toldExpired' = toldExpired
    BY <1>2 DEF PollLoad, Answer
  <2> QED
    BY <1>0, <2>1, PollAnsweredIInv
<1>3. CASE /\ HasRow(c) /\ ~is_expired(row, t) /\ row.status # "consumed"
           /\ ~polled_too_fast(row, t)
  <2>1. /\ poll' = [poll EXCEPT ![p].pc = row.status]
        /\ toldExpired' = toldExpired
    BY <1>3 DEF PollLoad
  <2> QED
    BY <1>0, <1>3, <2>1, PollReadsIInv
<1> QED
    BY <1>1, <1>2, <1>3

\* A poll goes round the loop once more only when the row moved on, or an
\* accepted poll has just touched it.
LEMMA PollAgainIInv ==
    ASSUME IInv, NEW p \in PollSlots, poll[p].pc # "idle", poll[p].round = 1,
           poll' = [poll EXCEPT ![p].pc = "load", ![p].round = 2],
           link[poll[p].code].status = "pending" =>
                /\ link[poll[p].code].last_poll_at # NONE
                /\ link[poll[p].code].last_poll_at > poll[p].now - Interval,
           toldExpired' = toldExpired,
           UNCHANGED <<now, link, tokenVars, approve, deny, sweep, handed, abandoned, aborts>>
    PROVE  IInv'
<1> USE LinkAssumption DEF IInv, tokenVars, history
<1>0. /\ poll[p].pc # "idle" /\ poll'[p].pc = "load" /\ poll'[p].round = 2
      /\ poll'[p].code = poll[p].code /\ poll'[p].now = poll[p].now
      /\ \A q \in PollSlots : q # p => poll'[q] = poll[q]
      /\ UNCHANGED <<now, link, tokenVars, approve, deny, sweep, history, aborts>>
    BY DEF TypeOK, PollState
<1>1. TypeOK'
    BY <1>0 DEF TypeOK, PollState
<1>2. PollInv'
    BY <1>0, SMTT(30) DEF PollInv, PollMatches, TypeOK, PollState
<1>3. RowInv' /\ ApproveInv' /\ DenyInv' /\ TokenInv'
    BY <1>0 DEF RowInv, ApproveInv, DenyInv, TokenInv
<1>4. SweepInv' /\ NoOrphanToken' /\ AnswerInv' /\ ExpiredIsTrue'
    BY <1>0 DEF SweepInv, Uncollected, Expired, HasRow, NoOrphanToken, Approving,
        Revocable, AnswerInv, ExpiredIsTrue
<1> QED
    BY <1>1, <1>2, <1>3, <1>4 DEF IInv

\* An accepted poll moves last_poll_at forward, past every poll that lost.
LEMMA TouchedIInv ==
    ASSUME IInv, NEW p \in PollSlots, NEW c \in Codes, c = poll[p].code,
           touch_poll(p), PollMatches(p, poll[p].pc)
    PROVE  IInv'
<1> USE LinkAssumption DEF IInv, tokenVars, history
<1>0. /\ poll[p].pc \in {"pending", "denied"} /\ link[c].status = poll[p].pc
      /\ link[c].last_poll_at # NONE => link[c].last_poll_at <= poll[p].now - Interval
      /\ link'[c].last_poll_at = poll[p].now /\ poll[p].now \in Nat
      /\ link'[c].status = link[c].status /\ link'[c].member_id = link[c].member_id
      /\ link'[c].daemon_token_id = link[c].daemon_token_id
      /\ link'[c].handover_token = link[c].handover_token
      /\ link'[c].expires_at = link[c].expires_at
      /\ \A x \in Codes : x # c => link'[x] = link[x]
      /\ poll'[p] = PollIdle
      /\ \A q \in PollSlots : q # p => poll'[q] = poll[q]
      /\ UNCHANGED <<now, tokenVars, approve, deny, sweep, history, aborts>>
    BY DEF touch_poll, PollMatches, Answer, TypeOK, DbDeviceLink, PollState
<1>1. TypeOK'
  <2>1. link' \in [Codes -> DbDeviceLink]
    BY <1>0 DEF TypeOK, DbDeviceLink, touch_poll
  <2>2. poll' \in [PollSlots -> PollState]
    BY <1>0 DEF TypeOK, PollState, PollIdle, touch_poll, Answer
  <2> QED
    BY <1>0, <2>1, <2>2 DEF TypeOK
<1>2. PollInv'
    BY <1>0, SMTT(30) DEF PollInv, PollMatches, PollIdle, TypeOK, PollState, DbDeviceLink
<1>3. AnswerInv'
    BY <1>0 DEF AnswerInv, TypeOK
<1>4. ExpiredIsTrue'
    BY <1>0 DEF ExpiredIsTrue, TypeOK
<1>5. RowInv' /\ ApproveInv' /\ DenyInv' /\ TokenInv'
    BY <1>0, SMTT(30) DEF RowInv, ApproveInv, DenyInv, TokenInv
<1>6. SweepInv' /\ NoOrphanToken'
    BY <1>0 DEF SweepInv, Uncollected, Expired, HasRow, NoOrphanToken, Approving,
        Revocable
<1> QED
    BY <1>1, <1>2, <1>3, <1>4, <1>5, <1>6 DEF IInv

\* touch_poll, matched or not.
LEMMA TouchIInv ==
    ASSUME IInv, NEW p \in PollSlots, touch_poll(p)
    PROVE  IInv'
<1> USE DEF IInv
<1>0. /\ poll[p].pc \in {"pending", "denied"} /\ poll[p].code \in Codes
      /\ poll[p].now \in Nat
    BY DEF touch_poll, PollInv, TypeOK, PollState
<1>1. CASE PollMatches(p, poll[p].pc)
    BY <1>0, <1>1, TouchedIInv
<1>2. CASE ~PollMatches(p, poll[p].pc)
  <2>0. UNCHANGED <<now, link, tokenVars, approve, deny, sweep, handed, abandoned, aborts>>
    BY <1>2 DEF touch_poll
  <2>1. CASE poll[p].pc = "denied"
    <3>1. poll' = [poll EXCEPT ![p] = PollIdle] /\ toldExpired' = toldExpired
      BY <1>2, <2>1 DEF touch_poll, Answer
    <3> QED
      BY <2>0, <2>1, <3>1, PollAnsweredIInv
  <2>2. CASE poll[p].pc = "pending"
    <3>1. poll[p].round = 1
      BY <2>2 DEF PollInv
    <3>2. /\ poll' = [poll EXCEPT ![p].pc = "load", ![p].round = 2]
          /\ toldExpired' = toldExpired
      BY <1>2, <2>2, <3>1 DEF touch_poll, PollLost
    <3>3. link[poll[p].code].status = "pending" =>
            /\ link[poll[p].code].last_poll_at # NONE
            /\ link[poll[p].code].last_poll_at > poll[p].now - Interval
      BY <1>0, <1>2, <2>2, LinkAssumption DEF PollInv, PollMatches, TypeOK, DbDeviceLink
    <3> QED
      BY <2>0, <2>2, <3>1, <3>2, <3>3, PollAgainIInv
  <2> QED
    BY <1>0, <2>1, <2>2
<1> QED
    BY <1>1, <1>2

\* A consumed row keeps the shape of its type.
LEMMA ConsumedRowTyped ==
    ASSUME TypeOK, NEW c \in Codes, NEW n \in Nat,
           link' = [link EXCEPT ![c].status = "consumed", ![c].handover_token = NONE,
                                ![c].last_poll_at = n]
    PROVE  link' \in [Codes -> DbDeviceLink]
<1>1. link \in [Codes -> DbDeviceLink] /\ link[c] \in DbDeviceLink
  BY DEF TypeOK
<1>2. [link[c] EXCEPT !.status = "consumed", !.handover_token = NONE,
                      !.last_poll_at = n] \in DbDeviceLink
  BY <1>1 DEF DbDeviceLink, Status
<1> QED BY <1>1, <1>2

\* The poll that claims a row collects the secret of that row alone, and the
\* first time.
LEMMA CollectedIInv ==
    ASSUME IInv, NEW p \in PollSlots, NEW c \in Codes, c = poll[p].code,
           consume_approved(p), PollMatches(p, "approved"),
           link[c].handover_token # NONE
    PROVE  IInv'
<1> USE LinkAssumption DEF IInv, tokenVars, history
<1>0. /\ poll[p].pc = "approved" /\ link[c].status = "approved"
      /\ poll[p].now \in Nat
      /\ link'[c].status = "consumed" /\ link'[c].handover_token = NONE
      /\ link'[c].member_id = link[c].member_id
      /\ link'[c].daemon_token_id = link[c].daemon_token_id
      /\ link'[c].expires_at = link[c].expires_at
      /\ link'[c].last_poll_at = poll[p].now
      /\ \A x \in Codes : x # c => link'[x] = link[x]
      /\ poll'[p] = PollIdle
      /\ \A q \in PollSlots : q # p => poll'[q] = poll[q]
      /\ link[c].handover_token \in Tokens /\ link[c].daemon_token_id = link[c].handover_token
      /\ handed[link[c].handover_token] = 0 /\ handed'[link[c].handover_token] = 1
      /\ \A t \in Tokens : t # link[c].handover_token => handed'[t] = handed[t]
      /\ UNCHANGED <<now, tokenVars, approve, deny, sweep, toldExpired, abandoned, aborts>>
  <2>1. /\ poll[p].pc = "approved" /\ link[c].status = "approved"
        /\ poll[p].now \in Nat /\ link[c] \in DbDeviceLink
    BY DEF consume_approved, PollMatches, TypeOK, PollState
  <2>2. /\ link[c].handover_token \in Tokens
        /\ link[c].daemon_token_id = link[c].handover_token
        /\ handed[link[c].handover_token] = 0
    BY <2>1 DEF RowInv, TokenInv, DbDeviceLink
  <2>3. /\ link' = [link EXCEPT ![c].status = "consumed", ![c].handover_token = NONE,
                                ![c].last_poll_at = poll[p].now]
        /\ handed' = [handed EXCEPT ![link[c].handover_token] = @ + 1]
        /\ poll' = [poll EXCEPT ![p] = PollIdle]
        /\ UNCHANGED <<now, tokenVars, approve, deny, sweep, toldExpired, abandoned, aborts>>
    BY DEF consume_approved, Answer
  <2>4. /\ handed'[link[c].handover_token] = 1
        /\ \A t \in Tokens : t # link[c].handover_token => handed'[t] = handed[t]
    BY <2>2, <2>3 DEF TypeOK
  <2>5. /\ poll'[p] = PollIdle
        /\ \A q \in PollSlots : q # p => poll'[q] = poll[q]
    BY <2>3 DEF TypeOK
  <2>6. /\ link'[c].status = "consumed" /\ link'[c].handover_token = NONE
        /\ link'[c].member_id = link[c].member_id
        /\ link'[c].daemon_token_id = link[c].daemon_token_id
        /\ link'[c].expires_at = link[c].expires_at
        /\ link'[c].last_poll_at = poll[p].now
        /\ \A x \in Codes : x # c => link'[x] = link[x]
    BY <2>1, <2>3 DEF TypeOK, DbDeviceLink
  <2> QED
    BY <2>1, <2>2, <2>3, <2>4, <2>5, <2>6
<1>1. TypeOK'
  <2>1. link' \in [Codes -> DbDeviceLink]
    <3>1. link' = [link EXCEPT ![c].status = "consumed", ![c].handover_token = NONE,
                               ![c].last_poll_at = poll[p].now]
      BY DEF consume_approved
    <3>2. TypeOK /\ poll[p].now \in Nat
      BY <1>0
    <3> QED
      BY <3>1, <3>2, ConsumedRowTyped, Zenon
  <2>2. poll' \in [PollSlots -> PollState]
    BY <1>0, SMTT(30) DEF TypeOK, PollState, PollIdle, Answer, consume_approved
  <2>3. handed' \in [Tokens -> Nat]
    BY <1>0 DEF TypeOK, consume_approved
  <2> QED
    BY <1>0, <2>1, <2>2, <2>3 DEF TypeOK
<1>2. ApproveInv'
    BY <1>0 DEF ApproveInv, TypeOK, ApproveState
<1>3. TokenInv'
    BY <1>0 DEF TokenInv, RowInv, TypeOK, DbDeviceLink
<1>4. PollInv'
  <2>1. ASSUME NEW q \in PollSlots, q # p, poll[q].pc # "idle", poll[q].code # c
        PROVE  poll'[q] = poll[q] /\ link'[poll[q].code] = link[poll[q].code]
    BY <1>0, <2>1 DEF PollInv
  <2>2. poll'[p].pc = "idle"
    BY <1>0 DEF PollIdle
  <2> QED
    BY <1>0, <2>1, <2>2, SMTT(30) DEF PollInv, PollMatches
<1>5. NoOrphanToken'
    BY <1>0 DEF NoOrphanToken, Approving, Revocable, TypeOK, TokenInv
<1>6. AnswerInv'
    BY <1>0 DEF AnswerInv, TypeOK
<1>7. ExpiredIsTrue'
    BY <1>0 DEF ExpiredIsTrue, TypeOK
<1>8. RowInv' /\ DenyInv' /\ SweepInv'
    BY <1>0, SMTT(30) DEF RowInv, DenyInv, SweepInv, Uncollected, Expired, HasRow
<1> QED
    BY <1>1, <1>2, <1>3, <1>4, <1>5, <1>6, <1>7, <1>8 DEF IInv

\* A row claimed without a secret has a token that is no longer active.
LEMMA EmptyIInv ==
    ASSUME IInv, NEW p \in PollSlots, NEW c \in Codes, c = poll[p].code,
           consume_approved(p), PollMatches(p, "approved"),
           link[c].handover_token = NONE
    PROVE  IInv'
<1> USE LinkAssumption DEF IInv, tokenVars, history
<1>0. /\ poll[p].pc = "approved" /\ link[c].status = "approved"
      /\ poll[p].now \in Nat
      /\ link'[c].status = "consumed" /\ link'[c].handover_token = NONE
      /\ link'[c].member_id = link[c].member_id
      /\ link'[c].daemon_token_id = link[c].daemon_token_id
      /\ link'[c].expires_at = link[c].expires_at
      /\ link'[c].last_poll_at = poll[p].now
      /\ \A x \in Codes : x # c => link'[x] = link[x]
      /\ poll'[p] = PollIdle
      /\ \A q \in PollSlots : q # p => poll'[q] = poll[q]
      /\ link[c].daemon_token_id \notin active
      /\ toldExpired' = toldExpired \cup {c}
      /\ UNCHANGED <<now, tokenVars, approve, deny, sweep, handed, abandoned, aborts>>
    BY DEF consume_approved, PollMatches, Answer, TypeOK, DbDeviceLink, PollState, RowInv
<1>1. TypeOK'
  <2>1. link' \in [Codes -> DbDeviceLink]
    BY <1>0 DEF TypeOK, DbDeviceLink, Status, consume_approved
  <2>2. poll' \in [PollSlots -> PollState]
    BY <1>0 DEF TypeOK, PollState, PollIdle, Answer, consume_approved
  <2> QED
    BY <1>0, <2>1, <2>2 DEF TypeOK
<1>2. PollInv'
    BY <1>0, SMTT(30) DEF PollInv, PollMatches, PollIdle
<1>3. NoOrphanToken'
    BY <1>0 DEF NoOrphanToken, Approving, Revocable, TypeOK
<1>4. AnswerInv'
    BY <1>0 DEF AnswerInv, TypeOK
<1>5. ExpiredIsTrue'
    BY <1>0 DEF ExpiredIsTrue, TypeOK
<1>6. RowInv' /\ ApproveInv' /\ DenyInv' /\ TokenInv'
    BY <1>0 DEF RowInv, ApproveInv, DenyInv, TokenInv
<1>7. SweepInv'
    BY <1>0 DEF SweepInv, Uncollected, Expired, HasRow
<1> QED
    BY <1>1, <1>2, <1>3, <1>4, <1>5, <1>6, <1>7 DEF IInv

\* consume_approved, claimed or lost.
LEMMA ConsumeIInv ==
    ASSUME IInv, NEW p \in PollSlots, consume_approved(p)
    PROVE  IInv'
<1> USE DEF IInv
<1>0. /\ poll[p].pc = "approved" /\ poll[p].code \in Codes
      /\ poll[p].round \in {1, 2}
    BY DEF consume_approved, PollInv
<1>1. CASE PollMatches(p, "approved")
    BY <1>0, <1>1, CollectedIInv, EmptyIInv
<1>2. CASE ~PollMatches(p, "approved")
  <2>0. /\ PollLost(p)
        /\ UNCHANGED <<now, link, tokenVars, approve, deny, sweep, handed, abandoned, aborts>>
    BY <1>2 DEF consume_approved
  <2>1. link[poll[p].code].status \notin {"pending", "approved"}
    BY <1>0, <1>2 DEF PollInv
  <2>2. CASE poll[p].round = 1
    <3>1. /\ poll' = [poll EXCEPT ![p].pc = "load", ![p].round = 2]
          /\ toldExpired' = toldExpired
      BY <2>0, <2>2 DEF PollLost
    <3> QED
      BY <1>0, <2>0, <2>1, <2>2, <3>1, PollAgainIInv
  <2>3. CASE poll[p].round = 2
    <3>1. /\ poll' = [poll EXCEPT ![p] = PollIdle]
          /\ toldExpired' = toldExpired \cup {poll[p].code}
      BY <2>0, <2>3 DEF PollLost, Answer
    <3> QED
      BY <1>0, <2>0, <2>1, <3>1, PollAnsweredIInv
  <2> QED
    BY <1>0, <2>2, <2>3
<1> QED
    BY <1>1, <1>2

\* A claim whose answer is lost leaves its token counted as abandoned.
LEMMA AnswerLostIInv ==
    ASSUME IInv, NEW p \in PollSlots, NEW c \in Codes, c = poll[p].code,
           ConsumeAnswerLost(p)
    PROVE  IInv'
<1> USE LinkAssumption DEF IInv, tokenVars, history
<1>0. /\ poll[p].pc = "approved" /\ link[c].status = "approved"
      /\ poll[p].now \in Nat
      /\ link'[c].status = "consumed" /\ link'[c].handover_token = NONE
      /\ link'[c].member_id = link[c].member_id
      /\ link'[c].daemon_token_id = link[c].daemon_token_id
      /\ link'[c].expires_at = link[c].expires_at
      /\ link'[c].last_poll_at = poll[p].now
      /\ \A x \in Codes : x # c => link'[x] = link[x]
      /\ poll'[p] = PollIdle
      /\ \A q \in PollSlots : q # p => poll'[q] = poll[q]
      /\ link[c].handover_token = NONE => link[c].daemon_token_id \notin active
      /\ link[c].handover_token # NONE => link[c].daemon_token_id = link[c].handover_token
      /\ abandoned' = abandoned \cup ({link[c].handover_token} \ {NONE})
      /\ UNCHANGED <<now, tokenVars, approve, deny, sweep, handed, toldExpired>>
    BY DEF ConsumeAnswerLost, PollMatches, Answer, TypeOK, DbDeviceLink, PollState, RowInv
<1>1. TypeOK'
  <2>1. link' \in [Codes -> DbDeviceLink]
    <3>1. link' = [link EXCEPT ![c].status = "consumed", ![c].handover_token = NONE,
                               ![c].last_poll_at = poll[p].now]
      BY DEF ConsumeAnswerLost
    <3>2. TypeOK /\ poll[p].now \in Nat
      BY <1>0
    <3> QED
      BY <3>1, <3>2, ConsumedRowTyped, Zenon
  <2>2. poll' \in [PollSlots -> PollState]
    BY <1>0 DEF TypeOK, PollState, PollIdle, ConsumeAnswerLost
  <2>3. abandoned' \in SUBSET Tokens /\ aborts' \in Nat
    BY <1>0, SMTT(30) DEF TypeOK, DbDeviceLink, ConsumeAnswerLost
  <2> QED
    BY <1>0, <2>1, <2>2, <2>3 DEF TypeOK
<1>2. PollInv'
    BY <1>0 DEF PollInv, PollMatches, PollIdle
<1>3. NoOrphanToken'
    BY <1>0 DEF NoOrphanToken, Approving, Revocable, TypeOK
<1>4. AnswerInv'
    BY <1>0 DEF AnswerInv, TypeOK
<1>5. ExpiredIsTrue'
    BY <1>0 DEF ExpiredIsTrue, TypeOK
<1>6. RowInv' /\ ApproveInv' /\ DenyInv' /\ TokenInv'
    BY <1>0 DEF RowInv, ApproveInv, DenyInv, TokenInv
<1>7. SweepInv'
    BY <1>0 DEF SweepInv, Uncollected, Expired, HasRow
<1> QED
    BY <1>1, <1>2, <1>3, <1>4, <1>5, <1>6, <1>7 DEF IInv

-----------------------------------------------------------------------------
(* The invariant, and what follows from it. *)

\* Every step of Next keeps the invariant, one action at a time.
LEMMA NextIInv == IInv /\ [Next]_vars => IInv'
<1> SUFFICES ASSUME IInv, [Next]_vars PROVE IInv'
    OBVIOUS
<1>1. CASE Tick
    BY <1>1, TickIInv
<1>2. ASSUME NEW c \in Codes, insert_device_link(c) PROVE IInv'
    BY <1>2, InsertIInv
<1>3. ASSUME NEW a \in ApproveSlots, ApproveNext(a) PROVE IInv'
    BY <1>3, ApproveLookupIInv, MintIInv, ApproveIInv, RevokeLoserIInv, ApproveAbortIInv
       DEF ApproveNext
<1>4. ASSUME NEW d \in DenySlots, DenyNext(d) PROVE IInv'
    BY <1>4, DenySelectIInv, DenyRevokeIInv, DenyWriteIInv, DenyAbortIInv DEF DenyNext
<1>5. ASSUME NEW p \in PollSlots, PollNext(p) PROVE IInv'
  <2>1. CASE ConsumeAnswerLost(p)
    <3>1. poll[p].code \in Codes
      BY <2>1 DEF ConsumeAnswerLost, IInv, PollInv
    <3> QED
      BY <2>1, <3>1, AnswerLostIInv
  <2> QED
    BY <1>5, <2>1, PollStartIInv, PollLoadIInv, TouchIInv, ConsumeIInv, PollAbortIInv
       DEF PollNext
<1>6. ASSUME NEW t \in Tokens, NEW m \in Members, MemberRevoke(t, m) PROVE IInv'
    BY <1>6, MemberRevokeIInv
<1>7. CASE SweepPass
    BY <1>7, SweepSelectIInv, SweepRevokeIInv, SweepClearIInv, SweepDeleteIInv DEF SweepPass
<1>8. CASE SweepAbort
    BY <1>8, SweepAbortIInv
<1>9. CASE UNCHANGED vars
  <2> USE <1>9 DEF vars, IInv
  <2>1. TypeOK' /\ RowInv' /\ ApproveInv' /\ DenyInv' /\ TokenInv'
    BY DEF TypeOK, RowInv, ApproveInv, DenyInv, TokenInv
  <2>2. PollInv' /\ SweepInv'
    BY DEF PollInv, PollMatches, SweepInv, Uncollected, Expired, HasRow
  <2>3. NoOrphanToken' /\ AnswerInv' /\ ExpiredIsTrue'
    BY DEF NoOrphanToken, Approving, Revocable, AnswerInv, ExpiredIsTrue
  <2> QED
    BY <2>1, <2>2, <2>3
<1> QED
    BY <1>1, <1>2, <1>3, <1>4, <1>5, <1>6, <1>7, <1>8, <1>9 DEF Next

\* The invariant holds in every reachable state, whatever the numbers of codes,
\* members, tokens and concurrent requests.
THEOREM Invariance == Spec => []IInv
<1>1. Init => IInv
    BY InitIInv
<1>2. IInv /\ [Next]_vars => IInv'
    BY NextIInv
<1> QED
    BY <1>1, <1>2, PTL DEF Spec

\* Rows, tokens and handler slots keep their types; in particular
\* poll_device_link never goes round its loop a third time.
THEOREM TypeCorrect == Spec => []TypeOK
<1>1. IInv => TypeOK
    BY DEF IInv
<1> QED
    BY <1>1, Invariance, PTL

\* poll_device_link returns the secret of a token at most once.
THEOREM SecretHandedOnce == Spec => []HandedOnce
<1>1. IInv => HandedOnce
    BY DEF IInv, TokenInv, HandedOnce
<1> QED
    BY <1>1, Invariance, PTL

\* approve, deny, poll and cleanup between them leave no active token that
\* nobody holds and nothing will revoke, but for the two stops it names.
THEOREM NoTokenOrphaned == Spec => []NoOrphanToken
<1>1. IInv => NoOrphanToken
    BY DEF IInv
<1> QED
    BY <1>1, Invariance, PTL

\* The token of a denied code was never in a poll answer.
THEOREM DeniedNotHanded == Spec => []DeniedNeverHanded
<1>1. IInv => DeniedNeverHanded
    BY DEF IInv, TokenInv, DeniedNeverHanded
<1> QED
    BY <1>1, Invariance, PTL

\* poll_device_link answers "expired" only for a code that cannot be approved
\* any more: its second look at the row is enough.
THEOREM ExpiredAnswersTrue == Spec => []ExpiredIsTrue
<1>1. IInv => ExpiredIsTrue
    BY DEF IInv
<1> QED
    BY <1>1, Invariance, PTL

-----------------------------------------------------------------------------
(* The spacing of accepted polls, from the predicate of the two UPDATEs. *)

\* A step that writes last_poll_at is the matched write of one poll.
LEMMA LastPollWrite ==
    ASSUME IInv, NEW p \in PollSlots, PollMatches(p, poll[p].pc),
           poll[p].code \in Codes,
           link'[poll[p].code].last_poll_at = poll[p].now,
           \A x \in Codes : x # poll[p].code => link'[x] = link[x],
           NEW c \in Codes,
           link[c].last_poll_at # NONE, link'[c].last_poll_at # link[c].last_poll_at
    PROVE  link'[c].last_poll_at >= link[c].last_poll_at + Interval
<1>1. /\ poll[p].now \in Nat /\ link[c].last_poll_at \in Nat
      /\ Interval \in Nat
    BY LinkAssumption DEF IInv, TypeOK, PollState, DbDeviceLink
<1>2. c = poll[p].code
    OBVIOUS
<1>3. link[c].last_poll_at <= poll[p].now - Interval
    BY <1>2 DEF PollMatches
<1> QED
    BY <1>1, <1>2, <1>3

\* Accepted polls of one code are at least Interval apart, whatever the order
\* in which concurrent polls read the clock and reach the database.
THEOREM PollsSpaced == Spec => PollSpacing
<1> DEFINE Spaced == \A c \in Codes :
        LET old == link[c].last_poll_at
            new == link'[c].last_poll_at
        IN  old # NONE /\ new # NONE /\ new # old => new >= old + Interval
<1>1. ASSUME IInv, [Next]_vars PROVE Spaced \/ UNCHANGED vars
  <2> SUFFICES ASSUME NEW c \in Codes,
                      link[c].last_poll_at # NONE, link'[c].last_poll_at # NONE,
                      link'[c].last_poll_at # link[c].last_poll_at, ~UNCHANGED vars
               PROVE  link'[c].last_poll_at >= link[c].last_poll_at + Interval
    OBVIOUS
  <2> USE <1>1
  <2>1. ASSUME link' = link PROVE FALSE
    BY <2>1
  <2>2. CASE Tick \/ SweepAbort \/ SweepSelect \/ SweepRevoke
    BY <2>1, <2>2 DEF Tick, SweepAbort, SweepSelect, SweepRevoke
  <2>3. ASSUME NEW t \in Tokens, NEW m \in Members, MemberRevoke(t, m) PROVE FALSE
    BY <2>1, <2>3 DEF MemberRevoke
  <2>4. ASSUME NEW x \in Codes, insert_device_link(x) PROVE FALSE
    BY <2>4 DEF insert_device_link, NoRow, IInv, TypeOK
  <2>5. ASSUME NEW a \in ApproveSlots, ApproveNext(a) PROVE FALSE
    BY <2>1, <2>5 DEF ApproveNext, ApproveLookup, create_daemon_token, approve_device_link,
        ApproveRevoke, ApproveAbort, IInv, TypeOK, DbDeviceLink
  <2>6. ASSUME NEW d \in DenySlots, DenyNext(d) PROVE FALSE
    BY <2>1, <2>6 DEF DenyNext, DenySelect, DenyRevoke, DenyWrite, DenyAbort,
        IInv, TypeOK, DbDeviceLink
  <2>7. CASE SweepClear
    BY <2>7 DEF SweepClear, IInv, TypeOK, DbDeviceLink
  <2>8. CASE SweepDelete
    BY <2>8 DEF SweepDelete, NoRow
  <2>9. ASSUME NEW p \in PollSlots, PollNext(p)
        PROVE  link'[c].last_poll_at >= link[c].last_poll_at + Interval
    <3>1. CASE (\E x \in Codes : PollStart(p, x)) \/ PollLoad(p) \/ PollAbort(p)
      BY <2>1, <3>1 DEF PollStart, PollLoad, PollAbort
    <3>2. CASE touch_poll(p) \/ consume_approved(p) \/ ConsumeAnswerLost(p)
      <4>1. poll[p].code \in Codes
        BY <3>2 DEF touch_poll, consume_approved, ConsumeAnswerLost, IInv, PollInv
      <4>2. PollMatches(p, poll[p].pc)
        BY <2>1, <3>2 DEF touch_poll, consume_approved, ConsumeAnswerLost
      <4>3. /\ link'[poll[p].code].last_poll_at = poll[p].now
            /\ \A x \in Codes : x # poll[p].code => link'[x] = link[x]
        BY <2>1, <3>2, <4>1 DEF touch_poll, consume_approved, ConsumeAnswerLost,
            IInv, TypeOK, DbDeviceLink
      <4> QED
        BY <4>1, <4>2, <4>3, LastPollWrite
    <3> QED
      BY <2>9, <3>1, <3>2 DEF PollNext
  <2> QED
    BY <2>2, <2>3, <2>4, <2>5, <2>6, <2>7, <2>8, <2>9 DEF Next, SweepPass
<1>2. IInv /\ [Next]_vars => [Spaced]_vars
    BY <1>1
<1> QED
    BY <1>2, Invariance, PTL DEF Spec, PollSpacing
=============================================================================
