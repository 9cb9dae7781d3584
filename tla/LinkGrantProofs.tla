--------------------------- MODULE LinkGrantProofs ---------------------------
(***************************************************************************)
(* DeviceLink implements LinkGrant, for any number of codes, members,      *)
(* tokens and concurrent requests.  Every statement either leaves what     *)
(* LinkGrant sees of a row as it was or is one of its steps; that the      *)
(* guards of those steps hold is the invariant of DeviceLinkProofs.        *)
(***************************************************************************)
EXTENDS DeviceLinkProofs

\* What LinkGrant sees of a row.
SameRow(c) ==
    /\ link'[c].status = link[c].status
    /\ link'[c].member_id = link[c].member_id
    /\ link'[c].daemon_token_id = link[c].daemon_token_id

\* A statement that touches neither statuses nor grants nor answers is
\* nothing to LinkGrant.
LEMMA Stutter ==
    ASSUME handed' = handed, \A c \in Codes : SameRow(c)
    PROVE  UNCHANGED Abstract!vars
BY DEF SameRow, Abstract!vars

\* insert_device_link asks for the code.
LEMMA InsertAsks ==
    ASSUME IInv, NEW c \in Codes, insert_device_link(c)
    PROVE  Abstract!Ask(c)
<1>1. /\ link[c].status = "unissued" /\ link[c].daemon_token_id = NONE
      /\ link' = [link EXCEPT ![c] = [NoRow("pending") EXCEPT !.expires_at = now + TTL]]
      /\ handed' = handed
      /\ link \in [Codes -> DbDeviceLink]
    BY DEF insert_device_link, history, IInv, RowInv, TypeOK
<1>2. \A x \in Codes : x # c => link'[x] = link[x]
    BY <1>1
<1>3. link'[c].status = "pending" /\ link'[c].daemon_token_id = NONE
    BY <1>1 DEF NoRow
<1> QED
    BY <1>1, <1>2, <1>3 DEF Abstract!Ask, PhaseOf

\* The compare-and-swap of approve_device_link grants it, with the handler's
\* own token.
LEMMA ApproveGrants ==
    ASSUME IInv, NEW a \in ApproveSlots, approve_device_link(a)
    PROVE  \/ UNCHANGED Abstract!vars
           \/ \E c \in Codes, m \in Members, t \in Tokens : Abstract!Grant(c, m, t)
<1>0. /\ approve[a].pc = "cas" /\ handed' = handed
      /\ approve[a].code \in Codes /\ approve[a].member \in Members
      /\ approve[a].token \in Tokens
    BY DEF approve_device_link, history, IInv, ApproveInv, TypeOK, ApproveState
<1> PICK c \in Codes, m \in Members, t \in Tokens :
        c = approve[a].code /\ m = approve[a].member /\ t = approve[a].token
    BY <1>0
<1>1. handed[t] = 0 /\ \A x \in Codes : link[x].daemon_token_id # t /\ t # NONE
    BY <1>0, LinkAssumption DEF IInv, ApproveInv
<1>2. CASE LivePending(c)
  <2>1. /\ link[c].status = "pending"
        /\ link' = [link EXCEPT ![c].status = "approved", ![c].member_id = m,
                                ![c].daemon_token_id = t, ![c].handover_token = t]
        /\ link \in [Codes -> DbDeviceLink]
    BY <1>2 DEF approve_device_link, LivePending, IInv, TypeOK
  <2>2. /\ \A x \in Codes : x # c => link'[x] = link[x]
        /\ link'[c].status = "approved" /\ link'[c].member_id = m
        /\ link'[c].daemon_token_id = t
    BY <1>1, <2>1, SMTT(30) DEF DbDeviceLink
  <2>3. link[c].status = "pending" /\ handed' = handed
    BY <1>0, <2>1
  <2>4. Abstract!Grant(c, m, t)
    BY <1>1, <2>2, <2>3 DEF Abstract!Grant, PhaseOf
  <2> QED
    BY <2>4
<1>3. CASE ~LivePending(c)
    BY <1>0, <1>3, Stutter DEF approve_device_link, SameRow
<1> QED
    BY <1>2, <1>3

\* The status write of deny_device_link refuses it, a granted one only for
\* its grantor.
LEMMA DenyRefuses ==
    ASSUME IInv, NEW d \in DenySlots, DenyWrite(d)
    PROVE  \/ UNCHANGED Abstract!vars
           \/ \E c \in Codes, m \in Members : Abstract!Refuse(c, m)
<1>1. /\ deny[d].pc = "write" /\ handed' = handed
      /\ deny[d].code \in Codes /\ deny[d].member \in Members
    BY DEF DenyWrite, history, IInv, DenyInv
<1> PICK c \in Codes, m \in Members : c = deny[d].code /\ m = deny[d].member
    BY <1>1
<1>2. CASE Deniable(c, m)
  <2>1. /\ link' = [link EXCEPT ![c].status = "denied", ![c].handover_token = NONE]
        /\ link \in [Codes -> DbDeviceLink]
        /\ \/ link[c].status = "pending"
           \/ link[c].status = "approved" /\ link[c].member_id = m
                /\ link[c].daemon_token_id # NONE
    BY <1>1, <1>2 DEF DenyWrite, Deniable, IInv, TypeOK, RowInv
  <2>2. /\ \A x \in Codes : x # c => link'[x] = link[x]
        /\ link'[c].status = "denied"
        /\ link'[c].member_id = link[c].member_id
        /\ link'[c].daemon_token_id = link[c].daemon_token_id
    BY <1>1, <2>1 DEF DbDeviceLink
  <2>3. /\ handed' = handed
        /\ \/ link[c].status = "pending"
           \/ link[c].status = "approved" /\ link[c].member_id = m
                /\ link[c].daemon_token_id # NONE
    BY <1>1, <2>1
  <2>4. Abstract!Refuse(c, m)
    BY <2>2, <2>3 DEF Abstract!Refuse, PhaseOf
  <2> QED
    BY <2>4
<1>3. CASE ~Deniable(c, m)
    BY <1>1, <1>3, Stutter DEF DenyWrite, SameRow
<1> QED
    BY <1>2, <1>3

\* touch_poll writes nothing LinkGrant sees.
LEMMA TouchStutters ==
    ASSUME IInv, NEW p \in PollSlots, touch_poll(p)
    PROVE  UNCHANGED Abstract!vars
<1>1. handed' = handed /\ link \in [Codes -> DbDeviceLink]
    BY DEF touch_poll, IInv, TypeOK
<1>2. ASSUME NEW c \in Codes PROVE SameRow(c)
    BY <1>1, <1>2 DEF touch_poll, SameRow, DbDeviceLink
<1> QED
    BY <1>1, <1>2, Stutter

\* A claim of an approved row, answered or not: what it does to the row.
LEMMA Claimed ==
    ASSUME IInv, NEW p \in PollSlots, NEW c \in Codes, c = poll[p].code,
           PollMatches(p, "approved"),
           link' = [link EXCEPT ![c].status = "consumed", ![c].handover_token = NONE,
                                ![c].last_poll_at = poll[p].now]
    PROVE  /\ link[c].status = "approved" /\ link'[c].status = "consumed"
           /\ link'[c].member_id = link[c].member_id
           /\ link'[c].daemon_token_id = link[c].daemon_token_id
           /\ \A x \in Codes : x # c => link'[x] = link[x]
<1>1. link \in [Codes -> DbDeviceLink]
    BY DEF IInv, TypeOK
<1> QED
    BY <1>1 DEF PollMatches, DbDeviceLink

\* consume_approved collects the grant, or finds its secret cleared.
LEMMA ConsumeCollects ==
    ASSUME IInv, NEW p \in PollSlots, consume_approved(p)
    PROVE  \/ UNCHANGED Abstract!vars
           \/ \E c \in Codes : Abstract!Collect(c) \/ Abstract!Lose(c)
<1>0. poll[p].pc = "approved" /\ poll[p].code \in Codes
    BY DEF consume_approved, IInv, PollInv
<1> PICK c \in Codes : c = poll[p].code
    BY <1>0
<1>1. CASE ~PollMatches(p, "approved")
    BY <1>1, Stutter DEF consume_approved, SameRow
<1>2. CASE PollMatches(p, "approved")
  <2>1. link' = [link EXCEPT ![c].status = "consumed", ![c].handover_token = NONE,
                             ![c].last_poll_at = poll[p].now]
    BY <1>2 DEF consume_approved
  <2>2. /\ link[c].status = "approved" /\ link'[c].status = "consumed"
        /\ link'[c].member_id = link[c].member_id
        /\ link'[c].daemon_token_id = link[c].daemon_token_id
        /\ \A x \in Codes : x # c => link'[x] = link[x]
    BY <1>2, <2>1, Claimed
  <2>3. CASE link[c].handover_token = NONE
    <3>1. handed' = handed
      BY <1>2, <2>3 DEF consume_approved
    <3>2. Abstract!Lose(c)
      BY <2>2, <3>1 DEF Abstract!Lose, PhaseOf
    <3> QED
      BY <2>2, <3>2
  <2>4. CASE link[c].handover_token # NONE
    <3>1. handed' = [handed EXCEPT ![link[c].handover_token] = @ + 1]
      BY <1>2, <2>4 DEF consume_approved
    <3>2. /\ link[c].handover_token = link[c].daemon_token_id
          /\ link[c].daemon_token_id \in Tokens
          /\ handed[link[c].daemon_token_id] = 0
          /\ handed \in [Tokens -> Nat]
      BY <2>2, <2>4 DEF IInv, RowInv, TokenInv, TypeOK, DbDeviceLink
    <3>3. handed' = [handed EXCEPT ![link[c].daemon_token_id] = 1]
      BY <3>1, <3>2
    <3>4. Abstract!Collect(c)
      BY <2>2, <3>2, <3>3, ZenonT(40) DEF Abstract!Collect, PhaseOf
    <3> QED
      BY <2>2, <3>4
  <2> QED
    BY <2>3, <2>4
<1> QED
    BY <1>1, <1>2

\* A claim whose answer is lost spends the grant.
LEMMA AnswerLostLoses ==
    ASSUME IInv, NEW p \in PollSlots, ConsumeAnswerLost(p)
    PROVE  \E c \in Codes : Abstract!Lose(c)
<1>0. poll[p].code \in Codes
    BY DEF ConsumeAnswerLost, IInv, PollInv
<1> PICK c \in Codes : c = poll[p].code
    BY <1>0
<1>1. /\ PollMatches(p, "approved") /\ handed' = handed
      /\ link' = [link EXCEPT ![c].status = "consumed", ![c].handover_token = NONE,
                              ![c].last_poll_at = poll[p].now]
    BY DEF ConsumeAnswerLost
<1>2. /\ link[c].status = "approved" /\ link'[c].status = "consumed"
      /\ link'[c].member_id = link[c].member_id
      /\ link'[c].daemon_token_id = link[c].daemon_token_id
      /\ \A x \in Codes : x # c => link'[x] = link[x]
    BY <1>1, Claimed
<1>3. handed' = handed
    BY <1>1
<1>4. Abstract!Lose(c)
    BY <1>2, <1>3 DEF Abstract!Lose, PhaseOf
<1> QED
    BY <1>4

\* The cleanup clears secrets unseen and forgets the codes it deletes.
LEMMA SweepForgets ==
    ASSUME IInv, SweepPass
    PROVE  UNCHANGED Abstract!vars \/ \E S \in SUBSET Codes : Abstract!Forget(S)
<1>1. handed' = handed /\ link \in [Codes -> DbDeviceLink]
    BY DEF SweepPass, SweepSelect, SweepRevoke, SweepClear, SweepDelete, history, IInv, TypeOK
<1>2. CASE SweepSelect \/ SweepRevoke
    BY <1>1, <1>2, Stutter DEF SweepSelect, SweepRevoke, SameRow
<1>3. CASE SweepClear
  <2>1. ASSUME NEW c \in Codes PROVE SameRow(c)
    BY <1>1, <1>3, <2>1 DEF SweepClear, SameRow, DbDeviceLink
  <2> QED
    BY <1>1, <2>1, Stutter
<1>4. CASE SweepDelete
  <2> PICK S \in SUBSET Codes : S = {c \in Codes : Expired(c, sweep.cutoff)}
    OBVIOUS
  <2>1. link' = [c \in Codes |-> IF c \in S THEN NoRow("deleted") ELSE link[c]]
    BY <1>4 DEF SweepDelete
  <2>2. \A c \in S : link[c].status \in {"pending", "approved", "denied", "consumed"}
    BY DEF Expired, HasRow
  <2>3. NoRow("deleted").status = "deleted" /\ NoRow("deleted").daemon_token_id = NONE
    BY DEF NoRow
  <2>4. \A c \in S : PhaseOf(link[c].status) \notin {"new", "gone"}
    BY <2>2 DEF PhaseOf
  <2>5. Abstract!Forget(S)
    BY <1>1, <2>1, <2>3, <2>4 DEF Abstract!Forget, PhaseOf
  <2> QED
    BY <2>5
<1> QED
    BY <1>2, <1>3, <1>4 DEF SweepPass

\* Every step of DeviceLink is a step of LinkGrant or leaves it alone.
LEMMA StepSimulation ==
    ASSUME IInv, [Next]_vars
    PROVE  [Abstract!Next]_(Abstract!vars)
<1>1. ASSUME link' = link, handed' = handed PROVE UNCHANGED Abstract!vars
    BY <1>1, Stutter DEF SameRow
<1>2. CASE Tick \/ SweepAbort \/ UNCHANGED vars
    BY <1>1, <1>2 DEF Tick, SweepAbort, vars, history
<1>3. ASSUME NEW c \in Codes, insert_device_link(c) PROVE Abstract!Next
    BY <1>3, InsertAsks DEF Abstract!Next
<1>4. ASSUME NEW a \in ApproveSlots, ApproveNext(a) PROVE [Abstract!Next]_(Abstract!vars)
  <2>1. CASE approve_device_link(a)
    BY <2>1, ApproveGrants DEF Abstract!Next
  <2> QED
    BY <1>1, <1>4, <2>1 DEF ApproveNext, ApproveLookup, create_daemon_token, ApproveRevoke,
        ApproveAbort, history
<1>5. ASSUME NEW d \in DenySlots, DenyNext(d) PROVE [Abstract!Next]_(Abstract!vars)
  <2>1. CASE DenyWrite(d)
    BY <2>1, DenyRefuses DEF Abstract!Next
  <2> QED
    BY <1>1, <1>5, <2>1 DEF DenyNext, DenySelect, DenyRevoke, DenyAbort, history
<1>6. ASSUME NEW p \in PollSlots, PollNext(p) PROVE [Abstract!Next]_(Abstract!vars)
  <2>1. CASE touch_poll(p)
    BY <2>1, TouchStutters
  <2>2. CASE consume_approved(p)
    BY <2>2, ConsumeCollects DEF Abstract!Next
  <2>3. CASE ConsumeAnswerLost(p)
    BY <2>3, AnswerLostLoses DEF Abstract!Next
  <2> QED
    BY <1>1, <1>6, <2>1, <2>2, <2>3 DEF PollNext, PollStart, PollLoad, PollAbort, history
<1>7. ASSUME NEW t \in Tokens, NEW m \in Members, MemberRevoke(t, m)
      PROVE  UNCHANGED Abstract!vars
    BY <1>1, <1>7 DEF MemberRevoke, history
<1>8. CASE SweepPass
    BY <1>8, SweepForgets DEF Abstract!Next
<1> QED
    BY <1>2, <1>3, <1>4, <1>5, <1>6, <1>7, <1>8 DEF Next

\* Device-code sign-in, statement by statement, implements what LinkGrant
\* promises: a grant is collected at most once and never after a refusal.
THEOREM LinkImplementsGrant == Spec => ImplementsLinkGrant
<1>1. Init => Abstract!Init
    BY DEF Init, NoRow, PhaseOf, Abstract!Init
<1>2. IInv /\ [Next]_vars => [Abstract!Next]_(Abstract!vars)
    BY StepSimulation
<1> QED
    BY <1>1, <1>2, Invariance, PTL DEF Spec, ImplementsLinkGrant, Abstract!Spec
=============================================================================
