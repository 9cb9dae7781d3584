---------------------------- MODULE MemberTable ----------------------------
(***************************************************************************)
(* What the membership handlers of the site share: the tables `member' and *)
(* `moderation_action' of the database, the queries on them, and the       *)
(* requests in flight.  Each handler is a sequence of single statements;   *)
(* nothing but a statement is atomic.                                      *)
(*                                                                         *)
(* A person stands for a user account and for its member row, which the    *)
(* unique index on member.user_id makes at most one.  A request is served  *)
(* once, and names the rows it creates.                                    *)
(***************************************************************************)
EXTENDS Integers, FiniteSets

CONSTANTS
    Persons,   \* user accounts
    Requests,  \* requests to the site
    MaxFaults  \* bound: statements that fail and requests that are dropped

ASSUME TableAssumption == MaxFaults \in Nat

VARIABLES
    jobs,     \* what each request may be sent for, and whom it is about:
              \*   <<job, person>>; never changes
    member,   \* table member
    actions,  \* table moderation_action: the suspensions and bans in force
    req,      \* the requests' locals
    past,     \* history: what happened to whom, as <<event, person>>
    faults

tableVars == <<jobs, member, actions, req, past, faults>>

Rank(role) ==
    CASE role = "none"    -> 0
      [] role = "recruit" -> 1
      [] role = "member"  -> 2
      [] role = "officer" -> 3
      [] role = "admin"   -> 4

Roles == {"recruit", "member", "officer", "admin"}

NoRow == [role |-> "none", active |-> FALSE]

HasRow(p) == member[p] # NoRow

AnyMember == \E p \in Persons : HasRow(p)

Suspended(p) == \E x \in actions : x.of = p

Banned(p) == \E x \in actions : x.of = p /\ x.type = "ban"

Actionable(p) == member[p].active /\ member[p].role = "admin" /\ ~Suspended(p)

ActionableAdmins == {p \in Persons : Actionable(p)}

\* Who the role extractors let through, and who is let through no longer.
MayAct(p, role) ==
    member[p].active /\ ~Suspended(p) /\ Rank(member[p].role) >= Rank(role)

Happened(event, p) == <<event, p>> \in past

-----------------------------------------------------------------------------
(* Statements *)

SetActive(p, to) == member' = [member EXCEPT ![p].active = to]

SetRole(p, to) == member' = [member EXCEPT ![p].role = to]

CreateMember(p, role) ==
    member' = [member EXCEPT ![p] = [role |-> role, active |-> TRUE]]

-----------------------------------------------------------------------------
(* Requests *)

Idle == [pc |-> "idle"]

Over == [pc |-> "over"]

At(r, pc) == req[r].pc = pc

Goto(r, pc) == req' = [req EXCEPT ![r].pc = pc]

Answer(r) == req' = [req EXCEPT ![r] = Over]

Quiet == \A r \in Requests : req[r].pc \in {"idle", "over"}

\* History: p can act as an admin, or a request that has taken that away is
\* about to look again and may give it back.
Guarded(r, p) ==
    \/ Actionable(p)
    \/ \E s \in Requests \ {r} : req[s].pc \in {"check", "undo"} /\ req[s].of = p

MaySend(r, job, of) == At(r, "idle") /\ <<job, of>> \in jobs[r]

Remember(events) == past' = past \cup events

\* A removal that will not look again, of somebody it takes for no admin.
Unwatched(r, p) == IF Guarded(r, p) THEN {<<"unwatched", p>>} ELSE {}

Fault == faults < MaxFaults /\ faults' = faults + 1
=============================================================================
