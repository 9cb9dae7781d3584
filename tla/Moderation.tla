----------------------------- MODULE Moderation -----------------------------
(***************************************************************************)
(* The handlers that take an admin's powers away or give them back:        *)
(* create_moderation_action and lift_moderation_action of                  *)
(* routes/moderation.rs, update_member (the flag is_active) and            *)
(* change_role of routes/members.rs, with the rules of                     *)
(* membership_policy.rs.                                                   *)
(*                                                                         *)
(* Each of them reads the target, counts the admins who can still act,     *)
(* decides, writes, and, when the target was such an admin, counts again   *)
(* and takes its write back if nobody is left.                             *)
(***************************************************************************)
EXTENDS MemberTable

\* What an officer or admin asks for.
Suspend == [kind |-> "suspension"]
Ban == [kind |-> "ban"]
Activate == [kind |-> "activate"]
Deactivate == [kind |-> "deactivate"]
ChangeRole(to) == [kind |-> "role", to |-> to]
Lift == [kind |-> "lift"]

ModerationJobs ==
    {Suspend, Ban, Activate, Deactivate, Lift} \cup {ChangeRole(x) : x \in Roles}

SetsFlag(job) == job \in {Activate, Deactivate}

NeededRole(job) == IF job.kind \in {"role", "lift"} THEN "admin" ELSE "officer"

officer_may_moderate(role) == role \in {"member", "recruit"}

can_moderate(me, role, of, target) ==
    /\ me # of
    /\ role = "admin" \/ officer_may_moderate(target.role)

RemovesAdmin(job, target) ==
    \/ job.kind \in {"suspension", "ban"}
    \/ job = Deactivate
    \/ job.kind = "role" /\ job.to # "admin"

can_set_is_active(me, role, of, target) ==
    /\ me # of
    /\ role = "admin" \/ officer_may_moderate(target.role)

\* The policy of each handler, on what it has read: `q' holds the target's
\* row, the number of actionable admins and whether the target is one.
Allowed(q) ==
    /\ ~(RemovesAdmin(q.job, q.target) /\ q.actionable /\ q.count <= 1)
    /\ SetsFlag(q.job) => can_set_is_active(q.me, q.role, q.of, q.target)
    /\ q.job.kind = "role" => q.target.role # q.job.to

-----------------------------------------------------------------------------
(* Reading *)

\* The extractor lets the caller through on the row it reads now.
Authenticate(r, me, of, job) ==
    /\ MaySend(r, job, of)
    /\ job \in ModerationJobs
    /\ MayAct(me, NeededRole(job))
    /\ req' = [req EXCEPT ![r] =
                 [pc |-> IF job = Lift THEN "lift" ELSE "load", job |-> job,
                  me |-> me, role |-> member[me].role, of |-> of]]
    /\ UNCHANGED <<jobs, member, actions, past, faults>>

\* An unknown target, a caller below the target and a flag that has the
\* wanted value already end the request.
LoadTarget(r) ==
    /\ At(r, "load")
    /\ LET q == req[r]
           t == member[q.of]
       IN  IF \/ t = NoRow
              \/ q.job.kind \in {"suspension", "ban"}
                 /\ ~can_moderate(q.me, q.role, q.of, t)
              \/ SetsFlag(q.job) /\ t.active = (q.job = Activate)
           THEN Answer(r)
           ELSE req' = [req EXCEPT ![r] =
                  [pc |-> "count", job |-> q.job, me |-> q.me, role |-> q.role,
                   of |-> q.of, target |-> t]]
    /\ UNCHANGED <<jobs, member, actions, past, faults>>

CountAdmins(r) ==
    /\ At(r, "count")
    /\ LET q == req[r]
       IN  req' = [req EXCEPT ![r] =
             [pc |-> "decide", job |-> q.job, me |-> q.me, role |-> q.role,
              of |-> q.of, target |-> q.target,
              count |-> Cardinality(ActionableAdmins)]]
    /\ UNCHANGED <<jobs, member, actions, past, faults>>

\* The target counts as an actionable admin by the row read before and the
\* suspensions read now.
Decide(r) ==
    /\ At(r, "decide")
    /\ LET q == req[r]
           actionable == /\ q.target.active
                         /\ q.target.role = "admin"
                         /\ ~Suspended(q.of)
       IN  IF Allowed([actionable |-> actionable, job |-> q.job, me |-> q.me,
                       role |-> q.role, of |-> q.of, target |-> q.target,
                       count |-> q.count])
           THEN req' = [req EXCEPT ![r] =
                  [pc |-> "write", job |-> q.job, of |-> q.of,
                   target |-> q.target, actionable |-> actionable]]
           ELSE Answer(r)
    /\ UNCHANGED <<jobs, member, actions, past, faults>>

-----------------------------------------------------------------------------
(* Writing *)

\* A removal looks again only if its target was an actionable admin when it
\* was read.
ChecksAgain(q) == q.actionable /\ RemovesAdmin(q.job, q.target)

Slip(r) == IF req[r].actionable THEN {} ELSE Unwatched(r, req[r].of)

InsertAction(r) ==
    actions' = actions \cup {[of |-> req[r].of, type |-> req[r].job.kind, id |-> r]}

\* A ban of a member whose row was inactive when read writes only its row.
WriteAction(r) ==
    /\ At(r, "write")
    /\ LET q == req[r]
       IN  /\ q.job = Suspend \/ (q.job = Ban /\ ~q.target.active)
           /\ InsertAction(r)
           /\ IF q.job = Suspend /\ ChecksAgain(q)
              THEN Goto(r, "check")
              ELSE Answer(r)
           /\ Remember(Slip(r))
    /\ UNCHANGED <<jobs, member, faults>>

\* Deactivation, on its own or as the first half of a ban, and activation.
WriteActive(r) ==
    /\ At(r, "write")
    /\ LET q == req[r]
           to == q.job = Activate
       IN  /\ SetsFlag(q.job) \/ (q.job = Ban /\ q.target.active)
           /\ SetActive(q.of, to)
           /\ IF ChecksAgain(q)
              THEN Goto(r, "check")
              ELSE IF q.job = Ban THEN Goto(r, "row") ELSE Answer(r)
           /\ Remember(IF to THEN {<<"activated", q.of>>}
                       ELSE {<<"deactivated", q.of>>} \cup Slip(r))
    /\ UNCHANGED <<jobs, actions, faults>>

\* change_member_role_cas: only while the role is the one that was read.
CasRole(p, expected, to) ==
    member[p].role = expected /\ SetRole(p, to)

WriteRole(r) ==
    /\ At(r, "write")
    /\ req[r].job.kind = "role"
    /\ LET q == req[r]
       IN  \/ /\ CasRole(q.of, q.target.role, q.job.to)
              /\ IF ChecksAgain(q) THEN Goto(r, "check") ELSE Answer(r)
              /\ Remember(IF RemovesAdmin(q.job, q.target) THEN Slip(r) ELSE {})
           \/ /\ member[q.of].role # q.target.role
              /\ Answer(r)
              /\ UNCHANGED <<member, past>>
    /\ UNCHANGED <<jobs, actions, faults>>

-----------------------------------------------------------------------------
(* Looking again *)

\* Variant: suspended admins are counted.
CheckAgainByFlag(r) ==
    /\ At(r, "check")
    /\ IF ~\E p \in Persons : member[p] = [role |-> "admin", active |-> TRUE]
       THEN Goto(r, "undo")
       ELSE IF req[r].job = Ban THEN Goto(r, "row") ELSE Answer(r)
    /\ UNCHANGED <<jobs, member, actions, past, faults>>

\* assert_has_actionable_admin.
CheckAgain(r) ==
    /\ At(r, "check")
    /\ IF ActionableAdmins = {}
       THEN Goto(r, "undo")
       ELSE IF req[r].job = Ban THEN Goto(r, "row") ELSE Answer(r)
    /\ UNCHANGED <<jobs, member, actions, past, faults>>

\* The row a ban ends with is written without another look.
WriteBan(r) ==
    /\ At(r, "row")
    /\ InsertAction(r)
    /\ Answer(r)
    /\ Remember(Unwatched(r, req[r].of))
    /\ UNCHANGED <<jobs, member, faults>>

\* A suspension is lifted; is_active is set again, whatever happened to it in
\* the meantime; a role is put back if it is still the one written here.
Undo(r) ==
    /\ At(r, "undo")
    /\ LET q == req[r]
       IN  \/ /\ q.job = Suspend
              /\ actions' = {x \in actions : x.id # r}
              /\ UNCHANGED <<member, past>>
           \/ /\ q.job \in {Ban, Deactivate}
              /\ SetActive(q.of, TRUE)
              /\ Remember({<<"activated", q.of>>})
              /\ UNCHANGED actions
           \/ /\ q.job.kind = "role"
              /\ CasRole(q.of, q.job.to, q.target.role)
              /\ UNCHANGED <<actions, past>>
           \/ /\ q.job.kind = "role"
              /\ member[q.of].role # q.job.to
              /\ Remember({<<"unrestored", q.of>>})
              /\ UNCHANGED <<member, actions>>
    /\ Answer(r)
    /\ UNCHANGED <<jobs, faults>>

\* lift_moderation_action, of one row of the member; without one in force
\* there is nothing to lift.
LiftAction(r) ==
    /\ At(r, "lift")
    /\ \/ \E x \in actions : x.of = req[r].of /\ actions' = actions \ {x}
       \/ ~Suspended(req[r].of) /\ UNCHANGED actions
    /\ Answer(r)
    /\ UNCHANGED <<jobs, member, past, faults>>

-----------------------------------------------------------------------------
(* Faults *)

\* A failed statement or a dropped connection ends the request where it is.
ModerationStops(r) ==
    /\ req[r].pc \in {"load", "count", "decide", "write", "check", "undo", "row", "lift"}
    /\ Fault
    /\ Remember(IF req[r].pc \in {"check", "undo", "row"}
                THEN {<<"stopped", req[r].of>>} ELSE {})
    /\ Answer(r)
    /\ UNCHANGED <<jobs, member, actions>>

\* A failed second look is taken for a lost last admin.
CheckFails(r) ==
    /\ At(r, "check")
    /\ Fault
    /\ Goto(r, "undo")
    /\ UNCHANGED <<jobs, member, actions, past>>

ModerationNext ==
    \E r \in Requests :
        \/ \E me, of \in Persons, job \in ModerationJobs : Authenticate(r, me, of, job)
        \/ LoadTarget(r) \/ CountAdmins(r) \/ Decide(r)
        \/ WriteAction(r) \/ WriteActive(r) \/ WriteRole(r)
        \/ CheckAgain(r) \/ WriteBan(r) \/ Undo(r)
        \/ LiftAction(r)
        \/ ModerationStops(r) \/ CheckFails(r)
=============================================================================
