---------------------------- MODULE Applications ----------------------------
(***************************************************************************)
(* Applying for membership: submit_application, withdraw_my_application    *)
(* and update_application of routes/applications.rs.                       *)
(*                                                                         *)
(* A transition to trial or accepted provisions the member first and then  *)
(* moves the application by a compare-and-swap on its status; rejection    *)
(* and withdrawal swap first and then deactivate a recruit.                *)
(***************************************************************************)
EXTENDS MemberTable, FiniteSetsExt

VARIABLE apps  \* table application; `at' stands for created_at

Submit == [kind |-> "submit"]
Withdraw == [kind |-> "withdraw"]
Review(to) == [kind |-> "review", to |-> to]

Statuses == {"pending", "trial", "accepted", "rejected", "withdrawn"}

ApplicationJobs == {Submit, Withdraw}
    \cup {Review(to) : to \in {"trial", "accepted", "rejected", "withdrawn"}}

Open == {"pending", "trial"}

is_valid_application_transition(from, to) ==
    /\ from # to
    /\ \/ from = "pending" /\ to # "pending"
       \/ from = "trial" /\ to \in {"accepted", "rejected", "withdrawn"}

role_on_application_accept(from) == IF from = "trial" THEN "member" ELSE "recruit"

AppsOf(p) == {x \in apps : x.user = p}

\* get_application_by_user: the newest, with a status of none if there is none.
Latest(p) ==
    IF AppsOf(p) = {} THEN [id |-> "none", user |-> p, status |-> "none", at |-> 0]
    ELSE CHOOSE x \in AppsOf(p) : \A y \in AppsOf(p) : y.at <= x.at

count_open_applications(p) == Cardinality({x \in AppsOf(p) : x.status \in Open})

StatusOf(id) ==
    IF \E x \in apps : x.id = id THEN (CHOOSE x \in apps : x.id = id).status ELSE "none"

\* Later than every application in the table.
CreatedAt == 1 + Max({0} \cup {x.at : x \in apps})

-----------------------------------------------------------------------------
(* POST /api/applications *)

\* A member who is banned or active is refused; the ban is looked up after
\* the row was read.
SubmitLoads(r, p) ==
    /\ MaySend(r, Submit, p)
    /\ req' = [req EXCEPT ![r] = [pc |-> IF HasRow(p) THEN "banned?" ELSE "open?",
                                  of |-> p, active |-> member[p].active]]
    /\ UNCHANGED <<jobs, member, actions, past, faults, apps>>

SubmitChecksBan(r) ==
    /\ At(r, "banned?")
    /\ IF Banned(req[r].of) \/ req[r].active THEN Answer(r) ELSE Goto(r, "open?")
    /\ UNCHANGED <<jobs, member, actions, past, faults, apps>>

SubmitChecksOpen(r) ==
    /\ At(r, "open?")
    /\ IF Latest(req[r].of).status \in Open THEN Answer(r) ELSE Goto(r, "create")
    /\ UNCHANGED <<jobs, member, actions, past, faults, apps>>

CreateApplication(r) ==
    /\ At(r, "create")
    /\ apps' = apps \cup {[id |-> r, user |-> req[r].of, status |-> "pending", at |-> CreatedAt]}
    /\ Goto(r, "recount")
    /\ UNCHANGED <<jobs, member, actions, past, faults>>

\* Variant: off by one.
TooManyByOne(p) == count_open_applications(p) > 2

\* Two submissions can both get here; one that sees another open application
\* takes its own back.
TooMany(p) == count_open_applications(p) > 1

CountOpen(r) ==
    /\ At(r, "recount")
    /\ IF TooMany(req[r].of) THEN Goto(r, "delete") ELSE Answer(r)
    /\ UNCHANGED <<jobs, member, actions, past, faults, apps>>

DeleteApplication(r) ==
    /\ At(r, "delete")
    /\ apps' = {x \in apps : x.id # r}
    /\ Remember(IF StatusOf(r) = "pending" THEN {} ELSE {<<"rolled back", req[r].of>>})
    /\ Answer(r)
    /\ UNCHANGED <<jobs, member, actions, faults>>

-----------------------------------------------------------------------------
(* apply_application_transition *)

\* Variant: a rejection or withdrawal deactivates the recruit first.
EnterSideEffectsFirst(to) == IF to \in {"trial", "accepted"} THEN "ensure" ELSE "recruit?"

\* What a transition does first: provision the member, or swap the status.
Enter(to) == IF to \in {"trial", "accepted"} THEN "ensure" ELSE "cas"

Transition(r, x, to) ==
    req' = [req EXCEPT ![r] = [pc |-> Enter(to), app |-> x.id, of |-> x.user,
                               from |-> x.status, to |-> to]]

\* The applicant withdraws the newest application.
WithdrawLoads(r, p) ==
    /\ MaySend(r, Withdraw, p)
    /\ Latest(p).status \in Open
    /\ Transition(r, Latest(p), "withdrawn")
    /\ UNCHANGED <<jobs, member, actions, past, faults, apps>>

\* An officer moves any application along a valid edge.
ReviewLoads(r, me, x, to) ==
    /\ MaySend(r, Review(to), x.user)
    /\ MayAct(me, "officer")
    /\ is_valid_application_transition(x.status, to)
    /\ Transition(r, x, to)
    /\ UNCHANGED <<jobs, member, actions, past, faults, apps>>

\* ensure_member_for_application.
DesiredRole(q) ==
    IF q.to = "accepted" THEN role_on_application_accept(q.from) ELSE "recruit"

EnsureLoads(r) ==
    /\ At(r, "ensure")
    /\ LET q == req[r]
       IN  req' = [req EXCEPT ![r] =
             [pc |-> IF HasRow(q.of) THEN "ban check" ELSE "new member", app |-> q.app,
              of |-> q.of, from |-> q.from, to |-> q.to, row |-> member[q.of]]]
    /\ UNCHANGED <<jobs, member, actions, past, faults, apps>>

\* After the row is active its role is raised on acceptance, unless it has
\* another one already or an officer's.
AfterActive(q, row) ==
    IF q.to = "accepted" /\ row.role # DesiredRole(q) /\ Rank(row.role) < Rank("officer")
    THEN "promote" ELSE "cas"

\* Variant: a suspended member is refused, a banned one is not.
EnsureChecksSuspension(r) ==
    /\ At(r, "ban check")
    /\ LET q == req[r]
       IN  IF Suspended(q.of) /\ ~Banned(q.of)
           THEN Answer(r)
           ELSE req' = [req EXCEPT ![r] =
                  [pc |-> IF q.row.active THEN AfterActive(q, q.row) ELSE "reactivate",
                   app |-> q.app, of |-> q.of, from |-> q.from, to |-> q.to,
                   clear |-> ~Banned(q.of)]]
    /\ UNCHANGED <<jobs, member, actions, past, faults, apps>>

\* `clear' is history: whether there was no ban when this request looked.
EnsureChecksBan(r) ==
    /\ At(r, "ban check")
    /\ LET q == req[r]
       IN  IF Banned(q.of)
           THEN Answer(r)
           ELSE req' = [req EXCEPT ![r] =
                  [pc |-> IF q.row.active THEN AfterActive(q, q.row) ELSE "reactivate",
                   app |-> q.app, of |-> q.of, from |-> q.from, to |-> q.to,
                   clear |-> ~Banned(q.of)]]
    /\ UNCHANGED <<jobs, member, actions, past, faults, apps>>

EnsureActivates(r) ==
    /\ At(r, "reactivate")
    /\ LET q == req[r]
           row == [member[q.of] EXCEPT !.active = TRUE]
       IN  /\ SetActive(q.of, TRUE)
           /\ Goto(r, AfterActive(q, row))
           /\ Remember(IF q.clear THEN {<<"readmitted", q.of>>} ELSE {})
    /\ UNCHANGED <<jobs, actions, faults, apps>>

\* change_member_role: whatever the role has become since it was read.
EnsurePromotes(r) ==
    /\ At(r, "promote")
    /\ SetRole(req[r].of, DesiredRole(req[r]))
    /\ Remember(Unwatched(r, req[r].of))
    /\ Goto(r, "cas")
    /\ UNCHANGED <<jobs, actions, faults, apps>>

\* The unique index lets only one request create the row; the other fails.
EnsureCreates(r) ==
    /\ At(r, "new member")
    /\ \/ /\ ~HasRow(req[r].of)
          /\ CreateMember(req[r].of, DesiredRole(req[r]))
          /\ Goto(r, "cas")
       \/ /\ HasRow(req[r].of)
          /\ Answer(r)
          /\ UNCHANGED member
    /\ UNCHANGED <<jobs, actions, past, faults, apps>>

\* update_application_status.
CasStatus(id, expected, to) ==
    /\ StatusOf(id) = expected
    /\ apps' = {IF x.id = id THEN [x EXCEPT !.status = to] ELSE x : x \in apps}

SwapStatus(r) ==
    /\ At(r, "cas")
    /\ LET q == req[r]
       IN  \/ /\ CasStatus(q.app, q.from, q.to)
              /\ IF q.to \in {"rejected", "withdrawn"} THEN Goto(r, "recruit?") ELSE Answer(r)
              /\ UNCHANGED past
           \/ /\ StatusOf(q.app) # q.from
              /\ Answer(r)
              /\ Remember(IF q.to \in {"trial", "accepted"} THEN {<<"outrun", q.of>>} ELSE {})
              /\ UNCHANGED apps
    /\ UNCHANGED <<jobs, member, actions, faults>>

\* Variant: only a full member is deactivated.
FindMember(r) ==
    /\ At(r, "recruit?")
    /\ IF member[req[r].of].active /\ member[req[r].of].role = "member"
       THEN Goto(r, "deactivate")
       ELSE Answer(r)
    /\ UNCHANGED <<jobs, member, actions, past, faults, apps>>

FindRecruit(r) ==
    /\ At(r, "recruit?")
    /\ IF member[req[r].of].active /\ member[req[r].of].role = "recruit"
       THEN Goto(r, "deactivate")
       ELSE Answer(r)
    /\ UNCHANGED <<jobs, member, actions, past, faults, apps>>

\* History: the member was meanwhile taken in by another application, or is
\* an admin by now.
DropRecruit(r) ==
    /\ At(r, "deactivate")
    /\ SetActive(req[r].of, FALSE)
    /\ Remember((IF Latest(req[r].of).id # req[r].app THEN {<<"crossed", req[r].of>>} ELSE {})
                \cup Unwatched(r, req[r].of))
    /\ Answer(r)
    /\ UNCHANGED <<jobs, actions, faults, apps>>

-----------------------------------------------------------------------------
(* Faults *)

ApplicationSteps ==
    {"banned?", "open?", "create", "recount", "delete", "ensure", "ban check",
     "reactivate", "promote", "new member", "cas", "recruit?", "deactivate"}

\* A failed statement or a dropped connection ends the request where it is.
ApplicationStops(r) ==
    /\ req[r].pc \in ApplicationSteps
    /\ Fault
    /\ Remember(IF req[r].pc \in {"recount", "delete", "promote", "cas", "recruit?", "deactivate"}
                THEN {<<"stopped", req[r].of>>} ELSE {})
    /\ Answer(r)
    /\ UNCHANGED <<jobs, member, actions, apps>>

ApplicationNext ==
    \E r \in Requests :
        \/ \E p \in Persons : SubmitLoads(r, p) \/ WithdrawLoads(r, p)
        \/ \E me \in Persons, x \in apps, to \in {"trial", "accepted", "rejected", "withdrawn"} :
              ReviewLoads(r, me, x, to)
        \/ SubmitChecksBan(r) \/ SubmitChecksOpen(r) \/ CreateApplication(r)
        \/ CountOpen(r) \/ DeleteApplication(r)
        \/ EnsureLoads(r) \/ EnsureChecksBan(r) \/ EnsureActivates(r)
        \/ EnsurePromotes(r) \/ EnsureCreates(r)
        \/ SwapStatus(r) \/ FindRecruit(r) \/ DropRecruit(r)
        \/ ApplicationStops(r)
=============================================================================
