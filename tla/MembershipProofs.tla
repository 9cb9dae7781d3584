-------------------------- MODULE MembershipProofs --------------------------
(***************************************************************************)
(* Membership for any number of people and requests: an admin who can act  *)
(* remains, a ban holds, whoever is accepted is active, the tables are in  *)
(* order, set-up makes one admin and can be repeated until it has, and an  *)
(* active recruit who applied has an application to show for it.           *)
(***************************************************************************)
EXTENDS Membership, FiniteSetTheorems, TLAPS

-----------------------------------------------------------------------------
(* The inductive invariant. *)

MemberRow == [role : Roles, active : BOOLEAN]

\* Where a moderation request is after it has read its target, after it has
\* decided, and after it has written.
Judging == {"count", "decide"}
Decided == {"write", "check", "undo", "row"}
Watching == {"check", "undo"}
Moderating == {"load", "lift"} \cup Judging \cup Decided

\* Where a review provisions the member.
Ensuring == {"ensure", "ban check", "new member", "reactivate", "promote"}

\* Where a set-up request holds the lock, and where it still has to make the
\* admin or has found that there is no member.
Locking == {"user", "admin", "user needed?", "drop user", "member left?", "release"}
Early == {"user", "admin", "drop user", "release"}
Making == {"admin", "user needed?", "drop user"}

\* The locals of a request have the fields its next step reads; what it has
\* decided to look at again was an admin.
Shape(q) ==
    /\ "pc" \in DOMAIN q
    /\ q.pc \in {"idle", "over", "claim"} \cup Moderating \cup ApplicationSteps \cup Locking
    /\ q.pc \notin {"idle", "over"} => q.of \in Persons
    /\ q.pc \in Moderating => q.job \in ModerationJobs
    /\ q.pc \in Judging \cup Decided => q.target \in MemberRow
    /\ q.pc \in Decided => q.actionable \in BOOLEAN
    /\ q.pc \in Decided /\ q.actionable => q.target.active /\ q.target.role = "admin"
    /\ q.pc \in Watching => q.actionable /\ RemovesAdmin(q.job, q.target)
    /\ q.pc = "row" => q.job = Ban
    /\ q.pc \in Ensuring \cup {"cas"} =>
          q.from \in Open /\ q.to \in {"trial", "accepted", "rejected", "withdrawn"}
    /\ q.pc = "ban check" => q.row \in MemberRow
    /\ q.pc = "reactivate" => q.clear

\* Whoever works on a row has found one, and rows never go; set-up is at work
\* only while there is no member, and holds the lock.
Sees(q) ==
    /\ q.pc \in Judging \cup Decided \cup {"ban check", "reactivate", "promote", "deactivate"}
          => HasRow(q.of)
    /\ q.pc \in Ensuring => AnyMember
    /\ q.pc \in Early => ~AnyMember
    /\ q.pc \in Locking => claimed

\* Tables and requests are of their types.
Typed ==
    /\ jobs \in [Requests -> SUBSET
          ((ModerationJobs \cup ApplicationJobs \cup {Setup}) \X Persons)]
    /\ member \in [Persons -> MemberRow \cup {NoRow}]
    /\ req = [r \in Requests |-> req[r]]
    /\ past \subseteq Events \X Persons
    /\ users \subseteq Persons
    /\ claimed \in BOOLEAN

BaseInv ==
    /\ Typed
    /\ \A r \in Requests : Shape(req[r])
    /\ \A r \in Requests : Sees(req[r])
    /\ \A r, q \in Requests : req[r].pc \in Locking /\ req[q].pc \in Locking => r = q
    /\ AnyMember => claimed

\* A row of moderation_action is about a member and is written once; while
\* its request may still take it back, it is a suspension.
ActionInv ==
    /\ \A x \in actions :
          /\ x.of \in Persons /\ HasRow(x.of) /\ x.type \in {"suspension", "ban"}
          /\ x.id \in Requests => req[x.id].pc \in Watching \cup {"over"}
          /\ x.id \in Requests /\ req[x.id].pc \in Watching => req[x.id].job = Suspend
    /\ \A x, y \in actions : x.id = y.id => x = y

\* An application is written once; of two that are open, one is about to be
\* counted or taken back by the request that made it.
Unsettled(x) == x.id \in Requests /\ req[x.id].pc \in {"recount", "delete"}

AppInv ==
    /\ IsFiniteSet(apps)
    /\ \A x \in apps :
          /\ x = [id |-> x.id, user |-> x.user, status |-> x.status, at |-> x.at]
          /\ x.id # "none" /\ x.user \in Persons /\ x.status \in Statuses /\ x.at \in Nat
          /\ x.id \in Requests => req[x.id].pc \in {"recount", "delete", "over"}
          /\ Unsettled(x) => req[x.id].of = x.user
    /\ \A x, y \in apps : x.id = y.id \/ x.at = y.at => x = y

OpenInv ==
    \A x, y \in apps :
        x # y /\ x.user = y.user /\ x.status \in Open /\ y.status \in Open
            => Unsettled(x) \/ Unsettled(y) \/ Happened("stopped", x.user)

\* The member is out, or was let in again openly.
Shut(p) == ~member[p].active \/ Happened("activated", p) \/ Happened("readmitted", p)

\* A request that bans a member, and found the row inactive or has made it so.
BanShuts(q) ==
    /\ q.pc \in Judging \cup Decided /\ q.job = Ban /\ ~q.target.active => Shut(q.of)
    /\ q.pc \in {"check", "undo", "row"} /\ q.job = Ban => Shut(q.of)

BanInv ==
    /\ \A p \in Persons : Banned(p) => Shut(p)
    /\ \A r \in Requests : BanShuts(req[r])

\* p can act as an admin, or each thing in the way is about to be looked at
\* again by the request that did it.
Watched(r, p) == req[r].pc \in Watching /\ req[r].of = p

FlagKept(p) ==
    member[p].active \/ \E r \in Requests : Watched(r, p) /\ req[r].job \in {Ban, Deactivate}

RoleKept(p) ==
    \/ member[p].role = "admin"
    \/ \E r \in Requests :
          Watched(r, p) /\ req[r].job.kind = "role" /\ member[p].role = req[r].job.to

ClearKept(p) == \A x \in actions : x.of = p => x.id \in Requests /\ Watched(x.id, p)

Restorable(p) == FlagKept(p) /\ RoleKept(p) /\ ClearKept(p)

Lost == Excused({"unwatched", "unrestored", "stopped"})

AdminInv == AnyMember /\ ~Lost => \E p \in Persons : Restorable(p)

\* Whoever set-up has made has a row and an account, and is the only one.
BootInv ==
    /\ \A p \in Persons : Happened("booted", p) => HasRow(p) /\ p \in users
    /\ \A p, q \in Persons : Happened("booted", p) /\ Happened("booted", q) => p = q
    /\ \A r \in Requests : req[r].pc = "admin" => req[r].of \in users
    /\ ~AnyMember /\ ~Excused({"stopped"}) =>
          /\ claimed => \E r \in Requests : req[r].pc \in Locking
          /\ \A p \in users : \E r \in Requests : req[r].pc \in Making /\ req[r].of = p

\* An accepted applicant is active, or was deactivated openly, or a later
\* application has come to an end.
Out(p) == \E e \in {"deactivated", "crossed", "rolled back"} : Happened(e, p)

Superseded(x) ==
    \E y \in apps : y.user = x.user /\ x.at < y.at /\ y.status \in {"rejected", "withdrawn"}

\* A review that has made the member active may go on to swap the status.
Held(q) ==
    \/ member[q.of].active \/ Out(q.of)
    \/ \A x \in apps : x.id = q.app /\ x.status = q.from => Superseded(x)

Ended == {"rejected", "withdrawn"}
Reviewing == Ensuring \cup {"cas"}

\* What a review relies on: the application it works on was created before,
\* is of the member it provisions, and is at an end when it comes to
\* deactivate a recruit.
Accepts(q) ==
    /\ q.pc \in Reviewing \cup {"recruit?", "deactivate"} =>
          (q.app \in Requests => req[q.app].pc \in {"recount", "delete", "over"})
    /\ q.pc \in {"recruit?", "deactivate"} => \A x \in apps : x.id = q.app => x.status \in Ended
    /\ q.pc \in Reviewing => \A x \in apps : x.id = q.app =>
          x.user = q.of /\ (q.from = "trial" => x.status # "pending")
    /\ (q.pc \in {"promote", "cas"} \/ (q.pc = "ban check" /\ q.row.active)) =>
          (q.to \in {"trial", "accepted"} => Held(q))

AcceptInv ==
    /\ \A x \in apps : x.status = "accepted" => member[x.user].active \/ Out(x.user) \/ Superseded(x)
    /\ \A r \in Requests : Accepts(req[r])

IInv ==
    BaseInv /\ ActionInv /\ AppInv /\ OpenInv /\ BanInv /\ AdminInv /\ BootInv /\ AcceptInv

-----------------------------------------------------------------------------
(* Requests and rows: what the statements of MemberTable do. *)

Others(r) == \A q \in Requests \ {r} : req'[q] = req[q]

\* What r has read stays as it was.
SameLocals(r) ==
    /\ req'[r].of = req[r].of /\ req'[r].job = req[r].job
    /\ req'[r].target = req[r].target /\ req'[r].actionable = req[r].actionable
    /\ req'[r].app = req[r].app /\ req'[r].from = req[r].from /\ req'[r].to = req[r].to
    /\ req'[r].row = req[r].row /\ req'[r].clear = req[r].clear
    /\ req'[r].active = req[r].active

ReqMap == req = [r \in Requests |-> req[r]]

\* Goto moves one request and leaves its locals alone.
LEMMA GotoFacts ==
    ASSUME NEW r \in Requests, NEW pc, ReqMap, "pc" \in DOMAIN req[r], Goto(r, pc)
    PROVE  /\ ReqMap' /\ Others(r) /\ SameLocals(r)
           /\ req'[r].pc = pc /\ "pc" \in DOMAIN req'[r]
<1>1. ReqMap' /\ Others(r)
  BY DEF ReqMap, Goto, Others
<1>2. req'[r] = [req[r] EXCEPT !.pc = pc]
  BY DEF ReqMap, Goto
<1>3. req'[r].pc = pc /\ "pc" \in DOMAIN req'[r]
  BY <1>2
<1>4. SameLocals(r)
  BY <1>2 DEF SameLocals
<1> QED
  BY <1>1, <1>3, <1>4

\* Answer ends one request.
LEMMA AnswerFacts ==
    ASSUME NEW r \in Requests, ReqMap, Answer(r)
    PROVE  /\ ReqMap' /\ Others(r)
           /\ req'[r] = Over /\ req'[r].pc = "over" /\ "pc" \in DOMAIN req'[r]
BY DEF ReqMap, Answer, Others, Over

MemberMap == member \in [Persons -> MemberRow \cup {NoRow}]

Rows == \A p \in Persons : HasRow(p) => HasRow(p)'

\* Setting the flag of a row keeps its role and every other row.
LEMMA SetActiveFacts ==
    ASSUME NEW p \in Persons, NEW to \in BOOLEAN, MemberMap, HasRow(p), SetActive(p, to)
    PROVE  /\ MemberMap'
           /\ member'[p].active = to /\ member'[p].role = member[p].role
           /\ \A q \in Persons \ {p} : member'[q] = member[q]
           /\ \A q \in Persons : HasRow(q)' <=> HasRow(q)
<1>1. member[p] \in MemberRow
  BY DEF MemberMap, HasRow
<1>2. /\ member' = [member EXCEPT ![p] = member'[p]]
      /\ member'[p] \in MemberRow /\ member'[p].active = to /\ member'[p].role = member[p].role
  BY <1>1 DEF MemberMap, SetActive, MemberRow
<1>3. member'[p] # NoRow
  BY <1>2 DEF MemberRow, NoRow, Roles
<1> QED
  BY <1>2, <1>3 DEF MemberMap, HasRow

\* Setting the role of a row keeps its flag and every other row.
LEMMA SetRoleFacts ==
    ASSUME NEW p \in Persons, NEW to \in Roles, MemberMap, HasRow(p), SetRole(p, to)
    PROVE  /\ MemberMap'
           /\ member'[p].role = to /\ member'[p].active = member[p].active
           /\ \A q \in Persons \ {p} : member'[q] = member[q]
           /\ \A q \in Persons : HasRow(q)' <=> HasRow(q)
<1>1. member[p] \in MemberRow
  BY DEF MemberMap, HasRow
<1>2. /\ member' = [member EXCEPT ![p] = member'[p]]
      /\ member'[p] \in MemberRow /\ member'[p].role = to /\ member'[p].active = member[p].active
  BY <1>1 DEF MemberMap, SetRole, MemberRow
<1>3. member'[p] # NoRow
  BY <1>2 DEF MemberRow, NoRow, Roles
<1> QED
  BY <1>2, <1>3 DEF MemberMap, HasRow

\* Creating a row makes an active member and keeps every other row.
LEMMA CreateMemberFacts ==
    ASSUME NEW p \in Persons, NEW role \in Roles, MemberMap, CreateMember(p, role)
    PROVE  /\ MemberMap'
           /\ member'[p].role = role /\ member'[p].active = TRUE /\ HasRow(p)'
           /\ \A q \in Persons \ {p} : member'[q] = member[q]
           /\ \A q \in Persons \ {p} : HasRow(q)' <=> HasRow(q)
<1>1. /\ member' = [member EXCEPT ![p] = [role |-> role, active |-> TRUE]]
      /\ [role |-> role, active |-> TRUE] \in MemberRow
  BY DEF CreateMember, MemberRow
<1>2. [role |-> role, active |-> TRUE] # NoRow
  BY DEF NoRow, Roles
<1> QED
  BY <1>1, <1>2 DEF MemberMap, HasRow

-----------------------------------------------------------------------------
(* Tables and requests are of their types. *)

\* A step of one request keeps the types if that request ends up in order,
\* rows stay, and the lock and the empty table are what the others rely on.
LEMMA StepBase ==
    ASSUME BaseInv, NEW r \in Requests, jobs' = jobs, MemberMap', Rows, ReqMap', Others(r),
           Shape(req'[r]), Sees(req[r])',
           \A q \in Requests \ {r} : req[q].pc \in Early => ~AnyMember',
           \A q \in Requests \ {r} : req[q].pc \in Locking => claimed' /\ req'[r].pc \notin Locking,
           AnyMember' => claimed', claimed' \in BOOLEAN,
           past' \subseteq Events \X Persons, users' \subseteq Persons
    PROVE  BaseInv'
<1>1. Typed'
  BY DEF BaseInv, Typed, MemberMap, ReqMap
<1>2. AnyMember => AnyMember'
  BY DEF Rows, AnyMember
<1>3. \A q \in Requests : Shape(req'[q])
  BY DEF BaseInv, Others
<1>4. \A q \in Requests : Sees(req[q])'
  <2> SUFFICES ASSUME NEW q \in Requests, q # r PROVE Sees(req[q])'
    OBVIOUS
  <2>1. req'[q] = req[q] /\ Shape(req[q]) /\ Sees(req[q])
    BY DEF BaseInv, Others
  <2>2. req[q].pc \in Judging \cup Decided \cup {"ban check", "reactivate", "promote", "deactivate"}
           => HasRow(req[q].of)'
    <3> HAVE req[q].pc \in Judging \cup Decided \cup {"ban check", "reactivate", "promote", "deactivate"}
    <3>1. req[q].of \in Persons
      BY <2>1 DEF Shape, Judging, Decided
    <3>2. PICK p \in Persons : p = req[q].of
      BY <3>1
    <3>3. HasRow(p) /\ req'[q].of = p
      BY <2>1, <3>2 DEF Sees
    <3> QED
      BY <3>3 DEF Rows
  <2>3. req[q].pc \in Ensuring => AnyMember'
    BY <2>1, <1>2 DEF Sees
  <2>4. req[q].pc \in Early => ~AnyMember'
    OBVIOUS
  <2>5. req[q].pc \in Locking => claimed'
    BY Zenon
  <2> QED
    BY <2>1, <2>2, <2>3, <2>4, <2>5 DEF Sees
<1>5. \A s, q \in Requests : req'[s].pc \in Locking /\ req'[q].pc \in Locking => s = q
  BY DEF BaseInv, Others
<1> QED
  BY <1>1, <1>3, <1>4, <1>5 DEF BaseInv

\* The same for a step that leaves the lock and the accounts alone and does
\* not make the first member.
LEMMA PlainBase ==
    ASSUME BaseInv, NEW r \in Requests, jobs' = jobs, MemberMap', Rows, AnyMember' => AnyMember,
           ReqMap', Others(r), Shape(req'[r]), Sees(req[r])',
           req'[r].pc \in Locking => req[r].pc \in Locking,
           claimed' = claimed, users' = users, past' \subseteq Events \X Persons
    PROVE  BaseInv'
<1>1. \A q \in Requests : Sees(req[q])
  BY DEF BaseInv
<1>2. \A q \in Requests \ {r} : req[q].pc \in Early => ~AnyMember'
  BY <1>1 DEF Sees
<1>3. \A q \in Requests \ {r} : req[q].pc \in Locking => claimed' /\ req'[r].pc \notin Locking
  BY <1>1 DEF BaseInv, Sees
<1>4. AnyMember' => claimed'
  BY DEF BaseInv
<1>5. claimed' \in BOOLEAN /\ users' \subseteq Persons
  BY DEF BaseInv, Typed
<1> QED
  BY <1>2, <1>3, <1>4, <1>5, StepBase

\* The same for a request that is over.
LEMMA OverBase ==
    ASSUME BaseInv, NEW r \in Requests, jobs' = jobs, MemberMap', Rows, AnyMember' => AnyMember,
           Answer(r), claimed' = claimed, users' = users, past' \subseteq Events \X Persons
    PROVE  BaseInv'
<1>1. ReqMap
  BY DEF BaseInv, Typed, ReqMap
<1>2. /\ ReqMap' /\ Others(r)
      /\ req'[r].pc = "over" /\ "pc" \in DOMAIN req'[r]
  BY <1>1, AnswerFacts
<1>3. Shape(req'[r]) /\ Sees(req[r])' /\ req'[r].pc \notin Locking
  BY <1>2 DEF Shape, Sees, Moderating, Judging, Decided, Watching, Ensuring, Early, Locking
<1> QED
  BY <1>2, <1>3, PlainBase

\* Nothing happens to the member table.
LEMMA SameRows ==
    ASSUME BaseInv, member' = member
    PROVE  MemberMap' /\ Rows /\ (AnyMember' <=> AnyMember) /\ \A p \in Persons : HasRow(p)' <=> HasRow(p)
BY DEF BaseInv, Typed, MemberMap, Rows, AnyMember, HasRow

\* Remembering an event of Events.
LEMMA RememberFacts ==
    ASSUME BaseInv, NEW events, events \subseteq Events \X Persons, Remember(events)
    PROVE  past' \subseteq Events \X Persons
BY DEF BaseInv, Typed, Remember

\* What BaseInv says of one request.
LEMMA RequestFacts ==
    ASSUME BaseInv, NEW r \in Requests
    PROVE  Shape(req[r]) /\ Sees(req[r]) /\ ReqMap /\ MemberMap /\ "pc" \in DOMAIN req[r]
BY DEF BaseInv, Typed, ReqMap, MemberMap, Shape

\* The events remembered are about persons.
LEMMA EventFacts ==
    ASSUME NEW p \in Persons, NEW r \in Requests
    PROVE  /\ \A e \in Events : {<<e, p>>} \subseteq Events \X Persons
           /\ Unwatched(r, p) \subseteq Events \X Persons
           /\ p = req[r].of => Slip(r) \subseteq Events \X Persons
<1>1. \A e \in Events : {<<e, p>>} \subseteq Events \X Persons
  OBVIOUS
<1>2. Unwatched(r, p) \subseteq Events \X Persons
  <2>1. CASE Guarded(r, p)
    BY <2>1, <1>1 DEF Unwatched, Events
  <2>2. CASE ~Guarded(r, p)
    BY <2>2 DEF Unwatched
  <2> QED
    BY <2>1, <2>2
<1>3. ASSUME p = req[r].of PROVE Slip(r) \subseteq Events \X Persons
  BY <1>2, <1>3 DEF Slip
<1> QED
  BY <1>1, <1>2, <1>3

\* Authenticate keeps the types.
LEMMA AuthenticateBase ==
    ASSUME BaseInv, NEW r \in Requests, NEW me \in Persons, NEW of \in Persons,
           NEW job \in ModerationJobs, Authenticate(r, me, of, job), UNCHANGED <<users, claimed>>
    PROVE  BaseInv'
<1>1. Shape(req[r]) /\ ReqMap
  BY RequestFacts
<1>2. /\ req'[r].pc \in {"lift", "load"} /\ "pc" \in DOMAIN req'[r]
      /\ req'[r].job = job /\ req'[r].of = of
  BY <1>1 DEF Authenticate, ReqMap
<1>3. ReqMap' /\ Others(r)
  BY <1>1 DEF Authenticate, ReqMap, Others
<1>4. Shape(req'[r])
  BY <1>2 DEF Shape, Moderating, Judging, Decided, Watching, Ensuring
<1>5. Sees(req[r])' /\ req'[r].pc \notin Locking
  BY <1>2 DEF Sees, Judging, Decided, Ensuring, Early, Locking
<1>6. MemberMap' /\ Rows /\ (AnyMember' <=> AnyMember)
  BY SameRows DEF Authenticate
<1> QED
  BY <1>3, <1>4, <1>5, <1>6, PlainBase DEF Authenticate, BaseInv, Typed

\* LoadTarget keeps the types.
LEMMA LoadTargetBase ==
    ASSUME BaseInv, NEW r \in Requests, LoadTarget(r), UNCHANGED <<users, claimed>>
    PROVE  BaseInv'
<1>1. Shape(req[r]) /\ ReqMap /\ MemberMap /\ req[r].pc = "load"
  BY RequestFacts DEF LoadTarget, At
<1>2. /\ MemberMap' /\ Rows /\ (AnyMember' <=> AnyMember)
      /\ \A p \in Persons : HasRow(p)' <=> HasRow(p)
  BY SameRows DEF LoadTarget
<1>3. UNCHANGED <<jobs, past>> /\ past' \subseteq Events \X Persons
  BY DEF LoadTarget, BaseInv, Typed
<1>4. CASE Answer(r)
  BY <1>2, <1>3, <1>4, OverBase
<1>5. CASE ~Answer(r)
  <2>1. /\ member[req[r].of] # NoRow
        /\ req' = [req EXCEPT ![r] =
               [pc |-> "count", job |-> req[r].job, me |-> req[r].me, role |-> req[r].role,
                of |-> req[r].of, target |-> member[req[r].of]]]
    BY <1>5 DEF LoadTarget
  <2>2. ReqMap' /\ Others(r)
    BY <2>1, <1>1 DEF ReqMap, Others
  <2>3. /\ req'[r].pc = "count" /\ "pc" \in DOMAIN req'[r] /\ req'[r].job = req[r].job
        /\ req'[r].of = req[r].of /\ req'[r].target = member[req[r].of]
    BY <2>1, <1>1 DEF ReqMap
  <2>4. req[r].of \in Persons /\ req[r].job \in ModerationJobs
    BY <1>1 DEF Shape, Moderating
  <2>5. req'[r].target \in MemberRow
    BY <2>1, <2>3, <2>4, <1>1 DEF MemberMap
  <2>6. Shape(req'[r])
    BY <2>3, <2>4, <2>5 DEF Shape, Moderating, Judging, Decided, Watching, Ensuring
  <2>7. Sees(req[r])' /\ req'[r].pc \notin Locking
    BY <2>1, <2>3, <2>4, <1>2 DEF Sees, Judging, Decided, Ensuring, Early, Locking, HasRow
  <2> QED
    BY <1>2, <1>3, <2>2, <2>6, <2>7, PlainBase
<1> QED
  BY <1>4, <1>5

\* CountAdmins keeps the types.
LEMMA CountAdminsBase ==
    ASSUME BaseInv, NEW r \in Requests, CountAdmins(r), UNCHANGED <<users, claimed>>
    PROVE  BaseInv'
<1>1. Shape(req[r]) /\ Sees(req[r]) /\ ReqMap /\ req[r].pc = "count"
  BY RequestFacts DEF CountAdmins, At
<1>2. /\ MemberMap' /\ Rows /\ (AnyMember' <=> AnyMember)
      /\ \A p \in Persons : HasRow(p)' <=> HasRow(p)
  BY SameRows DEF CountAdmins
<1>3. UNCHANGED <<jobs, past>> /\ past' \subseteq Events \X Persons
  BY DEF CountAdmins, BaseInv, Typed
<1>4. ReqMap' /\ Others(r)
  BY <1>1 DEF ReqMap, Others, CountAdmins
<1>5. /\ req'[r].pc = "decide" /\ "pc" \in DOMAIN req'[r] /\ req'[r].job = req[r].job
      /\ req'[r].of = req[r].of /\ req'[r].target = req[r].target
  BY <1>1 DEF ReqMap, CountAdmins
<1>6. /\ req[r].of \in Persons /\ req[r].job \in ModerationJobs
      /\ req[r].target \in MemberRow
  BY <1>1 DEF Shape, Moderating, Judging
<1>7. HasRow(req[r].of)
  BY <1>1 DEF Sees, Judging
<1>8. Shape(req'[r])
  BY <1>5, <1>6 DEF Shape, Moderating, Judging, Decided, Watching, Ensuring
<1>9. Sees(req[r])' /\ req'[r].pc \notin Locking
  BY <1>5, <1>6, <1>7, <1>2 DEF Sees, Judging, Decided, Ensuring, Early, Locking, HasRow
<1> QED
  BY <1>2, <1>3, <1>4, <1>8, <1>9, PlainBase

\* Decide keeps the types.
LEMMA DecideBase ==
    ASSUME BaseInv, NEW r \in Requests, Decide(r), UNCHANGED <<users, claimed>>
    PROVE  BaseInv'
<1>1. Shape(req[r]) /\ Sees(req[r]) /\ ReqMap /\ req[r].pc = "decide"
  BY RequestFacts DEF Decide, At
<1>2. /\ MemberMap' /\ Rows /\ (AnyMember' <=> AnyMember)
      /\ \A p \in Persons : HasRow(p)' <=> HasRow(p)
  BY SameRows DEF Decide
<1>3. UNCHANGED <<jobs, past>> /\ past' \subseteq Events \X Persons
  BY DEF Decide, BaseInv, Typed
<1>4. CASE Answer(r)
  BY <1>2, <1>3, <1>4, OverBase
<1>5. CASE ~Answer(r)
  <2> DEFINE actionable == /\ req[r].target.active
                           /\ req[r].target.role = "admin"
                           /\ ~Suspended(req[r].of)
  <2>1. req' = [req EXCEPT ![r] =
                  [pc |-> "write", job |-> req[r].job, of |-> req[r].of,
                   target |-> req[r].target, actionable |-> actionable]]
    BY <1>5 DEF Decide
  <2>2. ReqMap' /\ Others(r)
    BY <2>1, <1>1 DEF ReqMap, Others
  <2>3. /\ req'[r].pc = "write" /\ "pc" \in DOMAIN req'[r] /\ req'[r].job = req[r].job
        /\ req'[r].of = req[r].of /\ req'[r].target = req[r].target
        /\ req'[r].actionable = actionable
    BY <2>1, <1>1 DEF ReqMap
  <2>4. actionable \in BOOLEAN /\ (actionable => req[r].target.active /\ req[r].target.role = "admin")
    OBVIOUS
  <2> HIDE DEF actionable
  <2>5. /\ req[r].of \in Persons /\ req[r].job \in ModerationJobs
        /\ req[r].target \in MemberRow
    BY <1>1 DEF Shape, Moderating, Judging
  <2>6. HasRow(req[r].of)
    BY <1>1 DEF Sees, Judging
  <2>7. Shape(req'[r])
    BY <2>3, <2>4, <2>5 DEF Shape, Moderating, Judging, Decided, Watching, Ensuring
  <2>8. Sees(req[r])' /\ req'[r].pc \notin Locking
    BY <2>3, <2>5, <2>6, <1>2 DEF Sees, Judging, Decided, Ensuring, Early, Locking, HasRow
  <2> QED
    BY <1>2, <1>3, <2>2, <2>7, <2>8, PlainBase
<1> QED
  BY <1>4, <1>5

\* A request that has decided goes on to look again or to write its row.
LEMMA DecidedBase ==
    ASSUME BaseInv, NEW r \in Requests, req[r].pc \in Decided,
           jobs' = jobs, MemberMap', \A p \in Persons : HasRow(p)' <=> HasRow(p),
           NEW pc \in {"check", "undo", "row"}, Goto(r, pc),
           pc \in Watching => ChecksAgain(req[r]), pc = "row" => req[r].job = Ban,
           claimed' = claimed, users' = users, past' \subseteq Events \X Persons
    PROVE  BaseInv'
<1>1. Shape(req[r]) /\ Sees(req[r]) /\ ReqMap /\ "pc" \in DOMAIN req[r]
  BY RequestFacts
<1>2. /\ ReqMap' /\ Others(r)
      /\ req'[r].pc = pc /\ "pc" \in DOMAIN req'[r]
  BY <1>1, GotoFacts
<1>3. /\ req'[r].job = req[r].job /\ req'[r].of = req[r].of
      /\ req'[r].target = req[r].target /\ req'[r].actionable = req[r].actionable
  BY <1>1, GotoFacts DEF SameLocals
<1>4. /\ req[r].of \in Persons /\ req[r].job \in ModerationJobs
      /\ req[r].target \in MemberRow /\ req[r].actionable \in BOOLEAN
      /\ req[r].actionable => req[r].target.active /\ req[r].target.role = "admin"
  BY <1>1 DEF Shape, Moderating, Decided
<1>5. HasRow(req[r].of)
  BY <1>1 DEF Sees
<1>6. pc \in Watching => req[r].actionable /\ RemovesAdmin(req[r].job, req[r].target)
  BY DEF ChecksAgain
<1>7. Shape(req'[r])
  BY <1>2, <1>3, <1>4, <1>6 DEF Shape, Moderating, Judging, Decided, Ensuring
<1>8. Sees(req[r])' /\ req'[r].pc \notin Locking
  BY <1>2, <1>3, <1>4, <1>5 DEF Sees, Judging, Decided, Ensuring, Early, Locking, HasRow
<1>9. Rows /\ (AnyMember' => AnyMember)
  BY DEF Rows, AnyMember
<1> QED
  BY <1>2, <1>7, <1>8, <1>9, PlainBase

\* What a request that is about to write has decided.
LEMMA WriteFacts ==
    ASSUME BaseInv, NEW r \in Requests, req[r].pc \in Decided
    PROVE  /\ req[r].of \in Persons /\ req[r].job \in ModerationJobs
           /\ req[r].target \in MemberRow /\ req[r].actionable \in BOOLEAN
           /\ req[r].actionable => req[r].target.active /\ req[r].target.role = "admin"
           /\ HasRow(req[r].of)
<1>1. Shape(req[r]) /\ Sees(req[r])
  BY RequestFacts
<1>2. /\ req[r].of \in Persons /\ req[r].job \in ModerationJobs
      /\ req[r].target \in MemberRow /\ req[r].actionable \in BOOLEAN
      /\ req[r].actionable => req[r].target.active /\ req[r].target.role = "admin"
  BY <1>1 DEF Shape, Moderating, Decided
<1>3. HasRow(req[r].of)
  BY <1>1 DEF Sees
<1> QED
  BY <1>2, <1>3

\* WriteAction keeps the types.
LEMMA WriteActionBase ==
    ASSUME BaseInv, NEW r \in Requests, WriteAction(r), UNCHANGED <<users, claimed>>
    PROVE  BaseInv'
<1>1. req[r].pc \in Decided
  BY DEF WriteAction, At, Decided
<1>2. /\ MemberMap' /\ Rows /\ (AnyMember' <=> AnyMember)
      /\ \A p \in Persons : HasRow(p)' <=> HasRow(p)
  BY SameRows DEF WriteAction
<1>3. past' \subseteq Events \X Persons
  BY <1>1, WriteFacts, EventFacts, RememberFacts DEF WriteAction
<1>4. CASE Answer(r)
  BY <1>2, <1>3, <1>4, OverBase DEF WriteAction
<1>5. CASE ChecksAgain(req[r]) /\ Goto(r, "check")
  BY <1>1, <1>2, <1>3, <1>5, DecidedBase DEF WriteAction
<1> QED
  BY <1>4, <1>5 DEF WriteAction

\* WriteActive keeps the types.
LEMMA WriteActiveBase ==
    ASSUME BaseInv, NEW r \in Requests, WriteActive(r), UNCHANGED <<users, claimed>>
    PROVE  BaseInv'
<1>1. req[r].pc \in Decided
  BY DEF WriteActive, At, Decided
<1>2. PICK p \in Persons : p = req[r].of
  BY <1>1, WriteFacts
<1>3. HasRow(p) /\ MemberMap
  BY <1>1, <1>2, WriteFacts, RequestFacts
<1>4. PICK to \in BOOLEAN : SetActive(p, to)
  BY <1>2 DEF WriteActive
<1>5. MemberMap' /\ \A q \in Persons : HasRow(q)' <=> HasRow(q)
  BY <1>3, <1>4, SetActiveFacts
<1>6. Rows /\ (AnyMember' => AnyMember)
  BY <1>5 DEF Rows, AnyMember
<1>7. past' \subseteq Events \X Persons
  <2>1. /\ {<<"activated", p>>} \subseteq Events \X Persons
        /\ {<<"deactivated", p>>} \subseteq Events \X Persons
        /\ Slip(r) \subseteq Events \X Persons
    BY <1>2, EventFacts DEF Events
  <2> QED
    BY <1>2, <2>1, RememberFacts DEF WriteActive
<1>8. CASE Answer(r)
  BY <1>5, <1>6, <1>7, <1>8, OverBase DEF WriteActive
<1>9. CASE ChecksAgain(req[r]) /\ Goto(r, "check")
  BY <1>1, <1>5, <1>7, <1>9, DecidedBase DEF WriteActive
<1>10. CASE req[r].job = Ban /\ Goto(r, "row")
  BY <1>1, <1>5, <1>7, <1>10, DecidedBase DEF WriteActive, Watching
<1> QED
  BY <1>8, <1>9, <1>10 DEF WriteActive

\* A role asked for is a role.
LEMMA RoleJob ==
    ASSUME NEW job \in ModerationJobs, job.kind = "role"
    PROVE  job.to \in Roles /\ job = ChangeRole(job.to)
BY DEF ModerationJobs, Suspend, Ban, Activate, Deactivate, Lift, ChangeRole

\* WriteRole keeps the types.
LEMMA WriteRoleBase ==
    ASSUME BaseInv, NEW r \in Requests, WriteRole(r), UNCHANGED <<users, claimed>>
    PROVE  BaseInv'
<1>1. req[r].pc \in Decided
  BY DEF WriteRole, At, Decided
<1>2. PICK p \in Persons : p = req[r].of
  BY <1>1, WriteFacts
<1>3. HasRow(p) /\ MemberMap
  BY <1>1, <1>2, WriteFacts, RequestFacts
<1>4. PICK to \in Roles : to = req[r].job.to
  BY <1>1, WriteFacts, RoleJob DEF WriteRole
<1>5. CASE Answer(r) /\ UNCHANGED <<member, past>>
  BY <1>5, SameRows, OverBase DEF WriteRole, BaseInv, Typed
<1>6. CASE SetRole(p, to)
  <2>1. MemberMap' /\ \A q \in Persons : HasRow(q)' <=> HasRow(q)
    BY <1>3, <1>6, SetRoleFacts
  <2>2. Rows /\ (AnyMember' => AnyMember)
    BY <2>1 DEF Rows, AnyMember
  <2>3. past' \subseteq Events \X Persons
    <3>1. Slip(r) \subseteq Events \X Persons /\ {} \subseteq Events \X Persons
      BY <1>2, EventFacts
    <3> QED
      BY <3>1, RememberFacts DEF WriteRole, BaseInv, Typed
  <2>4. CASE Answer(r)
    BY <2>1, <2>2, <2>3, <2>4, OverBase DEF WriteRole
  <2>5. CASE ChecksAgain(req[r]) /\ Goto(r, "check")
    BY <1>1, <2>1, <2>3, <2>5, DecidedBase DEF WriteRole
  <2> QED
    BY <2>4, <2>5 DEF WriteRole
<1> QED
  BY <1>2, <1>4, <1>5, <1>6 DEF WriteRole, CasRole

\* CheckAgain keeps the types.
LEMMA CheckAgainBase ==
    ASSUME BaseInv, NEW r \in Requests, CheckAgain(r), UNCHANGED <<users, claimed>>
    PROVE  BaseInv'
<1>1. req[r].pc \in Decided /\ ChecksAgain(req[r])
  <2>1. req[r].pc = "check"
    BY DEF CheckAgain, At
  <2> QED
    BY <2>1, RequestFacts DEF Shape, Watching, Decided, ChecksAgain
<1>2. /\ MemberMap' /\ Rows /\ (AnyMember' <=> AnyMember)
      /\ \A p \in Persons : HasRow(p)' <=> HasRow(p)
  BY SameRows DEF CheckAgain
<1>3. past' \subseteq Events \X Persons
  BY DEF CheckAgain, BaseInv, Typed
<1>4. CASE Answer(r)
  BY <1>2, <1>3, <1>4, OverBase DEF CheckAgain
<1>5. CASE Goto(r, "undo")
  BY <1>1, <1>2, <1>3, <1>5, DecidedBase DEF CheckAgain
<1>6. CASE req[r].job = Ban /\ Goto(r, "row")
  BY <1>1, <1>2, <1>3, <1>6, DecidedBase DEF CheckAgain
<1> QED
  BY <1>4, <1>5, <1>6 DEF CheckAgain

\* CheckFails keeps the types.
LEMMA CheckFailsBase ==
    ASSUME BaseInv, NEW r \in Requests, CheckFails(r), UNCHANGED <<users, claimed>>
    PROVE  BaseInv'
<1>1. req[r].pc \in Decided /\ ChecksAgain(req[r])
  <2>1. req[r].pc = "check"
    BY DEF CheckFails, At
  <2> QED
    BY <2>1, RequestFacts DEF Shape, Watching, Decided, ChecksAgain
<1>2. /\ MemberMap' /\ Rows /\ (AnyMember' <=> AnyMember)
      /\ \A p \in Persons : HasRow(p)' <=> HasRow(p)
  BY SameRows DEF CheckFails
<1>3. past' \subseteq Events \X Persons
  BY DEF CheckFails, BaseInv, Typed
<1> QED
  BY <1>1, <1>2, <1>3, DecidedBase DEF CheckFails

\* WriteBan keeps the types.
LEMMA WriteBanBase ==
    ASSUME BaseInv, NEW r \in Requests, WriteBan(r), UNCHANGED <<users, claimed>>
    PROVE  BaseInv'
<1>1. req[r].of \in Persons
  BY WriteFacts DEF WriteBan, At, Decided
<1>2. past' \subseteq Events \X Persons
  BY <1>1, EventFacts, RememberFacts DEF WriteBan
<1> QED
  BY <1>2, SameRows, OverBase DEF WriteBan

\* Undo keeps the types.
LEMMA UndoBase ==
    ASSUME BaseInv, NEW r \in Requests, Undo(r), UNCHANGED <<users, claimed>>
    PROVE  BaseInv'
<1>1. req[r].pc \in Decided
  BY DEF Undo, At, Decided
<1>2. PICK p \in Persons : p = req[r].of
  BY <1>1, WriteFacts
<1>3. HasRow(p) /\ MemberMap
  BY <1>1, <1>2, WriteFacts, RequestFacts
<1>4. PICK role \in Roles : role = req[r].target.role
  BY <1>1, WriteFacts DEF MemberRow
<1>5. past' \subseteq Events \X Persons
  <2>1. /\ {<<"activated", p>>} \subseteq Events \X Persons
        /\ {<<"unrestored", p>>} \subseteq Events \X Persons
    BY EventFacts DEF Events
  <2> QED
    BY <1>2, <2>1, RememberFacts DEF Undo, BaseInv, Typed
<1>6. MemberMap' /\ \A q \in Persons : HasRow(q)' <=> HasRow(q)
  <2>1. CASE member' = member
    BY <2>1, SameRows
  <2>2. CASE SetActive(p, TRUE)
    BY <2>2, <1>3, SetActiveFacts
  <2>3. CASE SetRole(p, role)
    BY <2>3, <1>3, SetRoleFacts
  <2> QED
    BY <1>2, <1>4, <2>1, <2>2, <2>3 DEF Undo, CasRole
<1>7. Rows /\ (AnyMember' => AnyMember)
  BY <1>6 DEF Rows, AnyMember
<1> QED
  BY <1>5, <1>6, <1>7, OverBase DEF Undo

\* LiftAction keeps the types.
LEMMA LiftActionBase ==
    ASSUME BaseInv, NEW r \in Requests, LiftAction(r), UNCHANGED <<users, claimed>>
    PROVE  BaseInv'
BY SameRows, OverBase DEF LiftAction, BaseInv, Typed

\* ModerationStops keeps the types.
LEMMA ModerationStopsBase ==
    ASSUME BaseInv, NEW r \in Requests, ModerationStops(r), UNCHANGED <<users, claimed>>
    PROVE  BaseInv'
<1>1. req[r].of \in Persons
  <2>1. req[r].pc \in {"load", "count", "decide", "write", "check", "undo", "row", "lift"}
    BY DEF ModerationStops
  <2> QED
    BY <2>1, RequestFacts DEF Shape
<1>2. past' \subseteq Events \X Persons
  <2>1. {<<"stopped", req[r].of>>} \subseteq Events \X Persons /\ {} \subseteq Events \X Persons
    BY <1>1, EventFacts DEF Events
  <2> QED
    BY <2>1, RememberFacts DEF ModerationStops
<1> QED
  BY <1>2, SameRows, OverBase DEF ModerationStops

\* The handlers of moderation keep the types.
LEMMA ModerationBase ==
    ASSUME BaseInv, ModerationNext, UNCHANGED <<apps, users, claimed>>
    PROVE  BaseInv'
<1>1. PICK r \in Requests :
        \/ \E me, of \in Persons, job \in ModerationJobs : Authenticate(r, me, of, job)
        \/ LoadTarget(r) \/ CountAdmins(r) \/ Decide(r)
        \/ WriteAction(r) \/ WriteActive(r) \/ WriteRole(r)
        \/ CheckAgain(r) \/ WriteBan(r) \/ Undo(r)
        \/ LiftAction(r)
        \/ ModerationStops(r) \/ CheckFails(r)
  BY DEF ModerationNext
<1> QED
  BY <1>1, AuthenticateBase, LoadTargetBase, CountAdminsBase, DecideBase, WriteActionBase,
     WriteActiveBase, WriteRoleBase, CheckAgainBase, WriteBanBase, UndoBase, LiftActionBase,
     ModerationStopsBase, CheckFailsBase

-----------------------------------------------------------------------------
(* The same for applications. *)

\* A step to the next statement of an application's handler.
LEMMA ApplicationStep ==
    ASSUME BaseInv, NEW r \in Requests, jobs' = jobs, MemberMap', Rows, AnyMember' => AnyMember,
           ReqMap', Others(r), req'[r].pc \in ApplicationSteps, "pc" \in DOMAIN req'[r],
           req'[r].of \in Persons,
           req'[r].pc \in {"ban check", "reactivate", "promote", "deactivate"} => HasRow(req[r].of)',
           req'[r].pc \in Ensuring => AnyMember',
           req'[r].pc \in Ensuring \cup {"cas"} =>
              req'[r].from \in Open /\ req'[r].to \in {"trial", "accepted", "rejected", "withdrawn"},
           req'[r].pc = "ban check" => req'[r].row \in MemberRow,
           req'[r].pc = "reactivate" => req'[r].clear,
           claimed' = claimed, users' = users, past' \subseteq Events \X Persons
    PROVE  BaseInv'
<1>1. /\ req'[r].pc \notin Moderating \cup Judging \cup Decided \cup Watching \cup Locking \cup Early
      /\ req'[r].pc # "row"
  BY DEF ApplicationSteps, Moderating, Judging, Decided, Watching, Locking, Early
<1>2. Shape(req'[r])
  BY <1>1 DEF Shape
<1>3. Sees(req[r])'
  BY <1>1 DEF Sees
<1> QED
  BY <1>1, <1>2, <1>3, PlainBase

\* The same for Goto from one statement of a handler to another.
LEMMA ApplicationGoto ==
    ASSUME BaseInv, NEW r \in Requests, jobs' = jobs, MemberMap', Rows, AnyMember' => AnyMember,
           req[r].pc \in ApplicationSteps, NEW pc \in ApplicationSteps, Goto(r, pc),
           pc \in {"reactivate", "promote", "deactivate"} => HasRow(req[r].of),
           pc \in {"reactivate", "promote"} => AnyMember,
           pc \in {"promote", "cas"} => req[r].pc \in Ensuring,
           pc \notin {"ensure", "ban check", "reactivate", "new member"},
           claimed' = claimed, users' = users, past' \subseteq Events \X Persons
    PROVE  BaseInv'
<1>1. Shape(req[r]) /\ Sees(req[r]) /\ ReqMap /\ "pc" \in DOMAIN req[r]
  BY RequestFacts
<1>2. /\ ReqMap' /\ Others(r)
      /\ req'[r].pc = pc /\ "pc" \in DOMAIN req'[r]
      /\ req'[r].of = req[r].of /\ req'[r].to = req[r].to /\ req'[r].from = req[r].from
  BY <1>1, GotoFacts DEF SameLocals
<1>3. PICK p \in Persons : p = req[r].of
  BY <1>1 DEF Shape, ApplicationSteps
<1>4. pc \in {"promote", "deactivate"} => HasRow(req[r].of)'
  BY <1>2, <1>3 DEF Rows, HasRow
<1>5. pc \in {"promote", "cas"} =>
         req'[r].from \in Open /\ req'[r].to \in {"trial", "accepted", "rejected", "withdrawn"}
  BY <1>1, <1>2 DEF Shape, Ensuring
<1>6. pc = "promote" => AnyMember'
  BY <1>3 DEF Rows, AnyMember
<1>7. req'[r].pc \in Ensuring => pc = "promote"
  BY <1>2 DEF Ensuring
<1> QED
  BY <1>2, <1>3, <1>4, <1>5, <1>6, <1>7, ApplicationStep

\* SubmitLoads keeps the types.
LEMMA SubmitLoadsBase ==
    ASSUME BaseInv, NEW r \in Requests, NEW p \in Persons, SubmitLoads(r, p), UNCHANGED <<users, claimed>>
    PROVE  BaseInv'
<1>1. ReqMap
  BY RequestFacts
<1>2. /\ ReqMap' /\ Others(r)
      /\ req'[r].pc \in {"banned?", "open?"} /\ "pc" \in DOMAIN req'[r] /\ req'[r].of = p
  BY <1>1 DEF SubmitLoads, ReqMap, Others
<1>3. /\ req'[r].pc \in ApplicationSteps
      /\ req'[r].pc \notin Ensuring \cup {"cas", "ban check", "reactivate", "promote", "deactivate"}
  BY <1>2 DEF ApplicationSteps, Ensuring
<1>4. MemberMap' /\ Rows /\ (AnyMember' => AnyMember)
  BY SameRows DEF SubmitLoads
<1>5. jobs' = jobs /\ past' \subseteq Events \X Persons
  BY DEF SubmitLoads, BaseInv, Typed
<1> QED
  BY <1>2, <1>3, <1>4, <1>5, ApplicationStep

\* SubmitChecksBan keeps the types.
LEMMA SubmitChecksBanBase ==
    ASSUME BaseInv, NEW r \in Requests, SubmitChecksBan(r), UNCHANGED <<users, claimed>>
    PROVE  BaseInv'
<1>1. MemberMap' /\ Rows /\ (AnyMember' => AnyMember)
  BY SameRows DEF SubmitChecksBan
<1>2. jobs' = jobs /\ past' \subseteq Events \X Persons
  BY DEF SubmitChecksBan, BaseInv, Typed
<1>3. CASE Answer(r)
  BY <1>1, <1>2, <1>3, OverBase
<1>4. CASE Goto(r, "open?")
  BY <1>1, <1>2, <1>4, ApplicationGoto DEF SubmitChecksBan, At, ApplicationSteps
<1> QED
  BY <1>3, <1>4 DEF SubmitChecksBan

\* SubmitChecksOpen keeps the types.
LEMMA SubmitChecksOpenBase ==
    ASSUME BaseInv, NEW r \in Requests, SubmitChecksOpen(r), UNCHANGED <<users, claimed>>
    PROVE  BaseInv'
<1>1. MemberMap' /\ Rows /\ (AnyMember' => AnyMember)
  BY SameRows DEF SubmitChecksOpen
<1>2. jobs' = jobs /\ past' \subseteq Events \X Persons
  BY DEF SubmitChecksOpen, BaseInv, Typed
<1>3. CASE Answer(r)
  BY <1>1, <1>2, <1>3, OverBase
<1>4. CASE Goto(r, "create")
  BY <1>1, <1>2, <1>4, ApplicationGoto DEF SubmitChecksOpen, At, ApplicationSteps
<1> QED
  BY <1>3, <1>4 DEF SubmitChecksOpen

\* CreateApplication keeps the types.
LEMMA CreateApplicationBase ==
    ASSUME BaseInv, NEW r \in Requests, CreateApplication(r), UNCHANGED <<users, claimed>>
    PROVE  BaseInv'
<1>1. MemberMap' /\ Rows /\ (AnyMember' => AnyMember)
  BY SameRows DEF CreateApplication
<1>2. jobs' = jobs /\ past' \subseteq Events \X Persons
  BY DEF CreateApplication, BaseInv, Typed
<1> QED
  BY <1>1, <1>2, ApplicationGoto DEF CreateApplication, At, ApplicationSteps

\* CountOpen keeps the types.
LEMMA CountOpenBase ==
    ASSUME BaseInv, NEW r \in Requests, CountOpen(r), UNCHANGED <<users, claimed>>
    PROVE  BaseInv'
<1>1. MemberMap' /\ Rows /\ (AnyMember' => AnyMember)
  BY SameRows DEF CountOpen
<1>2. jobs' = jobs /\ past' \subseteq Events \X Persons
  BY DEF CountOpen, BaseInv, Typed
<1>3. CASE Answer(r)
  BY <1>1, <1>2, <1>3, OverBase
<1>4. CASE Goto(r, "delete")
  BY <1>1, <1>2, <1>4, ApplicationGoto DEF CountOpen, At, ApplicationSteps
<1> QED
  BY <1>3, <1>4 DEF CountOpen

\* An event about the person of a request at work.
LEMMA ApplicationEvent ==
    ASSUME BaseInv, NEW r \in Requests, req[r].pc \in ApplicationSteps
    PROVE  /\ req[r].of \in Persons
           /\ \A e \in Events : {<<e, req[r].of>>} \subseteq Events \X Persons
           /\ Unwatched(r, req[r].of) \subseteq Events \X Persons
           /\ {} \subseteq Events \X Persons
<1>1. req[r].of \in Persons
  BY RequestFacts DEF Shape, ApplicationSteps
<1> QED
  BY <1>1, EventFacts

\* DeleteApplication keeps the types.
LEMMA DeleteApplicationBase ==
    ASSUME BaseInv, NEW r \in Requests, DeleteApplication(r), UNCHANGED <<users, claimed>>
    PROVE  BaseInv'
<1>1. req[r].pc \in ApplicationSteps
  BY DEF DeleteApplication, At, ApplicationSteps
<1>2. past' \subseteq Events \X Persons
  BY <1>1, ApplicationEvent, RememberFacts DEF DeleteApplication, Events
<1> QED
  BY <1>2, SameRows, OverBase DEF DeleteApplication

\* ApplicationStops keeps the types.
LEMMA ApplicationStopsBase ==
    ASSUME BaseInv, NEW r \in Requests, ApplicationStops(r), UNCHANGED <<users, claimed>>
    PROVE  BaseInv'
<1>1. req[r].pc \in ApplicationSteps
  BY DEF ApplicationStops
<1>2. {<<"stopped", req[r].of>>} \subseteq Events \X Persons
  BY <1>1, ApplicationEvent DEF Events
<1>3. past' \subseteq Events \X Persons
  BY <1>2, RememberFacts DEF ApplicationStops
<1> QED
  BY <1>3, SameRows, OverBase DEF ApplicationStops

-----------------------------------------------------------------------------
(* The newest application *)

\* A set of numbers has a least one.
LEMMA LeastNumber ==
    ASSUME NEW T \in SUBSET Nat, T # {}
    PROVE  \E x \in T : \A y \in T : x <= y
<1> DEFINE R == OpToRel(<, Nat)
<1>1. IsWellFoundedOn(R, Nat)
  BY NatLessThanWellFounded
<1>2. \A x, y \in Nat : <<y, x>> \in R <=> y < x
  BY DEF OpToRel
<1> HIDE DEF R
<1>3. PICK x \in T : \A y \in T : ~(<<y, x>> \in R)
  BY <1>1, WFMin
<1>4. \A y \in T : ~(y < x)
  BY <1>2, <1>3
<1>5. \A y \in T : x <= y
  BY <1>4
<1> QED
  BY <1>5

\* Of finitely many things with numbers one has the greatest.
LEMMA Greatest ==
    ASSUME NEW A, IsFiniteSet(A), A # {}, NEW f \in [A -> Nat]
    PROVE  \E x \in A : \A y \in A : f[y] <= f[x]
<1> DEFINE Above(y) == {z \in A : f[y] < f[z]}
           rank(y) == Cardinality(Above(y))
           T == {rank(y) : y \in A}
<1>1. \A y \in A : IsFiniteSet(Above(y)) /\ rank(y) \in Nat
  BY FS_Subset, FS_CardinalityType
<1>2. ASSUME NEW x \in A, NEW y \in A, f[x] < f[y] PROVE rank(y) < rank(x)
  <2>1. Above(y) \in SUBSET Above(x) /\ y \in Above(x) /\ y \notin Above(y)
    BY <1>2
  <2>2. Cardinality(Above(y)) <= Cardinality(Above(x)) /\ Cardinality(Above(x)) # Cardinality(Above(y))
    BY <1>1, <2>1, FS_Subset
  <2> QED
    BY <1>1, <2>2
<1> HIDE DEF rank
<1>3. PICK n \in T : \A m \in T : n <= m
  <2>1. T \in SUBSET Nat /\ T # {}
    BY <1>1
  <2> HIDE DEF T
  <2> QED
    BY <2>1, LeastNumber
<1>4. PICK x \in A : n = rank(x)
  BY <1>3
<1>5. ASSUME NEW y \in A PROVE f[y] <= f[x]
  <2>1. rank(x) <= rank(y) /\ rank(x) \in Nat /\ rank(y) \in Nat
    BY <1>1, <1>3, <1>4
  <2>2. ~(f[x] < f[y])
    BY <1>2, <2>1
  <2> QED
    BY <2>2
<1> QED
  BY <1>5

\* Some application of a set of them is the newest.
LEMMA NewestExists ==
    ASSUME AppInv, NEW A \in SUBSET apps, A # {}
    PROVE  \E x \in A : \A y \in A : y.at <= x.at
<1>1. IsFiniteSet(A)
  BY FS_Subset DEF AppInv
<1> DEFINE f == [x \in A |-> x.at]
<1>2. f \in [A -> Nat]
  BY DEF AppInv
<1>3. \A x \in A : f[x] = x.at
  OBVIOUS
<1> HIDE DEF f
<1>4. PICK x \in A : \A y \in A : f[y] <= f[x]
  BY <1>1, <1>2, Greatest
<1> QED
  BY <1>3, <1>4

\* The newest application of somebody who has one is one of theirs.
LEMMA LatestFacts ==
    ASSUME AppInv, NEW p \in Persons
    PROVE  /\ AppsOf(p) # {} => /\ Latest(p) \in apps /\ Latest(p).user = p
                                /\ \A y \in AppsOf(p) : y.at <= Latest(p).at
           /\ AppsOf(p) = {} => Latest(p).status = "none" /\ Latest(p).id = "none"
<1>1. ASSUME AppsOf(p) # {}
      PROVE  Latest(p) \in AppsOf(p) /\ \A y \in AppsOf(p) : y.at <= Latest(p).at
  <2>1. AppsOf(p) \in SUBSET apps
    BY DEF AppsOf
  <2>2. \E x \in AppsOf(p) : \A y \in AppsOf(p) : y.at <= x.at
    BY <1>1, <2>1, NewestExists
  <2> QED
    BY <1>1, <2>2 DEF Latest
<1>2. AppsOf(p) = {} => Latest(p).status = "none" /\ Latest(p).id = "none"
  BY DEF Latest
<1> QED
  BY <1>1, <1>2 DEF AppsOf

\* A new application is newer than any other.
LEMMA CreatedAtFacts ==
    ASSUME AppInv
    PROVE  CreatedAt \in Nat /\ \A x \in apps : x.at < CreatedAt
<1> DEFINE S == {0} \cup {x.at : x \in apps}
<1>1. S \subseteq Nat
  BY DEF AppInv
<1>2. \E m \in S : \A y \in S : m >= y
  <2>1. CASE apps = {}
    BY <2>1
  <2>2. CASE apps # {}
    <3>1. PICK x \in apps : \A y \in apps : y.at <= x.at
      BY <2>2, NewestExists
    <3>2. x.at \in Nat
      BY DEF AppInv
    <3> QED
      BY <3>1, <3>2
  <2> QED
    BY <2>1, <2>2
<1>3. Max(S) \in S /\ \A y \in S : Max(S) >= y
  <2> HIDE DEF S
  <2> QED
    BY <1>2 DEF Max
<1>4. CreatedAt = 1 + Max(S)
  BY DEF CreatedAt
<1>5. Max(S) \in Nat /\ \A x \in apps : x.at \in S /\ x.at \in Nat
  BY <1>1, <1>3 DEF AppInv
<1> HIDE DEF S
<1> QED
  BY <1>3, <1>4, <1>5

-----------------------------------------------------------------------------
(* Transitions of an application keep the types. *)

\* Transition starts a request on an application.
LEMMA TransitionFacts ==
    ASSUME NEW r \in Requests, NEW x, NEW to, ReqMap, Transition(r, x, to)
    PROVE  /\ ReqMap' /\ Others(r) /\ "pc" \in DOMAIN req'[r]
           /\ req'[r].pc = Enter(to) /\ req'[r].app = x.id /\ req'[r].of = x.user
           /\ req'[r].from = x.status /\ req'[r].to = to
BY DEF Transition, ReqMap, Others

\* WithdrawLoads keeps the types.
LEMMA WithdrawLoadsBase ==
    ASSUME BaseInv, AppInv, NEW r \in Requests, NEW p \in Persons, WithdrawLoads(r, p),
           UNCHANGED <<users, claimed>>
    PROVE  BaseInv'
<1>1. ReqMap
  BY RequestFacts
<1>2. Latest(p).user = p
  BY LatestFacts DEF WithdrawLoads, Open
<1>3. Transition(r, Latest(p), "withdrawn")
  BY DEF WithdrawLoads
<1>4. /\ ReqMap' /\ Others(r) /\ "pc" \in DOMAIN req'[r] /\ req'[r].pc = "cas"
      /\ req'[r].of = p /\ req'[r].to = "withdrawn" /\ req'[r].from \in Open
  BY <1>1, <1>2, <1>3, TransitionFacts DEF Enter, WithdrawLoads
<1>5. MemberMap' /\ Rows /\ (AnyMember' => AnyMember)
  BY SameRows DEF WithdrawLoads
<1>6. jobs' = jobs /\ past' \subseteq Events \X Persons
  BY DEF WithdrawLoads, BaseInv, Typed
<1>7. req'[r].pc \in ApplicationSteps /\ req'[r].pc \notin Ensuring
  BY <1>4 DEF ApplicationSteps, Ensuring
<1> QED
  BY <1>4, <1>5, <1>6, <1>7, ApplicationStep

\* ReviewLoads keeps the types.
LEMMA ReviewLoadsBase ==
    ASSUME BaseInv, NEW r \in Requests, NEW me \in Persons, NEW x \in apps,
           NEW to \in {"trial", "accepted", "rejected", "withdrawn"},
           ReviewLoads(r, me, x, to), UNCHANGED <<users, claimed>>
    PROVE  BaseInv'
<1>1. ReqMap /\ MemberMap
  BY RequestFacts
<1>2. x.user \in Persons
  <2>1. <<Review(to), x.user>> \in jobs[r]
    BY DEF ReviewLoads, MaySend
  <2>2. jobs[r] \subseteq (ModerationJobs \cup ApplicationJobs \cup {Setup}) \X Persons
    BY DEF BaseInv, Typed
  <2> QED
    BY <2>1, <2>2
<1>3. Transition(r, x, to)
  BY DEF ReviewLoads
<1>4. /\ ReqMap' /\ Others(r) /\ "pc" \in DOMAIN req'[r] /\ req'[r].pc \in {"ensure", "cas"}
      /\ req'[r].of = x.user /\ req'[r].to = to /\ req'[r].from = x.status
  BY <1>1, <1>3, TransitionFacts DEF Enter
<1>5. x.status \in Open
  BY DEF ReviewLoads, is_valid_application_transition, Open
<1>6. MemberMap' /\ Rows /\ (AnyMember' <=> AnyMember)
  BY SameRows DEF ReviewLoads
<1>7. AnyMember
  <2>1. member[me].active
    BY DEF ReviewLoads, MayAct
  <2> QED
    BY <2>1 DEF AnyMember, HasRow, NoRow
<1>8. jobs' = jobs /\ past' \subseteq Events \X Persons
  BY DEF ReviewLoads, BaseInv, Typed
<1>9. /\ req'[r].pc \in ApplicationSteps
      /\ req'[r].pc \notin {"ban check", "reactivate", "promote", "deactivate"}
  BY <1>4 DEF ApplicationSteps
<1> QED
  BY <1>2, <1>4, <1>5, <1>6, <1>7, <1>8, <1>9, ApplicationStep

\* EnsureLoads keeps the types.
LEMMA EnsureLoadsBase ==
    ASSUME BaseInv, NEW r \in Requests, EnsureLoads(r), UNCHANGED <<users, claimed>>
    PROVE  BaseInv'
<1>1. Shape(req[r]) /\ Sees(req[r]) /\ ReqMap /\ MemberMap /\ req[r].pc = "ensure"
  BY RequestFacts DEF EnsureLoads, At
<1>2. /\ req[r].of \in Persons /\ req[r].from \in Open
      /\ req[r].to \in {"trial", "accepted", "rejected", "withdrawn"}
  BY <1>1 DEF Shape, Ensuring
<1>3. AnyMember
  BY <1>1 DEF Sees, Ensuring
<1>4. /\ MemberMap' /\ Rows /\ (AnyMember' <=> AnyMember)
      /\ \A p \in Persons : HasRow(p)' <=> HasRow(p)
  BY SameRows DEF EnsureLoads
<1>5. /\ ReqMap' /\ Others(r) /\ "pc" \in DOMAIN req'[r]
      /\ req'[r].pc = IF HasRow(req[r].of) THEN "ban check" ELSE "new member"
      /\ req'[r].of = req[r].of /\ req'[r].to = req[r].to /\ req'[r].from = req[r].from
      /\ req'[r].row = member[req[r].of]
  BY <1>1 DEF EnsureLoads, ReqMap, Others
<1>6. jobs' = jobs /\ past' \subseteq Events \X Persons
  BY DEF EnsureLoads, BaseInv, Typed
<1>7. req'[r].pc \in ApplicationSteps
  BY <1>5 DEF ApplicationSteps
<1>8. CASE HasRow(req[r].of)
  <2>1. req'[r].pc = "ban check" /\ HasRow(req[r].of)' /\ req'[r].row \in MemberRow
    BY <1>1, <1>2, <1>4, <1>5, <1>8 DEF MemberMap, HasRow
  <2> QED
    BY <2>1, <1>2, <1>3, <1>4, <1>5, <1>6, <1>7, ApplicationStep
<1>9. CASE ~HasRow(req[r].of)
  <2>1. req'[r].pc = "new member"
    BY <1>5, <1>9
  <2> QED
    BY <2>1, <1>2, <1>3, <1>4, <1>5, <1>6, <1>7, ApplicationStep
<1> QED
  BY <1>8, <1>9

\* Where a provisioned member leads.
LEMMA AfterActiveFacts ==
    ASSUME NEW q, NEW row
    PROVE  /\ AfterActive(q, row) \in {"promote", "cas"}
           /\ AfterActive(q, row) = "promote" => q.to = "accepted" /\ Rank(row.role) < Rank("officer")
BY DEF AfterActive

\* EnsureChecksBan keeps the types.
LEMMA EnsureChecksBanBase ==
    ASSUME BaseInv, NEW r \in Requests, EnsureChecksBan(r), UNCHANGED <<users, claimed>>
    PROVE  BaseInv'
<1>1. Shape(req[r]) /\ Sees(req[r]) /\ ReqMap /\ req[r].pc = "ban check"
  BY RequestFacts DEF EnsureChecksBan, At
<1>2. /\ req[r].of \in Persons /\ req[r].from \in Open
      /\ req[r].to \in {"trial", "accepted", "rejected", "withdrawn"}
  BY <1>1 DEF Shape, Ensuring
<1>3. AnyMember /\ HasRow(req[r].of)
  BY <1>1 DEF Sees, Ensuring
<1>4. /\ MemberMap' /\ Rows /\ (AnyMember' <=> AnyMember)
      /\ \A p \in Persons : HasRow(p)' <=> HasRow(p)
  BY SameRows DEF EnsureChecksBan
<1>5. jobs' = jobs /\ past' \subseteq Events \X Persons
  BY DEF EnsureChecksBan, BaseInv, Typed
<1>6. CASE Answer(r)
  BY <1>4, <1>5, <1>6, OverBase
<1>7. CASE ~Answer(r)
  <2>1. /\ ~Banned(req[r].of)
        /\ req' = [req EXCEPT ![r] =
              [pc |-> IF req[r].row.active THEN AfterActive(req[r], req[r].row) ELSE "reactivate",
               app |-> req[r].app, of |-> req[r].of, from |-> req[r].from, to |-> req[r].to,
               clear |-> ~Banned(req[r].of)]]
    BY <1>7 DEF EnsureChecksBan
  <2>2. req'[r] = [pc |-> IF req[r].row.active THEN AfterActive(req[r], req[r].row) ELSE "reactivate",
               app |-> req[r].app, of |-> req[r].of, from |-> req[r].from, to |-> req[r].to,
               clear |-> ~Banned(req[r].of)]
    BY <2>1, <1>1 DEF ReqMap
  <2>3. ReqMap' /\ Others(r)
    BY <2>1, <1>1 DEF ReqMap, Others
  <2>4. req'[r].clear
    <3>1. req'[r].clear = ~Banned(req[r].of)
      BY <2>2
    <3>2. (~Banned(req[r].of)) = TRUE
      BY <2>1
    <3> QED
      BY <3>1, <3>2, Zenon
  <2>5. /\ "pc" \in DOMAIN req'[r] /\ req'[r].of = req[r].of
        /\ req'[r].to = req[r].to /\ req'[r].from = req[r].from
        /\ req'[r].pc \in {"reactivate", "promote", "cas"}
    BY <2>2, AfterActiveFacts
  <2>6. req'[r].pc \in ApplicationSteps /\ req'[r].pc # "ban check"
    BY <2>5 DEF ApplicationSteps
  <2>7. HasRow(req[r].of)'
    BY <2>5, <1>2, <1>3, <1>4 DEF HasRow
  <2> QED
    BY <2>3, <2>4, <2>5, <2>6, <2>7, <1>2, <1>3, <1>4, <1>5, ApplicationStep
<1> QED
  BY <1>6, <1>7

\* EnsureActivates keeps the types.
LEMMA EnsureActivatesBase ==
    ASSUME BaseInv, NEW r \in Requests, EnsureActivates(r), UNCHANGED <<users, claimed>>
    PROVE  BaseInv'
<1>1. Shape(req[r]) /\ Sees(req[r]) /\ MemberMap /\ req[r].pc = "reactivate"
  BY RequestFacts DEF EnsureActivates, At
<1>2. PICK p \in Persons : p = req[r].of
  BY <1>1 DEF Shape
<1>3. AnyMember /\ HasRow(p)
  BY <1>1, <1>2 DEF Sees, Ensuring
<1>4. MemberMap' /\ \A q \in Persons : HasRow(q)' <=> HasRow(q)
  BY <1>1, <1>2, <1>3, SetActiveFacts DEF EnsureActivates
<1>5. Rows /\ (AnyMember' => AnyMember)
  BY <1>4 DEF Rows, AnyMember
<1>6. PICK pc \in {"promote", "cas"} : Goto(r, pc)
  BY AfterActiveFacts DEF EnsureActivates
<1>7. jobs' = jobs /\ past' \subseteq Events \X Persons
  <2>1. {<<"readmitted", req[r].of>>} \subseteq Events \X Persons
    BY <1>2, EventFacts DEF Events
  <2> QED
    BY <2>1, RememberFacts DEF EnsureActivates
<1>8. req[r].pc \in ApplicationSteps /\ req[r].pc \in Ensuring /\ pc \in ApplicationSteps
  BY <1>1 DEF ApplicationSteps, Ensuring
<1> QED
  BY <1>2, <1>3, <1>4, <1>5, <1>6, <1>7, <1>8, ApplicationGoto

\* An application makes a recruit or a member, never an admin.
LEMMA DesiredRoleFacts ==
    ASSUME NEW q
    PROVE  DesiredRole(q) \in {"member", "recruit"}
BY DEF DesiredRole, role_on_application_accept

\* EnsurePromotes keeps the types.
LEMMA EnsurePromotesBase ==
    ASSUME BaseInv, NEW r \in Requests, EnsurePromotes(r), UNCHANGED <<users, claimed>>
    PROVE  BaseInv'
<1>1. Shape(req[r]) /\ Sees(req[r]) /\ MemberMap /\ req[r].pc = "promote"
  BY RequestFacts DEF EnsurePromotes, At
<1>2. PICK p \in Persons : p = req[r].of
  BY <1>1 DEF Shape
<1>3. HasRow(p)
  BY <1>1, <1>2 DEF Sees
<1>4. DesiredRole(req[r]) \in Roles
  BY DesiredRoleFacts DEF Roles
<1>5. MemberMap' /\ \A q \in Persons : HasRow(q)' <=> HasRow(q)
  BY <1>1, <1>2, <1>3, <1>4, SetRoleFacts DEF EnsurePromotes
<1>6. Rows /\ (AnyMember' => AnyMember)
  BY <1>5 DEF Rows, AnyMember
<1>7. jobs' = jobs /\ past' \subseteq Events \X Persons
  BY <1>2, EventFacts, RememberFacts DEF EnsurePromotes
<1>8. /\ req[r].pc \in ApplicationSteps /\ req[r].pc \in Ensuring
      /\ "cas" \in ApplicationSteps
  BY <1>1 DEF ApplicationSteps, Ensuring
<1> QED
  BY <1>5, <1>6, <1>7, <1>8, ApplicationGoto DEF EnsurePromotes

\* EnsureCreates keeps the types.
LEMMA EnsureCreatesBase ==
    ASSUME BaseInv, NEW r \in Requests, EnsureCreates(r), UNCHANGED <<users, claimed>>
    PROVE  BaseInv'
<1>1. Shape(req[r]) /\ Sees(req[r]) /\ MemberMap /\ req[r].pc = "new member"
  BY RequestFacts DEF EnsureCreates, At
<1>2. PICK p \in Persons : p = req[r].of
  BY <1>1 DEF Shape
<1>3. AnyMember
  BY <1>1 DEF Sees, Ensuring
<1>4. jobs' = jobs /\ past' \subseteq Events \X Persons
  BY DEF EnsureCreates, BaseInv, Typed
<1>5. CASE Answer(r) /\ member' = member
  BY <1>4, <1>5, SameRows, OverBase
<1>6. CASE CreateMember(p, DesiredRole(req[r])) /\ Goto(r, "cas")
  <2>1. DesiredRole(req[r]) \in Roles
    BY DesiredRoleFacts DEF Roles
  <2>2. MemberMap' /\ HasRow(p)' /\ \A q \in Persons \ {p} : HasRow(q)' <=> HasRow(q)
    BY <1>1, <1>6, <2>1, CreateMemberFacts
  <2>3. Rows
    BY <2>2 DEF Rows
  <2>4. /\ req[r].pc \in ApplicationSteps /\ req[r].pc \in Ensuring
        /\ "cas" \in ApplicationSteps
    BY <1>1 DEF ApplicationSteps, Ensuring
  <2> QED
    BY <1>3, <1>4, <1>6, <2>2, <2>3, <2>4, ApplicationGoto
<1> QED
  BY <1>2, <1>5, <1>6 DEF EnsureCreates

\* SwapStatus keeps the types.
LEMMA SwapStatusBase ==
    ASSUME BaseInv, NEW r \in Requests, SwapStatus(r), UNCHANGED <<users, claimed>>
    PROVE  BaseInv'
<1>1. req[r].pc \in ApplicationSteps /\ "recruit?" \in ApplicationSteps
  BY DEF SwapStatus, At, ApplicationSteps
<1>2. MemberMap' /\ Rows /\ (AnyMember' <=> AnyMember)
  BY SameRows DEF SwapStatus
<1>3. jobs' = jobs /\ past' \subseteq Events \X Persons
  <2>1. {<<"outrun", req[r].of>>} \subseteq Events \X Persons
    BY <1>1, ApplicationEvent DEF Events
  <2> QED
    BY <2>1, RememberFacts DEF SwapStatus, BaseInv, Typed
<1>4. CASE Answer(r)
  BY <1>2, <1>3, <1>4, OverBase
<1>5. CASE Goto(r, "recruit?")
  BY <1>1, <1>2, <1>3, <1>5, ApplicationGoto
<1> QED
  BY <1>4, <1>5 DEF SwapStatus

\* FindRecruit keeps the types.
LEMMA FindRecruitBase ==
    ASSUME BaseInv, NEW r \in Requests, FindRecruit(r), UNCHANGED <<users, claimed>>
    PROVE  BaseInv'
<1>1. req[r].pc \in ApplicationSteps /\ "deactivate" \in ApplicationSteps
  BY DEF FindRecruit, At, ApplicationSteps
<1>2. MemberMap' /\ Rows /\ (AnyMember' <=> AnyMember)
  BY SameRows DEF FindRecruit
<1>3. jobs' = jobs /\ past' \subseteq Events \X Persons
  BY DEF FindRecruit, BaseInv, Typed
<1>4. CASE Answer(r)
  BY <1>2, <1>3, <1>4, OverBase
<1>5. CASE member[req[r].of].active /\ Goto(r, "deactivate")
  <2>1. HasRow(req[r].of)
    BY <1>5 DEF HasRow, NoRow
  <2> QED
    BY <1>1, <1>2, <1>3, <1>5, <2>1, ApplicationGoto
<1> QED
  BY <1>4, <1>5 DEF FindRecruit

\* DropRecruit keeps the types.
LEMMA DropRecruitBase ==
    ASSUME BaseInv, NEW r \in Requests, DropRecruit(r), UNCHANGED <<users, claimed>>
    PROVE  BaseInv'
<1>1. Shape(req[r]) /\ Sees(req[r]) /\ MemberMap /\ req[r].pc = "deactivate"
  BY RequestFacts DEF DropRecruit, At
<1>2. PICK p \in Persons : p = req[r].of
  BY <1>1 DEF Shape
<1>3. HasRow(p)
  BY <1>1, <1>2 DEF Sees
<1>4. MemberMap' /\ \A q \in Persons : HasRow(q)' <=> HasRow(q)
  BY <1>1, <1>2, <1>3, SetActiveFacts DEF DropRecruit
<1>5. Rows /\ (AnyMember' => AnyMember)
  BY <1>4 DEF Rows, AnyMember
<1>6. past' \subseteq Events \X Persons
  <2>1. {<<"crossed", p>>} \subseteq Events \X Persons /\ Unwatched(r, p) \subseteq Events \X Persons
    BY EventFacts DEF Events
  <2> QED
    BY <1>2, <2>1, RememberFacts DEF DropRecruit
<1> QED
  BY <1>4, <1>5, <1>6, OverBase DEF DropRecruit

\* The handlers of applications keep the types.
LEMMA ApplicationBase ==
    ASSUME BaseInv, AppInv, ApplicationNext, UNCHANGED <<users, claimed>>
    PROVE  BaseInv'
<1>1. PICK r \in Requests :
        \/ \E p \in Persons : SubmitLoads(r, p) \/ WithdrawLoads(r, p)
        \/ \E me \in Persons, x \in apps, to \in {"trial", "accepted", "rejected", "withdrawn"} :
              ReviewLoads(r, me, x, to)
        \/ SubmitChecksBan(r) \/ SubmitChecksOpen(r) \/ CreateApplication(r)
        \/ CountOpen(r) \/ DeleteApplication(r)
        \/ EnsureLoads(r) \/ EnsureChecksBan(r) \/ EnsureActivates(r)
        \/ EnsurePromotes(r) \/ EnsureCreates(r)
        \/ SwapStatus(r) \/ FindRecruit(r) \/ DropRecruit(r)
        \/ ApplicationStops(r)
  BY DEF ApplicationNext
<1> QED
  BY <1>1, SubmitLoadsBase, WithdrawLoadsBase, ReviewLoadsBase, SubmitChecksBanBase,
     SubmitChecksOpenBase, CreateApplicationBase, CountOpenBase, DeleteApplicationBase,
     EnsureLoadsBase, EnsureChecksBanBase, EnsureActivatesBase, EnsurePromotesBase,
     EnsureCreatesBase, SwapStatusBase, FindRecruitBase, DropRecruitBase, ApplicationStopsBase

-----------------------------------------------------------------------------
(* Set-up keeps the types. *)

\* Set-up moves on while it holds the lock.
LEMMA LockingGoto ==
    ASSUME BaseInv, NEW r \in Requests, req[r].pc \in Locking, jobs' = jobs,
           NEW pc \in Locking, Goto(r, pc), pc \in Early => ~AnyMember,
           member' = member, claimed' = claimed, users' \subseteq Persons,
           past' \subseteq Events \X Persons
    PROVE  BaseInv'
<1>1. Shape(req[r]) /\ Sees(req[r]) /\ ReqMap /\ "pc" \in DOMAIN req[r]
  BY RequestFacts
<1>2. /\ ReqMap' /\ Others(r)
      /\ req'[r].pc = pc /\ "pc" \in DOMAIN req'[r] /\ req'[r].of = req[r].of
  BY <1>1, GotoFacts DEF SameLocals
<1>3. req[r].of \in Persons
  BY <1>1 DEF Shape, Locking
<1>4. MemberMap' /\ Rows /\ (AnyMember' <=> AnyMember)
  BY SameRows
<1>5. /\ pc \notin Moderating \cup Judging \cup Decided \cup Watching \cup Ensuring
      /\ pc \notin {"row", "cas", "ban check", "reactivate", "promote", "deactivate"}
  BY DEF Locking, Moderating, Judging, Decided, Watching, Ensuring
<1>6. Shape(req'[r])
  BY <1>2, <1>3, <1>5 DEF Shape
<1>7. claimed' = TRUE
  BY <1>1 DEF Sees, BaseInv, Typed
<1>8. Sees(req[r])'
  BY <1>2, <1>4, <1>5, <1>7 DEF Sees
<1>9. \A q \in Requests \ {r} : req[q].pc \notin Locking
  BY DEF BaseInv
<1>10. \A q \in Requests \ {r} : req[q].pc \in Early => ~AnyMember'
  BY <1>9 DEF Early, Locking
<1> QED
  BY <1>2, <1>4, <1>6, <1>7, <1>8, <1>9, <1>10, StepBase

\* Set-up is over.
LEMMA LockingAnswer ==
    ASSUME BaseInv, NEW r \in Requests, req[r].pc \in Locking \cup {"claim"}, jobs' = jobs, Answer(r),
           MemberMap', Rows, claimed' \in BOOLEAN, AnyMember' => claimed',
           req[r].pc = "claim" => (AnyMember' <=> AnyMember) /\ claimed' = TRUE,
           users' \subseteq Persons, past' \subseteq Events \X Persons
    PROVE  BaseInv'
<1>1. ReqMap
  BY RequestFacts
<1>2. /\ ReqMap' /\ Others(r)
      /\ req'[r].pc = "over" /\ "pc" \in DOMAIN req'[r]
  BY <1>1, AnswerFacts
<1>3. Shape(req'[r]) /\ Sees(req[r])' /\ req'[r].pc \notin Locking
  BY <1>2 DEF Shape, Sees, Moderating, Judging, Decided, Watching, Ensuring, Early, Locking
<1>4. CASE req[r].pc = "claim"
  <2>1. \A q \in Requests \ {r} : req[q].pc \in Early => ~AnyMember'
    BY <1>4, RequestFacts DEF Sees
  <2> QED
    BY <1>2, <1>3, <1>4, <2>1, StepBase
<1>5. CASE req[r].pc \in Locking
  <2>1. \A q \in Requests \ {r} : req[q].pc \notin Locking /\ req[q].pc \notin Early
    BY <1>5 DEF BaseInv, Early, Locking
  <2> QED
    BY <1>2, <1>3, <2>1, StepBase
<1> QED
  BY <1>4, <1>5

\* SetupLooks keeps the types.
LEMMA SetupLooksBase ==
    ASSUME BaseInv, NEW r \in Requests, NEW p \in Persons, SetupLooks(r, p)
    PROVE  BaseInv'
<1>1. ReqMap
  BY RequestFacts
<1>2. /\ ReqMap' /\ Others(r)
      /\ req'[r].pc = "claim" /\ "pc" \in DOMAIN req'[r] /\ req'[r].of = p
  BY <1>1 DEF SetupLooks, ReqMap, Others
<1>3. Shape(req'[r]) /\ Sees(req[r])' /\ req'[r].pc \notin Locking
  BY <1>2 DEF Shape, Sees, Moderating, Judging, Decided, Watching, Ensuring, Early, Locking
<1>4. MemberMap' /\ Rows /\ (AnyMember' <=> AnyMember)
  BY SameRows DEF SetupLooks
<1>5. jobs' = jobs /\ past' \subseteq Events \X Persons /\ users' = users /\ claimed' = claimed
  BY DEF SetupLooks, BaseInv, Typed
<1> QED
  BY <1>2, <1>3, <1>4, <1>5, PlainBase

\* SetupClaims keeps the types.
LEMMA SetupClaimsBase ==
    ASSUME BaseInv, NEW r \in Requests, SetupClaims(r)
    PROVE  BaseInv'
<1>1. Shape(req[r]) /\ ReqMap /\ "pc" \in DOMAIN req[r] /\ req[r].pc = "claim"
  BY RequestFacts DEF SetupClaims, At
<1>2. MemberMap' /\ Rows /\ (AnyMember' <=> AnyMember)
  BY SameRows DEF SetupClaims
<1>3. jobs' = jobs /\ past' \subseteq Events \X Persons /\ users' = users /\ users' \subseteq Persons
  BY DEF SetupClaims, BaseInv, Typed
<1>4. CASE claimed /\ Answer(r) /\ claimed' = claimed
  BY <1>2, <1>3, <1>4, OverBase
<1>5. CASE claim_bootstrap_lock /\ Goto(r, "user")
  <2>1. claimed = FALSE /\ claimed' = TRUE
    BY <1>5 DEF claim_bootstrap_lock, BaseInv, Typed
  <2>2. ~AnyMember
    BY <2>1 DEF BaseInv
  <2>3. \A q \in Requests : req[q].pc \notin Locking
    BY <2>1, RequestFacts DEF Sees
  <2>4. /\ ReqMap' /\ Others(r)
        /\ req'[r].pc = "user" /\ "pc" \in DOMAIN req'[r] /\ req'[r].of = req[r].of
    BY <1>1, <1>5, GotoFacts DEF SameLocals
  <2>5. req[r].of \in Persons
    BY <1>1 DEF Shape
  <2>6. Shape(req'[r])
    BY <2>4, <2>5 DEF Shape, Moderating, Judging, Decided, Watching, Ensuring, Locking
  <2>7. Sees(req[r])'
    BY <1>2, <2>1, <2>2, <2>4 DEF Sees, Judging, Decided, Ensuring, Early
  <2>8. \A q \in Requests \ {r} : req[q].pc \in Early => ~AnyMember'
    BY <2>3 DEF Early, Locking
  <2> QED
    BY <1>2, <1>3, <2>1, <2>3, <2>4, <2>6, <2>7, <2>8, StepBase
<1> QED
  BY <1>4, <1>5 DEF SetupClaims

\* SetupCreatesUser keeps the types.
LEMMA SetupCreatesUserBase ==
    ASSUME BaseInv, NEW r \in Requests, SetupCreatesUser(r)
    PROVE  BaseInv'
<1>1. req[r].pc = "user" /\ Shape(req[r]) /\ Sees(req[r])
  BY RequestFacts DEF SetupCreatesUser, At
<1>2. req[r].pc \in Locking /\ {"admin", "member left?"} \subseteq Locking
  BY <1>1 DEF Locking
<1>3. ~AnyMember /\ req[r].of \in Persons
  BY <1>1 DEF Sees, Shape, Early
<1>4. users' \subseteq Persons
  BY <1>3 DEF SetupCreatesUser, BaseInv, Typed
<1>5. past' \subseteq Events \X Persons
  BY DEF SetupCreatesUser, BaseInv, Typed
<1> QED
  BY <1>2, <1>3, <1>4, <1>5, LockingGoto DEF SetupCreatesUser

\* The admin is made.
LEMMA AdminMade ==
    ASSUME BaseInv, NEW r \in Requests, req[r].pc = "admin", CreateMember(req[r].of, "admin")
    PROVE  /\ MemberMap' /\ Rows /\ AnyMember' /\ req[r].of \in Persons
           /\ \A e \in Events : {<<e, req[r].of>>} \subseteq Events \X Persons
<1>1. Shape(req[r]) /\ MemberMap
  BY RequestFacts
<1>2. PICK p \in Persons : p = req[r].of
  BY <1>1 DEF Shape
<1>3. MemberMap' /\ HasRow(p)' /\ \A q \in Persons \ {p} : HasRow(q)' <=> HasRow(q)
  BY <1>1, <1>2, CreateMemberFacts DEF Roles
<1> QED
  BY <1>2, <1>3, EventFacts DEF Rows, AnyMember

\* SetupCreatesAdmin keeps the types.
LEMMA SetupCreatesAdminBase ==
    ASSUME BaseInv, NEW r \in Requests, SetupCreatesAdmin(r)
    PROVE  BaseInv'
<1>1. req[r].pc = "admin" /\ req[r].pc \in Locking
  BY DEF SetupCreatesAdmin, At, Locking
<1>2. MemberMap' /\ Rows /\ {<<"booted", req[r].of>>} \subseteq Events \X Persons
  BY <1>1, AdminMade DEF SetupCreatesAdmin, Events
<1>3. past' \subseteq Events \X Persons
  BY <1>2, RememberFacts DEF SetupCreatesAdmin
<1>4. claimed' = TRUE /\ users' \subseteq Persons
  BY <1>1, RequestFacts DEF Sees, SetupCreatesAdmin, BaseInv, Typed
<1> QED
  BY <1>1, <1>2, <1>3, <1>4, LockingAnswer DEF SetupCreatesAdmin

\* LooksBeforeDelete keeps the types.
LEMMA LooksBeforeDeleteBase ==
    ASSUME BaseInv, NEW r \in Requests, LooksBeforeDelete(r)
    PROVE  BaseInv'
<1>1. req[r].pc \in Locking /\ {"drop user", "member left?"} \subseteq Locking
  BY DEF LooksBeforeDelete, At, Locking
<1>2. users' \subseteq Persons /\ past' \subseteq Events \X Persons
  BY DEF LooksBeforeDelete, BaseInv, Typed
<1>3. CASE AnyMember
  BY <1>1, <1>2, <1>3, LockingGoto DEF LooksBeforeDelete, KeepsUser, has_any_member, Early
<1>4. CASE ~AnyMember
  BY <1>1, <1>2, <1>4, LockingGoto DEF LooksBeforeDelete, KeepsUser, has_any_member
<1> QED
  BY <1>3, <1>4

\* DropsUser keeps the types.
LEMMA DropsUserBase ==
    ASSUME BaseInv, NEW r \in Requests, DropsUser(r)
    PROVE  BaseInv'
<1>1. req[r].pc \in Locking /\ "member left?" \in Locking /\ "member left?" \notin Early
  BY DEF DropsUser, At, Locking, Early
<1>2. users' \subseteq Persons /\ past' \subseteq Events \X Persons
  BY DEF DropsUser, BaseInv, Typed
<1> QED
  BY <1>1, <1>2, LockingGoto DEF DropsUser

\* LooksBeforeRelease keeps the types.
LEMMA LooksBeforeReleaseBase ==
    ASSUME BaseInv, NEW r \in Requests, LooksBeforeRelease(r)
    PROVE  BaseInv'
<1>1. req[r].pc \in Locking /\ "release" \in Locking
  BY DEF LooksBeforeRelease, At, Locking
<1>2. users' = users /\ users' \subseteq Persons /\ past' \subseteq Events \X Persons
  BY DEF LooksBeforeRelease, BaseInv, Typed
<1>3. CASE Answer(r)
  BY <1>2, <1>3, SameRows, OverBase DEF LooksBeforeRelease
<1>4. CASE ~AnyMember /\ Goto(r, "release")
  BY <1>1, <1>2, <1>4, LockingGoto DEF LooksBeforeRelease
<1> QED
  BY <1>3, <1>4 DEF LooksBeforeRelease, has_any_member

\* ReleasesLock keeps the types.
LEMMA ReleasesLockBase ==
    ASSUME BaseInv, NEW r \in Requests, ReleasesLock(r)
    PROVE  BaseInv'
<1>1. req[r].pc = "release" /\ req[r].pc \in Locking
  BY DEF ReleasesLock, At, Locking
<1>2. users' \subseteq Persons /\ past' \subseteq Events \X Persons
  BY DEF ReleasesLock, BaseInv, Typed
<1>3. MemberMap' /\ Rows /\ (AnyMember' <=> AnyMember)
  BY SameRows DEF ReleasesLock
<1>4. ~AnyMember
  BY <1>1, RequestFacts DEF Sees, Early
<1>5. claimed' \in BOOLEAN
  BY DEF ReleasesLock
<1> QED
  BY <1>1, <1>2, <1>3, <1>4, <1>5, LockingAnswer DEF ReleasesLock

\* SetupFails keeps the types.
LEMMA SetupFailsBase ==
    ASSUME BaseInv, NEW r \in Requests, SetupFails(r)
    PROVE  BaseInv'
<1>1. req[r].pc \in {"user", "admin", "user needed?", "drop user"} /\ req[r].pc \in Locking
  BY DEF SetupFails, Locking
<1>2. PICK pc \in {"user needed?", "member left?"} : Goto(r, pc)
  BY <1>1 DEF SetupFails, OnError
<1>3. pc \in Locking /\ pc \notin Early
  BY DEF Locking, Early
<1>4. past' \subseteq Events \X Persons
  <2>1. req[r].of \in Persons
    BY <1>1, RequestFacts DEF Shape
  <2>2. {<<"stopped", req[r].of>>} \subseteq Events \X Persons
    BY <2>1, EventFacts DEF Events
  <2> QED
    BY <2>2, RememberFacts DEF SetupFails
<1> QED
  BY <1>1, <1>2, <1>3, <1>4, LockingGoto DEF SetupFails, BaseInv, Typed

\* SetupStops keeps the types.
LEMMA SetupStopsBase ==
    ASSUME BaseInv, NEW r \in Requests, SetupStops(r)
    PROVE  BaseInv'
<1>1. req[r].of \in Persons
  <2>1. req[r].pc \in {"user", "admin", "user needed?", "drop user", "member left?", "release"}
    BY DEF SetupStops
  <2> QED
    BY <2>1, RequestFacts DEF Shape
<1>2. {<<"stopped", req[r].of>>} \subseteq Events \X Persons
  BY <1>1, EventFacts DEF Events
<1>3. past' \subseteq Events \X Persons
  BY <1>2, RememberFacts DEF SetupStops
<1> QED
  BY <1>3, SameRows, OverBase DEF SetupStops

\* SetupTimesOut keeps the types.
LEMMA SetupTimesOutBase ==
    ASSUME BaseInv, NEW r \in Requests, SetupTimesOut(r)
    PROVE  BaseInv'
<1>1. req[r].pc \in {"claim", "user", "admin"}
  BY DEF SetupTimesOut, At
<1>2. req[r].of \in Persons
  BY <1>1, RequestFacts DEF Shape
<1>3. /\ {<<"stopped", req[r].of>>} \subseteq Events \X Persons
      /\ {<<"booted", req[r].of>>} \subseteq Events \X Persons
  BY <1>2, EventFacts DEF Events
<1>4. past' \subseteq Events \X Persons
  BY <1>3, RememberFacts DEF SetupTimesOut
<1>5. users' \subseteq Persons
  BY <1>2 DEF SetupTimesOut, BaseInv, Typed
<1>6. CASE At(r, "claim")
  <2>1. claimed' = TRUE /\ Answer(r) /\ member' = member
    BY <1>6 DEF SetupTimesOut, claim_bootstrap_lock, At
  <2> QED
    BY <1>4, <1>5, <1>6, <2>1, SameRows, LockingAnswer DEF SetupTimesOut, At
<1>7. CASE At(r, "user")
  <2>1. Goto(r, "member left?") /\ member' = member /\ claimed' = claimed
    BY <1>7 DEF SetupTimesOut, OnError, At
  <2>2. req[r].pc \in Locking /\ "member left?" \in Locking /\ "member left?" \notin Early
    BY <1>7 DEF At, Locking, Early
  <2> QED
    BY <1>4, <1>5, <2>1, <2>2, LockingGoto DEF SetupTimesOut
<1>8. CASE At(r, "admin")
  <2>1. /\ Goto(r, "user needed?") /\ CreateMember(req[r].of, "admin")
        /\ users' = users /\ claimed' = claimed
    BY <1>8 DEF SetupTimesOut, OnError, At
  <2>2. MemberMap' /\ Rows /\ AnyMember'
    BY <1>8, <2>1, AdminMade DEF At
  <2>3. req[r].pc \in Locking
    BY <1>8 DEF At, Locking
  <2>4. Shape(req[r]) /\ Sees(req[r]) /\ ReqMap /\ "pc" \in DOMAIN req[r]
    BY RequestFacts
  <2>5. /\ ReqMap' /\ Others(r)
        /\ req'[r].pc = "user needed?" /\ "pc" \in DOMAIN req'[r] /\ req'[r].of = req[r].of
    BY <2>1, <2>4, GotoFacts DEF SameLocals
  <2>6. claimed' = TRUE
    BY <2>1, <2>3, <2>4 DEF Sees, BaseInv, Typed
  <2>7. Shape(req'[r])
    BY <2>5, <1>2 DEF Shape, Moderating, Judging, Decided, Watching, Ensuring, Locking
  <2>8. Sees(req[r])'
    BY <2>5, <2>6 DEF Sees, Judging, Decided, Ensuring, Early
  <2>9. \A q \in Requests \ {r} : req[q].pc \notin Locking /\ req[q].pc \notin Early
    BY <2>3 DEF BaseInv, Early, Locking
  <2> QED
    BY <1>4, <1>5, <2>2, <2>5, <2>6, <2>7, <2>8, <2>9, StepBase DEF SetupTimesOut
<1> QED
  BY <1>6, <1>7, <1>8 DEF SetupTimesOut

\* Set-up keeps the types.
LEMMA BootBase ==
    ASSUME BaseInv, BootNext
    PROVE  BaseInv'
<1>1. PICK r \in Requests :
        \/ \E p \in Persons : SetupLooks(r, p)
        \/ SetupClaims(r) \/ SetupCreatesUser(r) \/ SetupCreatesAdmin(r)
        \/ LooksBeforeDelete(r) \/ DropsUser(r) \/ LooksBeforeRelease(r) \/ ReleasesLock(r)
        \/ SetupFails(r) \/ SetupTimesOut(r) \/ SetupStops(r)
  BY DEF BootNext
<1> QED
  BY <1>1, SetupLooksBase, SetupClaimsBase, SetupCreatesUserBase, SetupCreatesAdminBase,
     LooksBeforeDeleteBase, DropsUserBase, LooksBeforeReleaseBase, ReleasesLockBase,
     SetupFailsBase, SetupTimesOutBase, SetupStopsBase

-----------------------------------------------------------------------------
(* Who moves *)

\* One request moves, and nothing that happened is forgotten.
Moved(r) == ReqMap' /\ Others(r) /\ past \subseteq past'

\* A request that answers, goes on or is given new locals is the only one
\* to move.
LEMMA MovedFacts ==
    ASSUME ReqMap, NEW r \in Requests, past \subseteq past',
           \/ Answer(r)
           \/ \E pc : Goto(r, pc)
           \/ \E v : req' = [req EXCEPT ![r] = v]
    PROVE  Moved(r)
<1>1. CASE Answer(r)
  BY <1>1 DEF ReqMap, Others, Answer, Moved
<1>2. CASE \E pc : Goto(r, pc)
  BY <1>2 DEF ReqMap, Others, Goto, Moved
<1>3. CASE \E v : req' = [req EXCEPT ![r] = v]
  BY <1>3 DEF ReqMap, Others, Moved
<1> QED
  BY <1>1, <1>2, <1>3

\* A step of moderation is one of a request at work on it.
ModerationStep(r) ==
    \/ \E me, of \in Persons, job \in ModerationJobs : Authenticate(r, me, of, job)
    \/ LoadTarget(r) \/ CountAdmins(r) \/ Decide(r)
    \/ WriteAction(r) \/ WriteActive(r) \/ WriteRole(r)
    \/ CheckAgain(r) \/ WriteBan(r) \/ Undo(r)
    \/ LiftAction(r)
    \/ ModerationStops(r) \/ CheckFails(r)

\* Each handler of moderation moves one request at work on moderation.
LEMMA ModerationMoves ==
    ASSUME ReqMap, NEW r \in Requests, ModerationStep(r)
    PROVE  Moved(r) /\ req[r].pc \in {"idle"} \cup Moderating
<1>1. past \subseteq past'
  BY DEF ModerationStep, Authenticate, LoadTarget, CountAdmins, Decide, WriteAction, WriteActive,
         WriteRole, CheckAgain, WriteBan, Undo, LiftAction, ModerationStops, CheckFails, Remember
<1>2. \/ Answer(r)
      \/ \E pc : Goto(r, pc)
      \/ \E v : req' = [req EXCEPT ![r] = v]
  <2>1. CASE \E me, of \in Persons, job \in ModerationJobs : Authenticate(r, me, of, job)
    BY <2>1 DEF Authenticate
  <2>2. CASE LoadTarget(r) \/ CountAdmins(r) \/ Decide(r)
    BY <2>2 DEF LoadTarget, CountAdmins, Decide
  <2>3. CASE WriteAction(r) \/ WriteActive(r) \/ WriteRole(r)
    BY <2>3 DEF WriteAction, WriteActive, WriteRole
  <2>4. CASE CheckAgain(r) \/ WriteBan(r) \/ Undo(r)
    BY <2>4 DEF CheckAgain, WriteBan, Undo
  <2>5. CASE LiftAction(r) \/ ModerationStops(r) \/ CheckFails(r)
    BY <2>5 DEF LiftAction, ModerationStops, CheckFails
  <2> QED
    BY <2>1, <2>2, <2>3, <2>4, <2>5 DEF ModerationStep
<1>3. req[r].pc \in {"idle"} \cup Moderating
  BY DEF ModerationStep, Authenticate, LoadTarget, CountAdmins, Decide, WriteAction, WriteActive,
         WriteRole, CheckAgain, WriteBan, Undo, LiftAction, ModerationStops, CheckFails, At, MaySend,
         Moderating, Judging, Decided
<1> QED
  BY <1>1, <1>2, <1>3, MovedFacts

\* So is one of an application's handler,
ApplicationMove(r) ==
    \/ \E p \in Persons : SubmitLoads(r, p) \/ WithdrawLoads(r, p)
    \/ \E me \in Persons, x \in apps, to \in {"trial", "accepted", "rejected", "withdrawn"} :
          ReviewLoads(r, me, x, to)
    \/ SubmitChecksBan(r) \/ SubmitChecksOpen(r) \/ CreateApplication(r)
    \/ CountOpen(r) \/ DeleteApplication(r)
    \/ EnsureLoads(r) \/ EnsureChecksBan(r) \/ EnsureActivates(r)
    \/ EnsurePromotes(r) \/ EnsureCreates(r)
    \/ SwapStatus(r) \/ FindRecruit(r) \/ DropRecruit(r)
    \/ ApplicationStops(r)

\* Each handler of applications moves one request at work on one.
LEMMA ApplicationMoves ==
    ASSUME ReqMap, NEW r \in Requests, ApplicationMove(r)
    PROVE  Moved(r) /\ req[r].pc \in {"idle"} \cup ApplicationSteps
<1>1. past \subseteq past'
  BY DEF ApplicationMove, SubmitLoads, WithdrawLoads, ReviewLoads, SubmitChecksBan,
         SubmitChecksOpen, CreateApplication, CountOpen, DeleteApplication, EnsureLoads,
         EnsureChecksBan, EnsureActivates, EnsurePromotes, EnsureCreates, SwapStatus,
         FindRecruit, DropRecruit, ApplicationStops, Remember
<1>2. \/ Answer(r)
      \/ \E pc : Goto(r, pc)
      \/ \E v : req' = [req EXCEPT ![r] = v]
  <2>1. CASE \E p \in Persons : SubmitLoads(r, p) \/ WithdrawLoads(r, p)
    BY <2>1 DEF SubmitLoads, WithdrawLoads, Transition
  <2>2. CASE \E me \in Persons, x \in apps, to \in {"trial", "accepted", "rejected", "withdrawn"} :
               ReviewLoads(r, me, x, to)
    BY <2>2 DEF ReviewLoads, Transition
  <2>3. CASE \/ SubmitChecksBan(r) \/ SubmitChecksOpen(r) \/ CreateApplication(r)
             \/ CountOpen(r) \/ DeleteApplication(r)
    BY <2>3 DEF SubmitChecksBan, SubmitChecksOpen, CreateApplication, CountOpen, DeleteApplication
  <2>4. CASE EnsureLoads(r) \/ EnsureChecksBan(r) \/ EnsureActivates(r)
    BY <2>4 DEF EnsureLoads, EnsureChecksBan, EnsureActivates
  <2>5. CASE EnsurePromotes(r) \/ EnsureCreates(r) \/ SwapStatus(r)
    BY <2>5 DEF EnsurePromotes, EnsureCreates, SwapStatus
  <2>6. CASE FindRecruit(r) \/ DropRecruit(r) \/ ApplicationStops(r)
    BY <2>6 DEF FindRecruit, DropRecruit, ApplicationStops
  <2> QED
    BY <2>1, <2>2, <2>3, <2>4, <2>5, <2>6 DEF ApplicationMove
<1>3. req[r].pc \in {"idle"} \cup ApplicationSteps
  BY DEF ApplicationMove, SubmitLoads, WithdrawLoads, ReviewLoads, SubmitChecksBan,
         SubmitChecksOpen, CreateApplication, CountOpen, DeleteApplication, EnsureLoads,
         EnsureChecksBan, EnsureActivates, EnsurePromotes, EnsureCreates, SwapStatus,
         FindRecruit, DropRecruit, ApplicationStops, At, MaySend, ApplicationSteps
<1> QED
  BY <1>1, <1>2, <1>3, MovedFacts

\* and one of set-up.
BootStep(r) ==
    \/ \E p \in Persons : SetupLooks(r, p)
    \/ SetupClaims(r) \/ SetupCreatesUser(r) \/ SetupCreatesAdmin(r)
    \/ LooksBeforeDelete(r) \/ DropsUser(r) \/ LooksBeforeRelease(r) \/ ReleasesLock(r)
    \/ SetupFails(r) \/ SetupTimesOut(r) \/ SetupStops(r)

\* Each step of set-up moves one request at work on set-up.
LEMMA BootMoves ==
    ASSUME ReqMap, NEW r \in Requests, BootStep(r)
    PROVE  Moved(r) /\ req[r].pc \in {"idle", "claim"} \cup Locking /\ actions' = actions
<1>1. past \subseteq past' /\ actions' = actions
  BY DEF BootStep, SetupLooks, SetupClaims, SetupCreatesUser, SetupCreatesAdmin,
         LooksBeforeDelete, DropsUser, LooksBeforeRelease, ReleasesLock, SetupFails,
         SetupTimesOut, SetupStops, Remember
<1>2. \/ Answer(r)
      \/ \E pc : Goto(r, pc)
      \/ \E v : req' = [req EXCEPT ![r] = v]
  <2>1. CASE \E p \in Persons : SetupLooks(r, p)
    BY <2>1 DEF SetupLooks
  <2>2. CASE SetupClaims(r) \/ SetupCreatesUser(r) \/ SetupCreatesAdmin(r)
    BY <2>2 DEF SetupClaims, SetupCreatesUser, SetupCreatesAdmin
  <2>3. CASE LooksBeforeDelete(r) \/ DropsUser(r) \/ LooksBeforeRelease(r) \/ ReleasesLock(r)
    BY <2>3 DEF LooksBeforeDelete, DropsUser, LooksBeforeRelease, ReleasesLock
  <2>4. CASE SetupFails(r) \/ SetupTimesOut(r) \/ SetupStops(r)
    BY <2>4 DEF SetupFails, SetupTimesOut, SetupStops
  <2> QED
    BY <2>1, <2>2, <2>3, <2>4 DEF BootStep
<1>3. req[r].pc \in {"idle", "claim"} \cup Locking
  BY DEF BootStep, SetupLooks, SetupClaims, SetupCreatesUser, SetupCreatesAdmin,
         LooksBeforeDelete, DropsUser, LooksBeforeRelease, ReleasesLock, SetupFails,
         SetupTimesOut, SetupStops, At, MaySend, Locking
<1> QED
  BY <1>1, <1>2, <1>3, MovedFacts

-----------------------------------------------------------------------------
(* Applications are written once, and of two open ones one is unsettled. *)

\* A step that leaves the applications alone.
LEMMA AppFrame ==
    ASSUME AppInv, OpenInv, NEW r \in Requests, Moved(r), apps' = apps,
           req[r].pc \notin {"recount", "delete", "over"}
    PROVE  AppInv' /\ OpenInv'
<1>1. \A x \in apps : x.id # r
  BY DEF AppInv
<1>2. \A x \in apps : x.id \in Requests => req'[x.id] = req[x.id]
  BY <1>1 DEF Moved, Others
<1>3. \A x \in apps : Unsettled(x)' <=> Unsettled(x)
  BY <1>2 DEF Unsettled
<1>4. AppInv'
  BY <1>2, <1>3 DEF AppInv, Unsettled
<1>5. OpenInv'
  BY <1>3 DEF OpenInv, Happened, Moved
<1> QED
  BY <1>4, <1>5

\* The handlers of moderation keep the applications in order.
LEMMA ModerationApp ==
    ASSUME BaseInv, AppInv, OpenInv, NEW r \in Requests, ModerationStep(r), apps' = apps
    PROVE  AppInv' /\ OpenInv'
<1>1. Moved(r) /\ req[r].pc \in {"idle"} \cup Moderating
  BY RequestFacts, ModerationMoves
<1>2. req[r].pc \notin {"recount", "delete", "over"}
  BY <1>1 DEF Moderating, Judging, Decided
<1> QED
  BY <1>1, <1>2, AppFrame

\* The steps of set-up keep the applications in order.
LEMMA BootApp ==
    ASSUME BaseInv, AppInv, OpenInv, NEW r \in Requests, BootStep(r), apps' = apps
    PROVE  AppInv' /\ OpenInv'
<1>1. Moved(r) /\ req[r].pc \in {"idle", "claim"} \cup Locking
  BY RequestFacts, BootMoves
<1>2. req[r].pc \notin {"recount", "delete", "over"}
  BY <1>1 DEF Locking
<1> QED
  BY <1>1, <1>2, AppFrame

\* CreateApplication keeps the applications in order.
LEMMA CreateApplicationApp ==
    ASSUME BaseInv, AppInv, OpenInv, NEW r \in Requests, CreateApplication(r)
    PROVE  AppInv' /\ OpenInv'
<1>1. Shape(req[r]) /\ ReqMap /\ "pc" \in DOMAIN req[r] /\ req[r].pc = "create"
  BY RequestFacts DEF CreateApplication, At
<1>2. req[r].of \in Persons
  BY <1>1 DEF Shape
<1>0. PICK new : new = [id |-> r, user |-> req[r].of, status |-> "pending", at |-> CreatedAt]
  OBVIOUS
<1>3. apps' = apps \cup {new}
  BY <1>0 DEF CreateApplication
<1>4. /\ Others(r) /\ req'[r].pc = "recount" /\ req'[r].of = req[r].of
  BY <1>1, GotoFacts DEF CreateApplication, SameLocals
<1>5. \A x \in apps : x.id # r
  BY <1>1 DEF AppInv
<1>6. CreatedAt \in Nat /\ \A x \in apps : x.at < CreatedAt
  BY CreatedAtFacts
<1>7. /\ new = [id |-> new.id, user |-> new.user, status |-> new.status, at |-> new.at]
      /\ new.id = r /\ new.user = req[r].of /\ new.status = "pending" /\ new.at = CreatedAt
  BY <1>0
<1>8. r # "none"
  BY MembershipAssumption
<1>9. \A x \in apps : x.id \in Requests => req'[x.id] = req[x.id]
  BY <1>4, <1>5 DEF Others
<1>10. \A x \in apps : Unsettled(x)' <=> Unsettled(x)
  BY <1>9 DEF Unsettled
<1>11. Unsettled(new)'
  BY <1>4, <1>7 DEF Unsettled
<1>12. IsFiniteSet(apps')
  BY <1>3, FS_AddElement DEF AppInv
<1>13. \A x \in apps :
          /\ x = [id |-> x.id, user |-> x.user, status |-> x.status, at |-> x.at]
          /\ x.id # "none" /\ x.user \in Persons /\ x.status \in Statuses /\ x.at \in Nat
          /\ x.id \in Requests => req'[x.id].pc \in {"recount", "delete", "over"}
          /\ Unsettled(x)' => req'[x.id].of = x.user
  BY <1>9, <1>10 DEF AppInv, Unsettled
<1>14. /\ new = [id |-> new.id, user |-> new.user, status |-> new.status, at |-> new.at]
       /\ new.id # "none" /\ new.user \in Persons /\ new.status \in Statuses /\ new.at \in Nat
       /\ new.id \in Requests => req'[new.id].pc \in {"recount", "delete", "over"}
       /\ Unsettled(new)' => req'[new.id].of = new.user
  BY <1>2, <1>4, <1>6, <1>7, <1>8 DEF Statuses
<1>15. \A x, y \in apps' : x.id = y.id \/ x.at = y.at => x = y
  <2>1. \A x, y \in apps : x.id = y.id \/ x.at = y.at => x = y
    BY DEF AppInv
  <2>2. \A x \in apps : x.id # new.id /\ x.at # new.at
    BY <1>5, <1>6, <1>7 DEF AppInv
  <2> QED
    BY <1>3, <2>1, <2>2
<1>16. AppInv'
  BY <1>3, <1>12, <1>13, <1>14, <1>15 DEF AppInv
<1>17. OpenInv'
  <2>1. past' = past
    BY DEF CreateApplication
  <2> QED
    BY <1>3, <1>10, <1>11, <2>1 DEF OpenInv, Happened
<1> QED
  BY <1>16, <1>17

\* Who sees one open application has no other.
LEMMA CountFacts ==
    ASSUME AppInv, NEW p, ~TooMany(p), NEW x \in AppsOf(p), NEW y \in AppsOf(p),
           x.status \in Open, y.status \in Open
    PROVE  x = y
<1> DEFINE S == {z \in AppsOf(p) : z.status \in Open}
<1>1. S \in SUBSET apps
  BY DEF AppsOf
<1>2. IsFiniteSet(S) /\ Cardinality(S) \in Nat
  BY <1>1, FS_Subset, FS_CardinalityType DEF AppInv
<1>3. Cardinality(S) <= 1
  BY <1>2 DEF TooMany, count_open_applications
<1>4. x \in S /\ y \in S
  OBVIOUS
<1> HIDE DEF S
<1>5. Cardinality(S) # 0
  BY <1>2, <1>4, FS_EmptySet
<1>6. Cardinality(S) = 1
  BY <1>2, <1>3, <1>5
<1>7. PICK z : S = {z}
  BY <1>2, <1>6, FS_Singleton
<1> QED
  BY <1>4, <1>7

\* CountOpen keeps the applications in order.
LEMMA CountOpenApp ==
    ASSUME BaseInv, AppInv, OpenInv, NEW r \in Requests, CountOpen(r)
    PROVE  AppInv' /\ OpenInv'
<1>1. ReqMap /\ "pc" \in DOMAIN req[r] /\ req[r].pc = "recount"
  BY RequestFacts DEF CountOpen, At
<1>2. apps' = apps /\ past' = past
  BY DEF CountOpen
<1>3. CASE TooMany(req[r].of) /\ Goto(r, "delete")
  <2>1. Others(r) /\ req'[r].pc = "delete" /\ req'[r].of = req[r].of
    BY <1>1, <1>3, GotoFacts DEF SameLocals
  <2>2. \A x \in apps : Unsettled(x)' <=> Unsettled(x)
    BY <1>1, <2>1 DEF Unsettled, Others
  <2>3. \A x \in apps : Unsettled(x) => req'[x.id].of = req[x.id].of
    BY <2>1 DEF Unsettled, Others
  <2>4. \A x \in apps : x.id \in Requests => req'[x.id].pc \in {"recount", "delete", "over"}
    BY <2>1 DEF AppInv, Others
  <2> QED
    BY <1>2, <2>2, <2>3, <2>4 DEF AppInv, OpenInv, Happened
<1>4. CASE ~TooMany(req[r].of) /\ Answer(r)
  <2>1. Others(r) /\ req'[r].pc = "over"
    BY <1>1, <1>4, AnswerFacts
  <2>2. \A x \in apps : x.id # r => (Unsettled(x)' <=> Unsettled(x))
    BY <2>1 DEF Unsettled, Others
  <2>3. \A x \in apps : x.id = r => ~Unsettled(x)' /\ Unsettled(x) /\ x.user = req[r].of
    BY <1>1, <2>1 DEF Unsettled, AppInv
  <2>4. \A x \in apps : x.id \in Requests => req'[x.id].pc \in {"recount", "delete", "over"}
    BY <2>1 DEF AppInv, Others
  <2>5. \A x \in apps : Unsettled(x)' => req'[x.id].of = x.user
    BY <2>1, <2>2, <2>3 DEF AppInv, Others, Unsettled
  <2>6. AppInv'
    BY <1>2, <2>4, <2>5 DEF AppInv
  <2>7. OpenInv'
    <3> SUFFICES ASSUME NEW x \in apps, NEW y \in apps,
                        x # y, x.user = y.user, x.status \in Open, y.status \in Open
                 PROVE  Unsettled(x)' \/ Unsettled(y)' \/ Happened("stopped", x.user)'
      BY <1>2 DEF OpenInv
    <3>1. Unsettled(x) \/ Unsettled(y) \/ Happened("stopped", x.user)
      BY DEF OpenInv
    <3>2. x.id # r /\ y.id # r
      <4>1. ASSUME x.user = req[r].of PROVE FALSE
        BY <4>1, <1>4, CountFacts DEF AppsOf
      <4> QED
        BY <2>3, <4>1
    <3> QED
      BY <1>2, <2>2, <3>1, <3>2 DEF Happened
  <2> QED
    BY <2>6, <2>7
<1> QED
  BY <1>3, <1>4 DEF CountOpen

\* DeleteApplication keeps the applications in order.
LEMMA DeleteApplicationApp ==
    ASSUME BaseInv, AppInv, OpenInv, NEW r \in Requests, DeleteApplication(r)
    PROVE  AppInv' /\ OpenInv'
<1>1. ReqMap
  BY RequestFacts
<1>2. Others(r)
  BY <1>1, AnswerFacts DEF DeleteApplication
<1>3. apps' = {x \in apps : x.id # r} /\ past \subseteq past'
  BY DEF DeleteApplication, Remember
<1>4. apps' \in SUBSET apps /\ \A x \in apps' : x.id # r
  BY <1>3
<1>5. \A x \in apps' : x.id \in Requests => req'[x.id] = req[x.id]
  BY <1>2, <1>4 DEF Others
<1>6. \A x \in apps' : Unsettled(x)' <=> Unsettled(x)
  BY <1>5 DEF Unsettled
<1>7. IsFiniteSet(apps')
  BY <1>4, FS_Subset DEF AppInv
<1>8. AppInv'
  BY <1>4, <1>5, <1>6, <1>7 DEF AppInv, Unsettled
<1>9. OpenInv'
  BY <1>3, <1>4, <1>6 DEF OpenInv, Happened
<1> QED
  BY <1>8, <1>9

\* ApplicationStops keeps the applications in order.
LEMMA ApplicationStopsApp ==
    ASSUME BaseInv, AppInv, OpenInv, NEW r \in Requests, ApplicationStops(r)
    PROVE  AppInv' /\ OpenInv'
<1>1. ReqMap
  BY RequestFacts
<1>2. Others(r) /\ req'[r].pc = "over"
  BY <1>1, AnswerFacts DEF ApplicationStops
<1>3. /\ apps' = apps /\ past \subseteq past'
      /\ req[r].pc \in {"recount", "delete"} => <<"stopped", req[r].of>> \in past'
  BY DEF ApplicationStops, Remember
<1>4. \A x \in apps : x.id # r => (Unsettled(x)' <=> Unsettled(x))
  BY <1>2 DEF Unsettled, Others
<1>5. \A x \in apps : x.id = r /\ Unsettled(x) => Happened("stopped", x.user)'
  BY <1>3 DEF Unsettled, AppInv, Happened
<1>6. \A x \in apps : x.id \in Requests => req'[x.id].pc \in {"recount", "delete", "over"}
  BY <1>2 DEF AppInv, Others
<1>7. \A x \in apps : Unsettled(x)' => req'[x.id].of = x.user
  BY <1>2 DEF AppInv, Others, Unsettled
<1>8. AppInv'
  BY <1>3, <1>6, <1>7 DEF AppInv
<1>9. OpenInv'
  <2> SUFFICES ASSUME NEW x \in apps, NEW y \in apps,
                      x # y, x.user = y.user, x.status \in Open, y.status \in Open
               PROVE  Unsettled(x)' \/ Unsettled(y)' \/ Happened("stopped", x.user)'
    BY <1>3 DEF OpenInv
  <2>1. Unsettled(x) \/ Unsettled(y) \/ Happened("stopped", x.user)
    BY DEF OpenInv
  <2>2. Happened("stopped", x.user) => Happened("stopped", x.user)'
    BY <1>3 DEF Happened
  <2> QED
    BY <1>4, <1>5, <2>1, <2>2
<1> QED
  BY <1>8, <1>9

\* The status of an application is the one in its row.
LEMMA StatusOfFacts ==
    ASSUME AppInv
    PROVE  /\ \A x \in apps : StatusOf(x.id) = x.status
           /\ \A id : (\A x \in apps : x.id # id) => StatusOf(id) = "none"
<1>1. ASSUME NEW x \in apps PROVE StatusOf(x.id) = x.status
  <2>1. \A y \in apps : y.id = x.id => y = x
    BY DEF AppInv
  <2>2. (CHOOSE y \in apps : y.id = x.id) = x
    BY <2>1
  <2> QED
    BY <2>2 DEF StatusOf
<1> QED
  BY <1>1 DEF StatusOf

\* What the compare-and-swap makes of an application.
Became(x, y, id, from, to) ==
    /\ y = [id |-> y.id, user |-> y.user, status |-> y.status, at |-> y.at]
    /\ y.id = x.id /\ y.user = x.user /\ y.at = x.at
    /\ x.id = id => x.status = from /\ y.status = to
    /\ x.id # id => y = x

\* CasStatus changes one status in place.
LEMMA SwapFacts ==
    ASSUME AppInv, NEW id, NEW from, NEW to, CasStatus(id, from, to)
    PROVE  /\ IsFiniteSet(apps')
           /\ \A y \in apps' : \E x \in apps : Became(x, y, id, from, to)
           /\ \A x \in apps : \E y \in apps' : Became(x, y, id, from, to)
<1> DEFINE new(x) == IF x.id = id THEN [x EXCEPT !.status = to] ELSE x
           f == [x \in apps |-> new(x)]
<1>1. apps' = {new(x) : x \in apps}
  BY DEF CasStatus
<1>2. f \in Surjection(apps, apps')
  BY <1>1 DEF Surjection
<1>3. IsFiniteSet(apps')
  <2> HIDE DEF f
  <2> QED
    BY <1>2, FS_Surjection DEF AppInv
<1>4. ASSUME NEW x \in apps PROVE Became(x, new(x), id, from, to)
  <2>1. x = [id |-> x.id, user |-> x.user, status |-> x.status, at |-> x.at]
    BY DEF AppInv
  <2>2. x.id = id => x.status = from
    BY StatusOfFacts DEF CasStatus
  <2>3. CASE x.id = id
    <3>1. new(x) = [id |-> x.id, user |-> x.user, status |-> to, at |-> x.at]
      BY <2>1, <2>3
    <3> QED
      BY <2>2, <2>3, <3>1 DEF Became
  <2>4. CASE x.id # id
    <3>1. new(x) = x
      BY <2>4
    <3> QED
      BY <2>1, <2>4, <3>1 DEF Became
  <2> QED
    BY <2>3, <2>4
<1> HIDE DEF new
<1> QED
  BY <1>1, <1>3, <1>4

\* SwapStatus keeps the applications in order.
LEMMA SwapStatusApp ==
    ASSUME BaseInv, AppInv, OpenInv, NEW r \in Requests, SwapStatus(r)
    PROVE  AppInv' /\ OpenInv'
<1>1. Shape(req[r]) /\ ReqMap /\ req[r].pc = "cas"
  BY RequestFacts DEF SwapStatus, At
<1>2. Moved(r)
  BY <1>1, ApplicationMoves DEF ApplicationMove
<1>3. CASE apps' = apps
  BY <1>1, <1>2, <1>3, AppFrame
<1>4. CASE CasStatus(req[r].app, req[r].from, req[r].to)
  <2>1. PICK id, from, to : id = req[r].app /\ from = req[r].from /\ to = req[r].to
    OBVIOUS
  <2>2. /\ IsFiniteSet(apps')
        /\ \A y \in apps' : \E x \in apps : Became(x, y, id, from, to)
    BY <1>4, <2>1, SwapFacts
  <2>3. from \in Open /\ to \in Statuses
    BY <1>1, <2>1 DEF Shape, Statuses
  <2>4. \A x \in apps : x.id # r
    BY <1>1 DEF AppInv
  <2>5. ASSUME NEW y \in apps'
        PROVE  /\ y = [id |-> y.id, user |-> y.user, status |-> y.status, at |-> y.at]
               /\ y.id # "none" /\ y.user \in Persons /\ y.status \in Statuses /\ y.at \in Nat
               /\ y.id \in Requests => req'[y.id].pc \in {"recount", "delete", "over"}
               /\ Unsettled(y)' => req'[y.id].of = y.user
    <3>1. PICK x \in apps : Became(x, y, id, from, to)
      BY <2>2
    <3>2. y.id \in Requests => req'[y.id] = req[y.id]
      BY <1>2, <2>4, <3>1 DEF Moved, Others, Became
    <3>3. /\ y = [id |-> y.id, user |-> y.user, status |-> y.status, at |-> y.at]
          /\ y.id # "none" /\ y.user \in Persons /\ y.status \in Statuses /\ y.at \in Nat
      BY <2>3, <3>1 DEF AppInv, Became
    <3>4. y.id \in Requests => req'[y.id].pc \in {"recount", "delete", "over"}
      BY <3>1, <3>2 DEF AppInv, Became
    <3>5. Unsettled(y)' => req'[y.id].of = y.user
      BY <3>1, <3>2 DEF AppInv, Became, Unsettled
    <3> QED
      BY <3>3, <3>4, <3>5
  <2>6. \A x, y \in apps' : x.id = y.id \/ x.at = y.at => x = y
    <3> SUFFICES ASSUME NEW v \in apps', NEW w \in apps', v.id = w.id \/ v.at = w.at PROVE v = w
      OBVIOUS
    <3>1. PICK x \in apps : Became(x, v, id, from, to)
      BY <2>2
    <3>2. PICK y \in apps : Became(y, w, id, from, to)
      BY <2>2
    <3>3. x = y
      BY <3>1, <3>2 DEF Became, AppInv
    <3> QED
      BY <3>1, <3>2, <3>3 DEF Became
  <2>7. AppInv'
    BY <2>2, <2>5, <2>6 DEF AppInv
  <2>8. OpenInv'
    <3> SUFFICES ASSUME NEW v \in apps', NEW w \in apps',
                        v # w, v.user = w.user, v.status \in Open, w.status \in Open
                 PROVE  Unsettled(v)' \/ Unsettled(w)' \/ Happened("stopped", v.user)'
      BY DEF OpenInv
    <3>1. PICK x \in apps : Became(x, v, id, from, to)
      BY <2>2
    <3>2. PICK y \in apps : Became(y, w, id, from, to)
      BY <2>2
    <3>3. x # y /\ x.user = y.user
      BY <3>1, <3>2 DEF Became
    <3>4. x.status \in Open /\ y.status \in Open
      BY <2>3, <3>1, <3>2 DEF Became
    <3>5. Unsettled(x) \/ Unsettled(y) \/ Happened("stopped", x.user)
      BY <3>3, <3>4 DEF OpenInv
    <3>6. Unsettled(x) => Unsettled(v)'
      BY <1>2, <2>4, <3>1 DEF Moved, Others, Became, Unsettled
    <3>7. Unsettled(y) => Unsettled(w)'
      BY <1>2, <2>4, <3>2 DEF Moved, Others, Became, Unsettled
    <3>8. Happened("stopped", x.user) => Happened("stopped", v.user)'
      BY <1>2, <3>1 DEF Moved, Became, Happened
    <3> QED
      BY <3>5, <3>6, <3>7, <3>8
  <2> QED
    BY <2>7, <2>8
<1> QED
  BY <1>3, <1>4 DEF SwapStatus

\* The handlers of applications keep the table in order.
LEMMA ApplicationApp ==
    ASSUME BaseInv, AppInv, OpenInv, NEW r \in Requests, ApplicationMove(r)
    PROVE  AppInv' /\ OpenInv'
<1>1. CASE CreateApplication(r)
  BY <1>1, CreateApplicationApp
<1>2. CASE CountOpen(r)
  BY <1>2, CountOpenApp
<1>3. CASE DeleteApplication(r)
  BY <1>3, DeleteApplicationApp
<1>4. CASE SwapStatus(r)
  BY <1>4, SwapStatusApp
<1>5. CASE ApplicationStops(r)
  BY <1>5, ApplicationStopsApp
<1>6. CASE \/ \E p \in Persons : SubmitLoads(r, p) \/ WithdrawLoads(r, p)
           \/ \E me \in Persons, x \in apps, to \in {"trial", "accepted", "rejected", "withdrawn"} :
                 ReviewLoads(r, me, x, to)
           \/ SubmitChecksBan(r) \/ SubmitChecksOpen(r)
           \/ EnsureLoads(r) \/ EnsureChecksBan(r) \/ EnsureActivates(r)
           \/ EnsurePromotes(r) \/ EnsureCreates(r)
           \/ FindRecruit(r) \/ DropRecruit(r)
  <2>1. Moved(r)
    BY RequestFacts, ApplicationMoves
  <2>2. apps' = apps
    BY <1>6 DEF SubmitLoads, WithdrawLoads, ReviewLoads, SubmitChecksBan, SubmitChecksOpen,
       EnsureLoads, EnsureChecksBan, EnsureActivates, EnsurePromotes, EnsureCreates, FindRecruit,
       DropRecruit
  <2>3. req[r].pc \notin {"recount", "delete", "over"}
    BY <1>6 DEF SubmitLoads, WithdrawLoads, ReviewLoads, SubmitChecksBan, SubmitChecksOpen,
       EnsureLoads, EnsureChecksBan, EnsureActivates, EnsurePromotes, EnsureCreates, FindRecruit,
       DropRecruit, At, MaySend
  <2> QED
    BY <2>1, <2>2, <2>3, AppFrame
<1> QED
  BY <1>1, <1>2, <1>3, <1>4, <1>5, <1>6 DEF ApplicationMove

-----------------------------------------------------------------------------
(* Suspensions and bans are about members and are written once. *)

\* No row of the member table goes.
LEMMA ModerationRows ==
    ASSUME BaseInv, NEW r \in Requests, ModerationStep(r)
    PROVE  Rows
<1>1. CASE member' = member
  BY <1>1, SameRows
<1>2. CASE WriteActive(r)
  <2>1. PICK p \in Persons : p = req[r].of /\ HasRow(p)
    BY <1>2, WriteFacts DEF WriteActive, At, Decided
  <2>2. PICK to \in BOOLEAN : SetActive(p, to)
    BY <1>2, <2>1 DEF WriteActive
  <2> QED
    BY <2>1, <2>2, SetActiveFacts, RequestFacts DEF Rows
<1>3. CASE WriteRole(r) /\ member' # member
  <2>1. PICK p \in Persons : p = req[r].of /\ HasRow(p)
    BY <1>3, WriteFacts DEF WriteRole, At, Decided
  <2>2. PICK to \in Roles : SetRole(p, to)
    BY <1>3, <2>1, WriteFacts, RoleJob DEF WriteRole, CasRole, At, Decided
  <2> QED
    BY <2>1, <2>2, SetRoleFacts, RequestFacts DEF Rows
<1>4. CASE Undo(r) /\ member' # member
  <2>1. PICK p \in Persons : p = req[r].of /\ HasRow(p)
    BY <1>4, WriteFacts DEF Undo, At, Decided
  <2>2. req[r].target.role \in Roles
    BY <1>4, WriteFacts DEF Undo, At, Decided, MemberRow
  <2>3. SetActive(p, TRUE) \/ SetRole(p, req[r].target.role)
    BY <1>4, <2>1 DEF Undo, CasRole
  <2> QED
    BY <2>1, <2>2, <2>3, SetActiveFacts, SetRoleFacts, RequestFacts DEF Rows
<1> QED
  BY <1>1, <1>2, <1>3, <1>4 DEF ModerationStep, Authenticate, LoadTarget, CountAdmins, Decide,
     WriteAction, CheckAgain, WriteBan, LiftAction, ModerationStops, CheckFails

\* No handler of applications takes a row of a member, or moderates.
LEMMA ApplicationRows ==
    ASSUME BaseInv, NEW r \in Requests, ApplicationMove(r)
    PROVE  Rows /\ actions' = actions
<1>0. actions' = actions
  BY DEF ApplicationMove, SubmitLoads, WithdrawLoads, ReviewLoads,
     SubmitChecksBan, SubmitChecksOpen, CreateApplication, CountOpen, DeleteApplication,
     EnsureLoads, EnsureChecksBan, EnsureActivates, EnsurePromotes, EnsureCreates, SwapStatus,
     FindRecruit, DropRecruit, ApplicationStops
<1> SUFFICES Rows
  BY <1>0
<1>1. CASE member' = member
  BY <1>1, SameRows
<1>2. CASE EnsureActivates(r)
  <2>1. PICK p \in Persons : p = req[r].of /\ HasRow(p)
    BY <1>2, RequestFacts DEF EnsureActivates, At, Shape, Sees
  <2> QED
    BY <1>2, <2>1, SetActiveFacts, RequestFacts DEF Rows, EnsureActivates
<1>3. CASE EnsurePromotes(r)
  <2>1. PICK p \in Persons : p = req[r].of /\ HasRow(p)
    BY <1>3, RequestFacts DEF EnsurePromotes, At, Shape, Sees
  <2>2. DesiredRole(req[r]) \in Roles
    BY DesiredRoleFacts DEF Roles
  <2> QED
    BY <1>3, <2>1, <2>2, SetRoleFacts, RequestFacts DEF Rows, EnsurePromotes
<1>4. CASE EnsureCreates(r) /\ member' # member
  <2>1. PICK p \in Persons : p = req[r].of
    BY <1>4, RequestFacts DEF EnsureCreates, At, Shape
  <2>2. DesiredRole(req[r]) \in Roles
    BY DesiredRoleFacts DEF Roles
  <2> QED
    BY <1>4, <2>1, <2>2, CreateMemberFacts, RequestFacts DEF Rows, EnsureCreates
<1>5. CASE DropRecruit(r)
  <2>1. PICK p \in Persons : p = req[r].of /\ HasRow(p)
    BY <1>5, RequestFacts DEF DropRecruit, At, Shape, Sees
  <2> QED
    BY <1>5, <2>1, SetActiveFacts, RequestFacts DEF Rows, DropRecruit
<1> QED
  BY <1>1, <1>2, <1>3, <1>4, <1>5 DEF ApplicationMove, SubmitLoads, WithdrawLoads, ReviewLoads,
     SubmitChecksBan, SubmitChecksOpen, CreateApplication, CountOpen, DeleteApplication,
     EnsureLoads, EnsureChecksBan, SwapStatus, FindRecruit, ApplicationStops

\* Set-up takes no row.
LEMMA BootRows ==
    ASSUME BaseInv, NEW r \in Requests, BootStep(r)
    PROVE  Rows
<1>1. CASE member' = member
  BY <1>1, SameRows
<1>2. CASE req[r].pc = "admin" /\ CreateMember(req[r].of, "admin")
  BY <1>2, AdminMade
<1> QED
  BY <1>1, <1>2 DEF BootStep, SetupLooks, SetupClaims, SetupCreatesUser, SetupCreatesAdmin,
     LooksBeforeDelete, DropsUser, LooksBeforeRelease, ReleasesLock, SetupFails, SetupTimesOut,
     SetupStops, At

\* Rows are only lifted, and that of the request that moves stays in order.
LEMMA ActionFrame ==
    ASSUME ActionInv, NEW r \in Requests, Moved(r), Rows, actions' \subseteq actions,
           \A x \in actions' : x.id = r =>
               /\ req'[r].pc \in Watching \cup {"over"}
               /\ req'[r].pc \in Watching => req'[r].job = Suspend
    PROVE  ActionInv'
<1>1. ASSUME NEW x \in actions'
      PROVE  /\ x.of \in Persons /\ HasRow(x.of)' /\ x.type \in {"suspension", "ban"}
             /\ x.id \in Requests => req'[x.id].pc \in Watching \cup {"over"}
             /\ x.id \in Requests /\ req'[x.id].pc \in Watching => req'[x.id].job = Suspend
  <2>1. x.of \in Persons /\ HasRow(x.of)' /\ x.type \in {"suspension", "ban"}
    BY DEF ActionInv, Rows
  <2>2. CASE x.id = r
    BY <2>1, <2>2
  <2>3. CASE x.id \in Requests \ {r}
    <3>1. req'[x.id] = req[x.id]
      BY <2>3 DEF Moved, Others
    <3> QED
      BY <2>1, <2>3, <3>1 DEF ActionInv
  <2> QED
    BY <2>1, <2>2, <2>3
<1>2. \A x, y \in actions' : x.id = y.id => x = y
  BY DEF ActionInv
<1> QED
  BY <1>1, <1>2 DEF ActionInv

\* A request that is not looking again has written nothing.
LEMMA NoActionYet ==
    ASSUME ActionInv, NEW r \in Requests, req[r].pc \notin Watching \cup {"over"}
    PROVE  \A x \in actions : x.id # r
BY DEF ActionInv

\* A request writes its row.
LEMMA InsertFacts ==
    ASSUME ActionInv, BaseInv, NEW r \in Requests, Moved(r), Rows, InsertAction(r),
           req[r].pc \in {"write", "row"}, req[r].job \in {Suspend, Ban},
           req'[r].pc \in Watching \cup {"over"},
           req'[r].pc \in Watching => req'[r].job = Suspend
    PROVE  ActionInv'
<1>1. PICK new : new = [of |-> req[r].of, type |-> req[r].job.kind, id |-> r]
  OBVIOUS
<1>2. actions' = actions \cup {new}
  BY <1>1 DEF InsertAction
<1>3. new.of \in Persons /\ HasRow(new.of) /\ new.id = r
  BY <1>1, WriteFacts DEF Decided
<1>4. new.type \in {"suspension", "ban"}
  BY <1>1 DEF Suspend, Ban
<1>5. \A x \in actions : x.id # r
  BY NoActionYet DEF Watching
<1>6. ASSUME NEW x \in actions
      PROVE  /\ x.of \in Persons /\ HasRow(x.of)' /\ x.type \in {"suspension", "ban"}
             /\ x.id \in Requests => req'[x.id].pc \in Watching \cup {"over"}
             /\ x.id \in Requests /\ req'[x.id].pc \in Watching => req'[x.id].job = Suspend
  BY <1>5 DEF ActionInv, Rows, Moved, Others
<1>7. HasRow(new.of)'
  BY <1>3 DEF Rows
<1>8. \A x, y \in actions' : x.id = y.id => x = y
  BY <1>2, <1>3, <1>5 DEF ActionInv
<1> QED
  BY <1>2, <1>3, <1>4, <1>6, <1>7, <1>8 DEF ActionInv

\* The handlers of moderation keep the table of suspensions and bans in order.
LEMMA ModerationAction ==
    ASSUME BaseInv, ActionInv, NEW r \in Requests, ModerationStep(r)
    PROVE  ActionInv'
<1>1. /\ ReqMap /\ Moved(r) /\ Rows /\ Shape(req[r]) /\ "pc" \in DOMAIN req[r]
  BY RequestFacts, ModerationMoves, ModerationRows
<1>2. CASE /\ actions' = actions
           /\ req[r].pc \notin Watching \cup {"over"}
  BY <1>1, <1>2, NoActionYet, ActionFrame
<1>3. CASE LiftAction(r)
  <2>1. actions' \subseteq actions
    BY <1>3 DEF LiftAction
  <2>2. Answer(r)
    BY <1>3 DEF LiftAction
  <2>3. req'[r].pc = "over"
    BY <1>1, <2>2, AnswerFacts
  <2> QED
    BY <1>1, <2>1, <2>3, ActionFrame DEF Watching
<1>4. CASE WriteAction(r)
  <2>1. req[r].pc = "write" /\ InsertAction(r) /\ req[r].job \in {Suspend, Ban}
    BY <1>4 DEF WriteAction, At
  <2>2. CASE Answer(r)
    BY <1>1, <2>1, <2>2, AnswerFacts, InsertFacts DEF Watching
  <2>3. CASE req[r].job = Suspend /\ Goto(r, "check")
    <3>1. req'[r].pc = "check" /\ req'[r].job = Suspend
      BY <1>1, <2>3, GotoFacts DEF SameLocals
    <3> QED
      BY <1>1, <2>1, <3>1, InsertFacts DEF Watching
  <2> QED
    BY <1>4, <2>2, <2>3 DEF WriteAction
<1>5. CASE WriteBan(r)
  <2>1. req[r].pc = "row" /\ InsertAction(r) /\ Answer(r)
    BY <1>5 DEF WriteBan, At
  <2>2. req[r].job = Ban
    BY <1>1, <2>1 DEF Shape
  <2> QED
    BY <1>1, <2>1, <2>2, AnswerFacts, InsertFacts DEF Watching
<1>6. CASE CheckAgain(r) \/ CheckFails(r)
  <2>1. req[r].pc = "check" /\ actions' = actions
    BY <1>6 DEF CheckAgain, CheckFails, At
  <2>2. CASE Answer(r)
    BY <1>1, <2>1, <2>2, AnswerFacts, ActionFrame DEF Watching
  <2>3. CASE Goto(r, "undo")
    <3>1. req'[r].pc = "undo" /\ req'[r].job = req[r].job
      BY <1>1, <2>3, GotoFacts DEF SameLocals
    <3>2. \A x \in actions' : x.id = r => req'[r].job = Suspend
      BY <2>1, <3>1 DEF ActionInv, Watching
    <3> QED
      BY <1>1, <2>1, <3>1, <3>2, ActionFrame DEF Watching
  <2>4. CASE req[r].job = Ban
    <3>1. \A x \in actions' : x.id # r
      BY <2>1, <2>4 DEF ActionInv, Watching, Suspend, Ban
    <3> QED
      BY <1>1, <2>1, <3>1, ActionFrame
  <2> QED
    BY <1>6, <2>2, <2>3, <2>4 DEF CheckAgain, CheckFails
<1>7. CASE Undo(r) \/ ModerationStops(r)
  <2>1. actions' \subseteq actions /\ Answer(r)
    BY <1>7 DEF Undo, ModerationStops
  <2> QED
    BY <1>1, <2>1, AnswerFacts, ActionFrame DEF Watching
<1>8. CASE \/ \E me, of \in Persons, job \in ModerationJobs : Authenticate(r, me, of, job)
           \/ LoadTarget(r) \/ CountAdmins(r) \/ Decide(r)
           \/ WriteActive(r) \/ WriteRole(r)
  <2>1. actions' = actions
    BY <1>8 DEF Authenticate, LoadTarget, CountAdmins, Decide, WriteActive, WriteRole
  <2>2. req[r].pc \notin Watching \cup {"over"}
    BY <1>8 DEF Authenticate, LoadTarget, CountAdmins, Decide, WriteActive, WriteRole, At, MaySend,
       Watching
  <2> QED
    BY <1>2, <2>1, <2>2
<1> QED
  BY <1>3, <1>4, <1>5, <1>6, <1>7, <1>8 DEF ModerationStep

\* The handlers of applications keep the table of suspensions and bans in order.
LEMMA ApplicationAction ==
    ASSUME BaseInv, ActionInv, NEW r \in Requests, ApplicationMove(r)
    PROVE  ActionInv'
<1>1. Moved(r) /\ req[r].pc \in {"idle"} \cup ApplicationSteps
  BY RequestFacts, ApplicationMoves
<1>2. req[r].pc \notin Watching \cup {"over"}
  BY <1>1 DEF ApplicationSteps, Watching
<1> QED
  BY <1>1, <1>2, ApplicationRows, NoActionYet, ActionFrame

\* The steps of set-up keep the table of suspensions and bans in order.
LEMMA BootAction ==
    ASSUME BaseInv, ActionInv, NEW r \in Requests, BootStep(r)
    PROVE  ActionInv'
<1>1. Moved(r) /\ req[r].pc \in {"idle", "claim"} \cup Locking /\ actions' = actions
  BY RequestFacts, BootMoves
<1>2. req[r].pc \notin Watching \cup {"over"}
  BY <1>1 DEF Locking, Watching
<1> QED
  BY <1>1, <1>2, BootRows, NoActionYet, ActionFrame

-----------------------------------------------------------------------------
(* A ban holds. *)

\* A member who is out stays out, or comes in openly.
StaysShut == \A p \in Persons : HasRow(p) /\ Shut(p) => Shut(p)'

\* It is enough that whoever becomes active has a reason.
LEMMA ShutFrame ==
    ASSUME BaseInv, past \subseteq past',
           \A p \in Persons : HasRow(p) /\ member'[p].active =>
              \/ member[p].active
              \/ Happened("activated", p)' \/ Happened("readmitted", p)'
    PROVE  StaysShut
BY DEF StaysShut, Shut, Happened

\* A step keeps bans if whoever is shut out stays so and the request that
\* takes the step bans only whom it has shut out.
LEMMA BanFrame ==
    ASSUME BaseInv, ActionInv, BanInv, NEW r \in Requests, Moved(r), StaysShut,
           \A x \in actions' : x.type = "ban" => x \in actions \/ Shut(x.of)',
           BanShuts(req[r])'
    PROVE  BanInv'
<1>1. \A p \in Persons : Banned(p)' => Shut(p)'
  <2> SUFFICES ASSUME NEW p \in Persons, NEW x \in actions', x.of = p, x.type = "ban"
               PROVE  Shut(p)'
    BY DEF Banned
  <2>1. CASE x \in actions
    <3>1. Banned(p) /\ HasRow(p)
      BY <2>1 DEF Banned, ActionInv
    <3> QED
      BY <3>1 DEF BanInv, StaysShut
  <2>2. CASE Shut(x.of)'
    BY <2>2
  <2> QED
    BY <2>1, <2>2
<1>2. ASSUME NEW s \in Requests, s # r PROVE BanShuts(req[s])'
  <2>1. req'[s] = req[s] /\ BanShuts(req[s]) /\ Shape(req[s]) /\ Sees(req[s])
    BY <1>2, RequestFacts DEF Moved, Others, BanInv
  <2>2. CASE req[s].pc \in Judging \cup Decided
    <3>1. PICK p \in Persons : p = req[s].of
      BY <2>1, <2>2 DEF Shape, Judging, Decided
    <3>2. HasRow(p)
      BY <2>1, <2>2, <3>1 DEF Sees
    <3>3. Shut(p) => Shut(p)'
      BY <3>2 DEF StaysShut
    <3>4. Shut(req[s].of) => Shut(req[s].of)'
      BY <2>1, <3>1, <3>3 DEF Shut, Happened
    <3> QED
      BY <2>1, <3>4 DEF BanShuts
  <2>3. CASE req[s].pc \notin Judging \cup Decided
    BY <2>1, <2>3 DEF BanShuts, Judging, Decided
  <2> QED
    BY <2>2, <2>3
<1> QED
  BY <1>1, <1>2 DEF BanInv

\* The handlers of moderation let nobody in silently.
LEMMA ModerationShut ==
    ASSUME BaseInv, NEW r \in Requests, ModerationStep(r)
    PROVE  StaysShut
<1>1. past \subseteq past' /\ MemberMap
  BY RequestFacts, ModerationMoves DEF Moved
<1>2. CASE member' = member
  BY <1>1, <1>2, ShutFrame
<1>3. CASE WriteActive(r)
  <2>1. PICK p \in Persons : p = req[r].of /\ HasRow(p)
    BY <1>3, WriteFacts DEF WriteActive, At, Decided
  <2>2. PICK to \in BOOLEAN : to = (req[r].job = Activate) /\ SetActive(p, to)
    BY <1>3, <2>1 DEF WriteActive
  <2>3. to => Happened("activated", p)'
    BY <1>3, <2>1, <2>2 DEF WriteActive, Remember, Happened
  <2>4. member'[p].active = to /\ \A q \in Persons \ {p} : member'[q] = member[q]
    BY <1>1, <2>1, <2>2, SetActiveFacts
  <2> QED
    BY <1>1, <2>3, <2>4, ShutFrame
<1>4. CASE WriteRole(r) /\ member' # member
  <2>1. PICK p \in Persons : p = req[r].of /\ HasRow(p)
    BY <1>4, WriteFacts DEF WriteRole, At, Decided
  <2>2. PICK to \in Roles : SetRole(p, to)
    BY <1>4, <2>1, WriteFacts, RoleJob DEF WriteRole, CasRole, At, Decided
  <2>3. \A q \in Persons : member'[q].active = member[q].active
    BY <1>1, <2>1, <2>2, SetRoleFacts
  <2> QED
    BY <1>1, <2>3, ShutFrame
<1>5. CASE Undo(r) /\ member' # member
  <2>1. PICK p \in Persons : p = req[r].of /\ HasRow(p)
    BY <1>5, WriteFacts DEF Undo, At, Decided
  <2>2. req[r].target.role \in Roles
    BY <1>5, WriteFacts DEF Undo, At, Decided, MemberRow
  <2>3. CASE SetActive(p, TRUE) /\ Happened("activated", p)'
    <3>1. \A q \in Persons \ {p} : member'[q] = member[q]
      BY <1>1, <2>1, <2>3, SetActiveFacts
    <3> QED
      BY <1>1, <2>3, <3>1, ShutFrame
  <2>4. CASE SetRole(p, req[r].target.role)
    <3>1. \A q \in Persons : member'[q].active = member[q].active
      BY <1>1, <2>1, <2>2, <2>4, SetRoleFacts
    <3> QED
      BY <1>1, <3>1, ShutFrame
  <2> QED
    BY <1>5, <2>1, <2>3, <2>4 DEF Undo, CasRole, Remember, Happened
<1> QED
  BY <1>2, <1>3, <1>4, <1>5 DEF ModerationStep, Authenticate, LoadTarget, CountAdmins, Decide,
     WriteAction, CheckAgain, WriteBan, LiftAction, ModerationStops, CheckFails

\* The handlers of applications let nobody in silently.
LEMMA ApplicationShut ==
    ASSUME BaseInv, NEW r \in Requests, ApplicationMove(r)
    PROVE  StaysShut
<1>1. past \subseteq past' /\ MemberMap
  BY RequestFacts, ApplicationMoves DEF Moved
<1>2. CASE member' = member
  BY <1>1, <1>2, ShutFrame
<1>3. CASE EnsureActivates(r)
  <2>1. PICK p \in Persons : p = req[r].of /\ HasRow(p)
    BY <1>3, RequestFacts DEF EnsureActivates, At, Shape, Sees
  <2>2. SetActive(p, TRUE)
    BY <1>3, <2>1 DEF EnsureActivates
  <2>3. req[r].clear
    BY <1>3, RequestFacts DEF EnsureActivates, At, Shape
  <2>4. Happened("readmitted", p)'
    BY <1>3, <2>1, <2>3 DEF EnsureActivates, Remember, Happened
  <2>5. \A q \in Persons \ {p} : member'[q] = member[q]
    BY <1>1, <2>1, <2>2, SetActiveFacts
  <2> QED
    BY <1>1, <2>4, <2>5, ShutFrame
<1>4. CASE EnsurePromotes(r)
  <2>1. PICK p \in Persons : p = req[r].of /\ HasRow(p)
    BY <1>4, RequestFacts DEF EnsurePromotes, At, Shape, Sees
  <2>2. PICK to \in Roles : SetRole(p, to)
    BY <1>4, <2>1, DesiredRoleFacts DEF EnsurePromotes, Roles
  <2>3. \A q \in Persons : member'[q].active = member[q].active
    BY <1>1, <2>1, <2>2, SetRoleFacts
  <2> QED
    BY <1>1, <2>3, ShutFrame
<1>5. CASE EnsureCreates(r) /\ member' # member
  <2>1. PICK p \in Persons : p = req[r].of
    BY <1>5, RequestFacts DEF EnsureCreates, At, Shape
  <2>2. DesiredRole(req[r]) \in Roles
    BY DesiredRoleFacts DEF Roles
  <2>3. ~HasRow(p) /\ CreateMember(p, DesiredRole(req[r]))
    BY <1>5, <2>1 DEF EnsureCreates
  <2>4. \A q \in Persons \ {p} : member'[q] = member[q]
    BY <1>1, <2>2, <2>3, CreateMemberFacts
  <2> QED
    BY <1>1, <2>3, <2>4, ShutFrame
<1>6. CASE DropRecruit(r)
  <2>1. PICK p \in Persons : p = req[r].of /\ HasRow(p)
    BY <1>6, RequestFacts DEF DropRecruit, At, Shape, Sees
  <2>2. SetActive(p, FALSE)
    BY <1>6, <2>1 DEF DropRecruit
  <2>3. member'[p].active = FALSE /\ \A q \in Persons \ {p} : member'[q] = member[q]
    BY <1>1, <2>1, <2>2, SetActiveFacts
  <2> QED
    BY <1>1, <2>3, ShutFrame
<1> QED
  BY <1>2, <1>3, <1>4, <1>5, <1>6 DEF ApplicationMove, SubmitLoads, WithdrawLoads, ReviewLoads,
     SubmitChecksBan, SubmitChecksOpen, CreateApplication, CountOpen, DeleteApplication,
     EnsureLoads, EnsureChecksBan, SwapStatus, FindRecruit, ApplicationStops

\* The steps of set-up let nobody in silently.
LEMMA BootShut ==
    ASSUME BaseInv, NEW r \in Requests, BootStep(r)
    PROVE  StaysShut
<1>1. past \subseteq past' /\ MemberMap
  BY RequestFacts, BootMoves DEF Moved
<1>2. CASE member' = member
  BY <1>1, <1>2, ShutFrame
<1>3. CASE req[r].pc = "admin"
  <2>1. ~AnyMember
    BY <1>3, RequestFacts DEF Sees, Early
  <2> QED
    BY <2>1 DEF AnyMember, StaysShut
<1> QED
  BY <1>2, <1>3 DEF BootStep, SetupLooks, SetupClaims, SetupCreatesUser, SetupCreatesAdmin,
     LooksBeforeDelete, DropsUser, LooksBeforeRelease, ReleasesLock, SetupFails, SetupTimesOut,
     SetupStops, At

\* A request outside of moderation bans nobody.
LEMMA BansNobody ==
    ASSUME NEW r \in Requests, req'[r].pc \notin Judging \cup Decided
    PROVE  BanShuts(req[r])'
BY DEF BanShuts, Judging, Decided

\* A request that finds no ban goes on with what it has read.
LEMMA EnsureChecksBanFacts ==
    ASSUME ReqMap, NEW r \in Requests, EnsureChecksBan(r), ~Answer(r)
    PROVE  /\ ~Banned(req[r].of)
           /\ req'[r].pc = IF req[r].row.active THEN AfterActive(req[r], req[r].row) ELSE "reactivate"
           /\ req'[r].app = req[r].app /\ req'[r].of = req[r].of
           /\ req'[r].from = req[r].from /\ req'[r].to = req[r].to
<1>1. /\ ~Banned(req[r].of)
      /\ req' = [req EXCEPT ![r] =
            [pc |-> IF req[r].row.active THEN AfterActive(req[r], req[r].row) ELSE "reactivate",
             app |-> req[r].app, of |-> req[r].of, from |-> req[r].from, to |-> req[r].to,
             clear |-> ~Banned(req[r].of)]]
  BY DEF EnsureChecksBan
<1>2. req'[r] = [pc |-> IF req[r].row.active THEN AfterActive(req[r], req[r].row) ELSE "reactivate",
             app |-> req[r].app, of |-> req[r].of, from |-> req[r].from, to |-> req[r].to,
             clear |-> ~Banned(req[r].of)]
  BY <1>1 DEF ReqMap
<1> QED
  BY <1>1, <1>2

\* A request at work on an application stays at work on it, or is over.
LEMMA ApplicationStays ==
    ASSUME BaseInv, NEW r \in Requests, ApplicationMove(r)
    PROVE  req'[r].pc \in ApplicationSteps \cup {"over"}
<1>1. ReqMap /\ "pc" \in DOMAIN req[r]
  BY RequestFacts
<1>2. CASE Answer(r)
  BY <1>1, <1>2, AnswerFacts
<1>3. ASSUME NEW pc \in ApplicationSteps, Goto(r, pc)
      PROVE  req'[r].pc \in ApplicationSteps
  BY <1>1, <1>3, GotoFacts
<1>4. CASE \E p \in Persons : SubmitLoads(r, p)
  <2>1. req'[r].pc \in {"banned?", "open?"}
    BY <1>1, <1>4 DEF SubmitLoads, ReqMap
  <2> QED
    BY <2>1 DEF ApplicationSteps
<1>5. CASE \/ \E p \in Persons : WithdrawLoads(r, p)
           \/ \E me \in Persons, x \in apps, to \in {"trial", "accepted", "rejected", "withdrawn"} :
                 ReviewLoads(r, me, x, to)
  <2>1. PICK x, to : Transition(r, x, to)
    BY <1>5 DEF WithdrawLoads, ReviewLoads
  <2>2. req'[r].pc \in {"ensure", "cas"}
    BY <1>1, <2>1, TransitionFacts DEF Enter
  <2> QED
    BY <2>2 DEF ApplicationSteps
<1>6. CASE \/ SubmitChecksBan(r) \/ SubmitChecksOpen(r) \/ CreateApplication(r)
           \/ CountOpen(r) \/ DeleteApplication(r)
  BY <1>2, <1>3, <1>6 DEF SubmitChecksBan, SubmitChecksOpen, CreateApplication, CountOpen,
     DeleteApplication, ApplicationSteps
<1>7. CASE EnsureLoads(r)
  <2>1. req'[r].pc \in {"ban check", "new member"}
    BY <1>1, <1>7 DEF EnsureLoads, ReqMap
  <2> QED
    BY <2>1 DEF ApplicationSteps
<1>8. CASE EnsureChecksBan(r) /\ ~Answer(r)
  <2>1. req'[r].pc \in {"reactivate", "promote", "cas"}
    BY <1>1, <1>8, EnsureChecksBanFacts, AfterActiveFacts
  <2> QED
    BY <2>1 DEF ApplicationSteps
<1>9. CASE EnsureActivates(r)
  <2>1. PICK pc \in {"promote", "cas"} : Goto(r, pc)
    BY <1>9, AfterActiveFacts DEF EnsureActivates
  <2> QED
    BY <1>3, <2>1 DEF ApplicationSteps
<1>10. CASE \/ EnsurePromotes(r) \/ EnsureCreates(r) \/ SwapStatus(r) \/ FindRecruit(r)
            \/ DropRecruit(r) \/ ApplicationStops(r)
  BY <1>2, <1>3, <1>10 DEF EnsurePromotes, EnsureCreates, SwapStatus, FindRecruit, DropRecruit,
     ApplicationStops, ApplicationSteps
<1> QED
  BY <1>2, <1>4, <1>5, <1>6, <1>7, <1>8, <1>9, <1>10 DEF ApplicationMove

\* The handlers of applications keep bans in force.
LEMMA ApplicationBan ==
    ASSUME BaseInv, BaseInv', ActionInv, BanInv, NEW r \in Requests, ApplicationMove(r)
    PROVE  BanInv'
<1>1. Moved(r) /\ req[r].pc \in {"idle"} \cup ApplicationSteps
  BY RequestFacts, ApplicationMoves
<1>2. actions' = actions /\ StaysShut
  BY ApplicationRows, ApplicationShut
<1>3. req'[r].pc \notin Judging \cup Decided
  BY ApplicationStays DEF ApplicationSteps, Judging, Decided
<1>4. BanShuts(req[r])'
  BY <1>3, BansNobody
<1> QED
  BY <1>1, <1>2, <1>4, BanFrame

\* The steps of set-up keep bans in force.
LEMMA BootBan ==
    ASSUME BaseInv, ActionInv, BanInv, NEW r \in Requests, BootStep(r)
    PROVE  BanInv'
<1>1. Moved(r) /\ req[r].pc \in {"idle", "claim"} \cup Locking /\ actions' = actions /\ ReqMap
      /\ "pc" \in DOMAIN req[r]
  BY RequestFacts, BootMoves
<1>2. req'[r].pc \in {"claim", "over"} \cup Locking
  <2>1. \/ Answer(r)
        \/ \E pc \in Locking : Goto(r, pc)
        \/ req'[r].pc = "claim"
    <3>1. CASE \E p \in Persons : SetupLooks(r, p)
      BY <1>1, <3>1 DEF SetupLooks, ReqMap
    <3>2. CASE SetupClaims(r) \/ SetupCreatesUser(r) \/ SetupCreatesAdmin(r)
      BY <3>2 DEF SetupClaims, SetupCreatesUser, SetupCreatesAdmin, Locking
    <3>3. CASE LooksBeforeDelete(r) \/ DropsUser(r) \/ LooksBeforeRelease(r) \/ ReleasesLock(r)
      BY <3>3 DEF LooksBeforeDelete, DropsUser, LooksBeforeRelease, ReleasesLock, Locking
    <3>4. CASE SetupFails(r)
      <4>1. OnError(req[r].pc) \in {"user needed?", "member left?"}
        BY <3>4 DEF SetupFails, OnError
      <4> QED
        BY <3>4, <4>1 DEF SetupFails, Locking
    <3>5. CASE SetupTimesOut(r) \/ SetupStops(r)
      <4>1. OnError("user") = "member left?" /\ OnError("admin") = "user needed?"
        BY DEF OnError
      <4> QED
        BY <3>5, <4>1 DEF SetupTimesOut, SetupStops, Locking
    <3> QED
      BY <3>1, <3>2, <3>3, <3>4, <3>5 DEF BootStep
  <2> QED
    BY <1>1, <2>1, AnswerFacts, GotoFacts
<1>3. req'[r].pc \notin Judging \cup Decided
  BY <1>2 DEF Locking, Judging, Decided
<1>4. BanShuts(req[r])'
  BY <1>3, BansNobody
<1> QED
  BY <1>1, <1>4, BootShut, BanFrame

\* Who bans has found the member out, or puts the member out.
LEMMA ModerationBan ==
    ASSUME BaseInv, ActionInv, BanInv, NEW r \in Requests, ModerationStep(r)
    PROVE  BanInv'
<1>1. /\ ReqMap /\ MemberMap /\ Moved(r) /\ Shape(req[r]) /\ Sees(req[r])
      /\ "pc" \in DOMAIN req[r] /\ StaysShut /\ BanShuts(req[r])
  BY RequestFacts, ModerationMoves, ModerationShut DEF BanInv
<1>2. ASSUME req'[r].pc \notin Judging \cup Decided, actions' \subseteq actions
      PROVE  BanInv'
  <2>1. BanShuts(req[r])'
    BY <1>2, BansNobody
  <2> QED
    BY <1>1, <1>2, <2>1, BanFrame
<1>3. ASSUME Answer(r), actions' \subseteq actions
      PROVE  BanInv'
  <2>1. req'[r].pc = "over"
    BY <1>1, <1>3, AnswerFacts
  <2> QED
    BY <1>2, <1>3, <2>1 DEF Judging, Decided
<1>4. CASE \E me, of \in Persons, job \in ModerationJobs : Authenticate(r, me, of, job)
  BY <1>1, <1>2, <1>4 DEF Authenticate, ReqMap, Judging, Decided
<1>5. CASE LoadTarget(r) /\ ~Answer(r)
  <2>1. /\ req'[r].pc = "count" /\ req'[r].of = req[r].of /\ req'[r].target = member[req[r].of]
        /\ actions' = actions /\ member' = member
    BY <1>1, <1>5 DEF LoadTarget, ReqMap
  <2>2. BanShuts(req[r])'
    BY <2>1 DEF BanShuts, Shut
  <2> QED
    BY <1>1, <2>1, <2>2, BanFrame
<1>6. CASE CountAdmins(r) \/ (Decide(r) /\ ~Answer(r))
  <2>1. /\ req[r].pc \in Judging /\ req'[r].pc \in {"decide", "write"}
        /\ req'[r].of = req[r].of /\ req'[r].target = req[r].target /\ req'[r].job = req[r].job
        /\ actions' = actions /\ member' = member /\ past' = past
    BY <1>1, <1>6 DEF CountAdmins, Decide, ReqMap, At, Judging
  <2>2. Shut(req[r].of)' <=> Shut(req[r].of)
    BY <2>1 DEF Shut, Happened
  <2>3. BanShuts(req[r])'
    BY <1>1, <2>1, <2>2 DEF BanShuts
  <2> QED
    BY <1>1, <2>1, <2>3, BanFrame
<1>7. CASE WriteAction(r)
  <2>1. /\ req[r].pc = "write" /\ InsertAction(r) /\ member' = member /\ past \subseteq past'
        /\ req[r].job = Suspend \/ (req[r].job = Ban /\ ~req[r].target.active)
    BY <1>7 DEF WriteAction, At, Remember
  <2>2. PICK p \in Persons : p = req[r].of /\ HasRow(p)
    BY <2>1, WriteFacts DEF Decided
  <2>3. \A x \in actions' : x.type = "ban" => x \in actions \/ Shut(x.of)'
    <3> SUFFICES ASSUME NEW x, x = [of |-> p, type |-> req[r].job.kind, id |-> r], x.type = "ban"
                 PROVE  Shut(x.of)'
      BY <2>1, <2>2 DEF InsertAction
    <3>1. req[r].job = Ban /\ ~req[r].target.active
      BY <2>1 DEF Suspend, Ban
    <3>2. Shut(p)
      BY <1>1, <2>1, <2>2, <3>1 DEF BanShuts, Decided
    <3> QED
      BY <1>1, <2>2, <3>2 DEF StaysShut
  <2>4. BanShuts(req[r])'
    <3>1. CASE Answer(r)
      BY <1>1, <3>1, AnswerFacts, BansNobody DEF Judging, Decided
    <3>2. CASE req[r].job = Suspend /\ Goto(r, "check")
      <4>1. req'[r].job = Suspend
        BY <1>1, <3>2, GotoFacts DEF SameLocals
      <4> QED
        BY <4>1 DEF BanShuts, Suspend, Ban
    <3> QED
      BY <1>7, <3>1, <3>2 DEF WriteAction
  <2> QED
    BY <1>1, <2>3, <2>4, BanFrame
<1>8. CASE WriteActive(r) /\ ~Answer(r)
  <2>1. /\ req[r].pc = "write" /\ actions' = actions /\ req[r].job # Activate
        /\ SetActive(req[r].of, FALSE)
    <3>1. req[r].job # Activate
      BY <1>8 DEF WriteActive, ChecksAgain, RemovesAdmin, Activate, Deactivate, Ban
    <3> QED
      BY <1>8, <3>1 DEF WriteActive, At
  <2>2. PICK p \in Persons : p = req[r].of /\ HasRow(p)
    BY <2>1, WriteFacts DEF Decided
  <2>3. member'[p].active = FALSE
    BY <1>1, <2>1, <2>2, SetActiveFacts
  <2>4. req'[r].of = p
    BY <1>1, <1>8, <2>2, GotoFacts DEF WriteActive, SameLocals
  <2>5. BanShuts(req[r])'
    BY <2>3, <2>4 DEF BanShuts, Shut
  <2> QED
    BY <1>1, <2>1, <2>5, BanFrame
<1>9. CASE WriteRole(r) /\ ~Answer(r)
  <2>1. /\ req[r].job.kind = "role" /\ actions' = actions /\ Goto(r, "check")
    BY <1>9 DEF WriteRole
  <2>2. req'[r].job = req[r].job
    BY <1>1, <2>1, GotoFacts DEF SameLocals
  <2>3. BanShuts(req[r])'
    BY <2>1, <2>2 DEF BanShuts, Ban
  <2> QED
    BY <1>1, <2>1, <2>3, BanFrame
<1>10. CASE (CheckAgain(r) /\ ~Answer(r)) \/ CheckFails(r)
  <2>1. /\ req[r].pc = "check" /\ actions' = actions
        /\ Goto(r, "undo") \/ Goto(r, "row")
    BY <1>10 DEF CheckAgain, CheckFails, At
  <2>2. PICK p \in Persons : p = req[r].of /\ HasRow(p)
    BY <2>1, WriteFacts DEF Decided
  <2>3. /\ req'[r].job = req[r].job /\ req'[r].of = p
    BY <1>1, <2>1, <2>2, GotoFacts DEF SameLocals
  <2>4. req[r].job = Ban => Shut(p)
    BY <1>1, <2>1, <2>2 DEF BanShuts
  <2>5. req[r].job = Ban => Shut(p)'
    BY <1>1, <2>2, <2>4 DEF StaysShut
  <2>6. req[r].job = Ban => Shut(req[r].of)'
    BY <2>3, <2>5 DEF Shut, Happened
  <2>7. BanShuts(req[r])'
    BY <2>3, <2>6 DEF BanShuts
  <2> QED
    BY <1>1, <2>1, <2>7, BanFrame
<1>11. CASE WriteBan(r)
  <2>1. /\ req[r].pc = "row" /\ InsertAction(r) /\ Answer(r)
    BY <1>11 DEF WriteBan, At
  <2>2. PICK p \in Persons : p = req[r].of /\ HasRow(p)
    BY <2>1, WriteFacts DEF Decided
  <2>3. Shut(p)'
    <3>1. Shut(p)
      BY <1>1, <2>1, <2>2 DEF BanShuts, Shape
    <3> QED
      BY <1>1, <2>2, <3>1 DEF StaysShut
  <2>4. \A x \in actions' : x \in actions \/ x.of = p
    BY <2>1, <2>2 DEF InsertAction
  <2>5. BanShuts(req[r])'
    BY <1>1, <2>1, AnswerFacts, BansNobody DEF Judging, Decided
  <2> QED
    BY <1>1, <2>3, <2>4, <2>5, BanFrame
<1>12. CASE Undo(r) \/ LiftAction(r) \/ ModerationStops(r)
  <2>1. actions' \subseteq actions /\ Answer(r)
    BY <1>12 DEF Undo, LiftAction, ModerationStops
  <2> QED
    BY <1>3, <2>1
<1>13. CASE /\ LoadTarget(r) \/ Decide(r) \/ WriteActive(r) \/ WriteRole(r) \/ CheckAgain(r)
            /\ Answer(r)
  <2>1. actions' = actions
    BY <1>13 DEF LoadTarget, Decide, WriteActive, WriteRole, CheckAgain
  <2> QED
    BY <1>3, <1>13, <2>1
<1> QED
  BY <1>4, <1>5, <1>6, <1>7, <1>8, <1>9, <1>10, <1>11, <1>12, <1>13 DEF ModerationStep

-----------------------------------------------------------------------------
(* An admin who can act remains. *)

\* It is enough to find an admin who can be restored again, or a loss that is
\* on record.
LEMMA AdminStep ==
    ASSUME AdminInv, AnyMember, past \subseteq past',
           \A p \in Persons : Restorable(p) => Lost' \/ \E q \in Persons : Restorable(q)'
    PROVE  AdminInv'
<1>1. Lost => Lost'
  BY DEF Lost, Excused, Happened
<1> QED
  BY <1>1 DEF AdminInv

\* Who is watched stays watched, by all but the request that moves.
StillWatched(r, p) ==
    \A s \in Requests : Watched(s, p) /\ s # r => Watched(s, p)' /\ req'[s].job = req[s].job

\* Other requests watch whom they watched.
LEMMA WatchFrame ==
    ASSUME NEW r \in Requests, Moved(r), NEW p \in Persons
    PROVE  StillWatched(r, p)
BY DEF StillWatched, Watched, Moved, Others

\* A step that leaves somebody's row and the look at it alone.
LEMMA RestorableFrame ==
    ASSUME NEW r \in Requests, Moved(r), NEW p \in Persons, Restorable(p),
           member'[p] = member[p],
           \A x \in actions' : x.of = p => x \in actions,
           Watched(r, p) => Watched(r, p)' /\ req'[r].job = req[r].job
    PROVE  Restorable(p)'
<1>1. \A s \in Requests : Watched(s, p) => Watched(s, p)' /\ req'[s].job = req[s].job
  BY WatchFrame DEF StillWatched
<1>2. FlagKept(p)'
  BY <1>1 DEF Restorable, FlagKept
<1>3. RoleKept(p)'
  BY <1>1 DEF Restorable, RoleKept
<1>4. ClearKept(p)'
  BY <1>1 DEF Restorable, ClearKept
<1> QED
  BY <1>2, <1>3, <1>4 DEF Restorable

\* Whoever is restorable can act now or is watched by another request.
LEMMA RestorableGuarded ==
    ASSUME NEW r \in Requests, req[r].pc \notin Watching, NEW p \in Persons, Restorable(p)
    PROVE  Guarded(r, p)
<1>1. CASE \E s \in Requests : Watched(s, p)
  BY <1>1 DEF Watched, Watching, Guarded
<1>2. CASE ~\E s \in Requests : Watched(s, p)
  <2>1. member[p].active
    BY <1>2 DEF Restorable, FlagKept
  <2>2. member[p].role = "admin"
    BY <1>2 DEF Restorable, RoleKept
  <2>3. ~Suspended(p)
    BY <1>2 DEF Restorable, ClearKept, Suspended
  <2> QED
    BY <2>1, <2>2, <2>3 DEF Guarded, Actionable
<1> QED
  BY <1>1, <1>2

\* A removal that does not look again is on record.
LEMMA UnwatchedIsLost ==
    ASSUME NEW r \in Requests, req[r].pc \notin Watching, NEW p \in Persons, Restorable(p),
           Unwatched(r, p) \subseteq past'
    PROVE  Lost'
<1>1. Guarded(r, p)
  BY RestorableGuarded
<1>2. <<"unwatched", p>> \in past'
  BY <1>1 DEF Unwatched
<1> QED
  BY <1>2 DEF Lost, Excused, Happened

\* Whoever can act needs no watching.
LEMMA ActionableRestorable ==
    ASSUME NEW p \in Persons, Actionable(p)
    PROVE  Restorable(p)
BY DEF Actionable, Restorable, FlagKept, RoleKept, ClearKept, Suspended

\* Whoever is restorable has a row.
LEMMA RestorableHasRow ==
    ASSUME BaseInv, NEW p \in Persons, Restorable(p)
    PROVE  HasRow(p)
<1>1. CASE member[p].active
  BY <1>1 DEF HasRow, NoRow
<1>2. CASE \E s \in Requests : Watched(s, p)
  <2>1. PICK s \in Requests : Watched(s, p)
    BY <1>2
  <2> QED
    BY <2>1, RequestFacts DEF Watched, Watching, Sees, Decided
<1> QED
  BY <1>1, <1>2 DEF Restorable, FlagKept

\* The first admin is one who can act.
LEMMA FirstAdmin ==
    ASSUME BaseInv, ActionInv, NEW r \in Requests, req[r].pc = "admin",
           CreateMember(req[r].of, "admin"), actions' = actions
    PROVE  AdminInv'
<1>1. ~AnyMember /\ MemberMap
  BY RequestFacts DEF Sees, Early
<1>2. PICK p \in Persons : p = req[r].of
  BY RequestFacts DEF Shape
<1>3. member'[p].role = "admin" /\ member'[p].active = TRUE
  BY <1>1, <1>2, CreateMemberFacts DEF Roles
<1>4. actions = {}
  BY <1>1 DEF ActionInv, AnyMember
<1>5. Actionable(p)'
  BY <1>3, <1>4 DEF Actionable, Suspended
<1>6. Restorable(p)'
  BY <1>5 DEF Actionable, Restorable, FlagKept, RoleKept, ClearKept, Suspended
<1> QED
  BY <1>6 DEF AdminInv

\* The steps of set-up leave an admin who can act.
LEMMA BootAdmin ==
    ASSUME BaseInv, ActionInv, AdminInv, NEW r \in Requests, BootStep(r)
    PROVE  AdminInv'
<1>1. Moved(r) /\ req[r].pc \in {"idle", "claim"} \cup Locking /\ actions' = actions
  BY RequestFacts, BootMoves
<1>2. CASE member' = member
  <2>1. AnyMember' <=> AnyMember
    BY <1>2, SameRows
  <2>2. CASE AnyMember
    <3>1. ASSUME NEW p \in Persons, Restorable(p) PROVE Restorable(p)'
      <4>1. ~Watched(r, p)
        BY <1>1 DEF Watched, Watching, Locking
      <4> QED
        BY <1>1, <1>2, <3>1, <4>1, RestorableFrame
    <3> QED
      BY <1>1, <2>2, <3>1, AdminStep DEF Moved
  <2>3. CASE ~AnyMember
    BY <2>1, <2>3 DEF AdminInv
  <2> QED
    BY <2>2, <2>3
<1>3. CASE req[r].pc = "admin" /\ CreateMember(req[r].of, "admin")
  BY <1>1, <1>3, FirstAdmin
<1> QED
  BY <1>2, <1>3 DEF BootStep, SetupLooks, SetupClaims, SetupCreatesUser, SetupCreatesAdmin,
     LooksBeforeDelete, DropsUser, LooksBeforeRelease, ReleasesLock, SetupFails, SetupTimesOut,
     SetupStops, At

\* The handlers of applications leave an admin who can act.
LEMMA ApplicationAdmin ==
    ASSUME BaseInv, BaseInv', AdminInv, NEW r \in Requests, ApplicationMove(r)
    PROVE  AdminInv'
<1>1. /\ Moved(r) /\ req[r].pc \in {"idle"} \cup ApplicationSteps /\ actions' = actions
      /\ MemberMap /\ past \subseteq past'
  BY RequestFacts, ApplicationMoves, ApplicationRows DEF Moved
<1>2. req[r].pc \notin Watching
  BY <1>1 DEF ApplicationSteps, Watching
<1>3. \A p \in Persons : ~Watched(r, p)
  BY <1>2 DEF Watched
<1>4. ASSUME NEW p \in Persons, Restorable(p), member'[p] = member[p] PROVE Restorable(p)'
  BY <1>1, <1>3, <1>4, RestorableFrame
<1>5. CASE ~AnyMember'
  BY <1>5 DEF AdminInv
<1>6. CASE AnyMember' /\ ~AnyMember
  <2>1. PICK q \in Persons : HasRow(q)' /\ ~HasRow(q)
    BY <1>6 DEF AnyMember
  <2>2. member' # member
    BY <2>1 DEF HasRow
  <2>3. /\ req[r].pc \in {"reactivate", "promote", "new member", "deactivate"}
    BY <2>2 DEF ApplicationMove, SubmitLoads, WithdrawLoads, ReviewLoads,
       SubmitChecksBan, SubmitChecksOpen, CreateApplication, CountOpen, DeleteApplication,
       EnsureLoads, EnsureChecksBan, EnsureActivates, EnsurePromotes, EnsureCreates, SwapStatus,
       FindRecruit, DropRecruit, ApplicationStops, At
  <2>4. AnyMember
    BY <2>3, RequestFacts DEF Sees, Shape, Ensuring, AnyMember
  <2> QED
    BY <1>6, <2>4
<1>7. CASE AnyMember
  <2> SUFFICES ASSUME NEW p \in Persons, Restorable(p)
               PROVE  Lost' \/ \E q \in Persons : Restorable(q)'
    BY <1>1, <1>7, AdminStep
  <2>1. CASE member'[p] = member[p]
    BY <1>4, <2>1
  <2>2. CASE EnsureActivates(r)
    <3>1. PICK o \in Persons : o = req[r].of /\ HasRow(o)
      BY <2>2, RequestFacts DEF EnsureActivates, At, Shape, Sees
    <3>2. SetActive(o, TRUE)
      BY <2>2, <3>1 DEF EnsureActivates
    <3>3. /\ member'[o].active = TRUE /\ member'[o].role = member[o].role
          /\ \A q \in Persons \ {o} : member'[q] = member[q]
      BY <1>1, <3>1, <3>2, SetActiveFacts
    <3>4. CASE p = o
      <4>1. \A s \in Requests : Watched(s, p) => Watched(s, p)' /\ req'[s].job = req[s].job
        BY <1>1, <1>3, WatchFrame DEF StillWatched
      <4>2. FlagKept(p)'
        BY <3>3, <3>4 DEF FlagKept
      <4>3. RoleKept(p)'
        BY <3>3, <3>4, <4>1 DEF Restorable, RoleKept
      <4>4. ClearKept(p)'
        BY <1>1, <4>1 DEF Restorable, ClearKept
      <4> QED
        BY <4>2, <4>3, <4>4 DEF Restorable
    <3> QED
      BY <2>1, <3>3, <3>4
  <2>3. CASE EnsurePromotes(r) \/ DropRecruit(r)
    <3>1. PICK o \in Persons : o = req[r].of /\ HasRow(o)
      BY <2>3, RequestFacts DEF EnsurePromotes, DropRecruit, At, Shape, Sees
    <3>2. CASE p = o
      <4>1. Unwatched(r, p) \subseteq past'
        BY <2>3, <3>1, <3>2 DEF EnsurePromotes, DropRecruit, Remember
      <4> QED
        BY <1>2, <4>1, UnwatchedIsLost
    <3>3. CASE p # o
      <4>1. \A q \in Persons \ {o} : member'[q] = member[q]
        BY <1>1, <2>3, <3>1 DEF EnsurePromotes, DropRecruit, SetRole, SetActive, MemberMap
      <4> QED
        BY <2>1, <3>3, <4>1
    <3> QED
      BY <3>2, <3>3
  <2>4. CASE EnsureCreates(r) /\ ~HasRow(req[r].of) /\ CreateMember(req[r].of, DesiredRole(req[r]))
    <3>1. p # req[r].of
      BY <2>4, RestorableHasRow
    <3>2. member'[p] = member[p]
      BY <1>1, <2>4, <3>1 DEF CreateMember, MemberMap
    <3> QED
      BY <2>1, <3>2
  <2> QED
    BY <2>1, <2>2, <2>3, <2>4 DEF ApplicationMove, SubmitLoads, WithdrawLoads, ReviewLoads,
       SubmitChecksBan, SubmitChecksOpen, CreateApplication, CountOpen, DeleteApplication,
       EnsureLoads, EnsureChecksBan, EnsureCreates, SwapStatus, FindRecruit, ApplicationStops
<1> QED
  BY <1>5, <1>6, <1>7

\* A request writes somebody's row, and looks again or the loss is on record.
LEMMA WriteAdmin ==
    ASSUME BaseInv, AdminInv, NEW r \in Requests, Moved(r),
           req[r].pc = "write", NEW p \in Persons, p = req[r].of, Restorable(p),
           WriteAction(r) \/ WriteActive(r) \/ WriteRole(r)
    PROVE  Lost' \/ Restorable(p)'
<1>1. /\ ReqMap /\ MemberMap /\ "pc" \in DOMAIN req[r] /\ HasRow(p)
      /\ req[r].job \in ModerationJobs /\ req[r].target \in MemberRow /\ req[r].actionable \in BOOLEAN
      /\ req[r].actionable => req[r].target.active /\ req[r].target.role = "admin"
  BY RequestFacts, WriteFacts DEF Decided
<1>2. req[r].pc \notin Watching /\ ~Watched(r, p)
  BY DEF Watching, Watched
<1>3. \A s \in Requests : Watched(s, p) => Watched(s, p)' /\ req'[s].job = req[s].job
  BY <1>2, WatchFrame DEF StillWatched
<1>4. ASSUME Slip(r) \subseteq past', ~req[r].actionable PROVE Lost'
  BY <1>2, <1>4, UnwatchedIsLost DEF Slip
<1>5. ASSUME Goto(r, "check") PROVE Watched(r, p)' /\ req'[r].job = req[r].job
  BY <1>1, <1>5, GotoFacts DEF Watched, Watching, SameLocals
<1>6. CASE WriteAction(r)
  <2>1. /\ InsertAction(r) /\ member' = member /\ Slip(r) \subseteq past'
        /\ req[r].job = Suspend \/ (req[r].job = Ban /\ ~req[r].target.active)
    BY <1>6 DEF WriteAction, Remember
  <2>2. CASE req[r].job = Suspend /\ req[r].actionable
    <3>1. Goto(r, "check")
      BY <1>6, <2>2 DEF WriteAction, ChecksAgain, RemovesAdmin, Suspend
    <3>2. FlagKept(p)' /\ RoleKept(p)'
      BY <1>3, <2>1 DEF Restorable, FlagKept, RoleKept
    <3>3. ClearKept(p)'
      BY <1>3, <1>5, <2>1, <3>1 DEF Restorable, ClearKept, InsertAction
    <3> QED
      BY <3>2, <3>3 DEF Restorable
  <2> QED
    BY <1>1, <1>4, <2>1, <2>2
<1>7. CASE WriteActive(r)
  <2>1. /\ actions' = actions /\ SetActive(p, req[r].job = Activate)
        /\ req[r].job \in {Activate, Deactivate, Ban}
        /\ req[r].job # Activate => Slip(r) \subseteq past'
    BY <1>7 DEF WriteActive, SetsFlag, Remember
  <2>2. PICK to \in BOOLEAN : to = (req[r].job = Activate)
    OBVIOUS
  <2>3. member'[p].active = to /\ member'[p].role = member[p].role
    BY <1>1, <2>1, <2>2, SetActiveFacts
  <2>4. RoleKept(p)' /\ ClearKept(p)'
    BY <1>3, <2>1, <2>3 DEF Restorable, RoleKept, ClearKept
  <2>5. CASE req[r].job = Activate
    BY <2>2, <2>3, <2>4, <2>5 DEF Restorable, FlagKept
  <2>6. CASE req[r].job # Activate /\ req[r].actionable
    <3>1. Goto(r, "check")
      BY <1>7, <2>1, <2>6 DEF WriteActive, ChecksAgain, RemovesAdmin, Ban, Deactivate
    <3>2. FlagKept(p)'
      BY <1>5, <2>1, <2>6, <3>1 DEF FlagKept
    <3> QED
      BY <2>4, <3>2 DEF Restorable
  <2> QED
    BY <1>1, <1>4, <2>1, <2>5, <2>6
<1>8. CASE WriteRole(r)
  <2>1. actions' = actions /\ req[r].job.kind = "role"
    BY <1>8 DEF WriteRole
  <2>2. req[r].job.to \in Roles
    BY <1>1, <2>1, RoleJob
  <2>3. CASE member' = member /\ Answer(r)
    BY <1>2, <2>1, <2>3, RestorableFrame
  <2>4. CASE /\ SetRole(p, req[r].job.to)
             /\ IF ChecksAgain(req[r]) THEN Goto(r, "check") ELSE Answer(r)
             /\ Remember(IF RemovesAdmin(req[r].job, req[r].target) THEN Slip(r) ELSE {})
    <3>1. member'[p].role = req[r].job.to /\ member'[p].active = member[p].active
      BY <1>1, <2>2, <2>4, SetRoleFacts
    <3>2. FlagKept(p)' /\ ClearKept(p)'
      BY <1>3, <2>1, <3>1 DEF Restorable, FlagKept, ClearKept
    <3>3. CASE req[r].job.to = "admin"
      BY <3>1, <3>2, <3>3 DEF Restorable, RoleKept
    <3>4. CASE req[r].job.to # "admin" /\ req[r].actionable
      <4>1. Goto(r, "check")
        BY <2>1, <2>4, <3>4 DEF ChecksAgain, RemovesAdmin
      <4>2. RoleKept(p)'
        BY <1>5, <2>1, <3>1, <4>1 DEF RoleKept
      <4> QED
        BY <3>2, <4>2 DEF Restorable
    <3>5. CASE req[r].job.to # "admin" /\ ~req[r].actionable
      BY <1>4, <2>1, <2>4, <3>5 DEF RemovesAdmin, Remember
    <3> QED
      BY <1>1, <3>3, <3>4, <3>5
  <2> QED
    BY <1>8, <2>3, <2>4 DEF WriteRole, CasRole
<1> QED
  BY <1>6, <1>7, <1>8

\* What is taken back leaves its admin restored.
LEMMA UndoAdmin ==
    ASSUME BaseInv, ActionInv, AdminInv, NEW r \in Requests, Moved(r),
           NEW p \in Persons, p = req[r].of, Restorable(p), Undo(r)
    PROVE  Lost' \/ Restorable(p)'
<1>1. req[r].pc = "undo" /\ req[r].pc \in Decided /\ req[r].pc \in Watching /\ Answer(r)
  BY DEF Undo, At, Decided, Watching
<1>2. /\ MemberMap /\ HasRow(p) /\ req[r].target \in MemberRow
      /\ req[r].target.role = "admin"
  BY <1>1, RequestFacts, WriteFacts DEF Shape
<1>3. \A s \in Requests \ {r} : Watched(s, p) => Watched(s, p)' /\ req'[s].job = req[s].job
  BY WatchFrame DEF StillWatched
<1>4. CASE req[r].job = Suspend /\ actions' = {x \in actions : x.id # r} /\ member' = member
  <2>1. FlagKept(p)' /\ RoleKept(p)'
    <3>1. req[r].job \notin {Ban, Deactivate} /\ req[r].job.kind # "role"
      BY <1>4 DEF Suspend, Ban, Deactivate
    <3>2. FlagKept(p)'
      BY <1>3, <1>4, <3>1 DEF Restorable, FlagKept
    <3>3. RoleKept(p)'
      BY <1>3, <1>4, <3>1 DEF Restorable, RoleKept
    <3> QED
      BY <3>2, <3>3
  <2>2. ClearKept(p)'
    BY <1>3, <1>4 DEF Restorable, ClearKept
  <2> QED
    BY <2>1, <2>2 DEF Restorable
<1>5. ASSUME req[r].job # Suspend, actions' = actions PROVE ClearKept(p)'
  <2>1. \A x \in actions : x.id # r
    BY <1>1, <1>5 DEF ActionInv
  <2> QED
    BY <1>3, <1>5, <2>1 DEF Restorable, ClearKept
<1>6. CASE req[r].job \in {Ban, Deactivate} /\ SetActive(p, TRUE) /\ actions' = actions
  <2>1. member'[p].active = TRUE /\ member'[p].role = member[p].role
    BY <1>2, <1>6, SetActiveFacts
  <2>2. req[r].job # Suspend /\ req[r].job.kind # "role"
    BY <1>6 DEF Suspend, Ban, Deactivate
  <2>3. RoleKept(p)'
    BY <1>3, <2>1, <2>2 DEF Restorable, RoleKept
  <2> QED
    BY <1>5, <1>6, <2>1, <2>2, <2>3 DEF Restorable, FlagKept
<1>7. CASE req[r].job.kind = "role" /\ SetRole(p, req[r].target.role) /\ actions' = actions
  <2>1. member'[p].role = "admin" /\ member'[p].active = member[p].active
    BY <1>2, <1>7, SetRoleFacts DEF Roles
  <2>2. req[r].job # Suspend /\ req[r].job \notin {Ban, Deactivate}
    BY <1>7 DEF Suspend, Ban, Deactivate
  <2>3. FlagKept(p)'
    BY <1>3, <2>1, <2>2 DEF Restorable, FlagKept
  <2> QED
    BY <1>5, <1>7, <2>1, <2>2, <2>3 DEF Restorable, RoleKept
<1>8. CASE Remember({<<"unrestored", p>>})
  BY <1>8 DEF Remember, Lost, Excused, Happened
<1> QED
  BY <1>4, <1>6, <1>7, <1>8 DEF Undo, CasRole

\* The handlers of moderation leave an admin who can act.
LEMMA ModerationAdmin ==
    ASSUME BaseInv, ActionInv, AdminInv, NEW r \in Requests, ModerationStep(r)
    PROVE  AdminInv'
<1>1. /\ Moved(r) /\ ReqMap /\ MemberMap /\ past \subseteq past' /\ "pc" \in DOMAIN req[r]
  BY RequestFacts, ModerationMoves DEF Moved
<1>2. CASE ~AnyMember
  <2>1. req[r].pc \notin Decided
    <3>1. ASSUME req[r].pc \in Decided PROVE FALSE
      BY <1>2, <3>1, WriteFacts DEF AnyMember
    <3> QED
      BY <3>1
  <2>2. member' = member
    BY <2>1 DEF ModerationStep, Authenticate, LoadTarget, CountAdmins, Decide, WriteAction,
       WriteActive, WriteRole, CheckAgain, WriteBan, Undo, LiftAction, ModerationStops,
       CheckFails, At, Decided
  <2> QED
    BY <1>2, <2>2, SameRows DEF AdminInv
<1>3. CASE AnyMember
  <2> SUFFICES ASSUME NEW p \in Persons, Restorable(p)
               PROVE  Lost' \/ \E q \in Persons : Restorable(q)'
    BY <1>1, <1>3, AdminStep
  <2>1. CASE \/ \E me, of \in Persons, job \in ModerationJobs : Authenticate(r, me, of, job)
             \/ LoadTarget(r) \/ CountAdmins(r) \/ Decide(r) \/ LiftAction(r)
    <3>1. /\ member' = member /\ actions' \subseteq actions
          /\ req[r].pc \in {"idle", "load", "count", "decide", "lift"}
      BY <2>1 DEF Authenticate, LoadTarget, CountAdmins, Decide, LiftAction, At, MaySend
    <3>2. ~Watched(r, p)
      BY <3>1 DEF Watched, Watching
    <3> QED
      BY <1>1, <3>1, <3>2, RestorableFrame
  <2>2. CASE WriteAction(r) \/ WriteActive(r) \/ WriteRole(r)
    <3>1. req[r].pc = "write"
      BY <2>2 DEF WriteAction, WriteActive, WriteRole, At
    <3>2. CASE p = req[r].of
      BY <1>1, <2>2, <3>1, <3>2, WriteAdmin
    <3>3. CASE p # req[r].of
      <4>1. member'[p] = member[p]
        BY <1>1, <2>2, <3>3 DEF WriteAction, WriteActive, WriteRole, SetActive, CasRole, SetRole,
           MemberMap
      <4>2. \A x \in actions' : x.of = p => x \in actions
        BY <2>2, <3>3 DEF WriteAction, WriteActive, WriteRole, InsertAction
      <4>3. ~Watched(r, p)
        BY <3>1 DEF Watched, Watching
      <4> QED
        BY <1>1, <4>1, <4>2, <4>3, RestorableFrame
    <3> QED
      BY <3>2, <3>3
  <2>3. CASE CheckAgain(r) /\ ActionableAdmins # {}
    <3>1. member' = member /\ actions' = actions
      BY <2>3 DEF CheckAgain
    <3>2. PICK q \in Persons : Actionable(q)
      BY <2>3 DEF ActionableAdmins
    <3>3. Actionable(q)'
      BY <3>1, <3>2 DEF Actionable, Suspended
    <3>4. Restorable(q)'
      BY <3>3 DEF Actionable, Restorable, FlagKept, RoleKept, ClearKept, Suspended
    <3> QED
      BY <3>4
  <2>4. CASE CheckFails(r) \/ (CheckAgain(r) /\ ActionableAdmins = {})
    <3>1. member' = member /\ actions' = actions /\ Goto(r, "undo") /\ req[r].pc = "check"
      BY <2>4 DEF CheckAgain, CheckFails, At
    <3>2. Watched(r, p) => Watched(r, p)' /\ req'[r].job = req[r].job
      BY <1>1, <3>1, GotoFacts DEF Watched, Watching, SameLocals
    <3> QED
      BY <1>1, <3>1, <3>2, RestorableFrame
  <2>5. CASE WriteBan(r)
    <3>1. req[r].pc = "row" /\ member' = member /\ InsertAction(r)
      BY <2>5 DEF WriteBan, At
    <3>2. req[r].pc \notin Watching /\ ~Watched(r, p)
      BY <3>1 DEF Watched, Watching
    <3>3. CASE p = req[r].of
      BY <2>5, <3>2, <3>3, UnwatchedIsLost DEF WriteBan, Remember
    <3>4. CASE p # req[r].of
      <4>1. \A x \in actions' : x.of = p => x \in actions
        BY <3>1, <3>4 DEF InsertAction
      <4> QED
        BY <1>1, <3>1, <3>2, <4>1, RestorableFrame
    <3> QED
      BY <3>3, <3>4
  <2>6. CASE Undo(r)
    <3>1. CASE p = req[r].of
      BY <1>1, <2>6, <3>1, UndoAdmin
    <3>2. CASE p # req[r].of
      <4>1. member'[p] = member[p] /\ actions' \subseteq actions
        BY <1>1, <2>6, <3>2 DEF Undo, SetActive, CasRole, SetRole, MemberMap
      <4>2. ~Watched(r, p)
        BY <3>2 DEF Watched
      <4> QED
        BY <1>1, <4>1, <4>2, RestorableFrame
    <3> QED
      BY <3>1, <3>2
  <2>7. CASE ModerationStops(r)
    <3>1. member' = member /\ actions' = actions
      BY <2>7 DEF ModerationStops
    <3>2. CASE Watched(r, p)
      <4>1. <<"stopped", p>> \in past'
        BY <2>7, <3>2 DEF ModerationStops, Remember, Watched, Watching
      <4> QED
        BY <4>1 DEF Lost, Excused, Happened
    <3>3. CASE ~Watched(r, p)
      BY <1>1, <3>1, <3>3, RestorableFrame
    <3> QED
      BY <3>2, <3>3
  <2> QED
    BY <2>1, <2>2, <2>3, <2>4, <2>5, <2>6, <2>7 DEF ModerationStep
<1> QED
  BY <1>2, <1>3

-----------------------------------------------------------------------------
(* Set-up makes one admin, and can be repeated until it has. *)

\* A step outside of set-up.
LEMMA BootFrame ==
    ASSUME BootInv, Rows, NEW r \in Requests, Moved(r), req[r].pc \notin Locking,
           req'[r].pc # "admin", users' = users, claimed' = claimed,
           \A p \in Persons : Happened("booted", p)' => Happened("booted", p)
    PROVE  BootInv'
<1>1. \A p \in Persons : Happened("booted", p)' => HasRow(p)' /\ p \in users'
  BY DEF BootInv, Rows
<1>2. \A p, q \in Persons : Happened("booted", p)' /\ Happened("booted", q)' => p = q
  BY DEF BootInv
<1>3. \A s \in Requests : req'[s].pc = "admin" => req'[s].of \in users'
  BY DEF BootInv, Moved, Others
<1>4. ASSUME ~AnyMember', ~Excused({"stopped"})'
      PROVE  /\ claimed' => \E s \in Requests : req'[s].pc \in Locking
             /\ \A p \in users' : \E s \in Requests : req'[s].pc \in Making /\ req'[s].of = p
  <2>1. ~AnyMember /\ ~Excused({"stopped"})
    BY <1>4 DEF AnyMember, Rows, Excused, Happened, Moved
  <2>2. claimed => \E s \in Requests : req'[s].pc \in Locking
    BY <2>1 DEF BootInv, Moved, Others
  <2>3. ASSUME NEW p \in users PROVE \E s \in Requests : req'[s].pc \in Making /\ req'[s].of = p
    <3>1. PICK s \in Requests : req[s].pc \in Making /\ req[s].of = p
      BY <2>1 DEF BootInv
    <3>2. s # r
      BY <3>1 DEF Making, Locking
    <3> QED
      BY <3>1, <3>2 DEF Moved, Others
  <2> QED
    BY <2>2, <2>3
<1> QED
  BY <1>1, <1>2, <1>3, <1>4 DEF BootInv

\* What is remembered of other things is not that somebody was made an admin.
LEMMA NotBooted ==
    ASSUME NEW p, NEW events, Remember(events), \A q : <<"booted", q>> \notin events,
           Happened("booted", p)'
    PROVE  Happened("booted", p)
BY DEF Remember, Happened

\* The handlers of moderation keep what set-up has made.
LEMMA ModerationBoot ==
    ASSUME BaseInv, BootInv, NEW r \in Requests, ModerationStep(r), UNCHANGED <<users, claimed>>
    PROVE  BootInv'
<1>1. Moved(r) /\ req[r].pc \in {"idle"} \cup Moderating /\ Rows /\ ReqMap /\ "pc" \in DOMAIN req[r]
  BY RequestFacts, ModerationMoves, ModerationRows
<1>2. req[r].pc \notin Locking
  BY <1>1 DEF Moderating, Judging, Decided, Locking
<1>3. req'[r].pc # "admin"
  <2>1. CASE Answer(r)
    BY <1>1, <2>1, AnswerFacts
  <2>2. CASE Goto(r, "check") \/ Goto(r, "undo") \/ Goto(r, "row")
    BY <1>1, <2>2, GotoFacts
  <2>3. CASE \/ \E me, of \in Persons, job \in ModerationJobs : Authenticate(r, me, of, job)
             \/ CountAdmins(r)
    BY <1>1, <2>3 DEF Authenticate, CountAdmins, ReqMap
  <2>4. CASE (LoadTarget(r) \/ Decide(r)) /\ ~Answer(r)
    BY <1>1, <2>4 DEF LoadTarget, Decide, ReqMap
  <2> QED
    BY <2>1, <2>2, <2>3, <2>4 DEF ModerationStep, WriteAction, WriteActive, WriteRole, CheckAgain,
       WriteBan, Undo, LiftAction, ModerationStops, CheckFails
<1>4. ASSUME NEW p \in Persons, Happened("booted", p)' PROVE Happened("booted", p)
  <2>1. CASE past' = past
    BY <1>4, <2>1 DEF Happened
  <2>2. <<"booted", p>> \notin Slip(r) /\ <<"booted", p>> \notin Unwatched(r, req[r].of)
    BY DEF Slip, Unwatched
  <2>3. CASE WriteAction(r) \/ WriteActive(r) \/ WriteRole(r) \/ WriteBan(r)
    BY <1>4, <2>2, <2>3 DEF WriteAction, WriteActive, WriteRole, WriteBan, Remember, Happened
  <2>4. CASE Undo(r) \/ ModerationStops(r)
    <3>1. \/ past' = past
          \/ \E e \in {"activated", "unrestored", "stopped"} : Remember({<<e, req[r].of>>})
          \/ Remember({})
      BY <2>4 DEF Undo, ModerationStops
    <3> QED
      BY <1>4, <2>1, <3>1, NotBooted
  <2> QED
    BY <2>1, <2>3, <2>4 DEF ModerationStep, Authenticate, LoadTarget, CountAdmins, Decide,
       CheckAgain, LiftAction, CheckFails
<1> QED
  BY <1>1, <1>2, <1>3, <1>4, BootFrame

\* The handlers of applications keep what set-up has made.
LEMMA ApplicationBoot ==
    ASSUME BaseInv, BootInv, NEW r \in Requests, ApplicationMove(r), UNCHANGED <<users, claimed>>
    PROVE  BootInv'
<1>1. Moved(r) /\ req[r].pc \in {"idle"} \cup ApplicationSteps /\ Rows
  BY RequestFacts, ApplicationMoves, ApplicationRows
<1>2. req[r].pc \notin Locking
  BY <1>1 DEF ApplicationSteps, Locking
<1>3. req'[r].pc # "admin"
  BY ApplicationStays DEF ApplicationSteps
<1>4. ASSUME NEW p \in Persons, Happened("booted", p)' PROVE Happened("booted", p)
  <2>1. CASE past' = past
    BY <1>4, <2>1 DEF Happened
  <2>2. \A q : <<"booted", q>> \notin Unwatched(r, req[r].of)
    BY DEF Unwatched
  <2>3. CASE DeleteApplication(r) \/ EnsureActivates(r) \/ EnsurePromotes(r)
    <3>1. \/ \E e \in {"rolled back", "readmitted"} : Remember({<<e, req[r].of>>})
          \/ Remember({})
          \/ Remember(Unwatched(r, req[r].of))
      BY <2>3 DEF DeleteApplication, EnsureActivates, EnsurePromotes
    <3> QED
      BY <1>4, <2>2, <3>1, NotBooted
  <2>4. CASE SwapStatus(r) \/ DropRecruit(r) \/ ApplicationStops(r)
    <3>1. \/ past' = past
          \/ \E e \in {"outrun", "stopped"} : Remember({<<e, req[r].of>>})
          \/ Remember({})
          \/ Remember({<<"crossed", req[r].of>>} \cup Unwatched(r, req[r].of))
          \/ Remember({} \cup Unwatched(r, req[r].of))
      BY <2>4 DEF SwapStatus, DropRecruit, ApplicationStops
    <3> QED
      BY <1>4, <2>1, <2>2, <3>1, NotBooted
  <2> QED
    BY <2>1, <2>3, <2>4 DEF ApplicationMove, SubmitLoads, WithdrawLoads, ReviewLoads,
       SubmitChecksBan, SubmitChecksOpen, CreateApplication, CountOpen, EnsureLoads,
       EnsureChecksBan, EnsureCreates, FindRecruit
<1> QED
  BY <1>1, <1>2, <1>3, <1>4, BootFrame

\* While set-up holds the lock and there is no member, nobody was made an
\* admin, and the only account is the one of that request.
LEMMA LockFacts ==
    ASSUME BaseInv, BootInv, NEW r \in Requests, req[r].pc \in Locking, ~AnyMember
    PROVE  /\ \A p \in Persons : ~Happened("booted", p)
           /\ \A s \in Requests \ {r} : req[s].pc \notin Locking
           /\ ~Excused({"stopped"}) => \A p \in users : req[r].pc \in Making /\ req[r].of = p
<1>1. \A p \in Persons : ~Happened("booted", p)
  BY DEF BootInv, AnyMember
<1>2. \A s \in Requests \ {r} : req[s].pc \notin Locking
  BY DEF BaseInv
<1>3. \A s \in Requests : req[s].pc \in Making => s = r
  BY <1>2 DEF Making, Locking
<1> QED
  BY <1>1, <1>2, <1>3 DEF BootInv

\* Set-up moves on and no admin is made.
LEMMA BootGoto ==
    ASSUME BaseInv, BootInv, NEW r \in Requests, req[r].pc \in Locking, NEW pc \in Locking, Goto(r, pc),
           member' = member, claimed' = claimed, past \subseteq past',
           \A p \in Persons : Happened("booted", p)' => Happened("booted", p),
           AnyMember => users' = users /\ pc # "admin",
           pc = "admin" => req[r].of \in users',
           ~AnyMember /\ ~Excused({"stopped"})' => \A p \in users' : pc \in Making /\ req[r].of = p
    PROVE  BootInv'
<1>1. ReqMap /\ "pc" \in DOMAIN req[r] /\ users \subseteq Persons
  BY RequestFacts DEF BaseInv, Typed
<1>2. Others(r) /\ req'[r].pc = pc /\ req'[r].of = req[r].of
  BY <1>1, GotoFacts DEF SameLocals
<1>3. /\ \A p \in Persons : HasRow(p)' <=> HasRow(p)
      /\ AnyMember' <=> AnyMember
  BY SameRows
<1>4. \A s \in Requests \ {r} : req[s].pc # "admin"
  BY DEF BaseInv, Locking
<1>5. \A p \in Persons : Happened("booted", p)' => HasRow(p)' /\ p \in users'
  BY <1>3 DEF BootInv, AnyMember
<1>6. \A p, q \in Persons : Happened("booted", p)' /\ Happened("booted", q)' => p = q
  BY DEF BootInv
<1>7. \A s \in Requests : req'[s].pc = "admin" => req'[s].of \in users'
  BY <1>2, <1>4 DEF Others
<1>8. ASSUME ~AnyMember', ~Excused({"stopped"})'
      PROVE  /\ claimed' => \E s \in Requests : req'[s].pc \in Locking
             /\ \A p \in users' : \E s \in Requests : req'[s].pc \in Making /\ req'[s].of = p
  BY <1>2, <1>3, <1>8
<1> QED
  BY <1>5, <1>6, <1>7, <1>8 DEF BootInv

\* Set-up is over and no admin is made.
LEMMA BootAnswer ==
    ASSUME BaseInv, BootInv, NEW r \in Requests, req[r].pc \in Locking, Answer(r),
           member' = member, past \subseteq past', users' = users,
           \A p \in Persons : Happened("booted", p)' => Happened("booted", p),
           ~AnyMember /\ ~Excused({"stopped"})' => ~claimed' /\ users = {}
    PROVE  BootInv'
<1>1. ReqMap
  BY RequestFacts
<1>2. Others(r) /\ req'[r].pc = "over"
  BY <1>1, AnswerFacts
<1>3. /\ \A p \in Persons : HasRow(p)' <=> HasRow(p)
      /\ AnyMember' <=> AnyMember
  BY SameRows
<1>4. \A p \in Persons : Happened("booted", p)' => HasRow(p)' /\ p \in users'
  BY <1>3 DEF BootInv
<1>5. \A p, q \in Persons : Happened("booted", p)' /\ Happened("booted", q)' => p = q
  BY DEF BootInv
<1>6. \A s \in Requests : req'[s].pc = "admin" => req'[s].of \in users'
  BY <1>2 DEF Others, BootInv
<1>7. ASSUME ~AnyMember', ~Excused({"stopped"})'
      PROVE  /\ claimed' => \E s \in Requests : req'[s].pc \in Locking
             /\ \A p \in users' : \E s \in Requests : req'[s].pc \in Making /\ req'[s].of = p
  BY <1>3, <1>7
<1> QED
  BY <1>4, <1>5, <1>6, <1>7 DEF BootInv

\* The admin is made.
LEMMA BootMakes ==
    ASSUME BaseInv, BootInv, NEW r \in Requests, req[r].pc = "admin", Others(r), req'[r].pc # "admin",
           CreateMember(req[r].of, "admin"), Remember({<<"booted", req[r].of>>}), users' = users
    PROVE  BootInv'
<1>1. PICK p \in Persons : p = req[r].of
  BY RequestFacts DEF Shape
<1>2. MemberMap /\ ~AnyMember /\ req[r].pc \in Locking
  BY RequestFacts DEF Sees, Early, Locking
<1>3. HasRow(p)'
  BY <1>1, <1>2, CreateMemberFacts DEF Roles
<1>4. \A q \in Persons : ~Happened("booted", q)
  BY <1>2, LockFacts
<1>5. \A q \in Persons : Happened("booted", q)' => q = p
  BY <1>1, <1>4 DEF Remember, Happened
<1>6. p \in users'
  BY <1>1 DEF BootInv
<1>7. \A s \in Requests : req'[s].pc # "admin"
  BY <1>2, LockFacts DEF Others, Locking
<1>8. AnyMember'
  BY <1>3 DEF AnyMember
<1> QED
  BY <1>3, <1>5, <1>6, <1>7, <1>8 DEF BootInv

\* Nothing is remembered, or that somebody was cut off.
LEMMA StopsNotBooted ==
    ASSUME \/ past' = past
           \/ \E p : Remember({<<"stopped", p>>})
           \/ Remember({})
    PROVE  past \subseteq past' /\ \A p \in Persons : Happened("booted", p)' => Happened("booted", p)
<1>1. past \subseteq past'
  BY DEF Remember
<1>2. ASSUME NEW p, Happened("booted", p)' PROVE Happened("booted", p)
  <2>1. CASE past' = past
    BY <1>2, <2>1 DEF Happened
  <2> QED
    BY <1>2, <2>1, NotBooted
<1> QED
  BY <1>1, <1>2

\* SetupClaims keeps what set-up has made.
LEMMA SetupClaimsBoot ==
    ASSUME BaseInv, BootInv, NEW r \in Requests, SetupClaims(r)
    PROVE  BootInv'
<1>1. /\ req[r].pc = "claim" /\ ReqMap /\ "pc" \in DOMAIN req[r]
      /\ member' = member /\ past' = past /\ users' = users
  BY RequestFacts DEF SetupClaims, At
<1>2. /\ Rows /\ \A p \in Persons : HasRow(p)' <=> HasRow(p)
      /\ AnyMember' <=> AnyMember
  BY <1>1, SameRows
<1>3. CASE claimed /\ Answer(r) /\ claimed' = claimed
  <2>1. Moved(r) /\ req'[r].pc = "over"
    BY <1>1, <1>3, MovedFacts, AnswerFacts
  <2> QED
    BY <1>1, <1>2, <1>3, <2>1, BootFrame DEF Locking, Happened
<1>4. CASE claim_bootstrap_lock /\ Goto(r, "user")
  <2>1. claimed = FALSE /\ claimed' = TRUE
    BY <1>4 DEF claim_bootstrap_lock, BaseInv, Typed
  <2>2. Others(r) /\ req'[r].pc = "user"
    BY <1>1, <1>4, GotoFacts
  <2>3. \A s \in Requests : req[s].pc \notin Locking
    BY <2>1, RequestFacts DEF Sees
  <2>4. \A s \in Requests : req[s].pc \notin Making
    BY <2>3 DEF Making, Locking
  <2>5. \A s \in Requests : req'[s].pc = "admin" => req'[s].of \in users'
    BY <1>1, <2>2 DEF BootInv, Others
  <2>6. ASSUME ~AnyMember', ~Excused({"stopped"})'
        PROVE  /\ claimed' => \E s \in Requests : req'[s].pc \in Locking
               /\ \A p \in users' : \E s \in Requests : req'[s].pc \in Making /\ req'[s].of = p
    <3>1. ~AnyMember /\ ~Excused({"stopped"})
      BY <1>1, <1>2, <2>6 DEF Excused, Happened
    <3>2. users' = {}
      BY <1>1, <2>4, <3>1 DEF BootInv
    <3> QED
      BY <2>2, <3>2 DEF Locking
  <2> QED
    BY <1>1, <1>2, <2>5, <2>6 DEF BootInv, Happened
<1> QED
  BY <1>3, <1>4 DEF SetupClaims

\* The steps of set-up keep what set-up has made.
LEMMA BootBoot ==
    ASSUME BaseInv, BootInv, NEW r \in Requests, BootStep(r)
    PROVE  BootInv'
<1>1. /\ ReqMap /\ "pc" \in DOMAIN req[r] /\ Shape(req[r]) /\ Sees(req[r])
      /\ Moved(r) /\ past \subseteq past' /\ users \subseteq Persons
  BY RequestFacts, BootMoves DEF Moved, BaseInv, Typed
<1>2. CASE \E p \in Persons : SetupLooks(r, p)
  <2>1. /\ req[r].pc = "idle" /\ req'[r].pc = "claim" /\ member' = member
        /\ UNCHANGED <<users, claimed, past>>
    BY <1>1, <1>2 DEF SetupLooks, MaySend, At, ReqMap
  <2>2. Rows
    BY <2>1, SameRows
  <2> QED
    BY <1>1, <2>1, <2>2, BootFrame DEF Locking, Happened
<1>3. CASE SetupClaims(r)
  BY <1>3, SetupClaimsBoot
<1>4. CASE SetupCreatesUser(r)
  <2>1. req[r].pc = "user" /\ UNCHANGED <<member, past, claimed>>
    BY <1>4 DEF SetupCreatesUser, At
  <2>2. req[r].pc \in Locking /\ ~AnyMember
    BY <1>1, <2>1 DEF Locking, Sees, Early
  <2>3. ~Excused({"stopped"}) => users = {}
    BY <2>1, <2>2, LockFacts DEF Making
  <2>4. ~Excused({"stopped"})' => ~Excused({"stopped"})
    BY <2>1 DEF Excused, Happened
  <2>5. \A p \in Persons : Happened("booted", p)' => Happened("booted", p)
    BY <2>1 DEF Happened
  <2>6. "admin" \in Locking /\ "member left?" \in Locking /\ "admin" \in Making
    BY DEF Locking, Making
  <2>7. CASE users' = users \cup {req[r].of} /\ Goto(r, "admin")
    BY <1>1, <2>1, <2>2, <2>3, <2>4, <2>5, <2>6, <2>7, BootGoto
  <2>8. CASE req[r].of \in users /\ Goto(r, "member left?") /\ users' = users
    BY <1>1, <2>1, <2>2, <2>3, <2>4, <2>5, <2>6, <2>8, BootGoto
  <2> QED
    BY <1>4, <2>7, <2>8 DEF SetupCreatesUser
<1>5. CASE SetupCreatesAdmin(r)
  <2>1. req'[r].pc = "over"
    BY <1>1, <1>5, AnswerFacts DEF SetupCreatesAdmin
  <2> QED
    BY <1>1, <1>5, <2>1, BootMakes DEF SetupCreatesAdmin, At, Moved
<1>6. CASE LooksBeforeDelete(r)
  <2>1. /\ req[r].pc = "user needed?" /\ UNCHANGED <<member, past, claimed, users>>
        /\ Goto(r, IF AnyMember THEN "member left?" ELSE "drop user")
    BY <1>6 DEF LooksBeforeDelete, At, KeepsUser, has_any_member
  <2>2. req[r].pc \in Locking /\ {"member left?", "drop user"} \subseteq Locking
        /\ "drop user" \in Making
    BY <2>1 DEF Locking, Making
  <2>3. ~AnyMember /\ ~Excused({"stopped"}) => \A p \in users : req[r].of = p
    BY <2>2, LockFacts
  <2>4. ~Excused({"stopped"})' => ~Excused({"stopped"})
    BY <2>1 DEF Excused, Happened
  <2>5. \A p \in Persons : Happened("booted", p)' => Happened("booted", p)
    BY <2>1 DEF Happened
  <2>6. CASE AnyMember
    BY <1>1, <2>1, <2>2, <2>5, <2>6, BootGoto
  <2>7. CASE ~AnyMember
    BY <1>1, <2>1, <2>2, <2>3, <2>4, <2>5, <2>7, BootGoto
  <2> QED
    BY <2>6, <2>7
<1>7. CASE DropsUser(r)
  <2>1. /\ req[r].pc = "drop user" /\ UNCHANGED <<member, past, claimed>>
        /\ users' = users \ {req[r].of} /\ Goto(r, "member left?")
    BY <1>7 DEF DropsUser, At
  <2>2. req[r].pc \in Locking /\ "member left?" \in Locking /\ ~AnyMember
    BY <1>1, <2>1 DEF Locking, Sees, Early
  <2>3. ~Excused({"stopped"}) => users' = {}
    BY <2>1, <2>2, LockFacts
  <2>4. ~Excused({"stopped"})' => ~Excused({"stopped"})
    BY <2>1 DEF Excused, Happened
  <2>5. \A p \in Persons : Happened("booted", p)' => Happened("booted", p)
    BY <2>1 DEF Happened
  <2> QED
    BY <1>1, <2>1, <2>2, <2>3, <2>4, <2>5, BootGoto
<1>8. CASE LooksBeforeRelease(r)
  <2>1. /\ req[r].pc = "member left?" /\ UNCHANGED <<member, past, claimed, users>>
        /\ IF AnyMember THEN Answer(r) ELSE Goto(r, "release")
    BY <1>8 DEF LooksBeforeRelease, At, has_any_member
  <2>2. req[r].pc \in Locking /\ "release" \in Locking
    BY <2>1 DEF Locking
  <2>3. ~AnyMember /\ ~Excused({"stopped"}) => users = {}
    BY <2>1, <2>2, LockFacts DEF Making
  <2>4. ~Excused({"stopped"})' => ~Excused({"stopped"})
    BY <2>1 DEF Excused, Happened
  <2>5. \A p \in Persons : Happened("booted", p)' => Happened("booted", p)
    BY <2>1 DEF Happened
  <2>6. CASE AnyMember
    BY <1>1, <2>1, <2>2, <2>5, <2>6, BootAnswer
  <2>7. CASE ~AnyMember
    BY <1>1, <2>1, <2>2, <2>3, <2>4, <2>5, <2>7, BootGoto
  <2> QED
    BY <2>6, <2>7
<1>9. CASE ReleasesLock(r)
  <2>1. /\ req[r].pc = "release" /\ UNCHANGED <<member, past, users>>
        /\ claimed' = FALSE /\ Answer(r)
    BY <1>9 DEF ReleasesLock, At
  <2>2. req[r].pc \in Locking /\ ~AnyMember
    BY <1>1, <2>1 DEF Locking, Sees, Early
  <2>3. ~Excused({"stopped"}) => users = {}
    BY <2>1, <2>2, LockFacts DEF Making
  <2>4. ~Excused({"stopped"})' => ~Excused({"stopped"})
    BY <2>1 DEF Excused, Happened
  <2>5. \A p \in Persons : Happened("booted", p)' => Happened("booted", p)
    BY <2>1 DEF Happened
  <2> QED
    BY <1>1, <2>1, <2>2, <2>3, <2>4, <2>5, BootAnswer
<1>10. ASSUME NEW pc, req[r].pc \in Locking, req[r].of \in Persons,
              Remember({<<"stopped", req[r].of>>}) PROVE Excused({"stopped"})'
  BY <1>10 DEF Excused, Happened, Remember
<1>11. CASE SetupFails(r)
  <2>1. /\ req[r].pc \in {"user", "admin", "user needed?", "drop user"}
        /\ UNCHANGED <<member, users, claimed>> /\ Goto(r, OnError(req[r].pc))
        /\ Remember(IF req[r].pc \in {"user needed?", "drop user"}
                    THEN {<<"stopped", req[r].of>>} ELSE {})
    BY <1>11 DEF SetupFails
  <2>2. /\ req[r].pc \in Locking /\ req[r].of \in Persons
        /\ "user needed?" \in Making /\ {"user needed?", "member left?"} \subseteq Locking
    BY <1>1, <2>1 DEF Locking, Making, Shape
  <2>3. \A p \in Persons : Happened("booted", p)' => Happened("booted", p)
    BY <2>1, StopsNotBooted
  <2>4. ~Excused({"stopped"})' => ~Excused({"stopped"})
    BY <1>1 DEF Excused, Happened
  <2>5. CASE req[r].pc = "user"
    <3>1. OnError(req[r].pc) = "member left?"
      BY <2>5 DEF OnError
    <3>2. ~AnyMember /\ ~Excused({"stopped"})' => users' = {}
      BY <2>1, <2>2, <2>4, <2>5, LockFacts DEF Making
    <3> QED
      BY <1>1, <2>1, <2>2, <2>3, <3>1, <3>2, BootGoto
  <2>6. CASE req[r].pc = "admin"
    <3>1. OnError(req[r].pc) = "user needed?"
      BY <2>6 DEF OnError
    <3>2. ~AnyMember /\ ~Excused({"stopped"})' => \A p \in users' : req[r].of = p
      BY <2>1, <2>2, <2>4, LockFacts
    <3> QED
      BY <1>1, <2>1, <2>2, <2>3, <3>1, <3>2, BootGoto
  <2>7. CASE req[r].pc \in {"user needed?", "drop user"}
    <3>1. OnError(req[r].pc) = "member left?"
      BY <2>7 DEF OnError
    <3>2. Excused({"stopped"})'
      BY <1>10, <2>1, <2>2, <2>7
    <3> QED
      BY <1>1, <2>1, <2>2, <2>3, <3>1, <3>2, BootGoto
  <2> QED
    BY <2>1, <2>5, <2>6, <2>7
<1>12. CASE SetupTimesOut(r)
  <2>1. CASE /\ At(r, "claim") /\ claim_bootstrap_lock /\ Answer(r)
             /\ Remember({<<"stopped", req[r].of>>}) /\ UNCHANGED <<member, users>>
    <3>1. req[r].of \in Persons
      BY <1>1, <2>1 DEF At, Shape
    <3>2. Excused({"stopped"})'
      BY <2>1, <3>1 DEF Excused, Happened, Remember
    <3>3. \A p \in Persons : Happened("booted", p)' => Happened("booted", p)
      BY <2>1, StopsNotBooted
    <3>4. \A p \in Persons : HasRow(p)' <=> HasRow(p)
      BY <2>1, SameRows
    <3>5. req'[r].pc = "over" /\ Others(r)
      BY <1>1, <2>1, AnswerFacts
    <3>6. \A s \in Requests : req'[s].pc = "admin" => req'[s].of \in users'
      BY <2>1, <3>5 DEF BootInv, Others
    <3> QED
      BY <2>1, <3>2, <3>3, <3>4, <3>6 DEF BootInv
  <2>2. CASE /\ At(r, "user") /\ users' = users \cup {req[r].of} /\ Goto(r, OnError("user"))
             /\ Remember({<<"stopped", req[r].of>>}) /\ UNCHANGED <<member, claimed>>
    <3>1. /\ req[r].of \in Persons /\ req[r].pc \in Locking /\ ~AnyMember
          /\ "member left?" \in Locking
      BY <1>1, <2>2 DEF At, Shape, Locking, Sees, Early
    <3>2. Excused({"stopped"})'
      BY <2>2, <3>1 DEF Excused, Happened, Remember
    <3>3. \A p \in Persons : Happened("booted", p)' => Happened("booted", p)
      BY <2>2, StopsNotBooted
    <3>4. Goto(r, "member left?")
      BY <2>2 DEF OnError
    <3> QED
      BY <1>1, <2>2, <3>1, <3>2, <3>3, <3>4, BootGoto
  <2>3. CASE /\ At(r, "admin") /\ CreateMember(req[r].of, "admin") /\ Goto(r, OnError("admin"))
             /\ Remember({<<"booted", req[r].of>>}) /\ UNCHANGED <<users, claimed>>
    <3>1. Goto(r, "user needed?")
      BY <2>3 DEF OnError
    <3>2. Others(r) /\ req'[r].pc = "user needed?"
      BY <1>1, <3>1, GotoFacts
    <3> QED
      BY <2>3, <3>2, BootMakes DEF At
  <2> QED
    BY <1>12, <2>1, <2>2, <2>3 DEF SetupTimesOut
<1>13. CASE SetupStops(r)
  <2>1. /\ req[r].pc \in {"user", "admin", "user needed?", "drop user", "member left?", "release"}
        /\ Answer(r) /\ Remember({<<"stopped", req[r].of>>}) /\ UNCHANGED <<member, users, claimed>>
    BY <1>13 DEF SetupStops
  <2>2. req[r].pc \in Locking /\ req[r].of \in Persons
    BY <1>1, <2>1 DEF Locking, Shape
  <2>3. Excused({"stopped"})'
    BY <2>1, <2>2 DEF Excused, Happened, Remember
  <2>4. \A p \in Persons : Happened("booted", p)' => Happened("booted", p)
    BY <2>1, StopsNotBooted
  <2> QED
    BY <1>1, <2>1, <2>2, <2>3, <2>4, BootAnswer
<1> QED
  BY <1>2, <1>3, <1>4, <1>5, <1>6, <1>7, <1>8, <1>9, <1>11, <1>12, <1>13 DEF BootStep

-----------------------------------------------------------------------------
(* Whoever is accepted is active. *)

\* Every application of p that could still count has been overtaken.
TakenOut(p) == \A x \in apps : x.user = p /\ x.status \notin Ended => Superseded(x)

Settled == {"recount", "delete", "over"}

\* What a step may do to a row of the table: leave it, or move its status on.
Evolves(x, y) ==
    /\ y.id = x.id /\ y.user = x.user /\ y.at = x.at
    /\ y.status = x.status \/ (x.status \in Open /\ y.status # "pending")

\* What happened to somebody has happened.
LEMMA OutStays ==
    ASSUME past \subseteq past', NEW p, Out(p)
    PROVE  Out(p)'
BY DEF Out, Happened

\* A step keeps AcceptInv if statuses move on, an application that was
\* overtaken stays so, nobody is deactivated silently and the request that
\* takes the step keeps its part.
LEMMA AcceptFrame ==
    ASSUME BaseInv, AppInv, AcceptInv, NEW r \in Requests, Moved(r),
           req[r].pc \in Settled => req'[r].pc \in Settled,
           \A y \in apps' : \/ y.status = "pending" /\ y.id = r /\ req[r].pc = "create"
                            \/ \E x \in apps : Evolves(x, y),
           \A x \in apps, y \in apps' : Evolves(x, y) /\ x.status # "accepted" /\ y.status = "accepted" =>
              member'[y.user].active \/ Out(y.user)' \/ Superseded(y)',
           \A x \in apps, y \in apps' : Evolves(x, y) /\ Superseded(x) =>
              Superseded(y)' \/ Out(y.user)',
           \A p \in Persons : member[p].active =>
              member'[p].active \/ Out(p)' \/ (apps' = apps /\ TakenOut(p)),
           Accepts(req[r])'
    PROVE  AcceptInv'
<1>1. past \subseteq past' /\ Others(r) /\ ReqMap'
  BY DEF Moved
<1>2. ASSUME NEW y \in apps', y.status = "accepted"
      PROVE  member'[y.user].active \/ Out(y.user)' \/ Superseded(y)'
  <2>1. PICK x \in apps : Evolves(x, y)
    BY <1>2
  <2>2. CASE x.status # "accepted"
    BY <1>2, <2>1, <2>2
  <2>3. CASE x.status = "accepted"
    <3>1. x.user \in Persons /\ x.user = y.user
      BY <2>1 DEF AppInv, Evolves
    <3>2. CASE Superseded(x)
      BY <2>1, <3>2
    <3>3. CASE Out(x.user)
      BY <1>1, <3>1, <3>3, OutStays
    <3>4. CASE member[x.user].active /\ ~Superseded(x)
      <4>1. ~TakenOut(x.user)
        BY <2>3, <3>4 DEF TakenOut, Ended
      <4> QED
        BY <3>1, <3>4, <4>1
    <3> QED
      BY <2>3, <3>2, <3>3, <3>4 DEF AcceptInv
  <2> QED
    BY <2>2, <2>3
<1>3. ASSUME NEW q \in Requests, q # r
      PROVE  Accepts(req[q])'
  <2>1. req'[q] = req[q] /\ Accepts(req[q]) /\ Shape(req[q])
    BY <1>1, <1>3 DEF Others, AcceptInv, BaseInv
  <2>2. PICK c : c = req[q]
    OBVIOUS
  <2>3. Accepts(c) /\ Shape(c) /\ req'[q] = c
    BY <2>1, <2>2
  <2> SUFFICES Accepts(c)'
    BY <2>3
  <2>4. c.pc \in Reviewing \cup {"recruit?", "deactivate"} /\ c.app \in Requests =>
           req[c.app].pc \in Settled /\ req'[c.app].pc \in Settled
    BY <1>1, <2>3 DEF Accepts, Others, Settled
  <2>5. ASSUME c.pc \in Reviewing \cup {"recruit?", "deactivate"}, NEW y \in apps', y.id = c.app
        PROVE  \E x \in apps : Evolves(x, y) /\ x.id = c.app
    BY <2>4, <2>5 DEF Evolves, Settled
  <2>6. ASSUME c.pc \in {"recruit?", "deactivate"}, NEW y \in apps', y.id = c.app
        PROVE  y.status \in Ended
    <3>1. PICK x \in apps : Evolves(x, y) /\ x.id = c.app
      BY <2>5, <2>6
    <3>2. x.status \in Ended
      BY <2>3, <2>6, <3>1 DEF Accepts
    <3> QED
      BY <3>1, <3>2 DEF Evolves, Ended, Open
  <2>7. ASSUME c.pc \in Reviewing, NEW y \in apps', y.id = c.app
        PROVE  y.user = c.of /\ (c.from = "trial" => y.status # "pending")
    <3>1. PICK x \in apps : Evolves(x, y) /\ x.id = c.app
      BY <2>5, <2>7
    <3>2. x.user = c.of /\ (c.from = "trial" => x.status # "pending")
      BY <2>3, <2>7, <3>1 DEF Accepts
    <3> QED
      BY <3>1, <3>2 DEF Evolves
  <2>8. ASSUME c.pc \in {"promote", "cas"} \/ (c.pc = "ban check" /\ c.row.active),
               c.to \in {"trial", "accepted"}
        PROVE  Held(c)'
    <3>1. Held(c) /\ c.pc \in Reviewing
      BY <2>3, <2>8 DEF Accepts, Reviewing, Ensuring
    <3>2. c.of \in Persons /\ c.from \in Open
      BY <2>3, <3>1 DEF Shape, Reviewing, Ensuring
    <3>3. CASE Out(c.of)
      BY <1>1, <3>3, OutStays DEF Held
    <3>4. CASE member[c.of].active
      <4>1. CASE member'[c.of].active \/ Out(c.of)'
        BY <4>1 DEF Held
      <4>2. CASE apps' = apps /\ TakenOut(c.of)
        <5>1. ASSUME NEW x \in apps', x.id = c.app, x.status = c.from PROVE Superseded(x)'
          <6>1. x \in apps /\ x.user = c.of
            BY <2>7, <3>1, <4>2, <5>1
          <6>2. x.status \notin Ended
            BY <3>2, <5>1 DEF Ended, Open
          <6>3. Superseded(x)
            BY <4>2, <6>1, <6>2 DEF TakenOut
          <6> QED
            BY <4>2, <6>3 DEF Superseded
        <5> QED
          BY <5>1 DEF Held
      <4> QED
        BY <3>2, <3>4, <4>1, <4>2
    <3>5. CASE \A x \in apps : x.id = c.app /\ x.status = c.from => Superseded(x)
      <4>1. ASSUME NEW y \in apps', y.id = c.app, y.status = c.from, ~Out(c.of)' PROVE Superseded(y)'
        <5>1. PICK x \in apps : Evolves(x, y) /\ x.id = c.app
          BY <2>5, <3>1, <4>1
        <5>2. x.user = c.of /\ (c.from = "trial" => x.status # "pending") /\ y.user = c.of
          BY <2>3, <3>1, <5>1 DEF Accepts, Evolves
        <5>3. x.status = c.from
          BY <3>2, <4>1, <5>1, <5>2 DEF Evolves, Open
        <5> QED
          BY <3>5, <4>1, <5>1, <5>2, <5>3
      <4> QED
        BY <4>1 DEF Held
    <3> QED
      BY <3>1, <3>3, <3>4, <3>5 DEF Held
  <2> QED
    BY <2>4, <2>6, <2>7, <2>8 DEF Accepts, Settled
<1> QED
  BY <1>2, <1>3 DEF AcceptInv

\* The same for a step that leaves the applications alone.
LEMMA AcceptSame ==
    ASSUME BaseInv, AppInv, AcceptInv, NEW r \in Requests, Moved(r), apps' = apps,
           req[r].pc \in Settled => req'[r].pc \in Settled,
           \A p \in Persons : member[p].active => member'[p].active \/ Out(p)' \/ TakenOut(p),
           Accepts(req[r])'
    PROVE  AcceptInv'
<1>1. \A y \in apps' : \E x \in apps : Evolves(x, y)
  BY DEF Evolves
<1>2. \A x \in apps, y \in apps' : Evolves(x, y) => x = y
  BY DEF AppInv, Evolves
<1>3. \A x \in apps : Superseded(x) => Superseded(x)'
  BY DEF Superseded
<1> QED
  BY <1>1, <1>2, <1>3, AcceptFrame

\* A request outside of a review relies on nothing.
LEMMA AcceptsNobody ==
    ASSUME NEW r \in Requests, req'[r].pc \notin Reviewing \cup {"recruit?", "deactivate"}
    PROVE  Accepts(req[r])'
BY DEF Accepts, Reviewing, Ensuring

\* A request at work on set-up stays at work on it, or is over.
LEMMA BootStays ==
    ASSUME BaseInv, NEW r \in Requests, BootStep(r)
    PROVE  req'[r].pc \in {"over", "claim"} \cup Locking
<1>0. ReqMap /\ "pc" \in DOMAIN req[r]
  BY RequestFacts
<1>1. CASE Answer(r)
  BY <1>0, <1>1, AnswerFacts
<1>2. ASSUME NEW pc \in Locking, Goto(r, pc) PROVE req'[r].pc \in Locking
  BY <1>0, <1>2, GotoFacts
<1>3. CASE \E p \in Persons : SetupLooks(r, p)
  BY <1>0, <1>1, <1>3 DEF SetupLooks, ReqMap
<1>4. CASE SetupClaims(r) \/ SetupCreatesUser(r) \/ DropsUser(r)
  BY <1>1, <1>2, <1>4 DEF SetupClaims, SetupCreatesUser, DropsUser, Locking
<1>5. CASE SetupFails(r)
  BY <1>2, <1>5 DEF SetupFails, OnError, Locking
<1>6. CASE SetupTimesOut(r)
  BY <1>1, <1>2, <1>6 DEF SetupTimesOut, OnError, Locking
<1>7. CASE LooksBeforeDelete(r)
  <2>1. Goto(r, "member left?") \/ Goto(r, "drop user")
    BY <1>7 DEF LooksBeforeDelete
  <2> QED
    BY <1>2, <2>1 DEF Locking
<1>8. CASE LooksBeforeRelease(r)
  BY <1>1, <1>2, <1>8 DEF LooksBeforeRelease, Locking
<1> QED
  BY <1>1, <1>3, <1>4, <1>5, <1>6, <1>7, <1>8 DEF BootStep, SetupCreatesAdmin,
     ReleasesLock, SetupStops

\* Set-up accepts nobody and deactivates nobody.
LEMMA BootAccept ==
    ASSUME BaseInv, BaseInv', AppInv, AcceptInv, NEW r \in Requests, BootStep(r), apps' = apps
    PROVE  AcceptInv'
<1>1. Moved(r) /\ req[r].pc \in {"idle", "claim"} \cup Locking
  BY RequestFacts, BootMoves
<1>2. req[r].pc \notin Settled
  BY <1>1 DEF Settled, Locking
<1>3. ReqMap /\ "pc" \in DOMAIN req[r] /\ MemberMap
  BY RequestFacts
<1>4. req'[r].pc \in {"over", "claim"} \cup Locking
  BY BootStays
<1>5. Accepts(req[r])'
  BY <1>4, AcceptsNobody DEF Locking, Reviewing, Ensuring
<1>6. \A p \in Persons : member[p].active => member'[p].active
  <2>1. CASE member' = member
    BY <2>1
  <2>2. CASE req[r].pc = "admin"
    <3>1. ~AnyMember
      BY <2>2, RequestFacts DEF Sees, Early
    <3>2. \A p \in Persons : member[p] = NoRow
      BY <3>1 DEF AnyMember, HasRow
    <3> QED
      BY <3>2 DEF NoRow
  <2> QED
    BY <2>1, <2>2 DEF BootStep, SetupLooks, SetupClaims, SetupCreatesUser, SetupCreatesAdmin,
       LooksBeforeDelete, DropsUser, LooksBeforeRelease, ReleasesLock, SetupFails, SetupTimesOut,
       SetupStops, At
<1> QED
  BY <1>1, <1>2, <1>5, <1>6, AcceptSame

\* Moderation accepts nobody, and whom it deactivates it deactivates openly.
LEMMA ModerationAccept ==
    ASSUME BaseInv, AppInv, AcceptInv, NEW r \in Requests, ModerationStep(r), apps' = apps
    PROVE  AcceptInv'
<1>1. /\ Moved(r) /\ req[r].pc \in {"idle"} \cup Moderating
      /\ ReqMap /\ "pc" \in DOMAIN req[r] /\ MemberMap
  BY RequestFacts, ModerationMoves
<1>2. req[r].pc \notin Settled
  BY <1>1 DEF Settled, Moderating, Judging, Decided
<1>3. req'[r].pc \in {"over"} \cup Moderating
  <2>1. CASE Answer(r)
    BY <1>1, <2>1, AnswerFacts
  <2>2. CASE Goto(r, "check") \/ Goto(r, "undo") \/ Goto(r, "row")
    BY <1>1, <2>2, GotoFacts DEF Moderating, Decided
  <2>3. CASE \/ \E me, of \in Persons, job \in ModerationJobs : Authenticate(r, me, of, job)
             \/ CountAdmins(r)
    BY <1>1, <2>3 DEF Authenticate, CountAdmins, ReqMap, Moderating, Judging
  <2>4. CASE (LoadTarget(r) \/ Decide(r)) /\ ~Answer(r)
    BY <1>1, <2>4 DEF LoadTarget, Decide, ReqMap, Moderating, Judging, Decided
  <2> QED
    BY <2>1, <2>2, <2>3, <2>4 DEF ModerationStep, WriteAction, WriteActive, WriteRole, CheckAgain,
       WriteBan, Undo, LiftAction, ModerationStops, CheckFails
<1>4. Accepts(req[r])'
  BY <1>3, AcceptsNobody DEF Moderating, Judging, Decided, Reviewing, Ensuring
<1>5. \A p \in Persons : member[p].active => member'[p].active \/ Out(p)'
  <2>1. CASE member' = member
    BY <2>1
  <2>2. CASE WriteActive(r)
    <3>1. PICK p \in Persons : p = req[r].of /\ HasRow(p)
      BY <2>2, WriteFacts DEF WriteActive, At, Decided
    <3>2. PICK to \in BOOLEAN : to = (req[r].job = Activate) /\ SetActive(p, to)
      BY <2>2, <3>1 DEF WriteActive
    <3>3. ~to => Happened("deactivated", p)'
      BY <2>2, <3>1, <3>2 DEF WriteActive, Remember, Happened
    <3>4. member'[p].active = to /\ \A q \in Persons \ {p} : member'[q] = member[q]
      BY <1>1, <3>1, <3>2, SetActiveFacts
    <3> QED
      BY <3>3, <3>4 DEF Out
  <2>3. CASE WriteRole(r) /\ member' # member
    <3>1. PICK p \in Persons : p = req[r].of /\ HasRow(p)
      BY <2>3, WriteFacts DEF WriteRole, At, Decided
    <3>2. PICK to \in Roles : SetRole(p, to)
      BY <2>3, <3>1, WriteFacts, RoleJob DEF WriteRole, CasRole, At, Decided
    <3> QED
      BY <1>1, <3>1, <3>2, SetRoleFacts
  <2>4. CASE Undo(r) /\ member' # member
    <3>1. PICK p \in Persons : p = req[r].of /\ HasRow(p)
      BY <2>4, WriteFacts DEF Undo, At, Decided
    <3>2. req[r].target.role \in Roles
      BY <2>4, WriteFacts DEF Undo, At, Decided, MemberRow
    <3>3. CASE SetActive(p, TRUE)
      BY <1>1, <3>1, <3>3, SetActiveFacts
    <3>4. CASE SetRole(p, req[r].target.role)
      BY <1>1, <3>1, <3>2, <3>4, SetRoleFacts
    <3> QED
      BY <2>4, <3>1, <3>3, <3>4 DEF Undo, CasRole
  <2> QED
    BY <2>1, <2>2, <2>3, <2>4 DEF ModerationStep, Authenticate, LoadTarget, CountAdmins, Decide,
       WriteAction, CheckAgain, WriteBan, LiftAction, ModerationStops, CheckFails
<1> QED
  BY <1>1, <1>2, <1>4, <1>5, AcceptSame

\* An application that is created is pending.
LEMMA CreateApplicationAccept ==
    ASSUME BaseInv, AppInv, AcceptInv, NEW r \in Requests, CreateApplication(r)
    PROVE  AcceptInv'
<1>1. Moved(r) /\ ReqMap /\ "pc" \in DOMAIN req[r]
  BY RequestFacts, ApplicationMoves DEF ApplicationMove
<1>2. req[r].pc = "create" /\ member' = member /\ req'[r].pc = "recount"
  BY <1>1, GotoFacts DEF CreateApplication, At
<1>3. PICK new : /\ new = [id |-> r, user |-> req[r].of, status |-> "pending", at |-> CreatedAt]
                 /\ apps' = apps \cup {new}
  BY DEF CreateApplication
<1>4. new.id = r /\ new.status = "pending" /\ \A x \in apps : x.id # r
  BY <1>2, <1>3 DEF AppInv
<1>5. \A y \in apps' : \/ y.status = "pending" /\ y.id = r /\ req[r].pc = "create"
                       \/ \E x \in apps : Evolves(x, y)
  BY <1>2, <1>3, <1>4 DEF Evolves
<1>6. \A x \in apps, y \in apps' : Evolves(x, y) => x = y
  BY <1>3, <1>4 DEF AppInv, Evolves
<1>7. \A x \in apps : Superseded(x) => Superseded(x)'
  BY <1>3 DEF Superseded
<1>8. Accepts(req[r])'
  BY <1>2, AcceptsNobody DEF Reviewing, Ensuring
<1> QED
  BY <1>1, <1>2, <1>5, <1>6, <1>7, <1>8, AcceptFrame DEF Settled

\* An application that is taken back was pending, or its end is on record.
LEMMA DeleteApplicationAccept ==
    ASSUME BaseInv, AppInv, AcceptInv, NEW r \in Requests, DeleteApplication(r)
    PROVE  AcceptInv'
<1>1. Moved(r) /\ ReqMap /\ "pc" \in DOMAIN req[r]
  BY RequestFacts, ApplicationMoves DEF ApplicationMove
<1>2. req[r].pc = "delete" /\ member' = member /\ req'[r].pc = "over"
  BY <1>1, AnswerFacts DEF DeleteApplication, At
<1>3. apps' = {x \in apps : x.id # r}
  BY DEF DeleteApplication
<1>4. \A y \in apps' : \E x \in apps : Evolves(x, y)
  BY <1>3 DEF Evolves
<1>5. \A x \in apps, y \in apps' : Evolves(x, y) => x = y
  BY <1>3 DEF AppInv, Evolves
<1>6. ASSUME NEW x \in apps', Superseded(x) PROVE Superseded(x)' \/ Out(x.user)'
  <2>1. PICK y \in apps : y.user = x.user /\ x.at < y.at /\ y.status \in Ended
    BY <1>6 DEF Superseded, Ended
  <2>2. CASE y.id # r
    BY <1>3, <2>1, <2>2 DEF Superseded, Ended
  <2>3. CASE y.id = r
    <3>1. StatusOf(r) # "pending"
      BY <2>1, <2>3, StatusOfFacts DEF Ended
    <3>2. PICK p : p = y.user
      OBVIOUS
    <3>3. req[r].of = p
      BY <1>2, <2>3, <3>2 DEF AppInv, Unsettled
    <3>4. Remember({<<"rolled back", p>>})
      BY <3>1, <3>3 DEF DeleteApplication
    <3>5. Happened("rolled back", p)'
      BY <3>4 DEF Remember, Happened
    <3> QED
      BY <2>1, <3>2, <3>5 DEF Out
  <2> QED
    BY <2>2, <2>3
<1>7. Accepts(req[r])'
  BY <1>2, AcceptsNobody DEF Reviewing, Ensuring
<1> QED
  BY <1>1, <1>2, <1>4, <1>5, <1>6, <1>7, AcceptFrame DEF Settled

\* A review accepts only whom it holds, and a rejection or withdrawal finds
\* its application at an end.
LEMMA SwapStatusAccept ==
    ASSUME BaseInv, AppInv, AcceptInv, NEW r \in Requests, SwapStatus(r)
    PROVE  AcceptInv'
<1>1. /\ Shape(req[r]) /\ ReqMap /\ "pc" \in DOMAIN req[r] /\ req[r].pc = "cas"
      /\ Moved(r) /\ member' = member /\ Accepts(req[r])
  BY RequestFacts, ApplicationMoves DEF SwapStatus, At, ApplicationMove, AcceptInv
<1>2. past \subseteq past' /\ Others(r)
  BY <1>1 DEF Moved
<1>3. req[r].pc \notin Settled
  BY <1>1 DEF Settled
<1>4. CASE apps' = apps /\ Answer(r)
  <2>1. Accepts(req[r])'
    BY <1>1, <1>4, AnswerFacts, AcceptsNobody DEF Reviewing, Ensuring
  <2> QED
    BY <1>1, <1>3, <1>4, <2>1, AcceptSame
<1>5. CASE CasStatus(req[r].app, req[r].from, req[r].to)
  <2>1. PICK id, from, to, of : /\ id = req[r].app /\ from = req[r].from /\ to = req[r].to
                                /\ of = req[r].of
    OBVIOUS
  <2>2. /\ \A y \in apps' : \E x \in apps : Became(x, y, id, from, to)
        /\ \A x \in apps : \E y \in apps' : Became(x, y, id, from, to)
    BY <1>5, <2>1, SwapFacts
  <2>3. from \in Open /\ to # "pending"
    BY <1>1, <2>1 DEF Shape
  <2>4. \A x \in apps, y \in apps' : Became(x, y, id, from, to) => Evolves(x, y)
    BY <2>3 DEF Became, Evolves
  <2>5. \A x \in apps, y \in apps' : Evolves(x, y) => Became(x, y, id, from, to)
    <3> SUFFICES ASSUME NEW x \in apps, NEW y \in apps', Evolves(x, y)
                 PROVE  Became(x, y, id, from, to)
      OBVIOUS
    <3>1. PICK z \in apps : Became(z, y, id, from, to)
      BY <2>2
    <3>2. z = x
      BY <3>1 DEF Became, Evolves, AppInv
    <3> QED
      BY <3>1, <3>2
  <2>6. \A x \in apps : x.status \in Ended => x \in apps'
    <3> SUFFICES ASSUME NEW x \in apps, x.status \in Ended PROVE x \in apps'
      OBVIOUS
    <3>1. PICK y \in apps' : Became(x, y, id, from, to)
      BY <2>2
    <3>2. x.id # id
      BY <2>3, <3>1 DEF Became, Ended, Open
    <3> QED
      BY <3>1, <3>2 DEF Became
  <2>7. \A x \in apps, y \in apps' : Evolves(x, y) /\ Superseded(x) => Superseded(y)'
    BY <2>6 DEF Superseded, Evolves, Ended
  <2>8. ASSUME NEW x \in apps, NEW y \in apps', Evolves(x, y),
               x.status # "accepted", y.status = "accepted"
        PROVE  member'[y.user].active \/ Out(y.user)' \/ Superseded(y)'
    <3>1. Became(x, y, id, from, to)
      BY <2>5, <2>8
    <3>2. x.id = id /\ x.status = from /\ to = "accepted" /\ y.user = x.user
      BY <2>8, <3>1 DEF Became
    <3>3. x.user = of
      BY <1>1, <2>1, <3>2 DEF Accepts, Reviewing
    <3>4. Held(req[r])
      BY <1>1, <2>1, <3>2 DEF Accepts
    <3>5. member[of].active \/ Out(of) \/ Superseded(x)
      BY <2>1, <3>2, <3>4 DEF Held
    <3>6. Out(of) => Out(of)'
      BY <1>2, OutStays
    <3> QED
      BY <1>1, <2>7, <2>8, <3>2, <3>3, <3>5, <3>6
  <2>9. Accepts(req[r])'
    <3>1. CASE Answer(r)
      BY <1>1, <3>1, AnswerFacts, AcceptsNobody DEF Reviewing, Ensuring
    <3>2. CASE to \in Ended /\ Goto(r, "recruit?")
      <4>1. req'[r].app = id /\ req'[r].pc = "recruit?"
        BY <1>1, <2>1, <3>2, GotoFacts DEF SameLocals
      <4>2. id \in Requests => id # r /\ req[id].pc \in {"recount", "delete", "over"}
        BY <1>1, <2>1 DEF Accepts, Reviewing
      <4>3. id \in Requests => req'[id].pc \in {"recount", "delete", "over"}
        BY <1>2, <4>2 DEF Others
      <4>4. \A y \in apps' : y.id = id => y.status \in Ended
        BY <2>2, <3>2 DEF Became
      <4> QED
        BY <4>1, <4>3, <4>4 DEF Accepts, Reviewing, Ensuring
    <3> QED
      BY <1>3, <2>1, <3>1, <3>2 DEF SwapStatus, Ended
  <2>10. \A y \in apps' : \E x \in apps : Evolves(x, y)
    BY <2>2, <2>4
  <2> QED
    BY <1>1, <1>3, <2>7, <2>8, <2>9, <2>10, AcceptFrame
<1> QED
  BY <1>4, <1>5 DEF SwapStatus

\* A review that goes on with the same application keeps its part.
LEMMA AcceptsOn ==
    ASSUME AcceptInv, NEW r \in Requests, Others(r), apps' = apps,
           req[r].pc \in Reviewing, req'[r].pc \in Reviewing,
           req'[r].app = req[r].app, req'[r].of = req[r].of, req'[r].from = req[r].from,
           NEW of, of = req[r].of,
           \/ member'[of].active
           \/ Held(req[r])'
           \/ req'[r].pc \notin {"promote", "cas", "ban check"}
           \/ req'[r].pc = "ban check" /\ ~req'[r].row.active
    PROVE  Accepts(req[r])'
<1>1. PICK c : c = req[r]
  OBVIOUS
<1>2. Accepts(c) /\ c.pc \in Reviewing
  BY <1>1 DEF AcceptInv
<1>3. c.app \in Requests => c.app # r /\ req'[c.app].pc \in {"recount", "delete", "over"}
  <2>1. c.app \in Requests => req[c.app].pc \in {"recount", "delete", "over"}
    BY <1>2 DEF Accepts
  <2>2. c.app # r
    BY <1>1, <1>2, <2>1 DEF Reviewing, Ensuring
  <2> QED
    BY <2>1, <2>2 DEF Others
<1>4. \A x \in apps' : x.id = c.app => x.user = c.of /\ (c.from = "trial" => x.status # "pending")
  BY <1>2 DEF Accepts
<1>5. PICK d : d = req'[r]
  OBVIOUS
<1>6. d.app = c.app /\ d.of = c.of /\ d.from = c.from /\ d.pc \in Reviewing
  BY <1>1, <1>5
<1>7. \/ Held(req[r])'
      \/ d.pc \notin {"promote", "cas", "ban check"}
      \/ d.pc = "ban check" /\ ~d.row.active
  BY <1>1, <1>5, <1>6 DEF Held
<1> QED
  BY <1>3, <1>4, <1>5, <1>6, <1>7 DEF Accepts, Reviewing, Ensuring

\* A transition starts from an open application.
LEMMA TransitionAccepts ==
    ASSUME AppInv, NEW r \in Requests, ReqMap, req[r].pc = "idle", apps' = apps,
           NEW x \in apps, NEW to, Transition(r, x, to)
    PROVE  Accepts(req[r])'
<1>1. /\ Others(r) /\ req'[r].pc = Enter(to) /\ req'[r].app = x.id /\ req'[r].of = x.user
      /\ req'[r].from = x.status /\ req'[r].to = to
  BY TransitionFacts
<1>2. x.id \in Requests => x.id # r /\ req'[x.id].pc \in {"recount", "delete", "over"}
  BY <1>1 DEF AppInv, Others
<1>3. \A y \in apps' : y.id = x.id => y = x
  BY DEF AppInv
<1>4. req'[r].pc = "ensure" \/ (req'[r].pc = "cas" /\ to \notin {"trial", "accepted"})
  BY <1>1 DEF Enter
<1> QED
  BY <1>1, <1>2, <1>3, <1>4 DEF Accepts, Reviewing, Ensuring

\* Provisioning a member: the review goes on with an active row.
LEMMA EnsureAccept ==
    ASSUME BaseInv, AppInv, AcceptInv, NEW r \in Requests,
           \/ EnsureLoads(r) \/ EnsureChecksBan(r) \/ EnsureActivates(r)
           \/ EnsurePromotes(r) \/ EnsureCreates(r)
    PROVE  AcceptInv'
<1>1. /\ Shape(req[r]) /\ Sees(req[r]) /\ ReqMap /\ "pc" \in DOMAIN req[r] /\ MemberMap
      /\ Moved(r) /\ Accepts(req[r])
  BY RequestFacts, ApplicationMoves DEF ApplicationMove, AcceptInv
<1>2. Others(r) /\ apps' = apps
  BY <1>1 DEF Moved, EnsureLoads, EnsureChecksBan, EnsureActivates, EnsurePromotes, EnsureCreates
<1>3. req[r].pc \in Ensuring
  BY DEF EnsureLoads, EnsureChecksBan, EnsureActivates, EnsurePromotes, EnsureCreates, At, Ensuring
<1>4. req[r].pc \in Reviewing /\ req[r].pc \notin Settled
  BY <1>3 DEF Reviewing, Settled, Ensuring
<1>5. PICK p \in Persons : p = req[r].of
  BY <1>1, <1>3 DEF Shape, Ensuring
<1>6. Answer(r) => Accepts(req[r])'
  BY <1>1, AnswerFacts, AcceptsNobody DEF Reviewing, Ensuring
<1>7. (\A q \in Persons : member[q].active => member'[q].active) /\ Accepts(req[r])' => AcceptInv'
  BY <1>1, <1>2, <1>4, AcceptSame
<1>8. CASE EnsureLoads(r)
  <2>1. member' = member
    BY <1>8 DEF EnsureLoads
  <2>2. /\ req'[r].pc = IF HasRow(req[r].of) THEN "ban check" ELSE "new member"
        /\ req'[r].app = req[r].app
        /\ req'[r].of = req[r].of /\ req'[r].from = req[r].from
        /\ req'[r].row = member[req[r].of]
    BY <1>1, <1>8 DEF EnsureLoads, ReqMap
  <2>3. /\ req'[r].pc \in {"ban check", "new member"} /\ req'[r].app = req[r].app
        /\ req'[r].of = req[r].of /\ req'[r].from = req[r].from
        /\ req'[r].row = member[p]
    BY <1>5, <2>2
  <2>4. req'[r].pc \in Reviewing
    BY <2>3 DEF Reviewing, Ensuring
  <2>5. Accepts(req[r])'
    BY <1>2, <1>4, <1>5, <2>1, <2>3, <2>4, AcceptsOn
  <2> QED
    BY <1>7, <2>1, <2>5
<1>9. CASE EnsureChecksBan(r)
  <2>1. member' = member
    BY <1>9 DEF EnsureChecksBan
  <2>2. CASE Answer(r)
    BY <1>6, <1>7, <2>1, <2>2
  <2>3. CASE ~Answer(r)
    <3>1. /\ req'[r].pc = IF req[r].row.active THEN AfterActive(req[r], req[r].row) ELSE "reactivate"
          /\ req'[r].app = req[r].app /\ req'[r].of = req[r].of
          /\ req'[r].from = req[r].from /\ req'[r].to = req[r].to
      BY <1>1, <1>9, <2>3, EnsureChecksBanFacts
    <3>2. req'[r].pc \in {"promote", "cas", "reactivate"}
      BY <3>1, AfterActiveFacts
    <3>3. req'[r].pc \in Reviewing
      BY <3>2 DEF Reviewing, Ensuring
    <3>4. CASE req'[r].pc = "reactivate"
      <4>1. Accepts(req[r])'
        BY <1>2, <1>4, <1>5, <3>1, <3>3, <3>4, AcceptsOn
      <4> QED
        BY <1>7, <2>1, <4>1
    <3>5. CASE req'[r].pc \in {"promote", "cas"}
      <4>1. req[r].row.active
        BY <3>1, <3>5
      <4>2. req[r].to \in {"trial", "accepted"} => Held(req[r])
        BY <1>1, <1>9, <4>1 DEF Accepts, EnsureChecksBan, At
      <4>3. PICK c : c = req[r]
        OBVIOUS
      <4>4. past' = past
        BY <1>9 DEF EnsureChecksBan
      <4>5. Held(c) => Held(c)'
        BY <1>2, <2>1, <4>4 DEF Held, Superseded, Out, Happened
      <4>6. Held(c)' => Held(req[r])'
        BY <3>1, <4>3 DEF Held
      <4>7. CASE Held(c)
        <5>1. Accepts(req[r])'
          BY <1>2, <1>4, <1>5, <3>1, <3>3, <4>5, <4>6, <4>7, AcceptsOn
        <5> QED
          BY <1>7, <2>1, <5>1
      <4>8. CASE req[r].to \notin {"trial", "accepted"}
        <5>1. Accepts(req[r])'
          <6>1. c.app \in Requests => c.app # r /\ req'[c.app].pc \in {"recount", "delete", "over"}
            BY <1>1, <1>2, <1>4, <4>3 DEF Accepts, Others, Settled
          <6>2. \A x \in apps' : x.id = c.app => x.user = c.of /\ (c.from = "trial" => x.status # "pending")
            BY <1>1, <1>2, <1>4, <4>3 DEF Accepts
          <6> QED
            BY <3>1, <3>3, <3>5, <4>3, <4>8, <6>1, <6>2 DEF Accepts
        <5> QED
          BY <1>7, <2>1, <5>1
      <4> QED
        BY <4>2, <4>3, <4>7, <4>8
    <3> QED
      BY <3>2, <3>4, <3>5
  <2> QED
    BY <2>2, <2>3
<1>10. CASE EnsureActivates(r)
  <2>1. HasRow(p) /\ SetActive(p, TRUE)
    BY <1>1, <1>5, <1>10 DEF EnsureActivates, At, Sees
  <2>2. member'[p].active = TRUE /\ \A q \in Persons \ {p} : member'[q] = member[q]
    BY <1>1, <2>1, SetActiveFacts
  <2>3. PICK pc \in {"promote", "cas"} : Goto(r, pc)
    BY <1>10, AfterActiveFacts DEF EnsureActivates
  <2>4. req'[r].pc = pc /\ SameLocals(r)
    BY <1>1, <2>3, GotoFacts
  <2>5. req'[r].pc \in Reviewing
    BY <2>4 DEF Reviewing, Ensuring
  <2>6. Accepts(req[r])'
    BY <1>2, <1>4, <1>5, <2>2, <2>4, <2>5, AcceptsOn DEF SameLocals
  <2> QED
    BY <1>7, <2>2, <2>6
<1>11. CASE EnsurePromotes(r)
  <2>1. HasRow(p) /\ SetRole(p, DesiredRole(req[r])) /\ DesiredRole(req[r]) \in Roles
    BY <1>1, <1>5, <1>11, DesiredRoleFacts DEF EnsurePromotes, At, Sees, Roles
  <2>2. \A q \in Persons : member'[q].active = member[q].active
    BY <1>1, <2>1, SetRoleFacts
  <2>3. req'[r].pc = "cas" /\ SameLocals(r)
    BY <1>1, <1>11, GotoFacts DEF EnsurePromotes
  <2>4. req'[r].pc \in Reviewing
    BY <2>3 DEF Reviewing
  <2>5. PICK c : c = req[r]
    OBVIOUS
  <2>6. c.to \in {"trial", "accepted"} => Held(c)
    BY <1>1, <1>11, <2>5 DEF Accepts, EnsurePromotes, At
  <2>7. Held(c) => Held(c)'
    <3>1. Out(p) => Out(p)'
      BY <1>1, OutStays DEF Moved
    <3> QED
      BY <1>2, <1>5, <2>2, <2>5, <3>1 DEF Held, Superseded
  <2>8. Held(c)' => Held(req[r])'
    BY <2>3, <2>5 DEF Held, SameLocals
  <2>9. CASE Held(c)
    <3>1. Accepts(req[r])'
      BY <1>2, <1>4, <1>5, <2>3, <2>4, <2>7, <2>8, <2>9, AcceptsOn DEF SameLocals
    <3> QED
      BY <1>7, <2>2, <3>1
  <2>10. CASE c.to \notin {"trial", "accepted"}
    <3>1. c.app \in Requests => c.app # r /\ req'[c.app].pc \in {"recount", "delete", "over"}
      BY <1>1, <1>2, <1>4, <2>5 DEF Accepts, Others, Settled
    <3>2. \A x \in apps' : x.id = c.app => x.user = c.of /\ (c.from = "trial" => x.status # "pending")
      BY <1>1, <1>2, <1>4, <2>5 DEF Accepts
    <3>3. Accepts(req[r])'
      BY <2>3, <2>4, <2>5, <2>10, <3>1, <3>2 DEF Accepts, SameLocals
    <3> QED
      BY <1>7, <2>2, <3>3
  <2> QED
    BY <2>6, <2>9, <2>10
<1>12. CASE EnsureCreates(r) /\ ~Answer(r)
  <2>1. CreateMember(p, DesiredRole(req[r])) /\ DesiredRole(req[r]) \in Roles /\ Goto(r, "cas")
    BY <1>5, <1>12, DesiredRoleFacts DEF EnsureCreates, Roles
  <2>2. member'[p].active = TRUE /\ \A q \in Persons \ {p} : member'[q] = member[q]
    BY <1>1, <2>1, CreateMemberFacts
  <2>3. req'[r].pc = "cas" /\ SameLocals(r)
    BY <1>1, <2>1, GotoFacts
  <2>4. req'[r].pc \in Reviewing
    BY <2>3 DEF Reviewing
  <2>5. Accepts(req[r])'
    BY <1>2, <1>4, <1>5, <2>2, <2>3, <2>4, AcceptsOn DEF SameLocals
  <2> QED
    BY <1>7, <2>2, <2>5
<1>13. CASE EnsureCreates(r) /\ Answer(r)
  <2>1. \A q \in Persons : member[q].active => member'[q].active
    <3>1. CASE member' = member
      BY <3>1
    <3>2. CASE CreateMember(p, DesiredRole(req[r]))
      <4>1. DesiredRole(req[r]) \in Roles
        BY DesiredRoleFacts DEF Roles
      <4> QED
        BY <1>1, <3>2, <4>1, CreateMemberFacts
    <3> QED
      BY <1>5, <1>13, <3>1, <3>2 DEF EnsureCreates
  <2> QED
    BY <1>6, <1>7, <1>13, <2>1
<1> QED
  BY <1>8, <1>9, <1>10, <1>11, <1>12, <1>13

\* The recruit whose newest application has come to an end is deactivated;
\* what another application says by then is on record.
LEMMA DropRecruitAccept ==
    ASSUME BaseInv, AppInv, AcceptInv, NEW r \in Requests, DropRecruit(r)
    PROVE  AcceptInv'
<1>1. /\ Shape(req[r]) /\ Sees(req[r]) /\ ReqMap /\ MemberMap /\ Moved(r) /\ Accepts(req[r])
      /\ req[r].pc = "deactivate" /\ apps' = apps
  BY RequestFacts, ApplicationMoves DEF ApplicationMove, AcceptInv, DropRecruit, At
<1>2. PICK p \in Persons : p = req[r].of /\ HasRow(p)
  BY <1>1 DEF Shape, Sees, ApplicationSteps
<1>3. PICK id : id = req[r].app
  OBVIOUS
<1>4. \A q \in Persons \ {p} : member'[q] = member[q]
  BY <1>1, <1>2, SetActiveFacts DEF DropRecruit
<1>5. Accepts(req[r])'
  BY <1>1, AnswerFacts, AcceptsNobody DEF DropRecruit, Reviewing, Ensuring
<1>6. CASE Latest(p).id # id
  <2>1. Remember({<<"crossed", p>>} \cup Unwatched(r, p))
    BY <1>2, <1>3, <1>6 DEF DropRecruit
  <2>2. Out(p)'
    BY <2>1 DEF Remember, Out, Happened
  <2> QED
    BY <1>1, <1>4, <1>5, <2>2, AcceptSame DEF Settled
<1>7. CASE Latest(p).id = id
  <2>1. TakenOut(p)
    <3> SUFFICES ASSUME NEW x \in apps, x.user = p, x.status \notin Ended PROVE Superseded(x)
      BY DEF TakenOut
    <3>1. x \in AppsOf(p)
      BY DEF AppsOf
    <3>2. PICK y \in apps : /\ y = Latest(p) /\ y.user = p /\ x.at <= y.at
      BY <3>1, LatestFacts
    <3>3. y.status \in Ended
      BY <1>1, <1>3, <1>7, <3>2 DEF Accepts
    <3>4. x.at < y.at
      BY <3>2, <3>3 DEF AppInv
    <3> QED
      BY <3>2, <3>3, <3>4 DEF Superseded, Ended
  <2> QED
    BY <1>1, <1>4, <1>5, <2>1, AcceptSame DEF Settled
<1> QED
  BY <1>6, <1>7

\* The handlers of applications accept only active members.
LEMMA ApplicationAccept ==
    ASSUME BaseInv, AppInv, AcceptInv, NEW r \in Requests, ApplicationMove(r)
    PROVE  AcceptInv'
<1>1. /\ Shape(req[r]) /\ ReqMap /\ "pc" \in DOMAIN req[r] /\ Moved(r) /\ Accepts(req[r])
  BY RequestFacts, ApplicationMoves DEF AcceptInv
<1>2. CASE member' = member /\ apps' = apps /\ Answer(r)
  <2>1. req'[r].pc = "over"
    BY <1>1, <1>2, AnswerFacts
  <2>2. Accepts(req[r])'
    BY <2>1, AcceptsNobody DEF Reviewing, Ensuring
  <2> QED
    BY <1>1, <1>2, <2>1, <2>2, AcceptSame DEF Settled
<1>3. ASSUME member' = member, apps' = apps, NEW pc \in {"open?", "create", "delete"}, Goto(r, pc),
             req[r].pc = "recount" => pc = "delete", req[r].pc \notin {"delete", "over"}
      PROVE  AcceptInv'
  <2>1. req'[r].pc = pc
    BY <1>1, <1>3, GotoFacts
  <2>2. Accepts(req[r])'
    BY <2>1, AcceptsNobody DEF Reviewing, Ensuring
  <2>3. req[r].pc \in Settled => req'[r].pc \in Settled
    BY <1>3, <2>1 DEF Settled
  <2> QED
    BY <1>1, <1>3, <2>2, <2>3, AcceptSame
<1>4. CASE \E p \in Persons : SubmitLoads(r, p)
  <2>1. req'[r].pc \in {"banned?", "open?"}
    BY <1>1, <1>4 DEF SubmitLoads, ReqMap
  <2>2. Accepts(req[r])'
    BY <2>1, AcceptsNobody DEF Reviewing, Ensuring
  <2>3. req[r].pc \notin Settled /\ member' = member /\ apps' = apps
    BY <1>4 DEF SubmitLoads, MaySend, At, Settled
  <2> QED
    BY <1>1, <2>2, <2>3, AcceptSame
<1>5. CASE \/ \E p \in Persons : WithdrawLoads(r, p)
           \/ \E me \in Persons, x \in apps, to \in {"trial", "accepted", "rejected", "withdrawn"} :
                 ReviewLoads(r, me, x, to)
  <2>1. req[r].pc = "idle" /\ member' = member /\ apps' = apps
    BY <1>5 DEF WithdrawLoads, ReviewLoads, MaySend, At
  <2>2. PICK x, to : x \in apps /\ Transition(r, x, to)
    <3>1. CASE \E p \in Persons : WithdrawLoads(r, p)
      <4>1. PICK p \in Persons : WithdrawLoads(r, p)
        BY <3>1
      <4>2. Latest(p) \in apps
        BY <4>1, LatestFacts DEF WithdrawLoads, Open
      <4> QED
        BY <4>1, <4>2 DEF WithdrawLoads
    <3> QED
      BY <1>5, <3>1 DEF ReviewLoads
  <2>3. Accepts(req[r])'
    BY <1>1, <2>1, <2>2, TransitionAccepts
  <2> QED
    BY <1>1, <2>1, <2>3, AcceptSame DEF Settled
<1>6. CASE SubmitChecksBan(r) \/ SubmitChecksOpen(r) \/ CountOpen(r)
  BY <1>2, <1>3, <1>6 DEF SubmitChecksBan, SubmitChecksOpen, CountOpen, At
<1>7. CASE FindRecruit(r) /\ ~Answer(r)
  <2>1. /\ req[r].pc = "recruit?" /\ member' = member /\ apps' = apps /\ Goto(r, "deactivate")
    BY <1>7 DEF FindRecruit, At
  <2>2. req'[r].pc = "deactivate" /\ SameLocals(r) /\ Others(r)
    BY <1>1, <2>1, GotoFacts
  <2>3. PICK c : c = req[r]
    OBVIOUS
  <2>4. c.app \in Requests => c.app # r /\ req'[c.app].pc \in {"recount", "delete", "over"}
    BY <1>1, <2>1, <2>2, <2>3 DEF Accepts, Others
  <2>5. \A x \in apps' : x.id = c.app => x.status \in Ended
    BY <1>1, <2>1, <2>3 DEF Accepts
  <2>6. Accepts(req[r])'
    BY <2>2, <2>3, <2>4, <2>5 DEF Accepts, SameLocals, Reviewing, Ensuring
  <2> QED
    BY <1>1, <2>1, <2>6, AcceptSame DEF Settled
<1>8. CASE ApplicationStops(r) \/ (FindRecruit(r) /\ Answer(r))
  BY <1>2, <1>8 DEF ApplicationStops, FindRecruit
<1> QED
  BY <1>4, <1>5, <1>6, <1>7, <1>8, CreateApplicationAccept, DeleteApplicationAccept,
     SwapStatusAccept, EnsureAccept, DropRecruitAccept DEF ApplicationMove

-----------------------------------------------------------------------------
(* The invariant. *)

\* A site at rest starts in order: nobody is at work and nothing has happened.
LEMMA InitIInv ==
    ASSUME Init
    PROVE  IInv
<1>1. PICK s \in Scenes :
        /\ jobs = s.jobs /\ member = s.member /\ actions = s.actions /\ apps = s.apps
        /\ claimed = \E p \in Persons : s.member[p] # NoRow
  BY DEF Init
<1>2. /\ users = {} /\ past = {} /\ req = [r \in Requests |-> Idle]
  BY DEF Init
<1>3. /\ AtRest(s)
      /\ s.jobs \in [Requests -> SUBSET
            ((ModerationJobs \cup ApplicationJobs \cup {Setup}) \X Persons)]
  BY MembershipAssumption
<1>4. \A r \in Requests : req[r] = Idle /\ req[r].pc = "idle"
  BY <1>2 DEF Idle
<1>5. \A e, p : ~Happened(e, p)
  BY <1>2 DEF Happened
<1>6. claimed = AnyMember
  BY <1>1 DEF AnyMember, HasRow
<1>7. BaseInv
  <2>1. Typed
    <3>1. claimed \in BOOLEAN
      BY <1>1
    <3>2. member \in [Persons -> MemberRow \cup {NoRow}]
      BY <1>1, <1>3 DEF AtRest, MemberRow
    <3> QED
      BY <1>1, <1>2, <1>3, <3>1, <3>2 DEF Typed
  <2>2. \A r \in Requests : Shape(req[r])
    <3>1. \A r \in Requests : "pc" \in DOMAIN req[r]
      BY <1>4 DEF Idle
    <3> QED
      BY <1>4, <3>1, Zenon DEF Shape, Judging, Decided, Moderating, Watching, Ensuring
  <2>3. \A r \in Requests : Sees(req[r])
    BY <1>4 DEF Sees, Judging, Decided, Ensuring, Early, Locking
  <2>4. \A r \in Requests : req[r].pc \notin Locking
    BY <1>4 DEF Locking
  <2> QED
    BY <1>6, <2>1, <2>2, <2>3, <2>4 DEF BaseInv
<1>8. ActionInv
  <2>1. \A x \in actions : /\ x.of \in Persons /\ member[x.of] # NoRow
                           /\ x.type \in {"suspension", "ban"} /\ x.id \notin Requests
    BY <1>1, <1>3 DEF AtRest
  <2>2. \A x, y \in actions : x.id = y.id => x = y
    BY <1>1, <1>3 DEF AtRest
  <2> QED
    BY <2>1, <2>2 DEF ActionInv, HasRow
<1>9. AppInv
  <2>1. apps \subseteq [id : {x.id : x \in apps}, user : Persons, status : Statuses, at : Nat]
    BY <1>1, <1>3 DEF AtRest
  <2>2. ASSUME NEW x \in apps
        PROVE  /\ x = [id |-> x.id, user |-> x.user, status |-> x.status, at |-> x.at]
               /\ x.user \in Persons /\ x.status \in Statuses /\ x.at \in Nat
    <3>1. PICK ids : apps \subseteq [id : ids, user : Persons, status : Statuses, at : Nat]
      BY <2>1
    <3> QED
      BY <3>1
  <2>3. \A x \in apps : x.id \notin Requests /\ x.id # "none"
    BY <1>1, <1>3 DEF AtRest
  <2>4. IsFiniteSet(apps) /\ \A x, y \in apps : x.id = y.id \/ x.at = y.at => x = y
    BY <1>1, <1>3 DEF AtRest
  <2> QED
    BY <2>2, <2>3, <2>4 DEF AppInv, Unsettled
<1>10. OpenInv
  BY <1>1, <1>3 DEF AtRest, OpenInv
<1>11. BanInv
  <2>1. \A r \in Requests : BanShuts(req[r])
    BY <1>4 DEF BanShuts, Judging, Decided
  <2>2. \A x \in actions : x.type = "ban" => ~member[x.of].active
    BY <1>1, <1>3 DEF AtRest
  <2> QED
    BY <2>1, <2>2 DEF BanInv, Banned, Shut
<1>12. AdminInv
  <2> SUFFICES ASSUME AnyMember PROVE \E p \in Persons : Restorable(p)
    BY DEF AdminInv
  <2>1. PICK p \in Persons : /\ member[p] = [role |-> "admin", active |-> TRUE]
                             /\ \A x \in actions : x.of # p
    BY <1>1, <1>3 DEF AtRest, AnyMember, HasRow
  <2>2. Restorable(p)
    BY <2>1 DEF Restorable, FlagKept, RoleKept, ClearKept
  <2> QED
    BY <2>2
<1>13. BootInv
  <2>1. \A r \in Requests : req[r].pc # "admin"
    BY <1>4
  <2> QED
    BY <1>2, <1>5, <1>6, <2>1 DEF BootInv
<1>14. AcceptInv
  <2>1. \A r \in Requests : Accepts(req[r])
    BY <1>4 DEF Accepts, Reviewing, Ensuring
  <2>2. \A x \in apps : x.status = "accepted" => member[x.user].active
    BY <1>1, <1>3 DEF AtRest
  <2> QED
    BY <2>1, <2>2 DEF AcceptInv
<1> QED
  BY <1>7, <1>8, <1>9, <1>10, <1>11, <1>12, <1>13, <1>14 DEF IInv

\* Every step of moderation, of applications and of set-up keeps it.
LEMMA NextIInv ==
    ASSUME IInv, [Next]_vars
    PROVE  IInv'
<1> USE DEF IInv
<1>1. CASE ModerationNext /\ UNCHANGED <<apps, users, claimed>>
  <2>1. PICK r \in Requests : ModerationStep(r)
    BY <1>1 DEF ModerationNext, ModerationStep
  <2>2. BaseInv'
    BY <1>1, ModerationBase
  <2>3. apps' = apps /\ users' = users /\ claimed' = claimed
    BY <1>1
  <2> QED
    BY <2>1, <2>2, <2>3, ModerationAction, ModerationApp, ModerationBan, ModerationAdmin,
       ModerationBoot, ModerationAccept
<1>2. CASE ApplicationNext /\ UNCHANGED <<users, claimed>>
  <2>1. PICK r \in Requests : ApplicationMove(r)
    BY <1>2 DEF ApplicationNext, ApplicationMove
  <2>2. BaseInv'
    BY <1>2, ApplicationBase
  <2>3. users' = users /\ claimed' = claimed
    BY <1>2
  <2> QED
    BY <2>1, <2>2, <2>3, ApplicationAction, ApplicationApp, ApplicationBan, ApplicationAdmin,
       ApplicationBoot, ApplicationAccept
<1>3. CASE BootNext /\ UNCHANGED apps
  <2>1. PICK r \in Requests : BootStep(r)
    BY <1>3 DEF BootNext, BootStep
  <2>2. BaseInv'
    BY <1>3, BootBase
  <2>3. apps' = apps
    BY <1>3
  <2> QED
    BY <2>1, <2>2, <2>3, BootAction, BootApp, BootBan, BootAdmin, BootBoot, BootAccept
<1>4. CASE UNCHANGED vars
  <2> USE <1>4 DEF vars, tableVars, bootVars
  <2>1. BaseInv'
    BY DEF BaseInv, Typed, Sees, AnyMember, HasRow
  <2>2. ActionInv' /\ AppInv' /\ OpenInv'
    BY DEF ActionInv, HasRow, AppInv, OpenInv, Unsettled, Happened
  <2>3. BanInv'
    BY DEF BanInv, Banned, BanShuts, Shut, Happened
  <2>4. AdminInv'
    BY DEF AdminInv, AnyMember, HasRow, Lost, Excused, Happened, Restorable, FlagKept, RoleKept,
       ClearKept, Watched
  <2>5. BootInv'
    BY DEF BootInv, AnyMember, HasRow, Excused, Happened
  <2>6. AcceptInv'
    BY ZenonT(60) DEF AcceptInv, Accepts, Held, Out, Superseded, Happened
  <2> QED
    BY <2>1, <2>2, <2>3, <2>4, <2>5, <2>6
<1> QED
  BY <1>1, <1>2, <1>3, <1>4 DEF Next

\* The inductive invariant holds throughout.
THEOREM Invariance == Spec => []IInv
<1>1. Init => IInv
  BY InitIInv
<1>2. IInv /\ [Next]_vars => IInv'
  BY NextIInv
<1> QED
  BY <1>1, <1>2, PTL DEF Spec

-----------------------------------------------------------------------------
(* What it shows. *)

\* However admins suspend, ban, deactivate and demote one another, and
\* whatever applications and set-up do meanwhile, somebody can administer the
\* site when the requests are over (assert_has_actionable_admin), but for the
\* three cases the second look cannot see.
THEOREM AdminKept == Spec => []LastAdminKept
<1>1. ASSUME IInv PROVE LastAdminKept
  <2> SUFFICES ASSUME Quiet, AnyMember, ~Excused({"unwatched", "unrestored", "stopped"})
               PROVE  ActionableAdmins # {}
    BY DEF LastAdminKept
  <2>1. PICK p \in Persons : Restorable(p)
    BY <1>1 DEF IInv, AdminInv, Lost
  <2>2. \A r \in Requests : ~Watched(r, p)
    BY DEF Quiet, Watched, Watching
  <2>3. Actionable(p)
    BY <2>1, <2>2 DEF Restorable, FlagKept, RoleKept, ClearKept, Actionable, Suspended
  <2> QED
    BY <2>3 DEF ActionableAdmins
<1> QED
  BY <1>1, Invariance, PTL

\* A banned member is inactive (create_moderation_action deactivates before it
\* writes the ban), unless activated openly.
THEOREM BansHold == Spec => []BanHolds
<1>1. ASSUME IInv PROVE BanHolds
  BY <1>1 DEF IInv, BanInv, BanHolds, Shut
<1> QED
  BY <1>1, Invariance, PTL

\* Whoever was accepted is an active member when the requests are over
\* (apply_application_transition), or was deactivated openly.
THEOREM AcceptedStays == Spec => []AcceptedIsActive
<1>1. ASSUME IInv PROVE AcceptedIsActive
  <2> SUFFICES ASSUME NEW p \in Persons, Latest(p).status = "accepted"
               PROVE  member[p].active \/ Out(p)
    BY DEF AcceptedIsActive, Out
  <2>1. PICK x \in apps : /\ x = Latest(p) /\ x.user = p
                          /\ \A y \in AppsOf(p) : y.at <= x.at
    BY <1>1, LatestFacts DEF IInv
  <2>2. ~Superseded(x)
    <3> SUFFICES ASSUME NEW y \in apps, y.user = p, x.at < y.at PROVE FALSE
      BY <2>1 DEF Superseded
    <3>1. y.at <= x.at /\ x.at \in Nat /\ y.at \in Nat
      BY <1>1, <2>1 DEF AppsOf, IInv, AppInv
    <3> QED
      BY <3>1
  <2> QED
    BY <1>1, <2>1, <2>2 DEF IInv, AcceptInv
<1> QED
  BY <1>1, Invariance, PTL

\* First-boot set-up makes at most one admin and can be repeated until it has
\* (post_setup, abandon_failed_setup).
THEOREM BootIsSound == Spec => []BootSound
<1>1. ASSUME IInv PROVE BootSound
  <2>1. BootedOnce
    <3> DEFINE booted == {p \in Persons : Happened("booted", p)}
    <3>1. Cardinality(booted) <= 1
      <4>1. CASE booted = {}
        BY <4>1, FS_EmptySet
      <4>2. CASE booted # {}
        <5>1. PICK p \in Persons : p \in booted
          BY <4>2
        <5>2. booted = {p}
          BY <1>1, <5>1 DEF IInv, BootInv
        <5> QED
          BY <5>2, FS_Singleton
      <4> QED
        BY <4>1, <4>2
    <3>2. booted # {} => claimed
      BY <1>1 DEF IInv, BootInv, BaseInv, AnyMember
    <3>3. booted \subseteq users
      BY <1>1 DEF IInv, BootInv
    <3> QED
      BY <3>1, <3>2, <3>3 DEF BootedOnce
  <2>2. BootRetryable
    <3> SUFFICES ASSUME Quiet, ~AnyMember, ~Excused({"stopped"}) PROVE ~claimed /\ users = {}
      BY DEF BootRetryable
    <3>1. \A r \in Requests : req[r].pc \notin Locking /\ req[r].pc \notin Making
      BY DEF Quiet, Locking, Making
    <3>2. ~claimed /\ \A p \in users : FALSE
      BY <1>1, <3>1 DEF IInv, BootInv
    <3> QED
      BY <3>2
  <2> QED
    BY <2>1, <2>2 DEF BootSound
<1> QED
  BY <1>1, Invariance, PTL

\* The tables are in order, and submissions at the same time leave at most one
\* open application (submit_application counts again after its insert).
THEOREM TablesInOrder == Spec => []TablesSound
<1>1. ASSUME IInv PROVE TablesSound
  <2>1. TypeOK
    <3>1. /\ member \in [Persons -> [role : Roles, active : BOOLEAN] \cup {NoRow}]
          /\ past \subseteq Events \X Persons /\ users \subseteq Persons /\ claimed \in BOOLEAN
      BY <1>1 DEF IInv, BaseInv, Typed, MemberRow
    <3>2. /\ \A x \in actions : HasRow(x.of) /\ x.type \in {"suspension", "ban"}
          /\ \A x, y \in actions : x.id = y.id => x = y
      BY <1>1 DEF IInv, ActionInv
    <3>3. /\ \A x \in apps : x.status \in Statuses
          /\ \A x, y \in apps : x.id = y.id \/ x.at = y.at => x = y
      BY <1>1 DEF IInv, AppInv
    <3> QED
      BY <3>1, <3>2, <3>3 DEF TypeOK
  <2>2. OneOpenApplication
    <3> SUFFICES ASSUME NEW p \in Persons, Quiet, ~Happened("stopped", p)
                 PROVE  count_open_applications(p) <= 1
      BY DEF OneOpenApplication
    <3> DEFINE open == {x \in AppsOf(p) : x.status \in Open}
    <3>1. \A x \in apps : ~Unsettled(x)
      BY DEF Quiet, Unsettled
    <3>2. \A x, y \in open : x = y
      BY <1>1, <3>1 DEF IInv, OpenInv, AppsOf
    <3>3. CASE open = {}
      BY <3>3, FS_EmptySet DEF count_open_applications
    <3>4. CASE open # {}
      <4>1. PICK x : x \in open
        BY <3>4
      <4>2. open = {x}
        BY <3>2, <4>1
      <4>3. Cardinality(open) = 1
        BY <4>2, FS_Singleton
      <4> QED
        BY <4>3 DEF count_open_applications
    <3> QED
      BY <3>3, <3>4
  <2> QED
    BY <2>1, <2>2 DEF TablesSound
<1> QED
  BY <1>1, Invariance, PTL

-----------------------------------------------------------------------------
(* An active recruit who applied has an application to show for it. *)

\* What RecruitsHaveCause excepts.
Pardoned(p) == \E e \in {"outrun", "rolled back", "activated", "stopped"} : Happened(e, p)

ActiveRecruit(p) == member[p] = [role |-> "recruit", active |-> TRUE]

Admitted == {"trial", "accepted"}

Admits(p) == \E x \in apps : x.user = p /\ x.status \in Admitted

\* A review that has provisioned p and has yet to swap the status, or one that
\* has ended p's application and has yet to take the membership away.
Answers(q, p) ==
    \/ q.pc \in {"promote", "cas"} /\ q.of = p /\ q.to \in Admitted
    \/ q.pc \in {"recruit?", "deactivate"} /\ q.of = p

\* A submission of p that was not refused for an active row.
Submits(q, p) ==
    \/ q.pc \in {"open?", "create"} /\ q.of = p
    \/ q.pc = "banned?" /\ q.of = p /\ q.active = FALSE

\* A recruit without an application came in some other way, and an active row
\* is refused another one.
Caused(p) ==
    ActiveRecruit(p) =>
        \/ Pardoned(p)
        \/ Admits(p)
        \/ \E r \in Requests : Answers(req[r], p)
        \/ AppsOf(p) = {} /\ \A r \in Requests : ~Submits(req[r], p)

\* No request makes a recruit of a member, and only a review that admits
\* provisions one.
Asks(q) ==
    /\ q.pc \in Moderating => q.job # ChangeRole("recruit")
    /\ q.pc \in Ensuring => q.to \in Admitted

RecruitInv ==
    /\ \A r \in Requests, p \in Persons : <<ChangeRole("recruit"), p>> \notin jobs[r]
    /\ \A r \in Requests : Asks(req[r])
    /\ \A p \in Persons : Caused(p)

\* What a step of r does for p: an active recruit was one or is answered for
\* by r; an application that admits stays or r answers for its end; r answers
\* on until p has one or is out; and nobody active begins to apply.
KeepsCause(r, p) ==
    /\ ActiveRecruit(p)' => ActiveRecruit(p) \/ Answers(req'[r], p)
    /\ Admits(p) => Admits(p)' \/ Answers(req'[r], p)
    /\ Answers(req[r], p) => Answers(req'[r], p) \/ Admits(p)' \/ ~ActiveRecruit(p)'
    /\ AppsOf(p) = {} => AppsOf(p)' = {} \/ Submits(req[r], p)
    /\ Submits(req'[r], p) => Submits(req[r], p) \/ ~ActiveRecruit(p)'

\* A step keeps RecruitInv if it does so for everybody.
LEMMA RecruitFrame ==
    ASSUME RecruitInv, NEW r \in Requests, Moved(r), jobs' = jobs, Asks(req'[r]),
           \A p \in Persons : Pardoned(p)' \/ KeepsCause(r, p)
    PROVE  RecruitInv'
<1>1. past \subseteq past' /\ Others(r)
  BY DEF Moved
<1>2. \A q \in Requests : Asks(req'[q])
  BY <1>1 DEF RecruitInv, Others
<1>3. ASSUME NEW p \in Persons PROVE Caused(p)'
  <2> SUFFICES ASSUME ActiveRecruit(p)', ~Pardoned(p)', KeepsCause(r, p)
               PROVE  \/ Admits(p)'
                      \/ \E q \in Requests : Answers(req'[q], p)
                      \/ AppsOf(p)' = {} /\ \A q \in Requests : ~Submits(req'[q], p)
    BY DEF Caused
  <2>1. CASE Answers(req'[r], p)
    BY <2>1
  <2>2. CASE ~Answers(req'[r], p)
    <3>1. ActiveRecruit(p) /\ ~Pardoned(p)
      BY <1>1, <2>2 DEF KeepsCause, Pardoned, Happened
    <3>2. CASE Admits(p)
      BY <2>2, <3>2 DEF KeepsCause
    <3>3. ASSUME NEW q \in Requests, Answers(req[q], p)
          PROVE  Admits(p)' \/ \E z \in Requests : Answers(req'[z], p)
      <4>1. CASE q = r
        BY <2>2, <3>3, <4>1 DEF KeepsCause
      <4>2. CASE q # r
        BY <1>1, <3>3, <4>2 DEF Others
      <4> QED
        BY <4>1, <4>2
    <3>4. CASE AppsOf(p) = {} /\ \A q \in Requests : ~Submits(req[q], p)
      <4>1. AppsOf(p)' = {} /\ ~Submits(req'[r], p)
        BY <3>4 DEF KeepsCause
      <4>2. \A q \in Requests : ~Submits(req'[q], p)
        BY <1>1, <3>4, <4>1 DEF Others
      <4> QED
        BY <4>1, <4>2
    <3>5. \/ Admits(p)
          \/ \E q \in Requests : Answers(req[q], p)
          \/ AppsOf(p) = {} /\ \A q \in Requests : ~Submits(req[q], p)
      BY <3>1 DEF RecruitInv, Caused
    <3> QED
      BY <3>2, <3>3, <3>4, <3>5
  <2> QED
    BY <2>1, <2>2
<1> QED
  BY <1>2, <1>3 DEF RecruitInv

\* The same for a step that leaves both tables alone.
LEMMA RecruitSame ==
    ASSUME RecruitInv, NEW r \in Requests, Moved(r), jobs' = jobs, Asks(req'[r]),
           member' = member, apps' = apps,
           \A p \in Persons :
              \/ Pardoned(p)'
              \/ /\ Answers(req[r], p) => Answers(req'[r], p) \/ ~ActiveRecruit(p)
                 /\ Submits(req'[r], p) => Submits(req[r], p) \/ ~ActiveRecruit(p)
    PROVE  RecruitInv'
<1>1. \A p \in Persons : /\ ActiveRecruit(p)' <=> ActiveRecruit(p)
                         /\ Admits(p)' <=> Admits(p)
                         /\ AppsOf(p)' = AppsOf(p)
  BY DEF ActiveRecruit, Admits, AppsOf
<1>2. \A p \in Persons : Pardoned(p)' \/ KeepsCause(r, p)
  BY <1>1 DEF KeepsCause
<1> QED
  BY <1>2, RecruitFrame

\* Who is at work on something else neither answers for anybody nor submits.
LEMMA AnswersNobody ==
    ASSUME NEW q, NEW p,
           q.pc \notin {"promote", "cas", "recruit?", "deactivate", "open?", "create", "banned?"}
    PROVE  ~Answers(q, p) /\ ~Submits(q, p)
BY DEF Answers, Submits

\* A request that is over asks for nothing.
LEMMA OverAsks ==
    ASSUME NEW q, q.pc \notin Moderating \cup Ensuring
    PROVE  Asks(q)
BY DEF Asks

\* A request of moderation keeps asking for what it was sent for.
LEMMA ModerationAsks ==
    ASSUME BaseInv, RecruitInv, NEW r \in Requests, ModerationStep(r)
    PROVE  Asks(req'[r]) /\ req'[r].pc \in {"over"} \cup Moderating
<1>1. ReqMap /\ "pc" \in DOMAIN req[r] /\ Asks(req[r])
  BY RequestFacts DEF RecruitInv
<1>2. CASE Answer(r)
  BY <1>1, <1>2, AnswerFacts, OverAsks DEF Moderating, Judging, Decided, Ensuring
<1>3. ASSUME Goto(r, "check") \/ Goto(r, "undo") \/ Goto(r, "row"), req[r].pc \in Moderating
      PROVE  Asks(req'[r]) /\ req'[r].pc \in Moderating
  <2>1. req'[r].job = req[r].job /\ req'[r].pc \in {"check", "undo", "row"}
    BY <1>1, <1>3, GotoFacts DEF SameLocals
  <2> QED
    BY <1>1, <1>3, <2>1 DEF Asks, Moderating, Decided, Ensuring
<1>4. ASSUME NEW me \in Persons, NEW of \in Persons, NEW job \in ModerationJobs,
             Authenticate(r, me, of, job)
      PROVE  Asks(req'[r]) /\ req'[r].pc \in Moderating
  <2>1. req'[r].pc \in {"lift", "load"} /\ req'[r].job = job
    BY <1>1, <1>4 DEF Authenticate, ReqMap
  <2>2. job # ChangeRole("recruit")
    BY <1>4 DEF Authenticate, MaySend, RecruitInv
  <2> QED
    BY <2>1, <2>2 DEF Asks, Moderating, Ensuring
<1>5. ASSUME LoadTarget(r) \/ CountAdmins(r) \/ Decide(r), ~Answer(r)
      PROVE  Asks(req'[r]) /\ req'[r].pc \in Moderating
  <2>1. req'[r].pc \in {"count", "decide", "write"} /\ req'[r].job = req[r].job
    BY <1>1, <1>5 DEF LoadTarget, CountAdmins, Decide, ReqMap
  <2>2. req[r].pc \in Moderating
    BY <1>5 DEF LoadTarget, CountAdmins, Decide, At, Moderating, Judging
  <2> QED
    BY <1>1, <2>1, <2>2 DEF Asks, Moderating, Judging, Decided, Ensuring
<1>6. req[r].pc \in {"write", "check"} => req[r].pc \in Moderating
  BY DEF Moderating, Decided
<1>7. CASE WriteAction(r) \/ WriteActive(r) \/ WriteRole(r)
  BY <1>2, <1>3, <1>6, <1>7 DEF WriteAction, WriteActive, WriteRole, At
<1>8. CASE CheckAgain(r) \/ CheckFails(r)
  BY <1>2, <1>3, <1>6, <1>8 DEF CheckAgain, CheckFails, At
<1>9. CASE WriteBan(r) \/ Undo(r) \/ LiftAction(r) \/ ModerationStops(r)
  BY <1>2, <1>9 DEF WriteBan, Undo, LiftAction, ModerationStops
<1> QED
  BY <1>2, <1>4, <1>5, <1>7, <1>8, <1>9 DEF ModerationStep

\* Moderation makes an active recruit only by an officer's activation: a role
\* is changed to another one, and a role put back is an admin's.
LEMMA ModerationRecruit ==
    ASSUME BaseInv, RecruitInv, NEW r \in Requests, ModerationStep(r), apps' = apps
    PROVE  RecruitInv'
<1>1. /\ Moved(r) /\ req[r].pc \in {"idle"} \cup Moderating
      /\ ReqMap /\ MemberMap /\ Asks(req[r])
  BY RequestFacts, ModerationMoves DEF RecruitInv
<1>2. Asks(req'[r]) /\ req'[r].pc \in {"over"} \cup Moderating
  BY ModerationAsks
<1>3. jobs' = jobs
  BY DEF ModerationStep, Authenticate, LoadTarget, CountAdmins, Decide, WriteAction, WriteActive,
         WriteRole, CheckAgain, WriteBan, Undo, LiftAction, ModerationStops, CheckFails
<1>4. \A p \in Persons : ~Answers(req[r], p) /\ ~Submits(req'[r], p)
  <2>1. /\ req[r].pc \notin {"promote", "cas", "recruit?", "deactivate", "open?", "create", "banned?"}
        /\ req'[r].pc \notin {"promote", "cas", "recruit?", "deactivate", "open?", "create", "banned?"}
    BY <1>1, <1>2 DEF Moderating, Judging, Decided
  <2> QED
    BY <2>1, AnswersNobody
<1>5. ASSUME \A p \in Persons : Pardoned(p)' \/ (ActiveRecruit(p)' => ActiveRecruit(p))
      PROVE  RecruitInv'
  <2>1. \A p \in Persons : (Admits(p)' <=> Admits(p)) /\ AppsOf(p)' = AppsOf(p)
    BY DEF Admits, AppsOf
  <2>2. \A p \in Persons : Pardoned(p)' \/ KeepsCause(r, p)
    BY <1>4, <1>5, <2>1 DEF KeepsCause
  <2> QED
    BY <1>1, <1>2, <1>3, <2>2, RecruitFrame
<1>6. CASE member' = member
  BY <1>5, <1>6 DEF ActiveRecruit
<1>7. ASSUME req[r].pc \in Decided
      PROVE  req[r].of \in Persons /\ HasRow(req[r].of)
  BY <1>7, WriteFacts
<1>8. CASE WriteActive(r)
  <2>1. PICK p \in Persons : p = req[r].of /\ HasRow(p)
    BY <1>7, <1>8 DEF WriteActive, At, Decided
  <2>2. PICK to \in BOOLEAN : to = (req[r].job = Activate) /\ SetActive(p, to)
    BY <1>8, <2>1 DEF WriteActive
  <2>3. member'[p].active = to /\ \A q \in Persons \ {p} : member'[q] = member[q]
    BY <1>1, <2>1, <2>2, SetActiveFacts
  <2>4. to => Pardoned(p)'
    BY <1>8, <2>1, <2>2 DEF WriteActive, Remember, Pardoned, Happened
  <2>5. ~to => ~ActiveRecruit(p)'
    BY <2>3 DEF ActiveRecruit
  <2> QED
    BY <1>5, <2>3, <2>4, <2>5 DEF ActiveRecruit
<1>9. CASE WriteRole(r) /\ member' # member
  <2>1. PICK p \in Persons : p = req[r].of /\ HasRow(p)
    BY <1>7, <1>9 DEF WriteRole, At, Decided
  <2>2. PICK to \in Roles : to = req[r].job.to /\ req[r].job = ChangeRole(to) /\ SetRole(p, to)
    BY <1>9, <2>1, WriteFacts, RoleJob DEF WriteRole, CasRole, At, Decided
  <2>3. to # "recruit"
    BY <1>1, <1>9, <2>2 DEF Asks, WriteRole, At, Moderating, Decided
  <2>4. member'[p].role = to /\ \A q \in Persons \ {p} : member'[q] = member[q]
    BY <1>1, <2>1, <2>2, SetRoleFacts
  <2> QED
    BY <1>5, <2>3, <2>4 DEF ActiveRecruit
<1>10. CASE Undo(r) /\ member' # member
  <2>1. PICK p \in Persons : p = req[r].of /\ HasRow(p)
    BY <1>7, <1>10 DEF Undo, At, Decided
  <2>2. req[r].target.role = "admin"
    <3>1. Shape(req[r]) /\ req[r].pc = "undo"
      BY <1>10, RequestFacts DEF Undo, At
    <3>2. req[r].pc \in Watching /\ req[r].pc \in Decided
      BY <3>1 DEF Watching, Decided
    <3> QED
      BY <3>1, <3>2 DEF Shape
  <2>3. CASE SetActive(p, TRUE) /\ Remember({<<"activated", p>>})
    <3>1. \A q \in Persons \ {p} : member'[q] = member[q]
      BY <1>1, <2>1, <2>3, SetActiveFacts
    <3>2. Pardoned(p)'
      BY <2>3 DEF Remember, Pardoned, Happened
    <3> QED
      BY <1>5, <3>1, <3>2 DEF ActiveRecruit
  <2>4. CASE SetRole(p, "admin")
    <3>1. member'[p].role = "admin" /\ \A q \in Persons \ {p} : member'[q] = member[q]
      BY <1>1, <2>1, <2>4, SetRoleFacts DEF Roles
    <3> QED
      BY <1>5, <3>1 DEF ActiveRecruit
  <2> QED
    BY <1>10, <2>1, <2>2, <2>3, <2>4 DEF Undo, CasRole
<1> QED
  BY <1>6, <1>8, <1>9, <1>10 DEF ModerationStep, Authenticate, LoadTarget, CountAdmins, Decide,
     WriteAction, CheckAgain, WriteBan, LiftAction, ModerationStops, CheckFails

\* Set-up makes an admin, and nobody else.
LEMMA BootRecruit ==
    ASSUME BaseInv, RecruitInv, NEW r \in Requests, BootStep(r), apps' = apps
    PROVE  RecruitInv'
<1>1. /\ Moved(r) /\ req[r].pc \in {"idle", "claim"} \cup Locking
      /\ ReqMap /\ "pc" \in DOMAIN req[r] /\ MemberMap /\ Shape(req[r])
  BY RequestFacts, BootMoves
<1>2. req'[r].pc \in {"over", "claim"} \cup Locking
  BY BootStays
<1>3. jobs' = jobs
  BY DEF BootStep, SetupLooks, SetupClaims, SetupCreatesUser, SetupCreatesAdmin, LooksBeforeDelete,
     DropsUser, LooksBeforeRelease, ReleasesLock, SetupFails, SetupTimesOut, SetupStops
<1>4. Asks(req'[r]) /\ \A p \in Persons : ~Answers(req[r], p) /\ ~Submits(req'[r], p)
  <2>1. /\ req[r].pc \notin {"promote", "cas", "recruit?", "deactivate", "open?", "create", "banned?"}
        /\ req'[r].pc \notin {"promote", "cas", "recruit?", "deactivate", "open?", "create", "banned?"}
        /\ req'[r].pc \notin Moderating \cup Ensuring
    BY <1>1, <1>2 DEF Locking, Moderating, Judging, Decided, Ensuring
  <2> QED
    BY <2>1, AnswersNobody, OverAsks
<1>5. \A p \in Persons : ActiveRecruit(p)' => ActiveRecruit(p)
  <2>1. CASE member' = member
    BY <2>1 DEF ActiveRecruit
  <2>2. CASE CreateMember(req[r].of, "admin")
    <3>1. PICK p : p = req[r].of
      OBVIOUS
    <3>2. member' = [member EXCEPT ![p] = [role |-> "admin", active |-> TRUE]]
      BY <2>2, <3>1 DEF CreateMember
    <3> QED
      BY <1>1, <3>2 DEF ActiveRecruit, MemberMap
  <2> QED
    BY <2>1, <2>2 DEF BootStep, SetupLooks, SetupClaims, SetupCreatesUser, SetupCreatesAdmin,
       LooksBeforeDelete, DropsUser, LooksBeforeRelease, ReleasesLock, SetupFails, SetupTimesOut,
       SetupStops
<1>6. \A p \in Persons : (Admits(p)' <=> Admits(p)) /\ AppsOf(p)' = AppsOf(p)
  BY DEF Admits, AppsOf
<1>7. \A p \in Persons : KeepsCause(r, p)
  BY <1>4, <1>5, <1>6 DEF KeepsCause
<1> QED
  BY <1>1, <1>3, <1>4, <1>7, RecruitFrame

\* Only a submission that was not refused creates an application.
LEMMA CreateApplicationRecruit ==
    ASSUME BaseInv, AppInv, RecruitInv, NEW r \in Requests, CreateApplication(r)
    PROVE  RecruitInv'
<1>1. Moved(r) /\ ReqMap /\ "pc" \in DOMAIN req[r]
  BY RequestFacts, ApplicationMoves DEF ApplicationMove
<1>2. /\ req[r].pc = "create" /\ member' = member /\ jobs' = jobs
      /\ req'[r].pc = "recount" /\ req'[r].of = req[r].of
  BY <1>1, GotoFacts DEF CreateApplication, At, SameLocals
<1>3. PICK new : /\ new = [id |-> r, user |-> req[r].of, status |-> "pending", at |-> CreatedAt]
                 /\ apps' = apps \cup {new}
  BY DEF CreateApplication
<1>4. Asks(req'[r]) /\ \A p \in Persons : ~Answers(req[r], p) /\ ~Submits(req'[r], p)
  <2>1. req'[r].pc \notin Moderating \cup Ensuring
    BY <1>2 DEF Moderating, Judging, Decided, Ensuring
  <2> QED
    BY <1>2, <2>1, OverAsks DEF Answers, Submits
<1>5. ASSUME NEW p \in Persons PROVE KeepsCause(r, p)
  <2>1. ActiveRecruit(p)' <=> ActiveRecruit(p)
    BY <1>2 DEF ActiveRecruit
  <2>2. Admits(p) => Admits(p)'
    BY <1>3 DEF Admits
  <2>3. AppsOf(p) = {} => AppsOf(p)' = {} \/ Submits(req[r], p)
    <3>1. CASE req[r].of = p
      BY <1>2, <3>1 DEF Submits
    <3>2. CASE req[r].of # p
      BY <1>3, <3>2 DEF AppsOf
    <3> QED
      BY <3>1, <3>2
  <2> QED
    BY <1>4, <2>1, <2>2, <2>3 DEF KeepsCause
<1> QED
  BY <1>1, <1>2, <1>4, <1>5, RecruitFrame

\* An application that is taken back was pending, or its end is on record.
LEMMA DeleteApplicationRecruit ==
    ASSUME BaseInv, AppInv, RecruitInv, NEW r \in Requests, DeleteApplication(r)
    PROVE  RecruitInv'
<1>1. Moved(r) /\ ReqMap
  BY RequestFacts, ApplicationMoves DEF ApplicationMove
<1>2. req[r].pc = "delete" /\ member' = member /\ jobs' = jobs /\ req'[r].pc = "over"
  BY <1>1, AnswerFacts DEF DeleteApplication, At
<1>3. apps' = {x \in apps : x.id # r}
  BY DEF DeleteApplication
<1>4. Asks(req'[r]) /\ \A p \in Persons : ~Answers(req[r], p) /\ ~Submits(req'[r], p)
  <2>1. req'[r].pc \notin Moderating \cup Ensuring
    BY <1>2 DEF Moderating, Judging, Decided, Ensuring
  <2> QED
    BY <1>2, <2>1, OverAsks, AnswersNobody
<1>5. ASSUME NEW p \in Persons PROVE Pardoned(p)' \/ KeepsCause(r, p)
  <2>1. ActiveRecruit(p)' <=> ActiveRecruit(p)
    BY <1>2 DEF ActiveRecruit
  <2>2. AppsOf(p) = {} => AppsOf(p)' = {}
    BY <1>3 DEF AppsOf
  <2>3. CASE Admits(p) => Admits(p)'
    BY <1>4, <2>1, <2>2, <2>3 DEF KeepsCause
  <2>4. CASE Admits(p) /\ ~Admits(p)'
    <3>1. PICK x \in apps : x.user = p /\ x.status \in Admitted
      BY <2>4 DEF Admits
    <3>2. x.id = r
      BY <1>3, <2>4, <3>1 DEF Admits
    <3>3. StatusOf(r) # "pending" /\ req[r].of = p
      BY <1>2, <3>1, <3>2, StatusOfFacts DEF Admitted, AppInv, Unsettled
    <3>4. Remember({<<"rolled back", p>>})
      BY <3>3 DEF DeleteApplication
    <3> QED
      BY <3>4 DEF Remember, Pardoned, Happened
  <2> QED
    BY <2>3, <2>4
<1> QED
  BY <1>1, <1>2, <1>4, <1>5, RecruitFrame

\* A swap that succeeds leaves an application that admits, or a request that
\* will take the membership away; one that is overtaken is on record.
LEMMA SwapStatusRecruit ==
    ASSUME BaseInv, AppInv, AcceptInv, RecruitInv, NEW r \in Requests, SwapStatus(r)
    PROVE  RecruitInv'
<1>1. /\ Shape(req[r]) /\ ReqMap /\ "pc" \in DOMAIN req[r] /\ req[r].pc = "cas"
      /\ Moved(r) /\ member' = member /\ jobs' = jobs /\ Accepts(req[r])
  BY RequestFacts, ApplicationMoves DEF SwapStatus, At, ApplicationMove, AcceptInv
<1>2. PICK id, from, to, of : /\ id = req[r].app /\ from = req[r].from /\ to = req[r].to
                              /\ of = req[r].of
  OBVIOUS
<1>3. from \in Open /\ to \in Admitted \cup Ended /\ of \in Persons
  BY <1>1, <1>2 DEF Shape, Admitted, Ended, ApplicationSteps
<1>4. /\ req'[r].pc \in {"over", "recruit?"}
      /\ req'[r].pc = "recruit?" => req'[r].of = of
  <2>1. CASE Answer(r)
    BY <1>1, <2>1, AnswerFacts
  <2>2. CASE Goto(r, "recruit?")
    BY <1>1, <1>2, <2>2, GotoFacts DEF SameLocals
  <2> QED
    BY <2>1, <2>2 DEF SwapStatus
<1>5. Asks(req'[r]) /\ \A p \in Persons : ~Submits(req'[r], p)
  <2>1. req'[r].pc \notin Moderating \cup Ensuring
    BY <1>4 DEF Moderating, Judging, Decided, Ensuring
  <2> QED
    BY <1>4, <2>1, OverAsks DEF Submits
<1>6. CASE apps' = apps /\ StatusOf(id) # from /\ Answer(r)
  <2>1. ASSUME NEW p \in Persons, Answers(req[r], p) PROVE Pardoned(p)'
    <3>1. p = of /\ to \in {"trial", "accepted"}
      BY <1>1, <1>2, <2>1 DEF Answers, Admitted
    <3>2. Remember({<<"outrun", of>>})
      BY <1>2, <1>6, <3>1 DEF SwapStatus, CasStatus
    <3> QED
      BY <3>1, <3>2 DEF Remember, Pardoned, Happened
  <2> QED
    BY <1>1, <1>5, <1>6, <2>1, RecruitSame
<1>7. CASE /\ CasStatus(id, from, to)
           /\ IF to \in {"rejected", "withdrawn"} THEN Goto(r, "recruit?") ELSE Answer(r)
  <2>1. /\ \A y \in apps' : \E x \in apps : Became(x, y, id, from, to)
        /\ \A x \in apps : \E y \in apps' : Became(x, y, id, from, to)
    BY <1>7, SwapFacts
  <2>2. PICK x \in apps : x.id = id
    <3>1. StatusOf(id) \in Open
      BY <1>3, <1>7 DEF CasStatus
    <3> QED
      BY <3>1, StatusOfFacts DEF Open
  <2>3. x.user = of
    BY <1>1, <1>2, <2>2 DEF Accepts, Reviewing
  <2>4. PICK y \in apps' : Became(x, y, id, from, to)
    BY <2>1
  <2>5. y.user = of /\ y.status = to
    BY <2>2, <2>3, <2>4 DEF Became
  <2>6. to \in Ended => Answers(req'[r], of)
    <3>1. to \in Ended => Goto(r, "recruit?")
      BY <1>7 DEF Ended
    <3>2. to \in Ended => req'[r].pc = "recruit?" /\ req'[r].of = of
      BY <1>1, <1>2, <3>1, GotoFacts DEF SameLocals
    <3> QED
      BY <3>2 DEF Answers
  <2>7. to \in Admitted => Admits(of)'
    BY <2>5 DEF Admits
  <2>8. ASSUME NEW p \in Persons PROVE KeepsCause(r, p)
    <3>1. ActiveRecruit(p)' <=> ActiveRecruit(p)
      BY <1>1 DEF ActiveRecruit
    <3>2. Admits(p) => Admits(p)' \/ Answers(req'[r], p)
      <4> SUFFICES ASSUME NEW v \in apps, v.user = p, v.status \in Admitted
                   PROVE  Admits(p)' \/ Answers(req'[r], p)
        BY DEF Admits
      <4>1. PICK w \in apps' : Became(v, w, id, from, to)
        BY <2>1
      <4>2. CASE v.id = id
        <5>1. v = x
          BY <2>2, <4>2 DEF AppInv
        <5> QED
          BY <1>3, <2>3, <2>6, <2>7, <5>1
      <4>3. CASE v.id # id
        BY <4>1, <4>3 DEF Became, Admits
      <4> QED
        BY <4>2, <4>3
    <3>3. Answers(req[r], p) => Admits(p)'
      BY <1>1, <1>2, <2>7 DEF Answers
    <3>4. AppsOf(p) = {} => AppsOf(p)' = {}
      BY <2>1 DEF AppsOf, Became
    <3> QED
      BY <1>5, <3>1, <3>2, <3>3, <3>4 DEF KeepsCause
  <2> QED
    BY <1>1, <1>5, <2>8, RecruitFrame
<1> QED
  BY <1>2, <1>6, <1>7 DEF SwapStatus

\* A review that provisions answers for the member it makes active.
LEMMA EnsureRecruit ==
    ASSUME BaseInv, AppInv, RecruitInv, NEW r \in Requests,
           \/ EnsureLoads(r) \/ EnsureChecksBan(r) \/ EnsureActivates(r)
           \/ EnsurePromotes(r) \/ EnsureCreates(r)
    PROVE  RecruitInv'
<1>1. /\ Shape(req[r]) /\ Sees(req[r]) /\ ReqMap /\ "pc" \in DOMAIN req[r] /\ MemberMap
      /\ Moved(r) /\ Asks(req[r])
  BY RequestFacts, ApplicationMoves DEF ApplicationMove, RecruitInv
<1>2. apps' = apps /\ jobs' = jobs
  BY DEF EnsureLoads, EnsureChecksBan, EnsureActivates, EnsurePromotes, EnsureCreates
<1>3. req[r].pc \in Ensuring
  BY DEF EnsureLoads, EnsureChecksBan, EnsureActivates, EnsurePromotes, EnsureCreates, At, Ensuring
<1>4. PICK p \in Persons : p = req[r].of
  BY <1>1, <1>3 DEF Shape, Ensuring
<1>5. req[r].to \in Admitted
  BY <1>1, <1>3 DEF Asks
<1>6. ASSUME req'[r].pc \in {"ban check", "new member", "reactivate", "promote", "cas"},
             req'[r].of = p, req'[r].to = req[r].to,
             \A q \in Persons \ {p} : member'[q] = member[q],
             member'[p] = member[p] \/ req'[r].pc \in {"promote", "cas"},
             req[r].pc # "promote" \/ req'[r].pc = "cas"
      PROVE  RecruitInv'
  <2>1. Asks(req'[r])
    BY <1>5, <1>6 DEF Asks, Moderating, Judging, Decided
  <2>2. \A q \in Persons : ~Submits(req'[r], q)
    BY <1>6 DEF Submits
  <2>3. req'[r].pc \in {"promote", "cas"} => Answers(req'[r], p)
    BY <1>5, <1>6 DEF Answers
  <2>4. ASSUME NEW q \in Persons PROVE KeepsCause(r, q)
    <3>1. ActiveRecruit(q)' => ActiveRecruit(q) \/ Answers(req'[r], q)
      BY <1>6, <2>3 DEF ActiveRecruit
    <3>2. (Admits(q)' <=> Admits(q)) /\ AppsOf(q)' = AppsOf(q)
      BY <1>2 DEF Admits, AppsOf
    <3>3. Answers(req[r], q) => Answers(req'[r], q)
      BY <1>3, <1>4, <1>6, <2>3 DEF Answers, Ensuring
    <3> QED
      BY <2>2, <3>1, <3>2, <3>3 DEF KeepsCause
  <2> QED
    BY <1>1, <1>2, <2>1, <2>4, RecruitFrame
<1>7. ASSUME Answer(r), member' = member, req[r].pc # "promote"
      PROVE  RecruitInv'
  <2>1. req'[r].pc = "over"
    BY <1>1, <1>7, AnswerFacts
  <2>2. Asks(req'[r]) /\ \A q \in Persons : ~Submits(req'[r], q)
    BY <2>1, OverAsks, AnswersNobody DEF Moderating, Judging, Decided, Ensuring
  <2>3. \A q \in Persons : ~Answers(req[r], q)
    BY <1>3, <1>7 DEF Ensuring, Answers
  <2> QED
    BY <1>1, <1>2, <1>7, <2>2, <2>3, RecruitSame
<1>8. CASE EnsureLoads(r)
  <2>1. req'[r].pc \in {"ban check", "new member"} /\ req'[r].of = req[r].of /\ req'[r].to = req[r].to
    BY <1>1, <1>8 DEF EnsureLoads, ReqMap
  <2>2. member' = member /\ req[r].pc # "promote"
    BY <1>8 DEF EnsureLoads, At
  <2> QED
    BY <1>4, <1>6, <2>1, <2>2
<1>9. CASE EnsureChecksBan(r) /\ ~Answer(r)
  <2>1. req'[r].of = req[r].of /\ req'[r].to = req[r].to
    BY <1>1, <1>9, EnsureChecksBanFacts
  <2>2. req'[r].pc \in {"reactivate", "promote", "cas"}
    BY <1>1, <1>9, EnsureChecksBanFacts, AfterActiveFacts
  <2>3. member' = member /\ req[r].pc # "promote"
    BY <1>9 DEF EnsureChecksBan, At
  <2> QED
    BY <1>4, <1>6, <2>1, <2>2, <2>3
<1>10. CASE EnsureActivates(r)
  <2>1. HasRow(p) /\ SetActive(p, TRUE) /\ req[r].pc # "promote"
    BY <1>1, <1>4, <1>10 DEF EnsureActivates, At, Sees
  <2>2. \A q \in Persons \ {p} : member'[q] = member[q]
    BY <1>1, <2>1, SetActiveFacts
  <2>3. PICK pc \in {"promote", "cas"} : Goto(r, pc)
    BY <1>10, AfterActiveFacts DEF EnsureActivates
  <2>4. req'[r].pc = pc /\ req'[r].of = req[r].of /\ req'[r].to = req[r].to
    BY <1>1, <2>3, GotoFacts DEF SameLocals
  <2> QED
    BY <1>4, <1>6, <2>1, <2>2, <2>4
<1>11. CASE EnsurePromotes(r)
  <2>1. HasRow(p) /\ SetRole(p, DesiredRole(req[r])) /\ DesiredRole(req[r]) \in Roles
    BY <1>1, <1>4, <1>11, DesiredRoleFacts DEF EnsurePromotes, At, Sees, Roles
  <2>2. \A q \in Persons \ {p} : member'[q] = member[q]
    BY <1>1, <2>1, SetRoleFacts
  <2>3. req'[r].pc = "cas" /\ req'[r].of = req[r].of /\ req'[r].to = req[r].to
    BY <1>1, <1>11, GotoFacts DEF EnsurePromotes, SameLocals
  <2> QED
    BY <1>4, <1>6, <2>2, <2>3
<1>12. CASE EnsureCreates(r) /\ ~HasRow(p)
  <2>1. CreateMember(p, DesiredRole(req[r])) /\ DesiredRole(req[r]) \in Roles /\ Goto(r, "cas")
    BY <1>4, <1>12, DesiredRoleFacts DEF EnsureCreates, Roles
  <2>2. \A q \in Persons \ {p} : member'[q] = member[q]
    BY <1>1, <2>1, CreateMemberFacts
  <2>3. req'[r].pc = "cas" /\ req'[r].of = req[r].of /\ req'[r].to = req[r].to
    BY <1>1, <2>1, GotoFacts DEF SameLocals
  <2> QED
    BY <1>4, <1>6, <2>2, <2>3
<1>13. CASE EnsureCreates(r) /\ HasRow(p)
  BY <1>4, <1>7, <1>13 DEF EnsureCreates, At
<1>14. CASE EnsureChecksBan(r) /\ Answer(r)
  BY <1>7, <1>14 DEF EnsureChecksBan, At
<1> QED
  BY <1>8, <1>9, <1>10, <1>11, <1>12, <1>13, <1>14

\* The recruit whose application has ended is out.
LEMMA DropRecruitRecruit ==
    ASSUME BaseInv, RecruitInv, NEW r \in Requests, DropRecruit(r)
    PROVE  RecruitInv'
<1>1. /\ Shape(req[r]) /\ Sees(req[r]) /\ ReqMap /\ MemberMap /\ Moved(r)
      /\ req[r].pc = "deactivate" /\ apps' = apps /\ jobs' = jobs
  BY RequestFacts, ApplicationMoves DEF ApplicationMove, DropRecruit, At
<1>2. PICK p \in Persons : p = req[r].of /\ HasRow(p)
  BY <1>1 DEF Shape, Sees, ApplicationSteps
<1>3. member'[p].active = FALSE /\ \A q \in Persons \ {p} : member'[q] = member[q]
  BY <1>1, <1>2, SetActiveFacts DEF DropRecruit
<1>4. req'[r].pc = "over"
  BY <1>1, AnswerFacts DEF DropRecruit
<1>5. Asks(req'[r]) /\ \A q \in Persons : ~Submits(req'[r], q)
  BY <1>4, OverAsks, AnswersNobody DEF Moderating, Judging, Decided, Ensuring
<1>6. ASSUME NEW q \in Persons PROVE KeepsCause(r, q)
  <2>1. ActiveRecruit(q)' => ActiveRecruit(q)
    BY <1>3 DEF ActiveRecruit
  <2>2. Answers(req[r], q) => ~ActiveRecruit(q)'
    BY <1>1, <1>2, <1>3 DEF Answers, ActiveRecruit
  <2>3. (Admits(q)' <=> Admits(q)) /\ AppsOf(q)' = AppsOf(q)
    BY <1>1 DEF Admits, AppsOf
  <2> QED
    BY <1>5, <2>1, <2>2, <2>3 DEF KeepsCause
<1> QED
  BY <1>1, <1>5, <1>6, RecruitFrame

\* The handlers of applications answer for every recruit they leave.
LEMMA ApplicationRecruit ==
    ASSUME BaseInv, AppInv, AcceptInv, RecruitInv, NEW r \in Requests, ApplicationMove(r)
    PROVE  RecruitInv'
<1>1. /\ Shape(req[r]) /\ ReqMap /\ "pc" \in DOMAIN req[r] /\ Moved(r) /\ MemberMap
  BY RequestFacts, ApplicationMoves
<1>2. jobs' = jobs
  BY DEF ApplicationMove, SubmitLoads, WithdrawLoads, ReviewLoads, SubmitChecksBan,
         SubmitChecksOpen, CreateApplication, CountOpen, DeleteApplication, EnsureLoads,
         EnsureChecksBan, EnsureActivates, EnsurePromotes, EnsureCreates, SwapStatus,
         FindRecruit, DropRecruit, ApplicationStops
<1>3. ASSUME member' = member, apps' = apps, Answer(r),
             \A p \in Persons : Answers(req[r], p) => Pardoned(p)' \/ ~ActiveRecruit(p)
      PROVE  RecruitInv'
  <2>1. req'[r].pc = "over"
    BY <1>1, <1>3, AnswerFacts
  <2>2. Asks(req'[r]) /\ \A p \in Persons : ~Submits(req'[r], p)
    BY <2>1, OverAsks, AnswersNobody DEF Moderating, Judging, Decided, Ensuring
  <2> QED
    BY <1>1, <1>2, <1>3, <2>2, RecruitSame
<1>4. CASE \E p \in Persons : SubmitLoads(r, p)
  <2>1. PICK p \in Persons : SubmitLoads(r, p)
    BY <1>4
  <2>2. PICK new : /\ new = [pc |-> IF HasRow(p) THEN "banned?" ELSE "open?",
                             of |-> p, active |-> member[p].active]
                   /\ req'[r] = new
    BY <1>1, <2>1 DEF SubmitLoads, ReqMap
  <2>3. new.of = p /\ new.active = member[p].active /\ new.pc \in {"banned?", "open?"}
    BY <2>2
  <2>4. HasRow(p) => new.pc = "banned?"
    BY <2>2
  <2>5. ActiveRecruit(p) => HasRow(p) /\ member[p].active = TRUE
    BY DEF ActiveRecruit, HasRow, NoRow
  <2>6. \A q \in Persons : Submits(new, q) => ~ActiveRecruit(q)
    BY <2>3, <2>4, <2>5 DEF Submits
  <2>7. Asks(new)
    BY <2>3, OverAsks DEF Moderating, Judging, Decided, Ensuring
  <2>8. member' = member /\ apps' = apps /\ req[r].pc = "idle"
    BY <2>1 DEF SubmitLoads, MaySend, At
  <2>9. \A q \in Persons : ~Answers(req[r], q)
    BY <2>8, AnswersNobody
  <2> QED
    BY <1>1, <1>2, <2>2, <2>6, <2>7, <2>8, <2>9, RecruitSame
<1>5. CASE \/ \E p \in Persons : WithdrawLoads(r, p)
           \/ \E me \in Persons, x \in apps, to \in {"trial", "accepted", "rejected", "withdrawn"} :
                 ReviewLoads(r, me, x, to)
  <2>1. req[r].pc = "idle" /\ member' = member /\ apps' = apps
    BY <1>5 DEF WithdrawLoads, ReviewLoads, MaySend, At
  <2>2. PICK x, to : Transition(r, x, to)
    BY <1>5 DEF WithdrawLoads, ReviewLoads
  <2>3. req'[r].pc = Enter(to) /\ req'[r].to = to
    BY <1>1, <2>2, TransitionFacts
  <2>4. req'[r].pc = "cas" \/ (req'[r].pc = "ensure" /\ req'[r].to \in Admitted)
    BY <2>3 DEF Enter, Admitted
  <2>5. Asks(req'[r]) /\ \A p \in Persons : ~Submits(req'[r], p)
    BY <2>4 DEF Asks, Submits, Moderating, Judging, Decided, Ensuring
  <2>6. \A p \in Persons : ~Answers(req[r], p)
    BY <2>1, AnswersNobody
  <2> QED
    BY <1>1, <1>2, <2>1, <2>5, <2>6, RecruitSame
<1>6. CASE SubmitChecksBan(r) \/ SubmitChecksOpen(r) \/ CountOpen(r)
  <2>1. /\ member' = member /\ apps' = apps
        /\ req[r].pc \in {"banned?", "open?", "recount"}
    BY <1>6 DEF SubmitChecksBan, SubmitChecksOpen, CountOpen, At
  <2>2. \A p \in Persons : ~Answers(req[r], p)
    BY <2>1 DEF Answers
  <2>3. CASE Answer(r)
    BY <1>3, <2>1, <2>2, <2>3
  <2>4. ASSUME NEW pc \in {"open?", "create", "delete"}, Goto(r, pc),
               pc = "open?" => req[r].pc = "banned?" /\ ~req[r].active,
               pc = "create" => req[r].pc = "open?"
        PROVE  RecruitInv'
    <3>1. req'[r].pc = pc /\ req'[r].of = req[r].of
      BY <1>1, <2>4, GotoFacts DEF SameLocals
    <3>2. Asks(req'[r])
      BY <3>1, OverAsks DEF Moderating, Judging, Decided, Ensuring
    <3>3. \A p \in Persons : Submits(req'[r], p) => Submits(req[r], p) \/ ~ActiveRecruit(p)
      BY <2>4, <3>1 DEF Submits
    <3> QED
      BY <1>1, <1>2, <2>1, <2>2, <3>2, <3>3, RecruitSame
  <2> QED
    BY <1>6, <2>3, <2>4 DEF SubmitChecksBan, SubmitChecksOpen, CountOpen, At
<1>7. CASE FindRecruit(r)
  <2>1. req[r].pc = "recruit?" /\ member' = member /\ apps' = apps
    BY <1>7 DEF FindRecruit, At
  <2>2. CASE Answer(r) /\ ~(member[req[r].of].active /\ member[req[r].of].role = "recruit")
    <3>1. \A p \in Persons : Answers(req[r], p) => ~ActiveRecruit(p)
      BY <2>1, <2>2 DEF Answers, ActiveRecruit
    <3> QED
      BY <1>3, <2>1, <2>2, <3>1
  <2>3. CASE Goto(r, "deactivate")
    <3>1. req'[r].pc = "deactivate" /\ req'[r].of = req[r].of
      BY <1>1, <2>3, GotoFacts DEF SameLocals
    <3>2. Asks(req'[r]) /\ \A p \in Persons : ~Submits(req'[r], p)
      BY <3>1, OverAsks DEF Submits, Moderating, Judging, Decided, Ensuring
    <3>3. \A p \in Persons : Answers(req[r], p) => Answers(req'[r], p)
      BY <2>1, <3>1 DEF Answers
    <3> QED
      BY <1>1, <1>2, <2>1, <3>2, <3>3, RecruitSame
  <2> QED
    BY <1>7, <2>2, <2>3 DEF FindRecruit
<1>8. CASE ApplicationStops(r)
  <2>1. member' = member /\ apps' = apps /\ Answer(r)
    BY <1>8 DEF ApplicationStops
  <2>2. ASSUME NEW p \in Persons, Answers(req[r], p) PROVE Pardoned(p)'
    <3>1. req[r].of = p /\ req[r].pc \in {"promote", "cas", "recruit?", "deactivate"}
      BY <2>2 DEF Answers
    <3>2. Remember({<<"stopped", p>>})
      BY <1>8, <3>1 DEF ApplicationStops
    <3> QED
      BY <3>2 DEF Remember, Pardoned, Happened
  <2> QED
    BY <1>3, <2>1, <2>2
<1> QED
  BY <1>4, <1>5, <1>6, <1>7, <1>8, CreateApplicationRecruit, DeleteApplicationRecruit,
     SwapStatusRecruit, EnsureRecruit, DropRecruitRecruit DEF ApplicationMove

\* What the theorem below asks of the tables and of the requests to come: an
\* active recruit who applied is on trial or accepted, and no admin asks for
\* somebody to be made a recruit, which says nothing of applications.
RecruitsAtRest ==
    \A s \in Scenes :
        /\ \A p \in Persons :
              (s.member[p] = [role |-> "recruit", active |-> TRUE] /\ \E x \in s.apps : x.user = p)
                  => \E x \in s.apps : x.user = p /\ x.status \in {"trial", "accepted"}
        /\ \A r \in Requests, p \in Persons : <<ChangeRole("recruit"), p>> \notin s.jobs[r]

\* Whatever reviews, withdrawals, submissions and admins do at the same time,
\* an active recruit who applied has an application in trial or accepted once
\* the requests are over (apply_application_transition deactivates the recruit
\* after it has ended the application), but for what is on record.
THEOREM RecruitsCaused ==
    ASSUME RecruitsAtRest
    PROVE  Spec => []RecruitsHaveCause
<1>1. Init => RecruitInv
  <2> SUFFICES ASSUME Init PROVE RecruitInv
    OBVIOUS
  <2>1. PICK s \in Scenes : jobs = s.jobs /\ member = s.member /\ apps = s.apps
    BY DEF Init
  <2>2. \A r \in Requests : req[r] = Idle /\ req[r].pc = "idle"
    BY DEF Init, Idle
  <2>3. \A r \in Requests : Asks(req[r]) /\ \A p \in Persons : ~Submits(req[r], p)
    BY <2>2, OverAsks, AnswersNobody DEF Moderating, Judging, Decided, Ensuring
  <2>4. ASSUME NEW p \in Persons PROVE Caused(p)
    <3>1. CASE AppsOf(p) = {}
      BY <2>3, <3>1 DEF Caused
    <3>2. CASE AppsOf(p) # {}
      BY <2>1, <3>2 DEF AppsOf, RecruitsAtRest, Caused, ActiveRecruit, Admits, Admitted
    <3> QED
      BY <3>1, <3>2
  <2>5. \A r \in Requests, p \in Persons : <<ChangeRole("recruit"), p>> \notin jobs[r]
    BY <2>1 DEF RecruitsAtRest
  <2> QED
    BY <2>3, <2>4, <2>5 DEF RecruitInv
<1>2. IInv /\ RecruitInv /\ [Next]_vars => RecruitInv'
  <2> SUFFICES ASSUME IInv, RecruitInv, [Next]_vars PROVE RecruitInv'
    OBVIOUS
  <2>1. BaseInv /\ AppInv /\ AcceptInv
    BY DEF IInv
  <2>2. CASE ModerationNext /\ UNCHANGED <<apps, users, claimed>>
    BY <2>1, <2>2, ModerationRecruit DEF ModerationNext, ModerationStep
  <2>3. CASE ApplicationNext
    BY <2>1, <2>3, ApplicationRecruit DEF ApplicationNext, ApplicationMove
  <2>4. CASE BootNext /\ UNCHANGED apps
    BY <2>1, <2>4, BootRecruit DEF BootNext, BootStep
  <2>5. CASE UNCHANGED vars
    BY <2>5 DEF vars, tableVars, RecruitInv, Caused, ActiveRecruit, Pardoned, Happened, Admits, AppsOf
  <2> QED
    BY <2>2, <2>3, <2>4, <2>5 DEF Next
<1>3. RecruitInv => RecruitsHaveCause
  <2> SUFFICES ASSUME RecruitInv, NEW p \in Persons, Quiet, AppsOf(p) # {}, ActiveRecruit(p)
               PROVE  Admits(p) \/ Pardoned(p)
    BY DEF RecruitsHaveCause, ActiveRecruit, Admits, Admitted, Pardoned, AppsOf
  <2>1. \A r \in Requests : ~Answers(req[r], p)
    BY DEF Quiet, Answers
  <2> QED
    BY <2>1 DEF RecruitInv, Caused
<1> QED
  BY <1>1, <1>2, <1>3, Invariance, PTL DEF Spec
=============================================================================
