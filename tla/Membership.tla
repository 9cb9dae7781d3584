----------------------------- MODULE Membership -----------------------------
(***************************************************************************)
(* Who belongs to the organisation and who can run it: moderation,         *)
(* applications and first-boot set-up at work on one member table.         *)
(***************************************************************************)
EXTENDS Moderation, Applications, FirstBoot

CONSTANT Scenes  \* starting tables, with the requests that may be sent

\* Tables of a site at rest: rows are about members, a banned member is not
\* active and an accepted one is, nobody has two applications open, and a
\* site with members has an admin who can act.  The ids in them are not those
\* of requests to come.
AtRest(s) ==
    /\ s.member \in [Persons -> [role : Roles, active : BOOLEAN] \cup {NoRow}]
    /\ \A x \in s.actions :
          /\ x.of \in Persons /\ s.member[x.of] # NoRow
          /\ x.type \in {"suspension", "ban"}
          /\ x.type = "ban" => ~s.member[x.of].active
          /\ x.id \notin Requests
    /\ \A x, y \in s.actions : x.id = y.id => x = y
    /\ IsFiniteSet(s.apps)
    /\ s.apps \subseteq [id : {x.id : x \in s.apps}, user : Persons, status : Statuses, at : Nat]
    /\ \A x \in s.apps :
          /\ x.id \notin Requests \cup {"none"}
          /\ x.status = "accepted" => s.member[x.user].active
    /\ \A x, y \in s.apps :
          /\ x.id = y.id \/ x.at = y.at => x = y
          /\ x.user = y.user /\ x.status \in Open /\ y.status \in Open => x = y
    /\ (\E p \in Persons : s.member[p] # NoRow) =>
          \E p \in Persons : /\ s.member[p] = [role |-> "admin", active |-> TRUE]
                             /\ \A x \in s.actions : x.of # p

ASSUME MembershipAssumption ==
    /\ "none" \notin Requests
    /\ \A s \in Scenes :
          /\ AtRest(s)
          /\ s.jobs \in [Requests -> SUBSET
                ((ModerationJobs \cup ApplicationJobs \cup {Setup}) \X Persons)]

vars == <<tableVars, apps, bootVars>>

\* The lock of a site that has members is claimed; so is that of a site set
\* up before.
Init ==
    \E s \in Scenes :
        /\ jobs = s.jobs
        /\ member = s.member
        /\ actions = s.actions
        /\ apps = s.apps
        /\ claimed = \E p \in Persons : s.member[p] # NoRow
        /\ users = {}
        /\ req = [r \in Requests |-> Idle]
        /\ past = {}
        /\ faults = 0

Next ==
    \/ ModerationNext /\ UNCHANGED <<apps, users, claimed>>
    \/ ApplicationNext /\ UNCHANGED <<users, claimed>>
    \/ BootNext /\ UNCHANGED apps

Spec == Init /\ [][Next]_vars

-----------------------------------------------------------------------------
Events ==
    {"unwatched", "unrestored", "stopped", "activated", "readmitted", "deactivated", "rolled back",
     "outrun", "crossed", "booted"}

\* Every row is well formed; a suspension or ban is about a
\* member, and a row created by a request is created once.
TypeOK ==
    /\ member \in [Persons -> [role : Roles, active : BOOLEAN] \cup {NoRow}]
    /\ \A x \in actions : HasRow(x.of) /\ x.type \in {"suspension", "ban"}
    /\ \A x, y \in actions : x.id = y.id => x = y
    /\ \A x \in apps : x.status \in Statuses
    /\ \A x, y \in apps : x.id = y.id \/ x.at = y.at => x = y
    /\ past \subseteq Events \X Persons
    /\ users \subseteq Persons
    /\ claimed \in BOOLEAN

Excused(events) == \E e \in events, p \in Persons : Happened(e, p)

\* However admins suspend, ban, deactivate and demote one another at the same
\* time, when the requests are over somebody can still administer the site:
\* the second look of create_moderation_action, update_member and change_role
\* catches every crossing removal.  Three things are outside what it can see:
\* a removal that took its target for no admin and so does not look again,
\* when the target has become one or is about to be put back; a role changed
\* again before it could be put back; and a request cut off after its write.
LastAdminKept ==
    (Quiet /\ AnyMember /\ ~Excused({"unwatched", "unrestored", "stopped"}))
        => ActionableAdmins # {}

\* What the second look is for: whatever the admins do to one another, the
\* organisation is not left without one who can act.
AdminRemains == Quiet /\ AnyMember => ActionableAdmins # {}

\* A banned member is inactive, so that an old application or a lifted
\* suspension does not open the door again, unless an officer or an
\* application that found no ban has activated the member.
BanHolds ==
    \A p \in Persons : Banned(p) /\ member[p].active
        => Happened("activated", p) \/ Happened("readmitted", p)

\* Whoever was accepted is an active member when the requests are over,
\* however the acceptance raced a withdrawal or a rejection of the same
\* application (DR1-ACCT-001): only an officer, or the end of another
\* application, can have deactivated the member.
AcceptedIsActive ==
    \A p \in Persons :
        (Quiet /\ Latest(p).status = "accepted")
            => \/ member[p].active
               \/ \E e \in {"deactivated", "crossed", "rolled back"} : Happened(e, p)

\* An active recruit who came in by an application still has one in trial or
\* accepted: a rejection or withdrawal takes the membership away.  Only a
\* review overtaken by it, a submission rolled back under it, an officer's
\* activation or a request cut off leave one behind.
RecruitsHaveCause ==
    \A p \in Persons :
        (Quiet /\ AppsOf(p) # {} /\ member[p] = [role |-> "recruit", active |-> TRUE])
            => \/ \E x \in AppsOf(p) : x.status \in {"trial", "accepted"}
               \/ \E e \in {"outrun", "rolled back", "activated", "stopped"} : Happened(e, p)

\* Submissions at the same time leave at most one open application.
OneOpenApplication ==
    \A p \in Persons :
        (Quiet /\ ~Happened("stopped", p)) => count_open_applications(p) <= 1

\* The tables are in order.
TablesSound == TypeOK /\ OneOpenApplication

\* First-boot set-up makes at most one admin, however many requests arrive
\* together and whichever statement fails, and the admin it has made keeps
\* the account and a closed set-up through any clean-up.
BootedOnce ==
    LET booted == {p \in Persons : Happened("booted", p)}
    IN  /\ Cardinality(booted) <= 1
        /\ booted # {} => claimed
        /\ booted \subseteq users

\* A set-up that failed can be tried again: without a member and without a
\* request at work the lock is free and no account is left behind, unless the
\* clean-up itself was cut off.
BootRetryable ==
    (Quiet /\ ~AnyMember /\ ~Excused({"stopped"})) => ~claimed /\ users = {}

\* Set-up makes one admin, and can be repeated until it has.
BootSound == BootedOnce /\ BootRetryable
=============================================================================
