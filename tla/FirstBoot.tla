----------------------------- MODULE FirstBoot -----------------------------
(***************************************************************************)
(* POST /api/auth/setup of routes/auth.rs: the one request that makes an   *)
(* admin without being one.  It is open while the member table is empty,   *)
(* claims a lock row by compare-and-swap, creates the account and the      *)
(* member, and cleans up behind a failure if there is still no member.     *)
(***************************************************************************)
EXTENDS MemberTable

VARIABLES
    users,   \* local accounts made by set-up
    claimed  \* bootstrap_lock:setup

bootVars == <<users, claimed>>

Setup == [kind |-> "setup"]

has_any_member == AnyMember

SetupLooks(r, p) ==
    /\ MaySend(r, Setup, p)
    /\ ~has_any_member
    /\ req' = [req EXCEPT ![r] = [pc |-> "claim", of |-> p]]
    /\ UNCHANGED <<jobs, member, actions, past, faults, users, claimed>>

\* Variant: the claim does not look at the lock.
ClaimAlways == claimed' = TRUE

claim_bootstrap_lock == ~claimed /\ claimed' = TRUE

SetupClaims(r) ==
    /\ At(r, "claim")
    /\ \/ claim_bootstrap_lock /\ Goto(r, "user")
       \/ claimed /\ Answer(r) /\ UNCHANGED claimed
    /\ UNCHANGED <<jobs, member, actions, past, faults, users>>

\* A name that is taken fails the request.
SetupCreatesUser(r) ==
    /\ At(r, "user")
    /\ \/ req[r].of \notin users /\ users' = users \cup {req[r].of} /\ Goto(r, "admin")
       \/ req[r].of \in users /\ Goto(r, "member left?") /\ UNCHANGED users
    /\ UNCHANGED <<jobs, member, actions, past, faults, claimed>>

SetupCreatesAdmin(r) ==
    /\ At(r, "admin")
    /\ CreateMember(req[r].of, "admin")
    /\ Remember({<<"booted", req[r].of>>})
    /\ Answer(r)
    /\ UNCHANGED <<jobs, actions, faults, users, claimed>>

-----------------------------------------------------------------------------
(* abandon_failed_setup *)

\* delete_local_user_if_no_member: a look, then the deletion.
KeepsUser(r) == has_any_member

LooksBeforeDelete(r) ==
    /\ At(r, "user needed?")
    /\ Goto(r, IF KeepsUser(r) THEN "member left?" ELSE "drop user")
    /\ UNCHANGED <<jobs, member, actions, past, faults, users, claimed>>

DropsUser(r) ==
    /\ At(r, "drop user")
    /\ users' = users \ {req[r].of}
    /\ Goto(r, "member left?")
    /\ UNCHANGED <<jobs, member, actions, past, faults, claimed>>

\* release_bootstrap_lock: a look, then the release.
LooksBeforeRelease(r) ==
    /\ At(r, "member left?")
    /\ IF has_any_member THEN Answer(r) ELSE Goto(r, "release")
    /\ UNCHANGED <<jobs, member, actions, past, faults, users, claimed>>

ReleasesLock(r) ==
    /\ At(r, "release")
    /\ claimed' = FALSE
    /\ Answer(r)
    /\ UNCHANGED <<jobs, member, actions, past, faults, users>>

-----------------------------------------------------------------------------
(* Faults *)

\* Where an error leads: creating is cleaned up, cleaning up goes on.
OnError(pc) ==
    CASE pc = "user"  -> "member left?"
      [] pc = "admin" -> "user needed?"
      [] pc \in {"user needed?", "drop user"} -> "member left?"

\* A statement fails and has done nothing.
SetupFails(r) ==
    /\ req[r].pc \in {"user", "admin", "user needed?", "drop user"}
    /\ Fault
    /\ Goto(r, OnError(req[r].pc))
    /\ Remember(IF req[r].pc \in {"user needed?", "drop user"}
                THEN {<<"stopped", req[r].of>>} ELSE {})
    /\ UNCHANGED <<jobs, member, actions, users, claimed>>

\* A statement is carried out but its answer is lost in the time limit.
SetupTimesOut(r) ==
    /\ Fault
    /\ \/ /\ At(r, "claim")
          /\ claim_bootstrap_lock
          /\ Answer(r)
          /\ Remember({<<"stopped", req[r].of>>})
          /\ UNCHANGED <<member, users>>
       \/ /\ At(r, "user")
          /\ users' = users \cup {req[r].of}
          /\ Goto(r, OnError("user"))
          /\ Remember({<<"stopped", req[r].of>>})
          /\ UNCHANGED <<member, claimed>>
       \/ /\ At(r, "admin")
          /\ CreateMember(req[r].of, "admin")
          /\ Goto(r, OnError("admin"))
          /\ Remember({<<"booted", req[r].of>>})
          /\ UNCHANGED <<users, claimed>>
    /\ UNCHANGED <<jobs, actions>>

\* The request is dropped, or the last clean-up statement fails.
SetupStops(r) ==
    /\ req[r].pc \in {"user", "admin", "user needed?", "drop user", "member left?", "release"}
    /\ Fault
    /\ Answer(r)
    /\ Remember({<<"stopped", req[r].of>>})
    /\ UNCHANGED <<jobs, member, actions, users, claimed>>

BootNext ==
    \E r \in Requests :
        \/ \E p \in Persons : SetupLooks(r, p)
        \/ SetupClaims(r) \/ SetupCreatesUser(r) \/ SetupCreatesAdmin(r)
        \/ LooksBeforeDelete(r) \/ DropsUser(r) \/ LooksBeforeRelease(r) \/ ReleasesLock(r)
        \/ SetupFails(r) \/ SetupTimesOut(r) \/ SetupStops(r)
=============================================================================
