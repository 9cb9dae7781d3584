--------------------------- MODULE MCMembership ---------------------------
(* Membership on three people and three requests. *)
EXTENDS Membership, TLC

CONSTANTS ann, bob, cat, r1, r2, r3

Row(role, active) == [role |-> role, active |-> active]

Rows(a, b, c) == ann :> a @@ bob :> b @@ cat :> c

Jobs(x, y, z) == r1 :> x @@ r2 :> y @@ r3 :> z

\* ann and bob are admins, cat is an officer: they remove one another.
Removals == {Suspend, Ban, Deactivate, ChangeRole("member")} \X {ann, bob}

Returns == {Activate, Lift, ChangeRole("admin"), ChangeRole("officer")} \X {bob}

Admins ==
    {[member |-> Rows(Row("admin", TRUE), b, Row("officer", TRUE)),
      actions |-> {}, apps |-> {}, jobs |-> Jobs(Removals, Removals, Returns)] :
        b \in {Row("admin", TRUE), Row("admin", FALSE)}}

SuspendedAdmin ==
    {[member |-> Rows(Row("admin", TRUE), Row("admin", TRUE), Row("officer", TRUE)),
      actions |-> {[of |-> bob, type |-> "suspension", id |-> "old"]}, apps |-> {},
      jobs |-> Jobs(Removals, Returns, {})]}

\* cat applies; ann reviews and moderates.
About(kinds) == kinds \X {cat}

Pending(status) == {[id |-> "old", user |-> cat, status |-> status, at |-> 1]}

Reviews == {Review(to) : to \in {"trial", "accepted", "rejected", "withdrawn"}}

Applicants ==
    {[member |-> Rows(Row("admin", TRUE), NoRow, c[1]), actions |-> c[2], apps |-> c[3],
      jobs |-> Jobs(About({Submit, Withdraw}), About({Submit} \cup Reviews),
                    About(Reviews \cup {Ban, Deactivate, Activate, ChangeRole("admin")}))] :
        c \in {<<NoRow, {}, {}>>,
               <<NoRow, {}, Pending("pending")>>,
               <<Row("recruit", TRUE), {}, Pending("trial")>>,
               <<Row("recruit", FALSE), {}, Pending("rejected")>>,
               <<Row("recruit", FALSE), {[of |-> cat, type |-> "ban", id |-> "old"]},
                 Pending("pending")>>}}

\* An empty site.
Boot ==
    {[member |-> Rows(NoRow, NoRow, NoRow), actions |-> {}, apps |-> {},
      jobs |-> Jobs({Setup} \X {ann}, {Setup} \X {ann, bob}, {Setup} \X {cat})]}

\* Two admins; one of them is removed twice.
TwoAdmins ==
    {[member |-> Rows(Row("admin", TRUE), Row("admin", TRUE), NoRow),
      actions |-> {}, apps |-> {},
      jobs |-> Jobs({<<Suspend, ann>>}, {<<Suspend, bob>>}, {<<Deactivate, bob>>})]}

AllScenes == Admins \cup SuspendedAdmin \cup Applicants \cup Boot
=============================================================================
