---------------------------- MODULE MCCollabRoom ----------------------------
(* CollabRoom on small instances: connections k, a and b of signed-in       *)
(* users, a and b being tabs of one user when SameUser.  Keeper has k stay  *)
(* in room s1.                                                              *)
EXTENDS CollabRoom

CONSTANTS k, a, b, s1, SameUser

Users == [c \in Connections |->
            IF c = k THEN "keeper"
            ELSE IF SameUser THEN "tabs" ELSE IF c = a THEN "ann" ELSE "bob"]

Nobody == [c \in {} |-> s1]

Keeper == [c \in {k} |-> s1]
=============================================================================
