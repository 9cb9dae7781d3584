------------------------------ MODULE LinkGrant ------------------------------
(***************************************************************************)
(* What device-code sign-in promises, with none of the statements,         *)
(* handlers, clocks and passes that DeviceLink has: a code is asked for,   *)
(* granted by one member with one token or refused, collected by the       *)
(* device once, and forgotten.                                             *)
(***************************************************************************)
EXTENDS Naturals

CONSTANTS Codes, Members, Tokens, NONE

VARIABLES
    phase,   \* where each code is
    grantor, \* the member who granted it
    grant,   \* the token it was granted with
    answers  \* how many answers carried each token

vars == <<phase, grantor, grant, answers>>

Init ==
    /\ phase = [c \in Codes |-> "new"]
    /\ grantor = [c \in Codes |-> NONE]
    /\ grant = [c \in Codes |-> NONE]
    /\ answers = [t \in Tokens |-> 0]

Ask(c) ==
    /\ phase[c] = "new"
    /\ phase' = [phase EXCEPT ![c] = "open"]
    /\ UNCHANGED <<grantor, grant, answers>>

\* A code is granted once, with a token that no other code has and that has
\* not been in any answer.
Grant(c, m, t) ==
    /\ phase[c] = "open"
    /\ answers[t] = 0
    /\ \A d \in Codes : grant[d] # t
    /\ phase' = [phase EXCEPT ![c] = "granted"]
    /\ grantor' = [grantor EXCEPT ![c] = m]
    /\ grant' = [grant EXCEPT ![c] = t]
    /\ UNCHANGED answers

\* Anybody refuses an open code; a granted one only its grantor.
Refuse(c, m) ==
    /\ \/ phase[c] = "open"
       \/ phase[c] = "granted" /\ grantor[c] = m
    /\ phase' = [phase EXCEPT ![c] = "refused"]
    /\ UNCHANGED <<grantor, grant, answers>>

\* The device gets the token of a granted code, which nobody had before.
Collect(c) ==
    /\ phase[c] = "granted"
    /\ answers[grant[c]] = 0
    /\ phase' = [phase EXCEPT ![c] = "spent"]
    /\ answers' = [answers EXCEPT ![grant[c]] = 1]
    /\ UNCHANGED <<grantor, grant>>

\* The code is spent and the device has nothing: a lost answer, or a secret
\* that was cleared because the code had expired.
Lose(c) ==
    /\ phase[c] = "granted"
    /\ phase' = [phase EXCEPT ![c] = "spent"]
    /\ UNCHANGED <<grantor, grant, answers>>

\* Codes go for good.
Forget(S) ==
    /\ \A c \in S : phase[c] \notin {"new", "gone"}
    /\ phase' = [c \in Codes |-> IF c \in S THEN "gone" ELSE phase[c]]
    /\ grantor' = [c \in Codes |-> IF c \in S THEN NONE ELSE grantor[c]]
    /\ grant' = [c \in Codes |-> IF c \in S THEN NONE ELSE grant[c]]
    /\ UNCHANGED answers

Next ==
    \/ \E c \in Codes : Ask(c) \/ Collect(c) \/ Lose(c)
    \/ \E c \in Codes, m \in Members : Refuse(c, m)
    \/ \E c \in Codes, m \in Members, t \in Tokens : Grant(c, m, t)
    \/ \E S \in SUBSET Codes : Forget(S)

Spec == Init /\ [][Next]_vars
=============================================================================
