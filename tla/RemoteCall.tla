----------------------------- MODULE RemoteCall -----------------------------
(***************************************************************************)
(* What a correlation actor promises its callers: a call sends its request *)
(* at most once and never after it returned, its request is served at most *)
(* once, it returns an answer only when that is the answer to its own      *)
(* request, and the answer to a call that is still open is not lost.  A    *)
(* call that fails learns nothing: its request may be served all the same. *)
(***************************************************************************)
CONSTANT Callers

VARIABLES
    outcome,    \* what each call has come to
    request     \* where its one request is

vars == <<outcome, request>>

Init ==
    /\ outcome = [c \in Callers |-> "idle"]
    /\ request = [c \in Callers |-> "unsent"]

Move(c, from, to) == request[c] = from /\ request' = [request EXCEPT ![c] = to]

Open(c) ==
    /\ outcome[c] = "idle"
    /\ outcome' = [outcome EXCEPT ![c] = "open"]
    /\ UNCHANGED request

Send(c) == outcome[c] = "open" /\ Move(c, "unsent", "travelling") /\ UNCHANGED outcome

Serve(c) == Move(c, "travelling", "served") /\ UNCHANGED outcome

\* The end of a connection loses the requests that were on their way.
Lose ==
    \E S \in SUBSET {c \in Callers : request[c] = "travelling"} :
        /\ request' = [c \in Callers |-> IF c \in S THEN "gone" ELSE request[c]]
        /\ UNCHANGED outcome

\* An answer may be dropped when nobody waits for it any more, and only then.
Answer(c) ==
    /\ \/ Move(c, "served", "answered")
       \/ outcome[c] # "open" /\ Move(c, "served", "gone")
    /\ UNCHANGED outcome

Succeed(c) ==
    /\ outcome[c] = "open" /\ request[c] = "answered"
    /\ outcome' = [outcome EXCEPT ![c] = "answered"]
    /\ UNCHANGED request

\* A request that was not sent will not be.
Fail(c) ==
    /\ outcome[c] = "open"
    /\ outcome' = [outcome EXCEPT ![c] = "failed"]
    /\ request' = [request EXCEPT ![c] = IF @ = "unsent" THEN "gone" ELSE @]

Next ==
    \/ Lose
    \/ \E c \in Callers : \/ Open(c) \/ Send(c) \/ Serve(c) \/ Answer(c)
                          \/ Succeed(c) \/ Fail(c)

Spec == Init /\ [][Next]_vars
=============================================================================
