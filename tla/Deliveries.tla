----------------------------- MODULE Deliveries -----------------------------
(***************************************************************************)
(* What the node promises the application about transaction ids (spec I6 *)
(* and P2): a request carrying a tid is answered by exactly one Delivery,  *)
(* never a Delivery for a tid that was not sent, and never a second one.  *)
(* The node may answer at once (a request to itself, or with no route) or *)
(* later, and several tids at once (a failed task, a closing session).    *)
(* This is the abstract specification that Overlay implements.          *)
(***************************************************************************)
EXTENDS Naturals

CONSTANTS
    Tids,    \* the non-zero transaction ids
    Kinds    \* the kinds of request that carry a tid

VARIABLES
    req,     \* tid -> "none" or the kind of the request sent with it
    ans      \* tid -> number of Delivery receipts for it

vars == <<req, ans>>

Open(t) == req[t] # "none" /\ ans[t] = 0

Init ==
    /\ req = [t \in Tids |-> "none"]
    /\ ans = [t \in Tids |-> 0]

\* The application sends a request with a fresh tid; it may be answered in
\* the same step.
Ask(t, k) ==
    /\ req[t] = "none"
    /\ req' = [req EXCEPT ![t] = k]
    /\ ans' \in {ans, [ans EXCEPT ![t] = 1]}

\* The open requests T are answered.
Answer(T) ==
    /\ T # {} /\ \A t \in T : Open(t)
    /\ ans' = [t \in Tids |-> IF t \in T THEN 1 ELSE ans[t]]
    /\ UNCHANGED req

Next ==
    \/ \E t \in Tids, k \in Kinds : Ask(t, k)
    \/ \E T \in SUBSET Tids : Answer(T)

\* The safety promise alone.
Spec == Init /\ [][Next]_vars

====
