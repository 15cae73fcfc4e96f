----------------------------- MODULE DecisionLog -----------------------------
(***************************************************************************)
(* What the gateway promises its clients (README.md and docs/API.md of the *)
(* repository: idempotency, append-only decisions): for every key, which is *)
(* a request_id, there is at most one decision, about one content; it never *)
(* changes; and a client that is told to go on is told the decision         *)
(* recorded under its key, about the content it asked for. Any client may   *)
(* be told to stop instead.                                                *)
(***************************************************************************)
CONSTANTS Clients, Keys, Contents, NoRow

VARIABLES log, told

vars == <<log, told>>

Waiting == [answer |-> "waiting"]
Stop == [answer |-> "stop"]

Init ==
    /\ log = [k \in Keys |-> NoRow]
    /\ told = [c \in Clients |-> Waiting]

\* A first decision under a key.
Append ==
    \E k \in Keys :
        /\ log[k] = NoRow
        /\ log'[k] \in [decision : {"allow", "review", "block"}, content : Contents]
        /\ log' = [log EXCEPT ![k] = log'[k]]

\* A client is told to stop, or what the log says, the entry of the same step included.
Tell ==
    \E c \in Clients :
        /\ told[c] = Waiting
        /\ \/ told' = [told EXCEPT ![c] = Stop]
           \/ \E k \in Keys :
                 /\ log'[k] # NoRow
                 /\ told' = [told EXCEPT ![c] = [answer |-> log'[k].decision, key |-> k,
                                                 content |-> log'[k].content]]

Next ==
    \/ Append /\ (Tell \/ UNCHANGED told)
    \/ UNCHANGED log /\ Tell

Spec == Init /\ [][Next]_vars
=============================================================================
