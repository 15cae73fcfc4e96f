-------------------------- MODULE SlackDestination --------------------------
(***************************************************************************)
(* Where an organization's notifications go: the row of                     *)
(* notification_channels that members replace, remove and test from the     *)
(* console (api/console/notifications.ts), and an operator from a script    *)
(* (scripts/ops/set-approval-slack.mjs). The webhook URL is a secret: it is  *)
(* stored as a ciphertext bound to the id of its row                        *)
(* (notifications/secret.ts).                                              *)
(*                                                                         *)
(* Everybody reads the row, waits, and writes one batch with its event. A   *)
(* request makes up at most one row id, and the id is named after it; so is  *)
(* the URL it stores.                                                       *)
(***************************************************************************)
EXTENDS Naturals, Sequences

CONSTANTS Members,     \* console requests
          Operators,   \* runs of the operator's script
          First,       \* a row of before
          None

VARIABLES channel,     \* the row, or NoChannel: an organization has one at most
          trail,       \* control_events about it
          key,         \* is NOTIFICATION_ENCRYPTION_KEY set?
          req

vars == <<channel, trail, key, req>>

Parties == Members \cup Operators

NoChannel == [id |-> None, secret |-> None]
Event(action, id) == [action |-> action, id |-> id]

\* encryptSecret, whose additional data names the row; decryptSecret opens it for no other.
Encrypted(id, r) == [boundTo |-> id, url |-> r]
Decrypts(row) == key /\ row.secret.boundTo = row.id

Idle == [stage |-> "idle"]
Done == [stage |-> "done"]
Becomes(r, q) == req' = [req EXCEPT ![r] = q]

Init ==
    /\ channel \in {NoChannel, [id |-> First, secret |-> Encrypted(First, First)]}
    /\ trail = IF channel = NoChannel THEN <<>> ELSE <<Event("configured", First)>>
    /\ key \in BOOLEAN
    /\ req = [r \in Parties |-> Idle]

----------------------------------------------------------------------------

\* loadChannel, for configureSlack (refused without a key), removeSlack and testSlack.
Read(r) ==
    /\ req[r] = Idle
    /\ \E stage \in IF r \in Operators THEN {"configure"} ELSE {"configure", "remove", "test"} :
        Becomes(r, IF stage = "configure"
                   THEN IF key THEN [stage |-> "configure", row |-> channel] ELSE Done
                   ELSE IF channel = NoChannel THEN Done ELSE [stage |-> stage, row |-> channel])
    /\ UNCHANGED <<channel, trail, key>>

Replaces(q) == q.row # NoChannel

FreshId(q, r) == r   \* mutant: the secret is bound to a new id although the row keeps its own
RowId(q, r) == IF Replaces(q) THEN q.row.id ELSE r

\* The row a request stores: the id it read, or its own; a new secret either way.
Stored(q, r) ==
    [id |-> IF Replaces(q) THEN q.row.id ELSE r, secret |-> Encrypted(RowId(q, r), r)]

\* An UPDATE by id, or an INSERT that the unique index refuses if there is a row by now.
Refused(q) == ~Replaces(q) /\ channel # NoChannel
TakesEffect(q) == IF Replaces(q) THEN channel.id = q.row.id ELSE channel = NoChannel

(***************************************************************************)
(* The batch of configureSlack writes its event whether or not the UPDATE    *)
(* found its row; the script's only if it did. The script goes on to read    *)
(* back what it stored.                                                     *)
(***************************************************************************)
ConfigureSlack(r) ==
    /\ req[r].stage = "configure"
    /\ LET q == req[r]
           told == Event(IF Replaces(q) THEN "replaced" ELSE "configured", RowId(q, r))
       IN  /\ channel' = IF TakesEffect(q) THEN Stored(q, r) ELSE channel
           /\ trail' = IF Refused(q) \/ (r \in Operators /\ ~TakesEffect(q)) THEN trail
                       ELSE Append(trail, told)
           /\ Becomes(r, IF r \in Operators /\ ~Refused(q)
                         THEN [stage |-> "check", row |-> Stored(q, r), wrote |-> TakesEffect(q)] ELSE Done)
    /\ UNCHANGED key

\* The script claims success only for exactly what it wrote, with its event, and then tests it.
ReadBack(r) ==
    /\ req[r].stage = "check"
    /\ Becomes(r, IF channel = req[r].row /\ req[r].wrote THEN [stage |-> "test", row |-> channel] ELSE Done)
    /\ UNCHANGED <<channel, trail, key>>

Removes(q) == channel.id = q.row.id
AnyRemoval(q) == TRUE   \* mutant: the event is written whether or not a row was deleted
Tells(q) == Removes(q)

RemoveSlack(r) ==
    /\ req[r].stage = "remove"
    /\ channel' = IF Removes(req[r]) THEN NoChannel ELSE channel
    /\ trail' = IF Tells(req[r]) THEN Append(trail, Event("removed", req[r].row.id)) ELSE trail
    /\ Becomes(r, Done)
    /\ UNCHANGED key

\* The secret that was read is decrypted and used, whatever has become of the row.
TestSlack(r) ==
    /\ req[r].stage = "test"
    /\ \E sent \in BOOLEAN :
        /\ sent => Decrypts(req[r].row)
        /\ trail' = Append(trail, Event(IF sent THEN "test_sent" ELSE "test_failed", req[r].row.id))
    /\ Becomes(r, Done)
    /\ UNCHANGED <<channel, key>>

\* A refusal (permission, suspended organization, validation), a lost invocation or script.
Stop(r) ==
    /\ req[r] \notin {Idle, Done}
    /\ Becomes(r, Done)
    /\ UNCHANGED <<channel, trail, key>>

\* Bound: every request was made.
AllDone == (\A r \in Parties : req[r] = Done) /\ UNCHANGED vars

Next ==
    \/ \E r \in Parties : Read(r) \/ ConfigureSlack(r) \/ ReadBack(r) \/ RemoveSlack(r) \/ TestSlack(r) \/ Stop(r)
    \/ AllDone

Spec == Init /\ [][Next]_vars

----------------------------------------------------------------------------
(* Safety *)

(***************************************************************************)
(* The stored destination can be decrypted, by whomever it was configured,  *)
(* replaced or removed meanwhile: a ciphertext never ends up in a row with   *)
(* another id. (secret.ts:18, notifications.ts:65)                          *)
(***************************************************************************)
StoredSecretIsReadable == channel # NoChannel => channel.secret.boundTo = channel.id

\* The events by which a destination comes and goes.
Turns == {i \in 1..Len(trail) : trail[i].action \in {"configured", "removed"}}
IsLastTurn(i) == \A j \in Turns : j <= i

(***************************************************************************)
(* The trail says whether there is a destination: the last configuration or  *)
(* removal it tells of is that of the row there is, or a removal if there is *)
(* none, although two members remove it at once and an insert may be refused; *)
(* and between two configurations it tells of a removal.                    *)
(* (Of replacements it may tell that never took effect.) (notifications.ts:93) *)
(***************************************************************************)
TrailTellsTheDestination ==
    /\ channel # NoChannel => \E i \in Turns : IsLastTurn(i) /\ trail[i] = Event("configured", channel.id)
    /\ channel = NoChannel => \A i \in Turns : IsLastTurn(i) => trail[i].action = "removed"
    /\ \A i, j \in Turns :
          i < j /\ (\A k \in Turns : k <= i \/ j <= k) => trail[i].action # trail[j].action
=============================================================================
