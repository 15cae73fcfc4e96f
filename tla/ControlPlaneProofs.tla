-------------------------- MODULE ControlPlaneProofs --------------------------
(***************************************************************************)
(* Proofs about the components around the gateway, as ControlPlane follows   *)
(* them: the Slack destination, the approval queue, badges, the audit trail   *)
(* and founding access. (Those of the members and the incident page are in    *)
(* AccessProofs, those of the policies in PolicyAdminProofs.)                *)
(***************************************************************************)
EXTENDS ControlPlane, FiniteSetTheorems, TLAPS

\* A step of the whole is one of the component in focus.
LEMMA Focus ==
    ASSUME [NextOfAll]_everything
    PROVE  /\ focus' = focus
           /\ focus = "admin" => [Admin!Next]_adminVars
           /\ focus = "controls" => [Controls!Next]_controlsVars
           /\ focus = "queue" => [Queue!Next]_queueVars
           /\ focus = "trail" => [Trail!Next]_trailVars
           /\ focus = "slack" => [Slack!Next]_slackVars
           /\ focus = "founding" => [Founding!Next]_foundingVars
BY DEF NextOfAll, everything, FollowsAccess, FollowsAdmin, FollowsControls, FollowsIncident, FollowsQueue,
       FollowsTrail, FollowsSlack, FollowsFounding

\* Whatever the focus, members and the incident page behave as their own specifications say, so
\* what AccessProofs shows of these holds of the whole.
THEOREM PartsAreFollowed == SpecOfAll => Spec /\ PageSpec
<1>1. InitOfAll => Init /\ PageInit
  BY DEF InitOfAll
<1>2. [NextOfAll]_everything => [Next]_vars /\ [PageNext]_pageVars
  BY DEF NextOfAll, everything, vars, pageVars, FollowsAccess, FollowsAdmin, FollowsControls, FollowsIncident,
         FollowsQueue, FollowsTrail, FollowsSlack, FollowsFounding
<1>3. QED
  BY <1>1, <1>2, PTL DEF SpecOfAll, Spec, PageSpec

----------------------------------------------------------------------------
(* SlackDestination: what a request has read of the row names a row that was stored, and that  *)
(* row keeps its id and can be read, so the trail's last turn is that of the row there is. *)

Rowed == Requests \cup SlackRuns \cup {First}

SlackRows == [id : Rowed, secret : [boundTo : Rowed, url : Rowed]]

SlackEvents == [action : {"configured", "replaced", "removed", "test_sent", "test_failed"}, id : Rowed]

SlackInv ==
    /\ channel = Slack!NoChannel \/ channel \in SlackRows
    /\ Slack!StoredSecretIsReadable
    /\ trail \in Seq(SlackEvents)
    /\ DOMAIN slack = Requests \cup SlackRuns
    /\ \A r \in Requests \cup SlackRuns :
        /\ slack[r].stage \in {"configure", "remove", "test", "check"} =>
              slack[r].row = Slack!NoChannel \/ slack[r].row \in SlackRows
        /\ slack[r].stage \in {"remove", "test", "check"} => slack[r].row # Slack!NoChannel
    /\ Slack!TrailTellsTheDestination

LEMMA NoChannelIsNoRow ==
    ASSUME NEW row \in SlackRows
    PROVE  row # Slack!NoChannel /\ row.id # None /\ row.id \in Rowed
BY ControlPlaneAssumption DEF SlackRows, Rowed, Slack!NoChannel

LEMMA SlackInit == ASSUME Slack!Init PROVE SlackInv
<1>1. channel = Slack!NoChannel \/ channel = [id |-> First, secret |-> Slack!Encrypted(First, First)]
  BY DEF Slack!Init
<1>2. CASE channel = Slack!NoChannel
  <2>1. trail = <<>>
    BY <1>2 DEF Slack!Init
  <2>2. Slack!TrailTellsTheDestination
    BY <1>2, <2>1 DEF Slack!TrailTellsTheDestination, Slack!Turns
  <2>3. QED
    BY <1>2, <2>1, <2>2 DEF Slack!Init, SlackInv, Slack!StoredSecretIsReadable, Slack!Idle, Slack!Parties
<1>3. CASE channel = [id |-> First, secret |-> Slack!Encrypted(First, First)]
  <2>1. channel \in SlackRows
    BY <1>3 DEF SlackRows, Rowed, Slack!Encrypted
  <2>2. trail = <<Slack!Event("configured", First)>>
    BY <1>3, <2>1, NoChannelIsNoRow DEF Slack!Init
  <2>3. Slack!TrailTellsTheDestination
    <3>1. Slack!Turns = {1}
      BY <2>2 DEF Slack!Turns, Slack!Event
    <3>2. QED
      BY <1>3, <2>1, <2>2, <3>1, NoChannelIsNoRow DEF Slack!TrailTellsTheDestination, Slack!Event, Slack!IsLastTurn
  <2>4. trail \in Seq(SlackEvents)
    <3>1. Slack!Event("configured", First) \in SlackEvents
      BY DEF SlackEvents, Rowed, Slack!Event
    <3>2. QED
      BY <2>2, <3>1
  <2>5. QED
    BY <1>3, <2>1, <2>3, <2>4 DEF Slack!Init, SlackInv, Slack!StoredSecretIsReadable, Slack!Idle, Slack!Parties, Slack!Encrypted
<1>4. QED
  BY <1>1, <1>2, <1>3

\* An event that is no turn leaves the turns as they are.
LEMMA NoTurn ==
    ASSUME NEW e \in SlackEvents, e.action \notin {"configured", "removed"},
           trail \in Seq(SlackEvents), trail' = Append(trail, e)
    PROVE  Slack!Turns' = Slack!Turns /\ \A i \in Slack!Turns : trail'[i] = trail[i]
<1>1. Len(trail') = Len(trail) + 1 /\ trail'[Len(trail) + 1] = e /\ Len(trail) \in Nat
  OBVIOUS
<1>2. \A i \in 1..Len(trail) : trail'[i] = trail[i]
  OBVIOUS
<1>3. \A i \in 1..Len(trail') : i \in 1..Len(trail) \/ i = Len(trail) + 1
  BY <1>1
<1>4. QED
  BY <1>1, <1>2, <1>3 DEF Slack!Turns

\* An event that is one becomes the last.
LEMMA NewTurn ==
    ASSUME NEW e \in SlackEvents, e.action \in {"configured", "removed"},
           trail \in Seq(SlackEvents), trail' = Append(trail, e)
    PROVE  /\ Slack!Turns' = Slack!Turns \cup {Len(trail) + 1}
           /\ trail'[Len(trail) + 1] = e
           /\ \A i \in Slack!Turns : trail'[i] = trail[i] /\ i \in Nat /\ i < Len(trail) + 1
<1>1. Len(trail') = Len(trail) + 1 /\ trail'[Len(trail) + 1] = e /\ Len(trail) \in Nat
  OBVIOUS
<1>2. \A i \in 1..Len(trail) : trail'[i] = trail[i]
  OBVIOUS
<1>3. \A i \in 1..Len(trail') : i \in 1..Len(trail) \/ i = Len(trail) + 1
  BY <1>1
<1>4. QED
  BY <1>1, <1>2, <1>3 DEF Slack!Turns

\* What the requests have read, after one of them has moved on.
LEMMA SlackMoves ==
    ASSUME SlackInv, NEW r \in Requests \cup SlackRuns, NEW q, Slack!Becomes(r, q),
           q.stage \in {"configure", "remove", "test", "check"} => q.row = Slack!NoChannel \/ q.row \in SlackRows,
           q.stage \in {"remove", "test", "check"} => q.row # Slack!NoChannel
    PROVE  /\ DOMAIN slack' = Requests \cup SlackRuns
           /\ \A s \in Requests \cup SlackRuns :
                /\ slack'[s].stage \in {"configure", "remove", "test", "check"} =>
                      slack'[s].row = Slack!NoChannel \/ slack'[s].row \in SlackRows
                /\ slack'[s].stage \in {"remove", "test", "check"} => slack'[s].row # Slack!NoChannel
BY DEF SlackInv, Slack!Becomes

\* A step that leaves the row and the turns alone.
LEMMA SlackRests ==
    ASSUME SlackInv, channel' = channel,
           trail' = trail \/ \E e \in SlackEvents : e.action \notin {"configured", "removed"} /\ trail' = Append(trail, e)
    PROVE  /\ channel' = Slack!NoChannel \/ channel' \in SlackRows
           /\ Slack!StoredSecretIsReadable' /\ trail' \in Seq(SlackEvents) /\ Slack!TrailTellsTheDestination'
<1>1. trail \in Seq(SlackEvents)
  BY DEF SlackInv
<1>2. trail' \in Seq(SlackEvents) /\ Slack!Turns' = Slack!Turns /\ \A i \in Slack!Turns : trail'[i] = trail[i]
  <2>1. CASE trail' = trail
    BY <1>1, <2>1 DEF Slack!Turns
  <2>2. CASE \E e \in SlackEvents : e.action \notin {"configured", "removed"} /\ trail' = Append(trail, e)
    <3>1. PICK e \in SlackEvents : e.action \notin {"configured", "removed"} /\ trail' = Append(trail, e)
      BY <2>2
    <3>2. Slack!Turns' = Slack!Turns /\ \A i \in Slack!Turns : trail'[i] = trail[i]
      BY <1>1, <3>1, NoTurn
    <3>3. trail' \in Seq(SlackEvents)
      BY <1>1, <3>1
    <3>4. QED
      BY <3>2, <3>3
  <2>3. QED
    BY <2>1, <2>2
<1>3. QED
  BY <1>2 DEF SlackInv, Slack!StoredSecretIsReadable, Slack!TrailTellsTheDestination, Slack!IsLastTurn

\* The same row with a new secret is the destination that the trail tells of.
LEMMA SlackReplaces ==
    ASSUME SlackInv, channel # Slack!NoChannel, channel' \in SlackRows, channel'.id = channel.id,
           trail' = trail \/ \E e \in SlackEvents : e.action \notin {"configured", "removed"} /\ trail' = Append(trail, e)
    PROVE  trail' \in Seq(SlackEvents) /\ Slack!TrailTellsTheDestination'
<1>1. trail \in Seq(SlackEvents)
  BY DEF SlackInv
<1>2. trail' \in Seq(SlackEvents) /\ Slack!Turns' = Slack!Turns /\ \A i \in Slack!Turns : trail'[i] = trail[i]
  <2>1. CASE trail' = trail
    BY <1>1, <2>1 DEF Slack!Turns
  <2>2. CASE \E e \in SlackEvents : e.action \notin {"configured", "removed"} /\ trail' = Append(trail, e)
    <3>1. PICK e \in SlackEvents : e.action \notin {"configured", "removed"} /\ trail' = Append(trail, e)
      BY <2>2
    <3>2. Slack!Turns' = Slack!Turns /\ \A i \in Slack!Turns : trail'[i] = trail[i]
      BY <1>1, <3>1, NoTurn
    <3>3. trail' \in Seq(SlackEvents)
      BY <1>1, <3>1
    <3>4. QED
      BY <3>2, <3>3
  <2>3. QED
    BY <2>1, <2>2
<1>3. channel' # Slack!NoChannel
  BY NoChannelIsNoRow
<1>4. QED
  BY <1>2, <1>3 DEF SlackInv, Slack!TrailTellsTheDestination, Slack!IsLastTurn

\* A destination that comes or goes, told by an event of its own.
LEMMA SlackTurns ==
    ASSUME SlackInv, NEW e \in SlackEvents, trail' = Append(trail, e),
           \/ /\ channel = Slack!NoChannel /\ channel' \in SlackRows
              /\ e = Slack!Event("configured", channel'.id)
           \/ channel # Slack!NoChannel /\ channel' = Slack!NoChannel /\ e.action = "removed"
    PROVE  trail' \in Seq(SlackEvents) /\ Slack!TrailTellsTheDestination'
<1>1. trail \in Seq(SlackEvents)
  BY DEF SlackInv
<1>0. PICK n \in Nat : n = Len(trail) + 1
  BY <1>1
<1>2. e.action \in {"configured", "removed"}
  BY DEF Slack!Event
<1>3. /\ Slack!Turns' = Slack!Turns \cup {n}
      /\ trail'[n] = e
      /\ \A i \in Slack!Turns : trail'[i] = trail[i] /\ i \in Nat /\ i < n
  BY <1>0, <1>1, <1>2, NewTurn
<1>4. Slack!IsLastTurn(n)' /\ \A i \in Slack!Turns' : Slack!IsLastTurn(i)' => i = n
  BY <1>3 DEF Slack!IsLastTurn
<1>5. channel' # Slack!NoChannel => \E i \in Slack!Turns' : Slack!IsLastTurn(i)' /\ trail'[i] = Slack!Event("configured", channel'.id)
  <2>1. channel' # Slack!NoChannel => e = Slack!Event("configured", channel'.id)
    BY NoChannelIsNoRow
  <2>2. n \in Slack!Turns'
    BY <1>3
  <2>3. QED
    BY <1>3, <1>4, <2>1, <2>2
<1>6. channel' = Slack!NoChannel => \A i \in Slack!Turns' : Slack!IsLastTurn(i)' => trail'[i].action = "removed"
  BY <1>3, <1>4, NoChannelIsNoRow
<1>7. ASSUME NEW i \in Slack!Turns', NEW j \in Slack!Turns', i < j, \A k \in Slack!Turns' : k <= i \/ j <= k
      PROVE  trail'[i].action # trail'[j].action
  <2>1. i \in Slack!Turns
    BY <1>3, <1>7
  <2>2. CASE j \in Slack!Turns
    <3>1. trail'[i] = trail[i] /\ trail'[j] = trail[j] /\ \A k \in Slack!Turns : k <= i \/ j <= k
      BY <1>3, <1>7, <2>1, <2>2
    <3>2. trail[i].action # trail[j].action
      BY <1>7, <2>1, <2>2, <3>1 DEF SlackInv, Slack!TrailTellsTheDestination
    <3>3. QED
      BY <3>1, <3>2
  <2>3. CASE j = n
    <3>1. Slack!IsLastTurn(i)
      BY <1>3, <1>7, <2>3 DEF Slack!IsLastTurn
    <3>2. \A k \in Slack!Turns : Slack!IsLastTurn(k) => k = i
      BY <2>1, <3>1, <1>3 DEF Slack!IsLastTurn
    <3>3. trail'[i] = trail[i] /\ trail'[j] = e
      BY <1>3, <2>1, <2>3
    <3>4. CASE channel = Slack!NoChannel
      BY <2>1, <3>1, <3>3, <3>4, NoChannelIsNoRow DEF SlackInv, Slack!TrailTellsTheDestination, Slack!Event
    <3>5. CASE channel # Slack!NoChannel
      BY <2>1, <3>1, <3>2, <3>3, <3>5, NoChannelIsNoRow DEF SlackInv, Slack!TrailTellsTheDestination, Slack!Event
    <3>6. QED
      BY <3>4, <3>5
  <2>4. j \in Slack!Turns \/ j = n
    BY <1>3
  <2>5. QED
    BY <2>2, <2>3, <2>4
<1>8. trail' \in Seq(SlackEvents)
  BY <1>1
<1>9. QED
  BY <1>5, <1>6, <1>7, <1>8 DEF Slack!TrailTellsTheDestination

----------------------------------------------------------------------------

LEMMA SlackConfigures ==
    ASSUME SlackInv, NEW r \in Requests \cup SlackRuns, Slack!ConfigureSlack(r)
    PROVE  SlackInv'
<1>1. PICK q : q = slack[r]
  OBVIOUS
<1>2. q.row = Slack!NoChannel \/ q.row \in SlackRows
  BY <1>1 DEF Slack!ConfigureSlack, SlackInv
<1>3. PICK id : id = Slack!RowId(q, r)
  OBVIOUS
<1>4. id \in Rowed /\ (q.row # Slack!NoChannel => id = q.row.id)
  BY <1>2, <1>3, NoChannelIsNoRow DEF Slack!RowId, Slack!Replaces, Rowed
<1>5. PICK row : row = Slack!Stored(q, r)
  OBVIOUS
<1>6. row \in SlackRows /\ row.id = id /\ row.secret.boundTo = row.id
  BY <1>3, <1>4, <1>5 DEF Slack!Stored, Slack!RowId, Slack!Encrypted, SlackRows, Rowed
<1>7. PICK e : e = Slack!Event(IF q.row # Slack!NoChannel THEN "replaced" ELSE "configured", id)
  OBVIOUS
<1>8. e \in SlackEvents
  BY <1>4, <1>7 DEF SlackEvents, Slack!Event
<1>9. \E next : Slack!Becomes(r, next) /\ next.stage \in {"check", "done"} /\ (next.stage = "check" => next.row = row)
  BY <1>1, <1>5 DEF Slack!ConfigureSlack, Slack!Done
<1>10. /\ DOMAIN slack' = Requests \cup SlackRuns
       /\ \A s \in Requests \cup SlackRuns :
            /\ slack'[s].stage \in {"configure", "remove", "test", "check"} =>
                  slack'[s].row = Slack!NoChannel \/ slack'[s].row \in SlackRows
            /\ slack'[s].stage \in {"remove", "test", "check"} => slack'[s].row # Slack!NoChannel
  <2>1. PICK next : Slack!Becomes(r, next) /\ next.stage \in {"check", "done"} /\ (next.stage = "check" => next.row = row)
    BY <1>9
  <2>2. QED
    BY <1>6, <2>1, SlackMoves, NoChannelIsNoRow
<1>11. /\ channel' = IF Slack!TakesEffect(q) THEN row ELSE channel
       /\ trail' = IF Slack!Refused(q) \/ (r \in SlackRuns /\ ~Slack!TakesEffect(q)) THEN trail
                    ELSE Append(trail, e)
  BY <1>1, <1>3, <1>5, <1>7 DEF Slack!ConfigureSlack, Slack!Replaces
<1>12. CASE q.row # Slack!NoChannel
  <2>1. ~Slack!Refused(q) /\ e.action = "replaced"
    BY <1>7, <1>12 DEF Slack!Refused, Slack!Replaces, Slack!Event
  <2>2. trail' = trail \/ \E f \in SlackEvents : f.action \notin {"configured", "removed"} /\ trail' = Append(trail, f)
    BY <1>8, <1>11, <2>1
  <2>3. CASE Slack!TakesEffect(q)
    <3>1. channel.id = id /\ channel' = row
      BY <1>4, <1>11, <1>12, <2>3 DEF Slack!TakesEffect, Slack!Replaces
    <3>2. channel # Slack!NoChannel
      BY <1>2, <1>4, <1>12, <3>1, NoChannelIsNoRow DEF Slack!NoChannel
    <3>3. trail' \in Seq(SlackEvents) /\ Slack!TrailTellsTheDestination'
      BY <1>6, <2>2, <3>1, <3>2, SlackReplaces
    <3>4. QED
      BY <1>6, <1>10, <3>1, <3>3 DEF SlackInv, Slack!StoredSecretIsReadable
  <2>4. CASE ~Slack!TakesEffect(q)
    <3>1. channel' = channel
      BY <1>11, <2>4
    <3>2. QED
      BY <1>10, <2>2, <3>1, SlackRests DEF SlackInv
  <2>5. QED
    BY <2>3, <2>4
<1>13. CASE q.row = Slack!NoChannel /\ channel = Slack!NoChannel
  <2>1. Slack!TakesEffect(q) /\ ~Slack!Refused(q)
    BY <1>13 DEF Slack!TakesEffect, Slack!Refused, Slack!Replaces
  <2>2. channel' = row /\ trail' = Append(trail, e) /\ e = Slack!Event("configured", channel'.id)
    BY <1>6, <1>7, <1>11, <1>13, <2>1
  <2>3. trail' \in Seq(SlackEvents) /\ Slack!TrailTellsTheDestination'
    BY <1>6, <1>8, <1>13, <2>2, SlackTurns
  <2>4. QED
    BY <1>6, <1>10, <2>2, <2>3 DEF SlackInv, Slack!StoredSecretIsReadable
<1>14. CASE q.row = Slack!NoChannel /\ channel # Slack!NoChannel
  <2>1. ~Slack!TakesEffect(q) /\ Slack!Refused(q)
    BY <1>14 DEF Slack!TakesEffect, Slack!Refused, Slack!Replaces
  <2>2. channel' = channel /\ trail' = trail
    BY <1>11, <2>1
  <2>3. QED
    BY <1>10, <2>2, SlackRests DEF SlackInv
<1>15. QED
  BY <1>12, <1>13, <1>14

LEMMA SlackRemoves ==
    ASSUME SlackInv, NEW r \in Requests \cup SlackRuns, Slack!RemoveSlack(r)
    PROVE  SlackInv'
<1>1. PICK row \in SlackRows : row = slack[r].row
  BY DEF Slack!RemoveSlack, SlackInv
<1>2. /\ DOMAIN slack' = Requests \cup SlackRuns
      /\ \A s \in Requests \cup SlackRuns :
           /\ slack'[s].stage \in {"configure", "remove", "test", "check"} =>
                 slack'[s].row = Slack!NoChannel \/ slack'[s].row \in SlackRows
           /\ slack'[s].stage \in {"remove", "test", "check"} => slack'[s].row # Slack!NoChannel
  BY SlackMoves DEF Slack!RemoveSlack, Slack!Done
<1>3. CASE channel.id = row.id
  <2>1. channel # Slack!NoChannel
    BY <1>1, <1>3, NoChannelIsNoRow DEF Slack!NoChannel
  <2>2. PICK e : e = Slack!Event("removed", row.id)
    OBVIOUS
  <2>3. channel' = Slack!NoChannel /\ trail' = Append(trail, e)
    BY <1>1, <1>3, <2>2 DEF Slack!RemoveSlack, Slack!Removes, Slack!Tells
  <2>4. e \in SlackEvents /\ e.action = "removed"
    BY <1>1, <2>2, NoChannelIsNoRow DEF SlackEvents, Slack!Event
  <2>5. trail' \in Seq(SlackEvents) /\ Slack!TrailTellsTheDestination'
    BY <2>1, <2>3, <2>4, SlackTurns
  <2>6. QED
    BY <1>2, <2>3, <2>5 DEF SlackInv, Slack!StoredSecretIsReadable
<1>4. CASE channel.id # row.id
  <2>1. channel' = channel /\ trail' = trail
    BY <1>1, <1>4 DEF Slack!RemoveSlack, Slack!Removes, Slack!Tells
  <2>2. QED
    BY <1>2, <2>1, SlackRests DEF SlackInv
<1>5. QED
  BY <1>3, <1>4

\* A step of a request that does not write the row; a test tells how it went.
LEMMA SlackLooks ==
    ASSUME SlackInv, NEW r \in Requests \cup SlackRuns,
           Slack!Read(r) \/ Slack!ReadBack(r) \/ Slack!TestSlack(r) \/ Slack!Stop(r)
    PROVE  SlackInv'
<1>1. channel' = channel
  BY DEF Slack!Read, Slack!ReadBack, Slack!TestSlack, Slack!Stop
<1>2. PICK next : /\ Slack!Becomes(r, next)
                  /\ next.stage \in {"configure", "remove", "test", "check"} =>
                        next.row = Slack!NoChannel \/ next.row \in SlackRows
                  /\ next.stage \in {"remove", "test", "check"} => next.row # Slack!NoChannel
  <2>1. CASE Slack!Read(r)
    <3>1. PICK stage \in {"configure", "remove", "test"} :
            Slack!Becomes(r, IF stage = "configure"
                   THEN IF key THEN [stage |-> "configure", row |-> channel] ELSE Slack!Done
                   ELSE IF channel = Slack!NoChannel THEN Slack!Done ELSE [stage |-> stage, row |-> channel])
      BY <2>1 DEF Slack!Read
    <3>2. CASE (channel = Slack!NoChannel /\ stage # "configure") \/ (stage = "configure" /\ ~key)
      BY <3>1, <3>2 DEF Slack!Done
    <3>3. CASE (stage = "configure" /\ key) \/ (channel # Slack!NoChannel /\ stage # "configure")
      BY <3>1, <3>3 DEF SlackInv
    <3>4. QED
      BY <3>2, <3>3
  <2>2. CASE Slack!ReadBack(r)
    BY <2>2, NoChannelIsNoRow DEF Slack!ReadBack, Slack!Done, SlackInv
  <2>3. CASE Slack!TestSlack(r) \/ Slack!Stop(r)
    BY <2>3 DEF Slack!TestSlack, Slack!Stop, Slack!Done
  <2>4. QED
    BY <2>1, <2>2, <2>3
<1>3. trail' = trail \/ \E e \in SlackEvents : e.action \notin {"configured", "removed"} /\ trail' = Append(trail, e)
  <2>1. CASE Slack!TestSlack(r)
    <3>0. \/ trail' = Append(trail, Slack!Event("test_sent", slack[r].row.id))
          \/ trail' = Append(trail, Slack!Event("test_failed", slack[r].row.id))
      BY <2>1 DEF Slack!TestSlack
    <3>1. PICK e : /\ e \in {Slack!Event("test_sent", slack[r].row.id), Slack!Event("test_failed", slack[r].row.id)}
                   /\ trail' = Append(trail, e)
      BY <3>0
    <3>2. slack[r].row \in SlackRows
      BY <2>1 DEF Slack!TestSlack, SlackInv
    <3>3. e \in SlackEvents /\ e.action \notin {"configured", "removed"}
      BY <3>1, <3>2, NoChannelIsNoRow DEF SlackEvents, Slack!Event
    <3>4. QED
      BY <3>1, <3>3
  <2>2. CASE ~Slack!TestSlack(r)
    BY <2>2 DEF Slack!Read, Slack!ReadBack, Slack!Stop
  <2>3. QED
    BY <2>1, <2>2
<1>4. QED
  BY <1>1, <1>2, <1>3, SlackMoves, SlackRests DEF SlackInv

LEMMA SlackStep == ASSUME SlackInv, [Slack!Next]_slackVars PROVE SlackInv'
<1>1. CASE UNCHANGED slackVars
  BY <1>1 DEF slackVars, SlackInv, Slack!StoredSecretIsReadable, Slack!TrailTellsTheDestination, Slack!Turns,
     Slack!IsLastTurn
<1>2. CASE Slack!AllDone
  <2>1. UNCHANGED slackVars
    BY <1>2 DEF Slack!AllDone, Slack!vars, slackVars
  <2>2. QED
    BY <1>1, <2>1
<1>3. ASSUME NEW r \in Requests \cup SlackRuns,
             \/ Slack!Read(r) \/ Slack!ConfigureSlack(r) \/ Slack!ReadBack(r)
             \/ Slack!RemoveSlack(r) \/ Slack!TestSlack(r) \/ Slack!Stop(r)
      PROVE  SlackInv'
  BY <1>3, SlackConfigures, SlackRemoves, SlackLooks
<1>4. QED
  BY <1>1, <1>2, <1>3 DEF Slack!Next, Slack!Parties

LEMMA SlackInvariance == SpecOfAll => [](focus = "slack" => SlackInv)
<1>1. InitOfAll => (focus = "slack" => SlackInv)
  BY SlackInit DEF InitOfAll
<1>2. (focus = "slack" => SlackInv) /\ [NextOfAll]_everything => (focus = "slack" => SlackInv)'
  BY Focus, SlackStep
<1>3. QED
  BY <1>1, <1>2, PTL DEF SpecOfAll

\* The stored destination can be decrypted, whatever members and operators do at once.
\* (secret.ts:18, notifications.ts:65)
THEOREM SecretsStayReadable == SpecOfAll => []StoredSecretIsReadable
<1>1. (focus = "slack" => SlackInv) => StoredSecretIsReadable
  BY DEF SlackInv, StoredSecretIsReadable
<1>2. QED
  BY <1>1, SlackInvariance, PTL

\* The trail tells whether there is a destination, for any number of requests. (notifications.ts:93)
THEOREM TrailIsTrue == SpecOfAll => []TrailTellsTheDestination
<1>1. (focus = "slack" => SlackInv) => TrailTellsTheDestination
  BY DEF SlackInv, TrailTellsTheDestination
<1>2. QED
  BY <1>1, SlackInvariance, PTL

----------------------------------------------------------------------------
(* ApprovalQueue: nothing that the page was told is resolved is pending again, so a list that   *)
(* was read later, or is the latest to be asked for, does not offer it.                         *)

Resolved == {p \in Approvals : status[p] # "pending"}

Dialogs == [stage : {"open", "sent", "served"}, approval : Approvals]

QueueInv ==
    /\ DOMAIN status = Approvals
    /\ seq \in 0..MaxCalls /\ DOMAIN fetches = 1..MaxCalls
    /\ known \subseteq Resolved
    /\ \A n \in 1..MaxCalls : fetches[n].stage = "served" =>
          /\ fetches[n].list.pending \subseteq Approvals
          /\ fetches[n].list.resolved \subseteq Resolved
          /\ n = seq => fetches[n].list.pending \cap known = {}
    /\ data # Queue!NoData => data.pending \subseteq Approvals
    /\ acting = Queue!Closed \/ acting \in Dialogs
    /\ acting.stage = "served" => acting.approval \in Resolved

LEMMA QueueInit == ASSUME Queue!Init PROVE QueueInv
BY KeyedResourceAssumption DEF Queue!Init, QueueInv, Queue!NoData, Queue!Closed, Queue!Unsent

\* The next fetch is asked for: an answer to another one will not be looked at.
LEMMA QueueLoads ==
    ASSUME QueueInv, Queue!Load, UNCHANGED <<status, data>>, known' \subseteq Resolved,
           acting' = acting \/ acting' = Queue!Closed
    PROVE  QueueInv'
<1>1. seq + 1 \in 1..MaxCalls /\ seq \in Nat /\ seq' = seq + 1 /\ seq' \in 0..MaxCalls
  BY KeyedResourceAssumption DEF QueueInv, Queue!Load
<1>2. PICK q : q = [stage |-> "sent", tab |-> tab]
  OBVIOUS
<1>3. fetches' = [fetches EXCEPT ![seq + 1] = q] /\ q.stage = "sent"
  BY <1>2 DEF Queue!Load
<1>4. Resolved' = Resolved
  BY DEF Resolved
<1>5. \A n \in 1..MaxCalls : fetches'[n].stage = "served" => fetches'[n] = fetches[n] /\ n # seq'
  <2>1. ASSUME NEW n \in 1..MaxCalls, fetches'[n].stage = "served", n # seq + 1
        PROVE  fetches'[n] = fetches[n]
    BY <1>1, <1>3, <2>1 DEF QueueInv
  <2>2. QED
    BY <1>1, <1>3, <2>1 DEF QueueInv
<1>6. QED
  BY <1>1, <1>3, <1>4, <1>5 DEF QueueInv, Queue!Closed

\* A fetch is settled.
LEMMA QueueSettles ==
    ASSUME QueueInv, NEW n \in 1..seq,
           fetches' = [fetches EXCEPT ![n] = [stage |-> "settled"]],
           UNCHANGED <<status, seq, acting>>,
           UNCHANGED data \/ data'.pending \subseteq Approvals,
           known' \subseteq Resolved, known' # known => n = seq
    PROVE  QueueInv'
<1>1. Resolved' = Resolved
  BY DEF Resolved
<1>2. \A m \in 1..MaxCalls : fetches'[m].stage = "served" => m # n /\ fetches'[m] = fetches[m]
  BY DEF QueueInv
<1>3. QED
  BY <1>1, <1>2 DEF QueueInv

\* The server's list is that of the moment.
LEMMA QueueServes ==
    ASSUME QueueInv, NEW n \in 1..seq, Queue!Serve(n)
    PROVE  QueueInv'
<1>1. PICK q : q = [stage |-> "served", list |-> Queue!Listed(fetches[n].tab)]
  OBVIOUS
<1>2. fetches' = [fetches EXCEPT ![n] = q]
  BY <1>1 DEF Queue!Serve
<1>3. q.list.pending \subseteq Approvals \ Resolved /\ q.list.resolved \subseteq Resolved
  BY <1>1 DEF Queue!Listed, Resolved
<1>4. UNCHANGED <<status, data, seq, acting, known>> /\ Resolved' = Resolved
  BY DEF Queue!Serve, Resolved
<1>5. \A m \in 1..MaxCalls : fetches'[m] = IF m = n THEN q ELSE fetches[m]
  BY <1>2 DEF QueueInv
<1>6. DOMAIN fetches' = 1..MaxCalls
  BY <1>2 DEF QueueInv
<1>7. \A m \in 1..MaxCalls : fetches'[m].stage = "served" =>
          /\ fetches'[m].list.pending \subseteq Approvals
          /\ fetches'[m].list.resolved \subseteq Resolved
          /\ m = seq => fetches'[m].list.pending \cap known = {}
  BY <1>3, <1>5 DEF QueueInv
<1>8. QED
  BY <1>4, <1>6, <1>7 DEF QueueInv

LEMMA QueueAnswers ==
    ASSUME QueueInv, NEW n \in 1..seq, Queue!Answer(n) \/ Queue!Fail(n)
    PROVE  QueueInv'
<1>0. n \in 1..MaxCalls
  BY KeyedResourceAssumption DEF QueueInv
<1>1. /\ fetches' = [fetches EXCEPT ![n] = [stage |-> "settled"]]
      /\ UNCHANGED <<status, seq, acting>>
  BY DEF Queue!Answer, Queue!Fail
<1>2. CASE Queue!Answer(n)
  BY <1>0, <1>1, <1>2, QueueSettles DEF Queue!Answer, Queue!IsLatest, QueueInv
<1>3. CASE Queue!Fail(n)
  BY <1>1, <1>3, QueueSettles DEF Queue!Fail, QueueInv
<1>4. QED
  BY <1>2, <1>3

\* Approvals are resolved, never the other way round.
LEMMA QueueResolves ==
    ASSUME QueueInv, DOMAIN status' = Approvals, Resolved \subseteq Resolved',
           UNCHANGED <<seq, fetches, data, known>>,
           acting' = Queue!Closed \/ acting' \in Dialogs,
           acting'.stage = "served" => acting'.approval \in Resolved'
    PROVE  QueueInv'
BY DEF QueueInv

LEMMA QueueDecides ==
    ASSUME QueueInv,
           \/ Queue!ChangeTab \/ Queue!OpenDialog \/ Queue!Cancel \/ Queue!Act \/ Queue!ServeAct \/ Queue!ActFails
           \/ Queue!Resolve
    PROVE  QueueInv'
<1>1. UNCHANGED <<seq, fetches, data, known>>
  BY DEF Queue!ChangeTab, Queue!OpenDialog, Queue!Cancel, Queue!Act, Queue!ServeAct, Queue!ActFails, Queue!Resolve
<1>2. DOMAIN status' = Approvals /\ Resolved \subseteq Resolved'
  BY DEF Queue!ChangeTab, Queue!OpenDialog, Queue!Cancel, Queue!Act, Queue!ServeAct, Queue!ActFails, Queue!Resolve,
     QueueInv, Resolved
<1>3. acting' = Queue!Closed \/ acting' \in Dialogs
  BY DEF Queue!ChangeTab, Queue!OpenDialog, Queue!Cancel, Queue!Act, Queue!ServeAct, Queue!ActFails, Queue!Resolve,
     QueueInv, Queue!Closed, Dialogs
<1>4. acting'.stage = "served" => acting'.approval \in Resolved'
  <2>1. CASE Queue!ServeAct
    BY <2>1 DEF Queue!ServeAct, QueueInv, Resolved, Dialogs, Queue!Closed
  <2>2. CASE Queue!Act \/ Queue!ActFails \/ Queue!OpenDialog \/ Queue!Cancel
    BY <2>2 DEF Queue!OpenDialog, Queue!Cancel, Queue!Act, Queue!ActFails, Queue!Closed, QueueInv, Dialogs
  <2>3. CASE Queue!ChangeTab \/ Queue!Resolve
    BY <1>2, <2>3 DEF Queue!ChangeTab, Queue!Resolve, QueueInv
  <2>4. QED
    BY <2>1, <2>2, <2>3
<1>5. QED
  BY <1>1, <1>2, <1>3, <1>4, QueueResolves

LEMMA QueueStep == ASSUME QueueInv, [Queue!Next]_queueVars PROVE QueueInv'
<1>1. CASE UNCHANGED queueVars
  BY <1>1 DEF queueVars, QueueInv, Resolved
<1>2. CASE Queue!TabEffect \/ Queue!Poll
  BY <1>2, QueueLoads DEF Queue!TabEffect, Queue!Poll, QueueInv
<1>3. CASE Queue!AfterAct
  BY <1>3, QueueLoads DEF Queue!AfterAct, QueueInv
<1>4. CASE \E n \in 1..seq : Queue!Serve(n) \/ Queue!Answer(n) \/ Queue!Fail(n)
  BY <1>4, QueueServes, QueueAnswers
<1>5. QED
  BY <1>1, <1>2, <1>3, <1>4, QueueDecides DEF Queue!Next

\* Only the latest answer changes what is shown.
LEMMA QueueShows ==
    ASSUME QueueInv, [Queue!Next]_queueVars, data' # data
    PROVE  data'.pending \cap known = {}
<1>1. PICK n \in 1..seq : Queue!Answer(n)
  BY DEF Queue!Next, queueVars, Queue!TabEffect, Queue!Poll, Queue!AfterAct, Queue!Serve, Queue!Fail, Queue!ChangeTab,
     Queue!OpenDialog, Queue!Cancel, Queue!Act, Queue!ServeAct, Queue!ActFails, Queue!Resolve
<1>2. n = seq /\ data' = fetches[n].list /\ fetches[n].stage = "served" /\ n \in 1..MaxCalls
  BY <1>1 DEF Queue!Answer, Queue!IsLatest, QueueInv
<1>3. QED
  BY <1>2 DEF QueueInv

LEMMA QueueInvariance == SpecOfAll => [](focus = "queue" => QueueInv)
<1>1. InitOfAll => (focus = "queue" => QueueInv)
  BY QueueInit DEF InitOfAll
<1>2. (focus = "queue" => QueueInv) /\ [NextOfAll]_everything => (focus = "queue" => QueueInv)'
  BY Focus, QueueStep
<1>3. QED
  BY <1>1, <1>2, PTL DEF SpecOfAll

\* What the page was told is resolved it does not offer for decision again, whichever of its
\* fetches comes in last and however many there are. (hooks.ts:62)
THEOREM ResolvedApprovalsStayResolved == SpecOfAll => ResolvedStaysResolved
<1>1. (focus = "queue" => QueueInv) /\ [NextOfAll]_everything
         => [focus = "queue" => (data' # data => data'.pending \cap known = {})]_data
  BY Focus, QueueShows
<1>2. QED
  BY <1>1, QueueInvariance, PTL DEF SpecOfAll, ResolvedStaysResolved

----------------------------------------------------------------------------
(* OrganizationControls: once a badge was revoked there is a live one, so a write to a badge     *)
(* that was revoked meanwhile would make a second one live, which the unique index refuses.      *)

BadgeRows == [state : {"none", "enabled", "suspended", "revoked"}, activated : BOOLEAN]
LiveStates == {"enabled", "suspended"}

\* What a request that has read a badge goes on with.
LookupOK(q) ==
    /\ q.stage \in {"facts", "mark", "set", "rotate"} => q.badge \in Badges
    /\ q.stage \in {"facts", "rotate"} => q.row \in BadgeRows
    /\ q.stage = "set" => q.state \in LiveStates
    /\ q.stage = "rotate" => q.row.state \in LiveStates
    /\ q.stage = "viewed" /\ q.state = "revoked" => q.shows = "revoked"

RevokedIsReplaced(all) ==
    (\E b \in Badges : all[b].state = "revoked") => \E b \in Badges : all[b].state \in LiveStates

ControlsInv ==
    /\ badges \in [Badges -> BadgeRows]
    /\ RevokedIsReplaced(badges)
    /\ DOMAIN request = Lookups
    /\ \A r \in Lookups : LookupOK(request[r])

StaysRevoked == \A b \in Badges : badges[b].state = "revoked" => badges'[b].state = "revoked"

LEMMA RowFields ==
    ASSUME NEW row \in BadgeRows
    PROVE  row.state \in {"none", "enabled", "suspended", "revoked"} /\ row.activated \in BOOLEAN
BY DEF BadgeRows

LEMMA RowOf ==
    ASSUME NEW state \in {"none", "enabled", "suspended", "revoked"}, NEW activated \in BOOLEAN
    PROVE  Controls!Badge(state, activated) \in BadgeRows /\ Controls!Badge(state, activated).state = state
BY DEF BadgeRows, Controls!Badge

LEMMA ControlsInit == ASSUME Controls!Init PROVE ControlsInv
<1>1. \E enabledNow \in SUBSET Badges :
         badges = [b \in Badges |-> IF b \in enabledNow THEN Controls!Badge("enabled", FALSE) ELSE Controls!NoBadge]
  BY DEF Controls!Init
<1>2. Controls!NoBadge \in BadgeRows /\ Controls!NoBadge.state = "none"
  BY DEF Controls!NoBadge, BadgeRows
<1>3. Controls!Badge("enabled", FALSE) \in BadgeRows /\ Controls!Badge("enabled", FALSE).state = "enabled"
  BY RowOf
<1>4. badges \in [Badges -> BadgeRows] /\ \A b \in Badges : badges[b].state # "revoked"
  BY <1>1, <1>2, <1>3
<1>5. DOMAIN request = Lookups /\ \A r \in Lookups : LookupOK(request[r])
  BY DEF Controls!Init, Controls!Idle, LookupOK
<1>6. QED
  BY <1>4, <1>5 DEF ControlsInv, RevokedIsReplaced

LEMMA ControlsMoves ==
    ASSUME ControlsInv, NEW r \in Lookups, NEW q, Controls!Becomes(r, q), LookupOK(q),
           badges' \in [Badges -> BadgeRows], RevokedIsReplaced(badges')
    PROVE  ControlsInv'
<1>1. DOMAIN request' = Lookups /\ \A s \in Lookups : request'[s] = IF s = r THEN q ELSE request[s]
  BY DEF ControlsInv, Controls!Becomes
<1>2. \A s \in Lookups : LookupOK(request'[s])
  BY <1>1 DEF ControlsInv
<1>3. QED
  BY <1>1, <1>2 DEF ControlsInv, RevokedIsReplaced, LookupOK

\* A batch with the unique index: after it there is at most one live badge.
LEMMA ControlsCommits ==
    ASSUME ControlsInv, NEW r \in Lookups, NEW after \in [Badges -> BadgeRows], Controls!Commit(r, after),
           NEW b \in Badges, after[b].state \in LiveStates,
           \A c \in Badges : badges[c].state = "revoked" /\ after[c].state # "revoked" =>
              c = b /\ \A d \in Badges : badges[d].state \in LiveStates => after[d].state \in LiveStates
    PROVE  ControlsInv' /\ StaysRevoked
<1>1. LookupOK([stage |-> "answer", org |-> request[r].org]) /\ LookupOK(Controls!Done)
  BY DEF LookupOK, Controls!Done
<1>2. CASE ~Controls!OneLive(after)
  <2>1. badges' = badges /\ Controls!Becomes(r, Controls!Done)
    BY <1>2 DEF Controls!Commit
  <2>2. QED
    BY <1>1, <2>1, ControlsMoves DEF ControlsInv, StaysRevoked
<1>3. CASE Controls!OneLive(after)
  <2>1. badges' = after /\ Controls!Becomes(r, [stage |-> "answer", org |-> request[r].org])
    BY <1>3 DEF Controls!Commit
  <2>2. RevokedIsReplaced(after)
    BY DEF RevokedIsReplaced
  <2>3. ControlsInv'
    BY <1>1, <2>1, <2>2, ControlsMoves
  <2>4. ASSUME NEW c \in Badges, badges[c].state = "revoked", after[c].state # "revoked"
        PROVE  FALSE
    <3>1. PICK d \in Badges : badges[d].state \in LiveStates
      BY <2>4 DEF ControlsInv, RevokedIsReplaced
    <3>2. c = b /\ after[d].state \in LiveStates
      BY <2>4, <3>1
    <3>3. c # d
      BY <2>4, <3>1 DEF LiveStates
    <3>4. QED
      BY <1>3, <3>2, <3>3 DEF Controls!OneLive, LiveStates
  <2>5. QED
    BY <2>1, <2>3, <2>4 DEF StaysRevoked
<1>4. QED
  BY <1>2, <1>3

LEMMA ControlsEnables ==
    ASSUME ControlsInv, NEW r \in Lookups, Controls!EnableBadge(r)
    PROVE  ControlsInv' /\ StaysRevoked
<1>1. PICK b \in Badges : /\ Controls!New(b)
                          /\ Controls!Commit(r, [badges EXCEPT ![b] = Controls!Badge("enabled", FALSE)])
  BY DEF Controls!EnableBadge
<1>2. PICK after : after = [badges EXCEPT ![b] = Controls!Badge("enabled", FALSE)]
  OBVIOUS
<1>3. /\ after \in [Badges -> BadgeRows] /\ after[b].state = "enabled"
      /\ \A c \in Badges : c # b => after[c] = badges[c]
  BY <1>2, RowOf DEF ControlsInv
<1>4. badges[b].state = "none"
  BY <1>1 DEF Controls!New, Controls!NoBadge
<1>5. QED
  BY <1>1, <1>2, <1>3, <1>4, ControlsCommits DEF LiveStates

LEMMA ControlsSets ==
    ASSUME ControlsInv, NEW r \in Lookups, Controls!SetBadge(r)
    PROVE  ControlsInv' /\ StaysRevoked
<1>1. PICK b \in Badges, state \in LiveStates : b = request[r].badge /\ state = request[r].state
  BY DEF Controls!SetBadge, ControlsInv, LookupOK
<1>2. PICK row : row = Controls!Badge(state, badges[b].activated)
  OBVIOUS
<1>3. row \in BadgeRows /\ row.state = state
  <2>1. badges[b].activated \in BOOLEAN /\ state \in {"none", "enabled", "suspended", "revoked"}
    BY <1>1, RowFields DEF ControlsInv, LiveStates
  <2>2. QED
    BY <1>2, <2>1, RowOf
<1>4. PICK after : after = [badges EXCEPT ![b] = row]
  OBVIOUS
<1>5. /\ after \in [Badges -> BadgeRows] /\ after[b].state \in LiveStates
      /\ \A c \in Badges : c # b => after[c] = badges[c]
  BY <1>3, <1>4 DEF ControlsInv
<1>6. Controls!Commit(r, after)
  BY <1>1, <1>2, <1>4 DEF Controls!SetBadge
<1>7. QED
  BY <1>5, <1>6, ControlsCommits

LEMMA ControlsRotates ==
    ASSUME ControlsInv, NEW r \in Lookups, Controls!RotateBadge(r)
    PROVE  ControlsInv' /\ StaysRevoked
<1>1. PICK old \in Badges, row \in BadgeRows : old = request[r].badge /\ row = request[r].row /\ row.state \in LiveStates
  BY DEF Controls!RotateBadge, ControlsInv, LookupOK
<1>2. PICK b \in Badges : /\ Controls!New(b)
                          /\ Controls!Commit(r, [badges EXCEPT ![old] = Controls!Badge("revoked", badges[old].activated),
                                                               ![b] = row])
  BY <1>1 DEF Controls!RotateBadge
<1>3. PICK gone : gone = Controls!Badge("revoked", badges[old].activated)
  OBVIOUS
<1>4. gone \in BadgeRows /\ gone.state = "revoked"
  BY <1>3, RowOf, RowFields DEF ControlsInv
<1>5. PICK after : after = [badges EXCEPT ![old] = gone, ![b] = row]
  OBVIOUS
<1>6. /\ after \in [Badges -> BadgeRows] /\ after[b] = row
      /\ old # b => after[old] = gone
      /\ \A c \in Badges : c # b /\ c # old => after[c] = badges[c]
  BY <1>1, <1>4, <1>5 DEF ControlsInv
<1>7. badges[b].state = "none" /\ Controls!Commit(r, after)
  BY <1>2, <1>3, <1>5 DEF Controls!New, Controls!NoBadge
<1>8. QED
  BY <1>1, <1>4, <1>6, <1>7, ControlsCommits

LEMMA ControlsMarks ==
    ASSUME ControlsInv, NEW r \in Lookups, Controls!MarkActivated(r)
    PROVE  ControlsInv' /\ StaysRevoked
<1>1. PICK b \in Badges : b = request[r].badge
  BY DEF Controls!MarkActivated, ControlsInv, LookupOK
<1>2. PICK row : row = [badges[b] EXCEPT !.activated = TRUE]
  OBVIOUS
<1>3. row \in BadgeRows /\ row.state = badges[b].state
  BY <1>2 DEF ControlsInv, BadgeRows
<1>4. badges' = [badges EXCEPT ![b] = row]
  BY <1>1, <1>2 DEF Controls!MarkActivated
<1>5. badges' \in [Badges -> BadgeRows] /\ \A c \in Badges : badges'[c].state = badges[c].state
  BY <1>3, <1>4 DEF ControlsInv
<1>6. RevokedIsReplaced(badges')
  BY <1>5 DEF ControlsInv, RevokedIsReplaced
<1>7. LookupOK(Controls!Done)
  BY DEF LookupOK, Controls!Done
<1>8. QED
  BY <1>5, <1>6, <1>7, ControlsMoves DEF Controls!MarkActivated, StaysRevoked

\* The badge that was read goes with the request; what is shown of it is its status.
LEMMA ControlsReads ==
    ASSUME ControlsInv, NEW r \in Lookups,
           \/ Controls!BeginLookup(r) \/ Controls!Lookup(r) \/ Controls!AnswerBadge(r) \/ Controls!ReadBadge(r)
    PROVE  badges' = badges /\ \E q : Controls!Becomes(r, q) /\ LookupOK(q)
<1>1. LookupOK(Controls!Done)
  BY DEF LookupOK, Controls!Done
<1>2. \A b \in Badges : LookupOK([stage |-> "mark", badge |-> b])
  BY DEF LookupOK
<1>3. CASE Controls!BeginLookup(r)
  <2>1. PICK b, kept : b \in Badges /\ \/ Controls!Becomes(r, [stage |-> "facts", badge |-> b, row |-> badges[b], kept |-> kept])
                                         \/ Controls!Becomes(r, Controls!Done)
    BY <1>3 DEF Controls!BeginLookup
  <2>2. LookupOK([stage |-> "facts", badge |-> b, row |-> badges[b], kept |-> kept])
    <3>1. PICK row \in BadgeRows : row = badges[b]
      BY <2>1 DEF ControlsInv
    <3>2. LookupOK([stage |-> "facts", badge |-> b, row |-> row, kept |-> kept])
      BY <2>1 DEF LookupOK
    <3>3. QED
      BY <3>1, <3>2
  <2>3. QED
    BY <1>1, <1>3, <2>1, <2>2 DEF Controls!BeginLookup
<1>4. CASE Controls!Lookup(r)
  <2>1. PICK row, b, shown, seen1 :
            /\ row \in BadgeRows /\ row = request[r].row /\ b = request[r].badge
            /\ shown = Controls!Status(row, org) /\ seen1 = Controls!Seen(request[r], shown)
    BY <1>4 DEF Controls!Lookup, ControlsInv, LookupOK
  <2>2. seen1 = shown
    BY <2>1 DEF Controls!Seen, Controls!NotModified
  <2>3. row.state = "revoked" => shown = "revoked"
    BY <2>1 DEF Controls!Status
  <2>4. LookupOK([stage |-> "viewed", state |-> row.state, shows |-> seen1])
    BY <2>2, <2>3 DEF LookupOK
  <2>5. PICK viewed : viewed = [stage |-> "viewed", state |-> row.state, shows |-> seen1]
    OBVIOUS
  <2>6. Controls!AfterReading(r, b, row, org, viewed) /\ badges' = badges
    BY <1>4, <2>1, <2>5 DEF Controls!Lookup
  <2>7. b \in Badges
    BY <1>4 , <2>1 DEF ControlsInv, LookupOK, Controls!Lookup
  <2>8. QED
    BY <1>2, <2>4, <2>5, <2>6, <2>7 DEF Controls!AfterReading
<1>5. CASE Controls!AnswerBadge(r)
  BY <1>1, <1>2, <1>5 DEF Controls!AnswerBadge, Controls!AfterReading
<1>6. CASE Controls!ReadBadge(r)
  <2>1. badges' = badges
    BY <1>6 DEF Controls!ReadBadge
  <2>2. PICK o : o = request[r].org
    OBVIOUS
  <2>3. CASE Controls!Becomes(r, [stage |-> "enable", org |-> o])
    BY <2>1, <2>3 DEF LookupOK
  <2>4. ASSUME NEW b \in Badges, NEW state \in LiveStates,
               Controls!Becomes(r, [stage |-> "set", badge |-> b, state |-> state, org |-> o])
        PROVE  \E q : Controls!Becomes(r, q) /\ LookupOK(q)
    BY <2>4 DEF LookupOK
  <2>5. ASSUME NEW b \in Badges, Controls!Live(b),
               Controls!Becomes(r, [stage |-> "rotate", badge |-> b, row |-> badges[b], org |-> o])
        PROVE  \E q : Controls!Becomes(r, q) /\ LookupOK(q)
    <3>1. PICK row \in BadgeRows : row = badges[b]
      BY DEF ControlsInv
    <3>2. row.state \in LiveStates
      BY <2>5, <3>1 DEF Controls!Live, LiveStates
    <3>3. LookupOK([stage |-> "rotate", badge |-> b, row |-> row, org |-> o])
      BY <3>2 DEF LookupOK
    <3>4. QED
      BY <2>5, <3>1, <3>3
  <2>6. \/ Controls!Becomes(r, [stage |-> "enable", org |-> o])
        \/ \E b \in Badges, state \in LiveStates :
              Controls!Becomes(r, [stage |-> "set", badge |-> b, state |-> state, org |-> o])
        \/ \E b \in Badges : /\ Controls!Live(b)
              /\ Controls!Becomes(r, [stage |-> "rotate", badge |-> b, row |-> badges[b], org |-> o])
    BY <1>6, <2>2 DEF Controls!ReadBadge, LiveStates
  <2>7. QED
    BY <2>1, <2>3, <2>4, <2>5, <2>6
<1>7. QED
  BY <1>3, <1>4, <1>5, <1>6

LEMMA ControlsWrites ==
    ASSUME ControlsInv, NEW r \in Lookups,
           \/ Controls!LoadSession(r) \/ Controls!UpdateSettings(r) \/ Controls!CreateAgent(r) \/ Controls!ReadAgent(r)
           \/ Controls!WriteAgent(r) \/ Controls!CreateKey(r) \/ Controls!RevokeKey(r) \/ Controls!Stop(r)
    PROVE  badges' = badges /\ \E q : Controls!Becomes(r, q) /\ LookupOK(q)
<1>1. badges' = badges
  BY DEF Controls!LoadSession, Controls!UpdateSettings, Controls!CreateAgent, Controls!ReadAgent, Controls!WriteAgent,
     Controls!CreateKey, Controls!RevokeKey, Controls!Stop
<1>2. \A q : q.stage \in {"console", "agent", "done"} => LookupOK(q)
  BY DEF LookupOK
<1>3. CASE Controls!ReadAgent(r)
  <2>1. \/ Controls!Becomes(r, Controls!Done)
        \/ \E a, status1 : Controls!Becomes(r, [stage |-> "agent", agent |-> a, status |-> status1])
    BY <1>3 DEF Controls!ReadAgent
  <2>2. \A a, status1 : LookupOK([stage |-> "agent", agent |-> a, status |-> status1])
    BY <1>2
  <2>3. LookupOK(Controls!Done)
    BY <1>2 DEF Controls!Done
  <2>4. QED
    BY <1>1, <2>1, <2>2, <2>3
<1>4. CASE Controls!LoadSession(r)
  BY <1>1, <1>2, <1>4 DEF Controls!LoadSession
<1>5. CASE ~Controls!ReadAgent(r) /\ ~Controls!LoadSession(r)
  <2>1. Controls!Becomes(r, Controls!Done)
    BY <1>5 DEF Controls!UpdateSettings, Controls!CreateAgent, Controls!WriteAgent, Controls!CreateKey,
       Controls!RevokeKey, Controls!Stop
  <2>2. QED
    BY <1>1, <1>2, <2>1 DEF Controls!Done
<1>6. QED
  BY <1>3, <1>4, <1>5

LEMMA ControlsStep == ASSUME ControlsInv, [Controls!Next]_controlsVars PROVE ControlsInv' /\ StaysRevoked
<1>1. ASSUME UNCHANGED <<badges, request>>
      PROVE  ControlsInv' /\ StaysRevoked
  BY <1>1 DEF ControlsInv, RevokedIsReplaced, LookupOK, StaysRevoked
<1>2. CASE UNCHANGED controlsVars \/ Controls!Surroundings
  BY <1>1, <1>2 DEF controlsVars, Controls!Surroundings
<1>3. ASSUME NEW r \in Lookups, badges' = badges, \E q : Controls!Becomes(r, q) /\ LookupOK(q)
      PROVE  ControlsInv' /\ StaysRevoked
  BY <1>3, ControlsMoves DEF ControlsInv, StaysRevoked
<1>4. ASSUME NEW r \in Lookups,
             \/ Controls!BeginLookup(r) \/ Controls!Lookup(r) \/ Controls!MarkActivated(r) \/ Controls!LoadSession(r)
             \/ Controls!UpdateSettings(r) \/ Controls!CreateAgent(r) \/ Controls!ReadAgent(r)
             \/ Controls!WriteAgent(r) \/ Controls!CreateKey(r) \/ Controls!RevokeKey(r)
             \/ Controls!AnswerBadge(r) \/ Controls!ReadBadge(r) \/ Controls!EnableBadge(r)
             \/ Controls!SetBadge(r) \/ Controls!RotateBadge(r) \/ Controls!Stop(r)
      PROVE  ControlsInv' /\ StaysRevoked
  <2>1. CASE \/ Controls!BeginLookup(r) \/ Controls!Lookup(r) \/ Controls!AnswerBadge(r) \/ Controls!ReadBadge(r)
    BY <1>3, <2>1, ControlsReads
  <2>2. CASE \/ Controls!LoadSession(r) \/ Controls!UpdateSettings(r) \/ Controls!CreateAgent(r)
             \/ Controls!ReadAgent(r) \/ Controls!WriteAgent(r) \/ Controls!CreateKey(r) \/ Controls!RevokeKey(r)
             \/ Controls!Stop(r)
    BY <1>3, <2>2, ControlsWrites
  <2>3. QED
    BY <1>4, <2>1, <2>2, ControlsEnables, ControlsSets, ControlsRotates, ControlsMarks
<1>5. QED
  BY <1>2, <1>4 DEF Controls!Next

LEMMA ControlsInvariance == SpecOfAll => [](focus = "controls" => ControlsInv)
<1>1. InitOfAll => (focus = "controls" => ControlsInv)
  BY ControlsInit DEF InitOfAll
<1>2. (focus = "controls" => ControlsInv) /\ [NextOfAll]_everything => (focus = "controls" => ControlsInv)'
  BY Focus, ControlsStep
<1>3. QED
  BY <1>1, <1>2, PTL DEF SpecOfAll

\* A revoked badge token stays revoked, whatever else was under way when it was rotated, and is
\* shown as revoked. (badge.ts:84, :92, :101, badge/routes.ts:52)
THEOREM TokensStayRevoked == SpecOfAll => RevokedTokensStayRevoked
<1>1. ControlsInv => \A r \in DOMAIN request :
         request[r].stage = "viewed" /\ request[r].state = "revoked" => request[r].shows = "revoked"
  BY DEF ControlsInv, LookupOK
<1>2. (focus = "controls" => ControlsInv) /\ [NextOfAll]_everything
         => [focus = "controls" =>
               /\ \A b \in Badges : badges[b].state = "revoked" => badges'[b].state = "revoked"
               /\ \A r \in DOMAIN request :
                    request[r].stage = "viewed" /\ request[r].state = "revoked"
                       => request[r].shows = "revoked"]_<<badges, request>>
  BY <1>1, Focus, ControlsStep DEF StaysRevoked
<1>3. QED
  BY <1>2, ControlsInvariance, PTL DEF SpecOfAll, RevokedTokensStayRevoked

----------------------------------------------------------------------------
(* AuditTrail: each page goes on exactly where the list it was asked for ends, and nothing that  *)
(* the list would have to show can come in before its end.                                      *)

\* A page of rows of L that the filter f lets through, beyond `after'.
PageOK(page, f, after, L) ==
    /\ page.rows \in Seq(LogRows)
    /\ \A i \in 1..(Len(page.rows) - 1) : Trail!Newer(page.rows[i], page.rows[i + 1])
    /\ after # None => \A i \in 1..Len(page.rows) : Trail!Newer(after, page.rows[i])
    /\ page.next # None => Len(page.rows) > 0 /\ page.next = page.rows[Len(page.rows)]
    /\ \A row \in L :
          Trail!Matches(row, f) /\ (after # None => Trail!Newer(after, row))
             /\ (page.next # None => Trail!Newer(row, page.next))
          => \E i \in 1..Len(page.rows) : page.rows[i] = row

Under(n) == pages[n].stage \in {"sent", "served"}
AsksMore(n) == Under(n) /\ pages[n].after # None

CallOK(n) ==
    /\ n > sent => pages[n].stage = "unsent"
    /\ Under(n) => pages[n].of \in 0..sent /\ (pages[n].after = None \/ pages[n].after \in LogRows)
    /\ n = first /\ Under(n) /\ pages[n].after = None =>
          /\ pages[n].stage = "sent" => pages[n].filter = filter
          /\ pages[n].stage = "served" =>
                pages[n].log \subseteq log /\ PageOK(pages[n].page, filter, None, pages[n].log)
    /\ AsksMore(n) =>
          /\ loadingMore
          /\ pages[n].of # 0 => pages[pages[n].of].stage = "settled"
          /\ pages[n].of = list /\ list # 0 =>
                /\ pages[n].after = cursor
                /\ pages[n].stage = "sent" => pages[n].filter = filter
                /\ pages[n].stage = "served" => PageOK(pages[n].page, filter, cursor, base)
    /\ pages[n].stage = "served" => pages[n].page.rows \in Seq(LogRows) /\ pages[n].page.next \in log \cup {None}

ListOK ==
    /\ rows \in Seq(LogRows)
    /\ base \subseteq log
    /\ PageOK([rows |-> rows, next |-> cursor], filter, None, base)

TrailInv ==
    /\ log \subseteq LogRows
    /\ \A a, b \in log : a.id = b.id => a = b
    /\ DOMAIN pages = 1..MaxCalls
    /\ sent \in 0..MaxCalls /\ first \in 0..sent /\ list \in 0..sent
    /\ list # 0 => pages[list].stage = "settled"
    /\ rows = None \/ rows \in Seq(LogRows)
    /\ cursor = None \/ cursor \in log
    /\ \A n \in 1..MaxCalls : CallOK(n)
    /\ \A n, m \in 1..MaxCalls : AsksMore(n) /\ AsksMore(m) => n = m
    /\ list # 0 => ListOK

LEMMA TrailInit == ASSUME Trail!Init PROVE TrailInv
<1>1. \A n \in 1..MaxCalls : pages[n].stage = "unsent"
  BY DEF Trail!Init, Trail!Unsent
<1>2. \A n \in 1..MaxCalls : CallOK(n)
  BY <1>1 DEF CallOK, Under, AsksMore
<1>3. \A n, m \in 1..MaxCalls : AsksMore(n) /\ AsksMore(m) => n = m
  BY <1>1 DEF Under, AsksMore
<1>4. QED
  BY <1>2, <1>3, KeyedResourceAssumption DEF Trail!Init, TrailInv

\* Rows are told apart by time and id, and ordered by them.
LEMMA NewerIsAnOrder ==
    ASSUME NEW a \in LogRows, NEW b \in LogRows, NEW c \in LogRows
    PROVE  /\ Trail!Newer(a, b) \/ Trail!Newer(b, a) \/ (a.at = b.at /\ a.id = b.id)
           /\ Trail!Newer(a, b) => ~Trail!Newer(b, a)
           /\ Trail!Newer(a, b) /\ Trail!Newer(b, c) => Trail!Newer(a, c)
           /\ Trail!BeyondCursor(b, a) <=> Trail!Newer(a, b)
<1>1. \A x \in LogRows : x.at \in Nat /\ x.id \in Nat
  BY TrailAssumption DEF LogRows
<1>2. QED
  BY <1>1 DEF Trail!Newer, Trail!BeyondCursor

\* What the query finds is a page.
LEMMA QueriedPage ==
    ASSUME log \subseteq LogRows, NEW f, NEW after, after = None \/ after \in LogRows,
           NEW rs, rs \in Trail!BoundedSeq(Trail!Found(f, after), PAGE), Trail!IsPage(rs, Trail!Found(f, after)),
           NEW page, page = [rows |-> rs, next |-> Trail!NextCursor(rs, Trail!Found(f, after))]
    PROVE  PageOK(page, f, after, log) /\ page.next \in log \cup {None}
<1>1. PICK found : found = Trail!Found(f, after)
  OBVIOUS
<1>2. found \subseteq LogRows /\ found \subseteq log
  BY <1>1 DEF Trail!Found
<1>3. PICK m \in Nat : m <= PAGE /\ rs \in [1..m -> found]
  BY <1>1, TrailAssumption DEF Trail!BoundedSeq, Trail!SeqOf
<1>4. rs \in Seq(found) /\ rs \in Seq(LogRows) /\ Len(rs) = m /\ DOMAIN rs = 1..m
  BY <1>2, <1>3
<1>5. /\ \A i \in 1..(m - 1) : Trail!Newer(rs[i], rs[i + 1])
      /\ \A row \in found \ Trail!Range(rs) : m = PAGE /\ Trail!Newer(rs[m], row)
  BY <1>1, <1>4 DEF Trail!IsPage, Trail!Last
<1>6. \A row : row \in Trail!Range(rs) <=> \E i \in 1..m : rs[i] = row
  BY <1>4 DEF Trail!Range
<1>7. page.rows = rs /\ page.next = IF found \subseteq Trail!Range(rs) THEN None ELSE rs[m]
  BY <1>1, <1>4 DEF Trail!NextCursor, Trail!Last
<1>8. page.next # None => m > 0 /\ page.next = rs[m] /\ rs[m] \in log
  <2>1. CASE found \subseteq Trail!Range(rs)
    BY <1>7, <2>1
  <2>2. CASE ~(found \subseteq Trail!Range(rs))
    <3>1. m = PAGE /\ m > 0
      BY <1>3, <1>5, <2>2, TrailAssumption
    <3>2. m \in 1..m
      BY <1>3, <3>1
    <3>3. QED
      BY <1>2, <1>3, <1>7, <2>2, <3>1, <3>2
  <2>3. QED
    BY <2>1, <2>2
<1>9. ASSUME after # None, NEW i \in 1..m
      PROVE  Trail!Newer(after, rs[i])
  <2>1. rs[i] \in found
    BY <1>3
  <2>2. Trail!BeyondCursor(rs[i], after)
    BY <1>1, <1>9, <2>1 DEF Trail!Found
  <2>3. QED
    BY <1>2, <1>9, <2>1, <2>2, NewerIsAnOrder
<1>10. ASSUME NEW row \in log, Trail!Matches(row, f), after # None => Trail!Newer(after, row),
              page.next # None => Trail!Newer(row, page.next)
       PROVE  \E i \in 1..m : rs[i] = row
  <2>1. row \in found
    BY <1>1, <1>10, NewerIsAnOrder DEF Trail!Found
  <2>2. CASE row \in Trail!Range(rs)
    BY <1>6, <2>2
  <2>3. CASE row \notin Trail!Range(rs)
    <3>1. m = PAGE /\ Trail!Newer(rs[m], row) /\ m > 0
      BY <1>5, <2>1, <2>3, TrailAssumption
    <3>2. rs[m] \in LogRows /\ row \in LogRows
      BY <1>2, <1>3, <2>1, <3>1
    <3>3. page.next = rs[m]
      BY <1>7, <2>1, <2>3
    <3>4. page.next # None
      BY <3>2, <3>3, TrailAssumption
    <3>5. QED
      BY <1>10, <3>1, <3>2, <3>3, <3>4, NewerIsAnOrder
  <2>4. QED
    BY <2>2, <2>3
<1>11. QED
  BY <1>4, <1>5, <1>7, <1>8, <1>9, <1>10 DEF PageOK

\* A page that goes on where the list ends makes a longer list of it.
LEMMA LongerList ==
    ASSUME log \subseteq LogRows, \A a, b \in log : a.id = b.id => a = b, base \subseteq log,
           rows \in Seq(LogRows), cursor \in log,
           NEW page, page.next \in log \cup {None},
           PageOK([rows |-> rows, next |-> cursor], filter, None, base), PageOK(page, filter, cursor, base),
           NEW longer, longer = [rows |-> rows \o page.rows, next |-> page.next]
    PROVE  PageOK(longer, filter, None, base)
<1>1. cursor # None /\ cursor \in LogRows
  BY TrailAssumption
<1>0. page.rows \in Seq(LogRows)
  BY DEF PageOK
<1>2. PICK n \in Nat, m \in Nat : n = Len(rows) /\ m = Len(page.rows)
  BY <1>0
<1>20. PICK old \in Seq(LogRows), new \in Seq(LogRows) : old = rows /\ new = page.rows
  BY <1>0
<1>21. PICK all \in Seq(LogRows) : all = old \o new
  <2>1. old \o new \in Seq(LogRows)
    OBVIOUS
  <2>2. QED
    BY <2>1
<1>11. n = Len(old) /\ m = Len(new) /\ Len(all) = n + m /\ all = rows \o page.rows
  BY <1>2, <1>20, <1>21
<1>3. /\ \A i \in 1..n : all[i] = old[i] /\ old[i] \in LogRows
      /\ \A i \in 1..m : all[n + i] = new[i] /\ new[i] \in LogRows
  BY <1>11, <1>21
<1>4. /\ \A i \in 1..(n - 1) : Trail!Newer(old[i], old[i + 1])
      /\ n > 0 /\ old[n] = cursor
      /\ \A row \in base : Trail!Matches(row, filter) /\ Trail!Newer(row, cursor) => \E i \in 1..n : old[i] = row
  BY <1>1, <1>11, <1>20 DEF PageOK
<1>5. /\ \A i \in 1..(m - 1) : Trail!Newer(new[i], new[i + 1])
      /\ \A i \in 1..m : Trail!Newer(cursor, new[i])
      /\ page.next # None => m > 0 /\ page.next = new[m]
      /\ \A row \in base :
            Trail!Matches(row, filter) /\ Trail!Newer(cursor, row) /\ (page.next # None => Trail!Newer(row, page.next))
            => \E i \in 1..m : new[i] = row
  BY <1>1, <1>11, <1>20 DEF PageOK
<1>6. ASSUME NEW i \in 1..(n + m - 1)
      PROVE  Trail!Newer(all[i], all[i + 1])
  <2>1. CASE i < n
    <3>1. i \in 1..(n - 1) /\ i \in 1..n /\ i + 1 \in 1..n
      BY <2>1
    <3>2. QED
      BY <1>3, <1>4, <3>1
  <2>2. CASE i = n
    <3>1. 1 \in 1..m /\ n \in 1..n /\ i + 1 = n + 1
      BY <1>4, <2>2
    <3>2. all[i] = cursor /\ all[i + 1] = new[1]
      BY <1>3, <1>4, <2>2, <3>1
    <3>3. QED
      BY <1>5, <3>1, <3>2
  <2>3. CASE i > n
    <3>1. PICK k \in 1..(m - 1) : i = n + k
      <4>1. i - n \in 1..(m - 1) /\ i = n + (i - n)
        BY <2>3
      <4>2. QED
        BY <4>1
    <3>2. k \in 1..m /\ k + 1 \in 1..m /\ i + 1 = n + (k + 1)
      BY <3>1
    <3>3. all[i] = new[k] /\ all[i + 1] = new[k + 1]
      BY <1>3, <3>1, <3>2
    <3>4. QED
      BY <1>5, <3>1, <3>3
  <2>4. QED
    BY <2>1, <2>2, <2>3
<1>7. page.next # None => n + m > 0 /\ page.next = all[n + m]
  <2>1. page.next # None => m \in 1..m
    BY <1>5
  <2>2. QED
    BY <1>3, <1>5, <2>1
<1>8. ASSUME NEW row \in base, Trail!Matches(row, filter), page.next # None => Trail!Newer(row, page.next)
      PROVE  \E i \in 1..(n + m) : all[i] = row
  <2>1. CASE Trail!Newer(row, cursor)
    <3>1. PICK i \in 1..n : old[i] = row
      BY <1>4, <1>8, <2>1
    <3>2. i \in 1..(n + m) /\ all[i] = row
      BY <1>3, <3>1
    <3>3. QED
      BY <3>2
  <2>2. CASE Trail!Newer(cursor, row)
    <3>1. PICK i \in 1..m : new[i] = row
      BY <1>5, <1>8, <2>2
    <3>2. n + i \in 1..(n + m) /\ all[n + i] = row
      BY <1>3, <3>1
    <3>3. QED
      BY <3>2
  <2>3. CASE row.at = cursor.at /\ row.id = cursor.id
    <3>1. row = cursor
      BY <2>3
    <3>2. n \in 1..(n + m) /\ all[n] = row
      BY <1>3, <1>4, <3>1
    <3>3. QED
      BY <3>2
  <2>4. QED
    BY <1>1, <2>1, <2>2, <2>3, NewerIsAnOrder
<1>9. longer.rows = all /\ longer.next = page.next
  BY <1>11
<1>10. /\ all \in Seq(LogRows)
       /\ \A i \in 1..(Len(all) - 1) : Trail!Newer(all[i], all[i + 1])
       /\ page.next # None => Len(all) > 0 /\ page.next = all[Len(all)]
       /\ \A row \in base : Trail!Matches(row, filter) /\ (page.next # None => Trail!Newer(row, page.next))
             => \E i \in 1..Len(all) : all[i] = row
  <2>1. Len(all) = n + m
    BY <1>11
  <2>2. \A i \in 1..(Len(all) - 1) : Trail!Newer(all[i], all[i + 1])
    BY <1>6, <2>1
  <2>3. page.next # None => Len(all) > 0 /\ page.next = all[Len(all)]
    BY <1>7, <2>1
  <2>4. \A row \in base : Trail!Matches(row, filter) /\ (page.next # None => Trail!Newer(row, page.next))
             => \E i \in 1..Len(all) : all[i] = row
    BY <1>8, <2>1
  <2>5. QED
    BY <2>2, <2>3, <2>4
<1>12. PageOK(longer, filter, None, base)
  BY <1>9, <1>10 DEF PageOK
<1>13. QED
  BY <1>12

----------------------------------------------------------------------------
(* The steps *)

LEMMA TrailCommits == ASSUME TrailInv, Trail!Commit PROVE TrailInv'
<1>1. /\ UNCHANGED <<filter, rows, cursor, loadingMore, first, pages, sent, base, list>>
      /\ log \subseteq log' /\ log' \subseteq LogRows /\ \A a, b \in log' : a.id = b.id => a = b
  <2>1. PICK at \in Times, i \in Trail!Unused, j \in Trail!Unused, kind \in Kinds \cup {"other"} :
          log' = log \cup {[at |-> at, id |-> id, kind |-> kind] : id \in {i, j}}
    BY DEF Trail!Commit
  <2>2. \A id \in {i, j} : id \in Ids /\ \A row \in log : row.id # id
    BY <2>1 DEF Trail!Unused
  <2>3. QED
    BY <2>1, <2>2 DEF Trail!Commit, Trail!listVars, TrailInv, LogRows
<1>2. ASSUME NEW n \in 1..MaxCalls
      PROVE  CallOK(n)'
  BY <1>1 DEF TrailInv, CallOK, Under, AsksMore
<1>3. list # 0 => ListOK'
  BY <1>1 DEF TrailInv, ListOK
<1>4. \A n, m \in 1..MaxCalls : (AsksMore(n) /\ AsksMore(m) => n = m)'
  BY <1>1 DEF TrailInv, Under, AsksMore
<1>5. QED
  BY <1>1, <1>2, <1>3, <1>4 DEF TrailInv

\* A new list: nothing that is still awaited belongs to it.
LEMMA TrailOpens == ASSUME TrailInv, Trail!Open PROVE TrailInv'
<1>1. PICK f : filter' = f /\ Trail!Request(f, None, sent + 1)
  BY DEF Trail!Open
<1>2. PICK s \in 1..MaxCalls : s = sent + 1 /\ sent' = s /\ first' = s /\ list' = 0 /\ sent \in Nat
  BY <1>1, KeyedResourceAssumption DEF Trail!Open, Trail!Request, TrailInv
<1>3. PICK q : q = [stage |-> "sent", filter |-> f, after |-> None, of |-> s]
  OBVIOUS
<1>4. q.stage = "sent" /\ q.filter = f /\ q.after = None /\ q.of = s
  BY <1>3
<1>5. /\ DOMAIN pages' = 1..MaxCalls
      /\ \A n \in 1..MaxCalls : pages'[n] = IF n = s THEN q ELSE pages[n]
  BY <1>1, <1>2, <1>3 DEF Trail!Request, TrailInv
<1>6. UNCHANGED <<log, cursor, loadingMore, base>> /\ rows' = None /\ s \notin 0..sent /\ 0..sent \subseteq 0..s
  BY <1>2 DEF Trail!Open
<1>7. ASSUME NEW n \in 1..MaxCalls
      PROVE  CallOK(n)' /\ (AsksMore(n)' => n # s /\ AsksMore(n))
  <2>1. CASE n = s
    <3>1. ~AsksMore(n)'
      BY <1>4, <1>5, <2>1 DEF AsksMore
    <3>2. QED
      BY <1>1, <1>2, <1>4, <1>5, <1>6, <2>1, <3>1 DEF CallOK, Under
  <2>2. CASE n # s
    <3>1. pages'[n] = pages[n] /\ n # first' /\ CallOK(n) /\ pages[s].stage = "unsent"
      BY <1>2, <1>5, <2>2 DEF TrailInv, CallOK
    <3>2. AsksMore(n) /\ pages[n].of # 0 => pages[n].of # s /\ pages[n].of \in 1..MaxCalls
      <4>1. HAVE AsksMore(n) /\ pages[n].of # 0
      <4>2. pages[n].of \in 1..sent /\ pages[pages[n].of].stage = "settled"
        BY <1>2, <3>1, <4>1 DEF CallOK, AsksMore, Under
      <4>3. QED
        BY <1>2, <3>1, <4>2, KeyedResourceAssumption
    <3>3. QED
      BY <1>2, <1>5, <1>6, <2>2, <3>1, <3>2 DEF CallOK, Under, AsksMore
  <2>3. QED
    BY <2>1, <2>2
<1>8. QED
  BY <1>2, <1>5, <1>6, <1>7 DEF TrailInv

LEMMA TrailServes == ASSUME TrailInv, NEW n \in 1..sent, Trail!Serve(n) PROVE TrailInv'
<1>1. n \in 1..MaxCalls /\ pages[n].stage = "sent" /\ CallOK(n)
  BY KeyedResourceAssumption DEF Trail!Serve, TrailInv
<1>2. PICK f, after, of : f = pages[n].filter /\ after = pages[n].after /\ of = pages[n].of
  OBVIOUS
<1>3. PICK rs : /\ rs \in Trail!BoundedSeq(Trail!Found(f, after), PAGE) /\ Trail!IsPage(rs, Trail!Found(f, after))
                /\ pages' = [pages EXCEPT ![n] =
                      [stage |-> "served", after |-> after, of |-> of, log |-> log,
                       page |-> [rows |-> rs, next |-> Trail!NextCursor(rs, Trail!Found(f, after))]]]
  BY <1>2 DEF Trail!Serve
<1>4. PICK page : page = [rows |-> rs, next |-> Trail!NextCursor(rs, Trail!Found(f, after))]
  OBVIOUS
<1>5. (after = None \/ after \in LogRows) /\ of \in 0..sent
  BY <1>1, <1>2 DEF CallOK, Under
<1>6. PageOK(page, f, after, log) /\ page.next \in log \cup {None} /\ page.rows \in Seq(LogRows)
  BY <1>3, <1>4, <1>5, QueriedPage DEF TrailInv, PageOK
<1>7. PICK q : q = [stage |-> "served", after |-> after, of |-> of, log |-> log, page |-> page]
  OBVIOUS
<1>8. q.stage = "served" /\ q.after = after /\ q.of = of /\ q.log = log /\ q.page = page
  BY <1>7
<1>9. /\ DOMAIN pages' = 1..MaxCalls
      /\ \A m \in 1..MaxCalls : pages'[m] = IF m = n THEN q ELSE pages[m]
  BY <1>1, <1>3, <1>4, <1>7 DEF TrailInv
<1>10. UNCHANGED <<log, filter, rows, cursor, loadingMore, first, sent, base, list>>
  BY DEF Trail!Serve
<1>11. \A m \in 1..MaxCalls : /\ AsksMore(m)' <=> AsksMore(m)
                              /\ pages[m].stage = "settled" => pages'[m].stage = "settled"
  BY <1>1, <1>2, <1>8, <1>9 DEF AsksMore, Under
<1>12. CallOK(n)'
  <2>1. n = first /\ after = None => PageOK(page, filter, None, log)
    BY <1>1, <1>2, <1>6 DEF CallOK, Under
  <2>2. after # None => loadingMore /\ (of # 0 => pages[of].stage = "settled" /\ of \in 1..MaxCalls)
    BY <1>1, <1>2, <1>5, KeyedResourceAssumption DEF CallOK, AsksMore, Under, TrailInv
  <2>3. after # None /\ of = list /\ list # 0 => after = cursor /\ PageOK(page, filter, cursor, base)
    <3>1. HAVE after # None /\ of = list /\ list # 0
    <3>2. after = cursor /\ f = filter /\ base \subseteq log
      BY <1>1, <1>2, <3>1 DEF CallOK, AsksMore, Under, TrailInv, ListOK
    <3>3. QED
      BY <1>6, <3>2 DEF PageOK
  <2>4. QED
    BY <1>1, <1>5, <1>6, <1>8, <1>9, <1>10, <1>11, <2>1, <2>2, <2>3 DEF CallOK, Under, AsksMore
<1>13. ASSUME NEW m \in 1..MaxCalls, m # n
       PROVE  CallOK(m)'
  <2>1. pages'[m] = pages[m] /\ CallOK(m)
    BY <1>9, <1>13 DEF TrailInv
  <2>2. AsksMore(m) /\ pages[m].of # 0 => pages[m].of \in 1..MaxCalls
    BY <2>1, KeyedResourceAssumption DEF TrailInv, CallOK, AsksMore, Under
  <2>3. QED
    BY <1>10, <1>11, <2>1, <2>2 DEF CallOK, Under, AsksMore
<1>14. list # 0 => ListOK' /\ pages'[list].stage = "settled"
  <2>1. list # 0 => list \in 1..MaxCalls
    BY KeyedResourceAssumption DEF TrailInv
  <2>2. QED
    BY <1>10, <1>11, <2>1 DEF TrailInv, ListOK
<1>15. QED
  BY <1>9, <1>10, <1>11, <1>12, <1>13, <1>14 DEF TrailInv

\* A call that is settled leaves the others as they are.
LEMMA TrailSettles ==
    ASSUME TrailInv, NEW n \in 1..sent, Under(n),
           pages' = [pages EXCEPT ![n] = Trail!Settled], UNCHANGED <<log, sent>>
    PROVE  /\ n \in 1..MaxCalls
           /\ DOMAIN pages' = 1..MaxCalls
           /\ pages'[n].stage = "settled" /\ ~Under(n)' /\ ~AsksMore(n)'
           /\ \A m \in 1..MaxCalls : /\ m # n => pages'[m] = pages[m]
                                     /\ AsksMore(m)' => AsksMore(m) /\ m # n
                                     /\ pages[m].stage = "settled" => pages'[m].stage = "settled"
           /\ \A m \in 1..MaxCalls : AsksMore(m) /\ pages[m].of # 0 =>
                 pages[m].of \in 1..MaxCalls /\ pages[m].of # n /\ pages'[pages[m].of].stage = "settled"
           /\ list # 0 => list \in 1..MaxCalls /\ pages'[list].stage = "settled"
<1>1. n \in 1..MaxCalls /\ \A m \in 1..MaxCalls : CallOK(m)
  BY KeyedResourceAssumption DEF TrailInv
<1>2. /\ DOMAIN pages' = 1..MaxCalls
      /\ \A m \in 1..MaxCalls : pages'[m] = IF m = n THEN Trail!Settled ELSE pages[m]
  BY <1>1 DEF TrailInv
<1>3. /\ pages'[n].stage = "settled" /\ ~Under(n)' /\ ~AsksMore(n)'
      /\ \A m \in 1..MaxCalls : /\ m # n => pages'[m] = pages[m]
                                /\ AsksMore(m)' => AsksMore(m) /\ m # n
                                /\ pages[m].stage = "settled" => pages'[m].stage = "settled"
  BY <1>1, <1>2 DEF Under, AsksMore, Trail!Settled
<1>4. ASSUME NEW m \in 1..MaxCalls, AsksMore(m), pages[m].of # 0
      PROVE  pages[m].of \in 1..MaxCalls /\ pages[m].of # n /\ pages'[pages[m].of].stage = "settled"
  <2>1. pages[m].of \in 0..sent /\ pages[pages[m].of].stage = "settled"
    BY <1>1, <1>4 DEF CallOK, AsksMore
  <2>2. pages[m].of \in 1..MaxCalls
    BY <1>4, <2>1, KeyedResourceAssumption DEF TrailInv
  <2>3. QED
    BY <1>2, <1>3, <2>1, <2>2 DEF Under
<1>5. list # 0 => list \in 1..MaxCalls /\ pages'[list].stage = "settled"
  BY <1>3, KeyedResourceAssumption DEF TrailInv
<1>6. QED
  BY <1>1, <1>2, <1>3, <1>4, <1>5

LEMMA SettledCallOK ==
    ASSUME NEW n \in 1..sent, pages'[n].stage = "settled", sent' = sent, sent \in Nat
    PROVE  CallOK(n)'
BY DEF CallOK, Under, AsksMore

LEMMA TrailShowsFirst == ASSUME TrailInv, NEW n \in 1..sent, Trail!ShowFirst(n) PROVE TrailInv'
<1>1. Under(n) /\ ~AsksMore(n) /\ pages[n].stage = "served" /\ pages[n].after = None
  BY DEF Trail!ShowFirst, Under, AsksMore
<1>2. UNCHANGED <<log, filter, loadingMore, first, sent>> /\ pages' = [pages EXCEPT ![n] = Trail!Settled]
  BY DEF Trail!ShowFirst
<1>3. /\ n \in 1..MaxCalls /\ DOMAIN pages' = 1..MaxCalls
      /\ pages'[n].stage = "settled" /\ ~Under(n)' /\ ~AsksMore(n)'
      /\ \A m \in 1..MaxCalls : /\ m # n => pages'[m] = pages[m]
                                /\ AsksMore(m)' => AsksMore(m) /\ m # n
      /\ \A m \in 1..MaxCalls : AsksMore(m) /\ pages[m].of # 0 =>
            pages[m].of \in 1..MaxCalls /\ pages[m].of # n /\ pages'[pages[m].of].stage = "settled"
      /\ list # 0 => list \in 1..MaxCalls /\ pages'[list].stage = "settled"
  BY <1>1, <1>2, TrailSettles
<1>4. CallOK(n)
  BY <1>3 DEF TrailInv
<1>5. CASE n = first
  <2>1. rows' = pages[n].page.rows /\ cursor' = pages[n].page.next /\ base' = pages[n].log /\ list' = n
    BY <1>5 DEF Trail!ShowFirst
  <2>2. /\ pages[n].log \subseteq log /\ PageOK(pages[n].page, filter, None, pages[n].log)
        /\ pages[n].page.rows \in Seq(LogRows) /\ pages[n].page.next \in log \cup {None}
    BY <1>1, <1>4, <1>5 DEF CallOK
  <2>3. ListOK'
    <3>1. PageOK([rows |-> pages[n].page.rows, next |-> pages[n].page.next], filter, None, pages[n].log)
      BY <2>2 DEF PageOK
    <3>2. QED
      BY <1>2, <2>1, <2>2, <3>1 DEF ListOK
  <2>4. ASSUME NEW m \in 1..MaxCalls
        PROVE  CallOK(m)'
    <3>1. CASE m = n
      BY <1>2, <1>3, <3>1, SettledCallOK DEF TrailInv
    <3>2. CASE m # n
      <4>1. pages'[m] = pages[m] /\ CallOK(m)
        BY <1>3, <3>2 DEF TrailInv
      <4>2. AsksMore(m) => pages[m].of # list'
        BY <1>3, <2>1 
      <4>3. AsksMore(m) /\ pages[m].of # 0 => pages'[pages'[m].of].stage = "settled"
        BY <1>3, <4>1
      <4>4. (AsksMore(m)' <=> AsksMore(m)) /\ (Under(m)' <=> Under(m))
        BY <4>1 DEF AsksMore, Under
      <4>5. QED
        BY <1>2, <1>5, <2>1, <3>2, <4>1, <4>2, <4>3, <4>4 DEF CallOK
    <3>3. QED
      BY <3>1, <3>2
  <2>5. QED
    BY <1>2, <1>3, <2>1, <2>2, <2>3, <2>4 DEF TrailInv
<1>6. CASE n # first
  <2>1. UNCHANGED <<rows, cursor, base, list>>
    BY <1>6 DEF Trail!ShowFirst
  <2>2. ASSUME NEW m \in 1..MaxCalls
        PROVE  CallOK(m)'
    <3>1. CASE m = n
      BY <1>2, <1>3, <3>1, SettledCallOK DEF TrailInv
    <3>2. CASE m # n
      <4>1. pages'[m] = pages[m] /\ CallOK(m)
        BY <1>3, <3>2 DEF TrailInv
      <4>2. AsksMore(m) /\ pages[m].of # 0 => pages'[pages'[m].of].stage = "settled"
        BY <1>3, <4>1
      <4>3. (AsksMore(m)' <=> AsksMore(m)) /\ (Under(m)' <=> Under(m))
        BY <4>1 DEF AsksMore, Under
      <4>4. QED
        BY <1>2, <2>1, <4>1, <4>2, <4>3 DEF CallOK
    <3>3. QED
      BY <3>1, <3>2
  <2>3. ListOK <=> ListOK'
    BY <1>2, <2>1 DEF ListOK
  <2>4. QED
    BY <1>2, <1>3, <2>1, <2>2, <2>3 DEF TrailInv
<1>7. QED
  BY <1>5, <1>6

LEMMA TrailLoads == ASSUME TrailInv, Trail!LoadMore PROVE TrailInv'
<1>1. /\ cursor # None /\ ~loadingMore /\ loadingMore' /\ Trail!Request(filter, cursor, list)
      /\ UNCHANGED <<log, filter, rows, cursor, first, base, list>>
  BY DEF Trail!LoadMore
<1>2. PICK s \in 1..MaxCalls : s = sent + 1 /\ sent' = s /\ sent \in Nat
  BY <1>1, KeyedResourceAssumption DEF Trail!Request, TrailInv
<1>3. PICK q : q = [stage |-> "sent", filter |-> filter, after |-> cursor, of |-> list]
  OBVIOUS
<1>4. q.stage = "sent" /\ q.filter = filter /\ q.after = cursor /\ q.of = list
  BY <1>3
<1>5. /\ DOMAIN pages' = 1..MaxCalls
      /\ \A n \in 1..MaxCalls : pages'[n] = IF n = s THEN q ELSE pages[n]
  BY <1>1, <1>2, <1>3 DEF Trail!Request, TrailInv
<1>6. pages[s].stage = "unsent" /\ 0..sent \subseteq 0..s /\ first \in 0..s /\ list \in 0..s
  BY <1>2 DEF TrailInv, CallOK
<1>7. \A n \in 1..MaxCalls : ~AsksMore(n)
  BY <1>1 DEF TrailInv, CallOK
<1>8. \A n \in 1..MaxCalls : AsksMore(n)' => n = s
  BY <1>5, <1>7 DEF AsksMore, Under
<1>9. list # 0 => list # s /\ list \in 1..MaxCalls /\ pages'[list].stage = "settled"
  BY <1>5, <1>6, KeyedResourceAssumption DEF TrailInv
<1>10. cursor \in LogRows
  BY <1>1 DEF TrailInv
<1>11. CallOK(s)'
  BY <1>1, <1>2, <1>4, <1>5, <1>6, <1>9, <1>10 DEF CallOK, Under, AsksMore
<1>12. ASSUME NEW n \in 1..MaxCalls, n # s
       PROVE  CallOK(n)'
  <2>1. pages'[n] = pages[n] /\ CallOK(n) /\ ~AsksMore(n)'
    BY <1>5, <1>8, <1>12 DEF TrailInv
  <2>2. QED
    BY <1>1, <1>2, <1>6, <2>1 DEF CallOK, Under
<1>13. ListOK <=> ListOK'
  BY <1>1 DEF ListOK
<1>14. QED
  BY <1>1, <1>2, <1>5, <1>6, <1>8, <1>9, <1>11, <1>12, <1>13 DEF TrailInv

\* The page that was awaited is appended: to the list it was asked for, or to something mixed.
LEMMA TrailShowsMore == ASSUME TrailInv, NEW n \in 1..sent, Trail!ShowMore(n) PROVE TrailInv'
<1>1. Under(n) /\ AsksMore(n) /\ pages[n].stage = "served"
  BY DEF Trail!ShowMore, Under, AsksMore
<1>2. /\ UNCHANGED <<log, filter, first, sent, base>> /\ pages' = [pages EXCEPT ![n] = Trail!Settled]
      /\ cursor' = pages[n].page.next /\ rows' = (IF rows = None THEN <<>> ELSE rows) \o pages[n].page.rows
      /\ list' = (IF pages[n].of = list THEN list ELSE 0)
  BY DEF Trail!ShowMore
<1>3. /\ n \in 1..MaxCalls /\ DOMAIN pages' = 1..MaxCalls
      /\ pages'[n].stage = "settled" /\ ~Under(n)' /\ ~AsksMore(n)'
      /\ \A m \in 1..MaxCalls : /\ m # n => pages'[m] = pages[m]
                                /\ AsksMore(m)' => AsksMore(m) /\ m # n
      /\ list # 0 => list \in 1..MaxCalls /\ pages'[list].stage = "settled"
  BY <1>1, <1>2, TrailSettles
<1>4. CallOK(n) /\ \A m \in 1..MaxCalls : ~AsksMore(m)'
  BY <1>1, <1>3 DEF TrailInv
<1>5. pages[n].page.rows \in Seq(LogRows) /\ pages[n].page.next \in log \cup {None}
  BY <1>1, <1>4 DEF CallOK
<1>6. rows' \in Seq(LogRows)
  BY <1>2, <1>5 DEF TrailInv
<1>7. ASSUME list' # 0
      PROVE  ListOK' /\ list' = list
  <2>1. list # 0 /\ pages[n].of = list /\ list' = list
    BY <1>2, <1>7
  <2>2. ListOK /\ rows # None /\ rows \in Seq(LogRows)
    BY <2>1, TrailAssumption DEF TrailInv, ListOK
  <2>3. pages[n].after = cursor /\ PageOK(pages[n].page, filter, cursor, base)
    BY <1>1, <1>4, <2>1 DEF CallOK
  <2>4. cursor \in log
    BY <1>1, <2>3 DEF AsksMore, TrailInv
  <2>5. PageOK([rows |-> rows \o pages[n].page.rows, next |-> pages[n].page.next], filter, None, base)
    BY <1>5, <2>2, <2>3, <2>4, LongerList DEF TrailInv, ListOK
  <2>6. rows' = rows \o pages[n].page.rows /\ base \subseteq log
    BY <1>2, <2>2 DEF ListOK
  <2>7. QED
    BY <1>2, <1>6, <2>1, <2>5, <2>6 DEF ListOK
<1>8. ASSUME NEW m \in 1..MaxCalls
      PROVE  CallOK(m)'
  <2>1. CASE m = n
    BY <1>2, <1>3, <2>1, SettledCallOK DEF TrailInv
  <2>2. CASE m # n
    <3>1. pages'[m] = pages[m] /\ CallOK(m) /\ ~AsksMore(m)'
      BY <1>3, <1>4, <2>2 DEF TrailInv
    <3>2. QED
      BY <1>2, <3>1 DEF CallOK, Under
  <2>3. QED
    BY <2>1, <2>2
<1>9. list' \in 0..sent
  BY <1>2 DEF TrailInv
<1>10. QED
  BY <1>2, <1>3, <1>4, <1>5, <1>6, <1>7, <1>8, <1>9 DEF TrailInv

LEMMA TrailFails == ASSUME TrailInv, NEW n \in 1..sent, Trail!Fail(n) PROVE TrailInv'
<1>1. Under(n)
  BY DEF Trail!Fail, Under
<1>2. /\ UNCHANGED <<log, filter, rows, cursor, first, sent, base, list>>
      /\ pages' = [pages EXCEPT ![n] = Trail!Settled]
      /\ loadingMore' = (loadingMore /\ pages[n].after = None)
  BY DEF Trail!Fail
<1>3. /\ n \in 1..MaxCalls /\ DOMAIN pages' = 1..MaxCalls
      /\ pages'[n].stage = "settled" /\ ~Under(n)' /\ ~AsksMore(n)'
      /\ \A m \in 1..MaxCalls : /\ m # n => pages'[m] = pages[m]
                                /\ AsksMore(m)' => AsksMore(m) /\ m # n
      /\ \A m \in 1..MaxCalls : AsksMore(m) /\ pages[m].of # 0 =>
            pages[m].of \in 1..MaxCalls /\ pages[m].of # n /\ pages'[pages[m].of].stage = "settled"
      /\ list # 0 => list \in 1..MaxCalls /\ pages'[list].stage = "settled"
  BY <1>1, <1>2, TrailSettles
<1>4. ASSUME NEW m \in 1..MaxCalls
      PROVE  CallOK(m)'
  <2>1. CASE m = n
    BY <1>2, <1>3, <2>1, SettledCallOK DEF TrailInv
  <2>2. CASE m # n
    <3>1. pages'[m] = pages[m] /\ CallOK(m)
      BY <1>3, <2>2 DEF TrailInv
    <3>2. AsksMore(m) => loadingMore'
      BY <1>1, <1>2, <1>3, <2>2, <3>1 DEF TrailInv, CallOK, AsksMore
    <3>3. QED
      BY <1>2, <1>3, <3>1, <3>2 DEF CallOK, Under, AsksMore
  <2>3. QED
    BY <2>1, <2>2
<1>5. ListOK <=> ListOK'
  BY <1>2 DEF ListOK
<1>6. QED
  BY <1>2, <1>3, <1>4, <1>5 DEF TrailInv

LEMMA TrailStep == ASSUME TrailInv, [Trail!Next]_trailVars PROVE TrailInv'
<1>1. CASE UNCHANGED trailVars \/ Trail!AllRead
  <2>1. UNCHANGED <<log, filter, rows, cursor, loadingMore, first, pages, sent, base, list>>
    BY <1>1 DEF trailVars, Trail!AllRead, Trail!vars
  <2>2. ListOK <=> ListOK'
    BY <2>1 DEF ListOK
  <2>3. QED
    BY <2>1, <2>2 DEF TrailInv, CallOK, Under, AsksMore
<1>2. QED
  BY <1>1, TrailCommits, TrailOpens, TrailServes, TrailShowsFirst, TrailLoads, TrailShowsMore, TrailFails
     DEF Trail!Next

LEMMA TrailInvariance == SpecOfAll => [](focus = "trail" => TrailInv)
<1>1. InitOfAll => (focus = "trail" => TrailInv)
  BY TrailInit DEF InitOfAll
<1>2. (focus = "trail" => TrailInv) /\ [NextOfAll]_everything => (focus = "trail" => TrailInv)'
  BY Focus, TrailStep
<1>3. QED
  BY <1>1, <1>2, PTL DEF SpecOfAll

\* A list that is read page by page while rows are written is in order and skips no row that was
\* there when it was opened, for any number of rows, pages and lists. (audit.ts:88)
THEOREM PagesFit == SpecOfAll => []PagesFitTogether
<1>1. TrailInv => Trail!PagesFitTogether
  BY DEF TrailInv, ListOK, PageOK, Trail!PagesFitTogether, Trail!Shown
<1>2. (focus = "trail" => TrailInv) => PagesFitTogether
  BY <1>1 DEF PagesFitTogether
<1>3. QED
  BY <1>2, TrailInvariance, PTL

----------------------------------------------------------------------------
(* FoundingAccess: two submissions with one email are both stored only if one of them was about  *)
(* to be stored when the other one looked; an "ok" goes with a lead of that email, or with the  *)
(* hidden field.                                                                               *)

Inserting == {r \in Submissions : submitted[r].stage = "insert"}
HasLead(r) == submitted[r].website = "" => \E s \in leads : submitted[s].email = submitted[r].email

SubmissionOK(r) ==
    /\ submitted[r].stage \in {"unsent", "sent", "insert", "announce", "answered"}
    /\ submitted[r].stage # "unsent" => {"stage", "email", "website", "beside", "answer"} \subseteq DOMAIN submitted[r]
    /\ r \in leads => submitted[r].stage \in {"announce", "answered"}
    /\ submitted[r].stage = "announce" => r \in leads
    /\ submitted[r].stage = "insert" \/ r \in leads => submitted[r].website = ""
    /\ submitted[r].stage \in {"announce", "answered"} /\ submitted[r].answer = "ok" => HasLead(r)

FormOK(v) ==
    /\ {"stage", "request"} \subseteq DOMAIN form[v]
    /\ form[v].stage \in {"sending", "done"} =>
          form[v].request \in Submissions /\ submitted[form[v].request].stage # "unsent"
    /\ form[v].stage = "done" => HasLead(form[v].request)

Overlap(r, s) == r \in submitted[s].beside \/ s \in submitted[r].beside

FoundingInv ==
    /\ DOMAIN submitted = Submissions /\ DOMAIN form = Visitors
    /\ leads \subseteq Submissions /\ announced \subseteq leads
    /\ \A r \in Submissions : SubmissionOK(r)
    /\ \A v \in Visitors : FormOK(v)
    /\ \A r, s \in leads \cup Inserting :
          r # s /\ submitted[r].email = submitted[s].email => Overlap(r, s)

LEMMA FoundingInit == ASSUME Founding!Init PROVE FoundingInv
BY DEF Founding!Init, Founding!Unsent, Founding!NewForm, FoundingInv, SubmissionOK, FormOK, Inserting

\* What became of the submissions when one of them moves on: the emails stay, and the leads do.
LEMMA SubmissionMoves ==
    ASSUME FoundingInv, NEW r \in Submissions, NEW q, Founding!Request(r, q),
           submitted[r].stage # "unsent", q.stage # "unsent", q.email = submitted[r].email,
           q.website = submitted[r].website, leads \subseteq leads'
    PROVE  /\ DOMAIN submitted' = Submissions /\ submitted'[r] = q
           /\ \A s \in Submissions : /\ s # r => submitted'[s] = submitted[s]
                                     /\ submitted'[s].email = submitted[s].email
                                     /\ HasLead(s) => HasLead(s)'
           /\ \A v \in Visitors : form'[v] = form[v] => FormOK(v)'
<1>1. /\ DOMAIN submitted' = Submissions
      /\ \A s \in Submissions : submitted'[s] = IF s = r THEN q ELSE submitted[s]
  BY DEF FoundingInv, Founding!Request
<1>2. \A s \in Submissions : /\ submitted'[s].email = submitted[s].email
                             /\ submitted'[s].website = submitted[s].website
                             /\ submitted[s].stage # "unsent" => submitted'[s].stage # "unsent"
  BY <1>1
<1>3. \A s \in Submissions : HasLead(s) => HasLead(s)'
  BY <1>2 DEF HasLead, FoundingInv
<1>4. ASSUME NEW v \in Visitors, form'[v] = form[v]
      PROVE  FormOK(v)'
  BY <1>2, <1>3, <1>4 DEF FormOK, FoundingInv
<1>5. QED
  BY <1>1, <1>2, <1>3, <1>4

\* An answer without a lead of its own.
LEMMA FoundingAnswers ==
    ASSUME FoundingInv, NEW r \in Submissions, submitted[r].stage \in {"sent", "insert"}, NEW answer,
           Founding!Request(r, Founding!Answered(submitted[r], answer)), answer = "ok" => HasLead(r),
           leads' = leads, announced' = announced, DOMAIN form' = Visitors,
           \A v \in Visitors : form'[v] = form[v] \/ FormOK(v)'
    PROVE  FoundingInv'
<1>1. PICK q : q = Founding!Answered(submitted[r], answer)
  OBVIOUS
<1>2. SubmissionOK(r) /\ {"stage", "email", "website", "beside", "answer"} \subseteq DOMAIN submitted[r] /\ r \notin leads
  BY DEF FoundingInv, SubmissionOK
<1>3. /\ q.stage = "answered" /\ q.answer = answer /\ q.email = submitted[r].email /\ q.website = submitted[r].website
      /\ {"stage", "email", "website", "beside", "answer"} \subseteq DOMAIN q
  BY <1>1, <1>2 DEF Founding!Answered
<1>4. /\ DOMAIN submitted' = Submissions /\ submitted'[r] = q
      /\ \A s \in Submissions : /\ s # r => submitted'[s] = submitted[s]
                                /\ submitted'[s].email = submitted[s].email
                                /\ HasLead(s) => HasLead(s)'
      /\ \A v \in Visitors : form'[v] = form[v] => FormOK(v)'
  BY <1>1, <1>3, SubmissionMoves
<1>5. \A s \in Submissions : SubmissionOK(s)'
  BY <1>2, <1>3, <1>4 DEF FoundingInv, SubmissionOK
<1>6. ASSUME NEW s \in Submissions, NEW t \in Submissions, s \in leads \cup Inserting', t \in leads \cup Inserting',
             s # t, submitted'[s].email = submitted'[t].email
      PROVE  Overlap(s, t)'
  <2>1. s # r /\ t # r /\ s \in leads \cup Inserting /\ t \in leads \cup Inserting
    BY <1>2, <1>3, <1>4, <1>6 DEF Inserting
  <2>2. Overlap(s, t)
    BY <1>4, <1>6, <2>1 DEF FoundingInv
  <2>3. QED
    BY <1>4, <2>1, <2>2 DEF Overlap
<1>7. QED
  BY <1>4, <1>5, <1>6 DEF FoundingInv, Inserting

LEMMA FoundingInserts ==
    ASSUME FoundingInv, NEW r \in Submissions, Founding!Insert(r)
    PROVE  FoundingInv'
<1>1. PICK q : q = [submitted[r] EXCEPT !.stage = "announce", !.answer = "ok"]
  OBVIOUS
<1>2. /\ submitted[r].stage = "insert" /\ Founding!Request(r, q) /\ leads' = leads \cup {r}
      /\ UNCHANGED <<form, announced>>
  BY <1>1 DEF Founding!Insert, Founding!WithLead
<1>3. {"stage", "email", "website", "beside", "answer"} \subseteq DOMAIN submitted[r] /\ r \notin leads
  BY <1>2 DEF FoundingInv, SubmissionOK
<1>4. /\ q.stage = "announce" /\ q.email = submitted[r].email /\ q.website = submitted[r].website
      /\ q.beside = submitted[r].beside
      /\ {"stage", "email", "website", "beside", "answer"} \subseteq DOMAIN q
  BY <1>1, <1>3
<1>5. /\ DOMAIN submitted' = Submissions /\ submitted'[r] = q
      /\ \A s \in Submissions : /\ s # r => submitted'[s] = submitted[s]
                                /\ submitted'[s].email = submitted[s].email
                                /\ HasLead(s) => HasLead(s)'
      /\ \A v \in Visitors : form'[v] = form[v] => FormOK(v)'
  BY <1>2, <1>4, SubmissionMoves
<1>6. HasLead(r)'
  BY <1>2 DEF HasLead
<1>7. \A s \in Submissions : SubmissionOK(s)'
  <2>1. submitted[r].website = ""
    BY <1>2 DEF FoundingInv, SubmissionOK
  <2>2. SubmissionOK(r)'
    BY <1>2, <1>4, <1>5, <1>6, <2>1 DEF SubmissionOK
  <2>3. ASSUME NEW s \in Submissions, s # r
        PROVE  SubmissionOK(s)'
    <3>1. SubmissionOK(s) /\ (s \in leads' <=> s \in leads) /\ submitted'[s] = submitted[s]
      BY <1>2, <1>5, <2>3 DEF FoundingInv
    <3>2. QED
      BY <1>5, <3>1 DEF SubmissionOK
  <2>4. QED
    BY <2>2, <2>3
<1>8. ASSUME NEW s \in Submissions, NEW t \in Submissions, s \in (leads \cup Inserting)', t \in (leads \cup Inserting)',
             s # t, submitted'[s].email = submitted'[t].email
      PROVE  Overlap(s, t)'
  <2>1. s \in leads \cup Inserting /\ t \in leads \cup Inserting
    BY <1>2, <1>4, <1>5, <1>8 DEF Inserting
  <2>2. Overlap(s, t)
    BY <1>5, <1>8, <2>1 DEF FoundingInv
  <2>3. \A u \in {s, t} : submitted'[u].beside = submitted[u].beside
    BY <1>4, <1>5
  <2>4. QED
    BY <2>2, <2>3 DEF Overlap
<1>9. QED
  BY <1>2, <1>5, <1>7, <1>8 DEF FoundingInv, Inserting

\* A submission that finds no duplicate: its email has no lead, and it knows of the others.
LEMMA FoundingPasses ==
    ASSUME FoundingInv, NEW r \in Submissions, submitted[r].stage = "sent", submitted[r].website = "",
           ~Founding!Duplicate(submitted[r].email),
           Founding!Request(r, [submitted[r] EXCEPT !.stage = "insert",
                                                    !.beside = Founding!AboutToBeStored(submitted[r].email)]),
           UNCHANGED <<form, leads, announced>>
    PROVE  FoundingInv'
<1>1. PICK q : q = [submitted[r] EXCEPT !.stage = "insert", !.beside = Founding!AboutToBeStored(submitted[r].email)]
  OBVIOUS
<1>2. {"stage", "email", "website", "beside", "answer"} \subseteq DOMAIN submitted[r] /\ r \notin leads
  BY DEF FoundingInv, SubmissionOK
<1>3. /\ q.stage = "insert" /\ q.email = submitted[r].email /\ q.website = submitted[r].website
      /\ q.beside = {s \in Submissions : submitted[s].stage = "insert" /\ submitted[s].email = submitted[r].email}
      /\ {"stage", "email", "website", "beside", "answer"} \subseteq DOMAIN q
  BY <1>1, <1>2 DEF Founding!AboutToBeStored
<1>4. /\ DOMAIN submitted' = Submissions /\ submitted'[r] = q
      /\ \A s \in Submissions : /\ s # r => submitted'[s] = submitted[s]
                                /\ submitted'[s].email = submitted[s].email
                                /\ HasLead(s) => HasLead(s)'
      /\ \A v \in Visitors : form'[v] = form[v] => FormOK(v)'
  BY <1>1, <1>3, SubmissionMoves
<1>5. \A s \in Submissions : SubmissionOK(s)'
  <2>1. SubmissionOK(r)'
    BY <1>2, <1>3, <1>4 DEF SubmissionOK
  <2>2. ASSUME NEW s \in Submissions, s # r
        PROVE  SubmissionOK(s)'
    <3>1. SubmissionOK(s) /\ leads' = leads /\ submitted'[s] = submitted[s]
      BY <1>4, <2>2 DEF FoundingInv
    <3>2. QED
      BY <1>4, <3>1 DEF SubmissionOK
  <2>3. QED
    BY <2>1, <2>2
<1>6. \A s \in leads : submitted[s].email # submitted[r].email
  BY DEF Founding!Duplicate
<1>7. ASSUME NEW s \in Submissions, s \in leads \cup Inserting', s # r, submitted'[s].email = submitted'[r].email
      PROVE  s \in submitted'[r].beside
  BY <1>3, <1>4, <1>6, <1>7 DEF Inserting
<1>8. ASSUME NEW s \in Submissions, NEW t \in Submissions, s \in leads \cup Inserting', t \in leads \cup Inserting',
             s # t, submitted'[s].email = submitted'[t].email
      PROVE  Overlap(s, t)'
  <2>1. CASE s = r \/ t = r
    BY <1>7, <1>8, <2>1 DEF Overlap
  <2>2. CASE s # r /\ t # r
    BY <1>4, <1>8, <2>2 DEF FoundingInv, Inserting, Overlap
  <2>3. QED
    BY <2>1, <2>2
<1>9. QED
  BY <1>4, <1>5, <1>8 DEF FoundingInv, Inserting

Verdicts == {"limited", "expired", "too_fast", "invalid", "ok"}

LEMMA FoundingChecks ==
    ASSUME FoundingInv, NEW r \in Submissions, Founding!Check(r)
    PROVE  FoundingInv'
<1>1. submitted[r].stage = "sent" /\ UNCHANGED <<form, leads, announced>>
  BY DEF Founding!Check
<1>2. \/ \E answer \in Verdicts : /\ answer = "ok" => \/ submitted[r].website # ""
                                                     \/ Founding!Duplicate(submitted[r].email)
                                  /\ Founding!Request(r, Founding!Answered(submitted[r], answer))
      \/ /\ submitted[r].website = "" /\ ~Founding!Duplicate(submitted[r].email)
         /\ Founding!Request(r, [submitted[r] EXCEPT !.stage = "insert",
                                                     !.beside = Founding!AboutToBeStored(submitted[r].email)])
  BY DEF Founding!Check, Founding!Caught, Verdicts
<1>3. submitted[r].website # "" \/ Founding!Duplicate(submitted[r].email) => HasLead(r)
  BY DEF Founding!Duplicate, HasLead
<1>4. CASE \E answer \in Verdicts : /\ answer = "ok" => HasLead(r)
                                    /\ Founding!Request(r, Founding!Answered(submitted[r], answer))
  <2>1. DOMAIN form' = Visitors /\ \A v \in Visitors : form'[v] = form[v]
    BY <1>1 DEF FoundingInv
  <2>2. PICK answer \in Verdicts : /\ answer = "ok" => HasLead(r)
                                   /\ Founding!Request(r, Founding!Answered(submitted[r], answer))
    BY <1>4
  <2>3. submitted[r].stage \in {"sent", "insert"} /\ \A v \in Visitors : form'[v] = form[v] \/ FormOK(v)'
    BY <1>1, <2>1
  <2>4. leads' = leads /\ announced' = announced
    BY <1>1
  <2>5. QED
    BY <2>1, <2>2, <2>3, <2>4, FoundingAnswers
<1>5. QED
  BY <1>1, <1>2, <1>3, <1>4, FoundingPasses

LEMMA FoundingAnnounces ==
    ASSUME FoundingInv, NEW r \in Submissions, Founding!Announce(r)
    PROVE  FoundingInv'
<1>1. PICK q : q = [submitted[r] EXCEPT !.stage = "answered"]
  OBVIOUS
<1>2. /\ submitted[r].stage = "announce" /\ Founding!Request(r, q)
      /\ UNCHANGED <<form, leads>> /\ announced' \subseteq announced \cup {r}
  BY <1>1 DEF Founding!Announce
<1>3. {"stage", "email", "website", "beside", "answer"} \subseteq DOMAIN submitted[r] /\ r \in leads /\ SubmissionOK(r)
  BY <1>2 DEF FoundingInv, SubmissionOK
<1>4. /\ q.stage = "answered" /\ q.email = submitted[r].email /\ q.website = submitted[r].website
      /\ q.beside = submitted[r].beside
      /\ q.answer = submitted[r].answer
      /\ {"stage", "email", "website", "beside", "answer"} \subseteq DOMAIN q
  BY <1>1, <1>3
<1>5. /\ DOMAIN submitted' = Submissions /\ submitted'[r] = q
      /\ \A s \in Submissions : /\ s # r => submitted'[s] = submitted[s]
                                /\ submitted'[s].email = submitted[s].email
                                /\ HasLead(s) => HasLead(s)'
      /\ \A v \in Visitors : form'[v] = form[v] => FormOK(v)'
  BY <1>2, <1>4, SubmissionMoves
<1>6. \A s \in Submissions : SubmissionOK(s)'
  BY <1>2, <1>3, <1>4, <1>5 DEF FoundingInv, SubmissionOK
<1>7. \A s \in Submissions : submitted'[s].beside = submitted[s].beside
  BY <1>4, <1>5
<1>8. (leads \cup Inserting)' = leads \cup Inserting
  BY <1>2, <1>4, <1>5 DEF Inserting
<1>9. QED
  BY <1>2, <1>3, <1>5, <1>6, <1>7, <1>8 DEF FoundingInv, Overlap, Inserting

LEMMA FoundingFails ==
    ASSUME FoundingInv, NEW r \in Submissions, Founding!ServerFails(r)
    PROVE  FoundingInv'
<1>1. PICK answer : answer = "error"
  OBVIOUS
<1>2. /\ submitted[r].stage \in {"sent", "insert"} /\ Founding!Request(r, Founding!Answered(submitted[r], answer))
      /\ UNCHANGED <<form, leads, announced>>
  BY <1>1 DEF Founding!ServerFails
<1>3. answer = "ok" => HasLead(r)
  BY <1>1
<1>4. DOMAIN form' = Visitors
  BY <1>2 DEF FoundingInv
<1>5. \A v \in Visitors : form'[v] = form[v] \/ FormOK(v)'
  BY <1>2
<1>6. leads' = leads /\ announced' = announced
  BY <1>2
<1>7. QED
  BY <1>2, <1>3, <1>4, <1>5, <1>6, FoundingAnswers

\* The page alone moves.
LEMMA FormMoves ==
    ASSUME FoundingInv, NEW v \in Visitors, NEW f, Founding!Form(v, f), UNCHANGED <<submitted, leads, announced>>,
           {"stage", "request"} \subseteq DOMAIN f,
           f.stage \in {"sending", "done"} =>
              f.request \in Submissions /\ submitted[f.request].stage # "unsent",
           f.stage = "done" => HasLead(f.request)
    PROVE  FoundingInv'
<1>1. DOMAIN form' = Visitors /\ \A w \in Visitors : form'[w] = IF w = v THEN f ELSE form[w]
  BY DEF Founding!Form, FoundingInv
<1>2. \A s \in Submissions : HasLead(s)' <=> HasLead(s)
  BY DEF HasLead
<1>3. \A w \in Visitors : FormOK(w)'
  <2>1. SUFFICES ASSUME NEW w \in Visitors PROVE FormOK(w)'
    OBVIOUS
  <2>2. CASE w = v
    BY <1>1, <1>2, <2>2 DEF FormOK
  <2>3. CASE w # v
    <3>1. FormOK(w) /\ form'[w] = form[w]
      BY <1>1, <2>3 DEF FoundingInv
    <3>2. QED
      BY <1>2, <3>1 DEF FormOK
  <2>4. QED
    BY <2>2, <2>3
<1>4. \A s \in Submissions : SubmissionOK(s)'
  BY <1>2 DEF FoundingInv, SubmissionOK
<1>5. QED
  BY <1>1, <1>3, <1>4 DEF FoundingInv, Overlap, Inserting

LEMMA FormStays ==
    ASSUME FoundingInv, NEW v \in Visitors, NEW f, Founding!Form(v, f), UNCHANGED <<submitted, leads, announced>>,
           {"stage", "request"} \subseteq DOMAIN f,
           (f.stage = form[v].stage /\ f.request = form[v].request) \/ f.stage \in {"editing", "preparing"}
    PROVE  FoundingInv'
<1>1. FormOK(v)
  BY DEF FoundingInv
<1>2. QED
  BY <1>1, FormMoves DEF FormOK

LEMMA FoundingTokens ==
    ASSUME FoundingInv, NEW v \in Visitors,
           \/ Founding!Approach(v) \/ Founding!IssueToken(v) \/ Founding!ReceiveToken(v) \/ Founding!TokenFails(v)
           \/ Founding!Submit(v) \/ Founding!Reload(v)
    PROVE  FoundingInv'
<1>1. {"stage", "request"} \subseteq DOMAIN form[v]
  BY DEF FoundingInv, FormOK
<1>2. UNCHANGED <<submitted, leads, announced>>
  BY DEF Founding!Approach, Founding!IssueToken, Founding!ReceiveToken, Founding!TokenFails, Founding!Submit,
         Founding!Reload
<1>3. CASE Founding!Approach(v)
  <2>1. PICK f : f = Founding!Asks([form[v] EXCEPT !.chances = @ - 1])
    OBVIOUS
  <2>2. {"stage", "request"} \subseteq DOMAIN f /\ f.stage = form[v].stage /\ f.request = form[v].request
    BY <1>1, <2>1 DEF Founding!Asks
  <2>3. QED
    BY <1>2, <1>3, <2>1, <2>2, FormStays DEF Founding!Approach
<1>4. CASE Founding!IssueToken(v)
  <2>1. PICK f : f = [form[v] EXCEPT !.fetching = "issued", !.issued = now]
    OBVIOUS
  <2>2. {"stage", "request"} \subseteq DOMAIN f /\ f.stage = form[v].stage /\ f.request = form[v].request
    BY <1>1, <2>1
  <2>3. QED
    BY <1>2, <1>4, <2>1, <2>2, FormStays DEF Founding!IssueToken
<1>5. CASE Founding!ReceiveToken(v)
  <2>1. PICK f : f = [form[v] EXCEPT !.token = form[v].issued, !.issued = 0]
    OBVIOUS
  <2>2. {"stage", "request"} \subseteq DOMAIN f /\ f.stage = form[v].stage /\ f.request = form[v].request
    BY <1>1, <2>1
  <2>3. QED
    BY <1>2, <1>5, <2>1, <2>2, FormStays DEF Founding!ReceiveToken
<1>6. CASE Founding!TokenFails(v)
  <2>1. PICK g : g = [form[v] EXCEPT !.fetching = "none", !.issued = 0]
    OBVIOUS
  <2>2. {"stage", "request"} \subseteq DOMAIN g /\ g.stage = form[v].stage /\ g.request = form[v].request
    BY <1>1, <2>1
  <2>3. PICK f : f = IF g.stage = "preparing" THEN Founding!Says(g, "unprepared") ELSE g
    OBVIOUS
  <2>4. /\ {"stage", "request"} \subseteq DOMAIN f
        /\ (f.stage = form[v].stage /\ f.request = form[v].request) \/ f.stage \in {"editing", "preparing"}
    BY <2>2, <2>3 DEF Founding!Says
  <2>5. Founding!Form(v, f)
    BY <1>6, <2>1, <2>3 DEF Founding!TokenFails
  <2>6. QED
    BY <1>2, <2>4, <2>5, FormStays
<1>7. CASE Founding!Submit(v)
  <2>1. PICK f : Founding!Form(v, f) /\ \E waited : f = [Founding!Asks(form[v]) EXCEPT !.stage = "preparing", !.waited = waited]
    BY <1>7 DEF Founding!Submit
  <2>2. {"stage", "request"} \subseteq DOMAIN f /\ f.stage = "preparing"
    BY <1>1, <2>1 DEF Founding!Asks
  <2>3. QED
    BY <1>2, <2>1, <2>2, FormStays
<1>8. CASE Founding!Reload(v)
  <2>1. {"stage", "request"} \subseteq DOMAIN Founding!NewForm /\ Founding!NewForm.stage = "editing"
    BY DEF Founding!NewForm
  <2>2. QED
    BY <1>2, <1>8, <2>1, FormStays DEF Founding!Reload
<1>9. QED
  BY <1>3, <1>4, <1>5, <1>6, <1>7, <1>8

LEMMA FoundingSends ==
    ASSUME FoundingInv, NEW v \in Visitors, Founding!Send(v)
    PROVE  FoundingInv'
<1>1. PICK r \in Submissions, email \in Emails, website \in {"", "filled"} :
          /\ submitted[r] = Founding!Unsent
          /\ Founding!Request(r, [stage |-> "sent", email |-> email, website |-> website,
                                  token |-> form[v].token, beside |-> {}, answer |-> ""])
          /\ Founding!Form(v, [form[v] EXCEPT !.stage = "sending", !.request = r])
          /\ UNCHANGED <<leads, announced>>
  BY DEF Founding!Send
<1>2. PICK q : q = [stage |-> "sent", email |-> email, website |-> website,
                    token |-> form[v].token, beside |-> {}, answer |-> ""]
  OBVIOUS
<1>3. PICK f : f = [form[v] EXCEPT !.stage = "sending", !.request = r]
  OBVIOUS
<1>4. q.stage = "sent" /\ {"stage", "email", "website", "beside", "answer"} \subseteq DOMAIN q
  BY <1>2
<1>5. {"stage", "request"} \subseteq DOMAIN f /\ f.stage = "sending" /\ f.request = r
  BY <1>3 DEF FoundingInv, FormOK
<1>6. submitted[r].stage = "unsent" /\ r \notin leads \cup Inserting
  BY <1>1 DEF Founding!Unsent, Inserting, FoundingInv, SubmissionOK
<1>7. /\ DOMAIN submitted' = Submissions
      /\ \A s \in Submissions : submitted'[s] = IF s = r THEN q ELSE submitted[s]
  BY <1>1, <1>2 DEF FoundingInv, Founding!Request
<1>8. DOMAIN form' = Visitors /\ \A w \in Visitors : form'[w] = IF w = v THEN f ELSE form[w]
  BY <1>1, <1>3 DEF FoundingInv, Founding!Form
<1>9. \A s \in Submissions : s # r /\ HasLead(s) => HasLead(s)'
  BY <1>1, <1>6, <1>7 DEF HasLead, FoundingInv
<1>10. \A s \in Submissions : SubmissionOK(s)'
  BY <1>1, <1>4, <1>6, <1>7, <1>9 DEF SubmissionOK, FoundingInv
<1>11. \A w \in Visitors : FormOK(w)'
  <2>1. SUFFICES ASSUME NEW w \in Visitors PROVE FormOK(w)'
    OBVIOUS
  <2>2. CASE w = v
    BY <1>4, <1>5, <1>7, <1>8, <2>2 DEF FormOK
  <2>3. CASE w # v
    <3>1. FormOK(w) /\ form'[w] = form[w]
      BY <1>8, <2>3 DEF FoundingInv
    <3>2. QED
      BY <1>6, <1>7, <1>9, <3>1 DEF FormOK
  <2>4. QED
    BY <2>2, <2>3
<1>12. (leads \cup Inserting)' = leads \cup Inserting /\ r \notin (leads \cup Inserting)'
  BY <1>1, <1>4, <1>6, <1>7 DEF Inserting
<1>13. ASSUME NEW s \in Submissions, NEW t \in Submissions, s \in (leads \cup Inserting)', t \in (leads \cup Inserting)',
             s # t, submitted'[s].email = submitted'[t].email
      PROVE  Overlap(s, t)'
  BY <1>7, <1>12, <1>13 DEF FoundingInv, Overlap
<1>14. QED
  BY <1>1, <1>7, <1>8, <1>10, <1>11, <1>13 DEF FoundingInv, Inserting

LEMMA FoundingHears ==
    ASSUME FoundingInv, NEW v \in Visitors, Founding!Answer(v)
    PROVE  FoundingInv'
<1>1. FormOK(v) /\ form[v].stage = "sending" /\ UNCHANGED <<submitted, leads, announced>>
  BY DEF Founding!Answer, FoundingInv
<1>2. PICK r \in Submissions : r = form[v].request
  BY <1>1 DEF FormOK
<1>3. PICK f : f = Founding!Heard(form[v], submitted[r].answer)
  OBVIOUS
<1>4. submitted[r].stage \in {"answered", "announce"} /\ Founding!Form(v, f)
  BY <1>2, <1>3 DEF Founding!Answer
<1>5. SubmissionOK(r)
  BY DEF FoundingInv
<1>6. CASE submitted[r].answer = "ok"
  <2>1. f = [form[v] EXCEPT !.stage = "done", !.shows = "thanks"]
    BY <1>3, <1>6 DEF Founding!Heard, Founding!Refuses
  <2>2. {"stage", "request"} \subseteq DOMAIN f /\ f.stage = "done" /\ f.request = r
    BY <1>1, <1>2, <2>1 DEF FormOK
  <2>3. HasLead(r)
    BY <1>4, <1>5, <1>6 DEF SubmissionOK
  <2>4. QED
    BY <1>1, <1>4, <2>2, <2>3, FormMoves
<1>7. CASE submitted[r].answer # "ok"
  <2>1. {"stage", "request"} \subseteq DOMAIN f /\ f.stage = "editing"
    <3>1. CASE Founding!Refuses(submitted[r].answer)
      <4>1. PICK g : g = [form[v] EXCEPT !.token = None, !.fetching = "none"]
        OBVIOUS
      <4>2. {"stage", "request"} \subseteq DOMAIN g
        BY <1>1, <4>1 DEF FormOK
      <4>3. f = Founding!Says(g, submitted[r].answer)
        BY <1>3, <1>7, <3>1, <4>1 DEF Founding!Heard
      <4>4. QED
        BY <4>2, <4>3 DEF Founding!Says
    <3>2. CASE ~Founding!Refuses(submitted[r].answer)
      <4>1. f = Founding!Says(form[v], submitted[r].answer)
        BY <1>3, <1>7, <3>2 DEF Founding!Heard
      <4>2. QED
        BY <1>1, <4>1 DEF Founding!Says, FormOK
    <3>3. QED
      BY <3>1, <3>2
  <2>2. QED
    BY <1>1, <1>4, <2>1, FormStays
<1>8. QED
  BY <1>6, <1>7

LEMMA FoundingCutOff ==
    ASSUME FoundingInv, NEW v \in Visitors, Founding!NetworkFails(v)
    PROVE  FoundingInv'
<1>1. PICK f : f = Founding!Says(form[v], "network")
  OBVIOUS
<1>2. FormOK(v) /\ form[v].stage = "sending" /\ Founding!Form(v, f) /\ UNCHANGED <<leads, announced>>
  BY <1>1 DEF Founding!NetworkFails, FoundingInv
<1>3. {"stage", "request"} \subseteq DOMAIN f /\ f.stage = "editing"
  BY <1>1, <1>2 DEF Founding!Says, FormOK
<1>4. CASE UNCHANGED submitted
  BY <1>2, <1>3, <1>4, FormStays
<1>5. CASE /\ submitted[form[v].request].stage = "sent"
           /\ Founding!Request(form[v].request, Founding!Answered(submitted[form[v].request], "never"))
  <2>1. PICK r \in Submissions : r = form[v].request
    BY <1>2 DEF FormOK
  <2>2. DOMAIN form' = Visitors /\ \A w \in Visitors : form'[w] = IF w = v THEN f ELSE form[w]
    BY <1>2 DEF Founding!Form, FoundingInv
  <2>3. \A w \in Visitors : form'[w] = form[w] \/ FormOK(w)'
    BY <1>3, <2>2 DEF FormOK
  <2>4. PICK answer : answer = "never"
    OBVIOUS
  <2>5. submitted[r].stage \in {"sent", "insert"} /\ Founding!Request(r, Founding!Answered(submitted[r], answer))
    BY <1>5, <2>1, <2>4
  <2>6. answer = "ok" => HasLead(r)
    BY <2>4
  <2>7. leads' = leads /\ announced' = announced /\ DOMAIN form' = Visitors
    BY <1>2, <2>2
  <2>8. QED
    BY <2>3, <2>5, <2>6, <2>7, FoundingAnswers
<1>6. QED
  BY <1>4, <1>5 DEF Founding!NetworkFails

LEMMA FoundingStep == ASSUME FoundingInv, [Founding!Next]_foundingVars PROVE FoundingInv'
<1>1. CASE UNCHANGED foundingVars \/ Founding!Tick
  <2>1. UNCHANGED <<form, leads, announced, submitted>>
    BY <1>1 DEF foundingVars, Founding!Tick
  <2>2. \A s \in Submissions : HasLead(s)' <=> HasLead(s)
    BY <2>1 DEF HasLead
  <2>3. (\A s \in Submissions : SubmissionOK(s)') /\ \A v \in Visitors : FormOK(v)'
    BY <2>1, <2>2 DEF FoundingInv, SubmissionOK, FormOK
  <2>4. QED
    BY <2>1, <2>3 DEF FoundingInv, Inserting, Overlap
<1>2. CASE \E v \in Visitors : \/ Founding!Approach(v) \/ Founding!IssueToken(v) \/ Founding!ReceiveToken(v)
                           \/ Founding!TokenFails(v) \/ Founding!Submit(v) \/ Founding!Reload(v)
  BY <1>2, FoundingTokens
<1>3. CASE \E v \in Visitors : Founding!Send(v) \/ Founding!Answer(v) \/ Founding!NetworkFails(v)
  BY <1>3, FoundingSends, FoundingHears, FoundingCutOff
<1>4. CASE \E r \in Submissions : \/ Founding!Check(r) \/ Founding!Insert(r) \/ Founding!Announce(r)
                                  \/ Founding!ServerFails(r)
  BY <1>4, FoundingChecks, FoundingInserts, FoundingAnnounces, FoundingFails
<1>5. QED
  BY <1>1, <1>2, <1>3, <1>4 DEF Founding!Next

LEMMA FoundingInvariance == SpecOfAll => [](focus = "founding" => FoundingInv)
<1>1. InitOfAll => (focus = "founding" => FoundingInv)
  BY FoundingInit DEF InitOfAll
<1>2. (focus = "founding" => FoundingInv) /\ [NextOfAll]_everything => (focus = "founding" => FoundingInv)'
  BY Focus, FoundingStep
<1>3. QED
  BY <1>1, <1>2, PTL DEF SpecOfAll

\* A visitor who left the hidden field empty is thanked only for a stored lead, nothing is stored of
\* a submission with that field, and an email is stored twice only by submissions that overlapped,
\* for any number of pages, retries and lost answers. (public.ts:144, 162)
THEOREM OneLeadIsThanked == SpecOfAll => []ThanksForOneLead
<1>1. FoundingInv => Founding!ThanksForOneLead
  <2>1. FoundingInv => \A r, s \in leads : r # s /\ submitted[r].email = submitted[s].email =>
                          r \in submitted[s].beside \/ s \in submitted[r].beside
    BY DEF FoundingInv, Overlap
  <2>2. FoundingInv => \A v \in Visitors : form[v].stage = "done" /\ submitted[form[v].request].website = "" =>
                          \E r \in leads : submitted[r].email = submitted[form[v].request].email
    BY DEF FoundingInv, FormOK, HasLead
  <2>3. FoundingInv => \A r \in leads : submitted[r].website = ""
    BY DEF FoundingInv, SubmissionOK
  <2>4. QED
    BY <2>1, <2>2, <2>3 DEF FoundingInv, Founding!ThanksForOneLead
<1>2. (focus = "founding" => FoundingInv) => ThanksForOneLead
  BY <1>1 DEF ThanksForOneLead
<1>3. QED
  BY <1>2, FoundingInvariance, PTL
===============================================================================
