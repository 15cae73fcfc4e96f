---------------------------- MODULE KeyedResource ----------------------------
(***************************************************************************)
(* The incident page of the console: one item, addressed by its key, whose   *)
(* requests overtake each other (web/src/console/lib/keyed-resource.ts,      *)
(* useKeyedApi of hooks.ts, IncidentPage of pages/Security.tsx).             *)
(*                                                                         *)
(* The route names an incident. Navigation either mounts the page anew, with *)
(* a loader of its own, or only changes the key of the hook; effects run     *)
(* after the render. A request is read by the server at some moment, and its *)
(* answer, an error or a time-out reaches the page later, if at all.         *)
(***************************************************************************)
EXTENDS Naturals

CONSTANTS Incidents, MaxCalls, NoKey   \* bound: requests of the page

ASSUME KeyedResourceAssumption == MaxCalls \in Nat /\ NoKey \notin Incidents

VARIABLES cleared,    \* the incidents that are cleared, on the server
          route,
          mount,      \* which loader the page uses
          current,    \* the state the loader last emitted
          calls, generation,
          clearing,   \* the clearance the page waits for
          seen        \* history: the incidents that were shown as cleared

pageVars == <<cleared, route, mount, current, calls, generation, clearing, seen>>

Nothing == [key |-> NoKey, status |-> "none"]
Loading(k) == [key |-> k, status |-> "loading"]
Ready(k, data) == [key |-> k, status |-> "ready", data |-> data, refreshing |-> FALSE]
Failed(k) == [key |-> k, status |-> "error"]

Unsent == [stage |-> "unsent"]

PageInit ==
    /\ cleared = {}
    /\ route \in Incidents
    /\ mount = 1
    /\ current = Nothing
    /\ calls = [g \in 1..MaxCalls |-> Unsent]
    /\ generation = 0
    /\ clearing = NoKey
    /\ seen = {}

\* stateForKey: what the page renders.
Shown == IF current.key # route THEN Loading(route) ELSE current

ShowsCleared(state) == state.status = "ready" /\ state.data.cleared

\* A new state of the loader, and its history.
Emit(state) ==
    /\ current' = state
    /\ seen' = IF ShowsCleared(state) /\ state.key = route THEN seen \cup {state.key} ELSE seen

Aborted(cs) == [g \in 1..MaxCalls |-> IF g = generation THEN [cs[g] EXCEPT !.aborted = TRUE] ELSE cs[g]]
Sent(k) == [stage |-> "sent", key |-> k, mount |-> mount, aborted |-> FALSE]

\* mutant: the new request is the one that is aborted
RunThenAbort(k) ==
    /\ generation < MaxCalls
    /\ generation' = generation + 1
    /\ calls' = [calls EXCEPT ![generation + 1] = [Sent(k) EXCEPT !.aborted = TRUE]]

\* run: the previous request is aborted and the next one sent.
Run(k) ==
    /\ generation < MaxCalls
    /\ generation' = generation + 1
    /\ calls' = [(IF generation = 0 THEN calls ELSE Aborted(calls)) EXCEPT ![generation + 1] = Sent(k)]

KeyIsCurrent(g) == current.key = calls[g].key   \* mutant: the latest request is not asked for

IsCurrent(g) ==
    /\ calls[g].mount = mount
    /\ g = generation
    /\ current.key = calls[g].key
    /\ ~calls[g].aborted

AnyBody(key, data) == TRUE   \* mutant: the body is not looked at
BelongsTo(key, data) == data.id = key

----------------------------------------------------------------------------
(* The loader *)

\* select, an effect of a render with another key.
Select ==
    /\ current.key # route
    /\ Emit(Loading(route))
    /\ Run(route)
    /\ UNCHANGED <<cleared, route, mount, clearing>>

\* The emission and the request of reload, unless nothing was selected yet.
Reloads ==
    /\ current # Nothing
    /\ Emit(IF current.status = "ready" THEN [current EXCEPT !.refreshing = TRUE] ELSE Loading(current.key))
    /\ Run(current.key)

Reload ==
    /\ current.status = "error"   \* Retry
    /\ Reloads
    /\ UNCHANGED <<cleared, route, mount, clearing>>

\* The server reads the incident. What it sends may belong to another one.
Serve(g) ==
    /\ calls[g].stage = "sent"
    /\ \E i \in Incidents :
        calls' = [calls EXCEPT ![g] = [stage |-> "served", key |-> @.key, mount |-> @.mount, aborted |-> @.aborted,
                                       data |-> [id |-> i, cleared |-> i \in cleared]]]
    /\ UNCHANGED <<cleared, route, mount, current, generation, clearing, seen>>

Settled(g) == calls' = [calls EXCEPT ![g] = [stage |-> "settled", key |-> @.key, mount |-> @.mount, aborted |-> @.aborted]]

Resolve(g) ==
    /\ calls[g].stage = "served"
    /\ IF ~IsCurrent(g) THEN UNCHANGED <<current, seen>>
       ELSE LET k == calls[g].key
                data == calls[g].data
            IN  Emit(IF BelongsTo(k, data) THEN Ready(k, data) ELSE Failed(k))
    /\ Settled(g)
    /\ UNCHANGED <<cleared, route, mount, generation, clearing>>

\* A network error, a refusal, the time-out of api(), or the abort.
Reject(g) ==
    /\ calls[g].stage \in {"sent", "served"}
    /\ IF IsCurrent(g) THEN Emit(Failed(calls[g].key)) ELSE UNCHANGED <<current, seen>>
    /\ Settled(g)
    /\ UNCHANGED <<cleared, route, mount, generation, clearing>>

----------------------------------------------------------------------------
(* The page *)

Navigate ==
    /\ \E i \in Incidents \ {route} : route' = i
    /\ seen' = IF ShowsCleared(current) /\ current.key = route' THEN seen \cup {route'} ELSE seen
    /\ UNCHANGED <<cleared, mount, current, calls, generation, clearing>>

\* Another incident, or the same one again: the old loader is disposed of.
Mount ==
    /\ mount' = mount + 1
    /\ mount < MaxCalls
    /\ route' \in Incidents
    /\ current' = Nothing
    /\ calls' = IF generation = 0 THEN calls ELSE Aborted(calls)
    /\ clearing' = IF clearing = NoKey THEN NoKey ELSE [clearing EXCEPT !.mounted = FALSE]
    /\ UNCHANGED <<cleared, generation, seen>>

Clear ==
    /\ clearing = NoKey
    /\ Shown.status = "ready" /\ ~Shown.data.cleared
    /\ clearing' = [incident |-> Shown.key, mounted |-> TRUE, stage |-> "sent"]
    /\ UNCHANGED <<cleared, route, mount, current, calls, generation, seen>>

\* clearSecurityIncident, or the clearance of another member.
ServeClear ==
    /\ \/ /\ clearing # NoKey /\ clearing.stage = "sent"
          /\ cleared' = cleared \cup {clearing.incident}
          /\ clearing' = [clearing EXCEPT !.stage = "served"]
       \/ /\ \E i \in Incidents \ cleared : cleared' = cleared \cup {i}
          /\ UNCHANGED clearing
    /\ UNCHANGED <<route, mount, current, calls, generation, seen>>

\* The answer of the clearance: success reloads, in the page that is still mounted.
AfterClear ==
    /\ clearing # NoKey
    /\ \/ /\ clearing.stage = "served" /\ clearing.mounted
          /\ Reloads
       \/ UNCHANGED <<current, seen, calls, generation>>   \* an error, or no page to reload
    /\ clearing' = NoKey
    /\ UNCHANGED <<cleared, route, mount>>

PageNext ==
    \/ Select \/ Reload \/ Navigate \/ Mount \/ Clear \/ ServeClear \/ AfterClear
    \/ \E g \in 1..generation : Serve(g) \/ Resolve(g) \/ Reject(g)

PageSpec == PageInit /\ [][PageNext]_pageVars

----------------------------------------------------------------------------
(* Safety *)

(***************************************************************************)
(* The page shows data of the incident in the route, whatever requests of    *)
(* other incidents, of earlier pages or with other bodies come in late.      *)
(* (keyed-resource.ts:55)                                                   *)
(***************************************************************************)
ShowsTheRoute == Shown.status = "ready" => Shown.key = route /\ Shown.data.id = route

(***************************************************************************)
(* An incident that the page has shown as cleared is not shown as contained  *)
(* again by the late answer of an earlier request. (keyed-resource.ts:58)    *)
(***************************************************************************)
ClearedStaysCleared == Shown.status = "ready" /\ Shown.key \in seen => Shown.data.cleared

(***************************************************************************)
(* A spinner means that an answer is awaited that will be looked at: the      *)
(* page never waits for a request that was aborted or superseded.            *)
(* (keyed-resource.ts:51)                                                   *)
(***************************************************************************)
SpinnerIsAnswered ==
    (current.status = "loading" \/ (current.status = "ready" /\ current.refreshing))
    => generation > 0 /\ calls[generation].stage \in {"sent", "served"} /\ IsCurrent(generation)
=============================================================================
