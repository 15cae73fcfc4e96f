----------------------------- MODULE AuditTrail -----------------------------
(***************************************************************************)
(* Reading the evidence while it is written: pages of decisions and of       *)
(* control events (api/console/audit.ts) and the lists that put them together *)
(* (AuditPage and ControlEvents of web/src/console/pages/Audit.tsx). Control  *)
(* events are read like decisions that nobody filters.                      *)
(*                                                                         *)
(* A row has the time at which its request began, which is before the time    *)
(* at which it is committed, and a random id; the rows of a batch share the   *)
(* time.                                                                    *)
(***************************************************************************)
EXTENDS Naturals, SequencesExt

CONSTANTS Ids,       \* random ids: numbers, in the order in which SQL compares them
          Times,     \* of creation; a request may begin long before its rows are committed
          Kinds,     \* of rows that a filter tells apart
          PAGE,
          None,
          MaxCalls   \* bound: requests of the page

VARIABLES log,       \* the rows that are committed
          filter, rows, cursor, loadingMore,   \* the list of the page
          first,     \* the latest request for a first page
          calls, sent,
          base,      \* history: the rows that were there when the first page was read
          list       \* history: the request for a first page that the rows shown go back to, or
                     \* 0 while there are none and once a page of another list came in

vars == <<log, filter, rows, cursor, loadingMore, first, calls, sent, base, list>>

listVars == <<filter, rows, cursor, loadingMore, first, calls, sent, base, list>>

Filters == Kinds \cup {"any"}
Matches(row, f) == f = "any" \/ row.kind = f

Unsent == [stage |-> "unsent"]
Settled == [stage |-> "settled"]

Init ==
    /\ log = {}
    /\ filter = "any"
    /\ rows = None
    /\ cursor = None
    /\ loadingMore = FALSE
    /\ first = 0
    /\ calls = [n \in 1..MaxCalls |-> Unsent]
    /\ sent = 0
    /\ base = {}
    /\ list = 0

----------------------------------------------------------------------------
(* Writers: requests of the gateway and of the console *)

Unused == Ids \ {row.id : row \in log}

\* A batch of one or two rows, created when its request began.
Commit ==
    /\ \E at \in Times, i, j \in Unused, kind \in Kinds \cup {"other"} :
        /\ i <= j
        /\ log' = log \cup {[at |-> at, id |-> id, kind |-> kind] : id \in {i, j}}
    /\ UNCHANGED listVars

----------------------------------------------------------------------------
(* listDecisions, listControlEvents *)

\* ORDER BY created_at DESC, id DESC
Newer(a, b) == a.at > b.at \/ (a.at = b.at /\ a.id > b.id)

OlderByTime(row, after) == row.at < after.at   \* mutant: rows of one batch are not told apart
BeyondCursor(row, after) == row.at < after.at \/ (row.at = after.at /\ row.id < after.id)

Found(f, after) == {row \in log : Matches(row, f) /\ (after # None => BeyondCursor(row, after))}

\* The newest PAGE rows in order, or all of them (LIMIT), and the last one if more were found.
IsPage(page, found) ==
    /\ \A i \in 1..(Len(page) - 1) : Newer(page[i], page[i + 1])
    /\ \A row \in found \ Range(page) : Len(page) = PAGE /\ Newer(Last(page), row)
NextCursor(page, found) == IF found \subseteq Range(page) THEN None ELSE Last(page)

Serve(n) ==
    /\ calls[n].stage = "sent"
    /\ LET found == Found(calls[n].filter, calls[n].after) IN
       \E page \in BoundedSeq(found, PAGE) :
        /\ IsPage(page, found)
        /\ calls' = [calls EXCEPT ![n] =
                        [stage |-> "served", after |-> @.after, of |-> @.of, log |-> log,
                         page |-> [rows |-> page, next |-> NextCursor(page, found)]]]
    /\ UNCHANGED log
    /\ UNCHANGED <<filter, rows, cursor, loadingMore, first, sent, base, list>>

----------------------------------------------------------------------------
(* The list *)

Request(f, after, of) ==
    /\ sent < MaxCalls
    /\ sent' = sent + 1
    /\ calls' = [calls EXCEPT ![sent + 1] = [stage |-> "sent", filter |-> f, after |-> after, of |-> of]]

\* The effect of the first render, of other filters, and of Retry: a list of its own, whose
\* first page cancels the one that is awaited.
Open ==
    /\ \E f \in Filters : filter' = f /\ Request(f, None, sent + 1)
    /\ first' = sent + 1
    /\ rows' = None
    /\ UNCHANGED log
    /\ list' = 0
    /\ UNCHANGED <<cursor, loadingMore, base>>

ShowFirst(n) ==
    /\ calls[n].stage = "served" /\ calls[n].after = None
    /\ calls' = [calls EXCEPT ![n] = Settled]
    /\ IF n = first
       THEN /\ rows' = calls[n].page.rows
            /\ cursor' = calls[n].page.next
            /\ base' = calls[n].log
            /\ list' = n
       ELSE UNCHANGED <<rows, cursor, base, list>>
    /\ UNCHANGED log
    /\ UNCHANGED <<filter, loadingMore, first, sent>>

\* The button is disabled while it loads.
LoadMore ==
    /\ rows # None /\ rows # <<>>
    /\ cursor # None /\ ~loadingMore
    /\ Request(filter, cursor, list)
    /\ loadingMore' = TRUE
    /\ UNCHANGED log
    /\ UNCHANGED <<filter, rows, cursor, first, base, list>>

\* Appended to whatever is shown by then.
ShowMore(n) ==
    /\ calls[n].stage = "served" /\ calls[n].after # None
    /\ calls' = [calls EXCEPT ![n] = Settled]
    /\ rows' = (IF rows = None THEN <<>> ELSE rows) \o calls[n].page.rows
    /\ cursor' = calls[n].page.next
    /\ list' = (IF calls[n].of = list THEN list ELSE 0)
    /\ loadingMore' = FALSE
    /\ UNCHANGED log
    /\ UNCHANGED <<filter, first, sent, base>>

\* An error is shown, with a button to try again.
Fail(n) ==
    /\ calls[n].stage \in {"sent", "served"}
    /\ calls' = [calls EXCEPT ![n] = Settled]
    /\ loadingMore' = (loadingMore /\ calls[n].after = None)
    /\ UNCHANGED log
    /\ UNCHANGED <<filter, rows, cursor, first, sent, base, list>>

\* Bound: every row was written and every request answered.
AllRead == Unused = {} /\ sent = MaxCalls /\ (\A n \in 1..sent : calls[n] = Settled) /\ UNCHANGED vars

Next ==
    \/ Commit \/ Open \/ LoadMore
    \/ \E n \in 1..sent : Serve(n) \/ ShowFirst(n) \/ ShowMore(n) \/ Fail(n)
    \/ AllRead

Spec == Init /\ [][Next]_vars

----------------------------------------------------------------------------
(* Safety *)

Shown == {rows[i] : i \in 1..Len(rows)}

(***************************************************************************)
(* The pages of a list fit together although rows are written, also ones      *)
(* with an older time, while they are read one by one: the list is in order,   *)
(* without a row twice, and a row that was there when the list was opened is    *)
(* not skipped. An earlier list's page that comes in late is excluded: the      *)
(* page appends it all the same. (audit.ts:88)                              *)
(***************************************************************************)
PagesFitTogether ==
    list # 0 =>
        /\ \A i \in 1..(Len(rows) - 1) : Newer(rows[i], rows[i + 1])
        /\ \A row \in base :
            Matches(row, filter) /\ (cursor # None => Newer(row, cursor)) => row \in Shown
=============================================================================
