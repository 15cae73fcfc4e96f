--------------------------- MODULE FoundingAccess ---------------------------
(***************************************************************************)
(* The Founding Access form: the page in the visitor's browser               *)
(* (web/src/marketing/founding.ts), the two endpoints it calls               *)
(* (api/public.ts) and the note to the team's Slack (leads/slack.ts).        *)
(*                                                                         *)
(* A submission must bring a token that the server signed MinAge to MaxAge   *)
(* before. The page fetches one when the form comes near, at most once at a   *)
(* time, and forgets it when the server refuses it. Answers can be lost while *)
(* the request goes on, so that a retry overlaps it. Time is the server's, in *)
(* units of the shortest time to fill in the form; an email that was stored   *)
(* within MaxTime is a duplicate.                                           *)
(***************************************************************************)
EXTENDS Naturals

CONSTANTS Tabs,      \* pages with the form
          Emails,
          Requests,  \* submissions, each made at most once
          MinAge,    \* FORM_MIN_AGE_MS
          MaxAge,    \* FORM_MAX_AGE_MS
          MaxTime,   \* bound: time that passes, within a day
          None

VARIABLES form, req,
          leads,     \* founding_access_requests: the submission that each row is of
          announced, \* leads that Slack was told of
          now

vars == <<form, req, leads, announced, now>>

(***************************************************************************)
(* fetching: none, asked, issued; token: formToken; shows: the last message, *)
(* and `since' when a refused token was told; chances: listeners not fired.   *)
(* `waited', how long a visitor whose token was refused let pass before they *)
(* submitted again, is not in the code, nor is a submission's `beside', the   *)
(* ones with its email that were about to be stored when it looked.          *)
(***************************************************************************)
NewForm == [stage |-> "editing", fetching |-> "none", issued |-> 0, token |-> None,
            request |-> None, shows |-> "", since |-> 0, waited |-> 0, chances |-> 2]

Unsent == [stage |-> "unsent"]

Init ==
    /\ now = 0
    /\ form = [v \in Tabs |-> NewForm]
    /\ req = [r \in Requests |-> Unsent]
    /\ leads = {} /\ announced = {}

Form(v, f) == form' = [form EXCEPT ![v] = f]
Request(r, q) == req' = [req EXCEPT ![r] = q]
Answered(q, answer) == [q EXCEPT !.stage = "answered", !.answer = answer]
Refuses(answer) == answer \in {"expired", "too_fast"}
Says(f, what) ==
    [f EXCEPT !.stage = "editing", !.shows = what, !.request = None,
              !.since = IF Refuses(what) THEN now ELSE 0]

----------------------------------------------------------------------------
(* The token *)

Asks(f) == IF f.fetching = "none" THEN [f EXCEPT !.fetching = "asked"] ELSE f

\* The form comes near, or is entered: each listener fires once.
Approach(v) ==
    /\ form[v].chances > 0
    /\ Form(v, Asks([form[v] EXCEPT !.chances = @ - 1]))
    /\ UNCHANGED <<req, leads, announced, now>>

IssueToken(v) ==
    /\ form[v].fetching = "asked"
    /\ Form(v, [form[v] EXCEPT !.fetching = "issued", !.issued = now])
    /\ UNCHANGED <<req, leads, announced, now>>

ReceiveToken(v) ==
    /\ form[v].fetching = "issued" /\ form[v].token = None
    /\ Form(v, [form[v] EXCEPT !.token = form[v].issued, !.issued = 0])
    /\ UNCHANGED <<req, leads, announced, now>>

\* The server has no key, or the answer is lost. A submission that waits for it is given up.
TokenFails(v) ==
    /\ form[v].fetching # "none" /\ form[v].token = None
    /\ LET f == [form[v] EXCEPT !.fetching = "none", !.issued = 0] IN
       Form(v, IF f.stage = "preparing" THEN Says(f, "unprepared") ELSE f)
    /\ UNCHANGED <<req, leads, announced, now>>

----------------------------------------------------------------------------
(* Submitting *)

\* Fields that the page finds invalid go nowhere; else the submission waits for a token.
Submit(v) ==
    /\ form[v].stage = "editing"
    /\ Form(v, [Asks(form[v]) EXCEPT !.stage = "preparing",
                                     !.waited = IF Refuses(form[v].shows) THEN now - form[v].since ELSE 0])
    /\ UNCHANGED <<req, leads, announced, now>>

Send(v) ==
    /\ form[v].stage = "preparing" /\ form[v].token # None
    /\ \E r \in Requests, email \in Emails, website \in {"", "filled"} :
        /\ req[r] = Unsent
        /\ Request(r, [stage |-> "sent", email |-> email, website |-> website,
                       token |-> form[v].token, beside |-> {}, answer |-> ""])
        /\ Form(v, [form[v] EXCEPT !.stage = "sending", !.request = r])
    /\ UNCHANGED <<leads, announced, now>>

NothingIsCaught(q) == FALSE   \* mutant: no honeypot
\* The field that the page hides from people: whoever fills it in hears "ok", nothing more.
Caught(q) == q.website # ""

Age(q) == now - q.token
TooFast(q) == Age(q) < MinAge
Expired(q) == Age(q) > MaxAge
KnownToSlack(email) == \E r \in announced : req[r].email = email   \* mutant
Duplicate(email) == \E r \in leads : req[r].email = email

AboutToBeStored(email) == {r \in Requests : req[r].stage = "insert" /\ req[r].email = email}

\* foundingAccessSubmit up to its look for a duplicate: "limited" is the rate limit, "invalid"
\* what only the server finds wrong with the fields.
Check(r) ==
    /\ req[r].stage = "sent"
    /\ \/ Request(r, Answered(req[r], "limited"))
       \/ Caught(req[r]) /\ Request(r, Answered(req[r], "ok"))
       \/ ~Caught(req[r]) /\ Expired(req[r]) /\ Request(r, Answered(req[r], "expired"))
       \/ ~Caught(req[r]) /\ TooFast(req[r]) /\ Request(r, Answered(req[r], "too_fast"))
       \/ /\ ~Caught(req[r]) /\ ~Expired(req[r]) /\ ~TooFast(req[r])
          /\ \/ Request(r, Answered(req[r], "invalid"))
             \/ /\ Duplicate(req[r].email)
                /\ Request(r, Answered(req[r], "ok"))
             \/ /\ ~Duplicate(req[r].email)
                /\ Request(r, [req[r] EXCEPT !.stage = "insert", !.beside = AboutToBeStored(req[r].email)])
    /\ UNCHANGED <<form, leads, announced, now>>

LeftToTheBackground(r) == leads   \* mutant: the lead is stored with the note, after the answer
WithLead(r) == leads \cup {r}

Insert(r) ==
    /\ req[r].stage = "insert"
    /\ leads' = WithLead(r)
    /\ Request(r, [req[r] EXCEPT !.stage = "announce", !.answer = "ok"])
    /\ UNCHANGED <<form, announced, now>>

\* notifySlackLead, in the background and without a retry.
Announce(r) ==
    /\ req[r].stage = "announce"
    /\ \/ announced' = announced \cup {r}
       \/ UNCHANGED announced
    /\ Request(r, [req[r] EXCEPT !.stage = "answered"])
    /\ UNCHANGED <<form, leads, now>>

\* D1 or the invocation fails before the answer.
ServerFails(r) ==
    /\ req[r].stage \in {"sent", "insert"}
    /\ Request(r, Answered(req[r], "error"))
    /\ UNCHANGED <<form, leads, announced, now>>

\* What the page makes of an answer: a refused token is forgotten, to fetch a fresh one.
Heard(f, answer) ==
    CASE answer = "ok" -> [f EXCEPT !.stage = "done", !.shows = "thanks"]
      [] Refuses(answer) -> Says([f EXCEPT !.token = None, !.fetching = "none"], answer)
      [] OTHER -> Says(f, answer)

Answer(v) ==
    /\ form[v].stage = "sending"
    /\ req[form[v].request].stage \in {"answered", "announce"}
    /\ Form(v, Heard(form[v], req[form[v].request].answer))
    /\ UNCHANGED <<req, leads, announced, now>>

\* The connection breaks: the request may never arrive, or go on.
NetworkFails(v) ==
    /\ form[v].stage = "sending"
    /\ Form(v, Says(form[v], "network"))
    /\ \/ UNCHANGED req
       \/ /\ req[form[v].request].stage = "sent"
          /\ Request(form[v].request, Answered(req[form[v].request], "never"))
    /\ UNCHANGED <<leads, announced, now>>

Reload(v) ==
    /\ form[v].stage # "sending"
    /\ Form(v, NewForm)
    /\ UNCHANGED <<req, leads, announced, now>>

Tick == now < MaxTime /\ now' = now + 1 /\ UNCHANGED <<form, req, leads, announced>>

Next ==
    \/ \E v \in Tabs : Approach(v) \/ IssueToken(v) \/ ReceiveToken(v) \/ TokenFails(v)
                       \/ Submit(v) \/ Send(v) \/ Answer(v) \/ NetworkFails(v) \/ Reload(v)
    \/ \E r \in Requests : Check(r) \/ Insert(r) \/ Announce(r) \/ ServerFails(r)
    \/ Tick

Spec == Init /\ [][Next]_vars

----------------------------------------------------------------------------
(* Safety *)

(***************************************************************************)
(* Who left the hidden field empty is thanked only when a lead with their    *)
(* email is stored; of a submission with that field nothing ever is. An       *)
(* email is stored a second time only by submissions that overlap: retries   *)
(* after a lost answer, of several pages too, find the first one's lead.      *)
(* Slack hears of stored leads. (public.ts:144, 162, docs/OPERATIONS.md:51)   *)
(***************************************************************************)
ThanksForOneLead ==
    /\ \A v \in Tabs : form[v].stage = "done" /\ req[form[v].request].website = "" =>
          \E r \in leads : req[r].email = req[form[v].request].email
    /\ \A r \in leads : req[r].website = ""
    /\ \A r, s \in leads : r # s /\ req[r].email = req[s].email =>
          r \in req[s].beside \/ s \in req[r].beside
    /\ announced \subseteq leads

(***************************************************************************)
(* A visitor whose token was refused, and who then takes the moment that the *)
(* form asks for before they submit again, is not refused as too fast.        *)
(* founding.ts:146 says of a refused token: "fetch a fresh token and let the  *)
(* visitor retry". It does not hold: the fresh token is fetched when they     *)
(* submit again.                                                           *)
(***************************************************************************)
RetriesAreHeard ==
    \A v \in Tabs : form[v].shows = "too_fast" /\ form[v].stage = "editing" => form[v].waited < MinAge
=============================================================================
