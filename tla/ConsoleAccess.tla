---------------------------- MODULE ConsoleAccess ----------------------------
(***************************************************************************)
(* Who may use the console of one organization: invites, passkey            *)
(* ceremonies, sessions and memberships (auth/passkeys.ts, sessions.ts,     *)
(* rbac.ts, and the member endpoints of api/console/organization.ts). Every *)
(* request is an invocation of the Worker that reads, waits and writes;      *)
(* only a single statement or one batch is atomic.                          *)
(*                                                                         *)
(* A registration makes up its user id together with its challenge, and a   *)
(* request makes at most one session: the challenge names the user, the     *)
(* request names the session. Founders have an account and a session to     *)
(* begin with, and an operator may have made the invite. Cryptography is a  *)
(* step that may fail; a refusal because a challenge, an invite or a session *)
(* has expired is a request that stops.                                     *)
(***************************************************************************)
EXTENDS Naturals, FiniteSets

CONSTANTS Founders, FounderRole,   \* accounts that exist, and their roles
          Invites, Challenges, Requests,
          GrantedRoles,            \* roles members hand out
          None

VARIABLES members,     \* memberships; `disabled' counts how often, and is not a column
          invites, challenges, sessions,
          events,      \* member.joined and member.invite_revoked events of each invite
          req

vars == <<members, invites, challenges, sessions, events, req>>

Users == Founders \cup Challenges

\* The ids of accounts and challenges are distinct, and None is none of them.
ASSUME AccessAssumption == None \notin Users /\ Founders \cap Challenges = {}

SessionIds == Founders \cup Requests

RoleRank == [viewer |-> 0, approver |-> 1, security |-> 2, admin |-> 3, owner |-> 4]
Roles == DOMAIN RoleRank
CanGrant(granter, target) == RoleRank[granter] >= RoleRank[target]
MayManageMembers(role) == RoleRank[role] >= RoleRank["admin"]

NoMember == [status |-> "none"]
NoInvite == [state |-> "none"]
OpenInvite(role) == [state |-> "open", role |-> role, by |-> None]
NoChallenge == [purpose |-> "none"]
NoSession == [user |-> None]

Member(role) == [role |-> role, status |-> "active", disabled |-> 0]
Active(u) == members[u].status = "active"

\* loadSession: a session that was not revoked, of an active member.
Usable(s) == sessions[s].user # None /\ ~sessions[s].revoked /\ Active(sessions[s].user)

NewSession(u, via) ==
    [user |-> u, revoked |-> FALSE, via |-> via, born |-> members[u].disabled]

Idle == [stage |-> "idle"]
Done == [stage |-> "done"]
Becomes(r, q) == req' = [req EXCEPT ![r] = q]

Init ==
    /\ members = [u \in Users |-> IF u \in Founders THEN Member(FounderRole[u]) ELSE NoMember]
    /\ invites \in [Invites -> {NoInvite} \cup {OpenInvite(role) : role \in GrantedRoles}]
    /\ challenges = [c \in Challenges |-> NoChallenge]
    /\ sessions = [s \in SessionIds |-> IF s \in Founders THEN NewSession(s, s) ELSE NoSession]
    /\ events = [i \in Invites |-> [joined |-> 0, revoked |-> 0]]
    /\ req = [r \in Requests |-> Idle]

----------------------------------------------------------------------------
(* Ceremonies *)

Open(i) == invites[i].state = "open"

\* register/options and login/options. A challenge stored for an invite that ends meanwhile
\* is as good as one stored before: the verification reads the invite again.
StoreChallenge ==
    /\ \E c \in Challenges :
        /\ challenges[c] = NoChallenge
        /\ \/ \E i \in Invites :
                /\ Open(i)
                /\ challenges' = [challenges EXCEPT ![c] =
                                     [purpose |-> "register", invite |-> i, used |-> FALSE]]
           \/ challenges' = [challenges EXCEPT ![c] =
                                [purpose |-> "login", invite |-> None, used |-> FALSE]]
    /\ UNCHANGED <<members, invites, sessions, events, req>>

\* register/verify reads the invite, login/verify nothing, before the challenge is taken.
BeginVerify(r) ==
    /\ req[r] = Idle
    /\ \E c \in Challenges :
        /\ challenges[c] # NoChallenge
        /\ \/ \E i \in Invites :
                Open(i) /\ Becomes(r, [stage |-> "take", purpose |-> "register", challenge |-> c, invite |-> i])
           \/ \E u \in Users :
                /\ members[u] # NoMember
                /\ Becomes(r, [stage |-> "take", purpose |-> "login", challenge |-> c, user |-> u])
    /\ UNCHANGED <<members, invites, challenges, sessions, events>>

IsStored(c, purpose) == challenges[c].purpose = purpose   \* mutant: used_at is not looked at
Redeemable(c, purpose) == challenges[c].purpose = purpose /\ ~challenges[c].used

\* takeChallenge; a registration must have been begun with the same invite.
TakeChallenge(r) ==
    /\ req[r].stage = "take"
    /\ LET q == req[r]
           c == q.challenge
       IN  IF ~Redeemable(c, q.purpose) THEN Becomes(r, Done) /\ UNCHANGED challenges
           ELSE /\ challenges' = [challenges EXCEPT ![c].used = TRUE]
                /\ Becomes(r, IF q.purpose = "login"
                              THEN [stage |-> "membership", challenge |-> c, user |-> q.user]
                              ELSE IF challenges[c].invite # q.invite THEN Done
                              ELSE [stage |-> "claim", challenge |-> c, invite |-> q.invite])
    /\ UNCHANGED <<members, invites, sessions, events>>

AnyoneClaimed(after, i, c) == after[i].state = "accepted"   \* mutant: not by whom
Claimed(after, i, c) == after[i].state = "accepted" /\ after[i].by = c

(***************************************************************************)
(* The batch of register/verify: claim the invite, then the account, the    *)
(* membership and the event, each only if this request has claimed it.      *)
(***************************************************************************)
ClaimInvite(r) ==
    /\ req[r].stage = "claim"
    /\ LET c == req[r].challenge
           i == req[r].invite
           after == IF Open(i) THEN [invites EXCEPT ![i] = [state |-> "accepted", role |-> @.role, by |-> c]]
                    ELSE invites
       IN  /\ invites' = after
           /\ IF Claimed(after, i, c)
              THEN /\ members' = [members EXCEPT ![c] = Member(invites[i].role)]
                   /\ events' = [events EXCEPT ![i].joined = @ + 1]
                   /\ Becomes(r, [stage |-> "session", challenge |-> c, user |-> c])
              ELSE Becomes(r, Done) /\ UNCHANGED <<members, events>>
    /\ UNCHANGED <<challenges, sessions>>

\* login/verify: the memberships of the passkey's user.
ReadMembership(r) ==
    /\ req[r].stage = "membership"
    /\ Becomes(r, IF Active(req[r].user)
                  THEN [stage |-> "session", challenge |-> req[r].challenge, user |-> req[r].user]
                  ELSE Done)
    /\ UNCHANGED <<members, invites, challenges, sessions, events>>

InsertSession(r) ==
    /\ req[r].stage = "session"
    /\ sessions' = [sessions EXCEPT ![r] = NewSession(req[r].user, req[r].challenge)]
    /\ Becomes(r, Done)
    /\ UNCHANGED <<members, invites, challenges, events>>

----------------------------------------------------------------------------
(* Console requests, with the session and the role that loadSession read *)

LoadSession(r) ==
    /\ req[r] = Idle
    /\ \E s \in SessionIds :
        /\ Usable(s)
        /\ Becomes(r, [stage |-> "console", session |-> s, user |-> sessions[s].user,
                       role |-> members[sessions[s].user].role])
    /\ UNCHANGED <<members, invites, challenges, sessions, events>>

Managing(r) == req[r].stage = "console" /\ MayManageMembers(req[r].role)

CreateInvite(r) ==
    /\ Managing(r)
    /\ \E i \in Invites, role \in GrantedRoles :
        /\ invites[i] = NoInvite
        /\ CanGrant(req[r].role, role)
        /\ invites' = [invites EXCEPT ![i] = OpenInvite(role)]
    /\ Becomes(r, Done)
    /\ UNCHANGED <<members, challenges, sessions, events>>

\* An event is written only if the update took effect.
RevokeInvite(r) ==
    /\ Managing(r)
    /\ \E i \in Invites :
        IF Open(i)
        THEN /\ invites' = [invites EXCEPT ![i].state = "revoked"]
             /\ events' = [events EXCEPT ![i].revoked = @ + 1]
        ELSE UNCHANGED <<invites, events>>
    /\ Becomes(r, Done)
    /\ UNCHANGED <<members, challenges, sessions>>

\* updateMember reads the row of the member, and both columns of the change are written back.
ReadMember(r) ==
    /\ Managing(r)
    /\ \E u \in Users \ {req[r].user}, role \in Roles, status \in {"active", "disabled"} :
        LET seen == members[u]
            demotes == seen.role = "owner" /\ (role # "owner" \/ status # "active")
        IN  /\ seen # NoMember
            /\ role \in GrantedRoles \cup {seen.role}
            /\ CanGrant(req[r].role, seen.role) /\ CanGrant(req[r].role, role)
            /\ Becomes(r, [stage |-> IF demotes THEN "owners" ELSE "write",
                           user |-> u, role |-> role, status |-> status])
    /\ UNCHANGED <<members, invites, challenges, sessions, events>>

ActiveOwners == {u \in Users : Active(u) /\ members[u].role = "owner"}

CountOwners(r) ==
    /\ req[r].stage = "owners"
    /\ Becomes(r, IF Cardinality(ActiveOwners) <= 1 THEN Done ELSE [req[r] EXCEPT !.stage = "write"])
    /\ UNCHANGED <<members, invites, challenges, sessions, events>>

Revoked(ids) == [s \in SessionIds |-> IF s \in ids THEN [sessions[s] EXCEPT !.revoked = TRUE] ELSE sessions[s]]
SessionsOf(u) == {s \in SessionIds : sessions[s].user = u}

NoSessions(q) == {}   \* mutant: sessions outlive the membership
EndedWith(q) == IF q.status = "disabled" THEN SessionsOf(q.user) ELSE {}

\* The batch of updateMember; disabling a member revokes its sessions.
WriteMember(r) ==
    /\ req[r].stage = "write"
    /\ LET q == req[r] IN
       /\ members' = [members EXCEPT ![q.user] =
                         [role |-> q.role, status |-> q.status,
                          disabled |-> IF q.status = "disabled" THEN @.disabled + 1 ELSE @.disabled]]
       /\ sessions' = Revoked(EndedWith(q))
    /\ Becomes(r, Done)
    /\ UNCHANGED <<invites, challenges, events>>

RevokeOtherSessions(r) ==
    /\ req[r].stage = "console"
    /\ sessions' = Revoked(SessionsOf(req[r].user) \ {req[r].session})
    /\ Becomes(r, Done)
    /\ UNCHANGED <<members, invites, challenges, events>>

Logout(r) ==
    /\ req[r].stage = "console"
    /\ sessions' = Revoked({req[r].session})
    /\ Becomes(r, Done)
    /\ UNCHANGED <<members, invites, challenges, events>>

\* switch-organization, to the organization itself: the membership is read, then one batch
\* revokes the session and inserts the next.
BeginSwitch(r) ==
    /\ req[r].stage = "console"
    /\ Active(req[r].user)
    /\ Becomes(r, [stage |-> "switch", session |-> req[r].session, user |-> req[r].user])
    /\ UNCHANGED <<members, invites, challenges, sessions, events>>

Switch(r) ==
    /\ req[r].stage = "switch"
    /\ sessions' = [Revoked({req[r].session}) EXCEPT ![r] = NewSession(req[r].user, None)]
    /\ Becomes(r, Done)
    /\ UNCHANGED <<members, invites, challenges, events>>

\* A refusal (permission, expiry, rate limit), a passkey that does not verify, a lost invocation.
Stop(r) ==
    /\ req[r] \notin {Idle, Done}
    /\ Becomes(r, Done)
    /\ UNCHANGED <<members, invites, challenges, sessions, events>>

\* Bound: every request was made.
AllDone == (\A r \in Requests : req[r] = Done) /\ UNCHANGED vars

Next ==
    \/ StoreChallenge
    \/ \E r \in Requests :
        \/ BeginVerify(r) \/ TakeChallenge(r) \/ ClaimInvite(r) \/ ReadMembership(r) \/ InsertSession(r)
        \/ LoadSession(r) \/ CreateInvite(r) \/ RevokeInvite(r)
        \/ ReadMember(r) \/ CountOwners(r) \/ WriteMember(r)
        \/ RevokeOtherSessions(r) \/ Logout(r) \/ BeginSwitch(r) \/ Switch(r) \/ Stop(r)
    \/ AllDone

Spec == Init /\ [][Next]_vars

----------------------------------------------------------------------------
(* Safety *)

(***************************************************************************)
(* A challenge signs somebody in, or lets somebody join, once: not for two   *)
(* requests that carry the same cookie and passed the same checks.          *)
(* (passkeys.ts:114)                                                        *)
(***************************************************************************)
OneSignInPerChallenge ==
    \A c \in Challenges : Cardinality({s \in SessionIds : sessions[s].user # None /\ sessions[s].via = c}) <= 1

(***************************************************************************)
(* An invite ends once, accepted or revoked, and its end is what the trail   *)
(* says: it brings in exactly one member if it was accepted, none if it was  *)
(* revoked, however many acceptances and revocations race. (passkeys.ts:234) *)
(***************************************************************************)
InviteEndsOnce ==
    \A i \in Invites :
        LET joined == {c \in Challenges : members[c] # NoMember /\ challenges[c].invite = i} IN
        /\ events[i].joined + events[i].revoked <= 1
        /\ events[i].joined = 1 <=> invites[i].state = "accepted"
        /\ events[i].revoked = 1 <=> invites[i].state = "revoked"
        /\ Cardinality(joined) = events[i].joined

(***************************************************************************)
(* A session does not outlive the disabling of its member: one that existed *)
(* then stays revoked, also when the member is enabled again.               *)
(* (organization.ts:167)                                                    *)
(***************************************************************************)
DisablingEndsSessions ==
    \A s \in SessionIds :
        sessions[s].user # None /\ sessions[s].born < members[sessions[s].user].disabled
        => sessions[s].revoked

\* docs/SECURITY_MODEL.md:62: "Members cannot [...] remove the last owner."
SomeoneOwns == ActiveOwners # {}
=============================================================================
