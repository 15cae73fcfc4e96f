----------------------------- MODULE AccessProofs -----------------------------
(***************************************************************************)
(* Proofs about ConsoleAccess, for any accounts, invites, ceremonies and     *)
(* requests: a challenge is redeemed once, an invite ends once, and sessions  *)
(* do not outlive the disabling of their member. Then those of KeyedResource, *)
(* for any incidents and any number of requests.                            *)
(***************************************************************************)
EXTENDS ConsoleAccess, KeyedResource, FiniteSetTheorems, TLAPS

Exists(u) == members[u] # NoMember

\* A challenge a request has taken, and one a session was made with.
Holds(q, c) == q.stage \in {"membership", "claim", "session"} /\ q.challenge = c
Made(s, c) == sessions[s].user # None /\ sessions[s].via = c

Taken(c) == challenges[c] # NoChallenge /\ challenges[c].used = TRUE

MemberOK(u) ==
    Exists(u) => members[u].status \in {"active", "disabled"} /\ members[u].disabled \in Nat

ChallengeOK(c) ==
    challenges[c] # NoChallenge =>
        /\ DOMAIN challenges[c] = {"purpose", "invite", "used"}
        /\ challenges[c].purpose \in {"login", "register"}

SessionOK(s) ==
    sessions[s] # NoSession =>
        /\ DOMAIN sessions[s] = {"user", "revoked", "via", "born"}
        /\ sessions[s].user \in Users /\ Exists(sessions[s].user)
        /\ sessions[s].born \in Nat
        /\ sessions[s].born < members[sessions[s].user].disabled => sessions[s].revoked = TRUE

\* What an invocation holds is still so when it goes on.
RequestOK(q) ==
    /\ q.stage = "take" =>
          /\ q.challenge \in Challenges /\ q.purpose \in {"login", "register"}
          /\ q.purpose = "login" => q.user \in Users /\ Exists(q.user)
          /\ q.purpose = "register" => q.invite \in Invites
    /\ q.stage \in {"membership", "session"} => q.challenge \in Challenges /\ q.user \in Users /\ Exists(q.user)
    /\ q.stage = "claim" =>
          /\ q.challenge \in Challenges /\ q.invite \in Invites
          /\ challenges[q.challenge] # NoChallenge /\ challenges[q.challenge].invite = q.invite
          /\ ~Exists(q.challenge)
    /\ q.stage \in {"console", "switch"} =>
          /\ q.user \in Users /\ Exists(q.user)
          /\ q.session \in SessionIds /\ sessions[q.session] # NoSession
    /\ q.stage \in {"owners", "write"} =>
          /\ DOMAIN q = {"stage", "user", "role", "status"}
          /\ q.user \in Users /\ Exists(q.user) /\ q.status \in {"active", "disabled"}

\* A challenge is with one request or one session at most, and taken from the first one on.
Once(c) ==
    /\ Exists(c) => Taken(c)
    /\ \A r \in Requests : Holds(req[r], c) => Taken(c)
    /\ \A s \in SessionIds : Made(s, c) => Taken(c)
    /\ \A r, s \in Requests : Holds(req[r], c) /\ Holds(req[s], c) => r = s
    /\ \A r \in Requests, s \in SessionIds : ~(Holds(req[r], c) /\ Made(s, c))
    /\ \A s, t \in SessionIds : Made(s, c) /\ Made(t, c) => s = t

InviteOK(i) ==
    /\ invites[i].state \in {"none", "open", "accepted", "revoked"}
    /\ invites[i].state = "open" => DOMAIN invites[i] = {"state", "role", "by"}
    /\ DOMAIN events[i] = {"joined", "revoked"}
    /\ events[i].joined = IF invites[i].state = "accepted" THEN 1 ELSE 0
    /\ events[i].revoked = IF invites[i].state = "revoked" THEN 1 ELSE 0
    /\ invites[i].state = "accepted" =>
          LET c == invites[i].by IN c \in Challenges /\ Exists(c) /\ challenges[c].invite = i
    /\ \A c \in Challenges :
          Exists(c) /\ challenges[c].invite = i => invites[i].state = "accepted" /\ invites[i].by = c

Tables ==
    /\ DOMAIN members = Users /\ DOMAIN challenges = Challenges /\ DOMAIN invites = Invites
    /\ DOMAIN sessions = SessionIds /\ DOMAIN events = Invites /\ DOMAIN req = Requests

Inv ==
    /\ Tables
    /\ \A u \in Users : MemberOK(u)
    /\ \A c \in Challenges : ChallengeOK(c)
    /\ \A s \in SessionIds : SessionOK(s)
    /\ \A r \in Requests : RequestOK(req[r])
    /\ \A c \in Challenges : Once(c)
    /\ \A i \in Invites : InviteOK(i)

----------------------------------------------------------------------------
(* Initial states *)

LEMMA Nobody ==
    /\ NoMember.status = "none" /\ NoChallenge.purpose = "none" /\ NoSession.user = None
    /\ Idle.stage = "idle" /\ Done.stage = "done" /\ NoInvite.state = "none"
  BY DEF NoMember, NoChallenge, NoSession, Idle, Done, NoInvite

LEMMA InitInv == ASSUME Init PROVE Inv
<1>1. Tables
  BY DEF Init, Tables
<1>2. ASSUME NEW u \in Users PROVE MemberOK(u)
  <2>1. members[u] = IF u \in Founders THEN Member(FounderRole[u]) ELSE NoMember
    BY <1>2 DEF Init
  <2>2. QED
    BY <2>1 DEF MemberOK, Exists, Member
<1>3. \A c \in Challenges : challenges[c] = NoChallenge /\ ~Exists(c)
  BY AccessAssumption DEF Init, Users, Exists
<1>4. ASSUME NEW s \in SessionIds
      PROVE  SessionOK(s) /\ (sessions[s].user # None => sessions[s].via \in Founders)
  <2>1. sessions[s] = IF s \in Founders THEN NewSession(s, s) ELSE NoSession
    BY <1>4 DEF Init
  <2>2. CASE s \in Founders
    <3>1. members[s] = Member(FounderRole[s]) /\ s \in Users
      BY <2>2 DEF Init, Users
    <3>2. members[s].disabled = 0 /\ members[s].status = "active"
      BY <3>1 DEF Member
    <3>3. sessions[s] = [user |-> s, revoked |-> FALSE, via |-> s, born |-> 0]
      BY <2>1, <2>2, <3>2 DEF NewSession
    <3>4. Exists(s)
      BY <3>2, Nobody DEF Exists
    <3>5. QED
      BY <2>2, <3>1, <3>2, <3>3, <3>4 DEF SessionOK
  <2>3. CASE s \notin Founders
    BY <2>1, <2>3, Nobody DEF SessionOK
  <2>4. QED
    BY <2>2, <2>3
<1>5. \A r \in Requests : req[r].stage = "idle"
  BY Nobody DEF Init
<1>6. \A r \in Requests : RequestOK(req[r])
  BY <1>5 DEF RequestOK
<1>7. \A c \in Challenges : Once(c)
  BY <1>3, <1>4, <1>5, AccessAssumption DEF Once, Holds, Made
<1>8. ASSUME NEW i \in Invites PROVE InviteOK(i)
  <2>1. invites[i] \in {NoInvite} \cup {OpenInvite(role) : role \in GrantedRoles}
    BY <1>8 DEF Init
  <2>2. invites[i].state \in {"none", "open"}
    BY <2>1, Nobody DEF OpenInvite
  <2>3. invites[i].state = "open" => DOMAIN invites[i] = {"state", "role", "by"}
    BY <2>1, Nobody DEF OpenInvite
  <2>4. events[i] = [joined |-> 0, revoked |-> 0]
    BY <1>8 DEF Init
  <2>5. QED
    BY <1>3, <2>2, <2>3, <2>4 DEF InviteOK
<1>9. QED
  BY <1>1, <1>2, <1>3, <1>4, <1>6, <1>7, <1>8 DEF Inv, ChallengeOK

----------------------------------------------------------------------------
(* Requests that only read *)

\* An invocation goes on with what it may hold, and with no challenge but its own.
LEMMA MovesOn ==
    ASSUME Inv, NEW r \in Requests, NEW q, Becomes(r, q), RequestOK(q),
           \A c \in Challenges : Holds(q, c) => Holds(req[r], c),
           UNCHANGED <<members, invites, challenges, sessions, events>>
    PROVE  Inv'
<1>1. \A s \in Requests : req'[s] = IF s = r THEN q ELSE req[s]
  BY DEF Becomes, Inv, Tables
<1>2. Tables'
  BY DEF Becomes, Inv, Tables
<1>3. \A u \in Users : MemberOK(u)'
  BY DEF Inv, MemberOK, Exists
<1>4. \A c \in Challenges : ChallengeOK(c)'
  BY DEF Inv, ChallengeOK
<1>5. \A s \in SessionIds : SessionOK(s)'
  BY DEF Inv, SessionOK, Exists
<1>6. \A s \in Requests : RequestOK(req[s])'
  BY <1>1 DEF Inv, RequestOK, Exists
<1>7. ASSUME NEW c \in Challenges PROVE Once(c)'
  <2>1. \A s \in Requests : Holds(req'[s], c) => Holds(req[s], c)
    BY <1>1 DEF Holds
  <2>2. Once(c)
    BY DEF Inv
  <2>3. QED
    BY <2>1, <2>2 DEF Once, Exists, Taken, Made, Holds
<1>8. \A i \in Invites : InviteOK(i)'
  BY DEF Inv, InviteOK, Exists
<1>9. QED
  BY <1>2, <1>3, <1>4, <1>5, <1>6, <1>7, <1>8 DEF Inv

LEMMA Rests == /\ RequestOK(Done) /\ \A c : ~Holds(Done, c)
               /\ Done.stage = "done"
  BY Nobody DEF RequestOK, Holds

LEMMA ReadsInv ==
    ASSUME Inv, NEW r \in Requests,
           \/ BeginVerify(r) \/ ReadMembership(r) \/ LoadSession(r) \/ ReadMember(r)
           \/ CountOwners(r) \/ BeginSwitch(r) \/ Stop(r)
    PROVE  Inv'
<1>1. UNCHANGED <<members, invites, challenges, sessions, events>>
  BY DEF BeginVerify, ReadMembership, LoadSession, ReadMember, CountOwners, BeginSwitch, Stop
<1>2. RequestOK(req[r])
  BY DEF Inv
<1>3. CASE BeginVerify(r)
  <2>1. PICK c \in Challenges :
          \/ \E i \in Invites :
                Becomes(r, [stage |-> "take", purpose |-> "register", challenge |-> c, invite |-> i])
          \/ \E u \in Users :
                members[u] # NoMember
                /\ Becomes(r, [stage |-> "take", purpose |-> "login", challenge |-> c, user |-> u])
    BY <1>3 DEF BeginVerify
  <2>2. ASSUME NEW i \in Invites,
               Becomes(r, [stage |-> "take", purpose |-> "register", challenge |-> c, invite |-> i])
        PROVE  Inv'
    <3>1. PICK q : q = [stage |-> "take", purpose |-> "register", challenge |-> c, invite |-> i]
      OBVIOUS
    <3>2. RequestOK(q) /\ \A c1 : ~Holds(q, c1)
      BY <3>1 DEF RequestOK, Holds
    <3>3. QED
      BY <1>1, <2>2, <3>1, <3>2, MovesOn
  <2>3. ASSUME NEW u \in Users, Exists(u),
               Becomes(r, [stage |-> "take", purpose |-> "login", challenge |-> c, user |-> u])
        PROVE  Inv'
    <3>1. PICK q : q = [stage |-> "take", purpose |-> "login", challenge |-> c, user |-> u]
      OBVIOUS
    <3>2. RequestOK(q) /\ \A c1 : ~Holds(q, c1)
      BY <2>3, <3>1 DEF RequestOK, Holds
    <3>3. QED
      BY <1>1, <2>3, <3>1, <3>2, MovesOn
  <2>4. QED
    BY <2>1, <2>2, <2>3 DEF Exists
<1>4. CASE ReadMembership(r)
  <2>1. PICK q : Becomes(r, q) /\ \/ q = Done
                                  \/ q = [stage |-> "session", challenge |-> req[r].challenge, user |-> req[r].user]
    BY <1>4 DEF ReadMembership
  <2>2. RequestOK(q)
    BY <1>2, <1>4, <2>1, Rests DEF RequestOK, ReadMembership
  <2>3. \A c \in Challenges : Holds(q, c) => Holds(req[r], c)
    BY <1>4, <2>1, Rests DEF Holds, ReadMembership
  <2>4. QED
    BY <1>1, <2>1, <2>2, <2>3, MovesOn
<1>5. CASE LoadSession(r)
  <2>1. PICK s \in SessionIds :
          /\ Usable(s)
          /\ Becomes(r, [stage |-> "console", session |-> s, user |-> sessions[s].user,
                         role |-> members[sessions[s].user].role])
    BY <1>5 DEF LoadSession
  <2>2. sessions[s] # NoSession
    BY <2>1, Nobody DEF Usable
  <2>3. sessions[s].user \in Users /\ Exists(sessions[s].user)
    BY <2>2 DEF Inv, SessionOK
  <2>4. PICK q : q = [stage |-> "console", session |-> s, user |-> sessions[s].user,
                      role |-> members[sessions[s].user].role]
    OBVIOUS
  <2>5. RequestOK(q) /\ \A c : ~Holds(q, c)
    BY <2>2, <2>3, <2>4 DEF RequestOK, Holds
  <2>6. QED
    BY <1>1, <2>1, <2>4, <2>5, MovesOn
<1>6. CASE ReadMember(r)
  <2>1. PICK u \in Users, role \in Roles, status \in {"active", "disabled"} :
          LET demotes == members[u].role = "owner" /\ (role # "owner" \/ status # "active") IN
          /\ members[u] # NoMember
          /\ Becomes(r, [stage |-> IF demotes THEN "owners" ELSE "write",
                         user |-> u, role |-> role, status |-> status])
    BY <1>6 DEF ReadMember
  <2>2. PICK stage \in {"owners", "write"} :
          Becomes(r, [stage |-> stage, user |-> u, role |-> role, status |-> status])
    BY <2>1
  <2>3. PICK q : q = [stage |-> stage, user |-> u, role |-> role, status |-> status]
    OBVIOUS
  <2>4. RequestOK(q) /\ \A c : ~Holds(q, c)
    BY <2>1, <2>3 DEF RequestOK, Holds, Exists
  <2>5. QED
    BY <1>1, <2>2, <2>3, <2>4, MovesOn
<1>7. CASE CountOwners(r)
  <2>1. PICK q : Becomes(r, q) /\ (q = Done \/ q = [req[r] EXCEPT !.stage = "write"])
    BY <1>7 DEF CountOwners
  <2>2. /\ DOMAIN req[r] = {"stage", "user", "role", "status"}
        /\ req[r].user \in Users /\ Exists(req[r].user) /\ req[r].status \in {"active", "disabled"}
    BY <1>2, <1>7 DEF RequestOK, CountOwners
  <2>3. CASE q = [req[r] EXCEPT !.stage = "write"]
    <3>1. /\ q.stage = "write" /\ q.user = req[r].user /\ q.status = req[r].status
          /\ DOMAIN q = {"stage", "user", "role", "status"}
      BY <2>2, <2>3
    <3>2. RequestOK(q) /\ \A c : ~Holds(q, c)
      BY <2>2, <3>1 DEF RequestOK, Holds
    <3>3. QED
      BY <1>1, <2>1, <3>2, MovesOn
  <2>4. CASE q = Done
    BY <1>1, <2>1, <2>4, Rests, MovesOn
  <2>5. QED
    BY <2>1, <2>3, <2>4
<1>8. CASE BeginSwitch(r)
  <2>1. PICK q : q = [stage |-> "switch", session |-> req[r].session, user |-> req[r].user]
    OBVIOUS
  <2>2. RequestOK(q) /\ \A c : ~Holds(q, c)
    BY <1>2, <1>8, <2>1 DEF RequestOK, Holds, BeginSwitch
  <2>3. QED
    BY <1>1, <1>8, <2>1, <2>2, MovesOn DEF BeginSwitch
<1>9. CASE Stop(r)
  BY <1>1, <1>9, Rests, MovesOn DEF Stop
<1>10. QED
  BY <1>3, <1>4, <1>5, <1>6, <1>7, <1>8, <1>9

----------------------------------------------------------------------------
(* Challenges *)

LEMMA StoreInv == ASSUME Inv, StoreChallenge PROVE Inv'
<1>1. PICK c \in Challenges, i \in Invites \cup {None}, purpose \in {"login", "register"} :
        /\ challenges[c] = NoChallenge
        /\ challenges' = [challenges EXCEPT ![c] = [purpose |-> purpose, invite |-> i, used |-> FALSE]]
  BY DEF StoreChallenge
<1>2. UNCHANGED <<members, invites, sessions, events, req>>
  BY DEF StoreChallenge
<1>3. /\ \A d \in Challenges : d # c => challenges'[d] = challenges[d]
      /\ DOMAIN challenges' = Challenges
      /\ challenges'[c] = [purpose |-> purpose, invite |-> i, used |-> FALSE]
  BY <1>1 DEF Inv, Tables
<1>4. /\ ~Exists(c) /\ \A r \in Requests : ~Holds(req[r], c)
      /\ \A s \in SessionIds : ~Made(s, c)
  BY <1>1 DEF Inv, Once, Taken
<1>5. Tables'
  BY <1>2, <1>3 DEF Inv, Tables
<1>6. \A u \in Users : MemberOK(u)'
  BY <1>2 DEF Inv, MemberOK, Exists
<1>7. \A d \in Challenges : ChallengeOK(d)'
  <2>1. ChallengeOK(c)'
    BY <1>3 DEF ChallengeOK
  <2>2. QED
    BY <1>3, <2>1 DEF Inv, ChallengeOK
<1>8. \A s \in SessionIds : SessionOK(s)'
  BY <1>2 DEF Inv, SessionOK, Exists
<1>9. ASSUME NEW r \in Requests PROVE RequestOK(req[r])'
  <2>1. RequestOK(req[r])
    BY DEF Inv
  <2>2. req[r].stage = "claim" => req[r].challenge # c
    BY <1>1, <2>1 DEF RequestOK
  <2>3. QED
    BY <1>2, <1>3, <2>1, <2>2 DEF RequestOK, Exists
<1>10. ASSUME NEW d \in Challenges PROVE Once(d)'
  <2>1. Once(d)
    BY DEF Inv
  <2>2. CASE d = c
    BY <1>2, <1>4, <2>2 DEF Once, Exists, Holds, Made
  <2>3. CASE d # c
    BY <1>2, <1>3, <2>1, <2>3 DEF Once, Exists, Holds, Made, Taken
  <2>4. QED
    BY <2>2, <2>3
<1>11. ASSUME NEW j \in Invites PROVE InviteOK(j)'
  <2>1. InviteOK(j)
    BY DEF Inv
  <2>2. \A d \in Challenges : Exists(d) => d # c
    BY <1>4
  <2>3. QED
    BY <1>2, <1>3, <2>1, <2>2 DEF InviteOK, Exists
<1>12. QED
  BY <1>5, <1>6, <1>7, <1>8, <1>9, <1>10, <1>11 DEF Inv

LEMMA TakeInv == ASSUME Inv, NEW r \in Requests, TakeChallenge(r) PROVE Inv'
<1>1. PICK c : c = req[r].challenge
  OBVIOUS
<1>2. req[r].stage = "take" /\ c \in Challenges /\ RequestOK(req[r])
  BY <1>1 DEF Inv, TakeChallenge, RequestOK
<1>3. UNCHANGED <<members, invites, sessions, events>>
  BY DEF TakeChallenge
<1>4. CASE ~Redeemable(c, req[r].purpose)
  BY <1>1, <1>3, <1>4, Rests, MovesOn DEF TakeChallenge
<1>5. CASE Redeemable(c, req[r].purpose)
  <2>1. challenges' = [challenges EXCEPT ![c].used = TRUE]
    BY <1>1, <1>5 DEF TakeChallenge
  <2>2. PICK q :
          /\ Becomes(r, q)
          /\ \/ /\ req[r].purpose = "login"
                /\ q = [stage |-> "membership", challenge |-> c, user |-> req[r].user]
             \/ /\ req[r].purpose # "login" /\ challenges[c].invite = req[r].invite
                /\ q = [stage |-> "claim", challenge |-> c, invite |-> req[r].invite]
             \/ q = Done
    BY <1>1, <1>5 DEF TakeChallenge
  <2>3. challenges[c] # NoChallenge /\ challenges[c].used # TRUE
    BY <1>2, <1>5, Nobody DEF Redeemable, RequestOK
  <2>4. /\ DOMAIN challenges[c] = {"purpose", "invite", "used"}
        /\ challenges[c].purpose \in {"login", "register"}
    BY <1>2, <2>3 DEF Inv, ChallengeOK
  <2>5. /\ DOMAIN challenges' = Challenges
        /\ \A d \in Challenges : d # c => challenges'[d] = challenges[d]
        /\ challenges'[c] = [challenges[c] EXCEPT !.used = TRUE]
    BY <1>2, <2>1 DEF Inv, Tables
  <2>6. /\ challenges'[c].used = TRUE /\ challenges'[c].invite = challenges[c].invite
        /\ challenges'[c].purpose = challenges[c].purpose
        /\ DOMAIN challenges'[c] = {"purpose", "invite", "used"}
    BY <2>4, <2>5
  <2>7. challenges'[c] # NoChallenge
    BY <2>4, <2>6, Nobody
  <2>8. /\ ~Exists(c) /\ \A s \in Requests : ~Holds(req[s], c)
        /\ \A s \in SessionIds : ~Made(s, c)
    BY <1>2, <2>3 DEF Inv, Once, Taken
  <2>9. \A s \in Requests : req'[s] = IF s = r THEN q ELSE req[s]
    BY <2>2 DEF Becomes, Inv, Tables
  <2>10. \A d \in Challenges : d # c => ~Holds(q, d)
    BY <2>2, Rests DEF Holds
  <2>11. Tables'
    BY <1>3, <2>2, <2>5 DEF Becomes, Inv, Tables
  <2>12. \A u \in Users : MemberOK(u)'
    BY <1>3 DEF Inv, MemberOK, Exists
  <2>13. \A d \in Challenges : ChallengeOK(d)'
    <3>1. ChallengeOK(c)'
      BY <2>4, <2>6 DEF ChallengeOK
    <3>2. QED
      BY <2>5, <3>1 DEF Inv, ChallengeOK
  <2>14. \A s \in SessionIds : SessionOK(s)'
    BY <1>3 DEF Inv, SessionOK, Exists
  <2>15. RequestOK(q)'
    <3>1. CASE q = Done
      BY <3>1, Nobody DEF RequestOK
    <3>2. CASE req[r].purpose = "login" /\ q = [stage |-> "membership", challenge |-> c, user |-> req[r].user]
      BY <1>2, <1>3, <3>2 DEF RequestOK, Exists
    <3>3. CASE /\ req[r].purpose # "login" /\ challenges[c].invite = req[r].invite
               /\ q = [stage |-> "claim", challenge |-> c, invite |-> req[r].invite]
      BY <1>2, <1>3, <2>6, <2>7, <2>8, <3>3 DEF RequestOK, Exists
    <3>4. QED
      BY <2>2, <3>1, <3>2, <3>3
  <2>16. ASSUME NEW s \in Requests, s # r PROVE RequestOK(req[s])'
    <3>1. RequestOK(req[s]) /\ req'[s] = req[s]
      BY <2>9, <2>16 DEF Inv
    <3>2. req[s].stage = "claim" => req[s].challenge # c
      BY <2>8 DEF Holds
    <3>3. QED
      BY <1>3, <2>5, <3>1, <3>2 DEF RequestOK, Exists
  <2>17. ASSUME NEW d \in Challenges PROVE Once(d)'
    <3>1. Once(d)
      BY DEF Inv
    <3>2. CASE d = c
      <4>1. Taken(c)'
        BY <2>6, <2>7 DEF Taken
      <4>2. \A s \in Requests : Holds(req'[s], c) => s = r
        BY <2>8, <2>9
      <4>3. \A s \in SessionIds : ~Made(s, c)'
        BY <1>3, <2>8 DEF Made
      <4>4. QED
        BY <3>2, <4>1, <4>2, <4>3 DEF Once, Holds
    <3>3. CASE d # c
      <4>1. \A s \in Requests : Holds(req'[s], d) => Holds(req[s], d)
        BY <2>9, <2>10, <3>3
      <4>2. Taken(d) => Taken(d)'
        BY <2>5, <3>3 DEF Taken
      <4>3. QED
        BY <1>3, <3>1, <4>1, <4>2 DEF Once, Exists, Made, Holds
    <3>4. QED
      BY <3>2, <3>3
  <2>18. ASSUME NEW i \in Invites PROVE InviteOK(i)'
    <3>1. InviteOK(i)
      BY DEF Inv
    <3>2. \A d \in Challenges : challenges'[d].invite = challenges[d].invite
      BY <2>5, <2>6
    <3>3. QED
      BY <1>3, <3>1, <3>2 DEF InviteOK, Exists
  <2>19. \A s \in Requests : RequestOK(req[s])'
    BY <2>9, <2>15, <2>16
  <2>20. QED
    BY <2>11, <2>12, <2>13, <2>14, <2>17, <2>18, <2>19 DEF Inv
<1>6. QED
  BY <1>4, <1>5

----------------------------------------------------------------------------
(* Invites *)

\* Changes of invites and events alone, of one invite.
LEMMA InviteInv ==
    ASSUME Inv, NEW r \in Requests, NEW i \in Invites, Becomes(r, Done),
           UNCHANGED <<members, challenges, sessions>>,
           DOMAIN invites' = Invites, DOMAIN events' = Invites,
           \A j \in Invites : j # i => invites'[j] = invites[j] /\ events'[j] = events[j],
           InviteOK(i)'
    PROVE  Inv'
<1>1. \A s \in Requests : req'[s] = IF s = r THEN Done ELSE req[s]
  BY DEF Becomes, Inv, Tables
<1>2. Tables'
  BY DEF Becomes, Inv, Tables
<1>3. \A u \in Users : MemberOK(u)'
  BY DEF Inv, MemberOK, Exists
<1>4. \A c \in Challenges : ChallengeOK(c)'
  BY DEF Inv, ChallengeOK
<1>5. \A s \in SessionIds : SessionOK(s)'
  BY DEF Inv, SessionOK, Exists
<1>6. \A s \in Requests : RequestOK(req[s])'
  BY <1>1, Rests DEF Inv, RequestOK, Exists
<1>7. ASSUME NEW c \in Challenges PROVE Once(c)'
  <2>1. \A s \in Requests : Holds(req'[s], c) => Holds(req[s], c)
    BY <1>1, Rests
  <2>2. Once(c)
    BY DEF Inv
  <2>3. QED
    BY <2>1, <2>2 DEF Once, Exists, Taken, Made, Holds
<1>8. ASSUME NEW j \in Invites PROVE InviteOK(j)'
  BY DEF Inv, InviteOK, Exists
<1>9. QED
  BY <1>2, <1>3, <1>4, <1>5, <1>6, <1>7, <1>8 DEF Inv

LEMMA CreateInv == ASSUME Inv, NEW r \in Requests, CreateInvite(r) PROVE Inv'
<1>1. PICK i \in Invites, role \in GrantedRoles :
        invites[i] = NoInvite /\ invites' = [invites EXCEPT ![i] = OpenInvite(role)]
  BY DEF CreateInvite
<1>2. UNCHANGED <<members, challenges, sessions, events>> /\ Becomes(r, Done)
  BY DEF CreateInvite
<1>3. invites'[i] = [state |-> "open", role |-> role, by |-> None]
  BY <1>1 DEF Inv, Tables, OpenInvite
<1>4. InviteOK(i)'
  <2>1. InviteOK(i) /\ invites[i].state = "none"
    BY <1>1, Nobody DEF Inv
  <2>2. QED
    BY <1>2, <1>3, <2>1 DEF InviteOK, Exists
<1>5. QED
  BY <1>1, <1>2, <1>4, InviteInv DEF Inv, Tables

LEMMA RevokeInv == ASSUME Inv, NEW r \in Requests, RevokeInvite(r) PROVE Inv'
<1>1. PICK i \in Invites :
        IF Open(i)
        THEN /\ invites' = [invites EXCEPT ![i].state = "revoked"]
             /\ events' = [events EXCEPT ![i].revoked = @ + 1]
        ELSE UNCHANGED <<invites, events>>
  BY DEF RevokeInvite
<1>2. UNCHANGED <<members, challenges, sessions>> /\ Becomes(r, Done)
  BY DEF RevokeInvite
<1>3. InviteOK(i) /\ DOMAIN invites = Invites /\ DOMAIN events = Invites
  BY DEF Inv, Tables
<1>4. CASE Open(i)
  <2>1. DOMAIN invites[i] = {"state", "role", "by"} /\ invites[i].state = "open"
    BY <1>3, <1>4 DEF InviteOK, Open
  <2>2. DOMAIN events[i] = {"joined", "revoked"} /\ events[i].joined = 0 /\ events[i].revoked = 0
    BY <1>3, <2>1 DEF InviteOK
  <2>3. invites'[i] = [invites[i] EXCEPT !.state = "revoked"]
    BY <1>1, <1>3, <1>4
  <2>4. invites'[i].state = "revoked"
    BY <2>1, <2>3
  <2>5. events'[i] = [events[i] EXCEPT !.revoked = 1]
    BY <1>1, <1>3, <1>4, <2>2
  <2>6. DOMAIN events'[i] = {"joined", "revoked"} /\ events'[i].joined = 0 /\ events'[i].revoked = 1
    BY <2>2, <2>5
  <2>7. InviteOK(i)'
    BY <1>2, <1>3, <2>1, <2>4, <2>6 DEF InviteOK, Exists
  <2>8. QED
    BY <1>1, <1>2, <1>3, <1>4, <2>7, InviteInv
<1>5. CASE ~Open(i)
  BY <1>1, <1>2, <1>5, Rests, MovesOn
<1>6. QED
  BY <1>4, <1>5

LEMMA ClaimInv == ASSUME Inv, NEW r \in Requests, ClaimInvite(r) PROVE Inv'
<1>1. PICK c, i : c = req[r].challenge /\ i = req[r].invite
  OBVIOUS
<1>2. /\ c \in Challenges /\ i \in Invites /\ c \in Users /\ req[r].stage = "claim" /\ ~Exists(c)
      /\ challenges[c] # NoChallenge /\ challenges[c].invite = i
  BY <1>1 DEF Inv, ClaimInvite, RequestOK, Users
<1>3. UNCHANGED <<challenges, sessions>>
  BY DEF ClaimInvite
<1>4. Once(c) /\ InviteOK(i) /\ Holds(req[r], c)
  BY <1>1, <1>2 DEF Inv, Holds
<1>5. ~Claimed(invites, i, c)
  BY <1>2, <1>4 DEF InviteOK, Claimed
<1>6. CASE ~Open(i)
  BY <1>1, <1>3, <1>5, <1>6, Rests, MovesOn DEF ClaimInvite
<1>7. CASE Open(i)
  <2>1. PICK after : after = [invites EXCEPT ![i] = [state |-> "accepted", role |-> @.role, by |-> c]]
    OBVIOUS
  <2>2. after[i] = [state |-> "accepted", role |-> invites[i].role, by |-> c]
    BY <1>2, <2>1 DEF Inv, Tables
  <2>3. Claimed(after, i, c)
    BY <2>2 DEF Claimed
  <2>4. PICK q : q = [stage |-> "session", challenge |-> c, user |-> c]
    OBVIOUS
  <2>5. /\ invites' = after /\ members' = [members EXCEPT ![c] = Member(invites[i].role)]
        /\ events' = [events EXCEPT ![i].joined = @ + 1] /\ Becomes(r, q)
    BY <1>1, <1>7, <2>1, <2>3, <2>4 DEF ClaimInvite
  <2>6. /\ \A u \in Users : members'[u] = IF u = c THEN Member(invites[i].role) ELSE members[u]
        /\ \A s \in Requests : req'[s] = IF s = r THEN q ELSE req[s]
        /\ \A j \in Invites : j # i => invites'[j] = invites[j] /\ events'[j] = events[j]
        /\ Tables'
    BY <1>3, <2>1, <2>5 DEF Inv, Tables, Becomes
  <2>7. members'[c].status = "active" /\ members'[c].disabled = 0
    BY <1>2, <2>6 DEF Member
  <2>8. members'[c] # NoMember
    BY <2>7, Nobody
  <2>9. \A u \in Users : Exists(u)' <=> u = c \/ Exists(u)
    BY <2>6, <2>8 DEF Exists
  <2>10. ASSUME NEW u \in Users PROVE MemberOK(u)'
    BY <1>2, <2>6, <2>7 DEF Inv, MemberOK, Exists
  <2>11. \A d \in Challenges : ChallengeOK(d)'
    BY <1>3 DEF Inv, ChallengeOK
  <2>12. ASSUME NEW s \in SessionIds PROVE SessionOK(s)'
    <3>1. SessionOK(s)
      BY DEF Inv
    <3>2. sessions[s] # NoSession => sessions[s].user # c
      BY <1>2, <3>1 DEF SessionOK
    <3>3. QED
      BY <1>3, <2>6, <2>9, <3>1, <3>2 DEF SessionOK
  <2>13. ASSUME NEW s \in Requests PROVE RequestOK(req[s])'
    <3>1. CASE s = r
      BY <1>2, <2>4, <2>6, <2>9, <3>1 DEF RequestOK
    <3>2. CASE s # r
      <4>1. RequestOK(req[s]) /\ req'[s] = req[s] /\ ~Holds(req[s], c)
        BY <1>4, <2>6, <3>2 DEF Inv, Once
      <4>2. req[s].stage = "claim" => req[s].challenge # c
        BY <4>1 DEF Holds
      <4>3. Challenges \subseteq Users
        BY DEF Users
      <4>4. QED
        BY <1>3, <2>9, <4>1, <4>2, <4>3 DEF RequestOK
    <3>3. QED
      BY <3>1, <3>2
  <2>14. ASSUME NEW d \in Challenges PROVE Once(d)'
    <3>1. Once(d) /\ d \in Users
      BY DEF Inv, Users
    <3>2. \A s \in Requests : Holds(req'[s], d) => Holds(req[s], d)
      BY <1>2, <1>4, <2>4, <2>6 DEF Holds
    <3>3. Exists(d)' => Taken(d)
      BY <1>4, <2>9, <3>1 DEF Once
    <3>4. QED
      BY <1>3, <3>1, <3>2, <3>3 DEF Once, Taken, Made, Holds
  <2>15. ASSUME NEW j \in Invites PROVE InviteOK(j)'
    <3>1. Challenges \subseteq Users
      BY DEF Users
    <3>2. CASE j = i
      <4>1. DOMAIN events[i] = {"joined", "revoked"} /\ events[i].joined = 0 /\ events[i].revoked = 0
        BY <1>4, <1>7 DEF InviteOK, Open
      <4>2. events'[i] = [events[i] EXCEPT !.joined = 1]
        BY <1>2, <2>5, <4>1 DEF Inv, Tables
      <4>3. DOMAIN events'[i] = {"joined", "revoked"} /\ events'[i].joined = 1 /\ events'[i].revoked = 0
        BY <4>1, <4>2
      <4>4. invites'[i].state = "accepted" /\ invites'[i].by = c
        BY <2>2, <2>5
      <4>5. \A d \in Challenges : Exists(d) /\ challenges[d].invite = i => FALSE
        BY <1>4, <1>7 DEF InviteOK, Open
      <4>6. QED
        BY <1>2, <1>3, <2>9, <3>1, <3>2, <4>3, <4>4, <4>5 DEF InviteOK
    <3>3. CASE j # i
      <4>1. InviteOK(j) /\ invites'[j] = invites[j] /\ events'[j] = events[j]
        BY <2>6, <3>3 DEF Inv
      <4>2. \A d \in Challenges : Exists(d)' /\ challenges[d].invite = j => Exists(d)
        BY <1>2, <2>9, <3>1, <3>3
      <4>3. QED
        BY <1>3, <2>9, <3>1, <4>1, <4>2 DEF InviteOK
    <3>4. QED
      BY <3>2, <3>3
  <2>16. QED
    BY <2>6, <2>10, <2>11, <2>12, <2>13, <2>14, <2>15 DEF Inv
<1>8. QED
  BY <1>6, <1>7

----------------------------------------------------------------------------
(* Sessions *)

\* The request that held a challenge makes a session of it, if any; others are only revoked.
LEMMA SessionsInv ==
    ASSUME Inv, NEW r \in Requests, Becomes(r, Done),
           UNCHANGED <<members, invites, challenges, events>>,
           DOMAIN sessions' = SessionIds,
           \A s \in SessionIds : SessionOK(s)',
           \A s \in SessionIds : sessions[s] # NoSession => sessions'[s] # NoSession,
           \A s \in SessionIds, c \in Challenges :
               Made(s, c)' => Made(s, c) \/ (s = r /\ Holds(req[r], c))
    PROVE  Inv'
<1>1. \A s \in Requests : req'[s] = IF s = r THEN Done ELSE req[s]
  BY DEF Becomes, Inv, Tables
<1>2. Tables'
  BY DEF Becomes, Inv, Tables
<1>3. \A u \in Users : MemberOK(u)'
  BY DEF Inv, MemberOK, Exists
<1>4. \A c \in Challenges : ChallengeOK(c)'
  BY DEF Inv, ChallengeOK
<1>5. ASSUME NEW s \in Requests PROVE RequestOK(req[s])'
  <2>1. CASE s = r
    BY <1>1, <2>1, Nobody DEF RequestOK
  <2>2. CASE s # r
    <3>1. RequestOK(req[s]) /\ req'[s] = req[s]
      BY <1>1, <2>2 DEF Inv
    <3>2. QED
      BY <3>1 DEF RequestOK, Exists
  <2>3. QED
    BY <2>1, <2>2
<1>6. ASSUME NEW c \in Challenges PROVE Once(c)'
  <2>1. \A s \in Requests : Holds(req'[s], c) => Holds(req[s], c) /\ s # r
    BY <1>1, Rests
  <2>2. Once(c)
    BY DEF Inv
  <2>3. Taken(c)' <=> Taken(c)
    BY DEF Taken
  <2>4. Exists(c)' <=> Exists(c)
    BY DEF Exists
  <2>5. \A s \in SessionIds : Made(s, c)' => Taken(c)
    BY <2>2 DEF Once
  <2>6. \A s \in Requests, t \in SessionIds : ~(Holds(req'[s], c) /\ Made(t, c)')
    BY <2>1, <2>2 DEF Once
  <2>7. \A s, t \in SessionIds : Made(s, c)' /\ Made(t, c)' => s = t
    BY <2>2 DEF Once
  <2>8. QED
    BY <2>1, <2>2, <2>3, <2>4, <2>5, <2>6, <2>7 DEF Once, Holds
<1>7. \A i \in Invites : InviteOK(i)'
  BY DEF Inv, InviteOK, Exists
<1>8. QED
  BY <1>2, <1>3, <1>4, <1>5, <1>6, <1>7 DEF Inv

\* Revoking sessions leaves all else of them.
LEMMA Revoking ==
    ASSUME Inv, NEW ids, ids \subseteq {s \in SessionIds : sessions[s] # NoSession}, NEW s \in SessionIds
    PROVE  /\ DOMAIN Revoked(ids) = SessionIds
           /\ s \notin ids => Revoked(ids)[s] = sessions[s]
           /\ s \in ids =>
                 /\ sessions[s] # NoSession
                 /\ DOMAIN Revoked(ids)[s] = {"user", "revoked", "via", "born"}
                 /\ Revoked(ids)[s].revoked = TRUE /\ Revoked(ids)[s].user = sessions[s].user
                 /\ Revoked(ids)[s].via = sessions[s].via /\ Revoked(ids)[s].born = sessions[s].born
<1>1. DOMAIN Revoked(ids) = SessionIds
  BY DEF Revoked
<1>2. CASE s \in ids
  <2>1. DOMAIN sessions[s] = {"user", "revoked", "via", "born"} /\ sessions[s] # NoSession
    BY <1>2 DEF Inv, SessionOK
  <2>2. Revoked(ids)[s] = [sessions[s] EXCEPT !.revoked = TRUE]
    BY <1>2 DEF Revoked
  <2>3. QED
    BY <1>1, <1>2, <2>1, <2>2
<1>3. CASE s \notin ids
  BY <1>1, <1>3 DEF Revoked
<1>4. QED
  BY <1>2, <1>3

LEMMA RevokedRow ==
    ASSUME Inv, NEW ids, ids \subseteq {s \in SessionIds : sessions[s] # NoSession}, NEW s \in SessionIds,
           UNCHANGED members, sessions'[s] = Revoked(ids)[s]
    PROVE  /\ SessionOK(s)'
           /\ sessions[s] # NoSession => sessions'[s] # NoSession
           /\ \A c \in Challenges : Made(s, c)' => Made(s, c)
<1>1. SessionOK(s)
  BY DEF Inv
<1>2. CASE s \in ids
  <2>1. PICK row : row = Revoked(ids)[s]
    OBVIOUS
  <2>2. /\ sessions[s] # NoSession /\ row = sessions'[s]
        /\ DOMAIN row = {"user", "revoked", "via", "born"}
        /\ row.revoked = TRUE /\ row.user = sessions[s].user
        /\ row.via = sessions[s].via /\ row.born = sessions[s].born
    <3>1. /\ sessions[s] # NoSession
          /\ DOMAIN Revoked(ids)[s] = {"user", "revoked", "via", "born"}
          /\ Revoked(ids)[s].revoked = TRUE /\ Revoked(ids)[s].user = sessions[s].user
          /\ Revoked(ids)[s].via = sessions[s].via /\ Revoked(ids)[s].born = sessions[s].born
      BY <1>2, Revoking
    <3>2. QED
      BY <2>1, <3>1
  <2>3. sessions[s].user \in Users /\ Exists(sessions[s].user) /\ sessions[s].born \in Nat
    BY <1>1, <2>2 DEF SessionOK
  <2>4. SessionOK(s)'
    BY <2>1, <2>2, <2>3 DEF SessionOK, Exists
  <2>5. row # NoSession
    BY <2>2 DEF NoSession
  <2>6. QED
    BY <2>1, <2>2, <2>4, <2>5 DEF Made
<1>3. CASE s \notin ids
  <2>1. sessions'[s] = sessions[s]
    BY <1>3, Revoking
  <2>2. QED
    BY <1>1, <2>1 DEF SessionOK, Exists, Made
<1>4. QED
  BY <1>2, <1>3

\* A session of a member who is there to have one.
LEMMA NewRow ==
    ASSUME Inv, NEW u \in Users, Exists(u), NEW via, NEW s \in SessionIds,
           UNCHANGED members, sessions'[s] = NewSession(u, via)
    PROVE  /\ SessionOK(s)' /\ sessions'[s] # NoSession
           /\ \A c : Made(s, c)' => c = via
<1>1. MemberOK(u)
  BY DEF Inv
<1>2. members[u].disabled \in Nat
  BY <1>1 DEF MemberOK
<1>3. sessions'[s] = [user |-> u, revoked |-> FALSE, via |-> via, born |-> members[u].disabled]
  BY DEF NewSession
<1>4. u # None
  BY AccessAssumption
<1>5. SessionOK(s)'
  BY <1>2, <1>3 DEF SessionOK, Exists
<1>6. sessions'[s] # NoSession
  BY <1>3, <1>4, Nobody
<1>7. QED
  BY <1>3, <1>5, <1>6 DEF Made

LEMMA SessionOwners ==
    ASSUME Inv, NEW u \in Users
    PROVE  SessionsOf(u) \subseteq {s \in SessionIds : sessions[s] # NoSession}
  BY Nobody, AccessAssumption DEF SessionsOf

LEMMA EndsInv ==
    ASSUME Inv, NEW r \in Requests, RevokeOtherSessions(r) \/ Logout(r)
    PROVE  Inv'
<1>1. /\ req[r].user \in Users /\ req[r].session \in SessionIds
      /\ sessions[req[r].session] # NoSession
  BY DEF Inv, RequestOK, RevokeOtherSessions, Logout
<1>2. UNCHANGED <<members, invites, challenges, events>> /\ Becomes(r, Done)
  BY DEF RevokeOtherSessions, Logout
<1>3. PICK ids : /\ sessions' = Revoked(ids)
                 /\ ids = SessionsOf(req[r].user) \ {req[r].session} \/ ids = {req[r].session}
  BY DEF RevokeOtherSessions, Logout
<1>4. ids \subseteq {s \in SessionIds : sessions[s] # NoSession}
  BY <1>1, <1>3, SessionOwners
<1>5. DOMAIN sessions' = SessionIds
  BY <1>3 DEF Revoked
<1>6. ASSUME NEW s \in SessionIds
      PROVE  /\ SessionOK(s)'
             /\ sessions[s] # NoSession => sessions'[s] # NoSession
             /\ \A c \in Challenges : Made(s, c)' => Made(s, c)
  BY <1>2, <1>3, <1>4, RevokedRow
<1>7. QED
  BY <1>2, <1>5, <1>6, SessionsInv

LEMMA InsertInv ==
    ASSUME Inv, NEW r \in Requests, InsertSession(r)
    PROVE  Inv'
<1>1. PICK c, u : c = req[r].challenge /\ u = req[r].user
  OBVIOUS
<1>2. c \in Challenges /\ u \in Users /\ Exists(u) /\ Holds(req[r], c) /\ r \in SessionIds
  BY <1>1 DEF Inv, RequestOK, InsertSession, Holds, SessionIds
<1>3. UNCHANGED <<members, invites, challenges, events>> /\ Becomes(r, Done)
  BY DEF InsertSession
<1>4. /\ DOMAIN sessions' = SessionIds
      /\ \A s \in SessionIds : sessions'[s] = IF s = r THEN NewSession(u, c) ELSE sessions[s]
  BY <1>1 DEF InsertSession, Inv, Tables
<1>5. ASSUME NEW s \in SessionIds
      PROVE  /\ SessionOK(s)'
             /\ sessions[s] # NoSession => sessions'[s] # NoSession
             /\ \A d \in Challenges : Made(s, d)' => Made(s, d) \/ (s = r /\ Holds(req[r], d))
  <2>1. CASE s = r
    BY <1>2, <1>3, <1>4, <2>1, NewRow
  <2>2. CASE s # r
    <3>1. SessionOK(s) /\ sessions'[s] = sessions[s]
      BY <1>4, <2>2 DEF Inv
    <3>2. QED
      BY <1>3, <3>1 DEF SessionOK, Exists, Made
  <2>3. QED
    BY <2>1, <2>2
<1>6. QED
  BY <1>3, <1>4, <1>5, SessionsInv

LEMMA SwitchInv ==
    ASSUME Inv, NEW r \in Requests, Switch(r)
    PROVE  Inv'
<1>1. PICK old, u : old = req[r].session /\ u = req[r].user
  OBVIOUS
<1>2. u \in Users /\ Exists(u) /\ old \in SessionIds /\ sessions[old] # NoSession /\ r \in SessionIds
  BY <1>1 DEF Inv, RequestOK, Switch, SessionIds
<1>3. UNCHANGED <<members, invites, challenges, events>> /\ Becomes(r, Done)
  BY DEF Switch
<1>4. PICK ids : ids = {old}
  OBVIOUS
<1>5. ids \subseteq {s \in SessionIds : sessions[s] # NoSession}
  BY <1>2, <1>4
<1>6. sessions' = [Revoked(ids) EXCEPT ![r] = NewSession(u, None)]
  BY <1>1, <1>4 DEF Switch
<1>7. /\ DOMAIN sessions' = SessionIds
      /\ sessions'[r] = NewSession(u, None)
      /\ \A s \in SessionIds : s # r => sessions'[s] = Revoked(ids)[s]
  BY <1>2, <1>6 DEF Revoked
<1>8. None \notin Challenges
  BY AccessAssumption DEF Users
<1>9. ASSUME NEW s \in SessionIds
      PROVE  /\ SessionOK(s)'
             /\ sessions[s] # NoSession => sessions'[s] # NoSession
             /\ \A c \in Challenges : Made(s, c)' => Made(s, c)
  <2>1. CASE s = r
    BY <1>2, <1>3, <1>7, <1>8, <2>1, NewRow
  <2>2. CASE s # r
    BY <1>3, <1>5, <1>7, <2>2, RevokedRow
  <2>3. QED
    BY <2>1, <2>2
<1>10. QED
  BY <1>3, <1>7, <1>9, SessionsInv

LEMMA WriteInv ==
    ASSUME Inv, NEW r \in Requests, WriteMember(r)
    PROVE  Inv'
<1>1. PICK q : q = req[r]
  OBVIOUS
<1>2. q.user \in Users /\ Exists(q.user) /\ q.status \in {"active", "disabled"}
  BY <1>1 DEF Inv, RequestOK, WriteMember
<1>3. UNCHANGED <<invites, challenges, events>> /\ Becomes(r, Done)
  BY DEF WriteMember
<1>4. PICK times : times = IF q.status = "disabled" THEN members[q.user].disabled + 1
                          ELSE members[q.user].disabled
  OBVIOUS
<1>5. /\ members[q.user].disabled \in Nat /\ times \in Nat /\ members[q.user].disabled <= times
      /\ q.status = "active" => times = members[q.user].disabled
  <2>1. members[q.user].disabled \in Nat
    BY <1>2 DEF Inv, MemberOK
  <2>2. QED
    BY <1>2, <1>4, <2>1
<1>6. members' = [members EXCEPT ![q.user] = [role |-> q.role, status |-> q.status, disabled |-> times]]
  BY <1>1, <1>4 DEF WriteMember
<1>7. /\ DOMAIN members' = Users
      /\ \A u \in Users : u # q.user => members'[u] = members[u]
      /\ members'[q.user].status = q.status /\ members'[q.user].disabled = times
  BY <1>2, <1>6 DEF Inv, Tables
<1>8. \A u \in Users : Exists(u)' <=> Exists(u)
  BY <1>2, <1>7, Nobody DEF Exists
<1>9. \A c \in Challenges : Exists(c)' <=> Exists(c)
  BY <1>8 DEF Users
<1>10. PICK ids : sessions' = Revoked(ids) /\ ids = IF q.status = "disabled" THEN SessionsOf(q.user) ELSE {}
  BY <1>1 DEF WriteMember, EndedWith
<1>11. ids \subseteq {s \in SessionIds : sessions[s] # NoSession}
  BY <1>2, <1>10, SessionOwners
<1>12. ASSUME NEW s \in SessionIds
       PROVE  /\ SessionOK(s)'
              /\ sessions[s] # NoSession => sessions'[s] # NoSession
              /\ \A c \in Challenges : Made(s, c)' => Made(s, c)
  <2>1. SessionOK(s)
    BY DEF Inv
  <2>2. CASE s \in ids
    <3>1. PICK row : row = Revoked(ids)[s]
      OBVIOUS
    <3>2. /\ sessions[s] # NoSession
          /\ DOMAIN Revoked(ids)[s] = {"user", "revoked", "via", "born"}
          /\ Revoked(ids)[s].revoked = TRUE /\ Revoked(ids)[s].user = sessions[s].user
          /\ Revoked(ids)[s].via = sessions[s].via /\ Revoked(ids)[s].born = sessions[s].born
      BY <1>11, <2>2, Revoking
    <3>3. /\ sessions[s] # NoSession /\ row = sessions'[s]
          /\ DOMAIN row = {"user", "revoked", "via", "born"}
          /\ row.revoked = TRUE /\ row.user = sessions[s].user
          /\ row.via = sessions[s].via /\ row.born = sessions[s].born
      BY <1>10, <3>1, <3>2
    <3>4. sessions[s].user \in Users /\ Exists(sessions[s].user) /\ sessions[s].born \in Nat
      BY <2>1, <3>3 DEF SessionOK
    <3>5. SessionOK(s)'
      BY <1>8, <3>3, <3>4 DEF SessionOK
    <3>6. row # NoSession
      BY <3>3 DEF NoSession
    <3>7. QED
      BY <3>3, <3>5, <3>6 DEF Made
  <2>3. CASE s \notin ids
    <3>1. sessions'[s] = sessions[s]
      BY <1>10, <1>11, <2>3, Revoking
    <3>2. sessions[s] # NoSession /\ sessions[s].user = q.user => q.status = "active"
      BY <1>2, <1>10, <2>3 DEF SessionsOf
    <3>3. sessions[s] # NoSession =>
             members'[sessions[s].user].disabled = members[sessions[s].user].disabled
      BY <1>5, <1>7, <2>1, <3>2 DEF SessionOK
    <3>4. SessionOK(s)'
      BY <1>8, <2>1, <3>1, <3>3 DEF SessionOK
    <3>5. QED
      BY <3>1, <3>4 DEF Made
  <2>4. QED
    BY <2>2, <2>3
<1>13. \A s \in Requests : req'[s] = IF s = r THEN Done ELSE req[s]
  BY <1>3 DEF Becomes, Inv, Tables
<1>14. Tables'
  BY <1>3, <1>7, <1>10 DEF Becomes, Inv, Tables, Revoked
<1>15. ASSUME NEW u \in Users PROVE MemberOK(u)'
  BY <1>2, <1>5, <1>7 DEF Inv, MemberOK, Exists
<1>16. \A c \in Challenges : ChallengeOK(c)'
  BY <1>3 DEF Inv, ChallengeOK
<1>17. ASSUME NEW s \in Requests PROVE RequestOK(req[s])'
  <2>1. CASE s = r
    BY <1>13, <2>1, Nobody DEF RequestOK
  <2>2. CASE s # r
    <3>1. RequestOK(req[s]) /\ req'[s] = req[s]
      BY <1>13, <2>2 DEF Inv
    <3>2. QED
      BY <1>3, <1>8, <1>9, <1>12, <3>1 DEF RequestOK
  <2>3. QED
    BY <2>1, <2>2
<1>18. ASSUME NEW c \in Challenges PROVE Once(c)'
  <2>1. \A s \in Requests : Holds(req'[s], c) => Holds(req[s], c)
    BY <1>13, Rests
  <2>2. Once(c)
    BY DEF Inv
  <2>3. Taken(c)' <=> Taken(c)
    BY <1>3 DEF Taken
  <2>4. \A s \in SessionIds : Made(s, c)' => Made(s, c)
    BY <1>12
  <2>5. QED
    BY <1>9, <2>1, <2>2, <2>3, <2>4 DEF Once, Holds
<1>19. \A i \in Invites : InviteOK(i)'
  BY <1>3, <1>9 DEF Inv, InviteOK
<1>20. QED
  BY <1>12, <1>14, <1>15, <1>16, <1>17, <1>18, <1>19 DEF Inv

LEMMA NextInv == ASSUME Inv, [Next]_vars PROVE Inv'
<1>1. CASE UNCHANGED vars
  BY <1>1 DEF vars, Inv, Tables, MemberOK, ChallengeOK, SessionOK, RequestOK, Once, InviteOK,
              Exists, Taken, Made, Holds
<1>2. CASE StoreChallenge
  BY <1>2, StoreInv
<1>3. ASSUME NEW r \in Requests,
             \/ BeginVerify(r) \/ ReadMembership(r) \/ LoadSession(r) \/ ReadMember(r)
             \/ CountOwners(r) \/ BeginSwitch(r) \/ Stop(r)
      PROVE  Inv'
  BY <1>3, ReadsInv
<1>4. ASSUME NEW r \in Requests,
             \/ TakeChallenge(r) \/ ClaimInvite(r) \/ CreateInvite(r) \/ RevokeInvite(r)
      PROVE  Inv'
  BY <1>4, TakeInv, ClaimInv, CreateInv, RevokeInv
<1>5. ASSUME NEW r \in Requests,
             \/ InsertSession(r) \/ RevokeOtherSessions(r) \/ Logout(r) \/ Switch(r) \/ WriteMember(r)
      PROVE  Inv'
  BY <1>5, InsertInv, EndsInv, SwitchInv, WriteInv
<1>6. QED
  BY <1>1, <1>2, <1>3, <1>4, <1>5 DEF Next, AllDone

LEMMA Invariance == Spec => []Inv
<1>1. Init => Inv
  BY InitInv
<1>2. Inv /\ [Next]_vars => Inv'
  BY NextInv
<1>3. QED
  BY <1>1, <1>2, PTL DEF Spec

----------------------------------------------------------------------------
(* The theorems *)

LEMMA AtMostOne ==
    ASSUME NEW S, \A x, y \in S : x = y
    PROVE  Cardinality(S) <= 1
<1>1. CASE S = {}
  BY <1>1, FS_EmptySet
<1>2. CASE S # {}
  <2>1. PICK x : S = {x}
    BY <1>2
  <2>2. QED
    BY <2>1, FS_Singleton
<1>3. QED
  BY <1>1, <1>2

\* A challenge signs somebody in, or lets somebody join, once, however many requests carry its
\* cookie and have passed the same checks. (passkeys.ts:114)
THEOREM ChallengesAreSingleUse == Spec => []OneSignInPerChallenge
<1>1. Inv => OneSignInPerChallenge
  <2>1. SUFFICES ASSUME Inv, NEW c \in Challenges
                 PROVE  Cardinality({s \in SessionIds : Made(s, c)}) <= 1
    BY DEF OneSignInPerChallenge, Made
  <2>2. \A s, t \in {x \in SessionIds : Made(x, c)} : s = t
    BY <2>1 DEF Inv, Once
  <2>3. QED
    BY <2>2, AtMostOne
<1>2. QED
  BY <1>1, Invariance, PTL

\* An invite is accepted by one member or revoked, and the trail says which, however many
\* acceptances and revocations race. (passkeys.ts:234)
THEOREM InvitesEndOnce == Spec => []InviteEndsOnce
<1>1. Inv => InviteEndsOnce
  <2>1. SUFFICES ASSUME Inv, NEW i \in Invites
                 PROVE  LET joined == {c \in Challenges : Exists(c) /\ challenges[c].invite = i} IN
                        /\ events[i].joined + events[i].revoked <= 1
                        /\ events[i].joined = 1 <=> invites[i].state = "accepted"
                        /\ events[i].revoked = 1 <=> invites[i].state = "revoked"
                        /\ Cardinality(joined) = events[i].joined
    BY DEF InviteEndsOnce, Exists
  <2>2. PICK joined : joined = {c \in Challenges : Exists(c) /\ challenges[c].invite = i}
    OBVIOUS
  <2>3. InviteOK(i)
    BY <2>1 DEF Inv
  <2>4. CASE invites[i].state = "accepted"
    <3>1. joined = {invites[i].by}
      BY <2>2, <2>3, <2>4 DEF InviteOK
    <3>2. Cardinality(joined) = 1
      BY <3>1, FS_Singleton
    <3>3. QED
      BY <2>2, <2>3, <2>4, <3>2 DEF InviteOK
  <2>5. CASE invites[i].state # "accepted"
    <3>1. joined = {}
      BY <2>2, <2>3, <2>5 DEF InviteOK
    <3>2. Cardinality(joined) = 0
      BY <3>1, FS_EmptySet
    <3>3. QED
      BY <2>2, <2>3, <2>5, <3>2 DEF InviteOK
  <2>6. QED
    BY <2>4, <2>5
<1>2. QED
  BY <1>1, Invariance, PTL

\* No session that existed when its member was disabled is used again, also when the member is
\* enabled later. (organization.ts:167)
THEOREM SessionsEndWithTheirMember == Spec => []DisablingEndsSessions
<1>1. Inv => DisablingEndsSessions
  BY Nobody DEF Inv, SessionOK, DisablingEndsSessions
<1>2. QED
  BY <1>1, Invariance, PTL

----------------------------------------------------------------------------
(***************************************************************************)
(* KeyedResource: the incident page shows the incident of its address, does   *)
(* not fall back behind a clearance that it has shown, and waits only for    *)
(* answers it will look at. Only the latest request is listened to, and       *)
(* nothing that was read before it was sent can have been shown since.       *)
(***************************************************************************)

Bodies == [id : Incidents, cleared : BOOLEAN]

States ==
    {Nothing} \cup [key : Incidents, status : {"loading"}] \cup [key : Incidents, status : {"error"}]
    \cup [key : Incidents, status : {"ready"}, data : Bodies, refreshing : BOOLEAN]

PageCalls ==
    [stage : {"sent"}, key : Incidents, mount : Nat, aborted : BOOLEAN]
    \cup [stage : {"served"}, key : Incidents, mount : Nat, aborted : BOOLEAN, data : Bodies]
    \cup [stage : {"settled"}, key : Incidents, mount : Nat, aborted : BOOLEAN]

Clearances == [incident : Incidents, mounted : BOOLEAN, stage : {"sent", "served"}]

PageTypes ==
    /\ cleared \subseteq Incidents
    /\ route \in Incidents
    /\ mount \in Nat
    /\ current \in States
    /\ generation \in 0..MaxCalls
    /\ calls \in [1..MaxCalls -> PageCalls \cup {Unsent}]
    /\ \A g \in 1..generation : calls[g] \in PageCalls
    /\ clearing = NoKey \/ clearing \in Clearances

Awaits(state) == state.status = "loading" \/ (state.status = "ready" /\ state.refreshing)

\* The incidents that were shown as cleared, or will be as soon as the address is theirs.
Seen == seen \cup {k \in Incidents : ShowsCleared(current) /\ current.key = k}

CurrentOK ==
    current.status = "ready" =>
        /\ current.data.id = current.key
        /\ current.key \in seen => current.data.cleared

LatestOK ==
    generation > 0 /\ calls[generation].stage = "served" =>
        (calls[generation].data.id \in Seen => calls[generation].data.cleared)

ClearedOK ==
    /\ Seen \subseteq cleared
    /\ \A g \in 1..generation :
          calls[g].stage = "served" /\ calls[g].data.cleared => calls[g].data.id \in cleared

PageInv == PageTypes /\ CurrentOK /\ LatestOK /\ ClearedOK /\ SpinnerIsAnswered

----------------------------------------------------------------------------
(* The types, spelled out: a state has data only when it is ready. *)

LEMMA StateFields ==
    ASSUME NEW state \in States
    PROVE  /\ state = Nothing \/ state.key \in Incidents
           /\ state.status \in {"none", "loading", "error", "ready"}
           /\ state.status = "none" <=> state = Nothing
           /\ state.status = "ready" => /\ state.key \in Incidents
                                       /\ state.data \in Bodies
                                       /\ state.refreshing \in BOOLEAN
                                       /\ state = [key |-> state.key, status |-> "ready", data |-> state.data,
                                                    refreshing |-> state.refreshing]
BY DEF States, Nothing

LEMMA CallFields ==
    ASSUME NEW c \in PageCalls
    PROVE  /\ c.stage \in {"sent", "served", "settled"}
           /\ c.key \in Incidents /\ c.mount \in Nat /\ c.aborted \in BOOLEAN
           /\ c.stage = "served" => c.data \in Bodies
BY DEF PageCalls

\* Aborting a request changes nothing but its mark.
LEMMA AbortedCall ==
    ASSUME NEW c \in PageCalls
    PROVE  LET d == [c EXCEPT !.aborted = TRUE] IN
           /\ d \in PageCalls
           /\ d.stage = c.stage /\ d.key = c.key /\ d.mount = c.mount /\ d.aborted = TRUE
           /\ c.stage = "served" => d.data = c.data
<1>1. CASE c \in [stage : {"sent"}, key : Incidents, mount : Nat, aborted : BOOLEAN]
  BY <1>1 DEF PageCalls
<1>2. CASE c \in [stage : {"served"}, key : Incidents, mount : Nat, aborted : BOOLEAN, data : Bodies]
  BY <1>2 DEF PageCalls
<1>3. CASE c \in [stage : {"settled"}, key : Incidents, mount : Nat, aborted : BOOLEAN]
  BY <1>3 DEF PageCalls
<1>4. QED
  BY <1>1, <1>2, <1>3 DEF PageCalls

----------------------------------------------------------------------------

LEMMA PageInitInv == ASSUME PageInit PROVE PageInv
<1>1. PageTypes
  BY KeyedResourceAssumption DEF PageInit, PageTypes, States
<1>2. CurrentOK /\ LatestOK /\ ClearedOK /\ SpinnerIsAnswered
  BY KeyedResourceAssumption DEF PageInit, CurrentOK, LatestOK, ClearedOK, SpinnerIsAnswered, Seen, ShowsCleared, Nothing
<1>3. QED
  BY <1>1, <1>2 DEF PageInv

----------------------------------------------------------------------------
(* A new request: the earlier one is aborted, and nothing has answered yet. *)

LEMMA NewRequest ==
    ASSUME PageTypes, NEW k \in Incidents, Run(k)
    PROVE  /\ generation' \in 0..MaxCalls /\ generation' > 0
           /\ calls' \in [1..MaxCalls -> PageCalls \cup {Unsent}]
           /\ \A g \in 1..generation' : calls'[g] \in PageCalls
           /\ calls'[generation'] = Sent(k)
           /\ \A g \in 1..generation' :
                 calls'[g].stage = "served" =>
                     g \in 1..generation /\ calls[g].stage = "served" /\ calls'[g].data = calls[g].data
<1>1. /\ generation \in Nat /\ generation + 1 \in 1..MaxCalls
      /\ generation' = generation + 1
  BY KeyedResourceAssumption DEF PageTypes, Run
<1>2. Sent(k) \in PageCalls /\ Sent(k).stage = "sent"
  BY DEF Sent, PageCalls, PageTypes
<1>3. PICK cs : /\ cs = IF generation = 0 THEN calls ELSE Aborted(calls)
                /\ calls' = [cs EXCEPT ![generation + 1] = Sent(k)]
  BY DEF Run
<1>4. /\ cs \in [1..MaxCalls -> PageCalls \cup {Unsent}]
      /\ \A g \in 1..generation :
            /\ cs[g] \in PageCalls
            /\ cs[g].stage = "served" => calls[g].stage = "served" /\ cs[g].data = calls[g].data
  <2>1. CASE generation = 0
    <3>1. cs = calls
      BY <2>1, <1>3
    <3>2. QED
      BY <3>1 DEF PageTypes
  <2>2. CASE generation # 0
    <3>1. generation \in 1..MaxCalls /\ calls[generation] \in PageCalls
      BY <2>2, KeyedResourceAssumption DEF PageTypes
    <3>2. PICK d : d = [calls[generation] EXCEPT !.aborted = TRUE]
      OBVIOUS
    <3>3. /\ d \in PageCalls /\ d.stage = calls[generation].stage
          /\ calls[generation].stage = "served" => d.data = calls[generation].data
      BY <3>1, <3>2, AbortedCall
    <3>4. cs = [g \in 1..MaxCalls |-> IF g = generation THEN d ELSE calls[g]]
      BY <2>2, <1>3, <3>2 DEF Aborted
    <3>5. \A g \in 1..generation : g \in 1..MaxCalls /\ calls[g] \in PageCalls
      BY <1>1, KeyedResourceAssumption DEF PageTypes
    <3>6. cs \in [1..MaxCalls -> PageCalls \cup {Unsent}]
      BY <3>3, <3>4 DEF PageTypes
    <3>7. \A g \in 1..generation : cs[g] = IF g = generation THEN d ELSE calls[g]
      BY <3>4, <3>5
    <3>8. QED
      BY <3>3, <3>5, <3>6, <3>7
  <2>3. QED
    BY <2>1, <2>2
<1>5. calls' \in [1..MaxCalls -> PageCalls \cup {Unsent}] /\ calls'[generation + 1] = Sent(k)
  BY <1>1, <1>2, <1>3, <1>4
<1>6. ASSUME NEW g \in 1..generation
      PROVE  calls'[g] = cs[g]
  BY <1>1, <1>3, <1>4
<1>7. \A g \in 1..generation' : g \in 1..generation \/ g = generation + 1
  BY <1>1
<1>8. QED
  BY <1>1, <1>2, <1>4, <1>5, <1>6, <1>7

\* What a new request leaves to be shown of the state the loader emits with it.
LEMMA Starting ==
    ASSUME PageInv, NEW state \in States, Emit(state), Run(state.key), state.key \in Incidents,
           state.status = "ready" => ShowsCleared(state) = ShowsCleared(current)
                                     /\ state.data = current.data /\ state.key = current.key
                                     /\ current.status = "ready",
           UNCHANGED <<cleared, route, mount>>,
           clearing' = NoKey \/ clearing' \in Clearances
    PROVE  PageInv'
<1>1. current' = state
  BY DEF Emit
<1>2. ShowsCleared(state) => state.status = "ready" /\ state.key = current.key /\ ShowsCleared(current)
  BY DEF ShowsCleared
<1>3. Seen' \subseteq Seen /\ (seen' = seen \/ (ShowsCleared(state) /\ seen' = seen \cup {state.key}))
  BY <1>1, <1>2 DEF Seen, Emit, ShowsCleared
<1>4. PageTypes'
  BY <1>1, NewRequest DEF PageInv, PageTypes
<1>5. CurrentOK'
  BY <1>1, <1>2, <1>3 DEF PageInv, CurrentOK, ShowsCleared
<1>6. /\ generation' > 0
       /\ calls'[generation'].stage = "sent" /\ calls'[generation'].key = state.key
       /\ calls'[generation'].mount = mount /\ ~calls'[generation'].aborted
  <2>1. PageTypes
    BY DEF PageInv
  <2>2. calls'[generation'] = Sent(state.key) /\ generation' > 0
    BY <2>1, NewRequest
  <2>3. QED
    BY <2>2 DEF Sent
<1>7. LatestOK'
  BY <1>6 DEF LatestOK
<1>8. ClearedOK'
  BY <1>3, NewRequest DEF PageInv, ClearedOK
<1>9. SpinnerIsAnswered'
  BY <1>1, <1>6 DEF SpinnerIsAnswered, IsCurrent
<1>10. QED
  BY <1>4, <1>5, <1>7, <1>8, <1>9 DEF PageInv

\* The requests do not change, nor does what was shown as cleared; the state may only lose data.
LEMMA Resting ==
    ASSUME PageInv, UNCHANGED <<calls, generation, current, mount>>, PageTypes',
           cleared \subseteq cleared', Seen' = Seen, CurrentOK'
    PROVE  PageInv'
<1>1. LatestOK' /\ ClearedOK'
  BY DEF PageInv, LatestOK, ClearedOK
<1>2. SpinnerIsAnswered'
  BY DEF PageInv, SpinnerIsAnswered, IsCurrent
<1>3. QED
  BY <1>1, <1>2 DEF PageInv

----------------------------------------------------------------------------
(* The actions *)

LEMMA SelectInv == ASSUME PageInv, Select PROVE PageInv'
<1>1. Loading(route) \in States /\ Loading(route).key = route /\ Loading(route).status = "loading"
  BY DEF PageInv, PageTypes, Loading, States
<1>2. QED
  BY <1>1, Starting DEF Select, PageInv, PageTypes

LEMMA ReloadsInv ==
    ASSUME PageInv, Reloads, UNCHANGED <<cleared, route, mount>>,
           clearing' = NoKey \/ clearing' \in Clearances
    PROVE  PageInv'
<1>1. current \in States /\ current.key \in Incidents /\ route \in Incidents
  BY StateFields DEF PageInv, PageTypes, Reloads
<1>2. CASE current.status = "ready"
  <2>1. PICK state : state = [current EXCEPT !.refreshing = TRUE]
    OBVIOUS
  <2>2. /\ state \in States /\ state.status = "ready"
        /\ state.key = current.key /\ state.data = current.data
    BY <1>1, <1>2, <2>1, StateFields DEF States
  <2>3. Emit(state) /\ Run(state.key)
    BY <1>2, <2>1, <2>2 DEF Reloads
  <2>4. QED
    BY <1>1, <1>2, <2>2, <2>3, Starting DEF ShowsCleared
<1>3. CASE current.status # "ready"
  <2>1. /\ Loading(current.key) \in States /\ Loading(current.key).key = current.key
        /\ Loading(current.key).status = "loading"
    BY <1>1 DEF Loading, States
  <2>2. Emit(Loading(current.key)) /\ Run(Loading(current.key).key)
    BY <1>3, <2>1 DEF Reloads
  <2>3. QED
    BY <1>1, <2>1, <2>2, Starting
<1>4. QED
  BY <1>2, <1>3

LEMMA ReloadInv == ASSUME PageInv, Reload PROVE PageInv'
BY ReloadsInv DEF Reload, PageInv, PageTypes

LEMMA AfterClearInv == ASSUME PageInv, AfterClear PROVE PageInv'
<1>1. CASE Reloads
  BY <1>1, ReloadsInv DEF AfterClear
<1>2. CASE UNCHANGED <<current, seen, calls, generation>>
  <2>1. PageTypes' /\ Seen' = Seen /\ CurrentOK'
    BY <1>2 DEF AfterClear, PageInv, PageTypes, Seen, CurrentOK
  <2>2. QED
    BY <1>2, <2>1, Resting DEF AfterClear
<1>3. QED
  BY <1>1, <1>2 DEF AfterClear

LEMMA NavigateInv == ASSUME PageInv, Navigate PROVE PageInv'
<1>1. UNCHANGED <<cleared, mount, current, calls, generation, clearing>> /\ route' \in Incidents
  BY DEF Navigate
<1>2. PageTypes'
  BY <1>1 DEF PageInv, PageTypes
<1>3. Seen' = Seen /\ CurrentOK'
  BY <1>1 DEF Navigate, PageInv, Seen, CurrentOK, ShowsCleared
<1>4. QED
  BY <1>1, <1>2, <1>3, Resting

LEMMA ClearInv == ASSUME PageInv, Clear PROVE PageInv'
<1>1. UNCHANGED <<cleared, route, mount, current, calls, generation, seen>>
  BY DEF Clear
<1>2. Shown.key \in Incidents
  BY StateFields DEF PageInv, PageTypes, Clear, Shown, Loading
<1>3. PageTypes'
  BY <1>1, <1>2 DEF Clear, PageInv, PageTypes, Clearances
<1>4. Seen' = Seen /\ CurrentOK'
  BY <1>1 DEF PageInv, Seen, CurrentOK
<1>5. QED
  BY <1>1, <1>3, <1>4, Resting

LEMMA ServeClearInv == ASSUME PageInv, ServeClear PROVE PageInv'
<1>1. UNCHANGED <<route, mount, current, calls, generation, seen>>
  BY DEF ServeClear
<1>2. cleared \subseteq cleared' /\ cleared' \subseteq Incidents
  BY DEF ServeClear, PageInv, PageTypes, Clearances
<1>3. clearing' = NoKey \/ clearing' \in Clearances
  BY DEF ServeClear, PageInv, PageTypes, Clearances
<1>4. PageTypes'
  BY <1>1, <1>2, <1>3 DEF PageInv, PageTypes
<1>5. Seen' = Seen /\ CurrentOK'
  BY <1>1 DEF PageInv, Seen, CurrentOK
<1>6. QED
  BY <1>1, <1>2, <1>4, <1>5, Resting

LEMMA MountInv == ASSUME PageInv, Mount PROVE PageInv'
<1>1. UNCHANGED <<cleared, generation, seen>> /\ current' = Nothing /\ route' \in Incidents
  BY DEF Mount
<1>2. mount' \in Nat
  BY DEF Mount, PageInv, PageTypes
<1>3. clearing' = NoKey \/ clearing' \in Clearances
  BY DEF Mount, PageInv, PageTypes, Clearances
<1>4. /\ calls' \in [1..MaxCalls -> PageCalls \cup {Unsent}]
      /\ \A g \in 1..generation :
            /\ calls'[g] \in PageCalls
            /\ calls'[g].stage = calls[g].stage
            /\ calls[g].stage = "served" => calls'[g].data = calls[g].data
  <2>1. CASE generation = 0
    <3>1. calls' = calls
      BY <2>1 DEF Mount
    <3>2. QED
      BY <3>1 DEF PageInv, PageTypes
  <2>2. CASE generation # 0
    <3>1. generation \in 1..MaxCalls /\ calls[generation] \in PageCalls
      BY <2>2, KeyedResourceAssumption DEF PageInv, PageTypes
    <3>2. PICK d : d = [calls[generation] EXCEPT !.aborted = TRUE]
      OBVIOUS
    <3>3. /\ d \in PageCalls /\ d.stage = calls[generation].stage
          /\ calls[generation].stage = "served" => d.data = calls[generation].data
      BY <3>1, <3>2, AbortedCall
    <3>4. calls' = [g \in 1..MaxCalls |-> IF g = generation THEN d ELSE calls[g]]
      BY <2>2, <3>2 DEF Mount, Aborted
    <3>5. \A g \in 1..generation : g \in 1..MaxCalls /\ calls[g] \in PageCalls
      BY KeyedResourceAssumption DEF PageInv, PageTypes
    <3>6. calls' \in [1..MaxCalls -> PageCalls \cup {Unsent}]
      BY <3>3, <3>4 DEF PageInv, PageTypes
    <3>7. \A g \in 1..generation : calls'[g] = IF g = generation THEN d ELSE calls[g]
      BY <3>4, <3>5
    <3>8. QED
      BY <3>3, <3>5, <3>6, <3>7
  <2>3. QED
    BY <2>1, <2>2
<1>5. PageTypes'
  BY <1>1, <1>2, <1>3, <1>4 DEF PageInv, PageTypes, States
<1>6. Seen' \subseteq Seen /\ CurrentOK' /\ SpinnerIsAnswered'
  BY <1>1 DEF Seen, CurrentOK, SpinnerIsAnswered, ShowsCleared, Nothing
<1>7. generation > 0 => generation \in 1..generation
  BY DEF PageInv, PageTypes
<1>8. LatestOK' /\ ClearedOK'
  BY <1>1, <1>4, <1>6, <1>7 DEF PageInv, LatestOK, ClearedOK
<1>9. QED
  BY <1>5, <1>6, <1>8 DEF PageInv

\* The server reads the incident: it knows of every clearance that the page has shown.
LEMMA ServeInv == ASSUME PageInv, NEW g \in 1..generation, Serve(g) PROVE PageInv'
<1>1. UNCHANGED <<cleared, route, mount, current, generation, clearing, seen>> /\ calls[g].stage = "sent"
  BY DEF Serve
<1>2. g \in 1..MaxCalls /\ calls[g] \in PageCalls /\ generation \in Nat /\ generation \in 0..MaxCalls
  BY KeyedResourceAssumption DEF PageInv, PageTypes
<1>3. PICK i \in Incidents :
        calls' = [calls EXCEPT ![g] = [stage |-> "served", key |-> @.key, mount |-> @.mount, aborted |-> @.aborted,
                                       data |-> [id |-> i, cleared |-> i \in cleared]]]
  BY DEF Serve
<1>4. PICK d : d = [stage |-> "served", key |-> calls[g].key, mount |-> calls[g].mount,
                    aborted |-> calls[g].aborted, data |-> [id |-> i, cleared |-> i \in cleared]]
  OBVIOUS
<1>5. /\ d \in PageCalls /\ d.stage = "served" /\ d.key = calls[g].key /\ d.mount = calls[g].mount
      /\ d.aborted = calls[g].aborted /\ d.data.id = i /\ d.data.cleared = (i \in cleared)
  BY <1>2, <1>4, CallFields DEF PageCalls, Bodies
<1>6. calls' = [calls EXCEPT ![g] = d] /\ calls'[g] = d
  BY <1>2, <1>3, <1>4 DEF PageInv, PageTypes
<1>7. ASSUME NEW h \in 1..generation
      PROVE  h \in 1..MaxCalls /\ (h # g => calls'[h] = calls[h])
  <2>1. h \in 1..MaxCalls
    BY <1>2, KeyedResourceAssumption
  <2>2. calls \in [1..MaxCalls -> PageCalls \cup {Unsent}]
    BY DEF PageInv, PageTypes
  <2>3. QED
    BY <2>1, <2>2, <1>6
<1>8. PageTypes'
  BY <1>1, <1>5, <1>6, <1>7 DEF PageInv, PageTypes
<1>9. Seen' = Seen /\ CurrentOK'
  BY <1>1 DEF PageInv, Seen, CurrentOK
<1>10. generation' \in 1..generation
  BY <1>1, <1>2
<1>11. LatestOK'
  <2>1. CASE g = generation
    <3>1. calls'[generation'] = d /\ Seen' = Seen /\ Seen \subseteq cleared
      BY <2>1, <1>1, <1>6, <1>9 DEF PageInv, ClearedOK
    <3>2. d.data.id \in Seen => d.data.cleared
      BY <3>1, <1>5
    <3>3. QED
      BY <3>1, <3>2 DEF LatestOK
  <2>2. CASE g # generation
    <3>1. generation > 0 => calls'[generation] = calls[generation]
      BY <2>2, <1>1, <1>7, <1>10
    <3>2. QED
      BY <3>1, <1>1, <1>9 DEF PageInv, LatestOK
  <2>3. QED
    BY <2>1, <2>2
<1>12. ClearedOK'
  <2>1. ASSUME NEW h \in 1..generation, calls'[h].stage = "served", calls'[h].data.cleared
        PROVE  calls'[h].data.id \in cleared
    BY <2>1, <1>5, <1>6, <1>7 DEF PageInv, ClearedOK
  <2>2. QED
    BY <2>1, <1>1, <1>9 DEF PageInv, ClearedOK
<1>13. SpinnerIsAnswered'
  BY <1>1, <1>5, <1>6, <1>7, <1>10 DEF PageInv, SpinnerIsAnswered, IsCurrent
<1>14. QED
  BY <1>8, <1>9, <1>11, <1>12, <1>13 DEF PageInv

----------------------------------------------------------------------------
(* An answer: the latest request is settled with the state it brings, any other one is ignored. *)

LEMMA SettledCall ==
    ASSUME PageInv, NEW g \in 1..generation, Settled(g), generation' = generation
    PROVE  /\ calls' \in [1..MaxCalls -> PageCalls \cup {Unsent}]
           /\ calls'[g].stage = "settled"
           /\ \A h \in 1..generation : calls'[h] \in PageCalls /\ (h # g => calls'[h] = calls[h])
<1>1. g \in 1..MaxCalls /\ calls[g] \in PageCalls
  BY KeyedResourceAssumption DEF PageInv, PageTypes
<1>2. PICK d : d = [stage |-> "settled", key |-> calls[g].key, mount |-> calls[g].mount,
                    aborted |-> calls[g].aborted]
  OBVIOUS
<1>3. d \in PageCalls /\ d.stage = "settled"
  BY <1>1, <1>2, CallFields DEF PageCalls
<1>4. calls' = [calls EXCEPT ![g] = d]
  BY <1>2 DEF Settled
<1>5. QED
  BY <1>1, <1>3, <1>4, KeyedResourceAssumption DEF PageInv, PageTypes

LEMMA Answered ==
    ASSUME PageInv, NEW g \in 1..generation, Settled(g),
           UNCHANGED <<cleared, route, mount, generation, clearing>>,
           NEW state \in States,
           IsCurrent(g) => Emit(state),
           ~IsCurrent(g) => UNCHANGED <<current, seen>>,
           ~Awaits(state), state # Nothing,
           IsCurrent(g) /\ state.status = "ready" =>
               /\ calls[g].stage = "served" /\ state.data = calls[g].data /\ state.data.id = state.key
    PROVE  PageInv'
<1>1. calls[g] \in PageCalls /\ generation \in Nat /\ generation > 0 /\ generation \in 1..generation
  BY DEF PageInv, PageTypes
<1>2. CASE IsCurrent(g)
  <2>1. g = generation /\ current' = state
    BY <1>2 DEF IsCurrent, Emit
  <2>2. state.status = "ready" =>
            /\ state.key \in Incidents
            /\ state.key \in Seen => state.data.cleared
            /\ state.data.cleared => state.key \in cleared
    BY <1>1, <1>2, <2>1, StateFields DEF PageInv, LatestOK, ClearedOK
  <2>3. Seen' \subseteq seen \cup {k \in Incidents : ShowsCleared(state) /\ k = state.key}
    BY <1>2, <2>1, <2>2 DEF Seen, Emit, ShowsCleared
  <2>4. Seen' \subseteq cleared
    BY <2>2, <2>3 DEF PageInv, ClearedOK, Seen, ShowsCleared
  <2>5. PageTypes'
    BY <2>1, SettledCall DEF PageInv, PageTypes
  <2>6. CurrentOK'
    BY <1>2, <2>1, <2>2 DEF CurrentOK, Emit, ShowsCleared, Seen
  <2>7. calls'[generation'].stage = "settled"
    BY <2>1, SettledCall
  <2>8. LatestOK' /\ SpinnerIsAnswered'
    BY <2>1, <2>7 DEF LatestOK, SpinnerIsAnswered, Awaits
  <2>9. ClearedOK'
    BY <2>4, SettledCall DEF PageInv, ClearedOK
  <2>10. QED
    BY <2>5, <2>6, <2>8, <2>9 DEF PageInv
<1>3. CASE ~IsCurrent(g)
  <2>1. UNCHANGED <<cleared, route, mount, current, generation, clearing, seen>>
    BY <1>3
  <2>2. PageTypes'
    BY <2>1, SettledCall DEF PageInv, PageTypes
  <2>3. Seen' = Seen /\ CurrentOK'
    BY <2>1 DEF PageInv, Seen, CurrentOK
  <2>4. LatestOK' /\ ClearedOK'
    BY <1>1, <2>1, <2>3, SettledCall DEF PageInv, LatestOK, ClearedOK
  <2>5. SpinnerIsAnswered'
    BY <1>1, <1>3, <2>1, SettledCall DEF PageInv, SpinnerIsAnswered, IsCurrent
  <2>6. QED
    BY <2>2, <2>3, <2>4, <2>5 DEF PageInv
<1>4. QED
  BY <1>2, <1>3

LEMMA Failure ==
    ASSUME NEW k \in Incidents
    PROVE  Failed(k) \in States /\ Failed(k) # Nothing /\ Failed(k).status = "error"
BY DEF Failed, States, Nothing

LEMMA ResolveInv == ASSUME PageInv, NEW g \in 1..generation, Resolve(g) PROVE PageInv'
<1>1. calls[g] \in PageCalls /\ calls[g].stage = "served" /\ calls[g].key \in Incidents /\ calls[g].data \in Bodies
  BY CallFields DEF PageInv, PageTypes, Resolve
<1>2. PICK state : state = IF calls[g].data.id = calls[g].key THEN Ready(calls[g].key, calls[g].data)
                           ELSE Failed(calls[g].key)
  OBVIOUS
<1>3. /\ state \in States /\ state # Nothing /\ ~Awaits(state)
      /\ state.status = "ready" => state.data = calls[g].data /\ state.data.id = state.key
  BY <1>1, <1>2 DEF States, Nothing, Ready, Failed, Awaits
<1>4. IsCurrent(g) => Emit(state)
  BY <1>2 DEF Resolve, BelongsTo
<1>5. QED
  BY <1>1, <1>3, <1>4, Answered DEF Resolve

LEMMA RejectInv == ASSUME PageInv, NEW g \in 1..generation, Reject(g) PROVE PageInv'
<1>1. calls[g].key \in Incidents
  BY CallFields DEF PageInv, PageTypes
<1>2. PICK state : state = Failed(calls[g].key)
  OBVIOUS
<1>3. /\ state \in States /\ state # Nothing /\ state.status = "error"
  BY <1>1, <1>2, Failure
<1>4. ~Awaits(state)
  BY <1>3 DEF Awaits
<1>5. QED
  BY <1>2, <1>3, <1>4, Answered DEF Reject

----------------------------------------------------------------------------

LEMMA PageNextInv == ASSUME PageInv, [PageNext]_pageVars PROVE PageInv'
<1>1. CASE UNCHANGED pageVars
  BY <1>1 DEF pageVars, PageInv, PageTypes, CurrentOK, LatestOK, ClearedOK, SpinnerIsAnswered, IsCurrent, Seen
<1>2. CASE PageNext
  BY <1>2, SelectInv, ReloadInv, NavigateInv, MountInv, ClearInv, ServeClearInv, AfterClearInv,
     ServeInv, ResolveInv, RejectInv DEF PageNext
<1>3. QED
  BY <1>1, <1>2

LEMMA PageInvariance == PageSpec => []PageInv
<1>1. PageInit => PageInv
  BY PageInitInv
<1>2. PageInv /\ [PageNext]_pageVars => PageInv'
  BY PageNextInv
<1>3. QED
  BY <1>1, <1>2, PTL DEF PageSpec

\* The page shows the incident of its address, for any number of incidents, requests and
\* navigations, and whatever body the server sends. (keyed-resource.ts:55)
THEOREM PageShowsItsAddress == PageSpec => []ShowsTheRoute
<1>1. PageInv => ShowsTheRoute
  BY StateFields DEF PageInv, PageTypes, CurrentOK, ShowsTheRoute, Shown, Loading
<1>2. QED
  BY <1>1, PageInvariance, PTL

\* An incident shown as cleared is not shown as contained by an earlier request that answers
\* late. (keyed-resource.ts:58)
THEOREM ClearancesStayShown == PageSpec => []ClearedStaysCleared
<1>1. PageInv => ClearedStaysCleared
  BY DEF PageInv, CurrentOK, ClearedStaysCleared, Shown, Loading
<1>2. QED
  BY <1>1, PageInvariance, PTL

\* The page does not wait for a request that was aborted or superseded. (keyed-resource.ts:51)
THEOREM SpinnersAreAnswered == PageSpec => []SpinnerIsAnswered
<1>1. PageInv => SpinnerIsAnswered
  BY DEF PageInv
<1>2. QED
  BY <1>1, PageInvariance, PTL
===============================================================================
