------------------------------ MODULE Sessions ------------------------------
(* Accounts, teams and sessions: auth_service.py, behind api/v1/auth.py and      *)
(* api/v1/tenants.py, with the browsers that call them (client.js and            *)
(* AuthContext.jsx).                                                             *)
(*                                                                               *)
(* A browser has one cookie jar for all its tabs, and every request under way    *)
(* carries the cookie the jar had when it was sent.  The service reads and       *)
(* writes in separate statements of a READ COMMITTED session, so a request is a  *)
(* check, sometimes a SELECT of what it will revoke, and a commit; its answer    *)
(* reaches the jar in a step of its own, or is lost.                             *)
(*                                                                               *)
(* Left out: tokens that do not decode, names and e-mail spelling, is_active     *)
(* (no code clears it), replaced_by_id (no code reads it), and the access        *)
(* token's own life time: a signed-in tab may refresh at any moment.             *)
EXTENDS Naturals, FiniteSets

CONSTANTS
    Users,          \* e-mail addresses
    NoUser,
    Tokens,         \* refresh tokens, numbered as they are issued
    NoToken,
    Browsers,
    NoBrowser,
    Requests,       \* slots for requests under way
    NewRoles,       \* the roles an owner may give
    MaxPassword,    \* bound: no change is begun once an account has this one
    Mortal,         \* bound: the tokens that may expire
    Faults          \* answers may be lost

ASSUME UsersAssumption == NoUser \notin Users
ASSUME BrowsersAssumption == NoBrowser \notin Browsers
ASSUME NewRolesAssumption == NewRoles # {} /\ NewRoles \subseteq {"editor", "viewer"}
ASSUME TokensAssumption == Tokens \subseteq Nat /\ NoToken \notin Tokens

VARIABLES
    \* table users
    role,           \* "none" before there is a row, "removed" after
    tenant,         \* the tenant, named after the user that registered it
    password,       \* which password, counted from 1
    temporary,      \* must_change_password
    \* table refresh_tokens
    state,          \* "unused", "live", "revoked", or "gone" with its user
    of,             \* user_id
    expired,        \* the tokens past expires_at
    \* browsers
    jar,            \* the refresh cookie
    signed,         \* the user whose access token is in localStorage
    \* the requests
    at,             \* what a request does next
    from,           \* its browser
    who,            \* the account it acts for
    target,         \* the account an owner acts on
    carried,        \* the cookie it was sent with, then the one it answers with
    seen,           \* the tokens it has selected for revocation
    knows,          \* the password it has read
    newRole,
    \* history
    home,           \* the browser a token was issued to
    under,          \* the password its request had read
    raced,          \* tokens whose issue overlapped a password change
    muddled         \* browsers that lost an answer or had two requests at once

accountVars == <<role, tenant, password, temporary>>
tokenVars   == <<state, of, expired, home, under, raced>>
browserVars == <<jar, signed>>
requestVars == <<from, who, target, carried, seen, knows, newRole, muddled>>
vars == <<accountVars, tokenVars, browserVars, at, requestVars>>

Roles == {"owner", "editor", "viewer"}
Steps == {"idle", "register", "login", "refresh", "family", "revokeFamily",
          "revoke", "cleared", "password", "setPassword", "pwCommit",
          "setCommit", "issue", "invite", "role", "remove", "delete", "answer",
          "refreshed"}

AnyRole == CHOOSE x \in NewRoles : TRUE
Member(u) == role[u] \in Roles
Live(t) == state[t] = "live" /\ t \notin expired
LiveOf(u) == {t \in Tokens : state[t] = "live" /\ of[t] = u}

\* The tables, the browsers and the local state of the requests keep their types.
TypeOK ==
    /\ role \in [Users -> Roles \cup {"none", "removed"}]
    /\ tenant \in [Users -> Users \cup {NoUser}]
    /\ password \in [Users -> Nat]
    /\ temporary \in [Users -> BOOLEAN]
    /\ state \in [Tokens -> {"unused", "live", "revoked", "gone"}]
    /\ of \in [Tokens -> Users \cup {NoUser}]
    /\ expired \subseteq Tokens
    /\ jar \in [Browsers -> Tokens \cup {NoToken}]
    /\ signed \in [Browsers -> Users \cup {NoUser}]
    /\ at \in [Requests -> Steps]
    /\ from \in [Requests -> Browsers \cup {NoBrowser}]
    /\ \A r \in Requests : at[r] # "idle" => from[r] \in Browsers
    /\ who \in [Requests -> Users \cup {NoUser}]
    /\ \A r \in Requests : at[r] # "idle" => who[r] \in Users
    /\ target \in [Requests -> Users \cup {NoUser}]
    /\ \A r \in Requests :
        at[r] \in {"invite", "role", "remove", "delete"} => target[r] \in Users
    /\ carried \in [Requests -> Tokens \cup {NoToken}]
    /\ \A r \in Requests :
        at[r] \in {"refresh", "revoke", "answer", "refreshed"} => carried[r] \in Tokens
    /\ seen \in [Requests -> SUBSET Tokens]
    /\ knows \in [Requests -> Nat]
    /\ newRole \in [Requests -> NewRoles]
    /\ home \in [Tokens -> Browsers \cup {NoBrowser}]
    /\ under \in [Tokens -> Nat]
    /\ raced \subseteq Tokens
    /\ muddled \subseteq Browsers

Init ==
    /\ role = [u \in Users |-> "none"]
    /\ tenant = [u \in Users |-> NoUser]
    /\ password = [u \in Users |-> 0]
    /\ temporary = [u \in Users |-> FALSE]
    /\ state = [t \in Tokens |-> "unused"]
    /\ of = [t \in Tokens |-> NoUser]
    /\ expired = {}
    /\ jar = [b \in Browsers |-> NoToken]
    /\ signed = [b \in Browsers |-> NoUser]
    /\ at = [r \in Requests |-> "idle"]
    /\ from = [r \in Requests |-> NoBrowser]
    /\ who = [r \in Requests |-> NoUser]
    /\ target = [r \in Requests |-> NoUser]
    /\ carried = [r \in Requests |-> NoToken]
    /\ seen = [r \in Requests |-> {}]
    /\ knows = [r \in Requests |-> 0]
    /\ newRole = [r \in Requests |-> AnyRole]
    /\ home = [t \in Tokens |-> NoBrowser]
    /\ under = [t \in Tokens |-> 0]
    /\ raced = {}
    /\ muddled = {}

-----------------------------------------------------------------------------
(* Requests, from the browser to their end *)

UnderWay(b) == {r \in Requests : at[r] # "idle" /\ from[r] = b}

Goto(r, step) == at' = [at EXCEPT ![r] = step]

\* A tab of b sends a request for u that goes on at step.
Send(r, b, u, step) ==
    /\ at[r] = "idle"
    /\ Goto(r, step)
    /\ from' = [from EXCEPT ![r] = b]
    /\ who' = [who EXCEPT ![r] = u]
    /\ muddled' = IF UnderWay(b) = {} THEN muddled ELSE muddled \cup {b}

\* The request is over; what it remembered goes with its session.
Forget(r) ==
    /\ Goto(r, "idle")
    /\ from' = [from EXCEPT ![r] = NoBrowser]
    /\ who' = [who EXCEPT ![r] = NoUser]
    /\ target' = [target EXCEPT ![r] = NoUser]
    /\ carried' = [carried EXCEPT ![r] = NoToken]
    /\ seen' = [seen EXCEPT ![r] = {}]
    /\ knows' = [knows EXCEPT ![r] = 0]
    /\ newRole' = [newRole EXCEPT ![r] = AnyRole]

\* Bound: a request that will issue a token is only sent while one is left for it.
Room ==
    Cardinality({t \in Tokens : state[t] = "unused"}) >
    Cardinality({r \in Requests : at[r] \in {"register", "login", "refresh",
                    "setPassword", "setCommit", "issue"}})

\* An error answer that changes nothing in the browser.
Refused(r) ==
    /\ Forget(r)
    /\ UNCHANGED <<accountVars, tokenVars, browserVars, muddled>>

\* clearAuthAndRedirect.
SignOut(b) == signed' = [signed EXCEPT ![b] = NoUser]

-----------------------------------------------------------------------------
(* register, login and the issue of tokens *)

\* register up to the test of the e-mail address.
RegisterCheck(r, b, u) ==
    /\ Room
    /\ signed[b] = NoUser
    /\ role[u] = "none"
    /\ Send(r, b, u, "register")
    /\ UNCHANGED <<accountVars, tokenVars, browserVars, target, carried, seen,
                   knows, newRole>>

\* _issue_token_pair: the next token, for the account and the browser of r.
IssueToken(r, t, pw) ==
    /\ state[t] = "unused"
    /\ \A s \in Tokens : s < t => state[s] # "unused"
    /\ of' = [of EXCEPT ![t] = who[r]]
    /\ home' = [home EXCEPT ![t] = from[r]]
    /\ under' = [under EXCEPT ![t] = pw]
    /\ raced' = IF pw # password'[who[r]] \/ \E q \in Requests :
                        at[q] \in {"pwCommit", "setCommit"} /\ who[q] = who[r]
                THEN raced \cup {t} ELSE raced
    /\ carried' = [carried EXCEPT ![r] = t]

\* The tenant, its owner and the first token, in one transaction.
RegisterCommit(r, t) ==
    LET u == who[r] IN
    /\ at[r] = "register"
    /\ role[u] = "none"
    /\ role' = [role EXCEPT ![u] = "owner"]
    /\ tenant' = [tenant EXCEPT ![u] = u]
    /\ password' = [password EXCEPT ![u] = 1]
    /\ IssueToken(r, t, 1)
    /\ state' = [state EXCEPT ![t] = "live"]
    /\ Goto(r, "answer")
    /\ UNCHANGED <<temporary, expired, browserVars, from, who, target, seen, knows,
                   newRole, muddled>>

\* The unique index on users.email refuses the row: nothing of the transaction stays.
RegisterRefused(r) ==
    /\ at[r] = "register"
    /\ role[who[r]] # "none"
    /\ Refused(r)

\* login up to its tests, with the password of the moment.
LoginCheck(r, b, u) ==
    /\ Room
    /\ signed[b] = NoUser
    /\ Member(u)
    /\ Send(r, b, u, "login")
    /\ knows' = [knows EXCEPT ![r] = password[u]]
    /\ UNCHANGED <<accountVars, tokenVars, browserVars, target, carried, seen,
                   newRole>>

\* The token row of a login, or of set_password after its first commit.
Issue(r, t) ==
    /\ at[r] \in {"login", "issue"}
    /\ Member(who[r])
    /\ UNCHANGED accountVars
    /\ IssueToken(r, t, knows[r])
    /\ state' = [state EXCEPT ![t] = "live"]
    /\ Goto(r, "answer")
    /\ UNCHANGED <<expired, browserVars, from, who, target, seen, knows, newRole,
                   muddled>>

\* The account is gone: the foreign key of the token row refuses it.
IssueRefused(r) ==
    /\ at[r] \in {"login", "issue"}
    /\ ~Member(who[r])
    /\ Refused(r)

-----------------------------------------------------------------------------
(* refresh and logout *)

\* refresh_tokens finds the presented token live.
RefreshCheck(r, b) ==
    LET t == jar[b] IN
    /\ signed[b] # NoUser
    /\ t # NoToken
    /\ Live(t)
    /\ Room
    /\ Send(r, b, of[t], "refresh")
    /\ carried' = [carried EXCEPT ![r] = t]
    /\ knows' = [knows EXCEPT ![r] = password[of[t]]]
    /\ UNCHANGED <<accountVars, tokenVars, browserVars, target, seen, newRole>>

\* It finds the token revoked: somebody uses a token again.
RefreshReused(r, b) ==
    LET t == jar[b] IN
    /\ signed[b] # NoUser
    /\ t # NoToken
    /\ state[t] = "revoked" /\ t \notin expired
    /\ Send(r, b, of[t], "family")
    /\ UNCHANGED <<accountVars, tokenVars, browserVars, target, carried, seen,
                   knows, newRole>>

\* It finds no such token, or an expired one: 401, and the client signs out.
RefreshRefused(b) ==
    LET t == jar[b] IN
    /\ signed[b] # NoUser
    /\ t = NoToken \/ state[t] = "gone" \/ t \in expired
    /\ SignOut(b)
    /\ UNCHANGED <<accountVars, tokenVars, jar, at, requestVars>>

\* Mutant of RefreshCommit: the presented token stays valid.
RefreshKeepsOld(r, t) ==
    /\ at[r] = "refresh"
    /\ Member(who[r])
    /\ UNCHANGED accountVars
    /\ IssueToken(r, t, knows[r])
    /\ state' = [state EXCEPT ![t] = "live"]
    /\ Goto(r, "refreshed")
    /\ UNCHANGED <<expired, browserVars, from, who, target, seen, knows, newRole,
                   muddled>>

\* The rotation: the old row is written by primary key, whatever it has become.
RefreshCommit(r, t) ==
    /\ at[r] = "refresh"
    /\ Member(who[r])
    /\ UNCHANGED accountVars
    /\ IssueToken(r, t, knows[r])
    /\ state' = [state EXCEPT ![carried[r]] = "revoked", ![t] = "live"]
    /\ Goto(r, "refreshed")
    /\ UNCHANGED <<expired, browserVars, from, who, target, seen, knows, newRole,
                   muddled>>

\* The account is gone, its rows with it: an error, and the client signs out.
RefreshFails(r) ==
    /\ at[r] = "refresh"
    /\ ~Member(who[r])
    /\ SignOut(from[r])
    /\ Forget(r)
    /\ UNCHANGED <<accountVars, tokenVars, jar, muddled>>

\* _revoke_refresh_tokens selects the tokens of the user that are not revoked.
FamilySelect(r) ==
    /\ at[r] = "family"
    /\ seen' = [seen EXCEPT ![r] = LiveOf(who[r])]
    /\ Goto(r, "revokeFamily")
    /\ UNCHANGED <<accountVars, tokenVars, browserVars, from, who, target, carried,
                   knows, newRole, muddled>>

\* The rows of S that are still there get their revoked_at.
Revoke(S) ==
    state' = [t \in Tokens |-> IF t \in S /\ state[t] = "live" THEN "revoked"
                               ELSE state[t]]

\* Their UPDATE, the commit and the 401.
FamilyCommit(r) ==
    /\ at[r] = "revokeFamily"
    /\ Revoke(seen[r])
    /\ SignOut(from[r])
    /\ Forget(r)
    /\ UNCHANGED <<accountVars, of, expired, home, under, raced, jar, muddled>>

\* logout: revoke_refresh_token looks for the cookie's row, not yet revoked.
LogoutCheck(r, b) ==
    LET t == jar[b]
        found == t # NoToken /\ Live(t)
    IN
    /\ signed[b] # NoUser
    /\ Send(r, b, signed[b], IF found THEN "revoke" ELSE "cleared")
    /\ carried' = [carried EXCEPT ![r] = t]
    /\ UNCHANGED <<accountVars, tokenVars, browserVars, target, seen, knows, newRole>>

LogoutCommit(r) ==
    /\ at[r] = "revoke"
    /\ Revoke({carried[r]})
    /\ Goto(r, "cleared")
    /\ UNCHANGED <<accountVars, of, expired, home, under, raced, browserVars, requestVars>>

-----------------------------------------------------------------------------
(* update_profile and set_password *)

\* get_current_user and update_profile up to the test of the current password,
\* which an account with a temporary one need not know.  The set-password
\* endpoint (step "setPassword") answers with new tokens, PUT /me does not.
PasswordCheck(r, b, step) ==
    LET u == signed[b] IN
    /\ u # NoUser
    /\ Member(u)
    /\ \A v \in Users : password[v] < MaxPassword
    /\ step = "setPassword" => Room
    /\ Send(r, b, u, step)
    /\ UNCHANGED <<accountVars, tokenVars, browserVars, target, carried, seen,
                   knows, newRole>>

Changing(u) == \E r \in Requests : at[r] \in {"pwCommit", "setCommit"} /\ who[r] = u

\* Mutant of PasswordSelect: the session of the request itself is spared.
PasswordSelectOthers(r) ==
    /\ at[r] \in {"password", "setPassword"}
    /\ Member(who[r])
    /\ ~Changing(who[r])
    /\ seen' = [seen EXCEPT ![r] = LiveOf(who[r]) \ {jar[from[r]]}]
    /\ Goto(r, IF at[r] = "password" THEN "pwCommit" ELSE "setCommit")
    /\ UNCHANGED <<accountVars, tokenVars, browserVars, from, who, target, carried,
                   knows, newRole, muddled>>

\* The autoflush writes the account's row, after whoever else writes it, and the
\* SELECT that caused it finds the tokens to revoke.
PasswordSelect(r) ==
    /\ at[r] \in {"password", "setPassword"}
    /\ Member(who[r])
    /\ ~Changing(who[r])
    /\ seen' = [seen EXCEPT ![r] = LiveOf(who[r])]
    /\ Goto(r, IF at[r] = "password" THEN "pwCommit" ELSE "setCommit")
    /\ UNCHANGED <<accountVars, tokenVars, browserVars, from, who, target, carried,
                   knows, newRole, muddled>>

\* No row is left to write: StaleDataError.
PasswordFails(r) ==
    /\ at[r] \in {"password", "setPassword"}
    /\ ~Member(who[r])
    /\ Refused(r)

\* The commit of update_profile.
PasswordCommit(r) ==
    LET u == who[r] IN
    /\ at[r] \in {"pwCommit", "setCommit"}
    /\ password' = [password EXCEPT ![u] = @ + 1]
    /\ temporary' = [temporary EXCEPT ![u] = FALSE]
    /\ Revoke(seen[r])
    /\ IF at[r] = "pwCommit"
       THEN Forget(r)
       ELSE /\ Goto(r, "issue")
            /\ seen' = [seen EXCEPT ![r] = {}]
            /\ knows' = [knows EXCEPT ![r] = password'[u]]
            /\ UNCHANGED <<from, who, target, carried, newRole>>
    /\ UNCHANGED <<role, tenant, of, expired, home, under, raced, browserVars, muddled>>

-----------------------------------------------------------------------------
(* The owner's team *)

\* require_role("owner"), behind the password that must have been changed.
ActsAsOwner(u) == u # NoUser /\ role[u] = "owner" /\ ~temporary[u]

\* An owner's request about v.
SendOwner(r, b, v, step, new) ==
    /\ ActsAsOwner(signed[b])
    /\ Send(r, b, signed[b], step)
    /\ target' = [target EXCEPT ![r] = v]
    /\ newRole' = [newRole EXCEPT ![r] = new]
    /\ UNCHANGED <<accountVars, tokenVars, browserVars, carried, seen, knows>>

\* invite_user up to the test of the e-mail address.
InviteCheck(r, b, v, new) ==
    /\ role[v] = "none"
    /\ SendOwner(r, b, v, "invite", new)

\* The account, with a temporary password.
InviteCommit(r) ==
    LET v == target[r] IN
    /\ at[r] = "invite"
    /\ role[v] = "none"
    /\ role' = [role EXCEPT ![v] = newRole[r]]
    /\ tenant' = [tenant EXCEPT ![v] = tenant[who[r]]]
    /\ password' = [password EXCEPT ![v] = 1]
    /\ temporary' = [temporary EXCEPT ![v] = TRUE]
    /\ Forget(r)
    /\ UNCHANGED <<tokenVars, browserVars, muddled>>

InviteRefused(r) ==
    /\ at[r] = "invite"
    /\ role[target[r]] # "none"
    /\ Refused(r)

\* Mutant of InTeam: the owner's own account is not excepted.
InTeamWithOwner(u, v) == Member(v) /\ tenant[v] = tenant[u]

\* The account update_user_role and remove_user accept: of the tenant, not the
\* caller's own.
InTeam(u, v) == Member(v) /\ tenant[v] = tenant[u] /\ v # u

RoleCheck(r, b, v, new) ==
    /\ signed[b] # NoUser
    /\ InTeam(signed[b], v)
    /\ SendOwner(r, b, v, "role", new)

RoleCommit(r) ==
    LET v == target[r] IN
    /\ at[r] = "role"
    /\ Member(v)
    /\ role' = [role EXCEPT ![v] = newRole[r]]
    /\ Forget(r)
    /\ UNCHANGED <<tenant, password, temporary, tokenVars, browserVars, muddled>>

RemoveCheck(r, b, v) ==
    /\ signed[b] # NoUser
    /\ InTeam(signed[b], v)
    /\ SendOwner(r, b, v, "remove", AnyRole)

\* The flush of the delete loads the account's tokens first, of any age, to set
\* their user_id to NULL.
HasTokens(v) == \E t \in Tokens : state[t] \in {"live", "revoked"} /\ of[t] = v

RemoveFlush(r) ==
    /\ at[r] = "remove"
    /\ Member(target[r])
    /\ ~HasTokens(target[r])
    /\ Goto(r, "delete")
    /\ UNCHANGED <<accountVars, tokenVars, browserVars, requestVars>>

\* user_id is NOT NULL, so the removal of an account that has ever signed in
\* fails; so does a second one, for want of the row.
RemoveFails(r) ==
    /\ \/ at[r] = "role" /\ ~Member(target[r])
       \/ at[r] = "remove" /\ (~Member(target[r]) \/ HasTokens(target[r]))
       \/ at[r] = "delete" /\ ~Member(target[r])
    /\ Refused(r)

\* Mutant of RemoveCommit: no ON DELETE CASCADE.
RemoveCommitOrphans(r) ==
    LET v == target[r] IN
    /\ at[r] = "delete"
    /\ Member(v)
    /\ ~Changing(v)
    /\ role' = [role EXCEPT ![v] = "removed"]
    /\ Forget(r)
    /\ UNCHANGED <<tenant, password, temporary, tokenVars, browserVars, muddled>>

\* The DELETE waits for a change of the row; tokens issued since the flush go
\* with it.
RemoveCommit(r) ==
    LET v == target[r] IN
    /\ at[r] = "delete"
    /\ Member(v)
    /\ ~Changing(v)
    /\ role' = [role EXCEPT ![v] = "removed"]
    /\ state' = [t \in Tokens |-> IF of[t] = v THEN "gone" ELSE state[t]]
    /\ Forget(r)
    /\ UNCHANGED <<tenant, password, temporary, of, expired, home, under, raced,
                   browserVars, muddled>>

-----------------------------------------------------------------------------
(* Answers, and time *)

\* The browser takes the cookie and the access token of an answer.
Deliver(r) ==
    LET b == from[r] IN
    /\ \/ /\ at[r] \in {"answer", "refreshed"}
          /\ jar' = [jar EXCEPT ![b] = carried[r]]
          /\ signed' = [signed EXCEPT ![b] = who[r]]
       \/ /\ at[r] = "cleared"
          /\ jar' = [jar EXCEPT ![b] = NoToken]
          /\ SignOut(b)
    /\ Forget(r)
    /\ UNCHANGED <<accountVars, tokenVars, muddled>>

\* The answer is lost.  After a refresh or a logout the client signs out anyway.
Lose(r) ==
    /\ Faults
    /\ at[r] \in {"answer", "refreshed", "cleared"}
    /\ IF at[r] = "answer" THEN UNCHANGED signed ELSE SignOut(from[r])
    /\ muddled' = muddled \cup {from[r]}
    /\ Forget(r)
    /\ UNCHANGED <<accountVars, tokenVars, jar>>

\* A token comes to the end of its life.
Expire(t) ==
    /\ t \in Mortal
    /\ state[t] \in {"live", "revoked"}
    /\ t \notin expired
    /\ expired' = expired \cup {t}
    /\ UNCHANGED <<accountVars, state, of, home, under, raced, browserVars, at, requestVars>>

Commit(r) ==
    \/ \E t \in Tokens : RegisterCommit(r, t) \/ Issue(r, t) \/ RefreshCommit(r, t)
    \/ RegisterRefused(r) \/ IssueRefused(r) \/ RefreshFails(r)
    \/ FamilySelect(r) \/ FamilyCommit(r) \/ LogoutCommit(r)
    \/ PasswordSelect(r) \/ PasswordFails(r) \/ PasswordCommit(r)
    \/ InviteCommit(r) \/ InviteRefused(r) \/ RoleCommit(r)
    \/ RemoveFlush(r) \/ RemoveFails(r) \/ RemoveCommit(r)

NewRequest(r, b) ==
    \/ \E u \in Users : RegisterCheck(r, b, u) \/ LoginCheck(r, b, u)
    \/ RefreshCheck(r, b) \/ RefreshReused(r, b) \/ LogoutCheck(r, b)
    \/ \E step \in {"password", "setPassword"} : PasswordCheck(r, b, step)
    \/ \E v \in Users, new \in NewRoles :
        InviteCheck(r, b, v, new) \/ RoleCheck(r, b, v, new)
    \/ \E v \in Users : RemoveCheck(r, b, v)

Next ==
    \/ \E r \in Requests : \/ \E b \in Browsers : NewRequest(r, b)
                           \/ Commit(r) \/ Deliver(r) \/ Lose(r)
    \/ \E b \in Browsers : RefreshRefused(b)
    \/ \E t \in Tokens : Expire(t)

Spec == Init /\ [][Next]_vars

-----------------------------------------------------------------------------
(* Properties *)

\* Roles are read, tested and written in separate steps of concurrent requests:
\* a tenant must still have exactly one owner, the user who registered it.
OneOwner ==
    \A u \in Users : tenant[u] # NoUser =>
        {v \in Users : tenant[v] = tenant[u] /\ role[v] = "owner"} = {tenant[u]}

\* A password change revokes the sessions of the user that it sees.  A session
\* may outlive the change only if it was being issued while the change ran.
PasswordChangeEndsSessions ==
    \A t \in Tokens \ raced :
        state[t] = "live" => under[t] = password[of[t]]

\* While an account is being removed it may sign in: no session may be left to
\* a user who is not there any more.
SessionsHaveUsers ==
    \A t \in Tokens : state[t] \in {"live", "revoked"} => Member(of[t])

\* A browser that has lost no answer and never had two requests at once keeps
\* track of its session: whatever other browsers do to the account, no session
\* issued to it is valid but the one in its jar, and none after a logout.
JarHoldsTheSession ==
    \A b \in Browsers \ muddled :
        UnderWay(b) = {} => {t \in Tokens : Live(t) /\ home[t] = b} \subseteq {jar[b]}
=============================================================================
