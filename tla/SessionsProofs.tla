---------------------------- MODULE SessionsProofs ----------------------------
(* Theorems about Sessions. *)
EXTENDS Sessions, TLAPS

----------------------------------------------------------------------------
(* The inductive invariant *)

\* Every account is in the tenant of an owner, who is in it.
Teams ==
    \A u \in Users :
        /\ tenant[u] # NoUser => tenant[tenant[u]] = tenant[u]
        /\ role[u] = "owner" <=> tenant[u] = u

\* Every token that was issued was issued to an account.
IssuedToUsers == \A t \in Tokens : state[t] # "unused" => of[t] \in Users

InChange(r) == at[r] \in {"pwCommit", "setCommit"}

\* What a request has read and still relies on: that its target is no owner and its
\* caller is one, whose token it rotates, and, while it changes a password, that it
\* has selected all sessions of the account but those issued since.
Fits(r) ==
    /\ at[r] \in {"role", "remove", "delete"} => role[target[r]] \notin {"owner", "none"}
    /\ at[r] = "invite" => role[who[r]] = "owner"
    /\ at[r] = "refresh" => state[carried[r]] # "unused" /\ of[carried[r]] = who[r]
    /\ InChange(r) => \A t \in Tokens \ raced :
                         state[t] = "live" /\ of[t] = who[r] => t \in seen[r]

RequestsFit == \A r \in Requests : Fits(r)

Core ==
    /\ Teams /\ IssuedToUsers /\ RequestsFit
    /\ SessionsHaveUsers /\ PasswordChangeEndsSessions

IInv == TypeOK /\ Core

LEMMA AnyRoleType == AnyRole \in NewRoles
  BY NewRolesAssumption DEF NewRolesAssumption, AnyRole

LEMMA IInvInit == Init => IInv
<1> SUFFICES ASSUME Init PROVE IInv
  OBVIOUS
<1> USE UsersAssumption DEF UsersAssumption
<1>1. TypeOK
  BY AnyRoleType DEF Init, TypeOK, Steps
<1>2. Core
  BY DEF Init, Core, Teams, IssuedToUsers, RequestsFit, Fits, InChange, SessionsHaveUsers,
     PasswordChangeEndsSessions
<1> QED BY <1>1, <1>2 DEF IInv

----------------------------------------------------------------------------
(* Types *)

\* The remembered part of a request, back to nothing.
LEMMA ForgetType ==
  ASSUME TypeOK, NEW r \in Requests, Forget(r)
  PROVE  /\ at' \in [Requests -> Steps] /\ from' \in [Requests -> Browsers \cup {NoBrowser}]
         /\ who' \in [Requests -> Users \cup {NoUser}]
         /\ target' \in [Requests -> Users \cup {NoUser}]
         /\ carried' \in [Requests -> Tokens \cup {NoToken}]
         /\ seen' \in [Requests -> SUBSET Tokens] /\ knows' \in [Requests -> Nat]
         /\ newRole' \in [Requests -> NewRoles]
         /\ at'[r] = "idle"
         /\ \A q \in Requests : q # r =>
               /\ at'[q] = at[q] /\ from'[q] = from[q] /\ who'[q] = who[q]
               /\ target'[q] = target[q] /\ carried'[q] = carried[q] /\ seen'[q] = seen[q]
  BY AnyRoleType DEF Forget, Goto, TypeOK, Steps

LEMMA TypeStep == IInv /\ [Next]_vars => TypeOK'
<1> SUFFICES ASSUME IInv, [Next]_vars PROVE TypeOK'
  OBVIOUS
<1>0. TypeOK /\ IssuedToUsers
  BY DEF IInv, Core
<1> USE UsersAssumption, BrowsersAssumption, NewRolesAssumption, TokensAssumption
    DEF UsersAssumption, BrowsersAssumption, NewRolesAssumption, TokensAssumption,
        accountVars, tokenVars, browserVars
<1>1. ASSUME NEW r \in Requests, NEW b \in Browsers, NEW u \in Users,
             RegisterCheck(r, b, u)
      PROVE  TypeOK'
  BY <1>0, <1>1
     DEF RegisterCheck, Send, Goto, Steps, TypeOK
<1>2. ASSUME NEW r \in Requests, NEW b \in Browsers, NEW u \in Users, LoginCheck(r, b, u)
      PROVE  TypeOK'
  BY <1>0, <1>2
     DEF LoginCheck, Send, Goto, Steps, TypeOK
<1>3. ASSUME NEW r \in Requests, NEW b \in Browsers, RefreshCheck(r, b) PROVE TypeOK'
  BY <1>0, <1>3
     DEF RefreshCheck, Live, Send, Goto, Steps, IssuedToUsers, TypeOK
<1>4. ASSUME NEW r \in Requests, NEW b \in Browsers, RefreshReused(r, b) PROVE TypeOK'
  BY <1>0, <1>4
     DEF RefreshReused, Send, Goto, Steps, IssuedToUsers, TypeOK
<1>5. ASSUME NEW r \in Requests, NEW b \in Browsers, LogoutCheck(r, b) PROVE TypeOK'
  BY <1>0, <1>5
     DEF LogoutCheck, Send, Goto, Steps, TypeOK
<1>6. ASSUME NEW r \in Requests, NEW b \in Browsers, NEW step \in {"password", "setPassword"},
             PasswordCheck(r, b, step)
      PROVE  TypeOK'
  BY <1>0, <1>6
     DEF PasswordCheck, Send, Goto, Steps, TypeOK
<1>7. ASSUME NEW r \in Requests, NEW b \in Browsers, NEW v \in Users, NEW new \in NewRoles,
             InviteCheck(r, b, v, new)
      PROVE  TypeOK'
  BY <1>0, <1>7
     DEF InviteCheck, SendOwner, ActsAsOwner, Send, Goto, Steps, TypeOK
<1>8. ASSUME NEW r \in Requests, NEW b \in Browsers, NEW v \in Users, NEW new \in NewRoles,
             RoleCheck(r, b, v, new)
      PROVE  TypeOK'
  BY <1>0, <1>8
     DEF RoleCheck, SendOwner, ActsAsOwner, Send, Goto, Steps, TypeOK
<1>9. ASSUME NEW r \in Requests, NEW b \in Browsers, NEW v \in Users, RemoveCheck(r, b, v)
      PROVE  TypeOK'
  BY <1>0, <1>9, AnyRoleType
     DEF RemoveCheck, SendOwner, ActsAsOwner, Send, Goto, Steps, TypeOK
<1>10. ASSUME NEW r \in Requests, NEW t \in Tokens, RegisterCommit(r, t) PROVE TypeOK'
  BY <1>0, <1>10
     DEF RegisterCommit, IssueToken, Goto, Steps, Roles, TypeOK
<1>11. ASSUME NEW r \in Requests, NEW t \in Tokens, Issue(r, t) PROVE TypeOK'
  BY <1>0, <1>11
     DEF Issue, IssueToken, Goto, Steps, TypeOK
<1>12. ASSUME NEW r \in Requests, NEW t \in Tokens, RefreshCommit(r, t) PROVE TypeOK'
  BY <1>0, <1>12
     DEF RefreshCommit, IssueToken, Goto, Steps, TypeOK
<1>13. ASSUME NEW r \in Requests, RegisterRefused(r) PROVE TypeOK'
  BY <1>0, <1>13, ForgetType
     DEF RegisterRefused, Refused, TypeOK
<1>14. ASSUME NEW r \in Requests, IssueRefused(r) PROVE TypeOK'
  BY <1>0, <1>14, ForgetType
     DEF IssueRefused, Refused, TypeOK
<1>15. ASSUME NEW r \in Requests, RefreshFails(r) PROVE TypeOK'
  BY <1>0, <1>15, ForgetType
     DEF RefreshFails, SignOut, TypeOK
<1>16. ASSUME NEW r \in Requests, FamilySelect(r) PROVE TypeOK'
  BY <1>0, <1>16
     DEF FamilySelect, Goto, LiveOf, Steps, TypeOK
<1>17. ASSUME NEW r \in Requests, FamilyCommit(r) PROVE TypeOK'
  BY <1>0, <1>17, ForgetType
     DEF FamilyCommit, Revoke, SignOut, TypeOK
<1>18. ASSUME NEW r \in Requests, LogoutCommit(r) PROVE TypeOK'
  BY <1>0, <1>18
     DEF LogoutCommit, Revoke, Goto, Steps, requestVars, TypeOK
<1>19. ASSUME NEW r \in Requests, PasswordSelect(r) PROVE TypeOK'
  BY <1>0, <1>19
     DEF PasswordSelect, Goto, LiveOf, Steps, TypeOK
<1>20. ASSUME NEW r \in Requests, PasswordFails(r) PROVE TypeOK'
  BY <1>0, <1>20, ForgetType
     DEF PasswordFails, Refused, TypeOK
<1>21. ASSUME NEW r \in Requests, PasswordCommit(r) PROVE TypeOK'
  <2>1. who[r] \in Users
    BY <1>0, <1>21 DEF PasswordCommit, TypeOK
  <2>2. /\ password' \in [Users -> Nat] /\ temporary' \in [Users -> BOOLEAN]
        /\ state' \in [Tokens -> {"unused", "live", "revoked", "gone"}]
        /\ UNCHANGED <<role, tenant, of, expired, home, under, raced, jar, signed, muddled>>
    BY <1>0, <1>21, <2>1 DEF PasswordCommit, Revoke, TypeOK
  <2>3. CASE at[r] = "pwCommit"
    <3>1. Forget(r)
      BY <1>21, <2>3 DEF PasswordCommit
    <3> QED BY <1>0, <2>2, <3>1, ForgetType DEF TypeOK
  <2>4. CASE at[r] = "setCommit"
    <3>1. /\ at' = [at EXCEPT ![r] = "issue"] /\ seen' = [seen EXCEPT ![r] = {}]
          /\ knows' = [knows EXCEPT ![r] = password'[who[r]]]
          /\ UNCHANGED <<from, who, target, carried, newRole>>
      BY <1>21, <2>4 DEF PasswordCommit, Goto
    <3>2. knows' \in [Requests -> Nat]
      BY <1>0, <2>1, <2>2, <3>1 DEF TypeOK
    <3> QED BY <1>0, <2>1, <2>2, <2>4, <3>1, <3>2 DEF TypeOK, Steps
  <2> QED BY <1>21, <2>3, <2>4 DEF PasswordCommit
<1>22. ASSUME NEW r \in Requests, InviteCommit(r) PROVE TypeOK'
  <2>1. who[r] \in Users /\ target[r] \in Users /\ Forget(r)
    BY <1>0, <1>22 DEF InviteCommit, TypeOK
  <2>2. /\ role' \in [Users -> Roles \cup {"none", "removed"}]
        /\ tenant' \in [Users -> Users \cup {NoUser}]
        /\ password' \in [Users -> Nat] /\ temporary' \in [Users -> BOOLEAN]
    BY <1>0, <1>22, <2>1 DEF InviteCommit, TypeOK, Roles
  <2> QED BY <1>0, <1>22, <2>1, <2>2, ForgetType DEF InviteCommit, TypeOK
<1>23. ASSUME NEW r \in Requests, InviteRefused(r) PROVE TypeOK'
  BY <1>0, <1>23, ForgetType
     DEF InviteRefused, Refused, TypeOK
<1>24. ASSUME NEW r \in Requests, RoleCommit(r) PROVE TypeOK'
  BY <1>0, <1>24, ForgetType
     DEF RoleCommit, Roles, TypeOK
<1>25. ASSUME NEW r \in Requests, RemoveFlush(r) PROVE TypeOK'
  BY <1>0, <1>25
     DEF RemoveFlush, Goto, Steps, requestVars, TypeOK
<1>26. ASSUME NEW r \in Requests, RemoveFails(r) PROVE TypeOK'
  BY <1>0, <1>26, ForgetType
     DEF RemoveFails, Refused, TypeOK
<1>27. ASSUME NEW r \in Requests, RemoveCommit(r) PROVE TypeOK'
  BY <1>0, <1>27, ForgetType
     DEF RemoveCommit, Roles, TypeOK
<1>28. ASSUME NEW r \in Requests, Deliver(r) PROVE TypeOK'
  BY <1>0, <1>28, ForgetType
     DEF Deliver, SignOut, TypeOK
<1>29. ASSUME NEW r \in Requests, Lose(r) PROVE TypeOK'
  <2>1. from[r] \in Browsers /\ Forget(r)
    BY <1>0, <1>29 DEF Lose, TypeOK
  <2>2. signed' \in [Browsers -> Users \cup {NoUser}] /\ muddled' \subseteq Browsers
    BY <1>0, <1>29, <2>1 DEF Lose, SignOut, TypeOK
  <2> QED BY <1>0, <1>29, <2>1, <2>2, ForgetType DEF Lose, TypeOK
<1>30. ASSUME NEW b \in Browsers, RefreshRefused(b) PROVE TypeOK'
  BY <1>0, <1>30
     DEF RefreshRefused, SignOut, requestVars, TypeOK
<1>31. ASSUME NEW t \in Tokens, Expire(t) PROVE TypeOK'
  BY <1>0, <1>31
     DEF Expire, requestVars, TypeOK
<1>32. CASE UNCHANGED vars
  BY <1>0, <1>32 DEF vars, requestVars, TypeOK
<1> QED
  BY <1>1, <1>2, <1>3, <1>4, <1>5, <1>6, <1>7, <1>8, <1>9, <1>10, <1>11, <1>12, <1>13,
     <1>14, <1>15, <1>16, <1>17, <1>18, <1>19, <1>20, <1>21, <1>22, <1>23, <1>24, <1>25,
     <1>26, <1>27, <1>28, <1>29, <1>30, <1>31, <1>32
     DEF Next, NewRequest, Commit

----------------------------------------------------------------------------
(* Steps that leave the tables alone, and steps that write them              *)

Others(r) ==
    \A q \in Requests : q # r =>
        /\ at'[q] = at[q] /\ who'[q] = who[q] /\ target'[q] = target[q]
        /\ carried'[q] = carried[q] /\ seen'[q] = seen[q]

LEMMA ForgetFits ==
  ASSUME TypeOK, NEW r \in Requests, Forget(r)
  PROVE  Others(r) /\ Fits(r)'
<1>1. Others(r) /\ at'[r] = "idle"
  BY ForgetType DEF Others
<1> QED BY <1>1 DEF Fits, InChange

\* What the tables may do without upsetting a request: an owner stays one, an
\* account does not become one or unknown, a token keeps its account, and a token
\* that is new or valid again belongs to nobody who changes a password.
Steady(r) ==
    /\ \A u \in Users :
          /\ role[u] = "owner" => role'[u] = "owner"
          /\ role[u] \notin {"owner", "none"} => role'[u] \notin {"owner", "none"}
    /\ \A t \in Tokens : state[t] # "unused" => state'[t] # "unused" /\ of'[t] = of[t]
    /\ \A t \in Tokens \ raced' : state'[t] = "live" =>
          \/ t \notin raced /\ state[t] = "live"
          \/ \A q \in Requests : ~(InChange(q) /\ who[q] = of'[t])

LEMMA SteadyFits ==
  ASSUME IInv, NEW r \in Requests, Others(r), Fits(r)', Steady(r)
  PROVE  RequestsFit'
<1> SUFFICES ASSUME NEW q \in Requests, q # r PROVE Fits(q)'
  BY DEF RequestsFit
<1>0. TypeOK /\ Fits(q)
  BY DEF IInv, Core, RequestsFit
<1>1. /\ at'[q] = at[q] /\ who'[q] = who[q] /\ target'[q] = target[q]
      /\ carried'[q] = carried[q] /\ seen'[q] = seen[q]
  BY DEF Others
<1>2. at[q] \in {"role", "remove", "delete"} => role'[target[q]] \notin {"owner", "none"}
  <2>1. at[q] \in {"role", "remove", "delete"} => target[q] \in Users
    BY <1>0 DEF TypeOK
  <2> QED BY <1>0, <2>1 DEF Fits, Steady
<1>3. at[q] = "invite" => role'[who[q]] = "owner"
  <2>1. at[q] = "invite" => who[q] \in Users
    BY <1>0 DEF TypeOK
  <2> QED BY <1>0, <2>1 DEF Fits, Steady
<1>4. at[q] = "refresh" => state'[carried[q]] # "unused" /\ of'[carried[q]] = who[q]
  <2>1. at[q] = "refresh" => carried[q] \in Tokens
    BY <1>0 DEF TypeOK
  <2> QED BY <1>0, <2>1 DEF Fits, Steady
<1>5. ASSUME InChange(q), NEW t \in Tokens \ raced', state'[t] = "live", of'[t] = who[q]
      PROVE  t \in seen[q]
  <2>1. t \notin raced /\ state[t] = "live"
    BY <1>5 DEF Steady
  <2>2. of[t] = who[q]
    BY <1>5, <2>1 DEF Steady
  <2> QED BY <1>0, <1>5, <2>1, <2>2 DEF Fits
<1> QED BY <1>1, <1>2, <1>3, <1>4, <1>5 DEF Fits, InChange

LEMMA TablesStay ==
  ASSUME IInv, UNCHANGED <<accountVars, tokenVars>>,
         (\E r \in Requests : Others(r) /\ Fits(r)') \/ UNCHANGED <<at, who, target, carried, seen>>
  PROVE  Core'
<1>0. Core /\ UNCHANGED <<role, tenant, password, state, of, under, raced>>
  BY DEF IInv, accountVars, tokenVars
<1>1. Teams' /\ IssuedToUsers' /\ SessionsHaveUsers' /\ PasswordChangeEndsSessions'
  BY <1>0 DEF Core, Teams, IssuedToUsers, SessionsHaveUsers, Member, PasswordChangeEndsSessions
<1>2. RequestsFit'
  <2>1. ASSUME NEW r \in Requests, Others(r), Fits(r)' PROVE RequestsFit'
    <3>1. Steady(r)
      BY <1>0 DEF Steady
    <3> QED BY <2>1, <3>1, SteadyFits
  <2>2. CASE UNCHANGED <<at, who, target, carried, seen>>
    BY <1>0, <2>2 DEF Core, RequestsFit, Fits, InChange
  <2> QED BY <2>1, <2>2
<1> QED BY <1>1, <1>2 DEF Core

\* A token is issued to an account that is there: what becomes of the tokens, and of
\* whom.
LEMMA IssueFits ==
  ASSUME IInv, NEW r \in Requests, NEW t \in Tokens, NEW STATE pw, IssueToken(r, t, pw),
         who[r] \in Users, state'[t] = "live",
         \A s \in Tokens : s # t =>
             \/ state'[s] = state[s]
             \/ state'[s] = "revoked" /\ state[s] # "unused" /\ of[s] = who[r],
         Goto(r, "answer") \/ Goto(r, "refreshed"), UNCHANGED <<who, target, seen>>,
         \A u \in Users : u # who[r] => role'[u] = role[u] /\ password'[u] = password[u],
         Member(who[r])', Teams', 
         \/ role[who[r]] = role'[who[r]] /\ password'[who[r]] = password[who[r]]
         \/ role[who[r]] = "none"
  PROVE  Core'
<1> USE UsersAssumption DEF UsersAssumption
<1>0. TypeOK /\ Core
  BY DEF IInv
<1>1. /\ state[t] = "unused"
      /\ of' = [of EXCEPT ![t] = who[r]] /\ under' = [under EXCEPT ![t] = pw]
      /\ carried' = [carried EXCEPT ![r] = t]
      /\ raced \subseteq raced'
      /\ t \notin raced' => /\ pw = password'[who[r]]
                            /\ \A q \in Requests : ~(InChange(q) /\ who[q] = who[r])
      /\ \A s \in Tokens : s # t /\ s \in raced' => s \in raced
  BY DEF IssueToken, InChange
<1>2. /\ of'[t] = who[r] /\ under'[t] = pw /\ state'[t] = "live"
      /\ \A s \in Tokens : s # t =>
            /\ of'[s] = of[s] /\ under'[s] = under[s]
            /\ state'[s] = "live" => state[s] = "live"
            /\ state[s] # "unused" <=> state'[s] # "unused"
            /\ state'[s] \in {"live", "revoked"} =>
                   state[s] \in {"live", "revoked"} \/ of[s] = who[r]
  BY <1>0, <1>1 DEF TypeOK
<1>3. IssuedToUsers'
  BY <1>0, <1>2 DEF Core, IssuedToUsers
<1>4. \A u \in Users : Member(u) => Member(u)' /\ password'[u] = password[u]
  BY DEF Member, Roles
<1>5. SessionsHaveUsers'
  <2> SUFFICES ASSUME NEW s \in Tokens, s # t, state'[s] \in {"live", "revoked"}
               PROVE  role'[of[s]] \in Roles
    BY <1>2 DEF SessionsHaveUsers, Member
  <2>1. CASE of[s] = who[r]
    BY <2>1 DEF Member
  <2>2. CASE of[s] # who[r]
    <3>1. state[s] \in {"live", "revoked"}
      BY <1>2, <2>2
    <3>2. Member(of[s]) /\ of[s] \in Users
      BY <1>0, <3>1 DEF Core, SessionsHaveUsers, IssuedToUsers
    <3> QED BY <1>4, <3>2 DEF Member
  <2> QED BY <2>1, <2>2
<1>6. PasswordChangeEndsSessions'
  <2> SUFFICES ASSUME NEW s \in Tokens \ raced', state'[s] = "live"
               PROVE  under'[s] = password'[of'[s]]
    BY DEF PasswordChangeEndsSessions
  <2>1. CASE s = t
    BY <1>1, <1>2, <2>1
  <2>2. CASE s # t
    <3>1. state[s] = "live" /\ s \notin raced
      BY <1>1, <1>2, <2>2
    <3>2. /\ Member(of[s]) /\ of[s] \in Users
          /\ under[s] = password[of[s]]
      BY <1>0, <3>1 DEF Core, SessionsHaveUsers, IssuedToUsers, PasswordChangeEndsSessions
    <3> QED BY <1>2, <1>4, <2>2, <3>2
  <2> QED BY <2>1, <2>2
<1>7. Others(r) /\ Fits(r)'
  BY <1>0, <1>1 DEF TypeOK, Goto, Others, Fits, InChange
<1>8. Steady(r)
  <2>1. ASSUME NEW u \in Users
        PROVE  /\ role[u] = "owner" => role'[u] = "owner"
               /\ role[u] \notin {"owner", "none"} => role'[u] \notin {"owner", "none"}
    OBVIOUS
  <2>2. \A s \in Tokens : state[s] # "unused" => state'[s] # "unused" /\ of'[s] = of[s]
    BY <1>1, <1>2
  <2>3. \A s \in Tokens \ raced' : state'[s] = "live" =>
           \/ s \notin raced /\ state[s] = "live"
           \/ \A q \in Requests : ~(InChange(q) /\ who[q] = of'[s])
    BY <1>1, <1>2
  <2> QED BY <2>1, <2>2, <2>3 DEF Steady
<1>9. RequestsFit'
  BY <1>7, <1>8, SteadyFits
<1> QED BY <1>3, <1>5, <1>6, <1>9 DEF Core

\* Tokens that were valid are revoked.
LEMMA RevokeFits ==
  ASSUME IInv, NEW r \in Requests, NEW STATE S, Revoke(S),
         UNCHANGED <<role, tenant, password, of, under, raced>>, Others(r), Fits(r)'
  PROVE  Core'
<1>0. TypeOK /\ Core
  BY DEF IInv
<1>1. \A t \in Tokens :
         /\ state'[t] = "live" => state[t] = "live"
         /\ state[t] # "unused" <=> state'[t] # "unused"
         /\ state'[t] \in {"live", "revoked"} => state[t] \in {"live", "revoked"}
  BY <1>0 DEF Revoke
<1>2. Teams' /\ IssuedToUsers'
  BY <1>0, <1>1 DEF Core, Teams, IssuedToUsers
<1>3. SessionsHaveUsers' /\ PasswordChangeEndsSessions'
  BY <1>0, <1>1 DEF Core, SessionsHaveUsers, Member, PasswordChangeEndsSessions
<1>4. Steady(r)
  BY <1>1 DEF Steady
<1>5. RequestsFit'
  BY <1>4, SteadyFits
<1> QED BY <1>2, <1>3, <1>5 DEF Core

LEMMA CoreStep == IInv /\ [Next]_vars => Core'
<1> SUFFICES ASSUME IInv, [Next]_vars PROVE Core'
  OBVIOUS
<1>0. /\ TypeOK /\ Core /\ Teams /\ IssuedToUsers /\ RequestsFit
      /\ SessionsHaveUsers /\ PasswordChangeEndsSessions
  BY DEF IInv, Core
<1> USE UsersAssumption, BrowsersAssumption, NewRolesAssumption, TokensAssumption
    DEF UsersAssumption, BrowsersAssumption, NewRolesAssumption, TokensAssumption
<1>1. ASSUME NEW r \in Requests, NEW b \in Browsers, NEW u \in Users,
             RegisterCheck(r, b, u)
      PROVE  Core'
  <2>1. Others(r) /\ Fits(r)' /\ UNCHANGED <<accountVars, tokenVars>>
    BY <1>0, <1>1
       DEF RegisterCheck, Send, Goto, TypeOK, Others, Fits, InChange
  <2> QED BY <2>1, TablesStay
<1>2. ASSUME NEW r \in Requests, NEW b \in Browsers, NEW u \in Users, LoginCheck(r, b, u)
      PROVE  Core'
  <2>1. Others(r) /\ Fits(r)' /\ UNCHANGED <<accountVars, tokenVars>>
    BY <1>0, <1>2
       DEF LoginCheck, Send, Goto, TypeOK, Others, Fits, InChange
  <2> QED BY <2>1, TablesStay
<1>3. ASSUME NEW r \in Requests, NEW b \in Browsers, RefreshCheck(r, b) PROVE Core'
  <2>1. Others(r) /\ UNCHANGED <<accountVars, tokenVars>>
    BY <1>0, <1>3
       DEF RefreshCheck, Live, Goto, Send, TypeOK, Others
  <2>2. /\ at'[r] = "refresh" /\ carried'[r] = jar[b] /\ who'[r] = of[jar[b]]
        /\ state[jar[b]] = "live"
    BY <1>0, <1>3
       DEF RefreshCheck, Live, Goto, Send, TypeOK
  <2>3. UNCHANGED <<role, state, of, raced>>
    BY <2>1 DEF accountVars, tokenVars
  <2>4. Fits(r)'
    BY <2>2, <2>3 DEF Fits, InChange
  <2> QED BY <2>1, <2>4, TablesStay
<1>4. ASSUME NEW r \in Requests, NEW b \in Browsers, RefreshReused(r, b) PROVE Core'
  <2>1. Others(r) /\ Fits(r)' /\ UNCHANGED <<accountVars, tokenVars>>
    BY <1>0, <1>4
       DEF RefreshReused, Send, Goto, TypeOK, Others, Fits, InChange
  <2> QED BY <2>1, TablesStay
<1>5. ASSUME NEW r \in Requests, NEW b \in Browsers, LogoutCheck(r, b) PROVE Core'
  <2>1. Others(r) /\ Fits(r)' /\ UNCHANGED <<accountVars, tokenVars>>
    BY <1>0, <1>5
       DEF LogoutCheck, Send, Goto, TypeOK, Others, Fits, InChange
  <2> QED BY <2>1, TablesStay
<1>6. ASSUME NEW r \in Requests, NEW b \in Browsers, NEW step \in {"password", "setPassword"},
             PasswordCheck(r, b, step)
      PROVE  Core'
  <2>1. Others(r) /\ Fits(r)' /\ UNCHANGED <<accountVars, tokenVars>>
    BY <1>0, <1>6
       DEF PasswordCheck, Send, Goto, TypeOK, Others, Fits, InChange
  <2> QED BY <2>1, TablesStay
<1>7. ASSUME NEW r \in Requests, NEW b \in Browsers, NEW v \in Users, NEW new \in NewRoles,
             InviteCheck(r, b, v, new)
      PROVE  Core'
  <2>1. Others(r) /\ UNCHANGED <<accountVars, tokenVars>>
    BY <1>0, <1>7
       DEF InviteCheck, SendOwner, ActsAsOwner, Goto, Send, TypeOK, Others
  <2>2. /\ at'[r] = "invite" /\ who'[r] = signed[b]
        /\ role[signed[b]] = "owner"
    BY <1>0, <1>7
       DEF InviteCheck, SendOwner, ActsAsOwner, Goto, Send, TypeOK
  <2>3. UNCHANGED <<role, state, of, raced>>
    BY <2>1 DEF accountVars, tokenVars
  <2>4. Fits(r)'
    BY <2>2, <2>3 DEF Fits, InChange
  <2> QED BY <2>1, <2>4, TablesStay
<1>8. ASSUME NEW r \in Requests, NEW b \in Browsers, NEW v \in Users, NEW new \in NewRoles,
             RoleCheck(r, b, v, new)
      PROVE  Core'
  <2>1. Others(r) /\ UNCHANGED <<accountVars, tokenVars>>
    BY <1>0, <1>8
       DEF RoleCheck, SendOwner, ActsAsOwner, Goto, Send, TypeOK, Others
  <2>2. /\ at'[r] = "role" /\ target'[r] = v
        /\ role[v] \notin {"owner", "none"}
    BY <1>0, <1>8
       DEF RoleCheck, SendOwner, ActsAsOwner, Goto, Send, TypeOK, InTeam, Member, Roles,
           Teams
  <2>3. UNCHANGED <<role, state, of, raced>>
    BY <2>1 DEF accountVars, tokenVars
  <2>4. Fits(r)'
    BY <2>2, <2>3 DEF Fits, InChange
  <2> QED BY <2>1, <2>4, TablesStay
<1>9. ASSUME NEW r \in Requests, NEW b \in Browsers, NEW v \in Users, RemoveCheck(r, b, v)
      PROVE  Core'
  <2>1. Others(r) /\ UNCHANGED <<accountVars, tokenVars>>
    BY <1>0, <1>9
       DEF RemoveCheck, SendOwner, ActsAsOwner, Goto, Send, TypeOK, Others
  <2>2. /\ at'[r] = "remove" /\ target'[r] = v
        /\ role[v] \notin {"owner", "none"}
    BY <1>0, <1>9
       DEF RemoveCheck, SendOwner, ActsAsOwner, Goto, Send, TypeOK, InTeam, Member,
           Roles, Teams
  <2>3. UNCHANGED <<role, state, of, raced>>
    BY <2>1 DEF accountVars, tokenVars
  <2>4. Fits(r)'
    BY <2>2, <2>3 DEF Fits, InChange
  <2> QED BY <2>1, <2>4, TablesStay
<1>10. ASSUME NEW r \in Requests, NEW t \in Tokens, RegisterCommit(r, t) PROVE Core'
  <2>1. who[r] \in Users /\ role[who[r]] = "none"
    BY <1>0, <1>10 DEF RegisterCommit, TypeOK
  <2>2. state'[t] = "live" /\ \A s \in Tokens : s # t => state'[s] = state[s]
    BY <1>0, <1>10 DEF RegisterCommit, TypeOK
  <2>3. Teams'
    BY <1>0, <1>10, <2>1 DEF RegisterCommit, Teams, TypeOK
  <2>4. /\ \A u \in Users : u # who[r] => role'[u] = role[u] /\ password'[u] = password[u]
        /\ Member(who[r])'
    BY <1>0, <1>10, <2>1 DEF RegisterCommit, Member, Roles, TypeOK
  <2> QED BY <1>10, <2>1, <2>2, <2>3, <2>4, IssueFits DEF RegisterCommit
<1>11. ASSUME NEW r \in Requests, NEW t \in Tokens, Issue(r, t) PROVE Core'
  <2>1. who[r] \in Users /\ UNCHANGED <<role, tenant, password>>
    BY <1>0, <1>11 DEF Issue, accountVars, TypeOK
  <2>2. state'[t] = "live" /\ \A s \in Tokens : s # t => state'[s] = state[s]
    BY <1>0, <1>11 DEF Issue, TypeOK
  <2>3. Teams' /\ Member(who[r])'
    BY <1>0, <1>11, <2>1 DEF Issue, Teams, Member
  <2> QED BY <1>11, <2>1, <2>2, <2>3, IssueFits DEF Issue
<1>12. ASSUME NEW r \in Requests, NEW t \in Tokens, RefreshCommit(r, t) PROVE Core'
  <2>1. /\ who[r] \in Users /\ UNCHANGED <<role, tenant, password>>
        /\ carried[r] \in Tokens /\ state[carried[r]] # "unused" /\ of[carried[r]] = who[r]
    BY <1>0, <1>12 DEF RefreshCommit, accountVars, TypeOK, RequestsFit, Fits
  <2>2. /\ state'[t] = "live"
        /\ \A s \in Tokens : s # t =>
              \/ state'[s] = state[s]
              \/ state'[s] = "revoked" /\ state[s] # "unused" /\ of[s] = who[r]
    BY <1>0, <1>12, <2>1 DEF RefreshCommit, TypeOK
  <2>3. Teams' /\ Member(who[r])'
    BY <1>0, <1>12, <2>1 DEF RefreshCommit, Teams, Member
  <2> QED BY <1>12, <2>1, <2>2, <2>3, IssueFits DEF RefreshCommit
<1>13. ASSUME NEW r \in Requests, RegisterRefused(r) PROVE Core'
  <2>1. Forget(r) /\ UNCHANGED <<accountVars, tokenVars>>
    BY <1>13 DEF RegisterRefused, Refused
  <2> QED BY <1>0, <2>1, ForgetFits, TablesStay
<1>14. ASSUME NEW r \in Requests, IssueRefused(r) PROVE Core'
  <2>1. Forget(r) /\ UNCHANGED <<accountVars, tokenVars>>
    BY <1>14 DEF IssueRefused, Refused
  <2> QED BY <1>0, <2>1, ForgetFits, TablesStay
<1>15. ASSUME NEW r \in Requests, RefreshFails(r) PROVE Core'
  <2>1. Forget(r) /\ UNCHANGED <<accountVars, tokenVars>>
    BY <1>15 DEF RefreshFails
  <2> QED BY <1>0, <2>1, ForgetFits, TablesStay
<1>16. ASSUME NEW r \in Requests, FamilySelect(r) PROVE Core'
  <2>1. Others(r) /\ Fits(r)' /\ UNCHANGED <<accountVars, tokenVars>>
    BY <1>0, <1>16
       DEF FamilySelect, Goto, TypeOK, Others, Fits, InChange
  <2> QED BY <2>1, TablesStay
<1>17. ASSUME NEW r \in Requests, FamilyCommit(r) PROVE Core'
  <2>1. /\ Forget(r) /\ Revoke(seen[r])
        /\ UNCHANGED <<role, tenant, password, of, under, raced>>
    BY <1>17 DEF FamilyCommit, accountVars
  <2> QED BY <1>0, <2>1, ForgetFits, RevokeFits
<1>18. ASSUME NEW r \in Requests, LogoutCommit(r) PROVE Core'
  <2>1. /\ Revoke({carried[r]}) /\ at' = [at EXCEPT ![r] = "cleared"]
        /\ UNCHANGED <<role, tenant, password, of, under, raced, who, target, carried, seen>>
    BY <1>18 DEF LogoutCommit, Goto, accountVars, requestVars
  <2>2. Others(r) /\ Fits(r)'
    BY <1>0, <2>1 DEF TypeOK, Others, Fits, InChange
  <2> QED BY <2>1, <2>2, RevokeFits
<1>19. ASSUME NEW r \in Requests, PasswordSelect(r) PROVE Core'
  <2>1. Others(r) /\ UNCHANGED <<accountVars, tokenVars>>
    BY <1>0, <1>19
       DEF PasswordSelect, LiveOf, Goto, TypeOK, Others
  <2>2. /\ at'[r] \in {"pwCommit", "setCommit"} /\ who'[r] = who[r]
        /\ seen'[r] = {t \in Tokens : state[t] = "live" /\ of[t] = who[r]}
    BY <1>0, <1>19
       DEF PasswordSelect, LiveOf, Goto, TypeOK
  <2>3. UNCHANGED <<role, state, of, raced>>
    BY <2>1 DEF accountVars, tokenVars
  <2>4. Fits(r)'
    BY <2>2, <2>3 DEF Fits, InChange
  <2> QED BY <2>1, <2>4, TablesStay
<1>20. ASSUME NEW r \in Requests, PasswordFails(r) PROVE Core'
  <2>1. Forget(r) /\ UNCHANGED <<accountVars, tokenVars>>
    BY <1>20 DEF PasswordFails, Refused
  <2> QED BY <1>0, <2>1, ForgetFits, TablesStay
<1>21. ASSUME NEW r \in Requests, PasswordCommit(r) PROVE Core'
  <2>1. /\ who[r] \in Users /\ InChange(r)
        /\ password' = [password EXCEPT ![who[r]] = @ + 1] /\ Revoke(seen[r])
        /\ UNCHANGED <<role, tenant, of, under, raced>>
    BY <1>0, <1>21 DEF PasswordCommit, TypeOK, InChange
  <2>2. \A t \in Tokens :
           /\ state'[t] = "live" => state[t] = "live" /\ t \notin seen[r]
           /\ state[t] # "unused" <=> state'[t] # "unused"
           /\ state'[t] \in {"live", "revoked"} => state[t] \in {"live", "revoked"}
    BY <1>0, <2>1 DEF Revoke
  <2>3. Others(r) /\ Fits(r)'
    <3>1. CASE Forget(r)
      BY <1>0, <3>1, ForgetFits
    <3>2. CASE /\ at' = [at EXCEPT ![r] = "issue"] /\ seen' = [seen EXCEPT ![r] = {}]
               /\ UNCHANGED <<who, target, carried>>
      BY <1>0, <3>2 DEF TypeOK, Others, Fits, InChange
    <3> QED BY <1>21, <3>1, <3>2 DEF PasswordCommit, Goto
  <2>4. Steady(r)
    BY <2>1, <2>2 DEF Steady
  <2>5. Teams' /\ IssuedToUsers' /\ SessionsHaveUsers'
    BY <1>0, <2>1, <2>2 DEF Teams, IssuedToUsers, SessionsHaveUsers, Member
  <2>6. PasswordChangeEndsSessions'
    <3> SUFFICES ASSUME NEW t \in Tokens \ raced, state'[t] = "live"
                 PROVE  under[t] = password'[of[t]]
      BY <2>1 DEF PasswordChangeEndsSessions
    <3>1. state[t] = "live" /\ t \notin seen[r]
      BY <2>2
    <3>2. of[t] # who[r]
      BY <1>0, <2>1, <3>1 DEF RequestsFit, Fits
    <3>3. password'[of[t]] = password[of[t]]
      BY <1>0, <2>1, <3>1, <3>2 DEF TypeOK, IssuedToUsers
    <3> QED BY <1>0, <3>1, <3>3 DEF PasswordChangeEndsSessions
  <2>7. RequestsFit'
    BY <2>3, <2>4, SteadyFits
  <2> QED BY <2>5, <2>6, <2>7 DEF Core
<1>22. ASSUME NEW r \in Requests, InviteCommit(r) PROVE Core'
  <2> DEFINE v == target[r]
  <2>1. /\ v \in Users /\ who[r] \in Users /\ newRole[r] \in {"editor", "viewer"}
        /\ role[who[r]] = "owner" /\ role[v] = "none" /\ Forget(r)
        /\ role' = [role EXCEPT ![v] = newRole[r]]
        /\ tenant' = [tenant EXCEPT ![v] = tenant[who[r]]]
        /\ password' = [password EXCEPT ![v] = 1]
        /\ UNCHANGED <<state, of, under, raced>>
    BY <1>0, <1>22 DEF InviteCommit, TypeOK, RequestsFit, Fits, tokenVars
  <2> HIDE DEF v
  <2>2. Teams'
    <3>1. tenant[who[r]] = who[r] /\ tenant[v] # v /\ who[r] # v
      BY <1>0, <2>1 DEF Teams
    <3> QED BY <1>0, <2>1, <3>1 DEF Teams, TypeOK
  <2>3. \A u \in Users : Member(u) => u # v /\ Member(u)' /\ password'[u] = password[u]
    BY <1>0, <2>1 DEF Member, Roles, TypeOK
  <2>4. IssuedToUsers' /\ SessionsHaveUsers' /\ PasswordChangeEndsSessions'
    <3>1. IssuedToUsers'
      BY <1>0, <2>1 DEF IssuedToUsers
    <3>2. \A t \in Tokens : state[t] \in {"live", "revoked"} => Member(of[t]) /\ of[t] \in Users
      BY <1>0 DEF SessionsHaveUsers, IssuedToUsers
    <3>3. SessionsHaveUsers'
      BY <2>1, <2>3, <3>2 DEF SessionsHaveUsers, Member
    <3>4. PasswordChangeEndsSessions'
      BY <1>0, <2>1, <2>3, <3>2 DEF PasswordChangeEndsSessions
    <3> QED BY <3>1, <3>3, <3>4
  <2>5. Steady(r)
    BY <1>0, <2>1 DEF Steady, TypeOK
  <2>6. RequestsFit'
    BY <1>0, <2>1, <2>5, ForgetFits, SteadyFits
  <2> QED BY <2>2, <2>4, <2>6 DEF Core
<1>23. ASSUME NEW r \in Requests, InviteRefused(r) PROVE Core'
  <2>1. Forget(r) /\ UNCHANGED <<accountVars, tokenVars>>
    BY <1>23 DEF InviteRefused, Refused
  <2> QED BY <1>0, <2>1, ForgetFits, TablesStay
<1>24. ASSUME NEW r \in Requests, RoleCommit(r) PROVE Core'
  <2> DEFINE v == target[r]
  <2>1. /\ v \in Users /\ newRole[r] \in {"editor", "viewer"}
        /\ role[v] \notin {"owner", "none"} /\ Forget(r)
        /\ role' = [role EXCEPT ![v] = newRole[r]]
        /\ UNCHANGED <<tenant, password, state, of, under, raced>>
    BY <1>0, <1>24 DEF RoleCommit, TypeOK, RequestsFit, Fits, tokenVars
  <2> HIDE DEF v
  <2>2. Teams' /\ IssuedToUsers' /\ PasswordChangeEndsSessions' /\ Steady(r)
    BY <1>0, <2>1 DEF Teams, IssuedToUsers, PasswordChangeEndsSessions, Steady, TypeOK
  <2>3. \A u \in Users : Member(u) => Member(u)'
    BY <1>0, <2>1 DEF Member, Roles, TypeOK
  <2>4. SessionsHaveUsers'
    <3>1. \A t \in Tokens : state[t] \in {"live", "revoked"} => Member(of[t]) /\ of[t] \in Users
      BY <1>0 DEF SessionsHaveUsers, IssuedToUsers
    <3> QED BY <2>1, <2>3, <3>1 DEF SessionsHaveUsers, Member
  <2>5. RequestsFit'
    BY <1>0, <2>1, <2>2, ForgetFits, SteadyFits
  <2> QED BY <2>2, <2>4, <2>5 DEF Core
<1>25. ASSUME NEW r \in Requests, RemoveFlush(r) PROVE Core'
  <2>1. Others(r) /\ UNCHANGED <<accountVars, tokenVars>>
    BY <1>0, <1>25
       DEF RemoveFlush, requestVars, Goto, TypeOK, Others
  <2>2. /\ at'[r] = "delete" /\ target'[r] = target[r]
        /\ role[target[r]] \notin {"owner", "none"}
    BY <1>0, <1>25
       DEF RemoveFlush, requestVars, Goto, TypeOK, RequestsFit, Fits
  <2>3. UNCHANGED <<role, state, of, raced>>
    BY <2>1 DEF accountVars, tokenVars
  <2>4. Fits(r)'
    BY <2>2, <2>3 DEF Fits, InChange
  <2> QED BY <2>1, <2>4, TablesStay
<1>26. ASSUME NEW r \in Requests, RemoveFails(r) PROVE Core'
  <2>1. Forget(r) /\ UNCHANGED <<accountVars, tokenVars>>
    BY <1>26 DEF RemoveFails, Refused
  <2> QED BY <1>0, <2>1, ForgetFits, TablesStay
<1>27. ASSUME NEW r \in Requests, RemoveCommit(r) PROVE Core'
  <2> DEFINE v == target[r]
  <2>1. /\ v \in Users /\ role[v] \notin {"owner", "none"} /\ Forget(r)
        /\ role' = [role EXCEPT ![v] = "removed"]
        /\ state' = [t \in Tokens |-> IF of[t] = v THEN "gone" ELSE state[t]]
        /\ UNCHANGED <<tenant, password, of, under, raced>>
    BY <1>0, <1>27 DEF RemoveCommit, TypeOK, RequestsFit, Fits
  <2> HIDE DEF v
  <2>2. Teams' /\ PasswordChangeEndsSessions'
    BY <1>0, <2>1 DEF Teams, PasswordChangeEndsSessions, TypeOK
  <2>3. IssuedToUsers' /\ Steady(r)
    BY <1>0, <2>1 DEF IssuedToUsers, Steady, TypeOK
  <2>4. SessionsHaveUsers'
    <3>1. \A t \in Tokens : state'[t] \in {"live", "revoked"} =>
             of[t] # v /\ of[t] \in Users /\ Member(of[t])
      BY <1>0, <2>1 DEF SessionsHaveUsers, IssuedToUsers
    <3>2. \A u \in Users : u # v /\ Member(u) => Member(u)'
      BY <1>0, <2>1 DEF Member, TypeOK
    <3> QED BY <2>1, <3>1, <3>2 DEF SessionsHaveUsers, Member
  <2>5. RequestsFit'
    BY <1>0, <2>1, <2>3, ForgetFits, SteadyFits
  <2> QED BY <2>2, <2>3, <2>4, <2>5 DEF Core
<1>28. ASSUME NEW r \in Requests, Deliver(r) PROVE Core'
  <2>1. Forget(r) /\ UNCHANGED <<accountVars, tokenVars>>
    BY <1>28 DEF Deliver
  <2> QED BY <1>0, <2>1, ForgetFits, TablesStay
<1>29. ASSUME NEW r \in Requests, Lose(r) PROVE Core'
  <2>1. Forget(r) /\ UNCHANGED <<accountVars, tokenVars>>
    BY <1>29 DEF Lose
  <2> QED BY <1>0, <2>1, ForgetFits, TablesStay
<1>30. ASSUME NEW b \in Browsers, RefreshRefused(b) PROVE Core'
  <2>1. UNCHANGED <<accountVars, tokenVars>> /\ UNCHANGED <<at, who, target, carried, seen>>
    BY <1>30 DEF RefreshRefused, requestVars
  <2> QED BY <2>1, TablesStay
<1>31. ASSUME NEW t \in Tokens, Expire(t) PROVE Core'
  <2>1. UNCHANGED <<role, tenant, password, state, of, under, raced, at, who, target,
                    carried, seen>>
    BY <1>31 DEF Expire, accountVars, requestVars
  <2> QED BY <1>0, <2>1 DEF Core, Teams, IssuedToUsers, RequestsFit, Fits, InChange,
             SessionsHaveUsers, Member, PasswordChangeEndsSessions
<1>32. CASE UNCHANGED vars
  BY <1>32, TablesStay DEF vars, requestVars
<1> QED
  BY <1>1, <1>2, <1>3, <1>4, <1>5, <1>6, <1>7, <1>8, <1>9, <1>10, <1>11, <1>12, <1>13,
     <1>14, <1>15, <1>16, <1>17, <1>18, <1>19, <1>20, <1>21, <1>22, <1>23, <1>24, <1>25,
     <1>26, <1>27, <1>28, <1>29, <1>30, <1>31, <1>32
     DEF Next, NewRequest, Commit

----------------------------------------------------------------------------
(* Theorems                                                                  *)

LEMMA Inductive == Spec => []IInv
<1>1. IInv /\ [Next]_vars => IInv'
  BY TypeStep, CoreStep DEF IInv
<1> QED BY IInvInit, <1>1, PTL DEF Spec

\* The tables, the browsers and the requests keep their types.
THEOREM SessionsTypeCorrect == Spec => []TypeOK
<1>1. IInv => TypeOK
  BY DEF IInv
<1> QED BY Inductive, <1>1, PTL

\* No order of invitations, role changes and removals leaves a tenant without its
\* owner or with a second one.
THEOREM OneOwnerAlways == Spec => []OneOwner
<1>1. IInv => OneOwner
  <2> SUFFICES ASSUME IInv, NEW u \in Users, tenant[u] # NoUser
               PROVE  {v \in Users : tenant[v] = tenant[u] /\ role[v] = "owner"} = {tenant[u]}
    BY DEF OneOwner
  <2>1. tenant[u] \in Users /\ tenant[tenant[u]] = tenant[u] /\ role[tenant[u]] = "owner"
    BY DEF IInv, TypeOK, Core, Teams
  <2>2. \A v \in Users : tenant[v] = tenant[u] /\ role[v] = "owner" => v = tenant[u]
    BY DEF IInv, Core, Teams
  <2> QED BY <2>1, <2>2
<1> QED BY Inductive, <1>1, PTL

\* A session that outlives the change of its password was being issued while
\* update_profile ran.
THEOREM PasswordChangeEndsAllSessions == Spec => []PasswordChangeEndsSessions
<1>1. IInv => PasswordChangeEndsSessions
  BY DEF IInv, Core
<1> QED BY Inductive, <1>1, PTL

\* The foreign key leaves no session of an account that remove_user has removed.
THEOREM SessionsAlwaysHaveUsers == Spec => []SessionsHaveUsers
<1>1. IInv => SessionsHaveUsers
  BY DEF IInv, Core
<1> QED BY Inductive, <1>1, PTL

----------------------------------------------------------------------------
(* What a browser knows of its session                                       *)

\* The valid sessions that were issued to b.
Own(b) == {t \in Tokens : Live(t) /\ home[t] = b}

\* They are the one in the jar, of the user who is signed in.
JarTells(b) == \A t \in Own(b) : t = jar[b] /\ of[t] = signed[b]

\* While b's request r is under way: there is none, or the one r answers with, or
\* still the one in the jar, which r goes by.
RequestTells(b, r) ==
    CASE at[r] \in {"register", "login", "family", "revokeFamily", "issue", "cleared"} ->
            Own(b) = {}
      [] at[r] \in {"answer", "refreshed"} ->
            \A t \in Own(b) : t = carried[r] /\ of[t] = who[r]
      [] OTHER ->
            /\ JarTells(b)
            /\ at[r] \in {"refresh", "revoke"} => carried[r] = jar[b]
            /\ at[r] \in {"password", "setPassword"} =>
                  \A t \in Own(b) : of[t] = who[r]
            /\ InChange(r) => Own(b) \subseteq seen[r]

Tracks(b) ==
    /\ \A r, q \in UnderWay(b) : r = q
    /\ UnderWay(b) = {} => JarTells(b)
    /\ \A r \in UnderWay(b) : RequestTells(b, r)

BrowsersTrack == \A b \in Browsers \ muddled : Tracks(b)

\* Nothing but b's own session could become valid.
Quiet(b) ==
    /\ Own(b)' \subseteq Own(b)
    /\ \A t \in Own(b) : of'[t] = of[t]
    /\ jar'[b] = jar[b] /\ signed'[b] = signed[b]

SameRequest(q) ==
    /\ at'[q] = at[q] /\ from'[q] = from[q] /\ who'[q] = who[q]
    /\ carried'[q] = carried[q] /\ seen'[q] = seen[q]

LEMMA JarStillTells ==
  ASSUME NEW b \in Browsers, Quiet(b), JarTells(b)
  PROVE  JarTells(b)'
  BY DEF Quiet, JarTells

LEMMA RequestStillTells ==
  ASSUME NEW b \in Browsers, NEW q \in Requests, Quiet(b), SameRequest(q),
         RequestTells(b, q)
  PROVE  RequestTells(b, q)'
<1>1. JarTells(b) => JarTells(b)'
  BY JarStillTells
<1>2. CASE at[q] \in {"register", "login", "family", "revokeFamily", "issue", "cleared"}
  BY <1>2 DEF RequestTells, Quiet, SameRequest
<1>3. CASE at[q] \in {"answer", "refreshed"}
  BY <1>3 DEF RequestTells, Quiet, SameRequest
<1>4. CASE at[q] \notin {"register", "login", "family", "revokeFamily", "issue", "cleared",
                        "answer", "refreshed"}
  <2>1. /\ JarTells(b)
        /\ at[q] \in {"refresh", "revoke"} => carried[q] = jar[b]
        /\ at[q] \in {"password", "setPassword"} => \A t \in Own(b) : of[t] = who[q]
        /\ InChange(q) => Own(b) \subseteq seen[q]
    BY <1>4 DEF RequestTells
  <2> QED BY <1>1, <1>4, <2>1 DEF RequestTells, Quiet, SameRequest, InChange
<1> QED BY <1>2, <1>3, <1>4

\* A browser none of whose requests takes a step.
LEMMA AwayTracks ==
  ASSUME NEW b \in Browsers, Tracks(b), Quiet(b),
         \A q \in Requests :
             SameRequest(q) \/ (q \notin UnderWay(b) /\ q \notin UnderWay(b)')
  PROVE  Tracks(b)'
<1>1. UnderWay(b)' = UnderWay(b)
  BY DEF UnderWay, SameRequest
<1>2. \A q \in UnderWay(b) : q \in Requests /\ SameRequest(q)
  BY DEF UnderWay, SameRequest
<1> QED BY <1>1, <1>2, JarStillTells, RequestStillTells DEF Tracks

\* A step of a request, for its own browser and for the others.
LEMMA StepTracks ==
  ASSUME BrowsersTrack, NEW r \in Requests, at[r] # "idle", from[r] \in Browsers,
         \A q \in Requests \ {r} : SameRequest(q),
         \A b \in Browsers \ {from[r]} : Quiet(b),
         muddled \subseteq muddled', at'[r] = "idle" \/ from'[r] = from[r],
         \A b \in Browsers : b = from[r] /\ b \notin muddled' /\ RequestTells(b, r) =>
             IF at'[r] = "idle" THEN JarTells(b)' ELSE RequestTells(b, r)'
  PROVE  BrowsersTrack'
<1> SUFFICES ASSUME NEW b \in Browsers, b \notin muddled' PROVE Tracks(b)'
  BY DEF BrowsersTrack
<1>1. Tracks(b)
  BY DEF BrowsersTrack
<1>2. CASE b # from[r]
  <2>1. r \notin UnderWay(b) /\ r \notin UnderWay(b)'
    BY <1>2 DEF UnderWay
  <2> QED BY <1>1, <1>2, <2>1, AwayTracks
<1>3. CASE b = from[r]
  <2>1. UnderWay(b) = {r}
    BY <1>1, <1>3 DEF Tracks, UnderWay
  <2>2. UnderWay(b)' = IF at'[r] = "idle" THEN {} ELSE {r}
    BY <1>3, <2>1 DEF UnderWay, SameRequest
  <2>3. RequestTells(b, r)
    BY <1>1, <2>1 DEF Tracks
  <2>4. IF at'[r] = "idle" THEN JarTells(b)' ELSE RequestTells(b, r)'
    BY <1>3, <2>3
  <2> QED BY <2>2, <2>4 DEF Tracks
<1> QED BY <1>2, <1>3

\* A request that is sent.
LEMMA SendTracks ==
  ASSUME TypeOK, BrowsersTrack, NEW r \in Requests, NEW b \in Browsers, NEW STATE u,
         NEW STATE step, step # "idle", Send(r, b, u, step),
         UNCHANGED <<tokenVars, browserVars>>,
         \A q \in Requests \ {r} : carried'[q] = carried[q] /\ seen'[q] = seen[q],
         JarTells(b) => RequestTells(b, r)'
  PROVE  BrowsersTrack'
<1> SUFFICES ASSUME NEW c \in Browsers, c \notin muddled' PROVE Tracks(c)'
  BY DEF BrowsersTrack
<1>1. /\ \A q \in Requests \ {r} : SameRequest(q)
      /\ at[r] = "idle" /\ at'[r] = step /\ from'[r] = b
      /\ muddled' = IF UnderWay(b) = {} THEN muddled ELSE muddled \cup {b}
  BY DEF Send, Goto, SameRequest, TypeOK
<1>2. Tracks(c) /\ Quiet(c)
  BY <1>1 DEF BrowsersTrack, Quiet, Own, Live, tokenVars, browserVars
<1>3. CASE c # b
  <2>1. r \notin UnderWay(c) /\ r \notin UnderWay(c)'
    BY <1>1, <1>3 DEF UnderWay
  <2> QED BY <1>1, <1>2, <2>1, AwayTracks
<1>4. CASE c = b
  <2>1. UnderWay(b) = {}
    BY <1>1, <1>4
  <2>2. UnderWay(b)' = {r}
    BY <1>1, <2>1 DEF UnderWay, SameRequest
  <2>3. RequestTells(b, r)'
    BY <1>2, <1>4, <2>1 DEF Tracks
  <2> QED BY <1>4, <2>2, <2>3 DEF Tracks
<1> QED BY <1>3, <1>4

LEMMA SignedOffOwnsNothing ==
  ASSUME IInv, NEW b \in Browsers, JarTells(b), signed[b] = NoUser
  PROVE  Own(b) = {}
  BY UsersAssumption DEF UsersAssumption, IInv, Core, IssuedToUsers, JarTells, Own, Live

\* Requests that are sent.
LEMMA RequestsTrack ==
  ASSUME IInv, BrowsersTrack, NEW r \in Requests, NEW b \in Browsers, NewRequest(r, b)
  PROVE  BrowsersTrack'
<1>0. TypeOK
  BY DEF IInv
<1>1. ASSUME NEW u \in Users, RegisterCheck(r, b, u) \/ LoginCheck(r, b, u)
      PROVE  BrowsersTrack'
  <2>1. /\ signed[b] = NoUser
        /\ Send(r, b, u, "register") \/ Send(r, b, u, "login")
        /\ UNCHANGED <<tokenVars, browserVars, carried, seen>>
    BY <1>1 DEF RegisterCheck, LoginCheck
  <2>2. at'[r] \in {"register", "login"} /\ Own(b)' = Own(b)
    BY <1>0, <2>1 DEF Send, Goto, TypeOK, Own, Live, tokenVars
  <2>3. JarTells(b) => RequestTells(b, r)'
    BY <2>1, <2>2, SignedOffOwnsNothing DEF RequestTells
  <2> QED BY <1>0, <2>1, <2>3, SendTracks
<1>2. CASE RefreshCheck(r, b)
  <2>1. /\ Send(r, b, of[jar[b]], "refresh")
        /\ carried' = [carried EXCEPT ![r] = jar[b]]
        /\ UNCHANGED <<tokenVars, browserVars, seen>>
    BY <1>2 DEF RefreshCheck
  <2>2. /\ at'[r] = "refresh" /\ carried'[r] = jar'[b]
        /\ JarTells(b) => JarTells(b)'
    BY <1>0, <2>1 DEF Send, Goto, TypeOK, JarTells, Own, Live, tokenVars, browserVars
  <2>3. JarTells(b) => RequestTells(b, r)'
    BY <2>2 DEF RequestTells, InChange
  <2>4. \A q \in Requests \ {r} : carried'[q] = carried[q] /\ seen'[q] = seen[q]
    BY <1>0, <2>1 DEF TypeOK
  <2> QED BY <1>0, <2>1, <2>3, <2>4, SendTracks
<1>3. CASE RefreshReused(r, b)
  <2>1. /\ state[jar[b]] = "revoked" /\ Send(r, b, of[jar[b]], "family")
        /\ UNCHANGED <<tokenVars, browserVars, carried, seen>>
    BY <1>3 DEF RefreshReused
  <2>2. at'[r] = "family" /\ Own(b)' = Own(b)
    BY <1>0, <2>1 DEF Send, Goto, TypeOK, Own, Live, tokenVars
  <2>3. JarTells(b) => Own(b) = {}
    BY <2>1 DEF JarTells, Own, Live
  <2>4. JarTells(b) => RequestTells(b, r)'
    BY <2>2, <2>3 DEF RequestTells
  <2> QED BY <1>0, <2>1, <2>4, SendTracks
<1>4. CASE LogoutCheck(r, b)
  <2> DEFINE found == jar[b] # NoToken /\ Live(jar[b])
             step == IF found THEN "revoke" ELSE "cleared"
  <2>1. /\ Send(r, b, signed[b], step)
        /\ carried' = [carried EXCEPT ![r] = jar[b]]
        /\ UNCHANGED <<tokenVars, browserVars, seen>>
    BY <1>4 DEF LogoutCheck
  <2>2. /\ at'[r] = step /\ carried'[r] = jar'[b] /\ Own(b)' = Own(b)
        /\ JarTells(b) => JarTells(b)'
    BY <1>0, <2>1 DEF Send, Goto, TypeOK, JarTells, Own, Live, tokenVars, browserVars
  <2>3. ~found /\ JarTells(b) => Own(b) = {}
    BY TokensAssumption DEF TokensAssumption, JarTells, Own
  <2> HIDE DEF found
  <2>4. JarTells(b) => RequestTells(b, r)'
    BY <2>2, <2>3 DEF RequestTells, InChange
  <2>5. \A q \in Requests \ {r} : carried'[q] = carried[q] /\ seen'[q] = seen[q]
    BY <1>0, <2>1 DEF TypeOK
  <2>6. step # "idle"
    OBVIOUS
  <2> HIDE DEF step
  <2> QED BY <1>0, <2>1, <2>4, <2>5, <2>6, SendTracks
<1>5. ASSUME NEW step \in {"password", "setPassword"}, PasswordCheck(r, b, step)
      PROVE  BrowsersTrack'
  <2>1. /\ Send(r, b, signed[b], step)
        /\ UNCHANGED <<tokenVars, browserVars, carried, seen>>
    BY <1>5 DEF PasswordCheck
  <2>2. /\ at'[r] = step /\ who'[r] = signed'[b]
        /\ JarTells(b) => JarTells(b)'
    BY <1>0, <2>1 DEF Send, Goto, TypeOK, JarTells, Own, Live, tokenVars, browserVars
  <2>3. JarTells(b) => RequestTells(b, r)'
    BY <2>2 DEF RequestTells, InChange, JarTells
  <2> QED BY <1>0, <2>1, <2>3, SendTracks
<1>6. ASSUME NEW v \in Users, NEW new \in NewRoles,
             InviteCheck(r, b, v, new) \/ RoleCheck(r, b, v, new) \/ RemoveCheck(r, b, v)
      PROVE  BrowsersTrack'
  <2>1. PICK step \in {"invite", "role", "remove"} :
           /\ Send(r, b, signed[b], step)
           /\ UNCHANGED <<tokenVars, browserVars, carried, seen>>
    BY <1>6 DEF InviteCheck, RoleCheck, RemoveCheck, SendOwner
  <2>2. at'[r] = step /\ (JarTells(b) => JarTells(b)')
    BY <1>0, <2>1 DEF Send, Goto, TypeOK, JarTells, Own, Live, tokenVars, browserVars
  <2>3. JarTells(b) => RequestTells(b, r)'
    BY <2>2 DEF RequestTells, InChange
  <2> QED BY <1>0, <2>1, <2>3, SendTracks
<1> QED BY <1>1, <1>2, <1>3, <1>4, <1>5, <1>6, NewRolesAssumption
        DEF NewRequest, NewRolesAssumption

\* No session becomes valid, and no token changes hands.
Fewer ==
    /\ UNCHANGED <<of, home>> /\ expired \subseteq expired'
    /\ \A t \in Tokens : state'[t] = "live" => state[t] = "live"

LEMMA FewerOwn ==
  ASSUME Fewer, NEW b \in Browsers
  PROVE  /\ Own(b)' \subseteq Own(b) /\ \A t \in Own(b) : of'[t] = of[t]
         /\ UNCHANGED <<jar[b], signed[b]>> => Quiet(b)
  BY DEF Fewer, Own, Live, Quiet

\* A request that ends without an answer for its browser to take.
LEMMA ForgetTracks ==
  ASSUME TypeOK, BrowsersTrack, NEW r \in Requests,
         at[r] \notin {"idle", "answer", "refreshed"},
         Forget(r), UNCHANGED <<jar, signed, muddled>>, Fewer
  PROVE  BrowsersTrack'
<1>1. \A b \in Browsers : Quiet(b)
  BY FewerOwn
<1>2. /\ at'[r] = "idle" /\ from[r] \in Browsers
      /\ \A q \in Requests \ {r} : SameRequest(q)
  BY DEF Forget, Goto, TypeOK, SameRequest
<1>3. \A b \in Browsers : RequestTells(b, r) => JarTells(b)
  BY DEF RequestTells, JarTells
<1>4. \A b \in Browsers : RequestTells(b, r) => JarTells(b)'
  BY <1>1, <1>3, JarStillTells
<1> QED BY <1>1, <1>2, <1>4, StepTracks

\* A request that goes on.
LEMMA GoesOnTracks ==
  ASSUME TypeOK, BrowsersTrack, NEW r \in Requests, NEW CONSTANT step,
         at[r] # "idle", step # "idle", Goto(r, step),
         UNCHANGED <<jar, signed, muddled, from, who, carried>>, Fewer,
         \A q \in Requests \ {r} : seen'[q] = seen[q],
         \A b \in Browsers : b = from[r] /\ RequestTells(b, r) => RequestTells(b, r)'
  PROVE  BrowsersTrack'
<1>1. \A b \in Browsers : Quiet(b)
  BY FewerOwn
<1>2. /\ at'[r] = step /\ from[r] \in Browsers
      /\ \A q \in Requests \ {r} : SameRequest(q)
  BY DEF Goto, TypeOK, SameRequest
<1> QED BY <1>1, <1>2, StepTracks

\* A token that is issued is the only one its browser has.
LEMMA IssueTracks ==
  ASSUME IInv, BrowsersTrack, NEW r \in Requests, NEW t \in Tokens, NEW STATE pw,
         IssueToken(r, t, pw), at[r] \in {"register", "login", "issue", "refresh"},
         Goto(r, "answer") \/ Goto(r, "refreshed"),
         UNCHANGED <<expired, browserVars, from, who, seen, muddled>>,
         \A s \in Tokens : s # t /\ state'[s] = "live" =>
             state[s] = "live" /\ (at[r] = "refresh" => s # carried[r])
  PROVE  BrowsersTrack'
<1>0. TypeOK
  BY DEF IInv
<1>1. /\ of' = [of EXCEPT ![t] = who[r]] /\ home' = [home EXCEPT ![t] = from[r]]
      /\ carried' = [carried EXCEPT ![r] = t] /\ state[t] = "unused"
      /\ at[r] # "idle" /\ at'[r] \in {"answer", "refreshed"} /\ from[r] \in Browsers
      /\ UNCHANGED <<jar, signed>>
  BY <1>0 DEF IssueToken, Goto, TypeOK, browserVars
<1>2. \A q \in Requests \ {r} : SameRequest(q)
  BY <1>0, <1>1 DEF Goto, TypeOK, SameRequest
<1>3. /\ of'[t] = who[r] /\ home'[t] = from[r] /\ carried'[r] = t
      /\ \A s \in Tokens \ {t} : of'[s] = of[s] /\ home'[s] = home[s]
  BY <1>0, <1>1 DEF TypeOK
<1>4. \A b \in Browsers : t \notin Own(b) /\ Own(b)' \subseteq Own(b) \cup {t}
  BY <1>1, <1>3 DEF Own, Live
<1>5. ASSUME NEW b \in Browsers, b # from[r]
      PROVE  Quiet(b)
  BY <1>1, <1>3, <1>4, <1>5 DEF Own, Quiet
<1>6. ASSUME NEW b \in Browsers, b = from[r], RequestTells(b, r)
      PROVE  RequestTells(b, r)'
  <2>1. Own(b)' \subseteq {t}
    <3>1. CASE at[r] # "refresh"
      <4>1. Own(b) = {}
        BY <1>6, <3>1 DEF RequestTells
      <4> QED BY <1>4, <4>1
    <3>2. CASE at[r] = "refresh"
      <4>1. \A s \in Own(b) : s = carried[r]
        BY <1>6, <3>2 DEF RequestTells, JarTells
      <4> QED BY <1>4, <3>2, <4>1 DEF Own, Live
    <3> QED BY <3>1, <3>2
  <2>2. who'[r] = who[r]
    OBVIOUS
  <2> QED BY <1>1, <1>3, <2>1, <2>2 DEF RequestTells
<1> QED BY <1>1, <1>2, <1>5, <1>6, StepTracks

\* The end of a request, as far as the browser is not told.
LEMMA CommitsTrack ==
  ASSUME IInv, BrowsersTrack, NEW r \in Requests, Commit(r)
  PROVE  BrowsersTrack'
<1>0. TypeOK
  BY DEF IInv
<1> USE DEF accountVars, tokenVars, browserVars
<1>1. CASE RegisterRefused(r) \/ IssueRefused(r) \/ PasswordFails(r) \/ InviteRefused(r)
           \/ RemoveFails(r) \/ InviteCommit(r) \/ RoleCommit(r)
  <2>1. /\ at[r] \notin {"idle", "answer", "refreshed"}
        /\ Forget(r) /\ UNCHANGED <<jar, signed, muddled>> /\ Fewer
    BY <1>1 DEF RegisterRefused, IssueRefused, PasswordFails, InviteRefused, RemoveFails,
       InviteCommit, RoleCommit, Refused, Fewer
  <2> QED BY <1>0, <2>1, ForgetTracks
<1>2. CASE RemoveCommit(r)
  <2>1. Fewer
    BY <1>2 DEF RemoveCommit, Fewer
  <2> QED BY <1>0, <1>2, <2>1, ForgetTracks DEF RemoveCommit
<1>3. ASSUME NEW t \in Tokens, RegisterCommit(r, t)
      PROVE  BrowsersTrack'
  <2>1. \A s \in Tokens \ {t} : state'[s] = state[s]
    BY <1>0, <1>3 DEF RegisterCommit, TypeOK
  <2> QED BY <1>3, <2>1, IssueTracks DEF RegisterCommit
<1>4. ASSUME NEW t \in Tokens, Issue(r, t)
      PROVE  BrowsersTrack'
  <2>1. \A s \in Tokens \ {t} : state'[s] = state[s]
    BY <1>0, <1>4 DEF Issue, TypeOK
  <2> QED BY <1>4, <2>1, IssueTracks DEF Issue
<1>5. ASSUME NEW t \in Tokens, RefreshCommit(r, t)
      PROVE  BrowsersTrack'
  <2>1. carried[r] \in Tokens
    BY <1>0, <1>5 DEF RefreshCommit, TypeOK
  <2>2. \A s \in Tokens \ {t} : state'[s] = "live" => s # carried[r] /\ state[s] = "live"
    BY <1>0, <1>5, <2>1 DEF RefreshCommit, TypeOK
  <2>3. /\ at[r] = "refresh" /\ IssueToken(r, t, knows[r]) /\ Goto(r, "refreshed")
        /\ UNCHANGED <<expired, browserVars, from, who, seen, muddled>>
    BY <1>5 DEF RefreshCommit
  <2> HIDE DEF accountVars, tokenVars, browserVars
  <2> QED BY <2>2, <2>3, IssueTracks
<1>6. CASE RefreshFails(r)
  <2>1. /\ at[r] = "refresh" /\ Forget(r) /\ Fewer /\ UNCHANGED <<jar, muddled>>
        /\ ~Member(who[r]) /\ signed' = [signed EXCEPT ![from[r]] = NoUser]
    BY <1>6 DEF RefreshFails, SignOut, Fewer
  <2>2. /\ from[r] \in Browsers /\ at'[r] = "idle" /\ carried[r] \in Tokens
        /\ \A q \in Requests \ {r} : SameRequest(q)
        /\ \A b \in Browsers \ {from[r]} : Quiet(b)
    BY <1>0, <2>1, FewerOwn DEF Forget, Goto, TypeOK, SameRequest
  <2>3. ASSUME NEW b \in Browsers, RequestTells(b, r)
        PROVE  JarTells(b)'
    <3>1. \A t \in Own(b) : t = carried[r]
      BY <2>1, <2>3 DEF RequestTells, JarTells
    <3>2. state[carried[r]] # "live"
      BY <2>1, <2>2 DEF IInv, Core, RequestsFit, Fits, SessionsHaveUsers
    <3>3. Own(b) = {}
      BY <3>1, <3>2 DEF Own, Live
    <3> QED BY <2>1, <3>3, FewerOwn DEF JarTells
  <2> QED BY <2>1, <2>2, <2>3, StepTracks
<1>7. CASE FamilySelect(r)
  <2>1. /\ at[r] = "family" /\ Goto(r, "revokeFamily") /\ Fewer
        /\ UNCHANGED <<jar, signed, muddled, from, who, carried>>
        /\ seen' = [seen EXCEPT ![r] = LiveOf(who[r])]
    BY <1>7 DEF FamilySelect, Fewer
  <2>2. /\ at'[r] = "revokeFamily"
        /\ \A q \in Requests \ {r} : seen'[q] = seen[q]
    BY <1>0, <2>1 DEF Goto, TypeOK
  <2>3. \A b \in Browsers : RequestTells(b, r) => RequestTells(b, r)'
    BY <2>1, <2>2, FewerOwn DEF RequestTells
  <2> QED BY <1>0, <2>1, <2>2, <2>3, GoesOnTracks
<1>8. CASE FamilyCommit(r)
  <2>1. /\ at[r] = "revokeFamily" /\ Forget(r) /\ Fewer /\ UNCHANGED <<jar, muddled>>
        /\ signed' = [signed EXCEPT ![from[r]] = NoUser]
    BY <1>8 DEF FamilyCommit, Revoke, SignOut, Fewer
  <2>2. /\ from[r] \in Browsers /\ at'[r] = "idle"
        /\ \A q \in Requests \ {r} : SameRequest(q)
        /\ \A b \in Browsers \ {from[r]} : Quiet(b)
    BY <1>0, <2>1, FewerOwn DEF Forget, Goto, TypeOK, SameRequest
  <2>3. \A b \in Browsers : RequestTells(b, r) => JarTells(b)'
    BY <2>1, FewerOwn DEF RequestTells, JarTells
  <2> QED BY <2>1, <2>2, <2>3, StepTracks
<1>9. CASE LogoutCommit(r)
  <2>1. /\ at[r] = "revoke" /\ Goto(r, "cleared") /\ Fewer
        /\ UNCHANGED <<jar, signed, muddled, from, who, carried, seen>>
        /\ carried[r] \in Tokens /\ state'[carried[r]] # "live"
    BY <1>0, <1>9 DEF LogoutCommit, Revoke, Fewer, requestVars, TypeOK
  <2>2. at'[r] = "cleared"
    BY <1>0, <2>1 DEF Goto, TypeOK
  <2>3. ASSUME NEW b \in Browsers, RequestTells(b, r)
        PROVE  Own(b)' = {}
    <3>1. \A t \in Own(b) : t = carried[r]
      BY <2>1, <2>3 DEF RequestTells, JarTells
    <3> QED BY <2>1, <3>1, FewerOwn DEF Own, Live
  <2>4. \A b \in Browsers : RequestTells(b, r) => RequestTells(b, r)'
    BY <2>2, <2>3 DEF RequestTells
  <2> QED BY <1>0, <2>1, <2>4, GoesOnTracks
<1>10. CASE PasswordSelect(r)
  <2>1. /\ at[r] \in {"password", "setPassword"} /\ Fewer
        /\ UNCHANGED <<jar, signed, muddled, from, who, carried>>
        /\ seen' = [seen EXCEPT ![r] = LiveOf(who[r])]
    BY <1>10 DEF PasswordSelect, Fewer
  <2>2. PICK step \in {"pwCommit", "setCommit"} : Goto(r, step)
    BY <1>10 DEF PasswordSelect
  <2>3. /\ at'[r] = step /\ seen'[r] = LiveOf(who[r])
        /\ \A q \in Requests \ {r} : seen'[q] = seen[q]
    BY <1>0, <2>1, <2>2 DEF Goto, TypeOK
  <2>4. ASSUME NEW b \in Browsers, RequestTells(b, r)
        PROVE  RequestTells(b, r)'
    <3>1. JarTells(b) /\ \A t \in Own(b) : of[t] = who[r]
      BY <2>1, <2>4 DEF RequestTells
    <3>2. JarTells(b)'
      BY <2>1, <3>1, FewerOwn, JarStillTells
    <3>3. Own(b) \subseteq LiveOf(who[r]) /\ Own(b)' \subseteq Own(b)
      BY <2>1, <3>1, FewerOwn DEF LiveOf, Own, Live
    <3> QED BY <2>3, <3>2, <3>3 DEF RequestTells
  <2> QED BY <1>0, <2>1, <2>2, <2>3, <2>4, GoesOnTracks
<1>11. CASE PasswordCommit(r)
  <2>1. /\ InChange(r) /\ Revoke(seen[r]) /\ Fewer
        /\ UNCHANGED <<jar, signed, muddled>>
    BY <1>11 DEF PasswordCommit, Revoke, Fewer, InChange
  <2>2. CASE at[r] = "pwCommit"
    BY <1>0, <1>11, <2>1, <2>2, ForgetTracks DEF PasswordCommit
  <2>3. CASE at[r] = "setCommit"
    <3>1. /\ Goto(r, "issue") /\ seen' = [seen EXCEPT ![r] = {}]
          /\ UNCHANGED <<from, who, carried>>
      BY <1>11, <2>3 DEF PasswordCommit
    <3>2. at'[r] = "issue" /\ \A q \in Requests \ {r} : seen'[q] = seen[q]
      BY <1>0, <3>1 DEF Goto, TypeOK
    <3>3. ASSUME NEW b \in Browsers, RequestTells(b, r)
          PROVE  Own(b)' = {}
      <4>1. Own(b) \subseteq seen[r]
        BY <2>3, <3>3 DEF RequestTells, InChange
      <4> QED BY <2>1, <4>1, FewerOwn DEF Revoke, Own, Live
    <3>4. \A b \in Browsers : RequestTells(b, r) => RequestTells(b, r)'
      BY <3>2, <3>3 DEF RequestTells
    <3> QED BY <1>0, <2>1, <2>3, <3>1, <3>2, <3>4, GoesOnTracks
  <2> QED BY <2>1, <2>2, <2>3 DEF InChange
<1>12. CASE RemoveFlush(r)
  <2>1. /\ at[r] = "remove" /\ Goto(r, "delete") /\ Fewer
        /\ UNCHANGED <<jar, signed, muddled, from, who, carried, seen>>
    BY <1>12 DEF RemoveFlush, Fewer, requestVars
  <2>2. at'[r] = "delete"
    BY <1>0, <2>1 DEF Goto, TypeOK
  <2>3. \A b \in Browsers : RequestTells(b, r) => JarTells(b)'
    BY <2>1, FewerOwn, JarStillTells DEF RequestTells
  <2>4. \A b \in Browsers : RequestTells(b, r) => RequestTells(b, r)'
    BY <2>2, <2>3 DEF RequestTells, InChange
  <2> QED BY <1>0, <2>1, <2>4, GoesOnTracks
<1> QED BY <1>1, <1>2, <1>3, <1>4, <1>5, <1>6, <1>7, <1>8, <1>9, <1>10, <1>11, <1>12
        DEF Commit

\* Answers, the end of a token's life, and the answers that need no request.
LEMMA AnswersTrack ==
  ASSUME IInv, BrowsersTrack, NEW r \in Requests, Deliver(r) \/ Lose(r)
  PROVE  BrowsersTrack'
<1>0. TypeOK
  BY DEF IInv
<1> USE DEF tokenVars
<1>1. /\ Forget(r) /\ Fewer /\ muddled \subseteq muddled'
      /\ at[r] \in {"answer", "refreshed", "cleared"}
    BY <1>0 DEF Deliver, Lose, Fewer, TypeOK
<1>2. from[r] \in Browsers /\ at'[r] = "idle" /\ \A q \in Requests \ {r} : SameRequest(q)
  BY <1>0, <1>1 DEF Forget, Goto, TypeOK, SameRequest
<1>3. \A b \in Browsers \ {from[r]} : UNCHANGED <<jar[b], signed[b]>>
  BY <1>0, <1>2 DEF Deliver, Lose, SignOut, TypeOK
<1>4. \A b \in Browsers \ {from[r]} : Quiet(b)
  BY <1>1, <1>3, FewerOwn
<1>5. ASSUME NEW b \in Browsers, b = from[r], b \notin muddled', RequestTells(b, r)
      PROVE  JarTells(b)'
  <2>1. Deliver(r)
    BY <1>0, <1>5 DEF Lose
  <2>2. CASE at[r] \in {"answer", "refreshed"}
    <3>1. jar'[b] = carried[r] /\ signed'[b] = who[r]
      BY <1>0, <1>5, <2>1, <2>2 DEF Deliver, TypeOK
    <3>2. \A t \in Own(b) : t = carried[r] /\ of[t] = who[r]
      BY <1>5, <2>2 DEF RequestTells
    <3> QED BY <1>1, <3>1, <3>2, FewerOwn DEF JarTells
  <2>3. CASE at[r] = "cleared"
    <3>1. Own(b) = {}
      BY <1>5, <2>3 DEF RequestTells
    <3> QED BY <1>1, <3>1, FewerOwn DEF JarTells
  <2> QED BY <1>1, <2>2, <2>3
<1> QED BY <1>1, <1>2, <1>4, <1>5, StepTracks

LEMMA WorldTracks ==
  ASSUME IInv, BrowsersTrack,
         \/ \E b \in Browsers : RefreshRefused(b)
         \/ \E t \in Tokens : Expire(t)
         \/ UNCHANGED vars
  PROVE  BrowsersTrack'
<1>0. TypeOK
  BY DEF IInv
<1>1. Fewer /\ UNCHANGED <<jar, muddled>> /\ \A q \in Requests : SameRequest(q)
  BY DEF RefreshRefused, Expire, vars, tokenVars, browserVars, requestVars, Fewer, SameRequest
<1>2. ASSUME NEW b \in Browsers, UNCHANGED signed[b], Tracks(b)
      PROVE  Tracks(b)'
  BY <1>1, <1>2, FewerOwn, AwayTracks
<1>3. ASSUME NEW b \in Browsers, RefreshRefused(b), Tracks(b)
      PROVE  Tracks(b)'
  <2>1. UnderWay(b)' = UnderWay(b)
    BY <1>1 DEF UnderWay, SameRequest
  <2>2. jar[b] \notin Own(b)
    BY <1>3, TokensAssumption DEF RefreshRefused, Own, Live, TokensAssumption
  <2>3. JarTells(b) => Own(b)' = {}
    BY <1>1, <2>2, FewerOwn DEF JarTells
  <2>4. ASSUME NEW r \in UnderWay(b)
        PROVE  RequestTells(b, r)'
    <3>1. SameRequest(r) /\ RequestTells(b, r)
      BY <1>1, <1>3, <2>4 DEF Tracks, UnderWay
    <3>2. CASE at[r] \in {"register", "login", "family", "revokeFamily", "issue", "cleared"}
      BY <1>1, <3>1, <3>2, FewerOwn DEF RequestTells, SameRequest
    <3>3. CASE at[r] \in {"answer", "refreshed"}
      BY <1>1, <3>1, <3>3, FewerOwn DEF RequestTells, SameRequest
    <3>4. CASE at[r] \notin {"register", "login", "family", "revokeFamily", "issue",
                            "cleared", "answer", "refreshed"}
      <4>1. /\ JarTells(b)
            /\ at[r] \in {"refresh", "revoke"} => carried[r] = jar[b]
        BY <3>1, <3>4 DEF RequestTells
      <4>2. Own(b)' = {}
        BY <2>3, <4>1
      <4>3. JarTells(b)'
        BY <4>2 DEF JarTells
      <4> QED BY <1>1, <3>1, <3>4, <4>1, <4>2, <4>3 DEF RequestTells, SameRequest
    <3> QED BY <3>2, <3>3, <3>4
  <2> QED BY <1>3, <2>1, <2>3, <2>4 DEF Tracks, JarTells
<1>4. ASSUME NEW b \in Browsers, Tracks(b)
      PROVE  Tracks(b)'
  <2>1. UNCHANGED signed[b] \/ RefreshRefused(b)
    BY <1>0 DEF RefreshRefused, SignOut, Expire, vars, browserVars, TypeOK
  <2> QED BY <1>2, <1>3, <1>4, <2>1
<1> QED BY <1>1, <1>4 DEF BrowsersTrack

\* A browser that lost no answer and had one request at a time knows its session:
\* no other session that was issued to it is valid, whatever is done to the account
\* from elsewhere.
THEOREM JarAlwaysHoldsTheSession == Spec => []JarHoldsTheSession
<1>1. Init => BrowsersTrack
  BY DEF Init, BrowsersTrack, Tracks, UnderWay, JarTells, Own, Live
<1>2. IInv /\ BrowsersTrack /\ [Next]_vars => BrowsersTrack'
  BY RequestsTrack, CommitsTrack, AnswersTrack, WorldTracks DEF Next
<1>3. BrowsersTrack => JarHoldsTheSession
  BY DEF BrowsersTrack, Tracks, JarTells, Own, JarHoldsTheSession
<1> QED BY Inductive, <1>1, <1>2, <1>3, PTL DEF Spec
=============================================================================
