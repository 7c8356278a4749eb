----------------------------- MODULE AccountsProofs -----------------------------
(***************************************************************************)
(* Theorems about Accounts for any number of users, requests and tokens.   *)
(***************************************************************************)
EXTENDS MCAccounts, TLAPS

\* A token's row link is to the user it names, until the account is deleted.
LinksAreOwn ==
  \A t \in Tokens : tokens[t] # NoToken => tokens[t].row \in {tokens[t].user, Nobody}

\* A role request was let in for an administrator who is not its target.
ActorsWereAdmins ==
  \A r \in Requests : reqs[r].pc = "role" => reqs[r].rank = "admin"

IInv == TypeOK /\ ChangeRevokes /\ LinksAreOwn /\ ActorsWereAdmins

\* What a request slot may hold.
Proper(q) ==
  q \in Request /\ (q.pc = "role" => q.actor # q.user /\ q.rank = "admin")

LEMMA IdleIsProper == Proper(Idle)
BY DEF Proper, Request, Idle

\* A step of slot r that keeps the tables keeps the invariant.
LEMMA SlotStep ==
  ASSUME IInv, NEW r \in Requests, NEW q, Proper(q), reqs' = [reqs EXCEPT ![r] = q]
  PROVE  /\ reqs' \in [Requests -> Request]
         /\ \A s \in Requests : reqs'[s].pc = "role" =>
              reqs'[s].actor # reqs'[s].user /\ reqs'[s].rank = "admin"
<1>1. reqs \in [Requests -> Request]
  BY DEF IInv, TypeOK
<1>2. \A s \in Requests : reqs'[s] = IF s = r THEN q ELSE reqs[s]
  BY <1>1
<1>3. reqs' \in [Requests -> Request]
  BY <1>1 DEF Proper
<1>4. \A s \in Requests : reqs[s].pc = "role" =>
              reqs[s].actor # reqs[s].user /\ reqs[s].rank = "admin"
  BY DEF IInv, TypeOK, ActorsWereAdmins
<1> QED BY <1>2, <1>3, <1>4 DEF Proper

\* The invariant is the typing of the tables, the tokens and the slots.
LEMMA Assemble ==
  ASSUME IInv,
         users' \in [Users -> Row \cup {NoUser}],
         profiles' \subseteq {u \in Users : users'[u] # NoUser},
         tokens' \in [Tokens -> Token \cup {NoToken}],
         changes' \in [Users -> Nat],
         ChangeRevokes', LinksAreOwn',
         NEW r \in Requests, NEW q, Proper(q), reqs' = [reqs EXCEPT ![r] = q]
  PROVE  IInv'
BY SlotStep DEF IInv, TypeOK, ActorsWereAdmins, Exists

LEMMA InitIInv == Init => IInv
<1> SUFFICES ASSUME Init PROVE IInv
  OBVIOUS
<1>1. TypeOK
  BY FoundersAreUsers
     DEF Init, TypeOK, Row, Roles, NoUser, Exists, Idle, Request
<1>2. ChangeRevokes /\ LinksAreOwn /\ ActorsWereAdmins
  BY DEF Init, ChangeRevokes, LinksAreOwn, ActorsWereAdmins, NoToken, Idle
<1> QED BY <1>1, <1>2 DEF IInv

\* A request that was loaded changes no table.
LEMMA LoadStep ==
  ASSUME IInv, NEW r \in Requests, NEW q, NEW kind, Proper(q), Load(r, kind, q)
  PROVE  IInv'
<1>1. UNCHANGED <<users, profiles, tokens, changes>> /\ reqs' = [reqs EXCEPT ![r] = q]
  BY DEF Load
<1>2. ChangeRevokes' /\ LinksAreOwn'
  BY <1>1 DEF IInv, ChangeRevokes, LinksAreOwn
<1> QED BY <1>1, <1>2, Assemble DEF IInv, TypeOK, Exists

\* A user who exists has a row.
LEMMA ExistsHasRow ==
  ASSUME IInv, NEW u \in Users, Exists(u)
  PROVE  users[u] \in Row
BY DEF IInv, TypeOK, Exists

LEMMA BeginStep ==
  ASSUME IInv, NEW r \in Requests, Begin(r)
  PROVE  IInv'
<1>1. ASSUME NEW a \in Users, NEW u \in Users, LoadUpdate(r, a, u) PROVE IInv'
  BY <1>1, LoadStep, ExistsHasRow DEF LoadUpdate, MayActOn, Proper, Request
<1>2. ASSUME NEW a \in Users, NEW u \in Users, LoadPassword(r, a, u) PROVE IInv'
  BY <1>2, LoadStep DEF LoadPassword, Proper, Request
<1>3. ASSUME NEW a \in Users, NEW u \in Users, LoadDelete(r, a, u) PROVE IInv'
  <2>1. Proper([pc |-> "delete", user |-> u, profile |-> u \in profiles])
    <3>1. CASE u \in profiles
      BY <3>1 DEF Proper, Request
    <3>2. CASE u \notin profiles
      BY <3>2 DEF Proper, Request
    <3> QED BY <3>1, <3>2
  <2> QED BY <1>3, <2>1, LoadStep DEF LoadDelete
<1>4. ASSUME NEW a \in Users, NEW u \in Users, NEW role \in Roles, LoadRole(r, a, u, role)
      PROVE  IInv'
  <2> DEFINE q == [pc |-> "role", actor |-> a, rank |-> users[a].role,
                   user |-> u, snap |-> users[u], role |-> role]
  <2>1. users[u] \in Row /\ users[a].role = "admin" /\ a # u
    BY <1>4, ExistsHasRow DEF LoadRole, MayChangeRole, IsAdmin
  <2>2. Proper(q)
    BY <2>1 DEF Proper, Request, Roles
  <2> QED BY <1>4, <2>2, LoadStep DEF LoadRole
<1>5. ASSUME NEW a \in Users, NEW u \in Users, InsertUser(r, a, u) PROVE IInv'
  <2> DEFINE q == [pc |-> "inserted", user |-> u]
  <2>1. PICK role \in NewRoles : users' = [users EXCEPT ![u] = [role |-> role, password |-> 0]]
    BY <1>5 DEF InsertUser
  <2>2. Proper(q)
    BY DEF Proper, Request
  <2>3. [role |-> role, password |-> 0] \in Row
    BY DEF NewRoles, Row, Roles
  <2>4. users' \in [Users -> Row \cup {NoUser}] /\ NoUser \notin Row
    BY <2>1, <2>3 DEF IInv, TypeOK, NoUser, Row, Roles
  <2>5. profiles' \subseteq {v \in Users : users'[v] # NoUser}
    BY <1>5, <2>1, <2>3, <2>4 DEF InsertUser, IInv, TypeOK, Exists
  <2>6. ChangeRevokes' /\ LinksAreOwn'
    BY <1>5 DEF InsertUser, IInv, ChangeRevokes, LinksAreOwn
  <2> QED BY <1>5, <2>2, <2>4, <2>5, <2>6, Assemble DEF InsertUser, IInv, TypeOK
<1>6. ASSUME NEW u \in Users, LoadLogin(r, u) PROVE IInv'
  BY <1>6, LoadStep DEF LoadLogin, Proper, Request
<1>7. ASSUME NEW t \in Tokens, LoadRefresh(r, t) PROVE IInv'
  <2>1. tokens[t].user \in Users
    BY <1>7 DEF LoadRefresh, IInv, TypeOK, Token, NoToken
  <2> QED BY <1>7, <2>1, LoadStep DEF LoadRefresh, Proper, Request
<1> QED BY <1>1, <1>2, <1>3, <1>4, <1>5, <1>6, <1>7 DEF Begin

LEMMA SaveUpdateStep ==
  ASSUME IInv, NEW r \in Requests, SaveUpdate(r)
  PROVE  IInv'
<1> DEFINE u == reqs[r].user
<1>1. u \in Users /\ reqs[r].snap \in Row
  BY DEF SaveUpdate, IInv, TypeOK, Request, Idle
<1>2. users' = [users EXCEPT ![u] = reqs[r].snap] /\ UNCHANGED <<profiles, tokens, changes>>
  BY DEF SaveUpdate
<1>3. users' \in [Users -> Row \cup {NoUser}] /\ NoUser \notin Row
  BY <1>1, <1>2 DEF IInv, TypeOK, NoUser, Row, Roles
<1>4. profiles' \subseteq {v \in Users : users'[v] # NoUser}
  BY <1>1, <1>2, <1>3 DEF IInv, TypeOK, Exists
<1>5. ChangeRevokes' /\ LinksAreOwn'
  BY <1>2 DEF IInv, ChangeRevokes, LinksAreOwn
<1>6. Proper([pc |-> "inserted", user |-> u])
  BY <1>1 DEF Proper, Request
<1>7. \/ reqs' = [reqs EXCEPT ![r] = Idle]
      \/ reqs' = [reqs EXCEPT ![r] = [pc |-> "inserted", user |-> u]]
  BY DEF SaveUpdate, Done
<1> QED BY <1>2, <1>3, <1>4, <1>5, <1>6, <1>7, IdleIsProper, Assemble DEF IInv, TypeOK

LEMMA CreateProfileStep ==
  ASSUME IInv, NEW r \in Requests, CreateProfile(r)
  PROVE  IInv'
<1>1. reqs[r].user \in Users
  BY DEF CreateProfile, IInv, TypeOK, Request, Idle
<1>2. profiles' \subseteq {v \in Users : users'[v] # NoUser}
  BY <1>1 DEF CreateProfile, IInv, TypeOK, Exists
<1>3. ChangeRevokes' /\ LinksAreOwn'
  BY DEF CreateProfile, IInv, ChangeRevokes, LinksAreOwn
<1> QED BY <1>2, <1>3, IdleIsProper, Assemble DEF CreateProfile, Done, IInv, TypeOK

LEMMA ChangeRoleStep ==
  ASSUME IInv, NEW r \in Requests, ChangeRole(r)
  PROVE  IInv'
<1> DEFINE u == reqs[r].user
<1>1. u \in Users /\ reqs[r].role \in Roles
  BY DEF ChangeRole, IInv, TypeOK, Request, Idle
<1>2. CASE RoleChangeRefused(reqs[r])
  BY <1>2, IdleIsProper, Assemble
     DEF ChangeRole, Done, IInv, TypeOK, ChangeRevokes, LinksAreOwn, Exists
<1>3. CASE ~RoleChangeRefused(reqs[r])
  <2>1. users' = [users EXCEPT ![u].role = reqs[r].role] /\ users[u] \in Row
    BY <1>1, <1>3, ExistsHasRow DEF ChangeRole, RoleChangeRefused
  <2>2. users'[u] \in Row /\ NoUser \notin Row
    BY <1>1, <2>1 DEF Row, NoUser, Roles, IInv, TypeOK
  <2>3. users' \in [Users -> Row \cup {NoUser}]
    BY <1>1, <2>1, <2>2 DEF IInv, TypeOK
  <2>4. profiles' \subseteq {v \in Users : users'[v] # NoUser}
    BY <1>1, <2>1, <2>2 DEF ChangeRole, IInv, TypeOK, Exists
  <2>5. ChangeRevokes' /\ LinksAreOwn'
    BY DEF ChangeRole, IInv, ChangeRevokes, LinksAreOwn
  <2> QED BY <2>3, <2>4, <2>5, IdleIsProper, Assemble DEF ChangeRole, Done, IInv, TypeOK
<1> QED BY <1>2, <1>3

\* The tokens of the table that are still linked to u are those it names.
LEMMA ChangePasswordStep ==
  ASSUME IInv, NEW r \in Requests, ChangePassword(r)
  PROVE  IInv'
<1> DEFINE u == reqs[r].user
<1>1. u \in Users
  BY DEF ChangePassword, IInv, TypeOK, Request, Idle
<1>2. CASE ~Exists(u)
  BY <1>2, IdleIsProper, Assemble
     DEF ChangePassword, Done, IInv, TypeOK, ChangeRevokes, LinksAreOwn, Exists
<1>3. CASE Exists(u)
  <2>1. /\ changes' = [changes EXCEPT ![u] = @ + 1]
        /\ users' = [users EXCEPT ![u].password = changes[u] + 1]
        /\ tokens' = Revoked(u) /\ profiles' = profiles
    BY <1>3 DEF ChangePassword
  <2>2. users[u] \in Row /\ changes[u] \in Nat
    BY <1>1, <1>3, ExistsHasRow DEF IInv, TypeOK
  <2>3. users'[u] \in Row /\ NoUser \notin Row
    BY <1>1, <2>1, <2>2 DEF Row, NoUser, Roles, IInv, TypeOK
  <2>4. users' \in [Users -> Row \cup {NoUser}] /\ changes' \in [Users -> Nat]
    BY <1>1, <2>1, <2>2, <2>3 DEF IInv, TypeOK
  <2>5. profiles' \subseteq {v \in Users : users'[v] # NoUser}
    BY <1>1, <2>1, <2>3 DEF IInv, TypeOK, Exists
  <2>6. ASSUME NEW t \in Tokens
        PROVE  /\ tokens'[t] \in Token \cup {NoToken}
               /\ tokens'[t] # NoToken => tokens'[t].row \in {tokens'[t].user, Nobody}
               /\ tokens'[t].valid /\ tokens'[t].row # Nobody =>
                    tokens'[t].era = changes'[tokens'[t].user]
    <3>1. tokens[t] \in Token \cup {NoToken} /\ tokens \in [Tokens -> Token \cup {NoToken}]
      BY DEF IInv, TypeOK
    <3>2. CASE tokens[t] # NoToken /\ tokens[t].row = u
      <4>1. tokens'[t] = [tokens[t] EXCEPT !.valid = FALSE] /\ tokens[t] \in Token
        BY <2>1, <3>1, <3>2 DEF Revoked
      <4>2. tokens'[t] \in Token /\ tokens'[t].valid = FALSE
            /\ tokens'[t].row = tokens[t].row /\ tokens'[t].user = tokens[t].user
        BY <4>1 DEF Token
      <4> QED BY <3>2, <4>2 DEF IInv, LinksAreOwn
    <3>3. CASE ~(tokens[t] # NoToken /\ tokens[t].row = u)
      <4>1. tokens'[t] = tokens[t]
        BY <2>1, <3>3 DEF Revoked
      <4>2. tokens[t].valid /\ tokens[t].row # Nobody =>
              tokens[t].user \in Users /\ tokens[t].user # u
        BY <3>1, <3>3 DEF IInv, LinksAreOwn, Token, NoToken
      <4>3. \A v \in Users : v # u => changes'[v] = changes[v]
        BY <1>1, <2>1 DEF IInv, TypeOK
      <4> QED BY <3>1, <4>1, <4>2, <4>3 DEF IInv, LinksAreOwn, ChangeRevokes
    <3> QED BY <3>2, <3>3
  <2>7. tokens' \in [Tokens -> Token \cup {NoToken}]
    BY <2>1, <2>6 DEF Revoked
  <2>8. ChangeRevokes' /\ LinksAreOwn'
    BY <2>6 DEF ChangeRevokes, LinksAreOwn, NoToken
  <2> QED BY <2>4, <2>5, <2>7, <2>8, IdleIsProper, Assemble DEF ChangePassword, Done
<1> QED BY <1>2, <1>3

LEMMA DeleteUserStep ==
  ASSUME IInv, NEW r \in Requests, DeleteUser(r)
  PROVE  IInv'
<1> DEFINE u == reqs[r].user
<1>1. u \in Users
  BY DEF DeleteUser, IInv, TypeOK, Request, Idle
<1>2. CASE u \in profiles /\ ~reqs[r].profile
  BY <1>2, IdleIsProper, Assemble
     DEF DeleteUser, Done, IInv, TypeOK, ChangeRevokes, LinksAreOwn, Exists
<1>3. CASE ~(u \in profiles /\ ~reqs[r].profile)
  <2>1. /\ users' = [users EXCEPT ![u] = NoUser] /\ profiles' = profiles \ {u}
        /\ tokens' = [t \in Tokens |-> IF tokens[t] # NoToken /\ tokens[t].row = u
                                       THEN [tokens[t] EXCEPT !.row = Nobody]
                                       ELSE tokens[t]]
        /\ changes' = changes
    BY <1>3 DEF DeleteUser
  <2>2. users' \in [Users -> Row \cup {NoUser}]
    BY <1>1, <2>1 DEF IInv, TypeOK
  <2>3. profiles' \subseteq {v \in Users : users'[v] # NoUser}
    BY <1>1, <2>1 DEF IInv, TypeOK, Exists
  <2>4. ASSUME NEW t \in Tokens
        PROVE  /\ tokens'[t] \in Token \cup {NoToken}
               /\ tokens'[t] # NoToken => tokens'[t].row \in {tokens'[t].user, Nobody}
               /\ tokens'[t].valid /\ tokens'[t].row # Nobody =>
                    tokens'[t].era = changes'[tokens'[t].user]
    <3>1. tokens[t] \in Token \cup {NoToken}
      BY DEF IInv, TypeOK
    <3>2. CASE tokens[t] # NoToken /\ tokens[t].row = u
      <4>1. tokens'[t] = [tokens[t] EXCEPT !.row = Nobody] /\ tokens[t] \in Token
        BY <2>1, <3>1, <3>2
      <4> QED BY <4>1 DEF Token
    <3>3. CASE ~(tokens[t] # NoToken /\ tokens[t].row = u)
      BY <2>1, <3>1, <3>3 DEF IInv, LinksAreOwn, ChangeRevokes
    <3> QED BY <3>2, <3>3
  <2>5. tokens' \in [Tokens -> Token \cup {NoToken}]
    BY <2>1, <2>4
  <2>6. ChangeRevokes' /\ LinksAreOwn'
    BY <2>4 DEF ChangeRevokes, LinksAreOwn, NoToken
  <2> QED BY <2>1, <2>2, <2>3, <2>5, <2>6, IdleIsProper, Assemble DEF DeleteUser, Done, IInv, TypeOK
<1> QED BY <1>2, <1>3

\* The steps of the token endpoints touch one token t and one slot.
LEMMA TokenStep ==
  ASSUME IInv, NEW t \in Tokens, NEW k \in Token, k.row \in {k.user, Nobody},
         k.valid => k.era = changes[k.user] \/ k.row = Nobody,
         tokens' = [tokens EXCEPT ![t] = k], changes' = changes
  PROVE  /\ tokens' \in [Tokens -> Token \cup {NoToken}]
         /\ ChangeRevokes' /\ LinksAreOwn'
<1>1. tokens' \in [Tokens -> Token \cup {NoToken}]
  BY DEF IInv, TypeOK
<1>2. \A s \in Tokens : tokens'[s] = IF s = t THEN k ELSE tokens[s]
  BY DEF IInv, TypeOK
<1> QED BY <1>1, <1>2 DEF IInv, ChangeRevokes, LinksAreOwn

\* A token that is blacklisted stays what it was otherwise.
LEMMA BlacklistStep ==
  ASSUME IInv, NEW t \in Tokens, tokens[t] # NoToken,
         tokens' = [tokens EXCEPT ![t].valid = FALSE], changes' = changes
  PROVE  /\ tokens' \in [Tokens -> Token \cup {NoToken}]
         /\ ChangeRevokes' /\ LinksAreOwn'
<1> DEFINE k == [tokens[t] EXCEPT !.valid = FALSE]
<1>1. tokens[t] \in Token /\ tokens[t].row \in {tokens[t].user, Nobody}
  BY DEF IInv, TypeOK, LinksAreOwn
<1>2. k \in Token /\ k.row \in {k.user, Nobody} /\ k.valid = FALSE
  BY <1>1 DEF Token
<1>3. tokens' = [tokens EXCEPT ![t] = k]
  BY DEF IInv, TypeOK
<1> HIDE DEF k
<1> QED BY <1>2, <1>3, TokenStep

LEMMA RestStep ==
  ASSUME IInv, NEW r \in Requests,
         Rotate(r) \/ Crash(r) \/ \E t \in Tokens : Issue(r, t)
  PROVE  IInv'
<1>1. CASE Rotate(r)
  <2>1. reqs[r].token \in Tokens /\ reqs[r].user \in Users
    BY <1>1 DEF Rotate, IInv, TypeOK, Request, Idle
  <2>2. Proper([pc |-> "issue", user |-> reqs[r].user])
    BY <2>1 DEF Proper, Request
  <2>3. CASE tokens[reqs[r].token] # NoToken
    <3>1. tokens' \in [Tokens -> Token \cup {NoToken}] /\ ChangeRevokes' /\ LinksAreOwn'
      BY <1>1, <2>1, <2>3, BlacklistStep DEF Rotate
    <3> QED BY <1>1, <2>2, <3>1, Assemble DEF Rotate, IInv, TypeOK, Exists
  <2>4. CASE tokens[reqs[r].token] = NoToken
    <3>1. tokens' = tokens
      <4>1. [NoToken EXCEPT !.valid = FALSE] = NoToken
        <5>1. NoToken \in [valid : BOOLEAN, user : {Nobody}] /\ NoToken.valid = FALSE
          BY DEF NoToken
        <5> QED BY <5>1
      <4>2. tokens' = [tokens EXCEPT ![reqs[r].token] = [NoToken EXCEPT !.valid = FALSE]]
        BY <1>1, <2>4 DEF Rotate
      <4> QED BY <2>4, <4>1, <4>2 DEF IInv, TypeOK
    <3>2. ChangeRevokes' /\ LinksAreOwn'
      BY <1>1, <3>1 DEF Rotate, IInv, ChangeRevokes, LinksAreOwn
    <3> QED BY <1>1, <2>2, <3>1, <3>2, Assemble DEF Rotate, IInv, TypeOK, Exists
  <2> QED BY <2>3, <2>4
<1>2. CASE Crash(r)
  BY <1>2, IdleIsProper, Assemble
     DEF Crash, Done, IInv, TypeOK, ChangeRevokes, LinksAreOwn, Exists
<1>3. ASSUME NEW t \in Tokens, Issue(r, t) PROVE IInv'
  <2> DEFINE u == reqs[r].user
             k == [user |-> u, row |-> u, valid |-> TRUE, era |-> changes[u]]
  <2>1. u \in Users
    BY <1>3 DEF Issue, IInv, TypeOK, Request, Idle
  <2>2. k \in Token /\ k.row = k.user /\ k.era = changes[k.user]
    BY <2>1 DEF Token, IInv, TypeOK
  <2>3. tokens' = [tokens EXCEPT ![t] = k] \/ tokens' = tokens
    BY <1>3 DEF Issue
  <2>4. UNCHANGED <<users, profiles, changes>> /\ reqs' = [reqs EXCEPT ![r] = Idle]
    BY <1>3 DEF Issue, Done
  <2> HIDE DEF k
  <2>5. tokens' \in [Tokens -> Token \cup {NoToken}] /\ ChangeRevokes' /\ LinksAreOwn'
    BY <2>2, <2>3, <2>4, TokenStep DEF IInv, TypeOK, ChangeRevokes, LinksAreOwn
  <2> QED BY <2>4, <2>5, IdleIsProper, Assemble DEF IInv, TypeOK, Exists
<1> QED BY <1>1, <1>2, <1>3

LEMMA StepIInv ==
  ASSUME IInv, [Next]_vars
  PROVE  IInv'
<1>1. ASSUME NEW t \in Tokens, Logout(t) PROVE IInv'
  <2>1. tokens[t] # NoToken
    BY <1>1 DEF Logout, NoToken
  <2>2. tokens' \in [Tokens -> Token \cup {NoToken}] /\ ChangeRevokes' /\ LinksAreOwn'
    BY <1>1, <2>1, BlacklistStep DEF Logout
  <2> QED BY <1>1, <2>2 DEF Logout, IInv, TypeOK, ActorsWereAdmins, Exists
<1>2. CASE UNCHANGED vars
  BY <1>2 DEF vars, IInv, TypeOK, ChangeRevokes, LinksAreOwn, ActorsWereAdmins, Exists
<1>3. ASSUME NEW r \in Requests, Finish(r) \/ Crash(r) PROVE IInv'
  BY <1>3, SaveUpdateStep, CreateProfileStep, ChangeRoleStep, ChangePasswordStep,
     DeleteUserStep, RestStep DEF Finish
<1> QED BY <1>1, <1>2, <1>3, BeginStep DEF Next, Work

\* The inductive invariant holds in every reachable state.
THEOREM Invariant == Spec => []IInv
BY InitIInv, StepIInv, PTL DEF Spec

\* The tables and the requests keep their types; profiles have users, and
\* nobody is about to change his own role.
THEOREM TypeCorrect == Spec => []TypeOK
<1>1. IInv => TypeOK
  BY DEF IInv
<1> QED BY <1>1, Invariant, PTL

\* A refresh token that is good and still linked to its account was inserted
\* after the last change of the password.
THEOREM GoodTokensAreNew == Spec => []ChangeRevokes
<1>1. IInv => ChangeRevokes
  BY DEF IInv
<1> QED BY <1>1, Invariant, PTL

\* Administrators are made by somebody else, or by an update that puts an old
\* row back.
THEOREM MadeByOthers == Spec => AdminsAreMadeByOthers
<1> DEFINE A == \A u \in Users : ~IsAdmin(u) /\ users'[u].role = "admin" =>
       \E r \in Requests :
         \/ reqs[r].pc = "role" /\ reqs[r].user = u /\ reqs[r].actor # u
         \/ PutBackBy(r, u)
<1>1. IInv /\ [Next]_vars => A
  <2> SUFFICES ASSUME IInv, [Next]_vars, NEW u \in Users, ~IsAdmin(u), users'[u].role = "admin"
               PROVE  \E r \in Requests :
                        \/ reqs[r].pc = "role" /\ reqs[r].user = u /\ reqs[r].actor # u
                        \/ PutBackBy(r, u)
    OBVIOUS
  <2>1. users' # users
    BY DEF IsAdmin
  <2>2. PICK r \in Requests :
          \/ SaveUpdate(r) \/ ChangeRole(r) \/ ChangePassword(r) \/ DeleteUser(r)
          \/ \E a, v \in Users : InsertUser(r, a, v)
    BY <2>1 DEF Next, Work, vars, Begin, Finish, LoadUpdate, LoadPassword, LoadDelete, LoadRole,
       LoadLogin, LoadRefresh, Load, CreateProfile, Rotate, Issue, Crash, Logout
  <2>3. CASE SaveUpdate(r)
    BY <2>3 DEF SaveUpdate, PutBackBy, IInv, TypeOK, IsAdmin
  <2>4. CASE ChangeRole(r)
    BY <2>4 DEF ChangeRole, IInv, TypeOK, IsAdmin
  <2>5. CASE ChangePassword(r)
    <3>1. PICK n : users' = [users EXCEPT ![reqs[r].user].password = n]
      BY <2>1, <2>5 DEF ChangePassword
    <3>2. users[u] \in Row \cup {NoUser}
      BY DEF IInv, TypeOK
    <3>3. users'[u].role = users[u].role
      BY <3>1, <3>2 DEF Row, NoUser, IInv, TypeOK
    <3> QED BY <3>3 DEF IsAdmin
  <2>6. CASE DeleteUser(r)
    BY <2>1, <2>6 DEF DeleteUser, NoUser, IsAdmin, IInv, TypeOK
  <2>7. CASE \E a, v \in Users : InsertUser(r, a, v)
    BY <2>7 DEF InsertUser, NewRoles, IsAdmin, IInv, TypeOK
  <2> QED BY <2>2, <2>3, <2>4, <2>5, <2>6, <2>7
<1> QED BY <1>1, Invariant, PTL DEF Spec, AdminsAreMadeByOthers

\* The change of role that leaves no administrator was asked for by one who
\* has lost the role, or the account, since.
THEOREM LastDemotion == Spec => LastDemotionIsStale
<1> DEFINE A == \A r \in Requests :
       /\ reqs[r].pc = "role" /\ reqs'[r] = Idle
       /\ \E u \in Users : IsAdmin(u)
       /\ \A u \in Users : users'[u].role # "admin"
       => reqs[r].rank = "admin" /\ ~IsAdmin(reqs[r].actor)
<1>1. IInv /\ [Next]_vars => A
  <2> SUFFICES ASSUME IInv, [Next]_vars, NEW r \in Requests,
                      reqs[r].pc = "role", reqs'[r] = Idle,
                      \A u \in Users : users'[u].role # "admin",
                      IsAdmin(reqs[r].actor)
               PROVE  FALSE
    BY DEF IInv, ActorsWereAdmins
  <2>1. reqs[r].actor \in Users /\ reqs[r].user \in Users /\ reqs[r].actor # reqs[r].user
    BY DEF IInv, TypeOK, Request, Idle
  <2>2. reqs \in [Requests -> Request] /\ reqs[r] # reqs'[r]
    BY DEF IInv, TypeOK, Idle
  <2>3. ChangeRole(r) \/ Crash(r)
    <3>1. ASSUME NEW s \in Requests, s # r, Begin(s) \/ Finish(s) \/ Crash(s) PROVE FALSE
      <4>1. PICK q : reqs' = [reqs EXCEPT ![s] = q]
        BY <3>1 DEF Begin, Finish, LoadUpdate, LoadPassword, LoadDelete, LoadRole, LoadLogin,
           LoadRefresh, Load, InsertUser, SaveUpdate, CreateProfile, ChangeRole,
           ChangePassword, DeleteUser, Rotate, Issue, Crash, Done
      <4> QED BY <2>2, <3>1, <4>1
    <3>2. ~Begin(r)
      BY DEF Begin, LoadUpdate, LoadPassword, LoadDelete, LoadRole, LoadLogin,
         LoadRefresh, Load, InsertUser, Idle
    <3>3. Finish(r) \/ Crash(r)
      BY <2>2, <3>1, <3>2 DEF Next, Work, vars, Logout
    <3> QED BY <3>3 DEF Finish, SaveUpdate, CreateProfile, ChangePassword, DeleteUser,
            Rotate, Issue
  <2>4. users'[reqs[r].actor] = users[reqs[r].actor]
    BY <2>1, <2>3 DEF ChangeRole, Crash, IInv, TypeOK
  <2> QED BY <2>1, <2>4 DEF IsAdmin
<1> QED BY <1>1, Invariant, PTL DEF Spec, LastDemotionIsStale

-------------------------------------------------------------------------------
(* Profiles, as long as no worker dies                                     *)

\* The step of a request that is not about to create a profile: whoever comes
\* to exist by it has one to come, and no profile of a user who stays is lost.
LEMMA PendingStep ==
  ASSUME IInv, ProfileOrPending, NEW r \in Requests, NEW q, reqs[r].pc # "inserted",
         reqs' = [reqs EXCEPT ![r] = q],
         \A u \in Users : Exists(u)' /\ ~Exists(u) => q.pc = "inserted" /\ q.user = u,
         \A u \in profiles : Exists(u)' => u \in profiles'
  PROVE  ProfileOrPending'
<1> SUFFICES ASSUME NEW u \in Users, Exists(u)', u \notin profiles'
             PROVE  \E s \in Requests : reqs'[s].pc = "inserted" /\ reqs'[s].user = u
  BY DEF ProfileOrPending
<1>1. \A s \in Requests : reqs'[s] = IF s = r THEN q ELSE reqs[s]
  BY DEF IInv, TypeOK
<1>2. CASE Exists(u)
  <2>1. PICK s \in Requests : reqs[s].pc = "inserted" /\ reqs[s].user = u
    BY <1>2 DEF ProfileOrPending
  <2> QED BY <1>1, <2>1
<1>3. CASE ~Exists(u)
  BY <1>1, <1>3
<1> QED BY <1>2, <1>3

LEMMA PendingBegin ==
  ASSUME IInv, ProfileOrPending, NEW r \in Requests, Begin(r)
  PROVE  ProfileOrPending'
<1>1. reqs[r].pc # "inserted"
  BY DEF Begin, LoadUpdate, LoadPassword, LoadDelete, LoadRole, LoadLogin, LoadRefresh, Load,
     InsertUser, Idle
<1>2. ASSUME NEW a \in Users, NEW u \in Users, InsertUser(r, a, u)
      PROVE  ProfileOrPending'
  <2>1. PICK q : q = [pc |-> "inserted", user |-> u]
    OBVIOUS
  <2>2. reqs' = [reqs EXCEPT ![r] = q] /\ profiles' = profiles
        /\ q.pc = "inserted" /\ q.user = u
    BY <1>2, <2>1 DEF InsertUser
  <2>3. \A v \in Users : v # u => users'[v] = users[v]
    BY <1>2 DEF InsertUser, IInv, TypeOK
  <2> QED BY <1>1, <2>2, <2>3, PendingStep DEF Exists
<1>3. CASE ~\E a, u \in Users : InsertUser(r, a, u)
  <2>1. PICK q : reqs' = [reqs EXCEPT ![r] = q] /\ users' = users /\ profiles' = profiles
    BY <1>3 DEF Begin, LoadUpdate, LoadPassword, LoadDelete, LoadRole, LoadLogin,
       LoadRefresh, Load
  <2> QED BY <1>1, <2>1, PendingStep DEF Exists
<1> QED BY <1>2, <1>3

\* What the post_save signal leaves to do is done by the request that owes it.
LEMMA PendingCreateProfile ==
  ASSUME IInv, ProfileOrPending, NEW r \in Requests, CreateProfile(r)
  PROVE  ProfileOrPending'
<1> SUFFICES ASSUME NEW u \in Users, Exists(u)', u \notin profiles'
             PROVE  \E s \in Requests : reqs'[s].pc = "inserted" /\ reqs'[s].user = u
  BY DEF ProfileOrPending
<1>1. Exists(u) /\ u \notin profiles /\ u # reqs[r].user
  BY DEF CreateProfile, Exists
<1>2. PICK s \in Requests : reqs[s].pc = "inserted" /\ reqs[s].user = u
  BY <1>1 DEF ProfileOrPending
<1>3. reqs'[s] = reqs[s]
  BY <1>1, <1>2 DEF CreateProfile, Done, IInv, TypeOK
<1> QED BY <1>2, <1>3

LEMMA PendingFinish ==
  ASSUME IInv, ProfileOrPending, NEW r \in Requests, Finish(r)
  PROVE  ProfileOrPending'
<1>1. CASE SaveUpdate(r)
  <2> DEFINE u == reqs[r].user
  <2>1. \A v \in Users : v # u => users'[v] = users[v]
    BY <1>1 DEF SaveUpdate, IInv, TypeOK
  <2>2. reqs[r].pc # "inserted" /\ profiles' = profiles
    BY <1>1 DEF SaveUpdate
  <2>3. CASE Exists(u)
    BY <1>1, <2>1, <2>2, <2>3, PendingStep DEF SaveUpdate, Done, Exists
  <2>4. CASE ~Exists(u)
    <3>1. PICK q : q = [pc |-> "inserted", user |-> u]
      OBVIOUS
    <3>2. reqs' = [reqs EXCEPT ![r] = q] /\ q.pc = "inserted" /\ q.user = u
      BY <1>1, <2>4, <3>1 DEF SaveUpdate
    <3> QED BY <2>1, <2>2, <3>2, PendingStep DEF Exists
  <2> QED BY <2>3, <2>4
<1>2. CASE ChangeRole(r)
  <2>1. \A v \in Users : ~Exists(v) => users'[v] = users[v]
    BY <1>2 DEF ChangeRole, RoleChangeRefused, IInv, TypeOK
  <2> QED BY <1>2, <2>1, PendingStep DEF ChangeRole, Done, Exists
<1>3. CASE ChangePassword(r)
  <2>1. \A v \in Users : ~Exists(v) => users'[v] = users[v]
    BY <1>3 DEF ChangePassword, IInv, TypeOK
  <2> QED BY <1>3, <2>1, PendingStep DEF ChangePassword, Done, Exists
<1>4. CASE DeleteUser(r)
  <2> DEFINE u == reqs[r].user
  <2>1. u \in Users
    BY <1>4 DEF DeleteUser, IInv, TypeOK, Request, Idle
  <2>2. CASE u \in profiles /\ ~reqs[r].profile
    BY <1>4, <2>2, PendingStep DEF DeleteUser, Done, Exists
  <2>3. CASE ~(u \in profiles /\ ~reqs[r].profile)
    <3>1. users' = [users EXCEPT ![u] = NoUser] /\ profiles' = profiles \ {u}
      BY <1>4, <2>3 DEF DeleteUser
    <3>2. users'[u] = NoUser /\ \A v \in Users : v # u => users'[v] = users[v]
      BY <2>1, <3>1 DEF IInv, TypeOK
    <3>3. reqs[r].pc # "inserted" /\ reqs' = [reqs EXCEPT ![r] = Idle]
      BY <1>4 DEF DeleteUser, Done
    <3>4. \A v \in profiles : v \in Users
      BY DEF IInv, TypeOK
    <3> QED BY <3>1, <3>2, <3>3, <3>4, PendingStep DEF Exists
  <2> QED BY <2>2, <2>3
<1>5. CASE Rotate(r) \/ \E t \in Tokens : Issue(r, t)
  <2>1. PICK q : reqs' = [reqs EXCEPT ![r] = q]
    BY <1>5 DEF Rotate, Issue, Done
  <2> QED BY <1>5, <2>1, PendingStep DEF Rotate, Issue, Exists
<1> QED BY <1>1, <1>2, <1>3, <1>4, <1>5, PendingCreateProfile DEF Finish

LEMMA StepPending ==
  ASSUME IInv, ProfileOrPending, Work \/ UNCHANGED vars
  PROVE  ProfileOrPending'
<1>1. ASSUME NEW t \in Tokens, Logout(t) PROVE ProfileOrPending'
  BY <1>1 DEF Logout, ProfileOrPending, Exists
<1>2. CASE UNCHANGED vars
  BY <1>2 DEF vars, ProfileOrPending, Exists
<1> QED BY <1>1, <1>2, PendingBegin, PendingFinish DEF Work

\* A user without a profile has one on the way, unless a worker died between
\* the row and the signal (post_save of the user).
THEOREM ProfilesAreComing == MCSpec => []ProfileUnlessCrash
<1> DEFINE Inv == IInv /\ ProfileUnlessCrash
<1>1. MCInit => Inv
  BY InitIInv DEF MCInit, Init, ProfileUnlessCrash, ProfileOrPending, Exists
<1>2. Inv /\ [MCNext]_mcvars => Inv'
  <2> SUFFICES ASSUME Inv, [MCNext]_mcvars PROVE Inv'
    OBVIOUS
  <2>1. [Next]_vars /\ scenario' = scenario
    BY DEF MCNext, Next, mcvars
  <2>2. scenario # "crashes" => Work \/ UNCHANGED vars
    BY DEF MCNext, mcvars
  <2> QED BY <2>1, <2>2, StepIInv, StepPending DEF ProfileUnlessCrash
<1>3. Inv => ProfileUnlessCrash
  OBVIOUS
<1> QED
  <2> HIDE DEF Inv
  <2> QED BY <1>1, <1>2, <1>3, PTL DEF MCSpec

===============================================================================
