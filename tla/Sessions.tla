------------------------------- MODULE Sessions -------------------------------
(***************************************************************************)
(* Sessions and authority: authentication together with the two handlers   *)
(* elsewhere that write a user's row: ServiceService.create, which makes   *)
(* the owner of a service a provider, and UsersService.remove.             *)
(***************************************************************************)
EXTENDS AuthService

vars == <<tables, held, sessions, call, faults, clock>>

---------------------------------------------------------------------------
\* services/service.service.ts: create

createService_unguarded(c, t) ==
  /\ at(c, "idle")
  /\ t \in held
  /\ accessValid(t)
  /\ canActivate({"CLIENT"}, t.role)
  /\ isUser(t.sub)
  /\ enter(c, [Idle EXCEPT !.pc = "service:insert", !.user = t.sub,
                           !.role = users[t.sub]])
  /\ UNCHANGED <<tables, held, sessions, faults, clock>>

\* The route is for providers, by the role in the token; the user is read.
createService(c, t) ==
  /\ at(c, "idle")
  /\ t \in held
  /\ accessValid(t)
  /\ canActivate({"PROVIDER"}, t.role)
  /\ isUser(t.sub)
  /\ enter(c, [Idle EXCEPT !.pc = "service:insert", !.user = t.sub,
                           !.role = users[t.sub]])
  /\ UNCHANGED <<tables, held, sessions, faults, clock>>

serviceInsert_clientsOnly(c) ==
  /\ at(c, "service:insert")
  /\ \/ /\ isUser(call[c].user)
        /\ providing' = providing \cup {call[c].user}
        /\ IF call[c].role = "CLIENT"
           THEN enter(c, [call[c] EXCEPT !.pc = "service:promote"])
           ELSE finish(c)
     \/ /\ ~isUser(call[c].user)
        /\ finish(c)
        /\ UNCHANGED providing
  /\ UNCHANGED <<users, refreshTokens, nextRow, held, sessions, faults, clock>>

\* service.create throws when the user has been deleted since.
serviceInsert(c) ==
  /\ at(c, "service:insert")
  /\ \/ /\ isUser(call[c].user)
        /\ providing' = providing \cup {call[c].user}
        /\ IF call[c].role # "PROVIDER"
           THEN enter(c, [call[c] EXCEPT !.pc = "service:promote"])
           ELSE finish(c)
     \/ /\ ~isUser(call[c].user)
        /\ finish(c)
        /\ UNCHANGED providing
  /\ UNCHANGED <<users, refreshTokens, nextRow, held, sessions, faults, clock>>

\* updateRoleToProvider throws when the user has been deleted since.
servicePromote(c) ==
  /\ at(c, "service:promote")
  /\ users' = IF isUser(call[c].user)
              THEN [users EXCEPT ![call[c].user] = "PROVIDER"] ELSE users
  /\ finish(c)
  /\ UNCHANGED <<providing, refreshTokens, nextRow, held, sessions, faults,
                 clock>>

\* remove, of a service of the caller's own.
removeService(c, t) ==
  /\ at(c, "idle")
  /\ t \in held
  /\ accessValid(t)
  /\ canActivate({"PROVIDER"}, t.role)
  /\ t.sub \in providing
  /\ enter(c, [Idle EXCEPT !.pc = "service:delete", !.user = t.sub])
  /\ UNCHANGED <<tables, held, sessions, faults, clock>>

\* It may have been his last; delete throws when it is gone.
serviceDelete(c) ==
  /\ at(c, "service:delete")
  /\ \/ providing' = providing \ {call[c].user}
     \/ UNCHANGED providing
  /\ finish(c)
  /\ UNCHANGED <<users, refreshTokens, nextRow, held, sessions, faults, clock>>

---------------------------------------------------------------------------
\* users/users.service.ts: remove, of the caller's own row; the route names
\* no role

remove(c, t) ==
  /\ at(c, "idle")
  /\ t \in held
  /\ accessValid(t)
  /\ canActivate({}, t.role)
  /\ isUser(t.sub)
  /\ enter(c, [Idle EXCEPT !.pc = "user:delete", !.user = t.sub])
  /\ UNCHANGED <<tables, held, sessions, faults, clock>>

\* onDelete: Cascade takes the refresh tokens and the services along, but a
\* user with bookings, payments or reviews cannot be deleted: delete throws.
userDelete(c) ==
  /\ at(c, "user:delete")
  /\ \/ /\ users' = [users EXCEPT ![call[c].user] = "NONE"]
        /\ providing' = providing \ {call[c].user}
        /\ refreshTokens' = [k \in RowIds |->
             IF k \in rowsOf(call[c].user) THEN NoRow ELSE refreshTokens[k]]
        /\ endSessions(call[c].user)
     \/ UNCHANGED <<users, providing, refreshTokens, sessions>>
  /\ finish(c)
  /\ UNCHANGED <<nextRow, held, faults, clock>>

---------------------------------------------------------------------------
\* Faults and the clock

\* A statement is rejected, or the answer does not reach the client.
fail(c) ==
  /\ faults < MaxFaults
  /\ call[c] # Idle
  /\ faults' = faults + 1
  /\ finish(c)
  /\ UNCHANGED <<tables, held, sessions, clock>>

crash ==
  /\ faults < MaxFaults
  /\ \E c \in Callers : call[c] # Idle
  /\ faults' = faults + 1
  /\ call' = [c \in Callers |-> Idle]
  /\ UNCHANGED <<tables, held, sessions, clock>>

tick ==
  /\ clock < Horizon
  /\ clock' = clock + 1
  /\ UNCHANGED <<tables, held, sessions, call, faults>>

---------------------------------------------------------------------------

Init == AccountsInit

Arrive(c) ==
  \/ \E u \in Accounts : login(c, u)
  \/ \E t \in held :
       \/ refreshToken(c, t) \/ logout(c, t)
       \/ createService(c, t) \/ removeService(c, t)
       \/ remove(c, t)

Proceed(c) ==
  \/ sign(c) \/ loginCreate(c) \/ respond(c)
  \/ refreshFind(c) \/ refreshExpire(c) \/ refreshDelete(c) \/ refreshCreate(c)
  \/ logoutDelete(c)
  \/ serviceInsert(c) \/ servicePromote(c) \/ serviceDelete(c)
  \/ userDelete(c)

Next ==
  \/ \E c \in Callers : Arrive(c) \/ Proceed(c) \/ fail(c)
  \/ crash
  \/ tick

Spec == Init /\ [][Next]_vars

TypeOK == AccountsTypeOK

---------------------------------------------------------------------------
\* Properties

rowsIn(s) == {k \in RowIds : refreshTokens[k].session = s}

carriers(s) == {c \in Callers : call[c].pc \in CarryPcs /\ call[c].session = s}

\* A login has one successor at any time, a row or a request that is replacing
\* it: however often a refresh token is presented, and by however many
\* requests at once, one of them gets through ("Refresh token not found").
OneSuccessor ==
  \A s \in RowIds :
    /\ \A k, l \in rowsIn(s) : k = l
    /\ \A c, d \in carriers(s) : c = d
    /\ rowsIn(s) = {} \/ carriers(s) = {}

\* Requests of one session never cost each other the session: unless a fault
\* intervened, it lives on until logout, removal or expiry.  Only a user with
\* another session can lose one, when both are renewed in the same second and
\* the same token is to be inserted twice.
SessionKept ==
  \A s \in RowIds :
    /\ sessions[s].state = "begun"
    /\ faults = 0
    /\ \A t \in RowIds \ {s} : sessions[t].user # sessions[s].user
    => rowsIn(s) # {} \/ carriers(s) # {}

\* The owner of a service is a provider once the request that made the service
\* is through, so that bookings and slots, which look providers up by role,
\* find him; a fault between the two statements is the exception.
OwnersAreProviders ==
  faults = 0 =>
    \A u \in providing :
      \/ users[u] = "PROVIDER"
      \/ \E c \in Callers : at(c, "service:promote") /\ call[c].user = u

level(role) == IF role = "NONE" THEN 0 ELSE UserRoleLevel[role]

\* No request raises the authority of a user, not even with a token that still
\* carries a role he has lost: the only write to a role is that of
\* ServiceService.create, which the guard keeps from clients.
NobodyGainsAuthority ==
  [][\A u \in Accounts : level(users'[u]) <= level(users[u])]_vars

\* Once "User logged out successfully" has been answered, no session that had
\* begun before is alive.
LogoutEndsSessions ==
  \A k \in RowIds :
    isRow(k) => sessions[refreshTokens[k].session].state # "over"
---------------------------------------------------------------------------
\* The inductive invariant behind NobodyGainsAuthority and OwnersAreProviders

\* A role read or signed earlier is not above the one of a client.
clientOnly(u, role) == users[u] = "CLIENT" => role = "CLIENT"

RoleRemembered(q) ==
  /\ q.pc \in LoginPcs \cup RefreshPcs => clientOnly(q.user, q.role)
  /\ q.pc \in TokenPcs => clientOnly(q.token.sub, q.token.role)
  /\ q.pc \in {"service:insert", "service:promote"} =>
       users[q.user] # "CLIENT"
  /\ q.pc = "service:insert" /\ q.role = "PROVIDER" =>
       users[q.user] \in {"PROVIDER", "NONE"}

\* A client has never been anything else, so that no token of his, however
\* old, passes the guard of createService.
RoleInv ==
  /\ \A t \in held : clientOnly(t.sub, t.role)
  /\ \A u \in providing : isUser(u)
  /\ OwnersAreProviders
  /\ \A c \in Callers : RoleRemembered(call[c])

---------------------------------------------------------------------------
\* The inductive invariant behind OneSuccessor and SessionKept

\* A row id that has been read is never handed out again.
SessionRemembered(q) ==
  /\ q.pc \in FoundPcs \cup CarryPcs =>
       q.session < nextRow /\ sessions[q.session].user = q.user
  /\ q.pc \in FoundPcs =>
       /\ q.row < nextRow
       /\ isRow(q.row) => refreshTokens[q.row].session = q.session
  /\ q.pc \in TokenPcs \ {"respond"} => q.token.sub = q.user

RowsOfSessions ==
  \A k \in RowIds : isRow(k) =>
    LET s == refreshTokens[k].session IN
      /\ k < nextRow /\ s < nextRow
      /\ sessions[s].user = refreshTokens[k].token.sub

FreshSessions ==
  \A s \in RowIds :
    s >= nextRow => sessions[s] = [user |-> 0, state |-> "none"]

BegunSessions ==
  \A s \in RowIds : sessions[s].state = "begun" =>
    sessions[s].user \in Accounts /\ isUser(sessions[s].user)

\* Every row and every request that replaces one descends from one login.
SessionInv ==
  /\ OneSuccessor
  /\ SessionKept
  /\ RowsOfSessions
  /\ FreshSessions
  /\ BegunSessions
  /\ \A c \in Callers : SessionRemembered(call[c])
=============================================================================
