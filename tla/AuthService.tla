----------------------------- MODULE AuthService -----------------------------
(***************************************************************************)
(* auth.service.ts: login, refreshToken and logout.  A request that is     *)
(* rejected before it has written anything leaves no trace.                *)
(***************************************************************************)
EXTENDS Accounts

\* The sessions of a user that have begun are over.
endSessions(u) ==
  sessions' = [s \in RowIds |->
    IF sessions[s].user = u THEN [sessions[s] EXCEPT !.state = "over"]
    ELSE sessions[s]]

---------------------------------------------------------------------------
\* login

\* The password is right; the role is the one the user has at this time.
login(c, u) ==
  /\ at(c, "idle") /\ idsLeft
  /\ isUser(u)
  /\ enter(c, [Idle EXCEPT !.pc = "login:sign", !.user = u,
                           !.role = users[u]])
  /\ UNCHANGED <<tables, held, sessions, faults, clock>>

sign_currentRole(c) ==
  /\ call[c].pc \in {"login:sign", "refresh:sign"}
  /\ enter(c, [call[c] EXCEPT
       !.pc = IF @ = "login:sign" THEN "login:create" ELSE "refresh:create",
       !.token = [sub |-> call[c].user, role |-> users[call[c].user],
                  iat |-> clock]])
  /\ UNCHANGED <<tables, held, sessions, faults, clock>>

\* generateToken, of login and of refreshToken.
sign(c) ==
  /\ call[c].pc \in {"login:sign", "refresh:sign"}
  /\ enter(c, [call[c] EXCEPT
       !.pc = IF @ = "login:sign" THEN "login:create" ELSE "refresh:create",
       !.token = [sub |-> call[c].user, role |-> call[c].role,
                  iat |-> clock]])
  /\ UNCHANGED <<tables, held, sessions, faults, clock>>

\* The response carries the new tokens once their row is in the table.
responding(c) ==
  enter(c, [Idle EXCEPT !.pc = "respond", !.token = call[c].token])

loginCreate(c) ==
  /\ at(c, "login:create")
  /\ \/ /\ insertRow(call[c].token, nextRow)
        /\ sessions' = [sessions EXCEPT ![nextRow] =
             [user |-> call[c].user, state |-> "begun"]]
        /\ responding(c)
     \/ /\ refused(call[c].token)
        /\ finish(c)
        /\ UNCHANGED <<tables, sessions>>
  /\ UNCHANGED <<held, faults, clock>>

respond(c) ==
  /\ at(c, "respond")
  /\ held' = held \cup {call[c].token}
  /\ finish(c)
  /\ UNCHANGED <<tables, sessions, faults, clock>>

---------------------------------------------------------------------------
\* refreshToken

\* The signature is verified and the user read.
refreshToken(c, t) ==
  /\ at(c, "idle") /\ idsLeft
  /\ t \in held
  /\ refreshValid(t)
  /\ isUser(t.sub)
  /\ enter(c, [Idle EXCEPT !.pc = "refresh:find", !.user = t.sub,
                           !.role = users[t.sub], !.token = t])
  /\ UNCHANGED <<tables, held, sessions, faults, clock>>

\* The stored token, and whether it has expired by now.
refreshFind(c) ==
  /\ at(c, "refresh:find")
  /\ \/ \E k \in RowIds :
          /\ refreshTokens[k].token = call[c].token
          /\ enter(c, [call[c] EXCEPT !.token = NoToken, !.row = k,
               !.session = refreshTokens[k].session,
               !.pc = IF refreshTokens[k].expiresAt < clock
                      THEN "refresh:expire" ELSE "refresh:delete"])
     \/ /\ \A k \in RowIds : refreshTokens[k].token # call[c].token
        /\ finish(c)
  /\ UNCHANGED <<tables, held, sessions, faults, clock>>

\* Whether or not the row is still there, the request answers 401.
refreshExpire(c) ==
  /\ at(c, "refresh:expire")
  /\ deleteRows({call[c].row})
  /\ sessions' = IF isRow(call[c].row)
                 THEN [sessions EXCEPT ![call[c].session].state = "over"]
                 ELSE sessions
  /\ finish(c)
  /\ UNCHANGED <<held, faults, clock>>

refreshDelete_tolerant(c) ==
  /\ at(c, "refresh:delete")
  /\ deleteRows({call[c].row})
  /\ enter(c, [call[c] EXCEPT !.pc = "refresh:sign", !.row = 0])
  /\ UNCHANGED <<held, sessions, faults, clock>>

refreshDelete_revokesAll(c) ==
  /\ at(c, "refresh:delete")
  /\ deleteRows(rowsOf(call[c].user))
  /\ IF isRow(call[c].row)
     THEN enter(c, [call[c] EXCEPT !.pc = "refresh:sign", !.row = 0])
     ELSE finish(c)
  /\ UNCHANGED <<held, sessions, faults, clock>>

\* delete throws when another request has deleted the row since.
refreshDelete(c) ==
  /\ at(c, "refresh:delete")
  /\ \/ /\ isRow(call[c].row)
        /\ deleteRows({call[c].row})
        /\ enter(c, [call[c] EXCEPT !.pc = "refresh:sign", !.row = 0])
     \/ /\ ~isRow(call[c].row)
        /\ finish(c)
        /\ UNCHANGED tables
  /\ UNCHANGED <<held, sessions, faults, clock>>

\* When the insert is refused the session is lost with the request.
refreshCreate(c) ==
  /\ at(c, "refresh:create")
  /\ \/ /\ insertRow(call[c].token, call[c].session)
        /\ responding(c)
     \/ /\ refused(call[c].token)
        /\ finish(c)
        /\ UNCHANGED tables
  /\ UNCHANGED <<held, sessions, faults, clock>>

---------------------------------------------------------------------------
\* logout: the route names no role

logout(c, t) ==
  /\ at(c, "idle")
  /\ t \in held
  /\ accessValid(t)
  /\ canActivate({}, t.role)
  /\ enter(c, [Idle EXCEPT !.pc = "logout:delete", !.user = t.sub])
  /\ UNCHANGED <<tables, held, sessions, faults, clock>>

logoutDelete(c) ==
  /\ at(c, "logout:delete")
  /\ deleteRows(rowsOf(call[c].user))
  /\ endSessions(call[c].user)
  /\ finish(c)
  /\ UNCHANGED <<held, faults, clock>>
=============================================================================
