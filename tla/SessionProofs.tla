---------------------------- MODULE SessionProofs ----------------------------
(***************************************************************************)
(* Sessions and authority, for every value of the constants.               *)
(***************************************************************************)
EXTENDS Sessions, TLAPS

---------------------------------------------------------------------------
\* Statements

LEMMA IdleIsCall == Idle \in Call
  BY DEF Idle, Call, CallRecord, Pcs, NoToken, LoginPcs, RefreshPcs, FoundPcs,
         CarryPcs, TokenPcs

LEMMA EnterShape ==
  ASSUME TypeOK, NEW c \in Callers, NEW q, enter(c, q)
  PROVE  call'[c] = q /\ \A d \in Callers \ {c} : call'[d] = call[d]
  BY DEF TypeOK, AccountsTypeOK, enter

LEMMA EnterTypeOK ==
  ASSUME TypeOK, NEW c \in Callers, NEW q \in Call, enter(c, q)
  PROVE  call' \in [Callers -> Call]
  BY DEF TypeOK, AccountsTypeOK, enter

LEMMA FinishTypeOK ==
  ASSUME TypeOK, NEW c \in Callers, finish(c)
  PROVE  call' \in [Callers -> Call]
  BY IdleIsCall, EnterTypeOK DEF finish

LEMMA InsertTypeOK ==
  ASSUME TypeOK, NEW t \in Token, NEW s \in RowIds, insertRow(t, s)
  PROVE  refreshTokens' \in [RowIds -> Row] /\ nextRow' \in Nat \ {0}
<1>1. PICK signedAt \in t.iat..clock :
        refreshTokens' = [refreshTokens EXCEPT ![nextRow] =
          [token |-> t, expiresAt |-> signedAt + RefreshTtl, session |-> s]]
  BY DEF insertRow
<1>2. signedAt + RefreshTtl \in Nat
  BY AccountsAssumption DEF TypeOK, AccountsTypeOK, Token
<1>3. [token |-> t, expiresAt |-> signedAt + RefreshTtl, session |-> s] \in Row
  BY <1>2 DEF Row
<1> QED BY <1>1, <1>3 DEF insertRow, TypeOK, AccountsTypeOK

LEMMA DeleteTypeOK ==
  ASSUME TypeOK, NEW S, deleteRows(S)
  PROVE  refreshTokens' \in [RowIds -> Row]
  BY DEF deleteRows, TypeOK, AccountsTypeOK, Row

LEMMA EndTypeOK ==
  ASSUME TypeOK, NEW u, endSessions(u)
  PROVE  sessions' \in [RowIds -> [user : Accounts \cup {0},
                                   state : {"none", "begun", "over"}]]
  BY DEF endSessions, TypeOK, AccountsTypeOK

\* A row that is there carries a token and belongs to a session.
LEMMA RowShape ==
  ASSUME TypeOK, NEW k \in RowIds
  PROVE  IF isRow(k)
         THEN /\ refreshTokens[k].token \in Token
              /\ refreshTokens[k].session \in RowIds
         ELSE /\ refreshTokens[k].token = NoToken
              /\ refreshTokens[k].session = 0
  BY DEF TypeOK, AccountsTypeOK, Row, isRow, NoRow

LEMMA NoTokenIsNone == NoToken \notin Token
  BY DEF NoToken, Token, Roles

---------------------------------------------------------------------------
\* Type correctness

LEMMA ArriveTypeOK ==
  ASSUME TypeOK, NEW c \in Callers, Arrive(c)
  PROVE  TypeOK'
<1> USE DEF TypeOK
<1>1. UNCHANGED <<tables, held, sessions, faults, clock>>
  BY DEF Arrive, login, refreshToken, logout, createService, removeService,
         remove
<1>2. ASSUME NEW q \in Call, enter(c, q)
      PROVE  TypeOK'
  BY <1>1, <1>2, EnterTypeOK DEF AccountsTypeOK, tables
<1> USE DEF Call, CallRecord, Idle, Pcs, NoToken, LoginPcs, RefreshPcs,
            FoundPcs, CarryPcs, TokenPcs, isUser, AccountsTypeOK
<1>3. ASSUME NEW u \in Accounts, login(c, u)
      PROVE  TypeOK'
  BY <1>2, <1>3 DEF login
<1>4. ASSUME NEW t \in Token, refreshToken(c, t)
      PROVE  TypeOK'
  BY <1>2, <1>4 DEF refreshToken, Token
<1>5. ASSUME NEW t \in Token, logout(c, t)
      PROVE  TypeOK'
  BY <1>2, <1>5 DEF logout, Token
<1>6. ASSUME NEW t \in Token, createService(c, t)
      PROVE  TypeOK'
  BY <1>2, <1>6 DEF createService, Token
<1>7. ASSUME NEW t \in Token, removeService(c, t)
      PROVE  TypeOK'
  BY <1>2, <1>7 DEF removeService, Token
<1>8. ASSUME NEW t \in Token, remove(c, t)
      PROVE  TypeOK'
  BY <1>2, <1>8 DEF remove, Token
<1>9. held \subseteq Token
  OBVIOUS
<1> QED BY <1>3, <1>4, <1>5, <1>6, <1>7, <1>8, <1>9 DEF Arrive

LEMMA LoginTypeOK ==
  ASSUME TypeOK, NEW c \in Callers, sign(c) \/ loginCreate(c) \/ respond(c)
  PROVE  TypeOK'
<1>1. call[c] \in Call /\ call[c] \in CallRecord
  BY DEF TypeOK, AccountsTypeOK, Call
<1>2. CASE sign(c)
  <2>1. call[c].user \in Accounts /\ call[c].role \in Roles
    BY <1>1, <1>2 DEF sign, Call, LoginPcs, RefreshPcs, CarryPcs
  <2> DEFINE t == [sub |-> call[c].user, role |-> call[c].role, iat |-> clock]
             pc == IF call[c].pc = "login:sign" THEN "login:create"
                   ELSE "refresh:create"
             q == [call[c] EXCEPT !.pc = pc, !.token = t]
  <2>2. t \in Token
    BY <2>1 DEF Token, TypeOK, AccountsTypeOK
  <2>3. pc \in {"login:create", "refresh:create"}
    OBVIOUS
  <2>4. pc = "refresh:create" => call[c].session \in RowIds
    BY <1>1, <1>2 DEF sign, Call, CarryPcs
  <2>5. enter(c, q)
    BY <1>2 DEF sign
  <2> HIDE DEF t, pc
  <2>6. q \in Call
    BY <1>1, <2>1, <2>2, <2>3, <2>4
    DEF Call, CallRecord, Pcs, LoginPcs, RefreshPcs, FoundPcs, CarryPcs,
        TokenPcs
  <2> HIDE DEF q
  <2> QED BY <1>2, <2>5, <2>6, EnterTypeOK
          DEF sign, TypeOK, AccountsTypeOK, tables
<1>3. call[c].pc \in TokenPcs => call[c].token \in Token
  BY <1>1 DEF Call
<1>4. CASE loginCreate(c)
  <2>1. CASE finish(c) /\ UNCHANGED <<tables, sessions>>
    BY <1>4, <2>1, FinishTypeOK
    DEF loginCreate, TypeOK, AccountsTypeOK, tables
  <2>2. CASE insertRow(call[c].token, nextRow) /\ responding(c)
    <3> DEFINE q == [Idle EXCEPT !.pc = "respond", !.token = call[c].token]
    <3>1. call[c].token \in Token /\ call[c].user \in Accounts
      BY <1>1, <1>3, <1>4 DEF loginCreate, at, TokenPcs, Call
    <3>2. q \in Call
      BY <3>1 DEF Idle, Call, CallRecord, Pcs, LoginPcs, RefreshPcs, FoundPcs,
                  CarryPcs, TokenPcs
    <3>3. enter(c, q)
      BY <2>2 DEF responding
    <3> HIDE DEF q
    <3>4. call' \in [Callers -> Call]
      BY <3>2, <3>3, EnterTypeOK
    <3>5. nextRow \in RowIds
      BY <2>2 DEF insertRow
    <3>6. refreshTokens' \in [RowIds -> Row] /\ nextRow' \in Nat \ {0}
      BY <2>2, <3>1, <3>5, InsertTypeOK
    <3>7. sessions' = sessions \/ sessions' = [sessions EXCEPT ![nextRow] =
                                     [user |-> call[c].user, state |-> "begun"]]
      BY <1>4 DEF loginCreate
    <3> QED BY <1>4, <2>2, <3>1, <3>4, <3>6, <3>7
            DEF loginCreate, insertRow, TypeOK, AccountsTypeOK
  <2> QED BY <1>4, <2>1, <2>2 DEF loginCreate
<1>5. CASE respond(c)
  <2>1. call[c].token \in Token
    BY <1>3, <1>5 DEF respond, at, TokenPcs
  <2> QED BY <1>5, <2>1, FinishTypeOK
          DEF respond, TypeOK, AccountsTypeOK, tables
<1> QED BY <1>2, <1>4, <1>5

LEMMA RefreshTypeOK ==
  ASSUME TypeOK, NEW c \in Callers,
         refreshFind(c) \/ refreshExpire(c) \/ refreshDelete(c)
           \/ refreshCreate(c)
  PROVE  TypeOK'
<1>1. call[c] \in Call /\ call[c] \in CallRecord
  BY DEF TypeOK, AccountsTypeOK, Call
<1> USE DEF TypeOK
<1>2. CASE refreshFind(c)
  <2>1. CASE finish(c)
    BY <1>2, <2>1, FinishTypeOK DEF refreshFind, AccountsTypeOK, tables
  <2>2. ASSUME NEW k \in RowIds, refreshTokens[k].token = call[c].token,
               NEW pc \in FoundPcs,
               enter(c, [call[c] EXCEPT !.token = NoToken, !.row = k,
                           !.session = refreshTokens[k].session, !.pc = pc])
        PROVE  TypeOK'
    <3>1. call[c].token \in Token /\ call[c].user \in Accounts
          /\ call[c].role \in Roles
      BY <1>1, <1>2 DEF refreshFind, at, TokenPcs, Call, RefreshPcs
    <3>2. refreshTokens[k].session \in RowIds
      BY <2>2, <3>1, RowShape, NoTokenIsNone
    <3> DEFINE q == [call[c] EXCEPT !.token = NoToken, !.row = k,
                       !.session = refreshTokens[k].session, !.pc = pc]
    <3>3. q \in Call
      BY <1>1, <2>2, <3>1, <3>2
      DEF Call, CallRecord, Pcs, LoginPcs, RefreshPcs, FoundPcs, CarryPcs,
          TokenPcs
    <3>4. enter(c, q)
      BY <2>2
    <3> HIDE DEF q
    <3> QED BY <1>2, <3>3, <3>4, EnterTypeOK
            DEF refreshFind, AccountsTypeOK, tables
  <2>3. \A k \in RowIds :
          (IF refreshTokens[k].expiresAt < clock
           THEN "refresh:expire" ELSE "refresh:delete") \in FoundPcs
    BY DEF FoundPcs
  <2> QED BY <1>2, <2>1, <2>2, <2>3 DEF refreshFind
<1>3. CASE refreshExpire(c)
  <2>1. sessions' \in [RowIds -> [user : Accounts \cup {0},
                                  state : {"none", "begun", "over"}]]
    BY <1>3 DEF refreshExpire, AccountsTypeOK
  <2> QED BY <1>3, <2>1, FinishTypeOK, DeleteTypeOK
          DEF refreshExpire, deleteRows, AccountsTypeOK
<1>4. CASE refreshDelete(c)
  <2>1. CASE finish(c) /\ UNCHANGED tables
    BY <1>4, <2>1, FinishTypeOK DEF refreshDelete, AccountsTypeOK, tables
  <2> DEFINE q == [call[c] EXCEPT !.pc = "refresh:sign", !.row = 0]
  <2>2. q \in Call
    BY <1>1, <1>4
    DEF refreshDelete, at, Call, CallRecord, Pcs, LoginPcs, RefreshPcs,
        FoundPcs, CarryPcs, TokenPcs
  <2>3. CASE enter(c, q) /\ deleteRows({call[c].row})
    <3> HIDE DEF q
    <3> QED BY <1>4, <2>2, <2>3, EnterTypeOK, DeleteTypeOK
            DEF refreshDelete, deleteRows, AccountsTypeOK
  <2> QED BY <1>4, <2>1, <2>3 DEF refreshDelete
<1>5. CASE refreshCreate(c)
  <2>1. CASE finish(c) /\ UNCHANGED tables
    BY <1>5, <2>1, FinishTypeOK DEF refreshCreate, AccountsTypeOK, tables
  <2>2. CASE insertRow(call[c].token, call[c].session) /\ responding(c)
    <3> DEFINE q == [Idle EXCEPT !.pc = "respond", !.token = call[c].token]
    <3>1. call[c].token \in Token /\ call[c].session \in RowIds
      BY <1>1, <1>5 DEF refreshCreate, at, TokenPcs, CarryPcs, Call
    <3>2. q \in Call
      BY <3>1 DEF Idle, Call, CallRecord, Pcs, LoginPcs, RefreshPcs, FoundPcs,
                  CarryPcs, TokenPcs
    <3>3. enter(c, q)
      BY <2>2 DEF responding
    <3> HIDE DEF q
    <3> QED BY <1>5, <2>2, <3>1, <3>2, <3>3, EnterTypeOK, InsertTypeOK
            DEF refreshCreate, insertRow, AccountsTypeOK
  <2> QED BY <1>5, <2>1, <2>2 DEF refreshCreate
<1> QED BY <1>2, <1>3, <1>4, <1>5

LEMMA ServiceTypeOK ==
  ASSUME TypeOK, NEW c \in Callers,
         serviceInsert(c) \/ servicePromote(c) \/ serviceDelete(c)
  PROVE  TypeOK'
<1>1. call[c] \in Call /\ call[c] \in CallRecord
  BY DEF TypeOK, AccountsTypeOK, Call
<1> USE DEF TypeOK
<1>2. call[c].pc \notin {"idle", "respond"}
  BY DEF serviceInsert, servicePromote, serviceDelete, at
<1>3. call[c].user \in Accounts
  BY <1>1, <1>2 DEF Call
<1>4. CASE serviceInsert(c)
  <2> DEFINE q == [call[c] EXCEPT !.pc = "service:promote"]
  <2>1. q \in Call
    BY <1>1, <1>3 DEF Call, CallRecord, Pcs, LoginPcs, RefreshPcs, FoundPcs,
                      CarryPcs, TokenPcs
  <2>2. enter(c, q) \/ finish(c)
    BY <1>4 DEF serviceInsert
  <2>3. call' \in [Callers -> Call]
    <3> HIDE DEF q
    <3> QED BY <2>1, <2>2, EnterTypeOK, FinishTypeOK
  <2>4. providing' \subseteq Accounts
    BY <1>3, <1>4 DEF serviceInsert, AccountsTypeOK
  <2> QED BY <1>4, <2>3, <2>4 DEF serviceInsert, AccountsTypeOK
<1>5. CASE servicePromote(c)
  <2>1. users' \in [Accounts -> Roles \cup {"NONE"}]
    BY <1>5 DEF servicePromote, AccountsTypeOK, Roles
  <2> QED BY <1>5, <2>1, FinishTypeOK DEF servicePromote, AccountsTypeOK
<1>6. CASE serviceDelete(c)
  BY <1>6, FinishTypeOK DEF serviceDelete, AccountsTypeOK
<1> QED BY <1>4, <1>5, <1>6

LEMMA EndingTypeOK ==
  ASSUME TypeOK, NEW c \in Callers, logoutDelete(c) \/ userDelete(c)
  PROVE  TypeOK'
<1>1. call' \in [Callers -> Call]
  BY FinishTypeOK DEF logoutDelete, userDelete
<1>2. sessions' \in [RowIds -> [user : Accounts \cup {0},
                                state : {"none", "begun", "over"}]]
  BY EndTypeOK DEF logoutDelete, userDelete, TypeOK, AccountsTypeOK
<1>3. refreshTokens' \in [RowIds -> Row]
  BY DeleteTypeOK
  DEF logoutDelete, userDelete, TypeOK, AccountsTypeOK, Row
<1>4. users' \in [Accounts -> Roles \cup {"NONE"}]
  BY DEF logoutDelete, userDelete, deleteRows, TypeOK, AccountsTypeOK
<1> QED BY <1>1, <1>2, <1>3, <1>4
        DEF logoutDelete, userDelete, deleteRows, TypeOK, AccountsTypeOK

\* Every token, row and request keeps its type: what a request holds at a
\* statement is what the statement needs.
THEOREM SessionTypeCorrect == Spec => []TypeOK
<1>1. Init => TypeOK
  BY AccountsAssumption, IdleIsCall
  DEF Init, AccountsInit, TypeOK, AccountsTypeOK, Row
<1>2. ASSUME TypeOK, [Next]_vars
      PROVE  TypeOK'
  <2>1. ASSUME NEW c \in Callers, Arrive(c) \/ Proceed(c)
        PROVE  TypeOK'
    BY <1>2, <2>1, ArriveTypeOK, LoginTypeOK, RefreshTypeOK, ServiceTypeOK,
       EndingTypeOK
    DEF Proceed
  <2>2. ASSUME NEW c \in Callers, fail(c)
        PROVE  TypeOK'
    BY <1>2, <2>2, FinishTypeOK DEF fail, TypeOK, AccountsTypeOK, tables
  <2>3. CASE crash
    BY <1>2, <2>3, IdleIsCall DEF crash, TypeOK, AccountsTypeOK, tables
  <2>4. CASE tick \/ UNCHANGED vars
    BY <1>2, <2>4 DEF tick, vars, TypeOK, AccountsTypeOK, tables
  <2> QED BY <1>2, <2>1, <2>2, <2>3, <2>4 DEF Next
<1> QED BY <1>1, <1>2, PTL DEF Spec

---------------------------------------------------------------------------
\* Authority

\* A role only ever falls.
RolesFall ==
  \A u \in Accounts :
    \/ users'[u] = users[u]
    \/ users'[u] = "NONE"
    \/ users'[u] = "PROVIDER" /\ users[u] \in {"ADMIN", "PROVIDER"}

LEMMA CallCarries ==
  ASSUME TypeOK, NEW c \in Callers
  PROVE  /\ call[c] \in CallRecord
         /\ call[c].pc \notin {"idle", "respond"} => call[c].user \in Accounts
         /\ call[c].pc \in LoginPcs \cup RefreshPcs => call[c].role \in Roles
         /\ call[c].pc \in TokenPcs =>
              call[c].token \in Token /\ call[c].token.sub \in Accounts
         /\ call[c].pc \in FoundPcs => call[c].row \in RowIds
         /\ call[c].pc \in FoundPcs \cup CarryPcs =>
              call[c].session \in RowIds
  BY DEF TypeOK, AccountsTypeOK, Call, Token

LEMMA RoleKept ==
  ASSUME TypeOK, RolesFall, NEW c \in Callers, RoleRemembered(call[c]),
         call'[c] = call[c]
  PROVE  RoleRemembered(call[c])'
<1>1. ASSUME NEW u \in Accounts, NEW role, clientOnly(u, role)
      PROVE  clientOnly(u, role)'
  BY <1>1 DEF RolesFall, clientOnly
<1>2. call[c].pc \in LoginPcs \cup RefreshPcs \cup
                       {"service:insert", "service:promote"} =>
        call[c].user \in Accounts
  BY CallCarries DEF LoginPcs, RefreshPcs, FoundPcs, CarryPcs
<1>3. call[c].pc \in TokenPcs => call[c].token.sub \in Accounts
  BY CallCarries
<1>4. call[c].pc \in LoginPcs \cup RefreshPcs =>
        clientOnly(call[c].user, call[c].role)'
  BY <1>1, <1>2 DEF RoleRemembered
<1>5. call[c].pc \in TokenPcs =>
        clientOnly(call[c].token.sub, call[c].token.role)'
  BY <1>1, <1>3 DEF RoleRemembered
<1>6. /\ call[c].pc \in {"service:insert", "service:promote"} =>
           users'[call[c].user] # "CLIENT"
      /\ call[c].pc = "service:insert" /\ call[c].role = "PROVIDER" =>
           users'[call[c].user] \in {"PROVIDER", "NONE"}
  BY <1>2 DEF RoleRemembered, RolesFall
<1> QED BY <1>4, <1>5, <1>6 DEF RoleRemembered, clientOnly

LEMMA IdleRole ==
  ASSUME NEW c, call'[c].pc \in {"idle", "logout:delete", "service:delete",
                                 "user:delete"}
  PROVE  RoleRemembered(call[c])'
  BY DEF RoleRemembered, LoginPcs, RefreshPcs, FoundPcs, CarryPcs, TokenPcs

\* What is left to show of a step of one request.
LEMMA StepRoleInv ==
  ASSUME TypeOK, RoleInv, RolesFall, NEW c \in Callers,
         \A d \in Callers \ {c} : call'[d] = call[d],
         \A t \in held' : t \in held \/ (t \in Token /\ clientOnly(t.sub, t.role)),
         \A u \in providing' : isUser(u)', OwnersAreProviders',
         RoleRemembered(call[c])'
  PROVE  RoleInv'
<1>1. ASSUME NEW d \in Callers
      PROVE  RoleRemembered(call[d])'
  BY <1>1, RoleKept DEF RoleInv
<1>2. ASSUME NEW t \in held'
      PROVE  clientOnly(t.sub, t.role)'
  <2>1. t.sub \in Accounts /\ clientOnly(t.sub, t.role)
    BY DEF RoleInv, TypeOK, AccountsTypeOK, Token
  <2> QED BY <2>1 DEF clientOnly, RolesFall
<1> QED BY <1>1, <1>2 DEF RoleInv

\* The owners of services when nobody becomes one.
LEMMA OwnersKept ==
  ASSUME TypeOK, RoleInv, RolesFall, NEW c \in Callers, faults' = faults,
         \A d \in Callers \ {c} : call'[d] = call[d],
         providing' \subseteq providing, \A u \in providing' : isUser(u)',
         at(c, "service:promote") => users'[call[c].user] \in {"PROVIDER", "NONE"}
  PROVE  OwnersAreProviders'
<1> SUFFICES ASSUME faults = 0, NEW u \in providing', users'[u] # "PROVIDER"
             PROVE  \E d \in Callers :
                      call'[d].pc = "service:promote" /\ call'[d].user = u
  BY DEF OwnersAreProviders, at
<1>1. u \in Accounts /\ u \in providing /\ users'[u] # "NONE"
  BY DEF TypeOK, AccountsTypeOK, isUser
<1>2. users[u] # "PROVIDER"
  BY <1>1 DEF RolesFall
<1>3. PICK d \in Callers : at(d, "service:promote") /\ call[d].user = u
  BY <1>1, <1>2 DEF RoleInv, OwnersAreProviders
<1>4. d # c
  BY <1>1, <1>3
<1> QED BY <1>3, <1>4 DEF at

\* The users and their services stay as they are.
LEMMA QuietRoleInv ==
  ASSUME TypeOK, RoleInv, NEW c \in Callers,
         users' = users, providing' = providing, faults' = faults,
         ~at(c, "service:promote"),
         \A d \in Callers \ {c} : call'[d] = call[d],
         \A t \in held' : t \in held \/ (t \in Token /\ clientOnly(t.sub, t.role)),
         RoleRemembered(call[c])'
  PROVE  RoleInv'
<1>1. RolesFall /\ \A u \in providing' : isUser(u)'
  BY DEF RolesFall, RoleInv, isUser
<1>2. OwnersAreProviders'
  BY <1>1, OwnersKept
<1> QED BY <1>1, <1>2, StepRoleInv

LEMMA ArriveRoleInv ==
  ASSUME TypeOK, RoleInv, NEW c \in Callers, Arrive(c)
  PROVE  RoleInv'
<1>1. /\ users' = users /\ providing' = providing /\ faults' = faults
      /\ held' = held
      /\ ~at(c, "service:promote")
  BY DEF Arrive, login, refreshToken, logout, createService, removeService,
         remove, tables, at
<1>2. ASSUME NEW q, enter(c, q), RoleRemembered(q)
      PROVE  RoleInv'
  <2>1. RoleRemembered(call[c])'
    BY <1>1, <1>2, EnterShape DEF RoleRemembered, clientOnly
  <2> QED BY <1>1, <1>2, <2>1, EnterShape, QuietRoleInv
<1> USE DEF RoleRemembered, clientOnly, Idle, LoginPcs, RefreshPcs, FoundPcs,
            CarryPcs, TokenPcs
<1>3. ASSUME NEW u \in Accounts, login(c, u)
      PROVE  RoleInv'
  BY <1>2, <1>3 DEF login
<1>4. ASSUME NEW t \in held, refreshToken(c, t)
      PROVE  RoleInv'
  BY <1>2, <1>4 DEF refreshToken, RoleInv
<1>5. ASSUME NEW t \in held, logout(c, t)
      PROVE  RoleInv'
  BY <1>2, <1>5 DEF logout
<1>6. ASSUME NEW t \in held, createService(c, t)
      PROVE  RoleInv'
  <2>1. users[t.sub] # "CLIENT"
    BY <1>6
    DEF createService, canActivate, rolesRequired, UserRoleLevel, RoleInv
  <2> QED BY <1>2, <1>6, <2>1 DEF createService
<1>7. ASSUME NEW t \in held, removeService(c, t)
      PROVE  RoleInv'
  BY <1>2, <1>7 DEF removeService
<1>8. ASSUME NEW t \in held, remove(c, t)
      PROVE  RoleInv'
  BY <1>2, <1>8 DEF remove
<1> QED BY <1>3, <1>4, <1>5, <1>6, <1>7, <1>8 DEF Arrive

LEMMA AuthRoleInv ==
  ASSUME TypeOK, RoleInv, NEW c \in Callers,
         sign(c) \/ loginCreate(c) \/ respond(c) \/ refreshFind(c)
           \/ refreshExpire(c) \/ refreshDelete(c) \/ refreshCreate(c)
           \/ logoutDelete(c)
  PROVE  RoleInv'
<1>1. /\ users' = users /\ providing' = providing /\ faults' = faults
      /\ ~at(c, "service:promote")
  BY DEF sign, loginCreate, respond, refreshFind, refreshExpire,
         refreshDelete, refreshCreate, logoutDelete, insertRow, deleteRows,
         tables, at
<1>2. RoleRemembered(call[c])
  BY DEF RoleInv
<1>3. ASSUME held' = held, NEW q, enter(c, q), RoleRemembered(q)
      PROVE  RoleInv'
  <2>1. RoleRemembered(call[c])'
    BY <1>1, <1>3, EnterShape DEF RoleRemembered, clientOnly
  <2> QED BY <1>1, <1>3, <2>1, EnterShape, QuietRoleInv
<1>4. ASSUME held' = held, finish(c)
      PROVE  RoleInv'
  BY <1>3, <1>4
  DEF finish, Idle, RoleRemembered, LoginPcs, RefreshPcs, FoundPcs, CarryPcs,
      TokenPcs
<1>5. ASSUME held' = held, call[c].pc \in TokenPcs, responding(c)
      PROVE  RoleInv'
  BY <1>2, <1>3, <1>5
  DEF responding, Idle, RoleRemembered, LoginPcs, RefreshPcs, FoundPcs,
      CarryPcs, TokenPcs
<1>6. CASE sign(c)
  <2> DEFINE t == [sub |-> call[c].user, role |-> call[c].role, iat |-> clock]
             pc == IF call[c].pc = "login:sign" THEN "login:create"
                   ELSE "refresh:create"
             q == [call[c] EXCEPT !.pc = pc, !.token = t]
  <2>1. enter(c, q) /\ held' = held
    BY <1>6 DEF sign
  <2>2. clientOnly(call[c].user, call[c].role)
    BY <1>2, <1>6 DEF sign, RoleRemembered, LoginPcs, RefreshPcs, CarryPcs
  <2>3. /\ q.pc \in {"login:create", "refresh:create"}
        /\ q.user = call[c].user /\ q.role = call[c].role
        /\ q.token.sub = call[c].user /\ q.token.role = call[c].role
    BY CallCarries DEF CallRecord
  <2> HIDE DEF q
  <2>4. RoleRemembered(q)
    BY <2>2, <2>3 DEF RoleRemembered
  <2> QED BY <1>3, <2>1, <2>4
<1>7. CASE loginCreate(c) \/ refreshCreate(c)
  BY <1>4, <1>5, <1>7 DEF loginCreate, refreshCreate, at, TokenPcs
<1>8. CASE respond(c)
  <2>1. call[c].token \in Token
        /\ clientOnly(call[c].token.sub, call[c].token.role)
    BY <1>2, <1>8, CallCarries DEF respond, at, RoleRemembered, TokenPcs
  <2>2. call'[c].pc = "idle" /\ \A d \in Callers \ {c} : call'[d] = call[d]
    BY <1>8, EnterShape DEF respond, finish, Idle
  <2> QED BY <1>1, <1>8, <2>1, <2>2, IdleRole, QuietRoleInv DEF respond
<1>9. ASSUME call[c].pc \in RefreshPcs, held' = held,
             NEW q, enter(c, q), q.pc \in FoundPcs \cup {"refresh:sign"},
             q.user = call[c].user, q.role = call[c].role
      PROVE  RoleInv'
  BY <1>2, <1>3, <1>9
  DEF RoleRemembered, LoginPcs, RefreshPcs, FoundPcs, CarryPcs, TokenPcs
<1>10. CASE refreshFind(c)
  <2>1. CASE finish(c)
    BY <1>4, <1>10, <2>1 DEF refreshFind
  <2>2. ASSUME NEW k \in RowIds, NEW pc \in FoundPcs,
               enter(c, [call[c] EXCEPT !.token = NoToken, !.row = k,
                           !.session = refreshTokens[k].session, !.pc = pc])
        PROVE  RoleInv'
    <3> DEFINE q == [call[c] EXCEPT !.token = NoToken, !.row = k,
                       !.session = refreshTokens[k].session, !.pc = pc]
    <3>1. q.pc = pc /\ q.user = call[c].user /\ q.role = call[c].role
      BY CallCarries DEF CallRecord
    <3>2. enter(c, q)
      BY <2>2
    <3> HIDE DEF q
    <3> QED BY <1>9, <1>10, <2>2, <3>1, <3>2 DEF refreshFind, at, RefreshPcs
  <2>3. \A k \in RowIds :
          (IF refreshTokens[k].expiresAt < clock
           THEN "refresh:expire" ELSE "refresh:delete") \in FoundPcs
    BY DEF FoundPcs
  <2> QED BY <1>10, <2>1, <2>2, <2>3 DEF refreshFind
<1>11. CASE refreshDelete(c)
  <2> DEFINE q == [call[c] EXCEPT !.pc = "refresh:sign", !.row = 0]
  <2>1. /\ q.pc = "refresh:sign" /\ q.user = call[c].user
        /\ q.role = call[c].role
    BY CallCarries DEF CallRecord
  <2>2. enter(c, q) \/ finish(c)
    BY <1>11 DEF refreshDelete
  <2> HIDE DEF q
  <2> QED BY <1>4, <1>9, <1>11, <2>1, <2>2
          DEF refreshDelete, at, RefreshPcs, FoundPcs
<1>12. CASE refreshExpire(c) \/ logoutDelete(c)
  BY <1>4, <1>12 DEF refreshExpire, logoutDelete
<1> QED BY <1>6, <1>7, <1>8, <1>10, <1>11, <1>12

LEMMA ServiceRoleInv ==
  ASSUME TypeOK, RoleInv, NEW c \in Callers,
         serviceInsert(c) \/ servicePromote(c) \/ serviceDelete(c)
           \/ userDelete(c)
  PROVE  RoleInv'
<1> DEFINE u == call[c].user
<1>1. u \in Accounts
  BY CallCarries DEF serviceInsert, servicePromote, serviceDelete, userDelete, at
<1>2. held' = held /\ faults' = faults
  BY DEF serviceInsert, servicePromote, serviceDelete, userDelete
<1>3. RoleRemembered(call[c])
  BY DEF RoleInv
<1>4. ASSUME finish(c)
      PROVE  /\ call'[c].pc = "idle"
             /\ \A d \in Callers \ {c} : call'[d] = call[d]
             /\ RoleRemembered(call[c])'
  BY <1>4, EnterShape, IdleRole DEF finish, Idle
<1>5. ASSUME finish(c), RolesFall, providing' \subseteq providing,
             \A v \in providing' : isUser(v)',
             at(c, "service:promote") => users'[u] \in {"PROVIDER", "NONE"}
      PROVE  RoleInv'
  <2>1. OwnersAreProviders'
    BY <1>2, <1>4, <1>5, OwnersKept
  <2> QED BY <1>2, <1>4, <1>5, <2>1, StepRoleInv
<1>6. CASE serviceInsert(c)
  <2>1. users' = users /\ RolesFall
    BY <1>6 DEF serviceInsert, RolesFall
  <2>2. users[u] # "CLIENT"
        /\ (call[c].role = "PROVIDER" => users[u] \in {"PROVIDER", "NONE"})
    BY <1>3, <1>6 DEF serviceInsert, at, RoleRemembered
  <2>3. CASE finish(c) /\ UNCHANGED providing
    BY <1>5, <1>6, <2>1, <2>3 DEF serviceInsert, at, RoleInv, isUser
  <2>4. CASE isUser(u) /\ providing' = providing \cup {u}
    <3>1. \A v \in providing' : isUser(v)'
      BY <2>1, <2>4 DEF RoleInv, isUser
    <3> DEFINE q == [call[c] EXCEPT !.pc = "service:promote"]
    <3>2. q.pc = "service:promote" /\ q.user = u
      BY CallCarries DEF CallRecord
    <3>3. CASE enter(c, q)
      <4> HIDE DEF q
      <4>1. /\ call'[c] = q
            /\ \A d \in Callers \ {c} : call'[d] = call[d]
        BY <3>3, EnterShape
      <4>2. RoleRemembered(call[c])'
        BY <2>1, <2>2, <3>2, <4>1
        DEF RoleRemembered, LoginPcs, RefreshPcs, FoundPcs, CarryPcs, TokenPcs
      <4>3. OwnersAreProviders'
        <5> SUFFICES ASSUME faults = 0, NEW v \in providing',
                            users[v] # "PROVIDER"
                     PROVE  \E d \in Callers :
                              /\ call'[d].pc = "service:promote"
                              /\ call'[d].user = v
          BY <1>2, <2>1 DEF OwnersAreProviders, at
        <5>1. CASE v = u
          BY <3>2, <4>1, <5>1
        <5>2. CASE v \in providing
          <6>1. PICK d \in Callers : at(d, "service:promote")
                                     /\ call[d].user = v
            BY <5>2 DEF RoleInv, OwnersAreProviders
          <6>2. d # c
            BY <1>6, <6>1 DEF serviceInsert, at
          <6> QED BY <4>1, <6>1, <6>2 DEF at
        <5> QED BY <2>4, <5>1, <5>2
      <4> QED BY <1>2, <2>1, <3>1, <4>1, <4>2, <4>3, StepRoleInv
    <3>4. CASE call[c].role = "PROVIDER" /\ finish(c)
      <4>1. users'[u] = "PROVIDER"
        BY <2>1, <2>2, <2>4, <3>4 DEF isUser
      <4>2. OwnersAreProviders'
        <5> SUFFICES ASSUME faults = 0, NEW v \in providing',
                            users[v] # "PROVIDER"
                     PROVE  \E d \in Callers :
                              /\ call'[d].pc = "service:promote"
                              /\ call'[d].user = v
          BY <1>2, <2>1 DEF OwnersAreProviders, at
        <5>1. v \in providing
          BY <2>1, <2>4, <4>1
        <5>2. PICK d \in Callers : at(d, "service:promote")
                                   /\ call[d].user = v
          BY <5>1 DEF RoleInv, OwnersAreProviders
        <5>3. d # c
          BY <1>6, <5>2 DEF serviceInsert, at
        <5> QED BY <1>4, <3>4, <5>2, <5>3 DEF at
      <4> QED BY <1>2, <1>4, <2>1, <3>1, <3>4, <4>2, StepRoleInv
    <3>5. enter(c, q) \/ (call[c].role = "PROVIDER" /\ finish(c))
      BY <1>6, <2>4 DEF serviceInsert
    <3> QED BY <3>3, <3>4, <3>5
  <2> QED BY <1>6, <2>3, <2>4 DEF serviceInsert
<1>7. CASE servicePromote(c)
  <2>1. users[u] # "CLIENT"
    BY <1>3, <1>7 DEF servicePromote, at, RoleRemembered
  <2>2. RolesFall
    BY <1>1, <1>7, <2>1
    DEF servicePromote, RolesFall, TypeOK, AccountsTypeOK, Roles, isUser
  <2>3. users'[u] \in {"PROVIDER", "NONE"}
    BY <1>1, <1>7 DEF servicePromote, TypeOK, AccountsTypeOK, isUser
  <2>4. \A v \in providing' : isUser(v)'
    BY <1>7 DEF servicePromote, RoleInv, isUser, TypeOK, AccountsTypeOK
  <2> QED BY <1>5, <1>7, <2>2, <2>3, <2>4 DEF servicePromote
<1>8. CASE serviceDelete(c)
  <2>1. RolesFall /\ \A v \in providing' : isUser(v)'
    BY <1>8 DEF serviceDelete, RolesFall, RoleInv, isUser
  <2> QED BY <1>5, <1>8, <2>1 DEF serviceDelete, at
<1>9. CASE userDelete(c)
  <2>1. RolesFall /\ \A v \in providing' : isUser(v)'
    BY <1>9 DEF userDelete, RolesFall, RoleInv, isUser, TypeOK, AccountsTypeOK
  <2> QED BY <1>5, <1>9, <2>1 DEF userDelete, at
<1> QED BY <1>6, <1>7, <1>8, <1>9

\* A fault, the clock or nothing at all.
LEMMA OutsideRoleInv ==
  ASSUME TypeOK, RoleInv, UNCHANGED <<tables, held>>,
         \A c \in Callers : call'[c] = call[c] \/ call'[c].pc = "idle",
         faults' = 0 => faults = 0 /\ \A c \in Callers : call'[c] = call[c]
  PROVE  RoleInv'
<1>1. RolesFall /\ users' = users /\ providing' = providing /\ held' = held
  BY DEF RolesFall, tables
<1>2. ASSUME NEW c \in Callers
      PROVE  RoleRemembered(call[c])'
  BY <1>1, <1>2, RoleKept, IdleRole DEF RoleInv
<1>3. OwnersAreProviders'
  BY <1>1 DEF RoleInv, OwnersAreProviders, at
<1> QED BY <1>1, <1>2, <1>3 DEF RoleInv, isUser, clientOnly

LEMMA NextRoleInv ==
  ASSUME TypeOK, RoleInv, [Next]_vars
  PROVE  RoleInv'
<1>1. ASSUME NEW c \in Callers, Arrive(c) \/ Proceed(c)
      PROVE  RoleInv'
  BY <1>1, ArriveRoleInv, AuthRoleInv, ServiceRoleInv DEF Proceed
<1>2. ASSUME NEW c \in Callers, fail(c)
      PROVE  RoleInv'
  <2>1. \A d \in Callers : call'[d] = call[d] \/ call'[d].pc = "idle"
    BY <1>2, EnterShape DEF fail, finish, Idle
  <2>2. faults' # 0 /\ faults' # faults
    BY <1>2 DEF fail, TypeOK, AccountsTypeOK
  <2> QED BY <1>2, <2>1, <2>2, OutsideRoleInv DEF fail
<1>3. CASE crash
  <2>1. faults' # 0 /\ faults' # faults
    BY <1>3 DEF crash, TypeOK, AccountsTypeOK
  <2> QED BY <1>3, <2>1, OutsideRoleInv DEF crash, Idle
<1>4. CASE tick \/ UNCHANGED vars
  BY <1>4, OutsideRoleInv DEF tick, vars
<1> QED BY <1>1, <1>2, <1>3, <1>4 DEF Next

\* The one action that writes a role but does not delete its user.
LEMMA StepRolesFall ==
  ASSUME TypeOK, RoleInv, [Next]_vars
  PROVE  RolesFall
<1>1. CASE users' = users
  BY <1>1 DEF RolesFall
<1>2. ASSUME NEW c \in Callers, servicePromote(c)
      PROVE  RolesFall
  <2>1. RoleRemembered(call[c]) /\ call[c].user \in Accounts
    BY <1>2, CallCarries DEF RoleInv, servicePromote, at
  <2>2. users[call[c].user] # "CLIENT"
    BY <1>2, <2>1 DEF servicePromote, at, RoleRemembered
  <2> QED BY <1>2, <2>2
          DEF servicePromote, RolesFall, TypeOK, AccountsTypeOK, Roles, isUser
<1>3. ASSUME NEW c \in Callers, userDelete(c)
      PROVE  RolesFall
  BY <1>3 DEF userDelete, RolesFall, TypeOK, AccountsTypeOK
<1>4. ASSUME NEW c \in Callers, Arrive(c) \/ fail(c)
      PROVE  users' = users
  BY <1>4 DEF Arrive, login, refreshToken, logout, createService,
              removeService, remove, fail, tables
<1>5. ASSUME NEW c \in Callers, Proceed(c)
      PROVE  users' = users \/ servicePromote(c) \/ userDelete(c)
  BY <1>5 DEF Proceed, sign, loginCreate, respond, refreshFind, refreshExpire,
              refreshDelete, refreshCreate, logoutDelete, serviceInsert,
              serviceDelete, insertRow, deleteRows, tables
<1>6. CASE crash \/ tick \/ UNCHANGED vars
  BY <1>1, <1>6 DEF crash, tick, vars, tables
<1> QED BY <1>1, <1>2, <1>3, <1>4, <1>5, <1>6 DEF Next

---------------------------------------------------------------------------
\* The inductive invariant: tokens, open requests and the table of users agree
\* about who has only ever been a client.
THEOREM RoleInvHolds == Spec => []RoleInv
<1>1. Init => RoleInv
  BY AccountsAssumption
  DEF Init, AccountsInit, RoleInv, OwnersAreProviders, RoleRemembered, Idle,
      LoginPcs, RefreshPcs, FoundPcs, CarryPcs, TokenPcs
<1> QED BY <1>1, NextRoleInv, SessionTypeCorrect, PTL DEF Spec

\* No request raises the authority of a user, by whatever token, in whatever
\* interleaving with the requests that change the user's role.
THEOREM NobodyGainsAuthorityHolds == Spec => NobodyGainsAuthority
<1>1. ASSUME TypeOK, RoleInv, [Next]_vars
      PROVE  [\A u \in Accounts : level(users'[u]) <= level(users[u])]_vars
  <2>1. ASSUME NEW u \in Accounts
        PROVE  level(users'[u]) <= level(users[u])
    <3>1. users[u] \in Roles \cup {"NONE"}
      BY <1>1, <2>1 DEF TypeOK, AccountsTypeOK
    <3>2. level(users[u]) \in {0, 50, 70, 99}
      BY <3>1 DEF level, UserRoleLevel, Roles
    <3>3. CASE users'[u] = users[u]
      BY <3>2, <3>3
    <3>4. CASE users'[u] = "NONE"
      BY <3>2, <3>4 DEF level
    <3>5. CASE users'[u] = "PROVIDER" /\ users[u] \in {"ADMIN", "PROVIDER"}
      BY <3>5 DEF level, UserRoleLevel
    <3> QED BY <1>1, <2>1, <3>3, <3>4, <3>5, StepRolesFall DEF RolesFall
  <2> QED BY <2>1
<1> QED BY <1>1, RoleInvHolds, SessionTypeCorrect, PTL
        DEF Spec, NobodyGainsAuthority

\* Without faults the owner of a service is a provider once the request is
\* through, whoever deletes users and services meanwhile.
THEOREM OwnersAreProvidersHolds == Spec => []OwnersAreProviders
<1>1. RoleInv => OwnersAreProviders
  BY DEF RoleInv
<1> QED BY <1>1, RoleInvHolds, PTL

---------------------------------------------------------------------------
\* Sessions

\* Ids are handed out once, and a row never changes.
RowsMoveOn ==
  /\ nextRow' \in Nat /\ nextRow' >= nextRow
  /\ \A s \in RowIds :
       s < nextRow => sessions'[s].user = sessions[s].user
  /\ \A k \in RowIds :
       k < nextRow /\ isRow(k)' => refreshTokens'[k] = refreshTokens[k]

LEMMA SessionRememberedKept ==
  ASSUME TypeOK, RowsMoveOn, NEW c \in Callers, SessionRemembered(call[c]),
         call'[c] = call[c]
  PROVE  SessionRemembered(call[c])'
<1>1. /\ call[c].pc \in FoundPcs => call[c].row \in RowIds
      /\ call[c].pc \in FoundPcs \cup CarryPcs => call[c].session \in RowIds
      /\ nextRow \in Nat
  BY CallCarries DEF TypeOK, AccountsTypeOK
<1>2. \A n \in RowIds : n < nextRow => n < nextRow'
  <2>1. RowIds \subseteq Nat
    BY DEF RowIds
  <2>2. nextRow' \in Nat /\ nextRow' >= nextRow
    BY DEF RowsMoveOn
  <2> QED BY <1>1, <2>1, <2>2
<1>3. ASSUME call[c].pc \in FoundPcs \cup CarryPcs
      PROVE  /\ call[c].session < nextRow'
             /\ sessions'[call[c].session].user = call[c].user
  <2>1. call[c].session \in RowIds /\ call[c].session < nextRow
        /\ sessions[call[c].session].user = call[c].user
    BY <1>1, <1>3 DEF SessionRemembered
  <2> QED BY <1>1, <1>2, <2>1 DEF RowsMoveOn
<1>4. ASSUME call[c].pc \in FoundPcs
      PROVE  /\ call[c].row < nextRow'
             /\ isRow(call[c].row)' =>
                  refreshTokens'[call[c].row].session = call[c].session
  <2> DEFINE k == call[c].row
  <2>1. k \in RowIds /\ k < nextRow
        /\ (isRow(k) => refreshTokens[k].session = call[c].session)
    BY <1>1, <1>4 DEF SessionRemembered
  <2>2. k < nextRow'
    BY <1>1, <1>2, <2>1 DEF RowsMoveOn
  <2>3. refreshTokens'[k] # NoRow => refreshTokens'[k] = refreshTokens[k]
    BY <2>1 DEF RowsMoveOn, isRow
  <2>4. refreshTokens'[k] # NoRow =>
          refreshTokens'[k].session = call[c].session
    BY <2>1, <2>3 DEF isRow
  <2> QED BY <2>2, <2>4 DEF isRow
<1>5. call[c].pc \in TokenPcs \ {"respond"} => call[c].token.sub = call[c].user
  BY DEF SessionRemembered
<1> QED BY <1>3, <1>4, <1>5 DEF SessionRemembered, isRow

LEMMA IdleSession ==
  ASSUME NEW c, call'[c].pc \in {"idle", "respond"}
  PROVE  SessionRemembered(call[c])'
  BY DEF SessionRemembered, FoundPcs, CarryPcs, TokenPcs

\* What is left to show of a step of one request.
LEMMA StepSessionInv ==
  ASSUME TypeOK, SessionInv, RowsMoveOn, NEW c \in Callers,
         \A d \in Callers \ {c} : call'[d] = call[d],
         OneSuccessor', SessionKept', RowsOfSessions', FreshSessions',
         BegunSessions', SessionRemembered(call[c])'
  PROVE  SessionInv'
<1>1. ASSUME NEW d \in Callers
      PROVE  SessionRemembered(call[d])'
  BY <1>1, SessionRememberedKept DEF SessionInv
<1> QED BY <1>1 DEF SessionInv

LEMMA SessionTypes ==
  ASSUME TypeOK
  PROVE  /\ nextRow \in Nat /\ RowIds \subseteq Nat \ {0}
         /\ \A k \in RowIds : refreshTokens[k].session \in RowIds =>
              isRow(k)
         /\ \A k \in RowIds : isRow(k) =>
              /\ refreshTokens[k].session \in RowIds
              /\ refreshTokens[k].token \in Token
<1>1. nextRow \in Nat /\ RowIds \subseteq Nat \ {0}
  BY DEF TypeOK, AccountsTypeOK, RowIds
<1> QED BY <1>1, RowShape

\* Rows, sessions and what replaces rows stay as they are.
LEMMA QuietSessionInv ==
  ASSUME TypeOK, SessionInv, NEW c \in Callers,
         refreshTokens' = refreshTokens, nextRow' = nextRow,
         sessions' = sessions, faults' = faults,
         \A u \in Accounts : isUser(u) => isUser(u)',
         \A d \in Callers \ {c} : call'[d] = call[d],
         call[c].pc \in CarryPcs <=> call'[c].pc \in CarryPcs,
         call[c].pc \in CarryPcs => call'[c].session = call[c].session,
         SessionRemembered(call[c])'
  PROVE  SessionInv'
<1>1. RowsMoveOn
  BY SessionTypes DEF RowsMoveOn
<1>2. \A s \in RowIds : rowsIn(s)' = rowsIn(s) /\ carriers(s)' = carriers(s)
  BY DEF rowsIn, carriers
<1>3. OneSuccessor'
  BY <1>2 DEF SessionInv, OneSuccessor
<1>4. SessionKept'
  BY <1>2 DEF SessionInv, SessionKept
<1>5. RowsOfSessions' /\ FreshSessions' /\ BegunSessions'
  BY DEF SessionInv, RowsOfSessions, FreshSessions, BegunSessions, isRow
<1> QED BY <1>1, <1>3, <1>4, <1>5, StepSessionInv

LEMMA ArriveSessionInv ==
  ASSUME TypeOK, SessionInv, NEW c \in Callers, Arrive(c)
  PROVE  SessionInv'
<1>1. /\ refreshTokens' = refreshTokens /\ nextRow' = nextRow
      /\ sessions' = sessions /\ users' = users /\ faults' = faults
      /\ call[c].pc = "idle"
  BY DEF Arrive, login, refreshToken, logout, createService, removeService,
         remove, tables, at
<1>2. ASSUME NEW q, enter(c, q), q.pc \notin FoundPcs \cup CarryPcs,
             q.pc \in TokenPcs \ {"respond"} => q.token.sub = q.user
      PROVE  SessionInv'
  <2>1. call'[c] = q /\ \A d \in Callers \ {c} : call'[d] = call[d]
    BY <1>2, EnterShape
  <2>2. SessionRemembered(call[c])'
    BY <1>2, <2>1 DEF SessionRemembered
  <2> QED BY <1>1, <1>2, <2>1, <2>2, QuietSessionInv DEF isUser, CarryPcs
<1> QED BY <1>2
        DEF Arrive, login, refreshToken, logout, createService, removeService,
            remove, Idle, FoundPcs, CarryPcs, TokenPcs

\* Statements that read, sign or answer.
LEMMA SignSessionInv ==
  ASSUME TypeOK, SessionInv, NEW c \in Callers,
         sign(c) \/ respond(c) \/ refreshFind(c)
  PROVE  SessionInv'
<1>1. /\ refreshTokens' = refreshTokens /\ nextRow' = nextRow
      /\ sessions' = sessions /\ users' = users /\ faults' = faults
  BY DEF sign, respond, refreshFind, tables
<1>2. SessionRemembered(call[c])
  BY DEF SessionInv
<1>3. ASSUME NEW q, enter(c, q),
             q.pc \in CarryPcs <=> call[c].pc \in CarryPcs,
             call[c].pc \in CarryPcs => q.session = call[c].session,
             SessionRemembered(q)
      PROVE  SessionInv'
  <2>1. call'[c] = q /\ \A d \in Callers \ {c} : call'[d] = call[d]
    BY <1>3, EnterShape
  <2>2. SessionRemembered(call[c])'
    BY <1>1, <1>3, <2>1 DEF SessionRemembered, isRow
  <2> QED BY <1>1, <1>3, <2>1, <2>2, QuietSessionInv DEF isUser
<1>4. CASE call[c].pc \notin CarryPcs /\ finish(c)
  BY <1>3, <1>4 DEF finish, Idle, SessionRemembered, CarryPcs, FoundPcs, TokenPcs
<1>5. CASE sign(c)
  <2> DEFINE t == [sub |-> call[c].user, role |-> call[c].role, iat |-> clock]
             pc == IF call[c].pc = "login:sign" THEN "login:create"
                   ELSE "refresh:create"
             q == [call[c] EXCEPT !.pc = pc, !.token = t]
  <2>1. enter(c, q) /\ call[c].pc \in {"login:sign", "refresh:sign"}
    BY <1>5 DEF sign
  <2>2. /\ q.pc = pc /\ q.token.sub = q.user /\ q.user = call[c].user
        /\ q.session = call[c].session
    BY CallCarries DEF CallRecord
  <2> HIDE DEF q
  <2>3. q.pc \in CarryPcs <=> call[c].pc \in CarryPcs
    BY <2>1, <2>2 DEF CarryPcs
  <2>4. SessionRemembered(q)
    BY <1>2, <2>1, <2>2, <2>3 DEF SessionRemembered, FoundPcs, CarryPcs
  <2> QED BY <1>3, <2>1, <2>2, <2>3, <2>4
<1>6. CASE respond(c)
  BY <1>4, <1>6 DEF respond, at, CarryPcs
<1>7. CASE refreshFind(c)
  <2>1. CASE finish(c)
    BY <1>4, <1>7, <2>1 DEF refreshFind, at, CarryPcs
  <2>2. ASSUME NEW k \in RowIds, refreshTokens[k].token = call[c].token,
               NEW pc \in FoundPcs,
               enter(c, [call[c] EXCEPT !.token = NoToken, !.row = k,
                           !.session = refreshTokens[k].session, !.pc = pc])
        PROVE  SessionInv'
    <3> DEFINE q == [call[c] EXCEPT !.token = NoToken, !.row = k,
                       !.session = refreshTokens[k].session, !.pc = pc]
    <3>1. /\ q.pc = pc /\ q.row = k /\ q.user = call[c].user
          /\ q.session = refreshTokens[k].session
      BY CallCarries DEF CallRecord
    <3>2. enter(c, q)
      BY <2>2
    <3> HIDE DEF q
    <3>3. call[c].token \in Token /\ call[c].token.sub = call[c].user
      BY <1>2, <1>7, CallCarries
      DEF refreshFind, at, TokenPcs, SessionRemembered
    <3>4. isRow(k)
      BY <2>2, <3>3, RowShape, NoTokenIsNone
    <3>5. /\ k < nextRow /\ refreshTokens[k].session < nextRow
          /\ sessions[refreshTokens[k].session].user = call[c].user
      BY <2>2, <3>3, <3>4 DEF SessionInv, RowsOfSessions
    <3>6. SessionRemembered(q)
      BY <2>2, <3>1, <3>5 DEF SessionRemembered, FoundPcs, CarryPcs, TokenPcs
    <3> QED BY <1>3, <1>7, <2>2, <3>1, <3>2, <3>6
            DEF refreshFind, at, FoundPcs, CarryPcs
  <2>3. \A k \in RowIds :
          (IF refreshTokens[k].expiresAt < clock
           THEN "refresh:expire" ELSE "refresh:delete") \in FoundPcs
    BY DEF FoundPcs
  <2> QED BY <1>7, <2>1, <2>2, <2>3 DEF refreshFind
<1> QED BY <1>5, <1>6, <1>7

\* Rows go, and with each of them its session ends.
LEMMA DeletedSessionInv ==
  ASSUME TypeOK, SessionInv, NEW c \in Callers, call[c].pc \notin CarryPcs,
         finish(c), nextRow' = nextRow, faults' = faults,
         \A k \in RowIds : refreshTokens'[k] \in {NoRow, refreshTokens[k]},
         \A s \in RowIds :
           /\ sessions'[s].user = sessions[s].user
           /\ \/ sessions'[s] = sessions[s]
              \/ s < nextRow /\ sessions'[s].state = "over",
         \A k \in RowIds : isRow(k) /\ ~isRow(k)' =>
           sessions'[refreshTokens[k].session].state = "over",
         \A s \in RowIds : sessions'[s].state = "begun" =>
           isUser(sessions[s].user)'
  PROVE  SessionInv'
<1>1. call'[c].pc = "idle" /\ \A d \in Callers \ {c} : call'[d] = call[d]
  BY EnterShape DEF finish, Idle
<1>2. /\ RowsMoveOn
      /\ \A k \in RowIds : isRow(k)' => refreshTokens'[k] = refreshTokens[k]
  BY SessionTypes DEF RowsMoveOn, isRow
<1>3. \A s \in RowIds :
        /\ rowsIn(s)' \subseteq rowsIn(s)
        /\ carriers(s)' = carriers(s)
        /\ sessions'[s].state # "over" => rowsIn(s)' = rowsIn(s)
  <2>1. ASSUME NEW s \in RowIds, NEW k \in RowIds,
               refreshTokens'[k].session = s
        PROVE  refreshTokens[k].session = s
    <3>1. NoRow.session # s
      BY SessionTypes DEF NoRow
    <3> QED BY <2>1, <3>1
  <2>2. ASSUME NEW s \in RowIds, NEW k \in RowIds,
               refreshTokens[k].session = s, sessions'[s].state # "over"
        PROVE  refreshTokens'[k].session = s
    <3>1. isRow(k)
      BY <2>2, SessionTypes
    <3> QED BY <1>2, <2>2, <3>1
  <2>3. \A s \in RowIds : carriers(s)' = carriers(s)
    BY <1>1 DEF carriers, CarryPcs
  <2> QED BY <2>1, <2>2, <2>3 DEF rowsIn
<1>4. OneSuccessor'
  BY <1>3 DEF SessionInv, OneSuccessor
<1>5. SessionKept'
  BY <1>3 DEF SessionInv, SessionKept
<1>6. RowsOfSessions'
  <2>1. ASSUME NEW k \in RowIds, isRow(k)'
        PROVE  isRow(k) /\ refreshTokens'[k] = refreshTokens[k]
    BY <1>2, <2>1 DEF isRow
  <2>2. \A k \in RowIds : isRow(k) => refreshTokens[k].session \in RowIds
    BY SessionTypes
  <2> QED BY <2>1, <2>2 DEF SessionInv, RowsOfSessions
<1>7. FreshSessions'
  <2>1. ASSUME NEW s \in RowIds, s >= nextRow
        PROVE  sessions'[s] = sessions[s]
    BY <2>1, SessionTypes
  <2> QED BY <2>1 DEF SessionInv, FreshSessions
<1>8. BegunSessions'
  BY DEF SessionInv, BegunSessions
<1> QED BY <1>1, <1>2, <1>4, <1>5, <1>6, <1>7, <1>8, IdleSession,
           StepSessionInv

LEMMA ExpireSessionInv ==
  ASSUME TypeOK, SessionInv, NEW c \in Callers, refreshExpire(c)
  PROVE  SessionInv'
<1>1. /\ call[c].pc = "refresh:expire"
      /\ call[c].row \in RowIds /\ call[c].session \in RowIds
  BY CallCarries DEF refreshExpire, at, FoundPcs
<1>2. /\ call[c].session < nextRow
      /\ isRow(call[c].row) =>
           refreshTokens[call[c].row].session = call[c].session
  BY <1>1 DEF SessionInv, SessionRemembered, FoundPcs
<1>3. /\ finish(c) /\ nextRow' = nextRow /\ faults' = faults /\ users' = users
      /\ \A k \in RowIds :
           refreshTokens'[k] = IF k = call[c].row THEN NoRow
                               ELSE refreshTokens[k]
  BY DEF refreshExpire, deleteRows
<1>4. \A s \in RowIds :
        /\ sessions'[s].user = sessions[s].user
        /\ \/ sessions'[s] = sessions[s]
           \/ s < nextRow /\ sessions'[s].state = "over"
  BY <1>1, <1>2 DEF refreshExpire, TypeOK, AccountsTypeOK
<1>5. ASSUME NEW k \in RowIds, isRow(k), ~isRow(k)'
      PROVE  sessions'[refreshTokens[k].session].state = "over"
  <2>1. k = call[c].row
    BY <1>3, <1>5 DEF isRow
  <2> QED BY <1>1, <1>2, <1>5, <2>1 DEF refreshExpire, TypeOK, AccountsTypeOK
<1>6. ASSUME NEW s \in RowIds, sessions'[s].state = "begun"
      PROVE  isUser(sessions[s].user)'
  BY <1>3, <1>4, <1>6 DEF SessionInv, BegunSessions, isUser
<1> QED BY <1>1, <1>3, <1>4, <1>5, <1>6, DeletedSessionInv DEF CarryPcs

\* logout, and the removal of the user.
LEMMA EndingSessionInv ==
  ASSUME TypeOK, SessionInv, NEW c \in Callers, logoutDelete(c) \/ userDelete(c)
  PROVE  SessionInv'
<1> DEFINE u == call[c].user
<1>0. ASSUME userDelete(c), UNCHANGED <<users, refreshTokens, sessions>>
      PROVE  SessionInv'
  <2>1. call[c].pc \notin CarryPcs /\ finish(c)
    BY <1>0 DEF userDelete, at, CarryPcs
  <2>2. call'[c].pc = "idle" /\ \A d \in Callers \ {c} : call'[d] = call[d]
    BY <2>1, EnterShape DEF finish, Idle
  <2> QED BY <1>0, <2>1, <2>2, IdleSession, QuietSessionInv
          DEF userDelete, isUser, CarryPcs
<1> SUFFICES ASSUME ~(userDelete(c)
                      /\ UNCHANGED <<users, refreshTokens, sessions>>)
             PROVE  SessionInv'
  BY <1>0
<1>1. u \in Accounts /\ u # 0 /\ call[c].pc \notin CarryPcs
  BY CallCarries, AccountsAssumption
  DEF logoutDelete, userDelete, at, CarryPcs
<1>2. /\ finish(c) /\ nextRow' = nextRow /\ faults' = faults
      /\ \A k \in RowIds :
           refreshTokens'[k] = IF k \in rowsOf(u) THEN NoRow
                               ELSE refreshTokens[k]
      /\ endSessions(u)
      /\ \A v \in Accounts \ {u} : users'[v] = users[v]
  BY DEF logoutDelete, userDelete, deleteRows, TypeOK, AccountsTypeOK
<1>3. \A s \in RowIds :
        /\ sessions'[s].user = sessions[s].user
        /\ sessions[s].user = u => sessions'[s].state = "over"
        /\ sessions[s].user # u => sessions'[s] = sessions[s]
  BY <1>2 DEF endSessions, TypeOK, AccountsTypeOK
<1>4. ASSUME NEW s \in RowIds, sessions[s].user = u
      PROVE  s < nextRow
  BY <1>1, <1>4, SessionTypes DEF SessionInv, FreshSessions
<1>5. ASSUME NEW k \in RowIds, isRow(k), ~isRow(k)'
      PROVE  sessions'[refreshTokens[k].session].state = "over"
  <2>1. k \in rowsOf(u)
    BY <1>2, <1>5 DEF isRow
  <2>2. sessions[refreshTokens[k].session].user = u
    BY <1>5, <2>1 DEF rowsOf, SessionInv, RowsOfSessions
  <2> QED BY <1>3, <1>5, <2>2, SessionTypes
<1>6. ASSUME NEW s \in RowIds, sessions'[s].state = "begun"
      PROVE  isUser(sessions[s].user)'
  <2>1. sessions[s].user # u /\ sessions[s].state = "begun"
    BY <1>3, <1>6
  <2> QED BY <1>2, <1>3, <2>1 DEF SessionInv, BegunSessions, isUser
<1> QED BY <1>1, <1>2, <1>3, <1>4, <1>5, <1>6, DeletedSessionInv

\* The row is gone and the request carries its session.
LEMMA RotateSessionInv ==
  ASSUME TypeOK, SessionInv, NEW c \in Callers, refreshDelete(c)
  PROVE  SessionInv'
<1> DEFINE q == [call[c] EXCEPT !.pc = "refresh:sign", !.row = 0]
<1>6. /\ call[c].pc = "refresh:delete"
      /\ call[c].row \in RowIds /\ call[c].session \in RowIds
  BY CallCarries DEF refreshDelete, at, FoundPcs
<1>7. PICK k \in RowIds : k = call[c].row
  BY <1>6
<1>8. PICK s \in RowIds : s = call[c].session
  BY <1>6
<1>1. /\ call[c].pc = "refresh:delete"
      /\ k = call[c].row /\ s = call[c].session
  BY <1>6, <1>7, <1>8
<1>2. SessionRemembered(call[c])
  BY DEF SessionInv
<1>3. sessions' = sessions /\ faults' = faults
  BY DEF refreshDelete
<1>4. CASE finish(c) /\ UNCHANGED tables
  <2>1. call'[c].pc = "idle" /\ \A d \in Callers \ {c} : call'[d] = call[d]
    BY <1>4, EnterShape DEF finish, Idle
  <2> QED BY <1>1, <1>3, <1>4, <2>1, IdleSession, QuietSessionInv
          DEF tables, isUser, CarryPcs
<1>5. CASE isRow(k) /\ deleteRows({k}) /\ enter(c, q)
  <2>1. /\ q.pc = "refresh:sign" /\ q.user = call[c].user /\ q.session = s
    BY <1>1, CallCarries DEF CallRecord
  <2>2. call'[c] = q /\ \A d \in Callers \ {c} : call'[d] = call[d]
    BY <1>5, EnterShape
  <2> HIDE DEF q
  <2>3. refreshTokens[k].session = s /\ s < nextRow
        /\ sessions[s].user = call[c].user
    BY <1>1, <1>2, <1>5 DEF SessionRemembered, FoundPcs
  <2>4. /\ users' = users /\ nextRow' = nextRow
        /\ \A l \in RowIds :
             refreshTokens'[l] = IF l = k THEN NoRow ELSE refreshTokens[l]
    BY <1>5 DEF deleteRows
  <2>5. RowsMoveOn
    BY <1>3, <2>4, SessionTypes DEF RowsMoveOn, isRow
  <2>6. NoRow.session \notin RowIds
    BY SessionTypes DEF NoRow
  <2>7. \A t \in RowIds : rowsIn(t)' = rowsIn(t) \ {k}
    BY <2>4, <2>6 DEF rowsIn
  <2>8. \A t \in RowIds :
          carriers(t)' = IF t = s THEN carriers(t) \cup {c} ELSE carriers(t)
    BY <1>1, <2>1, <2>2 DEF carriers, CarryPcs
  <2>9. rowsIn(s) = {k} /\ carriers(s) = {} /\ rowsIn(s)' = {}
    <3>1. k \in rowsIn(s)
      BY <1>1, <2>3 DEF rowsIn
    <3>2. (\A l \in rowsIn(s) : l = k) /\ carriers(s) = {}
      BY <1>1, <3>1 DEF SessionInv, OneSuccessor
    <3>3. rowsIn(s) = {k}
      BY <3>1, <3>2
    <3> QED BY <1>1, <2>7, <3>2, <3>3
  <2>10. ASSUME NEW t \in RowIds \ {s}
         PROVE  rowsIn(t)' = rowsIn(t)
    <3>1. k \notin rowsIn(t)
      BY <2>3 DEF rowsIn
    <3> QED BY <2>7, <3>1
  <2>11. OneSuccessor'
    BY <1>1, <2>8, <2>9, <2>10 DEF SessionInv, OneSuccessor
  <2>12. SessionKept'
    BY <1>1, <1>3, <2>8, <2>9, <2>10 DEF SessionInv, SessionKept
  <2>13. RowsOfSessions'
    BY <1>3, <2>4 DEF SessionInv, RowsOfSessions, isRow
  <2>14. FreshSessions' /\ BegunSessions'
    BY <1>3, <2>4 DEF SessionInv, FreshSessions, BegunSessions, isUser
  <2>15. SessionRemembered(call[c])'
    BY <1>3, <2>1, <2>2, <2>3, <2>4
    DEF SessionRemembered, FoundPcs, CarryPcs, TokenPcs
  <2> QED BY <2>2, <2>5, <2>11, <2>12, <2>13, <2>14, <2>15, StepSessionInv
<1> QED BY <1>1, <1>4, <1>5 DEF refreshDelete

\* A row is inserted for a session that has none.
LEMMA InsertedSessionInv ==
  ASSUME TypeOK, SessionInv, NEW c \in Callers, NEW s \in RowIds,
         NEW t \in Token, insertRow(t, s), faults' = faults,
         call'[c].pc = "respond",
         \A d \in Callers \ {c} : call'[d] = call[d],
         call[c].pc \in CarryPcs => call[c].session = s,
         s <= nextRow, rowsIn(s) = {},
         carriers(s) = IF call[c].pc \in CarryPcs THEN {c} ELSE {},
         \A r \in RowIds \ {nextRow} : sessions'[r] = sessions[r],
         sessions'[s].user = t.sub,
         sessions'[nextRow] =
           IF s = nextRow THEN [user |-> t.sub, state |-> "begun"]
           ELSE sessions[nextRow]
  PROVE  SessionInv'
<1>0. PICK signedAt \in t.iat..clock :
         refreshTokens' = [refreshTokens EXCEPT ![nextRow] =
           [token |-> t, expiresAt |-> signedAt + RefreshTtl, session |-> s]]
  BY DEF insertRow
<1> DEFINE row == [token |-> t, expiresAt |-> signedAt + RefreshTtl,
                   session |-> s]
<1>1. /\ nextRow \in RowIds /\ nextRow' = nextRow + 1
      /\ users' = users /\ isUser(t.sub)
      /\ \A k \in RowIds :
           refreshTokens'[k] = IF k = nextRow THEN row ELSE refreshTokens[k]
  BY <1>0 DEF insertRow, refused, TypeOK, AccountsTypeOK
<1>2. row.session = s /\ row.token = t
  OBVIOUS
<1> HIDE DEF row
<1>3. nextRow \in Nat /\ RowIds \subseteq Nat \ {0}
  BY SessionTypes
<1>4. ~isRow(nextRow) /\ refreshTokens[nextRow].session = 0
  <2>1. ~isRow(nextRow)
    BY <1>1, <1>3 DEF SessionInv, RowsOfSessions
  <2> QED BY <1>1, <2>1, RowShape
<1>5. RowsMoveOn
  <2>1. nextRow' \in Nat /\ nextRow' >= nextRow
    BY <1>1, <1>3
  <2>2. \A r \in RowIds : r < nextRow => sessions'[r] = sessions[r]
    BY <1>1, <1>3
  <2>3. \A k \in RowIds : k < nextRow => refreshTokens'[k] = refreshTokens[k]
    BY <1>1, <1>3
  <2> QED BY <2>1, <2>2, <2>3 DEF RowsMoveOn
<1>6. \A r \in RowIds :
        rowsIn(r)' = IF r = s THEN {nextRow} ELSE rowsIn(r)
  <2>1. ASSUME NEW r \in RowIds \ {s}
        PROVE  rowsIn(r)' = rowsIn(r)
    BY <1>1, <1>2, <1>3, <1>4 DEF rowsIn
  <2>2. ASSUME NEW k \in RowIds
        PROVE  refreshTokens'[k].session = s <=> k = nextRow
    <3>1. refreshTokens[k].session # s
      BY DEF rowsIn
    <3> QED BY <1>1, <1>2, <3>1
  <2>3. rowsIn(s)' = {nextRow}
    BY <1>1, <2>2 DEF rowsIn
  <2> QED BY <2>1, <2>3
<1>7. \A r \in RowIds : carriers(r)' = carriers(r) \ {c}
  BY DEF carriers, CarryPcs
<1>8. \A r \in RowIds \ {s} : carriers(r)' = carriers(r)
  <2>1. \A r \in RowIds \ {s} : c \notin carriers(r)
    BY DEF carriers
  <2> QED BY <1>7, <2>1
<1>9. carriers(s)' = {}
  BY <1>7
<1>10. OneSuccessor'
  BY <1>6, <1>8, <1>9 DEF SessionInv, OneSuccessor
<1>11. SessionKept'
  <2> SUFFICES ASSUME NEW r \in RowIds, r # s, sessions'[r].state = "begun",
                      faults = 0,
                      \A q \in RowIds \ {r} :
                        sessions'[q].user # sessions'[r].user
               PROVE  rowsIn(r) # {} \/ carriers(r) # {}
    BY <1>6, <1>8 DEF SessionKept
  <2>1. sessions'[r] = sessions[r]
    BY <1>1
  <2>2. sessions[nextRow] = [user |-> 0, state |-> "none"]
    BY <1>1, <1>3 DEF SessionInv, FreshSessions
  <2>3. sessions[r].user \in Accounts
    BY <2>1 DEF SessionInv, BegunSessions
  <2>4. \A q \in RowIds \ {r} : sessions[q].user # sessions[r].user
    BY <2>1, <2>2, <2>3, AccountsAssumption
  <2> QED BY <2>1, <2>4 DEF SessionInv, SessionKept
<1>12. RowsOfSessions'
  <2> SUFFICES ASSUME NEW k \in RowIds, isRow(k)'
               PROVE  LET r == refreshTokens'[k].session IN
                        /\ k < nextRow' /\ r < nextRow'
                        /\ sessions'[r].user = refreshTokens'[k].token.sub
    BY DEF RowsOfSessions
  <2>1. CASE k = nextRow
    BY <1>1, <1>2, <1>3, <2>1
  <2>2. CASE k # nextRow
    <3>1. isRow(k) /\ refreshTokens'[k] = refreshTokens[k]
      BY <1>1, <2>2 DEF isRow
    <3> DEFINE r == refreshTokens[k].session
    <3>2. /\ r \in RowIds /\ k < nextRow /\ r < nextRow
          /\ sessions[r].user = refreshTokens[k].token.sub
      BY <3>1, SessionTypes DEF SessionInv, RowsOfSessions
    <3> HIDE DEF r
    <3>3. sessions'[r] = sessions[r] /\ k < nextRow' /\ r < nextRow'
      BY <1>1, <1>3, <3>2
    <3> QED BY <3>1, <3>2, <3>3 DEF r
  <2> QED BY <2>1, <2>2
<1>13. FreshSessions'
  <2> SUFFICES ASSUME NEW r \in RowIds, r >= nextRow'
               PROVE  sessions'[r] = [user |-> 0, state |-> "none"]
    BY DEF FreshSessions
  <2>1. r >= nextRow /\ r # nextRow
    BY <1>1, <1>3
  <2> QED BY <2>1 DEF SessionInv, FreshSessions
<1>14. BegunSessions'
  <2> SUFFICES ASSUME NEW r \in RowIds, sessions'[r].state = "begun"
               PROVE  sessions'[r].user \in Accounts
                      /\ users'[sessions'[r].user] # "NONE"
    BY DEF BegunSessions, isUser
  <2>1. CASE sessions'[r] = sessions[r]
    BY <1>1, <2>1 DEF SessionInv, BegunSessions, isUser
  <2>2. CASE r = nextRow /\ s = nextRow
    BY <1>1, <2>2 DEF isUser, Token
  <2> QED BY <2>1, <2>2
<1> QED BY <1>5, <1>10, <1>11, <1>12, <1>13, <1>14, IdleSession,
           StepSessionInv

LEMMA RespondShape ==
  ASSUME TypeOK, NEW c \in Callers, responding(c)
  PROVE  call'[c].pc = "respond" /\ \A d \in Callers \ {c} : call'[d] = call[d]
<1> DEFINE q == [Idle EXCEPT !.pc = "respond", !.token = call[c].token]
<1>1. enter(c, q)
  BY DEF responding
<1>2. q.pc = "respond"
  BY DEF Idle
<1> HIDE DEF q
<1> QED BY <1>1, <1>2, EnterShape

\* The last statement of login: the session is named by its first row.
LEMMA LoginSessionInv ==
  ASSUME TypeOK, SessionInv, NEW c \in Callers, loginCreate(c)
  PROVE  SessionInv'
<1>1. call[c].pc = "login:create" /\ call[c].token \in Token
      /\ call[c].token.sub = call[c].user
  BY CallCarries
  DEF loginCreate, at, TokenPcs, SessionInv, SessionRemembered
<1>2. faults' = faults
  BY DEF loginCreate
<1>3. CASE finish(c) /\ UNCHANGED <<tables, sessions>>
  <2>1. call'[c].pc = "idle" /\ \A d \in Callers \ {c} : call'[d] = call[d]
    BY <1>3, EnterShape DEF finish, Idle
  <2> QED BY <1>1, <1>2, <1>3, <2>1, IdleSession, QuietSessionInv
          DEF tables, isUser, CarryPcs
<1>4. CASE /\ insertRow(call[c].token, nextRow)
           /\ sessions' = [sessions EXCEPT ![nextRow] =
                             [user |-> call[c].user, state |-> "begun"]]
           /\ responding(c)
  <2>1. call'[c].pc = "respond" /\ \A d \in Callers \ {c} : call'[d] = call[d]
    BY <1>4, RespondShape
  <2>2. PICK s \in RowIds : s = nextRow
    BY <1>4 DEF insertRow
  <2>3. PICK t \in Token : t = call[c].token
    BY <1>1
  <2>4. rowsIn(s) = {}
    <3> SUFFICES ASSUME NEW k \in RowIds, refreshTokens[k].session = s
                 PROVE  FALSE
      BY DEF rowsIn
    <3>1. isRow(k) /\ nextRow \in Nat
      BY SessionTypes
    <3>2. s < nextRow
      BY <3>1 DEF SessionInv, RowsOfSessions
    <3> QED BY <2>2, <3>1, <3>2
  <2>5. carriers(s) = {}
    <3> SUFFICES ASSUME NEW d \in Callers, call[d].pc \in CarryPcs,
                        call[d].session = s
                 PROVE  FALSE
      BY DEF carriers
    <3>1. s < nextRow /\ nextRow \in Nat
      BY SessionTypes DEF SessionInv, SessionRemembered
    <3> QED BY <2>2, <3>1
  <2>6. /\ \A r \in RowIds \ {nextRow} : sessions'[r] = sessions[r]
        /\ sessions'[nextRow] = [user |-> t.sub, state |-> "begun"]
        /\ sessions'[s].user = t.sub
    BY <1>1, <1>4, <2>2, <2>3 DEF TypeOK, AccountsTypeOK
  <2>7. insertRow(t, s) /\ s <= nextRow
    BY <1>4, <2>2, <2>3, SessionTypes
  <2>8. call[c].pc \notin CarryPcs
    BY <1>1 DEF CarryPcs
  <2> QED BY <1>2, <2>1, <2>2, <2>4, <2>5, <2>6, <2>7, <2>8,
             InsertedSessionInv
<1> QED BY <1>3, <1>4 DEF loginCreate

\* The last statement of refreshToken.  When it is refused, the user is gone,
\* or another session of his has just got the same token.
LEMMA RenewSessionInv ==
  ASSUME TypeOK, SessionInv, NEW c \in Callers, refreshCreate(c)
  PROVE  SessionInv'
<1>1. /\ call[c].pc = "refresh:create" /\ call[c].pc \in CarryPcs
      /\ call[c].token \in Token /\ call[c].session \in RowIds
  BY CallCarries DEF refreshCreate, at, TokenPcs, CarryPcs
<1>2. /\ call[c].token.sub = call[c].user
      /\ call[c].session < nextRow
      /\ sessions[call[c].session].user = call[c].user
  BY <1>1 DEF SessionInv, SessionRemembered, TokenPcs
<1>3. PICK s \in RowIds : s = call[c].session
  BY <1>1
<1>4. PICK t \in Token : t = call[c].token
  BY <1>1
<1>5. c \in carriers(s)
  BY <1>1, <1>3 DEF carriers
<1>6. rowsIn(s) = {} /\ \A d \in carriers(s) : d = c
  BY <1>5 DEF SessionInv, OneSuccessor
<1>7. carriers(s) = {c}
  BY <1>5, <1>6
<1>8. faults' = faults /\ sessions' = sessions
  BY DEF refreshCreate
<1>9. CASE insertRow(call[c].token, call[c].session) /\ responding(c)
  <2>1. call'[c].pc = "respond" /\ \A d \in Callers \ {c} : call'[d] = call[d]
    BY <1>9, RespondShape
  <2>2. insertRow(t, s)
    BY <1>3, <1>4, <1>9
  <2>4. s <= nextRow /\ s # nextRow
    BY <1>2, <1>3, SessionTypes
  <2>3. sessions'[s].user = t.sub
    BY <1>2, <1>3, <1>4, <1>8
  <2> QED BY <1>1, <1>3, <1>6, <1>7, <1>8, <2>1, <2>2, <2>3, <2>4,
             InsertedSessionInv
<1>10. CASE refused(t) /\ finish(c) /\ UNCHANGED tables
  <2>1. call'[c].pc = "idle" /\ \A d \in Callers \ {c} : call'[d] = call[d]
    BY <1>10, EnterShape DEF finish, Idle
  <2>2. /\ refreshTokens' = refreshTokens /\ nextRow' = nextRow
        /\ users' = users
    BY <1>10 DEF tables
  <2>3. RowsMoveOn
    BY <1>8, <2>2, SessionTypes DEF RowsMoveOn
  <2>4. \A r \in RowIds : rowsIn(r)' = rowsIn(r)
    BY <2>2 DEF rowsIn
  <2>5. \A r \in RowIds : carriers(r)' = carriers(r) \ {c}
    BY <2>1 DEF carriers, CarryPcs
  <2>6. \A r \in RowIds \ {s} : carriers(r)' = carriers(r)
    <3>1. \A r \in RowIds \ {s} : c \notin carriers(r)
      BY <1>3 DEF carriers
    <3> QED BY <2>5, <3>1
  <2>7. OneSuccessor'
    BY <2>4, <2>5 DEF SessionInv, OneSuccessor
  <2>8. ASSUME sessions[s].state = "begun",
               \A q \in RowIds \ {s} : sessions[q].user # sessions[s].user
        PROVE  FALSE
    <3>1. isUser(t.sub)
      BY <1>2, <1>3, <1>4, <2>8 DEF SessionInv, BegunSessions
    <3>2. PICK k \in RowIds : refreshTokens[k].token = t
      BY <1>10, <3>1 DEF refused
    <3>3. isRow(k) /\ refreshTokens[k].session \in RowIds
      BY <3>2, RowShape, NoTokenIsNone
    <3>4. sessions[refreshTokens[k].session].user = t.sub
      BY <3>2, <3>3 DEF SessionInv, RowsOfSessions
    <3>5. refreshTokens[k].session = s
      BY <1>2, <1>3, <1>4, <2>8, <3>3, <3>4
    <3> QED BY <1>6, <3>5 DEF rowsIn
  <2>9. SessionKept'
    BY <1>8, <2>4, <2>6, <2>8 DEF SessionInv, SessionKept
  <2>10. RowsOfSessions' /\ FreshSessions' /\ BegunSessions'
    BY <1>8, <2>2
    DEF SessionInv, RowsOfSessions, FreshSessions, BegunSessions, isRow, isUser
  <2> QED BY <2>1, <2>3, <2>7, <2>9, <2>10, IdleSession, StepSessionInv
<1> QED BY <1>4, <1>9, <1>10 DEF refreshCreate

LEMMA ServiceSessionInv ==
  ASSUME TypeOK, SessionInv, NEW c \in Callers,
         serviceInsert(c) \/ servicePromote(c) \/ serviceDelete(c)
  PROVE  SessionInv'
<1>1. /\ refreshTokens' = refreshTokens /\ nextRow' = nextRow
      /\ sessions' = sessions /\ faults' = faults
      /\ call[c].pc \in {"service:insert", "service:promote", "service:delete"}
  BY DEF serviceInsert, servicePromote, serviceDelete, at
<1>2. \A u \in Accounts : isUser(u) => isUser(u)'
  BY DEF serviceInsert, servicePromote, serviceDelete, isUser, TypeOK,
         AccountsTypeOK
<1>3. /\ call'[c].pc \in {"idle", "service:promote"}
      /\ \A d \in Callers \ {c} : call'[d] = call[d]
  <2>1. CASE finish(c)
    BY <2>1, EnterShape DEF finish, Idle
  <2>2. CASE enter(c, [call[c] EXCEPT !.pc = "service:promote"])
    BY <2>2, EnterShape, CallCarries DEF CallRecord
  <2> QED BY <2>1, <2>2 DEF serviceInsert, servicePromote, serviceDelete
<1>4. SessionRemembered(call[c])'
  BY <1>3 DEF SessionRemembered, FoundPcs, CarryPcs, TokenPcs
<1> QED BY <1>1, <1>2, <1>3, <1>4, QuietSessionInv DEF CarryPcs

\* A fault, the clock or nothing at all.
LEMMA OutsideSessionInv ==
  ASSUME TypeOK, SessionInv, UNCHANGED <<tables, sessions>>,
         \A c \in Callers : call'[c] = call[c] \/ call'[c].pc = "idle",
         faults' = 0 => faults = 0 /\ \A c \in Callers : call'[c] = call[c]
  PROVE  SessionInv'
<1>1. /\ refreshTokens' = refreshTokens /\ nextRow' = nextRow
      /\ users' = users /\ sessions' = sessions
  BY DEF tables
<1>2. RowsMoveOn
  BY <1>1, SessionTypes DEF RowsMoveOn
<1>3. ASSUME NEW c \in Callers
      PROVE  SessionRemembered(call[c])'
  BY <1>2, <1>3, SessionRememberedKept, IdleSession DEF SessionInv
<1>4. \A s \in RowIds :
        /\ rowsIn(s)' = rowsIn(s)
        /\ carriers(s)' \subseteq carriers(s)
        /\ faults' = 0 => carriers(s)' = carriers(s)
  BY <1>1 DEF rowsIn, carriers, CarryPcs
<1>5. OneSuccessor' /\ SessionKept'
  BY <1>1, <1>4 DEF SessionInv, OneSuccessor, SessionKept
<1>6. RowsOfSessions' /\ FreshSessions' /\ BegunSessions'
  BY <1>1
  DEF SessionInv, RowsOfSessions, FreshSessions, BegunSessions, isRow, isUser
<1> QED BY <1>3, <1>5, <1>6 DEF SessionInv

LEMMA NextSessionInv ==
  ASSUME TypeOK, SessionInv, [Next]_vars
  PROVE  SessionInv'
<1>1. ASSUME NEW c \in Callers, Arrive(c) \/ Proceed(c)
      PROVE  SessionInv'
  BY <1>1, ArriveSessionInv, SignSessionInv, LoginSessionInv,
     ExpireSessionInv, RotateSessionInv, RenewSessionInv, EndingSessionInv,
     ServiceSessionInv
  DEF Proceed
<1>2. ASSUME NEW c \in Callers, fail(c)
      PROVE  SessionInv'
  <2>1. \A d \in Callers : call'[d] = call[d] \/ call'[d].pc = "idle"
    BY <1>2, EnterShape DEF fail, finish, Idle
  <2>2. faults' # 0
    BY <1>2 DEF fail, TypeOK, AccountsTypeOK
  <2> QED BY <1>2, <2>1, <2>2, OutsideSessionInv DEF fail
<1>3. CASE crash
  <2>1. faults' # 0
    BY <1>3 DEF crash, TypeOK, AccountsTypeOK
  <2> QED BY <1>3, <2>1, OutsideSessionInv DEF crash, Idle
<1>4. CASE tick \/ UNCHANGED vars
  BY <1>4, OutsideSessionInv DEF tick, vars
<1> QED BY <1>1, <1>2, <1>3, <1>4 DEF Next

---------------------------------------------------------------------------
\* The inductive invariant: rows, what replaces them and the history of the
\* sessions agree.
THEOREM SessionInvHolds == Spec => []SessionInv
<1>1. Init => SessionInv
  BY DEF Init, AccountsInit, SessionInv, OneSuccessor, SessionKept,
         RowsOfSessions, FreshSessions, BegunSessions, SessionRemembered,
         rowsIn, carriers, isRow, NoRow, RowIds, Idle, FoundPcs, CarryPcs,
         TokenPcs
<1> QED BY <1>1, NextSessionInv, SessionTypeCorrect, PTL DEF Spec

\* A login never has two successors, by however many requests at once its
\* refresh tokens are presented.
THEOREM OneSuccessorHolds == Spec => []OneSuccessor
<1>1. SessionInv => OneSuccessor
  BY DEF SessionInv
<1> QED BY <1>1, SessionInvHolds, PTL

\* Without a fault, a user's only session outlives any number of concurrent
\* refreshes: it ends by logout, removal or expiry alone.
THEOREM SessionKeptHolds == Spec => []SessionKept
<1>1. SessionInv => SessionKept
  BY DEF SessionInv
<1> QED BY <1>1, SessionInvHolds, PTL
=============================================================================
