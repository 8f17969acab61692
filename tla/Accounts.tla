------------------------------- MODULE Accounts -------------------------------
(***************************************************************************)
(* The tables users and refresh_tokens, the tokens in the hands of clients *)
(* and the requests that are open at the endpoints for accounts.  Users    *)
(* exist from the start; no request creates one.                           *)
(***************************************************************************)
EXTENDS RoleGuard

CONSTANTS
  Accounts,    \* the ids of the users
  FirstRole,   \* the role each of them starts with
  Ttl,         \* jwtTtl: seconds an access token is valid
  RefreshTtl,  \* jwtRefreshTtl: seconds a refresh token is valid
  Callers,     \* bound: the requests that can be open at the same time
  MaxRows,     \* bound: ids the table refresh_tokens can hand out
  MaxFaults,   \* bound: restarts of the process and statements that fail
  Horizon      \* bound: the last second of the clock

ASSUME AccountsAssumption ==
  /\ FirstRole \in [Accounts -> Roles]
  /\ Accounts \subseteq Nat \ {0}
  /\ Ttl \in Nat /\ RefreshTtl \in Nat
  /\ MaxRows \in Nat /\ MaxFaults \in Nat /\ Horizon \in Nat

VARIABLES
  users,          \* the role of each user, "NONE" once the row is deleted
  providing,      \* the users who own a service
  refreshTokens,  \* the table, by row id
  nextRow,        \* the id its sequence hands out next
  held,           \* the tokens that responses have handed out
  sessions,       \* history: what has become of each session
  call,           \* the open requests
  faults,         \* faults so far
  clock           \* new Date(), in seconds

tables == <<users, providing, refreshTokens, nextRow>>

RowIds == 1..MaxRows

\* The claims of a token.  The access and the refresh token of a pair share
\* them, and two refresh tokens with the same claims are the same string.
Token == [sub : Accounts, role : Roles, iat : Nat]

NoToken == [sub |-> 0, role |-> "NONE", iat |-> 0]

NoRow == [token |-> NoToken, expiresAt |-> 0, session |-> 0]

\* A session begins with the row its login inserts, and is named by its id.
Row == [token : Token, expiresAt : Nat, session : RowIds] \cup {NoRow}

isRow(k) == refreshTokens[k] # NoRow

isUser(u) == users[u] # "NONE"

refreshValid(t) == clock < t.iat + RefreshTtl

\* The guard verifies signature, audience, issuer and expiry, which a refresh
\* token passes like an access token: a pair serves as long as either lives.
accessValid(t) == clock < t.iat + Ttl \/ refreshValid(t)

---------------------------------------------------------------------------
\* Requests

LoginPcs == {"login:sign", "login:create"}

\* The old row is gone and the new one not yet there: the session exists in
\* the request alone.
CarryPcs == {"refresh:sign", "refresh:create"}

\* The row of the presented token has been found.
FoundPcs == {"refresh:expire", "refresh:delete"}

RefreshPcs == {"refresh:find"} \cup FoundPcs \cup CarryPcs

\* The request holds a token.
TokenPcs == {"refresh:find", "login:create", "refresh:create", "respond"}

Pcs ==
  {"idle", "respond", "logout:delete", "service:insert", "service:promote",
   "service:delete", "user:delete"}
  \cup LoginPcs \cup RefreshPcs

CallRecord ==
  [pc : Pcs, user : Accounts \cup {0}, role : Roles \cup {"NONE"},
   token : Token \cup {NoToken}, row : RowIds \cup {0},
   session : RowIds \cup {0}]

Call ==
  {q \in CallRecord :
     /\ q.pc \notin {"idle", "respond"} => q.user \in Accounts
     /\ q.pc \in LoginPcs \cup RefreshPcs => q.role \in Roles
     /\ q.pc \in TokenPcs => q.token \in Token
     /\ q.pc \in FoundPcs => q.row \in RowIds
     /\ q.pc \in FoundPcs \cup CarryPcs => q.session \in RowIds}

Idle == [pc |-> "idle", user |-> 0, role |-> "NONE", token |-> NoToken,
         row |-> 0, session |-> 0]

at(c, pc) == call[c].pc = pc

enter(c, request) == call' = [call EXCEPT ![c] = request]

finish(c) == enter(c, Idle)

\* Every request that may still insert a row finds an id (MaxRows).
idsLeft ==
  nextRow + Cardinality({c \in Callers : call[c].pc # "idle"}) <= MaxRows

---------------------------------------------------------------------------
\* Statements

\* refreshToken.create throws: token is @unique and the user must exist.
refused(t) ==
  ~isUser(t.sub) \/ \E k \in RowIds : refreshTokens[k].token = t

\* refreshToken.create: the expiry is computed once the token is signed and
\* before the statement is sent.
insertRow(t, session) ==
  /\ nextRow \in RowIds /\ ~refused(t)
  /\ \E signedAt \in t.iat..clock :
       refreshTokens' = [refreshTokens EXCEPT ![nextRow] =
         [token |-> t, expiresAt |-> signedAt + RefreshTtl,
          session |-> session]]
  /\ nextRow' = nextRow + 1
  /\ UNCHANGED <<users, providing>>

\* refreshToken.delete and deleteMany
deleteRows(S) ==
  /\ refreshTokens' = [k \in RowIds |-> IF k \in S THEN NoRow
                                        ELSE refreshTokens[k]]
  /\ UNCHANGED <<users, providing, nextRow>>

rowsOf(u) == {k \in RowIds : isRow(k) /\ refreshTokens[k].token.sub = u}

AccountsInit ==
  /\ users = FirstRole
  /\ providing = {}
  /\ refreshTokens = [k \in RowIds |-> NoRow]
  /\ nextRow = 1
  /\ held = {}
  /\ sessions = [s \in RowIds |-> [user |-> 0, state |-> "none"]]
  /\ call = [c \in Callers |-> Idle]
  /\ faults = 0
  /\ clock = 0

AccountsTypeOK ==
  /\ users \in [Accounts -> Roles \cup {"NONE"}]
  /\ providing \subseteq Accounts
  /\ refreshTokens \in [RowIds -> Row]
  /\ nextRow \in Nat \ {0}
  /\ held \subseteq Token
  /\ sessions \in [RowIds -> [user : Accounts \cup {0},
                              state : {"none", "begun", "over"}]]
  /\ call \in [Callers -> Call]
  /\ faults \in Nat
  /\ clock \in Nat
=============================================================================
