--------------------------- MODULE AccountsProofs ---------------------------
(***************************************************************************)
(* Theorems about Accounts, for any accounts, browsers, sockets, keys and  *)
(* clocks.  Every commit leaves a row that is Sane with respect to the one *)
(* it replaces (CommitIsSane); what follows about owners, tokens, keys and *)
(* sockets uses only that, and that locks exclude.                         *)
(***************************************************************************)
EXTENDS Accounts, TLAPS

Busy(c) == task[c].stage \in {"arrived", "guarded", "locked"}

\* What is asked for was allowed on arrival.
Asked(c) ==
    /\ Target(c) \in Users /\ Actor(c) \in Users
    /\ Keyed(task[c].op) => task[c].key \in Keys
    /\ task[c].op = "CHANGE" <=> Target(c) = Actor(c)
    /\ Scoped(task[c].op) /\ task[c].role # "STAFF" => task[c].privilege = "OWNER"

\* What was decided under the lock of the row holds as long as the lock is held.
Settled(c) ==
    /\ Row(c).exists <=> task[c].op # "CREATE"
    /\ task[c].op \in {"CHANGE", "CREATE"} \/ MayManage(c)
    /\ task[c].op = "CHANGE" => Verified(c)
    /\ task[c].op = "RESET" => Row(c).active
    /\ NeedsGuard(c) => OwnerRemains(c)

\* Locks exclude.
LocksExclude ==
    /\ \A c, d \in Clients : HoldsGuard(c) /\ HoldsGuard(d) => c = d
    /\ \A c, d \in Clients : task[c].stage = "locked" /\ task[d].stage = "locked"
                             /\ Target(c) = Target(d) => c = d
    /\ \A c \in Clients : task[c].stage = "guarded" => NeedsGuard(c)

RequestsSound ==
    \A c \in Clients : /\ Busy(c) => Asked(c)
                       /\ task[c].stage = "locked" => Settled(c)

\* A token, or one still to be signed, never names a later epoch than the stored one, and
\* names that one only with the current password.
Sound(t) ==
    /\ account[t.user].exists
    /\ t.cc <= account[t.user].epoch /\ t.by <= account[t.user].password
    /\ t.cc = account[t.user].epoch => t.by = account[t.user].password

TokensSound ==
    \A c \in Clients :
        /\ token[c].user # None => token[c].user \in Users /\ Sound(token[c])
        /\ task[c].stage = "committed" /\ task[c].op = "CHANGE" =>
              /\ Actor(c) \in Users /\ Target(c) = Actor(c)
              /\ task[c].grant.user = Actor(c) /\ Sound(task[c].grant)
              /\ token[c].by < account[Actor(c)].password

\* Who was told that a deactivation is done finds it recorded.
ToldRecorded == \A p \in told : \E o \in ops : o.actor = p[1] /\ o.key = p[2]

SocketsSound ==
    \A s \in Sockets : socket[s].stage # "none" =>
        socket[s].user \in Users /\ account[socket[s].user].exists

AccountsInv ==
    /\ TypeOK /\ LocksExclude /\ RequestsSound /\ OwnerLeft
    /\ TokensSound /\ OneChangePerPassword /\ ToldRecorded /\ SocketsSound /\ SocketsOfOldDie

-----------------------------------------------------------------------------
(* Commits *)

\* What every operation does to a row.
Sane(c, row) ==
    /\ row \in Accounts /\ row.exists
    /\ row.epoch >= Row(c).epoch /\ row.password >= Row(c).password
    /\ row.password # Row(c).password => row.epoch > Row(c).epoch
    /\ task[c].op = "CHANGE" => row.password = Row(c).password + 1
    /\ Operative(Target(c)) /\ ~NeedsGuard(c) => row.active /\ "OWNER" \in row.roles
    /\ row.roles \subseteq
          Row(c).roles \cup (IF Scoped(task[c].op) THEN {task[c].role} ELSE {})
    /\ Row(c).active /\ ~row.active => task[c].op = "DEACTIVATE"
    /\ task[c].op = "CREATE" => row # Row(c)

\* Epochs only rise, whatever the clock says.
LEMMA EpochRises ==
    ASSUME NEW previous \in Nat, NEW now \in Clock
    PROVE  NextEpoch(previous, now) \in Nat /\ NextEpoch(previous, now) > previous
BY AccountsAssumption DEF NextEpoch

LEMMA CommitIsSane ==
    ASSUME AccountsInv, NEW c \in Clients, Perform(c)
    PROVE  \/ Retry(c)
           \/ \E row \in Accounts : Commit(c, task[c].op, row) /\ Sane(c, row)
<1> DEFINE R == Row(c)
<1> SUFFICES ASSUME ~Retry(c)
             PROVE  \E row \in Accounts : Commit(c, task[c].op, row) /\ Sane(c, row)
    OBVIOUS
<1>1. /\ task[c].stage = "locked"
      /\ task[c].role \in Roles /\ task[c].op \in Operations
    BY DEF Perform, Commit, Create, Deactivate, Reactivate, ResetPassword, ChangePassword,
           AssignRole, RevokeRole, AccountsInv, TypeOK, Requests
<1>2. Asked(c) /\ Settled(c)
    BY <1>1 DEF AccountsInv, RequestsSound, Busy
<1>3. /\ Target(c) \in Users /\ R \in Accounts
      /\ R.exists \/ R = Blank
    BY <1>2 DEF Asked, AccountsInv, TypeOK, Row
<1>4. /\ R.exists \in BOOLEAN /\ R.active \in BOOLEAN /\ R.mustChange \in BOOLEAN
      /\ R.password \in Nat /\ R.epoch \in Nat /\ R.roles \in SUBSET Roles
    BY <1>3 DEF Accounts
<1>5. CASE Create(c)
  <2> DEFINE row == Founded({task[c].role}, TRUE)
  <2>1. row = [exists |-> TRUE, active |-> TRUE, mustChange |-> TRUE, password |-> 0,
               epoch |-> 0, roles |-> {task[c].role}]
      BY DEF Founded
  <2>2. Commit(c, "CREATE", row) /\ task[c].op = "CREATE"
      BY <1>5 DEF Create, Commit
  <2>3. ~R.exists /\ R = Blank
      BY <1>2, <1>3, <2>2 DEF Settled
  <2>4. row \in Accounts
      BY <1>1 DEF Accounts, Founded
  <2>5. Sane(c, row)
    <3>1. ~R.active /\ R.password = 0 /\ R.epoch = 0 /\ R.roles = {}
        BY <2>3 DEF Blank
    <3>2. row.exists /\ row.password = 0 /\ row.epoch = 0 /\ row.roles = {task[c].role}
        BY DEF Founded
    <3>3. row # R
        BY <2>3, <3>2
    <3> HIDE DEF R, row
    <3>4. R = account[Target(c)] /\ R = Row(c)
        BY DEF R, Row
    <3> QED BY <2>2, <2>4, <3>1, <3>2, <3>3, <3>4 DEF Sane, Operative, Scoped
  <2> QED BY <2>2, <2>4, <2>5
<1>6. CASE AssignRole(c)
  <2> DEFINE row == [R EXCEPT !.roles = @ \cup {task[c].role}]
  <2>1. Commit(c, "ASSIGN", row) /\ task[c].op = "ASSIGN"
      BY <1>6 DEF AssignRole, Commit
  <2>2. /\ row \in Accounts /\ row.exists = R.exists /\ row.active = R.active
        /\ row.epoch = R.epoch /\ row.password = R.password
        /\ row.roles = R.roles \cup {task[c].role}
      BY <1>3, <1>4, <1>1 DEF Accounts
  <2>3. Sane(c, row)
      BY <2>1, <2>2, <1>2, <1>4 DEF Sane, Operative, Scoped, NeedsGuard, Row, Settled
  <2> QED BY <2>1, <2>2, <2>3
<1>7. CASE RevokeRole(c)
  <2> DEFINE row == [R EXCEPT !.roles = @ \ {task[c].role}]
  <2>1. Commit(c, "REVOKE", row) /\ task[c].op = "REVOKE"
      BY <1>7 DEF RevokeRole, Commit
  <2>2. /\ row \in Accounts /\ row.exists = R.exists /\ row.active = R.active
        /\ row.epoch = R.epoch /\ row.password = R.password
        /\ row.roles = R.roles \ {task[c].role}
      BY <1>3, <1>4, <1>1 DEF Accounts
  <2>3. Sane(c, row)
      BY <2>1, <2>2, <1>2, <1>4 DEF Sane, Operative, Scoped, NeedsGuard, Row, Settled
  <2> QED BY <2>1, <2>2, <2>3
<1>8. CASE \E now \in Clock : Deactivate(c, now)
  <2> PICK now \in Clock : Deactivate(c, now)
      BY <1>8
  <2> DEFINE row == IF R.active
                    THEN [R EXCEPT !.active = FALSE, !.epoch = NextEpoch(@, now)] ELSE R
  <2>1. Commit(c, "DEACTIVATE", row) /\ task[c].op = "DEACTIVATE"
      BY DEF Deactivate, Commit
  <2>2. NextEpoch(R.epoch, now) \in Nat /\ NextEpoch(R.epoch, now) > R.epoch
      BY <1>4, EpochRises
  <2>3. /\ row \in Accounts /\ row.exists = R.exists
        /\ row.epoch >= R.epoch /\ row.password = R.password /\ row.roles = R.roles
    <3>1. CASE R.active
      <4> DEFINE e == NextEpoch(R.epoch, now)
      <4>1. row = [R EXCEPT !.active = FALSE, !.epoch = e]
          BY <3>1
      <4>2. e \in Nat /\ e > R.epoch
          BY <2>2
      <4> HIDE DEF R, e, row
      <4>3. row \in Accounts /\ row.exists = R.exists /\ row.epoch = e
            /\ row.password = R.password /\ row.roles = R.roles
          BY <1>3, <1>4, <4>1, <4>2 DEF Accounts
      <4> QED BY <1>4, <4>2, <4>3
    <3> QED BY <1>3, <1>4, <3>1
  <2>4. Sane(c, row)
      BY <2>1, <2>3, <1>2, <1>4 DEF Sane, Operative, Scoped, NeedsGuard, Row, Settled
  <2> QED BY <2>1, <2>3, <2>4
<1>9. CASE \E now \in Clock : Reactivate(c, now) \/ ResetPassword(c, now)
  <2> PICK now \in Clock : Reactivate(c, now) \/ ResetPassword(c, now)
      BY <1>9
  <2> DEFINE row == Issue(R, now)
  <2>1. Commit(c, task[c].op, row) /\ task[c].op \in {"REACTIVATE", "RESET"}
      BY DEF Reactivate, ResetPassword, Commit
  <2>2. NextEpoch(R.epoch, now) \in Nat /\ NextEpoch(R.epoch, now) > R.epoch
      BY <1>4, EpochRises
  <2>3. /\ row \in Accounts /\ row.exists = R.exists /\ row.active
        /\ row.epoch > R.epoch /\ row.password = R.password + 1 /\ row.roles = R.roles
    <3> DEFINE e == NextEpoch(R.epoch, now)  p == R.password + 1
    <3>1. row = [R EXCEPT !.active = TRUE, !.mustChange = TRUE, !.password = p, !.epoch = e]
        BY DEF Issue
    <3>2. e \in Nat /\ e > R.epoch /\ p \in Nat
        BY <1>4, <2>2
    <3> HIDE DEF R, e, p, row
    <3>3. row \in Accounts /\ row.exists = R.exists /\ row.active = TRUE /\ row.epoch = e
          /\ row.password = p /\ row.roles = R.roles
        BY <1>3, <3>1, <3>2 DEF Accounts
    <3> QED BY <3>2, <3>3 DEF p
  <2>4. Sane(c, row)
    <3>1. R = account[Target(c)] /\ R = Row(c)
        BY DEF Row
    <3> HIDE DEF R, row
    <3>2. Operative(Target(c)) => row.active /\ "OWNER" \in row.roles
        BY <2>3, <3>1 DEF Operative
    <3>3. ~Scoped(task[c].op) /\ task[c].op # "CREATE" /\ (R.active => row.active)
        BY <2>1, <2>3 DEF Scoped
    <3>4. row.exists
        BY <1>2, <2>1, <2>3, <3>1 DEF Settled
    <3>5. row.epoch >= R.epoch /\ row.epoch > R.epoch /\ row.password >= R.password
        BY <1>4, <2>3 DEF Accounts
    <3>6. row.roles \subseteq R.roles \cup (IF Scoped(task[c].op) THEN {task[c].role} ELSE {})
        BY <2>3
    <3> QED BY <2>1, <2>3, <3>1, <3>2, <3>3, <3>4, <3>5, <3>6 DEF Sane
  <2> QED BY <2>1, <2>3, <2>4
<1>10. CASE \E now \in Clock : ChangePassword(c, now)
  <2> PICK now \in Clock : ChangePassword(c, now)
      BY <1>10
  <2> DEFINE row == [R EXCEPT !.mustChange = FALSE, !.password = @ + 1,
                              !.epoch = NextEpoch(@, now)]
  <2>1. Commit(c, "CHANGE", row) /\ task[c].op = "CHANGE"
      BY DEF ChangePassword, Commit
  <2>2. NextEpoch(R.epoch, now) \in Nat /\ NextEpoch(R.epoch, now) > R.epoch
      BY <1>4, EpochRises
  <2>3. /\ row \in Accounts /\ row.exists = R.exists /\ row.active = R.active
        /\ row.epoch > R.epoch /\ row.password = R.password + 1 /\ row.roles = R.roles
    <3> DEFINE e == NextEpoch(R.epoch, now)  p == R.password + 1
    <3>1. row = [R EXCEPT !.mustChange = FALSE, !.password = p, !.epoch = e]
        OBVIOUS
    <3>2. e \in Nat /\ e > R.epoch /\ p \in Nat
        BY <1>4, <2>2
    <3> HIDE DEF R, e, p, row
    <3>3. row \in Accounts /\ row.exists = R.exists /\ row.active = R.active /\ row.epoch = e
          /\ row.password = p /\ row.roles = R.roles
        BY <1>3, <1>4, <3>1, <3>2 DEF Accounts
    <3> QED BY <3>2, <3>3 DEF p
  <2>4. Sane(c, row)
    <3>1. R = account[Target(c)] /\ R = Row(c)
        BY DEF Row
    <3> HIDE DEF R, row
    <3>2. Operative(Target(c)) => row.active /\ "OWNER" \in row.roles
        BY <2>3, <3>1 DEF Operative
    <3>3. ~Scoped(task[c].op) /\ task[c].op # "CREATE" /\ (R.active => row.active)
        BY <2>1, <2>3 DEF Scoped
    <3>4. row.exists
        BY <1>2, <2>1, <2>3, <3>1 DEF Settled
    <3>5. row.epoch >= R.epoch /\ row.epoch > R.epoch /\ row.password >= R.password
        BY <1>4, <2>3 DEF Accounts
    <3>6. row.roles \subseteq R.roles \cup (IF Scoped(task[c].op) THEN {task[c].role} ELSE {})
        BY <2>3
    <3> QED BY <2>1, <2>3, <3>1, <3>2, <3>3, <3>4, <3>5, <3>6 DEF Sane
  <2> QED BY <2>1, <2>3, <2>4
<1> QED BY <1>5, <1>6, <1>7, <1>8, <1>9, <1>10 DEF Perform

-----------------------------------------------------------------------------
(* Steps *)

LEMMA StepCases ==
    ASSUME AccountsInv, [Next]_vars
    PROVE  \/ \E c \in Clients, u \in Users : Login(c, u)
           \/ \E c \in Clients, op \in Operations, u \in Users, role \in Roles,
                 k \in Keys \cup {None} : Arrive(c, op, u, role, k)
           \/ \E c \in Clients : TakeGuard(c) \/ LockTarget(c) \/ Retry(c) \/ Disconnect(c)
           \/ \E c \in Clients, row \in Accounts : Commit(c, task[c].op, row) /\ Sane(c, row)
           \/ \E s \in Sockets : Join(s) \/ \E c \in Clients : Handshake(s, c)
           \/ Restart
           \/ UNCHANGED vars
BY CommitIsSane DEF Next

\* Who commits was asked and settled.
LEMMA CommitterFacts ==
    ASSUME AccountsInv, NEW c \in Clients, task[c].stage = "locked"
    PROVE  /\ Asked(c) /\ Settled(c) /\ Target(c) \in Users /\ Actor(c) \in Users
           /\ Row(c) \in Accounts /\ (Row(c).exists \/ Row(c) = Blank)
           /\ task[c].op \in Operations /\ task[c].role \in Roles
BY DEF AccountsInv, RequestsSound, Busy, Asked, TypeOK, Row, Requests

LEMMA TypeStep ==
    ASSUME AccountsInv, [Next]_vars
    PROVE  TypeOK'
<1> USE DEF TypeOK, AccountsInv
<1>0. NoTask \in Requests /\ NoSocket \in Connections
    BY DEF NoTask, NoSocket, NoToken, Tokens, Operations, Roles, Requests, Connections
<1>1. CASE \E c \in Clients, u \in Users : Login(c, u)
  <2> PICK c \in Clients, u \in Users : Login(c, u)
      BY <1>1
  <2>1. [user |-> u, cc |-> account[u].epoch, by |-> account[u].password] \in Tokens
      BY DEF Accounts, Tokens
  <2> QED BY <2>1 DEF Login
<1>2. CASE \E c \in Clients, op \in Operations, u \in Users, role \in Roles,
              k \in Keys \cup {None} : Arrive(c, op, u, role, k)
  <2> PICK c \in Clients, op \in Operations, u \in Users, role \in Roles,
           k \in Keys \cup {None} : Arrive(c, op, u, role, k)
      BY <1>2
  <2>1. Privilege(Actor(c)) \in {"OWNER", "ADMIN", "NONE"}
      BY DEF Privilege
  <2>2. [NoTask EXCEPT !.stage = "arrived", !.privilege = Privilege(Actor(c)), !.op = op,
                       !.target = u, !.role = role, !.key = k] \in Requests
      BY <2>1, <1>0 DEF Requests
  <2>3. task' \in [Clients -> Requests]
      BY <2>2 DEF Arrive
  <2> QED BY <2>3 DEF Arrive
<1>3. CASE \E c \in Clients : TakeGuard(c) \/ Retry(c)
  <2>1. task' \in [Clients -> Requests]
    <3>1. ASSUME NEW c \in Clients, NEW stage \in {"arrived", "guarded"},
                 task' = [task EXCEPT ![c].stage = stage]
          PROVE  task' \in [Clients -> Requests]
        BY <3>1 DEF Requests
    <3> QED BY <1>3, <3>1 DEF TakeGuard, Retry
  <2> QED BY <1>3, <2>1 DEF TakeGuard, Retry
<1>4. CASE \E c \in Clients : LockTarget(c)
  <2> PICK c \in Clients : LockTarget(c)
      BY <1>4
  <2>1. task' \in [Clients -> Requests]
      BY <1>0 DEF LockTarget, Requests
  <2>2. Asked(c)
      BY DEF LockTarget, RequestsSound, Busy
  <2>3. told' \subseteq Users \X Keys
      BY <2>2 DEF LockTarget, Asked, Keyed
  <2> QED BY <2>1, <2>3 DEF LockTarget
<1>5. CASE \E c \in Clients, row \in Accounts : Commit(c, task[c].op, row) /\ Sane(c, row)
  <2> PICK c \in Clients, row \in Accounts : Commit(c, task[c].op, row) /\ Sane(c, row)
      BY <1>5
  <2>1. task[c].stage = "locked"
      BY DEF Commit
  <2>2. /\ Asked(c) /\ Target(c) \in Users /\ Actor(c) \in Users
        /\ task[c].op \in Operations /\ task[c].role \in Roles
      BY <2>1, CommitterFacts
  <2>3. account' \in [Users -> Accounts] /\ \A u \in Users : account'[u].exists \/ account'[u] = Blank
      BY <2>2 DEF Commit, Sane
  <2>4. changes' \in [Users -> Nat]
      BY <2>2 DEF Commit
  <2>5. ops' \subseteq [actor : Users, key : Keys, op : Operations, target : Users, role : Roles]
      BY <2>2 DEF Commit, Recorded, Asked
  <2>6. told' \subseteq Users \X Keys
      BY <2>2 DEF Commit, Asked, Keyed
  <2>7. NoToken \in Tokens /\ [user |-> Target(c), cc |-> row.epoch, by |-> row.password] \in Tokens
      BY <2>2 DEF NoToken, Tokens, Accounts
  <2>8. task' \in [Clients -> Requests]
    <3> DEFINE grant == IF task[c].op = "CHANGE"
                        THEN [user |-> Target(c), cc |-> row.epoch, by |-> row.password]
                        ELSE NoToken
    <3>1. grant \in Tokens
        BY <2>7
    <3> HIDE DEF grant
    <3>2. [task[c] EXCEPT !.stage = "committed", !.grant = grant] \in Requests
        BY <3>1 DEF Requests
    <3>3. task' = [task EXCEPT ![c] = IF task[c].op = "CREATE" THEN NoTask
                     ELSE [task[c] EXCEPT !.stage = "committed", !.grant = grant]]
        BY DEF Commit, grant
    <3> QED BY <1>0, <3>2, <3>3
  <2> QED BY <2>3, <2>4, <2>5, <2>6, <2>8 DEF Commit
<1>6. CASE \E c \in Clients : Disconnect(c)
    BY <1>6, <1>0 DEF Disconnect, Requests
<1>7. CASE \E s \in Sockets : Join(s)
  <2> PICK s \in Sockets : Join(s)
      BY <1>7
  <2>1. socket[s].user \in Users
      BY DEF Join, SocketsSound
  <2>2. socket' \in [Sockets -> Connections]
    <3> DEFINE since == changes[socket[s].user]
    <3>1. since \in Nat /\ socket[s] \in Connections
        BY <2>1
    <3>2. socket' = [socket EXCEPT ![s] = [socket[s] EXCEPT !.stage = "joined", !.since = since]]
        BY DEF Join
    <3> HIDE DEF since
    <3>3. [socket[s] EXCEPT !.stage = "joined", !.since = since] \in Connections
        BY <3>1 DEF Connections
    <3> QED BY <3>2, <3>3
  <2> QED BY <2>2 DEF Join
<1>8. CASE \E s \in Sockets, c \in Clients : Handshake(s, c)
  <2> PICK s \in Sockets, c \in Clients : Handshake(s, c)
      BY <1>8
  <2>1. Actor(c) \in Users
      BY DEF Handshake, Admitted, Accepted, Actor, Tokens
  <2> QED BY <2>1 DEF Handshake, Connections
<1>9. CASE Restart
    BY <1>9, <1>0 DEF Restart
<1>10. CASE UNCHANGED vars
    BY <1>10 DEF vars
<1> QED BY <1>1, <1>2, <1>3, <1>4, <1>5, <1>6, <1>7, <1>8, <1>9, <1>10, StepCases

LEMMA RowsOnlyGrow ==
    ASSUME AccountsInv, [Next]_vars, NEW u \in Users
    PROVE  /\ account[u].exists => account'[u].exists
           /\ account'[u].epoch >= account[u].epoch
           /\ account'[u].password >= account[u].password
           /\ account'[u].password # account[u].password => account'[u].epoch > account[u].epoch
<1>1. account[u].epoch \in Nat /\ account[u].password \in Nat /\ account \in [Users -> Accounts]
    BY DEF AccountsInv, TypeOK, Accounts
<1>2. CASE \E c \in Clients, row \in Accounts : Commit(c, task[c].op, row) /\ Sane(c, row)
  <2> PICK c \in Clients, row \in Accounts : Commit(c, task[c].op, row) /\ Sane(c, row)
      BY <1>2
  <2>1. account' = [account EXCEPT ![Target(c)] = row]
      BY DEF Commit
  <2>2. CASE u = Target(c)
      BY <1>1, <2>1, <2>2 DEF Sane, Row
  <2>3. CASE u # Target(c)
      BY <1>1, <2>1, <2>3
  <2> QED BY <2>2, <2>3
<1>3. CASE account' = account
    BY <1>1, <1>3
<1> QED BY <1>2, <1>3, StepCases DEF Login, Arrive, TakeGuard, LockTarget, Retry, Disconnect,
        Join, Handshake, Restart, vars

\* A token that is sound stays sound.
LEMMA SoundStays ==
    ASSUME AccountsInv, [Next]_vars, NEW t \in Tokens, t.user \in Users, Sound(t)
    PROVE  Sound(t)'
<1>1. /\ t.cc \in Nat /\ t.by \in Nat
      /\ account[t.user].epoch \in Nat /\ account[t.user].password \in Nat
      /\ account'[t.user].epoch \in Nat /\ account'[t.user].password \in Nat
    BY TypeStep DEF Tokens, AccountsInv, TypeOK, Accounts
<1>2. /\ account[t.user].exists => account'[t.user].exists
      /\ account'[t.user].epoch >= account[t.user].epoch
      /\ account'[t.user].password >= account[t.user].password
      /\ account'[t.user].password # account[t.user].password
            => account'[t.user].epoch > account[t.user].epoch
    BY RowsOnlyGrow
<1> QED
  <2>1. CASE account'[t.user].epoch = account[t.user].epoch
    <3>1. account'[t.user].password = account[t.user].password
        BY <1>1, <1>2, <2>1
    <3> QED BY <1>2, <2>1, <3>1 DEF Sound
  <2>2. CASE account'[t.user].epoch # account[t.user].epoch
    <3>1. t.cc < account'[t.user].epoch /\ t.by <= account'[t.user].password
        BY <1>1, <1>2, <2>2 DEF Sound
    <3> QED BY <1>1, <1>2, <3>1 DEF Sound
  <2> QED BY <2>1, <2>2

-----------------------------------------------------------------------------
(* Locks and requests *)

LEMMA LocksStep ==
    ASSUME AccountsInv, [Next]_vars
    PROVE  LocksExclude'
<1> USE DEF LocksExclude, HoldsGuard, NeedsGuard, Target
<1>0. LocksExclude /\ task \in [Clients -> Requests] /\ NoTask.stage = "idle"
    BY DEF AccountsInv, TypeOK, NoTask
<1>1. CASE \E c \in Clients, op \in Operations, u \in Users, role \in Roles,
              k \in Keys \cup {None} : Arrive(c, op, u, role, k)
  <2> PICK c \in Clients, op \in Operations, u \in Users, role \in Roles,
           k \in Keys \cup {None} : Arrive(c, op, u, role, k)
      BY <1>1
  <2>1. task'[c].stage = "arrived" /\ \A d \in Clients \ {c} : task'[d] = task[d]
      BY <1>0 DEF Arrive, NoTask
  <2> QED BY <1>0, <2>1
<1>2. CASE \E c \in Clients : TakeGuard(c)
  <2> PICK c \in Clients : TakeGuard(c)
      BY <1>2
  <2>1. /\ task'[c].stage = "guarded" /\ task'[c].op = task[c].op /\ task'[c].role = task[c].role
        /\ \A d \in Clients \ {c} : task'[d] = task[d]
      BY <1>0 DEF TakeGuard, Requests
  <2>2. NeedsGuard(c) /\ \A d \in Clients : ~HoldsGuard(d)
      BY DEF TakeGuard, GuardFree
  <2> QED BY <1>0, <2>1, <2>2
<1>3. CASE \E c \in Clients : LockTarget(c)
  <2> PICK c \in Clients : LockTarget(c)
      BY <1>3
  <2>1. /\ task'[c].stage \in {"locked", "idle"} /\ \A d \in Clients \ {c} : task'[d] = task[d]
        /\ task'[c].stage = "locked" => /\ task'[c].op = task[c].op /\ task'[c].role = task[c].role
                                       /\ task'[c].target = task[c].target
      BY <1>0 DEF LockTarget, Requests
  <2>2. /\ \A d \in Clients : task[d].stage = "locked" => Target(d) # Target(c)
        /\ NeedsGuard(c) => HoldsGuard(c)
      BY DEF LockTarget, RowFree, HoldsRow
  <2> QED BY <1>0, <2>1, <2>2
<1>4. CASE \E c \in Clients, row \in Accounts : Commit(c, task[c].op, row) /\ Sane(c, row)
  <2> PICK c \in Clients, row \in Accounts : Commit(c, task[c].op, row) /\ Sane(c, row)
      BY <1>4
  <2>1. /\ task'[c].stage \in {"committed", "idle"} /\ \A d \in Clients \ {c} : task'[d] = task[d]
      BY <1>0 DEF Commit, Requests
  <2> QED BY <1>0, <2>1
<1>5. CASE \E c \in Clients : Retry(c) \/ Disconnect(c)
  <2> PICK c \in Clients : Retry(c) \/ Disconnect(c)
      BY <1>5
  <2>1. /\ task'[c].stage \in {"arrived", "idle"} /\ \A d \in Clients \ {c} : task'[d] = task[d]
      BY <1>0 DEF Retry, Disconnect, Requests
  <2> QED BY <1>0, <2>1
<1>6. CASE Restart
    BY <1>0, <1>6 DEF Restart
<1>7. CASE task' = task
    BY <1>0, <1>7
<1> QED BY <1>1, <1>2, <1>3, <1>4, <1>5, <1>6, <1>7, StepCases DEF Login, Join, Handshake, vars

\* The requests under way stay as they were asked and decided.
LEMMA RequestsStep ==
    ASSUME AccountsInv, [Next]_vars
    PROVE  RequestsSound'
<1>0. /\ task \in [Clients -> Requests] /\ token \in [Clients -> Tokens]
      /\ account \in [Users -> Accounts] /\ NoTask.stage = "idle" /\ RequestsSound /\ LocksExclude
    BY DEF AccountsInv, TypeOK, NoTask
<1> SUFFICES ASSUME NEW d \in Clients
             PROVE  /\ Busy(d)' => Asked(d)'
                    /\ task'[d].stage = "locked" => Settled(d)'
    BY DEF RequestsSound
<1>a. /\ Busy(d) => Asked(d)
      /\ task[d].stage = "locked" => Settled(d)
    BY <1>0 DEF RequestsSound
\* Another request acts, and the accounts stay.
<1>b. ASSUME task'[d] = task[d], token'[d] = token[d], account' = account
      PROVE  /\ Busy(d)' => Asked(d)'
             /\ task'[d].stage = "locked" => Settled(d)'
    BY <1>a, <1>b DEF Busy, Asked, Settled, Target, Actor, Row, MayManage, Privileged, Verified,
                      NeedsGuard, OwnerRemains, Operative
<1>c. ASSUME task'[d].stage \in {"idle", "committed"}
      PROVE  /\ Busy(d)' => Asked(d)'
             /\ task'[d].stage = "locked" => Settled(d)'
    BY <1>c DEF Busy
<1>1. CASE \E c \in Clients, u \in Users : Login(c, u)
  <2> PICK c \in Clients, u \in Users : Login(c, u)
      BY <1>1
  <2>1. CASE c = d
      BY <2>1, <1>c DEF Login
  <2>2. CASE c # d
      BY <2>2, <1>0, <1>b DEF Login
  <2> QED BY <2>1, <2>2
<1>2. CASE \E c \in Clients, op \in Operations, u \in Users, role \in Roles,
              k \in Keys \cup {None} : Arrive(c, op, u, role, k)
  <2> PICK c \in Clients, op \in Operations, u \in Users, role \in Roles,
           k \in Keys \cup {None} : Arrive(c, op, u, role, k)
      BY <1>2
  <2>1. CASE c = d
    <3>1. /\ task'[d].stage = "arrived" /\ task'[d].op = op /\ task'[d].target = u
          /\ task'[d].role = role /\ task'[d].key = k
          /\ task'[d].privilege = Privilege(Actor(d))
        BY <2>1, <1>0 DEF Arrive, NoTask
    <3>2. Actor(d) \in Users
        BY <2>1, <1>0 DEF Arrive, MayAsk, Admitted, Accepted, Actor, Tokens
    <3>3. Actor(d)' = Actor(d)
        BY DEF Arrive, Actor
    <3>4. op = "CHANGE" <=> u = Actor(d)
        BY <2>1 DEF Arrive, MayAsk
    <3>5. Scoped(op) /\ role # "STAFF" => Privilege(Actor(d)) = "OWNER"
        BY <2>1 DEF Arrive, MayAsk, Scoped
    <3>6. Keyed(op) => k \in Keys
        BY <2>1 DEF Arrive
    <3> QED BY <3>1, <3>2, <3>3, <3>4, <3>5, <3>6 DEF Asked, Target
  <2>2. CASE c # d
      BY <2>2, <1>0, <1>b DEF Arrive
  <2> QED BY <2>1, <2>2
<1>3. CASE \E c \in Clients : TakeGuard(c) \/ Retry(c)
  <2> PICK c \in Clients : TakeGuard(c) \/ Retry(c)
      BY <1>3
  <2>1. CASE c = d
    <3>1. /\ task'[d].stage \in {"guarded", "arrived"} /\ task'[d].op = task[d].op
          /\ task'[d].target = task[d].target /\ task'[d].role = task[d].role
          /\ task'[d].key = task[d].key /\ task'[d].privilege = task[d].privilege
          /\ token' = token /\ Busy(d)
        BY <2>1, <1>0 DEF TakeGuard, Retry, Requests, Busy
    <3> QED BY <3>1, <1>a DEF Asked, Target, Actor
  <2>2. CASE c # d
      BY <2>2, <1>0, <1>b DEF TakeGuard, Retry
  <2> QED BY <2>1, <2>2
<1>4. CASE \E c \in Clients : LockTarget(c)
  <2> PICK c \in Clients : LockTarget(c)
      BY <1>4
  <2>1. CASE c = d /\ Decided(d)
    <3>1. /\ task'[d].stage = "locked" /\ task'[d].op = task[d].op
          /\ task'[d].target = task[d].target /\ task'[d].role = task[d].role
          /\ task'[d].key = task[d].key /\ task'[d].privilege = task[d].privilege
          /\ token' = token /\ account' = account /\ Busy(d)
        BY <2>1, <1>0 DEF LockTarget, Requests, Busy
    <3>2. Asked(d)'
        BY <3>1, <1>a DEF Asked, Target, Actor
    <3>3. Settled(d)
        BY <2>1 DEF Decided, Settled, Present, Possible
    <3>4. Settled(d)'
        BY <3>1, <3>3 DEF Settled, Target, Actor, Row, MayManage, Privileged, Verified,
                          NeedsGuard, OwnerRemains, Operative
    <3> QED BY <3>2, <3>4
  <2>2. CASE c = d /\ ~Decided(d)
      BY <2>2, <1>0, <1>c DEF LockTarget
  <2>3. CASE c # d
      BY <2>3, <1>0, <1>b DEF LockTarget
  <2> QED BY <2>1, <2>2, <2>3
<1>5. CASE \E c \in Clients, row \in Accounts : Commit(c, task[c].op, row) /\ Sane(c, row)
  <2> PICK c \in Clients, row \in Accounts : Commit(c, task[c].op, row) /\ Sane(c, row)
      BY <1>5
  <2>1. CASE c = d
    <3>1. task'[d].stage \in {"idle", "committed"}
        BY <2>1, <1>0 DEF Commit, Requests
    <3> QED BY <3>1, <1>c
  <2>2. CASE c # d
    <3>1. task'[d] = task[d] /\ token' = token
        BY <2>2, <1>0 DEF Commit
    <3>2. Busy(d)' => Asked(d)'
        BY <3>1, <1>a DEF Busy, Asked, Target, Actor
    <3>3. ASSUME task[d].stage = "locked"
          PROVE  Settled(d)'
      <4>1. task[c].stage = "locked" /\ Target(c) \in Users /\ Target(d) \in Users
            /\ Target(c) # Target(d)
          BY <3>3, <2>2, <1>0, CommitterFacts DEF Commit, LocksExclude
      <4>2. account' = [account EXCEPT ![Target(c)] = row]
          BY DEF Commit
      <4>3. account'[Target(d)] = account[Target(d)]
          BY <4>1, <4>2, <1>0
      <4>4. NeedsGuard(d) => ~NeedsGuard(c)
          BY <3>3, <4>1, <2>2, <1>0 DEF LocksExclude, HoldsGuard
      <4>5. ASSUME NeedsGuard(d), Operative(Target(d))
            PROVE  \E u \in Users \ {Target(d)} : Operative(u)'
        <5>1. PICK u \in Users \ {Target(d)} : Operative(u)
            BY <3>3, <4>5, <1>a DEF Settled, OwnerRemains
        <5>2. CASE u = Target(c)
            BY <5>1, <5>2, <4>1, <4>2, <4>4, <4>5, <1>0 DEF Sane, Operative
        <5>3. CASE u # Target(c)
            BY <5>1, <5>3, <4>1, <4>2, <1>0 DEF Operative
        <5> QED BY <5>2, <5>3
      <4>6. Target(d)' = Target(d) /\ NeedsGuard(d)' = NeedsGuard(d)
            /\ Operative(Target(d))' = Operative(Target(d))
          BY <3>1, <4>3 DEF Target, NeedsGuard, Operative
      <4>7. (NeedsGuard(d) => OwnerRemains(d))'
          BY <4>5, <4>6 DEF OwnerRemains
      <4>8. Settled(d)
          BY <3>3, <1>a
      <4> QED BY <3>1, <4>3, <4>7, <4>8 DEF Settled, Target, Actor, Row, MayManage, Privileged, Verified
    <3> QED BY <3>1, <3>2, <3>3
  <2> QED BY <2>1, <2>2
<1>6. CASE \E c \in Clients : Disconnect(c)
  <2> PICK c \in Clients : Disconnect(c)
      BY <1>6
  <2>1. CASE c = d
      BY <2>1, <1>0, <1>c DEF Disconnect
  <2>2. CASE c # d
      BY <2>2, <1>0, <1>b DEF Disconnect
  <2> QED BY <2>1, <2>2
<1>7. CASE Restart
    BY <1>0, <1>7, <1>c DEF Restart
<1>8. CASE task' = task /\ token' = token /\ account' = account
    BY <1>8, <1>b
<1> QED BY <1>1, <1>2, <1>3, <1>4, <1>5, <1>6, <1>7, <1>8, StepCases DEF Join, Handshake, vars

-----------------------------------------------------------------------------
(* The last owner *)

LEMMA OwnerStep ==
    ASSUME AccountsInv, [Next]_vars
    PROVE  OwnerLeft'
<1>0. PICK u \in Users : Operative(u)
    BY DEF AccountsInv, OwnerLeft
<1>1. account \in [Users -> Accounts]
    BY DEF AccountsInv, TypeOK
<1>2. CASE \E c \in Clients, row \in Accounts : Commit(c, task[c].op, row) /\ Sane(c, row)
  <2> PICK c \in Clients, row \in Accounts : Commit(c, task[c].op, row) /\ Sane(c, row)
      BY <1>2
  <2>1. /\ Settled(c) /\ Target(c) \in Users
        /\ account' = [account EXCEPT ![Target(c)] = row]
      BY CommitterFacts DEF Commit
  <2>2. CASE u # Target(c)
      BY <1>0, <1>1, <2>1, <2>2 DEF Operative, OwnerLeft
  <2>3. CASE u = Target(c) /\ ~NeedsGuard(c)
      BY <1>0, <1>1, <2>1, <2>3 DEF Operative, OwnerLeft, Sane
  <2>4. CASE u = Target(c) /\ NeedsGuard(c)
    <3>1. PICK v \in Users \ {Target(c)} : Operative(v)
        BY <1>0, <2>1, <2>4 DEF Settled, OwnerRemains
    <3> QED BY <3>1, <1>1, <2>1 DEF Operative, OwnerLeft
  <2> QED BY <2>2, <2>3, <2>4
<1>3. CASE account' = account
    BY <1>0, <1>3 DEF OwnerLeft, Operative
<1> QED BY <1>2, <1>3, StepCases DEF Login, Arrive, TakeGuard, LockTarget, Retry, Disconnect,
        Join, Handshake, Restart, vars

-----------------------------------------------------------------------------
(* Tokens *)

LEMMA TokensStep ==
    ASSUME AccountsInv, [Next]_vars
    PROVE  TokensSound'
<1>0. /\ task \in [Clients -> Requests] /\ token \in [Clients -> Tokens] /\ TokensSound
      /\ account \in [Users -> Accounts] /\ NoTask.stage = "idle" /\ RequestsSound
      /\ account' \in [Users -> Accounts]
    BY TypeStep DEF AccountsInv, TypeOK, NoTask
<1> SUFFICES ASSUME NEW d \in Clients
             PROVE  /\ token'[d].user # None => token'[d].user \in Users /\ Sound(token[d])'
                    /\ task'[d].stage = "committed" /\ task'[d].op = "CHANGE" =>
                          /\ token'[d].user \in Users /\ task'[d].target = token'[d].user
                          /\ task'[d].grant.user = token'[d].user /\ Sound(task[d].grant)'
                          /\ token'[d].by < account'[token'[d].user].password
    BY DEF TokensSound, Actor, Target
<1>a. /\ token[d].user # None => token[d].user \in Users /\ Sound(token[d])
      /\ task[d].stage = "committed" /\ task[d].op = "CHANGE" =>
            /\ token[d].user \in Users /\ task[d].target = token[d].user
            /\ task[d].grant.user = token[d].user /\ Sound(task[d].grant)
            /\ token[d].by < account[token[d].user].password
    BY <1>0 DEF TokensSound, Actor, Target
<1>b. ASSUME token'[d] = token[d]
      PROVE  token'[d].user # None => token'[d].user \in Users /\ Sound(token[d])'
  <2> SUFFICES ASSUME token[d].user # None
               PROVE  token[d].user \in Users /\ Sound(token[d])'
      BY <1>b
  <2>1. token[d] \in Tokens /\ token[d].user \in Users /\ Sound(token[d])
      BY <1>0, <1>a
  <2>2. PICK t \in Tokens : t = token[d]
      BY <2>1
  <2>3. Sound(t)'
      BY <2>1, <2>2, SoundStays
  <2> QED BY <1>b, <2>1, <2>2, <2>3 DEF Sound
<1>c. ASSUME token'[d] = token[d], task'[d] = task[d],
             task[d].stage = "committed", task[d].op = "CHANGE"
      PROVE  /\ token'[d].user \in Users /\ task'[d].target = token'[d].user
             /\ task'[d].grant.user = token'[d].user /\ Sound(task[d].grant)'
             /\ token'[d].by < account'[token'[d].user].password
  <2>1. PICK t \in Tokens : t = task[d].grant
      BY <1>0 DEF Requests
  <2>2. t.user \in Users /\ Sound(t)
      BY <1>a, <1>c, <2>1
  <2>3. Sound(t)'
      BY <2>2, SoundStays
  <2>4. /\ account'[token[d].user].password >= account[token[d].user].password
        /\ token[d].user \in Users
      BY <1>a, <1>c, RowsOnlyGrow
  <2>5. /\ account'[token[d].user].password \in Nat /\ account[token[d].user].password \in Nat
        /\ token[d].by \in Nat
      BY <1>0, <2>4 DEF Accounts, Tokens
  <2> QED BY <1>a, <1>c, <2>1, <2>3, <2>4, <2>5 DEF Sound
<1>d. ASSUME token'[d] = token[d], task'[d] = task[d] \/ task'[d].stage # "committed"
      PROVE  /\ token'[d].user # None => token'[d].user \in Users /\ Sound(token[d])'
             /\ task'[d].stage = "committed" /\ task'[d].op = "CHANGE" =>
                   /\ token'[d].user \in Users /\ task'[d].target = token'[d].user
                   /\ task'[d].grant.user = token'[d].user /\ Sound(task[d].grant)'
                   /\ token'[d].by < account'[token'[d].user].password
    BY <1>b, <1>c, <1>d
<1>1. CASE \E c \in Clients, u \in Users : Login(c, u)
  <2> PICK c \in Clients, u \in Users : Login(c, u)
      BY <1>1
  <2>1. CASE c = d
    <3>1. /\ token'[d] = [user |-> u, cc |-> account[u].epoch, by |-> account[u].password]
          /\ task'[d].stage = "idle" /\ account' = account /\ account[u].exists
        BY <2>1, <1>0 DEF Login
    <3>2. account[u].epoch \in Nat /\ account[u].password \in Nat
        BY <1>0 DEF Accounts
    <3> QED BY <3>1, <3>2 DEF Sound
  <2>2. CASE c # d
      BY <2>2, <1>0, <1>d DEF Login
  <2> QED BY <2>1, <2>2
<1>2. CASE \E c \in Clients, op \in Operations, u \in Users, role \in Roles,
              k \in Keys \cup {None} : Arrive(c, op, u, role, k)
  <2> PICK c \in Clients, op \in Operations, u \in Users, role \in Roles,
           k \in Keys \cup {None} : Arrive(c, op, u, role, k)
      BY <1>2
  <2>1. token'[d] = token[d] /\ (task'[d] = task[d] \/ task'[d].stage # "committed")
      BY <1>0 DEF Arrive, NoTask
  <2> QED BY <2>1, <1>d
<1>3. CASE \E c \in Clients : TakeGuard(c) \/ LockTarget(c) \/ Retry(c)
  <2> PICK c \in Clients : TakeGuard(c) \/ LockTarget(c) \/ Retry(c)
      BY <1>3
  <2>1. token'[d] = token[d] /\ (task'[d] = task[d] \/ task'[d].stage # "committed")
      BY <1>0 DEF TakeGuard, LockTarget, Retry, Requests
  <2> QED BY <2>1, <1>d
<1>4. CASE \E c \in Clients, row \in Accounts : Commit(c, task[c].op, row) /\ Sane(c, row)
  <2> PICK c \in Clients, row \in Accounts : Commit(c, task[c].op, row) /\ Sane(c, row)
      BY <1>4
  <2>0. token' = token
      BY DEF Commit
  <2>1. CASE c = d /\ task[d].op = "CHANGE"
    <3>1. /\ Asked(c) /\ Settled(c) /\ Target(c) \in Users /\ Actor(c) \in Users
        BY CommitterFacts DEF Commit
    <3>2. Target(c) = Actor(c) /\ token[c].by = account[Target(c)].password
        BY <2>1, <3>1 DEF Asked, Settled, Verified, Row
    <3>3. account'[Target(c)] = row /\ row.exists /\ row.password = account[Target(c)].password + 1
        BY <2>1, <3>1, <1>0 DEF Commit, Sane, Row
    <3>4. task'[c].grant = [user |-> Target(c), cc |-> row.epoch, by |-> row.password]
          /\ task'[c].target = Target(c)
        BY <2>1, <1>0 DEF Commit, Requests, Target
    <3>5. row.epoch \in Nat /\ row.password \in Nat /\ account[Target(c)].password \in Nat
        BY <3>1, <1>0 DEF Accounts
    <3>6. Sound(task[c].grant)'
        BY <3>3, <3>4, <3>5 DEF Sound
    <3>7. token'[c].by < account'[Target(c)].password
        BY <2>0, <3>2, <3>3, <3>5
    <3> QED BY <1>b, <2>0, <2>1, <3>1, <3>2, <3>4, <3>6, <3>7 DEF Actor
  <2>2. CASE c = d /\ task[d].op # "CHANGE"
    <3>1. task'[d].stage = "committed" => task'[d].op # "CHANGE"
        BY <2>2, <1>0 DEF Commit, Requests, NoTask
    <3> QED BY <2>0, <3>1, <1>b
  <2>3. CASE c # d
      BY <2>0, <2>3, <1>0, <1>d DEF Commit
  <2> QED BY <2>1, <2>2, <2>3
<1>5. CASE \E c \in Clients : Disconnect(c)
  <2> PICK c \in Clients : Disconnect(c)
      BY <1>5
  <2>1. CASE c = d /\ task[d].op = "CHANGE"
    <3>1. token'[d] = task[d].grant /\ task'[d].stage = "idle" /\ account' = account
        BY <2>1, <1>0 DEF Disconnect
    <3> QED BY <2>1, <3>1, <1>a DEF Sound, Disconnect
  <2>2. CASE ~(c = d /\ task[d].op = "CHANGE")
    <3>1. token'[d] = token[d] /\ (task'[d] = task[d] \/ task'[d].stage # "committed")
        BY <2>2, <1>0 DEF Disconnect
    <3> QED BY <3>1, <1>d
  <2> QED BY <2>1, <2>2
<1>6. CASE Restart
  <2>1. token'[d] = token[d] /\ task'[d].stage # "committed"
      BY <1>6, <1>0 DEF Restart
  <2> QED BY <2>1, <1>d
<1>7. CASE task' = task /\ token' = token
    BY <1>7, <1>d
<1> QED BY <1>1, <1>2, <1>3, <1>4, <1>5, <1>6, <1>7, StepCases DEF Join, Handshake, vars

LEMMA ChangesStep ==
    ASSUME AccountsInv, [Next]_vars
    PROVE  OneChangePerPassword'
<1>0. /\ task \in [Clients -> Requests] /\ token \in [Clients -> Tokens] /\ TokensSound
      /\ NoTask.stage = "idle" /\ OneChangePerPassword /\ account \in [Users -> Accounts]
    BY DEF AccountsInv, TypeOK, NoTask
\* The changes that were committed before this step kept their tokens.
<1> DEFINE Won(c) == task[c].stage = "committed" /\ task[c].op = "CHANGE"
<1>a. ASSUME NEW c \in Clients, \A d \in Clients \ {c} : Won(d)' => Won(d) /\ token'[d] = token[d],
             ~Won(c)'
      PROVE  OneChangePerPassword'
    BY <1>0, <1>a DEF OneChangePerPassword
<1>1. CASE \E c \in Clients, row \in Accounts : Commit(c, task[c].op, row) /\ Sane(c, row)
  <2> PICK c \in Clients, row \in Accounts : Commit(c, task[c].op, row) /\ Sane(c, row)
      BY <1>1
  <2>1. token' = token /\ \A d \in Clients \ {c} : task'[d] = task[d]
      BY <1>0 DEF Commit
  <2>2. CASE task[c].op = "CHANGE"
    <3>1. Target(c) = Actor(c) /\ token[c].by = account[Actor(c)].password /\ Actor(c) \in Users
        BY <2>2, CommitterFacts DEF Commit, Asked, Settled, Verified, Row
    <3>2. ASSUME NEW d \in Clients \ {c}, Won(d), token[d].user = token[c].user
          PROVE  token[d].by # token[c].by
      <4>1. token[d].by < account[token[c].user].password
          BY <3>2, <1>0 DEF TokensSound, Actor
      <4>2. token[d].by \in Nat /\ account[token[c].user].password \in Nat
          BY <1>0, <3>1 DEF Tokens, Accounts, Actor
      <4> QED BY <3>1, <4>1, <4>2 DEF Actor
    <3>3. ASSUME NEW d \in Clients, NEW e \in Clients, d # e, Won(d)', Won(e)',
                 token[d].user = token[e].user, token[d].by = token[e].by
          PROVE  FALSE
      <4>1. CASE d = c
          BY <2>1, <3>2, <3>3, <4>1
      <4>2. CASE e = c
          BY <2>1, <3>2, <3>3, <4>2
      <4>3. CASE d # c /\ e # c
          BY <2>1, <3>3, <4>3, <1>0 DEF OneChangePerPassword
      <4> QED BY <4>1, <4>2, <4>3
    <3> QED BY <2>1, <3>3 DEF OneChangePerPassword
  <2>3. CASE task[c].op # "CHANGE"
    <3>1. ~Won(c)'
        BY <2>3, <1>0 DEF Commit, Requests
    <3> QED BY <2>1, <3>1, <1>a
  <2> QED BY <2>2, <2>3
<1>2. CASE \E c \in Clients, u \in Users : Login(c, u)
    BY <1>2, <1>0, <1>a DEF Login
<1>3. CASE \E c \in Clients, op \in Operations, u \in Users, role \in Roles,
              k \in Keys \cup {None} : Arrive(c, op, u, role, k)
  <2> PICK c \in Clients, op \in Operations, u \in Users, role \in Roles,
           k \in Keys \cup {None} : Arrive(c, op, u, role, k)
      BY <1>3
  <2>1. task'[c].stage = "arrived" /\ token' = token /\ \A d \in Clients \ {c} : task'[d] = task[d]
      BY <1>0 DEF Arrive, NoTask
  <2> QED BY <2>1, <1>a
<1>4. CASE \E c \in Clients : TakeGuard(c) \/ LockTarget(c) \/ Retry(c) \/ Disconnect(c)
  <2> PICK c \in Clients : TakeGuard(c) \/ LockTarget(c) \/ Retry(c) \/ Disconnect(c)
      BY <1>4
  <2>1. task'[c].stage # "committed"
        /\ \A d \in Clients \ {c} : task'[d] = task[d] /\ token'[d] = token[d]
      BY <1>0 DEF TakeGuard, LockTarget, Retry, Disconnect, Requests
  <2> QED BY <2>1, <1>a
<1>5. CASE Restart
    BY <1>5, <1>0 DEF Restart, OneChangePerPassword
<1>6. CASE task' = task /\ token' = token
    BY <1>6, <1>0 DEF OneChangePerPassword
<1> QED BY <1>1, <1>2, <1>3, <1>4, <1>5, <1>6, StepCases DEF Join, Handshake, vars

-----------------------------------------------------------------------------
(* Keys and sockets *)

LEMMA ToldStep ==
    ASSUME AccountsInv, [Next]_vars
    PROVE  ToldRecorded'
<1>0. ToldRecorded
    BY DEF AccountsInv
<1>1. CASE \E c \in Clients : LockTarget(c)
  <2> PICK c \in Clients : LockTarget(c)
      BY <1>1
  <2>1. ops' = ops
      BY DEF LockTarget
  <2>2. ASSUME NEW p \in told'
        PROVE  \E o \in ops : o.actor = p[1] /\ o.key = p[2]
    <3>1. CASE p \in told
        BY <1>0, <3>1 DEF ToldRecorded
    <3>2. CASE p \notin told
      <4>1. Replay(c) /\ p = <<Actor(c), task[c].key>>
          BY <2>2, <3>2 DEF LockTarget
      <4> QED BY <4>1 DEF Replay
    <3> QED BY <3>1, <3>2
  <2> QED BY <2>1, <2>2 DEF ToldRecorded
<1>2. CASE \E c \in Clients, row \in Accounts : Commit(c, task[c].op, row) /\ Sane(c, row)
  <2> PICK c \in Clients, row \in Accounts : Commit(c, task[c].op, row) /\ Sane(c, row)
      BY <1>2
  <2>1. ops' = ops \cup Recorded(c)
      BY DEF Commit
  <2>2. ASSUME NEW p \in told'
        PROVE  \E o \in ops' : o.actor = p[1] /\ o.key = p[2]
    <3>1. CASE p \in told
        BY <1>0, <2>1, <3>1 DEF ToldRecorded
    <3>2. CASE p \notin told
      <4>1. task[c].op = "DEACTIVATE" /\ p = <<Actor(c), task[c].key>>
          BY <2>2, <3>2 DEF Commit
      <4> DEFINE o == [actor |-> Actor(c), key |-> task[c].key, op |-> task[c].op,
                       target |-> Target(c), role |-> task[c].role]
      <4>2. o \in ops'
          BY <2>1, <4>1 DEF Recorded, Keyed
      <4>3. o.actor = p[1] /\ o.key = p[2]
          BY <4>1
      <4> QED BY <4>2, <4>3
    <3> QED BY <3>1, <3>2
  <2> QED BY <2>2 DEF ToldRecorded
<1>3. CASE ops' = ops /\ told' = told
    BY <1>0, <1>3 DEF ToldRecorded
<1>4. ASSUME NEW c \in Clients, TakeGuard(c) \/ Retry(c) \/ Disconnect(c)
      PROVE  ops' = ops /\ told' = told
    BY <1>4 DEF TakeGuard, Retry, Disconnect
<1>5. ASSUME NEW c \in Clients, NEW u \in Users, Login(c, u)
      PROVE  ops' = ops /\ told' = told
    BY <1>5 DEF Login
<1>6. ASSUME NEW c, NEW op, NEW u, NEW role, NEW k, Arrive(c, op, u, role, k)
      PROVE  ops' = ops /\ told' = told
    BY <1>6 DEF Arrive
<1>7. ASSUME NEW s \in Sockets, Join(s) \/ \E c \in Clients : Handshake(s, c)
      PROVE  ops' = ops /\ told' = told
    BY <1>7 DEF Join, Handshake
<1>8. ASSUME Restart \/ UNCHANGED vars
      PROVE  ops' = ops /\ told' = told
    BY <1>8 DEF Restart, vars
<1> QED BY <1>1, <1>2, <1>3, <1>4, <1>5, <1>6, <1>7, <1>8, StepCases

LEMMA SocketsStep ==
    ASSUME AccountsInv, [Next]_vars
    PROVE  SocketsSound' /\ SocketsOfOldDie'
<1>0. /\ socket \in [Sockets -> Connections] /\ task \in [Clients -> Requests]
      /\ changes \in [Users -> Nat] /\ account \in [Users -> Accounts]
      /\ SocketsSound /\ SocketsOfOldDie /\ NoTask.stage = "idle" /\ NoSocket.stage = "none"
    BY DEF AccountsInv, TypeOK, NoTask, NoSocket
<1> SUFFICES ASSUME NEW s \in Sockets, socket'[s].stage # "none"
             PROVE  /\ socket'[s].user \in Users /\ account'[socket'[s].user].exists
                    /\ socket'[s].stage = "joined" =>
                          \/ socket'[s].since = changes'[socket'[s].user]
                          \/ \E c \in Clients : /\ task'[c].stage = "committed"
                                                /\ task'[c].target = socket'[s].user
    BY DEF SocketsSound, SocketsOfOldDie, Unannounced, Target
<1>a. socket[s].stage # "none" =>
         /\ socket[s].user \in Users /\ account[socket[s].user].exists
         /\ socket[s].stage = "joined" =>
               \/ socket[s].since = changes[socket[s].user]
               \/ \E c \in Clients : /\ task[c].stage = "committed"
                                     /\ task[c].target = socket[s].user
    BY <1>0 DEF SocketsSound, SocketsOfOldDie, Unannounced, Target
<1>1. CASE /\ socket' = socket /\ account' = account /\ changes' = changes
           /\ \A c \in Clients : task[c].stage = "committed" => task'[c] = task[c]
    BY <1>1, <1>a
<1>2. CASE \E c \in Clients, row \in Accounts : Commit(c, task[c].op, row) /\ Sane(c, row)
  <2> PICK c \in Clients, row \in Accounts : Commit(c, task[c].op, row) /\ Sane(c, row)
      BY <1>2
  <2>1. /\ socket' = socket /\ account' = [account EXCEPT ![Target(c)] = row]
        /\ row.exists /\ Target(c) \in Users /\ task[c].stage = "locked" /\ Settled(c)
        /\ changes' = changes \/ changes' = [changes EXCEPT ![Target(c)] = @ + 1]
        /\ \A d \in Clients \ {c} : task'[d] = task[d]
      BY <1>0, CommitterFacts DEF Commit, Sane
  <2>2. CASE socket[s].user = Target(c)
    <3>1. task[c].op # "CREATE"
        BY <1>a, <2>1, <2>2 DEF Settled, Row
    <3>2. task'[c].stage = "committed" /\ task'[c].target = Target(c)
        BY <1>0, <3>1 DEF Commit, Requests, Target
    <3> QED BY <1>0, <2>1, <2>2, <3>2
  <2>3. CASE socket[s].user # Target(c)
    <3>1. /\ account'[socket[s].user] = account[socket[s].user]
          /\ changes'[socket[s].user] = changes[socket[s].user]
        BY <1>0, <1>a, <2>1, <2>3
    <3>2. \A d \in Clients : task[d].stage = "committed" => task'[d] = task[d]
        BY <2>1
    <3> QED BY <1>a, <2>1, <3>1, <3>2
  <2> QED BY <2>2, <2>3
<1>3. CASE \E c \in Clients : Disconnect(c)
  <2> PICK c \in Clients : Disconnect(c)
      BY <1>3
  <2>1. /\ account' = account /\ changes' = changes
        /\ \A d \in Clients \ {c} : task'[d] = task[d]
        /\ socket'[s] = (IF InRoom(s, c) THEN NoSocket ELSE socket[s])
      BY <1>0 DEF Disconnect
  <2>2. ~InRoom(s, c) /\ socket'[s] = socket[s]
      BY <1>0, <2>1
  <2>3. socket[s].stage = "joined" => socket[s].user # task[c].target
      BY <2>2 DEF InRoom, Target
  <2> QED BY <1>a, <2>1, <2>2, <2>3
<1>4. CASE \E c \in Clients, t \in Sockets : Handshake(t, c)
  <2> PICK c \in Clients, t \in Sockets : Handshake(t, c)
      BY <1>4
  <2>1. CASE t = s
    <3>1. /\ socket'[s].stage = "shaking" /\ socket'[s].user = Actor(c) /\ account' = account
          /\ Actor(c) # None /\ account[Actor(c)].exists
        BY <1>0, <2>1 DEF Handshake, Admitted, Accepted, Actor
    <3>2. Actor(c) \in Users
        BY <3>1 DEF AccountsInv, TypeOK, Tokens, Actor
    <3> QED BY <3>1, <3>2
  <2>2. CASE t # s
      BY <1>0, <1>a, <2>2 DEF Handshake
  <2> QED BY <2>1, <2>2
<1>5. CASE \E t \in Sockets : Join(t)
  <2> PICK t \in Sockets : Join(t)
      BY <1>5
  <2>1. CASE t = s
    <3>1. /\ socket'[s].user = socket[s].user /\ socket'[s].since = changes[socket[s].user]
          /\ socket[s].stage = "shaking" /\ account' = account /\ changes' = changes
        BY <1>0, <2>1 DEF Join, Connections
    <3> QED BY <1>a, <3>1
  <2>2. CASE t # s
      BY <1>0, <1>a, <2>2 DEF Join
  <2> QED BY <2>1, <2>2
<1>6. CASE Restart
    BY <1>0, <1>6 DEF Restart
<1>7. CASE \E c \in Clients, op \in Operations, u \in Users, role \in Roles,
              k \in Keys \cup {None} : Arrive(c, op, u, role, k)
    BY <1>7, <1>0, <1>1 DEF Arrive
<1>8. CASE \E c \in Clients : TakeGuard(c) \/ LockTarget(c) \/ Retry(c)
    BY <1>8, <1>0, <1>1 DEF TakeGuard, LockTarget, Retry
<1>9. CASE \E c \in Clients, u \in Users : Login(c, u)
    BY <1>9, <1>1 DEF Login
<1>10. CASE UNCHANGED vars
    BY <1>10, <1>1 DEF vars
<1> QED BY <1>2, <1>3, <1>4, <1>5, <1>6, <1>7, <1>8, <1>9, <1>10, StepCases

-----------------------------------------------------------------------------
(* The invariant *)

LEMMA InitInv ==
    ASSUME Init
    PROVE  AccountsInv
<1> USE AccountsAssumption DEF Init
<1>1. /\ \A r \in SUBSET Roles, b \in BOOLEAN : Founded(r, b) \in Accounts
      /\ Blank \in Accounts /\ NoToken \in Tokens
      /\ {"OWNER"} \in SUBSET Roles /\ {"ADMIN"} \in SUBSET Roles
    BY DEF Founded, Blank, NoToken, Accounts, Tokens, Roles
<1>2. NoTask \in Requests /\ NoSocket \in Connections
    BY <1>1 DEF NoTask, NoSocket, NoToken, Operations, Roles, Requests, Connections
<1>3. \A u \in Users : account[u].exists \/ account[u] = Blank
    BY DEF Founded
<1>4. account \in [Users -> Accounts]
    BY <1>1
<1>5. TypeOK
    BY <1>1, <1>2, <1>3, <1>4 DEF TypeOK
<1>6. OwnerLeft
  <2>1. PICK u \in Owners : TRUE
      OBVIOUS
  <2>2. u \in Users /\ account[u] = Founded({"OWNER"}, FALSE)
      OBVIOUS
  <2> QED BY <2>2 DEF OwnerLeft, Operative, Founded
<1>7. \A c \in Clients : task[c].stage = "idle" /\ token[c].user = None
    BY DEF NoTask, NoToken
<1>8. \A s \in Sockets : socket[s].stage = "none"
    BY DEF NoSocket
<1>9. LocksExclude /\ RequestsSound
    BY <1>7 DEF LocksExclude, HoldsGuard, RequestsSound, Busy
<1>10. TokensSound /\ OneChangePerPassword /\ ToldRecorded
    BY <1>7 DEF TokensSound, OneChangePerPassword, ToldRecorded
<1>11. SocketsSound /\ SocketsOfOldDie
    BY <1>8 DEF SocketsSound, SocketsOfOldDie
<1> QED BY <1>5, <1>6, <1>9, <1>10, <1>11 DEF AccountsInv

LEMMA Invariant == Spec => []AccountsInv
<1>1. ASSUME AccountsInv, [Next]_vars
      PROVE  AccountsInv'
    BY <1>1, TypeStep, LocksStep, RequestsStep, OwnerStep, TokensStep, ChangesStep, ToldStep,
       SocketsStep DEF AccountsInv
<1> QED BY <1>1, InitInv, PTL DEF Spec

\* The rows of an account, its requests, tokens and sockets always have their types.
THEOREM TypeCorrect == Spec => []TypeOK
<1>1. AccountsInv => TypeOK
    BY DEF AccountsInv
<1> QED BY <1>1, Invariant, PTL

\* However the deactivations and demotions interleave, an active owner is left: both take
\* the advisory lock, and the count is taken under it (assertAnotherOperativeOwner).
THEOREM OwnerAlwaysLeft == Spec => []OwnerLeft
<1>1. AccountsInv => OwnerLeft
    BY DEF AccountsInv
<1> QED BY <1>1, Invariant, PTL

\* No accepted token outlives its password: the epoch rises with every new one, whatever
\* the clock says (nextCredentialsEpoch).
THEOREM TokenAlwaysOfCurrentPassword == Spec => []TokenOfCurrentPassword
<1>1. AccountsInv => TokenOfCurrentPassword
    BY DEF AccountsInv, TokensSound, TokenOfCurrentPassword, Accepted, Sound, Actor
<1> QED BY <1>1, Invariant, PTL

\* Two changes with one current password never both succeed (changePassword verifies it
\* against the hash read under the row lock).
THEOREM OneChangeAlways == Spec => []OneChangePerPassword
<1>1. AccountsInv => OneChangePerPassword
    BY DEF AccountsInv
<1> QED BY <1>1, Invariant, PTL

\* A socket in its room when its account changes dies with the announcement
\* (revokeUserSessions after every commit).
THEOREM SocketsOfOldAlwaysDie == Spec => []SocketsOfOldDie
<1>1. AccountsInv => SocketsOfOldDie
    BY DEF AccountsInv
<1> QED BY <1>1, Invariant, PTL

\* What PrivilegeOnlyByOwner says of one step.
ByOwner ==
    \A u \in Users : account'[u] # account[u] =>
        \/ ~Privileged(u) /\ account'[u].roles \cap {"OWNER", "ADMIN"} = {}
        \/ \E c \in Clients : HoldsRow(c, u) /\ ~HoldsRow(c, u)' /\
              (task[c].privilege = "OWNER" \/ task[c].op = "CHANGE")

\* Only who was an owner on arrival, or the account itself, changes a privileged account or
\* makes one (assertCanManageTarget under the lock, assertCanAssignRoleCode on arrival).
THEOREM PrivilegeAlwaysByOwner == Spec => PrivilegeOnlyByOwner
<1>1. ASSUME AccountsInv, [Next]_vars
      PROVE  ByOwner
  <2>0. /\ account \in [Users -> Accounts] /\ task \in [Clients -> Requests]
        /\ NoTask.stage = "idle"
      BY <1>1 DEF AccountsInv, TypeOK, NoTask
  <2>1. CASE \E c \in Clients, row \in Accounts : Commit(c, task[c].op, row) /\ Sane(c, row)
    <3> PICK c \in Clients, row \in Accounts : Commit(c, task[c].op, row) /\ Sane(c, row)
        BY <2>1
    <3>1. /\ task[c].stage = "locked" /\ task'[c].stage # "locked"
          /\ account' = [account EXCEPT ![Target(c)] = row]
        BY <2>0 DEF Commit, Requests
    <3>2. Asked(c) /\ Settled(c) /\ Target(c) \in Users /\ task[c].role \in Roles
        BY <1>1, <3>1, CommitterFacts
    <3>4. ASSUME task[c].privilege # "OWNER", task[c].op # "CHANGE"
          PROVE  ~Privileged(Target(c)) /\ row.roles \cap {"OWNER", "ADMIN"} = {}
      <4>1. ~Privileged(Target(c))
        <5>1. CASE task[c].op = "CREATE"
          <6>1. account[Target(c)] = Blank
              BY <1>1, <3>2, <5>1 DEF Settled, Row, AccountsInv, TypeOK
          <6> QED BY <6>1 DEF Privileged, Blank
        <5>2. CASE task[c].op # "CREATE"
            BY <3>2, <3>4, <5>2 DEF Settled, MayManage
        <5> QED BY <5>1, <5>2
      <4>2. Scoped(task[c].op) => task[c].role = "STAFF"
          BY <3>2, <3>4 DEF Asked
      <4>3. row.roles \subseteq Row(c).roles \cup {"STAFF"}
          BY <4>2 DEF Sane
      <4> QED BY <4>1, <4>3 DEF Privileged, Row
    <3>5. ASSUME NEW u \in Users, account'[u] # account[u]
          PROVE  u = Target(c) /\ account'[u] = row
        BY <2>0, <3>1, <3>2, <3>5
    <3> SUFFICES ASSUME NEW u \in Users, account'[u] # account[u]
                 PROVE  \/ ~Privileged(u) /\ account'[u].roles \cap {"OWNER", "ADMIN"} = {}
                        \/ HoldsRow(c, u) /\ ~HoldsRow(c, u)' /\
                              (task[c].privilege = "OWNER" \/ task[c].op = "CHANGE")
        BY DEF ByOwner
    <3>6. u = Target(c) /\ account'[u] = row
        BY <3>5
    <3>7. HoldsRow(c, u) /\ ~HoldsRow(c, u)'
        BY <3>1, <3>6 DEF HoldsRow
    <3> QED BY <3>4, <3>6, <3>7
  <2>2. CASE account' = account
      BY <2>2 DEF ByOwner
  <2> QED BY <1>1, <2>1, <2>2, StepCases DEF Login, Arrive, TakeGuard, LockTarget, Retry,
          Disconnect, Join, Handshake, Restart, vars
<1>2. PrivilegeOnlyByOwner <=> [][ByOwner]_vars
    BY PTL DEF PrivilegeOnlyByOwner, ByOwner
<1> QED BY <1>1, <1>2, Invariant, PTL DEF Spec

\* What DeactivatedOncePerKey says of one step.
DeactivatedOnce ==
    \A u \in Users : account[u].active /\ ~account'[u].active =>
        \E c \in Clients : HoldsRow(c, u) /\ <<Actor(c), task[c].key>> \notin told

\* An answered deactivation is never done again for the same actor and key, because every
\* answer leaves its record (recordOperation).
THEOREM DeactivatedOnceAlways == Spec => DeactivatedOncePerKey
<1>1. ASSUME AccountsInv, [Next]_vars
      PROVE  DeactivatedOnce
  <2>0. account \in [Users -> Accounts] /\ task \in [Clients -> Requests]
      BY <1>1 DEF AccountsInv, TypeOK
  <2>1. CASE \E c \in Clients, row \in Accounts : Commit(c, task[c].op, row) /\ Sane(c, row)
    <3> PICK c \in Clients, row \in Accounts : Commit(c, task[c].op, row) /\ Sane(c, row)
        BY <2>1
    <3>1. /\ task[c].stage = "locked" /\ account' = [account EXCEPT ![Target(c)] = row]
          /\ Keyed(task[c].op) => ~Used(c)
        BY DEF Commit
    <3>2. ASSUME NEW u \in Users, account[u].active, ~account'[u].active
          PROVE  HoldsRow(c, u) /\ <<Actor(c), task[c].key>> \notin told
      <4>1. u = Target(c) /\ account'[u] = row
          BY <2>0, <3>1, <3>2
      <4>2. task[c].op = "DEACTIVATE"
          BY <3>2, <4>1 DEF Sane, Row
      <4>3. ~Used(c)
          BY <3>1, <4>2 DEF Keyed
      <4>4. ASSUME <<Actor(c), task[c].key>> \in told
            PROVE  FALSE
        <5>1. PICK o \in ops : o.actor = Actor(c) /\ o.key = task[c].key
            BY <1>1, <4>4 DEF AccountsInv, ToldRecorded
        <5> QED BY <4>3, <5>1 DEF Used
      <4> QED BY <3>1, <4>1, <4>4 DEF HoldsRow
    <3> QED BY <3>2 DEF DeactivatedOnce
  <2>2. CASE account' = account
      BY <2>2 DEF DeactivatedOnce
  <2> QED BY <1>1, <2>1, <2>2, StepCases DEF Login, Arrive, TakeGuard, LockTarget, Retry,
          Disconnect, Join, Handshake, Restart, vars
<1>2. DeactivatedOncePerKey <=> [][DeactivatedOnce]_vars
    BY PTL DEF DeactivatedOncePerKey, DeactivatedOnce
<1> QED BY <1>1, <1>2, Invariant, PTL DEF Spec
=============================================================================
