------------------------------ MODULE Accounts ------------------------------
(***************************************************************************)
(* The accounts of the people who use the system: who may change whose     *)
(* account, the passwords and the credentials epoch that every token names *)
(* (src/api/src/modules/backoffice/, modules/auth/), and the live sockets  *)
(* that keep the authorization they connected with (realtime/).            *)
(*                                                                         *)
(* A request is authorized when it arrives (Arrive), may queue for the     *)
(* advisory lock of the last owner (TakeGuard), then for the row of its    *)
(* target, where it is decided (LockTarget); it commits later (one action  *)
(* for each operation) and disconnects the sockets later still             *)
(* (Disconnect).  A request that is refused leaves no trace.               *)
(*                                                                         *)
(* Abstractions: the n-th password an account has had is the number n; an  *)
(* operational role and its locations are STAFF; names, e-mails, expiry of *)
(* tokens and permissions other than USER_MANAGE are left out.             *)
(***************************************************************************)
EXTENDS Integers, FiniteSets

CONSTANTS
    Users,          \* the accounts that may ever exist
    Owners,         \* those that exist from the start and own the company
    Admins,         \* those that exist from the start and administer it
    Clients,        \* browsers, each with one token and one request at a time
    Sockets,        \* live connections
    Keys,           \* idempotency keys
    None,           \* no account, no key
    Offered,        \* the operations people ask for
    Clock,          \* what Date.now() may say, in any order
    MaxChanges      \* bound: the changes of one account

Roles == {"OWNER", "ADMIN", "STAFF"}
Operations == {"CREATE", "DEACTIVATE", "REACTIVATE", "RESET", "CHANGE", "ASSIGN", "REVOKE"}

ASSUME AccountsAssumption ==
    /\ Owners \subseteq Users /\ Owners # {} /\ Admins \subseteq Users
    /\ None \notin Users \cup Keys
    /\ Offered \subseteq Operations
    /\ Clock \subseteq Nat \ {0} /\ Clock # {} /\ MaxChanges \in Nat

VARIABLES
    account,        \* the User row and its UserRoleScope rows
    changes,        \* the AuditLog rows of each account
    ops,            \* the UserAdminOperation rows
    told,           \* the (actor, key) pairs whose deactivation was answered as done
    token,          \* the access token each browser holds
    task,           \* the request each browser has under way
    socket          \* the live connections

vars == <<account, changes, ops, told, token, task, socket>>

-----------------------------------------------------------------------------
(* Accounts, tokens and requests *)

Blank == [exists |-> FALSE, active |-> FALSE, mustChange |-> FALSE, password |-> 0,
          epoch |-> 0, roles |-> {}]

Founded(roles, mustChange) == [exists |-> TRUE, active |-> TRUE, mustChange |-> mustChange,
                               password |-> 0, epoch |-> 0, roles |-> roles]

NoToken == [user |-> None, cc |-> 0, by |-> 0]
NoTask == [stage |-> "idle", privilege |-> "NONE", op |-> "CHANGE", target |-> None,
           role |-> "STAFF", key |-> None, grant |-> NoToken]
NoSocket == [stage |-> "none", user |-> None, seen |-> 0, since |-> 0]

\* Not the code: the clock is believed.
NextEpochByClock(previous, now) == IF previous > now THEN previous ELSE now

\* Strictly after the previous epoch, whatever the clock says (0 is NULL).
NextEpoch(previous, now) == IF previous = 0 \/ now > previous THEN now ELSE previous + 1

\* The token is accepted: its account exists, is active, and has the epoch it names.
Accepted(t) == t.user # None /\ account[t.user].exists /\ account[t.user].active
               /\ account[t.user].epoch = t.cc

\* ... and no password change is pending, for all routes but two.
Admitted(t) == Accepted(t) /\ ~account[t.user].mustChange

Privilege(u) == CASE "OWNER" \in account[u].roles -> "OWNER"
                  [] "ADMIN" \in account[u].roles -> "ADMIN"
                  [] OTHER -> "NONE"

Privileged(u) == account[u].roles \cap {"OWNER", "ADMIN"} # {}

Operative(u) == account[u].active /\ "OWNER" \in account[u].roles

Actor(c) == token[c].user
Target(c) == task[c].target
Row(c) == account[Target(c)]

Keyed(op) == op \in {"CREATE", "DEACTIVATE", "REACTIVATE", "RESET"}
Scoped(op) == op \in {"ASSIGN", "REVOKE", "CREATE"}

-----------------------------------------------------------------------------
(* Locks *)

\* Not the code: the stronger lock, as it was before it was found to deadlock.
TargetLockForUpdate == "FOR UPDATE"

TargetLock == "FOR NO KEY UPDATE"

\* Which row locks a foreign key check (FOR KEY SHARE) waits for.
KeyShareWaits(mode) == mode = "FOR UPDATE"

\* The operations that may take the last owner away queue for one advisory lock.
NeedsGuard(c) == task[c].op = "DEACTIVATE" \/ (task[c].op = "REVOKE" /\ task[c].role = "OWNER")

HoldsGuard(c) == NeedsGuard(c) /\ task[c].stage \in {"guarded", "locked"}
\* Not the code: no advisory lock.
GuardAlwaysFree == TRUE

GuardFree == \A d \in Clients : ~HoldsGuard(d)

HoldsRow(c, u) == task[c].stage = "locked" /\ Target(c) = u
RowFree(u) == \A d \in Clients : ~HoldsRow(d, u)

\* The audit row names the actor, so its insert locks the actor's row FOR KEY SHARE.
ActorReferable(c) ==
    \A d \in Clients \ {c} : ~(HoldsRow(d, Actor(c)) /\ KeyShareWaits(TargetLock))

-----------------------------------------------------------------------------
(* The decisions taken under the lock of the target *)

\* The caller's authority over the account, from the roles the account has now.
MayManage(c) == Target(c) # Actor(c) /\ (task[c].privilege = "OWNER" \/ ~Privileged(Target(c)))

\* The account is there (404), or, when it is created, is not (EMAIL_TAKEN).
Present(c) == Row(c).exists <=> task[c].op # "CREATE"

\* The key was used: a replay, or a refusal if it was used for something else.
Used(c) == \E o \in ops : o.actor = Actor(c) /\ o.key = task[c].key
Replay(c) == [actor |-> Actor(c), key |-> task[c].key, op |-> task[c].op, target |-> Target(c),
              role |-> task[c].role] \in ops

\* LAST_OWNER_PROTECTED.
OwnerRemains(c) == Operative(Target(c)) => \E u \in Users \ {Target(c)} : Operative(u)

\* The current password, against the hash that is current now.
Verified(c) == token[c].by = Row(c).password

\* The operation has something to do, and may.
Possible(c) ==
    LET op == task[c].op IN
    /\ op = "REACTIVATE" => ~Row(c).active
    /\ op = "RESET" => Row(c).active
    /\ op = "CHANGE" => Row(c).active /\ Verified(c)
    /\ op = "ASSIGN" => task[c].role \notin Row(c).roles
    /\ op = "REVOKE" => task[c].role \in Row(c).roles
    /\ NeedsGuard(c) => OwnerRemains(c)

Decided(c) ==
    /\ Present(c)
    /\ task[c].op \in {"CHANGE", "CREATE"} \/ MayManage(c)
    /\ Keyed(task[c].op) => ~Used(c)
    /\ Possible(c)

-----------------------------------------------------------------------------
(* The life of a request *)

Init ==
    /\ account = [u \in Users |->
          IF u \in Owners THEN Founded({"OWNER"}, FALSE)
          ELSE IF u \in Admins THEN Founded({"ADMIN"}, FALSE) ELSE Blank]
    /\ changes = [u \in Users |-> 0]
    /\ ops = {} /\ told = {}
    /\ token = [c \in Clients |-> NoToken]
    /\ task = [c \in Clients |-> NoTask]
    /\ socket = [s \in Sockets |-> NoSocket]

\* Whoever knows the password logs in; the token names the epoch that was read with it.
Login(c, u) ==
    /\ task[c].stage = "idle"
    /\ account[u].exists /\ account[u].active
    /\ token' = [token EXCEPT ![c] = [user |-> u, cc |-> account[u].epoch,
                                      by |-> account[u].password]]
    /\ UNCHANGED <<account, changes, ops, told, task, socket>>

\* MaxChanges, counting the requests that may still change the account.
MayStillChange(u) ==
    changes[u] + Cardinality({d \in Clients :
        Target(d) = u /\ task[d].stage \in {"arrived", "guarded", "locked"}}) < MaxChanges

\* What the authenticated caller may ask for at all, from the roles read on arrival.
MayAsk(c, op, u, role) ==
    /\ op \in Offered
    /\ IF op = "CHANGE" THEN Accepted(token[c]) /\ u = Actor(c)
       ELSE /\ Admitted(token[c]) /\ Privilege(Actor(c)) # "NONE" /\ u # Actor(c)
            /\ Scoped(op) /\ role # "STAFF" => Privilege(Actor(c)) = "OWNER"

Arrive(c, op, u, role, k) ==
    /\ task[c].stage = "idle"
    /\ MayAsk(c, op, u, role) /\ MayStillChange(u)
    /\ (role = "STAFF" \/ Scoped(op)) /\ (k # None <=> Keyed(op))
    /\ task' = [task EXCEPT ![c] = [NoTask EXCEPT
          !.stage = "arrived", !.privilege = Privilege(Actor(c)), !.op = op,
          !.target = u, !.role = role, !.key = k]]
    /\ UNCHANGED <<account, changes, ops, told, token, socket>>

TakeGuard(c) ==
    /\ task[c].stage = "arrived" /\ NeedsGuard(c) /\ GuardFree
    /\ task' = [task EXCEPT ![c].stage = "guarded"]
    /\ UNCHANGED <<account, changes, ops, told, token, socket>>

\* The row is locked and the request decided; a refusal and a replay end the transaction.
LockTarget(c) ==
    /\ task[c].stage = (IF NeedsGuard(c) THEN "guarded" ELSE "arrived")
    /\ RowFree(Target(c))
    /\ task' = [task EXCEPT ![c] = IF Decided(c) THEN [@ EXCEPT !.stage = "locked"] ELSE NoTask]
    /\ told' = IF task[c].op = "DEACTIVATE" /\ Present(c) /\ MayManage(c) /\ Replay(c)
               THEN told \cup {<<Actor(c), task[c].key>>} ELSE told
    /\ UNCHANGED <<account, changes, ops, token, socket>>

-----------------------------------------------------------------------------
(* The operations, at their commit *)

\* What the UserAdminOperation table keeps of the request.
Recorded(c) == IF Keyed(task[c].op)
               THEN {[actor |-> Actor(c), key |-> task[c].key, op |-> task[c].op,
                      target |-> Target(c), role |-> task[c].role]}
               ELSE {}

Commit(c, op, row) ==
    /\ task[c].stage = "locked" /\ task[c].op = op /\ ActorReferable(c)
    /\ Keyed(op) => ~Used(c)
    /\ account' = [account EXCEPT ![Target(c)] = row]
    /\ changes' = IF row = Row(c) THEN changes ELSE [changes EXCEPT ![Target(c)] = @ + 1]
    /\ ops' = ops \cup Recorded(c)
    /\ told' = IF op = "DEACTIVATE" THEN told \cup {<<Actor(c), task[c].key>>} ELSE told
    /\ task' = [task EXCEPT ![c] = IF op = "CREATE" THEN NoTask ELSE
          [@ EXCEPT !.stage = "committed",
                    !.grant = IF op = "CHANGE"
                              THEN [user |-> Target(c), cc |-> row.epoch, by |-> row.password]
                              ELSE NoToken]]
    /\ UNCHANGED <<token, socket>>

Create(c) == Commit(c, "CREATE", Founded({task[c].role}, TRUE))

Deactivate(c, now) == Commit(c, "DEACTIVATE",
    IF Row(c).active
    THEN [Row(c) EXCEPT !.active = FALSE, !.epoch = NextEpoch(@, now)] ELSE Row(c))

\* Reactivation and reset: a new temporary password.
Issue(row, now) == [row EXCEPT !.active = TRUE, !.mustChange = TRUE, !.password = @ + 1,
                               !.epoch = NextEpoch(@, now)]

Reactivate(c, now) == Commit(c, "REACTIVATE", Issue(Row(c), now))
ResetPassword(c, now) == Commit(c, "RESET", Issue(Row(c), now))

ChangePassword(c, now) == Commit(c, "CHANGE",
    [Row(c) EXCEPT !.mustChange = FALSE, !.password = @ + 1, !.epoch = NextEpoch(@, now)])

AssignRole(c) == Commit(c, "ASSIGN", [Row(c) EXCEPT !.roles = @ \cup {task[c].role}])
RevokeRole(c) == Commit(c, "REVOKE", [Row(c) EXCEPT !.roles = @ \ {task[c].role}])

\* Another request recorded the key meanwhile: the unique index refuses the record, and the
\* transaction is tried again from the start.
Retry(c) ==
    /\ task[c].stage = "locked" /\ Keyed(task[c].op) /\ Used(c)
    /\ task' = [task EXCEPT ![c].stage = "arrived"]
    /\ UNCHANGED <<account, changes, ops, told, token, socket>>

Perform(c) ==
    \/ Retry(c) \/ Create(c) \/ AssignRole(c) \/ RevokeRole(c)
    \/ \E now \in Clock : Deactivate(c, now) \/ Reactivate(c, now)
                          \/ ResetPassword(c, now) \/ ChangePassword(c, now)

-----------------------------------------------------------------------------
(* Sockets *)

\* The handshake reads the account, and joins the room of the account later.
Handshake(s, c) ==
    /\ socket[s].stage = "none" /\ Admitted(token[c])
    /\ socket' = [socket EXCEPT ![s] = [stage |-> "shaking", user |-> Actor(c),
                                        seen |-> changes[Actor(c)], since |-> 0]]
    /\ UNCHANGED <<account, changes, ops, told, token, task>>

Join(s) ==
    /\ socket[s].stage = "shaking"
    /\ socket' = [socket EXCEPT ![s].stage = "joined", ![s].since = changes[socket[s].user]]
    /\ UNCHANGED <<account, changes, ops, told, token, task>>

\* Not the code: the room of who made the change.
InRoomOfActor(s, c) == socket[s].stage = "joined" /\ socket[s].user = Actor(c)

\* The sockets of the room of the target.
InRoom(s, c) == socket[s].stage = "joined" /\ socket[s].user = Target(c)

\* After the commit: the sockets of the target die, and a changed password is answered
\* with a token of the epoch that was committed.
Disconnect(c) ==
    /\ task[c].stage = "committed"
    /\ socket' = [s \in Sockets |-> IF InRoom(s, c) THEN NoSocket ELSE socket[s]]
    /\ token' = IF task[c].op = "CHANGE" THEN [token EXCEPT ![c] = task[c].grant] ELSE token
    /\ task' = [task EXCEPT ![c] = NoTask]
    /\ UNCHANGED <<account, changes, ops, told>>

\* The process dies: open transactions roll back, nobody is disconnected on purpose, and
\* the rooms, which it kept in memory, are gone.
Restart ==
    /\ task' = [c \in Clients |-> NoTask]
    /\ socket' = [s \in Sockets |-> NoSocket]
    /\ UNCHANGED <<account, changes, ops, told, token>>

Next ==
    \/ \E c \in Clients :
          \/ \E u \in Users : Login(c, u)
          \/ \E op \in Operations, u \in Users, role \in Roles, k \in Keys \cup {None} :
                Arrive(c, op, u, role, k)
          \/ TakeGuard(c) \/ LockTarget(c) \/ Perform(c) \/ Disconnect(c)
    \/ \E s \in Sockets : Join(s) \/ \E c \in Clients : Handshake(s, c)
    \/ Restart

Spec == Init /\ [][Next]_vars

\* Locks are granted in the order they are asked for, and nothing between two steps of a
\* request waits for anything but a lock.
Fairness == \A c \in Clients :
    SF_vars(TakeGuard(c) \/ LockTarget(c)) /\ WF_vars(Perform(c) \/ Disconnect(c))

-----------------------------------------------------------------------------
(* Properties *)

Tokens == [user : Users \cup {None}, cc : Nat, by : Nat]
Accounts == [exists : BOOLEAN, active : BOOLEAN, mustChange : BOOLEAN, password : Nat,
             epoch : Nat, roles : SUBSET Roles]

Requests ==
    [stage : {"idle", "arrived", "guarded", "locked", "committed"},
     privilege : {"OWNER", "ADMIN", "NONE"}, op : Operations, target : Users \cup {None},
     role : Roles, key : Keys \cup {None}, grant : Tokens]
Connections ==
    [stage : {"none", "shaking", "joined"}, user : Users \cup {None}, seen : Nat, since : Nat]

\* Every variable has its type, an account that was not created is blank.
TypeOK ==
    /\ account \in [Users -> Accounts]
    /\ \A u \in Users : account[u].exists \/ account[u] = Blank
    /\ changes \in [Users -> Nat]
    /\ ops \subseteq [actor : Users, key : Keys, op : Operations, target : Users, role : Roles]
    /\ told \subseteq Users \X Keys
    /\ token \in [Clients -> Tokens]
    /\ task \in [Clients -> Requests]
    /\ socket \in [Sockets -> Connections]

\* LAST_OWNER_PROTECTED: an active owner is left, whoever deactivates or demotes whom at the
\* same time.
OwnerLeft == \E u \in Users : Operative(u)

\* Nobody but an owner changes the account of an owner or an administrator, active or not,
\* or makes one, however the roles change while the request waits (user-admin-policy.ts).
PrivilegeOnlyByOwner ==
    [][\A u \in Users : account'[u] # account[u] =>
        \/ ~Privileged(u) /\ account'[u].roles \cap {"OWNER", "ADMIN"} = {}
        \/ \E c \in Clients : HoldsRow(c, u) /\ ~HoldsRow(c, u)' /\
              (task[c].privilege = "OWNER" \/ task[c].op = "CHANGE")]_vars

\* A deactivation that was answered as done is not done again when it is repeated after
\* the account was reactivated, even if the first found the account inactive.
DeactivatedOncePerKey ==
    [][\A u \in Users : account[u].active /\ ~account'[u].active =>
        \E c \in Clients : HoldsRow(c, u) /\ <<Actor(c), task[c].key>> \notin told]_vars

\* A token that is accepted was got with the password that is current: no token outlives
\* the password it came from, however slow a login is and whatever the clock says.
TokenOfCurrentPassword ==
    \A c \in Clients : Accepted(token[c]) => token[c].by = account[Actor(c)].password

\* Of several changes of one password, one wins.
OneChangePerPassword ==
    \A c, d \in Clients : c # d =>
        ~(/\ task[c].stage = "committed" /\ task[d].stage = "committed"
          /\ task[c].op = "CHANGE" /\ task[d].op = "CHANGE"
          /\ token[c].user = token[d].user /\ token[c].by = token[d].by)

\* A change of an account is still to disconnect its sockets.
Unannounced(u) == \E c \in Clients : task[c].stage = "committed" /\ Target(c) = u

\* A socket that was in its room when its account changed is dead when the change is
\* announced.
SocketsOfOldDie ==
    \A s \in Sockets : socket[s].stage = "joined" =>
        \/ socket[s].since = changes[socket[s].user]
        \/ Unannounced(socket[s].user)

\* What session-revoker.ts says: the sockets that captured the old authorization die.
SocketsSeeTheAccount ==
    \A s \in Sockets : socket[s].stage = "joined" =>
        \/ socket[s].seen = changes[socket[s].user]
        \/ Unannounced(socket[s].user)

\* Every request ends: no two wait for each other's locks.
RequestsEnd == \A c \in Clients : task[c].stage # "idle" ~> task[c].stage = "idle"
=============================================================================
