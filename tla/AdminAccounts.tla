--------------------------- MODULE AdminAccounts ---------------------------
(***************************************************************************)
(* The administrator accounts of AICounselor: the accounts and sessions    *)
(* tables of storage/admin_db.py, and the HTTP handlers of app/admin that  *)
(* read and write them (login, logout, account create / patch / delete and *)
(* the require_session dependency every other endpoint runs first).        *)
(*                                                                         *)
(* Each call into storage.admin_db holds _WRITE_LOCK for one SQL statement *)
(* (two for increment_failed_attempts), so one such call is one atomic     *)
(* step and a handler is the sequence of its calls.  The handlers are      *)
(* plain `def` functions: the framework runs them on threads of a pool     *)
(* (Worker) and they interleave between calls.  require_session is an      *)
(* `async def` with no await: it runs on the single event-loop thread, so  *)
(* two of them never overlap, but the threads of the pool run in between   *)
(* its calls.                                                              *)
(***************************************************************************)
EXTENDS Naturals, FiniteSets

CONSTANTS
    Account,        \* account ids (uuid4: drawn fresh, never drawn twice)
    Session,        \* session ids (uuid4)
    Username,
    Password,       \* a password stands for its salted hash
    Worker,         \* threads of the pool
    MaxFailed,      \* MAX_FAILED_ATTEMPTS
    CountBound,     \* bound on failed_attempts at which no new wrong login starts
    SeedName,       \* "admin"
    SeedPassword,   \* "147369"
    NoAccount,      \* no row, or the empty dict
    NoPassword      \* no old_password

ASSUME MaxFailedAssumption == MaxFailed \in Nat \ {0}
ASSUME CountBoundAssumption == CountBound \in Nat
ASSUME NullAssumption == NoAccount \notin Account /\ NoPassword \notin Password
ASSUME SeedAssumption == SeedName \in Username /\ SeedPassword \in Password

VARIABLES
    live,       \* ids of the rows of table accounts
    name,       \* column username
    password,   \* columns password_hash and salt
    failed,     \* column failed_attempts
    locked,     \* rows whose column locked is 1
    sessions,   \* table sessions: session id -> account_id, NoAccount if no row
    expired,    \* sessions whose expires_at has passed
    drawn,      \* account and session ids handed out so far
    pc,         \* where each worker is in its request
    sid,        \* the session cookie of the request
    me,         \* the account the request acts for
    tgt,        \* the account row the handler works on
    old,        \* the old_password that was verified against the row read
    crossed,    \* history, not in the code: the requests under way that have
                \* met another request on a row they rely on
    rivals      \* history: two deletes were past the count of rows at once
                \* since the server started

tables  == <<live, name, password, failed, locked, sessions, expired, drawn>>
request == <<pc, sid, me, tgt, old>>
vars    == <<live, name, password, failed, locked, sessions, expired, drawn,
             pc, sid, me, tgt, old, crossed, rivals>>

OnEventLoop == {"drop_expired", "touch", "load_account"}

OnPool == {"increment", "set_locked", "login_reset", "session_create",
           "handler",
           "unlock_target", "unlock_flag", "unlock_reset",
           "password_target", "password_write",
           "delete_target", "delete_count", "delete_row"}

(* The types of the tables and of the request variables. *)
TypeOK ==
    /\ live \subseteq Account
    /\ name \in [Account -> Username]
    /\ password \in [Account -> Password]
    /\ failed \in [Account -> Nat]
    /\ locked \subseteq Account
    /\ sessions \in [Session -> Account \cup {NoAccount}]
    /\ expired \subseteq Session
    /\ drawn \subseteq Account \cup Session
    /\ pc \in [Worker -> {"idle"} \cup OnEventLoop \cup OnPool]
    /\ sid \in [Worker -> Session \cup {NoAccount}]
    /\ me \in [Worker -> Account \cup {NoAccount}]
    /\ tgt \in [Worker -> Account \cup {NoAccount}]
    /\ old \in [Worker -> Password \cup {NoPassword}]
    /\ crossed \subseteq Worker
    /\ rivals \in BOOLEAN

-----------------------------------------------------------------------------
(* The statements of storage/admin_db.py.  An UPDATE or DELETE whose WHERE  *)
(* matches no row changes nothing.                                          *)

InsertAccount(a, n, p) ==
    /\ live' = live \cup {a}
    /\ drawn' = drawn \cup {a}
    /\ name' = [name EXCEPT ![a] = n]
    /\ password' = [password EXCEPT ![a] = p]
    /\ failed' = [failed EXCEPT ![a] = 0]
    /\ locked' = locked \ {a}
    /\ UNCHANGED <<sessions, expired>>

SetFailed(a, n) ==
    /\ failed' = IF a \in live THEN [failed EXCEPT ![a] = n] ELSE failed
    /\ UNCHANGED <<live, name, password, locked, sessions, expired, drawn>>

SetLocked(a, flag) ==
    /\ locked' = IF flag /\ a \in live THEN locked \cup {a}
                 ELSE IF flag THEN locked ELSE locked \ {a}
    /\ UNCHANGED <<live, name, password, failed, sessions, expired, drawn>>

SetPassword(a, p) ==
    /\ password' = IF a \in live THEN [password EXCEPT ![a] = p] ELSE password
    /\ UNCHANGED <<live, name, failed, locked, sessions, expired, drawn>>

(* Mutation of DeleteAccount. *)
\* foreign_keys left off.
DeleteAccountNoCascade(a) ==
    /\ live' = live \ {a}
    /\ locked' = locked \ {a}
    /\ failed' = [failed EXCEPT ![a] = 0]
    /\ UNCHANGED <<name, password, sessions, expired, drawn>>

\* foreign_keys is ON and sessions.account_id is ON DELETE CASCADE.
DeleteAccount(a) ==
    /\ live' = live \ {a}
    /\ locked' = locked \ {a}
    /\ failed' = [failed EXCEPT ![a] = 0]
    /\ sessions' = [s \in Session |-> IF sessions[s] = a THEN NoAccount
                                                         ELSE sessions[s]]
    /\ expired' = {s \in expired : sessions[s] # a}
    /\ name' = [name EXCEPT ![a] = SeedName]          \* of no row: canonical
    /\ password' = [password EXCEPT ![a] = SeedPassword]
    /\ UNCHANGED drawn

InsertSession(s, a) ==
    /\ sessions' = [sessions EXCEPT ![s] = a]
    /\ expired' = expired \ {s}
    /\ drawn' = drawn \cup {s}
    /\ UNCHANGED <<live, name, password, failed, locked>>

TouchSession(s) ==
    /\ expired' = expired \ {s}
    /\ UNCHANGED <<live, name, password, failed, locked, sessions, drawn>>

DeleteSession(s) ==
    /\ sessions' = [sessions EXCEPT ![s] = NoAccount]
    /\ expired' = expired \ {s}
    /\ UNCHANGED <<live, name, password, failed, locked, drawn>>

-----------------------------------------------------------------------------
(* Moving a request along: to its next call, or to its response. *)

Goto(w, l) == pc' = [pc EXCEPT ![w] = l]

Respond(w) ==
    /\ Goto(w, "idle")
    /\ sid' = [sid EXCEPT ![w] = NoAccount]
    /\ me' = [me EXCEPT ![w] = NoAccount]
    /\ tgt' = [tgt EXCEPT ![w] = NoAccount]
    /\ old' = [old EXCEPT ![w] = NoPassword]

Advance(w, l) == Goto(w, l) /\ UNCHANGED <<sid, me, tgt, old>>

At(w, l) == pc[w] = l

-----------------------------------------------------------------------------
(* Mutations of the handlers below: plausible mistakes the properties must  *)
(* catch.  They are not part of the specification.                          *)

\* The touch written as INSERT OR REPLACE.
TouchInserts(w) ==
    /\ At(w, "touch")
    /\ sessions' = [sessions EXCEPT ![sid[w]] = me[w]]
    /\ expired' = expired \ {sid[w]}
    /\ UNCHANGED <<live, name, password, failed, locked, drawn>>
    /\ Advance(w, "load_account")

\* A patch without new_password is let through.
PasswordWriteAbsent(w) ==
    /\ At(w, "password_write")
    /\ \E p \in Password \cup {NoPassword} : SetPassword(tgt[w], p)
    /\ Respond(w)

\* Off by one.
IncrementPastMax(w) ==
    /\ At(w, "increment")
    /\ LET a == tgt[w]
           new == IF a \in live THEN failed[a] + 1 ELSE 0
       IN  /\ SetFailed(a, new)
           /\ IF new > MaxFailed THEN Advance(w, "set_locked") ELSE Respond(w)

\* A successful login clears the lock with the count.
ResetAlsoUnlocks(w) ==
    /\ At(w, "login_reset")
    /\ failed' = [failed EXCEPT ![tgt[w]] = 0]
    /\ locked' = locked \ {tgt[w]}
    /\ UNCHANGED <<live, name, password, sessions, expired, drawn>>
    /\ Advance(w, "session_create")

\* The unlock forgets reset_failed_attempts.
UnlockFlagOnly(w) ==
    /\ At(w, "unlock_flag")
    /\ SetLocked(tgt[w], FALSE)
    /\ Respond(w)

UnlockKeepsCount(w) ==
    /\ At(w, "unlock_reset")
    /\ Respond(w)
    /\ UNCHANGED tables

EnsureNothing(w, here, next) ==
    /\ At(w, here)
    /\ Advance(w, next)
    /\ UNCHANGED tables

\* The last-admin guard counts the accounts there were after the delete.
CountAfter(w) ==
    /\ At(w, "delete_count")
    /\ IF live = {} THEN Respond(w) ELSE Advance(w, "delete_row")
    /\ UNCHANGED tables

-----------------------------------------------------------------------------
(* POST /login: auth.login_attempt.                                         *)

\* get_by_username finds no row, or a locked one: 401 or 423.  The password
\* is compared with the row just read, which later calls do not read again.
LoginRefused(w) ==
    /\ At(w, "idle")
    /\ \E n \in Username :
          \/ \A a \in live : name[a] # n
          \/ \E a \in live \cap locked : name[a] = n
    /\ Respond(w)
    /\ UNCHANGED tables

LoginWrongPassword(w) ==
    /\ At(w, "idle")
    /\ \E a \in live \ locked :
          /\ failed[a] < CountBound
          /\ \E p \in Password : p # password[a]
          /\ tgt' = [tgt EXCEPT ![w] = a]
    /\ Goto(w, "increment")
    /\ UNCHANGED <<sid, me, old>>
    /\ UNCHANGED tables

\* Bound: no login starts that would find the ids of Session used up.
SessionIdLeft ==
    Cardinality({v \in Worker : pc[v] \in {"login_reset", "session_create"}})
        < Cardinality(Session \ drawn)

LoginRightPassword(w) ==
    /\ At(w, "idle")
    /\ SessionIdLeft
    /\ \E a \in live \ locked : tgt' = [tgt EXCEPT ![w] = a]
    /\ Goto(w, "login_reset")
    /\ UNCHANGED <<sid, me, old>>
    /\ UNCHANGED tables

\* The UPDATE and the SELECT run under one lock; the count of a row that has
\* gone is 0.
IncrementFailedAttempts(w) ==
    /\ At(w, "increment")
    /\ LET a == tgt[w]
           new == IF a \in live THEN failed[a] + 1 ELSE 0
       IN  /\ SetFailed(a, new)
           /\ IF new = MaxFailed THEN Advance(w, "set_locked") ELSE Respond(w)

LockAccount(w) ==
    /\ At(w, "set_locked")
    /\ SetLocked(tgt[w], TRUE)
    /\ Respond(w)

\* The update of last_login_at that follows changes no column kept here.
ResetFailedAttempts(w) ==
    /\ At(w, "login_reset")
    /\ SetFailed(tgt[w], 0)
    /\ Advance(w, "session_create")

\* The foreign key refuses the row of a session whose account has gone.
CreateSession(w) ==
    /\ At(w, "session_create")
    /\ \/ /\ tgt[w] \in live
          /\ \E s \in Session \ drawn : InsertSession(s, tgt[w])
       \/ tgt[w] \notin live /\ UNCHANGED tables
    /\ Respond(w)

-----------------------------------------------------------------------------
(* require_session, on the event loop: sessions.get, touch, accounts.       *)
(* get_by_id.  The session is re-read after the touch, but the account_id   *)
(* of the row read before is all the handler uses.                          *)

EventLoopFree == \A v \in Worker : pc[v] \notin OnEventLoop

SessionGet(w) ==
    /\ At(w, "idle")
    /\ EventLoopFree
    /\ \E s \in Session \cap drawn :
          \/ /\ sessions[s] = NoAccount
             /\ Respond(w)
          \/ /\ sessions[s] # NoAccount
             /\ Goto(w, IF s \in expired THEN "drop_expired" ELSE "touch")
             /\ sid' = [sid EXCEPT ![w] = s]
             /\ me' = [me EXCEPT ![w] = sessions[s]]
             /\ UNCHANGED <<tgt, old>>
    /\ UNCHANGED tables

DropExpired(w) ==
    /\ At(w, "drop_expired")
    /\ DeleteSession(sid[w])
    /\ Respond(w)

Touch(w) ==
    /\ At(w, "touch")
    /\ TouchSession(sid[w])
    /\ Advance(w, "load_account")

LoadAccount(w) ==
    /\ At(w, "load_account")
    /\ IF me[w] \in live THEN Advance(w, "handler") ELSE Respond(w)
    /\ UNCHANGED tables

-----------------------------------------------------------------------------
(* The endpoints behind require_session.                                    *)

\* GET endpoints, and the requests refused before any write (origin, user
\* name or password syntax, no-op patch, user name in use).
RespondOnly(w) ==
    /\ At(w, "handler")
    /\ Respond(w)
    /\ UNCHANGED tables

Logout(w) ==
    /\ At(w, "handler")
    /\ DeleteSession(sid[w])
    /\ Respond(w)

\* username is UNIQUE COLLATE NOCASE.
CreateAccount(w) ==
    /\ At(w, "handler")
    /\ \E a \in Account \ drawn, n \in Username, p \in Password :
          /\ \A b \in live : name[b] # n
          /\ InsertAccount(a, n, p)
    /\ Respond(w)

\* `me = db_accounts.get_by_id(...) or {}`, then the handler of the patch or
\* of the delete, on any id in the URL.
LoadMe(w, t, l) ==
    /\ At(w, "handler")
    /\ me' = [me EXCEPT ![w] = IF me[w] \in live THEN me[w] ELSE NoAccount]
    /\ tgt' = [tgt EXCEPT ![w] = t]
    /\ Goto(w, l)
    /\ UNCHANGED <<sid, old>>
    /\ UNCHANGED tables

\* by_account["id"] is the first thing unlock_account and delete_account read:
\* it fails on the empty dict, and the acting account is refused.
BeginUnlock(w) ==
    \E t \in Account \ {me[w]} : me[w] \in live /\ LoadMe(w, t, "unlock_target")

BeginDelete(w) ==
    \E t \in Account \ {me[w]} : me[w] \in live /\ LoadMe(w, t, "delete_target")

BeginPassword(w) ==
    \E t \in Account : LoadMe(w, t, "password_target")

\* _ensure_target
EnsureTarget(w, here, next) ==
    /\ At(w, here)
    /\ IF tgt[w] \in live THEN Advance(w, next) ELSE Respond(w)
    /\ UNCHANGED tables

UnlockTarget(w) == EnsureTarget(w, "unlock_target", "unlock_flag")

UnlockFlag(w) ==
    /\ At(w, "unlock_flag")
    /\ SetLocked(tgt[w], FALSE)
    /\ Advance(w, "unlock_reset")

UnlockReset(w) ==
    /\ At(w, "unlock_reset")
    /\ SetFailed(tgt[w], 0)
    /\ Respond(w)

\* change_password: the row read by _ensure_target is the one old_password is
\* verified against; the write comes later and reads nothing again.
PasswordTarget(w) ==
    /\ At(w, "password_target")
    /\ \/ /\ tgt[w] \in live
          /\ me[w] = tgt[w]
          /\ Goto(w, "password_write")
          /\ old' = [old EXCEPT ![w] = password[tgt[w]]]
          /\ UNCHANGED <<sid, me, tgt>>
       \/ /\ tgt[w] \in live
          /\ me[w] \notin {tgt[w], NoAccount}
          /\ Advance(w, "password_write")
       \/ /\ \/ tgt[w] \notin live \/ me[w] = NoAccount
             \/ me[w] = tgt[w] /\ \E p \in Password : p # password[tgt[w]]
          /\ Respond(w)
    /\ UNCHANGED tables

PasswordWrite(w) ==
    /\ At(w, "password_write")
    /\ \E p \in Password : SetPassword(tgt[w], p)
    /\ Respond(w)

DeleteTarget(w) == EnsureTarget(w, "delete_target", "delete_count")

\* The last-admin guard counts the rows; the row is deleted in a later call.
DeleteCount(w) ==
    /\ At(w, "delete_count")
    /\ IF Cardinality(live) <= 1 THEN Respond(w) ELSE Advance(w, "delete_row")
    /\ UNCHANGED tables

DeleteRow(w) ==
    /\ At(w, "delete_row")
    /\ DeleteAccount(tgt[w])
    /\ Respond(w)

-----------------------------------------------------------------------------
\* A request that has read a row is met by another one when that one works on
\* the same row, or on the row of the account the request acts for.
Meets(w) ==
    /\ tgt[w] # NoAccount
    /\ \E v \in Worker \ {w} : tgt[v] # NoAccount /\ tgt[v] \in {tgt[w], me[w]}

OneDelete ==
    \A v, w \in Worker : pc[v] = "delete_row" /\ pc[w] = "delete_row" => v = w

Track ==
    /\ crossed' = {w \in Worker : pc'[w] # "idle" /\ (w \in crossed \/ Meets(w)')}
    /\ rivals' = (rivals \/ ~OneDelete')

\* More than SESSION_TTL_SECONDS pass without a request on the session.
Expire ==
    /\ \E s \in Session \ expired :
          sessions[s] # NoAccount /\ expired' = expired \cup {s}
    /\ UNCHANGED <<live, name, password, failed, locked, sessions, drawn>>
    /\ UNCHANGED request

\* The process dies between two calls and starts again: the tables are on
\* disk, the requests are lost, and admin_db.init seeds an account if the
\* table is empty.
Restart ==
    /\ pc' = [w \in Worker |-> "idle"]
    /\ sid' = [w \in Worker |-> NoAccount]
    /\ me' = [w \in Worker |-> NoAccount]
    /\ tgt' = [w \in Worker |-> NoAccount]
    /\ old' = [w \in Worker |-> NoPassword]
    /\ crossed' = {}
    /\ rivals' = FALSE
    /\ IF live = {}
       THEN \E a \in Account \ drawn : InsertAccount(a, SeedName, SeedPassword)
       ELSE UNCHANGED tables

\* The first start, on an empty database.
Init ==
    /\ \E a \in Account : live = {a} /\ drawn = {a}
    /\ name = [a \in Account |-> SeedName]
    /\ password = [a \in Account |-> SeedPassword]
    /\ failed = [a \in Account |-> 0]
    /\ locked = {}
    /\ sessions = [s \in Session |-> NoAccount]
    /\ expired = {}
    /\ pc = [w \in Worker |-> "idle"]
    /\ sid = [w \in Worker |-> NoAccount]
    /\ me = [w \in Worker |-> NoAccount]
    /\ tgt = [w \in Worker |-> NoAccount]
    /\ old = [w \in Worker |-> NoPassword]
    /\ crossed = {}
    /\ rivals = FALSE

\* A client sends a request.
Arrive(w) ==
    \/ LoginRefused(w) \/ LoginWrongPassword(w) \/ LoginRightPassword(w)
    \/ SessionGet(w)

\* The server takes the next step of a request it has begun.
Serve(w) ==
    \/ IncrementFailedAttempts(w) \/ LockAccount(w)
    \/ ResetFailedAttempts(w) \/ CreateSession(w)
    \/ DropExpired(w) \/ Touch(w) \/ LoadAccount(w)
    \/ RespondOnly(w) \/ Logout(w) \/ CreateAccount(w)
    \/ BeginUnlock(w) \/ UnlockTarget(w) \/ UnlockFlag(w) \/ UnlockReset(w)
    \/ BeginPassword(w) \/ PasswordTarget(w) \/ PasswordWrite(w)
    \/ BeginDelete(w) \/ DeleteTarget(w) \/ DeleteCount(w) \/ DeleteRow(w)

Next == (Expire \/ \E w \in Worker : Arrive(w) \/ Serve(w)) /\ Track

\* Requests may never come and the clock may stop, but a thread of the pool,
\* and the event loop, run what they have begun.
Fairness == \A w \in Worker : WF_<<tables, request>>(Serve(w))

Spec == Init /\ [][Next]_vars

FairSpec == Spec /\ Fairness

CrashSpec == Init /\ [][Next \/ Restart]_vars

-----------------------------------------------------------------------------
(* Properties                                                               *)

(* A session row never outlives its account: the login that creates it may  *)
(* run after the account it verified was deleted (auth.login_attempt ends   *)
(* with sessions.create), and a delete may hit an account with sessions.    *)
SessionsOwned == \A s \in Session : sessions[s] \in live \cup {NoAccount}

LockPending(a)  == \E w \in Worker : pc[w] = "set_locked" /\ tgt[w] = a
ResetPending(a) == \E w \in Worker : pc[w] = "unlock_reset" /\ tgt[w] = a

(* Whatever order concurrent logins and unlocks interleave in, an account   *)
(* whose count has reached MAX_FAILED_ATTEMPTS is locked, or the request    *)
(* that will lock it or clear the count is between its two calls.  The test *)
(* in login_attempt is `==`: a count that got past it would never lock.     *)
LockoutComplete ==
    \A a \in live :
        failed[a] >= MaxFailed => a \in locked \/ LockPending(a) \/ ResetPending(a)

(* What the two properties below rest on: a locked row is a row, and every  *)
(* id in the tables was drawn; a request that unlocks or deletes was        *)
(* refused for the account it acts for.                                     *)
RowsDrawn == locked \subseteq live /\ live \subseteq drawn

ActsOnAnother ==
    \A w \in Worker :
        pc[w] \in {"unlock_target", "unlock_flag",
                  "delete_target", "delete_count", "delete_row"}
            => me[w] \notin {tgt[w], NoAccount}

SafetyInv == SessionsOwned /\ RowsDrawn /\ ActsOnAnother

(* Ids never come back: a session that was logged out, expired or cascaded  *)
(* away, or an account that was deleted, is never there again, although     *)
(* require_session touches a session, and the handlers update an account,   *)
(* that they read in an earlier call.                                       *)
NoReturn ==
    /\ \A s \in Session \cap drawn : sessions[s] = NoAccount => sessions'[s] = NoAccount
    /\ \A a \in Account \cap drawn : a \notin live => a \notin live'

NoResurrection == [][NoReturn]_vars

(* A lock is permanent until another administrator lifts it: a row leaves   *)
(* the locked state only by an unlock, or a delete, requested for another   *)
(* account, also when a login that read the row before it was locked        *)
(* succeeds afterwards.                                                     *)
LockLift ==
    \A a \in locked \ locked' :
        \E w \in Worker : /\ pc[w] \in {"unlock_flag", "delete_row"}
                          /\ tgt[w] = a
                          /\ me[w] \notin {a, NoAccount}

LockLiftedByAnother == [][LockLift]_vars

(* A count at MAX_FAILED_ATTEMPTS is settled: the account ends up locked or *)
(* its count cleared (or the account is gone), provided requests in         *)
(* progress run on.                                                         *)
LockoutSettles ==
    \A a \in Account : failed[a] >= MaxFailed ~> (a \in locked \/ failed[a] < MaxFailed)

(* delete_account: "cannot delete the last admin account".                  *)
SomeAdmin == live # {}

(* The one way the last account can go: two deletes that both passed the    *)
(* count before either row went (accounts.py:136).  Whatever else           *)
(* interleaves, deletes whose own account goes before their count or after  *)
(* it included, there is an administrator.                                  *)
LastAdminKept == live = {} => rivals

(* What a request may rely on between its calls, if no other request has    *)
(* worked on its row or on its own account meanwhile, and whatever the      *)
(* others do elsewhere: the row it read is still there, as it read it.      *)
AsRead(w) ==
    /\ pc[w] \in {"increment", "login_reset", "session_create", "set_locked"}
          => tgt[w] \in live \ locked
    /\ pc[w] = "session_create" => failed[tgt[w]] = 0
    /\ pc[w] = "set_locked" => failed[tgt[w]] = MaxFailed
    /\ pc[w] \in {"unlock_flag", "unlock_reset", "password_write",
                  "delete_count", "delete_row"} => tgt[w] \in live
    /\ pc[w] = "password_write" => old[w] \in {NoPassword, password[tgt[w]]}
    /\ pc[w] \in {"unlock_target", "unlock_flag",
                  "delete_target", "delete_count", "delete_row"}
          => me[w] \in live

RowsAsRead == \A w \in Worker \ crossed : AsRead(w)

(* The handlers implement AccountPolicy, each operation in one indivisible  *)
(* step, however many requests interleave: only the steps of a request that *)
(* met another on a row it relies on may depart from the policy.  The       *)
(* second write of a lock or of an unlock is counted as done with the first.*)
Policy == INSTANCE AccountPolicy WITH
    failed <- [a \in Account |-> IF ResetPending(a) THEN 0 ELSE failed[a]],
    locked <- locked \cup {a \in live : LockPending(a)},
    used   <- drawn

CrossedMoves == \E w \in crossed : pc'[w] # pc[w]

ImplementsPolicy ==
    Policy!Init /\ [][Policy!Next \/ CrossedMoves]_(Policy!vars)
=============================================================================
