--------------------------- MODULE AccountPolicy ---------------------------
(***************************************************************************)
(* What the administrator accounts of AICounselor promise, each operation  *)
(* of app/admin/auth.py and app/admin/accounts.py in one indivisible step. *)
(* AdminAccounts is the handlers as they are, one database call a step;    *)
(* requests that meet no other on a row they rely on implement this module.*)
(***************************************************************************)
EXTENDS Naturals

CONSTANTS Account, Session, Username, Password, MaxFailed, NoAccount

VARIABLES
    live, name, password,
    failed,     \* wrong passwords since the last right one or unlock
    locked,
    sessions,   \* the account of each open session
    used        \* ids of accounts and sessions there have been

vars == <<live, name, password, failed, locked, sessions, used>>

Init ==
    /\ \E a \in Account : live = {a} /\ used = {a}
    /\ name \in [Account -> Username]
    /\ password \in [Account -> Password]
    /\ failed = [a \in Account |-> 0]
    /\ locked = {}
    /\ sessions = [s \in Session |-> NoAccount]

-----------------------------------------------------------------------------
\* The MaxFailed-th wrong password in a row locks the account.
WrongPassword(a) ==
    /\ a \in live \ locked
    /\ failed' = [failed EXCEPT ![a] = @ + 1]
    /\ locked' = IF failed[a] + 1 = MaxFailed THEN locked \cup {a} ELSE locked
    /\ UNCHANGED <<live, name, password, sessions, used>>

RightPassword(a) ==
    /\ a \in live \ locked
    /\ failed' = [failed EXCEPT ![a] = 0]
    /\ UNCHANGED <<live, name, password, locked, sessions, used>>

\* A session is opened for an account that is not locked and has just given
\* its password, under an id no session has had before.
OpenSession(a, s) ==
    /\ a \in live \ locked
    /\ failed[a] = 0
    /\ s \notin used
    /\ sessions' = [sessions EXCEPT ![s] = a]
    /\ used' = used \cup {s}
    /\ UNCHANGED <<live, name, password, failed, locked>>

\* Logout, or expiry.
CloseSession(s) ==
    /\ sessions' = [sessions EXCEPT ![s] = NoAccount]
    /\ UNCHANGED <<live, name, password, failed, locked, used>>

Create(a, n, p) ==
    /\ a \notin used
    /\ \A b \in live : name[b] # n
    /\ live' = live \cup {a}
    /\ used' = used \cup {a}
    /\ name' = [name EXCEPT ![a] = n]
    /\ password' = [password EXCEPT ![a] = p]
    /\ failed' = [failed EXCEPT ![a] = 0]
    /\ locked' = locked \ {a}
    /\ UNCHANGED sessions

\* Only another administrator unlocks, or deletes, an account.
Unlock(a) ==
    /\ a \in live /\ live # {a}
    /\ failed' = [failed EXCEPT ![a] = 0]
    /\ locked' = locked \ {a}
    /\ UNCHANGED <<live, name, password, sessions, used>>

SetPassword(a, p) ==
    /\ a \in live
    /\ password' = [password EXCEPT ![a] = p]
    /\ UNCHANGED <<live, name, failed, locked, sessions, used>>

\* The sessions of an account end with it; the last account stays.
Delete(a) ==
    /\ a \in live /\ live # {a}
    /\ live' = live \ {a}
    /\ locked' = locked \ {a}
    /\ failed' = [failed EXCEPT ![a] = 0]
    /\ name' \in [Account -> Username]
    /\ \A b \in live' : name'[b] = name[b]
    /\ password' \in [Account -> Password]
    /\ \A b \in live' : password'[b] = password[b]
    /\ sessions' = [s \in Session |-> IF sessions[s] = a THEN NoAccount
                                                         ELSE sessions[s]]
    /\ UNCHANGED used

Next ==
    \/ \E a \in Account :
          \/ WrongPassword(a) \/ RightPassword(a) \/ Unlock(a) \/ Delete(a)
          \/ \E s \in Session : OpenSession(a, s)
          \/ \E p \in Password : SetPassword(a, p)
          \/ \E n \in Username, p \in Password : Create(a, n, p)
    \/ \E s \in Session : CloseSession(s)

Spec == Init /\ [][Next]_vars

-----------------------------------------------------------------------------
TypeOK ==
    /\ live \subseteq Account
    /\ name \in [Account -> Username]
    /\ password \in [Account -> Password]
    /\ failed \in [Account -> Nat]
    /\ locked \subseteq live
    /\ sessions \in [Session -> Account \cup {NoAccount}]
    /\ used \subseteq Account \cup Session

(* The lock is on exactly when the count has reached MAX_FAILED_ATTEMPTS,   *)
(* and the count stops there (app/admin/auth.py, login_attempt).            *)
LockedExactlyAtMax ==
    \A a \in live : failed[a] <= MaxFailed /\ (a \in locked <=> failed[a] = MaxFailed)

(* There is always an administrator (app/admin/accounts.py, delete_account). *)
SomeAdmin == live # {}

(* A session belongs to an account that exists (the sessions table's        *)
(* foreign key).                                                            *)
SessionsOwned == \A s \in Session : sessions[s] \in live \cup {NoAccount}
=============================================================================
