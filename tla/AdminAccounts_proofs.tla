------------------------ MODULE AdminAccounts_proofs ------------------------
(***************************************************************************)
(* Theorems about AdminAccounts, for any number of workers, accounts and   *)
(* sessions.  A lemma per inductive fact says that every step keeps it,    *)
(* with one proof step per action; the theorems at the end put them under  *)
(* the specifications.                                                     *)
(***************************************************************************)
EXTENDS AdminAccounts, FiniteSetTheorems, TLAPS

(* Every step keeps the tables and the requests well formed. *)
LEMMA TypeStep ==
    ASSUME TypeOK, [Next \/ Restart]_vars
    PROVE  TypeOK'
<1>0. crossed' \subseteq Worker /\ rivals' \in BOOLEAN
  <2>1. CASE Restart
    BY <2>1 DEF Restart
  <2>2. CASE Track
    BY <2>2 DEF Track
  <2>3. CASE UNCHANGED vars
    BY <2>3 DEF vars, TypeOK
  <2> QED
    BY <2>1, <2>2, <2>3 DEF Next
<1> USE MaxFailedAssumption, NullAssumption, SeedAssumption, <1>0
<1> USE DEF TypeOK, OnEventLoop, OnPool
<1>1. CASE Expire
  BY <1>1 DEF Expire, request
<1>2. CASE Restart
  BY <1>2 DEF Restart, InsertAccount, tables
<1>3. CASE UNCHANGED vars
  BY <1>3 DEF vars
<1>4. ASSUME NEW w \in Worker, Arrive(w) \/ Serve(w)
      PROVE  TypeOK'
  <2>1. CASE LoginRefused(w)
    BY <2>1 DEF LoginRefused, Respond, Goto, At, tables
  <2>2. CASE LoginWrongPassword(w)
    BY <2>2 DEF LoginWrongPassword, Goto, At, tables
  <2>3. CASE LoginRightPassword(w)
    BY <2>3 DEF LoginRightPassword, Goto, At, tables
  <2>4. CASE SessionGet(w)
    BY <2>4 DEF SessionGet, Respond, Goto, At, tables
  <2>5. CASE IncrementFailedAttempts(w)
    BY <2>5 DEF IncrementFailedAttempts, SetFailed, Respond, Advance, Goto, At
  <2>6. CASE LockAccount(w)
    BY <2>6 DEF LockAccount, SetLocked, Respond, Goto, At
  <2>7. CASE ResetFailedAttempts(w)
    BY <2>7 DEF ResetFailedAttempts, SetFailed, Advance, Goto, At
  <2>8. CASE CreateSession(w)
    BY <2>8 DEF CreateSession, InsertSession, Respond, Goto, At, tables
  <2>9. CASE DropExpired(w)
    BY <2>9 DEF DropExpired, DeleteSession, Respond, Goto, At
  <2>10. CASE Touch(w)
    BY <2>10 DEF Touch, TouchSession, Advance, Goto, At
  <2>11. CASE LoadAccount(w)
    BY <2>11 DEF LoadAccount, Respond, Advance, Goto, At, tables
  <2>12. CASE RespondOnly(w)
    BY <2>12 DEF RespondOnly, Respond, Goto, At, tables
  <2>13. CASE Logout(w)
    BY <2>13 DEF Logout, DeleteSession, Respond, Goto, At
  <2>14. CASE CreateAccount(w)
    BY <2>14 DEF CreateAccount, InsertAccount, Respond, Goto, At
  <2>15. CASE BeginUnlock(w)
    BY <2>15 DEF BeginUnlock, LoadMe, Goto, At, tables
  <2>16. CASE UnlockTarget(w)
    BY <2>16 DEF UnlockTarget, EnsureTarget, Respond, Advance, Goto, At, tables
  <2>17. CASE UnlockFlag(w)
    BY <2>17 DEF UnlockFlag, SetLocked, Advance, Goto, At
  <2>18. CASE UnlockReset(w)
    BY <2>18 DEF UnlockReset, SetFailed, Respond, Goto, At
  <2>19. CASE BeginPassword(w)
    BY <2>19 DEF BeginPassword, LoadMe, Goto, At, tables
  <2>20. CASE PasswordTarget(w)
    BY <2>20 DEF PasswordTarget, Respond, Advance, Goto, At, tables
  <2>21. CASE PasswordWrite(w)
    BY <2>21 DEF PasswordWrite, SetPassword, Respond, Goto, At
  <2>22. CASE BeginDelete(w)
    BY <2>22 DEF BeginDelete, LoadMe, Goto, At, tables
  <2>23. CASE DeleteTarget(w)
    BY <2>23 DEF DeleteTarget, EnsureTarget, Respond, Advance, Goto, At, tables
  <2>24. CASE DeleteCount(w)
    BY <2>24 DEF DeleteCount, Respond, Advance, Goto, At, tables
  <2>25. CASE DeleteRow(w)
    BY <2>25 DEF DeleteRow, DeleteAccount, Respond, Goto, At
  <2> QED
    BY <1>4, <2>1, <2>2, <2>3, <2>4, <2>5, <2>6, <2>7, <2>8, <2>9, <2>10,
       <2>11, <2>12, <2>13, <2>14, <2>15, <2>16, <2>17, <2>18, <2>19,
       <2>20, <2>21, <2>22, <2>23, <2>24, <2>25  DEF Arrive, Serve
<1> QED
  BY <1>1, <1>2, <1>3, <1>4 DEF Next

(* No step leaves a session without its account, brings an id back into a   *)
(* table, or lets an unlock or a delete act on the account it acts for.     *)
LEMMA SafetyStep ==
    ASSUME TypeOK, SafetyInv, [Next \/ Restart]_vars
    PROVE  SafetyInv'
<1> USE MaxFailedAssumption, NullAssumption, SeedAssumption
<1> USE DEF TypeOK, SafetyInv, SessionsOwned, RowsDrawn, ActsOnAnother
<1>1. CASE Expire
  BY <1>1 DEF Expire, request
<1>2. CASE Restart
  BY <1>2 DEF Restart, InsertAccount, tables
<1>3. CASE UNCHANGED vars
  BY <1>3 DEF vars
<1>4. ASSUME NEW w \in Worker, Arrive(w) \/ Serve(w)
      PROVE  SafetyInv'
  <2>1. CASE LoginRefused(w)
    BY <2>1 DEF LoginRefused, Respond, Goto, At, tables
  <2>2. CASE LoginWrongPassword(w)
    BY <2>2 DEF LoginWrongPassword, Goto, At, tables
  <2>3. CASE LoginRightPassword(w)
    BY <2>3 DEF LoginRightPassword, Goto, At, tables
  <2>4. CASE SessionGet(w)
    BY <2>4 DEF SessionGet, Respond, Goto, At, tables
  <2>5. CASE IncrementFailedAttempts(w)
    BY <2>5 DEF IncrementFailedAttempts, SetFailed, Respond, Advance, Goto, At
  <2>6. CASE LockAccount(w)
    BY <2>6 DEF LockAccount, SetLocked, Respond, Goto, At
  <2>7. CASE ResetFailedAttempts(w)
    BY <2>7 DEF ResetFailedAttempts, SetFailed, Advance, Goto, At
  <2>8. CASE CreateSession(w)
    BY <2>8 DEF CreateSession, InsertSession, Respond, Goto, At, tables
  <2>9. CASE DropExpired(w)
    BY <2>9 DEF DropExpired, DeleteSession, Respond, Goto, At
  <2>10. CASE Touch(w)
    BY <2>10 DEF Touch, TouchSession, Advance, Goto, At
  <2>11. CASE LoadAccount(w)
    BY <2>11 DEF LoadAccount, Respond, Advance, Goto, At, tables
  <2>12. CASE RespondOnly(w)
    BY <2>12 DEF RespondOnly, Respond, Goto, At, tables
  <2>13. CASE Logout(w)
    BY <2>13 DEF Logout, DeleteSession, Respond, Goto, At
  <2>14. CASE CreateAccount(w)
    BY <2>14 DEF CreateAccount, InsertAccount, Respond, Goto, At
  <2>15. CASE BeginUnlock(w)
    BY <2>15 DEF BeginUnlock, LoadMe, Goto, At, tables
  <2>16. CASE UnlockTarget(w)
    BY <2>16 DEF UnlockTarget, EnsureTarget, Respond, Advance, Goto, At, tables
  <2>17. CASE UnlockFlag(w)
    BY <2>17 DEF UnlockFlag, SetLocked, Advance, Goto, At
  <2>18. CASE UnlockReset(w)
    BY <2>18 DEF UnlockReset, SetFailed, Respond, Goto, At
  <2>19. CASE BeginPassword(w)
    BY <2>19 DEF BeginPassword, LoadMe, Goto, At, tables
  <2>20. CASE PasswordTarget(w)
    BY <2>20 DEF PasswordTarget, Respond, Advance, Goto, At, tables
  <2>21. CASE PasswordWrite(w)
    BY <2>21 DEF PasswordWrite, SetPassword, Respond, Goto, At
  <2>22. CASE BeginDelete(w)
    BY <2>22 DEF BeginDelete, LoadMe, Goto, At, tables
  <2>23. CASE DeleteTarget(w)
    BY <2>23 DEF DeleteTarget, EnsureTarget, Respond, Advance, Goto, At, tables
  <2>24. CASE DeleteCount(w)
    BY <2>24 DEF DeleteCount, Respond, Advance, Goto, At, tables
  <2>25. CASE DeleteRow(w)
    BY <2>25 DEF DeleteRow, DeleteAccount, Respond, Goto, At
  <2> QED
    BY <1>4, <2>1, <2>2, <2>3, <2>4, <2>5, <2>6, <2>7, <2>8, <2>9, <2>10,
       <2>11, <2>12, <2>13, <2>14, <2>15, <2>16, <2>17, <2>18, <2>19,
       <2>20, <2>21, <2>22, <2>23, <2>24, <2>25  DEF Arrive, Serve
<1> QED
  BY <1>1, <1>2, <1>3, <1>4 DEF Next

(* No step but a restart leaves a full count unlocked and unattended. *)
LEMMA LockoutStep ==
    ASSUME TypeOK, LockoutComplete, [Next]_vars
    PROVE  LockoutComplete'
<1> USE MaxFailedAssumption, NullAssumption, SeedAssumption
<1> USE DEF TypeOK, LockoutComplete, LockPending, ResetPending
<1>1. CASE Expire
  BY <1>1 DEF Expire, request
<1>2. CASE UNCHANGED vars
  BY <1>2 DEF vars
<1>3. ASSUME NEW w \in Worker, Arrive(w) \/ Serve(w)
      PROVE  LockoutComplete'
  <2>1. CASE LoginRefused(w)
    BY <2>1 DEF LoginRefused, Respond, Goto, At, tables
  <2>2. CASE LoginWrongPassword(w)
    BY <2>2 DEF LoginWrongPassword, Goto, At, tables
  <2>3. CASE LoginRightPassword(w)
    BY <2>3 DEF LoginRightPassword, Goto, At, tables
  <2>4. CASE SessionGet(w)
    BY <2>4 DEF SessionGet, Respond, Goto, At, tables
  <2>5. CASE IncrementFailedAttempts(w)
    BY <2>5 DEF IncrementFailedAttempts, SetFailed, Respond, Advance, Goto, At
  <2>6. CASE LockAccount(w)
    BY <2>6 DEF LockAccount, SetLocked, Respond, Goto, At
  <2>7. CASE ResetFailedAttempts(w)
    BY <2>7 DEF ResetFailedAttempts, SetFailed, Advance, Goto, At
  <2>8. CASE CreateSession(w)
    BY <2>8 DEF CreateSession, InsertSession, Respond, Goto, At, tables
  <2>9. CASE DropExpired(w)
    BY <2>9 DEF DropExpired, DeleteSession, Respond, Goto, At
  <2>10. CASE Touch(w)
    BY <2>10 DEF Touch, TouchSession, Advance, Goto, At
  <2>11. CASE LoadAccount(w)
    BY <2>11 DEF LoadAccount, Respond, Advance, Goto, At, tables
  <2>12. CASE RespondOnly(w)
    BY <2>12 DEF RespondOnly, Respond, Goto, At, tables
  <2>13. CASE Logout(w)
    BY <2>13 DEF Logout, DeleteSession, Respond, Goto, At
  <2>14. CASE CreateAccount(w)
    BY <2>14 DEF CreateAccount, InsertAccount, Respond, Goto, At
  <2>15. CASE BeginUnlock(w)
    BY <2>15 DEF BeginUnlock, LoadMe, Goto, At, tables
  <2>16. CASE UnlockTarget(w)
    BY <2>16 DEF UnlockTarget, EnsureTarget, Respond, Advance, Goto, At, tables
  <2>17. CASE UnlockFlag(w)
    BY <2>17 DEF UnlockFlag, SetLocked, Advance, Goto, At
  <2>18. CASE UnlockReset(w)
    BY <2>18 DEF UnlockReset, SetFailed, Respond, Goto, At
  <2>19. CASE BeginPassword(w)
    BY <2>19 DEF BeginPassword, LoadMe, Goto, At, tables
  <2>20. CASE PasswordTarget(w)
    BY <2>20 DEF PasswordTarget, Respond, Advance, Goto, At, tables
  <2>21. CASE PasswordWrite(w)
    BY <2>21 DEF PasswordWrite, SetPassword, Respond, Goto, At
  <2>22. CASE BeginDelete(w)
    BY <2>22 DEF BeginDelete, LoadMe, Goto, At, tables
  <2>23. CASE DeleteTarget(w)
    BY <2>23 DEF DeleteTarget, EnsureTarget, Respond, Advance, Goto, At, tables
  <2>24. CASE DeleteCount(w)
    BY <2>24 DEF DeleteCount, Respond, Advance, Goto, At, tables
  <2>25. CASE DeleteRow(w)
    BY <2>25 DEF DeleteRow, DeleteAccount, Respond, Goto, At
  <2> QED
    BY <1>3, <2>1, <2>2, <2>3, <2>4, <2>5, <2>6, <2>7, <2>8, <2>9, <2>10,
       <2>11, <2>12, <2>13, <2>14, <2>15, <2>16, <2>17, <2>18, <2>19,
       <2>20, <2>21, <2>22, <2>23, <2>24, <2>25  DEF Arrive, Serve
<1> QED
  BY <1>1, <1>2, <1>3 DEF Next

(* What a request holds: no row before it has begun, a row while it looks   *)
(* for its target, a verified password only to write the new one, and the   *)
(* id of a row there has been once it counts, locks or unlocks.             *)
Held(w) ==
    /\ pc[w] = "idle" => tgt[w] = NoAccount
    /\ pc[w] \in {"unlock_target", "delete_target"} => tgt[w] # NoAccount
    /\ pc[w] # "password_write" => old[w] = NoPassword
    /\ pc[w] \in {"increment", "set_locked", "unlock_flag", "unlock_reset"}
          => tgt[w] \in drawn

(* A request that has met another on a row it relies on is marked.          *)
CrossedInv ==
    \A w \in Worker : Held(w) /\ (Meets(w) => w \in crossed)

LEMMA HeldStep ==
    ASSUME TypeOK, SafetyInv, Next, NEW u \in Worker, Held(u)
    PROVE  Held(u)'
<1> USE NullAssumption
<1> USE DEF TypeOK, SafetyInv, RowsDrawn, Held
<1>1. CASE Expire
  BY <1>1 DEF Expire, request
<1>3. ASSUME NEW w \in Worker, Arrive(w) \/ Serve(w)
      PROVE  Held(u)'
  <2>1. CASE LoginRefused(w)
    BY <2>1 DEF LoginRefused, Respond, Goto, At, tables
  <2>2. CASE LoginWrongPassword(w)
    BY <2>2 DEF LoginWrongPassword, Goto, At, tables
  <2>3. CASE LoginRightPassword(w)
    BY <2>3 DEF LoginRightPassword, Goto, At, tables
  <2>4. CASE SessionGet(w)
    BY <2>4 DEF SessionGet, Respond, Goto, At, tables
  <2>5. CASE IncrementFailedAttempts(w)
    BY <2>5 DEF IncrementFailedAttempts, SetFailed, Respond, Advance, Goto, At
  <2>6. CASE LockAccount(w)
    BY <2>6 DEF LockAccount, SetLocked, Respond, Goto, At
  <2>7. CASE ResetFailedAttempts(w)
    BY <2>7 DEF ResetFailedAttempts, SetFailed, Advance, Goto, At
  <2>8. CASE CreateSession(w)
    BY <2>8 DEF CreateSession, InsertSession, Respond, Goto, At, tables
  <2>9. CASE DropExpired(w)
    BY <2>9 DEF DropExpired, DeleteSession, Respond, Goto, At
  <2>10. CASE Touch(w)
    BY <2>10 DEF Touch, TouchSession, Advance, Goto, At
  <2>11. CASE LoadAccount(w)
    BY <2>11 DEF LoadAccount, Respond, Advance, Goto, At, tables
  <2>12. CASE RespondOnly(w)
    BY <2>12 DEF RespondOnly, Respond, Goto, At, tables
  <2>13. CASE Logout(w)
    BY <2>13 DEF Logout, DeleteSession, Respond, Goto, At
  <2>14. CASE CreateAccount(w)
    BY <2>14 DEF CreateAccount, InsertAccount, Respond, Goto, At
  <2>15. CASE BeginUnlock(w)
    BY <2>15 DEF BeginUnlock, LoadMe, Goto, At, tables
  <2>16. CASE UnlockTarget(w)
    BY <2>16 DEF UnlockTarget, EnsureTarget, Respond, Advance, Goto, At, tables
  <2>17. CASE UnlockFlag(w)
    BY <2>17 DEF UnlockFlag, SetLocked, Advance, Goto, At
  <2>18. CASE UnlockReset(w)
    BY <2>18 DEF UnlockReset, SetFailed, Respond, Goto, At
  <2>19. CASE BeginPassword(w)
    BY <2>19 DEF BeginPassword, LoadMe, Goto, At, tables
  <2>20. CASE PasswordTarget(w)
    BY <2>20 DEF PasswordTarget, Respond, Advance, Goto, At, tables
  <2>21. CASE PasswordWrite(w)
    BY <2>21 DEF PasswordWrite, SetPassword, Respond, Goto, At
  <2>22. CASE BeginDelete(w)
    BY <2>22 DEF BeginDelete, LoadMe, Goto, At, tables
  <2>23. CASE DeleteTarget(w)
    BY <2>23 DEF DeleteTarget, EnsureTarget, Respond, Advance, Goto, At, tables
  <2>24. CASE DeleteCount(w)
    BY <2>24 DEF DeleteCount, Respond, Advance, Goto, At, tables
  <2>25. CASE DeleteRow(w)
    BY <2>25 DEF DeleteRow, DeleteAccount, Respond, Goto, At
  <2> QED
    BY <1>3, <2>1, <2>2, <2>3, <2>4, <2>5, <2>6, <2>7, <2>8, <2>9, <2>10,
       <2>11, <2>12, <2>13, <2>14, <2>15, <2>16, <2>17, <2>18, <2>19,
       <2>20, <2>21, <2>22, <2>23, <2>24, <2>25  DEF Arrive, Serve
<1> QED
  BY <1>1, <1>3 DEF Next

LEMMA CrossedStep ==
    ASSUME TypeOK, SafetyInv, CrossedInv, [Next]_vars
    PROVE  CrossedInv'
<1>1. CASE UNCHANGED vars
  BY <1>1 DEF vars, CrossedInv, Held, Meets
<1>2. CASE Next
  <2>1. \A w \in Worker : Held(w)'
    BY <1>2, HeldStep DEF CrossedInv
  <2>2. ASSUME NEW w \in Worker, pc'[w] = "idle" PROVE ~Meets(w)'
    BY <2>1, <2>2 DEF Meets, Held
  <2>3. Track
    BY <1>2 DEF Next
  <2> QED
    BY <2>1, <2>2, <2>3 DEF CrossedInv, Track
<1> QED
  BY <1>1, <1>2

(* A request that no other has met finds the rows as it read them.          *)
LEMMA AsReadStep ==
    ASSUME TypeOK, SafetyInv, RowsAsRead, CrossedInv, Next,
           NEW u \in Worker, u \notin crossed', pc'[u] # "idle"
    PROVE  AsRead(u)'
<1>a. u \notin crossed
  BY DEF Next, Track
<1>b. AsRead(u)
  BY <1>a DEF RowsAsRead
<1>c. \A v \in Worker \ {u} :
         tgt[v] # NoAccount /\ tgt[u] # NoAccount => tgt[v] \notin {tgt[u], me[u]}
  BY <1>a DEF CrossedInv, Meets
<1>d. Held(u)
  BY DEF CrossedInv
<1> USE MaxFailedAssumption, NullAssumption, SeedAssumption, <1>b, <1>c
<1> USE DEF TypeOK, SafetyInv, RowsDrawn, ActsOnAnother, AsRead
<1>1. CASE Expire
  BY <1>1 DEF Expire, request
<1>3. ASSUME NEW w \in Worker, Arrive(w) \/ Serve(w)
      PROVE  AsRead(u)'
  <2>1. CASE LoginRefused(w)
    BY <2>1 DEF LoginRefused, Respond, Goto, At, tables
  <2>2. CASE LoginWrongPassword(w)
    BY <2>2 DEF LoginWrongPassword, Goto, At, tables
  <2>3. CASE LoginRightPassword(w)
    BY <2>3 DEF LoginRightPassword, Goto, At, tables
  <2>4. CASE SessionGet(w)
    BY <2>4 DEF SessionGet, Respond, Goto, At, tables
  <2>5. CASE IncrementFailedAttempts(w)
    BY <2>5 DEF IncrementFailedAttempts, SetFailed, Respond, Advance, Goto, At
  <2>6. CASE LockAccount(w)
    BY <2>6 DEF LockAccount, SetLocked, Respond, Goto, At
  <2>7. CASE ResetFailedAttempts(w)
    BY <2>7 DEF ResetFailedAttempts, SetFailed, Advance, Goto, At
  <2>8. CASE CreateSession(w)
    BY <2>8 DEF CreateSession, InsertSession, Respond, Goto, At, tables
  <2>9. CASE DropExpired(w)
    BY <2>9 DEF DropExpired, DeleteSession, Respond, Goto, At
  <2>10. CASE Touch(w)
    BY <2>10 DEF Touch, TouchSession, Advance, Goto, At
  <2>11. CASE LoadAccount(w)
    BY <2>11 DEF LoadAccount, Respond, Advance, Goto, At, tables
  <2>12. CASE RespondOnly(w)
    BY <2>12 DEF RespondOnly, Respond, Goto, At, tables
  <2>13. CASE Logout(w)
    BY <2>13 DEF Logout, DeleteSession, Respond, Goto, At
  <2>14. CASE CreateAccount(w)
    BY <2>14 DEF CreateAccount, InsertAccount, Respond, Goto, At
  <2>15. CASE BeginUnlock(w)
    BY <2>15 DEF BeginUnlock, LoadMe, Goto, At, tables
  <2>16. CASE UnlockTarget(w)
    BY <2>16 DEF UnlockTarget, EnsureTarget, Respond, Advance, Goto, At, tables
  <2>17. CASE UnlockFlag(w)
    BY <2>17 DEF UnlockFlag, SetLocked, Advance, Goto, At
  <2>18. CASE UnlockReset(w)
    BY <2>18 DEF UnlockReset, SetFailed, Respond, Goto, At
  <2>19. CASE BeginPassword(w)
    BY <2>19 DEF BeginPassword, LoadMe, Goto, At, tables
  <2>20. CASE PasswordTarget(w)
    <3>1. CASE u = w
      BY <1>d, <3>1, <2>20 DEF PasswordTarget, Respond, Advance, Goto, At, tables, Held
    <3>2. CASE u # w
      BY <3>2, <2>20 DEF PasswordTarget, Respond, Advance, Goto, At, tables
    <3> QED
      BY <3>1, <3>2
  <2>21. CASE PasswordWrite(w)
    BY <2>21 DEF PasswordWrite, SetPassword, Respond, Goto, At
  <2>22. CASE BeginDelete(w)
    BY <2>22 DEF BeginDelete, LoadMe, Goto, At, tables
  <2>23. CASE DeleteTarget(w)
    BY <2>23 DEF DeleteTarget, EnsureTarget, Respond, Advance, Goto, At, tables
  <2>24. CASE DeleteCount(w)
    BY <2>24 DEF DeleteCount, Respond, Advance, Goto, At, tables
  <2>25. CASE DeleteRow(w)
    <3>1. u # w
      BY <2>25 DEF DeleteRow, Respond, Goto
    <3>2. /\ pc'[u] = pc[u] /\ tgt'[u] = tgt[u]
          /\ me'[u] = me[u] /\ old'[u] = old[u]
      BY <3>1, <2>25 DEF DeleteRow, Respond, Goto
    <3>3. CASE tgt[u] \in Account
      BY <3>1, <3>2, <3>3, <2>25 DEF DeleteRow, DeleteAccount, At
    <3>4. CASE tgt[u] \notin Account
      BY <1>d, <3>2, <3>4 DEF Held
    <3> QED
      BY <3>3, <3>4
  <2> QED
    BY <1>3, <2>1, <2>2, <2>3, <2>4, <2>5, <2>6, <2>7, <2>8, <2>9, <2>10,
       <2>11, <2>12, <2>13, <2>14, <2>15, <2>16, <2>17, <2>18, <2>19,
       <2>20, <2>21, <2>22, <2>23, <2>24, <2>25  DEF Arrive, Serve
<1> QED
  BY <1>1, <1>3 DEF Next

LEMMA RowsAsReadStep ==
    ASSUME TypeOK, SafetyInv, RowsAsRead, CrossedInv, [Next]_vars
    PROVE  RowsAsRead'
<1>1. CASE UNCHANGED vars
  BY <1>1 DEF vars, RowsAsRead, AsRead
<1>2. CASE Next
  <2> SUFFICES ASSUME NEW u \in Worker, u \notin crossed' PROVE AsRead(u)'
    BY DEF RowsAsRead
  <2>1. CASE pc'[u] = "idle"
    BY <2>1 DEF AsRead
  <2>2. CASE pc'[u] # "idle"
    BY <1>2, <2>2, AsReadStep
  <2> QED
    BY <2>1, <2>2
<1> QED
  BY <1>1, <1>2

(* Only a delete that is past the count, or goes past it, moves towards an  *)
(* empty table.                                                             *)
LEMMA OtherStep ==
    ASSUME TypeOK, Next,
           \A w \in Worker : ~DeleteCount(w) /\ ~DeleteRow(w)
    PROVE  /\ live \subseteq live'
           /\ \A v \in Worker : pc'[v] = "delete_row" =>
                 pc[v] = "delete_row" /\ tgt'[v] = tgt[v]
<1> USE DEF TypeOK
<1> DEFINE Keeps == /\ live \subseteq live'
                    /\ \A v \in Worker : pc'[v] = "delete_row" =>
                          pc[v] = "delete_row" /\ tgt'[v] = tgt[v]
<1>1. CASE Expire
  BY <1>1 DEF Expire, request
<1>3. ASSUME NEW w \in Worker, Arrive(w) \/ Serve(w)
      PROVE  Keeps
  <2>1. CASE LoginRefused(w)
    BY <2>1 DEF LoginRefused, Respond, Goto, At, tables
  <2>2. CASE LoginWrongPassword(w)
    BY <2>2 DEF LoginWrongPassword, Goto, At, tables
  <2>3. CASE LoginRightPassword(w)
    BY <2>3 DEF LoginRightPassword, Goto, At, tables
  <2>4. CASE SessionGet(w)
    BY <2>4 DEF SessionGet, Respond, Goto, At, tables
  <2>5. CASE IncrementFailedAttempts(w)
    BY <2>5 DEF IncrementFailedAttempts, SetFailed, Respond, Advance, Goto, At
  <2>6. CASE LockAccount(w)
    BY <2>6 DEF LockAccount, SetLocked, Respond, Goto, At
  <2>7. CASE ResetFailedAttempts(w)
    BY <2>7 DEF ResetFailedAttempts, SetFailed, Advance, Goto, At
  <2>8. CASE CreateSession(w)
    BY <2>8 DEF CreateSession, InsertSession, Respond, Goto, At, tables
  <2>9. CASE DropExpired(w)
    BY <2>9 DEF DropExpired, DeleteSession, Respond, Goto, At
  <2>10. CASE Touch(w)
    BY <2>10 DEF Touch, TouchSession, Advance, Goto, At
  <2>11. CASE LoadAccount(w)
    BY <2>11 DEF LoadAccount, Respond, Advance, Goto, At, tables
  <2>12. CASE RespondOnly(w)
    BY <2>12 DEF RespondOnly, Respond, Goto, At, tables
  <2>13. CASE Logout(w)
    BY <2>13 DEF Logout, DeleteSession, Respond, Goto, At
  <2>14. CASE CreateAccount(w)
    BY <2>14 DEF CreateAccount, InsertAccount, Respond, Goto, At
  <2>15. CASE BeginUnlock(w)
    BY <2>15 DEF BeginUnlock, LoadMe, Goto, At, tables
  <2>16. CASE UnlockTarget(w)
    BY <2>16 DEF UnlockTarget, EnsureTarget, Respond, Advance, Goto, At, tables
  <2>17. CASE UnlockFlag(w)
    BY <2>17 DEF UnlockFlag, SetLocked, Advance, Goto, At
  <2>18. CASE UnlockReset(w)
    BY <2>18 DEF UnlockReset, SetFailed, Respond, Goto, At
  <2>19. CASE BeginPassword(w)
    BY <2>19 DEF BeginPassword, LoadMe, Goto, At, tables
  <2>20. CASE PasswordTarget(w)
    BY <2>20 DEF PasswordTarget, Respond, Advance, Goto, At, tables
  <2>21. CASE PasswordWrite(w)
    BY <2>21 DEF PasswordWrite, SetPassword, Respond, Goto, At
  <2>22. CASE BeginDelete(w)
    BY <2>22 DEF BeginDelete, LoadMe, Goto, At, tables
  <2>23. CASE DeleteTarget(w)
    BY <2>23 DEF DeleteTarget, EnsureTarget, Respond, Advance, Goto, At, tables
  <2> QED
    BY <1>3, <2>1, <2>2, <2>3, <2>4, <2>5, <2>6, <2>7, <2>8, <2>9, <2>10,
       <2>11, <2>12, <2>13, <2>14, <2>15, <2>16, <2>17, <2>18, <2>19,
       <2>20, <2>21, <2>22, <2>23 DEF Arrive, Serve
<1> QED
  BY <1>1, <1>3 DEF Next

(* As long as no two deletes were past the count at once, there is an       *)
(* account, and a delete that is past the count leaves one.                 *)
LastInv ==
    ~rivals => /\ live # {}
               /\ OneDelete
               /\ \A w \in Worker : pc[w] = "delete_row" => live \ {tgt[w]} # {}

LEMMA LastStep ==
    ASSUME TypeOK, LastInv, [Next \/ Restart]_vars
    PROVE  LastInv'
<1>1. CASE UNCHANGED vars
  BY <1>1 DEF vars, LastInv, OneDelete
<1>2. CASE Restart
  <2>1. live' # {}
    <3>1. CASE live = {}
      BY <1>2, <3>1 DEF Restart, InsertAccount
    <3>2. CASE live # {}
      BY <1>2, <3>2 DEF Restart, tables
    <3> QED
      BY <3>1, <3>2
  <2>2. \A w \in Worker : pc'[w] = "idle"
    BY <1>2 DEF Restart
  <2> QED
    BY <2>1, <2>2 DEF LastInv, OneDelete
<1>3. CASE Next
  <2> SUFFICES ASSUME ~rivals' PROVE LastInv'
    BY DEF LastInv
  <2>1. ~rivals /\ OneDelete'
    BY <1>3 DEF Next, Track
  <2>2. /\ live # {} /\ OneDelete
        /\ \A w \in Worker : pc[w] = "delete_row" => live \ {tgt[w]} # {}
    BY <2>1 DEF LastInv
  <2>3. ASSUME NEW w \in Worker, DeleteCount(w) PROVE LastInv'
    <3>1. live' = live
      BY <2>3 DEF DeleteCount, tables
    <3>2. \A v \in Worker \ {w} : pc'[v] = pc[v] /\ tgt'[v] = tgt[v]
      BY <2>3 DEF DeleteCount, Respond, Advance, Goto, TypeOK
    <3>3. ASSUME pc'[w] = "delete_row" PROVE live \ {tgt[w]} # {}
      <4>1. ~(Cardinality(live) <= 1)
        BY <2>3, <3>3 DEF DeleteCount, Respond, Goto, TypeOK
      <4>2. SUFFICES ASSUME live \ {tgt[w]} = {} PROVE FALSE
        OBVIOUS
      <4>3. live = {tgt[w]}
        BY <2>2, <4>2
      <4> QED
        <5>1. Cardinality({tgt[w]}) = 1
          BY FS_Singleton
        <5>2. Cardinality(live) = 1
          BY <4>3, <5>1
        <5> QED
          BY <4>1, <5>2
    <3>4. pc'[w] = "delete_row" => tgt'[w] = tgt[w]
      BY <2>3 DEF DeleteCount, Respond, Advance, Goto, TypeOK
    <3> QED
      BY <2>1, <2>2, <3>1, <3>2, <3>3, <3>4 DEF LastInv
  <2>4. ASSUME NEW w \in Worker, DeleteRow(w) PROVE LastInv'
    <3>1. pc[w] = "delete_row" /\ live' = live \ {tgt[w]} /\ pc'[w] = "idle"
      BY <2>4 DEF DeleteRow, DeleteAccount, At, Respond, Goto, TypeOK
    <3>2. \A v \in Worker \ {w} : pc'[v] = pc[v]
      BY <2>4 DEF DeleteRow, Respond, Goto, TypeOK
    <3>3. \A v \in Worker : pc'[v] # "delete_row"
      BY <2>2, <3>1, <3>2 DEF OneDelete
    <3> QED
      BY <2>1, <2>2, <3>1, <3>3 DEF LastInv
  <2>5. CASE \A w \in Worker : ~DeleteCount(w) /\ ~DeleteRow(w)
    BY <1>3, <2>1, <2>2, <2>5, OtherStep DEF LastInv
  <2> QED
    BY <2>3, <2>4, <2>5
<1> QED
  BY <1>1, <1>2, <1>3

(* A step that lifts a lock is an unlock or a delete for another account. *)
LEMMA LiftStep ==
    ASSUME TypeOK, SafetyInv, [Next \/ Restart]_vars
    PROVE  LockLift
<1> USE MaxFailedAssumption, NullAssumption, SeedAssumption
<1> USE DEF TypeOK, SafetyInv, RowsDrawn, ActsOnAnother, LockLift
<1>1. CASE Expire
  BY <1>1 DEF Expire, request
<1>2. CASE Restart
  BY <1>2 DEF Restart, InsertAccount, tables
<1>3. CASE UNCHANGED vars
  BY <1>3 DEF vars
<1>4. ASSUME NEW w \in Worker, Arrive(w) \/ Serve(w)
      PROVE  LockLift
  <2>1. CASE LoginRefused(w)
    BY <2>1 DEF LoginRefused, Respond, Goto, At, tables
  <2>2. CASE LoginWrongPassword(w)
    BY <2>2 DEF LoginWrongPassword, Goto, At, tables
  <2>3. CASE LoginRightPassword(w)
    BY <2>3 DEF LoginRightPassword, Goto, At, tables
  <2>4. CASE SessionGet(w)
    BY <2>4 DEF SessionGet, Respond, Goto, At, tables
  <2>5. CASE IncrementFailedAttempts(w)
    BY <2>5 DEF IncrementFailedAttempts, SetFailed, Respond, Advance, Goto, At
  <2>6. CASE LockAccount(w)
    BY <2>6 DEF LockAccount, SetLocked, Respond, Goto, At
  <2>7. CASE ResetFailedAttempts(w)
    BY <2>7 DEF ResetFailedAttempts, SetFailed, Advance, Goto, At
  <2>8. CASE CreateSession(w)
    BY <2>8 DEF CreateSession, InsertSession, Respond, Goto, At, tables
  <2>9. CASE DropExpired(w)
    BY <2>9 DEF DropExpired, DeleteSession, Respond, Goto, At
  <2>10. CASE Touch(w)
    BY <2>10 DEF Touch, TouchSession, Advance, Goto, At
  <2>11. CASE LoadAccount(w)
    BY <2>11 DEF LoadAccount, Respond, Advance, Goto, At, tables
  <2>12. CASE RespondOnly(w)
    BY <2>12 DEF RespondOnly, Respond, Goto, At, tables
  <2>13. CASE Logout(w)
    BY <2>13 DEF Logout, DeleteSession, Respond, Goto, At
  <2>14. CASE CreateAccount(w)
    BY <2>14 DEF CreateAccount, InsertAccount, Respond, Goto, At
  <2>15. CASE BeginUnlock(w)
    BY <2>15 DEF BeginUnlock, LoadMe, Goto, At, tables
  <2>16. CASE UnlockTarget(w)
    BY <2>16 DEF UnlockTarget, EnsureTarget, Respond, Advance, Goto, At, tables
  <2>17. CASE UnlockFlag(w)
    BY <2>17 DEF UnlockFlag, SetLocked, Advance, Goto, At
  <2>18. CASE UnlockReset(w)
    BY <2>18 DEF UnlockReset, SetFailed, Respond, Goto, At
  <2>19. CASE BeginPassword(w)
    BY <2>19 DEF BeginPassword, LoadMe, Goto, At, tables
  <2>20. CASE PasswordTarget(w)
    BY <2>20 DEF PasswordTarget, Respond, Advance, Goto, At, tables
  <2>21. CASE PasswordWrite(w)
    BY <2>21 DEF PasswordWrite, SetPassword, Respond, Goto, At
  <2>22. CASE BeginDelete(w)
    BY <2>22 DEF BeginDelete, LoadMe, Goto, At, tables
  <2>23. CASE DeleteTarget(w)
    BY <2>23 DEF DeleteTarget, EnsureTarget, Respond, Advance, Goto, At, tables
  <2>24. CASE DeleteCount(w)
    BY <2>24 DEF DeleteCount, Respond, Advance, Goto, At, tables
  <2>25. CASE DeleteRow(w)
    BY <2>25 DEF DeleteRow, DeleteAccount, Respond, Goto, At
  <2> QED
    BY <1>4, <2>1, <2>2, <2>3, <2>4, <2>5, <2>6, <2>7, <2>8, <2>9, <2>10,
       <2>11, <2>12, <2>13, <2>14, <2>15, <2>16, <2>17, <2>18, <2>19,
       <2>20, <2>21, <2>22, <2>23, <2>24, <2>25  DEF Arrive, Serve
<1> QED
  BY <1>1, <1>2, <1>3, <1>4 DEF Next

(* No step puts back an id that was drawn and is gone. *)
LEMMA NoReturnStep ==
    ASSUME TypeOK, [Next \/ Restart]_vars
    PROVE  NoReturn
<1> USE MaxFailedAssumption, NullAssumption, SeedAssumption
<1> USE DEF TypeOK, NoReturn
<1>1. CASE Expire
  BY <1>1 DEF Expire, request
<1>2. CASE Restart
  BY <1>2 DEF Restart, InsertAccount, tables
<1>3. CASE UNCHANGED vars
  BY <1>3 DEF vars
<1>4. ASSUME NEW w \in Worker, Arrive(w) \/ Serve(w)
      PROVE  NoReturn
  <2>1. CASE LoginRefused(w)
    BY <2>1 DEF LoginRefused, Respond, Goto, At, tables
  <2>2. CASE LoginWrongPassword(w)
    BY <2>2 DEF LoginWrongPassword, Goto, At, tables
  <2>3. CASE LoginRightPassword(w)
    BY <2>3 DEF LoginRightPassword, Goto, At, tables
  <2>4. CASE SessionGet(w)
    BY <2>4 DEF SessionGet, Respond, Goto, At, tables
  <2>5. CASE IncrementFailedAttempts(w)
    BY <2>5 DEF IncrementFailedAttempts, SetFailed, Respond, Advance, Goto, At
  <2>6. CASE LockAccount(w)
    BY <2>6 DEF LockAccount, SetLocked, Respond, Goto, At
  <2>7. CASE ResetFailedAttempts(w)
    BY <2>7 DEF ResetFailedAttempts, SetFailed, Advance, Goto, At
  <2>8. CASE CreateSession(w)
    BY <2>8 DEF CreateSession, InsertSession, Respond, Goto, At, tables
  <2>9. CASE DropExpired(w)
    BY <2>9 DEF DropExpired, DeleteSession, Respond, Goto, At
  <2>10. CASE Touch(w)
    BY <2>10 DEF Touch, TouchSession, Advance, Goto, At
  <2>11. CASE LoadAccount(w)
    BY <2>11 DEF LoadAccount, Respond, Advance, Goto, At, tables
  <2>12. CASE RespondOnly(w)
    BY <2>12 DEF RespondOnly, Respond, Goto, At, tables
  <2>13. CASE Logout(w)
    BY <2>13 DEF Logout, DeleteSession, Respond, Goto, At
  <2>14. CASE CreateAccount(w)
    BY <2>14 DEF CreateAccount, InsertAccount, Respond, Goto, At
  <2>15. CASE BeginUnlock(w)
    BY <2>15 DEF BeginUnlock, LoadMe, Goto, At, tables
  <2>16. CASE UnlockTarget(w)
    BY <2>16 DEF UnlockTarget, EnsureTarget, Respond, Advance, Goto, At, tables
  <2>17. CASE UnlockFlag(w)
    BY <2>17 DEF UnlockFlag, SetLocked, Advance, Goto, At
  <2>18. CASE UnlockReset(w)
    BY <2>18 DEF UnlockReset, SetFailed, Respond, Goto, At
  <2>19. CASE BeginPassword(w)
    BY <2>19 DEF BeginPassword, LoadMe, Goto, At, tables
  <2>20. CASE PasswordTarget(w)
    BY <2>20 DEF PasswordTarget, Respond, Advance, Goto, At, tables
  <2>21. CASE PasswordWrite(w)
    BY <2>21 DEF PasswordWrite, SetPassword, Respond, Goto, At
  <2>22. CASE BeginDelete(w)
    BY <2>22 DEF BeginDelete, LoadMe, Goto, At, tables
  <2>23. CASE DeleteTarget(w)
    BY <2>23 DEF DeleteTarget, EnsureTarget, Respond, Advance, Goto, At, tables
  <2>24. CASE DeleteCount(w)
    BY <2>24 DEF DeleteCount, Respond, Advance, Goto, At, tables
  <2>25. CASE DeleteRow(w)
    BY <2>25 DEF DeleteRow, DeleteAccount, Respond, Goto, At
  <2> QED
    BY <1>4, <2>1, <2>2, <2>3, <2>4, <2>5, <2>6, <2>7, <2>8, <2>9, <2>10,
       <2>11, <2>12, <2>13, <2>14, <2>15, <2>16, <2>17, <2>18, <2>19,
       <2>20, <2>21, <2>22, <2>23, <2>24, <2>25  DEF Arrive, Serve
<1> QED
  BY <1>1, <1>2, <1>3, <1>4 DEF Next

-----------------------------------------------------------------------------
LEMMA InitInv ==
    Init => TypeOK /\ SafetyInv /\ LockoutComplete /\ RowsAsRead /\ CrossedInv
            /\ LastInv
<1> SUFFICES ASSUME Init
             PROVE  /\ TypeOK /\ SafetyInv /\ LockoutComplete
                    /\ RowsAsRead /\ CrossedInv /\ LastInv
  OBVIOUS
<1> USE MaxFailedAssumption, NullAssumption, SeedAssumption
<1>1. TypeOK
  BY DEF Init, TypeOK
<1>2. SafetyInv
  BY DEF Init, SafetyInv, SessionsOwned, RowsDrawn, ActsOnAnother
<1>3. LockoutComplete
  BY DEF Init, LockoutComplete
<1>4. RowsAsRead
  BY DEF Init, RowsAsRead, AsRead
<1>5. CrossedInv
  BY DEF Init, CrossedInv, Held, Meets
<1>6. LastInv
  BY DEF Init, LastInv, OneDelete
<1> QED
  BY <1>1, <1>2, <1>3, <1>4, <1>5, <1>6

(* The tables and the requests are well formed in every run, restarts of    *)
(* the server included (the columns of storage/admin_db.py and the local    *)
(* variables of the handlers of app/admin).                                 *)
THEOREM TypeCorrect == CrashSpec => []TypeOK
<1>1. Init => TypeOK
  BY InitInv
<1>2. TypeOK /\ [Next \/ Restart]_vars => TypeOK'
  BY TypeStep
<1> QED
  BY <1>1, <1>2, PTL DEF CrashSpec

(* What holds whatever interleaves and wherever the server dies.            *)
THEOREM Safety == CrashSpec => []SafetyInv
<1>1. Init => SafetyInv
  BY InitInv
<1>2. TypeOK /\ SafetyInv /\ [Next \/ Restart]_vars => SafetyInv'
  BY SafetyStep
<1> QED
  BY <1>1, <1>2, TypeCorrect, PTL DEF CrashSpec

(* A session always belongs to an account that exists: sessions.create      *)
(* racing accounts.delete, and restarts, included.                          *)
THEOREM SessionsAlwaysOwned == CrashSpec => []SessionsOwned
<1>1. SafetyInv => SessionsOwned
  BY DEF SafetyInv
<1> QED
  BY <1>1, Safety, PTL

(* A lock is lifted only by an unlock or a delete that another account      *)
(* requested (unlock_account and delete_account refuse the acting account). *)
THEOREM LockLifted == CrashSpec => LockLiftedByAnother
<1>1. TypeOK /\ SafetyInv /\ [Next \/ Restart]_vars => LockLift \/ UNCHANGED vars
  BY LiftStep
<1> QED
  BY <1>1, TypeCorrect, Safety, PTL DEF CrashSpec, LockLiftedByAnother

(* A session or an account that has gone never comes back, although         *)
(* handlers write to rows they read in an earlier call (sessions.touch,     *)
(* accounts.update, sessions.create).                                       *)
THEOREM NeverResurrected == CrashSpec => NoResurrection
<1>1. TypeOK /\ [Next \/ Restart]_vars => NoReturn \/ UNCHANGED vars
  BY NoReturnStep
<1> QED
  BY <1>1, TypeCorrect, PTL DEF CrashSpec, NoResurrection

(* As long as the server does not die between two calls, an account with    *)
(* MAX_FAILED_ATTEMPTS wrong passwords is locked, or being locked or        *)
(* cleared: login_attempt's test for equality misses no account.            *)
THEOREM LockoutAlwaysComplete == Spec => []LockoutComplete
<1>1. Init => TypeOK /\ LockoutComplete
  BY InitInv
<1>2. TypeOK /\ LockoutComplete /\ [Next]_vars => TypeOK' /\ LockoutComplete'
  BY TypeStep, LockoutStep
<1> QED
  BY <1>1, <1>2, PTL DEF Spec

-----------------------------------------------------------------------------
(* The moves of AccountPolicy that take an account only. *)
LEMMA PolicyMove ==
    ASSUME NEW a \in Account,
           \/ Policy!WrongPassword(a) \/ Policy!RightPassword(a)
           \/ Policy!Unlock(a) \/ Policy!Delete(a)
    PROVE  Policy!Next
BY DEF Policy!Next

(* A step that leaves a request where it is, refused before any write,      *)
(* changes no table.                                                        *)
LEMMA StayStep ==
    ASSUME TypeOK, NEW w \in Worker, Arrive(w) \/ Serve(w), pc'[w] = pc[w]
    PROVE  /\ UNCHANGED <<tables, pc>> /\ pc[w] = "idle"
           /\ \A v \in Worker \ {w} : tgt'[v] = tgt[v]
<1> USE DEF TypeOK
<1>1. CASE LoginRefused(w)
  BY <1>1 DEF LoginRefused, Respond, Goto, At, tables
<1>2. CASE SessionGet(w)
  BY <1>2 DEF SessionGet, Respond, Goto, At, tables
<1>3. CASE LoginWrongPassword(w) \/ LoginRightPassword(w)
  BY <1>3 DEF LoginWrongPassword, LoginRightPassword, Goto, At
<1>4. ASSUME Serve(w) PROVE FALSE
  <2>1. CASE IncrementFailedAttempts(w)
    BY <2>1 DEF IncrementFailedAttempts, Respond, Advance, Goto, At
  <2>2. CASE LockAccount(w)
    BY <2>2 DEF LockAccount, Respond, Goto, At
  <2>3. CASE ResetFailedAttempts(w)
    BY <2>3 DEF ResetFailedAttempts, Advance, Goto, At
  <2>4. CASE CreateSession(w)
    BY <2>4 DEF CreateSession, Respond, Goto, At
  <2>5. CASE DropExpired(w)
    BY <2>5 DEF DropExpired, Respond, Goto, At
  <2>6. CASE Touch(w)
    BY <2>6 DEF Touch, Advance, Goto, At
  <2>7. CASE LoadAccount(w)
    BY <2>7 DEF LoadAccount, Respond, Advance, Goto, At
  <2>8. CASE RespondOnly(w)
    BY <2>8 DEF RespondOnly, Respond, Goto, At
  <2>9. CASE Logout(w)
    BY <2>9 DEF Logout, Respond, Goto, At
  <2>10. CASE CreateAccount(w)
    BY <2>10 DEF CreateAccount, Respond, Goto, At
  <2>11. CASE BeginUnlock(w)
    BY <2>11 DEF BeginUnlock, LoadMe, Goto, At
  <2>12. CASE BeginPassword(w)
    BY <2>12 DEF BeginPassword, LoadMe, Goto, At
  <2>13. CASE BeginDelete(w)
    BY <2>13 DEF BeginDelete, LoadMe, Goto, At
  <2>14. CASE UnlockTarget(w)
    BY <2>14 DEF UnlockTarget, EnsureTarget, Respond, Advance, Goto, At
  <2>15. CASE UnlockFlag(w)
    BY <2>15 DEF UnlockFlag, Advance, Goto, At
  <2>16. CASE UnlockReset(w)
    BY <2>16 DEF UnlockReset, Respond, Goto, At
  <2>17. CASE PasswordTarget(w)
    BY <2>17 DEF PasswordTarget, Respond, Advance, Goto, At
  <2>18. CASE PasswordWrite(w)
    BY <2>18 DEF PasswordWrite, Respond, Goto, At
  <2>19. CASE DeleteTarget(w)
    BY <2>19 DEF DeleteTarget, EnsureTarget, Respond, Advance, Goto, At
  <2>20. CASE DeleteCount(w)
    BY <2>20 DEF DeleteCount, Respond, Advance, Goto, At
  <2>21. CASE DeleteRow(w)
    BY <2>21 DEF DeleteRow, Respond, Goto, At
  <2> QED
    BY <1>4, <2>1, <2>2, <2>3, <2>4, <2>5, <2>6, <2>7, <2>8, <2>9, <2>10, <2>11,
       <2>12, <2>13, <2>14, <2>15, <2>16, <2>17, <2>18, <2>19, <2>20, <2>21 DEF Serve
<1> QED
  BY <1>1, <1>2, <1>3, <1>4 DEF Arrive

(* Each step of a request that no other has met is a step of AccountPolicy, *)
(* or changes nothing there.                                                *)
LEMMA PolicyStep ==
    ASSUME TypeOK, SafetyInv, RowsAsRead, CrossedInv, [Next]_vars
    PROVE  [Policy!Next \/ CrossedMoves]_(Policy!vars)
<1> USE MaxFailedAssumption, NullAssumption, SeedAssumption
<1> USE DEF TypeOK, SafetyInv, RowsDrawn, ActsOnAnother
<1> DEFINE Still == UNCHANGED Policy!vars
           Count == [b \in Account |-> IF ResetPending(b) THEN 0 ELSE failed[b]]
           Full  == locked \cup {b \in live : LockPending(b)}
<1>1. CASE Expire
  BY <1>1 DEF Expire, request, Policy!vars, LockPending, ResetPending
<1>2. CASE UNCHANGED vars
  BY <1>2 DEF vars, Policy!vars, LockPending, ResetPending
<1>3. ASSUME NEW w \in Worker, Arrive(w) \/ Serve(w)
      PROVE  Still \/ Policy!Next \/ CrossedMoves
  <2> SUFFICES ASSUME w \notin crossed PROVE Still \/ Policy!Next
    <3>1. CASE w \in crossed /\ pc'[w] # pc[w]
      BY <3>1 DEF CrossedMoves
    <3>2. CASE w \in crossed /\ pc'[w] = pc[w]
      BY <1>3, <3>2, StayStep DEF tables, LockPending, ResetPending, Policy!vars
    <3> QED
      BY <3>1, <3>2
  <2>a. AsRead(w) /\ Held(w)
    BY DEF RowsAsRead, CrossedInv
  <2>b. \A v \in Worker \ {w} :
           tgt[v] # NoAccount /\ tgt[w] # NoAccount => tgt[v] \notin {tgt[w], me[w]}
    BY DEF CrossedInv, Meets
  <2> USE <2>a, <2>b DEF LockPending, ResetPending, Policy!vars, AsRead, Held
  <2>1. CASE LoginRefused(w)
    BY <2>1 DEF LoginRefused, Respond, Goto, At, tables
  <2>2. CASE LoginWrongPassword(w)
    BY <2>2 DEF LoginWrongPassword, Goto, At, tables
  <2>3. CASE LoginRightPassword(w)
    BY <2>3 DEF LoginRightPassword, Goto, At, tables
  <2>4. CASE SessionGet(w)
    BY <2>4 DEF SessionGet, Respond, Goto, At, tables
  <2>5. CASE IncrementFailedAttempts(w)
    <3>1. PICK a \in Account : a = tgt[w]
      BY <2>5 DEF IncrementFailedAttempts, At
    <3>2. Policy!WrongPassword(a)
      <4>1. a \in live \ locked /\ pc[w] = "increment"
        BY <3>1, <2>5 DEF IncrementFailedAttempts, At
      <4>2. \A v \in Worker \ {w} : tgt[v] # a /\ pc'[v] = pc[v] /\ tgt'[v] = tgt[v]
        BY <3>1, <2>5 DEF IncrementFailedAttempts, Respond, Advance, Goto
      <4>3. /\ failed' = [failed EXCEPT ![a] = failed[a] + 1]
            /\ UNCHANGED <<live, name, password, locked, sessions, expired, drawn>>
        BY <3>1, <4>1, <2>5 DEF IncrementFailedAttempts, SetFailed
      <4>4. /\ failed[a] + 1 = MaxFailed => pc'[w] = "set_locked" /\ tgt'[w] = a
            /\ failed[a] + 1 # MaxFailed => pc'[w] = "idle"
        BY <3>1, <4>1, <2>5 DEF IncrementFailedAttempts, Respond, Advance, Goto
      <4>5. \A b \in Account : ResetPending(b)' <=> ResetPending(b)
        BY <4>1, <4>2, <4>4
      <4>6. \A b \in Account :
               LockPending(b)' <=> LockPending(b) \/ (b = a /\ failed[a] + 1 = MaxFailed)
        BY <4>1, <4>2, <4>4
      <4>7. ~LockPending(a) /\ ~ResetPending(a)
        BY <4>1, <4>2
      <4>8. Count' = [Count EXCEPT ![a] = @ + 1]
        <5>1. ASSUME NEW b \in Account, b # a PROVE Count'[b] = Count[b]
          <6>1. ResetPending(b)' <=> ResetPending(b)
            BY <5>1, <4>5
          <6>2. failed'[b] = failed[b]
            BY <5>1, <4>3
          <6>3. Count'[b] = IF ResetPending(b)' THEN 0 ELSE failed'[b]
            OBVIOUS
          <6>4. Count[b] = IF ResetPending(b) THEN 0 ELSE failed[b]
            OBVIOUS
          <6> QED
            BY ONLY <6>1, <6>2, <6>3, <6>4
        <5>2. Count'[a] = Count[a] + 1
          BY <4>3, <4>5, <4>7
        <5>3. /\ Count = [b \in Account |-> Count[b]]
              /\ Count' = [b \in Account |-> Count'[b]]
          OBVIOUS
        <5> HIDE DEF Count
        <5> QED
          BY ONLY <5>1, <5>2, <5>3
      <4>9. Full' = IF Count[a] + 1 = MaxFailed THEN Full \cup {a} ELSE Full
        BY <4>1, <4>3, <4>6, <4>7
      <4>10. a \in live \ Full
        BY <4>1, <4>7
      <4> QED
        BY <4>3, <4>8, <4>9, <4>10 DEF Policy!WrongPassword
    <3> QED
      BY <3>2, PolicyMove
  <2>6. CASE LockAccount(w)
    BY <2>6 DEF LockAccount, SetLocked, Respond, Goto, At
  <2>7. CASE ResetFailedAttempts(w)
    <3>1. PICK a \in Account : a = tgt[w]
      BY <2>7 DEF ResetFailedAttempts, At
    <3>2. Policy!RightPassword(a)
      <4>1. /\ a \in live \ locked /\ tgt' = tgt
            /\ pc[w] = "login_reset" /\ pc'[w] = "session_create"
        BY <3>1, <2>7 DEF ResetFailedAttempts, Advance, Goto, At
      <4>2. \A v \in Worker \ {w} : tgt[v] # a /\ pc'[v] = pc[v]
        BY <3>1, <2>7 DEF ResetFailedAttempts, Advance, Goto
      <4>3. /\ failed' = [failed EXCEPT ![a] = 0]
            /\ UNCHANGED <<live, name, password, locked, sessions, expired, drawn>>
        BY <3>1, <4>1, <2>7 DEF ResetFailedAttempts, SetFailed
      <4>4. \A b \in Account : ResetPending(b)' <=> ResetPending(b)
        BY <4>1, <4>2
      <4>5. \A b \in Account : LockPending(b)' <=> LockPending(b)
        BY <4>1, <4>2
      <4>6. ~LockPending(a)
        BY <4>1, <4>2
      <4>7. Count' = [Count EXCEPT ![a] = 0]
        <5>1. ASSUME NEW b \in Account, b # a PROVE Count'[b] = Count[b]
          <6>1. ResetPending(b)' <=> ResetPending(b)
            BY <5>1, <4>4
          <6>2. failed'[b] = failed[b]
            BY <5>1, <4>3
          <6>3. Count'[b] = IF ResetPending(b)' THEN 0 ELSE failed'[b]
            OBVIOUS
          <6>4. Count[b] = IF ResetPending(b) THEN 0 ELSE failed[b]
            OBVIOUS
          <6> QED
            BY ONLY <6>1, <6>2, <6>3, <6>4
        <5>2. Count'[a] = 0
          BY <4>3, <4>4
        <5>3. /\ Count = [b \in Account |-> Count[b]]
              /\ Count' = [b \in Account |-> Count'[b]]
          OBVIOUS
        <5> HIDE DEF Count
        <5> QED
          BY ONLY <5>1, <5>2, <5>3
      <4>8. Full' = Full /\ a \in live \ Full
        BY <4>1, <4>3, <4>5, <4>6
      <4> QED
        BY <4>3, <4>7, <4>8 DEF Policy!RightPassword
    <3> QED
      BY <3>2, PolicyMove
  <2>8. CASE CreateSession(w)
    <3>1. PICK s \in Session \ drawn :
             InsertSession(s, tgt[w])
      BY <2>8 DEF CreateSession, At
    <3>2. tgt[w] \in Account /\ Policy!OpenSession(tgt[w], s)
      BY <3>1, <2>8 DEF CreateSession, InsertSession, Respond, Goto, At, tables, Policy!OpenSession
    <3> QED
      BY <3>2 DEF Policy!Next
  <2>9. CASE DropExpired(w)
    <3>1. CASE sid[w] \in Session
      <4>1. Policy!CloseSession(sid[w])
        BY <2>9 DEF DropExpired, DeleteSession, Respond, Goto, At, Policy!CloseSession
      <4> QED
        BY <3>1, <4>1 DEF Policy!Next
    <3>2. CASE sid[w] \notin Session
      BY <2>9, <3>2 DEF DropExpired, DeleteSession, Respond, Goto, At
    <3> QED
      BY <3>1, <3>2
  <2>10. CASE Touch(w)
    BY <2>10 DEF Touch, TouchSession, Advance, Goto, At
  <2>11. CASE LoadAccount(w)
    BY <2>11 DEF LoadAccount, Respond, Advance, Goto, At, tables
  <2>12. CASE RespondOnly(w)
    BY <2>12 DEF RespondOnly, Respond, Goto, At, tables
  <2>13. CASE Logout(w)
    <3>1. CASE sid[w] \in Session
      <4>1. Policy!CloseSession(sid[w])
        BY <2>13 DEF Logout, DeleteSession, Respond, Goto, At, Policy!CloseSession
      <4> QED
        BY <3>1, <4>1 DEF Policy!Next
    <3>2. CASE sid[w] \notin Session
      BY <2>13, <3>2 DEF Logout, DeleteSession, Respond, Goto, At
    <3> QED
      BY <3>1, <3>2
  <2>14. CASE CreateAccount(w)
    <3>1. PICK a \in Account \ drawn, n \in Username, p \in Password :
             (\A b \in live : name[b] # n) /\ InsertAccount(a, n, p)
      BY <2>14 DEF CreateAccount, At
    <3>2. Policy!Create(a, n, p)
      <4>1. pc[w] = "handler" /\ pc'[w] = "idle"
        BY <2>14 DEF CreateAccount, Respond, Goto, At
      <4>2. \A v \in Worker \ {w} : pc'[v] = pc[v] /\ tgt'[v] = tgt[v]
        BY <2>14 DEF CreateAccount, Respond, Goto
      <4>3. \A b \in Account : LockPending(b)' <=> LockPending(b)
        BY <4>1, <4>2
      <4>4. \A b \in Account : ResetPending(b)' <=> ResetPending(b)
        BY <4>1, <4>2
      <4>5. ~LockPending(a) /\ ~ResetPending(a)
        BY <3>1 DEF CrossedInv
      <4>6. Count' = [Count EXCEPT ![a] = 0]
        <5>1. ASSUME NEW b \in Account, b # a PROVE Count'[b] = Count[b]
          <6>1. ResetPending(b)' <=> ResetPending(b)
            BY <5>1, <4>4
          <6>2. failed'[b] = failed[b]
            BY <5>1, <3>1 DEF InsertAccount
          <6>3. Count'[b] = IF ResetPending(b)' THEN 0 ELSE failed'[b]
            OBVIOUS
          <6>4. Count[b] = IF ResetPending(b) THEN 0 ELSE failed[b]
            OBVIOUS
          <6> QED
            BY ONLY <6>1, <6>2, <6>3, <6>4
        <5>2. Count'[a] = 0
          BY <3>1, <4>4, <4>5 DEF InsertAccount
        <5>3. /\ Count = [b \in Account |-> Count[b]]
              /\ Count' = [b \in Account |-> Count'[b]]
          OBVIOUS
        <5> HIDE DEF Count
        <5> QED
          BY ONLY <5>1, <5>2, <5>3
      <4>7. Full' = Full \ {a}
        BY <3>1, <4>3, <4>5 DEF InsertAccount
      <4> QED
        BY <3>1, <4>6, <4>7 DEF InsertAccount, Policy!Create
    <3> QED
      BY <3>2 DEF Policy!Next
  <2>15. CASE BeginUnlock(w)
    BY <2>15 DEF BeginUnlock, LoadMe, Goto, At, tables
  <2>16. CASE UnlockTarget(w)
    BY <2>16 DEF UnlockTarget, EnsureTarget, Respond, Advance, Goto, At, tables
  <2>17. CASE UnlockFlag(w)
    <3>1. PICK a \in Account : a = tgt[w]
      BY <2>17 DEF UnlockFlag, At
    <3>2. Policy!Unlock(a)
      <4>1. /\ a \in live /\ me[w] \in live /\ me[w] # a
            /\ pc[w] = "unlock_flag" /\ pc'[w] = "unlock_reset" /\ tgt'[w] = a
        BY <3>1, <2>17 DEF UnlockFlag, Advance, Goto, At
      <4>2. \A v \in Worker \ {w} : tgt[v] # a /\ pc'[v] = pc[v] /\ tgt'[v] = tgt[v]
        BY <3>1, <2>17 DEF UnlockFlag, Advance, Goto
      <4>3. /\ locked' = locked \ {a}
            /\ UNCHANGED <<live, name, password, failed, sessions, expired, drawn>>
        BY <3>1, <2>17 DEF UnlockFlag, SetLocked
      <4>4. \A b \in Account : ResetPending(b)' <=> ResetPending(b) \/ b = a
        BY <4>1, <4>2
      <4>5. \A b \in Account : LockPending(b)' <=> LockPending(b)
        BY <4>1, <4>2
      <4>6. ~LockPending(a)
        BY <4>1, <4>2
      <4>7. Count' = [Count EXCEPT ![a] = 0]
        <5>1. ASSUME NEW b \in Account, b # a PROVE Count'[b] = Count[b]
          <6>1. ResetPending(b)' <=> ResetPending(b)
            BY <5>1, <4>4
          <6>2. failed'[b] = failed[b]
            BY <5>1, <4>3
          <6>3. Count'[b] = IF ResetPending(b)' THEN 0 ELSE failed'[b]
            OBVIOUS
          <6>4. Count[b] = IF ResetPending(b) THEN 0 ELSE failed[b]
            OBVIOUS
          <6> QED
            BY ONLY <6>1, <6>2, <6>3, <6>4
        <5>2. Count'[a] = 0
          BY <4>3, <4>4
        <5>3. /\ Count = [b \in Account |-> Count[b]]
              /\ Count' = [b \in Account |-> Count'[b]]
          OBVIOUS
        <5> HIDE DEF Count
        <5> QED
          BY ONLY <5>1, <5>2, <5>3
      <4>8. Full' = Full \ {a}
        BY <4>3, <4>5, <4>6
      <4> QED
        BY <4>1, <4>3, <4>7, <4>8 DEF Policy!Unlock
    <3> QED
      BY <3>2, PolicyMove
  <2>18. CASE UnlockReset(w)
    BY <2>18 DEF UnlockReset, SetFailed, Respond, Goto, At
  <2>19. CASE BeginPassword(w)
    BY <2>19 DEF BeginPassword, LoadMe, Goto, At, tables
  <2>20. CASE PasswordTarget(w)
    BY <2>20 DEF PasswordTarget, Respond, Advance, Goto, At, tables
  <2>21. CASE PasswordWrite(w)
    <3>1. PICK p \in Password :
             SetPassword(tgt[w], p)
      BY <2>21 DEF PasswordWrite, At
    <3>2. tgt[w] \in Account /\ Policy!SetPassword(tgt[w], p)
      BY <3>1, <2>21 DEF PasswordWrite, SetPassword, Respond, Goto, At, Policy!SetPassword
    <3> QED
      BY <3>2 DEF Policy!Next
  <2>22. CASE BeginDelete(w)
    BY <2>22 DEF BeginDelete, LoadMe, Goto, At, tables
  <2>23. CASE DeleteTarget(w)
    BY <2>23 DEF DeleteTarget, EnsureTarget, Respond, Advance, Goto, At, tables
  <2>24. CASE DeleteCount(w)
    BY <2>24 DEF DeleteCount, Respond, Advance, Goto, At, tables
  <2>25. CASE DeleteRow(w)
    <3>1. PICK a \in Account : a = tgt[w]
      BY <2>25 DEF DeleteRow, At
    <3>2. Policy!Delete(a)
      <4>1. /\ a \in live /\ me[w] \in live /\ me[w] # a
            /\ pc[w] = "delete_row" /\ pc'[w] = "idle"
        BY <3>1, <2>25 DEF DeleteRow, Respond, Goto, At
      <4>2. \A v \in Worker \ {w} : tgt[v] # a /\ pc'[v] = pc[v] /\ tgt'[v] = tgt[v]
        BY <3>1, <2>25 DEF DeleteRow, Respond, Goto
      <4>3. DeleteAccount(a)
        BY <3>1, <2>25 DEF DeleteRow
      <4>4. \A b \in Account : ResetPending(b)' <=> ResetPending(b)
        BY <4>1, <4>2
      <4>5. \A b \in Account : LockPending(b)' <=> LockPending(b)
        BY <4>1, <4>2
      <4>6. ~LockPending(a)
        BY <4>1, <4>2
      <4>7. Count' = [Count EXCEPT ![a] = 0]
        <5>1. ASSUME NEW b \in Account, b # a PROVE Count'[b] = Count[b]
          <6>1. ResetPending(b)' <=> ResetPending(b)
            BY <5>1, <4>4
          <6>2. failed'[b] = failed[b]
            BY <5>1, <4>3 DEF DeleteAccount
          <6>3. Count'[b] = IF ResetPending(b)' THEN 0 ELSE failed'[b]
            OBVIOUS
          <6>4. Count[b] = IF ResetPending(b) THEN 0 ELSE failed[b]
            OBVIOUS
          <6> QED
            BY ONLY <6>1, <6>2, <6>3, <6>4
        <5>2. Count'[a] = 0
          BY <4>3, <4>4 DEF DeleteAccount
        <5>3. /\ Count = [b \in Account |-> Count[b]]
              /\ Count' = [b \in Account |-> Count'[b]]
          OBVIOUS
        <5> HIDE DEF Count
        <5> QED
          BY ONLY <5>1, <5>2, <5>3
      <4>8. Full' = Full \ {a}
        BY <4>3, <4>5, <4>6 DEF DeleteAccount
      <4>9. live # {a}
        BY <4>1
      <4>10. /\ name' \in [Account -> Username]
             /\ \A b \in live' : name'[b] = name[b]
             /\ password' \in [Account -> Password]
             /\ \A b \in live' : password'[b] = password[b]
        BY <4>3 DEF DeleteAccount
      <4> QED
        BY <4>1, <4>3, <4>7, <4>8, <4>9, <4>10 DEF DeleteAccount, Policy!Delete
    <3> QED
      BY <3>2, PolicyMove
  <2> QED
    BY <1>3, <2>1, <2>2, <2>3, <2>4, <2>5, <2>6, <2>7, <2>8, <2>9, <2>10,
       <2>11, <2>12, <2>13, <2>14, <2>15, <2>16, <2>17, <2>18, <2>19,
       <2>20, <2>21, <2>22, <2>23, <2>24, <2>25 DEF Arrive, Serve
<1> QED
  BY <1>1, <1>2, <1>3 DEF Next

LEMMA PolicyInit == Init => Policy!Init
<1> SUFFICES ASSUME Init PROVE Policy!Init
  OBVIOUS
<1>1. \A a \in Account : ~LockPending(a) /\ ~ResetPending(a)
  BY DEF Init, LockPending, ResetPending
<1> QED
  BY <1>1, SeedAssumption DEF Init, Policy!Init

(* However many requests interleave, every step of a request that met no    *)
(* other on a row it relies on is a step of AccountPolicy: each handler of  *)
(* app/admin, several calls long, does what one indivisible operation does. *)
THEOREM UncrossedImplementPolicy == Spec => ImplementsPolicy
<1>1. Init => TypeOK /\ SafetyInv /\ RowsAsRead /\ CrossedInv
  BY InitInv
<1>2. TypeOK /\ SafetyInv /\ RowsAsRead /\ CrossedInv /\ [Next]_vars
        => TypeOK' /\ SafetyInv' /\ RowsAsRead' /\ CrossedInv'
  BY TypeStep, SafetyStep, RowsAsReadStep, CrossedStep
<1>3. TypeOK /\ SafetyInv /\ RowsAsRead /\ CrossedInv /\ [Next]_vars
        => [Policy!Next \/ CrossedMoves]_(Policy!vars)
  BY PolicyStep
<1> QED
  BY <1>1, <1>2, <1>3, PolicyInit, PTL DEF Spec, ImplementsPolicy

(* What a request read of a row is still so at its next call, unless        *)
(* another request worked on that row, or on the account the request acts   *)
(* for, meanwhile: the row is there, unlocked, as full of wrong passwords   *)
(* as it was, with the password that was verified.                          *)
THEOREM UncrossedRowsAsRead == Spec => []RowsAsRead
<1>1. Init => TypeOK /\ SafetyInv /\ RowsAsRead /\ CrossedInv
  BY InitInv
<1>2. TypeOK /\ SafetyInv /\ RowsAsRead /\ CrossedInv /\ [Next]_vars
        => TypeOK' /\ SafetyInv' /\ RowsAsRead' /\ CrossedInv'
  BY TypeStep, SafetyStep, RowsAsReadStep, CrossedStep
<1> QED
  BY <1>1, <1>2, PTL DEF Spec

(* The last account goes only if two deletes were past delete_account's     *)
(* count at once: no other interleaving of any number of requests, and no   *)
(* restart, leaves the table empty.                                         *)
THEOREM LastAdminAlwaysKept == CrashSpec => []LastAdminKept
<1>1. Init => TypeOK /\ LastInv
  BY InitInv
<1>2. TypeOK /\ LastInv /\ [Next \/ Restart]_vars => TypeOK' /\ LastInv'
  BY TypeStep, LastStep
<1>3. TypeOK /\ LastInv => LastAdminKept
  BY DEF TypeOK, LastInv, LastAdminKept
<1> QED
  BY <1>1, <1>2, <1>3, PTL DEF CrashSpec
=============================================================================
