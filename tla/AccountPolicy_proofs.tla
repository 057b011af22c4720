------------------------ MODULE AccountPolicy_proofs ------------------------
(* What AccountPolicy guarantees, for any accounts and sessions. *)
EXTENDS AccountPolicy, TLAPS

\* What the server gives the policy: MAX_FAILED_ATTEMPTS is 6, no id is null.
Parameters == MaxFailed \in Nat \ {0} /\ NoAccount \notin Account

Inv == TypeOK /\ LockedExactlyAtMax /\ SomeAdmin /\ SessionsOwned

LEMMA InvStep == ASSUME Parameters, Inv, [Next]_vars PROVE Inv'
<1> USE DEF Parameters, Inv, TypeOK, LockedExactlyAtMax, SomeAdmin, SessionsOwned
<1>1. ASSUME NEW a \in Account, WrongPassword(a) PROVE Inv'
  BY <1>1 DEF WrongPassword
<1>2. ASSUME NEW a \in Account, RightPassword(a) PROVE Inv'
  BY <1>2 DEF RightPassword
<1>3. ASSUME NEW a \in Account, Unlock(a) PROVE Inv'
  BY <1>3 DEF Unlock
<1>4. ASSUME NEW a \in Account, Delete(a) PROVE Inv'
  BY <1>4 DEF Delete
<1>5. ASSUME NEW a \in Account, NEW s \in Session, OpenSession(a, s) PROVE Inv'
  BY <1>5 DEF OpenSession
<1>6. ASSUME NEW a \in Account, NEW p \in Password, SetPassword(a, p) PROVE Inv'
  BY <1>6 DEF SetPassword
<1>7. ASSUME NEW a \in Account, NEW n \in Username, NEW p \in Password,
             Create(a, n, p)
      PROVE  Inv'
  BY <1>7 DEF Create
<1>8. ASSUME NEW s \in Session, CloseSession(s) PROVE Inv'
  BY <1>8 DEF CloseSession
<1>9. CASE UNCHANGED vars
  BY <1>9 DEF vars
<1> QED
  BY <1>1, <1>2, <1>3, <1>4, <1>5, <1>6, <1>7, <1>8, <1>9 DEF Next

(* The count stops at MAX_FAILED_ATTEMPTS and the account is locked exactly *)
(* there; there is always an administrator; a session's account exists.     *)
THEOREM PolicyKept ==
    ASSUME Parameters
    PROVE  Spec => [](TypeOK /\ LockedExactlyAtMax /\ SomeAdmin /\ SessionsOwned)
<1>1. Init => Inv
  BY DEF Parameters, Init, Inv, TypeOK, LockedExactlyAtMax, SomeAdmin, SessionsOwned
<1>2. Inv /\ [Next]_vars => Inv'
  BY InvStep
<1> QED
  BY <1>1, <1>2, PTL DEF Spec, Inv
=============================================================================
