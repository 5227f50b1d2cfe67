----------------------- MODULE ReconnectPolicyProofs ------------------------
(***************************************************************************)
(* Proofs about ReconnectPolicy, for any number of attempts.               *)
(***************************************************************************)
EXTENDS ReconnectPolicy, TLAPS

\* What 625 doubled n times leaves in 29 bits.
Doublings ==
    <<625, 1250, 2500, 5000, 10000, 20000, 40000, 80000, 160000, 320000, 640000,
      1280000, 2560000, 5120000, 10240000, 20480000, 40960000, 81920000,
      163840000, 327680000, 118489088, 236978176, 473956352, 411041792,
      285212672, 33554432, 67108864, 134217728, 268435456, 0, 0, 0>>

\* The recursion defines a function: the list above is one that satisfies it.
LEMMA DoubledDef ==
    Doubled = [n \in 0..31 |-> IF n = 0 THEN Base ELSE (2 * Doubled[n - 1]) % Words]
<1> DEFINE f == [n \in 0..31 |-> Doublings[n + 1]]
<1>1. \A n \in 0..31 : f[n] = IF n = 0 THEN Base ELSE (2 * f[n - 1]) % Words
  BY SMT DEF Doublings, Base, Words
<1>2. f = [n \in 0..31 |-> IF n = 0 THEN Base ELSE (2 * f[n - 1]) % Words]
  BY <1>1
<1> QED
  BY <1>2 DEF Doubled

LEMMA DoubledValues == \A n \in 0..31 : Doubled[n] = Doublings[n + 1]
<1>1. Doubled[0] = Base /\ \A n \in 1..31 : Doubled[n] = (2 * Doubled[n - 1]) % Words
  BY SMT, DoubledDef
<1> QED
  BY SMT, <1>1 DEF Doublings, Base, Words

\* Up to the nineteenth in a row no doubling leaves the positive integers, and
\* from the fourth on each is over the cap.
LEMMA ShiftedInRange ==
    /\ Shifted(0) = Base /\ Shifted(1) = 2 * Base
    /\ Shifted(2) = 4 * Base /\ Shifted(3) = 8 * Base
    /\ \A n \in 4..18 : Shifted(n) > Cap
<1>1. \A n \in 0..31 : n % 32 = n
  BY SMT
<1>2. \A n \in 0..18 : Shifted(n) = Doublings[n + 1]
  <2> TAKE n \in 0..18
  <2>1. Doublings[n + 1] \in Nat /\ Doublings[n + 1] < Words \div 2
    BY SMT DEF Doublings, Words
  <2>2. Shifted(n) = AsInt(Doublings[n + 1])
    BY <1>1, DoubledValues DEF Shifted
  <2>3. AsInt(Doublings[n + 1]) = Doublings[n + 1]
    BY SMT, <2>1 DEF AsInt, Words
  <2> QED
    BY <2>2, <2>3
<1> QED
  BY SMT, <1>2 DEF Doublings, Base, Cap
-----------------------------------------------------------------------------
(* The wait.                                                               *)

\* Half of it and a random part as wide as the whole: the documented window.
LEMMA DelaysAsDocumented ==
    ASSUME NEW n \in 0..18, NEW d \in Delays(Target(n))
    PROVE  /\ DocumentedWait(n) <= 2 * d
           /\ 2 * d < 3 * DocumentedWait(n)
<1>1. /\ 2 * Target(n) = DocumentedWait(n)
      /\ Target(n) \in Nat /\ Target(n) > 0
  <2>1. CASE n \in 0..3
    <3>1. /\ DocumentedWait(0) = 1250 /\ DocumentedWait(1) = 2500
          /\ DocumentedWait(2) = 5000 /\ DocumentedWait(3) = 10000
      BY SMT DEF DocumentedWait
    <3>2. /\ Target(0) = 625 /\ Target(1) = 1250
          /\ Target(2) = 2500 /\ Target(3) = 5000
      BY SMT, ShiftedInRange DEF Target, Base, Cap
    <3>3. n = 0 \/ n = 1 \/ n = 2 \/ n = 3
      BY SMT, <2>1
    <3> QED
      BY SMT, <3>1, <3>2, <3>3
  <2>2. CASE n \in 4..18
    <3>1. Shifted(n) > Cap
      BY <2>2, ShiftedInRange
    <3>2. Target(n) = 7500
      BY <3>1 DEF Target, Cap
    <3> QED
      BY SMT, <2>2, <3>2 DEF DocumentedWait
  <2> QED
    BY SMT, <2>1, <2>2
<1>2. Delays(Target(n)) = {Target(n), Target(n) + 2 * Target(n) - 1}
  BY SMT, <1>1 DEF Delays, MostOf
<1> QED
  BY SMT, <1>1, <1>2

\* A delay is an int, also where the shift has overflowed.
LEMMA DelaysAreInts ==
    ASSUME NEW n \in Nat
    PROVE  Delays(Target(n)) \subseteq Int
<1>1. n % 32 \in 0..31
  BY SMT
<1>2. \A m \in 0..31 : Doubled[m] \in Int
  BY SMT, DoubledValues DEF Doublings
<1>3. Shifted(n) \in Int
  BY SMT, <1>1, <1>2 DEF Shifted, AsInt, Words
<1>4. Target(n) \in Int
  BY SMT, <1>3 DEF Target, Cap
<1> QED
  BY SMT, <1>4 DEF Delays, MostOf, Words

\* The numbers, which are SMT's, and the flags, which are Zenon's.
Numbers == s_reconnect_attempt \in 0..MaxAttempt /\ delay \in Int
Flags ==
    /\ s_auth_rejected \in BOOLEAN /\ s_authenticated \in BOOLEAN
    /\ phase \in {"connecting", "open", "waiting"}

LEMMA NumbersStep == Numbers /\ [Next]_vars => Numbers'
<1> SUFFICES ASSUME Numbers, [Next]_vars PROVE Numbers'
  OBVIOUS
<1>1. 0 \in 0..MaxAttempt
  BY MaxAttemptAssumption
<1>2. CASE schedule_reconnect /\ RetrySoon
  BY <1>1, <1>2 DEF RetrySoon, Numbers, AuthRetry, Second
<1>3. CASE schedule_reconnect /\ BackOff
  <2>1. delay' \in Int
    BY <1>3, MaxAttemptAssumption, DelaysAreInts DEF BackOff, Numbers
  <2>2. s_reconnect_attempt' \in 0..MaxAttempt
    BY <1>3, MaxAttemptAssumption DEF BackOff, Numbers
  <2> QED
    BY <2>1, <2>2 DEF Numbers
<1>4. CASE Connected \/ AuthOk \/ AuthFail
  BY <1>1, <1>4 DEF Connected, AuthOk, AuthFail, Numbers
<1>5. CASE Reconnect \/ Restart \/ UNCHANGED vars
  BY <1>1, <1>5 DEF Reconnect, Restart, vars, Numbers
<1> QED
  BY <1>2, <1>3, <1>4, <1>5 DEF Next, schedule_reconnect

LEMMA FlagsStep == Flags /\ [Next]_vars => Flags'
  BY Zenon DEF Flags, Next, Connected, AuthOk, AuthFail, schedule_reconnect,
     Reconnect, Restart, vars

LEMMA TypeInit == Init => Numbers /\ Flags
<1> SUFFICES ASSUME Init PROVE Numbers /\ Flags
  OBVIOUS
<1>1. Numbers
  BY MaxAttemptAssumption DEF Init, Numbers
<1>2. Flags
  BY Zenon DEF Init, Flags
<1> QED
  BY <1>1, <1>2

LEMMA TypeParts == TypeOK <=> Numbers /\ Flags
  BY Zenon DEF TypeOK, Numbers, Flags

\* The count stays within its bound, and the delay an int, whatever is shifted.
THEOREM TypeCorrect == Spec => []TypeOK
  BY TypeInit, NumbersStep, FlagsStep, TypeParts, PTL DEF Spec

WaitInv == s_reconnect_attempt <= 19 => WaitAsDocumented

LEMMA WaitStep == TypeOK /\ WaitInv /\ [Next]_vars => WaitInv'
<1> SUFFICES ASSUME TypeOK, WaitInv, [Next]_vars,
                    phase' = "waiting", s_reconnect_attempt' <= 19
             PROVE  WaitAsDocumented'
  BY DEF WaitInv, WaitAsDocumented
<1>1. CASE schedule_reconnect /\ RetrySoon
  <2>1. s_reconnect_attempt' = 0 /\ delay' \in {AuthRetry, AuthRetry + Second - 1}
    BY <1>1 DEF RetrySoon
  <2> QED
    BY SMT, <2>1 DEF WaitAsDocumented, AuthRetry, Second
<1>2. CASE schedule_reconnect /\ BackOff
  <2> DEFINE n == s_reconnect_attempt
  <2>1. n \in 0..18 /\ n' = n + 1
    BY <1>2, MaxAttemptAssumption DEF BackOff, TypeOK
  <2>2. delay' \in Delays(Target(n))
    BY <1>2 DEF BackOff
  <2>3. /\ DocumentedWait(n) <= 2 * delay'
        /\ 2 * delay' < 3 * DocumentedWait(n)
    BY <2>1, <2>2, DelaysAsDocumented
  <2>4. n' # 0 /\ n' - 1 = n
    BY <2>1
  <2> QED
    BY <2>3, <2>4 DEF WaitAsDocumented
<1>3. CASE UNCHANGED vars
  BY <1>3 DEF vars, WaitInv, WaitAsDocumented
<1>4. CASE Connected \/ AuthOk \/ AuthFail \/ Reconnect \/ Restart
  BY <1>4 DEF Connected, AuthOk, AuthFail, Reconnect, Restart
<1> QED
  BY <1>1, <1>2, <1>3, <1>4 DEF Next, schedule_reconnect

\* ws.c:208-248: however long a device fails and whatever it is told, each of the
\* first nineteen waits in a row lies in the documented window; the twentieth
\* does not (run retry_overflow).
THEOREM WaitAsDocumentedToNineteen ==
    Spec => [](s_reconnect_attempt <= 19 => WaitAsDocumented)
<1>1. Init => WaitInv
  BY DEF Init, WaitInv, WaitAsDocumented
<1>2. Spec => []WaitInv
  BY <1>1, WaitStep, TypeCorrect, PTL DEF Spec
<1> QED
  BY <1>2 DEF WaitInv
=============================================================================
