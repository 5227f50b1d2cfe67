-------------------------- MODULE ReconnectPolicy ---------------------------
(***************************************************************************)
(* How long the device waits before it tries the relay again: the delay    *)
(* arithmetic of schedule_reconnect in hyperwisor_ws.c, in the 32-bit ints *)
(* of the target, and the handlers that move s_reconnect_attempt and       *)
(* s_auth_rejected.  WsClient models the same handlers for what they do to *)
(* the client object and leaves the length of the wait open.               *)
(*                                                                         *)
(* HYPERWISOR_WS_RECONNECT_MS is 5000 = 625 * 8, so base << n is kept in   *)
(* units of 8 ms, exactly, modulo 2^29; half of it is a number of 4 ms     *)
(* units, and so are the delays.                                           *)
(***************************************************************************)
EXTENDS Integers

CONSTANT MaxAttempt   \* bound: connections are not ended past this count

ASSUME MaxAttemptAssumption == MaxAttempt \in Nat

VARIABLES
    s_reconnect_attempt,
    s_auth_rejected,
    s_authenticated,
    phase,               \* "connecting", "open", or "waiting" for the backoff
    delay                \* the wait scheduled last, in units of 4 ms

vars == <<s_reconnect_attempt, s_auth_rejected, s_authenticated, phase, delay>>

Base == 625         \* HYPERWISOR_WS_RECONNECT_MS
Cap  == 7500        \* HYPERWISOR_WS_RECONNECT_MAX_MS
AuthRetry == 1250   \* HYPERWISOR_WS_AUTH_RETRY_MS, in units of 4 ms
Second    == 250    \* the jitter on it

Words == 2^29       \* 2^32 ms
AsInt(w) == IF w >= Words \div 2 THEN w - Words ELSE w

\* base << n on a 32-bit word; the shifter looks at five bits of n.
Doubled[n \in 0..31] == IF n = 0 THEN Base ELSE (2 * Doubled[n - 1]) % Words
Shifted(n) == AsInt(Doubled[n % 32])

\* Mutant: the cap is compared before the shift.
Target_CapFirst(n) == Shifted(n)

Target(n) == IF Shifted(n) > Cap THEN Cap ELSE Shifted(n)

MostOf(width) == IF width > 0 THEN 2 * width - 1 ELSE Words - 1

\* The ends of target / 2 + (int)(esp_random() % (unsigned)target).  A negative
\* target is a huge unsigned width, clipped here at the largest int; a zero one
\* traps on Xtensa and yields any int on RISC-V.
Delays(target) ==
    IF target = 0 THEN {0 - Words, Words - 1}
                  ELSE {target, target + MostOf(target)}

TypeOK ==
    /\ s_reconnect_attempt \in 0..MaxAttempt
    /\ s_auth_rejected \in BOOLEAN
    /\ s_authenticated \in BOOLEAN
    /\ phase \in {"connecting", "open", "waiting"}
    /\ delay \in Int

Init ==
    /\ s_reconnect_attempt = 0
    /\ s_auth_rejected = FALSE
    /\ s_authenticated = FALSE
    /\ phase = "connecting"
    /\ delay = 0
-----------------------------------------------------------------------------
\* WEBSOCKET_EVENT_CONNECTED.
Connected ==
    /\ phase = "connecting"
    /\ phase' = "open"
    /\ s_reconnect_attempt' = 0
    /\ s_authenticated' = FALSE
    /\ UNCHANGED <<s_auth_rejected, delay>>

AuthOk ==
    /\ phase = "open" /\ ~s_authenticated
    /\ s_authenticated' = TRUE
    /\ s_auth_rejected' = FALSE
    /\ UNCHANGED <<s_reconnect_attempt, phase, delay>>

AuthFail ==
    /\ phase = "open" /\ ~s_authenticated
    /\ s_auth_rejected' = TRUE
    /\ UNCHANGED <<s_reconnect_attempt, s_authenticated, phase, delay>>

\* Mutant: a refused device steps back instead of starting over.
RetrySoon_StepsBack ==
    /\ s_auth_rejected
    /\ delay' \in {AuthRetry, AuthRetry + Second - 1}
    /\ s_reconnect_attempt' = s_reconnect_attempt - 1

\* The two cases of schedule_reconnect.
RetrySoon ==
    /\ s_auth_rejected
    /\ delay' \in {AuthRetry, AuthRetry + Second - 1}
    /\ s_reconnect_attempt' = 0

BackOff ==
    /\ ~s_auth_rejected
    /\ s_reconnect_attempt < MaxAttempt
    /\ delay' \in Delays(Target(s_reconnect_attempt))
    /\ s_reconnect_attempt' = s_reconnect_attempt + 1

\* DISCONNECTED or CLOSED, from an open socket or from a connect that failed.
schedule_reconnect ==
    /\ phase \in {"connecting", "open"}
    /\ phase' = "waiting"
    /\ s_authenticated' = FALSE
    /\ RetrySoon \/ BackOff
    /\ UNCHANGED s_auth_rejected

\* hyperwisor_ws_reconnect_due: the core task starts the next client.
Reconnect ==
    /\ phase = "waiting"
    /\ phase' = "connecting"
    /\ UNCHANGED <<s_reconnect_attempt, s_auth_rejected, s_authenticated, delay>>

Restart ==
    /\ s_reconnect_attempt' = 0
    /\ s_auth_rejected' = FALSE
    /\ s_authenticated' = FALSE
    /\ phase' = "connecting"
    /\ delay' = 0

Next == Connected \/ AuthOk \/ AuthFail \/ schedule_reconnect \/ Reconnect \/ Restart

Spec == Init /\ [][Next]_vars
-----------------------------------------------------------------------------
(* Properties.                                                             *)

\* README, Connection behaviour: "5s, 10s, 20s, 40s, capped at 60s", each retry
\* in a window as wide as the wait, around it; 5 s flat after a rejection.
DocumentedWait(n) == IF n < 4 THEN 1250 * 2^n ELSE 15000

\* ws.c:208-248: the code's integers compute the documented schedule.
WaitAsDocumented ==
    phase = "waiting" =>
        IF s_reconnect_attempt = 0
        THEN AuthRetry <= delay /\ delay < AuthRetry + Second
        ELSE LET wait == DocumentedWait(s_reconnect_attempt - 1)
             IN  wait <= 2 * delay /\ 2 * delay < 3 * wait

\* README and CHANGELOG 0.5.0: only auth_ok resets the backoff.  A connection
\* that ends without it, and without a rejection, never shortens the wait: the
\* windows of equal or growing waits allow a factor of three, no more.
OnlyAuthOkResets ==
    [][ schedule_reconnect /\ ~s_authenticated /\ ~s_auth_rejected
          => 3 * delay' >= delay ]_vars
=============================================================================
