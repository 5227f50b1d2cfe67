--------------------------- MODULE WsClientProofs ---------------------------
(***************************************************************************)
(* Proofs about WsClient, for any set of client objects, with or without   *)
(* security, and for every interleaving of the tasks.                      *)
(***************************************************************************)
EXTENDS WsClient, TLAPS

\* An owner about to clear the global has nothing left to lose by it.
ClearLosesNothing ==
    \A t \in Owners :
        pc[t] = "clear" /\ s_ws_client # NULL => client[s_ws_client] = "free"

\* While the event task tears down, ip_ready is low, so a core task that has
\* already passed the ip_ready test still finds the old handle in place.  This
\* is what keeps the two owners' clears away from a new client.
NoCreateDuringTeardown ==
    pc["evt"] # "rest" =>
        /\ ~ip_ready
        /\ pc["core"] = "create" => s_ws_client # NULL

\* A task runs only on an object that exists, and a connection, or an attempt
\* at one, exists only while its task runs.
TaskHasObject == \A h \in Handles : running[h] # "no" => client[h] # "free"
ConnectionHasTask ==
    \A h \in Handles :
        client[h] \in {"connecting", "open", "lost"} => running[h] # "no"

\* Between the store of a new object and its start, nobody has started it.
NotYetStarted ==
    pc["core"] = "start" /\ s_ws_client # NULL =>
        client[s_ws_client] \in {"idle", "free"} /\ running[s_ws_client] = "no"

\* Frames travel on open sockets only, and auth_ok on accepted ones only.
FramesOnOpenSockets ==
    \A h \in Handles : client[h] # "open" => inbox[h] = "none"
AuthOkIsEarned ==
    \A h \in Handles : inbox[h] = "auth_ok" => session[h] = "accepted"

OwnerInv ==
    /\ TypeOK /\ OneClient
    /\ ClearLosesNothing /\ NoCreateDuringTeardown
    /\ TaskHasObject /\ ConnectionHasTask /\ NotYetStarted

\* A request for a teardown that arrives after this tick's service finds the
\* backoff window open, so this tick creates no client for it to hit.
LateRequestWaits ==
    s_teardown_pending =>
        /\ pc["core"] \in {"stop", "stopping", "destroy", "clear", "check", "create"}
              => ~reconnect_due
        /\ pc["core"] # "start"

TeardownInv == LateRequestWaits /\ TeardownHitsDeadClient /\ DeadClientScheduled

GateInv == FramesOnOpenSockets /\ AuthOkIsEarned /\ GateTruthful
-----------------------------------------------------------------------------
(* Type correctness.                                                       *)

USE DEF flags, retry, relay, library, tasks, world, Owners, Tasks, ClientStates,
        SessionStates, Frames, Points, Goto, Hold

LEMMA TypeInit == Init => TypeOK
<1> SUFFICES ASSUME Init PROVE TypeOK
  OBVIOUS
<1>1. \A t \in Tasks : pc[t] = "rest"
  BY DEF Init
<1>2. QED
  BY <1>1 DEF Init, TypeOK

LEMMA TypeStep == TypeOK /\ [Next]_vars => TypeOK'
<1> SUFFICES ASSUME TypeOK, [Next]_vars PROVE TypeOK'
  OBVIOUS
<1> USE ConstantsAssumption DEF TypeOK
<1>1. CASE CoreService
  BY <1>1 DEF CoreService
<1>2. CASE CoreCheck
  BY <1>2 DEF CoreCheck
<1>3. CASE CoreCreate
  BY <1>3 DEF CoreCreate
<1>4. CASE CoreStart
  BY <1>4 DEF CoreStart
<1>5. CASE CoreReport
  BY <1>5 DEF CoreReport
<1>6. CASE CoreClear
  BY <1>6 DEF CoreClear
<1>7. CASE EvtClear
  BY <1>7 DEF EvtClear
<1>8. CASE GotIp
  BY <1>8 DEF GotIp
<1>9. CASE AppSend
  BY <1>9 DEF AppSend
<1>10. CASE WifiLost
  BY <1>10 DEF WifiLost
<1>11. CASE BackoffExpires
  BY <1>11 DEF BackoffExpires
<1>12. CASE Restart
  BY <1>12 DEF Restart, Reset
<1>13. CASE Panic
  BY <1>13 DEF Panic, Reset
<1>14. CASE Settle
  BY <1>14 DEF Settle
<1>15. ASSUME NEW t \in Tasks, SendCall(t) PROVE TypeOK'
  BY <1>15 DEF SendCall
<1>16. ASSUME NEW t \in Tasks, SendReturn(t) PROVE TypeOK'
  BY <1>16 DEF SendReturn
<1>17. ASSUME NEW t \in Tasks, StopCall(t) PROVE TypeOK'
  BY <1>17 DEF StopCall
<1>18. ASSUME NEW t \in Tasks, StopReturn(t) PROVE TypeOK'
  BY <1>18 DEF StopReturn
<1>19. ASSUME NEW t \in Tasks, Destroy(t) PROVE TypeOK'
  BY <1>19 DEF Destroy
<1>20. ASSUME NEW h \in Handles, ConnectedFlag(h) PROVE TypeOK'
  BY <1>20 DEF ConnectedFlag, Iterates
<1>21. ASSUME NEW h \in Handles, ConnectedReset(h) PROVE TypeOK'
  <2>1. (ws_connected \/ ~s_hsc_enabled) \in BOOLEAN
    OBVIOUS
  <2>2. ws_connected' \in BOOLEAN
    BY <1>21, <2>1, Zenon DEF ConnectedReset
  <2>3. s_authenticated' \in BOOLEAN /\ in_connected' \in [Handles -> BOOLEAN]
    BY <1>21 DEF ConnectedReset
  <2>4. UNCHANGED <<s_ws_client, s_ws_connected, s_auth_rejected, retry, ip_ready,
                    client, running, relay, tasks, world>>
    BY <1>21 DEF ConnectedReset
  <2>5. QED
    BY <2>2, <2>3, <2>4
<1>22. ASSUME NEW h \in Handles, Data(h) PROVE TypeOK'
  <2>1. /\ inbox' \in [Handles -> Frames]
        /\ running' \in [Handles -> {"no", "yes", "last", "off"}]
    BY <1>22 DEF Data, Iterates
  <2>2. UNCHANGED <<s_ws_client, retry, ip_ready, client, in_connected, tasks, world>>
    BY <1>22 DEF Data
  <2>3. CASE UNCHANGED <<flags, session, pinged>>
    BY <2>1, <2>2, <2>3
  <2>4. CASE hsc_try_keepalive(h)
    <3>1. pinged' \in [Handles -> BOOLEAN]
      BY <2>4 DEF hsc_try_keepalive, ws_send_raw_json
    <3>2. UNCHANGED <<flags, session>>
      BY <2>4 DEF hsc_try_keepalive
    <3>3. QED
      BY <2>1, <2>2, <3>1, <3>2
  <2>5. CASE HandleChallenge(h) /\ UNCHANGED pinged
    BY <2>1, <2>2, <2>5 DEF HandleChallenge, ws_send_raw_json
  <2>6. CASE HandleAuthOk /\ UNCHANGED pinged
    BY <2>1, <2>2, <2>6 DEF HandleAuthOk
  <2>7. CASE HandleAuthFail /\ UNCHANGED pinged
    BY <2>1, <2>2, <2>7 DEF HandleAuthFail
  <2>8. QED
    BY <1>22, <2>3, <2>4, <2>5, <2>6, <2>7 DEF Data
<1>23. ASSUME NEW h \in Handles, Closed(h) PROVE TypeOK'
  BY <1>23 DEF Closed, Ended, schedule_reconnect
<1>24. ASSUME NEW h \in Handles, TaskExit(h) PROVE TypeOK'
  BY <1>24 DEF TaskExit, Ended
<1>25. ASSUME NEW h \in Handles, Disconnected(h) PROVE TypeOK'
  BY <1>25 DEF Disconnected, Iterates, Ended, schedule_reconnect
<1>26. ASSUME NEW h \in Handles, RelayChallenges(h) PROVE TypeOK'
  BY <1>26 DEF RelayChallenges, RelaySays, RelayFrame, Relays
<1>27. ASSUME NEW h \in Handles, RelayAccepts(h) PROVE TypeOK'
  BY <1>27 DEF RelayAccepts, RelaySays, RelayFrame, Relays
<1>28. ASSUME NEW h \in Handles, RelayRefuses(h) PROVE TypeOK'
  BY <1>28 DEF RelayRefuses, RelaySays, RelayFrame, Relays
<1>29. ASSUME NEW h \in Handles, RelayCloses(h) PROVE TypeOK'
  BY <1>29 DEF RelayCloses, RelaySays, RelayFrame, Relays
<1>30. ASSUME NEW h \in Handles, RelayCommands(h) PROVE TypeOK'
  BY <1>30 DEF RelayCommands, RelaySays, RelayFrame, Relays
<1>31. CASE UNCHANGED vars
  BY <1>31 DEF vars
<1>32. ASSUME NEW h \in Handles, RelayPings(h) PROVE TypeOK'
  BY <1>32 DEF RelayPings, RelayFrame, Relays
<1>33. QED
  BY <1>1, <1>2, <1>3, <1>4, <1>5, <1>6, <1>7, <1>8, <1>9, <1>10, <1>11, <1>12, <1>13, <1>14, <1>15, <1>16, <1>17, <1>18, <1>19, <1>20, <1>21, <1>22, <1>23, <1>24, <1>25, <1>26, <1>27, <1>28, <1>29, <1>30, <1>31, <1>32 DEF Next, Core, Evt, App, WsTask, Answers

\* The state of the client, of its tasks and of the relay keeps its type, and a
\* blocking call always works on an object.
THEOREM TypeCorrect == Spec => []TypeOK
  BY TypeInit, TypeStep, PTL DEF Spec
-----------------------------------------------------------------------------
(* One client.                                                             *)

LEMMA OwnerInit == Init => OwnerInv
<1> SUFFICES ASSUME Init PROVE OwnerInv
  OBVIOUS
<1>1. \A t \in Tasks : pc[t] = "rest"
  BY DEF Init
<1>2. QED
  BY <1>1, TypeInit DEF Init, OwnerInv, OneClient, ClearLosesNothing,
     NoCreateDuringTeardown, TaskHasObject, ConnectionHasTask, NotYetStarted

LEMMA OwnerStep == OwnerInv /\ [Next]_vars => OwnerInv'
<1> SUFFICES ASSUME OwnerInv, [Next]_vars PROVE OwnerInv'
  OBVIOUS
<1>0. TypeOK'
  BY TypeStep DEF OwnerInv
<1> USE <1>0, ConstantsAssumption DEF OwnerInv, TypeOK, OneClient, ClearLosesNothing,
     NoCreateDuringTeardown, TaskHasObject, ConnectionHasTask, NotYetStarted
<1>1. CASE CoreService
  BY <1>1 DEF CoreService
<1>2. CASE CoreCheck
  BY <1>2 DEF CoreCheck
<1>3. CASE CoreCreate
  BY <1>3 DEF CoreCreate
<1>4. CASE CoreStart
  BY <1>4 DEF CoreStart
<1>5. CASE CoreReport
  BY <1>5 DEF CoreReport
<1>6. CASE CoreClear
  BY <1>6 DEF CoreClear
<1>7. CASE EvtClear
  BY <1>7 DEF EvtClear
<1>8. CASE GotIp
  BY <1>8 DEF GotIp
<1>9. CASE AppSend
  BY <1>9 DEF AppSend
<1>10. CASE WifiLost
  BY <1>10 DEF WifiLost
<1>11. CASE BackoffExpires
  BY <1>11 DEF BackoffExpires
<1>12. CASE Restart
  BY <1>12 DEF Restart, Reset
<1>13. CASE Panic
  BY <1>13 DEF Panic, Reset
<1>14. CASE Settle
  BY <1>14 DEF Settle
<1>15. ASSUME NEW t \in Tasks, SendCall(t) PROVE OwnerInv'
  BY <1>15 DEF SendCall
<1>16. ASSUME NEW t \in Tasks, SendReturn(t) PROVE OwnerInv'
  BY <1>16 DEF SendReturn
<1>17. ASSUME NEW t \in Owners, StopCall(t) PROVE OwnerInv'
  BY <1>17 DEF StopCall
<1>18. ASSUME NEW t \in Owners, StopReturn(t) PROVE OwnerInv'
  BY <1>18 DEF StopReturn
<1>19. ASSUME NEW t \in Owners, Destroy(t) PROVE OwnerInv'
  BY <1>19 DEF Destroy
<1>20. ASSUME NEW h \in Handles, ConnectedFlag(h) PROVE OwnerInv'
  BY <1>20 DEF ConnectedFlag, Iterates
<1>21. ASSUME NEW h \in Handles, ConnectedReset(h) PROVE OwnerInv'
  BY <1>21 DEF ConnectedReset
<1>22. ASSUME NEW h \in Handles, Data(h) PROVE OwnerInv'
  BY <1>22 DEF Data, Iterates, HandleChallenge, HandleAuthOk, HandleAuthFail,
     hsc_try_keepalive, ws_send_raw_json, RawSendFails
<1>23. ASSUME NEW h \in Handles, Closed(h) PROVE OwnerInv'
  BY <1>23 DEF Closed, Ended, schedule_reconnect
<1>24. ASSUME NEW h \in Handles, TaskExit(h) PROVE OwnerInv'
  BY <1>24 DEF TaskExit, Ended
<1>25. ASSUME NEW h \in Handles, Disconnected(h) PROVE OwnerInv'
  BY <1>25 DEF Disconnected, Iterates, Ended, schedule_reconnect
<1>26. ASSUME NEW h \in Handles, RelayChallenges(h) PROVE OwnerInv'
  BY <1>26 DEF RelayChallenges, RelaySays, RelayFrame, Relays
<1>27. ASSUME NEW h \in Handles, RelayAccepts(h) PROVE OwnerInv'
  BY <1>27 DEF RelayAccepts, RelaySays, RelayFrame, Relays
<1>28. ASSUME NEW h \in Handles, RelayRefuses(h) PROVE OwnerInv'
  BY <1>28 DEF RelayRefuses, RelaySays, RelayFrame, Relays
<1>29. ASSUME NEW h \in Handles, RelayCloses(h) PROVE OwnerInv'
  BY <1>29 DEF RelayCloses, RelaySays, RelayFrame, Relays
<1>30. ASSUME NEW h \in Handles, RelayCommands(h) PROVE OwnerInv'
  BY <1>30 DEF RelayCommands, RelaySays, RelayFrame, Relays
<1>31. CASE UNCHANGED vars
  BY <1>31 DEF vars
<1>32. ASSUME NEW h \in Handles, RelayPings(h) PROVE OwnerInv'
  BY <1>32 DEF RelayPings, RelayFrame, Relays
<1>33. QED
  BY <1>1, <1>2, <1>3, <1>4, <1>5, <1>6, <1>7, <1>8, <1>9, <1>10, <1>11, <1>12, <1>13, <1>14, <1>15, <1>16, <1>17, <1>18, <1>19, <1>20, <1>21, <1>22, <1>23, <1>24, <1>25, <1>26, <1>27, <1>28, <1>29, <1>30, <1>31, <1>32 DEF Next, Core, Evt, App, WsTask, Answers

\* No client object is alive that the global handle has lost.
THEOREM OneClientAlways == Spec => []OneClient
<1>1. Spec => []OwnerInv
  BY OwnerInit, OwnerStep, PTL DEF Spec
<1>2. OwnerInv => OneClient
  BY DEF OwnerInv
<1>3. QED
  BY <1>1, <1>2, PTL
-----------------------------------------------------------------------------
(* The gate.                                                               *)

LEMMA GateInit == Init => GateInv
  BY ConstantsAssumption DEF Init, GateInv, FramesOnOpenSockets, AuthOkIsEarned, GateTruthful

LEMMA GateStep == OwnerInv /\ GateInv /\ [Next]_vars => GateInv'
<1> SUFFICES ASSUME OwnerInv, GateInv, [Next]_vars PROVE GateInv'
  OBVIOUS
<1> USE ConstantsAssumption DEF OwnerInv, TypeOK, OneClient, TaskHasObject,
     ConnectionHasTask, NotYetStarted, GateInv, FramesOnOpenSockets,
     AuthOkIsEarned, GateTruthful
<1>1. CASE CoreService
  BY <1>1 DEF CoreService
<1>2. CASE CoreCheck
  BY <1>2 DEF CoreCheck
<1>3. CASE CoreCreate
  BY <1>3 DEF CoreCreate
<1>4. CASE CoreStart
  BY <1>4 DEF CoreStart
<1>5. CASE CoreReport
  BY <1>5 DEF CoreReport
<1>6. CASE CoreClear
  BY <1>6 DEF CoreClear
<1>7. CASE EvtClear
  BY <1>7 DEF EvtClear
<1>8. CASE GotIp
  BY <1>8 DEF GotIp
<1>9. CASE AppSend
  BY <1>9 DEF AppSend
<1>10. CASE WifiLost
  BY <1>10 DEF WifiLost
<1>11. CASE BackoffExpires
  BY <1>11 DEF BackoffExpires
<1>12. CASE Restart
  BY <1>12 DEF Restart, Reset
<1>13. CASE Panic
  BY <1>13 DEF Panic, Reset
<1>14. CASE Settle
  BY <1>14 DEF Settle
<1>15. ASSUME NEW t \in Tasks, SendCall(t) PROVE GateInv'
  BY <1>15 DEF SendCall
<1>16. ASSUME NEW t \in Tasks, SendReturn(t) PROVE GateInv'
  BY <1>16 DEF SendReturn
<1>17. ASSUME NEW t \in Owners, StopCall(t) PROVE GateInv'
  BY <1>17 DEF StopCall
<1>18. ASSUME NEW t \in Owners, StopReturn(t) PROVE GateInv'
  BY <1>18 DEF StopReturn
<1>19. ASSUME NEW t \in Owners, Destroy(t) PROVE GateInv'
  BY <1>19 DEF Destroy
<1>20. ASSUME NEW h \in Handles, ConnectedFlag(h) PROVE GateInv'
  BY <1>20 DEF ConnectedFlag, Iterates
<1>21. ASSUME NEW h \in Handles, ConnectedReset(h) PROVE GateInv'
  BY <1>21 DEF ConnectedReset
<1>22. ASSUME NEW h \in Handles, Data(h) PROVE GateInv'
  BY <1>22 DEF Data, Iterates, HandleChallenge, HandleAuthOk, HandleAuthFail,
     hsc_try_keepalive, ws_send_raw_json, RawSendFails
<1>23. ASSUME NEW h \in Handles, Closed(h) PROVE GateInv'
  BY <1>23 DEF Closed, Ended, schedule_reconnect
<1>24. ASSUME NEW h \in Handles, TaskExit(h) PROVE GateInv'
  BY <1>24 DEF TaskExit, Ended
<1>25. ASSUME NEW h \in Handles, Disconnected(h) PROVE GateInv'
  BY <1>25 DEF Disconnected, Iterates, Ended, schedule_reconnect
<1>26. ASSUME NEW h \in Handles, RelayChallenges(h) PROVE GateInv'
  BY <1>26 DEF RelayChallenges, RelaySays, RelayFrame, Relays
<1>27. ASSUME NEW h \in Handles, RelayAccepts(h) PROVE GateInv'
  BY <1>27 DEF RelayAccepts, RelaySays, RelayFrame, Relays
<1>28. ASSUME NEW h \in Handles, RelayRefuses(h) PROVE GateInv'
  BY <1>28 DEF RelayRefuses, RelaySays, RelayFrame, Relays
<1>29. ASSUME NEW h \in Handles, RelayCloses(h) PROVE GateInv'
  BY <1>29 DEF RelayCloses, RelaySays, RelayFrame, Relays
<1>30. ASSUME NEW h \in Handles, RelayCommands(h) PROVE GateInv'
  BY <1>30 DEF RelayCommands, RelaySays, RelayFrame, Relays
<1>31. CASE UNCHANGED vars
  BY <1>31 DEF vars
<1>32. ASSUME NEW h \in Handles, RelayPings(h) PROVE GateInv'
  BY <1>32 DEF RelayPings, RelayFrame, Relays
<1>33. QED
  BY <1>1, <1>2, <1>3, <1>4, <1>5, <1>6, <1>7, <1>8, <1>9, <1>10, <1>11, <1>12, <1>13, <1>14, <1>15, <1>16, <1>17, <1>18, <1>19, <1>20, <1>21, <1>22, <1>23, <1>24, <1>25, <1>26, <1>27, <1>28, <1>29, <1>30, <1>31, <1>32 DEF Next, Core, Evt, App, WsTask, Answers

\* Whoever opens a gate on s_authenticated, outside the two lines of the
\* CONNECTED handler, speaks to a relay that accepted this very connection.
THEOREM GateTruthfulAlways == Spec => []GateTruthful
<1>1. Spec => [](OwnerInv /\ GateInv)
  BY OwnerInit, OwnerStep, GateInit, GateStep, PTL DEF Spec
<1>2. GateInv => GateTruthful
  BY DEF GateInv
<1>3. QED
  BY <1>1, <1>2, PTL
-----------------------------------------------------------------------------
(* Teardown.                                                               *)

LEMMA TeardownInit == Init => TeardownInv
<1> SUFFICES ASSUME Init PROVE TeardownInv
  OBVIOUS
<1>1. \A t \in Tasks : pc[t] = "rest"
  BY DEF Init
<1>2. QED
  BY <1>1 DEF Init, TeardownInv, LateRequestWaits, TeardownHitsDeadClient, DeadClientScheduled

LEMMA TeardownStep == OwnerInv /\ TeardownInv /\ [Next]_vars => TeardownInv'
<1> SUFFICES ASSUME OwnerInv, TeardownInv, [Next]_vars PROVE TeardownInv'
  OBVIOUS
<1> USE ConstantsAssumption DEF OwnerInv, TypeOK, OneClient, ClearLosesNothing,
     TaskHasObject, ConnectionHasTask, NotYetStarted, TeardownInv,
     LateRequestWaits, TeardownHitsDeadClient, DeadClientScheduled
<1>1. CASE CoreService
  BY <1>1 DEF CoreService
<1>2. CASE CoreCheck
  BY <1>2 DEF CoreCheck
<1>3. CASE CoreCreate
  BY <1>3 DEF CoreCreate
<1>4. CASE CoreStart
  BY <1>4 DEF CoreStart
<1>5. CASE CoreReport
  BY <1>5 DEF CoreReport
<1>6. CASE CoreClear
  BY <1>6 DEF CoreClear
<1>7. CASE EvtClear
  BY <1>7 DEF EvtClear
<1>8. CASE GotIp
  BY <1>8 DEF GotIp
<1>9. CASE AppSend
  BY <1>9 DEF AppSend
<1>10. CASE WifiLost
  BY <1>10 DEF WifiLost
<1>11. CASE BackoffExpires
  BY <1>11 DEF BackoffExpires
<1>12. CASE Restart
  BY <1>12 DEF Restart, Reset
<1>13. CASE Panic
  BY <1>13 DEF Panic, Reset
<1>14. CASE Settle
  BY <1>14 DEF Settle
<1>15. ASSUME NEW t \in Tasks, SendCall(t) PROVE TeardownInv'
  BY <1>15 DEF SendCall
<1>16. ASSUME NEW t \in Tasks, SendReturn(t) PROVE TeardownInv'
  BY <1>16 DEF SendReturn
<1>17. ASSUME NEW t \in Owners, StopCall(t) PROVE TeardownInv'
  BY <1>17 DEF StopCall
<1>18. ASSUME NEW t \in Owners, StopReturn(t) PROVE TeardownInv'
  BY <1>18 DEF StopReturn
<1>19. ASSUME NEW t \in Owners, Destroy(t) PROVE TeardownInv'
  BY <1>19 DEF Destroy
<1>20. ASSUME NEW h \in Handles, ConnectedFlag(h) PROVE TeardownInv'
  BY <1>20 DEF ConnectedFlag, Iterates
<1>21. ASSUME NEW h \in Handles, ConnectedReset(h) PROVE TeardownInv'
  BY <1>21 DEF ConnectedReset
<1>22. ASSUME NEW h \in Handles, Data(h) PROVE TeardownInv'
  BY <1>22 DEF Data, Iterates, HandleChallenge, HandleAuthOk, HandleAuthFail,
     hsc_try_keepalive, ws_send_raw_json, RawSendFails
<1>23. ASSUME NEW h \in Handles, Closed(h) PROVE TeardownInv'
  BY <1>23 DEF Closed, Ended, schedule_reconnect
<1>24. ASSUME NEW h \in Handles, TaskExit(h) PROVE TeardownInv'
  BY <1>24 DEF TaskExit, Ended
<1>25. ASSUME NEW h \in Handles, Disconnected(h) PROVE TeardownInv'
  BY <1>25 DEF Disconnected, Iterates, Ended, schedule_reconnect
<1>26. ASSUME NEW h \in Handles, RelayChallenges(h) PROVE TeardownInv'
  BY <1>26 DEF RelayChallenges, RelaySays, RelayFrame, Relays
<1>27. ASSUME NEW h \in Handles, RelayAccepts(h) PROVE TeardownInv'
  BY <1>27 DEF RelayAccepts, RelaySays, RelayFrame, Relays
<1>28. ASSUME NEW h \in Handles, RelayRefuses(h) PROVE TeardownInv'
  BY <1>28 DEF RelayRefuses, RelaySays, RelayFrame, Relays
<1>29. ASSUME NEW h \in Handles, RelayCloses(h) PROVE TeardownInv'
  BY <1>29 DEF RelayCloses, RelaySays, RelayFrame, Relays
<1>30. ASSUME NEW h \in Handles, RelayCommands(h) PROVE TeardownInv'
  BY <1>30 DEF RelayCommands, RelaySays, RelayFrame, Relays
<1>31. CASE UNCHANGED vars
  BY <1>31 DEF vars
<1>32. ASSUME NEW h \in Handles, RelayPings(h) PROVE TeardownInv'
  BY <1>32 DEF RelayPings, RelayFrame, Relays
<1>33. QED
  BY <1>1, <1>2, <1>3, <1>4, <1>5, <1>6, <1>7, <1>8, <1>9, <1>10, <1>11, <1>12, <1>13, <1>14, <1>15, <1>16, <1>17, <1>18, <1>19, <1>20, <1>21, <1>22, <1>23, <1>24, <1>25, <1>26, <1>27, <1>28, <1>29, <1>30, <1>31, <1>32 DEF Next, Core, Evt, App, WsTask, Answers

\* A deferred teardown never falls on the successor of the client that asked.
THEOREM TeardownHitsDeadClientAlways == Spec => []TeardownHitsDeadClient
<1>1. Spec => [](OwnerInv /\ TeardownInv)
  BY OwnerInit, OwnerStep, TeardownInit, TeardownStep, PTL DEF Spec
<1>2. TeardownInv => TeardownHitsDeadClient
  BY DEF TeardownInv
<1>3. QED
  BY <1>1, <1>2, PTL

\* No ending of a connection is missed: the dead client awaits its teardown.
THEOREM DeadClientScheduledAlways == Spec => []DeadClientScheduled
<1>1. Spec => [](OwnerInv /\ TeardownInv)
  BY OwnerInit, OwnerStep, TeardownInit, TeardownStep, PTL DEF Spec
<1>2. TeardownInv => DeadClientScheduled
  BY DEF TeardownInv
<1>3. QED
  BY <1>1, <1>2, PTL
-----------------------------------------------------------------------------
(* Waiting for a client's task.                                            *)

\* While the event task waits, the core task is not about to start a client: it
\* was not when the wait began, or the client would not have run, and it does
\* not create one before the wait is over.
NoStartUnderWait == pc["evt"] = "stopping" => pc["core"] # "start"

WaitInv == WaitsForLeavingTask /\ NoStartUnderWait

LEMMA WaitInit == Init => WaitInv
<1> SUFFICES ASSUME Init PROVE WaitInv
  OBVIOUS
<1>1. \A t \in Tasks : pc[t] = "rest"
  BY DEF Init
<1> QED
  BY <1>1 DEF WaitInv, WaitsForLeavingTask, NoStartUnderWait

LEMMA WaitStep == OwnerInv /\ WaitInv /\ [Next]_vars => WaitInv'
<1> SUFFICES ASSUME OwnerInv, WaitInv, [Next]_vars PROVE WaitInv'
  OBVIOUS
<1> USE ConstantsAssumption DEF OwnerInv, TypeOK, NoCreateDuringTeardown,
     NotYetStarted, WaitInv, WaitsForLeavingTask, NoStartUnderWait
<1>1. CASE CoreService \/ CoreCheck \/ CoreReport \/ CoreClear
  BY <1>1 DEF CoreService, CoreCheck, CoreReport, CoreClear
<1>2. CASE CoreCreate
  BY <1>2 DEF CoreCreate
<1>3. CASE CoreStart
  \* The only step that sets a task running, with nobody waiting for it.
  BY <1>3 DEF CoreStart
<1>4. CASE EvtClear \/ GotIp \/ AppSend \/ WifiLost
  BY <1>4 DEF EvtClear, GotIp, AppSend, WifiLost
<1>5. ASSUME NEW t \in Tasks, SendCall(t) \/ SendReturn(t) PROVE WaitInv'
  BY <1>5 DEF SendCall, SendReturn
<1>6. ASSUME NEW t \in Owners, StopCall(t) PROVE WaitInv'
  BY <1>6 DEF StopCall
<1>7. ASSUME NEW t \in Owners, StopReturn(t) \/ Destroy(t) PROVE WaitInv'
  BY <1>7 DEF StopReturn, Destroy
<1>8. ASSUME UNCHANGED tasks,
             \A h \in Handles : running'[h] = "yes" => running[h] = "yes"
      PROVE  WaitInv'
  BY <1>8
<1>9. ASSUME NEW h \in Handles, WsTask(h) \/ Disconnected(h) PROVE WaitInv'
  BY <1>8, <1>9 DEF WsTask, ConnectedFlag, ConnectedReset, Data, Closed, TaskExit,
     Disconnected, Iterates
<1>10. ASSUME NEW h \in Handles,
              \/ Answers(h) \/ RelayRefuses(h) \/ RelayCloses(h)
              \/ RelayCommands(h) \/ RelayPings(h)
       PROVE  WaitInv'
  BY <1>8, <1>10 DEF Answers, RelayChallenges, RelayAccepts, RelayRefuses,
     RelayCloses, RelayCommands, RelayPings, RelaySays, RelayFrame
<1>11. CASE BackoffExpires \/ Settle \/ UNCHANGED vars
  BY <1>8, <1>11 DEF BackoffExpires, Settle, vars
<1>12. CASE Restart \/ Panic
  BY <1>12 DEF Restart, Panic, Reset
<1> QED
  BY <1>1, <1>2, <1>3, <1>4, <1>5, <1>6, <1>7, <1>9, <1>10, <1>11, <1>12
     DEF Next, Core, Evt, App

\* ws.c:422 and 438: the wait for a client's task, which has no limit, is always
\* for a task that has been told to leave and that nobody sets going again.
THEOREM WaitsForLeavingTaskAlways == Spec => []WaitsForLeavingTask
<1>1. Spec => [](OwnerInv /\ WaitInv)
  BY OwnerInit, OwnerStep, WaitInit, WaitStep, PTL DEF Spec
<1>2. WaitInv => WaitsForLeavingTask
  BY DEF WaitInv
<1> QED
  BY <1>1, <1>2, PTL
-----------------------------------------------------------------------------
(* The contract of SecureChannel.                                          *)

\* The core task has a dead client to tear down, now or at its next tick.
CoreTearsDown ==
    s_teardown_pending \/ pc["core"] \in {"stop", "stopping", "destroy", "clear"}

\* The socket counts as usable only through a client in place, and never while
\* the core task has a dead client to tear down or a new one to start.
FlagHasClient ==
    /\ s_ws_connected => s_ws_client # NULL
    /\ CoreTearsDown \/ pc["core"] = "start" => ~s_ws_connected

\* A client under teardown by the core task does not come back to life.
DeadStaysDead ==
    CoreTearsDown /\ s_ws_client # NULL
        => client[s_ws_client] \notin {"connecting", "open"}

\* What the CONNECTED handler works on, before it resets the authentication.
OpeningIsNew ==
    \A h \in Handles :
        in_connected[h] =>
            /\ client[h] = "open" /\ s_ws_connected
            /\ s_hsc_enabled => session[h] \in {"fresh", "challenged"}

\* Without security the relay accepts whatever connects.
AcceptedWithoutSecurity ==
    \A h \in Handles :
        client[h] = "open" /\ ~s_hsc_enabled => session[h] = "accepted"

ChannelInv ==
    FlagHasClient /\ DeadStaysDead /\ OpeningIsNew /\ AcceptedWithoutSecurity

LEMMA ChannelInit == Init => ChannelInv
<1> SUFFICES ASSUME Init PROVE ChannelInv
  OBVIOUS
<1>1. \A t \in Tasks : pc[t] = "rest"
  BY DEF Init
<1>2. QED
  BY <1>1, ConstantsAssumption DEF Init, ChannelInv, CoreTearsDown, FlagHasClient, DeadStaysDead,
     OpeningIsNew, AcceptedWithoutSecurity

LEMMA ChannelInvStep ==
    OwnerInv /\ TeardownInv /\ ChannelInv /\ [Next]_vars => ChannelInv'
<1> SUFFICES ASSUME OwnerInv, TeardownInv, ChannelInv, [Next]_vars PROVE ChannelInv'
  OBVIOUS
<1> USE ConstantsAssumption DEF OwnerInv, TypeOK, OneClient, ClearLosesNothing,
     TaskHasObject, ConnectionHasTask, NotYetStarted, TeardownInv, LateRequestWaits,
     TeardownHitsDeadClient, ChannelInv, CoreTearsDown, FlagHasClient, DeadStaysDead,
     OpeningIsNew, AcceptedWithoutSecurity
<1>1. CASE CoreService
  BY <1>1 DEF CoreService
<1>2. CASE CoreCheck
  BY <1>2 DEF CoreCheck
<1>3. CASE CoreCreate
  BY <1>3 DEF CoreCreate
<1>4. CASE CoreStart
  BY <1>4 DEF CoreStart
<1>5. CASE CoreReport
  BY <1>5 DEF CoreReport
<1>6. CASE CoreClear
  BY <1>6 DEF CoreClear
<1>7. CASE EvtClear
  BY <1>7 DEF EvtClear
<1>8. CASE GotIp
  BY <1>8 DEF GotIp
<1>9. CASE AppSend
  BY <1>9 DEF AppSend
<1>10. CASE WifiLost
  BY <1>10 DEF WifiLost
<1>11. CASE BackoffExpires
  BY <1>11 DEF BackoffExpires
<1>12. CASE Restart
  BY <1>12 DEF Restart, Reset
<1>13. CASE Panic
  BY <1>13 DEF Panic, Reset
<1>14. CASE Settle
  BY <1>14 DEF Settle
<1>15. ASSUME NEW t \in Tasks, SendCall(t) PROVE ChannelInv'
  BY <1>15 DEF SendCall
<1>16. ASSUME NEW t \in Tasks, SendReturn(t) PROVE ChannelInv'
  BY <1>16 DEF SendReturn
<1>17. ASSUME NEW t \in Owners, StopCall(t) PROVE ChannelInv'
  BY <1>17 DEF StopCall
<1>18. ASSUME NEW t \in Owners, StopReturn(t) PROVE ChannelInv'
  BY <1>18 DEF StopReturn
<1>19. ASSUME NEW t \in Owners, Destroy(t) PROVE ChannelInv'
  BY <1>19 DEF Destroy
<1>20. ASSUME NEW h \in Handles, ConnectedFlag(h) PROVE ChannelInv'
  BY <1>20 DEF ConnectedFlag, Iterates
<1>21. ASSUME NEW h \in Handles, ConnectedReset(h) PROVE ChannelInv'
  BY <1>21 DEF ConnectedReset
<1>22. ASSUME NEW h \in Handles, Data(h) PROVE ChannelInv'
  BY <1>22 DEF Data, Iterates, HandleChallenge, HandleAuthOk, HandleAuthFail,
     hsc_try_keepalive, ws_send_raw_json, RawSendFails
<1>23. ASSUME NEW h \in Handles, Closed(h) PROVE ChannelInv'
  BY <1>23 DEF Closed, Ended, schedule_reconnect
<1>24. ASSUME NEW h \in Handles, TaskExit(h) PROVE ChannelInv'
  BY <1>24 DEF TaskExit, Ended
<1>25. ASSUME NEW h \in Handles, Disconnected(h) PROVE ChannelInv'
  BY <1>25 DEF Disconnected, Iterates, Ended, schedule_reconnect
<1>26. ASSUME NEW h \in Handles, RelayChallenges(h) PROVE ChannelInv'
  BY <1>26 DEF RelayChallenges, RelaySays, RelayFrame, Relays
<1>27. ASSUME NEW h \in Handles, RelayAccepts(h) PROVE ChannelInv'
  BY <1>27 DEF RelayAccepts, RelaySays, RelayFrame, Relays
<1>28. ASSUME NEW h \in Handles, RelayRefuses(h) PROVE ChannelInv'
  BY <1>28 DEF RelayRefuses, RelaySays, RelayFrame, Relays
<1>29. ASSUME NEW h \in Handles, RelayCloses(h) PROVE ChannelInv'
  BY <1>29 DEF RelayCloses, RelaySays, RelayFrame, Relays
<1>30. ASSUME NEW h \in Handles, RelayCommands(h) PROVE ChannelInv'
  BY <1>30 DEF RelayCommands, RelaySays, RelayFrame, Relays
<1>31. CASE UNCHANGED vars
  BY <1>31 DEF vars
<1>32. ASSUME NEW h \in Handles, RelayPings(h) PROVE ChannelInv'
  BY <1>32 DEF RelayPings, RelayFrame, Relays
<1>33. QED
  BY <1>1, <1>2, <1>3, <1>4, <1>5, <1>6, <1>7, <1>8, <1>9, <1>10, <1>11, <1>12, <1>13, <1>14, <1>15, <1>16, <1>17, <1>18, <1>19, <1>20, <1>21, <1>22, <1>23, <1>24, <1>25, <1>26, <1>27, <1>28, <1>29, <1>30, <1>31, <1>32 DEF Next, Core, Evt, App, WsTask, Answers

LEMMA ChannelStep ==
    ASSUME OwnerInv, TeardownInv, GateInv, ChannelInv, [Next]_vars
    PROVE  [Channel!Next]_<<Link, SendAllowed>>
<1> USE ConstantsAssumption DEF OwnerInv, TypeOK, OneClient, ClearLosesNothing,
     ConnectionHasTask, NotYetStarted, TeardownInv, LateRequestWaits,
     TeardownHitsDeadClient, GateInv, AuthOkIsEarned, GateTruthful, ChannelInv,
     CoreTearsDown, FlagHasClient, DeadStaysDead, OpeningIsNew,
     AcceptedWithoutSecurity, Link, SendAllowed, Channel!Next, Channel!Open,
     Channel!Enter, Channel!Accept, Channel!Unlock, Channel!Drop, Channel!Shut
<1>1. CASE CoreService
  BY <1>1 DEF CoreService
<1>2. CASE CoreCheck
  BY <1>2 DEF CoreCheck
<1>3. CASE CoreCreate
  BY <1>3 DEF CoreCreate
<1>4. CASE CoreStart
  BY <1>4 DEF CoreStart
<1>5. CASE CoreReport
  BY <1>5 DEF CoreReport
<1>6. CASE CoreClear
  BY <1>6 DEF CoreClear
<1>7. CASE EvtClear
  BY <1>7 DEF EvtClear
<1>8. CASE GotIp
  BY <1>8 DEF GotIp
<1>9. CASE AppSend
  BY <1>9 DEF AppSend
<1>10. CASE WifiLost
  BY <1>10 DEF WifiLost
<1>11. CASE BackoffExpires
  BY <1>11 DEF BackoffExpires
<1>12. CASE Restart
  BY <1>12 DEF Restart, Reset
<1>13. CASE Panic
  BY <1>13 DEF Panic, Reset
<1>14. CASE Settle
  BY <1>14 DEF Settle
<1>15. ASSUME NEW t \in Tasks, SendCall(t) PROVE [Channel!Next]_<<Link, SendAllowed>>
  BY <1>15 DEF SendCall
<1>16. ASSUME NEW t \in Tasks, SendReturn(t) PROVE [Channel!Next]_<<Link, SendAllowed>>
  BY <1>16 DEF SendReturn
<1>17. ASSUME NEW t \in Owners, StopCall(t) PROVE [Channel!Next]_<<Link, SendAllowed>>
  BY <1>17 DEF StopCall
<1>18. ASSUME NEW t \in Owners, StopReturn(t) PROVE [Channel!Next]_<<Link, SendAllowed>>
  BY <1>18 DEF StopReturn
<1>19. ASSUME NEW t \in Owners, Destroy(t) PROVE [Channel!Next]_<<Link, SendAllowed>>
  BY <1>19 DEF Destroy
<1>20. ASSUME NEW h \in Handles, ConnectedFlag(h) PROVE [Channel!Next]_<<Link, SendAllowed>>
  BY <1>20 DEF ConnectedFlag, Iterates
<1>21. ASSUME NEW h \in Handles, ConnectedReset(h) PROVE [Channel!Next]_<<Link, SendAllowed>>
  BY <1>21 DEF ConnectedReset
<1>22. ASSUME NEW h \in Handles, Data(h) PROVE [Channel!Next]_<<Link, SendAllowed>>
  BY <1>22 DEF Data, Iterates, HandleChallenge, HandleAuthOk, HandleAuthFail,
     hsc_try_keepalive, ws_send_raw_json, RawSendFails
<1>23. ASSUME NEW h \in Handles, Closed(h) PROVE [Channel!Next]_<<Link, SendAllowed>>
  BY <1>23 DEF Closed, Ended, schedule_reconnect
<1>24. ASSUME NEW h \in Handles, TaskExit(h) PROVE [Channel!Next]_<<Link, SendAllowed>>
  BY <1>24 DEF TaskExit, Ended
<1>25. ASSUME NEW h \in Handles, Disconnected(h) PROVE [Channel!Next]_<<Link, SendAllowed>>
  BY <1>25 DEF Disconnected, Iterates, Ended, schedule_reconnect
<1>26. ASSUME NEW h \in Handles, RelayChallenges(h) PROVE [Channel!Next]_<<Link, SendAllowed>>
  BY <1>26 DEF RelayChallenges, RelaySays, RelayFrame, Relays
<1>27. ASSUME NEW h \in Handles, RelayAccepts(h) PROVE [Channel!Next]_<<Link, SendAllowed>>
  BY <1>27 DEF RelayAccepts, RelaySays, RelayFrame, Relays
<1>28. ASSUME NEW h \in Handles, RelayRefuses(h) PROVE [Channel!Next]_<<Link, SendAllowed>>
  BY <1>28 DEF RelayRefuses, RelaySays, RelayFrame, Relays
<1>29. ASSUME NEW h \in Handles, RelayCloses(h) PROVE [Channel!Next]_<<Link, SendAllowed>>
  BY <1>29 DEF RelayCloses, RelaySays, RelayFrame, Relays
<1>30. ASSUME NEW h \in Handles, RelayCommands(h) PROVE [Channel!Next]_<<Link, SendAllowed>>
  BY <1>30 DEF RelayCommands, RelaySays, RelayFrame, Relays
<1>31. CASE UNCHANGED vars
  BY <1>31 DEF vars
<1>32. ASSUME NEW h \in Handles, RelayPings(h) PROVE [Channel!Next]_<<Link, SendAllowed>>
  BY <1>32 DEF RelayPings, RelayFrame, Relays
<1>33. QED
  BY <1>1, <1>2, <1>3, <1>4, <1>5, <1>6, <1>7, <1>8, <1>9, <1>10, <1>11, <1>12, <1>13, <1>14, <1>15, <1>16, <1>17, <1>18, <1>19, <1>20, <1>21, <1>22, <1>23, <1>24, <1>25, <1>26, <1>27, <1>28, <1>29, <1>30, <1>31, <1>32 DEF Next, Core, Evt, App, WsTask, Answers

\* Whatever the tasks, the relay and the links do, the client implements the
\* contract its callers count on.
THEOREM ChannelImplemented == Spec => ImplementsChannel
<1>1. Init => Channel!Init
  BY DEF Init, Channel!Init, Link, SendAllowed
<1>2. OwnerInv /\ TeardownInv /\ GateInv /\ ChannelInv /\ [Next]_vars
         => [Channel!Next]_<<Link, SendAllowed>>
  BY ChannelStep
<1>3. Spec => [](OwnerInv /\ TeardownInv /\ GateInv /\ ChannelInv)
  BY OwnerInit, OwnerStep, TeardownInit, TeardownStep, GateInit, GateStep,
     ChannelInit, ChannelInvStep, PTL DEF Spec
<1>4. QED
  BY <1>1, <1>2, <1>3, PTL DEF Spec, ImplementsChannel, Channel!Spec
=============================================================================
