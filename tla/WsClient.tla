------------------------------ MODULE WsClient ------------------------------
(***************************************************************************)
(* The life of the websocket client of hyperwisor_ws.c, together with the  *)
(* tasks that create it, use it and tear it down:                          *)
(*                                                                         *)
(*   core   hyperwisor_task: one tick a second; services the deferred      *)
(*          teardown, starts the client, sends the heartbeat;              *)
(*   evt    the system event task: a lost Wi-Fi association runs           *)
(*          hyperwisor_ws_disconnect, a DHCP lease raises ip_ready;        *)
(*   app    any application task that calls hyperwisor_ws_send;            *)
(*   the websocket task of each client object (espressif's library), which *)
(*          runs ws_event_handler;                                         *)
(*   the relay, which challenges, verifies and accepts or refuses.         *)
(*                                                                         *)
(* A static of the code keeps its name.  Calls into the library block, so  *)
(* each is a step of its own and the global handle is read again at every  *)
(* one, as the code does.                                                  *)
(***************************************************************************)
CONSTANTS
    Handles,     \* client objects the heap can hand out, recycled once freed
    NULL         \* the null pointer

ASSUME ConstantsAssumption == Handles # {} /\ NULL \notin Handles

VARIABLES
    s_ws_client,        \* the handle hyperwisor_ws.c keeps, or NULL
    s_ws_connected,     \* the socket is up
    s_authenticated,    \* auth_ok was seen
    s_auth_rejected,    \* auth_fail was seen since the last auth_ok
    s_teardown_pending, \* the websocket task asks the core task for a teardown
    reconnect_due,      \* the clock has passed s_reconnect_after_us
    ip_ready,           \* s_state.ip_ready
    ws_connected,       \* s_state.ws_connected, the core's own copy
    client,             \* library: state of each client object
    running,            \* library: its task: none, looping, or told to stop
    in_connected,       \* its task is between lines 269 and 270 of the handler
    session,            \* relay: what it thinks of the object's connection
    inbox,              \* the frame on its way from the relay, if any
    pinged,             \* relay: it waits for the answer to a keepalive
    pc,                 \* where each task is
    held,               \* the object a blocking library call works on
    s_hsc_enabled,      \* hyperwisor_enable_security is called before start
    calm                \* the outside world has stopped misbehaving

flags   == <<s_ws_connected, s_authenticated, s_auth_rejected, ws_connected>>
retry   == <<s_teardown_pending, reconnect_due>>
relay   == <<session, inbox, pinged>>
library == <<client, running, in_connected, relay>>
tasks   == <<pc, held>>
world   == <<s_hsc_enabled, calm>>
vars    == <<s_ws_client, flags, retry, ip_ready, library, tasks, world>>

Owners == {"core", "evt"}
Tasks  == Owners \cup {"app"}

ClientStates  == {"free", "idle", "connecting", "open", "lost", "closed"}
SessionStates == {"none", "fresh", "challenged", "signed", "accepted", "refused"}
Frames        == {"none", "challenge", "auth_ok", "auth_fail", "command", "ping",
                  "close"}
Points        == {"rest", "stop", "stopping", "destroy", "clear",
                  "check", "create", "start", "report", "call", "blocked"}

TypeOK ==
    /\ s_ws_client \in Handles \cup {NULL}
    /\ s_ws_connected \in BOOLEAN /\ s_authenticated \in BOOLEAN
    /\ s_auth_rejected \in BOOLEAN /\ s_teardown_pending \in BOOLEAN
    /\ reconnect_due \in BOOLEAN /\ ip_ready \in BOOLEAN
    /\ ws_connected \in BOOLEAN /\ s_hsc_enabled \in BOOLEAN /\ calm \in BOOLEAN
    /\ client \in [Handles -> ClientStates]
    /\ running \in [Handles -> {"no", "yes", "last", "off"}]
    /\ in_connected \in [Handles -> BOOLEAN]
    /\ session \in [Handles -> SessionStates]
    /\ inbox \in [Handles -> Frames] /\ pinged \in [Handles -> BOOLEAN]
    /\ pc \in [Tasks -> Points]
    /\ held \in [Tasks -> Handles \cup {NULL}]
    /\ \A t \in Tasks : pc[t] \in {"stopping", "blocked"} => held[t] # NULL

Init ==
    /\ s_ws_client = NULL
    /\ s_ws_connected = FALSE /\ s_authenticated = FALSE
    /\ s_auth_rejected = FALSE /\ s_teardown_pending = FALSE
    /\ reconnect_due = TRUE      \* s_reconnect_after_us is zero
    /\ ip_ready = FALSE /\ ws_connected = FALSE
    /\ client = [h \in Handles |-> "free"]
    /\ running = [h \in Handles |-> "no"]
    /\ in_connected = [h \in Handles |-> FALSE]
    /\ session = [h \in Handles |-> "none"]
    /\ inbox = [h \in Handles |-> "none"]
    /\ pinged = [h \in Handles |-> FALSE]
    /\ pc = [t \in Tasks |-> "rest"]
    /\ held = [t \in Tasks |-> NULL]
    /\ s_hsc_enabled \in BOOLEAN
    /\ calm = FALSE

Goto(t, point) == pc' = [pc EXCEPT ![t] = point]
Hold(t, h)     == held' = [held EXCEPT ![t] = h]

-----------------------------------------------------------------------------
(* The tick of hyperwisor_task.                                            *)

\* Mutant: the request is not withdrawn when it is served.
CoreService_KeepsRequest ==
    /\ pc["core"] = "rest"
    /\ Goto("core", IF s_teardown_pending /\ s_ws_client # NULL
                    THEN "stop" ELSE "check")
    /\ UNCHANGED <<s_ws_client, flags, retry, ip_ready, library, held, world>>

\* hyperwisor_ws_service up to the first library call.
CoreService ==
    /\ pc["core"] = "rest"
    /\ s_teardown_pending' = FALSE
    /\ Goto("core", IF s_teardown_pending /\ s_ws_client # NULL
                    THEN "stop" ELSE "check")
    /\ UNCHANGED <<s_ws_client, flags, reconnect_due, ip_ready, library, held, world>>

\* The guard of the connect reads ip_ready first ...
CoreCheck ==
    /\ pc["core"] = "check"
    /\ Goto("core", IF ip_ready THEN "create" ELSE "report")
    /\ UNCHANGED <<s_ws_client, flags, retry, ip_ready, library, held, world>>

\* ... and is_started and reconnect_due later; then hyperwisor_ws_connect up to
\* the store of the new object.  esp_websocket_client_init may find no memory.
CoreCreate ==
    /\ pc["core"] = "create"
    /\ IF s_ws_client = NULL /\ reconnect_due
       THEN \/ \E h \in Handles :
                  /\ client[h] = "free"
                  /\ client' = [client EXCEPT ![h] = "idle"]
                  /\ s_ws_client' = h
                  /\ Goto("core", "start")
            \/ /\ ~calm \/ \A h \in Handles : client[h] # "free"
               /\ Goto("core", "report")
               /\ UNCHANGED <<s_ws_client, client>>
       ELSE Goto("core", "report") /\ UNCHANGED <<s_ws_client, client>>
    /\ UNCHANGED <<flags, retry, ip_ready, running, in_connected, relay, held, world>>

\* esp_websocket_client_start on whatever the global holds by now; a failure
\* destroys that object and clears the global.
CoreStart ==
    /\ pc["core"] = "start"
    /\ Goto("core", "report")
    /\ \/ /\ s_ws_client # NULL
          /\ client[s_ws_client] = "idle" /\ running[s_ws_client] = "no"
          /\ client' = [client EXCEPT ![s_ws_client] = "connecting"]
          /\ running' = [running EXCEPT ![s_ws_client] = "yes"]
          /\ UNCHANGED s_ws_client
       \/ /\ \/ ~calm
             \/ s_ws_client = NULL
             \/ s_ws_client # NULL /\ client[s_ws_client] = "free"
          /\ client' = [h \in Handles |->
                          IF h = s_ws_client THEN "free" ELSE client[h]]
          /\ s_ws_client' = NULL
          /\ UNCHANGED running
    /\ UNCHANGED <<flags, retry, ip_ready, in_connected, relay, held, world>>

\* The gate of hyperwisor_ws_send.
SendAllowed ==
    /\ s_ws_client # NULL /\ s_ws_connected
    /\ s_hsc_enabled => s_authenticated

\* The heartbeat, every thirtieth tick: emit, gate, or straight to sleep.
CoreReport ==
    /\ pc["core"] = "report"
    /\ \/ Goto("core", "rest")
       \/ ws_connected /\ SendAllowed /\ Goto("core", "call")
    /\ UNCHANGED <<s_ws_client, flags, retry, ip_ready, library, held, world>>
-----------------------------------------------------------------------------
(* hyperwisor_ws_send, called by the core task or by an application task.  *)

AppSend ==
    /\ pc["app"] = "rest"
    /\ SendAllowed
    /\ Goto("app", "call")
    /\ UNCHANGED <<s_ws_client, flags, retry, ip_ready, library, held, world>>

\* Mutant: the library takes a null handle for a client.
SendCall_NullHandle(t) ==
    /\ pc[t] = "call"
    /\ Goto(t, "blocked") /\ Hold(t, s_ws_client)
    /\ UNCHANGED <<s_ws_client, flags, retry, ip_ready, library, world>>

\* The global is read once more as the argument of the library's send.
SendCall(t) ==
    /\ pc[t] = "call"
    /\ IF s_ws_client = NULL
       THEN Goto(t, "rest") /\ UNCHANGED held
       ELSE Goto(t, "blocked") /\ Hold(t, s_ws_client)
    /\ UNCHANGED <<s_ws_client, flags, retry, ip_ready, library, world>>

\* It returns: the frame is on the wire if the object's socket is open, and
\* an error otherwise or after the five second limit.
SendReturn(t) ==
    /\ pc[t] = "blocked"
    /\ Goto(t, "rest")
    /\ Hold(t, NULL)
    /\ UNCHANGED <<s_ws_client, flags, retry, ip_ready, library, world>>
-----------------------------------------------------------------------------
(* Stop, destroy, clear: the body of hyperwisor_ws_service when run by the *)
(* core task and of hyperwisor_ws_disconnect when run by the event task.   *)

\* esp_websocket_client_stop, also the first thing a destroy does to a client
\* that runs.  Only the first caller waits for the task.
StopCall(t) ==
    /\ pc[t] \in {"stop", "destroy"}
    /\ pc[t] = "destroy" => s_ws_client # NULL /\ running[s_ws_client] = "yes"
    /\ IF s_ws_client # NULL /\ running[s_ws_client] = "yes"
       THEN /\ running' = [running EXCEPT ![s_ws_client] = "last"]
            /\ Goto(t, "stopping")
            /\ Hold(t, s_ws_client)
       ELSE Goto(t, "destroy") /\ UNCHANGED <<running, held>>
    /\ UNCHANGED <<s_ws_client, flags, retry, ip_ready, client, in_connected,
                   relay, world>>

StopReturn(t) ==
    /\ pc[t] = "stopping"
    /\ running[held[t]] = "no"
    /\ Goto(t, "destroy")
    /\ Hold(t, NULL)
    /\ UNCHANGED <<s_ws_client, flags, retry, ip_ready, library, world>>

\* esp_websocket_client_destroy on whatever the global holds by now.  Nothing
\* survives a destroy under a task that is still leaving: only Panic follows.
Destroy(t) ==
    /\ pc[t] = "destroy"
    /\ s_ws_client # NULL => running[s_ws_client] = "no"
    /\ client' = [h \in Handles |->
                    IF h = s_ws_client THEN "free" ELSE client[h]]
    /\ Goto(t, "clear")
    /\ UNCHANGED <<s_ws_client, flags, retry, ip_ready, running, in_connected,
                   relay, held, world>>

CoreClear ==
    /\ pc["core"] = "clear"
    /\ s_ws_client' = NULL
    /\ Goto("core", "check")
    /\ UNCHANGED <<flags, retry, ip_ready, library, held, world>>

\* Mutant: the socket still counts as usable.
EvtClear_KeepsFlag ==
    /\ pc["evt"] = "clear"
    /\ s_ws_client' = NULL
    /\ Goto("evt", "rest")
    /\ UNCHANGED <<flags, retry, ip_ready, library, held, world>>

EvtClear ==
    /\ pc["evt"] = "clear"
    /\ s_ws_client' = NULL
    /\ s_ws_connected' = FALSE
    /\ Goto("evt", "rest")
    /\ UNCHANGED <<s_authenticated, s_auth_rejected, ws_connected, retry,
                   ip_ready, library, held, world>>
-----------------------------------------------------------------------------
(* The Wi-Fi handlers of the system event task.                            *)

\* Mutant: ip_ready is left up while the client is torn down.
WifiLost_KeepsIpReady ==
    /\ pc["evt"] = "rest"
    /\ ~calm
    /\ ws_connected' = FALSE
    /\ Goto("evt", IF s_ws_client # NULL THEN "stop" ELSE "rest")
    /\ UNCHANGED <<s_ws_client, s_ws_connected, s_authenticated, s_auth_rejected,
                   ip_ready, retry, library, held, world>>

\* on_wifi_event(DISCONNECTED) up to the first library call, at any moment of
\* the core task's tick.
WifiLost ==
    /\ pc["evt"] = "rest"
    /\ ~calm
    /\ ip_ready' = FALSE
    /\ ws_connected' = FALSE
    /\ Goto("evt", IF s_ws_client # NULL THEN "stop" ELSE "rest")
    /\ UNCHANGED <<s_ws_client, s_ws_connected, s_authenticated, s_auth_rejected,
                   retry, library, held, world>>

GotIp ==
    /\ pc["evt"] = "rest"
    /\ ~ip_ready
    /\ ip_ready' = TRUE
    /\ UNCHANGED <<s_ws_client, flags, retry, library, tasks, world>>
-----------------------------------------------------------------------------
(* The websocket task of client object h: the library's loop, dispatching  *)
(* into ws_event_handler.                                                  *)

\* Told to stop, the loop still finishes the iteration it is in.
Iterates(h) ==
    /\ running[h] \in {"yes", "last"}
    /\ ~in_connected[h]
    /\ running' = [running EXCEPT ![h] = IF @ = "last" THEN "off" ELSE @]

\* The relay's end and what it had sent are gone with the connection.
Ended(h, how) ==
    /\ client' = [client EXCEPT ![h] = how]
    /\ session' = [session EXCEPT ![h] = "none"]
    /\ inbox' = [inbox EXCEPT ![h] = "none"]
    /\ pinged' = [pinged EXCEPT ![h] = FALSE]

TaskExit(h) ==
    /\ running[h] \in {"last", "off"}
    /\ ~in_connected[h]
    /\ running' = [running EXCEPT ![h] = "no"]
    /\ Ended(h, "idle")
    /\ UNCHANGED <<s_ws_client, flags, retry, ip_ready, in_connected, tasks, world>>

\* Mutant: a rejected device asks for no teardown.
schedule_reconnect_UnlessRejected ==
    /\ s_ws_connected' = FALSE
    /\ s_authenticated' = FALSE
    /\ reconnect_due' = FALSE
    /\ s_teardown_pending' = (s_teardown_pending \/ ~s_auth_rejected)
    /\ ws_connected' = FALSE
    /\ UNCHANGED s_auth_rejected

\* schedule_reconnect, its conn_cb(false) included.
schedule_reconnect ==
    /\ s_ws_connected' = FALSE
    /\ s_authenticated' = FALSE
    /\ reconnect_due' = FALSE
    /\ s_teardown_pending' = TRUE
    /\ ws_connected' = FALSE
    /\ UNCHANGED s_auth_rejected

\* CONNECTED, line 269: from here the socket counts as usable.
ConnectedFlag(h) ==
    /\ client[h] = "connecting"
    /\ ip_ready \/ running[h] = "last"
    /\ Iterates(h)
    /\ client' = [client EXCEPT ![h] = "open"]
    /\ session' = [session EXCEPT ![h] = IF s_hsc_enabled THEN "fresh" ELSE "accepted"]
    /\ in_connected' = [in_connected EXCEPT ![h] = TRUE]
    /\ s_ws_connected' = TRUE
    /\ UNCHANGED <<s_ws_client, s_authenticated, s_auth_rejected, ws_connected,
                   retry, ip_ready, inbox, pinged, tasks, world>>

\* Mutant: the flag of an earlier connection stays up.
ConnectedReset_KeepsAuth(h) ==
    /\ in_connected[h]
    /\ in_connected' = [in_connected EXCEPT ![h] = FALSE]
    /\ ws_connected' = (ws_connected \/ ~s_hsc_enabled)
    /\ UNCHANGED <<s_ws_client, s_ws_connected, s_authenticated, s_auth_rejected,
                   retry, ip_ready, client, running, relay, tasks, world>>

\* CONNECTED, lines 270 to 277: the authentication of an earlier connection
\* is forgotten; without security the core is told at once.
ConnectedReset(h) ==
    /\ in_connected[h]
    /\ in_connected' = [in_connected EXCEPT ![h] = FALSE]
    /\ s_authenticated' = FALSE
    /\ ws_connected' = (ws_connected \/ ~s_hsc_enabled)
    /\ UNCHANGED <<s_ws_client, s_ws_connected, s_auth_rejected, retry, ip_ready,
                   client, running, relay, tasks, world>>

\* DISCONNECTED: a connect that failed or a socket that broke.
Disconnected(h) ==
    /\ client[h] \in {"connecting", "open"}
    /\ ~calm \/ ~ip_ready
    /\ Iterates(h)
    /\ Ended(h, "lost")
    /\ schedule_reconnect
    /\ UNCHANGED <<s_ws_client, ip_ready, in_connected, tasks, world>>

\* Mutant: the switch has no case for CLOSED, as before 0.5.0.
Closed_NoCase(h) ==
    /\ client[h] = "open" /\ inbox[h] = "close"
    /\ running[h] \in {"yes", "last"} /\ ~in_connected[h]
    /\ running' = [running EXCEPT ![h] = "no"]
    /\ Ended(h, "closed")
    /\ UNCHANGED <<s_ws_client, flags, retry, ip_ready, in_connected, tasks, world>>

\* CLOSED: the relay said goodbye; the library's task ends after the event.
Closed(h) ==
    /\ client[h] = "open" /\ inbox[h] = "close"
    /\ running[h] \in {"yes", "last"} /\ ~in_connected[h]
    /\ running' = [running EXCEPT ![h] = "no"]
    /\ Ended(h, "closed")
    /\ schedule_reconnect
    /\ UNCHANGED <<s_ws_client, ip_ready, in_connected, tasks, world>>

\* The websocket task of h sends past the gate, through the global handle: the
\* frame reaches the relay, or making or sending it fails.
ws_send_raw_json ==
    s_ws_client # NULL /\ s_ws_connected /\ client[s_ws_client] = "open"
RawSendFails(h) == ~calm \/ s_ws_client # h \/ ~s_ws_connected

\* Mutant: the answer goes through the gate, as it once did.
hsc_try_keepalive_Gated(h) ==
    /\ \/ /\ SendAllowed /\ client[s_ws_client] = "open"
          /\ pinged' = [pinged EXCEPT ![s_ws_client] = FALSE]
       \/ /\ RawSendFails(h) \/ ~SendAllowed
          /\ UNCHANGED pinged
    /\ UNCHANGED <<flags, session>>

\* A ping is answered in every auth state and handed to nobody.
hsc_try_keepalive(h) ==
    /\ \/ /\ ws_send_raw_json
          /\ pinged' = [pinged EXCEPT ![s_ws_client] = FALSE]
       \/ RawSendFails(h) /\ UNCHANGED pinged
    /\ UNCHANGED <<flags, session>>

\* Other data before auth_ok goes to hsc_handle_data.
HandleChallenge(h) ==
    /\ \/ /\ ws_send_raw_json
          /\ session' = [session EXCEPT ![s_ws_client] =
                           IF @ = "challenged" THEN "signed" ELSE @]
       \/ RawSendFails(h) /\ UNCHANGED session
    /\ UNCHANGED flags

\* auth_ok opens the gate and tells the core; the identify frame the core
\* then emits changes nothing here.
HandleAuthOk ==
    /\ s_authenticated' = TRUE
    /\ s_auth_rejected' = FALSE
    /\ ws_connected' = TRUE
    /\ UNCHANGED <<s_ws_connected, session>>

HandleAuthFail ==
    /\ s_auth_rejected' = TRUE
    /\ UNCHANGED <<s_ws_connected, s_authenticated, ws_connected, session>>

ToApplication == ~s_hsc_enabled \/ s_authenticated

Data(h) ==
    /\ client[h] = "open" /\ inbox[h] \notin {"none", "close"}
    /\ Iterates(h)
    /\ inbox' = [inbox EXCEPT ![h] = "none"]
    /\ \/ inbox[h] = "ping" /\ hsc_try_keepalive(h)
       \/ /\ inbox[h] # "ping" /\ UNCHANGED pinged
          /\ IF ToApplication
             THEN UNCHANGED <<flags, session>>
             ELSE \/ inbox[h] = "challenge" /\ HandleChallenge(h)
                  \/ inbox[h] = "auth_ok" /\ HandleAuthOk
                  \/ inbox[h] = "auth_fail" /\ HandleAuthFail
                  \/ inbox[h] = "command" /\ UNCHANGED <<flags, session>>
    /\ UNCHANGED <<s_ws_client, retry, ip_ready, client, in_connected, tasks, world>>
-----------------------------------------------------------------------------
(* The relay, one connection at a time; it never has two frames in flight. *)

Relays(h) == client[h] = "open" /\ inbox[h] = "none"

RelayFrame(h, from, to, frame) ==
    /\ Relays(h)
    /\ session[h] = from
    /\ session' = [session EXCEPT ![h] = to]
    /\ inbox' = [inbox EXCEPT ![h] = frame]
    /\ UNCHANGED <<s_ws_client, flags, retry, ip_ready, client, running,
                   in_connected, tasks, world>>

\* A frame that wants no keepalive answered.
RelaySays(h, from, to, frame) == RelayFrame(h, from, to, frame) /\ UNCHANGED pinged

RelayChallenges(h) == RelaySays(h, "fresh", "challenged", "challenge")
RelayAccepts(h)    == RelaySays(h, "signed", "accepted", "auth_ok")
RelayRefuses(h)    == ~calm /\ RelaySays(h, "signed", "refused", "auth_fail")

\* The keepalive, in any state of the handshake.
RelayPings(h) ==
    /\ session[h] # "none" /\ ~pinged[h]
    /\ RelayFrame(h, session[h], session[h], "ping")
    /\ pinged' = [pinged EXCEPT ![h] = TRUE]

\* A clean close: after a refusal, when a challenge or a keepalive was not
\* answered, or at the relay's whim.
RelayCloses(h) ==
    /\ ~calm \/ session[h] \in {"challenged", "refused"} \/ pinged[h]
    /\ session[h] # "none"
    /\ RelaySays(h, session[h], session[h], "close")

\* The dashboard speaks to the device, whatever the state of the handshake.
RelayCommands(h) ==
    /\ ~calm
    /\ session[h] # "none"
    /\ RelaySays(h, session[h], session[h], "command")
-----------------------------------------------------------------------------
(* The rest of the world.                                                  *)

\* Half of the shortest backoff is 2.5 s; the code between the service and the
\* connect of one tick has no wait in it, so the window closes only while the
\* core task sleeps, sends, or waits for a task that no event has hit yet.
BackoffExpires ==
    /\ ~reconnect_due
    /\ \/ pc["core"] \in {"rest", "report", "call", "blocked"}
       \/ pc["core"] = "stopping" /\ ~s_teardown_pending
    /\ reconnect_due' = TRUE
    /\ UNCHANGED <<s_ws_client, flags, s_teardown_pending, ip_ready, library,
                   tasks, world>>

\* Init again: nothing of this survives a reboot, and the relay's end is lost.
Reset ==
    /\ s_ws_client' = NULL
    /\ s_ws_connected' = FALSE /\ s_authenticated' = FALSE
    /\ s_auth_rejected' = FALSE /\ s_teardown_pending' = FALSE
    /\ reconnect_due' = TRUE
    /\ ip_ready' = FALSE /\ ws_connected' = FALSE
    /\ client' = [h \in Handles |-> "free"]
    /\ running' = [h \in Handles |-> "no"]
    /\ in_connected' = [h \in Handles |-> FALSE]
    /\ session' = [h \in Handles |-> "none"]
    /\ inbox' = [h \in Handles |-> "none"]
    /\ pinged' = [h \in Handles |-> FALSE]
    /\ pc' = [t \in Tasks |-> "rest"]
    /\ held' = [t \in Tasks |-> NULL]
    /\ UNCHANGED world

\* Power loss, or the SYSTEM restart command.
Restart == ~calm /\ Reset

\* Task t is inside, or about to make, a library call on a freed object, or to
\* destroy an object whose task has not left yet.
Dangling(t) ==
    \/ pc[t] \in {"blocked", "stopping"} /\ client[held[t]] = "free"
    \/ /\ pc[t] \in {"stop", "destroy", "start"} /\ s_ws_client # NULL
       /\ client[s_ws_client] = "free"
    \/ /\ pc[t] = "destroy" /\ s_ws_client # NULL
       /\ running[s_ws_client] \in {"last", "off"}

\* Such a call may go unnoticed (the step itself) or take the board down.
Panic == (\E t \in Tasks : Dangling(t)) /\ Reset

Settle ==
    /\ ~calm
    /\ calm' = TRUE
    /\ UNCHANGED <<s_ws_client, flags, retry, ip_ready, library, tasks, s_hsc_enabled>>
-----------------------------------------------------------------------------
Core ==
    CoreService \/ CoreCheck \/ CoreCreate \/ CoreStart \/ CoreReport \/ CoreClear
    \/ SendCall("core") \/ SendReturn("core")
    \/ StopCall("core") \/ StopReturn("core") \/ Destroy("core")

Evt ==
    \/ EvtClear \/ StopCall("evt") \/ StopReturn("evt") \/ Destroy("evt")
    \/ GotIp

App == AppSend \/ SendCall("app") \/ SendReturn("app")

WsTask(h) ==
    \/ ConnectedFlag(h) \/ ConnectedReset(h) \/ Data(h) \/ Closed(h) \/ TaskExit(h)

Answers(h) == RelayChallenges(h) \/ RelayAccepts(h)

Next ==
    \/ Core \/ Evt \/ App \/ WifiLost
    \/ \E h \in Handles :
          \/ WsTask(h) \/ Disconnected(h)
          \/ Answers(h) \/ RelayRefuses(h) \/ RelayCloses(h) \/ RelayCommands(h)
          \/ RelayPings(h)
    \/ BackoffExpires \/ Restart \/ Panic \/ Settle

Spec == Init /\ [][Next]_vars

\* FreeRTOS runs every ready task; the library's task leaves its loop when told
\* to; DHCP answers.  The relay answers and closes however often it sends a
\* keepalive in between, and the clock advances however often the core task
\* passes through the few instants BackoffExpires leaves out.
Fairness ==
    /\ WF_vars(Core) /\ WF_vars(Evt) /\ WF_vars(Panic)
    /\ SF_vars(BackoffExpires)
    /\ \A h \in Handles :
          /\ WF_vars(WsTask(h))
          /\ SF_vars(Answers(h))
          /\ SF_vars(calm /\ RelayCloses(h))

FairSpec == Spec /\ Fairness
-----------------------------------------------------------------------------
(* Properties.                                                             *)

\* ws.c and core.c:495-499: one owner creates the client, so no object is
\* alive that the global handle has lost, and never two at once.
OneClient == \A h \in Handles : client[h] # "free" => s_ws_client = h

\* ws.c:474 and 314 open the gate on s_authenticated alone.  Once the CONNECTED
\* handler is through, that flag must not outlive the session that earned it:
\* while a socket is open, it means that the relay accepted this connection.
GateTruthful ==
    \A h \in Handles :
        client[h] = "open" /\ ~in_connected[h] /\ s_hsc_enabled /\ s_authenticated
            => session[h] = "accepted"

\* ws.c:417: a teardown asked for by one client never falls on its successor.
\* When the core task is about to stop the client for a deferred teardown, or
\* will at its next tick, that client is one whose connection has ended.
TeardownHitsDeadClient ==
    (s_teardown_pending \/ pc["core"] = "stop") /\ s_ws_client # NULL
        => client[s_ws_client] \in {"lost", "closed", "idle", "free"}

\* ws.c:286-305: no ending of a connection is missed.  A client whose
\* connection has ended is waiting for a teardown or undergoing one; otherwise
\* is_started would stay true and the core would never connect again.
DeadClientScheduled ==
    s_ws_client # NULL /\ client[s_ws_client] \in {"lost", "closed"}
        => \/ s_teardown_pending
           \/ \E t \in Owners : pc[t] \in {"stop", "stopping", "destroy"}

\* ws.c:422 and 438: esp_websocket_client_stop waits for the client's task without
\* a limit.  Nobody waits for a task that has not been told to leave, or for an
\* object that was made anew under the wait, so two owners cannot wait for ever.
WaitsForLeavingTask ==
    \A t \in Owners : pc[t] = "stopping" => running[held[t]] # "yes"

\* core.c:392-396 claims that only one place may stop and destroy a client: no
\* task is inside a library call, or about to make one, on a freed client.
NoDanglingCall == \A t \in Tasks : ~Dangling(t)

\* README, Security: nothing the application sends leaves before auth_ok.  The
\* gate of hyperwisor_ws_send is shut on every socket the relay has not accepted.
GateShutUntilAccepted ==
    \A h \in Handles :
        s_ws_client = h /\ client[h] = "open" /\ SendAllowed
            => session[h] = "accepted"

Online ==
    /\ s_ws_client # NULL
    /\ client[s_ws_client] = "open" /\ session[s_ws_client] = "accepted"
    /\ SendAllowed /\ ws_connected

\* Once links, relay and power stop failing, the device comes online and stays
\* online, whatever happened before: a rejection, a clean close, a dropped
\* association in the middle of a handshake.
Recovers == calm ~> []Online

\* A client whose connection has ended is given back to the heap, so that the
\* core can make a new one.
DeadClientFreed ==
    \A h \in Handles : client[h] \in {"lost", "closed"} ~> client[h] = "free"
-----------------------------------------------------------------------------
(* The contract: what the callers of hyperwisor_ws_send may count on.      *)

Link ==
    IF s_ws_client = NULL THEN "down"
    ELSE IF client[s_ws_client] # "open" THEN "down"
    ELSE IF in_connected[s_ws_client] THEN "opening"
    ELSE IF session[s_ws_client] = "accepted" THEN "accepted"
    ELSE "handshake"

Channel == INSTANCE SecureChannel WITH link <- Link, gate <- SendAllowed

\* ws.c:461, "An open socket is not a usable one": whatever the tasks do to each
\* other, the gate rises only for a connection the relay has accepted, or while
\* CONNECTED is handled, never by a flag left over from an earlier client, and it
\* does not fall before that connection ends.
ImplementsChannel == Channel!Spec
=============================================================================
