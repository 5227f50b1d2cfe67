----------------------------- MODULE CmdRouter -----------------------------
(***************************************************************************)
(* The command router of hyperwisor_cmd.c: the table of handlers, filled   *)
(* by the main task while it boots and by the application at any time      *)
(* after, and walked by the websocket task for every command of a message; *)
(* with the handlers the library brings itself.                            *)
(*                                                                         *)
(* Nothing orders the three stores of a registration for the other core:   *)
(* the compiler may emit them in any order, and so does Store.  A walk is  *)
(* one step nevertheless: slots are written once and the count only grows, *)
(* so whatever a walk finds is what the table held at one instant of it.   *)
(*                                                                         *)
(* A JSON object is a record, an array a sequence, a member that is absent *)
(* or of the wrong type is NULL.                                           *)
(***************************************************************************)
EXTENDS Naturals, Sequences

CONSTANTS
    MaxHandlers,    \* HYPERWISOR_CMD_MAX_HANDLERS, 1 to 64 in Kconfig
    Builtins,       \* names hyperwisor_init registers, in its order (Kconfig)
    AppNames,       \* names the application registers handlers for
    AppHandlers,    \* its handlers; the library's are called by their names
    Messages,       \* what peers send
    NULL

BuiltinNames == {Builtins[i] : i \in DOMAIN Builtins}
Names        == BuiltinNames \cup AppNames
Handlers     == BuiltinNames \cup AppHandlers

\* Places of the table, and what a registration has yet to store.
Slots == 0 .. MaxHandlers - 1
Parts == {"command", "handler", "count"}

Registrations ==
    [command : Names, handler : Handlers, slot : Slots, left : SUBSET Parts]

ASSUME TableAssumption ==
    /\ MaxHandlers \in Nat
    /\ Builtins \in Seq(STRING)
    /\ \A i, k \in DOMAIN Builtins : Builtins[i] = Builtins[k] => i = k
    /\ NULL \notin Names \cup Handlers /\ NULL \notin Registrations

VARIABLES
    s_cmd_handlers, \* the table
    s_cmd_count,
    registering,    \* the registration under way on the main task, or NULL
    inited,         \* built-ins registered so far; all of them: init is over
    started,        \* hyperwisor_start was called: messages may come
    message,        \* the message the websocket task works on, or NULL
    next,           \* index of its next command
    serving,        \* the handler the websocket task is in, or NULL
    online,         \* the gate of hyperwisor_ws_send
    outbox,         \* the last frame that left while this message was served
    calm            \* the outside world has stopped misbehaving

table  == <<s_cmd_handlers, s_cmd_count, registering>>
boot   == <<inited, started>>
walk   == <<message, next, serving>>
link   == <<online, outbox, calm>>
router == <<table, boot, walk, link>>

Empty == [j \in Slots |-> [command |-> NULL, handler |-> NULL]]

RouterTypeOK ==
    /\ s_cmd_handlers \in
         [Slots -> [command : Names \cup {NULL}, handler : Handlers \cup {NULL}]]
    /\ s_cmd_count \in 0 .. MaxHandlers
    /\ registering \in Registrations \cup {NULL}
    /\ inited \in 0 .. Len(Builtins) /\ started \in BOOLEAN
    /\ message \in Messages \cup {NULL} /\ next \in Nat
    /\ serving = NULL \/ serving.handler \in Handlers
    /\ online \in BOOLEAN /\ calm \in BOOLEAN

RouterInit ==
    /\ s_cmd_handlers = Empty /\ s_cmd_count = 0 /\ registering = NULL
    /\ inited = 0 /\ started = FALSE
    /\ message = NULL /\ next = 1 /\ serving = NULL
    /\ online = FALSE /\ outbox = NULL /\ calm = FALSE

\* Nothing of it survives: the relay's end is lost with the rest.
RouterReboot ==
    /\ s_cmd_handlers' = Empty /\ s_cmd_count' = 0 /\ registering' = NULL
    /\ inited' = 0 /\ started' = FALSE
    /\ message' = NULL /\ next' = 1 /\ serving' = NULL
    /\ online' = FALSE
    /\ UNCHANGED calm
-----------------------------------------------------------------------------
(* The main task: hyperwisor_init, then the application.                   *)

\* Mutant: the limit is off by one.
cmd_register_OffByOne(c, h) ==
    registering' = IF s_cmd_count > MaxHandlers THEN NULL
                   ELSE [command |-> c, handler |-> h, slot |-> s_cmd_count,
                         left |-> Parts]

\* hyperwisor_cmd_register up to its stores.  A full table leaves everything
\* as it was, and the library's own calls ignore that result.
cmd_register(c, h) ==
    registering' = IF s_cmd_count >= MaxHandlers THEN NULL
                   ELSE [command |-> c, handler |-> h, slot |-> s_cmd_count,
                         left |-> Parts]

\* Mutant: DEVICE_STATUS is documented as built in but nothing registers it,
\* as before 0.5.0.
RegisterBuiltin_AllButStatus ==
    /\ registering = NULL
    /\ inited < Len(Builtins)
    /\ inited' = inited + 1
    /\ IF Builtins[inited + 1] = "DEVICE_STATUS" THEN UNCHANGED registering
       ELSE cmd_register(Builtins[inited + 1], Builtins[inited + 1])
    /\ UNCHANGED <<s_cmd_handlers, s_cmd_count, started, walk, link>>

\* The registrations at the end of hyperwisor_init, one by one.
RegisterBuiltin ==
    /\ registering = NULL
    /\ inited < Len(Builtins)
    /\ inited' = inited + 1
    /\ cmd_register(Builtins[inited + 1], Builtins[inited + 1])
    /\ UNCHANGED <<s_cmd_handlers, s_cmd_count, started, walk, link>>

InitDone == inited = Len(Builtins)

\* hyperwisor_register_cmd_handler, before or after the start.
AppRegisters ==
    /\ registering = NULL
    /\ InitDone
    /\ \E c \in AppNames, h \in AppHandlers : cmd_register(c, h)
    /\ UNCHANGED <<s_cmd_handlers, s_cmd_count, boot, walk, link>>

\* Mutant: every handler goes to the first place.
Store_FirstPlace(part) ==
    /\ registering # NULL
    /\ part \in registering.left
    /\ IF part = "count"
       THEN s_cmd_count' = s_cmd_count + 1 /\ UNCHANGED s_cmd_handlers
       ELSE /\ s_cmd_handlers' =
                 [s_cmd_handlers EXCEPT ![0][part] = registering[part]]
            /\ UNCHANGED s_cmd_count
    /\ registering' = IF registering.left = {part} THEN NULL
                      ELSE [registering EXCEPT !.left = @ \ {part}]
    /\ UNCHANGED <<boot, walk, link>>

\* One of the three stores of a registration.
Store(part) ==
    /\ registering # NULL
    /\ part \in registering.left
    /\ IF part = "count"
       THEN s_cmd_count' = s_cmd_count + 1 /\ UNCHANGED s_cmd_handlers
       ELSE /\ s_cmd_handlers' =
                 [s_cmd_handlers EXCEPT ![registering.slot][part] = registering[part]]
            /\ UNCHANGED s_cmd_count
    /\ registering' = IF registering.left = {part} THEN NULL
                      ELSE [registering EXCEPT !.left = @ \ {part}]
    /\ UNCHANGED <<boot, walk, link>>

\* hyperwisor_start: from here the websocket task exists.
Start ==
    /\ InitDone /\ registering = NULL
    /\ ~started
    /\ started' = TRUE
    /\ UNCHANGED <<table, inited, walk, link>>
-----------------------------------------------------------------------------
(* JSON, as the router looks at it.                                        *)

\* cJSON_GetObjectItem, on an object or on nothing.
Item(obj, key) ==
    IF obj = NULL THEN NULL ELSE IF key \in DOMAIN obj THEN obj[key] ELSE NULL

Commands(m) ==
    LET commands == Item(Item(m, "payload"), "commands")
    IN  IF commands = NULL THEN <<>> ELSE commands

\* The commands of a message are an array, of whatever was sent.
Asks(m) == {Commands(m)[i] : i \in DOMAIN Commands(m)}

ASSUME MessageAssumption ==
    \A m \in Messages : /\ Commands(m) \in Seq(Asks(m))
                        /\ NULL \notin [handler : Handlers, payload : Asks(m)]

Sender(m) == IF Item(m, "from") = NULL THEN "unknown" ELSE m.from

\* The first element of the array whose member is the name, or NULL.
FirstNamed(array, member, name) ==
    LET found == {i \in DOMAIN array : Item(array[i], member) = name}
    IN  IF found = {} THEN NULL
        ELSE array[CHOOSE i \in found : \A k \in found : i <= k]

hyperwisor_cmd_find_command(payload, c) ==
    LET commands == Item(payload, "commands")
    IN  IF commands = NULL THEN NULL ELSE FirstNamed(commands, "command", c)

hyperwisor_cmd_find_action(payload, c, a) ==
    LET actions == Item(hyperwisor_cmd_find_command(payload, c), "actions")
    IN  IF actions = NULL THEN NULL ELSE FirstNamed(actions, "action", a)

hyperwisor_cmd_find_params(payload, c, a) ==
    Item(hyperwisor_cmd_find_action(payload, c, a), "params")
-----------------------------------------------------------------------------
(* The websocket task: on_ws_message and hyperwisor_cmd_process.           *)

\* A message without a payload or a commands array brings no commands.
Receive ==
    /\ started /\ online
    /\ message = NULL
    /\ message' \in Messages
    /\ next' = 1
    /\ outbox' = NULL
    /\ UNCHANGED <<table, boot, serving, online, calm>>

\* The walk for name c stops at place j: a match, or a place that is counted
\* but not stored yet.
StopsAt(c, j) ==
    /\ j < s_cmd_count
    /\ s_cmd_handlers[j].command \in {c, NULL}
    /\ \A k \in 0 .. j - 1 : s_cmd_handlers[k].command \notin {c, NULL}

\* A command of name c is given to handler h.
Routed(c, h) ==
    \E j \in Slots : /\ s_cmd_handlers[j] = [command |-> c, handler |-> h]
                     /\ StopsAt(c, j)

Unknown(c) == \A j \in Slots : ~StopsAt(c, j)

Current == Item(Commands(message)[next], "command")
Walking == message # NULL /\ serving = NULL /\ next <= Len(Commands(message))

\* A command without a name, or with one nobody has registered.
Skip ==
    /\ Walking
    /\ Current = NULL \/ Unknown(Current)
    /\ next' = next + 1
    /\ UNCHANGED <<table, boot, message, serving, link>>

\* Mutant: the walk goes on and the last handler of the name is called.
Call_LastMatch ==
    /\ Walking /\ Current # NULL
    /\ \E j \in Slots :
          /\ s_cmd_handlers[j].command = Current
          /\ \A k \in Slots : k > j => s_cmd_handlers[k].command # Current
          /\ s_cmd_handlers[j].handler # NULL
          /\ serving' = [handler |-> s_cmd_handlers[j].handler,
                         payload |-> Commands(message)[next]]
    /\ next' = next + 1
    /\ UNCHANGED <<table, boot, message, link>>

\* The handler is given the sender and the command object.
Call ==
    /\ Walking /\ Current # NULL
    /\ \E h \in Handlers :
          /\ Routed(Current, h)
          /\ serving' = [handler |-> h, payload |-> Commands(message)[next]]
    /\ next' = next + 1
    /\ UNCHANGED <<table, boot, message, link>>

\* The walk meets a place whose name or handler is not there yet.
Faults ==
    /\ Walking /\ Current # NULL
    /\ ~Unknown(Current)
    /\ \A h \in Handlers : ~Routed(Current, h)

\* Mutant: the break of the inner loop leaves the outer one.
Finish_AfterFirst ==
    /\ message # NULL /\ serving = NULL
    /\ next > 1 \/ Commands(message) = <<>>
    /\ message' = NULL
    /\ UNCHANGED <<table, boot, next, serving, link>>

\* The message is freed; the application's message callback may look at it.
Finish ==
    /\ message # NULL /\ serving = NULL /\ next > Len(Commands(message))
    /\ message' = NULL
    /\ UNCHANGED <<table, boot, next, serving, link>>
-----------------------------------------------------------------------------
(* Handlers.  A reply goes to the sender, if the gate is open and the send *)
(* succeeds; nobody looks at the result.                                   *)

Reply(what) ==
    \/ online /\ outbox' = [to |-> Sender(message), reply |-> what]
    \/ ~(calm /\ online) /\ UNCHANGED outbox

In(h)   == serving # NULL /\ serving.handler = h
Returns == serving' = NULL /\ UNCHANGED <<table, boot, message, next, online, calm>>

device_status ==
    /\ In("DEVICE_STATUS")
    /\ IF Sender(message) = "" THEN UNCHANGED outbox ELSE Reply("online")
    /\ Returns

SystemAction == Item(Item(serving.payload, "params"), "action")

system_answers ==
    /\ In("SYSTEM")
    /\ SystemAction # "restart"
    /\ IF SystemAction \in {"status", "info"} THEN Reply(SystemAction)
       ELSE UNCHANGED outbox
    /\ Returns

\* The rest of the message is never looked at.
system_restarts == In("SYSTEM") /\ SystemAction = "restart" /\ Reply("restarting")

\* External: a handler of the application, or one of the update handlers, which
\* module Ota follows from where they start a download.  It replies or not, and
\* returns; what else it does is its own.
other_returns ==
    /\ serving # NULL
    /\ serving.handler \notin {"DEVICE_STATUS", "SYSTEM", "GPIO_MANAGEMENT"}
    /\ UNCHANGED outbox \/ Reply("ok")
    /\ Returns
-----------------------------------------------------------------------------
(* Properties.                                                             *)

\* core.c:108-143: no application that registers its handlers after
\* hyperwisor_init can take DEVICE_STATUS, or any other built-in, away: once
\* started, each of the library's names the table has room for leads to the
\* library's handler, whatever is registered while messages are served.  The
\* names it has no room for (hyperwisor_init ignores the refusals) lead nowhere.
BuiltinsRouted ==
    started => \A i \in DOMAIN Builtins :
        IF i <= MaxHandlers THEN Routed(Builtins[i], Builtins[i])
        ELSE \A h \in Handlers : ~Routed(Builtins[i], h)

\* cmd.c:66-72 and 135-137: no message makes the walk compare or call a null
\* pointer, whatever was registered before and whatever it asks, except at the
\* one place that a registration begun after the start has counted and not
\* filled yet.
CrashNeedsRegistration ==
    Faults => /\ registering # NULL /\ "count" \notin registering.left
              /\ StopsAt(Current, registering.slot)

\* A name that leads to a handler leads to it until the next boot empties the
\* table: a registration never changes where commands already known go, nor
\* hides them for an instant behind a place that is only half filled.
RoutesStable ==
    [][\A c \in Names, h \in Handlers :
          Routed(c, h) /\ s_cmd_count' # 0 => Routed(c, h)']_router

\* The table as a dictionary, and the walk as its user sees it.
Known  == {c \in Names : \E h \in Handlers : Routed(c, h)}
Routes == [c \in Known |-> CHOOSE h \in Handlers : Routed(c, h)]

Asked ==
    IF message = NULL THEN <<>>
    ELSE [i \in 1 .. Len(Commands(message)) |-> Item(Commands(message)[i], "command")]

Called ==
    IF serving = NULL THEN NULL
    ELSE <<Item(serving.payload, "command"), serving.handler>>

Contract == INSTANCE Dispatcher WITH routes <- Routes, asked <- Asked, called <- Called

\* cmd.c:56-72 and 131-139: though a registration is three stores in any order
\* and the walk beside it takes no lock, handlers and names behave as a
\* dictionary, and every command goes, in its turn, to the handler of its name.
ImplementsDispatcher == Contract!Spec

\* core.c:133-140: a device that cannot say it is alive is broken.  Once the
\* world is calm, every DEVICE_STATUS of a known sender is answered to that
\* sender, unless the board restarts before its turn.
StatusAnswered ==
    \A m \in Messages : \A i \in DOMAIN Commands(m) :
        Item(Commands(m)[i], "command") = "DEVICE_STATUS" /\ Sender(m) # "" =>
            (calm /\ online /\ message = m /\ next <= i)
                ~> (outbox = [to |-> Sender(m), reply |-> "online"] \/ ~started)

\* README: "payload is the whole envelope, so the helpers do the digging".  The
\* parameters a command came with are found by the handler it is given to, if
\* it looks for them in the way the README shows.
ParamsFound ==
    serving # NULL /\ serving.handler \in AppHandlers =>
        LET c == serving.payload.command
        IN  hyperwisor_cmd_find_params(message.payload, c, "update") # NULL =>
            hyperwisor_cmd_find_params(serving.payload, c, "update") # NULL
=============================================================================
