--------------------------- MODULE CommandsProofs ---------------------------
(***************************************************************************)
(* Proofs about Commands, for every size of the table, list of built-ins,  *)
(* application, set of messages and set of pins: the library's names lead  *)
(* to the library's handlers, no registration redirects a name, a walk     *)
(* fails nowhere but beside one, and a pin keeps the level of the last     *)
(* command.                                                                *)
(***************************************************************************)
EXTENDS Commands, TLAPS

\* Places taken, the one being filled included.
Filled == IF registering = NULL THEN s_cmd_count ELSE registering.slot + 1

\* The place being filled is counted or not, and holds what was stored so far.
SlotInv ==
    registering # NULL =>
        /\ s_cmd_count = IF "count" \in registering.left THEN registering.slot
                                                         ELSE registering.slot + 1
        /\ s_cmd_handlers[registering.slot].command =
             IF "command" \in registering.left THEN NULL ELSE registering.command
        /\ s_cmd_handlers[registering.slot].handler =
             IF "handler" \in registering.left THEN NULL ELSE registering.handler

\* The places behind it are empty.
FreeInv ==
    \A j \in Slots : j >= Filled =>
        s_cmd_handlers[j].command = NULL /\ s_cmd_handlers[j].handler = NULL

\* Those before it are complete.
FullInv ==
    \A j \in Slots :
        j < Filled /\ ~(registering # NULL /\ registering.slot = j) =>
            s_cmd_handlers[j].command # NULL /\ s_cmd_handlers[j].handler # NULL

\* The places that n registrations take.
Room(n) == IF n <= MaxHandlers THEN n ELSE MaxHandlers

\* The built-ins take the first places, in their order; the application comes
\* after the last of them.
BuiltinInv ==
    /\ Room(inited) <= Filled /\ Filled <= MaxHandlers
    /\ inited < Len(Builtins) => Filled = Room(inited)
    /\ \A i \in 1 .. inited :
          i <= MaxHandlers /\ ~(registering # NULL /\ registering.slot = i - 1) =>
             /\ s_cmd_handlers[i - 1].command = Builtins[i]
             /\ s_cmd_handlers[i - 1].handler = Builtins[i]
    /\ registering # NULL /\ registering.slot < Len(Builtins) =>
          /\ registering.slot = inited - 1
          /\ registering.command = Builtins[inited]
          /\ registering.handler = Builtins[inited]
    /\ started => inited = Len(Builtins)
    /\ started /\ registering # NULL => registering.slot >= Len(Builtins)

TableType ==
    /\ s_cmd_handlers \in
         [Slots -> [command : Names \cup {NULL}, handler : Handlers \cup {NULL}]]
    /\ s_cmd_count \in 0 .. MaxHandlers
    /\ registering \in Registrations \cup {NULL}
    /\ inited \in 0 .. Len(Builtins)

TableInv == TableType /\ SlotInv /\ FreeInv /\ FullInv /\ BuiltinInv

\* What every part of the proof knows of the constants.
LEMMA ConstantFacts ==
    /\ MaxHandlers \in Nat /\ Len(Builtins) \in Nat
    /\ \A i \in 1 .. Len(Builtins) : Builtins[i] \in Names /\ Builtins[i] \in Handlers
    /\ \A i, k \in 1 .. Len(Builtins) : Builtins[i] = Builtins[k] => i = k
    /\ NULL \notin Names /\ NULL \notin Handlers /\ NULL \notin Registrations
<1>1. DOMAIN Builtins = 1 .. Len(Builtins) /\ Len(Builtins) \in Nat
  BY TableAssumption
<1> QED
  BY <1>1, TableAssumption DEF Names, Handlers, BuiltinNames

LEMMA TableInit == RouterInit => TableInv
<1> SUFFICES ASSUME RouterInit PROVE TableInv
  OBVIOUS
<1>1. TableType
  BY ConstantFacts DEF RouterInit, TableType, Empty
<1>2. SlotInv /\ FreeInv /\ FullInv /\ BuiltinInv
  BY ConstantFacts, <1>1 DEF RouterInit, SlotInv, FreeInv, FullInv, BuiltinInv,
     Filled, Room, Empty, Slots
<1> QED
  BY <1>1, <1>2 DEF TableInv

LEMMA TableReboot == RouterReboot => TableInv'
<1> SUFFICES ASSUME RouterReboot PROVE TableInv'
  OBVIOUS
<1>1. TableType'
  BY ConstantFacts DEF RouterReboot, TableType, Empty
<1>2. SlotInv' /\ FreeInv' /\ FullInv' /\ BuiltinInv'
  BY ConstantFacts, <1>1 DEF RouterReboot, SlotInv, FreeInv, FullInv, BuiltinInv,
     Filled, Room, Empty, Slots
<1> QED
  BY <1>1, <1>2 DEF TableInv

\* A registration is begun on the first free place, or the table is full.
LEMMA RegisterKeeps ==
    ASSUME TableInv, registering = NULL, NEW c \in Names, NEW h \in Handlers,
           cmd_register(c, h), UNCHANGED <<s_cmd_handlers, s_cmd_count>>
    PROVE  /\ (registering \in Registrations \cup {NULL})'
           /\ SlotInv' /\ FreeInv' /\ FullInv'
           /\ registering' # NULL =>
                registering'.slot = s_cmd_count /\ registering'.command = c
                /\ registering'.handler = h
           /\ registering' = NULL => s_cmd_count >= MaxHandlers
           /\ registering' = NULL \/ Filled' = s_cmd_count + 1
<1>1. CASE s_cmd_count >= MaxHandlers
  BY <1>1 DEF TableInv, SlotInv, FreeInv, FullInv, Filled, cmd_register
<1>2. CASE s_cmd_count < MaxHandlers
  <2> DEFINE r == [command |-> c, handler |-> h, slot |-> s_cmd_count, left |-> Parts]
  <2>1. registering' = r
    BY <1>2, ConstantFacts DEF cmd_register, TableInv, TableType
  <2>2. s_cmd_count \in Slots
    BY <1>2, ConstantFacts DEF TableInv, TableType, Slots
  <2>3. r \in Registrations
    BY <2>2 DEF Registrations
  <2>4. registering' # NULL
    BY <2>1, <2>3, ConstantFacts
  <2>5. SlotInv'
    BY <2>1, <2>2, <2>4 DEF TableInv, TableType, SlotInv, FreeInv, Filled, Parts
  <2>6. FreeInv'
    BY <2>1, <2>2, <2>4, ConstantFacts DEF TableInv, TableType, FreeInv, Filled, Slots
  <2>7. FullInv'
    BY <2>1, <2>2, <2>4, ConstantFacts DEF TableInv, TableType, FullInv, Filled, Slots
  <2> QED
    BY <2>1, <2>3, <2>4, <2>5, <2>6, <2>7, <1>2 DEF Filled
<1> QED
  BY <1>1, <1>2, ConstantFacts DEF TableInv, TableType

LEMMA BootsKeeps == TableInv /\ RegisterBuiltin => TableInv'
<1> SUFFICES ASSUME TableInv, RegisterBuiltin PROVE TableInv'
  OBVIOUS
<1> DEFINE b == Builtins[inited + 1]
<1>0. /\ inited \in Nat /\ inited + 1 \in 1 .. Len(Builtins) /\ inited' = inited + 1
      /\ registering = NULL /\ s_cmd_count = Room(inited)
      /\ UNCHANGED <<s_cmd_handlers, s_cmd_count, started>>
  BY ConstantFacts DEF TableInv, TableType, BuiltinInv, Filled, RegisterBuiltin
<1>1. b \in Names /\ b \in Handlers /\ cmd_register(b, b)
  BY <1>0, ConstantFacts DEF RegisterBuiltin
<1> HIDE DEF b
<1>2. /\ (registering \in Registrations \cup {NULL})' /\ SlotInv' /\ FreeInv' /\ FullInv'
      /\ registering' # NULL =>
            registering'.slot = s_cmd_count /\ registering'.command = b
            /\ registering'.handler = b
      /\ registering' = NULL => s_cmd_count >= MaxHandlers
      /\ registering' = NULL \/ Filled' = s_cmd_count + 1
  BY <1>0, <1>1, RegisterKeeps
<1>3. TableType'
  BY <1>0, <1>2 DEF TableInv, TableType
<1>4. ~started
  BY <1>0, ConstantFacts DEF TableInv, BuiltinInv
<1>5. ASSUME NEW i \in 1 .. inited', i <= MaxHandlers,
             ~(registering # NULL /\ registering.slot = i - 1)'
      PROVE  /\ s_cmd_handlers'[i - 1].command = Builtins[i]
             /\ s_cmd_handlers'[i - 1].handler = Builtins[i]
  <2>1. i \in 1 .. inited
    <3>1. CASE i = inited + 1
      <4>1. s_cmd_count = inited /\ s_cmd_count < MaxHandlers
        BY <1>0, <1>5, <3>1, ConstantFacts DEF Room
      <4> QED
        BY <1>0, <1>2, <1>5, <3>1, <4>1, ConstantFacts
    <3> QED
      BY <1>0, <1>5, <3>1
  <2> QED
    BY <2>1, <1>0, <1>5 DEF TableInv, BuiltinInv
<1>6. CASE registering' = NULL
  <2>1. Filled' = s_cmd_count /\ s_cmd_count = MaxHandlers /\ inited >= MaxHandlers
    BY <1>0, <1>2, <1>6, ConstantFacts DEF Filled, Room
  <2>2. BuiltinInv'
    BY <1>0, <1>4, <1>5, <1>6, <2>1, ConstantFacts DEF BuiltinInv, Room
  <2> QED
    BY <1>2, <1>3, <2>2 DEF TableInv
<1>7. CASE registering' # NULL
  <2>1. s_cmd_count = inited /\ inited < MaxHandlers
    <3>1. s_cmd_count < MaxHandlers
      BY <1>0, <1>2, <1>7, ConstantFacts DEF Registrations, Slots
    <3> QED
      BY <1>0, <3>1, ConstantFacts DEF Room
  <2>2. Filled' = inited + 1 /\ registering'.slot = inited
    BY <1>2, <1>7, <2>1
  <2>3. BuiltinInv'
    BY <1>0, <1>2, <1>4, <1>5, <1>7, <2>1, <2>2, ConstantFacts DEF BuiltinInv, Room, b
  <2> QED
    BY <1>2, <1>3, <2>3 DEF TableInv
<1> QED
  BY <1>6, <1>7

LEMMA AppRegistersKeeps == TableInv /\ AppRegisters => TableInv'
<1> SUFFICES ASSUME TableInv, AppRegisters PROVE TableInv'
  OBVIOUS
<1>0. /\ registering = NULL /\ inited = Len(Builtins)
      /\ UNCHANGED <<s_cmd_handlers, s_cmd_count, inited, started>>
  BY DEF AppRegisters, InitDone, boot
<1>1. PICK c \in Names, h \in Handlers : cmd_register(c, h)
  BY DEF AppRegisters, Names, Handlers
<1>2. /\ (registering \in Registrations \cup {NULL})' /\ SlotInv' /\ FreeInv' /\ FullInv'
      /\ registering' # NULL => registering'.slot = s_cmd_count
      /\ Filled' = IF registering' = NULL THEN s_cmd_count ELSE s_cmd_count + 1
  BY <1>0, <1>1, RegisterKeeps DEF Filled
<1>3. TableType'
  BY <1>0, <1>2 DEF TableInv, TableType
<1>4. registering' # NULL => s_cmd_count < MaxHandlers
  BY <1>2, ConstantFacts DEF Registrations, Slots
<1>5. /\ s_cmd_count >= Room(Len(Builtins))
      /\ s_cmd_count \in Nat /\ s_cmd_count <= MaxHandlers
  BY <1>0, ConstantFacts DEF TableInv, TableType, BuiltinInv, Filled
<1>6. BuiltinInv'
  BY <1>0, <1>2, <1>3, <1>4, <1>5, ConstantFacts
  DEF TableInv, BuiltinInv, Filled, Room
<1> QED
  BY <1>2, <1>3, <1>6 DEF TableInv

\* A store touches the place being filled and no other.
LEMMA StoreFacts ==
    ASSUME TableInv, NEW part \in Parts, Store(part)
    PROVE  LET s == registering.slot IN
           /\ registering \in Registrations /\ s \in Slots
           /\ TableType' /\ SlotInv' /\ FreeInv' /\ FullInv'
           /\ \A j \in Slots : j # s => s_cmd_handlers'[j] = s_cmd_handlers[j]
           /\ s_cmd_count' >= s_cmd_count
           /\ registering' # NULL =>
                 /\ registering'.slot = s /\ registering'.command = registering.command
                 /\ registering'.handler = registering.handler
           /\ registering' = NULL =>
                 /\ s_cmd_handlers'[s].command = registering.command
                 /\ s_cmd_handlers'[s].handler = registering.handler
           /\ Filled' = Filled
<1> DEFINE r == registering
           s == registering.slot
<1>0. /\ r \in Registrations /\ part \in r.left /\ r.left \subseteq Parts
      /\ r # NULL /\ s \in Slots /\ s \in Nat /\ s < MaxHandlers
      /\ r.command \in Names /\ r.handler \in Handlers
  BY ConstantFacts DEF TableInv, TableType, Store, Registrations, Slots
<1>1. /\ s_cmd_count' = IF part = "count" THEN s_cmd_count + 1 ELSE s_cmd_count
      /\ part = "count" => s_cmd_handlers' = s_cmd_handlers
      /\ part = "command" => s_cmd_handlers' =
            [s_cmd_handlers EXCEPT ![s] =
               [command |-> r.command, handler |-> s_cmd_handlers[s].handler]]
      /\ part = "handler" => s_cmd_handlers' =
            [s_cmd_handlers EXCEPT ![s] =
               [command |-> s_cmd_handlers[s].command, handler |-> r.handler]]
  BY <1>0 DEF Store, TableInv, TableType
<1>2. /\ registering' \in Registrations \cup {NULL}
      /\ registering' # NULL =>
            /\ registering'.slot = s /\ registering'.command = r.command
            /\ registering'.handler = r.handler
            /\ registering'.left = r.left \ {part}
      /\ registering' = NULL <=> r.left = {part}
  <2>1. CASE r.left = {part}
    BY <2>1 DEF Store
  <2>2. CASE r.left # {part}
    <3> DEFINE n == [command |-> r.command, handler |-> r.handler, slot |-> s,
                     left |-> r.left \ {part}]
    <3>1. registering' = n
      BY <2>2, <1>0 DEF Store, Registrations
    <3>2. n \in Registrations
      BY <1>0 DEF Registrations
    <3> QED
      BY <3>1, <3>2, <2>2, ConstantFacts
  <2> QED
    BY <2>1, <2>2
<1>3. TableType'
  <2>1. s_cmd_handlers' \in
          [Slots -> [command : Names \cup {NULL}, handler : Handlers \cup {NULL}]]
    BY <1>0, <1>1 DEF TableInv, TableType, Parts
  <2>2. s_cmd_count' \in 0 .. MaxHandlers
    BY <1>0, <1>1, ConstantFacts DEF TableInv, TableType, SlotInv
  <2>3. inited' = inited
    BY DEF Store, boot
  <2> QED
    BY <1>2, <2>1, <2>2, <2>3 DEF TableInv, TableType
<1>4. /\ \A j \in Slots : j # s => s_cmd_handlers'[j] = s_cmd_handlers[j]
      /\ s_cmd_handlers'[s].command =
            IF part = "command" THEN r.command ELSE s_cmd_handlers[s].command
      /\ s_cmd_handlers'[s].handler =
            IF part = "handler" THEN r.handler ELSE s_cmd_handlers[s].handler
  BY <1>0, <1>1 DEF TableInv, TableType, Parts
<1>5. SlotInv'
  BY <1>0, <1>1, <1>2, <1>4 DEF TableInv, TableType, SlotInv
<1>6. /\ registering' = NULL => /\ s_cmd_handlers'[s].command = r.command
                                /\ s_cmd_handlers'[s].handler = r.handler
      /\ registering' = NULL => s_cmd_count' = s + 1
  BY <1>0, <1>1, <1>2, <1>4 DEF TableInv, TableType, SlotInv
<1>7. Filled' = Filled /\ Filled = s + 1
  BY <1>0, <1>2, <1>6 DEF Filled
<1>8. FreeInv'
  BY <1>0, <1>4, <1>7 DEF TableInv, FreeInv, Slots
<1>9. FullInv'
  <2> SUFFICES ASSUME NEW j \in Slots, j < Filled,
                      ~(registering' # NULL /\ registering'.slot = j)
               PROVE  /\ s_cmd_handlers'[j].command # NULL
                      /\ s_cmd_handlers'[j].handler # NULL
    BY <1>7 DEF FullInv
  <2>1. CASE j = s
    BY <1>0, <1>2, <1>6, <2>1, ConstantFacts
  <2>2. CASE j # s
    BY <1>4, <2>2 DEF TableInv, FullInv
  <2> QED
    BY <2>1, <2>2
<1> QED
  BY <1>0, <1>1, <1>2, <1>3, <1>4, <1>5, <1>6, <1>7, <1>8, <1>9
  DEF TableInv, TableType

LEMMA StoreKeeps ==
    ASSUME TableInv, NEW part \in Parts, Store(part)
    PROVE  TableInv'
<1> DEFINE s == registering.slot
<1>1. /\ TableType' /\ SlotInv' /\ FreeInv' /\ FullInv' /\ Filled' = Filled
      /\ registering \in Registrations /\ s \in Slots
      /\ UNCHANGED <<inited, started>>
  BY StoreFacts DEF Store, boot
<1>2. ASSUME NEW i \in 1 .. inited, i <= MaxHandlers,
             ~(registering # NULL /\ registering.slot = i - 1)'
      PROVE  /\ s_cmd_handlers'[i - 1].command = Builtins[i]
             /\ s_cmd_handlers'[i - 1].handler = Builtins[i]
  <2>0. i \in 1 .. Len(Builtins) /\ i - 1 \in Slots
    BY <1>2, ConstantFacts DEF TableInv, TableType, Slots
  <2>1. CASE i - 1 = s
    <3>1. registering' = NULL
      BY <1>2, <2>1, StoreFacts
    <3>2. s < Len(Builtins) /\ registering # NULL /\ i = inited
      BY <2>0, <2>1, <1>1, ConstantFacts DEF TableInv, TableType, BuiltinInv
    <3> QED
      BY <3>1, <3>2, <2>1, StoreFacts DEF TableInv, BuiltinInv
  <2>2. CASE i - 1 # s
    BY <1>2, <2>0, <2>2, StoreFacts DEF TableInv, BuiltinInv
  <2> QED
    BY <2>1, <2>2
<1>3. BuiltinInv'
  BY <1>1, <1>2, StoreFacts, ConstantFacts DEF TableInv, BuiltinInv
<1> QED
  BY <1>1, <1>3 DEF TableInv

-----------------------------------------------------------------------------
(* From the router to the whole: every other step leaves the table alone.  *)

\* A step of Commands begins or continues a registration, restarts the board,
\* or does not touch the table; where nothing restarts, a walk leaves the rest.
LEMMA TableSteps ==
    ASSUME [Next]_vars
    PROVE  \/ RegisterBuiltin
           \/ AppRegisters
           \/ \E part \in Parts : Store(part)
           \/ InitDone /\ ~started /\ started' = TRUE /\ registering = NULL
              /\ UNCHANGED <<table, inited>>
           \/ RouterReboot
           \/ UNCHANGED <<table, boot>>
<1> USE DEF table, boot, walk, link, router, gpio, vars
<1>1. CASE Boots
  BY <1>1 DEF Boots, Start
<1>2. CASE Registers
  BY <1>2 DEF Registers
<1>3. CASE Stores
  BY <1>3 DEF Stores
<1>4. CASE Allowlist \/ Restores \/ RestoreStep \/ GpioWrites
  BY <1>4 DEF Allowlist, Restores, RestoreStep, GpioWrites
<1>5. CASE Serves
  BY <1>5 DEF Serves, Receive, Skip, Call, Finish
<1>6. CASE Handles
  BY <1>6 DEF Handles, device_status, system_answers, other_returns, Returns,
     Reboot
<1>7. CASE GpioReads \/ GpioReturns
  BY <1>7 DEF GpioReads, GpioReturns, Returns
<1>8. CASE Fault \/ PowerFails
  BY <1>8 DEF Fault, PowerFails, Reboot
<1>9. CASE LinkUp \/ LinkDown \/ Settle
  BY <1>9 DEF LinkUp, LinkDown, Settle
<1>10. CASE UNCHANGED vars
  BY <1>10
<1> QED
  BY <1>1, <1>2, <1>3, <1>4, <1>5, <1>6, <1>7, <1>8, <1>9, <1>10 DEF Next

LEMMA TableStable ==
    ASSUME TableInv, UNCHANGED <<table, inited>>,
           started' = started \/ (InitDone /\ registering = NULL)
    PROVE  TableInv'
<1>1. UNCHANGED <<s_cmd_handlers, s_cmd_count, registering, inited>>
  BY DEF table
<1>2. TableType' /\ SlotInv' /\ FreeInv' /\ FullInv' /\ Filled' = Filled
  BY <1>1 DEF TableInv, TableType, SlotInv, FreeInv, FullInv, Filled
<1>3. BuiltinInv'
  BY <1>1, <1>2 DEF TableInv, BuiltinInv, InitDone
<1> QED
  BY <1>2, <1>3 DEF TableInv

LEMMA TableStep == TableInv /\ [Next]_vars => TableInv'
<1> SUFFICES ASSUME TableInv, [Next]_vars PROVE TableInv'
  OBVIOUS
<1>1. CASE RegisterBuiltin
  BY <1>1, BootsKeeps
<1>2. CASE AppRegisters
  BY <1>2, AppRegistersKeeps
<1>3. CASE \E part \in Parts : Store(part)
  BY <1>3, StoreKeeps
<1>4. CASE RouterReboot
  BY <1>4, TableReboot
<1>5. CASE InitDone /\ ~started /\ started' = TRUE /\ registering = NULL
           /\ UNCHANGED <<table, inited>>
  BY <1>5, TableStable
<1>6. CASE UNCHANGED <<table, boot>>
  BY <1>6, TableStable DEF boot
<1> QED
  BY <1>1, <1>2, <1>3, <1>4, <1>5, <1>6, TableSteps

LEMMA TableInvAlways == Spec => []TableInv
<1>1. Init => TableInv
  BY TableInit DEF Init
<1>2. TableInv /\ [Next]_vars => TableInv'
  BY TableStep
<1> QED
  BY <1>1, <1>2, PTL DEF Spec

\* The first places hold the built-ins, so a walk for the name of one stops at
\* its own place and nowhere before, if it has one, and nowhere if it has not.
LEMMA BuiltinsFound == TableInv => BuiltinsRouted
<1> SUFFICES ASSUME TableInv, started, NEW i \in 1 .. Len(Builtins)
             PROVE  IF i <= MaxHandlers THEN Routed(Builtins[i], Builtins[i])
                    ELSE \A h \in Handlers : ~Routed(Builtins[i], h)
  BY ConstantFacts, TableAssumption DEF BuiltinsRouted
<1>1. /\ inited = Len(Builtins) /\ Room(inited) <= Filled
      /\ \A k \in 0 .. Len(Builtins) - 1 :
            ~(registering # NULL /\ registering.slot = k)
  BY ConstantFacts DEF TableInv, BuiltinInv
<1>2. ASSUME NEW k \in Slots, k < Len(Builtins)
      PROVE  /\ s_cmd_handlers[k].command = Builtins[k + 1]
             /\ s_cmd_handlers[k].handler = Builtins[k + 1]
  <2>1. k + 1 \in 1 .. inited /\ (k + 1) - 1 = k /\ k + 1 <= MaxHandlers
    BY <1>1, <1>2, ConstantFacts DEF Slots
  <2>2. k \in 0 .. Len(Builtins) - 1
    BY <1>2, ConstantFacts DEF Slots
  <2> QED
    BY <2>1, <2>2, <1>1 DEF TableInv, BuiltinInv
<1>3. CASE i <= MaxHandlers
  <2> DEFINE j == i - 1
  <2>1. j \in Slots /\ j < Len(Builtins) /\ j + 1 = i
    BY <1>3, ConstantFacts DEF Slots
  <2>2. j < s_cmd_count
    BY <1>1, <1>3, <2>1, ConstantFacts
    DEF TableInv, TableType, BuiltinInv, SlotInv, Filled, Room, Registrations, Slots
  <2>3. \A k \in 0 .. j - 1 : s_cmd_handlers[k].command \notin {Builtins[i], NULL}
    <3> SUFFICES ASSUME NEW k \in 0 .. j - 1
                 PROVE  s_cmd_handlers[k].command \notin {Builtins[i], NULL}
      OBVIOUS
    <3>1. k \in Slots /\ k < Len(Builtins)
      BY <2>1, ConstantFacts DEF Slots
    <3>2. k + 1 \in 1 .. Len(Builtins) /\ k + 1 # i
      BY <3>1, ConstantFacts DEF Slots
    <3>3. Builtins[k + 1] # Builtins[i] /\ Builtins[k + 1] # NULL
      BY <3>2, ConstantFacts
    <3> QED
      BY <1>2, <3>1, <3>3
  <2>4. s_cmd_handlers[j] = [command |-> Builtins[i], handler |-> Builtins[i]]
    BY <1>2, <2>1 DEF TableInv, TableType
  <2> QED
    BY <1>3, <2>1, <2>2, <2>3, <2>4 DEF Routed, StopsAt
<1>4. CASE i > MaxHandlers
  <2> SUFFICES ASSUME NEW h \in Handlers, NEW k \in Slots,
                      s_cmd_handlers[k] = [command |-> Builtins[i], handler |-> h]
               PROVE  FALSE
    BY <1>4, ConstantFacts DEF Routed
  <2>1. k < Len(Builtins) /\ k + 1 \in 1 .. Len(Builtins) /\ k + 1 # i
    BY <1>4, ConstantFacts DEF Slots
  <2> QED
    BY <1>2, <2>1, ConstantFacts
<1> QED
  BY <1>3, <1>4, ConstantFacts

\* However many places the table has, however the application registers
\* handlers, and whatever else happens: once the library is started, those of
\* its names that have a place lead to its handlers, and the others nowhere.
THEOREM BuiltinsRoutedAlways == Spec => []BuiltinsRouted
  BY TableInvAlways, BuiltinsFound, PTL

\* A place that is counted and not being filled holds a name and a handler.
LEMMA CrashBeside == TableInv => CrashNeedsRegistration
<1> SUFFICES ASSUME TableInv, Faults
             PROVE  /\ registering # NULL /\ "count" \notin registering.left
                    /\ StopsAt(Current, registering.slot)
  BY DEF CrashNeedsRegistration
<1>1. PICK j \in Slots : StopsAt(Current, j)
  BY DEF Faults, Unknown
<1>2. /\ j < s_cmd_count /\ j \in Nat /\ s_cmd_count \in Nat
      /\ s_cmd_handlers[j].command \in {Current, NULL}
  BY <1>1, ConstantFacts DEF StopsAt, Slots, TableInv, TableType
<1>3. ~(s_cmd_handlers[j].command # NULL /\ s_cmd_handlers[j].handler # NULL)
  <2> SUFFICES ASSUME s_cmd_handlers[j].command # NULL, s_cmd_handlers[j].handler # NULL
               PROVE  FALSE
    OBVIOUS
  <2> DEFINE h == s_cmd_handlers[j].handler
  <2>1. h \in Handlers /\ s_cmd_handlers[j] = [command |-> Current, handler |-> h]
    BY <1>2 DEF TableInv, TableType
  <2> QED
    BY <1>1, <2>1 DEF Faults, Routed
<1>4. registering # NULL => registering.slot \in Nat
  BY ConstantFacts DEF TableInv, TableType, Registrations, Slots
<1>5. j < Filled
  BY <1>2, <1>4 DEF TableInv, SlotInv, Filled
<1>6. registering # NULL /\ registering.slot = j
  BY <1>3, <1>5 DEF TableInv, FullInv
<1>7. "count" \notin registering.left
  BY <1>2, <1>6 DEF TableInv, SlotInv
<1> QED
  BY <1>1, <1>6, <1>7

\* Whatever is registered when, a walk meets a null pointer nowhere but at the
\* place that a registration under way has counted and not filled.
THEOREM CrashNeedsRegistrationAlways == Spec => []CrashNeedsRegistration
  BY TableInvAlways, CrashBeside, PTL

\* A store or a new registration leaves the places a walk has used as they are.
LEMMA RouteKept ==
    ASSUME TableInv, [Next]_vars, s_cmd_count' # 0,
           NEW c \in Names, NEW h \in Handlers, Routed(c, h)
    PROVE  Routed(c, h)'
<1>1. PICK j \in Slots : /\ s_cmd_handlers[j] = [command |-> c, handler |-> h]
                         /\ StopsAt(c, j)
  BY DEF Routed
<1>2. CASE UNCHANGED <<s_cmd_handlers, s_cmd_count>>
  BY <1>2 DEF Routed, StopsAt
<1>3. ASSUME NEW part \in Parts, Store(part)
      PROVE  Routed(c, h)'
  <2> DEFINE s == registering.slot
  <2>1. registering # NULL /\ s \in Slots /\ s_cmd_count <= s + 1
    <3>1. registering # NULL
      BY <1>3 DEF Store
    <3>2. s \in Slots
      BY <1>3, StoreFacts
    <3>3. s \in Nat
      BY <3>2, ConstantFacts DEF Slots
    <3> QED
      BY <3>1, <3>2, <3>3 DEF TableInv, SlotInv
  <2>2. j # s
    <3>1. SUFFICES ASSUME j = s PROVE FALSE
      OBVIOUS
    <3>2. s_cmd_handlers[s].command # NULL /\ s_cmd_handlers[s].handler # NULL
      BY <1>1, <3>1, ConstantFacts
    <3>3. "command" \notin registering.left /\ "handler" \notin registering.left
      BY <2>1, <3>2 DEF TableInv, SlotInv
    <3>4. "count" \notin registering.left
      BY <1>1, <2>1, <3>1, ConstantFacts
      DEF TableInv, TableType, SlotInv, StopsAt, Slots
    <3> QED
      BY <1>3, <3>3, <3>4 DEF Store, Parts
  <2>3. j < s
    BY <1>1, <2>1, <2>2, ConstantFacts DEF StopsAt, Slots, TableInv, TableType
  <2>4. \A k \in 0 .. j : s_cmd_handlers'[k] = s_cmd_handlers[k]
    BY <1>3, <2>3, StoreFacts, ConstantFacts DEF Slots
  <2>5. s_cmd_count' >= s_cmd_count /\ s_cmd_count' \in Nat /\ s_cmd_count \in Nat
    BY <1>3, StoreFacts, ConstantFacts DEF TableInv, TableType
  <2> QED
    BY <1>1, <2>4, <2>5 DEF Routed, StopsAt, Slots
<1>4. CASE RouterReboot
  BY <1>4 DEF RouterReboot
<1> QED
  BY <1>2, <1>3, <1>4, TableSteps
  DEF RegisterBuiltin, AppRegisters, table

\* No registration, finished or half finished, redirects or hides a name.
THEOREM RoutesStableAlways == Spec => RoutesStable
<1> DEFINE Kept == \A c \in Names, h \in Handlers :
                      Routed(c, h) /\ s_cmd_count' # 0 => Routed(c, h)'
<1>1. TableInv /\ [Next]_vars => [Kept]_router
  <2> SUFFICES ASSUME TableInv, [Next]_vars PROVE Kept
    OBVIOUS
  <2> QED
    BY RouteKept
<1>2. RoutesStable <=> [][Kept]_router
  BY DEF RoutesStable
<1> HIDE DEF Kept
<1> QED
  BY <1>1, <1>2, TableInvAlways, PTL DEF Spec

-----------------------------------------------------------------------------
(* The pins.                                                               *)

\* Whatever a pin shows, NVS holds, a restore has read or a write is about to
\* show or store is expected.  A write that no restore has overlapped finds its
\* own level on the pin when it saves it.
PinInv ==
    /\ \A p \in Pins : saved[p] # NULL => saved[p] \in expected[p]
    /\ PinKeepsCommand
    /\ restoring # NULL /\ restoring.pin # NULL =>
          restoring.state \in expected[restoring.pin]
    /\ doing # NULL =>
          /\ SavedLevel(doing.status) \in expected[doing.gpio]
          /\ doing.at = "save" /\ ~doing.raced /\ LevelOf(doing.status) # NULL =>
                latch[doing.gpio] = LevelOf(doing.status)
          /\ ~doing.raced /\ restoring # NULL => restoring.pin # doing.gpio

GpioInv == GpioTypeOK /\ PinInv

LEMMA PinFacts ==
    /\ ManagedPins \subseteq Pins
    /\ \A act \in GpioActs : act.gpio \in Pins
    /\ NULL \notin Pins /\ NULL \notin Levels
    /\ NULL \notin Writes /\ NULL \notin Restorations
  BY PinAssumption

\* A level the pin takes is the level that is saved for it.
LEMMA LevelFacts ==
    ASSUME NEW status
    PROVE  /\ SavedLevel(status) \in Levels
           /\ LevelOf(status) # NULL => LevelOf(status) = SavedLevel(status)
           /\ (IF LevelOf(status) = 1 THEN 1 ELSE 0) = SavedLevel(status)
  BY PinFacts DEF LevelOf, SavedLevel, Levels

LEMMA ModeFacts ==
    ASSUME GpioTypeOK, NEW p \in Pins, NEW pinmode, set_pin_mode(p, pinmode)
    PROVE  mode' \in [Pins -> {"reset", "input", "output"}]
  BY DEF GpioTypeOK, set_pin_mode

LEMMA GpioInitReboot ==
    /\ GpioInit => GpioInv
    /\ GpioInv /\ GpioReboot => GpioInv'
<1>1. GpioInit => GpioInv
  BY PinFacts DEF GpioInit, GpioInv, GpioTypeOK, PinInv, PinKeepsCommand
<1>2. GpioInv /\ GpioReboot => GpioInv'
  BY PinFacts DEF GpioReboot, GpioInv, GpioTypeOK, PinInv, PinKeepsCommand
<1> QED
  BY <1>1, <1>2

LEMMA BeginWriteKeeps ==
    ASSUME GpioInv, NEW act \in GpioActs, BeginWrite(act)
    PROVE  GpioInv'
<1> DEFINE p == act.gpio
           w == [gpio |-> p, status |-> act.status, at |-> "write",
                 raced |-> restoring # NULL /\ restoring.pin = p]
<1>1. p \in Pins /\ doing' = w /\ w \in Writes
  BY PinFacts DEF BeginWrite, Writes
<1>2. /\ expected' \in [Pins -> SUBSET Levels]
      /\ \A q \in Pins : expected[q] \subseteq expected'[q]
      /\ SavedLevel(act.status) \in expected'[p]
  BY <1>1, LevelFacts DEF BeginWrite, GpioInv, GpioTypeOK
<1>3. GpioTypeOK'
  BY <1>1, <1>2, ModeFacts DEF BeginWrite, GpioInv, GpioTypeOK
<1>4. UNCHANGED <<latch, saved, restoring>>
  BY DEF BeginWrite
<1>5. PinInv'
  <2>1. \A q \in Pins : /\ saved'[q] # NULL => saved'[q] \in expected'[q]
                        /\ latch'[q] # NULL => latch'[q] \in expected'[q]
    BY <1>2, <1>4 DEF GpioInv, PinInv, PinKeepsCommand
  <2>2. restoring' # NULL /\ restoring'.pin # NULL =>
          restoring'.state \in expected'[restoring'.pin]
    BY <1>2, <1>4 DEF GpioInv, GpioTypeOK, PinInv, Restorations
  <2>3. /\ SavedLevel(doing'.status) \in expected'[doing'.gpio]
        /\ doing'.at = "write"
        /\ ~doing'.raced /\ restoring' # NULL => restoring'.pin # doing'.gpio
    BY <1>1, <1>2, <1>4
  <2> QED
    BY <2>1, <2>2, <2>3 DEF PinInv, PinKeepsCommand
<1> QED
  BY <1>3, <1>5 DEF GpioInv

LEMMA DigitalWriteKeeps == GpioInv /\ digital_write => GpioInv'
<1> SUFFICES ASSUME GpioInv, digital_write PROVE GpioInv'
  OBVIOUS
<1> DEFINE p == doing.gpio
           lvl == LevelOf(doing.status)
           w == [gpio |-> p, status |-> doing.status, at |-> "save",
                 raced |-> doing.raced]
<1>1. /\ doing \in Writes /\ p \in Pins /\ doing' = w /\ w \in Writes
      /\ UNCHANGED <<saved, restoring, expected, mode, s_allowed_pins>>
  BY DEF digital_write, GpioInv, GpioTypeOK, Writes
<1>2. /\ lvl # NULL => lvl \in Levels /\ lvl \in expected[p]
      /\ lvl = NULL => latch' = latch
      /\ lvl # NULL => latch' = [latch EXCEPT ![p] = lvl]
  BY <1>1, LevelFacts DEF digital_write, GpioInv, PinInv
<1> HIDE DEF lvl
<1>3. GpioTypeOK'
  BY <1>1, <1>2 DEF GpioInv, GpioTypeOK
<1>4. /\ \A q \in Pins : latch'[q] # NULL => latch'[q] \in expected[q]
      /\ lvl # NULL => latch'[p] = lvl
  BY <1>1, <1>2 DEF GpioInv, GpioTypeOK, PinInv, PinKeepsCommand
<1>5. /\ doing'.gpio = p /\ doing'.status = doing.status
      /\ doing'.raced = doing.raced
  BY <1>1
<1>6. PinInv'
  BY <1>1, <1>4, <1>5 DEF digital_write, GpioInv, PinInv, PinKeepsCommand, lvl
<1> QED
  BY <1>3, <1>6 DEF GpioInv

LEMMA SaveKeeps == GpioInv /\ (save_state \/ save_fails) => GpioInv'
<1> SUFFICES ASSUME GpioInv, save_state \/ save_fails PROVE GpioInv'
  OBVIOUS
<1>1. CASE save_fails
  BY <1>1, PinFacts DEF save_fails, GpioInv, GpioTypeOK, PinInv, PinKeepsCommand
<1>2. CASE save_state
  <2> DEFINE p == doing.gpio
             v == SavedLevel(doing.status)
  <2>1. /\ doing \in Writes /\ p \in Pins /\ v \in Levels /\ doing' = NULL
        /\ saved' = [saved EXCEPT ![p] = v] /\ v \in expected[p]
        /\ UNCHANGED <<s_allowed_pins, mode, latch, restoring>>
    BY <1>2, LevelFacts DEF save_state, GpioInv, GpioTypeOK, PinInv, Writes
  <2>2. CASE expected' = expected
    BY <2>1, <2>2 DEF GpioInv, GpioTypeOK, PinInv, PinKeepsCommand
  <2>3. CASE LevelOf(doing.status) # NULL /\ ~doing.raced
    <3>1. expected' = [expected EXCEPT ![p] = {v}]
      BY <1>2, <2>3, LevelFacts DEF save_state
    <3>2. /\ latch[p] = v
          /\ restoring # NULL => restoring.pin # p
      BY <1>2, <2>3, LevelFacts DEF save_state, GpioInv, PinInv
    <3> HIDE DEF v, p
    <3>3. GpioTypeOK'
      BY <2>1, <3>1 DEF GpioInv, GpioTypeOK
    <3>4. \A q \in Pins : /\ q # p => expected'[q] = expected[q] /\ saved'[q] = saved[q]
                          /\ q = p => expected'[q] = {v} /\ saved'[q] = v
      BY <2>1, <3>1 DEF GpioInv, GpioTypeOK
    <3>5. restoring # NULL /\ restoring.pin # NULL => restoring.pin \in Pins
      BY DEF GpioInv, GpioTypeOK, Restorations
    <3>6. \A q \in Pins : /\ saved'[q] # NULL => saved'[q] \in expected'[q]
                          /\ latch'[q] # NULL => latch'[q] \in expected'[q]
      BY <2>1, <3>2, <3>4 DEF GpioInv, PinInv, PinKeepsCommand
    <3>7. restoring' # NULL /\ restoring'.pin # NULL =>
            restoring'.state \in expected'[restoring'.pin]
      BY <2>1, <3>2, <3>4, <3>5 DEF GpioInv, PinInv
    <3>8. PinInv'
      BY <2>1, <3>6, <3>7 DEF PinInv, PinKeepsCommand
    <3> QED
      BY <3>3, <3>8 DEF GpioInv
  <2> QED
    BY <1>2, <2>2, <2>3 DEF save_state
<1> QED
  BY <1>1, <1>2

LEMMA RestoreKeeps ==
    GpioInv /\ (RestoreBegin \/ RestoreLoad \/ RestoreDrive \/ RestoreEnd) => GpioInv'
<1> SUFFICES ASSUME GpioInv,
                    RestoreBegin \/ RestoreLoad \/ RestoreDrive \/ RestoreEnd
             PROVE  GpioInv'
  OBVIOUS
<1>1. CASE RestoreBegin
  <2>1. /\ restoring' \in Restorations /\ restoring'.pin = NULL
        /\ UNCHANGED <<s_allowed_pins, mode, latch, saved, doing, expected>>
    BY <1>1 DEF RestoreBegin, Restorations, GpioInv, GpioTypeOK
  <2>2. doing # NULL => doing.gpio # NULL
    BY PinFacts DEF GpioInv, GpioTypeOK, Writes
  <2> QED
    BY <2>1, <2>2 DEF GpioInv, GpioTypeOK, PinInv, PinKeepsCommand
<1>2. CASE RestoreEnd
  BY <1>2, PinFacts DEF RestoreEnd, GpioInv, GpioTypeOK, PinInv, PinKeepsCommand
<1>3. CASE RestoreLoad
  <2>1. PICK p \in restoring.left :
          /\ restoring' = [left |-> restoring.left \ {p}, state |-> saved[p],
                           pin |-> IF saved[p] = NULL THEN NULL ELSE p]
          /\ doing' = IF doing # NULL /\ doing.gpio = p
                      THEN [doing EXCEPT !.raced = TRUE] ELSE doing
    BY <1>3 DEF RestoreLoad
  <2>2. /\ restoring \in Restorations /\ p \in Pins
        /\ UNCHANGED <<s_allowed_pins, mode, latch, saved, expected>>
    BY <1>3 DEF RestoreLoad, GpioInv, GpioTypeOK, Restorations
  <2>3. /\ restoring' \in Restorations
        /\ restoring'.pin # NULL => restoring'.pin = p /\ restoring'.state = saved[p]
        /\ restoring'.pin # NULL => saved[p] # NULL
    <3>1. saved[p] \in Levels \cup {NULL}
      BY <2>2 DEF GpioInv, GpioTypeOK
    <3>2. restoring.left \subseteq Pins
      BY <2>2 DEF Restorations
    <3> QED
      BY <2>1, <2>2, <3>1, <3>2 DEF Restorations
  <2>4. CASE doing # NULL /\ doing.gpio = p
    <3> DEFINE w == [gpio |-> p, status |-> doing.status, at |-> doing.at,
                     raced |-> TRUE]
    <3>1. doing \in Writes /\ doing' = w /\ w \in Writes
      BY <2>1, <2>2, <2>4 DEF GpioInv, GpioTypeOK, Writes
    <3>2. doing'.gpio = p /\ doing'.status = doing.status /\ doing'.raced
      BY <3>1
    <3>3. GpioTypeOK'
      BY <2>2, <2>3, <3>1 DEF GpioInv, GpioTypeOK
    <3>4. PinInv'
      BY <2>2, <2>3, <2>4, <3>2 DEF GpioInv, PinInv, PinKeepsCommand
    <3> QED
      BY <3>3, <3>4 DEF GpioInv
  <2>5. CASE ~(doing # NULL /\ doing.gpio = p)
    <3>1. doing' = doing
      BY <2>1, <2>5
    <3>2. doing # NULL => doing.gpio # NULL
      BY PinFacts DEF GpioInv, GpioTypeOK, Writes
    <3>3. GpioTypeOK'
      BY <2>2, <2>3, <3>1 DEF GpioInv, GpioTypeOK
    <3>4. doing # NULL => restoring'.pin # doing.gpio
      BY <2>3, <2>5, <3>2
    <3>5. PinInv'
      BY <2>2, <2>3, <3>1, <3>4 DEF GpioInv, PinInv, PinKeepsCommand
    <3> QED
      BY <3>3, <3>5 DEF GpioInv
  <2> QED
    BY <2>4, <2>5
<1>4. CASE RestoreDrive
  <2> DEFINE p == restoring.pin
             v == restoring.state
             n == [left |-> restoring.left, pin |-> NULL, state |-> v]
  <2>1. /\ restoring \in Restorations /\ p \in Pins
        /\ v \in expected[p] /\ v \in Levels
        /\ restoring' = n /\ n \in Restorations
        /\ mode' = [mode EXCEPT ![p] = "output"] /\ latch' = [latch EXCEPT ![p] = v]
        /\ UNCHANGED <<s_allowed_pins, saved, doing, expected>>
    BY <1>4 DEF RestoreDrive, GpioInv, GpioTypeOK, PinInv, Restorations
  <2> HIDE DEF v
  <2>2. GpioTypeOK'
    BY <2>1 DEF GpioInv, GpioTypeOK
  <2>3. \A q \in Pins : /\ latch'[q] # NULL => latch'[q] \in expected[q]
                        /\ q # p => latch'[q] = latch[q]
    BY <2>1 DEF GpioInv, GpioTypeOK, PinInv, PinKeepsCommand
  <2>4. doing # NULL => doing.gpio \in Pins
    BY DEF GpioInv, GpioTypeOK, Writes
  <2>5. doing # NULL /\ ~doing.raced => doing.gpio # p
    BY <1>4 DEF RestoreDrive, GpioInv, PinInv
  <2>6. restoring'.pin = NULL
    BY <2>1
  <2>7. PinInv'
    BY <2>1, <2>3, <2>4, <2>5, <2>6, PinFacts DEF GpioInv, PinInv, PinKeepsCommand
  <2> QED
    BY <2>2, <2>7 DEF GpioInv
<1> QED
  BY <1>1, <1>2, <1>3, <1>4

LEMMA QuietKeeps ==
    GpioInv /\ (SetAllowlist \/ (\E act \in GpioActs : OnlyMode(act)) \/ UNCHANGED gpio)
       => GpioInv'
<1> SUFFICES ASSUME GpioInv,
                    SetAllowlist \/ (\E act \in GpioActs : OnlyMode(act))
                       \/ UNCHANGED gpio
             PROVE  GpioInv'
  OBVIOUS
<1>1. UNCHANGED <<latch, saved, doing, restoring, expected>>
  BY DEF SetAllowlist, OnlyMode, gpio
<1>2. (s_allowed_pins \in SUBSET Pins)'
  BY PinFacts DEF SetAllowlist, OnlyMode, gpio, GpioInv, GpioTypeOK
<1>3. (mode \in [Pins -> {"reset", "input", "output"}])'
  <2>1. CASE \E act \in GpioActs : OnlyMode(act)
    BY <2>1, ModeFacts, PinFacts DEF OnlyMode, GpioInv
  <2>2. CASE SetAllowlist \/ UNCHANGED gpio
    BY <2>2 DEF SetAllowlist, gpio, GpioInv, GpioTypeOK
  <2> QED
    BY <2>1, <2>2
<1>4. GpioTypeOK'
  BY <1>1, <1>2, <1>3 DEF GpioInv, GpioTypeOK
<1>5. PinInv'
  BY <1>1 DEF GpioInv, PinInv, PinKeepsCommand
<1> QED
  BY <1>4, <1>5 DEF GpioInv

LEMMA GpioStep == GpioInv /\ [Next]_vars => GpioInv'
<1> SUFFICES ASSUME GpioInv, [Next]_vars PROVE GpioInv'
  OBVIOUS
<1>1. CASE Boots \/ Registers \/ Stores \/ Serves \/ GpioReturns
  BY <1>1, QuietKeeps DEF Boots, Registers, Stores, Serves, GpioReturns
<1>2. CASE Allowlist
  BY <1>2, QuietKeeps DEF Allowlist
<1>3. CASE Restores \/ RestoreStep
  BY <1>3, RestoreKeeps DEF Restores, RestoreStep
<1>4. CASE Handles
  BY <1>4, QuietKeeps, GpioInitReboot DEF Handles, Reboot
<1>5. CASE GpioWrites
  BY <1>5, BeginWriteKeeps, DigitalWriteKeeps, SaveKeeps DEF GpioWrites
<1>6. CASE GpioReads
  BY <1>6, QuietKeeps DEF GpioReads
<1>7. CASE Fault \/ PowerFails
  BY <1>7, GpioInitReboot DEF Fault, PowerFails, Reboot
<1>8. CASE LinkUp \/ LinkDown \/ Settle \/ UNCHANGED vars
  BY <1>8, QuietKeeps DEF LinkUp, LinkDown, Settle, vars, gpio
<1> QED
  BY <1>1, <1>2, <1>3, <1>4, <1>5, <1>6, <1>7, <1>8 DEF Next

\* A driven pin shows the level of the last command that went through, across
\* restarts, restores and commands that were cut off.
THEOREM PinKeepsCommandAlways == Spec => []PinKeepsCommand
<1>1. Init => GpioInv
  BY GpioInitReboot DEF Init
<1>2. GpioInv /\ [Next]_vars => GpioInv'
  BY GpioStep
<1>3. GpioInv => PinKeepsCommand
  BY DEF GpioInv, PinInv
<1> QED
  BY <1>1, <1>2, <1>3, PTL DEF Spec

-----------------------------------------------------------------------------
(* Types: those of the table and of the pins are part of the invariants.   *)

WalkType ==
    /\ started \in BOOLEAN
    /\ message \in Messages \cup {NULL} /\ next \in Nat
    /\ serving = NULL \/ serving.handler \in Handlers
    /\ online \in BOOLEAN /\ calm \in BOOLEAN

LEMMA WalkReboot == WalkType /\ RouterReboot => WalkType'
<1> SUFFICES ASSUME WalkType, RouterReboot PROVE WalkType'
  OBVIOUS
<1>1. (started \in BOOLEAN /\ online \in BOOLEAN /\ calm \in BOOLEAN)'
  BY DEF WalkType, RouterReboot
<1>2. (message \in Messages \cup {NULL} /\ next \in Nat)'
  BY DEF RouterReboot
<1>3. (serving = NULL \/ serving.handler \in Handlers)'
  BY DEF RouterReboot
<1> QED
  BY <1>1, <1>2, <1>3 DEF WalkType

LEMMA WalkReturns == WalkType /\ Returns => WalkType'
  BY DEF WalkType, Returns, table, boot

LEMMA WalkStep == WalkType /\ [Next]_vars => WalkType'
<1> SUFFICES ASSUME WalkType, [Next]_vars PROVE WalkType'
  OBVIOUS
<1>1. CASE Boots \/ Registers \/ Stores
  BY <1>1 DEF WalkType, walk, link, boot, Boots, RegisterBuiltin, Start, Registers,
     AppRegisters, Stores, Store
<1>2. CASE Allowlist \/ Restores \/ RestoreStep \/ GpioWrites
  BY <1>2 DEF WalkType, router, boot, walk, link, Allowlist, Restores, RestoreStep,
     GpioWrites
<1>3. CASE Serves
  <2>1. CASE Receive
    BY <2>1 DEF WalkType, boot, Receive
  <2>2. CASE Skip
    BY <2>2 DEF WalkType, boot, link, Skip
  <2>3. CASE Call
    BY <2>3 DEF WalkType, boot, link, Call
  <2>4. CASE Finish
    BY <2>4 DEF WalkType, boot, link, Finish
  <2> QED
    BY <1>3, <2>1, <2>2, <2>3, <2>4 DEF Serves
<1>4. CASE Handles
  BY <1>4, WalkReboot, WalkReturns
     DEF Handles, device_status, system_answers, other_returns, Reboot
<1>5. CASE GpioReads
  BY <1>5 DEF WalkType, boot, walk, GpioReads
<1>6. CASE GpioReturns
  BY <1>6, WalkReturns DEF GpioReturns
<1>7. CASE Fault \/ PowerFails
  BY <1>7, WalkReboot DEF Fault, PowerFails, Reboot
<1>8. CASE LinkUp \/ LinkDown \/ Settle
  BY <1>8 DEF WalkType, boot, walk, LinkUp, LinkDown, Settle
<1>9. CASE UNCHANGED vars
  BY <1>9 DEF WalkType, boot, walk, link, router, vars
<1> QED
  BY <1>1, <1>2, <1>3, <1>4, <1>5, <1>6, <1>7, <1>8, <1>9 DEF Next

\* Every variable of the router and of the pins keeps its type.
THEOREM TypeCorrect == Spec => []TypeOK
<1>1. Init => WalkType /\ GpioInv
  <2> SUFFICES ASSUME Init PROVE WalkType /\ GpioInv
    OBVIOUS
  <2>1. /\ started \in BOOLEAN /\ online \in BOOLEAN /\ calm \in BOOLEAN
        /\ message \in Messages \cup {NULL} /\ next \in Nat
    BY DEF Init, RouterInit
  <2>2. serving = NULL
    BY DEF Init, RouterInit
  <2> QED
    BY <2>1, <2>2, GpioInitReboot DEF Init, WalkType
<1>2. WalkType /\ GpioInv /\ [Next]_vars => (WalkType /\ GpioInv)'
  BY WalkStep, GpioStep
<1>3. TableInv /\ WalkType /\ GpioInv => TypeOK
  BY DEF TableInv, TableType, WalkType, GpioInv, TypeOK, RouterTypeOK
<1> QED
  BY <1>1, <1>2, <1>3, TableInvAlways, PTL DEF Spec
-----------------------------------------------------------------------------
(* The dictionary of Dispatcher.                                           *)

\* A walk for a name stops at one place, and leads to one handler.
LEMMA RoutedOnce ==
    ASSUME TableInv, NEW c, NEW h, NEW g, Routed(c, h), Routed(c, g)
    PROVE  h = g
<1>1. PICK j \in Slots : /\ s_cmd_handlers[j] = [command |-> c, handler |-> h]
                         /\ StopsAt(c, j)
  BY DEF Routed
<1>2. PICK k \in Slots : /\ s_cmd_handlers[k] = [command |-> c, handler |-> g]
                         /\ StopsAt(c, k)
  BY DEF Routed
<1>3. s_cmd_handlers[j].command = c /\ s_cmd_handlers[k].command = c
  BY <1>1, <1>2
<1>4. ~(j < k) /\ ~(k < j)
  BY <1>1, <1>2, <1>3, ConstantFacts DEF StopsAt, Slots
<1>5. j = k
  BY <1>4, ConstantFacts DEF Slots
<1> QED
  BY <1>1, <1>2, <1>5

\* The dictionary, entry by entry.
RoutesMatch ==
    /\ DOMAIN Routes = Known
    /\ \A c \in Names, h \in Handlers : Routed(c, h) => c \in Known /\ Routes[c] = h
    /\ \A c \in Known : Routes[c] \in Handlers /\ Routed(c, Routes[c])

LEMMA RoutesFacts == TableInv => RoutesMatch
<1> SUFFICES ASSUME TableInv PROVE RoutesMatch
  OBVIOUS
<1>1. ASSUME NEW c \in Known
      PROVE  Routes[c] \in Handlers /\ Routed(c, Routes[c])
  <2>1. \E h \in Handlers : Routed(c, h)
    BY DEF Known
  <2>2. Routes[c] = CHOOSE h \in Handlers : Routed(c, h)
    BY DEF Routes
  <2> QED
    BY <2>1, <2>2
<1>2. ASSUME NEW c \in Names, NEW h \in Handlers, Routed(c, h)
      PROVE  c \in Known /\ Routes[c] = h
  <2>1. c \in Known
    BY <1>2 DEF Known
  <2> QED
    BY <1>1, <1>2, <2>1, RoutedOnce
<1> QED
  BY <1>1, <1>2 DEF Routes, RoutesMatch

\* A store makes at most the name that is being registered known.
LEMMA StoreTeachesOne ==
    ASSUME TableInv, NEW part \in Parts, Store(part),
           NEW c \in Names, NEW h \in Handlers, Routed(c, h)', ~Routed(c, h)
    PROVE  c = registering.command /\ h = registering.handler
<1> DEFINE s == registering.slot
<1>1. PICK j \in Slots : /\ s_cmd_handlers'[j] = [command |-> c, handler |-> h]
                         /\ StopsAt(c, j)'
  BY DEF Routed
<1>2. registering # NULL /\ s \in Slots /\ s \in Nat /\ j \in Nat
  <2>1. registering # NULL
    BY DEF Store
  <2>2. s \in Slots
    BY StoreFacts
  <2> QED
    BY <2>1, <2>2, ConstantFacts DEF Slots
<1>3. CASE j = s
  <2>1. /\ s_cmd_handlers'[s].command = c /\ s_cmd_handlers'[s].handler = h
    BY <1>1, <1>3
  <2>2. c # NULL /\ h # NULL
    BY ConstantFacts
  <2>3. CASE registering' = NULL
    BY <2>1, <2>3, StoreFacts
  <2>4. CASE registering' # NULL
    <3>1. /\ SlotInv' /\ registering'.slot = s
          /\ registering'.command = registering.command
          /\ registering'.handler = registering.handler
      BY <2>4, StoreFacts
    <3> QED
      BY <2>1, <2>2, <2>4, <3>1 DEF SlotInv
  <2> QED
    BY <2>3, <2>4
<1>4. CASE j # s
  <2>1. s_cmd_count \in {s, s + 1} /\ s_cmd_count' \in {s, s + 1}
    <3>1. s_cmd_count = IF "count" \in registering.left THEN s ELSE s + 1
      BY <1>2 DEF TableInv, SlotInv
    <3>2. part = "count" => s_cmd_count = s
      BY <3>1 DEF Store
    <3>3. s_cmd_count' = IF part = "count" THEN s_cmd_count + 1 ELSE s_cmd_count
      BY DEF Store
    <3> QED
      BY <3>1, <3>2, <3>3
  <2>2. j < s_cmd_count' /\ j < s
    BY <1>1, <1>2, <1>4, <2>1 DEF StopsAt
  <2>3. \A k \in 0 .. j : s_cmd_handlers'[k] = s_cmd_handlers[k]
    BY <1>2, <2>2, StoreFacts, ConstantFacts DEF Slots
  <2>4. StopsAt(c, j)
    BY <1>1, <1>2, <2>1, <2>2, <2>3 DEF StopsAt
  <2>5. s_cmd_handlers[j] = [command |-> c, handler |-> h]
    BY <1>1, <1>2, <2>3
  <2> QED
    BY <1>1, <2>4, <2>5 DEF Routed
<1> QED
  BY <1>3, <1>4

\* A store adds one entry to the dictionary, or changes nothing.
LEMMA StoreLearns ==
    ASSUME TableInv, TableInv', [Next]_vars, NEW part \in Parts, Store(part)
    PROVE  [Contract!Next]_<<Routes, Asked, next, Called>>
<1>1. UNCHANGED <<Asked, next, Called>>
  BY DEF Store, walk, Asked, Called
<1>2. s_cmd_count' # 0 \/ s_cmd_count = 0
  BY StoreFacts, ConstantFacts DEF TableInv, TableType
<1>3. ASSUME NEW c \in Names, NEW h \in Handlers, Routed(c, h)
      PROVE  Routed(c, h)'
  <2>1. s_cmd_count # 0
    BY <1>3, ConstantFacts DEF Routed, StopsAt, Slots
  <2> QED
    BY <1>2, <1>3, <2>1, RouteKept
<1> DEFINE news(c, h) == Routed(c, h)' /\ ~Routed(c, h)
<1>4. RoutesMatch /\ RoutesMatch'
  BY RoutesFacts, PTL
<1>5. CASE \A c \in Names, h \in Handlers : ~news(c, h)
  <2>1. Known' = Known
    BY <1>3, <1>5 DEF Known
  <2>2. \A c \in Known : Routes'[c] = Routes[c]
    BY <1>3, <1>4, <2>1 DEF RoutesMatch, Known
  <2>3. Routes' = Routes
    BY <2>1, <2>2 DEF Routes
  <2> QED
    BY <1>1, <2>3
<1>6. ASSUME NEW c \in Names, NEW h \in Handlers, news(c, h)
      PROVE  Contract!Learn
  <2>1. \A d \in Names, g \in Handlers : news(d, g) => d = c /\ g = h
    BY <1>6, StoreTeachesOne
  <2>2. c \notin Known
    BY <1>3, <1>4, <1>6 DEF RoutesMatch
  <2>3. Known' = Known \cup {c}
    BY <1>3, <1>6, <2>1 DEF Known
  <2>4. Routes'[c] = h /\ \A d \in Known : Routes'[d] = Routes[d]
    BY <1>3, <1>4, <1>6, <2>3 DEF RoutesMatch, Known
  <2>5. Routes' = [x \in Known \cup {c} |-> IF x = c THEN h ELSE Routes[x]]
    <3>1. Routes' = [x \in Known' |-> Routes'[x]]
      BY DEF Routes
    <3>2. \A x \in Known' : Routes'[x] = IF x = c THEN h ELSE Routes[x]
      BY <2>2, <2>3, <2>4
    <3> QED
      BY <2>3, <3>1, <3>2
  <2> QED
    BY <1>1, <1>4, <2>2, <2>5 DEF RoutesMatch, Contract!Learn
<1> QED
  BY <1>5, <1>6 DEF Contract!Next

\* Between two commands no handler runs, and a walk starts at the first of them.
TurnInv ==
    /\ message \in Messages \cup {NULL}
    /\ next \in Nat \ {0}
    /\ message = NULL => serving = NULL

LEMMA TurnInit == RouterInit => TurnInv
  BY DEF RouterInit, TurnInv

LEMMA TurnStep == TurnInv /\ [Next]_vars => TurnInv'
<1> SUFFICES ASSUME TurnInv, [Next]_vars PROVE TurnInv'
  OBVIOUS
<1> USE DEF TurnInv, table, boot, walk, link, router
<1>1. CASE Boots \/ Registers
  BY <1>1 DEF Boots, RegisterBuiltin, Start, Registers, AppRegisters
<1>8. CASE Stores
  <2>1. UNCHANGED <<message, next, serving>>
    BY <1>8 DEF Stores, Store
  <2> QED
    BY <2>1
<1>2. CASE Allowlist \/ Restores \/ RestoreStep \/ GpioWrites
  BY <1>2 DEF Allowlist, Restores, RestoreStep, GpioWrites
<1>3. CASE Serves
  BY <1>3 DEF Serves, Receive, Skip, Call, Finish, Walking
<1>9. Returns \/ RouterReboot => TurnInv'
  BY DEF Returns, RouterReboot
<1>4. CASE Handles
  BY <1>4, <1>9 DEF Handles, device_status, system_answers, other_returns, Reboot
<1>5. CASE GpioReads \/ GpioReturns
  BY <1>5, <1>9 DEF GpioReads, GpioReturns
<1>6. CASE Fault \/ PowerFails
  BY <1>6, <1>9 DEF Fault, PowerFails, Reboot
<1>7. CASE LinkUp \/ LinkDown \/ Settle \/ UNCHANGED vars
  BY <1>7 DEF LinkUp, LinkDown, Settle, vars
<1> QED
  BY <1>1, <1>2, <1>3, <1>4, <1>5, <1>6, <1>7, <1>8 DEF Next

\* A reboot empties the dictionary and forgets the message.
LEMMA RebootResets == RouterReboot => Contract!Reset
<1> SUFFICES ASSUME RouterReboot PROVE Contract!Reset
  OBVIOUS
<1>1. \A c, h : ~Routed(c, h)'
  BY ConstantFacts DEF RouterReboot, Routed, StopsAt, Slots
<1>2. Known' = {}
  BY <1>1 DEF Known
<1>3. DOMAIN Routes' = {}
  BY <1>2 DEF Routes
<1>4. Asked' = <<>> /\ next' = 1 /\ Called' = NULL
  BY DEF RouterReboot, Asked, Called
<1> QED
  BY <1>3, <1>4 DEF Contract!Reset

\* The walk, as its user sees it.
LEMMA AskedFacts ==
    ASSUME TurnInv, Walking
    PROVE  /\ next \in 1 .. Len(Asked) /\ Asked[next] = Current
           /\ Commands(message)[next] \in Asks(message)
           /\ Called = NULL /\ message \in Messages
<1>1. message \in Messages /\ message # NULL /\ serving = NULL
  BY DEF TurnInv, Walking
<1>2. Commands(message) \in Seq(Asks(message))
  BY <1>1, MessageAssumption
<1>3. /\ Len(Commands(message)) \in Nat
      /\ DOMAIN Commands(message) = 1 .. Len(Commands(message))
      /\ next \in 1 .. Len(Commands(message))
  BY <1>2 DEF TurnInv, Walking
<1>4. Asked = [i \in 1 .. Len(Commands(message)) |-> Item(Commands(message)[i], "command")]
  BY <1>1 DEF Asked
<1>5. Len(Asked) = Len(Commands(message))
  BY <1>3, <1>4
<1>6. Asked[next] = Current
  BY <1>3, <1>4 DEF Current
<1> QED
  BY <1>1, <1>3, <1>5, <1>6 DEF Called, Asks

\* A command is skipped if its name is not in the dictionary, and given to the
\* handler of its name if it is.
LEMMA WalkDispatches ==
    ASSUME TableInv, TurnInv, Skip \/ Call
    PROVE  Contract!Dispatch
<1>1. /\ Walking /\ next' = next + 1 /\ message' = message
      /\ UNCHANGED <<s_cmd_handlers, s_cmd_count>>
  BY DEF Skip, Call, table
<1>2. Routes' = Routes /\ Asked' = Asked
  BY <1>1 DEF Routes, Known, Routed, StopsAt, Asked
<1>3. /\ next \in 1 .. Len(Asked) /\ Asked[next] = Current
      /\ Commands(message)[next] \in Asks(message)
      /\ Called = NULL /\ message \in Messages
  BY <1>1, AskedFacts
<1>4. RoutesMatch
  BY RoutesFacts
<1>5. CASE Skip
  <2>1. Current \notin Known
    BY <1>5, ConstantFacts DEF Skip, Unknown, Known, Routed
  <2>2. Called' = NULL
    BY <1>3, <1>5 DEF Skip, Called
  <2> QED
    BY <1>1, <1>2, <1>3, <1>4, <2>1, <2>2 DEF RoutesMatch, Contract!Dispatch
<1>6. CASE Call
  <2>1. PICK h \in Handlers :
           /\ Routed(Current, h)
           /\ serving' = [handler |-> h, payload |-> Commands(message)[next]]
    BY <1>6 DEF Call
  <2>2. Current \in Names
    <3>1. PICK j \in Slots : s_cmd_handlers[j] = [command |-> Current, handler |-> h]
      BY <2>1 DEF Routed
    <3>2. s_cmd_handlers[j].command \in Names \cup {NULL}
      BY DEF TableInv, TableType
    <3>3. Current # NULL
      BY <1>6 DEF Call
    <3> QED
      BY <3>1, <3>2, <3>3
  <2>3. serving' # NULL
    BY <1>3, <2>1, MessageAssumption
  <2>4. Called' = <<Current, h>>
    BY <2>1, <2>3 DEF Called, Current
  <2>5. Current \in Known /\ Routes[Current] = h
    BY <1>4, <2>1, <2>2 DEF RoutesMatch
  <2> QED
    BY <1>1, <1>2, <1>3, <1>4, <2>4, <2>5 DEF RoutesMatch, Contract!Dispatch
<1> QED
  BY <1>5, <1>6

LEMMA DispatchStep ==
    ASSUME TableInv, TableInv', TurnInv, [Next]_vars
    PROVE  [Contract!Next]_<<Routes, Asked, next, Called>>
<1>1. ASSUME UNCHANGED <<s_cmd_handlers, s_cmd_count>>
      PROVE  Routes' = Routes
  BY <1>1 DEF Routes, Known, Routed, StopsAt
<1>2. ASSUME UNCHANGED <<s_cmd_handlers, s_cmd_count, walk>>
      PROVE  UNCHANGED <<Routes, Asked, next, Called>>
  BY <1>1, <1>2 DEF walk, Asked, Called
<1>3. ASSUME Returns
      PROVE  Contract!Return
  <2>1. Routes' = Routes
    BY <1>1, <1>3 DEF Returns, table
  <2> QED
    BY <1>3, <2>1 DEF Returns, Asked, Called, Contract!Return
<1>4. CASE Stores
  BY <1>4, StoreLearns DEF Stores
<1>5. CASE Boots \/ Registers
  BY <1>2, <1>5 DEF Boots, RegisterBuiltin, Start, Registers, AppRegisters, table
<1>6. CASE Allowlist \/ Restores \/ RestoreStep \/ GpioWrites
  BY <1>2, <1>6 DEF Allowlist, Restores, RestoreStep, GpioWrites, router, table
<1>7. CASE Receive
  <2>1. message = NULL /\ serving = NULL /\ next' = 1 /\ serving' = serving
    BY <1>7 DEF Receive, TurnInv
  <2>2. Routes' = Routes
    BY <1>1, <1>7 DEF Receive, table
  <2>3. Called = NULL /\ Called' = NULL /\ Len(Asked) = 0
    BY <2>1 DEF Called, Asked
  <2>4. next > Len(Asked)
    BY <2>3 DEF TurnInv
  <2> QED
    BY <2>1, <2>2, <2>3, <2>4 DEF Contract!Take, Contract!Idle, Contract!Next
<1>8. CASE Skip \/ Call
  BY <1>8, WalkDispatches DEF Contract!Next
<1>9. CASE Finish
  <2>1. /\ message \in Messages /\ message # NULL /\ serving = NULL /\ message' = NULL
        /\ next > Len(Commands(message)) /\ next' = next /\ serving' = serving
    BY <1>9 DEF Finish, TurnInv
  <2>2. Routes' = Routes
    BY <1>1, <1>9 DEF Finish, table
  <2>3. Len(Commands(message)) \in Nat
    BY <2>1, MessageAssumption
  <2>4. Len(Asked) = Len(Commands(message))
    BY <2>1, <2>3 DEF Asked
  <2> QED
    BY <2>1, <2>2, <2>4 DEF Asked, Called, Contract!Done, Contract!Idle, Contract!Next
<1>10. CASE Handles
  BY <1>3, <1>10, RebootResets
     DEF Handles, device_status, system_answers, other_returns, Reboot, Contract!Next
<1>11. CASE GpioReads
  BY <1>2, <1>11 DEF GpioReads, table
<1>12. CASE GpioReturns
  BY <1>3, <1>12 DEF GpioReturns, Contract!Next
<1>13. CASE Fault \/ PowerFails
  BY <1>13, RebootResets DEF Fault, PowerFails, Reboot, Contract!Next
<1>14. CASE LinkUp \/ LinkDown \/ Settle \/ UNCHANGED vars
  BY <1>2, <1>14 DEF LinkUp, LinkDown, Settle, vars, router, table
<1> QED
  BY <1>4, <1>5, <1>6, <1>7, <1>8, <1>9, <1>10, <1>11, <1>12, <1>13, <1>14
     DEF Next, Serves

\* cmd.c:56-72 and 131-139: for every table, application and set of messages the
\* router is a dictionary, though its registrations are stored piecemeal while
\* the websocket task walks them, and a dispatcher that keeps the order.
THEOREM DispatcherImplemented == Spec => ImplementsDispatcher
<1>1. Init => Contract!Init
  <2> SUFFICES ASSUME Init PROVE Contract!Init
    OBVIOUS
  <2>1. \A c, h : ~Routed(c, h)
    BY ConstantFacts DEF Init, RouterInit, Routed, StopsAt, Slots
  <2>2. DOMAIN Routes = {}
    BY <2>1 DEF Routes, Known
  <2> QED
    BY <2>2 DEF Init, RouterInit, Asked, Called, Contract!Init
<1>2. TableInv /\ TableInv' /\ TurnInv /\ [Next]_vars
         => [Contract!Next]_<<Routes, Asked, next, Called>>
  BY DispatchStep
<1>3. Init => TurnInv
  BY TurnInit DEF Init
<1> QED
  BY <1>1, <1>2, <1>3, TurnStep, TableInvAlways, PTL
     DEF Spec, ImplementsDispatcher, Contract!Spec
=============================================================================
