------------------------------ MODULE Commands ------------------------------
(***************************************************************************)
(* The command router together with the pins it switches: the main task    *)
(* registers handlers and restores pins while the websocket task serves    *)
(* messages, and the board may restart at any moment.                      *)
(***************************************************************************)
EXTENDS Gpio

vars == <<router, gpio>>

TypeOK == RouterTypeOK /\ GpioTypeOK

Init == RouterInit /\ GpioInit

Reboot == RouterReboot /\ GpioReboot
-----------------------------------------------------------------------------
(* The main task does one thing at a time.                                 *)

Boots ==
    /\ restoring = NULL
    /\ RegisterBuiltin \/ Start
    /\ UNCHANGED gpio

Registers ==
    /\ restoring = NULL
    /\ AppRegisters
    /\ UNCHANGED gpio

Stores == (\E part \in Parts : Store(part)) /\ UNCHANGED gpio

\* "Call this before or during hyperwisor_init" (gpio.h).
Allowlist == ~started /\ registering = NULL /\ SetAllowlist /\ UNCHANGED router

\* The library never does; the application may, whenever it likes.
Restores == InitDone /\ registering = NULL /\ RestoreBegin /\ UNCHANGED router

RestoreStep == (RestoreLoad \/ RestoreDrive \/ RestoreEnd) /\ UNCHANGED router
-----------------------------------------------------------------------------
(* The websocket task.                                                     *)

Serves == (Receive \/ Skip \/ Call \/ Finish) /\ UNCHANGED gpio

Handles ==
    \/ (device_status \/ system_answers \/ other_returns) /\ UNCHANGED gpio
    \/ system_restarts /\ Reboot

\* handle_gpio_management, one action of its list after another.
GpioWrites ==
    /\ In("GPIO_MANAGEMENT")
    /\ \/ \E act \in GpioActs : BeginWrite(act)
       \/ digital_write \/ save_state
       \/ ~calm /\ save_fails
    /\ UNCHANGED router

GpioReads ==
    /\ In("GPIO_MANAGEMENT")
    /\ \E act \in GpioActs :
          /\ OnlyMode(act)
          /\ IF act.action = "READ"
             THEN \E level \in digital_read(act.gpio)' :
                     Reply(IF level = 1 THEN "HIGH" ELSE "LOW")
             ELSE UNCHANGED outbox
    /\ UNCHANGED <<table, boot, walk, online, calm>>

GpioReturns ==
    /\ In("GPIO_MANAGEMENT") /\ doing = NULL
    /\ UNCHANGED outbox
    /\ Returns
    /\ UNCHANGED gpio

\* The walk runs into a place that is half stored, or a handler of the
\* application or an update restarts the board.
Fault ==
    /\ Faults \/ (serving # NULL /\ serving.handler \notin
                    {"DEVICE_STATUS", "SYSTEM", "GPIO_MANAGEMENT"})
    /\ Reboot
    /\ UNCHANGED outbox
-----------------------------------------------------------------------------
(* The world.                                                              *)

LinkUp ==
    /\ started /\ ~online
    /\ online' = TRUE
    /\ UNCHANGED <<table, boot, walk, outbox, calm, gpio>>

LinkDown ==
    /\ ~calm /\ online
    /\ online' = FALSE
    /\ UNCHANGED <<table, boot, walk, outbox, calm, gpio>>

PowerFails == ~calm /\ Reboot /\ UNCHANGED outbox

Settle ==
    /\ ~calm
    /\ calm' = TRUE
    /\ UNCHANGED <<table, boot, walk, online, outbox, gpio>>
-----------------------------------------------------------------------------
Next ==
    \/ Boots \/ Registers \/ Stores \/ Allowlist \/ Restores \/ RestoreStep
    \/ Serves \/ Handles \/ GpioWrites \/ GpioReads \/ GpioReturns \/ Fault
    \/ LinkUp \/ LinkDown \/ PowerFails \/ Settle

Spec == Init /\ [][Next]_vars

\* What the websocket task does of itself, whichever way it goes.
Proceeds ==
    \/ (Skip \/ Call \/ Finish) /\ UNCHANGED gpio
    \/ Handles \/ Fault
    \/ In("GPIO_MANAGEMENT") /\ (digital_write \/ save_state) /\ UNCHANGED router

\* The websocket task runs, a registration that was begun is ended, and a list
\* of actions comes to its end.
Fairness == WF_vars(Proceeds) /\ WF_vars(Stores) /\ SF_vars(GpioReturns)

FairSpec == Spec /\ Fairness
=============================================================================
