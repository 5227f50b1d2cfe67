-------------------------------- MODULE Gpio --------------------------------
(***************************************************************************)
(* hyperwisor_gpio.c: the pins the cloud may switch, and the level saved   *)
(* in NVS for each.  The websocket task runs the GPIO_MANAGEMENT handler,  *)
(* the main task restores the saved levels, and power may fail between any *)
(* two of their steps.                                                     *)
(***************************************************************************)
EXTENDS CmdRouter

CONSTANTS
    Pins,
    ManagedPins,    \* managed_gpios of the board port
    GpioActs        \* the actions a command may hold

Levels == {0, 1}

\* A write the handler has begun, and a restore on its way.
Writes ==
    [gpio : Pins, status : {act.status : act \in GpioActs},
     at : {"write", "save"}, raced : BOOLEAN]
Restorations ==
    [left : SUBSET Pins, pin : Pins \cup {NULL}, state : Levels \cup {NULL}]

ASSUME PinAssumption ==
    /\ ManagedPins \subseteq Pins
    /\ \A act \in GpioActs : act.gpio \in Pins
    /\ NULL \notin Pins \cup Levels /\ NULL \notin Writes \cup Restorations

VARIABLES
    s_allowed_pins, \* the allowlist
    mode,           \* of each pin
    latch,          \* its output register, or NULL if not written since reset
    saved,          \* NVS key pin_<n>, or NULL
    doing,          \* the write the handler has begun, or NULL
    restoring,      \* how far hyperwisor_gpio_restore_all_states is, or NULL
    expected        \* levels the dashboard may expect of a pin (see below)

gpio == <<s_allowed_pins, mode, latch, saved, doing, restoring, expected>>

GpioTypeOK ==
    /\ s_allowed_pins \in SUBSET Pins
    /\ mode \in [Pins -> {"reset", "input", "output"}]
    /\ latch \in [Pins -> Levels \cup {NULL}]
    /\ saved \in [Pins -> Levels \cup {NULL}]
    /\ doing \in Writes \cup {NULL} /\ restoring \in Restorations \cup {NULL}
    /\ expected \in [Pins -> SUBSET Levels]

GpioInit ==
    /\ s_allowed_pins = {}
    /\ mode = [p \in Pins |-> "reset"]
    /\ latch = [p \in Pins |-> NULL]
    /\ saved = [p \in Pins |-> NULL]
    /\ doing = NULL /\ restoring = NULL
    /\ expected = [p \in Pins |-> {}]

\* Only NVS is left, and what the dashboard remembers.
GpioReboot ==
    /\ s_allowed_pins' = {}
    /\ mode' = [p \in Pins |-> "reset"]
    /\ latch' = [p \in Pins |-> NULL]
    /\ doing' = NULL /\ restoring' = NULL
    /\ UNCHANGED <<saved, expected>>

\* By hyperwisor_init from the board port, or by the application before it.
SetAllowlist ==
    /\ s_allowed_pins' = ManagedPins
    /\ UNCHANGED <<mode, latch, saved, doing, restoring, expected>>
-----------------------------------------------------------------------------
(* The handler.  Its list of actions is drawn as it is read.  A missing    *)
(* pin number is a NaN turned into an int, which may be any number.        *)

pin_is_allowed(p) == p \in s_allowed_pins

\* hyperwisor_gpio_set_pin_mode; an unknown mode changes nothing.
set_pin_mode(p, pinmode) ==
    mode' = CASE pinmode = "OUTPUT" -> [mode EXCEPT ![p] = "output"]
              [] pinmode \in {"INPUT", "INPUT_PULLUP", "INPUT_PULLDOWN"} ->
                     [mode EXCEPT ![p] = "input"]
              [] OTHER -> mode

\* What hyperwisor_gpio_digital_write writes; NULL is a status it refuses.
LevelOf(status) ==
    IF status \in {"HIGH", "1"} THEN 1
    ELSE IF status \in {"LOW", "0"} THEN 0 ELSE NULL

\* Mutant: the other spelling of high is saved as low.
SavedLevel_OneSpelling(status) == IF status = "HIGH" THEN 1 ELSE 0

\* What is saved: anything but high counts as low, a refused status too.
SavedLevel(status) == IF status \in {"HIGH", "1"} THEN 1 ELSE 0

\* From here until the command is through, either level is right.
BeginWrite(act) ==
    /\ doing = NULL
    /\ pin_is_allowed(act.gpio)
    /\ act.action \in {"ON", "OFF"} /\ act.status # NULL
    /\ set_pin_mode(act.gpio, act.pinmode)
    /\ doing' = [gpio |-> act.gpio, status |-> act.status, at |-> "write",
                 raced |-> restoring # NULL /\ restoring.pin = act.gpio]
    /\ expected' = [expected EXCEPT ![act.gpio] =
                      @ \cup {IF LevelOf(act.status) = 1 THEN 1 ELSE 0}]
    /\ UNCHANGED <<s_allowed_pins, latch, saved, restoring>>

\* An ON or OFF without a status, or an action of another name.
OnlyMode(act) ==
    /\ doing = NULL
    /\ pin_is_allowed(act.gpio)
    /\ act.action \notin {"ON", "OFF"} \/ act.status = NULL
    /\ set_pin_mode(act.gpio, act.pinmode)
    /\ UNCHANGED <<s_allowed_pins, latch, saved, doing, restoring, expected>>

\* hyperwisor_gpio_digital_write
digital_write ==
    /\ doing # NULL /\ doing.at = "write"
    /\ latch' = IF LevelOf(doing.status) = NULL THEN latch
                ELSE [latch EXCEPT ![doing.gpio] = LevelOf(doing.status)]
    /\ doing' = [doing EXCEPT !.at = "save"]
    /\ UNCHANGED <<s_allowed_pins, mode, saved, restoring, expected>>

\* hyperwisor_gpio_save_state.  The command is through, and its level is the
\* one to expect, unless the pin refused it or a restore ran beside it.
save_state ==
    /\ doing # NULL /\ doing.at = "save"
    /\ saved' = [saved EXCEPT ![doing.gpio] = SavedLevel(doing.status)]
    /\ expected' = IF LevelOf(doing.status) = NULL \/ doing.raced THEN expected
                   ELSE [expected EXCEPT ![doing.gpio] = {LevelOf(doing.status)}]
    /\ doing' = NULL
    /\ UNCHANGED <<s_allowed_pins, mode, latch, restoring>>

\* NVS may refuse; the handler does not look.
save_fails ==
    /\ doing # NULL /\ doing.at = "save"
    /\ doing' = NULL
    /\ UNCHANGED <<s_allowed_pins, mode, latch, saved, restoring, expected>>

\* gpio_get_level: a pin set up as output only has its input switched off and
\* reads as zero; on any other the world outside decides.
digital_read(p) == IF mode[p] = "output" THEN {0} ELSE Levels
-----------------------------------------------------------------------------
(* hyperwisor_gpio_restore_all_states, on the main task.                   *)

RestoreBegin ==
    /\ restoring = NULL
    /\ s_allowed_pins # {}
    /\ restoring' = [left |-> s_allowed_pins, pin |-> NULL, state |-> NULL]
    /\ UNCHANGED <<s_allowed_pins, mode, latch, saved, doing, expected>>

\* load_state; a pin without a saved state is passed over.
RestoreLoad ==
    /\ restoring # NULL /\ restoring.pin = NULL
    /\ \E p \in restoring.left :
          /\ restoring' = [left |-> restoring.left \ {p}, state |-> saved[p],
                           pin |-> IF saved[p] = NULL THEN NULL ELSE p]
          /\ doing' = IF doing # NULL /\ doing.gpio = p
                      THEN [doing EXCEPT !.raced = TRUE] ELSE doing
    /\ UNCHANGED <<s_allowed_pins, mode, latch, saved, expected>>

\* Whatever mode the pin had, it is an output now.
RestoreDrive ==
    /\ restoring # NULL /\ restoring.pin # NULL
    /\ mode' = [mode EXCEPT ![restoring.pin] = "output"]
    /\ latch' = [latch EXCEPT ![restoring.pin] = restoring.state]
    /\ restoring' = [restoring EXCEPT !.pin = NULL]
    /\ UNCHANGED <<s_allowed_pins, saved, doing, expected>>

RestoreEnd ==
    /\ restoring # NULL /\ restoring.pin = NULL /\ restoring.left = {}
    /\ restoring' = NULL
    /\ UNCHANGED <<s_allowed_pins, mode, latch, saved, doing, expected>>
-----------------------------------------------------------------------------
(* Properties.                                                             *)

\* gpio.c:7 and the README, "outputs across reboots": a pin that is driven has
\* the level of the last command that went through, before and after any
\* number of restarts and restores.  Where a command was cut off by a power
\* failure, refused by the pin, not saved, or overlapped by a restore, it may
\* also have the level of that command or of the one before, and no other.
PinKeepsCommand == \A p \in Pins : latch[p] # NULL => latch[p] \in expected[p]
=============================================================================
