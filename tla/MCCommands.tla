----------------------------- MODULE MCCommands -----------------------------
(***************************************************************************)
(* Commands for TLC: three built-ins and room for two registrations of the *)
(* application, which also tries to take DEVICE_STATUS over; a managed pin *)
(* and another one.                                                        *)
(***************************************************************************)
EXTENDS Commands

MCBuiltins == <<"GPIO_MANAGEMENT", "SYSTEM", "DEVICE_STATUS">>

Status    == [command |-> "DEVICE_STATUS"]
Gpios     == [command |-> "GPIO_MANAGEMENT"]
System(a) == [command |-> "SYSTEM", params |-> [action |-> a]]
Relay     == [command |-> "relay",
              actions |-> <<[action |-> "update", params |-> "on"]>>]
Nameless  == [actions |-> <<>>]

Message(sender, commands) ==
    [from |-> sender, payload |-> [commands |-> commands]]

MCMessages ==
    {Message("dashboard", <<Relay, Gpios, Status>>),
     Message(NULL, <<Nameless, Status, System("info"), System("restart")>>),
     Message("", <<Status>>),
     [from |-> "dashboard"]}

Act(a, p, pinmode, status) ==
    [action |-> a, gpio |-> p, pinmode |-> pinmode, status |-> status]

MCGpioActs ==
    {Act("ON", p, "OUTPUT", "1") : p \in Pins} \cup
    {Act("OFF", p, "INPUT", "LOW") : p \in Pins} \cup
    {Act("ON", p, NULL, "toggle") : p \in Pins} \cup
    {Act("READ", p, NULL, NULL) : p \in Pins}
=============================================================================
