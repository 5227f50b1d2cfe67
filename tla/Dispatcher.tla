----------------------------- MODULE Dispatcher -----------------------------
(***************************************************************************)
(* What the command router promises to applications and dashboards: names  *)
(* and handlers are a dictionary, in which a name appears all at once and  *)
(* keeps its handler until the next boot; the commands of a message are    *)
(* taken in their order, one at a time; each that has a name in the        *)
(* dictionary is given to that name's handler, and no other is given to    *)
(* anybody.  CmdRouter, on the two tasks of Commands, implements it.       *)
(***************************************************************************)
EXTENDS Naturals, Sequences

CONSTANTS Names, Handlers, NULL

VARIABLES
    routes,     \* the dictionary
    asked,      \* the names the message under way asks for, in its order
    next,       \* index of the next of them
    called      \* the name and the handler being served, or NULL

Init == DOMAIN routes = {} /\ asked = <<>> /\ next = 1 /\ called = NULL

\* A name that is known is not learned again.
Learn ==
    /\ UNCHANGED <<asked, next, called>>
    /\ routes' # routes
    /\ \E c \in Names \ DOMAIN routes, h \in Handlers :
          routes' = [x \in DOMAIN routes \cup {c} |-> IF x = c THEN h ELSE routes[x]]

Idle == called = NULL /\ next > Len(asked)

\* Any message may come.
Take == Idle /\ next' = 1 /\ UNCHANGED <<routes, called>>

Done == Idle /\ asked' = <<>> /\ UNCHANGED <<routes, next, called>>

Dispatch ==
    /\ called = NULL /\ next <= Len(asked)
    /\ called' = IF asked[next] \in DOMAIN routes
                 THEN <<asked[next], routes[asked[next]]>> ELSE NULL
    /\ next' = next + 1
    /\ UNCHANGED <<routes, asked>>

Return == called' = NULL /\ UNCHANGED <<routes, asked, next>>

\* The board restarts, at any point.
Reset == called' = NULL /\ next' = 1 /\ asked' = <<>> /\ DOMAIN routes' = {}

Next == Take \/ Done \/ Dispatch \/ Return \/ Reset \/ Learn

Spec == Init /\ [][Next]_<<routes, asked, next, called>>
=============================================================================
