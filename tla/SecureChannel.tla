--------------------------- MODULE SecureChannel ---------------------------
(***************************************************************************)
(* What hyperwisor_ws.c promises its callers, whoever creates and tears    *)
(* down clients behind it: one connection at a time, and a gate that opens *)
(* for a connection the relay has accepted and stays open while it lasts.  *)
(* WsClient is shown to implement it.                                      *)
(***************************************************************************)

VARIABLES
    link,   \* the connection, as the two ends together see it
    gate    \* hyperwisor_ws_send takes frames

TypeOK ==
    /\ link \in {"down", "opening", "handshake", "accepted"}
    /\ gate \in BOOLEAN

Init == link = "down" /\ gate = FALSE

\* While the CONNECTED event is handled the gate may stand open: the flag of an
\* earlier connection is forgotten a line after the socket counts as usable.
Open == link = "down" /\ link' = "opening" /\ gate' \in BOOLEAN

\* From here the gate is shut, unless the device uses no security.
Enter ==
    /\ link = "opening"
    /\ \/ link' = "handshake" /\ gate' = FALSE
       \/ link' = "accepted" /\ gate' = TRUE

\* The relay accepts, and the device learns of it.
Accept == link = "handshake" /\ link' = "accepted" /\ UNCHANGED gate
Unlock == link = "accepted" /\ gate' = TRUE /\ UNCHANGED link

\* The connection ends, and sooner or later the gate shuts: not before.
Drop == link # "down" /\ link' = "down" /\ gate' \in BOOLEAN /\ (gate' => gate)
Shut == link = "down" /\ gate' = FALSE /\ UNCHANGED link

Next == Open \/ Enter \/ Accept \/ Unlock \/ Drop \/ Shut

Spec == Init /\ [][Next]_<<link, gate>>
=============================================================================
