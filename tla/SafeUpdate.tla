----------------------------- MODULE SafeUpdate -----------------------------
(***************************************************************************)
(* What over-the-air updates promise to whoever owns the device, however   *)
(* power fails: an image goes on trial only on top of a good one, a trial  *)
(* ends in the image being kept or in the good one running again, and an   *)
(* image the cloud was told about as a success is never gone back behind.  *)
(* Ota is shown to implement it.                                           *)
(***************************************************************************)
EXTENDS Naturals

VARIABLES
    rollback,   \* without it an image is good as soon as it runs
    runs,       \* the image that runs
    good,       \* the newest image that was kept
    reported    \* the images that have reported a success

Init == rollback \in BOOLEAN /\ runs = 0 /\ good = 0 /\ reported = {}

Try ==
    /\ runs = good
    /\ runs' = runs + 1
    /\ good' = IF rollback THEN good ELSE runs + 1
    /\ UNCHANGED <<rollback, reported>>

Keep   == runs # good /\ good' = runs /\ UNCHANGED <<rollback, runs, reported>>
GoBack == runs # good /\ runs' = good /\ UNCHANGED <<rollback, good, reported>>

Report ==
    /\ runs = good
    /\ reported' = reported \cup {runs}
    /\ UNCHANGED <<rollback, runs, good>>

Next == Try \/ Keep \/ GoBack \/ Report

Spec == Init /\ [][Next]_<<rollback, runs, good, reported>>
=============================================================================
