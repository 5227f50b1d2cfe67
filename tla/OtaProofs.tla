------------------------------ MODULE OtaProofs -------------------------------
(***************************************************************************)
(* Proofs about Ota, for any number of updates, with and without rollback: *)
(* an update never shares the network with the websocket, and never takes  *)
(* away the image to fall back on.                                         *)
(***************************************************************************)
EXTENDS Ota, TLAPS

\* The slot an update is written to is never the one that runs.
LEMMA OtherSlot ==
    ASSUME NEW s \in Slots
    PROVE  Other(s) \in Slots /\ Other(s) # s /\ Other(Other(s)) = s
<1>1. \E o \in Slots : o # s
  BY DEF Slots
<1>2. Other(s) \in Slots /\ Other(s) # s
  BY <1>1 DEF Other
<1>3. \E o \in Slots : o # Other(s)
  BY DEF Slots
<1>4. Other(Other(s)) \in Slots /\ Other(Other(s)) # Other(s)
  BY <1>3 DEF Other
<1> QED
  BY <1>2, <1>4 DEF Slots

\* What a slot can hold, and that the slots are slots: the part of the type
\* invariant the proofs need.
SlotType ==
    /\ boot_slot \in Slots /\ running \in Slots
    /\ otadata \in [Slots -> SlotStates]

Busy == {"stopped", "download", "finish", "save", "flag"}

\* The flag is up before the link is taken down, and the link stays down while
\* the update has the network.
LinkInv ==
    /\ ota \in Busy \cup {"raised"} => s_ota_in_progress
    /\ ota \in Busy => ~linked

\* The bootloader's choice runs until an update selects the other slot; what
\* runs is confirmed as soon as the boot is over.
SlotInv ==
    /\ ota \notin Selected => boot_slot = running
    /\ ota \in Selected => boot_slot = Other(running)
    /\ IF ota = "boot" THEN otadata[running] # "new"
                       ELSE otadata[running] \in {"undefined", "valid"}

IInv == SlotType /\ LinkInv /\ SlotInv /\ FallbackImage

\* The bootloader leaves a slot to run that is neither new nor aborted, and one
\* to fall back on whenever it is not confirmed.
LEMMA BootloaderKeeps ==
    ASSUME SlotType, FallbackImage, Bootloader
    PROVE  /\ boot_slot' \in Slots /\ running' = boot_slot'
           /\ otadata' \in [Slots -> SlotStates]
           /\ FallbackImage'
           /\ otadata'[running'] # "new"
<1> USE DEF SlotType, FallbackImage
<1>0. /\ Other(boot_slot) \in Slots /\ Other(boot_slot) # boot_slot
      /\ Other(Other(boot_slot)) = boot_slot
  BY OtherSlot
<1>1. CASE rollback /\ otadata[boot_slot] = "pending_verify"
  <2>1. /\ boot_slot' = Other(boot_slot) /\ running' = Other(boot_slot)
        /\ otadata' = [otadata EXCEPT ![boot_slot] = "aborted"]
    BY <1>1 DEF Bootloader
  <2>2. otadata'[boot_slot'] \in {"undefined", "valid"}
    BY <1>0, <1>1, <2>1 DEF SlotStates
  <2> QED
    BY <1>0, <2>1, <2>2 DEF SlotStates
<1>2. CASE ~(rollback /\ otadata[boot_slot] = "pending_verify")
  <2>1. /\ boot_slot' = boot_slot /\ running' = boot_slot
        /\ otadata' = [otadata EXCEPT ![boot_slot] =
                         IF @ = "new" THEN "pending_verify" ELSE @]
    BY <1>2 DEF Bootloader
  <2>2. otadata'[Other(boot_slot)] = otadata[Other(boot_slot)]
    BY <1>0, <2>1
  <2>3. Other(boot_slot') = Other(boot_slot)
    BY <2>1
  <2>4. otadata' \in [Slots -> SlotStates]
    BY <2>1 DEF SlotStates
  <2>5. otadata'[boot_slot] \in {"new", "pending_verify"}
          => otadata[boot_slot] \in {"new", "pending_verify"}
    BY <2>1 DEF SlotStates
  <2>6. otadata'[boot_slot] \notin {"aborted", "new"}
    BY <2>1 DEF SlotStates
  <2> QED
    BY <2>1, <2>2, <2>3, <2>4, <2>5, <2>6
<1> QED
  BY <1>1, <1>2

LEMMA IInvInit == Init => IInv
<1> SUFFICES ASSUME Init PROVE IInv
  OBVIOUS
<1>1. SlotType
  BY DEF Init, SlotType, Slots, SlotStates
<1>2. LinkInv /\ SlotInv /\ FallbackImage
  BY DEF Init, LinkInv, SlotInv, FallbackImage, Busy, Selected, Slots
<1> QED
  BY <1>1, <1>2 DEF IInv

\* A reboot, for whatever reason.
LEMMA RebootKeeps ==
    ASSUME IInv, Reboot
    PROVE  IInv'
<1>1. /\ boot_slot' \in Slots /\ running' = boot_slot'
      /\ otadata' \in [Slots -> SlotStates]
      /\ FallbackImage'
      /\ otadata'[running'] # "new"
  BY BootloaderKeeps DEF IInv, Reboot
<1>2. ota' = "boot"
  BY DEF Reboot
<1> QED
  BY <1>1, <1>2 DEF IInv, SlotType, LinkInv, SlotInv, Busy, Selected

LEMMA IInvNext == IInv /\ [Next]_vars => IInv'
<1> SUFFICES ASSUME IInv, [Next]_vars PROVE IInv'
  OBVIOUS
<1> USE DEF IInv, SlotType, LinkInv, SlotInv, FallbackImage, Busy, Selected, Up,
        flash, keys, nvs, ram, link
<1>1. CASE confirm_good_boot
  <2>1. CASE otadata[running] = "pending_verify"
    <3>1. /\ otadata' = [otadata EXCEPT ![running] = "valid"]
          /\ boot_slot' = boot_slot /\ running' = running
          /\ ota = "boot" /\ ota' = "marked"
      BY <1>1, <2>1 DEF confirm_good_boot
    <3>2. /\ otadata'[running] = "valid"
          /\ otadata' \in [Slots -> SlotStates]
          /\ boot_slot' = running
      BY <3>1 DEF SlotStates
    <3> QED
      BY <3>1, <3>2
  <2>2. CASE otadata[running] # "pending_verify"
    BY <1>1, <2>2 DEF confirm_good_boot, SlotStates
  <2> QED
    BY <2>1, <2>2
<1>17. CASE ConfirmVersion
  BY <1>17 DEF ConfirmVersion
<1>18. CASE SaveVersion
  BY <1>18 DEF SaveVersion
<1>2. CASE Crash
  BY <1>2, RebootKeeps DEF Crash
<1>3. CASE LinkUp
  BY <1>3 DEF LinkUp
<1>4. CASE LinkDown
  BY <1>4 DEF LinkDown
<1>5. CASE Start
  BY <1>5 DEF Start
<1>6. CASE StopWebSocket
  <2>1. s_ota_in_progress' = s_ota_in_progress /\ linked' = FALSE
    BY <1>6 DEF StopWebSocket
  <2> QED
    BY <1>6, <2>1 DEF StopWebSocket
<1>16. CASE Begin
  BY <1>16 DEF Begin
<1>7. CASE BeginFails \/ FinishFails
  BY <1>7 DEF BeginFails, FinishFails, Return
<1>8. CASE DownloadDone \/ DownloadFails \/ StoreReason
  BY <1>8 DEF DownloadDone, DownloadFails, StoreReason, Return
<1>9. CASE Finish
  <2> DEFINE s == Other(running)
  <2>1. s \in Slots /\ s # running /\ Other(s) = running
    BY OtherSlot
  <2>2. /\ otadata' = [otadata EXCEPT ![s] = IF rollback THEN "new" ELSE "undefined"]
        /\ boot_slot' = s /\ running' = running
        /\ ota = "finish" /\ ota' = "save"
        /\ s_ota_in_progress' = s_ota_in_progress /\ linked' = linked
    BY <1>9 DEF Finish
  <2>3. otadata'[running] = otadata[running]
    BY <2>1, <2>2
  <2>4. otadata' \in [Slots -> SlotStates]
    BY <2>2 DEF SlotStates
  <2>5. otadata'[s] \in {"new", "undefined"}
    BY <2>1, <2>2
  <2>6. Other(boot_slot') = running
    BY <2>1, <2>2
  <2>7. otadata[running] \in {"undefined", "valid"}
    BY <2>2
  <2>8. FallbackImage'
    BY <2>2, <2>3, <2>5, <2>6, <2>7
  <2>9. SlotType' /\ SlotInv'
    BY <2>1, <2>2, <2>3, <2>4, <2>7
  <2> QED
    BY <2>2, <2>8, <2>9
<1>10. CASE StoreFlag
  BY <1>10 DEF StoreFlag
<1>11. CASE RestartIntoUpdate
  BY <1>11, RebootKeeps DEF RestartIntoUpdate
<1>12. CASE ClearSuccess \/ ClearFailure
  BY <1>12 DEF ClearSuccess, ClearFailure
<1>13. CASE SendSuccess \/ SendFailure
  BY <1>13 DEF SendSuccess, SendFailure
<1>14. CASE Settle
  BY <1>14 DEF Settle
<1>15. CASE UNCHANGED vars
  BY <1>15 DEF vars
<1> QED
  BY <1>1, <1>2, <1>3, <1>4, <1>5, <1>6, <1>7, <1>8, <1>9, <1>10, <1>11, <1>12,
     <1>13, <1>14, <1>15, <1>16, <1>17, <1>18 DEF Next, Core, Update, Confirm

LEMMA IInvAlways == Spec => []IInv
  BY IInvInit, IInvNext, PTL DEF Spec

\* ota.h:71-78: the websocket is down for the whole of a download, for every
\* interleaving of the core task with any number of updates.
THEOREM NoLinkDuringDownloadAlways == Spec => []NoLinkDuringDownload
<1>1. IInv => NoLinkDuringDownload
  BY DEF IInv, LinkInv, Busy, NoLinkDuringDownload
<1> QED
  BY <1>1, IInvAlways, PTL

\* ota.c:285-287: whatever power failures, failed downloads and rollbacks come
\* before it, an unconfirmed image has a confirmed or factory one beside it.
THEOREM FallbackImageAlways == Spec => []FallbackImage
<1>1. IInv => FallbackImage
  BY DEF IInv
<1> QED
  BY <1>1, IInvAlways, PTL
-----------------------------------------------------------------------------
(* Types.                                                                  *)

\* While an update is under way there is still an image left to build.
TypeInv ==
    /\ TypeOK
    /\ ota \in {"raised", "stopped", "download", "finish"} =>
          image[running] < MaxUpdates

LEMMA TypeInit == Init => TypeInv
<1> SUFFICES ASSUME Init PROVE TypeInv
  OBVIOUS
<1>1. /\ image \in [Slots -> Images] /\ otadata \in [Slots -> SlotStates]
      /\ firmware \in Images /\ version \in Images
  BY OtaAssumption DEF Init, Images, SlotStates
<1>2. boot_slot \in Slots /\ running \in Slots /\ told \subseteq Messages
  BY DEF Init, Slots
<1>3. TypeOK
  BY <1>1, <1>2 DEF Init, TypeOK
<1> QED
  BY <1>3 DEF Init, TypeInv

\* The steps that write flash or NVS, or send.
LEMMA BootType ==
    ASSUME TypeInv, Reboot \/ confirm_good_boot \/ ConfirmVersion
    PROVE  TypeInv'
<1> USE DEF TypeInv, TypeOK, SlotStates, flash, keys, nvs, ram, link
<1>1. CASE Reboot
  <2>1. SlotType /\ Other(boot_slot) \in Slots
    BY OtherSlot DEF SlotType
  <2>2. boot_slot' \in Slots /\ running' \in Slots /\ otadata' \in [Slots -> SlotStates]
    BY <1>1, <2>1 DEF Reboot, Bootloader
  <2> QED
    BY <1>1, <2>2 DEF Reboot
<1>2. CASE confirm_good_boot
  BY <1>2 DEF confirm_good_boot
<1>3. CASE ConfirmVersion
  <2>1. firmware' \in Images
    BY <1>3 DEF ConfirmVersion, Refused
  <2> QED
    BY <1>3, <2>1 DEF ConfirmVersion
<1> QED
  BY <1>1, <1>2, <1>3

LEMMA FinishType == TypeInv /\ Finish => TypeInv'
<1> SUFFICES ASSUME TypeInv, Finish PROVE TypeInv'
  OBVIOUS
<1> DEFINE s == Other(running)
<1>1. s \in Slots
  BY OtherSlot DEF TypeInv, TypeOK
<1>2. image[running] + 1 \in Images
  BY OtaAssumption DEF TypeInv, TypeOK, Finish, Images
<1>3. /\ image' \in [Slots -> Images] /\ otadata' \in [Slots -> SlotStates]
      /\ boot_slot' \in Slots
  BY <1>1, <1>2 DEF Finish, TypeInv, TypeOK, SlotStates
<1> QED
  BY <1>3 DEF Finish, TypeInv, TypeOK, keys, nvs, ram, link

LEMMA SendType == TypeInv /\ (SendSuccess \/ SendFailure) => TypeInv'
<1> SUFFICES ASSUME TypeInv, SendSuccess \/ SendFailure PROVE TypeInv'
  OBVIOUS
<1>1. \A kind \in {"success", "failure"} :
         [kind |-> kind, image |-> image[running]] \in Messages
  BY DEF TypeInv, TypeOK, Messages
<1>2. told' \subseteq Messages
  BY <1>1 DEF SendSuccess, SendFailure, Deliver, TypeInv, TypeOK
<1> QED
  BY <1>2 DEF SendSuccess, SendFailure, TypeInv, TypeOK, flash, keys, nvs, ram, link

LEMMA TypeNext == TypeInv /\ [Next]_vars => TypeInv'
<1> SUFFICES ASSUME TypeInv, [Next]_vars PROVE TypeInv'
  OBVIOUS
<1>1. CASE Confirm \/ Crash \/ RestartIntoUpdate
  BY <1>1, BootType DEF Confirm, Crash, RestartIntoUpdate
<1>2. CASE Finish \/ SendSuccess \/ SendFailure
  BY <1>2, FinishType, SendType
<1> USE DEF TypeInv, TypeOK, flash, keys, nvs, ram, link
<1>3. CASE LinkUp \/ LinkDown
  <2>1. CASE LinkUp
    BY <2>1 DEF LinkUp
  <2>2. CASE LinkDown
    BY <2>2 DEF LinkDown
  <2> QED
    BY <1>3, <2>1, <2>2
<1>9. CASE Settle
  BY <1>9 DEF Settle
<1>10. CASE UNCHANGED vars
  BY <1>10 DEF vars
<1>4. CASE Start
  BY <1>4, OtaAssumption DEF Start, Images
<1>5. CASE StopWebSocket \/ Begin \/ DownloadDone
  <2>1. CASE StopWebSocket
    BY <2>1 DEF StopWebSocket
  <2>2. CASE Begin
    BY <2>2 DEF Begin
  <2>3. CASE DownloadDone
    BY <2>3 DEF DownloadDone
  <2> QED
    BY <1>5, <2>1, <2>2, <2>3
<1>6. CASE BeginFails \/ FinishFails \/ DownloadFails \/ StoreReason
  <2>1. CASE BeginFails
    BY <2>1 DEF BeginFails, Refused, Return
  <2>2. CASE FinishFails
    BY <2>2 DEF FinishFails, Refused, Return
  <2>3. CASE DownloadFails
    BY <2>3 DEF DownloadFails, Refused, Return
  <2>4. CASE StoreReason
    BY <2>4 DEF StoreReason, Refused, Return
  <2> QED
    BY <1>6, <2>1, <2>2, <2>3, <2>4
<1>7. CASE SaveVersion \/ StoreFlag
  <2>1. firmware' \in Images
    BY <1>7 DEF SaveVersion, StoreFlag, Refused
  <2> QED
    BY <1>7, <2>1 DEF SaveVersion, StoreFlag, Refused
<1>8. CASE ClearSuccess \/ ClearFailure
  <2>1. CASE ClearSuccess
    BY <2>1 DEF ClearSuccess, Refused
  <2>2. CASE ClearFailure
    BY <2>2 DEF ClearFailure, Refused
  <2> QED
    BY <1>8, <2>1, <2>2
<1> QED
  BY <1>1, <1>2, <1>3, <1>4, <1>5, <1>6, <1>7, <1>8, <1>9, <1>10
     DEF Next, Core, Update

LEMMA TypeInvAlways == Spec => []TypeInv
  BY TypeInit, TypeNext, PTL DEF Spec

\* Flash, NVS, memory and what the cloud was told keep their types.
THEOREM TypeCorrect == Spec => []TypeOK
<1>1. TypeInv => TypeOK
  BY DEF TypeInv
<1> QED
  BY <1>1, TypeInvAlways, PTL
-----------------------------------------------------------------------------
(* The version.                                                            *)

\* The stored version is no newer than any image that may run before it is
\* stored again: the one that runs, the one selected, and the one to fall back on.
VersionInv ==
    /\ NeverClaimsNewer
    /\ firmware <= image[boot_slot]
    /\ otadata[boot_slot] \in {"new", "pending_verify"} =>
          firmware <= image[Other(boot_slot)]
    /\ ota \in Selected => image[running] <= image[boot_slot]

\* What the comparisons need of the types.
LEMMA Numbers ==
    ASSUME TypeInv
    PROVE  /\ firmware \in Nat /\ version \in Nat
           /\ \A s \in Slots : image[s] \in Nat
           /\ running \in Slots /\ boot_slot \in Slots
           /\ image \in [Slots -> Images] /\ otadata \in [Slots -> SlotStates]
  BY OtaAssumption DEF TypeInv, TypeOK, Images

LEMMA VersionInit == Init => VersionInv
<1> SUFFICES ASSUME Init PROVE VersionInv
  OBVIOUS
<1>1. boot_slot \in Slots /\ running \in Slots /\ Other(boot_slot) \in Slots
  BY OtherSlot DEF Init, Slots
<1>2. \A s \in Slots : image[s] = 0
  BY DEF Init
<1>3. firmware = 0 /\ version = 0 /\ ota = "boot"
  BY DEF Init
<1> QED
  BY <1>1, <1>2, <1>3 DEF VersionInv, NeverClaimsNewer, Selected

LEMMA VersionReboot ==
    ASSUME TypeInv, IInv, VersionInv, Reboot
    PROVE  VersionInv'
<1>1. ota' = "boot" /\ version' = firmware /\ firmware' = firmware /\ image' = image
  BY DEF Reboot, nvs
<1>2. Other(boot_slot) \in Slots /\ Other(Other(boot_slot)) = boot_slot
  BY OtherSlot, Numbers
<1>3. CASE rollback /\ otadata[boot_slot] = "pending_verify"
  <2>1. boot_slot' = Other(boot_slot) /\ running' = Other(boot_slot)
    BY <1>3 DEF Reboot, Bootloader
  <2>2. firmware <= image[Other(boot_slot)] /\ firmware <= image[boot_slot]
    BY <1>3 DEF VersionInv
  <2>3. Other(boot_slot)' = boot_slot
    BY <1>2, <2>1
  <2> QED
    BY <1>1, <2>1, <2>2, <2>3 DEF VersionInv, NeverClaimsNewer, Selected
<1>4. CASE ~(rollback /\ otadata[boot_slot] = "pending_verify")
  <2>1. /\ boot_slot' = boot_slot /\ running' = boot_slot
        /\ otadata' = [otadata EXCEPT ![boot_slot] =
                         IF @ = "new" THEN "pending_verify" ELSE @]
    BY <1>4 DEF Reboot, Bootloader
  <2>2. otadata'[boot_slot] \in {"new", "pending_verify"}
          => otadata[boot_slot] \in {"new", "pending_verify"}
    BY <2>1, Numbers
  <2>3. Other(boot_slot)' = Other(boot_slot)
    BY <2>1
  <2> QED
    BY <1>1, <2>1, <2>2, <2>3 DEF VersionInv, NeverClaimsNewer, Selected
<1> QED
  BY <1>3, <1>4

LEMMA VersionFinish ==
    ASSUME TypeInv, IInv, VersionInv, Finish
    PROVE  VersionInv'
<1> DEFINE s == Other(running)
<1>1. s \in Slots /\ s # running /\ Other(s) = running
  BY OtherSlot, Numbers
<1>2. /\ boot_slot' = s /\ running' = running /\ ota' = "save"
      /\ image' = [image EXCEPT ![s] = image[running] + 1]
      /\ firmware' = firmware /\ version' = version
  BY DEF Finish, nvs, ram
<1>3. image'[running] = image[running] /\ image'[s] = image[running] + 1
  BY <1>1, <1>2, Numbers
<1>4. firmware <= image[running] /\ version <= image[running]
  BY DEF VersionInv, NeverClaimsNewer
<1>5. Other(boot_slot)' = running
  BY <1>1, <1>2
<1>6. firmware <= image[running] + 1 /\ image[running] <= image[running] + 1
  BY <1>4, Numbers
<1> QED
  BY <1>2, <1>3, <1>4, <1>5, <1>6 DEF VersionInv, NeverClaimsNewer

\* Storing the version of the image that runs, at its confirmation or when the
\* next one has been selected.
LEMMA VersionStore ==
    ASSUME TypeInv, IInv, VersionInv, ConfirmVersion \/ SaveVersion
    PROVE  VersionInv'
<1> USE DEF VersionInv, NeverClaimsNewer, IInv, SlotInv, Selected
<1>1. /\ firmware' \in {firmware, image[running]} /\ version' = version
      /\ image' = image /\ running' = running /\ boot_slot' = boot_slot
      /\ otadata' = otadata
  BY DEF ConfirmVersion, SaveVersion, Refused, flash, ram
<1>2. Other(boot_slot)' = Other(boot_slot)
  BY <1>1
<1>3. CASE ConfirmVersion
  BY <1>1, <1>3, Numbers DEF ConfirmVersion
<1>4. CASE SaveVersion
  <2>1. boot_slot = Other(running) /\ Other(boot_slot) = running
    BY <1>4, OtherSlot, Numbers DEF SaveVersion
  <2>2. image[running] <= image[boot_slot]
    BY <1>4 DEF SaveVersion
  <2>3. ota' = "flag"
    BY <1>4 DEF SaveVersion
  <2> QED
    BY <1>1, <1>2, <2>1, <2>2, <2>3, Numbers
<1> QED
  BY <1>3, <1>4

LEMMA VersionConfirm ==
    ASSUME TypeInv, IInv, VersionInv, confirm_good_boot
    PROVE  VersionInv'
<1>1. /\ firmware' = firmware /\ version' = version /\ image' = image
      /\ running' = running /\ boot_slot' = boot_slot /\ ota' \in {"marked", "none"}
      /\ \/ otadata' = otadata
         \/ otadata' = [otadata EXCEPT ![running] = "valid"]
  BY DEF confirm_good_boot, nvs
<1>2. boot_slot = running
  BY DEF IInv, SlotInv, Selected, confirm_good_boot
<1>3. otadata'[boot_slot] \in {"new", "pending_verify"}
         => otadata[boot_slot] \in {"new", "pending_verify"}
  BY <1>1, <1>2, Numbers
<1>4. Other(boot_slot)' = Other(boot_slot)
  BY <1>1
<1> QED
  BY <1>1, <1>3, <1>4 DEF VersionInv, NeverClaimsNewer, Selected

LEMMA VersionNext == TypeInv /\ IInv /\ VersionInv /\ [Next]_vars => VersionInv'
<1> SUFFICES ASSUME TypeInv, IInv, VersionInv, [Next]_vars PROVE VersionInv'
  OBVIOUS
<1>1. CASE Confirm \/ SaveVersion
  BY <1>1, VersionConfirm, VersionStore DEF Confirm
<1>2. CASE Crash \/ RestartIntoUpdate
  BY <1>2, VersionReboot DEF Crash, RestartIntoUpdate
<1>3. CASE Finish
  BY <1>3, VersionFinish
<1>4. ASSUME UNCHANGED <<flash, firmware, running, version>>,
             ota' \in Selected => ota \in Selected
      PROVE  VersionInv'
  <2>1. Other(boot_slot)' = Other(boot_slot)
    BY <1>4 DEF flash
  <2> QED
    BY <1>4, <2>1 DEF VersionInv, NeverClaimsNewer, flash
<1> USE DEF Selected, flash, keys, nvs, ram, link
<1>5. CASE LinkUp \/ LinkDown \/ Settle \/ UNCHANGED vars
  BY <1>4, <1>5 DEF LinkUp, LinkDown, Settle, vars
<1>6. CASE Start \/ StopWebSocket \/ Begin \/ DownloadDone
  BY <1>4, <1>6 DEF Start, StopWebSocket, Begin, DownloadDone
<1>7. CASE BeginFails \/ FinishFails \/ DownloadFails \/ StoreReason
  BY <1>4, <1>7 DEF BeginFails, FinishFails, DownloadFails, StoreReason, Return
<1>8. CASE StoreFlag
  BY <1>4, <1>8 DEF StoreFlag
<1>9. CASE ClearSuccess \/ ClearFailure \/ SendSuccess \/ SendFailure
  BY <1>4, <1>9 DEF ClearSuccess, ClearFailure, SendSuccess, SendFailure
<1> QED
  BY <1>1, <1>2, <1>3, <1>5, <1>6, <1>7, <1>8, <1>9 DEF Next, Core, Update

\* ota.h:14: no interleaving of boots, rollbacks, power failures and stores makes
\* a device call itself newer than the image it runs.
THEOREM NeverClaimsNewerAlways == Spec => []NeverClaimsNewer
<1>1. Spec => []VersionInv
  BY VersionInit, VersionNext, TypeInvAlways, IInvAlways, PTL DEF Spec
<1>2. VersionInv => NeverClaimsNewer
  BY DEF VersionInv
<1> QED
  BY <1>1, <1>2, PTL
-----------------------------------------------------------------------------
(* The promise of SafeUpdate.                                              *)

\* What the bootloader's choices rest on.  An image on trial, and one selected,
\* is the next after the one beside it; a selected one is still new, so that the
\* bootloader will try it and not abort it; without rollback nothing is on
\* trial; and the core task sends in boots that got past their confirmation.
TrialInv ==
    /\ ota \in Selected =>
          /\ image[boot_slot] = image[running] + 1
          /\ otadata[boot_slot] = IF rollback THEN "new" ELSE "undefined"
    /\ otadata[running] = "pending_verify" =>
          rollback /\ image[running] = image[Other(running)] + 1
    /\ core # "rest" => Up

LEMMA TrialInit == Init => TrialInv
<1> SUFFICES ASSUME Init PROVE TrialInv
  OBVIOUS
<1>1. running \in Slots /\ otadata[running] = "undefined"
  BY DEF Init, Slots
<1> QED
  BY <1>1 DEF Init, TrialInv, Selected

\* A reboot starts a trial, ends one, or starts what ran before.
LEMMA RebootChoice ==
    ASSUME TypeInv, IInv, TrialInv, Reboot
    PROVE  /\ TrialInv'
           /\ [Contract!Next]_<<rollback, image[running], Good, Reported>>
<1> DEFINE R == running  O == Other(running)
<1>1. /\ image' = image /\ told' = told /\ ota' = "boot" /\ core' = "rest"
      /\ rollback' = rollback
  BY DEF Reboot
<1>2. /\ R \in Slots /\ O \in Slots /\ O # R /\ Other(O) = R
      /\ image \in [Slots -> Images] /\ otadata \in [Slots -> SlotStates]
      /\ \A s \in Slots : image[s] \in Nat
  BY OtherSlot, Numbers
<1>3. Reported' = Reported
  BY <1>1 DEF Reported
<1>4. CASE ota \in Selected
  <2>1. /\ boot_slot = O /\ image[O] = image[R] + 1
        /\ otadata[O] = IF rollback THEN "new" ELSE "undefined"
        /\ otadata[R] # "pending_verify"
    BY <1>4 DEF IInv, SlotInv, TrialInv, Selected
  <2>2. /\ boot_slot' = O /\ running' = O
        /\ otadata' = [otadata EXCEPT ![O] = IF @ = "new" THEN "pending_verify" ELSE @]
    BY <2>1 DEF Reboot, Bootloader
  <2>3. otadata'[O] = IF rollback THEN "pending_verify" ELSE "undefined"
    BY <1>2, <2>1, <2>2
  <2>4. Other(running') = R
    BY <1>2, <2>2
  <2>5. TrialInv'
    BY <1>1, <2>1, <2>2, <2>3, <2>4 DEF TrialInv, Selected
  <2>6. Good = image[R] /\ Good' = IF rollback THEN image[R] ELSE image[R] + 1
    BY <1>1, <2>1, <2>2, <2>3, <2>4 DEF Good
  <2>7. Contract!Try
    BY <1>1, <1>3, <2>1, <2>2, <2>6 DEF Contract!Try
  <2> QED
    BY <2>5, <2>7 DEF Contract!Next
<1>5. CASE ota \notin Selected /\ otadata[R] = "pending_verify"
  <2>1. boot_slot = R /\ rollback /\ image[R] = image[O] + 1
    BY <1>5 DEF IInv, SlotInv, TrialInv
  <2>2. running' = O /\ otadata' = [otadata EXCEPT ![R] = "aborted"]
    BY <1>5, <2>1 DEF Reboot, Bootloader
  <2>3. otadata'[O] = otadata[O] /\ otadata[O] \in {"undefined", "valid"}
    BY <1>2, <1>5, <2>1, <2>2 DEF IInv, FallbackImage
  <2>4. TrialInv'
    BY <1>1, <2>2, <2>3 DEF TrialInv, Selected
  <2>5. Good = image[O] /\ Good' = image[O]
    BY <1>1, <1>5, <2>2, <2>3 DEF Good
  <2>6. image[R] # Good
    BY <1>2, <2>1, <2>5
  <2>7. Contract!GoBack
    BY <1>1, <1>3, <2>2, <2>5, <2>6 DEF Contract!GoBack
  <2> QED
    BY <2>4, <2>7 DEF Contract!Next
<1>6. CASE ota \notin Selected /\ otadata[R] # "pending_verify"
  <2>1. boot_slot = R /\ otadata[R] # "new"
    BY <1>6 DEF IInv, SlotInv
  <2>2. /\ running' = R
        /\ otadata' = [otadata EXCEPT ![R] = IF @ = "new" THEN "pending_verify" ELSE @]
    BY <1>6, <2>1 DEF Reboot, Bootloader
  <2>3. otadata'[R] = otadata[R]
    BY <1>2, <2>1, <2>2
  <2>4. TrialInv'
    BY <1>1, <1>6, <2>2, <2>3 DEF TrialInv, Selected
  <2>5. Good' = Good
    BY <1>1, <1>6, <2>2, <2>3 DEF Good
  <2> QED
    BY <1>1, <1>3, <2>2, <2>4, <2>5
<1> QED
  BY <1>4, <1>5, <1>6

\* The image on trial is kept.
LEMMA ConfirmKeeps ==
    ASSUME TypeInv, IInv, TrialInv, confirm_good_boot
    PROVE  /\ TrialInv'
           /\ [Contract!Next]_<<rollback, image[running], Good, Reported>>
<1>1. /\ image' = image /\ running' = running /\ told' = told /\ core' = core
      /\ ota = "boot" /\ ota' \in {"marked", "none"} /\ rollback' = rollback
  BY DEF confirm_good_boot
<1>2. /\ running \in Slots /\ otadata \in [Slots -> SlotStates]
      /\ Other(running) \in Slots /\ \A s \in Slots : image[s] \in Nat
  BY OtherSlot, Numbers
<1>3. Reported' = Reported
  BY <1>1 DEF Reported
<1>4. core = "rest"
  BY <1>1 DEF TrialInv, Up
<1>5. CASE otadata[running] = "pending_verify"
  <2>1. otadata' = [otadata EXCEPT ![running] = "valid"]
    BY <1>5 DEF confirm_good_boot
  <2>2. otadata'[running] = "valid"
    BY <1>2, <2>1
  <2>3. Good = image[Other(running)] /\ Good' = image[running]
    BY <1>1, <1>5, <2>2 DEF Good
  <2>4. image[running] = image[Other(running)] + 1
    BY <1>5 DEF TrialInv
  <2>5. image[running] # Good
    BY <1>2, <2>3, <2>4
  <2>6. Contract!Keep
    BY <1>1, <1>3, <2>3, <2>5 DEF Contract!Keep
  <2>7. TrialInv'
    BY <1>1, <1>4, <2>2 DEF TrialInv, Selected
  <2> QED
    BY <2>6, <2>7 DEF Contract!Next
<1>6. CASE otadata[running] # "pending_verify"
  <2>1. otadata' = otadata
    BY <1>6 DEF confirm_good_boot
  <2>2. Good' = Good
    BY <1>1, <2>1 DEF Good
  <2>3. TrialInv'
    BY <1>1, <1>4, <1>6, <2>1 DEF TrialInv, Selected
  <2> QED
    BY <1>1, <1>3, <2>2, <2>3
<1> QED
  BY <1>5, <1>6

\* The image that runs is left alone when the next one is complete.
LEMMA FinishKeeps ==
    ASSUME TypeInv, IInv, TrialInv, Finish
    PROVE  /\ TrialInv'
           /\ [Contract!Next]_<<rollback, image[running], Good, Reported>>
<1> DEFINE s == Other(running)
<1>1. /\ running \in Slots /\ s \in Slots /\ s # running
      /\ image \in [Slots -> Images] /\ otadata \in [Slots -> SlotStates]
  BY OtherSlot, Numbers
<1>2. /\ image' = [image EXCEPT ![s] = image[running] + 1]
      /\ otadata' = [otadata EXCEPT ![s] = IF rollback THEN "new" ELSE "undefined"]
      /\ boot_slot' = s /\ running' = running /\ told' = told /\ core' = core
      /\ ota = "finish" /\ ota' = "save" /\ rollback' = rollback
  BY DEF Finish
<1>3. /\ image'[running] = image[running] /\ image'[s] = image[running] + 1
      /\ otadata'[running] = otadata[running]
      /\ otadata'[s] = IF rollback THEN "new" ELSE "undefined"
  BY <1>1, <1>2
<1>4. otadata[running] # "pending_verify"
  BY <1>2 DEF IInv, SlotInv
<1>5. TrialInv'
  BY <1>2, <1>3, <1>4 DEF TrialInv, Up, Selected
<1>6. Good' = Good /\ Reported' = Reported
  BY <1>2, <1>3, <1>4 DEF Good, Reported
<1> QED
  BY <1>2, <1>3, <1>5, <1>6

\* A success is sent by an image that was kept.
LEMMA SendKeeps ==
    ASSUME TypeInv, IInv, TrialInv, SendSuccess \/ SendFailure
    PROVE  /\ TrialInv'
           /\ [Contract!Next]_<<rollback, image[running], Good, Reported>>
<1>1. /\ flash' = flash /\ running' = running /\ core' = "rest" /\ ota' = ota
  BY DEF SendSuccess, SendFailure
<1>2. TrialInv' /\ Good' = Good
  BY <1>1 DEF TrialInv, Good, flash
<1>3. ota \notin {"boot", "marked"}
  BY DEF SendSuccess, SendFailure, TrialInv, Up
<1>4. Good = image[running]
  BY <1>3 DEF IInv, SlotInv, Good
<1>5. CASE told' = told
  BY <1>1, <1>2, <1>5 DEF flash, Reported
<1>6. CASE SendFailure /\ told' # told
  <2>1. told' = told \cup {[kind |-> "failure", image |-> image[running]]}
    BY <1>6 DEF SendFailure, Deliver
  <2>2. {r \in told' : r.kind = "success"} = {r \in told : r.kind = "success"}
    BY <2>1
  <2>3. Reported' = Reported
    BY <2>2 DEF Reported
  <2> QED
    BY <1>1, <1>2, <2>3 DEF flash
<1>7. CASE SendSuccess /\ told' # told
  <2> DEFINE m == [kind |-> "success", image |-> image[running]]
  <2>1. told' = told \cup {m}
    BY <1>7 DEF SendSuccess, Deliver
  <2>2. {r \in told' : r.kind = "success"} = {r \in told : r.kind = "success"} \cup {m}
    BY <2>1
  <2>3. Reported' = Reported \cup {image[running]}
    <3> DEFINE S == {r \in told : r.kind = "success"}
    <3>1. Reported' = {r.image : r \in S \cup {m}}
      BY <2>2 DEF Reported
    <3>2. m.image = image[running]
      OBVIOUS
    <3> QED
      BY <3>1, <3>2 DEF Reported
  <2>4. Contract!Report
    BY <1>1, <1>2, <1>4, <2>3 DEF Contract!Report, flash
  <2> QED
    BY <1>2, <2>4 DEF Contract!Next
<1> QED
  BY <1>5, <1>6, <1>7

LEMMA TrialNext ==
    ASSUME TypeInv, IInv, TrialInv, [Next]_vars
    PROVE  /\ TrialInv'
           /\ [Contract!Next]_<<rollback, image[running], Good, Reported>>
<1>1. CASE Crash \/ RestartIntoUpdate
  BY <1>1, RebootChoice DEF Crash, RestartIntoUpdate
<1>2. CASE confirm_good_boot
  BY <1>2, ConfirmKeeps
<1>3. CASE Finish
  BY <1>3, FinishKeeps
<1>4. CASE SendSuccess \/ SendFailure
  BY <1>4, SendKeeps
<1>5. ASSUME UNCHANGED <<flash, running, told>>,
             ota' \in Selected => ota \in Selected,
             core' # "rest" => Up'
      PROVE  /\ TrialInv'
             /\ [Contract!Next]_<<rollback, image[running], Good, Reported>>
  <2>1. TrialInv'
    BY <1>5 DEF TrialInv, flash
  <2>2. UNCHANGED <<rollback, image[running], Good, Reported>>
    BY <1>5 DEF Good, Reported, flash
  <2> QED
    BY <2>1, <2>2
<1> USE DEF TrialInv, Selected, Up, nvs, ram, link
<1>6. CASE LinkUp \/ LinkDown \/ Settle \/ ConfirmVersion
  BY <1>5, <1>6 DEF LinkUp, LinkDown, Settle, ConfirmVersion
<1>7. CASE Start \/ StopWebSocket \/ Begin \/ DownloadDone
  BY <1>5, <1>7 DEF Start, StopWebSocket, Begin, DownloadDone
<1>8. CASE BeginFails \/ FinishFails \/ DownloadFails \/ StoreReason
  BY <1>5, <1>8 DEF BeginFails, FinishFails, DownloadFails, StoreReason, Return
<1>9. CASE SaveVersion \/ StoreFlag
  BY <1>5, <1>9 DEF SaveVersion, StoreFlag
<1>10. CASE ClearSuccess \/ ClearFailure
  BY <1>5, <1>10 DEF ClearSuccess, ClearFailure
<1>11. CASE UNCHANGED vars
  BY <1>5, <1>11 DEF vars
<1> QED
  BY <1>1, <1>2, <1>3, <1>4, <1>6, <1>7, <1>8, <1>9, <1>10, <1>11
     DEF Next, Core, Update, Confirm

LEMMA TrialAlways == Spec => [](TypeInv /\ IInv /\ TrialInv)
<1>1. TypeInv /\ IInv /\ TrialInv /\ [Next]_vars => TrialInv'
  BY TrialNext
<1> QED
  BY <1>1, TrialInit, TypeInvAlways, IInvAlways, PTL DEF Spec

\* ota.c:277-300 with the bootloader: downloads, confirmations, restarts and
\* rollbacks, for any number of updates and power failures, are trials of one
\* image after the other that are kept or taken back.
THEOREM SafeUpdateImplemented == Spec => ImplementsSafeUpdate
<1>1. Init => Contract!Init
  <2> SUFFICES ASSUME Init PROVE Contract!Init
    OBVIOUS
  <2>1. running \in Slots /\ otadata[running] = "undefined" /\ image[running] = 0
    BY DEF Init, Slots
  <2>2. Good = 0
    BY <2>1 DEF Good
  <2>3. Reported = {}
    BY DEF Init, Reported
  <2> QED
    BY <2>1, <2>2, <2>3 DEF Init, Contract!Init
<1>2. TypeInv /\ IInv /\ TrialInv /\ [Next]_vars
         => [Contract!Next]_<<rollback, image[running], Good, Reported>>
  BY TrialNext
<1> QED
  BY <1>1, <1>2, TrialAlways, PTL DEF Spec, ImplementsSafeUpdate, Contract!Spec

\* The cloud has heard of no image newer than the last good one, and that one is
\* no newer than what runs: the contract's own invariant.
ReportInv ==
    /\ Good <= image[running]
    /\ \A i \in Reported : i <= Good

\* The contract alone keeps it: nothing but its steps is needed.
LEMMA ContractKeepsReportInv ==
    ASSUME TypeInv, ReportInv,
           [Contract!Next]_<<rollback, image[running], Good, Reported>>
    PROVE  ReportInv'
<1> DEFINE runs == image[running]
<1>1. runs \in Nat /\ Good \in Nat /\ Reported \subseteq Nat
  <2>1. running \in Slots /\ Other(running) \in Slots
    BY OtherSlot, Numbers
  <2>2. \A m \in told : m.image \in Nat
    BY DEF TypeInv, TypeOK, Messages, Images
  <2> QED
    BY <2>1, <2>2, Numbers DEF Good, Reported
<1>2. Good <= runs /\ \A i \in Reported : i <= Good
  BY DEF ReportInv
<1>3. /\ \/ Contract!Try \/ Contract!Keep \/ Contract!GoBack \/ Contract!Report
         \/ UNCHANGED <<rollback, image[running], Good, Reported>>
  BY DEF Contract!Next
<1>4. CASE Contract!Try
  <2>1. runs = Good /\ runs' = runs + 1
        /\ Good' \in {Good, runs + 1} /\ Reported' = Reported
    BY <1>4 DEF Contract!Try
  <2>2. Good' <= runs' /\ \A i \in Reported : i <= Good'
    BY <1>1, <1>2, <2>1
  <2> QED
    BY <2>1, <2>2 DEF ReportInv
<1>5. CASE Contract!Keep
  <2>1. Good' = runs /\ runs' = runs /\ Reported' = Reported
    BY <1>5 DEF Contract!Keep
  <2>2. \A i \in Reported : i <= runs
    BY <1>1, <1>2
  <2>3. runs <= runs
    BY <1>1
  <2> QED
    BY <2>1, <2>2, <2>3 DEF ReportInv
<1>6. CASE Contract!GoBack
  <2>1. Good' = Good /\ runs' = Good /\ Reported' = Reported
    BY <1>6 DEF Contract!GoBack
  <2>2. Good <= Good
    BY <1>1
  <2> QED
    BY <1>2, <2>1, <2>2 DEF ReportInv
<1>7. CASE Contract!Report
  <2>1. runs = Good /\ Good' = Good /\ runs' = runs /\ Reported' = Reported \cup {runs}
    BY <1>7 DEF Contract!Report
  <2>2. \A i \in Reported \cup {runs} : i <= Good
    BY <1>1, <1>2, <2>1
  <2> QED
    BY <1>2, <2>1, <2>2 DEF ReportInv
<1>8. CASE UNCHANGED <<rollback, image[running], Good, Reported>>
  BY <1>2, <1>8 DEF ReportInv
<1> QED
  BY <1>3, <1>4, <1>5, <1>6, <1>7, <1>8

\* ota.c:277-300: no crash, rollback or later failed update takes a device back
\* behind an image it has reported as a success.
THEOREM SuccessIsFinalAlways == Spec => []SuccessIsFinal
<1>1. Init => ReportInv
  <2> SUFFICES ASSUME Init PROVE ReportInv
    OBVIOUS
  <2>1. Good = image[running] /\ image[running] = 0
    BY DEF Init, Good, Slots
  <2>2. Reported = {}
    BY DEF Init, Reported
  <2> QED
    BY <2>1, <2>2 DEF ReportInv
<1>2. TypeInv /\ IInv /\ TrialInv /\ ReportInv /\ [Next]_vars => ReportInv'
  BY TrialNext, ContractKeepsReportInv
<1>3. TypeInv /\ ReportInv => SuccessIsFinal
  <2> SUFFICES ASSUME TypeInv, ReportInv, NEW m \in told, m.kind = "success"
               PROVE  m.image <= image[running]
    BY DEF SuccessIsFinal
  <2>1. m.image \in Reported
    BY DEF Reported
  <2>2. /\ running \in Slots /\ Other(running) \in Slots
        /\ \A s \in Slots : image[s] \in Nat
    BY OtherSlot, Numbers
  <2>3. Good \in Nat /\ image[running] \in Nat
    BY <2>2 DEF Good
  <2>4. m.image \in Nat
    BY DEF TypeInv, TypeOK, Messages, Images
  <2> QED
    BY <2>1, <2>3, <2>4 DEF ReportInv
<1> QED
  BY <1>1, <1>2, <1>3, TrialAlways, PTL DEF Spec
=============================================================================
