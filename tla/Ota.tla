-------------------------------- MODULE Ota ---------------------------------
(***************************************************************************)
(* An over-the-air update from the command to the report, across reboots:  *)
(* hyperwisor_ota_perform, the boot-time confirmation, and the two reports *)
(* of the core task, with NVS, the two app slots and the bootloader.       *)
(*                                                                         *)
(* Images are numbered: 0 is the one the device left the factory with, and *)
(* the n-th update installs n.  The websocket link is a Boolean here; how  *)
(* it comes and goes is WsClient's subject.  Any write to NVS may be       *)
(* refused: hyperwisor_nvs_set_str says so, and nobody here asks.          *)
(***************************************************************************)
EXTENDS Naturals

CONSTANT MaxUpdates   \* bound: images built

ASSUME OtaAssumption == MaxUpdates \in Nat \ {0}

Slots  == {"ota_0", "ota_1"}
Images == 0..MaxUpdates

\* Mutant: the partition table has no second slot, and nobody checks.
Other_Unchecked(s) == "none"

\* esp_ota_get_next_update_partition.
Other(s) == CHOOSE o \in Slots : o # s

VARIABLES
    rollback,            \* the bootloader was built to roll unconfirmed images back
    image,               \* flash: the image in each slot
    otadata,             \* flash: the state of each slot
    boot_slot,           \* flash: the slot the bootloader tries next
    ota_pending_report,  \* NVS key is "1"
    ota_failed_reason,   \* NVS key is not empty
    firmware,            \* NVS key: an image's version, or 0 for none
    version,             \* s_state.version, read from it by hyperwisor_init
    running,             \* the slot that runs
    s_ota_in_progress,
    s_ota_report_pending,
    ws_connected,        \* the core's copy of the link state
    linked,              \* a client is up and past the gate
    core,                \* the core task: between ticks, or before a send
    ota,                 \* where hyperwisor_ota_perform or the boot is
    told,                \* what the cloud has received
    calm                 \* links, downloads and power hold from now on

flash == <<rollback, image, otadata, boot_slot>>
keys  == <<ota_pending_report, ota_failed_reason>>
nvs   == <<keys, firmware>>
ram   == <<s_ota_in_progress, s_ota_report_pending, version>>
link  == <<ws_connected, linked>>
vars  == <<flash, nvs, running, ram, link, core, ota, told, calm>>

SlotStates == {"undefined", "new", "pending_verify", "valid", "aborted"}
Messages   == [kind : {"success", "failure"}, image : Images]

TypeOK ==
    /\ rollback \in BOOLEAN
    /\ image \in [Slots -> Images] /\ otadata \in [Slots -> SlotStates]
    /\ boot_slot \in Slots /\ running \in Slots
    /\ ota_pending_report \in BOOLEAN /\ ota_failed_reason \in BOOLEAN
    /\ firmware \in Images /\ version \in Images
    /\ s_ota_in_progress \in BOOLEAN /\ s_ota_report_pending \in BOOLEAN
    /\ ws_connected \in BOOLEAN /\ linked \in BOOLEAN /\ calm \in BOOLEAN
    /\ core \in {"rest", "send_success", "send_failure"}
    /\ ota \in {"boot", "marked", "none", "raised", "stopped", "download",
                "finish", "save", "flag", "reboot", "failed"}
    /\ told \subseteq Messages

Init ==
    /\ rollback \in BOOLEAN
    /\ image = [s \in Slots |-> 0]
    /\ otadata = [s \in Slots |-> "undefined"]
    /\ boot_slot = "ota_0" /\ running = "ota_0"
    /\ ota_pending_report = FALSE /\ ota_failed_reason = FALSE
    /\ firmware = 0 /\ version = 0
    /\ s_ota_in_progress = FALSE /\ s_ota_report_pending = FALSE
    /\ ws_connected = FALSE /\ linked = FALSE
    /\ core = "rest" /\ ota = "boot"
    /\ told = {} /\ calm = FALSE
-----------------------------------------------------------------------------
\* hyperwisor_nvs_set_str fails: the key keeps its value, and no caller notices.
Refused(key) == ~calm /\ UNCHANGED key
-----------------------------------------------------------------------------
(* Boot.                                                                   *)

\* The bootloader.  A new image gets one boot to confirm itself in; one that
\* did not is aborted and the other slot runs.
Bootloader ==
    IF rollback /\ otadata[boot_slot] = "pending_verify"
    THEN /\ otadata' = [otadata EXCEPT ![boot_slot] = "aborted"]
         /\ boot_slot' = Other(boot_slot)
         /\ running' = Other(boot_slot)
    ELSE /\ otadata' = [otadata EXCEPT ![boot_slot] =
                          IF @ = "new" THEN "pending_verify" ELSE @]
         /\ boot_slot' = boot_slot
         /\ running' = boot_slot

\* Up to the confirmation, which hyperwisor_init makes after it has read the
\* version; without one the device calls itself by the library's.
Reboot ==
    /\ Bootloader
    /\ s_ota_in_progress' = FALSE /\ s_ota_report_pending' = FALSE
    /\ version' = firmware
    /\ ws_connected' = FALSE /\ linked' = FALSE
    /\ core' = "rest" /\ ota' = "boot"
    /\ UNCHANGED <<rollback, image, nvs, told, calm>>

\* Mutant: the image is reported but not marked valid.
confirm_good_boot_NotMarked ==
    /\ ota = "boot"
    /\ IF otadata[running] = "pending_verify"
       THEN ota' = "marked" /\ UNCHANGED s_ota_report_pending
       ELSE ota' = "none" /\ s_ota_report_pending' = ota_pending_report
    /\ UNCHANGED <<flash, nvs, running, s_ota_in_progress, version, link, core,
                   told, calm>>

\* Mutant: the version is stored before the image is marked valid.
confirm_good_boot_VersionFirst ==
    /\ ota = "boot"
    /\ IF otadata[running] = "pending_verify" /\ firmware # image[running]
       THEN firmware' = image[running] /\ UNCHANGED <<otadata, ota, s_ota_report_pending>>
       ELSE IF otadata[running] = "pending_verify"
       THEN /\ otadata' = [otadata EXCEPT ![running] = "valid"]
            /\ ota' = "marked"
            /\ UNCHANGED <<s_ota_report_pending, firmware>>
       ELSE /\ ota' = "none"
            /\ s_ota_report_pending' = ota_pending_report
            /\ UNCHANGED <<otadata, firmware>>
    /\ UNCHANGED <<rollback, image, boot_slot, keys, running, s_ota_in_progress, version,
                   link, core, told, calm>>

\* hyperwisor_ota_confirm_good_boot, called by hyperwisor_init: a new image is
\* marked valid ...
confirm_good_boot ==
    /\ ota = "boot"
    /\ IF otadata[running] = "pending_verify"
       THEN /\ otadata' = [otadata EXCEPT ![running] = "valid"]
            /\ ota' = "marked"
            /\ UNCHANGED s_ota_report_pending
       ELSE /\ ota' = "none"
            /\ s_ota_report_pending' = ota_pending_report
            /\ UNCHANGED otadata
    /\ UNCHANGED <<rollback, image, boot_slot, nvs, running, s_ota_in_progress,
                   version, link, core, told, calm>>

\* ... and its version stored.
ConfirmVersion ==
    /\ ota = "marked"
    /\ firmware' = image[running] \/ Refused(firmware)
    /\ s_ota_report_pending' = TRUE
    /\ ota' = "none"
    /\ UNCHANGED <<flash, keys, running, s_ota_in_progress, version, link, core,
                   told, calm>>

\* The update is complete, and the other slot is the next to run.
Selected == {"save", "flag", "reboot"}

Up == ota \notin {"boot", "marked"}

\* Power loss, panic, or the SYSTEM restart command, at any point.
Crash == ~calm /\ Reboot
-----------------------------------------------------------------------------
(* The link, as far as an update cares.                                    *)

\* Mutant: the core task does not look at s_ota_in_progress.
LinkUp_DuringUpdate ==
    /\ Up /\ ~linked /\ core = "rest"
    /\ linked' = TRUE /\ ws_connected' = TRUE
    /\ UNCHANGED <<flash, nvs, running, ram, core, ota, told, calm>>

\* The core task starts a client, and the handshake succeeds.  One that was on
\* its way when the flag went up may still finish before it is stopped.
LinkUp ==
    /\ Up /\ ~linked /\ core = "rest"
    /\ s_ota_in_progress => ota = "raised"
    /\ linked' = TRUE /\ ws_connected' = TRUE
    /\ UNCHANGED <<flash, nvs, running, ram, core, ota, told, calm>>

LinkDown ==
    /\ linked /\ ~calm
    /\ linked' = FALSE /\ ws_connected' = FALSE
    /\ UNCHANGED <<flash, nvs, running, ram, core, ota, told, calm>>
-----------------------------------------------------------------------------
(* hyperwisor_ota_perform.                                                 *)

\* The "started" message, then the flag that keeps the core from reconnecting.
Start ==
    /\ ota = "none"
    /\ ~calm
    /\ \A s \in Slots : image[s] < MaxUpdates
    /\ s_ota_in_progress' = TRUE
    /\ ota' = "raised"
    /\ UNCHANGED <<flash, nvs, running, s_ota_report_pending, version, link, core,
                   told, calm>>

\* Half a second later hyperwisor_ws_disconnect.  It does not go through
\* on_ws_conn, so the core's copy of the link state is left as it was.
StopWebSocket ==
    /\ ota = "raised"
    /\ linked' = FALSE
    /\ ota' = "stopped"
    /\ UNCHANGED <<flash, nvs, running, ram, ws_connected, core, told, calm>>

\* The function returns; a handler on the websocket task returns into the client
\* it destroyed, and if that takes the board down, Crash is next.
Return ==
    /\ ota' = "none"
    /\ UNCHANGED <<flash, firmware, running, s_ota_report_pending, version, link,
                   core, told, calm>>

\* No partition, or esp_https_ota_begin fails: an early return.
BeginFails ==
    /\ ota = "stopped" /\ ~calm
    /\ Return
    /\ UNCHANGED <<keys, s_ota_in_progress>>

Begin ==
    /\ ota = "stopped"
    /\ ota' = "download"
    /\ UNCHANGED <<flash, nvs, running, ram, link, core, told, calm>>

\* Mutant: the flag stays up after a broken download.
DownloadFails_KeepsFlag ==
    /\ ota = "download" /\ ~calm
    /\ ota' = "failed"
    /\ UNCHANGED <<flash, nvs, running, ram, link, core, told, calm>>

\* The download breaks: abort, lower the flag ...
DownloadFails ==
    /\ ota = "download" /\ ~calm
    /\ s_ota_in_progress' = FALSE
    /\ ota' = "failed"
    /\ UNCHANGED <<flash, nvs, running, s_ota_report_pending, version, link, core,
                   told, calm>>

\* ... and then store the reason.
StoreReason ==
    /\ ota = "failed"
    /\ ota_failed_reason' = TRUE \/ Refused(ota_failed_reason)
    /\ Return
    /\ UNCHANGED <<ota_pending_report, s_ota_in_progress>>

\* A download outlasts the second between two ticks: a report that the core
\* task was free to make when it began has been made, or spent, by its end.
DownloadDone ==
    /\ ota = "download"
    /\ core = "rest" /\ ~(s_ota_report_pending /\ ws_connected)
    /\ ota' = "finish"
    /\ UNCHANGED <<flash, nvs, running, ram, link, core, told, calm>>

FinishFails ==
    /\ ota = "finish" /\ ~calm
    /\ Return
    /\ UNCHANGED <<keys, s_ota_in_progress>>

\* Mutant: the image that runs is written over.
Finish_OntoRunning ==
    /\ ota = "finish"
    /\ image' = [image EXCEPT ![running] = image[running] + 1]
    /\ otadata' = [otadata EXCEPT ![running] = IF rollback THEN "new" ELSE "undefined"]
    /\ boot_slot' = running
    /\ ota' = "save"
    /\ UNCHANGED <<rollback, nvs, running, ram, link, core, told, calm>>

\* esp_https_ota_finish: the image is complete and selected for the next boot.
Finish ==
    /\ ota = "finish"
    /\ LET s == Other(running) IN
          /\ image' = [image EXCEPT ![s] = image[running] + 1]
          /\ otadata' = [otadata EXCEPT ![s] = IF rollback THEN "new" ELSE "undefined"]
          /\ boot_slot' = s
    /\ ota' = "save"
    /\ UNCHANGED <<rollback, nvs, running, ram, link, core, told, calm>>

\* The version that is stored is that of the image that still runs.
SaveVersion ==
    /\ ota = "save"
    /\ firmware' = image[running] \/ Refused(firmware)
    /\ ota' = "flag"
    /\ UNCHANGED <<flash, keys, running, ram, link, core, told, calm>>

\* Mutant: the flag is not stored.
StoreFlag_NotStored ==
    /\ ota = "flag"
    /\ ota' = "reboot"
    /\ UNCHANGED <<flash, nvs, running, ram, link, core, told, calm>>

StoreFlag ==
    /\ ota = "flag"
    /\ ota_pending_report' = TRUE \/ Refused(ota_pending_report)
    /\ ota' = "reboot"
    /\ UNCHANGED <<flash, ota_failed_reason, firmware, running, ram, link, core,
                   told, calm>>

RestartIntoUpdate == ota = "reboot" /\ Reboot
-----------------------------------------------------------------------------
(* The reports of the core task: the key is cleared first, then the frame  *)
(* is handed to hyperwisor_ws_send, whose result nobody looks at.          *)

ClearSuccess ==
    /\ core = "rest" /\ Up
    /\ s_ota_report_pending /\ ws_connected
    /\ s_ota_report_pending' = FALSE
    /\ ota_pending_report' = FALSE \/ Refused(ota_pending_report)
    /\ core' = "send_success"
    /\ UNCHANGED <<flash, ota_failed_reason, firmware, running, s_ota_in_progress,
                   version, link, ota, told, calm>>

ClearFailure ==
    /\ core = "rest" /\ Up
    /\ ota_failed_reason /\ ws_connected
    /\ ota_failed_reason' = FALSE \/ Refused(ota_failed_reason)
    /\ core' = "send_failure"
    /\ UNCHANGED <<flash, ota_pending_report, firmware, running, ram, link, ota,
                   told, calm>>

Deliver(kind) ==
    told' = IF linked THEN told \cup {[kind |-> kind, image |-> image[running]]}
                      ELSE told

SendSuccess ==
    /\ core = "send_success"
    /\ Deliver("success")
    /\ core' = "rest"
    /\ UNCHANGED <<flash, nvs, running, ram, link, ota, calm>>

SendFailure ==
    /\ core = "send_failure"
    /\ Deliver("failure")
    /\ core' = "rest"
    /\ UNCHANGED <<flash, nvs, running, ram, link, ota, calm>>
-----------------------------------------------------------------------------
Settle ==
    /\ ~calm
    /\ calm' = TRUE
    /\ UNCHANGED <<flash, nvs, running, ram, link, core, ota, told>>

Update ==
    \/ StopWebSocket \/ Begin \/ BeginFails
    \/ DownloadDone \/ DownloadFails \/ StoreReason
    \/ Finish \/ FinishFails \/ SaveVersion \/ StoreFlag \/ RestartIntoUpdate

Core == LinkUp \/ ClearSuccess \/ ClearFailure \/ SendSuccess \/ SendFailure

Confirm == confirm_good_boot \/ ConfirmVersion

Next ==
    \/ Confirm \/ Crash
    \/ Core \/ LinkDown
    \/ Start \/ Update
    \/ Settle

Spec == Init /\ [][Next]_vars

\* Tasks run; a boot gets as far as hyperwisor_init; a download ends.
FairSpec == Spec /\ WF_vars(Confirm) /\ WF_vars(Core) /\ WF_vars(Update)
-----------------------------------------------------------------------------
(* Properties.                                                             *)

\* ota.h:71-78 and CHANGELOG 0.1.0: the websocket is down for the whole of the
\* download and cannot fight it for the TLS stack.
NoLinkDuringDownload == ota \in {"stopped", "download", "finish", "save", "flag"} => ~linked

\* ota.c:285-287 with the bootloader: an unconfirmed image always has a
\* confirmed, or factory, one to fall back on, also after failed updates.
FallbackImage ==
    /\ otadata[boot_slot] # "aborted"
    /\ otadata[boot_slot] \in {"new", "pending_verify"}
          => otadata[Other(boot_slot)] \in {"undefined", "valid"}

\* ota.h:14, the version is that of a confirmed image: neither the key nor the
\* device itself ever names a version newer than the one that runs, however
\* boots, confirmations and power failures fall.
NeverClaimsNewer == firmware <= image[running] /\ version <= image[running]

\* ota.c:277-300, an image is reported once it is confirmed: a device that has
\* told the cloud of a success never goes back behind the image it spoke of,
\* whatever fails or is rolled back later.
SuccessIsFinal ==
    \A m \in told : m.kind = "success" => m.image <= image[running]

\* An installed update has its report before it: it is still to be flagged, the
\* flag is stored or, with rollback, the image is still to be confirmed, or the
\* core task of this boot has been told.
Owed ==
    \/ ota \in {"save", "flag", "marked"}
    \/ /\ ota \in {"reboot", "boot"}
       /\ ota_pending_report \/ otadata[boot_slot] \in {"new", "pending_verify"}
    \/ /\ ota = "none" /\ s_ota_report_pending
       /\ ~s_ota_in_progress /\ (ws_connected => linked)

\* The image that has to make the report.
Due == IF ota \in Selected THEN image[boot_slot] ELSE image[running]

\* ota.c:210-213, "the reliable path": an installed update is reported by the
\* image it installed, with rollback and without, from any point on, after any
\* crashes and refused writes, where the flag or the confirmation still stands
\* for it; whatever was sent before the reboot is lost.
UpdateReported ==
    \A n \in Images \ {0} :
        calm /\ Owed /\ Due = n ~> [kind |-> "success", image |-> n] \in told

\* ota.c:225: after a broken download the core task reconnects.
BackOnline == calm /\ ota = "failed" ~> linked

\* The image on trial, if there is one, has the good one beside it.
Good == image[IF otadata[running] = "pending_verify" THEN Other(running) ELSE running]

\* The images the cloud has heard a success of.
Reported == {m.image : m \in {r \in told : r.kind = "success"}}

Contract ==
    INSTANCE SafeUpdate
        WITH runs <- image[running], good <- Good, reported <- Reported

\* ota.c:277-300 with the bootloader: downloads, confirmations, restarts and
\* rollbacks, in any order, add up to trials of one image after the other that
\* are kept or taken back.
ImplementsSafeUpdate == Contract!Spec

\* ota.h:72: the flag says that a download is in progress.
InProgressTruthful == s_ota_in_progress => ota # "none"
=============================================================================
