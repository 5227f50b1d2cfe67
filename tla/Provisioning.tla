---------------------------- MODULE Provisioning ----------------------------
(***************************************************************************)
(* How a device gets its network, its name and its key: the credentials of *)
(* hyperwisor_core.c in RAM and in NVS, the access point and provisioning  *)
(* page of hyperwisor_wifi.c, the key pair of hyperwisor_hsc.c, and the    *)
(* restarts in between.                                                    *)
(*                                                                         *)
(* Two tasks store credentials, the page's (httpd) and the application's   *)
(* (app).  Each NVS write is a commit of its own, which NVS may refuse with *)
(* an error nobody looks at; the other task may come in, and power may     *)
(* fail, between any two.                                                  *)
(*                                                                         *)
(* A credential is the number of the form, or of the call, that supplied   *)
(* it, so that a mixture of two is visible; 0 is the empty string.  A key  *)
(* is the number of its generation.  The user id, the email and the API    *)
(* keys are stored like the device id and read by none of this code: they  *)
(* are left out.                                                           *)
(***************************************************************************)
EXTENDS Naturals, FiniteSets

CONSTANTS
    MaxSources,      \* bound: forms submitted and calls made
    MaxKeys,         \* bound: key pairs generated
    MaxRefused       \* bound: credentials NVS has refused at one time

ASSUME ProvisioningAssumption ==
    MaxSources \in Nat /\ MaxKeys \in Nat /\ MaxRefused \in Nat

Keys    == {"ssid", "pass", "deviceid"}
Steps   == Keys \cup {"name"}     \* "name": the device id goes to RAM
Sources == 0..MaxSources
Empty   == [k \in Keys |-> 0]

VARIABLES
    nvs,             \* flash: the stored credentials
    hsc_priv,        \* flash: the stored private key
    s_state,         \* RAM: the credentials in hyperwisor_core.c
    s_device_id,     \* RAM: the copy hyperwisor_ws.c puts in the auth frame
    s_priv,          \* RAM: the key; 0 while s_ready is false
    unsaved,         \* the credentials whose last write NVS refused
    boot,            \* how far app_main has come
    mode,            \* Wi-Fi: off, station, or access point
    joins,           \* the station's network name and password belong together
    s_ap_started,    \* a phone has joined: the page is up, the timer runs
    job,             \* what each task still has to store
    page,            \* what the last success page told the phone
    registered,      \* platform: the identities it knows
    admitted,        \* the relay has let this boot of the device in
    sources,         \* forms and calls so far
    generations,     \* key pairs so far
    calm             \* power holds, and nobody interferes, from now on

flash    == <<nvs, hsc_priv>>
ram      == <<s_state, s_device_id, s_priv, unsaved>>
wifi     == <<mode, joins, s_ap_started>>
counters == <<sources, generations>>
vars     == <<flash, ram, boot, wifi, job, page, registered, admitted,
              counters, calm>>

Credentials == [Keys -> Sources]
KeyNumbers  == 0..MaxKeys
Identities  == [device : Sources, key : KeyNumbers]
NoLink      == [device |-> 0, key |-> 0]
Writers     == {"httpd", "app"}
Idle        == [kind |-> "idle", source |-> 0, todo |-> {}]

TypeOK ==
    /\ nvs \in Credentials /\ s_state \in Credentials
    /\ hsc_priv \in KeyNumbers /\ s_priv \in KeyNumbers
    /\ s_device_id \in Sources /\ unsaved \subseteq Keys
    /\ boot \in {"init", "security", "start", "running"}
    /\ mode \in {"off", "sta", "ap"}
    /\ joins \in BOOLEAN /\ s_ap_started \in BOOLEAN
    /\ admitted \in BOOLEAN /\ calm \in BOOLEAN
    /\ DOMAIN job = Writers
    /\ \A w \in Writers :
          /\ job[w].kind \in {"idle", "set", "clear", "start"}
          /\ job[w].source \in Sources
          /\ job[w].todo \subseteq Steps
    /\ page \in Identities /\ registered \subseteq Identities
    /\ sources \in Sources /\ generations \in KeyNumbers

Init ==
    /\ nvs = Empty /\ hsc_priv = 0
    /\ s_state = Empty /\ s_device_id = 0 /\ s_priv = 0 /\ unsaved = {}
    /\ boot = "init" /\ mode = "off" /\ joins = FALSE /\ s_ap_started = FALSE
    /\ job = [w \in Writers |-> Idle]
    /\ page = NoLink /\ registered = {} /\ admitted = FALSE
    /\ sources = 0 /\ generations = 0
    /\ calm = FALSE
-----------------------------------------------------------------------------
(* app_main.                                                               *)

\* Mutant: the device id is not loaded.
hyperwisor_init_NoName ==
    /\ boot = "init"
    /\ s_state' = [nvs EXCEPT !["deviceid"] = 0]
    /\ boot' = "security"
    /\ UNCHANGED <<flash, s_device_id, s_priv, unsaved, wifi, job, page, registered,
                   admitted, counters, calm>>

\* hyperwisor_init loads what is stored.
hyperwisor_init ==
    /\ boot = "init"
    /\ s_state' = nvs
    /\ boot' = "security"
    /\ UNCHANGED <<flash, s_device_id, s_priv, unsaved, wifi, job, page, registered,
                   admitted, counters, calm>>

\* hyperwisor_hsc_init finds the stored key ...
LoadKey ==
    /\ hsc_priv # 0
    /\ s_priv' = hsc_priv
    /\ UNCHANGED <<hsc_priv, generations>>

\* ... or, when there is none or it cannot be read, makes and stores another ...
GenerateKey ==
    /\ hsc_priv = 0 \/ ~calm
    /\ generations < MaxKeys
    /\ generations' = generations + 1
    /\ hsc_priv' = generations + 1
    /\ s_priv' = generations + 1

\* ... or fails.
NoKey == ~calm /\ UNCHANGED <<hsc_priv, s_priv, generations>>

\* hyperwisor_enable_security, which copies the device id; not when it failed.
enable_security ==
    /\ boot = "security" /\ job["app"].kind = "idle"
    /\ LoadKey \/ GenerateKey \/ NoKey
    /\ s_device_id' = IF s_priv' = 0 THEN s_device_id ELSE s_state["deviceid"]
    /\ boot' = "start"
    /\ UNCHANGED <<nvs, s_state, unsaved, wifi, job, page, registered, admitted,
                   sources, calm>>

\* hyperwisor_wifi_connect starts the station and has the two credentials it was
\* given stored once more.
hyperwisor_wifi_connect ==
    /\ mode' = "sta"
    /\ joins' = (s_state["pass"] = s_state["ssid"])
    /\ job' = [job EXCEPT !["app"] =
                 [kind |-> "start", source |-> 0, todo |-> {"ssid", "pass"}]]
    /\ UNCHANGED boot

hyperwisor_wifi_start_ap ==
    mode' = "ap" /\ boot' = "running" /\ UNCHANGED <<joins, job>>

\* hyperwisor_start: the access point when there is no network name, or else the
\* station, whatever else is missing.
hyperwisor_start ==
    /\ boot = "start" /\ job["app"].kind = "idle"
    /\ \/ s_state["ssid"] = 0 /\ hyperwisor_wifi_start_ap
       \/ s_state["ssid"] # 0 /\ hyperwisor_wifi_connect
    /\ UNCHANGED <<flash, ram, s_ap_started, page, registered, admitted, counters,
                   calm>>

\* The end of hyperwisor_start, with the core task created.
StartReturns ==
    /\ job["app"].kind = "start" /\ job["app"].todo = {}
    /\ job' = [job EXCEPT !["app"] = Idle]
    /\ boot' = "running"
    /\ UNCHANGED <<flash, ram, wifi, page, registered, admitted, counters, calm>>

\* Everything in RAM is lost.
Reboot ==
    /\ s_state' = Empty /\ s_device_id' = 0 /\ s_priv' = 0 /\ unsaved' = {}
    /\ boot' = "init" /\ mode' = "off" /\ joins' = FALSE /\ s_ap_started' = FALSE
    /\ job' = [w \in Writers |-> Idle]
    /\ admitted' = FALSE
    /\ UNCHANGED <<flash, page, registered, counters, calm>>

Crash == ~calm /\ boot # "init" /\ Reboot
-----------------------------------------------------------------------------
(* The access point.                                                       *)

\* AP_STACONNECTED: the page is served and the timer starts.
PhoneJoins ==
    /\ mode = "ap" /\ ~s_ap_started
    /\ s_ap_started' = TRUE
    /\ UNCHANGED <<flash, ram, boot, mode, joins, job, page, registered, admitted,
                   counters, calm>>

\* The start of set_credentials, up to its first NVS write: the network goes to
\* RAM.  Of the fields to be stored, those not given are the empty string.
BeginSet(w, stored, given) ==
    /\ job[w].kind = "idle" /\ sources < MaxSources
    /\ sources' = sources + 1
    /\ s_state' = [k \in Keys |->
                     IF k \notin stored \ {"deviceid"} THEN s_state[k]
                     ELSE IF k \in given THEN sources + 1 ELSE 0]
    /\ job' = [job EXCEPT ![w] =
                 [kind |-> "set", source |-> sources + 1,
                  todo |-> stored \cup {f \in {"name"} : "deviceid" \in stored}]]

\* prov_handler: the page, with the key if there is one, and only then
\* set_credentials.  A form without a network name changes nothing; an empty
\* password is stored, an empty device id is refused.
Submit(given) ==
    /\ s_ap_started /\ ~calm
    /\ BeginSet("httpd", {"ssid", "pass"} \cup given, given)
    /\ page' = IF "deviceid" \in given /\ s_priv # 0
               THEN [device |-> sources + 1, key |-> s_priv] ELSE NoLink
    /\ UNCHANGED <<flash, s_device_id, s_priv, unsaved, boot, wifi, registered,
                   admitted, generations, calm>>

\* The restart that ends prov_handler.
ProvRestart ==
    /\ job["httpd"].kind = "set" /\ job["httpd"].todo = {}
    /\ Reboot

\* The core task restarts a device that stays in AP mode, in the middle of a form
\* or not.
ApTimeout == s_ap_started /\ Reboot
-----------------------------------------------------------------------------
(* The credential calls.                                                   *)

\* hyperwisor_set_credentials, _set_wifi_credentials and _set_device_id, called
\* by the application, as the examples do before start or at any later time.
SetInCode(given) ==
    /\ boot # "init" /\ ~calm
    /\ BeginSet("app", given, given)
    /\ UNCHANGED <<flash, s_device_id, s_priv, unsaved, boot, wifi, page,
                   registered, admitted, generations, calm>>

\* Mutant: the password is cleared under a name hyperwisor_init does not load.
ClearCredentials_OtherName ==
    /\ boot # "init" /\ ~calm
    /\ job["app"].kind = "idle"
    /\ s_state' = Empty
    /\ job' = [job EXCEPT !["app"] =
                 [kind |-> "clear", source |-> 0,
                  todo |-> {"ssid", "password", "deviceid"}]]
    /\ UNCHANGED <<flash, s_device_id, s_priv, unsaved, boot, wifi, page,
                   registered, admitted, counters, calm>>

\* hyperwisor_clear_credentials wipes RAM first.
ClearCredentials ==
    /\ boot # "init" /\ ~calm
    /\ job["app"].kind = "idle"
    /\ s_state' = Empty
    /\ job' = [job EXCEPT !["app"] =
                 [kind |-> "clear", source |-> 0, todo |-> Keys]]
    /\ UNCHANGED <<flash, s_device_id, s_priv, unsaved, boot, wifi, page,
                   registered, admitted, counters, calm>>

\* Mutant: the device id goes to RAM only.
StoredValue_NotTheName(w, k) ==
    IF job[w].kind = "clear" THEN 0
    ELSE IF k = "deviceid" THEN nvs[k] ELSE s_state[k]

\* Mutant: the caller's arguments are stored.
StoredValue_FromCaller(w, k) ==
    IF job[w].kind = "clear" THEN 0
    ELSE IF job[w].kind = "set" THEN job[w].source ELSE s_state[k]

\* What is stored is what RAM has by then, where the other task may have changed
\* it, and not what the caller gave; a clear stores the empty string.
StoredValue(w, k) == IF job[w].kind = "clear" THEN 0 ELSE s_state[k]

\* set_credentials and clear_credentials go in this order.
NextStep(todo) ==
    IF "ssid" \in todo THEN "ssid"
    ELSE IF "pass" \in todo THEN "pass"
    ELSE IF "name" \in todo THEN "name" ELSE "deviceid"

\* NVS refuses a write: the old value stays, and no caller notices.
Refused(k, value) ==
    /\ ~calm /\ nvs[k] # value
    /\ unsaved' = unsaved \cup {k} /\ Cardinality(unsaved') <= MaxRefused
    /\ UNCHANGED nvs

\* A write and its commit.
hyperwisor_nvs_set_str(k, value) ==
    \/ nvs' = [nvs EXCEPT ![k] = value] /\ unsaved' = unsaved \ {k}
    \/ Refused(k, value)

\* set_device_id changes RAM first.
NameToRam(w) ==
    /\ s_state' = [s_state EXCEPT !["deviceid"] = job[w].source]
    /\ UNCHANGED <<nvs, unsaved>>

\* The next step of a task that stores credentials.
Store(w) ==
    /\ job[w].todo # {}
    /\ LET k    == NextStep(job[w].todo)
           rest == job[w].todo \ {k}
       IN  /\ \/ k = "name" /\ NameToRam(w)
              \/ /\ k # "name"
                 /\ hyperwisor_nvs_set_str(k, StoredValue(w, k))
                 /\ UNCHANGED s_state
           /\ job' = [job EXCEPT ![w] =
                        IF w = "app" /\ @.kind # "start" /\ rest = {} THEN Idle
                        ELSE [@ EXCEPT !.todo = rest]]
    /\ UNCHANGED <<hsc_priv, s_device_id, s_priv, boot, wifi, page, registered,
                   admitted, counters, calm>>

\* hyperwisor_hsc_erase; NVS may keep the key.
EraseKey ==
    /\ boot # "init" /\ ~calm /\ hsc_priv # 0
    /\ hsc_priv' \in {0, hsc_priv} /\ s_priv' = 0
    /\ UNCHANGED <<nvs, s_state, s_device_id, unsaved, boot, wifi, job, page,
                   registered, admitted, counters, calm>>
-----------------------------------------------------------------------------
(* The platform and the relay.                                             *)

\* The phone follows the link on the success page.
Register ==
    /\ page \notin registered \cup {NoLink}
    /\ registered' = registered \cup {page}
    /\ UNCHANGED <<flash, ram, boot, wifi, job, page, admitted, counters, calm>>

\* The name and the key a connection is made with: the address carries
\* s_state's device id, and the signature covers it.
Claimed == [device |-> s_state["deviceid"], key |-> s_priv]

CanConnect ==
    boot = "running" /\ mode = "sta" /\ joins /\ Claimed.device # 0 /\ Claimed.key # 0

\* hyperwisor_hsc_register, called by the application, with the stored name.
RegisterInCode ==
    /\ mode = "sta" /\ joins /\ ~calm
    /\ LET stored == [device |-> nvs["deviceid"], key |-> s_priv]
       IN  /\ stored.device # 0 /\ stored.key # 0
           /\ stored \notin registered
           /\ registered' = registered \cup {stored}
    /\ UNCHANGED <<flash, ram, boot, wifi, job, page, admitted, counters, calm>>

\* The handshake: the auth frame names s_device_id, and the relay admits a known
\* identity that names itself the same twice.
Authenticate ==
    /\ CanConnect /\ ~admitted
    /\ s_device_id = Claimed.device
    /\ Claimed \in registered
    /\ admitted' = TRUE
    /\ UNCHANGED <<flash, ram, boot, wifi, job, page, registered, counters, calm>>
-----------------------------------------------------------------------------
Settle ==
    /\ ~calm
    /\ calm' = TRUE
    /\ UNCHANGED <<flash, ram, boot, wifi, job, page, registered, admitted, counters>>

Start == hyperwisor_init \/ enable_security \/ hyperwisor_start \/ StartReturns

Page ==
    \/ PhoneJoins \/ ProvRestart \/ ApTimeout
    \/ \E given \in SUBSET Keys : "ssid" \in given /\ Submit(given)

Calls ==
    \/ \E given \in {{"ssid", "pass"}, {"deviceid"}, Keys} : SetInCode(given)
    \/ ClearCredentials \/ EraseKey

Platform == Register \/ RegisterInCode \/ Authenticate

Next ==
    \/ Start \/ Crash \/ Page \/ Calls \/ Platform \/ Settle
    \/ \E w \in Writers : Store(w)

Spec == Init /\ [][Next]_vars

\* app_main and the tasks run; the person with the phone follows the link; the
\* relay answers.
FairSpec ==
    /\ Spec
    /\ WF_vars(Start) /\ WF_vars(ProvRestart)
    /\ \A w \in Writers : WF_vars(Store(w))
    /\ WF_vars(Register) /\ WF_vars(Authenticate)
-----------------------------------------------------------------------------
(* Properties.                                                             *)

\* README.md:296-299, "values persist in NVS" (hello_hyperwisor main.c:42): once
\* nobody is storing anything, what a restart would change is exactly what NVS
\* refused (core.c:248-249, 262, 310-315 look at no error), however calls, forms,
\* refusals and power failures were mixed before.
RestartChangesNothing ==
    boot # "init" /\ (\A w \in Writers : job[w].kind = "idle")
        => /\ \A k \in Keys \ unsaved : nvs[k] = s_state[k]
           /\ s_priv \in {0, hsc_priv}

\* core.c:248-249 store the network from RAM and not from the arguments: a form
\* and a call that overlap, cut off or not, never leave a network name or a
\* password behind that is older than one stored before.
NetworkNeverGoesBack ==
    [][\A k \in {"ssid", "pass"} : nvs'[k] = 0 \/ nvs'[k] >= nvs[k]]_vars

\* The complete form n, sent to a device that has a key, is being stored, and
\* nothing of it is lost so far.
Submitted(n) ==
    /\ job["httpd"].kind = "set" /\ job["httpd"].source = n
    /\ s_state["ssid"] = n /\ s_state["pass"] = n
    /\ "name" \in job["httpd"].todo \/ s_state["deviceid"] = n
    /\ \A k \in Keys \ job["httpd"].todo : nvs[k] = n
    /\ page = [device |-> n, key |-> hsc_priv] /\ hsc_priv # 0

\* The application's own task will not replace a credential.
NothingAgainst ==
    job["app"].kind # "clear" /\ "name" \notin job["app"].todo

\* core.c:412-416: the timeout caught the form half stored.
CutOff(n) == boot = "init" /\ \E k \in Keys : nvs[k] # n

\* README.md:59-79: a complete form ends with the device admitted, although the
\* page is sent before anything is stored (wifi.c:287-290) and whatever the
\* application is still storing, unless the timeout comes in between.
OnboardingCompletes ==
    \A n \in Sources \ {0} :
        calm /\ Submitted(n) /\ NothingAgainst ~> admitted \/ CutOff(n)

\* secure_hyperwisor main.c:37-41: credentials may be set in code between
\* enable_security and start.  A connection then carries one device id.
AuthFrameNamesDevice ==
    CanConnect /\ job["app"].kind = "idle" => s_device_id = s_state["deviceid"]
=============================================================================
