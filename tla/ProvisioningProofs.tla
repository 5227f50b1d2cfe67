-------------------------- MODULE ProvisioningProofs --------------------------
(***************************************************************************)
(* Proofs, for any number of forms, calls, keys and refused writes: when   *)
(* nobody is storing credentials RAM and NVS differ in what NVS refused    *)
(* and in nothing else, every variable keeps its type, and the stored      *)
(* network never goes back to an older one.                                *)
(***************************************************************************)
EXTENDS Provisioning, TLAPS

\* The part of the type invariant the proof needs.
StoreType ==
    /\ nvs = [k \in Keys |-> nvs[k]] /\ s_state = [k \in Keys |-> s_state[k]]
    /\ DOMAIN job = Writers
    /\ \A w \in Writers :
          /\ DOMAIN job[w] = {"kind", "source", "todo"}
          /\ job[w].todo \subseteq Steps
          /\ job[w].kind \in {"idle", "set", "clear", "start"}

\* Only a set has a name to put in RAM, and the write to NVS is then to come.
NameFirst ==
    \A w \in Writers :
        "name" \in job[w].todo => "deviceid" \in job[w].todo /\ job[w].kind = "set"

\* While the page is idle only the fields the application still has to store,
\* and those NVS has refused, differ; a task that is idle has nothing to store; a
\* clear has wiped RAM.
PendingOnly ==
    boot # "init" /\ job["httpd"].kind = "idle" =>
        /\ \A k \in Keys : k \notin job["app"].todo \cup unsaved => nvs[k] = s_state[k]
        /\ job["app"].kind = "idle" => job["app"].todo = {}
        /\ job["app"].kind = "clear" => \A k \in Keys : s_state[k] = 0

\* The page is idle until a phone can reach it, and idle with nothing to store.
PageIdle ==
    /\ mode = "ap" \/ s_ap_started => boot = "running"
    /\ boot = "init" => \A w \in Writers : job[w] = Idle
    /\ job["httpd"].kind = "idle" => job["httpd"].todo = {}

KeyAgrees == s_priv \in {0, hsc_priv}

IInv == StoreType /\ NameFirst /\ PendingOnly /\ PageIdle /\ KeyAgrees

LEMMA IInvInit == Init => IInv
  BY DEF Init, IInv, StoreType, NameFirst, PendingOnly, PageIdle, KeyAgrees, Empty, Idle,
         Keys, Steps, Writers

\* The step a store picks is one that is waiting, the name before the device id.
LEMMA NextStepWaits ==
    ASSUME NEW todo \in SUBSET Steps, todo # {}
    PROVE  NextStep(todo) \in todo /\ (NextStep(todo) = "deviceid" => "name" \notin todo)
  BY DEF NextStep, Steps, Keys

LEMMA RebootKeeps ==
    ASSUME IInv, Reboot
    PROVE  IInv'
  BY DEF IInv, StoreType, NameFirst, PendingOnly, PageIdle, KeyAgrees, Reboot, flash, Empty,
         Idle, Keys, Steps, Writers

LEMMA BeginSetKeeps ==
    ASSUME IInv, NEW w \in Writers, NEW stored \in SUBSET Keys,
           NEW given \in SUBSET Keys, BeginSet(w, stored, given), boot # "init",
           UNCHANGED <<flash, s_priv, unsaved, boot, wifi>>
    PROVE  IInv'
<1> USE DEF IInv
<1> DEFINE todo == stored \cup {f \in {"name"} : "deviceid" \in stored}
<1>1. /\ s_state' = [k \in Keys |->
                       IF k \notin stored \ {"deviceid"} THEN s_state[k]
                       ELSE IF k \in given THEN sources + 1 ELSE 0]
      /\ job' = [job EXCEPT ![w] =
                   [kind |-> "set", source |-> sources + 1, todo |-> todo]]
      /\ job[w].kind = "idle"
      /\ nvs' = nvs /\ hsc_priv' = hsc_priv /\ s_priv' = s_priv /\ boot' = boot
      /\ mode' = mode /\ s_ap_started' = s_ap_started /\ unsaved' = unsaved
  BY DEF BeginSet, flash, wifi
<1>2. /\ job'[w] = [kind |-> "set", source |-> sources + 1, todo |-> todo]
      /\ \A v \in Writers : v # w => job'[v] = job[v]
  BY <1>1 DEF StoreType
<1>3. todo \subseteq Steps /\ stored \subseteq todo
  BY DEF Steps
<1>4. StoreType'
  BY <1>1, <1>2, <1>3 DEF StoreType
<1>5. NameFirst'
  BY <1>2 DEF NameFirst, Keys
<1> HIDE DEF todo
<1>6. PendingOnly'
  <2>1. CASE w = "httpd"
    BY <1>2, <2>1 DEF PendingOnly
  <2>2. CASE w = "app"
    <3>1. \A k \in Keys : k \notin todo => s_state'[k] = s_state[k]
      BY <1>1, <1>3
    <3>2. job'["httpd"] = job["httpd"]
      BY <1>2, <2>2 DEF Writers
    <3> QED
      BY <1>1, <1>2, <2>2, <3>1, <3>2 DEF PendingOnly
  <2> QED
    BY <2>1, <2>2 DEF Writers
<1>7. PageIdle' /\ KeyAgrees'
  BY <1>1, <1>2 DEF PageIdle, KeyAgrees, Writers
<1> QED
  BY <1>4, <1>5, <1>6, <1>7

\* What a write does to NVS.
LEMMA WriteEffect ==
    ASSUME StoreType, NEW k \in Keys, NEW value, hyperwisor_nvs_set_str(k, value)
    PROVE  /\ \A f \in Keys : f # k =>
              nvs'[f] = nvs[f] /\ (f \in unsaved' <=> f \in unsaved)
           /\ k \in unsaved' \/ nvs'[k] = value
           /\ nvs'[k] \in {nvs[k], value}
           /\ nvs' = [f \in Keys |-> nvs'[f]]
  BY DEF hyperwisor_nvs_set_str, Refused, StoreType

\* What a step of a task that stores credentials does.
LEMMA StoreEffect ==
    ASSUME IInv, NEW w \in Writers, Store(w),
           NEW k, k = NextStep(job[w].todo), NEW rest, rest = job[w].todo \ {k}
    PROVE  /\ k \in job[w].todo /\ k \in Steps
           /\ k = "deviceid" => "name" \notin job[w].todo
           /\ \/ /\ k = "name" /\ nvs' = nvs /\ unsaved' = unsaved
                 /\ s_state' = [s_state EXCEPT !["deviceid"] = job[w].source]
              \/ /\ k \in Keys /\ hyperwisor_nvs_set_str(k, StoredValue(w, k))
                 /\ s_state' = s_state
           /\ job'[w] = IF w = "app" /\ job[w].kind # "start" /\ rest = {} THEN Idle
                        ELSE [job[w] EXCEPT !.todo = rest]
           /\ \A v \in Writers : v # w => job'[v] = job[v]
           /\ DOMAIN job' = Writers
           /\ hsc_priv' = hsc_priv /\ s_priv' = s_priv /\ boot' = boot
           /\ mode' = mode /\ s_ap_started' = s_ap_started /\ sources' = sources
<1>1. /\ k \in job[w].todo /\ k \in Steps
      /\ k = "deviceid" => "name" \notin job[w].todo
  BY NextStepWaits DEF IInv, StoreType, Store
<1>2. k # "name" => k \in Keys
  BY <1>1 DEF Steps
<1>3. job' = [job EXCEPT ![w] =
                IF w = "app" /\ @.kind # "start" /\ rest = {} THEN Idle
                ELSE [@ EXCEPT !.todo = rest]]
  BY DEF Store
<1>4. \/ k = "name" /\ NameToRam(w)
      \/ /\ k # "name"
         /\ hyperwisor_nvs_set_str(k, StoredValue(w, k))
         /\ UNCHANGED s_state
  BY DEF Store
<1> QED
  BY <1>1, <1>2, <1>3, <1>4
     DEF Store, NameToRam, IInv, StoreType, wifi, counters

LEMMA StoreKeeps ==
    ASSUME IInv, NEW w \in Writers, Store(w)
    PROVE  IInv'
<1> DEFINE k    == NextStep(job[w].todo)
           rest == job[w].todo \ {k}
<1>1. /\ k \in job[w].todo /\ k \in Steps
      /\ k = "deviceid" => "name" \notin job[w].todo
      /\ job'[w] = IF w = "app" /\ job[w].kind # "start" /\ rest = {} THEN Idle
                   ELSE [job[w] EXCEPT !.todo = rest]
      /\ \A v \in Writers : v # w => job'[v] = job[v]
      /\ DOMAIN job' = Writers
      /\ hsc_priv' = hsc_priv /\ s_priv' = s_priv /\ boot' = boot
      /\ mode' = mode /\ s_ap_started' = s_ap_started
  BY StoreEffect
<1>2. \/ /\ k = "name" /\ nvs' = nvs /\ unsaved' = unsaved
         /\ s_state' = [s_state EXCEPT !["deviceid"] = job[w].source]
      \/ /\ k \in Keys /\ hyperwisor_nvs_set_str(k, StoredValue(w, k))
         /\ s_state' = s_state
  BY StoreEffect
<1> HIDE DEF k
<1>3. /\ job'[w].todo = rest
      /\ job'[w].kind \in {"idle", job[w].kind}
      /\ job'[w].kind = "idle" /\ w = "httpd" => job[w].kind = "idle"
      /\ DOMAIN job'[w] = {"kind", "source", "todo"}
      /\ job'[w].kind = "idle" /\ job[w].kind # "idle" => rest = {}
  BY <1>1 DEF IInv, StoreType, Idle
<1>4. StoreType'
  <2>1. nvs' = [f \in Keys |-> nvs'[f]] /\ s_state' = [f \in Keys |-> s_state'[f]]
    BY <1>2, WriteEffect DEF IInv, StoreType
  <2> QED
    BY <1>1, <1>3, <2>1 DEF IInv, StoreType
<1>5. NameFirst'
  BY <1>1, <1>3 DEF IInv, NameFirst
<1>6. boot # "init"
  BY <1>1 DEF IInv, PageIdle, Idle
<1>7. PendingOnly'
  <2>1. CASE w = "httpd"
    <3>1. job["httpd"].kind # "idle"
      BY <1>1, <2>1 DEF IInv, PageIdle
    <3> QED
      BY <1>3, <2>1, <3>1 DEF PendingOnly
  <2>2. CASE w = "app"
    <3> SUFFICES ASSUME job["httpd"].kind = "idle"
                 PROVE  PendingOnly'
      BY <1>1, <2>2 DEF PendingOnly, Writers
    <3>1. /\ \A f \in Keys : f \notin job["app"].todo \cup unsaved => nvs[f] = s_state[f]
          /\ job["app"].kind = "clear" => \A f \in Keys : s_state[f] = 0
          /\ job["app"].kind \in {"set", "clear", "start"}
      BY <1>1, <1>6, <2>2 DEF IInv, PendingOnly, StoreType, Writers
    <3>2. CASE k = "name"
      <4>1. "deviceid" \in rest /\ job["app"].kind = "set"
        BY <1>1, <2>2, <3>2 DEF IInv, NameFirst
      <4>2. /\ nvs' = nvs /\ unsaved' = unsaved
            /\ \A f \in Keys : f # "deviceid" => s_state'[f] = s_state[f]
        BY <1>2, <3>2 DEF IInv, StoreType, Keys
      <4>3. \A f \in Keys : f \notin rest \cup unsaved' => nvs'[f] = s_state'[f]
        BY <2>2, <3>1, <3>2, <4>1, <4>2 DEF Keys
      <4> QED
        BY <1>3, <2>2, <4>1, <4>3 DEF PendingOnly
    <3>3. CASE k # "name"
      <4>1. /\ k \in Keys /\ s_state' = s_state
            /\ \A f \in Keys : f # k =>
                   nvs'[f] = nvs[f] /\ (f \in unsaved' <=> f \in unsaved)
            /\ k \in unsaved' \/ nvs'[k] = StoredValue(w, k)
        BY <1>2, <3>3, WriteEffect DEF IInv
      <4>2. StoredValue(w, k) = s_state[k]
        BY <2>2, <3>1, <4>1 DEF StoredValue
      <4>3. \A f \in Keys : f \notin rest \cup unsaved' => nvs'[f] = s_state'[f]
        BY <2>2, <3>1, <4>1, <4>2
      <4>4. job'["app"].kind = "idle" => rest = {}
        BY <1>3, <2>2, <3>1
      <4>5. job'["app"].kind = "clear" => \A f \in Keys : s_state'[f] = 0
        BY <1>3, <2>2, <3>1, <4>1
      <4> QED
        BY <1>3, <2>2, <4>3, <4>4, <4>5 DEF PendingOnly
    <3> QED
      BY <3>2, <3>3
  <2> QED
    BY <2>1, <2>2 DEF Writers
<1>8. PageIdle' /\ KeyAgrees'
  BY <1>1, <1>3, <1>6 DEF IInv, PageIdle, KeyAgrees, Writers
<1> QED
  BY <1>4, <1>5, <1>7, <1>8 DEF IInv

LEMMA IInvNext == IInv /\ [Next]_vars => IInv'
<1> SUFFICES ASSUME IInv, [Next]_vars PROVE IInv'
  OBVIOUS
<1> USE DEF flash, ram, wifi, counters
<1>1. CASE hyperwisor_init
  BY <1>1 DEF hyperwisor_init, IInv, StoreType, NameFirst, PendingOnly, PageIdle, KeyAgrees,
              Idle, Writers
<1>2. CASE enable_security
  <2>1. KeyAgrees'
    BY <1>2 DEF enable_security, LoadKey, GenerateKey, NoKey, IInv, KeyAgrees
  <2> QED
    BY <1>2, <2>1 DEF enable_security, IInv, StoreType, NameFirst, PendingOnly, PageIdle
<1>3. CASE hyperwisor_start
  <2>1. /\ nvs' = nvs /\ s_state' = s_state /\ unsaved' = unsaved
        /\ hsc_priv' = hsc_priv /\ s_priv' = s_priv /\ s_ap_started' = s_ap_started
        /\ boot = "start" /\ job["app"].kind = "idle"
    BY <1>3 DEF hyperwisor_start
  <2>2. CASE hyperwisor_wifi_start_ap
    <3>1. job' = job /\ boot' = "running"
      BY <2>2 DEF hyperwisor_wifi_start_ap
    <3> QED
      BY <2>1, <3>1 DEF IInv, StoreType, NameFirst, PendingOnly, PageIdle, KeyAgrees
  <2>3. CASE hyperwisor_wifi_connect
    <3>1. /\ job' = [job EXCEPT !["app"] =
                       [kind |-> "start", source |-> 0, todo |-> {"ssid", "pass"}]]
          /\ mode' = "sta" /\ boot' = boot
      BY <2>3 DEF hyperwisor_wifi_connect
    <3>2. /\ job'["app"] = [kind |-> "start", source |-> 0, todo |-> {"ssid", "pass"}]
          /\ job'["httpd"] = job["httpd"] /\ DOMAIN job' = Writers
      BY <3>1 DEF IInv, StoreType, Writers
    <3>3. StoreType' /\ NameFirst'
      BY <2>1, <3>2 DEF IInv, StoreType, NameFirst, Writers, Steps, Keys
    <3>4. PendingOnly'
      BY <2>1, <3>1, <3>2 DEF IInv, PendingOnly
    <3> QED
      BY <2>1, <3>1, <3>2, <3>3, <3>4 DEF IInv, PageIdle, KeyAgrees, Writers
  <2> QED
    BY <1>3, <2>2, <2>3 DEF hyperwisor_start
<1>4. CASE Crash \/ ProvRestart \/ ApTimeout
  BY <1>4, RebootKeeps DEF Crash, ProvRestart, ApTimeout
<1>5. CASE PhoneJoins
  BY <1>5 DEF PhoneJoins, IInv, StoreType, NameFirst, PendingOnly, PageIdle, KeyAgrees
<1>6. ASSUME NEW given \in SUBSET Keys, Submit(given)
      PROVE  IInv'
  <2>1. boot # "init"
    BY <1>6 DEF Submit, IInv, PageIdle
  <2> QED
    BY <1>6, <2>1, BeginSetKeeps DEF Submit, Writers, Keys
<1>7. ASSUME NEW given \in {{"ssid", "pass"}, {"deviceid"}, Keys}, SetInCode(given)
      PROVE  IInv'
  BY <1>7, BeginSetKeeps DEF SetInCode, Writers, Keys
<1>8. CASE ClearCredentials
  <2>1. job' = [job EXCEPT !["app"] = [kind |-> "clear", source |-> 0, todo |-> Keys]]
    BY <1>8 DEF ClearCredentials
  <2>2. /\ job'["app"] = [kind |-> "clear", source |-> 0, todo |-> Keys]
        /\ job'["httpd"] = job["httpd"]
    BY <2>1 DEF IInv, StoreType, Writers
  <2> QED
    BY <1>8, <2>1, <2>2 DEF ClearCredentials, IInv, StoreType, NameFirst, PendingOnly,
                            PageIdle, KeyAgrees, Empty, Writers, Steps, Keys
<1>9. CASE EraseKey
  BY <1>9 DEF EraseKey, IInv, StoreType, NameFirst, PendingOnly, PageIdle, KeyAgrees
<1>10. ASSUME NEW w \in Writers, Store(w)
       PROVE  IInv'
  BY <1>10, StoreKeeps
<1>11. CASE Register \/ RegisterInCode \/ Authenticate \/ Settle
  BY <1>11 DEF Register, RegisterInCode, Authenticate, Settle, IInv, StoreType,
               NameFirst, PendingOnly, PageIdle, KeyAgrees
<1>12. CASE UNCHANGED vars
  BY <1>12 DEF vars, IInv, StoreType, NameFirst, PendingOnly, PageIdle, KeyAgrees
<1>13. CASE StartReturns
  <2>1. /\ job' = [job EXCEPT !["app"] = Idle] /\ boot' = "running"
        /\ job["app"].kind = "start" /\ job["app"].todo = {}
        /\ UNCHANGED <<flash, ram, wifi>>
    BY <1>13 DEF StartReturns
  <2>2. /\ job'["app"] = Idle /\ job'["httpd"] = job["httpd"] /\ DOMAIN job' = Writers
    BY <2>1 DEF IInv, StoreType, Writers
  <2>3. boot # "init"
    BY <2>1 DEF IInv, PageIdle, Idle, Writers
  <2>4. StoreType' /\ NameFirst'
    BY <2>1, <2>2 DEF IInv, StoreType, NameFirst, Idle, Writers
  <2>5. PendingOnly'
    BY <2>1, <2>2, <2>3 DEF IInv, PendingOnly, Idle
  <2> QED
    BY <2>1, <2>2, <2>4, <2>5 DEF IInv, PageIdle, KeyAgrees, Writers
<1> QED
  BY <1>1, <1>2, <1>3, <1>4, <1>5, <1>6, <1>7, <1>8, <1>9, <1>10, <1>11, <1>12, <1>13
     DEF Next, Start, Page, Calls, Platform

\* README.md:296-299, "values persist in NVS": for any number of forms, calls,
\* keys and refused writes, once nobody is storing anything a restart changes what
\* NVS refused and nothing else.
THEOREM RestartChangesNothingAlways == Spec => []RestartChangesNothing
<1>1. IInv => RestartChangesNothing
  BY DEF IInv, PendingOnly, KeyAgrees, StoreType, RestartChangesNothing, Writers
<1> QED
  BY <1>1, IInvInit, IInvNext, PTL DEF Spec
-----------------------------------------------------------------------------
(* Type correctness.                                                       *)

Kinds == {"idle", "set", "clear", "start"}

LEMMA NothingTypes ==
    /\ 0 \in Sources /\ 0 \in KeyNumbers /\ Empty \in Credentials
    /\ Idle.kind = "idle" /\ Idle.source = 0 /\ Idle.todo = {}
<1>1. 0 \in Sources /\ 0 \in KeyNumbers
  BY ProvisioningAssumption DEF Sources, KeyNumbers
<1> QED
  BY <1>1 DEF Empty, Credentials, Idle

LEMMA TypeInit == Init => TypeOK
<1> SUFFICES ASSUME Init PROVE TypeOK
  OBVIOUS
<1>1. page \in Identities
  BY NothingTypes DEF Init, Identities, NoLink
<1>2. DOMAIN job = Writers /\ \A w \in Writers : job[w] = Idle
  BY DEF Init
<1> QED
  BY <1>1, <1>2, NothingTypes DEF Init, TypeOK

LEMMA RebootTypes ==
    ASSUME TypeOK, Reboot
    PROVE  TypeOK'
<1>1. DOMAIN job' = Writers /\ \A w \in Writers : job'[w] = Idle
  BY DEF Reboot
<1> QED
  BY <1>1, NothingTypes DEF Reboot, TypeOK, flash, counters

LEMMA BeginSetTypes ==
    ASSUME TypeOK, NEW w \in Writers, NEW stored \in SUBSET Keys, NEW given,
           BeginSet(w, stored, given)
    PROVE  /\ sources' \in Sources /\ s_state' \in Credentials
           /\ sources + 1 \in Sources
           /\ DOMAIN job' = Writers
           /\ \A v \in Writers : /\ job'[v].kind \in Kinds
                                 /\ job'[v].source \in Sources
                                 /\ job'[v].todo \subseteq Steps
<1>1. sources + 1 \in Sources /\ 0 \in Sources
  BY ProvisioningAssumption DEF BeginSet, TypeOK, Sources
<1>2. s_state' \in Credentials
  BY <1>1 DEF BeginSet, TypeOK, Credentials
<1> DEFINE todo == stored \cup {f \in {"name"} : "deviceid" \in stored}
           new  == [kind |-> "set", source |-> sources + 1, todo |-> todo]
<1>3. /\ job'[w] = new /\ DOMAIN job' = Writers
      /\ \A v \in Writers : v # w => job'[v] = job[v]
  BY DEF BeginSet, TypeOK
<1>4. todo \subseteq Steps
  BY DEF Steps
<1> HIDE DEF todo
<1> QED
  BY <1>1, <1>2, <1>3, <1>4 DEF BeginSet, TypeOK, Kinds

LEMMA StoreTypes ==
    ASSUME TypeOK, IInv, NEW w \in Writers, Store(w)
    PROVE  TypeOK'
<1> DEFINE k    == NextStep(job[w].todo)
           rest == job[w].todo \ {k}
<1>1. /\ k \in job[w].todo
      /\ job'[w] = IF w = "app" /\ job[w].kind # "start" /\ rest = {} THEN Idle
                   ELSE [job[w] EXCEPT !.todo = rest]
      /\ \A v \in Writers : v # w => job'[v] = job[v]
      /\ DOMAIN job' = Writers
  BY StoreEffect
<1>2. \/ /\ k = "name" /\ nvs' = nvs /\ unsaved' = unsaved
         /\ s_state' = [s_state EXCEPT !["deviceid"] = job[w].source]
      \/ /\ k \in Keys /\ hyperwisor_nvs_set_str(k, StoredValue(w, k))
         /\ s_state' = s_state
  BY StoreEffect
<1> HIDE DEF k
<1>3. 0 \in Sources /\ job[w].source \in Sources
  BY ProvisioningAssumption DEF TypeOK, Sources
<1>4. nvs' \in Credentials /\ s_state' \in Credentials /\ unsaved' \subseteq Keys
  <2>1. CASE k = "name" /\ nvs' = nvs /\ unsaved' = unsaved
             /\ s_state' = [s_state EXCEPT !["deviceid"] = job[w].source]
    BY <1>3, <2>1 DEF TypeOK, Credentials
  <2>2. CASE /\ k \in Keys /\ hyperwisor_nvs_set_str(k, StoredValue(w, k))
             /\ s_state' = s_state
    <3>1. StoredValue(w, k) \in Sources
      BY <1>3, <2>2 DEF StoredValue, TypeOK, Credentials
    <3> QED
      BY <2>2, <3>1 DEF hyperwisor_nvs_set_str, Refused, TypeOK, Credentials
  <2> QED
    BY <1>2, <2>1, <2>2
<1>5. /\ job'[w].kind \in Kinds
      /\ job'[w].source \in Sources
      /\ job'[w].todo \subseteq Steps
  <2>1. CASE job'[w] = Idle
    BY <1>3, <2>1 DEF Idle, Kinds
  <2>2. CASE job'[w] = [job[w] EXCEPT !.todo = rest]
    <3>1. /\ job'[w].kind = job[w].kind /\ job'[w].source = job[w].source
          /\ job'[w].todo = rest
      BY <2>2 DEF IInv, StoreType
    <3> QED
      BY <3>1 DEF TypeOK, Kinds
  <2> QED
    BY <1>1, <2>1, <2>2
<1> QED
  BY <1>1, <1>4, <1>5 DEF TypeOK, Store, wifi, counters, Kinds

LEMMA TypeNext == TypeOK /\ IInv /\ [Next]_vars => TypeOK'
<1> SUFFICES ASSUME TypeOK, IInv, [Next]_vars PROVE TypeOK'
  OBVIOUS
<1> USE DEF flash, ram, wifi, counters
<1>0. 0 \in Sources /\ 0 \in KeyNumbers
  BY ProvisioningAssumption DEF Sources, KeyNumbers
<1>1. CASE hyperwisor_init
  BY <1>1 DEF hyperwisor_init, TypeOK
<1>2. CASE enable_security
  <2>1. /\ hsc_priv' \in KeyNumbers /\ s_priv' \in KeyNumbers
        /\ generations' \in KeyNumbers
    BY <1>2, ProvisioningAssumption
       DEF enable_security, LoadKey, GenerateKey, NoKey, TypeOK, KeyNumbers
  <2>2. s_device_id' \in Sources
    BY <1>2 DEF enable_security, TypeOK, Credentials, Keys
  <2> QED
    BY <1>2, <2>1, <2>2 DEF enable_security, TypeOK
<1>3. CASE hyperwisor_start
  <2>1. CASE hyperwisor_wifi_start_ap
    BY <1>3, <2>1 DEF hyperwisor_start, hyperwisor_wifi_start_ap, TypeOK
  <2>2. CASE hyperwisor_wifi_connect
    <3> DEFINE new == [kind |-> "start", source |-> 0, todo |-> {"ssid", "pass"}]
    <3>1. /\ job'["app"] = new /\ DOMAIN job' = Writers
          /\ \A v \in Writers : v # "app" => job'[v] = job[v]
      BY <2>2 DEF hyperwisor_wifi_connect, TypeOK, Writers
    <3>2. new.todo \subseteq Steps /\ new.source \in Sources
      BY <1>0 DEF Steps, Keys
    <3> QED
      BY <1>3, <2>2, <3>1, <3>2
         DEF hyperwisor_start, hyperwisor_wifi_connect, TypeOK
  <2> QED
    BY <1>3, <2>1, <2>2 DEF hyperwisor_start
<1>4. CASE Crash \/ ProvRestart \/ ApTimeout
  BY <1>4, RebootTypes DEF Crash, ProvRestart, ApTimeout
<1>5. CASE PhoneJoins
  BY <1>5 DEF PhoneJoins, TypeOK
<1>6. ASSUME NEW given \in SUBSET Keys, Submit(given)
      PROVE  TypeOK'
  <2>1. {"ssid", "pass"} \cup given \in SUBSET Keys
    BY DEF Keys
  <2>2. BeginSet("httpd", {"ssid", "pass"} \cup given, given)
    BY <1>6 DEF Submit
  <2>3. /\ sources' \in Sources /\ s_state' \in Credentials
        /\ sources + 1 \in Sources /\ DOMAIN job' = Writers
        /\ \A v \in Writers : /\ job'[v].kind \in Kinds
                              /\ job'[v].source \in Sources
                              /\ job'[v].todo \subseteq Steps
    BY <2>1, <2>2, BeginSetTypes DEF Writers
  <2>4. page' \in Identities
    BY <1>6, <1>0, <2>3 DEF Submit, Identities, NoLink, TypeOK
  <2> QED
    BY <1>6, <2>3, <2>4 DEF Submit, TypeOK, Kinds
<1>7. ASSUME NEW given \in {{"ssid", "pass"}, {"deviceid"}, Keys}, SetInCode(given)
      PROVE  TypeOK'
  <2>1. given \in SUBSET Keys
    BY DEF Keys
  <2>2. BeginSet("app", given, given)
    BY <1>7 DEF SetInCode
  <2>3. /\ sources' \in Sources /\ s_state' \in Credentials
        /\ DOMAIN job' = Writers
        /\ \A v \in Writers : /\ job'[v].kind \in Kinds
                              /\ job'[v].source \in Sources
                              /\ job'[v].todo \subseteq Steps
    BY <2>1, <2>2, BeginSetTypes DEF Writers
  <2> QED
    BY <1>7, <2>3 DEF SetInCode, TypeOK, Kinds
<1>8. CASE ClearCredentials
  <2> DEFINE new == [kind |-> "clear", source |-> 0, todo |-> Keys]
  <2>1. /\ job'["app"] = new /\ DOMAIN job' = Writers
        /\ \A v \in Writers : v # "app" => job'[v] = job[v]
    BY <1>8 DEF ClearCredentials, TypeOK, Writers
  <2>2. s_state' \in Credentials
    BY <1>0, <1>8 DEF ClearCredentials, Empty, Credentials
  <2> QED
    BY <1>0, <1>8, <2>1, <2>2 DEF ClearCredentials, TypeOK, Steps
<1>9. CASE EraseKey
  BY <1>0, <1>9 DEF EraseKey, TypeOK
<1>10. ASSUME NEW w \in Writers, Store(w)
       PROVE  TypeOK'
  BY <1>10, StoreTypes
<1>11. CASE RegisterInCode
  <2>1. nvs["deviceid"] \in Sources /\ s_priv \in KeyNumbers
    BY DEF TypeOK, Credentials, Keys
  <2> QED
    BY <1>11, <2>1 DEF RegisterInCode, TypeOK, Identities
<1>12. CASE Register \/ Authenticate \/ Settle
  BY <1>12 DEF Register, Authenticate, Settle, TypeOK
<1>13. CASE UNCHANGED vars
  BY <1>13 DEF vars, TypeOK
<1>14. CASE StartReturns
  <2>1. /\ job'["app"] = Idle /\ DOMAIN job' = Writers
        /\ \A v \in Writers : v # "app" => job'[v] = job[v]
    BY <1>14 DEF StartReturns, TypeOK, Writers
  <2> QED
    BY <1>14, <2>1, NothingTypes DEF StartReturns, TypeOK
<1> QED
  BY <1>1, <1>2, <1>3, <1>4, <1>5, <1>6, <1>7, <1>8, <1>9, <1>10, <1>11, <1>12,
     <1>13, <1>14
     DEF Next, Start, Page, Calls, Platform

\* Whatever is stored, by whichever task, belongs to a form or a call that was
\* made, and every key to a generation: for any number of them, each variable
\* keeps its type.
THEOREM TypeCorrect == Spec => []TypeOK
  BY IInvInit, IInvNext, TypeInit, TypeNext, PTL DEF Spec
-----------------------------------------------------------------------------
(* The network never goes back.                                            *)

Network == {"ssid", "pass"}

\* The network in RAM is never older than the one in NVS: it is what init has
\* loaded from there, or of a later form or call, or wiped.
RamIsNewer ==
    /\ \A k \in Network : nvs[k] <= sources /\ s_state[k] <= sources
    /\ boot # "init" => \A k \in Network : s_state[k] = 0 \/ nvs[k] <= s_state[k]

\* What the theorem says of one step.
NoneOlder == \A k \in Network : nvs'[k] = 0 \/ nvs'[k] >= nvs[k]

LEMMA NetworkNumbers ==
    ASSUME TypeOK
    PROVE  /\ Network \subseteq Keys /\ sources \in Nat
           /\ \A k \in Network : nvs[k] \in Nat /\ s_state[k] \in Nat
<1>1. Sources \subseteq Nat /\ Network \subseteq Keys
  BY ProvisioningAssumption DEF Sources, Network, Keys
<1> QED
  BY <1>1 DEF TypeOK, Credentials

\* A step that stores nothing, and leaves RAM alone or puts in it what is newer
\* than anything so far.
LEMMA NothingStored ==
    ASSUME TypeOK, RamIsNewer, nvs' = nvs, boot' = boot,
           sources' \in Nat, sources' >= sources,
           \A k \in Network : s_state'[k] \in {s_state[k], sources', 0}
    PROVE  RamIsNewer' /\ NoneOlder
<1>1. ASSUME NEW k \in Network
      PROVE  /\ nvs'[k] <= sources' /\ s_state'[k] <= sources' /\ nvs'[k] >= nvs[k]
             /\ boot' # "init" => s_state'[k] = 0 \/ nvs'[k] <= s_state'[k]
  BY <1>1, NetworkNumbers DEF RamIsNewer
<1> QED
  BY <1>1 DEF RamIsNewer, NoneOlder

\* A step that leaves the network in RAM alone and stores what is there, wipes
\* it, or leaves what was stored.
LEMMA RamStored ==
    ASSUME TypeOK, RamIsNewer, boot # "init", sources' = sources,
           \A k \in Network : /\ s_state'[k] = s_state[k]
                              /\ nvs'[k] \in {nvs[k], s_state[k], 0}
    PROVE  RamIsNewer' /\ NoneOlder
<1>1. ASSUME NEW k \in Network
      PROVE  /\ nvs'[k] <= sources' /\ s_state'[k] <= sources'
             /\ nvs'[k] = 0 \/ nvs'[k] >= nvs[k]
             /\ s_state'[k] = 0 \/ nvs'[k] <= s_state'[k]
  BY <1>1, NetworkNumbers DEF RamIsNewer
<1> QED
  BY <1>1 DEF RamIsNewer, NoneOlder

LEMMA BeginSetNewer ==
    ASSUME TypeOK, RamIsNewer, NEW w \in Writers, NEW stored, NEW given,
           BeginSet(w, stored, given), nvs' = nvs, boot' = boot
    PROVE  RamIsNewer' /\ NoneOlder
<1>1. sources' = sources + 1 /\ sources' \in Nat /\ sources' >= sources
  BY NetworkNumbers DEF BeginSet
<1>2. \A k \in Network : s_state'[k] \in {s_state[k], sources', 0}
  BY <1>1, NetworkNumbers DEF BeginSet
<1> QED
  BY <1>1, <1>2, NothingStored

LEMMA StoreNewer ==
    ASSUME TypeOK, IInv, RamIsNewer, NEW w \in Writers, Store(w)
    PROVE  RamIsNewer' /\ NoneOlder
<1> DEFINE k == NextStep(job[w].todo)
<1>1. sources' = sources
  BY StoreEffect
<1>2. \/ /\ k = "name" /\ nvs' = nvs
         /\ s_state' = [s_state EXCEPT !["deviceid"] = job[w].source]
      \/ /\ k \in Keys /\ hyperwisor_nvs_set_str(k, StoredValue(w, k))
         /\ s_state' = s_state
  BY StoreEffect
<1> HIDE DEF k
<1>3. boot # "init"
  BY DEF Store, IInv, PageIdle, Idle
<1>4. \A f \in Network : f # "deviceid"
  BY DEF Network
<1>5. \A f \in Network : s_state'[f] = s_state[f]
  BY <1>2, <1>4, NetworkNumbers DEF TypeOK, Credentials
<1>6. \A f \in Network : nvs'[f] \in {nvs[f], s_state[f], 0}
  BY <1>2, NetworkNumbers DEF hyperwisor_nvs_set_str, Refused, StoredValue, TypeOK,
                              Credentials
<1> QED
  BY <1>1, <1>3, <1>5, <1>6, RamStored

LEMMA NewerInit == Init => RamIsNewer
  BY DEF Init, RamIsNewer, Empty, Network, Keys

LEMMA NewerNext ==
    TypeOK /\ IInv /\ RamIsNewer /\ [Next]_vars => RamIsNewer' /\ NoneOlder
<1> SUFFICES ASSUME TypeOK, IInv, RamIsNewer, [Next]_vars
             PROVE  RamIsNewer' /\ NoneOlder
  OBVIOUS
<1> USE DEF flash, ram, wifi, counters
<1>0. sources \in Nat /\ sources >= sources
  BY NetworkNumbers
<1>1. CASE hyperwisor_init
  <2>1. nvs' = nvs /\ s_state' = nvs /\ sources' = sources
    BY <1>1 DEF hyperwisor_init
  <2> QED
    BY <2>1, NetworkNumbers DEF RamIsNewer, NoneOlder
<1>2. CASE enable_security
  <2>1. /\ nvs' = nvs /\ s_state' = s_state /\ sources' = sources
        /\ boot # "init" /\ boot' # "init"
    BY <1>2 DEF enable_security
  <2> QED
    BY <2>1, NetworkNumbers, RamStored
<1>3. CASE hyperwisor_start \/ StartReturns
  <2>1. boot # "init"
    BY <1>3 DEF hyperwisor_start, StartReturns, IInv, PageIdle, Idle, Writers
  <2>2. nvs' = nvs /\ s_state' = s_state /\ sources' = sources
    BY <1>3 DEF hyperwisor_start, StartReturns
  <2> QED
    BY <2>1, <2>2, NetworkNumbers, RamStored
<1>4. CASE Crash \/ ProvRestart \/ ApTimeout
  <2>1. /\ nvs' = nvs /\ s_state' = Empty /\ sources' = sources
        /\ boot' = "init"
    BY <1>4 DEF Crash, ProvRestart, ApTimeout, Reboot
  <2>2. \A k \in Network : s_state'[k] = 0
    BY <2>1, NetworkNumbers DEF Empty
  <2> QED
    BY <2>1, <2>2, NetworkNumbers DEF RamIsNewer, NoneOlder
<1>5. ASSUME NEW given \in SUBSET Keys, Submit(given)
      PROVE  RamIsNewer' /\ NoneOlder
  BY <1>5, BeginSetNewer DEF Submit, Writers
<1>6. ASSUME NEW given \in {{"ssid", "pass"}, {"deviceid"}, Keys}, SetInCode(given)
      PROVE  RamIsNewer' /\ NoneOlder
  BY <1>6, BeginSetNewer DEF SetInCode, Writers
<1>7. CASE ClearCredentials
  <2>1. nvs' = nvs /\ boot' = boot /\ sources' = sources /\ s_state' = Empty
    BY <1>7 DEF ClearCredentials
  <2>2. \A k \in Network : s_state'[k] \in {s_state[k], sources', 0}
    BY <2>1, NetworkNumbers DEF Empty
  <2> QED
    BY <1>0, <2>1, <2>2, NothingStored
<1>8. ASSUME NEW w \in Writers, Store(w)
      PROVE  RamIsNewer' /\ NoneOlder
  BY <1>8, StoreNewer
<1>9. CASE \/ PhoneJoins \/ EraseKey \/ Register \/ RegisterInCode
           \/ Authenticate \/ Settle \/ UNCHANGED vars
  <2>1. nvs' = nvs /\ boot' = boot /\ sources' = sources /\ s_state' = s_state
    BY <1>9 DEF PhoneJoins, EraseKey, Register, RegisterInCode, Authenticate,
                Settle, vars
  <2> QED
    BY <1>0, <2>1, NothingStored
<1> QED
  BY <1>1, <1>2, <1>3, <1>4, <1>5, <1>6, <1>7, <1>8, <1>9
     DEF Next, Start, Page, Calls, Platform

\* core.c:248-249, the network is stored from RAM: for any number of forms, calls
\* and restarts, in any overlap, NVS never gets a network name or a password
\* older than the one it has.
THEOREM NetworkNeverGoesBackAlways == Spec => NetworkNeverGoesBack
<1>1. TypeOK /\ IInv /\ RamIsNewer /\ [Next]_vars => [NoneOlder]_vars
  BY NewerNext
<1>2. TypeOK /\ IInv /\ RamIsNewer /\ [Next]_vars => RamIsNewer'
  BY NewerNext
<1>3. NetworkNeverGoesBack <=> [][NoneOlder]_vars
  BY DEF NetworkNeverGoesBack, NoneOlder, Network
<1> QED
  BY <1>1, <1>2, <1>3, IInvInit, IInvNext, TypeInit, TypeNext, NewerInit, PTL
     DEF Spec
=============================================================================
