----------------------------- MODULE MultiRouter -----------------------------
(***************************************************************************)
(* The program itself, multi-router/main/main.c with the border router of  *)
(* common/thread_border_router, as sdkconfig builds it: the Zigbee gateway *)
(* of ZbGateway without updates of its RCP, and beside it ot_br_init,      *)
(* which brings Wi-Fi, border router and Thread up.  Each half restarts    *)
(* the device when it fails, and the other half with it.                   *)
(***************************************************************************)
EXTENDS ZbGateway

CONSTANTS Known,     \* networks that exist: [ssid, psk]
          Kconfig,   \* CONFIG_EXAMPLE_WIFI_SSID and _PASSWORD
          None       \* an ssid that is not stored

ASSUME RouterAssumption ==
  /\ Kconfig \in Known
  /\ \A p \in Known : p = [ssid |-> p.ssid, psk |-> p.psk] /\ p.ssid # None

VARIABLES ob,      \* the task ot_br_init: where it is
          wifi,    \* ssid and password in NVS
          air,     \* ssids in reach
          linked,  \* the network it connected to
          active   \* the active dataset; 0: none

otVars     == <<ob, wifi, air, linked, active>>
routerVars == <<gwVars, otVars>>

Ssids == { p.ssid : p \in Known }
Pairs == [ssid : Ssids \cup {None}, psk : { p.psk : p \in Known } \cup {""}]
Nowhere == [ssid |-> None, psk |-> ""]

RouterInitState ==
  /\ GatewayInitState /\ rcp \in Bootable
  /\ ob = "off" /\ wifi \in Pairs /\ air \in SUBSET Ssids
  /\ linked = Nowhere /\ active \in 0..1

-----------------------------------------------------------------------------
(* esp_restart, an ESP_ERROR_CHECK, an assert or the loss of power.        *)
Down2    == /\ Reboot /\ Down /\ UNCHANGED rcp
            /\ ob' = "off" /\ linked' = Nowhere /\ UNCHANGED air
Restarts == Down2 /\ UNCHANGED <<wifi, active>>

RouterPowerLoss == Restarts /\ Fault("crash")

AirChanges == air' \in SUBSET Ssids /\ UNCHANGED <<gwVars, ob, wifi, linked, active>>

\* app_main starts both tasks.
AppMain == /\ pc = "off" /\ Become("radio") /\ NoCall /\ MainOnly /\ NoFault /\ Keep
           /\ ob' = "config" /\ UNCHANGED <<wifi, air, linked, active>>

-----------------------------------------------------------------------------
(* The Zigbee task.                                                        *)

\* esp_zb_init, the version, which is only logged, and the main loop.
ZbUp == /\ pc = "radio" /\ Become("running") /\ NoCall /\ MainOnly /\ NoFault
        /\ job' = "skip" /\ UNCHANGED <<alarm, net, joinable, zbFaults>>
        /\ UNCHANGED otVars

\* zb_rcp_error_handler without an update; or the version is not read.
ZbRadioFails == pc \in {"radio", "running"} /\ Restarts /\ Fault("glitch")

ZbSignal == (ZbStep \/ JoinCloses) /\ UNCHANGED otVars

-----------------------------------------------------------------------------
(* ot_br_init.                                                             *)
OtGoto(p) == ob' = p /\ UNCHANGED gwVars /\ UNCHANGED air

ReadConfig == /\ ob = "config"
              /\ OtGoto(IF wifi.ssid # None THEN "nvs" ELSE "kconfig")
              /\ UNCHANGED <<wifi, linked, active>>

\* What esp_ot_wifi_connect returns: only a network that exists and is in reach
\* at this moment lets the router in.
InReach(p)    == p \in Known /\ p.ssid \in air
Connects(p)   == InReach(p) /\ linked' = p /\ UNCHANGED <<wifi, active>>
NotInReach(p) == ~InReach(p)

\* Mutant: a stored network is the only one that is tried.
ConnectStoredOnly ==
  /\ ob = "nvs"
  /\ \/ Connects(wifi) /\ OtGoto("init")
     \/ NotInReach(wifi) /\ Restarts /\ NoFault

\* The stored network ...
ConnectStored ==
  /\ ob = "nvs"
  /\ \/ Connects(wifi) /\ OtGoto("init")
     \/ NotInReach(wifi) /\ OtGoto("kconfig") /\ UNCHANGED <<wifi, linked, active>>

\* ... or else that of Kconfig, or else a restart.
ConnectKconfig ==
  /\ ob = "kconfig"
  /\ \/ Connects(Kconfig) /\ OtGoto(IF wifi = Kconfig THEN "again" ELSE "ssid")
     \/ NotInReach(Kconfig) /\ Restarts /\ NoFault

\* esp_ot_wifi_connect stores what is new, one key after the other ...
SaveSsid == /\ ob = "ssid"
            /\ \/ /\ wifi' = [wifi EXCEPT !.ssid = Kconfig.ssid]
                  /\ OtGoto("psk") /\ UNCHANGED <<linked, active>>
               \/ Restarts /\ Fault("nvs")

\* Mutant: the password of an earlier network is kept.
SavePasswordIfNone ==
  /\ ob = "psk"
  /\ wifi' = IF wifi.psk = "" THEN Kconfig ELSE wifi
  /\ OtGoto("again") /\ UNCHANGED <<linked, active>>

SavePassword == /\ ob = "psk"
                /\ \/ /\ wifi' = [wifi EXCEPT !.psk = Kconfig.psk]
                      /\ OtGoto("again") /\ UNCHANGED <<linked, active>>
                   \/ Restarts /\ Fault("nvs")

\* ... and wifi_config_save_and_connect stores it once more.
SaveAgain == /\ ob = "again"
             /\ \/ OtGoto("init") /\ UNCHANGED <<wifi, linked, active>>
                \/ Restarts /\ Fault("nvs")

\* Mutant: every start makes a network of its own.
AutoStartsNew == /\ ob = "init" /\ active' = active + 1
                 /\ OtGoto("done") /\ UNCHANGED <<wifi, linked>>

\* The border router, then the active dataset, or a new one where there is none.
AutoStarts == /\ ob = "init" /\ active' = IF active = 0 THEN 1 ELSE active
              /\ OtGoto("done") /\ UNCHANGED <<wifi, linked>>

\* The power goes while the dataset is stored and Thread is not started yet.
AutoStartCut == /\ ob = "init" /\ active' = IF active = 0 THEN 1 ELSE active
                /\ Down2 /\ Fault("crash") /\ UNCHANGED wifi

OtBrInit == \/ ReadConfig \/ ConnectStored \/ ConnectKconfig \/ SaveSsid
            \/ SavePassword \/ SaveAgain \/ AutoStarts

\* Both tasks are scheduled; nothing is assumed of the air, the radio, the power.
RouterFairness == /\ WF_routerVars(AppMain) /\ WF_routerVars(ZbUp)
                  /\ WF_routerVars(ZbStep /\ UNCHANGED otVars)
                  /\ WF_routerVars(OtBrInit)

RouterNext == \/ AppMain \/ ZbUp \/ ZbRadioFails \/ ZbSignal \/ OtBrInit
              \/ AutoStartCut \/ RouterPowerLoss \/ AirChanges

RouterSpec == RouterInitState /\ [][RouterNext]_routerVars /\ RouterFairness

-----------------------------------------------------------------------------
RouterTypeOK ==
  /\ ob \in {"off", "config", "nvs", "kconfig", "ssid", "psk", "again", "init", "done"}
  /\ wifi \in Pairs /\ air \in SUBSET Ssids /\ linked \in Known \cup {Nowhere}
  /\ active \in Nat

\* A border router that is up is connected to the network whose ssid and
\* password are stored, whichever pair or half of a pair an earlier boot has
\* left behind.
StoredIsLinked == ob \in {"init", "done"} => wifi = linked

\* Types, and the pair.
RouterInv == RouterTypeOK /\ StoredIsLinked

\* The Thread network that was started once is the one every later boot starts.
ThreadKept == [][active # 0 => active' = active]_routerVars

\* The border router comes up once the network of Kconfig stays in reach, also
\* from a stored pair that is torn, old or out of reach, and whatever restarts
\* the Zigbee half has made before.
RouterUp == <>[](Kconfig.ssid \in air) => <>[](ob = "done")
=============================================================================
