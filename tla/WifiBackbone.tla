---------------------------- MODULE WifiBackbone ----------------------------
(***************************************************************************)
(* The Wi-Fi backbone of the border router.  Three tasks connect through   *)
(* esp_ot_wifi_connect: "boot", the task ot_br_init; "cli", the command    *)
(* "wifi connect", which gives the OpenThread lock away meanwhile; "page", *)
(* the M5Stack's Wi-Fi page, whose connection runs in the OpenThread task, *)
(* under the lock.  Events of the Wi-Fi driver come from a task of their   *)
(* own.  s_wifi_initialized is left out: it is set with the first handler. *)
(***************************************************************************)
EXTENDS Integers, FiniteSets

CONSTANTS Networks,      \* the [ssid, psk] that the operator may give
          Kconfig,       \* the network of the build's configuration
          None,          \* no value in NVS
          MaxRetry,      \* CONFIG_EXAMPLE_WIFI_CONN_MAX_RETRY
          MaxWifi        \* bound: Wi-Fi operations of the operator

ASSUME WifiAssumption == {MaxRetry, MaxWifi} \subseteq Nat

\* The ssid and the password are strings; None is none.
ASSUME NetworksAssumption ==
  /\ None # ""
  /\ \A n \in Networks \cup {Kconfig} :
       n = [ssid |-> n.ssid, psk |-> n.psk] /\ None \notin {n.ssid, n.psk}

VARIABLES nvs,           \* namespace wifi_config: ssid and password
          wifi_state,    \* s_wifi_state
          retry_nums,    \* wifi_conn_retry_nums
          registered,    \* s_wifi_handler_registered
          link,          \* the driver: off, trying, associated, up (address got)
          tries,         \* its failed attempts in a row
          conn,          \* the tasks inside esp_ot_wifi_connect or _disconnect
          br,            \* flag, backbone interface, initialisations
          lock,          \* the page holds the OpenThread lock
          ops,           \* operations of the operator
          joined,        \* history: the networks connected to
          torn,          \* history: a restart or a clear came between ssid and password,
                         \* or after two connections stored them at a time
          overlap,       \* history: a connection began or ended inside another
          slipped        \* history: the link was lost before it had an address,
                         \* or under a task that disconnects

wifiVars == <<nvs, wifi_state, retry_nums, registered, link, tries, conn, br,
              lock, ops, joined, torn, overlap, slipped>>

Tasks   == {"boot", "cli", "page"}
Nothing == [ssid |-> None, psk |-> None]
BrInit  == [flag |-> FALSE, backbone |-> FALSE, inits |-> 0]

\* What a restart resets: everything but NVS.
WifiReset ==
  /\ wifi_state' = "disconnected" /\ retry_nums' = 0 /\ registered' = FALSE
  /\ link' = "off" /\ tries' = 0 /\ br' = BrInit /\ lock' = FALSE
  /\ conn' = [t \in Tasks |-> [pc |-> "idle", net |-> Nothing]]
  /\ overlap' = FALSE /\ slipped' = FALSE
  /\ torn' = (torn \/ overlap \/ \E t \in Tasks : conn[t].pc = "psk")
  /\ UNCHANGED <<nvs, ops, joined>>

WifiInit ==
  /\ nvs \in {Nothing, Kconfig} /\ joined = {Kconfig}
  /\ wifi_state = "disconnected" /\ retry_nums = 0 /\ registered = FALSE
  /\ link = "off" /\ tries = 0 /\ br = BrInit /\ lock = FALSE /\ ops = 0
  /\ conn = [t \in Tasks |-> [pc |-> "idle", net |-> Nothing]]
  /\ torn = FALSE /\ overlap = FALSE /\ slipped = FALSE

Unlocked == ~lock
Idle(t)  == conn[t].pc = "idle"
\* The network is of no more use once the task has stored it.
Goes(t, pc) == conn' = [conn EXCEPT ![t] =
  [pc |-> pc, net |-> IF pc \in {"ssid", "psk"} THEN @.net ELSE Nothing]]
Busy(t)  == conn[t].pc \notin {"idle", "posted", "end"}
\* ot_br_init has begun before an operator finds the prompt.
Operates == conn["boot"].pc # "idle" /\ ops < MaxWifi /\ ops' = ops + 1
\* What esp_ot_wifi_config_get_ssid and _get_password find: no password is "".
Stored   == [ssid |-> nvs.ssid, psk |-> IF nvs.psk = None THEN "" ELSE nvs.psk]

-----------------------------------------------------------------------------
(* esp_ot_wifi_connect. *)

\* Handlers are registered and the driver starts anew.
Joins(t, net) ==
  /\ registered' = TRUE /\ link' = "trying" /\ tries' = 0
  /\ conn' = [conn EXCEPT ![t] = [pc |-> "join", net |-> net]]
  /\ overlap' = (overlap \/ link # "off" \/ \E u \in Tasks \ {t} : Busy(u))
  /\ UNCHANGED <<nvs, wifi_state, retry_nums, br, joined, torn, slipped>>

\* Connected: the network is stored if it is not the stored one.
Connected(t) ==
  /\ conn[t].pc = "joined"
  /\ joined' = joined \cup {conn[t].net}
  /\ Goes(t, IF conn[t].net = Stored THEN "done" ELSE "ssid")
  /\ UNCHANGED <<nvs, wifi_state, retry_nums, registered, link, tries, br, lock,
                 ops, torn, overlap, slipped>>

\* esp_ot_wifi_config_set_ssid and esp_ot_wifi_config_set_password, each with
\* its commit.  (One that fails asserts, which is a restart.)
SetSsid(t) ==
  /\ conn[t].pc = "ssid" /\ Goes(t, "psk")
  /\ nvs' = [nvs EXCEPT !.ssid = conn[t].net.ssid]
  /\ UNCHANGED <<wifi_state, retry_nums, registered, link, tries, br, lock, ops,
                 joined, torn, overlap, slipped>>

\* Mutant: the password of an open network is not stored.
SetPasswordIfAny(t) ==
  /\ conn[t].pc = "psk" /\ Goes(t, "done")
  /\ nvs' = IF conn[t].net.psk = "" THEN nvs ELSE [nvs EXCEPT !.psk = conn[t].net.psk]
  /\ torn' = (torn /\ nvs'.ssid # conn[t].net.ssid)
  /\ UNCHANGED <<wifi_state, retry_nums, registered, link, tries, br, lock, ops,
                 joined, overlap, slipped>>

SetPassword(t) ==
  /\ conn[t].pc = "psk" /\ Goes(t, "done")
  /\ nvs' = [nvs EXCEPT !.psk = conn[t].net.psk]
  /\ torn' = (torn /\ nvs'.ssid # conn[t].net.ssid)
  /\ UNCHANGED <<wifi_state, retry_nums, registered, link, tries, br, lock, ops,
                 joined, overlap, slipped>>

-----------------------------------------------------------------------------
(* The driver's events and the two handlers of them. *)

\* handler_on_wifi_connect.
OnConnect == IF registered THEN wifi_state' = "connected" /\ retry_nums' = 0
                           ELSE UNCHANGED <<wifi_state, retry_nums>>

\* Mutant: >= for >.
OnDisconnectEarly ==
  IF ~registered THEN UNCHANGED <<wifi_state, retry_nums>>
  ELSE IF retry_nums + 1 >= MaxRetry
       THEN wifi_state' = "disconnected" /\ retry_nums' = 0
       ELSE wifi_state' = "reconnecting" /\ retry_nums' = retry_nums + 1

\* handler_on_wifi_disconnect.
OnDisconnect ==
  IF ~registered THEN UNCHANGED <<wifi_state, retry_nums>>
  ELSE IF retry_nums + 1 > MaxRetry
       THEN wifi_state' = "disconnected" /\ retry_nums' = 0
       ELSE wifi_state' = "reconnecting" /\ retry_nums' = retry_nums + 1

LinkUp ==
  /\ link = "trying" /\ link' = "associated" /\ OnConnect
  /\ UNCHANGED <<nvs, registered, tries, conn, br, lock, ops, joined, torn,
                 overlap, slipped>>

\* With an address, whoever waits for the connection has it.
GotIp ==
  /\ link = "associated" /\ link' = "up" /\ tries' = 0
  /\ conn' = [t \in Tasks |-> IF conn[t].pc = "join" THEN [conn[t] EXCEPT !.pc = "joined"]
                                                     ELSE conn[t]]
  /\ UNCHANGED <<nvs, wifi_state, retry_nums, registered, br, lock, ops, joined,
                 torn, overlap, slipped>>

\* An attempt fails or the link is lost: tried again, MaxRetry times.
LinkLost ==
  /\ link # "off" /\ OnDisconnect
  /\ slipped' = (slipped \/ link = "associated" \/ \E t \in Tasks : conn[t].pc = "disc")
  /\ IF tries + 1 > MaxRetry
     THEN /\ link' = "off" /\ tries' = 0
          /\ conn' = [t \in Tasks |-> IF conn[t].pc = "join"
                                      THEN [pc |-> "failed", net |-> Nothing] ELSE conn[t]]
     ELSE link' = "trying" /\ tries' = tries + 1 /\ UNCHANGED conn
  /\ UNCHANGED <<nvs, registered, br, lock, ops, joined, torn, overlap>>

-----------------------------------------------------------------------------
(* The command line: "wifi connect", "wifi disconnect", "wifi config clear" *)

CliConnect(net) ==
  /\ Unlocked /\ Idle("cli") /\ Operates /\ wifi_state = "disconnected"
  /\ Joins("cli", net) /\ UNCHANGED lock

\* The first connection initialises the border router; the flag is set
\* whether that succeeds or not.
CliConnected ==
  /\ Unlocked /\ conn["cli"].pc = "done" /\ Goes("cli", "idle")
  /\ IF br.flag THEN UNCHANGED br
     ELSE \E n \in {0, 1} : br' = [flag |-> TRUE, backbone |-> TRUE, inits |-> br.inits + n]
  /\ UNCHANGED <<nvs, wifi_state, retry_nums, registered, link, tries, lock, ops,
                 joined, torn, overlap, slipped>>

CliFails ==
  /\ Unlocked /\ conn["cli"].pc = "failed" /\ Goes("cli", "idle")
  /\ UNCHANGED <<nvs, wifi_state, retry_nums, registered, link, tries, br, lock,
                 ops, joined, torn, overlap, slipped>>

\* esp_ot_wifi_disconnect sees the link connected ...
Disconnect(t) ==
  /\ Unlocked /\ Idle(t) /\ Operates /\ wifi_state = "connected" /\ Goes(t, "disc")
  /\ lock' = (t = "page")
  /\ UNCHANGED <<nvs, wifi_state, retry_nums, registered, link, tries, br, joined,
                 torn, overlap, slipped>>

\* ... unregisters the handlers ...
Unregister(t) ==
  /\ conn[t].pc = "disc" /\ Goes(t, "unregistered")
  /\ registered' = FALSE /\ wifi_state' = "disconnected"
  /\ UNCHANGED <<nvs, retry_nums, link, tries, br, lock, ops, joined, torn,
                 overlap, slipped>>

\* ... and ends the connection, of which no handler hears.
Disconnected(t) ==
  /\ conn[t].pc = "unregistered" /\ Goes(t, "idle")
  /\ link' = "off" /\ tries' = 0
  /\ overlap' = (overlap \/ \E u \in Tasks \ {t} : Busy(u))
  /\ lock' = (lock /\ t # "page")
  /\ UNCHANGED <<nvs, wifi_state, retry_nums, registered, br, ops, joined, torn, slipped>>

\* nvs_erase_all; the driver of NVS writes it at once.
ConfigClear ==
  /\ Unlocked /\ Idle("cli") /\ Operates /\ nvs' = Nothing
  /\ torn' = (torn \/ \E t \in Tasks : conn[t].pc = "psk")
  /\ UNCHANGED <<wifi_state, retry_nums, registered, link, tries, conn, br, lock,
                 joined, overlap, slipped>>

-----------------------------------------------------------------------------
(* The Wi-Fi page. *)

\* The stored network, if there is one; the connection is posted to the
\* OpenThread task.
PageConnect ==
  /\ Unlocked /\ Idle("page") /\ Operates
  /\ wifi_state = "disconnected" /\ nvs.ssid # None
  /\ conn' = [conn EXCEPT !["page"] = [pc |-> "posted", net |-> Stored]]
  /\ UNCHANGED <<nvs, wifi_state, retry_nums, registered, link, tries, br, lock,
                 joined, torn, overlap, slipped>>

PageJoins == /\ Unlocked /\ conn["page"].pc = "posted"
             /\ Joins("page", conn["page"].net)
             /\ lock' = TRUE /\ UNCHANGED ops

\* Here the backbone interface tells whether the border router is initialised.
PageConnected ==
  /\ conn["page"].pc \in {"done", "failed"} /\ Goes("page", "idle") /\ lock' = FALSE
  /\ IF conn["page"].pc = "failed" \/ br.backbone THEN UNCHANGED br
     ELSE \E n \in {0, 1} : br' = [flag |-> TRUE, backbone |-> TRUE, inits |-> br.inits + n]
  /\ UNCHANGED <<nvs, wifi_state, retry_nums, registered, link, tries, ops, joined,
                 torn, overlap, slipped>>

-----------------------------------------------------------------------------
(* ot_br_init, once after each start. *)

\* The stored network, or that of Kconfig.
BootConnect ==
  /\ Idle("boot")
  /\ Joins("boot", IF nvs.ssid # None THEN Stored ELSE Kconfig)
  /\ UNCHANGED <<lock, ops>>

\* Mutant: the flag of the command line is not set.
BootInitsUnflagged == br' = [br EXCEPT !.backbone = TRUE, !.inits = @ + 1]

\* What it does of the border router, under the lock, when it is connected.
BootInits == br' = [flag |-> TRUE, backbone |-> TRUE, inits |-> br.inits + 1]

BootConnected ==
  /\ Unlocked /\ conn["boot"].pc = "done" /\ Goes("boot", "end") /\ BootInits
  /\ UNCHANGED <<nvs, wifi_state, retry_nums, registered, link, tries, lock, ops,
                 joined, torn, overlap, slipped>>

BootFails ==
  /\ conn["boot"].pc = "failed" /\ Goes("boot", "end")
  /\ UNCHANGED <<nvs, wifi_state, retry_nums, registered, link, tries, br, lock,
                 ops, joined, torn, overlap, slipped>>

Link     == LinkUp \/ GotIp \/ LinkLost
WifiTask == \E t \in Tasks : Connected(t) \/ SetSsid(t) \/ SetPassword(t)
                            \/ Unregister(t) \/ Disconnected(t)
WifiNext ==
  \/ Link \/ WifiTask \/ BootConnect \/ BootFails
  \/ \E net \in Networks : CliConnect(net)
  \/ CliConnected \/ CliFails \/ ConfigClear
  \/ \E t \in {"cli", "page"} : Disconnect(t)
  \/ PageConnect \/ PageJoins \/ PageConnected

-----------------------------------------------------------------------------
Pairs == Networks \cup {Kconfig}

\* The variables stay in their types.
WifiTypeOK ==
  /\ nvs \in [ssid : {n.ssid : n \in Pairs} \cup {None}, psk : {n.psk : n \in Pairs} \cup {None, ""}]
  /\ wifi_state \in {"disconnected", "connected", "reconnecting"}
  /\ retry_nums \in 0..MaxRetry /\ registered \in BOOLEAN
  /\ link \in {"off", "trying", "associated", "up"} /\ tries \in 0..MaxRetry
  /\ DOMAIN conn = Tasks
  /\ \A t \in Tasks : conn[t].pc \in {"idle", "posted", "join", "joined", "failed", "ssid",
                                      "psk", "done", "disc", "unregistered", "end"}
  /\ br.inits \in Nat /\ ops \in 0..MaxWifi

\* s_wifi_state, which only counts events, says what the driver really does:
\* connected while it is, reconnecting while it tries again, and disconnected,
\* so that the operator may connect, as soon as it has given up; a task that
\* disconnects is ahead of the driver for a moment.  Not claimed once
\* connections have overlapped, or the link was lost before it had an address:
\* the driver and the handlers then count differently.
StateTrue ==
  ~overlap /\ ~slipped /\ (\A t \in Tasks : conn[t].pc # "unregistered") =>
    wifi_state = IF link \in {"associated", "up"} THEN "connected"
                 ELSE IF link = "trying" /\ tries > 0 THEN "reconnecting"
                 ELSE "disconnected"

\* The stored ssid and password are those of one network that was connected
\* to, or none: never the ssid of one with the password of another, but for a
\* restart or a clear between the two writes, until a connection mends it.
CredentialsPair ==
  ~overlap /\ ~torn /\ (\A t \in Tasks : conn[t].pc # "psk") =>
    nvs = Nothing \/ Stored \in joined

\* The border router is initialised once after a start, by whichever task
\* connects first, however often the link is ended and made again by the
\* others; the flag and the interface that tell them so agree.
BorderRouterOnce ==
  ~overlap => br.inits <= 1 /\ (br.flag <=> br.backbone)

\* Types, and one initialisation of the border router after each start.
WifiInv == WifiTypeOK /\ BorderRouterOnce
=============================================================================
