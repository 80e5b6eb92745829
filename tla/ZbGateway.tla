----------------------------- MODULE ZbGateway -----------------------------
(***************************************************************************)
(* The Zigbee gateway: its task brings the radio up, compares the version  *)
(* of the RCP with the image in storage and flashes it when they differ,   *)
(* then forms a network and opens it for joining.  Image files, RCP,       *)
(* bookkeeping and flashing are those of RcpUpdate, the gateway's task     *)
(* being Main; what it does with them is its own.                          *)
(*   examples/esp_zigbee_gateway/main/esp_zigbee_gateway.c                 *)
(* with CONFIG_ZIGBEE_GW_AUTO_UPDATE_RCP; zigbee_gateway.c is the same     *)
(* file, multi-router/main/main.c has the same functions.                  *)
(***************************************************************************)
EXTENDS RcpUpdate, FiniteSets

CONSTANTS ZbFaultKinds,  \* what the Zigbee stack or the Wi-Fi may refuse
          MaxZbFaults    \* bound

ASSUME GatewayAssumption ==
  /\ Downloads = {} /\ ~UserUpdates
  /\ ZbFaultKinds \subseteq {"init", "form", "steer", "refuse", "wifi"}
  /\ MaxZbFaults \in Nat

VARIABLES job,      \* what the stack works on; "skip": SKIP_STARTUP will come
          alarm,    \* the commissioning modes that scheduler alarms will start
          net,      \* what the stack's NVRAM holds
          joinable, \* the network is open for joining
          zbFaults  \* how many refusals, and whether one since the boot ended it

zbVars == <<job, alarm, net, joinable>>
gwVars == <<vars, zbVars, zbFaults>>

GatewayInitState ==
  /\ UpdateInitState
  /\ job = "none" /\ alarm = {} /\ joinable = FALSE
  /\ net \in {"new", "formed"}
  /\ zbFaults = [n |-> 0, final |-> FALSE]

\* After these the handler only returns: no alarm tries again.
NoRetry == {"steer", "refuse", "wifi"}

ZbFault(kind) == /\ kind \in ZbFaultKinds
                 /\ zbFaults.n < MaxZbFaults
                 /\ zbFaults' = [n |-> zbFaults.n + 1,
                                 final |-> zbFaults.final \/ kind \in NoRetry]

\* A step that leaves the stack alone, and one that ends in a restart.
Keep == UNCHANGED <<zbVars, zbFaults>>
Down == /\ job' = "none" /\ alarm' = {} /\ joinable' = FALSE
        /\ zbFaults' = [zbFaults EXCEPT !.final = FALSE] /\ UNCHANGED net

-----------------------------------------------------------------------------
(* The gateway's task and the RCP.                                         *)

\* rcp_error_handler flashes the current image, whatever it is.
ErrorHandler == /\ \/ pc = "radio" /\ rcp \notin Bootable /\ NoFault
                   \/ pc \in {"radio", "running"} /\ Fault("glitch")
                /\ Become("flash")
                /\ NoCall /\ MainOnly
                /\ Down

\* ESP_ERROR_CHECK of check_ot_rcp_version: the version could not be read.
VersionUnread == /\ pc = "try" /\ Fault("glitch")
                 /\ Reboot /\ UNCHANGED rcp
                 /\ Down

\* Mutant: a flashed image is marked verified before it has run.
FlashedMarks == /\ pc = "accept" /\ MarkImageVerified(Main, TRUE)
                /\ Become("marked") /\ MainOnly /\ NoFault
                /\ Keep

\* esp_zb_gateway_update_rcp after ESP_OK: nothing is marked.
Flashed == /\ pc = "accept" /\ NoFault
           /\ Reboot /\ UNCHANGED rcp
           /\ Down

\* Mutant: when flashing fails the image stays the current one.
GwMarkNothing == /\ pc \in {"agree", "reject"} /\ NoCall
                 /\ Become(IF pc = "agree" THEN "enter" ELSE "marked")
                 /\ MainOnly /\ NoFault
                 /\ Keep

\* A version that matches, a flash that failed, an image that is not there.
GwMark == pc # "accept" /\ Mark /\ Keep

GwRestarts == pc = "marked" /\ AfterUpdate /\ Down

\* esp_zb_start(false) and the main loop: its first signal is SKIP_STARTUP.
GwEnters == /\ EnterMainLoop
            /\ job' = "skip"
            /\ UNCHANGED <<alarm, net, joinable, zbFaults>>

GwAborts == UpdateAborts /\ Down

GwTask == \/ ErrorHandler \/ VersionUnread \/ Flashed \/ GwMark \/ GwRestarts
          \/ GwEnters \/ GwAborts
          \/ /\ \/ Boot \/ RadioUp \/ TryLoads \/ UpdateOpens \/ UpdateFails
                \/ UpdateDone \/ UpdateOfNothing \/ MainCall
             /\ Keep

GwPowerLoss == PowerLoss /\ Down

-----------------------------------------------------------------------------
(* esp_zb_app_signal_handler, in the main loop.                            *)
InLoop == pc = "running" /\ UNCHANGED vars

\* example_connect: the handler returns when the Wi-Fi cannot be reached.
SkipStartup == /\ InLoop /\ job = "skip"
               /\ \/ job' = "init" /\ UNCHANGED zbFaults
                  \/ job' = "none" /\ ZbFault("wifi")
               /\ UNCHANGED <<alarm, net, joinable>>

\* Mutant: whether a network exists already is not asked.
StartedAlwaysForms ==
  /\ InLoop /\ job = "init"
  /\ job' = "form" /\ UNCHANGED <<alarm, net, joinable, zbFaults>>

\* DEVICE_FIRST_START and DEVICE_REBOOT with ESP_OK.
Started ==
  /\ InLoop /\ job = "init"
  /\ IF net = "new" THEN job' = "form" /\ UNCHANGED joinable
                    ELSE job' = "none" /\ joinable' = TRUE
  /\ UNCHANGED <<alarm, net, zbFaults>>

StartFails == /\ InLoop /\ job = "init" /\ ZbFault("init")
              /\ alarm' = alarm \cup {"init"} /\ job' = "none"
              /\ UNCHANGED <<net, joinable>>

\* The stack has the new network in its NVRAM before it signals it.
StackForms == /\ InLoop /\ job = "form" /\ net = "new"
              /\ net' = "formed"
              /\ UNCHANGED <<job, alarm, joinable, zbFaults>>

\* FORMATION with ESP_OK.
Formed == /\ InLoop /\ job = "form" /\ net = "formed"
          /\ job' = "steer"
          /\ UNCHANGED <<alarm, net, joinable, zbFaults>>

\* Mutant: formation is tried again at once as well as by the alarm.
FormFailsTwice == /\ InLoop /\ job = "form" /\ net = "new" /\ ZbFault("form")
                  /\ alarm' = alarm \cup {"form"} /\ UNCHANGED job
                  /\ UNCHANGED <<net, joinable>>

\* Mutant: the failure is only logged.
FormFailsLogged == /\ InLoop /\ job = "form" /\ net = "new" /\ ZbFault("form")
                   /\ job' = "none" /\ UNCHANGED <<alarm, net, joinable>>

FormFails == /\ InLoop /\ job = "form" /\ net = "new" /\ ZbFault("form")
             /\ alarm' = alarm \cup {"form"} /\ job' = "none"
             /\ UNCHANGED <<net, joinable>>

\* STEERING: of a failure nothing follows.
Steered == /\ InLoop /\ job = "steer" /\ job' = "none"
           /\ \/ joinable' = TRUE /\ UNCHANGED zbFaults
              \/ ZbFault("steer") /\ UNCHANGED joinable
           /\ UNCHANGED <<alarm, net>>

\* bdb_start_top_level_commissioning_cb: that it is refused is only logged.
AlarmFires(m) == /\ InLoop /\ m \in alarm /\ alarm' = alarm \ {m}
                 /\ \/ job' = m /\ UNCHANGED zbFaults
                    \/ ZbFault("refuse") /\ UNCHANGED job
                 /\ UNCHANGED <<net, joinable>>

\* The time for joining is over (PERMIT_JOIN_STATUS, only logged).
JoinCloses == /\ InLoop /\ joinable /\ joinable' = FALSE
              /\ UNCHANGED <<job, alarm, net, zbFaults>>

ZbStep == \/ SkipStartup \/ Started \/ StartFails \/ StackForms \/ Formed
          \/ FormFails \/ Steered \/ \E m \in alarm : AlarmFires(m)

GatewayNext == GwTask \/ GwPowerLoss \/ ZbStep \/ JoinCloses

\* The task is scheduled, and the stack answers every request it took.
GatewayFairness == WF_gwVars(GwTask) /\ WF_gwVars(ZbStep)
GatewaySpec == GatewayInitState /\ [][GatewayNext]_gwVars /\ GatewayFairness

-----------------------------------------------------------------------------
\* One commissioning at a time: a request the stack works on, or one that an
\* alarm will make, never both and never two, through all failures and retries.
OneRequest == /\ Cardinality(alarm) <= 1
              /\ alarm # {} => job = "none"

\* The types, and a stack that is idle outside the main loop.
GatewayTypeOK ==
  /\ UpdateTypeOK
  /\ job \in {"none", "skip", "init", "form", "steer"}
  /\ alarm \subseteq {"init", "form"}
  /\ net \in {"new", "formed"} /\ joinable \in BOOLEAN
  /\ zbFaults \in [n : 0..MaxZbFaults, final : BOOLEAN]
  /\ pc # "running" => job = "none" /\ alarm = {} /\ ~joinable

\* A network is formed only where there is none, also after a power loss
\* between the stack's formation and its signal.
FormsOnce == [][job' = "form" /\ job # "form" => net = "new"]_gwVars

\* An image that was not trusted becomes so only when the RCP was found running
\* it: the gateway marks after the restart, not after flashing.
TrustsRunning == [][ready /\ ready' /\ ~verified /\ verified' =>
                      rcp \in Bootable /\ rcp = Current.ver]_gwVars

\* Whatever fails, the gateway comes back to its main loop as long as there is
\* an image that is complete and boots, and what the current slot names is such
\* an image or is missing: then the other slot is tried.
GwRecovers ==
  /\ WayBack
  /\ [](Current.part = "absent" \/ (Current.part = "whole" /\ Current.ver \in Bootable))
  => []<>(pc = "running")

\* A gateway that stays in its main loop opens its network, however often
\* initialisation and formation fail, unless the Wi-Fi cannot be reached, a
\* retry is refused or steering fails, after which the handler waits for nothing.
Opens == (job = "skip") ~> (joinable \/ zbFaults.final \/ pc # "running")

\* Types, and one commissioning at a time.
GatewayInv == GatewayTypeOK /\ OneRequest
=============================================================================
