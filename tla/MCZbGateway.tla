---------------------------- MODULE MCZbGateway ----------------------------
(* Power-up of a gateway with any RCP and any pair of images, each missing, *)
(* cut off behind its version, or complete; or of the multi-router, with    *)
(* any pair in NVS, any networks in reach and no images.                    *)
EXTENDS MultiRouter

VARIABLE device     \* the program that runs on it

mcVars == <<routerVars, device>>

MCKnown   == {[ssid |-> "home", psk |-> "h"], [ssid |-> "field", psk |-> "f"]}
MCKconfig == [ssid |-> "home", psk |-> "h"]
MCNone    == "none"

Stored    == \A s \in 0..1 : file[s].part \in {"absent", "header", "whole"}
NoImages  == \A s \in 0..1 : file[s] = DlIdle.img

PowerUp ==
  \/ /\ device = "gateway" /\ GatewayInitState /\ Stored
     /\ ob = "off" /\ wifi = Nowhere /\ air = {} /\ linked = Nowhere /\ active = 0
  \/ device = "router" /\ RouterInitState /\ NoImages

GatewayRuns == device = "gateway" /\ GatewayNext /\ UNCHANGED <<otVars, device>>
RouterRuns  == device = "router" /\ RouterNext /\ UNCHANGED device

\* The fairness of the program that runs.
PowerUpSpec ==
  /\ PowerUp /\ [][GatewayRuns \/ RouterRuns]_mcVars
  /\ WF_mcVars(device = "gateway" /\ GwTask /\ UNCHANGED <<otVars, device>>)
  /\ WF_mcVars(ZbStep /\ UNCHANGED <<otVars, device>>)
  /\ WF_mcVars(device = "router" /\ (AppMain \/ ZbUp) /\ UNCHANGED device)
  /\ WF_mcVars(device = "router" /\ OtBrInit /\ UNCHANGED device)

\* Types, one commissioning at a time, and the stored pair.
GatewayHolds == GatewayInv /\ RouterInv

\* A Zigbee network is formed once, and so is a Thread network.
NetworksKept == FormsOnce /\ ThreadKept

\* The gateway gets back to its main loop, and the border router up.
ComesBack == GwRecovers /\ RouterUp
=============================================================================
