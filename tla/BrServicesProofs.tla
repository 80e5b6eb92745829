-------------------------- MODULE BrServicesProofs --------------------------
(***************************************************************************)
(* Proofs about the border router's services: what s_wifi_state says, which *)
(* network is stored, who initialises the border router, which dataset is  *)
(* active, and what the web API and the server in front of it do, for any  *)
(* networks, any number of retries, and any bounds.                        *)
(***************************************************************************)
EXTENDS MCBrServices, TLAPS

-----------------------------------------------------------------------------
(* The Wi-Fi backbone: the inductive invariant.                            *)

Ssids == {n.ssid : n \in Pairs}
Psks  == {n.psk : n \in Pairs} \cup {""}
Nets  == [ssid : Ssids, psk : Psks]
Pcs   == {"idle", "posted", "join", "joined", "failed", "ssid", "psk", "done",
          "disc", "unregistered", "end"}

NvsType  == nvs \in [ssid : Ssids \cup {None}, psk : Psks \cup {None}]
LinkType == /\ wifi_state \in {"disconnected", "connected", "reconnecting"}
            /\ retry_nums \in 0..MaxRetry /\ registered \in BOOLEAN
            /\ link \in {"off", "trying", "associated", "up"} /\ tries \in 0..MaxRetry
ConnType == conn \in [Tasks -> [pc : Pcs, net : Nets \cup {Nothing}]]
BrType   == br \in [flag : BOOLEAN, backbone : BOOLEAN, inits : Nat]
FlagType == /\ lock \in BOOLEAN /\ torn \in BOOLEAN /\ overlap \in BOOLEAN
            /\ slipped \in BOOLEAN /\ ops \in 0..MaxWifi /\ joined \subseteq Nets
WifiType == NvsType /\ LinkType /\ ConnType /\ BrType /\ FlagType

\* A task knows the network that it connects to and stores.
Carries == \A t \in Tasks :
  /\ conn[t].pc \in {"posted", "join", "joined", "ssid", "psk"} => conn[t].net \in Nets
  /\ conn[t].pc \in {"ssid", "psk"} => conn[t].net \in joined

\* Inside esp_ot_wifi_connect.
Connecting == {"join", "joined", "failed", "ssid", "psk", "done"}

\* ot_br_init only connects, and is the first to do so.
BootRole  == conn["boot"].pc \in Connecting \cup {"idle", "end"}
BootFirst == conn["boot"].pc = "idle" => \A t \in Tasks : conn[t].pc = "idle"

\* What the history variable "overlap" rules out.
OneConnects == ~overlap => \A t, u \in Tasks :
  conn[t].pc \in Connecting /\ conn[u].pc \in Connecting => t = u

\* Until ot_br_init has ended nobody else initialises the border router.
BootAlone == ~overlap /\ conn["boot"].pc # "end" => ~br.flag
InitsOnce == ~overlap => /\ br.flag <=> br.backbone
                         /\ br.inits <= IF br.flag THEN 1 ELSE 0

\* The handlers count what the driver counts, unless they are unregistered.
Heard      == \A t \in Tasks : conn[t].pc # "unregistered"
Leaves     == \E t \in Tasks : conn[t].pc \in {"disc", "unregistered"}
Counted    == link \in {"off", "up"} => tries = 0
Registered == ~overlap /\ link # "off" /\ Heard => registered
CountsOwn  == ~overlap /\ ~slipped =>
  /\ Heard => retry_nums = IF link = "trying" THEN tries ELSE 0
  /\ Leaves => retry_nums = 0
  /\ ~Heard => wifi_state = "disconnected" /\ ~registered

\* Between the two writes the ssid is that of the network being stored.
HalfStored == ~overlap /\ ~torn =>
  \A t \in Tasks : conn[t].pc = "psk" => nvs.ssid = conn[t].net.ssid

WifiIInv ==
  /\ WifiType /\ Carries /\ BootRole /\ BootFirst /\ OneConnects
  /\ BootAlone /\ InitsOnce /\ Counted /\ Registered /\ CountsOwn /\ StateTrue
  /\ HalfStored /\ CredentialsPair

-----------------------------------------------------------------------------
(* The web API: the inductive invariant.                                   *)

\* A join that is waited for has a success of its own to report.
Proved == req \in {"pskd", "joining"} /\ join_state = "none" => proved

WebIInv == WebInv /\ ChosenKept /\ Proved /\ proved \in BOOLEAN
           /\ (done = "given" => req = "scan" /\ ~discover)
           /\ (mutex # "null" => req = "collect")

-----------------------------------------------------------------------------
(* The web server: the inductive invariant.                                *)

Parts     == {"error", "message", "result"}
Bodied    == Puts \cup {"post"}
Responses == {"200", "201", "204", "400", "409", "500", "failed"}

HttpdType ==
  /\ HttpdTypeOK
  /\ json \in {"null", "string", "object"}
  /\ objs \subseteq Parts \cup {"request", "response", "log", "body"}
  /\ outcome \in {"none", "ok", "error", "201", "204", "400", "409", "500"}
  /\ sent \in Seq(Responses)
  /\ DOMAIN scratch = 0..(ScratchSize - 1) /\ scratch = [i \in DOMAIN scratch |-> scratch[i]]

\* What the request that is received has put into the buffer.
Received == at = "recv" =>
  /\ handled >= 1 /\ Total < ScratchSize /\ First <= got /\ got <= End
  /\ \A i \in First..(got - 1) : scratch[i] = <<handled, i - First>>
  /\ Text => scratch[0] = Quote /\ scratch[Total - 1] = Quote

Served == at # "idle" => handled >= 1

\* Who owns which objects.
Owned ==
  /\ at = "idle" => objs = {}
  /\ at # "pack" => objs \cap Parts = {}
  /\ at \notin {"send", "status", "exit"} => "response" \notin objs
  /\ "request" \in objs \/ "log" \in objs =>
       msg.route \in {"dataset", "dataset_text", "dataset_get"}
  /\ "body" \in objs => msg.route \in Bodied /\ json # "null"

\* What has been made of the body, and of the request.
Understood ==
  /\ at \in {"convert", "recv"} => msg.route \in Bodied /\ json = "null"
  /\ json # "null" => got = End
  /\ at \in {"convert", "recv", "call"} => outcome = "none"
  /\ at \in {"pack", "send"} => msg.route \in {"get", "page", "scan", "post"}
  /\ at \in {"pack", "send"} /\ msg.route = "post" =>
       json # "null" /\ outcome \in {"ok", "error"}
  /\ at = "status" => /\ outcome \notin {"none", "error"}
                      /\ msg.route \in Puts \cup {"delete", "dataset_get"}
  /\ msg.route \in Bodied /\ outcome \in {"ok", "201"} => json # "null"

\* The responses so far: none, or the 500 of the conversion.
Answered ==
  /\ at \in {"convert", "recv"} => Len(sent) = 0
  /\ at \in {"call", "pack", "send", "status"} =>
       \/ Len(sent) = 0
       \/ Len(sent) = 1 /\ sent[1] = "500" /\ json = "null" /\ msg.route \in Bodied
  /\ at \in {"exit", "idle"} /\ msg.route \in Bodied \cup {"delete"} /\ Len(sent) > 0
     /\ sent[Len(sent)] \in {"200", "201"} => outcome \in {"ok", "201"}

HttpdIInv == /\ HttpdType /\ Received /\ Served /\ Owned /\ Understood /\ Answered
             /\ NothingForgotten /\ OneResponse

-----------------------------------------------------------------------------
(* The Wi-Fi backbone: the proof.                                          *)

Roles  == Carries /\ BootRole /\ BootFirst /\ OneConnects
Inits  == BootAlone /\ InitsOnce
Counts == Counted /\ Registered /\ CountsOwn /\ StateTrue
Stores == HalfStored /\ CredentialsPair

\* A stored ssid and password are never taken for none.
LEMMA NotNone == None \notin Ssids \cup Psks
  BY NetworksAssumption DEF Ssids, Psks, Pairs

\* The build's network and the operator's are such pairs ...
LEMMA PairsAreNets == Pairs \subseteq Nets
<1> SUFFICES ASSUME NEW n \in Pairs
             PROVE  n \in Nets
  OBVIOUS
<1>1. n = [ssid |-> n.ssid, psk |-> n.psk]
  BY NetworksAssumption DEF Pairs
<1>2. n.ssid \in Ssids /\ n.psk \in Psks
  BY DEF Ssids, Psks
<1>3. [ssid |-> n.ssid, psk |-> n.psk] \in Nets
  BY <1>2 DEF Nets
<1> QED
  BY <1>1, <1>3

\* ... and so is what is stored when there is an ssid.
LEMMA StoredIsNet ==
  ASSUME NvsType
  PROVE  /\ Stored.ssid = nvs.ssid
         /\ nvs.ssid # None => Stored \in Nets
  BY NotNone DEF Nets, Psks, NvsType, Stored

\* A task goes on to another place, and the others stay where they are.
LEMMA GoesOn ==
  ASSUME ConnType, NEW t \in Tasks, NEW pc \in Pcs, Goes(t, pc)
  PROVE  /\ ConnType'
         /\ conn'[t].pc = pc
         /\ conn'[t].net = IF pc \in {"ssid", "psk"} THEN conn[t].net ELSE Nothing
         /\ \A u \in Tasks \ {t} : conn'[u] = conn[u]
  BY DEF ConnType, Goes, Nothing

USE DEF WifiIInv, WifiType, NvsType, LinkType, BrType, FlagType,
        Carries, BootRole, BootFirst, OneConnects, BootAlone, InitsOnce, Heard, Leaves,
        Counted, Registered, CountsOwn, StateTrue, HalfStored, CredentialsPair

\* A connection begins.
LEMMA JoinsKeeps ==
  ASSUME WifiIInv, NEW t \in Tasks, NEW n \in Nets, Joins(t, n),
         conn[t].pc \in {"idle", "posted"},
         t # "boot" => conn["boot"].pc # "idle" /\ conn["boot"].pc # "posted",
         t = "boot" => conn[t].pc = "idle",
         lock' \in BOOLEAN, ops' \in 0..MaxWifi
  PROVE  WifiIInv'
<1>1. /\ ConnType' /\ conn'[t] = [pc |-> "join", net |-> n]
      /\ \A u \in Tasks \ {t} : conn'[u] = conn[u]
  BY DEF Joins, ConnType, Pcs
<1>2. ~overlap' => /\ ~overlap /\ link = "off"
                   /\ \A u \in Tasks \ {t} : conn[u].pc \in {"idle", "posted", "end"}
  BY DEF Joins, Busy
<1>3. /\ registered' /\ link' = "trying" /\ tries' = 0 /\ slipped' = slipped /\ torn' = torn
      /\ UNCHANGED <<nvs, wifi_state, retry_nums, br, joined>>
  BY DEF Joins
<1>4. WifiType'
  BY <1>1, <1>2, <1>3, WifiAssumption DEF Joins
<1>5. Carries' /\ BootRole' /\ BootFirst'
  BY <1>1, <1>3 DEF Connecting, Tasks
<1>6. OneConnects'
  BY <1>1, <1>2 DEF Connecting
<1>7. BootAlone' /\ InitsOnce'
  BY <1>1, <1>2, <1>3 DEF Tasks
<1>8. Counted' /\ Registered'
  BY <1>3
<1>9. CountsOwn'
  BY <1>1, <1>2, <1>3
<1>10. StateTrue'
  BY <1>1, <1>2, <1>3
<1>11. HalfStored'
  BY <1>1, <1>2, <1>3
<1>12. CredentialsPair'
  BY <1>1, <1>2, <1>3 DEF Stored
<1> QED
  BY <1>4, <1>5, <1>6, <1>7, <1>8, <1>9, <1>10, <1>11, <1>12

\* A step of somebody else.
LEMMA WifiStutters ==
  ASSUME WifiIInv, UNCHANGED wifiVars
  PROVE  WifiIInv'
<1>1. UNCHANGED <<nvs, wifi_state, retry_nums, registered, link, tries, conn, br,
                  lock, ops, joined, torn, overlap, slipped>>
  BY DEF wifiVars
<1>2. WifiType'
  BY <1>1 DEF ConnType
<1>3. Carries' /\ BootRole' /\ BootFirst' /\ OneConnects' /\ BootAlone' /\ InitsOnce'
  BY <1>1
<1>4. Counted' /\ Registered' /\ CountsOwn' /\ StateTrue'
  BY <1>1
<1>5. HalfStored' /\ CredentialsPair'
  BY <1>1 DEF Stored
<1> QED
  BY <1>2, <1>3, <1>4, <1>5

\* The connection is there.
LEMMA ConnectedKeeps ==
  ASSUME WifiIInv, NEW t \in Tasks, Connected(t)
  PROVE  WifiIInv'
<1>1. /\ ConnType' /\ conn[t].pc = "joined" /\ conn'[t].pc \in {"ssid", "done"}
      /\ conn'[t].pc = "ssid" => conn'[t].net = conn[t].net
      /\ \A u \in Tasks \ {t} : conn'[u] = conn[u]
  BY GoesOn DEF Connected, Pcs
<1>2. /\ joined' = joined \cup {conn[t].net}
      /\ UNCHANGED <<nvs, wifi_state, retry_nums, registered, link, tries, br, lock,
                     ops, torn, overlap, slipped>>
  BY DEF Connected
<1>3. WifiType'
  BY <1>1, <1>2, WifiAssumption
<1>4. Carries' /\ BootRole' /\ BootFirst'
  BY <1>1, <1>2 DEF Connecting, Tasks
<1>5. OneConnects'
  BY <1>1, <1>2 DEF Connecting
<1>6. BootAlone' /\ InitsOnce'
  BY <1>1, <1>2 DEF Connecting, Tasks
<1>7. Counted' /\ Registered'
  BY <1>1, <1>2
<1>8. CountsOwn'
  BY <1>1, <1>2
<1>9. StateTrue'
  BY <1>1, <1>2
<1>10. HalfStored'
  BY <1>1, <1>2 DEF Connecting
<1>11. CredentialsPair'
  BY <1>1, <1>2 DEF Stored, Connecting
<1> QED
  BY <1>3, <1>4, <1>5, <1>6, <1>7, <1>8, <1>9, <1>10, <1>11

\* The ssid is stored.
LEMMA SetSsidKeeps ==
  ASSUME WifiIInv, NEW t \in Tasks, SetSsid(t)
  PROVE  WifiIInv'
<1>1. conn[t].pc = "ssid" /\ conn[t].net \in Nets
      /\ ConnType' /\ conn'[t].pc = "psk" /\ conn'[t].net = conn[t].net
      /\ \A u \in Tasks \ {t} : conn'[u] = conn[u]
  BY GoesOn DEF SetSsid, Pcs
<1>2. /\ nvs'.ssid = conn[t].net.ssid /\ nvs'.psk = nvs.psk /\ NvsType'
      /\ UNCHANGED <<wifi_state, retry_nums, registered, link, tries, br, lock, ops,
                     joined, torn, overlap, slipped>>
  BY DEF SetSsid, Nets
<1>3. WifiType'
  BY <1>1, <1>2, WifiAssumption
<1>4. Carries' /\ BootRole' /\ BootFirst'
  BY <1>1, <1>2 DEF Connecting, Tasks
<1>5. OneConnects'
  BY <1>1, <1>2 DEF Connecting
<1>6. BootAlone' /\ InitsOnce'
  BY <1>1, <1>2 DEF Connecting, Tasks
<1>7. Counted' /\ Registered'
  BY <1>1, <1>2
<1>8. CountsOwn'
  BY <1>1, <1>2
<1>9. StateTrue'
  BY <1>1, <1>2
<1>10. HalfStored'
  BY <1>1, <1>2 DEF Connecting
<1>11. CredentialsPair'
  BY <1>1, <1>2 DEF Stored, Connecting
<1> QED
  BY <1>3, <1>4, <1>5, <1>6, <1>7, <1>8, <1>9, <1>10, <1>11

\* The password is stored.
LEMMA SetPasswordKeeps ==
  ASSUME WifiIInv, NEW t \in Tasks, SetPassword(t)
  PROVE  WifiIInv'
<1>1. conn[t].pc = "psk" /\ conn[t].net \in Nets
      /\ ConnType' /\ conn'[t].pc = "done" /\ conn'[t].net = Nothing
      /\ \A u \in Tasks \ {t} : conn'[u] = conn[u]
  BY GoesOn DEF SetPassword, Pcs
<1>2. /\ nvs'.ssid = nvs.ssid /\ nvs'.psk = conn[t].net.psk /\ NvsType'
      /\ torn' = (torn /\ nvs.ssid # conn[t].net.ssid)
      /\ UNCHANGED <<wifi_state, retry_nums, registered, link, tries, br, lock, ops,
                     joined, overlap, slipped>>
  BY DEF SetPassword, Nets
<1>3. WifiType'
  BY <1>1, <1>2, WifiAssumption
<1>4. Carries' /\ BootRole' /\ BootFirst'
  BY <1>1, <1>2 DEF Connecting, Tasks
<1>5. OneConnects'
  BY <1>1, <1>2 DEF Connecting
<1>6. BootAlone' /\ InitsOnce'
  BY <1>1, <1>2 DEF Connecting, Tasks
<1>7. Counted' /\ Registered'
  BY <1>1, <1>2
<1>8. CountsOwn'
  BY <1>1, <1>2
<1>9. StateTrue'
  BY <1>1, <1>2
<1>10. HalfStored'
  BY <1>1, <1>2 DEF Connecting
<1>11. CredentialsPair'
  <2>1. CASE nvs.ssid = conn[t].net.ssid
    <3>1. conn[t].net.psk # None
      BY <1>1, NotNone DEF Nets
    <3>2. Stored' = conn[t].net
      BY <1>1, <1>2, <2>1, <3>1 DEF Stored, Nets
    <3> QED
      BY <1>1, <1>2, <3>2
  <2>2. CASE nvs.ssid # conn[t].net.ssid
    BY <1>1, <1>2, <2>2
  <2> QED
    BY <2>1, <2>2
<1> QED
  BY <1>3, <1>4, <1>5, <1>6, <1>7, <1>8, <1>9, <1>10, <1>11

\* The driver has associated.
LEMMA LinkUpKeeps ==
  ASSUME WifiIInv, LinkUp
  PROVE  WifiIInv'
<1>1. /\ link = "trying" /\ link' = "associated"
      /\ IF registered THEN wifi_state' = "connected" /\ retry_nums' = 0
                       ELSE UNCHANGED <<wifi_state, retry_nums>>
  BY DEF LinkUp, OnConnect
<1>2. /\ UNCHANGED <<nvs, registered, tries, conn, br, lock, ops, joined, torn,
                     overlap, slipped>>
      /\ ConnType'
  BY DEF LinkUp, ConnType
<1>3. WifiType'
  BY <1>1, <1>2, WifiAssumption
<1>4. Carries' /\ BootRole' /\ BootFirst'
  BY <1>1, <1>2 DEF Connecting, Tasks
<1>5. OneConnects'
  BY <1>1, <1>2 DEF Connecting
<1>6. BootAlone' /\ InitsOnce'
  BY <1>1, <1>2 DEF Connecting, Tasks
<1>7. Counted' /\ Registered'
  BY <1>1, <1>2
<1>8. CountsOwn'
  BY <1>1, <1>2
<1>9. StateTrue'
  BY <1>1, <1>2
<1>10. HalfStored'
  BY <1>1, <1>2 DEF Connecting
<1>11. CredentialsPair'
  BY <1>1, <1>2 DEF Stored, Connecting
<1> QED
  BY <1>3, <1>4, <1>5, <1>6, <1>7, <1>8, <1>9, <1>10, <1>11

\* It has an address.
LEMMA GotIpKeeps ==
  ASSUME WifiIInv, GotIp
  PROVE  WifiIInv'
<1>1. /\ ConnType'
      /\ \A t \in Tasks :
           /\ conn'[t].net = conn[t].net
           /\ conn'[t].pc = IF conn[t].pc = "join" THEN "joined" ELSE conn[t].pc
  BY DEF GotIp, ConnType, Pcs
<1>2. /\ link = "associated" /\ link' = "up" /\ tries' = 0
      /\ UNCHANGED <<nvs, wifi_state, retry_nums, registered, br, lock, ops, joined,
                     torn, overlap, slipped>>
  BY DEF GotIp
<1>3. WifiType'
  BY <1>1, <1>2, WifiAssumption
<1>4. Carries' /\ BootRole' /\ BootFirst'
  BY <1>1, <1>2 DEF Connecting, Tasks
<1>5. OneConnects'
  BY <1>1, <1>2 DEF Connecting
<1>6. BootAlone' /\ InitsOnce'
  BY <1>1, <1>2 DEF Connecting, Tasks
<1>7. Counted' /\ Registered'
  BY <1>1, <1>2
<1>8. CountsOwn'
  BY <1>1, <1>2
<1>9. StateTrue'
  BY <1>1, <1>2
<1>10. HalfStored'
  BY <1>1, <1>2 DEF Connecting
<1>11. CredentialsPair'
  BY <1>1, <1>2 DEF Stored, Connecting
<1> QED
  BY <1>3, <1>4, <1>5, <1>6, <1>7, <1>8, <1>9, <1>10, <1>11

\* An attempt has failed, or the link is lost.
LEMMA LinkLostKeeps ==
  ASSUME WifiIInv, LinkLost
  PROVE  WifiIInv'
<1>1. /\ ConnType'
      /\ \A t \in Tasks :
           \/ conn'[t] = conn[t]
           \/ conn[t].pc = "join" /\ conn'[t].pc = "failed"
      /\ IF tries + 1 > MaxRetry THEN link' = "off" /\ tries' = 0
                                 ELSE link' = "trying" /\ tries' = tries + 1
  BY DEF LinkLost, ConnType, Pcs
<1>2. /\ link # "off"
      /\ slipped' = (slipped \/ link = "associated" \/ \E t \in Tasks : conn[t].pc = "disc")
      /\ IF ~registered THEN UNCHANGED <<wifi_state, retry_nums>>
         ELSE IF retry_nums + 1 > MaxRetry
              THEN wifi_state' = "disconnected" /\ retry_nums' = 0
              ELSE wifi_state' = "reconnecting" /\ retry_nums' = retry_nums + 1
      /\ UNCHANGED <<nvs, registered, br, lock, ops, joined, torn, overlap>>
  BY DEF LinkLost, OnDisconnect
<1>3. WifiType'
  BY <1>1, <1>2, WifiAssumption
<1>4. Carries' /\ BootRole' /\ BootFirst'
  BY <1>1, <1>2 DEF Connecting, Tasks
<1>5. OneConnects'
  BY <1>1, <1>2 DEF Connecting
<1>6. BootAlone' /\ InitsOnce'
  BY <1>1, <1>2 DEF Connecting, Tasks
<1>7. Counted' /\ Registered'
  BY <1>1, <1>2
<1>8. CountsOwn'
  BY <1>1, <1>2
<1>9. StateTrue'
  BY <1>1, <1>2
<1>10. HalfStored'
  BY <1>1, <1>2 DEF Connecting
<1>11. CredentialsPair'
  BY <1>1, <1>2 DEF Stored, Connecting
<1> QED
  BY <1>3, <1>4, <1>5, <1>6, <1>7, <1>8, <1>9, <1>10, <1>11

\* The border router is initialised, or that fails: both are noted.
LEMMA Notes ==
  ASSUME BrType,
         \E n \in {0, 1} : br' = [flag |-> TRUE, backbone |-> TRUE, inits |-> br.inits + n]
  PROVE  BrType' /\ br'.flag /\ br'.backbone /\ br'.inits \in {br.inits, br.inits + 1}
<1>1. PICK n \in {0, 1} : br' = [flag |-> TRUE, backbone |-> TRUE, inits |-> br.inits + n]
  OBVIOUS
<1>2. br.inits \in Nat /\ br.inits + n \in Nat /\ br.inits + n \in {br.inits, br.inits + 1}
  OBVIOUS
<1> QED
  BY <1>1, <1>2

\* The command returns.
LEMMA CliConnectedKeeps ==
  ASSUME WifiIInv, CliConnected
  PROVE  WifiIInv'
<1>1. conn["cli"].pc = "done"
      /\ ConnType' /\ conn'["cli"].pc = "idle" /\ conn'["cli"].net = Nothing
      /\ \A u \in Tasks \ {"cli"} : conn'[u] = conn[u]
  BY GoesOn DEF CliConnected, Pcs, Tasks
<1>2. /\ br' \in [flag : BOOLEAN, backbone : BOOLEAN, inits : Nat]
      /\ IF br.flag THEN UNCHANGED br
         ELSE br'.flag /\ br'.backbone /\ br'.inits \in {br.inits, br.inits + 1}
      /\ UNCHANGED <<nvs, wifi_state, retry_nums, registered, link, tries, lock, ops,
                     joined, torn, overlap, slipped>>
  <2>1. CASE br.flag
    BY <2>1 DEF CliConnected
  <2>2. CASE ~br.flag
    BY <2>2, Notes DEF CliConnected
  <2> QED
    BY <2>1, <2>2
<1>3. WifiType'
  BY <1>1, <1>2, WifiAssumption
<1>4. Carries' /\ BootRole' /\ BootFirst'
  BY <1>1, <1>2 DEF Connecting, Tasks
<1>5. OneConnects'
  BY <1>1, <1>2 DEF Connecting
<1>6. BootAlone' /\ InitsOnce'
  BY <1>1, <1>2 DEF Connecting, Tasks
<1>7. Counted' /\ Registered'
  BY <1>1, <1>2
<1>8. CountsOwn'
  BY <1>1, <1>2
<1>9. StateTrue'
  BY <1>1, <1>2
<1>10. HalfStored'
  BY <1>1, <1>2 DEF Connecting
<1>11. CredentialsPair'
  BY <1>1, <1>2 DEF Stored, Connecting
<1> QED
  BY <1>3, <1>4, <1>5, <1>6, <1>7, <1>8, <1>9, <1>10, <1>11

\* The command reports a failure.
LEMMA CliFailsKeeps ==
  ASSUME WifiIInv, CliFails
  PROVE  WifiIInv'
<1>1. conn["cli"].pc = "failed"
      /\ ConnType' /\ conn'["cli"].pc = "idle" /\ conn'["cli"].net = Nothing
      /\ \A u \in Tasks \ {"cli"} : conn'[u] = conn[u]
  BY GoesOn DEF CliFails, Pcs, Tasks
<1>2. UNCHANGED <<nvs, wifi_state, retry_nums, registered, link, tries, br, lock, ops,
                  joined, torn, overlap, slipped>>
  BY DEF CliFails
<1>3. WifiType'
  BY <1>1, <1>2, WifiAssumption
<1>4. Carries' /\ BootRole' /\ BootFirst'
  BY <1>1, <1>2 DEF Connecting, Tasks
<1>5. OneConnects'
  BY <1>1, <1>2 DEF Connecting
<1>6. BootAlone' /\ InitsOnce'
  BY <1>1, <1>2 DEF Connecting, Tasks
<1>7. Counted' /\ Registered'
  BY <1>1, <1>2
<1>8. CountsOwn'
  BY <1>1, <1>2
<1>9. StateTrue'
  BY <1>1, <1>2
<1>10. HalfStored'
  BY <1>1, <1>2 DEF Connecting
<1>11. CredentialsPair'
  BY <1>1, <1>2 DEF Stored, Connecting
<1> QED
  BY <1>3, <1>4, <1>5, <1>6, <1>7, <1>8, <1>9, <1>10, <1>11

\* A task begins to disconnect.
LEMMA DisconnectKeeps ==
  ASSUME WifiIInv, NEW t \in {"cli", "page"}, Disconnect(t)
  PROVE  WifiIInv'
<1>1. /\ t \in Tasks /\ conn[t].pc = "idle"
      /\ ConnType' /\ conn'[t].pc = "disc" /\ conn'[t].net = Nothing
      /\ \A u \in Tasks \ {t} : conn'[u] = conn[u]
  BY GoesOn DEF Disconnect, Idle, Pcs, Tasks
<1>2. /\ wifi_state = "connected" /\ lock' \in BOOLEAN /\ ops' \in 0..MaxWifi
      /\ conn["boot"].pc # "idle" /\ t # "boot"
      /\ UNCHANGED <<nvs, wifi_state, retry_nums, registered, link, tries, br, joined,
                     torn, overlap, slipped>>
  BY WifiAssumption DEF Disconnect, Operates
<1>3. WifiType'
  BY <1>1, <1>2, WifiAssumption
<1>4. Carries' /\ BootRole' /\ BootFirst'
  BY <1>1, <1>2 DEF Connecting, Tasks
<1>5. OneConnects'
  BY <1>1, <1>2 DEF Connecting
<1>6. BootAlone' /\ InitsOnce'
  BY <1>1, <1>2 DEF Connecting, Tasks
<1>7. Counted' /\ Registered'
  BY <1>1, <1>2
<1>8. CountsOwn'
  BY <1>1, <1>2
<1>9. StateTrue'
  BY <1>1, <1>2
<1>10. HalfStored'
  BY <1>1, <1>2 DEF Connecting
<1>11. CredentialsPair'
  BY <1>1, <1>2 DEF Stored, Connecting
<1> QED
  BY <1>3, <1>4, <1>5, <1>6, <1>7, <1>8, <1>9, <1>10, <1>11

\* The handlers are unregistered.
LEMMA UnregisterKeeps ==
  ASSUME WifiIInv, NEW t \in Tasks, Unregister(t)
  PROVE  WifiIInv'
<1>1. /\ conn[t].pc = "disc"
      /\ ConnType' /\ conn'[t].pc = "unregistered" /\ conn'[t].net = Nothing
      /\ \A u \in Tasks \ {t} : conn'[u] = conn[u]
  BY GoesOn DEF Unregister, Pcs
<1>2. /\ ~registered' /\ registered' \in BOOLEAN /\ wifi_state' = "disconnected"
      /\ UNCHANGED <<nvs, retry_nums, link, tries, br, lock, ops, joined, torn,
                     overlap, slipped>>
  BY DEF Unregister
<1>3. WifiType'
  BY <1>1, <1>2, WifiAssumption
<1>4. Carries' /\ BootRole' /\ BootFirst'
  BY <1>1, <1>2 DEF Connecting, Tasks
<1>5. OneConnects'
  BY <1>1, <1>2 DEF Connecting
<1>6. BootAlone' /\ InitsOnce'
  BY <1>1, <1>2 DEF Connecting, Tasks
<1>7. Counted' /\ Registered'
  BY <1>1, <1>2
<1>8. CountsOwn'
  BY <1>1, <1>2
<1>9. StateTrue'
  BY <1>1, <1>2
<1>10. HalfStored'
  BY <1>1, <1>2 DEF Connecting
<1>11. CredentialsPair'
  BY <1>1, <1>2 DEF Stored, Connecting
<1> QED
  BY <1>3, <1>4, <1>5, <1>6, <1>7, <1>8, <1>9, <1>10, <1>11

\* The connection has ended.
LEMMA DisconnectedKeeps ==
  ASSUME WifiIInv, NEW t \in Tasks, Disconnected(t)
  PROVE  WifiIInv'
<1>1. /\ conn[t].pc = "unregistered"
      /\ ConnType' /\ conn'[t].pc = "idle" /\ conn'[t].net = Nothing
      /\ \A u \in Tasks \ {t} : conn'[u] = conn[u]
  BY GoesOn DEF Disconnected, Pcs
<1>2. /\ link' = "off" /\ tries' = 0 /\ lock' \in BOOLEAN
      /\ overlap' = (overlap \/ \E u \in Tasks \ {t} : Busy(u))
      /\ ~overlap' => \A u \in Tasks \ {t} : conn[u].pc \in {"idle", "posted", "end"}
      /\ UNCHANGED <<nvs, wifi_state, retry_nums, registered, br, ops, joined, torn, slipped>>
  BY DEF Disconnected, Busy
<1>3. WifiType'
  BY <1>1, <1>2, WifiAssumption
<1>4. Carries' /\ BootRole' /\ BootFirst'
  BY <1>1, <1>2 DEF Connecting, Tasks
<1>5. OneConnects'
  BY <1>1, <1>2 DEF Connecting
<1>6. BootAlone' /\ InitsOnce'
  BY <1>1, <1>2 DEF Connecting, Tasks
<1>7. Counted' /\ Registered'
  BY <1>1, <1>2
<1>8. CountsOwn'
  BY <1>1, <1>2
<1>9. StateTrue'
  BY <1>1, <1>2
<1>10. HalfStored'
  BY <1>1, <1>2 DEF Connecting
<1>11. CredentialsPair'
  BY <1>1, <1>2 DEF Stored, Connecting
<1> QED
  BY <1>3, <1>4, <1>5, <1>6, <1>7, <1>8, <1>9, <1>10, <1>11

\* The stored network is erased.
LEMMA ConfigClearKeeps ==
  ASSUME WifiIInv, ConfigClear
  PROVE  WifiIInv'
<1>1. /\ nvs' = Nothing /\ NvsType' /\ ConnType'
  BY DEF ConfigClear, Nothing, ConnType
<1>2. /\ torn' = (torn \/ \E t \in Tasks : conn[t].pc = "psk") /\ ops' \in 0..MaxWifi
      /\ UNCHANGED <<wifi_state, retry_nums, registered, link, tries, conn, br, lock,
                     joined, overlap, slipped>>
  BY WifiAssumption DEF ConfigClear, Operates
<1>3. WifiType'
  BY <1>1, <1>2, WifiAssumption
<1>4. Carries' /\ BootRole' /\ BootFirst'
  BY <1>1, <1>2 DEF Connecting, Tasks
<1>5. OneConnects'
  BY <1>1, <1>2 DEF Connecting
<1>6. BootAlone' /\ InitsOnce'
  BY <1>1, <1>2 DEF Connecting, Tasks
<1>7. Counted' /\ Registered'
  BY <1>1, <1>2
<1>8. CountsOwn'
  BY <1>1, <1>2
<1>9. StateTrue'
  BY <1>1, <1>2
<1>10. HalfStored'
  BY <1>1, <1>2 DEF Connecting
<1>11. CredentialsPair'
  BY <1>1, <1>2 DEF Stored, Connecting
<1> QED
  BY <1>3, <1>4, <1>5, <1>6, <1>7, <1>8, <1>9, <1>10, <1>11

\* The page posts a connection.
LEMMA PageConnectKeeps ==
  ASSUME WifiIInv, PageConnect
  PROVE  WifiIInv'
<1>1. conn["page"].pc = "idle" /\ conn["boot"].pc # "idle"
      /\ ConnType' /\ conn'["page"].pc = "posted" /\ conn'["page"].net = Stored
      /\ \A u \in Tasks \ {"page"} : conn'[u] = conn[u]
      /\ Stored \in Nets
  BY StoredIsNet DEF PageConnect, Idle, Operates, ConnType, Pcs, Tasks
<1>2. /\ ops' \in 0..MaxWifi
      /\ UNCHANGED <<nvs, wifi_state, retry_nums, registered, link, tries, br, lock,
                     joined, torn, overlap, slipped>>
  BY WifiAssumption DEF PageConnect, Operates
<1>3. WifiType'
  BY <1>1, <1>2, WifiAssumption
<1>4. Carries' /\ BootRole' /\ BootFirst'
  BY <1>1, <1>2 DEF Connecting, Tasks
<1>5. OneConnects'
  BY <1>1, <1>2 DEF Connecting
<1>6. BootAlone' /\ InitsOnce'
  BY <1>1, <1>2 DEF Connecting, Tasks
<1>7. Counted' /\ Registered'
  BY <1>1, <1>2
<1>8. CountsOwn'
  BY <1>1, <1>2
<1>9. StateTrue'
  BY <1>1, <1>2
<1>10. HalfStored'
  BY <1>1, <1>2 DEF Connecting
<1>11. CredentialsPair'
  BY <1>1, <1>2 DEF Stored, Connecting
<1> QED
  BY <1>3, <1>4, <1>5, <1>6, <1>7, <1>8, <1>9, <1>10, <1>11

\* The page's connection is there, or has failed.
LEMMA PageConnectedKeeps ==
  ASSUME WifiIInv, PageConnected
  PROVE  WifiIInv'
<1>1. conn["page"].pc \in {"done", "failed"}
      /\ ConnType' /\ conn'["page"].pc = "idle" /\ conn'["page"].net = Nothing
      /\ \A u \in Tasks \ {"page"} : conn'[u] = conn[u]
  BY GoesOn DEF PageConnected, Pcs, Tasks
<1>2. /\ br' \in [flag : BOOLEAN, backbone : BOOLEAN, inits : Nat]
      /\ \/ UNCHANGED br
         \/ ~br.backbone /\ br'.flag /\ br'.backbone /\ br'.inits \in {br.inits, br.inits + 1}
      /\ lock' = FALSE
      /\ UNCHANGED <<nvs, wifi_state, retry_nums, registered, link, tries, ops,
                     joined, torn, overlap, slipped>>
  <2>1. CASE conn["page"].pc = "failed" \/ br.backbone
    BY <2>1 DEF PageConnected
  <2>2. CASE ~(conn["page"].pc = "failed" \/ br.backbone)
    BY <2>2, Notes DEF PageConnected
  <2> QED
    BY <2>1, <2>2
<1>3. WifiType'
  BY <1>1, <1>2, WifiAssumption
<1>4. Carries' /\ BootRole' /\ BootFirst'
  BY <1>1, <1>2 DEF Connecting, Tasks
<1>5. OneConnects'
  BY <1>1, <1>2 DEF Connecting
<1>6. BootAlone' /\ InitsOnce'
  BY <1>1, <1>2 DEF Connecting, Tasks
<1>7. Counted' /\ Registered'
  BY <1>1, <1>2
<1>8. CountsOwn'
  BY <1>1, <1>2
<1>9. StateTrue'
  BY <1>1, <1>2
<1>10. HalfStored'
  BY <1>1, <1>2 DEF Connecting
<1>11. CredentialsPair'
  BY <1>1, <1>2 DEF Stored, Connecting
<1> QED
  BY <1>3, <1>4, <1>5, <1>6, <1>7, <1>8, <1>9, <1>10, <1>11

\* ot_br_init goes on once it is connected.
LEMMA BootConnectedKeeps ==
  ASSUME WifiIInv, BootConnected
  PROVE  WifiIInv'
<1>1. conn["boot"].pc = "done"
      /\ ConnType' /\ conn'["boot"].pc = "end" /\ conn'["boot"].net = Nothing
      /\ \A u \in Tasks \ {"boot"} : conn'[u] = conn[u]
  BY GoesOn DEF BootConnected, Pcs, Tasks
<1>2. /\ br' = [flag |-> TRUE, backbone |-> TRUE, inits |-> br.inits + 1]
      /\ UNCHANGED <<nvs, wifi_state, retry_nums, registered, link, tries, lock, ops,
                     joined, torn, overlap, slipped>>
  BY DEF BootConnected, BootInits
<1>3. WifiType'
  BY <1>1, <1>2, WifiAssumption
<1>4. Carries' /\ BootRole' /\ BootFirst'
  BY <1>1, <1>2 DEF Connecting, Tasks
<1>5. OneConnects'
  BY <1>1, <1>2 DEF Connecting
<1>6. BootAlone' /\ InitsOnce'
  BY <1>1, <1>2 DEF Connecting, Tasks
<1>7. Counted' /\ Registered'
  BY <1>1, <1>2
<1>8. CountsOwn'
  BY <1>1, <1>2
<1>9. StateTrue'
  BY <1>1, <1>2
<1>10. HalfStored'
  BY <1>1, <1>2 DEF Connecting
<1>11. CredentialsPair'
  BY <1>1, <1>2 DEF Stored, Connecting
<1> QED
  BY <1>3, <1>4, <1>5, <1>6, <1>7, <1>8, <1>9, <1>10, <1>11

\* ot_br_init gives up.
LEMMA BootFailsKeeps ==
  ASSUME WifiIInv, BootFails
  PROVE  WifiIInv'
<1>1. conn["boot"].pc = "failed"
      /\ ConnType' /\ conn'["boot"].pc = "end" /\ conn'["boot"].net = Nothing
      /\ \A u \in Tasks \ {"boot"} : conn'[u] = conn[u]
  BY GoesOn DEF BootFails, Pcs, Tasks
<1>2. UNCHANGED <<nvs, wifi_state, retry_nums, registered, link, tries, br, lock, ops,
                  joined, torn, overlap, slipped>>
  BY DEF BootFails
<1>3. WifiType'
  BY <1>1, <1>2, WifiAssumption
<1>4. Carries' /\ BootRole' /\ BootFirst'
  BY <1>1, <1>2 DEF Connecting, Tasks
<1>5. OneConnects'
  BY <1>1, <1>2 DEF Connecting
<1>6. BootAlone' /\ InitsOnce'
  BY <1>1, <1>2 DEF Connecting, Tasks
<1>7. Counted' /\ Registered'
  BY <1>1, <1>2
<1>8. CountsOwn'
  BY <1>1, <1>2
<1>9. StateTrue'
  BY <1>1, <1>2
<1>10. HalfStored'
  BY <1>1, <1>2 DEF Connecting
<1>11. CredentialsPair'
  BY <1>1, <1>2 DEF Stored, Connecting
<1> QED
  BY <1>3, <1>4, <1>5, <1>6, <1>7, <1>8, <1>9, <1>10, <1>11

\* A restart.
LEMMA WifiResetKeeps ==
  ASSUME WifiIInv, WifiReset
  PROVE  WifiIInv'
<1>1. /\ ConnType' /\ \A t \in Tasks : conn'[t] = [pc |-> "idle", net |-> Nothing]
      /\ br' = [flag |-> FALSE, backbone |-> FALSE, inits |-> 0]
  BY DEF WifiReset, ConnType, Pcs, BrInit
<1>2. /\ wifi_state' = "disconnected" /\ retry_nums' = 0 /\ registered' = FALSE
      /\ link' = "off" /\ tries' = 0 /\ lock' = FALSE /\ overlap' = FALSE /\ slipped' = FALSE
      /\ torn' = (torn \/ overlap \/ \E t \in Tasks : conn[t].pc = "psk")
      /\ UNCHANGED <<nvs, ops, joined>>
  BY DEF WifiReset
<1>3. WifiType'
  <2>1. BrType'
    BY <1>1
  <2>2. NvsType' /\ FlagType'
    BY <1>2
  <2>3. LinkType'
    <3>1. 0 \in 0..MaxRetry
      BY WifiAssumption
    <3> QED
      BY <1>2, <3>1
  <2> QED
    BY <1>1, <2>1, <2>2, <2>3
<1>4. Carries' /\ BootRole' /\ BootFirst'
  BY <1>1, <1>2 DEF Connecting, Tasks
<1>5. OneConnects'
  BY <1>1, <1>2 DEF Connecting
<1>6. BootAlone' /\ InitsOnce'
  BY <1>1, <1>2 DEF Connecting, Tasks
<1>7. Counted' /\ Registered'
  BY <1>1, <1>2
<1>8. CountsOwn'
  BY <1>1, <1>2
<1>9. StateTrue'
  BY <1>1, <1>2
<1>10. HalfStored'
  BY <1>1, <1>2 DEF Connecting
<1>11. CredentialsPair'
  BY <1>1, <1>2 DEF Stored, Connecting
<1> QED
  BY <1>3, <1>4, <1>5, <1>6, <1>7, <1>8, <1>9, <1>10, <1>11

\* A device that is new, or has the network of its build stored.
LEMMA WifiStart == WifiInit => WifiIInv
<1> SUFFICES ASSUME WifiInit
             PROVE  WifiIInv
  OBVIOUS
<1>1. /\ wifi_state = "disconnected" /\ retry_nums = 0 /\ registered = FALSE
      /\ link = "off" /\ tries = 0 /\ lock = FALSE /\ ops = 0 /\ joined = {Kconfig}
      /\ torn = FALSE /\ overlap = FALSE /\ slipped = FALSE /\ nvs \in {Nothing, Kconfig}
  BY DEF WifiInit
<1>2. /\ ConnType /\ \A t \in Tasks : conn[t] = [pc |-> "idle", net |-> Nothing]
      /\ br = [flag |-> FALSE, backbone |-> FALSE, inits |-> 0]
  BY DEF WifiInit, ConnType, Pcs, BrInit
<1>3. /\ Kconfig \in Nets /\ Kconfig.psk # None
      /\ Kconfig = [ssid |-> Kconfig.ssid, psk |-> Kconfig.psk]
  BY PairsAreNets, NetworksAssumption DEF Pairs
<1>4. NvsType
  BY <1>1, <1>3 DEF Nets, Nothing
<1>5. 0 \in 0..MaxRetry /\ 0 \in 0..MaxWifi
  BY WifiAssumption
<1>6. LinkType /\ FlagType
  BY <1>1, <1>3, <1>5
<1>7. BrType
  BY <1>2
<1>8. Carries /\ BootRole /\ BootFirst /\ OneConnects /\ BootAlone /\ InitsOnce
  BY <1>2 DEF Connecting, Tasks
<1>9. Counted /\ Registered /\ CountsOwn /\ StateTrue /\ HalfStored
  BY <1>1, <1>2
<1>10. CredentialsPair
  BY <1>1, <1>3 DEF Stored
<1> QED
  BY <1>2, <1>4, <1>6, <1>7, <1>8, <1>9, <1>10

\* The three ways into esp_ot_wifi_connect.
LEMMA BeginsKeeps ==
  ASSUME WifiIInv, BootConnect \/ PageJoins \/ \E n \in Networks : CliConnect(n)
  PROVE  WifiIInv'
<1>1. Kconfig \in Nets /\ Networks \subseteq Nets /\ {"boot", "cli", "page"} = Tasks
  BY PairsAreNets DEF Pairs, Tasks
<1>2. CASE BootConnect
  <2>1. PICK n \in Nets : Joins("boot", n)
    BY <1>1, <1>2, StoredIsNet DEF BootConnect
  <2>2. conn["boot"].pc = "idle" /\ lock' \in BOOLEAN /\ ops' \in 0..MaxWifi
    BY <1>2 DEF BootConnect, Idle
  <2> QED
    BY <1>1, <2>1, <2>2, JoinsKeeps
<1>3. CASE PageJoins
  <2>1. /\ conn["page"].pc = "posted" /\ Joins("page", conn["page"].net)
        /\ lock' \in BOOLEAN /\ ops' \in 0..MaxWifi
    BY <1>3 DEF PageJoins
  <2>2. conn["page"].net \in Nets /\ conn["boot"].pc \notin {"idle", "posted"}
    BY <1>1, <2>1 DEF Connecting
  <2> QED
    BY <1>1, <2>1, <2>2, JoinsKeeps
<1>4. CASE \E n \in Networks : CliConnect(n)
  <2>1. PICK n \in Networks : CliConnect(n)
    BY <1>4
  <2>2. /\ conn["cli"].pc = "idle" /\ Joins("cli", n) /\ conn["boot"].pc # "idle"
        /\ lock' \in BOOLEAN /\ ops' \in 0..MaxWifi
    BY <2>1, WifiAssumption DEF CliConnect, Idle, Operates
  <2>3. conn["boot"].pc # "posted"
    BY DEF Connecting
  <2> QED
    BY <1>1, <2>2, <2>3, JoinsKeeps
<1> QED
  BY <1>2, <1>3, <1>4

\* Every step of the services keeps the invariant of the backbone.
LEMMA WifiStep ==
  ASSUME WifiIInv, [RunNext]_runVars
  PROVE  WifiIInv'
<1> HIDE DEF WifiIInv
<1>1. \/ WifiNext \/ BootConnected \/ WifiReset \/ UNCHANGED wifiVars
  BY DEF RunNext, runVars, Services, OfServer, Next, Wifi, BootStarts, Stack, Server,
         Restart, vars
<1>2. CASE WifiNext
  <2>1. CASE Link
    BY <2>1, LinkUpKeeps, GotIpKeeps, LinkLostKeeps DEF Link
  <2>2. CASE WifiTask
    BY <2>2, ConnectedKeeps, SetSsidKeeps, SetPasswordKeeps, UnregisterKeeps,
       DisconnectedKeeps DEF WifiTask
  <2>3. CASE BootConnect \/ PageJoins \/ \E n \in Networks : CliConnect(n)
    BY <2>3, BeginsKeeps
  <2>4. CASE BootFails \/ CliConnected \/ CliFails \/ ConfigClear
    BY <2>4, BootFailsKeeps, CliConnectedKeeps, CliFailsKeeps, ConfigClearKeeps
  <2>5. CASE PageConnect \/ PageConnected \/ \E t \in {"cli", "page"} : Disconnect(t)
    BY <2>5, PageConnectKeeps, PageConnectedKeeps, DisconnectKeeps
  <2> QED
    BY <1>2, <2>1, <2>2, <2>3, <2>4, <2>5 DEF WifiNext
<1> QED
  BY <1>1, <1>2, BootConnectedKeeps, WifiResetKeeps, WifiStutters

HIDE DEF WifiIInv, WifiType, NvsType, LinkType, BrType, FlagType,
         Carries, BootRole, BootFirst, OneConnects, BootAlone, InitsOnce, Heard, Leaves,
         Counted, Registered, CountsOwn, StateTrue, HalfStored, CredentialsPair

\* The invariant of the Wi-Fi backbone: who connects, what the handlers have
\* counted, and which network is stored.
THEOREM WifiInvariant == RunSpec => []WifiIInv
<1>1. RunInit => WifiIInv
  BY WifiStart DEF RunInit, Init
<1>2. WifiIInv /\ [RunNext]_runVars => WifiIInv'
  BY WifiStep
<1> QED
  BY <1>1, <1>2, PTL DEF RunSpec

\* Types, and one initialisation of the border router after each start,
\* whichever task connects first (CliConnected, PageConnected, BootInits).
THEOREM InitialisedOnce == RunSpec => []WifiInv
<1>1. WifiIInv => WifiInv
  <2> SUFFICES ASSUME WifiIInv
               PROVE  WifiInv
    OBVIOUS
  <2>1. nvs \in [ssid : {n.ssid : n \in Pairs} \cup {None}, psk : {n.psk : n \in Pairs} \cup {None, ""}]
    BY DEF WifiIInv, WifiType, NvsType, Ssids, Psks
  <2>2. /\ DOMAIN conn = Tasks /\ \A t \in Tasks : conn[t].pc \in Pcs
    BY DEF WifiIInv, WifiType, ConnType
  <2>3. WifiTypeOK
    BY <2>1, <2>2 DEF WifiTypeOK, WifiIInv, WifiType, LinkType, BrType, FlagType, Pcs
  <2>4. BorderRouterOnce
    BY DEF BorderRouterOnce, WifiIInv, InitsOnce, WifiType, BrType
  <2> QED
    BY <2>3, <2>4 DEF WifiInv
<1> QED
  BY <1>1, WifiInvariant, PTL

\* s_wifi_state says what the driver does, also while it tries again and when
\* it has given up (handler_on_wifi_connect, handler_on_wifi_disconnect).
THEOREM StateIsTrue == RunSpec => []StateTrue
<1>1. WifiIInv => StateTrue
  BY DEF WifiIInv
<1> QED
  BY <1>1, WifiInvariant, PTL

\* The stored ssid and password belong to one network that was connected to,
\* but for a restart or a clear between the two writes.
THEOREM PairStored == RunSpec => []CredentialsPair
<1>1. WifiIInv => CredentialsPair
  BY DEF WifiIInv
<1> QED
  BY <1>1, WifiInvariant, PTL

-----------------------------------------------------------------------------
(* The web API: the proof.                                                 *)

Stacks == [ip6 : BOOLEAN, thread : BOOLEAN, active : Datasets \cup {AutoDataset, NoDataset}]

\* What a call of the stack leaves.
LEMMA CallsOfStack ==
  ASSUME NEW s \in Stacks, NEW d \in Datasets \cup {AutoDataset, NoDataset}
  PROVE  {Up(s), Down(s), Start(s), Stop(s), Sets(s, d)} \subseteq Stacks
  BY DEF Stacks, Up, Down, Start, Stop, Sets

\* So does a request, whichever of its calls fails.
LEMMA DoesKeeps ==
  ASSUME net \in Stacks, NEW states \in SUBSET Stacks, Does(states)
  PROVE  net' \in Stacks /\ wanted' = net'.active
  BY DEF Does

USE DEF WebIInv, WebInv, WebTypeOK, ListOwned, CollectsOnly, ChosenKept, Proved

\* The counters can start at zero.
LEMMA ZeroFits == 0 \in 0..MaxRequests /\ 0 \in 0..MaxFound /\ 0 \in 0..MaxResults
  BY WebAssumption

\* The requests that are one step.
LEMMA RequestKeeps ==
  ASSUME WebIInv, NEW states \in SUBSET Stacks, Requests(states)
  PROVE  WebIInv'
<1>1. net' \in Stacks /\ wanted' = net'.active
  BY DoesKeeps DEF Requests, Stacks
<1>2. /\ served' \in 0..MaxRequests
      /\ UNCHANGED <<req, discover, found, done, joiner, join_state, asked, mutex,
                     handler, proved>>
  BY WebAssumption DEF Requests, Begins
<1> QED
  BY <1>1, <1>2 DEF Stacks

\* So these requests keep the invariant, wherever they fail.
LEMMA OneStepKeeps ==
  ASSUME WebIInv,
         \/ state_put \/ delete_information
         \/ \E d \in Datasets : set_dataset(d) \/ form_network(d) \/ join_network_key(d)
  PROVE  WebIInv'
<1> HIDE DEF WebIInv
<1>1. net \in Stacks
  BY DEF WebIInv, WebInv, WebTypeOK, Stacks
<1>2. CASE state_put
  <2>1. {Start(net), Up(net), Start(Up(net)), Stop(net), Down(net)} \subseteq Stacks
    BY <1>1, CallsOfStack
  <2> QED
    BY <1>2, <2>1, RequestKeeps DEF state_put
<1>3. CASE delete_information
  <2>1. {Stop(net), Down(net), Sets(Down(net), NoDataset)} \subseteq Stacks
    BY <1>1, CallsOfStack
  <2> QED
    BY <1>3, <2>1, RequestKeeps DEF delete_information
<1>4. ASSUME NEW d \in Datasets, set_dataset(d) \/ form_network(d) \/ join_network_key(d)
      PROVE  WebIInv'
  <2> DEFINE set == Sets(Down(net), d)
  <2>1. {Sets(net, d), Stop(net), Down(net), set, Up(set), Start(Up(set))} \subseteq Stacks
    BY <1>1, CallsOfStack
  <2>2. set_dataset(d) => Requests({Sets(net, d)})
    BY DEF set_dataset
  <2>3. form_network(d) => Requests({Stop(net), Down(net), set, Up(set), Start(Up(set))})
    BY DEF form_network
  <2>4. join_network_key(d) => Requests({Down(net), set, Up(set), Start(Up(set))})
    BY DEF join_network_key
  <2> HIDE DEF set
  <2> QED
    BY <1>4, <2>1, <2>2, <2>3, <2>4, RequestKeeps
<1> QED
  BY <1>2, <1>3, <1>4

\* A scan.
LEMMA ScanKeeps ==
  ASSUME WebIInv, Scan \/ ScanFinds \/ ScanEnds \/ ScanReplies
  PROVE  WebIInv'
<1>1. CASE Scan
  <2>1. req = "idle" /\ found' = 0 /\ served' \in 0..MaxRequests
    BY <1>1, WebAssumption DEF Scan, Begins
  <2>2. done' = "taken" /\ ~discover
    BY <1>1, <2>1 DEF Scan
  <2>3. /\ \/ discover' = TRUE /\ req' = "scan"
           \/ UNCHANGED <<discover, req>>
        /\ UNCHANGED <<net, joiner, join_state, asked, mutex, handler, wanted, proved>>
    BY <1>1 DEF Scan
  <2>4. mutex = "null" /\ handler = "out"
    BY <2>1
  <2>5. WebTypeOK'
    BY <2>1, <2>2, <2>3, ZeroFits
  <2>6. ListOwned' /\ CollectsOnly' /\ Proved' /\ ChosenKept'
    BY <2>1, <2>2, <2>3, <2>4
  <2> QED
    BY <2>1, <2>2, <2>3, <2>4, <2>5, <2>6
<1>2. CASE ScanFinds
  BY <1>2, WebAssumption DEF ScanFinds
<1>3. CASE ScanEnds
  BY <1>3 DEF ScanEnds
<1>4. CASE ScanReplies
  BY <1>4 DEF ScanReplies
<1> QED
  BY <1>1, <1>2, <1>3, <1>4

\* A diagnostics request.
LEMMA DiagnosticsKeeps ==
  ASSUME WebIInv, Diagnostics \/ Result \/ ResultTakes \/ ResultGives \/ DiagnosticsReplies
  PROVE  WebIInv'
<1>1. CASE Diagnostics
  BY <1>1, WebAssumption DEF Diagnostics, Begins
<1>2. CASE Result
  BY <1>2, WebAssumption DEF Result
<1>3. CASE ResultTakes
  BY <1>3 DEF ResultTakes
<1>4. CASE ResultGives
  BY <1>4 DEF ResultGives
<1>5. CASE DiagnosticsReplies
  BY <1>5 DEF DiagnosticsReplies
<1> QED
  BY <1>1, <1>2, <1>3, <1>4, <1>5

\* A join with a PSKd.
LEMMA PskdKeeps ==
  ASSUME WebIInv, PskdBegins \/ PskdStarts \/ JoinerEnds \/ PskdReplies
  PROVE  WebIInv'
<1>0. net \in Stacks
  BY DEF Stacks
<1>1. CASE PskdBegins
  <2>1. /\ Down(net) \in Stacks /\ Up(Down(net)) \in Stacks
        /\ Up(Down(net)).active = net.active
    BY <1>0, CallsOfStack DEF Up, Down
  <2>2. /\ net' \in Stacks /\ wanted' = net'.active
        /\ \/ UNCHANGED <<req, join_state>>
           \/ req' = "pskd" /\ join_state' = "failed"
    BY <1>0, <1>1, <2>1, DoesKeeps DEF PskdBegins
  <2>3. /\ served' \in 0..MaxRequests /\ req = "idle"
        /\ UNCHANGED <<discover, found, done, joiner, asked, mutex, handler, proved>>
    BY <1>1, WebAssumption DEF PskdBegins, Begins
  <2> QED
    BY <2>2, <2>3 DEF Stacks
<1>2. CASE PskdStarts
  BY <1>2 DEF PskdStarts
<1>3. CASE JoinerEnds
  <2>1. /\ net' \in Stacks /\ wanted' = net'.active
        /\ \/ join_state' = "none" /\ proved' = TRUE
           \/ join_state' = "failed" /\ UNCHANGED proved
    BY <1>0, <1>3, CallsOfStack DEF JoinerEnds, Sets
  <2>2. /\ joiner' = FALSE
        /\ UNCHANGED <<req, served, discover, found, done, asked, mutex, handler>>
    BY <1>3 DEF JoinerEnds
  <2> QED
    BY <2>1, <2>2 DEF Stacks
<1>4. CASE PskdReplies
  <2>1. {Start(net)} \subseteq Stacks
    BY <1>0, CallsOfStack
  <2>2. /\ net' \in Stacks /\ wanted' = net'.active
        /\ proved' \in BOOLEAN
    BY <1>0, <1>4, <2>1, DoesKeeps DEF PskdReplies
  <2>3. /\ req' = "idle" /\ req = "joining"
        /\ UNCHANGED <<served, discover, found, done, joiner, join_state, asked, mutex, handler>>
    BY <1>4 DEF PskdReplies
  <2> QED
    BY <2>2, <2>3 DEF Stacks
<1> QED
  BY <1>1, <1>2, <1>3, <1>4

\* The automatic start, a restart, and steps of somebody else.
LEMMA BootStartsKeeps ==
  ASSUME WebIInv, BootStarts
  PROVE  WebIInv'
<1>1. net \in Stacks
  BY DEF Stacks
<1>2. AutoStart \in Stacks
  <2>1. (IF net.active = NoDataset THEN AutoDataset ELSE net.active)
          \in Datasets \cup {AutoDataset, NoDataset}
    BY <1>1 DEF Stacks
  <2> QED
    BY <1>1, <2>1, CallsOfStack DEF AutoStart
<1>3. AutoStart.active = IF net.active = NoDataset THEN AutoDataset ELSE net.active
  BY DEF AutoStart, Start, Up, Sets
<1>4. net' \in Stacks /\ wanted' = net'.active
  BY <1>2, <1>3 DEF BootStarts
<1>5. UNCHANGED <<req, served, discover, found, done, joiner, join_state, asked,
                  mutex, handler, proved>>
  BY DEF BootStarts
<1> QED
  BY <1>4, <1>5 DEF Stacks

\* A restart keeps the dataset.
LEMMA RestartKeeps ==
  ASSUME WebIInv, Restart
  PROVE  WebIInv'
<1>1. net' = [ip6 |-> FALSE, thread |-> FALSE, active |-> net.active]
  BY DEF Restart, WebReset
<1>2. /\ net' \in Stacks /\ net'.active = wanted /\ UNCHANGED <<served, wanted>>
  BY <1>1 DEF Restart, Stacks
<1>3. /\ req' = "idle" /\ discover' = FALSE /\ found' = 0 /\ done' = "null"
      /\ joiner' = FALSE /\ join_state' = "none" /\ asked' = 0 /\ mutex' = "null"
      /\ handler' = "out" /\ proved' = FALSE
  BY DEF Restart, WebReset
<1> QED
  BY <1>2, <1>3, ZeroFits DEF Stacks

\* A step of somebody else.
LEMMA WebStutters ==
  ASSUME WebIInv, UNCHANGED webVars
  PROVE  WebIInv'
<1>1. UNCHANGED <<net, req, served, discover, found, done, joiner, join_state, asked,
                  mutex, handler, wanted, proved>>
  BY DEF webVars
<1> QED
  BY <1>1

\* Before the first request.
LEMMA WebStart == WebInit => WebIInv
<1> SUFFICES ASSUME WebInit
             PROVE  WebIInv
  OBVIOUS
<1>1. net \in Stacks /\ wanted = net.active
  BY DEF WebInit, Stacks
<1>2. /\ req = "idle" /\ served = 0 /\ discover = FALSE /\ found = 0 /\ done = "null"
      /\ joiner = FALSE /\ join_state = "none" /\ asked = 0 /\ mutex = "null"
      /\ handler = "out" /\ proved = FALSE
  BY DEF WebInit
<1> QED
  BY <1>1, <1>2, ZeroFits DEF Stacks

\* Every step of the services keeps the invariant of the API.
LEMMA WebStep ==
  ASSUME WebIInv, [RunNext]_runVars
  PROVE  WebIInv'
<1> HIDE DEF WebIInv
<1>1. \/ OtTask \/ Locked \/ Unguarded \/ BootStarts \/ Restart \/ UNCHANGED webVars
  BY DEF RunNext, runVars, Services, OfServer, Next, Wifi, Stack, Server, vars
<1>2. CASE OtTask
  BY <1>2, ScanKeeps, DiagnosticsKeeps, PskdKeeps DEF OtTask
<1>3. CASE Locked
  BY <1>3, OneStepKeeps, ScanKeeps, DiagnosticsKeeps DEF Locked
<1>4. CASE Unguarded
  BY <1>4, ScanKeeps, DiagnosticsKeeps, PskdKeeps DEF Unguarded
<1> QED
  BY <1>1, <1>2, <1>3, <1>4, BootStartsKeeps, RestartKeeps, WebStutters

HIDE DEF WebIInv, WebInv, WebTypeOK, ListOwned, CollectsOnly, ChosenKept, Proved

\* The invariant of the web API: who waits for whom, which dataset is active,
\* and which success is still to be reported.
THEOREM WebInvariant == RunSpec => []WebIInv
<1>1. RunInit => WebIInv
  BY WebStart DEF RunInit, Init
<1>2. WebIInv /\ [RunNext]_runVars => WebIInv'
  BY WebStep
<1> QED
  BY <1>1, <1>2, PTL DEF RunSpec

\* The dataset that the user last chose stays the active one, through the
\* automatic start of ot_br_init and through restarts.
THEOREM ChoiceKept == RunSpec => []ChosenKept
<1>1. WebIInv => ChosenKept
  BY DEF WebIInv
<1> QED
  BY <1>1, WebInvariant, PTL

\* A join with a PSKd that reports success has a success of its own behind it
\* (join_network_handler, s_join_state).
THEOREM JoinsHonest == RunSpec => JoinHonest
<1>1. WebIInv /\ [RunNext]_runVars =>
        [req = "joining" /\ req' = "idle" /\ join_state = "none" => proved]_vars
  BY DEF WebIInv, Proved
<1> QED
  BY <1>1, WebInvariant, PTL DEF RunSpec, JoinHonest

-----------------------------------------------------------------------------
(* The web server: the proof.                                              *)

\* What the buffer holds before the end of the text: nothing that ends it.
LEMMA BufferHolds ==
  ASSUME HttpdIInv, at = "recv", got = End
  PROVE  /\ Total \in 0..(ScratchSize - 1) /\ First \in {0, 1}
         /\ \A i \in 0..(Total - 1) : scratch[i] =
              IF i \in First..(End - 1) THEN <<handled, i - First>> ELSE Quote
         /\ \A i \in 0..(Total - 1) : scratch[i] # Nul
<1>1. /\ msg.len \in Nat /\ First \in {0, 1} /\ End = First + msg.len /\ Total = End + First
      /\ Total < ScratchSize /\ handled \in Nat /\ handled >= 1
  BY ServerAssumption DEF HttpdIInv, HttpdType, HttpdTypeOK, Received, First, End, Total
<1>2. Total \in 0..(ScratchSize - 1)
  BY <1>1, ServerAssumption
<1>3. ASSUME NEW i \in 0..(Total - 1)
      PROVE  scratch[i] = IF i \in First..(End - 1) THEN <<handled, i - First>> ELSE Quote
  <2>1. CASE i \in First..(End - 1)
    BY <2>1 DEF HttpdIInv, Received
  <2>2. CASE i \notin First..(End - 1)
    <3>1. Text /\ First = 1 /\ (i = 0 \/ i = Total - 1)
      BY <1>1, <2>2 DEF First
    <3> QED
      BY <2>2, <3>1 DEF HttpdIInv, Received
  <2> QED
    BY <2>1, <2>2
<1>4. ASSUME NEW i \in 0..(Total - 1)
      PROVE  scratch[i] # Nul
  <2>1. scratch[i] = <<handled, i - First>> \/ scratch[i] = <<0, 1>>
    BY <1>3 DEF Quote
  <2>2. scratch[i][1] # 0 \/ scratch[i][2] # 0
    BY <1>1, <2>1
  <2> QED
    BY <2>2 DEF Nul
<1> QED
  BY <1>1, <1>2, <1>3, <1>4

\* cJSON_Parse sees the bytes before the mark of the end.
LEMMA SeesToMark ==
  ASSUME HttpdIInv, at = "recv", got = End, NEW buf, buf = Terminated(scratch)
  PROVE  Seen(buf) = [i \in 1..Total |-> scratch[i - 1]]
<1>1. /\ Total \in 0..(ScratchSize - 1) /\ \A i \in 0..(Total - 1) : scratch[i] # Nul
  BY BufferHolds
<1>2. /\ DOMAIN buf = 0..(ScratchSize - 1) /\ buf[Total] = Nul
      /\ \A i \in 0..(Total - 1) : buf[i] = scratch[i]
  BY <1>1, ServerAssumption DEF Terminated, HttpdIInv, HttpdType
<1> DEFINE Ends(n) == n \in DOMAIN buf /\ buf[n] = Nul /\ \A i \in 0..(n - 1) : buf[i] # Nul
<1>3. Ends(Total)
  BY <1>1, <1>2
<1>4. ASSUME NEW n, Ends(n)
      PROVE  n = Total
  <2>1. n \in Nat /\ Total \in Nat
    BY <1>1, <1>2, <1>4, ServerAssumption
  <2>2. ~(n < Total)
    BY <1>1, <1>2, <1>4, <2>1
  <2>3. ~(Total < n)
    BY <1>2, <1>4, <2>1
  <2> QED
    BY <2>1, <2>2, <2>3
<1>5. (CHOOSE n \in DOMAIN buf : buf[n] = Nul /\ \A i \in 0..(n - 1) : buf[i] # Nul) = Total
  BY <1>3, <1>4
<1>6. Seen(buf) = [i \in 1..Total |-> buf[i - 1]]
  BY <1>5 DEF Seen
<1>7. \A i \in 1..Total : buf[i - 1] = scratch[i - 1]
  BY <1>1, <1>2
<1> QED
  BY <1>6, <1>7

\* So it parses what was sent.
LEMMA ParsesSent ==
  ASSUME HttpdIInv, at = "recv", got = End, NEW buf, buf = Terminated(scratch)
  PROVE  Seen(buf) = AsSent
<1>1. Seen(buf) = [i \in 1..Total |-> scratch[i - 1]]
  BY SeesToMark
<1>2. /\ msg.len \in Nat /\ End = First + msg.len /\ Total = End + First
  BY DEF HttpdIInv, HttpdType, HttpdTypeOK, End, Total
<1>3. \A i \in 1..Total : scratch[i - 1] =
        IF i - 1 \in First..(End - 1) THEN <<handled, i - 1 - First>> ELSE Quote
  BY BufferHolds, <1>2
<1>4. CASE ~Text
  <2>1. First = 0 /\ End = msg.len /\ Total = msg.len
    BY <1>2, <1>4 DEF First
  <2>2. \A i \in 1..Total : scratch[i - 1] = <<handled, i - 1>>
    <3> TAKE i \in 1..Total
    <3>1. i - 1 \in First..(End - 1) /\ i - 1 - First = i - 1
      BY <1>2, <2>1
    <3> QED
      BY <1>3, <3>1
  <2> QED
    BY <1>1, <1>4, <2>1, <2>2 DEF AsSent, Body
<1>5. CASE Text
  <2>1. First = 1 /\ End = msg.len + 1 /\ Total = msg.len + 2
    BY <1>2, <1>5 DEF First
  <2>2. \A i \in 1..Total : scratch[i - 1] =
          IF i \in 2..(msg.len + 1) THEN <<handled, i - 2>> ELSE Quote
    <3> TAKE i \in 1..Total
    <3>1. /\ i - 1 \in First..(End - 1) <=> i \in 2..(msg.len + 1)
          /\ i - 1 - First = i - 2
      BY <1>2, <2>1
    <3> QED
      BY <1>3, <3>1
  <2>3. /\ <<Quote>> \in Seq(Int \X Int) /\ Body \in Seq(Int \X Int)
        /\ Len(Body) = msg.len /\ \A i \in 1..msg.len : Body[i] = <<handled, i - 1>>
    BY <1>2 DEF Body, Quote, HttpdIInv, HttpdType, HttpdTypeOK
  <2>4. AsSent = [i \in 1..(msg.len + 2) |->
          IF i \in 2..(msg.len + 1) THEN <<handled, i - 2>> ELSE Quote]
    <3> DEFINE S == Int \X Int
               Q == <<Quote>>
    <3> HIDE DEF S
    <3>1. Q \in Seq(S) /\ Len(Q) = 1 /\ Q[1] = Quote
      BY <2>3 DEF S
    <3>2. /\ Q \o Body \in Seq(S) /\ Len(Q \o Body) = msg.len + 1
          /\ \A i \in 1..(msg.len + 1) : (Q \o Body)[i] = IF i <= 1 THEN Q[i] ELSE Body[i - 1]
      BY <1>2, <2>3, <3>1 DEF S
    <3>3. /\ (Q \o Body) \o Q \in Seq(S) /\ Len((Q \o Body) \o Q) = msg.len + 2
          /\ \A i \in 1..(msg.len + 2) : ((Q \o Body) \o Q)[i] =
               IF i <= msg.len + 1 THEN (Q \o Body)[i] ELSE Q[i - (msg.len + 1)]
      BY <1>2, <3>1, <3>2
    <3>4. AsSent = (Q \o Body) \o Q
      BY <1>5 DEF AsSent
    <3>5. ASSUME NEW i \in 1..(msg.len + 2)
          PROVE  ((Q \o Body) \o Q)[i] =
                   IF i \in 2..(msg.len + 1) THEN <<handled, i - 2>> ELSE Quote
      <4>1. CASE i = 1
        BY <1>2, <3>1, <3>2, <3>3, <4>1
      <4>2. CASE i \in 2..(msg.len + 1)
        <5>1. /\ i - 1 \in 1..msg.len /\ i - 1 - 1 = i - 2
              /\ i <= msg.len + 1 /\ i \in 1..(msg.len + 1) /\ ~(i <= 1)
          BY <1>2, <4>2
        <5>2. Body[i - 1] = <<handled, i - 2>>
          BY <2>3, <5>1
        <5>3. ((Q \o Body) \o Q)[i] = Body[i - 1]
          BY <3>2, <3>3, <5>1
        <5> QED
          BY <4>2, <5>2, <5>3
      <4>3. CASE i = msg.len + 2
        BY <1>2, <3>1, <3>3, <4>3
      <4>4. i = 1 \/ i \in 2..(msg.len + 1) \/ i = msg.len + 2
        BY <1>2
      <4> QED
        BY <4>1, <4>2, <4>3, <4>4
    <3>6. AsSent = [i \in 1..(msg.len + 2) |-> AsSent[i]]
      BY <1>2, <3>3, <3>4
    <3> HIDE DEF Q
    <3> QED
      BY <3>4, <3>5, <3>6
  <2> QED
    BY <1>1, <2>1, <2>2, <2>4
<1> QED
  BY <1>4, <1>5

\* One response more.
LEMMA RespondsOnce ==
  ASSUME sent \in Seq(Responses), NEW r \in Responses, Respond(r)
  PROVE  /\ sent' \in Seq(Responses) /\ Len(sent') = Len(sent) + 1
         /\ sent'[Len(sent')] = r
         /\ Len(sent) = 1 => sent'[1] = sent[1]
  BY DEF Respond

USE DEF HttpdIInv, HttpdType, HttpdTypeOK, Received, Served, Owned, Understood, Answered,
        NothingForgotten, OneResponse, First, End, Total, Text

\* Steps of everybody else, and the addresses.
LEMMA HttpdStutters ==
  ASSUME HttpdIInv, AddressComes \/ UNCHANGED httpVars
  PROVE  HttpdIInv'
<1>1. /\ server' \in BOOLEAN /\ addresses' \in 0..MaxAddresses
      /\ UNCHANGED <<handled, at, msg, scratch, got, json, objs, left, outcome, sent>>
  <2>1. CASE AddressComes
    <3>1. MaxAddresses \in Nat
      BY ServerAssumption
    <3>2. addresses' \in 0..MaxAddresses
      BY <2>1, <3>1 DEF AddressComes
    <3>3. server' \in BOOLEAN
      BY <2>1 DEF AddressComes
    <3> QED
      BY <2>1, <3>2, <3>3 DEF AddressComes, NotBody
  <2>2. CASE UNCHANGED httpVars
    BY <2>2 DEF httpVars
  <2> QED
    BY <2>1, <2>2
<1>2. HttpdType'
  BY <1>1
<1>3. Received' /\ Served' /\ Owned'
  BY <1>1
<1>4. Understood' /\ Answered'
  BY <1>1
<1>5. NothingForgotten' /\ OneResponse'
  BY <1>1
<1> QED
  BY <1>2, <1>3, <1>4, <1>5

\* GET of an object.
LEMMA GetCallsKeeps ==
  ASSUME HttpdIInv, GetCalls
  PROVE  HttpdIInv'
<1>1. /\ at = "call" /\ msg.route = "get" /\ at' = "send"
      /\ objs' \in {{"response"}, {}}
      /\ UNCHANGED <<server, addresses, handled, msg, scratch, got, json, left, outcome, sent>>
  BY DEF GetCalls, Goto, NotBody
<1>2. HttpdType'
  BY <1>1 DEF Puts, Getters, Routes, Parts, Responses
<1>3. Received' /\ Served'
  BY <1>1
<1>4. Owned'
  BY <1>1 DEF Parts, Bodied, Puts
<1>5. Understood'
  BY <1>1 DEF Bodied, Puts
<1>6. Answered'
  BY <1>1 DEF Bodied, Puts
<1>7. NothingForgotten' /\ OneResponse'
  BY <1>1 DEF Bodied, Puts, Parts
<1> QED
  BY <1>2, <1>3, <1>4, <1>5, <1>6, <1>7

\* GET of a page.
LEMMA PageCallsKeeps ==
  ASSUME HttpdIInv, PageCalls
  PROVE  HttpdIInv'
<1>1. /\ at = "call" /\ msg.route = "page" /\ at' = "pack"
      /\ objs' \subseteq Parts
      /\ UNCHANGED <<server, addresses, handled, msg, scratch, got, json, left, outcome, sent>>
  BY DEF PageCalls, Parts, Goto, NotBody
<1>2. HttpdType'
  BY <1>1 DEF Puts, Getters, Routes, Parts, Responses
<1>3. Received' /\ Served'
  BY <1>1
<1>4. Owned'
  BY <1>1 DEF Parts, Bodied, Puts
<1>5. Understood'
  BY <1>1 DEF Bodied, Puts
<1>6. Answered'
  BY <1>1 DEF Bodied, Puts
<1>7. NothingForgotten' /\ OneResponse'
  BY <1>1 DEF Bodied, Puts, Parts
<1> QED
  BY <1>2, <1>3, <1>4, <1>5, <1>6, <1>7

\* GET of the networks.
LEMMA ScanCallsKeeps ==
  ASSUME HttpdIInv, ScanCalls
  PROVE  HttpdIInv'
<1>1. /\ at = "call" /\ msg.route = "scan" /\ at' = "pack"
      /\ objs' \subseteq Parts
      /\ left' \in {left, left \cup {<<"scan", "networks">>}}
      /\ UNCHANGED <<server, addresses, handled, msg, scratch, got, json, outcome, sent>>
  BY DEF ScanCalls, Parts, Goto, NotBody
<1>2. HttpdType'
  BY <1>1 DEF Puts, Getters, Routes, Parts, Responses
<1>3. Received' /\ Served'
  BY <1>1
<1>4. Owned'
  BY <1>1 DEF Parts, Bodied, Puts
<1>5. Understood'
  BY <1>1 DEF Bodied, Puts
<1>6. Answered'
  BY <1>1 DEF Bodied, Puts
<1>7. NothingForgotten' /\ OneResponse'
  BY <1>1 DEF Bodied, Puts, Parts
<1> QED
  BY <1>2, <1>3, <1>4, <1>5, <1>6, <1>7

\* A POST without an object.
LEMMA PostRefusesKeeps ==
  ASSUME HttpdIInv, PostRefuses
  PROVE  HttpdIInv'
<1>1. /\ at = "call" /\ msg.route = "post" /\ json = "null" /\ at' = "idle"
      /\ UNCHANGED <<server, addresses, handled, msg, scratch, got, json, objs, left, outcome, sent>>
  BY DEF PostRefuses, Goto, NotBody
<1>2. HttpdType'
  BY <1>1 DEF Puts, Getters, Routes, Parts, Responses
<1>3. Received' /\ Served'
  BY <1>1
<1>4. Owned'
  BY <1>1 DEF Parts, Bodied, Puts
<1>5. Understood'
  BY <1>1 DEF Bodied, Puts
<1>6. Answered'
  BY <1>1 DEF Bodied, Puts
<1>7. NothingForgotten' /\ OneResponse'
  BY <1>1 DEF Bodied, Puts, Parts
<1> QED
  BY <1>2, <1>3, <1>4, <1>5, <1>6, <1>7

\* A POST.
LEMMA PostCallsKeeps ==
  ASSUME HttpdIInv, PostCalls
  PROVE  HttpdIInv'
<1>1. /\ at = "call" /\ msg.route = "post" /\ json # "null" /\ at' = "pack"
      /\ outcome' \in {"ok", "error"}
      /\ objs' = objs \cup Parts
      /\ UNCHANGED <<server, addresses, handled, msg, scratch, got, json, left, sent>>
  BY DEF PostCalls, Parts, Goto, NotBody
<1>2. HttpdType'
  BY <1>1 DEF Puts, Getters, Routes, Parts, Responses
<1>3. Received' /\ Served'
  BY <1>1
<1>4. Owned'
  BY <1>1 DEF Parts, Bodied, Puts
<1>5. Understood'
  BY <1>1 DEF Bodied, Puts
<1>6. Answered'
  BY <1>1 DEF Bodied, Puts
<1>7. NothingForgotten' /\ OneResponse'
  BY <1>1 DEF Bodied, Puts, Parts
<1> QED
  BY <1>2, <1>3, <1>4, <1>5, <1>6, <1>7

\* pack_response.
LEMMA PackKeeps ==
  ASSUME HttpdIInv, Pack
  PROVE  HttpdIInv'
<1>1. /\ at = "pack" /\ at' = "send"
      /\ objs' \subseteq (objs \ Parts) \cup {"response"}
      /\ UNCHANGED <<server, addresses, handled, msg, scratch, got, json, left, outcome, sent>>
  BY DEF Pack, Parts, Goto, NotBody
<1>2. HttpdType'
  BY <1>1 DEF Puts, Getters, Routes, Parts, Responses
<1>3. Received' /\ Served'
  BY <1>1
<1>4. Owned'
  BY <1>1 DEF Parts, Bodied, Puts
<1>5. Understood'
  BY <1>1 DEF Bodied, Puts
<1>6. Answered'
  BY <1>1 DEF Bodied, Puts
<1>7. NothingForgotten' /\ OneResponse'
  BY <1>1 DEF Bodied, Puts, Parts
<1> QED
  BY <1>2, <1>3, <1>4, <1>5, <1>6, <1>7

\* PUT of the state.
LEMMA StateCallsKeeps ==
  ASSUME HttpdIInv, StateCalls
  PROVE  HttpdIInv'
<1>1. /\ at = "call" /\ msg.route = "state" /\ at' = "status"
      /\ outcome' \in {"ok", "400", "409", "500"}
      /\ outcome' = "ok" => json = "string"
      /\ UNCHANGED <<server, addresses, handled, msg, scratch, got, json, objs, left, sent>>
  BY DEF StateCalls, Goto, NotBody
<1>2. HttpdType'
  BY <1>1 DEF Puts, Getters, Routes, Parts, Responses
<1>3. Received' /\ Served'
  BY <1>1
<1>4. Owned'
  BY <1>1 DEF Parts, Bodied, Puts
<1>5. Understood'
  BY <1>1 DEF Bodied, Puts
<1>6. Answered'
  BY <1>1 DEF Bodied, Puts
<1>7. NothingForgotten' /\ OneResponse'
  BY <1>1 DEF Bodied, Puts, Parts
<1> QED
  BY <1>2, <1>3, <1>4, <1>5, <1>6, <1>7

\* DELETE.
LEMMA DeleteCallsKeeps ==
  ASSUME HttpdIInv, DeleteCalls
  PROVE  HttpdIInv'
<1>1. /\ at = "call" /\ msg.route = "delete" /\ at' = "status"
      /\ outcome' \in {"ok", "409", "500"}
      /\ UNCHANGED <<server, addresses, handled, msg, scratch, got, json, objs, left, sent>>
  BY DEF DeleteCalls, Goto, NotBody
<1>2. HttpdType'
  BY <1>1 DEF Puts, Getters, Routes, Parts, Responses
<1>3. Received' /\ Served'
  BY <1>1
<1>4. Owned'
  BY <1>1 DEF Parts, Bodied, Puts
<1>5. Understood'
  BY <1>1 DEF Bodied, Puts
<1>6. Answered'
  BY <1>1 DEF Bodied, Puts
<1>7. NothingForgotten' /\ OneResponse'
  BY <1>1 DEF Bodied, Puts, Parts
<1> QED
  BY <1>2, <1>3, <1>4, <1>5, <1>6, <1>7

\* GET of a dataset.
LEMMA DatasetReadsKeeps ==
  ASSUME HttpdIInv, DatasetReads
  PROVE  HttpdIInv'
<1>1. /\ at = "call" /\ msg.route = "dataset_get" /\ at' = "status"
      /\ outcome' \in {"ok", "204"}
      /\ objs' \in {objs, objs \cup {"response"}}
      /\ UNCHANGED <<server, addresses, handled, msg, scratch, got, json, left, sent>>
  BY DEF DatasetReads, Goto, NotBody
<1>2. HttpdType'
  BY <1>1 DEF Puts, Getters, Routes, Parts, Responses
<1>3. Received' /\ Served'
  BY <1>1
<1>4. Owned'
  BY <1>1 DEF Parts, Bodied, Puts
<1>5. Understood'
  BY <1>1 DEF Bodied, Puts
<1>6. Answered'
  BY <1>1 DEF Bodied, Puts
<1>7. NothingForgotten' /\ OneResponse'
  BY <1>1 DEF Bodied, Puts, Parts
<1> QED
  BY <1>2, <1>3, <1>4, <1>5, <1>6, <1>7

\* PUT of a dataset.
LEMMA DatasetCallsKeeps ==
  ASSUME HttpdIInv, DatasetCalls
  PROVE  HttpdIInv'
<1>1. /\ at = "call" /\ msg.route \in {"dataset", "dataset_text"} /\ at' = "status"
      /\ outcome' \in {"ok", "201", "400", "409", "500"}
      /\ outcome' \in {"ok", "201"} => json # "null"
      /\ objs' \in {objs, objs \ {"body"}}
      /\ UNCHANGED <<server, addresses, handled, msg, scratch, got, json, left, sent>>
  BY DEF DatasetCalls, DatasetRightType, Goto, NotBody
<1>2. HttpdType'
  BY <1>1 DEF Puts, Getters, Routes, Parts, Responses
<1>3. Received' /\ Served'
  BY <1>1
<1>4. Owned'
  BY <1>1 DEF Parts, Bodied, Puts
<1>5. Understood'
  BY <1>1 DEF Bodied, Puts
<1>6. Answered'
  BY <1>1 DEF Bodied, Puts
<1>7. NothingForgotten' /\ OneResponse'
  BY <1>1 DEF Bodied, Puts, Parts
<1> QED
  BY <1>2, <1>3, <1>4, <1>5, <1>6, <1>7

\* httpd_send_packet.
LEMMA SendKeeps ==
  ASSUME HttpdIInv, Send
  PROVE  HttpdIInv'
<1>1. /\ at = "send" /\ at' = "exit"
      /\ \/ UNCHANGED sent
         \/ /\ sent' \in Seq(Responses) /\ Len(sent') = Len(sent) + 1
            /\ Len(sent) = 1 => sent'[1] = sent[1]
            /\ sent'[Len(sent')] = IF outcome = "error" THEN "failed" ELSE "200"
      /\ UNCHANGED <<server, addresses, handled, msg, scratch, got, json, objs, left, outcome>>
  <2>1. /\ at = "send" /\ at' = "exit"
        /\ UNCHANGED <<server, addresses, handled, msg, scratch, got, json, objs, left, outcome>>
    BY DEF Send, Goto, NotBody
  <2>2. UNCHANGED sent \/ Respond(IF outcome = "error" THEN "failed" ELSE "200")
    BY DEF Send
  <2>3. (IF outcome = "error" THEN "failed" ELSE "200") \in Responses
    BY DEF Responses
  <2>4. \A r \in Responses : Respond(r) =>
          /\ sent' \in Seq(Responses) /\ Len(sent') = Len(sent) + 1
          /\ sent'[Len(sent')] = r
          /\ Len(sent) = 1 => sent'[1] = sent[1]
    BY RespondsOnce
  <2> QED
    BY <2>1, <2>2, <2>3, <2>4
<1>2. HttpdType'
  BY <1>1 DEF Puts, Getters, Routes, Parts, Responses
<1>3. Received' /\ Served'
  BY <1>1
<1>4. Owned'
  BY <1>1 DEF Parts, Bodied, Puts
<1>5. Understood'
  BY <1>1 DEF Bodied, Puts
<1>6. Answered'
  BY <1>1 DEF Bodied, Puts
<1>7. NothingForgotten' /\ OneResponse'
  BY <1>1 DEF Bodied, Puts, Parts
<1> QED
  BY <1>2, <1>3, <1>4, <1>5, <1>6, <1>7

\* The status line.
LEMMA StatusKeeps ==
  ASSUME HttpdIInv, Status
  PROVE  HttpdIInv'
<1>1. /\ at = "status" /\ at' = "exit"
      /\ \/ UNCHANGED sent
         \/ /\ sent' \in Seq(Responses) /\ Len(sent') = Len(sent) + 1
            /\ Len(sent) = 1 => sent'[1] = sent[1]
            /\ sent'[Len(sent')] = IF outcome = "ok" THEN "200" ELSE outcome
      /\ UNCHANGED <<server, addresses, handled, msg, scratch, got, json, objs, left, outcome>>
  <2>1. /\ at = "status" /\ at' = "exit"
        /\ UNCHANGED <<server, addresses, handled, msg, scratch, got, json, objs, left, outcome>>
    BY DEF Status, Goto, NotBody
  <2>2. UNCHANGED sent \/ Respond(IF outcome = "ok" THEN "200" ELSE outcome)
    BY DEF Status
  <2>3. (IF outcome = "ok" THEN "200" ELSE outcome) \in Responses
    BY <2>1 DEF Responses
  <2>4. \A r \in Responses : Respond(r) =>
          /\ sent' \in Seq(Responses) /\ Len(sent') = Len(sent) + 1
          /\ sent'[Len(sent')] = r
          /\ Len(sent) = 1 => sent'[1] = sent[1]
    BY RespondsOnce
  <2> QED
    BY <2>1, <2>2, <2>3, <2>4
<1>2. HttpdType'
  BY <1>1 DEF Puts, Getters, Routes, Parts, Responses
<1>3. Received' /\ Served'
  BY <1>1
<1>4. Owned'
  BY <1>1 DEF Parts, Bodied, Puts
<1>5. Understood'
  BY <1>1 DEF Bodied, Puts
<1>6. Answered'
  BY <1>1 DEF Bodied, Puts
<1>7. NothingForgotten' /\ OneResponse'
  <2>1. NothingForgotten'
    BY <1>1
  <2>2. CASE UNCHANGED sent
    BY <1>1, <2>1, <2>2
  <2>3. CASE Len(sent') = Len(sent) + 1 /\ Len(sent) = 0
    BY <1>1, <2>1, <2>3
  <2>4. CASE Len(sent') = Len(sent) + 1 /\ Len(sent) = 1
    <3>1. sent'[1] = "500" /\ json = "null" /\ msg.route \in Bodied \cap (Puts \cup {"delete", "dataset_get"})
      BY <1>1, <2>4
    <3>2. msg.route \in Puts
      BY <3>1 DEF Bodied, Puts
    <3> QED
      BY <1>1, <2>1, <2>4, <3>1, <3>2
  <2> QED
    BY <1>1, <2>2, <2>3, <2>4
<1> QED
  BY <1>2, <1>3, <1>4, <1>5, <1>6, <1>7

\* A file.
LEMMA FilesKeeps ==
  ASSUME HttpdIInv, Files
  PROVE  HttpdIInv'
<1>1. /\ at = "call" /\ msg.route = "file" /\ at' = "idle"
      /\ \/ UNCHANGED sent
         \/ /\ sent' \in Seq(Responses) /\ Len(sent') = Len(sent) + 1
            /\ Len(sent) = 1 => sent'[1] = sent[1]
            /\ sent'[Len(sent')] \in {"200", "500"}
      /\ UNCHANGED <<server, addresses, handled, msg, scratch, got, json, objs, left, outcome>>
  <2>1. /\ at = "call" /\ msg.route = "file" /\ at' = "idle"
        /\ UNCHANGED <<server, addresses, handled, msg, scratch, got, json, objs, left, outcome>>
    BY DEF Files, Goto, NotBody
  <2>2. UNCHANGED sent \/ \E r \in {"200", "500"} : Respond(r)
    BY DEF Files
  <2>3. {"200", "500"} \subseteq Responses
    BY DEF Responses
  <2>4. \A r \in Responses : Respond(r) =>
          /\ sent' \in Seq(Responses) /\ Len(sent') = Len(sent) + 1
          /\ sent'[Len(sent')] = r
          /\ Len(sent) = 1 => sent'[1] = sent[1]
    BY RespondsOnce
  <2> QED
    BY <2>1, <2>2, <2>3, <2>4
<1>2. HttpdType'
  BY <1>1 DEF Puts, Getters, Routes, Parts, Responses
<1>3. Received' /\ Served'
  BY <1>1
<1>4. Owned'
  BY <1>1 DEF Parts, Bodied, Puts
<1>5. Understood'
  BY <1>1 DEF Bodied, Puts
<1>6. Answered'
  BY <1>1 DEF Bodied, Puts
<1>7. NothingForgotten' /\ OneResponse'
  BY <1>1 DEF Bodied, Puts, Parts
<1> QED
  BY <1>2, <1>3, <1>4, <1>5, <1>6, <1>7

\* The handler returns.
LEMMA ExitKeeps ==
  ASSUME HttpdIInv, Exit
  PROVE  HttpdIInv'
<1>1. /\ at = "exit" /\ at' = "idle"
      /\ objs' = {}
      /\ left' = left \cup {<<msg.route, o>> : o \in objs \ Deleted}
      /\ UNCHANGED <<server, addresses, handled, msg, scratch, got, json, outcome, sent>>
  BY DEF Exit, Goto, NotBody
<1>2. HttpdType'
  BY <1>1 DEF Puts, Getters, Routes, Parts, Responses
<1>3. Received' /\ Served'
  BY <1>1
<1>4. Owned'
  BY <1>1 DEF Parts, Bodied, Puts
<1>5. Understood'
  BY <1>1 DEF Bodied, Puts
<1>6. Answered'
  BY <1>1 DEF Bodied, Puts
<1>7. NothingForgotten' /\ OneResponse'
  <2>1. ASSUME NEW o \in objs \ Deleted
        PROVE  o = "body" /\ msg.route \in {"dataset", "dataset_text"}
    BY <1>1 DEF Deleted, Bodied, Puts, Parts
  <2>2. left' \subseteq {<<"dataset", "body">>, <<"dataset_text", "body">>, <<"scan", "networks">>}
    BY <1>1, <2>1
  <2> QED
    BY <1>1, <2>2
<1> QED
  BY <1>2, <1>3, <1>4, <1>5, <1>6, <1>7

\* A request comes.
LEMMA AcceptKeeps ==
  ASSUME HttpdIInv, NEW route \in Routes, NEW len \in 0..ScratchSize, Accept(route, len)
  PROVE  HttpdIInv'
<1>1. /\ msg' = [route |-> route, len |-> len] /\ handled' \in 1..MaxHandled
      /\ at' = IF route \in Bodied THEN "convert" ELSE "call"
      /\ json' = "null" /\ outcome' = "none" /\ sent' = <<>>
      /\ UNCHANGED <<server, addresses, scratch, got, left>>
  <2>1. MaxHandled \in Nat
    BY ServerAssumption
  <2> QED
    BY <2>1 DEF Accept, Bodied
<1>2. objs' = IF route \in {"dataset", "dataset_text", "dataset_get"}
              THEN {"request", "log"} ELSE {}
  BY DEF Accept
<1>3. /\ sent' \in Seq(Responses) /\ Len(sent') = 0
      /\ msg' \in [route : Routes, len : 0..ScratchSize] /\ msg'.route = route
  BY <1>1
<1>4. HttpdType'
  BY <1>1, <1>2, <1>3
<1>5. Received' /\ Served'
  BY <1>1
<1>6. Owned'
  BY <1>1, <1>2, <1>3 DEF Parts, Bodied, Puts
<1>7. Understood'
  BY <1>1, <1>3 DEF Bodied, Puts
<1>8. Answered'
  BY <1>1, <1>3
<1>9. NothingForgotten' /\ OneResponse'
  BY <1>1, <1>3
<1> QED
  BY <1>4, <1>5, <1>6, <1>7, <1>8, <1>9

\* Whatever is asked for.
LEMMA AcceptsKeeps ==
  ASSUME HttpdIInv, Accepts
  PROVE  HttpdIInv'
<1> HIDE DEF HttpdIInv
<1>1. 0 \in 0..ScratchSize
  BY ServerAssumption
<1>2. Getters \cup {"delete", "post", "state", "dataset", "dataset_text"} \subseteq Routes
  BY DEF Routes, Puts
<1> QED
  BY <1>1, <1>2, AcceptKeeps DEF Accepts

\* The conversion begins: a text gets its quotes, and a body that is too long
\* is refused.
LEMMA ConvertBeginsKeeps ==
  ASSUME HttpdIInv, ConvertBegins
  PROVE  HttpdIInv'
<1>1. /\ at = "convert" /\ UNCHANGED <<server, addresses, handled, msg, json, objs, left, outcome>>
  BY DEF ConvertBegins, Goto
<1>2. /\ msg.len \in Nat /\ First \in {0, 1} /\ End = First + msg.len /\ Total = End + First
      /\ ScratchSize \in Nat
  BY ServerAssumption
<1>3. scratch' = IF Text THEN [scratch EXCEPT ![0] = Quote, ![Total - 1] = Quote] ELSE scratch
  BY DEF ConvertBegins
<1>4. /\ DOMAIN scratch' = 0..(ScratchSize - 1)
      /\ scratch' = [i \in DOMAIN scratch' |-> scratch'[i]]
  BY <1>3
<1>5. CASE Total >= ScratchSize
  <2>1. Respond("500") /\ at' = "call" /\ got' = got
    BY <1>5 DEF ConvertBegins, Goto
  <2>2. /\ sent' \in Seq(Responses) /\ Len(sent') = 1 /\ sent'[1] = "500"
    <3>1. Len(sent) = 0 /\ "500" \in Responses
      BY <1>1 DEF Responses
    <3> QED
      BY <2>1, <3>1, RespondsOnce
  <2>3. HttpdType'
    BY <1>1, <1>4, <2>1, <2>2
  <2>4. Received' /\ Served' /\ Owned'
    BY <1>1, <2>1
  <2>5. Understood' /\ Answered'
    BY <1>1, <2>1, <2>2
  <2>6. NothingForgotten' /\ OneResponse'
    BY <1>1, <2>1, <2>2
  <2> QED
    BY <2>3, <2>4, <2>5, <2>6
<1>6. CASE ~(Total >= ScratchSize)
  <2>1. at' = "recv" /\ got' = First /\ sent' = sent
    BY <1>6 DEF ConvertBegins, Goto
  <2>2. Total < ScratchSize /\ First <= End /\ First \in 0..(ScratchSize - 1)
    BY <1>2, <1>6
  <2>3. Text => scratch'[0] = Quote /\ scratch'[Total - 1] = Quote
    <3>1. Text => First = 1 /\ Total - 1 \in 0..(ScratchSize - 1) /\ 0 \in 0..(ScratchSize - 1)
      BY <1>2, <2>2
    <3> QED
      BY <1>3, <3>1
  <2>4. First' = First /\ End' = End /\ Total' = Total /\ Text' = Text
    BY <1>1
  <2>5. HttpdType'
    BY <1>1, <1>4, <2>1, <2>2
  <2>6. Served' /\ Owned'
    BY <1>1, <2>1
  <2>7. Received'
    <3>1. handled' >= 1
      BY <1>1
    <3>2. First..(First - 1) = {}
      BY <1>2
    <3> QED
      BY <1>2, <2>1, <2>2, <2>3, <2>4, <3>1, <3>2
  <2>8. Understood' /\ Answered'
    BY <1>1, <2>1
  <2>9. NothingForgotten' /\ OneResponse'
    BY <1>1, <2>1
  <2> QED
    BY <2>5, <2>6, <2>7, <2>8, <2>9
<1> QED
  BY <1>5, <1>6

\* A piece of the body is written behind the ones before.
LEMMA PieceKeeps ==
  ASSUME HttpdIInv, Piece
  PROVE  HttpdIInv'
<1>1. /\ at = "recv"
      /\ UNCHANGED <<server, addresses, handled, at, msg, json, objs, left, outcome, sent>>
  BY DEF Piece
<1>2. PICK n \in 1..(End - got) :
        /\ scratch' = [i \in DOMAIN scratch |->
                         IF i \in got..(got + n - 1) THEN <<handled, i - First>> ELSE scratch[i]]
        /\ got' = got + n
  BY DEF Piece
<1>3. /\ msg.len \in Nat /\ First \in {0, 1} /\ End = First + msg.len /\ Total = End + First
      /\ ScratchSize \in Nat /\ got \in Nat /\ Total < ScratchSize /\ First <= got
      /\ Text => First = 1
  BY <1>1, ServerAssumption
<1> HIDE DEF First, End, Total, Text, HttpdIInv
<1>4. n \in Nat /\ n >= 1 /\ got + n <= End /\ got' \in 0..(ScratchSize - 1)
  <2>1. End \in Int /\ Total >= End
    BY <1>3
  <2>2. n \in Nat /\ n >= 1 /\ got + n <= End
    BY <1>3, <2>1
  <2> QED
    BY <1>2, <1>3, <2>1, <2>2
<1> USE DEF First, End, Total, Text, HttpdIInv
<1>5. First' = First /\ End' = End /\ Total' = Total /\ Text' = Text
  BY <1>1
<1>6. /\ DOMAIN scratch' = 0..(ScratchSize - 1)
      /\ scratch' = [i \in DOMAIN scratch' |-> scratch'[i]]
  BY <1>2
<1>7. HttpdType'
  BY <1>1, <1>4, <1>6
<1>8. ASSUME NEW i \in First..(got' - 1)
      PROVE  scratch'[i] = <<handled, i - First>>
  <2>1. DOMAIN scratch = 0..(ScratchSize - 1) /\ got' = got + n /\ First \in Nat
    BY <1>2, <1>3
  <2> HIDE DEF First, End, Total, Text, HttpdIInv
  <2>2. i \in DOMAIN scratch
    BY <1>3, <1>4, <2>1
  <2>3. i \in got..(got + n - 1) \/ i \in First..(got - 1)
    BY <1>3, <1>4, <2>1
  <2>4. i \in First..(got - 1) => scratch[i] = <<handled, i - First>>
    BY <1>1 DEF HttpdIInv
  <2> QED
    BY <1>2, <2>2, <2>3, <2>4
<1>9. Text => scratch'[0] = Quote /\ scratch'[Total - 1] = Quote
  <2>1. ASSUME Text
        PROVE  /\ {0, Total - 1} \subseteq DOMAIN scratch
               /\ 0 \notin got..(got + n - 1) /\ Total - 1 \notin got..(got + n - 1)
    BY <1>3, <1>4, <2>1, SMTT(30)
  <2> QED
    BY <1>1, <1>2, <2>1
<1>10. Received'
  <2>1. handled' >= 1 /\ Total < ScratchSize /\ First <= got' /\ got' <= End
    BY <1>1, <1>2, <1>3, <1>4
  <2> QED
    BY <1>1, <1>5, <1>8, <1>9, <2>1
<1>11. Served' /\ Owned'
  BY <1>1
<1>12. Understood' /\ Answered'
  BY <1>1
<1>13. NothingForgotten' /\ OneResponse'
  BY <1>1
<1> QED
  BY <1>7, <1>10, <1>11, <1>12, <1>13

\* The rest of the body does not come.
LEMMA PieceFailsKeeps ==
  ASSUME HttpdIInv, PieceFails
  PROVE  HttpdIInv'
<1>1. /\ at = "recv" /\ at' = "call" /\ Respond("500")
      /\ UNCHANGED <<server, addresses, handled, msg, scratch, got, json, objs, left, outcome>>
  BY DEF PieceFails, Goto, NotBody
<1>2. /\ sent' \in Seq(Responses) /\ Len(sent') = 1 /\ sent'[1] = "500"
  <2>1. Len(sent) = 0 /\ "500" \in Responses
    BY <1>1 DEF Responses
  <2> QED
    BY <1>1, <2>1, RespondsOnce
<1>3. HttpdType'
  BY <1>1, <1>2
<1>4. Received' /\ Served' /\ Owned'
  BY <1>1
<1>5. Understood' /\ Answered'
  BY <1>1, <1>2
<1>6. NothingForgotten' /\ OneResponse'
  BY <1>1, <1>2
<1> QED
  BY <1>3, <1>4, <1>5, <1>6

\* The body is there and is parsed.
LEMMA ParseKeeps ==
  ASSUME HttpdIInv, Parse
  PROVE  HttpdIInv'
<1>1. /\ at = "recv" /\ at' = "call" /\ got = End /\ scratch' = Terminated(scratch)
      /\ UNCHANGED <<server, addresses, handled, msg, got, left, outcome, sent>>
  BY DEF Parse, Goto
<1>2. Seen(scratch') = AsSent
  BY <1>1, ParsesSent
<1>3. json' \in {"null", "string", "object"}
  BY <1>2 DEF Parse
<1>4. /\ objs' = IF json' = "null" THEN objs ELSE objs \cup {"body"}
      /\ Len(sent) = 0 /\ json = "null" /\ msg.route \in Bodied /\ outcome = "none"
  BY <1>1 DEF Parse
<1>5. /\ DOMAIN scratch' = 0..(ScratchSize - 1)
      /\ scratch' = [i \in DOMAIN scratch' |-> scratch'[i]]
  BY <1>1 DEF Terminated
<1>6. HttpdType'
  BY <1>1, <1>3, <1>4, <1>5
<1>7. Received' /\ Served'
  BY <1>1
<1>8. Owned'
  BY <1>1, <1>4 DEF Parts
<1>9. Understood' /\ Answered'
  BY <1>1, <1>4
<1>10. NothingForgotten' /\ OneResponse'
  BY <1>1, <1>4
<1> QED
  BY <1>6, <1>7, <1>8, <1>9, <1>10

\* Before the server is started.
LEMMA HttpdStart == HttpdInit => HttpdIInv
<1> SUFFICES ASSUME HttpdInit
             PROVE  HttpdIInv
  OBVIOUS
<1>1. /\ server = FALSE /\ addresses = 0 /\ handled = 0 /\ at = "idle" /\ got = 0
      /\ json = "null" /\ objs = {} /\ left = {} /\ outcome = "none"
  BY DEF HttpdInit
<1>2. /\ msg = [route |-> "get", len |-> 0] /\ "get" \in Routes
      /\ sent \in Seq(Responses) /\ Len(sent) = 0
  BY DEF HttpdInit, NoBody, Routes, Getters
<1>3. /\ DOMAIN scratch = 0..(ScratchSize - 1)
      /\ scratch = [i \in DOMAIN scratch |-> scratch[i]]
  BY DEF HttpdInit
<1>4. 0 \in 0..MaxAddresses /\ 0 \in 0..MaxHandled /\ 0 \in 0..ScratchSize
      /\ 0 \in 0..(ScratchSize - 1)
  BY ServerAssumption
<1>5. msg \in [route : Routes, len : 0..ScratchSize]
  BY <1>2, <1>4
<1>6. HttpdType
  BY <1>1, <1>2, <1>3, <1>4, <1>5
<1>7. Received /\ Served /\ Owned /\ NothingForgotten /\ OneResponse
  BY <1>1, <1>2
<1>8. Understood /\ Answered
  BY <1>1, <1>2
<1> QED
  BY <1>6, <1>7, <1>8

\* Every step keeps the invariant of the server.
LEMMA HttpdStep ==
  ASSUME HttpdIInv, [RunNext]_runVars
  PROVE  HttpdIInv'
<1> HIDE DEF HttpdIInv
<1>1. HttpdNext \/ UNCHANGED httpVars
  BY DEF RunNext, runVars, Services, OfServer
<1>2. CASE Converts
  BY <1>2, ConvertBeginsKeeps, PieceKeeps, PieceFailsKeeps, ParseKeeps DEF Converts
<1>3. CASE Handles
  BY <1>3, GetCallsKeeps, PageCallsKeeps, ScanCallsKeeps, PostRefusesKeeps, PostCallsKeeps,
     PackKeeps, SendKeeps, StateCallsKeeps, DeleteCallsKeeps, DatasetReadsKeeps,
     DatasetCallsKeeps, StatusKeeps, FilesKeeps, ExitKeeps DEF Handles
<1> QED
  BY <1>1, <1>2, <1>3, AcceptsKeeps, HttpdStutters DEF HttpdNext

\* What the invariant is for.
LEMMA HttpdSafe == HttpdIInv => HttpdInv
<1> SUFFICES ASSUME HttpdIInv
             PROVE  HttpdInv
  OBVIOUS
<1>1. HttpdTypeOK /\ NothingForgotten /\ OneResponse
  BY DEF HttpdIInv, HttpdType
<1>2. ParsesBody
  BY DEF HttpdIInv, HttpdType, ParsesBody
<1>3. SuccessMeant
  <2> SUFFICES ASSUME at = "idle", msg.route \in Puts \cup {"post", "delete"}, Len(sent) > 0,
                      Last(sent) \in {"200", "201"}
               PROVE  /\ outcome \in {"ok", "201"}
                      /\ msg.route # "delete" => json # "null" /\ got = End
    BY DEF SuccessMeant
  <2>1. outcome \in {"ok", "201"}
    BY DEF HttpdIInv, Answered, Last, Bodied
  <2>2. msg.route # "delete" => json # "null"
    BY <2>1 DEF HttpdIInv, Understood, Bodied
  <2> QED
    BY <2>1, <2>2 DEF HttpdIInv, Understood
<1> QED
  BY <1>1, <1>2, <1>3 DEF HttpdInv

HIDE DEF HttpdIInv, HttpdType, HttpdTypeOK, Received, Served, Owned, Understood, Answered,
         NothingForgotten, OneResponse, First, End, Total, Text

\* The invariant of the server: what of the request is in the scratch buffer,
\* who owns which object, and what may have been answered.
THEOREM HttpdInvariant == RunSpec => []HttpdIInv
<1>1. RunInit => HttpdIInv
  BY HttpdStart DEF RunInit
<1>2. HttpdIInv /\ [RunNext]_runVars => HttpdIInv'
  BY HttpdStep
<1> QED
  BY <1>1, <1>2, PTL DEF RunSpec

\* The server parses the body that was sent, leaves no object behind but the
\* two that its code forgets, and answers success only for what was done; the
\* OpenThread task is about the list of networks and the set of diagnostics
\* only inside the requests that wait for it.
THEOREM WebServes == RunSpec => []WebHolds
<1>1. WebIInv /\ HttpdIInv => WebHolds
  BY HttpdSafe DEF WebHolds, WebIInv
<1> QED
  BY <1>1, WebInvariant, HttpdInvariant, PTL
=============================================================================
