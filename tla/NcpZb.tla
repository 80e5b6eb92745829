-------------------------------- MODULE NcpZb --------------------------------
(***************************************************************************)
(* The commands of components/esp-zigbee-ncp (esp_ncp_zb.c).  The main     *)
(* task executes one at a time and answers it; what it starts in the       *)
(* Zigbee stack ends in callbacks, which the Zigbee task makes whenever it *)
(* likes and which pass their result to the host as a notification, or     *)
(* leave it in a queue for the host to poll.                               *)
(*                                                                         *)
(* External: the stack, the host.  The host brings the network up in the   *)
(* order the stack demands: INIT, FORMNETWORK, the channels, START, and    *)
(* asks the network for something only then; all else it may ask at any    *)
(* time.  A match is answered by one device.                               *)
(***************************************************************************)
EXTENDS Integers, Sequences, FiniteSets

CONSTANTS Masks,        \* channel masks
          ApsQueueLen,  \* NCP_EVENT_QUEUE_LEN
          MaxCmds,      \* bound: requests to the network
          MaxAps,       \* bound: indications; confirms
          MaxSetbacks   \* bound: failures of the stack

ASSUME NcpZbAssumption ==
  {ApsQueueLen, MaxCmds, MaxAps, MaxSetbacks} \subseteq Nat

VARIABLES flags,     \* s_init_flag, s_start_flag; whether esp_zb_init was run
          channels,  \* s_primary_channel, and the mask the stack uses
          endpoints, \* whether the host's endpoint is registered
          bdb,       \* the commissioning the stack carries out
          formAlarm, \* number of scheduler alarms that will start a formation
          told,      \* networks formed; of which the host was notified
          cmd,       \* the command the main task executes
          asked,     \* requests to the network made
          zdo,       \* open ZDO requests and their user_ctx, or NoBlock
          heap,      \* blocks allocated, with the host's callback in them
          result,    \* history: the callback each request's result went to
          apsq,      \* s_aps_data_indication, s_aps_data_confirm
          hand,      \* the APS callback that the Zigbee task is in
          made,      \* APS callbacks registered, requests that await their
                     \* confirm, and the number of APS events made
          given,     \* history: the APS event the host was given last
          setbacks   \* failures of the stack

network  == <<bdb, formAlarm, told>>
contexts == <<zdo, heap, result>>
apsVars  == <<apsq, hand, made, given>>
zbCmdVars == <<flags, channels, endpoints, network, cmd, asked, contexts, apsVars,
               setbacks>>

NoBlock  == 0
NoMask   == "none"
Closed   == << [deleted |-> TRUE] >>     \* a queue not created yet
Idle     == [op |-> "none"]
ApsKinds == {"ind", "conf"}
Put(f, k, v) == [x \in DOMAIN f \cup {k} |-> IF x = k THEN v ELSE f[x]]

NcpZbInit ==
  /\ flags = [init |-> FALSE, up |-> FALSE, start |-> FALSE]
  /\ channels = [kept |-> NoMask, stack |-> NoMask] /\ endpoints = FALSE
  /\ bdb = "off" /\ formAlarm = 0 /\ told = [formed |-> 0, notified |-> 0]
  /\ cmd = Idle /\ asked = 0
  /\ zdo = {} /\ heap = << >> /\ result = << >>
  /\ apsq = [k \in ApsKinds |-> Closed] /\ hand = Idle
  /\ made = [registered |-> FALSE, due |-> 0, ind |-> 0, conf |-> 0]
  /\ given = [k \in ApsKinds |-> <<k, 0>>]
  /\ setbacks = 0

-----------------------------------------------------------------------------
(* The main task. *)

Fails(ok) == /\ ok \/ setbacks < MaxSetbacks
             /\ setbacks' = IF ok THEN setbacks ELSE setbacks + 1
Free == cmd = Idle /\ UNCHANGED asked
Asks == /\ cmd = Idle /\ bdb = "ready"
        /\ asked < MaxCmds /\ asked' = asked + 1

\* The status byte and ret of the handler, which fails without memory for the
\* byte, whatever it has done: ESP_NCP_ZB_STATUS.
Ends(op, ret, status) ==
  \E mem \in BOOLEAN : cmd' = [op |-> op, success |-> ret /\ mem /\ status]
Says(op, ok) == Ends(op, ok, ok)

\* The host has its answer: the handler's, or the error response.
Respond == /\ cmd # Idle /\ cmd.op # "poll" /\ cmd' = Idle
           /\ UNCHANGED <<flags, channels, endpoints, network, asked, contexts,
                          apsVars, setbacks>>

\* esp_ncp_zb_network_init_fn: a second one is answered with a failure.
NetworkInit(ok) ==
  /\ Free /\ Fails(ok)
  /\ flags' = [flags EXCEPT !.init = @ \/ ok]
  /\ Ends("init", ok \/ flags.init, ~flags.init)
  /\ UNCHANGED <<channels, endpoints, network, contexts, apsVars>>

\* esp_ncp_zb_form_network_fn: it configures the stack, and forms nothing.
FormNetwork ==
  /\ Free /\ flags.init /\ ~flags.up
  /\ flags' = [flags EXCEPT !.up = TRUE] /\ Says("form", TRUE)
  /\ UNCHANGED <<channels, endpoints, network, contexts, apsVars, setbacks>>

\* esp_ncp_zb_network_primary_channel_set_fn: it keeps what the stack refuses.
PrimaryChannelSet(m, ok) ==
  /\ Free /\ bdb = "off" /\ Fails(ok)
  /\ channels' = [kept |-> m, stack |-> IF ok THEN m ELSE channels.stack]
  /\ Says("primary", ok)
  /\ UNCHANGED <<flags, endpoints, network, contexts, apsVars>>

\* esp_ncp_zb_channel_set_fn: of this mask nothing is kept.
ChannelSet(m, ok) ==
  /\ Free /\ bdb = "off" /\ Fails(ok)
  /\ channels' = [channels EXCEPT !.stack = IF ok THEN m ELSE @]
  /\ Says("channel", ok)
  /\ UNCHANGED <<flags, endpoints, network, contexts, apsVars>>

\* esp_ncp_zb_start_fn: the task is made, once, even if the stack refuses to
\* start; it runs the stack's loop and makes all its callbacks.
Start(ok, autostart) ==
  /\ Free /\ flags.up /\ bdb = "off" /\ Fails(ok)
  /\ flags' = [flags EXCEPT !.start = TRUE]
  /\ bdb' = IF ~ok THEN bdb ELSE IF autostart THEN "init" ELSE "skip"
  /\ Says("start", ok)
  /\ UNCHANGED <<channels, endpoints, formAlarm, told, contexts, apsVars>>

\* esp_ncp_zb_add_endpoint_fn: before the start it answers SUCCESS and
\* registers nothing.
AddEndpoint ==
  /\ Free /\ endpoints' = (endpoints \/ flags.start) /\ Says("endpoint", TRUE)
  /\ UNCHANGED <<flags, channels, network, contexts, apsVars, setbacks>>

\* Mutant: one static block for the callbacks of all requests.
OneBlock(n) == 1

\* The block calloc gives for the callback of request n.
Block(n) == n

\* A request to the network that keeps the host's callback until its answer;
\* without memory it is made all the same, and one that the stack refuses
\* leaves its block behind.
AskNetwork(op, ok) ==
  /\ Asks /\ Fails(ok) /\ Says(op, ok)
  /\ \E got \in BOOLEAN :
       LET n == asked + 1
           b == IF got THEN Block(n) ELSE NoBlock
       IN  /\ heap' = IF got THEN Put(heap, b, n) ELSE heap
           /\ zdo' = IF ok THEN zdo \cup {[n |-> n, ctx |-> b]} ELSE zdo
  /\ UNCHANGED <<flags, channels, endpoints, network, result, apsVars>>

\* esp_ncp_zb_set_bind_fn and esp_ncp_zb_set_unbind_fn: they cannot fail.
SetBind == AskNetwork("bind", TRUE)

\* esp_ncp_zb_find_match_fn.
FindMatch(ok) == AskNetwork("match", ok)

\* esp_ncp_zb_read_attr_fn: the list of attributes is never freed.
ReadAttr ==
  /\ Asks /\ UNCHANGED setbacks
  /\ \/ heap' = Put(heap, asked + 1, NoBlock) /\ Says("read", TRUE)
     \/ Says("read", FALSE) /\ UNCHANGED heap
  /\ UNCHANGED <<flags, channels, endpoints, network, zdo, result, apsVars>>

\* esp_ncp_zb_aps_data_request_fn; it registers the callbacks each time.
ApsDataRequest(ok) ==
  /\ Asks /\ Fails(ok) /\ Says("aps", ok)
  /\ made' = [made EXCEPT !.registered = TRUE, !.due = IF ok THEN @ + 1 ELSE @]
  /\ UNCHANGED <<flags, channels, endpoints, network, contexts, apsq, hand, given>>

\* esp_ncp_zb_aps_data_indication_fn and esp_ncp_zb_aps_data_confirm_fn: the
\* first creates its queue, and each waits a while for an element.
PollAps(k) ==
  /\ Free /\ cmd' = [op |-> "poll", kind |-> k]
  /\ apsq' = [apsq EXCEPT ![k] = IF @ = Closed THEN <<>> ELSE @]
  /\ UNCHANGED <<flags, channels, endpoints, network, contexts, hand, made, given,
                 setbacks>>

PollEnds ==
  /\ cmd # Idle /\ cmd.op = "poll"
  /\ cmd' = [op |-> "polled", success |-> FALSE]
  /\ \/ /\ apsq[cmd.kind] # <<>>
        /\ apsq' = [apsq EXCEPT ![cmd.kind] = Tail(@)]
        /\ given' = [given EXCEPT ![cmd.kind] = Head(apsq[cmd.kind])]
     \/ UNCHANGED <<apsq, given>>
  /\ UNCHANGED <<flags, channels, endpoints, network, asked, contexts, hand, made,
                 setbacks>>
-----------------------------------------------------------------------------
(* The Zigbee task: esp_zb_app_signal_handler.  What it only passes on to    *)
(* the host is Notify of NcpBus.                                             *)

\* ESP_ZB_ZDO_SIGNAL_SKIP_STARTUP, of a start without autostart.
SkipStartup == /\ bdb = "skip" /\ bdb' = "init"
               /\ UNCHANGED <<flags, channels, endpoints, formAlarm, told, cmd,
                              asked, contexts, apsVars, setbacks>>

\* DEVICE_FIRST_START and DEVICE_REBOOT: a network is formed after either.
Started(ok) == /\ bdb = "init" /\ Fails(ok)
               /\ bdb' = IF ok THEN "form" ELSE "init"
               /\ UNCHANGED <<flags, channels, endpoints, formAlarm, told, cmd,
                              asked, contexts, apsVars>>

\* Mutant: a failed formation is left at that.
FormationOnce(ok) ==
  /\ bdb = "form" /\ Fails(ok)
  /\ bdb' = IF ok THEN "steer" ELSE "wait"
  /\ told' = IF ok THEN [formed |-> told.formed + 1, notified |-> told.notified + 1]
             ELSE told
  /\ UNCHANGED <<flags, channels, endpoints, formAlarm, cmd, asked, contexts, apsVars>>

\* ESP_ZB_BDB_SIGNAL_FORMATION: the host is told of the network, or an alarm
\* is set for another attempt.
Formation(ok) ==
  /\ bdb = "form" /\ Fails(ok)
  /\ bdb' = IF ok THEN "steer" ELSE "wait"
  /\ told' = IF ok THEN [formed |-> told.formed + 1, notified |-> told.notified + 1]
             ELSE told
  /\ formAlarm' = IF ok THEN formAlarm ELSE formAlarm + 1
  /\ UNCHANGED <<flags, channels, endpoints, cmd, asked, contexts, apsVars>>

\* esp_ncp_zb_bdb_start_top_level_commissioning_cb.
FormAlarm == /\ formAlarm > 0 /\ formAlarm' = formAlarm - 1
             /\ bdb' = "form"
             /\ UNCHANGED <<flags, channels, endpoints, told, cmd, asked, contexts,
                            apsVars, setbacks>>

\* ESP_ZB_BDB_SIGNAL_STEERING: whether it worked is only logged.
Steering == /\ bdb = "steer" /\ bdb' = "ready"
            /\ UNCHANGED <<flags, channels, endpoints, formAlarm, told, cmd, asked,
                           contexts, apsVars, setbacks>>

\* esp_ncp_zb_bind_cb, esp_ncp_zb_unbind_cb, esp_ncp_zb_find_match_cb: the
\* callback is copied into the notification and its block freed.
ZdoResult(r) ==
  /\ r \in zdo /\ zdo' = zdo \ {r}
  /\ result' = Put(result, r.n, IF r.ctx \in DOMAIN heap THEN heap[r.ctx] ELSE NoBlock)
  /\ heap' = [b \in DOMAIN heap \ {r.ctx} |-> heap[b]]
  /\ UNCHANGED <<flags, channels, endpoints, network, cmd, asked, apsVars, setbacks>>

-----------------------------------------------------------------------------
(* The Zigbee task: the APS callbacks.                                       *)

\* esp_ncp_zb_aps_data_handle reads the queue's handle.
ApsEvent(k) ==
  /\ hand = Idle /\ made.registered /\ made[k] < MaxAps
  /\ k = "conf" => made.due > 0
  /\ made' = [made EXCEPT ![k] = @ + 1, !.due = IF k = "conf" THEN @ - 1 ELSE @]
  /\ hand' = [op |-> "handle", ev |-> <<k, made[k] + 1>>, polled |-> apsq[k] # Closed]
  /\ UNCHANGED <<flags, channels, endpoints, network, cmd, asked, contexts, apsq,
                 given, setbacks>>

\* Mutant: the confirms go to the queue of the indications.
QueueOfIndications(k) == "ind"

\* event_queue of esp_ncp_zb_aps_data_handle.
EventQueue(k) == k

\* It puts the event into the queue, or loses it; or it notifies the host.
ApsHandle ==
  /\ hand.op = "handle"
  /\ LET k == hand.ev[1]
         q == EventQueue(k)
         fits == Len(apsq[q]) < ApsQueueLen
     IN  /\ apsq' = IF hand.polled /\ fits
                    THEN [apsq EXCEPT ![q] = Append(@, hand.ev)] ELSE apsq
         /\ given' = IF hand.polled THEN given ELSE [given EXCEPT ![k] = hand.ev]
         /\ hand' = [op |-> "return", ev |-> hand.ev,
                     got |-> IF ~hand.polled THEN "host"
                             ELSE IF fits THEN "queue" ELSE "nobody"]
  /\ UNCHANGED <<flags, channels, endpoints, network, cmd, asked, contexts, made,
                 setbacks>>

\* What esp_ncp_zb_aps_data_indication_handler returns: whether the stack is to
\* leave the indication alone.
Consumed == apsq.ind # Closed

ApsReturn == /\ hand.op = "return" /\ hand' = Idle
             /\ UNCHANGED <<flags, channels, endpoints, network, cmd, asked, contexts,
                            apsq, made, given, setbacks>>

-----------------------------------------------------------------------------
ZbMain == Respond \/ PollEnds
ZbSignals == \/ SkipStartup \/ FormAlarm \/ Steering
             \/ \E ok \in BOOLEAN : Started(ok) \/ Formation(ok)
ZbCallback == \/ ZbSignals \/ ApsHandle \/ ApsReturn
              \/ \E r \in zdo : ZdoResult(r)
ZbCommand ==
  \/ FormNetwork \/ AddEndpoint \/ SetBind \/ ReadAttr
  \/ \E k \in ApsKinds : PollAps(k)
  \/ \E ok \in BOOLEAN :
       \/ NetworkInit(ok) \/ FindMatch(ok) \/ ApsDataRequest(ok)
       \/ \E a \in BOOLEAN : Start(ok, a)
       \/ \E m \in Masks : PrimaryChannelSet(m, ok) \/ ChannelSet(m, ok)

NcpZbNext == ZbMain \/ ZbCallback \/ ZbCommand \/ \E k \in ApsKinds : ApsEvent(k)

-----------------------------------------------------------------------------
\* The stack is asked for one commissioning at a time: none while an alarm
\* will ask for another.
OneCommissioning == formAlarm = IF bdb = "wait" THEN 1 ELSE 0

\* Of every request the network answers, the host gets the result under the
\* callback it gave with that request, if there was memory to keep it, and its
\* block is freed.  The blocks of a match that the stack refused and those of
\* the attributes to read are not.
OwnCallback ==
  /\ \A n \in DOMAIN result : result[n] \in {n, NoBlock}
  /\ \A r \in zdo : /\ r.n \notin DOMAIN result
                    /\ r.ctx # NoBlock => r.ctx \in DOMAIN heap /\ heap[r.ctx] = r.n
  /\ DOMAIN heap \cap DOMAIN result = {}

\* SUCCESS means that it is so: but for an endpoint before the start.
SuccessTrue == cmd.op \notin {"none", "poll"} /\ cmd.success =>
  /\ cmd.op = "init"    => flags.init
  /\ cmd.op = "start"   => bdb # "off"
  /\ cmd.op = "primary" => channels.kept = channels.stack
  /\ cmd.op \in {"bind", "match"} =>
       asked \in DOMAIN result \cup { r.n : r \in zdo }

\* What the host is told is true, and meant for what it asked.
NcpZbInv == OneCommissioning /\ OwnCallback /\ SuccessTrue

\* The host gets the confirms as confirms and the indications as indications,
\* each in the order they were made, whether it was notified or has polled;
\* and no indication that waits for its poll is taken by the stack as well.
ApsInOrder ==
  [][/\ \A k \in ApsKinds : given'[k] # given[k] =>
          given'[k][1] = k /\ given'[k][2] > given[k][2]
     /\ ApsReturn /\ hand.got = "queue" /\ hand.ev[1] = "ind" => Consumed]_zbCmdVars

\* A network is formed and announced to the host after every START that was
\* accepted, however often the stack fails on the way.
FormsTold == (bdb # "off") ~> (told.notified = 1 /\ told.formed = 1)
=============================================================================
