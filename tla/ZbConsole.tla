----------------------------- MODULE ZbConsole -----------------------------
(***************************************************************************)
(* components/esp-zigbee-console: the REPL task enters a command, runs its *)
(* handler under the Zigbee lock, and waits for a task notification when   *)
(* the handler says ESP_ERR_NOT_FINISHED.  The notification comes from a   *)
(* callback that the Zigbee task makes, under the same lock: of the stack, *)
(* of the network, or of an alarm.  A command's handler and a callback are *)
(* therefore one step each; what can go wrong lies between the steps.      *)
(***************************************************************************)
EXTENDS Integers, ZbDataModel

CONSTANTS Duration,      \* of an iperf test, in messages
          MaxCommands,   \* bound: commands entered
          MaxPages,      \* bound: further pages of a remote table
          MaxAnswers,    \* bound: devices that answer a match request
          MaxStarts      \* bound: pings and tests of peers

ASSUME ConsoleAssumption ==
  /\ {Duration, MaxAnswers} \subseteq Nat \ {0}
  /\ {MaxCommands, MaxPages, MaxStarts} \subseteq Nat

VARIABLES repl,      \* the REPL task: waiting for its command, or idle
          notified,  \* its task notification, and whose callback set it
          requests,  \* what the stack has still to answer
          ctx,       \* commands whose malloc'ed req is not freed
          confirm,   \* the APS data confirm handler is registered
          status,    \* the send status handler: NULL, or of "ping" or "iperf"
          due,       \* ZCL commands sent whose status is still to come
          ping,      \* ping_ctx
          iperf,     \* iperf_ctx
          alarms,    \* alarms set: ping_timeout_handler, do_iperf
          starts,    \* pings and tests that peers have started
          stray      \* history: a match request was answered a second time

asyncVars == <<notified, requests, ctx, confirm, status, due, ping, iperf,
               alarms, starts, stray>>
vars == <<repl, asyncVars, dmVars>>

NULL   == [result |-> "none", by |-> 0]
NoPing(broadcast) == [in_progress |-> FALSE, broadcast |-> broadcast, cb |-> 0]
NoIperf(elapsed)  == [in_progress |-> FALSE, message |-> FALSE, cb |-> 0,
                      elapsed |-> elapsed]

Init == /\ repl = [pc |-> "idle", cmd |-> 0]
        /\ notified = NULL /\ requests = {} /\ ctx = {} /\ confirm = FALSE
        /\ status = "none" /\ due = 0 /\ ping = NoPing(FALSE) /\ iperf = NoIperf(0)
        /\ alarms = {} /\ starts = 0 /\ stray = FALSE
        /\ DmInit

-----------------------------------------------------------------------------
(* The REPL: esp_zb_console_cmd_handler.                                   *)

This == repl.cmd + 1            \* the command that is entered
Entered == repl.pc = "idle" /\ repl.cmd < MaxCommands
\* ESP_ERR_NOT_FINISHED, or a result at once.
NotFinished == Entered /\ repl' = [pc |-> "wait", cmd |-> This]
Finished    == Entered /\ repl' = [pc |-> "idle", cmd |-> This]

\* esp_zb_console_wait_result.
WaitResult == /\ repl.pc = "wait" /\ notified # NULL
              /\ repl' = [repl EXCEPT !.pc = "idle"]
              /\ notified' = NULL
              /\ UNCHANGED <<requests, ctx, confirm, status, due, ping, iperf,
                             alarms, starts, stray, dmVars>>

\* esp_zb_console_notify_result: eSetValueWithOverwrite.
Notify(result, by) == notified' = [result |-> result, by |-> by]

Request(kind, left) == requests' = requests \cup
                         {[by |-> This, kind |-> kind, left |-> left]}

\* A request to the stack, with a req from the heap as its context.
Asks(kind, left) ==
  /\ NotFinished /\ Request(kind, left) /\ ctx' = ctx \cup {This}
  /\ UNCHANGED <<notified, confirm, status, due, ping, iperf, alarms, starts, stray, dmVars>>

\* A command that ends by an error and does not free its req.
Leaks ==
  /\ Finished /\ ctx' = ctx \cup {This}
  /\ UNCHANGED <<notified, requests, confirm, status, due, ping, iperf, alarms,
                 starts, stray, dmVars>>

\* "zdo request" for a descriptor, the active endpoints or an address.
ZdoRequest == Asks("zdo", 0)

\* "zdo request neighbors" and "zdo request bindings".
TableRequest == Asks("table", MaxPages)

\* Mutant: what "zdo request" does not know it waits for, too.
RequestUnknownWaits ==
  /\ NotFinished /\ UNCHANGED <<asyncVars, dmVars>>

\* "zdo request routes" and unknown ones: NOT_SUPPORTED, NOT_FOUND.
RequestUnknown ==
  /\ Finished /\ UNCHANGED <<asyncVars, dmVars>>

NwkOpen  == Asks("zdo", 0)
NwkLeave == Asks("zdo", 0)

\* "zdo bind" and "zdo unbind": not without dst-ep or for an unknown address.
Bind == Asks("zdo", 0) \/ Leaks

MatchRequest == Asks("match", MaxAnswers - 1) \/ Leaks

\* "network scan" and "network ed_scan".
ScanRequest ==
  /\ NotFinished /\ Request("scan", 0)
  /\ UNCHANGED <<notified, ctx, confirm, status, due, ping, iperf, alarms,
                 starts, stray, dmVars>>

\* "aps send_raw": the handler is registered after the request was made.
ApsSendRaw ==
  /\ \/ NotFinished /\ Request("aps", 0) /\ confirm' = TRUE
     \/ Finished /\ UNCHANGED <<requests, confirm>>     \* esp_zb_aps_data_request
  /\ UNCHANGED <<notified, ctx, status, due, ping, iperf, alarms, starts, stray, dmVars>>

-----------------------------------------------------------------------------
(* What the stack answers. *)

Answered(r) == requests' = requests \ {r}
\* Asked again for the rest, or another device answers.
Again(r)    == requests' = (requests \ {r}) \cup {[r EXCEPT !.left = @ - 1]}
Done(r)     == Notify("ok", r.by) /\ ctx' = ctx \ {r.by}

ZdoAnswer(r) ==
  /\ r.kind = "zdo" /\ Answered(r) /\ Done(r)
  /\ UNCHANGED <<repl, confirm, status, due, ping, iperf, alarms, starts, stray, dmVars>>

\* Mutant: done is not set to false for the entries that are unreported.
TableAnswerDone(r) ==
  /\ r.kind = "table" /\ Done(r)
  /\ \/ r.left > 0 /\ Again(r)
     \/ Answered(r)
  /\ UNCHANGED <<repl, confirm, status, due, ping, iperf, alarms, starts, stray, dmVars>>

\* cli_zdo_neighbor_table_cb and cli_zdo_binding_table_cb.
TableAnswer(r) ==
  /\ r.kind = "table"
  /\ \/ r.left > 0 /\ Again(r) /\ UNCHANGED <<notified, ctx>>
     \/ Answered(r) /\ Done(r)
  /\ UNCHANGED <<repl, confirm, status, due, ping, iperf, alarms, starts, stray, dmVars>>

\* cli_zdo_match_desc_cb: for every device that answers.
MatchAnswer(r) ==
  /\ r.kind = "match" /\ Done(r)
  /\ stray' = (stray \/ r.by \notin ctx)
  /\ \/ r.left > 0 /\ Again(r)
     \/ Answered(r)
  /\ UNCHANGED <<repl, confirm, status, due, ping, iperf, alarms, starts, dmVars>>

ScanAnswer(r) ==
  /\ r.kind = "scan" /\ Answered(r)
  /\ \E result \in {"ok", "fail"} : Notify(result, r.by)
  /\ UNCHANGED <<repl, ctx, confirm, status, due, ping, iperf, alarms, starts, stray, dmVars>>

\* zb_apsde_data_confirm_handler, when it is registered.
ApsConfirm(r) ==
  /\ r.kind = "aps" /\ Answered(r)
  /\ IF confirm THEN \E result \in {"ok", "fail"} : Notify(result, r.by)
                ELSE UNCHANGED notified
  /\ confirm' = FALSE
  /\ UNCHANGED <<repl, ctx, status, due, ping, iperf, alarms, starts, stray, dmVars>>

-----------------------------------------------------------------------------
(* ping_iperf_test.c: ping.                                                *)

\* finish_ping, which calls cli_ping_finish_callback once.
FinishPing(result) ==
  /\ ping' = NoPing(ping.broadcast)
  /\ IF ping.cb # 0 THEN Notify(result, ping.cb) ELSE UNCHANGED notified

\* esp_zb_ping_iperf_test_cluster_ping_req.
Ping(broadcast) ==
  /\ IF ping.in_progress
     THEN Finished /\ UNCHANGED <<status, due, ping, alarms>>
     ELSE /\ NotFinished
          /\ ping' = [in_progress |-> TRUE, broadcast |-> broadcast, cb |-> This]
          /\ status' = "ping" /\ due' = due + 1
          /\ alarms' = alarms \cup {"ping"}
  /\ UNCHANGED <<notified, requests, ctx, confirm, iperf, starts, stray, dmVars>>

\* Mutant: finish_ping alone, the alarm stays.
PingResponseOnly ==
  /\ ping.in_progress /\ ~ping.broadcast
  /\ FinishPing("ok")
  /\ UNCHANGED <<repl, requests, ctx, confirm, status, due, iperf, alarms, starts, stray,
                 dmVars>>

\* An echo with the tsn of the ping in progress; all others are ignored, and
\* those of a broadcast are only printed.
PingResponse ==
  /\ ping.in_progress /\ ~ping.broadcast
  /\ alarms' = alarms \ {"ping"} /\ FinishPing("ok")
  /\ UNCHANGED <<repl, requests, ctx, confirm, status, due, iperf, starts, stray, dmVars>>

PingTimeout ==
  /\ "ping" \in alarms /\ alarms' = alarms \ {"ping"}
  /\ status' = "none"
  /\ FinishPing(IF ping.broadcast THEN "ok" ELSE "fail")
  /\ UNCHANGED <<repl, requests, ctx, confirm, due, iperf, starts, stray, dmVars>>

\* The handler that is registered when the status comes is called, for
\* whichever command was sent; that of ping unregisters itself.
SendStatus(ok) ==
  /\ due > 0 /\ due' = due - 1
  /\ status' = IF status = "ping" THEN "none" ELSE status
  /\ IF status = "ping" /\ ~ok
     THEN alarms' = alarms \ {"ping"} /\ FinishPing("fail")
     ELSE UNCHANGED <<alarms, ping, notified>>
  /\ UNCHANGED <<repl, requests, ctx, confirm, iperf, starts, stray, dmVars>>

-----------------------------------------------------------------------------
(* ping_iperf_test.c: iperf. *)

\* do_iperf while there is time left: a message, and the next alarm.
IperfSends(cb, elapsed) ==
  /\ due' = due + 1
  /\ alarms' = alarms \cup {"iperf"}
  /\ iperf' = [in_progress |-> TRUE, message |-> TRUE, cb |-> cb,
               elapsed |-> elapsed]

\* esp_zb_ping_iperf_test_cluster_iperf_req: it fails when there is no such
\* cluster, and when its payload is empty, with the handler registered.
IperfStart ==
  /\ IF iperf.in_progress
     THEN Finished /\ UNCHANGED <<status, due, iperf, alarms>>
     ELSE \/ Finished /\ UNCHANGED <<status, due, iperf, alarms>>
          \/ /\ Finished /\ status' = "iperf"
             /\ iperf' = [in_progress |-> FALSE, message |-> iperf.message,
                         cb |-> This, elapsed |-> 0]
             /\ UNCHANGED <<due, alarms>>
          \/ NotFinished /\ status' = "iperf" /\ IperfSends(This, 1)
  /\ UNCHANGED <<notified, requests, ctx, confirm, ping, starts, stray, dmVars>>

\* Mutant: the alarm is set again before the time is compared.
DoIperfArmed ==
  /\ "iperf" \in alarms
  /\ IF iperf.elapsed < Duration
     THEN IperfSends(iperf.cb, iperf.elapsed + 1) /\ UNCHANGED notified
     ELSE /\ iperf' = NoIperf(iperf.elapsed)
          /\ IF iperf.cb # 0 THEN Notify("ok", iperf.cb) ELSE UNCHANGED notified
          /\ UNCHANGED <<due, alarms>>
  /\ UNCHANGED <<repl, requests, ctx, confirm, status, ping, starts, stray, dmVars>>

\* do_iperf, as the alarm calls it.
DoIperf ==
  /\ "iperf" \in alarms
  /\ IF iperf.elapsed < Duration
     THEN IperfSends(iperf.cb, iperf.elapsed + 1) /\ UNCHANGED notified
     ELSE /\ iperf' = NoIperf(iperf.elapsed)
          /\ alarms' = alarms \ {"iperf"}
          /\ IF iperf.cb # 0 THEN Notify("ok", iperf.cb) ELSE UNCHANGED notified
          /\ UNCHANGED due
  /\ UNCHANGED <<repl, requests, ctx, confirm, status, ping, starts, stray, dmVars>>

\* An echo request of a peer is answered with a command of its own.
PeerPings ==
  /\ starts < MaxStarts /\ starts' = starts + 1
  /\ due' = due + 1
  /\ UNCHANGED <<repl, notified, requests, ctx, confirm, status, ping, iperf, alarms,
                 stray, dmVars>>

\* IPERF_START of a peer: client and server share iperf_start_time.
PeerStarts ==
  /\ starts < MaxStarts /\ starts' = starts + 1
  /\ iperf' = [iperf EXCEPT !.elapsed = 0]
  /\ UNCHANGED <<repl, notified, requests, ctx, confirm, status, due, ping, alarms,
                 stray, dmVars>>

\* esp_zb_ping_iperf_get_iperf_result: the handler is unregistered if there is
\* such an attribute.
IperfResult ==
  /\ Finished /\ status' \in {status, "none"}
  /\ UNCHANGED <<notified, requests, ctx, confirm, due, ping, iperf, alarms, starts, stray,
                 dmVars>>

-----------------------------------------------------------------------------
\* The commands of the data model and the stack end at once.
DmCommand == Finished /\ DmNext /\ UNCHANGED asyncVars

\* "reboot" and "factoryreset", under the lock: nothing of RAM is left.
Reboot == /\ Finished
          /\ notified' = NULL /\ requests' = {} /\ ctx' = {} /\ confirm' = FALSE
          /\ status' = "none" /\ due' = 0 /\ ping' = NoPing(FALSE) /\ iperf' = NoIperf(0)
          /\ alarms' = {} /\ UNCHANGED <<starts, stray>>
          /\ DmReset

Command == \/ ZdoRequest \/ TableRequest \/ RequestUnknown \/ NwkOpen \/ NwkLeave
           \/ Bind \/ MatchRequest \/ ScanRequest \/ ApsSendRaw
           \/ \E b \in BOOLEAN : Ping(b)
           \/ IperfStart \/ IperfResult \/ DmCommand \/ Reboot
Answer  == \E r \in requests : \/ ZdoAnswer(r) \/ TableAnswer(r) \/ MatchAnswer(r)
                               \/ ScanAnswer(r) \/ ApsConfirm(r)
Alarm   == PingTimeout \/ DoIperf
Next    == \/ Command \/ WaitResult \/ Answer \/ Alarm \/ PingResponse
           \/ PeerPings \/ PeerStarts
           \/ \E ok \in BOOLEAN : SendStatus(ok)

Spec == Init /\ [][Next]_vars
\* The REPL task runs, the stack answers every request, if only with a
\* timeout, and alarms go off; the operator and the network need do nothing.
FairSpec == Spec /\ WF_vars(WaitResult) /\ WF_vars(Answer) /\ WF_vars(Alarm)

-----------------------------------------------------------------------------
Kinds == {"zdo", "table", "match", "scan", "aps"}

\* The variables stay in their types.
ConsoleTypeOK ==
  /\ repl \in [pc : {"idle", "wait"}, cmd : 0..MaxCommands]
  /\ notified = NULL \/ notified \in [result : {"ok", "fail"}, by : 1..MaxCommands]
  /\ requests \subseteq [by : 1..MaxCommands, kind : Kinds,
                         left : 0..(MaxPages + MaxAnswers)]
  /\ ctx \subseteq 1..MaxCommands /\ confirm \in BOOLEAN
  /\ status \in {"none", "ping", "iperf"} /\ due \in Nat
  /\ ping \in [in_progress : BOOLEAN, broadcast : BOOLEAN, cb : 0..MaxCommands]
  /\ iperf \in [in_progress : BOOLEAN, message : BOOLEAN, cb : 0..MaxCommands,
                elapsed : 0..Duration]
  /\ alarms \subseteq {"ping", "iperf"} /\ starts \in 0..MaxStarts
  /\ stray \in BOOLEAN
  /\ DmTypeOK

\* The result that a command reports was set by its own callback while it was
\* waiting: no notification of an earlier command is left for a later one.
\* (A match request breaks this when two devices answer it.)
OwnResult == ~stray /\ notified # NULL => repl.pc = "wait" /\ notified.by = repl.cmd

\* A request that the stack has still to answer finds its context allocated:
\* no callback uses or frees one that an earlier callback has freed.
ContextsLive == \A r \in requests : r.kind \in {"zdo", "table"} => r.by \in ctx

\* A ping is in progress exactly while its timeout is pending and its callback
\* set, a test exactly while do_iperf is due and its message allocated: no
\* alarm is left over to end the next ping, none finds the message freed, even
\* when the prompt came back too early and the next test was started at once.
AlarmsMatch ==
  /\ ping.in_progress <=> "ping" \in alarms
  /\ ping.in_progress <=> ping.cb # 0
  /\ iperf.in_progress <=> "iperf" \in alarms
  /\ iperf.in_progress <=> iperf.message

\* Types, and contexts that are live for every answer that is still to come.
ConsoleInv == ConsoleTypeOK /\ ContextsLive
=============================================================================
