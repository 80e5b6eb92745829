------------------------------- MODULE NcpBus -------------------------------
(***************************************************************************)
(* The transport of components/esp-zigbee-ncp.  Bytes go through a stream  *)
(* buffer in each direction, their lengths through one event queue, and    *)
(* the two can part: the bus task and the Zigbee task send bytes first and *)
(* post the length afterwards, and the post may be refused.  The main task *)
(* takes the lengths one by one, reads so many bytes, and writes them to   *)
(* the UART or takes them for a request, which it answers by the same way. *)
(***************************************************************************)
EXTENDS Integers, Sequences, FiniteSets

CONSTANTS QueueLen,      \* NCP_EVENT_QUEUE_LEN
          BufSize,       \* NCP_BUS_RINGBUF_SIZE, in units
          Sizes,         \* units of an encoded frame to the host
          RequestSizes,  \* units of an encoded request
          Kinds,         \* what the host asks: a command with a handler, an
                         \* indication, an id whose handler is NULL, an
                         \* unknown id; or its frame is damaged
          MaxRequests,   \* bound: requests of the host
          MaxInds        \* bound: callbacks of the Zigbee stack

ASSUME NcpAssumption ==
  /\ {QueueLen, BufSize} \cup Sizes \cup RequestSizes \subseteq Nat \ {0}
  /\ Kinds \subseteq {"cmd", "poll", "null", "unknown", "bad"}
  /\ {MaxRequests, MaxInds} \subseteq Nat

VARIABLES rx,         \* whole frames in the UART driver's ring
          output_buf, \* units from the host
          input_buf,  \* units to the host
          queue,      \* of events, NoQueue when deleted
          state,      \* of the bus: "START" or "STOP"
          aps,        \* s_aps_data_indication, NoQueue until the first poll
          pc,         \* of the tasks "main", "zb" and "bus"
          frame,      \* the frame a task is putting into input_buf
          event,      \* the event the main task is processing
          tx,         \* history: the units written to the UART
          log,        \* history: requests read, handled; indications made
          refused     \* history: why events or units were refused: a queue or
                      \* buffer was "full", the main task had ended and
                      \* was "down"

vars == <<rx, output_buf, input_buf, queue, state, aps, pc, frame, event, tx,
          log, refused>>

NoQueue == << [deleted |-> TRUE] >>     \* not a queue: no event is like its element
NoFrame == [kind |-> "none", n |-> 0, re |-> 0, size |-> 0]

\* The n-th of its kind; an answer says to which request.
Frame(kind, n, re, size) == [kind |-> kind, n |-> n, re |-> re, size |-> size]
Units(f)     == [i \in 1..f.size |-> <<f, i>>]
Least(a, b)  == IF a < b THEN a ELSE b
Take(s, n)   == SubSeq(s, 1, Least(n, Len(s)))
Drop(s, n)   == SubSeq(s, Least(n, Len(s)) + 1, Len(s))
Space(buf)   == BufSize - Len(buf)
At(t, p)     == pc[t] = p
Goto(t, p)   == pc' = [pc EXCEPT ![t] = p]

Init == /\ rx = <<>> /\ output_buf = <<>> /\ input_buf = <<>>
        /\ queue = <<>> /\ state = "START" /\ aps = NoQueue
        /\ pc = [main |-> "wait", zb |-> "wait", bus |-> "wait"]
        /\ frame = [main |-> NoFrame, zb |-> NoFrame]
        /\ event = [event |-> "none", size |-> 0]
        /\ tx = <<>>
        /\ log = [sent |-> 0, read |-> <<>>, handled |-> <<>>, inds |-> 0]
        /\ refused = {}

-----------------------------------------------------------------------------
\* ncp_event of esp_ncp_bus_input.
EventOf(f) == [event |-> "INPUT", size |-> f.size]

\* esp_ncp_send_event: run is set before the first event and stays.
Accepts == queue # NoQueue /\ Len(queue) < QueueLen
Why     == IF queue # NoQueue THEN "full" ELSE "down"
Refuse(no, why) == refused' = IF no THEN refused \cup {why} ELSE refused
SendEvent(e, cut) ==
  /\ queue' = IF Accepts THEN Append(queue, e) ELSE queue
  /\ refused' = refused \cup (IF Accepts THEN {} ELSE {Why})
                         \cup (IF cut THEN {"full"} ELSE {})

-----------------------------------------------------------------------------
(* The host and the bus task. *)

HostSends(k, size) ==
  /\ log.sent < MaxRequests
  /\ log' = [log EXCEPT !.sent = @ + 1]
  /\ rx' = Append(rx, Frame(k, log.sent + 1, 0, size))
  /\ UNCHANGED <<output_buf, input_buf, queue, state, aps, pc, frame, event,
                 tx, refused>>

\* UART_FIFO_OVF or UART_BUFFER_FULL: the driver's ring is flushed.
BusFlush == /\ At("bus", "wait") /\ rx # <<>> /\ rx' = <<>>
            /\ UNCHANGED <<output_buf, input_buf, queue, state, aps, pc, frame,
                           event, tx, log, refused>>

\* One frame is moved; what does not fit is lost.
Move(f) == /\ output_buf' = output_buf \o Take(Units(f), Space(output_buf))
           /\ log' = [log EXCEPT !.read = Append(@, f)]
           /\ rx' = Tail(rx)

\* UART_PATTERN_DET, the event's post, and the loop's condition.  The bus task
\* alone sends to output_buf, and it is read only for an event: one step.
BusRead ==
  /\ At("bus", "wait") /\ rx # <<>>
  /\ Move(Head(rx))
  /\ SendEvent([event |-> "OUTPUT", size |-> Head(rx).size],
               Space(output_buf) < Head(rx).size)
  /\ Goto("bus", IF state = "START" THEN "wait" ELSE "done")
  /\ UNCHANGED <<input_buf, state, aps, frame, event, tx>>

-----------------------------------------------------------------------------
(* esp_ncp_bus_input, which the main task and the Zigbee task call. *)

Producers == {"main", "zb"}
\* What esp_ncp_bus_input returns; the Zigbee stack's callbacks ignore it.
Return(t, result) == Goto(t, IF t = "zb" THEN "wait" ELSE result)

\* The loop for NCP_BUS_RINGBUF_TIMEOUT_MS: there may be space at its end and
\* the count used up all the same.
CheckSpace(t) ==
  /\ At(t, "check")
  /\ Goto(t, IF Space(input_buf) >= frame[t].size THEN "append" ELSE "retry")
  /\ UNCHANGED <<rx, output_buf, input_buf, queue, state, aps, frame, event, tx,
                 log, refused>>

RetrySpace(t) ==
  /\ At(t, "retry")
  /\ \/ Space(input_buf) >= frame[t].size /\ Goto(t, "append")
        /\ UNCHANGED refused
     \/ Return(t, "failed") /\ Refuse(TRUE, "full")
  /\ UNCHANGED <<rx, output_buf, input_buf, queue, state, aps, frame, event, tx,
                 log>>

\* xStreamBufferSend under input_sem: it takes as much as fits.
AppendUnits(t) ==
  /\ At(t, "append")
  /\ input_buf' = input_buf \o Take(Units(frame[t]), Space(input_buf))
  /\ LET fits == Space(input_buf) >= frame[t].size IN
       /\ Refuse(~fits, "full")
       /\ IF fits THEN Goto(t, "post") ELSE Return(t, "failed")
  /\ UNCHANGED <<rx, output_buf, queue, state, aps, frame, event, tx, log>>

\* After the semaphore was given.
PostInput(t) ==
  /\ At(t, "post") /\ t \in Producers
  /\ SendEvent(EventOf(frame[t]), FALSE)
  /\ Return(t, IF Accepts THEN "sent" ELSE "failed")
  /\ UNCHANGED <<rx, output_buf, input_buf, state, aps, frame, event, tx, log>>

-----------------------------------------------------------------------------
(* The Zigbee task: callbacks of the stack. *)

\* esp_ncp_zb_aps_data_handle: once the host has polled, indications wait for
\* its next poll, and one that finds the queue full is lost.
Indicate(size) ==
  /\ At("zb", "wait") /\ log.inds < MaxInds
  /\ log' = [log EXCEPT !.inds = @ + 1]
  /\ LET f == Frame("ind", log.inds + 1, 0, size) IN
     CASE aps = NoQueue ->
            /\ frame' = [frame EXCEPT !.zb = f] /\ Goto("zb", "check")
            /\ UNCHANGED <<aps, refused>>
       [] aps # NoQueue /\ Len(aps) < QueueLen ->
            aps' = Append(aps, f) /\ UNCHANGED <<frame, pc, refused>>
       [] OTHER -> Refuse(TRUE, "full") /\ UNCHANGED <<aps, frame, pc>>
  /\ UNCHANGED <<rx, output_buf, input_buf, queue, state, event, tx>>

\* esp_zb_app_signal_handler, esp_ncp_zb_action_handler and the other
\* callbacks: always a notification.
Notify(size) ==
  /\ At("zb", "wait") /\ log.inds < MaxInds
  /\ log' = [log EXCEPT !.inds = @ + 1]
  /\ frame' = [frame EXCEPT !.zb = Frame("noti", log.inds + 1, 0, size)]
  /\ Goto("zb", "check")
  /\ UNCHANGED <<rx, output_buf, input_buf, queue, state, aps, event, tx, refused>>

-----------------------------------------------------------------------------
(* The main task. *)

\* The loop goes on, or it ends, and with it the bus and the queue.
Loop(ok) == IF ok
            THEN Goto("main", "wait") /\ UNCHANGED <<queue, state>>
            ELSE queue' = NoQueue /\ state' = "STOP" /\ Goto("main", "done")

TakeEvent == /\ At("main", "wait") /\ queue # <<>>
             /\ event' = Head(queue) /\ queue' = Tail(queue)
             /\ Goto("main", "process")
             /\ UNCHANGED <<rx, output_buf, input_buf, state, aps, frame, tx,
                            log, refused>>

\* NCP_EVENT_INPUT: too few units are thrown away.
ProcessInput ==
  /\ At("main", "process") /\ event.event = "INPUT"
  /\ input_buf' = Drop(input_buf, event.size)
  /\ tx' = IF Len(input_buf) < event.size THEN tx
           ELSE tx \o Take(input_buf, event.size)
  /\ Loop(TRUE)
  /\ UNCHANGED <<rx, output_buf, aps, frame, event, log, refused>>

\* The request that a run of units is; no run but a whole frame has its CRC.
IsFrame(s) == s # <<>> /\ s = Units(s[1][1])
Request(s) == IF IsFrame(s) THEN s[1][1] ELSE NoFrame

\* Who gets an answer, and which: the request's own, or the error response of
\* esp_ncp_frame_output.
Answer(kind, r, size) ==
  /\ frame' = [frame EXCEPT !.main = Frame(kind, 0, r.n, size)]
  /\ Goto("main", "check") /\ UNCHANGED <<queue, state>>

\* Mutant: esp_ncp_zb_output lets an unknown id pass for an error.
HandleUnknownFails(r, size) ==
  \/ r.kind = "cmd" /\ \E k \in {"resp", "err"} : Answer(k, r, size)
  \/ r.kind \in {"null", "bad", "none", "unknown"} /\ Answer("err", r, size)
  \/ r.kind = "poll" /\ Goto("main", "poll") /\ UNCHANGED <<frame, queue, state>>

\* esp_ncp_frame_output, esp_ncp_zb_output: a handler may fail; an unknown id
\* is not answered.
Handle(r, size) ==
  \/ r.kind = "cmd" /\ \E k \in {"resp", "err"} : Answer(k, r, size)
  \/ r.kind \in {"null", "bad", "none"} /\ Answer("err", r, size)
  \/ r.kind = "unknown" /\ Loop(TRUE) /\ UNCHANGED frame
  \/ r.kind = "poll" /\ Goto("main", "poll") /\ UNCHANGED <<frame, queue, state>>

\* NCP_EVENT_OUTPUT: too few units are thrown away here, too.
ProcessOutput(size) ==
  /\ At("main", "process") /\ event.event = "OUTPUT"
  /\ output_buf' = Drop(output_buf, event.size)
  /\ IF Len(output_buf) < event.size
     THEN Loop(TRUE) /\ UNCHANGED <<frame, log, aps>>
     ELSE LET r == Request(Take(output_buf, event.size)) IN
            /\ log' = [log EXCEPT !.handled = Append(@, r)]
            /\ Handle(r, size)
            /\ aps' = IF r.kind = "poll" /\ aps = NoQueue THEN <<>> ELSE aps
  /\ UNCHANGED <<rx, input_buf, event, tx, refused>>

Current == log.handled[Len(log.handled)].n

\* esp_ncp_zb_aps_data_indication_fn: it waits for an indication for a while
\* and says otherwise that it is connected.
Poll(size) ==
  /\ At("main", "poll")
  /\ \/ /\ aps # <<>> /\ aps' = Tail(aps)
        /\ frame' = [frame EXCEPT !.main = [Head(aps) EXCEPT !.re = Current]]
     \/ /\ aps = <<>> /\ UNCHANGED aps
        /\ frame' = [frame EXCEPT !.main = Frame("resp", 0, Current, size)]
  /\ Goto("main", "check")
  /\ UNCHANGED <<rx, output_buf, input_buf, queue, state, event, tx, log, refused>>

\* An error response that could not be sent ends the loop; an answer that
\* could not is forgotten.
MainReturns ==
  /\ pc["main"] \in {"sent", "failed"}
  /\ frame' = [frame EXCEPT !.main = NoFrame]
  /\ Loop(~(At("main", "failed") /\ frame["main"].kind = "err"))
  /\ UNCHANGED <<rx, output_buf, input_buf, aps, event, tx, log, refused>>

-----------------------------------------------------------------------------
\* esp_ncp_bus_input as called by t.
Input(t) == CheckSpace(t) \/ RetrySpace(t) \/ AppendUnits(t) \/ PostInput(t)
Main == \/ TakeEvent \/ ProcessInput \/ MainReturns \/ Input("main")
        \/ \E s \in Sizes : ProcessOutput(s) \/ Poll(s)
Zb   == Input("zb")
Next == \/ Main \/ Zb \/ BusRead \/ BusFlush
        \/ \E s \in Sizes : Indicate(s) \/ Notify(s)
        \/ \E k \in Kinds, s \in RequestSizes : HostSends(k, s)

Spec == Init /\ [][Next]_vars
\* The tasks run; the host, the stack and the driver's faults need not.
FairSpec == Spec /\ WF_vars(Main) /\ WF_vars(Zb) /\ WF_vars(BusRead)

-----------------------------------------------------------------------------
Tasks == {"main", "zb", "bus"}
\* Where a frame begins on the wire.
Firsts == { k \in DOMAIN tx : tx[k][2] = 1 }
IsPrefixOf(s, t) == Len(s) <= Len(t) /\ s = SubSeq(t, 1, Len(s))

\* The tasks stay at the steps of their code, and no buffer exceeds its size.
NcpTypeOK ==
  /\ Len(output_buf) <= BufSize /\ Len(input_buf) <= BufSize
  /\ queue = NoQueue \/ Len(queue) <= QueueLen
  /\ aps = NoQueue \/ Len(aps) <= QueueLen
  /\ state \in {"START", "STOP"} /\ refused \subseteq {"full", "down"}
  /\ pc.main \in {"wait", "process", "poll", "check", "retry", "append",
                  "post", "sent", "failed", "done"}
  /\ pc.zb \in {"wait", "check", "retry", "append", "post"}
  /\ pc.bus \in {"wait", "done"}

\* Although two tasks append their units and post their lengths in either
\* order, what goes over the UART is one whole frame after the other.
WireWhole == refused = {} => \A k \in DOMAIN tx :
  LET before == IF k = 1 THEN <<NoFrame, 0>> ELSE tx[k - 1]
  IN  IF tx[k][2] = 1 THEN before[2] = before[1].size
      ELSE before = <<tx[k][1], tx[k][2] - 1>>

\* The requests are handled as they were read, in their order and whole, and
\* answered in that order: when an answer begins, those of the earlier requests,
\* and no others, have gone.  Those of an unknown id are not answered.
AnswersInOrder == refused = {} =>
  LET asked == { i \in DOMAIN log.handled : log.handled[i].kind # "unknown" }
      given == { k \in Firsts : tx[k][1].re # 0 }
      Answers(k, i) == tx[k][1].re = log.handled[i].n
  IN  /\ IsPrefixOf(log.handled, log.read)
      /\ \A k \in given : \E i \in asked :
           /\ Answers(k, i)
           /\ \A h \in asked : h < i <=> \E j \in given : j < k /\ Answers(j, h)

\* The host sees the indications in the order the stack made them, whether
\* they were sent at once or waited for a poll.
IndicationsInOrder ==
  \A j, k \in { k \in Firsts : tx[k][1].kind = "ind" } :
    j < k => tx[j][1].n < tx[k][1].n

\* As long as nothing is refused every request that was read is answered:
\* no task waits for another for ever.
Answered == \A n \in 1..MaxRequests :
  (\E i \in DOMAIN log.read : log.read[i].n = n /\ log.read[i].kind # "unknown")
    ~> (refused # {} \/ \E k \in DOMAIN tx : tx[k][1].re = n)

\* When all is quiet no unit is left without its event.
Quiet == /\ queue = <<>> /\ pc.main = "wait" /\ pc.zb = "wait"
NothingLeft == refused = {} /\ Quiet => input_buf = <<>> /\ output_buf = <<>>

\* As long as nothing is refused, the units in the two buffers and the events
\* in the queue belong together: whole frames on the wire, nothing left over.
NcpInv == NcpTypeOK /\ WireWhole /\ NothingLeft
=============================================================================
