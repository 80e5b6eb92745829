----------------------------- MODULE WebServer -----------------------------
(***************************************************************************)
(* The web server in front of the API of WebThread (esp_br_web.c): one     *)
(* httpd task receives the body of a request in pieces into a scratch      *)
(* buffer that all requests share, parses it, calls the API, and replies.  *)
(* cJSON objects are owned by hand on the way.                             *)
(***************************************************************************)
EXTENDS Integers, SequencesExt

CONSTANTS ScratchSize,   \* SCRATCH_BUFSIZE
          MaxHandled,    \* bound: requests
          MaxAddresses   \* bound: IP events

ASSUME ServerAssumption == /\ ScratchSize \in Nat /\ ScratchSize >= 4
                           /\ {MaxHandled, MaxAddresses} \subseteq Nat

VARIABLES server,    \* is_br_web_server_started, and with it the httpd task
          addresses, \* IP events so far
          handled,   \* requests so far
          at,        \* the httpd task, between the steps of a handler
          msg,       \* its request: the route, and the length of its body
          scratch,   \* s_server.data.scratch: who wrote each byte
          got,       \* cur_len
          json,      \* what httpd_request_convert2_json returned
          objs,      \* the cJSON roots that the handler owns
          left,      \* history: those that nobody owns any more
          outcome,   \* what the API has answered
          sent       \* the responses to this request

httpVars == <<server, addresses, handled, at, msg, scratch, got, json, objs,
              left, outcome, sent>>

Getters == {"get", "page", "scan", "dataset_get", "file"}
Puts    == {"state", "dataset", "dataset_text"}
Routes  == Getters \cup Puts \cup {"delete", "post"}

\* A byte: which request has written it, and which of its body it is.
Nul    == <<0, 0>>
Quote  == <<0, 1>>
Text   == msg.route = "dataset_text"
First  == IF Text THEN 1 ELSE 0
End    == First + msg.len
Total  == End + First
NoBody == [route |-> "get", len |-> 0]

HttpdInit ==
  /\ server = FALSE /\ addresses = 0 /\ handled = 0 /\ at = "idle" /\ msg = NoBody
  /\ scratch = [i \in 0..(ScratchSize - 1) |-> Nul] /\ got = 0 /\ json = "null"
  /\ objs = {} /\ left = {} /\ outcome = "none" /\ sent = <<>>

Goto(p)    == at' = p /\ UNCHANGED <<server, addresses, handled, msg>>
NotBody    == UNCHANGED <<scratch, got, json>>
Respond(r) == sent' = Append(sent, r)

\* handler_got_ip_event; httpd_start may fail, the next address tries again.
AddressComes ==
  /\ addresses < MaxAddresses /\ addresses' = addresses + 1
  /\ server' \in {server, TRUE}
  /\ NotBody /\ UNCHANGED <<handled, at, msg, objs, left, outcome, sent>>

\* A client's request.  A text body that fills the buffer is left out.
Accept(route, len) ==
  /\ server /\ at = "idle" /\ handled < MaxHandled /\ handled' = handled + 1
  /\ msg' = [route |-> route, len |-> len]
  /\ at' = IF route \in Puts \cup {"post"} THEN "convert" ELSE "call"
  /\ objs' = IF route \in {"dataset", "dataset_text", "dataset_get"}
             THEN {"request", "log"} ELSE {}
  /\ json' = "null" /\ outcome' = "none" /\ sent' = <<>>
  /\ UNCHANGED <<server, addresses, scratch, got, left>>

-----------------------------------------------------------------------------
(* httpd_request_convert2_json.                                            *)

\* The quotes around a text, and the check of the length.
ConvertBegins ==
  /\ at = "convert"
  /\ scratch' = IF Text THEN [scratch EXCEPT ![0] = Quote, ![Total - 1] = Quote]
                        ELSE scratch
  /\ IF Total >= ScratchSize
     THEN Respond("500") /\ Goto("call") /\ UNCHANGED got
     ELSE got' = First /\ Goto("recv") /\ UNCHANGED sent
  /\ UNCHANGED <<json, objs, left, outcome>>

\* httpd_req_recv: a piece of what is left of the body.
Piece ==
  /\ at = "recv"
  /\ \E n \in 1..(End - got) :
       /\ scratch' = [i \in DOMAIN scratch |->
                        IF i \in got..(got + n - 1) THEN <<handled, i - First>> ELSE scratch[i]]
       /\ got' = got + n
  /\ UNCHANGED <<server, addresses, handled, at, msg, json, objs, left, outcome, sent>>

\* The client stops, or the time for the rest of the body is over.
PieceFails ==
  /\ at = "recv" /\ got < End
  /\ Respond("500") /\ Goto("call")
  /\ NotBody /\ UNCHANGED <<objs, left, outcome>>

\* The text that cJSON_Parse sees in the buffer, and the text of the request.
Seen(buf)  == LET nul == CHOOSE n \in DOMAIN buf :
                           buf[n] = Nul /\ \A i \in 0..(n - 1) : buf[i] # Nul
              IN  [i \in 1..nul |-> buf[i - 1]]
Body       == [i \in 1..msg.len |-> <<handled, i - 1>>]
AsSent     == IF Text THEN <<Quote>> \o Body \o <<Quote>> ELSE Body

\* Mutant: the text is not terminated.
TerminatedBefore(buf) == [buf EXCEPT ![ScratchSize - 1] = Nul]

Terminated(buf) == [buf EXCEPT ![Total] = Nul]

\* The end of the text is marked, and it is parsed as what the client meant.
Parse ==
  /\ at = "recv" /\ got = End
  /\ scratch' = Terminated(scratch)
  /\ json' \in IF Seen(scratch') # AsSent THEN {"mixed"}
               ELSE IF AsSent = <<>> THEN {"null"}
               ELSE IF Text THEN {"null", "string"} ELSE {"null", "string", "object"}
  /\ objs' = IF json' = "null" THEN objs ELSE objs \cup {"body"}
  /\ Goto("call") /\ UNCHANGED <<got, left, outcome, sent>>

-----------------------------------------------------------------------------
(* The handlers: the API is called, ...                                    *)

\* ... and its object sent as it is ...
GetCalls ==
  /\ at = "call" /\ msg.route = "get"
  /\ objs' \in {{"response"}, {}}
  /\ Goto("send") /\ NotBody /\ UNCHANGED <<left, outcome, sent>>

\* ... or packed with an error and a message.
PageCalls ==
  /\ at = "call" /\ msg.route = "page"
  /\ objs' \in {{"error", "message"}, {"error", "message", "result"}}
  /\ Goto("pack") /\ NotBody /\ UNCHANGED <<left, outcome, sent>>

\* A scan that is refused forgets the array it has made.
ScanCalls ==
  /\ at = "call" /\ msg.route = "scan"
  /\ \/ objs' = {"error", "message", "result"} /\ UNCHANGED left
     \/ objs' = {"error", "message"} /\ left' = left \cup {<<"scan", "networks">>}
  /\ Goto("pack") /\ NotBody /\ UNCHANGED <<outcome, sent>>

\* Without an object the handler returns: a 500 was sent, or nothing is.
PostRefuses ==
  /\ at = "call" /\ msg.route = "post" /\ json = "null"
  /\ Goto("idle") /\ NotBody /\ UNCHANGED <<objs, left, outcome, sent>>

PostCalls ==
  /\ at = "call" /\ msg.route = "post" /\ json # "null"
  /\ outcome' \in {"ok", "error"}
  /\ objs' = objs \cup {"error", "message", "result"}
  /\ Goto("pack") /\ NotBody /\ UNCHANGED <<left, sent>>

\* pack_response: without a result the rest is deleted, and there is none.
Pack ==
  LET parts == {"error", "message", "result"}
  IN  /\ at = "pack"
      /\ objs' = (objs \ parts) \cup IF parts \subseteq objs THEN {"response"} ELSE {}
      /\ Goto("send") /\ NotBody /\ UNCHANGED <<left, outcome, sent>>

\* httpd_send_packet: nothing to send is a failure, without a response.
Send ==
  /\ at = "send"
  /\ IF "response" \in objs
     THEN \/ Respond(IF outcome = "error" THEN "failed" ELSE "200")
          \/ UNCHANGED sent
     ELSE UNCHANGED sent
  /\ Goto("exit") /\ NotBody /\ UNCHANGED <<objs, left, outcome>>

\* PUT of the state: only a string is passed on.
StateCalls ==
  /\ at = "call" /\ msg.route = "state"
  /\ outcome' \in IF json = "string" THEN {"ok", "400", "409", "500"} ELSE {"400"}
  /\ Goto("status") /\ NotBody /\ UNCHANGED <<objs, left, sent>>

DeleteCalls ==
  /\ at = "call" /\ msg.route = "delete"
  /\ outcome' \in {"ok", "409", "500"}
  /\ Goto("status") /\ NotBody /\ UNCHANGED <<objs, left, sent>>

DatasetReads ==
  /\ at = "call" /\ msg.route = "dataset_get"
  /\ \/ outcome' = "ok" /\ objs' = objs \cup {"response"}
     \/ outcome' = "204" /\ UNCHANGED objs
  /\ Goto("status") /\ NotBody /\ UNCHANGED <<left, sent>>

\* A dataset of the right type becomes part of the request.
DatasetRightType == json = IF Text THEN "string" ELSE "object"

DatasetCalls ==
  /\ at = "call" /\ msg.route \in {"dataset", "dataset_text"}
  /\ IF DatasetRightType
     THEN outcome' \in {"ok", "201", "400", "409", "500"} /\ objs' = objs \ {"body"}
     ELSE outcome' = "400" /\ UNCHANGED objs
  /\ Goto("status") /\ NotBody /\ UNCHANGED <<left, sent>>

\* A status line, with the response or with an empty body.
Status ==
  /\ at = "status"
  /\ \/ Respond(IF outcome = "ok" THEN "200" ELSE outcome)
     \/ UNCHANGED sent
  /\ Goto("exit") /\ NotBody /\ UNCHANGED <<objs, left, outcome>>

\* default_urls_get_handler: a file, an object that says 404, an error, or
\* nothing when the file cannot be opened.
Files ==
  /\ at = "call" /\ msg.route = "file"
  /\ \/ \E r \in {"200", "500"} : Respond(r)
     \/ UNCHANGED sent
  /\ Goto("idle") /\ NotBody /\ UNCHANGED <<objs, left, outcome>>

\* The deletions at a handler's exit.
Deleted == {"request", "response", "log"}
           \cup IF msg.route \in {"post", "state"} THEN {"body"} ELSE {}
Exit ==
  /\ at = "exit"
  /\ left' = left \cup {<<msg.route, o>> : o \in objs \ Deleted}
  /\ objs' = {}
  /\ Goto("idle") /\ NotBody /\ UNCHANGED <<outcome, sent>>

Converts == ConvertBegins \/ Piece \/ PieceFails \/ Parse
Handles  == \/ GetCalls \/ PageCalls \/ ScanCalls \/ PostRefuses \/ PostCalls \/ Pack
            \/ Send \/ StateCalls \/ DeleteCalls \/ DatasetReads \/ DatasetCalls
            \/ Status \/ Files \/ Exit
Accepts  == \/ \E route \in Getters \cup {"delete"} : Accept(route, 0)
            \/ \E len \in 0..ScratchSize :
                 \/ \E route \in {"post", "state", "dataset"} : Accept(route, len)
                 \/ len + 2 <= ScratchSize /\ Accept("dataset_text", len)

HttpdNext == AddressComes \/ Accepts \/ Converts \/ Handles

-----------------------------------------------------------------------------
HttpdTypeOK ==
  /\ server \in BOOLEAN /\ addresses \in 0..MaxAddresses /\ handled \in 0..MaxHandled
  /\ at \in {"idle", "convert", "recv", "call", "pack", "send", "status", "exit"}
  /\ msg \in [route : Routes, len : 0..ScratchSize]
  /\ got \in 0..(ScratchSize - 1)

\* What is parsed is the body of this request, whole and nothing else, however
\* it came in pieces and whatever longer body the buffer has held before.
ParsesBody == json # "mixed"

\* A request leaves no object behind but the two that the code forgets: a
\* dataset of the wrong type, and the list of a scan that was refused.
NothingForgotten ==
  /\ at = "idle" => objs = {}
  /\ left \subseteq {<<"dataset", "body">>, <<"dataset_text", "body">>, <<"scan", "networks">>}

\* A request that changes something and is answered with success was received
\* whole and carried out.
SuccessMeant ==
  at = "idle" /\ msg.route \in Puts \cup {"post", "delete"} /\ Len(sent) > 0
  /\ Last(sent) \in {"200", "201"} =>
       /\ outcome \in {"ok", "201"}
       /\ msg.route # "delete" => json # "null" /\ got = End

\* One response for a request, unless its body did not arrive: then two of the
\* handlers send a second one behind the 500.
OneResponse ==
  \/ Len(sent) <= 1
  \/ /\ Len(sent) = 2 /\ sent[1] = "500" /\ json = "null"
     /\ msg.route \in Puts

\* The types and all of these.
HttpdInv == HttpdTypeOK /\ ParsesBody /\ NothingForgotten /\ SuccessMeant /\ OneResponse
=============================================================================
