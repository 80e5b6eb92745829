----------------------------- MODULE WebThread -----------------------------
(***************************************************************************)
(* The web API of the border router (esp_br_web_api.c).  One server task   *)
(* answers one request after the other.  Most of them are one step under   *)
(* the OpenThread lock; a scan, a diagnostics request and a join with a    *)
(* PSKd wait while the OpenThread task calls back.                         *)
(***************************************************************************)
EXTENDS Integers, FiniteSets

CONSTANTS Datasets,      \* the networks that are formed, found or set
          AutoDataset,   \* what esp_openthread_auto_start(NULL) makes
          NoDataset,     \* none is stored
          MaxRequests,   \* bound: requests
          MaxFound,      \* bound: networks that a scan finds
          MaxResults     \* bound: nodes that answer a diagnostics request

ASSUME WebAssumption == /\ {MaxRequests, MaxFound, MaxResults} \subseteq Nat
                        /\ NoDataset \notin Datasets \cup {AutoDataset}

VARIABLES net,           \* the stack: interface up, Thread on, active dataset
          req,           \* where the server task is: idle, scan, pskd, joining, collect
          served,        \* requests begun
          discover,      \* the stack discovers for a scan
          found,         \* entries of s_networkList behind its head
          done,          \* s_discover_done_semaphore: NULL, taken, given
          joiner,        \* the stack's joiner runs
          join_state,    \* s_join_state
          asked,         \* results that may still come for diagnostics requests
          mutex,         \* s_diagnostic_semaphore: NULL, free, held, deleted
          handler,       \* the OpenThread task in diagnosticTlv_result_handler
          wanted,        \* history: the dataset that the user's last change left
          proved         \* history: a joiner has succeeded that no reply told of

webVars == <<net, req, served, discover, found, done, joiner, join_state, asked,
             mutex, handler, wanted, proved>>

\* What a restart resets: all but the dataset in the stack's settings.
WebReset(active) ==
  /\ net' = [ip6 |-> FALSE, thread |-> FALSE, active |-> active]
  /\ req' = "idle" /\ discover' = FALSE /\ found' = 0 /\ done' = "null"
  /\ joiner' = FALSE /\ join_state' = "none" /\ asked' = 0 /\ mutex' = "null"
  /\ handler' = "out" /\ proved' = FALSE

WebInit ==
  /\ net \in [ip6 : {FALSE}, thread : {FALSE}, active : {NoDataset} \cup Datasets]
  /\ req = "idle" /\ served = 0 /\ discover = FALSE /\ found = 0 /\ done = "null"
  /\ joiner = FALSE /\ join_state = "none" /\ asked = 0 /\ mutex = "null"
  /\ handler = "out" /\ wanted = net.active /\ proved = FALSE

Begins == req = "idle" /\ served < MaxRequests /\ served' = served + 1

-----------------------------------------------------------------------------
(* Requests that change the stack in one step.  A request is a sequence of *)
(* calls of the stack; the first that fails ends it, which leaves what the *)
(* ones before have made.                                                  *)

Up(s)      == [ip6 |-> TRUE, thread |-> s.thread, active |-> s.active]
\* The interface down stops Thread, too.
Down(s)    == [ip6 |-> FALSE, thread |-> FALSE, active |-> s.active]
Start(s)   == [ip6 |-> s.ip6, thread |-> TRUE, active |-> s.active]
Stop(s)    == [ip6 |-> s.ip6, thread |-> FALSE, active |-> s.active]
Sets(s, d) == [ip6 |-> s.ip6, thread |-> s.thread, active |-> d]

\* No call succeeds, or some first ones: states are what each one leaves.
Does(states) ==
  /\ net' \in {net} \cup states
  /\ wanted' = net'.active

Requests(states) ==
  /\ Begins /\ Does(states)
  /\ UNCHANGED <<req, discover, found, done, joiner, join_state, asked, mutex,
                 handler, proved>>

\* PUT /node/state.
state_put == \/ Requests(IF net.ip6 THEN {Start(net)} ELSE {Up(net), Start(Up(net))})
             \/ Requests({Stop(net), Down(net)})

\* PUT /node/dataset/active: a new network, or an update of the stored one.
set_dataset(d) == ~net.thread /\ Requests({Sets(net, d)})

\* DELETE /node.
delete_information == Requests({Stop(net), Down(net), Sets(Down(net), NoDataset)})

form_network(d) ==
  LET set == Sets(Down(net), d)
  IN  Requests({Stop(net), Down(net), set, Up(set), Start(Up(set))})

\* A join with the network key, of a network that the last scan has found.
join_network_key(d) ==
  LET set == Sets(Down(net), d)
  IN  found > 0 /\ Requests({Down(net), set, Up(set), Start(Up(set))})

-----------------------------------------------------------------------------
(* A scan. *)

\* The list is emptied; then otThreadDiscover, which may refuse.
Scan ==
  /\ Begins /\ found' = 0
  /\ done' = IF done = "null" THEN "taken" ELSE done
  /\ \/ discover' = TRUE /\ req' = "scan"
     \/ UNCHANGED <<discover, req>>
  /\ UNCHANGED <<net, joiner, join_state, asked, mutex, handler, wanted, proved>>

\* build_availableNetworks_list.
ScanFinds ==
  /\ discover /\ found < MaxFound /\ found' = found + 1
  /\ UNCHANGED <<net, req, served, discover, done, joiner, join_state, asked,
                 mutex, handler, wanted, proved>>

\* Mutant: a discovery that found nothing is not reported.
ScanEndsFound ==
  /\ discover /\ discover' = FALSE
  /\ done' = IF found > 0 THEN "given" ELSE done
  /\ UNCHANGED <<net, req, served, found, joiner, join_state, asked, mutex,
                 handler, wanted, proved>>

\* handle_active_scan_event without a result.
ScanEnds ==
  /\ discover /\ discover' = FALSE /\ done' = "given"
  /\ UNCHANGED <<net, req, served, found, joiner, join_state, asked, mutex,
                 handler, wanted, proved>>

ScanReplies ==
  /\ req = "scan" /\ done = "given" /\ done' = "taken" /\ req' = "idle"
  /\ UNCHANGED <<net, served, discover, found, joiner, join_state, asked, mutex,
                 handler, wanted, proved>>

-----------------------------------------------------------------------------
(* A join with a PSKd: its calls of the stack are not under the lock, and  *)
(* the release at its end finds the server task not holding it.            *)

\* Mutant: s_join_state is left as the last join has set it.
PskdBeginsStale ==
  /\ Begins
  /\ \/ Does({Down(net)}) /\ UNCHANGED req
     \/ net' = Up(Down(net)) /\ wanted' = net.active /\ req' = "pskd"
  /\ UNCHANGED <<join_state, discover, found, done, joiner, asked, mutex, handler, proved>>

PskdBegins ==
  /\ Begins
  /\ \/ Does({Down(net)}) /\ UNCHANGED <<req, join_state>>
     \/ /\ net' = Up(Down(net)) /\ wanted' = net.active
        /\ req' = "pskd" /\ join_state' = "failed"
  /\ UNCHANGED <<discover, found, done, joiner, asked, mutex, handler, proved>>

\* otJoinerStart, refused while a joiner or Thread runs.
PskdStarts ==
  /\ req = "pskd"
  /\ \/ ~joiner /\ ~net.thread /\ joiner' = TRUE /\ req' = "joining"
     \/ req' = "idle" /\ UNCHANGED joiner
  /\ UNCHANGED <<net, served, discover, found, done, join_state, asked, mutex,
                 handler, wanted, proved>>

\* join_network_handler, in time or after the request was answered.
JoinerEnds ==
  /\ joiner /\ joiner' = FALSE
  /\ \/ /\ join_state' = "none" /\ proved' = TRUE
        /\ \E d \in Datasets : net' = Sets(net, d) /\ wanted' = d
     \/ join_state' = "failed" /\ UNCHANGED <<net, wanted, proved>>
  /\ UNCHANGED <<req, served, discover, found, done, asked, mutex, handler>>

\* After two seconds: Thread starts if the state says that it has joined.
PskdReplies ==
  /\ req = "joining" /\ req' = "idle"
  /\ IF join_state = "none" THEN Does({Start(net)}) /\ proved' = FALSE
                            ELSE UNCHANGED <<net, wanted, proved>>
  /\ UNCHANGED <<served, discover, found, done, joiner, join_state, asked, mutex, handler>>

-----------------------------------------------------------------------------
(* A diagnostics request. *)

\* The set is destroyed and a mutex created; results are asked for.
Diagnostics ==
  /\ Begins /\ req' = "collect"
  /\ mutex' = IF mutex = "null" THEN "free" ELSE mutex
  /\ asked' \in asked..MaxResults
  /\ UNCHANGED <<net, discover, found, done, joiner, join_state, handler, wanted, proved>>

\* diagnosticTlv_result_handler looks at the mutex ...
Result ==
  /\ asked > 0 /\ handler = "out" /\ asked' = asked - 1
  /\ handler' = IF mutex = "null" THEN "out" ELSE "checked"
  /\ UNCHANGED <<net, req, served, discover, found, done, joiner, join_state,
                 mutex, wanted, proved>>

\* ... takes it ...
ResultTakes ==
  /\ handler = "checked" /\ mutex = "free" /\ mutex' = "held" /\ handler' = "in"
  /\ UNCHANGED <<net, req, served, discover, found, done, joiner, join_state,
                 asked, wanted, proved>>

\* ... and gives it back when the set is updated.
ResultGives ==
  /\ handler = "in" /\ mutex' = "free" /\ handler' = "out"
  /\ UNCHANGED <<net, req, served, discover, found, done, joiner, join_state,
                 asked, wanted, proved>>

\* Two seconds later the mutex is deleted and the set converted.  A result
\* that is handled by then is assumed to be done.
DiagnosticsReplies ==
  /\ req = "collect" /\ handler = "out" /\ mutex' = "null" /\ req' = "idle"
  /\ UNCHANGED <<net, served, discover, found, done, joiner, join_state, asked,
                 handler, wanted, proved>>

-----------------------------------------------------------------------------
\* Mutant: the datasets are mixed up: the stored one is not used.
AutoStartOwn == Start(Up(Sets(net, AutoDataset)))

\* esp_openthread_auto_start: the stored dataset, if there is one.
AutoStart == Start(Up(Sets(net, IF net.active = NoDataset THEN AutoDataset ELSE net.active)))

\* What needs the lock, and what does not.
OtTask == ScanFinds \/ ScanEnds \/ JoinerEnds \/ Result \/ ResultTakes \/ ResultGives
Locked == \/ state_put \/ delete_information \/ Scan \/ Diagnostics
          \/ \E d \in Datasets : set_dataset(d) \/ form_network(d) \/ join_network_key(d)
Unguarded == \/ PskdBegins \/ PskdStarts \/ PskdReplies \/ ScanReplies \/ DiagnosticsReplies

-----------------------------------------------------------------------------
\* The variables stay in their types.
WebTypeOK ==
  /\ net \in [ip6 : BOOLEAN, thread : BOOLEAN,
              active : Datasets \cup {AutoDataset, NoDataset}]
  /\ req \in {"idle", "scan", "pskd", "joining", "collect"} /\ served \in 0..MaxRequests
  /\ discover \in BOOLEAN /\ found \in 0..MaxFound /\ done \in {"null", "taken", "given"}
  /\ joiner \in BOOLEAN /\ join_state \in {"none", "failed"}
  /\ asked \in 0..MaxResults /\ mutex \in {"null", "free", "held"}
  /\ handler \in {"out", "checked", "in"}

\* The OpenThread task adds to the list of networks, and ends the wait for
\* it, only while the request that emptied the list waits for it.
ListOwned == discover => req = "scan" /\ done = "taken"

\* The OpenThread task is about the set of diagnostics only while a request
\* collects it, with a mutex that exists: results that come later are dropped.
CollectsOnly == handler # "out" => req = "collect" /\ mutex \in {"free", "held"}

\* Types, and the OpenThread task inside the requests that wait for it.
WebInv == WebTypeOK /\ ListOwned /\ CollectsOnly
=============================================================================
