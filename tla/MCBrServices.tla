---------------------------- MODULE MCBrServices ----------------------------
(* Two networks with one password missing, one user, one server. *)
EXTENDS BrServices, WebServer

MCNetworks == {[ssid |-> "lab", psk |-> ""]}
MCKconfig  == [ssid |-> "home", psk |-> "secret"]

VARIABLE inPlay

(* Either the services and the stack they share, whatever brings the web       *)
(* requests and carries their answers, or the server and its clients, whatever *)
(* the API answers.                                                            *)
runVars == <<inPlay, vars, httpVars>>
RunInit == /\ inPlay \in {"services", "server"} /\ Init /\ HttpdInit
           /\ inPlay = "server" => nvs = Nothing
           \* a device that is new, or was set up altogether
           /\ nvs = Nothing <=> net.active = NoDataset

Services(A) == inPlay = "services" /\ A /\ UNCHANGED <<inPlay, httpVars>>
OfServer(A)  == inPlay = "server" /\ A /\ UNCHANGED <<inPlay, vars>>

RunNext == Services(Next) \/ OfServer(HttpdNext)

OffServer == UNCHANGED <<inPlay, httpVars>>
\* What a request that has begun does without the lock.
Continues == PskdStarts \/ PskdReplies \/ ScanReplies \/ DiagnosticsReplies
\* The driver tries on; the tasks run; the stack ends a discovery and a handler
\* returns, and a client either sends on or lets the time for it pass.
RunSpec ==
  /\ RunInit /\ [][RunNext]_runVars
  /\ WF_runVars(Link /\ WifiOnly /\ OffServer)
  /\ WF_runVars((WifiTask \/ PageJoins \/ PageConnected) /\ WifiOnly /\ OffServer)
  /\ WF_runVars(\/ /\ Continues \/ (Unlocked /\ (ScanEnds \/ ResultTakes \/ ResultGives))
                   /\ WebOnly /\ OffServer
                \/ (Converts \/ Handles) /\ UNCHANGED <<inPlay, vars>>)

\* The OpenThread task is inside the requests that wait for it, and the server
\* parses what was sent, forgets nothing and reports the success that was.
WebHolds == WebInv /\ HttpdInv

\* Every request that is taken is answered or given up, also while the Wi-Fi
\* page holds the lock for its connection, unless connections have overlapped.
Answers == (req # "idle" \/ at # "idle") ~> ((req = "idle" \/ overlap) /\ at = "idle")
=============================================================================
