----------------------------- MODULE BrServices -----------------------------
(***************************************************************************)
(* The border router's services beside one another: the Wi-Fi backbone,    *)
(* the web API, and the OpenThread stack and lock that they share.         *)
(***************************************************************************)
EXTENDS WifiBackbone, WebThread

CONSTANTS MaxRestarts,   \* bound: losses of power, asserts
          MaxWork        \* bound: operations, requests and restarts together
VARIABLE restarts

vars == <<wifiVars, webVars, restarts>>

Init == WifiInit /\ WebInit /\ restarts = 0

\* The rest of ot_br_init: the border router, then Thread, under one lock.
BootStarts ==
  /\ BootConnected
  /\ net' = AutoStart
  /\ wanted' = IF wanted = NoDataset THEN AutoDataset ELSE wanted
  /\ UNCHANGED <<req, served, discover, found, done, joiner, join_state, asked,
                 mutex, handler, proved, restarts>>

Restart ==
  /\ restarts < MaxRestarts /\ restarts' = restarts + 1
  /\ WifiReset /\ WebReset(net.active) /\ UNCHANGED <<served, wanted>>

Wifi   == WifiNext /\ UNCHANGED <<webVars, restarts>>
Stack  == Unlocked /\ OtTask /\ UNCHANGED <<wifiVars, restarts>>
Server == /\ (Unlocked /\ Locked) \/ Unguarded
          /\ UNCHANGED <<wifiVars, restarts>>
\* One operation fewer where connections have overlapped.
Within == <<ops, served, restarts>>' # <<ops, served, restarts>> =>
            ops' + served' + restarts' <= IF overlap THEN MaxWork - 1 ELSE MaxWork
Next   == (Wifi \/ BootStarts \/ Stack \/ Server \/ Restart) /\ Within

Spec == Init /\ [][Next]_vars

WifiOnly == UNCHANGED <<webVars, restarts>>
WebOnly  == UNCHANGED <<wifiVars, restarts>>

-----------------------------------------------------------------------------
\* The network that the user last chose, by whichever request, is the active
\* one: the automatic start, which comes when the Wi-Fi is connected and finds
\* the user's requests done or half done, does not replace it, and neither
\* does a restart.
ChosenKept == net.active = wanted

\* A join with a PSKd that reports success was preceded by a joiner that
\* succeeded and that no earlier reply has told of: an earlier success is not
\* reported again for a join that failed or is still running.
JoinHonest == [][req = "joining" /\ req' = "idle" /\ join_state = "none" => proved]_vars
=============================================================================
