-------------------------- MODULE InterfacesProofs --------------------------
(***************************************************************************)
(* Theorems about the two interfaces of MCInterfaces: the Zigbee console   *)
(* (ZbConsole, with the data model of ZbDataModel), for any data model,    *)
(* any number of commands, of answers and of tests that peers start, and   *)
(* the pages of the M5Stack's display (M5Pages), for any number of keys,   *)
(* of presses and of changes of role and link.                             *)
(***************************************************************************)
EXTENDS MCInterfaces, SequenceTheorems, TLAPS

-----------------------------------------------------------------------------
(* The nested lists of the data model.                                     *)

\* Putting back what a list holds at k leaves the list as it is.
LEMMA PutSame ==
  ASSUME NEW f, NEW k \in DOMAIN f, f = [x \in DOMAIN f |-> f[x]]
  PROVE  Put(f, k, f[k]) = f
<1>1. \A x \in DOMAIN f : (IF x = k THEN f[k] ELSE f[x]) = f[x]
  OBVIOUS
<1>2. DOMAIN f \cup {k} = DOMAIN f
  OBVIOUS
<1>3. Put(f, k, f[k]) = [x \in DOMAIN f |-> f[x]]
  BY <1>1, <1>2 DEF Put
<1>4. QED
  BY <1>3

LEMMA IsClusterList == \A f :
  f \in ClusterLists <=> /\ f = [c \in DOMAIN f |-> f[c]]
                         /\ DOMAIN f \subseteq Clusters
                         /\ \A c \in DOMAIN f : f[c] \subseteq Attrs
BY DEF ClusterLists

LEMMA IsEpList == \A f :
  f \in EpLists <=> /\ f = [e \in DOMAIN f |-> f[e]]
                    /\ DOMAIN f \subseteq Endpoints
                    /\ \A e \in DOMAIN f : f[e] \in ClusterLists
BY DEF EpLists

LEMMA PutCluster ==
  ASSUME NEW f \in ClusterLists, NEW c \in Clusters, NEW as \in SUBSET Attrs
  PROVE  Put(f, c, as) \in ClusterLists
BY IsClusterList DEF Put

LEMMA PutEndpoint ==
  ASSUME NEW f \in EpLists, NEW e \in Endpoints, NEW cs \in ClusterLists
  PROVE  Put(f, e, cs) \in EpLists
BY IsEpList DEF Put

LEMMA EmptyLists == Empty \in ClusterLists /\ Empty \in EpLists
BY IsClusterList, IsEpList DEF Empty

\* What the three nested additions return: a list, and the list that there was
\* when they fail.
LEMMA AttributeAdded ==
  ASSUME NEW as \in SUBSET Attrs, NEW a \in Attrs \cup {None}, NEW fails
  PROVE  LET r == zcl_add_attribute(as, a, fails)
         IN  /\ r.ok \in BOOLEAN /\ r.list \in SUBSET Attrs
             /\ ~r.ok => r.list = as
<1>1. CASE a = None
  BY <1>1 DEF zcl_add_attribute, Result
<1>2. CASE a # None /\ fails = "attr"
  BY <1>2 DEF zcl_add_attribute, Result
<1>3. CASE a # None /\ fails # "attr"
  BY <1>3 DEF zcl_add_attribute, Result
<1>4. QED
  BY <1>1, <1>2, <1>3

LEMMA ClusterAdded ==
  ASSUME NEW cs \in ClusterLists, NEW c \in Clusters \cup {None},
         NEW a \in Attrs \cup {None}, NEW fails
  PROVE  LET r == zcl_add_cluster(cs, c, a, fails)
         IN  /\ r.ok \in BOOLEAN /\ r.list \in ClusterLists
             /\ ~r.ok => r.list = cs
<1> DEFINE r == zcl_add_cluster(cs, c, a, fails)
           known == c \in DOMAIN cs
           old   == IF known THEN cs[c] ELSE {}
           added == zcl_add_attribute(old, a, fails)
           ok    == added.ok /\ (known \/ fails # "cluster")
<1>1. CASE c = None
  BY <1>1 DEF zcl_add_cluster, Result
<1>2. CASE c # None
  <2>1. old \in SUBSET Attrs
    BY IsClusterList
  <2>2. added.ok \in BOOLEAN /\ added.list \in SUBSET Attrs
        /\ (~added.ok => added.list = old)
    BY <2>1, AttributeAdded
  <2>3. r = [ok |-> ok, list |-> IF known \/ ok THEN Put(cs, c, added.list) ELSE cs]
    BY <1>2 DEF zcl_add_cluster, Result
  <2>4. r.ok = ok /\ r.list = IF known \/ ok THEN Put(cs, c, added.list) ELSE cs
    BY <2>3
  <2>5. Put(cs, c, added.list) \in ClusterLists
    BY <1>2, <2>2, PutCluster
  <2>6. known => Put(cs, c, cs[c]) = cs
    BY IsClusterList, PutSame
  <2> HIDE DEF r, added
  <2>7. ok \in BOOLEAN /\ r.list \in ClusterLists
    BY <2>2, <2>4, <2>5
  <2>8. ~ok => r.list = cs
    BY <2>2, <2>4, <2>6
  <2>9. QED
    BY <2>4, <2>7, <2>8 DEF r
<1>3. QED
  BY <1>1, <1>2

LEMMA EndpointAdded ==
  ASSUME NEW es \in EpLists, NEW e \in Endpoints \cup {None},
         NEW c \in Clusters \cup {None}, NEW a \in Attrs \cup {None}, NEW fails
  PROVE  LET r == zcl_add_endpoint(es, e, c, a, fails)
         IN  /\ r.ok \in BOOLEAN /\ r.list \in EpLists
             /\ ~r.ok => r.list = es
<1> DEFINE r == zcl_add_endpoint(es, e, c, a, fails)
           known == e \in DOMAIN es
           old   == IF known THEN es[e] ELSE Empty
           added == zcl_add_cluster(old, c, a, fails)
           ok    == added.ok /\ (known \/ fails # "endpoint")
<1>1. CASE e = None
  BY <1>1 DEF zcl_add_endpoint, Result
<1>2. CASE e # None
  <2>1. old \in ClusterLists
    BY IsEpList, EmptyLists
  <2> HIDE DEF old
  <2>2. added.ok \in BOOLEAN /\ added.list \in ClusterLists
        /\ (~added.ok => added.list = old)
    BY <2>1, ClusterAdded
  <2>3. r = [ok |-> ok, list |-> IF known \/ ok THEN Put(es, e, added.list) ELSE es]
    BY <1>2 DEF zcl_add_endpoint, Result, old
  <2>4. r.ok = ok /\ r.list = IF known \/ ok THEN Put(es, e, added.list) ELSE es
    BY <2>3
  <2>5. Put(es, e, added.list) \in EpLists
    BY <1>2, <2>2, PutEndpoint
  <2>6. known => Put(es, e, es[e]) = es /\ old = es[e]
    BY IsEpList, PutSame DEF old
  <2> HIDE DEF r, added
  <2>7. ok \in BOOLEAN /\ r.list \in EpLists
    BY <2>2, <2>4, <2>5
  <2>8. ~ok => r.list = es
    BY <2>2, <2>4, <2>6
  <2>9. QED
    BY <2>4, <2>7, <2>8 DEF r
<1>3. QED
  BY <1>1, <1>2

\* Every command of the data model keeps the lists lists; one that reports that
\* it could not add has added nothing.
LEMMA DmStep ==
  ASSUME DmTypeOK, DmNext
  PROVE  DmTypeOK' /\ (ret' = "add_failed" => ep_list' = ep_list)
<1>1. ASSUME NEW e \in Endpoints \cup {None}, NEW c \in Clusters \cup {None},
             NEW a \in Attrs \cup {None},
             NEW fails \in {"none", "attr", "cluster", "endpoint"},
             DmAdd(e, c, a, fails)
      PROVE  DmTypeOK' /\ (ret' = "add_failed" => ep_list' = ep_list)
  <2>1. CASE ep_list = None
    BY <1>1, <2>1 DEF DmAdd, DmTypeOK
  <2>2. CASE ep_list # None
    <3> DEFINE r == zcl_add_endpoint(ep_list, e, c, a, fails)
    <3>1. r.ok \in BOOLEAN /\ r.list \in EpLists /\ (~r.ok => r.list = ep_list)
      <4>1. PICK es \in EpLists : es = ep_list
        BY <2>2 DEF DmTypeOK
      <4>2. QED
        BY <4>1, EndpointAdded
    <3>2. /\ ep_list' = r.list /\ ret' = IF r.ok THEN "ok" ELSE "add_failed"
          /\ UNCHANGED <<device, started>>
      BY <1>1, <2>2 DEF DmAdd
    <3> HIDE DEF r
    <3>3. QED
      BY <3>1, <3>2 DEF DmTypeOK
  <2>3. QED
    BY <2>1, <2>2
<1>2. ASSUME NEW e \in Endpoints, ZhaAdd(e)
      PROVE  DmTypeOK' /\ (ret' = "add_failed" => ep_list' = ep_list)
  <2>1. [c \in HaClusters |-> {}] \in ClusterLists
    BY IsClusterList, DmAssumption
  <2>2. QED
    BY <1>2, <2>1, PutEndpoint DEF ZhaAdd, DmTypeOK
<1>3. ASSUME NEW e \in Endpoints, NEW c \in Clusters, NEW a \in Attrs,
             DmAccess(e, c, a)
      PROVE  DmTypeOK' /\ (ret' = "add_failed" => ep_list' = ep_list)
  BY <1>3 DEF DmAccess, DmTypeOK
<1>4. ASSUME DmRegister \/ StartStack
      PROVE  DmTypeOK' /\ (ret' = "add_failed" => ep_list' = ep_list)
  BY <1>4 DEF DmRegister, StartStack, DmTypeOK
<1>5. QED
  BY <1>1, <1>2, <1>3, <1>4 DEF DmNext

-----------------------------------------------------------------------------
(* The REPL task and what answers it.                                      *)

\* One request of the stack for each command, and nothing of commands to come.
OneEach == /\ \A r1, r2 \in requests : r1.by = r2.by => r1 = r2
           /\ \A r \in requests : r.by <= repl.cmd
           /\ \A c \in ctx : c <= repl.cmd

\* Who may still notify: every request but a match request that was answered,
\* a ping and a test.
Expected(r) == r.kind = "match" => r.by \in ctx
Tests       == ping.cb # 0 \/ "iperf" \in alarms

\* As long as no match request was answered twice, only the command that the
\* REPL task waits for may be told of, once, and by one of these.
Waiting == ~stray =>
  /\ notified # NULL => repl.pc = "wait" /\ notified.by = repl.cmd
  /\ repl.pc = "idle" \/ notified # NULL =>
       ~Tests /\ \A r \in requests : ~Expected(r)
  /\ \A r \in requests : Expected(r) => r.by = repl.cmd /\ ~Tests
  /\ ping.cb # 0 => ping.cb = repl.cmd /\ "iperf" \notin alarms
  /\ "iperf" \in alarms => iperf.cb = repl.cmd

\* ConsoleTypeOK, variable by variable.
TypeRepl     == repl \in [pc : {"idle", "wait"}, cmd : 0..MaxCommands]
TypeNotified == notified = NULL \/ notified \in [result : {"ok", "fail"}, by : 1..MaxCommands]
TypeRequests == requests \subseteq [by : 1..MaxCommands, kind : Kinds,
                                    left : 0..(MaxPages + MaxAnswers)]
TypeCtx      == ctx \subseteq 1..MaxCommands
TypeFlags    == confirm \in BOOLEAN /\ stray \in BOOLEAN
TypeSends    == status \in {"none", "ping", "iperf"} /\ due \in Nat
TypeAlarms   == alarms \subseteq {"ping", "iperf"}
TypeStarts   == starts \in 0..MaxStarts
TypePing     == ping \in [in_progress : BOOLEAN, broadcast : BOOLEAN, cb : 0..MaxCommands]
TypeIperf    == iperf \in [in_progress : BOOLEAN, message : BOOLEAN, cb : 0..MaxCommands,
                           elapsed : 0..Duration]

TypeInv == /\ TypeRepl /\ TypeNotified /\ TypeRequests /\ TypeCtx /\ TypeFlags
           /\ TypeSends /\ TypeAlarms /\ TypeStarts /\ TypePing /\ TypeIperf
           /\ DmTypeOK

ConsoleIInv == TypeInv /\ ContextsLive /\ OneEach /\ AlarmsMatch /\ Waiting

LEMMA Types == TypeInv => ConsoleTypeOK
BY Zenon DEF TypeInv, ConsoleTypeOK, TypeRepl, TypeNotified, TypeRequests, TypeCtx,
   TypeFlags, TypeSends, TypeAlarms, TypeStarts, TypePing, TypeIperf

LEMMA Numbers == /\ Duration \in Nat /\ Duration > 0
                 /\ MaxCommands \in Nat /\ MaxStarts \in Nat
                 /\ MaxPages \in Nat /\ MaxAnswers \in Nat /\ MaxAnswers > 0
BY ConsoleAssumption

LEMMA ConsoleStart == Init => ConsoleIInv
<1> SUFFICES ASSUME Init PROVE ConsoleIInv
  OBVIOUS
<1> USE Numbers DEF Init
<1>1. DmTypeOK
  BY EmptyLists DEF DmInit, DmTypeOK
<1>2. TypeRepl
  BY DEF TypeRepl
<1>3. TypeNotified /\ TypeFlags
  BY DEF TypeNotified, TypeFlags
<1>4. TypeRequests /\ TypeCtx /\ TypeAlarms
  BY DEF TypeRequests, TypeCtx, TypeAlarms
<1>5. TypeSends /\ TypeStarts
  BY DEF TypeSends, TypeStarts
<1>6. TypePing /\ TypeIperf
  BY DEF TypePing, TypeIperf, NoPing, NoIperf
<1>7. ContextsLive /\ OneEach /\ AlarmsMatch
  BY DEF ContextsLive, OneEach, AlarmsMatch, NoPing, NoIperf
<1>8. Waiting
  BY DEF Waiting, Tests, NULL, NoPing
<1>9. QED
  BY <1>1, <1>2, <1>3, <1>4, <1>5, <1>6, <1>7, <1>8 DEF ConsoleIInv, TypeInv

-----------------------------------------------------------------------------
(* What changes what.                                                      *)

USE DEF Next, Command, Answer, Alarm, ZdoRequest, TableRequest, NwkOpen, NwkLeave,
        Bind, MatchRequest

\* The REPL task enters a command or has its result.
LEMMA ReplBy ==
  Next => UNCHANGED repl \/ Finished \/ NotFinished \/ WaitResult
BY DEF RequestUnknown, ScanRequest, ApsSendRaw, Ping, IperfStart, IperfResult,
   DmCommand, Reboot, Asks, Leaks, ZdoAnswer, TableAnswer, MatchAnswer, ScanAnswer,
   ApsConfirm, PingTimeout, DoIperf, PingResponse, PeerPings, PeerStarts, SendStatus

LEMMA NotifiedBy ==
  Next => \/ UNCHANGED notified \/ WaitResult \/ Reboot
          \/ \E r \in requests, result \in {"ok", "fail"} : Notify(result, r.by)
          \/ \E result \in {"ok", "fail"} : \/ ping.cb # 0 /\ Notify(result, ping.cb)
                                            \/ iperf.cb # 0 /\ Notify(result, iperf.cb)
<1>1. Command => UNCHANGED notified \/ Reboot
  BY DEF RequestUnknown, ScanRequest, ApsSendRaw, Ping, IperfStart, IperfResult,
     DmCommand, asyncVars, Asks, Leaks
<1>2. ASSUME NEW r \in requests,
             \/ ZdoAnswer(r) \/ TableAnswer(r) \/ MatchAnswer(r) \/ ScanAnswer(r)
             \/ ApsConfirm(r)
      PROVE  \/ UNCHANGED notified
             \/ \E result \in {"ok", "fail"} : Notify(result, r.by)
  BY <1>2 DEF ZdoAnswer, TableAnswer, MatchAnswer, ScanAnswer, ApsConfirm, Done
<1>3. ASSUME NEW result \in {"ok", "fail"}, FinishPing(result)
      PROVE  UNCHANGED notified \/ (ping.cb # 0 /\ Notify(result, ping.cb))
  BY <1>3 DEF FinishPing
<1>4. DoIperf => UNCHANGED notified \/ (iperf.cb # 0 /\ Notify("ok", iperf.cb))
  BY DEF DoIperf
<1>5. Alarm \/ PingResponse \/ (\E ok \in BOOLEAN : SendStatus(ok)) =>
        \/ UNCHANGED notified
        \/ \E result \in {"ok", "fail"} : \/ ping.cb # 0 /\ Notify(result, ping.cb)
                                          \/ iperf.cb # 0 /\ Notify(result, iperf.cb)
  BY <1>3, <1>4 DEF PingTimeout, PingResponse, SendStatus
<1>6. Answer => \/ UNCHANGED notified
                \/ \E r \in requests, result \in {"ok", "fail"} : Notify(result, r.by)
  BY <1>2
<1>7. PeerPings \/ PeerStarts => UNCHANGED notified
  BY DEF PeerPings, PeerStarts
<1> HIDE DEF Command, Answer, Alarm
<1>8. QED
  BY <1>1, <1>5, <1>6, <1>7

\* Requests are made by a command that is entered, and answered.
LEMMA RequestsBy ==
  Next => \/ UNCHANGED requests \/ Reboot
          \/ /\ NotFinished
             /\ \/ Request("zdo", 0) \/ Request("scan", 0) \/ Request("aps", 0)
                \/ Request("table", MaxPages) \/ Request("match", MaxAnswers - 1)
          \/ \E r \in requests : Answered(r) \/ (r.left > 0 /\ Again(r))
<1>1. ASSUME NEW r \in requests,
             \/ ZdoAnswer(r) \/ TableAnswer(r) \/ MatchAnswer(r) \/ ScanAnswer(r)
             \/ ApsConfirm(r)
      PROVE  Answered(r) \/ (r.left > 0 /\ Again(r))
  BY <1>1 DEF ZdoAnswer, TableAnswer, MatchAnswer, ScanAnswer, ApsConfirm
<1>2. Command => \/ UNCHANGED requests \/ Reboot
                 \/ /\ NotFinished
                    /\ \/ Request("zdo", 0) \/ Request("scan", 0) \/ Request("aps", 0)
                       \/ Request("table", MaxPages) \/ Request("match", MaxAnswers - 1)
  BY DEF RequestUnknown, ScanRequest, ApsSendRaw, Ping, IperfStart, IperfResult,
     DmCommand, asyncVars, Asks, Leaks
<1>3. QED
  BY <1>1, <1>2 DEF PingTimeout, DoIperf, PingResponse, PeerPings, PeerStarts,
     SendStatus, WaitResult

LEMMA CtxBy ==
  Next => \/ UNCHANGED ctx \/ Reboot
          \/ Entered /\ repl'.cmd = This /\ ctx' = ctx \cup {This}
          \/ \E r \in requests : ctx' = ctx \ {r.by}
BY DEF RequestUnknown, ScanRequest, ApsSendRaw, Ping, IperfStart, IperfResult,
   DmCommand, asyncVars, Asks, Leaks, ZdoAnswer, TableAnswer, MatchAnswer, ScanAnswer,
   ApsConfirm, PingTimeout, DoIperf, PingResponse, PeerPings, PeerStarts, SendStatus,
   WaitResult, Done, Finished, NotFinished

LEMMA PingBy ==
  Next => \/ UNCHANGED ping \/ Reboot \/ \E b \in BOOLEAN : NotFinished /\ Ping(b)
          \/ \E result : FinishPing(result)
BY DEF RequestUnknown, ScanRequest, ApsSendRaw, IperfStart, IperfResult, Ping,
   DmCommand, asyncVars, Asks, Leaks, ZdoAnswer, TableAnswer, MatchAnswer, ScanAnswer,
   ApsConfirm, PingTimeout, DoIperf, PingResponse, PeerPings, PeerStarts, SendStatus,
   WaitResult

LEMMA IperfBy ==
  Next => UNCHANGED iperf \/ Reboot \/ IperfStart \/ DoIperf \/ PeerStarts
BY DEF RequestUnknown, ScanRequest, ApsSendRaw, IperfResult, Ping,
   DmCommand, asyncVars, Asks, Leaks, ZdoAnswer, TableAnswer, MatchAnswer, ScanAnswer,
   ApsConfirm, PingTimeout, PingResponse, PeerPings, SendStatus, WaitResult

LEMMA AlarmsBy ==
  Next => \/ alarms' \subseteq alarms
          \/ alarms' = alarms \cup {"ping"}
          \/ alarms' = alarms \cup {"iperf"}
BY DEF RequestUnknown, ScanRequest, ApsSendRaw, IperfResult, Ping, IperfStart, Reboot,
   DmCommand, asyncVars, Asks, Leaks, ZdoAnswer, TableAnswer, MatchAnswer, ScanAnswer,
   ApsConfirm, PingTimeout, PingResponse, PeerPings, SendStatus, WaitResult,
   DoIperf, IperfSends, PeerStarts

LEMMA RestBy ==
  /\ Next => UNCHANGED stray \/ \E r \in requests : MatchAnswer(r)
  /\ Next => UNCHANGED starts \/ (starts < MaxStarts /\ starts' = starts + 1)
  /\ Next => UNCHANGED dmVars \/ DmNext \/ DmReset
<1> USE DEF RequestUnknown, ScanRequest, ApsSendRaw, IperfResult, Ping, IperfStart,
   Reboot, DmCommand, asyncVars, Asks, Leaks, ZdoAnswer, TableAnswer, ScanAnswer,
   ApsConfirm, PingTimeout, PingResponse, PeerPings, SendStatus, WaitResult,
   DoIperf, PeerStarts
<1>1. Next => UNCHANGED stray \/ \E r \in requests : MatchAnswer(r)
  OBVIOUS
<1>2. Next => UNCHANGED starts \/ (starts < MaxStarts /\ starts' = starts + 1)
  BY DEF MatchAnswer
<1>3. Next => UNCHANGED dmVars \/ DmNext \/ DmReset
  BY DEF MatchAnswer
<1>4. QED
  BY <1>1, <1>2, <1>3

HIDE DEF Next, Command, Answer, Alarm, ZdoRequest, TableRequest, NwkOpen, NwkLeave,
         Bind, MatchRequest

-----------------------------------------------------------------------------
(* Types.                                                                  *)

\* A command that is entered has a number of its own.
LEMMA EnteredNext ==
  ASSUME TypeRepl, Entered
  PROVE  /\ repl.cmd \in Nat /\ This \in 1..MaxCommands /\ This = repl.cmd + 1
         /\ repl.pc = "idle"
         /\ NotFinished => TypeRepl' /\ repl'.cmd = This /\ repl'.pc = "wait"
         /\ Finished => TypeRepl' /\ repl'.cmd = This /\ repl'.pc = "idle"
BY Numbers DEF TypeRepl, Entered, This, NotFinished, Finished

LEMMA IsRequest ==
  ASSUME TypeRequests, NEW r \in requests
  PROVE  r \in [by : 1..MaxCommands, kind : Kinds, left : 0..(MaxPages + MaxAnswers)]
BY DEF TypeRequests

LEMMA DueStep ==
  ASSUME due \in Nat, Next
  PROVE  due' \in Nat
<1>1. ASSUME NEW b \in BOOLEAN, Ping(b)
      PROVE  due' \in Nat
  BY <1>1 DEF Ping
<1>2. CASE Command
  <2>1. IperfStart => due' \in Nat
    BY DEF IperfStart, IperfSends
  <2>2. CASE \/ ZdoRequest \/ TableRequest \/ RequestUnknown \/ NwkOpen \/ NwkLeave
             \/ Bind \/ MatchRequest \/ ScanRequest \/ ApsSendRaw \/ IperfResult
             \/ DmCommand
    <3>1. UNCHANGED due
      BY <2>2 DEF ZdoRequest, TableRequest, NwkOpen, NwkLeave, Bind, MatchRequest,
         RequestUnknown, ScanRequest, ApsSendRaw, IperfResult, DmCommand, asyncVars,
         Asks, Leaks
    <3>2. QED
      BY <3>1
  <2>3. Reboot => due' = 0
    BY DEF Reboot
  <2>4. QED
    BY <1>1, <1>2, <2>1, <2>2, <2>3 DEF Command
<1>3. CASE Answer
  BY <1>3 DEF Answer, ZdoAnswer, TableAnswer, MatchAnswer, ScanAnswer, ApsConfirm
<1>4. QED
  BY <1>2, <1>3 DEF Next, Alarm, PingTimeout, PingResponse, PeerPings, PeerStarts,
     SendStatus, WaitResult, DoIperf, IperfSends

LEMMA StatusStep ==
  ASSUME status \in {"none", "ping", "iperf"}, Next
  PROVE  status' \in {"none", "ping", "iperf"}
BY DEF Next, Command, Answer, Alarm, ZdoRequest, TableRequest, NwkOpen, NwkLeave, Bind,
   MatchRequest, RequestUnknown, ScanRequest, ApsSendRaw, Ping, IperfStart, IperfResult,
   DmCommand, Reboot, asyncVars, Asks, Leaks, ZdoAnswer, TableAnswer, MatchAnswer,
   ScanAnswer, ApsConfirm, PingTimeout, PingResponse, PeerPings, PeerStarts, SendStatus,
   WaitResult, DoIperf

LEMMA ConfirmStep ==
  ASSUME confirm \in BOOLEAN, Next
  PROVE  confirm' \in BOOLEAN
BY DEF Next, Command, Answer, Alarm, ZdoRequest, TableRequest, NwkOpen, NwkLeave, Bind,
   MatchRequest, RequestUnknown, ScanRequest, ApsSendRaw, Ping, IperfStart, IperfResult,
   DmCommand, Reboot, asyncVars, Asks, Leaks, ZdoAnswer, TableAnswer, MatchAnswer,
   ScanAnswer, ApsConfirm, PingTimeout, PingResponse, PeerPings, PeerStarts, SendStatus,
   WaitResult, DoIperf

LEMMA TypeStep ==
  ASSUME TypeInv, Next
  PROVE  TypeInv'
<1> USE Numbers DEF TypeInv
<1>1. TypeRepl'
  BY ReplBy, EnteredNext DEF TypeRepl, Finished, NotFinished, WaitResult
<1>2. TypeNotified'
  <2>1. CASE UNCHANGED notified \/ WaitResult \/ Reboot
    BY <2>1 DEF TypeNotified, WaitResult, Reboot, NULL
  <2>2. CASE \E r \in requests, result \in {"ok", "fail"} : Notify(result, r.by)
    BY <2>2, IsRequest DEF TypeNotified, Notify
  <2>3. CASE \E result \in {"ok", "fail"} : \/ ping.cb # 0 /\ Notify(result, ping.cb)
                                            \/ iperf.cb # 0 /\ Notify(result, iperf.cb)
    BY <2>3 DEF TypeNotified, Notify, TypePing, TypeIperf
  <2>4. QED
    BY <2>1, <2>2, <2>3, NotifiedBy
<1>3. TypeRequests'
  <2>1. ASSUME NotFinished, NEW kind \in Kinds,
               NEW left \in 0..(MaxPages + MaxAnswers), Request(kind, left)
        PROVE  TypeRequests'
    BY <2>1, EnteredNext DEF TypeRequests, Request, NotFinished
  <2>2. ASSUME NEW r \in requests, Answered(r) \/ (r.left > 0 /\ Again(r))
        PROVE  TypeRequests'
    BY <2>2, IsRequest DEF TypeRequests, Answered, Again
  <2>3. QED
    <3>1. {0, MaxPages, MaxAnswers - 1} \subseteq 0..(MaxPages + MaxAnswers)
      OBVIOUS
    <3>2. CASE UNCHANGED requests \/ Reboot
      BY <3>2 DEF TypeRequests, Reboot
    <3>3. QED
      BY <2>1, <2>2, <3>1, <3>2, RequestsBy DEF Kinds
<1>4. TypeCtx'
  BY CtxBy, EnteredNext DEF TypeCtx, Reboot
<1>5. TypeFlags'
  <2>1. stray' \in BOOLEAN
    BY RestBy DEF TypeFlags, MatchAnswer
  <2>2. QED
    BY <2>1, ConfirmStep DEF TypeFlags
<1>6. TypeSends'
  BY DueStep, StatusStep DEF TypeSends
<1>7. TypeAlarms'
  BY AlarmsBy DEF TypeAlarms
<1>8. TypeStarts'
  BY RestBy DEF TypeStarts
<1>9. TypePing'
  <2>1. CASE UNCHANGED ping \/ Reboot \/ \E result : FinishPing(result)
    <3>1. CASE UNCHANGED ping
      BY <3>1 DEF TypePing
    <3>2. CASE ping' = NoPing(FALSE)
      BY <3>2 DEF TypePing, NoPing
    <3>3. CASE ping' = NoPing(ping.broadcast)
      BY <3>3 DEF TypePing, NoPing
    <3>4. QED
      BY <2>1, <3>1, <3>2, <3>3 DEF Reboot, FinishPing
  <2>2. ASSUME NEW b \in BOOLEAN, NotFinished, Ping(b)
        PROVE  TypePing'
    <3>1. CASE UNCHANGED ping
      BY <3>1 DEF TypePing
    <3>2. CASE ping' = [in_progress |-> TRUE, broadcast |-> b, cb |-> This]
      BY <2>2, <3>2, EnteredNext DEF TypePing, NotFinished
    <3>3. QED
      BY <2>2, <3>1, <3>2 DEF Ping
  <2>3. QED
    BY <2>1, <2>2, PingBy
<1>10. TypeIperf'
  <2>1. CASE UNCHANGED iperf \/ iperf' = NoIperf(0) \/ iperf' = NoIperf(iperf.elapsed)
    <3>1. CASE UNCHANGED iperf
      BY <3>1 DEF TypeIperf
    <3>2. CASE iperf' = NoIperf(0)
      BY <3>2 DEF TypeIperf, NoIperf
    <3>3. CASE iperf' = NoIperf(iperf.elapsed)
      BY <3>3 DEF TypeIperf, NoIperf
    <3>4. QED
      BY <2>1, <3>1, <3>2, <3>3
  <2>2. CASE PeerStarts
    BY <2>2 DEF TypeIperf, PeerStarts
  <2>3. CASE DoIperf
    <3>1. CASE iperf.elapsed < Duration /\ IperfSends(iperf.cb, iperf.elapsed + 1)
      BY <3>1 DEF TypeIperf, IperfSends
    <3>2. QED
      BY <2>1, <2>3, <3>1 DEF DoIperf
  <2>4. CASE IperfStart
    <3>1. CASE UNCHANGED iperf
      BY <3>1 DEF TypeIperf
    <3>2. CASE Finished /\ iperf' = [in_progress |-> FALSE, message |-> iperf.message,
                                     cb |-> This, elapsed |-> 0]
      BY <3>2, EnteredNext DEF TypeIperf, Finished
    <3>3. CASE NotFinished /\ IperfSends(This, 1)
      BY <3>3, EnteredNext DEF TypeIperf, NotFinished, IperfSends
    <3>4. QED
      BY <2>4, <3>1, <3>2, <3>3 DEF IperfStart
  <2>5. QED
    BY <2>1, <2>2, <2>3, <2>4, IperfBy DEF Reboot
<1>11. DmTypeOK'
  BY RestBy, DmStep, EmptyLists DEF DmReset, dmVars, DmTypeOK
<1>12. QED
  BY <1>1, <1>2, <1>3, <1>4, <1>5, <1>6, <1>7, <1>8, <1>9, <1>10, <1>11

-----------------------------------------------------------------------------
(* The invariants.                                                         *)

LEMMA AlarmsStep ==
  ASSUME TypeInv, AlarmsMatch, Next
  PROVE  AlarmsMatch'
<1> USE DEF TypeInv
<1>1. CASE UNCHANGED <<ping, iperf, alarms>>
  BY <1>1 DEF AlarmsMatch
<1>2. ASSUME NEW b \in BOOLEAN, Ping(b)
      PROVE  AlarmsMatch'
  BY <1>2, EnteredNext DEF AlarmsMatch, Ping, NotFinished
<1>3. CASE IperfStart
  BY <1>3 DEF AlarmsMatch, IperfStart, IperfSends
<1>4. CASE DoIperf
  BY <1>4 DEF AlarmsMatch, DoIperf, IperfSends, NoIperf
<1>5. CASE PeerStarts
  BY <1>5 DEF AlarmsMatch, PeerStarts, TypeIperf
<1>6. CASE PingResponse \/ PingTimeout
  BY <1>6 DEF AlarmsMatch, PingResponse, PingTimeout, FinishPing, NoPing
<1>7. ASSUME NEW ok \in BOOLEAN, SendStatus(ok)
      PROVE  AlarmsMatch'
  BY <1>7 DEF AlarmsMatch, SendStatus, FinishPing, NoPing
<1>8. CASE Reboot
  BY <1>8 DEF AlarmsMatch, Reboot, NoPing, NoIperf
<1>9. Next => \/ UNCHANGED <<ping, iperf, alarms>> \/ IperfStart \/ DoIperf
              \/ PeerStarts \/ PingResponse \/ PingTimeout \/ Reboot
              \/ \E b \in BOOLEAN : Ping(b)
              \/ \E ok \in BOOLEAN : SendStatus(ok)
  BY DEF Next, Command, Answer, Alarm, ZdoRequest, TableRequest, NwkOpen, NwkLeave,
     Bind, MatchRequest, RequestUnknown, ScanRequest, ApsSendRaw, IperfResult,
     DmCommand, asyncVars, Asks, Leaks, ZdoAnswer, TableAnswer, MatchAnswer,
     ScanAnswer, ApsConfirm, PeerPings, WaitResult
<1>10. QED
  BY <1>1, <1>2, <1>3, <1>4, <1>5, <1>6, <1>7, <1>8, <1>9

\* A request keeps its context until it is answered: no other is for the same
\* command, and a command that is entered is a new one.
LEMMA ContextsStep ==
  ASSUME TypeInv, ContextsLive, OneEach, Next
  PROVE  ContextsLive' /\ OneEach'
<1> USE DEF TypeInv
<1>1. ASSUME NEW kind \in {"zdo", "table", "match"}, NEW left, Asks(kind, left)
      PROVE  ContextsLive' /\ OneEach'
  <2>1. Request(kind, left) /\ ctx' = ctx \cup {This} /\ This = repl.cmd + 1
        /\ repl'.cmd = This
    BY <1>1, EnteredNext DEF Asks, NotFinished
  <2>2. QED
    BY <2>1 DEF ContextsLive, OneEach, Request, TypeRequests, TypeCtx, TypeRepl
<1>2. ASSUME NEW kind \in {"scan", "aps"}, NotFinished, Request(kind, 0), UNCHANGED ctx
      PROVE  ContextsLive' /\ OneEach'
  <2>1. This = repl.cmd + 1 /\ repl'.cmd = This
    BY <1>2, EnteredNext DEF NotFinished
  <2>2. QED
    BY <1>2, <2>1 DEF ContextsLive, OneEach, Request, TypeRequests, TypeCtx, TypeRepl
<1>3. CASE Leaks
  <2>1. This = repl.cmd + 1 /\ repl'.cmd = This
    BY <1>3, EnteredNext DEF Leaks, Finished
  <2>2. QED
    BY <1>3, <2>1 DEF Leaks, ContextsLive, OneEach, TypeRequests, TypeCtx, TypeRepl
<1>4. CASE UNCHANGED <<requests, ctx>>
  <2>1. repl'.cmd >= repl.cmd /\ repl'.cmd \in Nat
    BY ReplBy, EnteredNext DEF Finished, NotFinished, WaitResult, TypeRepl
  <2>2. QED
    BY <1>4, <2>1 DEF ContextsLive, OneEach, TypeRequests, TypeCtx, TypeRepl
<1>5. ASSUME NEW r \in requests, Answered(r), ctx' \in {ctx, ctx \ {r.by}}, UNCHANGED repl
      PROVE  ContextsLive' /\ OneEach'
  BY <1>5 DEF Answered, ContextsLive, OneEach
<1>6. ASSUME NEW r \in requests, r.left > 0, Again(r), UNCHANGED repl,
             \/ UNCHANGED ctx
             \/ r.kind = "match" /\ ctx' = ctx \ {r.by}
      PROVE  ContextsLive' /\ OneEach'
  <2> DEFINE q == [r EXCEPT !.left = @ - 1]
  <2>1. q.by = r.by /\ q.kind = r.kind /\ requests' = (requests \ {r}) \cup {q}
    BY <1>6, IsRequest DEF Again
  <2> HIDE DEF q
  <2>2. QED
    BY <1>6, <2>1 DEF ContextsLive, OneEach
<1>7. CASE Reboot
  BY <1>7 DEF Reboot, ContextsLive, OneEach
<1>8. CASE Command
  <2>1. CASE \/ ZdoRequest \/ TableRequest \/ NwkOpen \/ NwkLeave \/ Bind
             \/ MatchRequest
    BY <2>1, <1>1, <1>3 DEF ZdoRequest, TableRequest, NwkOpen, NwkLeave, Bind,
       MatchRequest
  <2>2. CASE ScanRequest \/ ApsSendRaw
    BY <2>2, <1>2, <1>4 DEF ScanRequest, ApsSendRaw
  <2>3. CASE RequestUnknown \/ IperfStart \/ IperfResult \/ DmCommand
    BY <2>3, <1>4 DEF RequestUnknown, IperfStart, IperfResult, DmCommand, asyncVars
  <2>4. ASSUME NEW b \in BOOLEAN, Ping(b)
        PROVE  ContextsLive' /\ OneEach'
    BY <2>4, <1>4 DEF Ping
  <2>5. QED
    BY <1>7, <1>8, <2>1, <2>2, <2>3, <2>4 DEF Command
<1>9. CASE Answer
  <2>1. PICK r \in requests : \/ ZdoAnswer(r) \/ TableAnswer(r) \/ MatchAnswer(r)
                              \/ ScanAnswer(r) \/ ApsConfirm(r)
    BY <1>9 DEF Answer
  <2>2. UNCHANGED repl
    BY <2>1 DEF ZdoAnswer, TableAnswer, MatchAnswer, ScanAnswer, ApsConfirm
  <2>3. \/ Answered(r) /\ ctx' \in {ctx, ctx \ {r.by}}
        \/ r.left > 0 /\ Again(r) /\ (\/ UNCHANGED ctx
                                      \/ r.kind = "match" /\ ctx' = ctx \ {r.by})
    BY <2>1 DEF ZdoAnswer, TableAnswer, MatchAnswer, ScanAnswer, ApsConfirm, Done
  <2>4. QED
    BY <2>2, <2>3, <1>5, <1>6
<1>10. QED
  BY <1>4, <1>8, <1>9 DEF Next, Alarm, PingTimeout, PingResponse, PeerPings,
     PeerStarts, SendStatus, WaitResult, DoIperf

\* Who notifies is who the REPL task waits for.
LEMMA WaitingStep ==
  ASSUME TypeInv, OneEach, AlarmsMatch, Waiting, Next
  PROVE  Waiting'
<1> USE DEF TypeInv
<1>1. ASSUME NEW kind \in Kinds, NEW left, Request(kind, left), NotFinished,
             ctx' \in {ctx, ctx \cup {This}},
             kind = "match" => ctx' = ctx \cup {This},
             UNCHANGED <<notified, ping, iperf, alarms, stray>>
      PROVE  Waiting'
  <2>1. repl.pc = "idle" /\ repl'.pc = "wait" /\ repl'.cmd = This /\ This = repl.cmd + 1
    BY <1>1, EnteredNext DEF NotFinished
  <2>2. \A r \in requests : r.by # This
    BY <2>1 DEF OneEach, TypeRequests, TypeRepl
  <2>3. QED
    BY <1>1, <2>1, <2>2 DEF Waiting, Request, Expected, Tests
<1>2. ASSUME Finished, ctx' \in {ctx, ctx \cup {This}},
             UNCHANGED <<notified, requests, ping, iperf, alarms, stray>>
      PROVE  Waiting'
  <2>1. repl.pc = "idle" /\ repl'.pc = "idle" /\ repl'.cmd = This /\ This = repl.cmd + 1
    BY <1>2, EnteredNext DEF Finished
  <2>2. \A r \in requests : r.by # This
    BY <2>1 DEF OneEach, TypeRequests, TypeRepl
  <2>3. QED
    BY <1>2, <2>1, <2>2 DEF Waiting, Expected, Tests
<1>3. ASSUME NEW b \in BOOLEAN, Ping(b), NotFinished
      PROVE  Waiting'
  <2>1. repl.pc = "idle" /\ repl'.pc = "wait" /\ repl'.cmd = This
    BY <1>3, EnteredNext DEF NotFinished
  <2>2. QED
    BY <1>3, <2>1 DEF Waiting, Ping, Expected, Tests, NotFinished
<1>4. CASE IperfStart
  <2>1. CASE NotFinished /\ iperf.in_progress = FALSE /\ IperfSends(This, 1)
    <3>1. repl.pc = "idle" /\ repl'.pc = "wait" /\ repl'.cmd = This
      BY <2>1, EnteredNext DEF NotFinished
    <3>2. /\ alarms' = alarms \cup {"iperf"} /\ iperf'.cb = This
          /\ UNCHANGED <<notified, requests, ctx, ping, stray>>
      BY <1>4, <2>1 DEF IperfStart, IperfSends
    <3>3. QED
      BY <3>1, <3>2 DEF Waiting, Expected, Tests
  <2>2. CASE Finished
    <3>1. repl.pc = "idle" /\ repl'.pc = "idle" /\ repl'.cmd = This
      BY <2>2, EnteredNext DEF Finished
    <3>2. repl'.pc # "wait" /\ UNCHANGED <<notified, requests, ctx, ping, alarms, stray>>
      BY <1>4, <3>1 DEF IperfStart, NotFinished
    <3>3. QED
      BY <3>1, <3>2 DEF Waiting, Expected, Tests
  <2>3. QED
    BY <1>4, <2>1, <2>2 DEF IperfStart, TypeIperf
<1>5. CASE WaitResult
  BY <1>5 DEF Waiting, WaitResult, Expected, Tests, NULL
<1>6. CASE Reboot
  BY <1>6, EnteredNext DEF Waiting, Reboot, Finished, Expected, Tests, NoPing
\* An answer that notifies ...
<1>7. ASSUME NEW r \in requests, NEW result, Notify(result, r.by),
             ~stray' => ~stray /\ Expected(r),
             \A q \in requests' : \/ q \in requests \ {r}
                                  \/ q.kind = "match" /\ q.by \notin ctx',
             ctx' \subseteq ctx, UNCHANGED <<repl, ping, iperf, alarms>>
      PROVE  Waiting'
  <2>1. SUFFICES ASSUME ~stray'
                 PROVE  Waiting'
    BY DEF Waiting
  <2>2. /\ r.by = repl.cmd /\ repl.pc = "wait" /\ ~Tests
        /\ \A q \in requests : Expected(q) => q = r
    BY <1>7, <2>1, OneEach DEF Waiting, OneEach, TypeRepl
  <2>3. \A q \in requests' : ~Expected(q)'
    BY <1>7, <2>2 DEF Expected
  <2>4. notified'.by = repl'.cmd /\ ~Tests'
    BY <1>7, <2>2 DEF Notify, Tests
  <2>5. QED
    BY <1>7, <2>1, <2>2, <2>3, <2>4 DEF Waiting, Tests
\* ... and one that does not.
<1>8. ASSUME \A q \in requests' : \E r \in requests : q.by = r.by /\ q.kind = r.kind,
             ctx' \subseteq ctx,
             UNCHANGED <<repl, notified, ping, iperf, alarms, stray>>
      PROVE  Waiting'
  BY <1>8 DEF Waiting, Expected, Tests
<1>9. CASE Answer
  <2>1. PICK r \in requests : \/ ZdoAnswer(r) \/ TableAnswer(r) \/ MatchAnswer(r)
                              \/ ScanAnswer(r) \/ ApsConfirm(r)
    BY <1>9 DEF Answer
  <2>2. CASE ZdoAnswer(r) \/ ScanAnswer(r)
    BY <2>2, <1>7 DEF ZdoAnswer, ScanAnswer, Answered, Done, Expected
  <2>3. CASE ApsConfirm(r)
    BY <2>3, <1>7, <1>8 DEF ApsConfirm, Answered, Expected
  <2> DEFINE q == [r EXCEPT !.left = @ - 1]
  <2>4. q.by = r.by /\ q.kind = r.kind
    BY IsRequest
  <2>5. Again(r) => requests' = (requests \ {r}) \cup {q}
    BY DEF Again
  <2> HIDE DEF q
  <2>6. CASE TableAnswer(r)
    <3>1. CASE Answered(r) /\ Done(r)
      BY <2>6, <3>1, <1>7 DEF TableAnswer, Answered, Done, Expected
    <3>2. CASE Again(r) /\ UNCHANGED <<notified, ctx>>
      BY <2>6, <3>2, <2>4, <2>5, <1>8 DEF TableAnswer
    <3>3. QED
      BY <2>6, <3>1, <3>2 DEF TableAnswer
  <2>7. CASE MatchAnswer(r)
    <3>1. \A p \in requests' : p \in requests \ {r} \/ (p.kind = "match" /\ p.by \notin ctx')
      BY <2>7, <2>4, <2>5 DEF MatchAnswer, Answered, Done
    <3>2. /\ Notify("ok", r.by) /\ (~stray' => ~stray /\ Expected(r))
          /\ ctx' \subseteq ctx /\ UNCHANGED <<repl, ping, iperf, alarms>>
      BY <2>7 DEF MatchAnswer, Done, Expected
    <3>3. QED
      BY <3>1, <3>2, <1>7
  <2>8. QED
    BY <2>1, <2>2, <2>3, <2>6, <2>7
\* The end of a ping or a test.
<1>10. ASSUME NEW result, FinishPing(result), alarms' \subseteq alarms,
              UNCHANGED <<repl, requests, ctx, iperf, stray>>
       PROVE  Waiting'
  BY <1>10 DEF FinishPing, NoPing, Notify, Waiting, Expected, Tests, TypeRepl
<1>11. CASE DoIperf
  <2>1. CASE IperfSends(iperf.cb, iperf.elapsed + 1) /\ UNCHANGED notified
    <3>1. alarms' = alarms /\ iperf'.cb = iperf.cb
      BY <1>11, <2>1 DEF DoIperf, IperfSends
    <3>2. QED
      BY <1>11, <2>1, <3>1 DEF DoIperf, Waiting, Expected, Tests
  <2>2. CASE /\ alarms' = alarms \ {"iperf"}
             /\ IF iperf.cb # 0 THEN Notify("ok", iperf.cb) ELSE UNCHANGED notified
    BY <1>11, <2>2 DEF DoIperf, Notify, Waiting, Expected, Tests, TypeRepl, TypeIperf
  <2>3. QED
    BY <1>11, <2>1, <2>2 DEF DoIperf
<1>12. CASE PeerPings \/ PeerStarts
  <2>1. iperf'.cb = iperf.cb /\ UNCHANGED <<repl, notified, requests, ctx, ping, alarms, stray>>
    BY <1>12 DEF PeerPings, PeerStarts, TypeIperf
  <2>2. QED
    BY <2>1 DEF Waiting, Expected, Tests
<1>13. CASE Command
  <2>1. CASE \/ ZdoRequest \/ TableRequest \/ NwkOpen \/ NwkLeave \/ Bind
             \/ MatchRequest
    BY <2>1, <1>1, <1>2 DEF ZdoRequest, TableRequest, NwkOpen, NwkLeave, Bind,
       MatchRequest, Asks, Leaks, Kinds
  <2>2. CASE ScanRequest \/ ApsSendRaw
    BY <2>2, <1>1, <1>2 DEF ScanRequest, ApsSendRaw, Kinds
  <2>3. CASE RequestUnknown \/ IperfResult \/ DmCommand
    BY <2>3, <1>2 DEF RequestUnknown, IperfResult, DmCommand, asyncVars
  <2>4. ASSUME NEW b \in BOOLEAN, Ping(b)
        PROVE  Waiting'
    <3>1. NotFinished \/ (Finished /\ UNCHANGED <<ping, alarms>>)
      BY <2>4 DEF Ping
    <3>2. CASE NotFinished
      BY <2>4, <3>2, <1>3
    <3>3. CASE Finished /\ UNCHANGED <<ping, alarms>>
      BY <2>4, <3>3, <1>2 DEF Ping
    <3>4. QED
      BY <3>1, <3>2, <3>3
  <2>5. QED
    BY <1>4, <1>6, <1>13, <2>1, <2>2, <2>3, <2>4 DEF Command
<1>14. CASE PingTimeout \/ PingResponse
  BY <1>14, <1>10 DEF PingTimeout, PingResponse
<1>15. ASSUME NEW ok \in BOOLEAN, SendStatus(ok)
       PROVE  Waiting'
  <2>1. CASE UNCHANGED <<alarms, ping, notified>>
    BY <1>15, <2>1 DEF SendStatus, Waiting, Expected, Tests
  <2>2. CASE alarms' = alarms \ {"ping"} /\ FinishPing("fail")
    BY <1>15, <2>2, <1>10 DEF SendStatus
  <2>3. QED
    BY <1>15, <2>1, <2>2 DEF SendStatus
<1>16. QED
  BY <1>5, <1>9, <1>11, <1>12, <1>13, <1>14, <1>15 DEF Next, Alarm

-----------------------------------------------------------------------------
LEMMA ConsoleStep == ConsoleIInv /\ [Next]_vars => ConsoleIInv'
<1>1. ConsoleIInv /\ Next => ConsoleIInv'
  BY TypeStep, ContextsStep, AlarmsStep, WaitingStep DEF ConsoleIInv
<1>2. ConsoleIInv /\ UNCHANGED vars => ConsoleIInv'
  <2> SUFFICES ASSUME ConsoleIInv, UNCHANGED vars PROVE ConsoleIInv'
    OBVIOUS
  <2> USE DEF ConsoleIInv, TypeInv, vars, asyncVars
  <2>1. TypeRepl' /\ TypeNotified' /\ TypeRequests' /\ TypeCtx' /\ TypeFlags'
    BY DEF TypeRepl, TypeNotified, TypeRequests, TypeCtx, TypeFlags
  <2>2. TypeSends' /\ TypeAlarms' /\ TypeStarts' /\ TypePing' /\ TypeIperf'
    BY DEF TypeSends, TypeAlarms, TypeStarts, TypePing, TypeIperf
  <2>3. DmTypeOK'
    BY DEF DmTypeOK, dmVars
  <2>4. ContextsLive' /\ OneEach' /\ AlarmsMatch'
    BY DEF ContextsLive, OneEach, AlarmsMatch
  <2>5. Waiting'
    BY DEF Waiting, Expected, Tests
  <2>6. QED
    BY <2>1, <2>2, <2>3, <2>4, <2>5
<1>3. QED
  BY <1>1, <1>2

\* The invariant of all that follows: who may still notify the REPL task is
\* the command that it waits for.
THEOREM ConsoleInvariant == Spec => []ConsoleIInv
BY ConsoleStart, ConsoleStep, PTL DEF Spec

\* The types, the data model's lists among them, and the contexts of requests
\* in flight are never freed before their callback.
THEOREM ConsoleSafe == Spec => []ConsoleInv
<1>1. ConsoleIInv => ConsoleInv
  BY Types DEF ConsoleIInv, ConsoleInv
<1>2. QED
  BY <1>1, ConsoleInvariant, PTL

\* esp_zb_console_notify_result is for the command that waits: no notification
\* of an earlier one is left over, unless a match request was answered twice.
THEOREM ResultsOwn == Spec => []OwnResult
<1>1. ConsoleIInv => OwnResult
  BY DEF ConsoleIInv, Waiting, OwnResult
<1>2. QED
  BY <1>1, ConsoleInvariant, PTL

\* ping_ctx and iperf_ctx agree with the alarms, through every failure, early
\* end and start of a peer.
THEOREM AlarmsAgree == Spec => []AlarmsMatch
<1>1. ConsoleIInv => AlarmsMatch
  BY DEF ConsoleIInv
<1>2. QED
  BY <1>1, ConsoleInvariant, PTL

\* "dm add" and "zha add" add all that they name, or nothing.
THEOREM AdditionsAtomic == Spec => AddAtomic
<1>1. ConsoleIInv /\ [Next]_vars => [ret' = "add_failed" => ep_list' = ep_list]_dmVars
  <2> SUFFICES ASSUME ConsoleIInv, [Next]_vars
               PROVE  [ret' = "add_failed" => ep_list' = ep_list]_dmVars
    OBVIOUS
  <2>1. DmNext => (ret' = "add_failed" => ep_list' = ep_list)
    BY DmStep DEF ConsoleIInv, TypeInv
  <2>2. DmReset => ret' # "add_failed"
    BY DEF DmReset
  <2>3. UNCHANGED vars => UNCHANGED dmVars
    BY DEF vars
  <2>4. QED
    BY <2>1, <2>2, <2>3, RestBy
<1>2. QED
  BY <1>1, ConsoleInvariant, PTL DEF Spec, AddAtomic

-----------------------------------------------------------------------------
(* The display: the inductive invariant.                                   *)

AsyncCalls == ({"role"} \X Roles) \cup ({"state"} \X {0}) \cup ({"delete"} \X Nat)
              \cup ({"result"} \X {"ok", "failed"})

TypeUi ==
  /\ ui \in {"off", "wifi read", "wifi registered", "thread read", "on"}
  /\ screen \in {"main", "wifi", "thread", "epskc"}
  /\ role \in Roles /\ wifi \in Links /\ job \in {"none", "posted", "running"}
TypeLayer == layer \in [connecting : BOOLEAN, keyboard : {"none", "ssid", "field", "key"},
                        warnings : Nat]
TypeLv ==
  /\ lv \in [at : {"idle", "create page", "fill page", "stop key"}, page : Nat]
  /\ lv.at = "idle" => lv = AtRest
TypeAsyncs == asyncs \in Seq(AsyncCalls)
TypeKeys == /\ keys \in Nat /\ key \in 0..keys /\ ended \in Seq(1..keys)
            /\ display \in Nat /\ pages \subseteq 1..keys

PagesTyped == TypeUi /\ TypeLayer /\ TypeLv /\ TypeAsyncs /\ TypeKeys

\* Who has a page in hand is the only one, and a key's page is made once, when
\* there is no other: Deletions is DeletedOnce with what the next step needs.
Deletions ==
  /\ DeletedOnce
  /\ lv.at = "create page" => lv.page = keys /\ keys > 0 /\ pages = {}
  /\ \A p, q \in pages : p = q

\* The key in force is the last one that was started and has not ended, and where
\* the LVGL task stands says whether its page is stored.
KeyInForce ==
  /\ key # 0 => key = keys /\ \A i \in 1..Len(ended) : ended[i] # key
  /\ ~nomem /\ ~crossed =>
       /\ key # 0 => screen = "epskc"
       /\ key # 0 /\ lv.at \in {"idle", "fill page"} => display = key

\* While a keyboard is up nothing else happens on the display.
Keyboards ==
  /\ layer.keyboard # "none" => lv = AtRest /\ layer.warnings = 0 /\ ~layer.connecting
  /\ layer.keyboard = "key" => screen = "epskc" /\ pages = {}
  /\ layer.keyboard = "field" => role = "disabled" \/ under

\* What is still to be drawn is the role of the device, if it was told of it.
RoleLabel ==
  /\ ui # "on" => ~Pending("role")
  /\ ui \in {"thread read", "on"} /\ told /\ ~role_old =>
       /\ \A i \in 1..Len(asyncs) : asyncs[i][1] = "role" => asyncs[i][2] = role
       /\ ~Pending("role") => role_label = role

\* The page has heard of the link, and draws what it has heard.
StateLabel ==
  /\ ui = "off" => ~missed
  /\ ui # "off" /\ ~missed => s_wifi_state = Heard(wifi)
  /\ ui # "off" /\ ~Pending("state") => state_label = s_wifi_state

\* One connection at a time, or one result of it, under the page that waits.
Connecting ==
  /\ job # "none" \/ Pending("result") => layer.connecting /\ ~stuck
  /\ layer.connecting /\ ~stuck => /\ job # "none" \/ Pending("result")
                                   /\ layer.warnings = 0
  /\ stuck => layer.connecting
  /\ job # "none" => ~Pending("result")
  /\ \A i, j \in 1..Len(asyncs) :
       asyncs[i][1] = "result" /\ asyncs[j][1] = "result" => i = j
  /\ layer.warnings <= 1

PagesIInv == /\ PagesTyped /\ Deletions /\ KeyInForce /\ Keyboards
             /\ RoleLabel /\ StateLabel /\ Connecting

-----------------------------------------------------------------------------
(* The pending calls.                                                      *)

LEMMA AsyncsDomain == PagesTyped =>
  DOMAIN asyncs = 1..Len(asyncs) /\ Len(asyncs) \in Nat /\ Deletes \subseteq 1..Len(asyncs)
BY DEF PagesTyped, TypeAsyncs, Deletes

\* A call that is added.
LEMMA Called ==
  ASSUME PagesTyped, NEW what, NEW with, <<what, with>> \in AsyncCalls,
         asyncs' = Call(what, with)
  PROVE  /\ asyncs' \in Seq(AsyncCalls) /\ Len(asyncs') = Len(asyncs) + 1
         /\ DOMAIN asyncs' = 1..(Len(asyncs) + 1)
         /\ asyncs'[Len(asyncs) + 1] = <<what, with>>
         /\ \A i \in 1..Len(asyncs) : asyncs'[i] = asyncs[i]
<1> HIDE DEF AsyncCalls
<1>1. asyncs' = Append(asyncs, <<what, with>>)
  BY DEF Call
<1>2. asyncs \in Seq(AsyncCalls)
  BY DEF PagesTyped, TypeAsyncs
<1>3. QED
  BY <1>1, <1>2

\* A call that has run.
LEMMA Ran ==
  ASSUME PagesTyped, NEW i \in DOMAIN asyncs, asyncs' = RemoveAt(asyncs, i)
  PROVE  /\ asyncs' \in Seq(AsyncCalls) /\ Len(asyncs') = Len(asyncs) - 1
         /\ DOMAIN asyncs' = 1..(Len(asyncs) - 1)
         /\ \A j \in 1..(Len(asyncs) - 1) : asyncs'[j] = asyncs[IF j < i THEN j ELSE j + 1]
<1> HIDE DEF AsyncCalls
<1>1. asyncs \in Seq(AsyncCalls) /\ i \in 1..Len(asyncs) /\ Len(asyncs) \in Nat
  BY DEF PagesTyped, TypeAsyncs
<1> DEFINE before == SubSeq(asyncs, 1, i - 1)
           after  == SubSeq(asyncs, i + 1, Len(asyncs))
<1>2. /\ before \in Seq(AsyncCalls) /\ Len(before) = i - 1
      /\ \A j \in 1..(i - 1) : before[j] = asyncs[j]
  BY <1>1
<1>3. /\ after \in Seq(AsyncCalls) /\ Len(after) = Len(asyncs) - i
      /\ \A j \in 1..(Len(asyncs) - i) : after[j] = asyncs[i + j]
  BY <1>1
<1>4. asyncs' = before \o after
  BY DEF RemoveAt
<1> HIDE DEF before, after
<1>5. /\ asyncs' \in Seq(AsyncCalls) /\ Len(asyncs') = Len(asyncs) - 1
      /\ DOMAIN asyncs' = 1..(Len(asyncs) - 1)
  BY <1>1, <1>2, <1>3, <1>4
<1>6. ASSUME NEW j \in 1..(Len(asyncs) - 1)
      PROVE  asyncs'[j] = asyncs[IF j < i THEN j ELSE j + 1]
  <2>1. CASE j < i
    BY <1>1, <1>2, <1>3, <1>4, <2>1
  <2>2. CASE j >= i
    <3>1. asyncs'[j] = after[j - (i - 1)]
      <4>1. j \in 1..(Len(before) + Len(after)) /\ j > Len(before)
        BY <1>1, <1>2, <1>3, <2>2
      <4>2. before \in Seq(AsyncCalls) /\ after \in Seq(AsyncCalls)
        BY <1>2, <1>3
      <4>3. (before \o after)[j] = after[j - Len(before)]
        BY ONLY <4>1, <4>2
      <4>4. QED
        BY <1>2, <1>4, <4>3
    <3>2. after[j - (i - 1)] = asyncs[i + (j - (i - 1))]
      BY <1>1, <1>3, <2>2
    <3>3. i + (j - (i - 1)) = j + 1
      BY <1>1
    <3>4. QED
      BY <1>1, <2>2, <3>1, <3>2, <3>3
  <2>3. QED
    BY <1>1, <2>1, <2>2
<1>7. QED
  BY <1>5, <1>6

\* Which calls are then pending.
LEMMA RanOne ==
  ASSUME PagesTyped, NEW i \in DOMAIN asyncs, asyncs' = RemoveAt(asyncs, i)
  PROVE  /\ \A j \in DOMAIN asyncs' : \E k \in DOMAIN asyncs \ {i} : asyncs'[j] = asyncs[k]
         /\ \A k \in DOMAIN asyncs \ {i} : \E j \in DOMAIN asyncs' : asyncs'[j] = asyncs[k]
<1>1. i \in 1..Len(asyncs) /\ Len(asyncs) \in Nat /\ DOMAIN asyncs = 1..Len(asyncs)
  BY AsyncsDomain
<1>2. /\ DOMAIN asyncs' = 1..(Len(asyncs) - 1)
      /\ \A j \in 1..(Len(asyncs) - 1) : asyncs'[j] = asyncs[IF j < i THEN j ELSE j + 1]
  BY Ran
<1>3. ASSUME NEW j \in DOMAIN asyncs'
      PROVE  \E k \in DOMAIN asyncs \ {i} : asyncs'[j] = asyncs[k]
  <2>1. (IF j < i THEN j ELSE j + 1) \in DOMAIN asyncs \ {i}
    BY <1>1, <1>2
  <2>2. QED
    BY <1>2, <2>1
<1>4. ASSUME NEW k \in DOMAIN asyncs \ {i}
      PROVE  \E j \in DOMAIN asyncs' : asyncs'[j] = asyncs[k]
  <2> DEFINE j == IF k < i THEN k ELSE k - 1
  <2>1. j \in 1..(Len(asyncs) - 1) /\ (IF j < i THEN j ELSE j + 1) = k
    BY <1>1
  <2> HIDE DEF j
  <2>2. QED
    BY <1>2, <2>1
<1>5. QED
  BY <1>3, <1>4

-----------------------------------------------------------------------------
(* What a step that leaves its variables alone keeps.                      *)

LEMMA SameUi == TypeUi /\ UNCHANGED <<ui, screen, role, wifi, job>> => TypeUi'
BY DEF TypeUi

LEMMA SameLayer == TypeLayer /\ UNCHANGED layer => TypeLayer'
BY DEF TypeLayer

LEMMA SameLv == TypeLv /\ UNCHANGED lv => TypeLv'
BY DEF TypeLv, AtRest

LEMMA SameAsyncs == TypeAsyncs /\ UNCHANGED asyncs => TypeAsyncs'
BY DEF TypeAsyncs

LEMMA SameKeys == TypeKeys /\ UNCHANGED <<keys, key, ended, display, pages>> => TypeKeys'
BY DEF TypeKeys

LEMMA SameDeletions ==
  Deletions /\ UNCHANGED <<asyncs, lv, keys, display, pages, nomem>> => Deletions'
<1> SUFFICES ASSUME Deletions, asyncs' = asyncs, lv' = lv, keys' = keys,
                    display' = display, pages' = pages, nomem' = nomem
             PROVE  Deletions'
  OBVIOUS
<1>1. Deletes' = Deletes
  BY DEF Deletes
<1>2. DeletedOnce'
  BY <1>1 DEF Deletions, DeletedOnce
<1>3. QED
  BY <1>2 DEF Deletions

LEMMA SameInForce ==
  KeyInForce /\ UNCHANGED <<screen, lv, keys, key, ended, display, crossed, nomem>>
    => KeyInForce'
<1> SUFFICES ASSUME KeyInForce, screen' = screen, lv' = lv, keys' = keys, key' = key,
                    ended' = ended, display' = display, crossed' = crossed, nomem' = nomem
             PROVE  KeyInForce'
  OBVIOUS
<1>1. key # 0 => key = keys /\ \A i \in 1..Len(ended) : ended[i] # key
  BY DEF KeyInForce
<1>2. QED
  BY <1>1 DEF KeyInForce

LEMMA SameKeyboards ==
  Keyboards /\ UNCHANGED <<screen, layer, lv, pages, role, under>> => Keyboards'
BY DEF Keyboards, AtRest

LEMMA SameRoleLabel ==
  RoleLabel /\ UNCHANGED <<ui, asyncs, role, told, role_label, role_old>> => RoleLabel'
<1> SUFFICES ASSUME RoleLabel, ui' = ui, asyncs' = asyncs, role' = role, told' = told,
                    role_label' = role_label, role_old' = role_old
             PROVE  RoleLabel'
  OBVIOUS
<1>1. Pending("role")' <=> Pending("role")
  BY DEF Pending
<1>2. QED
  BY <1>1 DEF RoleLabel

LEMMA SameStateLabel ==
  StateLabel /\ UNCHANGED <<ui, asyncs, wifi, s_wifi_state, state_label, missed>>
    => StateLabel'
BY DEF StateLabel, Pending, Heard

LEMMA SameConnecting ==
  Connecting /\ UNCHANGED <<layer, asyncs, job, stuck>> => Connecting'
BY DEF Connecting, Pending

\* A warning that comes or goes, or a page in front of which nothing lies.
LEMMA WarningEndsStep == PagesIInv /\ WarningEnds => PagesIInv'
<1> SUFFICES ASSUME PagesIInv, WarningEnds PROVE PagesIInv'
  OBVIOUS
<1> USE DEF PagesIInv, PagesTyped
<1>1. /\ layer.warnings > 0 /\ layer' = [layer EXCEPT !.warnings = @ - 1] /\ lv = AtRest
      /\ UNCHANGED <<ui, screen, lv, asyncs>>
      /\ UNCHANGED <<keys, key, ended, display, pages, crossed, nomem>>
      /\ UNCHANGED <<role, told, role_label, role_old, dataset, under>>
      /\ UNCHANGED <<wifi, s_wifi_state, state_label, missed, ssid, job, stuck>>
  BY DEF WarningEnds, keyVars, threadVars, wifiPage
<1>2. /\ layer' = [connecting |-> layer.connecting, keyboard |-> layer.keyboard,
                   warnings |-> layer.warnings - 1]
      /\ layer.warnings \in Nat
  BY <1>1 DEF TypeLayer
<1>3. TypeLayer'
  BY <1>1, <1>2 DEF TypeLayer
<1>4. Keyboards'
  BY <1>1, <1>2 DEF Keyboards
<1>5. Connecting'
  BY <1>1, <1>2 DEF Connecting, Pending
<1>6. QED
  BY <1>1, <1>3, <1>4, <1>5, SameUi, SameLv, SameAsyncs, SameKeys, SameDeletions,
     SameInForce, SameRoleLabel, SameStateLabel

\* What Touches says, with presses left out.
LEMMA Touched ==
  ASSUME PagesIInv, NEW page, Touches(page)
  PROVE  /\ ui = "on" /\ screen = page /\ lv = AtRest /\ job # "running"
         /\ layer = [connecting |-> FALSE, keyboard |-> "none", warnings |-> 0]
         /\ lv.at = "idle" /\ lv.page = 0
<1>1. /\ layer = [connecting |-> layer.connecting, keyboard |-> layer.keyboard,
                  warnings |-> layer.warnings]
      /\ layer.connecting \in BOOLEAN /\ layer.warnings \in Nat
  BY DEF PagesIInv, PagesTyped, TypeLayer
<1>2. /\ ui = "on" /\ screen = page /\ lv = AtRest /\ job # "running"
      /\ layer.connecting = FALSE /\ layer.keyboard = "none" /\ layer.warnings = 0
  BY <1>1 DEF Touches, LockFree
<1>3. QED
  BY <1>1, <1>2 DEF AtRest

\* A warning, and what else it may come with, where nothing lay on the page.
LEMMA WarnedLayer ==
  ASSUME PagesIInv, NEW page, Touches(page), Warns
  PROVE  layer' = [connecting |-> FALSE, keyboard |-> "none", warnings |-> 1]
<1>1. layer = [connecting |-> FALSE, keyboard |-> "none", warnings |-> 0]
  BY Touched
<1>2. layer' = [layer EXCEPT !.warnings = layer.warnings + 1] /\ layer.warnings = 0
  BY <1>1 DEF Warns
<1>3. layer' = [[connecting |-> FALSE, keyboard |-> "none", warnings |-> 0]
                  EXCEPT !.warnings = 1]
  BY ONLY <1>1, <1>2
<1>4. QED
  BY ONLY <1>3

LEMMA CreateUiStep == PagesIInv /\ CreateUi => PagesIInv'
<1> SUFFICES ASSUME PagesIInv, CreateUi PROVE PagesIInv'
  OBVIOUS
<1> USE DEF PagesIInv, PagesTyped
<1>1. /\ UNCHANGED <<screen, layer, lv, asyncs>>
      /\ UNCHANGED <<keys, key, ended, display, pages, crossed, nomem>>
  BY DEF CreateUi, keyVars
<1>2. /\ UNCHANGED <<role, told, role_old, dataset, under>>
      /\ UNCHANGED <<wifi, missed, ssid, job, stuck>>
  BY DEF CreateUi, WifiReads, ThreadReads, Registers, threadVars, wifiPage
<1>3. Pending("role")' = Pending("role") /\ Pending("state")' = Pending("state")
  BY <1>1 DEF Pending
<1>4. TypeUi'
  BY <1>1, <1>2 DEF CreateUi, WifiReads, ThreadReads, Registers, TypeUi
<1>5. RoleLabel'
  <2>1. CASE WifiReads
    <3>1. ui' = "wifi read" /\ ui # "on"
      BY <2>1 DEF WifiReads
    <3>2. QED
      BY <1>3, <3>1 DEF RoleLabel
  <2>2. CASE ThreadReads
    <3>1. ui' = "thread read" /\ ui # "on" /\ role_label' = role'
      BY <1>2, <2>2 DEF ThreadReads
    <3>2. ~Pending("role")'
      BY <1>3, <3>1 DEF RoleLabel
    <3>3. \A i \in 1..Len(asyncs') : asyncs'[i][1] # "role"
      BY <3>2, <1>1, AsyncsDomain DEF Pending
    <3>4. QED
      BY <3>1, <3>2, <3>3 DEF RoleLabel
  <2>3. CASE Registers
    <3>1. /\ UNCHANGED <<role, told, role_label, role_old>> /\ ui # "on"
          /\ ui' = "on" => ui = "thread read"
          /\ ui' # "thread read"
      BY <2>3 DEF Registers, threadVars
    <3>2. QED
      BY <1>1, <1>3, <3>1 DEF RoleLabel
  <2>4. QED
    BY <2>1, <2>2, <2>3 DEF CreateUi
<1>6. StateLabel'
  <2>1. CASE WifiReads
    BY <1>2, <1>3, <2>1 DEF WifiReads, StateLabel, Heard
  <2>2. CASE ThreadReads
    <3>1. ui # "off" /\ ui' # "off" /\ UNCHANGED <<wifi, s_wifi_state, state_label, missed>>
      BY <2>2 DEF ThreadReads, wifiPage
    <3>2. QED
      BY <1>3, <3>1 DEF StateLabel, Heard
  <2>3. CASE Registers
    <3>1. ui # "off" /\ ui' # "off" /\ UNCHANGED <<wifi, s_wifi_state, state_label, missed>>
      BY <2>3 DEF Registers, wifiPage
    <3>2. QED
      BY <1>3, <3>1 DEF StateLabel, Heard
  <2>4. QED
    BY <2>1, <2>2, <2>3 DEF CreateUi
<1>7. QED
  BY <1>1, <1>2, <1>4, <1>5, <1>6, SameLayer, SameLv, SameAsyncs, SameKeys, SameDeletions,
     SameInForce, SameKeyboards, SameConnecting

LEMMA RoleChangesStep ==
  ASSUME PagesIInv, NEW r \in Roles, RoleChanges(r) PROVE PagesIInv'
<1> USE DEF PagesIInv, PagesTyped
<1>1. /\ UNCHANGED <<ui, screen, layer, lv, asyncs, role_label, role_old, dataset>>
      /\ UNCHANGED <<keys, key, ended, display, pages, crossed, nomem>>
      /\ UNCHANGED <<wifi, s_wifi_state, state_label, missed, ssid, job, stuck>>
      /\ role' = r /\ told' = FALSE
      /\ under' = (under \/ (role = "disabled" /\ layer.keyboard = "field"))
  BY DEF RoleChanges, keyVars, wifiPage
<1>2. TypeUi'
  BY <1>1 DEF TypeUi
<1>3. RoleLabel'
  <2>1. Pending("role")' = Pending("role")
    BY <1>1 DEF Pending
  <2>2. QED
    BY <1>1, <2>1 DEF RoleLabel
<1>4. Keyboards'
  BY <1>1 DEF Keyboards, AtRest
<1>5. QED
  BY <1>1, <1>2, <1>3, <1>4, SameLayer, SameLv, SameAsyncs, SameKeys, SameDeletions,
     SameInForce, SameStateLabel, SameConnecting

LEMMA DisplayStep ==
  ASSUME PagesIInv, NEW page \in {"wifi", "thread", "epskc"}, Display(page)
  PROVE  PagesIInv'
<1> USE DEF PagesIInv, PagesTyped
<1>1. /\ UNCHANGED <<ui, lv, asyncs>>
      /\ UNCHANGED <<keys, key, ended, display, pages, crossed, nomem>>
      /\ UNCHANGED <<role, told, role_label, role_old, dataset, under>>
      /\ UNCHANGED <<wifi, s_wifi_state, state_label, missed, ssid, job, stuck>>
  BY DEF Display, keyVars, threadVars, wifiPage
<1>2. /\ screen = "main" /\ lv = AtRest
      /\ layer = [connecting |-> FALSE, keyboard |-> "none", warnings |-> 0]
  BY Touched DEF Display
<1>3. screen' \in {screen, page}
  BY DEF Display
<1>4. \E w \in {0, 1} : layer' = [connecting |-> FALSE, keyboard |-> "none", warnings |-> w]
  BY <1>2, WarnedLayer DEF Display
<1>5. TypeUi' /\ TypeLayer'
  <2>1. screen' \in {"main", "wifi", "thread", "epskc"}
    BY <1>2, <1>3
  <2>2. TypeLayer'
    BY <1>4 DEF TypeLayer
  <2>3. QED
    BY <1>1, <2>1, <2>2 DEF TypeUi
<1>6. Keyboards'
  BY <1>4 DEF Keyboards
<1>7. KeyInForce'
  BY <1>1, <1>2 DEF KeyInForce
<1>8. Connecting'
  BY <1>1, <1>2, <1>4 DEF Connecting, Pending
<1>9. QED
  BY <1>1, <1>5, <1>6, <1>7, <1>8, SameLv, SameAsyncs, SameKeys, SameDeletions,
     SameRoleLabel, SameStateLabel

LEMMA HideStep == PagesIInv /\ Hide => PagesIInv'
<1> SUFFICES ASSUME PagesIInv, Hide PROVE PagesIInv'
  OBVIOUS
<1> USE DEF PagesIInv, PagesTyped
<1>1. /\ UNCHANGED <<ui, layer, lv, asyncs>>
      /\ UNCHANGED <<keys, key, ended, display, pages, crossed, nomem>>
      /\ UNCHANGED <<role, told, role_label, role_old, dataset, under>>
      /\ UNCHANGED <<wifi, s_wifi_state, state_label, missed, ssid, job, stuck>>
      /\ screen' = "main" /\ (screen = "epskc" => pages = {})
  BY DEF Hide, keyVars, threadVars, wifiPage
<1>2. lv = AtRest /\ lv.at = "idle" /\ layer.keyboard = "none"
  BY Touched DEF Hide
<1>3. TypeUi'
  BY <1>1 DEF TypeUi
<1>4. Keyboards'
  BY <1>1, <1>2 DEF Keyboards
<1>5. ~nomem /\ ~crossed => key = 0
  BY <1>1, <1>2 DEF KeyInForce, Deletions, DeletedOnce
<1>6. KeyInForce'
  BY <1>1, <1>2, <1>5 DEF KeyInForce
<1>7. QED
  BY <1>1, <1>3, <1>4, <1>6, SameLayer, SameLv, SameAsyncs, SameKeys, SameDeletions,
     SameRoleLabel, SameStateLabel, SameConnecting

-----------------------------------------------------------------------------
(* Steps that leave a call for the LVGL task, and the calls.               *)

LEMMA CalledPending ==
  ASSUME PagesTyped, NEW what, NEW with, <<what, with>> \in AsyncCalls,
         asyncs' = Call(what, with)
  PROVE  \A w : Pending(w)' <=> Pending(w) \/ w = what
<1>1. /\ DOMAIN asyncs = 1..Len(asyncs) /\ Len(asyncs) \in Nat
      /\ DOMAIN asyncs' = 1..(Len(asyncs) + 1)
      /\ asyncs'[Len(asyncs) + 1] = <<what, with>>
      /\ \A i \in 1..Len(asyncs) : asyncs'[i] = asyncs[i]
  BY AsyncsDomain, Called
<1>2. ASSUME NEW w, \E i \in DOMAIN asyncs' : asyncs'[i][1] = w
      PROVE  w = what \/ \E i \in DOMAIN asyncs : asyncs[i][1] = w
  BY ONLY <1>1, <1>2
<1>3. ASSUME NEW w, w = what \/ \E i \in DOMAIN asyncs : asyncs[i][1] = w
      PROVE  \E i \in DOMAIN asyncs' : asyncs'[i][1] = w
  BY ONLY <1>1, <1>3
<1>4. QED
  BY <1>2, <1>3 DEF Pending

LEMMA CalledDeletions ==
  ASSUME PagesTyped, Deletions, NEW what, NEW with, <<what, with>> \in AsyncCalls,
         asyncs' = Call(what, with), what # "delete",
         UNCHANGED <<lv, keys, display, pages, nomem>>
  PROVE  Deletions'
<1>1. /\ DOMAIN asyncs = 1..Len(asyncs) /\ Len(asyncs) \in Nat
      /\ DOMAIN asyncs' = 1..(Len(asyncs) + 1)
      /\ asyncs'[Len(asyncs) + 1] = <<what, with>>
      /\ \A i \in 1..Len(asyncs) : asyncs'[i] = asyncs[i]
  BY AsyncsDomain, Called
<1>2. <<what, with>>[1] # "delete"
  OBVIOUS
<1>3. /\ {i \in DOMAIN asyncs' : asyncs'[i][1] = "delete"}
         = {i \in DOMAIN asyncs : asyncs[i][1] = "delete"}
      /\ \A i \in DOMAIN asyncs : asyncs'[i] = asyncs[i]
  BY ONLY <1>1, <1>2
<1>4. Deletes' = Deletes /\ \A i \in Deletes : asyncs'[i] = asyncs[i]
  BY <1>3 DEF Deletes
<1>5. DeletedOnce'
  <2> SUFFICES ASSUME ~nomem PROVE DeletedOnce'
    BY DEF DeletedOnce
  <2>1. ASSUME NEW i \in Deletes'
        PROVE  /\ asyncs'[i][2] \in pages' \ {display'}
               /\ lv'.at = "stop key" => asyncs'[i][2] # lv'.page
               /\ \A j \in Deletes' : asyncs'[i] = asyncs'[j] => i = j
    <3>1. i \in Deletes /\ asyncs'[i] = asyncs[i]
      BY <1>4, <2>1
    <3>2. /\ asyncs[i][2] \in pages \ {display}
          /\ lv.at = "stop key" => asyncs[i][2] # lv.page
          /\ \A j \in Deletes : asyncs[i] = asyncs[j] => i = j
      BY <3>1 DEF Deletions, DeletedOnce
    <3>3. QED
      BY <1>4, <3>1, <3>2
  <2>2. /\ lv'.at = "stop key" => lv'.page \in pages' \ {display'}
        /\ display' # 0 => display' \in pages'
    BY DEF Deletions, DeletedOnce
  <2>3. QED
    BY <2>1, <2>2 DEF DeletedOnce
<1>6. QED
  BY <1>5 DEF Deletions

LEMMA CalledType ==
  ASSUME PagesTyped, NEW what, NEW with, <<what, with>> \in AsyncCalls,
         asyncs' = Call(what, with)
  PROVE  TypeAsyncs'
BY Called DEF TypeAsyncs

\* No call to draw a role comes between: the role's label is as it was.
LEMMA CalledRoleLabel ==
  ASSUME PagesTyped, RoleLabel, NEW what, NEW with, <<what, with>> \in AsyncCalls,
         asyncs' = Call(what, with), what # "role",
         UNCHANGED <<ui, role, told, role_label, role_old>>
  PROVE  RoleLabel'
<1>1. Pending("role")' <=> Pending("role")
  BY CalledPending
<1>2. /\ Len(asyncs) \in Nat /\ Len(asyncs') = Len(asyncs) + 1
      /\ asyncs'[Len(asyncs) + 1][1] = what
      /\ \A i \in 1..Len(asyncs) : asyncs'[i] = asyncs[i]
  BY AsyncsDomain, Called
<1>3. ASSUME \A i \in 1..Len(asyncs) : asyncs[i][1] = "role" => asyncs[i][2] = role
      PROVE  \A i \in 1..Len(asyncs') : asyncs'[i][1] = "role" => asyncs'[i][2] = role
  BY <1>2, <1>3
<1>4. QED
  BY <1>1, <1>3 DEF RoleLabel

LEMMA CalledStateLabel ==
  ASSUME PagesTyped, StateLabel, NEW what, NEW with, <<what, with>> \in AsyncCalls,
         asyncs' = Call(what, with),
         UNCHANGED <<ui, wifi, s_wifi_state, state_label, missed>>
  PROVE  StateLabel'
<1>1. Pending("state") => Pending("state")'
  BY CalledPending
<1>2. QED
  BY <1>1 DEF StateLabel, Heard

LEMMA CalledConnecting ==
  ASSUME PagesTyped, Connecting, NEW what, NEW with, <<what, with>> \in AsyncCalls,
         asyncs' = Call(what, with), what # "result",
         UNCHANGED <<layer, job, stuck>>
  PROVE  Connecting'
<1>1. Pending("result")' <=> Pending("result")
  BY CalledPending
<1>2. /\ Len(asyncs) \in Nat /\ Len(asyncs') = Len(asyncs) + 1
      /\ asyncs'[Len(asyncs) + 1][1] = what
      /\ \A i \in 1..Len(asyncs) : asyncs'[i] = asyncs[i]
  BY AsyncsDomain, Called
<1>3. \A i \in 1..Len(asyncs') : asyncs'[i][1] = "result"
                                   => i \in 1..Len(asyncs) /\ asyncs[i][1] = "result"
  BY <1>2
<1>4. \A i, j \in 1..Len(asyncs') :
        asyncs'[i][1] = "result" /\ asyncs'[j][1] = "result" => i = j
  BY <1>3 DEF Connecting
<1>5. QED
  BY <1>1, <1>4 DEF Connecting

LEMMA ThreadUpdateStep == PagesIInv /\ ThreadUpdateMsg => PagesIInv'
<1> SUFFICES ASSUME PagesIInv, ThreadUpdateMsg PROVE PagesIInv'
  OBVIOUS
<1> USE DEF PagesIInv, PagesTyped
<1>1. /\ UNCHANGED <<ui, screen, layer, lv, role, role_label, dataset, under>>
      /\ UNCHANGED <<keys, key, ended, display, pages, crossed, nomem>>
      /\ UNCHANGED <<wifi, s_wifi_state, state_label, missed, ssid, job, stuck>>
      /\ ~told /\ told' = TRUE
      /\ IF ui = "on" THEN asyncs' = Call("role", role) /\ role_old' = Pending("role")
         ELSE asyncs' = asyncs /\ role_old' = (ui = "thread read")
  BY DEF ThreadUpdateMsg, ThreadUpdate, keyVars, wifiPage
<1>2. <<"role", role>> \in AsyncCalls
  BY DEF AsyncCalls, TypeUi
<1>3. CASE ui = "on"
  <2>1. asyncs' = Call("role", role) /\ role_old' = Pending("role")
    BY <1>1, <1>3
  <2>2. /\ Len(asyncs) \in Nat /\ Len(asyncs') = Len(asyncs) + 1
        /\ asyncs'[Len(asyncs) + 1] = <<"role", role>>
        /\ \A i \in 1..Len(asyncs) : asyncs'[i] = asyncs[i]
        /\ DOMAIN asyncs = 1..Len(asyncs)
    BY <1>2, <2>1, AsyncsDomain, Called
  <2>3. ~Pending("role") => \A i \in 1..Len(asyncs) : asyncs[i][1] # "role"
    BY <2>2 DEF Pending
  <2>4. ~Pending("role") => \A i \in 1..Len(asyncs') :
                              asyncs'[i][1] = "role" => asyncs'[i][2] = role
    BY <2>2, <2>3
  <2>5. Pending("role")'
    BY <1>2, <2>1, CalledPending
  <2>6. RoleLabel'
    BY <1>1, <1>3, <2>1, <2>4, <2>5 DEF RoleLabel
  <2>7. TypeAsyncs' /\ Deletions' /\ StateLabel' /\ Connecting'
    BY <1>1, <1>2, <2>1, CalledType, CalledDeletions, CalledStateLabel, CalledConnecting
  <2>8. QED
    BY <1>1, <2>6, <2>7, SameUi, SameLayer, SameLv, SameKeys, SameInForce, SameKeyboards
<1>4. CASE ui # "on"
  <2>1. asyncs' = asyncs /\ role_old' = (ui = "thread read")
    BY <1>1, <1>4
  <2>2. Pending("role")' <=> Pending("role")
    BY <2>1 DEF Pending
  <2>3. RoleLabel'
    BY <1>1, <1>4, <2>1, <2>2 DEF RoleLabel
  <2>4. QED
    BY <1>1, <2>1, <2>3, SameUi, SameLayer, SameLv, SameAsyncs, SameKeys, SameDeletions,
       SameInForce, SameKeyboards, SameStateLabel, SameConnecting
<1>5. QED
  BY <1>3, <1>4

LEMMA LinkChangesStep ==
  ASSUME PagesIInv, NEW link \in Links, LinkChanges(link) PROVE PagesIInv'
<1> USE DEF PagesIInv, PagesTyped
<1>1. /\ UNCHANGED <<ui, screen, layer, lv, state_label, ssid, job, stuck>>
      /\ UNCHANGED <<keys, key, ended, display, pages, crossed, nomem>>
      /\ UNCHANGED <<role, told, role_label, role_old, dataset, under>>
      /\ wifi' = link
  BY DEF LinkChanges, keyVars, threadVars
<1>2. TypeUi'
  BY <1>1 DEF TypeUi
<1>3. <<"state", 0>> \in AsyncCalls
  BY DEF AsyncCalls
<1>4. CASE ui \in {"off", "wifi read"}
  <2>1. /\ missed' = (missed \/ ui = "wifi read") /\ s_wifi_state' = s_wifi_state
        /\ asyncs' = asyncs
    BY <1>4 DEF LinkChanges
  <2>2. Pending("state")' <=> Pending("state")
    BY <2>1 DEF Pending
  <2>3. StateLabel'
    BY <1>1, <1>4, <2>1, <2>2 DEF StateLabel
  <2>4. QED
    BY <1>1, <1>2, <2>1, <2>3, SameLayer, SameLv, SameAsyncs, SameKeys, SameDeletions,
       SameInForce, SameKeyboards, SameRoleLabel, SameConnecting
<1>5. CASE ui \notin {"off", "wifi read"}
  <2>1. /\ s_wifi_state' = Heard(link) /\ missed' = FALSE
        /\ asyncs' = IF s_wifi_state' # s_wifi_state THEN Call("state", 0) ELSE asyncs
    BY <1>5 DEF LinkChanges
  <2>2. Heard(wifi)' = Heard(link)
    BY <1>1 DEF Heard
  <2>3. CASE s_wifi_state' # s_wifi_state
    <3>1. asyncs' = Call("state", 0)
      BY <2>1, <2>3
    <3>2. Pending("state")'
      BY <1>3, <3>1, CalledPending
    <3>3. StateLabel'
      BY <1>1, <1>5, <2>1, <2>2, <3>2 DEF StateLabel
    <3>4. TypeAsyncs' /\ Deletions' /\ RoleLabel' /\ Connecting'
      BY <1>1, <1>3, <3>1, CalledType, CalledDeletions, CalledRoleLabel, CalledConnecting
    <3>5. QED
      BY <1>1, <1>2, <3>3, <3>4, SameLayer, SameLv, SameKeys, SameInForce, SameKeyboards
  <2>4. CASE s_wifi_state' = s_wifi_state
    <3>1. asyncs' = asyncs
      BY <2>1, <2>4
    <3>2. Pending("state")' <=> Pending("state")
      BY <3>1 DEF Pending
    <3>3. StateLabel'
      BY <1>1, <1>5, <2>1, <2>2, <2>4, <3>2 DEF StateLabel
    <3>4. QED
      BY <1>1, <1>2, <3>1, <3>3, SameLayer, SameLv, SameAsyncs, SameKeys, SameDeletions,
         SameInForce, SameKeyboards, SameRoleLabel, SameConnecting
  <2>5. QED
    BY <2>3, <2>4
<1>6. QED
  BY <1>4, <1>5

LEMMA ConnectTaskStep == PagesIInv /\ ConnectTask => PagesIInv'
<1> SUFFICES ASSUME PagesIInv, ConnectTask PROVE PagesIInv'
  OBVIOUS
<1> USE DEF PagesIInv, PagesTyped
<1>1. /\ UNCHANGED <<ui, screen, layer, lv, wifi, s_wifi_state, state_label, missed, ssid>>
      /\ UNCHANGED <<keys, key, ended, display, pages, crossed, nomem>>
      /\ UNCHANGED <<role, told, role_label, role_old, dataset, under, stuck>>
      /\ job # "none"
  BY DEF ConnectTask, keyVars, threadVars
<1>2. CASE job' = "running" /\ asyncs' = asyncs
  <2>1. TypeUi'
    BY <1>1, <1>2 DEF TypeUi
  <2>2. Pending("result")' <=> Pending("result")
    BY <1>2 DEF Pending
  <2>3. Connecting'
    BY <1>1, <1>2, <2>2 DEF Connecting
  <2>4. QED
    BY <1>1, <1>2, <2>1, <2>3, SameLayer, SameLv, SameAsyncs, SameKeys, SameDeletions,
       SameInForce, SameKeyboards, SameRoleLabel, SameStateLabel
<1>3. ASSUME job' = "none", NEW r \in {"ok", "failed"}, Reports(r) PROVE PagesIInv'
  <2>1. asyncs' = Call("result", r)
    BY <1>3 DEF Reports
  <2>2. <<"result", r>> \in AsyncCalls
    BY DEF AsyncCalls
  <2>3. TypeUi'
    BY <1>1, <1>3 DEF TypeUi
  <2>4. Pending("result")' /\ ~Pending("result") /\ layer.connecting /\ ~stuck
        /\ layer.warnings = 0
    BY <1>1, <2>1, <2>2, CalledPending DEF Connecting
  <2>5. /\ Len(asyncs) \in Nat /\ Len(asyncs') = Len(asyncs) + 1
        /\ \A i \in 1..Len(asyncs) : asyncs'[i] = asyncs[i]
        /\ DOMAIN asyncs = 1..Len(asyncs)
    BY <2>1, <2>2, AsyncsDomain, Called
  <2>6. \A i \in 1..Len(asyncs) : asyncs'[i][1] # "result"
    BY <2>4, <2>5 DEF Pending
  <2>7. \A i, j \in 1..Len(asyncs') :
          asyncs'[i][1] = "result" /\ asyncs'[j][1] = "result" => i = j
    BY <2>5, <2>6
  <2>8. Connecting'
    BY <1>1, <1>3, <2>4, <2>7 DEF Connecting
  <2>9. TypeAsyncs' /\ Deletions' /\ RoleLabel' /\ StateLabel'
    BY <1>1, <2>1, <2>2, CalledType, CalledDeletions, CalledRoleLabel, CalledStateLabel
  <2>10. QED
    BY <1>1, <2>3, <2>8, <2>9, SameLayer, SameLv, SameKeys, SameInForce, SameKeyboards
<1>4. QED
  BY <1>2, <1>3 DEF ConnectTask

LEMMA RanPending ==
  ASSUME PagesTyped, NEW i \in DOMAIN asyncs, asyncs' = RemoveAt(asyncs, i)
  PROVE  \A w : Pending(w)' <=> \E k \in DOMAIN asyncs \ {i} : asyncs[k][1] = w
<1>1. /\ \A j \in DOMAIN asyncs' : \E k \in DOMAIN asyncs \ {i} : asyncs'[j] = asyncs[k]
      /\ \A k \in DOMAIN asyncs \ {i} : \E j \in DOMAIN asyncs' : asyncs'[j] = asyncs[k]
  BY RanOne
<1>2. QED
  BY ONLY <1>1 DEF Pending

\* Of calls of a kind that are all different, the others are left, and are.
LEMMA RanDistinct ==
  ASSUME PagesTyped, NEW i \in DOMAIN asyncs, asyncs' = RemoveAt(asyncs, i)
  PROVE  \E at \in [DOMAIN asyncs' -> DOMAIN asyncs \ {i}] :
           /\ \A j \in DOMAIN asyncs' : asyncs'[j] = asyncs[at[j]]
           /\ \A j, k \in DOMAIN asyncs' : at[j] = at[k] => j = k
<1> DEFINE at == [j \in 1..(Len(asyncs) - 1) |-> IF j < i THEN j ELSE j + 1]
<1>1. /\ Len(asyncs) \in Nat /\ i \in 1..Len(asyncs) /\ DOMAIN asyncs = 1..Len(asyncs)
      /\ DOMAIN asyncs' = 1..(Len(asyncs) - 1)
      /\ \A j \in 1..(Len(asyncs) - 1) : asyncs'[j] = asyncs[IF j < i THEN j ELSE j + 1]
  BY AsyncsDomain, Ran
<1>2. at \in [DOMAIN asyncs' -> DOMAIN asyncs \ {i}]
  BY ONLY <1>1
<1>3. \A j \in DOMAIN asyncs' : asyncs'[j] = asyncs[at[j]]
  BY ONLY <1>1
<1>4. \A j, k \in DOMAIN asyncs' : at[j] = at[k] => j = k
  BY ONLY <1>1
<1> HIDE DEF at
<1>5. QED
  BY <1>2, <1>3, <1>4

\* A call runs: what each conjunct needs of it.
RunsCall(i) == /\ PagesIInv /\ i \in DOMAIN asyncs /\ AsyncCall(i)

LEMMA RunsFrame ==
  ASSUME NEW i, RunsCall(i)
  PROVE  /\ UNCHANGED <<ui, screen, lv, role, told, role_old, dataset, under>>
         /\ UNCHANGED <<keys, key, ended, display, crossed, nomem>>
         /\ UNCHANGED <<wifi, s_wifi_state, missed, ssid, job, stuck>>
         /\ lv = AtRest /\ asyncs' = RemoveAt(asyncs, i) /\ asyncs[i] \in AsyncCalls
         /\ DOMAIN asyncs = 1..Len(asyncs) /\ Len(asyncs) \in Nat /\ PagesTyped
<1>1. PagesTyped /\ i \in DOMAIN asyncs
  BY DEF RunsCall, PagesIInv
<1>2. asyncs[i] \in AsyncCalls /\ DOMAIN asyncs = 1..Len(asyncs) /\ Len(asyncs) \in Nat
  <2> HIDE DEF AsyncCalls
  <2>1. asyncs \in Seq(AsyncCalls)
    BY <1>1 DEF PagesTyped, TypeAsyncs
  <2>2. QED
    BY <1>1, <2>1
<1>3. QED
  BY <1>1, <1>2 DEF RunsCall, AsyncCall

LEMMA RunsLabels == ASSUME NEW i, RunsCall(i) PROVE RoleLabel' /\ StateLabel'
<1>1. /\ UNCHANGED <<ui, role, told, role_old, wifi, s_wifi_state, missed>>
      /\ asyncs' = RemoveAt(asyncs, i) /\ PagesTyped /\ i \in DOMAIN asyncs
      /\ role_label' = IF asyncs[i][1] = "role" THEN asyncs[i][2] ELSE role_label
      /\ state_label' = IF asyncs[i][1] = "state" THEN s_wifi_state ELSE state_label
      /\ DOMAIN asyncs = 1..Len(asyncs)
  BY RunsFrame DEF RunsCall, AsyncCall
<1>2. \A w : Pending(w)' <=> \E k \in DOMAIN asyncs \ {i} : asyncs[k][1] = w
  BY <1>1, RanPending
<1>3. \A w : /\ Pending(w)' => Pending(w)
             /\ asyncs[i][1] # w => (Pending(w)' <=> Pending(w))
  BY ONLY <1>1, <1>2 DEF Pending
<1>4. RoleLabel /\ StateLabel
  BY DEF RunsCall, PagesIInv
<1>5. ASSUME \A j \in 1..Len(asyncs) : asyncs[j][1] = "role" => asyncs[j][2] = role
      PROVE  \A j \in 1..Len(asyncs') : asyncs'[j][1] = "role" => asyncs'[j][2] = role
  <2>1. \A j \in DOMAIN asyncs' : \E k \in DOMAIN asyncs \ {i} : asyncs'[j] = asyncs[k]
    BY <1>1, RanOne
  <2>2. DOMAIN asyncs' = 1..Len(asyncs')
    BY <1>1, Ran
  <2>3. QED
    BY <1>1, <1>5, <2>1, <2>2
<1>6. RoleLabel'
  BY <1>1, <1>3, <1>4, <1>5 DEF RoleLabel
<1>7. StateLabel'
  BY <1>1, <1>3, <1>4 DEF StateLabel, Heard
<1>8. QED
  BY <1>6, <1>7

LEMMA RunsConnecting ==
  ASSUME NEW i, RunsCall(i) PROVE TypeLayer' /\ Keyboards' /\ Connecting'
<1>1. /\ UNCHANGED <<screen, lv, role, under, job, stuck>>
      /\ asyncs' = RemoveAt(asyncs, i) /\ PagesTyped /\ i \in DOMAIN asyncs
      /\ layer' = IF asyncs[i][1] = "result"
                  THEN [layer EXCEPT !.connecting = FALSE,
                          !.warnings = IF asyncs[i][2] = "ok" THEN @ ELSE @ + 1]
                  ELSE layer
      /\ pages' \subseteq pages
      /\ DOMAIN asyncs = 1..Len(asyncs)
  BY RunsFrame DEF RunsCall, AsyncCall
<1>2. \A w : Pending(w)' <=> \E k \in DOMAIN asyncs \ {i} : asyncs[k][1] = w
  BY <1>1, RanPending
<1>3. Keyboards /\ Connecting /\ TypeLayer
  BY DEF RunsCall, PagesIInv, PagesTyped
<1>4. \A j, k \in DOMAIN asyncs' :
        asyncs'[j][1] = "result" /\ asyncs'[k][1] = "result" => j = k
  <2>1. PICK at \in [DOMAIN asyncs' -> DOMAIN asyncs \ {i}] :
               /\ \A j \in DOMAIN asyncs' : asyncs'[j] = asyncs[at[j]]
               /\ \A j, k \in DOMAIN asyncs' : at[j] = at[k] => j = k
    BY <1>1, RanDistinct
  <2>2. \A j, k \in DOMAIN asyncs :
          asyncs[j][1] = "result" /\ asyncs[k][1] = "result" => j = k
    BY <1>1, <1>3 DEF Connecting
  <2>3. QED
    BY <2>1, <2>2
<1>5. DOMAIN asyncs' = 1..Len(asyncs')
  BY <1>1, Ran
<1>6. CASE asyncs[i][1] = "result"
  <2>1. Pending("result")
    BY <1>1, <1>6 DEF Pending
  <2>2. layer.connecting /\ ~stuck /\ job = "none" /\ layer.warnings = 0
        /\ layer.keyboard = "none"
    BY <1>3, <2>1 DEF Connecting, Keyboards, TypeLayer
  <2>3. PICK w \in {0, 1} :
          layer' = [connecting |-> FALSE, keyboard |-> "none", warnings |-> w]
    <3>1. layer = [connecting |-> layer.connecting, keyboard |-> layer.keyboard,
                   warnings |-> layer.warnings]
      BY <1>3 DEF TypeLayer
    <3>2. layer = [connecting |-> layer.connecting, keyboard |-> "none", warnings |-> 0]
      BY <2>2, <3>1
    <3>3. CASE asyncs[i][2] = "ok"
      <4>1. layer' = [layer EXCEPT !.connecting = FALSE, !.warnings = layer.warnings]
        BY <1>1, <1>6, <3>3
      <4>2. layer' = [[connecting |-> layer.connecting, keyboard |-> "none", warnings |-> 0]
                        EXCEPT !.connecting = FALSE, !.warnings = 0]
        BY ONLY <2>2, <3>2, <4>1
      <4>3. layer' = [connecting |-> FALSE, keyboard |-> "none", warnings |-> 0]
        BY ONLY <4>2
      <4>4. QED
        BY <4>3
    <3>4. CASE asyncs[i][2] # "ok"
      <4> DEFINE more == layer.warnings + 1
      <4>0. more = 1
        BY <2>2
      <4> HIDE DEF more
      <4>1. layer' = [layer EXCEPT !.connecting = FALSE, !.warnings = more]
        BY <1>1, <1>6, <3>4 DEF more
      <4>2. layer' = [[connecting |-> layer.connecting, keyboard |-> "none", warnings |-> 0]
                        EXCEPT !.connecting = FALSE, !.warnings = 1]
        BY ONLY <3>2, <4>0, <4>1
      <4>3. layer' = [connecting |-> FALSE, keyboard |-> "none", warnings |-> 1]
        BY ONLY <4>2
      <4>4. QED
        BY <4>3
    <3>5. QED
      BY <3>3, <3>4
  <2>4. TypeLayer' /\ Keyboards'
    BY <2>3 DEF TypeLayer, Keyboards
  <2>5. ~Pending("result")'
    BY <1>1, <1>2, <1>3, <1>6 DEF Connecting
  <2>6. Connecting'
    BY <1>1, <1>4, <1>5, <2>2, <2>3, <2>5 DEF Connecting
  <2>7. QED
    BY <2>4, <2>6
<1>7. CASE asyncs[i][1] # "result"
  <2>1. layer' = layer
    BY <1>1, <1>7
  <2>2. TypeLayer'
    BY <1>3, <2>1 DEF TypeLayer
  <2>3. Keyboards'
    BY <1>1, <1>3, <2>1 DEF Keyboards, AtRest
  <2>4. Pending("result")' <=> Pending("result")
    BY ONLY <1>1, <1>2, <1>7 DEF Pending
  <2>5. Connecting'
    BY <1>1, <1>3, <1>4, <1>5, <2>1, <2>4 DEF Connecting
  <2>6. QED
    BY <2>2, <2>3, <2>5
<1>8. QED
  BY <1>6, <1>7

LEMMA RunsDeletions == ASSUME NEW i, RunsCall(i) PROVE TypeKeys' /\ Deletions'
<1>1. /\ UNCHANGED <<lv, keys, key, ended, display, nomem>> /\ lv = AtRest
      /\ asyncs' = RemoveAt(asyncs, i) /\ PagesTyped /\ i \in DOMAIN asyncs
      /\ pages' = IF asyncs[i][1] = "delete" THEN pages \ {asyncs[i][2]} ELSE pages
      /\ asyncs[i] \in AsyncCalls
  BY RunsFrame DEF RunsCall, AsyncCall
<1>2. Deletions /\ TypeKeys /\ TypeAsyncs
  BY DEF RunsCall, PagesIInv, PagesTyped
<1>3. TypeKeys'
  BY <1>1, <1>2 DEF TypeKeys
<1>4. lv.at = "idle" /\ lv'.at = "idle"
  BY <1>1 DEF AtRest
<1>5. ASSUME ~nomem
      PROVE  /\ \A j \in Deletes' : /\ asyncs'[j][2] \in pages' \ {display}
                                    /\ \A k \in Deletes' : asyncs'[j] = asyncs'[k] => j = k
             /\ display # 0 => display \in pages'
  <2>1. PICK at \in [DOMAIN asyncs' -> DOMAIN asyncs \ {i}] :
               /\ \A j \in DOMAIN asyncs' : asyncs'[j] = asyncs[at[j]]
               /\ \A j, k \in DOMAIN asyncs' : at[j] = at[k] => j = k
    BY <1>1, RanDistinct
  <2>2. \A j \in Deletes' : at[j] \in Deletes \ {i} /\ asyncs'[j] = asyncs[at[j]]
    BY <2>1 DEF Deletes
  <2>3. /\ \A j \in Deletes : /\ asyncs[j][2] \in pages \ {display}
                              /\ \A k \in Deletes : asyncs[j] = asyncs[k] => j = k
        /\ display # 0 => display \in pages
    BY <1>2, <1>5 DEF Deletions, DeletedOnce
  <2>4. \A j \in Deletes : asyncs[j] = <<"delete", asyncs[j][2]>>
    <3>1. ASSUME NEW j \in Deletes PROVE asyncs[j] = <<"delete", asyncs[j][2]>>
      <4>1. asyncs[j] \in AsyncCalls /\ asyncs[j][1] = "delete"
        <5> HIDE DEF AsyncCalls
        <5>1. asyncs \in Seq(AsyncCalls) /\ j \in DOMAIN asyncs /\ asyncs[j][1] = "delete"
          BY <1>2 DEF TypeAsyncs, Deletes
        <5>2. QED
          BY <5>1
      <4>2. QED
        BY <4>1 DEF AsyncCalls
    <3>2. QED
      BY <3>1
  <2>5. asyncs[i][1] = "delete" => i \in Deletes
    BY <1>1 DEF Deletes
  <2>6. \A j \in Deletes \ {i} : asyncs[i][1] = "delete" => asyncs[j][2] # asyncs[i][2]
    BY <2>3, <2>4, <2>5
  <2>7. \A j \in Deletes \ {i} : asyncs[j][2] \in pages' \ {display}
    BY <1>1, <2>3, <2>6
  <2>8. display # 0 => display \in pages'
    BY <1>1, <2>3, <2>5
  <2>9. ASSUME NEW j \in Deletes', NEW k \in Deletes', asyncs'[j] = asyncs'[k]
        PROVE  j = k
    <3>1. at[j] = at[k]
      BY <2>2, <2>3, <2>9
    <3>2. j \in DOMAIN asyncs' /\ k \in DOMAIN asyncs'
      BY DEF Deletes
    <3>3. QED
      BY <2>1, <3>1, <3>2
  <2>10. QED
    BY <2>2, <2>7, <2>8, <2>9
<1>6. DeletedOnce'
  BY <1>1, <1>4, <1>5 DEF DeletedOnce
<1>7. \A p, q \in pages' : p = q
  BY <1>1, <1>2 DEF Deletions
<1>8. QED
  BY <1>3, <1>4, <1>6, <1>7 DEF Deletions

LEMMA AsyncCallStep ==
  ASSUME PagesIInv, NEW i \in DOMAIN asyncs, AsyncCall(i) PROVE PagesIInv'
<1> USE DEF PagesIInv, PagesTyped
<1>1. RunsCall(i)
  BY DEF RunsCall
<1>2. /\ UNCHANGED <<ui, screen, lv, role, wifi, job>>
      /\ UNCHANGED <<keys, key, ended, display, crossed, nomem>>
  BY <1>1, RunsFrame
<1>3. TypeAsyncs'
  BY <1>1, RunsFrame, Ran DEF TypeAsyncs
<1>4. QED
  BY <1>1, <1>2, <1>3, RunsLabels, RunsConnecting, RunsDeletions, SameUi, SameLv,
     SameInForce

-----------------------------------------------------------------------------
(* The keyboard, and the start of a key.                                   *)

\* The page's buttons leave a keyboard or a warning, and nothing waits.
LEMMA LayerConnecting ==
  ASSUME Connecting, ~layer.connecting, NEW k, NEW w \in {0, 1},
         layer' = [connecting |-> FALSE, keyboard |-> k, warnings |-> w],
         UNCHANGED <<asyncs, job, stuck>>
  PROVE  Connecting'
<1>1. Pending("result")' <=> Pending("result")
  BY DEF Pending
<1>2. QED
  BY <1>1 DEF Connecting

LEMMA KeyboardLayer ==
  ASSUME TypeLayer, ~layer.connecting, layer.warnings = 0, NEW k,
         NEW w \in {0, 1},
         layer' = [layer EXCEPT !.keyboard = k, !.warnings = w]
  PROVE  layer' = [connecting |-> FALSE, keyboard |-> k, warnings |-> w]
<1>1. layer = [connecting |-> layer.connecting, keyboard |-> layer.keyboard,
               warnings |-> layer.warnings] /\ layer.connecting = FALSE
  BY DEF TypeLayer
<1>2. layer = [connecting |-> FALSE, keyboard |-> layer.keyboard, warnings |-> 0]
  BY <1>1
<1>3. layer' = [[connecting |-> FALSE, keyboard |-> layer.keyboard, warnings |-> 0]
                  EXCEPT !.keyboard = k, !.warnings = w]
  BY <1>2
<1>4. QED
  BY ONLY <1>3

\* br_m5stack_create_keyboard where no keyboard was, or the end of one.
LEMMA KeyboardShown ==
  ASSUME TypeLayer, ~layer.connecting, layer.warnings = 0, NEW k, Keyboard(k)
  PROVE  layer' = [connecting |-> FALSE, keyboard |-> k, warnings |-> 0]
<1>1. layer = [connecting |-> layer.connecting, keyboard |-> layer.keyboard,
               warnings |-> layer.warnings] /\ layer.connecting = FALSE
  BY DEF TypeLayer
<1>2. layer = [connecting |-> FALSE, keyboard |-> layer.keyboard, warnings |-> 0]
  BY <1>1
<1>3. layer' = [[connecting |-> FALSE, keyboard |-> layer.keyboard, warnings |-> 0]
                  EXCEPT !.keyboard = k]
  BY <1>2 DEF Keyboard
<1>4. QED
  BY ONLY <1>3

\* A keyboard that ends with a warning.
LEMMA KeyboardWarned ==
  ASSUME TypeLayer, ~layer.connecting, layer.warnings = 0,
         layer' = [layer EXCEPT !.keyboard = "none", !.warnings = @ + 1]
  PROVE  layer' = [connecting |-> FALSE, keyboard |-> "none", warnings |-> 1]
<1> DEFINE more == layer.warnings + 1
<1>1. more = 1
  OBVIOUS
<1>2. layer' = [layer EXCEPT !.keyboard = "none", !.warnings = more]
  OBVIOUS
<1> HIDE DEF more
<1>3. QED
  BY <1>1, <1>2, KeyboardLayer

LEMMA KeyStartStep ==
  ASSUME PagesIInv, KeyStart, lv = AtRest, layer.warnings = 0, ~layer.connecting,
         pages = {}, screen = "epskc",
         UNCHANGED <<screen, asyncs, ended, display, pages, crossed, nomem, job, stuck>>
  PROVE  /\ TypeLayer' /\ TypeLv' /\ TypeKeys' /\ Deletions' /\ KeyInForce'
         /\ Keyboards' /\ Connecting'
<1>1. TypeLayer /\ TypeLv /\ TypeKeys /\ Deletions /\ KeyInForce /\ Connecting
  BY DEF PagesIInv, PagesTyped
<1>2. CASE key = 0 /\ keys < MaxKeys
  <2>1. /\ keys' = keys + 1 /\ key' = keys + 1
        /\ lv' = [at |-> "create page", page |-> keys + 1]
        /\ Keyboard("none")
    BY <1>2 DEF KeyStart, Keyboard
  <2>2. layer' = [connecting |-> FALSE, keyboard |-> "none", warnings |-> 0]
    BY <1>1, <2>1, KeyboardShown
  <2>3. TypeLayer' /\ Keyboards'
    BY <2>2 DEF TypeLayer, Keyboards
  <2>4. TypeLv'
    <3>1. keys \in Nat
      BY <1>1 DEF TypeKeys
    <3>2. keys + 1 \in Nat
      BY <3>1
    <3>3. lv'.at = "create page"
      BY <2>1
    <3>4. QED
      BY <2>1, <3>2, <3>3 DEF TypeLv
  <2>5. Connecting'
    BY <1>1, <2>2, LayerConnecting
  <2>6. keys \in Nat /\ ended \in Seq(1..keys) /\ Len(ended) \in Nat
    BY <1>1 DEF TypeKeys
  <2>7. \A i \in 1..Len(ended) : ended[i] \in 1..keys
    BY <2>6
  <2>8. ended \in Seq(1..(keys + 1))
    <3>1. \A i \in 1..Len(ended) : ended[i] \in 1..(keys + 1)
      BY <2>6, <2>7
    <3>2. QED
      BY <2>6, <3>1
  <2>9. TypeKeys'
    <3>1. ended' \in Seq(1..keys')
      BY <2>1, <2>8
    <3>2. keys' = keys + 1 /\ key' = keys + 1
      BY <2>1
    <3>3. keys' \in Nat /\ key' \in 0..keys'
      BY ONLY <2>6, <3>2
    <3>4. display' \in Nat /\ pages' \subseteq 1..keys'
      BY <1>1 DEF TypeKeys
    <3>5. QED
      BY <3>1, <3>3, <3>4 DEF TypeKeys
  <2>10. \A i \in 1..Len(ended) : ended[i] # keys + 1
    BY <2>6, <2>7
  <2>11. KeyInForce'
    BY <1>1, <2>1, <2>10 DEF KeyInForce
  <2>12. Deletes' = Deletes
    BY DEF Deletes
  <2>13. DeletedOnce'
    BY <1>1, <2>1, <2>12 DEF Deletions, DeletedOnce
  <2>14. Deletions'
    <3>1. lv'.page = keys' /\ keys' = keys + 1
      BY <2>1
    <3>2. keys' > 0
      BY <2>6, <3>1
    <3>3. QED
      BY <2>13, <3>1, <3>2 DEF Deletions
  <2>15. QED
    BY <2>3, <2>4, <2>5, <2>9, <2>11, <2>14
<1>3. CASE ~(key = 0 /\ keys < MaxKeys)
  <2>1. /\ layer' = [layer EXCEPT !.keyboard = "none", !.warnings = @ + 1]
        /\ UNCHANGED <<keys, key, lv>>
    BY <1>3 DEF KeyStart
  <2>2. layer' = [connecting |-> FALSE, keyboard |-> "none", warnings |-> 1]
    BY <1>1, <2>1, KeyboardWarned
  <2>3. TypeLayer' /\ Keyboards'
    BY <2>2 DEF TypeLayer, Keyboards
  <2>4. Connecting'
    BY <1>1, <2>2, LayerConnecting
  <2>5. QED
    BY <1>1, <2>1, <2>3, <2>4, SameLv, SameKeys, SameDeletions, SameInForce
<1>4. QED
  BY <1>2, <1>3

LEMMA RandomKeyStep == PagesIInv /\ RandomKey => PagesIInv'
<1> SUFFICES ASSUME PagesIInv, RandomKey PROVE PagesIInv'
  OBVIOUS
<1> USE DEF PagesIInv, PagesTyped
<1>1. /\ UNCHANGED <<ui, screen, asyncs, ended, display, pages, crossed, nomem>>
      /\ UNCHANGED <<role, told, role_label, role_old, dataset, under>>
      /\ UNCHANGED <<wifi, s_wifi_state, state_label, missed, ssid, job, stuck>>
      /\ pages = {} /\ KeyStart
  BY DEF RandomKey, threadVars, wifiPage
<1>2. lv = AtRest /\ screen = "epskc"
      /\ layer = [connecting |-> FALSE, keyboard |-> "none", warnings |-> 0]
  BY Touched DEF RandomKey
<1>3. /\ TypeLayer' /\ TypeLv' /\ TypeKeys' /\ Deletions' /\ KeyInForce'
      /\ Keyboards' /\ Connecting'
  <2>1. layer.warnings = 0 /\ ~layer.connecting
    BY <1>2
  <2>2. QED
    BY <1>1, <1>2, <2>1, KeyStartStep
<1>4. QED
  BY <1>1, <1>3, SameUi, SameAsyncs, SameRoleLabel, SameStateLabel

LEMMA OpenKeyboardStep == PagesIInv /\ OpenKeyboard => PagesIInv'
<1> SUFFICES ASSUME PagesIInv, OpenKeyboard PROVE PagesIInv'
  OBVIOUS
<1> USE DEF PagesIInv, PagesTyped
<1>1. /\ UNCHANGED <<ui, screen, lv, asyncs, role, told, role_label, role_old, dataset>>
      /\ UNCHANGED <<keys, key, ended, display, pages, crossed, nomem>>
      /\ UNCHANGED <<wifi, s_wifi_state, state_label, missed, ssid, job, stuck>>
  BY DEF OpenKeyboard, keyVars, wifiPage
<1>2. PICK page : Touches(page)
  BY DEF OpenKeyboard
<1>3. lv = AtRest /\ layer = [connecting |-> FALSE, keyboard |-> "none", warnings |-> 0]
  BY <1>2, Touched
<1>4. ~layer.connecting /\ layer.warnings = 0
  BY <1>3
<1>5. \/ Warns
      \/ Keyboard("ssid")
      \/ role = "disabled" /\ Keyboard("field")
      \/ Touches("epskc") /\ pages = {} /\ Keyboard("key")
  BY DEF OpenKeyboard, SetDatasetAllowed
<1>6. PICK k \in {"none", "ssid", "field", "key"}, w \in {0, 1} :
        /\ layer' = [connecting |-> FALSE, keyboard |-> k, warnings |-> w]
        /\ k # "none" => w = 0
        /\ k = "field" => role = "disabled"
        /\ k = "key" => screen = "epskc" /\ pages = {}
  <2>1. CASE Warns
    BY <1>2, <2>1, WarnedLayer
  <2>2. CASE Keyboard("ssid")
    BY <1>4, <2>2, KeyboardShown
  <2>3. CASE role = "disabled" /\ Keyboard("field")
    BY <1>4, <2>3, KeyboardShown
  <2>4. CASE Touches("epskc") /\ pages = {} /\ Keyboard("key")
    BY <1>4, <2>4, KeyboardShown, Touched
  <2>5. QED
    BY <1>5, <2>1, <2>2, <2>3, <2>4
<1>7. TypeLayer'
  BY <1>6 DEF TypeLayer
<1>8. Keyboards'
  BY <1>1, <1>3, <1>6 DEF Keyboards, AtRest
<1>9. Connecting'
  BY <1>1, <1>4, <1>6, LayerConnecting
<1>10. QED
  BY <1>1, <1>7, <1>8, <1>9, SameUi, SameLv, SameAsyncs, SameKeys, SameDeletions,
     SameInForce, SameRoleLabel, SameStateLabel

LEMMA KeyboardEventStep == PagesIInv /\ KeyboardEvent => PagesIInv'
<1> SUFFICES ASSUME PagesIInv, KeyboardEvent PROVE PagesIInv'
  OBVIOUS
<1> USE DEF PagesIInv, PagesTyped
<1>1. /\ UNCHANGED <<ui, screen, asyncs, ended, display, pages, crossed, nomem>>
      /\ UNCHANGED <<role, told, role_label, role_old, under>>
      /\ UNCHANGED <<wifi, s_wifi_state, state_label, missed, job, stuck>>
      /\ layer.keyboard # "none"
  BY DEF KeyboardEvent
<1>2. lv = AtRest /\ layer.warnings = 0 /\ ~layer.connecting
      /\ (layer.keyboard = "key" => screen = "epskc" /\ pages = {})
  BY <1>1 DEF Keyboards
<1>3. CASE layer.keyboard = "key" /\ KeyStart
  <2>1. /\ TypeLayer' /\ TypeLv' /\ TypeKeys' /\ Deletions' /\ KeyInForce'
        /\ Keyboards' /\ Connecting'
    BY <1>1, <1>2, <1>3, KeyStartStep
  <2>2. QED
    BY <1>1, <2>1, SameUi, SameAsyncs, SameRoleLabel, SameStateLabel
<1>4. CASE /\ \/ Keyboard("none")
              \/ layer' = [layer EXCEPT !.keyboard = "none", !.warnings = @ + 1]
           /\ UNCHANGED <<keys, key, lv>>
  <2>1. PICK w \in {0, 1} :
          layer' = [connecting |-> FALSE, keyboard |-> "none", warnings |-> w]
    BY <1>2, <1>4, KeyboardShown, KeyboardWarned
  <2>2. TypeLayer' /\ Keyboards'
    BY <2>1 DEF TypeLayer, Keyboards
  <2>3. Connecting'
    BY <1>1, <1>2, <2>1, LayerConnecting
  <2>4. QED
    BY <1>1, <1>4, <2>2, <2>3, SameUi, SameLv, SameAsyncs, SameKeys, SameDeletions,
       SameInForce, SameRoleLabel, SameStateLabel
<1>5. QED
  BY <1>3, <1>4 DEF KeyboardEvent

LEMMA WifiConnectStep == PagesIInv /\ WifiConnect => PagesIInv'
<1> SUFFICES ASSUME PagesIInv, WifiConnect PROVE PagesIInv'
  OBVIOUS
<1> USE DEF PagesIInv, PagesTyped
<1>1. /\ UNCHANGED <<ui, screen, lv, asyncs, wifi, s_wifi_state, state_label, missed, ssid>>
      /\ UNCHANGED <<keys, key, ended, display, pages, crossed, nomem>>
      /\ UNCHANGED <<role, told, role_label, role_old, dataset, under>>
  BY DEF WifiConnect, keyVars, threadVars
<1>2. layer = [connecting |-> FALSE, keyboard |-> "none", warnings |-> 0]
  BY Touched DEF WifiConnect
<1>3. ~layer.connecting /\ layer.warnings = 0 /\ layer.keyboard = "none"
  BY <1>2
<1>4. job = "none" /\ ~Pending("result") /\ ~stuck
  BY <1>3 DEF Connecting
<1>5. ~Pending("result")'
  BY <1>1, <1>4 DEF Pending
<1>6. \/ Warns /\ UNCHANGED <<job, stuck>>
      \/ /\ layer' = [layer EXCEPT !.connecting = TRUE, !.warnings = @ + 1]
         /\ stuck' = TRUE /\ job' = job
      \/ /\ layer' = [layer EXCEPT !.connecting = TRUE]
         /\ job' = "posted" /\ stuck' = stuck
  BY DEF WifiConnect
<1>7. PICK c \in BOOLEAN, w \in {0, 1} :
        /\ layer' = [connecting |-> c, keyboard |-> "none", warnings |-> w]
        /\ \/ ~c /\ UNCHANGED <<job, stuck>>
           \/ c /\ stuck' = TRUE /\ job' = job
           \/ c /\ w = 0 /\ job' = "posted" /\ stuck' = stuck
  <2>1. CASE Warns /\ UNCHANGED <<job, stuck>>
    <3>1. layer' = [connecting |-> FALSE, keyboard |-> "none", warnings |-> 1]
      BY <2>1, WarnedLayer DEF WifiConnect
    <3>2. QED
      BY <2>1, <3>1
  <2>2. CASE /\ layer' = [layer EXCEPT !.connecting = TRUE, !.warnings = @ + 1]
             /\ stuck' = TRUE /\ job' = job
    <3> DEFINE more == layer.warnings + 1
    <3>1. more = 1
      BY <1>3
    <3>2. layer' = [layer EXCEPT !.connecting = TRUE, !.warnings = more]
      BY <2>2
    <3> HIDE DEF more
    <3>3. layer' = [[connecting |-> FALSE, keyboard |-> "none", warnings |-> 0]
                      EXCEPT !.connecting = TRUE, !.warnings = 1]
      BY ONLY <1>2, <3>1, <3>2
    <3>4. layer' = [connecting |-> TRUE, keyboard |-> "none", warnings |-> 1]
      BY ONLY <3>3
    <3>5. QED
      BY <2>2, <3>4
  <2>3. CASE /\ layer' = [layer EXCEPT !.connecting = TRUE]
             /\ job' = "posted" /\ stuck' = stuck
    <3>1. layer' = [[connecting |-> FALSE, keyboard |-> "none", warnings |-> 0]
                      EXCEPT !.connecting = TRUE]
      BY ONLY <1>2, <2>3
    <3>2. layer' = [connecting |-> TRUE, keyboard |-> "none", warnings |-> 0]
      BY ONLY <3>1
    <3>3. QED
      BY <2>3, <3>2
  <2>4. QED
    BY <1>6, <2>1, <2>2, <2>3
<1>8. TypeUi'
  BY <1>1, <1>4, <1>7 DEF TypeUi
<1>9. TypeLayer' /\ Keyboards'
  BY <1>7 DEF TypeLayer, Keyboards
<1>10. \A i, j \in 1..Len(asyncs') :
         asyncs'[i][1] = "result" /\ asyncs'[j][1] = "result" => i = j
  BY <1>1 DEF Connecting
<1>11. Connecting'
  BY <1>4, <1>5, <1>7, <1>10 DEF Connecting
<1>12. QED
  BY <1>1, <1>8, <1>9, <1>11, SameLv, SameAsyncs, SameKeys, SameDeletions,
     SameInForce, SameRoleLabel, SameStateLabel

LEMMA ThreadButtonStep == PagesIInv /\ ThreadButton => PagesIInv'
<1> SUFFICES ASSUME PagesIInv, ThreadButton PROVE PagesIInv'
  OBVIOUS
<1> USE DEF PagesIInv, PagesTyped
<1>1. /\ UNCHANGED <<ui, screen, lv, asyncs, role_label, role_old, under>>
      /\ UNCHANGED <<keys, key, ended, display, pages, crossed, nomem>>
      /\ UNCHANGED <<wifi, s_wifi_state, state_label, missed, ssid, job, stuck>>
  BY DEF ThreadButton, keyVars, wifiPage
<1>2. layer = [connecting |-> FALSE, keyboard |-> "none", warnings |-> 0]
  BY Touched DEF ThreadButton
<1>3. ~layer.connecting
  BY <1>2
<1>4. PICK w \in {0, 1} : layer' = [connecting |-> FALSE, keyboard |-> "none", warnings |-> w]
  <2>1. Warns \/ layer' = layer
    BY DEF ThreadButton
  <2>2. CASE Warns
    BY <2>2, WarnedLayer DEF ThreadButton
  <2>3. QED
    BY <1>2, <2>1, <2>2
<1>5. TypeLayer' /\ Keyboards'
  BY <1>4 DEF TypeLayer, Keyboards
<1>6. Connecting'
  BY <1>1, <1>3, <1>4, LayerConnecting
<1>7. role' \in {role, "detached", "disabled"} /\ (told' => told /\ role' = role)
  <2>1. \/ UNCHANGED <<role, told>>
        \/ role' = "detached" /\ told' = FALSE
        \/ role' = "disabled" /\ told' = (role = "disabled" /\ told)
    BY DEF ThreadButton
  <2>2. ASSUME told', told' = (role = "disabled" /\ told)
        PROVE  role = "disabled" /\ told
    BY ONLY <2>2
  <2>3. QED
    BY <2>1, <2>2
<1>8. TypeUi'
  BY <1>1, <1>7 DEF TypeUi, Roles
<1>9. RoleLabel'
  <2>1. Pending("role")' <=> Pending("role")
    BY <1>1 DEF Pending
  <2>2. QED
    BY <1>1, <1>7, <2>1 DEF RoleLabel
<1>10. QED
  BY <1>1, <1>5, <1>6, <1>8, <1>9, SameLv, SameAsyncs, SameKeys, SameDeletions,
     SameInForce, SameStateLabel

-----------------------------------------------------------------------------
(* The page of a key.                                                      *)

\* A handler that goes on is under no keyboard.
LEMMA HandlerAlone ==
  ASSUME PagesIInv, lv.at # "idle", UNCHANGED <<screen, layer, role, under>>
  PROVE  Keyboards'
<1>1. layer.keyboard = "none"
  BY DEF PagesIInv, Keyboards, AtRest
<1>2. QED
  BY <1>1 DEF Keyboards

LEMMA CreatePageStep == PagesIInv /\ CreatePage => PagesIInv'
<1> SUFFICES ASSUME PagesIInv, CreatePage PROVE PagesIInv'
  OBVIOUS
<1> USE DEF PagesIInv, PagesTyped
<1>1. /\ UNCHANGED <<ui, screen, layer, asyncs, keys, key, ended, crossed>>
      /\ UNCHANGED <<role, told, role_label, role_old, dataset, under>>
      /\ UNCHANGED <<wifi, s_wifi_state, state_label, missed, ssid, job, stuck>>
      /\ lv.at \in {"create page", "fill page"}
  BY DEF CreatePage, threadVars, wifiPage
<1>2. Keyboards'
  BY <1>1, HandlerAlone
<1>3. Deletes' = Deletes
  BY <1>1 DEF Deletes
<1>4. keys \in Nat /\ pages \subseteq 1..keys
  BY DEF TypeKeys
<1>5. TypeLv' /\ TypeKeys' /\ Deletions' /\ KeyInForce'
  <2>1. CASE /\ lv.at = "create page" /\ lv' = [lv EXCEPT !.at = "fill page"]
             /\ pages' = pages \cup {lv.page} /\ display' = lv.page /\ nomem' = nomem
    <3>1. lv.page = keys /\ keys > 0 /\ pages = {}
      BY <2>1 DEF Deletions
    <3>2. lv = [at |-> lv.at, page |-> lv.page]
      BY DEF TypeLv
    <3>3. lv' = [at |-> "fill page", page |-> keys]
      BY <2>1, <3>1, <3>2
    <3>4. TypeLv' /\ lv'.at = "fill page"
      BY <1>4, <3>3 DEF TypeLv
    <3>5. pages' = {keys} /\ display' = keys /\ keys \in 1..keys
      <4>1. keys \in 1..keys
        BY <1>4, <3>1
      <4>2. QED
        BY <2>1, <3>1, <4>1
    <3>6. TypeKeys'
      BY <1>1, <1>4, <3>5 DEF TypeKeys
    <3>7. ~nomem => Deletes = {} /\ ~nomem'
      BY <2>1, <3>1 DEF Deletions, DeletedOnce
    <3>8. DeletedOnce'
      BY <1>3, <2>1, <3>4, <3>5, <3>7 DEF DeletedOnce
    <3>9. Deletions'
      BY <3>4, <3>5, <3>8 DEF Deletions
    <3>10. KeyInForce'
      BY <1>1, <2>1, <3>4, <3>5 DEF KeyInForce
    <3>11. QED
      BY <3>4, <3>6, <3>9, <3>10
  <2>2. CASE lv.at = "fill page" /\ lv' = AtRest /\ UNCHANGED <<pages, display, nomem>>
    <3>1. TypeLv' /\ lv'.at = "idle"
      BY <2>2 DEF TypeLv, AtRest
    <3>2. TypeKeys'
      BY <1>1, <2>2, SameKeys
    <3>3. DeletedOnce'
      <4> SUFFICES ASSUME ~nomem PROVE DeletedOnce'
        BY <2>2 DEF DeletedOnce
      <4>1. /\ \A i \in Deletes : /\ asyncs[i][2] \in pages \ {display}
                                  /\ \A j \in Deletes : asyncs[i] = asyncs[j] => i = j
            /\ display # 0 => display \in pages
        BY DEF Deletions, DeletedOnce
      <4>2. QED
        BY <1>1, <1>3, <2>2, <3>1, <4>1 DEF DeletedOnce
    <3>4. Deletions'
      BY <2>2, <3>1, <3>3 DEF Deletions
    <3>5. KeyInForce'
      BY <1>1, <2>2, <3>1 DEF KeyInForce
    <3>6. QED
      BY <3>1, <3>2, <3>4, <3>5
  <2>3. CASE lv' = AtRest /\ pages' = pages \ {lv.page} /\ nomem' = TRUE /\ display' = display
    <3>1. TypeLv' /\ lv'.at = "idle"
      BY <2>3 DEF TypeLv, AtRest
    <3>2. TypeKeys'
      BY <1>1, <2>3 DEF TypeKeys
    <3>3. Deletions'
      BY <2>3, <3>1 DEF Deletions, DeletedOnce
    <3>4. KeyInForce'
      BY <1>1, <2>3 DEF KeyInForce
    <3>5. QED
      BY <3>1, <3>2, <3>3, <3>4
  <2>4. QED
    BY <2>1, <2>2, <2>3 DEF CreatePage
<1>6. QED
  BY <1>1, <1>2, <1>5, SameUi, SameLayer, SameAsyncs, SameRoleLabel, SameStateLabel,
     SameConnecting

LEMMA DeleteButtonStep == PagesIInv /\ DeleteButton => PagesIInv'
<1> SUFFICES ASSUME PagesIInv, DeleteButton PROVE PagesIInv'
  OBVIOUS
<1> USE DEF PagesIInv, PagesTyped
<1>1. /\ UNCHANGED <<ui, screen, layer, asyncs, keys, key, ended, pages, crossed, nomem>>
      /\ UNCHANGED <<role, told, role_label, role_old, dataset, under>>
      /\ UNCHANGED <<wifi, s_wifi_state, state_label, missed, ssid, job, stuck>>
      /\ display # 0 /\ display' = 0
      /\ lv' = [at |-> "stop key", page |-> display]
  BY DEF DeleteButton, TakeDisplay, threadVars, wifiPage
<1>2. layer.keyboard = "none"
  <2>1. layer = [connecting |-> FALSE, keyboard |-> "none", warnings |-> 0]
    BY Touched DEF DeleteButton
  <2>2. QED
    BY <2>1
<1>3. Keyboards'
  BY <1>1, <1>2 DEF Keyboards
<1>4. Deletes' = Deletes
  BY <1>1 DEF Deletes
<1>5. keys \in Nat /\ pages \subseteq 1..keys /\ display \in Nat
  BY DEF TypeKeys
<1>6. TypeLv' /\ lv'.at = "stop key" /\ lv'.page = display
  BY <1>1, <1>5 DEF TypeLv
<1>7. TypeKeys'
  BY <1>1 DEF TypeKeys
<1>8. DeletedOnce'
  <2> SUFFICES ASSUME ~nomem PROVE DeletedOnce'
    BY <1>1 DEF DeletedOnce
  <2>1. /\ \A i \in Deletes : /\ asyncs[i][2] \in pages \ {display}
                              /\ \A j \in Deletes : asyncs[i] = asyncs[j] => i = j
        /\ display \in pages
    BY <1>1 DEF Deletions, DeletedOnce
  <2>2. 0 \notin pages
    BY <1>5
  <2>3. QED
    BY <1>1, <1>4, <1>6, <2>1, <2>2 DEF DeletedOnce
<1>9. Deletions'
  BY <1>1, <1>6, <1>8 DEF Deletions
<1>10. KeyInForce'
  BY <1>1, <1>6 DEF KeyInForce
<1>11. QED
  BY <1>1, <1>3, <1>6, <1>7, <1>9, <1>10, SameUi, SameLayer, SameAsyncs, SameRoleLabel,
     SameStateLabel, SameConnecting

\* A key that ends, which its event is to tell of.
LEMMA KeyEndsTyped ==
  ASSUME PagesIInv, KeyEnds, keys' = keys, display' = display, pages' \subseteq pages
  PROVE  TypeKeys'
<1>1. /\ keys \in Nat /\ key \in 0..keys /\ ended \in Seq(1..keys) /\ display \in Nat
      /\ pages \subseteq 1..keys
  BY DEF PagesIInv, PagesTyped, TypeKeys
<1>2. key' = 0 /\ ended' = IF key = 0 THEN ended ELSE Append(ended, key)
  BY DEF KeyEnds
<1>3. ended' \in Seq(1..keys)
  <2>1. CASE key = 0
    BY <1>1, <1>2, <2>1
  <2>2. CASE key # 0
    <3>1. key \in 1..keys
      BY <1>1, <2>2
    <3>2. QED
      BY <1>1, <1>2, <2>2, <3>1
  <2>3. QED
    BY <2>1, <2>2
<1>4. QED
  BY <1>1, <1>2, <1>3 DEF TypeKeys

LEMMA StopKeyStep == PagesIInv /\ StopKey => PagesIInv'
<1> SUFFICES ASSUME PagesIInv, StopKey PROVE PagesIInv'
  OBVIOUS
<1> USE DEF PagesIInv, PagesTyped
<1>1. /\ UNCHANGED <<ui, screen, layer, asyncs, keys, display, crossed, nomem>>
      /\ UNCHANGED <<role, told, role_label, role_old, dataset, under>>
      /\ UNCHANGED <<wifi, s_wifi_state, state_label, missed, ssid, job, stuck>>
      /\ lv.at = "stop key" /\ lv' = AtRest /\ KeyEnds /\ pages' = pages \ {lv.page}
  BY DEF StopKey, threadVars, wifiPage
<1>2. Keyboards'
  BY <1>1, HandlerAlone
<1>3. Deletes' = Deletes
  BY <1>1 DEF Deletes
<1>4. TypeKeys'
  BY <1>1, KeyEndsTyped
<1>5. TypeLv' /\ lv'.at = "idle"
  BY <1>1 DEF TypeLv, AtRest
<1>6. DeletedOnce'
  <2> SUFFICES ASSUME ~nomem PROVE DeletedOnce'
    BY <1>1 DEF DeletedOnce
  <2>1. /\ \A i \in Deletes : /\ asyncs[i][2] \in pages \ {display}
                              /\ asyncs[i][2] # lv.page
                              /\ \A j \in Deletes : asyncs[i] = asyncs[j] => i = j
        /\ display # 0 => display \in pages
        /\ lv.page \in pages \ {display}
    BY <1>1 DEF Deletions, DeletedOnce
  <2>2. QED
    BY <1>1, <1>3, <1>5, <2>1 DEF DeletedOnce
<1>7. Deletions'
  BY <1>1, <1>5, <1>6 DEF Deletions
<1>8. KeyInForce'
  BY <1>1 DEF KeyInForce, KeyEnds
<1>9. QED
  BY <1>1, <1>2, <1>4, <1>5, <1>7, <1>8, SameUi, SameLayer, SameAsyncs, SameRoleLabel,
     SameStateLabel, SameConnecting

LEMMA KeyExpiresStep == PagesIInv /\ KeyExpires => PagesIInv'
<1> SUFFICES ASSUME PagesIInv, KeyExpires PROVE PagesIInv'
  OBVIOUS
<1> USE DEF PagesIInv, PagesTyped
<1>1. /\ UNCHANGED <<ui, screen, layer, lv, asyncs, keys, display, pages, crossed, nomem>>
      /\ UNCHANGED <<role, told, role_label, role_old, dataset, under>>
      /\ UNCHANGED <<wifi, s_wifi_state, state_label, missed, ssid, job, stuck>>
      /\ KeyEnds
  BY DEF KeyExpires, threadVars, wifiPage
<1>2. TypeKeys'
  BY <1>1, KeyEndsTyped
<1>3. KeyInForce'
  BY <1>1 DEF KeyInForce, KeyEnds
<1>4. QED
  BY <1>1, <1>2, <1>3, SameUi, SameLayer, SameLv, SameAsyncs, SameDeletions, SameKeyboards,
     SameRoleLabel, SameStateLabel, SameConnecting

LEMMA MeshcopERemoveStep == PagesIInv /\ MeshcopERemove => PagesIInv'
<1> SUFFICES ASSUME PagesIInv, MeshcopERemove PROVE PagesIInv'
  OBVIOUS
<1> USE DEF PagesIInv, PagesTyped
<1>1. /\ UNCHANGED <<ui, screen, layer, lv, keys, key, pages, nomem>>
      /\ UNCHANGED <<role, told, role_label, role_old, dataset, under>>
      /\ UNCHANGED <<wifi, s_wifi_state, state_label, missed, ssid, job, stuck>>
      /\ ended # <<>> /\ ended' = Tail(ended)
      /\ \/ display # 0 /\ asyncs' = Call("delete", display) /\ display' = 0
         \/ display = 0 /\ asyncs' = asyncs /\ display' = display
  BY DEF MeshcopERemove, RemovePage, TakeDisplay, threadVars, wifiPage
<1>2. ~crossed' => /\ ~crossed /\ display \in {0, Head(ended)}
                   /\ ~(lv.at = "create page" /\ lv.page = Head(ended))
  BY DEF MeshcopERemove
<1>3. /\ keys \in Nat /\ key \in 0..keys /\ ended \in Seq(1..keys) /\ display \in Nat
      /\ pages \subseteq 1..keys
  BY DEF TypeKeys
<1>4. /\ Len(ended) \in Nat /\ Len(ended) > 0 /\ Head(ended) = ended[1]
      /\ Tail(ended) \in Seq(1..keys) /\ Len(Tail(ended)) = Len(ended) - 1
      /\ \A i \in 1..(Len(ended) - 1) : Tail(ended)[i] = ended[i + 1]
  BY ONLY <1>1, <1>3
<1>5. display' \in Nat
  BY <1>1, <1>3
<1>6. TypeKeys'
  BY <1>1, <1>3, <1>4, <1>5 DEF TypeKeys
<1>7. KeyInForce'
  <2>1. ASSUME key # 0 PROVE \A i \in 1..Len(ended') : ended'[i] # key
    <3>1. \A i \in 1..Len(ended) : ended[i] # key
      BY <2>1 DEF KeyInForce
    <3>2. QED
      BY <1>1, <1>4, <3>1
  <2>2. ASSUME ~nomem, ~crossed', key # 0, lv.at \in {"idle", "fill page"} PROVE display' = key
    <3>1. display = key
      BY <1>2, <2>2 DEF KeyInForce
    <3>2. \A i \in 1..Len(ended) : ended[i] # key
      BY <2>2 DEF KeyInForce
    <3>3. Head(ended) # key
      BY <1>4, <3>2
    <3>4. QED
      BY <1>2, <2>2, <3>1, <3>3
  <2>3. QED
    BY <1>1, <1>2, <2>1, <2>2 DEF KeyInForce
<1>8. CASE display = 0
  BY <1>1, <1>6, <1>7, <1>8, SameUi, SameLayer, SameLv, SameAsyncs, SameDeletions,
     SameKeyboards, SameRoleLabel, SameStateLabel, SameConnecting
<1>9. CASE display # 0
  <2>1. asyncs' = Call("delete", display) /\ display' = 0
    BY <1>1, <1>9
  <2>2. <<"delete", display>> \in AsyncCalls
    BY <1>3 DEF AsyncCalls
  <2>3. /\ DOMAIN asyncs = 1..Len(asyncs) /\ Len(asyncs) \in Nat
        /\ DOMAIN asyncs' = 1..(Len(asyncs) + 1)
        /\ asyncs'[Len(asyncs) + 1] = <<"delete", display>>
        /\ \A i \in 1..Len(asyncs) : asyncs'[i] = asyncs[i]
    BY <2>1, <2>2, AsyncsDomain, Called
  <2> DEFINE new == Len(asyncs) + 1
  <2>4. /\ Deletes' = Deletes \cup {new} /\ new \notin Deletes
        /\ \A i \in Deletes : asyncs'[i] = asyncs[i]
    BY ONLY <2>3 DEF Deletes
  <2>5. asyncs'[new][2] = display /\ asyncs'[new] = <<"delete", display>>
    BY <2>3
  <2> HIDE DEF new
  <2>6. DeletedOnce'
    <3> SUFFICES ASSUME ~nomem PROVE DeletedOnce'
      BY <1>1 DEF DeletedOnce
    <3>1. /\ \A i \in Deletes : /\ asyncs[i][2] \in pages /\ asyncs[i][2] # display
                                /\ lv.at = "stop key" => asyncs[i][2] # lv.page
                                /\ \A j \in Deletes : asyncs[i] = asyncs[j] => i = j
          /\ lv.at = "stop key" => lv.page \in pages /\ lv.page # display
          /\ display \in pages
      BY <1>9 DEF Deletions, DeletedOnce
    <3>2. \A p \in pages : p \in pages' \ {display'}
      BY <1>1, <1>3, <2>1
    <3>3. ASSUME NEW i \in Deletes'
          PROVE  /\ asyncs'[i][2] \in pages' \ {display'}
                 /\ lv'.at = "stop key" => asyncs'[i][2] # lv'.page
                 /\ \A j \in Deletes' : asyncs'[i] = asyncs'[j] => i = j
      <4>1. asyncs'[i][2] \in pages' \ {display'}
        BY <2>4, <2>5, <3>1, <3>2
      <4>2. lv'.at = "stop key" => asyncs'[i][2] # lv'.page
        BY <1>1, <2>4, <2>5, <3>1
      <4>3. ASSUME NEW j \in Deletes', asyncs'[i] = asyncs'[j] PROVE i = j
        <5>1. asyncs'[i][2] = asyncs'[j][2]
          BY <4>3
        <5>2. \A k \in Deletes : asyncs'[k][2] # display
          BY <2>4, <3>1
        <5>3. QED
          BY <2>4, <2>5, <3>1, <4>3, <5>1, <5>2
      <4>4. QED
        BY <4>1, <4>2, <4>3
    <3>4. lv'.at = "stop key" => lv'.page \in pages' \ {display'}
      BY <1>1, <3>1, <3>2
    <3>5. QED
      BY <2>1, <3>3, <3>4 DEF DeletedOnce
  <2>7. Deletions'
    BY <1>1, <2>6 DEF Deletions
  <2>8. TypeAsyncs' /\ RoleLabel' /\ StateLabel' /\ Connecting'
    BY <1>1, <2>1, <2>2, CalledType, CalledRoleLabel, CalledStateLabel, CalledConnecting
  <2>9. QED
    BY <1>1, <1>6, <1>7, <2>7, <2>8, SameUi, SameLayer, SameLv, SameKeyboards
<1>10. QED
  BY <1>8, <1>9

-----------------------------------------------------------------------------
LEMMA PagesStart == PagesInit => PagesIInv
<1> SUFFICES ASSUME PagesInit PROVE PagesIInv
  OBVIOUS
<1>1. /\ ui = "off" /\ screen = "main" /\ lv = AtRest /\ asyncs = <<>>
      /\ layer = [connecting |-> FALSE, keyboard |-> "none", warnings |-> 0]
      /\ keys = 0 /\ key = 0 /\ ended = <<>> /\ display = 0 /\ pages = {}
      /\ role \in {"disabled", "leader"} /\ wifi \in {"disconnected", "connected"}
      /\ missed = FALSE /\ job = "none" /\ stuck = FALSE
  BY DEF PagesInit
<1>2. DOMAIN asyncs = {} /\ Len(asyncs) = 0 /\ asyncs \in Seq(AsyncCalls)
  <2> HIDE DEF AsyncCalls
  <2>1. QED
    BY <1>1
<1>3. (\A w : ~Pending(w)) /\ Deletes = {}
  BY <1>2 DEF Pending, Deletes
<1>4. TypeUi /\ TypeLayer /\ TypeLv /\ TypeAsyncs
  BY <1>1, <1>2 DEF TypeUi, TypeLayer, TypeLv, TypeAsyncs, AtRest, Roles, Links
<1>5. TypeKeys
  BY <1>1 DEF TypeKeys
<1>6. Deletions
  BY <1>1, <1>3 DEF Deletions, DeletedOnce, AtRest
<1>7. KeyInForce /\ Keyboards
  BY <1>1 DEF KeyInForce, Keyboards
<1>8. RoleLabel /\ StateLabel
  BY <1>1, <1>3 DEF RoleLabel, StateLabel
<1>9. Connecting
  BY <1>1, <1>2, <1>3 DEF Connecting
<1>10. QED
  BY <1>4, <1>5, <1>6, <1>7, <1>8, <1>9 DEF PagesIInv, PagesTyped

LEMMA PagesStep == PagesIInv /\ [PagesNext]_pageVars => PagesIInv'
<1>1. PagesIInv /\ PageTasks => PagesIInv'
  BY CreateUiStep, ThreadUpdateStep, WarningEndsStep, ConnectTaskStep, AsyncCallStep,
     CreatePageStep, StopKeyStep, MeshcopERemoveStep DEF PageTasks
<1>2. PagesIInv /\ PageUser => PagesIInv'
  BY DisplayStep, HideStep, OpenKeyboardStep, KeyboardEventStep, WifiConnectStep,
     ThreadButtonStep, RandomKeyStep, DeleteButtonStep DEF PageUser
<1>3. PagesIInv /\ PagesNext => PagesIInv'
  BY <1>1, <1>2, KeyExpiresStep, RoleChangesStep, LinkChangesStep DEF PagesNext
<1>4. PagesIInv /\ UNCHANGED pageVars => PagesIInv'
  <2> SUFFICES ASSUME PagesIInv, UNCHANGED pageVars PROVE PagesIInv'
    OBVIOUS
  <2>1. /\ UNCHANGED <<ui, screen, layer, lv, asyncs>>
        /\ UNCHANGED <<keys, key, ended, display, pages, crossed, nomem>>
        /\ UNCHANGED <<role, told, role_label, role_old, dataset, under>>
        /\ UNCHANGED <<wifi, s_wifi_state, state_label, missed, ssid, job, stuck>>
    BY DEF pageVars
  <2>2. QED
    BY <2>1, SameUi, SameLayer, SameLv, SameAsyncs, SameKeys, SameDeletions, SameInForce,
       SameKeyboards, SameRoleLabel, SameStateLabel, SameConnecting
       DEF PagesIInv, PagesTyped
<1>5. QED
  BY <1>3, <1>4

LEMMA PagesShow == PagesIInv => PagesHold
<1> SUFFICES ASSUME PagesIInv PROVE PagesHold
  OBVIOUS
<1> USE DEF PagesIInv, PagesTyped
<1>1. DeletedOnce
  BY DEF Deletions
<1>2. KeyShown
  <2>1. lv = AtRest => lv.at = "idle"
    BY DEF AtRest
  <2>2. QED
    BY <2>1 DEF KeyInForce, Deletions, KeyShown
<1>3. LabelsTrue
  BY DEF RoleLabel, StateLabel, LabelsTrue
<1>4. ConnectingCovers
  <2>1. ~stuck => (layer.connecting <=> job # "none" \/ Pending("result"))
    BY DEF Connecting, TypeLayer
  <2>2. QED
    BY <2>1 DEF Connecting, Keyboards, ConnectingCovers
<1>5. QED
  BY <1>1, <1>2, <1>3, <1>4 DEF PagesHold

\* Whoever changes the dataset finds Thread stopped, or it was when the keyboard
\* opened.
LEMMA DatasetStep ==
  PagesIInv /\ [PagesNext]_pageVars => [dataset' # dataset => role = "disabled" \/ under]_pageVars
<1> SUFFICES ASSUME PagesIInv, PagesNext, dataset' # dataset
             PROVE  role = "disabled" \/ under
  OBVIOUS
<1>1. KeyboardEvent \/ ThreadButton
  <2>1. ~CreateUi /\ ~ThreadUpdateMsg /\ ~WarningEnds /\ ~ConnectTask
    BY DEF CreateUi, WifiReads, ThreadReads, Registers, ThreadUpdateMsg, WarningEnds,
       ConnectTask, threadVars
  <2>2. ~ \E i \in DOMAIN asyncs : AsyncCall(i)
    BY DEF AsyncCall
  <2>3. ~CreatePage /\ ~StopKey /\ ~MeshcopERemove /\ ~KeyExpires
    BY DEF CreatePage, StopKey, MeshcopERemove, KeyExpires, threadVars
  <2>4. ~(\E p \in {"wifi", "thread", "epskc"} : Display(p)) /\ ~Hide /\ ~OpenKeyboard
    BY DEF Display, Hide, OpenKeyboard, threadVars
  <2>5. ~WifiConnect /\ ~RandomKey /\ ~DeleteButton
    BY DEF WifiConnect, RandomKey, DeleteButton, threadVars
  <2>6. ~(\E r \in Roles : RoleChanges(r)) /\ ~ \E l \in Links : LinkChanges(l)
    BY DEF RoleChanges, LinkChanges, threadVars
  <2>7. QED
    BY <2>1, <2>2, <2>3, <2>4, <2>5, <2>6 DEF PagesNext, PageTasks, PageUser
<1>2. CASE KeyboardEvent
  <2>1. layer.keyboard = "field"
    BY <1>2 DEF KeyboardEvent
  <2>2. QED
    BY <2>1 DEF PagesIInv, Keyboards
<1>3. CASE ThreadButton
  BY <1>3 DEF ThreadButton
<1>4. QED
  BY <1>1, <1>2, <1>3

-----------------------------------------------------------------------------
(* Both interfaces, whichever is in play.                                  *)

LEMMA RunSteps ==
  [RunNext]_runVars => [Next]_vars /\ [PagesNext]_pageVars
BY DEF RunNext, InConsole, InPages, runVars

\* The console of the run is a console: what was proved of it holds.
THEOREM RunsConsole == RunSpec => Spec
<1>1. RunInit => Init
  BY DEF RunInit
<1>2. QED
  BY <1>1, RunSteps, PTL DEF RunSpec, Spec

\* The invariant of the display's pages: who has a page in hand, which key is in
\* force, what is still to be drawn, and what waits for the connection.
THEOREM PagesInvariant == RunSpec => []PagesIInv
<1>1. RunInit => PagesIInv
  BY PagesStart DEF RunInit
<1>2. PagesIInv /\ [RunNext]_runVars => PagesIInv'
  BY RunSteps, PagesStep
<1>3. QED
  BY <1>1, <1>2, PTL DEF RunSpec

\* Contexts of the console's commands are live; every page of the display is
\* deleted once, shows the key in force, the role and the link, and the page
\* "Wi-Fi connecting..." is up as long as there is something to wait for,
\* however keys end, links change and calls are delayed.
THEOREM BothHold == RunSpec => []InterfacesHold
<1>1. PagesIInv => PagesHold
  BY PagesShow
<1>2. QED
  BY <1>1, PagesInvariant, RunsConsole, ConsoleSafe, PTL DEF InterfacesHold

\* "dm add" and "zha add" add all that they name, or nothing; and
\* br_m5stack_thread_page.c sets the dataset of a Thread that is stopped, unless
\* another started it under the keyboard.
THEOREM EditsAreSafe == RunSpec => EditsSafe
<1>1. PagesIInv /\ [RunNext]_runVars
        => [dataset' # dataset => role = "disabled" \/ under]_pageVars
  BY RunSteps, DatasetStep
<1>2. RunSpec => StoppedDataset
  BY <1>1, PagesInvariant, PTL DEF RunSpec, StoppedDataset
<1>3. QED
  BY <1>2, RunsConsole, AdditionsAtomic, PTL DEF EditsSafe
=============================================================================
