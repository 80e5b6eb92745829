-------------------------- MODULE CliSocketsProofs --------------------------
(***************************************************************************)
(* Theorems about the socket commands of the CLI, for any number of opens, *)
(* connects, listening sockets and workers: of tcpsockclient alone         *)
(* (CliTcpClient), and of all of them as MCCliSockets puts them side by    *)
(* side.  With a patient operator one worker at a time is between its open *)
(* and its end, it is the worker of the global group, and where it stands  *)
(* says what the member's fields hold.                                     *)
(***************************************************************************)
EXTENDS MCCliSockets, FiniteSetTheorems, TLAPS

-----------------------------------------------------------------------------
(* tcpsockclient: the inductive invariant.                                 *)

Active(w) == worker[w] \notin {"none", "done"}

WorkerPCs == {"none", "wait", "add", "connect", "added", "send", "lock",
              "delete", "closing", "end", "done"}

TaskTypeOK == /\ worker \in [Groups -> WorkerPCs]
              /\ receiver \in [Socks -> {"none", "recv", "signal", "check", "done"}]
              /\ told \in [Socks -> BOOLEAN]

\* The groups that exist are those of the workers that run: at most one.
OneWorker == /\ \A w \in Groups : Active(w) => w = group
             /\ live = {w \in Groups : Active(w)}

\* A worker the operator can still reach has not been asked to close; one he
\* cannot reach has been, and is on its way to its end.
Handles ==
  /\ handle # NULL => /\ handle = group /\ Active(handle)
                      /\ worker[handle] \notin {"lock", "end"}
                      /\ mutex # handle
                      /\ "CLOSE" \notin bits[handle]
  /\ \A w \in Groups : Active(w) /\ w # handle =>
       \/ worker[w] = "wait" /\ "CLOSE" \in bits[w]
       \/ worker[w] = "lock"
       \/ mutex = w
  /\ \A w \in Groups : worker[w] = "end" => mutex = w

\* What exist and sock hold, by where the worker stands.
Members ==
  /\ (\A w \in Groups : ~Active(w)) => exist = 0 /\ sock = NoSock
  /\ \A w \in Groups :
       /\ worker[w] \in {"add", "end"} => exist = 0 /\ sock = NoSock
       /\ worker[w] \in {"connect", "added", "closing"} =>
            exist = 0 /\ sock # NoSock
       /\ worker[w] \in {"wait", "send", "lock", "delete"} =>
            (exist = 1 <=> sock # NoSock)
       /\ "ADD" \in bits[w] => worker[w] = "wait" /\ exist = 0

ClientIInv == /\ ClientTypeOK /\ TaskTypeOK
              /\ OneWorker /\ Handles /\ Members /\ SocketsOwned

-----------------------------------------------------------------------------
LEMMA Numbers == NULL \notin Groups /\ NoSock \notin Socks
BY ClientAssumption DEF NULL, NoSock, Groups, Socks

LEMMA Start == Init => ClientIInv
BY Numbers DEF Init, ClientIInv, ClientTypeOK, TaskTypeOK, WorkerPCs, OneWorker,
   Handles, Members, SocketsOwned, Active

-----------------------------------------------------------------------------
(* The commands.  That the operator waits is what keeps the workers apart.   *)

LEMMA ConnectStep ==
  ASSUME ClientIInv, Connect
  PROVE  ClientIInv'
BY Numbers DEF ClientIInv, ClientTypeOK, TaskTypeOK, WorkerPCs, OneWorker, Active,
   Handles, Members, SocketsOwned, member, tasks,
   Connect, Settled, Only, SetBit

LEMMA SendMessageStep ==
  ASSUME ClientIInv, SendMessage
  PROVE  ClientIInv'
BY Numbers DEF ClientIInv, ClientTypeOK, TaskTypeOK, WorkerPCs, OneWorker, Active,
   Handles, Members, SocketsOwned, member, tasks,
   SendMessage, Settled, Only, SetBit

LEMMA CloseStep ==
  ASSUME ClientIInv, Close
  PROVE  ClientIInv'
BY Numbers DEF ClientIInv, ClientTypeOK, TaskTypeOK, WorkerPCs, OneWorker, Active,
   Handles, Members, SocketsOwned, member, tasks,
   Close, Settled, Only, SetBit

\* When everything has had its effect and there is no handle, no worker is left:
\* one that still waits would have been asked to close.
LEMMA OpenStep ==
  ASSUME ClientIInv, Open
  PROVE  ClientIInv'
<1> USE Numbers DEF ClientIInv, Active
<1>1. \A w \in Groups : ~Active(w)
  BY DEF Open, Settled, Handles, ClientTypeOK
<1>2. exist = 0 /\ sock = NoSock /\ live = {}
  BY <1>1 DEF Members, OneWorker
<1>3. \A w \in Groups : "ADD" \notin bits[w] /\ "CLOSE" \notin bits[w]
  BY DEF Open, Settled
<1>4. PICK n \in Groups : /\ handle' = n /\ group' = n /\ live' = live \cup {n}
                          /\ worker' = [worker EXCEPT ![n] = "wait"]
                          /\ UNCHANGED <<bits, member, open, lost, receiver, told,
                                         mutex>>
  BY DEF Open, Work
<1>5. mutex = NULL
  BY <1>1 DEF ClientTypeOK
<1>6. ClientTypeOK' /\ TaskTypeOK'
  BY <1>4, <1>5 DEF ClientTypeOK, TaskTypeOK, WorkerPCs, member
<1>7. OneWorker'
  BY <1>1, <1>2, <1>4 DEF OneWorker, TaskTypeOK
<1>8. Handles'
  BY <1>1, <1>3, <1>4, <1>5 DEF Handles, TaskTypeOK
<1>9. Members' /\ SocketsOwned'
  BY <1>1, <1>2, <1>3, <1>4 DEF Members, SocketsOwned, TaskTypeOK, member
<1>10. QED
  BY <1>6, <1>7, <1>8, <1>9

-----------------------------------------------------------------------------
LEMMA TakeBitStep ==
  ASSUME ClientIInv, NEW w \in Groups,
         NEW b \in {"ADD", "SEND", "DELETE", "CLOSE"}, TakeBit(w, b)
  PROVE  ClientIInv'
BY Numbers DEF ClientIInv, ClientTypeOK, TaskTypeOK, WorkerPCs, OneWorker, Active,
   Handles, Members, SocketsOwned, member, tasks,
   TakeBit, Branch, ClearBit, Work

LEMMA AddSocketStep ==
  ASSUME ClientIInv, NEW w \in Groups, AddSocket(w)
  PROVE  ClientIInv'
BY Numbers DEF ClientIInv, ClientTypeOK, TaskTypeOK, WorkerPCs, OneWorker, Active,
   Handles, Members, SocketsOwned, member, tasks,
   AddSocket, Work

LEMMA ConnectedStep ==
  ASSUME ClientIInv, NEW w \in Groups, Connected(w)
  PROVE  ClientIInv'
BY Numbers DEF ClientIInv, ClientTypeOK, TaskTypeOK, WorkerPCs, OneWorker, Active,
   Handles, Members, SocketsOwned, member, tasks,
   Connected, Work, Receive

LEMMA AddedStep ==
  ASSUME ClientIInv, NEW w \in Groups, Added(w)
  PROVE  ClientIInv'
BY Numbers DEF ClientIInv, ClientTypeOK, TaskTypeOK, WorkerPCs, OneWorker, Active,
   Handles, Members, SocketsOwned, member, tasks,
   Added, Work

LEMMA AddFailsStep ==
  ASSUME ClientIInv, NEW w \in Groups, AddFails(w)
  PROVE  ClientIInv'
BY Numbers DEF ClientIInv, ClientTypeOK, TaskTypeOK, WorkerPCs, OneWorker, Active,
   Handles, Members, SocketsOwned, member, tasks,
   AddFails, Work

LEMMA SendStep ==
  ASSUME ClientIInv, NEW w \in Groups, Send(w)
  PROVE  ClientIInv'
BY Numbers DEF ClientIInv, ClientTypeOK, TaskTypeOK, WorkerPCs, OneWorker, Active,
   Handles, Members, SocketsOwned, member, tasks,
   Send, Work

LEMMA LockStep ==
  ASSUME ClientIInv, NEW w \in Groups, Lock(w)
  PROVE  ClientIInv'
BY Numbers DEF ClientIInv, ClientTypeOK, TaskTypeOK, WorkerPCs, OneWorker, Active,
   Handles, Members, SocketsOwned, member, tasks,
   Lock, Work

\* tcp_client_delete without a client goes on to the end of the task only for
\* the worker that took the mutex, which no command can reach any more.
LEMMA DeleteStep ==
  ASSUME ClientIInv, NEW w \in Groups, Delete(w)
  PROVE  ClientIInv'
<1> USE Numbers DEF ClientIInv, Active
<1>1. /\ worker[w] = "delete" /\ w = group
      /\ (exist = 1 <=> sock # NoSock)
      /\ w # handle => mutex = w
      /\ w = handle => mutex # w
  BY DEF Delete, OneWorker, Handles, Members, ClientTypeOK
<1>2. /\ exist' = 0 /\ UNCHANGED <<handle, group, bits, live, sock, open, mutex>>
      /\ worker' = [worker EXCEPT ![w] = IF exist = 1 THEN "closing"
                                         ELSE IF mutex = w THEN "end" ELSE "wait"]
      /\ UNCHANGED <<lost, receiver, told>>
  BY DEF Delete, Work
<1>3. ClientTypeOK' /\ TaskTypeOK'
  BY <1>1, <1>2 DEF ClientTypeOK, TaskTypeOK, WorkerPCs
<1>4. OneWorker'
  BY <1>1, <1>2 DEF OneWorker, TaskTypeOK
<1>5. Handles'
  BY <1>1, <1>2 DEF Handles, OneWorker, TaskTypeOK
<1>6. Members'
  BY <1>1, <1>2 DEF Members, OneWorker, TaskTypeOK, ClientTypeOK
<1>7. QED
  BY <1>2, <1>3, <1>4, <1>5, <1>6 DEF SocketsOwned

LEMMA CloseSocketStep ==
  ASSUME ClientIInv, NEW w \in Groups, CloseSocket(w)
  PROVE  ClientIInv'
BY Numbers DEF ClientIInv, ClientTypeOK, TaskTypeOK, WorkerPCs, OneWorker, Active,
   Handles, Members, SocketsOwned, member, tasks,
   CloseSocket, Work

\* The worker that deletes the global group deletes its own.
LEMMA DeleteGroupStep ==
  ASSUME ClientIInv, NEW w \in Groups, DeleteGroup(w)
  PROVE  ClientIInv'
<1> USE Numbers DEF ClientIInv, Active
<1>1. /\ worker[w] = "end" /\ w = group /\ w # handle /\ mutex = w
      /\ exist = 0 /\ sock = NoSock
  BY DEF DeleteGroup, OneWorker, Handles, Members, ClientTypeOK
<1>2. /\ live' = live \ {w} /\ mutex' = NULL
      /\ worker' = [worker EXCEPT ![w] = "done"]
      /\ UNCHANGED <<handle, group, bits, member, open, lost, receiver, told>>
  BY <1>1 DEF DeleteGroup, Work
<1>3. \A v \in Groups : ~Active(v)'
  BY <1>1, <1>2 DEF OneWorker, TaskTypeOK
<1>4. live' = {}
  BY <1>1, <1>2 DEF OneWorker
<1>5. handle' = NULL
  BY <1>1, <1>2 DEF Handles
<1>6. ClientTypeOK' /\ TaskTypeOK'
  BY <1>2, <1>4 DEF ClientTypeOK, TaskTypeOK, WorkerPCs, member
<1>7. Handles' /\ OneWorker'
  BY <1>3, <1>4, <1>5 DEF Handles, OneWorker
<1>8. Members' /\ SocketsOwned'
  BY <1>1, <1>2, <1>3 DEF Members, SocketsOwned, TaskTypeOK, member
<1>9. QED
  BY <1>6, <1>7, <1>8

-----------------------------------------------------------------------------
(* The receive task reads the member's fields and writes none of them.       *)

LEMMA RecvReturnsStep ==
  ASSUME ClientIInv, NEW r \in Socks, RecvReturns(r)
  PROVE  ClientIInv'
BY Numbers DEF ClientIInv, ClientTypeOK, TaskTypeOK, WorkerPCs, OneWorker, Active,
   Handles, Members, SocketsOwned, member, tasks,
   RecvReturns, Receive

LEMMA RecvFailsStep ==
  ASSUME ClientIInv, NEW r \in Socks, RecvFails(r)
  PROVE  ClientIInv'
BY Numbers DEF ClientIInv, ClientTypeOK, TaskTypeOK, WorkerPCs, OneWorker, Active,
   Handles, Members, SocketsOwned, member, tasks,
   RecvFails, Receive

LEMMA SignalStep ==
  ASSUME ClientIInv, NEW r \in Socks, Signal(r)
  PROVE  ClientIInv'
<1> USE DEF ClientIInv, ClientTypeOK
<1>1. /\ \/ bits' = [bits EXCEPT ![group] = @ \cup {"DELETE"}]
         \/ bits' = bits
      /\ told' \in [Socks -> BOOLEAN]
      /\ receiver' = [receiver EXCEPT ![r] = "check"]
      /\ UNCHANGED <<handle, group, live, worker, exist, sock, open, lost, mutex>>
  BY DEF Signal, SetBit, Receive, TaskTypeOK, member
<1>2. /\ bits' \in [Groups -> SUBSET {"ADD", "SEND", "DELETE", "CLOSE"}]
      /\ \A g \in Groups : \A b \in {"ADD", "CLOSE"} : b \in bits'[g] <=> b \in bits[g]
  BY <1>1
<1>3. ClientTypeOK' /\ TaskTypeOK' /\ SocketsOwned'
  BY <1>1, <1>2 DEF TaskTypeOK, SocketsOwned
<1>4. OneWorker'
  BY <1>1 DEF OneWorker, Active
<1>5. Handles'
  BY <1>1, <1>2, Numbers DEF Handles, Active
<1>6. Members'
  BY <1>1, <1>2 DEF Members, Active
<1>7. QED
  BY <1>3, <1>4, <1>5, <1>6

LEMMA CheckExitStep ==
  ASSUME ClientIInv, NEW r \in Socks, CheckExit(r)
  PROVE  ClientIInv'
BY Numbers DEF ClientIInv, ClientTypeOK, TaskTypeOK, WorkerPCs, OneWorker, Active,
   Handles, Members, SocketsOwned, member, tasks,
   CheckExit, Receive

LEMMA LoseStep ==
  ASSUME ClientIInv, NEW r \in Socks, Lose(r)
  PROVE  ClientIInv'
BY Numbers DEF ClientIInv, ClientTypeOK, TaskTypeOK, WorkerPCs, OneWorker, Active,
   Handles, Members, SocketsOwned, member, tasks,
   Lose, Receive

-----------------------------------------------------------------------------
LEMMA Inductive == ClientIInv /\ [Next]_vars => ClientIInv'
<1> SUFFICES ASSUME ClientIInv, [Next]_vars PROVE ClientIInv'
  OBVIOUS
<1>1. CASE Command
  BY <1>1, OpenStep, ConnectStep, SendMessageStep, CloseStep DEF Command
<1>2. ASSUME NEW w \in Groups, WorkerStep(w) PROVE ClientIInv'
  BY <1>2, TakeBitStep, AddSocketStep, ConnectedStep, AddedStep, AddFailsStep,
     SendStep, LockStep, DeleteStep, CloseSocketStep, DeleteGroupStep
     DEF WorkerStep
<1>3. ASSUME NEW r \in Socks, ReceiverStep(r) \/ Lose(r) PROVE ClientIInv'
  BY <1>3, RecvReturnsStep, RecvFailsStep, SignalStep, CheckExitStep, LoseStep
     DEF ReceiverStep
<1>4. CASE UNCHANGED vars
  BY <1>4 DEF vars, member, tasks, ClientIInv, ClientTypeOK, TaskTypeOK, OneWorker,
     Handles, Members, SocketsOwned, Active
<1>5. QED
  BY <1>1, <1>2, <1>3, <1>4 DEF Next

\* The inductive invariant holds in every state of the specification: one worker
\* at a time, and where it stands says what its client has of group and socket.
THEOREM Invariance == Spec => []ClientIInv
BY Start, Inductive, PTL DEF Spec

\* The fields of the member, the bits and the mutex stay in their types, and the
\* mutex is held by a worker that is closing its client.
THEOREM ClientTypeCorrect == Spec => []ClientTypeOK
<1>1. ClientIInv => ClientTypeOK
  BY DEF ClientIInv
<1>2. QED
  BY <1>1, Invariance, PTL

\* Whatever fails and whatever connection is lost, every open socket is the one
\* the member names: a close closes all there is.
THEOREM NoSocketLost == Spec => []SocketsOwned
<1>1. ClientIInv => SocketsOwned
  BY DEF ClientIInv
<1>2. QED
  BY <1>1, Invariance, PTL

\* xEventGroupSetBits is never called with a group that vEventGroupDelete has
\* freed, by no command and by no receive task.
THEOREM NoDeletedGroup == Spec => DeletedUntouched
<1> DEFINE Touches == \A g \in Groups : bits'[g] # bits[g] => g \in live
<1>1. ClientIInv /\ [Next]_vars => [Touches]_vars
  <2> SUFFICES ASSUME ClientIInv, Next PROVE Touches
    OBVIOUS
  <2> USE Numbers DEF ClientIInv, ClientTypeOK, Active
  <2>1. CASE Command
    <3>1. Open => UNCHANGED bits
      BY DEF Open
    <3>2. Connect \/ SendMessage \/ Close =>
            group \in live /\ \A g \in Groups : g # group => bits'[g] = bits[g]
      BY DEF Connect, SendMessage, Close, Only, SetBit, Handles, OneWorker
    <3>3. QED
      BY <2>1, <3>1, <3>2 DEF Command
  <2>2. ASSUME NEW w \in Groups, WorkerStep(w) PROVE Touches
    <3>1. ASSUME NEW b \in {"ADD", "SEND", "DELETE", "CLOSE"}, TakeBit(w, b)
          PROVE  Touches
      BY <3>1 DEF TakeBit, ClearBit, OneWorker
    <3>2. QED
      BY <2>2, <3>1 DEF WorkerStep, AddSocket, Connected, Added, AddFails, Send,
         Lock, Delete, CloseSocket, DeleteGroup
  <2>3. ASSUME NEW r \in Socks, ReceiverStep(r) \/ Lose(r) PROVE Touches
    \* With a socket in the member the worker has not come to its end.
    <3>1. sock # NoSock => group \in live
      BY DEF Members, OneWorker
    <3>2. Signal(r) => Touches
      BY <3>1 DEF Signal, SetBit
    <3>3. QED
      BY <2>3, <3>2 DEF ReceiverStep, RecvReturns, RecvFails, CheckExit, Lose
  <2>4. QED
    BY <2>1, <2>2, <2>3 DEF Next
<1>2. QED
  BY <1>1, Invariance, PTL DEF Spec, DeletedUntouched

-----------------------------------------------------------------------------
(* tcpsockserver: the inductive invariant.                                 *)

SrvPCs == {"none", "wait", "add", "bind", "added", "send", "lock", "delete",
           "forget", "closing", "end"}
AcceptPCs == {"none", "accept", "accepted", "tell", "turn", "recv", "lost", "check",
              "done"}
AnyBind == Binds \cup {NoBind}

SrvTyped ==
  /\ srvGroup \in [live : BOOLEAN, bits : SUBSET {"ADD", "SEND", "DELETE", "CLOSE"}]
  /\ srvOpen \in BOOLEAN /\ srvMutex \in BOOLEAN /\ late \in BOOLEAN
  /\ srvWork \in SrvPCs /\ srvExist \in {0, 1}
  /\ listen_sock \in AnyBind /\ connect_sock \in AnyBind
  /\ going \in [listener : AnyBind, peer : AnyBind]
  /\ listening \subseteq Binds /\ connected \subseteq Binds
  /\ accept \in [Binds -> AcceptPCs] /\ set_exit \in [Binds -> BOOLEAN]

\* The listening sockets were made one after the other.
BindsInTurn == \A n \in Binds : accept[n] # "none" <=> n < NextBind

\* A worker the operator can still reach has not been asked to close; one he
\* cannot reach has been, and is on its way to its end.
SrvHandles ==
  /\ srvGroup.live <=> srvWork # "none"
  /\ srvOpen => /\ srvWork \notin {"none", "lock", "end"} /\ ~srvMutex
                /\ "CLOSE" \notin srvGroup.bits
  /\ ~srvOpen /\ srvWork # "none" =>
       \/ srvWork = "wait" /\ "CLOSE" \in srvGroup.bits
       \/ srvWork = "lock"
       \/ srvMutex
  /\ srvMutex => srvWork \in {"delete", "forget", "closing", "end"}
  /\ srvWork = "end" => srvMutex

\* What the member's exist and listen_sock hold, and the locals of
\* tcp_server_delete, by where the worker stands.
SrvMembers ==
  /\ srvWork \in {"none", "add", "closing", "end"} => srvExist = 0 /\ listen_sock = NoBind
  /\ srvWork \in {"bind", "added", "forget"} => srvExist = 0 /\ listen_sock # NoBind
  /\ srvWork \in {"wait", "send", "lock", "delete"} =>
       (srvExist = 1 <=> listen_sock # NoBind)
  /\ srvWork = "add" => NextBind \in Binds
  /\ "ADD" \in srvGroup.bits => /\ srvWork = "wait" /\ srvExist = 0
                                 /\ NextBind \in Binds
  /\ srvWork = "bind" => listen_sock = NextBind
  /\ srvWork = "forget" => going.listener = listen_sock
  /\ srvWork \notin {"forget", "closing"} => going = Nothing

\* The peer is that of the listening socket; what tcp_server_delete looked up is
\* what it forgets.
SrvPeers ==
  ~late => /\ connect_sock \in {NoBind, listen_sock}
           /\ srvWork = "bind" => connect_sock = NoBind
           /\ srvWork = "forget" => going.peer = connect_sock

SrvIInv == /\ SrvTyped /\ BindsInTurn /\ SrvHandles /\ SrvMembers /\ SrvPeers
           /\ SrvSocketsOwned

-----------------------------------------------------------------------------
(* The UDP commands: the inductive invariant.                              *)

UdpPCs == {"none", "wait", "bind", "create", "created", "send", "delete", "close", "end"}
AnyUdp == Udps \cup {NoUdp}

UdpTyped ==
  /\ kind \in {"server", "client"} /\ udpOpen \in BOOLEAN
  /\ udpGroup \in [live : BOOLEAN, bits : SUBSET {"BIND", "SEND", "CLOSE"}]
  /\ udpWork \in UdpPCs /\ udpExist \in {0, 1} /\ udpSock \in AnyUdp
  /\ udpSocks \subseteq Udps /\ early \in BOOLEAN /\ refused \in BOOLEAN
  /\ reader \in [Udps -> {"none", "recv", "check", "done"}]

\* Only a client that could not be opened leaves its handle behind.
UdpHandles ==
  /\ udpGroup.live <=> udpWork # "none"
  /\ udpOpen /\ udpWork \in {"none", "end"} => refused
  /\ refused => kind = "client"
  /\ udpOpen => udpWork \notin {"delete", "close"} /\ "CLOSE" \notin udpGroup.bits
  /\ ~udpOpen /\ udpWork # "none" =>
       \/ udpWork = "wait" /\ "CLOSE" \in udpGroup.bits
       \/ udpWork \in {"delete", "close", "end"}

\* What exist, sock and the receive task are, by where the worker stands.
UdpMembers ==
  /\ udpWork \in {"none", "bind", "end"} => udpExist = 0 /\ udpSock = NoUdp
  /\ udpWork \in {"create", "created"} => udpExist = 0 /\ udpSock # NoUdp
  /\ udpWork \in {"wait", "send", "delete"} => (udpExist = 1 <=> udpSock # NoUdp)
  /\ udpWork = "close" => udpExist = 0
  /\ udpSock # NoUdp => udpSock \in udpSocks
  /\ udpWork = "bind" => NextUdp \in Udps
  /\ "BIND" \in udpGroup.bits => /\ udpWork = "wait" /\ udpExist = 0
                                  /\ NextUdp \in Udps
  /\ udpWork = "created" \/ udpExist = 1 =>
       early \/ reader[udpSock] \in {"recv", "check"}

UdpIInv == UdpTyped /\ UdpHandles /\ UdpMembers /\ UdpServed

SocketsIInv == ClientIInv /\ SrvIInv /\ UdpIInv

-----------------------------------------------------------------------------
(* tcpsockserver: its steps.                                               *)

LEMMA SrvNumbers == NoBind \notin Binds /\ MaxBinds \in Nat
BY ServerAssumption DEF NoBind, Binds

\* Where no first task starts, the next listening socket is the same.
LEMMA SameBind ==
  ASSUME \A n \in Binds : accept'[n] # "none" <=> accept[n] # "none"
  PROVE  NextBind' = NextBind
<1>1. {n \in Binds : accept'[n] # "none"} = {n \in Binds : accept[n] # "none"}
  OBVIOUS
<1>2. QED
  BY <1>1 DEF NextBind

\* The first that are used are those that count.
LEMMA BindsCounted ==
  ASSUME NEW k \in Nat, NEW f, k <= MaxBinds,
         \A n \in Binds : f[n] # "none" <=> n <= k
  PROVE  Cardinality({n \in Binds : f[n] # "none"}) = k
<1>1. {n \in Binds : f[n] # "none"} = 1..k
  BY SrvNumbers DEF Binds
<1>2. Cardinality(1..k) = k
  BY FS_Interval
<1>3. QED
  BY <1>1, <1>2

\* What changes neither the worker nor the member.
LEMMA BindsKept ==
  ASSUME SrvTyped, BindsInTurn, \A n \in Binds : accept'[n] # "none" <=> accept[n] # "none"
  PROVE  BindsInTurn' /\ NextBind' = NextBind
BY SameBind DEF BindsInTurn

\* The task of the listening socket in hand starts, or its number is spent.
LEMMA BindTaken ==
  ASSUME SrvTyped, BindsInTurn, listen_sock = NextBind, listen_sock \in Binds,
         NEW p \in AcceptPCs \ {"none"}, Accept(listen_sock, p)
  PROVE  BindsInTurn'
<1> DEFINE k == listen_sock
<1>1. /\ k \in Nat /\ k <= MaxBinds /\ \A n \in Binds : n \in Nat
      /\ \A n \in Binds : n < k \/ n = k <=> n <= k
  BY SrvNumbers DEF Binds
<1>2. \A n \in Binds : accept[n] # "none" <=> n < k
  BY DEF BindsInTurn
<1>3. \A n \in Binds : accept'[n] = IF n = k THEN p ELSE accept[n]
  BY DEF Accept, SrvTyped
<1>4. \A n \in Binds : accept'[n] # "none" <=> n <= k
  BY <1>1, <1>2, <1>3
<1>5. NextBind' = k + 1
  BY <1>1, <1>4, BindsCounted DEF NextBind
<1>6. \A n \in Binds : n <= k <=> n < k + 1
  BY <1>1
<1>7. QED
  BY <1>4, <1>5, <1>6 DEF BindsInTurn

LEMMA SrvStart == SrvInit => SrvIInv
<1> SUFFICES ASSUME SrvInit PROVE SrvIInv
  OBVIOUS
<1>1. SrvTyped /\ SrvHandles /\ SrvPeers /\ SrvSocketsOwned
  BY SrvNumbers DEF SrvInit, SrvTyped, SrvHandles, SrvPeers, SrvSocketsOwned, SrvPCs,
     AcceptPCs, AnyBind, Nothing
<1>2. BindsInTurn /\ SrvMembers
  <2>1. \A n \in Binds : accept[n] # "none" <=> n <= 0
    BY DEF SrvInit, Binds
  <2>2. NextBind = 1
    BY <2>1, SrvNumbers, BindsCounted DEF NextBind
  <2>3. QED
    BY <2>1, <2>2, SrvNumbers DEF SrvInit, BindsInTurn, SrvMembers, Binds
<1>3. QED
  BY <1>1, <1>2 DEF SrvIInv

\* What the worker and the commands do while no receive task moves.
LEMMA AcceptsKept == SrvIInv /\ UNCHANGED accept => BindsInTurn' /\ NextBind' = NextBind
BY BindsKept DEF SrvIInv

LEMMA SrvOpensStep ==
  ASSUME SrvIInv, SrvOpens
  PROVE  SrvIInv'
BY SrvNumbers, AcceptsKept DEF SrvIInv, SrvTyped, SrvHandles, SrvMembers, SrvPeers, SrvSocketsOwned,
   SrvPCs, AcceptPCs, AnyBind, Nothing, srvMember, srvOpened, srvTasks, srvRun,
   SrvOpens, SrvSettled

LEMMA SrvBindStep ==
  ASSUME SrvIInv, SrvBind
  PROVE  SrvIInv'
BY SrvNumbers, AcceptsKept DEF SrvIInv, SrvTyped, SrvHandles, SrvMembers, SrvPeers, SrvSocketsOwned,
   SrvPCs, AcceptPCs, AnyBind, Nothing, srvMember, srvOpened, srvTasks, srvRun,
   SrvBind, SrvSets, SrvSettled, Raise

LEMMA SrvSendStep ==
  ASSUME SrvIInv, SrvSend
  PROVE  SrvIInv'
<1>1. /\ srvGroup' = [srvGroup EXCEPT !.bits = @ \cup {"SEND"}]
      /\ UNCHANGED <<srvOpen, srvWork, srvExist, listen_sock, connect_sock, going,
                     listening, connected, accept, set_exit, srvMutex, servers, late>>
  BY DEF SrvSend, SrvSets, Raise, srvMember, srvOpened, srvTasks, srvRun
<1>2. BindsInTurn' /\ NextBind' = NextBind
  BY <1>1, AcceptsKept
<1>3. /\ srvGroup' \in [live : BOOLEAN, bits : SUBSET {"ADD", "SEND", "DELETE", "CLOSE"}]
      /\ srvGroup'.live = srvGroup.live
      /\ \A b \in {"ADD", "CLOSE"} : b \in srvGroup'.bits <=> b \in srvGroup.bits
  BY <1>1 DEF SrvIInv, SrvTyped
<1>4. SrvTyped' /\ SrvPeers' /\ SrvSocketsOwned'
  BY <1>1, <1>3 DEF SrvIInv, SrvTyped, SrvPeers, SrvSocketsOwned
<1>5. SrvHandles' /\ SrvMembers'
  BY <1>1, <1>2, <1>3 DEF SrvIInv, SrvTyped, SrvHandles, SrvMembers
<1>6. QED
  BY <1>2, <1>4, <1>5 DEF SrvIInv

LEMMA SrvCloseStep ==
  ASSUME SrvIInv, SrvClose
  PROVE  SrvIInv'
<1>1. /\ srvGroup' = [srvGroup EXCEPT !.bits = @ \cup {"CLOSE"}] /\ srvOpen' = FALSE
      /\ srvWork \in {"none", "wait"} /\ srvOpen
      /\ UNCHANGED <<srvWork, srvExist, listen_sock, connect_sock, going,
                     listening, connected, accept, set_exit, srvMutex, servers, late>>
  BY DEF SrvClose, SrvSets, SrvSettled, Raise, srvMember, srvOpened, srvTasks, srvRun
<1>2. BindsInTurn' /\ NextBind' = NextBind
  BY <1>1, AcceptsKept
<1>3. /\ srvGroup' \in [live : BOOLEAN, bits : SUBSET {"ADD", "SEND", "DELETE", "CLOSE"}]
      /\ srvGroup'.live = srvGroup.live /\ "CLOSE" \in srvGroup'.bits
      /\ "ADD" \in srvGroup'.bits <=> "ADD" \in srvGroup.bits
  BY <1>1 DEF SrvIInv, SrvTyped
<1>4. SrvTyped' /\ SrvPeers' /\ SrvSocketsOwned'
  BY <1>1, <1>3 DEF SrvIInv, SrvTyped, SrvPeers, SrvSocketsOwned
<1>5. SrvHandles' /\ SrvMembers'
  BY <1>1, <1>2, <1>3 DEF SrvIInv, SrvTyped, SrvHandles, SrvMembers
<1>6. QED
  BY <1>2, <1>4, <1>5 DEF SrvIInv

LEMMA SrvTakesStep ==
  ASSUME SrvIInv, SrvTakes
  PROVE  SrvIInv'
BY SrvNumbers, AcceptsKept DEF SrvIInv, SrvTyped, SrvHandles, SrvMembers, SrvPeers, SrvSocketsOwned,
   SrvPCs, AcceptPCs, AnyBind, Nothing, srvMember, srvOpened, srvTasks, srvRun,
   SrvTakes, SrvBranch

LEMMA SrvSocketStep ==
  ASSUME SrvIInv, SrvSocket
  PROVE  SrvIInv'
BY SrvNumbers, AcceptsKept DEF SrvIInv, SrvTyped, SrvHandles, SrvMembers, SrvPeers, SrvSocketsOwned,
   SrvPCs, AcceptPCs, AnyBind, Nothing, srvMember, srvOpened, srvTasks, srvRun,
   SrvSocket

LEMMA SrvAddedStep ==
  ASSUME SrvIInv, SrvAdded
  PROVE  SrvIInv'
BY SrvNumbers, AcceptsKept DEF SrvIInv, SrvTyped, SrvHandles, SrvMembers, SrvPeers, SrvSocketsOwned,
   SrvPCs, AcceptPCs, AnyBind, Nothing, srvMember, srvOpened, srvTasks, srvRun,
   SrvAdded

LEMMA SrvSentStep ==
  ASSUME SrvIInv, SrvSent
  PROVE  SrvIInv'
BY SrvNumbers, AcceptsKept DEF SrvIInv, SrvTyped, SrvHandles, SrvMembers, SrvPeers, SrvSocketsOwned,
   SrvPCs, AcceptPCs, AnyBind, Nothing, srvMember, srvOpened, srvTasks, srvRun,
   SrvSent

LEMMA SrvLocksStep ==
  ASSUME SrvIInv, SrvLocks
  PROVE  SrvIInv'
BY SrvNumbers, AcceptsKept DEF SrvIInv, SrvTyped, SrvHandles, SrvMembers, SrvPeers, SrvSocketsOwned,
   SrvPCs, AcceptPCs, AnyBind, Nothing, srvMember, srvOpened, srvTasks, srvRun,
   SrvLocks

LEMMA SrvDeleteStep ==
  ASSUME SrvIInv, SrvDelete
  PROVE  SrvIInv'
BY SrvNumbers, AcceptsKept DEF SrvIInv, SrvTyped, SrvHandles, SrvMembers, SrvPeers, SrvSocketsOwned,
   SrvPCs, AcceptPCs, AnyBind, Nothing, srvMember, srvOpened, srvTasks, srvRun,
   SrvDelete, AfterDelete

LEMMA SrvForgetsStep ==
  ASSUME SrvIInv, SrvForgets
  PROVE  SrvIInv'
BY SrvNumbers, AcceptsKept DEF SrvIInv, SrvTyped, SrvHandles, SrvMembers, SrvPeers, SrvSocketsOwned,
   SrvPCs, AcceptPCs, AnyBind, Nothing, srvMember, srvOpened, srvTasks, srvRun,
   SrvForgets

LEMMA SrvClosesStep ==
  ASSUME SrvIInv, SrvCloses
  PROVE  SrvIInv'
BY SrvNumbers, AcceptsKept DEF SrvIInv, SrvTyped, SrvHandles, SrvMembers, SrvPeers, SrvSocketsOwned,
   SrvPCs, AcceptPCs, AnyBind, Nothing, srvMember, srvOpened, srvTasks, srvRun,
   SrvCloses, AfterDelete

LEMMA SrvEndsStep ==
  ASSUME SrvIInv, SrvEnds
  PROVE  SrvIInv'
BY SrvNumbers, AcceptsKept DEF SrvIInv, SrvTyped, SrvHandles, SrvMembers, SrvPeers, SrvSocketsOwned,
   SrvPCs, AcceptPCs, AnyBind, Nothing, srvMember, srvOpened, srvTasks, srvRun,
   SrvEnds

\* The listening socket in hand is the next to be used until its task starts.
LEMMA BindInHand ==
  ASSUME SrvIInv, srvWork = "bind", NEW p \in AcceptPCs \ {"none"}, Accept(listen_sock, p)
  PROVE  /\ BindsInTurn' /\ listen_sock \in Binds /\ accept[listen_sock] = "none"
         /\ \A n \in Binds : accept'[n] = IF n = listen_sock THEN p ELSE accept[n]
<1>1. listen_sock = NextBind /\ listen_sock \in Binds
  BY DEF SrvIInv, SrvMembers, SrvTyped, AnyBind
<1>2. BindsInTurn'
  BY <1>1, BindTaken DEF SrvIInv
<1>3. accept[listen_sock] = "none"
  <2>1. ~(listen_sock < listen_sock)
    BY <1>1 DEF Binds
  <2>2. QED
    BY <1>1, <2>1 DEF SrvIInv, BindsInTurn
<1>4. \A n \in Binds : accept'[n] = IF n = listen_sock THEN p ELSE accept[n]
  BY DEF Accept, SrvIInv, SrvTyped
<1>5. QED
  BY <1>1, <1>2, <1>3, <1>4

LEMMA SrvFailsStep ==
  ASSUME SrvIInv, SrvFails
  PROVE  SrvIInv'
<1>1. /\ BindsInTurn' /\ listen_sock \in Binds /\ accept[listen_sock] = "none"
      /\ \A n \in Binds : accept'[n] = IF n = listen_sock THEN "done" ELSE accept[n]
  BY BindInHand DEF SrvFails, AcceptPCs
<1>2. SrvTyped' /\ SrvHandles'
  BY DEF SrvIInv, SrvTyped, SrvHandles, SrvMembers, SrvFails, Accept, SrvPCs, AcceptPCs, AnyBind,
     srvMember, srvOpened, srvTasks, srvRun
<1>3. SrvMembers' /\ SrvPeers'
  BY SrvNumbers DEF SrvIInv, SrvTyped, SrvMembers, SrvPeers, SrvHandles, SrvFails,
     srvMember, srvOpened, srvTasks, srvRun
<1>4. SrvSocketsOwned'
  BY <1>1, SrvNumbers DEF SrvIInv, SrvTyped, SrvMembers, SrvPeers, SrvSocketsOwned,
     SrvFails, Nothing, srvMember, srvOpened, srvTasks, srvRun
<1>5. QED
  BY <1>1, <1>2, <1>3, <1>4 DEF SrvIInv

LEMMA SrvListensStep ==
  ASSUME SrvIInv, SrvListens
  PROVE  SrvIInv'
<1>1. /\ BindsInTurn' /\ listen_sock \in Binds /\ accept[listen_sock] = "none"
      /\ \A n \in Binds : accept'[n] = IF n = listen_sock THEN "accept" ELSE accept[n]
  BY BindInHand DEF SrvListens, AcceptPCs
<1>2. SrvTyped' /\ SrvHandles'
  BY DEF SrvIInv, SrvTyped, SrvHandles, SrvMembers, SrvListens, Accept, SrvPCs, AcceptPCs, AnyBind,
     srvMember, srvOpened, srvTasks, srvRun
<1>3. SrvMembers' /\ SrvPeers'
  BY SrvNumbers DEF SrvIInv, SrvTyped, SrvMembers, SrvPeers, SrvHandles, SrvListens,
     srvMember, srvOpened, srvTasks, srvRun
<1>4. SrvSocketsOwned'
  BY <1>1, SrvNumbers DEF SrvIInv, SrvTyped, SrvMembers, SrvPeers, SrvSocketsOwned,
     SrvListens, Nothing, srvMember, srvOpened, srvTasks, srvRun
<1>5. QED
  BY <1>1, <1>2, <1>3, <1>4 DEF SrvIInv

-----------------------------------------------------------------------------
(* tcp_server_task: the worker and the member's listening socket stay.     *)

\* A receive task that moves on uses no further number.
LEMMA AcceptMoves ==
  ASSUME SrvIInv, NEW n \in Binds, accept[n] # "none",
         NEW p \in AcceptPCs \ {"none"}, Accept(n, p)
  PROVE  /\ accept' \in [Binds -> AcceptPCs] /\ BindsInTurn' /\ NextBind' = NextBind
         /\ accept'[n] = p /\ \A m \in Binds : m # n => accept'[m] = accept[m]
<1>1. /\ accept' \in [Binds -> AcceptPCs]
      /\ accept'[n] = p /\ \A m \in Binds : m # n => accept'[m] = accept[m]
  BY DEF Accept, SrvIInv, SrvTyped
<1>2. \A m \in Binds : accept'[m] # "none" <=> accept[m] # "none"
  BY <1>1
<1>3. QED
  BY <1>1, <1>2, BindsKept DEF SrvIInv

LEMMA AcceptPeerStep ==
  ASSUME SrvIInv, NEW n \in Binds, AcceptPeer(n)
  PROVE  SrvIInv'
<1> DEFINE p == "accepted"
<1>1. /\ accept' \in [Binds -> AcceptPCs] /\ BindsInTurn' /\ NextBind' = NextBind
      /\ accept'[n] = p /\ \A m \in Binds : m # n => accept'[m] = accept[m]
  <2>1. p \in AcceptPCs \ {"none"} /\ Accept(n, p) /\ accept[n] # "none"
    BY DEF AcceptPeer, AcceptPCs
  <2>2. QED
    BY <2>1, AcceptMoves
<1>2. QED
  BY <1>1, SrvNumbers DEF SrvIInv, SrvTyped, SrvHandles, SrvMembers, SrvPeers, SrvSocketsOwned,
   SrvPCs, AcceptPCs, AnyBind, Nothing, srvMember, srvOpened, srvTasks, srvRun,
     AcceptPeer

LEMMA AcceptDoneStep ==
  ASSUME SrvIInv, NEW n \in Binds, AcceptDone(n)
  PROVE  SrvIInv'
<1> DEFINE p == "recv"
<1>1. /\ accept' \in [Binds -> AcceptPCs] /\ BindsInTurn' /\ NextBind' = NextBind
      /\ accept'[n] = p /\ \A m \in Binds : m # n => accept'[m] = accept[m]
  <2>1. p \in AcceptPCs \ {"none"} /\ Accept(n, p) /\ accept[n] # "none"
    BY DEF AcceptDone, AcceptPCs
  <2>2. QED
    BY <2>1, AcceptMoves
<1>2. /\ late' = (late \/ n # listen_sock \/ srvWork = "forget") /\ connect_sock' = n
      /\ UNCHANGED <<srvOpen, srvGroup, srvWork, srvExist, listen_sock, going, listening,
                     connected, set_exit, srvMutex, servers>>
  BY DEF AcceptDone, srvOpened, srvRun
<1>3. SrvTyped' /\ SrvHandles' /\ SrvMembers'
  BY <1>1, <1>2 DEF SrvIInv, SrvTyped, SrvHandles, SrvMembers, AnyBind
<1>4. SrvPeers'
  \* The task of a socket that is only being bound has not started.
  <2>1. srvWork = "bind" /\ n = listen_sock => FALSE
    <3>1. accept[n] # "none"
      BY DEF AcceptDone
    <3>2. ~(n < n)
      BY DEF Binds
    <3>3. QED
      BY <3>1, <3>2 DEF SrvIInv, BindsInTurn, SrvMembers
  <2>2. QED
    BY <1>2, <2>1 DEF SrvPeers
<1>5. SrvSocketsOwned'
  <2>1. SUFFICES ASSUME ~late, n = listen_sock, srvWork # "forget" PROVE SrvSocketsOwned'
    BY <1>2 DEF SrvSocketsOwned
  <2>2. going = Nothing
    BY <2>1, SrvNumbers DEF SrvIInv, SrvMembers
  <2>3. \A m \in connected : m = n \/ accept[m] = "accepted"
    BY <2>1, <2>2, SrvNumbers DEF SrvIInv, SrvTyped, SrvSocketsOwned, SrvPeers, Nothing
  <2>4. QED
    BY <1>1, <1>2, <2>1, <2>3 DEF SrvIInv, SrvTyped, SrvSocketsOwned
<1>6. QED
  BY <1>1, <1>3, <1>4, <1>5 DEF SrvIInv

LEMMA AcceptTellsStep ==
  ASSUME SrvIInv, NEW n \in Binds, AcceptTells(n)
  PROVE  SrvIInv'
<1> DEFINE p == "turn"
<1>1. /\ accept' \in [Binds -> AcceptPCs] /\ BindsInTurn' /\ NextBind' = NextBind
      /\ accept'[n] = p /\ \A m \in Binds : m # n => accept'[m] = accept[m]
  <2>1. p \in AcceptPCs \ {"none"} /\ Accept(n, p) /\ accept[n] # "none"
    BY DEF AcceptTells, AcceptPCs
  <2>2. QED
    BY <2>1, AcceptMoves
<1>2. QED
  BY <1>1, SrvNumbers DEF SrvIInv, SrvTyped, SrvHandles, SrvMembers, SrvPeers, SrvSocketsOwned,
   SrvPCs, AcceptPCs, AnyBind, Nothing, srvMember, srvOpened, srvTasks, srvRun,
     AcceptTells, Raise

LEMMA AcceptTurnsStep ==
  ASSUME SrvIInv, NEW n \in Binds, AcceptTurns(n)
  PROVE  SrvIInv'
<1> DEFINE p == "done"
<1>1. /\ accept' \in [Binds -> AcceptPCs] /\ BindsInTurn' /\ NextBind' = NextBind
      /\ accept'[n] = p /\ \A m \in Binds : m # n => accept'[m] = accept[m]
  <2>1. p \in AcceptPCs \ {"none"} /\ Accept(n, p) /\ accept[n] # "none"
    BY DEF AcceptTurns, AcceptPCs
  <2>2. QED
    BY <2>1, AcceptMoves
<1>2. QED
  BY <1>1, SrvNumbers DEF SrvIInv, SrvTyped, SrvHandles, SrvMembers, SrvPeers, SrvSocketsOwned,
   SrvPCs, AcceptPCs, AnyBind, Nothing, srvMember, srvOpened, srvTasks, srvRun,
     AcceptTurns

LEMMA PeerRecvStep ==
  ASSUME SrvIInv, NEW n \in Binds, PeerRecv(n)
  PROVE  SrvIInv'
<1> DEFINE p == "check"
<1>1. /\ accept' \in [Binds -> AcceptPCs] /\ BindsInTurn' /\ NextBind' = NextBind
      /\ accept'[n] = p /\ \A m \in Binds : m # n => accept'[m] = accept[m]
  <2>1. p \in AcceptPCs \ {"none"} /\ Accept(n, p) /\ accept[n] # "none"
    BY DEF PeerRecv, AcceptPCs
  <2>2. QED
    BY <2>1, AcceptMoves
<1>2. QED
  BY <1>1, SrvNumbers DEF SrvIInv, SrvTyped, SrvHandles, SrvMembers, SrvPeers, SrvSocketsOwned,
   SrvPCs, AcceptPCs, AnyBind, Nothing, srvMember, srvOpened, srvTasks, srvRun,
     PeerRecv

LEMMA PeerLostStep ==
  ASSUME SrvIInv, NEW n \in Binds, PeerLost(n)
  PROVE  SrvIInv'
<1> DEFINE p == "lost"
<1>1. /\ accept' \in [Binds -> AcceptPCs] /\ BindsInTurn' /\ NextBind' = NextBind
      /\ accept'[n] = p /\ \A m \in Binds : m # n => accept'[m] = accept[m]
  <2>1. p \in AcceptPCs \ {"none"} /\ Accept(n, p) /\ accept[n] # "none"
    BY DEF PeerLost, AcceptPCs
  <2>2. QED
    BY <2>1, AcceptMoves
<1>2. QED
  BY <1>1, SrvNumbers DEF SrvIInv, SrvTyped, SrvHandles, SrvMembers, SrvPeers, SrvSocketsOwned,
   SrvPCs, AcceptPCs, AnyBind, Nothing, srvMember, srvOpened, srvTasks, srvRun,
     PeerLost

LEMMA PeerTellsStep ==
  ASSUME SrvIInv, NEW n \in Binds, PeerTells(n)
  PROVE  SrvIInv'
<1> DEFINE p == "check"
<1>1. /\ accept' \in [Binds -> AcceptPCs] /\ BindsInTurn' /\ NextBind' = NextBind
      /\ accept'[n] = p /\ \A m \in Binds : m # n => accept'[m] = accept[m]
  <2>1. p \in AcceptPCs \ {"none"} /\ Accept(n, p) /\ accept[n] # "none"
    BY DEF PeerTells, AcceptPCs
  <2>2. QED
    BY <2>1, AcceptMoves
<1>2. /\ \/ srvGroup' = [srvGroup EXCEPT !.bits = @ \cup {"DELETE"}]
         \/ srvGroup' = srvGroup
      /\ set_exit' \in [Binds -> BOOLEAN]
      /\ accept[n] = "lost"
      /\ UNCHANGED <<srvOpen, srvWork, srvExist, listen_sock, connect_sock, going,
                     listening, connected, srvMutex, servers, late>>
  BY DEF PeerTells, Raise, SrvIInv, SrvTyped, srvMember, srvOpened, srvRun
<1>3. /\ srvGroup' \in [live : BOOLEAN, bits : SUBSET {"ADD", "SEND", "DELETE", "CLOSE"}]
      /\ srvGroup'.live = srvGroup.live
      /\ \A b \in {"ADD", "CLOSE"} : b \in srvGroup'.bits <=> b \in srvGroup.bits
  BY <1>2 DEF SrvIInv, SrvTyped
<1>4. SrvTyped' /\ SrvHandles' /\ SrvMembers' /\ SrvPeers'
  BY <1>1, <1>2, <1>3 DEF SrvIInv, SrvTyped, SrvHandles, SrvMembers, SrvPeers
<1>5. SrvSocketsOwned'
  BY <1>1, <1>2 DEF SrvIInv, SrvTyped, SrvSocketsOwned
<1>6. QED
  BY <1>1, <1>4, <1>5 DEF SrvIInv

LEMMA AcceptFailsStep ==
  ASSUME SrvIInv, NEW n \in Binds, AcceptFails(n)
  PROVE  SrvIInv'
<1> DEFINE p == IF listen_sock # NoBind THEN "tell" ELSE "turn"
<1>1. /\ accept' \in [Binds -> AcceptPCs] /\ BindsInTurn' /\ NextBind' = NextBind
      /\ accept'[n] = p /\ \A m \in Binds : m # n => accept'[m] = accept[m]
  <2>1. p \in AcceptPCs \ {"none"} /\ Accept(n, p) /\ accept[n] # "none"
    BY DEF AcceptFails, AcceptPCs
  <2>2. QED
    BY <2>1, AcceptMoves
<1>2. QED
  BY <1>1, SrvNumbers DEF SrvIInv, SrvTyped, SrvHandles, SrvMembers, SrvPeers, SrvSocketsOwned,
   SrvPCs, AcceptPCs, AnyBind, Nothing, srvMember, srvOpened, srvTasks, srvRun,
     AcceptFails

LEMMA PeerChecksStep ==
  ASSUME SrvIInv, NEW n \in Binds, PeerChecks(n)
  PROVE  SrvIInv'
<1> DEFINE p == IF srvExist = 0 /\ connect_sock = NoBind THEN "done" ELSE "recv"
<1>1. /\ accept' \in [Binds -> AcceptPCs] /\ BindsInTurn' /\ NextBind' = NextBind
      /\ accept'[n] = p /\ \A m \in Binds : m # n => accept'[m] = accept[m]
  <2>1. p \in AcceptPCs \ {"none"} /\ Accept(n, p) /\ accept[n] # "none"
    BY DEF PeerChecks, AcceptPCs
  <2>2. QED
    BY <2>1, AcceptMoves
<1>2. QED
  BY <1>1, SrvNumbers DEF SrvIInv, SrvTyped, SrvHandles, SrvMembers, SrvPeers, SrvSocketsOwned,
   SrvPCs, AcceptPCs, AnyBind, Nothing, srvMember, srvOpened, srvTasks, srvRun,
     PeerChecks

-----------------------------------------------------------------------------
(* The UDP commands: their steps.                                          *)

LEMMA UdpNumbers == NoUdp \notin Udps
BY UdpAssumption DEF NoUdp, Udps

\* Where no first task starts, the next socket is the same.
LEMMA SameUdp ==
  ASSUME \A u \in Udps : reader'[u] # "none" <=> reader[u] # "none"
  PROVE  NextUdp' = NextUdp
<1>1. {u \in Udps : reader'[u] # "none"} = {u \in Udps : reader[u] # "none"}
  OBVIOUS
<1>2. QED
  BY <1>1 DEF NextUdp

LEMMA UdpStart == UdpInit => UdpIInv
<1> SUFFICES ASSUME UdpInit PROVE UdpIInv
  OBVIOUS
<1>1. UdpTyped
  BY DEF UdpInit, UdpTyped, UdpPCs, AnyUdp
<1>2. UdpHandles /\ UdpMembers /\ UdpServed
  BY UdpNumbers DEF UdpInit, UdpHandles, UdpMembers, UdpServed
<1>3. QED
  BY <1>1, <1>2 DEF UdpIInv

LEMMA UdpOpensStep ==
  ASSUME UdpIInv, UdpOpens
  PROVE  UdpIInv'
BY UdpNumbers, SameUdp DEF UdpIInv, UdpTyped, UdpHandles, UdpMembers, UdpServed,
   UdpPCs, AnyUdp, udpMember, udpPast,
   UdpOpens, UdpSettled

LEMMA UdpBindStep ==
  ASSUME UdpIInv, UdpBind
  PROVE  UdpIInv'
<1>1. /\ udpGroup' = [udpGroup EXCEPT !.bits = @ \cup {"BIND"}]
      /\ udpWork \in {"none", "wait"} /\ udpOpen /\ udpExist = 0 /\ NextUdp \in Udps
      /\ kind = "server"
      /\ UNCHANGED <<kind, udpOpen, udpWork, udpExist, udpSock, udpSocks, reader, workers,
                     early, refused>>
  BY DEF UdpBind, UdpSets, UdpSettled, udpMember, udpPast
<1>2. NextUdp' = NextUdp
  BY <1>1, SameUdp
<1>3. /\ udpGroup' \in [live : BOOLEAN, bits : SUBSET {"BIND", "SEND", "CLOSE"}]
      /\ udpGroup'.live = udpGroup.live
      /\ udpGroup'.bits = udpGroup.bits \cup {"BIND"}
  BY <1>1 DEF UdpIInv, UdpTyped
<1>4. UdpTyped' /\ UdpHandles' /\ UdpServed'
  BY <1>1, <1>3 DEF UdpIInv, UdpTyped, UdpHandles, UdpServed
<1>5. UdpMembers'
  <2>1. udpWork = "wait"
    BY <1>1 DEF UdpIInv, UdpHandles
  <2>2. QED
    BY <1>1, <1>2, <1>3, <2>1 DEF UdpIInv, UdpMembers
<1>6. QED
  BY <1>4, <1>5 DEF UdpIInv

LEMMA UdpSendStep ==
  ASSUME UdpIInv, UdpSend
  PROVE  UdpIInv'
BY UdpNumbers, SameUdp DEF UdpIInv, UdpTyped, UdpHandles, UdpMembers, UdpServed,
   UdpPCs, AnyUdp, udpMember, udpPast,
   UdpSend, UdpSets, UdpSettled

LEMMA UdpCloseStep ==
  ASSUME UdpIInv, UdpClose
  PROVE  UdpIInv'
BY UdpNumbers, SameUdp DEF UdpIInv, UdpTyped, UdpHandles, UdpMembers, UdpServed,
   UdpPCs, AnyUdp, udpMember, udpPast,
   UdpClose, UdpSets, UdpSettled

LEMMA UdpTakesStep ==
  ASSUME UdpIInv, UdpTakes
  PROVE  UdpIInv'
BY UdpNumbers, SameUdp DEF UdpIInv, UdpTyped, UdpHandles, UdpMembers, UdpServed,
   UdpPCs, AnyUdp, udpMember, udpPast,
   UdpTakes, UdpBranch

LEMMA UdpSocketStep ==
  ASSUME UdpIInv, UdpSocket
  PROVE  UdpIInv'
BY UdpNumbers, SameUdp DEF UdpIInv, UdpTyped, UdpHandles, UdpMembers, UdpServed,
   UdpPCs, AnyUdp, udpMember, udpPast,
   UdpSocket

LEMMA UdpFailsStep ==
  ASSUME UdpIInv, UdpFails
  PROVE  UdpIInv'
BY UdpNumbers, SameUdp DEF UdpIInv, UdpTyped, UdpHandles, UdpMembers, UdpServed,
   UdpPCs, AnyUdp, udpMember, udpPast,
   UdpFails, Read

LEMMA UdpReadsStep ==
  ASSUME UdpIInv, UdpReads
  PROVE  UdpIInv'
BY UdpNumbers, SameUdp DEF UdpIInv, UdpTyped, UdpHandles, UdpMembers, UdpServed,
   UdpPCs, AnyUdp, udpMember, udpPast,
   UdpReads, Read

LEMMA UdpExistsStep ==
  ASSUME UdpIInv, UdpExists
  PROVE  UdpIInv'
BY UdpNumbers, SameUdp DEF UdpIInv, UdpTyped, UdpHandles, UdpMembers, UdpServed,
   UdpPCs, AnyUdp, udpMember, udpPast,
   UdpExists

LEMMA UdpSentStep ==
  ASSUME UdpIInv, UdpSent
  PROVE  UdpIInv'
BY UdpNumbers, SameUdp DEF UdpIInv, UdpTyped, UdpHandles, UdpMembers, UdpServed,
   UdpPCs, AnyUdp, udpMember, udpPast,
   UdpSent

LEMMA UdpDeleteStep ==
  ASSUME UdpIInv, UdpDelete
  PROVE  UdpIInv'
BY UdpNumbers, SameUdp DEF UdpIInv, UdpTyped, UdpHandles, UdpMembers, UdpServed,
   UdpPCs, AnyUdp, udpMember, udpPast,
   UdpDelete

LEMMA UdpClosesStep ==
  ASSUME UdpIInv, UdpCloses
  PROVE  UdpIInv'
BY UdpNumbers, SameUdp DEF UdpIInv, UdpTyped, UdpHandles, UdpMembers, UdpServed,
   UdpPCs, AnyUdp, udpMember, udpPast,
   UdpCloses

LEMMA UdpEndsStep ==
  ASSUME UdpIInv, UdpEnds
  PROVE  UdpIInv'
BY UdpNumbers, SameUdp DEF UdpIInv, UdpTyped, UdpHandles, UdpMembers, UdpServed,
   UdpPCs, AnyUdp, udpMember, udpPast,
   UdpEnds

LEMMA DatagramStep ==
  ASSUME UdpIInv, NEW u \in Udps, Datagram(u)
  PROVE  UdpIInv'
<1>1. NextUdp' = NextUdp
  BY SameUdp DEF UdpIInv, UdpTyped, Datagram, Read
<1>2. QED
  BY <1>1, UdpNumbers DEF UdpIInv, UdpTyped, UdpHandles, UdpMembers, UdpServed,
   UdpPCs, AnyUdp, udpMember, udpPast,
     Datagram, Read

LEMMA ReadFailsStep ==
  ASSUME UdpIInv, NEW u \in Udps, ReadFails(u)
  PROVE  UdpIInv'
<1>1. NextUdp' = NextUdp
  BY SameUdp DEF UdpIInv, UdpTyped, ReadFails, Read
<1>2. QED
  BY <1>1, UdpNumbers DEF UdpIInv, UdpTyped, UdpHandles, UdpMembers, UdpServed,
   UdpPCs, AnyUdp, udpMember, udpPast,
     ReadFails, Read

LEMMA ReaderChecksStep ==
  ASSUME UdpIInv, NEW u \in Udps, ReaderChecks(u)
  PROVE  UdpIInv'
<1>1. NextUdp' = NextUdp
  BY SameUdp DEF UdpIInv, UdpTyped, ReaderChecks, Read
<1>2. QED
  BY <1>1, UdpNumbers DEF UdpIInv, UdpTyped, UdpHandles, UdpMembers, UdpServed,
   UdpPCs, AnyUdp, udpMember, udpPast,
     ReaderChecks, Read

-----------------------------------------------------------------------------
(* All of them.                                                            *)

SrvStep == SrvCommand \/ SrvWorker \/ \E n \in Binds : SrvReceiver(n) \/ SrvPeer(n)
UdpStep == UdpCommand \/ UdpWorker \/ \E u \in Udps : UdpReader(u) \/ Datagram(u)

LEMMA SrvInductive == SrvIInv /\ [SrvStep]_srvVars => SrvIInv'
<1> SUFFICES ASSUME SrvIInv, [SrvStep]_srvVars PROVE SrvIInv'
  OBVIOUS
<1>1. CASE SrvCommand
  BY <1>1, SrvOpensStep, SrvBindStep, SrvSendStep, SrvCloseStep DEF SrvCommand
<1>2. CASE SrvWorker
  BY <1>2, SrvTakesStep, SrvSocketStep, SrvFailsStep, SrvListensStep, SrvAddedStep,
     SrvSentStep, SrvLocksStep, SrvDeleteStep, SrvForgetsStep, SrvClosesStep, SrvEndsStep
     DEF SrvWorker
<1>3. ASSUME NEW n \in Binds, SrvReceiver(n) \/ SrvPeer(n) PROVE SrvIInv'
  BY <1>3, AcceptPeerStep, AcceptDoneStep, AcceptFailsStep, AcceptTellsStep,
     AcceptTurnsStep, PeerRecvStep, PeerLostStep, PeerTellsStep, PeerChecksStep
     DEF SrvReceiver, SrvPeer
<1>4. CASE UNCHANGED srvVars
  <2>1. BindsInTurn'
    BY <1>4, AcceptsKept DEF srvVars, srvTasks
  <2>2. NextBind' = NextBind
    BY <1>4, AcceptsKept DEF srvVars, srvTasks
  <2>3. QED
    BY <1>4, <2>1, <2>2 DEF srvVars, srvMember, srvOpened, srvTasks, srvRun, SrvIInv,
       SrvTyped, SrvHandles, SrvMembers, SrvPeers, SrvSocketsOwned
<1>5. QED
  BY <1>1, <1>2, <1>3, <1>4 DEF SrvStep

LEMMA UdpInductive == UdpIInv /\ [UdpStep]_udpVars => UdpIInv'
<1> SUFFICES ASSUME UdpIInv, [UdpStep]_udpVars PROVE UdpIInv'
  OBVIOUS
<1>1. CASE UdpCommand
  BY <1>1, UdpOpensStep, UdpBindStep, UdpSendStep, UdpCloseStep DEF UdpCommand
<1>2. CASE UdpWorker
  BY <1>2, UdpTakesStep, UdpSocketStep, UdpFailsStep, UdpReadsStep, UdpExistsStep,
     UdpSentStep, UdpDeleteStep, UdpClosesStep, UdpEndsStep DEF UdpWorker
<1>3. ASSUME NEW u \in Udps, UdpReader(u) \/ Datagram(u) PROVE UdpIInv'
  BY <1>3, DatagramStep, ReadFailsStep, ReaderChecksStep DEF UdpReader
<1>4. CASE UNCHANGED udpVars
  <2>1. NextUdp' = NextUdp
    BY <1>4, SameUdp DEF udpVars
  <2>2. QED
    BY <1>4, <2>1 DEF udpVars, udpMember, udpPast, UdpIInv, UdpTyped, UdpHandles,
       UdpMembers, UdpServed
<1>5. QED
  BY <1>1, <1>2, <1>3, <1>4 DEF UdpStep

\* A step is one of the command in play, and the others stay as they are.
LEMMA OneInPlay ==
  [SocketsNext]_allVars => [Next]_vars /\ [SrvStep]_srvVars /\ [UdpStep]_udpVars
BY DEF SocketsNext, allVars, InClient, InServer, InUdp, SrvStep, UdpStep

\* The inductive invariants of the commands hold side by side: none of them
\* touches what another one's handle, worker and receive tasks rest on.
THEOREM SocketsInvariant == SocketsSpec => []SocketsIInv
<1>1. SocketsInit => SocketsIInv
  BY Start, SrvStart, UdpStart DEF SocketsInit, SocketsIInv
<1>2. SocketsIInv /\ [SocketsNext]_allVars => SocketsIInv'
  BY OneInPlay, Inductive, SrvInductive, UdpInductive DEF SocketsIInv
<1>3. QED
  BY <1>1, <1>2, PTL DEF SocketsSpec

\* Whatever fails, is lost or comes in between, the sockets that are open are
\* those of the client's, server's or UDP member, and who reads from them is there:
\* of the server unless a task came back from accept to a server that was deleted,
\* of UDP unless a datagram came before the reader could know of the server.
THEOREM SocketsAreServed == SocketsSpec => [](SocketsInv /\ SocketsOwned)
<1>1. SocketsIInv => SocketsInv /\ SocketsOwned
  BY DEF SocketsIInv, SocketsInv, ClientIInv, SrvIInv, UdpIInv
<1>2. QED
  BY <1>1, SocketsInvariant, PTL

LEMMA SrvTouches ==
  ASSUME SrvIInv, [SrvStep]_srvVars
  PROVE  [srvGroup'.bits # srvGroup.bits => srvGroup'.live \/ late']_<<srvGroup, late>>
<1> SUFFICES ASSUME srvGroup'.bits # srvGroup.bits, SrvStep
             PROVE  srvGroup'.live \/ late'
  BY DEF srvVars
<1> USE SrvNumbers DEF SrvIInv, SrvTyped, SrvHandles
<1>1. CASE SrvCommand
  BY <1>1 DEF SrvCommand, SrvOpens, SrvBind, SrvSend, SrvClose, SrvSets, Raise
<1>2. CASE SrvWorker
  BY <1>2 DEF SrvWorker, SrvTakes, SrvSocket, SrvFails, SrvListens, SrvAdded, SrvSent,
     SrvLocks, SrvDelete, SrvForgets, SrvCloses, SrvEnds
<1>3. ASSUME NEW n \in Binds, SrvReceiver(n) \/ SrvPeer(n)
      PROVE  srvGroup'.live \/ late'
  \* A member with a socket has a worker that has not come to its end.
  <2>1. listen_sock # NoBind => srvGroup.live
    BY DEF SrvMembers
  <2>2. ~late => connect_sock \in {NoBind, listen_sock}
    BY DEF SrvPeers
  <2>3. CASE AcceptTells(n)
    BY <2>1, <2>3 DEF AcceptTells, Raise
  <2>4. CASE PeerTells(n)
    BY <2>1, <2>2, <2>4 DEF PeerTells, Raise
  <2>5. QED
    BY <1>3, <2>3, <2>4 DEF SrvReceiver, SrvPeer, AcceptPeer, AcceptDone, AcceptFails,
       AcceptTurns, PeerRecv, PeerLost, PeerChecks
<1>4. QED
  BY <1>1, <1>2, <1>3 DEF SrvStep

LEMMA UdpTouches ==
  ASSUME UdpIInv, [UdpStep]_udpVars
  PROVE  [udpGroup'.bits # udpGroup.bits => udpGroup'.live \/ refused]_<<udpGroup, refused>>
<1> SUFFICES ASSUME udpGroup'.bits # udpGroup.bits, UdpStep
             PROVE  udpGroup'.live \/ refused
  BY DEF udpVars, udpPast
<1> USE DEF UdpIInv, UdpTyped, UdpHandles
<1>1. CASE UdpCommand
  BY <1>1 DEF UdpCommand, UdpOpens, UdpBind, UdpSend, UdpClose, UdpSets
<1>2. CASE UdpWorker
  BY <1>2 DEF UdpWorker, UdpTakes, UdpSocket, UdpFails, UdpReads, UdpExists, UdpSent,
     UdpDelete, UdpCloses, UdpEnds
<1>3. ASSUME NEW u \in Udps, UdpReader(u) \/ Datagram(u)
      PROVE  FALSE
  BY <1>3 DEF UdpReader, Datagram, ReadFails, ReaderChecks
<1>4. QED
  BY <1>1, <1>2, <1>3 DEF UdpStep

\* The event group of a server or of a UDP command is not touched once its worker
\* has deleted it, by no command and by no receive task, but where the code loses
\* sight of it: after a late accept, and after a client that could not be opened.
THEOREM NoDeletedServerGroup == SocketsSpec => GroupsUntouched
<1>1. ASSUME SocketsIInv, [SocketsNext]_allVars
      PROVE  /\ [srvGroup'.bits # srvGroup.bits => srvGroup'.live \/ late']_<<srvGroup, late>>
             /\ [udpGroup'.bits # udpGroup.bits =>
                   udpGroup'.live \/ refused]_<<udpGroup, refused>>
  BY <1>1, OneInPlay, SrvTouches, UdpTouches DEF SocketsIInv
<1>2. QED
  BY <1>1, SocketsInvariant, PTL
     DEF SocketsSpec, GroupsUntouched, SrvGroupUntouched, UdpGroupUntouched

\* Beside the other commands the client behaves as it does alone, and all that is
\* proved of it alone holds: no group that it has deleted is touched.
THEOREM ClientUndisturbed == SocketsSpec => Spec /\ DeletedUntouched
<1>1. SocketsInit => Init
  BY DEF SocketsInit
<1>2. [SocketsNext]_allVars => [Next]_vars
  BY OneInPlay
<1>3. SocketsSpec => Spec
  BY <1>1, <1>2, PTL DEF SocketsSpec, Spec
<1>4. QED
  BY <1>3, NoDeletedGroup
=============================================================================
