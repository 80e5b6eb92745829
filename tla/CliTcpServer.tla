---------------------------- MODULE CliTcpServer ----------------------------
(***************************************************************************)
(* The command tcpsockserver of esp_ot_cli_extension.  As in CliTcpClient  *)
(* the OpenThread task sets bits in an event group and a worker acts on    *)
(* them; a task per listening socket accepts one peer and reads from it.   *)
(***************************************************************************)
EXTENDS Integers, FiniteSets

CONSTANTS MaxBinds,      \* bound: listening sockets made
          MaxServers     \* bound: workers created

ASSUME ServerAssumption == {MaxBinds, MaxServers} \subseteq Nat

NoBind == -1
Binds  == 1..MaxBinds    \* a listening socket, its task and its one peer

VARIABLES srvOpen,       \* tcp_server_handle # NULL
          srvGroup,      \* tcp_server_event_group: not deleted, bits set
          srvWork,       \* where the worker is
          srvExist,      \* of tcp_server_member: exist,
          listen_sock,   \*   listen_sock
          connect_sock,  \*   and connect_sock
          going,         \* the locals of tcp_server_delete: what it closes
          listening,     \* the listening sockets that are open
          connected,     \* the peers' sockets that are open
          accept,        \* where each receive task is
          set_exit,      \* whether it has told the worker
          srvMutex,      \* the worker has s_tcp_server_mutex
          servers,       \* workers created
          late           \* history: a task came back from accept to a server
                         \* that was deleted, or was being deleted

srvMember == <<srvExist, listen_sock, connect_sock>>
srvOpened == <<listening, connected>>
srvTasks  == <<accept, set_exit>>
srvRun    == <<srvMutex, servers>>
srvVars   == <<srvOpen, srvGroup, srvWork, srvMember, going, srvOpened, srvTasks,
               srvRun, late>>

Nothing == [listener |-> NoBind, peer |-> NoBind]

SrvInit ==
  /\ srvOpen = FALSE /\ srvGroup = [live |-> FALSE, bits |-> {}]
  /\ srvWork = "none" /\ srvExist = 0 /\ srvMutex = FALSE
  /\ listen_sock = NoBind /\ connect_sock = NoBind /\ going = Nothing
  /\ listening = {} /\ connected = {}
  /\ accept = [n \in Binds |-> "none"] /\ set_exit = [n \in Binds |-> FALSE]
  /\ servers = 0 /\ late = FALSE

Raise(b)   == srvGroup' = [srvGroup EXCEPT !.bits = @ \cup {b}]
Accept(n, p) == accept' = [accept EXCEPT ![n] = p]
NextBind   == Cardinality({n \in Binds : accept[n] # "none"}) + 1

-----------------------------------------------------------------------------
(* The commands, each entered when the last has had its effect.            *)

SrvSettled == srvWork \in {"none", "wait"} /\ srvGroup.bits \subseteq {"DELETE"}

SrvOpens ==
  /\ SrvSettled /\ ~srvOpen /\ servers < MaxServers /\ servers' = servers + 1
  /\ srvOpen' = TRUE /\ srvGroup' = [live |-> TRUE, bits |-> {}] /\ srvWork' = "wait"
  /\ UNCHANGED <<srvMember, going, srvOpened, srvTasks, srvMutex, late>>

SrvSets(b) ==
  /\ SrvSettled /\ srvOpen /\ Raise(b)
  /\ UNCHANGED <<srvWork, srvMember, going, srvOpened, srvTasks, srvRun, late>>
SrvBind  == srvExist = 0 /\ NextBind \in Binds /\ SrvSets("ADD") /\ UNCHANGED srvOpen
SrvSend  == srvExist = 1 /\ SrvSets("SEND") /\ UNCHANGED srvOpen
SrvClose == SrvSets("CLOSE") /\ srvOpen' = FALSE

-----------------------------------------------------------------------------
(* tcp_socket_server_task.                                                 *)

SrvBranch == [ADD |-> "add", SEND |-> "send", DELETE |-> "delete", CLOSE |-> "lock"]

SrvTakes == \E b \in DOMAIN SrvBranch :
  /\ srvWork = "wait" /\ srvGroup.bits = {b}
  /\ srvGroup' = [srvGroup EXCEPT !.bits = {}] /\ srvWork' = SrvBranch[b]
  /\ UNCHANGED <<srvOpen, srvMember, going, srvOpened, srvTasks, srvRun, late>>

SrvSocket ==
  /\ srvWork = "add" /\ srvWork' = "bind"
  /\ listen_sock' = NextBind /\ listening' = listening \cup {NextBind}
  /\ UNCHANGED <<srvOpen, srvGroup, srvExist, connect_sock, going, connected,
                 srvTasks, srvRun, late>>

\* bind, listen or xTaskCreate fails.
SrvFails ==
  /\ srvWork = "bind" /\ srvWork' = "wait"
  /\ listening' = listening \ {listen_sock} /\ listen_sock' = NoBind
  /\ Accept(listen_sock, "done")
  /\ UNCHANGED <<srvOpen, srvGroup, srvExist, connect_sock, going, connected,
                 set_exit, srvRun, late>>

\* The receive task runs before exist is set.
SrvListens ==
  /\ srvWork = "bind" /\ srvWork' = "added" /\ Accept(listen_sock, "accept")
  /\ UNCHANGED <<srvOpen, srvGroup, srvMember, going, srvOpened, set_exit, srvRun,
                 late>>

SrvAdded ==
  /\ srvWork = "added" /\ srvWork' = "wait" /\ srvExist' = 1
  /\ UNCHANGED <<srvOpen, srvGroup, listen_sock, connect_sock, going, srvOpened,
                 srvTasks, srvRun, late>>

\* A failed send is only logged.
SrvSent ==
  /\ srvWork = "send" /\ srvWork' = "wait"
  /\ UNCHANGED <<srvOpen, srvGroup, srvMember, going, srvOpened, srvTasks, srvRun,
                 late>>

SrvLocks ==
  /\ srvWork = "lock" /\ srvWork' = "delete" /\ srvMutex' = TRUE
  /\ UNCHANGED <<srvOpen, srvGroup, srvMember, going, srvOpened, srvTasks, servers,
                 late>>

AfterDelete == IF srvMutex THEN "end" ELSE "wait"

\* tcp_server_delete: of a server that exists the sockets are looked up, ...
SrvDelete ==
  /\ srvWork = "delete" /\ srvExist' = 0
  /\ IF srvExist = 1 THEN srvWork' = "forget" /\ going' = [listener |-> listen_sock, peer |-> connect_sock]
     ELSE srvWork' = AfterDelete /\ UNCHANGED going
  /\ UNCHANGED <<srvOpen, srvGroup, listen_sock, connect_sock, srvOpened, srvTasks,
                 srvRun, late>>

\* Mutant: the peer's socket stays with the member.
SrvForgetsListener ==
  /\ srvWork = "forget" /\ srvWork' = "closing" /\ listen_sock' = NoBind
  /\ UNCHANGED <<srvOpen, srvGroup, srvExist, connect_sock, going, srvOpened,
                 srvTasks, srvRun, late>>

\* ... forgotten ...
SrvForgets ==
  /\ srvWork = "forget" /\ srvWork' = "closing"
  /\ listen_sock' = NoBind /\ connect_sock' = NoBind
  /\ UNCHANGED <<srvOpen, srvGroup, srvExist, going, srvOpened, srvTasks, srvRun,
                 late>>

\* ... and closed.
SrvCloses ==
  /\ srvWork = "closing" /\ srvWork' = AfterDelete /\ going' = Nothing
  /\ listening' = listening \ {going.listener}
  /\ connected' = connected \ {going.peer}
  /\ UNCHANGED <<srvOpen, srvGroup, srvMember, srvTasks, srvRun, late>>

SrvEnds ==
  /\ srvWork = "end" /\ srvWork' = "none" /\ srvMutex' = FALSE
  /\ srvGroup' = [srvGroup EXCEPT !.live = FALSE]
  /\ UNCHANGED <<srvOpen, srvMember, going, srvOpened, srvTasks, servers, late>>

-----------------------------------------------------------------------------
(* tcp_server_task: n, of the listening socket n.                          *)

AcceptPeer(n) ==
  /\ accept[n] = "accept" /\ n \in listening /\ Accept(n, "accepted")
  /\ connected' = connected \cup {n}
  /\ UNCHANGED <<srvOpen, srvGroup, srvWork, srvMember, going, listening, set_exit,
                 srvRun, late>>

\* The peer's socket becomes the member's, of whichever server there is now.
AcceptDone(n) ==
  /\ accept[n] = "accepted" /\ Accept(n, "recv") /\ connect_sock' = n
  /\ late' = (late \/ n # listen_sock \/ srvWork = "forget")
  /\ UNCHANGED <<srvOpen, srvGroup, srvWork, srvExist, listen_sock, going, srvOpened,
                 set_exit, srvRun>>

\* lwIP has no memory for the peer, or the listening socket was closed.
AcceptFails(n) ==
  /\ accept[n] = "accept"
  /\ Accept(n, IF listen_sock # NoBind THEN "tell" ELSE "turn")
  /\ UNCHANGED <<srvOpen, srvGroup, srvWork, srvMember, going, srvOpened, set_exit,
                 srvRun, late>>

\* Without the mutex: the server it saw may be gone.
AcceptTells(n) ==
  /\ accept[n] = "tell" /\ Accept(n, "turn") /\ Raise("DELETE")
  /\ late' = (late \/ n # listen_sock)
  /\ UNCHANGED <<srvOpen, srvWork, srvMember, going, srvOpened, set_exit, srvRun>>

\* It turns without a pause until the server is deleted.
AcceptTurns(n) ==
  /\ accept[n] = "turn" /\ srvExist = 0 /\ listen_sock = NoBind /\ Accept(n, "done")
  /\ UNCHANGED <<srvOpen, srvGroup, srvWork, srvMember, going, srvOpened, set_exit,
                 srvRun, late>>

\* Data, a time-out, the end of the stream, or another error than ENOTCONN.
PeerRecv(n) ==
  /\ accept[n] = "recv" /\ Accept(n, "check")
  /\ UNCHANGED <<srvOpen, srvGroup, srvWork, srvMember, going, srvOpened, set_exit,
                 srvRun, late>>

PeerLost(n) ==
  /\ accept[n] = "recv" /\ n \in connected /\ Accept(n, "lost")
  /\ UNCHANGED <<srvOpen, srvGroup, srvWork, srvMember, going, srvOpened, set_exit,
                 srvRun, late>>

\* Mutant: whether the socket still is there is not looked at.
PeerTellsAlways(n) ==
  /\ accept[n] = "lost" /\ ~srvMutex /\ Accept(n, "check")
  /\ IF ~set_exit[n] THEN Raise("DELETE") /\ set_exit' = [set_exit EXCEPT ![n] = TRUE]
     ELSE UNCHANGED <<srvGroup, set_exit>>
  /\ UNCHANGED <<srvOpen, srvWork, srvMember, going, srvOpened, srvRun, late>>

\* With the mutex: the worker is told once, of a socket that is still there.
PeerTells(n) ==
  /\ accept[n] = "lost" /\ ~srvMutex /\ Accept(n, "check")
  /\ IF ~set_exit[n] /\ connect_sock # NoBind
     THEN Raise("DELETE") /\ set_exit' = [set_exit EXCEPT ![n] = TRUE]
     ELSE UNCHANGED <<srvGroup, set_exit>>
  /\ UNCHANGED <<srvOpen, srvWork, srvMember, going, srvOpened, srvRun, late>>

PeerChecks(n) ==
  /\ accept[n] = "check"
  /\ Accept(n, IF srvExist = 0 /\ connect_sock = NoBind THEN "done" ELSE "recv")
  /\ UNCHANGED <<srvOpen, srvGroup, srvWork, srvMember, going, srvOpened, set_exit,
                 srvRun, late>>

SrvCommand == SrvOpens \/ SrvBind \/ SrvSend \/ SrvClose
SrvWorker  == \/ SrvTakes \/ SrvSocket \/ SrvFails \/ SrvListens \/ SrvAdded
              \/ SrvSent \/ SrvLocks \/ SrvDelete \/ SrvForgets \/ SrvCloses \/ SrvEnds
SrvReceiver(n) == \/ AcceptDone(n) \/ AcceptFails(n) \/ AcceptTells(n)
                  \/ AcceptTurns(n) \/ PeerRecv(n) \/ PeerTells(n) \/ PeerChecks(n)
SrvPeer(n) == AcceptPeer(n) \/ PeerLost(n)

-----------------------------------------------------------------------------
\* Every open socket is the member's, or about to be closed, so that the end of
\* the server closes it, but for one that accept has just returned; not claimed
\* once a task came back from accept to a server that was deleted.
SrvSocketsOwned ==
  ~late => /\ listening \subseteq {listen_sock, going.listener}
           /\ \A n \in connected : n \in {connect_sock, going.peer} \/ accept[n] = "accepted"

\* No command and no receive task sets a bit of an event group that is deleted,
\* but for such a task.
SrvGroupUntouched ==
  [][srvGroup'.bits # srvGroup.bits => srvGroup'.live \/ late']_<<srvGroup, late>>

\* A server that is closed for good leaves no receive task behind.
SrvReceiversEnd ==
  <>[](srvExist = 0 /\ listening = {} /\ connected = {}) =>
    <>[](\A n \in Binds : accept[n] \in {"none", "done"})
=============================================================================
