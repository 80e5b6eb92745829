----------------------------- MODULE MCCliSockets -----------------------------
(***************************************************************************)
(* The socket commands of the CLI, one of them in play: their variables,   *)
(* event groups and mutexes are their own, so that nothing one does is     *)
(* seen by another.                                                        *)
(***************************************************************************)
EXTENDS CliTcpClient, CliTcpServer, CliUdp

VARIABLE inPlay

allVars == <<inPlay, vars, srvVars, udpVars>>

SocketsInit == /\ inPlay \in {"tcpsockclient", "tcpsockserver", "udp"}
               /\ Init /\ SrvInit /\ UdpInit

InClient(A) == inPlay = "tcpsockclient" /\ A /\ UNCHANGED <<inPlay, srvVars, udpVars>>
InServer(A) == inPlay = "tcpsockserver" /\ A /\ UNCHANGED <<inPlay, vars, udpVars>>
InUdp(A)    == inPlay = "udp" /\ A /\ UNCHANGED <<inPlay, vars, srvVars>>

SocketsNext ==
  \/ InClient(Next)
  \/ InServer(SrvCommand) \/ InServer(SrvWorker)
  \/ \E n \in Binds : InServer(SrvReceiver(n)) \/ InServer(SrvPeer(n))
  \/ InUdp(UdpCommand) \/ InUdp(UdpWorker)
  \/ \E u \in Udps : InUdp(UdpReader(u)) \/ InUdp(Datagram(u))

\* The scheduler runs the tasks; the operator and the network need not act.
SocketsSpec ==
  /\ SocketsInit /\ [][SocketsNext]_allVars
  /\ \A w \in Groups : WF_allVars(WorkerStep(w) /\ UNCHANGED <<inPlay, srvVars, udpVars>>)
  /\ \A r \in Socks : WF_allVars(ReceiverStep(r) /\ UNCHANGED <<inPlay, srvVars, udpVars>>)
  /\ WF_allVars(SrvWorker /\ UNCHANGED <<inPlay, vars, udpVars>>)
  /\ \A n \in Binds : WF_allVars(SrvReceiver(n) /\ UNCHANGED <<inPlay, vars, udpVars>>)
  /\ WF_allVars(UdpWorker /\ UNCHANGED <<inPlay, vars, srvVars>>)
  /\ \A u \in Udps : WF_allVars(UdpReader(u) /\ UNCHANGED <<inPlay, vars, srvVars>>)

\* Every socket command's sockets are its member's, and served.
SocketsInv == ClientTypeOK /\ SrvSocketsOwned /\ UdpServed

\* No socket command touches an event group that is deleted, but where noted.
GroupsUntouched == SrvGroupUntouched /\ UdpGroupUntouched

\* A socket command that is closed for good leaves no task behind.
TasksEnd == ReceiversEnd /\ SrvReceiversEnd /\ ReadersEnd
=============================================================================
