-------------------------------- MODULE CliUdp --------------------------------
(***************************************************************************)
(* The commands udpsockserver and udpsockclient of esp_ot_cli_extension,   *)
(* one of the two (kind): a worker that opens a socket - the server's at   *)
(* the command bind, the client's when it starts - and a task per socket   *)
(* that reads from it.                                                     *)
(***************************************************************************)
EXTENDS Integers, FiniteSets

CONSTANTS MaxUdp,        \* bound: sockets made
          MaxWorkers     \* bound: workers created

ASSUME UdpAssumption == {MaxUdp, MaxWorkers} \subseteq Nat

NoUdp == -1
Udps  == 1..MaxUdp       \* a socket and its receive task

VARIABLES kind,          \* "server" or "client": never changes
          udpOpen,       \* udp_server_handle, udp_client_handle # NULL
          udpGroup,      \* the event group: not deleted, bits set
          udpWork,       \* where the worker is
          udpExist,      \* of the member: exist
          udpSock,       \*   and sock
          udpSocks,      \* the sockets that are open
          reader,        \* where each receive task is
          workers,       \* workers created
          early,         \* history: a datagram before exist was set
          refused        \* history: a client could not be opened

udpMember == <<udpExist, udpSock>>
udpPast   == <<workers, early, refused>>
udpVars   == <<kind, udpOpen, udpGroup, udpWork, udpMember, udpSocks, reader, udpPast>>

UdpInit ==
  /\ kind \in {"server", "client"} /\ udpOpen = FALSE /\ udpWork = "none"
  /\ udpGroup = [live |-> FALSE, bits |-> {}]
  /\ udpExist = 0 /\ udpSock = NoUdp /\ udpSocks = {}
  /\ reader = [u \in Udps |-> "none"]
  /\ workers = 0 /\ early = FALSE /\ refused = FALSE

Read(u, p) == reader' = [reader EXCEPT ![u] = p]
NextUdp    == Cardinality({u \in Udps : reader[u] # "none"}) + 1

-----------------------------------------------------------------------------
(* The commands, each entered when the last has had its effect.            *)

UdpSettled == udpWork \in {"none", "wait"} /\ (udpWork = "wait" => udpGroup.bits = {})

UdpOpens ==
  /\ UdpSettled /\ ~udpOpen /\ workers < MaxWorkers /\ workers' = workers + 1
  /\ kind = "client" => NextUdp \in Udps
  /\ udpOpen' = TRUE /\ udpGroup' = [live |-> TRUE, bits |-> {}]
  /\ udpWork' = IF kind = "client" THEN "bind" ELSE "wait"
  /\ UNCHANGED <<kind, udpMember, udpSocks, reader, early, refused>>

UdpSets(b) ==
  /\ UdpSettled /\ udpOpen /\ udpGroup' = [udpGroup EXCEPT !.bits = @ \cup {b}]
  /\ UNCHANGED <<kind, udpWork, udpMember, udpSocks, reader, udpPast>>
UdpBind  == /\ kind = "server" /\ udpExist = 0 /\ NextUdp \in Udps
            /\ UdpSets("BIND") /\ UNCHANGED udpOpen
UdpSend  == udpExist = 1 /\ UdpSets("SEND") /\ UNCHANGED udpOpen
UdpClose == UdpSets("CLOSE") /\ udpOpen' = FALSE

-----------------------------------------------------------------------------
(* udp_socket_server_task and udp_socket_client_task.                      *)

UdpBranch == [BIND |-> "bind", SEND |-> "send", CLOSE |-> "delete"]

UdpTakes == \E b \in DOMAIN UdpBranch :
  /\ udpWork = "wait" /\ udpGroup.bits = {b}
  /\ udpGroup' = [udpGroup EXCEPT !.bits = {}] /\ udpWork' = UdpBranch[b]
  /\ UNCHANGED <<kind, udpOpen, udpMember, udpSocks, reader, udpPast>>

UdpSocket ==
  /\ udpWork = "bind" /\ udpWork' = "create"
  /\ udpSock' = NextUdp /\ udpSocks' = udpSocks \cup {NextUdp}
  /\ UNCHANGED <<kind, udpOpen, udpGroup, udpExist, reader, udpPast>>

\* Mutant: the socket is not closed.
UdpFailsOpen ==
  /\ udpWork = "create" /\ udpSock' = NoUdp /\ Read(udpSock, "done")
  /\ udpWork' = IF kind = "client" THEN "end" ELSE "wait"
  /\ refused' = (refused \/ kind = "client")
  /\ UNCHANGED <<kind, udpOpen, udpGroup, udpExist, udpSocks, workers, early>>

\* bind or xTaskCreate fails; the client's worker ends, and its group with it,
\* while the handle of the command stays set.
UdpFails ==
  /\ udpWork = "create" /\ Read(udpSock, "done")
  /\ udpSock' = NoUdp /\ udpSocks' = udpSocks \ {udpSock}
  /\ udpWork' = IF kind = "client" THEN "end" ELSE "wait"
  /\ refused' = (refused \/ kind = "client")
  /\ UNCHANGED <<kind, udpOpen, udpGroup, udpExist, workers, early>>

UdpReads ==
  /\ udpWork = "create" /\ udpWork' = "created" /\ Read(udpSock, "recv")
  /\ UNCHANGED <<kind, udpOpen, udpGroup, udpMember, udpSocks, udpPast>>

UdpExists ==
  /\ udpWork = "created" /\ udpWork' = "wait" /\ udpExist' = 1
  /\ UNCHANGED <<kind, udpOpen, udpGroup, udpSock, udpSocks, reader, udpPast>>

\* A failed send is only logged.
UdpSent ==
  /\ udpWork = "send" /\ udpWork' = "wait"
  /\ UNCHANGED <<kind, udpOpen, udpGroup, udpMember, udpSocks, reader, udpPast>>

\* udp_server_delete, udp_client_delete: first exist, ...
UdpDelete ==
  /\ udpWork = "delete" /\ udpWork' = "close" /\ udpExist' = 0
  /\ UNCHANGED <<kind, udpOpen, udpGroup, udpSock, udpSocks, reader, udpPast>>

\* ... then the socket, if there is one.
UdpCloses ==
  /\ udpWork = "close" /\ udpWork' = "end"
  /\ udpSock' = NoUdp /\ udpSocks' = udpSocks \ {udpSock}
  /\ UNCHANGED <<kind, udpOpen, udpGroup, udpExist, reader, udpPast>>

UdpEnds ==
  /\ udpWork = "end" /\ udpWork' = "none"
  /\ udpGroup' = [udpGroup EXCEPT !.live = FALSE]
  /\ UNCHANGED <<kind, udpOpen, udpMember, udpSocks, reader, udpPast>>

-----------------------------------------------------------------------------
(* udp_server_receive_task and udp_client_receive_task: u, which asks the  *)
(* member for the socket each time it reads.                               *)

\* A datagram, or the error of a socket that is closed.
Datagram(u) ==
  /\ reader[u] = "recv" /\ udpSock # NoUdp /\ Read(u, "check")
  /\ UNCHANGED <<kind, udpOpen, udpGroup, udpWork, udpMember, udpSocks, udpPast>>
ReadFails(u) ==
  /\ reader[u] = "recv" /\ udpSock = NoUdp /\ Read(u, "check")
  /\ UNCHANGED <<kind, udpOpen, udpGroup, udpWork, udpMember, udpSocks, udpPast>>

ReaderChecks(u) ==
  /\ reader[u] = "check" /\ Read(u, IF udpExist = 0 THEN "done" ELSE "recv")
  /\ early' = (early \/ (udpExist = 0 /\ udpWork = "created"))
  /\ UNCHANGED <<kind, udpOpen, udpGroup, udpWork, udpMember, udpSocks, workers,
                 refused>>

UdpCommand == UdpOpens \/ UdpBind \/ UdpSend \/ UdpClose
UdpWorker  == \/ UdpTakes \/ UdpSocket \/ UdpFails \/ UdpReads \/ UdpExists
              \/ UdpSent \/ UdpDelete \/ UdpCloses \/ UdpEnds
UdpReader(u) == ReadFails(u) \/ ReaderChecks(u)

-----------------------------------------------------------------------------
\* The socket of a server or client that exists is open, the only one there is,
\* and some task reads from it, but for a datagram that came before the task
\* could know that the server exists.
UdpServed ==
  /\ udpSocks \subseteq {udpSock}
  /\ udpExist = 1 => /\ udpSock \in udpSocks \/ udpWork = "close"
                     /\ early \/ \E u \in Udps : reader[u] \in {"recv", "check"}

\* No command sets a bit of an event group that is deleted, but for a client that
\* could not be opened: its handle stays set.
UdpGroupUntouched ==
  [][udpGroup'.bits # udpGroup.bits => udpGroup'.live \/ refused]_<<udpGroup, refused>>

\* A server or client that is closed for good leaves no receive task behind.
ReadersEnd ==
  <>[](udpExist = 0 /\ udpSocks = {}) =>
    <>[](\A u \in Udps : reader[u] \in {"none", "done"})
=============================================================================
