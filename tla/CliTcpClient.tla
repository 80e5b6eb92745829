---------------------------- MODULE CliTcpClient ----------------------------
(***************************************************************************)
(* The command tcpsockclient of esp_ot_cli_extension: the OpenThread task  *)
(* interprets the commands and sets bits in an event group, a worker task  *)
(* takes the bits and owns the socket, and a receive task per connection   *)
(* reads from it and sets a bit of its own when the connection is lost.    *)
(***************************************************************************)
EXTENDS Integers, FiniteSets

CONSTANTS MaxOpens,     \* bound: groups and workers created
          MaxConnects,  \* bound: sockets, and receive tasks, created
          Losses        \* whether a connection may be lost

ASSUME ClientAssumption == /\ {MaxOpens, MaxConnects} \subseteq Nat \ {0}
                           /\ Losses \in BOOLEAN

NULL  == 0
NoSock == -1
Groups == 1..MaxOpens
Socks  == 1..MaxConnects

VARIABLES handle,   \* tcp_client_handle: the worker, or NULL
          group,    \* tcp_client_event_group
          bits,     \* of every group that was created
          live,     \* the groups not deleted
          worker,   \* where the worker of each group is
          exist,    \* of tcp_client_member
          sock,     \* of tcp_client_member
          open,     \* the sockets that are open
          lost,     \* those whose connection is lost
          receiver, \* where the receive task of each socket is
          told,     \* set_exit of each receive task
          mutex     \* s_tcp_client_mutex: who has it, or NULL

vars == <<handle, group, bits, live, worker, exist, sock, open, lost, receiver,
          told, mutex>>
member == <<exist, sock>>
tasks  == <<worker, receiver>>

Init == /\ handle = NULL /\ group = NULL /\ live = {} /\ mutex = NULL
        /\ bits = [g \in Groups |-> {}]
        /\ worker = [g \in Groups |-> "none"]
        /\ exist = 0 /\ sock = NoSock /\ open = {} /\ lost = {}
        /\ receiver = [s \in Socks |-> "none"]
        /\ told = [s \in Socks |-> FALSE]

SetBit(g, b)   == bits' = [bits EXCEPT ![g] = @ \cup {b}]
ClearBit(g, b) == bits' = [bits EXCEPT ![g] = @ \ {b}]
Work(w, p)     == worker' = [worker EXCEPT ![w] = p]
Receive(r, p)  == receiver' = [receiver EXCEPT ![r] = p]
NextGroup      == Cardinality({g \in Groups : worker[g] # "none"}) + 1
NextSock       == Cardinality({s \in Socks : receiver[s] # "none"}) + 1

-----------------------------------------------------------------------------
(* The commands.  The operator enters one after the last has had its effect: *)
(* of what the receive task does meanwhile he knows nothing.               *)

Settled == \A g \in Groups : /\ worker[g] \in {"none", "wait", "done"}
                             /\ bits[g] \subseteq {"DELETE"}
Only(b)  == /\ SetBit(group, b)
            /\ UNCHANGED <<group, live, member, open, lost, tasks, told, mutex>>

Open == /\ Settled /\ handle = NULL /\ NextGroup \in Groups
        /\ handle' = NextGroup /\ group' = NextGroup
        /\ live' = live \cup {NextGroup}
        /\ Work(NextGroup, "wait")
        /\ UNCHANGED <<bits, member, open, lost, receiver, told, mutex>>

Connect == /\ Settled /\ handle # NULL /\ exist = 0 /\ NextSock \in Socks
           /\ Only("ADD") /\ UNCHANGED handle

SendMessage == /\ Settled /\ handle # NULL /\ exist = 1
               /\ Only("SEND") /\ UNCHANGED handle

Close == /\ Settled /\ handle # NULL
         /\ Only("CLOSE") /\ handle' = NULL

-----------------------------------------------------------------------------
(* tcp_socket_client_task: w waits for bits and acts on exactly one; with two *)
(* no branch is taken, and it waits again with both still set.             *)

Branch == [ADD |-> "add", SEND |-> "send", DELETE |-> "delete", CLOSE |-> "lock"]

TakeBit(w, b) ==
  /\ worker[w] = "wait" /\ bits[w] = {b}
  /\ ClearBit(w, b) /\ Work(w, Branch[b])
  /\ UNCHANGED <<handle, group, live, member, open, lost, receiver, told, mutex>>

\* tcp_client_add up to connect: the socket is the member's at once.
AddSocket(w) == /\ worker[w] = "add" /\ NextSock \in Socks
                /\ sock' = NextSock /\ open' = open \cup {NextSock}
                /\ Work(w, "connect")
                /\ UNCHANGED <<handle, group, bits, live, exist, lost, receiver,
                               told, mutex>>

\* The receive task starts before exist is set.
Connected(w) == /\ worker[w] = "connect" /\ Work(w, "added")
                /\ Receive(sock, "recv")
                /\ UNCHANGED <<handle, group, bits, live, member, open, lost,
                               told, mutex>>

Added(w) == /\ worker[w] = "added" /\ exist' = 1 /\ Work(w, "wait")
            /\ UNCHANGED <<handle, group, bits, live, sock, open, lost, receiver,
                           told, mutex>>

\* Mutant: the socket of a failed connect is forgotten.
AddFailsOpen(w) ==
  /\ worker[w] = "connect" /\ sock' = NoSock
  /\ receiver' = [receiver EXCEPT ![sock] = "done"]
  /\ Work(w, "wait")
  /\ UNCHANGED <<handle, group, bits, live, exist, open, lost, told, mutex>>

\* connect or xTaskCreate fails: there is no receive task for this socket.
AddFails(w) == /\ worker[w] = "connect"
               /\ open' = open \ {sock} /\ sock' = NoSock
               /\ receiver' = [receiver EXCEPT ![sock] = "done"]
               /\ Work(w, "wait")
               /\ UNCHANGED <<handle, group, bits, live, exist, lost, told, mutex>>

\* The result of send is only logged.
Send(w) == /\ worker[w] = "send" /\ Work(w, "wait")
           /\ UNCHANGED <<handle, group, bits, live, member, open, lost, receiver,
                          told, mutex>>

Lock(w) == /\ worker[w] = "lock" /\ mutex = NULL
           /\ mutex' = w /\ Work(w, "delete")
           /\ UNCHANGED <<handle, group, bits, live, member, open, lost, receiver,
                          told>>

\* tcp_client_delete: of a client that does not exist nothing is deleted.
Delete(w) ==
  /\ worker[w] = "delete"
  /\ exist' = 0
  /\ Work(w, IF exist = 1 THEN "closing" ELSE IF mutex = w THEN "end" ELSE "wait")
  /\ UNCHANGED <<handle, group, bits, live, sock, open, lost, receiver, told, mutex>>

CloseSocket(w) ==
  /\ worker[w] = "closing" /\ open' = open \ {sock} /\ sock' = NoSock
  /\ Work(w, IF mutex = w THEN "end" ELSE "wait")
  /\ UNCHANGED <<handle, group, bits, live, exist, lost, receiver, told, mutex>>

\* vEventGroupDelete of the group that the global names now.
DeleteGroup(w) == /\ worker[w] = "end"
                  /\ live' = live \ {group} /\ mutex' = NULL
                  /\ Work(w, "done")
                  /\ UNCHANGED <<handle, group, bits, member, open, lost, receiver,
                                 told>>

-----------------------------------------------------------------------------
(* tcp_client_receive_task: r, made for socket r, reads from the member's. *)

Lose(s) == /\ Losses /\ s \in open \ lost /\ receiver[s] \notin {"none", "done"}
           /\ lost' = lost \cup {s}
           /\ UNCHANGED <<handle, group, bits, live, tasks, member, open, told,
                          mutex>>

\* Data, a time-out, or another error than ENOTCONN.
RecvReturns(r) == /\ receiver[r] = "recv" /\ Receive(r, "check")
                  /\ UNCHANGED <<handle, group, bits, live, worker, member, open,
                                 lost, told, mutex>>

RecvFails(r) == /\ receiver[r] = "recv" /\ sock \in lost
                /\ Receive(r, "signal")
                /\ UNCHANGED <<handle, group, bits, live, worker, member, open,
                               lost, told, mutex>>

\* Mutant: whether the socket still is there is not looked at.
SignalUnchecked(r) ==
  /\ receiver[r] = "signal" /\ mutex = NULL
  /\ IF ~told[r]
     THEN SetBit(group, "DELETE") /\ told' = [told EXCEPT ![r] = TRUE]
     ELSE UNCHANGED <<bits, told>>
  /\ Receive(r, "check")
  /\ UNCHANGED <<handle, group, live, worker, member, open, lost, mutex>>

\* With the mutex taken: the worker is told once, of a socket still there.
Signal(r) ==
  /\ receiver[r] = "signal" /\ mutex = NULL
  /\ IF ~told[r] /\ sock # NoSock
     THEN SetBit(group, "DELETE") /\ told' = [told EXCEPT ![r] = TRUE]
     ELSE UNCHANGED <<bits, told>>
  /\ Receive(r, "check")
  /\ UNCHANGED <<handle, group, live, worker, member, open, lost, mutex>>

CheckExit(r) == /\ receiver[r] = "check"
                /\ Receive(r, IF exist = 0 /\ sock = NoSock THEN "done" ELSE "recv")
                /\ UNCHANGED <<handle, group, bits, live, worker, member, open,
                               lost, told, mutex>>

-----------------------------------------------------------------------------
WorkerStep(w) ==
  \/ \E b \in {"ADD", "SEND", "DELETE", "CLOSE"} : TakeBit(w, b)
  \/ AddSocket(w) \/ Connected(w) \/ Added(w) \/ AddFails(w) \/ Send(w)
  \/ Lock(w) \/ Delete(w) \/ CloseSocket(w) \/ DeleteGroup(w)
ReceiverStep(r) == RecvReturns(r) \/ RecvFails(r) \/ Signal(r) \/ CheckExit(r)
Command == Open \/ Connect \/ SendMessage \/ Close

Next == \/ Command
        \/ \E w \in Groups : WorkerStep(w)
        \/ \E r \in Socks : ReceiverStep(r) \/ Lose(r)

Spec == Init /\ [][Next]_vars
\* The scheduler runs the tasks; the operator and the network need not act.
FairSpec == Spec /\ (\A w \in Groups : WF_vars(WorkerStep(w)))
                 /\ (\A r \in Socks : WF_vars(ReceiverStep(r)))

-----------------------------------------------------------------------------
\* The member describes a socket that was made, and the mutex is a worker's.
ClientTypeOK ==
  /\ handle \in Groups \cup {NULL} /\ group \in Groups \cup {NULL}
  /\ bits \in [Groups -> SUBSET {"ADD", "SEND", "DELETE", "CLOSE"}]
  /\ live \subseteq Groups /\ lost \subseteq Socks /\ open \subseteq Socks
  /\ exist \in 0..1 /\ sock \in Socks \cup {NoSock}
  /\ mutex \in Groups \cup {NULL}
  /\ mutex # NULL => worker[mutex] \in {"delete", "closing", "end"}

\* No command and no receive task sets a bit of a group that was deleted.
DeletedUntouched == [][\A g \in Groups : bits'[g] # bits[g] => g \in live]_vars

\* Every open socket is the member's, so that a close closes all there is.
SocketsOwned == open \subseteq {sock}

\* A client that is closed for good leaves no receive task behind.
ReceiversEnd == <>[](exist = 0 /\ open = {}) =>
                <>[](\A r \in Socks : receiver[r] \in {"none", "done"})

\* The command "close" closes the client.
Closes == \A g \in Groups : "CLOSE" \in bits[g] ~> g \notin live
=============================================================================
