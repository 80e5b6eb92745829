------------------------------ MODULE HttpOta ------------------------------
(***************************************************************************)
(* download_ota_image of components/esp_br_http_ota: one task per download *)
(* reads the HTTP body into a static buffer, hands it to the RCP receiver, *)
(* and writes what the receiver leaves to the next host partition.         *)
(***************************************************************************)
EXTENDS RcpOta

CONSTANTS BufSize,    \* sizeof(s_download_data_buf)
          OldValid    \* the next host partition holds an older firmware

ASSUME HttpAssumption == BufSize \in Nat \ {0} /\ OldValid \in BOOLEAN

VARIABLES pc,        \* per task: where download_ota_image is
          served,    \* what the server sends: an image or something else
          total,     \* the length it says it has
          fed,       \* units read from the connection
          len,       \* result of the last read
          wrote,     \* units written through the task's host OTA handle
          part,      \* what is in the next host partition
          boot,      \* the partition the boot loader starts
          applied    \* the RCP image submitted last, <<>> when none was

httpVars == <<pc, served, total, fed, len, wrote, part, boot, applied>>
vars     == <<otaVars, pc, served, total, fed, len, wrote, part, boot, applied>>
env      == <<served, total, fed, len>>
host     == <<wrote, part, boot>>

HostSize == ImageSize - RcpSize
\* The firmware that belongs after the RCP's subfiles in h's image.
HostFirmware(h) == SubSeq(Image(h), RcpSize + 1, ImageSize)
Old == << <<"old", 1>> >>

HttpInit == /\ OtaInit
            /\ pc = [h \in Handles |-> "idle"]
            /\ served = [h \in Handles |-> Image(h)]
            /\ total = [h \in Handles |-> 0]
            /\ fed = [h \in Handles |-> 0]
            /\ len = [h \in Handles |-> 0]
            /\ wrote = [h \in Handles |-> 0]
            /\ part = (IF OldValid THEN Old ELSE <<>>)
            /\ boot = "running"
            /\ applied = <<>>

DownloadDone(h) == fed[h] = total[h]
Goto(h, p)      == pc' = [pc EXCEPT ![h] = p]

\* esp_ota_end and esp_ota_set_boot_partition accept a complete firmware.
IsFirmware(p, h) == /\ HostSize > 0 /\ Len(p) >= HostSize
                    /\ SubSeq(p, 1, HostSize) = HostFirmware(h)
Valid(p) == p = Old \/ \E h \in Handles : IsFirmware(p, h)

\* esp_ota_write: a handle writes on from where it is, over what is there.
Write(h, c) ==
  LET p == IF part = Old /\ c # <<>> THEN <<>> ELSE part
  IN  /\ part' = SubSeq(p, 1, wrote[h]) \o c
                   \o SubSeq(p, wrote[h] + Len(c) + 1, Len(p))
      /\ wrote' = [wrote EXCEPT ![h] = @ + Len(c)]
SetBoot == boot' = IF Valid(part) THEN "next" ELSE boot

-----------------------------------------------------------------------------
\* The server may send less than the image: what it says is its length counts.
StartDownload(h, n, body) ==
  /\ pc[h] \in {"idle", "failed"} /\ Begin(h)
  /\ served' = [served EXCEPT ![h] = body]
  /\ total' = [total EXCEPT ![h] = n]
  /\ fed' = [fed EXCEPT ![h] = 0] /\ len' = [len EXCEPT ![h] = 0]
  /\ wrote' = [wrote EXCEPT ![h] = 0]
  /\ Goto(h, "connect") /\ UNCHANGED <<part, boot, applied>>

\* _http_connect returns: a status that is neither a redirection nor an error.
Connect(h) == /\ pc[h] = "connect" /\ Goto(h, "read")
              /\ UNCHANGED <<otaVars, env, host, applied>>

\* The response is a redirection or asks for credentials: open it again.
Reconnect(h) == pc[h] = "connect" /\ UNCHANGED vars

\* esp_http_client_read: n units over the beginning of the one static buffer.
Read(h, n) ==
  /\ n > 0 /\ n <= total[h] - fed[h]
  /\ data' = [k \in Handles |->
                SubSeq(served[h], fed[h] + 1, fed[h] + n)
                  \o SubSeq(data[k], n + 1, Len(data[k]))]
  /\ fed' = [fed EXCEPT ![h] = @ + n]
  /\ len' = [len EXCEPT ![h] = n]
  /\ UNCHANGED <<entry, arg, err, served, total>>

ReadRcp(h, n) == /\ pc[h] = "read" /\ Read(h, n)
                 /\ Goto(h, "receive") /\ UNCHANGED <<host, applied>>

CallReceive(h) == /\ pc[h] = "receive" /\ Receive(h, len[h])
                  /\ Goto(h, "receiving")
                  /\ UNCHANGED <<env, host, applied>>

Receiving(h) == /\ pc[h] = "receiving" /\ ReceiveStep(h)
                /\ UNCHANGED httpVars

\* After esp_rcp_ota_receive: on to the host firmware, to the end, or read on.
Received(h) ==
  /\ pc[h] = "receiving" /\ ~arg[h].busy
  /\ Goto(h, IF err[h] THEN "fail"
             ELSE IF Finished(h) THEN IF HostSize > 0 THEN "begin" ELSE "end"
             ELSE IF DownloadDone(h) THEN "end" ELSE "read")
  /\ UNCHANGED <<otaVars, env, host, applied>>

\* esp_ota_begin, and what the buffer still holds is written first.
HostBegin(h) == /\ pc[h] = "begin"
                /\ Write(h, Piece(h, arg[h].size))
                /\ Goto(h, "host")
                /\ UNCHANGED <<otaVars, env, boot, applied>>

HostMore(h) == ~DownloadDone(h) /\ wrote[h] < HostSize

ReadHost(h, n) == /\ pc[h] = "host" /\ HostMore(h) /\ Read(h, n)
                  /\ Goto(h, "write") /\ UNCHANGED <<host, applied>>

HostWrite(h) == /\ pc[h] = "write"
                /\ Write(h, SubSeq(data[h], 1, len[h]))
                /\ Goto(h, "host")
                /\ UNCHANGED <<otaVars, env, boot, applied>>

\* esp_ota_end, then esp_ota_set_boot_partition.
HostEnd(h) == /\ pc[h] = "host" /\ ~HostMore(h)
              /\ Goto(h, IF wrote[h] > 0 /\ Valid(part) THEN "boot" ELSE "fail")
              /\ UNCHANGED <<otaVars, env, host, applied>>

HostBoot(h) == /\ pc[h] = "boot" /\ SetBoot /\ Goto(h, "end")
               /\ UNCHANGED <<otaVars, env, wrote, part, applied>>

\* Mutant: esp_rcp_ota_end submits whatever has been received.
RcpEndUnchecked(h) == /\ pc[h] = "end" /\ Free(h)
                      /\ applied' = entry[h].file
                      /\ Goto(h, "restart")
                      /\ UNCHANGED <<data, err, env, host>>

\* esp_rcp_ota_end: the entry is freed whatever the result.
RcpEnd(h) == /\ pc[h] = "end" /\ Finished(h) /\ Free(h)
             /\ applied' = entry[h].file
             /\ Goto(h, "restart")
             /\ UNCHANGED <<data, err, env, host>>

\* It fails: not finished, or nvs_set_i8 or nvs_commit did.  The "rollback".
RcpEndFails(h) == /\ pc[h] = "end" /\ Free(h)
                  /\ SetBoot
                  /\ Goto(h, "fail")
                  /\ UNCHANGED <<data, err, env, wrote, part, applied>>

\* A connection, a read or a host OTA call fails.
StepFails(h) == /\ pc[h] \in {"connect", "read", "begin", "host", "write", "boot"}
                /\ Goto(h, "fail")
                /\ UNCHANGED <<otaVars, env, host, applied>>

\* exit: what is left of the RCP entry is aborted; the task ends.
Exit(h) == /\ pc[h] = "fail"
           /\ IF entry[h] # NoEntry THEN Free(h) ELSE UNCHANGED <<entry, arg>>
           /\ Goto(h, "failed")
           /\ UNCHANGED <<data, err, env, host, applied>>

TaskStep(h) ==
  \/ Connect(h) \/ CallReceive(h) \/ Receiving(h) \/ Received(h)
  \/ HostBegin(h) \/ HostWrite(h) \/ HostEnd(h) \/ HostBoot(h)
  \/ RcpEnd(h) \/ RcpEndFails(h) \/ StepFails(h) \/ Exit(h)
  \/ \E n \in 1..BufSize : ReadRcp(h, n) \/ ReadHost(h, n)

HttpNext == \E h \in Handles :
              \/ \E n \in 1..ImageSize, body \in {Image(h), Junk(h)} :
                   StartDownload(h, n, body)
              \/ TaskStep(h) \/ Reconnect(h)

HttpSpec == HttpInit /\ [][HttpNext]_vars
FairSpec == HttpSpec /\ \A h \in Handles : WF_vars(TaskStep(h))

-----------------------------------------------------------------------------
PCs == {"idle", "connect", "read", "receive", "receiving", "begin", "host",
        "write", "boot", "end", "fail", "failed", "restart"}
States == {"INVALID", "READ_HEADER", "DOWNLOAD_RCP_FW", "FINISHED"}

\* The entries and the tasks stay in their types; no counter leaves its size.
HttpTypeOK ==
  /\ \A h \in Handles :
       /\ entry[h].state \in States
       /\ Len(entry[h].header) <= HeaderSize
       /\ entry[h].header_size \in {0, HeaderSize}
       /\ Len(entry[h].file) <= RcpSize
       /\ Len(data[h]) <= BufSize
       /\ arg[h].busy \in BOOLEAN
       /\ arg[h].cur + arg[h].size <= BufSize
       /\ fed[h] \in 0..total[h] /\ len[h] \in 0..BufSize
       /\ wrote[h] \in 0..(HostSize + BufSize)
  /\ pc \in [Handles -> PCs]
  /\ boot \in {"running", "next"}

\* However the body is cut into pieces, the file is a prefix of the image: no
\* unit is lost, repeated or taken from behind the RCP's subfiles.
FileIsPrefix == \A h \in Handles :
  LET f == entry[h].file IN f = SubSeq(Image(h), 1, Len(f))

\* The host partition receives what follows the RCP's subfiles, beginning with
\* the units the receiver left in the buffer.
HostIsRest == \A h \in Handles : pc[h] \in {"host", "write", "boot"} =>
  /\ wrote[h] <= HostSize /\ wrote[h] <= Len(part)
  /\ SubSeq(part, 1, wrote[h]) = SubSeq(HostFirmware(h), 1, wrote[h])

\* The device restarts into a download only when all of it is in place: the
\* RCP image was submitted complete, and the host firmware will be booted.
RestartsWhole == \A h \in Handles : pc[h] = "restart" =>
  /\ applied = SubSeq(Image(h), 1, RcpSize)
  /\ HostSize > 0 => boot = "next" /\ IsFirmware(part, h)

\* A download that is over has given back its entry, on every path.
NothingLeaks == \A h \in Handles :
  pc[h] \in {"idle", "failed", "restart"} => entry[h] = NoEntry

\* A download that failed leaves the host on the firmware that is running.
FailureKeepsHost ==
  (\A h \in Handles : pc[h] \in {"idle", "failed"}) => boot = "running"

\* A download the server serves comes to its end: no loop of the receiver or
\* of the download turns for ever.
Ends == \A h \in Handles : pc[h] = "read" ~> pc[h] \in {"failed", "restart"}

\* The parts of the split, with what bounds them: the body goes to the file and
\* the host partition unit by unit, no buffer or counter leaves its limits, and
\* what a download took it gives back.
HttpInv == HttpTypeOK /\ FileIsPrefix /\ HostIsRest /\ NothingLeaks
=============================================================================
