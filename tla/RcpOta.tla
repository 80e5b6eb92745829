------------------------------- MODULE RcpOta -------------------------------
(***************************************************************************)
(* The receiver of OTA images, components/esp_rcp_update/src/esp_rcp_ota.c:*)
(* it takes the data of one image in pieces of any size, keeps the header  *)
(* aside until it knows the sizes of the subfiles, writes the header and   *)
(* the RCP's subfiles to a file, and stops where the host firmware begins. *)
(* An action is one turn of the loop in esp_rcp_ota_receive.               *)
(***************************************************************************)
EXTENDS Integers, Sequences

CONSTANTS Handles,
          InfoSize,     \* sizeof(esp_rcp_subfile_info_t), in units of data
          HeaderSize,   \* size the first subfile_info gives: the whole header
          RcpSize,      \* sum of the sizes parse_image_header adds up
          ImageSize     \* of the download; what follows RcpSize is the host's

ASSUME SizeAssumption ==
  /\ {InfoSize, HeaderSize, RcpSize, ImageSize} \subseteq Nat \ {0}
  /\ InfoSize <= HeaderSize /\ HeaderSize <= RcpSize /\ RcpSize <= ImageSize

VARIABLES entry,   \* the entry of a handle, NoEntry when it has none
          data,    \* the buffer the caller passes
          arg,     \* the call in progress: part of data it has still to consume
          err      \* the last call of the handle failed

otaVars == <<entry, data, arg, err>>

\* A unit of data is known by its image and its place there.
Image(h) == [i \in 1..ImageSize |-> <<h, i>>]
\* What is no image at all.
Junk(h)  == [i \in 1..ImageSize |-> <<h, 0>>]

NoEntry  == [state |-> "INVALID", header |-> <<>>, header_size |-> 0,
             file |-> <<>>]
NewEntry == [NoEntry EXCEPT !.state = "READ_HEADER"]
NoCall   == [busy |-> FALSE, cur |-> 0, size |-> 0]

OtaInit == /\ entry = [h \in Handles |-> NoEntry]
           /\ data = [h \in Handles |-> <<>>]
           /\ arg = [h \in Handles |-> NoCall]
           /\ err = [h \in Handles |-> FALSE]

Least(a, b) == IF a < b THEN a ELSE b
\* The next n units of the data passed to the call.
Piece(h, n) == SubSeq(data[h], arg[h].cur + 1, arg[h].cur + n)

\* header_read of the code is Len(header), rcp_firmware_downloaded is Len(file).
InHeader(h) == entry[h].state = "READ_HEADER"
InRcpFw(h)  == entry[h].state = "DOWNLOAD_RCP_FW"
Finished(h) == entry[h].state = "FINISHED"

Advance(h, n) == arg' = [arg EXCEPT ![h].cur = @ + n, ![h].size = @ - n]
Fail(h)       == /\ arg' = [arg EXCEPT ![h] = NoCall]
                 /\ err' = [err EXCEPT ![h] = TRUE]

-----------------------------------------------------------------------------
\* esp_rcp_ota_begin.
Begin(h) == /\ entry[h] = NoEntry
            /\ entry' = [entry EXCEPT ![h] = NewEntry]
            /\ err' = [err EXCEPT ![h] = FALSE]
            /\ UNCHANGED <<data, arg>>

\* esp_rcp_ota_receive is called with the first n units of the buffer.
Receive(h, n) ==
  /\ entry[h] # NoEntry /\ ~arg[h].busy /\ n > 0
  /\ arg' = [arg EXCEPT ![h] = [busy |-> TRUE, cur |-> 0, size |-> n]]
  /\ UNCHANGED <<entry, data, err>>

Looping(h) == arg[h].busy /\ arg[h].size > 0

(* receive_header: first the one info that gives the header's size, then   *)
(* the rest of the header.                                                 *)
\* Mutant: the info is never complete.
ReadInfoShort(h) ==
  IF entry[h].header_size = 0 /\ Len(entry[h].header) < InfoSize - 1
  THEN Least(arg[h].size, InfoSize - 1 - Len(entry[h].header)) ELSE 0

ReadInfo(h) ==      \* units the first part of receive_header takes
  IF entry[h].header_size = 0 /\ Len(entry[h].header) < InfoSize
  THEN Least(arg[h].size, InfoSize - Len(entry[h].header)) ELSE 0

ReadRest(h, size) == \* units its second part takes, the header's size known
  LET got == Len(entry[h].header) + ReadInfo(h)
  IN  IF size > 0 /\ got < size
      THEN Least(arg[h].size - ReadInfo(h), size - got) ELSE 0

\* The first info is one: tag and offset of an image header.
IsInfo(header) == \A i \in 1..InfoSize : header[i][2] = i

ReceiveHeader(h) ==
  LET info  == entry[h].header \o Piece(h, ReadInfo(h))
      known == entry[h].header_size > 0
      read  == ~known /\ Len(info) >= InfoSize
      size  == IF known THEN entry[h].header_size
               ELSE IF read THEN HeaderSize ELSE 0
      n     == ReadInfo(h) + ReadRest(h, size)
      got   == entry[h].header \o Piece(h, n)
      done  == size > 0 /\ Len(got) >= size
  IN  /\ Looping(h) /\ InHeader(h)
      /\ read => IsInfo(info)
      /\ entry' = [entry EXCEPT
           ![h].header = got, ![h].header_size = size,
           ![h].state = IF done THEN "DOWNLOAD_RCP_FW" ELSE @]
      /\ Advance(h, n)
      /\ UNCHANGED <<data, err>>

RejectHeader(h) ==
  LET info == entry[h].header \o Piece(h, ReadInfo(h))
  IN  /\ Looping(h) /\ InHeader(h) /\ entry[h].header_size = 0
      /\ Len(info) >= InfoSize /\ ~IsInfo(info)
      /\ entry' = [entry EXCEPT ![h].header = info]
      /\ Fail(h) /\ UNCHANGED data

\* Mutant: the header is not copied to the file.
ReceiveWithoutHeader(h) ==
  LET n    == Least(arg[h].size, RcpSize - Len(entry[h].file))
      done == Len(entry[h].file) + n >= RcpSize
  IN  /\ Looping(h) /\ InRcpFw(h)
      /\ entry' = [entry EXCEPT
           ![h].file = @ \o Piece(h, n),
           ![h].state = IF done THEN "FINISHED" ELSE @]
      /\ Advance(h, n)
      /\ UNCHANGED <<data, err>>

\* receive_rcp_fw: the header goes to the file before the first data does.
ReceiveRcpFw(h) ==
  LET before == IF entry[h].file = <<>> THEN entry[h].header ELSE entry[h].file
      n      == Least(arg[h].size, RcpSize - Len(before))
      done   == Len(before) + n >= RcpSize
  IN  /\ Looping(h) /\ InRcpFw(h)
      /\ entry' = [entry EXCEPT
           ![h].file = before \o Piece(h, n),
           ![h].state = IF done THEN "FINISHED" ELSE @]
      /\ Advance(h, n)
      /\ UNCHANGED <<data, err>>

\* fopen or fwrite fails: part of what was to be written may be in the file.
WriteFails(h) ==
  LET before == IF entry[h].file = <<>> THEN entry[h].header ELSE entry[h].file
      n      == Least(arg[h].size, RcpSize - Len(before))
  IN  /\ Looping(h) /\ InRcpFw(h)
      /\ \E end \in Len(entry[h].file)..(Len(before) + n) :
           entry' = [entry EXCEPT ![h].file =
                                    SubSeq(before \o Piece(h, n), 1, end)]
      /\ Fail(h) /\ UNCHANGED data

\* The loop ends; what is left in the buffer belongs to the host firmware.
ReceiveReturns(h) == /\ arg[h].busy /\ (arg[h].size = 0 \/ Finished(h))
                     /\ arg' = [arg EXCEPT ![h].busy = FALSE]
                     /\ UNCHANGED <<entry, data, err>>

ReceiveStep(h) == \/ ReceiveHeader(h) \/ RejectHeader(h) \/ ReceiveRcpFw(h)
                  \/ WriteFails(h) \/ ReceiveReturns(h)

\* esp_rcp_ota_end and esp_rcp_ota_abort free the entry.
Free(h) == /\ entry[h] # NoEntry /\ ~arg[h].busy
           /\ entry' = [entry EXCEPT ![h] = NoEntry]
           /\ arg' = [arg EXCEPT ![h] = NoCall]
=============================================================================
