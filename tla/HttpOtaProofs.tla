---------------------------- MODULE HttpOtaProofs ----------------------------
(***************************************************************************)
(* Theorems about the download of an OTA image (HttpOta over RcpOta), for  *)
(* any sizes of header, infos, RCP subfiles, image and buffer, any length  *)
(* the server gives, and a body that arrives in pieces of any size.  One   *)
(* download at a time: the buffer is static, two would share it.           *)
(***************************************************************************)
EXTENDS MCHttpOta, SequenceTheorems, TLAPS

OneHandle == \E h : Handles = {h}

-----------------------------------------------------------------------------
(* The inductive invariant.                                                *)

Units   == Handles \X Nat
Stored  == Units \cup {<<"old", 1>>}
Entries == [state : States, header : Seq(Units), header_size : {0, HeaderSize}, file : Seq(Units)]
Args    == [busy : BOOLEAN, cur : Nat, size : Nat]

\* s is what b begins with.
Begins(s, b) == s \in Seq(Units) /\ \A i \in 1..Len(s) : s[i] = b[i]

Typed ==
  /\ entry \in [Handles -> Entries] /\ data \in [Handles -> Seq(Units)]
  /\ arg \in [Handles -> Args] /\ err \in [Handles -> BOOLEAN]
  /\ pc \in [Handles -> PCs] /\ served \in [Handles -> [1..ImageSize -> Units]]
  /\ total \in [Handles -> 0..ImageSize] /\ fed \in [Handles -> Nat]
  /\ len \in [Handles -> Nat] /\ wrote \in [Handles -> Nat]
  /\ part \in Seq(Stored) /\ boot \in {"running", "next"}

\* What no counter exceeds, and what the file is a part of, also after errors.
Sized(h) ==
  /\ served[h] \in {Image(h), Junk(h)}
  /\ Len(entry[h].header) <= HeaderSize
  /\ Begins(entry[h].file, Image(h)) /\ Len(entry[h].file) <= RcpSize
  /\ Len(data[h]) <= BufSize
  /\ arg[h].cur + arg[h].size <= BufSize
  /\ fed[h] <= total[h] /\ len[h] <= BufSize

\* Where the task is, and whether it has an entry and a call.
Owned(h) ==
  /\ pc[h] \in {"idle", "failed", "restart"} => entry[h] = NoEntry
  /\ pc[h] \notin {"idle", "fail", "failed", "restart"} => entry[h] # NoEntry
  /\ pc[h] \notin {"idle", "receiving", "fail", "failed"} => ~err[h]
  /\ pc[h] # "receiving" \/ err[h] => ~arg[h].busy
  /\ entry[h].state = "INVALID" => entry[h] = NoEntry

\* What has been kept of the body.
Kept(h) == ~err[h] =>
  /\ InHeader(h) => /\ Begins(entry[h].header, served[h])
                    /\ entry[h].file = <<>>
                    /\ entry[h].header_size = 0 => Len(entry[h].header) < InfoSize
                    /\ entry[h].header_size > 0 => /\ served[h] = Image(h)
                                                   /\ Len(entry[h].header) < HeaderSize
  /\ InRcpFw(h)  => /\ Begins(entry[h].header, served[h])
                    /\ Len(entry[h].header) = HeaderSize
                    /\ served[h] = Image(h)
                    /\ entry[h].file # <<>> => /\ HeaderSize <= Len(entry[h].file)
                                               /\ Len(entry[h].file) < RcpSize
  /\ Finished(h) => served[h] = Image(h) /\ Len(entry[h].file) = RcpSize

\* How much of the body has been taken by the receiver.
Taken(h) == IF InHeader(h) THEN Len(entry[h].header)
            ELSE IF entry[h].file = <<>> THEN HeaderSize ELSE Len(entry[h].file)

\* The buffer begins with the last units read.
Filled(h) == /\ len[h] <= fed[h] /\ len[h] <= Len(data[h]) /\ len[h] > 0
             /\ \A i \in 1..len[h] : data[h][i] = served[h][fed[h] - len[h] + i]

\* No unit is lost or taken twice on the way from the connection.
Placed(h) ==
  /\ pc[h] = "connect" => fed[h] = 0 /\ Taken(h) = 0
  /\ pc[h] \in {"connect", "read", "receive"} => InHeader(h) \/ InRcpFw(h)
  /\ pc[h] = "read" => Taken(h) = fed[h]
  /\ pc[h] = "receive" => Filled(h) /\ Taken(h) = fed[h] - len[h]
  /\ pc[h] = "receiving" /\ ~err[h] =>
       /\ Filled(h) /\ arg[h].cur + arg[h].size = len[h]
       /\ Taken(h) = fed[h] - arg[h].size
       /\ ~arg[h].busy => arg[h].size = 0 \/ Finished(h)
  /\ pc[h] \in {"connect", "read", "receive", "receiving", "begin"} => wrote[h] = 0
  /\ pc[h] = "begin" => /\ Filled(h) /\ Finished(h)
                        /\ arg[h].cur + arg[h].size = len[h]
                        /\ RcpSize = fed[h] - arg[h].size

\* The host partition up to where the task has written it.
HostHas(n, h) == /\ n <= HostSize /\ n <= Len(part)
                 /\ \A i \in 1..n : part[i] = Image(h)[RcpSize + i]
Hosted(h) ==
  /\ wrote[h] <= HostSize
  /\ pc[h] \in {"begin", "host", "write", "boot"} => HostSize > 0 /\ Finished(h)
  /\ pc[h] \in {"host", "boot"} => wrote[h] = fed[h] - RcpSize /\ HostHas(wrote[h], h)
  /\ pc[h] = "write" => /\ Filled(h) /\ wrote[h] = fed[h] - len[h] - RcpSize
                        /\ HostHas(wrote[h], h)
  /\ pc[h] = "boot" => IsFirmware(part, h)
  /\ pc[h] = "end" /\ Finished(h) /\ HostSize > 0 => boot = "next" /\ IsFirmware(part, h)
  /\ pc[h] = "restart" => /\ applied = SubSeq(Image(h), 1, RcpSize)
                          /\ HostSize > 0 => boot = "next" /\ IsFirmware(part, h)

Works(h) == Sized(h) /\ Owned(h) /\ Kept(h) /\ Placed(h) /\ Hosted(h)
OtaInv   == Typed /\ \A h \in Handles : Works(h)
-----------------------------------------------------------------------------
(* Sequences of units.                                                     *)

LEMMA Sizes ==
  /\ InfoSize \in Nat /\ HeaderSize \in Nat /\ RcpSize \in Nat /\ ImageSize \in Nat
  /\ BufSize \in Nat /\ BufSize > 0
  /\ InfoSize > 0 /\ InfoSize <= HeaderSize /\ HeaderSize <= RcpSize /\ RcpSize <= ImageSize
  /\ HostSize \in Nat /\ HostSize = ImageSize - RcpSize
BY SizeAssumption, HttpAssumption DEF HostSize

LEMMA Images ==
  ASSUME NEW h \in Handles
  PROVE  /\ Image(h) \in [1..ImageSize -> Units] /\ Junk(h) \in [1..ImageSize -> Units]
         /\ Image(h) \in Seq(Units) /\ Len(Image(h)) = ImageSize
         /\ \A i \in 1..ImageSize : Image(h)[i] = <<h, i>> /\ Junk(h)[i] = <<h, 0>>
<1>1. Image(h) \in [1..ImageSize -> Units] /\ Junk(h) \in [1..ImageSize -> Units]
  BY Sizes DEF Image, Junk, Units
<1>2. Image(h) \in Seq(Units)
  BY <1>1, Sizes, SeqDef
<1>3. Len(Image(h)) = ImageSize
  BY <1>1, <1>2, Sizes, LenProperties
<1>4. QED
  BY <1>1, <1>2, <1>3 DEF Image, Junk

\* n units of a sequence from behind its first m.
LEMMA Part ==
  ASSUME NEW S, NEW s \in Seq(S), NEW m \in Nat, NEW n \in Nat, m + n <= Len(s)
  PROVE  /\ SubSeq(s, m + 1, m + n) \in Seq(S)
         /\ Len(SubSeq(s, m + 1, m + n)) = n
         /\ \A i \in 1..n : SubSeq(s, m + 1, m + n)[i] = s[m + i]
<1>1. \A i \in (m + 1)..(m + n) : s[i] \in S
  BY ElementOfSeq
<1>2. /\ SubSeq(s, m + 1, m + n) \in Seq(S)
      /\ Len(SubSeq(s, m + 1, m + n)) = IF m + 1 <= m + n THEN (m + n) - (m + 1) + 1 ELSE 0
      /\ \A i \in 1..((m + n) - (m + 1) + 1) : SubSeq(s, m + 1, m + n)[i] = s[(m + 1) + i - 1]
  BY <1>1, SubSeqProperties
<1>3. (m + n) - (m + 1) + 1 = n
  OBVIOUS
<1>4. \A i \in 1..n : (m + 1) + i - 1 = m + i
  OBVIOUS
<1>5. QED
  BY <1>2, <1>3, <1>4

LEMMA Joined ==
  ASSUME NEW S, NEW s \in Seq(S), NEW c \in Seq(S)
  PROVE  /\ s \o c \in Seq(S)
         /\ Len(s \o c) = Len(s) + Len(c)
         /\ \A i \in 1..Len(s) : (s \o c)[i] = s[i]
         /\ \A i \in 1..Len(c) : (s \o c)[Len(s) + i] = c[i]
<1>1. Len(s) \in Nat /\ Len(c) \in Nat
  BY LenProperties
<1>2. /\ s \o c \in Seq(S) /\ Len(s \o c) = Len(s) + Len(c)
      /\ \A i \in 1..Len(s) + Len(c) : (s \o c)[i] = IF i <= Len(s) THEN s[i] ELSE c[i - Len(s)]
  BY ConcatProperties
<1>3. QED
  BY <1>1, <1>2

\* What extends a beginning of b by what follows in b.
LEMMA Extends ==
  ASSUME NEW b, NEW s, Begins(s, b), NEW c \in Seq(Units),
         \A i \in 1..Len(c) : c[i] = b[Len(s) + i]
  PROVE  Begins(s \o c, b) /\ Len(s \o c) = Len(s) + Len(c)
<1>1. s \in Seq(Units) /\ \A i \in 1..Len(s) : s[i] = b[i]
  BY DEF Begins
<1>2. Len(s) \in Nat /\ Len(c) \in Nat
  BY <1>1, LenProperties
<1>3. /\ s \o c \in Seq(Units) /\ Len(s \o c) = Len(s) + Len(c)
      /\ \A i \in 1..Len(s) : (s \o c)[i] = s[i]
      /\ \A i \in 1..Len(c) : (s \o c)[Len(s) + i] = c[i]
  BY <1>1, Joined
<1>4. ASSUME NEW i \in 1..(Len(s) + Len(c))
      PROVE  (s \o c)[i] = b[i]
  <2>1. CASE i <= Len(s)
    BY <1>1, <1>2, <1>3, <2>1
  <2>2. CASE i > Len(s)
    <3>1. i - Len(s) \in 1..Len(c) /\ Len(s) + (i - Len(s)) = i
      BY <1>2, <2>2
    <3>2. (s \o c)[i] = c[i - Len(s)] /\ c[i - Len(s)] = b[i]
      BY <1>3, <3>1
    <3>3. QED
      BY <3>2
  <2>3. QED
    BY <1>2, <2>1, <2>2
<1>5. QED
  BY <1>3, <1>4 DEF Begins

\* A sequence that begins b, and what of it remains when it is cut.
LEMMA Cut ==
  ASSUME NEW b, NEW s, Begins(s, b), NEW n \in 0..Len(s)
  PROVE  Begins(SubSeq(s, 1, n), b) /\ Len(SubSeq(s, 1, n)) = n
<1>1. s \in Seq(Units) /\ Len(s) \in Nat
  BY LenProperties DEF Begins
<1>2. /\ SubSeq(s, 0 + 1, 0 + n) \in Seq(Units)
      /\ Len(SubSeq(s, 0 + 1, 0 + n)) = n
      /\ \A i \in 1..n : SubSeq(s, 0 + 1, 0 + n)[i] = s[0 + i]
  BY <1>1, Part
<1>3. \A i \in 1..n : s[i] = b[i]
  BY <1>1 DEF Begins
<1>4. QED
  BY <1>2, <1>3 DEF Begins

LEMMA Beginning ==
  ASSUME NEW h \in Handles, NEW s, Begins(s, Image(h)), Len(s) <= ImageSize
  PROVE  s = SubSeq(Image(h), 1, Len(s))
<1>1. s \in Seq(Units) /\ Len(s) \in Nat
  BY LenProperties DEF Begins
<1>2. Image(h) \in Seq(Units) /\ Len(Image(h)) = ImageSize
  BY Images
<1>3. Begins(Image(h), Image(h))
  BY <1>2 DEF Begins
<1>4. Begins(SubSeq(Image(h), 1, Len(s)), Image(h)) /\ Len(SubSeq(Image(h), 1, Len(s))) = Len(s)
  BY <1>1, <1>2, <1>3, Cut
<1>5. SubSeq(Image(h), 1, Len(s)) \in Seq(Units)
  BY <1>4 DEF Begins
<1>6. \A i \in 1..Len(s) : s[i] = SubSeq(Image(h), 1, Len(s))[i]
  BY <1>4 DEF Begins
<1>7. QED
  BY <1>1, <1>4, <1>5, <1>6, SeqEqual

-----------------------------------------------------------------------------
(* One handle at a time.                                                   *)

LEMMA Enough ==
  ASSUME OneHandle, NEW h \in Handles, Typed', Works(h)'
  PROVE  OtaInv'
<1>1. \A k \in Handles : k = h
  BY DEF OneHandle
<1>2. QED
  BY <1>1 DEF OtaInv

LEMMA Fields ==
  ASSUME Typed, NEW h \in Handles
  PROVE  /\ entry[h] \in Entries /\ entry[h].state \in States
         /\ entry[h].header \in Seq(Units) /\ Len(entry[h].header) \in Nat
         /\ entry[h].header_size \in {0, HeaderSize}
         /\ entry[h].file \in Seq(Units) /\ Len(entry[h].file) \in Nat
         /\ data[h] \in Seq(Units) /\ Len(data[h]) \in Nat
         /\ arg[h] \in Args /\ arg[h].cur \in Nat /\ arg[h].size \in Nat /\ arg[h].busy \in BOOLEAN
         /\ fed[h] \in Nat /\ len[h] \in Nat /\ wrote[h] \in Nat /\ total[h] \in 0..ImageSize
         /\ pc[h] \in PCs /\ err[h] \in BOOLEAN
<1>1. entry[h] \in Entries /\ data[h] \in Seq(Units) /\ arg[h] \in Args
  BY DEF Typed
<1>2. /\ entry[h].state \in States /\ entry[h].header \in Seq(Units)
      /\ entry[h].header_size \in {0, HeaderSize} /\ entry[h].file \in Seq(Units)
  BY <1>1 DEF Entries
<1>3. arg[h].cur \in Nat /\ arg[h].size \in Nat /\ arg[h].busy \in BOOLEAN
  BY <1>1 DEF Args
<1>4. Len(entry[h].header) \in Nat /\ Len(entry[h].file) \in Nat /\ Len(data[h]) \in Nat
  BY <1>1, <1>2, LenProperties
<1>5. /\ fed[h] \in Nat /\ len[h] \in Nat /\ wrote[h] \in Nat /\ total[h] \in 0..ImageSize
      /\ pc[h] \in PCs /\ err[h] \in BOOLEAN
  BY DEF Typed
<1>6. QED
  BY <1>1, <1>2, <1>3, <1>4, <1>5

LEMMA EntryTypes == NoEntry \in Entries /\ NewEntry \in Entries /\ NoCall \in Args /\ NewEntry # NoEntry
<1>1. <<>> \in Seq(Units)
  BY EmptySeq
<1>2. QED
  BY <1>1 DEF NoEntry, NewEntry, NoCall, Entries, Args, States

\* The states of an entry.
LEMMA EntryStates ==
  ASSUME NEW h \in Handles, Typed, Owned(h)
  PROVE  /\ entry[h] # NoEntry => InHeader(h) \/ InRcpFw(h) \/ Finished(h)
         /\ InHeader(h) \/ InRcpFw(h) \/ Finished(h) => entry[h] # NoEntry
<1>1. entry[h].state \in States
  BY Fields
<1>2. NoEntry.state = "INVALID"
  BY DEF NoEntry
<1>3. QED
  BY <1>1, <1>2 DEF Owned, InHeader, InRcpFw, Finished, States

\* A step that moves only the task, and perhaps what is booted.
LEMMA OnlyPc ==
  ASSUME OneHandle, OtaInv, NEW h \in Handles, NEW p \in PCs, Goto(h, p),
         UNCHANGED <<otaVars, env, wrote, part, applied>>, boot' \in {"running", "next"},
         Owned(h)', Placed(h)', Hosted(h)'
  PROVE  OtaInv'
<1>0. Typed /\ Works(h)
  BY DEF OtaInv
<1>1. Typed'
  BY <1>0 DEF Typed, Goto, otaVars, env
<1>2. Sized(h)'
  BY <1>0 DEF Works, Sized, Begins, otaVars, env
<1>3. Kept(h)'
  BY <1>0 DEF Works, Kept, Begins, InHeader, InRcpFw, Finished, otaVars, env
<1>4. QED
  BY <1>1, <1>2, <1>3, Enough DEF Works

LEMMA Moved ==
  ASSUME Typed, NEW h \in Handles, NEW p, Goto(h, p)
  PROVE  pc'[h] = p
BY DEF Typed, Goto

USE DEF otaVars, env, host, Works

LEMMA ConnectKeeps ==
  ASSUME OneHandle, OtaInv, NEW h \in Handles, Connect(h)
  PROVE  OtaInv'
<1>0. Typed /\ Works(h)
  BY DEF OtaInv
<1>1. /\ pc[h] = "connect" /\ Goto(h, "read") /\ pc'[h] = "read"
      /\ UNCHANGED <<otaVars, env, host, applied>>
  BY <1>0, Moved DEF Connect
<1>2. Owned(h)'
  BY <1>0, <1>1 DEF Owned
<1>3. Placed(h)'
  BY <1>0, <1>1 DEF Placed, Taken, InHeader, InRcpFw, Finished
<1>4. Hosted(h)'
  BY <1>0, <1>1 DEF Hosted
<1>5. boot' \in {"running", "next"} /\ "read" \in PCs
  BY <1>0, <1>1 DEF Typed, PCs
<1>6. QED
  BY <1>1, <1>2, <1>3, <1>4, <1>5, OnlyPc

LEMMA ReceivedKeeps ==
  ASSUME OneHandle, OtaInv, NEW h \in Handles, Received(h)
  PROVE  OtaInv'
<1>0. Typed /\ Works(h)
  BY DEF OtaInv
<1>1. PICK p \in {"fail", "begin", "end", "read"} :
        /\ Goto(h, p)
        /\ p = "fail" => err[h]
        /\ p = "begin" => ~err[h] /\ Finished(h) /\ HostSize > 0
        /\ p = "end" => ~err[h] /\ (Finished(h) => HostSize <= 0)
        /\ p = "read" => ~err[h] /\ ~Finished(h)
  <2>1. CASE err[h]
    BY <2>1 DEF Received
  <2>2. CASE ~err[h] /\ Finished(h)
    <3>1. Goto(h, IF HostSize > 0 THEN "begin" ELSE "end")
      BY <2>2 DEF Received
    <3>2. CASE HostSize > 0
      BY <2>2, <3>1, <3>2
    <3>3. CASE ~(HostSize > 0)
      BY <2>2, <3>1, <3>3, Sizes
    <3>4. QED
      BY <3>2, <3>3
  <2>3. CASE ~err[h] /\ ~Finished(h)
    <3>1. Goto(h, IF DownloadDone(h) THEN "end" ELSE "read")
      BY <2>3 DEF Received
    <3>2. QED
      BY <2>3, <3>1
  <2>4. QED
    BY <2>1, <2>2, <2>3
<1>2. /\ pc[h] = "receiving" /\ ~arg[h].busy /\ pc'[h] = p
      /\ UNCHANGED <<otaVars, env, host, applied>>
  BY <1>0, <1>1, Moved DEF Received
<1>3. entry[h] # NoEntry
  BY <1>0, <1>2 DEF Owned
<1>4. Owned(h)'
  BY <1>0, <1>1, <1>2, <1>3 DEF Owned
<1>5. ~err[h] /\ ~Finished(h) => /\ InHeader(h) \/ InRcpFw(h)
                                 /\ arg[h].size = 0 /\ Taken(h) = fed[h] - arg[h].size
  BY <1>0, <1>2, <1>3, EntryStates DEF Placed
<1>6. ~err[h] /\ Finished(h) => Taken(h) = RcpSize
  <2>1. SUFFICES ASSUME ~err[h], Finished(h)
                 PROVE  Taken(h) = RcpSize
    OBVIOUS
  <2>2. Len(entry[h].file) = RcpSize /\ ~InHeader(h)
    BY <1>0, <2>1 DEF Kept, InHeader, Finished
  <2>3. entry[h].file # <<>>
    BY <2>2, Sizes, EmptySeq
  <2>4. QED
    BY <2>2, <2>3 DEF Taken
<1>7. Placed(h)'
  <2>1. CASE p \in {"fail", "end"}
    BY <1>2, <2>1 DEF Placed
  <2>2. CASE p = "read"
    <3>1. fed[h] \in Nat /\ Taken(h) = fed[h]
      BY <1>0, <1>1, <1>5, <2>2, Fields
    <3>2. wrote[h] = 0
      BY <1>0, <1>2 DEF Placed
    <3>3. QED
      BY <1>1, <1>2, <1>5, <2>2, <3>1, <3>2 DEF Placed, Taken, InHeader, InRcpFw
  <2>3. CASE p = "begin"
    <3>1. Filled(h) /\ arg[h].cur + arg[h].size = len[h] /\ RcpSize = fed[h] - arg[h].size
      BY <1>0, <1>1, <1>2, <1>6, <2>3 DEF Placed
    <3>2. wrote[h] = 0 /\ Finished(h)
      BY <1>0, <1>1, <1>2, <2>3 DEF Placed
    <3>3. QED
      BY <1>2, <2>3, <3>1, <3>2 DEF Placed, Filled, Finished
  <2>4. QED
    BY <1>1, <2>1, <2>2, <2>3
<1>8. Hosted(h)'
  BY <1>0, <1>1, <1>2, Sizes DEF Hosted, Finished
<1>9. boot' \in {"running", "next"} /\ p \in PCs
  BY <1>0, <1>2 DEF Typed, PCs
<1>10. QED
  BY <1>1, <1>2, <1>4, <1>7, <1>8, <1>9, OnlyPc

HIDE DEF otaVars, env, host, Works

USE DEF otaVars, env, host, Works

\* A partition the task has written to does not hold the old firmware any more.
LEMMA Overwritten ==
  ASSUME NEW h \in Handles, NEW n \in Nat, HostHas(n, h), n > 0
  PROVE  part # Old
<1>1. part[1] = Image(h)[RcpSize + 1] /\ RcpSize + 1 \in 1..ImageSize
  BY Sizes DEF HostHas
<1>2. part[1] = <<h, RcpSize + 1>>
  BY <1>1, Images
<1>3. RcpSize + 1 # 1
  BY Sizes
<1>4. Old[1] = <<"old", 1>>
  BY DEF Old
<1>5. QED
  BY <1>2, <1>3, <1>4

LEMMA HostEndKeeps ==
  ASSUME OneHandle, OtaInv, NEW h \in Handles, HostEnd(h)
  PROVE  OtaInv'
<1>0. Typed /\ Works(h)
  BY DEF OtaInv
<1>1. PICK p \in {"boot", "fail"} :
        /\ Goto(h, p)
        /\ p = "boot" => wrote[h] > 0 /\ Valid(part)
  BY DEF HostEnd
<1>2. /\ pc[h] = "host" /\ pc'[h] = p
      /\ UNCHANGED <<otaVars, env, host, applied>>
  BY <1>0, <1>1, Moved DEF HostEnd
<1>3. p = "boot" => IsFirmware(part, h)
  <2>1. SUFFICES ASSUME p = "boot"
                 PROVE  IsFirmware(part, h)
    OBVIOUS
  <2>2. wrote[h] \in Nat /\ wrote[h] > 0 /\ HostHas(wrote[h], h)
    BY <1>0, <1>1, <1>2, <2>1, Fields DEF Hosted
  <2>3. part # Old
    BY <2>2, Overwritten
  <2>4. QED
    BY <1>1, <2>1, <2>3 DEF Valid, OneHandle
<1>4. Owned(h)'
  BY <1>0, <1>1, <1>2 DEF Owned
<1>5. Placed(h)'
  BY <1>1, <1>2 DEF Placed
<1>6. Hosted(h)'
  BY <1>0, <1>1, <1>2, <1>3 DEF Hosted, HostHas, Finished, IsFirmware
<1>7. boot' \in {"running", "next"} /\ p \in PCs
  BY <1>0, <1>2 DEF Typed, PCs
<1>8. QED
  BY <1>1, <1>2, <1>4, <1>5, <1>6, <1>7, OnlyPc

LEMMA HostBootKeeps ==
  ASSUME OneHandle, OtaInv, NEW h \in Handles, HostBoot(h)
  PROVE  OtaInv'
<1>0. Typed /\ Works(h)
  BY DEF OtaInv
<1>1. /\ pc[h] = "boot" /\ Goto(h, "end") /\ pc'[h] = "end" /\ SetBoot
      /\ UNCHANGED <<otaVars, env, wrote, part, applied>>
  BY <1>0, Moved DEF HostBoot
<1>2. IsFirmware(part, h)
  BY <1>0, <1>1 DEF Hosted
<1>3. boot' = "next"
  BY <1>1, <1>2 DEF SetBoot, Valid
<1>4. Owned(h)'
  BY <1>0, <1>1 DEF Owned
<1>5. Placed(h)'
  BY <1>1 DEF Placed
<1>6. Hosted(h)'
  BY <1>0, <1>1, <1>2, <1>3 DEF Hosted, IsFirmware
<1>7. QED
  BY <1>1, <1>3, <1>4, <1>5, <1>6, OnlyPc DEF PCs

LEMMA StepFailsKeeps ==
  ASSUME OneHandle, OtaInv, NEW h \in Handles, StepFails(h)
  PROVE  OtaInv'
<1>0. Typed /\ Works(h)
  BY DEF OtaInv
<1>1. /\ pc[h] \in {"connect", "read", "begin", "host", "write", "boot"}
      /\ Goto(h, "fail") /\ pc'[h] = "fail"
      /\ UNCHANGED <<otaVars, env, host, applied>>
  BY <1>0, Moved DEF StepFails
<1>2. Owned(h)'
  BY <1>0, <1>1 DEF Owned
<1>3. Placed(h)'
  BY <1>1 DEF Placed
<1>4. Hosted(h)'
  BY <1>0, <1>1 DEF Hosted
<1>5. boot' \in {"running", "next"} /\ "fail" \in PCs
  BY <1>0, <1>1 DEF Typed, PCs
<1>6. QED
  BY <1>1, <1>2, <1>3, <1>4, <1>5, OnlyPc

\* The units a call takes next are those of the body that follow what it took.
LEMMA Pieces ==
  ASSUME Typed, NEW h \in Handles, Filled(h), arg[h].cur + arg[h].size = len[h],
         NEW n \in 0..arg[h].size
  PROVE  /\ Piece(h, n) \in Seq(Units) /\ Len(Piece(h, n)) = n
         /\ \A i \in 1..n : Piece(h, n)[i] = served[h][fed[h] - arg[h].size + i]
<1>1. /\ data[h] \in Seq(Units) /\ arg[h].cur \in Nat /\ arg[h].size \in Nat
      /\ fed[h] \in Nat /\ len[h] \in Nat
  BY Fields
<1>2. len[h] <= Len(data[h]) /\ \A i \in 1..len[h] : data[h][i] = served[h][fed[h] - len[h] + i]
  BY DEF Filled
<1> DEFINE d == data[h]
           b == served[h]
           c == arg[h].cur
           z == arg[h].size
           l == len[h]
           f == fed[h]
<1>3. /\ d \in Seq(Units) /\ c \in Nat /\ z \in Nat /\ l \in Nat /\ f \in Nat
      /\ c + z = l /\ l <= Len(d) /\ n \in 0..z
      /\ \A i \in 1..l : d[i] = b[f - l + i]
  BY <1>1, <1>2
<1>4. Piece(h, n) = SubSeq(d, c + 1, c + n)
  BY DEF Piece
<1> HIDE DEF d, b, c, z, l, f
<1>5. Len(d) \in Nat
  BY <1>3, LenProperties
<1>6. n \in Nat /\ c + n <= Len(d)
  BY <1>3, <1>5
<1>7. /\ SubSeq(d, c + 1, c + n) \in Seq(Units) /\ Len(SubSeq(d, c + 1, c + n)) = n
      /\ \A i \in 1..n : SubSeq(d, c + 1, c + n)[i] = d[c + i]
  BY <1>3, <1>6, Part
<1>8. ASSUME NEW i \in 1..n
      PROVE  d[c + i] = b[f - z + i]
  <2>1. c + i \in 1..l /\ f - l + (c + i) = f - z + i
    BY <1>3, <1>6
  <2>2. d[c + i] = b[f - l + (c + i)]
    BY <1>3, <2>1
  <2>3. QED
    BY <2>1, <2>2
<1>9. QED
  BY <1>4, <1>7, <1>8 DEF b, f, z

HIDE DEF otaVars, env, host, Works

-----------------------------------------------------------------------------
(* Reading.                                                                *)

\* What is left of a sequence behind its first n units.
LEMMA Rest ==
  ASSUME NEW S, NEW s \in Seq(S), NEW n \in Nat
  PROVE  /\ SubSeq(s, n + 1, Len(s)) \in Seq(S)
         /\ Len(SubSeq(s, n + 1, Len(s))) = IF n < Len(s) THEN Len(s) - n ELSE 0
         /\ n <= Len(s) => \A i \in 1..(Len(s) - n) : SubSeq(s, n + 1, Len(s))[i] = s[n + i]
<1>1. Len(s) \in Nat
  BY LenProperties
<1>2. CASE n < Len(s)
  <2>1. Len(s) - n \in Nat /\ n + (Len(s) - n) = Len(s)
    BY <1>1, <1>2
  <2>2. /\ SubSeq(s, n + 1, n + (Len(s) - n)) \in Seq(S)
        /\ Len(SubSeq(s, n + 1, n + (Len(s) - n))) = Len(s) - n
        /\ \A i \in 1..(Len(s) - n) : SubSeq(s, n + 1, n + (Len(s) - n))[i] = s[n + i]
    BY <2>1, Part
  <2>3. QED
    BY <1>2, <2>1, <2>2
<1>3. CASE ~(n < Len(s))
  <2>1. SubSeq(s, n + 1, Len(s)) = <<>>
    BY <1>1, <1>3, SubSeqEmpty
  <2>2. QED
    BY <1>1, <1>3, <2>1, EmptySeq
<1>4. QED
  BY <1>2, <1>3

LEMMA Bodies ==
  ASSUME NEW b \in [1..ImageSize -> Units]
  PROVE  b \in Seq(Units) /\ Len(b) = ImageSize
<1>1. b \in Seq(Units)
  BY Sizes, SeqDef
<1>2. QED
  BY <1>1, Sizes, LenProperties

USE DEF otaVars, env, host, Works

\* A read puts the next n units of the body at the beginning of the buffer.
LEMMA ReadFills ==
  ASSUME Typed, NEW h \in Handles, Sized(h), NEW n \in 1..BufSize, Read(h, n)
  PROVE  /\ data' \in [Handles -> Seq(Units)] /\ fed' \in [Handles -> Nat] /\ len' \in [Handles -> Nat]
         /\ UNCHANGED <<entry, arg, err, served, total>>
         /\ fed'[h] = fed[h] + n /\ len'[h] = n /\ fed[h] + n <= total[h]
         /\ Len(data'[h]) <= BufSize
         /\ Filled(h)'
<1>0. /\ fed[h] \in Nat /\ total[h] \in 0..ImageSize /\ n \in Nat /\ n > 0 /\ n <= BufSize
      /\ fed \in [Handles -> Nat] /\ len \in [Handles -> Nat]
      /\ data \in [Handles -> Seq(Units)]
  BY Fields, Sizes DEF Typed
<1>1. /\ n <= total[h] - fed[h]
      /\ fed' = [fed EXCEPT ![h] = fed[h] + n] /\ len' = [len EXCEPT ![h] = n]
      /\ UNCHANGED <<entry, arg, err, served, total>>
  BY DEF Read
<1>2. fed[h] + n \in Nat /\ fed[h] + n <= total[h] /\ fed[h] + n <= ImageSize
  BY <1>0, <1>1, Sizes
<1>3. fed' \in [Handles -> Nat] /\ len' \in [Handles -> Nat] /\ fed'[h] = fed[h] + n /\ len'[h] = n
  BY <1>0, <1>1, <1>2
<1> DEFINE c == SubSeq(served[h], fed[h] + 1, fed[h] + n)
           r(k) == SubSeq(data[k], n + 1, Len(data[k]))
<1>4. data' = [k \in Handles |-> c \o r(k)]
  BY DEF Read
<1>5. served[h] \in Seq(Units) /\ Len(served[h]) = ImageSize
  BY Bodies DEF Typed
<1>6. /\ c \in Seq(Units) /\ Len(c) = n
      /\ \A i \in 1..n : c[i] = served[h][fed[h] + i]
  <2> DEFINE b == served[h]
             f == fed[h]
  <2>1. b \in Seq(Units) /\ f \in Nat /\ n \in Nat /\ f + n <= Len(b)
    BY <1>0, <1>2, <1>5
  <2> HIDE DEF b, f
  <2>2. /\ SubSeq(b, f + 1, f + n) \in Seq(Units)
        /\ Len(SubSeq(b, f + 1, f + n)) = n
        /\ \A i \in 1..n : SubSeq(b, f + 1, f + n)[i] = b[f + i]
    BY <2>1, Part
  <2>3. QED
    BY <2>2 DEF b, f
<1>7. \A k \in Handles : /\ data[k] \in Seq(Units) /\ Len(data[k]) \in Nat
                         /\ r(k) \in Seq(Units)
                         /\ Len(r(k)) = IF n < Len(data[k]) THEN Len(data[k]) - n ELSE 0
  BY <1>0, Rest, LenProperties
<1> HIDE DEF c, r
<1>8. \A k \in Handles : /\ c \o r(k) \in Seq(Units)
                         /\ Len(c \o r(k)) = n + Len(r(k))
                         /\ \A i \in 1..n : (c \o r(k))[i] = c[i]
  BY <1>6, <1>7, Joined, ZenonT(40)
<1>9. data' \in [Handles -> Seq(Units)] /\ data'[h] = c \o r(h)
  BY <1>4, <1>8
<1>10. Len(data'[h]) = n + Len(r(h)) /\ \A i \in 1..n : data'[h][i] = served[h][fed[h] + i]
  BY <1>6, <1>8, <1>9
<1>11. Len(data[h]) <= BufSize /\ Len(data[h]) \in Nat
  BY <1>7 DEF Sized
<1>12. Len(data'[h]) <= BufSize /\ n <= Len(data'[h])
  BY <1>0, <1>7, <1>10, <1>11, Sizes
<1>13. Filled(h)'
  <2>1. (fed[h] + n) - n = fed[h]
    BY <1>0
  <2>2. n <= fed[h] + n
    BY <1>0
  <2>3. \A i \in 1..len'[h] : data'[h][i] = served'[h][fed'[h] - len'[h] + i]
    BY <1>1, <1>3, <1>10, <2>1
  <2>4. QED
    BY <1>0, <1>3, <1>12, <2>2, <2>3 DEF Filled
<1>14. QED
  BY <1>1, <1>2, <1>3, <1>9, <1>12, <1>13

LEMMA ReadRcpKeeps ==
  ASSUME OneHandle, OtaInv, NEW h \in Handles, NEW n \in 1..BufSize, ReadRcp(h, n)
  PROVE  OtaInv'
<1>0. Typed /\ Works(h)
  BY DEF OtaInv
<1>1. /\ pc[h] = "read" /\ Goto(h, "receive") /\ pc'[h] = "receive"
      /\ UNCHANGED <<host, applied>>
  BY <1>0, Moved DEF ReadRcp
<1>2. /\ data' \in [Handles -> Seq(Units)] /\ fed' \in [Handles -> Nat] /\ len' \in [Handles -> Nat]
      /\ UNCHANGED <<entry, arg, err, served, total>>
      /\ fed'[h] = fed[h] + n /\ len'[h] = n /\ fed[h] + n <= total[h]
      /\ Len(data'[h]) <= BufSize
      /\ Filled(h)'
  BY <1>0, ReadFills DEF ReadRcp
<1>3. Typed'
  BY <1>0, <1>1, <1>2 DEF Typed, Goto, PCs
<1>4. Sized(h)'
  BY <1>0, <1>2 DEF Sized, Begins
<1>5. Owned(h)'
  BY <1>0, <1>1, <1>2 DEF Owned
<1>6. Kept(h)'
  BY <1>0, <1>2 DEF Kept, Begins, InHeader, InRcpFw, Finished
<1>7. Placed(h)'
  <2>1. (InHeader(h) \/ InRcpFw(h)) /\ Taken(h) = fed[h] /\ wrote[h] = 0
    BY <1>0, <1>1 DEF Placed
  <2>2. fed[h] \in Nat /\ fed[h] = fed'[h] - len'[h]
    BY <1>0, <1>2, Fields
  <2>3. QED
    BY <1>1, <1>2, <2>1, <2>2 DEF Placed, Taken, InHeader, InRcpFw
<1>8. Hosted(h)'
  BY <1>0, <1>1 DEF Hosted
<1>9. QED
  BY <1>3, <1>4, <1>5, <1>6, <1>7, <1>8, Enough

LEMMA ReadHostKeeps ==
  ASSUME OneHandle, OtaInv, NEW h \in Handles, NEW n \in 1..BufSize, ReadHost(h, n)
  PROVE  OtaInv'
<1>0. Typed /\ Works(h)
  BY DEF OtaInv
<1>1. /\ pc[h] = "host" /\ Goto(h, "write") /\ pc'[h] = "write"
      /\ UNCHANGED <<host, applied>>
  BY <1>0, Moved DEF ReadHost
<1>2. /\ data' \in [Handles -> Seq(Units)] /\ fed' \in [Handles -> Nat] /\ len' \in [Handles -> Nat]
      /\ UNCHANGED <<entry, arg, err, served, total>>
      /\ fed'[h] = fed[h] + n /\ len'[h] = n /\ fed[h] + n <= total[h]
      /\ Len(data'[h]) <= BufSize
      /\ Filled(h)'
  BY <1>0, ReadFills DEF ReadHost
<1>3. Typed'
  BY <1>0, <1>1, <1>2 DEF Typed, Goto, PCs
<1>4. Sized(h)'
  BY <1>0, <1>2 DEF Sized, Begins
<1>5. Owned(h)'
  BY <1>0, <1>1, <1>2 DEF Owned
<1>6. Kept(h)'
  BY <1>0, <1>2 DEF Kept, Begins, InHeader, InRcpFw, Finished
<1>7. Placed(h)'
  BY <1>1 DEF Placed
<1>8. Hosted(h)'
  <2>1. wrote[h] = fed[h] - RcpSize /\ HostHas(wrote[h], h) /\ HostSize > 0 /\ Finished(h)
    BY <1>0, <1>1 DEF Hosted
  <2>2. fed[h] \in Nat /\ fed[h] = fed'[h] - len'[h]
    BY <1>0, <1>2, Fields
  <2>3. HostHas(wrote[h], h)' /\ Finished(h)' /\ wrote'[h] = wrote[h]
    BY <1>1, <1>2, <2>1 DEF HostHas, Finished
  <2>4. wrote[h] <= HostSize
    BY <1>0 DEF Hosted
  <2>5. wrote'[h] = fed'[h] - len'[h] - RcpSize
    BY <2>1, <2>2, <2>3
  <2>6. QED
    BY <1>1, <1>2, <2>1, <2>3, <2>4, <2>5 DEF Hosted
<1>9. QED
  BY <1>3, <1>4, <1>5, <1>6, <1>7, <1>8, Enough

HIDE DEF otaVars, env, host, Works

-----------------------------------------------------------------------------
(* The calls of the receiver.                                              *)

LEMMA ArgCalled ==
  ASSUME Typed, NEW h \in Handles, NEW n \in Nat,
         arg' = [arg EXCEPT ![h] = [busy |-> TRUE, cur |-> 0, size |-> n]]
  PROVE  /\ arg' \in [Handles -> Args]
         /\ arg'[h].busy /\ arg'[h].cur = 0 /\ arg'[h].size = n
BY DEF Typed, Args

LEMMA ArgReturned ==
  ASSUME Typed, NEW h \in Handles, arg' = [arg EXCEPT ![h].busy = FALSE]
  PROVE  /\ arg' \in [Handles -> Args]
         /\ ~arg'[h].busy /\ arg'[h].cur = arg[h].cur /\ arg'[h].size = arg[h].size
BY DEF Typed, Args

LEMMA ArgAdvanced ==
  ASSUME Typed, NEW h \in Handles, NEW n \in 0..arg[h].size, Advance(h, n)
  PROVE  /\ arg' \in [Handles -> Args]
         /\ arg'[h].busy = arg[h].busy
         /\ arg'[h].cur = arg[h].cur + n /\ arg'[h].size = arg[h].size - n
         /\ arg'[h].cur + arg'[h].size = arg[h].cur + arg[h].size
<1>1. arg \in [Handles -> Args] /\ arg[h].cur \in Nat /\ arg[h].size \in Nat /\ arg[h].busy \in BOOLEAN
  BY Fields DEF Typed
<1>2. arg[h].cur + n \in Nat /\ arg[h].size - n \in Nat /\ n \in Int
  BY <1>1
<1>3. /\ arg' \in [Handles -> Args]
      /\ arg'[h].busy = arg[h].busy
      /\ arg'[h].cur = arg[h].cur + n /\ arg'[h].size = arg[h].size - n
  BY <1>1, <1>2 DEF Advance, Args
<1>4. QED
  BY <1>1, <1>2, <1>3

LEMMA ArgDropped ==
  ASSUME Typed, NEW h \in Handles, arg' = [arg EXCEPT ![h] = NoCall]
  PROVE  /\ arg' \in [Handles -> Args]
         /\ ~arg'[h].busy /\ arg'[h].cur = 0 /\ arg'[h].size = 0
BY EntryTypes DEF Typed, NoCall

USE DEF otaVars, env, host, Works, httpVars

LEMMA CallReceiveKeeps ==
  ASSUME OneHandle, OtaInv, NEW h \in Handles, CallReceive(h)
  PROVE  OtaInv'
<1>0. Typed /\ Works(h)
  BY DEF OtaInv
<1>1. /\ pc[h] = "receive" /\ Goto(h, "receiving") /\ pc'[h] = "receiving"
      /\ entry[h] # NoEntry
      /\ UNCHANGED <<entry, data, err, served, total, fed, len, wrote, part, boot, applied>>
      /\ arg' = [arg EXCEPT ![h] = [busy |-> TRUE, cur |-> 0, size |-> len[h]]]
  BY <1>0, Moved DEF CallReceive, Receive
<1>2. len[h] \in Nat /\ fed[h] \in Nat
  BY <1>0, Fields
<1>3. /\ arg' \in [Handles -> Args]
      /\ arg'[h].busy /\ arg'[h].cur = 0 /\ arg'[h].size = len[h]
  BY <1>0, <1>1, <1>2, ArgCalled
<1>4. Typed'
  BY <1>0, <1>1, <1>3 DEF Typed, Goto, PCs
<1>5. Sized(h)'
  BY <1>0, <1>1, <1>2, <1>3 DEF Sized, Begins
<1>6. Owned(h)'
  BY <1>0, <1>1, <1>3 DEF Owned
<1>7. Kept(h)'
  BY <1>0, <1>1 DEF Kept, Begins, InHeader, InRcpFw, Finished
<1>8. Placed(h)'
  <2>1. (InHeader(h) \/ InRcpFw(h)) /\ Filled(h) /\ Taken(h) = fed[h] - len[h] /\ wrote[h] = 0
    BY <1>0, <1>1 DEF Placed
  <2>2. 0 + len[h] = len[h]
    BY <1>2
  <2>3. QED
    BY <1>1, <1>3, <2>1, <2>2 DEF Placed, Taken, InHeader, InRcpFw, Filled
<1>9. Hosted(h)'
  BY <1>0, <1>1 DEF Hosted
<1>10. QED
  BY <1>4, <1>5, <1>6, <1>7, <1>8, <1>9, Enough

LEMMA ReturnsKeeps ==
  ASSUME OneHandle, OtaInv, NEW h \in Handles, pc[h] = "receiving", ReceiveReturns(h), UNCHANGED httpVars
  PROVE  OtaInv'
<1>0. Typed /\ Works(h)
  BY DEF OtaInv
<1>1. /\ arg[h].size = 0 \/ Finished(h)
      /\ UNCHANGED <<entry, data, err, pc, served, total, fed, len, wrote, part, boot, applied>>
      /\ arg' = [arg EXCEPT ![h].busy = FALSE]
  BY DEF ReceiveReturns
<1>2. /\ arg' \in [Handles -> Args]
      /\ ~arg'[h].busy /\ arg'[h].cur = arg[h].cur /\ arg'[h].size = arg[h].size
  BY <1>0, <1>1, ArgReturned
<1>3. Typed'
  BY <1>0, <1>1, <1>2 DEF Typed
<1>4. Sized(h)'
  BY <1>0, <1>1, <1>2 DEF Sized, Begins
<1>5. Owned(h)'
  BY <1>0, <1>1, <1>2 DEF Owned
<1>6. Kept(h)'
  BY <1>0, <1>1 DEF Kept, Begins, InHeader, InRcpFw, Finished
<1>7. Placed(h)'
  BY <1>0, <1>1, <1>2 DEF Placed, Taken, InHeader, InRcpFw, Filled, Finished
<1>8. Hosted(h)'
  BY <1>0, <1>1 DEF Hosted
<1>9. QED
  BY <1>3, <1>4, <1>5, <1>6, <1>7, <1>8, Enough

\* A call that fails: the entry keeps its state, and what is in the file is
\* still a part of the image.
LEMMA FailKeeps ==
  ASSUME OneHandle, OtaInv, NEW h \in Handles, pc[h] = "receiving", UNCHANGED httpVars,
         Fail(h), UNCHANGED data, entry' \in [Handles -> Entries],
         entry'[h].state = entry[h].state, entry[h].state # "INVALID",
         Len(entry'[h].header) <= HeaderSize,
         Begins(entry'[h].file, Image(h)), Len(entry'[h].file) <= RcpSize
  PROVE  OtaInv'
<1>0. Typed /\ Works(h)
  BY DEF OtaInv
<1>1. /\ UNCHANGED <<data, pc, served, total, fed, len, wrote, part, boot, applied>>
      /\ arg' = [arg EXCEPT ![h] = NoCall]
      /\ err' = [err EXCEPT ![h] = TRUE] /\ err'[h]
  BY <1>0 DEF Fail, Typed
<1>2. /\ arg' \in [Handles -> Args]
      /\ ~arg'[h].busy /\ arg'[h].cur = 0 /\ arg'[h].size = 0
  BY <1>0, <1>1, ArgDropped
<1>3. Typed'
  BY <1>0, <1>1, <1>2 DEF Typed
<1>4. Sized(h)'
  BY <1>0, <1>1, <1>2, Sizes DEF Sized
<1>5. entry'[h] # NoEntry
  BY DEF NoEntry
<1>6. Owned(h)'
  BY <1>0, <1>1, <1>2, <1>5 DEF Owned
<1>7. Kept(h)'
  BY <1>1 DEF Kept
<1>8. Placed(h)'
  BY <1>0, <1>1 DEF Placed
<1>9. Hosted(h)'
  BY <1>0, <1>1 DEF Hosted
<1>10. QED
  BY <1>3, <1>4, <1>6, <1>7, <1>8, <1>9, Enough

HIDE DEF otaVars, env, host, Works, httpVars

LEMMA Leasts ==
  ASSUME NEW a \in Nat, NEW b \in Nat
  PROVE  /\ Least(a, b) \in Nat /\ Least(a, b) <= a /\ Least(a, b) <= b
         /\ Least(a, b) \in {a, b}
BY DEF Least

\* What receive_header takes: no more than there is, and never beyond the header.
LEMMA InfoTaken ==
  ASSUME Typed, NEW h \in Handles, Len(entry[h].header) <= HeaderSize
  PROVE  /\ ReadInfo(h) \in 0..arg[h].size
         /\ entry[h].header_size > 0 => ReadInfo(h) = 0
         /\ Len(entry[h].header) + ReadInfo(h) <= HeaderSize
<1>1. /\ Len(entry[h].header) \in Nat /\ arg[h].size \in Nat
      /\ entry[h].header_size \in {0, HeaderSize} /\ HeaderSize \in Nat
      /\ InfoSize \in Nat /\ InfoSize <= HeaderSize
  BY Fields, Sizes
<1>2. CASE entry[h].header_size = 0 /\ Len(entry[h].header) < InfoSize
  <2>1. ReadInfo(h) = Least(arg[h].size, InfoSize - Len(entry[h].header))
    BY <1>2 DEF ReadInfo
  <2>2. InfoSize - Len(entry[h].header) \in Nat
    BY <1>1, <1>2
  <2>3. /\ Least(arg[h].size, InfoSize - Len(entry[h].header)) \in Nat
        /\ Least(arg[h].size, InfoSize - Len(entry[h].header)) <= arg[h].size
        /\ Least(arg[h].size, InfoSize - Len(entry[h].header)) <= InfoSize - Len(entry[h].header)
    BY <1>1, <2>2, Leasts
  <2>4. QED
    BY <1>1, <1>2, <2>1, <2>3
<1>3. CASE ~(entry[h].header_size = 0 /\ Len(entry[h].header) < InfoSize)
  <2>1. ReadInfo(h) = 0
    BY <1>3 DEF ReadInfo
  <2>2. QED
    BY <1>1, <2>1
<1>4. QED
  BY <1>2, <1>3

LEMMA RestTaken ==
  ASSUME Typed, NEW h \in Handles, Len(entry[h].header) <= HeaderSize, NEW sz \in {0, HeaderSize}
  PROVE  /\ ReadInfo(h) + ReadRest(h, sz) \in 0..arg[h].size
         /\ Len(entry[h].header) + (ReadInfo(h) + ReadRest(h, sz)) <= HeaderSize
         /\ sz = 0 => ReadRest(h, sz) = 0
<1>1. /\ Len(entry[h].header) \in Nat /\ arg[h].size \in Nat /\ HeaderSize \in Nat
      /\ ReadInfo(h) \in 0..arg[h].size
      /\ Len(entry[h].header) + ReadInfo(h) <= HeaderSize
  BY Fields, Sizes, InfoTaken
<1> DEFINE got == Len(entry[h].header) + ReadInfo(h)
<1>2. CASE sz > 0 /\ got < sz
  <2>1. ReadRest(h, sz) = Least(arg[h].size - ReadInfo(h), sz - got)
    BY <1>2 DEF ReadRest
  <2>2. arg[h].size - ReadInfo(h) \in Nat /\ sz - got \in Nat /\ sz = HeaderSize
    BY <1>1, <1>2, SMTT(30)
  <2>3. /\ Least(arg[h].size - ReadInfo(h), sz - got) \in Nat
        /\ Least(arg[h].size - ReadInfo(h), sz - got) <= arg[h].size - ReadInfo(h)
        /\ Least(arg[h].size - ReadInfo(h), sz - got) <= sz - got
    BY <2>2, Leasts
  <2>4. QED
    BY <1>1, <1>2, <2>1, <2>2, <2>3, SMTT(30)
<1>3. CASE ~(sz > 0 /\ got < sz)
  <2>1. ReadRest(h, sz) = 0
    BY <1>3 DEF ReadRest
  <2>2. QED
    BY <1>1, <2>1
<1>4. QED
  BY <1>2, <1>3

\* Only an image begins with an info.
LEMMA Recognized ==
  ASSUME Typed, NEW h \in Handles, Sized(h), NEW s, Begins(s, served[h]), Len(s) >= InfoSize, IsInfo(s)
  PROVE  served[h] = Image(h)
<1>1. SUFFICES ASSUME served[h] = Junk(h)
               PROVE  FALSE
  BY DEF Sized
<1>2. 1 \in 1..InfoSize /\ 1 \in 1..Len(s) /\ 1 \in 1..ImageSize
  <2>1. Len(s) \in Nat
    BY LenProperties DEF Begins
  <2>2. QED
    BY <2>1, Sizes
<1>3. s[1] = <<h, 0>>
  BY <1>1, <1>2, Images DEF Begins
<1>4. s[1][2] = 1
  BY <1>2 DEF IsInfo
<1>5. QED
  BY <1>3, <1>4

USE DEF otaVars, env, host, Works, httpVars

\* A call in progress reads on where the body was left.
LEMMA Receiving2 ==
  ASSUME Typed, NEW h \in Handles, Works(h), pc[h] = "receiving", Looping(h)
  PROVE  /\ ~err[h] /\ Filled(h) /\ arg[h].cur + arg[h].size = len[h]
         /\ Taken(h) = fed[h] - arg[h].size
BY DEF Looping, Owned, Placed

\* What the call takes extends what has been taken before.
LEMMA Taking ==
  ASSUME Typed, NEW h \in Handles, Filled(h), arg[h].cur + arg[h].size = len[h],
         NEW n \in 0..arg[h].size,
         NEW s, Begins(s, served[h]), Len(s) = fed[h] - arg[h].size
  PROVE  Begins(s \o Piece(h, n), served[h]) /\ Len(s \o Piece(h, n)) = Len(s) + n
<1> DEFINE b == served[h]
           c == Piece(h, n)
<1>1. c \in Seq(Units) /\ Len(c) = n /\ \A i \in 1..n : c[i] = b[fed[h] - arg[h].size + i]
  BY Pieces
<1>2. Begins(s, b)
  OBVIOUS
<1> HIDE DEF b, c
<1>3. \A i \in 1..Len(c) : c[i] = b[Len(s) + i]
  BY <1>1
<1>4. Begins(s \o c, b) /\ Len(s \o c) = Len(s) + Len(c)
  BY <1>1, <1>2, <1>3, Extends, ZenonT(40)
<1>5. QED
  BY <1>1, <1>4 DEF b, c

LEMMA ReceiveHeaderKeeps ==
  ASSUME OneHandle, OtaInv, NEW h \in Handles, pc[h] = "receiving", ReceiveHeader(h), UNCHANGED httpVars
  PROVE  OtaInv'
<1>0. Typed /\ Works(h)
  BY DEF OtaInv
<1>1. Looping(h) /\ InHeader(h)
  BY DEF ReceiveHeader
<1>2. /\ ~err[h] /\ Filled(h) /\ arg[h].cur + arg[h].size = len[h]
      /\ Len(entry[h].header) = fed[h] - arg[h].size
  BY <1>0, <1>1, Receiving2 DEF Taken
<1>3. /\ Begins(entry[h].header, served[h]) /\ entry[h].file = <<>>
      /\ entry[h].header_size = 0 => Len(entry[h].header) < InfoSize
      /\ entry[h].header_size > 0 => served[h] = Image(h)
      /\ Len(entry[h].header) <= HeaderSize
  BY <1>0, <1>1, <1>2 DEF Kept, Sized
<1>4. /\ Len(entry[h].header) \in Nat /\ arg[h].size \in Nat /\ fed[h] \in Nat
      /\ entry[h].header_size \in {0, HeaderSize} /\ HeaderSize \in Nat /\ HeaderSize > 0
  BY <1>0, Fields, Sizes
<1> DEFINE a     == Len(entry[h].header)
           info  == entry[h].header \o Piece(h, ReadInfo(h))
           known == entry[h].header_size > 0
           read  == ~known /\ Len(info) >= InfoSize
           size  == IF known THEN entry[h].header_size ELSE IF read THEN HeaderSize ELSE 0
           n     == ReadInfo(h) + ReadRest(h, size)
           got   == entry[h].header \o Piece(h, n)
           done  == size > 0 /\ Len(got) >= size
           st    == IF done THEN "DOWNLOAD_RCP_FW" ELSE "READ_HEADER"
<1>5. /\ read => IsInfo(info)
      /\ entry' = [entry EXCEPT ![h].header = got, ![h].header_size = size, ![h].state = st]
      /\ Advance(h, n)
      /\ UNCHANGED <<data, err, pc, served, total, fed, len, wrote, part, boot, applied>>
  <2>1. entry[h].state = "READ_HEADER"
    BY <1>1 DEF InHeader
  <2>2. QED
    BY <1>0, <2>1 DEF ReceiveHeader, Typed, Entries
<1>6. size \in {0, HeaderSize}
  BY <1>4
<1>7. ReadInfo(h) \in 0..arg[h].size
  BY <1>0, <1>3, InfoTaken
<1>8. /\ n \in 0..arg[h].size /\ a + n <= HeaderSize
      /\ size = 0 => ReadRest(h, size) = 0
  BY <1>0, <1>3, <1>6, RestTaken
<1>10. Begins(info, served[h]) /\ Len(info) = a + ReadInfo(h)
  BY <1>0, <1>2, <1>3, <1>7, Taking
<1> HIDE DEF n
<1>12. Begins(got, served[h]) /\ Len(got) = a + n
  BY <1>0, <1>2, <1>3, <1>8, Taking
<1>13. size > 0 => served[h] = Image(h)
  <2>1. CASE known
    BY <1>3, <2>1
  <2>2. CASE read
    BY <1>0, <1>5, <1>10, <2>2, Recognized
  <2>3. CASE ~known /\ ~read
    BY <2>3
  <2>4. QED
    BY <2>1, <2>2, <2>3
<1>14. size = 0 => Len(got) < InfoSize
  <2>1. SUFFICES ASSUME size = 0
                 PROVE  Len(got) < InfoSize
    OBVIOUS
  <2>2. ~known /\ ~read
    BY <1>4, <2>1
  <2>3. n = ReadInfo(h)
    BY <1>7, <1>8, <2>1 DEF n
  <2>4. InfoSize \in Nat /\ a + n \in Nat
    BY <1>4, <1>8, Sizes
  <2>5. QED
    BY <1>10, <1>12, <2>2, <2>3, <2>4
<1> HIDE DEF info, known, read, size, got
<1>15. got \in Seq(Units) /\ st \in States
  BY <1>12 DEF Begins, States
<1>16. /\ entry' \in [Handles -> Entries]
       /\ entry'[h].header = got /\ entry'[h].header_size = size /\ entry'[h].state = st
       /\ entry'[h].file = <<>>
  <2> HIDE DEF st
  <2>1. QED
    BY <1>0, <1>3, <1>5, <1>6, <1>15 DEF Typed, Entries
<1>17. /\ arg' \in [Handles -> Args] /\ arg'[h].busy = arg[h].busy
       /\ arg'[h].size = arg[h].size - n
       /\ arg'[h].cur + arg'[h].size = arg[h].cur + arg[h].size
  BY <1>0, <1>5, <1>8, ArgAdvanced
<1>18. Typed'
  BY <1>0, <1>5, <1>16, <1>17 DEF Typed
<1>19. Sized(h)'
  <2>1. Begins(entry'[h].file, Image(h)) /\ Len(entry'[h].file) <= RcpSize
    <3>1. entry'[h].file = entry[h].file
      BY <1>3, <1>16
    <3>2. QED
      BY <1>0, <3>1 DEF Sized
  <2>2. QED
    BY <1>0, <1>5, <1>8, <1>12, <1>16, <1>17, <2>1 DEF Sized
<1>20. Owned(h)'
  <2>1. entry'[h] # NoEntry /\ entry'[h].state # "INVALID"
    BY <1>16 DEF NoEntry
  <2>2. QED
    BY <1>0, <1>2, <1>5, <1>17, <2>1 DEF Owned
<1>21. Len(got) \in Nat /\ Len(got) <= HeaderSize
  BY <1>4, <1>8, <1>12
<1>22. Kept(h)'
  <2>1. CASE done
    <3>1. Len(got) = HeaderSize
      BY <1>4, <1>6, <1>21, <2>1
    <3>2. QED
      BY <1>5, <1>12, <1>13, <1>16, <2>1, <3>1 DEF Kept, InHeader, InRcpFw, Finished
  <2>2. CASE ~done
    <3>1. size > 0 => Len(got) < HeaderSize
      BY <1>4, <1>6, <1>21, <2>2
    <3>2. QED
      BY <1>5, <1>12, <1>13, <1>14, <1>16, <2>2, <3>1 DEF Kept, InHeader, InRcpFw, Finished
  <2>3. QED
    BY <2>1, <2>2
<1>23. Placed(h)'
  <2>1. Taken(h)' = Len(got)
    <3>1. CASE done
      <4>1. Len(got) = HeaderSize
        BY <1>4, <1>6, <1>21, <3>1
      <4>2. QED
        BY <1>16, <3>1, <4>1 DEF Taken, InHeader
    <3>2. CASE ~done
      BY <1>16, <3>2 DEF Taken, InHeader
    <3>3. QED
      BY <3>1, <3>2
  <2>2. Len(got) = fed[h] - (arg[h].size - n)
    BY <1>2, <1>4, <1>8, <1>12
  <2>3. wrote[h] = 0 /\ arg[h].busy
    BY <1>0, <1>1 DEF Placed, Looping
  <2>4. QED
    BY <1>2, <1>5, <1>17, <2>1, <2>2, <2>3 DEF Placed, Filled
<1>24. Hosted(h)'
  BY <1>0, <1>5 DEF Hosted
<1>25. QED
  BY <1>18, <1>19, <1>20, <1>22, <1>23, <1>24, Enough

LEMMA RejectHeaderKeeps ==
  ASSUME OneHandle, OtaInv, NEW h \in Handles, pc[h] = "receiving", RejectHeader(h), UNCHANGED httpVars
  PROVE  OtaInv'
<1>0. Typed /\ Works(h)
  BY DEF OtaInv
<1> DEFINE info == entry[h].header \o Piece(h, ReadInfo(h))
<1>1. /\ Looping(h) /\ InHeader(h)
      /\ entry' = [entry EXCEPT ![h].header = info]
      /\ Fail(h) /\ UNCHANGED data
  BY DEF RejectHeader
<1>2. /\ ~err[h] /\ Filled(h) /\ arg[h].cur + arg[h].size = len[h]
      /\ Len(entry[h].header) = fed[h] - arg[h].size
  BY <1>0, <1>1, Receiving2 DEF Taken
<1>3. /\ Begins(entry[h].header, served[h]) /\ Len(entry[h].header) <= HeaderSize
  BY <1>0, <1>1, <1>2 DEF Kept, Sized
<1>4. /\ ReadInfo(h) \in 0..arg[h].size
      /\ Len(entry[h].header) + ReadInfo(h) <= HeaderSize
  BY <1>0, <1>3, InfoTaken
<1>6. Begins(info, served[h]) /\ Len(info) <= HeaderSize
  BY <1>0, <1>2, <1>3, <1>4, Taking
<1>7. info \in Seq(Units)
  BY <1>6 DEF Begins
<1> HIDE DEF info
<1>8. /\ entry' \in [Handles -> Entries]
      /\ entry'[h].header = info /\ entry'[h].file = entry[h].file /\ entry'[h].state = entry[h].state
  BY <1>0, <1>1, <1>7 DEF Typed, Entries
<1>9. /\ Begins(entry'[h].file, Image(h)) /\ Len(entry'[h].file) <= RcpSize
      /\ entry[h].state # "INVALID"
  BY <1>0, <1>1, <1>8 DEF Sized, InHeader
<1>10. QED
  BY <1>1, <1>6, <1>8, <1>9, FailKeeps

HIDE DEF otaVars, env, host, Works, httpVars

USE DEF otaVars, env, host, Works, httpVars

\* What the file will begin with: the header, or what it has already.
Before(h) == IF entry[h].file = <<>> THEN entry[h].header ELSE entry[h].file
Room(h)   == Least(arg[h].size, RcpSize - Len(Before(h)))

LEMMA Written ==
  ASSUME Typed, NEW h \in Handles, Works(h), pc[h] = "receiving", Looping(h), InRcpFw(h)
  PROVE  /\ served[h] = Image(h) /\ Filled(h) /\ arg[h].cur + arg[h].size = len[h]
         /\ Begins(Before(h), served[h])
         /\ Len(Before(h)) \in Nat /\ Len(Before(h)) = fed[h] - arg[h].size
         /\ HeaderSize <= Len(Before(h)) /\ Len(Before(h)) <= RcpSize
         /\ Len(entry[h].file) <= Len(Before(h))
         /\ Room(h) \in 0..arg[h].size /\ Len(Before(h)) + Room(h) <= RcpSize
         /\ Room(h) = arg[h].size \/ Len(Before(h)) + Room(h) = RcpSize
         /\ ~err[h]
<1>1. /\ ~err[h] /\ Filled(h) /\ arg[h].cur + arg[h].size = len[h]
      /\ Taken(h) = fed[h] - arg[h].size
  BY Receiving2
<1>2. /\ Begins(entry[h].header, served[h]) /\ Len(entry[h].header) = HeaderSize
      /\ served[h] = Image(h)
      /\ entry[h].file # <<>> => /\ HeaderSize <= Len(entry[h].file)
                                 /\ Len(entry[h].file) < RcpSize
      /\ Begins(entry[h].file, Image(h))
  BY <1>1 DEF Kept, Sized
<1>3. /\ Len(entry[h].header) \in Nat /\ Len(entry[h].file) \in Nat /\ arg[h].size \in Nat
      /\ HeaderSize \in Nat /\ RcpSize \in Nat /\ HeaderSize <= RcpSize
  BY Fields, Sizes
<1>4. /\ Begins(Before(h), served[h]) /\ Len(Before(h)) \in Nat /\ Len(Before(h)) = Taken(h)
      /\ HeaderSize <= Len(Before(h)) /\ Len(Before(h)) <= RcpSize
      /\ Len(entry[h].file) <= Len(Before(h))
  <2>1. CASE entry[h].file = <<>>
    <3>1. Len(entry[h].file) = 0
      BY <2>1, EmptySeq
    <3>2. Before(h) = entry[h].header /\ Taken(h) = HeaderSize
      BY <2>1 DEF Before, Taken, InRcpFw, InHeader
    <3>3. QED
      BY <1>2, <1>3, <3>1, <3>2
  <2>2. CASE entry[h].file # <<>>
    <3>1. Before(h) = entry[h].file /\ Taken(h) = Len(entry[h].file)
      BY <2>2 DEF Before, Taken, InRcpFw, InHeader
    <3>2. QED
      BY <1>2, <1>3, <2>2, <3>1
  <2>3. QED
    BY <2>1, <2>2
<1>5. RcpSize - Len(Before(h)) \in Nat
  BY <1>3, <1>4
<1>6. /\ Room(h) \in Nat /\ Room(h) <= arg[h].size /\ Room(h) <= RcpSize - Len(Before(h))
      /\ Room(h) = arg[h].size \/ Room(h) = RcpSize - Len(Before(h))
  BY <1>3, <1>5, Leasts DEF Room
<1>7. /\ Room(h) \in 0..arg[h].size /\ Len(Before(h)) + Room(h) <= RcpSize
      /\ Room(h) = arg[h].size \/ Len(Before(h)) + Room(h) = RcpSize
  BY <1>3, <1>4, <1>6
<1>8. QED
  BY <1>1, <1>2, <1>4, <1>7

LEMMA ReceiveRcpFwKeeps ==
  ASSUME OneHandle, OtaInv, NEW h \in Handles, pc[h] = "receiving", ReceiveRcpFw(h), UNCHANGED httpVars
  PROVE  OtaInv'
<1>0. Typed /\ Works(h)
  BY DEF OtaInv
<1> DEFINE n    == Room(h)
           f    == Before(h) \o Piece(h, n)
           done == Len(Before(h)) + n >= RcpSize
           st   == IF done THEN "FINISHED" ELSE "DOWNLOAD_RCP_FW"
<1>1. Looping(h) /\ InRcpFw(h)
  BY DEF ReceiveRcpFw
<1>2. /\ entry' = [entry EXCEPT ![h].file = f, ![h].state = st]
      /\ Advance(h, n)
      /\ UNCHANGED <<data, err, pc, served, total, fed, len, wrote, part, boot, applied>>
  <2>1. entry[h].state = "DOWNLOAD_RCP_FW"
    BY <1>1 DEF InRcpFw
  <2>2. QED
    BY <1>0, <2>1 DEF ReceiveRcpFw, Before, Room, Typed, Entries
<1>3. /\ served[h] = Image(h) /\ Filled(h) /\ arg[h].cur + arg[h].size = len[h]
      /\ Begins(Before(h), served[h])
      /\ Len(Before(h)) \in Nat /\ Len(Before(h)) = fed[h] - arg[h].size
      /\ HeaderSize <= Len(Before(h)) /\ Len(Before(h)) <= RcpSize
      /\ n \in 0..arg[h].size /\ Len(Before(h)) + n <= RcpSize
      /\ n = arg[h].size \/ Len(Before(h)) + n = RcpSize
      /\ ~err[h]
  BY <1>0, <1>1, Written
<1> HIDE DEF n
<1>4. Begins(f, Image(h)) /\ Len(f) = Len(Before(h)) + n
  BY <1>0, <1>3, Taking
<1>5. f \in Seq(Units) /\ st \in States
  BY <1>4 DEF Begins, States
<1>6. arg[h].size \in Nat /\ fed[h] \in Nat /\ HeaderSize \in Nat /\ HeaderSize > 0 /\ RcpSize \in Nat
  BY <1>0, Fields, Sizes
<1>7. Len(f) \in Nat /\ Len(f) <= RcpSize /\ HeaderSize <= Len(f) /\ f # <<>>
  <2>1. Len(f) \in Nat /\ Len(f) <= RcpSize /\ HeaderSize <= Len(f)
    BY <1>3, <1>4, <1>6
  <2>2. QED
    BY <1>6, <2>1, EmptySeq
<1>8. /\ done => Len(f) = RcpSize
      /\ ~done => Len(f) < RcpSize
  BY <1>3, <1>4, <1>6, <1>7
<1> HIDE DEF f
<1>9. /\ entry' \in [Handles -> Entries]
      /\ entry'[h].file = f /\ entry'[h].state = st /\ entry'[h].header = entry[h].header
  <2> HIDE DEF st
  <2>1. QED
    BY <1>0, <1>2, <1>5 DEF Typed, Entries
<1>10. /\ arg' \in [Handles -> Args] /\ arg'[h].busy = arg[h].busy
       /\ arg'[h].size = arg[h].size - n
       /\ arg'[h].cur + arg'[h].size = arg[h].cur + arg[h].size
  BY <1>0, <1>2, <1>3, ArgAdvanced
<1>11. Typed'
  BY <1>0, <1>2, <1>9, <1>10 DEF Typed
<1>12. Sized(h)'
  BY <1>0, <1>2, <1>4, <1>7, <1>9, <1>10 DEF Sized
<1>13. Owned(h)'
  <2>1. entry'[h] # NoEntry /\ entry'[h].state # "INVALID"
    BY <1>9 DEF NoEntry
  <2>2. QED
    BY <1>0, <1>2, <1>3, <1>10, <2>1 DEF Owned
<1>14. Kept(h)'
  <2>1. Begins(entry[h].header, served[h]) /\ Len(entry[h].header) = HeaderSize
    BY <1>0, <1>1, <1>3 DEF Kept
  <2>2. CASE done
    BY <1>2, <1>3, <1>8, <1>9, <2>2 DEF Kept, InHeader, InRcpFw, Finished
  <2>3. CASE ~done
    BY <1>2, <1>3, <1>7, <1>8, <1>9, <2>1, <2>3 DEF Kept, InHeader, InRcpFw, Finished
  <2>4. QED
    BY <2>2, <2>3
<1>15. Placed(h)'
  <2>1. Taken(h)' = Len(f)
    BY <1>7, <1>9 DEF Taken, InHeader
  <2>2. Len(f) = fed[h] - (arg[h].size - n)
    BY <1>3, <1>4, <1>6
  <2>3. wrote[h] = 0 /\ arg[h].busy
    BY <1>0, <1>1 DEF Placed, Looping
  <2>4. QED
    BY <1>2, <1>3, <1>10, <2>1, <2>2, <2>3 DEF Placed, Filled
<1>16. Hosted(h)'
  BY <1>0, <1>2 DEF Hosted
<1>17. QED
  BY <1>11, <1>12, <1>13, <1>14, <1>15, <1>16, Enough

LEMMA WriteFailsKeeps ==
  ASSUME OneHandle, OtaInv, NEW h \in Handles, pc[h] = "receiving", WriteFails(h), UNCHANGED httpVars
  PROVE  OtaInv'
<1>0. Typed /\ Works(h)
  BY DEF OtaInv
<1> DEFINE n == Room(h)
           f == Before(h) \o Piece(h, n)
<1>1. Looping(h) /\ InRcpFw(h) /\ Fail(h) /\ UNCHANGED data
  BY DEF WriteFails
<1>2. PICK end \in Len(entry[h].file)..(Len(Before(h)) + n) :
        entry' = [entry EXCEPT ![h].file = SubSeq(f, 1, end)]
  BY DEF WriteFails, Before, Room
<1>3. /\ served[h] = Image(h) /\ Filled(h) /\ arg[h].cur + arg[h].size = len[h]
      /\ Begins(Before(h), served[h])
      /\ Len(Before(h)) \in Nat /\ Len(Before(h)) = fed[h] - arg[h].size
      /\ n \in 0..arg[h].size /\ Len(Before(h)) + n <= RcpSize
  BY <1>0, <1>1, Written
<1> HIDE DEF n
<1>4. Begins(f, Image(h)) /\ Len(f) = Len(Before(h)) + n
  BY <1>0, <1>3, Taking
<1> HIDE DEF f
<1>5. Len(entry[h].file) \in Nat /\ RcpSize \in Nat /\ arg[h].size \in Nat
  BY <1>0, Fields, Sizes
<1>6. end \in 0..Len(f) /\ end <= RcpSize
  BY <1>3, <1>4, <1>5
<1>7. Begins(SubSeq(f, 1, end), Image(h)) /\ Len(SubSeq(f, 1, end)) = end
  <2> DEFINE b == Image(h)
  <2>1. Begins(f, b)
    BY <1>4
  <2> HIDE DEF b
  <2>2. Begins(SubSeq(f, 1, end), b) /\ Len(SubSeq(f, 1, end)) = end
    BY <1>6, <2>1, Cut
  <2>3. QED
    BY <2>2 DEF b
<1>8. SubSeq(f, 1, end) \in Seq(Units)
  BY <1>7 DEF Begins
<1>9. /\ entry' \in [Handles -> Entries]
      /\ entry'[h].file = SubSeq(f, 1, end)
      /\ entry'[h].header = entry[h].header /\ entry'[h].state = entry[h].state
  BY <1>0, <1>2, <1>8 DEF Typed, Entries
<1>10. /\ Len(entry'[h].header) <= HeaderSize /\ entry[h].state # "INVALID"
       /\ Begins(entry'[h].file, Image(h)) /\ Len(entry'[h].file) <= RcpSize
  BY <1>0, <1>1, <1>6, <1>7, <1>9 DEF Sized, InRcpFw
<1>11. QED
  BY <1>1, <1>9, <1>10, FailKeeps

HIDE DEF otaVars, env, host, Works, httpVars

-----------------------------------------------------------------------------
(* The host partition.                                                     *)

\* What a write leaves in a partition p whose first w units were written.
Over(p, w, c) == SubSeq(p, 1, w) \o c \o SubSeq(p, w + Len(c) + 1, Len(p))

LEMMA OverHas ==
  ASSUME NEW p \in Seq(Stored), NEW w \in Nat, w <= Len(p), NEW c \in Seq(Units)
  PROVE  /\ Over(p, w, c) \in Seq(Stored)
         /\ w + Len(c) <= Len(Over(p, w, c))
         /\ \A i \in 1..w : Over(p, w, c)[i] = p[i]
         /\ \A i \in 1..Len(c) : Over(p, w, c)[w + i] = c[i]
<1>1. Len(p) \in Nat /\ Len(c) \in Nat
  BY LenProperties
<1>2. c \in Seq(Stored)
  BY SeqMonotonic DEF Stored
<1> DEFINE a == SubSeq(p, 1, w)
           r == SubSeq(p, w + Len(c) + 1, Len(p))
<1>3. a \in Seq(Stored) /\ Len(a) = w /\ \A i \in 1..w : a[i] = p[i]
  <2>1. /\ SubSeq(p, 0 + 1, 0 + w) \in Seq(Stored)
        /\ Len(SubSeq(p, 0 + 1, 0 + w)) = w
        /\ \A i \in 1..w : SubSeq(p, 0 + 1, 0 + w)[i] = p[0 + i]
    BY <1>1, Part
  <2>2. QED
    BY <2>1
<1>4. r \in Seq(Stored) /\ Len(r) \in Nat
  <2>1. w + Len(c) \in Nat
    BY <1>1
  <2>2. r \in Seq(Stored)
    BY <2>1, Rest
  <2>3. QED
    BY <2>2, LenProperties
<1>5. Over(p, w, c) = (a \o c) \o r
  BY DEF Over
<1> HIDE DEF a, r
<1>6. /\ a \o c \in Seq(Stored) /\ Len(a \o c) = w + Len(c)
      /\ \A i \in 1..w : (a \o c)[i] = a[i]
      /\ \A i \in 1..Len(c) : (a \o c)[w + i] = c[i]
  <2>1. /\ a \o c \in Seq(Stored) /\ Len(a \o c) = Len(a) + Len(c)
        /\ \A i \in 1..Len(a) : (a \o c)[i] = a[i]
        /\ \A i \in 1..Len(c) : (a \o c)[Len(a) + i] = c[i]
    <3>1. a \in Seq(Stored) /\ c \in Seq(Stored)
      BY <1>2, <1>3
    <3>2. QED
      BY ONLY <3>1, Joined
  <2>2. QED
    BY <1>3, <2>1
<1> DEFINE b == a \o c
<1>7. b \in Seq(Stored) /\ Len(b) = w + Len(c)
  BY <1>6
<1> HIDE DEF b
<1>8. /\ b \o r \in Seq(Stored) /\ Len(b \o r) = Len(b) + Len(r)
      /\ \A i \in 1..Len(b) : (b \o r)[i] = b[i]
  <2>1. b \in Seq(Stored) /\ r \in Seq(Stored)
    BY <1>4, <1>7
  <2>2. QED
    BY ONLY <2>1, Joined
<1>9. Over(p, w, c) = b \o r
  BY <1>5 DEF b
<1>10. \A i \in 1..w : i \in 1..Len(b)
  BY <1>1, <1>7
<1>11. \A i \in 1..Len(c) : w + i \in 1..Len(b)
  BY <1>1, <1>7
<1>12. \A i \in 1..w : (b \o r)[i] = p[i]
  BY <1>3, <1>6, <1>8, <1>10 DEF b
<1>13. \A i \in 1..Len(c) : (b \o r)[w + i] = c[i]
  BY <1>6, <1>8, <1>11 DEF b
<1>14. w + Len(c) <= Len(b \o r)
  BY <1>1, <1>4, <1>7, <1>8
<1>15. QED
  BY <1>8, <1>9, <1>12, <1>13, <1>14

LEMMA Writes ==
  ASSUME Typed, NEW h \in Handles, NEW c \in Seq(Units), Write(h, c), HostHas(wrote[h], h),
         wrote[h] + Len(c) <= HostSize,
         \A i \in 1..Len(c) : c[i] = Image(h)[RcpSize + wrote[h] + i]
  PROVE  /\ part' \in Seq(Stored) /\ wrote' \in [Handles -> Nat]
         /\ wrote'[h] = wrote[h] + Len(c)
         /\ HostHas(wrote[h], h)'
<1> DEFINE w == wrote[h]
           p == IF part = Old /\ c # <<>> THEN <<>> ELSE part
<1>0. w \in Nat /\ Len(c) \in Nat /\ part \in Seq(Stored) /\ HostSize \in Nat /\ RcpSize \in Nat
  BY Fields, LenProperties, Sizes DEF Typed
<1>1. p \in Seq(Stored) /\ w <= Len(p) /\ \A i \in 1..w : p[i] = Image(h)[RcpSize + i]
  <2>1. CASE part = Old /\ c # <<>>
    <3>1. w = 0
      BY <1>0, <2>1, Overwritten
    <3>2. p = <<>> /\ p \in Seq(Stored) /\ Len(p) = 0
      BY <2>1, EmptySeq
    <3>3. QED
      BY <3>1, <3>2
  <2>2. CASE ~(part = Old /\ c # <<>>)
    <3>1. p = part
      BY <2>2
    <3>2. QED
      BY <1>0, <3>1 DEF HostHas
  <2>3. QED
    BY <2>1, <2>2
<1>2. part' = Over(p, w, c) /\ wrote' = [wrote EXCEPT ![h] = w + Len(c)]
  BY DEF Write, Over
<1>3. wrote' \in [Handles -> Nat] /\ wrote'[h] = w + Len(c)
  BY <1>0, <1>2 DEF Typed
<1>a. \A i \in 1..Len(c) : c[i] = Image(h)[RcpSize + w + i]
  OBVIOUS
<1>b. w + Len(c) <= HostSize
  OBVIOUS
<1> HIDE DEF p, w
<1>4. /\ part' \in Seq(Stored) /\ w + Len(c) <= Len(part')
      /\ \A i \in 1..w : part'[i] = p[i]
      /\ \A i \in 1..Len(c) : part'[w + i] = c[i]
  BY <1>0, <1>1, <1>2, OverHas
<1>5. ASSUME NEW i \in 1..(w + Len(c))
      PROVE  part'[i] = Image(h)[RcpSize + i]
  <2>1. CASE i <= w
    BY <1>0, <1>1, <1>4, <2>1
  <2>2. CASE i > w
    <3>1. i - w \in 1..Len(c) /\ w + (i - w) = i /\ RcpSize + w + (i - w) = RcpSize + i
      BY <1>0, <2>2
    <3>2. part'[w + (i - w)] = c[i - w] /\ c[i - w] = Image(h)[RcpSize + w + (i - w)]
      BY <1>4, <1>a, <3>1
    <3>3. QED
      BY <3>1, <3>2
  <2>3. QED
    BY <1>0, <2>1, <2>2
<1>6. HostHas(wrote[h], h)'
  BY <1>3, <1>4, <1>5, <1>b DEF HostHas
<1>7. QED
  BY <1>3, <1>4, <1>6 DEF w

USE DEF otaVars, env, host, Works

LEMMA HostBeginKeeps ==
  ASSUME OneHandle, OtaInv, NEW h \in Handles, HostBegin(h)
  PROVE  OtaInv'
<1>0. Typed /\ Works(h)
  BY DEF OtaInv
<1> DEFINE c == Piece(h, arg[h].size)
<1>1. /\ pc[h] = "begin" /\ Goto(h, "host") /\ pc'[h] = "host"
      /\ Write(h, c)
      /\ UNCHANGED <<entry, data, arg, err, served, total, fed, len, boot, applied>>
  BY <1>0, Moved DEF HostBegin
<1>2. /\ Filled(h) /\ Finished(h) /\ HostSize > 0 /\ arg[h].cur + arg[h].size = len[h]
      /\ RcpSize = fed[h] - arg[h].size /\ wrote[h] = 0 /\ ~err[h]
  BY <1>0, <1>1 DEF Placed, Hosted, Owned
<1>3. /\ arg[h].size \in Nat /\ fed[h] \in Nat /\ total[h] \in 0..ImageSize
      /\ RcpSize \in Nat /\ ImageSize \in Nat /\ HostSize = ImageSize - RcpSize
  BY <1>0, Fields, Sizes
<1>4. served[h] = Image(h) /\ fed[h] <= total[h]
  BY <1>0, <1>2 DEF Kept, Sized
<1>5. /\ c \in Seq(Units) /\ Len(c) = arg[h].size
      /\ \A i \in 1..arg[h].size : c[i] = served[h][fed[h] - arg[h].size + i]
  <2>1. arg[h].size \in 0..arg[h].size
    BY <1>3
  <2>2. QED
    BY <1>0, <1>2, <2>1, Pieces
<1> HIDE DEF c
<1>6. wrote[h] + Len(c) <= HostSize
  BY <1>2, <1>3, <1>4, <1>5
<1>7. HostHas(wrote[h], h)
  <2>1. Len(part) \in Nat
    BY <1>0, LenProperties DEF Typed
  <2>2. 0 <= HostSize /\ 0 <= Len(part)
    BY <2>1, Sizes
  <2>3. \A i \in 1..0 : part[i] = Image(h)[RcpSize + i]
    OBVIOUS
  <2>4. QED
    BY <1>2, <2>2, <2>3 DEF HostHas
<1>8. \A i \in 1..Len(c) : c[i] = Image(h)[RcpSize + wrote[h] + i]
  <2>1. \A i \in 1..Len(c) : fed[h] - arg[h].size + i = RcpSize + wrote[h] + i
    BY <1>2, <1>3
  <2>2. QED
    BY <1>4, <1>5, <2>1
<1>9. /\ part' \in Seq(Stored) /\ wrote' \in [Handles -> Nat]
      /\ wrote'[h] = wrote[h] + Len(c)
      /\ HostHas(wrote[h], h)'
  BY <1>0, <1>1, <1>5, <1>6, <1>7, <1>8, Writes
<1>10. Typed'
  BY <1>0, <1>1, <1>9 DEF Typed, Goto, PCs
<1>11. Sized(h)'
  BY <1>0, <1>1 DEF Sized, Begins
<1>12. Owned(h)'
  BY <1>0, <1>1 DEF Owned
<1>13. Kept(h)'
  BY <1>0, <1>1 DEF Kept, Begins, InHeader, InRcpFw, Finished
<1>14. Placed(h)'
  BY <1>1 DEF Placed
<1>15. Hosted(h)'
  <2>1. wrote'[h] = fed[h] - RcpSize
    BY <1>2, <1>3, <1>5, <1>9
  <2>2. Finished(h)' /\ wrote'[h] <= HostSize
    BY <1>1, <1>2, <1>6, <1>9 DEF Finished
  <2>3. QED
    BY <1>1, <1>2, <1>9, <2>1, <2>2 DEF Hosted
<1>16. QED
  BY <1>10, <1>11, <1>12, <1>13, <1>14, <1>15, Enough

LEMMA HostWriteKeeps ==
  ASSUME OneHandle, OtaInv, NEW h \in Handles, HostWrite(h)
  PROVE  OtaInv'
<1>0. Typed /\ Works(h)
  BY DEF OtaInv
<1> DEFINE c == SubSeq(data[h], 1, len[h])
<1>1. /\ pc[h] = "write" /\ Goto(h, "host") /\ pc'[h] = "host"
      /\ Write(h, c)
      /\ UNCHANGED <<entry, data, arg, err, served, total, fed, len, boot, applied>>
  BY <1>0, Moved DEF HostWrite
<1>2. /\ Filled(h) /\ Finished(h) /\ HostSize > 0 /\ wrote[h] = fed[h] - len[h] - RcpSize
      /\ HostHas(wrote[h], h) /\ ~err[h]
  BY <1>0, <1>1 DEF Hosted, Owned
<1>3. /\ len[h] \in Nat /\ fed[h] \in Nat /\ wrote[h] \in Nat /\ total[h] \in 0..ImageSize
      /\ RcpSize \in Nat /\ ImageSize \in Nat /\ HostSize = ImageSize - RcpSize
  BY <1>0, Fields, Sizes
<1>4. served[h] = Image(h) /\ fed[h] <= total[h]
  BY <1>0, <1>2 DEF Kept, Sized
<1>5. /\ c \in Seq(Units) /\ Len(c) = len[h]
      /\ \A i \in 1..len[h] : c[i] = data[h][i]
  <2> DEFINE d == data[h]
             l == len[h]
  <2>1. d \in Seq(Units) /\ l \in Nat /\ 0 + l <= Len(d)
    BY <1>0, <1>2, <1>3, Fields DEF Filled
  <2> HIDE DEF d, l
  <2>2. /\ SubSeq(d, 0 + 1, 0 + l) \in Seq(Units)
        /\ Len(SubSeq(d, 0 + 1, 0 + l)) = l
        /\ \A i \in 1..l : SubSeq(d, 0 + 1, 0 + l)[i] = d[0 + i]
    BY <2>1, Part
  <2>3. /\ SubSeq(d, 1, l) \in Seq(Units)
        /\ Len(SubSeq(d, 1, l)) = l
        /\ \A i \in 1..l : SubSeq(d, 1, l)[i] = d[i]
    BY <2>1, <2>2
  <2>4. QED
    BY <2>3 DEF d, l
<1> HIDE DEF c
<1>6. wrote[h] + Len(c) <= HostSize
  BY <1>2, <1>3, <1>4, <1>5
<1>8. \A i \in 1..Len(c) : c[i] = Image(h)[RcpSize + wrote[h] + i]
  <2>1. \A i \in 1..Len(c) : fed[h] - len[h] + i = RcpSize + wrote[h] + i
    BY <1>2, <1>3, <1>5
  <2>2. \A i \in 1..Len(c) : c[i] = served[h][fed[h] - len[h] + i]
    BY <1>2, <1>5 DEF Filled
  <2>3. QED
    BY <1>4, <2>1, <2>2
<1>9. /\ part' \in Seq(Stored) /\ wrote' \in [Handles -> Nat]
      /\ wrote'[h] = wrote[h] + Len(c)
      /\ HostHas(wrote[h], h)'
  BY <1>0, <1>1, <1>2, <1>5, <1>6, <1>8, Writes
<1>10. Typed'
  BY <1>0, <1>1, <1>9 DEF Typed, Goto, PCs
<1>11. Sized(h)'
  BY <1>0, <1>1 DEF Sized, Begins
<1>12. Owned(h)'
  BY <1>0, <1>1 DEF Owned
<1>13. Kept(h)'
  BY <1>0, <1>1 DEF Kept, Begins, InHeader, InRcpFw, Finished
<1>14. Placed(h)'
  BY <1>1 DEF Placed
<1>15. Hosted(h)'
  <2>1. wrote'[h] = fed[h] - RcpSize
    BY <1>2, <1>3, <1>5, <1>9
  <2>2. Finished(h)' /\ wrote'[h] <= HostSize
    BY <1>1, <1>2, <1>6, <1>9 DEF Finished
  <2>3. QED
    BY <1>1, <1>2, <1>9, <2>1, <2>2 DEF Hosted
<1>16. QED
  BY <1>10, <1>11, <1>12, <1>13, <1>14, <1>15, Enough

-----------------------------------------------------------------------------
(* The end of a download, and the next one.                                *)

LEMMA Freed ==
  ASSUME Typed, NEW h \in Handles, Free(h)
  PROVE  /\ entry' \in [Handles -> Entries] /\ entry'[h] = NoEntry
         /\ arg' \in [Handles -> Args]
         /\ ~arg'[h].busy /\ arg'[h].cur = 0 /\ arg'[h].size = 0
<1>1. arg' = [arg EXCEPT ![h] = NoCall] /\ entry' = [entry EXCEPT ![h] = NoEntry]
  BY DEF Free
<1>2. entry' \in [Handles -> Entries] /\ entry'[h] = NoEntry
  BY <1>1, EntryTypes DEF Typed
<1>3. QED
  BY <1>1, <1>2, ArgDropped

\* Without an entry nothing is kept.
LEMMA NothingKept ==
  ASSUME NEW h \in Handles
  PROVE  /\ Len(NoEntry.header) = 0 /\ Len(NoEntry.file) = 0
         /\ Begins(NoEntry.file, Image(h)) /\ NoEntry.state = "INVALID"
<1>1. <<>> \in Seq(Units) /\ Len(<<>>) = 0
  BY EmptySeq
<1>2. QED
  BY <1>1 DEF NoEntry, Begins

\* A step after which the task has no entry and no call.
LEMMA FreedKeeps ==
  ASSUME OneHandle, OtaInv, NEW h \in Handles, NEW p \in {"restart", "fail", "failed"},
         Goto(h, p),
         entry' \in [Handles -> Entries], entry'[h] = NoEntry, arg' \in [Handles -> Args],
         ~arg'[h].busy, arg'[h].cur + arg'[h].size <= BufSize,
         UNCHANGED <<data, err, env, wrote, part>>, boot' \in {"running", "next"},
         p = "restart" => ~err[h] /\ applied' = SubSeq(Image(h), 1, RcpSize),
         p = "restart" /\ HostSize > 0 => boot' = "next" /\ IsFirmware(part, h)
  PROVE  OtaInv'
<1>0. Typed /\ Works(h)
  BY DEF OtaInv
<1>1. pc'[h] = p
  BY <1>0, Moved
<1>2. Typed'
  BY <1>0 DEF Typed, Goto, PCs
<1>3. Sized(h)'
  BY <1>0, NothingKept, Sizes DEF Sized
<1>4. Owned(h)'
  BY <1>1 DEF Owned
<1>5. Kept(h)'
  BY NothingKept DEF Kept, InHeader, InRcpFw, Finished
<1>6. Placed(h)'
  BY <1>1 DEF Placed
<1>7. Hosted(h)'
  BY <1>0, <1>1 DEF Hosted, IsFirmware
<1>8. QED
  BY <1>2, <1>3, <1>4, <1>5, <1>6, <1>7, Enough

LEMMA RcpEndKeeps ==
  ASSUME OneHandle, OtaInv, NEW h \in Handles, RcpEnd(h)
  PROVE  OtaInv'
<1>0. Typed /\ Works(h)
  BY DEF OtaInv
<1>1. /\ pc[h] = "end" /\ Finished(h) /\ Free(h) /\ Goto(h, "restart")
      /\ applied' = entry[h].file
      /\ UNCHANGED <<data, err, env, host>>
  BY DEF RcpEnd
<1>2. /\ entry' \in [Handles -> Entries] /\ entry'[h] = NoEntry
      /\ arg' \in [Handles -> Args]
      /\ ~arg'[h].busy /\ arg'[h].cur = 0 /\ arg'[h].size = 0
  BY <1>0, <1>1, Freed
<1>3. ~err[h]
  BY <1>0, <1>1 DEF Owned
<1>4. entry[h].file = SubSeq(Image(h), 1, RcpSize)
  <2>1. Len(entry[h].file) = RcpSize /\ Begins(entry[h].file, Image(h)) /\ RcpSize <= ImageSize
    BY <1>0, <1>1, <1>3, Sizes DEF Kept, Sized
  <2>2. QED
    BY <2>1, Beginning
<1>5. HostSize > 0 => boot = "next" /\ IsFirmware(part, h)
  BY <1>0, <1>1 DEF Hosted
<1>6. arg'[h].cur + arg'[h].size <= BufSize /\ boot' \in {"running", "next"}
  BY <1>0, <1>1, <1>2, Sizes DEF Typed
<1>7. QED
  BY <1>1, <1>2, <1>3, <1>4, <1>5, <1>6, FreedKeeps

LEMMA RcpEndFailsKeeps ==
  ASSUME OneHandle, OtaInv, NEW h \in Handles, RcpEndFails(h)
  PROVE  OtaInv'
<1>0. Typed /\ Works(h)
  BY DEF OtaInv
<1>1. /\ Free(h) /\ Goto(h, "fail") /\ SetBoot
      /\ UNCHANGED <<data, err, env, wrote, part, applied>>
  BY DEF RcpEndFails
<1>2. /\ entry' \in [Handles -> Entries] /\ entry'[h] = NoEntry
      /\ arg' \in [Handles -> Args]
      /\ ~arg'[h].busy /\ arg'[h].cur = 0 /\ arg'[h].size = 0
  BY <1>0, <1>1, Freed
<1>3. arg'[h].cur + arg'[h].size <= BufSize /\ boot' \in {"running", "next"}
  BY <1>0, <1>1, <1>2, Sizes DEF Typed, SetBoot
<1>4. QED
  BY <1>1, <1>2, <1>3, FreedKeeps

LEMMA ExitKeeps ==
  ASSUME OneHandle, OtaInv, NEW h \in Handles, Exit(h)
  PROVE  OtaInv'
<1>0. Typed /\ Works(h)
  BY DEF OtaInv
<1>1. /\ pc[h] = "fail" /\ Goto(h, "failed")
      /\ entry[h] # NoEntry => Free(h)
      /\ entry[h] = NoEntry => UNCHANGED <<entry, arg>>
      /\ UNCHANGED <<data, err, env, host, applied>>
  BY DEF Exit
<1>2. /\ entry' \in [Handles -> Entries] /\ entry'[h] = NoEntry
      /\ arg' \in [Handles -> Args]
      /\ ~arg'[h].busy /\ arg'[h].cur + arg'[h].size <= BufSize
  <2>1. CASE entry[h] # NoEntry
    BY <1>0, <1>1, <2>1, Freed, Sizes
  <2>2. CASE entry[h] = NoEntry
    <3>1. ~arg[h].busy /\ arg[h].cur + arg[h].size <= BufSize
      BY <1>0, <1>1 DEF Owned, Sized
    <3>2. QED
      BY <1>0, <1>1, <2>2, <3>1 DEF Typed
  <2>3. QED
    BY <2>1, <2>2
<1>3. boot' \in {"running", "next"}
  BY <1>0, <1>1 DEF Typed
<1>4. QED
  BY <1>1, <1>2, <1>3, FreedKeeps

LEMMA StartKeeps ==
  ASSUME OneHandle, OtaInv, NEW h \in Handles, NEW n \in 1..ImageSize,
         NEW body \in {Image(h), Junk(h)}, StartDownload(h, n, body)
  PROVE  OtaInv'
<1>0. Typed /\ Works(h)
  BY DEF OtaInv
<1>1. /\ pc[h] \in {"idle", "failed"} /\ Goto(h, "connect") /\ pc'[h] = "connect"
      /\ entry' = [entry EXCEPT ![h] = NewEntry]
      /\ err' = [err EXCEPT ![h] = FALSE]
      /\ UNCHANGED <<data, arg, part, boot, applied>>
  BY <1>0, Moved DEF StartDownload, Begin
<1>2. entry' \in [Handles -> Entries] /\ entry'[h] = NewEntry
  BY <1>0, <1>1, EntryTypes DEF Typed
<1>3. /\ served' \in [Handles -> [1..ImageSize -> Units]] /\ served'[h] = body
      /\ total' \in [Handles -> 0..ImageSize] /\ total'[h] = n
  BY <1>0, Images, Sizes DEF StartDownload, Typed
<1>4. /\ fed' \in [Handles -> Nat] /\ fed'[h] = 0
      /\ len' \in [Handles -> Nat] /\ len'[h] = 0
      /\ wrote' \in [Handles -> Nat] /\ wrote'[h] = 0
  BY <1>0 DEF StartDownload, Typed
<1>5. /\ NewEntry.state = "READ_HEADER" /\ NewEntry.header = <<>> /\ NewEntry.header_size = 0
      /\ NewEntry.file = <<>> /\ NewEntry # NoEntry
  BY DEF NewEntry, NoEntry
<1>6. /\ <<>> \in Seq(Units) /\ Len(<<>>) = 0 /\ Begins(<<>>, Image(h)) /\ Begins(<<>>, body)
  BY EmptySeq DEF Begins
<1>7. Typed'
  BY <1>0, <1>1, <1>2, <1>3, <1>4 DEF Typed, Goto, PCs
<1>8. Sized(h)'
  BY <1>0, <1>1, <1>2, <1>3, <1>4, <1>5, <1>6, Sizes DEF Sized
<1>9. Owned(h)'
  <2>1. ~err'[h] /\ ~arg[h].busy
    BY <1>0, <1>1 DEF Typed, Owned
  <2>2. QED
    BY <1>1, <1>2, <1>5, <2>1 DEF Owned
<1>10. Kept(h)'
  BY <1>2, <1>3, <1>5, <1>6, Sizes DEF Kept, InHeader, InRcpFw, Finished
<1>11. Placed(h)'
  BY <1>1, <1>2, <1>4, <1>5, <1>6 DEF Placed, Taken, InHeader
<1>12. Hosted(h)'
  BY <1>1, <1>4, Sizes DEF Hosted
<1>13. QED
  BY <1>7, <1>8, <1>9, <1>10, <1>11, <1>12, Enough

HIDE DEF otaVars, env, host, Works

-----------------------------------------------------------------------------
(* Every step, and the theorems.                                           *)

LEMMA OtaStart ==
  ASSUME OneHandle, HttpInit
  PROVE  OtaInv
<1>1. /\ entry = [h \in Handles |-> NoEntry] /\ data = [h \in Handles |-> <<>>]
      /\ arg = [h \in Handles |-> NoCall] /\ err = [h \in Handles |-> FALSE]
      /\ pc = [h \in Handles |-> "idle"] /\ served = [h \in Handles |-> Image(h)]
      /\ total = [h \in Handles |-> 0] /\ fed = [h \in Handles |-> 0]
      /\ len = [h \in Handles |-> 0] /\ wrote = [h \in Handles |-> 0]
      /\ part = (IF OldValid THEN Old ELSE <<>>)
      /\ boot = "running"
  BY DEF HttpInit, OtaInit
<1>2. <<>> \in Seq(Units) /\ Len(<<>>) = 0
  BY EmptySeq
<1>3. part \in Seq(Stored)
  <2>1. <<>> \in Seq(Stored)
    BY EmptySeq
  <2>2. <<"old", 1>> \in Stored
    BY DEF Stored
  <2>3. Old \in Seq(Stored)
    BY <2>2 DEF Old
  <2>4. QED
    BY <1>1, <2>1, <2>3
<1>4. Typed
  BY <1>1, <1>2, <1>3, EntryTypes, Images, Sizes DEF Typed, PCs
<1>5. ASSUME NEW h \in Handles
      PROVE  Works(h)
  <2>1. /\ entry[h] = NoEntry /\ data[h] = <<>> /\ arg[h] = NoCall /\ err[h] = FALSE
        /\ pc[h] = "idle" /\ served[h] = Image(h) /\ total[h] = 0 /\ fed[h] = 0
        /\ len[h] = 0 /\ wrote[h] = 0
    BY <1>1
  <2>2. NoCall.busy = FALSE /\ NoCall.cur = 0 /\ NoCall.size = 0
    BY DEF NoCall
  <2>3. Sized(h)
    BY <1>2, <2>1, <2>2, NothingKept, Sizes DEF Sized
  <2>4. Owned(h)
    BY <2>1, <2>2 DEF Owned
  <2>5. Kept(h)
    BY <2>1, NothingKept DEF Kept, InHeader, InRcpFw, Finished
  <2>6. Placed(h)
    BY <2>1 DEF Placed
  <2>7. Hosted(h)
    BY <2>1, Sizes DEF Hosted
  <2>8. QED
    BY <2>3, <2>4, <2>5, <2>6, <2>7 DEF Works
<1>6. QED
  BY <1>4, <1>5 DEF OtaInv

LEMMA UnchangedKeeps ==
  ASSUME OtaInv, UNCHANGED vars
  PROVE  OtaInv'
BY DEF OtaInv, Works, vars, otaVars, Typed, Sized, Owned, Kept, Placed, Hosted, Begins,
       InHeader, InRcpFw, Finished, Taken, Filled, HostHas, IsFirmware

LEMMA ReceivingKeeps ==
  ASSUME OneHandle, OtaInv, NEW h \in Handles, Receiving(h)
  PROVE  OtaInv'
<1>1. pc[h] = "receiving" /\ UNCHANGED httpVars
  BY DEF Receiving
<1>2. CASE ReceiveHeader(h)
  BY <1>1, <1>2, ReceiveHeaderKeeps
<1>3. CASE RejectHeader(h)
  BY <1>1, <1>3, RejectHeaderKeeps
<1>4. CASE ReceiveRcpFw(h)
  BY <1>1, <1>4, ReceiveRcpFwKeeps
<1>5. CASE WriteFails(h)
  BY <1>1, <1>5, WriteFailsKeeps
<1>6. CASE ReceiveReturns(h)
  BY <1>1, <1>6, ReturnsKeeps
<1>7. QED
  BY <1>2, <1>3, <1>4, <1>5, <1>6 DEF Receiving, ReceiveStep

LEMMA OtaStep ==
  ASSUME OneHandle, OtaInv, [HttpNext]_vars
  PROVE  OtaInv'
<1>1. CASE UNCHANGED vars
  BY <1>1, UnchangedKeeps
<1>2. ASSUME NEW h \in Handles, NEW n \in 1..ImageSize, NEW body \in {Image(h), Junk(h)},
             StartDownload(h, n, body)
      PROVE  OtaInv'
  BY <1>2, StartKeeps
<1>3. ASSUME NEW h \in Handles, Reconnect(h)
      PROVE  OtaInv'
  BY <1>3, UnchangedKeeps DEF Reconnect
<1>4. ASSUME NEW h \in Handles, TaskStep(h)
      PROVE  OtaInv'
  <2>1. CASE Connect(h)
    BY <2>1, ConnectKeeps
  <2>2. CASE CallReceive(h)
    BY <2>2, CallReceiveKeeps
  <2>3. CASE Receiving(h)
    BY <2>3, ReceivingKeeps
  <2>4. CASE Received(h)
    BY <2>4, ReceivedKeeps
  <2>5. CASE HostBegin(h)
    BY <2>5, HostBeginKeeps
  <2>6. CASE HostWrite(h)
    BY <2>6, HostWriteKeeps
  <2>7. CASE HostEnd(h)
    BY <2>7, HostEndKeeps
  <2>8. CASE HostBoot(h)
    BY <2>8, HostBootKeeps
  <2>9. CASE RcpEnd(h)
    BY <2>9, RcpEndKeeps
  <2>10. CASE RcpEndFails(h)
    BY <2>10, RcpEndFailsKeeps
  <2>11. CASE StepFails(h)
    BY <2>11, StepFailsKeeps
  <2>12. CASE Exit(h)
    BY <2>12, ExitKeeps
  <2>13. ASSUME NEW n \in 1..BufSize, ReadRcp(h, n)
         PROVE  OtaInv'
    BY <2>13, ReadRcpKeeps
  <2>14. ASSUME NEW n \in 1..BufSize, ReadHost(h, n)
         PROVE  OtaInv'
    BY <2>14, ReadHostKeeps
  <2>15. QED
    BY <1>4, <2>1, <2>2, <2>3, <2>4, <2>5, <2>6, <2>7, <2>8, <2>9, <2>10, <2>11, <2>12,
       <2>13, <2>14 DEF TaskStep
<1>5. QED
  BY <1>1, <1>2, <1>3, <1>4 DEF HttpNext

\* What esp_rcp_ota_receive and download_ota_image keep between any two steps
\* of a download: where the next unit of the body goes, in every state of the
\* entry and of the task, and after every failure.
THEOREM HttpInvariant ==
  ASSUME OneHandle
  PROVE  HttpSpec => []OtaInv
<1>1. HttpInit => OtaInv
  BY OtaStart
<1>2. OtaInv /\ [HttpNext]_vars => OtaInv'
  BY OtaStep
<1>3. QED
  BY <1>1, <1>2, PTL DEF HttpSpec

\* The parts of the invariant say what HttpInv asks.
LEMMA HostPart ==
  ASSUME NEW h \in Handles, NEW n \in Nat, part \in Seq(Stored), HostHas(n, h)
  PROVE  /\ n <= HostSize /\ n <= Len(part)
         /\ SubSeq(part, 1, n) = SubSeq(HostFirmware(h), 1, n)
<1>1. n <= HostSize /\ n <= Len(part) /\ \A i \in 1..n : part[i] = Image(h)[RcpSize + i]
  BY DEF HostHas
<1>2. /\ RcpSize \in Nat /\ HostSize \in Nat /\ RcpSize + HostSize = ImageSize
      /\ Image(h) \in Seq(Units) /\ Len(Image(h)) = ImageSize
  BY Sizes, Images
<1>3. /\ SubSeq(Image(h), RcpSize + 1, RcpSize + HostSize) \in Seq(Units)
      /\ Len(SubSeq(Image(h), RcpSize + 1, RcpSize + HostSize)) = HostSize
      /\ \A i \in 1..HostSize :
           SubSeq(Image(h), RcpSize + 1, RcpSize + HostSize)[i] = Image(h)[RcpSize + i]
  <2>1. RcpSize + HostSize <= Len(Image(h))
    BY <1>2
  <2>2. QED
    BY <1>2, <2>1, Part
<1>4. /\ HostFirmware(h) \in Seq(Units) /\ Len(HostFirmware(h)) = HostSize
      /\ \A i \in 1..HostSize : HostFirmware(h)[i] = Image(h)[RcpSize + i]
  BY <1>2, <1>3 DEF HostFirmware
<1> DEFINE a == SubSeq(part, 0 + 1, 0 + n)
<1> DEFINE b == SubSeq(HostFirmware(h), 0 + 1, 0 + n)
<1>5. a \in Seq(Stored) /\ Len(a) = n /\ \A i \in 1..n : a[i] = part[0 + i]
  BY <1>1, Part
<1>6. b \in Seq(Units) /\ Len(b) = n /\ \A i \in 1..n : b[i] = HostFirmware(h)[0 + i]
  <2>1. 0 + n <= Len(HostFirmware(h))
    BY <1>1, <1>4
  <2>2. QED
    BY <1>4, <2>1, Part
<1>7. \A i \in 1..n : a[i] = b[i]
  BY <1>1, <1>2, <1>4, <1>5, <1>6
<1>8. a = b
  <2> HIDE DEF a, b
  <2>1. b \in Seq(Stored)
    BY <1>6, SeqDef, LenProperties DEF Stored
  <2>2. QED
    BY <1>5, <1>6, <1>7, <2>1, SeqEqual
<1>9. QED
  BY <1>1, <1>8

LEMMA InvHolds ==
  ASSUME OneHandle, OtaInv
  PROVE  HttpInv /\ RestartsWhole
<1>0. Typed /\ \A h \in Handles : Sized(h) /\ Owned(h) /\ Kept(h) /\ Placed(h) /\ Hosted(h)
  BY DEF OtaInv, Works
<1>1. HttpTypeOK
  <2>1. ASSUME NEW h \in Handles
        PROVE  /\ entry[h].state \in States
               /\ Len(entry[h].header) <= HeaderSize
               /\ entry[h].header_size \in {0, HeaderSize}
               /\ Len(entry[h].file) <= RcpSize
               /\ Len(data[h]) <= BufSize
               /\ arg[h].busy \in BOOLEAN
               /\ arg[h].cur + arg[h].size <= BufSize
               /\ fed[h] \in 0..total[h] /\ len[h] \in 0..BufSize
               /\ wrote[h] \in 0..(HostSize + BufSize)
    BY <1>0, Fields, Sizes DEF Sized, Hosted
  <2>2. QED
    BY <1>0, <2>1 DEF HttpTypeOK, Typed
<1>2. FileIsPrefix
  <2>1. ASSUME NEW h \in Handles
        PROVE  entry[h].file = SubSeq(Image(h), 1, Len(entry[h].file))
    <3>1. /\ Begins(entry[h].file, Image(h)) /\ Len(entry[h].file) <= RcpSize
          /\ Len(entry[h].file) \in Nat
      BY <1>0, Fields DEF Sized
    <3>2. Len(entry[h].file) <= ImageSize
      BY <3>1, Sizes
    <3>3. QED
      BY <3>1, <3>2, Beginning
  <2>2. QED
    BY <2>1 DEF FileIsPrefix
<1>3. HostIsRest
  <2>1. ASSUME NEW h \in Handles, pc[h] \in {"host", "write", "boot"}
        PROVE  HostHas(wrote[h], h) /\ wrote[h] \in Nat /\ part \in Seq(Stored)
    BY <1>0, <2>1 DEF Hosted, Typed
  <2>2. QED
    BY <2>1, HostPart DEF HostIsRest
<1>4. NothingLeaks
  BY <1>0 DEF NothingLeaks, Owned
<1>5. RestartsWhole
  BY <1>0 DEF RestartsWhole, Hosted
<1>6. QED
  BY <1>1, <1>2, <1>3, <1>4, <1>5 DEF HttpInv

\* However the body is cut, and wherever a step fails: the file begins the
\* image, the host partition has what follows the RCP's subfiles, no buffer or
\* counter leaves its size, and a download that is over holds no entry.
THEOREM DownloadIsSound ==
  ASSUME OneHandle
  PROVE  HttpSpec => []HttpInv
<1>1. OtaInv => HttpInv
  BY InvHolds
<1>2. QED
  BY <1>1, HttpInvariant, PTL

\* esp_restart is reached only with the whole RCP image submitted and, when the
\* image has one, the whole host firmware written and chosen for the next boot.
THEOREM RestartsIntoWhole ==
  ASSUME OneHandle
  PROVE  HttpSpec => []RestartsWhole
<1>1. OtaInv => RestartsWhole
  BY InvHolds
<1>2. QED
  BY <1>1, HttpInvariant, PTL
=============================================================================
