------------------------------ MODULE NcpProofs ------------------------------
(***************************************************************************)
(* Theorems about the Zigbee NCP (NcpZb, NcpBus, NcpSlip as MCNcpBus joins *)
(* them), for any sizes of frames, buffers and queues, and any number of   *)
(* requests, callbacks and setbacks.                                       *)
(***************************************************************************)
EXTENDS MCNcpBus, NcpSlipProofs, SequenceTheorems, TLAPS

-----------------------------------------------------------------------------
(* The commands: the inductive invariant.                                  *)

Made  == [registered : BOOLEAN, due : Nat, ind : Nat, conf : Nat]
Flags == [init : BOOLEAN, up : BOOLEAN, start : BOOLEAN]
Pairs == ApsKinds \X Nat

ZbTyped == /\ flags \in Flags /\ formAlarm \in Nat /\ asked \in Nat /\ made \in Made
           /\ given \in [ApsKinds -> Pairs]
           /\ apsq \in [ApsKinds -> Seq(Pairs) \cup {Closed}]

\* Whose blocks there are: no request has a block, an answer or a result
\* before it is made, and one that waits has no block but its own.
Blocks ==
  /\ DOMAIN heap \subseteq 1..asked /\ DOMAIN result \subseteq 1..asked
  /\ \A r \in zdo : /\ r.n \in 1..asked /\ r.ctx \in {r.n, NoBlock}
                    /\ r.ctx = NoBlock => r.n \notin DOMAIN heap
  /\ \A r, q \in zdo : r.n = q.n => r = q

\* The queue of a kind holds events that were made after the one given last.
ApsQueued(k) ==
  /\ given[k][1] = k /\ given[k][2] <= made[k]
  /\ apsq[k] # Closed =>
       /\ \A i \in 1..Len(apsq[k]) : /\ apsq[k][i][1] = k
                                     /\ given[k][2] < apsq[k][i][2]
                                     /\ apsq[k][i][2] <= made[k]
       /\ \A i, j \in 1..Len(apsq[k]) : i < j => apsq[k][i][2] < apsq[k][j][2]

\* The event in hand is the latest of its kind, and nothing has passed it.
ApsInHand ==
  /\ hand.op \in {"none", "handle", "return"}
  /\ hand.op # "none" => hand.ev \in Pairs
  /\ hand.op = "handle" =>
       LET k == hand.ev[1] IN
         /\ hand.ev[2] = made[k] /\ given[k][2] < made[k]
         /\ apsq[k] # Closed => \A i \in 1..Len(apsq[k]) : apsq[k][i][2] < made[k]
         /\ IF hand.polled THEN apsq[k] # Closed ELSE apsq[k] \in {Closed, <<>>}
  /\ hand.op = "return" /\ hand.got = "queue" => apsq[hand.ev[1]] # Closed

\* A poll finds its queue created.
Polled == cmd.op = "poll" => cmd.kind \in ApsKinds /\ apsq[cmd.kind] # Closed

ZbCmdInv == /\ ZbTyped /\ Blocks /\ NcpZbInv
            /\ (\A k \in ApsKinds : ApsQueued(k)) /\ ApsInHand /\ Polled

-----------------------------------------------------------------------------
LEMMA PairNotDeleted ==
  ASSUME NEW p \in Pairs
  PROVE  p # [deleted |-> TRUE]
BY DEF Pairs, ApsKinds

LEMMA QueueNotClosed == Closed \notin Seq(Pairs)
<1>1. Len(Closed) = 1 /\ Closed[1] = [deleted |-> TRUE]
  BY DEF Closed
<1>2. ASSUME Closed \in Seq(Pairs)
      PROVE  FALSE
  <2>1. 1 \in 1..Len(Closed)
    BY <1>1
  <2>2. Closed[1] \in Pairs
    BY <1>2, <2>1, ElementOfSeq
  <2>3. QED
    BY <1>1, <2>2, PairNotDeleted
<1>3. QED
  BY <1>2

\* One more event of kind k.
LEMMA MadeMore ==
  ASSUME made \in Made, NEW k \in ApsKinds, k = "conf" => made.due > 0,
         made' = [made EXCEPT ![k] = @ + 1, !.due = IF k = "conf" THEN @ - 1 ELSE @]
  PROVE  /\ made' \in Made /\ made'[k] = made[k] + 1 /\ made[k] \in Nat
         /\ \A j \in ApsKinds : j # k => made'[j] = made[j]
<1>0. made.due \in Nat /\ made.ind \in Nat /\ made.conf \in Nat /\ made.registered \in BOOLEAN
  BY DEF Made
<1>1. CASE k = "ind"
  <2>1. made' = [made EXCEPT !.ind = made.ind + 1]
    BY <1>1 DEF Made
  <2>2. made' = [registered |-> made.registered, due |-> made.due, ind |-> made.ind + 1,
                 conf |-> made.conf]
    BY <2>1 DEF Made
  <2>3. made' \in Made
    BY ONLY <1>0, <2>2 DEF Made
  <2>4. made'["ind"] = made["ind"] + 1 /\ made'["conf"] = made["conf"] /\ made["ind"] \in Nat
    BY ONLY <1>0, <2>2
  <2>5. QED
    BY <1>1, <2>3, <2>4 DEF ApsKinds
<1>2. CASE k = "conf"
  <2>1. made' = [made EXCEPT !.conf = made.conf + 1, !.due = made.due - 1]
    BY <1>2 DEF Made
  <2>2. made' = [registered |-> made.registered, due |-> made.due - 1, ind |-> made.ind,
                 conf |-> made.conf + 1]
    BY <2>1 DEF Made
  <2>3. made.due - 1 \in Nat
    <3>1. made.due > 0
      BY <1>2
    <3>2. QED
      BY ONLY <1>0, <3>1
  <2>4. made' \in Made
    BY ONLY <1>0, <2>2, <2>3 DEF Made
  <2>5. made'["conf"] = made["conf"] + 1 /\ made'["ind"] = made["ind"] /\ made["conf"] \in Nat
    BY ONLY <1>0, <2>2
  <2>6. QED
    BY <1>2, <2>4, <2>5 DEF ApsKinds
<1>3. QED
  BY <1>1, <1>2 DEF ApsKinds

LEMMA MadeTyped ==
  ASSUME made \in Made, NEW k \in ApsKinds
  PROVE  made[k] \in Nat
BY DEF Made, ApsKinds

LEMMA ZbStart == NcpZbInit => ZbCmdInv
<1> SUFFICES ASSUME NcpZbInit
             PROVE  ZbCmdInv
  OBVIOUS
<1> USE DEF NcpZbInit
<1>1. flags \in Flags /\ made \in Made /\ formAlarm \in Nat /\ asked \in Nat
  BY DEF Flags, Made
<1>2. \A k \in ApsKinds : given[k] = <<k, 0>> /\ apsq[k] = Closed
  OBVIOUS
<1>3. ZbTyped
  BY <1>1 DEF ZbTyped, Pairs
<1>4. Blocks
  BY DEF Blocks
<1>5. \A k \in ApsKinds : ApsQueued(k)
  BY <1>1, <1>2, MadeTyped DEF ApsQueued, ApsKinds
<1>6. ApsInHand /\ Polled
  BY DEF ApsInHand, Polled, Idle
<1>7. NcpZbInv
  BY DEF NcpZbInv, OneCommissioning, OwnCallback, SuccessTrue, Idle
<1>8. QED
  BY <1>3, <1>4, <1>5, <1>6, <1>7 DEF ZbCmdInv

-----------------------------------------------------------------------------
(* The commands: every step.                                               *)

USE DEF ZbTyped, network, contexts, apsVars

\* Only START and the stack's signals change what the stack is doing.
LEMMA CommissioningStep ==
  ASSUME ZbCmdInv, [NcpZbNext]_zbCmdVars
  PROVE  OneCommissioning' /\ formAlarm' \in Nat /\ (bdb # "off" => bdb' # "off")
<1>0. OneCommissioning /\ formAlarm \in Nat
  BY DEF ZbCmdInv, NcpZbInv
<1>1. ASSUME UNCHANGED network
      PROVE  OneCommissioning' /\ formAlarm' \in Nat /\ (bdb # "off" => bdb' # "off")
  BY <1>0, <1>1 DEF OneCommissioning
<1>2. CASE ZbMain \/ ApsHandle \/ ApsReturn \/ UNCHANGED zbCmdVars
  BY <1>1, <1>2 DEF ZbMain, Respond, PollEnds, ApsHandle, ApsReturn, zbCmdVars
<1>3. CASE SkipStartup \/ Steering
  BY <1>0, <1>3 DEF SkipStartup, Steering, OneCommissioning
<1>4. CASE FormAlarm
  BY <1>0, <1>4 DEF FormAlarm, OneCommissioning
<1>5. ASSUME NEW ok \in BOOLEAN, Started(ok) \/ Formation(ok)
      PROVE  OneCommissioning' /\ formAlarm' \in Nat /\ (bdb # "off" => bdb' # "off")
  BY <1>0, <1>5 DEF Started, Formation, OneCommissioning
<1>6. ASSUME NEW r \in zdo, ZdoResult(r)
      PROVE  UNCHANGED network
  BY <1>6 DEF ZdoResult
<1>7. CASE FormNetwork \/ AddEndpoint \/ SetBind \/ ReadAttr
  BY <1>1, <1>7 DEF FormNetwork, AddEndpoint, SetBind, AskNetwork, ReadAttr
<1>8. ASSUME NEW k \in ApsKinds, PollAps(k) \/ ApsEvent(k)
      PROVE  UNCHANGED network
  BY <1>8 DEF PollAps, ApsEvent
<1>9. ASSUME NEW ok \in BOOLEAN, NetworkInit(ok) \/ FindMatch(ok) \/ ApsDataRequest(ok)
      PROVE  UNCHANGED network
  BY <1>9 DEF NetworkInit, FindMatch, AskNetwork, ApsDataRequest
<1>10. ASSUME NEW ok \in BOOLEAN, NEW a \in BOOLEAN, Start(ok, a)
       PROVE  OneCommissioning' /\ formAlarm' \in Nat /\ (bdb # "off" => bdb' # "off")
  BY <1>0, <1>10 DEF Start, OneCommissioning
<1>11. ASSUME NEW ok \in BOOLEAN, NEW m \in Masks, PrimaryChannelSet(m, ok) \/ ChannelSet(m, ok)
       PROVE  UNCHANGED network
  BY <1>11 DEF PrimaryChannelSet, ChannelSet
<1>12. QED
  BY <1>1, <1>2, <1>3, <1>4, <1>5, <1>6, <1>7, <1>8, <1>9, <1>10, <1>11
     DEF NcpZbNext, ZbCallback, ZbSignals, ZbCommand

\* Blocks, results and open requests: what a step may do to them.
BlocksInv == Blocks /\ OwnCallback /\ asked \in Nat

LEMMA OwnBlock ==
  ASSUME BlocksInv, NEW r \in zdo
  PROVE  /\ r.n \notin DOMAIN result
         /\ r.ctx # NoBlock => r.ctx \in DOMAIN heap /\ heap[r.ctx] = r.n /\ r.ctx = r.n
<1>1. OwnCallback /\ Blocks
  BY DEF BlocksInv
<1>2. r.n \notin DOMAIN result /\ (r.ctx # NoBlock => r.ctx \in DOMAIN heap /\ heap[r.ctx] = r.n)
  BY ONLY <1>1, r \in zdo DEF OwnCallback
<1>3. r.ctx \in {r.n, NoBlock}
  BY ONLY <1>1, r \in zdo DEF Blocks
<1>4. QED
  BY <1>2, <1>3

LEMMA AskKeeps ==
  ASSUME BlocksInv, NEW op, NEW ok \in BOOLEAN, AskNetwork(op, ok)
  PROVE  BlocksInv' /\ (ok => \E r \in zdo' : r.n = asked')
<1> DEFINE n == asked + 1
<1>1. asked' = n /\ asked \in Nat /\ UNCHANGED result
  BY DEF AskNetwork, Asks, BlocksInv
<1>2. PICK got \in BOOLEAN :
        /\ heap' = IF got THEN Put(heap, n, n) ELSE heap
        /\ zdo' = IF ok THEN zdo \cup {[n |-> n, ctx |-> IF got THEN n ELSE NoBlock]} ELSE zdo
  BY DEF AskNetwork, Block
<1> DEFINE new == [n |-> n, ctx |-> IF got THEN n ELSE NoBlock]
<1>3. new.n = n /\ new.ctx = IF got THEN n ELSE NoBlock
  OBVIOUS
<1>4. /\ n \notin DOMAIN heap /\ n \notin DOMAIN result /\ n # NoBlock
      /\ \A r \in zdo : r.n # n /\ r.ctx # n
  BY <1>1 DEF BlocksInv, Blocks, NoBlock
<1>5. /\ DOMAIN heap' = IF got THEN DOMAIN heap \cup {n} ELSE DOMAIN heap
      /\ \A b \in DOMAIN heap : heap'[b] = heap[b]
      /\ got => heap'[n] = n
  BY <1>2, <1>4 DEF Put
<1>6. zdo' \subseteq zdo \cup {new} /\ (ok => new \in zdo') /\ (~ok => zdo' = zdo)
  BY <1>2
<1> HIDE DEF new, n
<1>7. Blocks'
  <2>1. DOMAIN heap' \subseteq 1..asked' /\ DOMAIN result' \subseteq 1..asked'
    BY <1>1, <1>5 DEF BlocksInv, Blocks, n
  <2>2. ASSUME NEW r \in zdo'
        PROVE  /\ r.n \in 1..asked' /\ r.ctx \in {r.n, NoBlock}
               /\ r.ctx = NoBlock => r.n \notin DOMAIN heap'
    <3>1. CASE r = new
      BY <1>1, <1>3, <1>4, <1>5, <3>1 DEF n
    <3>2. CASE r \in zdo
      BY <1>1, <1>4, <1>5, <3>2 DEF BlocksInv, Blocks, n
    <3>3. QED
      BY <1>6, <3>1, <3>2
  <2>3. \A r, q \in zdo' : r.n = q.n => r = q
    BY <1>3, <1>4, <1>6 DEF BlocksInv, Blocks
  <2>4. QED
    BY <2>1, <2>2, <2>3 DEF Blocks
<1>8. OwnCallback'
  <2>1. \A m \in DOMAIN result' : result'[m] \in {m, NoBlock}
    BY <1>1 DEF BlocksInv, OwnCallback
  <2>2. ASSUME NEW r \in zdo'
        PROVE  /\ r.n \notin DOMAIN result'
               /\ r.ctx # NoBlock => r.ctx \in DOMAIN heap' /\ heap'[r.ctx] = r.n
    <3>1. CASE r = new
      BY <1>1, <1>3, <1>4, <1>5, <3>1
    <3>2. CASE r \in zdo
      BY <1>1, <1>5, <3>2, OwnBlock
    <3>3. QED
      BY <1>6, <3>1, <3>2
  <2>3. DOMAIN heap' \cap DOMAIN result' = {}
    BY <1>1, <1>4, <1>5 DEF BlocksInv, OwnCallback
  <2>4. QED
    BY <2>1, <2>2, <2>3 DEF OwnCallback
<1>9. QED
  BY <1>1, <1>3, <1>6, <1>7, <1>8 DEF BlocksInv, n

LEMMA ReadKeeps ==
  ASSUME BlocksInv, ReadAttr
  PROVE  BlocksInv'
<1> DEFINE n == asked + 1
<1>1. /\ asked' = n /\ asked \in Nat /\ UNCHANGED <<zdo, result>>
      /\ heap' \in {Put(heap, n, NoBlock), heap}
  BY DEF ReadAttr, Asks, BlocksInv
<1>2. /\ n \notin DOMAIN heap /\ n \notin DOMAIN result /\ \A r \in zdo : r.n # n
  BY <1>1 DEF BlocksInv, Blocks
<1>3. /\ DOMAIN heap' \subseteq DOMAIN heap \cup {n} /\ DOMAIN heap \subseteq DOMAIN heap'
      /\ \A b \in DOMAIN heap : heap'[b] = heap[b]
  BY <1>1, <1>2 DEF Put
<1> HIDE DEF n
<1>4. Blocks'
  BY <1>1, <1>2, <1>3 DEF BlocksInv, Blocks, n
<1>5. OwnCallback'
  BY <1>1, <1>2, <1>3 DEF BlocksInv, OwnCallback
<1>6. QED
  BY <1>1, <1>4, <1>5 DEF BlocksInv, n

LEMMA ResultKeeps ==
  ASSUME BlocksInv, NEW r \in zdo, ZdoResult(r)
  PROVE  BlocksInv' /\ r.n \in DOMAIN result' /\ \A n \in DOMAIN result : n \in DOMAIN result'
<1> DEFINE to == IF r.ctx \in DOMAIN heap THEN heap[r.ctx] ELSE NoBlock
<1>1. /\ zdo' = zdo \ {r} /\ asked' = asked /\ asked \in Nat
      /\ result' = Put(result, r.n, to)
      /\ heap' = [b \in DOMAIN heap \ {r.ctx} |-> heap[b]]
  BY DEF ZdoResult, BlocksInv
<1>2. to \in {r.n, NoBlock}
  <2>1. CASE r.ctx = NoBlock
    BY <2>1 DEF BlocksInv, Blocks, NoBlock
  <2>2. CASE r.ctx # NoBlock
    BY <2>2, OwnBlock
  <2>3. QED
    BY <2>1, <2>2
<1> HIDE DEF to
<1>3. /\ DOMAIN result' = DOMAIN result \cup {r.n} /\ result'[r.n] = to
      /\ \A n \in DOMAIN result : n # r.n => result'[n] = result[n]
  BY <1>1 DEF Put
<1>4. DOMAIN heap' = DOMAIN heap \ {r.ctx} /\ \A b \in DOMAIN heap' : heap'[b] = heap[b]
  BY <1>1
<1>5. \A q \in zdo' : q \in zdo /\ q.n # r.n /\ (q.ctx # NoBlock => q.ctx # r.ctx)
  <2> SUFFICES ASSUME NEW q \in zdo'
               PROVE  q \in zdo /\ q.n # r.n /\ (q.ctx # NoBlock => q.ctx # r.ctx)
    OBVIOUS
  <2>1. q \in zdo /\ q # r
    BY <1>1
  <2>2. q.n # r.n
    BY <2>1 DEF BlocksInv, Blocks
  <2>3. q.ctx # NoBlock => q.ctx = q.n
    BY <2>1 DEF BlocksInv, Blocks
  <2>4. r.ctx \in {r.n, NoBlock}
    BY DEF BlocksInv, Blocks
  <2>5. QED
    BY <2>1, <2>2, <2>3, <2>4
<1>6. Blocks'
  BY <1>1, <1>3, <1>4, <1>5 DEF BlocksInv, Blocks
<1>7. OwnCallback'
  <2>1. r.n \notin DOMAIN heap'
    BY <1>4 DEF BlocksInv, Blocks
  <2>2. DOMAIN heap' \cap DOMAIN result' = {}
    BY <1>3, <1>4, <2>1 DEF BlocksInv, OwnCallback
  <2>3. \A n \in DOMAIN result' : result'[n] \in {n, NoBlock}
    BY <1>2, <1>3 DEF BlocksInv, OwnCallback
  <2>4. ASSUME NEW q \in zdo'
        PROVE  /\ q.n \notin DOMAIN result'
               /\ q.ctx # NoBlock => q.ctx \in DOMAIN heap' /\ heap'[q.ctx] = q.n
    BY <1>3, <1>4, <1>5, <2>4, OwnBlock
  <2>5. QED
    BY <2>2, <2>3, <2>4 DEF OwnCallback
<1>8. QED
  BY <1>1, <1>3, <1>6, <1>7 DEF BlocksInv

\* What is neither a request to the network nor its result.
OtherCommand ==
  \/ FormNetwork \/ AddEndpoint \/ (\E k \in ApsKinds : PollAps(k))
  \/ \E ok \in BOOLEAN :
       \/ NetworkInit(ok) \/ (\E a \in BOOLEAN : Start(ok, a))
       \/ \E m \in Masks : PrimaryChannelSet(m, ok) \/ ChannelSet(m, ok)
OtherStep == \/ ZbMain \/ ZbSignals \/ ApsHandle \/ ApsReturn \/ OtherCommand
             \/ (\E k \in ApsKinds : ApsEvent(k)) \/ UNCHANGED zbCmdVars

LEMMA OtherKeepsBlocks ==
  ASSUME OtherStep
  PROVE  UNCHANGED <<contexts, asked>>
<1>1. CASE ZbMain \/ ZbSignals
  BY <1>1 DEF ZbMain, Respond, PollEnds, ZbSignals, SkipStartup, FormAlarm, Steering,
              Started, Formation
<1>2. CASE ApsHandle \/ ApsReturn \/ (\E k \in ApsKinds : ApsEvent(k)) \/ UNCHANGED zbCmdVars
  BY <1>2 DEF ApsHandle, ApsReturn, ApsEvent, zbCmdVars
<1>3. CASE FormNetwork \/ AddEndpoint \/ (\E k \in ApsKinds : PollAps(k))
  BY <1>3 DEF FormNetwork, AddEndpoint, PollAps, Free
<1>4. ASSUME NEW ok \in BOOLEAN, NetworkInit(ok) \/ (\E a \in BOOLEAN : Start(ok, a))
      PROVE  UNCHANGED <<contexts, asked>>
  BY <1>4 DEF NetworkInit, Start, Free
<1>5. ASSUME NEW ok \in BOOLEAN, NEW m \in Masks, PrimaryChannelSet(m, ok) \/ ChannelSet(m, ok)
      PROVE  UNCHANGED <<contexts, asked>>
  BY <1>5 DEF PrimaryChannelSet, ChannelSet, Free
<1>6. QED
  BY <1>1, <1>2, <1>3, <1>4, <1>5 DEF OtherStep, OtherCommand

\* The steps, sorted.
LEMMA StepsSorted ==
  ASSUME [NcpZbNext]_zbCmdVars
  PROVE  \/ OtherStep \/ ReadAttr \/ (\E r \in zdo : ZdoResult(r))
         \/ \E ok \in BOOLEAN : \/ AskNetwork("bind", ok) \/ AskNetwork("match", ok)
                                \/ ApsDataRequest(ok)
BY DEF NcpZbNext, ZbCallback, ZbCommand, OtherStep, OtherCommand, SetBind, FindMatch

LEMMA BlocksStep ==
  ASSUME BlocksInv, [NcpZbNext]_zbCmdVars
  PROVE  BlocksInv'
<1>1. CASE OtherStep
  BY <1>1, OtherKeepsBlocks DEF BlocksInv, Blocks, OwnCallback
<1>2. CASE ReadAttr
  BY <1>2, ReadKeeps
<1>3. CASE \E r \in zdo : ZdoResult(r)
  BY <1>3, ResultKeeps
<1>4. ASSUME NEW ok \in BOOLEAN, AskNetwork("bind", ok) \/ AskNetwork("match", ok)
      PROVE  BlocksInv'
  BY <1>4, AskKeeps
<1>5. ASSUME NEW ok \in BOOLEAN, ApsDataRequest(ok)
      PROVE  BlocksInv'
  <2>1. UNCHANGED contexts /\ asked' = asked + 1 /\ asked \in Nat
    BY <1>5 DEF ApsDataRequest, Asks, BlocksInv
  <2>2. 1..asked \subseteq 1..asked' /\ asked' \in Nat
    BY <2>1
  <2>3. OwnCallback'
    BY <2>1 DEF BlocksInv, OwnCallback
  <2>4. Blocks'
    BY <2>1, <2>2 DEF BlocksInv, Blocks
  <2>5. QED
    BY <2>2, <2>3, <2>4 DEF BlocksInv
<1>6. QED
  BY StepsSorted, <1>1, <1>2, <1>3, <1>4, <1>5

\* A SUCCESS that was true remains true.
LEMMA SuccessRemains ==
  ASSUME SuccessTrue, UNCHANGED <<cmd, channels, asked>>, flags.init => flags'.init,
         bdb # "off" => bdb' # "off",
         asked \in DOMAIN result \cup { r.n : r \in zdo }
           => asked \in DOMAIN result' \cup { r.n : r \in zdo' }
  PROVE  SuccessTrue'
BY DEF SuccessTrue

LEMMA SuccessStep ==
  ASSUME ZbCmdInv, BlocksInv, [NcpZbNext]_zbCmdVars
  PROVE  SuccessTrue'
<1>0. SuccessTrue /\ (bdb # "off" => bdb' # "off")
  BY CommissioningStep DEF ZbCmdInv, NcpZbInv
<1>1. CASE ZbMain
  BY <1>1 DEF ZbMain, Respond, PollEnds, Idle, SuccessTrue
<1>2. CASE ZbSignals \/ ApsHandle \/ ApsReturn \/ UNCHANGED zbCmdVars
  <2>1. UNCHANGED <<cmd, channels, asked, flags, contexts>>
    BY <1>2 DEF ZbSignals, SkipStartup, FormAlarm, Steering, Started, Formation,
                ApsHandle, ApsReturn, zbCmdVars
  <2>2. QED
    BY <1>0, <2>1, SuccessRemains
<1>3. CASE \E k \in ApsKinds : ApsEvent(k)
  <2>1. UNCHANGED <<cmd, channels, asked, flags, contexts>>
    BY <1>3 DEF ApsEvent
  <2>2. QED
    BY <1>0, <2>1, SuccessRemains
<1>4. ASSUME NEW r \in zdo, ZdoResult(r)
      PROVE  SuccessTrue'
  <2>1. UNCHANGED <<cmd, channels, asked, flags>> /\ zdo' = zdo \ {r}
    BY <1>4 DEF ZdoResult
  <2>2. r.n \in DOMAIN result' /\ \A n \in DOMAIN result : n \in DOMAIN result'
    BY <1>4, ResultKeeps
  <2>3. asked \in DOMAIN result \cup { q.n : q \in zdo }
          => asked \in DOMAIN result' \cup { q.n : q \in zdo' }
    BY <2>1, <2>2
  <2>4. QED
    BY <1>0, <2>1, <2>3, SuccessRemains
<1>5. CASE FormNetwork \/ AddEndpoint \/ ReadAttr \/ \E k \in ApsKinds : PollAps(k)
  BY <1>5 DEF FormNetwork, AddEndpoint, ReadAttr, PollAps, Says, Ends, SuccessTrue
<1>6. ASSUME NEW ok \in BOOLEAN, NetworkInit(ok)
      PROVE  SuccessTrue'
  <2>1. PICK mem \in BOOLEAN :
          cmd' = [op |-> "init", success |-> (ok \/ flags.init) /\ mem /\ ~flags.init]
    BY <1>6 DEF NetworkInit, Ends
  <2>2. flags' = [flags EXCEPT !.init = @ \/ ok]
    BY <1>6 DEF NetworkInit
  <2>3. flags \in Flags
    BY DEF ZbCmdInv
  <2>4. cmd'.op = "init" /\ (cmd'.success => ok)
    BY <2>1
  <2>5. ok => flags'.init
    BY <2>2, <2>3 DEF Flags
  <2>6. QED
    BY <2>4, <2>5 DEF SuccessTrue
<1>7. ASSUME NEW ok \in BOOLEAN, NEW a \in BOOLEAN, Start(ok, a)
      PROVE  SuccessTrue'
  <2>1. PICK mem \in BOOLEAN : cmd' = [op |-> "start", success |-> ok /\ mem /\ ok]
    BY <1>7 DEF Start, Says, Ends
  <2>2. ok => bdb' # "off"
    BY <1>7 DEF Start
  <2>3. cmd'.op = "start" /\ (cmd'.success => ok)
    BY <2>1
  <2>4. QED
    BY <2>2, <2>3 DEF SuccessTrue
<1>8. ASSUME NEW ok \in BOOLEAN, NEW m \in Masks, PrimaryChannelSet(m, ok)
      PROVE  SuccessTrue'
  <2>1. PICK mem \in BOOLEAN : cmd' = [op |-> "primary", success |-> ok /\ mem /\ ok]
    BY <1>8 DEF PrimaryChannelSet, Says, Ends
  <2>2. ok => channels'.kept = channels'.stack
    BY <1>8 DEF PrimaryChannelSet
  <2>3. cmd'.op = "primary" /\ (cmd'.success => ok)
    BY <2>1
  <2>4. QED
    BY <2>2, <2>3 DEF SuccessTrue
<1>9. ASSUME NEW ok \in BOOLEAN, NEW m \in Masks, ChannelSet(m, ok)
      PROVE  SuccessTrue'
  BY <1>9 DEF ChannelSet, Says, Ends, SuccessTrue
<1>10. ASSUME NEW ok \in BOOLEAN, ApsDataRequest(ok)
       PROVE  SuccessTrue'
  BY <1>10 DEF ApsDataRequest, Says, Ends, SuccessTrue
<1>11. ASSUME NEW op \in {"bind", "match"}, NEW ok \in BOOLEAN, AskNetwork(op, ok)
       PROVE  SuccessTrue'
  <2>1. PICK mem \in BOOLEAN : cmd' = [op |-> op, success |-> ok /\ mem /\ ok]
    BY <1>11 DEF AskNetwork, Says, Ends
  <2>2. ok => \E r \in zdo' : r.n = asked'
    BY <1>11, AskKeeps
  <2>3. cmd'.op = op /\ (cmd'.success => ok)
    BY <2>1
  <2>4. QED
    BY <2>2, <2>3 DEF SuccessTrue
<1>12. QED
  BY <1>1, <1>2, <1>3, <1>4, <1>5, <1>6, <1>7, <1>8, <1>9, <1>10, <1>11, StepsSorted
     DEF OtherStep, OtherCommand

\* The queues of the APS events, the callback in hand and the poll.
ApsTyped == /\ made \in Made /\ given \in [ApsKinds -> Pairs]
            /\ apsq \in [ApsKinds -> Seq(Pairs) \cup {Closed}]
ApsInv   == ApsTyped /\ (\A k \in ApsKinds : ApsQueued(k)) /\ ApsInHand /\ Polled

\* What a step does with the event the host was given last.
GivenLater == \A k \in ApsKinds : given'[k] # given[k] =>
                given'[k][1] = k /\ given'[k][2] > given[k][2]

LEMMA ApsUntouched ==
  ASSUME ApsInv, UNCHANGED <<apsq, given, hand>>, made' \in Made,
         \A k \in ApsKinds : made'[k] = made[k],
         cmd' = cmd \/ cmd'.op # "poll"
  PROVE  ApsInv' /\ GivenLater
<1>1. ApsTyped'
  BY DEF ApsInv, ApsTyped
<1>2. ASSUME NEW k \in ApsKinds
      PROVE  ApsQueued(k)'
  <2>1. ApsQueued(k) /\ made'[k] = made[k]
    BY DEF ApsInv
  <2>2. QED
    BY <2>1 DEF ApsQueued
<1>3. ApsInHand'
  <2>1. ApsInHand
    BY DEF ApsInv
  <2>2. hand.op # "none" => hand.ev[1] \in ApsKinds
    BY <2>1 DEF ApsInHand, Pairs
  <2>3. QED
    BY <2>1, <2>2 DEF ApsInHand
<1>4. Polled'
  BY DEF ApsInv, Polled
<1>5. QED
  BY <1>1, <1>2, <1>3, <1>4 DEF ApsInv, GivenLater

LEMMA PollOpens ==
  ASSUME ApsInv, NEW k \in ApsKinds, PollAps(k)
  PROVE  ApsInv' /\ GivenLater
<1> USE DEF PollAps
<1>0. ApsTyped /\ ApsInHand /\ Polled
  BY DEF ApsInv
<1>1. /\ apsq' = [j \in ApsKinds |-> IF j = k /\ apsq[k] = Closed THEN <<>> ELSE apsq[j]]
      /\ UNCHANGED <<given, hand, made>> /\ cmd'.kind = k
  BY <1>0 DEF ApsTyped
<1>2. <<>> \in Seq(Pairs) /\ <<>> # Closed
  <2>1. <<>> \in Seq(Pairs)
    OBVIOUS
  <2>2. QED
    BY <2>1, QueueNotClosed
<1>3. apsq' \in [ApsKinds -> Seq(Pairs) \cup {Closed}]
  BY <1>0, <1>1, <1>2 DEF ApsTyped
<1>4. \A j \in ApsKinds : /\ apsq'[j] = apsq[j] \/ apsq'[j] = <<>>
                          /\ apsq[j] # Closed => apsq'[j] = apsq[j]
  BY <1>1
<1>5. apsq'[k] # Closed
  BY <1>1, <1>2
<1> HIDE DEF PollAps
<1>6. ASSUME NEW j \in ApsKinds
      PROVE  ApsQueued(j)'
  <2>1. ApsQueued(j)
    BY DEF ApsInv
  <2>2. CASE apsq'[j] = <<>>
    BY <1>1, <2>1, <2>2 DEF ApsQueued
  <2>3. CASE apsq'[j] = apsq[j]
    BY <1>1, <2>1, <2>3 DEF ApsQueued
  <2>4. QED
    BY <1>4, <2>2, <2>3
<1>7. ApsInHand'
  <2>1. hand.op # "none" => hand.ev[1] \in ApsKinds
    BY <1>0 DEF ApsInHand, Pairs
  <2>2. ASSUME hand.op = "handle"
        PROVE  LET j == hand.ev[1] IN
                 /\ apsq'[j] # Closed => \A i \in 1..Len(apsq'[j]) : apsq'[j][i][2] < made[j]
                 /\ IF hand.polled THEN apsq'[j] # Closed ELSE apsq'[j] \in {Closed, <<>>}
    <3> DEFINE j == hand.ev[1]
    <3>0. j \in ApsKinds
      BY <2>1, <2>2
    <3>1. /\ apsq[j] # Closed => \A i \in 1..Len(apsq[j]) : apsq[j][i][2] < made[j]
          /\ IF hand.polled THEN apsq[j] # Closed ELSE apsq[j] \in {Closed, <<>>}
      BY <1>0, <2>2 DEF ApsInHand
    <3> HIDE DEF j
    <3>2. CASE apsq'[j] = apsq[j]
      BY <3>1, <3>2 DEF j
    <3>3. CASE apsq'[j] = <<>> /\ apsq[j] = Closed
      BY <3>1, <3>3 DEF j
    <3>4. QED
      BY <1>4, <3>0, <3>2, <3>3
  <2>3. QED
    BY <1>0, <1>1, <1>4, <2>1, <2>2 DEF ApsInHand
<1>8. ApsTyped' /\ Polled' /\ GivenLater
  BY <1>0, <1>1, <1>3, <1>5 DEF ApsTyped, Polled, GivenLater
<1>9. QED
  BY <1>6, <1>7, <1>8 DEF ApsInv

LEMMA PollTakes ==
  ASSUME ApsInv, PollEnds
  PROVE  ApsInv' /\ GivenLater
<1>k. PICK k \in ApsKinds : k = cmd.kind
  BY DEF ApsInv, Polled, PollEnds
<1>0. ApsTyped /\ ApsInHand /\ apsq[k] # Closed /\ ApsQueued(k)
  BY <1>k DEF ApsInv, Polled, PollEnds
<1>1. UNCHANGED <<hand, made>> /\ cmd'.op # "poll"
  BY DEF PollEnds
<1>2. CASE UNCHANGED <<apsq, given>>
  BY <1>0, <1>1, <1>2, ApsUntouched DEF ApsTyped
<1>3. CASE /\ apsq[k] # <<>> /\ apsq' = [apsq EXCEPT ![k] = Tail(@)]
           /\ given' = [given EXCEPT ![k] = Head(apsq[k])]
  <2> DEFINE s == apsq[k]
             n == Len(s)
  <2>1. s \in Seq(Pairs) /\ s # <<>>
    BY <1>0, <1>3 DEF ApsTyped
  <2>2. /\ Head(s) = s[1] /\ s[1] \in Pairs /\ n \in Nat /\ n > 0
        /\ Tail(s) \in Seq(Pairs) /\ Len(Tail(s)) = n - 1
        /\ \A i \in 1..(n - 1) : Tail(s)[i] = s[i + 1]
    BY <2>1
  <2>3. Tail(s) # Closed
    BY <2>2, QueueNotClosed
  <2>4. /\ apsq' = [j \in ApsKinds |-> IF j = k THEN Tail(s) ELSE apsq[j]]
        /\ given' = [j \in ApsKinds |-> IF j = k THEN s[1] ELSE given[j]]
    BY <1>0, <1>3, <2>2 DEF ApsTyped
  <2>5. /\ apsq'[k] = Tail(s) /\ given'[k] = s[1]
        /\ \A j \in ApsKinds \ {k} : apsq'[j] = apsq[j] /\ given'[j] = given[j]
    BY <1>0, <2>4
  <2>6. ApsTyped'
    BY <1>0, <1>1, <2>2, <2>4 DEF ApsTyped
  <2>7. /\ \A i \in 1..n : s[i][1] = k /\ given[k][2] < s[i][2] /\ s[i][2] <= made[k]
        /\ \A i, j \in 1..n : i < j => s[i][2] < s[j][2]
    BY <1>0 DEF ApsQueued
  <2>8. 1 \in 1..n /\ \A i \in 1..(n - 1) : i + 1 \in 1..n
    BY <2>2
  <2>9. ApsQueued(k)'
    <3>1. given'[k][1] = k /\ given'[k][2] <= made'[k]
      BY <1>1, <2>5, <2>7, <2>8
    <3>2. \A i \in 1..(n - 1) : /\ Tail(s)[i][1] = k /\ s[1][2] < Tail(s)[i][2]
                                /\ Tail(s)[i][2] <= made[k]
      BY <2>2, <2>7, <2>8
    <3>3. \A i, j \in 1..(n - 1) : i < j => Tail(s)[i][2] < Tail(s)[j][2]
      BY <2>2, <2>7, <2>8, SMTT(30)
    <3> HIDE DEF s, n
    <3>4. QED
      BY <1>1, <2>2, <2>5, <3>1, <3>2, <3>3 DEF ApsQueued
  <2>10. ASSUME NEW j \in ApsKinds, j # k
         PROVE  ApsQueued(j)'
    <3>1. ApsQueued(j)
      BY DEF ApsInv
    <3>2. QED
      BY <1>1, <2>5, <2>10, <3>1 DEF ApsQueued
  <2>11. GivenLater
    <3>1. s[1][1] = k /\ s[1][2] > given[k][2]
      <4>1. given[k][2] \in Nat /\ s[1][2] \in Nat
        BY <1>0, <2>2 DEF ApsTyped, Pairs
      <4>2. QED
        BY <2>7, <2>8, <4>1
    <3>2. QED
      BY <2>5, <3>1 DEF GivenLater
  <2>12. ApsInHand'
    <3>1. hand.op # "none" => hand.ev[1] \in ApsKinds
      BY <1>0 DEF ApsInHand, Pairs
    <3>2. CASE hand.op # "none" /\ hand.ev[1] # k
      BY <1>0, <1>1, <2>5, <3>1, <3>2 DEF ApsInHand
    <3>3. CASE hand.op = "none"
      BY <1>1, <3>3 DEF ApsInHand
    <3>4. CASE hand.op # "none" /\ hand.ev[1] = k
      <4>1. hand.op = "handle" =>
              /\ hand.ev[2] = made[k] /\ given[k][2] < made[k] /\ hand.polled
              /\ \A i \in 1..n : s[i][2] < made[k]
        BY <1>0, <2>1, <2>3, <3>4 DEF ApsInHand
      <4>2. hand.op = "handle" =>
              s[1][2] < made[k] /\ \A i \in 1..(n - 1) : Tail(s)[i][2] < made[k]
        BY <2>2, <2>8, <4>1
      <4>3. hand.op \in {"none", "handle", "return"} /\ hand.ev \in Pairs
        BY <1>0, <3>4 DEF ApsInHand
      <4> HIDE DEF s, n
      <4>4. QED
        BY <1>1, <2>2, <2>3, <2>5, <3>4, <4>1, <4>2, <4>3 DEF ApsInHand
    <3>5. QED
      BY <3>2, <3>3, <3>4
  <2>13. QED
    BY <1>1, <2>6, <2>9, <2>10, <2>11, <2>12 DEF ApsInv, Polled
<1>4. QED
  BY <1>2, <1>3, <1>k DEF PollEnds

LEMMA EventMade ==
  ASSUME ApsInv, NEW k \in ApsKinds, ApsEvent(k)
  PROVE  ApsInv' /\ GivenLater
<1>0. ApsTyped /\ Polled /\ \A j \in ApsKinds : ApsQueued(j)
  BY DEF ApsInv
<1>1. /\ made' \in Made /\ made'[k] = made[k] + 1 /\ made[k] \in Nat
      /\ \A j \in ApsKinds : j # k => made'[j] = made[j]
  BY <1>0, MadeMore DEF ApsTyped, ApsEvent
<1>2. /\ hand' = [op |-> "handle", ev |-> <<k, made[k] + 1>>, polled |-> apsq[k] # Closed]
      /\ UNCHANGED <<apsq, given, cmd>>
  BY DEF ApsEvent
<1>3. ASSUME NEW j \in ApsKinds
      PROVE  ApsQueued(j)'
  <2>1. made[j] \in Nat /\ made'[j] \in Nat /\ made[j] <= made'[j]
    BY <1>0, <1>1, MadeTyped DEF ApsTyped
  <2>2. given[j] \in Pairs /\ (apsq[j] # Closed => apsq[j] \in Seq(Pairs))
    BY <1>0 DEF ApsTyped
  <2>3. apsq[j] # Closed => \A i \in 1..Len(apsq[j]) : apsq[j][i][2] \in Nat
    BY <2>2, ElementOfSeq DEF Pairs
  <2>4. ApsQueued(j) /\ given[j][2] \in Nat
    BY <1>0, <2>2 DEF Pairs
  <2>5. QED
    BY <1>2, <2>1, <2>3, <2>4 DEF ApsQueued
<1>4. ApsInHand'
  <2>1. /\ hand'.op = "handle" /\ hand'.ev = <<k, made[k] + 1>>
        /\ hand'.polled = (apsq[k] # Closed) /\ hand'.ev[1] = k /\ hand'.ev[2] = made'[k]
    BY <1>1, <1>2
  <2>2. hand'.ev \in Pairs
    BY <1>1, <2>1 DEF Pairs
  <2>3. given[k][2] < made'[k]
    <3>1. given[k][2] <= made[k] /\ given[k][2] \in Nat
      BY <1>0 DEF ApsTyped, ApsQueued, Pairs
    <3>2. QED
      BY <1>1, <3>1
  <2>4. apsq[k] # Closed => \A i \in 1..Len(apsq[k]) : apsq[k][i][2] < made'[k]
    <3>1. apsq[k] # Closed => \A i \in 1..Len(apsq[k]) : apsq[k][i] \in Pairs
      BY <1>0, ElementOfSeq DEF ApsTyped
    <3>2. apsq[k] # Closed => \A i \in 1..Len(apsq[k]) : apsq[k][i][2] <= made[k]
      BY <1>0 DEF ApsQueued
    <3>3. QED
      BY <1>1, <3>1, <3>2 DEF Pairs
  <2>5. QED
    BY <1>2, <2>1, <2>2, <2>3, <2>4 DEF ApsInHand
<1>5. QED
  BY <1>0, <1>1, <1>2, <1>3, <1>4 DEF ApsInv, ApsTyped, Polled, GivenLater

LEMMA EventHandled ==
  ASSUME ApsInv, ApsHandle
  PROVE  ApsInv' /\ GivenLater
<1>0. ApsTyped /\ Polled /\ ApsInHand /\ hand.op = "handle" /\ UNCHANGED <<made, cmd>>
  BY DEF ApsInv, ApsHandle
<1>1. PICK k \in ApsKinds, n \in Nat : hand.ev = <<k, n>>
  BY <1>0 DEF ApsInHand, Pairs
<1>2. /\ hand.ev \in Pairs /\ hand.ev[1] = k /\ hand.ev[2] = n
      /\ n = made[k] /\ given[k][2] < n
      /\ apsq[k] # Closed => \A i \in 1..Len(apsq[k]) : apsq[k][i][2] < n
      /\ IF hand.polled THEN apsq[k] # Closed ELSE apsq[k] \in {Closed, <<>>}
  BY <1>0, <1>1 DEF ApsInHand
<1>3. PICK got \in {"host", "queue", "nobody"} :
        /\ hand' = [op |-> "return", ev |-> hand.ev, got |-> got]
        /\ got = "host"   => /\ ~hand.polled /\ apsq' = apsq
                             /\ given' = [given EXCEPT ![k] = hand.ev]
        /\ got = "queue"  => /\ hand.polled /\ given' = given
                             /\ apsq' = [apsq EXCEPT ![k] = Append(apsq[k], hand.ev)]
        /\ got = "nobody" => apsq' = apsq /\ given' = given
  BY <1>2 DEF ApsHandle, EventQueue
<1>4. CASE got = "nobody"
  <2>1. ApsInHand'
    BY <1>2, <1>3, <1>4 DEF ApsInHand
  <2>2. QED
    BY <1>0, <1>3, <1>4, <2>1 DEF ApsInv, ApsTyped, Polled, ApsQueued, GivenLater
<1>5. CASE got = "host"
  <2>1. /\ given'[k] = <<k, n>> /\ apsq' = apsq /\ given' \in [ApsKinds -> Pairs]
        /\ \A j \in ApsKinds : j # k => given'[j] = given[j]
    BY <1>0, <1>1, <1>2, <1>3, <1>5 DEF ApsTyped
  <2>2. apsq[k] # Closed => Len(apsq[k]) = 0
    BY <1>2, <1>3, <1>5
  <2>3. ASSUME NEW j \in ApsKinds
        PROVE  ApsQueued(j)'
    <3>1. CASE j # k
      BY <1>0, <2>1, <3>1 DEF ApsQueued, ApsInv
    <3>2. CASE j = k
      <4>1. given'[k][1] = k /\ given'[k][2] = n
        BY <2>1
      <4>2. QED
        BY <1>0, <1>2, <2>1, <2>2, <3>2, <4>1 DEF ApsQueued
    <3>3. QED
      BY <3>1, <3>2
  <2>4. GivenLater
    <3>1. given'[k][1] = k /\ given'[k][2] = n /\ given[k][2] \in Nat
      BY <1>0, <2>1 DEF ApsTyped, Pairs
    <3>2. QED
      BY <1>2, <2>1, <3>1 DEF GivenLater
  <2>5. ApsInHand'
    BY <1>2, <1>3, <1>5 DEF ApsInHand
  <2>6. QED
    BY <1>0, <2>1, <2>3, <2>4, <2>5 DEF ApsInv, ApsTyped, Polled
<1>6. CASE got = "queue"
  <2> DEFINE s == apsq[k]
             m == Len(s)
             t == Append(s, hand.ev)
  <2>1. s \in Seq(Pairs) /\ s # Closed
    BY <1>0, <1>2, <1>3, <1>6 DEF ApsTyped
  <2>2. /\ m \in Nat /\ t \in Seq(Pairs) /\ Len(t) = m + 1 /\ t[m + 1] = hand.ev
        /\ \A i \in 1..m : t[i] = s[i] /\ s[i] \in Pairs
    BY <1>2, <2>1, AppendProperties, ElementOfSeq
  <2>3. t # Closed
    BY <2>2, QueueNotClosed
  <2> HIDE DEF t
  <2>4. /\ apsq'[k] = t /\ given' = given /\ apsq' \in [ApsKinds -> Seq(Pairs) \cup {Closed}]
        /\ \A j \in ApsKinds : j # k => apsq'[j] = apsq[j]
    <3>1. apsq' = [apsq EXCEPT ![k] = t] /\ given' = given
      BY <1>3, <1>6 DEF t
    <3>2. QED
      BY <1>0, <2>2, <3>1 DEF ApsTyped
  <2>5. /\ \A i \in 1..m : s[i][1] = k /\ given[k][2] < s[i][2] /\ s[i][2] < n
        /\ \A i, j \in 1..m : i < j => s[i][2] < s[j][2]
    BY <1>0, <1>2, <2>1 DEF ApsInv, ApsQueued
  <2>6. \A i \in 1..(m + 1) : i \in 1..m \/ i = m + 1
    BY <2>2
  <2>7. /\ \A i \in 1..(m + 1) : t[i][1] = k /\ given[k][2] < t[i][2] /\ t[i][2] <= n
        /\ \A i, j \in 1..(m + 1) : i < j => t[i][2] < t[j][2]
    <3>1. \A i \in 1..m : t[i][1] = k /\ given[k][2] < t[i][2] /\ t[i][2] < n /\ t[i][2] \in Nat
      BY <2>2, <2>5 DEF Pairs
    <3>2. t[m + 1][1] = k /\ t[m + 1][2] = n
      BY <1>2, <2>2
    <3>3. \A i, j \in 1..m : i < j => t[i][2] < t[j][2]
      BY <2>2, <2>5
    <3>4. \A i, j \in 1..(m + 1) : i < j => i \in 1..m
      BY <2>2
    <3> HIDE DEF s, m
    <3>5. ASSUME NEW i \in 1..(m + 1)
          PROVE  t[i][1] = k /\ given[k][2] < t[i][2] /\ t[i][2] <= n
      BY <1>2, <2>6, <3>1, <3>2
    <3>6. ASSUME NEW i \in 1..(m + 1), NEW j \in 1..(m + 1), i < j
          PROVE  t[i][2] < t[j][2]
      BY <2>6, <3>1, <3>2, <3>3, <3>4, <3>6
    <3>7. QED
      BY <3>5, <3>6
  <2> HIDE DEF s, m
  <2>8. ApsQueued(k)'
    <3>1. ApsQueued(k)
      BY <1>0 DEF ApsInv
    <3>2. QED
      BY <1>0, <1>2, <2>2, <2>4, <2>7, <3>1 DEF ApsQueued
  <2>9. \A j \in ApsKinds : j # k => ApsQueued(j)'
    <3>1. ASSUME NEW j \in ApsKinds, j # k
          PROVE  ApsQueued(j)'
      <4>1. ApsQueued(j) /\ apsq'[j] = apsq[j] /\ given'[j] = given[j] /\ made'[j] = made[j]
        BY <1>0, <2>4, <3>1 DEF ApsInv
      <4>2. QED
        BY <4>1 DEF ApsQueued
    <3>2. QED
      BY <3>1
  <2>10. ApsInHand'
    BY <1>2, <1>3, <1>6, <2>3, <2>4 DEF ApsInHand
  <2>11. QED
    BY <1>0, <2>3, <2>4, <2>8, <2>9, <2>10 DEF ApsInv, ApsTyped, Polled, GivenLater
<1>7. QED
  BY <1>4, <1>5, <1>6

LEMMA CallbackReturns ==
  ASSUME ApsInv, ApsReturn
  PROVE  ApsInv' /\ GivenLater /\ (hand.got = "queue" /\ hand.ev[1] = "ind" => Consumed)
<1>1. UNCHANGED <<apsq, made, given, cmd>> /\ hand.op = "return" /\ hand'.op = "none"
  BY DEF ApsReturn, Idle
<1>2. hand.got = "queue" /\ hand.ev[1] = "ind" => Consumed
  BY <1>1 DEF ApsInv, ApsInHand, Consumed
<1>3. ApsInHand'
  BY <1>1 DEF ApsInHand
<1>4. QED
  BY <1>1, <1>2, <1>3 DEF ApsInv, ApsTyped, ApsQueued, Polled, GivenLater

LEMMA ApsStep ==
  ASSUME ApsInv, [NcpZbNext]_zbCmdVars
  PROVE  /\ ApsInv' /\ GivenLater
         /\ ApsReturn /\ hand.got = "queue" /\ hand.ev[1] = "ind" => Consumed
<1> DEFINE Goal == ApsInv' /\ GivenLater
<1>0. made \in Made
  BY DEF ApsInv, ApsTyped
<1>1. ASSUME UNCHANGED <<apsVars, cmd>>
      PROVE  Goal
  BY <1>0, <1>1, ApsUntouched
<1>2. ASSUME Respond \/ ReadAttr \/ FormNetwork \/ AddEndpoint
      PROVE  Goal
  <2>1. UNCHANGED apsVars /\ cmd'.op # "poll"
    BY <1>2 DEF Respond, ReadAttr, FormNetwork, AddEndpoint, Says, Ends, Idle
  <2>2. QED
    BY <1>0, <2>1, ApsUntouched
<1>3. ASSUME NEW ok \in BOOLEAN, NEW op \in {"bind", "match"}, AskNetwork(op, ok)
      PROVE  Goal
  <2>1. UNCHANGED apsVars /\ cmd'.op # "poll"
    BY <1>3 DEF AskNetwork, Says, Ends
  <2>2. QED
    BY <1>0, <2>1, ApsUntouched
<1>4. ASSUME NEW ok \in BOOLEAN, NEW a \in BOOLEAN, NetworkInit(ok) \/ Start(ok, a)
      PROVE  Goal
  <2>1. UNCHANGED apsVars /\ cmd'.op # "poll"
    BY <1>4 DEF NetworkInit, Start, Says, Ends
  <2>2. QED
    BY <1>0, <2>1, ApsUntouched
<1>5. ASSUME NEW ok \in BOOLEAN, NEW m \in Masks, PrimaryChannelSet(m, ok) \/ ChannelSet(m, ok)
      PROVE  Goal
  <2>1. UNCHANGED apsVars /\ cmd'.op # "poll"
    BY <1>5 DEF PrimaryChannelSet, ChannelSet, Says, Ends
  <2>2. QED
    BY <1>0, <2>1, ApsUntouched
<1>6. ASSUME NEW ok \in BOOLEAN, ApsDataRequest(ok)
      PROVE  Goal
  <2>1. /\ UNCHANGED <<apsq, given, hand>> /\ cmd'.op # "poll"
        /\ made' = [made EXCEPT !.registered = TRUE, !.due = IF ok THEN @ + 1 ELSE @]
    BY <1>6 DEF ApsDataRequest, Says, Ends
  <2>2. made' = [registered |-> TRUE, due |-> IF ok THEN made.due + 1 ELSE made.due,
                 ind |-> made.ind, conf |-> made.conf]
    BY <1>0, <2>1 DEF Made
  <2>3. made' \in Made /\ made'["ind"] = made["ind"] /\ made'["conf"] = made["conf"]
    BY <1>0, <2>2 DEF Made
  <2>4. QED
    BY <2>1, <2>3, ApsUntouched DEF ApsKinds
<1>7. ASSUME SkipStartup \/ FormAlarm \/ Steering \/ (\E r \in zdo : ZdoResult(r))
      PROVE  Goal
  BY <1>1, <1>7 DEF SkipStartup, FormAlarm, Steering, ZdoResult
<1>8. ASSUME NEW ok \in BOOLEAN, Started(ok) \/ Formation(ok)
      PROVE  Goal
  BY <1>1, <1>8 DEF Started, Formation
<1>9. ASSUME ApsReturn
      PROVE  Goal
  BY <1>9, CallbackReturns
<1>10. ASSUME ApsHandle
      PROVE  Goal
  BY <1>10, EventHandled
<1>11. ASSUME PollEnds
      PROVE  Goal
  BY <1>11, PollTakes
<1>12. ASSUME NEW k \in ApsKinds, PollAps(k) \/ ApsEvent(k)
       PROVE  Goal
  BY <1>12, PollOpens, EventMade
<1>13. ASSUME UNCHANGED zbCmdVars
      PROVE  Goal
  BY <1>1, <1>13 DEF zbCmdVars
<1> HIDE DEF Goal
<1>14. ASSUME ZbMain \/ ZbSignals \/ OtherStep
      PROVE  Goal
  BY <1>2, <1>4, <1>5, <1>7, <1>8, <1>9, <1>10, <1>11, <1>12, <1>13, <1>14
     DEF ZbMain, ZbSignals, OtherStep, OtherCommand
<1>15. Goal
  BY <1>2, <1>3, <1>6, <1>7, <1>14, StepsSorted
<1>16. QED
  BY <1>15, CallbackReturns DEF Goal

LEMMA FlagsStep ==
  ASSUME flags \in Flags, [NcpZbNext]_zbCmdVars
  PROVE  flags' \in Flags
<1>1. CASE UNCHANGED flags
  BY <1>1
<1>2. CASE ZbMain \/ ZbSignals \/ ApsHandle \/ ApsReturn \/ UNCHANGED zbCmdVars
  BY <1>1, <1>2 DEF ZbMain, Respond, PollEnds, ZbSignals, SkipStartup, FormAlarm, Steering,
                    Started, Formation, ApsHandle, ApsReturn, zbCmdVars
<1>3. CASE ReadAttr \/ AddEndpoint \/ (\E r \in zdo : ZdoResult(r))
           \/ (\E k \in ApsKinds : PollAps(k) \/ ApsEvent(k))
  BY <1>1, <1>3 DEF ReadAttr, AddEndpoint, ZdoResult, PollAps, ApsEvent
<1>4. ASSUME NEW ok \in BOOLEAN,
             ApsDataRequest(ok) \/ AskNetwork("bind", ok) \/ AskNetwork("match", ok)
      PROVE  flags' \in Flags
  BY <1>1, <1>4 DEF ApsDataRequest, AskNetwork
<1>5. ASSUME NEW ok \in BOOLEAN, NEW m \in Masks, PrimaryChannelSet(m, ok) \/ ChannelSet(m, ok)
      PROVE  flags' \in Flags
  BY <1>1, <1>5 DEF PrimaryChannelSet, ChannelSet
<1>6. flags = [init |-> flags.init, up |-> flags.up, start |-> flags.start]
      /\ flags.init \in BOOLEAN /\ flags.up \in BOOLEAN /\ flags.start \in BOOLEAN
  BY DEF Flags
<1>7. ASSUME NEW ok \in BOOLEAN, NEW a \in BOOLEAN, NetworkInit(ok) \/ Start(ok, a) \/ FormNetwork
      PROVE  flags' \in Flags
  <2>1. PICK b \in BOOLEAN, c \in BOOLEAN, d \in BOOLEAN :
          flags' = [init |-> b, up |-> c, start |-> d]
    <3>1. CASE NetworkInit(ok)
      <4>1. flags' = [init |-> flags.init \/ ok, up |-> flags.up, start |-> flags.start]
        BY <1>6, <3>1 DEF NetworkInit
      <4>2. QED
        BY <1>6, <4>1
    <3>2. CASE Start(ok, a) \/ FormNetwork
      BY <1>6, <3>2 DEF Start, FormNetwork
    <3>3. QED
      BY <1>7, <3>1, <3>2
  <2>2. QED
    BY <2>1 DEF Flags
<1>8. CASE OtherStep
  BY <1>2, <1>3, <1>5, <1>7, <1>8 DEF OtherStep, OtherCommand
<1>9. QED
  BY <1>3, <1>4, <1>8, StepsSorted

LEMMA ZbStep ==
  ASSUME ZbCmdInv, [NcpZbNext]_zbCmdVars
  PROVE  /\ ZbCmdInv' /\ GivenLater
         /\ ApsReturn /\ hand.got = "queue" /\ hand.ev[1] = "ind" => Consumed
<1>1. BlocksInv /\ ApsInv /\ flags \in Flags
  BY DEF ZbCmdInv, NcpZbInv, BlocksInv, ApsInv, ApsTyped
<1>2. OneCommissioning' /\ formAlarm' \in Nat
  BY CommissioningStep
<1>3. SuccessTrue'
  BY <1>1, SuccessStep
<1>4. BlocksInv'
  BY <1>1, BlocksStep
<1>5. /\ ApsInv' /\ GivenLater
      /\ ApsReturn /\ hand.got = "queue" /\ hand.ev[1] = "ind" => Consumed
  BY <1>1, ApsStep
<1>6. flags' \in Flags
  BY <1>1, FlagsStep
<1>7. ZbCmdInv'
  BY <1>2, <1>3, <1>4, <1>5, <1>6 DEF ZbCmdInv, NcpZbInv, BlocksInv, ApsInv, ApsTyped
<1>8. QED
  BY <1>5, <1>7

HIDE DEF ZbTyped, network, contexts, apsVars

-----------------------------------------------------------------------------
(* Sequences of units.                                                     *)

AllKinds == {"none", "cmd", "poll", "null", "unknown", "bad", "resp", "err", "ind", "noti"}
AnyFrame == [kind : AllKinds, n : Nat, re : Nat, size : Nat]
Full     == { f \in AnyFrame : f.size > 0 }
Unit     == AnyFrame \X Nat

LEMMA Concatenation ==
  ASSUME NEW S, NEW a \in Seq(S), NEW b \in Seq(S)
  PROVE  /\ a \o b \in Seq(S) /\ Len(a \o b) = Len(a) + Len(b)
         /\ \A i \in 1..Len(a) : (a \o b)[i] = a[i]
         /\ \A i \in 1..Len(b) : (a \o b)[Len(a) + i] = b[i]
BY ConcatProperties

\* Every place of a concatenation is in the one or the other part.
LEMMA Parts ==
  ASSUME NEW m \in Nat, NEW n \in Nat, NEW i \in 1..(m + n)
  PROVE  i \in 1..m \/ \E j \in 1..n : i = m + j
<1>1. CASE i > m
  <2>1. i - m \in 1..n /\ i = m + (i - m)
    BY <1>1
  <2>2. QED
    BY <2>1
<1>2. QED
  BY <1>1

LEMMA TakeAndDrop ==
  ASSUME NEW S, NEW b \in Seq(S), NEW n \in Nat, n <= Len(b)
  PROVE  /\ Take(b, n) \in Seq(S) /\ Len(Take(b, n)) = n
         /\ \A i \in 1..n : Take(b, n)[i] = b[i]
         /\ Drop(b, n) \in Seq(S) /\ Len(Drop(b, n)) = Len(b) - n
         /\ \A i \in 1..(Len(b) - n) : Drop(b, n)[i] = b[n + i]
<1> DEFINE m == Len(b)
<1>1. m \in Nat /\ Least(n, m) = n
  BY DEF Least
<1>2. Take(b, n) = SubSeq(b, 1, n) /\ Drop(b, n) = SubSeq(b, n + 1, m)
  BY <1>1 DEF Take, Drop
<1>3. /\ SubSeq(b, 1, n) \in Seq(S) /\ Len(SubSeq(b, 1, n)) = n
      /\ \A i \in 1..n : SubSeq(b, 1, n)[i] = b[i]
  BY <1>1
<1>4. /\ SubSeq(b, n + 1, m) \in Seq(S) /\ Len(SubSeq(b, n + 1, m)) = m - n
      /\ \A i \in 1..(m - n) : SubSeq(b, n + 1, m)[i] = b[n + i]
  BY <1>1
<1>5. QED
  BY <1>2, <1>3, <1>4

LEMMA TakeTooFew ==
  ASSUME NEW S, NEW b \in Seq(S), NEW n \in Nat, Len(b) < n
  PROVE  Drop(b, n) = <<>> /\ Take(b, n) = b
<1>1. Least(n, Len(b)) = Len(b) /\ Len(b) \in Nat
  BY DEF Least
<1>2. QED
  BY <1>1 DEF Take, Drop

\* What is taken from the front of b follows a, the rest follows that.
LEMMA Moved ==
  ASSUME NEW S, NEW a \in Seq(S), NEW b \in Seq(S), NEW n \in Nat, n <= Len(b)
  PROVE  (a \o Take(b, n)) \o Drop(b, n) = a \o b
<1> DEFINE t == Take(b, n)
           d == Drop(b, n)
<1>1. /\ t \in Seq(S) /\ Len(t) = n /\ (\A i \in 1..n : t[i] = b[i])
      /\ d \in Seq(S) /\ Len(d) = Len(b) - n /\ \A i \in 1..(Len(b) - n) : d[i] = b[n + i]
  BY TakeAndDrop
<1> DEFINE m == Len(b) - n
           r == t \o d
<1>2. m \in Nat /\ Len(b) = n + m
  OBVIOUS
<1> HIDE DEF t, d
<1>3. /\ r \in Seq(S) /\ Len(r) = n + m
      /\ \A i \in 1..n : r[i] = t[i]
      /\ \A i \in 1..m : r[n + i] = d[i]
  BY <1>1, Concatenation
<1> HIDE DEF m, r
<1>4. ASSUME NEW i \in 1..(n + m)
      PROVE  r[i] = b[i]
  <2>1. CASE i \in 1..n
    BY <1>1, <1>3, <2>1
  <2>2. ASSUME NEW j \in 1..m, i = n + j
        PROVE  r[i] = b[i]
    <3>1. d[j] = b[n + j]
      BY <1>1, <2>2 DEF m
    <3>2. QED
      BY <1>3, <2>2, <3>1
  <2>3. QED
    BY <1>2, <2>1, <2>2, Parts
<1>5. r = b
  BY <1>2, <1>3, <1>4, SeqEqual
<1>6. (a \o t) \o d = a \o r
  BY <1>1, ConcatAssociative DEF r
<1>7. QED
  BY <1>5, <1>6 DEF t, d

LEMMA UnitsOf ==
  ASSUME NEW f \in AnyFrame
  PROVE  /\ Units(f) \in Seq(Unit) /\ Len(Units(f)) = f.size
         /\ \A i \in 1..f.size : Units(f)[i] = <<f, i>>
<1>1. f.size \in Nat
  BY DEF AnyFrame
<1>2. Units(f) \in [1..f.size -> Unit]
  BY <1>1 DEF Units, Unit
<1>3. Units(f) \in Seq(Unit)
  BY <1>1, <1>2, SeqDef
<1>4. DOMAIN Units(f) = 1..f.size /\ DOMAIN Units(f) = 1..Len(Units(f))
  BY <1>3, LenProperties DEF Units
<1>5. Len(Units(f)) = f.size
  <2>1. Len(Units(f)) \in Nat
    BY <1>3
  <2>2. 1..f.size = 1..Len(Units(f))
    BY <1>4
  <2>3. QED
    BY ONLY <1>1, <2>1, <2>2
<1>6. QED
  BY <1>3, <1>5 DEF Units

LEMMA SomeUnits ==
  ASSUME NEW f \in AnyFrame, NEW n \in Nat
  PROVE  \E m \in 0..f.size :
           /\ Take(Units(f), n) \in Seq(Unit) /\ Len(Take(Units(f), n)) = m
           /\ m <= n /\ (f.size <= n => m = f.size)
           /\ \A i \in 1..m : Take(Units(f), n)[i] = <<f, i>>
<1> DEFINE u == Units(f)
<1>1. /\ u \in Seq(Unit) /\ Len(u) = f.size /\ f.size \in Nat
      /\ \A i \in 1..f.size : u[i] = <<f, i>>
  BY UnitsOf DEF AnyFrame
<1> HIDE DEF u
<1>2. CASE n <= f.size
  <2>1. /\ Take(u, n) \in Seq(Unit) /\ Len(Take(u, n)) = n
        /\ \A i \in 1..n : Take(u, n)[i] = u[i]
    BY <1>1, <1>2, TakeAndDrop
  <2>2. n \in 0..f.size /\ \A i \in 1..n : i \in 1..f.size
    BY <1>1, <1>2
  <2>3. f.size <= n => n = f.size
    BY <1>1, <1>2
  <2>4. QED
    BY <1>1, <2>1, <2>2, <2>3 DEF u
<1>3. CASE f.size < n
  <2>1. Take(u, n) = u
    BY <1>1, <1>3, TakeTooFew
  <2>2. f.size \in 0..f.size /\ f.size <= n
    BY <1>1, <1>3
  <2>3. QED
    BY <1>1, <2>1, <2>2 DEF u
<1>4. n <= f.size \/ f.size < n
  BY <1>1
<1>5. QED
  BY <1>2, <1>3, <1>4

-----------------------------------------------------------------------------
(* Sums over the events: c[i] is the weight of those from the i-th on.     *)

Events == [event : {"none", "INPUT", "OUTPUT"}, size : Nat]
Sums(q, W, c) ==
  /\ c \in [1..(Len(q) + 1) -> Nat] /\ c[Len(q) + 1] = 0
  /\ \A i \in 1..Len(q) : c[i] = W[q[i]] + c[i + 1]
  /\ \A i, j \in 1..(Len(q) + 1) : i <= j => c[j] <= c[i]

LEMMA SumsOfNone ==
  ASSUME NEW W
  PROVE  Sums(<<>>, W, [i \in 1..1 |-> 0])
BY DEF Sums

LEMMA SumsAppend ==
  ASSUME NEW W \in [Events -> Nat], NEW q \in Seq(Events), NEW e \in Events, NEW c,
         Sums(q, W, c)
  PROVE  \E d : /\ Sums(Append(q, e), W, d)
                /\ \A i \in 1..(Len(q) + 1) : d[i] = c[i] + W[e]
<1> DEFINE n == Len(q)
           r == Append(q, e)
           d == [i \in 1..(n + 2) |-> IF i = n + 2 THEN 0 ELSE c[i] + W[e]]
<1>1. /\ n \in Nat /\ Len(r) = n + 1 /\ r[n + 1] = e /\ \A i \in 1..n : r[i] = q[i]
      /\ W[e] \in Nat
  BY AppendProperties
<1>2. /\ c \in [1..(n + 1) -> Nat] /\ c[n + 1] = 0
      /\ \A i \in 1..n : c[i] = W[q[i]] + c[i + 1]
  BY DEF Sums
<1>3. /\ d[n + 2] = 0 /\ \A i \in 1..(n + 1) : d[i] = c[i] + W[e]
  BY <1>1
<1>4. d \in [1..(n + 2) -> Nat]
  BY <1>1, <1>2
<1> HIDE DEF n, r, d
<1>5. ASSUME NEW i \in 1..(n + 1)
      PROVE  d[i] = W[r[i]] + d[i + 1]
  <2>1. CASE i \in 1..n
    <3>1. i + 1 \in 1..(n + 1) /\ c[i] \in Nat /\ c[i + 1] \in Nat /\ W[q[i]] \in Nat
      <4>1. i + 1 \in 1..(n + 1)
        BY <1>1, <2>1
      <4>2. q[i] \in Events
        BY <2>1, ElementOfSeq DEF n
      <4>3. QED
        BY <1>2, <4>1, <4>2
    <3>2. d[i] = c[i] + W[e] /\ d[i + 1] = c[i + 1] + W[e]
      BY <1>3, <3>1
    <3>3. c[i] = W[q[i]] + c[i + 1] /\ r[i] = q[i]
      BY <1>1, <1>2, <2>1
    <3>4. QED
      BY ONLY <1>1, <3>1, <3>2, <3>3
  <2>2. CASE i = n + 1
    BY <1>1, <1>2, <1>3, <2>2
  <2>3. QED
    BY <1>1, <2>1, <2>2
<1>6. Len(r) + 1 = n + 2 /\ 1..(Len(r) + 1) = 1..(n + 2) /\ 1..Len(r) = 1..(n + 1)
  BY <1>1
<1>7. ASSUME NEW i \in 1..(n + 2), NEW j \in 1..(n + 2), i <= j
      PROVE  d[j] <= d[i]
  <2>1. CASE j = n + 2
    BY <1>3, <1>4, <2>1
  <2>2. CASE j \in 1..(n + 1)
    <3>1. i \in 1..(n + 1) /\ c[i] \in Nat /\ c[j] \in Nat
      BY <1>1, <1>2, <1>7, <2>2
    <3>2. c[j] <= c[i]
      BY <1>7, <2>2, <3>1 DEF Sums, n
    <3>3. d[i] = c[i] + W[e] /\ d[j] = c[j] + W[e]
      BY <1>3, <2>2, <3>1
    <3>4. QED
      BY ONLY <1>1, <3>1, <3>2, <3>3
  <2>3. QED
    BY <1>1, <2>1, <2>2
<1>8. Sums(r, W, d)
  BY <1>1, <1>3, <1>4, <1>5, <1>6, <1>7 DEF Sums
<1>9. Sums(Append(q, e), W, d) /\ \A i \in 1..(Len(q) + 1) : d[i] = c[i] + W[e]
  BY <1>3, <1>8 DEF n, r
<1>10. QED
  BY ONLY <1>9

LEMMA SumsTail ==
  ASSUME NEW W \in [Events -> Nat], NEW q \in Seq(Events), q # <<>>, NEW c, Sums(q, W, c)
  PROVE  /\ c[1] = W[q[1]] + c[2] /\ W[q[1]] \in Nat /\ c[2] \in Nat
         /\ \E d : Sums(Tail(q), W, d) /\ \A i \in 1..Len(q) : d[i] = c[i + 1]
<1> DEFINE n == Len(q)
           t == Tail(q)
           d == [i \in 1..n |-> c[i + 1]]
<1>1. /\ n \in Nat /\ n > 0 /\ Len(t) = n - 1 /\ \A i \in 1..(n - 1) : t[i] = q[i + 1]
  OBVIOUS
<1>2. /\ c \in [1..(n + 1) -> Nat] /\ c[n + 1] = 0
      /\ \A i \in 1..n : c[i] = W[q[i]] + c[i + 1]
  BY DEF Sums
<1>3. \A i \in 1..n : d[i] = c[i + 1]
  OBVIOUS
<1>4. d \in [1..n -> Nat]
  BY <1>1, <1>2
<1> HIDE DEF t, d
<1> HIDE DEF n
<1>5. ASSUME NEW i \in 1..(n - 1)
      PROVE  d[i] = W[t[i]] + d[i + 1]
  <2>1. i \in 1..n /\ i + 1 \in 1..n
    BY <1>1
  <2>2. d[i] = c[i + 1] /\ d[i + 1] = c[(i + 1) + 1] /\ t[i] = q[i + 1]
    BY <1>1, <1>3, <2>1
  <2>3. c[i + 1] = W[q[i + 1]] + c[(i + 1) + 1]
    BY <1>2, <2>1
  <2>4. QED
    BY ONLY <2>2, <2>3
<1>6. Len(t) + 1 = n
  BY <1>1
<1>7. Sums(t, W, d)
  <2>1. d[n] = 0
    BY <1>1, <1>2, <1>3
  <2>2. ASSUME NEW i \in 1..n, NEW j \in 1..n, i <= j
        PROVE  d[j] <= d[i]
    <3>1. i + 1 \in 1..(n + 1) /\ j + 1 \in 1..(n + 1) /\ i + 1 <= j + 1
      BY <1>1, <2>2
    <3>2. c[j + 1] <= c[i + 1]
      BY <3>1 DEF Sums, n
    <3>3. QED
      BY <1>3, <3>2
  <2>3. QED
    BY <1>1, <1>4, <1>5, <1>6, <2>1, <2>2 DEF Sums
<1>8. c[1] = W[q[1]] + c[2] /\ W[q[1]] \in Nat /\ c[2] \in Nat
  <2>1. 1 \in 1..n /\ 2 \in 1..(n + 1) /\ q[1] \in Events
    BY <1>1, ElementOfSeq DEF n
  <2>2. QED
    BY <1>2, <2>1
<1>9. Sums(Tail(q), W, d) /\ \A i \in 1..Len(q) : d[i] = c[i + 1]
  BY <1>3, <1>7 DEF n, t
<1>10. QED
  BY <1>8, <1>9 DEF n

-----------------------------------------------------------------------------
(* The transport: types.                                                   *)

Log     == [sent : Nat, read : Seq(Full), handled : Seq(AnyFrame), inds : Nat]
Steps   == {"wait", "process", "poll", "check", "retry", "append", "post", "sent",
            "failed", "done"}
Sending == {"check", "retry", "append", "post"}

BufsTyped ==
  /\ rx \in Seq(Full) /\ tx \in Seq(Unit)
  /\ output_buf \in Seq(Unit) /\ Len(output_buf) <= BufSize
  /\ input_buf \in Seq(Unit) /\ Len(input_buf) <= BufSize
QueuesTyped ==
  /\ event \in Events
  /\ queue \in Seq(Events) \cup {NoQueue} /\ (queue = NoQueue \/ Len(queue) <= QueueLen)
  /\ aps \in Seq(Full) \cup {NoQueue} /\ (aps = NoQueue \/ Len(aps) <= QueueLen)
StepsOf(t) == CASE t = "main" -> Steps
                [] t = "zb"   -> {"wait"} \cup Sending
                [] t = "bus"  -> {"wait", "done"}
TasksTyped ==
  /\ frame \in [Producers -> AnyFrame] /\ log \in Log
  /\ state \in {"START", "STOP"} /\ refused \subseteq {"full", "down"}
  /\ pc \in [Tasks -> Steps] /\ \A t \in Tasks : pc[t] \in StepsOf(t)

\* The main task ends with its queue, it polls a queue it has created for a
\* request it has read, and no frame that is being sent is empty.
StepsAgree ==
  /\ pc.main = "poll" => aps # NoQueue /\ Len(log.handled) > 0
  /\ \A t \in Producers : pc[t] \in Sending => frame[t].size > 0
TasksAgree == StepsAgree /\ (queue = NoQueue => pc.main = "done")

BusTyped == BufsTyped /\ QueuesTyped /\ TasksTyped /\ TasksAgree

LEMMA Constants ==
  /\ QueueLen \in Nat /\ BufSize \in Nat /\ QueueLen > 0
  /\ \A s \in Sizes \cup RequestSizes : s \in Nat /\ s > 0
  /\ Kinds \subseteq AllKinds
BY NcpAssumption DEF AllKinds

LEMMA FrameIs ==
  ASSUME NEW k \in AllKinds, NEW n \in Nat, NEW re \in Nat, NEW s \in Nat, s > 0
  PROVE  /\ Frame(k, n, re, s) \in Full /\ Frame(k, n, re, s).kind = k
         /\ Frame(k, n, re, s).n = n /\ Frame(k, n, re, s).re = re
         /\ Frame(k, n, re, s).size = s
BY DEF Frame, Full, AnyFrame

LEMMA FullIs ==
  ASSUME NEW f \in Full
  PROVE  f \in AnyFrame /\ f.size \in Nat /\ f.size > 0 /\ f.n \in Nat /\ f.re \in Nat
         /\ f.kind \in AllKinds
BY DEF Full, AnyFrame

\* The frame of an event given in answer to a poll.
LEMMA Redirected ==
  ASSUME NEW f \in Full, NEW re \in Nat
  PROVE  LET g == [f EXCEPT !.re = re] IN
         g \in Full /\ g.kind = f.kind /\ g.n = f.n /\ g.re = re /\ g.size = f.size
<1>1. f \in AnyFrame /\ f.size > 0
  BY DEF Full
<1>2. [f EXCEPT !.re = re] = [kind |-> f.kind, n |-> f.n, re |-> re, size |-> f.size]
  BY <1>1 DEF AnyFrame
<1>3. [kind |-> f.kind, n |-> f.n, re |-> re, size |-> f.size] \in AnyFrame
  BY <1>1 DEF AnyFrame
<1>4. QED
  BY <1>1, <1>2, <1>3 DEF Full

LEMMA NotAQueue == NoQueue \notin Seq(Events) /\ NoQueue \notin Seq(Full)
<1>1. Len(NoQueue) = 1 /\ NoQueue[1] = [deleted |-> TRUE]
  BY DEF NoQueue
<1>2. \A e \in Events : e # [deleted |-> TRUE]
  BY DEF Events
<1>3. \A f \in Full : f # [deleted |-> TRUE]
  BY DEF Full, AnyFrame
<1>4. ASSUME NoQueue \in Seq(Events)
      PROVE  FALSE
  <2>1. 1 \in 1..Len(NoQueue)
    BY <1>1
  <2>2. NoQueue[1] \in Events
    BY <1>4, <2>1, ElementOfSeq
  <2>3. QED
    BY <1>1, <1>2, <2>2
<1>5. ASSUME NoQueue \in Seq(Full)
      PROVE  FALSE
  <2>1. 1 \in 1..Len(NoQueue)
    BY <1>1
  <2>2. NoQueue[1] \in Full
    BY <1>5, <2>1, ElementOfSeq
  <2>3. QED
    BY <1>1, <1>3, <2>2
<1>6. QED
  BY <1>4, <1>5

LEMMA Went ==
  ASSUME TasksTyped, NEW t \in Tasks, NEW p \in Steps, Goto(t, p)
  PROVE  pc' \in [Tasks -> Steps] /\ pc'[t] = p /\ \A u \in Tasks : u # t => pc'[u] = pc[u]
BY DEF TasksTyped, Goto

LEMMA TaskNames ==
  "main" \in Tasks /\ "zb" \in Tasks /\ "main" \in Producers /\ "zb" \in Producers
  /\ "main" # "zb" /\ "bus" \in Tasks /\ \A t \in Producers : t \in Tasks
BY DEF Tasks, Producers

\* An event is posted, or something is refused.
LEMMA Posted ==
  ASSUME QueuesTyped, TasksTyped, NEW e \in Events, NEW cut \in BOOLEAN, SendEvent(e, cut)
  PROVE  /\ queue' \in Seq(Events) \cup {NoQueue} /\ (queue' = NoQueue <=> queue = NoQueue)
         /\ queue' = NoQueue \/ Len(queue') <= QueueLen
         /\ refused' \subseteq {"full", "down"} /\ refused \subseteq refused'
         /\ refused' = {} => queue # NoQueue /\ queue' = Append(queue, e) /\ ~cut /\ Accepts
<1>1. queue # NoQueue => /\ queue \in Seq(Events) /\ Append(queue, e) \in Seq(Events)
                         /\ Len(Append(queue, e)) = Len(queue) + 1 /\ Len(queue) \in Nat
  BY AppendProperties DEF QueuesTyped
<1>2. /\ Accepts => queue # NoQueue /\ Len(queue) < QueueLen /\ queue' = Append(queue, e)
      /\ ~Accepts => queue' = queue
  BY DEF SendEvent, Accepts
<1>3. QueueLen \in Nat
  BY Constants
<1>4. queue' = NoQueue \/ Len(queue') <= QueueLen
  BY <1>1, <1>2, <1>3 DEF QueuesTyped
<1>5. /\ refused' \subseteq {"full", "down"} /\ refused \subseteq refused'
      /\ refused' = {} => Accepts /\ ~cut
  BY DEF SendEvent, Why, TasksTyped
<1>6. QED
  BY <1>1, <1>2, <1>4, <1>5, NotAQueue DEF QueuesTyped

LEMMA BusSorted ==
  ASSUME [Next]_vars
  PROVE  \/ TakeEvent \/ ProcessInput \/ MainReturns \/ BusRead \/ BusFlush \/ UNCHANGED vars
         \/ \E t \in Producers : CheckSpace(t) \/ RetrySpace(t) \/ AppendUnits(t) \/ PostInput(t)
         \/ \E s \in Sizes : ProcessOutput(s) \/ Poll(s) \/ Indicate(s) \/ Notify(s)
         \/ \E k \in Kinds, s \in RequestSizes : HostSends(k, s)
BY DEF Next, Main, Zb, Input, Producers

\* As many units of the frame as fit.
LEMMA Filled ==
  ASSUME NEW b \in Seq(Unit), Len(b) <= BufSize, NEW f \in AnyFrame
  PROVE  \E m \in 0..f.size, u \in Seq(Unit) :
           /\ u = Take(Units(f), Space(b)) /\ Len(u) = m /\ \A i \in 1..m : u[i] = <<f, i>>
           /\ b \o u \in Seq(Unit) /\ Len(b \o u) <= BufSize
           /\ Space(b) >= f.size => m = f.size
<1> DEFINE n == Space(b)
           u == Take(Units(f), n)
<1>1. n \in Nat /\ Len(b) + n = BufSize /\ Len(b) \in Nat /\ f.size \in Nat
  BY Constants DEF Space, AnyFrame
<1> HIDE DEF n
<1>2. PICK m \in 0..f.size :
        /\ u \in Seq(Unit) /\ Len(u) = m /\ m <= n /\ (f.size <= n => m = f.size)
        /\ \A i \in 1..m : u[i] = <<f, i>>
  BY <1>1, SomeUnits
<1> HIDE DEF u
<1>3. b \o u \in Seq(Unit) /\ Len(b \o u) = Len(b) + m
  BY <1>2, Concatenation
<1>4. Len(b \o u) <= BufSize
  BY <1>1, <1>2, <1>3
<1>5. n >= f.size => m = f.size
  BY <1>1, <1>2
<1>6. QED
  BY <1>2, <1>3, <1>4, <1>5 DEF n, u

LEMMA BusStart == Init => BusTyped
<1> SUFFICES ASSUME Init
             PROVE  BusTyped
  OBVIOUS
<1>1. BufsTyped
  BY Constants DEF Init, BufsTyped
<1>2. QueuesTyped
  BY Constants DEF Init, QueuesTyped, Events
<1>3. NoFrame \in AnyFrame
  BY DEF NoFrame, AnyFrame, AllKinds
<1>4. TasksTyped
  <2>1. /\ frame = [main |-> NoFrame, zb |-> NoFrame] /\ state = "START" /\ refused = {}
        /\ pc = [main |-> "wait", zb |-> "wait", bus |-> "wait"]
        /\ log = [sent |-> 0, read |-> <<>>, handled |-> <<>>, inds |-> 0]
    BY DEF Init
  <2>2. log \in Log
    BY <2>1 DEF Log
  <2>3. frame \in [Producers -> AnyFrame]
    BY <1>3, <2>1 DEF Producers
  <2>4. pc \in [Tasks -> Steps]
    BY <2>1 DEF Tasks, Steps
  <2>5. \A t \in Tasks : pc[t] \in StepsOf(t)
    BY <2>1 DEF Tasks, StepsOf, Steps
  <2>6. QED
    BY <2>1, <2>2, <2>3, <2>4, <2>5 DEF TasksTyped
<1>5. TasksAgree
  BY DEF Init, TasksAgree, StepsAgree, Sending, Producers, NoQueue
<1>6. QED
  BY <1>1, <1>2, <1>4, <1>5 DEF BusTyped

\* The request that the units taken make up, if they do, is answered or polls.
LEMMA Processed ==
  ASSUME BusTyped, NEW s \in Sizes, ProcessOutput(s)
  PROVE  /\ pc.main = "process" /\ event.event = "OUTPUT"
         /\ output_buf' = Drop(output_buf, event.size)
         /\ UNCHANGED <<rx, input_buf, event, tx, refused, queue, state>>
         /\ \/ /\ Len(output_buf) < event.size /\ UNCHANGED <<frame, log, aps>>
               /\ Goto("main", "wait")
            \/ /\ Len(output_buf) >= event.size
               /\ \E r \in AnyFrame, k \in {"resp", "err"} :
                    /\ r = Request(Take(output_buf, event.size))
                    /\ log' = [log EXCEPT !.handled = Append(@, r)]
                    /\ aps' = IF r.kind = "poll" /\ aps = NoQueue THEN <<>> ELSE aps
                    /\ \/ /\ r.kind \notin {"unknown", "poll"} /\ Goto("main", "check")
                          /\ frame' = [frame EXCEPT !.main = Frame(k, 0, r.n, s)]
                       \/ r.kind = "unknown" /\ Goto("main", "wait") /\ frame' = frame
                       \/ r.kind = "poll" /\ Goto("main", "poll") /\ frame' = frame
<1> DEFINE n == event.size
           taken == Take(output_buf, n)
           r == Request(taken)
<1>1. /\ output_buf \in Seq(Unit) /\ n \in Nat /\ Len(output_buf) \in Nat
  BY DEF BusTyped, BufsTyped, QueuesTyped, Events
<1>2. ASSUME Len(output_buf) >= n
      PROVE  r \in AnyFrame
  <2>1. taken \in Seq(Unit)
    BY <1>1, <1>2, TakeAndDrop
  <2> HIDE DEF taken
  <2>2. taken # <<>> => taken[1][1] \in AnyFrame
    <3>1. taken # <<>> => 1 \in 1..Len(taken)
      BY <2>1
    <3>2. QED
      BY <2>1, <3>1, ElementOfSeq DEF Unit
  <2>3. NoFrame \in AnyFrame
    BY DEF NoFrame, AnyFrame, AllKinds
  <2>4. QED
    BY <2>2, <2>3 DEF Request, IsFrame
<1>3. /\ pc.main = "process" /\ event.event = "OUTPUT"
      /\ output_buf' = Drop(output_buf, n)
      /\ UNCHANGED <<rx, input_buf, event, tx, refused>>
  BY DEF ProcessOutput, At
<1>4. CASE Len(output_buf) < n
  BY <1>1, <1>3, <1>4 DEF ProcessOutput, Loop
<1>5. CASE Len(output_buf) >= n
  <2>1. /\ log' = [log EXCEPT !.handled = Append(@, r)] /\ Handle(r, s)
        /\ aps' = IF r.kind = "poll" /\ aps = NoQueue THEN <<>> ELSE aps
    <3>1. ~(Len(output_buf) < n)
      BY <1>1, <1>5
    <3>2. QED
      BY <3>1 DEF ProcessOutput
  <2>2. r \in AnyFrame
    BY <1>2, <1>5
  <2> HIDE DEF r
  <2>3. /\ UNCHANGED <<queue, state>>
        /\ \E k \in {"resp", "err"} :
             \/ /\ r.kind \notin {"unknown", "poll"} /\ Goto("main", "check")
                /\ frame' = [frame EXCEPT !.main = Frame(k, 0, r.n, s)]
             \/ r.kind = "unknown" /\ Goto("main", "wait") /\ frame' = frame
             \/ r.kind = "poll" /\ Goto("main", "poll") /\ frame' = frame
    BY <2>1 DEF Handle, Answer, Loop
  <2> DEFINE rr == r
  <2>4. QED
    BY <1>3, <1>5, <2>1, <2>2, <2>3 DEF r
<1>6. QED
  BY <1>1, <1>4, <1>5

\* An indication is sent at once, waits for a poll, or is lost.
LEMMA Indicated ==
  ASSUME NEW s, Indicate(s)
  PROVE  LET f == Frame("ind", log.inds + 1, 0, s) IN
         /\ pc.zb = "wait" /\ log' = [log EXCEPT !.inds = @ + 1]
         /\ UNCHANGED <<rx, output_buf, input_buf, queue, state, event, tx>>
         /\ \/ /\ aps = NoQueue /\ aps' = aps /\ refused' = refused
               /\ frame' = [frame EXCEPT !.zb = f] /\ Goto("zb", "check")
            \/ /\ aps # NoQueue /\ Len(aps) < QueueLen /\ aps' = Append(aps, f)
               /\ UNCHANGED <<frame, pc, refused>>
            \/ Refuse(TRUE, "full") /\ UNCHANGED <<aps, frame, pc>>
<1> DEFINE f == Frame("ind", log.inds + 1, 0, s)
<1> HIDE DEF f
<1>1. CASE aps = NoQueue
  BY <1>1 DEF Indicate, At, f
<1>2. CASE aps # NoQueue /\ Len(aps) < QueueLen
  BY <1>2 DEF Indicate, At, f
<1>3. CASE aps # NoQueue /\ ~(Len(aps) < QueueLen)
  BY <1>3 DEF Indicate, At, f
<1>4. QED
  BY <1>1, <1>2, <1>3

LEMMA BufsStep ==
  ASSUME BusTyped, [Next]_vars
  PROVE  BufsTyped'
<1>0. BufsTyped /\ QueuesTyped /\ TasksTyped
  BY DEF BusTyped
<1> USE DEF BufsTyped
<1>1. ASSUME UNCHANGED <<rx, tx, output_buf, input_buf>>
      PROVE  BufsTyped'
  BY <1>0, <1>1
<1>2. CASE TakeEvent \/ MainReturns \/ UNCHANGED vars
  BY <1>1, <1>2 DEF TakeEvent, MainReturns, vars
<1>3. ASSUME NEW t \in Producers, CheckSpace(t) \/ RetrySpace(t) \/ PostInput(t)
      PROVE  BufsTyped'
  BY <1>1, <1>3 DEF CheckSpace, RetrySpace, PostInput
<1>4. ASSUME NEW s \in Sizes, Poll(s) \/ Indicate(s) \/ Notify(s)
      PROVE  BufsTyped'
  BY <1>1, <1>4 DEF Poll, Indicate, Notify
<1>5. CASE BusFlush
  BY <1>0, <1>5 DEF BusFlush
<1>6. ASSUME NEW k \in Kinds, NEW s \in RequestSizes, HostSends(k, s)
      PROVE  BufsTyped'
  <2>1. Frame(k, log.sent + 1, 0, s) \in Full
    <3>1. s \in Nat /\ s > 0 /\ k \in AllKinds /\ log.sent + 1 \in Nat
      BY <1>0, Constants DEF TasksTyped, Log
    <3>2. QED
      BY <3>1, FrameIs
  <2>2. QED
    BY <1>0, <1>6, <2>1 DEF HostSends
<1>7. ASSUME NEW t \in Producers, AppendUnits(t)
      PROVE  BufsTyped'
  <2>1. frame[t] \in AnyFrame
    BY <1>0 DEF TasksTyped
  <2>2. /\ input_buf' = input_buf \o Take(Units(frame[t]), Space(input_buf))
        /\ UNCHANGED <<rx, tx, output_buf>>
    BY <1>7 DEF AppendUnits
  <2>3. input_buf' \in Seq(Unit) /\ Len(input_buf') <= BufSize
    BY <1>0, <2>1, <2>2, Filled
  <2>4. QED
    BY <1>0, <2>2, <2>3
<1>8. CASE BusRead
  <2>1. rx # <<>> /\ Head(rx) \in Full /\ Tail(rx) \in Seq(Full)
    BY <1>0, <1>8 DEF BusRead
  <2>2. /\ output_buf' = output_buf \o Take(Units(Head(rx)), Space(output_buf))
        /\ rx' = Tail(rx) /\ UNCHANGED <<tx, input_buf>>
    BY <1>8 DEF BusRead, Move
  <2>3. output_buf' \in Seq(Unit) /\ Len(output_buf') <= BufSize
    BY <1>0, <2>1, <2>2, Filled, FullIs
  <2>4. QED
    BY <1>0, <2>1, <2>2, <2>3
<1>9. ASSUME NEW b \in Seq(Unit), Len(b) <= BufSize
      PROVE  Drop(b, event.size) \in Seq(Unit) /\ Len(Drop(b, event.size)) <= BufSize
  <2>1. event.size \in Nat /\ BufSize \in Nat /\ Len(b) \in Nat
    BY <1>0, Constants DEF QueuesTyped, Events
  <2>2. CASE event.size <= Len(b)
    <3>1. /\ Drop(b, event.size) \in Seq(Unit) /\ Len(Drop(b, event.size)) = Len(b) - event.size
      BY <2>1, <2>2, TakeAndDrop
    <3>2. QED
      BY <1>9, <2>1, <3>1
  <2>3. CASE Len(b) < event.size
    <3>1. Drop(b, event.size) = <<>>
      BY <2>1, <2>3, TakeTooFew
    <3>2. QED
      BY <2>1, <3>1
  <2>4. QED
    BY <2>1, <2>2, <2>3
<1>10. ASSUME NEW s \in Sizes, ProcessOutput(s)
       PROVE  BufsTyped'
  <2>1. output_buf' = Drop(output_buf, event.size) /\ UNCHANGED <<rx, input_buf, tx>>
    BY <1>10, Processed
  <2>2. QED
    BY <1>0, <1>9, <2>1
<1>11. CASE ProcessInput
  <2>1. /\ input_buf' = Drop(input_buf, event.size) /\ UNCHANGED <<rx, output_buf>>
        /\ tx' = IF Len(input_buf) < event.size THEN tx ELSE tx \o Take(input_buf, event.size)
    BY <1>11 DEF ProcessInput
  <2>2. event.size \in Nat /\ Len(input_buf) \in Nat
    BY <1>0 DEF QueuesTyped, Events
  <2>3. event.size <= Len(input_buf) => tx \o Take(input_buf, event.size) \in Seq(Unit)
    BY <1>0, <2>2, TakeAndDrop, Concatenation
  <2>4. tx' \in Seq(Unit)
    BY <1>0, <2>1, <2>2, <2>3
  <2>5. QED
    BY <1>0, <1>9, <2>1, <2>4
<1>12. QED
  BY <1>2, <1>3, <1>4, <1>5, <1>6, <1>7, <1>8, <1>10, <1>11, BusSorted

LEMMA QueuesStep ==
  ASSUME BusTyped, [Next]_vars
  PROVE  QueuesTyped' /\ (queue' = NoQueue => queue = NoQueue \/ pc'.main = "done")
<1>0. BufsTyped /\ QueuesTyped /\ TasksTyped /\ QueueLen \in Nat
  BY Constants DEF BusTyped
<1> USE DEF QueuesTyped
<1>1. ASSUME UNCHANGED <<event, queue, aps>>
      PROVE  QueuesTyped' /\ (queue' = NoQueue => queue = NoQueue)
  BY <1>0, <1>1
<1>2. CASE BusFlush \/ UNCHANGED vars
  BY <1>1, <1>2 DEF BusFlush, vars
<1>3. ASSUME NEW t \in Producers, CheckSpace(t) \/ RetrySpace(t) \/ AppendUnits(t)
      PROVE  UNCHANGED <<event, queue, aps>>
  BY <1>3 DEF CheckSpace, RetrySpace, AppendUnits
<1>4. ASSUME NEW k \in Kinds, NEW s \in RequestSizes, HostSends(k, s)
      PROVE  UNCHANGED <<event, queue, aps>>
  BY <1>4 DEF HostSends
<1>5. ASSUME NEW e \in Events, NEW cut \in BOOLEAN, SendEvent(e, cut), UNCHANGED <<event, aps>>
      PROVE  QueuesTyped' /\ (queue' = NoQueue => queue = NoQueue)
  BY <1>0, <1>5, Posted
<1>6. ASSUME NEW t \in Producers, PostInput(t)
      PROVE  QueuesTyped' /\ (queue' = NoQueue => queue = NoQueue)
  <2>1. EventOf(frame[t]) \in Events
    BY <1>0 DEF EventOf, TasksTyped, Events, AnyFrame
  <2>2. QED
    BY <1>5, <1>6, <2>1 DEF PostInput
<1>7. CASE BusRead
  <2>1. rx # <<>> /\ Head(rx) \in Full
    BY <1>0, <1>7 DEF BusRead, BufsTyped
  <2>2. [event |-> "OUTPUT", size |-> Head(rx).size] \in Events
    BY <2>1, FullIs DEF Events
  <2>3. PICK cut \in BOOLEAN : SendEvent([event |-> "OUTPUT", size |-> Head(rx).size], cut)
    <3>1. SendEvent([event |-> "OUTPUT", size |-> Head(rx).size],
                    Space(output_buf) < Head(rx).size)
      BY <1>7 DEF BusRead
    <3>2. (Space(output_buf) < Head(rx).size) \in BOOLEAN
      OBVIOUS
    <3>3. QED
      BY <3>1, <3>2
  <2>4. QED
    BY <1>5, <1>7, <2>2, <2>3 DEF BusRead
<1>8. ASSUME NEW s \in Sizes, Notify(s)
      PROVE  UNCHANGED <<event, queue, aps>>
  BY <1>8 DEF Notify
<1>9. CASE TakeEvent
  <2>1. queue # NoQueue
    BY <1>9 DEF TakeEvent, At, BusTyped, TasksAgree
  <2>2. queue \in Seq(Events) /\ queue # <<>> /\ Len(queue) <= QueueLen
    BY <1>0, <1>9, <2>1 DEF TakeEvent
  <2>3. /\ Head(queue) \in Events /\ Tail(queue) \in Seq(Events)
        /\ Len(Tail(queue)) = Len(queue) - 1 /\ Len(queue) \in Nat
    BY <2>2
  <2>4. QED
    BY <1>0, <1>9, <2>2, <2>3, NotAQueue DEF TakeEvent
<1>10. CASE ProcessInput
  BY <1>0, <1>10 DEF ProcessInput, Loop
<1>11. CASE MainReturns
  <2>1. UNCHANGED <<event, aps>>
    BY <1>11 DEF MainReturns
  <2>2. \/ UNCHANGED queue
        \/ queue' = NoQueue /\ pc'["main"] = "done"
    <3>1. \E ok \in BOOLEAN : Loop(ok)
      BY <1>11 DEF MainReturns
    <3>2. Goto("main", "done") => pc'["main"] = "done"
      BY <1>0, TaskNames, Went DEF Steps
    <3>3. QED
      BY <3>1, <3>2 DEF Loop
  <2>3. QED
    BY <1>0, <2>1, <2>2
<1>12. ASSUME NEW s \in Sizes, ProcessOutput(s)
       PROVE  QueuesTyped' /\ (queue' = NoQueue => queue = NoQueue)
  <2>1. UNCHANGED <<event, queue>> /\ aps' \in {<<>>, aps}
    BY <1>12, Processed
  <2>2. CASE aps' = aps
    BY <1>1, <2>1, <2>2
  <2>3. CASE aps' = <<>>
    <3>1. aps' \in Seq(Full) /\ Len(aps') <= QueueLen
      BY <1>0, <2>3
    <3>2. QED
      BY <1>0, <2>1, <3>1
  <2>4. QED
    BY <2>1, <2>2, <2>3
<1>13. ASSUME NEW s \in Sizes, Poll(s)
       PROVE  QueuesTyped' /\ (queue' = NoQueue => queue = NoQueue)
  <2>1. UNCHANGED <<event, queue>> /\ (aps' = aps \/ (aps # <<>> /\ aps' = Tail(aps)))
    BY <1>13 DEF Poll
  <2>2. aps # NoQueue
    BY <1>13 DEF Poll, At, BusTyped, TasksAgree, StepsAgree
  <2>3. aps # <<>> => /\ Tail(aps) \in Seq(Full) /\ Len(Tail(aps)) = Len(aps) - 1
                      /\ Len(aps) \in Nat /\ Len(aps) <= QueueLen
    <3>1. aps \in Seq(Full) /\ Len(aps) <= QueueLen
      BY <1>0, <2>2
    <3>2. QED
      BY ONLY <3>1, HeadTailProperties, LenProperties
  <2>4. aps' \in Seq(Full) /\ Len(aps') <= QueueLen
    BY <1>0, <2>1, <2>2, <2>3
  <2>5. QED
    BY <1>0, <2>1, <2>4
<1>14. ASSUME NEW s \in Sizes, Indicate(s)
       PROVE  QueuesTyped' /\ (queue' = NoQueue => queue = NoQueue)
  <2> DEFINE f == Frame("ind", log.inds + 1, 0, s)
  <2>1. f \in Full
    <3>1. s \in Nat /\ s > 0 /\ "ind" \in AllKinds /\ log.inds + 1 \in Nat /\ 0 \in Nat
      BY <1>0, Constants DEF TasksTyped, Log, AllKinds
    <3>2. QED
      BY <3>1, FrameIs
  <2>2. UNCHANGED <<event, queue>>
    BY <1>14 DEF Indicate
  <2>3. aps' = aps \/ (aps # NoQueue /\ Len(aps) < QueueLen /\ aps' = Append(aps, f))
    BY <1>14, Indicated
  <2> HIDE DEF f
  <2>4. aps # NoQueue => /\ Append(aps, f) \in Seq(Full) /\ Len(aps) \in Nat
                         /\ Len(Append(aps, f)) = Len(aps) + 1
    BY <1>0, <2>1, AppendProperties
  <2>5. QED
    BY <1>0, <2>2, <2>3, <2>4
<1>15. QED
  BY <1>1, <1>2, <1>3, <1>4, <1>6, <1>7, <1>8, <1>9, <1>10, <1>11, <1>12, <1>13, <1>14, BusSorted

LEMMA StepNames ==
  /\ StepsOf("main") = Steps /\ StepsOf("zb") = {"wait"} \cup Sending
  /\ StepsOf("bus") = {"wait", "done"}
  /\ \A p \in Sending : p \in Steps /\ p # "poll" /\ p # "wait" /\ p # "done"
BY DEF StepsOf, Steps, Sending

\* What the log is after each kind of entry.
LEMMA Logged ==
  ASSUME log \in Log, NEW f \in Full, NEW r \in AnyFrame
  PROVE  /\ LET l == [log EXCEPT !.sent = @ + 1]
            IN  /\ l \in Log /\ l.sent = log.sent + 1 /\ l.read = log.read
                /\ l.handled = log.handled /\ l.inds = log.inds
         /\ LET l == [log EXCEPT !.inds = @ + 1]
            IN  /\ l \in Log /\ l.sent = log.sent /\ l.read = log.read
                /\ l.handled = log.handled /\ l.inds = log.inds + 1
         /\ LET l == [log EXCEPT !.read = Append(@, f)]
            IN  /\ l \in Log /\ l.sent = log.sent /\ l.read = Append(log.read, f)
                /\ l.handled = log.handled /\ l.inds = log.inds
         /\ LET l == [log EXCEPT !.handled = Append(@, r)]
            IN  /\ l \in Log /\ l.sent = log.sent /\ l.read = log.read
                /\ l.handled = Append(log.handled, r) /\ l.inds = log.inds
                /\ Len(l.handled) = Len(log.handled) + 1 /\ Len(log.handled) \in Nat
<1> DEFINE a == log.sent
           b == log.read
           c == log.handled
           d == log.inds
<1>1. /\ a \in Nat /\ b \in Seq(Full) /\ c \in Seq(AnyFrame) /\ d \in Nat
      /\ log = [sent |-> a, read |-> b, handled |-> c, inds |-> d]
  BY DEF Log
<1>2. /\ Append(b, f) \in Seq(Full) /\ Append(c, r) \in Seq(AnyFrame)
      /\ Len(Append(c, r)) = Len(c) + 1 /\ Len(c) \in Nat
  BY <1>1, AppendProperties
<1>3. /\ [log EXCEPT !.sent = @ + 1] = [sent |-> a + 1, read |-> b, handled |-> c, inds |-> d]
      /\ [log EXCEPT !.inds = @ + 1] = [sent |-> a, read |-> b, handled |-> c, inds |-> d + 1]
  BY DEF Log
<1>4. /\ \A x : [log EXCEPT !.read = x] = [sent |-> a, read |-> x, handled |-> c, inds |-> d]
      /\ \A x : [log EXCEPT !.handled = x] = [sent |-> a, read |-> b, handled |-> x, inds |-> d]
  BY DEF Log
<1> HIDE DEF a, b, c, d
<1>5. /\ [sent |-> a + 1, read |-> b, handled |-> c, inds |-> d] \in Log
      /\ [sent |-> a, read |-> b, handled |-> c, inds |-> d + 1] \in Log
  BY ONLY <1>1 DEF Log
<1>6. /\ [sent |-> a, read |-> Append(b, f), handled |-> c, inds |-> d] \in Log
      /\ [sent |-> a, read |-> b, handled |-> Append(c, r), inds |-> d] \in Log
  BY ONLY <1>1, <1>2 DEF Log
<1>7. QED
  BY <1>2, <1>3, <1>4, <1>5, <1>6 DEF a, b, c, d

\* One task goes on.
LEMMA TaskMoves ==
  ASSUME TasksTyped, StepsAgree, NEW t \in Tasks, NEW p \in Steps, p \in StepsOf(t),
         Goto(t, p), log' \in Log, frame' \in [Producers -> AnyFrame],
         state' \in {"START", "STOP"}, refused' \subseteq {"full", "down"},
         \A u \in Producers : u # t => frame'[u] = frame[u],
         t \in Producers /\ p \in Sending => frame'[t].size > 0,
         t = "main" => pc.main # "done" /\ (p = "poll" => aps' # NoQueue /\ Len(log'.handled) > 0),
         t # "main" => /\ aps # NoQueue => aps' # NoQueue
                       /\ log'.handled = log.handled
  PROVE  TasksTyped' /\ StepsAgree' /\ (pc.main = "done" => pc'.main = "done")
<1>1. pc' \in [Tasks -> Steps] /\ pc'[t] = p /\ \A u \in Tasks : u # t => pc'[u] = pc[u]
  BY Went
<1>2. TasksTyped'
  BY <1>1 DEF TasksTyped
<1>3. pc'.main = IF t = "main" THEN p ELSE pc.main
  BY <1>1, TaskNames
<1>4. pc'.main = "poll" => aps' # NoQueue /\ Len(log'.handled) > 0
  BY <1>3 DEF StepsAgree
<1>5. ASSUME NEW u \in Producers, pc'[u] \in Sending
      PROVE  frame'[u].size > 0
  BY <1>1, <1>5, TaskNames DEF StepsAgree
<1>6. QED
  BY <1>2, <1>3, <1>4, <1>5 DEF StepsAgree

\* No task does.
LEMMA TasksRest ==
  ASSUME TasksTyped, StepsAgree, UNCHANGED <<pc, frame>>, log' \in Log,
         log'.handled = log.handled, state' = state, refused' \subseteq {"full", "down"},
         aps # NoQueue => aps' # NoQueue
  PROVE  TasksTyped' /\ StepsAgree' /\ (pc.main = "done" => pc'.main = "done")
BY DEF TasksTyped, StepsAgree

LEMMA TasksStep ==
  ASSUME BusTyped, [Next]_vars
  PROVE  TasksTyped' /\ TasksAgree'
<1> DEFINE Goal == TasksTyped' /\ StepsAgree' /\ (pc.main = "done" => pc'.main = "done")
<1>0. /\ BufsTyped /\ QueuesTyped /\ TasksTyped /\ StepsAgree
      /\ log \in Log /\ frame \in [Producers -> AnyFrame]
      /\ state \in {"START", "STOP"} /\ refused \subseteq {"full", "down"}
  BY DEF BusTyped, TasksAgree, TasksTyped
<1>a. NoFrame \in AnyFrame /\ NoFrame \in AnyFrame /\ \E f : f \in Full
  <2>1. NoFrame \in AnyFrame
    BY DEF NoFrame, AnyFrame, AllKinds
  <2>2. Frame("cmd", 0, 0, 1) \in Full
    BY FrameIs DEF AllKinds
  <2>3. QED
    BY <2>1, <2>2
<1>b. \A t \in Producers : pc[t] \in Sending => t # "main" \/ pc.main # "done"
  BY StepNames
<1>1. ASSUME NEW k \in Kinds, NEW s \in RequestSizes, HostSends(k, s)
      PROVE  Goal
  BY <1>0, <1>1, <1>a, Logged, TasksRest DEF HostSends
<1>2. ASSUME BusFlush \/ UNCHANGED vars
      PROVE  Goal
  BY <1>0, <1>2, TasksRest DEF BusFlush, vars
<1>3. ASSUME BusRead
      PROVE  Goal
  <2>1. rx # <<>> /\ Head(rx) \in Full
    BY <1>0, <1>3 DEF BusRead, BufsTyped
  <2>2. /\ UNCHANGED <<frame, aps, state>> /\ log' = [log EXCEPT !.read = Append(@, Head(rx))]
        /\ Goto("bus", IF state = "START" THEN "wait" ELSE "done")
    BY <1>3 DEF BusRead, Move
  <2>3. log' \in Log /\ log'.handled = log.handled
    BY <1>0, <1>a, <2>1, <2>2, Logged
  <2>4. refused' \subseteq {"full", "down"}
    <3>1. [event |-> "OUTPUT", size |-> Head(rx).size] \in Events
      BY <2>1, FullIs DEF Events
    <3>2. PICK cut \in BOOLEAN : SendEvent([event |-> "OUTPUT", size |-> Head(rx).size], cut)
      <4>1. (Space(output_buf) < Head(rx).size) \in BOOLEAN
        OBVIOUS
      <4>2. QED
        BY <1>3, <4>1 DEF BusRead
    <3>3. QED
      BY <1>0, <3>1, <3>2, Posted
  <2>5. PICK p \in {"wait", "done"} : Goto("bus", p)
    BY <2>2
  <2>6. p \in StepsOf("bus") /\ p \in Steps
    BY StepNames DEF Steps
  <2>7. "bus" \in Tasks /\ "bus" # "main" /\ "bus" \notin Producers
    BY DEF Tasks, Producers
  <2>8. QED
    BY <1>0, <2>2, <2>3, <2>4, <2>5, <2>6, <2>7, TaskMoves
<1>c. ASSUME NEW t \in Producers, NEW p \in Steps, Goto(t, p), UNCHANGED <<frame, log, aps, state>>,
             refused' \subseteq {"full", "down"}, pc[t] \in Sending,
             p \in Sending \/ (IF t = "zb" THEN p = "wait" ELSE p \in {"sent", "failed"})
      PROVE  Goal
  <2>1. p \in StepsOf(t)
    BY <1>c, StepNames DEF Producers
  <2>2. p \in Sending => frame[t].size > 0
    BY <1>0, <1>c DEF StepsAgree
  <2>3. t = "main" => pc.main # "done" /\ p # "poll"
    BY <1>b, <1>c, StepNames, TaskNames
  <2>4. t \in Tasks
    BY TaskNames
  <2>5. QED
    BY <1>0, <1>c, <2>1, <2>2, <2>3, <2>4, TaskMoves
<1>4. ASSUME NEW t \in Producers, CheckSpace(t) \/ RetrySpace(t) \/ AppendUnits(t) \/ PostInput(t)
      PROVE  Goal
  <2>1. pc[t] \in Sending /\ UNCHANGED <<frame, log, aps, state>>
    BY <1>4 DEF CheckSpace, RetrySpace, AppendUnits, PostInput, At, Sending
  <2>2. PICK p \in Steps : /\ Goto(t, p)
                           /\ p \in Sending \/ (IF t = "zb" THEN p = "wait" ELSE p \in {"sent", "failed"})
    BY <1>4 DEF CheckSpace, RetrySpace, AppendUnits, PostInput, Return, Sending, Steps
  <2>3. refused' \subseteq {"full", "down"}
    <3>1. CASE CheckSpace(t) \/ RetrySpace(t) \/ AppendUnits(t)
      BY <1>0, <3>1 DEF CheckSpace, RetrySpace, AppendUnits, Refuse
    <3>2. CASE PostInput(t)
      <4>1. EventOf(frame[t]) \in Events
        BY <1>0 DEF EventOf, Events, AnyFrame
      <4>2. QED
        BY <1>0, <3>2, <4>1, Posted DEF PostInput
    <3>3. QED
      BY <1>4, <3>1, <3>2
  <2>4. QED
    BY <1>c, <2>1, <2>2, <2>3
<1>d. ASSUME NEW p \in Steps, Goto("main", p), log' \in Log, state' \in {"START", "STOP"},
             refused' = refused, frame' \in [Producers -> AnyFrame], frame'["zb"] = frame["zb"],
             p \in Sending => frame'["main"].size > 0, pc.main # "done",
             p = "poll" => aps' # NoQueue /\ Len(log'.handled) > 0
      PROVE  Goal
  <2>1. \A u \in Producers : u # "main" => frame'[u] = frame[u]
    BY <1>d DEF Producers
  <2>2. p \in StepsOf("main")
    BY StepNames
  <2>3. QED
    BY <1>0, <1>d, <2>1, <2>2, TaskNames, TaskMoves
<1>5. ASSUME TakeEvent \/ ProcessInput
      PROVE  Goal
  <2>1. /\ UNCHANGED <<frame, log, state, refused>> /\ pc.main # "done"
        /\ \E p \in {"process", "wait"} : Goto("main", p)
    BY <1>5 DEF TakeEvent, ProcessInput, Loop, At
  <2>2. \A p \in {"process", "wait"} : p \in Steps /\ p \notin Sending /\ p # "poll"
    BY DEF Steps, Sending
  <2>3. QED
    BY <1>0, <1>d, <2>1, <2>2
<1>6. ASSUME MainReturns
      PROVE  Goal
  <2>1. /\ UNCHANGED <<log, refused>> /\ pc.main # "done"
        /\ frame' = [frame EXCEPT !.main = NoFrame]
    BY <1>6 DEF MainReturns
  <2>2. state' \in {"START", "STOP"} /\ \E p \in {"done", "wait"} : Goto("main", p)
    <3>1. \E ok \in BOOLEAN : Loop(ok)
      BY <1>6 DEF MainReturns
    <3>2. QED
      BY <1>0, <3>1 DEF Loop
  <2>3. \A p \in {"done", "wait"} : p \in Steps /\ p \notin Sending /\ p # "poll"
    BY DEF Steps, Sending
  <2>4. frame' \in [Producers -> AnyFrame] /\ frame'["zb"] = frame["zb"]
    BY <1>0, <1>a, <2>1, TaskNames
  <2>5. QED
    BY <1>0, <1>d, <2>1, <2>2, <2>3, <2>4
<1>7. ASSUME NEW s \in Sizes, ProcessOutput(s)
      PROVE  Goal
  <2>1. CASE UNCHANGED <<frame, log, aps, state, refused>> /\ Goto("main", "wait") /\ pc.main = "process"
    <3>1. "wait" \in Steps /\ "wait" \notin Sending
      BY DEF Steps, Sending
    <3>2. QED
      BY <1>0, <1>d, <2>1, <3>1
  <2>2. ASSUME NEW r \in AnyFrame, NEW k \in {"resp", "err"},
               UNCHANGED <<state, refused>>, pc.main = "process",
               log' = [log EXCEPT !.handled = Append(@, r)],
               aps' = IF r.kind = "poll" /\ aps = NoQueue THEN <<>> ELSE aps,
               \/ /\ r.kind \notin {"unknown", "poll"} /\ Goto("main", "check")
                  /\ frame' = [frame EXCEPT !.main = Frame(k, 0, r.n, s)]
               \/ r.kind = "unknown" /\ Goto("main", "wait") /\ frame' = frame
               \/ r.kind = "poll" /\ Goto("main", "poll") /\ frame' = frame
        PROVE  Goal
    <3>1. log' \in Log /\ Len(log'.handled) = Len(log.handled) + 1 /\ Len(log.handled) \in Nat
      BY <1>0, <1>a, <2>2, Logged
    <3>2. Frame(k, 0, r.n, s) \in Full
      <4>1. r.n \in Nat /\ s \in Nat /\ s > 0 /\ k \in AllKinds
        BY Constants DEF AnyFrame, AllKinds
      <4>2. QED
        BY <4>1, FrameIs
    <3>3. \A p \in {"check", "wait", "poll"} : p \in Steps /\ (p \in Sending => p = "check")
      BY DEF Steps, Sending
    <3>4. r.kind = "poll" => aps' # NoQueue
      BY <2>2 DEF NoQueue
    <3>5. CASE r.kind \notin {"unknown", "poll"}
      <4>1. frame' = [frame EXCEPT !.main = Frame(k, 0, r.n, s)] /\ Goto("main", "check")
        BY <2>2, <3>5
      <4>2. /\ frame' \in [Producers -> AnyFrame] /\ frame'["zb"] = frame["zb"]
            /\ frame'["main"].size > 0
        BY <1>0, <3>2, <4>1, FullIs, TaskNames
      <4>3. QED
        BY <1>0, <1>d, <2>2, <3>1, <3>3, <4>1, <4>2
    <3>6. CASE r.kind \in {"unknown", "poll"}
      BY <1>0, <1>d, <2>2, <3>1, <3>3, <3>4, <3>6
    <3>7. QED
      BY <3>5, <3>6
  <2>3. QED
    BY <1>7, <2>1, <2>2, Processed
<1>8. ASSUME NEW s \in Sizes, Poll(s)
      PROVE  Goal
  <2>1. /\ UNCHANGED <<log, state, refused>> /\ pc.main = "poll" /\ Goto("main", "check")
        /\ \/ aps # <<>> /\ frame' = [frame EXCEPT !.main = [Head(aps) EXCEPT !.re = Current]]
           \/ frame' = [frame EXCEPT !.main = Frame("resp", 0, Current, s)]
    BY <1>8 DEF Poll, At
  <2>2. aps \in Seq(Full) /\ Len(log.handled) > 0
    BY <1>0, <2>1 DEF StepsAgree, QueuesTyped
  <2>3. Current \in Nat
    <3>1. Len(log.handled) \in 1..Len(log.handled) /\ log.handled \in Seq(AnyFrame)
      BY <1>0, <2>2 DEF Log
    <3>2. log.handled[Len(log.handled)] \in AnyFrame
      BY <3>1, ElementOfSeq
    <3>3. QED
      BY <3>2 DEF Current, AnyFrame
  <2>4. aps # <<>> => [Head(aps) EXCEPT !.re = Current] \in Full
    <3>1. aps # <<>> => Head(aps) \in Full
      BY <2>2
    <3>2. QED
      BY <2>3, <3>1, Redirected
  <2>5. Frame("resp", 0, Current, s) \in Full
    <3>1. s \in Nat /\ s > 0 /\ "resp" \in AllKinds /\ 0 \in Nat
      BY Constants DEF AllKinds
    <3>2. QED
      BY <2>3, <3>1, FrameIs
  <2>6. PICK f \in Full : frame' = [frame EXCEPT !.main = f]
    BY <2>1, <2>4, <2>5
  <2>7. /\ frame' \in [Producers -> AnyFrame] /\ frame'["zb"] = frame["zb"]
        /\ frame'["main"].size > 0
    BY <1>0, <2>6, FullIs, TaskNames
  <2>8. "check" \in Steps
    BY DEF Steps
  <2>9. QED
    BY <1>0, <1>d, <2>1, <2>7, <2>8
<1>e. ASSUME NEW f \in Full, frame' = [frame EXCEPT !.zb = f], Goto("zb", "check"),
             UNCHANGED <<aps, state, refused>>, log' = [log EXCEPT !.inds = @ + 1]
      PROVE  Goal
  <2>1. log' \in Log /\ log'.handled = log.handled
    BY <1>0, <1>a, <1>e, Logged
  <2>2. /\ frame' \in [Producers -> AnyFrame] /\ frame'["zb"].size > 0
        /\ \A u \in Producers : u # "zb" => frame'[u] = frame[u]
    BY <1>0, <1>e, FullIs, TaskNames
  <2>3. "check" \in Steps /\ "check" \in StepsOf("zb")
    BY StepNames DEF Steps, Sending
  <2>4. QED
    BY <1>0, <1>e, <2>1, <2>2, <2>3, TaskNames, TaskMoves
<1>9. ASSUME NEW s \in Sizes, Notify(s)
      PROVE  Goal
  <2>1. Frame("noti", log.inds + 1, 0, s) \in Full
    <3>1. s \in Nat /\ s > 0 /\ "noti" \in AllKinds /\ log.inds + 1 \in Nat /\ 0 \in Nat
      BY <1>0, Constants DEF Log, AllKinds
    <3>2. QED
      BY <3>1, FrameIs
  <2>2. QED
    BY <1>9, <1>e, <2>1 DEF Notify
<1>10. ASSUME NEW s \in Sizes, Indicate(s)
       PROVE  Goal
  <2> DEFINE f == Frame("ind", log.inds + 1, 0, s)
  <2>1. f \in Full
    <3>1. s \in Nat /\ s > 0 /\ "ind" \in AllKinds /\ log.inds + 1 \in Nat /\ 0 \in Nat
      BY <1>0, Constants DEF Log, AllKinds
    <3>2. QED
      BY <3>1, FrameIs
  <2> HIDE DEF f
  <2>2. log' = [log EXCEPT !.inds = @ + 1] /\ UNCHANGED state
    BY <1>10 DEF Indicate
  <2>3. log' \in Log /\ log'.handled = log.handled
    BY <1>0, <1>a, <2>2, Logged
  <2>4. \/ aps' = aps /\ refused' = refused /\ frame' = [frame EXCEPT !.zb = f] /\ Goto("zb", "check")
        \/ aps # NoQueue /\ aps' = Append(aps, f) /\ UNCHANGED <<frame, pc, refused>>
        \/ Refuse(TRUE, "full") /\ UNCHANGED <<aps, frame, pc>>
    BY <1>10, Indicated DEF f
  <2>5. aps # NoQueue => Append(aps, f) # NoQueue
    <3>1. aps # NoQueue => Append(aps, f) \in Seq(Full)
      BY <1>0, <2>1, AppendProperties DEF QueuesTyped
    <3>2. QED
      BY <3>1, NotAQueue
  <2>6. Refuse(TRUE, "full") => refused' \subseteq {"full", "down"}
    BY <1>0 DEF Refuse
  <2>7. QED
    BY <1>0, <1>e, <2>1, <2>2, <2>3, <2>4, <2>5, <2>6, TasksRest
<1> HIDE DEF Goal
<1>11. Goal
  BY <1>1, <1>2, <1>3, <1>4, <1>5, <1>6, <1>7, <1>8, <1>9, <1>10, BusSorted
<1>12. queue' = NoQueue => pc'.main = "done"
  BY <1>11, QueuesStep DEF Goal, BusTyped, TasksAgree
<1>13. QED
  BY <1>11, <1>12 DEF Goal, TasksAgree

LEMMA TypesStep ==
  ASSUME BusTyped, [Next]_vars
  PROVE  BusTyped'
BY BufsStep, QueuesStep, TasksStep DEF BusTyped

-----------------------------------------------------------------------------
(* The transport: the order of the indications, whatever is refused.       *)

\* The units written to the UART and those that wait for it.
Stream == tx \o input_buf

IndAt(s, k) == s[k][2] = 1 /\ s[k][1].kind = "ind"
Ordered(s)  == \A j, k \in 1..Len(s) :
                 j < k /\ IndAt(s, j) /\ IndAt(s, k) => s[j][1].n < s[k][1].n
Below(s, n) == \A k \in 1..Len(s) : IndAt(s, k) => s[k][1].n < n
Waiting     == IF aps = NoQueue THEN <<>> ELSE aps
Unsent      == {"check", "retry", "append"}
Holds(t)    == pc[t] \in Unsent /\ frame[t].kind = "ind"

\* Behind the indications in the stream come the one that the main task has
\* taken for a poll, then those that wait for the next; or one that the Zigbee
\* task sends at once, and then no other.
InLine ==
  /\ Ordered(Stream) /\ Below(Stream, log.inds + 1)
  /\ \A i \in 1..Len(Waiting) : Waiting[i].n <= log.inds /\ Below(Stream, Waiting[i].n)
  /\ \A i, j \in 1..Len(Waiting) : i < j => Waiting[i].n < Waiting[j].n
  /\ Holds("main") =>
       /\ aps # NoQueue /\ frame["main"].n <= log.inds /\ Below(Stream, frame["main"].n)
       /\ \A i \in 1..Len(Waiting) : frame["main"].n < Waiting[i].n
  /\ Holds("zb") =>
       /\ frame["zb"].n = log.inds /\ Below(Stream, log.inds)
       /\ Waiting = <<>> /\ ~Holds("main")

LEMMA StreamTyped ==
  ASSUME BufsTyped
  PROVE  /\ Stream \in Seq(Unit) /\ Len(Stream) = Len(tx) + Len(input_buf)
         /\ Len(tx) \in Nat /\ Len(input_buf) \in Nat
         /\ \A i \in 1..Len(tx) : Stream[i] = tx[i]
BY Concatenation DEF BufsTyped, Stream

\* A frame grows the stream, or what fits of it.
LEMMA Appended ==
  ASSUME BusTyped, NEW t \in Producers, AppendUnits(t)
  PROVE  UNCHANGED tx /\ Stream' = Stream \o Take(Units(frame[t]), Space(input_buf))
<1> DEFINE u == Take(Units(frame[t]), Space(input_buf))
<1>0. BufsTyped /\ TasksTyped /\ tx \in Seq(Unit) /\ input_buf \in Seq(Unit)
  BY DEF BusTyped, BufsTyped
<1>1. tx' = tx /\ input_buf' = input_buf \o u
  BY DEF AppendUnits
<1>2. u \in Seq(Unit)
  BY <1>0, Filled DEF TasksTyped, BufsTyped
<1>3. (tx \o input_buf) \o u = tx \o (input_buf \o u)
  BY <1>0, <1>2, ConcatAssociative
<1>4. QED
  BY <1>1, <1>3 DEF Stream

\* What is taken for the UART remains in the stream; too few units are lost.
LEMMA Delivered ==
  ASSUME BusTyped, ProcessInput
  PROVE  IF Len(input_buf) < event.size THEN Stream' = tx ELSE Stream' = Stream
<1>0. /\ tx \in Seq(Unit) /\ input_buf \in Seq(Unit)
      /\ event.size \in Nat /\ Len(input_buf) \in Nat
  BY DEF BusTyped, BufsTyped, QueuesTyped, Events
<1>1. /\ input_buf' = Drop(input_buf, event.size)
      /\ tx' = IF Len(input_buf) < event.size THEN tx ELSE tx \o Take(input_buf, event.size)
  BY DEF ProcessInput
<1>2. CASE Len(input_buf) < event.size
  <2>1. input_buf' = <<>> /\ tx' = tx
    BY <1>0, <1>1, <1>2, TakeTooFew
  <2>2. tx \o <<>> = tx
    BY <1>0, ConcatEmptySeq
  <2>3. QED
    BY <1>2, <2>1, <2>2 DEF Stream
<1>3. CASE event.size <= Len(input_buf)
  <2>1. /\ tx' = tx \o Take(input_buf, event.size)
        /\ input_buf' = Drop(input_buf, event.size)
    BY <1>0, <1>1, <1>3
  <2>2. tx' \o input_buf' = tx \o input_buf
    BY <1>0, <1>3, <2>1, Moved
  <2>3. QED
    BY <1>0, <1>3, <2>2 DEF Stream
<1>4. QED
  BY <1>0, <1>2, <1>3

\* What a step does to the stream: it moves along, grows by units of a frame,
\* or loses what is in the buffer.
LEMMA StreamStep ==
  ASSUME BusTyped, [Next]_vars
  PROVE  \/ Stream' = Stream
         \/ ProcessInput /\ Len(input_buf) < event.size /\ Stream' = tx
         \/ \E t \in Producers :
              /\ AppendUnits(t) /\ UNCHANGED tx
              /\ Stream' = Stream \o Take(Units(frame[t]), Space(input_buf))
<1>0. /\ BufsTyped /\ QueuesTyped /\ TasksTyped
      /\ tx \in Seq(Unit) /\ input_buf \in Seq(Unit)
      /\ event.size \in Nat /\ Len(input_buf) \in Nat
  BY DEF BusTyped, BufsTyped, QueuesTyped, Events
<1>1. ASSUME NEW t \in Producers, AppendUnits(t)
      PROVE  UNCHANGED tx /\ Stream' = Stream \o Take(Units(frame[t]), Space(input_buf))
  BY <1>1, Appended
<1>2. CASE ProcessInput
  BY <1>2, Delivered
<1>3. UNCHANGED <<tx, input_buf>> => Stream' = Stream
  BY DEF Stream
<1>4. CASE TakeEvent \/ MainReturns \/ BusRead \/ BusFlush \/ UNCHANGED vars
  BY <1>3, <1>4 DEF TakeEvent, MainReturns, BusRead, BusFlush, vars
<1>5. ASSUME NEW t \in Producers, CheckSpace(t) \/ RetrySpace(t) \/ PostInput(t)
      PROVE  Stream' = Stream
  BY <1>3, <1>5 DEF CheckSpace, RetrySpace, PostInput
<1>6. ASSUME NEW s \in Sizes, Poll(s) \/ Indicate(s) \/ Notify(s)
      PROVE  Stream' = Stream
  BY <1>3, <1>6 DEF Poll, Indicate, Notify
<1>7. ASSUME NEW s \in Sizes, ProcessOutput(s)
      PROVE  Stream' = Stream
  BY <1>3, <1>7, Processed
<1>8. ASSUME NEW k \in Kinds, NEW s \in RequestSizes, HostSends(k, s)
      PROVE  Stream' = Stream
  BY <1>3, <1>8 DEF HostSends
<1>9. QED
  BY <1>1, <1>2, <1>4, <1>5, <1>6, <1>7, <1>8, BusSorted

LEMMA Shorter ==
  ASSUME NEW s, NEW r, Len(r) \in Nat, Len(s) \in Nat, Len(r) <= Len(s),
         \A i \in 1..Len(r) : r[i] = s[i]
  PROVE  /\ Ordered(s) => Ordered(r)
         /\ \A n : Below(s, n) => Below(r, n)
<1>1. \A i \in 1..Len(r) : i \in 1..Len(s)
  OBVIOUS
<1>2. QED
  BY <1>1 DEF Ordered, Below, IndAt

LEMMA Longer ==
  ASSUME NEW s \in Seq(Unit), NEW f \in AnyFrame, NEW m \in Nat, NEW u \in Seq(Unit),
         Len(u) = m, \A i \in 1..m : u[i] = <<f, i>>
  PROVE  /\ Ordered(s) /\ (f.kind = "ind" => Below(s, f.n)) => Ordered(s \o u)
         /\ \A n \in Nat : Below(s, n) /\ (f.kind = "ind" => f.n < n) => Below(s \o u, n)
<1> DEFINE l == Len(s)
           r == s \o u
<1>1. /\ l \in Nat /\ Len(r) = l + m
      /\ \A i \in 1..l : r[i] = s[i]
      /\ \A i \in 1..m : r[l + i] = u[i]
  <2>1. /\ Len(s \o u) = Len(s) + Len(u)
        /\ \A i \in 1..Len(s) : (s \o u)[i] = s[i]
        /\ \A i \in 1..Len(u) : (s \o u)[Len(s) + i] = u[i]
    BY ONLY s \in Seq(Unit), u \in Seq(Unit), Concatenation
  <2>2. Len(s) \in Nat
    BY LenProperties
  <2>3. QED
    BY ONLY <2>1, <2>2, Len(u) = m
<1> HIDE DEF l, r
<1>2. \A i \in 1..m : r[l + i][1] = f /\ r[l + i][2] = i
  BY <1>1
<1>3. \A i \in 1..m : IndAt(r, l + i) => i = 1 /\ f.kind = "ind"
  BY <1>2 DEF IndAt
<1>4. \A i \in 1..l : IndAt(r, i) <=> IndAt(s, i)
  BY <1>1 DEF IndAt
<1>5. ASSUME NEW n \in Nat, Below(s, n), f.kind = "ind" => f.n < n
      PROVE  Below(r, n)
  <2>1. ASSUME NEW k \in 1..(l + m), IndAt(r, k)
        PROVE  r[k][1].n < n
    <3>1. CASE k \in 1..l
      BY <1>1, <1>4, <1>5, <2>1, <3>1 DEF Below, l
    <3>2. ASSUME NEW i \in 1..m, k = l + i
          PROVE  r[k][1].n < n
      BY <1>2, <1>3, <1>5, <2>1, <3>2
    <3>3. QED
      BY <1>1, <3>1, <3>2, Parts
  <2>2. QED
    BY <1>1, <2>1 DEF Below
<1>6. ASSUME Ordered(s), f.kind = "ind" => Below(s, f.n)
      PROVE  Ordered(r)
  <2>1. ASSUME NEW j \in 1..(l + m), NEW k \in 1..(l + m), j < k, IndAt(r, j), IndAt(r, k)
        PROVE  r[j][1].n < r[k][1].n
    <3>1. CASE k \in 1..l
      <4>1. j \in 1..l
        BY <1>1, <2>1, <3>1
      <4>2. QED
        BY <1>1, <1>4, <1>6, <2>1, <3>1, <4>1 DEF Ordered, l
    <3>2. ASSUME NEW i \in 1..m, k = l + i
          PROVE  r[j][1].n < r[k][1].n
      <4>1. i = 1 /\ f.kind = "ind" /\ r[k][1] = f
        BY <1>2, <1>3, <2>1, <3>2
      <4>2. j \in 1..l
        BY <1>1, <2>1, <3>2, <4>1
      <4>3. r[j] = s[j] /\ IndAt(s, j)
        BY <1>1, <1>4, <2>1, <4>2
      <4>4. s[j][1].n < f.n
        BY <1>6, <4>1, <4>2, <4>3 DEF Below, l
      <4>5. QED
        BY <4>1, <4>3, <4>4
    <3>3. QED
      BY <1>1, <3>1, <3>2, Parts
  <2>2. QED
    BY <1>1, <2>1 DEF Ordered
<1>7. QED
  BY <1>5, <1>6 DEF r

LEMMA BelowMore ==
  ASSUME NEW s \in Seq(Unit), NEW m \in Nat, NEW n \in Nat, m <= n, Below(s, m)
  PROVE  Below(s, n)
<1>1. ASSUME NEW k \in 1..Len(s), IndAt(s, k)
      PROVE  s[k][1].n < n
  <2>1. s[k] \in Unit
    BY ElementOfSeq
  <2>2. s[k][1].n \in Nat /\ s[k][1].n < m
    BY <1>1, <2>1 DEF Below, Unit, AnyFrame
  <2>3. QED
    BY <2>2
<1>2. QED
  BY <1>1 DEF Below

\* What the proofs use of the types.
LEMMA LineTyped ==
  ASSUME BusTyped
  PROVE  /\ Stream \in Seq(Unit) /\ Waiting \in Seq(Full) /\ log.inds \in Nat
         /\ \A t \in Producers : frame[t] \in AnyFrame /\ frame[t].n \in Nat
         /\ \A i \in 1..Len(Waiting) : Waiting[i] \in Full /\ Waiting[i].n \in Nat
<1>1. Stream \in Seq(Unit)
  BY StreamTyped DEF BusTyped
<1>2. Waiting \in Seq(Full)
  BY DEF Waiting, BusTyped, QueuesTyped
<1>3. log.inds \in Nat
  BY DEF BusTyped, TasksTyped, Log
<1>4. \A t \in Producers : frame[t] \in AnyFrame /\ frame[t].n \in Nat
  BY DEF BusTyped, TasksTyped, AnyFrame
<1>5. QED
  BY <1>1, <1>2, <1>3, <1>4, ElementOfSeq, FullIs

\* No indication is added, and the tasks take up none.
LEMMA LineRests ==
  ASSUME BusTyped, InLine,
         log'.inds = log.inds \/ log'.inds = log.inds + 1,
         Ordered(Stream) => Ordered(Stream'), \A n : Below(Stream, n) => Below(Stream', n),
         Waiting' = Waiting, aps # NoQueue => aps' # NoQueue,
         Holds("main")' => Holds("main") /\ frame'["main"] = frame["main"],
         Holds("zb")' => Holds("zb") /\ frame'["zb"] = frame["zb"] /\ log'.inds = log.inds
  PROVE  InLine'
<1> USE DEF InLine
<1>0. /\ Stream \in Seq(Unit) /\ log.inds \in Nat /\ log'.inds \in Nat
      /\ \A i \in 1..Len(Waiting) : Waiting[i].n \in Nat
      /\ \A t \in Producers : frame[t].n \in Nat
  BY LineTyped
<1>1. Ordered(Stream') /\ Below(Stream', log'.inds + 1)
  <2>1. Below(Stream, log'.inds + 1)
    BY <1>0, BelowMore
  <2>2. QED
    BY <2>1
<1>2. \A i \in 1..Len(Waiting) : Waiting[i].n <= log'.inds /\ Below(Stream', Waiting[i].n)
  BY <1>0
<1>3. Holds("main")' =>
       /\ aps' # NoQueue /\ frame'["main"].n <= log'.inds /\ Below(Stream', frame'["main"].n)
       /\ \A i \in 1..Len(Waiting) : frame'["main"].n < Waiting[i].n
  BY <1>0, TaskNames
<1>4. Holds("zb")' =>
       /\ frame'["zb"].n = log'.inds /\ Below(Stream', log'.inds)
       /\ Waiting = <<>> /\ ~Holds("main")'
  BY <1>0
<1> HIDE DEF InLine
<1>5. \A i, j \in 1..Len(Waiting) : i < j => Waiting[i].n < Waiting[j].n
  BY DEF InLine
<1>6. QED
  BY <1>1, <1>2, <1>3, <1>4, <1>5 DEF InLine

\* A task appends its frame, or the part that fits.
LEMMA LineAppended ==
  ASSUME BusTyped, InLine, NEW t \in Producers, AppendUnits(t)
  PROVE  InLine'
<1> DEFINE f == frame[t]
<1>0. /\ Stream \in Seq(Unit) /\ log.inds \in Nat /\ f \in AnyFrame /\ f.n \in Nat
      /\ \A i \in 1..Len(Waiting) : Waiting[i].n \in Nat
      /\ \A q \in Producers : frame[q].n \in Nat
  BY LineTyped
<1>1. PICK m \in Nat, u \in Seq(Unit) :
        /\ Stream' = Stream \o u /\ Len(u) = m /\ \A i \in 1..m : u[i] = <<f, i>>
  <2>1. Stream' = Stream \o Take(Units(f), Space(input_buf))
    BY Appended
  <2>2. input_buf \in Seq(Unit) /\ Len(input_buf) <= BufSize
    BY DEF BusTyped, BufsTyped
  <2>3. PICK m \in 0..f.size, u \in Seq(Unit) :
          u = Take(Units(f), Space(input_buf)) /\ Len(u) = m /\ \A i \in 1..m : u[i] = <<f, i>>
    BY <1>0, <2>2, Filled
  <2>4. m \in Nat
    BY <1>0 DEF AnyFrame
  <2>5. QED
    BY <2>1, <2>3, <2>4
<1>2. /\ UNCHANGED <<aps, frame, log>> /\ pc[t] = "append"
      /\ \E p \in Steps : Goto(t, p) /\ p \notin Unsent
  BY DEF AppendUnits, Return, At, Unsent, Steps
<1>3. /\ pc'[t] \notin Unsent /\ \A q \in Tasks : q # t => pc'[q] = pc[q]
  <2>1. TasksTyped /\ t \in Tasks
    BY TaskNames DEF BusTyped
  <2>2. QED
    BY <1>2, <2>1, Went
<1>4. /\ ~Holds(t)' /\ (f.kind = "ind" => Holds(t))
      /\ \A q \in Producers : Holds(q)' => q # t /\ Holds(q)
  BY <1>2, <1>3, TaskNames DEF Holds, Unsent
<1>5. /\ f.kind = "ind" => Below(Stream, f.n) /\ f.n < log.inds + 1
      /\ f.kind = "ind" => \A i \in 1..Len(Waiting) : f.n < Waiting[i].n
      /\ f.kind = "ind" => \A q \in Producers : ~Holds(q)'
  <2>1. CASE t = "main"
    BY <1>0, <1>4, <2>1 DEF InLine, Producers
  <2>2. CASE t = "zb"
    <3>1. f.kind = "ind" => f.n = log.inds /\ Below(Stream, f.n) /\ Waiting = <<>> /\ ~Holds("main")
      BY <1>4, <2>2 DEF InLine
    <3>2. QED
      BY <1>0, <1>4, <2>2, <3>1 DEF Producers
  <2>3. QED
    BY <2>1, <2>2 DEF Producers
<1>6. /\ Ordered(Stream) => Ordered(Stream')
      /\ \A n \in Nat : Below(Stream, n) /\ (f.kind = "ind" => f.n < n) => Below(Stream', n)
  BY <1>0, <1>1, <1>5, Longer
<1> HIDE DEF f
<1>7. Waiting' = Waiting /\ log'.inds = log.inds
  BY <1>2 DEF Waiting
<1>8. Ordered(Stream') /\ Below(Stream', log.inds + 1)
  BY <1>0, <1>5, <1>6 DEF InLine
<1>9. \A i \in 1..Len(Waiting) : Waiting[i].n <= log.inds /\ Below(Stream', Waiting[i].n)
  BY <1>0, <1>5, <1>6 DEF InLine
<1>10. ASSUME Holds("main")'
       PROVE  /\ aps # NoQueue /\ frame["main"].n <= log.inds
              /\ Below(Stream', frame["main"].n)
              /\ \A i \in 1..Len(Waiting) : frame["main"].n < Waiting[i].n
  <2>1. f.kind # "ind" /\ Holds("main") /\ frame["main"].n \in Nat
    BY <1>0, <1>4, <1>5, <1>10, TaskNames
  <2>2. QED
    BY <1>6, <2>1 DEF InLine
<1>11. ASSUME Holds("zb")'
       PROVE  /\ frame["zb"].n = log.inds /\ Below(Stream', log.inds)
              /\ Waiting = <<>> /\ ~Holds("main")'
  <2>1. f.kind # "ind" /\ Holds("zb")
    BY <1>4, <1>5, <1>11, TaskNames
  <2>2. QED
    BY <1>0, <1>4, <1>6, <2>1, TaskNames DEF InLine
<1>12. \A i, j \in 1..Len(Waiting) : i < j => Waiting[i].n < Waiting[j].n
  BY DEF InLine
<1>13. QED
  BY <1>2, <1>7, <1>8, <1>9, <1>10, <1>11, <1>12 DEF InLine

\* The main task takes an indication for a poll, or answers that there is none.
LEMMA LinePolled ==
  ASSUME BusTyped, InLine, NEW s \in Sizes, Poll(s)
  PROVE  InLine'
<1>0. /\ Waiting \in Seq(Full) /\ log.inds \in Nat /\ frame \in [Producers -> AnyFrame]
      /\ \A i \in 1..Len(Waiting) : Waiting[i].n \in Nat
      /\ TasksTyped /\ aps \in Seq(Full) /\ Current \in Nat /\ aps # NoQueue
  <2>1. aps # NoQueue /\ Len(log.handled) > 0
    BY DEF Poll, At, BusTyped, TasksAgree, StepsAgree
  <2>2. Current \in Nat
    <3>1. Len(log.handled) \in 1..Len(log.handled) /\ log.handled \in Seq(AnyFrame)
      BY <2>1 DEF BusTyped, TasksTyped, Log
    <3>2. log.handled[Len(log.handled)] \in AnyFrame
      BY <3>1, ElementOfSeq
    <3>3. QED
      BY <3>2 DEF Current, AnyFrame
  <2>3. QED
    BY <2>1, <2>2, LineTyped DEF BusTyped, QueuesTyped, TasksTyped
<1>1. /\ Stream' = Stream /\ log' = log /\ pc["main"] = "poll" /\ Goto("main", "check")
      /\ \/ /\ aps # <<>> /\ aps' = Tail(aps)
            /\ frame' = [frame EXCEPT !.main = [Head(aps) EXCEPT !.re = Current]]
         \/ aps' = aps /\ frame' = [frame EXCEPT !.main = Frame("resp", 0, Current, s)]
  BY DEF Poll, Stream, At
<1>2. pc'["zb"] = pc["zb"] /\ frame'["zb"] = frame["zb"]
  <2>1. pc'["zb"] = pc["zb"]
    BY <1>0, <1>1, TaskNames, Went DEF Steps
  <2>2. QED
    BY <1>0, <1>1, <2>1, TaskNames
<1>3. (Holds("zb")' <=> Holds("zb")) /\ ~Holds("main")
  BY <1>1, <1>2 DEF Holds, Unsent
<1>4. CASE aps' = aps /\ frame' = [frame EXCEPT !.main = Frame("resp", 0, Current, s)]
  <2>1. ~Holds("main")'
    BY <1>0, <1>4, TaskNames DEF Holds, Frame
  <2>2. Waiting' = Waiting /\ log'.inds = log.inds
    BY <1>1, <1>4 DEF Waiting
  <2>3. QED
    BY <1>1, <1>2, <1>3, <1>4, <2>1, <2>2, LineRests
<1>5. CASE /\ aps # <<>> /\ aps' = Tail(aps)
           /\ frame' = [frame EXCEPT !.main = [Head(aps) EXCEPT !.re = Current]]
  <2> DEFINE w == Waiting
             n == Len(w)
  <2>1. w = aps /\ n \in Nat /\ n > 0 /\ Head(w) = w[1] /\ w[1] \in Full
    BY <1>0, <1>5 DEF Waiting
  <2>2. Tail(w) \in Seq(Full) /\ Len(Tail(w)) = n - 1 /\ \A i \in 1..(n - 1) : Tail(w)[i] = w[i + 1]
    BY <1>0, <1>5, <2>1
  <2>3. aps' # NoQueue /\ Waiting' = Tail(w)
    <3>1. aps' # NoQueue
      BY <1>5, <2>1, <2>2, NotAQueue
    <3>2. QED
      BY <1>5, <2>1, <3>1 DEF Waiting
  <2>4. frame'["main"].n = w[1].n
    <3>1. frame'["main"] = [w[1] EXCEPT !.re = Current]
      BY <1>0, <1>5, <2>1, TaskNames
    <3>2. QED
      BY <1>0, <2>1, <3>1, Redirected
  <2>5. /\ \A i \in 1..n : w[i].n <= log.inds /\ Below(Stream, w[i].n)
        /\ \A i, j \in 1..n : i < j => w[i].n < w[j].n
        /\ Ordered(Stream) /\ Below(Stream, log.inds + 1)
        /\ ~Holds("zb")
    BY <2>1 DEF InLine
  <2> HIDE DEF w, n
  <2>6. 1 \in 1..n /\ \A i \in 1..(n - 1) : i + 1 \in 1..n
    BY <2>1
  <2>7. \A i \in 1..(n - 1) : /\ Tail(w)[i].n <= log.inds /\ Below(Stream, Tail(w)[i].n)
                              /\ w[1].n < Tail(w)[i].n
    BY <2>2, <2>5, <2>6
  <2>8. \A i, j \in 1..(n - 1) : i < j => Tail(w)[i].n < Tail(w)[j].n
    BY <2>2, <2>5, <2>6
  <2>9. w[1].n <= log.inds /\ Below(Stream, w[1].n)
    BY <2>5, <2>6
  <2>10. QED
    BY <1>1, <1>3, <2>2, <2>3, <2>4, <2>5, <2>7, <2>8, <2>9 DEF InLine
<1>6. QED
  BY <1>1, <1>4, <1>5

\* The stack makes an indication.
LEMMA LineIndicated ==
  ASSUME BusTyped, InLine, NEW s \in Sizes, Indicate(s)
  PROVE  InLine'
<1> DEFINE f == Frame("ind", log.inds + 1, 0, s)
<1>0. /\ Waiting \in Seq(Full) /\ log.inds \in Nat /\ frame \in [Producers -> AnyFrame]
      /\ \A i \in 1..Len(Waiting) : Waiting[i].n \in Nat
      /\ \A q \in Producers : frame[q].n \in Nat
      /\ TasksTyped /\ (aps # NoQueue => aps \in Seq(Full)) /\ log \in Log
      /\ Stream \in Seq(Unit)
  BY LineTyped DEF BusTyped, QueuesTyped, TasksTyped
<1>1. f \in Full /\ f.n = log.inds + 1 /\ f.kind = "ind"
  <2>1. s \in Nat /\ s > 0 /\ "ind" \in AllKinds /\ log.inds + 1 \in Nat /\ 0 \in Nat
    BY <1>0, Constants DEF AllKinds
  <2>2. QED
    BY <2>1, FrameIs
<1> HIDE DEF f
<1>2. /\ Stream' = Stream /\ log'.inds = log.inds + 1 /\ pc["zb"] = "wait"
      /\ \/ /\ aps = NoQueue /\ aps' = aps
            /\ frame' = [frame EXCEPT !.zb = f] /\ Goto("zb", "check")
         \/ aps # NoQueue /\ aps' = Append(aps, f) /\ UNCHANGED <<frame, pc>>
         \/ UNCHANGED <<aps, frame, pc>>
  <2>1. log'.inds = log.inds + 1
    <3>1. log' = [log EXCEPT !.inds = @ + 1]
      BY Indicated
    <3>2. QED
      BY <1>0, <1>1, <3>1, Logged, FullIs
  <2>2. QED
    BY <2>1, Indicated DEF f, Stream
<1>3. ~Holds("zb")
  BY <1>2 DEF Holds, Unsent
<1>4. CASE UNCHANGED <<aps, frame, pc>>
  <2>1. (Holds("zb")' <=> Holds("zb")) /\ (Holds("main")' <=> Holds("main")) /\ Waiting' = Waiting
    BY <1>4 DEF Holds, Waiting
  <2>2. QED
    BY <1>2, <1>3, <1>4, <2>1, LineRests
<1>5. CASE /\ aps = NoQueue /\ aps' = aps
           /\ frame' = [frame EXCEPT !.zb = f] /\ Goto("zb", "check")
  <2>1. ~Holds("main") /\ Waiting = <<>> /\ Waiting' = <<>>
    BY <1>5 DEF InLine, Waiting
  <2>2. frame'["main"] = frame["main"] /\ pc'["main"] = pc["main"] /\ frame'["zb"] = f
    <3>1. pc'["main"] = pc["main"]
      BY <1>0, <1>5, TaskNames, Went DEF Steps
    <3>2. QED
      BY <1>0, <1>1, <1>5, <3>1, TaskNames, FullIs
  <2>3. ~Holds("main")'
    BY <2>1, <2>2 DEF Holds
  <2>4. Ordered(Stream) /\ Below(Stream, log.inds + 1)
    BY DEF InLine
  <2>5. Below(Stream, log.inds + 1 + 1)
    BY <1>0, <2>4, BelowMore
  <2>6. Len(<<>>) = 0
    OBVIOUS
  <2>7. QED
    BY <1>1, <1>2, <2>1, <2>2, <2>3, <2>4, <2>5, <2>6 DEF InLine
<1>6. CASE aps # NoQueue /\ aps' = Append(aps, f) /\ UNCHANGED <<frame, pc>>
  <2> DEFINE w == Waiting
             n == Len(w)
             v == Append(w, f)
  <2>1. w = aps /\ n \in Nat
    BY <1>0, <1>6 DEF Waiting
  <2>2. /\ v \in Seq(Full) /\ Len(v) = n + 1 /\ v[n + 1] = f
        /\ \A i \in 1..n : v[i] = w[i]
    BY <1>0, <1>1, <2>1, AppendProperties
  <2> HIDE DEF v
  <2>3. aps' # NoQueue /\ Waiting' = v
    <3>1. aps' = v
      BY <1>6, <2>1 DEF v
    <3>2. aps' # NoQueue
      BY <2>2, <3>1, NotAQueue
    <3>3. QED
      BY <3>1, <3>2 DEF Waiting
  <2>4. /\ \A i \in 1..n : w[i].n <= log.inds /\ Below(Stream, w[i].n) /\ w[i].n \in Nat
        /\ \A i, j \in 1..n : i < j => w[i].n < w[j].n
        /\ Ordered(Stream) /\ Below(Stream, log.inds + 1)
    BY <1>0 DEF InLine
  <2>5. Holds("main") => /\ frame["main"].n <= log.inds /\ Below(Stream, frame["main"].n)
                         /\ \A i \in 1..n : frame["main"].n < w[i].n
    BY DEF InLine
  <2>6. (Holds("main")' <=> Holds("main")) /\ ~Holds("zb")'
    BY <1>3, <1>6 DEF Holds
  <2> HIDE DEF w, n
  <2>7. \A i \in 1..(n + 1) : i \in 1..n \/ i = n + 1
    BY <2>1
  <2>8. \A i \in 1..(n + 1) : v[i].n <= log.inds + 1 /\ Below(Stream, v[i].n)
    <3>1. \A i \in 1..n : v[i].n <= log.inds + 1 /\ Below(Stream, v[i].n)
      BY <1>0, <2>2, <2>4
    <3>2. v[n + 1].n <= log.inds + 1 /\ Below(Stream, v[n + 1].n)
      BY <1>0, <1>1, <2>2, <2>4
    <3>3. QED
      BY <2>7, <3>1, <3>2
  <2>9. ASSUME NEW i \in 1..(n + 1), NEW j \in 1..(n + 1), i < j
        PROVE  v[i].n < v[j].n
    <3>1. i \in 1..n
      BY <2>1, <2>9
    <3>2. CASE j \in 1..n
      BY <2>2, <2>4, <2>9, <3>1, <3>2
    <3>3. CASE j = n + 1
      BY <1>0, <1>1, <2>2, <2>4, <3>1, <3>3
    <3>4. QED
      BY <2>7, <3>2, <3>3
  <2>10. Below(Stream, log.inds + 1 + 1)
    BY <1>0, <2>4, BelowMore
  <2>11. Holds("main") => \A i \in 1..(n + 1) : frame["main"].n < v[i].n
    <3>1. frame["main"].n \in Nat
      BY <1>0, TaskNames
    <3>2. Holds("main") => frame["main"].n < f.n
      BY <1>0, <1>1, <2>5, <3>1
    <3>3. QED
      BY <2>2, <2>5, <2>7, <3>2
  <2>12. Holds("main") => frame["main"].n <= log.inds + 1
    BY <1>0, <2>5, TaskNames
  <2>13. /\ \A i \in 1..Len(v) : v[i].n <= log'.inds /\ Below(Stream, v[i].n)
         /\ \A i, j \in 1..Len(v) : i < j => v[i].n < v[j].n
    BY <1>2, <2>2, <2>8, <2>9
  <2>14. frame' = frame /\ Stream' = Stream /\ log'.inds = log.inds + 1
    BY <1>2, <1>6
  <2>15. QED
    BY <2>2, <2>3, <2>4, <2>5, <2>6, <2>10, <2>11, <2>12, <2>13, <2>14 DEF InLine
<1>7. QED
  BY <1>2, <1>4, <1>5, <1>6

LEMMA LineStep ==
  ASSUME BusTyped, InLine, [Next]_vars
  PROVE  InLine'
<1>0. /\ TasksTyped /\ frame \in [Producers -> AnyFrame] /\ log \in Log
      /\ Len(tx) \in Nat /\ Len(input_buf) \in Nat /\ Len(Stream) = Len(tx) + Len(input_buf)
      /\ \A i \in 1..Len(tx) : Stream[i] = tx[i]
  BY StreamTyped DEF BusTyped, TasksTyped
<1>a. \E f : f \in Full
  <2>1. Frame("cmd", 0, 0, 1) \in Full
    BY FrameIs DEF AllKinds
  <2>2. QED
    BY <2>1
<1>1. ASSUME Stream' = Stream \/ Stream' = tx
      PROVE  /\ Ordered(Stream) => Ordered(Stream')
             /\ \A n : Below(Stream, n) => Below(Stream', n)
  BY <1>0, <1>1, Shorter
\* The main task goes on to a step at which it holds no indication it did not.
<1>2. ASSUME NEW p \in Steps, Goto("main", p), Stream' = Stream \/ Stream' = tx,
             frame'["zb"] = frame["zb"], Waiting' = Waiting, aps # NoQueue => aps' # NoQueue,
             log'.inds = log.inds, p \notin Unsent \/ frame'["main"].kind # "ind"
      PROVE  InLine'
  <2>1. pc'["main"] = p /\ pc'["zb"] = pc["zb"]
    BY <1>0, <1>2, TaskNames, Went
  <2>2. ~Holds("main")' /\ (Holds("zb")' <=> Holds("zb"))
    BY <1>2, <2>1 DEF Holds
  <2>3. QED
    BY <1>1, <1>2, <2>2, LineRests
\* Neither task takes up a frame.
<1>3. ASSUME UNCHANGED <<frame, aps>>, Stream' = Stream, log'.inds = log.inds,
             \A t \in Producers : pc'[t] \in Unsent => pc[t] \in Unsent
      PROVE  InLine'
  <2>1. /\ Holds("main")' => Holds("main")
        /\ Holds("zb")' => Holds("zb")
    BY <1>3, TaskNames DEF Holds
  <2>2. Waiting' = Waiting
    BY <1>3 DEF Waiting
  <2>3. QED
    BY <1>1, <1>3, <2>1, <2>2, LineRests
<1>4. ASSUME NEW k \in Kinds, NEW s \in RequestSizes, HostSends(k, s)
      PROVE  InLine'
  <2>1. UNCHANGED <<frame, aps, pc, tx, input_buf>> /\ log' = [log EXCEPT !.sent = @ + 1]
    BY <1>4 DEF HostSends
  <2>2. log'.inds = log.inds
    BY <1>0, <1>a, <2>1, Logged, FullIs
  <2>3. QED
    BY <1>3, <2>1, <2>2 DEF Stream
<1>5. CASE BusFlush \/ UNCHANGED vars
  BY <1>3, <1>5 DEF BusFlush, vars, Stream
<1>6. CASE BusRead
  <2>1. rx # <<>> /\ Head(rx) \in Full
    BY <1>6 DEF BusRead, BusTyped, BufsTyped
  <2>2. /\ UNCHANGED <<frame, aps, tx, input_buf>> /\ log' = [log EXCEPT !.read = Append(@, Head(rx))]
        /\ \E p \in {"wait", "done"} : Goto("bus", p)
    BY <1>6 DEF BusRead, Move
  <2>3. log'.inds = log.inds
    BY <1>0, <2>1, <2>2, Logged, FullIs
  <2>4. \A t \in Producers : pc'[t] = pc[t]
    <3>1. \A p \in {"wait", "done"} : p \in Steps
      BY DEF Steps
    <3>2. \A t \in Producers : t # "bus"
      BY DEF Producers
    <3>3. QED
      BY <1>0, <2>2, <3>1, <3>2, TaskNames, Went
  <2>5. QED
    BY <1>3, <2>2, <2>3, <2>4 DEF Stream
<1>7. ASSUME NEW t \in Producers, CheckSpace(t) \/ RetrySpace(t) \/ PostInput(t)
      PROVE  InLine'
  <2>1. UNCHANGED <<frame, aps, tx, input_buf, log>>
    BY <1>7 DEF CheckSpace, RetrySpace, PostInput
  <2>2. PICK p \in Steps : Goto(t, p) /\ (p \in Unsent => pc[t] \in Unsent)
    <3>1. CASE CheckSpace(t)
      BY <3>1 DEF CheckSpace, At, Unsent, Steps
    <3>2. CASE RetrySpace(t)
      BY <3>2 DEF RetrySpace, Return, At, Unsent, Steps
    <3>3. CASE PostInput(t)
      BY <3>3 DEF PostInput, Return, At, Unsent, Steps
    <3>4. QED
      BY <1>7, <3>1, <3>2, <3>3
  <2>3. \A q \in Producers : pc'[q] \in Unsent => pc[q] \in Unsent
    <3>1. pc'[t] = p /\ \A q \in Tasks : q # t => pc'[q] = pc[q]
      BY <1>0, <2>2, TaskNames, Went
    <3>2. QED
      BY <2>2, <3>1, TaskNames
  <2>4. QED
    BY <1>3, <2>1, <2>3 DEF Stream
<1>8. CASE TakeEvent
  <2>1. UNCHANGED <<frame, aps, tx, input_buf, log>> /\ Goto("main", "process")
    BY <1>8 DEF TakeEvent
  <2>2. "process" \in Steps /\ "process" \notin Unsent
    BY DEF Steps, Unsent
  <2>3. QED
    BY <1>2, <2>1, <2>2 DEF Stream, Waiting
<1>9. CASE ProcessInput
  <2>1. UNCHANGED <<frame, aps, log>> /\ Goto("main", "wait")
    BY <1>9 DEF ProcessInput, Loop
  <2>2. Stream' = Stream \/ Stream' = tx
    BY <1>9, Delivered
  <2>3. "wait" \in Steps /\ "wait" \notin Unsent
    BY DEF Steps, Unsent
  <2>4. QED
    BY <1>2, <2>1, <2>2, <2>3 DEF Waiting
<1>10. CASE MainReturns
  <2>1. /\ UNCHANGED <<aps, tx, input_buf, log>> /\ frame' = [frame EXCEPT !.main = NoFrame]
    BY <1>10 DEF MainReturns
  <2>2. PICK p \in {"wait", "done"} : Goto("main", p)
    <3>1. \E ok \in BOOLEAN : Loop(ok)
      BY <1>10 DEF MainReturns
    <3>2. QED
      BY <3>1 DEF Loop
  <2>3. p \in Steps /\ p \notin Unsent
    BY DEF Steps, Unsent
  <2>4. frame'["zb"] = frame["zb"]
    BY <1>0, <2>1, TaskNames
  <2>5. QED
    BY <1>2, <2>1, <2>2, <2>3, <2>4 DEF Stream, Waiting
<1>11. ASSUME NEW s \in Sizes, ProcessOutput(s)
       PROVE  InLine'
  <2>0. "wait" \in Steps \ Unsent /\ "poll" \in Steps \ Unsent /\ "check" \in Steps
    BY DEF Steps, Unsent
  <2>1. UNCHANGED <<tx, input_buf>>
    BY <1>11, Processed
  <2>2. CASE UNCHANGED <<frame, log, aps>> /\ Goto("main", "wait")
    BY <1>2, <2>0, <2>1, <2>2 DEF Stream, Waiting
  <2>3. ASSUME NEW r \in AnyFrame, NEW k \in {"resp", "err"},
               log' = [log EXCEPT !.handled = Append(@, r)],
               aps' = IF r.kind = "poll" /\ aps = NoQueue THEN <<>> ELSE aps,
               \/ /\ r.kind \notin {"unknown", "poll"} /\ Goto("main", "check")
                  /\ frame' = [frame EXCEPT !.main = Frame(k, 0, r.n, s)]
               \/ r.kind = "unknown" /\ Goto("main", "wait") /\ frame' = frame
               \/ r.kind = "poll" /\ Goto("main", "poll") /\ frame' = frame
        PROVE  InLine'
    <3>1. log'.inds = log.inds
      BY <1>0, <1>a, <2>3, Logged
    <3>2. Waiting' = Waiting /\ (aps # NoQueue => aps' # NoQueue)
      BY <2>3 DEF Waiting
    <3>3. CASE frame' = frame /\ \E p \in {"wait", "poll"} : Goto("main", p)
      BY <1>2, <2>0, <2>1, <3>1, <3>2, <3>3 DEF Stream
    <3>4. CASE frame' = [frame EXCEPT !.main = Frame(k, 0, r.n, s)] /\ Goto("main", "check")
      <4>1. frame'["main"] = Frame(k, 0, r.n, s) /\ frame'["zb"] = frame["zb"]
        BY <1>0, <3>4, TaskNames
      <4>2. frame'["main"].kind # "ind"
        BY <4>1 DEF Frame
      <4>3. QED
        BY <1>2, <2>0, <2>1, <3>1, <3>2, <3>4, <4>1, <4>2 DEF Stream
    <3>5. QED
      BY <2>3, <3>3, <3>4
  <2>4. QED
    BY <1>11, <2>2, <2>3, Processed
<1>12. ASSUME NEW s \in Sizes, Notify(s)
       PROVE  InLine'
  <2> DEFINE f == Frame("noti", log.inds + 1, 0, s)
  <2>1. /\ UNCHANGED <<aps, tx, input_buf>> /\ log' = [log EXCEPT !.inds = @ + 1]
        /\ frame' = [frame EXCEPT !.zb = f] /\ Goto("zb", "check")
    BY <1>12 DEF Notify
  <2>2. log'.inds = log.inds + 1
    BY <1>0, <1>a, <2>1, Logged, FullIs
  <2>3. frame'["zb"] = f /\ frame'["main"] = frame["main"] /\ f.kind = "noti"
    BY <1>0, <2>1, TaskNames DEF Frame
  <2>4. pc'["main"] = pc["main"]
    BY <1>0, <2>1, TaskNames, Went DEF Steps
  <2>5. ~Holds("zb")' /\ (Holds("main")' <=> Holds("main"))
    BY <2>3, <2>4 DEF Holds
  <2>6. Stream' = Stream /\ Waiting' = Waiting
    BY <2>1 DEF Stream, Waiting
  <2>7. QED
    BY <1>1, <2>1, <2>2, <2>3, <2>5, <2>6, LineRests
<1>13. QED
  BY <1>4, <1>5, <1>6, <1>7, <1>8, <1>9, <1>10, <1>11, <1>12, LineAppended, LinePolled,
     LineIndicated, BusSorted

LEMMA LineStart == Init => InLine
<1> SUFFICES ASSUME Init
             PROVE  InLine
  OBVIOUS
<1>1. Stream = <<>> /\ Waiting = <<>> /\ log.inds = 0
  BY DEF Init, Stream, Waiting
<1>2. ~Holds("main") /\ ~Holds("zb")
  BY DEF Init, Holds, Unsent
<1>3. QED
  BY <1>1, <1>2 DEF InLine, Ordered, Below

LEMMA LineHolds == BusTyped /\ InLine => IndicationsInOrder
<1> SUFFICES ASSUME BusTyped, InLine
             PROVE  IndicationsInOrder
  OBVIOUS
<1>1. /\ DOMAIN tx = 1..Len(tx) /\ \A i \in 1..Len(tx) : Stream[i] = tx[i] /\ i \in 1..Len(Stream)
  BY StreamTyped DEF BusTyped, BufsTyped
<1>2. Ordered(Stream)
  BY DEF InLine
<1>3. QED
  BY <1>1, <1>2 DEF IndicationsInOrder, Firsts, Ordered, IndAt

-----------------------------------------------------------------------------
(* The transport, as long as nothing is refused.                           *)

\* The events not dealt with yet.
Pending == IF pc["main"] = "process" THEN <<event>> \o queue ELSE queue
Running == queue # NoQueue /\ state = "START" /\ pc["main"] \notin {"failed", "done"}

LEMMA RefusedGrows ==
  ASSUME BusTyped, [Next]_vars
  PROVE  refused \subseteq refused'
<1>0. QueuesTyped /\ TasksTyped
  BY DEF BusTyped
<1>1. CASE TakeEvent \/ ProcessInput \/ MainReturns \/ BusFlush \/ UNCHANGED vars
  BY <1>1 DEF TakeEvent, ProcessInput, MainReturns, BusFlush, vars
<1>2. ASSUME NEW e, NEW cut, SendEvent(e, cut)
      PROVE  refused \subseteq refused'
  BY <1>2 DEF SendEvent
<1>3. CASE BusRead
  BY <1>2, <1>3 DEF BusRead
<1>4. ASSUME NEW t \in Producers, CheckSpace(t) \/ RetrySpace(t) \/ AppendUnits(t) \/ PostInput(t)
      PROVE  refused \subseteq refused'
  BY <1>2, <1>4 DEF CheckSpace, RetrySpace, AppendUnits, PostInput, Refuse
<1>5. ASSUME NEW s \in Sizes, ProcessOutput(s)
      PROVE  refused \subseteq refused'
  BY <1>5, Processed
<1>6. ASSUME NEW s \in Sizes, Poll(s) \/ Notify(s)
      PROVE  refused \subseteq refused'
  BY <1>6 DEF Poll, Notify
<1>7. ASSUME NEW s \in Sizes, Indicate(s)
      PROVE  refused \subseteq refused'
  BY <1>7, Indicated DEF Refuse
<1>8. ASSUME NEW k \in Kinds, NEW s \in RequestSizes, HostSends(k, s)
      PROVE  refused \subseteq refused'
  BY <1>8 DEF HostSends
<1>9. QED
  BY <1>1, <1>3, <1>4, <1>5, <1>6, <1>7, <1>8, BusSorted

\* The steps of esp_ncp_bus_input, when they refuse nothing.
LEMMA Accepted ==
  ASSUME BusTyped, refused' = {}, NEW t \in Producers
  PROVE  /\ RetrySpace(t)  => Goto(t, "append")
         /\ AppendUnits(t) => Space(input_buf) >= frame[t].size /\ Goto(t, "post")
         /\ PostInput(t)   => /\ queue # NoQueue /\ queue' = Append(queue, EventOf(frame[t]))
                              /\ EventOf(frame[t]) \in Events
                              /\ Goto(t, IF t = "zb" THEN "wait" ELSE "sent")
<1>0. QueuesTyped /\ TasksTyped /\ frame[t] \in AnyFrame
  BY DEF BusTyped, TasksTyped
<1>1. RetrySpace(t) => Goto(t, "append")
  BY DEF RetrySpace, Refuse
<1>2. AppendUnits(t) => Space(input_buf) >= frame[t].size /\ Goto(t, "post")
  BY DEF AppendUnits, Refuse
<1>3. EventOf(frame[t]) \in Events
  BY <1>0 DEF EventOf, Events, AnyFrame
<1>4. ASSUME PostInput(t)
      PROVE  /\ queue # NoQueue /\ queue' = Append(queue, EventOf(frame[t]))
             /\ Goto(t, IF t = "zb" THEN "wait" ELSE "sent")
  <2>1. queue # NoQueue /\ queue' = Append(queue, EventOf(frame[t])) /\ Accepts
    BY <1>0, <1>3, <1>4, Posted DEF PostInput
  <2>2. QED
    BY <1>4, <2>1 DEF PostInput, Return
<1>5. QED
  BY <1>1, <1>2, <1>3, <1>4

LEMMA BusAccepted ==
  ASSUME BusTyped, refused' = {}, BusRead
  PROVE  LET r == Head(rx)
             e == [event |-> "OUTPUT", size |-> r.size]
         IN  /\ r \in Full /\ e \in Events /\ queue # NoQueue /\ queue' = Append(queue, e)
             /\ Space(output_buf) >= r.size
<1> DEFINE r == Head(rx)
           e == [event |-> "OUTPUT", size |-> r.size]
<1>0. QueuesTyped /\ TasksTyped
  BY DEF BusTyped
<1>1. r \in Full
  BY DEF BusRead, BusTyped, BufsTyped
<1>2. e \in Events
  BY <1>1, FullIs DEF Events
<1> HIDE DEF r
<1>3. PICK cut \in BOOLEAN : SendEvent(e, cut) /\ (cut <=> Space(output_buf) < r.size)
  <2>1. (Space(output_buf) < r.size) \in BOOLEAN
    OBVIOUS
  <2>2. QED
    BY <2>1 DEF BusRead, r
<1>4. ~cut /\ queue # NoQueue /\ queue' = Append(queue, e)
  BY <1>0, <1>2, <1>3, Posted
<1>5. Space(output_buf) \in Int /\ r.size \in Nat
  BY <1>1, FullIs, Constants DEF Space, BusTyped, BufsTyped
<1>6. QED
  BY <1>1, <1>2, <1>3, <1>4, <1>5 DEF r

LEMMA Goes ==
  ASSUME TasksTyped, NEW p \in Steps
  PROVE  /\ Goto("main", p) => pc'["main"] = p /\ pc'["zb"] = pc["zb"]
         /\ Goto("zb", p)   => pc'["zb"] = p /\ pc'["main"] = pc["main"]
         /\ Goto("bus", p)  => pc'["zb"] = pc["zb"] /\ pc'["main"] = pc["main"]
BY Went, TaskNames DEF Tasks

LEMMA PendingIs ==
  ASSUME QueuesTyped, queue # NoQueue
  PROVE  Pending \in Seq(Events) /\ (pc["main"] = "process" => Pending # <<>>)
<1>1. event \in Events /\ queue \in Seq(Events)
  BY DEF QueuesTyped
<1>2. <<event>> \in Seq(Events) /\ Len(<<event>>) = 1
  BY <1>1
<1>3. <<event>> \o queue \in Seq(Events) /\ Len(<<event>> \o queue) = 1 + Len(queue)
  BY <1>1, <1>2, ConcatProperties
<1>4. Len(queue) \in Nat
  BY <1>1
<1>5. <<event>> \o queue # <<>>
  <2>1. Len(<<event>> \o queue) # 0
    BY <1>3, <1>4
  <2>2. QED
    BY <2>1
<1>6. QED
  BY <1>1, <1>3, <1>5 DEF Pending

LEMMA PendingRests ==
  ASSUME UNCHANGED <<queue, event>>, pc'["main"] = "process" <=> pc["main"] = "process"
  PROVE  Pending' = Pending
BY DEF Pending

LEMMA PendingTaken ==
  ASSUME BusTyped, TakeEvent
  PROVE  Pending' = Pending
<1>1. queue \in Seq(Events) /\ queue # <<>> /\ pc["main"] = "wait"
  BY DEF TakeEvent, At, BusTyped, QueuesTyped, TasksAgree
<1>2. event' = Head(queue) /\ queue' = Tail(queue) /\ pc'["main"] = "process"
  BY Goes DEF TakeEvent, BusTyped, Steps
<1> DEFINE n == Len(queue)
           l == <<Head(queue)>> \o Tail(queue)
<1>3. /\ n \in Nat /\ n > 0 /\ Head(queue) = queue[1] /\ Head(queue) \in Events
      /\ Tail(queue) \in Seq(Events) /\ Len(Tail(queue)) = n - 1
      /\ \A i \in 1..(n - 1) : Tail(queue)[i] = queue[i + 1]
  BY <1>1
<1>4. <<Head(queue)>> \in Seq(Events) /\ Len(<<Head(queue)>>) = 1 /\ <<Head(queue)>>[1] = Head(queue)
  BY <1>3
<1>5. /\ l \in Seq(Events) /\ Len(l) = 1 + (n - 1)
      /\ \A i \in 1..(1 + (n - 1)) : l[i] = IF i <= 1 THEN <<Head(queue)>>[i] ELSE Tail(queue)[i - 1]
  BY <1>3, <1>4, ConcatProperties
<1> HIDE DEF n, l
<1>6. ASSUME NEW i \in 1..n
      PROVE  l[i] = queue[i]
  <2>1. CASE i = 1
    BY <1>3, <1>4, <1>5, <2>1
  <2>2. CASE i > 1
    <3>1. i - 1 \in 1..(n - 1) /\ (i - 1) + 1 = i
      BY <1>3, <2>2
    <3>2. l[i] = Tail(queue)[i - 1]
      BY <1>3, <1>5, <2>2
    <3>3. QED
      BY <1>3, <3>1, <3>2
  <2>3. QED
    BY <1>3, <2>1, <2>2
<1>7. l = queue
  <2>1. Len(l) = Len(queue)
    BY <1>3, <1>5 DEF n
  <2>2. QED
    BY <1>1, <1>5, <1>6, <2>1, SeqEqual DEF n
<1>8. QED
  BY <1>1, <1>2, <1>7 DEF Pending, l

LEMMA PendingPosted ==
  ASSUME BusTyped, queue # NoQueue, NEW e \in Events, queue' = Append(queue, e), event' = event,
         pc'["main"] = "process" <=> pc["main"] = "process"
  PROVE  Pending' = Append(Pending, e)
<1>1. queue \in Seq(Events) /\ event \in Events
  BY DEF BusTyped, QueuesTyped
<1>2. <<event>> \in Seq(Events) /\ <<e>> \in Seq(Events)
  BY <1>1
<1>3. Append(queue, e) = queue \o <<e>>
  BY <1>1, AppendIsConcat
<1>4. <<event>> \o (queue \o <<e>>) = (<<event>> \o queue) \o <<e>>
  BY <1>1, <1>2, ConcatAssociative
<1>5. (<<event>> \o queue) \in Seq(Events)
  BY <1>1, <1>2, ConcatProperties
<1>6. (<<event>> \o queue) \o <<e>> = Append(<<event>> \o queue, e)
  BY <1>5, AppendIsConcat
<1>7. QED
  BY <1>3, <1>4, <1>6 DEF Pending

LEMMA PendingDone ==
  ASSUME BusTyped, queue # NoQueue, queue' = queue, pc["main"] = "process",
         pc'["main"] # "process"
  PROVE  /\ Pending \in Seq(Events) /\ Pending # <<>> /\ Pending[1] = event
         /\ Pending' = Tail(Pending)
<1>1. queue \in Seq(Events) /\ event \in Events
  BY DEF BusTyped, QueuesTyped
<1>2. Pending = <<event>> \o queue /\ Pending' = queue
  BY DEF Pending
<1>3. Pending \in Seq(Events) /\ Pending # <<>>
  BY PendingIs DEF BusTyped
<1> DEFINE p == <<event>> \o queue
           m == Len(queue)
<1>4. <<event>> \in Seq(Events) /\ Len(<<event>>) = 1 /\ <<event>>[1] = event /\ m \in Nat
  BY <1>1
<1>5. /\ Len(p) = 1 + m
      /\ \A i \in 1..1 : p[i] = <<event>>[i]
      /\ \A i \in 1..m : p[1 + i] = queue[i]
  <2>1. /\ Len(p) = Len(<<event>>) + Len(queue)
        /\ \A i \in 1..Len(<<event>>) : p[i] = <<event>>[i]
        /\ \A i \in 1..Len(queue) : p[Len(<<event>>) + i] = queue[i]
    BY <1>1, <1>4, Concatenation
  <2>2. QED
    BY <1>4, <2>1
<1> HIDE DEF p, m
<1>6. /\ Tail(Pending) \in Seq(Events) /\ Len(Tail(Pending)) = Len(Pending) - 1
      /\ \A i \in 1..Len(Tail(Pending)) : Tail(Pending)[i] = Pending[i + 1]
  BY <1>3, HeadTailProperties
<1>7. Len(Tail(Pending)) = Len(queue)
  BY <1>2, <1>4, <1>5, <1>6 DEF p, m
<1>8. \A i \in 1..m : Tail(Pending)[i] = queue[i]
  <2> SUFFICES ASSUME NEW i \in 1..m
               PROVE  Tail(Pending)[i] = queue[i]
    OBVIOUS
  <2>1. Tail(Pending)[i] = Pending[i + 1]
    BY <1>6, <1>7 DEF m
  <2>2. p[1 + i] = queue[i] /\ 1 + i = i + 1
    BY <1>4, <1>5
  <2>3. QED
    BY <1>2, <2>1, <2>2 DEF p
<1>9. Tail(Pending) = queue
  BY <1>1, <1>6, <1>7, <1>8, SeqEqual DEF m
<1>10. p[1] = event
  BY <1>4, <1>5
<1>11. QED
  BY <1>2, <1>3, <1>9, <1>10 DEF p

LEMMA RunningStep ==
  ASSUME BusTyped, Running, refused' = {}, [Next]_vars
  PROVE  Running'
<1>0. QueuesTyped /\ TasksTyped
  BY DEF BusTyped
<1> USE DEF Running
<1>1. ASSUME UNCHANGED <<queue, state>>, pc'["main"] \notin {"failed", "done"}
      PROVE  Running'
  BY <1>1
<1>2. ASSUME NEW p \in Steps \ {"failed", "done"}, Goto("main", p), UNCHANGED <<queue, state>>
      PROVE  Running'
  BY <1>0, <1>1, <1>2, Goes
<1>3. CASE BusFlush \/ UNCHANGED vars
  BY <1>1, <1>3 DEF BusFlush, vars
<1>4. ASSUME NEW k \in Kinds, NEW s \in RequestSizes, HostSends(k, s)
      PROVE  Running'
  BY <1>1, <1>4 DEF HostSends
<1>5. CASE BusRead
  <2>1. queue' # NoQueue
    <3>1. PICK e \in Events, cut \in BOOLEAN : SendEvent(e, cut)
      <4>1. Head(rx) \in Full /\ (Space(output_buf) < Head(rx).size) \in BOOLEAN
        BY <1>5 DEF BusRead, BusTyped, BufsTyped
      <4>2. [event |-> "OUTPUT", size |-> Head(rx).size] \in Events
        BY <4>1, FullIs DEF Events
      <4>3. QED
        BY <1>5, <4>1, <4>2 DEF BusRead
    <3>2. QED
      BY <1>0, <3>1, Posted
  <2>2. state' = state /\ Goto("bus", "wait")
    BY <1>5 DEF BusRead
  <2>3. pc'["main"] = pc["main"]
    BY <1>0, <2>2, Goes DEF Steps
  <2>4. QED
    BY <2>1, <2>2, <2>3
<1>6. ASSUME NEW t \in Producers, NEW p \in Steps, Goto(t, p), state' = state, queue' # NoQueue,
             p \notin {"failed", "done"}
      PROVE  Running'
  BY <1>0, <1>6, Goes DEF Producers
<1>7. ASSUME NEW t \in Producers, CheckSpace(t) \/ RetrySpace(t) \/ AppendUnits(t)
      PROVE  Running'
  <2>1. UNCHANGED <<queue, state>>
    BY <1>7 DEF CheckSpace, RetrySpace, AppendUnits
  <2>2. \E p \in {"append", "retry", "post"} : Goto(t, p)
    BY <1>7, Accepted DEF CheckSpace
  <2>3. \A p \in {"append", "retry", "post"} : p \in Steps
    BY DEF Steps
  <2>4. QED
    BY <1>6, <2>1, <2>2, <2>3
<1>8. ASSUME NEW t \in Producers, PostInput(t)
      PROVE  Running'
  <2>1. queue' # NoQueue
    <3>1. EventOf(frame[t]) \in Events /\ SendEvent(EventOf(frame[t]), FALSE)
      BY <1>8, Accepted DEF PostInput
    <3>2. QED
      BY <1>0, <3>1, Posted
  <2>2. state' = state /\ \E p \in {"wait", "sent"} : Goto(t, p)
    BY <1>8, Accepted DEF PostInput
  <2>3. \A p \in {"wait", "sent"} : p \in Steps
    BY DEF Steps
  <2>4. QED
    BY <1>6, <2>1, <2>2, <2>3
<1>9. CASE TakeEvent
  <2>1. queue \in Seq(Events) /\ queue # <<>>
    BY <1>0, <1>9 DEF TakeEvent, QueuesTyped
  <2>2. Tail(queue) \in Seq(Events)
    BY <2>1
  <2>3. queue' # NoQueue /\ state' = state /\ Goto("main", "process")
    BY <1>9, <2>2, NotAQueue DEF TakeEvent
  <2>4. QED
    BY <1>6, <2>3, TaskNames DEF Steps
<1>10. CASE ProcessInput
  BY <1>2, <1>10 DEF ProcessInput, Loop, Steps
<1>11. CASE MainReturns
  <2>1. Goto("main", "wait") /\ UNCHANGED <<queue, state>>
    <3>1. pc["main"] # "failed"
      OBVIOUS
    <3>2. Loop(TRUE)
      BY <1>11, <3>1 DEF MainReturns, At
    <3>3. QED
      BY <3>2 DEF Loop
  <2>2. QED
    BY <1>2, <2>1 DEF Steps
<1>12. ASSUME NEW s \in Sizes, ProcessOutput(s)
       PROVE  Running'
  <2>1. UNCHANGED <<queue, state>> /\ \E p \in {"wait", "check", "poll"} : Goto("main", p)
    BY <1>12, Processed
  <2>2. QED
    BY <1>2, <2>1 DEF Steps
<1>13. ASSUME NEW s \in Sizes, Poll(s)
       PROVE  Running'
  BY <1>2, <1>13 DEF Poll, Steps
<1>14. ASSUME NEW s \in Sizes, Indicate(s) \/ Notify(s)
       PROVE  Running'
  <2>1. UNCHANGED <<queue, state>> /\ (pc' = pc \/ Goto("zb", "check"))
    BY <1>14, Indicated DEF Notify
  <2>2. pc'["main"] = pc["main"]
    BY <1>0, <2>1, Goes DEF Steps
  <2>3. QED
    BY <1>1, <2>1, <2>2
<1>15. QED
  BY <1>3, <1>4, <1>5, <1>7, <1>8, <1>9, <1>10, <1>11, <1>12, <1>13, <1>14, BusSorted

\* A run of units is whole frames.
Framed(s) ==
  /\ \A k \in 1..Len(s) : s[k][1].size \in Nat /\ s[k][2] \in 1..s[k][1].size
  /\ \A k \in 1..Len(s) :
       IF s[k][2] = 1 THEN k > 1 => s[k - 1][2] = s[k - 1][1].size
       ELSE k > 1 /\ s[k - 1] = <<s[k][1], s[k][2] - 1>>
  /\ Len(s) > 0 => s[Len(s)][2] = s[Len(s)][1].size

LEMMA FramedMore ==
  ASSUME NEW s \in Seq(Unit), NEW f \in AnyFrame, NEW u \in Seq(Unit), f.size > 0,
         Len(u) = f.size, \A i \in 1..f.size : u[i] = <<f, i>>, Framed(s)
  PROVE  Framed(s \o u)
<1> DEFINE l == Len(s)
           m == f.size
           r == s \o u
<1>1. m \in Nat /\ m > 0 /\ l \in Nat
  BY LenProperties DEF AnyFrame
<1>2. /\ Len(r) = l + m
      /\ \A i \in 1..l : r[i] = s[i]
      /\ \A i \in 1..m : r[l + i] = u[i]
  <2>1. /\ Len(s \o u) = Len(s) + Len(u)
        /\ \A i \in 1..Len(s) : (s \o u)[i] = s[i]
        /\ \A i \in 1..Len(u) : (s \o u)[Len(s) + i] = u[i]
    BY ONLY s \in Seq(Unit), u \in Seq(Unit), Concatenation
  <2>2. QED
    BY ONLY <1>1, <2>1, Len(u) = m
<1>3. \A i \in 1..m : r[l + i][1] = f /\ r[l + i][2] = i /\ r[l + i] = <<f, i>>
  BY <1>2
<1>4. /\ \A k \in 1..l : s[k][1].size \in Nat /\ s[k][2] \in 1..s[k][1].size
      /\ \A k \in 1..l : IF s[k][2] = 1 THEN k > 1 => s[k - 1][2] = s[k - 1][1].size
                         ELSE k > 1 /\ s[k - 1] = <<s[k][1], s[k][2] - 1>>
      /\ l > 0 => s[l][2] = s[l][1].size
  BY DEF Framed
<1> HIDE DEF l, r
<1>5. ASSUME NEW k \in 1..(l + m)
      PROVE  /\ r[k][1].size \in Nat /\ r[k][2] \in 1..r[k][1].size
             /\ IF r[k][2] = 1 THEN k > 1 => r[k - 1][2] = r[k - 1][1].size
                ELSE k > 1 /\ r[k - 1] = <<r[k][1], r[k][2] - 1>>
  <2>1. CASE k \in 1..l
    <3>1. r[k] = s[k] /\ (k > 1 => r[k - 1] = s[k - 1])
      <4>1. k > 1 => k - 1 \in 1..l
        BY <1>1, <2>1
      <4>2. QED
        BY <1>2, <2>1, <4>1
    <3>2. QED
      BY <1>4, <2>1, <3>1
  <2>2. ASSUME NEW i \in 1..m, k = l + i
        PROVE  /\ r[k][1].size \in Nat /\ r[k][2] \in 1..r[k][1].size
               /\ IF r[k][2] = 1 THEN k > 1 => r[k - 1][2] = r[k - 1][1].size
                  ELSE k > 1 /\ r[k - 1] = <<r[k][1], r[k][2] - 1>>
    <3>1. r[k][1] = f /\ r[k][2] = i
      BY <1>3, <2>2
    <3>2. CASE i = 1
      <4>1. k > 1 => l \in 1..l /\ k - 1 = l
        BY <1>1, <2>2, <3>2
      <4>2. k > 1 => r[k - 1] = s[l] /\ l > 0
        BY <1>2, <4>1
      <4>3. QED
        BY <1>1, <1>4, <3>1, <3>2, <4>2
    <3>3. CASE i > 1
      <4>1. i - 1 \in 1..m /\ k - 1 = l + (i - 1) /\ k > 1
        BY <1>1, <2>2, <3>3
      <4>2. r[k - 1] = <<f, i - 1>>
        BY <1>3, <4>1
      <4>3. QED
        BY <1>1, <3>1, <3>3, <4>1, <4>2
    <3>4. QED
      BY <1>1, <3>2, <3>3
  <2>3. QED
    BY <1>1, <2>1, <2>2, Parts
<1>6. r[l + m][2] = m /\ r[l + m][1] = f
  BY <1>1, <1>3
<1>7. QED
  BY <1>1, <1>2, <1>5, <1>6 DEF Framed, r

\* The lengths of the events to the UART, and of the frames whose event is yet
\* to be posted, are those of the units in the buffer.
InW     == [e \in Events |-> IF e.event = "INPUT" THEN e.size ELSE 0]
Post(t) == IF pc[t] = "post" THEN frame[t].size ELSE 0
InputCounted ==
  \E c : Sums(Pending, InW, c) /\ c[1] + Post("main") + Post("zb") = Len(input_buf)

LEMMA InWeight ==
  /\ InW \in [Events -> Nat]
  /\ \A e \in Events : /\ InW[e] = IF e.event = "INPUT" THEN e.size ELSE 0
                       /\ e.size \in Nat
BY DEF InW, Events

LEMMA PostIs ==
  ASSUME BusTyped, NEW t \in Producers
  PROVE  Post(t) \in Nat
BY DEF Post, BusTyped, TasksTyped, AnyFrame

\* A sum of a sequence that is not empty begins with a number.
LEMMA SumsTotal ==
  ASSUME NEW q \in Seq(Events), NEW W, NEW c, Sums(q, W, c)
  PROVE  c[1] \in Nat
<1>1. 1 \in 1..(Len(q) + 1)
  BY LenProperties
<1>2. QED
  BY <1>1 DEF Sums

LEMMA CountRests ==
  ASSUME InputCounted, Pending' = Pending, Len(input_buf') = Len(input_buf),
         Post("main")' = Post("main"), Post("zb")' = Post("zb")
  PROVE  InputCounted'
BY DEF InputCounted

\* An event is posted.
LEMMA CountPosted ==
  ASSUME BusTyped, InputCounted, queue # NoQueue, NEW e \in Events,
         Pending' = Append(Pending, e), Len(input_buf') = Len(input_buf),
         Post("main")' \in Nat, Post("zb")' \in Nat,
         InW[e] + Post("main")' + Post("zb")' = Post("main") + Post("zb")
  PROVE  InputCounted'
<1>1. PICK c : Sums(Pending, InW, c) /\ c[1] + Post("main") + Post("zb") = Len(input_buf)
  BY DEF InputCounted
<1>2. Pending \in Seq(Events) /\ Len(Pending) \in Nat
  BY PendingIs DEF BusTyped
<1>3. PICK d : /\ Sums(Append(Pending, e), InW, d)
               /\ \A i \in 1..(Len(Pending) + 1) : d[i] = c[i] + InW[e]
  BY <1>1, <1>2, InWeight, SumsAppend
<1>4. d[1] = c[1] + InW[e] /\ c[1] \in Nat /\ InW[e] \in Nat
  <2>1. 1 \in 1..(Len(Pending) + 1)
    BY <1>2
  <2>2. QED
    BY <1>1, <1>2, <1>3, <2>1, InWeight, SumsTotal
<1>5. Post("main") \in Nat /\ Post("zb") \in Nat
  BY PostIs, TaskNames
<1>6. d[1] + Post("main")' + Post("zb")' = Len(input_buf')
  <2>1. /\ InW[e] + Post("main")' + Post("zb")' = Post("main") + Post("zb")
        /\ Post("main")' \in Nat /\ Post("zb")' \in Nat
        /\ c[1] + Post("main") + Post("zb") = Len(input_buf')
    BY <1>1
  <2>2. QED
    BY ONLY <1>4, <1>5, <2>1, SMTT(30)
<1>7. QED
  BY <1>3, <1>6 DEF InputCounted

\* The first event is dealt with; there are as many units as it says.
LEMMA CountTaken ==
  ASSUME BusTyped, InputCounted, queue # NoQueue, Pending # <<>>, Pending[1] = event,
         Pending' = Tail(Pending),
         InW[event] <= Len(input_buf) => Len(input_buf') = Len(input_buf) - InW[event],
         Post("main")' = Post("main"), Post("zb")' = Post("zb")
  PROVE  InputCounted' /\ InW[event] <= Len(input_buf)
<1>1. PICK c : Sums(Pending, InW, c) /\ c[1] + Post("main") + Post("zb") = Len(input_buf)
  BY DEF InputCounted
<1>2. Pending \in Seq(Events) /\ Len(Pending) > 0
  <2>1. Pending \in Seq(Events)
    BY PendingIs DEF BusTyped
  <2>2. QED
    BY <2>1
<1>3. c[1] = InW[event] + c[2] /\ InW[event] \in Nat /\ c[2] \in Nat
  BY <1>1, <1>2, InWeight, SumsTail
<1>4. PICK d : Sums(Tail(Pending), InW, d) /\ d[1] = c[2]
  <2>1. 1 \in 1..Len(Pending)
    BY <1>2, LenProperties
  <2>2. \E d : Sums(Tail(Pending), InW, d) /\ \A i \in 1..Len(Pending) : d[i] = c[i + 1]
    BY <1>1, <1>2, InWeight, SumsTail
  <2>3. QED
    BY <2>1, <2>2
<1>5. Post("main") \in Nat /\ Post("zb") \in Nat
  BY PostIs, TaskNames
<1>6. InW[event] <= Len(input_buf)
  BY <1>1, <1>3, <1>5
<1>7. d[1] + Post("main")' + Post("zb")' = Len(input_buf')
  BY <1>1, <1>3, <1>4, <1>5, <1>6
<1>8. QED
  BY <1>4, <1>6, <1>7 DEF InputCounted

\* The main task has read what an event to the UART says.
LEMMA InputTaken ==
  ASSUME BusTyped, InputCounted, Running, ProcessInput
  PROVE  InputCounted' /\ event.size <= Len(input_buf)
<1>0. BusTyped /\ QueuesTyped /\ TasksTyped /\ input_buf \in Seq(Unit) /\ Len(input_buf) \in Nat
  BY DEF BusTyped, BufsTyped
<1>1. /\ UNCHANGED <<queue, frame>> /\ pc["main"] = "process" /\ event.event = "INPUT"
      /\ input_buf' = Drop(input_buf, event.size) /\ Goto("main", "wait")
  BY DEF ProcessInput, Loop, At
<1>2. pc'["main"] = "wait" /\ pc'["zb"] = pc["zb"]
  BY <1>0, <1>1, Goes DEF Steps
<1>3. /\ Pending \in Seq(Events) /\ Pending # <<>> /\ Pending[1] = event
      /\ Pending' = Tail(Pending)
  BY <1>1, <1>2, PendingDone DEF Running
<1>4. event \in Events /\ InW[event] = event.size /\ event.size \in Nat
  BY <1>0, <1>1, InWeight DEF QueuesTyped
<1>5. event.size <= Len(input_buf) => Len(input_buf') = Len(input_buf) - event.size
  BY <1>0, <1>1, <1>4, TakeAndDrop
<1>6. Post("main")' = Post("main") /\ Post("zb")' = Post("zb")
  BY <1>1, <1>2 DEF Post
<1>7. QED
  BY <1>3, <1>4, <1>5, <1>6, CountTaken DEF Running

LEMMA CountStep ==
  ASSUME BusTyped, InputCounted, Running, refused' = {}, [Next]_vars
  PROVE  InputCounted'
<1>0. QueuesTyped /\ TasksTyped /\ queue # NoQueue
  BY DEF BusTyped, Running
<1>1. ASSUME UNCHANGED <<input_buf, queue, event>>,
             pc'["main"] = "process" <=> pc["main"] = "process",
             \A t \in Producers : Post(t)' = Post(t)
      PROVE  InputCounted'
  BY <1>1, PendingRests, CountRests, TaskNames
<1>2. CASE BusFlush \/ UNCHANGED vars
  BY <1>1, <1>2 DEF BusFlush, vars, Post
<1>3. ASSUME NEW k \in Kinds, NEW s \in RequestSizes, HostSends(k, s)
      PROVE  InputCounted'
  BY <1>1, <1>3 DEF HostSends, Post
<1>4. CASE BusRead
  <2> DEFINE e == [event |-> "OUTPUT", size |-> Head(rx).size]
  <2>1. e \in Events /\ queue' = Append(queue, e)
    BY <1>4, BusAccepted
  <2>2. /\ UNCHANGED <<frame, event, input_buf>>
        /\ \E p \in {"wait", "done"} : Goto("bus", p)
    BY <1>4 DEF BusRead
  <2>3. pc'["main"] = pc["main"] /\ pc'["zb"] = pc["zb"]
    BY <1>0, <2>2, Goes DEF Steps
  <2>4. InW[e] = 0
    BY <2>1, InWeight
  <2> HIDE DEF e
  <2>5. Post("main")' = Post("main") /\ Post("zb")' = Post("zb")
    BY <2>2, <2>3 DEF Post
  <2>6. Pending' = Append(Pending, e)
    BY <1>0, <2>1, <2>2, <2>3, PendingPosted
  <2>7. Post("main") \in Nat /\ Post("zb") \in Nat
    BY PostIs, TaskNames
  <2>8. QED
    BY <1>0, <2>1, <2>2, <2>4, <2>5, <2>6, <2>7, CountPosted
\* Where a task that goes on leaves the other.
<1>5. ASSUME NEW t \in Producers, NEW p \in Steps, Goto(t, p)
      PROVE  pc'[t] = p /\ \A u \in Producers : u # t => pc'[u] = pc[u]
  BY <1>0, <1>5, Goes DEF Producers
<1>6. ASSUME NEW t \in Producers, CheckSpace(t) \/ RetrySpace(t)
      PROVE  InputCounted'
  <2>1. UNCHANGED <<input_buf, queue, event, frame>> /\ pc[t] \in {"check", "retry"}
    BY <1>6 DEF CheckSpace, RetrySpace, At
  <2>2. PICK p \in {"append", "retry"} : Goto(t, p)
    BY <1>6, Accepted DEF CheckSpace
  <2>3. pc'[t] = p /\ \A u \in Producers : u # t => pc'[u] = pc[u]
    BY <1>5, <2>2 DEF Steps
  <2>4. \A u \in Producers : Post(u)' = Post(u)
    BY <2>1, <2>3 DEF Post
  <2>5. pc'["main"] = "process" <=> pc["main"] = "process"
    BY <2>1, <2>3, TaskNames
  <2>6. QED
    BY <1>1, <2>1, <2>4, <2>5
<1>7. ASSUME NEW t \in Producers, AppendUnits(t)
      PROVE  InputCounted'
  <2> DEFINE f == frame[t]
  <2>1. /\ UNCHANGED <<queue, event, frame>> /\ pc[t] = "append" /\ Goto(t, "post")
        /\ input_buf' = input_buf \o Take(Units(f), Space(input_buf))
        /\ Space(input_buf) >= f.size
    BY <1>7, Accepted DEF AppendUnits, At
  <2>2. input_buf \in Seq(Unit) /\ Len(input_buf) <= BufSize /\ f \in AnyFrame
    BY DEF BusTyped, BufsTyped, TasksTyped
  <2>3. PICK m \in 0..f.size, w \in Seq(Unit) :
          /\ w = Take(Units(f), Space(input_buf)) /\ Len(w) = m /\ m = f.size
    BY <2>1, <2>2, Filled
  <2>4. Len(input_buf') = Len(input_buf) + f.size /\ Len(input_buf) \in Nat /\ f.size \in Nat
    <3>1. Len(input_buf \o w) = Len(input_buf) + Len(w)
      BY <2>2, ConcatProperties
    <3>2. QED
      BY <2>1, <2>2, <2>3, <3>1 DEF AnyFrame
  <2>5. pc'[t] = "post" /\ \A u \in Producers : u # t => pc'[u] = pc[u]
    BY <1>5, <2>1 DEF Steps
  <2>6. /\ Post(t)' = f.size /\ Post(t) = 0
        /\ \A u \in Producers : u # t => Post(u)' = Post(u)
    BY <2>1, <2>5 DEF Post
  <2>7. Pending' = Pending
    <3>1. pc'["main"] = "process" <=> pc["main"] = "process"
      BY <2>1, <2>5, TaskNames
    <3>2. QED
      BY <2>1, <3>1, PendingRests
  <2>8. PICK c : Sums(Pending, InW, c) /\ c[1] + Post("main") + Post("zb") = Len(input_buf)
    BY DEF InputCounted
  <2>9. c[1] \in Nat /\ Post("main") \in Nat /\ Post("zb") \in Nat
    BY <1>0, <2>8, PendingIs, SumsTotal, PostIs, TaskNames
  <2>10. c[1] + Post("main")' + Post("zb")' = Len(input_buf')
    <3>1. CASE t = "main"
      BY <2>4, <2>6, <2>8, <2>9, <3>1, TaskNames
    <3>2. CASE t = "zb"
      BY <2>4, <2>6, <2>8, <2>9, <3>2, TaskNames
    <3>3. QED
      BY <3>1, <3>2 DEF Producers
  <2>11. QED
    BY <2>7, <2>8, <2>10 DEF InputCounted
<1>8. ASSUME NEW t \in Producers, PostInput(t)
      PROVE  InputCounted'
  <2> DEFINE e == EventOf(frame[t])
  <2>1. /\ queue' = Append(queue, e) /\ e \in Events
        /\ \E p \in {"wait", "sent"} : Goto(t, p)
    BY <1>8, Accepted
  <2>2. UNCHANGED <<event, frame, input_buf>> /\ pc[t] = "post"
    BY <1>8 DEF PostInput, At
  <2>3. PICK p \in {"wait", "sent"} : pc'[t] = p /\ \A u \in Producers : u # t => pc'[u] = pc[u]
    BY <1>5, <2>1 DEF Steps
  <2>4. InW[e] = frame[t].size
    BY <2>1, InWeight DEF EventOf
  <2> HIDE DEF e
  <2>5. /\ Post(t) = frame[t].size /\ Post(t)' = 0
        /\ \A u \in Producers : u # t => Post(u)' = Post(u)
    BY <2>2, <2>3 DEF Post
  <2>6. Pending' = Append(Pending, e)
    <3>1. pc'["main"] = "process" <=> pc["main"] = "process"
      BY <2>2, <2>3, TaskNames
    <3>2. QED
      BY <1>0, <2>1, <2>2, <3>1, PendingPosted
  <2>7. Post("main") \in Nat /\ Post("zb") \in Nat
    BY PostIs, TaskNames
  <2>8. /\ InW[e] + Post("main")' + Post("zb")' = Post("main") + Post("zb")
        /\ Post("main")' \in Nat /\ Post("zb")' \in Nat
    <3>1. CASE t = "main"
      BY <2>4, <2>5, <2>7, <3>1, TaskNames
    <3>2. CASE t = "zb"
      BY <2>4, <2>5, <2>7, <3>2, TaskNames
    <3>3. QED
      BY <3>1, <3>2 DEF Producers
  <2>9. QED
    BY <1>0, <2>1, <2>2, <2>6, <2>8, CountPosted
<1>9. CASE TakeEvent
  <2>1. UNCHANGED <<frame, input_buf>> /\ pc["main"] = "wait" /\ Goto("main", "process")
    BY <1>9 DEF TakeEvent, At
  <2>2. pc'["main"] = "process" /\ pc'["zb"] = pc["zb"]
    BY <1>0, <2>1, Goes DEF Steps
  <2>3. Post("main")' = Post("main") /\ Post("zb")' = Post("zb")
    BY <2>1, <2>2 DEF Post
  <2>4. QED
    BY <1>9, <2>1, <2>3, PendingTaken, CountRests
<1>10. CASE MainReturns
  <2>1. /\ UNCHANGED <<event, input_buf>> /\ pc["main"] = "sent" /\ Loop(TRUE)
        /\ frame' = [frame EXCEPT !.main = NoFrame]
    BY <1>10 DEF MainReturns, Running, At
  <2>2. UNCHANGED queue /\ Goto("main", "wait")
    BY <2>1 DEF Loop
  <2>3. pc'["main"] = "wait" /\ pc'["zb"] = pc["zb"]
    BY <1>0, <2>2, Goes DEF Steps
  <2>4. frame'["zb"] = frame["zb"]
    BY <1>0, <2>1, TaskNames DEF TasksTyped
  <2>5. Post("main")' = Post("main") /\ Post("zb")' = Post("zb")
    BY <2>1, <2>3, <2>4 DEF Post
  <2>6. QED
    BY <1>1, <2>1, <2>2, <2>3, <2>5 DEF Producers
<1>11. ASSUME NEW s \in Sizes, ProcessOutput(s)
       PROVE  InputCounted'
  <2>1. /\ pc["main"] = "process" /\ event.event = "OUTPUT" /\ UNCHANGED <<queue, input_buf>>
        /\ \E p \in {"wait", "check", "poll"} : Goto("main", p)
    BY <1>11, Processed
  <2>2. frame'["zb"] = frame["zb"]
    <3>1. frame' = frame \/ \E f : frame' = [frame EXCEPT !.main = f]
      BY <1>11, Processed
    <3>2. QED
      BY <1>0, <3>1, TaskNames DEF TasksTyped
  <2>3. pc'["main"] \in {"wait", "check", "poll"} /\ pc'["zb"] = pc["zb"]
    BY <1>0, <2>1, Goes DEF Steps
  <2>4. Post("main")' = Post("main") /\ Post("zb")' = Post("zb")
    BY <2>1, <2>2, <2>3 DEF Post
  <2>5. Pending # <<>> /\ Pending[1] = event /\ Pending' = Tail(Pending)
    BY <1>0, <2>1, <2>3, PendingDone
  <2>6. InW[event] = 0 /\ Len(input_buf) \in Nat
    BY <1>0, <2>1, InWeight DEF QueuesTyped, BusTyped, BufsTyped
  <2>7. QED
    BY <1>0, <2>1, <2>4, <2>5, <2>6, CountTaken
<1>12. ASSUME NEW s \in Sizes, Poll(s)
       PROVE  InputCounted'
  <2>1. /\ UNCHANGED <<queue, event, input_buf>> /\ pc["main"] = "poll" /\ Goto("main", "check")
        /\ \E f : frame' = [frame EXCEPT !.main = f]
    BY <1>12 DEF Poll, At
  <2>2. pc'["main"] = "check" /\ pc'["zb"] = pc["zb"] /\ frame'["zb"] = frame["zb"]
    <3>1. frame'["zb"] = frame["zb"]
      BY <1>0, <2>1, TaskNames DEF TasksTyped
    <3>2. QED
      BY <1>0, <2>1, <3>1, Goes DEF Steps
  <2>3. \A t \in Producers : Post(t)' = Post(t)
    BY <2>1, <2>2 DEF Post, Producers
  <2>4. QED
    BY <1>1, <2>1, <2>2, <2>3
<1>13. ASSUME NEW s \in Sizes, Indicate(s) \/ Notify(s)
       PROVE  InputCounted'
  <2>1. /\ UNCHANGED <<queue, event, input_buf>> /\ pc["zb"] = "wait"
        /\ \/ UNCHANGED <<pc, frame>>
           \/ Goto("zb", "check") /\ \E f : frame' = [frame EXCEPT !.zb = f]
    BY <1>13, Indicated DEF Notify, At
  <2>2. CASE UNCHANGED <<pc, frame>>
    BY <1>1, <2>1, <2>2 DEF Post
  <2>3. CASE Goto("zb", "check") /\ \E f : frame' = [frame EXCEPT !.zb = f]
    <3>1. pc'["main"] = pc["main"] /\ pc'["zb"] = "check" /\ frame'["main"] = frame["main"]
      <4>1. frame'["main"] = frame["main"]
        BY <1>0, <2>3, TaskNames DEF TasksTyped
      <4>2. QED
        BY <1>0, <2>3, <4>1, Goes DEF Steps
    <3>2. \A t \in Producers : Post(t)' = Post(t)
      BY <2>1, <3>1 DEF Post, Producers
    <3>3. QED
      BY <1>1, <2>1, <3>1, <3>2
  <2>4. QED
    BY <2>1, <2>2, <2>3
<1>14. QED
  BY <1>2, <1>3, <1>4, <1>6, <1>7, <1>8, <1>9, <1>10, <1>11, <1>12, <1>13, InputTaken, BusSorted

\* A frame that fits is appended whole.
LEMMA AppendedWhole ==
  ASSUME BusTyped, refused' = {}, NEW t \in Producers, AppendUnits(t)
  PROVE  /\ pc[t] = "append" /\ Goto(t, "post") /\ frame[t] \in AnyFrame /\ frame[t].size > 0
         /\ UNCHANGED <<rx, output_buf, queue, state, aps, frame, event, tx, log>>
         /\ \E w \in Seq(Unit) : /\ Stream' = Stream \o w /\ Len(w) = frame[t].size
                                 /\ \A i \in 1..frame[t].size : w[i] = <<frame[t], i>>
<1>1. /\ pc[t] = "append" /\ Goto(t, "post") /\ Space(input_buf) >= frame[t].size
      /\ UNCHANGED <<rx, output_buf, queue, state, aps, frame, event, tx, log>>
  BY Accepted DEF AppendUnits, At
<1>2. frame[t] \in AnyFrame /\ frame[t].size > 0
  BY <1>1 DEF BusTyped, TasksTyped, TasksAgree, StepsAgree, Sending
<1>3. input_buf \in Seq(Unit) /\ Len(input_buf) <= BufSize
  BY DEF BusTyped, BufsTyped
<1>4. PICK m \in 0..frame[t].size, w \in Seq(Unit) :
        /\ w = Take(Units(frame[t]), Space(input_buf)) /\ Len(w) = m
        /\ \A i \in 1..m : w[i] = <<frame[t], i>>
        /\ m = frame[t].size
  <2> DEFINE b == input_buf
             f == frame[t]
  <2>1. b \in Seq(Unit) /\ Len(b) <= BufSize /\ f \in AnyFrame /\ Space(b) >= f.size
    BY <1>1, <1>2, <1>3
  <2> HIDE DEF b, f
  <2>2. PICK m \in 0..f.size, w \in Seq(Unit) :
          /\ w = Take(Units(f), Space(b)) /\ Len(w) = m /\ \A i \in 1..m : w[i] = <<f, i>>
          /\ (Space(b) >= f.size => m = f.size)
    BY ONLY <2>1, Filled
  <2>3. QED
    BY <2>1, <2>2 DEF b, f
<1>5. Stream' = Stream \o w
  BY <1>4, Appended
<1>6. QED
  BY <1>1, <1>2, <1>4, <1>5

LEMMA FramedStep ==
  ASSUME BusTyped, Running, InputCounted, Framed(Stream), refused' = {}, [Next]_vars
  PROVE  Framed(Stream')
<1>1. Stream \in Seq(Unit)
  BY StreamTyped DEF BusTyped
<1>2. CASE Stream' = Stream
  BY <1>2
<1>3. CASE ProcessInput /\ Len(input_buf) < event.size
  <2>1. event.size <= Len(input_buf) /\ Len(input_buf) \in Nat /\ event.size \in Nat
    BY <1>3, InputTaken DEF BusTyped, BufsTyped, QueuesTyped, Events
  <2>2. QED
    BY <1>3, <2>1
<1>4. ASSUME NEW t \in Producers, AppendUnits(t)
      PROVE  Framed(Stream')
  <2>1. PICK w \in Seq(Unit) :
          /\ Stream' = Stream \o w /\ Len(w) = frame[t].size
          /\ \A i \in 1..frame[t].size : w[i] = <<frame[t], i>>
    BY <1>4, AppendedWhole
  <2>2. frame[t] \in AnyFrame /\ frame[t].size > 0
    BY <1>4, AppendedWhole
  <2>3. Framed(Stream \o w)
    BY <1>1, <2>1, <2>2, FramedMore
  <2>4. QED
    BY <2>1, <2>3
<1>5. QED
  BY <1>2, <1>3, <1>4, StreamStep

\* The requests are numbered as the host sent them, and read in that order.
Numbered ==
  /\ \A i \in 1..Len(log.read) : log.read[i].n \in 1..log.sent
  /\ \A i \in 1..Len(rx) : rx[i].n \in 1..log.sent
  /\ \A i, j \in 1..Len(log.read) : i < j => log.read[i].n < log.read[j].n
  /\ \A i, j \in 1..Len(rx) : i < j => rx[i].n < rx[j].n
  /\ \A i \in 1..Len(log.read), j \in 1..Len(rx) : log.read[i].n < rx[j].n

LEMMA NumberedRests ==
  ASSUME Numbered, log'.sent = log.sent, log'.read = log.read, rx' = rx
  PROVE  Numbered'
BY DEF Numbered

LEMMA NumberedSent ==
  ASSUME BusTyped, Numbered, NEW k \in Kinds, NEW s \in RequestSizes, HostSends(k, s)
  PROVE  Numbered'
<1> DEFINE f == Frame(k, log.sent + 1, 0, s)
<1>1. log \in Log /\ log.sent \in Nat /\ rx \in Seq(Full)
  BY DEF BusTyped, BufsTyped, TasksTyped, Log
<1>2. f \in Full /\ f.n = log.sent + 1
  <2>1. s \in Nat /\ s > 0 /\ k \in AllKinds /\ log.sent + 1 \in Nat /\ 0 \in Nat
    BY <1>1, Constants
  <2>2. QED
    BY <2>1, FrameIs
<1>3. log' = [log EXCEPT !.sent = @ + 1] /\ rx' = Append(rx, f)
  BY DEF HostSends
<1> HIDE DEF f
<1>4. log'.sent = log.sent + 1 /\ log'.read = log.read
  BY <1>1, <1>2, <1>3, Logged DEF Full
<1>5. /\ Len(rx) \in Nat /\ Len(rx') = Len(rx) + 1 /\ rx'[Len(rx) + 1] = f
      /\ \A i \in 1..Len(rx) : rx'[i] = rx[i]
  BY <1>1, <1>2, <1>3, AppendProperties
<1>6. \A i \in 1..Len(rx') : i \in 1..Len(rx) \/ i = Len(rx) + 1
  BY <1>5
<1>7. \A i \in 1..Len(rx') : rx'[i].n \in 1..log'.sent
  BY <1>1, <1>2, <1>4, <1>5, <1>6 DEF Numbered
<1>8. \A i \in 1..Len(log.read) : log.read[i].n \in 1..log'.sent /\ log.read[i].n < log.sent + 1
  BY <1>1, <1>4 DEF Numbered
<1>9. ASSUME NEW i \in 1..Len(rx'), NEW j \in 1..Len(rx'), i < j
      PROVE  rx'[i].n < rx'[j].n
  <2>1. i \in 1..Len(rx) /\ rx'[i] = rx[i] /\ rx[i].n \in 1..log.sent
    BY <1>5, <1>6, <1>9 DEF Numbered
  <2>2. QED
    BY <1>1, <1>2, <1>5, <1>6, <1>9, <2>1 DEF Numbered
<1>10. ASSUME NEW i \in 1..Len(log.read), NEW j \in 1..Len(rx')
       PROVE  log.read[i].n < rx'[j].n
  BY <1>2, <1>5, <1>6, <1>8 DEF Numbered
<1>11. QED
  BY <1>4, <1>7, <1>8, <1>9, <1>10 DEF Numbered

LEMMA NumberedRead ==
  ASSUME BusTyped, Numbered, BusRead
  PROVE  Numbered'
<1> DEFINE f == Head(rx)
           n == Len(rx)
           l == Len(log.read)
<1>1. log \in Log /\ log.read \in Seq(Full) /\ rx \in Seq(Full) /\ rx # <<>>
  BY DEF BusTyped, BufsTyped, TasksTyped, Log, BusRead
<1>2. f = rx[1] /\ f \in Full /\ n \in Nat /\ n > 0
  BY <1>1
<1>3. log' = [log EXCEPT !.read = Append(@, f)] /\ rx' = Tail(rx)
  BY DEF BusRead, Move
<1>4. Len(rx') = n - 1 /\ \A i \in 1..(n - 1) : rx'[i] = rx[i + 1]
  BY <1>1, <1>3, HeadTailProperties
<1> HIDE DEF f
<1>5. log'.sent = log.sent /\ log'.read = Append(log.read, f)
  BY <1>1, <1>2, <1>3, Logged DEF Full
<1>6. /\ l \in Nat /\ Len(log'.read) = l + 1 /\ log'.read[l + 1] = f
      /\ \A i \in 1..l : log'.read[i] = log.read[i]
  BY <1>1, <1>2, <1>5, AppendProperties
<1>7. \A i \in 1..(l + 1) : i \in 1..l \/ i = l + 1
  BY <1>6
<1>8. \A i \in 1..(n - 1) : i + 1 \in 1..n
  BY <1>2
<1>9. 1 \in 1..n
  BY <1>2
<1> HIDE DEF n, l
<1>10. /\ \A i \in 1..l : log.read[i].n \in 1..log.sent /\ log.read[i].n < f.n
       /\ \A i, j \in 1..l : i < j => log.read[i].n < log.read[j].n
       /\ \A i \in 1..n : rx[i].n \in 1..log.sent
       /\ \A i, j \in 1..n : i < j => rx[i].n < rx[j].n
       /\ \A i \in 1..l, j \in 1..n : log.read[i].n < rx[j].n
  BY <1>2, <1>9 DEF Numbered, n, l
<1>11. \A i \in 1..(l + 1) : log'.read[i].n \in 1..log'.sent
  BY <1>2, <1>5, <1>6, <1>7, <1>9, <1>10
<1>12. \A i \in 1..(n - 1) : rx'[i].n \in 1..log'.sent
  BY <1>4, <1>5, <1>8, <1>10
<1>13. ASSUME NEW i \in 1..(l + 1), NEW j \in 1..(l + 1), i < j
       PROVE  log'.read[i].n < log'.read[j].n
  <2>1. i \in 1..l
    BY <1>6, <1>7, <1>13
  <2>2. QED
    BY <1>6, <1>7, <1>10, <1>13, <2>1
<1>14. ASSUME NEW i \in 1..(n - 1), NEW j \in 1..(n - 1), i < j
       PROVE  rx'[i].n < rx'[j].n
  BY <1>4, <1>8, <1>10, <1>14
<1>15. ASSUME NEW i \in 1..(l + 1), NEW j \in 1..(n - 1)
       PROVE  log'.read[i].n < rx'[j].n
  <2>1. rx'[j] = rx[j + 1] /\ j + 1 \in 1..n /\ 1 < j + 1
    BY <1>4, <1>8
  <2>2. CASE i \in 1..l
    BY <1>6, <1>10, <2>1, <2>2
  <2>3. CASE i = l + 1
    BY <1>2, <1>6, <1>9, <1>10, <2>1, <2>3
  <2>4. QED
    BY <1>7, <2>2, <2>3
<1>16. QED
  BY <1>4, <1>6, <1>11, <1>12, <1>13, <1>14, <1>15 DEF Numbered

LEMMA NumberedStep ==
  ASSUME BusTyped, Numbered, [Next]_vars
  PROVE  Numbered'
<1>0. log \in Log
  BY DEF BusTyped, TasksTyped
<1>1. CASE TakeEvent \/ ProcessInput \/ MainReturns \/ UNCHANGED vars
  BY <1>1, NumberedRests DEF TakeEvent, ProcessInput, MainReturns, vars
<1>2. CASE BusRead
  BY <1>2, NumberedRead
<1>3. CASE BusFlush
  <2>1. log' = log /\ rx' = <<>> /\ Len(rx') = 0
    BY <1>3 DEF BusFlush
  <2>2. QED
    BY <2>1 DEF Numbered
<1>4. ASSUME NEW t \in Producers, CheckSpace(t) \/ RetrySpace(t) \/ AppendUnits(t) \/ PostInput(t)
      PROVE  Numbered'
  BY <1>4, NumberedRests DEF CheckSpace, RetrySpace, AppendUnits, PostInput
<1>5. ASSUME NEW s \in Sizes, ProcessOutput(s)
      PROVE  Numbered'
  <2>1. rx' = rx /\ (log' = log \/ \E r \in AnyFrame : log' = [log EXCEPT !.handled = Append(@, r)])
    BY <1>5, Processed
  <2>2. log'.sent = log.sent /\ log'.read = log.read
    BY <1>0, <2>1 DEF Log
  <2>3. QED
    BY <2>1, <2>2, NumberedRests
<1>6. ASSUME NEW s \in Sizes, Poll(s)
      PROVE  Numbered'
  BY <1>6, NumberedRests DEF Poll
<1>7. ASSUME NEW s \in Sizes, Indicate(s) \/ Notify(s)
      PROVE  Numbered'
  <2>1. rx' = rx /\ log' = [log EXCEPT !.inds = @ + 1]
    BY <1>7, Indicated DEF Notify
  <2>2. log'.sent = log.sent /\ log'.read = log.read
    BY <1>0, <2>1 DEF Log
  <2>3. QED
    BY <2>1, <2>2, NumberedRests
<1>8. ASSUME NEW k \in Kinds, NEW s \in RequestSizes, HostSends(k, s)
      PROVE  Numbered'
  BY <1>8, NumberedSent
<1>9. QED
  BY <1>1, <1>2, <1>3, <1>4, <1>5, <1>6, <1>7, <1>8, BusSorted

\* What an event for a request says is the request read that is next but so
\* many, and its units lie in the buffer where they are counted to.
OutW == [e \in Events |-> IF e.event = "OUTPUT" THEN e.size ELSE 0]
OutN == [e \in Events |-> IF e.event = "OUTPUT" THEN 1 ELSE 0]
Described(q, b, read, c, d) ==
  /\ Sums(q, OutW, c) /\ Sums(q, OutN, d) /\ c[1] = Len(b) /\ d[1] <= Len(read)
  /\ \A i \in 1..Len(q) : q[i].event = "OUTPUT" =>
       LET r == read[Len(read) - d[i] + 1]
       IN  q[i].size = r.size /\ \A k \in 1..r.size : b[Len(b) - c[i] + k] = <<r, k>>

LEMMA OutWeights ==
  /\ OutW \in [Events -> Nat] /\ OutN \in [Events -> Nat]
  /\ \A e \in Events : /\ OutW[e] = IF e.event = "OUTPUT" THEN e.size ELSE 0
                       /\ OutN[e] = IF e.event = "OUTPUT" THEN 1 ELSE 0
                       /\ e.size \in Nat
BY DEF OutW, OutN, Events

\* Such a request and such units are there.
LEMMA DescribedPlaces ==
  ASSUME NEW q \in Seq(Events), NEW b \in Seq(Unit), NEW read \in Seq(Full), NEW c, NEW d,
         Described(q, b, read, c, d), NEW i \in 1..Len(q), q[i].event = "OUTPUT"
  PROVE  /\ c[i] \in Nat /\ d[i] \in Nat /\ c[i + 1] \in Nat /\ c[i] = q[i].size + c[i + 1]
         /\ c[i] <= Len(b) /\ q[i].size \in Nat /\ Len(b) \in Nat /\ Len(read) \in Nat
         /\ Len(read) - d[i] + 1 \in 1..Len(read)
         /\ \A k \in 1..q[i].size : Len(b) - c[i] + k \in 1..(Len(b) - c[i + 1])
<1>1. Len(q) \in Nat /\ Len(b) \in Nat /\ Len(read) \in Nat
  OBVIOUS
<1>2. /\ i \in 1..(Len(q) + 1) /\ i + 1 \in 1..(Len(q) + 1) /\ 1 \in 1..(Len(q) + 1) /\ 1 <= i
  BY <1>1
<1>3. q[i] \in Events
  BY ElementOfSeq
<1>4. OutW[q[i]] = q[i].size /\ OutN[q[i]] = 1 /\ q[i].size \in Nat
  BY <1>3, OutWeights
<1>5. /\ c[i] \in Nat /\ c[i + 1] \in Nat /\ c[1] \in Nat /\ c[i] = OutW[q[i]] + c[i + 1]
      /\ c[i] <= c[1] /\ c[1] = Len(b)
  BY <1>2 DEF Described, Sums
<1>6. /\ d[i] \in Nat /\ d[i + 1] \in Nat /\ d[1] \in Nat /\ d[i] = OutN[q[i]] + d[i + 1]
      /\ d[i] <= d[1] /\ d[1] <= Len(read)
  BY <1>2 DEF Described, Sums
<1>7. c[i] = q[i].size + c[i + 1] /\ c[i] <= Len(b)
  BY <1>4, <1>5
<1>8. d[i] = 1 + d[i + 1] /\ d[i] <= Len(read)
  BY <1>1, <1>4, <1>6
<1>9. Len(read) - d[i] + 1 \in 1..Len(read)
  BY ONLY <1>1, <1>6, <1>8
<1>10. ASSUME NEW k \in 1..q[i].size
       PROVE  Len(b) - c[i] + k \in 1..(Len(b) - c[i + 1])
  BY ONLY <1>1, <1>4, <1>5, <1>7, k \in 1..q[i].size, SMTT(30)
<1>11. QED
  BY <1>1, <1>4, <1>5, <1>6, <1>7, <1>9, <1>10

\* Another event, and no unit, is added.
LEMMA DescribedMore ==
  ASSUME NEW q \in Seq(Events), NEW b \in Seq(Unit), NEW read \in Seq(Full), NEW c, NEW d,
         Described(q, b, read, c, d), NEW e \in Events, e.event # "OUTPUT"
  PROVE  \E c2, d2 : Described(Append(q, e), b, read, c2, d2) /\ d2[1] = d[1]
<1> DEFINE l == Len(q)
<1>1. /\ l \in Nat /\ Len(Append(q, e)) = l + 1 /\ Append(q, e)[l + 1] = e
      /\ \A i \in 1..l : Append(q, e)[i] = q[i]
  BY AppendProperties
<1>2. OutW[e] = 0 /\ OutN[e] = 0
  BY OutWeights
<1>3. /\ Sums(q, OutW, c) /\ Sums(q, OutN, d) /\ c[1] = Len(b) /\ d[1] <= Len(read)
      /\ \A i \in 1..(l + 1) : c[i] \in Nat /\ d[i] \in Nat
  BY DEF Described, Sums
<1>4. PICK c2 : Sums(Append(q, e), OutW, c2) /\ \A i \in 1..(l + 1) : c2[i] = c[i] + OutW[e]
  <2>1. OutW \in [Events -> Nat] /\ Sums(q, OutW, c)
    BY <1>3, OutWeights
  <2>2. QED
    BY <2>1, SumsAppend
<1>5. PICK d2 : Sums(Append(q, e), OutN, d2) /\ \A i \in 1..(l + 1) : d2[i] = d[i] + OutN[e]
  <2>1. OutN \in [Events -> Nat] /\ Sums(q, OutN, d)
    BY <1>3, OutWeights
  <2>2. QED
    BY <2>1, SumsAppend
<1>6. \A i \in 1..(l + 1) : c2[i] = c[i] /\ d2[i] = d[i]
  BY <1>2, <1>3, <1>4, <1>5
<1>7. 1 \in 1..(l + 1) /\ \A i \in 1..l : i \in 1..(l + 1)
  BY <1>1
<1>8. \A i \in 1..(l + 1) : i \in 1..l \/ i = l + 1
  BY <1>1
<1> HIDE DEF l
<1>9. ASSUME NEW i \in 1..(l + 1), Append(q, e)[i].event = "OUTPUT"
      PROVE  LET r == read[Len(read) - d2[i] + 1]
             IN  /\ Append(q, e)[i].size = r.size
                 /\ \A k \in 1..r.size : b[Len(b) - c2[i] + k] = <<r, k>>
  <2>1. i \in 1..l /\ Append(q, e)[i] = q[i]
    BY <1>1, <1>8, <1>9
  <2>2. c2[i] = c[i] /\ d2[i] = d[i]
    BY <1>6
  <2>3. QED
    BY <1>9, <2>1, <2>2 DEF Described, l
<1>10. Described(Append(q, e), b, read, c2, d2)
  BY <1>1, <1>3, <1>4, <1>5, <1>6, <1>7, <1>9 DEF Described
<1>11. QED
  BY <1>6, <1>7, <1>10

\* A request is read, and its event posted.
LEMMA DescribedRead ==
  ASSUME NEW q \in Seq(Events), NEW b \in Seq(Unit), NEW read \in Seq(Full), NEW c, NEW d,
         Described(q, b, read, c, d), NEW r \in Full, NEW w \in Seq(Unit), Len(w) = r.size,
         \A k \in 1..r.size : w[k] = <<r, k>>,
         NEW e \in Events, e = [event |-> "OUTPUT", size |-> r.size]
  PROVE  \E c2, d2 : /\ Described(Append(q, e), b \o w, Append(read, r), c2, d2)
                     /\ d2[1] = d[1] + 1
<1> DEFINE l == Len(q)
           n == Len(b)
           m == Len(read)
           q2 == Append(q, e)
           b2 == b \o w
           read2 == Append(read, r)
<1>1. /\ l \in Nat /\ Len(q2) = l + 1 /\ q2[l + 1] = e /\ \A i \in 1..l : q2[i] = q[i]
  BY AppendProperties
<1>2. /\ m \in Nat /\ Len(read2) = m + 1 /\ read2[m + 1] = r
      /\ \A i \in 1..m : read2[i] = read[i]
  BY AppendProperties
<1>3. /\ n \in Nat /\ Len(b2) = n + r.size /\ r.size \in Nat
      /\ \A i \in 1..n : b2[i] = b[i]
      /\ \A k \in 1..r.size : b2[n + k] = <<r, k>>
  <2>1. r.size \in Nat
    BY FullIs
  <2>2. /\ Len(b \o w) = Len(b) + Len(w)
        /\ \A i \in 1..Len(b) : (b \o w)[i] = b[i]
        /\ \A i \in 1..Len(w) : (b \o w)[Len(b) + i] = w[i]
    BY ONLY b \in Seq(Unit), w \in Seq(Unit), Concatenation
  <2>3. QED
    BY <2>1, <2>2
<1>4. OutW[e] = r.size /\ OutN[e] = 1 /\ e.event = "OUTPUT" /\ e.size = r.size
  BY OutWeights
<1>5. /\ Sums(q, OutW, c) /\ Sums(q, OutN, d) /\ c[1] = n /\ d[1] <= m
      /\ c[l + 1] = 0 /\ d[l + 1] = 0
      /\ \A i \in 1..(l + 1) : c[i] \in Nat /\ d[i] \in Nat
  BY DEF Described, Sums
<1>6. PICK c2 : Sums(q2, OutW, c2) /\ \A i \in 1..(l + 1) : c2[i] = c[i] + OutW[e]
  <2>1. OutW \in [Events -> Nat] /\ Sums(q, OutW, c) /\ q \in Seq(Events) /\ e \in Events
    BY <1>5, OutWeights
  <2>2. \E x : Sums(Append(q, e), OutW, x) /\ \A i \in 1..(Len(q) + 1) : x[i] = c[i] + OutW[e]
    BY ONLY <2>1, SumsAppend
  <2>3. QED
    BY <2>2
<1>7. PICK d2 : Sums(q2, OutN, d2) /\ \A i \in 1..(l + 1) : d2[i] = d[i] + OutN[e]
  <2>1. OutN \in [Events -> Nat] /\ Sums(q, OutN, d) /\ q \in Seq(Events) /\ e \in Events
    BY <1>5, OutWeights
  <2>2. \E x : Sums(Append(q, e), OutN, x) /\ \A i \in 1..(Len(q) + 1) : x[i] = d[i] + OutN[e]
    BY ONLY <2>1, SumsAppend
  <2>3. QED
    BY <2>2
<1>8. \A i \in 1..(l + 1) : c2[i] = c[i] + r.size /\ d2[i] = d[i] + 1
  BY <1>4, <1>6, <1>7
<1>9. /\ 1 \in 1..(l + 1) /\ l + 1 \in 1..(l + 1) /\ \A i \in 1..l : i \in 1..(l + 1)
      /\ \A i \in 1..(l + 1) : i \in 1..l \/ i = l + 1
  BY <1>1
<1> DEFINE Is(i) == LET f == read2[Len(read2) - d2[i] + 1]
                    IN  /\ q2[i].size = f.size
                        /\ \A k \in 1..f.size : b2[Len(b2) - c2[i] + k] = <<f, k>>
<1>10. ASSUME NEW i \in 1..l, q[i].event = "OUTPUT"
       PROVE  Is(i)
  <2> DEFINE f == read[m - d[i] + 1]
  <2>1. /\ c[i] \in Nat /\ d[i] \in Nat /\ c[i + 1] \in Nat /\ m - d[i] + 1 \in 1..m
        /\ \A k \in 1..q[i].size : n - c[i] + k \in 1..(n - c[i + 1])
    BY <1>10, DescribedPlaces
  <2>2. /\ q[i].size = f.size
        /\ \A k \in 1..f.size : b[n - c[i] + k] = <<f, k>>
    BY <1>10 DEF Described
  <2> HIDE DEF n, m, q2, b2, read2
  <2>3. Len(read2) - d2[i] + 1 = m - d[i] + 1 /\ read2[m - d[i] + 1] = read[m - d[i] + 1]
    <3>1. d2[i] = d[i] + 1
      BY <1>8, <1>9
    <3>2. Len(read2) - d2[i] + 1 = m - d[i] + 1
      BY ONLY <1>2, <2>1, <3>1
    <3>3. QED
      BY <1>2, <2>1, <3>2
  <2>4. ASSUME NEW k \in 1..f.size
        PROVE  b2[Len(b2) - c2[i] + k] = <<f, k>>
    <3>1. n - c[i] + k \in 1..(n - c[i + 1]) /\ k \in Int
      BY <2>1, <2>2
    <3>2. c2[i] = c[i] + r.size
      BY <1>8, <1>9
    <3>3. Len(b2) - c2[i] + k = n - c[i] + k
      BY ONLY <1>3, <2>1, <3>1, <3>2
    <3>4. n - c[i] + k \in 1..n
      BY ONLY <1>3, <2>1, <3>1, SMTT(30)
    <3>5. QED
      BY <1>3, <2>2, <3>3, <3>4
  <2>5. q2[i] = q[i]
    BY <1>1
  <2>6. QED
    BY <2>2, <2>3, <2>4, <2>5
<1>11. Is(l + 1)
  <2>1. c2[l + 1] = r.size /\ d2[l + 1] = 1
    BY <1>3, <1>5, <1>8, <1>9
  <2>2. Len(read2) - d2[l + 1] + 1 = m + 1 /\ Len(b2) - c2[l + 1] = n
    BY <1>2, <1>3, <2>1
  <2> HIDE DEF n, m, q2, b2, read2
  <2>3. QED
    BY <1>1, <1>2, <1>3, <1>4, <2>2
<1>12. ASSUME NEW i \in 1..(l + 1), q2[i].event = "OUTPUT"
       PROVE  Is(i)
  BY <1>1, <1>9, <1>10, <1>11, <1>12
<1>13. c2[1] = Len(b2) /\ d2[1] <= Len(read2) /\ d2[1] = d[1] + 1
  BY <1>2, <1>3, <1>5, <1>8, <1>9
<1> HIDE DEF q2, b2, read2
<1>14. Described(q2, b2, read2, c2, d2)
  BY <1>1, <1>6, <1>7, <1>12, <1>13 DEF Described
<1>15. QED
  BY <1>13, <1>14 DEF q2, b2, read2

\* The first event is dealt with, and the units it says are gone.
LEMMA DescribedTail ==
  ASSUME NEW q \in Seq(Events), q # <<>>, NEW b \in Seq(Unit), NEW read \in Seq(Full),
         NEW c, NEW d, Described(q, b, read, c, d), NEW b2 \in Seq(Unit),
         Len(b2) = Len(b) - OutW[q[1]], \A i \in 1..Len(b2) : b2[i] = b[OutW[q[1]] + i]
  PROVE  \E c2, d2 : Described(Tail(q), b2, read, c2, d2) /\ d[1] = OutN[q[1]] + d2[1]
<1> DEFINE l == Len(q)
           n == OutW[q[1]]
           t == Tail(q)
<1>1. /\ l \in Nat /\ l > 0 /\ Len(t) = l - 1 /\ t \in Seq(Events)
      /\ \A i \in 1..(l - 1) : t[i] = q[i + 1]
  BY HeadTailProperties
<1>2. /\ Sums(q, OutW, c) /\ Sums(q, OutN, d) /\ c[1] = Len(b) /\ d[1] <= Len(read)
      /\ \A i \in 1..(l + 1) : c[i] \in Nat /\ d[i] \in Nat
      /\ \A i, j \in 1..(l + 1) : i <= j => c[j] <= c[i]
  BY DEF Described, Sums
<1>3. /\ c[1] = n + c[2] /\ n \in Nat /\ c[2] \in Nat
      /\ \E x : Sums(t, OutW, x) /\ \A i \in 1..l : x[i] = c[i + 1]
  <2>1. OutW \in [Events -> Nat] /\ Sums(q, OutW, c) /\ q \in Seq(Events) /\ q # <<>>
    BY <1>2, OutWeights
  <2>2. QED
    BY ONLY <2>1, SumsTail
<1>4. /\ d[1] = OutN[q[1]] + d[2] /\ OutN[q[1]] \in Nat /\ d[2] \in Nat
      /\ \E x : Sums(t, OutN, x) /\ \A i \in 1..l : x[i] = d[i + 1]
  <2>1. OutN \in [Events -> Nat] /\ Sums(q, OutN, d) /\ q \in Seq(Events) /\ q # <<>>
    BY <1>2, OutWeights
  <2>2. QED
    BY ONLY <2>1, SumsTail
<1>5. PICK c2 : Sums(t, OutW, c2) /\ \A i \in 1..l : c2[i] = c[i + 1]
  BY <1>3
<1>6. PICK d2 : Sums(t, OutN, d2) /\ \A i \in 1..l : d2[i] = d[i + 1]
  BY <1>4
<1>7. Len(b) \in Nat /\ Len(b2) \in Nat /\ Len(b2) = Len(b) - n /\ Len(read) \in Nat
  OBVIOUS
<1>8. \A i \in 1..Len(b2) : b2[i] = b[n + i]
  OBVIOUS
<1>9. /\ 1 \in 1..l /\ 2 \in 1..(l + 1)
      /\ \A i \in 1..(l - 1) : i + 1 \in 1..l /\ i + 1 \in 1..(l + 1) /\ i \in 1..l /\ 2 <= i + 1
  BY <1>1
<1> HIDE DEF n
<1>10. c2[1] = Len(b2) /\ d2[1] <= Len(read) /\ d[1] = OutN[q[1]] + d2[1]
  <2>1. c2[1] = c[2] /\ d2[1] = d[2]
    BY <1>5, <1>6, <1>9
  <2>2. QED
    BY <1>2, <1>3, <1>4, <1>7, <2>1, SMTT(30)
<1>11. ASSUME NEW i \in 1..(l - 1), t[i].event = "OUTPUT"
       PROVE  LET r == read[Len(read) - d2[i] + 1]
              IN  /\ t[i].size = r.size
                  /\ \A k \in 1..r.size : b2[Len(b2) - c2[i] + k] = <<r, k>>
  <2> DEFINE h == i + 1
             r == read[Len(read) - d[h] + 1]
  <2>1. /\ h \in 1..l /\ h \in 1..(l + 1) /\ t[i] = q[h] /\ c2[i] = c[h] /\ d2[i] = d[h]
        /\ q[h].event = "OUTPUT" /\ c[h] <= c[2]
    BY <1>1, <1>2, <1>5, <1>6, <1>9, <1>11
  <2> HIDE DEF h
  <2>2. /\ c[h] \in Nat /\ c[h + 1] \in Nat
        /\ \A k \in 1..q[h].size : Len(b) - c[h] + k \in 1..(Len(b) - c[h + 1])
    BY <2>1, DescribedPlaces
  <2>3. /\ q[h].size = r.size /\ \A k \in 1..r.size : b[Len(b) - c[h] + k] = <<r, k>>
    BY <2>1 DEF Described
  <2>4. ASSUME NEW k \in 1..r.size
        PROVE  b2[Len(b2) - c[h] + k] = <<r, k>>
    <3>1. Len(b) - c[h] + k \in 1..(Len(b) - c[h + 1]) /\ k \in Int /\ k >= 1
      BY <2>2, <2>3
    <3>2. n + (Len(b2) - c[h] + k) = Len(b) - c[h] + k
      BY ONLY <1>3, <1>7, <2>2, <3>1, SMTT(30)
    <3>3. Len(b2) - c[h] + k \in 1..Len(b2)
      <4>1. Len(b2) = c[2] /\ c[h] <= c[2]
        BY <1>2, <1>3, <1>7, <2>1, SMTT(30)
      <4>2. Len(b) - c[h] + k <= Len(b) - c[h + 1] /\ c[h] >= k
        <5>1. c[h] = q[h].size + c[h + 1] /\ q[h].size \in Nat
          BY <2>1, DescribedPlaces
        <5>2. k \in 1..q[h].size
          BY <2>3
        <5>3. QED
          BY ONLY <1>7, <2>2, <5>1, <5>2, SMTT(30)
      <4>3. QED
        BY ONLY <1>7, <2>2, <3>1, <4>1, <4>2, SMTT(30)
    <3>4. QED
      BY <1>8, <2>3, <3>2, <3>3
  <2>5. QED
    BY <2>1, <2>3, <2>4
<1>12. Described(t, b2, read, c2, d2)
  BY <1>1, <1>5, <1>6, <1>10, <1>11 DEF Described
<1>13. QED
  BY <1>10, <1>12

\* The request it is about is the next, and the units are the whole of it.
LEMMA DescribedRequest ==
  ASSUME NEW q \in Seq(Events), q # <<>>, NEW b \in Seq(Unit), NEW read \in Seq(Full),
         NEW c, NEW d, Described(q, b, read, c, d), q[1].event = "OUTPUT"
  PROVE  /\ q[1].size \in Nat /\ q[1].size <= Len(b)
         /\ d[1] \in Nat /\ Len(read) - d[1] + 1 \in 1..Len(read)
         /\ Request(Take(b, q[1].size)) = read[Len(read) - d[1] + 1]
<1> DEFINE r == read[Len(read) - d[1] + 1]
           m == q[1].size
           u == Take(b, m)
<1>1. 1 \in 1..Len(q)
  OBVIOUS
<1>2. /\ c[1] \in Nat /\ d[1] \in Nat /\ c[1] <= Len(b) /\ m \in Nat /\ Len(b) \in Nat
      /\ Len(read) - d[1] + 1 \in 1..Len(read) /\ c[1] = m + c[1 + 1] /\ c[1 + 1] \in Nat
  BY <1>1, DescribedPlaces
<1>3. /\ c[1] = Len(b) /\ m = r.size
      /\ \A k \in 1..r.size : b[Len(b) - c[1] + k] = <<r, k>>
  BY <1>1 DEF Described
<1>4. r \in Full /\ r \in AnyFrame /\ r.size > 0 /\ m <= Len(b)
  BY <1>2, <1>3, FullIs, ElementOfSeq
<1> HIDE DEF r, m
<1>5. \A k \in 1..m : b[k] = <<r, k>>
  <2>1. ASSUME NEW k \in 1..m
        PROVE  Len(b) - c[1] + k = k
    <3>1. k \in Int /\ c[1] = Len(b) /\ Len(b) \in Nat
      BY <1>2, <1>3
    <3>2. QED
      BY ONLY <3>1
  <2>2. QED
    BY <1>3, <2>1
<1>6. /\ u \in Seq(Unit) /\ Len(u) = m /\ \A k \in 1..m : u[k] = b[k]
  <2>1. b \in Seq(Unit) /\ m \in Nat /\ m <= Len(b)
    BY <1>2, <1>4
  <2>2. QED
    BY ONLY <2>1, TakeAndDrop
<1>7. /\ Units(r) \in Seq(Unit) /\ Len(Units(r)) = m /\ \A k \in 1..m : Units(r)[k] = <<r, k>>
  BY <1>3, <1>4, UnitsOf
<1>8. u = Units(r)
  <2> HIDE DEF u
  <2>1. \A k \in 1..Len(u) : u[k] = Units(r)[k]
    BY <1>5, <1>6, <1>7
  <2>2. QED
    BY <1>6, <1>7, <2>1, SeqEqual
<1>9. u[1] = <<r, 1>> /\ u # <<>>
  <2>1. 1 \in 1..m
    BY <1>2, <1>3, <1>4
  <2> HIDE DEF u
  <2>2. QED
    BY <1>2, <1>5, <1>6, <2>1, SMTT(30)
<1> HIDE DEF u
<1>10. u[1][1] = r
  BY <1>9
<1>11. Request(u) = r
  BY <1>8, <1>9, <1>10 DEF Request, IsFrame
<1>12. QED
  BY <1>2, <1>4, <1>11 DEF r, m, u

\* The units in the buffer are the requests that were read and not handled.
OutputCounted ==
  \E c, d : /\ Described(Pending, output_buf, log.read, c, d)
            /\ d[1] + Len(log.handled) = Len(log.read)
            /\ \A i \in 1..Len(log.handled) : log.handled[i] = log.read[i]

LEMMA OutputTyped ==
  ASSUME BusTyped, Running
  PROVE  /\ Pending \in Seq(Events) /\ output_buf \in Seq(Unit) /\ Len(output_buf) \in Nat
         /\ log \in Log /\ log.read \in Seq(Full) /\ log.handled \in Seq(AnyFrame)
         /\ Len(log.read) \in Nat /\ Len(log.handled) \in Nat
BY PendingIs DEF BusTyped, BufsTyped, TasksTyped, Running, Log

LEMMA OutputRests ==
  ASSUME OutputCounted, Pending' = Pending, output_buf' = output_buf,
         log'.read = log.read, log'.handled = log.handled
  PROVE  OutputCounted'
BY DEF OutputCounted

\* An event to the UART is posted.
LEMMA OutputPosted ==
  ASSUME BusTyped, Running, OutputCounted, NEW e \in Events, e.event # "OUTPUT",
         Pending' = Append(Pending, e), output_buf' = output_buf, log' = log
  PROVE  OutputCounted'
<1>1. PICK c, d : /\ Described(Pending, output_buf, log.read, c, d)
                  /\ d[1] + Len(log.handled) = Len(log.read)
                  /\ \A i \in 1..Len(log.handled) : log.handled[i] = log.read[i]
  BY DEF OutputCounted
<1>2. PICK c2, d2 : Described(Append(Pending, e), output_buf, log.read, c2, d2) /\ d2[1] = d[1]
  BY <1>1, OutputTyped, DescribedMore
<1>3. QED
  BY <1>1, <1>2 DEF OutputCounted

\* A request is read.
LEMMA OutputRead ==
  ASSUME BusTyped, Running, OutputCounted, refused' = {}, BusRead
  PROVE  OutputCounted'
<1> DEFINE r == Head(rx)
           e == [event |-> "OUTPUT", size |-> r.size]
<1>0. TasksTyped /\ queue # NoQueue
  BY DEF BusTyped, Running
<1>1. /\ r \in Full /\ e \in Events /\ queue' = Append(queue, e)
      /\ Space(output_buf) >= r.size
  BY BusAccepted
<1>2. /\ log' = [log EXCEPT !.read = Append(@, r)] /\ event' = event
      /\ output_buf' = output_buf \o Take(Units(r), Space(output_buf))
      /\ \E p \in {"wait", "done"} : Goto("bus", p)
  BY DEF BusRead, Move
<1> HIDE DEF r
<1>3. r \in AnyFrame /\ r.size \in Nat
  BY <1>1, FullIs
<1>4. PICK m \in 0..r.size, w \in Seq(Unit) :
        /\ w = Take(Units(r), Space(output_buf)) /\ Len(w) = m
        /\ \A i \in 1..m : w[i] = <<r, i>>
        /\ m = r.size
  <2>1. output_buf \in Seq(Unit) /\ Len(output_buf) <= BufSize
    BY DEF BusTyped, BufsTyped
  <2>2. QED
    BY <1>1, <1>3, <2>1, Filled
<1>5. Pending' = Append(Pending, e)
  <2>1. pc'["main"] = pc["main"]
    BY <1>0, <1>2, Goes DEF Steps
  <2>2. QED
    BY <1>0, <1>1, <1>2, <2>1, PendingPosted
<1>6. log'.read = Append(log.read, r) /\ log'.handled = log.handled
  BY <1>1, <1>2, <1>3, OutputTyped, Logged
<1>7. PICK c, d : /\ Described(Pending, output_buf, log.read, c, d)
                  /\ d[1] + Len(log.handled) = Len(log.read)
                  /\ \A i \in 1..Len(log.handled) : log.handled[i] = log.read[i]
  BY DEF OutputCounted
<1>8. PICK c2, d2 : /\ Described(Append(Pending, e), output_buf \o w, Append(log.read, r), c2, d2)
                    /\ d2[1] = d[1] + 1
  <2>1. /\ Pending \in Seq(Events) /\ output_buf \in Seq(Unit) /\ log.read \in Seq(Full)
        /\ Described(Pending, output_buf, log.read, c, d) /\ r \in Full
        /\ w \in Seq(Unit) /\ Len(w) = r.size /\ \A k \in 1..r.size : w[k] = <<r, k>>
        /\ e \in Events /\ e = [event |-> "OUTPUT", size |-> r.size]
    BY <1>1, <1>4, <1>7, OutputTyped
  <2> HIDE DEF e
  <2>2. QED
    BY ONLY <2>1, DescribedRead, SMTT(30)
<1>9. /\ Len(log'.read) = Len(log.read) + 1
      /\ \A i \in 1..Len(log.read) : log'.read[i] = log.read[i]
  BY <1>1, <1>6, OutputTyped, AppendProperties
<1>10. d[1] \in Nat
  <2>1. Sums(Pending, OutN, d)
    BY <1>7 DEF Described
  <2>2. QED
    BY <2>1, OutputTyped, SumsTotal
<1>11. d2[1] + Len(log'.handled) = Len(log'.read)
  <2>1. /\ Len(log'.handled) = Len(log.handled) /\ d[1] + Len(log.handled) = Len(log.read)
        /\ d2[1] = d[1] + 1 /\ Len(log.handled) \in Nat /\ Len(log.read) \in Nat
        /\ Len(log'.read) = Len(log.read) + 1
    BY <1>6, <1>7, <1>8, <1>9, OutputTyped
  <2>2. QED
    BY ONLY <1>10, <2>1, SMTT(30)
<1>12. \A i \in 1..Len(log'.handled) : log'.handled[i] = log'.read[i]
  <2>1. \A i \in 1..Len(log.handled) : i \in 1..Len(log.read)
    BY <1>7, <1>10, OutputTyped
  <2>2. QED
    BY <1>6, <1>7, <1>9, <2>1
<1>13. Described(Pending', output_buf', log'.read, c2, d2)
  BY <1>2, <1>4, <1>5, <1>6, <1>8
<1>14. QED
  BY <1>11, <1>12, <1>13 DEF OutputCounted

\* Another event than one for a request has been dealt with.
LEMMA OutputPassed ==
  ASSUME BusTyped, Running, OutputCounted, Pending # <<>>, Pending[1].event = "INPUT",
         Pending' = Tail(Pending), output_buf' = output_buf, log' = log
  PROVE  OutputCounted'
<1>1. PICK c, d : /\ Described(Pending, output_buf, log.read, c, d)
                  /\ d[1] + Len(log.handled) = Len(log.read)
                  /\ \A i \in 1..Len(log.handled) : log.handled[i] = log.read[i]
  BY DEF OutputCounted
<1>2. Pending[1] \in Events
  BY OutputTyped, ElementOfSeq
<1>3. OutW[Pending[1]] = 0 /\ OutN[Pending[1]] = 0
  BY <1>2, OutWeights
<1>4. /\ Len(output_buf) = Len(output_buf) - OutW[Pending[1]]
      /\ \A i \in 1..Len(output_buf) : output_buf[i] = output_buf[OutW[Pending[1]] + i]
  BY <1>3, OutputTyped
<1>5. PICK c2, d2 : /\ Described(Tail(Pending), output_buf, log.read, c2, d2)
                    /\ d[1] = OutN[Pending[1]] + d2[1]
  BY <1>1, <1>4, OutputTyped, DescribedTail, SMTT(30)
<1>6. d2[1] = d[1]
  <2>1. Sums(Tail(Pending), OutN, d2) /\ Tail(Pending) \in Seq(Events)
    BY <1>5, OutputTyped, HeadTailProperties DEF Described
  <2>2. d2[1] \in Nat
    BY <2>1, SumsTotal
  <2>3. QED
    BY <1>3, <1>5, <2>2
<1>7. QED
  BY <1>1, <1>5, <1>6 DEF OutputCounted

\* What the main task takes for a request is the next that was read.
LEMMA RequestNext ==
  ASSUME BusTyped, Running, OutputCounted, Pending # <<>>, Pending[1] = event,
         event.event = "OUTPUT"
  PROVE  /\ event.size \in Nat /\ event.size <= Len(output_buf)
         /\ Len(log.handled) + 1 \in 1..Len(log.read)
         /\ Request(Take(output_buf, event.size)) = log.read[Len(log.handled) + 1]
         /\ \A i \in 1..Len(log.handled) : log.handled[i] = log.read[i]
<1>1. PICK c, d : /\ Described(Pending, output_buf, log.read, c, d)
                  /\ d[1] + Len(log.handled) = Len(log.read)
                  /\ \A i \in 1..Len(log.handled) : log.handled[i] = log.read[i]
  BY DEF OutputCounted
<1>2. /\ event.size \in Nat /\ event.size <= Len(output_buf)
      /\ d[1] \in Nat /\ Len(log.read) - d[1] + 1 \in 1..Len(log.read)
      /\ Request(Take(output_buf, event.size)) = log.read[Len(log.read) - d[1] + 1]
  BY <1>1, OutputTyped, DescribedRequest
<1>3. Len(log.read) - d[1] + 1 = Len(log.handled) + 1
  BY <1>1, <1>2, OutputTyped
<1>4. QED
  BY <1>1, <1>2, <1>3

\* It is handled.
LEMMA OutputTaken ==
  ASSUME BusTyped, Running, OutputCounted, Pending # <<>>, Pending[1] = event,
         event.event = "OUTPUT", Pending' = Tail(Pending),
         output_buf' = Drop(output_buf, event.size),
         log'.handled = Append(log.handled, Request(Take(output_buf, event.size))),
         log'.read = log.read
  PROVE  OutputCounted'
<1> DEFINE r == Request(Take(output_buf, event.size))
           h == Len(log.handled)
<1>1. PICK c, d : /\ Described(Pending, output_buf, log.read, c, d)
                  /\ d[1] + Len(log.handled) = Len(log.read)
                  /\ \A i \in 1..Len(log.handled) : log.handled[i] = log.read[i]
  BY DEF OutputCounted
<1>2. /\ event.size \in Nat /\ event.size <= Len(output_buf)
      /\ h + 1 \in 1..Len(log.read) /\ r = log.read[h + 1] /\ h \in Nat
  BY RequestNext, OutputTyped
<1> HIDE DEF r
<1>3. r \in AnyFrame
  BY <1>2, OutputTyped, ElementOfSeq, FullIs
<1>4. /\ Len(log'.handled) = h + 1 /\ log'.handled[h + 1] = r
      /\ \A i \in 1..h : log'.handled[i] = log.handled[i]
  <2>1. log'.handled = Append(log.handled, r)
    BY DEF r
  <2>2. QED
    BY <1>3, <2>1, OutputTyped, AppendProperties
<1>5. \A i \in 1..Len(log'.handled) : log'.handled[i] = log'.read[i]
  <2>1. \A i \in 1..(h + 1) : i \in 1..h \/ i = h + 1
    BY <1>2
  <2>2. QED
    BY <1>1, <1>2, <1>4, <2>1
<1>6. event \in Events /\ OutW[event] = event.size /\ OutN[event] = 1
  BY OutWeights DEF BusTyped, QueuesTyped
<1>7. /\ Drop(output_buf, event.size) \in Seq(Unit)
      /\ Len(Drop(output_buf, event.size)) = Len(output_buf) - event.size
      /\ \A i \in 1..(Len(output_buf) - event.size) :
           Drop(output_buf, event.size)[i] = output_buf[event.size + i]
  <2>1. output_buf \in Seq(Unit) /\ event.size \in Nat /\ event.size <= Len(output_buf)
    BY <1>2, OutputTyped
  <2>2. QED
    BY ONLY <2>1, TakeAndDrop
<1>8. PICK c2, d2 : /\ Described(Tail(Pending), Drop(output_buf, event.size), log.read, c2, d2)
                    /\ d[1] = OutN[Pending[1]] + d2[1]
  <2> DEFINE b2 == Drop(output_buf, event.size)
  <2>1. b2 \in Seq(Unit) /\ Len(b2) = Len(output_buf) - OutW[Pending[1]]
        /\ \A i \in 1..Len(b2) : b2[i] = output_buf[OutW[Pending[1]] + i]
    BY <1>6, <1>7
  <2> HIDE DEF b2
  <2>2. \E c2, d2 : /\ Described(Tail(Pending), b2, log.read, c2, d2)
                    /\ d[1] = OutN[Pending[1]] + d2[1]
    <3>1. /\ Pending \in Seq(Events) /\ Pending # <<>> /\ output_buf \in Seq(Unit)
          /\ log.read \in Seq(Full) /\ Described(Pending, output_buf, log.read, c, d)
      BY <1>1, OutputTyped
    <3> DEFINE p == Pending
               o == output_buf
               l == log.read
    <3>2. /\ p \in Seq(Events) /\ p # <<>> /\ o \in Seq(Unit) /\ l \in Seq(Full)
          /\ Described(p, o, l, c, d) /\ b2 \in Seq(Unit) /\ Len(b2) = Len(o) - OutW[p[1]]
          /\ \A i \in 1..Len(b2) : b2[i] = o[OutW[p[1]] + i]
      BY <2>1, <3>1
    <3> HIDE DEF p, o, l
    <3>3. \E c2, d2 : Described(Tail(p), b2, l, c2, d2) /\ d[1] = OutN[p[1]] + d2[1]
      BY ONLY <3>2, DescribedTail, SMTT(30)
    <3>4. QED
      BY <3>3 DEF p, l
  <2>3. QED
    BY <2>2 DEF b2
<1>9. d2[1] + Len(log'.handled) = Len(log'.read)
  <2>1. Sums(Tail(Pending), OutN, d2) /\ Tail(Pending) \in Seq(Events)
    BY <1>8, OutputTyped, HeadTailProperties DEF Described
  <2>2. d2[1] \in Nat
    BY <2>1, SumsTotal
  <2>3. /\ d[1] + h = Len(log.read) /\ d[1] = 1 + d2[1] /\ Len(log'.handled) = h + 1
        /\ Len(log'.read) = Len(log.read) /\ h \in Nat /\ Len(log.read) \in Nat
    BY <1>1, <1>2, <1>4, <1>6, <1>8, OutputTyped
  <2>4. QED
    BY ONLY <2>2, <2>3
<1>10. Described(Pending', output_buf', log'.read, c2, d2)
  BY <1>8
<1>11. QED
  BY <1>5, <1>9, <1>10 DEF OutputCounted

LEMMA OutputStep ==
  ASSUME BusTyped, Running, OutputCounted, refused' = {}, [Next]_vars
  PROVE  OutputCounted'
<1>0. QueuesTyped /\ TasksTyped /\ queue # NoQueue /\ log \in Log
  BY DEF BusTyped, Running, TasksTyped
<1>1. ASSUME UNCHANGED <<output_buf, queue, event>>,
             pc'["main"] = "process" <=> pc["main"] = "process",
             log'.read = log.read, log'.handled = log.handled
      PROVE  OutputCounted'
  BY <1>1, PendingRests, OutputRests
<1>2. CASE BusFlush \/ UNCHANGED vars
  BY <1>1, <1>2 DEF BusFlush, vars
<1>3. ASSUME NEW k \in Kinds, NEW s \in RequestSizes, HostSends(k, s)
      PROVE  OutputCounted'
  <2>1. UNCHANGED <<output_buf, queue, event, pc>> /\ log' = [log EXCEPT !.sent = @ + 1]
    BY <1>3 DEF HostSends
  <2>2. log'.read = log.read /\ log'.handled = log.handled
    BY <1>0, <2>1 DEF Log
  <2>3. QED
    BY <1>1, <2>1, <2>2
<1>4. CASE BusRead
  BY <1>4, OutputRead
<1>5. ASSUME NEW t \in Producers, CheckSpace(t) \/ RetrySpace(t) \/ AppendUnits(t)
      PROVE  OutputCounted'
  <2>1. UNCHANGED <<output_buf, queue, event, log>> /\ pc[t] \in {"check", "retry", "append"}
    BY <1>5 DEF CheckSpace, RetrySpace, AppendUnits, At
  <2>2. PICK p \in {"append", "retry", "post"} : Goto(t, p)
    BY <1>5, Accepted DEF CheckSpace
  <2>3. pc'["main"] = "process" <=> pc["main"] = "process"
    <3>1. CASE t = "main"
      BY <1>0, <2>1, <2>2, <3>1, Goes DEF Steps
    <3>2. CASE t = "zb"
      BY <1>0, <2>2, <3>2, Goes DEF Steps
    <3>3. QED
      BY <3>1, <3>2 DEF Producers
  <2>4. QED
    BY <1>1, <2>1, <2>3
<1>6. ASSUME NEW t \in Producers, PostInput(t)
      PROVE  OutputCounted'
  <2> DEFINE e == EventOf(frame[t])
  <2>1. /\ queue' = Append(queue, e) /\ e \in Events
        /\ \E p \in {"wait", "sent"} : Goto(t, p)
    BY <1>6, Accepted
  <2>2. UNCHANGED <<event, output_buf, log>> /\ pc[t] = "post" /\ e.event # "OUTPUT"
    BY <1>6 DEF PostInput, At, EventOf
  <2> HIDE DEF e
  <2>3. pc'["main"] = "process" <=> pc["main"] = "process"
    <3>1. CASE t = "main"
      BY <1>0, <2>1, <2>2, <3>1, Goes DEF Steps
    <3>2. CASE t = "zb"
      BY <1>0, <2>1, <3>2, Goes DEF Steps
    <3>3. QED
      BY <3>1, <3>2 DEF Producers
  <2>4. Pending' = Append(Pending, e)
    BY <1>0, <2>1, <2>2, <2>3, PendingPosted
  <2>5. QED
    BY <2>1, <2>2, <2>4, OutputPosted
<1>7. CASE TakeEvent
  <2>1. UNCHANGED <<output_buf, log>>
    BY <1>7 DEF TakeEvent
  <2>2. QED
    BY <1>7, <2>1, PendingTaken, OutputRests
<1>8. CASE ProcessInput
  <2>1. /\ UNCHANGED <<queue, output_buf, log>> /\ pc["main"] = "process"
        /\ event.event = "INPUT" /\ Goto("main", "wait")
    BY <1>8 DEF ProcessInput, Loop, At
  <2>2. pc'["main"] = "wait"
    BY <1>0, <2>1, Goes DEF Steps
  <2>3. Pending # <<>> /\ Pending[1] = event /\ Pending' = Tail(Pending)
    BY <1>0, <2>1, <2>2, PendingDone
  <2>4. QED
    BY <2>1, <2>3, OutputPassed
<1>9. CASE MainReturns
  <2>1. UNCHANGED <<event, output_buf, log>> /\ pc["main"] = "sent" /\ Loop(TRUE)
    BY <1>9 DEF MainReturns, Running, At
  <2>2. UNCHANGED queue /\ Goto("main", "wait")
    BY <2>1 DEF Loop
  <2>3. pc'["main"] = "wait"
    BY <1>0, <2>2, Goes DEF Steps
  <2>4. QED
    BY <1>1, <2>1, <2>2, <2>3
<1>10. ASSUME NEW s \in Sizes, ProcessOutput(s)
       PROVE  OutputCounted'
  <2>1. /\ pc["main"] = "process" /\ event.event = "OUTPUT" /\ UNCHANGED queue
        /\ output_buf' = Drop(output_buf, event.size)
        /\ \E p \in {"wait", "check", "poll"} : Goto("main", p)
    BY <1>10, Processed
  <2>2. pc'["main"] \in {"wait", "check", "poll"}
    BY <1>0, <2>1, Goes DEF Steps
  <2>3. Pending # <<>> /\ Pending[1] = event /\ Pending' = Tail(Pending)
    BY <1>0, <2>1, <2>2, PendingDone
  <2>4. event.size \in Nat /\ event.size <= Len(output_buf) /\ Len(output_buf) \in Nat
    BY <2>1, <2>3, RequestNext, OutputTyped
  <2>5. PICK r \in AnyFrame : /\ r = Request(Take(output_buf, event.size))
                              /\ log' = [log EXCEPT !.handled = Append(@, r)]
    BY <1>10, <2>4, Processed
  <2>6. log'.handled = Append(log.handled, r) /\ log'.read = log.read
    BY <1>0, <2>5 DEF Log
  <2>7. QED
    BY <2>1, <2>3, <2>5, <2>6, OutputTaken
<1>11. ASSUME NEW s \in Sizes, Poll(s)
       PROVE  OutputCounted'
  <2>1. UNCHANGED <<queue, event, output_buf, log>> /\ pc["main"] = "poll" /\ Goto("main", "check")
    BY <1>11 DEF Poll, At
  <2>2. pc'["main"] = "check"
    BY <1>0, <2>1, Goes DEF Steps
  <2>3. QED
    BY <1>1, <2>1, <2>2
<1>12. ASSUME NEW s \in Sizes, Indicate(s) \/ Notify(s)
       PROVE  OutputCounted'
  <2>1. /\ UNCHANGED <<queue, event, output_buf>> /\ (UNCHANGED pc \/ Goto("zb", "check"))
        /\ log' = [log EXCEPT !.inds = @ + 1]
    BY <1>12, Indicated DEF Notify
  <2>2. pc'["main"] = pc["main"]
    BY <1>0, <2>1, Goes DEF Steps
  <2>3. log'.read = log.read /\ log'.handled = log.handled
    BY <1>0, <2>1 DEF Log
  <2>4. QED
    BY <1>1, <2>1, <2>2, <2>3
<1>13. QED
  BY <1>2, <1>3, <1>4, <1>5, <1>6, <1>7, <1>8, <1>9, <1>10, <1>11, <1>12, BusSorted

-----------------------------------------------------------------------------
(* The transport: answers.                                                 *)

\* The answers in a run of units are those to the first n requests, in order.
AnswerAt(s, k) == s[k][2] = 1 /\ s[k][1].re # 0
Wanted(h, i)   == h[i].kind # "unknown"
AnswersIn(s, h, n) ==
  /\ \A k \in 1..Len(s) :
       AnswerAt(s, k) => \E i \in 1..n : Wanted(h, i) /\ s[k][1].re = h[i].n
  /\ \A j, k \in 1..Len(s) :
       j < k /\ AnswerAt(s, j) /\ AnswerAt(s, k) => s[j][1].re < s[k][1].re
  /\ \A i \in 1..n :
       Wanted(h, i) => \E k \in 1..Len(s) : AnswerAt(s, k) /\ s[k][1].re = h[i].n

\* What is appended to a run of units.
LEMMA Extended ==
  ASSUME NEW s \in Seq(Unit), NEW f \in AnyFrame, NEW w \in Seq(Unit),
         Len(w) = f.size, f.size > 0, \A i \in 1..f.size : w[i] = <<f, i>>
  PROVE  /\ Len(s) \in Nat /\ f.size \in Nat /\ Len(s \o w) = Len(s) + f.size
         /\ \A k \in 1..Len(s) : k \in 1..Len(s \o w) /\ (s \o w)[k] = s[k]
         /\ Len(s) + 1 \in 1..Len(s \o w) /\ (s \o w)[Len(s) + 1] = <<f, 1>>
         /\ \A k \in 1..Len(s \o w) :
              (s \o w)[k][2] = 1 => k \in 1..Len(s) \/ k = Len(s) + 1
<1>1. Len(s) \in Nat /\ f.size \in Nat
  BY DEF AnyFrame
<1>2. /\ Len(s \o w) = Len(s) + Len(w)
      /\ \A i \in 1..Len(s) : (s \o w)[i] = s[i]
      /\ \A i \in 1..Len(w) : (s \o w)[Len(s) + i] = w[i]
  BY ONLY s \in Seq(Unit), w \in Seq(Unit), Concatenation
<1> DEFINE l == Len(s)
           m == f.size
           r == s \o w
<1>3. /\ Len(r) = l + m /\ l \in Nat /\ m \in Nat /\ m > 0
      /\ \A i \in 1..l : r[i] = s[i]
      /\ \A i \in 1..m : r[l + i] = <<f, i>>
  BY <1>1, <1>2
<1> HIDE DEF l, m, r
<1>4. 1 \in 1..m /\ l + 1 \in 1..(l + m) /\ \A k \in 1..l : k \in 1..(l + m)
  BY <1>3
<1>5. r[l + 1] = <<f, 1>>
  BY <1>3, <1>4
<1>6. ASSUME NEW k \in 1..(l + m), r[k][2] = 1
      PROVE  k \in 1..l \/ k = l + 1
  <2>1. ASSUME NEW i \in 1..m, k = l + i
        PROVE  k = l + 1
    <3>1. r[k] = <<f, i>>
      BY <1>3, <2>1
    <3>2. i = 1
      BY <1>6, <3>1
    <3>3. QED
      BY <2>1, <3>2
  <2>2. QED
    BY <1>3, <2>1, Parts
<1>7. QED
  BY <1>3, <1>4, <1>5, <1>6 DEF l, m, r

\* A frame that is no answer adds none.
LEMMA AnswersMore ==
  ASSUME NEW s \in Seq(Unit), NEW f \in AnyFrame, NEW w \in Seq(Unit),
         Len(w) = f.size, f.size > 0, \A i \in 1..f.size : w[i] = <<f, i>>, f.re = 0,
         NEW h, NEW n \in Nat, AnswersIn(s, h, n)
  PROVE  AnswersIn(s \o w, h, n)
<1> DEFINE l == Len(s)
           r == s \o w
<1>1. /\ l \in Nat /\ \A k \in 1..l : k \in 1..Len(r) /\ r[k] = s[k]
      /\ l + 1 \in 1..Len(r) /\ r[l + 1] = <<f, 1>>
      /\ \A k \in 1..Len(r) : r[k][2] = 1 => k \in 1..l \/ k = l + 1
  BY Extended
<1>2. /\ \A k \in 1..l :
           AnswerAt(s, k) => \E i \in 1..n : Wanted(h, i) /\ s[k][1].re = h[i].n
      /\ \A j, k \in 1..l :
           j < k /\ AnswerAt(s, j) /\ AnswerAt(s, k) => s[j][1].re < s[k][1].re
      /\ \A i \in 1..n :
           Wanted(h, i) => \E k \in 1..l : AnswerAt(s, k) /\ s[k][1].re = h[i].n
  BY DEF AnswersIn
<1> HIDE DEF l, r
<1>3. \A k \in 1..Len(r) : AnswerAt(r, k) => k \in 1..l
  BY <1>1 DEF AnswerAt
<1>4. \A k \in 1..l : AnswerAt(r, k) <=> AnswerAt(s, k)
  BY <1>1 DEF AnswerAt
<1>5. ASSUME NEW k \in 1..Len(r), AnswerAt(r, k)
      PROVE  \E i \in 1..n : Wanted(h, i) /\ r[k][1].re = h[i].n
  <2>1. k \in 1..l /\ r[k] = s[k] /\ AnswerAt(s, k)
    BY <1>1, <1>3, <1>4, <1>5
  <2>2. QED
    BY <1>2, <2>1
<1>6. ASSUME NEW j \in 1..Len(r), NEW k \in 1..Len(r), j < k, AnswerAt(r, j), AnswerAt(r, k)
      PROVE  r[j][1].re < r[k][1].re
  <2>1. /\ j \in 1..l /\ r[j] = s[j] /\ AnswerAt(s, j)
        /\ k \in 1..l /\ r[k] = s[k] /\ AnswerAt(s, k)
    BY <1>1, <1>3, <1>4, <1>6
  <2>2. QED
    BY <1>2, <1>6, <2>1
<1>7. ASSUME NEW i \in 1..n, Wanted(h, i)
      PROVE  \E k \in 1..Len(r) : AnswerAt(r, k) /\ r[k][1].re = h[i].n
  <2>1. PICK k \in 1..l : AnswerAt(s, k) /\ s[k][1].re = h[i].n
    BY <1>2, <1>7
  <2>2. k \in 1..Len(r) /\ r[k] = s[k] /\ AnswerAt(r, k)
    BY <1>1, <1>4, <2>1
  <2>3. QED
    BY <2>1, <2>2
<1>8. AnswersIn(r, h, n)
  BY <1>5, <1>6, <1>7 DEF AnswersIn
<1>9. QED
  BY <1>8 DEF r

\* One that answers the next request does so after all the others.
LEMMA AnswersNext ==
  ASSUME NEW s \in Seq(Unit), NEW f \in AnyFrame, NEW w \in Seq(Unit),
         Len(w) = f.size, f.size > 0, \A i \in 1..f.size : w[i] = <<f, i>>,
         NEW h, NEW n \in Nat, AnswersIn(s, h, n), f.re = h[n + 1].n, Wanted(h, n + 1),
         \A i \in 1..(n + 1) : h[i].n \in Nat /\ h[i].n > 0,
         \A i, j \in 1..(n + 1) : i < j => h[i].n < h[j].n
  PROVE  AnswersIn(s \o w, h, n + 1)
<1> DEFINE l == Len(s)
           r == s \o w
<1>1. /\ l \in Nat /\ \A k \in 1..l : k \in 1..Len(r) /\ r[k] = s[k]
      /\ l + 1 \in 1..Len(r) /\ r[l + 1] = <<f, 1>>
      /\ \A k \in 1..Len(r) : r[k][2] = 1 => k \in 1..l \/ k = l + 1
  BY Extended
<1>2. /\ \A k \in 1..l :
           AnswerAt(s, k) => \E i \in 1..n : Wanted(h, i) /\ s[k][1].re = h[i].n
      /\ \A j, k \in 1..l :
           j < k /\ AnswerAt(s, j) /\ AnswerAt(s, k) => s[j][1].re < s[k][1].re
      /\ \A i \in 1..n :
           Wanted(h, i) => \E k \in 1..l : AnswerAt(s, k) /\ s[k][1].re = h[i].n
  BY DEF AnswersIn
<1> HIDE DEF l, r
<1>3. \A k \in 1..Len(r) : AnswerAt(r, k) => k \in 1..l \/ k = l + 1
  BY <1>1 DEF AnswerAt
<1>4. \A k \in 1..l : AnswerAt(r, k) <=> AnswerAt(s, k)
  BY <1>1 DEF AnswerAt
<1>5. /\ n + 1 \in 1..(n + 1) /\ \A i \in 1..n : i \in 1..(n + 1) /\ i < n + 1
      /\ \A i \in 1..(n + 1) : i \in 1..n \/ i = n + 1
  OBVIOUS
<1>6. r[l + 1][1] = f /\ r[l + 1][2] = 1 /\ f.re = h[n + 1].n /\ AnswerAt(r, l + 1)
  <2>1. h[n + 1].n # 0
    BY <1>5
  <2>2. QED
    BY <1>1, <2>1 DEF AnswerAt
<1>7. ASSUME NEW k \in 1..Len(r), AnswerAt(r, k)
      PROVE  \E i \in 1..(n + 1) : Wanted(h, i) /\ r[k][1].re = h[i].n
  <2>1. CASE k \in 1..l
    <3>1. r[k] = s[k] /\ AnswerAt(s, k)
      BY <1>1, <1>4, <1>7, <2>1
    <3>2. PICK i \in 1..n : Wanted(h, i) /\ s[k][1].re = h[i].n
      BY <1>2, <2>1, <3>1
    <3>3. QED
      BY <1>5, <3>1, <3>2
  <2>2. CASE k = l + 1
    BY <1>5, <1>6, <2>2
  <2>3. QED
    BY <1>3, <1>7, <2>1, <2>2
<1>8. ASSUME NEW j \in 1..Len(r), NEW k \in 1..Len(r), j < k, AnswerAt(r, j), AnswerAt(r, k)
      PROVE  r[j][1].re < r[k][1].re
  <2>1. j \in 1..l
    <3>1. (k \in 1..l \/ k = l + 1) /\ (j \in 1..l \/ j = l + 1)
      BY <1>3, <1>8
    <3>2. k <= l + 1 /\ j # l + 1
      BY <1>1, <1>8, <3>1
    <3>3. QED
      BY <3>1, <3>2
  <2>2. CASE k \in 1..l
    <3>1. AnswerAt(s, j) /\ AnswerAt(s, k) /\ r[j] = s[j] /\ r[k] = s[k]
      BY <1>1, <1>4, <1>8, <2>1, <2>2
    <3>2. s[j][1].re < s[k][1].re
      BY <1>2, <1>8, <2>1, <2>2, <3>1
    <3>3. QED
      BY <3>1, <3>2
  <2>3. CASE k = l + 1
    <3>1. PICK i \in 1..n : s[j][1].re = h[i].n
      BY <1>2, <1>4, <1>8, <2>1
    <3>2. h[i].n < h[n + 1].n
      BY <1>5
    <3>3. QED
      BY <1>1, <1>6, <2>1, <2>3, <3>1, <3>2
  <2>4. QED
    BY <1>3, <1>8, <2>2, <2>3
<1>9. ASSUME NEW i \in 1..(n + 1), Wanted(h, i)
      PROVE  \E k \in 1..Len(r) : AnswerAt(r, k) /\ r[k][1].re = h[i].n
  <2>1. CASE i \in 1..n
    <3>1. PICK k \in 1..l : AnswerAt(s, k) /\ s[k][1].re = h[i].n
      BY <1>2, <1>9, <2>1
    <3>2. k \in 1..Len(r) /\ r[k] = s[k] /\ AnswerAt(r, k)
      BY <1>1, <1>4, <3>1
    <3>3. QED
      BY <3>1, <3>2
  <2>2. CASE i = n + 1
    BY <1>1, <1>6, <2>2
  <2>3. QED
    BY <1>5, <2>1, <2>2
<1>10. AnswersIn(r, h, n + 1)
  BY <1>7, <1>8, <1>9 DEF AnswersIn
<1>11. QED
  BY <1>10 DEF r

\* Other requests make no difference to them, nor does one of an unknown id.
LEMMA AnswersSkip ==
  ASSUME NEW s, NEW h, NEW h2, NEW n \in Nat, AnswersIn(s, h, n),
         \A i \in 1..n : h2[i] = h[i]
  PROVE  /\ AnswersIn(s, h2, n)
         /\ ~Wanted(h2, n + 1) => AnswersIn(s, h2, n + 1)
<1>1. \A i \in 1..n : (Wanted(h2, i) <=> Wanted(h, i)) /\ h2[i].n = h[i].n
  BY DEF Wanted
<1>2. /\ \A i \in 1..n : i \in 1..(n + 1)
      /\ \A i \in 1..(n + 1) : i \in 1..n \/ i = n + 1
  OBVIOUS
<1>3. /\ \A k \in 1..Len(s) :
           AnswerAt(s, k) => \E i \in 1..n : Wanted(h, i) /\ s[k][1].re = h[i].n
      /\ \A j, k \in 1..Len(s) :
           j < k /\ AnswerAt(s, j) /\ AnswerAt(s, k) => s[j][1].re < s[k][1].re
      /\ \A i \in 1..n :
           Wanted(h, i) => \E k \in 1..Len(s) : AnswerAt(s, k) /\ s[k][1].re = h[i].n
  BY DEF AnswersIn
<1>4. \A k \in 1..Len(s) :
        AnswerAt(s, k) => \E i \in 1..n : Wanted(h2, i) /\ s[k][1].re = h2[i].n
  BY <1>1, <1>3
<1>5. \A i \in 1..n :
        Wanted(h2, i) => \E k \in 1..Len(s) : AnswerAt(s, k) /\ s[k][1].re = h2[i].n
  BY <1>1, <1>3
<1>6. AnswersIn(s, h2, n)
  BY <1>3, <1>4, <1>5 DEF AnswersIn
<1>7. ASSUME ~Wanted(h2, n + 1)
      PROVE  AnswersIn(s, h2, n + 1)
  BY <1>2, <1>3, <1>4, <1>5, <1>7 DEF AnswersIn
<1>8. QED
  BY <1>6, <1>7

\* The main task has a request whose answer it has not yet appended.
Busy    == pc["main"] \in Unsent \cup {"poll"}
Settled == IF Busy THEN Len(log.handled) - 1 ELSE Len(log.handled)

\* The answers in the stream are those to the requests that are settled; the
\* frame the main task is to append answers the one that is not.
Answers ==
  /\ AnswersIn(Stream, log.handled, Settled)
  /\ Busy => Len(log.handled) > 0 /\ Wanted(log.handled, Len(log.handled))
  /\ pc["main"] \in Unsent => frame["main"].re = Current
  /\ pc["zb"] \in Unsent => frame["zb"].re = 0

LEMMA HandledNumbered ==
  ASSUME BusTyped, Running, OutputCounted, Numbered
  PROVE  /\ Len(log.handled) \in Nat /\ Len(log.handled) <= Len(log.read)
         /\ \A i \in 1..Len(log.handled) :
              log.handled[i] = log.read[i] /\ log.handled[i].n \in Nat /\ log.handled[i].n > 0
         /\ \A i, j \in 1..Len(log.handled) : i < j => log.handled[i].n < log.handled[j].n
<1>1. PICK c, d : /\ Described(Pending, output_buf, log.read, c, d)
                  /\ d[1] + Len(log.handled) = Len(log.read)
                  /\ \A i \in 1..Len(log.handled) : log.handled[i] = log.read[i]
  BY DEF OutputCounted
<1>2. d[1] \in Nat
  <2>1. Sums(Pending, OutN, d)
    BY <1>1 DEF Described
  <2>2. QED
    BY <2>1, OutputTyped, SumsTotal
<1>3. Len(log.handled) <= Len(log.read) /\ Len(log.handled) \in Nat /\ Len(log.read) \in Nat
  BY <1>1, <1>2, OutputTyped
<1>4. \A i \in 1..Len(log.handled) : i \in 1..Len(log.read)
  BY <1>3
<1>5. log.sent \in Nat
  BY OutputTyped DEF Log
<1>6. \A i \in 1..Len(log.read) : log.read[i].n \in 1..log.sent
  BY DEF Numbered
<1>7. \A i \in 1..Len(log.handled) :
        log.handled[i] = log.read[i] /\ log.handled[i].n \in Nat /\ log.handled[i].n > 0
  BY <1>1, <1>4, <1>5, <1>6
<1>8. \A i, j \in 1..Len(log.read) : i < j => log.read[i].n < log.read[j].n
  BY DEF Numbered
<1>9. ASSUME NEW i \in 1..Len(log.handled), NEW j \in 1..Len(log.handled), i < j
      PROVE  log.handled[i].n < log.handled[j].n
  BY <1>4, <1>7, <1>8, <1>9
<1>10. QED
  BY <1>3, <1>7, <1>9

LEMMA AnswersRest ==
  ASSUME Answers, Stream' = Stream, log'.handled = log.handled, Busy' = Busy,
         pc'["main"] \in Unsent => pc["main"] \in Unsent /\ frame'["main"] = frame["main"],
         pc'["zb"] \in Unsent => pc["zb"] \in Unsent /\ frame'["zb"] = frame["zb"]
  PROVE  Answers'
<1>1. Settled' = Settled
  BY DEF Settled
<1>2. AnswersIn(Stream', log'.handled, Settled')
  BY <1>1 DEF Answers
<1>3. QED
  BY <1>2 DEF Answers, Current

\* A task appends its frame.
LEMMA AnswersAppended ==
  ASSUME BusTyped, Running, OutputCounted, Numbered, Answers, refused' = {},
         NEW t \in Producers, AppendUnits(t)
  PROVE  Answers'
<1> DEFINE f == frame[t]
           h == log.handled
<1>0. TasksTyped /\ Stream \in Seq(Unit)
  BY StreamTyped DEF BusTyped
<1>1. /\ pc[t] = "append" /\ Goto(t, "post") /\ f \in AnyFrame /\ f.size > 0
      /\ UNCHANGED <<frame, log>>
  BY AppendedWhole
<1>2. PICK w \in Seq(Unit) : /\ Stream' = Stream \o w /\ Len(w) = f.size
                             /\ \A i \in 1..f.size : w[i] = <<f, i>>
  BY AppendedWhole
<1> HIDE DEF f
<1>3. CASE t = "zb"
  <2>1. pc'["zb"] = "post" /\ pc'["main"] = pc["main"]
    BY <1>0, <1>1, <1>3, Goes DEF Steps
  <2>2. Busy' = Busy /\ Settled' = Settled
    BY <1>1, <2>1 DEF Busy, Settled
  <2>3. f.re = 0 /\ AnswersIn(Stream, h, Settled)
    BY <1>1, <1>3 DEF Answers, Unsent, f
  <2>4. Settled \in Nat
    BY HandledNumbered DEF Settled, Answers
  <2>5. AnswersIn(Stream \o w, h, Settled)
    <3> HIDE DEF h
    <3>1. QED
      BY <1>0, <1>1, <1>2, <2>3, <2>4, AnswersMore
  <2>6. AnswersIn(Stream', log'.handled, Settled')
    BY <1>1, <1>2, <2>2, <2>5
  <2>7. QED
    BY <1>1, <2>1, <2>2, <2>6 DEF Answers, Current, Unsent
<1>4. CASE t = "main"
  <2> DEFINE n == Len(h) - 1
  <2>1. pc'["main"] = "post" /\ pc'["zb"] = pc["zb"]
    BY <1>0, <1>1, <1>4, Goes DEF Steps
  <2>2. Busy /\ ~Busy' /\ Settled = n /\ Settled' = Len(h)
    BY <1>1, <1>4, <2>1 DEF Busy, Settled, Unsent
  <2>3. /\ Len(h) \in Nat /\ Len(h) > 0
        /\ \A i \in 1..Len(h) : h[i].n \in Nat /\ h[i].n > 0
        /\ \A i, j \in 1..Len(h) : i < j => h[i].n < h[j].n
    BY <2>2, HandledNumbered DEF Answers
  <2>4. /\ AnswersIn(Stream, h, n) /\ Wanted(h, Len(h)) /\ f.re = h[Len(h)].n
    BY <1>1, <1>4, <2>2 DEF Answers, Unsent, Current, f
  <2> HIDE DEF h
  <2>5. n \in Nat /\ n + 1 = Len(h)
    BY <2>3
  <2> HIDE DEF n
  <2>6. AnswersIn(Stream \o w, h, n + 1)
    BY <1>0, <1>1, <1>2, <2>3, <2>4, <2>5, AnswersNext
  <2>7. AnswersIn(Stream', log'.handled, Settled')
    BY <1>1, <1>2, <2>2, <2>5, <2>6 DEF h
  <2>8. QED
    BY <1>1, <2>1, <2>2, <2>7 DEF Answers, Unsent
<1>5. QED
  BY <1>3, <1>4 DEF Producers

\* A request is handled: it is to be answered, or its id is unknown.
LEMMA AnswersHandled ==
  ASSUME BusTyped, Running, OutputCounted, Answers, refused' = {},
         NEW s \in Sizes, ProcessOutput(s)
  PROVE  Answers'
<1> DEFINE h == log.handled
           n == Len(h)
           h2 == log'.handled
<1>0. TasksTyped /\ log \in Log /\ queue # NoQueue /\ h \in Seq(AnyFrame) /\ n \in Nat
  BY DEF BusTyped, TasksTyped, Running, Log
<1>1. /\ pc["main"] = "process" /\ event.event = "OUTPUT" /\ UNCHANGED <<queue, tx, input_buf>>
      /\ \E p \in {"wait", "check", "poll"} : Goto("main", p)
  BY Processed
<1>2. pc'["main"] \in {"wait", "check", "poll"} /\ pc'["zb"] = pc["zb"]
  BY <1>0, <1>1, Goes DEF Steps
<1>3. Pending # <<>> /\ Pending[1] = event
  BY <1>0, <1>1, <1>2, PendingDone
<1>4. event.size \in Nat /\ event.size <= Len(output_buf) /\ Len(output_buf) \in Nat
  BY <1>1, <1>3, RequestNext, OutputTyped
<1>5. PICK r \in AnyFrame, k \in {"resp", "err"} :
        /\ log' = [log EXCEPT !.handled = Append(@, r)]
        /\ \/ /\ r.kind \notin {"unknown", "poll"} /\ Goto("main", "check")
              /\ frame' = [frame EXCEPT !.main = Frame(k, 0, r.n, s)]
           \/ r.kind = "unknown" /\ Goto("main", "wait") /\ frame' = frame
           \/ r.kind = "poll" /\ Goto("main", "poll") /\ frame' = frame
  BY <1>4, Processed
<1>6. h2 = Append(h, r)
  BY <1>0, <1>5 DEF Log
<1>7. Len(h2) = n + 1 /\ h2[n + 1] = r /\ \A i \in 1..n : h2[i] = h[i]
  BY <1>0, <1>6, AppendProperties
<1>8. ~Busy /\ Settled = n
  BY <1>1 DEF Busy, Settled, Unsent
<1>9. Stream' = Stream /\ AnswersIn(Stream, h, n)
  BY <1>1, <1>8 DEF Stream, Answers
<1>10. frame'["zb"] = frame["zb"]
  BY <1>0, <1>5, TaskNames DEF TasksTyped
<1>11. pc'["zb"] \in Unsent => frame'["zb"].re = 0
  BY <1>2, <1>10 DEF Answers
<1> HIDE DEF h, n, h2
<1>12. /\ AnswersIn(Stream, h2, n)
       /\ ~Wanted(h2, n + 1) => AnswersIn(Stream, h2, n + 1)
  BY <1>0, <1>7, <1>9, AnswersSkip
<1>13. CASE r.kind = "unknown"
  <2>1. pc'["main"] = "wait"
    BY <1>0, <1>5, <1>13, Goes DEF Steps
  <2>2. ~Busy' /\ Settled' = n + 1
    BY <1>7, <2>1 DEF Busy, Settled, Unsent, h2
  <2>3. AnswersIn(Stream', log'.handled, Settled')
    BY <1>7, <1>9, <1>12, <1>13, <2>2 DEF Wanted, h2
  <2>4. QED
    BY <1>11, <2>1, <2>2, <2>3 DEF Answers, Unsent
<1>14. CASE r.kind # "unknown"
  <2>1. pc'["main"] \in {"check", "poll"}
    BY <1>0, <1>5, <1>14, Goes DEF Steps
  <2>2. Busy' /\ Settled' = n
    BY <1>0, <1>7, <2>1 DEF Busy, Settled, Unsent, h2
  <2>3. AnswersIn(Stream', log'.handled, Settled')
    BY <1>9, <1>12, <2>2 DEF h2
  <2>4. Len(log'.handled) > 0 /\ Wanted(log'.handled, Len(log'.handled))
    BY <1>0, <1>7, <1>14 DEF Wanted, h2
  <2>5. pc'["main"] \in Unsent => frame'["main"].re = Current'
    <3>1. CASE r.kind = "poll"
      <4>1. pc'["main"] = "poll"
        BY <1>0, <1>5, <3>1, Goes DEF Steps
      <4>2. QED
        BY <4>1 DEF Unsent
    <3>2. CASE r.kind # "poll"
      <4>1. frame'["main"] = Frame(k, 0, r.n, s)
        BY <1>0, <1>5, <1>14, <3>2, TaskNames DEF TasksTyped
      <4>2. Frame(k, 0, r.n, s).re = r.n
        BY DEF Frame
      <4>3. Current' = r.n
        BY <1>7 DEF Current, h2
      <4>4. QED
        BY <4>1, <4>2, <4>3
    <3>3. QED
      BY <3>1, <3>2
  <2>6. QED
    BY <1>11, <2>2, <2>3, <2>4, <2>5 DEF Answers
<1>15. QED
  BY <1>13, <1>14

\* A poll is answered with an indication that waits, or without.
LEMMA AnswersPolled ==
  ASSUME BusTyped, Answers, NEW s \in Sizes, Poll(s)
  PROVE  Answers'
<1>0. /\ TasksTyped /\ aps # NoQueue /\ aps \in Seq(Full) /\ Len(log.handled) > 0
      /\ log.handled \in Seq(AnyFrame)
  BY DEF BusTyped, TasksTyped, QueuesTyped, TasksAgree, StepsAgree, Poll, At, Log
<1>1. /\ pc["main"] = "poll" /\ Goto("main", "check") /\ UNCHANGED <<tx, input_buf, log>>
      /\ \/ aps # <<>> /\ frame' = [frame EXCEPT !.main = [Head(aps) EXCEPT !.re = Current]]
         \/ frame' = [frame EXCEPT !.main = Frame("resp", 0, Current, s)]
  BY DEF Poll, At
<1>2. pc'["main"] = "check" /\ pc'["zb"] = pc["zb"]
  BY <1>0, <1>1, Goes DEF Steps
<1>3. Current \in Nat
  <2>1. Len(log.handled) \in 1..Len(log.handled)
    BY <1>0
  <2>2. log.handled[Len(log.handled)] \in AnyFrame
    BY <1>0, <2>1, ElementOfSeq
  <2>3. QED
    BY <2>2 DEF Current, AnyFrame
<1>4. frame'["zb"] = frame["zb"]
  BY <1>0, <1>1, TaskNames DEF TasksTyped
<1>5. frame'["main"].re = Current
  <2>1. CASE aps # <<>> /\ frame' = [frame EXCEPT !.main = [Head(aps) EXCEPT !.re = Current]]
    <3>1. Head(aps) \in Full
      BY <1>0, <2>1
    <3>2. [Head(aps) EXCEPT !.re = Current].re = Current
      BY <1>3, <3>1, Redirected
    <3>3. frame'["main"] = [Head(aps) EXCEPT !.re = Current]
      BY <1>0, <2>1, TaskNames DEF TasksTyped
    <3>4. QED
      BY <3>2, <3>3
  <2>2. CASE frame' = [frame EXCEPT !.main = Frame("resp", 0, Current, s)]
    <3>1. frame'["main"] = Frame("resp", 0, Current, s)
      BY <1>0, <2>2, TaskNames DEF TasksTyped
    <3>2. QED
      BY <3>1 DEF Frame
  <2>3. QED
    BY <1>1, <2>1, <2>2
<1>6. Busy /\ Busy' /\ Settled' = Settled /\ Stream' = Stream /\ Current' = Current
  BY <1>1, <1>2 DEF Busy, Settled, Unsent, Stream, Current
<1>7. AnswersIn(Stream', log'.handled, Settled')
  BY <1>1, <1>6 DEF Answers
<1>8. QED
  BY <1>1, <1>2, <1>4, <1>5, <1>6, <1>7 DEF Answers

\* The stack has something to tell.
LEMMA AnswersTold ==
  ASSUME BusTyped, Answers, NEW s \in Sizes, Indicate(s) \/ Notify(s)
  PROVE  Answers'
<1>0. TasksTyped /\ log \in Log
  BY DEF BusTyped, TasksTyped
<1>1. /\ UNCHANGED <<tx, input_buf>> /\ pc["zb"] = "wait" /\ log' = [log EXCEPT !.inds = @ + 1]
      /\ \/ UNCHANGED <<pc, frame>>
         \/ Goto("zb", "check") /\ \E k \in {"ind", "noti"} :
              frame' = [frame EXCEPT !.zb = Frame(k, log.inds + 1, 0, s)]
  BY Indicated DEF Notify, At
<1>2. log'.handled = log.handled /\ Stream' = Stream
  BY <1>0, <1>1 DEF Log, Stream
<1>3. CASE UNCHANGED <<pc, frame>>
  BY <1>2, <1>3, AnswersRest DEF Busy
<1>4. ASSUME NEW k \in {"ind", "noti"}, Goto("zb", "check"),
             frame' = [frame EXCEPT !.zb = Frame(k, log.inds + 1, 0, s)]
      PROVE  Answers'
  <2>1. pc'["zb"] = "check" /\ pc'["main"] = pc["main"]
    BY <1>0, <1>4, Goes DEF Steps
  <2>2. frame'["main"] = frame["main"] /\ frame'["zb"] = Frame(k, log.inds + 1, 0, s)
    BY <1>0, <1>4, TaskNames DEF TasksTyped
  <2>3. frame'["zb"].re = 0
    BY <2>2 DEF Frame
  <2>4. Busy' = Busy /\ Settled' = Settled /\ Current' = Current
    BY <1>2, <2>1 DEF Busy, Settled, Current
  <2>5. AnswersIn(Stream', log'.handled, Settled')
    BY <1>2, <2>4 DEF Answers
  <2>6. QED
    BY <1>2, <2>1, <2>2, <2>3, <2>4, <2>5 DEF Answers
<1>5. QED
  BY <1>1, <1>3, <1>4

LEMMA AnswersStep ==
  ASSUME BusTyped, Running, InputCounted, OutputCounted, Numbered, Answers,
         refused' = {}, [Next]_vars
  PROVE  Answers'
<1>0. TasksTyped /\ log \in Log
  BY DEF BusTyped, TasksTyped
\* The tasks have no other frame to append than before.
<1>1. ASSUME Stream' = Stream, log'.handled = log.handled, Busy' = Busy,
             pc'["main"] \in Unsent => pc["main"] \in Unsent /\ frame'["main"] = frame["main"],
             pc'["zb"] \in Unsent => pc["zb"] \in Unsent /\ frame'["zb"] = frame["zb"]
      PROVE  Answers'
  BY <1>1, AnswersRest
<1>2. UNCHANGED <<tx, input_buf>> => Stream' = Stream
  BY DEF Stream
<1>3. CASE BusFlush \/ UNCHANGED vars
  BY <1>1, <1>2, <1>3 DEF BusFlush, vars, Busy
<1>4. ASSUME NEW k \in Kinds, NEW s \in RequestSizes, HostSends(k, s)
      PROVE  Answers'
  <2>1. UNCHANGED <<tx, input_buf, pc, frame>> /\ log' = [log EXCEPT !.sent = @ + 1]
    BY <1>4 DEF HostSends
  <2>2. log'.handled = log.handled
    BY <1>0, <2>1 DEF Log
  <2>3. QED
    BY <1>1, <1>2, <2>1, <2>2 DEF Busy
<1>5. CASE BusRead
  <2>1. /\ UNCHANGED <<tx, input_buf, frame>> /\ log' = [log EXCEPT !.read = Append(@, Head(rx))]
        /\ \E p \in {"wait", "done"} : Goto("bus", p)
    BY <1>5 DEF BusRead, Move
  <2>2. log'.handled = log.handled
    BY <1>0, <2>1 DEF Log
  <2>3. pc'["main"] = pc["main"] /\ pc'["zb"] = pc["zb"]
    BY <1>0, <2>1, Goes DEF Steps
  <2>4. QED
    BY <1>1, <1>2, <2>1, <2>2, <2>3 DEF Busy
<1>6. ASSUME NEW t \in Producers, CheckSpace(t) \/ RetrySpace(t)
      PROVE  Answers'
  <2>1. UNCHANGED <<tx, input_buf, frame, log>> /\ pc[t] \in {"check", "retry"}
    BY <1>6 DEF CheckSpace, RetrySpace, At
  <2>2. PICK p \in {"append", "retry"} : Goto(t, p)
    BY <1>6, Accepted DEF CheckSpace
  <2>3. /\ pc'["main"] = pc["main"] \/ {pc["main"], pc'["main"]} \subseteq Unsent
        /\ pc'["zb"] = pc["zb"] \/ {pc["zb"], pc'["zb"]} \subseteq Unsent
    <3>1. CASE t = "main"
      BY <1>0, <2>1, <2>2, <3>1, Goes DEF Steps, Unsent
    <3>2. CASE t = "zb"
      BY <1>0, <2>1, <2>2, <3>2, Goes DEF Steps, Unsent
    <3>3. QED
      BY <3>1, <3>2 DEF Producers
  <2>4. Busy' = Busy
    BY <2>3 DEF Busy
  <2>5. QED
    BY <1>1, <1>2, <2>1, <2>3, <2>4
<1>7. ASSUME NEW t \in Producers, AppendUnits(t)
      PROVE  Answers'
  BY <1>7, AnswersAppended
<1>8. ASSUME NEW t \in Producers, PostInput(t)
      PROVE  Answers'
  <2>1. UNCHANGED <<tx, input_buf, frame, log>> /\ pc[t] = "post"
    BY <1>8 DEF PostInput, At
  <2>2. PICK p \in {"wait", "sent"} : Goto(t, p)
    BY <1>8, Accepted
  <2>3. /\ \/ pc'["main"] = pc["main"]
           \/ pc["main"] = "post" /\ pc'["main"] \in {"wait", "sent"}
        /\ pc'["zb"] = pc["zb"] \/ pc'["zb"] \in {"wait", "sent"}
    <3>1. CASE t = "main"
      BY <1>0, <2>1, <2>2, <3>1, Goes DEF Steps
    <3>2. CASE t = "zb"
      BY <1>0, <2>1, <2>2, <3>2, Goes DEF Steps
    <3>3. QED
      BY <3>1, <3>2 DEF Producers
  <2>4. Busy' = Busy
    BY <2>3 DEF Busy, Unsent
  <2>5. QED
    BY <1>1, <1>2, <2>1, <2>3, <2>4 DEF Unsent
<1>9. CASE TakeEvent \/ ProcessInput \/ MainReturns
  <2>1. log' = log /\ pc["main"] \in {"wait", "process", "sent"} /\ frame'["zb"] = frame["zb"]
    BY <1>0, <1>9, TaskNames
       DEF TakeEvent, ProcessInput, MainReturns, At, Running, TasksTyped
  <2>2. \E p \in {"wait", "process"} : Goto("main", p)
    <3>1. CASE TakeEvent \/ ProcessInput
      BY <3>1 DEF TakeEvent, ProcessInput, Loop
    <3>2. CASE MainReturns
      <4>1. Loop(TRUE)
        BY <3>2 DEF MainReturns, Running, At
      <4>2. QED
        BY <4>1 DEF Loop
    <3>3. QED
      BY <1>9, <3>1, <3>2
  <2>3. pc'["main"] \in {"wait", "process"} /\ pc'["zb"] = pc["zb"]
    BY <1>0, <2>2, Goes DEF Steps
  <2>4. Stream' = Stream
    <3>1. CASE TakeEvent \/ MainReturns
      BY <1>2, <3>1 DEF TakeEvent, MainReturns
    <3>2. CASE ProcessInput
      <4>1. event.size <= Len(input_buf) /\ Len(input_buf) \in Nat /\ event.size \in Nat
        BY <3>2, InputTaken DEF BusTyped, BufsTyped, QueuesTyped, Events
      <4>2. QED
        BY <3>2, <4>1, Delivered
    <3>3. QED
      BY <1>9, <3>1, <3>2
  <2>5. Busy' = Busy
    BY <2>1, <2>3 DEF Busy, Unsent
  <2>6. QED
    BY <1>1, <2>1, <2>3, <2>4, <2>5 DEF Unsent
<1>10. ASSUME NEW s \in Sizes, ProcessOutput(s)
       PROVE  Answers'
  BY <1>10, AnswersHandled
<1>11. ASSUME NEW s \in Sizes, Poll(s)
       PROVE  Answers'
  BY <1>11, AnswersPolled
<1>12. ASSUME NEW s \in Sizes, Indicate(s) \/ Notify(s)
       PROVE  Answers'
  BY <1>12, AnswersTold
<1>13. QED
  BY <1>3, <1>4, <1>5, <1>6, <1>7, <1>8, <1>9, <1>10, <1>11, <1>12, BusSorted

LEMMA InOrder ==
  ASSUME BusTyped, Running, OutputCounted, Numbered, Answers
  PROVE  AnswersInOrder
<1> DEFINE h == log.handled
           wanted == { i \in DOMAIN log.handled : log.handled[i].kind # "unknown" }
           begun == { k \in Firsts : tx[k][1].re # 0 }
<1>1. /\ Len(h) \in Nat /\ Len(h) <= Len(log.read)
      /\ \A i \in 1..Len(h) : h[i] = log.read[i] /\ h[i].n \in Nat
      /\ \A i, j \in 1..Len(h) : i < j => h[i].n < h[j].n
  BY HandledNumbered
<1>2. /\ DOMAIN h = 1..Len(h) /\ h \in Seq(AnyFrame) /\ log.read \in Seq(Full)
      /\ Len(log.read) \in Nat
  BY OutputTyped
<1>3. IsPrefixOf(log.handled, log.read)
  <2>1. /\ SubSeq(log.read, 1, Len(h)) \in Seq(Full)
        /\ Len(SubSeq(log.read, 1, Len(h))) = Len(h)
        /\ \A i \in 1..Len(h) : SubSeq(log.read, 1, Len(h))[i] = log.read[i]
    BY <1>1, <1>2, SubSeqProperties
  <2> DEFINE p == SubSeq(log.read, 1, Len(h))
  <2>2. p \in Seq(AnyFrame)
    BY <2>1, FullIs, SeqMonotonic DEF Full
  <2>3. \A i \in 1..Len(h) : h[i] = p[i]
    BY <1>1, <2>1
  <2>4. Len(h) = Len(p)
    BY <2>1
  <2> HIDE DEF p
  <2>5. h = p
    BY <1>2, <2>2, <2>3, <2>4, SeqEqual
  <2>6. QED
    BY <1>1, <2>5 DEF IsPrefixOf, p
<1>4. /\ DOMAIN tx = 1..Len(tx) /\ Len(tx) \in Nat /\ Len(Stream) \in Nat /\ Len(tx) <= Len(Stream)
      /\ \A k \in 1..Len(tx) : Stream[k] = tx[k]
  BY StreamTyped DEF BusTyped, BufsTyped
<1>5. \A k \in 1..Len(tx) : k \in 1..Len(Stream)
  BY <1>4
<1>6. begun = { k \in 1..Len(tx) : AnswerAt(Stream, k) }
  BY <1>4 DEF Firsts, AnswerAt
<1>7. \A i \in DOMAIN h : i \in wanted <=> Wanted(h, i)
  BY DEF Wanted
<1>8. Settled \in Int /\ Settled <= Len(h) /\ (Busy => Settled = Len(h) - 1)
  BY <1>1 DEF Settled
<1>9. \A i \in 1..Settled : i \in 1..Len(h)
  BY <1>1, <1>8
<1>10. /\ \A k \in 1..Len(Stream) :
            AnswerAt(Stream, k) => \E i \in 1..Settled : Wanted(h, i) /\ Stream[k][1].re = h[i].n
       /\ \A j, k \in 1..Len(Stream) :
            j < k /\ AnswerAt(Stream, j) /\ AnswerAt(Stream, k) =>
              Stream[j][1].re < Stream[k][1].re
       /\ \A i \in 1..Settled : Wanted(h, i) =>
            \E k \in 1..Len(Stream) : AnswerAt(Stream, k) /\ Stream[k][1].re = h[i].n
  BY DEF Answers, AnswersIn
<1> HIDE DEF h, wanted, begun
<1>11. ASSUME NEW k \in begun
       PROVE  \E i \in wanted :
                /\ tx[k][1].re = h[i].n
                /\ \A g \in wanted : g < i <=> \E j \in begun : j < k /\ tx[j][1].re = h[g].n
  <2>1. k \in 1..Len(tx) /\ k \in 1..Len(Stream) /\ AnswerAt(Stream, k) /\ Stream[k] = tx[k]
    BY <1>4, <1>5, <1>6
  <2>2. PICK i \in 1..Settled : Wanted(h, i) /\ Stream[k][1].re = h[i].n
    BY <1>10, <2>1
  <2>3. i \in 1..Len(h) /\ i \in wanted /\ tx[k][1].re = h[i].n
    BY <1>2, <1>7, <1>9, <2>1, <2>2
  <2>4. ASSUME NEW g \in wanted, g < i
        PROVE  \E j \in begun : j < k /\ tx[j][1].re = h[g].n
    <3>1. g \in 1..Len(h) /\ Wanted(h, g) /\ g \in 1..Settled
      <4>1. g \in 1..Len(h) /\ Wanted(h, g)
        BY <1>2, <1>7 DEF wanted, h
      <4>2. QED
        BY <1>8, <2>2, <2>4, <4>1
    <3>2. PICK j \in 1..Len(Stream) : AnswerAt(Stream, j) /\ Stream[j][1].re = h[g].n
      BY <1>10, <3>1
    <3>3. h[g].n < h[i].n /\ h[g].n \in Nat /\ h[i].n \in Nat
      BY <1>1, <2>3, <2>4, <3>1
    <3>4. j < k
      <4>1. ~(Stream[j][1].re = Stream[k][1].re) /\ ~(Stream[k][1].re < Stream[j][1].re)
        BY <2>2, <3>2, <3>3
      <4>2. j # k /\ ~(k < j)
        BY <1>10, <2>1, <3>2, <4>1
      <4>3. j \in Int /\ k \in Int
        BY <1>4, <2>1
      <4>4. QED
        BY ONLY <4>2, <4>3
    <3>5. j \in 1..Len(tx)
      BY <1>4, <2>1, <3>4
    <3>6. j \in begun /\ tx[j] = Stream[j]
      BY <1>4, <1>6, <3>2, <3>5
    <3>7. QED
      BY <3>2, <3>4, <3>6
  <2>5. ASSUME NEW g \in wanted, NEW j \in begun, j < k, tx[j][1].re = h[g].n
        PROVE  g < i
    <3>1. j \in 1..Len(Stream) /\ AnswerAt(Stream, j) /\ Stream[j] = tx[j]
      BY <1>4, <1>5, <1>6
    <3>2. h[g].n < h[i].n
      BY <1>10, <2>1, <2>2, <2>5, <3>1
    <3>3. g \in 1..Len(h)
      BY <1>2 DEF wanted, h
    <3>4. h[g].n \in Nat /\ h[i].n \in Nat
      BY <1>1, <2>3, <3>3
    <3>5. g # i /\ ~(i < g)
      <4>1. ~(h[i].n < h[g].n) /\ h[g].n # h[i].n
        BY ONLY <3>2, <3>4
      <4>2. QED
        BY <1>1, <2>3, <3>3, <4>1
    <3>6. g \in Int /\ i \in Int
      BY <1>1, <2>3, <3>3
    <3>7. QED
      BY ONLY <3>5, <3>6
  <2>6. QED
    BY <2>3, <2>4, <2>5
<1>12. QED
  BY <1>3, <1>11 DEF AnswersInOrder, h, wanted, begun

LEMMA WireIsWhole ==
  ASSUME BusTyped, refused = {} => Framed(Stream)
  PROVE  WireWhole
<1>1. /\ DOMAIN tx = 1..Len(tx) /\ Len(tx) \in Nat
      /\ \A k \in 1..Len(tx) : Stream[k] = tx[k] /\ k \in 1..Len(Stream)
  BY StreamTyped DEF BusTyped, BufsTyped
<1>2. ASSUME refused = {}, NEW k \in 1..Len(tx)
      PROVE  IF tx[k][2] = 1 THEN k > 1 => tx[k - 1][2] = tx[k - 1][1].size
             ELSE k > 1 /\ tx[k - 1] = <<tx[k][1], tx[k][2] - 1>>
  <2>1. k > 1 => k - 1 \in 1..Len(tx)
    BY <1>1
  <2>2. Stream[k] = tx[k] /\ (k > 1 => Stream[k - 1] = tx[k - 1])
    BY <1>1, <2>1
  <2>3. QED
    BY <1>1, <1>2, <2>2 DEF Framed
<1>3. ASSUME refused = {}, NEW k \in 1..Len(tx)
      PROVE  LET before == IF k = 1 THEN <<NoFrame, 0>> ELSE tx[k - 1]
             IN  IF tx[k][2] = 1 THEN before[2] = before[1].size
                 ELSE before = <<tx[k][1], tx[k][2] - 1>>
  <2>1. k = 1 \/ k > 1
    BY <1>1
  <2>2. CASE k = 1
    BY <1>2, <1>3, <2>2 DEF NoFrame
  <2>3. CASE k > 1
    BY <1>2, <1>3, <2>3
  <2>4. QED
    BY <2>1, <2>2, <2>3
<1>4. QED
  BY <1>1, <1>3 DEF WireWhole

LEMMA NothingIsLeft ==
  ASSUME BusTyped, Running, InputCounted, OutputCounted
  PROVE  Quiet => input_buf = <<>> /\ output_buf = <<>>
<1> SUFFICES ASSUME Quiet
             PROVE  input_buf = <<>> /\ output_buf = <<>>
  OBVIOUS
<1>1. Pending = <<>> /\ Len(Pending) = 0 /\ Post("main") = 0 /\ Post("zb") = 0
  BY DEF Quiet, Pending, Post
<1>2. input_buf \in Seq(Unit) /\ output_buf \in Seq(Unit)
  BY DEF BusTyped, BufsTyped
<1>3. Len(input_buf) = 0
  <2>1. PICK c : Sums(Pending, InW, c) /\ c[1] + Post("main") + Post("zb") = Len(input_buf)
    BY DEF InputCounted
  <2>2. c[1] = 0
    BY <1>1, <2>1 DEF Sums
  <2>3. QED
    BY <1>1, <2>1, <2>2
<1>4. Len(output_buf) = 0
  <2>1. PICK c, d : Described(Pending, output_buf, log.read, c, d)
    BY DEF OutputCounted
  <2>2. c[1] = 0 /\ c[1] = Len(output_buf)
    BY <1>1, <2>1 DEF Described, Sums
  <2>3. QED
    BY <2>2
<1>5. QED
  BY <1>2, <1>3, <1>4, EmptySeq

LEMMA TypesHold == BusTyped => NcpTypeOK
<1> SUFFICES ASSUME BusTyped
             PROVE  NcpTypeOK
  OBVIOUS
<1>1. pc["main"] \in Steps /\ pc["zb"] \in {"wait"} \cup Sending /\ pc["bus"] \in {"wait", "done"}
  BY StepNames, TaskNames DEF BusTyped, TasksTyped
<1>2. QED
  BY <1>1 DEF NcpTypeOK, BusTyped, BufsTyped, QueuesTyped, TasksTyped, Steps, Sending

-----------------------------------------------------------------------------
(* The theorems.                                                           *)

\* The inductive invariant of the transport.
FramesInv ==
  /\ BusTyped /\ InLine /\ Numbered
  /\ refused = {} => Running /\ Framed(Stream) /\ InputCounted /\ OutputCounted /\ Answers
NcpInvariant == FramesInv /\ ZbCmdInv

LEMMA FramesStart == Init => FramesInv
<1> SUFFICES ASSUME Init
             PROVE  FramesInv
  OBVIOUS
<1>1. BusTyped /\ InLine
  BY BusStart, LineStart
<1>2. /\ rx = <<>> /\ output_buf = <<>> /\ input_buf = <<>> /\ queue = <<>> /\ tx = <<>>
      /\ state = "START" /\ pc["main"] = "wait" /\ pc["zb"] = "wait"
      /\ log.read = <<>> /\ log.handled = <<>>
  BY DEF Init
<1>3. Numbered
  BY <1>2 DEF Numbered
<1>4. Running
  <2>1. queue \in Seq(Events)
    BY <1>2
  <2>2. QED
    BY <1>2, <2>1, NotAQueue DEF Running
<1>5. Stream = <<>> /\ Len(Stream) = 0 /\ Framed(Stream)
  BY <1>2 DEF Stream, Framed
<1>6. Pending = <<>> /\ Len(Pending) = 0 /\ Post("main") = 0 /\ Post("zb") = 0
  BY <1>2 DEF Pending, Post
<1> DEFINE z == [i \in 1..1 |-> 0]
<1>7. /\ z[1] = 0 /\ Sums(Pending, InW, z) /\ Sums(Pending, OutW, z) /\ Sums(Pending, OutN, z)
  BY <1>6, SumsOfNone
<1> HIDE DEF z
<1>8. InputCounted
  BY <1>2, <1>6, <1>7 DEF InputCounted
<1>9. Described(Pending, output_buf, log.read, z, z)
  BY <1>2, <1>6, <1>7 DEF Described
<1>10. OutputCounted
  BY <1>2, <1>7, <1>9 DEF OutputCounted
<1>11. ~Busy /\ Settled = 0
  BY <1>2 DEF Busy, Settled, Unsent
<1>12. Answers
  BY <1>2, <1>5, <1>11 DEF Answers, AnswersIn, Unsent
<1>13. QED
  BY <1>1, <1>3, <1>4, <1>5, <1>8, <1>10, <1>12 DEF FramesInv

LEMMA FramesStep ==
  ASSUME FramesInv, [Next]_vars
  PROVE  FramesInv'
<1>1. BusTyped /\ InLine /\ Numbered
  BY DEF FramesInv
<1>2. BusTyped' /\ InLine' /\ Numbered'
  BY <1>1, TypesStep, LineStep, NumberedStep
<1>3. ASSUME refused' = {}
      PROVE  /\ Running' /\ Framed(Stream') /\ InputCounted' /\ OutputCounted' /\ Answers'
  <2>1. Running /\ Framed(Stream) /\ InputCounted /\ OutputCounted /\ Answers
    BY <1>1, <1>3, RefusedGrows DEF FramesInv
  <2>2. QED
    BY <1>1, <1>3, <2>1, RunningStep, FramedStep, CountStep, OutputStep, AnswersStep
<1>4. Framed(Stream)' = Framed(Stream')
  BY DEF Framed
<1>5. QED
  BY <1>2, <1>3, <1>4 DEF FramesInv

LEMMA FramesHold == FramesInv => NcpInv /\ AnswersInOrder /\ IndicationsInOrder
<1> SUFFICES ASSUME FramesInv
             PROVE  NcpInv /\ AnswersInOrder /\ IndicationsInOrder
  OBVIOUS
<1>1. BusTyped /\ InLine /\ Numbered
  BY DEF FramesInv
<1>2. NcpTypeOK /\ WireWhole
  BY <1>1, TypesHold, WireIsWhole DEF FramesInv
<1>3. NothingLeft
  BY <1>1, NothingIsLeft DEF FramesInv, NothingLeft
<1>4. AnswersInOrder
  <2>1. CASE refused = {}
    BY <1>1, <2>1, InOrder DEF FramesInv
  <2>2. CASE refused # {}
    BY <2>2 DEF AnswersInOrder
  <2>3. QED
    BY <2>1, <2>2
<1>5. IndicationsInOrder
  BY <1>1, LineHolds
<1>6. QED
  BY <1>2, <1>3, <1>4, <1>5 DEF NcpInv

\* The steps of the two halves.
LEMMA Halves ==
  ASSUME [NcpNext]_ncpVars
  PROVE  [Next]_vars /\ [NcpZbNext]_zbCmdVars
BY DEF NcpNext, InFrames, InCommands, ncpVars

LEMMA NcpStart == NcpInit => NcpInvariant
BY FramesStart, ZbStart DEF NcpInit, NcpInvariant

LEMMA NcpStep ==
  ASSUME NcpInvariant, [NcpNext]_ncpVars
  PROVE  NcpInvariant'
BY Halves, FramesStep, ZbStep DEF NcpInvariant

\* The buffers, the queue of events, the tasks and the requests read agree at
\* every moment, and so do the requests of the commands and the network's.
THEOREM NcpAgrees == NcpSpec => []NcpInvariant
BY NcpStart, NcpStep, PTL DEF NcpSpec

\* As long as nothing is refused, whole frames and nothing else go over the UART
\* and no unit is left without its event, in whatever order the two tasks append
\* and post; a callback of the stack has the command's context it was given.
THEOREM WholeAndOwn == NcpSpec => []NcpHolds
<1>1. NcpInvariant => NcpHolds
  BY FramesHold DEF NcpInvariant, NcpHolds, ZbCmdInv
<1>2. QED
  BY <1>1, NcpAgrees, PTL

\* As long as nothing is refused the requests are handled whole and as they were
\* read, and answered in that order, however many wait in the buffers.
THEOREM Answering == NcpSpec => []AnswersInOrder
<1>1. NcpInvariant => AnswersInOrder
  BY FramesHold DEF NcpInvariant
<1>2. QED
  BY <1>1, NcpAgrees, PTL

\* The host gets the indications and confirms in the order they were made,
\* whether they were sent at once or waited for a poll, refused or not.
THEOREM EventsOrdered == NcpSpec => EventsInOrder
<1>1. NcpInvariant => IndicationsInOrder
  BY FramesHold DEF NcpInvariant
<1>2. ASSUME NcpInvariant, [NcpNext]_ncpVars
      PROVE  [/\ \A k \in ApsKinds : given'[k] # given[k] =>
                   given'[k][1] = k /\ given'[k][2] > given[k][2]
              /\ ApsReturn /\ hand.got = "queue" /\ hand.ev[1] = "ind" => Consumed]_zbCmdVars
  <2>1. ZbCmdInv /\ [NcpZbNext]_zbCmdVars
    BY <1>2, Halves DEF NcpInvariant
  <2>2. GivenLater /\ (ApsReturn /\ hand.got = "queue" /\ hand.ev[1] = "ind" => Consumed)
    BY <2>1, ZbStep
  <2>3. QED
    BY <2>2 DEF GivenLater
<1>3. QED
  BY <1>1, <1>2, NcpAgrees, PTL DEF NcpSpec, EventsInOrder, ApsInOrder

\* A frame of any length, whatever bytes it holds, leaves the NCP between two ENDs
\* with none within, and is read as it was sent, alone or in a run with another.
THEOREM SlipCodes == NcpSpec => []SlipCoding
<1>1. SlipCoding
  BY EndsDelimited, DecodesEach, DecodesRunTogether DEF SlipCoding, EndsDelimit, RoundTrip
<1>2. QED
  BY <1>1, PTL
=============================================================================
