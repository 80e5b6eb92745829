--------------------------- MODULE ZbGatewayProofs ---------------------------
(***************************************************************************)
(* Proofs about the Zigbee gateway and the multi-router, for any versions, *)
(* images and networks, and any number of faults: one commissioning at a   *)
(* time, one network that is formed once, one that is stored and linked,   *)
(* and an image that is trusted only when the RCP was found running it.    *)
(***************************************************************************)
EXTENDS MCZbGateway, RcpUpdateProofs, FiniteSetTheorems

-----------------------------------------------------------------------------
(* The inductive invariant.                                                *)

\* The gateway's task is the only caller of the update API, and only for
\* esp_rcp_mark_image_verified.
GwCalls ==
  /\ ~cli
  /\ call[Main].pc \in {"idle", "mark", "seq", "set", "commit"}
  /\ pc \notin {"marked", "enter"} => call[Main].pc = "idle"

\* What the task has found out about the RCP when it trusts an image.
GwKnows ==
  /\ pc \in {"try", "agree"} => rcp \in Bootable
  /\ pc = "agree" => rcp = Current.ver
  /\ call[Main].pc = "mark" /\ Flagged(call[Main].val) => rcp \in Bootable /\ rcp = Current.ver

\* The stack: one commissioning at a time, and none outside the main loop; one
\* that will form a network finds none.
GwStack ==
  /\ job \in {"none", "skip", "init", "form", "steer"}
  /\ alarm \in {{}, {"init"}, {"form"}}
  /\ net \in {"new", "formed"} /\ joinable \in BOOLEAN
  /\ pc # "running" => job = "none" /\ alarm = {} /\ ~joinable
  /\ alarm # {} => job = "none"
  /\ "form" \in alarm => net = "new"
GwFaults == zbFaults \in [n : 0..MaxZbFaults, final : BOOLEAN]

\* The border router: what of the network of Kconfig is stored already.
OtStored ==
  /\ RouterTypeOK
  /\ ob \in {"ssid", "psk", "again"} => linked = Kconfig
  /\ ob = "psk" => wifi.ssid = Kconfig.ssid
  /\ ob = "again" => wifi = Kconfig
  /\ StoredIsLinked

GwInv == TypeInv /\ GwCalls /\ GwKnows /\ GwStack /\ GwFaults /\ OtStored

-----------------------------------------------------------------------------
(* What a step is to the RCP and its bookkeeping: a step of RcpUpdate, a   *)
(* restart, or the task going on without a call.                           *)

Goes(p)   == Become(p) /\ NoCall /\ MainOnly /\ (NoFault \/ \E k : Fault(k))
Restarted == Reboot /\ UNCHANGED rcp /\ (NoFault \/ \E k : Fault(k))
Went == \/ pc \in {"radio", "running"} /\ Goes("flash")
        \/ pc = "off" /\ Goes("radio")
        \/ pc = "radio" /\ Goes("running")

RcpHalf == \/ Boot \/ RadioUp \/ TryLoads \/ UpdateOpens \/ UpdateFails \/ UpdateDone
           \/ UpdateOfNothing \/ MainCall \/ EnterMainLoop
           \/ pc # "accept" /\ Mark
           \/ Restarted \/ Went \/ UNCHANGED vars

\* No step of either program is any other.
Steps2 == [GatewayRuns \/ RouterRuns]_mcVars

LEMMA GatewayHalf == GwInv /\ GatewayRuns => RcpHalf
<1> SUFFICES ASSUME GwInv, GatewayRuns
             PROVE  RcpHalf
  OBVIOUS
<1> USE DEF Restarted, RcpHalf
<1>1. CASE ErrorHandler
  BY <1>1 DEF ErrorHandler, Went, Goes
<1>2. CASE VersionUnread \/ Flashed
  BY <1>2 DEF VersionUnread, Flashed
<1>3. CASE GwMark \/ GwEnters
  BY <1>3 DEF GwMark, GwEnters
<1>4. CASE GwRestarts
  BY <1>4 DEF GwRestarts, AfterUpdate, GwInv, GwCalls
<1>5. CASE GwAborts
  BY <1>5 DEF GwAborts, UpdateAborts
<1>6. CASE GwPowerLoss
  BY <1>6 DEF GwPowerLoss, PowerLoss
<1>7. CASE ZbStep \/ JoinCloses
  BY <1>7 DEF ZbStep, JoinCloses, InLoop, SkipStartup, Started, StartFails, StackForms,
              Formed, FormFails, Steered, AlarmFires
<1>8. QED
  BY <1>1, <1>2, <1>3, <1>4, <1>5, <1>6, <1>7 DEF GatewayRuns, GatewayNext, GwTask

LEMMA Down2Restarts == Down2 /\ (NoFault \/ \E k : Fault(k)) => Restarted
BY DEF Down2, Restarted

LEMMA RouterHalf == RouterRuns => RcpHalf
<1> SUFFICES ASSUME RouterRuns
             PROVE  RcpHalf
  OBVIOUS
<1> USE Down2Restarts DEF RcpHalf
<1>1. CASE AppMain
  BY <1>1 DEF AppMain, Went, Goes
<1>2. CASE ZbUp
  BY <1>2 DEF ZbUp, Went, Goes
<1>3. CASE ZbRadioFails \/ RouterPowerLoss \/ AutoStartCut
  BY <1>3 DEF ZbRadioFails, RouterPowerLoss, AutoStartCut, Restarts
<1>4. CASE ZbSignal
  BY <1>4 DEF ZbSignal, ZbStep, JoinCloses, InLoop, SkipStartup, Started, StartFails,
              StackForms, Formed, FormFails, Steered, AlarmFires
<1>5. CASE AirChanges
  BY <1>5 DEF AirChanges, gwVars
<1>6. CASE ReadConfig \/ ConnectStored \/ AutoStarts
  BY <1>6 DEF ReadConfig, ConnectStored, AutoStarts, OtGoto, gwVars
<1>7. CASE ConnectKconfig
  BY <1>7 DEF ConnectKconfig, OtGoto, gwVars, Restarts
<1>8. CASE SaveSsid \/ SavePassword \/ SaveAgain
  BY <1>8 DEF SaveSsid, SavePassword, SaveAgain, OtGoto, gwVars, Restarts
<1>9. QED
  BY <1>1, <1>2, <1>3, <1>4, <1>5, <1>6, <1>7, <1>8 DEF RouterRuns, RouterNext, OtBrInit

LEMMA Halves == GwInv /\ Steps2 => RcpHalf
BY GatewayHalf, RouterHalf DEF Steps2, RcpHalf, mcVars, routerVars, gwVars
-----------------------------------------------------------------------------
(* The RCP, its image and the calls.                                       *)

LEMMA CountKept ==
  ASSUME TypeInv, NoFault \/ \E k : Fault(k)
  PROVE  faults' \in 0..MaxFaults
<1>1. faults \in 0..MaxFaults
  BY DEF TypeInv, Types, TypeBounds
<1>2. faults' = faults \/ (faults < MaxFaults /\ faults' = faults + 1)
  BY DEF NoFault, Fault
<1>3. QED
  BY <1>1, <1>2, UpdateAssumption

LEMMA RestartedTyped == TypeInv /\ Restarted => TypeInv'
<1> SUFFICES ASSUME TypeInv, Restarted
             PROVE  TypeInv'
  OBVIOUS
<1> USE DEF Restarted, Reboot
<1>0. Versions # {}
  BY ImageFields DEF TypeInv, Types, TypeMain
<1>1. StoreTypeOK'
  BY TypeStep DEF StoreNext, TypeInv
<1>2. TypeFile' /\ TypeRcp'
  BY DEF TypeInv, Types, TypeFile, TypeRcp
<1>3. TypeMain'
  BY DEF TypeInv, Types, TypeMain, PCs
<1>4. TypeDl' /\ Growing'
  <2>1. DlIdle \in DlType /\ DlIdle.pc = "idle"
    BY <1>0, IdleDownload DEF DlIdle
  <2>2. QED
    BY <2>1 DEF TypeDl, Growing
<1>5. TypeBounds'
  BY CountKept DEF TypeInv, Types, TypeBounds
<1>6. QED
  BY <1>1, <1>2, <1>3, <1>4, <1>5 DEF TypeInv, Types

LEMMA WentTyped == TypeInv /\ Went => TypeInv'
<1> SUFFICES ASSUME TypeInv, Went
             PROVE  TypeInv'
  OBVIOUS
<1> USE DEF Went, Goes, Become, MainOnly, fileVars
<1>1. StoreTypeOK'
  BY TypeStep DEF NoCall, TypeInv
<1>2. TypeFile' /\ TypeRcp'
  BY DEF TypeInv, Types, TypeFile, TypeRcp
<1>3. TypeMain'
  BY DEF TypeInv, Types, TypeMain, PCs
<1>4. TypeDl' /\ Growing'
  BY DEF TypeInv, Types, TypeDl, Growing
<1>5. TypeBounds'
  BY CountKept DEF TypeInv, Types, TypeBounds
<1>6. QED
  BY <1>1, <1>2, <1>3, <1>4, <1>5 DEF TypeInv, Types

LEMMA HalfTyped == TypeInv /\ RcpHalf => TypeInv'
<1> SUFFICES ASSUME TypeInv, RcpHalf
             PROVE  TypeInv'
  OBVIOUS
<1>1. CASE Restarted
  BY <1>1, RestartedTyped
<1>2. CASE Went
  BY <1>2, WentTyped
<1>3. CASE [UpdateNext]_vars
  BY <1>3, TypesStep
<1>4. QED
  BY <1>1, <1>2, <1>3 DEF RcpHalf, UpdateNext, MainStep

\* The value a mark writes, and where the other steps leave the call.
LEMMA OnlyMain == Main \in Callers /\ Downloads = {}
BY CallersAre, GatewayAssumption

LEMMA MarkedValue ==
  ASSUME TypeInv
  PROVE  ~Flagged(UpdateSeq)
BY Slots, Encoding DEF TypeInv

USE DEF Become, NoCall, MainOnly, storeVars, fileVars, MainFree, At

LEMMA CallsKept == TypeInv /\ GwCalls /\ RcpHalf => GwCalls'
<1> SUFFICES ASSUME TypeInv, GwCalls, RcpHalf
             PROVE  GwCalls'
  OBVIOUS
<1>0. call \in [Callers -> [pc : CallPCs, val : Encoded]] /\ Main \in Callers
  BY OnlyMain DEF TypeInv, StoreTypeOK
<1>1. CASE Boot
  BY <1>1 DEF Boot, UpdateInit, GwCalls
<1>2. CASE RadioUp \/ TryLoads \/ UpdateFails \/ UpdateOfNothing \/ EnterMainLoop \/ Went
  BY <1>2 DEF RadioUp, TryLoads, UpdateFails, UpdateOfNothing, EnterMainLoop, Went, Goes, GwCalls
<1>3. CASE UpdateOpens \/ UpdateDone
  BY <1>3 DEF UpdateOpens, UpdateDone, GwCalls
<1>4. CASE Mark
  BY <1>0, <1>4 DEF Mark, MarkImageVerified, Step, GwCalls
<1>5. CASE MainCall
  <2>1. UNCHANGED <<pc, cli>>
    BY <1>5 DEF MainCall, mainVars
  <2>2. call[Main].pc # "idle" /\ call'[Main].pc \in {"idle", "seq", "set", "commit"}
    BY <1>0, <1>5 DEF MainCall, CallStep, SubmitFlag, MarkFlag, MarkSeq, UnusableClear, NvsSet,
                      NvsCommit, NvsFail, Step, Goto, Return, Idle
  <2>3. QED
    BY <2>1, <2>2 DEF GwCalls
<1>6. CASE Restarted
  BY <1>0, <1>6 DEF Restarted, Reboot, Restart, Idle, GwCalls
<1>7. CASE UNCHANGED vars
  BY <1>7 DEF vars, GwCalls
<1>8. QED
  BY <1>1, <1>2, <1>3, <1>4, <1>5, <1>6, <1>7 DEF RcpHalf

LEMMA KnowsKept == TypeInv /\ GwCalls /\ GwKnows /\ RcpHalf => GwKnows'
<1> SUFFICES ASSUME TypeInv, GwCalls, GwKnows, RcpHalf
             PROVE  GwKnows'
  OBVIOUS
<1>0. call \in [Callers -> [pc : CallPCs, val : Encoded]] /\ Main \in Callers
  BY OnlyMain DEF TypeInv, StoreTypeOK
<1> USE DEF GwKnows, GwCalls
<1>1. CASE Boot
  BY <1>1 DEF Boot, UpdateInit
<1>2. CASE RadioUp \/ TryLoads \/ UpdateFails \/ UpdateOfNothing \/ EnterMainLoop \/ Went
  BY <1>2 DEF RadioUp, TryLoads, UpdateFails, UpdateOfNothing, EnterMainLoop, Went, Goes,
              Current, UpdateSeq
<1>3. CASE UpdateOpens \/ UpdateDone
  BY <1>3 DEF UpdateOpens, UpdateDone
<1>4. CASE pc # "accept" /\ Mark
  <2>1. Current' = Current /\ UNCHANGED rcp /\ pc' \in {"enter", "marked"}
    BY <1>4 DEF Mark, MarkImageVerified, Current, UpdateSeq
  <2>2. pc = "agree" \/ call'[Main].val = UpdateSeq
    BY <1>0, <1>4 DEF Mark, MarkImageVerified, Step
  <2>3. QED
    BY <2>1, <2>2, MarkedValue
<1>5. CASE MainCall
  <2>1. UNCHANGED pc /\ pc \in {"marked", "enter"}
    BY <1>5 DEF MainCall, mainVars, CallStep, SubmitFlag, MarkFlag, MarkSeq, UnusableClear, NvsSet,
                      NvsCommit, NvsFail
  <2>2. call'[Main].pc \in {"idle", "seq", "set", "commit"}
    BY <1>0, <1>5 DEF MainCall, CallStep, SubmitFlag, MarkFlag, MarkSeq, UnusableClear, NvsSet,
                      NvsCommit, NvsFail, Step, Goto, Return, Idle
  <2>3. QED
    BY <2>1, <2>2
<1>6. CASE Restarted
  BY <1>0, <1>6 DEF Restarted, Reboot, Restart, Idle
<1>7. CASE UNCHANGED vars
  BY <1>7 DEF vars, Current, UpdateSeq
<1>8. QED
  BY <1>1, <1>2, <1>3, <1>4, <1>5, <1>6, <1>7 DEF RcpHalf

HIDE DEF Become, NoCall, MainOnly, storeVars, fileVars, MainFree, At
-----------------------------------------------------------------------------
(* The stack.                                                              *)

\* A step is one of the stack in the main loop, it starts the main loop, it
\* takes the stack down, or it leaves the stack alone, outside the main loop.
ZbHalf == \/ pc # "running" /\ Keep
          \/ Down
          \/ /\ pc # "running" /\ job' = "skip"
             /\ pc' = "running" /\ UNCHANGED <<alarm, net, joinable, zbFaults>>
          \/ ZbStep \/ JoinCloses
          \/ UNCHANGED <<pc, zbVars, zbFaults>>

LEMMA CallOutside ==
  GwCalls /\ MainCall => pc # "running"
BY OnlyMain DEF GwCalls, MainCall, CallStep, SubmitFlag, MarkFlag, MarkSeq, UnusableClear, NvsSet,
                NvsCommit, NvsFail, At

LEMMA ZbHalves == GwInv /\ Steps2 => ZbHalf
<1> SUFFICES ASSUME GwInv, Steps2
             PROVE  ZbHalf
  OBVIOUS
<1> USE DEF ZbHalf
<1>1. ASSUME GwTask
      PROVE  ZbHalf
  <2>1. CASE ErrorHandler \/ VersionUnread \/ Flashed \/ GwRestarts \/ GwAborts
    BY <2>1 DEF ErrorHandler, VersionUnread, Flashed, GwRestarts, GwAborts
  <2>2. CASE GwEnters
    BY <2>2 DEF GwEnters, EnterMainLoop, Become
  <2>3. CASE GwMark
    BY <2>3 DEF GwMark, Mark
  <2>4. CASE Keep /\ (Boot \/ RadioUp \/ TryLoads \/ UpdateOpens \/ UpdateFails)
    BY <2>4 DEF Boot, RadioUp, TryLoads, UpdateOpens, UpdateFails
  <2>5. CASE Keep /\ (UpdateDone \/ UpdateOfNothing)
    BY <2>5 DEF UpdateDone, UpdateOfNothing
  <2>6. CASE Keep /\ MainCall
    BY <2>6, CallOutside DEF GwInv
  <2>7. QED
    BY <1>1, <2>1, <2>2, <2>3, <2>4, <2>5, <2>6 DEF GwTask
<1>2. CASE GatewayRuns
  BY <1>1, <1>2 DEF GatewayRuns, GatewayNext, GwPowerLoss
<1>3. ASSUME RouterNext
      PROVE  ZbHalf
  <2>1. CASE AppMain
    BY <2>1 DEF AppMain
  <2>2. CASE ZbUp
    BY <2>2 DEF ZbUp, Become
  <2>3. CASE ZbRadioFails \/ RouterPowerLoss \/ AutoStartCut
    BY <2>3 DEF ZbRadioFails, RouterPowerLoss, AutoStartCut, Restarts, Down2
  <2>4. CASE ZbSignal
    BY <2>4 DEF ZbSignal
  <2>5. CASE AirChanges
    BY <2>5 DEF AirChanges, gwVars, vars
  <2>6. CASE OtBrInit
    BY <2>6 DEF OtBrInit, ReadConfig, ConnectStored, ConnectKconfig, SaveSsid, SavePassword,
                SaveAgain, AutoStarts, OtGoto, Restarts, Down2, gwVars, vars
  <2>7. QED
    BY <1>3, <2>1, <2>2, <2>3, <2>4, <2>5, <2>6 DEF RouterNext
<1>4. CASE UNCHANGED mcVars
  BY <1>4 DEF mcVars, routerVars, gwVars, vars
<1>5. QED
  BY <1>2, <1>3, <1>4 DEF Steps2, RouterRuns

\* A refusal is counted.
LEMMA RefusalCounted ==
  ASSUME GwFaults, NEW k, UNCHANGED zbFaults \/ ZbFault(k)
  PROVE  GwFaults'
<1>1. CASE ZbFault(k)
  <2>1. zbFaults.n \in 0..MaxZbFaults /\ zbFaults.final \in BOOLEAN /\ zbFaults.n < MaxZbFaults
    BY <1>1 DEF ZbFault, GwFaults
  <2>2. zbFaults.n + 1 \in 0..MaxZbFaults
    BY <2>1, GatewayAssumption
  <2>3. (zbFaults.final \/ k \in NoRetry) \in BOOLEAN
    OBVIOUS
  <2>4. zbFaults' = [n |-> zbFaults.n + 1, final |-> zbFaults.final \/ k \in NoRetry]
    BY <1>1 DEF ZbFault
  <2>5. QED
    BY <2>2, <2>3, <2>4 DEF GwFaults
<1>2. QED
  BY <1>1 DEF GwFaults

LEMMA ZbFaultsKept == GwInv /\ Steps2 => GwFaults'
<1> SUFFICES ASSUME GwInv, Steps2
             PROVE  GwFaults'
  OBVIOUS
<1>0. GwFaults
  BY DEF GwInv
<1>1. CASE Down
  BY <1>0, <1>1 DEF GwFaults, Down
<1>2. CASE ZbStep \/ JoinCloses
  <2>1. UNCHANGED zbFaults \/ \E k : ZbFault(k)
    BY <1>2 DEF ZbStep, JoinCloses, SkipStartup, Started, StartFails, StackForms, Formed,
                FormFails, Steered, AlarmFires
  <2>2. QED
    BY <1>0, <2>1, RefusalCounted
<1>3. CASE UNCHANGED zbFaults
  BY <1>0, <1>3 DEF GwFaults
<1>4. QED
  BY <1>1, <1>2, <1>3, ZbHalves DEF ZbHalf, Keep

LEMMA StackKept == GwInv /\ Steps2 => GwStack'
<1> SUFFICES ASSUME GwInv, Steps2
             PROVE  GwStack'
  OBVIOUS
<1>0. GwStack
  BY DEF GwInv
<1> USE DEF GwStack
<1>1. CASE pc # "running" /\ Keep
  BY <1>0, <1>1 DEF Keep, zbVars
<1>2. CASE Down
  BY <1>0, <1>2 DEF Down
<1>3. CASE UNCHANGED <<pc, zbVars, zbFaults>>
  BY <1>0, <1>3 DEF zbVars
<1>4. CASE pc # "running" /\ pc' = "running" /\ job' = "skip" /\ UNCHANGED <<alarm, net, joinable>>
  BY <1>0, <1>4
<1>5. ASSUME ZbStep
      PROVE  GwStack'
  <2>0. pc = "running" /\ pc' = pc
    BY <1>5 DEF ZbStep, SkipStartup, Started, StartFails, StackForms, Formed, FormFails, Steered,
                AlarmFires, InLoop, vars
  <2>1. CASE SkipStartup
    BY <1>0, <2>0, <2>1 DEF SkipStartup
  <2>2. CASE Started
    BY <1>0, <2>0, <2>2 DEF Started
  <2>3. CASE StartFails
    BY <1>0, <2>0, <2>3 DEF StartFails
  <2>4. CASE StackForms
    BY <1>0, <2>0, <2>4 DEF StackForms
  <2>5. CASE Formed
    BY <1>0, <2>0, <2>5 DEF Formed
  <2>6. CASE FormFails
    BY <1>0, <2>0, <2>6 DEF FormFails
  <2>7. CASE Steered
    BY <1>0, <2>0, <2>7 DEF Steered
  <2>8. ASSUME NEW m \in alarm, AlarmFires(m)
        PROVE  GwStack'
    BY <1>0, <2>0, <2>8 DEF AlarmFires
  <2>9. QED
    BY <1>5, <2>1, <2>2, <2>3, <2>4, <2>5, <2>6, <2>7, <2>8 DEF ZbStep
<1>6. CASE JoinCloses
  BY <1>0, <1>6 DEF JoinCloses, InLoop, vars
<1>7. QED
  BY <1>1, <1>2, <1>3, <1>4, <1>5, <1>6, ZbHalves DEF ZbHalf
-----------------------------------------------------------------------------
(* The border router.                                                      *)

LEMMA Configured ==
  /\ Kconfig \in Known /\ Kconfig = [ssid |-> Kconfig.ssid, psk |-> Kconfig.psk]
  /\ Kconfig.ssid \in Ssids
BY RouterAssumption DEF Ssids

LEMMA PairFields ==
  ASSUME NEW w \in Pairs
  PROVE  /\ [w EXCEPT !.ssid = Kconfig.ssid] \in Pairs
         /\ [w EXCEPT !.psk = Kconfig.psk] \in Pairs
         /\ [w EXCEPT !.ssid = Kconfig.ssid].ssid = Kconfig.ssid
         /\ w.ssid = Kconfig.ssid => [w EXCEPT !.psk = Kconfig.psk] = Kconfig
<1>1. Kconfig.ssid \in Ssids \cup {None} /\ Kconfig.psk \in { p.psk : p \in Known } \cup {""}
  BY Configured
<1>2. Kconfig = [ssid |-> Kconfig.ssid, psk |-> Kconfig.psk]
  BY Configured
<1>3. QED
  BY <1>1, <1>2 DEF Pairs

LEMMA RestartsStored == OtStored /\ Down2 /\ UNCHANGED wifi /\ active' \in Nat => OtStored'
BY DEF OtStored, RouterTypeOK, StoredIsLinked, Down2

LEMMA StoredKept == OtStored /\ Steps2 => OtStored'
<1> SUFFICES ASSUME OtStored, Steps2
             PROVE  OtStored'
  OBVIOUS
<1>0. /\ wifi \in Pairs /\ air \in SUBSET Ssids /\ active \in Nat
      /\ linked \in Known \cup {Nowhere}
  BY DEF OtStored, RouterTypeOK
<1>a. ASSUME Restarts
      PROVE  OtStored'
  BY <1>0, <1>a, RestartsStored DEF Restarts
<1> USE DEF OtStored, RouterTypeOK, StoredIsLinked
<1>1. CASE UNCHANGED otVars
  BY <1>1 DEF otVars
<1>2. CASE AppMain
  BY <1>2 DEF AppMain
<1>3. CASE Restarts
  BY <1>a, <1>3
<1>4. CASE AirChanges
  BY <1>4 DEF AirChanges
<1>5. CASE AutoStartCut
  BY <1>0, <1>5, RestartsStored DEF AutoStartCut
<1>6. CASE ReadConfig
  BY <1>6 DEF ReadConfig, OtGoto
<1>7. CASE ConnectStored
  BY <1>7 DEF ConnectStored, Connects, InReach, NotInReach, OtGoto
<1>8. CASE ConnectKconfig
  BY <1>a, <1>8, Configured DEF ConnectKconfig, Connects, InReach, OtGoto
<1>9. CASE SaveSsid
  <2>1. CASE Restarts
    BY <1>a, <2>1
  <2>2. CASE ob = "ssid" /\ ob' = "psk" /\ UNCHANGED <<air, linked, active>>
             /\ wifi' = [wifi EXCEPT !.ssid = Kconfig.ssid]
    <3>1. wifi' \in Pairs /\ wifi'.ssid = Kconfig.ssid
      BY <1>0, <2>2, PairFields
    <3>2. QED
      BY <2>2, <3>1
  <2>3. QED
    BY <1>9, <2>1, <2>2 DEF SaveSsid, OtGoto
<1>10. CASE SavePassword
  <2>1. CASE Restarts
    BY <1>a, <2>1
  <2>2. CASE ob = "psk" /\ ob' = "again" /\ UNCHANGED <<air, linked, active>>
             /\ wifi' = [wifi EXCEPT !.psk = Kconfig.psk]
    <3>1. wifi' \in Pairs /\ wifi' = Kconfig
      BY <1>0, <2>2, PairFields
    <3>2. QED
      BY <2>2, <3>1
  <2>3. QED
    BY <1>10, <2>1, <2>2 DEF SavePassword, OtGoto
<1>11. CASE SaveAgain
  BY <1>a, <1>11 DEF SaveAgain, OtGoto
<1>12. CASE AutoStarts
  BY <1>0, <1>12 DEF AutoStarts, OtGoto
<1>13. QED
  BY <1>1, <1>2, <1>3, <1>4, <1>5, <1>6, <1>7, <1>8, <1>9, <1>10, <1>11, <1>12
     DEF Steps2, GatewayRuns, RouterRuns, RouterNext, ZbUp, ZbRadioFails, ZbSignal,
         OtBrInit, RouterPowerLoss, mcVars, routerVars

-----------------------------------------------------------------------------
(* The theorems.                                                           *)

LEMMA GwStep == GwInv /\ Steps2 => GwInv'
<1> SUFFICES ASSUME GwInv, Steps2
             PROVE  GwInv'
  OBVIOUS
<1>1. RcpHalf
  BY Halves
<1>2. TypeInv' /\ GwCalls' /\ GwKnows'
  BY <1>1, HalfTyped, CallsKept, KnowsKept DEF GwInv
<1>3. QED
  BY <1>2, StackKept, ZbFaultsKept, StoredKept DEF GwInv

LEMMA GwStart == PowerUp => GwInv
<1> SUFFICES ASSUME PowerUp
             PROVE  GwInv
  OBVIOUS
<1>1. GatewayInitState
  BY DEF PowerUp, RouterInitState
<1>2. TypeInv
  BY <1>1, TypesStart DEF GatewayInitState
<1>3. GwCalls /\ GwKnows
  BY <1>1, OnlyMain DEF GatewayInitState, UpdateInitState, StoreInit, Idle, GwCalls, GwKnows
<1>4. GwStack
  BY <1>1 DEF GatewayInitState, GwStack
<1>5. GwFaults
  BY <1>1, GatewayAssumption DEF GatewayInitState, GwFaults
<1>6. OtStored
  <2>1. Nowhere \in Pairs
    BY DEF Nowhere, Pairs
  <2>2. ob = "off" /\ wifi \in Pairs /\ air \in SUBSET Ssids /\ linked = Nowhere /\ active \in 0..1
    BY <2>1 DEF PowerUp, RouterInitState
  <2>3. QED
    BY <2>2 DEF OtStored, RouterTypeOK, StoredIsLinked
<1>7. QED
  BY <1>2, <1>3, <1>4, <1>5, <1>6 DEF GwInv

\* The inductive invariant holds of both programs, whatever the versions, images
\* and networks, and however many faults of whatever kind.
THEOREM GatewayInvariant == PowerUpSpec => []GwInv
<1>1. GwInv /\ [GatewayRuns \/ RouterRuns]_mcVars => GwInv'
  BY GwStep DEF Steps2
<1>2. QED
  BY GwStart, <1>1, PTL DEF PowerUpSpec

\* One commissioning at a time, through all failures and retries of the signal
\* handler; and a border router that is up is connected to the stored network.
THEOREM GatewayIsSound == PowerUpSpec => []GatewayHolds
<1>1. GwInv => GatewayHolds
  <2> SUFFICES ASSUME GwInv
               PROVE  GatewayHolds
    OBVIOUS
  <2>1. GatewayTypeOK
    BY TypeInvTypes DEF GwInv, GatewayTypeOK, GwStack, GwFaults
  <2>2. Cardinality(alarm) <= 1
    <3>1. alarm \in {{}, {"init"}, {"form"}}
      BY DEF GwInv, GwStack
    <3>2. Cardinality({}) = 0 /\ Cardinality({"init"}) = 1 /\ Cardinality({"form"}) = 1
      BY FS_EmptySet, FS_Singleton
    <3>3. Cardinality(alarm) \in {0, 1}
      BY <3>1, <3>2, Zenon
    <3>4. QED
      BY <3>3
  <2>3. OneRequest
    BY <2>2 DEF OneRequest, GwInv, GwStack
  <2>4. QED
    BY <2>1, <2>3 DEF GatewayHolds, GatewayInv, RouterInv, GwInv, OtStored
<1>2. QED
  BY <1>1, GatewayInvariant, PTL

LEMMA Formation ==
  GwInv /\ Steps2 /\ job' = "form" /\ job # "form" => net = "new"
<1> SUFFICES ASSUME GwInv, Steps2, job' = "form", job # "form"
             PROVE  net = "new"
  OBVIOUS
<1>1. ZbStep
  BY ZbHalves DEF ZbHalf, Keep, Down, JoinCloses, zbVars
<1>2. Started \/ \E m \in alarm : AlarmFires(m)
  BY <1>1 DEF ZbStep, SkipStartup, StartFails, StackForms, Formed, FormFails, Steered
<1>3. QED
  BY <1>2 DEF Started, AlarmFires, GwInv, GwStack

LEMMA Dataset == Steps2 /\ active # 0 => active' = active
BY DEF Steps2, GatewayRuns, RouterRuns, RouterNext, AppMain, ZbUp, ZbRadioFails, ZbSignal,
       RouterPowerLoss, AirChanges, OtBrInit, ReadConfig, ConnectStored, Connects,
       ConnectKconfig, SaveSsid, SavePassword, SaveAgain, AutoStarts, AutoStartCut,
       Restarts, otVars, mcVars, routerVars

\* A Zigbee network is formed only where the stack has none, also by a retry or
\* after a power loss between the formation and its signal; and a Thread network
\* that was started once is the one every later boot starts.
THEOREM NetworksAreKept == PowerUpSpec => NetworksKept
<1>1. GwInv /\ [GatewayRuns \/ RouterRuns]_mcVars
        => [job' = "form" /\ job # "form" => net = "new"]_gwVars
  BY Formation DEF Steps2
<1>2. [GatewayRuns \/ RouterRuns]_mcVars => [active # 0 => active' = active]_routerVars
  BY Dataset DEF Steps2
<1>3. QED
  BY <1>1, <1>2, GatewayInvariant, PTL DEF PowerUpSpec, NetworksKept, FormsOnce, ThreadKept

LEMMA Trusting ==
  GwInv /\ Steps2 /\ ready /\ ready' /\ ~verified /\ verified' => rcp \in Bootable /\ rcp = Current.ver
<1> SUFFICES ASSUME GwInv, Steps2, ready, ready', ~verified, verified'
             PROVE  rcp \in Bootable /\ rcp = Current.ver
  OBVIOUS
<1>1. RcpHalf
  BY Halves
<1>2. MainCall
  BY <1>1 DEF RcpHalf, Boot, UpdateInit, RadioUp, TryLoads, UpdateOpens, UpdateFails, UpdateDone,
              UpdateOfNothing, EnterMainLoop, Mark, MarkImageVerified, Restarted, Reboot, Restart,
              Went, Goes, NoCall, vars, storeVars
<1>3. MarkFlag(Main)
  <2>1. call[Main].pc # "flag"
    BY DEF GwInv, GwCalls
  <2>2. QED
    BY <1>2, <2>1 DEF MainCall, CallStep, SubmitFlag, MarkSeq, UnusableClear, NvsSet, NvsCommit,
                      NvsFail, At
<1>4. call[Main].pc = "mark" /\ Flagged(call[Main].val)
  BY <1>3 DEF MarkFlag, At
<1>5. QED
  BY <1>4 DEF GwInv, GwKnows

\* The gateway trusts an image that was not trusted only when the RCP was found
\* running it, at whatever step of the call it makes the power goes.
THEOREM TrustsTheRunning == PowerUpSpec => TrustsRunning
<1>1. GwInv /\ [GatewayRuns \/ RouterRuns]_mcVars
        => [ready /\ ready' /\ ~verified /\ verified' => rcp \in Bootable /\ rcp = Current.ver]_gwVars
  BY Trusting DEF Steps2
<1>2. QED
  BY <1>1, GatewayInvariant, PTL DEF PowerUpSpec, TrustsRunning
=============================================================================
