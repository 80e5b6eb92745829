-------------------------- MODULE RcpUpdateProofs --------------------------
(***************************************************************************)
(* Theorems about the update bookkeeping (RcpStore), for any set of        *)
(* callers, and about the life of an RCP image (RcpUpdate), for any        *)
(* versions, any number of downloads one after another and any number of   *)
(* faults: the composition keeps its types, every step of it is a step of  *)
(* the bookkeeping, and a border router that starts out working            *)
(* (InstallSpec) never gives up the image it would go back to.             *)
(***************************************************************************)
EXTENDS MCRcpInstall, TLAPS

-----------------------------------------------------------------------------
(* The bookkeeping, for any set of callers.  The induction carries what a  *)
(* call has already done at each of its steps: which store to the handle   *)
(* is still missing and what the int8 it is about to write stands for.     *)

\* The int8 encoding of (sequence number, flag): decoding undoes it.
LEMMA Encoding ==
  /\ \A s \in 0..1 : /\ WithFlag(s) \in Encoded /\ s \in Encoded
                     /\ Cleared(WithFlag(s)) = s /\ Cleared(s) = s
                     /\ Flagged(WithFlag(s)) = TRUE /\ Flagged(s) = FALSE
  /\ \A val \in Encoded : /\ Cleared(val) \in 0..1
                          /\ Flagged(val) \in BOOLEAN
                          /\ val # Absent
BY DEF WithFlag, Cleared, Flagged, Encoded, RCP_VERIFIED_FLAG, Absent

\* Whatever NVS holds, a boot selects one of the two slots.
LEMMA Loading ==
  \A val \in Encoded \cup {Absent} :
    /\ LoadedSeq(val) \in 0..1
    /\ LoadedVerified(val) \in BOOLEAN
<1> SUFFICES ASSUME NEW val \in Encoded \cup {Absent}
             PROVE  /\ LoadedSeq(val) \in 0..1
                    /\ LoadedVerified(val) \in BOOLEAN
  OBVIOUS
<1>1. LoadedSeq(val) \in 0..1
  BY Encoding DEF LoadedSeq
<1>2. LoadedVerified(val) \in BOOLEAN
  BY DEF LoadedVerified, Flagged
<1>3. QED
  BY <1>1, <1>2

LEMMA Selecting ==
  ASSUME NEW seq \in 0..1, NEW v \in BOOLEAN
  PROVE  SeqOf(seq, v) \in 0..1 /\ 1 - SeqOf(seq, v) \in 0..1
BY DEF SeqOf

-----------------------------------------------------------------------------
\* What the one call in progress has established at each step.
CallOK(c) ==
  /\ call[c].pc # "idle" => ready
  /\ call[c].pc = "mark" => call[c].val \in {UpdateSeq, WithFlag(UpdateSeq)}
  /\ call[c].pc = "clear" => ~verified
  /\ call[c].pc = "seq" => verified = Flagged(call[c].val)
  /\ call[c].pc \in {"set", "commit"} =>
       /\ update_seq = Cleared(call[c].val)
       /\ verified = Flagged(call[c].val)
  /\ call[c].pc = "commit" => staged = call[c].val

Agreement ==
  /\ stored = staged
  /\ update_seq = LoadedSeq(stored)
  /\ verified = LoadedVerified(stored)

SerialInv ==
  /\ \A c \in Callers : CallOK(c)
  /\ \A c, d \in Callers : call[c].pc # "idle" /\ call[d].pc # "idle" => c = d
  /\ ~ready => stored = staged
  /\ ready /\ Quiet /\ ret = "ok" => Agreement

StoreIInv == StoreTypeOK /\ (SerialCalls => SerialInv)

-----------------------------------------------------------------------------
LEMMA TypeStep == StoreTypeOK /\ [StoreNext]_storeVars => StoreTypeOK'
<1> SUFFICES ASSUME StoreTypeOK, [StoreNext]_storeVars
             PROVE  StoreTypeOK'
  OBVIOUS
<1> USE DEF StoreTypeOK, CallPCs
<1>1. CASE UpdateInit
  BY <1>1, Loading DEF UpdateInit
<1>2. CASE Restart
  <2>1. Idle \in [pc : CallPCs, val : Encoded]
    BY DEF Idle, Encoded
  <2>2. stored' \in Encoded \cup {Absent} /\ staged' = stored'
    BY <1>2 DEF Restart
  <2>3. call' \in [Callers -> [pc : CallPCs, val : Encoded]]
    BY <1>2, <2>1 DEF Restart
  <2>4. verified' \in BOOLEAN /\ ready' \in BOOLEAN
    BY <1>2 DEF Restart
  <2>5. update_seq' \in 0..1 /\ ret' \in {"ok", "error"}
    BY <1>2 DEF Restart
  <2>6. QED
    BY <2>2, <2>3, <2>4, <2>5
<1>3. ASSUME NEW c \in Callers, SubmitNewImage(c)
      PROVE  StoreTypeOK'
  <2>1. UpdateSeq \in 0..1 /\ NextUpdateSeq \in 0..1
    BY Selecting DEF UpdateSeq, NextUpdateSeq
  <2>2. QED
    BY <1>3, <2>1 DEF SubmitNewImage, Goto
<1>4. ASSUME NEW c \in Callers, NEW v \in BOOLEAN, MarkImageVerified(c, v)
      PROVE  StoreTypeOK'
  <2>1. UpdateSeq \in 0..1
    BY Selecting DEF UpdateSeq
  <2>2. (IF v THEN WithFlag(UpdateSeq) ELSE UpdateSeq) \in Encoded
    BY <2>1, Encoding
  <2>3. QED
    BY <1>4, <2>2 DEF MarkImageVerified, Step
<1>5. ASSUME NEW c \in Callers, MarkImageUnusable(c)
      PROVE  StoreTypeOK'
  BY <1>5 DEF MarkImageUnusable, Goto
<1>6. ASSUME NEW c \in Callers, CallStep(c)
      PROVE  StoreTypeOK'
  <2>1. CASE SubmitFlag(c)
    BY <2>1, Encoding DEF SubmitFlag, Step
  <2>2. CASE MarkFlag(c)
    BY <2>2, Encoding DEF MarkFlag, Goto
  <2>3. CASE MarkSeq(c)
    BY <2>3, Encoding DEF MarkSeq, Goto
  <2>4. CASE UnusableClear(c)
    BY <2>4, Encoding DEF UnusableClear, Step
  <2>5. CASE NvsSet(c)
    BY <2>5 DEF NvsSet, Goto
  <2>6. CASE NvsCommit(c)
    BY <2>6 DEF NvsCommit, Return, Idle, Encoded
  <2>7. QED
    BY <1>6, <2>1, <2>2, <2>3, <2>4, <2>5, <2>6 DEF CallStep
<1>7. ASSUME NEW c \in Callers, NvsFail(c)
      PROVE  StoreTypeOK'
  BY <1>7 DEF NvsFail, Return, Idle, Encoded
<1>8. CASE UNCHANGED storeVars
  BY <1>8 DEF storeVars
<1>9. QED
  BY <1>1, <1>2, <1>3, <1>4, <1>5, <1>6, <1>7, <1>8 DEF StoreNext

LEMMA StoreTypes == StoreInit => StoreTypeOK
<1> SUFFICES ASSUME StoreInit PROVE StoreTypeOK
  OBVIOUS
<1>1. verified \in BOOLEAN /\ ready \in BOOLEAN
  BY DEF StoreInit
<1>2. update_seq \in 0..1 /\ ret \in {"ok", "error"}
  BY DEF StoreInit
<1>3. stored \in Encoded \cup {Absent} /\ staged \in Encoded \cup {Absent}
  BY DEF StoreInit
<1>4. call \in [Callers -> [pc : CallPCs, val : Encoded]]
  BY DEF StoreInit, Idle, CallPCs, Encoded
<1>5. QED
  BY <1>1, <1>2, <1>3, <1>4 DEF StoreTypeOK

\* The handle, NVS and the calls stay in their types: the sequence number is
\* always one of the two slots.
THEOREM TypeCorrect == StoreSpec => []StoreTypeOK
BY StoreTypes, TypeStep, PTL DEF StoreSpec

-----------------------------------------------------------------------------
LEMMA SerialInit == StoreInit => SerialInv
BY DEF StoreInit, SerialInv, CallOK, Idle, Quiet

\* While one call runs nobody else starts one: with calls made one at a time,
\* the caller that steps is the only one that is not idle.
LEMMA OnlyOne ==
  ASSUME SerialInv, NEW c \in Callers, call[c].pc # "idle"
  PROVE  \A d \in Callers \ {c} : call[d].pc = "idle"
BY DEF SerialInv

Begins(c) == call[c].pc = "idle" /\ call'[c].pc # "idle"

\* A step preserves it if, for whatever reason, no call begins beside another.
LEMMA QuietStep ==
  ASSUME StoreTypeOK, SerialInv, [StoreNext]_storeVars,
         SerialCalls \/ \A c \in Callers : Begins(c) => Quiet
  PROVE  SerialInv'
<1>0. \A c \in Callers : call[c] \in [pc : CallPCs, val : Encoded]
  BY DEF StoreTypeOK
<1>1. CASE UpdateInit
  <2>1. \A c \in Callers : call[c].pc = "idle" /\ call'[c] = call[c]
    BY <1>1 DEF UpdateInit, SerialInv, CallOK
  <2>2. /\ stored' = staged' /\ stored' = staged
        /\ update_seq' = LoadedSeq(staged)
        /\ verified' = LoadedVerified(staged)
        /\ ready'
    BY <1>1 DEF UpdateInit, SerialInv
  <2>3. Agreement'
    BY <2>2 DEF Agreement
  <2>4. QED
    BY <2>1, <2>2, <2>3 DEF SerialInv, CallOK
<1>2. CASE Restart
  BY <1>2 DEF Restart, SerialInv, CallOK, Quiet, Idle
<1>3. ASSUME NEW c \in Callers, SubmitNewImage(c)
      PROVE  SerialInv'
  <2>1. Quiet
    BY <1>3 DEF SubmitNewImage, CanCall, Goto, Begins, Quiet, StoreTypeOK
  <2>2. QED
    BY <1>3, <2>1 DEF SubmitNewImage, CanCall, Goto, SerialInv, CallOK, Quiet, StoreTypeOK
<1>4. ASSUME NEW c \in Callers, NEW v \in BOOLEAN, MarkImageVerified(c, v)
      PROVE  SerialInv'
  <2>0. Quiet
    BY <1>4 DEF MarkImageVerified, CanCall, Step, Begins, Quiet, StoreTypeOK
  <2>1. /\ ready' /\ ready
        /\ UNCHANGED <<update_seq, verified, stored, staged, ret>>
        /\ UpdateSeq' = UpdateSeq
    BY <1>4 DEF MarkImageVerified, CanCall, UpdateSeq
  <2>2. \A d \in Callers \ {c} : call'[d].pc = "idle"
    BY <1>4, <2>0 DEF MarkImageVerified, Step, Quiet, StoreTypeOK
  <2>3. /\ call'[c].pc = "mark"
        /\ call'[c].val \in {UpdateSeq, WithFlag(UpdateSeq)}
    BY <1>4 DEF MarkImageVerified, Step, StoreTypeOK
  <2>4. QED
    BY <2>1, <2>2, <2>3 DEF SerialInv, CallOK, Quiet
<1>5. ASSUME NEW c \in Callers, MarkImageUnusable(c)
      PROVE  SerialInv'
  <2>1. Quiet
    BY <1>5 DEF MarkImageUnusable, CanCall, Goto, Begins, Quiet, StoreTypeOK
  <2>2. QED
    BY <1>5, <2>1 DEF MarkImageUnusable, CanCall, Goto, SerialInv, CallOK, Quiet, StoreTypeOK
<1>6. ASSUME NEW c \in Callers, CallStep(c)
      PROVE  SerialInv'
  <2>1. CASE SubmitFlag(c)
    <3>1. /\ update_seq = Cleared(WithFlag(update_seq))
          /\ Flagged(WithFlag(update_seq)) = TRUE
      BY Encoding DEF StoreTypeOK
    <3>2. QED
      BY <2>1, <3>1, OnlyOne DEF SubmitFlag, At, Step, SerialInv, CallOK, Quiet, StoreTypeOK
  <2>2. CASE MarkFlag(c)
    BY <2>2, OnlyOne DEF MarkFlag, At, Goto, SerialInv, CallOK, Quiet, StoreTypeOK
  <2>3. CASE MarkSeq(c)
    BY <2>3, OnlyOne DEF MarkSeq, At, Goto, SerialInv, CallOK, Quiet, StoreTypeOK
  <2>4. CASE UnusableClear(c)
    <3>1. /\ update_seq = Cleared(Cleared(update_seq))
          /\ Flagged(Cleared(update_seq)) = FALSE
      BY Encoding DEF StoreTypeOK
    <3>2. QED
      BY <2>4, <3>1, OnlyOne DEF UnusableClear, At, Step, SerialInv, CallOK, Quiet, StoreTypeOK
  <2>5. CASE NvsSet(c)
    BY <2>5, OnlyOne DEF NvsSet, At, Goto, SerialInv, CallOK, Quiet, StoreTypeOK
  <2>6. CASE NvsCommit(c)
    <3>1. /\ LoadedSeq(staged) = Cleared(call[c].val)
          /\ LoadedVerified(staged) = Flagged(call[c].val)
      BY <2>6, <1>0, Encoding DEF NvsCommit, At, SerialInv, CallOK, LoadedSeq, LoadedVerified
    <3>2. QED
      BY <2>6, <3>1, OnlyOne
         DEF NvsCommit, At, Return, Idle, SerialInv, CallOK, Quiet, Agreement, StoreTypeOK
  <2>7. QED
    BY <1>6, <2>1, <2>2, <2>3, <2>4, <2>5, <2>6 DEF CallStep
<1>7. ASSUME NEW c \in Callers, NvsFail(c)
      PROVE  SerialInv'
  <2>1. /\ ret' = "error"
        /\ call' = [call EXCEPT ![c] = Idle]
        /\ call[c].pc # "idle"
        /\ UNCHANGED <<update_seq, verified, ready, stored, staged>>
    BY <1>7 DEF NvsFail, At, Return
  <2>2. \A d \in Callers : call'[d].pc = "idle"
    BY <2>1, OnlyOne DEF Idle, StoreTypeOK
  <2>3. ready'
    BY <2>1 DEF SerialInv, CallOK
  <2>4. QED
    BY <2>1, <2>2, <2>3 DEF SerialInv, CallOK
<1>8. CASE UNCHANGED storeVars
  BY <1>8 DEF storeVars, SerialInv, CallOK, Agreement, Quiet, UpdateSeq
<1>9. QED
  BY <1>1, <1>2, <1>3, <1>4, <1>5, <1>6, <1>7, <1>8 DEF StoreNext

LEMMA SerialStep ==
  SerialCalls /\ StoreTypeOK /\ SerialInv /\ [StoreNext]_storeVars => SerialInv'
BY QuietStep

SerialProperty == SerialCalls => SerialInv

LEMMA Invariant == StoreSpec => [](StoreTypeOK /\ SerialProperty)
<1>1. StoreInit => SerialProperty
  BY SerialInit DEF SerialProperty
<1>2. StoreTypeOK /\ SerialProperty /\ [StoreNext]_storeVars => SerialProperty'
  BY SerialStep DEF SerialProperty
<1>3. QED
  BY <1>1, <1>2, TypeCorrect, PTL DEF StoreSpec

\* RAM and NVS agree on the current image whenever a call has succeeded.
THEOREM HandleAgreement == StoreSpec => []HandleAgrees
<1>1. SerialProperty => HandleAgrees
  BY DEF SerialProperty, SerialInv, HandleAgrees, Agreement
<1>2. QED
  BY <1>1, Invariant, PTL

-----------------------------------------------------------------------------
\* What the handle stands for at each step of a call.
LEMMA MemBarDown == ~ready => memBar = DiskChoice(stored)
BY DEF memBar

LEMMA MemBarHandle ==
  ASSUME ready, \A c \in Callers : call[c].pc \notin {"flag", "seq"}
  PROVE  memBar = ChoiceOf(update_seq, verified)
BY DEF memBar, At

LEMMA MemBarFlag ==
  ASSUME ready, NEW c \in Callers, call[c].pc = "flag"
  PROVE  memBar = ChoiceOf(update_seq, TRUE)
BY DEF memBar, At

LEMMA MemBarSeq ==
  ASSUME SerialInv, ready, NEW c \in Callers, call[c].pc = "seq"
  PROVE  memBar = DiskChoice(call[c].val)
<1>1. \A d \in Callers : call[d].pc \in {"flag", "seq"} => d = c
  BY DEF SerialInv
<1>2. InFlight("seq") = c
  BY <1>1 DEF InFlight
<1>3. QED
  BY <1>1, <1>2 DEF memBar, At

\* An int8 that is an encoding decodes to the choice it was made from.
LEMMA DiskChoiceOf ==
  /\ \A val \in Encoded : DiskChoice(val) = ChoiceOf(Cleared(val), Flagged(val))
  /\ \A s \in 0..1 : /\ DiskChoice(WithFlag(s)) = ChoiceOf(s, TRUE)
                     /\ DiskChoice(s) = ChoiceOf(s, FALSE)
<1>1. ASSUME NEW val \in Encoded
      PROVE  DiskChoice(val) = ChoiceOf(Cleared(val), Flagged(val))
  BY Encoding DEF DiskChoice, LoadedSeq, LoadedVerified
<1>2. ASSUME NEW s \in 0..1
      PROVE  /\ DiskChoice(WithFlag(s)) = ChoiceOf(s, TRUE)
             /\ DiskChoice(s) = ChoiceOf(s, FALSE)
  BY <1>1, Encoding
<1>3. QED
  BY <1>1, <1>2

-----------------------------------------------------------------------------
diskBar == {DiskChoice(stored), DiskChoice(staged)}

\* Every step of a call is a step of the abstract register or changes nothing
\* it shows.
LEMMA StepRefines ==
  ASSUME SerialCalls, StoreTypeOK, SerialInv, [StoreNext]_storeVars, SerialInv'
  PROVE  [Abstract!Next]_<<memBar, diskBar>>
<1> USE DEF Abstract!Next, diskBar
<1>0. /\ \A c \in Callers : call[c] \in [pc : CallPCs, val : Encoded]
      /\ DOMAIN call = Callers
  BY DEF StoreTypeOK
<1>1. CASE UpdateInit
  <2>1. /\ \A c \in Callers : call'[c].pc = "idle"
        /\ memBar = DiskChoice(stored) /\ stored = staged
        /\ UNCHANGED <<stored, staged>>
    BY <1>1, MemBarDown DEF UpdateInit, SerialInv, CallOK
  <2>2. memBar' = ChoiceOf(update_seq', verified')
    BY <1>1, <2>1 DEF UpdateInit, memBar, At
  <2>3. memBar' = DiskChoice(staged)
    BY <1>1, <2>2 DEF UpdateInit, DiskChoice
  <2>4. QED
    BY <2>1, <2>3
<1>2. CASE Restart
  <2>1. memBar' = DiskChoice(stored') /\ staged' = stored' /\ stored' \in {stored, staged}
    BY <1>2 DEF Restart, memBar
  <2>2. Abstract!Crash
    BY <2>1 DEF Abstract!Crash
  <2>3. QED
    BY <2>2
<1>3. ASSUME NEW c \in Callers, SubmitNewImage(c)
      PROVE  Abstract!Install
  <2>1. ready /\ \A d \in Callers : call[d].pc = "idle"
    BY <1>3 DEF SubmitNewImage, CanCall
  <2>2. memBar = ChoiceOf(update_seq, verified)
    BY <2>1, MemBarHandle
  <2>3. memBar' = ChoiceOf(update_seq', TRUE)
    BY <1>3, <1>0 DEF SubmitNewImage, CanCall, Goto, memBar, At
  <2>4. QED
    BY <1>3, <2>2, <2>3 DEF Abstract!Install, Abstract!Become, SubmitNewImage,
       ChoiceOf, NextUpdateSeq, UpdateSeq, SeqOf
<1>4. ASSUME NEW c \in Callers, NEW v \in BOOLEAN, MarkImageVerified(c, v)
      PROVE  UNCHANGED <<memBar, diskBar>>
  <2>1. ready /\ (\A d \in Callers : call[d].pc = "idle")
    BY <1>4 DEF MarkImageVerified, CanCall
  <2>2. memBar = ChoiceOf(update_seq, verified)
    BY <2>1, MemBarHandle
  <2>3. memBar' = ChoiceOf(update_seq, verified)
    BY <1>4, <1>0, <2>1 DEF MarkImageVerified, Step, memBar, At
  <2>4. QED
    BY <1>4, <2>2, <2>3 DEF MarkImageVerified
<1>5. ASSUME NEW c \in Callers, MarkImageUnusable(c)
      PROVE  Abstract!FailOver
  <2>1. ready /\ (\A d \in Callers : call[d].pc = "idle")
    BY <1>5 DEF MarkImageUnusable, CanCall
  <2>2. memBar = ChoiceOf(update_seq, verified)
    BY <2>1, MemBarHandle
  <2>3. memBar' = ChoiceOf(update_seq, FALSE)
    BY <1>5, <1>0, <2>1 DEF MarkImageUnusable, Goto, memBar, At
  <2>4. memBar'.trusted = FALSE /\ memBar'.index = 1 - update_seq
    BY <2>3 DEF ChoiceOf, SeqOf
  <2>5. memBar.trusted = verified /\ memBar.index = SeqOf(update_seq, verified)
    BY <2>2 DEF ChoiceOf
  <2>6. (IF memBar.trusted THEN 1 - memBar.index ELSE memBar.index) = 1 - update_seq
    BY <2>5 DEF SeqOf, StoreTypeOK
  <2>7. QED
    BY <1>5, <2>3, <2>6 DEF Abstract!FailOver, Abstract!Become, MarkImageUnusable,
       ChoiceOf, SeqOf
<1>6. ASSUME NEW c \in Callers, CallStep(c)
      PROVE  [Abstract!Next]_<<memBar, diskBar>>
  <2>0. /\ call[c].pc # "idle"
        /\ ready
        /\ \A d \in Callers \ {c} : call[d].pc = "idle"
    <3>1. call[c].pc # "idle"
      BY <1>6 DEF CallStep, SubmitFlag, MarkFlag, MarkSeq, UnusableClear, NvsSet, NvsCommit, At
    <3>2. QED
      BY <3>1, OnlyOne DEF SerialInv, CallOK
  <2>1. CASE SubmitFlag(c)
    <3>1. memBar = ChoiceOf(update_seq, TRUE)
      BY <2>0, <2>1, MemBarFlag DEF SubmitFlag, At
    <3>2. memBar' = ChoiceOf(update_seq, TRUE)
      BY <2>0, <2>1, <1>0 DEF SubmitFlag, Step, memBar, At
    <3>3. QED
      BY <2>1, <3>1, <3>2 DEF SubmitFlag
  <2>2. CASE MarkFlag(c)
    <3>1. /\ memBar = ChoiceOf(update_seq, verified)
          /\ call[c].val \in {UpdateSeq, WithFlag(UpdateSeq)}
      BY <2>0, <2>2, MemBarHandle DEF MarkFlag, At, SerialInv, CallOK
    <3>2. call'[c].pc = "seq" /\ call'[c].val = call[c].val /\ ready'
      BY <2>0, <2>2, <1>0 DEF MarkFlag, Goto
    <3>3. \A d \in Callers : call'[d].pc \in {"flag", "seq"} => d = c
      BY <2>0, <2>2, <1>0 DEF MarkFlag, Goto
    <3>4. memBar' = DiskChoice(call[c].val)
      <4>1. InFlight("seq")' = c
        BY <3>2, <3>3 DEF InFlight
      <4>2. QED
        BY <3>2, <3>3, <4>1 DEF memBar, At
    <3>5. UpdateSeq \in 0..1 /\ memBar.index = UpdateSeq
      BY <3>1, Selecting DEF UpdateSeq, ChoiceOf, StoreTypeOK
    <3>6. CASE call[c].val = WithFlag(UpdateSeq)
      <4>1. memBar' = [index |-> UpdateSeq, trusted |-> TRUE]
        BY <3>4, <3>5, <3>6, DiskChoiceOf DEF ChoiceOf, SeqOf
      <4>2. Abstract!Confirm
        BY <2>2, <3>5, <4>1 DEF Abstract!Confirm, Abstract!Become, MarkFlag
      <4>3. QED
        BY <4>2
    <3>7. CASE call[c].val = UpdateSeq
      <4>1. memBar' = [index |-> 1 - UpdateSeq, trusted |-> FALSE]
        BY <3>4, <3>5, <3>7, DiskChoiceOf DEF ChoiceOf, SeqOf
      <4>2. Abstract!Reject
        BY <2>2, <3>5, <4>1 DEF Abstract!Reject, Abstract!Become, MarkFlag
      <4>3. QED
        BY <4>2
    <3>8. QED
      BY <3>1, <3>6, <3>7
  <2>3. CASE MarkSeq(c)
    <3>1. memBar = DiskChoice(call[c].val)
      BY <2>0, <2>3, MemBarSeq DEF MarkSeq, At
    <3>2. memBar = ChoiceOf(Cleared(call[c].val), Flagged(call[c].val))
      BY <1>0, <3>1, DiskChoiceOf
    <3>3. memBar' = ChoiceOf(update_seq', verified)
      BY <2>0, <2>3, <1>0 DEF MarkSeq, Goto, memBar, At
    <3>4. verified = Flagged(call[c].val)
      BY <2>3 DEF MarkSeq, At, SerialInv, CallOK
    <3>5. QED
      BY <2>3, <3>2, <3>3, <3>4 DEF MarkSeq
  <2>4. CASE UnusableClear(c)
    <3>1. memBar = ChoiceOf(update_seq, verified)
      BY <2>0, <2>4, MemBarHandle DEF UnusableClear, At
    <3>2. memBar' = ChoiceOf(update_seq, verified)
      BY <2>0, <2>4, <1>0 DEF UnusableClear, Step, memBar, At
    <3>3. QED
      BY <2>4, <3>1, <3>2 DEF UnusableClear
  <2>5. CASE NvsSet(c)
    <3>1. memBar = ChoiceOf(update_seq, verified)
      BY <2>0, <2>5, MemBarHandle DEF NvsSet, At
    <3>2. memBar' = ChoiceOf(update_seq, verified)
      BY <2>0, <2>5, <1>0 DEF NvsSet, Goto, memBar, At
    <3>3. /\ update_seq = Cleared(call[c].val)
          /\ verified = Flagged(call[c].val)
      BY <2>5 DEF NvsSet, At, SerialInv, CallOK
    <3>4. DiskChoice(staged') = memBar
      BY <1>0, <2>5, <3>1, <3>3, DiskChoiceOf DEF NvsSet
    <3>5. Abstract!Stage
      BY <2>5, <3>1, <3>2, <3>4 DEF Abstract!Stage, NvsSet
    <3>6. QED
      BY <3>5
  <2>6. CASE NvsCommit(c)
    <3>1. memBar = ChoiceOf(update_seq, verified)
      BY <2>0, <2>6, MemBarHandle DEF NvsCommit, At
    <3>2. memBar' = ChoiceOf(update_seq, verified)
      BY <2>0, <2>6, <1>0 DEF NvsCommit, Return, Idle, memBar, At
    <3>3. /\ staged = call[c].val
          /\ update_seq = Cleared(call[c].val)
          /\ verified = Flagged(call[c].val)
      BY <2>6 DEF NvsCommit, At, SerialInv, CallOK
    <3>4. DiskChoice(staged) = memBar
      BY <1>0, <3>1, <3>3, DiskChoiceOf
    <3>5. Abstract!Persist
      BY <2>6, <3>1, <3>2, <3>4 DEF Abstract!Persist, NvsCommit
    <3>6. QED
      BY <3>5
  <2>7. QED
    BY <1>6, <2>1, <2>2, <2>3, <2>4, <2>5, <2>6 DEF CallStep
<1>7. ASSUME NEW c \in Callers, NvsFail(c)
      PROVE  UNCHANGED <<memBar, diskBar>>
  <2>1. call[c].pc \in {"set", "commit"} /\ ready
    BY <1>7 DEF NvsFail, At, SerialInv, CallOK
  <2>2. \A d \in Callers \ {c} : call[d].pc = "idle"
    BY <2>1, OnlyOne
  <2>3. memBar = ChoiceOf(update_seq, verified)
    BY <2>1, <2>2, MemBarHandle
  <2>4. memBar' = ChoiceOf(update_seq, verified)
    BY <1>7, <1>0, <2>1, <2>2 DEF NvsFail, Return, Idle, memBar, At
  <2>5. QED
    BY <1>7, <2>3, <2>4 DEF NvsFail
<1>8. CASE UNCHANGED storeVars
  BY <1>8 DEF storeVars, memBar, At, InFlight
<1>9. QED
  BY <1>1, <1>2, <1>3, <1>4, <1>5, <1>6, <1>7, <1>8 DEF StoreNext

\* Calls made one at a time implement the register of RcpChoice.
THEOREM Refinement == ASSUME SerialCalls PROVE StoreSpec => ImplementsChoice
<1>1. StoreInit => Abstract!Init
  <2> SUFFICES ASSUME StoreInit PROVE Abstract!Init
    OBVIOUS
  <2>1. memBar = DiskChoice(stored) /\ diskBar = {memBar}
    BY MemBarDown DEF StoreInit, diskBar
  <2>2. memBar \in Abstract!Choice
    <3>1. LoadedSeq(stored) \in 0..1 /\ LoadedVerified(stored) \in BOOLEAN
      BY Loading DEF StoreInit
    <3>2. SeqOf(LoadedSeq(stored), LoadedVerified(stored)) \in 0..1
      BY <3>1, Selecting
    <3>3. QED
      BY <2>1, <3>1, <3>2 DEF DiskChoice, ChoiceOf, Abstract!Choice
  <2>3. QED
    BY <2>1, <2>2 DEF Abstract!Init, diskBar
<1>2. StoreTypeOK /\ SerialProperty /\ [StoreNext]_storeVars /\ SerialProperty'
        => [Abstract!Next]_<<memBar, diskBar>>
  BY StepRefines DEF SerialProperty
<1>3. QED
  BY <1>1, <1>2, Invariant, PTL DEF StoreSpec, ImplementsChoice, Abstract!Spec, diskBar

-----------------------------------------------------------------------------
(* The composition and the bookkeeping.                                    *)

LEMMA CallersAre == Main \in Callers /\ \A d \in Downloads : d \in Callers
BY UpdateAssumption

LEMMA RebootRestarts == Reboot => Restart
BY DEF Reboot

LEMMA StoreSteps == [UpdateNext]_vars => [StoreNext]_storeVars
<1> SUFFICES ASSUME [UpdateNext]_vars
             PROVE  [StoreNext]_storeVars
  OBVIOUS
<1> USE CallersAre, RebootRestarts
<1>1. CASE MainStep
  <2>1. CASE Boot
    BY <2>1 DEF Boot, StoreNext
  <2>2. CASE RadioUp \/ RadioFails \/ FailureLoads \/ TryLoads \/ UpdateOpens
    BY <2>2 DEF RadioUp, RadioFails, FailureLoads, TryLoads, UpdateOpens, NoCall
  <2>3. CASE UpdateFails \/ UpdateDone \/ UpdateOfNothing \/ EnterMainLoop
    BY <2>3 DEF UpdateFails, UpdateDone, UpdateOfNothing, EnterMainLoop, NoCall
  <2>4. CASE HandleFailure
    BY <2>4 DEF HandleFailure, StoreNext
  <2>5. CASE UpdateAborts
    BY <2>5 DEF UpdateAborts, StoreNext
  <2>6. CASE Mark
    BY <2>6 DEF Mark, StoreNext
  <2>7. CASE AfterUpdate
    BY <2>7 DEF AfterUpdate, StoreNext, NoCall
  <2>8. CASE MainCall
    BY <2>8 DEF MainCall, StoreNext
  <2>9. QED
    BY <1>1, <2>1, <2>2, <2>3, <2>4, <2>5, <2>6, <2>7, <2>8 DEF MainStep
<1>2. CASE UserUpdate
  BY <1>2 DEF UserUpdate, NoCall
<1>3. CASE PowerLoss
  BY <1>3 DEF PowerLoss, StoreNext
<1>4. ASSUME NEW d \in Downloads, DlStep(d)
      PROVE  [StoreNext]_storeVars
  <2>1. CASE OpenSpare(d) \/ WriteSpare(d) \/ DownloadFails(d)
    BY <2>1 DEF OpenSpare, WriteSpare, DownloadFails, NoCall
  <2>2. CASE Submit(d)
    BY <2>2 DEF Submit, StoreNext
  <2>3. CASE DownloadEnds(d)
    BY <2>3 DEF DownloadEnds, StoreNext, CallStep
  <2>4. CASE DownloadRestarts(d)
    BY <2>4 DEF DownloadRestarts, StoreNext
  <2>5. CASE DlCall(d)
    BY <2>5 DEF DlCall, StoreNext, CallStep
  <2>6. QED
    BY <1>4, <2>1, <2>2, <2>3, <2>4, <2>5 DEF DlStep
<1>5. ASSUME NEW d \in Downloads, NEW v \in Versions, StartDownload(d, v)
      PROVE  [StoreNext]_storeVars
  BY <1>5 DEF StartDownload, NoCall
<1>6. CASE UNCHANGED vars
  BY <1>6 DEF vars
<1>7. QED
  BY <1>1, <1>2, <1>3, <1>4, <1>5, <1>6 DEF UpdateNext

\* The OpenThread task and the downloads use the bookkeeping only through its
\* API: every behaviour of the composition is one of RcpStore.
THEOREM UpdateUsesStore == UpdateSpec => StoreSpec
<1>1. UpdateInitState => StoreInit
  BY DEF UpdateInitState
<1>2. QED
  BY <1>1, StoreSteps, PTL DEF UpdateSpec, StoreSpec

\* So the handle and NVS agree in the composition ...
THEOREM UpdateHandle == UpdateSpec => []HandleAgrees
BY UpdateUsesStore, HandleAgreement, PTL

\* ... and with calls one at a time it implements the write-behind register.
THEOREM UpdateRegister == ASSUME SerialCalls PROVE UpdateSpec => ImplementsChoice
BY UpdateUsesStore, Refinement, PTL

-----------------------------------------------------------------------------
(* Types.                                                                  *)

DlType == [pc : DlPCs, slot : 0..1, img : Image]

TypeFile   == file \in [0..1 -> Image]
TypeRcp    == rcp \in Versions \cup {Torn}
TypeMain   == pc \in PCs /\ image \in Image /\ cli \in BOOLEAN
TypeDl     == dl \in [Downloads -> DlType]
TypeBounds == faults \in 0..MaxFaults /\ started \in 0..MaxDownloads
Types      == TypeFile /\ TypeRcp /\ TypeMain /\ TypeDl /\ TypeBounds

LEMMA NextParts ==
  /\ Next2("empty") = "header"
  /\ Next2("header") = "most"
  /\ Next2("most") = "whole"
BY DEF Next2

LEMMA ImageFields ==
  ASSUME NEW f \in Image
  PROVE  f.part \in Parts /\ f.ver \in Versions /\ f.by \in Downloads \cup {Main, Mixed}
BY DEF Image

LEMMA IdleDownload == ASSUME Versions # {} PROVE DlIdle \in DlType /\ DlIdle.img \in Image
<1>1. (CHOOSE v \in Versions : TRUE) \in Versions
  OBVIOUS
<1>2. DlIdle.img \in Image
  BY <1>1 DEF DlIdle, Image, Parts
<1>3. QED
  BY <1>2 DEF DlIdle, DlType, DlPCs

LEMMA Slots == ASSUME StoreTypeOK PROVE UpdateSeq \in 0..1 /\ NextUpdateSeq \in 0..1
BY Selecting DEF UpdateSeq, NextUpdateSeq, StoreTypeOK

\* What a download has written after its next call.
LEMMA Progress ==
  ASSUME NEW f \in Image, f.part \in {"empty", "header", "most"}
  PROVE  LET g == [f EXCEPT !.part = Next2(@)]
         IN  g \in Image /\ g.ver = f.ver /\ g.by = f.by /\ g.part = Next2(f.part)
<1>1. Next2(f.part) \in Parts
  BY NextParts DEF Parts
<1>2. QED
  BY <1>1, ImageFields DEF Image

LEMMA Mixing ==
  ASSUME NEW f \in Image
  PROVE  [f EXCEPT !.part = "most", !.by = Mixed] \in Image
<1>1. "most" \in Parts
  BY DEF Parts
<1>2. QED
  BY <1>1, ImageFields DEF Image

-----------------------------------------------------------------------------
(* Which step changes what.                                                *)

USE DEF UpdateNext, MainStep, Boot, RadioUp, RadioFails, HandleFailure, FailureLoads,
        TryLoads, UpdateFails, UpdateOfNothing, UpdateAborts, Mark, AfterUpdate,
        EnterMainLoop, MainCall, UserUpdate, PowerLoss, Reboot, DlStep, DownloadFails,
        Submit, DownloadEnds, DownloadRestarts, DlCall, Become, MainOnly, DlOnly,
        fileVars, mainVars, bounds, vars, NoFault, Fault, DlGoto

LEMMA FileWrites ==
  [UpdateNext]_vars => file' = file \/ \E d \in Downloads : OpenSpare(d) \/ WriteSpare(d)
BY DEF UpdateOpens, UpdateDone, StartDownload

LEMMA RcpWrites == [UpdateNext]_vars => rcp' = rcp \/ UpdateOpens \/ UpdateDone
BY DEF OpenSpare, WriteSpare, StartDownload

LEMMA ImageWrites == [UpdateNext]_vars => image' = image \/ UpdateOpens
BY DEF OpenSpare, WriteSpare, StartDownload, UpdateDone

LEMMA MainWrites ==
  [UpdateNext]_vars /\ pc \in PCs /\ cli \in BOOLEAN => pc' \in PCs /\ cli' \in BOOLEAN
<1> SUFFICES ASSUME [UpdateNext]_vars, pc \in PCs, cli \in BOOLEAN
             PROVE  pc' \in PCs /\ cli' \in BOOLEAN
  OBVIOUS
<1>1. pc' \in PCs
  BY DEF PCs, OpenSpare, WriteSpare, StartDownload, UpdateOpens, UpdateDone
<1>2. cli' \in BOOLEAN
  BY DEF OpenSpare, WriteSpare, StartDownload, UpdateOpens, UpdateDone
<1>3. QED
  BY <1>1, <1>2

\* A download moves on, ends, or goes down with a restart.
DlMoves(d) ==
  \/ OpenSpare(d) \/ WriteSpare(d) \/ \E v \in Versions : StartDownload(d, v)
  \/ dl[d].pc = "finished" /\ DlGoto(d, "submitting")
  \/ dl[d].pc = "submitting" /\ DlGoto(d, "restart")
  \/ dl' = [dl EXCEPT ![d] = DlIdle]

LEMMA DlWrites ==
  [UpdateNext]_vars => \/ dl' = dl
                       \/ dl' = [d \in Downloads |-> DlIdle]
                       \/ \E d \in Downloads : DlMoves(d)
BY DEF UpdateOpens, UpdateDone, DlMoves

LEMMA BoundWrites ==
  [UpdateNext]_vars =>
    /\ faults' = faults \/ (faults < MaxFaults /\ faults' = faults + 1)
    /\ started' = started \/ (started < MaxDownloads /\ started' = started + 1)
<1> SUFFICES ASSUME [UpdateNext]_vars
             PROVE  /\ faults' = faults \/ (faults < MaxFaults /\ faults' = faults + 1)
                    /\ started' = started \/ (started < MaxDownloads /\ started' = started + 1)
  OBVIOUS
<1>1. faults' = faults \/ (faults < MaxFaults /\ faults' = faults + 1)
  BY DEF OpenSpare, WriteSpare, StartDownload, UpdateOpens, UpdateDone
<1>2. started' = started \/ (started < MaxDownloads /\ started' = started + 1)
  BY DEF OpenSpare, WriteSpare, StartDownload, UpdateOpens, UpdateDone
<1>3. QED
  BY <1>1, <1>2

HIDE DEF UpdateNext, MainStep, Boot, RadioUp, RadioFails, HandleFailure, FailureLoads,
        TryLoads, UpdateFails, UpdateOfNothing, UpdateAborts, Mark, AfterUpdate,
        EnterMainLoop, MainCall, UserUpdate, PowerLoss, Reboot, DlStep, DownloadFails,
        Submit, DownloadEnds, DownloadRestarts, DlCall, Become, MainOnly, DlOnly,
        fileVars, mainVars, bounds, vars, NoFault, Fault, DlGoto

-----------------------------------------------------------------------------
(* Type correctness, however many downloads run and whatever fails.        *)

\* How much of the file a download has written at each of its steps.
Growing == \A d \in Downloads :
  /\ dl[d].pc = "begun" => dl[d].img.part = "empty"
  /\ dl[d].pc = "writing" => dl[d].img.part \in {"empty", "header", "most"}

TypeInv == StoreTypeOK /\ Types /\ Growing

LEMMA TypeInvTypes == TypeInv => UpdateTypeOK
BY DEF TypeInv, Types, TypeFile, TypeRcp, TypeMain, TypeDl, TypeBounds, DlType, UpdateTypeOK

LEMMA DlFields ==
  ASSUME TypeInv, NEW d \in Downloads
  PROVE  /\ dl[d] \in DlType
         /\ dl[d].pc \in DlPCs
         /\ dl[d].slot \in 0..1
         /\ dl[d].img \in Image
BY DEF TypeInv, Types, TypeDl, DlType

LEMMA NextImage ==
  ASSUME TypeInv, NEW d \in Downloads, dl[d].pc = "writing"
  PROVE  LET new == [dl[d].img EXCEPT !.part = Next2(@)]
         IN  /\ new \in Image
             /\ new.part = Next2(dl[d].img.part)
             /\ new.ver = dl[d].img.ver
             /\ new.by = dl[d].img.by
<1> DEFINE f == dl[d].img
<1>1. f \in Image /\ f.part \in {"empty", "header", "most"}
  BY DlFields DEF TypeInv, Growing
<1> HIDE DEF f
<1>2. LET g == [f EXCEPT !.part = Next2(@)]
      IN  g \in Image /\ g.ver = f.ver /\ g.by = f.by /\ g.part = Next2(f.part)
  BY <1>1, Progress
<1>3. QED
  BY <1>2 DEF f

LEMMA FileTyped == TypeInv /\ [UpdateNext]_vars => TypeFile'
<1> SUFFICES ASSUME TypeInv, [UpdateNext]_vars
             PROVE  TypeFile'
  OBVIOUS
<1>0. file \in [0..1 -> Image]
  BY DEF TypeInv, Types, TypeFile
<1>1. CASE file' = file
  BY <1>0, <1>1 DEF TypeFile
<1>2. ASSUME NEW d \in Downloads, OpenSpare(d)
      PROVE  TypeFile'
  <2>1. dl[d].img \in Image /\ NextUpdateSeq \in 0..1
    BY DlFields, Slots DEF TypeInv
  <2>2. file' = [file EXCEPT ![NextUpdateSeq] = dl[d].img]
    BY <1>2 DEF OpenSpare
  <2>3. QED
    BY <1>0, <2>1, <2>2 DEF TypeFile
<1>3. ASSUME NEW d \in Downloads, WriteSpare(d)
      PROVE  TypeFile'
  <2> DEFINE new == [dl[d].img EXCEPT !.part = Next2(@)]
             mix == [file[dl[d].slot] EXCEPT !.part = "most", !.by = Mixed]
  <2>1. dl[d].pc = "writing" /\ dl[d].slot \in 0..1
    BY <1>3, DlFields DEF WriteSpare
  <2>2. new \in Image
    BY <2>1, NextImage
  <2>3. mix \in Image
    <3> DEFINE f == file[dl[d].slot]
    <3>1. f \in Image
      BY <1>0, <2>1
    <3> HIDE DEF f
    <3>2. [f EXCEPT !.part = "most", !.by = Mixed] \in Image
      BY <3>1, Mixing
    <3>3. QED
      BY <3>2 DEF f
  <2>4. file' = [file EXCEPT ![dl[d].slot] = IF @.by = d THEN new ELSE mix]
    BY <1>3 DEF WriteSpare
  <2> HIDE DEF new, mix
  <2>5. QED
    BY <1>0, <2>1, <2>2, <2>3, <2>4 DEF TypeFile
<1>4. QED
  BY <1>1, <1>2, <1>3, FileWrites

LEMMA RcpTyped == TypeInv /\ [UpdateNext]_vars => TypeRcp'
<1> SUFFICES ASSUME TypeInv, [UpdateNext]_vars
             PROVE  TypeRcp'
  OBVIOUS
<1>0. rcp \in Versions \cup {Torn} /\ image \in Image
  BY DEF TypeInv, Types, TypeRcp, TypeMain
<1>1. CASE rcp' = rcp
  BY <1>0, <1>1 DEF TypeRcp
<1>2. CASE UpdateOpens
  BY <1>0, <1>2 DEF UpdateOpens, TypeRcp
<1>3. CASE UpdateDone
  BY <1>0, <1>3, ImageFields DEF UpdateDone, TypeRcp
<1>4. QED
  BY <1>1, <1>2, <1>3, RcpWrites

LEMMA MainTyped == TypeInv /\ [UpdateNext]_vars => TypeMain'
<1> SUFFICES ASSUME TypeInv, [UpdateNext]_vars
             PROVE  TypeMain'
  OBVIOUS
<1>0. pc \in PCs /\ image \in Image /\ cli \in BOOLEAN /\ file \in [0..1 -> Image]
  BY DEF TypeInv, Types, TypeMain, TypeFile
<1>1. pc' \in PCs /\ cli' \in BOOLEAN
  BY <1>0, MainWrites
<1>2. image' \in Image
  <2>1. Current \in Image
    BY <1>0, Slots DEF TypeInv, Current
  <2>2. QED
    BY <1>0, <2>1, ImageWrites DEF UpdateOpens
<1>3. QED
  BY <1>1, <1>2 DEF TypeMain

LEMMA BoundsTyped == TypeInv /\ [UpdateNext]_vars => TypeBounds'
<1> SUFFICES ASSUME TypeInv, [UpdateNext]_vars
             PROVE  TypeBounds'
  OBVIOUS
<1>1. faults \in 0..MaxFaults /\ started \in 0..MaxDownloads
  BY DEF TypeInv, Types, TypeBounds
<1>2. faults' \in 0..MaxFaults
  BY <1>1, BoundWrites, UpdateAssumption
<1>3. started' \in 0..MaxDownloads
  BY <1>1, BoundWrites, UpdateAssumption
<1>4. QED
  BY <1>2, <1>3 DEF TypeBounds

\* A download is typed and has written what its step says.
DlOK(r) == /\ r \in DlType
           /\ r.pc = "begun" => r.img.part = "empty"
           /\ r.pc = "writing" => r.img.part \in {"empty", "header", "most"}

LEMMA GrowsOK ==
  ASSUME TypeInv, NEW d \in Downloads, WriteSpare(d)
  PROVE  \E r : DlOK(r) /\ dl' = [dl EXCEPT ![d] = r]
<1> DEFINE new == [dl[d].img EXCEPT !.part = Next2(@)]
           p   == IF new.part = "whole" THEN "finished" ELSE "writing"
           r   == [pc |-> p, slot |-> dl[d].slot, img |-> new]
<1>1. dl[d].pc = "writing" /\ dl' = [dl EXCEPT ![d] = r]
  BY DEF WriteSpare, DlSet
<1>2. /\ dl[d].slot \in 0..1
      /\ dl[d].img.part \in {"empty", "header", "most"}
  BY <1>1, DlFields DEF TypeInv, Growing
<1>3. new \in Image /\ new.part = Next2(dl[d].img.part)
  BY <1>1, NextImage
<1>4. new.part \in {"header", "most", "whole"}
  BY <1>2, <1>3, NextParts
<1> HIDE DEF new
<1>5. p \in DlPCs /\ p # "begun" /\ (p = "writing" => new.part \in {"header", "most"})
  BY <1>4 DEF DlPCs
<1> HIDE DEF p
<1>6. r.pc = p /\ r.img = new /\ r \in DlType
  BY <1>2, <1>3, <1>5 DEF DlType
<1>7. DlOK(r)
  BY <1>5, <1>6 DEF DlOK
<1> HIDE DEF r
<1>8. QED
  BY <1>1, <1>7

LEMMA MovesOK ==
  ASSUME TypeInv, NEW d \in Downloads, DlMoves(d)
  PROVE  \E r : DlOK(r) /\ dl' = [dl EXCEPT ![d] = r]
<1>0. Versions # {}
  BY ImageFields DEF TypeInv, Types, TypeMain
<1>1. CASE OpenSpare(d)
  <2> DEFINE r == [pc |-> "writing", slot |-> NextUpdateSeq, img |-> dl[d].img]
  <2>1. dl[d].pc = "begun" /\ dl' = [dl EXCEPT ![d] = r]
    BY <1>1 DEF OpenSpare, DlSet
  <2>2. dl[d].img.part = "empty" /\ dl[d].img \in Image /\ NextUpdateSeq \in 0..1
    BY <2>1, DlFields, Slots DEF TypeInv, Growing
  <2>3. DlOK(r)
    BY <2>2 DEF DlOK, DlType, DlPCs
  <2>4. QED
    BY <2>1, <2>3
<1>2. CASE WriteSpare(d)
  BY <1>2, GrowsOK
<1>3. ASSUME NEW v \in Versions, StartDownload(d, v)
      PROVE  \E r : DlOK(r) /\ dl' = [dl EXCEPT ![d] = r]
  <2> DEFINE i == [part |-> "empty", ver |-> v, by |-> d]
             r == [pc |-> "begun", slot |-> 0, img |-> i]
  <2>1. dl' = [dl EXCEPT ![d] = r]
    BY <1>3 DEF StartDownload, DlSet
  <2>2. i \in Image /\ i.part = "empty"
    BY DEF Image, Parts
  <2> HIDE DEF i
  <2>3. DlOK(r)
    BY <2>2 DEF DlOK, DlType, DlPCs
  <2>4. QED
    BY <2>1, <2>3
<1>4. ASSUME NEW p \in {"submitting", "restart"}, DlGoto(d, p)
      PROVE  \E r : DlOK(r) /\ dl' = [dl EXCEPT ![d] = r]
  <2> DEFINE r == [pc |-> p, slot |-> dl[d].slot, img |-> dl[d].img]
  <2>1. dl' = [dl EXCEPT ![d] = r]
    <3>1. dl[d] \in DlType
      BY DlFields
    <3>2. [dl[d] EXCEPT !.pc = p] = r
      BY <3>1 DEF DlType
    <3>3. QED
      BY <1>4, <3>2 DEF DlGoto
  <2>2. DlOK(r)
    BY DlFields DEF DlOK, DlType, DlPCs
  <2>3. QED
    BY <2>1, <2>2
<1>5. CASE dl' = [dl EXCEPT ![d] = DlIdle]
  <2>1. DlOK(DlIdle)
    BY <1>0, IdleDownload DEF DlOK, DlIdle
  <2>2. QED
    BY <1>5, <2>1
<1>6. QED
  BY <1>1, <1>2, <1>3, <1>4, <1>5 DEF DlMoves

LEMMA DlTyped == TypeInv /\ [UpdateNext]_vars => TypeDl' /\ Growing'
<1> SUFFICES ASSUME TypeInv, [UpdateNext]_vars
             PROVE  TypeDl' /\ Growing'
  OBVIOUS
<1>0. dl \in [Downloads -> DlType] /\ \A d \in Downloads : DlOK(dl[d])
  BY DEF TypeInv, Types, TypeDl, Growing, DlOK
<1>1. Versions # {}
  BY ImageFields DEF TypeInv, Types, TypeMain
<1>2. DlOK(DlIdle)
  BY <1>1, IdleDownload DEF DlOK, DlIdle
<1>3. dl' \in [Downloads -> DlType] /\ \A d \in Downloads : DlOK(dl'[d])
  <2>1. CASE dl' = dl
    BY <1>0, <2>1
  <2>2. CASE dl' = [d \in Downloads |-> DlIdle]
    BY <1>2, <2>2 DEF DlOK
  <2>3. ASSUME NEW d \in Downloads, DlMoves(d)
        PROVE  dl' \in [Downloads -> DlType] /\ \A e \in Downloads : DlOK(dl'[e])
    <3>1. PICK r : DlOK(r) /\ dl' = [dl EXCEPT ![d] = r]
      BY <2>3, MovesOK
    <3>2. r \in DlType
      BY <3>1 DEF DlOK
    <3>3. QED
      BY <1>0, <3>1, <3>2
  <2>4. QED
    BY <2>1, <2>2, <2>3, DlWrites
<1>4. TypeDl'
  BY <1>3 DEF TypeDl
<1>5. Growing'
  BY <1>3 DEF Growing, DlOK
<1>6. QED
  BY <1>4, <1>5

LEMMA TypesStep == TypeInv /\ [UpdateNext]_vars => TypeInv'
<1> SUFFICES ASSUME TypeInv, [UpdateNext]_vars
             PROVE  TypeInv'
  OBVIOUS
<1>1. StoreTypeOK'
  BY StoreSteps, TypeStep DEF TypeInv
<1>2. Types'
  BY FileTyped, RcpTyped, MainTyped, BoundsTyped, DlTyped DEF Types
<1>3. QED
  BY <1>1, <1>2, DlTyped DEF TypeInv

LEMMA TypesStart == UpdateInitState => TypeInv
<1> SUFFICES ASSUME UpdateInitState
             PROVE  TypeInv
  OBVIOUS
<1> USE DEF UpdateInitState
<1>0. DlIdle \in DlType /\ DlIdle.img \in Image
  BY IdleDownload
<1>1. StoreTypeOK
  BY StoreTypes
<1>2. TypeFile /\ TypeRcp
  BY DEF TypeFile, TypeRcp
<1>3. TypeMain
  BY <1>0 DEF TypeMain, PCs
<1>4. TypeDl
  BY <1>0 DEF TypeDl
<1>5. TypeBounds
  BY UpdateAssumption DEF TypeBounds
<1>6. Growing
  BY DEF Growing, DlIdle
<1>7. QED
  BY <1>1, <1>2, <1>3, <1>4, <1>5, <1>6 DEF TypeInv, Types

\* The files, the RCP, the tasks and the bookkeeping stay in their types, and
\* a download has written what its step says.
THEOREM UpdateTypes == UpdateSpec => []TypeInv
BY TypesStart, TypesStep, PTL DEF UpdateSpec

-----------------------------------------------------------------------------
(* A border router that starts out working, with one download at a time,   *)
(* under losses of power and failing writes to the RCP.  Then no image is  *)
(* ever rejected, and:                                                     *)

OneDownload == \A d, e \in Downloads : d = e
Undisturbed == FaultKinds \subseteq {"crash", "flash"} /\ ~UserUpdates

\* Slot s holds a complete image that boots; the RCP runs the image in slot s.
Good(f, s)    == f[s].part = "whole" /\ f[s].ver \in Bootable
Runs(f, r, s) == f[s].ver = r /\ r \in Bootable

\* After choice (s, t) has failed there is a good image to take instead; one
\* that is not trusted is that image.
Fallback(f, s, t) == Good(f, IF t THEN 1 - s ELSE s)

\* A choice from which the boot path gets to the main loop.
Safe(f, r, s, t) == /\ f[s].part = "whole"
                    /\ (t /\ Runs(f, r, s)) \/ Fallback(f, s, t)
SafeVal(f, r, val) == Safe(f, r, BootSeq(val), LoadedVerified(val))

\* Every choice in play is safe: the two values that a boot may find, the one
\* a call is about to store, and the handle.
Choices ==
  /\ SafeVal(file, rcp, stored)
  /\ SafeVal(file, rcp, staged)
  /\ \A c \in Callers : call[c].pc \in {"mark", "seq"} => SafeVal(file, rcp, call[c].val)
  /\ ready /\ (\A c \in Callers : call[c].pc \notin {"mark", "seq"})
       => Safe(file, rcp, UpdateSeq, verified)

\* Who may be inside the update API, and how far.
MainCalls ==
  /\ pc \notin {"load", "marked", "enter"} => call[Main].pc = "idle"
  /\ pc = "load" => call[Main].pc \in {"idle", "clear", "set", "commit"}
  /\ pc \in {"marked", "enter"} => call[Main].pc \in {"idle", "mark", "seq", "set", "commit"}
DlCalls == \A d \in Downloads :
  /\ call[d].pc # "idle" <=> dl[d].pc = "submitting"
  /\ call[d].pc \in {"idle", "flag", "set", "commit"}
  /\ call[d].pc = "flag" => verified

\* No download has begun to submit its image.
Serves == \A d \in Downloads : dl[d].pc \notin {"submitting", "restart"}

\* What the OpenThread task knows at each of its steps.
MainReady == /\ pc = "off" <=> ~ready
             /\ pc \notin {"reject", "reinit"} /\ ~cli
MainRadio == /\ pc \in {"try", "agree", "enter", "running"} => rcp \in Bootable
             /\ pc \in {"failed", "load"} => rcp \notin Bootable
MainFails == /\ pc = "load" => ~verified
             /\ pc \in {"flash", "writing", "accept"} => Fallback(file, UpdateSeq, verified)
MainWrote == /\ pc = "writing" => image = Current
             /\ pc \in {"accept", "agree"} => rcp = Current.ver
MainEnter == pc = "enter" =>
  IF call[Main].pc \in {"mark", "seq"}
  THEN Flagged(call[Main].val) /\ rcp = file[Cleared(call[Main].val)].ver
  ELSE verified /\ rcp = Current.ver
MainRuns  == pc = "running" /\ Serves => verified /\ rcp = Current.ver
MainAt    == MainReady /\ MainRadio /\ MainFails /\ MainWrote /\ MainEnter /\ MainRuns

\* A download runs beside the main loop only, and writes the spare slot.
DlRuns  == \A d \in Downloads : dl[d].pc # "idle" => pc = "running" /\ dl[d].img.by = d
DlFile  == \A d \in Downloads : dl[d].pc \in {"writing", "finished"} =>
             dl[d].slot = NextUpdateSeq /\ file[dl[d].slot] = dl[d].img
DlWhole == \A d \in Downloads : dl[d].pc = "finished" => dl[d].img.part = "whole"

InstallInv ==
  /\ TypeInv /\ SerialInv /\ ret = "ok" /\ Choices /\ MainCalls /\ DlCalls
  /\ MainAt /\ DlRuns /\ DlFile /\ DlWhole

Setting == InstallInv /\ OneDownload /\ Undisturbed

-----------------------------------------------------------------------------
\* What follows at once from the invariant.
LEMMA QuietMain ==
  ASSUME Setting, pc \notin {"load", "marked", "enter"}, Serves
  PROVE  Quiet
BY UpdateAssumption DEF Setting, InstallInv, MainCalls, DlCalls, Serves, Quiet

LEMMA NoneServed ==
  ASSUME Setting, pc # "running"
  PROVE  Serves /\ \A d \in Downloads : dl[d].pc = "idle" /\ call[d].pc = "idle"
BY DEF Setting, InstallInv, DlRuns, DlCalls, Serves

LEMMA QuietAgrees ==
  ASSUME Setting, Quiet, ready
  PROVE  /\ Agreement
         /\ UpdateSeq = BootSeq(stored) /\ verified = LoadedVerified(stored)
         /\ Safe(file, rcp, UpdateSeq, verified)
<1>1. Agreement
  BY DEF Setting, InstallInv, SerialInv
<1>2. Safe(file, rcp, UpdateSeq, verified)
  BY DEF Setting, InstallInv, Choices, Quiet
<1>3. QED
  BY <1>1, <1>2 DEF Agreement, UpdateSeq, BootSeq

LEMMA Begun ==
  ASSUME Setting, [UpdateNext]_vars, NEW c \in Callers, Begins(c)
  PROVE  HandleFailure \/ Mark \/ \E d \in Downloads : Submit(d)
<1> USE DEF Begins, CallStep, SubmitFlag, MarkFlag, MarkSeq, UnusableClear, NvsSet, NvsCommit,
            NvsFail, At, Goto, Step, Return, Idle, NoCall, storeVars, Restart, UpdateInit
<1>0. call \in [Callers -> [pc : CallPCs, val : Encoded]]
  BY DEF Setting, InstallInv, TypeInv, StoreTypeOK
<1>1. CASE MainStep
  <2>1. CASE Boot \/ RadioUp \/ RadioFails \/ FailureLoads \/ TryLoads \/ UpdateOpens
    BY <2>1 DEF Boot, RadioUp, RadioFails, FailureLoads, TryLoads, UpdateOpens
  <2>2. CASE UpdateFails \/ UpdateDone \/ UpdateOfNothing \/ EnterMainLoop
    BY <2>2 DEF UpdateFails, UpdateDone, UpdateOfNothing, EnterMainLoop
  <2>3. CASE UpdateAborts \/ AfterUpdate
    BY <2>3 DEF UpdateAborts, AfterUpdate, Reboot
  <2>4. CASE MainCall
    BY <1>0, <2>4 DEF MainCall
  <2>5. QED
    BY <1>1, <2>1, <2>2, <2>3, <2>4 DEF MainStep
<1>2. CASE UserUpdate \/ PowerLoss
  BY <1>2 DEF UserUpdate, PowerLoss, Reboot
<1>3. ASSUME NEW d \in Downloads, DlStep(d)
      PROVE  Submit(d)
  <2>1. CASE OpenSpare(d) \/ WriteSpare(d) \/ DownloadFails(d) \/ DownloadRestarts(d)
    BY <2>1 DEF OpenSpare, WriteSpare, DownloadFails, DownloadRestarts, Reboot
  <2>2. CASE DownloadEnds(d) \/ DlCall(d)
    BY <1>0, <2>2 DEF DownloadEnds, DlCall
  <2>3. QED
    BY <1>3, <2>1, <2>2 DEF DlStep
<1>4. ASSUME NEW d \in Downloads, NEW v \in Versions, StartDownload(d, v)
      PROVE  FALSE
  BY <1>4 DEF StartDownload
<1>5. QED
  BY <1>1, <1>2, <1>3, <1>4 DEF UpdateNext, vars

LEMMA SerialKept ==
  ASSUME Setting, [UpdateNext]_vars
  PROVE  SerialInv'
<1>1. ASSUME NEW c \in Callers, Begins(c)
      PROVE  Quiet
  <2>1. CASE HandleFailure \/ Mark
    <3>1. pc \in {"failed", "accept", "agree", "reject"}
      BY <2>1 DEF HandleFailure, Mark
    <3>2. QED
      BY <3>1, QuietMain, NoneServed
  <2>2. ASSUME NEW d \in Downloads, Submit(d)
        PROVE  Quiet
    <3>1. pc = "running" /\ dl[d].pc = "finished"
      BY <2>2 DEF Submit, Setting, InstallInv, DlRuns
    <3>2. Serves
      BY <3>1 DEF Serves, Setting, OneDownload
    <3>3. QED
      BY <3>1, <3>2, QuietMain
  <2>3. QED
    BY <1>1, <2>1, <2>2, Begun
<1>2. QED
  BY <1>1, QuietStep, StoreSteps DEF Setting, InstallInv, TypeInv

-----------------------------------------------------------------------------
\* What is left to show of each step.
Rest == /\ Choices /\ MainCalls /\ DlCalls /\ MainReady /\ MainRadio /\ MainFails
        /\ MainWrote /\ MainEnter /\ MainRuns /\ DlRuns /\ DlFile /\ DlWhole

USE DEF Setting, InstallInv, MainCalls, DlCalls, MainAt, MainReady, MainRadio, MainFails,
        MainWrote, MainEnter, MainRuns, DlRuns, DlFile, DlWhole

LEMMA RetKept ==
  ASSUME Setting, [UpdateNext]_vars
  PROVE  ret' = "ok"
BY DEF Undisturbed, UpdateNext, MainStep, Boot, RadioUp, RadioFails, HandleFailure,
       FailureLoads, TryLoads, UpdateOpens, UpdateFails, UpdateDone, UpdateOfNothing,
       UpdateAborts, Mark, AfterUpdate, EnterMainLoop, MainCall, UserUpdate, PowerLoss,
       Reboot, DlStep, OpenSpare, WriteSpare, DownloadFails, Submit, DownloadEnds,
       DownloadRestarts, DlCall, StartDownload, NoCall, storeVars, vars, Fault, Restart,
       UpdateInit, MarkImageUnusable, MarkImageVerified, SubmitNewImage, CallStep,
       SubmitFlag, MarkFlag, MarkSeq, UnusableClear, NvsSet, NvsCommit, Return

\* A restart finds a safe choice, and nothing running.
LEMMA RebootKeeps ==
  ASSUME Setting, Reboot, rcp' = rcp
  PROVE  Rest'
<1>1. /\ pc' = "off" /\ cli' = FALSE /\ ready' = FALSE
      /\ UNCHANGED <<file, rcp, image>>
      /\ stored' \in {stored, staged} /\ staged' = stored'
      /\ \A c \in Callers : call'[c].pc = "idle"
      /\ \A d \in Downloads : dl'[d].pc = "idle"
  BY DEF Reboot, Restart, Idle, DlIdle
<1>2. Choices'
  BY <1>1 DEF Choices
<1>3. MainCalls' /\ DlCalls'
  BY <1>1, UpdateAssumption
<1>4. MainReady' /\ MainRadio' /\ MainFails' /\ MainWrote' /\ MainEnter' /\ MainRuns'
  BY <1>1
<1>5. DlRuns' /\ DlFile' /\ DlWhole'
  BY <1>1
<1>6. QED
  BY <1>2, <1>3, <1>4, <1>5 DEF Rest

\* The steps of the OpenThread task between two calls leave the choices alone.
LEMMA SameChoices ==
  ASSUME Setting, UNCHANGED <<file, rcp, storeVars>>
  PROVE  Choices'
<1>1. UNCHANGED <<stored, staged, call, ready, UpdateSeq, verified>>
  BY DEF storeVars, UpdateSeq
<1>2. QED
  BY <1>1 DEF Choices

\* A step of the OpenThread task away from the main loop: no download runs.
LEMMA AwayKeeps ==
  ASSUME Setting, pc # "running", UNCHANGED dl
  PROVE  /\ (\A d \in Downloads : call'[d] = call[d]) => DlCalls'
         /\ DlRuns' /\ DlFile' /\ DlWhole' /\ Serves'
<1>1. \A d \in Downloads : dl'[d].pc = "idle" /\ call[d].pc = "idle"
  BY NoneServed
<1>2. DlRuns' /\ DlFile' /\ DlWhole' /\ Serves'
  BY <1>1 DEF Serves
<1>3. QED
  BY <1>1, <1>2

LEMMA RadioUpKeeps ==
  ASSUME Setting, RadioUp
  PROVE  Rest'
<1>1. /\ pc = "radio" /\ pc' = "try" /\ rcp \in Bootable
      /\ UNCHANGED <<file, rcp, image, cli, dl, storeVars>>
  BY DEF RadioUp, Become, NoCall, MainOnly, fileVars
<1>2. UNCHANGED <<ready, call, verified, UpdateSeq>>
  BY <1>1 DEF storeVars, UpdateSeq
<1>3. MainCalls' /\ MainReady' /\ MainRadio' /\ MainFails' /\ MainWrote' /\ MainEnter' /\ MainRuns'
  BY <1>1, <1>2
<1>4. QED
  BY <1>1, <1>2, <1>3, AwayKeeps, SameChoices DEF Rest

LEMMA RadioFailsKeeps ==
  ASSUME Setting, RadioFails
  PROVE  Rest'
<1>1. /\ pc = "radio" /\ pc' = "failed" /\ rcp \notin Bootable
      /\ UNCHANGED <<file, rcp, image, cli, dl, storeVars>>
  BY DEF RadioFails, Become, NoCall, MainOnly, fileVars, Fault, Undisturbed
<1>2. UNCHANGED <<ready, call, verified, UpdateSeq>>
  BY <1>1 DEF storeVars, UpdateSeq
<1>3. MainCalls' /\ MainReady' /\ MainRadio' /\ MainFails' /\ MainWrote' /\ MainEnter' /\ MainRuns'
  BY <1>1, <1>2
<1>4. QED
  BY <1>1, <1>2, <1>3, AwayKeeps, SameChoices DEF Rest

LEMMA FailureLoadsKeeps ==
  ASSUME Setting, FailureLoads
  PROVE  Rest'
<1>1. /\ pc = "load" /\ call[Main].pc = "idle" /\ rcp \notin Bootable /\ ~verified /\ ready
      /\ UNCHANGED <<file, rcp, image, cli, dl, storeVars>>
  BY DEF FailureLoads, Become, NoCall, MainOnly, fileVars, MainFree, At
<1>2. UNCHANGED <<ready, call, verified, UpdateSeq>>
  BY <1>1 DEF storeVars, UpdateSeq
<1>3. Quiet
  BY <1>1, NoneServed, UpdateAssumption DEF Quiet
<1>4. Safe(file, rcp, UpdateSeq, verified)
  BY <1>1, <1>3, QuietAgrees
<1>5. pc' = "flash"
  BY <1>4 DEF FailureLoads, Become, Loadable, Current, Safe
<1>6. Fallback(file, UpdateSeq, verified)
  BY <1>1, <1>4 DEF Safe, Runs
<1>7. MainCalls' /\ MainReady' /\ MainRadio' /\ MainFails' /\ MainWrote' /\ MainEnter' /\ MainRuns'
  BY <1>1, <1>2, <1>5, <1>6
<1>8. QED
  BY <1>1, <1>2, <1>7, AwayKeeps, SameChoices DEF Rest

LEMMA TryLoadsKeeps ==
  ASSUME Setting, TryLoads
  PROVE  Rest'
<1>1. /\ pc = "try" /\ call[Main].pc = "idle" /\ rcp \in Bootable /\ ready
      /\ UNCHANGED <<file, rcp, image, cli, dl, storeVars>>
  BY DEF TryLoads, Become, NoCall, MainOnly, fileVars
<1>2. UNCHANGED <<ready, call, verified, UpdateSeq, Current>>
  BY <1>1 DEF storeVars, UpdateSeq, Current
<1>3. Quiet
  BY <1>1, NoneServed, UpdateAssumption DEF Quiet
<1>4. Safe(file, rcp, UpdateSeq, verified)
  BY <1>1, <1>3, QuietAgrees
<1>5. pc' = IF Current.ver = rcp THEN "agree" ELSE "flash"
  BY <1>4 DEF TryLoads, Become, Loadable, Current, Safe
<1>6. Current.ver # rcp => Fallback(file, UpdateSeq, verified)
  BY <1>4 DEF Safe, Runs, Current
<1>7. MainCalls' /\ MainReady' /\ MainRadio' /\ MainFails'
  BY <1>1, <1>2, <1>5, <1>6
<1>8. MainWrote' /\ MainEnter' /\ MainRuns'
  BY <1>1, <1>2, <1>5
<1>9. QED
  BY <1>1, <1>2, <1>7, <1>8, AwayKeeps, SameChoices DEF Rest

LEMMA EnterKeeps ==
  ASSUME Setting, EnterMainLoop
  PROVE  Rest'
<1>1. /\ pc = "enter" /\ pc' = "running" /\ call[Main].pc = "idle"
      /\ UNCHANGED <<file, rcp, image, cli, dl, storeVars>>
  BY DEF EnterMainLoop, Become, NoCall, MainOnly, fileVars, MainFree, At
<1>2. UNCHANGED <<ready, call, verified, UpdateSeq, Current>>
  BY <1>1 DEF storeVars, UpdateSeq, Current
<1>3. MainCalls' /\ MainReady' /\ MainRadio' /\ MainFails' /\ MainWrote' /\ MainEnter' /\ MainRuns'
  BY <1>1, <1>2
<1>4. QED
  BY <1>1, <1>2, <1>3, AwayKeeps, SameChoices DEF Rest

\* Whatever becomes of the RCP while it is flashed, the choice in force stays
\* safe: it has its fallback.
LEMMA FlashChoices ==
  ASSUME Setting, Quiet, ready, Fallback(file, UpdateSeq, verified),
         UNCHANGED <<file, storeVars>>
  PROVE  Choices'
<1>1. /\ stored = staged /\ UpdateSeq = BootSeq(stored) /\ verified = LoadedVerified(stored)
      /\ Safe(file, rcp, UpdateSeq, verified)
  BY QuietAgrees DEF Agreement
<1>2. /\ UNCHANGED <<stored, staged, call, ready, verified, UpdateSeq>>
      /\ file' = file
  BY DEF storeVars, UpdateSeq
<1>3. Safe(file', rcp', UpdateSeq, verified)
  BY <1>1, <1>2 DEF Safe
<1>4. SafeVal(file', rcp', stored)
  BY <1>1, <1>3 DEF SafeVal
<1>5. \A c \in Callers : call'[c].pc = "idle"
  BY <1>2 DEF Quiet
<1>6. QED
  BY <1>1, <1>2, <1>3, <1>4, <1>5 DEF Choices

LEMMA OpensKeeps ==
  ASSUME Setting, UpdateOpens
  PROVE  Rest'
<1>1. /\ pc = "flash" /\ pc' = "writing" /\ image' = Current /\ call[Main].pc = "idle"
      /\ UNCHANGED <<file, cli, dl, storeVars>> /\ ready
  BY DEF UpdateOpens, NoCall
<1>2. UNCHANGED <<ready, call, verified, UpdateSeq, Current>>
  BY <1>1 DEF storeVars, UpdateSeq, Current
<1>3. Quiet /\ Fallback(file, UpdateSeq, verified)
  BY <1>1, NoneServed, UpdateAssumption DEF Quiet
<1>4. MainCalls' /\ MainReady' /\ MainRadio' /\ MainFails' /\ MainWrote' /\ MainEnter' /\ MainRuns'
  BY <1>1, <1>2, <1>3
<1>5. QED
  BY <1>1, <1>2, <1>3, <1>4, AwayKeeps, FlashChoices DEF Rest

LEMMA DoneKeeps ==
  ASSUME Setting, UpdateDone
  PROVE  Rest'
<1>1. /\ pc = "writing" /\ pc' = "accept" /\ call[Main].pc = "idle" /\ image = Current
      /\ UNCHANGED <<file, cli, dl, storeVars>> /\ ready
  BY DEF UpdateDone, Become, NoCall
<1>2. UNCHANGED <<ready, call, verified, UpdateSeq, Current>>
  BY <1>1 DEF storeVars, UpdateSeq, Current
<1>3. Quiet /\ Fallback(file, UpdateSeq, verified)
  BY <1>1, NoneServed, UpdateAssumption DEF Quiet
<1>4. Safe(file, rcp, UpdateSeq, verified)
  BY <1>1, <1>3, QuietAgrees
<1>5. rcp' = Current.ver
  BY <1>1, <1>4 DEF UpdateDone, Safe, Current
<1>6. MainCalls' /\ MainReady' /\ MainRadio' /\ MainFails' /\ MainWrote' /\ MainEnter' /\ MainRuns'
  BY <1>1, <1>2, <1>3, <1>5
<1>7. QED
  BY <1>1, <1>2, <1>3, <1>6, AwayKeeps, FlashChoices DEF Rest

\* The current image is there and complete whenever it is to be flashed.
LEMMA NoReject ==
  ASSUME Setting
  PROVE  ~UpdateFails /\ ~UpdateOfNothing /\ ~UserUpdate
<1>1. ASSUME pc \in {"flash", "writing"}
      PROVE  Current.part = "whole"
  <2>1. Quiet /\ ready
    BY <1>1, NoneServed, UpdateAssumption DEF Quiet
  <2>2. QED
    BY <2>1, QuietAgrees DEF Safe, Current
<1>2. ~UpdateFails
  BY <1>1 DEF UpdateFails, Fault, Undisturbed
<1>3. ~UpdateOfNothing
  BY <1>1 DEF UpdateOfNothing
<1>4. ~UserUpdate
  BY DEF UserUpdate, Undisturbed
<1>5. QED
  BY <1>2, <1>3, <1>4

LEMMA BootKeeps ==
  ASSUME Setting, Boot
  PROVE  Rest'
<1>1. /\ pc = "off" /\ pc' = "radio" /\ call[Main].pc = "idle" /\ ready'
      /\ update_seq' = LoadedSeq(staged) /\ verified' = LoadedVerified(staged)
      /\ UNCHANGED <<file, rcp, image, cli, dl, stored, staged, call>>
  BY DEF Boot, Become, MainOnly, fileVars, UpdateInit
<1>2. UpdateSeq' = BootSeq(staged)
  BY <1>1 DEF UpdateSeq, BootSeq
<1>3. Choices'
  BY <1>1, <1>2 DEF Choices, SafeVal
<1>4. MainCalls' /\ MainReady' /\ MainRadio' /\ MainFails' /\ MainWrote' /\ MainEnter' /\ MainRuns'
  BY <1>1
<1>5. QED
  BY <1>1, <1>3, <1>4, AwayKeeps DEF Rest

\* A radio that fails gives up a trusted image for its fallback.
LEMMA HandleFailureKeeps ==
  ASSUME Setting, HandleFailure
  PROVE  Rest'
<1>0. call \in [Callers -> [pc : CallPCs, val : Encoded]] /\ update_seq \in 0..1
  BY DEF TypeInv, StoreTypeOK
<1>1. /\ pc = "failed" /\ pc' = "load" /\ ready /\ rcp \notin Bootable
      /\ verified' = FALSE /\ call' = [call EXCEPT ![Main].pc = "clear"]
      /\ UNCHANGED <<file, rcp, image, cli, dl, stored, staged, update_seq, ready>>
  BY DEF HandleFailure, Become, MainOnly, fileVars, MarkImageUnusable, CanCall, Goto
<1>2. Quiet
  BY <1>1, QuietMain, NoneServed
<1>3. call'[Main].pc = "clear" /\ \A d \in Downloads : call'[d] = call[d]
  BY <1>0, <1>1, UpdateAssumption
<1>4. Safe(file, rcp, UpdateSeq, verified)
  BY <1>1, <1>2, QuietAgrees
<1>5. Good(file, 1 - update_seq)
  BY <1>0, <1>1, <1>4 DEF Safe, Runs, Fallback, UpdateSeq, SeqOf
<1>6. Safe(file', rcp', UpdateSeq', verified')
  BY <1>1, <1>5 DEF Safe, Fallback, Good, UpdateSeq, SeqOf
<1>7. \A c \in Callers : call'[c].pc \notin {"mark", "seq"}
  BY <1>2, <1>3, UpdateAssumption DEF Quiet
<1>8. Choices'
  BY <1>1, <1>6, <1>7 DEF Choices
<1>9. MainCalls' /\ MainReady' /\ MainRadio' /\ MainFails' /\ MainWrote' /\ MainEnter' /\ MainRuns'
  BY <1>1, <1>3
<1>10. QED
  BY <1>1, <1>3, <1>8, <1>9, AwayKeeps DEF Rest

\* An image is marked verified once the RCP runs it.
LEMMA MarkKeeps ==
  ASSUME Setting, Mark
  PROVE  Rest'
<1> DEFINE val == WithFlag(UpdateSeq)
<1>0. call \in [Callers -> [pc : CallPCs, val : Encoded]] /\ UpdateSeq \in 0..1
  BY Slots DEF TypeInv, StoreTypeOK
<1>1. /\ pc \in {"accept", "agree"} /\ ready
      /\ pc' = IF pc = "agree" THEN "enter" ELSE "marked"
      /\ call' = [call EXCEPT ![Main] = [pc |-> "mark", val |-> val]]
      /\ UNCHANGED <<file, rcp, image, cli, dl, stored, staged, update_seq, verified, ready>>
  BY DEF Mark, Become, MainOnly, fileVars, MarkImageVerified, CanCall, Step
<1>2. Quiet
  BY <1>1, QuietMain, NoneServed
<1>3. val \in Encoded /\ Cleared(val) = UpdateSeq /\ Flagged(val) = TRUE /\ val # Absent
  BY <1>0, Encoding
<1>4. BootSeq(val) = UpdateSeq /\ LoadedVerified(val) = TRUE
  BY <1>3 DEF BootSeq, SeqOf, LoadedSeq, LoadedVerified
<1>5. Safe(file, rcp, UpdateSeq, verified) /\ rcp = Current.ver
  BY <1>1, <1>2, QuietAgrees
<1>6. Safe(file, rcp, UpdateSeq, TRUE)
  <2>1. CASE pc = "accept"
    BY <1>5, <2>1 DEF Safe, Fallback, Good, Runs, Current
  <2>2. CASE pc = "agree"
    BY <1>5, <2>2 DEF Safe, Runs, Current
  <2>3. QED
    BY <1>1, <2>1, <2>2
<1>7. SafeVal(file', rcp', val)
  BY <1>1, <1>4, <1>6 DEF SafeVal
<1> HIDE DEF val
<1>8. /\ call'[Main].pc = "mark" /\ call'[Main].val = val
      /\ \A d \in Downloads : call'[d] = call[d]
      /\ \A d \in Downloads : call[d].pc = "idle"
  BY <1>0, <1>1, <1>2, UpdateAssumption DEF Quiet
<1>9. Choices'
  BY <1>1, <1>7, <1>8, UpdateAssumption DEF Choices
<1>10. MainEnter'
  BY <1>1, <1>3, <1>5, <1>8 DEF Current
<1>11. MainCalls' /\ MainReady' /\ MainRadio' /\ MainFails' /\ MainWrote' /\ MainRuns'
  BY <1>1, <1>8
<1>12. QED
  BY <1>1, <1>8, <1>9, <1>10, <1>11, AwayKeeps DEF Rest

\* A value that a call is about to store stands for the handle.
LEMMA ValIsHandle ==
  ASSUME Setting, NEW c \in Callers, call[c].pc \in {"set", "commit"}
  PROVE  /\ BootSeq(call[c].val) = UpdateSeq
         /\ LoadedVerified(call[c].val) = verified
         /\ SafeVal(file, rcp, call[c].val)
<1>1. call[c].val \in Encoded /\ call[c].val # Absent
  BY Encoding DEF TypeInv, StoreTypeOK
<1>2. /\ update_seq = Cleared(call[c].val) /\ verified = Flagged(call[c].val) /\ ready
  BY DEF SerialInv, CallOK
<1>3. BootSeq(call[c].val) = UpdateSeq /\ LoadedVerified(call[c].val) = verified
  BY <1>1, <1>2 DEF BootSeq, LoadedSeq, LoadedVerified, UpdateSeq
<1>4. Safe(file, rcp, UpdateSeq, verified)
  BY <1>2, OnlyOne DEF Choices
<1>5. QED
  BY <1>3, <1>4 DEF SafeVal

\* The steps of a call keep the choices safe.
LEMMA CallChoices ==
  ASSUME Setting, NEW c \in Callers, CallStep(c), UNCHANGED <<file, rcp>>
  PROVE  Choices'
<1>0. call \in [Callers -> [pc : CallPCs, val : Encoded]] /\ verified \in BOOLEAN
  BY DEF TypeInv, StoreTypeOK
<1>1. /\ call[c].pc # "idle"
      /\ \A e \in Callers \ {c} : call[e].pc = "idle"
      /\ call[c].val \in Encoded /\ call[c].val # Absent
      /\ UNCHANGED ready
  <2>1. call[c].pc # "idle" /\ UNCHANGED ready
    BY DEF CallStep, SubmitFlag, MarkFlag, MarkSeq, UnusableClear, NvsSet, NvsCommit, At
  <2>2. QED
    BY <1>0, <2>1, OnlyOne, Encoding
<1>2. CASE SubmitFlag(c)
  <2>1. verified
    <3>1. c # Main
      BY <1>2 DEF SubmitFlag, At
    <3>2. QED
      BY <1>2, <3>1, UpdateAssumption DEF SubmitFlag, At
  <2>2. /\ UNCHANGED <<update_seq, stored, staged>> /\ verified' = verified
        /\ \A e \in Callers : call'[e].pc \notin {"mark", "seq"}
        /\ \A e \in Callers : call[e].pc \notin {"mark", "seq"}
    BY <1>0, <1>1, <1>2, <2>1 DEF SubmitFlag, Step, At
  <2>3. QED
    BY <1>1, <2>2 DEF Choices, UpdateSeq
<1>3. CASE MarkFlag(c)
  <2>1. /\ UNCHANGED <<update_seq, stored, staged>>
        /\ call[c].pc = "mark" /\ call'[c].pc = "seq" /\ call'[c].val = call[c].val
        /\ \A e \in Callers \ {c} : call'[e].pc = "idle"
    BY <1>0, <1>1, <1>3 DEF MarkFlag, Goto, At
  <2>2. QED
    BY <1>1, <2>1 DEF Choices
<1>4. CASE MarkSeq(c)
  <2>1. /\ update_seq' = Cleared(call[c].val) /\ UNCHANGED <<verified, stored, staged>>
        /\ call[c].pc = "seq" /\ call'[c].pc = "set"
        /\ \A e \in Callers \ {c} : call'[e].pc = "idle"
    BY <1>0, <1>1, <1>4 DEF MarkSeq, Goto, At
  <2>2. verified = Flagged(call[c].val) /\ SafeVal(file, rcp, call[c].val)
    BY <2>1 DEF SerialInv, CallOK, Choices
  <2>3. Safe(file, rcp, UpdateSeq', verified')
    BY <1>1, <2>1, <2>2 DEF SafeVal, BootSeq, LoadedSeq, LoadedVerified, UpdateSeq
  <2>4. QED
    BY <1>1, <2>1, <2>3 DEF Choices
<1>5. CASE UnusableClear(c)
  <2>1. /\ UNCHANGED <<update_seq, verified, stored, staged>>
        /\ \A e \in Callers : call'[e].pc \notin {"mark", "seq"}
        /\ \A e \in Callers : call[e].pc \notin {"mark", "seq"}
    BY <1>0, <1>1, <1>5 DEF UnusableClear, Step, At
  <2>2. QED
    BY <1>1, <2>1 DEF Choices, UpdateSeq
<1>6. CASE NvsSet(c)
  <2>1. /\ UNCHANGED <<update_seq, verified, stored>> /\ staged' = call[c].val
        /\ call[c].pc = "set"
        /\ \A e \in Callers : call'[e].pc \notin {"mark", "seq"}
        /\ \A e \in Callers : call[e].pc \notin {"mark", "seq"}
    BY <1>0, <1>1, <1>6 DEF NvsSet, Goto, At
  <2>2. SafeVal(file, rcp, call[c].val)
    BY <2>1, ValIsHandle
  <2>3. QED
    BY <1>1, <2>1, <2>2 DEF Choices, UpdateSeq
<1>7. CASE NvsCommit(c)
  <2>1. /\ UNCHANGED <<update_seq, verified, staged>> /\ stored' = staged
        /\ \A e \in Callers : call'[e].pc \notin {"mark", "seq"}
        /\ \A e \in Callers : call[e].pc \notin {"mark", "seq"}
    BY <1>0, <1>1, <1>7 DEF NvsCommit, Return, Idle, At
  <2>2. QED
    BY <1>1, <2>1 DEF Choices, UpdateSeq
<1>8. QED
  BY <1>2, <1>3, <1>4, <1>5, <1>6, <1>7 DEF CallStep

LEMMA MainCallKeeps ==
  ASSUME Setting, MainCall
  PROVE  Rest'
<1>0. call \in [Callers -> [pc : CallPCs, val : Encoded]] /\ Main \in Callers /\ Main \notin Downloads
  BY UpdateAssumption DEF TypeInv, StoreTypeOK
<1>1. CallStep(Main) /\ UNCHANGED <<file, rcp, pc, image, cli, dl>>
  BY DEF MainCall, Fault, Undisturbed, fileVars, mainVars
<1>2. call[Main].pc # "idle" /\ UNCHANGED ready
  BY <1>1 DEF CallStep, SubmitFlag, MarkFlag, MarkSeq, UnusableClear, NvsSet, NvsCommit, At
<1>3. pc \in {"load", "marked", "enter"}
  BY <1>2
<1>4. call[Main].val \in Encoded
  BY <1>0
<1>5. \A d \in Downloads : call'[d] = call[d]
  <2>1. CASE SubmitFlag(Main)
    BY <1>0, <2>1 DEF SubmitFlag, Step
  <2>2. CASE UnusableClear(Main)
    BY <1>0, <2>2 DEF UnusableClear, Step
  <2>3. CASE MarkFlag(Main)
    BY <1>0, <2>3 DEF MarkFlag, Goto
  <2>4. CASE MarkSeq(Main)
    BY <1>0, <2>4 DEF MarkSeq, Goto
  <2>5. CASE NvsSet(Main)
    BY <1>0, <2>5 DEF NvsSet, Goto
  <2>6. CASE NvsCommit(Main)
    BY <1>0, <2>6 DEF NvsCommit, Return
  <2>7. QED
    BY <1>1, <2>1, <2>2, <2>3, <2>4, <2>5, <2>6 DEF CallStep
<1>6. MainCalls'
  BY <1>0, <1>1, <1>3 DEF CallStep, SubmitFlag, MarkFlag, MarkSeq, UnusableClear, NvsSet,
                          NvsCommit, Goto, Step, Return, At, Idle
<1>7. pc = "load" => ~verified'
  BY <1>1, <1>2 DEF CallStep, SubmitFlag, MarkFlag, MarkSeq, UnusableClear, NvsSet, NvsCommit, At
<1>8. MainReady' /\ MainRadio' /\ MainFails' /\ MainWrote' /\ MainRuns'
  BY <1>1, <1>2, <1>3, <1>7
<1>9. MainEnter'
  <2> SUFFICES ASSUME pc = "enter"
               PROVE  MainEnter'
    BY <1>1
  <2>1. CASE MarkFlag(Main)
    BY <1>0, <1>1, <2>1 DEF MarkFlag, Goto, At
  <2>2. CASE MarkSeq(Main)
    <3>1. /\ update_seq' = Cleared(call[Main].val) /\ verified' = verified
          /\ call[Main].pc = "seq" /\ call'[Main].pc = "set"
      BY <1>0, <2>2 DEF MarkSeq, Goto, At
    <3>2. Flagged(call[Main].val) /\ rcp = file[Cleared(call[Main].val)].ver
          /\ verified = Flagged(call[Main].val)
      BY <1>0, <3>1 DEF SerialInv, CallOK
    <3>3. QED
      BY <1>1, <3>1, <3>2 DEF Current, UpdateSeq, SeqOf
  <2>3. CASE NvsSet(Main) \/ NvsCommit(Main)
    <3>1. /\ call[Main].pc \in {"set", "commit"} /\ call'[Main].pc \in {"commit", "idle"}
          /\ UNCHANGED <<update_seq, verified>>
      <4>1. CASE NvsSet(Main)
        BY <1>0, <4>1 DEF NvsSet, Goto, At
      <4>2. CASE NvsCommit(Main)
        BY <1>0, <4>2 DEF NvsCommit, Return, Idle, At
      <4>3. QED
        BY <2>3, <4>1, <4>2
    <3>2. Current' = Current
      BY <1>1, <3>1 DEF Current, UpdateSeq
    <3>3. QED
      BY <1>1, <3>1, <3>2
  <2>4. QED
    BY <1>1, <2>1, <2>2, <2>3 DEF CallStep, SubmitFlag, UnusableClear, At
<1>10. QED
  BY <1>0, <1>1, <1>3, <1>5, <1>6, <1>8, <1>9, AwayKeeps, CallChoices DEF Rest

-----------------------------------------------------------------------------
\* The main loop, while no download has begun to submit: the RCP runs the
\* current image, which is trusted and complete.
LEMMA Running ==
  ASSUME Setting, pc = "running", Serves
  PROVE  /\ Quiet /\ ready /\ Agreement /\ verified = TRUE
         /\ Good(file, UpdateSeq) /\ Runs(file, rcp, UpdateSeq)
         /\ BootSeq(stored) = UpdateSeq /\ LoadedVerified(stored) = TRUE
         /\ UpdateSeq \in 0..1 /\ NextUpdateSeq \in 0..1 /\ NextUpdateSeq # UpdateSeq
<1>1. Quiet /\ ready
  BY QuietMain
<1>2. /\ Agreement /\ UpdateSeq = BootSeq(stored) /\ verified = LoadedVerified(stored)
      /\ Safe(file, rcp, UpdateSeq, verified)
  BY <1>1, QuietAgrees
<1>3. verified = TRUE /\ rcp = file[UpdateSeq].ver /\ rcp \in Bootable
  BY DEF TypeInv, StoreTypeOK, Current
<1>4. Good(file, UpdateSeq) /\ Runs(file, rcp, UpdateSeq)
  BY <1>2, <1>3 DEF Safe, Good, Runs
<1>5. UpdateSeq \in 0..1 /\ NextUpdateSeq \in 0..1 /\ NextUpdateSeq # UpdateSeq
  BY Slots DEF TypeInv, NextUpdateSeq
<1>6. QED
  BY <1>1, <1>2, <1>3, <1>4, <1>5

\* The one download is at work and has not begun to submit.
LEMMA AtWork ==
  ASSUME Setting, NEW d \in Downloads, dl[d].pc \in {"begun", "writing", "finished"}
  PROVE  pc = "running" /\ Serves /\ dl[d].img.by = d /\ \A e \in Downloads : e = d
BY DEF OneDownload, Serves

\* What a download writes is the spare slot, which no boot will select.
LEMMA SpareWrites ==
  ASSUME Setting, NEW d \in Downloads, OpenSpare(d) \/ WriteSpare(d)
  PROVE  /\ dl[d].pc \in {"begun", "writing"} /\ pc = "running" /\ Serves
         /\ \A s \in 0..1 \ {NextUpdateSeq} : file'[s] = file[s]
<1>0. file \in [0..1 -> Image]
  BY DEF TypeInv, Types, TypeFile
<1>1. dl[d].pc \in {"begun", "writing"}
  BY DEF OpenSpare, WriteSpare
<1>2. dl[d].pc = "writing" => dl[d].slot = NextUpdateSeq
  BY <1>1
<1>3. CASE OpenSpare(d)
  BY <1>0, <1>1, <1>3, AtWork DEF OpenSpare
<1>4. CASE WriteSpare(d)
  <2> DEFINE new == [dl[d].img EXCEPT !.part = Next2(@)]
             mix == [file[dl[d].slot] EXCEPT !.part = "most", !.by = Mixed]
  <2>1. /\ file' = [file EXCEPT ![dl[d].slot] = IF @.by = d THEN new ELSE mix]
        /\ dl[d].pc = "writing"
    BY <1>4 DEF WriteSpare
  <2> HIDE DEF new, mix
  <2>2. QED
    BY <1>0, <1>1, <1>2, <2>1, AtWork
<1>5. QED
  BY <1>3, <1>4

LEMMA SpareChoices ==
  ASSUME Setting, NEW d \in Downloads, OpenSpare(d) \/ WriteSpare(d)
  PROVE  Choices' /\ file'[UpdateSeq] = file[UpdateSeq] /\ UNCHANGED <<rcp, pc, image, cli, storeVars>>
<1>1. /\ pc = "running" /\ Serves
      /\ \A s \in 0..1 \ {NextUpdateSeq} : file'[s] = file[s]
  BY SpareWrites
<1>2. /\ Quiet /\ ready /\ Agreement /\ verified = TRUE
      /\ Good(file, UpdateSeq) /\ Runs(file, rcp, UpdateSeq)
      /\ BootSeq(stored) = UpdateSeq /\ LoadedVerified(stored) = TRUE
      /\ UpdateSeq \in 0..1 /\ NextUpdateSeq # UpdateSeq
  BY <1>1, Running
<1>3. file'[UpdateSeq] = file[UpdateSeq]
  BY <1>1, <1>2
<1>4. UNCHANGED <<rcp, pc, image, cli, storeVars>>
  BY DEF OpenSpare, WriteSpare, NoCall, DlOnly, mainVars
<1>5. UNCHANGED <<stored, staged, call, ready, verified, UpdateSeq>> /\ staged = stored
  BY <1>2, <1>4 DEF storeVars, UpdateSeq, Agreement
<1>6. Safe(file', rcp', UpdateSeq, TRUE)
  BY <1>2, <1>3, <1>4 DEF Safe, Good, Runs
<1>7. SafeVal(file', rcp', stored)
  BY <1>2, <1>6 DEF SafeVal
<1>8. Choices'
  BY <1>2, <1>5, <1>6, <1>7 DEF Choices, Quiet
<1>9. QED
  BY <1>3, <1>4, <1>8

\* Beside the main loop, a step of a download that makes no call.
LEMMA BesideKeeps ==
  ASSUME Setting, pc = "running", Serves, Serves', NEW d \in Downloads,
         \A e \in Downloads : e # d => dl'[e] = dl[e],
         UNCHANGED <<rcp, pc, image, cli, storeVars>>, file'[UpdateSeq] = file[UpdateSeq]
  PROVE  /\ MainCalls' /\ DlCalls' /\ MainReady' /\ MainRadio' /\ MainFails' /\ MainWrote'
         /\ MainEnter' /\ MainRuns'
<1>1. UNCHANGED <<ready, call, verified, UpdateSeq>> /\ Current' = Current
  BY DEF storeVars, UpdateSeq, Current
<1>2. \A e \in Downloads : call[e].pc = "idle"
  BY DEF Serves
<1>3. DlCalls'
  BY <1>1, <1>2 DEF Serves
<1>4. MainCalls' /\ MainReady' /\ MainRadio' /\ MainFails' /\ MainWrote' /\ MainEnter' /\ MainRuns'
  BY <1>1
<1>5. QED
  BY <1>3, <1>4

LEMMA StartKeeps ==
  ASSUME Setting, NEW d \in Downloads, NEW v \in Versions, StartDownload(d, v)
  PROVE  Rest'
<1> DEFINE i == [part |-> "empty", ver |-> v, by |-> d]
           r == [pc |-> "begun", slot |-> 0, img |-> i]
<1>0. dl \in [Downloads -> DlType]
  BY DEF TypeInv, Types, TypeDl
<1>1. /\ pc = "running" /\ dl[d].pc = "idle" /\ dl' = [dl EXCEPT ![d] = r]
      /\ UNCHANGED <<file, rcp, pc, image, cli, storeVars>>
  BY DEF StartDownload, DlSet, NoCall, DlOnly, mainVars
<1>2. dl'[d].pc = "begun" /\ dl'[d].img.by = d
  BY <1>0, <1>1
<1>3. \A e \in Downloads : e = d
  BY DEF OneDownload
<1>4. Serves /\ Serves'
  BY <1>1, <1>2, <1>3 DEF Serves
<1>5. DlRuns' /\ DlFile' /\ DlWhole'
  BY <1>1, <1>2, <1>3
<1>6. QED
  BY <1>1, <1>3, <1>4, <1>5, BesideKeeps, SameChoices DEF Rest

LEMMA OpenKeeps ==
  ASSUME Setting, NEW d \in Downloads, OpenSpare(d)
  PROVE  Rest'
<1> DEFINE r == [pc |-> "writing", slot |-> NextUpdateSeq, img |-> dl[d].img]
<1>0. dl \in [Downloads -> DlType] /\ file \in [0..1 -> Image] /\ NextUpdateSeq \in 0..1
  BY Slots DEF TypeInv, Types, TypeDl, TypeFile
<1>1. /\ dl[d].pc = "begun" /\ dl' = [dl EXCEPT ![d] = r]
      /\ file' = [file EXCEPT ![NextUpdateSeq] = dl[d].img]
  BY DEF OpenSpare, DlSet
<1>2. dl'[d].pc = "writing" /\ dl'[d].img = dl[d].img /\ dl'[d].slot = NextUpdateSeq
  BY <1>0, <1>1
<1>3. pc = "running" /\ Serves /\ dl[d].img.by = d /\ \A e \in Downloads : e = d
  BY <1>1, AtWork
<1>4. Serves'
  BY <1>2, <1>3 DEF Serves
<1>5. /\ Choices' /\ file'[UpdateSeq] = file[UpdateSeq]
      /\ UNCHANGED <<rcp, pc, image, cli, storeVars>>
  BY SpareChoices
<1>6. NextUpdateSeq' = NextUpdateSeq
  BY <1>5 DEF storeVars, UpdateSeq, NextUpdateSeq
<1>7. DlRuns' /\ DlFile' /\ DlWhole'
  BY <1>0, <1>1, <1>2, <1>3, <1>5, <1>6
<1>8. QED
  BY <1>3, <1>4, <1>5, <1>7, BesideKeeps DEF Rest

LEMMA WriteKeeps ==
  ASSUME Setting, NEW d \in Downloads, WriteSpare(d)
  PROVE  Rest'
<1> DEFINE new == [dl[d].img EXCEPT !.part = Next2(@)]
           mix == [file[dl[d].slot] EXCEPT !.part = "most", !.by = Mixed]
           p   == IF new.part = "whole" THEN "finished" ELSE "writing"
           r   == [pc |-> p, slot |-> dl[d].slot, img |-> new]
<1>0. dl \in [Downloads -> DlType] /\ file \in [0..1 -> Image] /\ NextUpdateSeq \in 0..1
  BY Slots DEF TypeInv, Types, TypeDl, TypeFile
<1>1. /\ dl[d].pc = "writing" /\ dl' = [dl EXCEPT ![d] = r]
      /\ file' = [file EXCEPT ![dl[d].slot] = IF @.by = d THEN new ELSE mix]
  BY DEF WriteSpare, DlSet
<1>2. dl[d].slot = NextUpdateSeq /\ file[dl[d].slot] = dl[d].img /\ dl[d].img.by = d
  BY <1>1
<1>3. new.by = d
  BY <1>1, <1>2, NextImage
<1> HIDE DEF new, mix
<1>4. p \in {"writing", "finished"} /\ (p = "finished" => new.part = "whole")
  OBVIOUS
<1> HIDE DEF p
<1>5. dl'[d].pc = p /\ dl'[d].img = new /\ dl'[d].slot = NextUpdateSeq
  BY <1>0, <1>1, <1>2
<1>6. file'[NextUpdateSeq] = new
  BY <1>0, <1>1, <1>2
<1>7. pc = "running" /\ Serves /\ \A e \in Downloads : e = d
  BY <1>1, AtWork
<1>8. Serves'
  BY <1>4, <1>5, <1>7 DEF Serves
<1>9. /\ Choices' /\ file'[UpdateSeq] = file[UpdateSeq]
      /\ UNCHANGED <<rcp, pc, image, cli, storeVars>>
  BY SpareChoices
<1>10. NextUpdateSeq' = NextUpdateSeq
  BY <1>9 DEF storeVars, UpdateSeq, NextUpdateSeq
<1>11. DlRuns' /\ DlFile' /\ DlWhole'
  BY <1>3, <1>4, <1>5, <1>6, <1>7, <1>9, <1>10
<1>12. QED
  BY <1>7, <1>8, <1>9, <1>11, BesideKeeps DEF Rest

LEMMA DownloadFailsKeeps ==
  ASSUME Setting, NEW d \in Downloads, DownloadFails(d)
  PROVE  Rest'
<1>0. dl \in [Downloads -> DlType]
  BY DEF TypeInv, Types, TypeDl
<1>1. /\ dl[d].pc \in {"begun", "writing"} /\ dl' = [dl EXCEPT ![d] = DlIdle]
      /\ UNCHANGED <<file, rcp, pc, image, cli, storeVars>>
  BY DEF DownloadFails, NoCall, DlOnly, mainVars
<1>2. dl'[d].pc = "idle"
  BY <1>0, <1>1 DEF DlIdle
<1>3. pc = "running" /\ Serves /\ \A e \in Downloads : e = d
  BY <1>1, AtWork
<1>4. Serves'
  BY <1>2, <1>3 DEF Serves
<1>5. DlRuns' /\ DlFile' /\ DlWhole'
  BY <1>2, <1>3
<1>6. QED
  BY <1>1, <1>3, <1>4, <1>5, BesideKeeps, SameChoices DEF Rest

\* The steps of a submission, after which no download serves.
LEMMA SubmittingKeeps ==
  ASSUME Setting, NEW d \in Downloads, pc = "running", ~Serves', ready' = ready, Choices',
         dl'[d].pc \in {"submitting", "restart"}, dl'[d].img.by = d,
         call'[d].pc # "idle" <=> dl'[d].pc = "submitting",
         call'[d].pc \in {"idle", "flag", "set", "commit"},
         call'[d].pc = "flag" => verified',
         call'[Main] = call[Main], UNCHANGED <<file, rcp, pc, image, cli>>
  PROVE  Rest'
<1>1. \A e \in Downloads : e = d
  BY DEF OneDownload
<1>2. MainCalls' /\ DlCalls'
  BY <1>1
<1>3. MainReady' /\ MainRadio' /\ MainFails' /\ MainWrote' /\ MainEnter' /\ MainRuns'
  BY DEF Serves
<1>4. DlRuns' /\ DlFile' /\ DlWhole'
  BY <1>1
<1>5. QED
  BY <1>2, <1>3, <1>4 DEF Rest

\* Only a whole image is submitted, and the one that runs is its fallback.
LEMMA SubmitKeeps ==
  ASSUME Setting, NEW d \in Downloads, Submit(d)
  PROVE  Rest'
<1>0. /\ dl \in [Downloads -> DlType] /\ call \in [Callers -> [pc : CallPCs, val : Encoded]]
      /\ d \in Callers /\ Main \in Callers /\ Main # d
  BY UpdateAssumption DEF TypeInv, StoreTypeOK, Types, TypeDl
<1>1. /\ dl[d].pc = "finished" /\ dl' = [dl EXCEPT ![d].pc = "submitting"]
      /\ call' = [call EXCEPT ![d].pc = "flag"] /\ update_seq' = NextUpdateSeq
      /\ UNCHANGED <<file, rcp, pc, image, cli, verified, ready, stored, staged>>
  BY DEF Submit, SubmitNewImage, Goto, DlGoto, DlOnly, mainVars
<1>2. pc = "running" /\ Serves /\ dl[d].img.by = d
  BY <1>1, AtWork
<1>3. /\ Quiet /\ verified = TRUE /\ Good(file, UpdateSeq) /\ UpdateSeq \in 0..1
  BY <1>2, Running
<1>4. file[NextUpdateSeq].part = "whole"
  BY <1>1
<1>5. Safe(file, rcp, NextUpdateSeq, TRUE)
  BY <1>3, <1>4 DEF Safe, Fallback, NextUpdateSeq
<1>6. UpdateSeq' = NextUpdateSeq
  BY <1>1, <1>3 DEF UpdateSeq, SeqOf
<1>7. /\ call'[d].pc = "flag" /\ call'[Main] = call[Main]
      /\ \A c \in Callers : call'[c].pc \notin {"mark", "seq"}
  BY <1>0, <1>1, <1>3 DEF Quiet
<1>8. Choices'
  BY <1>1, <1>3, <1>5, <1>6, <1>7 DEF Choices
<1>9. dl'[d].pc = "submitting" /\ dl'[d].img = dl[d].img
  <2>1. dl[d] \in [pc : DlPCs, slot : 0..1, img : Image]
    BY <1>0 DEF DlType
  <2>2. QED
    BY <1>0, <1>1, <2>1
<1>10. ~Serves'
  BY <1>9 DEF Serves
<1>11. QED
  BY <1>1, <1>2, <1>3, <1>7, <1>8, <1>9, <1>10, SubmittingKeeps

LEMMA DlCallKeeps ==
  ASSUME Setting, NEW d \in Downloads, DlCall(d)
  PROVE  Rest'
<1>0. /\ call \in [Callers -> [pc : CallPCs, val : Encoded]]
      /\ d \in Callers /\ Main \in Callers /\ Main # d
  BY UpdateAssumption DEF TypeInv, StoreTypeOK
<1>1. UNCHANGED <<file, rcp, pc, image, cli, dl>> /\ CallStep(d)
  BY DEF DlCall, CallStep, fileVars, mainVars
<1>2. call[d].pc # "idle" /\ ready' = ready
  BY DEF DlCall, SubmitFlag, NvsSet, At
<1>3. dl[d].pc = "submitting" /\ pc = "running" /\ dl[d].img.by = d
  BY <1>2
<1>4. call'[d].pc \in {"set", "commit"} /\ call'[Main] = call[Main]
  <2>1. CASE SubmitFlag(d)
    BY <1>0, <2>1 DEF SubmitFlag, Step
  <2>2. CASE NvsSet(d)
    BY <1>0, <2>2 DEF NvsSet, Goto
  <2>3. QED
    BY <2>1, <2>2 DEF DlCall
<1>5. Choices'
  BY <1>0, <1>1, CallChoices
<1>6. ~Serves'
  BY <1>1, <1>3 DEF Serves
<1>7. QED
  BY <1>1, <1>2, <1>3, <1>4, <1>5, <1>6, SubmittingKeeps

LEMMA DownloadEndsKeeps ==
  ASSUME Setting, NEW d \in Downloads, DownloadEnds(d)
  PROVE  Rest'
<1>0. /\ dl \in [Downloads -> DlType] /\ call \in [Callers -> [pc : CallPCs, val : Encoded]]
      /\ d \in Callers /\ Main \in Callers /\ Main # d
  BY UpdateAssumption DEF TypeInv, StoreTypeOK, Types, TypeDl
<1>1. /\ dl[d].pc = "submitting" /\ NvsCommit(d) /\ dl' = [dl EXCEPT ![d].pc = "restart"]
      /\ UNCHANGED <<file, rcp, pc, image, cli>>
  BY DEF DownloadEnds, DlGoto, DlOnly, mainVars, Fault, Undisturbed
<1>2. pc = "running" /\ dl[d].img.by = d
  BY <1>1
<1>3. Choices'
  BY <1>0, <1>1, CallChoices DEF CallStep
<1>4. call'[d].pc = "idle" /\ call'[Main] = call[Main] /\ ready' = ready
  BY <1>0, <1>1 DEF NvsCommit, Return, Idle
<1>5. dl'[d].pc = "restart" /\ dl'[d].img = dl[d].img
  <2>1. dl[d] \in [pc : DlPCs, slot : 0..1, img : Image]
    BY <1>0 DEF DlType
  <2>2. QED
    BY <1>0, <1>1, <2>1
<1>6. ~Serves'
  BY <1>5 DEF Serves
<1>7. QED
  BY <1>1, <1>2, <1>3, <1>4, <1>5, <1>6, SubmittingKeeps

LEMMA StutterKeeps ==
  ASSUME Setting, UNCHANGED vars
  PROVE  Rest'
<1>1. UNCHANGED <<storeVars, file, rcp, pc, image, cli, dl>>
  BY DEF vars
<1>2. UNCHANGED <<call, ready, verified, UpdateSeq, NextUpdateSeq, Current>>
  BY <1>1 DEF storeVars, UpdateSeq, NextUpdateSeq, Current
<1>3. Choices'
  BY <1>1, SameChoices
<1>4. MainCalls' /\ DlCalls' /\ DlRuns' /\ DlFile' /\ DlWhole'
  BY <1>1, <1>2
<1>5. MainReady' /\ MainRadio' /\ MainFails' /\ MainWrote' /\ MainEnter' /\ MainRuns'
  BY <1>1, <1>2 DEF Serves
<1>6. QED
  BY <1>3, <1>4, <1>5 DEF Rest

HIDE DEF Setting, InstallInv, MainCalls, DlCalls, MainAt, MainReady, MainRadio, MainFails,
        MainWrote, MainEnter, MainRuns, DlRuns, DlFile, DlWhole

-----------------------------------------------------------------------------
LEMMA InstallStep ==
  ASSUME Setting, [UpdateNext]_vars
  PROVE  InstallInv'
<1>1. Rest'
  <2>1. CASE MainStep
    <3>1. CASE UpdateAborts \/ AfterUpdate
      BY <3>1, RebootKeeps DEF UpdateAborts, AfterUpdate, Setting, InstallInv, MainAt, MainReady
    <3>2. QED
      BY <2>1, <3>1, NoReject, BootKeeps, RadioUpKeeps, RadioFailsKeeps, HandleFailureKeeps,
         FailureLoadsKeeps, TryLoadsKeeps, OpensKeeps, DoneKeeps, MarkKeeps, EnterKeeps,
         MainCallKeeps DEF MainStep
  <2>2. CASE PowerLoss
    BY <2>2, RebootKeeps DEF PowerLoss
  <2>3. ASSUME NEW d \in Downloads, DlStep(d)
        PROVE  Rest'
    <3>1. CASE DownloadRestarts(d)
      BY <3>1, RebootKeeps DEF DownloadRestarts
    <3>2. QED
      BY <2>3, <3>1, OpenKeeps, WriteKeeps, DownloadFailsKeeps, SubmitKeeps, DownloadEndsKeeps,
         DlCallKeeps DEF DlStep
  <2>4. QED
    BY <2>1, <2>2, <2>3, NoReject, StartKeeps, StutterKeeps DEF UpdateNext
<1>2. TypeInv' /\ SerialInv' /\ ret' = "ok"
  BY TypesStep, SerialKept, RetKept DEF Setting, InstallInv
<1>3. QED
  BY <1>1, <1>2 DEF Rest, InstallInv, MainAt

LEMMA InstallStart == InstallInit => InstallInv
<1> SUFFICES ASSUME InstallInit
             PROVE  InstallInv
  OBVIOUS
<1>1. TypeInv /\ SerialInv
  BY TypesStart, SerialInit DEF InstallInit, UpdateInitState
<1>2. /\ ret = "ok" /\ ~ready /\ staged = stored /\ pc = "off" /\ cli = FALSE
      /\ \A c \in Callers : call[c].pc = "idle"
      /\ \A d \in Downloads : dl[d].pc = "idle"
  BY DEF InstallInit, UpdateInitState, StoreInit, Idle, DlIdle
<1>3. SafeVal(file, rcp, stored)
  BY DEF InstallInit, Working, SafeVal, Safe, Runs
<1>4. Choices
  BY <1>2, <1>3 DEF Choices
<1>5. MainCalls /\ DlCalls
  BY <1>2, UpdateAssumption DEF MainCalls, DlCalls
<1>6. MainAt
  BY <1>2 DEF MainAt, MainReady, MainRadio, MainFails, MainWrote, MainEnter, MainRuns
<1>7. DlRuns /\ DlFile /\ DlWhole
  BY <1>2 DEF DlRuns, DlFile, DlWhole
<1>8. QED
  BY <1>1, <1>2, <1>4, <1>5, <1>6, <1>7 DEF InstallInv

\* From a border router that works, through any number of downloads one after
\* another, losses of power and failed writes, the invariant holds.
THEOREM InstallInvariant ==
  ASSUME OneDownload, Undisturbed
  PROVE  InstallSpec => []InstallInv
<1>1. InstallInv /\ [UpdateNext]_vars => InstallInv'
  BY InstallStep DEF Setting
<1>2. QED
  BY <1>1, InstallStart, PTL DEF InstallSpec, Steps

-----------------------------------------------------------------------------
(* What the invariant gives.                                               *)

LEMMA BootSlot ==
  ASSUME NEW val \in Encoded \cup {Absent}
  PROVE  BootSeq(val) \in 0..1
BY Loading, Selecting DEF BootSeq

\* A choice that is trusted on disk names a complete image: a download that was
\* cut short, or is still being written, is never what a boot will select.
THEOREM AppliedWhole ==
  ASSUME OneDownload, Undisturbed
  PROVE  InstallSpec => []AppliedIsWhole
<1>1. InstallInv => AppliedIsWhole
  BY DEF InstallInv, Choices, SafeVal, Safe, AppliedIsWhole, BootSeq, SeqOf
<1>2. QED
  BY <1>1, InstallInvariant, PTL

\* There is always a complete image of a version that boots: the one that runs
\* until its successor runs, whatever the successor turns out to be.
THEOREM BackupKept ==
  ASSUME OneDownload, Undisturbed
  PROVE  InstallSpec => []WayBack
<1>1. InstallInv => WayBack
  <2> SUFFICES ASSUME InstallInv
               PROVE  WayBack
    OBVIOUS
  <2>1. SafeVal(file, rcp, stored) /\ BootSeq(stored) \in 0..1
    BY BootSlot DEF InstallInv, Choices, TypeInv, StoreTypeOK
  <2>2. \E s \in 0..1 : Good(file, s)
    BY <2>1 DEF SafeVal, Safe, Fallback, Good, Runs
  <2>3. QED
    BY <2>2 DEF WayBack, Good
<1>2. QED
  BY <1>1, InstallInvariant, PTL

\* The main loop runs with an RCP that was flashed from the current image, and
\* that choice is trusted.
THEOREM RunsTheCurrent ==
  ASSUME OneDownload, Undisturbed
  PROVE  InstallSpec => []RunsCurrent
<1>1. InstallInv => RunsCurrent
  <2> SUFFICES ASSUME InstallInv, pc = "running", Quiet, \A d \in Downloads : dl[d].pc # "restart"
               PROVE  verified /\ rcp = Current.ver
    BY DEF RunsCurrent
  <2>1. Serves
    BY CallersAre DEF InstallInv, DlCalls, Quiet, Serves
  <2>2. QED
    BY <2>1 DEF InstallInv, MainAt, MainRuns
<1>2. QED
  BY <1>1, InstallInvariant, PTL

\* A download never touches an image that the next boot may select.
THEOREM CurrentKept ==
  ASSUME OneDownload, Undisturbed
  PROVE  InstallSpec => CurrentIntact
<1>1. InstallInv /\ [UpdateNext]_vars => [\A s \in BootSlots : file'[s] = file[s]]_vars
  <2> SUFFICES ASSUME InstallInv, [UpdateNext]_vars, NEW s \in BootSlots
               PROVE  file'[s] = file[s]
    OBVIOUS
  <2>1. CASE file' = file
    BY <2>1
  <2>2. ASSUME NEW d \in Downloads, OpenSpare(d) \/ WriteSpare(d)
        PROVE  file'[s] = file[s]
    <3>1. pc = "running" /\ Serves
      BY <2>2, SpareWrites DEF Setting
    <3>2. Agreement /\ BootSeq(stored) = UpdateSeq
      BY <3>1, Running DEF Setting
    <3>3. s = UpdateSeq
      BY <3>2 DEF BootSlots, Agreement
    <3>4. QED
      BY <2>2, <3>3, SpareChoices DEF Setting
  <2>3. QED
    BY <2>1, <2>2, FileWrites
<1>2. QED
  BY <1>1, InstallInvariant, PTL DEF InstallSpec, Steps, CurrentIntact

-----------------------------------------------------------------------------
(* Recovery: no download is started, and anything may fail: the radio, the *)
(* connection to the RCP, a write to it, NVS, and the power.               *)

\* The OpenThread task calls the API at three of its steps, and enters the main
\* loop only by way of a version that agreed with the RCP.
EnterInv ==
  /\ pc \notin {"load", "marked", "enter"} => call[Main].pc = "idle"
  /\ pc = "enter" => call[Main].pc \in {"idle", "mark", "seq", "set", "commit"}
  /\ pc = "enter" /\ call[Main].pc = "seq" => verified = Flagged(call[Main].val)
  /\ pc = "agree" => rcp = Current.ver
  /\ MainEnter

Alone == TypeInv /\ EnterInv /\ Downloads = {}

\* A step that stays away from the last two program counters.
LEMMA AwayEnters ==
  ASSUME Alone, pc' \notin {"agree", "enter"},
         pc' \notin {"load", "marked", "enter"} => call'[Main].pc = "idle"
  PROVE  EnterInv'
BY DEF EnterInv, MainEnter

LEMMA MarkEnters ==
  ASSUME Alone, Mark
  PROVE  EnterInv'
<1>0. call \in [Callers -> [pc : CallPCs, val : Encoded]] /\ UpdateSeq \in 0..1
      /\ Main \in Callers
  BY Slots, CallersAre DEF Alone, TypeInv, StoreTypeOK
<1>1. CASE pc = "agree"
  <2> DEFINE val == WithFlag(UpdateSeq)
  <2>1. /\ pc' = "enter" /\ UNCHANGED <<file, rcp>>
        /\ call' = [call EXCEPT ![Main] = [pc |-> "mark", val |-> val]]
    BY <1>1 DEF Mark, Become, MainOnly, fileVars, MarkImageVerified, Step
  <2>2. Flagged(val) = TRUE /\ Cleared(val) = UpdateSeq
    BY <1>0, Encoding
  <2> HIDE DEF val
  <2>3. call'[Main].pc = "mark" /\ call'[Main].val = val
    BY <1>0, <2>1
  <2>4. rcp = file[UpdateSeq].ver
    BY <1>1 DEF Alone, EnterInv, Current
  <2>5. QED
    BY <2>1, <2>2, <2>3, <2>4 DEF EnterInv, MainEnter
<1>2. CASE pc # "agree"
  BY <1>2, AwayEnters DEF Mark, Become
<1>3. QED
  BY <1>1, <1>2

LEMMA CallEnters ==
  ASSUME Alone, MainCall
  PROVE  EnterInv'
<1>0. /\ call \in [Callers -> [pc : CallPCs, val : Encoded]] /\ Main \in Callers
      /\ call[Main].val \in Encoded
  BY CallersAre DEF Alone, TypeInv, StoreTypeOK
<1>1. /\ CallStep(Main) \/ NvsFail(Main)
      /\ UNCHANGED <<file, rcp, pc>>
  BY DEF MainCall, fileVars, mainVars
<1>2. call[Main].pc # "idle"
  BY <1>1 DEF CallStep, SubmitFlag, MarkFlag, MarkSeq, UnusableClear, NvsSet, NvsCommit,
              NvsFail, At
<1>3. pc \in {"load", "marked", "enter"}
  BY <1>2 DEF Alone, EnterInv
<1>4. CASE pc # "enter"
  BY <1>1, <1>3, <1>4, AwayEnters
<1>5. CASE pc = "enter"
  <2>1. CASE MarkFlag(Main)
    <3>1. /\ call[Main].pc = "mark" /\ verified' = Flagged(call[Main].val)
          /\ call'[Main].pc = "seq" /\ call'[Main].val = call[Main].val
      BY <1>0, <2>1 DEF MarkFlag, Goto, At
    <3>2. QED
      BY <1>1, <1>5, <3>1 DEF Alone, EnterInv, MainEnter
  <2>2. CASE MarkSeq(Main)
    <3>1. /\ call[Main].pc = "seq" /\ update_seq' = Cleared(call[Main].val)
          /\ call'[Main].pc = "set" /\ verified' = verified
      BY <1>0, <2>2 DEF MarkSeq, Goto, At
    <3>2. Flagged(call[Main].val) /\ rcp = file[Cleared(call[Main].val)].ver
          /\ verified = Flagged(call[Main].val)
      BY <1>5, <3>1 DEF Alone, EnterInv, MainEnter
    <3>3. QED
      BY <1>1, <1>5, <3>1, <3>2 DEF EnterInv, MainEnter, Current, UpdateSeq, SeqOf
  <2>3. CASE NvsSet(Main) \/ NvsCommit(Main) \/ NvsFail(Main)
    <3>1. /\ call[Main].pc \in {"set", "commit"} /\ call'[Main].pc \in {"commit", "idle"}
          /\ UNCHANGED <<update_seq, verified>>
      <4>1. CASE NvsSet(Main)
        BY <1>0, <4>1 DEF NvsSet, Goto, At
      <4>2. CASE NvsCommit(Main)
        BY <1>0, <4>2 DEF NvsCommit, Return, Idle, At
      <4>3. CASE NvsFail(Main)
        BY <1>0, <4>3 DEF NvsFail, Return, Idle, At
      <4>4. QED
        BY <2>3, <4>1, <4>2, <4>3
    <3>2. Current' = Current
      BY <1>1, <3>1 DEF Current, UpdateSeq
    <3>3. QED
      BY <1>1, <1>5, <3>1, <3>2 DEF Alone, EnterInv, MainEnter
  <2>4. QED
    BY <1>1, <1>5, <2>1, <2>2, <2>3
       DEF Alone, EnterInv, CallStep, SubmitFlag, UnusableClear, At
<1>6. QED
  BY <1>4, <1>5

LEMMA EnterStep ==
  ASSUME Alone, [UpdateNext]_vars
  PROVE  EnterInv'
<1>0. call \in [Callers -> [pc : CallPCs, val : Encoded]] /\ Main \in Callers
  BY CallersAre DEF Alone, TypeInv, StoreTypeOK
<1>1. CASE Reboot
  BY <1>0, <1>1, AwayEnters DEF Reboot, Restart, Idle
<1>2. CASE Boot
  BY <1>2, AwayEnters DEF Boot, UpdateInit, Become, Alone, EnterInv
<1>3. CASE RadioUp
  BY <1>3, AwayEnters DEF RadioUp, NoCall, storeVars, Become, Alone, EnterInv
<1>4. CASE RadioFails
  BY <1>4, AwayEnters DEF RadioFails, NoCall, storeVars, Become, Alone, EnterInv
<1>5. CASE HandleFailure
  BY <1>5, AwayEnters DEF HandleFailure, Become
<1>6. CASE FailureLoads
  BY <1>6, AwayEnters DEF FailureLoads, NoCall, storeVars, Become, MainFree, At
<1>7. CASE TryLoads
  <2>1. /\ UNCHANGED <<call, rcp>> /\ call[Main].pc = "idle"
        /\ Current' = Current
        /\ pc' = "agree" => Current.ver = rcp
        /\ pc' # "enter"
    BY <1>7 DEF TryLoads, NoCall, storeVars, MainOnly, fileVars, Become, Alone, EnterInv,
                Current, UpdateSeq
  <2>2. QED
    BY <2>1 DEF EnterInv, MainEnter
<1>8. CASE UpdateOpens
  BY <1>8, AwayEnters DEF UpdateOpens, NoCall, storeVars, Alone, EnterInv
<1>9. CASE UpdateFails
  BY <1>9, AwayEnters DEF UpdateFails, NoCall, storeVars, Become, Alone, EnterInv
<1>10. CASE UpdateDone \/ UpdateOfNothing
  BY <1>10, AwayEnters DEF UpdateDone, UpdateOfNothing, NoCall, storeVars, Become, Alone, EnterInv
<1>11. CASE AfterUpdate
  BY <1>1, <1>11, AwayEnters DEF AfterUpdate, NoCall, storeVars, MainFree, At
<1>12. CASE EnterMainLoop
  BY <1>12, AwayEnters DEF EnterMainLoop, NoCall, storeVars, Become, MainFree, At
<1>13. CASE UserUpdate
  BY <1>13, AwayEnters DEF UserUpdate, NoCall, storeVars, Alone, EnterInv
<1>14. CASE UNCHANGED vars
  BY <1>14 DEF vars, storeVars, Alone, EnterInv, MainEnter, Current, UpdateSeq
<1>15. QED
  BY <1>1, <1>2, <1>3, <1>4, <1>5, <1>6, <1>7, <1>8, <1>9, <1>10, <1>11, <1>12, <1>13,
     <1>14, MarkEnters, CallEnters
     DEF UpdateNext, MainStep, UpdateAborts, PowerLoss, Alone

\* The boot path reaches the main loop only with a trusted current image that
\* the RCP runs, whatever images it started from and whatever failed.
THEOREM EntersTheCurrent == ASSUME Downloads = {} PROVE UpdateSpec => []EntersCurrent
<1>1. UpdateInitState => EnterInv
  BY UpdateAssumption DEF UpdateInitState, StoreInit, Idle, EnterInv, MainEnter
<1>2. TypeInv /\ EnterInv /\ [UpdateNext]_vars => EnterInv'
  BY EnterStep DEF Alone
<1>3. EnterInv => EntersCurrent
  BY DEF EnterInv, MainEnter, EntersCurrent, MainFree, At
<1>4. QED
  BY <1>1, <1>2, <1>3, UpdateTypes, PTL DEF UpdateSpec
=============================================================================
